--------------------------- MODULE RuntimeMessages ---------------------------
(***************************************************************************)
(* What the threads of the playback runtime say to each other: the         *)
(* messages of the control inbox, the results the control thread hands to  *)
(* the effect thread, and the two channels themselves, which are           *)
(* unbounded FIFO std::sync::mpsc channels.                                *)
(*                                                                         *)
(* A channel dies with its receiver: `control` and `effect` say whether    *)
(* the threads that own the two receiving ends still run.                  *)
(*                                                                         *)
(* A playback session is identified by the epoch at which its worker was   *)
(* spawned.  The `session` field of a message is a history value: the      *)
(* code does not carry it, the properties speak about it.                  *)
(***************************************************************************)
EXTENDS Integers, Sequences, PlayerState

CONSTANTS
    MaxEpoch,   \* the largest value of the epoch counter (u64::MAX in the code)
    Faults,     \* what the environment may do wrong, a subset of FaultKinds
    UserCommands    \* what the user may ask for, a subset of Commands

FaultKinds ==
    {"thread",      \* the operating system refuses to start a thread
     "build",       \* the pipeline cannot be built
     "pipeline",    \* an operation of a pipeline returns an error
     "panic"}       \* pipeline code panics on the worker thread

ASSUME MaxEpochAssumption == MaxEpoch \in Nat
ASSUME FaultsAssumption == Faults \subseteq FaultKinds

Epochs == 0 .. MaxEpoch

Commands == {"Prepare", "Play", "Pause", "Seek", "Stop", "Release"}

ASSUME UserCommandsAssumption == UserCommands \subseteq Commands

Feedbacks ==
    {"DurationChanged", "PreparationCompleted", "AudioProgress", "SeekCompleted",
     "PlaybackCompleted", "Failed"}

(* ControlMessage: a command has no epoch, and its epoch and session are 0. *)
Messages == [type : Commands \cup Feedbacks, epoch : Epochs, session : Epochs]

Effects ==
    {"BeginPrepare", "StartPlayback", "PausePlayback", "Seek", "Stop", "Release",
     "CleanupAfterFailure"}

Events ==
    {"StateChanged", "PlaybackFailed", "CommandRejected", "DurationChanged",
     "AudioProgress", "SeekCompleted"}

(***************************************************************************)
(* ControlResult: an optional event about the step from player state       *)
(* `before` to `after`, an optional effect, and their epoch.  The event    *)
(* "ControlError" stands for an Err other than CommandRejected.            *)
(***************************************************************************)
Results ==
    [event : Events \cup {"None", "ControlError"}, before : PlayerStates, after : PlayerStates,
     effect : Effects \cup {"None"}, epoch : Epochs, resume : BOOLEAN]

ControlExits == {"Released", "InputDisconnected", "OutputDisconnected", "FatalControlError"}

EffectExits ==
    {"Released", "ResultsDisconnected", "FeedbackDisconnected", "ControlFailed",
     "TerminalEffectFailed", "NotStarted"}

VARIABLES
    inbox,      \* messages to the control thread
    results,    \* results the effect thread has not received
    control,    \* "running", or how the control loop exited
    effect      \* "receiving", "joining" a worker, or how the effect loop exited

ControlAlive == control = "running"
EffectAlive == effect \notin EffectExits

ChannelsTypeOK ==
    /\ inbox \in Seq(Messages)
    /\ results \in Seq(Results)
    /\ control \in {"running"} \cup ControlExits
    /\ effect \in {"receiving", "joining"} \cup EffectExits

==============================================================================
