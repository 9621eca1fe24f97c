----------------------------- MODULE ControlLoop -----------------------------
(***************************************************************************)
(* The control thread (runtime/control_loop.rs) and the player controller  *)
(* it owns (runtime/player_controller.rs).  One message is handled per     *)
(* step: the player state and the epoch change, one result is sent to the  *)
(* effect thread, and the loop goes on or exits.                           *)
(***************************************************************************)
EXTENDS RuntimeMessages

VARIABLES
    state,      \* PlayerController::state
    epoch       \* PlayerController::epoch

ControlInit ==
    /\ state = "Idle"
    /\ epoch = 0
    /\ control = "running"
    /\ inbox = <<>>
    /\ results = <<>>

ControlTypeOK == state \in PlayerStates /\ epoch \in Epochs

ActionOf ==
    [c \in Commands |-> IF c = "Prepare" THEN "BeginPrepare" ELSE c]

EffectOf ==
    [c \in Commands |->
        CASE c = "Prepare" -> "BeginPrepare"
          [] c = "Play" -> "StartPlayback"
          [] c = "Pause" -> "PausePlayback"
          [] OTHER -> c]

(* Mutants: a command that forgets to open a new epoch. *)
InvalidatingWithoutStop == {"Seek", "Release"}
InvalidatingWithoutSeek == {"Stop", "Release"}

(* Commands after which feedback of the work before them is stale. *)
InvalidatingCommands == {"Seek", "Stop", "Release"}

(* Mutant: feedback of any epoch is accepted. *)
AlwaysCurrent(m) == TRUE

(* The epoch test at the head of every branch of handle_worker_event. *)
IsCurrent(m) == m.epoch = epoch

Outcome(event, after, eff, e) ==
    [event |-> event, before |-> state, after |-> after, effect |-> eff, epoch |-> e,
     resume |-> after = "Playing"]

(* Mutant: the result channel is bounded and a result that finds no room is lost. *)
ReplyIfRoom(r) ==
    /\ results' = IF EffectAlive /\ results = <<>> THEN Append(results, r) ELSE results
    /\ control' = IF state' = "Released" THEN "Released" ELSE "running"
    /\ inbox' = IF control' = "running" THEN Tail(inbox) ELSE <<>>

(***************************************************************************)
(* The tail of an iteration of ControlLoop::run: send the result, then     *)
(* decide.  The state is Released only after a Release was accepted; the   *)
(* inbox disappears with the thread that owns it.                          *)
(***************************************************************************)
Reply(r) ==
    /\ results' = IF EffectAlive THEN Append(results, r) ELSE results
    /\ control' = IF ~EffectAlive THEN "OutputDisconnected"
                  ELSE IF r.event = "ControlError" THEN "FatalControlError"
                  ELSE IF state' = "Released" THEN "Released"
                  ELSE "running"
    /\ inbox' = IF control' = "running" THEN Tail(inbox) ELSE <<>>

KeepPlayer == UNCHANGED <<state, epoch>>

-----------------------------------------------------------------------------
(* PlayerController::handle_command *)

AcceptCommand(c) ==
    \E next \in PlayerStates :
        /\ Transition(state, ActionOf[c], next)
        /\ next # state \/ c = "Seek"
        /\ epoch' = IF c \in InvalidatingCommands THEN epoch + 1 ELSE epoch
        /\ epoch' \in Epochs
        /\ state' = next
        /\ Reply(Outcome(IF next # state THEN "StateChanged" ELSE "None",
                         next, EffectOf[c], epoch'))

(* Already in the target state: no effect, no event, no new epoch. *)
RepeatCommand(c) ==
    /\ c # "Seek"
    /\ Transition(state, ActionOf[c], state)
    /\ KeepPlayer
    /\ Reply(Outcome("None", state, "None", epoch))

RejectCommand(c) ==
    /\ ~Legal(state, ActionOf[c])
    /\ KeepPlayer
    /\ Reply(Outcome("CommandRejected", state, "None", epoch))

(* PlaybackEpoch::next overflows: the controller is left as it was. *)
OverflowCommand(c) ==
    /\ c \in InvalidatingCommands
    /\ epoch = MaxEpoch
    /\ \E next \in PlayerStates :
        Transition(state, ActionOf[c], next) /\ (next # state \/ c = "Seek")
    /\ KeepPlayer
    /\ Reply(Outcome("ControlError", state, "None", epoch))

HandleCommand(m) ==
    \/ AcceptCommand(m.type)
    \/ RepeatCommand(m.type)
    \/ RejectCommand(m.type)
    \/ OverflowCommand(m.type)

-----------------------------------------------------------------------------
(* PlayerController::handle_worker_event *)

DropStaleFeedback(m) ==
    /\ ~IsCurrent(m)
    /\ KeepPlayer
    /\ Reply(Outcome("None", state, "None", epoch))

(* Progress of the session: only an event for the user. *)
ForwardFeedback(m) ==
    /\ m.type \in {"DurationChanged", "AudioProgress", "SeekCompleted"}
    /\ IsCurrent(m)
    /\ KeepPlayer
    /\ Reply(Outcome(m.type, state, "None", epoch))

(* Mutant: completion changes the state without an event. *)
CompleteStageQuietly(m) ==
    /\ m.type \in {"PreparationCompleted", "PlaybackCompleted"}
    /\ IsCurrent(m)
    /\ \E next \in PlayerStates :
        /\ Transition(state, m.type, next)
        /\ state' = next
        /\ epoch' = epoch
        /\ Reply(Outcome("None", next, "None", epoch))

CompleteStage(m) ==
    /\ m.type \in {"PreparationCompleted", "PlaybackCompleted"}
    /\ IsCurrent(m)
    /\ \E next \in PlayerStates :
        /\ Transition(state, m.type, next)
        /\ state' = next
        /\ epoch' = epoch
        /\ Reply(Outcome("StateChanged", next, "None", epoch))

(* Mutant: a failure does not clean up. *)
AcceptFailureOnly(m) ==
    /\ m.type = "Failed"
    /\ IsCurrent(m)
    /\ epoch < MaxEpoch
    /\ state' = "Error"
    /\ epoch' = epoch + 1
    /\ Reply(Outcome("PlaybackFailed", "Error", "None", epoch'))

AcceptFailure(m) ==
    /\ m.type = "Failed"
    /\ IsCurrent(m)
    /\ Transition(state, "FatalError", "Error")
    /\ epoch < MaxEpoch
    /\ state' = "Error"
    /\ epoch' = epoch + 1
    /\ Reply(Outcome("PlaybackFailed", "Error", "CleanupAfterFailure", epoch'))

(***************************************************************************)
(* UnexpectedWorkEvent, or the epoch overflows on a failure: the control   *)
(* loop sends the error and stops for good.                                *)
(***************************************************************************)
FatalFeedback(m) ==
    /\ IsCurrent(m)
    /\ \/ /\ m.type \in {"PreparationCompleted", "PlaybackCompleted"}
          /\ ~Legal(state, m.type)
       \/ /\ m.type = "Failed"
          /\ ~Legal(state, "FatalError") \/ epoch = MaxEpoch
    /\ KeepPlayer
    /\ Reply(Outcome("ControlError", state, "None", epoch))

HandleFeedback(m) ==
    \/ DropStaleFeedback(m)
    \/ ForwardFeedback(m)
    \/ CompleteStage(m)
    \/ AcceptFailure(m)
    \/ FatalFeedback(m)

-----------------------------------------------------------------------------

(* One iteration of ControlLoop::run that receives a message. *)
ControlReceive ==
    /\ ControlAlive
    /\ inbox # <<>>
    /\ IF Head(inbox).type \in Commands
         THEN HandleCommand(Head(inbox))
         ELSE HandleFeedback(Head(inbox))
    /\ UNCHANGED effect

(* Every sender is gone and nothing is left to receive. *)
ControlDisconnect ==
    /\ ControlAlive
    /\ inbox = <<>>
    /\ control' = "InputDisconnected"
    /\ UNCHANGED <<state, epoch, inbox, results, effect>>

==============================================================================
