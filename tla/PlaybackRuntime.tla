--------------------------- MODULE PlaybackRuntime ---------------------------
(***************************************************************************)
(* The playback engine (engine.rs): a control thread, an effect thread and *)
(* the playback workers, started by PlayerEngine::new, driven by the       *)
(* commands of the user, and shut down by PlayerEngine::shutdown or Drop.  *)
(***************************************************************************)
EXTENDS ControlLoop, EffectLoop

VARIABLE engine     \* how far the engine has come, see EnginePhases

EnginePhases ==
    {"starting",        \* the control thread runs, the effect thread does not yet
     "open",            \* the user may send commands
     "joinControl", "joinEffect", "closed",     \* PlayerEngine::shutdown
     "aborting", "aborted"}                     \* the effect thread could not be started

vars == <<inbox, results, control, effect, state, epoch, worker, handle, task, seen, engine>>

Init ==
    /\ ControlInit
    /\ EffectInit
    /\ WorkerInit
    /\ engine = "starting"

TypeOK ==
    /\ ChannelsTypeOK
    /\ ControlTypeOK
    /\ WorkerTypeOK
    /\ EffectTypeOK
    /\ engine \in EnginePhases

-----------------------------------------------------------------------------
(* PlayerEngine *)

Post(m) == inbox' = IF ControlAlive THEN Append(inbox, m) ELSE inbox

EngineStart ==
    /\ engine = "starting"
    /\ \/ engine' = "open" /\ effect' = effect
       \/ /\ "thread" \in Faults
          /\ engine' = "aborting"
          /\ effect' = "NotStarted"
    /\ UNCHANGED <<inbox, results, control, state, epoch, worker, handle, task, seen>>

(* PlayerEngine::send_command: the commands may come at any time. *)
UserSend ==
    /\ engine = "open"
    /\ ControlAlive
    /\ Room
    /\ \E c \in UserCommands : Post([type |-> c, epoch |-> 0, session |-> 0])
    /\ UNCHANGED <<results, control, effect, state, epoch, worker, handle, task, seen, engine>>

(* shutdown sends one last Release, whatever was sent before. *)
ShutdownBegin ==
    /\ engine = "open"
    /\ engine' = "joinControl"
    /\ Post([type |-> "Release", epoch |-> 0, session |-> 0])
    /\ UNCHANGED <<results, control, effect, state, epoch, worker, handle, task, seen>>

ShutdownJoin ==
    /\ \/ engine = "joinControl" /\ ~ControlAlive /\ engine' = "joinEffect"
       \/ engine = "joinEffect" /\ ~EffectAlive /\ engine' = "closed"
       \/ engine = "aborting" /\ ~ControlAlive /\ engine' = "aborted"
    /\ UNCHANGED <<inbox, results, control, effect, state, epoch, worker, handle, task, seen>>

-----------------------------------------------------------------------------
(* The threads *)

ControlThread ==
    /\ ControlReceive \/ (engine = "aborting" /\ ControlDisconnect)
    /\ UNCHANGED <<worker, handle, task, seen, engine>>

EffectThread ==
    /\ engine # "starting"
    /\ EffectReceive \/ EffectJoined
    /\ UNCHANGED <<state, epoch, engine>>

WorkerThread(s) ==
    /\ WorkerNext(s)
    /\ UNCHANGED <<state, epoch, handle, task, seen, engine>>

Stopped ==
    /\ engine \in {"closed", "aborted"}
    /\ UNCHANGED vars

Next ==
    \/ EngineStart
    \/ UserSend
    \/ ShutdownBegin
    \/ ShutdownJoin
    \/ ControlThread
    \/ EffectThread
    \/ \E s \in Epochs : WorkerThread(s)
    \/ Stopped

Spec == Init /\ [][Next]_vars

(* The operating system runs every thread; the user need not do anything. *)
Fairness ==
    /\ WF_vars(EngineStart \/ ShutdownJoin)
    /\ WF_vars(ControlThread)
    /\ WF_vars(EffectThread)
    /\ \A s \in Epochs : WF_vars(WorkerThread(s))

FairSpec == Spec /\ Fairness

-----------------------------------------------------------------------------
(* Safety *)

(***************************************************************************)
(* The control loop never meets feedback its state machine cannot take     *)
(* (UnexpectedWorkEvent, fatal in ControlLoop::run): however commands,     *)
(* completions and failures overtake each other, the only control error    *)
(* that stops the player is the end of the epoch counter.                  *)
(***************************************************************************)
FatalOnlyAtEpochLimit == control = "FatalControlError" => epoch = MaxEpoch

(***************************************************************************)
(* Controller, executor and worker mean the same session, although each    *)
(* learns of failures and stops only through the others: a BeginPrepare    *)
(* finds no worker and a command finds one (no WorkerAlreadyExists, no     *)
(* WorkerNotPrepared), and apply_command never meets a command whose epoch *)
(* does not fit the pipeline (EpochMismatch, InvalidSeekEpoch).            *)
(***************************************************************************)
EffectsFindTheirWorker ==
    effect = "receiving" /\ results # <<>> =>
        /\ Head(results).effect = "BeginPrepare" => handle = NoSession
        /\ Head(results).effect \in {"StartPlayback", "PausePlayback", "Seek"} =>
              handle # NoSession

CommandsFitPipelines ==
    \A s \in Epochs :
        LET w == worker[s] IN
        w.phase = "receive" /\ w.pipeline # NoPipeline /\ w.queue # <<>> =>
            EpochAgrees(w, Head(w.queue))

SessionsMatch == EffectsFindTheirWorker /\ CommandsFitPipelines

(***************************************************************************)
(* A session starts only after the worker of the one before is gone (the   *)
(* join in Stop and CleanupAfterFailure): two workers never run at once,   *)
(* and the one that runs is owned, so that someone will join it.  So no    *)
(* worker outlives the effect thread, whatever made its loop return.       *)
(***************************************************************************)
LiveWorkerIsOwned ==
    \A s \in Epochs :
        Live(s) => handle = s \/ (effect = "joining" /\ task.session = s)

OneOwner == effect = "joining" => handle = NoSession

OneWorker == LiveWorkerIsOwned /\ OneOwner

NoOrphanWorker == ~EffectAlive => \A s \in Epochs : worker[s].phase = "absent"

WorkersAreOwned == OneWorker /\ NoOrphanWorker

(***************************************************************************)
(* The events in delivery and the ones still queued for the effect thread  *)
(* form one chain from what the user has seen to the controller's state:   *)
(* no state change is lost, doubled or told out of order, and a rejection  *)
(* names the state the user has seen.                                      *)
(***************************************************************************)
EventChain ==
    EffectAlive /\ control # "OutputDisconnected" =>
        LET From(i) == IF i = 0 THEN seen ELSE results[i].after
            To(i) == IF i = Len(results) THEN state ELSE results[i + 1].before
        IN  \A i \in 0 .. Len(results) : From(i) = To(i)

(***************************************************************************)
(* When every queue is empty and the worker waits at the head of its loop, *)
(* the worker does what the player state says: a session exists exactly    *)
(* when one is prepared, its pipeline is at the controller's epoch, it     *)
(* runs exactly in Playing, and has reported completion exactly in Ended.  *)
(* A failure, a seek or a completion that raced with the user's commands   *)
(* leaves nothing behind.                                                  *)
(***************************************************************************)
Quiescent ==
    /\ ControlAlive /\ inbox = <<>>
    /\ effect = "receiving" /\ results = <<>>
    /\ \A s \in Epochs :
          worker[s].phase \in {"absent", "receive"} /\ worker[s].queue = <<>>

ThreadsAgree ==
    Quiescent =>
        /\ state # "Preparing"
        /\ handle = NoSession <=> state \in {"Idle", "Error"}
        /\ handle # NoSession =>
              /\ worker[handle].pipeline = epoch
              /\ worker[handle].running <=> state = "Playing"
              /\ worker[handle].reported <=> state = "Ended"
        /\ seen = state

(***************************************************************************)
(* The two exits ShutdownReport::is_clean asks for once both threads were  *)
(* joined.  (It also asks that the last Release could still be sent, which *)
(* is not so when the user had sent a Release of his own.)                 *)
(***************************************************************************)
CleanExits == control = "Released" /\ effect = "Released"

(***************************************************************************)
(* A shutdown of an engine in which nothing failed is reported clean: the  *)
(* effect thread executes the Release (docs/Worker lifecycle, section 9).  *)
(***************************************************************************)
ShutdownIsClean == engine = "closed" /\ epoch < MaxEpoch => CleanExits

-----------------------------------------------------------------------------
(* Steps *)

(***************************************************************************)
(* Progress is told in its place: a duration before the player is Ready, a *)
(* seek result and positions only for a player that has a session.         *)
(***************************************************************************)
ProgressInContext ==
    [][ effect = "receiving" /\ Len(results') < Len(results) =>
          /\ Head(results).event = "DurationChanged" => seen = "Preparing"
          /\ Head(results).event = "SeekCompleted" => seen \in {"Ready", "Playing", "Paused"}
          /\ Head(results).event = "AudioProgress" =>
                seen \in {"Ready", "Playing", "Paused", "Ended"} ]_vars

(***************************************************************************)
(* The result of old work does not change the new state (docs/epoch.md):   *)
(* when feedback changes the player state, it comes from the session that  *)
(* is being prepared or played.  A session is named by the epoch of its    *)
(* Prepare, which lasts while the player is Preparing.                     *)
(***************************************************************************)
SessionInPlay == IF state = "Preparing" THEN epoch ELSE handle

OldWorkIsHarmless ==
    [][ /\ ControlAlive /\ inbox # <<>> /\ Head(inbox).type \in Feedbacks
        /\ state \notin {"Idle", "Error"}
        /\ state' # state
        => Head(inbox).session = SessionInPlay ]_vars

(* The listener's contract, implemented by the threads. *)
Contract == INSTANCE PlayerContract WITH shown <- seen
UserContract == Contract!Spec

(***************************************************************************)
(* The owner's contract: new and shutdown return only when every thread of *)
(* the engine is gone, the playback workers and a refused start included,  *)
(* although shutdown joins the control and the effect thread only.         *)
(***************************************************************************)
OwnerPhase ==
    CASE engine = "starting" -> "creating"
      [] engine = "open" -> "open"
      [] engine \in {"joinControl", "joinEffect"} -> "closing"
      [] engine = "closed" -> "closed"
      [] engine = "aborting" -> "refusing"
      [] engine = "aborted" -> "refused"

SomeThreadRuns == ControlAlive \/ EffectAlive \/ \E s \in Epochs : worker[s].phase # "absent"

Owner == INSTANCE EngineContract WITH phase <- OwnerPhase, threads <- SomeThreadRuns
OwnerContract == Owner!Spec

-----------------------------------------------------------------------------
(* Liveness *)

(* shutdown, and with it Drop, always returns, and so does a new that fails. *)
ShutdownReturns ==
    /\ engine = "joinControl" ~> engine = "closed"
    /\ engine = "aborting" ~> engine = "aborted"

(***************************************************************************)
(* What the user waits for is answered: a Prepare leaves Preparing, and a  *)
(* Seek gets the SeekCompleted of its own epoch unless a later command or  *)
(* a failure opened another epoch first.  The exceptions are threads that  *)
(* would have answered and are gone: the control thread, the effect thread *)
(* (which ends when a worker it cleans up has panicked), or a worker whose *)
(* panic nobody is told before the next command.                           *)
(***************************************************************************)
PrepareIsAnswered ==
    state = "Preparing" ~>
        \/ state # "Preparing"
        \/ ~ControlAlive \/ ~EffectAlive
        \/ worker[epoch].phase = "panicked"

Pending(e) == \E i \in DOMAIN results : results[i].effect = "Seek" /\ results[i].epoch = e
Answered(e) ==
    \E i \in DOMAIN results : results[i].event = "SeekCompleted" /\ results[i].epoch = e

SeekIsAnswered ==
    \A e \in Epochs \ {0} :
        Pending(e) ~>
            \/ Answered(e) \/ epoch > e
            \/ ~ControlAlive \/ ~EffectAlive
            \/ \E s \in Epochs : worker[s].phase = "panicked"

RequestsAreAnswered == PrepareIsAnswered /\ SeekIsAnswered

(***************************************************************************)
(* A worker that lost its pipeline is always retired, even when the epoch  *)
(* of its Failed message went stale before the control thread read it.     *)
(***************************************************************************)
FailedWorkerIsRetired ==
    \A s \in Epochs :
        worker[s].phase = "receive" /\ worker[s].pipeline = NoPipeline
            ~> worker[s].phase = "absent"

==============================================================================
