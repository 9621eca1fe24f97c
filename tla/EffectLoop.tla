----------------------------- MODULE EffectLoop -----------------------------
(***************************************************************************)
(* The effect thread: run_effect_loop (runtime/effect_executor.rs) and the *)
(* PlaybackEffectExecutor it owns (runtime/playback_executor.rs).  It      *)
(* passes the events of the control thread on to the user and carries out  *)
(* the effects: it spawns the worker of a session, queues commands to it,  *)
(* and cancels and joins it.  While it waits in join it receives nothing.  *)
(***************************************************************************)
EXTENDS PlaybackWorker

VARIABLES
    handle,     \* the session whose worker handle the executor holds
    task,       \* why the effect thread is joining, and what follows
    seen        \* the player state the delivered events tell the user

JoinReasons == {"Stop", "Release", "CleanupAfterFailure", "Drop"}

(* A task: join the worker of `session`, then leave with `exit` if "Drop". *)
Tasks ==
    [why : JoinReasons, session : Epochs, epoch : Epochs, exit : EffectExits]

NoTask == [why |-> "Drop", session |-> 0, epoch |-> 0, exit |-> "Released"]

EffectInit ==
    /\ effect = "receiving"
    /\ handle = NoSession
    /\ task = NoTask
    /\ seen = "Idle"

EffectTypeOK ==
    /\ handle \in Epochs \cup {NoSession}
    /\ task \in Tasks
    /\ seen \in PlayerStates

Idling == UNCHANGED <<inbox, worker, effect, handle, task>>

(* Mutant: the handle is given up without cancelling and joining. *)
AbandonWorker(why, e, exit) ==
    /\ effect' = IF why = "Drop" THEN exit ELSE "receiving"
    /\ handle' = NoSession
    /\ UNCHANGED <<worker, task>>

(* Mutant: the thread is joined and never asked to stop. *)
JoinWithoutCancel(why, e, exit) ==
    /\ effect' = "joining"
    /\ handle' = NoSession
    /\ task' = [why |-> why, session |-> handle, epoch |-> e, exit |-> exit]
    /\ UNCHANGED worker

(***************************************************************************)
(* PlaybackWorkerHandle::shutdown and its Drop: take the handle, raise the *)
(* cancellation flag, and wait in join.                                    *)
(***************************************************************************)
CancelAndJoin(why, e, exit) ==
    /\ effect' = "joining"
    /\ handle' = NoSession
    /\ task' = [why |-> why, session |-> handle, epoch |-> e, exit |-> exit]
    /\ worker' = [worker EXCEPT ![handle].cancel = TRUE]

(* Mutant: the executor goes without dropping its worker handle. *)
LeaveAtOnce(exit) ==
    /\ inbox' = inbox
    /\ effect' = exit
    /\ UNCHANGED <<worker, handle, task>>

(* The loop returns, and with it goes the executor. *)
Leave(exit) ==
    /\ inbox' = inbox
    /\ IF handle = NoSession
         THEN effect' = exit /\ UNCHANGED <<worker, handle, task>>
         ELSE CancelAndJoin("Drop", 0, exit)

(* The executor failed: tell the control thread, if it can still be told. *)
ReportEffectFailure(e, s) ==
    IF ControlAlive
      THEN /\ inbox' = Append(inbox, [type |-> "Failed", epoch |-> e, session |-> s])
           /\ effect' = "receiving"
           /\ UNCHANGED <<worker, handle, task>>
      ELSE Leave("FeedbackDisconnected")

BeginPrepare(r) ==
    IF handle # NoSession
      THEN ReportEffectFailure(r.epoch, r.epoch)
      ELSE \/ /\ worker' = [worker EXCEPT ![r.epoch] = Spawned(r.epoch)]
              /\ handle' = r.epoch
              /\ UNCHANGED <<inbox, effect, task>>
           \/ /\ "thread" \in Faults
              /\ ReportEffectFailure(r.epoch, r.epoch)

SendToWorker(r) ==
    IF handle # NoSession /\ Live(handle)
      THEN /\ HandOver(handle, [action |-> r.effect, epoch |-> r.epoch, resume |-> r.resume])
           /\ UNCHANGED <<inbox, effect, handle, task>>
      ELSE ReportEffectFailure(r.epoch, IF handle = NoSession THEN r.epoch ELSE handle)

ShutdownWorker(r) ==
    /\ inbox' = inbox
    /\ IF handle # NoSession
         THEN CancelAndJoin(r.effect, r.epoch, "Released")
         ELSE /\ effect' = IF r.effect = "Release" THEN "Released" ELSE "receiving"
              /\ UNCHANGED <<worker, handle, task>>

Execute(r) ==
    CASE r.effect = "None" -> Idling
      [] r.effect = "BeginPrepare" -> BeginPrepare(r)
      [] r.effect \in {"StartPlayback", "PausePlayback", "Seek"} -> SendToWorker(r)
      [] r.effect \in {"Stop", "Release", "CleanupAfterFailure"} -> ShutdownWorker(r)

(***************************************************************************)
(* One iteration of run_effect_loop up to the point where it may block in  *)
(* join: the event goes out before the effect is executed.                 *)
(***************************************************************************)
EffectReceive ==
    /\ effect = "receiving"
    /\ results # <<>>
    /\ LET r == Head(results) IN
        /\ results' = Tail(results)
        /\ seen' = IF r.event \in {"StateChanged", "PlaybackFailed"} THEN r.after ELSE seen
        /\ IF r.event = "ControlError" THEN Leave("ControlFailed") ELSE Execute(r)
    /\ UNCHANGED control

(***************************************************************************)
(* join returns: the worker thread is over.  Its panic is an error of the  *)
(* effect, reported after a Stop, the end of the loop after the others.    *)
(***************************************************************************)
EffectJoined ==
    /\ effect = "joining"
    /\ ~Live(task.session)
    /\ LET panicked == worker[task.session].phase = "panicked" IN
        /\ worker' = [worker EXCEPT ![task.session] = Absent]
        /\ task' = NoTask
        /\ inbox' = IF task.why = "Stop" /\ panicked /\ ControlAlive
                      THEN Append(inbox, [type |-> "Failed", epoch |-> task.epoch,
                                          session |-> task.session])
                      ELSE inbox
        /\ effect' = CASE task.why = "Drop" -> task.exit
                       [] task.why \in {"Release", "CleanupAfterFailure"} /\ panicked ->
                            "TerminalEffectFailed"
                       [] task.why = "Stop" /\ panicked /\ ~ControlAlive ->
                            "FeedbackDisconnected"
                       [] task.why = "Release" /\ ~panicked -> "Released"
                       [] OTHER -> "receiving"
    /\ UNCHANGED <<results, control, handle, seen>>

==============================================================================
