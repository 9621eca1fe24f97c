------------------------ MODULE PlaybackRuntimeProofs ------------------------
(***************************************************************************)
(* Theorems about the playback runtime, for every value of MaxEpoch and    *)
(* MaxInFlight and every set of faults: first the types, the ownership of  *)
(* the workers, the engine's contract and the chain of events, then the    *)
(* sessions, the listener's contract and, without panics, the origin of    *)
(* feedback.                                                               *)
(***************************************************************************)
EXTENDS PlaybackRuntime, TLAPS

-----------------------------------------------------------------------------
(* Workers *)

(* A worker that closes its pipeline, or ends, is still a worker. *)
LEMMA EndedType ==
    ASSUME NEW w \in Workers, NEW how \in Phases
    PROVE  /\ Closed(w) \in Workers
           /\ [Closed(w) EXCEPT !.phase = how] \in Workers
           /\ Ended(w, how) \in Workers
<1>1. Closed(w) \in Workers
  BY DEF Workers, Closed
<1>2. \A v \in Workers : [v EXCEPT !.phase = how] \in Workers
  BY DEF Workers
<1>3. \A v \in Workers : [v EXCEPT !.phase = how, !.queue = <<>>] \in Workers
  <2>1. <<>> \in Seq(WorkerCommands)
    OBVIOUS
  <2> QED
    BY <2>1 DEF Workers
<1> QED
  BY <1>1, <1>2, <1>3 DEF Ended

(* The values of a worker before it starts and after it was joined. *)
LEMMA FreshType ==
    /\ Absent \in Workers
    /\ \A e \in Epochs : Spawned(e) \in Workers
<1>1. <<>> \in Seq(WorkerCommands) /\ 0 \in Epochs
  BY MaxEpochAssumption DEF Epochs
<1>2. Absent \in Workers
  BY <1>1 DEF Absent, Workers, Phases
<1>3. ASSUME NEW e \in Epochs PROVE Spawned(e) \in Workers
  BY <1>2 DEF Spawned, Workers, Phases
<1> QED
  BY <1>2, <1>3

(* Giving one worker a new value keeps the function of workers typed. *)
LEMMA BecomeType ==
    ASSUME WorkerTypeOK, NEW s \in Epochs, NEW w \in Workers, Become(s, w)
    PROVE  WorkerTypeOK'
BY DEF WorkerTypeOK, Become

(* A worker sends a typed message, or none when the inbox is gone. *)
LEMMA SendAndBecomeType ==
    ASSUME inbox \in Seq(Messages), WorkerTypeOK,
           NEW s \in Epochs, NEW t \in Feedbacks, NEW w \in Workers,
           SendAndBecome(s, t, w)
    PROVE  inbox' \in Seq(Messages) /\ WorkerTypeOK'
<1>1. CASE ControlAlive
  <2>1. Message(t, w, s) \in Messages
    BY DEF Message, Messages, Workers
  <2>2. inbox' = Append(inbox, Message(t, w, s)) /\ Become(s, w)
    BY <1>1 DEF SendAndBecome
  <2>3. inbox' \in Seq(Messages)
    BY <2>1, <2>2
  <2> QED
    BY <2>2, <2>3, BecomeType
<1>2. CASE ~ControlAlive
  <2>1. inbox' = inbox /\ Become(s, Ended(w, "exited"))
    BY <1>2 DEF SendAndBecome
  <2>2. Ended(w, "exited") \in Workers
    BY EndedType DEF Phases
  <2> QED
    BY <2>1, <2>2, BecomeType
<1> QED
  BY <1>1, <1>2

(* Reporting a failure, quitting and a silent step, likewise. *)
LEMMA WorkerMoveType ==
    ASSUME inbox \in Seq(Messages), WorkerTypeOK, NEW s \in Epochs, NEW w \in Workers,
           \/ ReportFailure(s, w)
           \/ Quit(s)
           \/ Step(s, w)
    PROVE  inbox' \in Seq(Messages) /\ WorkerTypeOK'
<1>1. CASE ReportFailure(s, w)
  <2>1. [Closed(w) EXCEPT !.phase = "receive"] \in Workers
    BY EndedType DEF Phases
  <2>2. "Failed" \in Feedbacks
    BY DEF Feedbacks
  <2> QED
    BY <1>1, <2>1, <2>2, SendAndBecomeType DEF ReportFailure
<1>2. CASE Quit(s)
  <2>1. Ended(worker[s], "exited") \in Workers
    BY EndedType DEF Phases, WorkerTypeOK
  <2> QED
    BY <1>2, <2>1, BecomeType DEF Quit
<1>3. CASE Step(s, w)
  BY <1>3, BecomeType DEF Step
<1> QED
  BY <1>1, <1>2, <1>3

(* The worker a command leaves behind. *)
LEMMA SoughtType ==
    ASSUME NEW w \in Workers, NEW cmd \in WorkerCommands
    PROVE  [Sought(w, cmd) EXCEPT !.phase = "sought"] \in Workers
<1>1. Sought(w, cmd) \in Workers
  BY DEF Sought, Workers, WorkerCommands
<1> QED
  BY <1>1 DEF Workers, Phases

(* A step of a worker thread keeps the inbox and the workers typed. *)
LEMMA WorkerNextType ==
    ASSUME inbox \in Seq(Messages), WorkerTypeOK, NEW s \in Epochs, WorkerNext(s)
    PROVE  inbox' \in Seq(Messages) /\ WorkerTypeOK'
<1> DEFINE w == worker[s]
<1>w. w \in Workers
  BY DEF WorkerTypeOK
<1>t. Feedbacks = {"DurationChanged", "PreparationCompleted", "AudioProgress",
                   "SeekCompleted", "PlaybackCompleted", "Failed"}
  BY DEF Feedbacks
<1>p. \A ph \in Phases : [w EXCEPT !.phase = ph] \in Workers
  BY <1>w DEF Workers
<1>1. CASE WorkerBegin(s)
  <2>1. [w EXCEPT !.phase = "building"] \in Workers
    BY <1>p DEF Phases
  <2> QED
    BY <1>1, <1>w, <2>1, WorkerMoveType DEF WorkerBegin
<1>2. CASE WorkerBuild(s)
  <2>1. [w EXCEPT !.phase = "prepared", !.pipeline = w.feedback] \in Workers
    BY <1>w DEF Workers, Phases
  <2>2. \/ Quit(s)
        \/ ReportFailure(s, w)
        \/ SendAndBecome(s, "DurationChanged",
              [w EXCEPT !.phase = "prepared", !.pipeline = w.feedback])
    BY <1>2 DEF WorkerBuild, BuildFails, Built
  <2> QED
    BY <1>w, <1>t, <2>1, <2>2, WorkerMoveType, SendAndBecomeType
<1>3. CASE WorkerPrepared(s)
  <2>1. [w EXCEPT !.phase = "receive"] \in Workers
    BY <1>p DEF Phases
  <2> QED
    BY <1>3, <1>t, <2>1, SendAndBecomeType DEF WorkerPrepared
<1>4. CASE WorkerApply(s)
  <2> DEFINE cmd == Head(w.queue)
             v == [w EXCEPT !.feedback = cmd.epoch, !.queue = Tail(@)]
  <2>1. cmd \in WorkerCommands /\ Tail(w.queue) \in Seq(WorkerCommands)
    <3>1. w.queue \in Seq(WorkerCommands) /\ w.queue # <<>>
      BY <1>4, <1>w DEF WorkerApply, Workers
    <3> QED
      BY <3>1
  <2>2. v \in Workers
    <3>1. cmd.epoch \in Epochs
      BY <2>1 DEF WorkerCommands
    <3> QED
      BY <1>w, <2>1, <3>1 DEF Workers
  <2>3. ReportFailure(s, v) \/ ApplyOk(s, v, cmd)
    BY <1>4 DEF WorkerApply
  <2>4. ASSUME ApplyOk(s, v, cmd)
        PROVE  inbox' \in Seq(Messages) /\ WorkerTypeOK'
    <3>1. /\ [v EXCEPT !.phase = "rest", !.running = @ \/ ~IgnoresStart(v)] \in Workers
          /\ [v EXCEPT !.phase = "rest", !.running = FALSE] \in Workers
      BY <2>2 DEF Workers, Phases
    <3>2. cmd.action \in {"StartPlayback", "PausePlayback", "Seek"}
      BY <2>1 DEF WorkerCommands
    <3>3. \/ Step(s, [v EXCEPT !.phase = "rest", !.running = @ \/ ~IgnoresStart(v)])
          \/ Step(s, [v EXCEPT !.phase = "rest", !.running = FALSE])
          \/ SendAndBecome(s, "SeekCompleted", [Sought(v, cmd) EXCEPT !.phase = "sought"])
      BY <2>4, <3>2 DEF ApplyOk
    <3>4. [Sought(v, cmd) EXCEPT !.phase = "sought"] \in Workers
      BY <2>1, <2>2, SoughtType
    <3> QED
      BY <1>t, <3>1, <3>3, <3>4, WorkerMoveType, SendAndBecomeType
  <2> QED
    BY <2>2, <2>3, <2>4, WorkerMoveType
<1>5. CASE WorkerCancelled(s)
  BY <1>5, <1>w, WorkerMoveType DEF WorkerCancelled
<1>6. CASE WorkerSought(s)
  <2>1. [w EXCEPT !.phase = "rest"] \in Workers
    BY <1>p DEF Phases
  <2> QED
    BY <1>6, <1>t, <2>1, SendAndBecomeType DEF WorkerSought
<1>7. CASE WorkerReport(s)
  <2>1. [w EXCEPT !.phase = "advance"] \in Workers
    BY <1>p DEF Phases
  <2> QED
    BY <1>7, <1>w, <1>t, <2>1, WorkerMoveType, SendAndBecomeType DEF WorkerReport
<1>8. CASE WorkerComplete(s)
  <2>1. [w EXCEPT !.phase = "receive", !.running = FALSE, !.reported = TRUE] \in Workers
    BY <1>w DEF Workers, Phases
  <2> QED
    BY <1>8, <1>w, <1>t, <2>1, WorkerMoveType, SendAndBecomeType DEF WorkerComplete
<1>9. CASE WorkerIdle(s)
  <2>1. [w EXCEPT !.phase = "receive"] \in Workers
    BY <1>p DEF Phases
  <2> QED
    BY <1>9, <2>1, WorkerMoveType DEF WorkerIdle
<1>10. CASE WorkerAdvance(s)
  <2>1. \A d \in BOOLEAN : [w EXCEPT !.phase = "receive", !.drained = d] \in Workers
    BY <1>w DEF Workers, Phases
  <2> QED
    BY <1>10, <1>w, <2>1, WorkerMoveType DEF WorkerAdvance
<1>11. CASE WorkerPanic(s)
  <2>1. Ended(w, "panicked") \in Workers
    BY <1>w, EndedType DEF Phases
  <2> QED
    BY <1>11, <2>1, WorkerMoveType DEF WorkerPanic
<1> HIDE DEF w
<1> QED
  BY <1>1, <1>2, <1>3, <1>4, <1>5, <1>6, <1>7, <1>8, <1>9, <1>10, <1>11 DEF WorkerNext

-----------------------------------------------------------------------------
(* The control thread *)

(* A result the controller composes is a result. *)
LEMMA OutcomeType ==
    ASSUME ControlTypeOK, NEW event \in Events \cup {"None", "ControlError"},
           NEW after \in PlayerStates, NEW eff \in Effects \cup {"None"}, NEW e \in Epochs
    PROVE  Outcome(event, after, eff, e) \in Results
BY DEF Outcome, Results, ControlTypeOK

(* Sending a result keeps the channels typed, whether the loop goes on or exits. *)
LEMMA ReplyType ==
    ASSUME ChannelsTypeOK, inbox # <<>>, NEW r \in Results, Reply(r), effect' = effect
    PROVE  ChannelsTypeOK'
<1>1. results' \in Seq(Results)
  BY DEF Reply, ChannelsTypeOK
<1>2. control' \in {"running"} \cup ControlExits
  BY DEF Reply, ControlExits
<1>3. Tail(inbox) \in Seq(Messages) /\ <<>> \in Seq(Messages)
  BY DEF ChannelsTypeOK
<1>4. inbox' \in Seq(Messages)
  BY <1>3 DEF Reply
<1> QED
  BY <1>1, <1>2, <1>4 DEF ChannelsTypeOK

(* Every command has an effect and every event name the controller uses is one. *)
LEMMA EffectOfType == \A c \in Commands : EffectOf[c] \in Effects
BY DEF EffectOf, Effects, Commands

(***************************************************************************)
(* An iteration of the control loop, of any kind, is a reply with some     *)
(* result about the step from `state` to the state named by the result;    *)
(* an event other than StateChanged and PlaybackFailed leaves the state.   *)
(***************************************************************************)
LEMMA ControlStep ==
    ASSUME ChannelsTypeOK, ControlTypeOK, ControlReceive
    PROVE  \E r \in Results :
               /\ Reply(r)
               /\ r.before = state
               /\ r.after = state'
               /\ r.event \notin {"StateChanged", "PlaybackFailed"} => state' = state
               /\ ControlTypeOK'
<1> DEFINE m == Head(inbox)
           Fits(r) == /\ r \in Results
                      /\ Reply(r)
                      /\ r.before = state
                      /\ r.after = state'
                      /\ r.event \notin {"StateChanged", "PlaybackFailed"} => state' = state
                      /\ ControlTypeOK'
<1>m. m \in Messages
  BY DEF ChannelsTypeOK, ControlReceive
<1>s. state \in PlayerStates /\ epoch \in Epochs
  BY DEF ControlTypeOK
<1>e. Events \cup {"None", "ControlError"} =
        {"StateChanged", "PlaybackFailed", "CommandRejected", "DurationChanged",
         "AudioProgress", "SeekCompleted", "None", "ControlError"}
  BY DEF Events
<1>q. ASSUME NEW event \in (Events \cup {"None", "ControlError"}),
             KeepPlayer, Reply(Outcome(event, state, "None", epoch))
      PROVE  \E r : Fits(r)
  <2>1. Outcome(event, state, "None", epoch) \in Results
    BY <1>s, OutcomeType
  <2>2. ControlTypeOK' /\ state' = state
    BY <1>q DEF KeepPlayer, ControlTypeOK
  <2> QED
    BY <1>q, <2>1, <2>2 DEF Outcome
<1>1. ASSUME m.type \in Commands, AcceptCommand(m.type)
      PROVE  \E r : Fits(r)
  <2>1. PICK next \in PlayerStates :
            /\ epoch' \in Epochs
            /\ state' = next
            /\ Reply(Outcome(IF next # state THEN "StateChanged" ELSE "None",
                             next, EffectOf[m.type], epoch'))
    BY <1>1 DEF AcceptCommand
  <2> DEFINE r == Outcome(IF next # state THEN "StateChanged" ELSE "None",
                          next, EffectOf[m.type], epoch')
  <2>2. r \in Results
    BY <1>1, <1>e, <2>1, OutcomeType, EffectOfType
  <2>3. Fits(r)
    BY <2>1, <2>2 DEF Outcome, ControlTypeOK
  <2> QED
    BY <2>3
<1>2. ASSUME RepeatCommand(m.type) \/ OverflowCommand(m.type) \/ RejectCommand(m.type)
      PROVE  \E r : Fits(r)
  BY <1>2, <1>q, <1>e DEF RepeatCommand, OverflowCommand, RejectCommand
<1>3. ASSUME DropStaleFeedback(m) \/ ForwardFeedback(m) \/ FatalFeedback(m)
      PROVE  \E r : Fits(r)
  BY <1>3, <1>q, <1>e DEF DropStaleFeedback, ForwardFeedback, FatalFeedback
<1>4. ASSUME CompleteStage(m)
      PROVE  \E r : Fits(r)
  <2>1. PICK next \in PlayerStates :
            /\ state' = next
            /\ epoch' = epoch
            /\ Reply(Outcome("StateChanged", next, "None", epoch))
    BY <1>4 DEF CompleteStage
  <2>2. Outcome("StateChanged", next, "None", epoch) \in Results
    BY <1>s, <1>e, OutcomeType
  <2>3. Fits(Outcome("StateChanged", next, "None", epoch))
    BY <1>s, <2>1, <2>2 DEF Outcome, ControlTypeOK
  <2> QED
    BY <2>3
<1>5. ASSUME AcceptFailure(m)
      PROVE  \E r : Fits(r)
  <2> DEFINE r == Outcome("PlaybackFailed", "Error", "CleanupAfterFailure", epoch')
  <2>1. epoch' \in Epochs /\ state' = "Error" /\ Reply(r)
    BY <1>5, <1>s, MaxEpochAssumption DEF AcceptFailure, Epochs
  <2>2. "Error" \in PlayerStates /\ "CleanupAfterFailure" \in Effects
    BY DEF PlayerStates, Effects
  <2>3. r \in Results
    BY <1>e, <2>1, <2>2, OutcomeType
  <2>4. Fits(r)
    BY <2>1, <2>2, <2>3 DEF Outcome, ControlTypeOK
  <2> QED
    BY <2>4
<1>6. \E r : Fits(r)
  <2>1. CASE m.type \in Commands
    BY <2>1, <1>1, <1>2 DEF ControlReceive, HandleCommand
  <2>2. CASE m.type \notin Commands
    BY <2>2, <1>3, <1>4, <1>5 DEF ControlReceive, HandleFeedback
  <2> QED
    BY <2>1, <2>2
<1> QED
  BY <1>6

-----------------------------------------------------------------------------
(* The effect thread *)

(* What the effect thread may change, typed. *)
EffectSideOK ==
    /\ inbox \in Seq(Messages)
    /\ effect \in {"receiving", "joining"} \cup EffectExits
    /\ WorkerTypeOK
    /\ handle \in Epochs \cup {NoSession}
    /\ task \in Tasks

(* Giving up the handle, on any of the ways that lead to join. *)
LEMMA CancelAndJoinType ==
    ASSUME EffectSideOK, handle # NoSession, inbox' = inbox,
           NEW why \in JoinReasons, NEW e \in Epochs, NEW exit \in EffectExits,
           CancelAndJoin(why, e, exit)
    PROVE  EffectSideOK'
<1>1. handle \in Epochs
  BY DEF EffectSideOK
<1>2. \A w \in Workers : [w EXCEPT !.cancel = TRUE] \in Workers
  BY DEF Workers
<1>3. WorkerTypeOK'
  <2>1. worker' = [worker EXCEPT ![handle] = [worker[handle] EXCEPT !.cancel = TRUE]]
    BY <1>1 DEF CancelAndJoin, EffectSideOK, WorkerTypeOK
  <2> QED
    BY <1>1, <1>2, <2>1 DEF EffectSideOK, WorkerTypeOK
<1>4. task' \in Tasks
  BY <1>1 DEF CancelAndJoin, Tasks
<1> QED
  BY <1>3, <1>4 DEF CancelAndJoin, EffectSideOK

(* The end of the loop, at once or through the Drop of the executor. *)
LEMMA LeaveType ==
    ASSUME EffectSideOK, NEW exit \in EffectExits, Leave(exit)
    PROVE  EffectSideOK'
<1>1. CASE handle = NoSession
  <2>1. WorkerTypeOK'
    BY <1>1 DEF Leave, EffectSideOK, WorkerTypeOK
  <2> QED
    BY <1>1, <2>1 DEF Leave, EffectSideOK
<1>2. CASE handle # NoSession
  <2>1. 0 \in Epochs /\ "Drop" \in JoinReasons
    BY MaxEpochAssumption DEF Epochs, JoinReasons
  <2> QED
    BY <1>2, <2>1, CancelAndJoinType DEF Leave
<1> QED
  BY <1>1, <1>2

(* A failed effect is told to the control thread, or ends the loop. *)
LEMMA ReportEffectFailureType ==
    ASSUME EffectSideOK, NEW e \in Epochs, NEW s \in Epochs, ReportEffectFailure(e, s)
    PROVE  EffectSideOK'
<1>1. CASE ControlAlive
  <2>1. [type |-> "Failed", epoch |-> e, session |-> s] \in Messages
    BY DEF Messages, Feedbacks
  <2>2. inbox' \in Seq(Messages)
    BY <1>1, <2>1 DEF ReportEffectFailure, EffectSideOK
  <2>3. WorkerTypeOK'
    BY <1>1 DEF ReportEffectFailure, EffectSideOK, WorkerTypeOK
  <2> QED
    BY <1>1, <2>2, <2>3 DEF ReportEffectFailure, EffectSideOK
<1>2. CASE ~ControlAlive
  <2>1. "FeedbackDisconnected" \in EffectExits
    BY DEF EffectExits
  <2> QED
    BY <1>2, <2>1, LeaveType DEF ReportEffectFailure
<1> QED
  BY <1>1, <1>2

(* Every effect keeps the effect thread's state typed. *)
LEMMA ExecuteType ==
    ASSUME EffectSideOK, effect = "receiving", NEW r \in Results, Execute(r)
    PROVE  EffectSideOK'
<1>r. r.effect \in Effects \cup {"None"} /\ r.epoch \in Epochs /\ r.resume \in BOOLEAN
  BY DEF Results
<1>1. CASE r.effect = "None"
  <2>1. WorkerTypeOK'
    BY <1>1 DEF Execute, Idling, EffectSideOK, WorkerTypeOK
  <2> QED
    BY <1>1, <2>1 DEF Execute, Idling, EffectSideOK
<1>2. CASE r.effect = "BeginPrepare"
  <2>0. BeginPrepare(r)
    BY <1>2 DEF Execute
  <2>1. CASE ReportEffectFailure(r.epoch, r.epoch)
    BY <1>r, <2>1, ReportEffectFailureType
  <2>2. CASE ~ReportEffectFailure(r.epoch, r.epoch)
    <3>1. /\ worker' = [worker EXCEPT ![r.epoch] = Spawned(r.epoch)]
          /\ handle' = r.epoch
          /\ UNCHANGED <<inbox, effect, task>>
      BY <2>0, <2>2 DEF BeginPrepare
    <3>2. WorkerTypeOK'
      BY <1>r, <3>1, FreshType DEF EffectSideOK, WorkerTypeOK
    <3> QED
      BY <1>r, <3>1, <3>2 DEF EffectSideOK
  <2> QED
    BY <2>1, <2>2
<1>3. CASE r.effect \in {"StartPlayback", "PausePlayback", "Seek"}
  <2>0. SendToWorker(r)
    BY <1>3 DEF Execute
  <2>1. CASE handle # NoSession /\ Live(handle)
    <3> DEFINE cmd == [action |-> r.effect, epoch |-> r.epoch, resume |-> r.resume]
    <3>1. handle \in Epochs /\ cmd \in WorkerCommands
      BY <1>3, <1>r, <2>1 DEF EffectSideOK, WorkerCommands
    <3>2. Append(worker[handle].queue, cmd) \in Seq(WorkerCommands)
      BY <3>1 DEF EffectSideOK, WorkerTypeOK, Workers
    <3> HIDE DEF cmd
    <3>3. [worker[handle] EXCEPT !.queue = Append(worker[handle].queue, cmd)] \in Workers
      BY <3>1, <3>2 DEF EffectSideOK, WorkerTypeOK, Workers
    <3>4. worker' = [worker EXCEPT ![handle] =
                        [worker[handle] EXCEPT !.queue = Append(worker[handle].queue, cmd)]]
      BY <2>0, <2>1, <3>1 DEF SendToWorker, HandOver, EffectSideOK, WorkerTypeOK, cmd
    <3>5. WorkerTypeOK'
      BY <3>1, <3>3, <3>4 DEF EffectSideOK, WorkerTypeOK
    <3> QED
      BY <2>0, <2>1, <3>5 DEF SendToWorker, EffectSideOK
  <2>2. CASE ~(handle # NoSession /\ Live(handle))
    <3>1. ReportEffectFailure(r.epoch, IF handle = NoSession THEN r.epoch ELSE handle)
      BY <2>0, <2>2 DEF SendToWorker
    <3>2. (IF handle = NoSession THEN r.epoch ELSE handle) \in Epochs
      BY <1>r DEF EffectSideOK
    <3> QED
      BY <1>r, <3>1, <3>2, ReportEffectFailureType
  <2> QED
    BY <2>1, <2>2
<1>4. CASE r.effect \in {"Stop", "Release", "CleanupAfterFailure"}
  <2>0. ShutdownWorker(r)
    BY <1>4 DEF Execute
  <2>1. CASE handle # NoSession
    <3>1. r.effect \in JoinReasons /\ "Released" \in EffectExits
      BY <1>4 DEF JoinReasons, EffectExits
    <3> QED
      BY <1>r, <2>0, <2>1, <3>1, CancelAndJoinType DEF ShutdownWorker
  <2>2. CASE handle = NoSession
    <3>1. WorkerTypeOK'
      BY <2>0, <2>2 DEF ShutdownWorker, EffectSideOK, WorkerTypeOK
    <3> QED
      BY <2>0, <2>2, <3>1 DEF ShutdownWorker, EffectSideOK, EffectExits
  <2> QED
    BY <2>1, <2>2
<1> QED
  BY <1>r, <1>1, <1>2, <1>3, <1>4 DEF Effects

(* A received result keeps the effect thread's state typed. *)
LEMMA EffectReceiveType ==
    ASSUME EffectSideOK, results \in Seq(Results), seen \in PlayerStates, EffectReceive
    PROVE  EffectSideOK' /\ results' \in Seq(Results) /\ seen' \in PlayerStates
<1> DEFINE r == Head(results)
<1>1. r \in Results /\ Tail(results) \in Seq(Results)
  BY DEF EffectReceive
<1>2. results' \in Seq(Results) /\ seen' \in PlayerStates
  BY <1>1 DEF EffectReceive, Results
<1>3. EffectSideOK'
  <2>1. CASE r.event = "ControlError"
    <3>1. Leave("ControlFailed") /\ "ControlFailed" \in EffectExits
      BY <2>1 DEF EffectReceive, EffectExits
    <3> QED
      BY <3>1, LeaveType
  <2>2. CASE r.event # "ControlError"
    <3>1. Execute(r) /\ effect = "receiving"
      BY <2>2 DEF EffectReceive
    <3> QED
      BY <1>1, <3>1, ExecuteType
  <2> QED
    BY <2>1, <2>2
<1> QED
  BY <1>2, <1>3

(* A finished join keeps the effect thread's state typed. *)
LEMMA EffectJoinedType ==
    ASSUME EffectSideOK, EffectJoined
    PROVE  EffectSideOK'
<1>t. task.session \in Epochs /\ task.epoch \in Epochs /\ task.exit \in EffectExits
  BY DEF EffectSideOK, Tasks
<1>1. WorkerTypeOK'
  <2>1. worker' = [worker EXCEPT ![task.session] = Absent]
    BY DEF EffectJoined
  <2> QED
    BY <1>t, <2>1, FreshType DEF EffectSideOK, WorkerTypeOK
<1>2. inbox' \in Seq(Messages)
  <2>1. [type |-> "Failed", epoch |-> task.epoch, session |-> task.session] \in Messages
    BY <1>t DEF Messages, Feedbacks
  <2>2. Append(inbox, [type |-> "Failed", epoch |-> task.epoch, session |-> task.session])
            \in Seq(Messages)
    BY <2>1 DEF EffectSideOK
  <2> QED
    BY <2>2 DEF EffectJoined, EffectSideOK
<1>3. effect' \in {"receiving", "joining"} \cup EffectExits
  BY <1>t DEF EffectJoined, EffectExits
<1>4. NoTask \in Tasks
  BY MaxEpochAssumption DEF NoTask, Tasks, JoinReasons, EffectExits, Epochs
<1> QED
  BY <1>1, <1>2, <1>3, <1>4 DEF EffectJoined, EffectSideOK

-----------------------------------------------------------------------------
(* Type correctness *)

(* The parts of TypeOK by the thread that writes them. *)
LEMMA TypeParts ==
    TypeOK <=> /\ EffectSideOK
               /\ results \in Seq(Results)
               /\ control \in {"running"} \cup ControlExits
               /\ ControlTypeOK
               /\ seen \in PlayerStates
               /\ engine \in EnginePhases
BY DEF TypeOK, ChannelsTypeOK, EffectTypeOK, EffectSideOK

(* The initial state is typed. *)
LEMMA InitType == Init => TypeOK
<1> SUFFICES ASSUME Init PROVE TypeOK
  OBVIOUS
<1>1. 0 \in Epochs
  BY MaxEpochAssumption DEF Epochs
<1>2. inbox \in Seq(Messages) /\ results \in Seq(Results) /\ control = "running"
  BY DEF Init, ControlInit
<1>3. ControlTypeOK /\ seen \in PlayerStates /\ engine \in EnginePhases
  BY <1>1 DEF Init, ControlInit, ControlTypeOK, PlayerStates, EffectInit, EnginePhases
<1>4. WorkerTypeOK
  BY FreshType DEF Init, WorkerInit, WorkerTypeOK
<1>5. NoTask \in Tasks
  BY <1>1 DEF NoTask, Tasks, JoinReasons, EffectExits
<1>6. EffectSideOK
  BY <1>2, <1>4, <1>5 DEF Init, EffectInit, EffectSideOK
<1> QED
  BY <1>2, <1>3, <1>6, TypeParts

(* A message of the user keeps the inbox typed. *)
LEMMA PostType ==
    ASSUME inbox \in Seq(Messages), NEW c \in Commands,
           Post([type |-> c, epoch |-> 0, session |-> 0])
    PROVE  inbox' \in Seq(Messages)
<1>1. [type |-> c, epoch |-> 0, session |-> 0] \in Messages
  BY MaxEpochAssumption DEF Messages, Epochs
<1> QED
  BY <1>1 DEF Post

(* Every step of every thread keeps the state typed. *)
LEMMA NextType == TypeOK /\ [Next]_vars => TypeOK'
<1> SUFFICES ASSUME TypeOK, [Next]_vars PROVE TypeOK'
  OBVIOUS
<1>t. /\ EffectSideOK /\ results \in Seq(Results)
      /\ control \in {"running"} \cup ControlExits
      /\ ControlTypeOK /\ seen \in PlayerStates /\ engine \in EnginePhases
      /\ inbox \in Seq(Messages) /\ WorkerTypeOK /\ ChannelsTypeOK
  BY TypeParts DEF TypeOK, ChannelsTypeOK
<1>1. CASE EngineStart
  BY <1>1 DEF TypeOK, ChannelsTypeOK, ControlTypeOK, WorkerTypeOK, EffectTypeOK, EngineStart,
              EnginePhases, EffectExits
<1>2. CASE UserSend
  <2>1. inbox' \in Seq(Messages)
    BY <1>2, <1>t, PostType, UserCommandsAssumption DEF UserSend
  <2> QED
    BY <1>2, <2>1 DEF TypeOK, ChannelsTypeOK, ControlTypeOK, WorkerTypeOK, EffectTypeOK,
                      UserSend
<1>3. CASE ShutdownBegin
  <2>1. inbox' \in Seq(Messages)
    BY <1>3, <1>t, PostType DEF ShutdownBegin, Commands
  <2> QED
    BY <1>3, <2>1 DEF TypeOK, ChannelsTypeOK, ControlTypeOK, WorkerTypeOK, EffectTypeOK,
                      ShutdownBegin, EnginePhases
<1>4. CASE ShutdownJoin
  BY <1>4 DEF TypeOK, ChannelsTypeOK, ControlTypeOK, WorkerTypeOK, EffectTypeOK, ShutdownJoin,
              EnginePhases
<1>5. CASE ControlThread
  <2>1. ChannelsTypeOK' /\ ControlTypeOK'
    <3>1. CASE ControlReceive
      <4>1. PICK r \in Results : Reply(r) /\ ControlTypeOK'
        BY <1>t, <3>1, ControlStep
      <4>2. inbox # <<>> /\ effect' = effect
        BY <3>1 DEF ControlReceive
      <4> QED
        BY <1>t, <4>1, <4>2, ReplyType
    <3>2. CASE ControlDisconnect
      BY <1>t, <3>2 DEF ControlDisconnect, ChannelsTypeOK, ControlTypeOK, ControlExits
    <3> QED
      BY <1>5, <3>1, <3>2 DEF ControlThread
  <2> QED
    BY <1>5, <2>1 DEF ControlThread, TypeOK, WorkerTypeOK, EffectTypeOK
<1>6. CASE EffectThread
  <2>1. CASE EffectReceive
    <3>1. EffectSideOK' /\ results' \in Seq(Results) /\ seen' \in PlayerStates
      BY <1>t, <2>1, EffectReceiveType
    <3>2. UNCHANGED <<control, state, epoch, engine>>
      BY <1>6, <2>1 DEF EffectThread, EffectReceive
    <3> QED
      BY <1>t, <3>1, <3>2 DEF TypeOK, ChannelsTypeOK, EffectTypeOK, EffectSideOK, ControlTypeOK
  <2>2. CASE EffectJoined
    <3>1. EffectSideOK'
      BY <1>t, <2>2, EffectJoinedType
    <3>2. UNCHANGED <<results, seen, control, state, epoch, engine>>
      BY <1>6, <2>2 DEF EffectThread, EffectJoined
    <3> QED
      BY <1>t, <3>1, <3>2 DEF TypeOK, ChannelsTypeOK, EffectTypeOK, EffectSideOK, ControlTypeOK
  <2> QED
    BY <1>6, <2>1, <2>2 DEF EffectThread
<1>7. ASSUME NEW s \in Epochs, WorkerThread(s) PROVE TypeOK'
  <2>1. inbox' \in Seq(Messages) /\ WorkerTypeOK'
    BY <1>t, <1>7, WorkerNextType DEF WorkerThread
  <2>2. UNCHANGED <<results, control, effect, state, epoch, handle, task, seen, engine>>
    BY <1>7 DEF WorkerThread, WorkerNext
  <2> QED
    BY <1>t, <2>1, <2>2 DEF TypeOK, ChannelsTypeOK, EffectTypeOK, EffectSideOK, ControlTypeOK
<1>8. CASE UNCHANGED vars
  BY <1>8 DEF vars, TypeOK, ChannelsTypeOK, ControlTypeOK, WorkerTypeOK, EffectTypeOK
<1> QED
  BY <1>1, <1>2, <1>3, <1>4, <1>5, <1>6, <1>7, <1>8 DEF Next, Stopped

(***************************************************************************)
(* Every message, result and worker of the runtime is one the types name;  *)
(* in particular no epoch ever passes the end of the counter               *)
(* (PlaybackEpoch::next fails instead of wrapping).                        *)
(***************************************************************************)
THEOREM TypeCorrect == Spec => []TypeOK
<1>1. Init => TypeOK
  BY InitType
<1>2. TypeOK /\ [Next]_vars => TypeOK'
  BY NextType
<1> QED
  BY <1>1, <1>2, PTL DEF Spec

-----------------------------------------------------------------------------
(***************************************************************************)
(* Ownership of worker threads.  OneWorker and NoOrphanWorker speak of     *)
(* workers that run and of the end of the effect thread; the inductive     *)
(* invariant speaks of every thread that was started and not yet joined,   *)
(* running or not, and of where its handle is at each stage of the effect  *)
(* thread.                                                                 *)
(***************************************************************************)

Owned ==
    \A s \in Epochs :
        worker[s].phase # "absent" =>
            handle = s \/ (effect = "joining" /\ task.session = s)

HandleFitsStage ==
    /\ effect # "receiving" => handle = NoSession
    /\ engine = "starting" => effect = "receiving" /\ handle = NoSession

OwnershipInv == Owned /\ HandleFitsStage

(* No session is called NoSession. *)
LEMMA NoSessionIsNone == NoSession \notin Epochs
BY MaxEpochAssumption DEF NoSession, Epochs

(* OneWorker and NoOrphanWorker follow. *)
LEMMA OwnershipImplies == OwnershipInv => OneWorker /\ NoOrphanWorker
<1> SUFFICES ASSUME OwnershipInv PROVE OneWorker /\ NoOrphanWorker
  OBVIOUS
<1>1. OneWorker
  BY DEF OwnershipInv, Owned, HandleFitsStage, OneWorker, LiveWorkerIsOwned, OneOwner, Live
<1>2. NoOrphanWorker
  BY NoSessionIsNone
     DEF OwnershipInv, Owned, HandleFitsStage, NoOrphanWorker, EffectAlive, EffectExits
<1> QED
  BY <1>1, <1>2

(* A worker thread steps only while it runs, and changes no other worker. *)
LEMMA WorkerStepsAlone ==
    ASSUME TypeOK, NEW s \in Epochs, WorkerNext(s)
    PROVE  /\ Live(s)
           /\ \A t \in Epochs \ {s} : worker'[t] = worker[t]
<1> DEFINE Alone == \A t \in Epochs \ {s} : worker'[t] = worker[t]
<1> SUFFICES Alone /\ Live(s)
  OBVIOUS
<1>f. \A w : Become(s, w) => Alone
  BY DEF TypeOK, WorkerTypeOK, Become
<1> HIDE DEF Alone
<1>m. \A t, w : SendAndBecome(s, t, w) => Alone
  BY <1>f DEF SendAndBecome
<1>r. \A w : ReportFailure(s, w) \/ Quit(s) \/ Step(s, w) => Alone
  BY <1>f, <1>m DEF ReportFailure, Quit, Step
<1>1. CASE WorkerBegin(s)
  BY <1>1, <1>r DEF WorkerBegin, Live
<1>2. CASE WorkerBuild(s)
  BY <1>2, <1>r, <1>m DEF WorkerBuild, BuildFails, Built, Live
<1>3. CASE WorkerPrepared(s)
  BY <1>3, <1>m DEF WorkerPrepared, Live
<1>4. CASE WorkerApply(s)
  <2> DEFINE cmd == Head(worker[s].queue)
             v == [worker[s] EXCEPT !.feedback = cmd.epoch, !.queue = Tail(@)]
  <2>1. cmd \in WorkerCommands
    <3>1. worker[s].queue \in Seq(WorkerCommands) /\ worker[s].queue # <<>>
      BY <1>4 DEF WorkerApply, TypeOK, WorkerTypeOK, Workers
    <3> QED
      BY <3>1
  <2>2. cmd.action \in {"StartPlayback", "PausePlayback", "Seek"}
    BY <2>1 DEF WorkerCommands
  <2>3. ReportFailure(s, v) \/ ApplyOk(s, v, cmd)
    BY <1>4 DEF WorkerApply
  <2> HIDE DEF cmd, v
  <2>4. ApplyOk(s, v, cmd) => Alone
    BY <2>2, <1>r, <1>m DEF ApplyOk
  <2> QED
    BY <1>4, <1>r, <2>3, <2>4 DEF WorkerApply, Live
<1>5. CASE WorkerCancelled(s)
  BY <1>5, <1>r DEF WorkerCancelled, Live
<1>6. CASE WorkerSought(s)
  BY <1>6, <1>m DEF WorkerSought, Live
<1>7. CASE WorkerReport(s)
  BY <1>7, <1>r, <1>m DEF WorkerReport, AtRest, Live
<1>8. CASE WorkerComplete(s)
  BY <1>8, <1>r, <1>m DEF WorkerComplete, AtAdvance, AtRest, Live
<1>9. CASE WorkerIdle(s)
  BY <1>9, <1>r DEF WorkerIdle, Live
<1>10. CASE WorkerAdvance(s)
  BY <1>10, <1>r DEF WorkerAdvance, AtAdvance, AtRest, Live
<1>11. CASE WorkerPanic(s)
  BY <1>11, <1>r DEF WorkerPanic, Live
<1> QED
  BY <1>1, <1>2, <1>3, <1>4, <1>5, <1>6, <1>7, <1>8, <1>9, <1>10, <1>11 DEF WorkerNext

(* While the effect thread receives and holds no handle, no thread is left. *)
LEMMA NothingLeft ==
    ASSUME OwnershipInv, effect # "joining", handle = NoSession
    PROVE  \A s \in Epochs : worker[s].phase = "absent"
BY NoSessionIsNone DEF OwnershipInv, Owned

(* Giving the handle to join hands the thread over to it. *)
LEMMA CancelAndJoinOwns ==
    ASSUME TypeOK, OwnershipInv, effect = "receiving", handle # NoSession,
           engine # "starting", engine' = engine,
           NEW why, NEW e, NEW exit, CancelAndJoin(why, e, exit)
    PROVE  OwnershipInv'
<1>1. handle \in Epochs
  BY DEF TypeOK, EffectTypeOK
<1>2. \A s \in Epochs : worker'[s].phase = worker[s].phase
  BY <1>1 DEF CancelAndJoin, TypeOK, WorkerTypeOK, Workers
<1>3. effect' = "joining" /\ handle' = NoSession /\ task'.session = handle
  BY DEF CancelAndJoin
<1>4. Owned'
  BY <1>2, <1>3 DEF OwnershipInv, Owned
<1> QED
  BY <1>3, <1>4 DEF OwnershipInv, HandleFitsStage

(* The loop that leaves takes its worker with it. *)
LEMMA LeaveOwns ==
    ASSUME TypeOK, OwnershipInv, effect = "receiving", engine # "starting", engine' = engine,
           NEW exit \in EffectExits, Leave(exit)
    PROVE  OwnershipInv'
<1>1. CASE handle = NoSession
  <2>1. effect' = exit /\ UNCHANGED <<worker, handle, task>>
    BY <1>1 DEF Leave
  <2>2. Owned'
    BY <1>1, <2>1, NothingLeft DEF Owned
  <2> QED
    BY <1>1, <2>1, <2>2 DEF OwnershipInv, HandleFitsStage
<1>2. CASE handle # NoSession
  BY <1>2, CancelAndJoinOwns DEF Leave
<1> QED
  BY <1>1, <1>2

(* So does an effect whose failure cannot be told. *)
LEMMA ReportEffectFailureOwns ==
    ASSUME TypeOK, OwnershipInv, effect = "receiving", engine # "starting", engine' = engine,
           NEW e, NEW s, ReportEffectFailure(e, s)
    PROVE  OwnershipInv'
<1>1. CASE ControlAlive
  BY <1>1 DEF ReportEffectFailure, OwnershipInv, Owned, HandleFitsStage
<1>2. CASE ~ControlAlive
  <2>1. "FeedbackDisconnected" \in EffectExits
    BY DEF EffectExits
  <2> QED
    BY <1>2, <2>1, LeaveOwns DEF ReportEffectFailure
<1> QED
  BY <1>1, <1>2

(* Every effect keeps every thread owned. *)
LEMMA ExecuteOwns ==
    ASSUME TypeOK, OwnershipInv, effect = "receiving", engine # "starting", engine' = engine,
           NEW r \in Results, Execute(r)
    PROVE  OwnershipInv'
<1>r. r.effect \in Effects \cup {"None"} /\ r.epoch \in Epochs
  BY DEF Results
<1>1. CASE r.effect = "None"
  BY <1>1 DEF Execute, Idling, OwnershipInv, Owned, HandleFitsStage
<1>2. CASE r.effect = "BeginPrepare"
  <2>0. BeginPrepare(r)
    BY <1>2 DEF Execute
  <2>1. CASE ReportEffectFailure(r.epoch, r.epoch)
    BY <2>1, ReportEffectFailureOwns
  <2>2. CASE ~ReportEffectFailure(r.epoch, r.epoch)
    <3>1. /\ handle = NoSession
          /\ worker' = [worker EXCEPT ![r.epoch] = Spawned(r.epoch)]
          /\ handle' = r.epoch
          /\ UNCHANGED <<inbox, effect, task>>
      BY <2>0, <2>2 DEF BeginPrepare
    <3>2. \A s \in Epochs : s # r.epoch => worker'[s].phase = "absent"
      BY <3>1, NothingLeft DEF TypeOK, WorkerTypeOK
    <3> QED
      BY <3>1, <3>2 DEF OwnershipInv, Owned, HandleFitsStage
  <2> QED
    BY <2>1, <2>2
<1>3. CASE r.effect \in {"StartPlayback", "PausePlayback", "Seek"}
  <2>0. SendToWorker(r)
    BY <1>3 DEF Execute
  <2>1. CASE handle # NoSession /\ Live(handle)
    <3>1. /\ HandOver(handle, [action |-> r.effect, epoch |-> r.epoch, resume |-> r.resume])
          /\ UNCHANGED <<inbox, effect, handle, task>>
      BY <2>0, <2>1 DEF SendToWorker
    <3>2. handle \in Epochs
      BY <2>1 DEF TypeOK, EffectTypeOK
    <3>3. \A s \in Epochs : worker'[s].phase = worker[s].phase
      BY <3>1, <3>2 DEF HandOver, TypeOK, WorkerTypeOK, Workers
    <3> QED
      BY <3>1, <3>3 DEF OwnershipInv, Owned, HandleFitsStage
  <2>2. CASE ~(handle # NoSession /\ Live(handle))
    BY <2>0, <2>2, ReportEffectFailureOwns DEF SendToWorker
  <2> QED
    BY <2>1, <2>2
<1>4. CASE r.effect \in {"Stop", "Release", "CleanupAfterFailure"}
  <2>0. ShutdownWorker(r)
    BY <1>4 DEF Execute
  <2>1. CASE handle # NoSession
    BY <2>0, <2>1, CancelAndJoinOwns DEF ShutdownWorker
  <2>2. CASE handle = NoSession
    <3>1. /\ effect' # "joining"
          /\ UNCHANGED <<worker, handle, task>>
      BY <2>0, <2>2 DEF ShutdownWorker
    <3>2. Owned'
      BY <2>2, <3>1, NothingLeft DEF Owned
    <3> QED
      BY <2>2, <3>1, <3>2 DEF OwnershipInv, HandleFitsStage
  <2> QED
    BY <2>1, <2>2
<1> QED
  BY <1>r, <1>1, <1>2, <1>3, <1>4 DEF Effects

(* A finished join leaves no thread. *)
LEMMA EffectJoinedOwns ==
    ASSUME TypeOK, OwnershipInv, engine # "starting", engine' = engine, EffectJoined
    PROVE  OwnershipInv'
<1>1. effect = "joining" /\ handle = NoSession /\ handle' = NoSession
  BY DEF EffectJoined, OwnershipInv, HandleFitsStage
<1>2. task.session \in Epochs
  BY DEF TypeOK, EffectTypeOK, Tasks
<1>3. worker' = [worker EXCEPT ![task.session] = Absent]
  BY DEF EffectJoined
<1>4. \A s \in Epochs : worker'[s].phase = "absent"
  BY <1>1, <1>2, <1>3, NoSessionIsNone
     DEF TypeOK, WorkerTypeOK, OwnershipInv, Owned, Absent
<1> QED
  BY <1>1, <1>4 DEF OwnershipInv, Owned, HandleFitsStage

(* Ownership is inductive. *)
LEMMA OwnershipNext == TypeOK /\ OwnershipInv /\ [Next]_vars => OwnershipInv'
<1> SUFFICES ASSUME TypeOK, OwnershipInv, [Next]_vars PROVE OwnershipInv'
  OBVIOUS
<1> USE DEF OwnershipInv
<1>1. CASE EngineStart
  <2>1. effect = "receiving" /\ handle = NoSession
    BY <1>1 DEF EngineStart, HandleFitsStage
  <2>2. UNCHANGED <<worker, handle, task>> /\ effect' # "joining" /\ engine' # "starting"
    BY <1>1, <2>1 DEF EngineStart
  <2> QED
    BY <2>1, <2>2, NothingLeft DEF Owned, HandleFitsStage
<1>2. CASE UserSend \/ ShutdownBegin \/ ShutdownJoin \/ ControlThread
  <2>1. UNCHANGED <<worker, handle, task, effect>>
    BY <1>2 DEF UserSend, ShutdownBegin, ShutdownJoin, ControlThread, ControlReceive,
                ControlDisconnect
  <2>2. engine' = "starting" => engine = "starting"
    BY <1>2 DEF UserSend, ShutdownBegin, ShutdownJoin, ControlThread
  <2> QED
    BY <2>1, <2>2 DEF Owned, HandleFitsStage
<1>3. CASE EffectThread
  <2>1. engine # "starting" /\ engine' = engine
    BY <1>3 DEF EffectThread
  <2>2. CASE EffectReceive
    <3> DEFINE r == Head(results)
    <3>1. r \in Results /\ effect = "receiving"
      BY <2>2 DEF EffectReceive, TypeOK, ChannelsTypeOK
    <3>2. CASE r.event = "ControlError"
      <4>1. Leave("ControlFailed") /\ "ControlFailed" \in EffectExits
        BY <2>2, <3>2 DEF EffectReceive, EffectExits
      <4> QED
        BY <2>1, <3>1, <4>1, LeaveOwns
    <3>3. CASE r.event # "ControlError"
      <4>1. Execute(r)
        BY <2>2, <3>3 DEF EffectReceive
      <4> QED
        BY <2>1, <3>1, <4>1, ExecuteOwns
    <3> QED
      BY <3>2, <3>3
  <2>3. CASE EffectJoined
    BY <2>1, <2>3, EffectJoinedOwns
  <2> QED
    BY <1>3, <2>2, <2>3 DEF EffectThread
<1>4. ASSUME NEW s \in Epochs, WorkerThread(s) PROVE OwnershipInv'
  <2>1. worker[s].phase # "absent" /\ \A t \in Epochs \ {s} : worker'[t] = worker[t]
    BY <1>4, WorkerStepsAlone DEF WorkerThread, Live
  <2>2. UNCHANGED <<effect, handle, task, engine>>
    BY <1>4 DEF WorkerThread, WorkerNext
  <2> QED
    BY <2>1, <2>2 DEF Owned, HandleFitsStage
<1>5. CASE UNCHANGED vars
  BY <1>5 DEF vars, Owned, HandleFitsStage
<1> QED
  BY <1>1, <1>2, <1>3, <1>4, <1>5 DEF Next, Stopped

(* The inductive invariant holds of every run. *)
LEMMA OwnershipAlways == Spec => []OwnershipInv
<1>1. Init => OwnershipInv
  BY DEF Init, WorkerInit, EffectInit, Absent, OwnershipInv, Owned, HandleFitsStage
<1>2. TypeOK /\ OwnershipInv /\ [Next]_vars => OwnershipInv'
  BY OwnershipNext
<1> QED
  BY <1>1, <1>2, TypeCorrect, PTL DEF Spec

(***************************************************************************)
(* Both at all times: two workers never run at once, the one that runs has *)
(* an owner that will join it, and none outlives the effect thread.        *)
(***************************************************************************)
THEOREM WorkersAreAlwaysOwned == Spec => []WorkersAreOwned
<1>1. OwnershipInv => WorkersAreOwned
  BY OwnershipImplies DEF WorkersAreOwned
<1> QED
  BY <1>1, OwnershipAlways, PTL

-----------------------------------------------------------------------------
(***************************************************************************)
(* The owner's contract.  Shutdown joins two threads; that it leaves no    *)
(* third one behind is the ownership invariant.  JoinInv says what each    *)
(* stage of new and of shutdown already knows of the two.                  *)
(***************************************************************************)

JoinInv ==
    /\ engine = "starting" => ControlAlive /\ inbox = <<>>
    /\ engine \in {"joinEffect", "closed", "aborted"} => ~ControlAlive
    /\ engine \in {"closed", "aborting", "aborted"} => ~EffectAlive

(* While a worker thread is not joined, the effect thread runs. *)
LEMMA ThreadsAreTwo ==
    ASSUME OwnershipInv
    PROVE  SomeThreadRuns <=> ControlAlive \/ EffectAlive
BY NoSessionIsNone
   DEF OwnershipInv, Owned, HandleFitsStage, SomeThreadRuns, EffectAlive, EffectExits

(* A loop that has returned does not run again. *)
LEMMA LoopsEndOnce ==
    ASSUME TypeOK, [Next]_vars, engine # "starting"
    PROVE  /\ ~ControlAlive => ~ControlAlive'
           /\ ~EffectAlive => ~EffectAlive'
<1>1. CASE EngineStart \/ UserSend \/ ShutdownBegin \/ ShutdownJoin
  BY <1>1 DEF EngineStart, UserSend, ShutdownBegin, ShutdownJoin, ControlAlive, EffectAlive
<1>2. CASE ControlThread
  BY <1>2 DEF ControlThread, ControlReceive, ControlDisconnect, ControlAlive, EffectAlive
<1>3. CASE EffectThread
  BY <1>3 DEF EffectThread, EffectReceive, EffectJoined, ControlAlive, EffectAlive, EffectExits
<1>4. ASSUME NEW s \in Epochs, WorkerThread(s)
      PROVE  (~ControlAlive => ~ControlAlive') /\ (~EffectAlive => ~EffectAlive')
  BY <1>4 DEF WorkerThread, WorkerNext, ControlAlive, EffectAlive
<1>5. CASE UNCHANGED vars
  BY <1>5 DEF vars, ControlAlive, EffectAlive
<1> QED
  BY <1>1, <1>2, <1>3, <1>4, <1>5 DEF Next, Stopped

(* While new starts the effect thread, no other thread can do anything. *)
LEMMA StartIsAlone ==
    ASSUME TypeOK, OwnershipInv, JoinInv, engine = "starting", [Next]_vars
    PROVE  EngineStart \/ UNCHANGED vars
<1>1. ~UserSend /\ ~ShutdownBegin /\ ~ShutdownJoin /\ ~EffectThread /\ ~Stopped
  BY DEF UserSend, ShutdownBegin, ShutdownJoin, EffectThread, Stopped
<1>2. ~ControlThread
  BY DEF JoinInv, ControlThread, ControlReceive
<1>3. ASSUME NEW s \in Epochs PROVE ~WorkerThread(s)
  <2>1. effect # "joining" /\ handle = NoSession
    BY DEF OwnershipInv, HandleFitsStage
  <2>2. ~Live(s)
    BY <2>1, NothingLeft DEF Live
  <2> QED
    BY <2>2, WorkerStepsAlone DEF WorkerThread
<1> QED
  BY <1>1, <1>2, <1>3 DEF Next

(* The invariant of the joins is inductive. *)
LEMMA JoinNext == TypeOK /\ OwnershipInv /\ JoinInv /\ [Next]_vars => JoinInv'
<1> SUFFICES ASSUME TypeOK, OwnershipInv, JoinInv, [Next]_vars PROVE JoinInv'
  OBVIOUS
<1>1. CASE engine = "starting"
  <2>1. CASE EngineStart
    BY <1>1, <2>1 DEF EngineStart, JoinInv, ControlAlive, EffectAlive, EffectExits
  <2>2. CASE UNCHANGED vars
    BY <2>2 DEF vars, JoinInv, ControlAlive, EffectAlive
  <2> QED
    BY <1>1, <2>1, <2>2, StartIsAlone
<1>2. CASE engine # "starting"
  <2>1. /\ ~ControlAlive => ~ControlAlive'
        /\ ~EffectAlive => ~EffectAlive'
    BY <1>2, LoopsEndOnce
  <2>2. CASE engine' = engine
    BY <1>2, <2>1, <2>2 DEF JoinInv
  <2>3. CASE ShutdownBegin \/ ShutdownJoin
    BY <1>2, <2>1, <2>3 DEF ShutdownBegin, ShutdownJoin, JoinInv
  <2>4. engine' = engine \/ ShutdownBegin \/ ShutdownJoin
    BY <1>2 DEF Next, EngineStart, UserSend, ControlThread, EffectThread, WorkerThread, Stopped,
                vars
  <2> QED
    BY <2>2, <2>3, <2>4
<1> QED
  BY <1>1, <1>2

(* Every step is a step of the owner's contract, or none it can see. *)
LEMMA OwnerStep ==
    ASSUME TypeOK, OwnershipInv, OwnershipInv', JoinInv, [Next]_vars
    PROVE  [Owner!Next]_(Owner!vars)
<1> DEFINE T == SomeThreadRuns
           P == OwnerPhase
<1>t. T \in BOOLEAN /\ T' \in BOOLEAN
  BY DEF SomeThreadRuns
<1>a. T <=> ControlAlive \/ EffectAlive
  BY ThreadsAreTwo
<1>b. T' <=> ControlAlive' \/ EffectAlive'
  BY ThreadsAreTwo, PTL
<1>n. \/ P' = P /\ T' = T
      \/ P' = P /\ T = TRUE /\ T' = FALSE
      \/ P = "creating" /\ P' \in {"open", "refusing"} /\ T' = T
      \/ P = "refusing" /\ P' = "refused" /\ T = FALSE /\ T' = FALSE
      \/ P = "open" /\ P' = "closing" /\ T' = T
      \/ P = "closing" /\ P' = "closed" /\ T = FALSE /\ T' = FALSE
  <2> HIDE DEF T
  <2>1. CASE engine = "starting"
    <3>1. CASE EngineStart
      <4>1. ControlAlive /\ ControlAlive'
        BY <2>1, <3>1 DEF JoinInv, EngineStart, ControlAlive
      <4> QED
        BY <2>1, <3>1, <4>1, <1>t, <1>a, <1>b DEF EngineStart, OwnerPhase
    <3>2. CASE UNCHANGED vars
      BY <3>2, <1>t, <1>a, <1>b DEF vars, OwnerPhase, ControlAlive, EffectAlive
    <3> QED
      BY <2>1, <3>1, <3>2, StartIsAlone
  <2>2. CASE engine # "starting"
    <3>1. T' => T
      BY <2>2, <1>a, <1>b, LoopsEndOnce
    <3>2. CASE engine' = engine
      BY <3>1, <3>2, <1>t DEF OwnerPhase
    <3>3. CASE ShutdownBegin \/ ShutdownJoin
      <4>1. T' = T
        BY <3>3, <1>a, <1>b, <1>t DEF ShutdownBegin, ShutdownJoin, ControlAlive, EffectAlive
      <4>2. CASE ShutdownBegin
        BY <4>1, <4>2 DEF ShutdownBegin, OwnerPhase
      <4>3. CASE engine = "joinControl" /\ engine' = "joinEffect"
        BY <4>1, <4>3 DEF OwnerPhase
      <4>4. CASE engine = "joinEffect" /\ ~EffectAlive /\ engine' = "closed"
        <5>1. ~T
          BY <4>4, <1>a DEF JoinInv
        <5> QED
          BY <4>1, <4>4, <5>1, <1>t DEF OwnerPhase
      <4>5. CASE engine = "aborting" /\ ~ControlAlive /\ engine' = "aborted"
        <5>1. ~T
          BY <4>5, <1>a DEF JoinInv
        <5> QED
          BY <4>1, <4>5, <5>1, <1>t DEF OwnerPhase
      <4> QED
        BY <3>3, <4>2, <4>3, <4>4, <4>5 DEF ShutdownJoin
    <3>4. engine' = engine \/ ShutdownBegin \/ ShutdownJoin
      BY <2>2 DEF Next, EngineStart, UserSend, ControlThread, EffectThread, WorkerThread, Stopped,
                  vars
    <3> QED
      BY <3>2, <3>3, <3>4
  <2> QED
    BY <2>1, <2>2
<1> HIDE DEF T, P
<1>1. [Owner!Next]_(<<P, T>>)
  BY <1>n DEF Owner!Next, Owner!Open, Owner!Refuse, Owner!Refused, Owner!Close, Owner!Closed,
              Owner!LastThreadEnds, P, T
<1> QED
  BY <1>1 DEF Owner!vars, P, T

(***************************************************************************)
(* PlayerEngine::new and PlayerEngine::shutdown return only when no thread *)
(* of the engine is left, workers included, whatever fails or panics.      *)
(***************************************************************************)
THEOREM OwnerContractHolds == Spec => OwnerContract
<1>1. Init => Owner!Init
  BY DEF Init, ControlInit, Owner!Init, OwnerPhase, SomeThreadRuns, ControlAlive
<1>2. Init => JoinInv
  BY DEF Init, ControlInit, JoinInv, ControlAlive
<1>3. TypeOK /\ OwnershipInv /\ JoinInv /\ [Next]_vars => JoinInv'
  BY JoinNext
<1>4. TypeOK /\ OwnershipInv /\ OwnershipInv' /\ JoinInv /\ [Next]_vars
        => [Owner!Next]_(Owner!vars)
  BY OwnerStep
<1> QED
  BY <1>1, <1>2, <1>3, <1>4, TypeCorrect, OwnershipAlways, PTL
     DEF Spec, OwnerContract, Owner!Spec

-----------------------------------------------------------------------------
(***************************************************************************)
(* The chain of events.  EventChain needs to know of the queued results    *)
(* only that one that tells no change of state is about none.              *)
(***************************************************************************)

Tells(r) == r.event \in {"StateChanged", "PlaybackFailed"}

QuietResults == \A i \in 1 .. Len(results) : ~Tells(results[i]) => results[i].before = results[i].after

(* The results q lead from player state a to player state b. *)
Chain(q, a, b) ==
    /\ q = <<>> => a = b
    /\ q # <<>> => /\ q[1].before = a
                   /\ q[Len(q)].after = b
                   /\ \A i \in 1 .. Len(q) - 1 : q[i].after = q[i + 1].before

Delivering == EffectAlive /\ control # "OutputDisconnected"

ChainInv == QuietResults /\ (Delivering => Chain(results, seen, state))

(* The chain of the invariant is the one EventChain describes. *)
LEMMA ChainIsEventChain ==
    ASSUME ChannelsTypeOK, Delivering => Chain(results, seen, state)
    PROVE  EventChain
<1> SUFFICES ASSUME Delivering, Chain(results, seen, state),
                    NEW i \in 0 .. Len(results)
             PROVE  (IF i = 0 THEN seen ELSE results[i].after)
                      = (IF i = Len(results) THEN state ELSE results[i + 1].before)
  BY DEF EventChain, Delivering
<1>1. Len(results) \in Nat /\ (results = <<>> <=> Len(results) = 0)
  BY DEF ChannelsTypeOK
<1> QED
  BY <1>1 DEF Chain

(* A chain grows by a result that starts where it ends. *)
LEMMA ChainAppend ==
    ASSUME NEW q \in Seq(Results), NEW r \in Results, NEW a, Chain(q, a, r.before)
    PROVE  Chain(Append(q, r), a, r.after)
<1> DEFINE p == Append(q, r)
<1>1. /\ p # <<>>
      /\ Len(p) = Len(q) + 1
      /\ p[Len(p)] = r
      /\ \A i \in 1 .. Len(q) : p[i] = q[i]
      /\ Len(q) \in Nat
      /\ q = <<>> <=> Len(q) = 0
  OBVIOUS
<1> HIDE DEF p
<1>2. p[1].before = a
  BY <1>1 DEF Chain
<1>3. ASSUME NEW i \in 1 .. Len(p) - 1 PROVE p[i].after = p[i + 1].before
  <2>1. CASE i = Len(q)
    BY <1>1, <1>3, <2>1 DEF Chain
  <2>2. CASE i # Len(q)
    BY <1>1, <1>3, <2>2 DEF Chain
  <2> QED
    BY <2>1, <2>2
<1>4. Chain(p, a, r.after)
  BY <1>1, <1>2, <1>3 DEF Chain
<1> QED
  BY <1>4 DEF p

(* A chain loses its first result and starts where that result ended. *)
LEMMA ChainTail ==
    ASSUME NEW q \in Seq(Results), q # <<>>, NEW a, NEW b, Chain(q, a, b)
    PROVE  Chain(Tail(q), Head(q).after, b) /\ Head(q).before = a
<1> DEFINE p == Tail(q)
<1>0. p \in Seq(Results) /\ Len(p) = Len(q) - 1 /\ Len(q) \in Nat /\ Len(q) > 0
  OBVIOUS
<1>1. /\ Len(p) = Len(q) - 1 /\ Len(q) \in Nat /\ Len(q) > 0
      /\ Head(q) = q[1]
      /\ \A i \in 1 .. Len(p) : p[i] = q[i + 1]
      /\ p = <<>> <=> Len(p) = 0
  <2>1. \A i \in 1 .. Len(p) : p[i] = q[i + 1]
    BY <1>0
  <2>2. Head(q) = q[1]
    OBVIOUS
  <2>3. \A e \in Seq(Results) : e = <<>> <=> Len(e) = 0
    OBVIOUS
  <2> QED
    BY <1>0, <2>1, <2>2, <2>3
<1> HIDE DEF p
<1>2. Head(q).before = a
  BY <1>1 DEF Chain
<1>3. CASE p = <<>>
  BY <1>1, <1>2, <1>3 DEF Chain, p
<1>4. CASE p # <<>>
  <2>1. p[1].before = q[1].after
    BY <1>1, <1>4 DEF Chain
  <2>2. p[Len(p)].after = b
    BY <1>1, <1>4 DEF Chain
  <2>3. \A i \in 1 .. Len(p) - 1 : p[i].after = p[i + 1].before
    BY <1>1 DEF Chain
  <2>4. Chain(p, Head(q).after, b)
    BY <1>1, <1>4, <2>1, <2>2, <2>3 DEF Chain
  <2> QED
    BY <1>2, <2>4 DEF p
<1> QED
  BY <1>3, <1>4

(* An iteration of the control loop keeps the chain. *)
LEMMA ControlKeepsChain ==
    ASSUME TypeOK, ChainInv, ControlReceive, seen' = seen
    PROVE  ChainInv'
<1>0. ChannelsTypeOK /\ ControlTypeOK /\ results \in Seq(Results) /\ effect' = effect
  BY DEF TypeOK, ChannelsTypeOK, ControlReceive
<1>1. PICK r \in Results :
          /\ Reply(r)
          /\ r.before = state /\ r.after = state'
          /\ ~Tells(r) => state' = state
  BY <1>0, ControlStep DEF Tells
<1>2. CASE EffectAlive
  <2>1. results' = Append(results, r)
    BY <1>1, <1>2 DEF Reply
  <2>2. QuietResults'
    <3>1. /\ Len(results') = Len(results) + 1 /\ Len(results) \in Nat
          /\ results'[Len(results) + 1] = r
          /\ \A i \in 1 .. Len(results) : results'[i] = results[i]
      BY <1>0, <2>1
    <3>2. ASSUME NEW i \in 1 .. Len(results')
          PROVE  ~Tells(results'[i]) => results'[i].before = results'[i].after
      <4>1. CASE i = Len(results) + 1
        BY <1>1, <3>1, <4>1
      <4>2. CASE i # Len(results) + 1
        BY <3>1, <3>2, <4>2 DEF ChainInv, QuietResults
      <4> QED
        BY <4>1, <4>2
    <3> QED
      BY <3>2 DEF QuietResults, Tells
  <2>3. Delivering
    BY <1>2 DEF Delivering, ControlReceive, ControlAlive
  <2>4. Chain(results', seen, state')
    BY <1>0, <1>1, <2>1, <2>3, ChainAppend DEF ChainInv
  <2> QED
    BY <2>2, <2>4 DEF ChainInv, Chain
<1>3. CASE ~EffectAlive
  <2>1. results' = results /\ ~EffectAlive'
    BY <1>0, <1>1, <1>3 DEF Reply, EffectAlive
  <2> QED
    BY <2>1 DEF ChainInv, QuietResults, Tells, Delivering
<1> QED
  BY <1>2, <1>3

(* Receiving a result shortens the chain from its head. *)
LEMMA ReceiveKeepsChain ==
    ASSUME TypeOK, ChainInv, EffectReceive, state' = state
    PROVE  ChainInv'
<1> DEFINE r == Head(results)
<1>0. /\ results \in Seq(Results) /\ results # <<>> /\ results' = Tail(results)
      /\ control' = control
      /\ EffectAlive
  BY DEF TypeOK, ChannelsTypeOK, EffectReceive, EffectAlive, EffectExits
<1>1. /\ Len(results) \in Nat /\ Len(results) > 0 /\ r = results[1]
      /\ Len(results') = Len(results) - 1
      /\ \A i \in 1 .. Len(results') : results'[i] = results[i + 1]
  BY <1>0
<1>2. QuietResults'
  BY <1>1 DEF ChainInv, QuietResults, Tells
<1>3. ASSUME Delivering PROVE Chain(results', seen', state')
  <2>1. Chain(results', r.after, state) /\ r.before = seen
    BY <1>0, <1>3, ChainTail DEF ChainInv
  <2>2. seen' = r.after
    <3>1. CASE Tells(r)
      BY <3>1 DEF Tells, EffectReceive
    <3>2. CASE ~Tells(r)
      BY <1>1, <2>1, <3>2 DEF Tells, EffectReceive, ChainInv, QuietResults
    <3> QED
      BY <3>1, <3>2
  <2> QED
    BY <2>1, <2>2
<1>4. Delivering' => Delivering
  BY <1>0 DEF Delivering
<1> QED
  BY <1>2, <1>3, <1>4 DEF ChainInv, Chain

(* The chain is inductive. *)
LEMMA ChainNext == TypeOK /\ ChainInv /\ [Next]_vars => ChainInv'
<1> SUFFICES ASSUME TypeOK, ChainInv, [Next]_vars PROVE ChainInv'
  OBVIOUS
<1>u. ASSUME UNCHANGED <<results, seen, state>>, Delivering' => Delivering PROVE ChainInv'
  BY <1>u DEF ChainInv, QuietResults, Tells, Chain
<1>1. CASE EngineStart \/ UserSend \/ ShutdownBegin \/ ShutdownJoin
  <2>1. UNCHANGED <<results, seen, state>>
    BY <1>1 DEF EngineStart, UserSend, ShutdownBegin, ShutdownJoin
  <2>2. control' = control /\ (effect' = effect \/ effect' = "NotStarted")
    BY <1>1 DEF EngineStart, UserSend, ShutdownBegin, ShutdownJoin
  <2> QED
    BY <1>u, <2>1, <2>2 DEF Delivering, EffectAlive, EffectExits
<1>2. CASE ControlThread
  <2>1. CASE ControlReceive
    BY <1>2, <2>1, ControlKeepsChain DEF ControlThread
  <2>2. CASE ControlDisconnect
    BY <1>2, <2>2, <1>u DEF ControlThread, ControlDisconnect, Delivering, EffectAlive, ControlAlive
  <2> QED
    BY <1>2, <2>1, <2>2 DEF ControlThread
<1>3. CASE EffectThread
  <2>1. CASE EffectReceive
    BY <1>3, <2>1, ReceiveKeepsChain DEF EffectThread
  <2>2. CASE EffectJoined
    BY <1>3, <2>2, <1>u DEF EffectThread, EffectJoined, Delivering, EffectAlive, EffectExits
  <2> QED
    BY <1>3, <2>1, <2>2 DEF EffectThread
<1>4. ASSUME NEW s \in Epochs, WorkerThread(s) PROVE ChainInv'
  BY <1>4, <1>u DEF WorkerThread, WorkerNext, Delivering, EffectAlive
<1>5. CASE UNCHANGED vars
  BY <1>5, <1>u DEF vars, Delivering, EffectAlive
<1> QED
  BY <1>1, <1>2, <1>3, <1>4, <1>5 DEF Next, Stopped

(***************************************************************************)
(* What the user has been told, followed by what is still queued, always   *)
(* ends in the controller's state: no change of state is lost, doubled or  *)
(* told out of order, whatever the interleaving of the threads.            *)
(***************************************************************************)
THEOREM EventChainAlways == Spec => []EventChain
<1>1. Init => ChainInv
  BY DEF Init, ControlInit, EffectInit, ChainInv, QuietResults, Chain
<1>2. TypeOK /\ ChainInv /\ [Next]_vars => ChainInv'
  BY ChainNext
<1>3. TypeOK /\ ChainInv => EventChain
  BY ChainIsEventChain DEF TypeOK, ChainInv
<1> QED
  BY <1>1, <1>2, <1>3, TypeCorrect, PTL DEF Spec

-----------------------------------------------------------------------------
-----------------------------------------------------------------------------
(***************************************************************************)
(* The sessions: what the control thread, the effect thread and the worker *)
(* of a session may rely on, although each learns of the others' steps     *)
(* only through channels.                                                  *)
(***************************************************************************)

(***************************************************************************)
(* The steps of a worker, as far as the other threads can tell.  v is what *)
(* the worker of s becomes.                                                *)
(***************************************************************************)

PrepPhases == {"spawned", "building", "prepared"}
LoopPhases == {"receive", "sought", "rest", "advance"}

(* No command is taken from the queue, or its first. *)
SameQueue(w, v) == v.feedback = w.feedback /\ v.queue = w.queue
TakesCommand(w, v) ==
    w.queue # <<>> /\ v.feedback = Head(w.queue).epoch /\ v.queue = Tail(w.queue)

SamePipeline(w, v) ==
    v.pipeline = w.pipeline /\ v.running = w.running /\ v.reported = w.reported
NoPipelineLeft(v) == v.pipeline = NoPipeline /\ ~v.running /\ ~v.reported

Says(s, t, v) == ControlAlive /\ inbox' = Append(inbox, Message(t, v, s))
Silent == inbox' = inbox

(* The thread ends: it was asked to, it cannot be heard, or it panics. *)
Ends(s, w, v) ==
    /\ Silent
    /\ v.phase = "panicked" \/ (v.phase = "exited" /\ (w.cancel \/ ~ControlAlive))
    /\ v.queue = <<>>
    /\ v.feedback = w.feedback \/ (w.queue # <<>> /\ v.feedback = Head(w.queue).epoch)
    /\ NoPipelineLeft(v)

(* The pipeline is lost, or was never built. *)
Fails(s, w, v) ==
    /\ Says(s, "Failed", v)
    /\ v.phase = "receive"
    /\ SameQueue(w, v) \/ (w.phase = "receive" /\ TakesCommand(w, v))
    /\ NoPipelineLeft(v)

Begins(s, w, v) ==
    /\ Silent
    /\ w.phase = "spawned" /\ v.phase = "building"
    /\ SameQueue(w, v) /\ SamePipeline(w, v)

Builds(s, w, v) ==
    /\ Says(s, "DurationChanged", v)
    /\ w.phase = "building" /\ v.phase = "prepared"
    /\ SameQueue(w, v)
    /\ v.pipeline = w.feedback /\ v.running = w.running /\ v.reported = w.reported

Prepares(s, w, v) ==
    /\ Says(s, "PreparationCompleted", v)
    /\ w.phase = "prepared" /\ v.phase = "receive"
    /\ SameQueue(w, v) /\ SamePipeline(w, v)

Starts(s, w, v) ==
    /\ Silent
    /\ w.phase = "receive" /\ v.phase = "rest"
    /\ TakesCommand(w, v) /\ Head(w.queue).action = "StartPlayback"
    /\ w.pipeline # NoPipeline /\ Head(w.queue).epoch = w.pipeline
    /\ v.pipeline = w.pipeline /\ v.reported = w.reported
    /\ v.running <=> w.running \/ ~w.reported

Pauses(s, w, v) ==
    /\ Silent
    /\ w.phase = "receive" /\ v.phase = "rest"
    /\ TakesCommand(w, v) /\ Head(w.queue).action = "PausePlayback"
    /\ w.pipeline # NoPipeline /\ Head(w.queue).epoch = w.pipeline
    /\ v.pipeline = w.pipeline /\ v.reported = w.reported
    /\ ~v.running

Seeks(s, w, v) ==
    /\ Says(s, "SeekCompleted", v)
    /\ w.phase = "receive" /\ v.phase = "sought"
    /\ TakesCommand(w, v) /\ Head(w.queue).action = "Seek"
    /\ w.pipeline # NoPipeline /\ Head(w.queue).epoch > w.pipeline
    /\ v.pipeline = Head(w.queue).epoch /\ ~v.reported
    /\ v.running = Head(w.queue).resume

Reports(s, w, v) ==
    /\ Says(s, "AudioProgress", v)
    /\ w.phase = "sought" \/ (w.phase \in LoopPhases /\ w.pipeline # NoPipeline)
    /\ v.phase \in {"rest", "advance"}
    /\ SameQueue(w, v) /\ SamePipeline(w, v)

Completes(s, w, v) ==
    /\ Says(s, "PlaybackCompleted", v)
    /\ w.phase \in LoopPhases /\ v.phase = "receive"
    /\ w.running /\ ~w.reported
    /\ SameQueue(w, v)
    /\ v.pipeline = w.pipeline /\ ~v.running /\ v.reported

(* A round of the loop ends without a word. *)
Rests(s, w, v) ==
    /\ Silent
    /\ w.phase \in LoopPhases /\ v.phase = "receive"
    /\ SameQueue(w, v) /\ SamePipeline(w, v)

WorkerMove(s, w, v) ==
    \/ Ends(s, w, v)
    \/ Fails(s, w, v)
    \/ Begins(s, w, v)
    \/ Builds(s, w, v)
    \/ Prepares(s, w, v)
    \/ Starts(s, w, v)
    \/ Pauses(s, w, v)
    \/ Seeks(s, w, v)
    \/ Reports(s, w, v)
    \/ Completes(s, w, v)
    \/ Rests(s, w, v)

(* What remains of a worker that loses its pipeline, or ends. *)
LEMMA ClosedFields ==
    ASSUME NEW w \in Workers
    PROVE  /\ NoPipelineLeft(Closed(w))
           /\ SameQueue(w, Closed(w)) /\ Closed(w).cancel = w.cancel
           /\ Closed(w).phase = w.phase
           /\ \A how \in Phases :
                 /\ NoPipelineLeft([Closed(w) EXCEPT !.phase = how])
                 /\ SameQueue(w, [Closed(w) EXCEPT !.phase = how])
                 /\ [Closed(w) EXCEPT !.phase = how].cancel = w.cancel
                 /\ [Closed(w) EXCEPT !.phase = how].phase = how
                 /\ NoPipelineLeft(Ended(w, how)) /\ Ended(w, how).queue = <<>>
                 /\ Ended(w, how).feedback = w.feedback /\ Ended(w, how).cancel = w.cancel
                 /\ Ended(w, how).phase = how
BY DEF Workers, Closed, Ended, NoPipelineLeft, SameQueue

(* A message that cannot be sent ends the thread. *)
LEMMA SaysOrEnds ==
    ASSUME NEW s \in Epochs, NEW w \in Workers, NEW t, NEW v \in Workers,
           v.cancel = w.cancel,
           v.feedback = w.feedback \/ (w.queue # <<>> /\ v.feedback = Head(w.queue).epoch),
           SendAndBecome(s, t, v)
    PROVE  \/ Says(s, t, v) /\ Become(s, v)
           \/ \E u \in Workers : Ends(s, w, u) /\ u.cancel = w.cancel /\ Become(s, u)
<1>1. CASE ControlAlive
  BY <1>1 DEF SendAndBecome, Says
<1>2. CASE ~ControlAlive
  <2> DEFINE u == Ended(v, "exited")
  <2>1. inbox' = inbox /\ Become(s, u)
    BY <1>2 DEF SendAndBecome
  <2>2. u \in Workers
    BY EndedType DEF Phases
  <2>3. /\ NoPipelineLeft(u) /\ u.queue = <<>> /\ u.feedback = v.feedback
        /\ u.cancel = v.cancel /\ u.phase = "exited"
    BY ClosedFields DEF Phases
  <2> HIDE DEF u
  <2>4. Ends(s, w, u)
    BY <1>2, <2>1, <2>3 DEF Ends, Silent
  <2> QED
    BY <2>1, <2>2, <2>3, <2>4
<1> QED
  BY <1>1, <1>2

(* A failure is told, or ends the thread. *)
LEMMA FailsOrEnds ==
    ASSUME NEW s \in Epochs, NEW w \in Workers, NEW x \in Workers,
           x.cancel = w.cancel,
           SameQueue(w, x) \/ (w.phase = "receive" /\ TakesCommand(w, x)),
           ReportFailure(s, x)
    PROVE  \E v \in Workers :
              /\ Fails(s, w, v) \/ Ends(s, w, v)
              /\ v.cancel = w.cancel
              /\ Become(s, v)
<1> DEFINE v == [Closed(x) EXCEPT !.phase = "receive"]
<1>1. v \in Workers
  BY EndedType DEF Phases
<1>2. NoPipelineLeft(v) /\ SameQueue(x, v) /\ v.cancel = x.cancel /\ v.phase = "receive"
  BY ClosedFields DEF Phases
<1>3. SendAndBecome(s, "Failed", v)
  BY DEF ReportFailure
<1> HIDE DEF v
<1>4. v.feedback = w.feedback \/ (w.queue # <<>> /\ v.feedback = Head(w.queue).epoch)
  BY <1>2 DEF SameQueue, TakesCommand
<1>5. \/ Says(s, "Failed", v) /\ Become(s, v)
      \/ \E u \in Workers : Ends(s, w, u) /\ u.cancel = w.cancel /\ Become(s, u)
  BY <1>1, <1>2, <1>3, <1>4, SaysOrEnds
<1>6. SameQueue(w, v) \/ (w.phase = "receive" /\ TakesCommand(w, v))
  BY <1>2 DEF SameQueue, TakesCommand
<1> QED
  BY <1>1, <1>2, <1>5, <1>6 DEF Fails

(* Quitting and panicking end the thread. *)
LEMMA QuitEnds ==
    ASSUME NEW s \in Epochs, WorkerTypeOK, NEW how \in {"exited", "panicked"},
           how = "exited" => worker[s].cancel,
           Step(s, Ended(worker[s], how))
    PROVE  \E v \in Workers : Ends(s, worker[s], v) /\ v.cancel = worker[s].cancel /\ Become(s, v)
<1> DEFINE w == worker[s]
           v == Ended(w, how)
<1>0. w \in Workers
  BY DEF WorkerTypeOK
<1>1. v \in Workers
  BY <1>0, EndedType DEF Phases
<1>2. NoPipelineLeft(v) /\ v.queue = <<>> /\ v.feedback = w.feedback /\ v.cancel = w.cancel
      /\ v.phase = how
  <2>1. how \in Phases
    BY DEF Phases
  <2> QED
    BY <1>0, <2>1, ClosedFields
<1>3. inbox' = inbox /\ Become(s, v)
  BY DEF Step
<1> HIDE DEF v
<1> QED
  BY <1>1, <1>2, <1>3 DEF Ends, Silent

(* Every step of a worker is one of the moves above. *)
LEMMA WorkerMoves ==
    ASSUME WorkerTypeOK, NEW s \in Epochs, WorkerNext(s)
    PROVE  \E v \in Workers :
              /\ WorkerMove(s, worker[s], v)
              /\ v.cancel = worker[s].cancel
              /\ worker' = [worker EXCEPT ![s] = v]
<1> DEFINE w == worker[s]
           Fits(v) == WorkerMove(s, w, v) /\ v.cancel = w.cancel /\ Become(s, v)
           Moved == \E v \in Workers : Fits(v)
<1> SUFFICES Moved
  BY DEF Become
<1>w. w \in Workers
  BY DEF WorkerTypeOK
<1>i. ASSUME NEW v \in Workers, WorkerMove(s, w, v), v.cancel = w.cancel, Become(s, v)
      PROVE  Moved
  BY <1>i
<1> HIDE DEF Moved
<1>f. ReportFailure(s, w) => Moved
  <2>1. SameQueue(w, w)
    BY DEF SameQueue
  <2> QED
    BY <1>w, <1>i, <2>1, FailsOrEnds DEF WorkerMove
<1>q. Quit(s) /\ w.cancel => Moved
  BY <1>i, QuitEnds DEF Quit, Step, WorkerMove
<1>p. \A ph \in Phases :
         LET v == [w EXCEPT !.phase = ph] IN
         /\ v \in Workers /\ v.phase = ph /\ v.cancel = w.cancel
         /\ SameQueue(w, v) /\ SamePipeline(w, v)
  BY <1>w DEF Workers, SameQueue, SamePipeline
<1>e. ASSUME NEW u \in Workers, Ends(s, w, u), u.cancel = w.cancel, Become(s, u)
      PROVE  Moved
  BY <1>e, <1>i DEF WorkerMove
<1>1. CASE WorkerBegin(s)
  <2> DEFINE v == [w EXCEPT !.phase = "building"]
  <2>1. v \in Workers /\ v.phase = "building" /\ v.cancel = w.cancel /\ SameQueue(w, v)
        /\ SamePipeline(w, v)
    BY <1>p DEF Phases
  <2>2. CASE Step(s, v)
    <3> HIDE DEF v
    <3>1. Begins(s, w, v)
      BY <1>1, <2>1, <2>2 DEF WorkerBegin, Begins, Silent, Step
    <3> QED
      BY <1>i, <2>1, <2>2, <3>1 DEF WorkerMove, Step
  <2> QED
    BY <1>1, <1>q, <2>2 DEF WorkerBegin
<1>2. CASE WorkerBuild(s)
  <2> DEFINE v == Built(w)
  <2>1. /\ v \in Workers /\ v.phase = "prepared" /\ v.cancel = w.cancel /\ SameQueue(w, v)
        /\ v.pipeline = w.feedback /\ v.running = w.running /\ v.reported = w.reported
    BY <1>w DEF Built, Workers, Phases, SameQueue
  <2>2. CASE SendAndBecome(s, "DurationChanged", v)
    <3> HIDE DEF v
    <3>1. \/ Says(s, "DurationChanged", v) /\ Become(s, v)
          \/ \E u \in Workers : Ends(s, w, u) /\ u.cancel = w.cancel /\ Become(s, u)
      <4>1. v.feedback = w.feedback
        BY <2>1 DEF SameQueue
      <4> QED
        BY <1>w, <2>1, <2>2, <4>1, SaysOrEnds
    <3>2. Says(s, "DurationChanged", v) => Builds(s, w, v)
      BY <1>2, <2>1 DEF WorkerBuild, Builds
    <3> QED
      BY <1>i, <1>e, <2>1, <3>1, <3>2 DEF WorkerMove
  <2> QED
    BY <1>2, <1>q, <1>f, <2>2 DEF WorkerBuild
<1>3. CASE WorkerPrepared(s)
  <2> DEFINE v == [w EXCEPT !.phase = "receive"]
  <2>1. v \in Workers /\ v.phase = "receive" /\ v.cancel = w.cancel /\ SameQueue(w, v)
        /\ SamePipeline(w, v)
    BY <1>p DEF Phases
  <2>2. SendAndBecome(s, "PreparationCompleted", v)
    BY <1>3 DEF WorkerPrepared
  <2> HIDE DEF v
  <2>3. \/ Says(s, "PreparationCompleted", v) /\ Become(s, v)
        \/ \E u \in Workers : Ends(s, w, u) /\ u.cancel = w.cancel /\ Become(s, u)
    <3>1. v.feedback = w.feedback
      BY <2>1 DEF SameQueue
    <3> QED
      BY <1>w, <2>1, <2>2, <3>1, SaysOrEnds
  <2>4. Says(s, "PreparationCompleted", v) => Prepares(s, w, v)
    BY <1>3, <2>1 DEF WorkerPrepared, Prepares
  <2> QED
    BY <1>i, <1>e, <2>1, <2>3, <2>4 DEF WorkerMove
<1>4. CASE WorkerApply(s)
  <2> DEFINE cmd == Head(w.queue)
             x == [w EXCEPT !.feedback = cmd.epoch, !.queue = Tail(@)]
  <2>0. w.queue \in Seq(WorkerCommands) /\ w.queue # <<>> /\ w.phase = "receive"
    BY <1>4, <1>w DEF WorkerApply, Workers
  <2>1. cmd \in WorkerCommands /\ Tail(w.queue) \in Seq(WorkerCommands)
    BY <2>0
  <2>2. /\ x \in Workers /\ x.cancel = w.cancel /\ x.phase = w.phase
        /\ x.feedback = cmd.epoch /\ x.queue = Tail(w.queue) /\ SamePipeline(w, x)
    <3>1. cmd.epoch \in Epochs
      BY <2>1 DEF WorkerCommands
    <3> QED
      BY <1>w, <2>1, <3>1 DEF Workers, SamePipeline
  <2>3. TakesCommand(w, x)
    BY <2>0, <2>2 DEF TakesCommand
  <2>4. \/ ReportFailure(s, x)
        \/ x.pipeline # NoPipeline /\ EpochAgrees(x, cmd) /\ ApplyOk(s, x, cmd)
    BY <1>4 DEF WorkerApply
  <2>5. cmd.action \in {"StartPlayback", "PausePlayback", "Seek"} /\ cmd.epoch \in Epochs
        /\ cmd.resume \in BOOLEAN
    BY <2>1 DEF WorkerCommands
  <2> HIDE DEF cmd, x
  <2>6. CASE ReportFailure(s, x)
    BY <1>w, <1>i, <2>0, <2>2, <2>3, <2>6, FailsOrEnds DEF WorkerMove
  <2>7. ASSUME x.pipeline # NoPipeline, EpochAgrees(x, cmd), ApplyOk(s, x, cmd)
        PROVE  Moved
    <3>1. CASE cmd.action = "StartPlayback"
      <4> DEFINE v == [x EXCEPT !.phase = "rest", !.running = @ \/ ~IgnoresStart(x)]
      <4>1. /\ v \in Workers /\ v.cancel = x.cancel /\ v.phase = "rest" /\ SameQueue(x, v)
            /\ v.pipeline = x.pipeline /\ v.reported = x.reported
            /\ v.running <=> x.running \/ ~x.reported
        BY <2>2 DEF Workers, Phases, SameQueue, IgnoresStart
      <4>2. Step(s, v)
        BY <2>7, <3>1 DEF ApplyOk
      <4> HIDE DEF v
      <4>3. TakesCommand(w, v)
        BY <2>3, <4>1 DEF TakesCommand, SameQueue
      <4>4. Starts(s, w, v)
        BY <2>0, <2>2, <2>7, <3>1, <4>1, <4>2, <4>3
           DEF Starts, Silent, Step, SamePipeline, EpochAgrees, cmd
      <4> QED
        BY <1>i, <2>2, <4>1, <4>2, <4>4 DEF WorkerMove, Step
    <3>2. CASE cmd.action = "PausePlayback"
      <4> DEFINE v == [x EXCEPT !.phase = "rest", !.running = FALSE]
      <4>1. /\ v \in Workers /\ v.cancel = x.cancel /\ v.phase = "rest" /\ SameQueue(x, v)
            /\ v.pipeline = x.pipeline /\ v.reported = x.reported /\ ~v.running
        BY <2>2 DEF Workers, Phases, SameQueue
      <4>2. Step(s, v)
        BY <2>7, <3>2 DEF ApplyOk
      <4> HIDE DEF v
      <4>3. TakesCommand(w, v)
        BY <2>3, <4>1 DEF TakesCommand, SameQueue
      <4>4. Pauses(s, w, v)
        BY <2>0, <2>2, <2>7, <3>2, <4>1, <4>2, <4>3
           DEF Pauses, Silent, Step, SamePipeline, EpochAgrees, cmd
      <4> QED
        BY <1>i, <2>2, <4>1, <4>2, <4>4 DEF WorkerMove, Step
    <3>3. CASE cmd.action = "Seek"
      <4> DEFINE v == [Sought(x, cmd) EXCEPT !.phase = "sought"]
      <4>0. v \in Workers
        BY <2>1, <2>2, SoughtType DEF cmd
      <4>1. /\ v.cancel = x.cancel /\ v.phase = "sought" /\ SameQueue(x, v)
            /\ v.pipeline = cmd.epoch /\ v.running = cmd.resume /\ ~v.reported
        BY <2>2 DEF Workers, SameQueue, Sought
      <4>2. SendAndBecome(s, "SeekCompleted", v)
        BY <2>7, <3>3 DEF ApplyOk
      <4> HIDE DEF v
      <4>3. TakesCommand(w, v)
        BY <2>3, <4>1 DEF TakesCommand, SameQueue
      <4>4. v.cancel = w.cancel /\ (w.queue # <<>> /\ v.feedback = Head(w.queue).epoch)
        BY <2>2, <4>1, <4>3 DEF TakesCommand
      <4>5. \/ Says(s, "SeekCompleted", v) /\ Become(s, v)
            \/ \E u \in Workers : Ends(s, w, u) /\ u.cancel = w.cancel /\ Become(s, u)
        BY <1>w, <4>0, <4>2, <4>4, SaysOrEnds
      <4>6. Says(s, "SeekCompleted", v) => Seeks(s, w, v)
        BY <2>0, <2>2, <2>7, <3>3, <4>1, <4>3 DEF Seeks, SamePipeline, EpochAgrees, cmd
      <4> QED
        BY <1>i, <1>e, <4>0, <4>4, <4>5, <4>6 DEF WorkerMove
    <3> QED
      BY <2>5, <3>1, <3>2, <3>3
  <2> QED
    BY <2>4, <2>6, <2>7
<1>5. CASE WorkerCancelled(s)
  BY <1>5, <1>q DEF WorkerCancelled
<1>6. CASE WorkerSought(s)
  <2> DEFINE v == [w EXCEPT !.phase = "rest"]
  <2>1. v \in Workers /\ v.phase = "rest" /\ v.cancel = w.cancel /\ SameQueue(w, v)
        /\ SamePipeline(w, v)
    BY <1>p DEF Phases
  <2>2. SendAndBecome(s, "AudioProgress", v)
    BY <1>6 DEF WorkerSought
  <2> HIDE DEF v
  <2>3. \/ Says(s, "AudioProgress", v) /\ Become(s, v)
        \/ \E u \in Workers : Ends(s, w, u) /\ u.cancel = w.cancel /\ Become(s, u)
    <3>1. v.feedback = w.feedback
      BY <2>1 DEF SameQueue
    <3> QED
      BY <1>w, <2>1, <2>2, <3>1, SaysOrEnds
  <2>4. Says(s, "AudioProgress", v) => Reports(s, w, v)
    BY <1>6, <2>1 DEF WorkerSought, Reports
  <2> QED
    BY <1>i, <1>e, <2>1, <2>3, <2>4 DEF WorkerMove
<1>7. CASE WorkerReport(s)
  <2> DEFINE v == [w EXCEPT !.phase = "advance"]
  <2>1. v \in Workers /\ v.phase = "advance" /\ v.cancel = w.cancel /\ SameQueue(w, v)
        /\ SamePipeline(w, v)
    BY <1>p DEF Phases
  <2>2. CASE SendAndBecome(s, "AudioProgress", v)
    <3> HIDE DEF v
    <3>3. \/ Says(s, "AudioProgress", v) /\ Become(s, v)
          \/ \E u \in Workers : Ends(s, w, u) /\ u.cancel = w.cancel /\ Become(s, u)
      <4>1. v.feedback = w.feedback
        BY <2>1 DEF SameQueue
      <4> QED
        BY <1>w, <2>1, <2>2, <4>1, SaysOrEnds
    <3>4. Says(s, "AudioProgress", v) => Reports(s, w, v)
      BY <1>7, <2>1 DEF WorkerReport, Reports, AtRest, LoopPhases
    <3> QED
      BY <1>i, <1>e, <2>1, <3>3, <3>4 DEF WorkerMove
  <2> QED
    BY <1>7, <1>f, <2>2 DEF WorkerReport
<1>8. CASE WorkerComplete(s)
  <2> DEFINE v == [w EXCEPT !.phase = "receive", !.running = FALSE, !.reported = TRUE]
  <2>1. /\ v \in Workers /\ v.phase = "receive" /\ v.cancel = w.cancel /\ SameQueue(w, v)
        /\ v.pipeline = w.pipeline /\ ~v.running /\ v.reported
    BY <1>w DEF Workers, Phases, SameQueue
  <2>2. CASE SendAndBecome(s, "PlaybackCompleted", v)
    <3> HIDE DEF v
    <3>3. \/ Says(s, "PlaybackCompleted", v) /\ Become(s, v)
          \/ \E u \in Workers : Ends(s, w, u) /\ u.cancel = w.cancel /\ Become(s, u)
      <4>1. v.feedback = w.feedback
        BY <2>1 DEF SameQueue
      <4> QED
        BY <1>w, <2>1, <2>2, <4>1, SaysOrEnds
    <3>4. Says(s, "PlaybackCompleted", v) => Completes(s, w, v)
      BY <1>8, <2>1 DEF WorkerComplete, Completes, AtAdvance, AtRest, AwaitsCompletion, LoopPhases
    <3> QED
      BY <1>i, <1>e, <2>1, <3>3, <3>4 DEF WorkerMove
  <2> QED
    BY <1>8, <1>f, <2>2 DEF WorkerComplete
<1>9. CASE WorkerIdle(s)
  <2> DEFINE v == [w EXCEPT !.phase = "receive"]
  <2>1. v \in Workers /\ v.phase = "receive" /\ v.cancel = w.cancel /\ SameQueue(w, v)
        /\ SamePipeline(w, v)
    BY <1>p DEF Phases
  <2>2. Step(s, v)
    BY <1>9 DEF WorkerIdle
  <2> HIDE DEF v
  <2>3. Rests(s, w, v)
    BY <1>9, <2>1, <2>2 DEF WorkerIdle, Step, Rests, Silent, LoopPhases
  <2> QED
    BY <1>i, <2>1, <2>2, <2>3 DEF WorkerMove, Step
<1>10. CASE WorkerAdvance(s)
  <2>1. ASSUME NEW d \in BOOLEAN, Step(s, [w EXCEPT !.phase = "receive", !.drained = d])
        PROVE  Moved
    <3> DEFINE v == [w EXCEPT !.phase = "receive", !.drained = d]
    <3>1. v \in Workers /\ v.phase = "receive" /\ v.cancel = w.cancel /\ SameQueue(w, v)
          /\ SamePipeline(w, v)
      BY <1>w DEF Workers, Phases, SameQueue, SamePipeline
    <3>2. Step(s, v)
      BY <2>1
    <3> HIDE DEF v
    <3>3. Rests(s, w, v)
      BY <1>10, <3>1, <3>2 DEF WorkerAdvance, AtAdvance, AtRest, Step, Rests, Silent, LoopPhases
    <3> QED
      BY <1>i, <3>1, <3>2, <3>3 DEF WorkerMove, Step
  <2> QED
    BY <1>10, <1>f, <1>q, <2>1 DEF WorkerAdvance
<1>11. CASE WorkerPanic(s)
  BY <1>11, <1>i, QuitEnds DEF WorkerPanic, WorkerMove
<1> HIDE DEF w, Fits
<1> QED
  BY <1>1, <1>2, <1>3, <1>4, <1>5, <1>6, <1>7, <1>8, <1>9, <1>10, <1>11 DEF WorkerNext

-----------------------------------------------------------------------------
(***************************************************************************)
(* The steps of the effect thread.  r is the result it receives.           *)
(***************************************************************************)

PlayEffects == {"StartPlayback", "PausePlayback", "Seek"}
ShutdownEffects == {"Stop", "Release", "CleanupAfterFailure"}

Quiet(r) == r.effect = "None" /\ r.event # "ControlError"

(* The control thread failed, or is gone and cannot be told of a failure. *)
IsOver(r) == r.event = "ControlError" \/ (~ControlAlive /\ r.effect # "None")

Ignores(r) == Quiet(r) /\ UNCHANGED <<inbox, worker, effect, handle, task>>

Spawns(r) ==
    /\ r.effect = "BeginPrepare" /\ handle = NoSession
    /\ worker' = [worker EXCEPT ![r.epoch] = Spawned(r.epoch)]
    /\ handle' = r.epoch
    /\ UNCHANGED <<inbox, effect, task>>

CommandOf(r) == [action |-> r.effect, epoch |-> r.epoch, resume |-> r.resume]

HandsOver(r) ==
    /\ r.effect \in PlayEffects
    /\ handle # NoSession /\ Live(handle)
    /\ worker' = [worker EXCEPT ![handle] =
                     [worker[handle] EXCEPT !.queue = Append(worker[handle].queue, CommandOf(r))]]
    /\ UNCHANGED <<inbox, effect, handle, task>>

(* The effect cannot be carried out, and the control thread is told. *)
Answers(r) ==
    /\ ControlAlive
    /\ \/ r.effect = "BeginPrepare"
       \/ r.effect \in PlayEffects /\ ~(handle # NoSession /\ Live(handle))
    /\ \E s \in Epochs :
          /\ s = IF r.effect = "BeginPrepare" \/ handle = NoSession THEN r.epoch ELSE handle
          /\ inbox' = Append(inbox, [type |-> "Failed", epoch |-> r.epoch, session |-> s])
    /\ UNCHANGED <<worker, effect, handle, task>>

GivesUp(r) ==
    /\ handle # NoSession
    /\ inbox' = inbox /\ effect' = "joining" /\ handle' = NoSession
    /\ worker' = [worker EXCEPT ![handle] = [worker[handle] EXCEPT !.cancel = TRUE]]
    /\ task'.session = handle
    /\ \/ r.effect \in ShutdownEffects /\ task'.why = r.effect /\ task'.epoch = r.epoch
       \/ IsOver(r) /\ task'.why = "Drop"

(* There is no worker to give up. *)
Returns(r) ==
    /\ handle = NoSession
    /\ IsOver(r) \/ r.effect = "Release"
    /\ effect' \in EffectExits
    /\ UNCHANGED <<inbox, worker, handle, task>>

FindsNobody(r) ==
    /\ handle = NoSession
    /\ r.effect \in {"Stop", "CleanupAfterFailure"}
    /\ UNCHANGED <<inbox, worker, effect, handle, task>>

EffectMove(r) ==
    \/ Ignores(r)
    \/ Spawns(r)
    \/ HandsOver(r)
    \/ Answers(r)
    \/ GivesUp(r)
    \/ Returns(r)
    \/ FindsNobody(r)

(* Leaving the loop gives up the worker or returns. *)
LEMMA LeaveMoves ==
    ASSUME EffectSideOK, NEW r, IsOver(r), NEW exit \in EffectExits, Leave(exit)
    PROVE  EffectMove(r)
<1>1. CASE handle = NoSession
  BY <1>1 DEF Leave, EffectMove, Returns
<1>2. CASE handle # NoSession
  <2>1. CancelAndJoin("Drop", 0, exit) /\ inbox' = inbox
    BY <1>2 DEF Leave
  <2>2. handle \in Epochs
    BY <1>2 DEF EffectSideOK
  <2>3. worker' = [worker EXCEPT ![handle] = [worker[handle] EXCEPT !.cancel = TRUE]]
    BY <2>1, <2>2 DEF CancelAndJoin, EffectSideOK, WorkerTypeOK
  <2>4. task'.session = handle /\ task'.why = "Drop"
    BY <2>1 DEF CancelAndJoin
  <2>5. GivesUp(r)
    BY <1>2, <2>1, <2>3, <2>4 DEF CancelAndJoin, GivesUp
  <2> QED
    BY <2>5 DEF EffectMove
<1> QED
  BY <1>1, <1>2

(* Every iteration of the effect loop is one of the moves above. *)
LEMMA EffectMoves ==
    ASSUME TypeOK, EffectReceive
    PROVE  /\ effect = "receiving" /\ results # <<>> /\ control' = control
           /\ results \in Seq(Results) /\ Head(results) \in Results /\ results' = Tail(results)
           /\ seen' = IF Tells(Head(results)) THEN Head(results).after ELSE seen
           /\ EffectMove(Head(results))
<1> DEFINE r == Head(results)
<1>1. /\ effect = "receiving" /\ results # <<>> /\ control' = control
      /\ results' = Tail(results)
      /\ seen' = IF Tells(r) THEN r.after ELSE seen
      /\ IF r.event = "ControlError" THEN Leave("ControlFailed") ELSE Execute(r)
  BY DEF EffectReceive, Tells
<1>2. results \in Seq(Results) /\ EffectSideOK
  BY TypeParts
<1>3. r \in Results
  BY <1>1, <1>2
<1>4. r.effect \in Effects \cup {"None"} /\ r.epoch \in Epochs
  BY <1>3 DEF Results
<1>x. "ControlFailed" \in EffectExits /\ "FeedbackDisconnected" \in EffectExits
      /\ "Released" \in EffectExits
  BY DEF EffectExits
<1>w. handle # NoSession => handle \in Epochs
  BY <1>2 DEF EffectSideOK
<1>5. EffectMove(r)
  <2> HIDE DEF r
  <2>f. ASSUME NEW e, NEW s, ReportEffectFailure(e, s), ~ControlAlive, r.effect # "None"
        PROVE  EffectMove(r)
    <3>1. Leave("FeedbackDisconnected") /\ IsOver(r)
      BY <2>f DEF ReportEffectFailure, IsOver
    <3> QED
      BY <1>2, <1>x, <3>1, LeaveMoves
  <2>1. CASE r.event = "ControlError"
    <3>1. Leave("ControlFailed") /\ IsOver(r)
      BY <1>1, <2>1 DEF IsOver
    <3> QED
      BY <1>2, <1>x, <3>1, LeaveMoves
  <2>2. CASE r.event # "ControlError" /\ r.effect = "None"
    BY <1>1, <2>2 DEF Execute, Idling, EffectMove, Ignores, Quiet
  <2>3. CASE r.event # "ControlError" /\ r.effect = "BeginPrepare"
    <3>1. BeginPrepare(r)
      BY <1>1, <2>3 DEF Execute
    <3>2. CASE ReportEffectFailure(r.epoch, r.epoch)
      <4>1. CASE ControlAlive
        <5>1. Answers(r)
          BY <1>1, <1>4, <2>3, <3>2, <4>1 DEF ReportEffectFailure, Answers
        <5> QED
          BY <5>1 DEF EffectMove
      <4> QED
        BY <2>3, <2>f, <3>2, <4>1
    <3>3. CASE ~ReportEffectFailure(r.epoch, r.epoch)
      BY <2>3, <3>1, <3>3 DEF BeginPrepare, EffectMove, Spawns
    <3> QED
      BY <3>2, <3>3
  <2>4. CASE r.event # "ControlError" /\ r.effect \in PlayEffects
    <3>1. SendToWorker(r)
      BY <1>1, <2>4 DEF Execute, PlayEffects
    <3>2. CASE handle # NoSession /\ Live(handle)
      <4>1. HandOver(handle, CommandOf(r)) /\ UNCHANGED <<inbox, effect, handle, task>>
        BY <3>1, <3>2 DEF SendToWorker, CommandOf
      <4>2. worker' = [worker EXCEPT ![handle] =
                [worker[handle] EXCEPT !.queue = Append(worker[handle].queue, CommandOf(r))]]
        BY <1>2, <1>w, <3>2, <4>1 DEF HandOver, EffectSideOK, WorkerTypeOK
      <4>3. HandsOver(r)
        BY <2>4, <3>2, <4>1, <4>2 DEF HandsOver
      <4> QED
        BY <4>3 DEF EffectMove
    <3>3. CASE ~(handle # NoSession /\ Live(handle))
      <4>1. ReportEffectFailure(r.epoch, IF handle = NoSession THEN r.epoch ELSE handle)
        BY <3>1, <3>3 DEF SendToWorker
      <4>2. CASE ControlAlive
        <5>1. (IF handle = NoSession THEN r.epoch ELSE handle) \in Epochs
              /\ r.effect # "BeginPrepare"
          BY <1>4, <1>w, <2>4 DEF PlayEffects
        <5>2. Answers(r)
          BY <1>1, <2>4, <3>3, <4>1, <4>2, <5>1 DEF ReportEffectFailure, Answers
        <5> QED
          BY <5>2 DEF EffectMove
      <4> QED
        BY <2>4, <2>f, <4>1, <4>2 DEF PlayEffects
    <3> QED
      BY <3>2, <3>3
  <2>5. CASE r.event # "ControlError" /\ r.effect \in ShutdownEffects
    <3>1. ShutdownWorker(r)
      BY <1>1, <2>5 DEF Execute, ShutdownEffects
    <3>2. CASE handle # NoSession
      <4>1. CancelAndJoin(r.effect, r.epoch, "Released") /\ inbox' = inbox
        BY <3>1, <3>2 DEF ShutdownWorker
      <4>2. worker' = [worker EXCEPT ![handle] = [worker[handle] EXCEPT !.cancel = TRUE]]
        BY <1>2, <1>w, <3>2, <4>1 DEF CancelAndJoin, EffectSideOK, WorkerTypeOK
      <4>3. task'.session = handle /\ task'.why = r.effect /\ task'.epoch = r.epoch
        BY <4>1 DEF CancelAndJoin
      <4>4. GivesUp(r)
        BY <2>5, <3>2, <4>1, <4>2, <4>3 DEF CancelAndJoin, GivesUp
      <4> QED
        BY <4>4 DEF EffectMove
    <3>3. CASE handle = NoSession
      BY <1>1, <1>x, <2>5, <3>1, <3>3
         DEF ShutdownWorker, ShutdownEffects, EffectMove, Returns, FindsNobody
    <3> QED
      BY <3>2, <3>3
  <2> QED
    BY <1>4, <2>1, <2>2, <2>3, <2>4, <2>5 DEF Effects, PlayEffects, ShutdownEffects
<1> QED
  BY <1>1, <1>2, <1>3, <1>5

-----------------------------------------------------------------------------
(***************************************************************************)
(* The steps of the control thread.  m is the message it receives, r the   *)
(* result it sends.                                                        *)
(***************************************************************************)

Accepts(m, r) ==
    /\ m.type \in Commands
    /\ Transition(state, ActionOf[m.type], state')
    /\ state' # state \/ m.type = "Seek"
    /\ epoch' = IF m.type \in InvalidatingCommands THEN epoch + 1 ELSE epoch
    /\ r.event \in {"StateChanged", "None"}
    /\ r.event = "None" => state' = state
    /\ r.effect = EffectOf[m.type]
    /\ r.resume <=> state' = "Playing"

(* Nothing changes: a repetition, a rejection, old or uneventful feedback, the end. *)
LeavesPlayer(m, r) ==
    /\ KeepPlayer
    /\ r.effect = "None" /\ ~Tells(r)
    /\ r.event \in {"DurationChanged", "SeekCompleted", "AudioProgress"} =>
          m.type = r.event /\ IsCurrent(m)
    /\ m.type \in {"PreparationCompleted", "PlaybackCompleted", "Failed"} /\ IsCurrent(m) =>
          r.event = "ControlError"
    /\ r.event = "ControlError" =>
          \/ epoch = MaxEpoch
          \/ /\ IsCurrent(m)
             /\ \/ m.type \in {"PreparationCompleted", "PlaybackCompleted"} /\ ~Legal(state, m.type)
                \/ m.type = "Failed" /\ ~Legal(state, "FatalError")

CompletesStage(m, r) ==
    /\ m.type \in {"PreparationCompleted", "PlaybackCompleted"} /\ IsCurrent(m)
    /\ Transition(state, m.type, state')
    /\ epoch' = epoch
    /\ r.effect = "None" /\ r.event = "StateChanged"

FailsPlayer(m, r) ==
    /\ m.type = "Failed" /\ IsCurrent(m)
    /\ state # "Released" /\ state' = "Error"
    /\ epoch' = epoch + 1
    /\ r.effect = "CleanupAfterFailure" /\ r.event = "PlaybackFailed"

ControlMove(m, r) ==
    \/ Accepts(m, r)
    \/ LeavesPlayer(m, r)
    \/ CompletesStage(m, r)
    \/ FailsPlayer(m, r)

(* Every iteration of the control loop is one of the moves above. *)
LEMMA ControlMoves ==
    ASSUME TypeOK, ControlReceive
    PROVE  \E r \in Results :
              /\ Reply(r)
              /\ r.before = state /\ r.after = state' /\ r.epoch = epoch'
              /\ ControlMove(Head(inbox), r)
<1> DEFINE m == Head(inbox)
           Fits(r) == /\ Reply(r)
                      /\ r.before = state /\ r.after = state' /\ r.epoch = epoch'
                      /\ ControlMove(m, r)
           Moved == \E r \in Results : Fits(r)
<1> SUFFICES Moved
  OBVIOUS
<1>m. m \in Messages
  BY DEF TypeOK, ChannelsTypeOK, ControlReceive
<1>s. state \in PlayerStates /\ epoch \in Epochs /\ ControlTypeOK
  BY DEF TypeOK, ControlTypeOK
<1>e. Events \cup {"None", "ControlError"} =
        {"StateChanged", "PlaybackFailed", "CommandRejected", "DurationChanged",
         "AudioProgress", "SeekCompleted", "None", "ControlError"}
  BY DEF Events
<1>i. ASSUME NEW r \in Results, Reply(r),
             r.before = state, r.after = state', r.epoch = epoch', ControlMove(m, r)
      PROVE  Moved
  BY <1>i
<1> HIDE DEF Moved, Fits, m
<1>q. ASSUME NEW event \in (Events \cup {"None", "ControlError"}),
             KeepPlayer, Reply(Outcome(event, state, "None", epoch)),
             event \notin {"StateChanged", "PlaybackFailed"},
             event \in {"DurationChanged", "SeekCompleted", "AudioProgress"} =>
                m.type = event /\ IsCurrent(m),
             m.type \in {"PreparationCompleted", "PlaybackCompleted", "Failed"} /\ IsCurrent(m) =>
                event = "ControlError",
             event = "ControlError" =>
                \/ epoch = MaxEpoch
                \/ /\ IsCurrent(m)
                   /\ \/ m.type \in {"PreparationCompleted", "PlaybackCompleted"}
                           /\ ~Legal(state, m.type)
                      \/ m.type = "Failed" /\ ~Legal(state, "FatalError")
      PROVE  Moved
  <2> DEFINE r == Outcome(event, state, "None", epoch)
  <2>1. r \in Results
    BY <1>s, OutcomeType
  <2>2. /\ r.before = state /\ r.after = state /\ r.epoch = epoch
        /\ r.effect = "None" /\ r.event = event
    BY DEF Outcome
  <2>3. Reply(r)
    BY <1>q
  <2> HIDE DEF r
  <2>4. LeavesPlayer(m, r)
    BY <1>q, <2>2 DEF LeavesPlayer, Tells
  <2>5. state' = state /\ epoch' = epoch
    BY <1>q DEF KeepPlayer
  <2> QED
    BY <1>i, <2>1, <2>2, <2>3, <2>4, <2>5 DEF ControlMove
<1>1. ASSUME m.type \in Commands, AcceptCommand(m.type)
      PROVE  Moved
  <2>1. PICK next \in PlayerStates :
            /\ Transition(state, ActionOf[m.type], next)
            /\ next # state \/ m.type = "Seek"
            /\ epoch' = IF m.type \in InvalidatingCommands THEN epoch + 1 ELSE epoch
            /\ epoch' \in Epochs
            /\ state' = next
            /\ Reply(Outcome(IF next # state THEN "StateChanged" ELSE "None",
                             next, EffectOf[m.type], epoch'))
    BY <1>1 DEF AcceptCommand
  <2> DEFINE ev == IF next # state THEN "StateChanged" ELSE "None"
             r == Outcome(ev, next, EffectOf[m.type], epoch')
  <2>2. r \in Results
    BY <1>1, <1>e, <1>s, <2>1, OutcomeType, EffectOfType
  <2>3. /\ r.before = state /\ r.after = next /\ r.epoch = epoch'
        /\ r.effect = EffectOf[m.type] /\ r.event = ev
        /\ r.resume <=> next = "Playing"
    BY DEF Outcome
  <2>4. Reply(r)
    BY <2>1
  <2> HIDE DEF r
  <2>5. Accepts(m, r)
    BY <1>1, <2>1, <2>3 DEF Accepts
  <2> QED
    BY <1>i, <2>1, <2>2, <2>3, <2>4, <2>5 DEF ControlMove
<1>2. ASSUME m.type \in Commands,
             RepeatCommand(m.type) \/ OverflowCommand(m.type) \/ RejectCommand(m.type)
      PROVE  Moved
  <2>1. m.type \notin {"PreparationCompleted", "PlaybackCompleted", "Failed"}
    BY <1>2 DEF Commands
  <2>2. CASE RepeatCommand(m.type)
    BY <1>q, <1>e, <2>1, <2>2 DEF RepeatCommand
  <2>3. CASE OverflowCommand(m.type)
    BY <1>q, <1>e, <2>1, <2>3 DEF OverflowCommand
  <2>4. CASE RejectCommand(m.type)
    BY <1>q, <1>e, <2>1, <2>4 DEF RejectCommand
  <2> QED
    BY <1>2, <2>2, <2>3, <2>4
<1>3. ASSUME DropStaleFeedback(m)
      PROVE  Moved
  BY <1>3, <1>q, <1>e DEF DropStaleFeedback
<1>4. ASSUME ForwardFeedback(m)
      PROVE  Moved
  BY <1>4, <1>q, <1>e DEF ForwardFeedback
<1>5. ASSUME FatalFeedback(m)
      PROVE  Moved
  BY <1>5, <1>q, <1>e DEF FatalFeedback
<1>6. ASSUME CompleteStage(m)
      PROVE  Moved
  <2>1. PICK next \in PlayerStates :
            /\ Transition(state, m.type, next)
            /\ state' = next
            /\ epoch' = epoch
            /\ Reply(Outcome("StateChanged", next, "None", epoch))
    BY <1>6 DEF CompleteStage
  <2> DEFINE r == Outcome("StateChanged", next, "None", epoch)
  <2>2. r \in Results
    BY <1>s, <1>e, OutcomeType
  <2>3. /\ r.before = state /\ r.after = next /\ r.epoch = epoch
        /\ r.effect = "None" /\ r.event = "StateChanged"
    BY DEF Outcome
  <2>4. Reply(r)
    BY <2>1
  <2> HIDE DEF r
  <2>5. CompletesStage(m, r)
    BY <1>6, <2>1, <2>3 DEF CompleteStage, CompletesStage
  <2> QED
    BY <1>i, <2>1, <2>2, <2>3, <2>4, <2>5 DEF ControlMove
<1>7. ASSUME AcceptFailure(m)
      PROVE  Moved
  <2> DEFINE r == Outcome("PlaybackFailed", "Error", "CleanupAfterFailure", epoch')
  <2>1. epoch' \in Epochs /\ state' = "Error" /\ Reply(r) /\ epoch' = epoch + 1
        /\ m.type = "Failed" /\ IsCurrent(m) /\ state # "Released"
    BY <1>7, <1>s, MaxEpochAssumption DEF AcceptFailure, Epochs, Transition
  <2>2. "Error" \in PlayerStates /\ "CleanupAfterFailure" \in Effects
    BY DEF PlayerStates, Effects
  <2>3. r \in Results
    BY <1>e, <1>s, <2>1, <2>2, OutcomeType
  <2>4. /\ r.before = state /\ r.after = "Error" /\ r.epoch = epoch'
        /\ r.effect = "CleanupAfterFailure" /\ r.event = "PlaybackFailed"
    BY DEF Outcome
  <2> HIDE DEF r
  <2>5. FailsPlayer(m, r)
    BY <2>1, <2>4 DEF FailsPlayer
  <2> QED
    BY <1>i, <2>1, <2>3, <2>4, <2>5 DEF ControlMove
<1>8. CASE m.type \in Commands
  BY <1>8, <1>1, <1>2 DEF ControlReceive, HandleCommand, m
<1>9. CASE m.type \notin Commands
  BY <1>9, <1>3, <1>4, <1>5, <1>6, <1>7 DEF ControlReceive, HandleFeedback, m
<1> QED
  BY <1>8, <1>9

-----------------------------------------------------------------------------
(* Sequences *)

(* The entries of a sequence with one more. *)
LEMMA AppendEntries ==
    ASSUME NEW S, NEW q \in Seq(S), NEW x \in S
    PROVE  /\ Append(q, x) \in Seq(S) /\ Append(q, x) # <<>>
           /\ Len(q) \in Nat /\ Len(Append(q, x)) = Len(q) + 1
           /\ Append(q, x)[Len(q) + 1] = x
           /\ \A i \in 1 .. Len(q) : Append(q, x)[i] = q[i]
OBVIOUS

(* The entries of a sequence with one less. *)
LEMMA TailEntries ==
    ASSUME NEW S, NEW q \in Seq(S), q # <<>>
    PROVE  /\ Tail(q) \in Seq(S)
           /\ Len(q) \in Nat /\ Len(q) >= 1 /\ Len(Tail(q)) = Len(q) - 1
           /\ Head(q) = q[1] /\ q[1] \in S
           /\ \A i \in 1 .. Len(q) - 1 : Tail(q)[i] = q[i + 1]
<1>1. /\ Tail(q) \in Seq(S)
      /\ Len(q) \in Nat /\ Len(q) >= 1 /\ Len(Tail(q)) = Len(q) - 1
      /\ Head(q) = q[1] /\ q[1] \in S
  OBVIOUS
<1>2. \A i \in 1 .. Len(q) - 1 : Tail(q)[i] = q[i + 1]
  OBVIOUS
<1> QED
  BY <1>1, <1>2

-----------------------------------------------------------------------------
(***************************************************************************)
(* Old work.  Whatever may still come back as feedback carries an epoch    *)
(* that the controller has reached, and in Error one that it has left:     *)
(* a failure opens a new epoch, and in Error no work is given out.         *)
(***************************************************************************)

Usable(e) == e <= epoch /\ (state = "Error" => e < epoch)

(* The effects that answer with a failure when they cannot be carried out. *)
Answerable == {"BeginPrepare", "StartPlayback", "PausePlayback", "Seek", "Stop"}

InboxFresh == \A i \in 1 .. Len(inbox) : Usable(inbox[i].epoch)

ResultsFresh ==
    \A i \in 1 .. Len(results) : results[i].effect \in Answerable => Usable(results[i].epoch)

WorkersFresh ==
    \A s \in Epochs :
        /\ Usable(worker[s].feedback)
        /\ \A i \in 1 .. Len(worker[s].queue) : Usable(worker[s].queue[i].epoch)

TaskFresh == task.why = "Stop" => Usable(task.epoch)

FreshInv ==
    /\ Usable(0)
    /\ InboxFresh
    /\ ResultsFresh
    /\ WorkersFresh
    /\ TaskFresh
    /\ ControlAlive => state # "Released"

(* Every epoch anywhere in the runtime is an integer. *)
LEMMA EntryTypes ==
    ASSUME TypeOK
    PROVE  /\ inbox \in Seq(Messages) /\ results \in Seq(Results)
           /\ Len(inbox) \in Nat /\ Len(results) \in Nat
           /\ epoch \in Epochs /\ epoch \in Int /\ task.epoch \in Int
           /\ \A i \in 1 .. Len(inbox) : inbox[i] \in Messages /\ inbox[i].epoch \in Int
           /\ \A i \in 1 .. Len(results) : results[i] \in Results /\ results[i].epoch \in Int
           /\ \A s \in Epochs :
                 /\ worker[s] \in Workers /\ worker[s].feedback \in Int
                 /\ worker[s].queue \in Seq(WorkerCommands) /\ Len(worker[s].queue) \in Nat
                 /\ \A i \in 1 .. Len(worker[s].queue) :
                       /\ worker[s].queue[i] \in WorkerCommands
                       /\ worker[s].queue[i].epoch \in Int
<1>0. \A e \in Epochs : e \in Int
  BY DEF Epochs
<1>1. /\ inbox \in Seq(Messages) /\ results \in Seq(Results)
      /\ Len(inbox) \in Nat /\ Len(results) \in Nat
      /\ epoch \in Epochs /\ task \in Tasks
  BY DEF TypeOK, ChannelsTypeOK, ControlTypeOK, EffectTypeOK
<1>2. \A i \in 1 .. Len(inbox) : inbox[i] \in Messages
  BY <1>1
<1>3. \A i \in 1 .. Len(results) : results[i] \in Results
  BY <1>1
<1>4. \A m \in Messages : m.epoch \in Int
  BY <1>0 DEF Messages
<1>5. \A r \in Results : r.epoch \in Int
  BY <1>0 DEF Results
<1>6. ASSUME NEW s \in Epochs
      PROVE  /\ worker[s] \in Workers /\ worker[s].feedback \in Int
             /\ worker[s].queue \in Seq(WorkerCommands) /\ Len(worker[s].queue) \in Nat
             /\ \A i \in 1 .. Len(worker[s].queue) :
                   /\ worker[s].queue[i] \in WorkerCommands
                   /\ worker[s].queue[i].epoch \in Int
  <2>1. worker[s] \in Workers
    BY DEF TypeOK, WorkerTypeOK
  <2>2. worker[s].feedback \in Epochs /\ worker[s].queue \in Seq(WorkerCommands)
    BY <2>1 DEF Workers
  <2>3. /\ Len(worker[s].queue) \in Nat
        /\ \A i \in 1 .. Len(worker[s].queue) : worker[s].queue[i] \in WorkerCommands
    BY <2>2
  <2>4. \A c \in WorkerCommands : c.epoch \in Int
    BY <1>0 DEF WorkerCommands
  <2> QED
    BY <1>0, <2>1, <2>2, <2>3, <2>4
<1>7. task.epoch \in Int
  BY <1>0, <1>1 DEF Tasks
<1> QED
  BY <1>0, <1>1, <1>2, <1>3, <1>4, <1>5, <1>6, <1>7

(* What a message to the control thread may add. *)
LEMMA InboxFreshGrows ==
    ASSUME inbox \in Seq(Messages), InboxFresh, NEW m \in Messages, Usable(m.epoch),
           inbox' = Append(inbox, m), UNCHANGED <<state, epoch>>
    PROVE  InboxFresh'
<1>1. /\ Len(inbox) \in Nat /\ Len(inbox') = Len(inbox) + 1
      /\ inbox'[Len(inbox) + 1] = m
      /\ \A i \in 1 .. Len(inbox) : inbox'[i] = inbox[i]
  BY AppendEntries
<1> SUFFICES ASSUME NEW i \in 1 .. Len(inbox') PROVE Usable(inbox'[i].epoch)
  BY DEF InboxFresh, Usable
<1>2. CASE i = Len(inbox) + 1
  BY <1>1, <1>2
<1>3. CASE i \in 1 .. Len(inbox)
  BY <1>1, <1>3 DEF InboxFresh
<1> QED
  BY <1>1, <1>2, <1>3

(* A command of the user carries no epoch. *)
LEMMA PostFresh ==
    ASSUME inbox \in Seq(Messages), InboxFresh, Usable(0), NEW c \in Commands,
           Post([type |-> c, epoch |-> 0, session |-> 0]), UNCHANGED <<state, epoch>>
    PROVE  InboxFresh'
<1> DEFINE m == [type |-> c, epoch |-> 0, session |-> 0]
<1>1. m \in Messages /\ m.epoch = 0
  BY MaxEpochAssumption DEF Messages, Epochs
<1>2. inbox' = Append(inbox, m) \/ inbox' = inbox
  BY DEF Post
<1> HIDE DEF m
<1>3. CASE inbox' = Append(inbox, m)
  BY <1>1, <1>3, InboxFreshGrows
<1>4. CASE inbox' = inbox
  BY <1>4 DEF InboxFresh, Usable
<1> QED
  BY <1>2, <1>3, <1>4

(* An iteration of the control loop makes work old, never new. *)
LEMMA ControlKeepsFresh ==
    ASSUME TypeOK, FreshInv, ControlReceive, UNCHANGED <<worker, task>>
    PROVE  FreshInv'
<1>t. /\ inbox \in Seq(Messages) /\ results \in Seq(Results) /\ inbox # <<>>
      /\ epoch \in Int /\ epoch' \in Int
  <2>1. epoch \in Epochs /\ epoch' \in Epochs
    BY ControlStep DEF TypeOK, ControlTypeOK
  <2> QED
    BY <2>1 DEF TypeOK, ChannelsTypeOK, ControlReceive, Epochs
<1>1. PICK r \in Results :
          /\ Reply(r)
          /\ r.before = state /\ r.after = state' /\ r.epoch = epoch'
          /\ ControlMove(Head(inbox), r)
  BY ControlMoves
<1>2. /\ epoch' = epoch + 1 \/ (epoch' = epoch /\ (state' = "Error" => state = "Error"))
      /\ r.effect \in Answerable => state' # "Error"
  <2>1. CASE Accepts(Head(inbox), r)
    <3>1. state' # "Error"
      BY <2>1 DEF Accepts, Transition, ActionOf, Commands
    <3> QED
      BY <2>1, <3>1 DEF Accepts
  <2>2. CASE LeavesPlayer(Head(inbox), r)
    BY <2>2 DEF LeavesPlayer, KeepPlayer, Answerable
  <2>3. CASE CompletesStage(Head(inbox), r)
    BY <2>3 DEF CompletesStage, Transition, Answerable
  <2>4. CASE FailsPlayer(Head(inbox), r)
    BY <2>4 DEF FailsPlayer, Answerable
  <2> QED
    BY <1>1, <2>1, <2>2, <2>3, <2>4 DEF ControlMove
<1>u. \A e \in Int : Usable(e) => Usable(e)'
  BY <1>t, <1>2 DEF Usable
<1>3. InboxFresh'
  <2>1. inbox' = Tail(inbox) \/ inbox' = <<>>
    BY <1>1 DEF Reply
  <2>2. \A i \in 1 .. Len(inbox') : \E j \in 1 .. Len(inbox) : inbox'[i] = inbox[j]
    <3>1. CASE inbox' = Tail(inbox)
      <4>1. /\ Len(inbox) \in Nat /\ Len(inbox') = Len(inbox) - 1
            /\ \A i \in 1 .. Len(inbox) - 1 : inbox'[i] = inbox[i + 1]
        BY <1>t, <3>1, TailEntries
      <4>2. ASSUME NEW i \in 1 .. Len(inbox') PROVE \E j \in 1 .. Len(inbox) : inbox'[i] = inbox[j]
        <5>1. i + 1 \in 1 .. Len(inbox) /\ inbox'[i] = inbox[i + 1]
          BY <4>1, <4>2
        <5> QED
          BY <5>1
      <4> QED
        BY <4>2
    <3>2. CASE inbox' = <<>>
      BY <3>2
    <3> QED
      BY <2>1, <3>1, <3>2
  <2>3. \A j \in 1 .. Len(inbox) : inbox[j].epoch \in Int
    BY EntryTypes
  <2> QED
    BY <1>u, <2>2, <2>3 DEF FreshInv, InboxFresh
<1>4. ResultsFresh'
  <2>1. results' = Append(results, r) \/ results' = results
    BY <1>1 DEF Reply
  <2>2. \A i \in 1 .. Len(results) : results[i].epoch \in Int
    BY EntryTypes
  <2>3. r.effect \in Answerable => Usable(r.epoch)'
    BY <1>t, <1>1, <1>2 DEF Usable
  <2>4. CASE results' = Append(results, r)
    <3>1. /\ Len(results) \in Nat /\ Len(results') = Len(results) + 1
          /\ results'[Len(results) + 1] = r
          /\ \A i \in 1 .. Len(results) : results'[i] = results[i]
      BY <1>t, <2>4, AppendEntries
    <3>2. ASSUME NEW i \in 1 .. Len(results'), results'[i].effect \in Answerable
          PROVE  Usable(results[i].epoch)'
      <4>1. CASE i = Len(results) + 1
        BY <2>3, <3>1, <3>2, <4>1
      <4>2. CASE i \in 1 .. Len(results)
        BY <1>u, <2>2, <3>1, <3>2, <4>2 DEF FreshInv, ResultsFresh
      <4> QED
        BY <3>1, <4>1, <4>2
    <3> QED
      BY <3>2 DEF ResultsFresh, Usable
  <2>5. CASE results' = results
    BY <1>u, <2>2, <2>5 DEF FreshInv, ResultsFresh
  <2> QED
    BY <2>1, <2>4, <2>5
<1>5. WorkersFresh'
  <2>1. ASSUME NEW s \in Epochs
        PROVE  /\ worker[s].feedback \in Int
               /\ \A i \in 1 .. Len(worker[s].queue) : worker[s].queue[i].epoch \in Int
    BY EntryTypes
  <2> QED
    BY <1>u, <2>1 DEF FreshInv, WorkersFresh
<1>6. TaskFresh'
  <2>1. task.epoch \in Int
    BY EntryTypes
  <2> QED
    BY <1>u, <2>1 DEF FreshInv, TaskFresh
<1>7. ControlAlive' => state' # "Released"
  BY <1>1 DEF Reply, ControlAlive
<1> QED
  BY <1>u, <1>3, <1>4, <1>5, <1>6, <1>7 DEF FreshInv

(* What a move of a worker does to its epoch, its queue and the inbox. *)
LEMMA WorkerOutcome ==
    ASSUME NEW s \in Epochs, NEW w, NEW v, WorkerMove(s, w, v)
    PROVE  /\ \/ SameQueue(w, v)
              \/ TakesCommand(w, v)
              \/ /\ v.queue = <<>>
                 /\ v.feedback = w.feedback \/ (w.queue # <<>> /\ v.feedback = Head(w.queue).epoch)
           /\ inbox' = inbox \/ \E t \in Feedbacks : Says(s, t, v)
<1>1. {"DurationChanged", "PreparationCompleted", "AudioProgress", "SeekCompleted",
       "PlaybackCompleted", "Failed"} = Feedbacks
  BY DEF Feedbacks
<1>2. CASE Ends(s, w, v) \/ Begins(s, w, v) \/ Starts(s, w, v) \/ Pauses(s, w, v) \/ Rests(s, w, v)
  BY <1>2 DEF Ends, Begins, Starts, Pauses, Rests, Silent
<1>3. CASE Fails(s, w, v) \/ Builds(s, w, v) \/ Prepares(s, w, v) \/ Seeks(s, w, v)
           \/ Reports(s, w, v) \/ Completes(s, w, v)
  BY <1>1, <1>3 DEF Fails, Builds, Prepares, Seeks, Reports, Completes
<1> QED
  BY <1>2, <1>3 DEF WorkerMove

(* A worker only speaks of epochs that its commands carried. *)
LEMMA WorkerKeepsFresh ==
    ASSUME TypeOK, FreshInv, NEW s \in Epochs, WorkerNext(s),
           UNCHANGED <<state, epoch, task>>
    PROVE  FreshInv'
<1> DEFINE w == worker[s]
<1>1. PICK v \in Workers : /\ WorkerMove(s, w, v)
                           /\ worker' = [worker EXCEPT ![s] = v]
  BY WorkerMoves DEF TypeOK
<1>u. \A e : Usable(e)' <=> Usable(e)
  BY DEF Usable
<1>w. /\ worker'[s] = v /\ \A t \in Epochs \ {s} : worker'[t] = worker[t]
      /\ w.queue \in Seq(WorkerCommands)
      /\ UNCHANGED <<results, control, effect>>
  BY <1>1, EntryTypes DEF TypeOK, WorkerTypeOK, WorkerNext
<1>q. /\ \/ SameQueue(w, v)
         \/ TakesCommand(w, v)
         \/ /\ v.queue = <<>>
            /\ v.feedback = w.feedback \/ (w.queue # <<>> /\ v.feedback = Head(w.queue).epoch)
      /\ inbox' = inbox \/ \E t \in Feedbacks : Says(s, t, v)
  BY <1>1, WorkerOutcome
<1> HIDE DEF w
<1>2. Usable(w.feedback) /\ \A i \in 1 .. Len(w.queue) : Usable(w.queue[i].epoch)
  BY DEF FreshInv, WorkersFresh, w
<1>3. w.queue # <<>> =>
         /\ Usable(Head(w.queue).epoch)
         /\ \A i \in 1 .. Len(Tail(w.queue)) : Usable(Tail(w.queue)[i].epoch)
  <2> SUFFICES ASSUME w.queue # <<>>
               PROVE  /\ Usable(Head(w.queue).epoch)
                      /\ \A i \in 1 .. Len(Tail(w.queue)) : Usable(Tail(w.queue)[i].epoch)
    OBVIOUS
  <2>1. /\ Len(w.queue) \in Nat /\ Len(w.queue) >= 1 /\ Len(Tail(w.queue)) = Len(w.queue) - 1
        /\ Head(w.queue) = w.queue[1]
        /\ \A i \in 1 .. Len(w.queue) - 1 : Tail(w.queue)[i] = w.queue[i + 1]
    BY <1>w, TailEntries
  <2>2. \A i \in 1 .. Len(Tail(w.queue)) : i + 1 \in 1 .. Len(w.queue)
    BY <2>1
  <2> QED
    BY <1>2, <2>1, <2>2
<1>4. Usable(v.feedback) /\ \A i \in 1 .. Len(v.queue) : Usable(v.queue[i].epoch)
  <2>1. CASE SameQueue(w, v)
    BY <1>2, <2>1 DEF SameQueue
  <2>2. CASE TakesCommand(w, v)
    BY <1>3, <2>2 DEF TakesCommand
  <2>3. CASE /\ v.queue = <<>>
             /\ v.feedback = w.feedback \/ (w.queue # <<>> /\ v.feedback = Head(w.queue).epoch)
    BY <1>2, <1>3, <2>3
  <2> QED
    BY <1>q, <2>1, <2>2, <2>3
<1>5. WorkersFresh'
  BY <1>u, <1>w, <1>4 DEF FreshInv, WorkersFresh
<1>6. InboxFresh'
  <2>1. CASE inbox' = inbox
    BY <1>u, <2>1 DEF FreshInv, InboxFresh
  <2>2. ASSUME NEW t \in Feedbacks, Says(s, t, v) PROVE InboxFresh'
    <3>1. Message(t, v, s) \in Messages /\ Message(t, v, s).epoch = v.feedback
      BY DEF Message, Messages, Workers
    <3> QED
      BY <1>4, <2>2, <3>1, EntryTypes, InboxFreshGrows DEF Says, FreshInv
  <2> QED
    BY <1>q, <2>1, <2>2
<1>7. ResultsFresh' /\ TaskFresh' /\ Usable(0)' /\ (ControlAlive' => state' # "Released")
  BY <1>u, <1>w DEF FreshInv, ResultsFresh, TaskFresh, ControlAlive
<1> QED
  BY <1>5, <1>6, <1>7 DEF FreshInv

(* The effect thread passes epochs on, from results to workers, to a task or to the inbox. *)
LEMMA ReceiveKeepsFresh ==
    ASSUME TypeOK, FreshInv, EffectReceive, UNCHANGED <<state, epoch>>
    PROVE  FreshInv'
<1> DEFINE r == Head(results)
<1>m. /\ results # <<>> /\ control' = control /\ results \in Seq(Results)
      /\ r \in Results /\ results' = Tail(results) /\ EffectMove(r)
  BY EffectMoves
<1>n. /\ Len(results) \in Nat /\ Len(results) >= 1 /\ Len(results') = Len(results) - 1
      /\ r = results[1]
      /\ \A i \in 1 .. Len(results) - 1 : results'[i] = results[i + 1]
  BY <1>m, TailEntries
<1>u. \A e : Usable(e)' <=> Usable(e)
  BY DEF Usable
<1>1. ResultsFresh'
  <2>1. \A i \in 1 .. Len(results') :
           i + 1 \in 1 .. Len(results) /\ results'[i] = results[i + 1]
    BY <1>n
  <2> QED
    BY <1>u, <2>1 DEF FreshInv, ResultsFresh
<1>2. r.effect \in Answerable => Usable(r.epoch)
  <2>1. 1 \in 1 .. Len(results)
    BY <1>n
  <2> QED
    BY <1>n, <2>1 DEF FreshInv, ResultsFresh
<1>e. r.epoch \in Epochs /\ worker \in [Epochs -> Workers]
      /\ (handle # NoSession => handle \in Epochs)
  BY <1>m DEF TypeOK, WorkerTypeOK, EffectTypeOK, Results
<1> HIDE DEF r
<1>s. /\ UNCHANGED <<inbox, worker, task>> => InboxFresh' /\ WorkersFresh' /\ TaskFresh'
      /\ inbox' = inbox => InboxFresh'
      /\ worker' = worker => WorkersFresh'
      /\ task' = task => TaskFresh'
  BY <1>u DEF FreshInv, InboxFresh, WorkersFresh, TaskFresh
<1>3. InboxFresh' /\ WorkersFresh' /\ TaskFresh'
  <2>1. CASE Ignores(r) \/ Returns(r) \/ FindsNobody(r)
    BY <1>s, <2>1 DEF Ignores, Returns, FindsNobody
  <2>2. CASE Spawns(r)
    <3>1. Usable(r.epoch)
      BY <1>2, <2>2 DEF Spawns, Answerable
    <3>2. Spawned(r.epoch).feedback = r.epoch /\ Spawned(r.epoch).queue = <<>>
      BY DEF Spawned, Absent
    <3>3. /\ worker'[r.epoch] = Spawned(r.epoch)
          /\ \A s \in Epochs \ {r.epoch} : worker'[s] = worker[s]
      BY <1>e, <2>2 DEF Spawns
    <3>4. WorkersFresh'
      BY <1>u, <3>1, <3>2, <3>3 DEF FreshInv, WorkersFresh
    <3> QED
      BY <1>s, <2>2, <3>4 DEF Spawns
  <2>3. CASE HandsOver(r)
    <3> DEFINE q == worker[handle].queue
               p == Append(q, CommandOf(r))
    <3>1. Usable(r.epoch) /\ handle \in Epochs
      BY <1>2, <1>e, <2>3 DEF HandsOver, Answerable, PlayEffects
    <3>2. /\ q \in Seq(WorkerCommands) /\ CommandOf(r) \in WorkerCommands
          /\ CommandOf(r).epoch = r.epoch
      BY <1>m, <2>3, <3>1, EntryTypes DEF HandsOver, PlayEffects, CommandOf, WorkerCommands, Results
    <3>3. /\ Len(p) = Len(q) + 1 /\ Len(q) \in Nat
          /\ p[Len(q) + 1] = CommandOf(r)
          /\ \A i \in 1 .. Len(q) : p[i] = q[i]
      BY <3>2, AppendEntries
    <3>4. /\ worker'[handle].feedback = worker[handle].feedback
          /\ worker'[handle].queue = p
          /\ \A s \in Epochs \ {handle} : worker'[s] = worker[s]
      BY <1>e, <2>3, <3>1 DEF HandsOver, Workers
    <3> HIDE DEF p
    <3>5. \A i \in 1 .. Len(p) : Usable(p[i].epoch)
      <4>1. \A i \in 1 .. Len(q) : Usable(q[i].epoch)
        BY <3>1 DEF FreshInv, WorkersFresh
      <4>2. ASSUME NEW i \in 1 .. Len(p) PROVE Usable(p[i].epoch)
        <5>1. CASE i = Len(q) + 1
          BY <3>1, <3>2, <3>3, <5>1
        <5>2. CASE i \in 1 .. Len(q)
          BY <3>3, <4>1, <5>2
        <5> QED
          BY <3>3, <5>1, <5>2
      <4> QED
        BY <4>2
    <3>6. WorkersFresh'
      BY <1>u, <3>1, <3>4, <3>5 DEF FreshInv, WorkersFresh
    <3> QED
      BY <1>s, <2>3, <3>6 DEF HandsOver
  <2>4. CASE Answers(r)
    <3>1. PICK s \in Epochs :
              inbox' = Append(inbox, [type |-> "Failed", epoch |-> r.epoch, session |-> s])
      BY <2>4 DEF Answers
    <3>2. Usable(r.epoch)
      BY <1>2, <2>4 DEF Answers, Answerable, PlayEffects
    <3>3. [type |-> "Failed", epoch |-> r.epoch, session |-> s] \in Messages
      BY <1>e DEF Messages, Feedbacks
    <3>4. InboxFresh'
      BY <3>1, <3>2, <3>3, EntryTypes, InboxFreshGrows DEF FreshInv
    <3> QED
      BY <1>s, <2>4, <3>4 DEF Answers
  <2>5. CASE GivesUp(r)
    <3>1. /\ worker'[handle].feedback = worker[handle].feedback
          /\ worker'[handle].queue = worker[handle].queue
          /\ \A s \in Epochs \ {handle} : worker'[s] = worker[s]
      BY <1>e, <2>5 DEF GivesUp, Workers
    <3>2. WorkersFresh'
      BY <1>u, <3>1 DEF FreshInv, WorkersFresh
    <3>3. TaskFresh'
      BY <1>u, <1>2, <2>5 DEF GivesUp, TaskFresh, Answerable, ShutdownEffects
    <3> QED
      BY <1>s, <2>5, <3>2, <3>3 DEF GivesUp
  <2> QED
    BY <1>m, <2>1, <2>2, <2>3, <2>4, <2>5 DEF EffectMove, r
<1> QED
  BY <1>u, <1>m, <1>1, <1>3 DEF FreshInv, ControlAlive

(* So does the end of a join. *)
LEMMA JoinedKeepsFresh ==
    ASSUME TypeOK, FreshInv, EffectJoined, UNCHANGED <<state, epoch>>
    PROVE  FreshInv'
<1>u. \A e : Usable(e)' <=> Usable(e)
  BY DEF Usable
<1>t. task.session \in Epochs /\ task.epoch \in Epochs /\ worker \in [Epochs -> Workers]
  BY DEF TypeOK, EffectTypeOK, Tasks, WorkerTypeOK
<1>1. WorkersFresh'
  <2>1. Absent.feedback = 0 /\ Absent.queue = <<>>
    BY DEF Absent
  <2>2. /\ worker'[task.session] = Absent
        /\ \A s \in Epochs \ {task.session} : worker'[s] = worker[s]
    BY <1>t DEF EffectJoined
  <2> QED
    BY <1>u, <2>1, <2>2 DEF FreshInv, WorkersFresh
<1>2. InboxFresh'
  <2> DEFINE m == [type |-> "Failed", epoch |-> task.epoch, session |-> task.session]
  <2>1. m \in Messages /\ m.epoch = task.epoch
    BY <1>t DEF Messages, Feedbacks
  <2>2. inbox' = inbox \/ (task.why = "Stop" /\ inbox' = Append(inbox, m))
    BY DEF EffectJoined
  <2> HIDE DEF m
  <2>3. CASE inbox' = inbox
    BY <1>u, <2>3 DEF FreshInv, InboxFresh
  <2>4. CASE task.why = "Stop" /\ inbox' = Append(inbox, m)
    BY <2>1, <2>4, EntryTypes, InboxFreshGrows DEF FreshInv, TaskFresh
  <2> QED
    BY <2>2, <2>3, <2>4
<1>3. TaskFresh'
  BY DEF EffectJoined, NoTask, TaskFresh
<1>4. UNCHANGED <<results, control>>
  BY DEF EffectJoined
<1> QED
  BY <1>u, <1>1, <1>2, <1>3, <1>4 DEF FreshInv, ResultsFresh, ControlAlive

(* Every step of every thread keeps old work old. *)
LEMMA FreshNext == TypeOK /\ FreshInv /\ [Next]_vars => FreshInv'
<1> SUFFICES ASSUME TypeOK, FreshInv, [Next]_vars PROVE FreshInv'
  OBVIOUS
<1>u. ASSUME UNCHANGED <<results, state, epoch, worker, task>>, InboxFresh',
             ControlAlive' => ControlAlive
      PROVE  FreshInv'
  BY <1>u DEF FreshInv, ResultsFresh, WorkersFresh, TaskFresh, Usable
<1>i. UNCHANGED <<inbox, state, epoch>> => InboxFresh'
  BY DEF FreshInv, InboxFresh, Usable
<1>1. CASE EngineStart \/ ShutdownJoin
  BY <1>1, <1>u, <1>i DEF EngineStart, ShutdownJoin, ControlAlive
<1>2. CASE UserSend
  <2>1. PICK c \in Commands : Post([type |-> c, epoch |-> 0, session |-> 0])
    BY <1>2, UserCommandsAssumption DEF UserSend
  <2>2. InboxFresh'
    BY <1>2, <2>1, PostFresh, EntryTypes DEF UserSend, FreshInv
  <2> QED
    BY <1>2, <1>u, <2>2 DEF UserSend, ControlAlive
<1>3. CASE ShutdownBegin
  <2>1. InboxFresh'
    BY <1>3, PostFresh, EntryTypes DEF ShutdownBegin, FreshInv, Commands
  <2> QED
    BY <1>3, <1>u, <2>1 DEF ShutdownBegin, ControlAlive
<1>4. CASE ControlThread
  <2>1. CASE ControlReceive
    BY <1>4, <2>1, ControlKeepsFresh DEF ControlThread
  <2>2. CASE ControlDisconnect
    BY <1>4, <2>2, <1>u, <1>i DEF ControlThread, ControlDisconnect, ControlAlive
  <2> QED
    BY <1>4, <2>1, <2>2 DEF ControlThread
<1>5. CASE EffectThread
  BY <1>5, ReceiveKeepsFresh, JoinedKeepsFresh DEF EffectThread
<1>6. ASSUME NEW s \in Epochs, WorkerThread(s) PROVE FreshInv'
  BY <1>6, WorkerKeepsFresh DEF WorkerThread
<1>7. CASE UNCHANGED vars
  BY <1>7, <1>u, <1>i DEF vars, ControlAlive
<1> QED
  BY <1>1, <1>2, <1>3, <1>4, <1>5, <1>6, <1>7 DEF Next, Stopped

(* Feedback never carries an epoch the controller has not reached. *)
LEMMA FreshAlways == Spec => []FreshInv
<1>1. Init => FreshInv
  <2> SUFFICES ASSUME Init PROVE FreshInv
    OBVIOUS
  <2>1. state = "Idle" /\ epoch = 0 /\ inbox = <<>> /\ results = <<>> /\ task = NoTask
    BY DEF Init, ControlInit, EffectInit
  <2>2. \A s \in Epochs : worker[s].feedback = 0 /\ worker[s].queue = <<>>
    BY DEF Init, WorkerInit, Absent
  <2>3. InboxFresh /\ ResultsFresh /\ WorkersFresh /\ TaskFresh /\ Usable(0)
    BY <2>1, <2>2 DEF InboxFresh, ResultsFresh, WorkersFresh, TaskFresh, Usable, NoTask
  <2> QED
    BY <2>1, <2>3 DEF FreshInv
<1>2. TypeOK /\ FreshInv /\ [Next]_vars => FreshInv'
  BY FreshNext
<1> QED
  BY <1>1, <1>2, TypeCorrect, PTL DEF Spec

-----------------------------------------------------------------------------
(***************************************************************************)
(* The listener's contract.  Each queued result that tells a change of     *)
(* state tells one the contract allows.  That a player in Error does not   *)
(* fail once more is FreshInv: the failure made all other feedback old.    *)
(***************************************************************************)

LegalStep(a, b) ==
    \/ \E x \in StateActions \ {"FatalError"} : Transition(a, x, b)
    \/ a \in PlayerStates \ {"Error", "Released"} /\ b = "Error"

StepsAreLegal ==
    \A i \in 1 .. Len(results) :
        Tells(results[i]) => LegalStep(results[i].before, results[i].after)

(* Whom the control thread finds gone does not come back. *)
Listening == EffectAlive => control # "OutputDisconnected"

(* The control thread sends only legal steps. *)
LEMMA ControlStepsLegally ==
    ASSUME TypeOK, FreshInv, ControlReceive, NEW r \in Results,
           r.before = state, r.after = state', ControlMove(Head(inbox), r), Tells(r)
    PROVE  LegalStep(r.before, r.after)
<1> DEFINE m == Head(inbox)
<1>1. m = inbox[1] /\ 1 \in 1 .. Len(inbox) /\ m.epoch \in Int
  <2>1. inbox # <<>> /\ inbox \in Seq(Messages)
    BY EntryTypes DEF ControlReceive
  <2>2. m = inbox[1] /\ 1 \in 1 .. Len(inbox)
    BY <2>1, TailEntries
  <2> QED
    BY <2>2, EntryTypes
<1>2. Usable(m.epoch)
  BY <1>1 DEF FreshInv, InboxFresh
<1>s. state \in PlayerStates /\ epoch \in Int
  BY EntryTypes DEF TypeOK, ControlTypeOK
<1> HIDE DEF m
<1>3. CASE Accepts(m, r)
  <2>1. m.type \in Commands /\ Transition(state, ActionOf[m.type], state')
    BY <1>3 DEF Accepts
  <2>2. ActionOf[m.type] \in StateActions \ {"FatalError"}
    BY <2>1 DEF ActionOf, Commands, StateActions
  <2> QED
    BY <2>1, <2>2 DEF LegalStep
<1>4. CASE CompletesStage(m, r)
  <2>1. m.type \in StateActions \ {"FatalError"} /\ Transition(state, m.type, state')
    BY <1>4 DEF CompletesStage, StateActions
  <2> QED
    BY <2>1 DEF LegalStep
<1>5. CASE FailsPlayer(m, r)
  <2>1. state # "Error"
    BY <1>1, <1>2, <1>5, <1>s DEF FailsPlayer, IsCurrent, Usable
  <2> QED
    BY <1>5, <1>s, <2>1 DEF FailsPlayer, LegalStep
<1>6. CASE LeavesPlayer(m, r)
  BY <1>6 DEF LeavesPlayer
<1> QED
  BY <1>3, <1>4, <1>5, <1>6 DEF ControlMove, m

(* An iteration of the control loop appends at most its result. *)
LEMMA ControlAppends ==
    ASSUME TypeOK, NEW r \in Results, Reply(r)
    PROVE  /\ results \in Seq(Results)
           /\ \/ results' = results
              \/ /\ Len(results) \in Nat /\ Len(results') = Len(results) + 1
                 /\ results'[Len(results) + 1] = r
                 /\ \A i \in 1 .. Len(results) : results'[i] = results[i]
<1>1. results \in Seq(Results)
  BY EntryTypes
<1>2. results' = results \/ results' = Append(results, r)
  BY DEF Reply
<1> QED
  BY <1>1, <1>2, AppendEntries

(* The legal steps are inductive. *)
LEMMA LegalNext ==
    TypeOK /\ FreshInv /\ StepsAreLegal /\ Listening /\ [Next]_vars => StepsAreLegal' /\ Listening'
<1> SUFFICES ASSUME TypeOK, FreshInv, StepsAreLegal, Listening, [Next]_vars
             PROVE  StepsAreLegal' /\ Listening'
  OBVIOUS
<1>u. ASSUME results' = results, control' = control, EffectAlive' => EffectAlive
      PROVE  StepsAreLegal' /\ Listening'
  BY <1>u DEF StepsAreLegal, Tells, Listening
<1>1. CASE EngineStart \/ UserSend \/ ShutdownBegin \/ ShutdownJoin
  BY <1>1, <1>u DEF EngineStart, UserSend, ShutdownBegin, ShutdownJoin, EffectAlive, EffectExits
<1>2. CASE ControlThread
  <2>1. CASE ControlReceive
    <3>1. PICK r \in Results : /\ Reply(r)
                               /\ r.before = state /\ r.after = state'
                               /\ ControlMove(Head(inbox), r)
      BY <2>1, ControlMoves
    <3>2. Tells(r) => LegalStep(r.before, r.after)
      BY <2>1, <3>1, ControlStepsLegally
    <3>3. \/ results' = results
          \/ /\ Len(results) \in Nat /\ Len(results') = Len(results) + 1
             /\ results'[Len(results) + 1] = r
             /\ \A i \in 1 .. Len(results) : results'[i] = results[i]
      BY <3>1, ControlAppends
    <3>4. ASSUME NEW i \in 1 .. Len(results'), Tells(results'[i])
          PROVE  LegalStep(results'[i].before, results'[i].after)
      <4>1. CASE results' = results
        BY <3>4, <4>1 DEF StepsAreLegal
      <4>2. CASE results' # results /\ i = Len(results) + 1
        BY <3>2, <3>3, <3>4, <4>2
      <4>3. CASE results' # results /\ i \in 1 .. Len(results)
        BY <3>3, <3>4, <4>3 DEF StepsAreLegal
      <4> QED
        BY <3>3, <4>1, <4>2, <4>3
    <3>5. StepsAreLegal'
      BY <3>4 DEF StepsAreLegal, Tells, LegalStep, Transition
    <3>6. Listening'
      BY <2>1, <3>1 DEF Reply, ControlReceive, Listening, EffectAlive
    <3> QED
      BY <3>5, <3>6
  <2>2. CASE ControlDisconnect
    BY <2>2, <1>u DEF ControlDisconnect, StepsAreLegal, Tells, Listening, EffectAlive
  <2> QED
    BY <1>2, <2>1, <2>2 DEF ControlThread
<1>3. CASE EffectThread
  <2>1. CASE EffectReceive
    <3>1. /\ results \in Seq(Results) /\ results # <<>> /\ results' = Tail(results)
          /\ control' = control /\ effect = "receiving"
      BY <2>1, EffectMoves
    <3>2. \A i \in 1 .. Len(results') : i + 1 \in 1 .. Len(results) /\ results'[i] = results[i + 1]
      BY <3>1, TailEntries
    <3>3. StepsAreLegal'
      BY <3>2 DEF StepsAreLegal, Tells, LegalStep, Transition
    <3> QED
      BY <3>1, <3>3 DEF Listening, EffectAlive, EffectExits
  <2>2. CASE EffectJoined
    BY <2>2, <1>u DEF EffectJoined, EffectAlive, EffectExits
  <2> QED
    BY <1>3, <2>1, <2>2 DEF EffectThread
<1>4. ASSUME NEW s \in Epochs, WorkerThread(s) PROVE StepsAreLegal' /\ Listening'
  BY <1>4, <1>u DEF WorkerThread, WorkerNext, EffectAlive
<1>5. CASE UNCHANGED vars
  BY <1>5, <1>u DEF vars, EffectAlive
<1> QED
  BY <1>1, <1>2, <1>3, <1>4, <1>5 DEF Next, Stopped

(* The chain begins at what the user has seen. *)
LEMMA SeenIsBefore ==
    ASSUME TypeOK, ChainInv, Listening, effect = "receiving", results # <<>>
    PROVE  Head(results).before = seen
<1>1. Delivering
  BY DEF Listening, Delivering, EffectAlive, EffectExits
<1>2. results \in Seq(Results)
  BY EntryTypes
<1> QED
  BY <1>1, <1>2, ChainTail DEF ChainInv

(* Each event the user sees is a step of the contract, or changes nothing. *)
LEMMA ContractStep ==
    ASSUME TypeOK, ChainInv, StepsAreLegal, Listening, [Next]_vars
    PROVE  [Contract!Next]_seen
<1>1. CASE EffectReceive
  <2> DEFINE r == Head(results)
  <2>1. /\ effect = "receiving" /\ results # <<>> /\ results \in Seq(Results) /\ r \in Results
        /\ seen' = IF Tells(r) THEN r.after ELSE seen
    BY <1>1, EffectMoves
  <2>2. r.before = seen
    BY <2>1, SeenIsBefore
  <2>3. r = results[1] /\ 1 \in 1 .. Len(results)
    BY <2>1, TailEntries
  <2>4. r.after \in PlayerStates
    BY <2>1 DEF Results
  <2>5. Tells(r) => LegalStep(r.before, r.after)
    BY <2>3 DEF StepsAreLegal
  <2> HIDE DEF r
  <2>6. CASE Tells(r)
    <3>1. seen' = r.after
      BY <2>1, <2>6
    <3>2. CASE \E x \in StateActions \ {"FatalError"} : Transition(seen, x, r.after)
      <4>1. Contract!Move
        BY <2>4, <3>1, <3>2
           DEF Contract!Move, Contract!StateActions, Contract!PlayerStates, Contract!Transition,
               StateActions, PlayerStates, Transition, CompletableStates,
               Contract!CompletableStates
      <4> QED
        BY <4>1 DEF Contract!Next
    <3>3. CASE seen \in PlayerStates \ {"Error", "Released"} /\ r.after = "Error"
      <4>1. Contract!Fail
        BY <3>1, <3>3 DEF Contract!Fail, PlayerStates
      <4> QED
        BY <4>1 DEF Contract!Next
    <3> QED
      BY <2>2, <2>5, <2>6, <3>2, <3>3 DEF LegalStep
  <2>7. CASE ~Tells(r)
    BY <2>1, <2>7
  <2> QED
    BY <2>6, <2>7
<1>2. CASE ~EffectReceive
  BY <1>2 DEF Next, EngineStart, UserSend, ShutdownBegin, ShutdownJoin, ControlThread,
              EffectThread, EffectJoined, WorkerThread, Stopped, vars
<1> QED
  BY <1>1, <1>2

(***************************************************************************)
(* The states the events tell the user are those of PlayerContract: one    *)
(* legal step at a time, no second failure before a Stop, and nothing      *)
(* after Released, whatever the threads behind it do.                      *)
(***************************************************************************)
THEOREM UserContractHolds == Spec => UserContract
<1>1. Init => Contract!Init
  BY DEF Init, EffectInit, Contract!Init
<1>2. Init => ChainInv /\ StepsAreLegal /\ Listening
  BY DEF Init, ControlInit, EffectInit, ChainInv, QuietResults, Chain, StepsAreLegal, Listening
<1>3. TypeOK /\ ChainInv /\ [Next]_vars => ChainInv'
  BY ChainNext
<1>4. TypeOK /\ FreshInv /\ StepsAreLegal /\ Listening /\ [Next]_vars
        => StepsAreLegal' /\ Listening'
  BY LegalNext
<1>5. TypeOK /\ ChainInv /\ StepsAreLegal /\ Listening /\ [Next]_vars => [Contract!Next]_seen
  BY ContractStep
<1> QED
  BY <1>1, <1>2, <1>3, <1>4, <1>5, TypeCorrect, FreshAlways, PTL
     DEF Spec, UserContract, Contract!Spec

-----------------------------------------------------------------------------
(***************************************************************************)
(* What work of the current epoch may be under way in each player state.   *)
(* A message, a command or a worker of an older epoch may be anything; one *)
(* of the current epoch fits the state and the messages still unread.      *)
(***************************************************************************)

Arrived(t) == \E i \in 1 .. Len(inbox) : inbox[i].type = t /\ inbox[i].epoch = epoch

InSession == state \in {"Ready", "Playing", "Paused", "Ended"}
Prepared == InSession \/ (state = "Preparing" /\ Arrived("PreparationCompleted"))
Completed == state = "Ended" \/ Arrived("PlaybackCompleted")

Lives(w) == w.phase \notin {"absent", "exited", "panicked"}
PreparesNow(w) == w.phase \in PrepPhases /\ w.feedback = epoch

(* The messages of the current epoch, apart from its failures. *)
InboxFits ==
    \A i \in 1 .. Len(inbox) : inbox[i].epoch = epoch =>
        /\ inbox[i].type \in {"DurationChanged", "PreparationCompleted"} => state = "Preparing"
        /\ inbox[i].type = "SeekCompleted" => state \in {"Ready", "Playing", "Paused"}
        /\ inbox[i].type = "PlaybackCompleted" => state \in {"Playing", "Paused"}
        /\ inbox[i].type = "AudioProgress" =>
              \/ InSession
              \/ \E j \in 1 .. i - 1 :
                    inbox[j].type = "PreparationCompleted" /\ inbox[j].epoch = epoch

(* What may not follow a completion. *)
InboxOrdered ==
    \A i, j \in 1 .. Len(inbox) :
        i < j /\ inbox[i].epoch = epoch /\ inbox[j].epoch = epoch =>
            /\ inbox[i].type = "PreparationCompleted" =>
                  inbox[j].type \notin {"DurationChanged", "PreparationCompleted"}
            /\ inbox[i].type = "PlaybackCompleted" =>
                  inbox[j].type \notin {"SeekCompleted", "PlaybackCompleted"}

CommandFits(action, resume) ==
    /\ InSession
    /\ action = "StartPlayback" => state \in {"Playing", "Paused", "Ended"}
    /\ action = "Seek" => ~Completed /\ (resume => state \in {"Playing", "Paused"})

(* A worker, whatever the epoch. *)
Shaped(w) ==
    /\ w.pipeline \in {NoPipeline, w.feedback}
    /\ w.running => ~w.reported /\ w.pipeline # NoPipeline
    /\ w.phase = "sought" => w.pipeline # NoPipeline
    /\ w.phase \in PrepPhases => ~w.running /\ ~w.reported

WorkerFits(w) ==
    /\ PreparesNow(w) => state = "Preparing" /\ ~Arrived("PreparationCompleted")
    /\ Lives(w) /\ w.feedback = epoch /\ w.phase \notin PrepPhases /\ w.pipeline # NoPipeline =>
          /\ Prepared
          /\ ~w.reported => ~Completed
          /\ w.running => state \in {"Playing", "Paused"}

QueueFits(w) ==
    Lives(w) => \A i \in 1 .. Len(w.queue) :
        w.queue[i].epoch = epoch => CommandFits(w.queue[i].action, w.queue[i].resume)

(* A Seek opens its epoch: until it is applied, nothing else of that epoch is. *)
SeekIsFirst(w) ==
    Lives(w) => \A i \in 1 .. Len(w.queue) :
        w.queue[i].action = "Seek" /\ w.queue[i].epoch = epoch =>
            /\ w.feedback # epoch
            /\ \A j \in 1 .. i - 1 : w.queue[j].epoch # epoch

IsBehind(w) ==
    Lives(w) => w.feedback # epoch /\ \A i \in 1 .. Len(w.queue) : w.queue[i].epoch # epoch

ResultFits(i) ==
    results[i].epoch = epoch =>
        /\ results[i].effect \in PlayEffects =>
              CommandFits(results[i].effect, results[i].resume)
        /\ results[i].effect = "Seek" =>
              /\ \A s \in Epochs : IsBehind(worker[s])
              /\ \A j \in 1 .. i - 1 :
                    results[j].effect \in PlayEffects \cup {"BeginPrepare"} =>
                        results[j].epoch # epoch
        /\ results[i].effect = "BeginPrepare" =>
              /\ state = "Preparing" /\ ~Arrived("PreparationCompleted")
              /\ \A s \in Epochs : ~PreparesNow(worker[s])
              /\ \A j \in i + 1 .. Len(results) : Quiet(results[j])

WorkerTalks(w) == WorkerFits(w) /\ QueueFits(w) /\ SeekIsFirst(w)
WorkersTalk == \A s \in Epochs : WorkerTalks(worker[s])
ResultsFit == \A i \in 1 .. Len(results) : ResultFits(i)

TalkInv ==
    /\ \A s \in Epochs : Shaped(worker[s])
    /\ ControlAlive => InboxFits /\ InboxOrdered /\ WorkersTalk /\ ResultsFit

(* A message that may arrive now. *)
MessageFits(m) ==
    m.epoch = epoch =>
        /\ m.type \in {"DurationChanged", "PreparationCompleted"} =>
              state = "Preparing" /\ ~Arrived("PreparationCompleted")
        /\ m.type = "SeekCompleted" =>
              state \in {"Ready", "Playing", "Paused"} /\ ~Arrived("PlaybackCompleted")
        /\ m.type = "PlaybackCompleted" =>
              state \in {"Playing", "Paused"} /\ ~Arrived("PlaybackCompleted")
        /\ m.type = "AudioProgress" => Prepared

(* A message is added. *)
LEMMA InboxGrows ==
    ASSUME TypeOK, InboxFits, InboxOrdered, UNCHANGED <<state, epoch>>,
           NEW m \in Messages, MessageFits(m), inbox' = Append(inbox, m)
    PROVE  /\ InboxFits' /\ InboxOrdered'
           /\ \A t \in Feedbacks : Arrived(t)' <=> Arrived(t) \/ (m.type = t /\ m.epoch = epoch)
<1>1. /\ Len(inbox) \in Nat /\ Len(inbox') = Len(inbox) + 1
      /\ inbox'[Len(inbox) + 1] = m
      /\ \A i \in 1 .. Len(inbox) : inbox'[i] = inbox[i]
  BY EntryTypes, AppendEntries
<1>2. \A i \in 1 .. Len(inbox') : i = Len(inbox) + 1 \/ i \in 1 .. Len(inbox)
  BY <1>1
<1>3. \A t \in Feedbacks : Arrived(t)' <=> Arrived(t) \/ (m.type = t /\ m.epoch = epoch)
  <2>1. ASSUME NEW t \in Feedbacks, Arrived(t)
        PROVE  Arrived(t)'
    <3>1. PICK i \in 1 .. Len(inbox) : inbox[i].type = t /\ inbox[i].epoch = epoch
      BY <2>1 DEF Arrived
    <3>2. i \in 1 .. Len(inbox') /\ inbox'[i] = inbox[i]
      BY <1>1
    <3> QED
      BY <3>1, <3>2 DEF Arrived
  <2>2. ASSUME NEW t \in Feedbacks, m.type = t /\ m.epoch = epoch
        PROVE  Arrived(t)'
    <3>1. Len(inbox) + 1 \in 1 .. Len(inbox')
      BY <1>1
    <3> QED
      BY <1>1, <2>2, <3>1 DEF Arrived
  <2>3. ASSUME NEW t \in Feedbacks, Arrived(t)'
        PROVE  Arrived(t) \/ (m.type = t /\ m.epoch = epoch)
    <3>1. PICK i \in 1 .. Len(inbox') : inbox'[i].type = t /\ inbox'[i].epoch = epoch
      BY <2>3 DEF Arrived
    <3> QED
      BY <1>1, <1>2, <3>1 DEF Arrived
  <2> QED
    BY <2>1, <2>2, <2>3
<1>4. InboxFits'
  <2> SUFFICES ASSUME NEW i \in 1 .. Len(inbox'), inbox'[i].epoch = epoch
               PROVE  /\ inbox'[i].type \in {"DurationChanged", "PreparationCompleted"} =>
                            state = "Preparing"
                      /\ inbox'[i].type = "SeekCompleted" => state \in {"Ready", "Playing", "Paused"}
                      /\ inbox'[i].type = "PlaybackCompleted" => state \in {"Playing", "Paused"}
                      /\ inbox'[i].type = "AudioProgress" =>
                            \/ InSession
                            \/ \E j \in 1 .. i - 1 : /\ inbox'[j].type = "PreparationCompleted"
                                                     /\ inbox'[j].epoch = epoch
    BY DEF InboxFits, InSession
  <2>1. CASE i \in 1 .. Len(inbox)
    <3>1. \A j \in 1 .. i - 1 : inbox'[j] = inbox[j]
      BY <1>1, <2>1
    <3>2. inbox'[i] = inbox[i]
      BY <1>1, <2>1
    <3> QED
      BY <2>1, <3>1, <3>2 DEF InboxFits
  <2>2. CASE i = Len(inbox) + 1
    <3>1. inbox'[i] = m
      BY <1>1, <2>2
    <3>2. 1 .. i - 1 = 1 .. Len(inbox)
      BY <1>1, <2>2
    <3> QED
      BY <1>1, <3>1, <3>2 DEF MessageFits, Prepared, Arrived
  <2> QED
    BY <1>2, <2>1, <2>2
<1>5. InboxOrdered'
  <2> SUFFICES ASSUME NEW i \in 1 .. Len(inbox'), NEW j \in 1 .. Len(inbox'),
                      i < j, inbox'[i].epoch = epoch, inbox'[j].epoch = epoch
               PROVE  /\ inbox'[i].type = "PreparationCompleted" =>
                            inbox'[j].type \notin {"DurationChanged", "PreparationCompleted"}
                      /\ inbox'[i].type = "PlaybackCompleted" =>
                            inbox'[j].type \notin {"SeekCompleted", "PlaybackCompleted"}
    BY DEF InboxOrdered
  <2>1. i \in 1 .. Len(inbox) /\ inbox'[i] = inbox[i]
    BY <1>1
  <2>2. CASE j \in 1 .. Len(inbox)
    <3>1. inbox'[j] = inbox[j]
      BY <1>1, <2>2
    <3> QED
      BY <2>1, <2>2, <3>1 DEF InboxOrdered
  <2>3. CASE j = Len(inbox) + 1
    <3>1. inbox'[j] = m
      BY <1>1, <2>3
    <3> QED
      BY <2>1, <3>1 DEF MessageFits, Arrived
  <2> QED
    BY <1>2, <2>2, <2>3
<1> QED
  BY <1>3, <1>4, <1>5

(* The first message is read, and the epoch stays. *)
LEMMA InboxShrinks ==
    ASSUME TypeOK, inbox # <<>>, InboxOrdered, epoch' = epoch, inbox' = Tail(inbox)
    PROVE  /\ InboxOrdered'
           /\ \A t : Arrived(t) <=> Arrived(t)' \/ (Head(inbox).type = t /\ IsCurrent(Head(inbox)))
           /\ Head(inbox) = inbox[1] /\ 1 \in 1 .. Len(inbox) /\ Len(inbox) \in Nat
           /\ Len(inbox') = Len(inbox) - 1
           /\ \A i \in 1 .. Len(inbox') : i + 1 \in 1 .. Len(inbox) /\ inbox'[i] = inbox[i + 1]
<1>1. /\ Len(inbox) \in Nat /\ Len(inbox) >= 1 /\ Len(inbox') = Len(inbox) - 1
      /\ Head(inbox) = inbox[1]
      /\ \A i \in 1 .. Len(inbox) - 1 : inbox'[i] = inbox[i + 1]
  BY EntryTypes, TailEntries
<1>2. \A i \in 1 .. Len(inbox') : i + 1 \in 1 .. Len(inbox) /\ inbox'[i] = inbox[i + 1]
  BY <1>1
<1>3. \A i \in 1 .. Len(inbox) : i = 1 \/ (i - 1 \in 1 .. Len(inbox') /\ inbox'[i - 1] = inbox[i])
  BY <1>1
<1>4. \A t : Arrived(t) <=> Arrived(t)' \/ (Head(inbox).type = t /\ IsCurrent(Head(inbox)))
  <2>1. ASSUME NEW t, Arrived(t)
        PROVE  Arrived(t)' \/ (Head(inbox).type = t /\ IsCurrent(Head(inbox)))
    <3>1. PICK i \in 1 .. Len(inbox) : inbox[i].type = t /\ inbox[i].epoch = epoch
      BY <2>1 DEF Arrived
    <3> QED
      BY <1>1, <1>3, <3>1 DEF Arrived, IsCurrent
  <2>2. ASSUME NEW t, Head(inbox).type = t, IsCurrent(Head(inbox))
        PROVE  Arrived(t)
    <3>1. 1 \in 1 .. Len(inbox)
      BY <1>1
    <3> QED
      BY <1>1, <2>2, <3>1 DEF Arrived, IsCurrent
  <2>3. ASSUME NEW t, Arrived(t)'
        PROVE  Arrived(t)
    <3>1. PICK i \in 1 .. Len(inbox') : inbox'[i].type = t /\ inbox'[i].epoch = epoch
      BY <2>3 DEF Arrived
    <3> QED
      BY <1>2, <3>1 DEF Arrived
  <2> QED
    BY <2>1, <2>2, <2>3
<1>5. InboxOrdered'
  <2>1. \A i, j \in 1 .. Len(inbox') : i < j => i + 1 < j + 1
    BY <1>1
  <2> QED
    BY <1>2, <2>1 DEF InboxOrdered
<1> QED
  BY <1>1, <1>2, <1>4, <1>5

(* What is said of a worker depends on the state and on two kinds of message. *)
LEMMA SameContext ==
    ASSUME UNCHANGED <<state, epoch>>,
           Arrived("PreparationCompleted")' <=> Arrived("PreparationCompleted"),
           Arrived("PlaybackCompleted")' <=> Arrived("PlaybackCompleted")
    PROVE  /\ \A w : /\ WorkerTalks(w)' <=> WorkerTalks(w)
                     /\ IsBehind(w)' <=> IsBehind(w)
                     /\ PreparesNow(w)' <=> PreparesNow(w)
           /\ \A action, resume : CommandFits(action, resume)' <=> CommandFits(action, resume)
<1>1. /\ Prepared' <=> Prepared
      /\ Completed' <=> Completed
      /\ InSession' <=> InSession
  BY DEF Prepared, Completed, InSession
<1>2. \A action, resume : CommandFits(action, resume)' <=> CommandFits(action, resume)
  BY <1>1 DEF CommandFits
<1>3. \A w : /\ PreparesNow(w)' <=> PreparesNow(w)
             /\ IsBehind(w)' <=> IsBehind(w)
             /\ SeekIsFirst(w)' <=> SeekIsFirst(w)
  BY DEF PreparesNow, IsBehind, SeekIsFirst, Lives
<1>4. \A w : QueueFits(w)' <=> QueueFits(w)
  BY <1>2 DEF QueueFits, Lives
<1>5. \A w : WorkerFits(w)' <=> WorkerFits(w)
  BY <1>1, <1>3 DEF WorkerFits, Lives
<1> QED
  BY <1>2, <1>3, <1>4, <1>5 DEF WorkerTalks

(* What is queued goes on to fit. *)
LEMMA QueueMoves ==
    ASSUME NEW w \in Workers, NEW v \in Workers, Lives(w), WorkerTalks(w),
           SameQueue(w, v) \/ TakesCommand(w, v)
    PROVE  /\ QueueFits(v) /\ SeekIsFirst(v) /\ (IsBehind(w) => IsBehind(v))
           /\ TakesCommand(w, v) /\ v.feedback = epoch =>
                 CommandFits(Head(w.queue).action, Head(w.queue).resume)
<1>1. CASE SameQueue(w, v)
  BY <1>1 DEF SameQueue, WorkerTalks, QueueFits, SeekIsFirst, IsBehind, TakesCommand
<1>2. CASE TakesCommand(w, v)
  <2>1. w.queue # <<>> /\ v.feedback = Head(w.queue).epoch /\ v.queue = Tail(w.queue)
    BY <1>2 DEF TakesCommand
  <2>2. w.queue \in Seq(WorkerCommands)
    BY DEF Workers
  <2>3. /\ Len(w.queue) \in Nat /\ Len(w.queue) >= 1 /\ Len(v.queue) = Len(w.queue) - 1
        /\ Head(w.queue) = w.queue[1]
        /\ \A i \in 1 .. Len(w.queue) - 1 : v.queue[i] = w.queue[i + 1]
    BY <2>1, <2>2, TailEntries
  <2>4. /\ 1 \in 1 .. Len(w.queue)
        /\ \A i \in 1 .. Len(v.queue) : i + 1 \in 1 .. Len(w.queue) /\ v.queue[i] = w.queue[i + 1]
    BY <2>3
  <2>5. QueueFits(v)
    BY <2>4 DEF WorkerTalks, QueueFits
  <2>6. SeekIsFirst(v)
    <3> SUFFICES ASSUME NEW i \in 1 .. Len(v.queue),
                        v.queue[i].action = "Seek", v.queue[i].epoch = epoch
                 PROVE  /\ v.feedback # epoch
                        /\ \A j \in 1 .. i - 1 : v.queue[j].epoch # epoch
      BY DEF SeekIsFirst
    <3>1. \A j \in 1 .. i : w.queue[j].epoch # epoch
      <4>1. (i + 1) - 1 = i
        BY <2>3
      <4> QED
        BY <2>4, <4>1 DEF WorkerTalks, SeekIsFirst
    <3>2. 1 \in 1 .. i /\ \A j \in 1 .. i - 1 : j + 1 \in 1 .. i /\ j \in 1 .. Len(v.queue)
      BY <2>3
    <3> QED
      BY <2>1, <2>3, <2>4, <3>1, <3>2
  <2>7. IsBehind(w) => IsBehind(v)
    BY <2>1, <2>3, <2>4 DEF IsBehind
  <2>8. v.feedback = epoch => CommandFits(Head(w.queue).action, Head(w.queue).resume)
    BY <2>1, <2>3, <2>4 DEF WorkerTalks, QueueFits
  <2> QED
    BY <2>5, <2>6, <2>7, <2>8
<1> QED
  BY <1>1, <1>2

(* A worker keeps its shape. *)
LEMMA MoveIsShaped ==
    ASSUME NEW s \in Epochs, NEW w \in Workers, NEW v \in Workers,
           Shaped(w), WorkerMove(s, w, v)
    PROVE  Shaped(v)
<1> USE DEF Shaped, NoPipeline, PrepPhases, LoopPhases
<1>1. w.feedback \in Epochs /\ v.feedback \in Epochs /\ \A e \in Epochs : e # -1
  BY DEF Workers, Epochs
<1>2. CASE Ends(s, w, v)
  BY <1>1, <1>2 DEF Ends, NoPipelineLeft
<1>3. CASE Fails(s, w, v)
  BY <1>1, <1>3 DEF Fails, NoPipelineLeft
<1>4. CASE Begins(s, w, v)
  BY <1>1, <1>4 DEF Begins, SameQueue, SamePipeline
<1>5. CASE Builds(s, w, v)
  BY <1>1, <1>5 DEF Builds, SameQueue
<1>6. CASE Prepares(s, w, v)
  BY <1>1, <1>6 DEF Prepares, SameQueue, SamePipeline
<1>7. CASE Starts(s, w, v) \/ Pauses(s, w, v)
  BY <1>1, <1>7 DEF Starts, Pauses, TakesCommand
<1>8. CASE Seeks(s, w, v)
  BY <1>1, <1>8 DEF Seeks, TakesCommand
<1>9. CASE Reports(s, w, v)
  BY <1>1, <1>9 DEF Reports, SameQueue, SamePipeline
<1>10. CASE Completes(s, w, v)
  BY <1>1, <1>10 DEF Completes, SameQueue
<1>11. CASE Rests(s, w, v)
  BY <1>1, <1>11 DEF Rests, SameQueue, SamePipeline
<1> QED
  BY <1>2, <1>3, <1>4, <1>5, <1>6, <1>7, <1>8, <1>9, <1>10, <1>11 DEF WorkerMove

(* A worker says only what fits. *)
LEMMA MoveSpeaks ==
    ASSUME NEW s \in Epochs, NEW w \in Workers, NEW v \in Workers,
           Lives(w), Shaped(w), ControlAlive => InboxFits /\ WorkerTalks(w), WorkerMove(s, w, v)
    PROVE  \/ inbox' = inbox
           \/ \E t \in Feedbacks :
                 /\ Says(s, t, v) /\ MessageFits(Message(t, v, s))
                 /\ t = "PreparationCompleted" => Prepares(s, w, v)
                 /\ t = "PlaybackCompleted" => Completes(s, w, v)
<1> DEFINE Spoken(t) == /\ Says(s, t, v) /\ MessageFits(Message(t, v, s))
                        /\ t = "PreparationCompleted" => Prepares(s, w, v)
                        /\ t = "PlaybackCompleted" => Completes(s, w, v)
<1>t. /\ "Failed" \in Feedbacks /\ "DurationChanged" \in Feedbacks
      /\ "PreparationCompleted" \in Feedbacks /\ "SeekCompleted" \in Feedbacks
      /\ "AudioProgress" \in Feedbacks /\ "PlaybackCompleted" \in Feedbacks
  BY DEF Feedbacks
<1>m. \A t : Message(t, v, s).type = t /\ Message(t, v, s).epoch = v.feedback
  BY DEF Message
<1>a. \A t : Says(s, t, v) => InboxFits /\ WorkerTalks(w)
  BY DEF Says
<1>c. \A t : Arrived(t) <=> \E i \in 1 .. Len(inbox) : inbox[i].type = t /\ inbox[i].epoch = epoch
  BY DEF Arrived
<1>s. /\ InboxFits /\ Arrived("PreparationCompleted") => state = "Preparing"
      /\ InboxFits /\ Arrived("PlaybackCompleted") => state \in {"Playing", "Paused"}
  BY <1>c DEF InboxFits
<1>1. CASE Ends(s, w, v) \/ Begins(s, w, v) \/ Starts(s, w, v) \/ Pauses(s, w, v) \/ Rests(s, w, v)
  BY <1>1 DEF Ends, Begins, Starts, Pauses, Rests, Silent
<1>2. CASE Fails(s, w, v)
  <2>1. Spoken("Failed")
    BY <1>2, <1>m DEF Fails, MessageFits
  <2> QED
    BY <1>t, <2>1
<1>3. CASE Builds(s, w, v)
  <2>1. v.feedback = epoch => state = "Preparing" /\ ~Arrived("PreparationCompleted")
    BY <1>3, <1>a DEF Builds, WorkerTalks, WorkerFits, PreparesNow, PrepPhases, SameQueue
  <2>2. Spoken("DurationChanged")
    BY <1>3, <1>m, <2>1 DEF Builds, MessageFits
  <2> QED
    BY <1>t, <2>2
<1>4. CASE Prepares(s, w, v)
  <2>1. v.feedback = epoch => state = "Preparing" /\ ~Arrived("PreparationCompleted")
    BY <1>4, <1>a DEF Prepares, WorkerTalks, WorkerFits, PreparesNow, PrepPhases, SameQueue
  <2>2. Spoken("PreparationCompleted")
    BY <1>4, <1>m, <2>1 DEF Prepares, MessageFits
  <2> QED
    BY <1>t, <2>2
<1>5. CASE Seeks(s, w, v)
  <2>1. /\ TakesCommand(w, v) /\ Head(w.queue).action = "Seek"
        /\ Says(s, "SeekCompleted", v)
    BY <1>5 DEF Seeks
  <2>2. v.feedback = epoch => CommandFits("Seek", Head(w.queue).resume)
    BY <1>a, <2>1, QueueMoves
  <2>3. v.feedback = epoch => state \in {"Ready", "Playing", "Paused"} /\ ~Arrived("PlaybackCompleted")
    BY <2>2 DEF CommandFits, Completed, InSession
  <2>4. Spoken("SeekCompleted")
    BY <1>m, <2>1, <2>3 DEF MessageFits
  <2> QED
    BY <1>t, <2>4
<1>6. CASE Reports(s, w, v)
  <2>1. /\ w.phase \in LoopPhases /\ w.pipeline # NoPipeline /\ v.feedback = w.feedback
        /\ Says(s, "AudioProgress", v)
    BY <1>6 DEF Reports, Shaped, LoopPhases, SameQueue
  <2>2. v.feedback = epoch => Prepared
    BY <1>a, <2>1 DEF WorkerTalks, WorkerFits, LoopPhases, PrepPhases
  <2>3. Spoken("AudioProgress")
    BY <1>m, <2>1, <2>2 DEF MessageFits
  <2> QED
    BY <1>t, <2>3
<1>7. CASE Completes(s, w, v)
  <2>1. /\ w.phase \in LoopPhases /\ w.pipeline # NoPipeline /\ v.feedback = w.feedback
        /\ w.running /\ ~w.reported /\ Says(s, "PlaybackCompleted", v)
    BY <1>7 DEF Completes, Shaped, SameQueue
  <2>2. v.feedback = epoch => state \in {"Playing", "Paused"} /\ ~Arrived("PlaybackCompleted")
    BY <1>a, <2>1 DEF WorkerTalks, WorkerFits, LoopPhases, PrepPhases, Completed
  <2>3. Spoken("PlaybackCompleted")
    BY <1>7, <1>m, <2>1, <2>2 DEF MessageFits
  <2> QED
    BY <1>t, <2>3
<1> QED
  BY <1>1, <1>2, <1>3, <1>4, <1>5, <1>6, <1>7 DEF WorkerMove

(* A worker goes on to fit, unless it has just reported a completion. *)
LEMMA MoveFits ==
    ASSUME NEW s \in Epochs, NEW w \in Workers, NEW v \in Workers,
           Lives(w), Shaped(w), WorkerTalks(w), WorkerMove(s, w, v),
           v.feedback = epoch => ~Prepares(s, w, v) /\ ~Completes(s, w, v)
    PROVE  WorkerFits(v) /\ (PreparesNow(v) => PreparesNow(w))
<1> SUFFICES ASSUME v.feedback = epoch
             PROVE  WorkerFits(v) /\ (PreparesNow(v) => PreparesNow(w))
  BY DEF WorkerFits, PreparesNow
<1>f. WorkerFits(w)
  BY DEF WorkerTalks
<1>1. CASE Ends(s, w, v)
  BY <1>1 DEF Ends, WorkerFits, PreparesNow, PrepPhases, Lives
<1>2. CASE Fails(s, w, v)
  BY <1>2 DEF Fails, WorkerFits, PreparesNow, PrepPhases, NoPipelineLeft
<1>3. CASE Begins(s, w, v) \/ Builds(s, w, v)
  BY <1>3, <1>f DEF Begins, Builds, WorkerFits, PreparesNow, PrepPhases, SameQueue
<1>4. CASE Starts(s, w, v) \/ Pauses(s, w, v)
  <2>1. /\ TakesCommand(w, v) /\ w.pipeline # NoPipeline /\ Head(w.queue).epoch = w.pipeline
        /\ w.phase = "receive" /\ v.phase = "rest"
        /\ v.reported = w.reported
        /\ v.running => Head(w.queue).action = "StartPlayback" /\ (w.running \/ ~w.reported)
    BY <1>4 DEF Starts, Pauses
  <2>2. CommandFits(Head(w.queue).action, Head(w.queue).resume)
    BY <2>1, QueueMoves
  <2>3. w.feedback = epoch
    BY <2>1 DEF TakesCommand, Shaped
  <2>4. Prepared /\ (~w.reported => ~Completed) /\ (w.running => state \in {"Playing", "Paused"})
    BY <1>f, <2>1, <2>3 DEF WorkerFits, PrepPhases
  <2>5. v.running => state \in {"Playing", "Paused"}
    BY <2>1, <2>2, <2>4 DEF CommandFits, Completed
  <2> QED
    BY <2>1, <2>4, <2>5 DEF WorkerFits, PreparesNow, PrepPhases
<1>5. CASE Seeks(s, w, v)
  <2>1. /\ TakesCommand(w, v) /\ v.phase = "sought" /\ v.running = Head(w.queue).resume
        /\ Head(w.queue).action = "Seek"
    BY <1>5 DEF Seeks
  <2>2. CommandFits("Seek", v.running)
    BY <2>1, QueueMoves
  <2> QED
    BY <2>1, <2>2 DEF WorkerFits, PreparesNow, PrepPhases, CommandFits, Prepared
<1>6. CASE Reports(s, w, v) \/ Rests(s, w, v)
  <2>1. /\ w.phase \in LoopPhases /\ v.phase \in {"rest", "advance", "receive"}
        /\ v.pipeline = w.pipeline /\ v.running = w.running /\ v.reported = w.reported
        /\ v.feedback = w.feedback
    BY <1>6 DEF Reports, Rests, SameQueue, SamePipeline, LoopPhases
  <2> QED
    BY <1>f, <2>1 DEF WorkerFits, PreparesNow, PrepPhases, LoopPhases
<1> QED
  BY <1>1, <1>2, <1>3, <1>4, <1>5, <1>6 DEF WorkerMove

(* Only one worker lives. *)
LEMMA OthersAreGone ==
    ASSUME OneWorker, NEW s \in Epochs, Live(s)
    PROVE  \A t \in Epochs \ {s} : ~Live(t)
BY NoSessionIsNone DEF OneWorker, LiveWorkerIsOwned, OneOwner

(* What a worker leaves of the others' work. *)
LEMMA WorkerKeepsTalk ==
    ASSUME TypeOK, OneWorker, TalkInv, NEW s \in Epochs, WorkerNext(s),
           UNCHANGED <<state, epoch>>
    PROVE  TalkInv'
<1> DEFINE w == worker[s]
<1>1. PICK v \in Workers : /\ WorkerMove(s, w, v)
                           /\ worker' = [worker EXCEPT ![s] = v]
  BY WorkerMoves DEF TypeOK
<1>w. /\ worker'[s] = v /\ \A t \in Epochs \ {s} : worker'[t] = worker[t]
      /\ w \in Workers
      /\ UNCHANGED <<results, control, effect>>
  BY <1>1, EntryTypes DEF TypeOK, WorkerTypeOK, WorkerNext
<1>l. Lives(w) /\ \A t \in Epochs \ {s} : ~Lives(worker[t])
  BY WorkerStepsAlone, OthersAreGone DEF Live, Lives
<1>s. Shaped(w)
  BY DEF TalkInv
<1>t. ControlAlive => InboxFits /\ InboxOrdered /\ WorkersTalk /\ WorkerTalks(w) /\ ResultsFit
  BY DEF TalkInv, WorkersTalk
<1> HIDE DEF w
<1>2. Shaped(v)
  BY <1>1, <1>s, <1>w, MoveIsShaped
<1>3. \A t \in Epochs : Shaped(worker[t])'
  BY <1>2, <1>w DEF TalkInv, Shaped
<1> SUFFICES ASSUME ControlAlive
             PROVE  InboxFits' /\ InboxOrdered' /\ WorkersTalk' /\ ResultsFit'
  BY <1>3, <1>w DEF TalkInv, ControlAlive
<1>4. \/ inbox' = inbox
      \/ \E t \in Feedbacks :
            /\ Says(s, t, v) /\ MessageFits(Message(t, v, s))
            /\ t = "PreparationCompleted" => Prepares(s, w, v)
            /\ t = "PlaybackCompleted" => Completes(s, w, v)
  BY <1>1, <1>l, <1>s, <1>t, <1>w, MoveSpeaks
<1>5. /\ InboxFits' /\ InboxOrdered'
      /\ Arrived("PreparationCompleted")' <=>
            Arrived("PreparationCompleted") \/ (v.feedback = epoch /\ Prepares(s, w, v))
      /\ Arrived("PlaybackCompleted")' <=>
            Arrived("PlaybackCompleted") \/ (v.feedback = epoch /\ Completes(s, w, v))
  <2>f. "PreparationCompleted" \in Feedbacks /\ "PlaybackCompleted" \in Feedbacks
    BY DEF Feedbacks
  <2>i. \A t : Says(s, t, v) => inbox' = Append(inbox, Message(t, v, s))
    BY DEF Says
  <2>n. inbox \in Seq(Messages) /\ Len(inbox) \in Nat
    BY EntryTypes
  <2>1. CASE inbox' = inbox
    <3>1. \A m : inbox' # Append(inbox, m)
      BY <2>1, <2>n
    <3>2. ~Prepares(s, w, v) /\ ~Completes(s, w, v)
      BY <3>1 DEF Prepares, Completes, Says
    <3>3. \A t : Arrived(t)' <=> Arrived(t)
      BY <2>1 DEF Arrived
    <3>4. InboxFits' /\ InboxOrdered'
      BY <1>t, <2>1 DEF InboxFits, InboxOrdered, InSession
    <3> QED
      BY <3>2, <3>3, <3>4
  <2>2. ASSUME NEW t \in Feedbacks, Says(s, t, v), MessageFits(Message(t, v, s)),
               t = "PreparationCompleted" => Prepares(s, w, v),
               t = "PlaybackCompleted" => Completes(s, w, v)
        PROVE  /\ InboxFits' /\ InboxOrdered'
               /\ Arrived("PreparationCompleted")' <=>
                     Arrived("PreparationCompleted") \/ (v.feedback = epoch /\ Prepares(s, w, v))
               /\ Arrived("PlaybackCompleted")' <=>
                     Arrived("PlaybackCompleted") \/ (v.feedback = epoch /\ Completes(s, w, v))
    <3>1. /\ Message(t, v, s) \in Messages
          /\ Message(t, v, s).type = t /\ Message(t, v, s).epoch = v.feedback
      BY DEF Message, Messages, Workers
    <3>2. /\ InboxFits' /\ InboxOrdered'
          /\ \A u \in Feedbacks : Arrived(u)' <=> Arrived(u) \/ (t = u /\ v.feedback = epoch)
      BY <1>t, <2>2, <2>i, <3>1, InboxGrows
    <3>3. \A u : Says(s, u, v) => u = t
      <4>1. \A m1, m2 \in Messages : Append(inbox, m1) = Append(inbox, m2) => m1 = m2
        BY <2>n
      <4>2. \A u \in Feedbacks : Message(u, v, s) \in Messages /\ Message(u, v, s).type = u
        BY DEF Message, Messages, Workers
      <4>3. \A u : Says(s, u, v) => Message(u, v, s) = inbox'[Len(inbox')]
        BY <2>i, <2>n
      <4>4. \A u : Message(u, v, s).type = u
        BY DEF Message
      <4> QED
        BY <2>2, <4>3, <4>4
    <3>4. (Prepares(s, w, v) => t = "PreparationCompleted") /\ (Completes(s, w, v) => t = "PlaybackCompleted")
      BY <3>3 DEF Prepares, Completes
    <3> QED
      BY <2>2, <2>f, <3>2, <3>4
  <2> QED
    BY <1>4, <2>1, <2>2
<1>q. /\ Lives(v) => QueueFits(v) /\ SeekIsFirst(v)
      /\ QueueFits(v) /\ SeekIsFirst(v)
      /\ IsBehind(w) => IsBehind(v)
  <2>1. CASE ~Lives(v)
    BY <2>1 DEF QueueFits, SeekIsFirst, IsBehind
  <2>2. CASE Lives(v)
    <3>1. SameQueue(w, v) \/ TakesCommand(w, v)
      BY <1>1, <2>2 DEF WorkerMove, Ends, Fails, Begins, Builds, Prepares, Starts, Pauses, Seeks,
                        Reports, Completes, Rests, Lives
    <3> QED
      BY <1>l, <1>t, <1>w, <3>1, QueueMoves
  <2> QED
    BY <2>1, <2>2
<1>c. (v.feedback = epoch /\ Prepares(s, w, v)) \/ (v.feedback = epoch /\ Completes(s, w, v))
        \/ (v.feedback = epoch => ~Prepares(s, w, v) /\ ~Completes(s, w, v))
  OBVIOUS
<1>o. \A t \in Epochs \ {s} : WorkerTalks(worker[t])' /\ IsBehind(worker[t])' /\ ~PreparesNow(worker[t])'
  BY <1>l, <1>w
     DEF WorkerTalks, WorkerFits, QueueFits, SeekIsFirst, IsBehind, PreparesNow, Lives, PrepPhases
<1>e. ASSUME (WorkerTalks(v))', IsBehind(v) => (IsBehind(v))',
             \A i \in 1 .. Len(results) : ResultFits(i) =>
                /\ results[i].epoch = epoch /\ results[i].effect \in PlayEffects =>
                      (CommandFits(results[i].effect, results[i].resume))'
                /\ results[i].epoch = epoch /\ results[i].effect = "BeginPrepare" =>
                      ~(Arrived("PreparationCompleted"))' /\ ~(PreparesNow(v))'
      PROVE  WorkersTalk' /\ ResultsFit'
  <2>1. WorkersTalk'
    BY <1>o, <1>w, <1>e DEF WorkersTalk, WorkerTalks, WorkerFits, QueueFits, SeekIsFirst, PreparesNow, Lives
  <2>2. ASSUME NEW i \in 1 .. Len(results) PROVE ResultFits(i)'
    <3>r. results' = results /\ state' = state /\ epoch' = epoch /\ ResultFits(i)
      BY <1>t, <1>w DEF ResultsFit
    <3> SUFFICES ASSUME results[i].epoch = epoch PROVE ResultFits(i)'
      BY <3>r DEF ResultFits
    <3>1. results[i].effect \in PlayEffects => (CommandFits(results[i].effect, results[i].resume))'
      BY <1>e, <3>r
    <3>2. results[i].effect = "Seek" => \A t \in Epochs : IsBehind(worker[t])'
      <4>1. results[i].effect = "Seek" => IsBehind(w)
        BY <3>r DEF ResultFits, w
      <4>2. results[i].effect = "Seek" => (IsBehind(v))'
        BY <1>q, <1>e, <4>1
      <4> QED
        BY <1>o, <1>w, <4>2 DEF IsBehind, Lives
    <3>3. results[i].effect = "BeginPrepare" =>
             ~(Arrived("PreparationCompleted"))' /\ \A t \in Epochs : ~PreparesNow(worker[t])'
      BY <1>o, <1>w, <1>e, <3>r DEF PreparesNow
    <3> QED
      BY <3>r, <3>1, <3>2, <3>3 DEF ResultFits, CommandFits, InSession, Completed, Arrived, PreparesNow
  <2> QED
    BY <1>w, <2>1, <2>2 DEF ResultsFit
<1>6. CASE v.feedback = epoch => ~Prepares(s, w, v) /\ ~Completes(s, w, v)
  <2>1. /\ Arrived("PreparationCompleted")' <=> Arrived("PreparationCompleted")
        /\ Arrived("PlaybackCompleted")' <=> Arrived("PlaybackCompleted")
    BY <1>5, <1>6
  <2>2. /\ (WorkerTalks(v))' <=> WorkerTalks(v)
        /\ (IsBehind(v))' <=> IsBehind(v)
        /\ (PreparesNow(v))' <=> PreparesNow(v)
        /\ \A i \in 1 .. Len(results) :
              (CommandFits(results[i].effect, results[i].resume))' <=>
                  CommandFits(results[i].effect, results[i].resume)
    <3>1. results' = results
      BY <1>w
    <3>2. \A a, b : CommandFits(a, b)' <=> CommandFits(a, b)
      BY <2>1, SameContext
    <3>3. \A i : (CommandFits(results[i].effect, results[i].resume))' <=>
                    CommandFits(results[i].effect, results[i].resume)
      BY <2>1, <3>1 DEF CommandFits, InSession, Completed
    <3>4. \A u : /\ WorkerTalks(u)' <=> WorkerTalks(u)
                 /\ IsBehind(u)' <=> IsBehind(u)
                 /\ PreparesNow(u)' <=> PreparesNow(u)
      BY <2>1, SameContext
    <3> QED
      BY <3>3, <3>4
  <2>3. WorkerFits(v) /\ (PreparesNow(v) => PreparesNow(w))
    BY <1>1, <1>6, <1>l, <1>s, <1>t, <1>w, MoveFits
  <2>4. WorkerTalks(v)
    BY <1>q, <2>3 DEF WorkerTalks
  <2>5. \A i \in 1 .. Len(results) :
           ResultFits(i) /\ results[i].epoch = epoch /\ results[i].effect = "BeginPrepare" =>
               ~Arrived("PreparationCompleted") /\ ~PreparesNow(v)
    BY <2>3 DEF ResultFits, w
  <2>6. \A i \in 1 .. Len(results) :
           ResultFits(i) /\ results[i].epoch = epoch /\ results[i].effect \in PlayEffects =>
               CommandFits(results[i].effect, results[i].resume)
    BY DEF ResultFits
  <2>7. WorkersTalk' /\ ResultsFit'
    BY <1>e, <2>1, <2>2, <2>4, <2>5, <2>6
  <2> QED
    BY <1>5, <2>7
<1>7. CASE v.feedback = epoch /\ Prepares(s, w, v)
  <2>1. /\ w.phase = "prepared" /\ v.phase = "receive" /\ w.feedback = epoch
        /\ ~v.running /\ v.reported = w.reported
    BY <1>7, <1>s DEF Prepares, SameQueue, SamePipeline, Shaped, PrepPhases
  <2>2. PreparesNow(w) /\ state = "Preparing" /\ ~Arrived("PreparationCompleted")
    BY <1>t, <2>1 DEF WorkerTalks, WorkerFits, PreparesNow, PrepPhases
  <2>3. ~Arrived("PlaybackCompleted") /\ ~Completes(s, w, v)
    BY <1>t, <2>1, <2>2 DEF InboxFits, Arrived, Completes, LoopPhases
  <2>4. (Arrived("PreparationCompleted"))' /\ ~(Arrived("PlaybackCompleted"))' /\ state' = state
    BY <1>5, <1>7, <2>3
  <2>5. (WorkerFits(v))'
    BY <2>1, <2>2, <2>4 DEF WorkerFits, PreparesNow, PrepPhases, Prepared, Completed
  <2>6. (QueueFits(v))' /\ (SeekIsFirst(v))' /\ (IsBehind(v) => (IsBehind(v))')
    BY <1>q, <2>2, <2>3, <2>4
       DEF QueueFits, SeekIsFirst, IsBehind, Lives, CommandFits, InSession, Completed
  <2>7. \A i \in 1 .. Len(results) : ResultFits(i) /\ results[i].epoch = epoch =>
           results[i].effect \notin PlayEffects /\ results[i].effect # "BeginPrepare"
    BY <2>2 DEF ResultFits, CommandFits, InSession, w
  <2>8. WorkersTalk' /\ ResultsFit'
    <3>1. (WorkerTalks(v))'
      BY <2>5, <2>6 DEF WorkerTalks
    <3> QED
      BY <1>e, <2>6, <2>7, <3>1
  <2> QED
    BY <1>5, <2>8
<1>8. CASE v.feedback = epoch /\ Completes(s, w, v)
  <2>1. /\ w.phase \in LoopPhases /\ v.phase = "receive" /\ w.feedback = epoch
        /\ ~v.running /\ v.reported /\ w.running /\ w.pipeline # NoPipeline
    BY <1>8, <1>s DEF Completes, SameQueue, Shaped
  <2>2. state \in {"Playing", "Paused"} /\ ~PreparesNow(v)
    BY <1>l, <1>t, <2>1 DEF WorkerTalks, WorkerFits, PreparesNow, PrepPhases, LoopPhases
  <2>4. (WorkerFits(v))'
    BY <2>1, <2>2 DEF WorkerFits, PreparesNow, PrepPhases, Prepared, InSession
  <2>5. (SeekIsFirst(v))' /\ (IsBehind(v) => (IsBehind(v))')
    BY <1>q DEF SeekIsFirst, IsBehind, Lives
  <2>6. \A action, resume : CommandFits(action, resume) /\ action # "Seek" => (CommandFits(action, resume))'
    BY DEF CommandFits, InSession
  <2>7. (QueueFits(v))'
    <3>1. Lives(v)
      BY <2>1 DEF Lives
    <3>2. \A i \in 1 .. Len(v.queue) : v.queue[i].epoch = epoch =>
             v.queue[i].action # "Seek" /\ CommandFits(v.queue[i].action, v.queue[i].resume)
      BY <1>q, <1>8, <3>1 DEF QueueFits, SeekIsFirst
    <3> QED
      BY <2>6, <3>2 DEF QueueFits, Lives
  <2>8. ASSUME NEW i \in 1 .. Len(results), ResultFits(i), results[i].epoch = epoch
        PROVE  /\ results[i].effect # "BeginPrepare"
               /\ results[i].effect \in PlayEffects =>
                     (CommandFits(results[i].effect, results[i].resume))'
    <3>1. results[i].effect # "BeginPrepare"
      BY <2>2, <2>8 DEF ResultFits
    <3>2. ~IsBehind(w)
      BY <1>l, <2>1 DEF IsBehind
    <3>3. results[i].effect # "Seek"
      BY <2>8, <3>2 DEF ResultFits, w
    <3>4. results[i].effect \in PlayEffects => CommandFits(results[i].effect, results[i].resume)
      BY <2>8 DEF ResultFits
    <3> QED
      BY <1>w, <3>1, <3>3, <3>4 DEF CommandFits, InSession
  <2>9. WorkersTalk' /\ ResultsFit'
    <3>1. (WorkerTalks(v))'
      BY <2>4, <2>5, <2>7 DEF WorkerTalks
    <3> QED
      BY <1>e, <2>5, <2>8, <3>1
  <2> QED
    BY <1>5, <2>9
<1> QED
  BY <1>c, <1>6, <1>7, <1>8

(* A command or a failure may always arrive. *)
LEMMA InboxKeeps ==
    ASSUME TypeOK, InboxFits, InboxOrdered, UNCHANGED <<state, epoch>>,
           \/ inbox' = inbox
           \/ \E m \in Messages : m.type \in Commands \cup {"Failed"} /\ inbox' = Append(inbox, m)
    PROVE  /\ InboxFits' /\ InboxOrdered'
           /\ Arrived("PreparationCompleted")' <=> Arrived("PreparationCompleted")
           /\ Arrived("PlaybackCompleted")' <=> Arrived("PlaybackCompleted")
<1>1. CASE inbox' = inbox
  BY <1>1 DEF InboxFits, InboxOrdered, InSession, Arrived
<1>2. ASSUME NEW m \in Messages, m.type \in Commands \cup {"Failed"}, inbox' = Append(inbox, m)
      PROVE  /\ InboxFits' /\ InboxOrdered'
             /\ Arrived("PreparationCompleted")' <=> Arrived("PreparationCompleted")
             /\ Arrived("PlaybackCompleted")' <=> Arrived("PlaybackCompleted")
  <2>1. m.type \notin {"DurationChanged", "PreparationCompleted", "SeekCompleted",
                       "PlaybackCompleted", "AudioProgress"}
    BY <1>2 DEF Commands
  <2>2. MessageFits(m)
    BY <2>1 DEF MessageFits
  <2>3. /\ InboxFits' /\ InboxOrdered'
        /\ \A t \in Feedbacks : Arrived(t)' <=> Arrived(t) \/ (m.type = t /\ m.epoch = epoch)
    BY <1>2, <2>2, InboxGrows
  <2>4. "PreparationCompleted" \in Feedbacks /\ "PlaybackCompleted" \in Feedbacks
    BY DEF Feedbacks
  <2> QED
    BY <2>1, <2>3, <2>4
<1> QED
  BY <1>1, <1>2

(* One worker is replaced, and results are received. *)
LEMMA WorkerChanges ==
    ASSUME TypeOK, TalkInv, UNCHANGED <<state, epoch, control>>,
           NEW n \in {0, 1},
           Len(results') = Len(results) - n, Len(results) \in Nat,
           \A i \in 1 .. Len(results') : i + n \in 1 .. Len(results) /\ results'[i] = results[i + n],
           \/ inbox' = inbox
           \/ \E m \in Messages : m.type \in Commands \cup {"Failed"} /\ inbox' = Append(inbox, m),
           NEW t \in Epochs, NEW v, worker'[t] = v,
           \A s \in Epochs \ {t} : worker'[s] = worker[s],
           Shaped(v),
           ControlAlive =>
              /\ WorkerTalks(v)
              /\ \A i \in 1 + n .. Len(results) : results[i].epoch = epoch =>
                    /\ results[i].effect = "Seek" => IsBehind(v)
                    /\ results[i].effect = "BeginPrepare" => ~PreparesNow(v)
    PROVE  TalkInv'
<1>1. \A s \in Epochs : Shaped(worker[s])'
  BY DEF TalkInv, Shaped
<1> SUFFICES ASSUME ControlAlive
             PROVE  InboxFits' /\ InboxOrdered' /\ WorkersTalk' /\ ResultsFit'
  BY <1>1 DEF TalkInv, ControlAlive
<1>t. InboxFits /\ InboxOrdered /\ WorkersTalk /\ ResultsFit
  BY DEF TalkInv
<1>2. /\ InboxFits' /\ InboxOrdered'
      /\ Arrived("PreparationCompleted")' <=> Arrived("PreparationCompleted")
      /\ Arrived("PlaybackCompleted")' <=> Arrived("PlaybackCompleted")
  BY <1>t, InboxKeeps
<1>3. /\ \A w : /\ WorkerTalks(w)' <=> WorkerTalks(w)
                /\ IsBehind(w)' <=> IsBehind(w)
                /\ PreparesNow(w)' <=> PreparesNow(w)
      /\ \A action, resume : CommandFits(action, resume)' <=> CommandFits(action, resume)
  BY <1>2, SameContext
<1>4. WorkersTalk'
  <2>1. ASSUME NEW s \in Epochs PROVE (WorkerTalks(worker[s]))'
    <3>1. PICK w : w = worker'[s] /\ WorkerTalks(w)
      BY <1>t DEF WorkersTalk
    <3>2. (WorkerTalks(w))'
      BY <1>3, <3>1
    <3> QED
      BY <3>1, <3>2 DEF WorkerTalks, WorkerFits, QueueFits, SeekIsFirst, PreparesNow, Lives
  <2> QED
    BY <2>1 DEF WorkersTalk
<1>5. ResultsFit'
  <2> SUFFICES ASSUME NEW i \in 1 .. Len(results'), results'[i].epoch = epoch
               PROVE  (ResultFits(i))'
    BY DEF ResultsFit, ResultFits
  <2> DEFINE k == i + n
  <2>0. k \in 1 .. Len(results) /\ k \in 1 + n .. Len(results) /\ results'[i] = results[k]
    OBVIOUS
  <2>1. ResultFits(k) /\ results[k].epoch = epoch
    BY <1>t, <2>0 DEF ResultsFit
  <2>2. PICK a, b : a = results[k].effect /\ b = results[k].resume
    OBVIOUS
  <2>3. a \in PlayEffects => CommandFits(a, b)
    BY <2>1, <2>2 DEF ResultFits
  <2>4. a \in PlayEffects => (CommandFits(a, b))'
    BY <1>3, <2>3
  <2>5. a = "Seek" =>
           /\ \A s \in Epochs : (IsBehind(worker[s]))'
           /\ \A j \in 1 .. i - 1 : results'[j].effect \in PlayEffects \cup {"BeginPrepare"} =>
                 results'[j].epoch # epoch
    <3> SUFFICES ASSUME a = "Seek"
                 PROVE  /\ \A s \in Epochs : (IsBehind(worker[s]))'
                        /\ \A j \in 1 .. i - 1 :
                              results'[j].effect \in PlayEffects \cup {"BeginPrepare"} =>
                                  results'[j].epoch # epoch
      OBVIOUS
    <3>1. ASSUME NEW s \in Epochs PROVE (IsBehind(worker[s]))'
      <4>1. PICK w : w = worker'[s]
        OBVIOUS
      <4>2. IsBehind(w)
        BY <2>0, <2>1, <2>2, <4>1 DEF ResultFits
      <4>3. (IsBehind(w))'
        BY <1>3, <4>2
      <4> QED
        BY <4>1, <4>3 DEF IsBehind, Lives
    <3>2. \A j \in 1 .. i - 1 : /\ j + n \in 1 .. k - 1 /\ j \in 1 .. Len(results')
                                /\ results'[j] = results[j + n]
      OBVIOUS
    <3>3. \A j \in 1 .. k - 1 : results[j].effect \in PlayEffects \cup {"BeginPrepare"} =>
                                    results[j].epoch # epoch
      BY <2>1, <2>2 DEF ResultFits
    <3> HIDE DEF k
    <3> QED
      BY <3>1, <3>2, <3>3
  <2>6. a = "BeginPrepare" =>
           /\ state = "Preparing" /\ ~(Arrived("PreparationCompleted"))'
           /\ \A s \in Epochs : ~(PreparesNow(worker[s]))'
           /\ \A j \in i + 1 .. Len(results') : Quiet(results'[j])
    <3> SUFFICES ASSUME a = "BeginPrepare"
                 PROVE  /\ state = "Preparing" /\ ~(Arrived("PreparationCompleted"))'
                        /\ \A s \in Epochs : ~(PreparesNow(worker[s]))'
                        /\ \A j \in i + 1 .. Len(results') : Quiet(results'[j])
      OBVIOUS
    <3>1. /\ state = "Preparing" /\ ~Arrived("PreparationCompleted")
          /\ \A s \in Epochs : ~PreparesNow(worker[s])
          /\ \A j \in k + 1 .. Len(results) : Quiet(results[j])
      BY <2>1, <2>2 DEF ResultFits
    <3>2. ASSUME NEW s \in Epochs PROVE ~(PreparesNow(worker[s]))'
      <4>1. ~PreparesNow(v)
        BY <2>0, <2>1, <2>2
      <4> QED
        BY <3>1, <4>1 DEF PreparesNow
    <3>3. \A j \in i + 1 .. Len(results') :
             j + n \in k + 1 .. Len(results) /\ results'[j] = results[j + n]
      OBVIOUS
    <3> HIDE DEF k
    <3> QED
      BY <1>2, <3>1, <3>2, <3>3
  <2> HIDE DEF k
  <2>7. results'[i].effect = a /\ results'[i].resume = b /\ results'[i].epoch = epoch' /\ state' = state
        /\ epoch' = epoch
    BY <2>0, <2>2
  <2>8. results'[i].effect \in PlayEffects => (CommandFits(results[i].effect, results[i].resume))'
    BY <2>4, <2>7 DEF CommandFits, InSession, Completed
  <2> QED
    BY <2>5, <2>6, <2>7, <2>8 DEF ResultFits, Quiet
<1> QED
  BY <1>2, <1>4, <1>5

(* The effect thread hands on what fits. *)
LEMMA ReceiveKeepsTalk ==
    ASSUME TypeOK, TalkInv, EffectReceive, UNCHANGED <<state, epoch>>
    PROVE  TalkInv'
<1> DEFINE r == Head(results)
<1>m. /\ results # <<>> /\ control' = control /\ results \in Seq(Results)
      /\ r \in Results /\ results' = Tail(results) /\ EffectMove(r)
  BY EffectMoves
<1>n. /\ Len(results) \in Nat /\ Len(results) >= 1 /\ Len(results') = Len(results) - 1
      /\ r = results[1]
      /\ \A i \in 1 .. Len(results) - 1 : results'[i] = results[i + 1]
  BY <1>m, TailEntries
<1>r. /\ 1 \in 1 .. Len(results)
      /\ \A i \in 1 .. Len(results') : i + 1 \in 1 .. Len(results) /\ results'[i] = results[i + 1]
      /\ \A i \in 2 .. Len(results) : i \in 1 .. Len(results) /\ 1 \in 1 .. i - 1
  BY <1>n
<1>e. r.epoch \in Epochs /\ worker \in [Epochs -> Workers]
      /\ (handle # NoSession => handle \in Epochs)
  BY <1>m DEF TypeOK, WorkerTypeOK, EffectTypeOK, Results
<1>f. ControlAlive => WorkersTalk /\ ResultsFit
  BY DEF TalkInv
<1>g. ControlAlive => ResultFits(1)
  BY <1>f, <1>r DEF ResultsFit
<1> HIDE DEF r
<1>w. ASSUME NEW t \in Epochs, NEW v, worker'[t] = v,
             \A s \in Epochs \ {t} : worker'[s] = worker[s],
             \/ inbox' = inbox
             \/ \E m \in Messages : m.type \in Commands \cup {"Failed"} /\ inbox' = Append(inbox, m),
             Shaped(v),
             ControlAlive =>
                /\ WorkerTalks(v)
                /\ \A i \in 2 .. Len(results) : results[i].epoch = epoch =>
                      /\ results[i].effect = "Seek" => IsBehind(v)
                      /\ results[i].effect = "BeginPrepare" => ~PreparesNow(v)
      PROVE  TalkInv'
  <2>1. 1 \in {0, 1} /\ 1 + 1 = 2
    OBVIOUS
  <2> QED
    BY <1>m, <1>n, <1>r, <1>w, <2>1, WorkerChanges
<1>u. ASSUME worker' = worker,
             \/ inbox' = inbox
             \/ \E m \in Messages : m.type \in Commands \cup {"Failed"} /\ inbox' = Append(inbox, m)
      PROVE  TalkInv'
  <2>1. Shaped(worker[r.epoch])
    BY <1>e DEF TalkInv
  <2>2. ControlAlive =>
           /\ WorkerTalks(worker[r.epoch])
           /\ \A i \in 2 .. Len(results) : results[i].epoch = epoch =>
                 /\ results[i].effect = "Seek" => IsBehind(worker[r.epoch])
                 /\ results[i].effect = "BeginPrepare" => ~PreparesNow(worker[r.epoch])
    BY <1>e, <1>f, <1>r DEF WorkersTalk, ResultsFit, ResultFits
  <2>3. worker'[r.epoch] = worker[r.epoch] /\ \A s \in Epochs \ {r.epoch} : worker'[s] = worker[s]
    BY <1>u
  <2> QED
    BY <1>e, <1>u, <1>w, <2>1, <2>2, <2>3
<1>1. CASE Ignores(r) \/ Returns(r) \/ FindsNobody(r)
  BY <1>1, <1>u DEF Ignores, Returns, FindsNobody
<1>2. CASE Spawns(r)
  <2> DEFINE v == Spawned(r.epoch)
  <2>1. /\ v.phase = "spawned" /\ v.feedback = r.epoch /\ v.pipeline = NoPipeline /\ ~v.running
        /\ ~v.reported /\ v.queue = <<>>
    BY DEF Spawned, Absent
  <2>2. worker'[r.epoch] = v /\ \A s \in Epochs \ {r.epoch} : worker'[s] = worker[s]
    BY <1>e, <1>2 DEF Spawns
  <2> HIDE DEF v
  <2>3. Shaped(v)
    BY <2>1 DEF Shaped
  <2>4. ControlAlive => WorkerTalks(v)
    BY <1>2, <1>g, <2>1
       DEF Spawns, r, ResultFits, WorkerTalks, WorkerFits, QueueFits, SeekIsFirst, PreparesNow, PrepPhases
  <2>5. ASSUME ControlAlive, NEW i \in 2 .. Len(results), results[i].epoch = epoch
        PROVE  /\ results[i].effect = "Seek" => IsBehind(v)
               /\ results[i].effect = "BeginPrepare" => ~PreparesNow(v)
    <3>1. ResultFits(i)
      BY <1>f, <1>r, <2>5 DEF ResultsFit
    <3>2. results[1] = r /\ r.effect = "BeginPrepare"
      BY <1>2, <1>n DEF Spawns
    <3>3. results[i].effect = "Seek" => r.epoch # epoch
      BY <1>r, <2>5, <3>1, <3>2 DEF ResultFits
    <3>4. r.epoch = epoch => Quiet(results[i])
      <4>1. i \in 1 + 1 .. Len(results)
        OBVIOUS
      <4> QED
        BY <1>g, <2>5, <3>2, <4>1 DEF ResultFits
    <3> QED
      BY <2>1, <3>3, <3>4 DEF Quiet, IsBehind, PreparesNow
  <2> QED
    BY <1>e, <1>2, <1>w, <2>2, <2>3, <2>4, <2>5 DEF Spawns
<1>3. CASE HandsOver(r)
  <2> DEFINE q == worker[handle].queue
             c == CommandOf(r)
             p == Append(q, c)
             w == worker[handle]
             v == [w EXCEPT !.queue = p]
  <2>1. handle \in Epochs /\ r.effect \in PlayEffects
    BY <1>e, <1>3 DEF HandsOver
  <2>2. /\ q \in Seq(WorkerCommands) /\ c \in WorkerCommands
        /\ c.epoch = r.epoch /\ c.action = r.effect /\ c.resume = r.resume
    BY <1>m, <2>1, EntryTypes DEF PlayEffects, CommandOf, WorkerCommands, Results
  <2>3. /\ Len(p) = Len(q) + 1 /\ Len(q) \in Nat
        /\ p[Len(q) + 1] = c
        /\ \A i \in 1 .. Len(q) : p[i] = q[i]
    BY <2>2, AppendEntries
  <2>4. w \in Workers
    BY <1>e, <2>1
  <2>5. /\ v.phase = w.phase /\ v.feedback = w.feedback /\ v.pipeline = w.pipeline
        /\ v.running = w.running /\ v.reported = w.reported /\ v.queue = p /\ w.queue = q
    BY <2>4 DEF Workers
  <2>6. worker'[handle] = v /\ \A s \in Epochs \ {handle} : worker'[s] = worker[s]
    BY <1>e, <1>3, <2>1 DEF HandsOver
  <2>7. Shaped(w) /\ (ControlAlive => WorkerTalks(w))
    BY <1>f, <2>1 DEF TalkInv, WorkersTalk
  <2>8. ControlAlive /\ r.epoch = epoch =>
           /\ CommandFits(r.effect, r.resume)
           /\ r.effect = "Seek" => IsBehind(w)
    BY <1>g, <1>n, <2>1 DEF ResultFits
  <2> HIDE DEF q, c, p, w, v
  <2>9. \A i \in 1 .. Len(p) : i \in 1 .. Len(q) \/ (i = Len(q) + 1 /\ 1 .. i - 1 = 1 .. Len(q))
    BY <2>3
  <2>10. Shaped(v)
    BY <2>5, <2>7 DEF Shaped
  <2>11. ASSUME ControlAlive PROVE WorkerTalks(v)
    <3>1. WorkerFits(v)
      BY <2>5, <2>7, <2>11 DEF WorkerTalks, WorkerFits, PreparesNow, Lives
    <3>2. QueueFits(v)
      BY <2>2, <2>3, <2>5, <2>7, <2>8, <2>9, <2>11 DEF WorkerTalks, QueueFits, Lives
    <3>3. SeekIsFirst(v)
      <4> SUFFICES ASSUME Lives(v), NEW i \in 1 .. Len(p), p[i].action = "Seek", p[i].epoch = epoch
                   PROVE  v.feedback # epoch /\ \A j \in 1 .. i - 1 : p[j].epoch # epoch
        BY <2>5 DEF SeekIsFirst
      <4>1. CASE i \in 1 .. Len(q)
        <5>1. \A j \in 1 .. i - 1 : j \in 1 .. Len(q)
          BY <2>3, <4>1
        <5> QED
          BY <2>3, <2>5, <2>7, <2>11, <4>1, <5>1 DEF WorkerTalks, SeekIsFirst, Lives
      <4>2. CASE i = Len(q) + 1 /\ 1 .. i - 1 = 1 .. Len(q)
        BY <2>2, <2>3, <2>5, <2>8, <2>11, <4>2 DEF IsBehind, Lives
      <4> QED
        BY <2>9, <4>1, <4>2
    <3> QED
      BY <3>1, <3>2, <3>3 DEF WorkerTalks
  <2>12. ASSUME ControlAlive, NEW i \in 2 .. Len(results), results[i].epoch = epoch
         PROVE  /\ results[i].effect = "Seek" => IsBehind(v)
                /\ results[i].effect = "BeginPrepare" => ~PreparesNow(v)
    <3>1. ResultFits(i)
      BY <1>f, <1>r, <2>12 DEF ResultsFit
    <3>2. results[i].effect = "Seek" => r.epoch # epoch /\ IsBehind(w)
      BY <1>n, <1>r, <2>1, <2>12, <3>1 DEF ResultFits, w
    <3>3. results[i].effect = "Seek" => IsBehind(v)
      BY <2>2, <2>3, <2>5, <2>9, <3>2 DEF IsBehind, Lives
    <3>4. results[i].effect = "BeginPrepare" => ~PreparesNow(w)
      BY <2>1, <2>12, <3>1 DEF ResultFits, w
    <3> QED
      BY <2>5, <3>3, <3>4 DEF PreparesNow
  <2> QED
    BY <1>3, <1>w, <2>1, <2>6, <2>10, <2>11, <2>12 DEF HandsOver
<1>4. CASE Answers(r)
  <2>1. PICK s \in Epochs :
            inbox' = Append(inbox, [type |-> "Failed", epoch |-> r.epoch, session |-> s])
    BY <1>4 DEF Answers
  <2>2. [type |-> "Failed", epoch |-> r.epoch, session |-> s] \in Messages
    BY <1>e DEF Messages, Feedbacks
  <2> QED
    BY <1>4, <1>u, <2>1, <2>2 DEF Answers
<1>5. CASE GivesUp(r)
  <2> DEFINE w == worker[handle]
             v == [w EXCEPT !.cancel = TRUE]
  <2>1. handle \in Epochs /\ w \in Workers
    BY <1>e, <1>5 DEF GivesUp
  <2>2. /\ v.phase = w.phase /\ v.feedback = w.feedback /\ v.pipeline = w.pipeline
        /\ v.running = w.running /\ v.reported = w.reported /\ v.queue = w.queue
    BY <2>1 DEF Workers
  <2>3. worker'[handle] = v /\ \A s \in Epochs \ {handle} : worker'[s] = worker[s]
    BY <1>e, <1>5, <2>1 DEF GivesUp
  <2>4. Shaped(w) /\ (ControlAlive => WorkerTalks(w))
    BY <1>f, <2>1 DEF TalkInv, WorkersTalk
  <2>5. ControlAlive => \A i \in 2 .. Len(results) : results[i].epoch = epoch =>
           /\ results[i].effect = "Seek" => IsBehind(w)
           /\ results[i].effect = "BeginPrepare" => ~PreparesNow(w)
    BY <1>f, <1>r, <2>1 DEF ResultsFit, ResultFits
  <2> HIDE DEF w, v
  <2>6. Shaped(v)
    BY <2>2, <2>4 DEF Shaped
  <2>7. WorkerTalks(w) => WorkerTalks(v)
    BY <2>2 DEF WorkerTalks, WorkerFits, QueueFits, SeekIsFirst, PreparesNow, Lives
  <2>8. (IsBehind(w) => IsBehind(v)) /\ (PreparesNow(v) => PreparesNow(w))
    BY <2>2 DEF IsBehind, PreparesNow, Lives
  <2>9. ControlAlive =>
           /\ WorkerTalks(v)
           /\ \A i \in 2 .. Len(results) : results[i].epoch = epoch =>
                 /\ results[i].effect = "Seek" => IsBehind(v)
                 /\ results[i].effect = "BeginPrepare" => ~PreparesNow(v)
    BY <2>4, <2>5, <2>7, <2>8
  <2> QED
    BY <1>5, <1>w, <2>1, <2>3, <2>6, <2>9 DEF GivesUp
<1> QED
  BY <1>m, <1>1, <1>2, <1>3, <1>4, <1>5 DEF EffectMove

(* A worker that was joined leaves no work. *)
LEMMA JoinedKeepsTalk ==
    ASSUME TypeOK, TalkInv, EffectJoined, UNCHANGED <<state, epoch>>
    PROVE  TalkInv'
<1>t. task.session \in Epochs /\ task.epoch \in Epochs /\ worker \in [Epochs -> Workers]
  BY DEF TypeOK, EffectTypeOK, Tasks, WorkerTypeOK
<1>1. /\ worker'[task.session] = Absent
      /\ \A s \in Epochs \ {task.session} : worker'[s] = worker[s]
      /\ results' = results /\ control' = control /\ Len(results) \in Nat
  BY <1>t, EntryTypes DEF EffectJoined
<1>2. /\ Absent.phase = "absent" /\ Absent.pipeline = NoPipeline /\ ~Absent.running
      /\ ~Absent.reported
  BY DEF Absent
<1>3. /\ Shaped(Absent) /\ WorkerTalks(Absent) /\ IsBehind(Absent) /\ ~PreparesNow(Absent)
  BY <1>2 DEF Shaped, WorkerTalks, WorkerFits, QueueFits, SeekIsFirst, IsBehind, PreparesNow,
              PrepPhases, Lives
<1>4. \/ inbox' = inbox
      \/ \E m \in Messages : m.type \in Commands \cup {"Failed"} /\ inbox' = Append(inbox, m)
  <2> DEFINE m == [type |-> "Failed", epoch |-> task.epoch, session |-> task.session]
  <2>1. m \in Messages /\ m.type = "Failed"
    BY <1>t DEF Messages, Feedbacks
  <2>2. inbox' = inbox \/ inbox' = Append(inbox, m)
    BY DEF EffectJoined
  <2> HIDE DEF m
  <2> QED
    BY <2>1, <2>2
<1>5. \A i \in 1 .. Len(results') : i + 0 \in 1 .. Len(results) /\ results'[i] = results[i + 0]
  BY <1>1
<1>6. 0 \in {0, 1} /\ Len(results') = Len(results) - 0
  BY <1>1
<1> QED
  BY <1>t, <1>1, <1>3, <1>4, <1>5, <1>6, WorkerChanges

(* Nor does a command of the user disturb any. *)
LEMMA PostKeepsTalk ==
    ASSUME TypeOK, TalkInv,
           inbox' = inbox \/ \E c \in Commands : Post([type |-> c, epoch |-> 0, session |-> 0]),
           UNCHANGED <<results, control, state, epoch, worker>>
    PROVE  TalkInv'
<1>0. 0 \in Epochs /\ Len(results) \in Nat
  BY MaxEpochAssumption, EntryTypes DEF Epochs
<1>1. \/ inbox' = inbox
      \/ \E m \in Messages : m.type \in Commands \cup {"Failed"} /\ inbox' = Append(inbox, m)
  <2>1. ASSUME NEW c \in Commands, Post([type |-> c, epoch |-> 0, session |-> 0])
        PROVE  \/ inbox' = inbox
               \/ \E m \in Messages : m.type \in Commands \cup {"Failed"} /\ inbox' = Append(inbox, m)
    <3> DEFINE m == [type |-> c, epoch |-> 0, session |-> 0]
    <3>1. m \in Messages /\ m.type \in Commands
      BY <1>0 DEF Messages
    <3>2. inbox' = Append(inbox, m) \/ inbox' = inbox
      BY <2>1 DEF Post
    <3> HIDE DEF m
    <3> QED
      BY <3>1, <3>2
  <2> QED
    BY <2>1
<1>3. Shaped(worker[0]) /\ (ControlAlive => WorkerTalks(worker[0]) /\ ResultsFit)
  BY <1>0 DEF TalkInv, WorkersTalk
<1>4. ControlAlive => \A i \in 1 + 0 .. Len(results) : results[i].epoch = epoch =>
         /\ results[i].effect = "Seek" => IsBehind(worker[0])
         /\ results[i].effect = "BeginPrepare" => ~PreparesNow(worker[0])
  BY <1>0, <1>3 DEF ResultsFit, ResultFits
<1>5. /\ \A i \in 1 .. Len(results') : i + 0 \in 1 .. Len(results) /\ results'[i] = results[i + 0]
      /\ 0 \in {0, 1} /\ Len(results') = Len(results) - 0
  BY <1>0
<1> QED
  BY <1>0, <1>1, <1>3, <1>4, <1>5, WorkerChanges

(* A new epoch makes all work old but the Seek that opened it. *)
LEMMA NewEpochTalks ==
    ASSUME TypeOK, FreshInv, inbox # <<>>, NEW r \in Results,
           inbox' = Tail(inbox), results' = Append(results, r), worker' = worker,
           epoch' = epoch + 1, r.effect # "BeginPrepare",
           r.effect \in PlayEffects =>
              /\ r.effect = "Seek" /\ state' \in {"Ready", "Playing", "Paused"}
              /\ r.resume => state' = "Playing"
    PROVE  InboxFits' /\ InboxOrdered' /\ WorkersTalk' /\ ResultsFit'
<1>1. /\ Len(inbox) \in Nat /\ Len(inbox) >= 1 /\ Len(inbox') = Len(inbox) - 1
      /\ \A i \in 1 .. Len(inbox) - 1 : inbox'[i] = inbox[i + 1]
  BY EntryTypes, TailEntries
<1>2. /\ Len(results) \in Nat /\ Len(results') = Len(results) + 1
      /\ results'[Len(results) + 1] = r
      /\ \A i \in 1 .. Len(results) : results'[i] = results[i]
  BY EntryTypes, AppendEntries
<1>e. epoch \in Int
  BY EntryTypes
<1>3. \A i \in 1 .. Len(inbox') : inbox'[i].epoch # epoch'
  <2>1. \A i \in 1 .. Len(inbox') : i + 1 \in 1 .. Len(inbox) /\ inbox'[i] = inbox[i + 1]
    BY <1>1
  <2>2. \A i \in 1 .. Len(inbox) : inbox[i].epoch \in Int /\ inbox[i].epoch <= epoch
    BY EntryTypes DEF FreshInv, InboxFresh, Usable
  <2> QED
    BY <1>e, <2>1, <2>2
<1>4. InboxFits' /\ InboxOrdered' /\ \A t : ~(Arrived(t))'
  BY <1>3 DEF InboxFits, InboxOrdered, Arrived
<1>5. \A s \in Epochs :
         /\ worker[s].feedback # epoch'
         /\ \A i \in 1 .. Len(worker[s].queue) : worker[s].queue[i].epoch # epoch'
  <2>1. \A s \in Epochs :
           /\ worker[s].feedback \in Int /\ worker[s].feedback <= epoch
           /\ \A i \in 1 .. Len(worker[s].queue) :
                 worker[s].queue[i].epoch \in Int /\ worker[s].queue[i].epoch <= epoch
    BY EntryTypes DEF FreshInv, WorkersFresh, Usable
  <2> QED
    BY <1>e, <2>1
<1>6. \A s \in Epochs : (WorkerTalks(worker[s]))' /\ (IsBehind(worker[s]))'
  BY <1>5 DEF WorkerTalks, WorkerFits, QueueFits, SeekIsFirst, IsBehind, PreparesNow
<1>7. \A i \in 1 .. Len(results) :
         results[i].epoch = epoch' => results[i].effect \notin PlayEffects \cup {"BeginPrepare"}
  <2>1. \A i \in 1 .. Len(results) : results[i].effect \in Answerable =>
           results[i].epoch \in Int /\ results[i].epoch <= epoch
    BY EntryTypes DEF FreshInv, ResultsFresh, Usable
  <2> QED
    BY <1>e, <2>1 DEF Answerable, PlayEffects
<1>8. ResultsFit'
  <2> SUFFICES ASSUME NEW i \in 1 .. Len(results'), results'[i].epoch = epoch'
               PROVE  (ResultFits(i))'
    BY DEF ResultsFit, ResultFits
  <2>1. CASE i \in 1 .. Len(results)
    BY <1>2, <1>7, <2>1 DEF ResultFits, PlayEffects
  <2>2. CASE i = Len(results) + 1
    <3>1. results'[i] = r
      BY <1>2, <2>2
    <3>2. r.effect \in PlayEffects => (CommandFits(results[i].effect, results[i].resume))'
      BY <1>4, <3>1 DEF CommandFits, InSession, Completed, PlayEffects
    <3>3. \A j \in 1 .. i - 1 : results'[j].epoch = epoch' =>
             results'[j].effect \notin PlayEffects \cup {"BeginPrepare"}
      <4>1. 1 .. i - 1 = 1 .. Len(results)
        BY <1>2, <2>2
      <4> QED
        BY <1>2, <1>7, <4>1
    <3> QED
      BY <1>6, <3>1, <3>2, <3>3 DEF ResultFits
  <2> QED
    BY <1>2, <2>1, <2>2
<1> QED
  BY <1>4, <1>6, <1>8 DEF WorkersTalk

(* In the same epoch a result is added, and the others go on to fit. *)
LEMMA ResultsGrow ==
    ASSUME TypeOK, ResultsFit, NEW r \in Results,
           results' = Append(results, r), worker' = worker, epoch' = epoch,
           \A i \in 1 .. Len(results) : ResultFits(i) /\ results[i].epoch = epoch =>
              /\ results[i].effect \in PlayEffects =>
                    (CommandFits(results[i].effect, results[i].resume))'
              /\ results[i].effect = "BeginPrepare" =>
                    state' = "Preparing" /\ ~(Arrived("PreparationCompleted"))' /\ Quiet(r),
           r.effect # "Seek",
           r.effect \in PlayEffects => (CommandFits(r.effect, r.resume))',
           r.effect = "BeginPrepare" =>
              /\ state' = "Preparing" /\ ~(Arrived("PreparationCompleted"))'
              /\ \A s \in Epochs : ~PreparesNow(worker[s])
    PROVE  ResultsFit'
<1>1. /\ Len(results) \in Nat /\ Len(results') = Len(results) + 1
      /\ results'[Len(results) + 1] = r
      /\ \A i \in 1 .. Len(results) : results'[i] = results[i]
  BY EntryTypes, AppendEntries
<1> SUFFICES ASSUME NEW i \in 1 .. Len(results'), results'[i].epoch = epoch
             PROVE  (ResultFits(i))'
  BY DEF ResultsFit, ResultFits
<1>2. CASE i \in 1 .. Len(results)
  <2>1. ResultFits(i) /\ results'[i] = results[i] /\ results[i].epoch = epoch
    BY <1>1, <1>2 DEF ResultsFit
  <2>2. results[i].effect \in PlayEffects => (CommandFits(results[i].effect, results[i].resume))'
    BY <1>1, <1>2, <2>1 DEF CommandFits, InSession, Completed
  <2>3. results[i].effect = "Seek" =>
           /\ \A s \in Epochs : (IsBehind(worker[s]))'
           /\ \A j \in 1 .. i - 1 : results'[j].effect \in PlayEffects \cup {"BeginPrepare"} =>
                 results'[j].epoch # epoch
    <3>1. \A j \in 1 .. i - 1 : results'[j] = results[j]
      BY <1>1, <1>2
    <3> QED
      BY <2>1, <3>1 DEF ResultFits, IsBehind
  <2>4. results[i].effect = "BeginPrepare" =>
           /\ state' = "Preparing" /\ ~(Arrived("PreparationCompleted"))'
           /\ \A s \in Epochs : ~(PreparesNow(worker[s]))'
           /\ \A j \in i + 1 .. Len(results') : Quiet(results'[j])
    <3> SUFFICES ASSUME results[i].effect = "BeginPrepare"
                 PROVE  /\ state' = "Preparing" /\ ~(Arrived("PreparationCompleted"))'
                        /\ \A s \in Epochs : ~(PreparesNow(worker[s]))'
                        /\ \A j \in i + 1 .. Len(results') : Quiet(results'[j])
      OBVIOUS
    <3>1. state' = "Preparing" /\ ~(Arrived("PreparationCompleted"))' /\ Quiet(r)
      BY <1>2, <2>1
    <3>2. /\ \A s \in Epochs : ~PreparesNow(worker[s])
          /\ \A j \in i + 1 .. Len(results) : Quiet(results[j])
      BY <2>1 DEF ResultFits
    <3>3. \A j \in i + 1 .. Len(results') :
             j = Len(results) + 1 \/ (j \in i + 1 .. Len(results) /\ results'[j] = results[j])
      BY <1>1, <1>2
    <3> QED
      BY <1>1, <3>1, <3>2, <3>3 DEF PreparesNow
  <2> QED
    BY <2>1, <2>2, <2>3, <2>4 DEF ResultFits, Quiet
<1>3. CASE i = Len(results) + 1
  <2>1. results'[i] = r /\ i + 1 .. Len(results') = {}
    BY <1>1, <1>3
  <2>2. r.effect \in PlayEffects => (CommandFits(results[i].effect, results[i].resume))'
    BY <2>1 DEF CommandFits, InSession, Completed
  <2>3. r.effect = "BeginPrepare" => \A s \in Epochs : ~(PreparesNow(worker[s]))'
    BY DEF PreparesNow
  <2> QED
    BY <2>1, <2>2, <2>3 DEF ResultFits
<1> QED
  BY <1>1, <1>2, <1>3

(* The control thread moves the player only where the work under way fits. *)
LEMMA ControlKeepsTalk ==
    ASSUME TypeOK, FreshInv, TalkInv, ControlReceive, worker' = worker
    PROVE  TalkInv'
<1> DEFINE m == Head(inbox)
<1>1. PICK r \in Results :
          /\ Reply(r)
          /\ r.before = state /\ r.after = state' /\ r.epoch = epoch'
          /\ ControlMove(m, r)
  BY ControlMoves
<1>s. \A s \in Epochs : (Shaped(worker[s]))'
  BY DEF TalkInv, Shaped
<1> SUFFICES ASSUME ControlAlive'
             PROVE  InboxFits' /\ InboxOrdered' /\ WorkersTalk' /\ ResultsFit'
  BY <1>s DEF TalkInv
<1>2. /\ inbox # <<>> /\ inbox' = Tail(inbox) /\ results' = Append(results, r)
      /\ r.event # "ControlError" /\ state' # "Released"
  BY <1>1 DEF ControlReceive, Reply, ControlAlive
<1>3. InboxFits /\ InboxOrdered /\ WorkersTalk /\ ResultsFit
  BY DEF TalkInv, ControlReceive
<1> HIDE DEF m
<1>n. CASE epoch' = epoch + 1
  <2>1. CASE Accepts(m, r)
    <3>1. /\ m.type \in {"Seek", "Stop"} /\ r.effect = m.type
          /\ Transition(state, m.type, state') /\ (r.resume <=> state' = "Playing")
      <4>1. m.type \in InvalidatingCommands
        BY <1>n, <2>1, EntryTypes DEF Accepts
      <4>2. m.type # "Release"
        BY <1>2, <2>1 DEF Accepts, Transition, ActionOf, Commands
      <4>3. m.type \in {"Seek", "Stop"}
        BY <4>1, <4>2 DEF InvalidatingCommands
      <4> QED
        BY <2>1, <4>3 DEF Accepts, ActionOf, EffectOf, Commands
    <3>2. m.type = "Seek" => state' \in {"Ready", "Playing", "Paused"}
      BY <3>1 DEF Transition
    <3>3. r.effect # "BeginPrepare" /\ (r.effect \in PlayEffects => r.effect = "Seek")
      BY <3>1 DEF PlayEffects
    <3> QED
      BY <1>2, <1>n, <3>1, <3>2, <3>3, NewEpochTalks
  <2>2. CASE FailsPlayer(m, r)
    <3>1. r.effect # "BeginPrepare" /\ r.effect \notin PlayEffects
      BY <2>2 DEF FailsPlayer, PlayEffects
    <3> QED
      BY <1>2, <1>n, <3>1, NewEpochTalks
  <2>3. CASE LeavesPlayer(m, r) \/ CompletesStage(m, r)
    <3>1. epoch' = epoch
      BY <2>3 DEF LeavesPlayer, CompletesStage, KeepPlayer
    <3> QED
      BY <1>n, <3>1, EntryTypes
  <2> QED
    BY <1>1, <2>1, <2>2, <2>3 DEF ControlMove
<1>o. CASE epoch' = epoch
  <2>1. /\ InboxOrdered'
        /\ \A t : Arrived(t) <=> Arrived(t)' \/ (m.type = t /\ IsCurrent(m))
        /\ m = inbox[1] /\ 1 \in 1 .. Len(inbox) /\ Len(inbox) \in Nat
        /\ Len(inbox') = Len(inbox) - 1
        /\ \A i \in 1 .. Len(inbox') : i + 1 \in 1 .. Len(inbox) /\ inbox'[i] = inbox[i + 1]
    BY <1>2, <1>3, <1>o, InboxShrinks DEF m
  <2>2. /\ \A i \in 1 .. Len(inbox') : inbox'[i].epoch = epoch =>
              /\ inbox'[i].type \in {"DurationChanged", "PreparationCompleted"} =>
                    state = "Preparing"
              /\ inbox'[i].type = "SeekCompleted" => state \in {"Ready", "Playing", "Paused"}
              /\ inbox'[i].type = "PlaybackCompleted" => state \in {"Playing", "Paused"}
              /\ inbox'[i].type = "AudioProgress" => Prepared
    BY <1>3, <2>1 DEF InboxFits, Prepared, Arrived
  <2>r. r.effect = "None" => r.effect # "Seek" /\ r.effect # "BeginPrepare" /\ r.effect \notin PlayEffects
    BY DEF PlayEffects
  <2>i. ASSUME \A i \in 1 .. Len(inbox') : inbox'[i].epoch = epoch =>
                  /\ inbox'[i].type \in {"DurationChanged", "PreparationCompleted"} =>
                        state' = "Preparing"
                  /\ inbox'[i].type = "SeekCompleted" => state' \in {"Ready", "Playing", "Paused"}
                  /\ inbox'[i].type = "PlaybackCompleted" => state' \in {"Playing", "Paused"}
                  /\ inbox'[i].type = "AudioProgress" => InSession'
        PROVE  InboxFits'
    BY <1>o, <2>i DEF InboxFits
  <2>3. CASE Accepts(m, r)
    <3>1. /\ m.type \in {"Prepare", "Play", "Pause"} /\ state' # state
          /\ r.effect = EffectOf[m.type] /\ Transition(state, ActionOf[m.type], state')
          /\ (r.resume <=> state' = "Playing")
      <4>1. m.type \notin InvalidatingCommands
        BY <1>o, <2>3, EntryTypes DEF Accepts
      <4> QED
        BY <2>3, <4>1 DEF Accepts, InvalidatingCommands, Commands
    <3>2. /\ (Arrived("PreparationCompleted"))' <=> Arrived("PreparationCompleted")
          /\ (Arrived("PlaybackCompleted"))' <=> Arrived("PlaybackCompleted")
      BY <2>1, <3>1
    <3>3. CASE m.type = "Prepare"
      <4>1. state = "Idle" /\ state' = "Preparing" /\ r.effect = "BeginPrepare"
        BY <3>1, <3>3 DEF Transition, ActionOf, EffectOf, Commands
      <4>2. ~Prepared /\ ~InSession /\ ~Arrived("PreparationCompleted") /\ ~Arrived("PlaybackCompleted")
        BY <1>3, <4>1 DEF Prepared, InSession, InboxFits, Arrived
      <4>3. InboxFits'
        BY <2>2, <2>i, <4>1, <4>2
      <4>4. \A s \in Epochs : /\ ~PreparesNow(worker[s])
                              /\ (WorkerTalks(worker[s]))'
        <5> SUFFICES ASSUME NEW s \in Epochs
                     PROVE  ~PreparesNow(worker[s]) /\ (WorkerTalks(worker[s]))'
          OBVIOUS
        <5>1. WorkerTalks(worker[s])
          BY <1>3 DEF WorkersTalk
        <5>2. ~PreparesNow(worker[s]) /\ (WorkerFits(worker[s]))'
          BY <1>o, <4>1, <4>2, <5>1 DEF WorkerTalks, WorkerFits, PreparesNow, Lives
        <5>3. (QueueFits(worker[s]))'
          BY <1>o, <4>2, <5>1 DEF WorkerTalks, QueueFits, CommandFits, Lives
        <5>4. (SeekIsFirst(worker[s]))'
          BY <1>o, <5>1 DEF WorkerTalks, SeekIsFirst, Lives
        <5> QED
          BY <5>2, <5>3, <5>4 DEF WorkerTalks
      <4>5. \A i \in 1 .. Len(results) : ResultFits(i) /\ results[i].epoch = epoch =>
               results[i].effect \notin PlayEffects /\ results[i].effect # "BeginPrepare"
        BY <4>1, <4>2 DEF ResultFits, CommandFits
      <4>6. ResultsFit'
        BY <1>2, <1>3, <1>o, <3>2, <4>1, <4>2, <4>4, <4>5, ResultsGrow DEF PlayEffects
      <4> QED
        BY <2>1, <4>3, <4>4, <4>6 DEF WorkersTalk
    <3>4. CASE m.type \in {"Play", "Pause"}
      <4>1. /\ state \in {"Ready", "Playing", "Paused"} /\ state' \in {"Playing", "Paused"}
            /\ r.effect \in {"StartPlayback", "PausePlayback"}
        BY <3>1, <3>4 DEF Transition, ActionOf, EffectOf, Commands
      <4>2. InboxFits'
        BY <2>2, <2>i, <4>1 DEF InSession
      <4>3. \A action, resume : CommandFits(action, resume) => (CommandFits(action, resume))'
        BY <3>2, <4>1 DEF CommandFits, InSession, Completed
      <4>4. ASSUME NEW s \in Epochs PROVE (WorkerTalks(worker[s]))'
        <5>1. WorkerTalks(worker[s])
          BY <1>3 DEF WorkersTalk
        <5>2. (WorkerFits(worker[s]))'
          BY <1>o, <3>2, <4>1, <5>1
             DEF WorkerTalks, WorkerFits, PreparesNow, Lives, Prepared, Completed, InSession
        <5>3. (QueueFits(worker[s]))'
          <6>1. Lives(worker[s]) => \A i \in 1 .. Len(worker[s].queue) :
                   worker[s].queue[i].epoch = epoch =>
                      (CommandFits(worker[s].queue[i].action, worker[s].queue[i].resume))'
            BY <3>2, <4>1, <5>1 DEF WorkerTalks, QueueFits, CommandFits, InSession, Completed
          <6> QED
            BY <1>o, <6>1 DEF QueueFits, Lives
        <5>4. (SeekIsFirst(worker[s]))'
          BY <1>o, <5>1 DEF WorkerTalks, SeekIsFirst, Lives
        <5> QED
          BY <5>2, <5>3, <5>4 DEF WorkerTalks
      <4>5. (CommandFits(r.effect, r.resume))' /\ r.effect # "Seek" /\ r.effect # "BeginPrepare"
        BY <4>1 DEF CommandFits, InSession
      <4>6. ASSUME NEW i \in 1 .. Len(results), ResultFits(i), results[i].epoch = epoch
            PROVE  /\ results[i].effect # "BeginPrepare"
                   /\ results[i].effect \in PlayEffects =>
                         (CommandFits(results[i].effect, results[i].resume))'
        <5>1. results[i].effect # "BeginPrepare"
          BY <4>1, <4>6 DEF ResultFits
        <5>2. results[i].effect \in PlayEffects => CommandFits(results[i].effect, results[i].resume)
          BY <4>6 DEF ResultFits
        <5>3. i \in 1 .. Len(results') /\ results'[i] = results[i]
          BY <1>2, EntryTypes, AppendEntries
        <5> QED
          BY <3>2, <4>1, <5>1, <5>2, <5>3 DEF CommandFits, InSession, Completed
      <4>7. ResultsFit'
        BY <1>2, <1>3, <1>o, <4>5, <4>6, ResultsGrow
      <4> QED
        BY <2>1, <4>2, <4>4, <4>7 DEF WorkersTalk
    <3> QED
      BY <3>1, <3>3, <3>4
  <2>4. CASE LeavesPlayer(m, r)
    <3>1. /\ state' = state /\ epoch' = epoch /\ Quiet(r) /\ r.effect = "None"
          /\ ~(m.type \in {"PreparationCompleted", "PlaybackCompleted"} /\ IsCurrent(m))
      BY <1>2, <2>4 DEF LeavesPlayer, KeepPlayer, Quiet
    <3>2. /\ (Arrived("PreparationCompleted"))' <=> Arrived("PreparationCompleted")
          /\ (Arrived("PlaybackCompleted"))' <=> Arrived("PlaybackCompleted")
      BY <2>1, <3>1
    <3>3. InboxFits'
      <4>1. ASSUME NEW i \in 1 .. Len(inbox'), inbox'[i].epoch = epoch,
                   inbox'[i].type = "AudioProgress"
            PROVE  \/ InSession
                   \/ \E j \in 1 .. i - 1 : /\ inbox'[j].type = "PreparationCompleted"
                                            /\ inbox'[j].epoch = epoch
        <5>1. InSession \/ \E j \in 1 .. (i + 1) - 1 : /\ inbox[j].type = "PreparationCompleted"
                                                       /\ inbox[j].epoch = epoch
          BY <1>3, <2>1, <4>1 DEF InboxFits
        <5>2. ASSUME NEW j \in 1 .. (i + 1) - 1, inbox[j].type = "PreparationCompleted",
                     inbox[j].epoch = epoch
              PROVE  \E k \in 1 .. i - 1 : /\ inbox'[k].type = "PreparationCompleted"
                                           /\ inbox'[k].epoch = epoch
          <6>1. j # 1
            BY <2>1, <3>1, <5>2 DEF IsCurrent
          <6>2. j - 1 \in 1 .. i - 1 /\ j - 1 \in 1 .. Len(inbox') /\ (j - 1) + 1 = j
            BY <2>1, <6>1
          <6> QED
            BY <2>1, <5>2, <6>2
        <5> QED
          BY <5>1, <5>2
      <4> QED
        BY <2>2, <3>1, <4>1 DEF InboxFits, InSession
    <3>4. /\ \A w : WorkerTalks(w)' <=> WorkerTalks(w)
          /\ \A action, resume : CommandFits(action, resume)' <=> CommandFits(action, resume)
      BY <3>1, <3>2, SameContext
    <3>5. ASSUME NEW s \in Epochs PROVE (WorkerTalks(worker[s]))'
      <4>1. PICK w : w = worker[s] /\ WorkerTalks(w)
        BY <1>3 DEF WorkersTalk
      <4>2. (WorkerTalks(w))' /\ worker' = worker
        BY <3>4, <4>1
      <4> QED
        BY <4>1, <4>2 DEF WorkerTalks, WorkerFits, QueueFits, SeekIsFirst, PreparesNow, Lives
    <3>6. ASSUME NEW i \in 1 .. Len(results), ResultFits(i), results[i].epoch = epoch
          PROVE  /\ results[i].effect \in PlayEffects =>
                       (CommandFits(results[i].effect, results[i].resume))'
                 /\ results[i].effect = "BeginPrepare" =>
                       state' = "Preparing" /\ ~(Arrived("PreparationCompleted"))'
      <4>1. i \in 1 .. Len(results') /\ results'[i] = results[i]
        BY <1>2, EntryTypes, AppendEntries
      <4> QED
        BY <3>1, <3>2, <3>6, <4>1 DEF ResultFits, CommandFits, InSession, Completed
    <3>7. ResultsFit'
      BY <1>2, <1>3, <1>o, <2>r, <3>1, <3>6, ResultsGrow
    <3> QED
      BY <2>1, <3>3, <3>5, <3>7 DEF WorkersTalk
  <2>5. CASE CompletesStage(m, r) /\ m.type = "PreparationCompleted"
    <3>1. /\ IsCurrent(m) /\ state = "Preparing" /\ state' = "Ready" /\ r.effect = "None"
      BY <2>5 DEF CompletesStage, Transition
    <3>2. Arrived("PreparationCompleted") /\ ~InSession
      BY <2>1, <2>5, <3>1 DEF InSession
    <3>3. ~Arrived("PlaybackCompleted") /\ ~(Arrived("PlaybackCompleted"))'
      BY <1>3, <2>1, <3>1 DEF InboxFits, Arrived
    <3>4. \A i \in 1 .. Len(inbox') : inbox'[i].epoch = epoch =>
             inbox'[i].type \notin {"DurationChanged", "PreparationCompleted"}
      <4>1. \A i \in 1 .. Len(inbox') : 1 < i + 1
        BY <2>1
      <4> QED
        BY <1>3, <2>1, <2>5, <3>1, <4>1 DEF InboxOrdered, IsCurrent
    <3>5. InboxFits'
      BY <2>2, <2>i, <3>1, <3>4 DEF InSession
    <3>6. ASSUME NEW s \in Epochs PROVE (WorkerTalks(worker[s]))'
      <4>1. WorkerTalks(worker[s])
        BY <1>3 DEF WorkersTalk
      <4>2. (WorkerFits(worker[s]))'
        BY <1>o, <3>1, <3>2, <3>3, <4>1
           DEF WorkerTalks, WorkerFits, PreparesNow, Lives, Prepared, Completed, InSession
      <4>3. (QueueFits(worker[s]))'
        BY <1>o, <3>2, <4>1 DEF WorkerTalks, QueueFits, CommandFits, Lives
      <4>4. (SeekIsFirst(worker[s]))'
        BY <1>o, <4>1 DEF WorkerTalks, SeekIsFirst, Lives
      <4> QED
        BY <4>2, <4>3, <4>4 DEF WorkerTalks
    <3>7. \A i \in 1 .. Len(results) : ResultFits(i) /\ results[i].epoch = epoch =>
             results[i].effect \notin PlayEffects /\ results[i].effect # "BeginPrepare"
      BY <3>2 DEF ResultFits, CommandFits
    <3>8. ResultsFit'
      BY <1>2, <1>3, <1>o, <2>r, <3>1, <3>7, ResultsGrow
    <3> QED
      BY <2>1, <3>5, <3>6, <3>8 DEF WorkersTalk
  <2>6. CASE CompletesStage(m, r) /\ m.type = "PlaybackCompleted"
    <3>1. /\ IsCurrent(m) /\ state \in {"Playing", "Paused"} /\ state' = "Ended"
          /\ r.effect = "None"
      BY <2>6 DEF CompletesStage, Transition, CompletableStates
    <3>2. Completed
      BY <2>1, <2>6, <3>1 DEF Completed
    <3>4. \A i \in 1 .. Len(inbox') : inbox'[i].epoch = epoch =>
             inbox'[i].type \notin {"SeekCompleted", "PlaybackCompleted"}
      <4>1. \A i \in 1 .. Len(inbox') : 1 < i + 1
        BY <2>1
      <4> QED
        BY <1>3, <2>1, <2>6, <3>1, <4>1 DEF InboxOrdered, IsCurrent
    <3>5. InboxFits'
      BY <2>2, <2>i, <3>1, <3>4 DEF InSession
    <3>6. \A action, resume : CommandFits(action, resume) => (CommandFits(action, resume))'
      BY <3>1, <3>2 DEF CommandFits, InSession
    <3>7. ASSUME NEW s \in Epochs PROVE (WorkerTalks(worker[s]))'
      <4>1. WorkerTalks(worker[s]) /\ Shaped(worker[s])
        BY <1>3 DEF WorkersTalk, TalkInv
      <4>2. (WorkerFits(worker[s]))'
        BY <1>o, <3>1, <3>2, <4>1
           DEF WorkerTalks, WorkerFits, PreparesNow, Lives, Prepared, InSession, Shaped
      <4>3. (QueueFits(worker[s]))'
        BY <1>o, <3>1, <3>2, <4>1 DEF WorkerTalks, QueueFits, CommandFits, InSession, Lives
      <4>4. (SeekIsFirst(worker[s]))'
        BY <1>o, <4>1 DEF WorkerTalks, SeekIsFirst, Lives
      <4> QED
        BY <4>2, <4>3, <4>4 DEF WorkerTalks
    <3>8. ASSUME NEW i \in 1 .. Len(results), ResultFits(i), results[i].epoch = epoch
          PROVE  /\ results[i].effect # "BeginPrepare"
                 /\ results[i].effect \in PlayEffects =>
                       (CommandFits(results[i].effect, results[i].resume))'
      <4>1. i \in 1 .. Len(results') /\ results'[i] = results[i]
        BY <1>2, EntryTypes, AppendEntries
      <4> QED
        BY <3>1, <3>2, <3>8, <4>1 DEF ResultFits, CommandFits, InSession
    <3>9. ResultsFit'
      BY <1>2, <1>3, <1>o, <2>r, <3>1, <3>8, ResultsGrow
    <3> QED
      BY <2>1, <3>5, <3>7, <3>9 DEF WorkersTalk
  <2>7. CASE FailsPlayer(m, r)
    <3>1. epoch' = epoch + 1
      BY <2>7 DEF FailsPlayer
    <3> QED
      BY <1>o, <3>1, EntryTypes
  <2> QED
    BY <1>1, <2>3, <2>4, <2>5, <2>6, <2>7 DEF ControlMove, CompletesStage
<1> QED
  <2>1. epoch' = epoch + 1 \/ epoch' = epoch
    BY <1>1 DEF ControlMove, Accepts, LeavesPlayer, CompletesStage, FailsPlayer, KeepPlayer
  <2> QED
    BY <1>n, <1>o, <2>1

(* Every step of every thread leaves only work that fits. *)
LEMMA TalkNext == TypeOK /\ OwnershipInv /\ FreshInv /\ TalkInv /\ [Next]_vars => TalkInv'
<1> SUFFICES ASSUME TypeOK, OwnershipInv, FreshInv, TalkInv, [Next]_vars PROVE TalkInv'
  OBVIOUS
<1>1. CASE EngineStart \/ ShutdownJoin
  BY <1>1, PostKeepsTalk DEF EngineStart, ShutdownJoin
<1>2. CASE UserSend
  BY <1>2, PostKeepsTalk, UserCommandsAssumption DEF UserSend
<1>3. CASE ShutdownBegin
  <2>1. "Release" \in Commands
    BY DEF Commands
  <2> QED
    BY <1>3, <2>1, PostKeepsTalk DEF ShutdownBegin
<1>4. CASE ControlThread
  <2>1. CASE ControlReceive
    BY <1>4, <2>1, ControlKeepsTalk DEF ControlThread
  <2>2. CASE ControlDisconnect
    BY <1>4, <2>2 DEF ControlThread, ControlDisconnect, TalkInv, ControlAlive, Shaped
  <2> QED
    BY <1>4, <2>1, <2>2 DEF ControlThread
<1>5. CASE EffectThread
  BY <1>5, ReceiveKeepsTalk, JoinedKeepsTalk DEF EffectThread
<1>6. ASSUME NEW s \in Epochs, WorkerThread(s) PROVE TalkInv'
  BY <1>6, WorkerKeepsTalk, OwnershipImplies DEF WorkerThread
<1>7. CASE UNCHANGED vars
  BY <1>7, PostKeepsTalk DEF vars
<1> QED
  BY <1>1, <1>2, <1>3, <1>4, <1>5, <1>6, <1>7 DEF Next, Stopped

(* At the start nothing is under way. *)
LEMMA TalkInit == Init => TalkInv
<1> SUFFICES ASSUME Init PROVE TalkInv
  OBVIOUS
<1>1. inbox = <<>> /\ results = <<>>
  BY DEF Init, ControlInit
<1>2. \A s \in Epochs : worker[s] = Absent
  BY DEF Init, WorkerInit
<1>3. /\ Absent.phase = "absent" /\ Absent.pipeline = NoPipeline /\ ~Absent.running
      /\ ~Absent.reported
  BY DEF Absent
<1>4. \A s \in Epochs : Shaped(worker[s]) /\ WorkerTalks(worker[s])
  BY <1>2, <1>3 DEF Shaped, WorkerTalks, WorkerFits, QueueFits, SeekIsFirst, PreparesNow,
                    PrepPhases, Lives
<1>5. InboxFits /\ InboxOrdered /\ ResultsFit
  BY <1>1 DEF InboxFits, InboxOrdered, ResultsFit
<1> QED
  BY <1>4, <1>5 DEF TalkInv, WorkersTalk

(* The work under way always fits the player. *)
LEMMA TalkAlways == Spec => []TalkInv
<1>1. TypeOK /\ OwnershipInv /\ FreshInv /\ TalkInv /\ [Next]_vars => TalkInv'
  BY TalkNext
<1> QED
  BY <1>1, TalkInit, TypeCorrect, OwnershipAlways, FreshAlways, PTL DEF Spec

(* The first message, when it is of the current epoch, fits the player. *)
LEMMA FirstMessageFits ==
    ASSUME TypeOK, InboxFits, inbox # <<>>, IsCurrent(Head(inbox))
    PROVE  LET t == Head(inbox).type IN
           /\ t \in {"DurationChanged", "PreparationCompleted"} => state = "Preparing"
           /\ t = "SeekCompleted" => state \in {"Ready", "Playing", "Paused"}
           /\ t = "PlaybackCompleted" => state \in {"Playing", "Paused"}
           /\ t = "AudioProgress" => state \in {"Ready", "Playing", "Paused", "Ended"}
<1>1. Head(inbox) = inbox[1] /\ 1 \in 1 .. Len(inbox) /\ 1 .. 1 - 1 = {}
  BY EntryTypes, TailEntries
<1>2. inbox[1].epoch = epoch
  BY <1>1 DEF IsCurrent
<1> QED
  BY <1>1, <1>2 DEF InboxFits, InSession

(***************************************************************************)
(* No order in which commands, completions and failures overtake each      *)
(* other makes the control loop stop with UnexpectedWorkEvent: only the    *)
(* end of the epoch counter does.  A completion of the current epoch finds *)
(* the state it completes (TalkInv), a failure a player that can fail.     *)
(***************************************************************************)
THEOREM FatalErrorsAreOverflows == Spec => []FatalOnlyAtEpochLimit
<1>1. Init => FatalOnlyAtEpochLimit
  BY DEF Init, ControlInit, FatalOnlyAtEpochLimit
<1>2. TypeOK /\ FreshInv /\ TalkInv /\ FatalOnlyAtEpochLimit /\ [Next]_vars => FatalOnlyAtEpochLimit'
  <2> SUFFICES ASSUME TypeOK, FreshInv, TalkInv, FatalOnlyAtEpochLimit, [Next]_vars
               PROVE  FatalOnlyAtEpochLimit'
    OBVIOUS
  <2>1. CASE ControlReceive
    <3>1. PICK r \in Results : Reply(r) /\ r.epoch = epoch' /\ ControlMove(Head(inbox), r)
      BY <2>1, ControlMoves
    <3>2. control' = "FatalControlError" => r.event = "ControlError"
      BY <3>1 DEF Reply
    <3>3. ASSUME r.event = "ControlError" PROVE epoch = MaxEpoch /\ epoch' = epoch
      <4>1. LeavesPlayer(Head(inbox), r)
        BY <3>1, <3>3 DEF ControlMove, Accepts, CompletesStage, FailsPlayer
      <4>2. inbox # <<>> /\ InboxFits /\ state # "Released"
        BY <2>1 DEF ControlReceive, TalkInv, FreshInv
      <4>3. ASSUME IsCurrent(Head(inbox))
            PROVE  ~ \/ Head(inbox).type \in {"PreparationCompleted", "PlaybackCompleted"}
                          /\ ~Legal(state, Head(inbox).type)
                     \/ Head(inbox).type = "Failed" /\ ~Legal(state, "FatalError")
        BY <4>2, <4>3, FirstMessageFits
           DEF Legal, Transition, PlayerStates, CompletableStates
      <4> QED
        BY <3>3, <4>1, <4>3 DEF LeavesPlayer, KeepPlayer
    <3> QED
      BY <3>2, <3>3 DEF FatalOnlyAtEpochLimit
  <2>2. CASE ~ControlReceive
    <3>1. epoch' = epoch /\ (control' = control \/ control' = "InputDisconnected")
      <4>1. CASE EngineStart \/ UserSend \/ ShutdownBegin \/ ShutdownJoin \/ UNCHANGED vars
        BY <4>1 DEF EngineStart, UserSend, ShutdownBegin, ShutdownJoin, vars
      <4>2. CASE ControlThread
        BY <2>2, <4>2 DEF ControlThread, ControlDisconnect
      <4>3. CASE EffectThread
        BY <4>3 DEF EffectThread, EffectReceive, EffectJoined
      <4>4. ASSUME NEW s \in Epochs, WorkerThread(s)
            PROVE  epoch' = epoch /\ (control' = control \/ control' = "InputDisconnected")
        BY <4>4 DEF WorkerThread, WorkerNext
      <4> QED
        BY <4>1, <4>2, <4>3, <4>4 DEF Next, Stopped
    <3> QED
      BY <3>1 DEF FatalOnlyAtEpochLimit
  <2> QED
    BY <2>1, <2>2
<1> QED
  BY <1>1, <1>2, TypeCorrect, FreshAlways, TalkAlways, PTL DEF Spec

(* Progress that waits to be told: the state in which the control thread met it. *)
EventFits ==
    \A i \in 1 .. Len(results) :
        /\ results[i].event = "DurationChanged" => results[i].before = "Preparing"
        /\ results[i].event = "SeekCompleted" => results[i].before \in {"Ready", "Playing", "Paused"}
        /\ results[i].event = "AudioProgress" =>
              results[i].before \in {"Ready", "Playing", "Paused", "Ended"}

(* The control thread forwards progress of the current epoch only. *)
LEMMA EventNext == TypeOK /\ TalkInv /\ EventFits /\ [Next]_vars => EventFits'
<1> SUFFICES ASSUME TypeOK, TalkInv, EventFits, [Next]_vars PROVE EventFits'
  OBVIOUS
<1>u. results' = results => EventFits'
  BY DEF EventFits
<1>1. CASE ControlReceive
  <2>1. PICK r \in Results : /\ Reply(r)
                             /\ r.before = state
                             /\ ControlMove(Head(inbox), r)
    BY <1>1, ControlMoves
  <2>2. inbox # <<>> /\ InboxFits
    BY <1>1 DEF ControlReceive, TalkInv
  <2>3. r.event \in {"DurationChanged", "SeekCompleted", "AudioProgress"} =>
           r.event = Head(inbox).type /\ IsCurrent(Head(inbox))
    BY <2>1 DEF ControlMove, Accepts, LeavesPlayer, CompletesStage, FailsPlayer
  <2>4. /\ r.event = "DurationChanged" => r.before = "Preparing"
        /\ r.event = "SeekCompleted" => r.before \in {"Ready", "Playing", "Paused"}
        /\ r.event = "AudioProgress" => r.before \in {"Ready", "Playing", "Paused", "Ended"}
    BY <2>1, <2>2, <2>3, FirstMessageFits
  <2>5. \/ results' = results
        \/ /\ Len(results) \in Nat /\ Len(results') = Len(results) + 1
           /\ results'[Len(results) + 1] = r
           /\ \A i \in 1 .. Len(results) : results'[i] = results[i]
    BY <2>1, ControlAppends
  <2>6. CASE results' # results
    <3>1. \A i \in 1 .. Len(results') : i \in 1 .. Len(results) \/ results'[i] = r
      BY <2>5, <2>6
    <3> QED
      BY <2>4, <2>5, <2>6, <3>1 DEF EventFits
  <2> QED
    BY <1>u, <2>6
<1>2. CASE EffectReceive
  <2>1. results \in Seq(Results) /\ results # <<>> /\ results' = Tail(results)
    BY <1>2, EffectMoves
  <2>2. \A i \in 1 .. Len(results') : i + 1 \in 1 .. Len(results) /\ results'[i] = results[i + 1]
    BY <2>1, TailEntries
  <2> QED
    BY <2>2 DEF EventFits
<1>3. CASE ~ControlReceive /\ ~EffectReceive
  <2>1. results' = results
    BY <1>3 DEF Next, EngineStart, UserSend, ShutdownBegin, ShutdownJoin, ControlThread,
                ControlDisconnect, EffectThread, EffectJoined, WorkerThread, WorkerNext, Stopped, vars
  <2> QED
    BY <1>u, <2>1
<1> QED
  BY <1>1, <1>2, <1>3

(***************************************************************************)
(* Progress is told in its place.  It was current when the control thread  *)
(* read it (TalkInv), and the chain of events brings the user to that very *)
(* state before the result is delivered (ChainInv).                        *)
(***************************************************************************)
THEOREM ProgressIsToldInContext == Spec => ProgressInContext
<1>1. Init => EventFits /\ ChainInv /\ StepsAreLegal /\ Listening
  BY DEF Init, ControlInit, EffectInit, EventFits, ChainInv, QuietResults, Chain, StepsAreLegal,
         Listening
<1>2. TypeOK /\ TalkInv /\ EventFits /\ [Next]_vars => EventFits'
  BY EventNext
<1>3. TypeOK /\ ChainInv /\ [Next]_vars => ChainInv'
  BY ChainNext
<1>4. TypeOK /\ FreshInv /\ StepsAreLegal /\ Listening /\ [Next]_vars
        => StepsAreLegal' /\ Listening'
  BY LegalNext
<1>5. TypeOK /\ TypeOK' /\ EventFits /\ ChainInv /\ Listening =>
         (effect = "receiving" /\ Len(results') < Len(results) =>
            /\ Head(results).event = "DurationChanged" => seen = "Preparing"
            /\ Head(results).event = "SeekCompleted" => seen \in {"Ready", "Playing", "Paused"}
            /\ Head(results).event = "AudioProgress" =>
                  seen \in {"Ready", "Playing", "Paused", "Ended"})
  <2> SUFFICES ASSUME TypeOK, TypeOK', EventFits, ChainInv, Listening,
                      effect = "receiving", Len(results') < Len(results)
               PROVE  /\ Head(results).event = "DurationChanged" => seen = "Preparing"
                      /\ Head(results).event = "SeekCompleted" =>
                            seen \in {"Ready", "Playing", "Paused"}
                      /\ Head(results).event = "AudioProgress" =>
                            seen \in {"Ready", "Playing", "Paused", "Ended"}
    OBVIOUS
  <2>1. results # <<>>
    <3>1. Len(results') \in Nat
      BY DEF TypeOK, ChannelsTypeOK
    <3> QED
      BY <3>1
  <2>2. Head(results) = results[1] /\ 1 \in 1 .. Len(results)
    BY <2>1, EntryTypes, TailEntries
  <2>3. Head(results).before = seen
    BY <2>1, SeenIsBefore
  <2> QED
    BY <2>2, <2>3 DEF EventFits
<1> QED
  BY <1>1, <1>2, <1>3, <1>4, <1>5, TypeCorrect, FreshAlways, TalkAlways, PTL
     DEF Spec, ProgressInContext

-----------------------------------------------------------------------------
(***************************************************************************)
(* One session.  The results on their way to the effect thread link the    *)
(* epoch of the last work it handed out to the controller's epoch; what    *)
(* the user has seen says whether there is a worker.                       *)
(***************************************************************************)

(* The effects that open the epoch they carry. *)
Opens(r) == r.effect \in {"Seek", "Stop", "Release", "CleanupAfterFailure"}
EpochBefore(r) == IF Opens(r) THEN r.epoch - 1 ELSE r.epoch

(* The epoch the effect thread has come to. *)
Delivered == IF results = <<>> THEN epoch ELSE EpochBefore(results[1])

EpochChain ==
    results # <<>> =>
        /\ results[Len(results)].epoch = epoch
        /\ \A i \in 1 .. Len(results) - 1 : results[i].epoch = EpochBefore(results[i + 1])

(* Which effects come with which change of the player state. *)
ResultLegal(r) ==
    /\ r.event = "ControlError" => r.effect = "None"
    /\ r.effect = "BeginPrepare" => r.before = "Idle" /\ r.after = "Preparing"
    /\ r.effect \in PlayEffects =>
          /\ r.before \in {"Ready", "Playing", "Paused", "Ended"}
          /\ r.after \in {"Ready", "Playing", "Paused"}
    /\ r.effect = "Stop" => r.after = "Idle"
    /\ r.effect = "CleanupAfterFailure" => r.after = "Error"
    /\ r.effect = "None" =>
          \/ r.before = r.after
          \/ r.before = "Preparing" /\ r.after = "Ready"
          \/ r.before \in {"Playing", "Paused"} /\ r.after = "Ended"

ResultsLegal == \A i \in 1 .. Len(results) : ResultLegal(results[i])

(* The worker's commands continue from its epoch; a Seek goes beyond. *)
Follows(e, c) == IF c.action = "Seek" THEN c.epoch > e ELSE c.epoch = e

QueueLinked(w) ==
    \A i \in 1 .. Len(w.queue) :
        Follows(IF i = 1 THEN w.feedback ELSE w.queue[i - 1].epoch, w.queue[i])

LastEpoch(w) == IF w.queue = <<>> THEN w.feedback ELSE w.queue[Len(w.queue)].epoch

HandleAtEpoch ==
    effect = "receiving" /\ handle # NoSession /\ Live(handle) =>
        LastEpoch(worker[handle]) = Delivered

EpochInv ==
    /\ ResultsLegal
    /\ EffectAlive => EpochChain
    /\ \A s \in Epochs : QueueLinked(worker[s])
    /\ HandleAtEpoch

(* The control thread sends what is legal, in the epoch that follows. *)
LEMMA ControlSendsLegally ==
    ASSUME NEW m, NEW r, ControlMove(m, r), epoch \in Int,
           r.before = state, r.after = state', r.epoch = epoch'
    PROVE  ResultLegal(r) /\ EpochBefore(r) = epoch
<1>1. CASE Accepts(m, r)
  <2>1. /\ m.type \in Commands /\ Transition(state, ActionOf[m.type], state')
        /\ epoch' = IF m.type \in InvalidatingCommands THEN epoch + 1 ELSE epoch
        /\ r.event \in {"StateChanged", "None"}
        /\ r.effect = EffectOf[m.type]
    BY <1>1 DEF Accepts
  <2>2. Opens(r) <=> m.type \in InvalidatingCommands
    BY <2>1 DEF Opens, InvalidatingCommands, EffectOf, Commands
  <2>3. ResultLegal(r)
    BY <2>1 DEF ResultLegal, EffectOf, ActionOf, Commands, PlayEffects, Transition
  <2> QED
    BY <2>1, <2>2, <2>3 DEF EpochBefore
<1>2. CASE LeavesPlayer(m, r)
  BY <1>2 DEF LeavesPlayer, KeepPlayer, ResultLegal, PlayEffects, EpochBefore, Opens
<1>3. CASE CompletesStage(m, r)
  BY <1>3 DEF CompletesStage, Transition, CompletableStates, ResultLegal, PlayEffects,
              EpochBefore, Opens
<1>4. CASE FailsPlayer(m, r)
  BY <1>4 DEF FailsPlayer, ResultLegal, PlayEffects, EpochBefore, Opens
<1> QED
  BY <1>1, <1>2, <1>3, <1>4 DEF ControlMove

(* The chain of epochs grows at its end. *)
LEMMA EpochChainGrows ==
    ASSUME TypeOK, EpochChain, NEW r \in Results, results' = Append(results, r),
           r.epoch = epoch', EpochBefore(r) = epoch
    PROVE  EpochChain' /\ Delivered' = Delivered
<1>1. /\ Len(results) \in Nat /\ Len(results') = Len(results) + 1
      /\ results' # <<>> /\ results'[Len(results) + 1] = r
      /\ \A i \in 1 .. Len(results) : results'[i] = results[i]
  BY EntryTypes, AppendEntries
<1>e. results = <<>> <=> Len(results) = 0
  BY EntryTypes
<1>2. EpochChain'
  <2>1. ASSUME NEW i \in 1 .. Len(results') - 1
        PROVE  results'[i].epoch = EpochBefore(results'[i + 1])
    <3>1. CASE i = Len(results)
      BY <1>1, <1>e, <3>1 DEF EpochChain
    <3>2. CASE i \in 1 .. Len(results) - 1
      <4>1. i + 1 \in 1 .. Len(results) /\ i \in 1 .. Len(results)
        BY <1>1, <3>2
      <4> QED
        BY <1>1, <1>e, <3>2, <4>1 DEF EpochChain
    <3> QED
      BY <1>1, <3>1, <3>2
  <2> QED
    BY <1>1, <2>1 DEF EpochChain, EpochBefore, Opens
<1>3. Delivered' = Delivered
  <2>1. CASE results = <<>>
    <3>1. results'[1] = r
      BY <1>1, <1>e, <2>1
    <3> QED
      BY <1>1, <2>1, <3>1 DEF Delivered, EpochBefore, Opens
  <2>2. CASE results # <<>>
    <3>1. results'[1] = results[1]
      BY <1>1, <1>e, <2>2
    <3> QED
      BY <1>1, <2>2, <3>1 DEF Delivered, EpochBefore, Opens
  <2> QED
    BY <2>1, <2>2
<1> QED
  BY <1>2, <1>3

(* It is read from its start. *)
LEMMA EpochChainShrinks ==
    ASSUME TypeOK, EpochChain, results # <<>>, results' = Tail(results), epoch' = epoch
    PROVE  EpochChain' /\ Delivered' = results[1].epoch /\ Delivered = EpochBefore(results[1])
<1>1. /\ Len(results) \in Nat /\ Len(results) >= 1 /\ Len(results') = Len(results) - 1
      /\ results' \in Seq(Results)
      /\ \A i \in 1 .. Len(results) - 1 : results'[i] = results[i + 1]
  BY EntryTypes, TailEntries
<1>e. results' = <<>> <=> Len(results') = 0
  <2>1. \A q \in Seq(Results) : q = <<>> <=> Len(q) = 0
    OBVIOUS
  <2> QED
    BY <1>1, <2>1
<1>2. EpochChain'
  <2>1. ASSUME results' # <<>> PROVE results'[Len(results')].epoch = epoch
    BY <1>1, <1>e, <2>1 DEF EpochChain
  <2>2. ASSUME NEW i \in 1 .. Len(results') - 1
        PROVE  results'[i].epoch = EpochBefore(results'[i + 1])
    <3>1. /\ results'[i] = results[i + 1] /\ results'[i + 1] = results[(i + 1) + 1]
          /\ i + 1 \in 1 .. Len(results) - 1
      BY <1>1
    <3> QED
      BY <3>1 DEF EpochChain
  <2> QED
    BY <2>1, <2>2 DEF EpochChain, EpochBefore, Opens
<1>3. Delivered' = results[1].epoch
  <2>1. CASE Len(results') = 0
    BY <1>1, <1>e, <2>1 DEF EpochChain, Delivered
  <2>2. CASE Len(results') # 0
    <3>1. 1 \in 1 .. Len(results) - 1 /\ results'[1] = results[1 + 1]
      BY <1>1, <2>2
    <3>2. results[1].epoch = EpochBefore(results[1 + 1])
      BY <3>1 DEF EpochChain
    <3> QED
      BY <1>e, <2>2, <3>1, <3>2 DEF Delivered, EpochBefore, Opens
  <2> QED
    BY <2>1, <2>2
<1> QED
  BY <1>2, <1>3 DEF Delivered

(* A worker that takes a command stays linked, and has as far to go as before. *)
LEMMA QueueStaysLinked ==
    ASSUME NEW w \in Workers, NEW v \in Workers, QueueLinked(w)
    PROVE  /\ v.queue = <<>> => QueueLinked(v)
           /\ SameQueue(w, v) \/ TakesCommand(w, v) =>
                 QueueLinked(v) /\ LastEpoch(v) = LastEpoch(w)
<1>1. v.queue = <<>> => QueueLinked(v)
  BY DEF QueueLinked
<1>2. SameQueue(w, v) => QueueLinked(v) /\ LastEpoch(v) = LastEpoch(w)
  BY DEF SameQueue, QueueLinked, LastEpoch
<1>3. ASSUME TakesCommand(w, v) PROVE QueueLinked(v) /\ LastEpoch(v) = LastEpoch(w)
  <2>1. w.queue # <<>> /\ v.feedback = Head(w.queue).epoch /\ v.queue = Tail(w.queue)
    BY <1>3 DEF TakesCommand
  <2>2. w.queue \in Seq(WorkerCommands) /\ v.queue \in Seq(WorkerCommands)
    BY DEF Workers
  <2>3. /\ Len(w.queue) \in Nat /\ Len(w.queue) >= 1 /\ Len(v.queue) = Len(w.queue) - 1
        /\ Head(w.queue) = w.queue[1]
        /\ \A i \in 1 .. Len(w.queue) - 1 : v.queue[i] = w.queue[i + 1]
    BY <2>1, <2>2, TailEntries
  <2>4. v.queue = <<>> <=> Len(v.queue) = 0
    BY <2>2
  <2>5. ASSUME NEW i \in 1 .. Len(v.queue)
        PROVE  Follows(IF i = 1 THEN v.feedback ELSE v.queue[i - 1].epoch, v.queue[i])
    <3>1. /\ i + 1 \in 1 .. Len(w.queue) /\ i + 1 # 1 /\ (i + 1) - 1 = i
          /\ v.queue[i] = w.queue[i + 1]
      BY <2>3
    <3>2. Follows(w.queue[i].epoch, w.queue[i + 1])
      BY <3>1 DEF QueueLinked
    <3>3. i # 1 => v.queue[i - 1] = w.queue[i]
      <4>1. i # 1 => i - 1 \in 1 .. Len(w.queue) - 1 /\ (i - 1) + 1 = i
        BY <2>3
      <4> QED
        BY <2>3, <4>1
    <3> QED
      BY <2>1, <2>3, <3>1, <3>2, <3>3
  <2>6. LastEpoch(v) = LastEpoch(w)
    <3>1. CASE Len(v.queue) = 0
      BY <2>1, <2>3, <2>4, <3>1 DEF LastEpoch
    <3>2. CASE Len(v.queue) # 0
      <4> DEFINE n == Len(v.queue)
                 k == Len(w.queue)
      <4>0. n \in 1 .. k - 1 /\ n + 1 = k
        <5>1. k \in Nat /\ k >= 1 /\ n = k - 1 /\ n # 0
          BY <2>3, <3>2
        <5> HIDE DEF n, k
        <5> QED
          BY <5>1
      <4>1. v.queue[Len(v.queue)] = w.queue[Len(w.queue)]
        <5>1. v.queue[Len(v.queue)] = w.queue[Len(v.queue) + 1]
          BY <2>3, <4>0
        <5> QED
          BY <4>0, <5>1
      <4> QED
        BY <2>1, <2>4, <3>2, <4>1 DEF LastEpoch
    <3> QED
      BY <3>1, <3>2
  <2> QED
    BY <2>5, <2>6 DEF QueueLinked
<1> QED
  BY <1>1, <1>2, <1>3

(* A command that follows the last one is linked. *)
LEMMA QueueGrowsLinked ==
    ASSUME NEW w \in Workers, NEW v \in Workers, QueueLinked(w), NEW c \in WorkerCommands,
           v.feedback = w.feedback, v.queue = Append(w.queue, c), Follows(LastEpoch(w), c)
    PROVE  QueueLinked(v) /\ LastEpoch(v) = c.epoch
<1> DEFINE q == w.queue
           p == v.queue
<1>1. q \in Seq(WorkerCommands)
  BY DEF Workers
<1>2. /\ p # <<>> /\ Len(q) \in Nat /\ Len(p) = Len(q) + 1
      /\ p[Len(q) + 1] = c
      /\ \A i \in 1 .. Len(q) : p[i] = q[i]
  BY <1>1, AppendEntries
<1>3. q = <<>> <=> Len(q) = 0
  BY <1>1
<1> HIDE DEF q, p
<1>4. ASSUME NEW i \in 1 .. Len(p)
      PROVE  Follows(IF i = 1 THEN v.feedback ELSE p[i - 1].epoch, p[i])
  <2>1. CASE i \in 1 .. Len(q)
    <3>1. i # 1 => i - 1 \in 1 .. Len(q)
      BY <1>2, <2>1
    <3>2. Follows(IF i = 1 THEN w.feedback ELSE q[i - 1].epoch, q[i])
      BY <2>1 DEF QueueLinked, q
    <3> QED
      BY <1>2, <2>1, <3>1, <3>2
  <2>2. CASE i = Len(q) + 1
    <3>1. i # 1 => i - 1 = Len(q) /\ Len(q) \in 1 .. Len(q)
      BY <1>2, <2>2
    <3>2. LastEpoch(w) = IF i = 1 THEN v.feedback ELSE p[i - 1].epoch
      BY <1>2, <1>3, <2>2, <3>1 DEF LastEpoch, q
    <3> QED
      BY <1>2, <2>2, <3>2
  <2> QED
    BY <1>2, <2>1, <2>2
<1>5. LastEpoch(v) = c.epoch
  BY <1>2 DEF LastEpoch, p
<1> QED
  BY <1>4, <1>5 DEF QueueLinked, p

(* Every thread keeps the chain of epochs. *)
LEMMA ControlKeepsEpochs ==
    ASSUME TypeOK, EpochInv, ControlReceive, UNCHANGED <<worker, handle>>
    PROVE  EpochInv'
<1>1. PICK r \in Results :
          /\ Reply(r)
          /\ r.before = state /\ r.after = state' /\ r.epoch = epoch'
          /\ ControlMove(Head(inbox), r)
  BY ControlMoves
<1>2. ResultLegal(r) /\ EpochBefore(r) = epoch
  BY <1>1, EntryTypes, ControlSendsLegally
<1>3. effect' = effect /\ (EffectAlive' <=> EffectAlive)
  BY DEF ControlReceive, EffectAlive
<1>4. results' = IF EffectAlive THEN Append(results, r) ELSE results
  BY <1>1 DEF Reply
<1>5. ResultsLegal'
  <2>1. \/ results' = results
        \/ /\ Len(results) \in Nat /\ Len(results') = Len(results) + 1
           /\ results'[Len(results) + 1] = r
           /\ \A i \in 1 .. Len(results) : results'[i] = results[i]
    BY <1>1, ControlAppends
  <2>2. CASE results' = results
    BY <2>2 DEF EpochInv, ResultsLegal, ResultLegal
  <2>3. CASE results' # results
    <3>1. \A i \in 1 .. Len(results') :
             results'[i] = r \/ (i \in 1 .. Len(results) /\ results'[i] = results[i])
      BY <2>1, <2>3
    <3>2. ASSUME NEW i \in 1 .. Len(results') PROVE ResultLegal(results'[i])
      BY <1>2, <3>1 DEF EpochInv, ResultsLegal
    <3> QED
      BY <3>2 DEF ResultsLegal, ResultLegal
  <2> QED
    BY <2>2, <2>3
<1>6. EffectAlive => EpochChain' /\ Delivered' = Delivered
  BY <1>1, <1>2, <1>4, EpochChainGrows DEF EpochInv
<1>7. \A s \in Epochs : (QueueLinked(worker[s]))'
  BY DEF EpochInv, QueueLinked, Follows
<1>8. HandleAtEpoch'
  <2>1. effect = "receiving" => EffectAlive
    BY DEF EffectAlive, EffectExits
  <2> QED
    BY <1>3, <1>6, <2>1 DEF EpochInv, HandleAtEpoch, Live, LastEpoch
<1> QED
  BY <1>3, <1>5, <1>6, <1>7, <1>8 DEF EpochInv

(* The effect thread takes the head of the chain, and a command it hands over goes behind it. *)
LEMMA EffectKeepsEpochs ==
    ASSUME TypeOK, OwnershipInv, EpochInv, EffectReceive, UNCHANGED <<state, epoch>>
    PROVE  EpochInv'
<1> DEFINE r == Head(results)
<1>1. /\ effect = "receiving" /\ results # <<>> /\ results' = Tail(results)
      /\ r \in Results /\ EffectMove(r)
  BY EffectMoves
<1>2. EffectAlive /\ EpochChain
  BY <1>1 DEF EffectAlive, EffectExits, EpochInv
<1>3. r = results[1]
  BY <1>1, EntryTypes, TailEntries
<1>4. EpochChain' /\ Delivered' = r.epoch /\ Delivered = EpochBefore(r)
  BY <1>1, <1>2, <1>3, EpochChainShrinks
<1>5. ResultsLegal'
  <2>1. \A i \in 1 .. Len(results') : i + 1 \in 1 .. Len(results) /\ results'[i] = results[i + 1]
    BY <1>1, EntryTypes, TailEntries
  <2> QED
    BY <2>1 DEF EpochInv, ResultsLegal, ResultLegal
<1>6. r.epoch \in Epochs /\ r.epoch \in Int /\ (handle # NoSession => handle \in Epochs)
  BY <1>1 DEF Results, Epochs, TypeOK, EffectTypeOK
<1>7. ASSUME NEW s \in Epochs PROVE worker[s] \in Workers
  BY DEF TypeOK, WorkerTypeOK
<1>w. worker \in [Epochs -> Workers]
  BY DEF TypeOK, WorkerTypeOK
<1> DEFINE Linked == \A s \in Epochs : QueueLinked(worker[s])
           LinkedNext == \A s \in Epochs : QueueLinked(worker'[s])
           Kept == LinkedNext /\ HandleAtEpoch'
<1>8. Linked /\ HandleAtEpoch
  BY DEF EpochInv
<1> HIDE DEF r
<1>9. Kept
  <2>1. ASSUME UNCHANGED <<worker, handle>>, ~Opens(r) \/ handle = NoSession \/ ~Live(handle)
        PROVE  Kept
    <3>1. LinkedNext
      BY <1>8, <2>1
    <3>2. HandleAtEpoch'
      BY <1>1, <1>4, <1>8, <2>1 DEF HandleAtEpoch, Live, LastEpoch, EpochBefore
    <3> QED
      BY <3>1, <3>2
  <2>2. CASE Ignores(r)
    BY <2>1, <2>2 DEF Ignores, Quiet, Opens
  <2>3. CASE Spawns(r)
    <3>1. worker' = [worker EXCEPT ![r.epoch] = Spawned(r.epoch)] /\ handle' = r.epoch
      BY <2>3 DEF Spawns
    <3>2. worker'[r.epoch] = Spawned(r.epoch) /\ \A s \in Epochs \ {r.epoch} : worker'[s] = worker[s]
      BY <1>6, <1>w, <3>1
    <3>3. Spawned(r.epoch).queue = <<>> /\ Spawned(r.epoch).feedback = r.epoch
      BY DEF Spawned, Absent
    <3>4. QueueLinked(Spawned(r.epoch))
      BY <3>3 DEF QueueLinked
    <3>5. LinkedNext
      BY <1>8, <3>2, <3>4
    <3>6. HandleAtEpoch'
      BY <1>4, <3>1, <3>2, <3>3 DEF HandleAtEpoch, LastEpoch
    <3> QED
      BY <3>5, <3>6
  <2>4. CASE HandsOver(r)
    <3> DEFINE w == worker[handle]
               v == [w EXCEPT !.queue = Append(w.queue, CommandOf(r))]
    <3>1. /\ r.effect \in PlayEffects /\ handle # NoSession /\ Live(handle) /\ handle' = handle
          /\ worker' = [worker EXCEPT ![handle] = v]
      BY <2>4 DEF HandsOver
    <3>2. handle \in Epochs /\ w \in Workers /\ w.queue \in Seq(WorkerCommands)
      BY <1>6, <1>7, <3>1 DEF Workers
    <3>3. CommandOf(r) \in WorkerCommands
      BY <1>1, <3>1 DEF CommandOf, WorkerCommands, PlayEffects, Results
    <3>4. v \in Workers /\ v.feedback = w.feedback /\ v.queue = Append(w.queue, CommandOf(r))
      BY <3>2, <3>3 DEF Workers
    <3>5. LastEpoch(w) = EpochBefore(r)
      BY <1>1, <1>4, <1>8, <3>1 DEF HandleAtEpoch
    <3>6. Follows(LastEpoch(w), CommandOf(r))
      BY <1>6, <3>1, <3>5 DEF Follows, CommandOf, EpochBefore, Opens, PlayEffects
    <3>7. QueueLinked(w)
      BY <1>8, <3>2
    <3>8. worker'[handle] = v /\ \A s \in Epochs \ {handle} : worker'[s] = worker[s]
      BY <1>w, <3>1, <3>2
    <3> HIDE DEF w, v
    <3>9. QueueLinked(v) /\ LastEpoch(v) = CommandOf(r).epoch
      BY <3>2, <3>3, <3>4, <3>6, <3>7, QueueGrowsLinked
    <3>10. LinkedNext
      BY <1>8, <3>8, <3>9
    <3>11. HandleAtEpoch'
      BY <1>4, <3>1, <3>8, <3>9 DEF HandleAtEpoch, LastEpoch, CommandOf
    <3> QED
      BY <3>10, <3>11
  <2>5. CASE Answers(r)
    BY <2>1, <2>5 DEF Answers, Opens
  <2>6. CASE GivesUp(r)
    <3>1. effect' = "joining" /\ handle # NoSession
          /\ worker' = [worker EXCEPT ![handle] = [worker[handle] EXCEPT !.cancel = TRUE]]
      BY <2>6 DEF GivesUp
    <3>2. ASSUME NEW s \in Epochs PROVE SameQueue(worker[s], worker'[s])
      <4>1. worker'[s] = worker[s] \/ worker'[s] = [worker[s] EXCEPT !.cancel = TRUE]
        BY <1>w, <1>6, <3>1
      <4> QED
        BY <1>7, <4>1 DEF SameQueue, Workers
    <3>3. LinkedNext
      BY <1>8, <3>2 DEF SameQueue, QueueLinked
    <3> QED
      BY <3>1, <3>3 DEF HandleAtEpoch
  <2>7. CASE Returns(r)
    BY <1>8, <2>7 DEF Returns, HandleAtEpoch, EffectExits
  <2>8. CASE FindsNobody(r)
    BY <2>1, <2>8 DEF FindsNobody
  <2> QED
    BY <1>1, <2>2, <2>3, <2>4, <2>5, <2>6, <2>7, <2>8 DEF EffectMove
<1>10. \A s \in Epochs : (QueueLinked(worker[s]))'
  BY <1>9 DEF QueueLinked
<1> QED
  BY <1>4, <1>5, <1>9, <1>10 DEF EpochInv

(* A worker that applies a command takes on its epoch; the last epoch stays. *)
LEMMA WorkerKeepsEpochs ==
    ASSUME TypeOK, EpochInv, NEW s \in Epochs, WorkerNext(s), UNCHANGED <<state, epoch, handle>>
    PROVE  EpochInv'
<1> DEFINE w == worker[s]
<1>1. PICK v \in Workers : WorkerMove(s, w, v) /\ worker' = [worker EXCEPT ![s] = v]
  BY WorkerMoves DEF TypeOK
<1>w. w \in Workers /\ QueueLinked(w)
  BY DEF TypeOK, WorkerTypeOK, EpochInv
<1>2. results' = results /\ effect' = effect /\ Live(s)
  BY WorkerStepsAlone DEF WorkerNext
<1>3. worker'[s] = v /\ \A t \in Epochs \ {s} : worker'[t] = worker[t]
  BY <1>1 DEF TypeOK, WorkerTypeOK
<1>4. ResultsLegal' /\ (EffectAlive' => EpochChain') /\ Delivered' = Delivered
  BY <1>2 DEF EpochInv, ResultsLegal, ResultLegal, EffectAlive, EpochChain, EpochBefore, Opens,
              Delivered
<1> HIDE DEF w
<1>5. \/ SameQueue(w, v) \/ TakesCommand(w, v)
      \/ v.queue = <<>> /\ v.phase \in {"panicked", "exited"}
  BY <1>1 DEF WorkerMove, Ends, Fails, Begins, Builds, Prepares, Starts, Pauses, Seeks, Reports,
              Completes, Rests
<1>6. QueueLinked(v) /\ (v.phase \notin {"panicked", "exited"} => LastEpoch(v) = LastEpoch(w))
  BY <1>5, <1>w, QueueStaysLinked
<1>7. \A t \in Epochs : (QueueLinked(worker[t]))'
  <2>1. \A t \in Epochs : QueueLinked(worker'[t])
    BY <1>3, <1>6 DEF EpochInv
  <2> QED
    BY <2>1 DEF QueueLinked
<1>8. HandleAtEpoch'
  <2> SUFFICES ASSUME effect = "receiving", handle # NoSession, Live(handle)'
               PROVE  LastEpoch(worker'[handle]) = Delivered
    BY <1>2, <1>4 DEF HandleAtEpoch, LastEpoch
  <2>1. handle \in Epochs
    BY DEF TypeOK, EffectTypeOK
  <2>2. CASE handle = s
    <3>1. LastEpoch(w) = Delivered
      BY <1>2, <2>2 DEF EpochInv, HandleAtEpoch, w
    <3> QED
      BY <1>3, <1>6, <2>2, <3>1 DEF Live
  <2>3. CASE handle # s
    BY <1>3, <2>1, <2>3 DEF EpochInv, HandleAtEpoch, Live
  <2> QED
    BY <2>2, <2>3
<1> QED
  BY <1>4, <1>7, <1>8 DEF EpochInv

(* After a join no worker is held. *)
LEMMA JoinedKeepsEpochs ==
    ASSUME TypeOK, OwnershipInv, EpochInv, EffectJoined, UNCHANGED <<state, epoch>>
    PROVE  EpochInv'
<1>1. /\ effect = "joining" /\ UNCHANGED <<results, handle>>
      /\ worker' = [worker EXCEPT ![task.session] = Absent]
  BY DEF EffectJoined
<1>2. handle = NoSession
  BY <1>1 DEF OwnershipInv, HandleFitsStage
<1>3. EffectAlive
  BY <1>1 DEF EffectAlive, EffectExits
<1>4. ResultsLegal' /\ EpochChain'
  BY <1>1, <1>3 DEF EpochInv, ResultsLegal, ResultLegal, EpochChain, EpochBefore, Opens
<1>5. \A s \in Epochs : (QueueLinked(worker[s]))'
  <2>1. \A s \in Epochs : worker'[s] = worker[s] \/ worker'[s] = Absent
    BY <1>1 DEF TypeOK, WorkerTypeOK
  <2>2. QueueLinked(Absent)
    BY DEF QueueLinked, Absent
  <2>3. \A s \in Epochs : QueueLinked(worker'[s])
    BY <2>1, <2>2 DEF EpochInv
  <2> QED
    BY <2>3 DEF QueueLinked
<1> QED
  BY <1>1, <1>2, <1>4, <1>5 DEF EpochInv, HandleAtEpoch

(* Every step keeps the chain of epochs. *)
LEMMA EpochNext == TypeOK /\ OwnershipInv /\ EpochInv /\ [Next]_vars => EpochInv'
<1> SUFFICES ASSUME TypeOK, OwnershipInv, EpochInv, [Next]_vars PROVE EpochInv'
  OBVIOUS
<1>1. CASE ControlReceive /\ UNCHANGED <<worker, handle>>
  BY <1>1, ControlKeepsEpochs
<1>2. CASE EffectThread
  BY <1>2, EffectKeepsEpochs, JoinedKeepsEpochs DEF EffectThread
<1>3. ASSUME NEW s \in Epochs, WorkerThread(s) PROVE EpochInv'
  BY <1>3, WorkerKeepsEpochs DEF WorkerThread
<1>4. ASSUME UNCHANGED <<results, epoch, worker, handle>>,
             effect' = effect \/ effect' \in EffectExits
      PROVE  EpochInv'
  <2>1. ResultsLegal' /\ (EffectAlive' => EpochChain') /\ Delivered' = Delivered
    BY <1>4 DEF EpochInv, ResultsLegal, ResultLegal, EffectAlive, EpochChain, EpochBefore, Opens,
                Delivered
  <2>2. \A s \in Epochs : (QueueLinked(worker[s]))'
    BY <1>4 DEF EpochInv, QueueLinked
  <2>3. HandleAtEpoch'
    BY <1>4, <2>1 DEF EpochInv, HandleAtEpoch, Live, LastEpoch, EffectExits
  <2> QED
    BY <2>1, <2>2, <2>3 DEF EpochInv
<1>5. CASE EngineStart \/ UserSend \/ ShutdownBegin \/ ShutdownJoin \/ Stopped \/ UNCHANGED vars
  BY <1>4, <1>5 DEF EngineStart, UserSend, ShutdownBegin, ShutdownJoin, Stopped, vars, EffectExits
<1>6. CASE ControlThread
  BY <1>1, <1>4, <1>6 DEF ControlThread, ControlDisconnect
<1> QED
  BY <1>2, <1>3, <1>5, <1>6 DEF Next

(* The epochs are linked in every state of the runtime. *)
LEMMA EpochAlways == Spec => []EpochInv
<1>1. Init => EpochInv
  <2> SUFFICES ASSUME Init PROVE EpochInv
    OBVIOUS
  <2>1. results = <<>> /\ handle = NoSession /\ \A s \in Epochs : worker[s] = Absent
    BY DEF Init, ControlInit, EffectInit, WorkerInit
  <2>2. QueueLinked(Absent)
    BY DEF QueueLinked, Absent
  <2> QED
    BY <2>1, <2>2 DEF EpochInv, ResultsLegal, EpochChain, HandleAtEpoch
<1>2. TypeOK /\ OwnershipInv /\ EpochInv /\ [Next]_vars => EpochInv'
  BY EpochNext
<1> QED
  BY <1>1, <1>2, TypeCorrect, OwnershipAlways, PTL DEF Spec

-----------------------------------------------------------------------------
(* What the user has seen says whether the effect thread holds a worker. *)
SeenFitsHandle ==
    effect = "receiving" =>
        /\ seen \in {"Idle", "Error"} => handle = NoSession
        /\ seen \in {"Ready", "Playing", "Paused", "Ended"} => handle # NoSession

JoinFits ==
    effect = "joining" /\ task.why \in {"Stop", "CleanupAfterFailure"} => seen \in {"Idle", "Error"}

(* The effect thread holds a worker, and keeps it over the first n results. *)
Held(n) == effect = "receiving" /\ handle # NoSession /\ \A j \in 1 .. n : Quiet(results[j])

Readies(r) == r.effect = "None" /\ r.before = "Preparing" /\ r.after = "Ready"

(* The worker whose preparation makes the player Ready is held. *)
ReadyIsHeld ==
    EffectAlive => \A i \in 1 .. Len(results) : Readies(results[i]) => Held(i - 1)

UnderPreparation ==
    Arrived("PreparationCompleted") \/ \E s \in Epochs : PreparesNow(worker[s])

PreparationIsHeld == ControlAlive /\ EffectAlive /\ UnderPreparation => Held(Len(results))

EffectInv == SeenFitsHandle /\ JoinFits /\ ReadyIsHeld /\ PreparationIsHeld

(* Nothing else arrives with a message. *)
LEMMA ArrivedGrows ==
    ASSUME TypeOK, epoch' = epoch, NEW t, NEW m \in Messages,
           inbox' = Append(inbox, m), Arrived(t)'
    PROVE  Arrived(t) \/ (m.type = t /\ m.epoch = epoch)
<1>1. PICK i \in 1 .. Len(inbox') : inbox'[i].type = t /\ inbox'[i].epoch = epoch
  BY DEF Arrived
<1>2. /\ Len(inbox) \in Nat /\ Len(inbox') = Len(inbox) + 1
      /\ inbox'[Len(inbox) + 1] = m
      /\ \A k \in 1 .. Len(inbox) : inbox'[k] = inbox[k]
  BY EntryTypes, AppendEntries
<1>3. i = Len(inbox) + 1 \/ i \in 1 .. Len(inbox)
  BY <1>2
<1> QED
  BY <1>1, <1>2, <1>3 DEF Arrived

(* What leaves the results and the handle alone. *)
LEMMA EffectStays ==
    ASSUME TypeOK, EffectInv, UNCHANGED <<seen, handle, task, results>>,
           effect' = effect \/ effect' \in EffectExits,
           ControlAlive' /\ EffectAlive' /\ UnderPreparation' =>
              ControlAlive /\ EffectAlive /\ UnderPreparation
    PROVE  EffectInv'
<1>1. CASE effect' = effect
  <2>1. (EffectAlive' <=> EffectAlive) /\ \A n : Held(n)' <=> Held(n)
    BY <1>1 DEF EffectAlive, Held, Quiet
  <2> QED
    BY <1>1, <2>1 DEF EffectInv, SeenFitsHandle, JoinFits, ReadyIsHeld, Readies, PreparationIsHeld
<1>2. CASE effect' \in EffectExits
  BY <1>2 DEF EffectInv, SeenFitsHandle, JoinFits, ReadyIsHeld, PreparationIsHeld, EffectAlive,
              EffectExits
<1> QED
  BY <1>1, <1>2

(* The effect thread tells the user where each result leads. *)
LEMMA SeenIsAfter ==
    ASSUME TypeOK, ChainInv, Listening, EffectReceive
    PROVE  /\ Head(results).before = seen
           /\ seen' = Head(results).after
<1>1. /\ effect = "receiving" /\ results # <<>>
      /\ seen' = IF Tells(Head(results)) THEN Head(results).after ELSE seen
  BY EffectMoves
<1>2. Head(results).before = seen
  BY <1>1, SeenIsBefore
<1>3. Head(results) = results[1] /\ 1 \in 1 .. Len(results)
  BY <1>1, EntryTypes, TailEntries
<1>4. ~Tells(Head(results)) => Head(results).before = Head(results).after
  BY <1>3 DEF ChainInv, QuietResults
<1> QED
  BY <1>1, <1>2, <1>4

(* A quiet result disturbs nobody. *)
LEMMA QuietIsIgnored ==
    ASSUME NEW r, Quiet(r), EffectMove(r)
    PROVE  UNCHANGED <<inbox, worker, effect, handle, task>>
BY DEF EffectMove, Ignores, Spawns, HandsOver, Answers, GivesUp, Returns, FindsNobody, IsOver,
       Quiet, PlayEffects, ShutdownEffects

(* Receiving a result leaves what the user has seen in keeping with the handle. *)
LEMMA ReceiveKeepsSeen ==
    ASSUME TypeOK, ChainInv, Listening, EpochInv, EffectInv, EffectReceive
    PROVE  SeenFitsHandle' /\ JoinFits'
<1> DEFINE r == Head(results)
<1>1. /\ effect = "receiving" /\ results # <<>> /\ r \in Results /\ EffectMove(r)
  BY EffectMoves
<1>2. r.before = seen /\ seen' = r.after
  BY SeenIsAfter
<1>3. r = results[1] /\ 1 \in 1 .. Len(results)
  BY <1>1, EntryTypes, TailEntries
<1>4. ResultLegal(r) /\ (Readies(r) => handle # NoSession)
  BY <1>1, <1>3 DEF EpochInv, ResultsLegal, EffectInv, ReadyIsHeld, Held, EffectAlive, EffectExits
<1>5. /\ seen \in {"Idle", "Error"} => handle = NoSession
      /\ seen \in {"Ready", "Playing", "Paused", "Ended"} => handle # NoSession
  BY <1>1 DEF EffectInv, SeenFitsHandle
<1>6. \A e : e \in EffectExits => e # "receiving" /\ e # "joining"
  BY DEF EffectExits
<1>7. handle = NoSession \/ handle \in Epochs
  BY DEF TypeOK, EffectTypeOK
<1>8. r.epoch \in Epochs
  BY <1>1 DEF Results
<1> HIDE DEF r
<1>11. CASE Ignores(r)
  BY <1>1, <1>2, <1>4, <1>5, <1>11
     DEF Ignores, Quiet, ResultLegal, Readies, SeenFitsHandle, JoinFits
<1>12. CASE Spawns(r)
  BY <1>1, <1>2, <1>4, <1>12 DEF Spawns, ResultLegal, SeenFitsHandle, JoinFits
<1>13. CASE HandsOver(r)
  BY <1>1, <1>2, <1>4, <1>13 DEF HandsOver, ResultLegal, SeenFitsHandle, JoinFits
<1>14. CASE Answers(r)
  BY <1>1, <1>2, <1>4, <1>5, <1>14 DEF Answers, ResultLegal, SeenFitsHandle, JoinFits
<1>15. CASE GivesUp(r)
  <2>1. effect' = "joining" /\ (task'.why = r.effect \/ task'.why = "Drop")
    BY <1>15 DEF GivesUp
  <2> QED
    BY <1>2, <1>4, <2>1 DEF ResultLegal, SeenFitsHandle, JoinFits
<1>16. CASE Returns(r)
  BY <1>6, <1>16 DEF Returns, SeenFitsHandle, JoinFits
<1>17. CASE FindsNobody(r)
  BY <1>1, <1>2, <1>4, <1>17 DEF FindsNobody, ResultLegal, SeenFitsHandle, JoinFits
<1> QED
  BY <1>1, <1>11, <1>12, <1>13, <1>14, <1>15, <1>16, <1>17 DEF EffectMove

(* And it gives up no worker that is being prepared. *)
LEMMA ReceiveKeepsHeld ==
    ASSUME TypeOK, TalkInv, EffectInv, EffectReceive, epoch' = epoch
    PROVE  ReadyIsHeld' /\ PreparationIsHeld'
<1> DEFINE r == Head(results)
<1>1. /\ effect = "receiving" /\ results # <<>> /\ control' = control /\ results' = Tail(results)
      /\ r \in Results /\ EffectMove(r)
  BY EffectMoves
<1>2. /\ Len(results) \in Nat /\ Len(results) >= 1 /\ Len(results') = Len(results) - 1
      /\ r = results[1]
      /\ \A i \in 1 .. Len(results) - 1 : results'[i] = results[i + 1]
  BY <1>1, EntryTypes, TailEntries
<1>a. EffectAlive /\ (ControlAlive' <=> ControlAlive)
  BY <1>1 DEF EffectAlive, EffectExits, ControlAlive
<1>w. worker \in [Epochs -> Workers] /\ r.epoch \in Epochs
      /\ (handle # NoSession => handle \in Epochs)
  BY <1>1 DEF TypeOK, WorkerTypeOK, EffectTypeOK, Results
<1> HIDE DEF r
<1>3. ASSUME NEW n \in Nat, n + 1 \in 1 .. Len(results), Held(n + 1)
      PROVE  Held(n)' /\ UNCHANGED <<inbox, worker>>
  <2>1. Quiet(r)
    BY <1>2, <1>3 DEF Held
  <2>2. UNCHANGED <<inbox, worker, effect, handle, task>>
    BY <1>1, <2>1, QuietIsIgnored
  <2>3. \A j \in 1 .. n : j + 1 \in 1 .. n + 1 /\ results'[j] = results[j + 1]
    BY <1>2, <1>3
  <2>4. \A j \in 1 .. n : Quiet(results'[j])
    BY <1>3, <2>3 DEF Held
  <2> QED
    BY <1>3, <2>2, <2>4 DEF Held, Quiet
<1>4. ReadyIsHeld'
  <2>1. ASSUME NEW i \in 1 .. Len(results'), Readies(results'[i]) PROVE Held(i - 1)'
    <3>1. /\ i + 1 \in 1 .. Len(results) /\ (i + 1) - 1 = (i - 1) + 1 /\ i - 1 \in Nat
          /\ (i - 1) + 1 \in 1 .. Len(results) /\ results'[i] = results[i + 1]
      BY <1>2
    <3>2. Held((i - 1) + 1)
      BY <1>a, <2>1, <3>1 DEF EffectInv, ReadyIsHeld
    <3> QED
      BY <1>3, <3>1, <3>2
  <2> QED
    BY <2>1 DEF ReadyIsHeld, Readies
<1>5. PreparationIsHeld'
  <2>n. PICK n \in Nat : n + 1 = Len(results) /\ n + 1 \in 1 .. Len(results)
    BY <1>2
  <2> SUFFICES ASSUME ControlAlive, UnderPreparation'
               PROVE  Held(n)'
    <3>1. Len(results') = n
      BY <1>2, <2>n
    <3> QED
      BY <1>a, <3>1 DEF PreparationIsHeld, Held
  <2>1. CASE UnderPreparation
    <3>1. Held(n + 1)
      BY <1>a, <2>1, <2>n DEF EffectInv, PreparationIsHeld
    <3> QED
      BY <1>3, <2>n, <3>1
  <2>2. CASE ~UnderPreparation
    <3>1. ~Arrived("PreparationCompleted")'
      <4>1. CASE inbox' = inbox
        BY <2>2, <4>1 DEF UnderPreparation, Arrived
      <4>2. CASE Answers(r)
        <5>1. PICK s \in Epochs :
                 inbox' = Append(inbox, [type |-> "Failed", epoch |-> r.epoch, session |-> s])
          BY <4>2 DEF Answers
        <5>2. [type |-> "Failed", epoch |-> r.epoch, session |-> s] \in Messages
          BY <1>w DEF Messages, Feedbacks
        <5> QED
          BY <2>2, <5>1, <5>2, ArrivedGrows DEF UnderPreparation
      <4> QED
        BY <1>1, <4>1, <4>2 DEF EffectMove, Ignores, Spawns, HandsOver, GivesUp, Returns,
                                FindsNobody
    <3>2. PICK s \in Epochs : PreparesNow(worker[s])'
      BY <3>1 DEF UnderPreparation
    <3>3. worker'[s].phase \in PrepPhases /\ worker'[s].feedback = epoch
          /\ ~(worker[s].phase \in PrepPhases /\ worker[s].feedback = epoch)
      BY <2>2, <3>2 DEF UnderPreparation, PreparesNow
    <3>4. Spawns(r) /\ s = r.epoch
      <4>1. ASSUME worker' = [worker EXCEPT ![handle] =
                      [worker[handle] EXCEPT !.queue = Append(worker[handle].queue, CommandOf(r))]]
            PROVE  FALSE
        BY <1>w, <3>3, <4>1 DEF Workers
      <4>2. ASSUME worker' = [worker EXCEPT ![handle] = [worker[handle] EXCEPT !.cancel = TRUE]]
            PROVE  FALSE
        BY <1>w, <3>3, <4>2 DEF Workers
      <4>3. worker' # worker
        BY <3>3
      <4>4. Spawns(r)
        BY <1>1, <4>1, <4>2, <4>3 DEF EffectMove, Ignores, HandsOver, Answers, GivesUp, Returns,
                                     FindsNobody
      <4>5. s # r.epoch => worker'[s] = worker[s]
        BY <1>w, <4>4 DEF Spawns
      <4> QED
        BY <3>3, <4>4, <4>5
    <3>5. /\ r.effect = "BeginPrepare" /\ handle' = r.epoch /\ effect' = effect
          /\ worker'[s] = Spawned(r.epoch)
      BY <1>w, <3>4 DEF Spawns
    <3>6. r.epoch = epoch
      BY <3>3, <3>5 DEF Spawned, Absent
    <3>7. \A j \in 2 .. Len(results) : Quiet(results[j])
      <4>1. ResultFits(1) /\ 1 + 1 = 2
        BY <1>2 DEF TalkInv, ResultsFit
      <4> QED
        BY <1>2, <3>5, <3>6, <4>1 DEF ResultFits
    <3>8. \A j \in 1 .. n : Quiet(results'[j])
      <4>1. \A j \in 1 .. n : j + 1 \in 2 .. Len(results) /\ results'[j] = results[j + 1]
        BY <1>2, <2>n
      <4> QED
        BY <3>7, <4>1
    <3> QED
      BY <1>1, <1>w, <3>5, <3>8, NoSessionIsNone DEF Held, Quiet
  <2> QED
    BY <2>1, <2>2
<1> QED
  BY <1>4, <1>5

(* The join is over, and so is the session. *)
LEMMA JoinedKeepsEffect ==
    ASSUME TypeOK, OwnershipInv, EffectInv, EffectJoined, epoch' = epoch
    PROVE  EffectInv'
<1>1. /\ effect = "joining" /\ UNCHANGED <<results, handle, seen, control>>
      /\ worker' = [worker EXCEPT ![task.session] = Absent]
      /\ effect' = "receiving" => task.why \in {"Stop", "CleanupAfterFailure"}
      /\ effect' # "joining"
      /\ \/ inbox' = inbox
         \/ inbox' = Append(inbox, [type |-> "Failed", epoch |-> task.epoch,
                                    session |-> task.session])
  <2>1. task.why \in JoinReasons /\ task.exit \in EffectExits
    BY DEF TypeOK, EffectTypeOK, Tasks
  <2> QED
    BY <2>1 DEF EffectJoined, JoinReasons, EffectExits
<1>2. handle = NoSession /\ EffectAlive
  BY <1>1 DEF OwnershipInv, HandleFitsStage, EffectAlive, EffectExits
<1>3. SeenFitsHandle' /\ JoinFits'
  BY <1>1, <1>2 DEF EffectInv, JoinFits, SeenFitsHandle
<1>4. ReadyIsHeld'
  BY <1>1, <1>2 DEF EffectInv, ReadyIsHeld, Held, Readies
<1>5. PreparationIsHeld'
  <2>1. ControlAlive => ~UnderPreparation
    BY <1>1, <1>2 DEF EffectInv, PreparationIsHeld, Held
  <2>2. ASSUME NEW s \in Epochs, PreparesNow(worker[s])' PROVE PreparesNow(worker[s])
    <3>1. worker'[s] = worker[s] \/ worker'[s] = Absent
      BY <1>1 DEF TypeOK, WorkerTypeOK
    <3> QED
      BY <2>2, <3>1 DEF PreparesNow, PrepPhases, Absent
  <2>3. Arrived("PreparationCompleted")' => Arrived("PreparationCompleted")
    <3>1. [type |-> "Failed", epoch |-> task.epoch, session |-> task.session] \in Messages
      BY DEF TypeOK, EffectTypeOK, Tasks, Messages, Feedbacks
    <3>2. inbox' = inbox => (Arrived("PreparationCompleted")' <=> Arrived("PreparationCompleted"))
      BY DEF Arrived
    <3> QED
      BY <1>1, <3>1, <3>2, ArrivedGrows
  <2>4. UnderPreparation' => UnderPreparation
    BY <2>2, <2>3 DEF UnderPreparation
  <2> QED
    BY <1>1, <2>1, <2>4 DEF PreparationIsHeld, ControlAlive
<1> QED
  BY <1>3, <1>4, <1>5 DEF EffectInv

(* A worker only goes on with the preparation it was spawned for. *)
LEMMA WorkerKeepsEffect ==
    ASSUME TypeOK, EffectInv, NEW s \in Epochs, WorkerNext(s),
           UNCHANGED <<epoch, handle, task, seen>>
    PROVE  EffectInv'
<1> DEFINE w == worker[s]
<1>1. PICK v \in Workers : WorkerMove(s, w, v) /\ worker' = [worker EXCEPT ![s] = v]
  BY WorkerMoves DEF TypeOK
<1>2. UNCHANGED <<results, control, effect>>
  BY DEF WorkerNext
<1>3. worker'[s] = v /\ \A t \in Epochs \ {s} : worker'[t] = worker[t]
  BY <1>1 DEF TypeOK, WorkerTypeOK
<1> HIDE DEF w
<1>4. v.phase \in PrepPhases => w.phase \in PrepPhases /\ v.feedback = w.feedback
  BY <1>1 DEF WorkerMove, Ends, Fails, Begins, Builds, Prepares, Starts, Pauses, Seeks, Reports,
              Completes, Rests, PrepPhases, SameQueue
<1>5. Arrived("PreparationCompleted")' =>
         \/ Arrived("PreparationCompleted")
         \/ w.phase \in PrepPhases /\ w.feedback = epoch
  <2>1. CASE inbox' = inbox
    BY <2>1 DEF Arrived
  <2>2. ASSUME NEW t \in Feedbacks, Says(s, t, v), t = "PreparationCompleted" => Prepares(s, w, v),
               Arrived("PreparationCompleted")'
        PROVE  Arrived("PreparationCompleted") \/ (w.phase \in PrepPhases /\ w.feedback = epoch)
    <3>1. Message(t, v, s) \in Messages /\ inbox' = Append(inbox, Message(t, v, s))
      BY <2>2 DEF Says, Message, Messages, Workers
    <3>2. \/ Arrived("PreparationCompleted")
          \/ t = "PreparationCompleted" /\ v.feedback = epoch
      BY <2>2, <3>1, ArrivedGrows DEF Message
    <3> QED
      BY <2>2, <3>2 DEF Prepares, PrepPhases, SameQueue
  <2>3. \/ inbox' = inbox
        \/ \E t \in Feedbacks :
              Says(s, t, v) /\ (t = "PreparationCompleted" => Prepares(s, w, v))
    <3>1. {"DurationChanged", "PreparationCompleted", "AudioProgress", "SeekCompleted",
           "PlaybackCompleted", "Failed"} = Feedbacks
      BY DEF Feedbacks
    <3>2. CASE Ends(s, w, v) \/ Begins(s, w, v) \/ Starts(s, w, v) \/ Pauses(s, w, v)
               \/ Rests(s, w, v)
      BY <3>2 DEF Ends, Begins, Starts, Pauses, Rests, Silent
    <3>3. CASE Prepares(s, w, v)
      BY <3>1, <3>3 DEF Prepares
    <3>4. CASE Fails(s, w, v) \/ Builds(s, w, v) \/ Seeks(s, w, v) \/ Reports(s, w, v)
               \/ Completes(s, w, v)
      BY <3>1, <3>4 DEF Fails, Builds, Seeks, Reports, Completes
    <3> QED
      BY <1>1, <3>2, <3>3, <3>4 DEF WorkerMove
  <2> QED
    BY <2>1, <2>2, <2>3
<1>6. ASSUME NEW t \in Epochs, PreparesNow(worker[t])' PROVE UnderPreparation
  <2>1. worker'[t].phase \in PrepPhases /\ worker'[t].feedback = epoch
    BY <1>6 DEF PreparesNow
  <2>2. worker[t].phase \in PrepPhases /\ worker[t].feedback = epoch
    BY <1>3, <1>4, <2>1 DEF w
  <2> QED
    BY <2>2 DEF UnderPreparation, PreparesNow
<1>7. UnderPreparation' => UnderPreparation
  BY <1>5, <1>6 DEF UnderPreparation, PreparesNow, w
<1> QED
  BY <1>2, <1>7, EffectStays DEF ControlAlive, EffectAlive

(* The control thread sends nothing that ends a preparation, and stays in its epoch. *)
LEMMA ControlKeepsEffect ==
    ASSUME TypeOK, FreshInv, TalkInv, EffectInv, ControlReceive,
           UNCHANGED <<worker, handle, task, seen>>
    PROVE  EffectInv'
<1> DEFINE m == Head(inbox)
<1>1. PICK r \in Results :
          /\ Reply(r)
          /\ r.before = state /\ r.after = state' /\ r.epoch = epoch'
          /\ ControlMove(m, r)
  BY ControlMoves
<1>2. /\ ControlAlive /\ inbox # <<>> /\ effect' = effect /\ (EffectAlive' <=> EffectAlive)
  BY DEF ControlReceive, EffectAlive
<1>3. results' = IF EffectAlive THEN Append(results, r) ELSE results
  BY <1>1 DEF Reply
<1>4. SeenFitsHandle' /\ JoinFits'
  BY <1>2 DEF EffectInv, SeenFitsHandle, JoinFits
<1>5. CASE ~EffectAlive
  BY <1>2, <1>4, <1>5 DEF EffectInv, ReadyIsHeld, PreparationIsHeld
<1>6. CASE EffectAlive
  <2>1. /\ Len(results) \in Nat /\ Len(results') = Len(results) + 1
        /\ results'[Len(results) + 1] = r
        /\ \A i \in 1 .. Len(results) : results'[i] = results[i]
    BY <1>3, <1>6, EntryTypes, AppendEntries
  <2>2. ASSUME NEW n \in 0 .. Len(results), Held(n) PROVE Held(n)'
    <3>1. \A j \in 1 .. n : j \in 1 .. Len(results)
      BY <2>1
    <3>2. \A j \in 1 .. n : Quiet(results'[j])
      BY <2>1, <2>2, <3>1 DEF Held
    <3> QED
      BY <1>2, <2>2, <3>2 DEF Held, Quiet
  <2>a. IsCurrent(m) /\ m.type = "PreparationCompleted" => Arrived("PreparationCompleted")
    <3>1. m = inbox[1] /\ 1 \in 1 .. Len(inbox)
      BY <1>2, EntryTypes, TailEntries
    <3> QED
      BY <3>1 DEF IsCurrent, Arrived
  <2>3. UnderPreparation => state = "Preparing" /\ Held(Len(results))
    <3>1. Arrived("PreparationCompleted") => state = "Preparing"
      BY <1>2 DEF TalkInv, InboxFits, Arrived
    <3>2. \A s \in Epochs : PreparesNow(worker[s]) => state = "Preparing"
      BY <1>2 DEF TalkInv, WorkersTalk, WorkerTalks, WorkerFits
    <3> QED
      BY <1>2, <1>6, <3>1, <3>2 DEF EffectInv, PreparationIsHeld, UnderPreparation
  <2> HIDE DEF m
  <2>4. Readies(r) => UnderPreparation
    <3>1. CASE Accepts(m, r)
      BY <3>1 DEF Accepts, Readies, EffectOf, Commands
    <3>2. CASE LeavesPlayer(m, r)
      BY <1>1, <3>2 DEF LeavesPlayer, KeepPlayer, Readies
    <3>3. CASE CompletesStage(m, r)
      BY <1>1, <2>a, <3>3 DEF CompletesStage, Transition, CompletableStates, Readies,
                              UnderPreparation
    <3>4. CASE FailsPlayer(m, r)
      BY <3>4 DEF FailsPlayer, Readies
    <3> QED
      BY <1>1, <3>1, <3>2, <3>3, <3>4 DEF ControlMove
  <2>5. ReadyIsHeld'
    <3>1. ASSUME NEW i \in 1 .. Len(results'), Readies(results'[i]) PROVE Held(i - 1)'
      <4>1. CASE i \in 1 .. Len(results)
        <5>1. i - 1 \in 0 .. Len(results)
          BY <2>1, <4>1
        <5>2. Held(i - 1)
          BY <1>6, <2>1, <3>1, <4>1 DEF EffectInv, ReadyIsHeld
        <5> QED
          BY <2>2, <5>1, <5>2
      <4>2. CASE i = Len(results) + 1
        <5>1. i - 1 \in 0 .. Len(results) /\ i - 1 = Len(results)
          BY <2>1, <4>2
        <5>2. Held(i - 1)
          BY <2>1, <2>3, <2>4, <3>1, <4>2, <5>1
        <5> QED
          BY <2>2, <5>1, <5>2
      <4> QED
        BY <2>1, <4>1, <4>2
    <3> QED
      BY <3>1 DEF ReadyIsHeld, Readies
  <2>6. PreparationIsHeld'
    <3>n. PICK n \in Nat : n = Len(results') /\ n = Len(results) + 1
      BY <2>1
    <3> SUFFICES ASSUME ControlAlive', UnderPreparation' PROVE Held(n)'
      BY <3>n DEF PreparationIsHeld, Held
    <3>1. inbox' = Tail(inbox) /\ r.event # "ControlError"
      BY <1>1, <1>2, <1>6 DEF Reply, ControlAlive
    <3>2. /\ Len(inbox) \in Nat /\ Len(inbox) >= 1 /\ Len(inbox') = Len(inbox) - 1
          /\ \A i \in 1 .. Len(inbox') : i + 1 \in 1 .. Len(inbox) /\ inbox'[i] = inbox[i + 1]
      BY <1>2, <3>1, EntryTypes, TailEntries
    <3>3. CASE epoch' = epoch
      <4>1. UnderPreparation
        BY <3>2, <3>3 DEF UnderPreparation, Arrived, PreparesNow
      <4>2. Quiet(r)
        <5>1. CASE Accepts(m, r)
          <6>1. m.type \in Commands \ InvalidatingCommands
            <7>1. epoch \in Int
              BY EntryTypes
            <7> QED
              BY <3>3, <5>1, <7>1 DEF Accepts
          <6> QED
            BY <2>3, <4>1, <5>1, <6>1 DEF Accepts, Commands, InvalidatingCommands, ActionOf,
                                         Transition
        <5>2. CASE LeavesPlayer(m, r)
          BY <3>1, <5>2 DEF LeavesPlayer, Quiet
        <5>3. CASE CompletesStage(m, r)
          BY <3>1, <5>3 DEF CompletesStage, Quiet
        <5>4. CASE FailsPlayer(m, r)
          <6>1. epoch \in Int
            BY EntryTypes
          <6> QED
            BY <3>3, <5>4, <6>1 DEF FailsPlayer
        <5> QED
          BY <1>1, <5>1, <5>2, <5>3, <5>4 DEF ControlMove
      <4>3. Held(Len(results))
        BY <2>3, <4>1
      <4>4. \A j \in 1 .. n : j \in 1 .. Len(results) \/ j = Len(results) + 1
        BY <2>1, <3>n
      <4>5. \A j \in 1 .. n : Quiet(results'[j])
        BY <2>1, <4>2, <4>3, <4>4 DEF Held
      <4> QED
        BY <1>2, <4>3, <4>5 DEF Held, Quiet
    <3>4. CASE epoch' # epoch
      <4>1. epoch \in Int /\ epoch' > epoch
        <5>1. epoch \in Int
          BY EntryTypes
        <5>2. epoch' = epoch \/ epoch' = epoch + 1
          BY <1>1 DEF ControlMove, Accepts, LeavesPlayer, KeepPlayer, CompletesStage, FailsPlayer
        <5> QED
          BY <3>4, <5>1, <5>2
      <4>2. \A i \in 1 .. Len(inbox) : inbox[i].epoch \in Int /\ inbox[i].epoch <= epoch
        BY EntryTypes DEF FreshInv, InboxFresh, Usable
      <4>3. ~Arrived("PreparationCompleted")'
        <5>1. \A i \in 1 .. Len(inbox') : inbox'[i].epoch # epoch'
          BY <3>2, <4>1, <4>2
        <5> QED
          BY <5>1 DEF Arrived
      <4>4. \A s \in Epochs : worker[s].feedback \in Int /\ worker[s].feedback <= epoch
        BY EntryTypes DEF FreshInv, WorkersFresh, Usable
      <4>5. \A s \in Epochs : ~PreparesNow(worker[s])'
        BY <4>1, <4>4 DEF PreparesNow
      <4> QED
        BY <4>3, <4>5 DEF UnderPreparation
    <3> QED
      BY <3>3, <3>4
  <2> QED
    BY <1>4, <2>5, <2>6 DEF EffectInv
<1> QED
  BY <1>5, <1>6

(* The handle goes on to fit. *)
LEMMA EffectNext ==
    /\ TypeOK /\ OwnershipInv /\ FreshInv /\ TalkInv /\ EpochInv
    /\ ChainInv /\ Listening /\ EffectInv /\ [Next]_vars
    => EffectInv'
<1> SUFFICES ASSUME TypeOK, OwnershipInv, FreshInv, TalkInv, EpochInv, ChainInv, Listening,
                    EffectInv, [Next]_vars
             PROVE  EffectInv'
  OBVIOUS
<1>1. ASSUME NEW c \in Commands, Post([type |-> c, epoch |-> 0, session |-> 0]),
             UNCHANGED <<results, control, effect, epoch, worker, handle, task, seen>>
      PROVE  EffectInv'
  <2>1. [type |-> c, epoch |-> 0, session |-> 0] \in Messages
    BY <1>1, MaxEpochAssumption DEF Messages, Epochs
  <2>2. c # "PreparationCompleted"
    BY DEF Commands
  <2>3. Arrived("PreparationCompleted")' => Arrived("PreparationCompleted")
    <3>1. CASE inbox' = inbox
      BY <1>1, <3>1 DEF Arrived
    <3>2. CASE inbox' = Append(inbox, [type |-> c, epoch |-> 0, session |-> 0])
      BY <1>1, <2>1, <2>2, <3>2, ArrivedGrows
    <3> QED
      BY <1>1, <3>1, <3>2 DEF Post
  <2>4. UnderPreparation' => UnderPreparation
    BY <1>1, <2>3 DEF UnderPreparation, PreparesNow
  <2> QED
    BY <1>1, <2>4, EffectStays DEF ControlAlive, EffectAlive
<1>2. ASSUME UNCHANGED <<inbox, results, epoch, worker, handle, task, seen>>,
             ControlAlive' => ControlAlive,
             effect' = effect \/ effect' \in EffectExits
      PROVE  EffectInv'
  <2>1. UnderPreparation' => UnderPreparation
    BY <1>2 DEF UnderPreparation, PreparesNow, Arrived
  <2>2. EffectAlive' => EffectAlive
    BY <1>2 DEF EffectAlive
  <2> QED
    BY <1>2, <2>1, <2>2, EffectStays
<1>3. CASE EngineStart \/ ShutdownJoin \/ Stopped \/ UNCHANGED vars
  BY <1>2, <1>3 DEF EngineStart, ShutdownJoin, Stopped, vars, EffectExits, ControlAlive
<1>4. CASE UserSend
  BY <1>1, <1>4, UserCommandsAssumption DEF UserSend
<1>5. CASE ShutdownBegin
  <2>1. "Release" \in Commands
    BY DEF Commands
  <2> QED
    BY <1>1, <1>5, <2>1 DEF ShutdownBegin
<1>6. CASE ControlThread
  <2>1. CASE ControlReceive
    BY <1>6, <2>1, ControlKeepsEffect DEF ControlThread
  <2>2. CASE ControlDisconnect
    BY <1>2, <1>6, <2>2 DEF ControlThread, ControlDisconnect
  <2> QED
    BY <1>6, <2>1, <2>2 DEF ControlThread
<1>7. CASE EffectThread
  <2>1. CASE EffectReceive
    BY <1>7, <2>1, ReceiveKeepsSeen, ReceiveKeepsHeld DEF EffectThread, EffectInv
  <2>2. CASE EffectJoined
    BY <1>7, <2>2, JoinedKeepsEffect DEF EffectThread
  <2> QED
    BY <1>7, <2>1, <2>2 DEF EffectThread
<1>8. ASSUME NEW s \in Epochs, WorkerThread(s) PROVE EffectInv'
  BY <1>8, WorkerKeepsEffect DEF WorkerThread
<1> QED
  BY <1>3, <1>4, <1>5, <1>6, <1>7, <1>8 DEF Next

(* The effect thread holds a worker exactly when the user was told of a session. *)
LEMMA EffectAlways == Spec => [](EffectInv /\ ChainInv /\ Listening)
<1>1. Init => EffectInv /\ ChainInv /\ StepsAreLegal /\ Listening
  <2> SUFFICES ASSUME Init PROVE EffectInv /\ ChainInv /\ StepsAreLegal /\ Listening
    OBVIOUS
  <2>1. ChainInv /\ StepsAreLegal /\ Listening
    BY DEF Init, ControlInit, EffectInit, ChainInv, QuietResults, Chain, StepsAreLegal, Listening
  <2>2. /\ inbox = <<>> /\ results = <<>> /\ handle = NoSession /\ effect = "receiving"
        /\ seen = "Idle" /\ \A s \in Epochs : worker[s].phase = "absent"
    BY DEF Init, ControlInit, EffectInit, WorkerInit, Absent
  <2>3. ~UnderPreparation
    BY <2>2 DEF UnderPreparation, Arrived, PreparesNow, PrepPhases
  <2> QED
    BY <2>1, <2>2, <2>3 DEF EffectInv, SeenFitsHandle, JoinFits, ReadyIsHeld, PreparationIsHeld
<1>2. TypeOK /\ ChainInv /\ [Next]_vars => ChainInv'
  BY ChainNext
<1>3. TypeOK /\ FreshInv /\ StepsAreLegal /\ Listening /\ [Next]_vars
        => StepsAreLegal' /\ Listening'
  BY LegalNext
<1>4. /\ TypeOK /\ OwnershipInv /\ FreshInv /\ TalkInv /\ EpochInv
      /\ ChainInv /\ Listening /\ EffectInv /\ [Next]_vars
      => EffectInv'
  BY EffectNext
<1> QED
  BY <1>1, <1>2, <1>3, <1>4, TypeCorrect, OwnershipAlways, FreshAlways, TalkAlways, EpochAlways,
     PTL DEF Spec

(***************************************************************************)
(* Controller, executor and worker mean the same session.  What comes with *)
(* an effect (ResultLegal) names the state the user has seen, and that     *)
(* state says whether there is a worker (EffectInv); a worker's pipeline   *)
(* is at the epoch its next command continues from (EpochInv).  So none of *)
(* WorkerAlreadyExists, WorkerNotPrepared, EpochMismatch and               *)
(* InvalidSeekEpoch is ever met.                                           *)
(***************************************************************************)
THEOREM SessionsAlwaysMatch == Spec => []SessionsMatch
<1>1. TypeOK /\ ChainInv /\ Listening /\ EpochInv /\ EffectInv => EffectsFindTheirWorker
  <2> SUFFICES ASSUME TypeOK, ChainInv, Listening, EpochInv, EffectInv,
                      effect = "receiving", results # <<>>
               PROVE  /\ Head(results).effect = "BeginPrepare" => handle = NoSession
                      /\ Head(results).effect \in {"StartPlayback", "PausePlayback", "Seek"} =>
                            handle # NoSession
    BY DEF EffectsFindTheirWorker
  <2>1. Head(results).before = seen
    BY SeenIsBefore
  <2>2. Head(results) = results[1] /\ 1 \in 1 .. Len(results)
    BY EntryTypes, TailEntries
  <2>3. ResultLegal(Head(results))
    BY <2>2 DEF EpochInv, ResultsLegal
  <2> QED
    BY <2>1, <2>3 DEF ResultLegal, PlayEffects, EffectInv, SeenFitsHandle
<1>2. TypeOK /\ TalkInv /\ EpochInv => CommandsFitPipelines
  <2> SUFFICES ASSUME TypeOK, TalkInv, EpochInv, NEW s \in Epochs,
                      worker[s].pipeline # NoPipeline, worker[s].queue # <<>>
               PROVE  EpochAgrees(worker[s], Head(worker[s].queue))
    BY DEF CommandsFitPipelines
  <2>1. PICK w : w = worker[s] /\ w.queue \in Seq(WorkerCommands) /\ w.queue # <<>>
    BY EntryTypes
  <2>2. Head(w.queue) = w.queue[1] /\ 1 \in 1 .. Len(w.queue)
    BY <2>1, TailEntries
  <2>3. w.pipeline = w.feedback
    BY <2>1 DEF TalkInv, Shaped
  <2>4. Follows(w.feedback, w.queue[1])
    BY <2>1, <2>2 DEF EpochInv, QueueLinked
  <2>5. EpochAgrees(w, Head(w.queue))
    BY <2>2, <2>3, <2>4 DEF Follows, EpochAgrees
  <2> QED
    BY <2>1, <2>5
<1> QED
  BY <1>1, <1>2, TypeCorrect, TalkAlways, EpochAlways, EffectAlways, PTL DEF SessionsMatch

-----------------------------------------------------------------------------
(***************************************************************************)
(* Order.  Along the results and along a worker's queue the epochs rise,   *)
(* and strictly where an epoch is opened.  EpochInv links neighbours; two  *)
(* entries that are far apart need the order stated of every pair.         *)
(***************************************************************************)
ResultOrder ==
    /\ \A i \in 1 .. Len(results) :
          /\ Delivered <= results[i].epoch /\ results[i].epoch <= epoch
          /\ Opens(results[i]) => Delivered < results[i].epoch
    /\ \A i, j \in 1 .. Len(results) : i < j =>
          /\ results[i].epoch <= results[j].epoch
          /\ Opens(results[j]) => results[i].epoch < results[j].epoch

QueueSorted(w) ==
    /\ \A i \in 1 .. Len(w.queue) :
          /\ w.feedback <= w.queue[i].epoch
          /\ w.queue[i].action = "Seek" => w.feedback < w.queue[i].epoch
    /\ \A i, j \in 1 .. Len(w.queue) : i < j =>
          /\ w.queue[i].epoch <= w.queue[j].epoch
          /\ w.queue[j].action = "Seek" => w.queue[i].epoch < w.queue[j].epoch

(* What a command to the worker tells the user to expect. *)
ResultTarget(r) ==
    /\ r.effect = "StartPlayback" => r.after = "Playing"
    /\ r.effect = "PausePlayback" => r.after = "Paused"
    /\ r.effect = "Seek" => (r.resume <=> r.after = "Playing")

(* The worker held was started, not joined, and not asked to stop. *)
HandleIsOn ==
    effect = "receiving" /\ handle # NoSession =>
        worker[handle].phase # "absent" /\ ~worker[handle].cancel

OrderInv ==
    /\ EffectAlive => ResultOrder
    /\ \A s \in Epochs : QueueSorted(worker[s])
    /\ \A s \in Epochs : worker[s].phase = "prepared" => worker[s].pipeline # NoPipeline
    /\ \A i \in 1 .. Len(results) :
          ResultTarget(results[i]) /\ (ControlAlive => results[i].event # "ControlError")
    /\ HandleIsOn

(* The epochs of a worker are integers. *)
LEMMA WorkerTypes ==
    ASSUME NEW w \in Workers
    PROVE  /\ w.queue \in Seq(WorkerCommands) /\ Len(w.queue) \in Nat
           /\ w.feedback \in Int /\ w.cancel \in BOOLEAN /\ w.running \in BOOLEAN
           /\ w.reported \in BOOLEAN
           /\ \A i \in 1 .. Len(w.queue) :
                 w.queue[i] \in WorkerCommands /\ w.queue[i].epoch \in Int
           /\ w.queue = <<>> <=> Len(w.queue) = 0
<1>0. \A e \in Epochs : e \in Int
  BY DEF Epochs
<1>1. /\ w.feedback \in Epochs /\ w.queue \in Seq(WorkerCommands)
      /\ w.cancel \in BOOLEAN /\ w.running \in BOOLEAN /\ w.reported \in BOOLEAN
  BY DEF Workers
<1>2. \A c \in WorkerCommands : c.epoch \in Int
  BY <1>0 DEF WorkerCommands
<1>3. \A q \in Seq(WorkerCommands) :
         /\ Len(q) \in Nat /\ (q = <<>> <=> Len(q) = 0)
         /\ \A i \in 1 .. Len(q) : q[i] \in WorkerCommands
  OBVIOUS
<1> QED
  BY <1>0, <1>1, <1>2, <1>3

(* The epoch the effect thread has come to lies before the results it has not received. *)
LEMMA DeliveredFirst ==
    ASSUME TypeOK, ResultOrder
    PROVE  Delivered \in Int /\ Delivered <= epoch
<1>1. epoch \in Int /\ Len(results) \in Nat /\ (results = <<>> <=> Len(results) = 0)
      /\ \A i \in 1 .. Len(results) : results[i].epoch \in Int
  BY EntryTypes
<1>2. CASE results = <<>>
  BY <1>1, <1>2 DEF Delivered
<1>3. CASE results # <<>>
  <2>1. 1 \in 1 .. Len(results)
    BY <1>1, <1>3
  <2>2. results[1].epoch \in Int /\ Delivered <= results[1].epoch /\ results[1].epoch <= epoch
    BY <1>1, <2>1 DEF ResultOrder
  <2>3. Delivered \in Int
    BY <1>3, <2>2 DEF Delivered, EpochBefore
  <2> QED
    BY <1>1, <2>2, <2>3
<1> QED
  BY <1>2, <1>3

(* Nothing opens an epoch on the way to one that is delivered already. *)
LEMMA NothingOpens ==
    ASSUME TypeOK, ResultOrder, NEW k \in 1 .. Len(results), results[k].epoch = Delivered
    PROVE  \A j \in 1 .. k : ~Opens(results[j])
<1>1. /\ Len(results) \in Nat /\ Delivered \in Int
      /\ \A i \in 1 .. Len(results) : results[i].epoch \in Int
  BY EntryTypes, DeliveredFirst
<1> SUFFICES ASSUME NEW j \in 1 .. k, Opens(results[j]) PROVE FALSE
  OBVIOUS
<1>2. j \in 1 .. Len(results) /\ (j = k \/ j < k)
  BY <1>1
<1>3. Delivered < results[j].epoch
  BY <1>2 DEF ResultOrder
<1>4. results[j].epoch <= results[k].epoch
  BY <1>1, <1>2 DEF ResultOrder
<1> QED
  BY <1>1, <1>2, <1>3, <1>4

(* The order grows with the chain. *)
LEMMA ResultOrderGrows ==
    ASSUME TypeOK, EpochChain, ResultOrder, NEW r \in Results, results' = Append(results, r),
           r.epoch = epoch', EpochBefore(r) = epoch
    PROVE  ResultOrder'
<1>1. /\ Len(results) \in Nat /\ Len(results') = Len(results) + 1
      /\ results'[Len(results) + 1] = r
      /\ \A i \in 1 .. Len(results) : results'[i] = results[i]
  BY EntryTypes, AppendEntries
<1>2. Delivered' = Delivered
  BY EpochChainGrows
<1>3. /\ epoch \in Int /\ r.epoch \in Int /\ Delivered \in Int /\ Delivered <= epoch
      /\ \A i \in 1 .. Len(results) : results[i].epoch \in Int
  BY EntryTypes, DeliveredFirst DEF Results, Epochs
<1>4. epoch <= r.epoch /\ (Opens(r) => epoch < r.epoch)
  BY <1>3 DEF EpochBefore
<1>5. \A i \in 1 .. Len(results') : i \in 1 .. Len(results) \/ i = Len(results) + 1
  BY <1>1
<1>6. ASSUME NEW i \in 1 .. Len(results')
      PROVE  /\ Delivered <= results'[i].epoch /\ results'[i].epoch <= r.epoch
             /\ Opens(results'[i]) => Delivered < results'[i].epoch
  <2>1. CASE i \in 1 .. Len(results)
    <3>1. /\ Delivered <= results[i].epoch /\ results[i].epoch <= epoch
          /\ Opens(results[i]) => Delivered < results[i].epoch
      BY <2>1 DEF ResultOrder
    <3> QED
      BY <1>1, <1>3, <1>4, <2>1, <3>1
  <2>2. CASE i = Len(results) + 1
    BY <1>1, <1>3, <1>4, <2>2
  <2> QED
    BY <1>5, <2>1, <2>2
<1>7. ASSUME NEW i \in 1 .. Len(results'), NEW j \in 1 .. Len(results'), i < j
      PROVE  /\ results'[i].epoch <= results'[j].epoch
             /\ Opens(results'[j]) => results'[i].epoch < results'[j].epoch
  <2>0. i \in 1 .. Len(results)
    BY <1>1, <1>5, <1>7
  <2>1. CASE j \in 1 .. Len(results)
    BY <1>1, <1>7, <2>0, <2>1 DEF ResultOrder
  <2>2. CASE j = Len(results) + 1
    <3>1. results[i].epoch <= epoch
      BY <2>0 DEF ResultOrder
    <3> QED
      BY <1>1, <1>3, <1>4, <2>0, <2>2, <3>1
  <2> QED
    BY <1>5, <2>1, <2>2
<1> QED
  BY <1>2, <1>6, <1>7 DEF ResultOrder, Opens

(* It stays when the first result is received. *)
LEMMA ResultOrderShrinks ==
    ASSUME TypeOK, EpochChain, ResultOrder, results # <<>>, results' = Tail(results),
           epoch' = epoch
    PROVE  ResultOrder'
<1>1. /\ Len(results) \in Nat /\ Len(results) >= 1 /\ Len(results') = Len(results) - 1
      /\ \A i \in 1 .. Len(results) - 1 : results'[i] = results[i + 1]
  BY EntryTypes, TailEntries
<1>2. Delivered' = results[1].epoch
  BY EpochChainShrinks
<1>3. \A i \in 1 .. Len(results') :
         /\ i + 1 \in 1 .. Len(results) /\ 1 \in 1 .. Len(results) /\ 1 < i + 1
         /\ results'[i] = results[i + 1]
  BY <1>1
<1>4. ASSUME NEW i \in 1 .. Len(results')
      PROVE  /\ results[1].epoch <= results'[i].epoch /\ results'[i].epoch <= epoch
             /\ Opens(results'[i]) => results[1].epoch < results'[i].epoch
  BY <1>3 DEF ResultOrder
<1>5. ASSUME NEW i \in 1 .. Len(results'), NEW j \in 1 .. Len(results'), i < j
      PROVE  /\ results'[i].epoch <= results'[j].epoch
             /\ Opens(results'[j]) => results'[i].epoch < results'[j].epoch
  <2>1. i + 1 < j + 1
    BY <1>1, <1>5
  <2> QED
    BY <1>3, <2>1 DEF ResultOrder
<1> QED
  BY <1>2, <1>4, <1>5 DEF ResultOrder, Opens

(* The last epoch of a worker is its largest. *)
LEMMA LastIsLargest ==
    ASSUME NEW w \in Workers, QueueSorted(w)
    PROVE  /\ LastEpoch(w) \in Int /\ w.feedback <= LastEpoch(w)
           /\ \A i \in 1 .. Len(w.queue) : w.queue[i].epoch <= LastEpoch(w)
<1>1. /\ Len(w.queue) \in Nat /\ w.feedback \in Int /\ (w.queue = <<>> <=> Len(w.queue) = 0)
      /\ \A i \in 1 .. Len(w.queue) : w.queue[i].epoch \in Int
  BY WorkerTypes
<1>2. CASE w.queue = <<>>
  BY <1>1, <1>2 DEF LastEpoch
<1>3. CASE w.queue # <<>>
  <2>1. Len(w.queue) \in 1 .. Len(w.queue) /\ LastEpoch(w) = w.queue[Len(w.queue)].epoch
    BY <1>1, <1>3 DEF LastEpoch
  <2>2. ASSUME NEW i \in 1 .. Len(w.queue) PROVE w.queue[i].epoch <= LastEpoch(w)
    <3>1. i = Len(w.queue) \/ i < Len(w.queue)
      BY <1>1
    <3>2. i < Len(w.queue) => w.queue[i].epoch <= w.queue[Len(w.queue)].epoch
      BY <2>1 DEF QueueSorted
    <3> QED
      BY <1>1, <2>1, <3>1, <3>2
  <2> QED
    BY <1>1, <2>1, <2>2 DEF QueueSorted
<1> QED
  BY <1>2, <1>3

(* A worker that takes a command stays sorted. *)
LEMMA QueueStaysSorted ==
    ASSUME NEW w \in Workers, NEW v \in Workers, QueueSorted(w)
    PROVE  /\ v.queue = <<>> => QueueSorted(v)
           /\ SameQueue(w, v) \/ TakesCommand(w, v) => QueueSorted(v)
<1>1. v.queue = <<>> => QueueSorted(v)
  BY DEF QueueSorted
<1>2. SameQueue(w, v) => QueueSorted(v)
  BY DEF SameQueue, QueueSorted
<1>3. ASSUME TakesCommand(w, v) PROVE QueueSorted(v)
  <2>1. w.queue # <<>> /\ v.feedback = Head(w.queue).epoch /\ v.queue = Tail(w.queue)
    BY <1>3 DEF TakesCommand
  <2>2. w.queue \in Seq(WorkerCommands)
    BY DEF Workers
  <2>3. /\ Len(w.queue) \in Nat /\ Len(w.queue) >= 1 /\ Len(v.queue) = Len(w.queue) - 1
        /\ Head(w.queue) = w.queue[1]
        /\ \A i \in 1 .. Len(w.queue) - 1 : v.queue[i] = w.queue[i + 1]
    BY <2>1, <2>2, TailEntries
  <2>4. \A i \in 1 .. Len(v.queue) :
           /\ i + 1 \in 1 .. Len(w.queue) /\ 1 \in 1 .. Len(w.queue) /\ 1 < i + 1
           /\ v.queue[i] = w.queue[i + 1]
    BY <2>3
  <2>5. ASSUME NEW i \in 1 .. Len(v.queue)
        PROVE  /\ v.feedback <= v.queue[i].epoch
               /\ v.queue[i].action = "Seek" => v.feedback < v.queue[i].epoch
    BY <2>1, <2>3, <2>4 DEF QueueSorted
  <2>6. ASSUME NEW i \in 1 .. Len(v.queue), NEW j \in 1 .. Len(v.queue), i < j
        PROVE  /\ v.queue[i].epoch <= v.queue[j].epoch
               /\ v.queue[j].action = "Seek" => v.queue[i].epoch < v.queue[j].epoch
    <3>1. i + 1 < j + 1
      BY <2>3, <2>6
    <3> QED
      BY <2>4, <3>1 DEF QueueSorted
  <2> QED
    BY <2>5, <2>6 DEF QueueSorted
<1> QED
  BY <1>1, <1>2, <1>3

(* A command that follows the last one is in order. *)
LEMMA QueueGrowsSorted ==
    ASSUME NEW w \in Workers, NEW v \in Workers, QueueSorted(w), NEW c \in WorkerCommands,
           v.feedback = w.feedback, v.queue = Append(w.queue, c), Follows(LastEpoch(w), c)
    PROVE  QueueSorted(v)
<1> DEFINE q == w.queue
           p == v.queue
<1>1. /\ q \in Seq(WorkerCommands) /\ Len(q) \in Nat /\ w.feedback \in Int
      /\ \A i \in 1 .. Len(q) : q[i].epoch \in Int
  BY WorkerTypes
<1>2. /\ Len(p) = Len(q) + 1
      /\ p[Len(q) + 1] = c
      /\ \A i \in 1 .. Len(q) : p[i] = q[i]
  BY <1>1, AppendEntries
<1>3. /\ LastEpoch(w) \in Int /\ w.feedback <= LastEpoch(w)
      /\ \A i \in 1 .. Len(q) : q[i].epoch <= LastEpoch(w)
  BY LastIsLargest
<1>4. c.epoch \in Int /\ LastEpoch(w) <= c.epoch /\ (c.action = "Seek" => LastEpoch(w) < c.epoch)
  <2>1. c.epoch \in Int
    BY DEF WorkerCommands, Epochs
  <2> QED
    BY <1>3, <2>1 DEF Follows
<1>5. \A i \in 1 .. Len(p) : i \in 1 .. Len(q) \/ i = Len(q) + 1
  BY <1>1, <1>2
<1>s. /\ \A i \in 1 .. Len(q) : /\ w.feedback <= q[i].epoch
                                /\ q[i].action = "Seek" => w.feedback < q[i].epoch
      /\ \A i, j \in 1 .. Len(q) : i < j =>
            /\ q[i].epoch <= q[j].epoch
            /\ q[j].action = "Seek" => q[i].epoch < q[j].epoch
  BY DEF QueueSorted
<1> HIDE DEF q, p
<1>6. ASSUME NEW i \in 1 .. Len(p)
      PROVE  /\ v.feedback <= p[i].epoch
             /\ p[i].action = "Seek" => v.feedback < p[i].epoch
  <2>1. CASE i \in 1 .. Len(q)
    BY <1>2, <1>s, <2>1
  <2>2. CASE i = Len(q) + 1
    BY <1>1, <1>2, <1>3, <1>4, <2>2
  <2> QED
    BY <1>5, <2>1, <2>2
<1>7. ASSUME NEW i \in 1 .. Len(p), NEW j \in 1 .. Len(p), i < j
      PROVE  /\ p[i].epoch <= p[j].epoch
             /\ p[j].action = "Seek" => p[i].epoch < p[j].epoch
  <2>0. i \in 1 .. Len(q)
    BY <1>1, <1>2, <1>5, <1>7
  <2>1. CASE j \in 1 .. Len(q)
    BY <1>2, <1>7, <1>s, <2>0, <2>1
  <2>2. CASE j = Len(q) + 1
    <3>1. q[i].epoch \in Int /\ q[i].epoch <= LastEpoch(w) /\ p[i] = q[i]
      BY <1>1, <1>2, <1>3, <2>0
    <3> QED
      BY <1>2, <1>3, <1>4, <2>2, <3>1
  <2> QED
    BY <1>5, <2>1, <2>2
<1> QED
  BY <1>6, <1>7 DEF QueueSorted, p

(* What an effect says of the state it leads to. *)
LEMMA ControlSendsTargets ==
    ASSUME NEW m, NEW r, ControlMove(m, r), r.after = state'
    PROVE  ResultTarget(r)
<1>1. CASE Accepts(m, r)
  <2>1. /\ m.type \in Commands /\ Transition(state, ActionOf[m.type], state')
        /\ r.effect = EffectOf[m.type] /\ (r.resume <=> state' = "Playing")
    BY <1>1 DEF Accepts
  <2> QED
    BY <2>1 DEF ResultTarget, EffectOf, ActionOf, Commands, Transition
<1>2. CASE LeavesPlayer(m, r) \/ CompletesStage(m, r) \/ FailsPlayer(m, r)
  BY <1>2 DEF LeavesPlayer, CompletesStage, FailsPlayer, ResultTarget
<1> QED
  BY <1>1, <1>2 DEF ControlMove

(* The control thread extends the order. *)
LEMMA ControlKeepsOrder ==
    ASSUME TypeOK, EpochInv, OrderInv, ControlReceive, UNCHANGED <<worker, handle>>
    PROVE  OrderInv'
<1>1. PICK r \in Results :
          /\ Reply(r)
          /\ r.before = state /\ r.after = state' /\ r.epoch = epoch'
          /\ ControlMove(Head(inbox), r)
  BY ControlMoves
<1>2. EpochBefore(r) = epoch /\ ResultTarget(r)
  BY <1>1, EntryTypes, ControlSendsLegally, ControlSendsTargets
<1>3. ControlAlive /\ effect' = effect /\ (EffectAlive' <=> EffectAlive)
  BY DEF ControlReceive, EffectAlive
<1>4. results' = IF EffectAlive THEN Append(results, r) ELSE results
  BY <1>1 DEF Reply
<1>5. EffectAlive => ResultOrder'
  BY <1>1, <1>2, <1>4, ResultOrderGrows DEF EpochInv, OrderInv
<1>6. /\ \A s \in Epochs : (QueueSorted(worker[s]))'
      /\ \A s \in Epochs : (worker[s].phase = "prepared" => worker[s].pipeline # NoPipeline)'
      /\ HandleIsOn'
  BY <1>3 DEF OrderInv, QueueSorted, HandleIsOn
<1>7. ASSUME NEW i \in 1 .. Len(results')
      PROVE  ResultTarget(results'[i]) /\ (ControlAlive' => results'[i].event # "ControlError")
  <2>1. \/ results' = results
        \/ /\ Len(results) \in Nat /\ Len(results') = Len(results) + 1
           /\ results'[Len(results) + 1] = r
           /\ \A k \in 1 .. Len(results) : results'[k] = results[k]
    BY <1>1, ControlAppends
  <2>2. (i \in 1 .. Len(results) /\ results'[i] = results[i]) \/ results'[i] = r
    BY <2>1
  <2>3. ControlAlive' => r.event # "ControlError"
    BY <1>1 DEF Reply, ControlAlive
  <2> QED
    BY <1>2, <1>3, <2>2, <2>3 DEF OrderInv
<1> QED
  BY <1>3, <1>5, <1>6, <1>7 DEF OrderInv, ResultTarget

(* The effect thread hands on in order what it receives in order. *)
LEMMA EffectKeepsOrder ==
    ASSUME TypeOK, OwnershipInv, EpochInv, OrderInv, EffectReceive, epoch' = epoch
    PROVE  OrderInv'
<1> DEFINE r == Head(results)
<1>1. /\ effect = "receiving" /\ results # <<>> /\ results' = Tail(results) /\ control' = control
      /\ r \in Results /\ EffectMove(r)
  BY EffectMoves
<1>2. EffectAlive /\ EpochChain
  BY <1>1 DEF EffectAlive, EffectExits, EpochInv
<1>3. r = results[1]
  BY <1>1, EntryTypes, TailEntries
<1>4. ResultOrder'
  BY <1>1, <1>2, ResultOrderShrinks DEF OrderInv
<1>5. \A i \in 1 .. Len(results') :
         (ResultTarget(results[i]) /\ (ControlAlive => results[i].event # "ControlError"))'
  <2>1. \A i \in 1 .. Len(results') : i + 1 \in 1 .. Len(results) /\ results'[i] = results[i + 1]
    BY <1>1, EntryTypes, TailEntries
  <2> QED
    BY <1>1, <2>1 DEF OrderInv, ResultTarget, ControlAlive
<1>6. r.epoch \in Epochs /\ r.epoch \in Int /\ (handle # NoSession => handle \in Epochs)
  BY <1>1 DEF Results, Epochs, TypeOK, EffectTypeOK
<1>7. worker \in [Epochs -> Workers] /\ \A s \in Epochs : worker[s] \in Workers
  BY DEF TypeOK, WorkerTypeOK
<1>b. Delivered = EpochBefore(r)
  BY <1>1, <1>2, <1>3, EpochChainShrinks
<1> DEFINE Good(w) == QueueSorted(w) /\ (w.phase = "prepared" => w.pipeline # NoPipeline)
           GoodNext == \A s \in Epochs : Good(worker'[s])
           Kept == GoodNext /\ HandleIsOn'
<1>8. (\A s \in Epochs : Good(worker[s])) /\ HandleIsOn /\ HandleAtEpoch
  BY DEF OrderInv, EpochInv
<1> HIDE DEF r
<1>9. Kept
  <2>1. ASSUME UNCHANGED <<worker, handle>>, effect' = effect PROVE Kept
    BY <1>8, <2>1 DEF HandleIsOn
  <2>2. CASE Ignores(r) \/ Answers(r) \/ FindsNobody(r)
    BY <2>1, <2>2 DEF Ignores, Answers, FindsNobody
  <2>3. CASE Spawns(r)
    <3>1. worker' = [worker EXCEPT ![r.epoch] = Spawned(r.epoch)] /\ handle' = r.epoch
      BY <2>3 DEF Spawns
    <3>2. worker'[r.epoch] = Spawned(r.epoch) /\ \A s \in Epochs \ {r.epoch} : worker'[s] = worker[s]
      BY <1>6, <1>7, <3>1
    <3> DEFINE v == Spawned(r.epoch)
    <3>3. v.queue = <<>> /\ v.phase = "spawned" /\ ~v.cancel
      BY DEF Spawned, Absent
    <3> HIDE DEF v
    <3>4. Good(v)
      BY <3>3 DEF QueueSorted
    <3>5. GoodNext
      BY <1>8, <3>2, <3>4 DEF v
    <3>6. HandleIsOn'
      BY <3>1, <3>2, <3>3 DEF HandleIsOn, v
    <3> QED
      BY <3>5, <3>6
  <2>4. CASE HandsOver(r)
    <3> DEFINE w == worker[handle]
               v == [w EXCEPT !.queue = Append(w.queue, CommandOf(r))]
    <3>1. /\ r.effect \in PlayEffects /\ handle # NoSession /\ Live(handle) /\ handle' = handle
          /\ effect' = effect /\ worker' = [worker EXCEPT ![handle] = v]
      BY <2>4 DEF HandsOver
    <3>2. handle \in Epochs /\ w \in Workers /\ w.queue \in Seq(WorkerCommands)
      BY <1>6, <1>7, <3>1 DEF Workers
    <3>3. CommandOf(r) \in WorkerCommands
      BY <1>1, <3>1 DEF CommandOf, WorkerCommands, PlayEffects, Results
    <3>4. /\ v \in Workers /\ v.feedback = w.feedback /\ v.queue = Append(w.queue, CommandOf(r))
          /\ v.phase = w.phase /\ v.pipeline = w.pipeline /\ v.cancel = w.cancel
      BY <3>2, <3>3 DEF Workers
    <3>5. LastEpoch(w) = EpochBefore(r)
      BY <1>1, <1>b, <1>8, <3>1 DEF HandleAtEpoch
    <3>6. Follows(LastEpoch(w), CommandOf(r))
      BY <1>6, <3>1, <3>5 DEF Follows, CommandOf, EpochBefore, Opens, PlayEffects
    <3>7. Good(w)
      BY <1>8, <3>2
    <3>8. worker'[handle] = v /\ \A s \in Epochs \ {handle} : worker'[s] = worker[s]
      BY <1>7, <3>1, <3>2
    <3>h. w.phase # "absent" /\ ~w.cancel
      BY <1>1, <1>8, <3>1 DEF HandleIsOn
    <3> HIDE DEF w, v
    <3>9. QueueSorted(v)
      BY <3>2, <3>3, <3>4, <3>6, <3>7, QueueGrowsSorted
    <3>10. GoodNext
      BY <1>8, <3>4, <3>7, <3>8, <3>9
    <3>11. HandleIsOn'
      BY <3>1, <3>4, <3>8, <3>h DEF HandleIsOn
    <3> QED
      BY <3>10, <3>11
  <2>5. CASE GivesUp(r)
    <3>1. effect' = "joining" /\ handle # NoSession
          /\ worker' = [worker EXCEPT ![handle] = [worker[handle] EXCEPT !.cancel = TRUE]]
      BY <2>5 DEF GivesUp
    <3>2. ASSUME NEW s \in Epochs PROVE Good(worker'[s])
      <4>1. worker'[s] = worker[s] \/ worker'[s] = [worker[s] EXCEPT !.cancel = TRUE]
        BY <1>6, <1>7, <3>1
      <4>2. PICK w \in Workers : w = worker[s] /\ Good(w)
        BY <1>7, <1>8
      <4>3. PICK v : /\ v = worker'[s] /\ v.queue = w.queue /\ v.feedback = w.feedback
                     /\ v.phase = w.phase /\ v.pipeline = w.pipeline
        BY <4>1, <4>2 DEF Workers
      <4>4. Good(v)
        BY <4>2, <4>3 DEF QueueSorted
      <4> QED
        BY <4>3, <4>4
    <3> QED
      BY <3>1, <3>2 DEF HandleIsOn
  <2>6. CASE Returns(r)
    BY <1>8, <2>6 DEF Returns, HandleIsOn, EffectExits
  <2> QED
    BY <1>1, <2>2, <2>3, <2>4, <2>5, <2>6 DEF EffectMove
<1>10. /\ \A s \in Epochs : (QueueSorted(worker[s]))'
       /\ \A s \in Epochs : (worker[s].phase = "prepared" => worker[s].pipeline # NoPipeline)'
  BY <1>9 DEF QueueSorted
<1> QED
  BY <1>4, <1>5, <1>9, <1>10 DEF OrderInv

(* A worker takes its commands in order. *)
LEMMA WorkerKeepsOrder ==
    ASSUME TypeOK, OrderInv, NEW s \in Epochs, WorkerNext(s), UNCHANGED <<epoch, handle>>
    PROVE  OrderInv'
<1> DEFINE w == worker[s]
<1>1. PICK v \in Workers :
          WorkerMove(s, w, v) /\ v.cancel = w.cancel /\ worker' = [worker EXCEPT ![s] = v]
  BY WorkerMoves DEF TypeOK
<1>2. UNCHANGED <<results, control, effect>>
  BY DEF WorkerNext
<1>3. worker'[s] = v /\ \A t \in Epochs \ {s} : worker'[t] = worker[t]
  BY <1>1 DEF TypeOK, WorkerTypeOK
<1>w. w \in Workers /\ QueueSorted(w) /\ v.phase # "absent"
      /\ (w.phase = "prepared" => w.pipeline # NoPipeline)
  <2>1. w \in Workers /\ QueueSorted(w) /\ (w.phase = "prepared" => w.pipeline # NoPipeline)
    BY DEF TypeOK, WorkerTypeOK, OrderInv
  <2> HIDE DEF w
  <2> QED
    BY <1>1, <2>1 DEF WorkerMove, Ends, Fails, Begins, Builds, Prepares, Starts, Pauses, Seeks,
                      Reports, Completes, Rests
<1>h. HandleIsOn /\ (effect = "receiving" /\ handle # NoSession /\ handle = s => ~w.cancel)
  BY DEF OrderInv, HandleIsOn
<1> HIDE DEF w
<1>4. QueueSorted(v)
  <2>1. SameQueue(w, v) \/ TakesCommand(w, v) \/ v.queue = <<>>
    BY <1>1, <1>w, WorkerOutcome
  <2> QED
    BY <1>w, <2>1, QueueStaysSorted
<1>5. v.phase = "prepared" => v.pipeline # NoPipeline
  <2>1. v.phase = "prepared" => Builds(s, w, v)
    BY <1>1 DEF WorkerMove, Ends, Fails, Begins, Prepares, Starts, Pauses, Seeks, Reports,
                Completes, Rests
  <2>2. w.feedback \in Epochs
    BY <1>w DEF Workers
  <2> QED
    BY <2>1, <2>2 DEF Builds, NoPipeline, Epochs
<1>6. /\ \A t \in Epochs : (QueueSorted(worker[t]))'
      /\ \A t \in Epochs : (worker[t].phase = "prepared" => worker[t].pipeline # NoPipeline)'
  <2>1. /\ \A t \in Epochs : QueueSorted(worker'[t])
        /\ \A t \in Epochs : worker'[t].phase = "prepared" => worker'[t].pipeline # NoPipeline
    BY <1>3, <1>4, <1>5 DEF OrderInv
  <2> QED
    BY <2>1 DEF QueueSorted
<1>7. HandleIsOn'
  <2>1. handle # NoSession => handle \in Epochs
    BY DEF TypeOK, EffectTypeOK
  <2> QED
    BY <1>1, <1>2, <1>3, <1>w, <1>h, <2>1 DEF HandleIsOn
<1>8. (EffectAlive => ResultOrder) => (EffectAlive => ResultOrder)'
  BY <1>2 DEF EffectAlive, ResultOrder, Delivered, EpochBefore, Opens
<1> QED
  BY <1>2, <1>6, <1>7, <1>8 DEF OrderInv, ResultTarget, ControlAlive

(* The order is inductive. *)
LEMMA OrderNext == TypeOK /\ OwnershipInv /\ EpochInv /\ OrderInv /\ [Next]_vars => OrderInv'
<1> SUFFICES ASSUME TypeOK, OwnershipInv, EpochInv, OrderInv, [Next]_vars PROVE OrderInv'
  OBVIOUS
<1>1. CASE ControlReceive /\ UNCHANGED <<worker, handle>>
  BY <1>1, ControlKeepsOrder
<1>2. ASSUME UNCHANGED <<results, epoch, worker, handle>>, ControlAlive' => ControlAlive,
             effect' = effect \/ effect' \in EffectExits
      PROVE  OrderInv'
  <2>1. (EffectAlive => ResultOrder)'
    BY <1>2 DEF OrderInv, EffectAlive, ResultOrder, Delivered, EpochBefore, Opens
  <2>2. HandleIsOn'
    BY <1>2 DEF OrderInv, HandleIsOn, EffectExits
  <2> QED
    BY <1>2, <2>1, <2>2 DEF OrderInv, ResultTarget, QueueSorted
<1>3. CASE EngineStart \/ UserSend \/ ShutdownBegin \/ ShutdownJoin \/ Stopped \/ UNCHANGED vars
  BY <1>2, <1>3 DEF EngineStart, UserSend, ShutdownBegin, ShutdownJoin, Stopped, vars, EffectExits,
                    ControlAlive
<1>4. CASE ControlThread
  BY <1>1, <1>2, <1>4 DEF ControlThread, ControlDisconnect
<1>5. ASSUME NEW s \in Epochs, WorkerThread(s) PROVE OrderInv'
  BY <1>5, WorkerKeepsOrder DEF WorkerThread
<1>6. CASE EffectReceive /\ epoch' = epoch
  BY <1>6, EffectKeepsOrder
<1>7. CASE EffectJoined /\ epoch' = epoch
  <2>1. /\ effect = "joining" /\ UNCHANGED <<results, handle, control>>
        /\ worker' = [worker EXCEPT ![task.session] = Absent]
    BY <1>7 DEF EffectJoined
  <2>2. handle = NoSession /\ EffectAlive
    BY <2>1 DEF OwnershipInv, HandleFitsStage, EffectAlive, EffectExits
  <2>3. ResultOrder'
    BY <1>7, <2>1, <2>2 DEF OrderInv, ResultOrder, Delivered, EpochBefore, Opens
  <2>4. \A s \in Epochs : worker'[s] = worker[s] \/ worker'[s] = Absent
    BY <2>1 DEF TypeOK, WorkerTypeOK
  <2>5. QueueSorted(Absent) /\ Absent.phase # "prepared"
    BY DEF QueueSorted, Absent
  <2>6. /\ \A s \in Epochs : QueueSorted(worker'[s])
        /\ \A s \in Epochs : worker'[s].phase = "prepared" => worker'[s].pipeline # NoPipeline
    BY <2>4, <2>5 DEF OrderInv
  <2>7. /\ \A s \in Epochs : (QueueSorted(worker[s]))'
        /\ \A s \in Epochs : (worker[s].phase = "prepared" => worker[s].pipeline # NoPipeline)'
    BY <2>6 DEF QueueSorted
  <2> QED
    BY <2>1, <2>2, <2>3, <2>7 DEF OrderInv, HandleIsOn, ResultTarget, ControlAlive
<1> QED
  BY <1>3, <1>4, <1>5, <1>6, <1>7 DEF Next, EffectThread

(* The epochs rise along every queue, always. *)
LEMMA OrderAlways == Spec => []OrderInv
<1>1. Init => OrderInv
  <2> SUFFICES ASSUME Init PROVE OrderInv
    OBVIOUS
  <2>1. results = <<>> /\ handle = NoSession /\ \A s \in Epochs : worker[s] = Absent
    BY DEF Init, ControlInit, EffectInit, WorkerInit
  <2>2. QueueSorted(Absent) /\ Absent.phase # "prepared"
    BY DEF QueueSorted, Absent
  <2> QED
    BY <2>1, <2>2 DEF OrderInv, ResultOrder, HandleIsOn
<1>2. TypeOK /\ OwnershipInv /\ EpochInv /\ OrderInv /\ [Next]_vars => OrderInv'
  BY OrderNext
<1> QED
  BY <1>1, <1>2, TypeCorrect, OwnershipAlways, EpochAlways, PTL DEF Spec

-----------------------------------------------------------------------------
(***************************************************************************)
(* What is pending.  When the player state promises what no thread has yet *)
(* done, a message or a worker that will settle it is on its way.          *)
(***************************************************************************)
Both == ControlAlive /\ EffectAlive

(* Preparing waits for an effect, a message, or a worker; or its worker panicked. *)
PreparationPends ==
    state = "Preparing" =>
        \/ \E i \in 1 .. Len(results) :
              results[i].effect = "BeginPrepare" /\ results[i].epoch = epoch
        \/ Arrived("PreparationCompleted") \/ Arrived("Failed")
        \/ \E s \in Epochs : PreparesNow(worker[s])
        \/ /\ Held(Len(results))
           /\ \E s \in Epochs : worker[s].phase = "panicked" /\ worker[s].feedback = epoch

(* The loss of the pipeline of this epoch was told. *)
LossPends(w) ==
    /\ Lives(w) /\ w.feedback = epoch
    /\ w.phase \notin PrepPhases /\ w.pipeline = NoPipeline
    => Arrived("Failed")

(* The completion of this epoch was told. *)
ReportPends(w) == Lives(w) /\ w.feedback = epoch /\ w.reported => Completed

(* A worker is only joined when its last epoch is over. *)
JoinedIsBehind == effect = "joining" => IsBehind(worker[task.session])

PendingInv ==
    Both =>
        /\ PreparationPends
        /\ JoinedIsBehind
        /\ \A s \in Epochs : LossPends(worker[s]) /\ ReportPends(worker[s])

(* What has arrived stays until it is read. *)
LEMMA ArrivedStays ==
    ASSUME TypeOK, epoch' = epoch, NEW t, Arrived(t),
           inbox' = inbox \/ \E m \in Messages : inbox' = Append(inbox, m)
    PROVE  Arrived(t)'
<1>1. PICK i \in 1 .. Len(inbox) : inbox[i].type = t /\ inbox[i].epoch = epoch
  BY DEF Arrived
<1>2. CASE inbox' = inbox
  BY <1>1, <1>2 DEF Arrived
<1>3. CASE inbox' # inbox
  <2>1. PICK m \in Messages : inbox' = Append(inbox, m)
    BY <1>3
  <2>2. i \in 1 .. Len(inbox') /\ inbox'[i] = inbox[i]
    BY <2>1, EntryTypes, AppendEntries
  <2> QED
    BY <1>1, <2>2 DEF Arrived
<1> QED
  BY <1>2, <1>3

(* What is told of the current epoch has arrived. *)
LEMMA ArrivedTold ==
    ASSUME TypeOK, epoch' = epoch, NEW t, NEW m \in Messages, m.type = t, m.epoch = epoch,
           inbox' = Append(inbox, m)
    PROVE  Arrived(t)'
<1>1. Len(inbox) + 1 \in 1 .. Len(inbox') /\ inbox'[Len(inbox) + 1] = m
  BY EntryTypes, AppendEntries
<1> QED
  BY <1>1 DEF Arrived

(* A worker's message is one. *)
LEMMA SaysMessage ==
    ASSUME NEW s \in Epochs, NEW v \in Workers, NEW t \in Feedbacks, Says(s, t, v)
    PROVE  /\ Message(t, v, s) \in Messages /\ inbox' = Append(inbox, Message(t, v, s))
           /\ Message(t, v, s).type = t /\ Message(t, v, s).epoch = v.feedback
BY DEF Says, Message, Messages, Workers

(* A message that speaks of the state is read when the state can take it. *)
LEMMA ControlReads ==
    ASSUME TypeOK, ControlReceive, NEW r, ControlMove(Head(inbox), r), r.event # "ControlError",
           inbox' = Tail(inbox), epoch' = epoch,
           NEW t \in {"PreparationCompleted", "PlaybackCompleted", "Failed"}, Arrived(t)
    PROVE  Arrived(t)' \/ (Head(inbox).type = t /\ CompletesStage(Head(inbox), r))
<1> DEFINE m == Head(inbox)
<1>1. PICK i \in 1 .. Len(inbox) : inbox[i].type = t /\ inbox[i].epoch = epoch
  BY DEF Arrived
<1>2. /\ Len(inbox) \in Nat /\ Len(inbox) >= 1 /\ Len(inbox') = Len(inbox) - 1
      /\ m = inbox[1]
      /\ \A k \in 1 .. Len(inbox) - 1 : inbox'[k] = inbox[k + 1]
  BY EntryTypes, TailEntries DEF ControlReceive
<1>3. CASE i = 1
  <2>1. m.type = t /\ IsCurrent(m)
    BY <1>1, <1>2, <1>3 DEF IsCurrent
  <2>2. epoch \in Int
    BY EntryTypes
  <2> HIDE DEF m
  <2>3. ControlMove(m, r)
    BY DEF m
  <2>4. ~Accepts(m, r)
    BY <2>1 DEF Accepts, Commands
  <2>5. ~LeavesPlayer(m, r)
    BY <2>1 DEF LeavesPlayer
  <2>6. ~FailsPlayer(m, r)
    BY <2>2 DEF FailsPlayer
  <2>7. m.type = t /\ CompletesStage(m, r)
    BY <2>1, <2>3, <2>4, <2>5, <2>6 DEF ControlMove
  <2> QED
    BY <2>7 DEF m
<1>4. CASE i # 1
  <2>1. i - 1 \in 1 .. Len(inbox') /\ inbox'[i - 1] = inbox[i]
    <3>1. i - 1 \in 1 .. Len(inbox) - 1 /\ (i - 1) + 1 = i
      BY <1>2, <1>4
    <3> QED
      BY <1>2, <3>1
  <2> QED
    BY <1>1, <2>1 DEF Arrived
<1> QED
  BY <1>3, <1>4

(* In a new epoch nothing is under way. *)
LEMMA NewEpochIsEmpty ==
    ASSUME TypeOK, FreshInv, epoch' \in Int, epoch' > epoch, worker' = worker
    PROVE  \A s \in Epochs : worker[s].feedback # epoch' /\ IsBehind(worker[s])'
<1> SUFFICES ASSUME NEW s \in Epochs
             PROVE  worker[s].feedback # epoch' /\ IsBehind(worker[s])'
  OBVIOUS
<1>1. /\ worker[s].feedback \in Int /\ epoch \in Int
      /\ \A i \in 1 .. Len(worker[s].queue) : worker[s].queue[i].epoch \in Int
  BY EntryTypes
<1>2. /\ worker[s].feedback <= epoch
      /\ \A i \in 1 .. Len(worker[s].queue) : worker[s].queue[i].epoch <= epoch
  BY DEF FreshInv, WorkersFresh, Usable
<1>3. /\ worker[s].feedback # epoch'
      /\ \A i \in 1 .. Len(worker[s].queue) : worker[s].queue[i].epoch # epoch'
  BY <1>1, <1>2
<1> QED
  BY <1>3 DEF IsBehind, Lives

(* The control thread reads what it was told, or opens a new epoch. *)
LEMMA ControlKeepsPending ==
    ASSUME TypeOK, FreshInv, PendingInv, ControlReceive, UNCHANGED <<worker, handle, task>>
    PROVE  PendingInv'
<1> DEFINE m == Head(inbox)
<1>1. PICK r \in Results :
          /\ Reply(r)
          /\ r.before = state /\ r.after = state' /\ r.epoch = epoch'
          /\ ControlMove(m, r)
  BY ControlMoves
<1> SUFFICES ASSUME Both'
             PROVE  /\ PreparationPends'
                    /\ JoinedIsBehind'
                    /\ \A s \in Epochs : (LossPends(worker[s]) /\ ReportPends(worker[s]))'
  BY DEF PendingInv
<1>2. ControlAlive /\ effect' = effect /\ EffectAlive /\ inbox # <<>>
  BY DEF ControlReceive, EffectAlive, Both
<1>3. /\ results' = Append(results, r) /\ inbox' = Tail(inbox) /\ r.event # "ControlError"
  BY <1>1, <1>2 DEF Reply, Both, ControlAlive
<1>4. /\ Len(results) \in Nat /\ Len(results') = Len(results) + 1
      /\ results'[Len(results) + 1] = r
      /\ \A i \in 1 .. Len(results) : results'[i] = results[i]
  BY <1>3, EntryTypes, AppendEntries
<1>5. epoch \in Int /\ (epoch' = epoch \/ epoch' = epoch + 1)
  BY <1>1, EntryTypes DEF ControlMove, Accepts, LeavesPlayer, KeepPlayer, CompletesStage, FailsPlayer
<1>6. PreparationPends /\ JoinedIsBehind
      /\ \A s \in Epochs : LossPends(worker[s]) /\ ReportPends(worker[s])
  BY <1>2 DEF PendingInv, Both
<1>7. epoch' = epoch =>
         \A t \in {"PreparationCompleted", "PlaybackCompleted", "Failed"} :
            Arrived(t) => Arrived(t)' \/ (m.type = t /\ CompletesStage(m, r))
  BY <1>1, <1>3, ControlReads
<1> HIDE DEF m
<1>8. /\ LeavesPlayer(m, r) => epoch' = epoch /\ state' = state /\ Quiet(r)
      /\ CompletesStage(m, r) => state' \in {"Ready", "Ended"} /\ epoch' = epoch
                                 /\ m.type # "Failed"
                                 /\ (m.type = "PlaybackCompleted" => state' = "Ended")
      /\ FailsPlayer(m, r) => state' = "Error" /\ epoch' = epoch + 1
  BY <1>3 DEF LeavesPlayer, KeepPlayer, Quiet, CompletesStage, Transition, CompletableStates,
              FailsPlayer
<1>9. PreparationPends'
  <2> SUFFICES ASSUME state' = "Preparing"
               PROVE  \/ \E i \in 1 .. Len(results') :
                            results'[i].effect = "BeginPrepare" /\ results'[i].epoch = epoch'
                      \/ Arrived("PreparationCompleted")' \/ Arrived("Failed")'
                      \/ \E s \in Epochs : PreparesNow(worker[s])'
                      \/ /\ Held(Len(results))'
                         /\ \E s \in Epochs :
                               worker'[s].phase = "panicked" /\ worker'[s].feedback = epoch'
    BY DEF PreparationPends
  <2>1. CASE Accepts(m, r)
    <3>1. r.effect = "BeginPrepare"
      BY <2>1 DEF Accepts, Transition, ActionOf, EffectOf, Commands
    <3>2. Len(results) + 1 \in 1 .. Len(results')
      BY <1>4
    <3> QED
      BY <1>1, <1>4, <3>1, <3>2
  <2>2. CASE LeavesPlayer(m, r)
    <3>0. epoch' = epoch /\ state = "Preparing" /\ Quiet(r)
      BY <1>8, <2>2
    <3>a. ~CompletesStage(m, r)
      BY <1>8
    <3>1. ASSUME NEW i \in 1 .. Len(results),
                 results[i].effect = "BeginPrepare", results[i].epoch = epoch
          PROVE  \E k \in 1 .. Len(results') :
                    results'[k].effect = "BeginPrepare" /\ results'[k].epoch = epoch
      <4>1. i \in 1 .. Len(results')
        BY <1>4
      <4> QED
        BY <1>4, <3>1, <4>1
    <3>2. \A s \in Epochs : PreparesNow(worker[s]) => PreparesNow(worker[s])'
      BY <3>0 DEF PreparesNow
    <3>3. Held(Len(results)) => Held(Len(results))'
      <4>1. \A j \in 1 .. Len(results') : j \in 1 .. Len(results) \/ j = Len(results) + 1
        BY <1>4
      <4>2. Held(Len(results)) => \A j \in 1 .. Len(results') : Quiet(results'[j])
        BY <1>4, <3>0, <4>1 DEF Held
      <4> QED
        BY <1>2, <4>2 DEF Held, Quiet
    <3> QED
      BY <1>6, <1>7, <3>0, <3>a, <3>1, <3>2, <3>3 DEF PreparationPends
  <2> QED
    BY <1>1, <1>8, <2>1, <2>2 DEF ControlMove
<1>10. epoch' # epoch => \A s \in Epochs : worker[s].feedback # epoch' /\ IsBehind(worker[s])'
  BY <1>5, NewEpochIsEmpty
<1>11. JoinedIsBehind'
  <2>1. CASE epoch' = epoch
    BY <1>2, <1>6, <2>1 DEF JoinedIsBehind, IsBehind, Lives
  <2>2. CASE epoch' # epoch
    <3>1. task.session \in Epochs
      BY DEF TypeOK, EffectTypeOK, Tasks
    <3>2. IsBehind(worker[task.session])'
      BY <1>10, <2>2, <3>1 DEF IsBehind, Lives
    <3> QED
      BY <3>2 DEF JoinedIsBehind
  <2> QED
    BY <2>1, <2>2
<1>12. ASSUME NEW s \in Epochs PROVE (LossPends(worker[s]) /\ ReportPends(worker[s]))'
  <2>1. CASE epoch' = epoch
    <3>1. Arrived("Failed") => Arrived("Failed")'
      BY <1>7, <1>8, <2>1
    <3>2. Completed => Completed'
      <4>1. state = "Ended" => state' = "Ended"
        <5>1. CASE Accepts(m, r)
          <6>1. m.type \in Commands \ InvalidatingCommands
            BY <1>5, <2>1, <5>1 DEF Accepts
          <6> QED
            BY <5>1, <6>1 DEF Accepts, Commands, InvalidatingCommands, ActionOf, Transition
        <5>2. CASE CompletesStage(m, r)
          BY <5>2 DEF CompletesStage, Transition, CompletableStates
        <5> QED
          BY <1>1, <1>5, <1>8, <2>1, <5>1, <5>2 DEF ControlMove
      <4>2. Arrived("PlaybackCompleted") => Arrived("PlaybackCompleted")' \/ state' = "Ended"
        BY <1>7, <1>8, <2>1
      <4> QED
        BY <4>1, <4>2 DEF Completed
    <3> QED
      BY <1>6, <2>1, <3>1, <3>2 DEF LossPends, ReportPends, Lives
  <2>2. CASE epoch' # epoch
    BY <1>10, <2>2 DEF LossPends, ReportPends
  <2> QED
    BY <2>1, <2>2
<1> QED
  BY <1>9, <1>11, <1>12

(* What is pending stays so, while the results and the state are left alone. *)
LEMMA PendingStays ==
    ASSUME TypeOK, PendingInv, UNCHANGED <<results, state, epoch, worker, handle, task>>,
           inbox' = inbox \/ \E m \in Messages : inbox' = Append(inbox, m),
           ControlAlive' => ControlAlive, effect' = effect \/ effect' \in EffectExits
    PROVE  PendingInv'
<1> SUFFICES ASSUME Both'
             PROVE  /\ PreparationPends'
                    /\ JoinedIsBehind'
                    /\ \A s \in Epochs : (LossPends(worker[s]) /\ ReportPends(worker[s]))'
  BY DEF PendingInv
<1>1. effect' = effect /\ Both
  BY DEF Both, EffectAlive
<1>2. \A t : Arrived(t) => Arrived(t)'
  BY ArrivedStays
<1>3. PreparationPends'
  <2>1. /\ \A s \in Epochs : PreparesNow(worker[s]) => PreparesNow(worker[s])'
        /\ Held(Len(results)) => Held(Len(results))'
    BY <1>1 DEF PreparesNow, Held, Quiet
  <2> QED
    BY <1>1, <1>2, <2>1 DEF PendingInv, PreparationPends
<1>4. JoinedIsBehind'
  BY <1>1 DEF PendingInv, JoinedIsBehind, IsBehind, Lives
<1>5. ASSUME NEW s \in Epochs PROVE (LossPends(worker[s]) /\ ReportPends(worker[s]))'
  BY <1>1, <1>2 DEF PendingInv, LossPends, ReportPends, Completed, Lives
<1> QED
  BY <1>3, <1>4, <1>5

(* A worker that is held goes on over quiet results. *)
LEMMA HeldShrinks ==
    ASSUME TypeOK, EffectReceive, Held(Len(results))
    PROVE  /\ UNCHANGED <<inbox, worker, effect, handle, task>>
           /\ Held(Len(results))'
<1> DEFINE r == Head(results)
<1>1. results # <<>> /\ results' = Tail(results) /\ EffectMove(r)
  BY EffectMoves
<1>2. /\ Len(results) \in Nat /\ Len(results) >= 1 /\ Len(results') = Len(results) - 1
      /\ r = results[1]
      /\ \A i \in 1 .. Len(results) - 1 : results'[i] = results[i + 1]
  BY <1>1, EntryTypes, TailEntries
<1>3. 1 \in 1 .. Len(results)
  BY <1>2
<1>4. Quiet(r)
  BY <1>2, <1>3 DEF Held
<1>5. UNCHANGED <<inbox, worker, effect, handle, task>>
  BY <1>1, <1>4, QuietIsIgnored
<1>6. \A j \in 1 .. Len(results') : j + 1 \in 1 .. Len(results) /\ results'[j] = results[j + 1]
  BY <1>2
<1>7. \A j \in 1 .. Len(results') : Quiet(results'[j])
  BY <1>6 DEF Held
<1> QED
  BY <1>5, <1>7 DEF Held, Quiet

(* What the effect thread does while both threads live. *)
LEMMA ReceiveMoves ==
    ASSUME TypeOK, OrderInv, EffectReceive, Both'
    PROVE  /\ Both /\ effect = "receiving" /\ results # <<>> /\ results' = Tail(results)
           /\ Head(results) = results[1] /\ 1 \in 1 .. Len(results)
           /\ Head(results) \in Results
           /\ \/ Ignores(Head(results)) \/ Spawns(Head(results)) \/ HandsOver(Head(results))
              \/ Answers(Head(results)) \/ FindsNobody(Head(results))
              \/ GivesUp(Head(results)) /\ Head(results).effect \in ShutdownEffects
<1> DEFINE r == Head(results)
<1>1. /\ effect = "receiving" /\ results # <<>> /\ control' = control /\ results' = Tail(results)
      /\ r \in Results /\ EffectMove(r)
  BY EffectMoves
<1>2. Both
  BY <1>1 DEF Both, ControlAlive, EffectAlive, EffectExits
<1>3. r = results[1] /\ 1 \in 1 .. Len(results)
  BY <1>1, EntryTypes, TailEntries
<1>4. r.event # "ControlError"
  BY <1>2, <1>3 DEF OrderInv, Both
<1> HIDE DEF r
<1>5. ~IsOver(r)
  BY <1>2, <1>4 DEF IsOver, Both
<1>6. ~Returns(r)
  BY DEF Returns, Both, EffectAlive
<1>7. GivesUp(r) => r.effect \in ShutdownEffects
  BY <1>5 DEF GivesUp
<1> USE DEF r
<1> QED
  BY <1>1, <1>2, <1>3, <1>6, <1>7 DEF EffectMove

(* No worker but the one that is spawned is changed in what is pending. *)
LEMMA ReceiveWorkers ==
    ASSUME TypeOK, NEW r \in Results,
           Ignores(r) \/ Spawns(r) \/ HandsOver(r) \/ Answers(r) \/ FindsNobody(r) \/ GivesUp(r)
    PROVE  \A s \in Epochs :
              \/ /\ worker'[s].phase = worker[s].phase
                 /\ worker'[s].feedback = worker[s].feedback
                 /\ worker'[s].pipeline = worker[s].pipeline
                 /\ worker'[s].running = worker[s].running
                 /\ worker'[s].reported = worker[s].reported
                 /\ ~HandsOver(r) \/ s # handle => worker'[s].queue = worker[s].queue
              \/ Spawns(r) /\ s = r.epoch /\ worker'[s] = Spawned(r.epoch)
<1>1. worker \in [Epochs -> Workers] /\ (handle # NoSession => handle \in Epochs)
      /\ r.epoch \in Epochs
  BY DEF TypeOK, WorkerTypeOK, EffectTypeOK, Results
<1>2. CASE Ignores(r) \/ Answers(r) \/ FindsNobody(r)
  BY <1>2 DEF Ignores, Answers, FindsNobody
<1>3. CASE Spawns(r)
  BY <1>1, <1>3 DEF Spawns
<1>4. CASE HandsOver(r)
  BY <1>1, <1>4 DEF HandsOver, Workers
<1>5. CASE GivesUp(r)
  BY <1>1, <1>5 DEF GivesUp, Workers
<1> QED
  BY <1>2, <1>3, <1>4, <1>5

(* The effect thread carries out or answers what was pending with it. *)
LEMMA ReceiveKeepsPending ==
    ASSUME TypeOK, EpochInv, OrderInv, EffectInv, PendingInv, EffectReceive,
           UNCHANGED <<state, epoch>>
    PROVE  PendingInv'
<1> DEFINE r == Head(results)
<1> SUFFICES ASSUME Both'
             PROVE  /\ PreparationPends'
                    /\ JoinedIsBehind'
                    /\ \A s \in Epochs : (LossPends(worker[s]) /\ ReportPends(worker[s]))'
  BY DEF PendingInv
<1>1. /\ Both /\ effect = "receiving" /\ results # <<>> /\ results' = Tail(results)
      /\ r = results[1] /\ 1 \in 1 .. Len(results) /\ r \in Results
      /\ \/ Ignores(r) \/ Spawns(r) \/ HandsOver(r) \/ Answers(r) \/ FindsNobody(r)
         \/ GivesUp(r) /\ r.effect \in ShutdownEffects
  BY ReceiveMoves
<1>2. /\ Len(results) \in Nat /\ Len(results) >= 1 /\ Len(results') = Len(results) - 1
      /\ \A i \in 1 .. Len(results) - 1 : results'[i] = results[i + 1]
  BY <1>1, EntryTypes, TailEntries
<1>3. /\ PreparationPends /\ JoinedIsBehind /\ ResultOrder /\ EpochChain
      /\ \A s \in Epochs : LossPends(worker[s]) /\ ReportPends(worker[s])
  BY <1>1 DEF PendingInv, OrderInv, EpochInv, Both
<1>e. /\ r.epoch \in Epochs /\ r.epoch \in Int /\ epoch \in Int
      /\ (handle # NoSession => handle \in Epochs)
      /\ worker \in [Epochs -> Workers]
  BY <1>1, EntryTypes DEF Results, TypeOK, EffectTypeOK, WorkerTypeOK
<1>h. Held(Len(results)) => UNCHANGED <<worker, inbox>> /\ Held(Len(results))'
  BY HeldShrinks
<1>p. (\E s \in Epochs : PreparesNow(worker[s])) => Held(Len(results))
  BY <1>1 DEF EffectInv, PreparationIsHeld, UnderPreparation, Both
<1>d. /\ Delivered = EpochBefore(r) /\ (Opens(r) => Delivered < r.epoch) /\ r.epoch <= epoch
  <2>1. Delivered = EpochBefore(r)
    BY <1>1 DEF Delivered
  <2> QED
    BY <1>1, <1>3, <2>1 DEF ResultOrder
<1> HIDE DEF r
<1>m. inbox' = inbox \/ \E m \in Messages : inbox' = Append(inbox, m)
  <2>1. \A s \in Epochs : [type |-> "Failed", epoch |-> r.epoch, session |-> s] \in Messages
    BY <1>e DEF Messages, Feedbacks
  <2> QED
    BY <1>1, <2>1 DEF Ignores, Spawns, HandsOver, Answers, FindsNobody, GivesUp
<1>4. \A t : Arrived(t) => Arrived(t)'
  BY <1>m, ArrivedStays
<1>5. PreparationPends'
  <2> SUFFICES ASSUME state = "Preparing"
               PROVE  \/ \E i \in 1 .. Len(results') :
                            results'[i].effect = "BeginPrepare" /\ results'[i].epoch = epoch
                      \/ Arrived("PreparationCompleted")' \/ Arrived("Failed")'
                      \/ \E s \in Epochs : PreparesNow(worker[s])'
                      \/ /\ Held(Len(results))'
                         /\ \E s \in Epochs :
                               worker'[s].phase = "panicked" /\ worker'[s].feedback = epoch
    BY DEF PreparationPends
  <2>1. ASSUME NEW i \in 1 .. Len(results),
               results[i].effect = "BeginPrepare", results[i].epoch = epoch
        PROVE  \/ \E k \in 1 .. Len(results') :
                     results'[k].effect = "BeginPrepare" /\ results'[k].epoch = epoch
               \/ Arrived("Failed")'
               \/ \E s \in Epochs : PreparesNow(worker[s])'
    <3>1. CASE i # 1
      <4>1. i - 1 \in 1 .. Len(results') /\ results'[i - 1] = results[i]
        <5>1. i - 1 \in 1 .. Len(results) - 1 /\ (i - 1) + 1 = i
          BY <1>2, <3>1
        <5> QED
          BY <1>2, <5>1
      <4> QED
        BY <2>1, <4>1
    <3>2. CASE i = 1
      <4>1. r.effect = "BeginPrepare" /\ r.epoch = epoch
        BY <1>1, <2>1, <3>2
      <4>2. CASE Spawns(r)
        <5>1. worker'[epoch] = Spawned(epoch) /\ epoch \in Epochs
          BY <1>e, <4>1, <4>2 DEF Spawns
        <5>2. PreparesNow(worker[epoch])'
          BY <5>1 DEF PreparesNow, PrepPhases, Spawned, Absent
        <5> QED
          BY <5>1, <5>2 DEF PreparesNow
      <4>3. CASE Answers(r)
        <5>1. PICK s \in Epochs :
                 inbox' = Append(inbox, [type |-> "Failed", epoch |-> r.epoch, session |-> s])
          BY <4>3 DEF Answers
        <5>2. PICK x \in Messages :
                 x = [type |-> "Failed", epoch |-> r.epoch, session |-> s]
          BY <1>e DEF Messages, Feedbacks
        <5>3. inbox' = Append(inbox, x) /\ x.epoch = epoch /\ x.type = "Failed"
          BY <4>1, <5>1, <5>2
        <5> QED
          BY <5>3, ArrivedTold
      <4> QED
        BY <1>1, <4>1, <4>2, <4>3
           DEF Ignores, Quiet, HandsOver, PlayEffects, FindsNobody, ShutdownEffects
    <3> QED
      BY <3>1, <3>2
  <2>2. Held(Len(results)) => \A s \in Epochs : PreparesNow(worker[s]) => PreparesNow(worker[s])'
    BY <1>h DEF PreparesNow
  <2> QED
    BY <1>3, <1>4, <1>h, <1>p, <2>1, <2>2 DEF PreparationPends
<1>6. JoinedIsBehind'
  <2> SUFFICES ASSUME effect' = "joining" PROVE IsBehind(worker[task.session])'
    BY DEF JoinedIsBehind
  <2>1. GivesUp(r) /\ r.effect \in ShutdownEffects
    BY <1>1 DEF Ignores, Spawns, HandsOver, Answers, FindsNobody
  <2>2. Delivered < r.epoch
    BY <1>d, <2>1 DEF Opens, ShutdownEffects
  <2>3. /\ handle # NoSession /\ handle \in Epochs /\ task'.session = handle
        /\ worker' = [worker EXCEPT ![handle] = [worker[handle] EXCEPT !.cancel = TRUE]]
    BY <1>e, <2>1 DEF GivesUp
  <2>4. PICK w \in Workers : w = worker[handle] /\ QueueSorted(w)
    BY <1>e, <2>3 DEF OrderInv
  <2>5. PICK v : v = worker'[handle] /\ v.phase = w.phase /\ v.feedback = w.feedback /\ v.queue = w.queue
    BY <1>e, <2>3, <2>4 DEF Workers
  <2>6. Lives(w) => LastEpoch(w) = Delivered
    BY <1>1, <2>3, <2>4 DEF EpochInv, HandleAtEpoch, Live, Lives
  <2>7. /\ LastEpoch(w) \in Int /\ w.feedback <= LastEpoch(w)
        /\ \A i \in 1 .. Len(w.queue) : w.queue[i].epoch <= LastEpoch(w)
    BY <2>4, LastIsLargest
  <2>8. w.feedback \in Int /\ \A i \in 1 .. Len(w.queue) : w.queue[i].epoch \in Int
    BY <2>4, WorkerTypes
  <2>9. Lives(w) => w.feedback # epoch /\ \A i \in 1 .. Len(w.queue) : w.queue[i].epoch # epoch
    BY <1>d, <1>e, <2>2, <2>6, <2>7, <2>8
  <2>10. worker'[task'.session] = v
    BY <2>3, <2>5
  <2> QED
    BY <2>5, <2>9, <2>10 DEF IsBehind, Lives
<1>7. ASSUME NEW s \in Epochs PROVE (LossPends(worker[s]) /\ ReportPends(worker[s]))'
  <2>1. \/ /\ worker'[s].phase = worker[s].phase
           /\ worker'[s].feedback = worker[s].feedback
           /\ worker'[s].pipeline = worker[s].pipeline
           /\ worker'[s].reported = worker[s].reported
        \/ worker'[s] = Spawned(r.epoch)
    BY <1>1, ReceiveWorkers
  <2>2. LossPends(worker[s]) /\ ReportPends(worker[s])
    BY <1>3
  <2>3. CASE worker'[s] = Spawned(r.epoch)
    <3>1. Spawned(r.epoch).phase \in PrepPhases /\ ~Spawned(r.epoch).reported
      BY DEF Spawned, Absent, PrepPhases
    <3> QED
      BY <2>3, <3>1 DEF LossPends, ReportPends
  <2>4. CASE worker'[s] # Spawned(r.epoch)
    BY <1>4, <2>1, <2>2, <2>4 DEF LossPends, ReportPends, Lives, Completed
  <2> QED
    BY <2>3, <2>4
<1> QED
  BY <1>5, <1>6, <1>7

(* The join of an old worker settles nothing of this epoch. *)
LEMMA JoinedKeepsPending ==
    ASSUME TypeOK, OwnershipInv, EffectInv, PendingInv, EffectJoined, UNCHANGED <<state, epoch>>
    PROVE  PendingInv'
<1> SUFFICES ASSUME Both'
             PROVE  /\ PreparationPends'
                    /\ JoinedIsBehind'
                    /\ \A s \in Epochs : (LossPends(worker[s]) /\ ReportPends(worker[s]))'
  BY DEF PendingInv
<1>1. /\ effect = "joining" /\ UNCHANGED <<results, handle, control>>
      /\ worker' = [worker EXCEPT ![task.session] = Absent]
      /\ inbox' = inbox \/ inbox' = Append(inbox, [type |-> "Failed", epoch |-> task.epoch,
                                                   session |-> task.session])
  BY DEF EffectJoined
<1>2. effect' # "joining"
  BY DEF EffectJoined, TypeOK, EffectTypeOK, Tasks, EffectExits
<1>3. Both
  BY <1>1 DEF Both, ControlAlive, EffectAlive, EffectExits
<1>4. \A t : Arrived(t) => Arrived(t)'
  <2>1. [type |-> "Failed", epoch |-> task.epoch, session |-> task.session] \in Messages
    BY DEF TypeOK, EffectTypeOK, Tasks, Messages, Feedbacks
  <2> QED
    BY <1>1, <2>1, ArrivedStays
<1>5. \A n : ~Held(n)
  BY <1>1 DEF Held
<1>6. \A s \in Epochs : ~PreparesNow(worker[s])
  BY <1>3, <1>5 DEF EffectInv, PreparationIsHeld, UnderPreparation, Both
<1>7. PreparationPends'
  BY <1>1, <1>3, <1>4, <1>5, <1>6 DEF PendingInv, PreparationPends
<1>8. ASSUME NEW s \in Epochs PROVE (LossPends(worker[s]) /\ ReportPends(worker[s]))'
  <2>1. worker'[s] = worker[s] \/ worker'[s] = Absent
    BY <1>1 DEF TypeOK, WorkerTypeOK
  <2>2. ~Lives(Absent)
    BY DEF Lives, Absent
  <2>3. LossPends(worker[s]) /\ ReportPends(worker[s])
    BY <1>3 DEF PendingInv
  <2> QED
    BY <1>4, <2>1, <2>2, <2>3 DEF LossPends, ReportPends, Lives, Completed
<1> QED
  BY <1>2, <1>7, <1>8 DEF JoinedIsBehind

(* What a worker tells of its losses and its completion. *)
LEMMA MoveTells ==
    ASSUME TypeOK, epoch' = epoch, state' = state, NEW s \in Epochs,
           NEW w \in Workers, NEW v \in Workers, Lives(w), Shaped(w), WorkerMove(s, w, v),
           w.phase = "prepared" => w.pipeline # NoPipeline,
           LossPends(w), ReportPends(w),
           \A t : Arrived(t) => Arrived(t)'
    PROVE  LossPends(v)' /\ ReportPends(v)'
<1>f. "Failed" \in Feedbacks /\ "PlaybackCompleted" \in Feedbacks
  BY DEF Feedbacks
<1>t. ASSUME NEW t \in Feedbacks, Says(s, t, v), v.feedback = epoch PROVE Arrived(t)'
  <2>1. /\ Message(t, v, s) \in Messages /\ inbox' = Append(inbox, Message(t, v, s))
        /\ Message(t, v, s).type = t /\ Message(t, v, s).epoch = v.feedback
    BY <1>t, SaysMessage
  <2>2. PICK m \in Messages : m = Message(t, v, s)
    BY <2>1
  <2> QED
    BY <1>t, <2>1, <2>2, ArrivedTold
<1>c. Completed => Completed'
  BY DEF Completed
<1>e. w.feedback \in Epochs /\ v.feedback \in Epochs /\ NoPipeline \notin Epochs
  BY MaxEpochAssumption DEF Workers, NoPipeline, Epochs
<1> SUFFICES ASSUME v.feedback = epoch, Lives(v)
             PROVE  /\ v.phase \notin PrepPhases /\ v.pipeline = NoPipeline => Arrived("Failed")'
                    /\ v.reported => Completed'
  BY DEF LossPends, ReportPends, Lives
<1>1. CASE Ends(s, w, v)
  BY <1>1 DEF Ends, Lives
<1>2. CASE Fails(s, w, v)
  BY <1>2, <1>f, <1>t DEF Fails, NoPipelineLeft
<1>3. CASE Begins(s, w, v) \/ Builds(s, w, v)
  BY <1>3, <1>c DEF Begins, Builds, SameQueue, SamePipeline, PrepPhases, ReportPends
<1>4. CASE Prepares(s, w, v)
  BY <1>4, <1>c DEF Prepares, SameQueue, SamePipeline, ReportPends
<1>5. CASE Starts(s, w, v) \/ Pauses(s, w, v)
  BY <1>5, <1>c DEF Starts, Pauses, TakesCommand, Shaped, ReportPends
<1>6. CASE Seeks(s, w, v)
  BY <1>6, <1>e DEF Seeks, TakesCommand
<1>7. CASE Reports(s, w, v) \/ Rests(s, w, v)
  BY <1>7, <1>c
     DEF Reports, Rests, SameQueue, SamePipeline, ReportPends, LossPends, LoopPhases, PrepPhases
<1>8. CASE Completes(s, w, v)
  BY <1>8, <1>f, <1>t DEF Completes, Shaped, Completed
<1> QED
  BY <1>1, <1>2, <1>3, <1>4, <1>5, <1>6, <1>7, <1>8 DEF WorkerMove

(* A held worker is the handle's; it is not asked to stop. *)
LEMMA HeldIsHandle ==
    ASSUME OwnershipInv, OrderInv, effect = "receiving", NEW s \in Epochs,
           worker[s].phase # "absent"
    PROVE  handle = s /\ ~worker[s].cancel
BY NoSessionIsNone DEF OwnershipInv, Owned, OrderInv, HandleIsOn

(* A worker goes on with what is pending, tells the control thread, or panics. *)
LEMMA WorkerKeepsPending ==
    ASSUME TypeOK, OwnershipInv, FreshInv, TalkInv, OrderInv, EffectInv, PendingInv,
           NEW s \in Epochs, WorkerNext(s), UNCHANGED <<state, epoch, handle, task>>
    PROVE  PendingInv'
<1> DEFINE w == worker[s]
<1> SUFFICES ASSUME Both'
             PROVE  /\ PreparationPends'
                    /\ JoinedIsBehind'
                    /\ \A t \in Epochs : (LossPends(worker[t]) /\ ReportPends(worker[t]))'
  BY DEF PendingInv
<1>1. PICK v \in Workers :
          WorkerMove(s, w, v) /\ v.cancel = w.cancel /\ worker' = [worker EXCEPT ![s] = v]
  BY WorkerMoves DEF TypeOK
<1>2. UNCHANGED <<results, control, effect>> /\ Live(s)
  BY WorkerStepsAlone DEF WorkerNext
<1>3. worker'[s] = v /\ \A t \in Epochs \ {s} : worker'[t] = worker[t]
  BY <1>1 DEF TypeOK, WorkerTypeOK
<1>b. Both
  BY <1>2 DEF Both, ControlAlive, EffectAlive
<1>w. /\ w \in Workers /\ Lives(w) /\ Shaped(w) /\ WorkerTalks(w) /\ QueueSorted(w)
      /\ w.phase = "prepared" => w.pipeline # NoPipeline
      /\ LossPends(w) /\ ReportPends(w)
  BY <1>2, <1>b DEF TypeOK, WorkerTypeOK, Live, Lives, TalkInv, WorkersTalk, OrderInv, PendingInv, Both
<1>m. inbox' = inbox \/ \E m \in Messages : inbox' = Append(inbox, m)
  <2>1. inbox' = inbox \/ \E t \in Feedbacks : Says(s, t, v)
    BY <1>1, <1>w, WorkerOutcome
  <2> QED
    BY <2>1, SaysMessage
<1>4. \A t : Arrived(t) => Arrived(t)'
  BY <1>m, ArrivedStays
<1>u. effect = "receiving" => ~w.cancel
  BY <1>w, HeldIsHandle DEF Lives
<1>q. w.queue # <<>> => w.feedback <= Head(w.queue).epoch /\ Head(w.queue).epoch <= epoch
                        /\ Head(w.queue).epoch \in Int
  <2> SUFFICES ASSUME w.queue # <<>>
               PROVE  w.feedback <= Head(w.queue).epoch /\ Head(w.queue).epoch <= epoch
                      /\ Head(w.queue).epoch \in Int
    OBVIOUS
  <2>1. Head(w.queue) = w.queue[1] /\ 1 \in 1 .. Len(w.queue)
    BY <1>w, WorkerTypes, TailEntries
  <2>2. w.queue[1].epoch <= epoch
    BY <2>1 DEF FreshInv, WorkersFresh, Usable
  <2>3. w.queue[1].epoch \in Int
    BY <1>w, <2>1, WorkerTypes
  <2> QED
    BY <1>w, <2>1, <2>2, <2>3 DEF QueueSorted
<1>5. /\ PreparationPends /\ JoinedIsBehind
      /\ \A t \in Epochs : LossPends(worker[t]) /\ ReportPends(worker[t])
  BY <1>b DEF PendingInv
<1>h. PreparesNow(w) => Held(Len(results))
  BY <1>b DEF EffectInv, PreparationIsHeld, UnderPreparation, Both
<1>i. epoch \in Int /\ w.feedback \in Int
  BY EntryTypes
<1> HIDE DEF w
<1>6. JoinedIsBehind'
  <2>1. IsBehind(w) => IsBehind(v)
    <3>1. CASE SameQueue(w, v) \/ TakesCommand(w, v)
      BY <1>w, <3>1, QueueMoves
    <3>2. CASE ~(SameQueue(w, v) \/ TakesCommand(w, v))
      <4>1. v.phase \in {"panicked", "exited"}
        BY <1>1, <3>2 DEF WorkerMove, Ends, Fails, Begins, Builds, Prepares, Starts, Pauses, Seeks,
                          Reports, Completes, Rests
      <4> QED
        BY <4>1 DEF IsBehind, Lives
    <3> QED
      BY <3>1, <3>2
  <2>2. task.session \in Epochs
    BY DEF TypeOK, EffectTypeOK, Tasks
  <2>3. effect = "joining" => IsBehind(worker'[task.session])
    BY <1>3, <1>5, <2>1, <2>2 DEF JoinedIsBehind, w
  <2> QED
    BY <1>2, <2>3 DEF JoinedIsBehind, IsBehind, Lives
<1>7. LossPends(v)' /\ ReportPends(v)'
  BY <1>1, <1>w, <1>4, MoveTells
<1>8. ASSUME NEW t \in Epochs PROVE (LossPends(worker[t]) /\ ReportPends(worker[t]))'
  <2>1. CASE t = s
    BY <1>3, <1>7, <2>1 DEF LossPends, ReportPends, Lives, Completed
  <2>2. CASE t # s
    BY <1>3, <1>4, <1>5, <2>2 DEF LossPends, ReportPends, Lives, Completed
  <2> QED
    BY <2>1, <2>2
<1>9. PreparationPends'
  <2> DEFINE Goal == \/ Arrived("PreparationCompleted")' \/ Arrived("Failed")'
                     \/ \E t \in Epochs : PreparesNow(worker[t])'
                     \/ /\ Held(Len(results))'
                        /\ \E t \in Epochs :
                              worker'[t].phase = "panicked" /\ worker'[t].feedback = epoch
  <2>h. Held(Len(results)) => Held(Len(results))'
    BY <1>2 DEF Held, Quiet
  <2>1. ASSUME PreparesNow(w) PROVE Goal
    <3>0. w.phase \in PrepPhases /\ w.feedback = epoch /\ Held(Len(results)) /\ effect = "receiving"
      BY <1>h, <2>1 DEF PreparesNow, Held
    <3>1. CASE Ends(s, w, v)
      <4>1. v.phase = "panicked"
        BY <1>b, <1>u, <3>0, <3>1 DEF Ends, Both
      <4>2. v.feedback = epoch
        BY <1>i, <1>q, <3>0, <3>1 DEF Ends
      <4> QED
        BY <1>3, <2>h, <3>0, <4>1, <4>2
    <3>2. CASE Fails(s, w, v)
      <4>1. v.feedback = epoch /\ Says(s, "Failed", v) /\ "Failed" \in Feedbacks
        BY <3>0, <3>2 DEF Fails, SameQueue, PrepPhases, Feedbacks
      <4>2. PICK m \in Messages : /\ m = Message("Failed", v, s) /\ inbox' = Append(inbox, m)
                                  /\ m.type = "Failed" /\ m.epoch = v.feedback
        BY <4>1, SaysMessage
      <4>3. Arrived("Failed")'
        BY <4>1, <4>2, ArrivedTold
      <4> QED
        BY <4>3
    <3>3. CASE Begins(s, w, v) \/ Builds(s, w, v)
      <4>1. v.phase \in PrepPhases /\ v.feedback = epoch
        BY <3>0, <3>3 DEF Begins, Builds, SameQueue, PrepPhases
      <4>2. PreparesNow(worker[s])'
        BY <1>3, <4>1 DEF PreparesNow
      <4> QED
        BY <4>2 DEF PreparesNow
    <3>4. CASE Prepares(s, w, v)
      <4>1. /\ v.feedback = epoch /\ Says(s, "PreparationCompleted", v)
            /\ "PreparationCompleted" \in Feedbacks
        BY <3>0, <3>4 DEF Prepares, SameQueue, Feedbacks
      <4>2. PICK m \in Messages : /\ m = Message("PreparationCompleted", v, s)
                                  /\ inbox' = Append(inbox, m)
                                  /\ m.type = "PreparationCompleted" /\ m.epoch = v.feedback
        BY <4>1, SaysMessage
      <4>3. Arrived("PreparationCompleted")'
        BY <4>1, <4>2, ArrivedTold
      <4> QED
        BY <4>3
    <3> HIDE DEF Goal
    <3> QED
      BY <1>1, <3>0, <3>1, <3>2, <3>3, <3>4
         DEF WorkerMove, Starts, Pauses, Seeks, Reports, Completes, Rests, PrepPhases, LoopPhases
  <2>2. ASSUME NEW t \in Epochs, PreparesNow(worker[t]) PROVE Goal
    <3>1. CASE t = s
      BY <2>1, <2>2, <3>1 DEF w
    <3>2. CASE t # s
      BY <1>3, <2>2, <3>2 DEF PreparesNow
    <3> QED
      BY <3>1, <3>2
  <2>3. ASSUME NEW t \in Epochs, worker[t].phase = "panicked", worker[t].feedback = epoch,
               Held(Len(results))
        PROVE  Goal
    <3>1. t # s
      BY <1>w, <2>3 DEF Lives, w
    <3> QED
      BY <1>3, <2>3, <2>h, <3>1
  <2>4. PreparationPends
    BY <1>5
  <2>5. /\ Arrived("PreparationCompleted") => Goal
        /\ Arrived("Failed") => Goal
    BY <1>4
  <2>6. state = "Preparing" =>
           \/ \E i \in 1 .. Len(results) :
                 results[i].effect = "BeginPrepare" /\ results[i].epoch = epoch
           \/ Goal
    <3> HIDE DEF Goal
    <3> QED
      BY <2>2, <2>3, <2>4, <2>5 DEF PreparationPends
  <2> QED
    BY <1>2, <2>6 DEF PreparationPends
<1> QED
  BY <1>6, <1>8, <1>9

(* What is promised stays pending. *)
LEMMA PendingNext ==
    /\ TypeOK /\ OwnershipInv /\ FreshInv /\ TalkInv /\ EpochInv /\ EffectInv /\ OrderInv
    /\ PendingInv /\ [Next]_vars
    => PendingInv'
<1> SUFFICES ASSUME TypeOK, OwnershipInv, FreshInv, TalkInv, EpochInv, EffectInv, OrderInv,
                    PendingInv, [Next]_vars
             PROVE  PendingInv'
  OBVIOUS
<1>1. ASSUME NEW c \in Commands, Post([type |-> c, epoch |-> 0, session |-> 0]),
             UNCHANGED <<results, control, effect, state, epoch, worker, handle, task>>
      PROVE  PendingInv'
  <2>1. [type |-> c, epoch |-> 0, session |-> 0] \in Messages
    BY <1>1, MaxEpochAssumption DEF Messages, Epochs
  <2>2. inbox' = inbox \/ \E m \in Messages : inbox' = Append(inbox, m)
    BY <1>1, <2>1 DEF Post
  <2>3. ControlAlive' => ControlAlive
    BY <1>1 DEF ControlAlive
  <2> QED
    BY <1>1, <2>2, <2>3, PendingStays
<1>2. CASE EngineStart \/ ShutdownJoin \/ Stopped \/ UNCHANGED vars
  BY <1>2, PendingStays DEF EngineStart, ShutdownJoin, Stopped, vars, EffectExits, ControlAlive
<1>3. CASE UserSend
  BY <1>1, <1>3, UserCommandsAssumption DEF UserSend
<1>4. CASE ShutdownBegin
  <2>1. "Release" \in Commands
    BY DEF Commands
  <2> QED
    BY <1>1, <1>4, <2>1 DEF ShutdownBegin
<1>5. CASE ControlThread
  <2>1. CASE ControlReceive
    BY <1>5, <2>1, ControlKeepsPending DEF ControlThread
  <2>2. CASE ControlDisconnect
    BY <1>5, <2>2, PendingStays DEF ControlThread, ControlDisconnect, ControlAlive
  <2> QED
    BY <1>5, <2>1, <2>2 DEF ControlThread
<1>6. CASE EffectThread
  BY <1>6, ReceiveKeepsPending, JoinedKeepsPending DEF EffectThread
<1>7. ASSUME NEW s \in Epochs, WorkerThread(s) PROVE PendingInv'
  BY <1>7, WorkerKeepsPending DEF WorkerThread
<1> QED
  BY <1>2, <1>3, <1>4, <1>5, <1>6, <1>7 DEF Next

-----------------------------------------------------------------------------
(***************************************************************************)
(* What is done.  The worker held will have done, once its queue is empty, *)
(* what the user was told: the last command of the queue says so, or the   *)
(* pipeline does.  A completion that anyone knows of was that of the       *)
(* worker held, and nothing since has made it old.                         *)
(***************************************************************************)
HasWork(w) == Lives(w) /\ (w.phase \in PrepPhases \/ w.pipeline # NoPipeline)

(* The worker does, or is going to do, what belongs to the player state `told`. *)
Obeys(w, told) ==
    /\ w.queue = <<>> /\ ~w.reported => (w.running <=> told = "Playing")
    /\ w.queue # <<>> =>
          LET c == w.queue[Len(w.queue)] IN
          /\ c.action = "StartPlayback" => told \in {"Playing", "Ended"}
          /\ c.action = "PausePlayback" => told \in {"Paused", "Ended"}
          /\ c.action = "Seek" => (c.resume <=> told = "Playing")

HandleObeys ==
    effect = "receiving" /\ handle # NoSession /\ HasWork(worker[handle]) =>
        Obeys(worker[handle], seen)

(* The worker held has reported the completion of epoch e, the one delivered. *)
WasCompleted(e) ==
    /\ effect = "receiving" /\ handle # NoSession /\ Delivered = e
    /\ HasWork(worker[handle]) => worker[handle].feedback = e /\ worker[handle].reported

Finishes(r) == r.before # "Ended" /\ r.after = "Ended"

CompletionsHold ==
    /\ effect = "receiving" /\ seen = "Ended" => WasCompleted(Delivered)
    /\ \A i \in 1 .. Len(results) : Finishes(results[i]) => WasCompleted(results[i].epoch)
    /\ Arrived("PlaybackCompleted") => WasCompleted(epoch)

DoneInv == Both => HandleObeys /\ CompletionsHold

(* A worker that has work had it before. *)
LEMMA WorkIsKept ==
    ASSUME NEW s \in Epochs, NEW w, NEW v, Lives(w), WorkerMove(s, w, v), HasWork(v)
    PROVE  HasWork(w)
BY DEF WorkerMove, Ends, Fails, Begins, Builds, Prepares, Starts, Pauses, Seeks, Reports,
       Completes, Rests, HasWork, Lives, NoPipelineLeft, SamePipeline, PrepPhases, LoopPhases

(* The command taken was the last, or the last is as it was. *)
LEMMA LastStays ==
    ASSUME NEW w \in Workers, NEW v \in Workers, TakesCommand(w, v)
    PROVE  /\ v.queue = <<>> => w.queue[Len(w.queue)] = Head(w.queue)
           /\ v.queue # <<>> => v.queue[Len(v.queue)] = w.queue[Len(w.queue)]
           /\ w.queue # <<>>
<1>1. w.queue # <<>> /\ v.queue = Tail(w.queue)
  BY DEF TakesCommand
<1>2. w.queue \in Seq(WorkerCommands) /\ v.queue \in Seq(WorkerCommands)
  BY DEF Workers
<1>3. /\ Len(w.queue) \in Nat /\ Len(w.queue) >= 1 /\ Len(v.queue) = Len(w.queue) - 1
      /\ Head(w.queue) = w.queue[1]
      /\ \A i \in 1 .. Len(w.queue) - 1 : v.queue[i] = w.queue[i + 1]
  BY <1>1, <1>2, TailEntries
<1>4. v.queue = <<>> <=> Len(v.queue) = 0
  BY <1>2
<1> DEFINE q == w.queue
           p == v.queue
<1>5. CASE p = <<>>
  <2>1. Len(q) = 1
    BY <1>3, <1>4, <1>5
  <2> QED
    BY <1>1, <1>3, <1>5, <2>1
<1>6. CASE p # <<>>
  <2> HIDE DEF p, q
  <2>1. Len(p) \in 1 .. Len(q) - 1 /\ Len(p) + 1 = Len(q)
    BY <1>3, <1>4, <1>6 DEF p, q
  <2>2. p[Len(p)] = q[Len(p) + 1]
    BY <1>3, <2>1 DEF p, q
  <2> QED
    BY <1>1, <1>6, <2>1, <2>2 DEF p, q
<1> QED
  BY <1>5, <1>6

(* A worker goes on to obey. *)
LEMMA MoveObeys ==
    ASSUME NEW s \in Epochs, NEW w \in Workers, NEW v \in Workers, Lives(w),
           WorkerMove(s, w, v), HasWork(v), NEW told, Obeys(w, told), told = "Ended" => w.reported
    PROVE  Obeys(v, told)
<1>1. CASE Ends(s, w, v) \/ Fails(s, w, v)
  BY <1>1 DEF Ends, Fails, HasWork, Lives, NoPipelineLeft, PrepPhases
<1>2. CASE Begins(s, w, v) \/ Builds(s, w, v) \/ Prepares(s, w, v) \/ Reports(s, w, v)
           \/ Rests(s, w, v)
  <2>1. v.queue = w.queue /\ v.running = w.running /\ v.reported = w.reported
    BY <1>2 DEF Begins, Builds, Prepares, Reports, Rests, SameQueue, SamePipeline
  <2> QED
    BY <2>1 DEF Obeys
<1>3. CASE Completes(s, w, v)
  <2>1. v.queue = w.queue /\ v.reported
    BY <1>3 DEF Completes, SameQueue
  <2> QED
    BY <2>1 DEF Obeys
<1>4. CASE Starts(s, w, v) \/ Pauses(s, w, v) \/ Seeks(s, w, v)
  <2> DEFINE c == Head(w.queue)
  <2>1. TakesCommand(w, v)
    BY <1>4 DEF Starts, Pauses, Seeks
  <2>2. /\ v.queue = <<>> => w.queue[Len(w.queue)] = c
        /\ v.queue # <<>> => v.queue[Len(v.queue)] = w.queue[Len(w.queue)]
        /\ w.queue # <<>>
    BY <2>1, LastStays
  <2>3. CASE v.queue # <<>>
    BY <2>2, <2>3 DEF Obeys
  <2>4. CASE v.queue = <<>>
    <3>1. /\ c.action = "StartPlayback" => told \in {"Playing", "Ended"}
          /\ c.action = "PausePlayback" => told \in {"Paused", "Ended"}
          /\ c.action = "Seek" => (c.resume <=> told = "Playing")
      BY <2>2, <2>4 DEF Obeys
    <3>t. w.reported \in BOOLEAN /\ w.running \in BOOLEAN /\ v.running \in BOOLEAN
      BY WorkerTypes
    <3>2. CASE Starts(s, w, v)
      <4>1. c.action = "StartPlayback" /\ v.reported = w.reported /\ (v.running <=> w.running \/ ~w.reported)
        BY <3>2 DEF Starts
      <4> QED
        BY <2>4, <3>1, <4>1 DEF Obeys
    <3>3. CASE Pauses(s, w, v)
      <4>1. c.action = "PausePlayback" /\ ~v.running
        BY <3>3 DEF Pauses
      <4> QED
        BY <2>4, <3>1, <4>1 DEF Obeys
    <3>4. CASE Seeks(s, w, v)
      <4>1. c.action = "Seek" /\ v.running = c.resume
        BY <3>4 DEF Seeks
      <4> QED
        BY <2>4, <3>1, <4>1 DEF Obeys
    <3> QED
      BY <1>4, <3>2, <3>3, <3>4
  <2> QED
    BY <2>3, <2>4
<1> QED
  BY <1>1, <1>2, <1>3, <1>4 DEF WorkerMove

(* A completion stays reported until a Seek is applied. *)
LEMMA MoveKeepsCompletion ==
    ASSUME NEW s \in Epochs, NEW w \in Workers, NEW v \in Workers, Lives(w), Shaped(w),
           QueueSorted(w), WorkerMove(s, w, v), HasWork(v),
           w.feedback = LastEpoch(w), w.reported
    PROVE  v.feedback = w.feedback /\ v.reported
<1>1. CASE Ends(s, w, v) \/ Fails(s, w, v)
  BY <1>1 DEF Ends, Fails, HasWork, Lives, NoPipelineLeft, PrepPhases
<1>2. CASE Begins(s, w, v) \/ Builds(s, w, v) \/ Prepares(s, w, v) \/ Reports(s, w, v)
           \/ Rests(s, w, v) \/ Completes(s, w, v)
  BY <1>2 DEF Begins, Builds, Prepares, Reports, Rests, Completes, SameQueue, SamePipeline
<1>3. CASE Starts(s, w, v) \/ Pauses(s, w, v)
  BY <1>3 DEF Starts, Pauses, TakesCommand, Shaped
<1>4. CASE Seeks(s, w, v)
  <2>1. TakesCommand(w, v) /\ Head(w.queue).action = "Seek" /\ w.queue # <<>>
    BY <1>4 DEF Seeks, TakesCommand
  <2>2. Head(w.queue) = w.queue[1] /\ 1 \in 1 .. Len(w.queue)
    BY <2>1, WorkerTypes, TailEntries
  <2>3. w.feedback < w.queue[1].epoch
    BY <2>1, <2>2 DEF QueueSorted
  <2>4. w.queue[1].epoch <= LastEpoch(w)
    BY <2>2, LastIsLargest
  <2>5. w.feedback \in Int /\ w.queue[1].epoch \in Int
    BY <2>2, WorkerTypes
  <2> QED
    BY <2>3, <2>4, <2>5
<1> QED
  BY <1>1, <1>2, <1>3, <1>4 DEF WorkerMove

(* What was completed stays so, while the worker and the results delivered stay. *)
LEMMA CompletedStays ==
    ASSUME UNCHANGED <<effect, handle, worker>>, Delivered' = Delivered
    PROVE  \A e : WasCompleted(e)' <=> WasCompleted(e)
BY DEF WasCompleted, HasWork, Lives

(* The control thread learns of a completion, and tells it. *)
LEMMA ControlKeepsDone ==
    ASSUME TypeOK, FreshInv, EpochInv, DoneInv, ControlReceive,
           UNCHANGED <<worker, handle, seen>>
    PROVE  DoneInv'
<1> DEFINE m == Head(inbox)
<1>1. PICK r \in Results :
          /\ Reply(r)
          /\ r.before = state /\ r.after = state' /\ r.epoch = epoch'
          /\ ControlMove(m, r)
  BY ControlMoves
<1> SUFFICES ASSUME Both' PROVE HandleObeys' /\ CompletionsHold'
  BY DEF DoneInv
<1>2. ControlAlive /\ effect' = effect /\ EffectAlive /\ inbox # <<>>
  BY DEF ControlReceive, EffectAlive, Both
<1>3. /\ results' = Append(results, r) /\ inbox' = Tail(inbox)
  BY <1>1, <1>2 DEF Reply, Both, ControlAlive
<1>4. /\ Len(results) \in Nat /\ Len(results') = Len(results) + 1
      /\ results'[Len(results) + 1] = r
      /\ \A i \in 1 .. Len(results) : results'[i] = results[i]
  BY <1>3, EntryTypes, AppendEntries
<1>5. HandleObeys /\ CompletionsHold
  BY <1>2 DEF DoneInv, Both
<1>6. Delivered' = Delivered
  <2>1. EpochBefore(r) = epoch
    BY <1>1, EntryTypes, ControlSendsLegally
  <2> QED
    BY <1>1, <1>2, <1>3, <2>1, EpochChainGrows DEF EpochInv
<1>7. \A e : WasCompleted(e)' <=> WasCompleted(e)
  BY <1>2, <1>6, CompletedStays
<1>8. HandleObeys'
  BY <1>2, <1>5 DEF HandleObeys, HasWork, Lives, Obeys
<1>9. /\ Len(inbox) \in Nat /\ Len(inbox) >= 1 /\ m = inbox[1]
      /\ Len(inbox') = Len(inbox) - 1
      /\ \A i \in 1 .. Len(inbox) - 1 : inbox'[i] = inbox[i + 1]
  BY <1>2, <1>3, EntryTypes, TailEntries
<1>10. epoch \in Int /\ (epoch' = epoch \/ epoch' = epoch + 1)
  BY <1>1, EntryTypes DEF ControlMove, Accepts, LeavesPlayer, KeepPlayer, CompletesStage, FailsPlayer
<1>a. IsCurrent(m) /\ m.type = "PlaybackCompleted" => Arrived("PlaybackCompleted")
  <2>1. 1 \in 1 .. Len(inbox)
    BY <1>9
  <2> QED
    BY <1>9, <2>1 DEF IsCurrent, Arrived
<1> HIDE DEF m
<1>11. (effect = "receiving" /\ seen = "Ended" => WasCompleted(Delivered))'
  <2>1. effect = "receiving" /\ seen = "Ended" => WasCompleted(Delivered)
    BY <1>5 DEF CompletionsHold
  <2> QED
    BY <1>2, <1>6, <2>1 DEF WasCompleted, HasWork, Lives
<1>12. ASSUME NEW i \in 1 .. Len(results'), Finishes(results'[i])
       PROVE  WasCompleted(results[i].epoch)'
  <2>1. CASE i \in 1 .. Len(results)
    <3>1. WasCompleted(results[i].epoch) /\ results'[i] = results[i]
      BY <1>4, <1>5, <1>12, <2>1 DEF CompletionsHold
    <3> QED
      BY <1>2, <1>6, <3>1 DEF WasCompleted, HasWork, Lives
  <2>2. CASE i = Len(results) + 1
    <3>1. results'[i] = r /\ Finishes(r)
      BY <1>4, <1>12, <2>2
    <3>2. state # "Ended" /\ state' = "Ended"
      BY <1>1, <3>1 DEF Finishes
    <3>3. CompletesStage(m, r) /\ m.type = "PlaybackCompleted"
      <4>1. ~Accepts(m, r)
        BY <3>2 DEF Accepts, Transition, ActionOf, Commands
      <4>2. ~LeavesPlayer(m, r) /\ ~FailsPlayer(m, r)
        BY <3>2 DEF LeavesPlayer, KeepPlayer, FailsPlayer
      <4>3. CompletesStage(m, r)
        BY <1>1, <4>1, <4>2 DEF ControlMove
      <4> QED
        BY <3>2, <4>3 DEF CompletesStage, Transition
    <3>4. IsCurrent(m) /\ epoch' = epoch
      BY <3>3 DEF CompletesStage
    <3>5. WasCompleted(epoch)
      BY <1>5, <1>a, <3>3, <3>4 DEF CompletionsHold
    <3>6. results'[i].epoch = epoch
      BY <1>1, <3>1, <3>4
    <3> QED
      BY <1>2, <1>6, <3>5, <3>6 DEF WasCompleted, HasWork, Lives
  <2> QED
    BY <1>4, <2>1, <2>2
<1>13. ASSUME Arrived("PlaybackCompleted")' PROVE WasCompleted(epoch)'
  <2>1. PICK i \in 1 .. Len(inbox') :
           inbox'[i].type = "PlaybackCompleted" /\ inbox'[i].epoch = epoch'
    BY <1>13 DEF Arrived
  <2>2. i + 1 \in 1 .. Len(inbox) /\ inbox'[i] = inbox[i + 1]
    BY <1>9
  <2>3. inbox[i + 1].epoch \in Int /\ inbox[i + 1].epoch <= epoch
    BY <2>2, EntryTypes DEF FreshInv, InboxFresh, Usable
  <2>4. epoch' = epoch
    BY <1>10, <2>1, <2>2, <2>3
  <2>5. Arrived("PlaybackCompleted")
    BY <2>1, <2>2, <2>4 DEF Arrived
  <2>6. WasCompleted(epoch)
    BY <1>5, <2>5 DEF CompletionsHold
  <2> QED
    BY <1>2, <1>6, <2>4, <2>6 DEF WasCompleted, HasWork, Lives
<1>14. CompletionsHold'
  BY <1>11, <1>12, <1>13 DEF CompletionsHold, Finishes
<1> QED
  BY <1>8, <1>14

(* A completion outlives the results that open no epoch. *)
LEMMA ReceiveKeepsCompletion ==
    ASSUME TypeOK, EpochInv, OrderInv, EffectReceive, epoch' = epoch, Both',
           ~Opens(Head(results)), NEW e, WasCompleted(e)
    PROVE  WasCompleted(e)' /\ effect' = "receiving"
<1> DEFINE r == Head(results)
<1>1. /\ Both /\ results # <<>> /\ results' = Tail(results) /\ r = results[1] /\ r \in Results
      /\ \/ Ignores(r) \/ Spawns(r) \/ HandsOver(r) \/ Answers(r) \/ FindsNobody(r)
         \/ GivesUp(r) /\ r.effect \in ShutdownEffects
  BY ReceiveMoves
<1>2. Delivered' = r.epoch /\ Delivered = EpochBefore(r)
  BY <1>1, EpochChainShrinks DEF EpochInv, Both
<1>3. effect = "receiving" /\ handle # NoSession /\ Delivered = e /\ handle \in Epochs
      /\ (HasWork(worker[handle]) => worker[handle].feedback = e /\ worker[handle].reported)
  BY DEF WasCompleted, TypeOK, EffectTypeOK
<1> HIDE DEF r
<1>n. ~Opens(r)
  BY DEF r
<1>4. r.epoch = e
  BY <1>2, <1>3, <1>n DEF EpochBefore
<1>5. Ignores(r) \/ HandsOver(r) \/ Answers(r)
  BY <1>1, <1>3, <1>n DEF Spawns, FindsNobody, Opens, ShutdownEffects
<1>6. effect' = "receiving" /\ handle' = handle
  BY <1>3, <1>5 DEF Ignores, HandsOver, Answers
<1>7. /\ worker'[handle].phase = worker[handle].phase
      /\ worker'[handle].feedback = worker[handle].feedback
      /\ worker'[handle].pipeline = worker[handle].pipeline
      /\ worker'[handle].reported = worker[handle].reported
  BY <1>1, <1>3, <1>5, ReceiveWorkers DEF Spawns, Ignores, Answers, HandsOver
<1>8. HasWork(worker[handle])' => HasWork(worker[handle])
  BY <1>6, <1>7 DEF HasWork, Lives
<1>9. HasWork(worker[handle])' => worker'[handle].feedback = e /\ worker'[handle].reported
  BY <1>3, <1>7, <1>8
<1> QED
  BY <1>2, <1>3, <1>4, <1>6, <1>9 DEF WasCompleted

(* The worker held goes on to obey what the user is told next. *)
LEMMA ReceiveKeepsObeying ==
    ASSUME TypeOK, EpochInv, OrderInv, EffectInv, ChainInv, Listening, DoneInv,
           EffectReceive, Both'
    PROVE  HandleObeys'
<1> DEFINE r == Head(results)
<1>1. /\ Both /\ effect = "receiving" /\ results # <<>> /\ r = results[1]
      /\ 1 \in 1 .. Len(results) /\ r \in Results
      /\ \/ Ignores(r) \/ Spawns(r) \/ HandsOver(r) \/ Answers(r) \/ FindsNobody(r)
         \/ GivesUp(r) /\ r.effect \in ShutdownEffects
  BY ReceiveMoves
<1>2. r.before = seen /\ seen' = r.after
  BY SeenIsAfter
<1>3. ResultLegal(r) /\ ResultTarget(r) /\ (Finishes(r) => WasCompleted(r.epoch))
      /\ HandleObeys
  BY <1>1 DEF EpochInv, ResultsLegal, OrderInv, DoneInv, CompletionsHold
<1>e. /\ r.epoch \in Epochs /\ (handle # NoSession => handle \in Epochs)
      /\ worker \in [Epochs -> Workers]
  BY <1>1 DEF Results, TypeOK, EffectTypeOK, WorkerTypeOK
<1>s. seen = "Idle" => handle = NoSession
  BY <1>1 DEF EffectInv, SeenFitsHandle
<1> HIDE DEF r
<1> SUFFICES ASSUME effect' = "receiving", handle' # NoSession, HasWork(worker[handle])'
             PROVE  Obeys(worker'[handle'], r.after)
  BY <1>2 DEF HandleObeys, Obeys
<1>4. CASE Ignores(r)
  <2>1. UNCHANGED <<worker, handle>> /\ r.effect = "None"
    BY <1>4 DEF Ignores, Quiet
  <2>2. PICK w \in Workers : w = worker[handle] /\ HasWork(w) /\ Obeys(w, seen)
    BY <1>1, <1>3, <1>e, <2>1 DEF HandleObeys, HasWork, Lives
  <2>3. \/ seen = r.after
        \/ seen = "Preparing" /\ r.after = "Ready"
        \/ Finishes(r) /\ r.after = "Ended"
    BY <1>2, <1>3, <2>1 DEF ResultLegal, Finishes
  <2>4. CASE seen = r.after
    BY <2>1, <2>2, <2>4
  <2>5. CASE seen = "Preparing" /\ r.after = "Ready"
    BY <2>1, <2>2, <2>5 DEF Obeys
  <2>6. CASE Finishes(r) /\ r.after = "Ended"
    <3>1. w.feedback = Delivered /\ w.reported
      BY <1>3, <2>2, <2>6 DEF WasCompleted
    <3>2. LastEpoch(w) = Delivered /\ QueueSorted(w)
      BY <1>1, <1>e, <2>1, <2>2 DEF EpochInv, HandleAtEpoch, HasWork, Lives, Live, OrderInv
    <3>3. ASSUME w.queue # <<>> PROVE w.queue[Len(w.queue)].action # "Seek"
      <4>1. Len(w.queue) \in 1 .. Len(w.queue)
        BY <2>2, <3>3, WorkerTypes
      <4>2. w.queue[Len(w.queue)].epoch = w.feedback /\ w.feedback \in Int
        BY <2>2, <3>1, <3>2, <3>3, WorkerTypes DEF LastEpoch
      <4> QED
        BY <3>2, <4>1, <4>2 DEF QueueSorted
    <3>4. Obeys(w, "Ended")
      BY <3>1, <3>3 DEF Obeys
    <3> QED
      BY <2>1, <2>2, <2>6, <3>4
  <2> QED
    BY <2>3, <2>4, <2>5, <2>6
<1>5. CASE Spawns(r)
  <2>1. handle' = r.epoch /\ worker'[r.epoch] = Spawned(r.epoch) /\ r.after = "Preparing"
    BY <1>3, <1>e, <1>5 DEF Spawns, ResultLegal
  <2>2. Spawned(r.epoch).queue = <<>> /\ Spawned(r.epoch).running = FALSE
    BY DEF Spawned, Absent
  <2>3. Obeys(Spawned(r.epoch), "Preparing")
    BY <2>2 DEF Obeys
  <2> QED
    BY <2>1, <2>3
<1>6. CASE HandsOver(r)
  <2> DEFINE c == CommandOf(r)
  <2>1. /\ r.effect \in PlayEffects /\ handle # NoSession /\ handle' = handle
        /\ worker' = [worker EXCEPT ![handle] =
                         [worker[handle] EXCEPT !.queue = Append(worker[handle].queue, c)]]
    BY <1>6 DEF HandsOver
  <2>2. c \in WorkerCommands /\ c.action = r.effect /\ c.resume = r.resume
    BY <1>1, <2>1 DEF CommandOf, WorkerCommands, PlayEffects, Results
  <2> HIDE DEF c
  <2>3. PICK q \in Seq(WorkerCommands) : q = worker[handle].queue
    BY <1>e, <2>1 DEF Workers
  <2>4. PICK v : v = worker'[handle] /\ v.queue = Append(q, c)
    BY <1>e, <2>1, <2>3 DEF Workers
  <2>5. Append(q, c) # <<>> /\ Append(q, c)[Len(Append(q, c))] = c
    BY <2>2, <2>3, AppendEntries
  <2>6. Obeys(v, r.after)
    BY <1>3, <2>2, <2>4, <2>5 DEF Obeys, ResultTarget
  <2> QED
    BY <2>1, <2>4, <2>6
<1>7. CASE Answers(r)
  <2>1. UNCHANGED <<worker, handle>>
        /\ (r.effect = "BeginPrepare" \/ ~(handle # NoSession /\ Live(handle)))
    BY <1>7 DEF Answers
  <2>2. r.effect = "BeginPrepare" => handle = NoSession
    BY <1>2, <1>3, <1>s DEF ResultLegal
  <2> QED
    BY <2>1, <2>2 DEF HasWork, Lives, Live
<1>8. CASE FindsNobody(r) \/ GivesUp(r)
  BY <1>8 DEF FindsNobody, GivesUp
<1> QED
  BY <1>1, <1>4, <1>5, <1>6, <1>7, <1>8

(* No completion arrives with a failure. *)
LEMMA FailureIsNoCompletion ==
    ASSUME TypeOK, epoch' = epoch, NEW e \in Epochs, Arrived("PlaybackCompleted")',
           inbox' = inbox \/ \E s \in Epochs :
               inbox' = Append(inbox, [type |-> "Failed", epoch |-> e, session |-> s])
    PROVE  Arrived("PlaybackCompleted")
<1>1. CASE inbox' = inbox
  BY <1>1 DEF Arrived
<1>2. ASSUME NEW s \in Epochs, inbox' = Append(inbox, [type |-> "Failed", epoch |-> e, session |-> s])
      PROVE  Arrived("PlaybackCompleted")
  <2>1. PICK m \in Messages : m = [type |-> "Failed", epoch |-> e, session |-> s]
    BY DEF Messages, Feedbacks
  <2>2. inbox' = Append(inbox, m) /\ m.type = "Failed"
    BY <1>2, <2>1
  <2> QED
    BY <2>2, ArrivedGrows
<1> QED
  BY <1>1, <1>2

(* No completion is given up: what opens an epoch comes after it. *)
LEMMA ReceiveKeepsDone ==
    ASSUME TypeOK, EpochInv, OrderInv, EffectInv, ChainInv, Listening, DoneInv,
           EffectReceive, UNCHANGED <<state, epoch>>
    PROVE  DoneInv'
<1> DEFINE r == Head(results)
<1> SUFFICES ASSUME Both' PROVE HandleObeys' /\ CompletionsHold'
  BY DEF DoneInv
<1>1. /\ Both /\ effect = "receiving" /\ results # <<>> /\ results' = Tail(results)
      /\ r = results[1] /\ 1 \in 1 .. Len(results) /\ r \in Results
      /\ \/ Ignores(r) \/ Spawns(r) \/ HandsOver(r) \/ Answers(r) \/ FindsNobody(r)
         \/ GivesUp(r) /\ r.effect \in ShutdownEffects
  BY ReceiveMoves
<1>2. /\ Len(results) \in Nat /\ Len(results) >= 1 /\ Len(results') = Len(results) - 1
      /\ \A i \in 1 .. Len(results) - 1 : results'[i] = results[i + 1]
  BY <1>1, EntryTypes, TailEntries
<1>3. CompletionsHold /\ ResultOrder /\ EpochChain
  BY <1>1 DEF DoneInv, OrderInv, EpochInv, Both
<1>4. Delivered' = r.epoch /\ Delivered = EpochBefore(r)
  BY <1>1, <1>3, EpochChainShrinks
<1>5. r.before = seen /\ seen' = r.after /\ ResultLegal(r)
  BY <1>1, SeenIsAfter DEF EpochInv, ResultsLegal
<1>k. \A e : ~Opens(r) /\ WasCompleted(e) => WasCompleted(e)' /\ effect' = "receiving"
  BY ReceiveKeepsCompletion
<1>o. ASSUME NEW k \in 1 .. Len(results), Finishes(results[k])
      PROVE  ~Opens(r) /\ WasCompleted(results[k].epoch)
  <2>1. WasCompleted(results[k].epoch)
    BY <1>3, <1>o DEF CompletionsHold
  <2>2. results[k].epoch = Delivered
    BY <2>1 DEF WasCompleted
  <2>3. \A j \in 1 .. k : ~Opens(results[j])
    BY <1>3, <2>2, NothingOpens
  <2>4. 1 \in 1 .. k
    BY <1>2
  <2> QED
    BY <1>1, <2>1, <2>3, <2>4
<1>e. r.epoch \in Int /\ epoch \in Int /\ r.epoch \in Epochs
  BY <1>1, EntryTypes DEF Results
<1> HIDE DEF r
<1>6. ASSUME effect' = "receiving", seen' = "Ended" PROVE WasCompleted(Delivered)'
  <2>1. ~Opens(r) /\ WasCompleted(Delivered) /\ Delivered = r.epoch
    <3>1. CASE seen = "Ended"
      <4>1. WasCompleted(Delivered) /\ handle # NoSession
        BY <1>1, <1>3, <3>1 DEF CompletionsHold, WasCompleted
      <4>2. r.effect \notin {"Seek", "Stop", "CleanupAfterFailure"}
        BY <1>5, <1>6 DEF ResultLegal, PlayEffects
      <4>3. r.effect # "Release"
        BY <1>1, <1>6
           DEF Ignores, Quiet, Spawns, HandsOver, Answers, PlayEffects, FindsNobody, GivesUp
      <4>4. r.effect # "BeginPrepare"
        BY <1>5, <1>6 DEF ResultLegal
      <4>5. ~Opens(r)
        BY <4>2, <4>3, <4>4 DEF Opens
      <4> QED
        BY <1>4, <4>1, <4>5 DEF EpochBefore
    <3>2. CASE seen # "Ended"
      <4>1. Finishes(r)
        BY <1>5, <1>6, <3>2 DEF Finishes
      <4>2. ~Opens(r) /\ WasCompleted(r.epoch)
        BY <1>1, <1>o, <4>1
      <4> QED
        BY <1>4, <4>2 DEF EpochBefore
    <3> QED
      BY <3>1, <3>2
  <2>2. PICK e : e = Delivered
    OBVIOUS
  <2>3. WasCompleted(e)'
    BY <1>k, <2>1, <2>2
  <2>4. Delivered' = e
    BY <1>4, <2>1, <2>2
  <2> QED
    BY <2>3, <2>4 DEF WasCompleted, HasWork, Lives
<1>7. ASSUME NEW i \in 1 .. Len(results'), Finishes(results'[i])
      PROVE  WasCompleted(results[i].epoch)'
  <2>1. i + 1 \in 1 .. Len(results) /\ results'[i] = results[i + 1]
    BY <1>2
  <2>2. ~Opens(r) /\ WasCompleted(results[i + 1].epoch)
    BY <1>7, <1>o, <2>1
  <2>3. PICK e : e = results[i + 1].epoch
    OBVIOUS
  <2>4. WasCompleted(e)'
    BY <1>k, <2>2, <2>3
  <2>5. results'[i].epoch = e
    BY <2>1, <2>3
  <2> QED
    BY <2>4, <2>5 DEF WasCompleted, HasWork, Lives
<1>8. ASSUME Arrived("PlaybackCompleted")' PROVE WasCompleted(epoch)'
  <2>1. inbox' = inbox \/ \E s \in Epochs : inbox' = Append(inbox,
            [type |-> "Failed", epoch |-> r.epoch, session |-> s])
    BY <1>1 DEF Ignores, Spawns, HandsOver, Answers, FindsNobody, GivesUp, Quiet
  <2>2. Arrived("PlaybackCompleted")
    BY <1>8, <1>e, <2>1, FailureIsNoCompletion
  <2>3. WasCompleted(epoch) /\ epoch = Delivered
    BY <1>3, <2>2 DEF CompletionsHold, WasCompleted
  <2>4. ~Opens(r)
    BY <1>1, <1>3, <1>4, <1>e, <2>3 DEF ResultOrder
  <2>5. PICK e : e = epoch
    OBVIOUS
  <2>6. WasCompleted(e)'
    BY <1>k, <2>3, <2>4, <2>5
  <2> QED
    BY <2>5, <2>6 DEF WasCompleted, HasWork, Lives
<1> QED
  BY <1>6, <1>7, <1>8, ReceiveKeepsObeying DEF CompletionsHold, Finishes

(* The join of an old worker completes nothing. *)
LEMMA JoinedKeepsDone ==
    ASSUME TypeOK, OwnershipInv, EffectInv, DoneInv, EffectJoined, UNCHANGED <<state, epoch>>
    PROVE  DoneInv'
<1> SUFFICES ASSUME Both' PROVE HandleObeys' /\ CompletionsHold'
  BY DEF DoneInv
<1>1. /\ effect = "joining" /\ UNCHANGED <<results, control>> /\ handle' = NoSession
      /\ inbox' = inbox \/ inbox' = Append(inbox, [type |-> "Failed", epoch |-> task.epoch,
                                                   session |-> task.session])
  BY DEF EffectJoined, OwnershipInv, HandleFitsStage
<1>2. Both
  BY <1>1 DEF Both, ControlAlive, EffectAlive, EffectExits
<1>3. CompletionsHold /\ \A e : ~WasCompleted(e)
  BY <1>1, <1>2 DEF DoneInv, WasCompleted
<1>4. HandleObeys'
  BY <1>1 DEF HandleObeys
<1>5. effect' = "receiving" => seen' # "Ended"
  <2>1. task.why \in JoinReasons /\ task.exit \in EffectExits
    BY DEF TypeOK, EffectTypeOK, Tasks
  <2>2. effect' = "receiving" => task.why \in {"Stop", "CleanupAfterFailure"}
    BY <2>1 DEF EffectJoined, JoinReasons, EffectExits
  <2> QED
    BY <1>1, <2>2 DEF EffectJoined, EffectInv, JoinFits
<1>6. ~Arrived("PlaybackCompleted")'
  <2>1. task.epoch \in Epochs /\ task.session \in Epochs
    BY DEF TypeOK, EffectTypeOK, Tasks
  <2>2. ~Arrived("PlaybackCompleted")
    BY <1>3 DEF CompletionsHold
  <2> QED
    BY <1>1, <2>1, <2>2, FailureIsNoCompletion
<1>7. \A i \in 1 .. Len(results') : ~Finishes(results'[i])
  BY <1>1, <1>3 DEF CompletionsHold
<1> QED
  BY <1>4, <1>5, <1>6, <1>7 DEF CompletionsHold, Finishes

(* A worker obeys, and keeps what it completed; what it completes it has completed. *)
LEMMA WorkerKeepsDone ==
    ASSUME TypeOK, OwnershipInv, TalkInv, EpochInv, OrderInv, PendingInv, DoneInv,
           NEW s \in Epochs, WorkerNext(s), UNCHANGED <<state, epoch, handle, task, seen>>
    PROVE  DoneInv'
<1> DEFINE w == worker[s]
<1> SUFFICES ASSUME Both' PROVE HandleObeys' /\ CompletionsHold'
  BY DEF DoneInv
<1>1. PICK v \in Workers :
          WorkerMove(s, w, v) /\ v.cancel = w.cancel /\ worker' = [worker EXCEPT ![s] = v]
  BY WorkerMoves DEF TypeOK
<1>2. UNCHANGED <<results, control, effect>> /\ Live(s)
  BY WorkerStepsAlone DEF WorkerNext
<1>3. worker'[s] = v /\ \A t \in Epochs \ {s} : worker'[t] = worker[t]
  BY <1>1 DEF TypeOK, WorkerTypeOK
<1>b. Both
  BY <1>2 DEF Both, ControlAlive, EffectAlive
<1>w. w \in Workers /\ Lives(w) /\ Shaped(w) /\ QueueSorted(w)
  BY <1>2 DEF TypeOK, WorkerTypeOK, Live, Lives, TalkInv, OrderInv
<1>t. ControlAlive => InboxFits /\ WorkerTalks(w)
  BY DEF TalkInv, WorkersTalk
<1>d. Delivered' = Delivered /\ Delivered \in Int /\ Delivered <= epoch /\ epoch \in Int
  <2>1. ResultOrder /\ Delivered' = Delivered
    BY <1>2, <1>b DEF OrderInv, Both, Delivered
  <2> QED
    BY <2>1, DeliveredFirst, EntryTypes
<1>h. effect = "receiving" /\ handle = s => LastEpoch(w) = Delivered
  BY <1>2, <1>w, NoSessionIsNone DEF EpochInv, HandleAtEpoch
<1>o. HandleObeys /\ CompletionsHold
  BY <1>b DEF DoneInv
<1>i. handle # NoSession => handle \in Epochs
  BY DEF TypeOK, EffectTypeOK
<1>q. effect = "joining" => task.session = s /\ IsBehind(w)
  <2> SUFFICES ASSUME effect = "joining" PROVE task.session = s /\ IsBehind(w)
    OBVIOUS
  <2>1. handle = NoSession /\ w.phase # "absent"
    BY <1>w DEF OwnershipInv, HandleFitsStage, Lives
  <2>2. task.session = s
    BY <2>1, NoSessionIsNone DEF OwnershipInv, Owned
  <2> QED
    BY <1>b, <2>2 DEF PendingInv, JoinedIsBehind
<1>p. effect \in {"receiving", "joining"} /\ (effect = "receiving" => handle = s)
  <2>1. effect \in {"receiving", "joining"}
    BY <1>b DEF Both, EffectAlive, TypeOK, ChannelsTypeOK, EffectExits
  <2> QED
    BY <1>w, <2>1, HeldIsHandle DEF Lives
<1> HIDE DEF w
<1>4. HasWork(v) => HasWork(w)
  BY <1>1, <1>w, WorkIsKept
<1>5. \A e : WasCompleted(e) => WasCompleted(e)'
  <2> SUFFICES ASSUME NEW e, WasCompleted(e), HasWork(v)
               PROVE  v.feedback = e /\ v.reported
    BY <1>2, <1>3, <1>d, <1>p DEF WasCompleted, HasWork, Lives
  <2>1. effect = "receiving" /\ handle = s /\ Delivered = e /\ w.feedback = e /\ w.reported
    BY <1>4, <1>p DEF WasCompleted, w
  <2>2. w.feedback = LastEpoch(w)
    BY <1>h, <2>1
  <2> QED
    BY <1>1, <1>w, <2>1, <2>2, MoveKeepsCompletion
<1>6. HandleObeys'
  <2> SUFFICES ASSUME effect = "receiving", HasWork(v) PROVE Obeys(v, seen)
    BY <1>2, <1>3, <1>p DEF HandleObeys, HasWork, Lives, Obeys
  <2>1. handle = s /\ handle # NoSession
    BY <1>p, NoSessionIsNone
  <2>2. Obeys(w, seen)
    BY <1>4, <1>o, <2>1 DEF HandleObeys, w
  <2>3. seen = "Ended" => w.reported
    BY <1>4, <1>o, <2>1 DEF CompletionsHold, WasCompleted, w
  <2> QED
    BY <1>1, <1>4, <1>w, <2>2, <2>3, MoveObeys
<1>7. ASSUME Arrived("PlaybackCompleted")' PROVE WasCompleted(epoch)'
  <2>1. CASE Arrived("PlaybackCompleted")
    <3>1. PICK e : e = epoch /\ WasCompleted(e)
      BY <1>o, <2>1 DEF CompletionsHold
    <3>2. WasCompleted(e)'
      BY <1>5, <3>1
    <3> QED
      BY <3>1, <3>2 DEF WasCompleted, HasWork, Lives
  <2>2. CASE ~Arrived("PlaybackCompleted")
    <3>1. inbox' # inbox
      BY <1>7, <2>2 DEF Arrived
    <3>2. PICK t \in Feedbacks : Says(s, t, v) /\ (t = "PlaybackCompleted" => Completes(s, w, v))
      BY <1>1, <1>t, <1>w, <3>1, MoveSpeaks DEF w
    <3>3. PICK m \in Messages : m = Message(t, v, s) /\ inbox' = Append(inbox, m)
                                /\ m.type = t /\ m.epoch = v.feedback
      BY <3>2, SaysMessage
    <3>4. t = "PlaybackCompleted" /\ v.feedback = epoch
      BY <1>7, <2>2, <3>3, ArrivedGrows
    <3>5. v.feedback = w.feedback /\ v.reported
      BY <3>2, <3>4 DEF Completes, SameQueue
    <3>6. effect = "receiving" /\ handle = s
      <4>1. ~IsBehind(w)
        BY <1>w, <3>4, <3>5 DEF IsBehind
      <4> QED
        BY <1>p, <1>q, <4>1
    <3>7. Delivered = epoch
      <4>1. w.feedback <= LastEpoch(w) /\ LastEpoch(w) = Delivered
        BY <1>h, <1>w, <3>6, LastIsLargest
      <4> QED
        BY <1>d, <3>4, <3>5, <4>1
    <3> QED
      BY <1>2, <1>3, <1>d, <3>4, <3>5, <3>6, <3>7, NoSessionIsNone
         DEF WasCompleted, HasWork, Lives
  <2> QED
    BY <2>1, <2>2
<1>8. effect = "receiving" /\ seen = "Ended" => WasCompleted(Delivered)'
  <2> SUFFICES ASSUME effect = "receiving", seen = "Ended" PROVE WasCompleted(Delivered)'
    OBVIOUS
  <2>1. PICK e : e = Delivered /\ WasCompleted(e)
    BY <1>o DEF CompletionsHold
  <2>2. WasCompleted(e)'
    BY <1>5, <2>1
  <2> QED
    BY <1>d, <2>1, <2>2 DEF WasCompleted, HasWork, Lives
<1>9. ASSUME NEW i \in 1 .. Len(results'), Finishes(results'[i])
      PROVE  WasCompleted(results[i].epoch)'
  <2>1. PICK e : e = results[i].epoch /\ WasCompleted(e)
    BY <1>2, <1>9, <1>o DEF CompletionsHold
  <2>2. WasCompleted(e)' /\ results'[i].epoch = e
    BY <1>2, <1>5, <2>1
  <2> QED
    BY <2>2 DEF WasCompleted, HasWork, Lives
<1> QED
  BY <1>2, <1>6, <1>7, <1>8, <1>9 DEF CompletionsHold, Finishes

(* What only grows the inbox by a command leaves it done. *)
LEMMA DoneStays ==
    ASSUME TypeOK, DoneInv, UNCHANGED <<results, state, epoch, worker, handle, seen>>,
           effect' = effect \/ effect' \in EffectExits, ControlAlive' => ControlAlive,
           inbox' = inbox \/ \E m \in Messages :
               inbox' = Append(inbox, m) /\ m.type # "PlaybackCompleted"
    PROVE  DoneInv'
<1> SUFFICES ASSUME Both' PROVE HandleObeys' /\ CompletionsHold'
  BY DEF DoneInv
<1>1. effect' = effect /\ Both
  BY DEF Both, EffectAlive
<1>2. HandleObeys /\ CompletionsHold
  BY <1>1 DEF DoneInv
<1>3. Arrived("PlaybackCompleted")' => Arrived("PlaybackCompleted")
  <2>1. inbox' = inbox => (Arrived("PlaybackCompleted")' => Arrived("PlaybackCompleted"))
    BY DEF Arrived
  <2> QED
    BY <2>1, ArrivedGrows
<1>4. \A e : WasCompleted(e)' <=> WasCompleted(e)
  <2>1. Delivered' = Delivered
    BY DEF Delivered
  <2> QED
    BY <1>1, <2>1, CompletedStays
<1>5. HandleObeys'
  BY <1>1, <1>2 DEF HandleObeys, HasWork, Lives, Obeys
<1>6. (effect = "receiving" /\ seen = "Ended" => WasCompleted(Delivered))'
  BY <1>1, <1>2 DEF CompletionsHold, WasCompleted, HasWork, Lives, Delivered
<1>7. ASSUME NEW i \in 1 .. Len(results'), Finishes(results'[i])
      PROVE  WasCompleted(results[i].epoch)'
  BY <1>1, <1>2, <1>7 DEF CompletionsHold, WasCompleted, HasWork, Lives, Delivered
<1>8. Arrived("PlaybackCompleted")' => WasCompleted(epoch)'
  BY <1>1, <1>2, <1>3 DEF CompletionsHold, WasCompleted, HasWork, Lives, Delivered
<1> QED
  BY <1>5, <1>6, <1>7, <1>8 DEF CompletionsHold, Finishes

(* What is done stays done. *)
LEMMA DoneNext ==
    /\ TypeOK /\ OwnershipInv /\ FreshInv /\ TalkInv /\ EpochInv /\ ChainInv /\ Listening
    /\ EffectInv /\ OrderInv /\ PendingInv /\ DoneInv /\ [Next]_vars
    => DoneInv'
<1> SUFFICES ASSUME TypeOK, OwnershipInv, FreshInv, TalkInv, EpochInv, ChainInv, Listening,
                    EffectInv, OrderInv, PendingInv, DoneInv, [Next]_vars
             PROVE  DoneInv'
  OBVIOUS
<1>1. ASSUME NEW c \in Commands, Post([type |-> c, epoch |-> 0, session |-> 0]),
             UNCHANGED <<results, control, effect, state, epoch, worker, handle, task, seen>>
      PROVE  DoneInv'
  <2>1. PICK m : m = [type |-> c, epoch |-> 0, session |-> 0] /\ m \in Messages
                 /\ m.type # "PlaybackCompleted"
    BY <1>1, MaxEpochAssumption DEF Messages, Epochs, Commands
  <2>2. inbox' = inbox \/ inbox' = Append(inbox, m)
    BY <1>1, <2>1 DEF Post
  <2>3. ControlAlive' => ControlAlive
    BY <1>1 DEF ControlAlive
  <2> QED
    BY <1>1, <2>1, <2>2, <2>3, DoneStays
<1>2. CASE EngineStart \/ ShutdownJoin \/ Stopped \/ UNCHANGED vars
  BY <1>2, DoneStays DEF EngineStart, ShutdownJoin, Stopped, vars, EffectExits, ControlAlive
<1>3. CASE UserSend
  BY <1>1, <1>3, UserCommandsAssumption DEF UserSend
<1>4. CASE ShutdownBegin
  <2>1. "Release" \in Commands
    BY DEF Commands
  <2> QED
    BY <1>1, <1>4, <2>1 DEF ShutdownBegin
<1>5. CASE ControlThread
  <2>1. CASE ControlReceive
    BY <1>5, <2>1, ControlKeepsDone DEF ControlThread
  <2>2. CASE ControlDisconnect
    BY <1>5, <2>2, DoneStays DEF ControlThread, ControlDisconnect, ControlAlive
  <2> QED
    BY <1>5, <2>1, <2>2 DEF ControlThread
<1>6. CASE EffectThread
  BY <1>6, ReceiveKeepsDone, JoinedKeepsDone DEF EffectThread
<1>7. ASSUME NEW s \in Epochs, WorkerThread(s) PROVE DoneInv'
  BY <1>7, WorkerKeepsDone DEF WorkerThread
<1> QED
  BY <1>2, <1>3, <1>4, <1>5, <1>6, <1>7 DEF Next

(* What is pending and what is done, always. *)
LEMMA DoneAlways == Spec => [](PendingInv /\ DoneInv)
<1>1. Init => PendingInv /\ DoneInv
  <2> SUFFICES ASSUME Init PROVE PendingInv /\ DoneInv
    OBVIOUS
  <2>1. /\ inbox = <<>> /\ results = <<>> /\ handle = NoSession /\ effect = "receiving"
        /\ state = "Idle" /\ seen = "Idle" /\ \A s \in Epochs : worker[s].phase = "absent"
    BY DEF Init, ControlInit, EffectInit, WorkerInit, Absent
  <2>2. \A t : ~Arrived(t)
    BY <2>1 DEF Arrived
  <2> QED
    BY <2>1, <2>2
       DEF PendingInv, PreparationPends, JoinedIsBehind, LossPends, ReportPends, Lives,
           DoneInv, HandleObeys, CompletionsHold
<1>2. /\ TypeOK /\ OwnershipInv /\ FreshInv /\ TalkInv /\ EpochInv /\ EffectInv /\ OrderInv
      /\ PendingInv /\ [Next]_vars
      => PendingInv'
  BY PendingNext
<1>3. /\ TypeOK /\ OwnershipInv /\ FreshInv /\ TalkInv /\ EpochInv /\ ChainInv /\ Listening
      /\ EffectInv /\ OrderInv /\ PendingInv /\ DoneInv /\ [Next]_vars
      => DoneInv'
  BY DoneNext
<1> QED
  BY <1>1, <1>2, <1>3, TypeCorrect, OwnershipAlways, FreshAlways, TalkAlways, EpochAlways,
     EffectAlways, OrderAlways, PTL DEF Spec

(***************************************************************************)
(* When every queue is empty the worker does what the player state says.   *)
(* What is promised and not done is pending somewhere (PendingInv), and    *)
(* nothing is pending when nothing is queued; what is queued last decides  *)
(* what the worker does (DoneInv), and its epoch is the controller's       *)
(* (EpochInv).  The failures, seeks and completions that raced with the    *)
(* commands on the way there have left nothing behind.                     *)
(***************************************************************************)
THEOREM ThreadsAlwaysAgree == Spec => []ThreadsAgree
<1>1. /\ TypeOK /\ FreshInv /\ TalkInv /\ EpochInv /\ ChainInv /\ EffectInv /\ OrderInv
      /\ PendingInv /\ DoneInv
      => ThreadsAgree
  <2> SUFFICES ASSUME TypeOK, FreshInv, TalkInv, EpochInv, ChainInv, EffectInv, OrderInv,
                      PendingInv, DoneInv, Quiescent
               PROVE  /\ state # "Preparing"
                      /\ handle = NoSession <=> state \in {"Idle", "Error"}
                      /\ handle # NoSession =>
                            /\ worker[handle].pipeline = epoch
                            /\ worker[handle].running <=> state = "Playing"
                            /\ worker[handle].reported <=> state = "Ended"
                      /\ seen = state
    BY DEF ThreadsAgree
  <2>1. /\ ControlAlive /\ inbox = <<>> /\ effect = "receiving" /\ results = <<>>
        /\ \A s \in Epochs :
              worker[s].phase \in {"absent", "receive"} /\ worker[s].queue = <<>>
    BY DEF Quiescent
  <2>2. Both
    BY <2>1 DEF Both, EffectAlive, EffectExits
  <2>3. seen = state
    BY <2>1, <2>2 DEF ChainInv, Delivering, Chain, Both, ControlAlive
  <2>4. \A t : ~Arrived(t)
    BY <2>1 DEF Arrived
  <2>5. state # "Preparing"
    <3>1. ~\E s \in Epochs : PreparesNow(worker[s]) \/ worker[s].phase = "panicked"
      BY <2>1 DEF PreparesNow, PrepPhases
    <3> QED
      BY <2>1, <2>2, <2>4, <3>1 DEF PendingInv, PreparationPends
  <2>6. handle = NoSession <=> state \in {"Idle", "Error"}
    <3>1. state \in {"Idle", "Error", "Ready", "Playing", "Paused", "Ended"}
      BY <2>1, <2>5 DEF FreshInv, TypeOK, ControlTypeOK, PlayerStates
    <3> QED
      BY <2>1, <2>3, <3>1 DEF EffectInv, SeenFitsHandle
  <2>7. ASSUME handle # NoSession
        PROVE  /\ worker[handle].pipeline = epoch
               /\ worker[handle].running <=> state = "Playing"
               /\ worker[handle].reported <=> state = "Ended"
    <3>1. handle \in Epochs
      BY <2>7 DEF TypeOK, EffectTypeOK
    <3>2. PICK w \in Workers :
             /\ w = worker[handle] /\ w.phase = "receive" /\ w.queue = <<>>
             /\ Shaped(w) /\ LossPends(w) /\ ReportPends(w)
      BY <2>1, <2>2, <2>7, <3>1
         DEF TypeOK, WorkerTypeOK, OrderInv, HandleIsOn, TalkInv, PendingInv
    <3>3. Lives(w) /\ w.phase \notin PrepPhases
      BY <3>2 DEF Lives, PrepPhases
    <3>4. w.feedback = epoch
      BY <2>1, <2>7, <3>2, <3>3
         DEF EpochInv, HandleAtEpoch, Live, Lives, LastEpoch, Delivered
    <3>5. w.pipeline = epoch /\ w.pipeline # NoPipeline
      BY <2>4, <3>2, <3>3, <3>4 DEF LossPends, Shaped
    <3>6. HasWork(w)
      BY <3>3, <3>5 DEF HasWork
    <3>7. w.reported => state = "Ended"
      BY <2>4, <3>2, <3>3, <3>4 DEF ReportPends, Completed
    <3>8. state = "Ended" => w.reported
      BY <2>1, <2>2, <2>3, <3>2, <3>6 DEF DoneInv, CompletionsHold, WasCompleted
    <3>9. ~w.reported => (w.running <=> state = "Playing")
      BY <2>1, <2>2, <2>3, <2>7, <3>2, <3>6 DEF DoneInv, HandleObeys, Obeys
    <3>10. w.running => ~w.reported
      BY <3>2 DEF Shaped
    <3>11. w.running <=> state = "Playing"
      BY <3>7, <3>9, <3>10
    <3> QED
      BY <3>2, <3>5, <3>7, <3>8, <3>11
  <2> QED
    BY <2>3, <2>5, <2>6, <2>7
<1> QED
  BY <1>1, TypeCorrect, FreshAlways, TalkAlways, EpochAlways, EffectAlways, OrderAlways,
     DoneAlways, PTL


-----------------------------------------------------------------------------
(***************************************************************************)
(* Where feedback comes from, when no pipeline code panics.  A panic is    *)
(* the one failure that is told long after its session (finding 1 of the   *)
(* README); without it no join fails, and the effect thread lives as long  *)
(* as the control thread does.                                             *)
(***************************************************************************)
NoPanic == \A s \in Epochs : worker[s].phase # "panicked"

(* While commands are still taken, the effect thread goes on. *)
Together ==
    /\ engine = "starting" => inbox = <<>>
    /\ ControlAlive =>
          /\ ~EffectAlive => engine \in {"aborting", "aborted"} /\ inbox = <<>>
          /\ effect = "joining" => task.why \in {"Stop", "CleanupAfterFailure"}
          /\ \A i \in 1 .. Len(results) : results[i].effect # "Release"

CalmInv == NoPanic /\ Together

(* What a worker becomes is not a panic, whichever way it sends or ends. *)
LEMMA SendIsCalm ==
    ASSUME NEW s \in Epochs, WorkerTypeOK, NEW t, NEW v \in Workers, v.phase # "panicked",
           SendAndBecome(s, t, v)
    PROVE  worker'[s].phase # "panicked"
<1>1. Ended(v, "exited").phase = "exited"
  BY ClosedFields DEF Phases
<1> QED
  BY <1>1 DEF SendAndBecome, Become, WorkerTypeOK

LEMMA FailIsCalm ==
    ASSUME NEW s \in Epochs, WorkerTypeOK, NEW v \in Workers, ReportFailure(s, v)
    PROVE  worker'[s].phase # "panicked"
<1>1. PICK x : x = [Closed(v) EXCEPT !.phase = "receive"]
  OBVIOUS
<1>2. x \in Workers /\ x.phase = "receive"
  BY <1>1, EndedType, ClosedFields DEF Phases
<1> QED
  BY <1>1, <1>2, SendIsCalm DEF ReportFailure

LEMMA StepIsCalm ==
    ASSUME NEW s \in Epochs, WorkerTypeOK, NEW v, v.phase # "panicked", Step(s, v)
    PROVE  worker'[s].phase # "panicked"
BY DEF Step, Become, WorkerTypeOK

LEMMA QuitIsCalm ==
    ASSUME NEW s \in Epochs, WorkerTypeOK, Quit(s)
    PROVE  worker'[s].phase # "panicked"
<1>1. Ended(worker[s], "exited").phase = "exited"
  BY ClosedFields DEF Phases, WorkerTypeOK
<1> QED
  BY <1>1 DEF Quit, Become, WorkerTypeOK

(* Only WorkerPanic makes a worker panic. *)
LEMMA WorkerIsCalm ==
    ASSUME "panic" \notin Faults, WorkerTypeOK, NEW s \in Epochs, WorkerNext(s)
    PROVE  worker'[s].phase # "panicked"
<1> DEFINE w == worker[s]
<1>w. w \in Workers
  BY DEF WorkerTypeOK
<1>1. CASE WorkerBegin(s)
  BY <1>1, <1>w, QuitIsCalm, StepIsCalm DEF WorkerBegin, Workers
<1>2. CASE WorkerBuild(s)
  <2>1. Built(w) \in Workers /\ Built(w).phase = "prepared"
    BY <1>w DEF Built, Workers, Phases
  <2> QED
    BY <1>2, <1>w, <2>1, QuitIsCalm, FailIsCalm, SendIsCalm DEF WorkerBuild
<1>3. CASE WorkerPrepared(s)
  <2>1. PICK v : v = [w EXCEPT !.phase = "receive"]
    OBVIOUS
  <2>2. v \in Workers /\ v.phase = "receive"
    BY <1>w, <2>1 DEF Workers, Phases
  <2> QED
    BY <1>3, <2>1, <2>2, SendIsCalm DEF WorkerPrepared
<1>4. CASE WorkerApply(s)
  <2>1. PICK cmd, v : /\ cmd = Head(w.queue)
                      /\ v = [w EXCEPT !.feedback = cmd.epoch, !.queue = Tail(@)]
    OBVIOUS
  <2>2. w.phase = "receive" /\ (ReportFailure(s, v) \/ ApplyOk(s, v, cmd)) /\ w.queue # <<>>
    BY <1>4, <2>1 DEF WorkerApply
  <2>3. cmd \in WorkerCommands /\ v \in Workers
    <3>1. w.queue \in Seq(WorkerCommands)
      BY <1>w DEF Workers
    <3>2. cmd \in WorkerCommands /\ Tail(w.queue) \in Seq(WorkerCommands)
      BY <2>1, <2>2, <3>1, TailEntries
    <3> QED
      BY <1>w, <2>1, <3>2 DEF Workers, WorkerCommands
  <2>4. CASE ReportFailure(s, v)
    BY <2>3, <2>4, FailIsCalm
  <2>5. CASE ApplyOk(s, v, cmd)
    <3>1. PICK u : u = [Sought(v, cmd) EXCEPT !.phase = "sought"]
      OBVIOUS
    <3>2. u \in Workers /\ u.phase = "sought"
      BY <2>3, <3>1, SoughtType DEF Workers, Sought
    <3>3. [v EXCEPT !.phase = "rest", !.running = @ \/ ~IgnoresStart(v)].phase = "rest"
          /\ [v EXCEPT !.phase = "rest", !.running = FALSE].phase = "rest"
      BY <2>3 DEF Workers
    <3>4. cmd.action \in {"StartPlayback", "PausePlayback", "Seek"}
      BY <2>3 DEF WorkerCommands
    <3> QED
      BY <2>5, <3>1, <3>2, <3>3, <3>4, SendIsCalm, StepIsCalm DEF ApplyOk
  <2> QED
    BY <2>2, <2>4, <2>5
<1>5. CASE WorkerCancelled(s)
  BY <1>5, QuitIsCalm DEF WorkerCancelled
<1>6. CASE WorkerSought(s)
  <2>1. PICK v : v = [w EXCEPT !.phase = "rest"]
    OBVIOUS
  <2>2. v \in Workers /\ v.phase = "rest"
    BY <1>w, <2>1 DEF Workers, Phases
  <2> QED
    BY <1>6, <2>1, <2>2, SendIsCalm DEF WorkerSought
<1>7. CASE WorkerReport(s)
  <2>1. PICK v : v = [w EXCEPT !.phase = "advance"]
    OBVIOUS
  <2>2. v \in Workers /\ v.phase = "advance"
    BY <1>w, <2>1 DEF Workers, Phases
  <2> QED
    BY <1>7, <1>w, <2>1, <2>2, SendIsCalm, FailIsCalm DEF WorkerReport
<1>8. CASE WorkerComplete(s)
  <2>1. PICK v : v = [w EXCEPT !.phase = "receive", !.running = FALSE, !.reported = TRUE]
    OBVIOUS
  <2>2. v \in Workers /\ v.phase = "receive"
    BY <1>w, <2>1 DEF Workers, Phases
  <2> QED
    BY <1>8, <1>w, <2>1, <2>2, SendIsCalm, FailIsCalm DEF WorkerComplete
<1>9. CASE WorkerIdle(s)
  <2>1. [w EXCEPT !.phase = "receive"].phase = "receive"
    BY <1>w DEF Workers
  <2> QED
    BY <1>9, <2>1, StepIsCalm DEF WorkerIdle
<1>10. CASE WorkerAdvance(s)
  <2>1. \A d : [w EXCEPT !.phase = "receive", !.drained = d].phase = "receive"
    BY <1>w DEF Workers
  <2> QED
    BY <1>10, <1>w, <2>1, StepIsCalm, QuitIsCalm, FailIsCalm DEF WorkerAdvance
<1> QED
  BY <1>1, <1>2, <1>3, <1>4, <1>5, <1>6, <1>7, <1>8, <1>9, <1>10 DEF WorkerNext, WorkerPanic

(* While control messages are read, no result is the last one. *)
LEMMA ControlIsCalm ==
    ASSUME TypeOK, CalmInv, ControlReceive, UNCHANGED <<worker, task, engine>>
    PROVE  CalmInv'
<1>1. PICK r \in Results :
          /\ Reply(r)
          /\ r.before = state /\ r.after = state' /\ r.epoch = epoch'
          /\ ControlMove(Head(inbox), r)
  BY ControlMoves
<1>2. ControlAlive /\ inbox # <<>> /\ effect' = effect /\ EffectAlive /\ EffectAlive'
  BY DEF ControlReceive, CalmInv, Together, EffectAlive
<1>3. r.effect = "Release" => ~ControlAlive'
  <2> SUFFICES ASSUME r.effect = "Release" PROVE ~ControlAlive'
    OBVIOUS
  <2>1. PICK m : m = Head(inbox) /\ Accepts(m, r)
    BY <1>1 DEF ControlMove, LeavesPlayer, CompletesStage, FailsPlayer
  <2>2. m.type = "Release"
    BY <2>1 DEF Accepts, EffectOf, Commands
  <2>3. state' = "Released"
    BY <2>1, <2>2 DEF Accepts, Transition, ActionOf, Commands
  <2> QED
    BY <1>1, <2>3 DEF Reply, ControlAlive
<1>4. \/ results' = results
      \/ /\ Len(results) \in Nat /\ Len(results') = Len(results) + 1
         /\ results'[Len(results) + 1] = r
         /\ \A i \in 1 .. Len(results) : results'[i] = results[i]
  BY <1>1, ControlAppends
<1>5. ControlAlive' => \A i \in 1 .. Len(results') : results'[i].effect # "Release"
  BY <1>2, <1>3, <1>4 DEF CalmInv, Together
<1>6. engine' # "starting"
  BY <1>2 DEF CalmInv, Together
<1> QED
  BY <1>2, <1>5, <1>6 DEF CalmInv, NoPanic, Together

(* The effect thread does not leave: nothing it meets is a reason to. *)
LEMMA ReceiveIsCalm ==
    ASSUME TypeOK, OrderInv, CalmInv, EffectReceive, UNCHANGED engine, engine # "starting"
    PROVE  CalmInv' /\ (ControlAlive' => EffectAlive')
<1> DEFINE r == Head(results)
<1>1. /\ effect = "receiving" /\ results # <<>> /\ control' = control /\ results' = Tail(results)
      /\ results \in Seq(Results) /\ r \in Results /\ EffectMove(r)
  BY EffectMoves
<1>2. /\ r = results[1] /\ 1 \in 1 .. Len(results) /\ Len(results) \in Nat
      /\ Len(Tail(results)) = Len(results) - 1
      /\ \A i \in 1 .. Len(results) - 1 : Tail(results)[i] = results[i + 1]
  BY <1>1, TailEntries
<1>3. ASSUME ControlAlive PROVE ~Returns(r) /\ ~IsOver(r) /\ r.effect # "Release"
  <2>1. r.event # "ControlError" /\ r.effect # "Release"
    BY <1>2, <1>3 DEF OrderInv, CalmInv, Together
  <2> QED
    BY <1>3, <2>1 DEF Returns, IsOver
<1>4. ControlAlive => \A i \in 1 .. Len(results') : results'[i].effect # "Release"
  <2> SUFFICES ASSUME ControlAlive, NEW i \in 1 .. Len(results')
               PROVE  results'[i].effect # "Release"
    OBVIOUS
  <2>1. results'[i] = results[i + 1] /\ i + 1 \in 1 .. Len(results)
    BY <1>1, <1>2
  <2> QED
    BY <2>1 DEF CalmInv, Together
<1>t. /\ worker \in [Epochs -> Workers] /\ handle \in Epochs \cup {NoSession}
      /\ r.epoch \in Epochs
  BY <1>1 DEF TypeOK, WorkerTypeOK, EffectTypeOK, Results
<1> HIDE DEF r
<1>5. ControlAlive => EffectAlive' /\ (effect' = "joining" => task'.why \in {"Stop", "CleanupAfterFailure"})
  <2> SUFFICES ASSUME ControlAlive
               PROVE  EffectAlive' /\ (effect' = "joining" => task'.why \in {"Stop", "CleanupAfterFailure"})
    OBVIOUS
  <2>1. CASE GivesUp(r)
    BY <1>3, <2>1 DEF GivesUp, ShutdownEffects, EffectAlive, EffectExits
  <2>2. CASE UNCHANGED effect
    BY <1>1, <2>2 DEF EffectAlive, EffectExits
  <2> QED
    BY <1>1, <1>3, <2>1, <2>2 DEF EffectMove, Ignores, Spawns, HandsOver, Answers, FindsNobody
<1>6. NoPanic'
  <2> SUFFICES ASSUME NEW s \in Epochs PROVE worker'[s].phase # "panicked"
    BY DEF NoPanic
  <2>0. worker[s].phase # "panicked"
    BY DEF CalmInv, NoPanic
  <2>1. CASE Spawns(r)
    BY <1>t, <2>0, <2>1 DEF Spawns, Spawned, Absent
  <2>2. CASE HandsOver(r)
    BY <1>t, <2>0, <2>2 DEF HandsOver, Workers
  <2>3. CASE GivesUp(r)
    BY <1>t, <2>0, <2>3 DEF GivesUp, Workers
  <2> QED
    BY <1>1, <2>0, <2>1, <2>2, <2>3 DEF EffectMove, Ignores, Answers, Returns, FindsNobody
<1> QED
  BY <1>1, <1>4, <1>5, <1>6 DEF CalmInv, Together, ControlAlive

(* No join fails. *)
LEMMA JoinedIsCalm ==
    ASSUME TypeOK, CalmInv, EffectJoined, UNCHANGED engine, engine # "starting"
    PROVE  CalmInv' /\ inbox' = inbox
<1>1. task.session \in Epochs /\ worker \in [Epochs -> Workers]
  BY DEF TypeOK, EffectTypeOK, Tasks, WorkerTypeOK
<1>2. worker[task.session].phase # "panicked"
  BY <1>1 DEF CalmInv, NoPanic
<1>3. /\ effect = "joining" /\ inbox' = inbox /\ UNCHANGED <<results, control>>
      /\ worker' = [worker EXCEPT ![task.session] = Absent]
      /\ task.why \in {"Stop", "CleanupAfterFailure"} => effect' = "receiving"
  BY <1>2 DEF EffectJoined
<1>4. NoPanic'
  BY <1>1, <1>3 DEF CalmInv, NoPanic, Absent
<1>5. ControlAlive => EffectAlive' /\ effect' = "receiving"
  BY <1>3 DEF CalmInv, Together, EffectAlive, EffectExits
<1> QED
  BY <1>3, <1>4, <1>5 DEF CalmInv, Together, ControlAlive

(* Without panics, control and effect thread stay together. *)
LEMMA CalmNext ==
    ASSUME "panic" \notin Faults
    PROVE  TypeOK /\ OwnershipInv /\ OrderInv /\ CalmInv /\ [Next]_vars => CalmInv'
<1> SUFFICES ASSUME TypeOK, OwnershipInv, OrderInv, CalmInv, [Next]_vars PROVE CalmInv'
  OBVIOUS
<1>1. CASE EngineStart
  <2>1. inbox = <<>> /\ UNCHANGED <<inbox, results, control, worker, task>>
    BY <1>1 DEF EngineStart, CalmInv, Together
  <2>2. effect = "receiving"
    BY <1>1 DEF EngineStart, OwnershipInv, HandleFitsStage
  <2>3. \/ engine' = "open" /\ effect' = effect
        \/ engine' = "aborting" /\ effect' = "NotStarted"
    BY <1>1 DEF EngineStart
  <2> QED
    BY <2>1, <2>2, <2>3 DEF CalmInv, NoPanic, Together, ControlAlive, EffectAlive, EffectExits
<1>2. CASE UserSend \/ ShutdownBegin
  <2>1. /\ engine = "open" /\ engine' # "starting"
        /\ UNCHANGED <<results, control, effect, worker, task>>
    BY <1>2 DEF UserSend, ShutdownBegin
  <2> QED
    BY <2>1 DEF CalmInv, NoPanic, Together, ControlAlive, EffectAlive
<1>3. CASE ShutdownJoin
  <2>1. /\ UNCHANGED <<inbox, results, control, effect, worker, task>>
        /\ engine' # "starting" /\ (ControlAlive => engine' = "closed")
    BY <1>3 DEF ShutdownJoin
  <2>2. engine' = "closed" => ~EffectAlive /\ engine = "joinEffect"
    BY <1>3 DEF ShutdownJoin
  <2> QED
    BY <2>1, <2>2 DEF CalmInv, NoPanic, Together, ControlAlive, EffectAlive
<1>4. CASE ControlThread
  <2>1. CASE ControlReceive
    BY <1>4, <2>1, ControlIsCalm DEF ControlThread
  <2>2. CASE ControlDisconnect
    BY <1>4, <2>2 DEF ControlThread, ControlDisconnect, CalmInv, NoPanic, Together, ControlAlive
  <2> QED
    BY <1>4, <2>1, <2>2 DEF ControlThread
<1>5. CASE EffectThread
  BY <1>5, ReceiveIsCalm, JoinedIsCalm DEF EffectThread
<1>6. ASSUME NEW s \in Epochs, WorkerThread(s) PROVE CalmInv'
  <2>1. WorkerNext(s) /\ UNCHANGED <<results, control, effect, task, engine>>
    BY <1>6 DEF WorkerThread, WorkerNext
  <2>2. Live(s) /\ \A t \in Epochs \ {s} : worker'[t] = worker[t]
    BY <2>1, WorkerStepsAlone
  <2>3. worker'[s].phase # "panicked"
    BY <2>1, WorkerIsCalm DEF TypeOK
  <2>4. NoPanic'
    BY <2>2, <2>3 DEF CalmInv, NoPanic
  <2>5. EffectAlive /\ engine # "starting"
    BY <2>2, NoSessionIsNone DEF OwnershipInv, Owned, HandleFitsStage, EffectAlive, EffectExits, Live
  <2> QED
    BY <2>1, <2>4, <2>5 DEF CalmInv, Together, ControlAlive, EffectAlive
<1>7. CASE Stopped \/ UNCHANGED vars
  <2>1. UNCHANGED <<inbox, results, control, effect, worker, task, engine>>
    BY <1>7 DEF Stopped, vars
  <2> QED
    BY <2>1 DEF CalmInv, NoPanic, Together, ControlAlive, EffectAlive
<1> QED
  BY <1>1, <1>2, <1>3, <1>4, <1>5, <1>6, <1>7 DEF Next

-----------------------------------------------------------------------------
(***************************************************************************)
(* Feedback of the current epoch comes from the session in play.  While a  *)
(* session is played the effect thread holds its worker and is not told to *)
(* do anything else; before and after, no worker but the one that prepares *)
(* is at the current epoch.                                                *)
(***************************************************************************)
SessionIsHeld ==
    Both /\ InSession =>
        /\ effect = "receiving" /\ handle # NoSession
        /\ \A i \in 1 .. Len(results) : results[i].effect \in PlayEffects \cup {"None"}

OthersAreBehind ==
    ControlAlive /\ ~InSession =>
        \A s \in Epochs : (state = "Preparing" => s # epoch) => IsBehind(worker[s])

PreparedIsHandle ==
    Both /\ state = "Preparing" /\ Arrived("PreparationCompleted") => handle = epoch

MessagesAreOurs ==
    ControlAlive =>
        \A i \in 1 .. Len(inbox) :
            inbox[i].type \in Feedbacks /\ inbox[i].epoch = epoch =>
                state \notin {"Idle", "Error"} /\ inbox[i].session = SessionInPlay

OriginInv == SessionIsHeld /\ OthersAreBehind /\ PreparedIsHandle /\ MessagesAreOurs

(* A message that completes a stage ends Preparing or is of a session. *)
LEMMA ControlKeepsOrigin ==
    ASSUME TypeOK, FreshInv, EffectInv, CalmInv, OriginInv, ControlReceive,
           UNCHANGED <<worker, handle>>
    PROVE  OriginInv'
<1> SUFFICES ASSUME ControlAlive' PROVE OriginInv'
  BY DEF OriginInv, SessionIsHeld, OthersAreBehind, PreparedIsHandle, MessagesAreOurs, Both
<1>1. PICK r \in Results :
          /\ Reply(r)
          /\ r.before = state /\ r.after = state' /\ r.epoch = epoch'
          /\ ControlMove(Head(inbox), r)
  BY ControlMoves
<1>2. /\ Both /\ inbox # <<>> /\ effect' = effect
  BY DEF ControlReceive, CalmInv, Together, Both
<1>3. inbox' = Tail(inbox) /\ state' # "Released" /\ r.event # "ControlError"
  BY <1>1 DEF Reply, ControlAlive
<1>4. /\ Len(inbox) \in Nat /\ Len(inbox') = Len(inbox) - 1
      /\ Head(inbox) = inbox[1] /\ 1 \in 1 .. Len(inbox)
      /\ \A i \in 1 .. Len(inbox') : inbox'[i] = inbox[i + 1] /\ i + 1 \in 1 .. Len(inbox)
  BY <1>2, <1>3, EntryTypes, TailEntries
<1>5. /\ Len(results) \in Nat /\ Len(results') = Len(results) + 1
      /\ results'[Len(results) + 1] = r
      /\ \A i \in 1 .. Len(results) : results'[i] = results[i]
  <2>1. results' = Append(results, r)
    BY <1>1, <1>2 DEF Reply, Both
  <2> QED
    BY <2>1, EntryTypes, AppendEntries
<1>e. epoch \in Int /\ \A i \in 1 .. Len(inbox) : inbox[i].epoch \in Int
  BY EntryTypes
<1>d. Commands \cap Feedbacks = {}
  BY DEF Commands, Feedbacks
<1>6. PICK m : m = Head(inbox)
  OBVIOUS
<1>m. m = inbox[1] /\ ControlMove(m, r)
  BY <1>1, <1>4, <1>6
(* What the message may have been. *)
<1>7. \/ epoch' = epoch + 1 /\ ~InSession' /\ state' # "Preparing"
      \/ epoch' = epoch + 1 /\ InSession /\ InSession' /\ r.effect \in PlayEffects
      \/ epoch' = epoch /\ state = "Idle" /\ state' = "Preparing"
      \/ epoch' = epoch /\ InSession /\ InSession' /\ r.effect \in PlayEffects \cup {"None"}
      \/ epoch' = epoch /\ state' = state /\ r.effect = "None"
      \/ /\ epoch' = epoch /\ state = "Preparing" /\ state' = "Ready" /\ r.effect = "None"
         /\ Arrived("PreparationCompleted")
  <2>1. CASE Accepts(m, r)
    <3>1. /\ m.type \in Commands /\ Transition(state, ActionOf[m.type], state')
          /\ epoch' = IF m.type \in InvalidatingCommands THEN epoch + 1 ELSE epoch
          /\ r.effect = EffectOf[m.type]
      BY <2>1 DEF Accepts
    <3>2. CASE m.type = "Prepare"
      BY <3>1, <3>2 DEF Transition, ActionOf, InvalidatingCommands, Commands
    <3>3. CASE m.type \in {"Play", "Pause"}
      BY <3>1, <3>3 DEF Transition, ActionOf, InvalidatingCommands, Commands, InSession, EffectOf,
                        PlayEffects
    <3>4. CASE m.type = "Seek"
      BY <3>1, <3>4 DEF Transition, ActionOf, InvalidatingCommands, Commands, InSession, EffectOf,
                        PlayEffects
    <3>5. CASE m.type = "Stop"
      BY <3>1, <3>5 DEF Transition, ActionOf, InvalidatingCommands, Commands, InSession
    <3>6. CASE m.type = "Release"
      BY <1>3, <3>1, <3>6 DEF Transition, ActionOf, InvalidatingCommands, Commands, InSession
    <3> QED
      BY <3>1, <3>2, <3>3, <3>4, <3>5, <3>6 DEF Commands
  <2>2. CASE LeavesPlayer(m, r)
    BY <2>2 DEF LeavesPlayer, KeepPlayer
  <2>3. CASE CompletesStage(m, r)
    <3>1. m.type = "PreparationCompleted" => Arrived("PreparationCompleted")
      BY <1>4, <1>m, <2>3 DEF CompletesStage, IsCurrent, Arrived
    <3> QED
      BY <2>3, <3>1 DEF CompletesStage, Transition, CompletableStates, InSession
  <2>4. CASE FailsPlayer(m, r)
    BY <2>4 DEF FailsPlayer, InSession
  <2> QED
    BY <1>m, <2>1, <2>2, <2>3, <2>4 DEF ControlMove
<1>o. SessionIsHeld /\ OthersAreBehind /\ PreparedIsHandle /\ MessagesAreOurs
  BY DEF OriginInv
<1>h. Arrived("PreparationCompleted") =>
         /\ effect = "receiving" /\ handle # NoSession
         /\ \A i \in 1 .. Len(results) : results[i].effect = "None"
  BY <1>2 DEF EffectInv, PreparationIsHeld, UnderPreparation, Both, Held, Quiet
<1>8. SessionIsHeld'
  <2> SUFFICES ASSUME InSession'
               PROVE  /\ effect = "receiving" /\ handle # NoSession
                      /\ \A i \in 1 .. Len(results') : results'[i].effect \in PlayEffects \cup {"None"}
    BY <1>2 DEF SessionIsHeld
  <2>1. /\ effect = "receiving" /\ handle # NoSession
        /\ \A i \in 1 .. Len(results) : results[i].effect \in PlayEffects \cup {"None"}
        /\ r.effect \in PlayEffects \cup {"None"}
    <3>1. InSession \/ Arrived("PreparationCompleted")
      BY <1>7 DEF InSession
    <3>2. r.effect \in PlayEffects \cup {"None"}
      BY <1>7 DEF InSession
    <3> QED
      BY <1>2, <1>o, <1>h, <3>1, <3>2 DEF SessionIsHeld
  <2>2. \A i \in 1 .. Len(results') : i \in 1 .. Len(results) \/ i = Len(results) + 1
    BY <1>5
  <2> QED
    BY <1>5, <2>1, <2>2
<1>9. OthersAreBehind'
  <2> SUFFICES ASSUME ~InSession', NEW s \in Epochs, state' = "Preparing" => s # epoch'
               PROVE  IsBehind(worker[s])'
    BY DEF OthersAreBehind
  <2>1. CASE epoch' = epoch
    <3>1. ~InSession /\ (state = "Preparing" => s # epoch)
      BY <1>7, <1>e, <2>1 DEF InSession
    <3>2. IsBehind(worker[s])
      BY <1>2, <1>o, <3>1 DEF OthersAreBehind, Both
    <3> QED
      BY <2>1, <3>2 DEF IsBehind, Lives
  <2>2. CASE epoch' = epoch + 1
    BY <1>e, <2>2, NewEpochIsEmpty
  <2> QED
    BY <1>7, <2>1, <2>2
<1>10. PreparedIsHandle'
  <2> SUFFICES ASSUME state' = "Preparing", Arrived("PreparationCompleted")'
               PROVE  handle = epoch'
    BY DEF PreparedIsHandle
  <2>1. epoch' = epoch /\ state \in {"Idle", "Preparing"}
    BY <1>7 DEF InSession
  <2>2. PICK i \in 1 .. Len(inbox') : inbox'[i].type = "PreparationCompleted" /\ inbox'[i].epoch = epoch
    BY <2>1 DEF Arrived
  <2>3. PICK j \in 1 .. Len(inbox) : inbox[j].type = "PreparationCompleted" /\ inbox[j].epoch = epoch
    BY <1>4, <2>2
  <2>4. state = "Preparing"
    BY <1>2, <1>o, <2>1, <2>3 DEF MessagesAreOurs, Feedbacks, Both
  <2>5. handle = epoch
    BY <1>2, <1>o, <2>3, <2>4 DEF PreparedIsHandle, Arrived
  <2> QED
    BY <2>1, <2>5
<1>11. MessagesAreOurs'
  <2> SUFFICES ASSUME NEW i \in 1 .. Len(inbox'), inbox'[i].type \in Feedbacks, inbox'[i].epoch = epoch'
               PROVE  state' \notin {"Idle", "Error"} /\ inbox'[i].session = SessionInPlay'
    BY DEF MessagesAreOurs
  <2>1. PICK j \in 1 .. Len(inbox) : inbox'[i] = inbox[j]
    BY <1>4
  <2>2. inbox[j].epoch <= epoch
    BY DEF FreshInv, InboxFresh, Usable
  <2>3. epoch' = epoch
    BY <1>7, <1>e, <2>1, <2>2
  <2>4. state \notin {"Idle", "Error"} /\ inbox[j].session = SessionInPlay
    BY <1>2, <1>o, <2>1, <2>3 DEF MessagesAreOurs, Both
  <2>5. CASE state' = state
    BY <2>1, <2>3, <2>4, <2>5 DEF SessionInPlay
  <2>6. CASE InSession /\ InSession'
    BY <2>1, <2>4, <2>6 DEF SessionInPlay, InSession
  <2>7. CASE state = "Preparing" /\ state' = "Ready" /\ Arrived("PreparationCompleted")
    BY <1>2, <1>o, <2>1, <2>4, <2>7 DEF SessionInPlay, PreparedIsHandle
  <2> QED
    BY <1>7, <1>e, <2>3, <2>4, <2>5, <2>6, <2>7
<1> QED
  BY <1>8, <1>9, <1>10, <1>11 DEF OriginInv

(* What has come to the effect thread keeps the session in play. *)
LEMMA ReceiveKeepsOrigin ==
    ASSUME TypeOK, FreshInv, TalkInv, EffectInv, OrderInv, CalmInv, OriginInv,
           EffectReceive, UNCHANGED <<state, epoch, engine>>, engine # "starting"
    PROVE  OriginInv'
<1> SUFFICES ASSUME ControlAlive' PROVE OriginInv'
  BY DEF OriginInv, SessionIsHeld, OthersAreBehind, PreparedIsHandle, MessagesAreOurs, Both
<1>1. Both'
  BY ReceiveIsCalm DEF Both
<1>2. PICK r \in Results :
          /\ r = Head(results) /\ r = results[1] /\ 1 \in 1 .. Len(results)
          /\ \/ Ignores(r) \/ Spawns(r) \/ HandsOver(r) \/ Answers(r) \/ FindsNobody(r)
             \/ GivesUp(r) /\ r.effect \in ShutdownEffects
  BY <1>1, ReceiveMoves
<1>3. Both /\ effect = "receiving" /\ results # <<>> /\ results' = Tail(results)
  BY <1>1, ReceiveMoves
<1>4. /\ Len(results) \in Nat /\ Len(results') = Len(results) - 1
      /\ \A i \in 1 .. Len(results') : results'[i] = results[i + 1] /\ i + 1 \in 1 .. Len(results)
  BY <1>3, EntryTypes, TailEntries
<1>o. SessionIsHeld /\ OthersAreBehind /\ PreparedIsHandle /\ MessagesAreOurs
  BY DEF OriginInv
<1>r. /\ r.epoch = epoch /\ r.effect \in PlayEffects => InSession
      /\ r.epoch = epoch /\ r.effect = "BeginPrepare" => state = "Preparing"
  BY <1>2, <1>3 DEF TalkInv, ResultsFit, ResultFits, CommandFits, Both
<1>n. \A e \in Epochs : [type |-> "Failed", epoch |-> r.epoch, session |-> e] \in Messages
  <2>1. r.epoch \in Epochs
    BY DEF Results
  <2>2. "Failed" \in Commands \cup Feedbacks
    BY DEF Feedbacks
  <2> QED
    BY <2>1, <2>2 DEF Messages
<1>5. InSession => handle # NoSession /\ UNCHANGED <<effect, handle>>
  <2> SUFFICES ASSUME InSession PROVE handle # NoSession /\ UNCHANGED <<effect, handle>>
    OBVIOUS
  <2>1. handle # NoSession /\ r.effect \in PlayEffects \cup {"None"}
    BY <1>2, <1>3, <1>o DEF SessionIsHeld
  <2> QED
    BY <1>2, <2>1 DEF PlayEffects, ShutdownEffects, Ignores, Spawns, HandsOver, Answers, FindsNobody
<1>6. SessionIsHeld'
  <2> SUFFICES ASSUME InSession'
               PROVE  /\ effect' = "receiving" /\ handle' # NoSession
                      /\ \A i \in 1 .. Len(results') : results'[i].effect \in PlayEffects \cup {"None"}
    BY DEF SessionIsHeld
  <2>1. InSession
    BY DEF InSession
  <2>2. \A i \in 1 .. Len(results) : results[i].effect \in PlayEffects \cup {"None"}
    BY <1>3, <1>o, <2>1 DEF SessionIsHeld
  <2> QED
    BY <1>3, <1>4, <1>5, <2>1, <2>2
<1>7. OthersAreBehind'
  <2> SUFFICES ASSUME ~InSession', NEW s \in Epochs, state = "Preparing" => s # epoch
               PROVE  IsBehind(worker[s])'
    BY DEF OthersAreBehind
  <2>1. ~InSession /\ IsBehind(worker[s])
    BY <1>3, <1>o DEF OthersAreBehind, InSession, Both
  <2>2. worker \in [Epochs -> Workers] /\ (handle # NoSession => handle \in Epochs)
    BY DEF TypeOK, WorkerTypeOK, EffectTypeOK
  <2>t. worker[s] \in Workers /\ worker[s].queue \in Seq(WorkerCommands) /\ Len(worker[s].queue) \in Nat
    BY EntryTypes
  <2>3. CASE Ignores(r) \/ Answers(r) \/ FindsNobody(r)
    BY <2>1, <2>3 DEF Ignores, Answers, FindsNobody, IsBehind, Lives
  <2>4. CASE Spawns(r)
    <3>1. r.epoch \in Epochs /\ worker' = [worker EXCEPT ![r.epoch] = Spawned(r.epoch)]
      BY <2>4 DEF Spawns, Results
    <3>2. CASE s = r.epoch
      <4>1. s # epoch
        BY <1>r, <2>4, <3>2 DEF Spawns
      <4>2. worker'[s] = Spawned(s)
        BY <2>2, <3>1, <3>2
      <4>3. Spawned(s).feedback = s /\ Len(Spawned(s).queue) = 0
        BY DEF Spawned, Absent
      <4> QED
        BY <4>1, <4>2, <4>3 DEF IsBehind
    <3>3. CASE s # r.epoch
      <4>1. worker'[s] = worker[s]
        BY <2>2, <3>1, <3>3
      <4> QED
        BY <2>1, <4>1 DEF IsBehind, Lives
    <3> QED
      BY <3>2, <3>3
  <2>5. CASE HandsOver(r)
    <3>1. r.epoch # epoch
      BY <1>r, <2>1, <2>5 DEF HandsOver
    <3>2. CASE s = handle
      <4>1. PICK w : w = worker[s]
        OBVIOUS
      <4>2. PICK v : v = [w EXCEPT !.queue = Append(w.queue, CommandOf(r))]
        OBVIOUS
      <4>3. worker'[s] = v
        BY <2>2, <2>5, <3>2, <4>1, <4>2 DEF HandsOver
      <4>4. v.feedback = w.feedback /\ v.phase = w.phase /\ v.queue = Append(w.queue, CommandOf(r))
        BY <2>t, <4>1, <4>2 DEF Workers
      <4>5. CommandOf(r) \in WorkerCommands /\ CommandOf(r).epoch = r.epoch
        BY <2>5 DEF HandsOver, CommandOf, WorkerCommands, PlayEffects, Results
      <4>6. /\ Len(v.queue) = Len(w.queue) + 1 /\ v.queue[Len(w.queue) + 1] = CommandOf(r)
            /\ \A i \in 1 .. Len(w.queue) : v.queue[i] = w.queue[i]
        BY <2>t, <4>1, <4>4, <4>5, AppendEntries
      <4>7. \A i \in 1 .. Len(v.queue) : i \in 1 .. Len(w.queue) \/ i = Len(w.queue) + 1
        BY <2>t, <4>1, <4>6
      <4>8. Lives(v) => v.feedback # epoch /\ \A i \in 1 .. Len(v.queue) : v.queue[i].epoch # epoch
        BY <2>1, <3>1, <4>1, <4>4, <4>5, <4>6, <4>7 DEF IsBehind, Lives
      <4> QED
        BY <4>3, <4>8 DEF IsBehind, Lives
    <3>3. CASE s # handle
      <4>1. worker'[s] = worker[s]
        BY <2>2, <2>5, <3>3 DEF HandsOver
      <4> QED
        BY <2>1, <4>1 DEF IsBehind, Lives
    <3> QED
      BY <3>2, <3>3
  <2>6. CASE GivesUp(r)
    <3>1. /\ worker'[s].phase = worker[s].phase /\ worker'[s].feedback = worker[s].feedback
          /\ worker'[s].queue = worker[s].queue
      BY <2>2, <2>6 DEF GivesUp, Workers
    <3> QED
      BY <2>1, <3>1 DEF IsBehind, Lives
  <2> QED
    BY <1>2, <2>3, <2>4, <2>5, <2>6
<1>8. /\ inbox' = inbox
      \/ /\ Answers(r)
         /\ \E e \in Epochs : /\ e = IF r.effect = "BeginPrepare" \/ handle = NoSession THEN r.epoch ELSE handle
                             /\ inbox' = Append(inbox, [type |-> "Failed", epoch |-> r.epoch, session |-> e])
  BY <1>2 DEF Ignores, Spawns, HandsOver, Answers, FindsNobody, GivesUp
<1>9. PreparedIsHandle'
  <2> SUFFICES ASSUME state = "Preparing", Arrived("PreparationCompleted")'
               PROVE  handle' = epoch
    BY DEF PreparedIsHandle
  <2>1. Arrived("PreparationCompleted")
    <3>1. CASE inbox' = inbox
      BY <3>1 DEF Arrived
    <3>2. ASSUME NEW e \in Epochs, inbox' = Append(inbox, [type |-> "Failed", epoch |-> r.epoch, session |-> e])
          PROVE  Arrived("PreparationCompleted")
      <4>1. PICK n : n = [type |-> "Failed", epoch |-> r.epoch, session |-> e] /\ n \in Messages
        BY <1>n
      <4>2. n.type # "PreparationCompleted"
        BY <4>1
      <4> QED
        BY <3>2, <4>1, <4>2, ArrivedGrows
    <3> QED
      BY <1>8, <3>1, <3>2
  <2>2. handle = epoch
    BY <1>3, <1>o, <2>1 DEF PreparedIsHandle
  <2>3. Held(Len(results))
    BY <1>3, <2>1 DEF EffectInv, PreparationIsHeld, UnderPreparation, Both
  <2>4. handle' = handle
    BY <2>3, HeldShrinks
  <2> QED
    BY <2>2, <2>4
<1>10. MessagesAreOurs'
  <2>1. ASSUME NEW i \in 1 .. Len(inbox), inbox[i].type \in Feedbacks, inbox[i].epoch = epoch
        PROVE  state \notin {"Idle", "Error"} /\ inbox[i].session = SessionInPlay'
    <3>1. state \notin {"Idle", "Error"} /\ inbox[i].session = SessionInPlay
      BY <1>3, <1>o, <2>1 DEF MessagesAreOurs, Both
    <3>2. state = "Preparing" \/ InSession
      BY <1>3, <3>1 DEF InSession, FreshInv, Both, TypeOK, ControlTypeOK, PlayerStates
    <3> QED
      BY <1>5, <3>1, <3>2 DEF SessionInPlay, InSession
  <2>2. CASE inbox' = inbox
    BY <2>1, <2>2 DEF MessagesAreOurs
  <2>3. ASSUME NEW e \in Epochs, Answers(r),
               e = IF r.effect = "BeginPrepare" \/ handle = NoSession THEN r.epoch ELSE handle,
               inbox' = Append(inbox, [type |-> "Failed", epoch |-> r.epoch, session |-> e])
        PROVE  MessagesAreOurs'
    <3>1. PICK n : n = [type |-> "Failed", epoch |-> r.epoch, session |-> e] /\ n \in Messages
      BY <1>n
    <3>2. /\ Len(inbox) \in Nat /\ Len(inbox') = Len(inbox) + 1 /\ inbox'[Len(inbox) + 1] = n
          /\ \A i \in 1 .. Len(inbox) : inbox'[i] = inbox[i]
      BY <2>3, <3>1, EntryTypes, AppendEntries
    <3>3. r.epoch = epoch => state \notin {"Idle", "Error"} /\ e = SessionInPlay'
      <4> SUFFICES ASSUME r.epoch = epoch PROVE state \notin {"Idle", "Error"} /\ e = SessionInPlay'
        OBVIOUS
      <4>1. CASE r.effect = "BeginPrepare"
        BY <1>r, <2>3, <4>1 DEF SessionInPlay
      <4>2. CASE r.effect \in PlayEffects
        BY <1>r, <1>5, <2>3, <4>2 DEF SessionInPlay, InSession, PlayEffects
      <4> QED
        BY <2>3, <4>1, <4>2 DEF Answers
    <3>4. n.epoch = r.epoch /\ n.session = e
      BY <3>1
    <3>5. \A i \in 1 .. Len(inbox') : i \in 1 .. Len(inbox) \/ i = Len(inbox) + 1
      BY <3>2
    <3> QED
      BY <2>1, <3>2, <3>3, <3>4, <3>5 DEF MessagesAreOurs
  <2> QED
    BY <1>8, <2>2, <2>3
<1> QED
  BY <1>6, <1>7, <1>9, <1>10 DEF OriginInv

(* A worker that is gone says nothing. *)
LEMMA JoinedKeepsOrigin ==
    ASSUME TypeOK, CalmInv, OriginInv, EffectJoined, UNCHANGED <<state, epoch, engine>>,
           engine # "starting"
    PROVE  OriginInv'
<1>1. inbox' = inbox /\ UNCHANGED <<results, control, handle>> /\ effect = "joining"
  BY JoinedIsCalm DEF EffectJoined
<1>2. \A s \in Epochs : worker'[s] = worker[s] \/ worker'[s] = Absent
  BY DEF EffectJoined, TypeOK, WorkerTypeOK
<1>3. ControlAlive' => Both /\ ~InSession
  BY <1>1 DEF OriginInv, SessionIsHeld, Both, ControlAlive, EffectAlive, EffectExits
<1>4. SessionIsHeld'
  BY <1>3 DEF SessionIsHeld, Both, InSession
<1>5. OthersAreBehind'
  <2> SUFFICES ASSUME ControlAlive', NEW s \in Epochs, state = "Preparing" => s # epoch
               PROVE  IsBehind(worker[s])'
    BY DEF OthersAreBehind
  <2>1. IsBehind(worker[s])
    BY <1>3 DEF OriginInv, OthersAreBehind, Both
  <2>2. CASE worker'[s] = worker[s]
    BY <2>1, <2>2 DEF IsBehind, Lives
  <2>3. CASE worker'[s] = Absent
    BY <2>3 DEF IsBehind, Lives, Absent
  <2> QED
    BY <1>2, <2>2, <2>3
<1>6. PreparedIsHandle'
  BY <1>1, <1>3 DEF OriginInv, PreparedIsHandle, Arrived, Both
<1>7. MessagesAreOurs'
  BY <1>1, <1>3 DEF OriginInv, MessagesAreOurs, SessionInPlay, Both
<1> QED
  BY <1>4, <1>5, <1>6, <1>7 DEF OriginInv

(* A worker that is behind stays behind: commands it has are of old epochs. *)
LEMMA BehindStays ==
    ASSUME NEW w \in Workers, NEW v \in Workers, Lives(w), IsBehind(w),
           \/ SameQueue(w, v)
           \/ TakesCommand(w, v)
           \/ /\ v.queue = <<>>
              /\ v.feedback = w.feedback \/ (w.queue # <<>> /\ v.feedback = Head(w.queue).epoch)
    PROVE  /\ v.feedback # epoch
           /\ \A i \in 1 .. Len(v.queue) : v.queue[i].epoch # epoch
<1>1. w.queue \in Seq(WorkerCommands) /\ Len(w.queue) \in Nat
  BY WorkerTypes
<1>2. w.feedback # epoch /\ \A i \in 1 .. Len(w.queue) : w.queue[i].epoch # epoch
  BY DEF IsBehind
<1>3. ASSUME w.queue # <<>>
      PROVE  /\ Head(w.queue).epoch # epoch
             /\ \A i \in 1 .. Len(Tail(w.queue)) : Tail(w.queue)[i].epoch # epoch
  <2>1. /\ Head(w.queue) = w.queue[1] /\ 1 \in 1 .. Len(w.queue)
        /\ Len(Tail(w.queue)) = Len(w.queue) - 1
        /\ \A i \in 1 .. Len(w.queue) - 1 : Tail(w.queue)[i] = w.queue[i + 1]
    BY <1>1, <1>3, TailEntries
  <2>2. ASSUME NEW i \in 1 .. Len(Tail(w.queue)) PROVE Tail(w.queue)[i].epoch # epoch
    <3>1. i \in 1 .. Len(w.queue) - 1 /\ i + 1 \in 1 .. Len(w.queue)
      BY <1>1, <2>1
    <3> QED
      BY <1>2, <2>1, <3>1
  <2> QED
    BY <1>2, <2>1, <2>2
<1>4. CASE SameQueue(w, v)
  <2>1. v.feedback = w.feedback /\ v.queue = w.queue
    BY <1>4 DEF SameQueue
  <2> QED
    BY <1>2, <2>1
<1>5. CASE TakesCommand(w, v)
  <2>1. w.queue # <<>> /\ v.queue = Tail(w.queue)
    BY <1>5 DEF TakesCommand
  <2>2. v.feedback = Head(w.queue).epoch \/ v.feedback = w.feedback
    BY <1>5 DEF TakesCommand
  <2>3. v.feedback # epoch
    BY <1>2, <1>3, <2>1, <2>2
  <2>4. \A i \in 1 .. Len(Tail(w.queue)) : Tail(w.queue)[i].epoch # epoch
    BY <1>3, <2>1
  <2> QED
    BY <2>1, <2>3, <2>4
<1>6. ASSUME v.queue = <<>>,
             v.feedback = w.feedback \/ (w.queue # <<>> /\ v.feedback = Head(w.queue).epoch)
      PROVE  /\ v.feedback # epoch
             /\ \A i \in 1 .. Len(v.queue) : v.queue[i].epoch # epoch
  <2>1. v.feedback # epoch
    BY <1>2, <1>3, <1>6
  <2>2. Len(v.queue) = 0
    BY <1>6
  <2>3. 1 .. Len(v.queue) = {}
    BY <2>2
  <2> QED
    BY <2>1, <2>3
<1> QED
  BY <1>4, <1>5, <1>6

(* A worker speaks for the session that is prepared or held. *)
LEMMA WorkerKeepsOrigin ==
    ASSUME TypeOK, OwnershipInv, EffectInv, OrderInv, OriginInv,
           NEW s \in Epochs, WorkerNext(s), UNCHANGED <<state, epoch, handle>>
    PROVE  OriginInv'
<1> SUFFICES ASSUME ControlAlive' PROVE OriginInv'
  BY DEF OriginInv, SessionIsHeld, OthersAreBehind, PreparedIsHandle, MessagesAreOurs, Both
<1>1. PICK v \in Workers :
          WorkerMove(s, worker[s], v) /\ worker' = [worker EXCEPT ![s] = v]
  BY WorkerMoves DEF TypeOK
<1>2. UNCHANGED <<results, control, effect>> /\ Live(s)
  BY WorkerStepsAlone DEF WorkerNext
<1>3. worker'[s] = v /\ \A t \in Epochs \ {s} : worker'[t] = worker[t]
  BY <1>1 DEF TypeOK, WorkerTypeOK
<1>w. worker[s] \in Workers /\ Lives(worker[s]) /\ worker[s].phase # "absent"
  BY <1>2 DEF TypeOK, WorkerTypeOK, Live, Lives
<1>b. Both
  BY <1>2, <1>w, NoSessionIsNone
     DEF Both, ControlAlive, OwnershipInv, Owned, HandleFitsStage, EffectAlive, EffectExits
<1>o. SessionIsHeld /\ OthersAreBehind /\ PreparedIsHandle /\ MessagesAreOurs
  BY DEF OriginInv
<1>4. IsBehind(worker[s]) => /\ v.feedback # epoch
                            /\ \A i \in 1 .. Len(v.queue) : v.queue[i].epoch # epoch
  BY <1>1, <1>w, WorkerOutcome, BehindStays
<1>5. SessionIsHeld'
  BY <1>2, <1>b, <1>o DEF SessionIsHeld, InSession
<1>6. OthersAreBehind'
  <2> SUFFICES ASSUME ~InSession', NEW t \in Epochs, state = "Preparing" => t # epoch
               PROVE  IsBehind(worker[t])'
    BY DEF OthersAreBehind
  <2>1. IsBehind(worker[t])
    BY <1>b, <1>o DEF OthersAreBehind, InSession, Both
  <2>2. CASE t = s
    BY <1>3, <1>4, <2>1, <2>2 DEF IsBehind
  <2>3. CASE t # s
    BY <1>3, <2>1, <2>3 DEF IsBehind, Lives
  <2> QED
    BY <2>2, <2>3
<1>7. v.feedback = epoch => state \notin {"Idle", "Error"} /\ s = SessionInPlay
  <2> SUFFICES ASSUME v.feedback = epoch PROVE state \notin {"Idle", "Error"} /\ s = SessionInPlay
    OBVIOUS
  <2>1. ~IsBehind(worker[s])
    BY <1>4
  <2>2. CASE InSession
    <3>1. effect = "receiving"
      BY <1>b, <1>o, <2>2 DEF SessionIsHeld
    <3>2. handle = s
      BY <1>w, <3>1, HeldIsHandle
    <3> QED
      BY <2>2, <3>2 DEF InSession, SessionInPlay
  <2>3. CASE ~InSession
    <3>1. state = "Preparing" /\ s = epoch
      BY <1>b, <1>o, <2>1, <2>3 DEF OthersAreBehind, Both
    <3> QED
      BY <3>1 DEF SessionInPlay
  <2> QED
    BY <2>2, <2>3
<1>8. inbox' = inbox \/ \E t \in Feedbacks : Says(s, t, v)
  BY <1>1, WorkerOutcome
<1>9. PreparedIsHandle'
  <2> SUFFICES ASSUME state = "Preparing", Arrived("PreparationCompleted")' PROVE handle = epoch
    BY DEF PreparedIsHandle
  <2>1. CASE Arrived("PreparationCompleted")
    BY <1>b, <1>o, <2>1 DEF PreparedIsHandle
  <2>2. CASE ~Arrived("PreparationCompleted")
    <3>1. PICK t \in Feedbacks : Says(s, t, v)
      BY <1>8, <2>2 DEF Arrived
    <3>2. t = "PreparationCompleted" /\ v.feedback = epoch
      BY <2>2, <3>1, SaysMessage, ArrivedGrows
    <3>3. Prepares(s, worker[s], v)
      <4>1. PICK n : n = Message(t, v, s) /\ n \in Messages /\ inbox' = Append(inbox, n)
                     /\ n.type = "PreparationCompleted"
        BY <3>1, <3>2, SaysMessage
      <4>2. /\ Len(inbox) \in Nat /\ Len(inbox') = Len(inbox) + 1 /\ inbox'[Len(inbox) + 1] = n
        BY <4>1, EntryTypes, AppendEntries
      <4>3. inbox' # inbox
        BY <4>2
      <4>4. \A u \in Feedbacks : Says(s, u, v) => u = "PreparationCompleted"
        <5> SUFFICES ASSUME NEW u \in Feedbacks, Says(s, u, v) PROVE u = "PreparationCompleted"
          OBVIOUS
        <5>1. PICK k : k = Message(u, v, s) /\ k \in Messages /\ inbox' = Append(inbox, k) /\ k.type = u
          BY SaysMessage
        <5>2. inbox'[Len(inbox) + 1] = k
          BY <5>1, EntryTypes, AppendEntries
        <5> QED
          BY <4>1, <4>2, <5>1, <5>2
      <4>5. /\ ~Says(s, "Failed", v) /\ ~Says(s, "DurationChanged", v) /\ ~Says(s, "SeekCompleted", v)
            /\ ~Says(s, "AudioProgress", v) /\ ~Says(s, "PlaybackCompleted", v)
        BY <4>4 DEF Feedbacks
      <4> QED
        BY <1>1, <4>3, <4>5 DEF WorkerMove, Ends, Fails, Begins, Builds, Starts, Pauses, Seeks,
                                Reports, Completes, Rests, Silent
    <3>4. PreparesNow(worker[s])
      BY <3>2, <3>3 DEF Prepares, SameQueue, PreparesNow, PrepPhases
    <3>5. effect = "receiving"
      BY <1>b, <3>4 DEF EffectInv, PreparationIsHeld, UnderPreparation, Held, Both
    <3>6. handle = s
      BY <1>w, <3>5, HeldIsHandle
    <3> QED
      BY <1>7, <3>2, <3>6 DEF SessionInPlay
  <2> QED
    BY <2>1, <2>2
<1>10. MessagesAreOurs'
  <2>1. ASSUME NEW i \in 1 .. Len(inbox), inbox[i].type \in Feedbacks, inbox[i].epoch = epoch
        PROVE  state \notin {"Idle", "Error"} /\ inbox[i].session = SessionInPlay
    BY <1>b, <1>o, <2>1 DEF MessagesAreOurs, Both
  <2>2. SessionInPlay' = SessionInPlay
    BY DEF SessionInPlay
  <2>3. CASE inbox' = inbox
    BY <2>1, <2>2, <2>3 DEF MessagesAreOurs
  <2>4. ASSUME NEW t \in Feedbacks, Says(s, t, v) PROVE MessagesAreOurs'
    <3>1. PICK n : n = Message(t, v, s) /\ n \in Messages /\ inbox' = Append(inbox, n)
      BY <2>4, SaysMessage
    <3>2. n.epoch = v.feedback /\ n.session = s
      BY <3>1 DEF Message
    <3>3. /\ Len(inbox) \in Nat /\ Len(inbox') = Len(inbox) + 1 /\ inbox'[Len(inbox) + 1] = n
          /\ \A i \in 1 .. Len(inbox) : inbox'[i] = inbox[i]
      BY <3>1, EntryTypes, AppendEntries
    <3>4. \A i \in 1 .. Len(inbox') : i \in 1 .. Len(inbox) \/ i = Len(inbox) + 1
      BY <3>3
    <3> QED
      BY <1>7, <2>1, <2>2, <3>2, <3>3, <3>4 DEF MessagesAreOurs
  <2> QED
    BY <1>8, <2>3, <2>4
<1> QED
  BY <1>5, <1>6, <1>9, <1>10 DEF OriginInv

(* Steps that at most send a command, or end a thread. *)
LEMMA OriginStays ==
    ASSUME TypeOK, OriginInv, UNCHANGED <<results, state, epoch, worker, handle>>,
           ControlAlive' => ControlAlive, effect' = effect \/ effect' \in EffectExits,
           inbox' = inbox \/ \E m \in Messages :
               inbox' = Append(inbox, m) /\ m.type \notin Feedbacks
    PROVE  OriginInv'
<1> SUFFICES ASSUME ControlAlive' PROVE OriginInv'
  BY DEF OriginInv, SessionIsHeld, OthersAreBehind, PreparedIsHandle, MessagesAreOurs, Both
<1>1. Both' => Both /\ effect' = effect
  BY DEF Both, EffectAlive
<1>2. SessionIsHeld'
  BY <1>1 DEF OriginInv, SessionIsHeld, InSession
<1>3. OthersAreBehind'
  BY DEF OriginInv, OthersAreBehind, InSession, IsBehind, Lives
<1>4. PreparedIsHandle'
  <2>1. Arrived("PreparationCompleted")' => Arrived("PreparationCompleted")
    <3>1. CASE inbox' = inbox
      BY <3>1 DEF Arrived
    <3>2. "PreparationCompleted" \in Feedbacks
      BY DEF Feedbacks
    <3> QED
      BY <3>1, <3>2, ArrivedGrows
  <2> QED
    BY <1>1, <2>1 DEF OriginInv, PreparedIsHandle
<1>5. MessagesAreOurs'
  <2>1. SessionInPlay' = SessionInPlay
    BY DEF SessionInPlay
  <2>2. \A i \in 1 .. Len(inbox') :
            inbox'[i].type \in Feedbacks => i \in 1 .. Len(inbox) /\ inbox'[i] = inbox[i]
    <3>1. CASE inbox' = inbox
      BY <3>1
    <3>2. ASSUME NEW m \in Messages, inbox' = Append(inbox, m), m.type \notin Feedbacks
          PROVE  \A i \in 1 .. Len(inbox') :
                     inbox'[i].type \in Feedbacks => i \in 1 .. Len(inbox) /\ inbox'[i] = inbox[i]
      <4>1. /\ Len(inbox) \in Nat /\ Len(inbox') = Len(inbox) + 1 /\ inbox'[Len(inbox) + 1] = m
            /\ \A i \in 1 .. Len(inbox) : inbox'[i] = inbox[i]
        BY <3>2, EntryTypes, AppendEntries
      <4>2. \A i \in 1 .. Len(inbox') : i \in 1 .. Len(inbox) \/ i = Len(inbox) + 1
        BY <4>1
      <4> QED
        BY <3>2, <4>1, <4>2
    <3> QED
      BY <3>1, <3>2
  <2> QED
    BY <2>1, <2>2 DEF OriginInv, MessagesAreOurs
<1> QED
  BY <1>2, <1>3, <1>4, <1>5 DEF OriginInv

LEMMA OriginNext ==
    /\ TypeOK /\ OwnershipInv /\ FreshInv /\ TalkInv /\ EffectInv /\ OrderInv /\ CalmInv
    /\ OriginInv /\ [Next]_vars
    => OriginInv'
<1> SUFFICES ASSUME TypeOK, OwnershipInv, FreshInv, TalkInv, EffectInv, OrderInv, CalmInv,
                    OriginInv, [Next]_vars
             PROVE  OriginInv'
  OBVIOUS
<1>1. ASSUME NEW c \in Commands, Post([type |-> c, epoch |-> 0, session |-> 0]),
             UNCHANGED <<results, control, effect, state, epoch, worker, handle>>
      PROVE  OriginInv'
  <2>1. PICK m : m = [type |-> c, epoch |-> 0, session |-> 0] /\ m \in Messages
                 /\ m.type \notin Feedbacks
    BY <1>1, MaxEpochAssumption DEF Messages, Epochs, Commands, Feedbacks
  <2>2. inbox' = inbox \/ inbox' = Append(inbox, m)
    BY <1>1, <2>1 DEF Post
  <2>3. ControlAlive' => ControlAlive
    BY <1>1 DEF ControlAlive
  <2> QED
    BY <1>1, <2>1, <2>2, <2>3, OriginStays
<1>2. CASE EngineStart \/ ShutdownJoin \/ Stopped \/ UNCHANGED vars
  BY <1>2, OriginStays DEF EngineStart, ShutdownJoin, Stopped, vars, EffectExits, ControlAlive
<1>3. CASE UserSend
  BY <1>1, <1>3, UserCommandsAssumption DEF UserSend
<1>4. CASE ShutdownBegin
  <2>1. "Release" \in Commands
    BY DEF Commands
  <2> QED
    BY <1>1, <1>4, <2>1 DEF ShutdownBegin
<1>5. CASE ControlThread
  <2>1. CASE ControlReceive
    BY <1>5, <2>1, ControlKeepsOrigin DEF ControlThread
  <2>2. CASE ControlDisconnect
    BY <1>5, <2>2, OriginStays DEF ControlThread, ControlDisconnect, ControlAlive
  <2> QED
    BY <1>5, <2>1, <2>2 DEF ControlThread
<1>6. CASE EffectThread
  BY <1>6, ReceiveKeepsOrigin, JoinedKeepsOrigin DEF EffectThread
<1>7. ASSUME NEW s \in Epochs, WorkerThread(s) PROVE OriginInv'
  BY <1>7, WorkerKeepsOrigin DEF WorkerThread
<1> QED
  BY <1>2, <1>3, <1>4, <1>5, <1>6, <1>7 DEF Next

(***************************************************************************)
(* The result of old work does not change the new state (docs/epoch.md:86) *)
(* for engines whose pipelines do not panic, whatever else fails: only the *)
(* epoch is compared, and yet feedback that is acted on was always sent by *)
(* the session that is prepared or played, or by the effect thread for it  *)
(* (MessagesAreOurs).  With panics this is false: the join of a Stop may   *)
(* fail in the next session's Preparing.                                   *)
(***************************************************************************)
THEOREM OldWorkIsHarmlessWithoutPanics ==
    ASSUME "panic" \notin Faults
    PROVE  Spec => OldWorkIsHarmless
<1>1. Init => CalmInv /\ OriginInv
  <2> SUFFICES ASSUME Init PROVE CalmInv /\ OriginInv
    OBVIOUS
  <2>1. /\ inbox = <<>> /\ results = <<>> /\ handle = NoSession /\ effect = "receiving"
        /\ state = "Idle" /\ \A s \in Epochs : worker[s].phase = "absent"
    BY DEF Init, ControlInit, EffectInit, WorkerInit, Absent
  <2> QED
    BY <2>1
       DEF CalmInv, NoPanic, Together, EffectAlive, EffectExits, OriginInv, SessionIsHeld,
           OthersAreBehind, PreparedIsHandle, MessagesAreOurs, InSession, IsBehind, Lives
<1>2. TypeOK /\ OwnershipInv /\ OrderInv /\ CalmInv /\ [Next]_vars => CalmInv'
  BY CalmNext
<1>3. /\ TypeOK /\ OwnershipInv /\ FreshInv /\ TalkInv /\ EffectInv /\ OrderInv /\ CalmInv
      /\ OriginInv /\ [Next]_vars
      => OriginInv'
  BY OriginNext
<1>4. TypeOK /\ OriginInv /\ [Next]_vars =>
          [ /\ ControlAlive /\ inbox # <<>> /\ Head(inbox).type \in Feedbacks
            /\ state \notin {"Idle", "Error"}
            /\ state' # state
            => Head(inbox).session = SessionInPlay ]_vars
  <2> SUFFICES ASSUME TypeOK, OriginInv, Next, ControlAlive, inbox # <<>>,
                      Head(inbox).type \in Feedbacks, state' # state
               PROVE  Head(inbox).session = SessionInPlay
    BY DEF vars
  <2>1. ControlReceive
    BY DEF Next, EngineStart, UserSend, ShutdownBegin, ShutdownJoin, ControlThread, EffectThread,
           WorkerThread, Stopped, vars, ControlDisconnect
  <2>2. PICK r \in Results : ControlMove(Head(inbox), r)
    BY <2>1, ControlMoves
  <2>3. PICK m : m = Head(inbox)
    OBVIOUS
  <2>4. IsCurrent(m)
    BY <2>2, <2>3 DEF ControlMove, Accepts, LeavesPlayer, KeepPlayer, CompletesStage, FailsPlayer,
                      Commands, Feedbacks
  <2>5. m = inbox[1] /\ 1 \in 1 .. Len(inbox)
    BY <2>3, EntryTypes, TailEntries
  <2> QED
    BY <2>3, <2>4, <2>5 DEF OriginInv, MessagesAreOurs, IsCurrent
<1> QED
  BY <1>1, <1>2, <1>3, <1>4, TypeCorrect, OwnershipAlways, FreshAlways, TalkAlways, EffectAlways,
     OrderAlways, PTL DEF Spec, OldWorkIsHarmless

=============================================================================
