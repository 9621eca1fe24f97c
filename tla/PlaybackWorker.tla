--------------------------- MODULE PlaybackWorker ---------------------------
(***************************************************************************)
(* The playback worker thread of a session (runtime/playback_worker.rs):   *)
(* it builds the pipeline, applies the commands the effect thread queued,  *)
(* reports progress and completion, and advances the pipeline.  Its handle *)
(* (WorkerHandle, CancellationToken in runtime/worker.rs) belongs to the   *)
(* effect thread.                                                          *)
(*                                                                         *)
(* The pipeline is abstracted to its epoch: each of its operations         *)
(* succeeds, or fails when "pipeline" is in Faults.  An iteration of the   *)
(* worker loop is cut where it sends a message, so that the messages of    *)
(* the other threads may fall in between; the cancellation tests between   *)
(* two such points see a flag that only ever rises and are made once.      *)
(***************************************************************************)
EXTENDS RuntimeMessages

CONSTANT MaxInFlight    \* bounds the messages on their way, see Room

ASSUME MaxInFlightAssumption == MaxInFlight \in Nat \ {0}

NoPipeline == -1
NoSession == -1

WorkerCommands ==
    [action : {"StartPlayback", "PausePlayback", "Seek"}, epoch : Epochs, resume : BOOLEAN]

Phases ==
    {"absent",      \* no thread, or its handle was joined
     "spawned",     \* started, cancellation not tested yet
     "building",    \* inside the pipeline factory
     "prepared",    \* built, duration reported
     "receive",     \* at the head of the loop
     "sought",      \* a seek succeeded and SeekCompleted was sent
     "rest",        \* a command was applied, the rest of the iteration follows
     "advance",     \* past the periodic progress report
     "exited", "panicked"}

Workers ==
    [phase : Phases, cancel : BOOLEAN, feedback : Epochs, pipeline : Epochs \cup {NoPipeline},
     running : BOOLEAN, drained : BOOLEAN, reported : BOOLEAN, queue : Seq(WorkerCommands)]

VARIABLE worker     \* the worker thread of each session

Absent ==
    [phase |-> "absent", cancel |-> FALSE, feedback |-> 0, pipeline |-> NoPipeline,
     running |-> FALSE, drained |-> FALSE, reported |-> FALSE, queue |-> <<>>]

Spawned(e) == [Absent EXCEPT !.phase = "spawned", !.feedback = e]

Live(s) == worker[s].phase \notin {"absent", "exited", "panicked"}

(***************************************************************************)
(* The channels are unbounded; what the user and the 500 ms progress timer *)
(* add to them waits for room, so that the model is finite.  What the      *)
(* runtime must send it sends whatever the room.                           *)
(***************************************************************************)
Room ==
    \A s \in Epochs : Len(inbox) + Len(results) + Len(worker[s].queue) < MaxInFlight

WorkerInit == worker = [s \in Epochs |-> Absent]

WorkerTypeOK == worker \in [Epochs -> Workers]

(* The receiver of the worker's commands exists while its thread runs. *)
HandOver(s, cmd) == worker' = [worker EXCEPT ![s].queue = Append(@, cmd)]

Become(s, w) == worker' = [worker EXCEPT ![s] = w]

(* close_pipeline, then the thread ends and drops its end of the queue. *)
Closed(w) ==
    [w EXCEPT !.pipeline = NoPipeline, !.running = FALSE, !.drained = FALSE, !.reported = FALSE]
Ended(w, how) == [Closed(w) EXCEPT !.phase = how, !.queue = <<>>]

Message(t, w, s) == [type |-> t, epoch |-> w.feedback, session |-> s]

(* Send t and go on as w, or end the thread if the control inbox is gone. *)
SendAndBecome(s, t, w) ==
    IF ControlAlive
      THEN inbox' = Append(inbox, Message(t, w, s)) /\ Become(s, w)
      ELSE inbox' = inbox /\ Become(s, Ended(w, "exited"))

(* Mutant: the failure is reported with the epoch of the broken pipeline. *)
ReportFailureOfPipeline(s, w) ==
    SendAndBecome(s, "Failed",
        [Closed(w) EXCEPT !.phase = "receive",
                          !.feedback = IF w.pipeline = NoPipeline THEN s ELSE w.pipeline])

(* report_failure: the thread stays, without a pipeline, until it is joined. *)
ReportFailure(s, w) == SendAndBecome(s, "Failed", [Closed(w) EXCEPT !.phase = "receive"])

Quit(s) == inbox' = inbox /\ Become(s, Ended(worker[s], "exited"))

Step(s, w) == inbox' = inbox /\ Become(s, w)

-----------------------------------------------------------------------------
(* Thread start: the closure of spawn_playback_worker and the head of run. *)

WorkerBegin(s) ==
    /\ worker[s].phase = "spawned"
    /\ IF worker[s].cancel
         THEN Quit(s)
         ELSE Step(s, [worker[s] EXCEPT !.phase = "building"])

(* A step of the factory fails: no demuxer, no track, no decoder, no branch. *)
BuildFails == "build" \in Faults

(* All steps succeed: the branches and the pipeline begin at the epoch of the Prepare. *)
Built(w) == [w EXCEPT !.phase = "prepared", !.pipeline = w.feedback]

(***************************************************************************)
(* The factory tests the token between its steps, and run tests it again   *)
(* before anything is reported, so whatever a cancelled build returns is   *)
(* dropped.                                                                *)
(***************************************************************************)
WorkerBuild(s) ==
    LET w == worker[s] IN
    /\ w.phase = "building"
    /\ \/ w.cancel /\ Quit(s)
       \/ ~w.cancel /\ BuildFails /\ ReportFailure(s, w)
       \/ ~w.cancel /\ SendAndBecome(s, "DurationChanged", Built(w))

WorkerPrepared(s) ==
    /\ worker[s].phase = "prepared"
    /\ SendAndBecome(s, "PreparationCompleted", [worker[s] EXCEPT !.phase = "receive"])

-----------------------------------------------------------------------------
(* apply_command, and the receive at the head of the loop *)

(* Start after the completion was reported is ignored. *)
IgnoresStart(w) == w.reported

Sought(w, cmd) ==
    [w EXCEPT !.pipeline = cmd.epoch, !.running = cmd.resume, !.drained = FALSE,
              !.reported = FALSE]

(* EpochMismatch for Start and Pause, InvalidSeekEpoch for Seek. *)
EpochAgrees(w, cmd) ==
    IF cmd.action = "Seek" THEN cmd.epoch > w.pipeline ELSE cmd.epoch = w.pipeline

ApplyOk(s, w, cmd) ==
    CASE cmd.action = "StartPlayback" ->
            Step(s, [w EXCEPT !.phase = "rest", !.running = @ \/ ~IgnoresStart(w)])
      [] cmd.action = "PausePlayback" ->
            Step(s, [w EXCEPT !.phase = "rest", !.running = FALSE])
      [] cmd.action = "Seek" ->
            SendAndBecome(s, "SeekCompleted", [Sought(w, cmd) EXCEPT !.phase = "sought"])

WorkerApply(s) ==
    /\ worker[s].phase = "receive"
    /\ ~worker[s].cancel
    /\ worker[s].queue # <<>>
    /\ LET cmd == Head(worker[s].queue)
           w == [worker[s] EXCEPT !.feedback = cmd.epoch, !.queue = Tail(@)]
           fails == w.pipeline = NoPipeline \/ ~EpochAgrees(w, cmd)
       IN  \/ /\ fails \/ ("pipeline" \in Faults /\ ~(cmd.action = "StartPlayback" /\ IgnoresStart(w)))
              /\ ReportFailure(s, w)
           \/ /\ ~fails
              /\ ApplyOk(s, w, cmd)

WorkerCancelled(s) ==
    /\ worker[s].phase = "receive"
    /\ worker[s].cancel
    /\ Quit(s)

(* The second message of a successful seek. *)
WorkerSought(s) ==
    /\ worker[s].phase = "sought"
    /\ SendAndBecome(s, "AudioProgress", [worker[s] EXCEPT !.phase = "rest"])

-----------------------------------------------------------------------------
(***************************************************************************)
(* The rest of an iteration: after a command, or after recv_timeout and    *)
(* try_recv found the queue empty.  The progress report is optional (it is *)
(* due every 500 ms), so each later part may follow directly.              *)
(***************************************************************************)
AtRest(w) ==
    \/ w.phase = "rest"
    \/ w.phase = "receive" /\ w.queue = <<>> /\ ~w.cancel

AtAdvance(w) == AtRest(w) \/ w.phase = "advance"

WorkerReport(s) ==
    LET w == worker[s] IN
    /\ AtRest(w)
    /\ w.pipeline # NoPipeline
    /\ \/ Room /\ SendAndBecome(s, "AudioProgress", [w EXCEPT !.phase = "advance"])
       \/ "pipeline" \in Faults /\ ReportFailure(s, w)

(* poll_completion looks at the output only in this case. *)
AwaitsCompletion(w) == w.running /\ w.drained /\ ~w.reported

WorkerComplete(s) ==
    LET w == worker[s] IN
    /\ AtAdvance(w)
    /\ AwaitsCompletion(w)
    /\ \/ SendAndBecome(s, "PlaybackCompleted",
              [w EXCEPT !.phase = "receive", !.running = FALSE, !.reported = TRUE])
       \/ "pipeline" \in Faults /\ ReportFailure(s, w)

(* The output still plays, or the worker has nothing to advance. *)
WorkerIdle(s) ==
    LET w == worker[s] IN
    /\ w.phase \in {"rest", "advance"}
    /\ ~w.running \/ w.drained
    /\ Step(s, [w EXCEPT !.phase = "receive"])

(* One pipeline step; the one that returns DecoderDrained is the last. *)
WorkerAdvance(s) ==
    LET w == worker[s] IN
    /\ AtAdvance(w)
    /\ w.running
    /\ ~w.drained
    /\ \/ w.cancel /\ Quit(s)
       \/ \E d \in BOOLEAN :
            ~w.cancel /\ Step(s, [w EXCEPT !.phase = "receive", !.drained = d])
       \/ ~w.cancel /\ "pipeline" \in Faults /\ ReportFailure(s, w)

(* A panic in the factory or in the pipeline ends the thread without a word. *)
WorkerPanic(s) ==
    LET w == worker[s] IN
    /\ "panic" \in Faults
    /\ \/ w.phase = "building"
       \/ w.pipeline # NoPipeline /\ w.phase \in {"receive", "rest", "advance"}
    /\ Step(s, Ended(w, "panicked"))

WorkerNext(s) ==
    /\ \/ WorkerBegin(s)
       \/ WorkerBuild(s)
       \/ WorkerPrepared(s)
       \/ WorkerApply(s)
       \/ WorkerCancelled(s)
       \/ WorkerSought(s)
       \/ WorkerReport(s)
       \/ WorkerComplete(s)
       \/ WorkerIdle(s)
       \/ WorkerAdvance(s)
       \/ WorkerPanic(s)
    /\ UNCHANGED <<results, control, effect>>

==============================================================================
