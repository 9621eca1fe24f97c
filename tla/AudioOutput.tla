----------------------------- MODULE AudioOutput -----------------------------
(***************************************************************************)
(* The audio output below AudioPipeline: DeferredAudioOutput, which opens  *)
(* the device when the first PCM comes, AndroidAudioOutput with its one    *)
(* pending block, and AAudioPcmStream over a stream of the platform that   *)
(* changes its state and plays on its own.  The worker calls it to start,  *)
(* pause, submit, flush (seek) and to ask whether it is drained; it blocks *)
(* in a call until the stream has paused or flushed.                       *)
(*                                                                         *)
(* PCM frames are numbered by their place in the track, and a block is a   *)
(* sequence of successive frames.                                          *)
(***************************************************************************)
EXTENDS Integers, SequencesExt, FiniteSetsExt

CONSTANTS
    FrameCount,     \* PCM frames of the track
    BlockSizes,     \* frames the decoder puts in a block
    StreamCapacity, \* frames the stream buffers
    MaxSeek         \* seeks

ASSUME FrameCountAssumption == FrameCount \in Nat
ASSUME BlockSizesAssumption == BlockSizes \subseteq Nat \ {0}
ASSUME StreamCapacityAssumption == StreamCapacity \in Nat \ {0}
ASSUME MaxSeekAssumption == MaxSeek \in Nat

VARIABLES
    call,       \* the call the worker is in, and what it will do after it
    running, completed, \* PlaybackWorker: running, completion_reported
    next,       \* the next frame the decoder delivers
    held,       \* AudioPipeline::pending_frame
    wanted,     \* DeferredAudioOutput::play_requested
    output,     \* AndroidAudioOutput
    stream,     \* the AAudio stream; "none" until it is opened
    seeks       \* how many there were

vars == <<call, running, completed, next, held, wanted, output, stream, seeks>>

Frames == 0 .. FrameCount - 1
Run(first, size) == [i \in 1 .. size |-> first + i - 1]

(* `at` is "loop" between two calls, "closed" once the pipeline is dropped. *)
Calls == [at : {"loop", "pausing", "flushing", "closed"},
          then : {"nothing", "pause", "complete", "seek"},
          target : 0 .. FrameCount, resume : BOOLEAN]
AtLoop == [at |-> "loop", then |-> "nothing", target |-> 0, resume |-> FALSE]

(* Stopped and Disconnected: the output never asks for the one and fails on the other. *)
StreamStates == {"Open", "Starting", "Started", "Pausing", "Paused", "Flushing", "Flushed"}

Outputs == [block : Seq(Frames), offset : Nat, running : BOOLEAN, requested : BOOLEAN]
Streams == [state : StreamStates \cup {"none", "invalid"}, buffer : Seq(Frames), consumed : Nat]

NewOutput(on) == [block |-> <<>>, offset |-> 0, running |-> on, requested |-> FALSE]
NoStream == [state |-> "none", buffer |-> <<>>, consumed |-> 0]

TypeOK ==
    /\ call \in Calls
    /\ running \in BOOLEAN /\ completed \in BOOLEAN
    /\ next \in 0 .. FrameCount
    /\ held \in Seq(Frames)
    /\ wanted \in BOOLEAN
    /\ output \in Outputs
    /\ output.block # <<>> => output.offset < Len(output.block)
    /\ stream \in Streams
    /\ Len(stream.buffer) <= StreamCapacity
    /\ seeks \in 0 .. MaxSeek

Init ==
    /\ call = AtLoop
    /\ running = FALSE /\ completed = FALSE
    /\ next = 0 /\ held = <<>>
    /\ wanted = FALSE
    /\ output = NewOutput(FALSE)
    /\ stream = NoStream
    /\ seeks = 0

-----------------------------------------------------------------------------
(* AndroidAudioOutput: operators on the pair s of output and stream *)

Now == [output |-> output, stream |-> stream]

(* ensure_output, with the first PCM. *)
Configured(s) ==
    IF s.stream.state = "none"
    THEN [output |-> NewOutput(wanted), stream |-> [NoStream EXCEPT !.state = "Open"]]
    ELSE s

Rest(o) == SubSeq(o.block, o.offset + 1, Len(o.block))

(* What one non-blocking write may take: something, if there is room. *)
Writable(s) ==
    LET most == Min({Len(Rest(s.output)), StreamCapacity - Len(s.stream.buffer)})
    IN  IF s.output.running /\ most > 0 THEN 1 .. most ELSE {0}

(* Mutant: a later write forgets what the earlier ones wrote. *)
AdvancedTo(o, n) == [o EXCEPT !.offset = n]

Advanced(o, n) ==
    IF o.offset + n = Len(o.block)
    THEN [o EXCEPT !.block = <<>>, !.offset = 0]
    ELSE [o EXCEPT !.offset = @ + n]

Written(s, n) ==
    [output |-> Advanced(s.output, n),
     stream |-> [s.stream EXCEPT !.buffer = @ \o SubSeq(Rest(s.output), 1, n)]]

(* AAudioPcmStream::request_start; InvalidState while it pauses or flushes. *)
Requested(s) ==
    [output |-> [s.output EXCEPT !.requested = TRUE],
     stream |-> [s.stream EXCEPT !.state =
                    IF @ \in {"Starting", "Started"} THEN @
                    ELSE IF @ \in {"Open", "Paused", "Flushed"} THEN "Starting"
                    ELSE "invalid"]]

(* Mutant: the start waits for a block that is still pending. *)
HadPending(before, after) == before.output.block # <<>>

(* There is, or just was, PCM for the stream to play. *)
HasData(before, after) == before.output.block # <<>> \/ after.stream.buffer # <<>>

(***************************************************************************)
(* pump: one write of the pending block, n frames of it, and the start of  *)
(* the stream if it was not asked for yet and there is data.               *)
(***************************************************************************)
Pump(s, n) ==
    LET w == Written(s, n)
    IN  IF ~s.output.running THEN s
        ELSE IF ~w.output.requested /\ HasData(s, w) THEN Requested(w)
        ELSE w

Becomes(s) == output' = s.output /\ stream' = s.stream

(* start, of a deferred output that may not be open yet. *)
StartOutput(s) ==
    /\ wanted' = TRUE
    /\ IF s.stream.state = "none"
       THEN Becomes(s)
       ELSE LET on == [s EXCEPT !.output.running = TRUE]
            IN  \E n \in Writable(on) : Becomes(Pump(on, n))

-----------------------------------------------------------------------------
(* The worker *)

Playing == call = AtLoop /\ running

(* Start of apply_command; ignored after completion. *)
Start ==
    /\ call = AtLoop /\ ~running /\ ~completed
    /\ running' = TRUE
    /\ StartOutput(Now)
    /\ UNCHANGED <<call, completed, next, held, seeks>>

(* AudioPipeline::step has PCM: the block it holds, or the decoder's next. *)
NewBlocks == {Run(next, size) : size \in {k \in BlockSizes : next + k <= FrameCount}}
Blocks == IF held # <<>> THEN {held} ELSE NewBlocks

(* submit: pump, then take the block and pump again, or give it back. *)
Submit(block) ==
    /\ Playing /\ block \in Blocks
    /\ next' = Last(block) + 1
    /\ LET s == Configured(Now)
       IN  \E n \in Writable(s) :
             LET pumped == Pump(s, n)
                 taken == [pumped EXCEPT !.output.block = block, !.output.offset = 0]
             IN  \/ /\ pumped.output.block # <<>>
                    /\ held' = block
                    /\ Becomes(pumped)
                 \/ /\ pumped.output.block = <<>>
                    /\ held' = <<>>
                    /\ \E m \in Writable(taken) : Becomes(Pump(taken, m))
    /\ UNCHANGED <<call, running, completed, wanted, seeks>>

(* The decoder is drained: AudioPipeline::is_finished asks the output. *)
Ended == Playing /\ next = FrameCount /\ held = <<>>

IsDrained(s) == s.output.block = <<>> /\ s.stream.buffer = <<>>

BeginPause(s, then, target, resume) ==
    /\ call' = [at |-> "pausing", then |-> then, target |-> target, resume |-> resume]
    /\ output' = [s.output EXCEPT !.running = FALSE]
    /\ stream' = [s.stream EXCEPT !.state = IF @ \in {"Starting", "Started"} THEN "Pausing" ELSE @]

(* is_drained in step_video, or answered with no. *)
Poll ==
    /\ Ended
    /\ \E n \in Writable(Now) : Becomes(Pump(Now, n))
    /\ UNCHANGED <<call, running, completed, next, held, wanted, seeks>>

(* poll_completion: it is drained, and the pipeline is paused. *)
Complete ==
    /\ Ended
    /\ \E n \in Writable(Now) :
          /\ IsDrained(Pump(Now, n))
          /\ BeginPause(Pump(Now, n), "complete", 0, FALSE)
    /\ UNCHANGED <<running, completed, next, held, wanted, seeks>>

Pause ==
    /\ call = AtLoop /\ (running \/ completed)
    /\ BeginPause(Now, "pause", 0, FALSE)
    /\ UNCHANGED <<running, completed, next, held, wanted, seeks>>

Seek(target, resume) ==
    /\ call = AtLoop /\ seeks < MaxSeek
    /\ seeks' = seeks + 1
    /\ BeginPause(Now, "seek", target, resume)
    /\ UNCHANGED <<running, completed, next, held, wanted>>

(* Mutant: nobody waits for the stream to come to rest. *)
HaltedAtOnce == TRUE

(* AAudioPcmStream::pause returns at once, or waits for Paused. *)
Halted == stream.state \in {"none", "Open", "Paused", "Flushed"}

PausedOutput(o) == [o EXCEPT !.requested = FALSE]

(* The end of pause, of the worker's Pause and of poll_completion. *)
EndPause ==
    /\ call.at = "pausing" /\ call.then \in {"pause", "complete"} /\ Halted
    /\ call' = AtLoop
    /\ running' = FALSE
    /\ completed' = (completed \/ call.then = "complete")
    /\ wanted' = FALSE
    /\ output' = PausedOutput(output)
    /\ UNCHANGED <<next, held, stream, seeks>>

(* AudioPipeline::reset pauses, drops its own PCM and flushes the output. *)
BeginFlush ==
    /\ call.at = "pausing" /\ call.then = "seek" /\ Halted
    /\ call' = [call EXCEPT !.at = "flushing"]
    /\ wanted' = FALSE
    /\ held' = <<>>
    /\ output' = PausedOutput(output)
    /\ stream' = [stream EXCEPT !.state = IF @ = "Paused" THEN "Flushing" ELSE @]
    /\ UNCHANGED <<running, completed, next, seeks>>

(* AAudioPcmStream::flush does nothing, or waits for Flushed. *)
EndFlush ==
    /\ call.at = "flushing" /\ stream.state \in {"none", "Open", "Flushed"}
    /\ call' = AtLoop
    /\ running' = call.resume /\ completed' = FALSE
    /\ next' = call.target
    /\ LET flushed == [Now EXCEPT !.output.block = <<>>, !.output.offset = 0]
       IN  IF call.resume THEN StartOutput(flushed) ELSE Becomes(flushed) /\ UNCHANGED wanted
    /\ UNCHANGED <<held, seeks>>

(***************************************************************************)
(* The platform fails or is too slow (wait_until), or a block is too long  *)
(* or of another format than the first (validate): the worker drops the    *)
(* pipeline, and the stream is closed.                                     *)
(***************************************************************************)
Fail ==
    /\ call.at # "closed"
    /\ call' = [AtLoop EXCEPT !.at = "closed"]
    /\ running' = FALSE /\ completed' = FALSE
    /\ held' = <<>> /\ wanted' = FALSE
    /\ output' = NewOutput(FALSE) /\ stream' = NoStream
    /\ UNCHANGED <<next, seeks>>

Closed == call.at = "closed" /\ UNCHANGED vars

-----------------------------------------------------------------------------
(* The stream *)

StreamBecomes(s) ==
    /\ stream' = s
    /\ UNCHANGED <<call, running, completed, next, held, wanted, output, seeks>>

StreamStarts == stream.state = "Starting" /\ StreamBecomes([stream EXCEPT !.state = "Started"])

(* It may play on until it has paused. *)
StreamPlays ==
    /\ stream.state \in {"Started", "Pausing"} /\ stream.buffer # <<>>
    /\ StreamBecomes([stream EXCEPT !.buffer = Tail(@), !.consumed = @ + 1])

StreamPauses == stream.state = "Pausing" /\ StreamBecomes([stream EXCEPT !.state = "Paused"])

(* The counter stays, goes on to what was written, or starts anew. *)
StreamFlushes ==
    /\ stream.state = "Flushing"
    /\ \E n \in {0, stream.consumed, stream.consumed + Len(stream.buffer)} :
          StreamBecomes([state |-> "Flushed", buffer |-> <<>>, consumed |-> n])

WorkerSteps == (\E block \in Blocks : Submit(block)) \/ Poll \/ EndPause \/ BeginFlush \/ EndFlush
StreamSteps == StreamStarts \/ StreamPauses \/ StreamFlushes

Next ==
    \/ Start
    \/ WorkerSteps
    \/ Complete
    \/ Pause
    \/ \E target \in 0 .. FrameCount, resume \in BOOLEAN : Seek(target, resume)
    \/ Fail
    \/ Closed
    \/ StreamSteps
    \/ StreamPlays

Spec == Init /\ [][Next]_vars

(***************************************************************************)
(* The worker goes on and asks again whether it is drained, the decoder    *)
(* delivers or ends, and the stream changes state and plays.               *)
(***************************************************************************)
Fairness ==
    /\ WF_vars(WorkerSteps) /\ WF_vars(Complete)
    /\ WF_vars(StreamSteps) /\ WF_vars(StreamPlays)

FairSpec == Spec /\ Fairness

-----------------------------------------------------------------------------
(***************************************************************************)
(* Between two calls the worker, the deferred output, the output and the   *)
(* stream agree on whether PCM plays, however starts, pauses and seeks     *)
(* fell before or after the first PCM: paused, the stream rests and will   *)
(* be asked to start again; running, PCM that it has or that waits for it  *)
(* is never left in a stream nobody has started.  And no pump asks a       *)
(* stream to start that is pausing or flushing (AAudioError::InvalidState):*)
(* every call waits until the stream rests.                                *)
(***************************************************************************)
HasPcm == output.block # <<>> \/ stream.buffer # <<>>

LayersAgree ==
    /\ wanted = running
    /\ stream.state # "none" => output.running = running
    /\ ~running => Halted /\ ~output.requested
    /\ running /\ HasPcm => stream.state \in {"Starting", "Started"}

NoInvalidState == stream.state # "invalid"

PlaysExactlyWhenWanted == TypeOK /\ NoInvalidState /\ (call = AtLoop => LayersAgree)

(***************************************************************************)
(* The stream's buffer, the rest of the pending block and the block the    *)
(* pipeline holds because the output gave it back (Backpressured) are      *)
(* together one FIFO device: of the PCM taken from the decoder nothing is  *)
(* lost, doubled, reordered or heard while paused, the counter counts what *)
(* is heard, and completion is reported when nothing is left.              *)
(***************************************************************************)
Flushing == call.at = "flushing"

Unheard == IF Flushing THEN <<>> ELSE (stream.buffer \o Rest(output)) \o held
Playable == running /\ ~Flushing
IsOver == completed /\ ~Flushing

Device == INSTANCE AudioDevice WITH
    queue <- Unheard, played <- stream.consumed, running <- Playable, completed <- IsOver

IsADevice == Device!Spec

(***************************************************************************)
(* Playback that is not interrupted is reported complete: no PCM stays     *)
(* behind in the pending block or in a stream that was not started, also   *)
(* when the last block comes before a pause and nothing is submitted after *)
(* it.                                                                     *)
(***************************************************************************)
Finishes ==
    \A k \in 0 .. MaxSeek :
        running /\ seeks = k ~> completed \/ ~running \/ seeks > k

==============================================================================
