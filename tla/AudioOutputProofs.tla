------------------------- MODULE AudioOutputProofs -------------------------
(***************************************************************************)
(* For every track, every size of blocks, every stream buffer and every    *)
(* number of seeks: all layers of the output agree between two calls       *)
(* whether PCM plays, no stream is asked to start while it pauses or       *)
(* flushes, and the layers together are the FIFO device of AudioDevice.    *)
(***************************************************************************)
EXTENDS AudioOutput, SequenceTheorems, TLAPS

USE FrameCountAssumption, BlockSizesAssumption, StreamCapacityAssumption, MaxSeekAssumption

-----------------------------------------------------------------------------
(* One write *)

LEMMA MinOfTwo ==
    ASSUME NEW a \in Int, NEW b \in Int
    PROVE  Min({a, b}) \in Int /\ Min({a, b}) <= a /\ Min({a, b}) <= b
<1>1. \E x \in {a, b} : \A y \in {a, b} : x <= y
  OBVIOUS
<1> QED
  BY <1>1 DEF Min

(* Output and stream have their types, and the buffer its limit. *)
Fits(s) ==
    /\ s \in [output : Outputs, stream : Streams]
    /\ s.output.block # <<>> => s.output.offset < Len(s.output.block)
    /\ Len(s.stream.buffer) <= StreamCapacity

(* The rest of the pending block, as long as it is. *)
LEMMA RestType ==
    ASSUME NEW o \in Outputs, o.block # <<>> => o.offset < Len(o.block)
    PROVE  /\ Rest(o) \in Seq(Frames)
           /\ o.block = <<>> => Len(Rest(o)) = 0
           /\ o.block # <<>> => Len(Rest(o)) = Len(o.block) - o.offset
<1>1. o.block \in Seq(Frames) /\ o.offset \in Nat
  BY DEF Outputs
<1> QED
  BY <1>1 DEF Rest

(* A write takes no more than there is, nor more than there is room for. *)
LEMMA WritableFits ==
    ASSUME NEW s, Fits(s), NEW n \in Writable(s)
    PROVE  /\ n \in Nat
           /\ n <= Len(Rest(s.output))
           /\ Len(s.stream.buffer) + n <= StreamCapacity
<1>1. s.output \in Outputs /\ s.stream.buffer \in Seq(Frames)
  BY DEF Fits, Streams
<1>2. Rest(s.output) \in Seq(Frames) /\ Len(Rest(s.output)) \in Nat
  BY <1>1, RestType DEF Fits
<1>3. Len(s.stream.buffer) \in Nat /\ Len(s.stream.buffer) <= StreamCapacity
  BY <1>1 DEF Fits
<1>4. PICK a, b : a = Len(Rest(s.output)) /\ b = StreamCapacity - Len(s.stream.buffer)
  OBVIOUS
<1>5. Min({a, b}) \in Int /\ Min({a, b}) <= a /\ Min({a, b}) <= b
  <2>1. a \in Int /\ b \in Int
    BY <1>2, <1>3, <1>4
  <2> QED
    BY <2>1, MinOfTwo
<1>6. n = 0 \/ n \in 1 .. Min({a, b})
  BY <1>4 DEF Writable
<1> QED
  BY <1>2, <1>3, <1>4, <1>5, <1>6

(* What a write leaves of the block, and puts into the stream. *)
LEMMA WrittenFits ==
    ASSUME NEW s, Fits(s), NEW n \in Writable(s)
    PROVE  /\ Fits(Written(s, n))
           /\ Written(s, n).output.running = s.output.running
           /\ Written(s, n).output.requested = s.output.requested
           /\ Written(s, n).stream.state = s.stream.state
           /\ s.output.block = <<>> => Written(s, n).output.block = <<>>
<1>1. n \in Nat /\ n <= Len(Rest(s.output)) /\ Len(s.stream.buffer) + n <= StreamCapacity
  BY WritableFits
<1>2. s.output \in Outputs /\ s.stream \in Streams /\ s.stream.buffer \in Seq(Frames)
  BY DEF Fits, Streams
<1>3. s.output.block \in Seq(Frames) /\ s.output.offset \in Nat
  BY <1>2 DEF Outputs
<1>4. /\ Rest(s.output) \in Seq(Frames)
      /\ s.output.block = <<>> => Len(Rest(s.output)) = 0
      /\ s.output.block # <<>> => Len(Rest(s.output)) = Len(s.output.block) - s.output.offset
  BY <1>2, RestType DEF Fits
<1>5. /\ Advanced(s.output, n) \in Outputs
      /\ Advanced(s.output, n).block # <<>> =>
            Advanced(s.output, n).offset < Len(Advanced(s.output, n).block)
      /\ Advanced(s.output, n).running = s.output.running
      /\ Advanced(s.output, n).requested = s.output.requested
      /\ s.output.block = <<>> => Advanced(s.output, n).block = <<>>
  <2>1. s.output.block # <<>> => s.output.offset + n <= Len(s.output.block)
    BY <1>1, <1>3, <1>4
  <2>2. CASE s.output.offset + n = Len(s.output.block)
    <3>1. Advanced(s.output, n) = [s.output EXCEPT !.block = <<>>, !.offset = 0]
      BY <2>2 DEF Advanced
    <3>2. <<>> \in Seq(Frames) /\ 0 \in Nat
      OBVIOUS
    <3>3. Advanced(s.output, n) \in Outputs
      BY <1>2, <3>1, <3>2 DEF Outputs
    <3>4. /\ Advanced(s.output, n).running = s.output.running
          /\ Advanced(s.output, n).requested = s.output.requested
          /\ Advanced(s.output, n).block = <<>>
      BY <1>2, <3>1 DEF Outputs
    <3> QED
      BY <3>3, <3>4
  <2>3. CASE s.output.offset + n # Len(s.output.block)
    <3>1. Advanced(s.output, n) = [s.output EXCEPT !.offset = s.output.offset + n]
      BY <2>3 DEF Advanced
    <3>2. s.output.offset + n \in Nat /\ Len(s.output.block) \in Nat
      BY <1>1, <1>3
    <3>3. s.output.block # <<>> => s.output.offset + n < Len(s.output.block)
      BY <2>1, <2>3, <3>2
    <3> QED
      BY <1>2, <3>1, <3>2, <3>3 DEF Outputs
  <2> QED
    BY <2>2, <2>3
<1>6. PICK q : q = SubSeq(Rest(s.output), 1, n)
  OBVIOUS
<1>7. q \in Seq(Frames) /\ Len(q) = n
  BY <1>1, <1>4, <1>6
<1>8. /\ s.stream.buffer \o q \in Seq(Frames)
      /\ Len(s.stream.buffer \o q) = Len(s.stream.buffer) + n
  BY <1>2, <1>7
<1>9. Written(s, n) = [output |-> Advanced(s.output, n),
                       stream |-> [s.stream EXCEPT !.buffer = s.stream.buffer \o q]]
  BY <1>6 DEF Written
<1>10. [s.stream EXCEPT !.buffer = s.stream.buffer \o q] \in Streams
  BY <1>2, <1>8 DEF Streams
<1> QED
  BY <1>1, <1>2, <1>5, <1>8, <1>9, <1>10 DEF Fits, Streams

-----------------------------------------------------------------------------
(* pump *)

(* States in which a stream can be asked to start, and in which it was. *)
Startable == {"Open", "Paused", "Flushed", "Starting", "Started"}
Asked(s) == s.output.requested => s.stream.state \in {"Starting", "Started"}
Pcm(s) == s.output.block # <<>> \/ s.stream.buffer # <<>>

(***************************************************************************)
(* After a pump of an output that runs, PCM is in a stream that was asked  *)
(* to start; the stream was in a state in which that is possible.          *)
(***************************************************************************)
LEMMA PumpWakes ==
    ASSUME NEW s, Fits(s), NEW n \in Writable(s),
           s.output.running, Asked(s), s.stream.state \in Startable
    PROVE  /\ Fits(Pump(s, n))
           /\ Pump(s, n).output.running
           /\ Asked(Pump(s, n))
           /\ Pump(s, n).stream.state \in Startable
           /\ Pcm(Pump(s, n)) => Pump(s, n).output.requested
<1>1. PICK w : w = Written(s, n)
  OBVIOUS
<1>2. /\ Fits(w)
      /\ w.output.running = s.output.running
      /\ w.output.requested = s.output.requested
      /\ w.stream.state = s.stream.state
      /\ s.output.block = <<>> => w.output.block = <<>>
  BY <1>1, WrittenFits
<1>3. w.output \in Outputs /\ w.stream \in Streams
  BY <1>2 DEF Fits
<1>4. Pump(s, n) = IF ~w.output.requested /\ HasData(s, w) THEN Requested(w) ELSE w
  BY <1>1 DEF Pump
<1>5. CASE ~w.output.requested /\ HasData(s, w)
  <2>1. PICK o : o = [w.output EXCEPT !.requested = TRUE]
    OBVIOUS
  <2>2. o \in Outputs /\ o.block = w.output.block /\ o.offset = w.output.offset
        /\ o.running = w.output.running /\ o.requested = TRUE
    BY <1>3, <2>1 DEF Outputs
  <2>3. PICK st : st = Requested(w).stream
    OBVIOUS
  <2>4. st \in Streams /\ st.buffer = w.stream.buffer /\ st.state \in {"Starting", "Started"}
    BY <1>2, <1>3, <2>3 DEF Requested, Streams, StreamStates, Startable
  <2>5. Requested(w) = [output |-> o, stream |-> st]
    BY <2>1, <2>3 DEF Requested
  <2>6. Pump(s, n) = [output |-> o, stream |-> st]
    BY <1>4, <1>5, <2>5
  <2>7. Pump(s, n).output = o /\ Pump(s, n).stream = st
    BY <2>6
  <2>8. Fits(Pump(s, n))
    BY <1>2, <2>2, <2>4, <2>6 DEF Fits
  <2>9. Pump(s, n).output.running
    BY <1>2, <2>2, <2>7
  <2> QED
    BY <2>2, <2>4, <2>7, <2>8, <2>9 DEF Asked, Startable
<1>6. CASE ~(~w.output.requested /\ HasData(s, w))
  <2>1. Pump(s, n) = w
    BY <1>4, <1>6
  <2>2. Pcm(w) => w.output.requested
    BY <1>2, <1>6 DEF HasData, Pcm
  <2> QED
    BY <1>2, <2>1, <2>2 DEF Asked
<1> QED
  BY <1>5, <1>6

-----------------------------------------------------------------------------
(* The invariant *)

(***************************************************************************)
(* What LayersAgree needs to be inductive: the stream rests or plays       *)
(* between two calls, PCM is never in a running output that has not asked  *)
(* for the start, and a worker that waits has switched the output off.     *)
(***************************************************************************)
AtLoopInv ==
    /\ LayersAgree
    /\ stream.state \in Startable \cup {"none"}
    /\ Asked(Now)
    /\ running /\ Pcm(Now) => output.requested

WaitingInv ==
    /\ output.running = FALSE
    /\ stream.state \notin {"Starting", "Started"}

FlushingInv ==
    /\ output.requested = FALSE /\ wanted = FALSE
    /\ stream.state \notin {"Pausing", "Paused"}

OutputInv ==
    /\ TypeOK
    /\ NoInvalidState
    /\ stream.state = "none" => ~Pcm(Now) /\ output.running = FALSE
    /\ call.at = "loop" => AtLoopInv
    /\ call.at \in {"pausing", "flushing"} => WaitingInv
    /\ call.at = "flushing" => FlushingInv

LEMMA NowFits == ASSUME TypeOK PROVE Fits(Now)
  BY DEF TypeOK, Fits, Now

(***************************************************************************)
(* StartOutput of a pair at rest: what is there plays from now on.         *)
(***************************************************************************)
LEMMA StartWakes ==
    ASSUME NEW s, Fits(s), Asked(s), s.stream.state \in Startable \cup {"none"},
           s.stream.state = "none" => ~Pcm(s) /\ s.output.running = FALSE,
           StartOutput(s)
    PROVE  /\ wanted' = TRUE
           /\ Fits(Now)'
           /\ stream'.state \in Startable \cup {"none"}
           /\ stream'.state # "none" => output'.running = TRUE
           /\ Asked(Now)'
           /\ stream'.state = "none" => ~Pcm(Now)' /\ output'.running = FALSE
           /\ Pcm(Now)' => output'.requested
<1>1. s.output \in Outputs /\ s.stream \in Streams /\ s = [output |-> s.output, stream |-> s.stream]
  BY DEF Fits
<1>2. CASE s.stream.state = "none"
  <2>1. output' = s.output /\ stream' = s.stream /\ wanted' = TRUE
    BY <1>2 DEF StartOutput, Becomes
  <2>2. Now' = s
    BY <1>1, <2>1 DEF Now
  <2> QED
    BY <1>2, <2>1, <2>2
<1>3. CASE s.stream.state # "none"
  <2>1. PICK on : on = [s EXCEPT !.output.running = TRUE]
    OBVIOUS
  <2>2. PICK n \in Writable(on) : Becomes(Pump(on, n))
    BY <1>3, <2>1 DEF StartOutput
  <2>3. PICK o : o = [s.output EXCEPT !.running = TRUE]
    OBVIOUS
  <2>4. o \in Outputs /\ o.block = s.output.block /\ o.offset = s.output.offset
    BY <1>1, <2>3 DEF Outputs
  <2>5. o.running = TRUE
    BY <1>1, <2>3 DEF Outputs
  <2>6. o.requested = s.output.requested
    BY <1>1, <2>3 DEF Outputs
  <2>7. on = [output |-> o, stream |-> s.stream]
    BY <1>1, <2>1, <2>3
  <2>8. on.output = o /\ on.stream = s.stream
    BY <2>7
  <2>9. Fits(on)
    BY <1>1, <2>4, <2>7, <2>8 DEF Fits
  <2>10. on.output.running /\ Asked(on) /\ on.stream.state \in Startable
    BY <1>3, <2>5, <2>6, <2>8 DEF Asked
  <2>11. /\ Fits(Pump(on, n))
         /\ Pump(on, n).output.running
         /\ Asked(Pump(on, n))
         /\ Pump(on, n).stream.state \in Startable
         /\ Pcm(Pump(on, n)) => Pump(on, n).output.requested
    BY <2>9, <2>10, PumpWakes
  <2>12. output' = Pump(on, n).output /\ stream' = Pump(on, n).stream
    BY <2>2 DEF Becomes
  <2>13. Now' = Pump(on, n)
    BY <2>11, <2>12 DEF Now, Fits
  <2>14. output' \in Outputs
    BY <2>11, <2>12 DEF Fits
  <2>15. output'.running = TRUE
    BY <2>11, <2>12, <2>14 DEF Outputs
  <2>16. wanted' = TRUE
    BY DEF StartOutput
  <2> QED
    BY <2>11, <2>12, <2>13, <2>15, <2>16 DEF Startable
<1> QED
  BY <1>2, <1>3

-----------------------------------------------------------------------------
(* The steps *)

LEMMA InitAgrees == Init => OutputInv
<1> SUFFICES ASSUME Init PROVE OutputInv
  OBVIOUS
<1>1. <<>> \in Seq(Frames) /\ 0 \in 0 .. FrameCount /\ 0 \in 0 .. MaxSeek
  OBVIOUS
<1>2. output \in Outputs /\ stream \in Streams /\ call \in Calls
  BY <1>1 DEF Init, NewOutput, NoStream, Outputs, Streams, StreamStates, AtLoop, Calls
<1>3. TypeOK
  <2>1. output.block = <<>> /\ stream.buffer = <<>> /\ Len(stream.buffer) <= StreamCapacity
    BY DEF Init, NewOutput, NoStream
  <2>2. running \in BOOLEAN /\ completed \in BOOLEAN /\ wanted \in BOOLEAN
    BY DEF Init
  <2>3. held \in Seq(Frames) /\ next \in 0 .. FrameCount /\ seeks \in 0 .. MaxSeek
    BY <1>1 DEF Init
  <2> QED
    BY <1>2, <2>1, <2>2, <2>3 DEF TypeOK
<1> QED
  BY <1>3 DEF Init, OutputInv, NoInvalidState, AtLoopInv, LayersAgree, Halted, HasPcm, Asked, Pcm, Now,
              Startable, NewOutput, NoStream, AtLoop

(* What a call that ends in the loop has to establish. *)
LEMMA BackInLoop ==
    ASSUME call'.at = "loop", TypeOK',
           wanted' = running',
           stream'.state \in Startable \cup {"none"},
           stream'.state # "none" => output'.running = running',
           ~running' => Halted' /\ ~output'.requested,
           Asked(Now)',
           running' /\ Pcm(Now)' => output'.requested,
           stream'.state = "none" => ~Pcm(Now)' /\ output'.running = FALSE
    PROVE  OutputInv'
<1>1. (running' /\ HasPcm') => stream'.state \in {"Starting", "Started"}
  BY DEF HasPcm, Pcm, Now, Asked
<1>2. LayersAgree'
  BY <1>1 DEF LayersAgree
<1> QED
  BY <1>2 DEF OutputInv, AtLoopInv, NoInvalidState, Startable

(* Between two calls a stream that is open can be asked to start. *)
LEMMA LoopFacts ==
    ASSUME OutputInv, call = AtLoop
    PROVE  /\ Fits(Now) /\ Asked(Now)
           /\ stream.state \in Startable \cup {"none"}
           /\ stream.state = "none" => ~Pcm(Now) /\ output.running = FALSE
           /\ wanted = running
           /\ stream.state # "none" => output.running = running
           /\ ~running => Halted /\ ~output.requested
           /\ running /\ Pcm(Now) => output.requested
  BY NowFits DEF OutputInv, AtLoop, AtLoopInv, LayersAgree

LEMMA StartKeeps == OutputInv /\ Start => OutputInv'
<1> SUFFICES ASSUME OutputInv, Start PROVE OutputInv'
  OBVIOUS
<1>1. call = AtLoop /\ StartOutput(Now) /\ running' = TRUE
  BY DEF Start
<1>2. Now.stream = stream /\ Now.output = output
  BY DEF Now
<1>3. /\ wanted' = TRUE
      /\ Fits(Now)'
      /\ stream'.state \in Startable \cup {"none"}
      /\ stream'.state # "none" => output'.running = TRUE
      /\ Asked(Now)'
      /\ stream'.state = "none" => ~Pcm(Now)' /\ output'.running = FALSE
      /\ Pcm(Now)' => output'.requested
  BY <1>1, <1>2, LoopFacts, StartWakes
<1>4. call'.at = "loop"
  BY <1>1 DEF Start, AtLoop
<1>5. TypeOK'
  BY <1>3 DEF OutputInv, TypeOK, Start, Fits, Now
<1> QED
  BY <1>1, <1>3, <1>4, <1>5, BackInLoop

(* The worker has PCM: it is a block, and next goes on behind it. *)
LEMMA BlockType ==
    ASSUME TypeOK, NEW block \in Blocks
    PROVE  block \in Seq(Frames) /\ block # <<>> /\ Last(block) + 1 \in 0 .. FrameCount
<1>1. block \in Seq(Frames) /\ block # <<>>
  <2>1. CASE held # <<>>
    BY <2>1 DEF Blocks, TypeOK
  <2>2. CASE held = <<>>
    <3>1. PICK size \in BlockSizes : next + size <= FrameCount /\ block = Run(next, size)
      BY <2>2 DEF Blocks, NewBlocks
    <3>2. size \in Nat \ {0} /\ next \in Nat
      BY <3>1 DEF TypeOK
    <3>3. \A i \in 1 .. size : next + i - 1 \in Frames
      BY <3>1, <3>2 DEF Frames
    <3> QED
      BY <3>1, <3>2, <3>3 DEF Run
  <2> QED
    BY <2>1, <2>2
<1>2. Last(block) \in Frames
  BY <1>1 DEF Last
<1> QED
  BY <1>1, <1>2 DEF Frames

(* The output that is there, or is opened for the first PCM, runs. *)
LEMMA ConfiguredRuns ==
    ASSUME OutputInv, call = AtLoop, running = TRUE, NEW s, s = Configured(Now)
    PROVE  Fits(s) /\ s.output.running /\ Asked(s) /\ s.stream.state \in Startable
<1>1. CASE stream.state = "none"
  <2>1. wanted = TRUE
    BY LoopFacts
  <2>2. PICK o : o = NewOutput(TRUE)
    OBVIOUS
  <2>3. PICK st : st = [NoStream EXCEPT !.state = "Open"]
    OBVIOUS
  <2>4. s = [output |-> o, stream |-> st]
    BY <1>1, <2>1, <2>2, <2>3 DEF Configured, Now
  <2>5. <<>> \in Seq(Frames)
    OBVIOUS
  <2>6. /\ o \in Outputs /\ o.block = <<>> /\ o.running = TRUE /\ o.requested = FALSE
        /\ st \in Streams /\ st.buffer = <<>> /\ st.state = "Open"
    BY <2>2, <2>3, <2>5 DEF NewOutput, NoStream, Outputs, Streams, StreamStates
  <2> QED
    BY <2>4, <2>6 DEF Fits, Asked, Startable
<1>2. CASE stream.state # "none"
  <2>1. s = Now
    BY <1>2 DEF Configured, Now
  <2>2. Now.output = output /\ Now.stream = stream
    BY DEF Now
  <2> QED
    BY <1>2, <2>1, <2>2, LoopFacts
<1> QED
  BY <1>1, <1>2

(* An output that takes a block goes on as it was. *)
LEMMA TakenRuns ==
    ASSUME NEW p, Fits(p), p.output.running, Asked(p), p.stream.state \in Startable,
           NEW block \in Seq(Frames), block # <<>>,
           NEW taken,
           taken = [output |-> [p.output EXCEPT !.block = block, !.offset = 0], stream |-> p.stream]
    PROVE  /\ Fits(taken) /\ taken.output.running /\ Asked(taken) /\ taken.stream.state \in Startable
<1>1. p.output \in Outputs /\ p.stream \in Streams
  BY DEF Fits
<1>2. PICK o : o = [p.output EXCEPT !.block = block, !.offset = 0]
  OBVIOUS
<1>3. taken = [output |-> o, stream |-> p.stream]
  BY <1>2
<1>4. o \in Outputs /\ o.block = block /\ o.offset = 0
  BY <1>1, <1>2 DEF Outputs
<1>5. o.running = p.output.running
  BY <1>1, <1>2 DEF Outputs
<1>6. o.requested = p.output.requested
  BY <1>1, <1>2 DEF Outputs
<1>7. taken.output = o /\ taken.stream = p.stream
  BY <1>3
<1>8. Fits(taken)
  BY <1>1, <1>3, <1>4, <1>7 DEF Fits
<1> QED
  BY <1>5, <1>6, <1>7, <1>8 DEF Asked

LEMMA SubmitKeeps == ASSUME OutputInv, NEW block \in Blocks, Submit(block) PROVE OutputInv'
<1>1. call = AtLoop /\ running = TRUE
  BY DEF Submit, Playing, OutputInv, TypeOK
<1>2. block \in Seq(Frames) /\ block # <<>> /\ Last(block) + 1 \in 0 .. FrameCount
  BY BlockType DEF OutputInv
<1>3. PICK s : s = Configured(Now)
  OBVIOUS
<1>4. Fits(s) /\ s.output.running /\ Asked(s) /\ s.stream.state \in Startable
  BY <1>1, <1>3, ConfiguredRuns
<1>5. PICK n \in Writable(s) :
        LET pumped == Pump(s, n)
            taken == [pumped EXCEPT !.output.block = block, !.output.offset = 0]
        IN  \/ /\ pumped.output.block # <<>>
               /\ held' = block
               /\ Becomes(pumped)
            \/ /\ pumped.output.block = <<>>
               /\ held' = <<>>
               /\ \E m \in Writable(taken) : Becomes(Pump(taken, m))
  BY <1>3 DEF Submit
<1>6. PICK p : p = Pump(s, n)
  OBVIOUS
<1>7. /\ Fits(p) /\ p.output.running /\ Asked(p) /\ p.stream.state \in Startable
      /\ Pcm(p) => p.output.requested
  BY <1>4, <1>6, PumpWakes
<1>8. PICK taken : taken = [p EXCEPT !.output.block = block, !.output.offset = 0]
  OBVIOUS
<1>9. Fits(taken) /\ taken.output.running /\ Asked(taken) /\ taken.stream.state \in Startable
  <2>1. p = [output |-> p.output, stream |-> p.stream]
    BY <1>7 DEF Fits
  <2>2. taken = [output |-> [p.output EXCEPT !.block = block, !.offset = 0], stream |-> p.stream]
    BY <1>8, <2>1
  <2> QED
    BY <1>2, <1>7, <2>2, TakenRuns
<1>10. PICK q : /\ Becomes(q) /\ held' \in {block, <<>>}
                /\ Fits(q) /\ q.output.running /\ Asked(q) /\ q.stream.state \in Startable
                /\ Pcm(q) => q.output.requested
  <2>1. CASE p.output.block # <<>>
    BY <1>5, <1>6, <1>7, <2>1
  <2>2. CASE p.output.block = <<>>
    <3>1. held' = <<>> /\ \E m \in Writable(taken) : Becomes(Pump(taken, m))
      BY <1>5, <1>6, <1>8, <2>2
    <3>2. PICK m \in Writable(taken) : Becomes(Pump(taken, m))
      BY <3>1
    <3> QED
      BY <1>9, <3>1, <3>2, PumpWakes
  <2> QED
    BY <2>1, <2>2
<1>11. output' = q.output /\ stream' = q.stream /\ Now' = q
  BY <1>10 DEF Becomes, Now, Fits
<1>12. output'.running = TRUE
  <2>1. output' \in Outputs
    BY <1>10, <1>11 DEF Fits
  <2> QED
    BY <1>10, <1>11, <2>1 DEF Outputs
<1>13. call' = call /\ running' = TRUE /\ wanted' = TRUE
  <2>1. wanted = TRUE
    BY <1>1, LoopFacts
  <2> QED
    BY <1>1, <2>1 DEF Submit
<1>14. TypeOK'
  <2>1. held' \in Seq(Frames)
    <3>1. <<>> \in Seq(Frames)
      OBVIOUS
    <3> QED
      BY <1>2, <1>10, <3>1
  <2>2. next' \in 0 .. FrameCount
    BY <1>2 DEF Submit
  <2> QED
    BY <1>10, <1>11, <1>13, <2>1, <2>2 DEF OutputInv, TypeOK, Fits, Submit
<1> QED
  BY <1>1, <1>10, <1>11, <1>12, <1>13, <1>14, BackInLoop DEF Startable, AtLoop

(* A pump between two calls, while the worker runs. *)
LEMMA PumpNow ==
    ASSUME OutputInv, call = AtLoop, running, NEW n \in Writable(Now)
    PROVE  /\ Fits(Pump(Now, n)) /\ Asked(Pump(Now, n))
           /\ Pump(Now, n).stream.state \in Startable \cup {"none"}
           /\ Pump(Now, n).stream.state # "none" => Pump(Now, n).output.running
           /\ Pump(Now, n).stream.state = "none" =>
                 ~Pcm(Pump(Now, n)) /\ Pump(Now, n).output.running = FALSE
           /\ Pcm(Pump(Now, n)) => Pump(Now, n).output.requested
<1>1. Now.output = output /\ Now.stream = stream
  BY DEF Now
<1>2. CASE stream.state = "none"
  <2>1. output.running = FALSE
    BY <1>2, LoopFacts
  <2>2. Pump(Now, n) = Now
    BY <1>1, <2>1 DEF Pump
  <2> QED
    BY <1>1, <1>2, <2>1, <2>2, LoopFacts
<1>3. CASE stream.state # "none"
  <2>1. Now.output.running /\ Now.stream.state \in Startable /\ Fits(Now) /\ Asked(Now)
    BY <1>1, <1>3, LoopFacts
  <2> QED
    BY <2>1, PumpWakes DEF Startable
<1> QED
  BY <1>2, <1>3

LEMMA PollKeeps == OutputInv /\ Poll => OutputInv'
<1> SUFFICES ASSUME OutputInv, Poll PROVE OutputInv'
  OBVIOUS
<1>1. call = AtLoop /\ running = TRUE
  BY DEF Poll, Ended, Playing, OutputInv, TypeOK
<1>2. PICK n \in Writable(Now) : Becomes(Pump(Now, n))
  BY DEF Poll
<1>3. PICK q : q = Pump(Now, n)
  OBVIOUS
<1>4. /\ Fits(q) /\ Asked(q) /\ q.stream.state \in Startable \cup {"none"}
      /\ q.stream.state # "none" => q.output.running
      /\ q.stream.state = "none" => ~Pcm(q) /\ q.output.running = FALSE
      /\ Pcm(q) => q.output.requested
  BY <1>1, <1>3, PumpNow
<1>5. output' = q.output /\ stream' = q.stream /\ Now' = q /\ output' \in Outputs
  BY <1>2, <1>3, <1>4 DEF Becomes, Now, Fits
<1>6. stream'.state # "none" => output'.running = TRUE
  BY <1>4, <1>5 DEF Outputs
<1>7. call'.at = "loop" /\ running' = TRUE /\ wanted' = TRUE
  <2>1. wanted = TRUE
    BY <1>1, LoopFacts
  <2> QED
    BY <1>1, <2>1 DEF Poll, AtLoop
<1>8. TypeOK'
  BY <1>4, <1>5 DEF OutputInv, TypeOK, Fits, Poll
<1> QED
  BY <1>4, <1>5, <1>6, <1>7, <1>8, BackInLoop

(***************************************************************************)
(* Every call that waits begins alike: the output is switched off, and a   *)
(* stream that plays is asked to pause.                                    *)
(***************************************************************************)
LEMMA PauseBegins ==
    ASSUME TypeOK, NEW s, Fits(s), s.stream.state \in Startable \cup {"none"},
           s.stream.state = "none" => ~Pcm(s),
           NEW then \in {"pause", "complete", "seek"}, NEW target \in 0 .. FrameCount,
           NEW resume \in BOOLEAN,
           BeginPause(s, then, target, resume),
           UNCHANGED <<running, completed, next, held, wanted>>, seeks' \in 0 .. MaxSeek
    PROVE  OutputInv'
<1>1. s.output \in Outputs /\ s.stream \in Streams
  BY DEF Fits
<1>2. /\ output' \in Outputs /\ output'.block = s.output.block
      /\ output'.offset = s.output.offset
  BY <1>1 DEF BeginPause, Outputs
<1>3. output'.running = FALSE
  BY <1>1 DEF BeginPause, Outputs
<1>4. /\ stream' \in Streams /\ stream'.buffer = s.stream.buffer
      /\ stream'.state \notin {"Starting", "Started", "invalid"}
      /\ stream'.state = "none" => s.stream.state = "none"
  BY <1>1 DEF BeginPause, Streams, StreamStates, Startable
<1>5. call' \in Calls /\ call'.at = "pausing"
  BY DEF BeginPause, Calls
<1>6. TypeOK'
  BY <1>2, <1>4, <1>5 DEF TypeOK, Fits
<1>7. stream'.state = "none" => ~Pcm(Now)'
  BY <1>2, <1>4 DEF Pcm, Now
<1> QED
  BY <1>3, <1>4, <1>5, <1>6, <1>7 DEF OutputInv, NoInvalidState, WaitingInv

LEMMA CompleteKeeps == OutputInv /\ Complete => OutputInv'
<1> SUFFICES ASSUME OutputInv, Complete PROVE OutputInv'
  OBVIOUS
<1>1. call = AtLoop /\ running = TRUE
  BY DEF Complete, Ended, Playing, OutputInv, TypeOK
<1>2. PICK n \in Writable(Now) : BeginPause(Pump(Now, n), "complete", 0, FALSE)
  BY DEF Complete
<1>3. PICK q : q = Pump(Now, n)
  OBVIOUS
<1>4. Fits(q) /\ q.stream.state \in Startable \cup {"none"} /\ (q.stream.state = "none" => ~Pcm(q))
  BY <1>1, <1>3, PumpNow
<1>5. 0 \in 0 .. FrameCount
  OBVIOUS
<1>6. seeks' \in 0 .. MaxSeek /\ UNCHANGED <<running, completed, next, held, wanted>> /\ TypeOK
  BY DEF Complete, OutputInv, TypeOK
<1> QED
  BY <1>2, <1>3, <1>4, <1>5, <1>6, PauseBegins

LEMMA PauseKeeps == OutputInv /\ Pause => OutputInv'
<1> SUFFICES ASSUME OutputInv, Pause PROVE OutputInv'
  OBVIOUS
<1> 0 \in 0 .. FrameCount
  OBVIOUS
<1>1. call = AtLoop /\ BeginPause(Now, "pause", 0, FALSE)
  BY DEF Pause
<1>2. Now.stream = stream
  BY DEF Now
<1>3. seeks' \in 0 .. MaxSeek /\ UNCHANGED <<running, completed, next, held, wanted>> /\ TypeOK
  BY DEF Pause, OutputInv, TypeOK
<1> QED
  BY <1>1, <1>2, <1>3, LoopFacts, PauseBegins

LEMMA SeekKeeps ==
    ASSUME OutputInv, NEW target \in 0 .. FrameCount, NEW resume \in BOOLEAN, Seek(target, resume)
    PROVE  OutputInv'
<1>1. call = AtLoop /\ BeginPause(Now, "seek", target, resume)
  BY DEF Seek
<1>2. Now.stream = stream
  BY DEF Now
<1>3. seeks' \in 0 .. MaxSeek /\ UNCHANGED <<running, completed, next, held, wanted>> /\ TypeOK
  BY DEF Seek, OutputInv, TypeOK
<1> QED
  BY <1>1, <1>2, <1>3, LoopFacts, PauseBegins

LEMMA EndPauseKeeps == OutputInv /\ EndPause => OutputInv'
<1> SUFFICES ASSUME OutputInv, EndPause PROVE OutputInv'
  OBVIOUS
<1>1. TypeOK /\ output \in Outputs /\ stream' = stream /\ call.at = "pausing" /\ output.running = FALSE
  BY DEF OutputInv, TypeOK, EndPause, WaitingInv
<1>2. /\ output' \in Outputs /\ output'.block = output.block /\ output'.offset = output.offset
      /\ output'.requested = FALSE
  BY <1>1 DEF EndPause, PausedOutput, Outputs
<1>3. output'.running = FALSE
  BY <1>1 DEF EndPause, PausedOutput, Outputs
<1>4. Halted' /\ stream'.state \in Startable \cup {"none"}
  BY <1>1 DEF EndPause, Halted, Startable
<1>5. call'.at = "loop" /\ call' \in Calls /\ running' = FALSE /\ wanted' = FALSE
  <2>1. 0 \in 0 .. FrameCount
    OBVIOUS
  <2> QED
    BY <2>1 DEF EndPause, AtLoop, Calls
<1>6. TypeOK'
  <2>1. completed' \in BOOLEAN
    BY DEF EndPause
  <2> QED
    BY <1>1, <1>2, <1>5, <2>1 DEF TypeOK, EndPause
<1>7. stream'.state = "none" => ~Pcm(Now)'
  BY <1>1, <1>2 DEF OutputInv, Pcm, Now
<1>8. Asked(Now)'
  BY <1>2 DEF Asked, Now
<1> QED
  BY <1>2, <1>3, <1>4, <1>5, <1>6, <1>7, <1>8, BackInLoop

LEMMA BeginFlushKeeps == OutputInv /\ BeginFlush => OutputInv'
<1> SUFFICES ASSUME OutputInv, BeginFlush PROVE OutputInv'
  OBVIOUS
<1>1. /\ TypeOK /\ output \in Outputs /\ stream \in Streams /\ call \in Calls
      /\ call.at = "pausing" /\ output.running = FALSE
  BY DEF OutputInv, TypeOK, BeginFlush, WaitingInv
<1>2. /\ output' \in Outputs /\ output'.block = output.block /\ output'.offset = output.offset
      /\ output'.requested = FALSE
  BY <1>1 DEF BeginFlush, PausedOutput, Outputs
<1>3. output'.running = FALSE
  BY <1>1 DEF BeginFlush, PausedOutput, Outputs
<1>4. /\ stream' \in Streams /\ stream'.buffer = stream.buffer
      /\ stream'.state \in {"none", "Open", "Flushing", "Flushed"}
      /\ stream'.state = "none" => stream.state = "none"
  BY <1>1 DEF BeginFlush, Halted, Streams, StreamStates
<1>5. call' \in Calls /\ call'.at = "flushing"
  BY <1>1 DEF BeginFlush, Calls
<1>6. TypeOK'
  <2>1. held' \in Seq(Frames) /\ wanted' = FALSE
    BY DEF BeginFlush
  <2> QED
    BY <1>1, <1>2, <1>4, <1>5, <2>1 DEF TypeOK, BeginFlush
<1>7. stream'.state = "none" => ~Pcm(Now)'
  BY <1>2, <1>4 DEF OutputInv, Pcm, Now
<1>8. wanted' = FALSE
  BY DEF BeginFlush
<1> QED
  BY <1>2, <1>3, <1>4, <1>5, <1>6, <1>7, <1>8 DEF OutputInv, NoInvalidState, WaitingInv, FlushingInv

LEMMA EndFlushKeeps == OutputInv /\ EndFlush => OutputInv'
<1> SUFFICES ASSUME OutputInv, EndFlush PROVE OutputInv'
  OBVIOUS
<1>1. /\ TypeOK /\ output \in Outputs /\ stream \in Streams /\ call \in Calls
      /\ output.running = FALSE /\ output.requested = FALSE /\ wanted = FALSE
      /\ stream.state \in {"none", "Open", "Flushed"}
  BY DEF OutputInv, TypeOK, EndFlush, WaitingInv, FlushingInv
<1>2. PICK s : s = [Now EXCEPT !.output.block = <<>>, !.output.offset = 0]
  OBVIOUS
<1>3. PICK o : o = [output EXCEPT !.block = <<>>, !.offset = 0]
  OBVIOUS
<1>4. s = [output |-> o, stream |-> stream]
  BY <1>2, <1>3 DEF Now
<1>5. o \in Outputs /\ o.block = <<>> /\ o.requested = FALSE
  <2>1. <<>> \in Seq(Frames)
    OBVIOUS
  <2> QED
    BY <1>1, <1>3, <2>1 DEF Outputs
<1>6. o.running = FALSE
  BY <1>1, <1>3 DEF Outputs
<1>7. s.output = o /\ s.stream = stream /\ Fits(s) /\ Asked(s)
  BY <1>1, <1>4, <1>5 DEF TypeOK, Fits, Asked
<1>8. s.stream.state \in Startable \cup {"none"}
  BY <1>1, <1>7 DEF Startable
<1>9. s.stream.state = "none" => ~Pcm(s) /\ s.output.running = FALSE
  BY <1>5, <1>6, <1>7 DEF OutputInv, Pcm, Now
<1>10. call'.at = "loop" /\ call' \in Calls /\ running' = call.resume
  <2>1. 0 \in 0 .. FrameCount
    OBVIOUS
  <2> QED
    BY <2>1 DEF EndFlush, AtLoop, Calls
<1>11. CASE call.resume
  <2>1. StartOutput(s)
    BY <1>2, <1>11 DEF EndFlush
  <2>2. /\ wanted' = TRUE
        /\ Fits(Now)'
        /\ stream'.state \in Startable \cup {"none"}
        /\ stream'.state # "none" => output'.running = TRUE
        /\ Asked(Now)'
        /\ stream'.state = "none" => ~Pcm(Now)' /\ output'.running = FALSE
        /\ Pcm(Now)' => output'.requested
    BY <1>7, <1>8, <1>9, <2>1, StartWakes
  <2>3. running' = TRUE
    BY <1>1, <1>10, <1>11 DEF Calls
  <2>4. TypeOK'
    <3>1. next' \in 0 .. FrameCount /\ completed' = FALSE
      BY <1>1 DEF EndFlush, Calls
    <3> QED
      BY <1>1, <1>10, <2>2, <2>3, <3>1 DEF TypeOK, EndFlush, Fits, Now
  <2> QED
    BY <1>10, <2>2, <2>3, <2>4, BackInLoop
<1>12. CASE ~call.resume
  <2>1. output' = o /\ stream' = stream /\ wanted' = FALSE
    BY <1>1, <1>2, <1>7, <1>12 DEF EndFlush, Becomes
  <2>2. running' = FALSE
    BY <1>1, <1>10, <1>12 DEF Calls
  <2>3. Now' = s
    BY <1>4, <2>1 DEF Now
  <2>4. TypeOK'
    <3>1. next' \in 0 .. FrameCount /\ completed' = FALSE
      BY <1>1 DEF EndFlush, Calls
    <3> QED
      BY <1>1, <1>5, <1>7, <1>10, <2>1, <2>2, <3>1 DEF TypeOK, EndFlush, Fits
  <2>5. Halted' /\ stream'.state \in Startable \cup {"none"}
    BY <1>1, <2>1 DEF Halted, Startable
  <2> QED
    BY <1>5, <1>6, <1>7, <1>9, <1>10, <2>1, <2>2, <2>3, <2>4, <2>5, BackInLoop
<1> QED
  BY <1>11, <1>12

LEMMA FailKeeps == OutputInv /\ Fail => OutputInv'
<1> SUFFICES ASSUME OutputInv, Fail PROVE OutputInv'
  OBVIOUS
<1>1. <<>> \in Seq(Frames) /\ 0 \in 0 .. FrameCount
  OBVIOUS
<1>2. /\ output' \in Outputs /\ output'.block = <<>> /\ output'.running = FALSE
      /\ stream' \in Streams /\ stream'.buffer = <<>> /\ stream'.state = "none"
  BY <1>1 DEF Fail, NewOutput, NoStream, Outputs, Streams
<1>3. call' \in Calls /\ call'.at = "closed"
  BY <1>1 DEF Fail, AtLoop, Calls
<1>4. TypeOK'
  <2>1. running' = FALSE /\ completed' = FALSE /\ held' = <<>> /\ wanted' = FALSE
    BY DEF Fail
  <2>2. Len(stream'.buffer) <= StreamCapacity
    BY <1>2
  <2> QED
    BY <1>1, <1>2, <1>3, <2>1, <2>2 DEF OutputInv, TypeOK, Fail
<1> QED
  BY <1>2, <1>3, <1>4 DEF OutputInv, NoInvalidState, Pcm, Now

(***************************************************************************)
(* What the stream does of its own accord: it moves from a state in which  *)
(* somebody has asked for it, and never gains PCM.                         *)
(***************************************************************************)
LEMMA StreamKeeps ==
    ASSUME OutputInv, NEW s \in Streams, StreamBecomes(s),
           Len(s.buffer) <= StreamCapacity,
           s.buffer # <<>> => stream.buffer # <<>>,
           \/ s.state = stream.state
           \/ stream.state = "Starting" /\ s.state = "Started"
           \/ stream.state = "Pausing" /\ s.state = "Paused"
           \/ stream.state = "Flushing" /\ s.state = "Flushed"
    PROVE  OutputInv'
<1>1. /\ stream' = s
      /\ UNCHANGED <<call, running, completed, next, held, wanted, output, seeks>>
  BY DEF StreamBecomes
<1>2. TypeOK'
  BY <1>1 DEF OutputInv, TypeOK
<1>3. Pcm(Now)' => Pcm(Now)
  BY <1>1 DEF Pcm, Now
<1>4. stream'.state = "none" => stream.state = "none"
  BY <1>1
<1>5. ASSUME call.at = "loop" PROVE AtLoopInv'
  <2>1. AtLoopInv
    BY <1>5 DEF OutputInv
  <2>2. stream'.state \in Startable \cup {"none"} /\ Asked(Now)'
    BY <1>1, <2>1 DEF AtLoopInv, Asked, Now, Startable
  <2>3. running' /\ Pcm(Now)' => output'.requested
    BY <1>1, <1>3, <2>1 DEF AtLoopInv
  <2>4. ~running' => Halted' /\ ~output'.requested
    BY <1>1, <2>1 DEF AtLoopInv, LayersAgree, Halted
  <2>5. wanted' = running' /\ (stream'.state # "none" => output'.running = running')
    BY <1>1, <2>1 DEF AtLoopInv, LayersAgree
  <2>6. running' /\ HasPcm' => stream'.state \in {"Starting", "Started"}
    BY <2>2, <2>3 DEF HasPcm, Pcm, Now, Asked
  <2> QED
    BY <2>2, <2>3, <2>4, <2>5, <2>6 DEF AtLoopInv, LayersAgree
<1>6. call.at \in {"pausing", "flushing"} => WaitingInv'
  BY <1>1 DEF OutputInv, WaitingInv
<1>7. call.at = "flushing" => FlushingInv'
  BY <1>1 DEF OutputInv, FlushingInv
<1>8. NoInvalidState'
  BY <1>1 DEF OutputInv, NoInvalidState
<1>9. stream'.state = "none" => ~Pcm(Now)' /\ output'.running = FALSE
  BY <1>1, <1>3, <1>4 DEF OutputInv
<1> QED
  BY <1>1, <1>2, <1>5, <1>6, <1>7, <1>8, <1>9 DEF OutputInv

LEMMA StreamStepsKeep == OutputInv /\ (StreamSteps \/ StreamPlays) => OutputInv'
<1> SUFFICES ASSUME OutputInv, StreamSteps \/ StreamPlays PROVE OutputInv'
  OBVIOUS
<1>1. stream \in Streams /\ stream.buffer \in Seq(Frames) /\ Len(stream.buffer) <= StreamCapacity
  BY DEF OutputInv, TypeOK, Streams
<1>2. CASE StreamStarts
  <2>1. PICK s : s = [stream EXCEPT !.state = "Started"]
    OBVIOUS
  <2>2. s \in Streams /\ s.buffer = stream.buffer /\ s.state = "Started"
    BY <1>1, <2>1 DEF Streams, StreamStates
  <2> QED
    BY <1>1, <1>2, <2>1, <2>2, StreamKeeps DEF StreamStarts
<1>3. CASE StreamPauses
  <2>1. PICK s : s = [stream EXCEPT !.state = "Paused"]
    OBVIOUS
  <2>2. s \in Streams /\ s.buffer = stream.buffer /\ s.state = "Paused"
    BY <1>1, <2>1 DEF Streams, StreamStates
  <2> QED
    BY <1>1, <1>3, <2>1, <2>2, StreamKeeps DEF StreamPauses
<1>4. CASE StreamFlushes
  <2>1. PICK n \in {0, stream.consumed, stream.consumed + Len(stream.buffer)} :
          StreamBecomes([state |-> "Flushed", buffer |-> <<>>, consumed |-> n])
    BY <1>4 DEF StreamFlushes
  <2>2. PICK s : s = [state |-> "Flushed", buffer |-> <<>>, consumed |-> n]
    OBVIOUS
  <2>3. n \in Nat /\ <<>> \in Seq(Frames)
    BY <1>1, <2>1 DEF Streams
  <2>4. s \in Streams /\ s.buffer = <<>> /\ s.state = "Flushed" /\ Len(s.buffer) <= StreamCapacity
    BY <2>2, <2>3 DEF Streams, StreamStates
  <2> QED
    BY <1>4, <2>1, <2>2, <2>4, StreamKeeps DEF StreamFlushes
<1>5. CASE StreamPlays
  <2>1. PICK s : s = [stream EXCEPT !.buffer = Tail(stream.buffer), !.consumed = stream.consumed + 1]
    OBVIOUS
  <2>2. stream.buffer # <<>> /\ StreamBecomes(s)
    BY <1>5, <2>1 DEF StreamPlays
  <2>3. Tail(stream.buffer) \in Seq(Frames) /\ Len(Tail(stream.buffer)) <= StreamCapacity
    BY <1>1, <2>2
  <2>4. stream.consumed + 1 \in Nat
    BY <1>1 DEF Streams
  <2>5. s \in Streams /\ s.buffer = Tail(stream.buffer) /\ s.state = stream.state
    BY <1>1, <2>1, <2>3, <2>4 DEF Streams
  <2> QED
    BY <2>2, <2>3, <2>5, StreamKeeps
<1> QED
  BY <1>2, <1>3, <1>4, <1>5 DEF StreamSteps

(* Every step of worker or stream. *)
LEMMA OutputInvStep == OutputInv /\ [Next]_vars => OutputInv'
<1> SUFFICES ASSUME OutputInv, [Next]_vars PROVE OutputInv'
  OBVIOUS
<1>1. ASSUME NEW block \in Blocks, Submit(block) PROVE OutputInv'
  BY <1>1, SubmitKeeps
<1>2. ASSUME NEW target \in 0 .. FrameCount, NEW resume \in BOOLEAN, Seek(target, resume)
      PROVE  OutputInv'
  BY <1>2, SeekKeeps
<1>3. ASSUME UNCHANGED vars PROVE OutputInv'
  BY <1>3 DEF vars, OutputInv, TypeOK, NoInvalidState, Pcm, Now, AtLoopInv, LayersAgree, Halted, HasPcm,
              Asked, WaitingInv, FlushingInv
<1>4. CASE WorkerSteps
  BY <1>1, <1>4, PollKeeps, EndPauseKeeps, BeginFlushKeeps, EndFlushKeeps DEF WorkerSteps
<1> QED
  BY <1>2, <1>3, <1>4, StartKeeps, CompleteKeeps, PauseKeeps, FailKeeps, StreamStepsKeep
     DEF Next, Closed

-----------------------------------------------------------------------------
(***************************************************************************)
(* Between two calls worker, deferred output, Android output and stream    *)
(* agree on whether PCM plays, and no stream is asked to start while it    *)
(* pauses or flushes.                                                      *)
(***************************************************************************)
THEOREM PlaysExactlyWhenWantedAlways == Spec => []PlaysExactlyWhenWanted
<1>1. OutputInv /\ [Next]_vars => OutputInv'
  BY OutputInvStep
<1>2. OutputInv => PlaysExactlyWhenWanted
  BY DEF OutputInv, PlaysExactlyWhenWanted, AtLoopInv, AtLoop
<1> QED
  BY InitAgrees, <1>1, <1>2, PTL DEF Spec

-----------------------------------------------------------------------------
(* The device *)

(* What the layers hold together, the stream's share first. *)
QueueOf(s) == s.stream.buffer \o Rest(s.output)

(* A write moves PCM from the block to the stream: the queue is the same. *)
LEMMA WrittenQueue ==
    ASSUME NEW s, Fits(s), NEW n \in Writable(s)
    PROVE  /\ QueueOf(Written(s, n)) = QueueOf(s)
           /\ Written(s, n).stream.consumed = s.stream.consumed
<1>1. s.output \in Outputs /\ s.stream \in Streams /\ s.stream.buffer \in Seq(Frames)
  BY DEF Fits, Streams
<1>2. s.output.block \in Seq(Frames) /\ s.output.offset \in Nat
  BY <1>1 DEF Outputs
<1>3. PICK r : r = Rest(s.output)
  OBVIOUS
<1>4. /\ r \in Seq(Frames)
      /\ s.output.block = <<>> => Len(r) = 0
      /\ s.output.block # <<>> => Len(r) = Len(s.output.block) - s.output.offset
  BY <1>1, <1>3, RestType DEF Fits
<1>5. n \in Nat /\ n <= Len(r)
  BY <1>3, WritableFits
<1>6. Rest(Advanced(s.output, n)) = SubSeq(r, n + 1, Len(r))
  <2>1. CASE s.output.offset + n = Len(s.output.block)
    <3>1. Advanced(s.output, n).block = <<>> /\ Advanced(s.output, n).offset = 0
      BY <1>1, <2>1 DEF Advanced, Outputs
    <3>2. Rest(Advanced(s.output, n)) = <<>>
      BY <3>1 DEF Rest
    <3>3. n = Len(r)
      BY <1>2, <1>4, <1>5, <2>1
    <3>4. SubSeq(r, n + 1, Len(r)) = <<>>
      BY <1>5, <3>3, SubSeqEmpty
    <3> QED
      BY <3>2, <3>4
  <2>2. CASE s.output.offset + n # Len(s.output.block)
    <3>1. /\ Advanced(s.output, n).block = s.output.block
          /\ Advanced(s.output, n).offset = s.output.offset + n
      BY <1>1, <2>2 DEF Advanced, Outputs
    <3>2. CASE s.output.block = <<>>
      <4>1. r = <<>> /\ n = 0
        BY <1>4, <1>5, <3>2
      <4>2. Rest(Advanced(s.output, n)) = SubSeq(<<>>, s.output.offset + 1, 0)
        BY <1>2, <3>1, <3>2, <4>1 DEF Rest
      <4>3. SubSeq(<<>>, s.output.offset + 1, 0) = <<>>
        BY <1>2, SubSeqEmpty
      <4>4. SubSeq(r, n + 1, Len(r)) = <<>>
        BY <1>4, <1>5, <3>2, SubSeqEmpty
      <4> QED
        BY <4>2, <4>3, <4>4
    <3>3. CASE s.output.block # <<>>
      <4>1. PICK b, k : b = s.output.block /\ k = s.output.offset
        OBVIOUS
      <4>2. b \in Seq(Frames) /\ k \in Nat /\ k + n < Len(b) /\ Len(r) = Len(b) - k
        BY <1>2, <1>4, <1>5, <2>2, <3>3, <4>1
      <4>3. r = SubSeq(b, k + 1, Len(b))
        BY <1>3, <4>1 DEF Rest
      <4>4. SubSeq(r, n + 1, Len(r)) = SubSeq(b, k + 1 + (n + 1) - 1, k + 1 + Len(r) - 1)
        <5>1. PICK i, j, x, y : i = k + 1 /\ j = Len(b) /\ x = n + 1 /\ y = Len(r)
          OBVIOUS
        <5>2. i \in 1 .. Len(b) /\ j \in 1 .. Len(b)
          BY <1>5, <4>2, <5>1
        <5>3. x \in 1 .. j - i + 1 /\ y \in 1 .. j - i + 1
          BY <1>5, <4>2, <5>1
        <5>4. SubSeq(SubSeq(b, i, j), x, y) = SubSeq(b, i + x - 1, i + y - 1)
          BY <4>2, <5>2, <5>3, SubSeqOfSubSeq
        <5> QED
          BY <4>3, <5>1, <5>4
      <4>5. k + 1 + (n + 1) - 1 = k + n + 1 /\ k + 1 + Len(r) - 1 = Len(b)
        BY <1>5, <4>2
      <4>6. Rest(Advanced(s.output, n)) = SubSeq(b, k + n + 1, Len(b))
        BY <3>1, <4>1 DEF Rest
      <4> QED
        BY <4>4, <4>5, <4>6
    <3> QED
      BY <3>2, <3>3
  <2> QED
    BY <2>1, <2>2
<1>7. PICK q, u : q = SubSeq(r, 1, n) /\ u = SubSeq(r, n + 1, Len(r))
  OBVIOUS
<1>8. q \in Seq(Frames) /\ u \in Seq(Frames)
  BY <1>4, <1>5, <1>7
<1>9. q \o u = r
  <2>1. 1 \in 1 .. Len(r) + 1 /\ n \in 1 - 1 .. Len(r) /\ Len(r) \in n .. Len(r)
    BY <1>4, <1>5
  <2>2. q \o u = SubSeq(r, 1, Len(r))
    BY <1>4, <1>7, <2>1, ConcatAdjacentSubSeq
  <2> QED
    BY <1>4, <2>2, SubSeqFull
<1>10. /\ Written(s, n).output = Advanced(s.output, n)
       /\ Written(s, n).stream = [s.stream EXCEPT !.buffer = s.stream.buffer \o q]
  BY <1>3, <1>7 DEF Written
<1>11. /\ Written(s, n).stream.buffer = s.stream.buffer \o q
       /\ Written(s, n).stream.consumed = s.stream.consumed
  BY <1>1, <1>10 DEF Streams
<1>12. QueueOf(Written(s, n)) = (s.stream.buffer \o q) \o u
  BY <1>6, <1>7, <1>10, <1>11 DEF QueueOf
<1>13. (s.stream.buffer \o q) \o u = s.stream.buffer \o r
  <2>1. PICK c : c = s.stream.buffer
    OBVIOUS
  <2>2. c \in Seq(Frames)
    BY <1>1, <2>1
  <2>3. (c \o q) \o u = c \o (q \o u)
    BY <1>8, <2>2, ConcatAssociative
  <2> QED
    BY <1>9, <2>1, <2>3
<1> QED
  BY <1>3, <1>11, <1>12, <1>13 DEF QueueOf

LEMMA PumpQueue ==
    ASSUME NEW s, Fits(s), NEW n \in Writable(s)
    PROVE  /\ QueueOf(Pump(s, n)) = QueueOf(s)
           /\ Pump(s, n).stream.consumed = s.stream.consumed
<1>1. PICK w : w = Written(s, n)
  OBVIOUS
<1>2. QueueOf(w) = QueueOf(s) /\ w.stream.consumed = s.stream.consumed /\ Fits(w)
  BY <1>1, WrittenQueue, WrittenFits
<1>3. w.output \in Outputs /\ w.stream \in Streams
  BY <1>2 DEF Fits
<1>4. /\ Requested(w).output.block = w.output.block /\ Requested(w).output.offset = w.output.offset
      /\ Requested(w).stream.buffer = w.stream.buffer
      /\ Requested(w).stream.consumed = w.stream.consumed
  BY <1>3 DEF Requested, Outputs, Streams
<1>5. QueueOf(Requested(w)) = QueueOf(w)
  BY <1>4 DEF QueueOf, Rest
<1>6. Pump(s, n) \in {s, w, Requested(w)}
  BY <1>1 DEF Pump
<1> QED
  BY <1>2, <1>4, <1>5, <1>6

(***************************************************************************)
(* What the refinement needs beyond: a stream that was never started, or   *)
(* was flushed, is empty; one that pauses did play; and a call that is     *)
(* going to report completion has nothing left to play; and no block is    *)
(* held during a flush.                                                    *)
(***************************************************************************)
StreamInv ==
    /\ stream.state = "none" => stream.consumed = 0
    /\ stream.state \in {"none", "Open", "Flushed"} => stream.buffer = <<>>

PausingInv ==
    /\ stream.state # "Flushing"
    /\ stream.state = "Pausing" => running = TRUE
    /\ call.then = "complete" => running = TRUE /\ IsDrained(Now) /\ held = <<>>

DeviceInv ==
    /\ OutputInv /\ StreamInv
    /\ call.at = "flushing" => held = <<>>
    /\ call.at = "pausing" => PausingInv
    /\ call.at = "closed" => stream.state = "none"

(* What the device shows between two calls and while the worker waits. *)
LEMMA DeviceShows ==
    ASSUME TypeOK
    PROVE  /\ call.at # "flushing" =>
                  Unheard = QueueOf(Now) \o held /\ Playable = running /\ IsOver = completed
           /\ call.at = "flushing" => Unheard = <<>> /\ Playable = FALSE /\ IsOver = FALSE
<1>1. running \in BOOLEAN /\ completed \in BOOLEAN
  BY DEF TypeOK
<1>2. Now.output = output /\ Now.stream = stream
  BY DEF Now
<1> QED
  BY <1>1, <1>2 DEF Unheard, Playable, IsOver, Flushing, QueueOf

LEMMA DeviceShowsNext ==
    ASSUME TypeOK'
    PROVE  /\ call'.at # "flushing" =>
                  Unheard' = QueueOf(Now)' \o held' /\ Playable' = running' /\ IsOver' = completed'
           /\ call'.at = "flushing" => Unheard' = <<>> /\ Playable' = FALSE /\ IsOver' = FALSE
<1>1. running' \in BOOLEAN /\ completed' \in BOOLEAN
  BY DEF TypeOK
<1>2. Now'.output = output' /\ Now'.stream = stream'
  BY DEF Now
<1> QED
  BY <1>1, <1>2 DEF Unheard, Playable, IsOver, Flushing, QueueOf

(* A call that leaves the device as it was. *)
Stutters == UNCHANGED <<Unheard, stream.consumed, Playable, IsOver>>

DeviceStep == Stutters \/ Device!Next

LEMMA StutterIsAStep == DeviceStep => [Device!Next]_(Device!vars)
  BY DEF DeviceStep, Stutters, Device!vars

(* PCM in the buffer of a stream between two calls was asked for. *)
LEMMA StreamInLoop ==
    ASSUME OutputInv', call'.at = "loop", running' = TRUE,
           stream'.state = "none" => stream'.consumed = 0
    PROVE  StreamInv'
<1>1. stream'.buffer # <<>> => stream'.state \in {"Starting", "Started"}
  BY DEF OutputInv, AtLoopInv, LayersAgree, HasPcm
<1> QED
  BY <1>1 DEF StreamInv

(* StartOutput plays what is there and counts nothing. *)
LEMMA StartQueue ==
    ASSUME NEW s, Fits(s), StartOutput(s)
    PROVE  /\ QueueOf(Now)' = QueueOf(s)
           /\ stream'.consumed = s.stream.consumed
           /\ stream'.state = "none" => s.stream.state = "none"
<1>1. s.output \in Outputs /\ s.stream \in Streams /\ s = [output |-> s.output, stream |-> s.stream]
  BY DEF Fits
<1>2. Now'.output = output' /\ Now'.stream = stream'
  BY DEF Now
<1>3. CASE s.stream.state = "none"
  BY <1>2, <1>3 DEF StartOutput, Becomes, QueueOf
<1>4. CASE s.stream.state # "none"
  <2>1. PICK on : on = [s EXCEPT !.output.running = TRUE]
    OBVIOUS
  <2>2. PICK n \in Writable(on) : Becomes(Pump(on, n))
    BY <1>4, <2>1 DEF StartOutput
  <2>3. PICK o : o = [s.output EXCEPT !.running = TRUE]
    OBVIOUS
  <2>4. o \in Outputs /\ o.block = s.output.block /\ o.offset = s.output.offset
    BY <1>1, <2>3 DEF Outputs
  <2>5. on = [output |-> o, stream |-> s.stream]
    BY <1>1, <2>1, <2>3
  <2>6. on.output = o /\ on.stream = s.stream
    BY <2>5
  <2>7. Fits(on)
    BY <1>1, <2>4, <2>5, <2>6 DEF Fits
  <2>8. QueueOf(on) = QueueOf(s)
    BY <2>4, <2>6 DEF QueueOf, Rest
  <2>9. QueueOf(Pump(on, n)) = QueueOf(on) /\ Pump(on, n).stream.consumed = on.stream.consumed
    BY <2>7, PumpQueue
  <2>10. output' = Pump(on, n).output /\ stream' = Pump(on, n).stream
    BY <2>2 DEF Becomes
  <2>11. QueueOf(Now)' = QueueOf(Pump(on, n))
    BY <1>2, <2>10 DEF QueueOf
  <2>12. stream'.state # "none"
    <3>1. Pump(on, n).stream.state \in {on.stream.state, "Starting", "Started", "invalid"}
      <4>1. PICK w : w = Written(on, n)
        OBVIOUS
      <4>2. w.stream.state = on.stream.state /\ Fits(w)
        BY <2>7, <4>1, WrittenFits
      <4>3. w.stream \in Streams
        BY <4>2 DEF Fits
      <4>4. Requested(w).stream.state \in {w.stream.state, "Starting", "Started", "invalid"}
        BY <4>3 DEF Requested, Streams
      <4>5. Pump(on, n) \in {on, w, Requested(w)}
        BY <4>1 DEF Pump
      <4> QED
        BY <4>2, <4>4, <4>5
    <3> QED
      BY <1>4, <2>6, <2>10, <3>1
  <2> QED
    BY <2>6, <2>8, <2>9, <2>10, <2>11, <2>12
<1> QED
  BY <1>3, <1>4

LEMMA StartRefines == DeviceInv /\ OutputInv' /\ Start => DeviceInv' /\ DeviceStep
<1> SUFFICES ASSUME DeviceInv, OutputInv', Start PROVE DeviceInv' /\ DeviceStep
  OBVIOUS
<1>1. /\ call = AtLoop /\ StartOutput(Now) /\ running' = TRUE /\ completed = FALSE
      /\ completed' = completed /\ call' = call /\ held' = held
  BY DEF Start, DeviceInv, OutputInv, TypeOK
<1>2. Now.stream = stream /\ Fits(Now)
  BY NowFits DEF DeviceInv, OutputInv, Now
<1>3. /\ QueueOf(Now)' = QueueOf(Now)
      /\ stream'.consumed = stream.consumed
      /\ stream'.state = "none" => stream.state = "none"
  BY <1>1, <1>2, StartQueue
<1>4. call.at = "loop" /\ call'.at = "loop"
  BY <1>1 DEF AtLoop
<1>5. DeviceInv'
  <2>1. StreamInv'
    BY <1>1, <1>3, <1>4, StreamInLoop DEF DeviceInv, StreamInv
  <2> QED
    BY <1>4, <2>1 DEF DeviceInv
<1>6. /\ Unheard' = Unheard /\ Playable' = TRUE
      /\ IsOver = FALSE /\ IsOver' = FALSE
  BY <1>1, <1>3, <1>4, DeviceShows, DeviceShowsNext DEF DeviceInv, OutputInv
<1>7. Device!Start
  BY <1>3, <1>6 DEF Device!Start
<1> QED
  BY <1>5, <1>7 DEF DeviceStep, Device!Next

LEMMA PollRefines == DeviceInv /\ OutputInv' /\ Poll => DeviceInv' /\ DeviceStep
<1> SUFFICES ASSUME DeviceInv, OutputInv', Poll PROVE DeviceInv' /\ DeviceStep
  OBVIOUS
<1>1. /\ call = AtLoop /\ call' = call /\ running = TRUE /\ running' = running
      /\ completed' = completed /\ held' = held
  BY DEF Poll, Ended, Playing, DeviceInv, OutputInv, TypeOK
<1>2. PICK n \in Writable(Now) : Becomes(Pump(Now, n))
  BY DEF Poll
<1>3. Now.stream = stream /\ Fits(Now)
  BY NowFits DEF DeviceInv, OutputInv, Now
<1>4. output' = Pump(Now, n).output /\ stream' = Pump(Now, n).stream
  BY <1>2 DEF Becomes
<1>5. QueueOf(Now)' = QueueOf(Now) /\ stream'.consumed = stream.consumed
  <2>1. QueueOf(Now)' = QueueOf(Pump(Now, n))
    BY <1>4 DEF QueueOf, Now
  <2> QED
    BY <1>3, <1>4, <2>1, PumpQueue
<1>6. stream'.state = "none" => stream.state = "none"
  <2>1. CASE stream.state # "none"
    <3>1. Now.output.running /\ Asked(Now) /\ Now.stream.state \in Startable
      BY <1>1, <1>3, <2>1, LoopFacts DEF DeviceInv, Now
    <3>2. Pump(Now, n).stream.state \in Startable
      BY <1>3, <3>1, PumpWakes
    <3> QED
      BY <1>4, <3>2 DEF Startable
  <2> QED
    BY <2>1
<1>7. call.at = "loop" /\ call'.at = "loop"
  BY <1>1 DEF AtLoop
<1>8. DeviceInv'
  <2>1. StreamInv'
    BY <1>1, <1>5, <1>6, <1>7, StreamInLoop DEF DeviceInv, StreamInv
  <2> QED
    BY <1>7, <2>1 DEF DeviceInv
<1>9. Unheard' = Unheard /\ Playable' = Playable /\ IsOver' = IsOver
  BY <1>1, <1>5, <1>7, DeviceShows, DeviceShowsNext DEF DeviceInv, OutputInv
<1> QED
  BY <1>5, <1>8, <1>9 DEF DeviceStep, Stutters

(* Calls that begin to wait: the layers keep what they have. *)
LEMMA BeginPauseRefines ==
    ASSUME DeviceInv, OutputInv', call = AtLoop, NEW s, Fits(s),
           QueueOf(s) = QueueOf(Now), s.stream.consumed = stream.consumed,
           s.stream.state = "none" => stream.state = "none",
           s.stream.state \in Startable \cup {"none"},
           s.stream.state \in {"Open", "Flushed"} => s.stream.buffer = <<>>,
           s.stream.state \in {"Starting", "Started"} => running = TRUE,
           NEW then, then = "complete" => running = TRUE /\ IsDrained(s) /\ held = <<>>,
           NEW target, NEW resume, BeginPause(s, then, target, resume),
           UNCHANGED <<running, completed, held>>
    PROVE  DeviceInv' /\ DeviceStep
<1>1. s.output \in Outputs /\ s.stream \in Streams
  BY DEF Fits
<1>2. /\ output'.block = s.output.block /\ output'.offset = s.output.offset
      /\ stream'.buffer = s.stream.buffer /\ stream'.consumed = s.stream.consumed
      /\ stream'.state = IF s.stream.state \in {"Starting", "Started"} THEN "Pausing" ELSE s.stream.state
  BY <1>1 DEF BeginPause, Outputs, Streams
<1>3. Now'.output = output' /\ Now'.stream = stream'
  BY DEF Now
<1>4. QueueOf(Now)' = QueueOf(Now)
  BY <1>2, <1>3 DEF QueueOf, Rest
<1>5. call.at = "loop" /\ call'.at = "pausing" /\ call'.then = then
  BY DEF AtLoop, BeginPause
<1>6. StreamInv'
  <2>1. stream'.state = "none" => s.stream.state = "none" /\ stream.state = "none"
    BY <1>2
  <2>2. stream'.state = "none" => stream'.buffer = <<>>
    BY DEF OutputInv, Pcm, Now
  <2> QED
    BY <1>2, <2>1, <2>2 DEF DeviceInv, StreamInv
<1>7. PausingInv'
  BY <1>2, <1>3, <1>5 DEF PausingInv, Startable, IsDrained
<1>8. Unheard' = Unheard /\ Playable' = Playable /\ IsOver' = IsOver
  BY <1>4, <1>5, DeviceShows, DeviceShowsNext DEF DeviceInv, OutputInv
<1> QED
  BY <1>2, <1>5, <1>6, <1>7, <1>8 DEF DeviceInv, DeviceStep, Stutters

LEMMA TailOfConcat ==
    ASSUME NEW a \in Seq(Frames), NEW b \in Seq(Frames), a # <<>>
    PROVE  Tail(a \o b) = Tail(a) \o b
<1>1. PICK c : c = a \o b
  OBVIOUS
<1>2. /\ c \in Seq(Frames) /\ Len(c) = Len(a) + Len(b)
      /\ \A i \in 1 .. Len(a) + Len(b) : c[i] = IF i <= Len(a) THEN a[i] ELSE b[i - Len(a)]
  BY <1>1, ConcatProperties
<1>3. Len(a) \in Nat \ {0} /\ Len(b) \in Nat /\ c # <<>>
  BY <1>2
<1>4. /\ Tail(c) \in Seq(Frames) /\ Len(Tail(c)) = Len(c) - 1
      /\ \A i \in 1 .. Len(Tail(c)) : Tail(c)[i] = c[i + 1]
  BY <1>2, <1>3, HeadTailProperties
<1>5. /\ Tail(a) \in Seq(Frames) /\ Len(Tail(a)) = Len(a) - 1
      /\ \A i \in 1 .. Len(Tail(a)) : Tail(a)[i] = a[i + 1]
  BY HeadTailProperties
<1>6. PICK u, v : u = Tail(a) /\ v = u \o b
  OBVIOUS
<1>7. /\ v \in Seq(Frames) /\ Len(v) = Len(u) + Len(b)
      /\ \A i \in 1 .. Len(u) + Len(b) : v[i] = IF i <= Len(u) THEN u[i] ELSE b[i - Len(u)]
  BY <1>5, <1>6, ConcatProperties
<1>8. Len(v) = Len(Tail(c))
  BY <1>2, <1>3, <1>4, <1>5, <1>6, <1>7
<1>9. ASSUME NEW i \in 1 .. Len(v) PROVE v[i] = Tail(c)[i]
  <2>1. i \in Nat /\ Len(u) = Len(a) - 1 /\ i + 1 - Len(a) = i - Len(u)
    BY <1>3, <1>5, <1>6, <1>7, <1>9
  <2>2. Tail(c)[i] = c[i + 1]
    BY <1>4, <1>8
  <2>3. i + 1 \in 1 .. Len(a) + Len(b)
    BY <1>3, <1>7, <2>1
  <2>4. c[i + 1] = IF i + 1 <= Len(a) THEN a[i + 1] ELSE b[i + 1 - Len(a)]
    BY <1>2, <2>3
  <2>5. v[i] = IF i <= Len(u) THEN u[i] ELSE b[i - Len(u)]
    BY <1>7
  <2>6. i <= Len(u) => u[i] = a[i + 1]
    BY <1>5, <1>6, <2>1
  <2>7. i <= Len(u) <=> i + 1 <= Len(a)
    BY <1>3, <2>1
  <2> QED
    BY <2>1, <2>2, <2>4, <2>5, <2>6, <2>7
<1>10. v = Tail(c)
  BY <1>4, <1>7, <1>8, <1>9, SeqEqual
<1> QED
  BY <1>1, <1>6, <1>10

(* PCM taken behind what is there. *)
LEMMA GrowsStrictly ==
    ASSUME NEW a \in Seq(Frames), NEW b \in Seq(Frames), b # <<>>
    PROVE  Device!IsStrictPrefix(a, a \o b)
<1>1. Len(a) \in Nat /\ Len(b) \in Nat /\ Len(a \o b) = Len(a) + Len(b)
  OBVIOUS
<1>2. a # a \o b
  BY ConcatEqualIffEmpty
<1>3. SubSeq(a, 1, Len(a)) = SubSeq(a \o b, 1, Len(a))
  <2>1. CASE Len(a) = 0
    BY <1>1, <2>1, SubSeqEmpty
  <2>2. CASE Len(a) # 0
    <3>1. 1 \in 1 .. Len(a) /\ Len(a) \in 1 .. Len(a)
      BY <1>1, <2>2
    <3> QED
      BY <3>1, SubSeqOfConcat1
  <2> QED
    BY <2>1, <2>2
<1> QED
  BY <1>1, <1>2, <1>3 DEF Device!IsStrictPrefix, Device!IsPrefix

(* The queue is a sequence of frames; nothing waits in an empty block. *)
LEMMA QueueType ==
    ASSUME NEW s, Fits(s)
    PROVE  /\ QueueOf(s) \in Seq(Frames)
           /\ s.output.block = <<>> => QueueOf(s) = s.stream.buffer
<1>1. PICK r, c : r = Rest(s.output) /\ c = s.stream.buffer
  OBVIOUS
<1>2. s.output \in Outputs /\ c \in Seq(Frames)
  BY <1>1 DEF Fits, Streams
<1>3. r \in Seq(Frames) /\ (s.output.block = <<>> => Len(r) = 0)
  BY <1>1, <1>2, RestType DEF Fits
<1>4. s.output.block = <<>> => r = <<>>
  BY <1>3
<1>5. c \o r \in Seq(Frames) /\ c \o <<>> = c
  BY <1>2, <1>3, ConcatEmptySeq
<1> QED
  BY <1>1, <1>4, <1>5 DEF QueueOf

LEMMA SubmitRefines ==
    ASSUME DeviceInv, OutputInv', NEW block \in Blocks, Submit(block)
    PROVE  DeviceInv' /\ DeviceStep
<1>1. /\ call = AtLoop /\ call' = call /\ running = TRUE /\ running' = running
      /\ completed' = completed
  BY DEF Submit, Playing, DeviceInv, OutputInv, TypeOK
<1>2. block \in Seq(Frames) /\ block # <<>>
  BY BlockType DEF DeviceInv, OutputInv
<1>3. PICK s : s = Configured(Now)
  OBVIOUS
<1>4. Fits(s) /\ s.output.running /\ Asked(s) /\ s.stream.state \in Startable
  BY <1>1, <1>3, ConfiguredRuns DEF DeviceInv
<1>5. QueueOf(s) = QueueOf(Now) /\ s.stream.consumed = stream.consumed
  <2>1. Now.output = output /\ Now.stream = stream /\ Fits(Now)
    BY NowFits DEF DeviceInv, OutputInv, Now
  <2>2. CASE stream.state = "none"
    <3>1. output.block = <<>> /\ stream.buffer = <<>> /\ stream.consumed = 0
      BY <2>1, <2>2 DEF DeviceInv, OutputInv, StreamInv, Pcm
    <3>2. QueueOf(Now) = <<>>
      BY <2>1, <3>1, QueueType
    <3>3. s.output = NewOutput(wanted) /\ s.stream = [NoStream EXCEPT !.state = "Open"]
      BY <1>3, <2>1, <2>2 DEF Configured
    <3>4. s.output.block = <<>> /\ s.stream.buffer = <<>> /\ s.stream.consumed = 0
      BY <3>3 DEF NewOutput, NoStream
    <3>5. QueueOf(s) = <<>>
      BY <1>4, <3>4, QueueType
    <3> QED
      BY <3>1, <3>2, <3>4, <3>5
  <2>3. CASE stream.state # "none"
    BY <1>3, <2>1, <2>3 DEF Configured
  <2> QED
    BY <2>2, <2>3
<1>6. PICK n \in Writable(s) :
        LET pumped == Pump(s, n)
            taken == [pumped EXCEPT !.output.block = block, !.output.offset = 0]
        IN  \/ /\ pumped.output.block # <<>>
               /\ held' = block
               /\ Becomes(pumped)
            \/ /\ pumped.output.block = <<>>
               /\ held' = <<>>
               /\ \E m \in Writable(taken) : Becomes(Pump(taken, m))
  BY <1>3 DEF Submit
<1>7. PICK p : p = Pump(s, n)
  OBVIOUS
<1>8. /\ Fits(p) /\ p.output.running /\ Asked(p) /\ p.stream.state \in Startable
      /\ QueueOf(p) = QueueOf(Now) /\ p.stream.consumed = stream.consumed
  BY <1>4, <1>5, <1>7, PumpWakes, PumpQueue
<1>9. PICK q : /\ Becomes(q) /\ q.stream.state \in Startable
               /\ q.stream.consumed = stream.consumed
               /\ \/ QueueOf(q) = QueueOf(Now) /\ held' = block
                  \/ QueueOf(q) = QueueOf(Now) \o block /\ held' = <<>>
  <2>1. CASE p.output.block # <<>>
    BY <1>6, <1>7, <1>8, <2>1
  <2>2. CASE p.output.block = <<>>
    <3>1. PICK taken : taken = [p EXCEPT !.output.block = block, !.output.offset = 0]
      OBVIOUS
    <3>2. held' = <<>> /\ \E m \in Writable(taken) : Becomes(Pump(taken, m))
      BY <1>6, <1>7, <2>2, <3>1
    <3>m. PICK m \in Writable(taken) : Becomes(Pump(taken, m))
      BY <3>2
    <3>3. taken = [output |-> [p.output EXCEPT !.block = block, !.offset = 0], stream |-> p.stream]
      <4>1. p = [output |-> p.output, stream |-> p.stream]
        BY <1>8 DEF Fits
      <4> QED
        BY <3>1, <4>1
    <3>4. /\ Fits(taken) /\ taken.output.running /\ Asked(taken) /\ taken.stream.state \in Startable
          /\ taken.output.block = block /\ taken.output.offset = 0 /\ taken.stream = p.stream
      <4>1. Fits(p) /\ p.output.running /\ Asked(p) /\ p.stream.state \in Startable
        BY <1>8
      <4>2. Fits(taken) /\ taken.output.running /\ Asked(taken) /\ taken.stream.state \in Startable
        BY <1>2, <3>3, <4>1, TakenRuns
      <4>3. taken.output.block = block /\ taken.output.offset = 0 /\ taken.stream = p.stream
        <5>1. p.output \in Outputs
          BY <4>1 DEF Fits
        <5>2. PICK o : o = [p.output EXCEPT !.block = block, !.offset = 0]
          OBVIOUS
        <5>3. o.block = block /\ o.offset = 0
          BY <5>1, <5>2 DEF Outputs
        <5>4. taken = [output |-> o, stream |-> p.stream]
          BY <3>3, <5>2
        <5> QED
          BY <5>3, <5>4
      <4> QED
        BY <4>2, <4>3
    <3>5. QueueOf(taken) = QueueOf(Now) \o block
      <4>1. Rest(taken.output) = SubSeq(block, 1, Len(block))
        BY <3>4 DEF Rest
      <4>2. SubSeq(block, 1, Len(block)) = block
        BY <1>2, SubSeqFull
      <4>3. p.stream.buffer = QueueOf(Now)
        BY <1>8, <2>2, QueueType
      <4> QED
        BY <3>4, <4>1, <4>2, <4>3 DEF QueueOf
    <3>6. /\ Pump(taken, m).stream.state \in Startable
          /\ QueueOf(Pump(taken, m)) = QueueOf(taken)
          /\ Pump(taken, m).stream.consumed = taken.stream.consumed
      BY <3>4, PumpWakes, PumpQueue
    <3> QED
      BY <1>8, <3>2, <3>m, <3>4, <3>5, <3>6
  <2> QED
    BY <2>1, <2>2
<1>10. output' = q.output /\ stream' = q.stream /\ QueueOf(Now)' = QueueOf(q)
  BY <1>9 DEF Becomes, QueueOf, Now
<1>11. call.at = "loop" /\ call'.at = "loop"
  BY <1>1 DEF AtLoop
<1>12. DeviceInv'
  <2>1. StreamInv'
    BY <1>1, <1>9, <1>10, <1>11, StreamInLoop DEF Startable
  <2> QED
    BY <1>11, <2>1 DEF DeviceInv
<1>13. /\ Unheard = QueueOf(Now) \o held /\ Unheard' = QueueOf(q) \o held'
       /\ Playable = TRUE /\ Playable' = TRUE /\ IsOver' = IsOver
       /\ stream'.consumed = stream.consumed
  BY <1>1, <1>9, <1>10, <1>11, DeviceShows, DeviceShowsNext DEF DeviceInv, OutputInv
<1>14. QueueOf(Now) \in Seq(Frames)
  BY NowFits, QueueType DEF DeviceInv, OutputInv
<1>15. Unheard' = QueueOf(Now) \o block
  <2>1. QueueOf(q) = QueueOf(Now) /\ held' = block => QueueOf(q) \o held' = QueueOf(Now) \o block
    OBVIOUS
  <2>2. ASSUME QueueOf(q) = QueueOf(Now) \o block, held' = <<>>
        PROVE  QueueOf(q) \o held' = QueueOf(Now) \o block
    <3>1. PICK c : c = QueueOf(Now) \o block
      OBVIOUS
    <3>2. c \in Seq(Frames)
      BY <1>2, <1>14, <3>1
    <3>3. c \o <<>> = c
      BY <3>2, ConcatEmptySeq
    <3> QED
      BY <2>2, <3>1, <3>3
  <2> QED
    BY <1>9, <1>13, <2>1, <2>2
<1>16. CASE held # <<>>
  <2>1. block = held
    BY <1>16 DEF Blocks
  <2> QED
    BY <1>12, <1>13, <1>15, <2>1 DEF DeviceStep, Stutters
<1>17. CASE held = <<>>
  <2>1. Unheard = QueueOf(Now)
    BY <1>13, <1>14, <1>17, ConcatEmptySeq
  <2>2. Device!IsStrictPrefix(Unheard, Unheard')
    <3>1. PICK a : a = QueueOf(Now)
      OBVIOUS
    <3>2. Device!IsStrictPrefix(a, a \o block)
      BY <1>2, <1>14, <3>1, GrowsStrictly
    <3> QED
      BY <1>15, <2>1, <3>1, <3>2
  <2>3. Device!Submit
    BY <1>13, <2>2 DEF Device!Submit
  <2> QED
    BY <1>12, <2>3 DEF DeviceStep, Device!Next
<1> QED
  BY <1>16, <1>17

LEMMA CompleteRefines == DeviceInv /\ OutputInv' /\ Complete => DeviceInv' /\ DeviceStep
<1> SUFFICES ASSUME DeviceInv, OutputInv', Complete PROVE DeviceInv' /\ DeviceStep
  OBVIOUS
<1>1. call = AtLoop /\ running = TRUE /\ held = <<>> /\ UNCHANGED <<running, completed, held>>
  BY DEF Complete, Ended, Playing, DeviceInv, OutputInv, TypeOK
<1>2. PICK n \in Writable(Now) : IsDrained(Pump(Now, n)) /\ BeginPause(Pump(Now, n), "complete", 0, FALSE)
  BY DEF Complete
<1>3. PICK s : s = Pump(Now, n)
  OBVIOUS
<1>4. Now.stream = stream /\ Now.output = output /\ Fits(Now)
  BY NowFits DEF DeviceInv, OutputInv, Now
<1>5. Fits(s) /\ s.stream.state \in Startable \cup {"none"}
  BY <1>1, <1>3, PumpNow DEF DeviceInv
<1>6. QueueOf(s) = QueueOf(Now) /\ s.stream.consumed = stream.consumed
  BY <1>3, <1>4, PumpQueue
<1>7. s.stream.state = "none" => stream.state = "none"
  <2>1. CASE stream.state # "none"
    <3>1. Now.output.running /\ Asked(Now) /\ Now.stream.state \in Startable
      BY <1>1, <1>4, <2>1, LoopFacts DEF DeviceInv
    <3>2. s.stream.state \in Startable
      BY <1>3, <1>4, <3>1, PumpWakes
    <3> QED
      BY <3>2 DEF Startable
  <2> QED
    BY <2>1
<1>8. IsDrained(s) /\ BeginPause(s, "complete", 0, FALSE)
  BY <1>2, <1>3
<1>9. s.stream.buffer = <<>>
  BY <1>8 DEF IsDrained
<1> QED
  BY <1>1, <1>5, <1>6, <1>7, <1>8, <1>9, BeginPauseRefines

(* Pause and Seek begin with what is there. *)
LEMMA BeginNowRefines ==
    ASSUME DeviceInv, OutputInv', call = AtLoop,
           NEW then \in {"pause", "seek"}, NEW target, NEW resume,
           BeginPause(Now, then, target, resume), UNCHANGED <<running, completed, held>>
    PROVE  DeviceInv' /\ DeviceStep
<1>1. Now.stream = stream /\ Fits(Now) /\ running \in BOOLEAN
  BY NowFits DEF DeviceInv, OutputInv, TypeOK, Now
<1>2. stream.state \in Startable \cup {"none"} /\ (~running => Halted)
  BY LoopFacts DEF DeviceInv
<1>3. stream.state \in {"Starting", "Started"} => running = TRUE
  BY <1>1, <1>2 DEF Halted
<1>4. stream.state \in {"Open", "Flushed"} => stream.buffer = <<>>
  BY DEF DeviceInv, StreamInv
<1> QED
  BY <1>1, <1>2, <1>3, <1>4, BeginPauseRefines

LEMMA EndPauseRefines == DeviceInv /\ OutputInv' /\ EndPause => DeviceInv' /\ DeviceStep
<1> SUFFICES ASSUME DeviceInv, OutputInv', EndPause PROVE DeviceInv' /\ DeviceStep
  OBVIOUS
<1>1. /\ call.at = "pausing" /\ call'.at = "loop" /\ stream' = stream /\ running' = FALSE
      /\ output \in Outputs /\ completed \in BOOLEAN /\ TypeOK /\ TypeOK' /\ PausingInv
      /\ call.then \in {"pause", "complete"} /\ completed' = (completed \/ call.then = "complete")
      /\ held' = held
  BY DEF EndPause, AtLoop, DeviceInv, OutputInv, TypeOK
<1>2. output'.block = output.block /\ output'.offset = output.offset
  BY <1>1 DEF EndPause, PausedOutput, Outputs
<1>3. Now.output = output /\ Now.stream = stream /\ Now'.output = output' /\ Now'.stream = stream'
  BY DEF Now
<1>4. DeviceInv'
  BY <1>1 DEF DeviceInv, StreamInv
<1>5. /\ Unheard = QueueOf(Now) \o held /\ Unheard' = Unheard
      /\ Playable = running /\ Playable' = FALSE /\ IsOver = completed /\ IsOver' = completed'
  <2>1. QueueOf(Now)' = QueueOf(Now)
    BY <1>1, <1>2, <1>3 DEF QueueOf, Rest
  <2> QED
    BY <1>1, <2>1, DeviceShows, DeviceShowsNext
<1>6. CASE call.then = "complete"
  <2>1. running = TRUE /\ IsDrained(Now) /\ held = <<>>
    BY <1>1, <1>6 DEF PausingInv
  <2>2. QueueOf(Now) \o held = <<>>
    <3>1. QueueOf(Now) = <<>>
      BY <1>1, <2>1, NowFits, QueueType DEF IsDrained
    <3> QED
      BY <2>1, <3>1
  <2>3. completed' = TRUE
    BY <1>1, <1>6
  <2>4. Device!Complete
    BY <1>1, <1>5, <2>1, <2>2, <2>3 DEF Device!Complete
  <2> QED
    BY <1>4, <2>4 DEF DeviceStep, Device!Next
<1>7. CASE call.then = "pause"
  <2>1. completed' = completed
    BY <1>1, <1>7
  <2>2. Device!Pause
    BY <1>1, <1>5, <2>1 DEF Device!Pause
  <2> QED
    BY <1>4, <2>2 DEF DeviceStep, Device!Next
<1> QED
  BY <1>1, <1>6, <1>7

LEMMA BeginFlushRefines == DeviceInv /\ OutputInv' /\ BeginFlush => DeviceInv' /\ DeviceStep
<1> SUFFICES ASSUME DeviceInv, OutputInv', BeginFlush PROVE DeviceInv' /\ DeviceStep
  OBVIOUS
<1>1. stream \in Streams /\ call \in Calls /\ call.at = "pausing" /\ TypeOK'
  BY DEF BeginFlush, DeviceInv, OutputInv, TypeOK
<1>2. call'.at = "flushing"
  BY <1>1 DEF BeginFlush, Calls
<1>3. /\ stream'.buffer = stream.buffer /\ stream'.consumed = stream.consumed
      /\ stream'.state \in {stream.state, "Flushing"} /\ held' = <<>>
  BY <1>1 DEF BeginFlush, Streams
<1>4. DeviceInv'
  BY <1>2, <1>3 DEF DeviceInv, StreamInv
<1>5. stream'.consumed \in Nat
  BY <1>1, <1>3 DEF Streams
<1>6. Unheard' = <<>> /\ Playable' = FALSE /\ IsOver' = FALSE
  BY <1>1, <1>2, DeviceShowsNext
<1>7. Device!Flush
  BY <1>5, <1>6 DEF Device!Flush
<1> QED
  BY <1>4, <1>7 DEF DeviceStep, Device!Next

LEMMA EndFlushRefines == DeviceInv /\ OutputInv' /\ EndFlush => DeviceInv' /\ DeviceStep
<1> SUFFICES ASSUME DeviceInv, OutputInv', EndFlush PROVE DeviceInv' /\ DeviceStep
  OBVIOUS
<1>1. /\ TypeOK /\ TypeOK' /\ output \in Outputs /\ stream \in Streams /\ call \in Calls
      /\ call.at = "flushing" /\ call'.at = "loop" /\ running' = call.resume /\ completed' = FALSE
      /\ held = <<>> /\ held' = <<>>
  BY DEF EndFlush, AtLoop, DeviceInv, OutputInv, TypeOK
<1>2. stream.state \in {"none", "Open", "Flushed"} /\ stream.buffer = <<>>
  BY DEF EndFlush, DeviceInv, StreamInv
<1>3. PICK o : o = [output EXCEPT !.block = <<>>, !.offset = 0]
  OBVIOUS
<1>4. PICK s : s = [Now EXCEPT !.output.block = <<>>, !.output.offset = 0]
  OBVIOUS
<1>5. s = [output |-> o, stream |-> stream]
  BY <1>3, <1>4 DEF Now
<1>6. o \in Outputs /\ o.block = <<>>
  <2>1. <<>> \in Seq(Frames)
    OBVIOUS
  <2> QED
    BY <1>1, <1>3, <2>1 DEF Outputs
<1>7. s.output = o /\ s.stream = stream /\ Fits(s)
  BY <1>1, <1>5, <1>6 DEF TypeOK, Fits
<1>8. QueueOf(s) = <<>>
  BY <1>2, <1>6, <1>7, QueueType
<1>9. Unheard = <<>> /\ Playable = FALSE /\ IsOver = FALSE
  BY <1>1, DeviceShows
<1>10. /\ Unheard' = QueueOf(Now)' \o <<>>
       /\ Playable' = running' /\ IsOver' = FALSE
  BY <1>1, DeviceShowsNext
<1>11. CASE call.resume
  <2>1. StartOutput(s)
    BY <1>4, <1>11 DEF EndFlush
  <2>2. /\ QueueOf(Now)' = <<>>
        /\ stream'.consumed = stream.consumed
        /\ stream'.state = "none" => stream.state = "none"
    BY <1>7, <1>8, <2>1, StartQueue
  <2>3. running' = TRUE
    BY <1>1, <1>11 DEF Calls
  <2>4. DeviceInv'
    <3>1. StreamInv'
      BY <1>1, <2>2, <2>3, StreamInLoop DEF DeviceInv, StreamInv
    <3> QED
      BY <1>1, <3>1 DEF DeviceInv
  <2>5. Unheard' = <<>>
    BY <1>10, <2>2
  <2>6. Device!Start
    BY <1>9, <1>10, <2>2, <2>3, <2>5 DEF Device!Start
  <2> QED
    BY <2>4, <2>6 DEF DeviceStep, Device!Next
<1>12. CASE ~call.resume
  <2>1. output' = o /\ stream' = stream
    BY <1>4, <1>7, <1>12 DEF EndFlush, Becomes
  <2>2. running' = FALSE
    BY <1>1, <1>12 DEF Calls
  <2>3. QueueOf(Now)' = <<>>
    <3>1. Now' = s
      BY <1>5, <2>1 DEF Now
    <3> QED
      BY <1>8, <3>1 DEF QueueOf
  <2>4. DeviceInv'
    BY <1>1, <2>1 DEF DeviceInv, StreamInv
  <2>5. Unheard' = <<>>
    BY <1>10, <2>3
  <2> QED
    BY <1>9, <1>10, <2>1, <2>2, <2>4, <2>5 DEF DeviceStep, Stutters
<1> QED
  BY <1>11, <1>12

LEMMA FailRefines == DeviceInv /\ OutputInv' /\ Fail => DeviceInv' /\ DeviceStep
<1> SUFFICES ASSUME DeviceInv, OutputInv', Fail PROVE DeviceInv' /\ DeviceStep
  OBVIOUS
<1>1. /\ call'.at = "closed" /\ running' = FALSE /\ completed' = FALSE
      /\ output'.block = <<>> /\ stream' = NoStream /\ TypeOK' /\ held' = <<>>
  BY DEF Fail, AtLoop, NewOutput, OutputInv
<1>2. stream'.state = "none" /\ stream'.buffer = <<>> /\ stream'.consumed = 0
  BY <1>1 DEF NoStream
<1>3. QueueOf(Now)' = <<>>
  <2>1. Now'.output = output' /\ Now'.stream = stream'
    BY DEF Now
  <2>2. Rest(output') = SubSeq(<<>>, output'.offset + 1, 0) /\ output'.offset = 0
    BY <1>1 DEF Rest, Fail, NewOutput
  <2>3. Rest(output') = <<>>
    BY <2>2
  <2> QED
    BY <1>2, <2>1, <2>3 DEF QueueOf
<1>4. DeviceInv'
  BY <1>1, <1>2 DEF DeviceInv, StreamInv
<1>5. Unheard' = <<>> /\ Playable' = FALSE /\ IsOver' = FALSE
  BY <1>1, <1>3, DeviceShowsNext
<1>6. Device!Flush
  BY <1>2, <1>5 DEF Device!Flush
<1> QED
  BY <1>4, <1>6 DEF DeviceStep, Device!Next

(* The stream changes its state and keeps its PCM. *)
LEMMA StreamMoves ==
    ASSUME DeviceInv, OutputInv', NEW state \in {"Started", "Paused"},
           stream.state \in {"Starting", "Pausing"},
           StreamBecomes([stream EXCEPT !.state = state])
    PROVE  DeviceInv' /\ DeviceStep
<1>1. stream \in Streams /\ TypeOK /\ TypeOK'
  BY DEF DeviceInv, OutputInv, TypeOK
<1>2. /\ stream'.state = state /\ stream'.buffer = stream.buffer /\ stream'.consumed = stream.consumed
      /\ UNCHANGED <<call, running, completed, held, output>>
  BY <1>1 DEF StreamBecomes, Streams
<1>3. Now.output = output /\ Now.stream = stream /\ Now'.output = output' /\ Now'.stream = stream'
  BY DEF Now
<1>4. call.at # "closed"
  BY DEF DeviceInv
<1>5. call.at = "pausing" => PausingInv'
  BY <1>2, <1>3 DEF DeviceInv, PausingInv, IsDrained
<1>6. DeviceInv'
  BY <1>2, <1>4, <1>5 DEF DeviceInv, StreamInv
<1>7. QueueOf(Now)' = QueueOf(Now)
  BY <1>2, <1>3 DEF QueueOf
<1>8. Unheard' = Unheard /\ Playable' = Playable /\ IsOver' = IsOver
  BY <1>1, <1>2, <1>7, DeviceShows, DeviceShowsNext
<1> QED
  BY <1>2, <1>6, <1>8 DEF DeviceStep, Stutters

LEMMA StreamPlaysRefines == DeviceInv /\ OutputInv' /\ StreamPlays => DeviceInv' /\ DeviceStep
<1> SUFFICES ASSUME DeviceInv, OutputInv', StreamPlays PROVE DeviceInv' /\ DeviceStep
  OBVIOUS
<1>1. /\ stream \in Streams /\ stream.buffer \in Seq(Frames) /\ output \in Outputs
      /\ call \in Calls /\ TypeOK /\ TypeOK' /\ running \in BOOLEAN
      /\ stream.state \in {"Started", "Pausing"} /\ stream.buffer # <<>>
  BY DEF StreamPlays, DeviceInv, OutputInv, TypeOK, Streams
<1>2. /\ stream'.state = stream.state /\ stream'.buffer = Tail(stream.buffer)
      /\ stream'.consumed = stream.consumed + 1
      /\ UNCHANGED <<call, running, completed, held, output>>
  BY <1>1 DEF StreamPlays, StreamBecomes, Streams
<1>3. Now.output = output /\ Now.stream = stream /\ Now'.output = output' /\ Now'.stream = stream'
  BY DEF Now
<1>4. running = TRUE /\ call.at \in {"loop", "pausing"}
  <2>1. CASE call.at = "loop"
    <3>1. ~running => Halted
      BY <2>1 DEF DeviceInv, OutputInv, AtLoopInv, LayersAgree
    <3>2. stream.state \in Startable \cup {"none"}
      BY <2>1 DEF DeviceInv, OutputInv, AtLoopInv
    <3> QED
      BY <1>1, <2>1, <3>1, <3>2 DEF Halted, Startable
  <2>2. CASE call.at = "pausing"
    BY <1>1, <2>2 DEF DeviceInv, OutputInv, WaitingInv, PausingInv
  <2>3. CASE call.at = "flushing"
    BY <1>1, <2>3 DEF DeviceInv, OutputInv, WaitingInv, FlushingInv
  <2>4. CASE call.at = "closed"
    BY <1>1, <2>4 DEF DeviceInv
  <2> QED
    BY <1>1, <2>1, <2>2, <2>3, <2>4 DEF Calls
<1>5. call.at = "pausing" => PausingInv'
  BY <1>1, <1>2, <1>3 DEF DeviceInv, PausingInv, IsDrained
<1>6. DeviceInv'
  BY <1>1, <1>2, <1>4, <1>5 DEF DeviceInv, StreamInv
<1>7. PICK b, r : b = stream.buffer /\ r = Rest(output)
  OBVIOUS
<1>8. b \in Seq(Frames) /\ r \in Seq(Frames) /\ b # <<>> /\ held \in Seq(Frames)
  BY <1>1, <1>7, RestType DEF TypeOK
<1>9. Unheard = (b \o r) \o held /\ Unheard' = (Tail(b) \o r) \o held
  <2>1. QueueOf(Now)' = Tail(b) \o r
    BY <1>2, <1>3, <1>7 DEF QueueOf
  <2> QED
    BY <1>1, <1>2, <1>3, <1>4, <1>7, <2>1, DeviceShows, DeviceShowsNext DEF QueueOf
<1>10. Unheard' = Tail(Unheard) /\ Unheard # <<>>
  <2>1. PICK c : c = b \o r
    OBVIOUS
  <2>2. c \in Seq(Frames) /\ c # <<>>
    BY <1>8, <2>1, ConcatEqualIffEmpty
  <2>3. Tail(c) = Tail(b) \o r
    BY <1>8, <2>1, TailOfConcat
  <2>4. Tail(c \o held) = Tail(c) \o held /\ c \o held # <<>>
    BY <1>8, <2>2, TailOfConcat, ConcatEqualIffEmpty
  <2> QED
    BY <1>9, <2>1, <2>3, <2>4
<1>11. Playable = TRUE /\ Playable' = TRUE /\ IsOver' = IsOver
  BY <1>1, <1>2, <1>4, DeviceShows, DeviceShowsNext
<1>12. Device!Hear
  BY <1>2, <1>10, <1>11 DEF Device!Hear
<1> QED
  BY <1>6, <1>12 DEF DeviceStep, Device!Next

LEMMA StreamFlushesRefines == DeviceInv /\ OutputInv' /\ StreamFlushes => DeviceInv' /\ DeviceStep
<1> SUFFICES ASSUME DeviceInv, OutputInv', StreamFlushes PROVE DeviceInv' /\ DeviceStep
  OBVIOUS
<1>1. PICK n \in {0, stream.consumed, stream.consumed + Len(stream.buffer)} :
        StreamBecomes([state |-> "Flushed", buffer |-> <<>>, consumed |-> n])
  BY DEF StreamFlushes
<1>2. stream \in Streams /\ stream.buffer \in Seq(Frames) /\ call \in Calls /\ TypeOK'
      /\ stream.state = "Flushing"
  BY DEF StreamFlushes, DeviceInv, OutputInv, TypeOK, Streams
<1>3. call.at = "flushing"
  BY <1>2 DEF DeviceInv, OutputInv, AtLoopInv, Startable, PausingInv, Calls
<1>4. /\ call' = call /\ held' = held /\ stream'.state = "Flushed" /\ stream'.buffer = <<>>
      /\ stream'.consumed = n
  BY <1>1 DEF StreamBecomes
<1>5. n \in Nat
  BY <1>1, <1>2 DEF Streams
<1>6. DeviceInv'
  BY <1>3, <1>4 DEF DeviceInv, StreamInv
<1>7. Unheard' = <<>> /\ Playable' = FALSE /\ IsOver' = FALSE
  BY <1>2, <1>3, <1>4, DeviceShowsNext
<1>8. Device!Flush
  BY <1>4, <1>5, <1>7 DEF Device!Flush
<1> QED
  BY <1>6, <1>8 DEF DeviceStep, Device!Next

LEMMA DeviceInitial == Init => DeviceInv /\ Device!Init
<1> SUFFICES ASSUME Init PROVE DeviceInv /\ Device!Init
  OBVIOUS
<1>1. OutputInv
  BY InitAgrees
<1>2. /\ call.at = "loop" /\ running = FALSE /\ completed = FALSE /\ held = <<>>
      /\ output.block = <<>> /\ stream.state = "none" /\ stream.buffer = <<>> /\ stream.consumed = 0
  BY DEF Init, AtLoop, NewOutput, NoStream
<1>3. DeviceInv
  BY <1>1, <1>2 DEF DeviceInv, StreamInv
<1>4. QueueOf(Now) = <<>>
  <2>1. Now.output = output /\ Now.stream = stream /\ Fits(Now)
    BY <1>1, NowFits DEF OutputInv, Now
  <2> QED
    BY <1>2, <2>1, QueueType
<1>5. Unheard = <<>> /\ Playable = FALSE /\ IsOver = FALSE
  BY <1>1, <1>2, <1>4, DeviceShows DEF OutputInv
<1> QED
  BY <1>2, <1>3, <1>5 DEF Device!Init

LEMMA DeviceInvStep == DeviceInv /\ [Next]_vars => DeviceInv' /\ DeviceStep
<1> SUFFICES ASSUME DeviceInv, [Next]_vars PROVE DeviceInv' /\ DeviceStep
  OBVIOUS
<1>1. OutputInv'
  BY OutputInvStep DEF DeviceInv
<1>2. CASE WorkerSteps
  <2>1. ASSUME NEW block \in Blocks, Submit(block) PROVE DeviceInv' /\ DeviceStep
    BY <1>1, <2>1, SubmitRefines
  <2> QED
    BY <1>1, <1>2, <2>1, PollRefines, EndPauseRefines, BeginFlushRefines, EndFlushRefines
       DEF WorkerSteps
<1>3. CASE Pause
  BY <1>1, <1>3, BeginNowRefines DEF Pause
<1>4. ASSUME NEW target \in 0 .. FrameCount, NEW resume \in BOOLEAN, Seek(target, resume)
      PROVE  DeviceInv' /\ DeviceStep
  BY <1>1, <1>4, BeginNowRefines DEF Seek
<1>5. CASE StreamSteps
  <2>1. CASE StreamStarts
    BY <1>1, <2>1, StreamMoves DEF StreamStarts
  <2>2. CASE StreamPauses
    BY <1>1, <2>2, StreamMoves DEF StreamPauses
  <2>3. CASE StreamFlushes
    BY <1>1, <2>3, StreamFlushesRefines
  <2> QED
    BY <1>5, <2>1, <2>2, <2>3 DEF StreamSteps
<1>6. CASE UNCHANGED vars
  <2>1. DeviceInv'
    BY <1>1, <1>6 DEF vars, DeviceInv, StreamInv, PausingInv, IsDrained, Now
  <2>2. Stutters
    BY <1>6 DEF vars, Stutters, Unheard, Playable, IsOver, Flushing, Rest
  <2> QED
    BY <2>1, <2>2 DEF DeviceStep
<1> QED
  BY <1>1, <1>2, <1>3, <1>4, <1>5, <1>6,
     StartRefines, CompleteRefines, FailRefines, StreamPlaysRefines DEF Next, Closed

(***************************************************************************)
(* The buffer of the stream, the rest of the pending block and the block   *)
(* the pipeline holds under backpressure are together one FIFO device: the *)
(* pipeline's held block, the deferred output, the Android output and its  *)
(* stream implement AudioDevice.                                           *)
(***************************************************************************)
THEOREM IsADeviceAlways == Spec => IsADevice
<1>1. DeviceInv /\ [Next]_vars => DeviceInv' /\ [Device!Next]_(Device!vars)
  BY DeviceInvStep, StutterIsAStep
<1> QED
  BY DeviceInitial, <1>1, PTL DEF Spec, IsADevice, Device!Spec

=============================================================================
