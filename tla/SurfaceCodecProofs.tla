------------------------- MODULE SurfaceCodecProofs -------------------------
(***************************************************************************)
(* For every track, every platform codec and every number of seeks: the    *)
(* types, the slot that the pending frame and no one else holds, the times *)
(* that survive the codec, calls that do not fail, what the platform is    *)
(* given, and the queue that decoder and codec are together.               *)
(***************************************************************************)
EXTENDS SurfaceCodec, CodecQueueProofs

USE PacketCountAssumption, LeadAssumption, SlotsAssumption, MaxFlushAssumption

-----------------------------------------------------------------------------
(* Types *)

(* The buffers without a picture are outputs, the configuration is input. *)
LEMMA BufferTypes ==
    /\ NoOutput \in Outputs /\ EndOutput \in Outputs /\ ConfigInput \in Inputs
    /\ NoOutput.number = None /\ EndOutput.number = None /\ ConfigInput.number = Config
    /\ None \notin Packets /\ Config \notin Packets /\ Eos \notin Packets
  BY DEF NoOutput, EndOutput, ConfigInput, Outputs, Inputs, Packets, None, Config, Eos

(* The lemmas about codecs apply. *)
LEMMA SurfaceOutputs == IsOutputs(Outputs)
  BY DEF IsOutputs, Outputs

(* What submit may hand to the platform. *)
Loads == {items \in Seq(Inputs) : Len(platform.inputs) + Len(items) <= InputSlots}

(* What submit hands to the platform is typed and fits into its slots. *)
LEMMA QueueType ==
    ASSUME TypeOK, NEW items \in Loads, Queue(items)
    PROVE  /\ platform' = [platform EXCEPT !.inputs = platform.inputs \o items]
           /\ platform' \in Platforms
           /\ Len(platform'.inputs) <= InputSlots /\ Len(platform'.outputs) <= OutputSlots
           /\ fed' \in Seq(Packets \cup {Eos, Config})
  <1>1. items \in Seq(Inputs) /\ Len(platform.inputs) + Len(items) <= InputSlots
    BY DEF Loads
  <1>2. ASSUME NEW i \in 1 .. Len(items)
        PROVE  items[i].number \in Packets \cup {Eos, Config}
    <2>1. items[i] \in Inputs
      BY <1>1
    <2> QED
      BY <2>1 DEF Inputs
  <1>3. [i \in 1 .. Len(items) |-> items[i].number] \in Seq(Packets \cup {Eos, Config})
    BY <1>1, <1>2
  <1>4. fed' \in Seq(Packets \cup {Eos, Config})
    BY <1>3 DEF Queue, TypeOK
  <1>5. platform.inputs \in Seq(Inputs) /\ platform \in Platforms
    BY DEF TypeOK, Platforms
  <1>6. platform.inputs \o items \in Seq(Inputs)
        /\ Len(platform.inputs \o items) = Len(platform.inputs) + Len(items)
    BY <1>1, <1>5
  <1>7. platform' = [platform EXCEPT !.inputs = platform.inputs \o items]
    BY DEF Queue
  <1> QED
    BY <1>1, <1>4, <1>5, <1>6, <1>7 DEF Platforms, TypeOK

(* The configuration, if it is due, and one more item if there is room. *)
LEMMA DueType ==
    ASSUME TypeOK
    PROVE  /\ Due \in Loads
           /\ \A item \in Inputs : HasRoom(Due) => Append(Due, item) \in Loads
           /\ Due = <<>> \/ Due = <<ConfigInput>>
  <1>1. Len(platform.inputs) \in Nat /\ Len(platform.inputs) <= InputSlots
    BY DEF TypeOK, Platforms
  <1>2. CASE Due = <<>>
    BY <1>1, <1>2 DEF HasRoom, Loads
  <1>3. CASE Due = <<ConfigInput>> /\ HasRoom(<<>>)
    BY <1>1, <1>3, BufferTypes DEF HasRoom, Loads
  <1> QED
    BY <1>2, <1>3 DEF Due

(* The codec's record keeps its type when a slot goes back. *)
LEMMA GiveBackType ==
    ASSUME NEW c \in Codecs, NEW token
    PROVE  GiveBack(c) \in Codecs /\ Released(c, token) \in Codecs
  BY BufferTypes DEF GiveBack, Released, Outputs, Codecs

LEMMA TypeInit == Init => TypeOK
  <1> SUFFICES ASSUME Init PROVE TypeOK
    OBVIOUS
  <1> USE DEF Init
  <1>1. codec \in Codecs
    BY BufferTypes DEF Codecs
  <1>2. platform \in Platforms /\ platform.inputs = <<>> /\ platform.outputs = <<>>
    BY DEF Platforms
  <1>3. decoder \in Decoders
    BY DEF Decoders
  <1> QED
    BY <1>1, <1>2, <1>3 DEF TypeOK, None

(* Steps that ask the decoder for a frame, and what becomes of its answer. *)
LEMMA ReceiveType == TypeOK /\ ReceiveStep => TypeOK'
  <1> SUFFICES ASSUME TypeOK, ReceiveStep PROVE TypeOK'
    OBVIOUS
  <1> USE DEF TypeOK
  <1>1. CASE SkipReceive \/ ReceiveNothing
    BY <1>1 DEF SkipReceive, ReceiveNothing
  <1>2. CASE ReceiveFormat
    <2>1. platform' \in Platforms /\ codec' \in Codecs
          /\ platform'.inputs = platform.inputs /\ platform'.outputs = platform.outputs
      BY <1>2 DEF ReceiveFormat, Platforms, Codecs
    <2> QED
      BY <1>2, <2>1 DEF ReceiveFormat
  <1>3. CASE ReceiveEnd
    BY <1>3 DEF ReceiveEnd, EndOfStream
  <1>4. ASSUME BufferReady
        PROVE  /\ Head(platform.outputs) \in Outputs
               /\ Tail(platform.outputs) \in Seq(Outputs)
               /\ Len(Tail(platform.outputs)) <= OutputSlots
    BY <1>4, HeadAndTail DEF BufferReady, Platforms
  <1>5. CASE ReceiveEmpty
    <2>1. BufferReady
      BY <1>5 DEF ReceiveEmpty
    <2>2. platform' \in Platforms /\ platform'.inputs = platform.inputs
          /\ Len(platform'.outputs) <= OutputSlots
      BY <1>4, <1>5, <2>1 DEF ReceiveEmpty, Platforms
    <2>3. codec' \in Codecs
      BY <1>4, <1>5, <2>1 DEF ReceiveEmpty, Codecs, Outputs
    <2> QED
      BY <1>5, <2>2, <2>3 DEF ReceiveEmpty, EndOfStream
  <1>6. ASSUME NEW early \in BOOLEAN, ReceiveFrame(early) PROVE TypeOK'
    <2> DEFINE out == Head(platform.outputs)
               token == <<generation, out.number>>
               holding == [codec EXCEPT !.output = out, !.identity = token, !.started = TRUE]
    <2>1. BufferReady /\ out.number # None
      BY <1>6 DEF ReceiveFrame
    <2>2. out \in Outputs /\ out.number \in Packets /\ out.time \in Nat
      BY <1>4, <2>1 DEF Outputs
    <2>3. token \in Tokens
      BY <2>2 DEF Tokens
    <2>4. holding \in Codecs
      BY <2>2, <2>3 DEF Codecs
    <2>5. codec' \in Codecs
      BY <1>6, <2>4, GiveBackType DEF ReceiveFrame
    <2>6. platform' \in Platforms /\ platform'.inputs = platform.inputs
          /\ Len(platform'.outputs) <= OutputSlots
      BY <1>4, <1>6, <2>1 DEF ReceiveFrame, Platforms
    <2>7. frame' = NoFrame \/ frame' \in [token : Tokens, pts : Int]
      <3>1. CASE decoder.offset = None
        BY <1>6, <3>1 DEF ReceiveFrame
      <3>2. CASE decoder.offset # None
        <4>1. decoder.offset \in Nat
          BY <3>2 DEF Decoders
        <4>2. out.time - decoder.offset \in Int
          BY <2>2, <4>1
        <4>3. frame' = IF early THEN NoFrame
                       ELSE [token |-> token, pts |-> out.time - decoder.offset]
          BY <1>6, <3>2 DEF ReceiveFrame
        <4> QED
          BY <2>3, <4>2, <4>3
      <3> QED
        BY <3>1, <3>2
    <2>8. pc' \in {"impossible", "present"}
      BY <1>6 DEF ReceiveFrame
    <2> QED
      BY <1>6, <2>5, <2>6, <2>7, <2>8 DEF ReceiveFrame
  <1> QED
    BY <1>1, <1>2, <1>3, <1>5, <1>6 DEF ReceiveStep

(* Steps that present, discard or keep a frame. *)
LEMMA FinishType == TypeOK /\ (FinishStep \/ KeepFrame) => TypeOK'
  <1>1. ASSUME TypeOK, NEW render \in BOOLEAN, FinishFrame(render) PROVE TypeOK'
    <2>1. codec' \in Codecs
      BY <1>1, GiveBackType DEF FinishFrame, TypeOK
    <2> QED
      BY <1>1, <2>1 DEF FinishFrame, TypeOK
  <1>2. ASSUME TypeOK, KeepFrame PROVE TypeOK'
    BY <1>2 DEF KeepFrame, TypeOK
  <1> QED
    BY <1>1, <1>2 DEF FinishStep

(* The next input is a packet or the end of the stream, and is taken. *)
LEMMA PulledType ==
    ASSUME TypeOK
    PROVE  /\ NextInput \in Packets \cup {Eos}
           /\ Pulled => source' \in 0 .. PacketCount
  BY DEF TypeOK, NextInput, Pulled, Packets, Eos, None

(* Steps that submit an input to the decoder. *)
LEMMA SubmitType == TypeOK /\ (SubmitStep \/ SubmitNothing) => TypeOK'
  <1> SUFFICES ASSUME TypeOK, SubmitStep \/ SubmitNothing PROVE TypeOK'
    OBVIOUS
  <1>1. CASE SubmitNothing
    BY <1>1 DEF SubmitNothing, TypeOK
  <1>2. CASE GatePacket
    BY <1>2, PulledType DEF GatePacket, TypeOK
  <1>3. CASE SubmitPacket
    <2> DEFINE n == NextInput
               time == Pts(n) + OffsetFor(n)
               queued == ConfigRestored /\ HasRoom(Due) /\ time >= 0
               items == IF queued THEN Append(Due, [number |-> n, time |-> time]) ELSE Due
    <2>1. n \in Packets /\ n \in Int
      BY <1>3 DEF SubmitPacket, Packets
    <2>2. decoder.offset \in Nat \cup {None} /\ OffsetFor(n) \in Nat /\ time \in Int
      BY <2>1 DEF TypeOK, Decoders, OffsetFor, Pts, None
    <2>3. items \in Loads
      <3>1. CASE queued
        <4>1. [number |-> n, time |-> time] \in Inputs
          BY <2>1, <2>2, <3>1 DEF Inputs
        <4> QED
          BY <3>1, <4>1, DueType
      <3>2. CASE ~queued
        BY <3>2, DueType
      <3> QED
        BY <3>1, <3>2
    <2>4. Queue(items)
      BY <1>3 DEF SubmitPacket
    <2>5. decoder' \in Decoders
      BY <1>3, <2>2 DEF SubmitPacket, Decoders, TypeOK, ConfigRestored
    <2>6. source' \in 0 .. PacketCount
      BY <1>3, PulledType DEF SubmitPacket
    <2>7. input' \in Packets \cup {None, Eos} /\ pc' \in {"impossible", "receive"}
      BY <1>3, <2>1 DEF SubmitPacket
    <2> HIDE DEF items
    <2> QED
      BY <1>3, <2>3, <2>4, <2>5, <2>6, <2>7, QueueType DEF SubmitPacket, TypeOK
  <1>4. CASE SubmitEnd
    <2> DEFINE queued == ConfigRestored /\ HasRoom(Due)
               items == IF queued THEN Append(Due, [number |-> Eos, time |-> 0]) ELSE Due
    <2>1. [number |-> Eos, time |-> 0] \in Inputs
      BY DEF Inputs
    <2>2. items \in Loads
      BY <2>1, DueType
    <2>3. Queue(items)
      BY <1>4 DEF SubmitEnd
    <2>4. decoder' \in Decoders
      BY <1>4 DEF SubmitEnd, Decoders, TypeOK, ConfigRestored
    <2>5. codec' \in Codecs
      BY <1>4 DEF SubmitEnd, Codecs, TypeOK, ConfigRestored
    <2>6. /\ input' \in {None, Eos} /\ pc' \in {"impossible", "receive"}
          /\ phase' \in {"Draining", phase}
      BY <1>4 DEF SubmitEnd
    <2> HIDE DEF items
    <2> QED
      BY <1>4, <2>2, <2>3, <2>4, <2>5, <2>6, QueueType DEF SubmitEnd, TypeOK
  <1> QED
    BY <1>1, <1>2, <1>3, <1>4 DEF SubmitStep

(* The demuxer ends, a seek or a failure of the platform. *)
LEMMA ControlType == TypeOK /\ (EndInput \/ Seek \/ Close \/ Closed) => TypeOK'
  <1> SUFFICES ASSUME TypeOK, EndInput \/ Seek \/ Close \/ Closed PROVE TypeOK'
    OBVIOUS
  <1>1. CASE EndInput
    BY <1>1 DEF EndInput, TypeOK
  <1>2. CASE Seek
    <2>1. decoder' \in Decoders /\ codec' \in Codecs
      BY <1>2, BufferTypes DEF Seek, TypeOK, Flushed, FlushCodec, Decoders, Codecs
    <2>2. platform' \in Platforms /\ platform'.inputs = <<>> /\ platform'.outputs = <<>>
      BY <1>2 DEF Seek, TypeOK, FlushPlatform, Platforms
    <2>3. generation' \in 0 .. MaxFlush
      BY <1>2 DEF Seek, TypeOK
    <2>4. /\ pc' \in {"impossible", "receive"} /\ frame' = NoFrame /\ input' = None
          /\ phase' = "Feeding" /\ source' \in 0 .. PacketCount /\ fed' = <<>>
      BY <1>2 DEF Seek
    <2> QED
      BY <2>1, <2>2, <2>3, <2>4 DEF TypeOK
  <1>3. CASE Close
    <2>1. codec' \in Codecs
      BY <1>3, GiveBackType DEF Close, TypeOK
    <2> QED
      BY <1>3, <2>1 DEF Close, TypeOK
  <1>4. CASE Closed
    BY <1>4 DEF Closed, vars, TypeOK
  <1> QED
    BY <1>1, <1>2, <1>3, <1>4

(* The platform decodes. *)
LEMMA PlatformType == TypeOK /\ PlatformDecodes => TypeOK'
  <1> SUFFICES ASSUME TypeOK, PlatformDecodes PROVE TypeOK'
    OBVIOUS
  <1>1. /\ UNCHANGED <<pc, phase, source, input, frame, decoder, codec, generation, fed>>
        /\ platform.inputs # <<>>
    BY DEF PlatformDecodes, DecodeConfig, DecodePacket, DecodeEnd, Decoding
  <1>2. /\ platform \in Platforms /\ Rest \in Seq(Inputs) /\ Len(Rest) <= InputSlots
        /\ Head(platform.inputs) \in Inputs
    BY <1>1, HeadAndTail DEF TypeOK, Platforms, Rest
  <1>3. ASSUME NEW output \in Outputs, Offers(output)
        PROVE  /\ platform' \in Platforms
               /\ Len(platform'.inputs) <= InputSlots /\ Len(platform'.outputs) <= OutputSlots
    <2>1. platform.outputs \in Seq(Outputs) /\ Len(platform.outputs) + 1 <= OutputSlots
      BY <1>2, <1>3 DEF Offers, OutputFree, Held, Platforms
    <2>2. Append(platform.outputs, output) \in Seq(Outputs)
          /\ Len(Append(platform.outputs, output)) <= OutputSlots
      BY <2>1
    <2> QED
      BY <1>2, <1>3, <2>2 DEF Offers, Platforms
  <1>4. /\ platform' \in Platforms
        /\ Len(platform'.inputs) <= InputSlots /\ Len(platform'.outputs) <= OutputSlots
    <2>1. CASE DecodeConfig
      <3>1. CASE Offers(NoOutput)
        BY <1>3, <3>1, BufferTypes
      <3>2. CASE platform' = [platform EXCEPT !.inputs = Rest]
        BY <1>2, <3>2 DEF Platforms, TypeOK
      <3> QED
        BY <2>1, <3>1, <3>2 DEF DecodeConfig
    <2>2. CASE DecodePacket
      <3> DEFINE output == [number |-> Current, time |-> Head(platform.inputs).time,
                            eos |-> FALSE]
      <3>1. CASE platform' = [platform EXCEPT !.format = "changed"]
        BY <1>2, <3>1 DEF Platforms, TypeOK
      <3>2. CASE Offers(output)
        <4>1. output \in Outputs
          BY <1>2, <2>2 DEF DecodePacket, Outputs, Inputs
        <4> HIDE DEF output
        <4> QED
          BY <1>3, <3>2, <4>1
      <3> QED
        BY <2>2, <3>1, <3>2 DEF DecodePacket
    <2>3. CASE DecodeEnd
      <3>1. CASE Offers(EndOutput)
        BY <1>3, <3>1, BufferTypes
      <3>2. CASE /\ platform.outputs # <<>>
                 /\ platform' = [platform EXCEPT !.inputs = Rest, !.outputs = Marked(@)]
        <4>1. platform.outputs \in Seq(Outputs)
          BY <1>2 DEF Platforms
        <4>2. /\ Marked(platform.outputs) \in Seq(Outputs)
              /\ Len(Marked(platform.outputs)) = Len(platform.outputs)
          BY <3>2, <4>1, MarkFacts, SurfaceOutputs
        <4>3. Len(platform.outputs) <= OutputSlots
          BY DEF TypeOK
        <4> QED
          BY <1>2, <3>2, <4>2, <4>3 DEF Platforms
      <3> QED
        BY <2>3, <3>1, <3>2 DEF DecodeEnd
    <2> QED
      BY <2>1, <2>2, <2>3 DEF PlatformDecodes
  <1> QED
    BY <1>1, <1>4 DEF TypeOK

LEMMA TypeStep == TypeOK /\ [Next]_vars => TypeOK'
  <1>1. TypeOK /\ UNCHANGED vars => TypeOK'
    BY DEF TypeOK, vars
  <1> QED
    BY <1>1, ReceiveType, FinishType, SubmitType, ControlType, PlatformType
       DEF Next, WorkerSteps

(***************************************************************************)
(* Type correctness: the platform is never given more than it has slots,   *)
(* and the state of decoder, codec and frame is one the code can be in.    *)
(***************************************************************************)
THEOREM TypeCorrect == Spec => []TypeOK
  BY TypeInit, TypeStep, PTL DEF Spec

-----------------------------------------------------------------------------
(* The slot of the pending frame *)

(* The steps that leave codec, frame and generation alone leave the slot alone. *)
LEMMA TokenKept ==
    ASSUME TokenNamesSlot, UNCHANGED <<frame, generation>>,
           codec'.identity = codec.identity, codec'.output = codec.output,
           pc # "closed"
    PROVE  TokenNamesSlot'
  BY DEF TokenNamesSlot, NoFrame, NoOutput

LEMMA TokenInit == Init => TokenNamesSlot
  BY DEF Init, TokenNamesSlot, NoFrame, NoOutput

(* A released slot is nobody's, in the codec as in the pipeline. *)
LEMMA GivenBack ==
    ASSUME NEW c \in Codecs
    PROVE  GiveBack(c).identity = <<>> /\ GiveBack(c).output = NoOutput
  BY DEF GiveBack, Codecs

LEMMA TokenStep == TypeOK /\ TokenNamesSlot /\ [Next]_vars => TokenNamesSlot'
  <1> SUFFICES ASSUME TypeOK, TokenNamesSlot, [Next]_vars PROVE TokenNamesSlot'
    OBVIOUS
  <1> codec \in Codecs
    BY DEF TypeOK
  <1>1. CASE SkipReceive \/ ReceiveNothing \/ ReceiveEnd \/ KeepFrame \/ SubmitNothing
              \/ GatePacket \/ SubmitPacket \/ EndInput
    <2>1. UNCHANGED <<codec, frame, generation>> /\ pc # "closed"
      BY <1>1 DEF SkipReceive, ReceiveNothing, ReceiveEnd, KeepFrame, SubmitNothing, GatePacket,
                  SubmitPacket, EndInput, Receiving, Submitting
    <2> QED
      BY <2>1, TokenKept
  <1>2. CASE ReceiveFormat \/ ReceiveEmpty \/ SubmitEnd
    <2>1. UNCHANGED <<frame, generation>> /\ pc # "closed"
      BY <1>2 DEF ReceiveFormat, ReceiveEmpty, SubmitEnd, BufferReady, Polling, Receiving,
                  Submitting
    <2>2. codec'.identity = codec.identity /\ codec'.output = codec.output
      BY <1>2 DEF ReceiveFormat, ReceiveEmpty, SubmitEnd, Codecs
    <2> QED
      BY <2>1, <2>2, TokenKept
  <1>3. ASSUME NEW early \in BOOLEAN, ReceiveFrame(early) PROVE TokenNamesSlot'
    <2> DEFINE out == Head(platform.outputs)
               token == <<generation, out.number>>
               holding == [codec EXCEPT !.output = out, !.identity = token, !.started = TRUE]
    <2>1. frame = NoFrame /\ platform.outputs # <<>> /\ generation' = generation
      BY <1>3 DEF ReceiveFrame, BufferReady, Polling, Receiving
    <2>2. out \in Outputs /\ out.number \in Packets
      <3>1. out \in Outputs
        BY <2>1, HeadAndTail DEF TypeOK, Platforms
      <3>2. out.number # None
        BY <1>3 DEF ReceiveFrame
      <3> QED
        BY <3>1, <3>2 DEF Outputs
    <2>3. holding \in Codecs /\ holding.identity = token /\ holding.output = out
      <3>1. token \in Tokens
        BY <2>2 DEF Tokens, TypeOK
      <3> QED
        BY <2>2, <3>1 DEF Codecs
    <2>4. CASE frame' = NoFrame /\ codec' = GiveBack(holding)
      <3>1. codec'.identity = <<>> /\ codec'.output = NoOutput
        BY <2>3, <2>4, GivenBack
      <3> QED
        BY <2>4, <3>1 DEF TokenNamesSlot, NoFrame
    <2>5. CASE /\ codec' = holding
               /\ frame' = [token |-> token, pts |-> out.time - decoder.offset]
      <3>1. frame'.token = token /\ codec'.identity = token /\ codec'.output.number = out.number
        BY <2>3, <2>5
      <3>2. frame' # NoFrame
        BY <3>1 DEF NoFrame
      <3> QED
        BY <2>1, <3>1, <3>2 DEF TokenNamesSlot
    <2> QED
      BY <1>3, <2>1, <2>4, <2>5 DEF ReceiveFrame
  <1>4. ASSUME NEW render \in BOOLEAN, FinishFrame(render) PROVE TokenNamesSlot'
    <2>1. codec' = GiveBack(codec) /\ frame' = NoFrame
      BY <1>4 DEF FinishFrame, Released, IsStale, TokenNamesSlot
    <2>2. codec'.identity = <<>> /\ codec'.output = NoOutput
      BY <2>1, GivenBack
    <2> QED
      BY <2>1, <2>2 DEF TokenNamesSlot, NoFrame
  <1>5. CASE Seek
    <2>1. codec'.identity = <<>> /\ codec'.output = NoOutput /\ frame' = NoFrame
      BY <1>5 DEF Seek, FlushCodec, Codecs
    <2> QED
      BY <2>1 DEF TokenNamesSlot, NoFrame
  <1>6. CASE Close
    BY <1>6 DEF Close, TokenNamesSlot
  <1>7. CASE PlatformDecodes \/ Closed \/ UNCHANGED vars
    <2>1. UNCHANGED <<pc, codec, frame, generation>>
      BY <1>7 DEF PlatformDecodes, DecodeConfig, DecodePacket, DecodeEnd, Closed, vars
    <2> QED
      BY <2>1 DEF TokenNamesSlot, NoFrame, NoOutput
  <1> QED
    BY <1>1, <1>2, <1>3, <1>4, <1>5, <1>6, <1>7
       DEF Next, WorkerSteps, ReceiveStep, FinishStep, SubmitStep

(***************************************************************************)
(* The slot the codec has given out is the pending frame's, and a slot     *)
(* that is out has a frame: no release goes to another's slot, and none is *)
(* forgotten, whatever is sought and whichever frames are discarded.       *)
(***************************************************************************)
THEOREM TokenNamesSlotAlways == Spec => []TokenNamesSlot
  <1>1. Init => TypeOK /\ TokenNamesSlot
    BY TypeInit, TokenInit
  <1>2. (TypeOK /\ TokenNamesSlot) /\ [Next]_vars => (TypeOK /\ TokenNamesSlot)'
    BY TypeStep, TokenStep
  <1> QED
    BY <1>1, <1>2, PTL DEF Spec

-----------------------------------------------------------------------------
(* The times of the packets inside *)

(***************************************************************************)
(* A buffer with a picture carries the time of its packet, shifted by the  *)
(* offset of the run; without an offset there is no such buffer.           *)
(***************************************************************************)
Carries(o, offset) ==
    o.number \in Packets => offset # None /\ o.time = Pts(o.number) + offset

AllCarry(q, offset) == \A i \in 1 .. Len(q) : Carries(q[i], offset)

TimesInv ==
    /\ AllCarry(platform.inputs, decoder.offset)
    /\ AllCarry(platform.outputs, decoder.offset)
    /\ TimesSurvive

(* What is taken from a queue of such buffers, and what is added to one. *)
LEMMA CarryQueue ==
    ASSUME NEW S, NEW q \in Seq(S), NEW offset, AllCarry(q, offset)
    PROVE  /\ q # <<>> => Carries(Head(q), offset) /\ AllCarry(Tail(q), offset)
           /\ \A o \in S : Carries(o, offset) => AllCarry(Append(q, o), offset)
  <1>1. ASSUME q # <<>> PROVE Carries(Head(q), offset) /\ AllCarry(Tail(q), offset)
    <2>1. Head(q) = q[1] /\ Len(q) \in Nat \ {0} /\ Len(Tail(q)) = Len(q) - 1
          /\ \A i \in 1 .. Len(q) - 1 : Tail(q)[i] = q[i + 1]
      BY <1>1, HeadAndTail
    <2>2. \A i \in 1 .. Len(Tail(q)) : Carries(Tail(q)[i], offset)
      <3> TAKE i \in 1 .. Len(Tail(q))
      <3>1. Tail(q)[i] = q[i + 1] /\ i + 1 \in 1 .. Len(q)
        BY <2>1
      <3> QED
        BY <3>1 DEF AllCarry
    <2> QED
      BY <2>1, <2>2 DEF AllCarry
  <1>2. ASSUME NEW o \in S, Carries(o, offset) PROVE AllCarry(Append(q, o), offset)
    <2>1. Len(Append(q, o)) = Len(q) + 1 /\ Len(q) \in Nat
      OBVIOUS
    <2>2. ASSUME NEW i \in 1 .. Len(q) + 1 PROVE Carries(Append(q, o)[i], offset)
      <3>1. CASE i \in 1 .. Len(q)
        <4>1. Append(q, o)[i] = q[i]
          BY <3>1
        <4> QED
          BY <3>1, <4>1 DEF AllCarry
      <3>2. CASE i = Len(q) + 1
        <4>1. Append(q, o)[i] = o
          BY <3>2
        <4> QED
          BY <1>2, <4>1
      <3> QED
        BY <2>1, <3>1, <3>2
    <2> QED
      BY <2>1, <2>2 DEF AllCarry
  <1> QED
    BY <1>1, <1>2

(* The same of two queues: what submit adds to what the platform holds. *)
LEMMA CarryConcat ==
    ASSUME NEW S, NEW q \in Seq(S), NEW r \in Seq(S), NEW offset,
           AllCarry(q, offset), AllCarry(r, offset)
    PROVE  AllCarry(q \o r, offset)
  <1>1. Len(q \o r) = Len(q) + Len(r) /\ Len(q) \in Nat /\ Len(r) \in Nat
    OBVIOUS
  <1>2. ASSUME NEW i \in 1 .. Len(q) + Len(r) PROVE Carries((q \o r)[i], offset)
    <2>1. CASE i <= Len(q)
      <3>1. (q \o r)[i] = q[i] /\ i \in 1 .. Len(q)
        BY <1>1, <2>1
      <3> QED
        BY <3>1 DEF AllCarry
    <2>2. CASE i > Len(q)
      <3>1. (q \o r)[i] = r[i - Len(q)] /\ i - Len(q) \in 1 .. Len(r)
        BY <1>1, <2>2
      <3> QED
        BY <3>1 DEF AllCarry
    <2> QED
      BY <1>1, <2>1, <2>2
  <1> QED
    BY <1>1, <1>2 DEF AllCarry

(***************************************************************************)
(* A first packet fixes the offset, which is then kept: map_input_timestamp*)
(* changes no time of what is inside already.                              *)
(***************************************************************************)
LEMMA OffsetKept ==
    ASSUME TypeOK, NEW q, NEW n \in Packets, AllCarry(q, decoder.offset)
    PROVE  AllCarry(q, OffsetFor(n)) /\ OffsetFor(n) # None
  <1>1. decoder.offset \in Nat \cup {None} /\ Pts(n) \in Int
    BY DEF TypeOK, Decoders, Pts, Packets
  <1>2. CASE decoder.offset = None
    <2>1. \A i \in 1 .. Len(q) : q[i].number \notin Packets
      BY <1>2 DEF AllCarry, Carries
    <2>2. OffsetFor(n) # None
      BY <1>1, <1>2 DEF OffsetFor, None
    <2> QED
      BY <2>1, <2>2 DEF AllCarry, Carries
  <1>3. CASE decoder.offset # None
    BY <1>3 DEF OffsetFor
  <1> QED
    BY <1>2, <1>3

LEMMA TimesInit == Init => TimesInv
  BY DEF Init, TimesInv, AllCarry, TimesSurvive

(* The picture received has the time of its packet. *)
LEMMA TimesReceive == TypeOK /\ TimesInv /\ ReceiveStep => TimesInv'
  <1> SUFFICES ASSUME TypeOK, TimesInv, ReceiveStep PROVE TimesInv'
    OBVIOUS
  <1> DEFINE out == Head(platform.outputs)
             token == <<generation, out.number>>
  <1>1. platform.outputs \in Seq(Outputs) /\ platform \in Platforms
    BY DEF TypeOK, Platforms
  <1>2. CASE SkipReceive \/ ReceiveNothing \/ ReceiveFormat \/ ReceiveEnd
    <2>1. /\ platform'.inputs = platform.inputs /\ platform'.outputs = platform.outputs
          /\ UNCHANGED <<decoder, frame>>
      BY <1>1, <1>2 DEF SkipReceive, ReceiveNothing, ReceiveFormat, ReceiveEnd, Platforms
    <2> QED
      BY <2>1 DEF TimesInv, TimesSurvive
  <1>3. CASE ReceiveEmpty \/ \E early \in BOOLEAN : ReceiveFrame(early)
    <2>1. /\ platform' = [platform EXCEPT !.outputs = Tail(@), !.answered = TRUE]
          /\ platform.outputs # <<>> /\ UNCHANGED decoder
      BY <1>3 DEF ReceiveEmpty, ReceiveFrame, BufferReady
    <2>2. platform'.inputs = platform.inputs /\ platform'.outputs = Tail(platform.outputs)
      BY <1>1, <2>1 DEF Platforms
    <2>3. Carries(out, decoder.offset) /\ AllCarry(Tail(platform.outputs), decoder.offset)
      BY <1>1, <2>1, CarryQueue DEF TimesInv
    <2>4. TimesSurvive'
      <3>1. CASE frame' = frame
        BY <3>1 DEF TimesInv, TimesSurvive
      <3>2. CASE frame' = NoFrame
        BY <3>2 DEF TimesSurvive
      <3>3. CASE /\ frame' = [token |-> token, pts |-> out.time - decoder.offset]
                 /\ decoder.offset # None /\ out.number # None
        <4>1. out \in Outputs
          BY <1>1, <2>1, HeadAndTail
        <4>2. /\ out.number \in Packets /\ out.number \in Int
              /\ decoder.offset \in Nat
          BY <3>3, <4>1 DEF Outputs, Packets, TypeOK, Decoders
        <4>3. out.time - decoder.offset = Pts(out.number)
          BY <2>3, <4>2 DEF Carries, Pts
        <4>4. frame'.token[2] = out.number /\ frame'.pts = Pts(out.number)
          BY <3>3, <4>3
        <4> QED
          BY <4>4 DEF TimesSurvive, Pts
      <3> QED
        BY <1>3, <3>1, <3>2, <3>3 DEF ReceiveEmpty, ReceiveFrame
    <2> QED
      BY <2>1, <2>2, <2>3, <2>4 DEF TimesInv
  <1> QED
    BY <1>2, <1>3 DEF ReceiveStep

(* What is submitted carries its time, shifted. *)
LEMMA TimesSubmit == TypeOK /\ TimesInv /\ (SubmitStep \/ SubmitNothing) => TimesInv'
  <1> SUFFICES ASSUME TypeOK, TimesInv, SubmitStep \/ SubmitNothing PROVE TimesInv'
    OBVIOUS
  <1>1. ASSUME NEW items \in Loads, Queue(items), NEW offset,
               AllCarry(platform.inputs, offset), AllCarry(items, offset)
        PROVE  AllCarry(platform'.inputs, offset) /\ platform'.outputs = platform.outputs
    <2>1. /\ platform' = [platform EXCEPT !.inputs = platform.inputs \o items]
          /\ platform \in Platforms
      BY <1>1, QueueType DEF TypeOK
    <2>2. items \in Seq(Inputs) /\ platform.inputs \in Seq(Inputs)
      BY <2>1 DEF Loads, Platforms
    <2>3. AllCarry(platform.inputs \o items, offset)
      BY <1>1, <2>2, CarryConcat
    <2> QED
      BY <2>1, <2>3 DEF Platforms
  <1>2. ASSUME NEW offset PROVE AllCarry(Due, offset)
    BY DueType, BufferTypes DEF AllCarry, Carries
  <1>3. CASE GatePacket \/ SubmitNothing
    BY <1>3 DEF GatePacket, SubmitNothing, TimesInv, TimesSurvive
  <1>4. CASE SubmitPacket
    <2> DEFINE n == NextInput
               time == Pts(n) + OffsetFor(n)
               queued == ConfigRestored /\ HasRoom(Due) /\ time >= 0
               item == [number |-> n, time |-> time]
               items == IF queued THEN Append(Due, item) ELSE Due
               offset == IF ConfigRestored THEN OffsetFor(n) ELSE decoder.offset
    <2>1. n \in Packets /\ Queue(items) /\ decoder'.offset = offset /\ frame' = frame
      BY <1>4 DEF SubmitPacket
    <2>2. /\ AllCarry(platform.inputs, offset) /\ AllCarry(platform.outputs, offset)
          /\ OffsetFor(n) # None
      BY <2>1, OffsetKept DEF TimesInv
    <2>3. items \in Loads /\ AllCarry(items, offset)
      <3>1. CASE queued
        <4>1. item \in Inputs
          BY <2>1, <3>1 DEF Inputs, OffsetFor, Pts, Packets, TypeOK, Decoders, None
        <4>2. Due \in Seq(Inputs) /\ Append(Due, item) \in Loads
          BY <3>1, <4>1, DueType DEF Loads
        <4>3. Carries(item, offset)
          BY <2>2, <3>1 DEF Carries
        <4> QED
          BY <1>2, <3>1, <4>1, <4>2, <4>3, CarryQueue
      <3>2. CASE ~queued
        BY <1>2, <3>2, DueType
      <3> QED
        BY <3>1, <3>2
    <2> HIDE DEF items, offset
    <2> QED
      BY <1>1, <2>1, <2>2, <2>3 DEF TimesInv, TimesSurvive
  <1>5. CASE SubmitEnd
    <2> DEFINE item == [number |-> Eos, time |-> 0]
               items == IF ConfigRestored /\ HasRoom(Due) THEN Append(Due, item) ELSE Due
    <2>1. Queue(items) /\ frame' = frame
      BY <1>5 DEF SubmitEnd
    <2>2. decoder'.offset = decoder.offset
      BY <1>5 DEF SubmitEnd, TypeOK, Decoders
    <2>3. item \in Inputs /\ Carries(item, decoder.offset)
      BY BufferTypes DEF Inputs, Carries
    <2>4. items \in Loads /\ AllCarry(items, decoder.offset)
      <3>1. Due \in Seq(Inputs) /\ items \in Loads
        BY <2>3, DueType DEF Loads
      <3> QED
        BY <1>2, <2>3, <3>1, CarryQueue
    <2> HIDE DEF items
    <2> QED
      BY <1>1, <2>1, <2>2, <2>4 DEF TimesInv, TimesSurvive
  <1> QED
    BY <1>3, <1>4, <1>5 DEF SubmitStep

(* The platform passes the time of an input on to its output. *)
LEMMA TimesPlatform == TypeOK /\ TimesInv /\ PlatformDecodes => TimesInv'
  <1> SUFFICES ASSUME TypeOK, TimesInv, PlatformDecodes PROVE TimesInv'
    OBVIOUS
  <1>1. UNCHANGED <<decoder, frame>> /\ platform.inputs # <<>>
    BY DEF PlatformDecodes, DecodeConfig, DecodePacket, DecodeEnd, Decoding
  <1>2. /\ platform \in Platforms /\ platform.inputs \in Seq(Inputs)
        /\ platform.outputs \in Seq(Outputs)
        /\ Head(platform.inputs) \in Inputs
    BY <1>1, HeadAndTail DEF TypeOK, Platforms
  <1>3. Carries(Head(platform.inputs), decoder.offset) /\ AllCarry(Rest, decoder.offset)
    BY <1>1, <1>2, CarryQueue DEF TimesInv, Rest
  <1>4. ASSUME NEW output \in Outputs, Offers(output), Carries(output, decoder.offset)
        PROVE  TimesInv'
    <2>1. platform'.inputs = Rest /\ platform'.outputs = Append(platform.outputs, output)
      BY <1>2, <1>4 DEF Offers, Platforms
    <2>2. AllCarry(Append(platform.outputs, output), decoder.offset)
      BY <1>2, <1>4, CarryQueue DEF TimesInv
    <2> QED
      BY <1>1, <1>3, <2>1, <2>2 DEF TimesInv, TimesSurvive
  <1>5. CASE \/ DecodeConfig /\ platform' = [platform EXCEPT !.inputs = Rest]
             \/ DecodePacket /\ platform' = [platform EXCEPT !.format = "changed"]
    <2>1. platform'.inputs \in {Rest, platform.inputs} /\ platform'.outputs = platform.outputs
      BY <1>2, <1>5 DEF Platforms
    <2> QED
      BY <1>1, <1>3, <2>1 DEF TimesInv, TimesSurvive
  <1>6. CASE Offers(NoOutput) \/ Offers(EndOutput)
    <2>1. Carries(NoOutput, decoder.offset) /\ Carries(EndOutput, decoder.offset)
      BY BufferTypes DEF Carries
    <2> QED
      BY <1>4, <1>6, <2>1, BufferTypes
  <1>7. CASE /\ Current \in Packets
             /\ Offers([number |-> Current, time |-> Head(platform.inputs).time, eos |-> FALSE])
    <2> DEFINE output == [number |-> Current, time |-> Head(platform.inputs).time,
                          eos |-> FALSE]
    <2>1. output \in Outputs
      BY <1>2, <1>7 DEF Outputs, Inputs
    <2>2. Carries(output, decoder.offset)
      BY <1>3, <1>7 DEF Carries, Current
    <2> HIDE DEF output
    <2> QED
      BY <1>4, <1>7, <2>1, <2>2 DEF output
  <1>8. CASE /\ platform.outputs # <<>>
             /\ platform' = [platform EXCEPT !.inputs = Rest, !.outputs = Marked(@)]
    <2> DEFINE k == Len(platform.outputs)
               marked == Marked(platform.outputs)
    <2>1. /\ Len(marked) = k /\ k \in Nat \ {0} /\ platform.outputs[k] \in Outputs
          /\ \A i \in 1 .. k - 1 : marked[i] = platform.outputs[i]
          /\ marked[k] = [platform.outputs[k] EXCEPT !.eos = TRUE]
      BY <1>2, <1>8, MarkFacts, SurfaceOutputs
    <2>2. marked[k].number = platform.outputs[k].number /\ marked[k].time = platform.outputs[k].time
      BY <2>1 DEF Outputs
    <2> HIDE DEF marked
    <2>3. ASSUME NEW i \in 1 .. k PROVE Carries(marked[i], decoder.offset)
      <3>1. Carries(platform.outputs[i], decoder.offset)
        BY DEF TimesInv, AllCarry
      <3>2. i \in 1 .. k - 1 \/ i = k
        BY <2>1
      <3> QED
        BY <2>1, <2>2, <3>1, <3>2 DEF Carries
    <2>4. AllCarry(marked, decoder.offset)
      BY <2>1, <2>3 DEF AllCarry
    <2>5. platform'.inputs = Rest /\ platform'.outputs = marked
      BY <1>2, <1>8 DEF Platforms, marked
    <2> QED
      BY <1>1, <1>3, <2>4, <2>5 DEF TimesInv, TimesSurvive
  <1> QED
    BY <1>5, <1>6, <1>7, <1>8 DEF PlatformDecodes, DecodeConfig, DecodePacket, DecodeEnd

LEMMA TimesStep == TypeOK /\ TimesInv /\ [Next]_vars => TimesInv'
  <1> SUFFICES ASSUME TypeOK, TimesInv, [Next]_vars PROVE TimesInv'
    OBVIOUS
  <1>1. CASE FinishStep \/ Close
    BY <1>1 DEF FinishStep, FinishFrame, Close, TimesInv, TimesSurvive
  <1>2. CASE KeepFrame \/ EndInput \/ Closed \/ UNCHANGED vars
    BY <1>2 DEF KeepFrame, EndInput, Closed, vars, TimesInv, TimesSurvive
  <1>3. CASE Seek
    <2>1. platform'.inputs = <<>> /\ platform'.outputs = <<>> /\ frame' = NoFrame
      BY <1>3 DEF Seek, FlushPlatform
    <2> QED
      BY <2>1 DEF TimesInv, AllCarry, TimesSurvive
  <1> QED
    BY <1>1, <1>2, <1>3, TimesReceive, TimesSubmit, TimesPlatform DEF Next, WorkerSteps

(***************************************************************************)
(* A frame has the time of the packet it was decoded from, wherever the    *)
(* track begins and wherever it is sought.                                 *)
(***************************************************************************)
THEOREM TimesSurviveAlways == Spec => []TimesSurvive
  <1>1. Init => TypeOK /\ TimesInv
    BY TypeInit, TimesInit
  <1>2. (TypeOK /\ TimesInv) /\ [Next]_vars => (TypeOK /\ TimesInv)'
    BY TypeStep, TimesStep
  <1>3. TypeOK /\ TimesInv => TimesSurvive
    BY DEF TimesInv
  <1> QED
    BY <1>1, <1>2, <1>3, PTL DEF Spec

-----------------------------------------------------------------------------
(* No error without a fault of the platform *)

(***************************************************************************)
(* The end of the stream is in the codec only when it was submitted, and   *)
(* then the branch is draining or drained.                                 *)
(***************************************************************************)
EndInv ==
    /\ codec.eosQueued => phase \in {"Draining", "DecoderDrained"}
    /\ codec.eosSeen \/ codec.output.eos => codec.eosQueued
    /\ \A i \in 1 .. Len(platform.inputs) : platform.inputs[i].number = Eos => codec.eosQueued
    /\ \A i \in 1 .. Len(platform.outputs) : platform.outputs[i].eos => codec.eosQueued

(***************************************************************************)
(* The packets still to come are not before the one that fixed the offset, *)
(* so none of them has a time below zero.                                  *)
(***************************************************************************)
OffsetInv ==
    /\ input \in Packets => input < source
    /\ decoder.offset # None =>
        /\ Pts(source) + decoder.offset >= 0
        /\ input \in Packets => Pts(input) + decoder.offset >= 0

(* Packets come in the order of their presentation times. *)
LEMMA PtsOrder == \A m, n \in Int : Pts(n) \in Int /\ (m < n => Pts(m) < Pts(n))
  BY DEF Pts

(* The pending input or the next packet of the demuxer. *)
LEMMA NextPacket ==
    ASSUME TypeOK, OffsetInv, NextInput \in Packets, Pulled
    PROVE  /\ \/ NextInput = input /\ source' = source
              \/ NextInput = source /\ source' = source + 1
           /\ NextInput < source' /\ source' \in 0 .. PacketCount
           /\ Pts(NextInput) + OffsetFor(NextInput) >= 0
           /\ Pts(source') + OffsetFor(NextInput) >= 0
  <1>1. /\ \/ NextInput = input /\ source' = source
           \/ NextInput = source /\ source' = source + 1
        /\ NextInput < source' /\ source' \in 0 .. PacketCount
    BY DEF NextInput, Pulled, OffsetInv, TypeOK, Packets, Eos, None
  <1>2. decoder.offset \in Nat \cup {None} /\ source \in Int /\ NextInput \in Int
    BY DEF TypeOK, Decoders, Packets
  <1>3. CASE decoder.offset # None
    BY <1>1, <1>2, <1>3 DEF OffsetInv, OffsetFor, Pts
  <1>4. CASE decoder.offset = None
    <2>1. OffsetFor(NextInput) = IF Pts(NextInput) < 0 THEN -Pts(NextInput) ELSE 0
      BY <1>4 DEF OffsetFor
    <2>2. Pts(NextInput) \in Int /\ Pts(source') \in Int /\ Pts(NextInput) < Pts(source')
      <3>1. NextInput \in Int /\ source' \in Int /\ NextInput < source'
        BY <1>1, <1>2
      <3> QED
        BY <3>1, PtsOrder
    <2>3. OffsetFor(NextInput) \in Nat /\ Pts(NextInput) + OffsetFor(NextInput) >= 0
      BY <2>1, <2>2
    <2> QED
      BY <1>1, <2>2, <2>3
  <1> QED
    BY <1>1, <1>3, <1>4

LEMMA OffsetStep == TypeOK /\ OffsetInv /\ [Next]_vars => OffsetInv'
  <1> SUFFICES ASSUME TypeOK, OffsetInv, [Next]_vars PROVE OffsetInv'
    OBVIOUS
  <1>1. CASE UNCHANGED <<source, input, decoder>>
    BY <1>1 DEF OffsetInv, Pts
  <1>2. CASE GatePacket
    <2>1. /\ source' \in {source, source + 1} /\ input' = None /\ decoder' = decoder
      BY <1>2 DEF GatePacket, Pulled
    <2>2. source \in Int /\ input' \notin Packets
      BY <2>1, BufferTypes DEF TypeOK
    <2>3. ASSUME decoder.offset # None PROVE Pts(source') + decoder.offset >= 0
      <3>1. decoder.offset \in Nat /\ Pts(source) + decoder.offset >= 0
        BY <2>3 DEF TypeOK, Decoders, OffsetInv
      <3> QED
        BY <2>1, <2>2, <3>1 DEF Pts
    <2> QED
      BY <2>1, <2>2, <2>3 DEF OffsetInv
  <1>3. CASE SubmitPacket
    <2> DEFINE n == NextInput
    <2>1. /\ n \in Packets /\ Pulled /\ input' \in {None, n}
          /\ decoder'.offset = IF ConfigRestored THEN OffsetFor(n) ELSE decoder.offset
      BY <1>3 DEF SubmitPacket
    <2>2. /\ (n = input /\ source' = source) \/ (n = source /\ source' = source + 1)
          /\ n < source' /\ Pts(n) + OffsetFor(n) >= 0 /\ Pts(source') + OffsetFor(n) >= 0
      BY <2>1, NextPacket
    <2>3. decoder.offset # None => OffsetFor(n) = decoder.offset
      BY DEF OffsetFor
    <2>4. None \notin Packets
      BY BufferTypes
    <2> QED
      BY <2>1, <2>2, <2>3, <2>4 DEF OffsetInv, Pts
  <1>4. CASE SubmitEnd
    <2>1. input' \notin Packets /\ source' = source /\ decoder'.offset = decoder.offset
      BY <1>4, BufferTypes DEF SubmitEnd, TypeOK, Decoders
    <2> QED
      BY <2>1 DEF OffsetInv, Pts
  <1>5. CASE Seek
    <2>1. input' \notin Packets /\ decoder'.offset = None
      BY <1>5, BufferTypes DEF Seek, Flushed
    <2> QED
      BY <2>1 DEF OffsetInv
  <1> QED
    BY <1>1, <1>2, <1>3, <1>4, <1>5
       DEF Next, WorkerSteps, ReceiveStep, FinishStep, SubmitStep, PlatformDecodes, vars,
           SkipReceive, ReceiveNothing, ReceiveFormat, ReceiveEnd, ReceiveEmpty, ReceiveFrame,
           FinishFrame, KeepFrame, SubmitNothing, EndInput, DecodeConfig, DecodePacket,
           DecodeEnd, Close, Closed

(* A slot that goes back leaves its end mark behind. *)
LEMMA GiveBackEnd ==
    ASSUME NEW c \in Codecs
    PROVE  /\ GiveBack(c).eosQueued = c.eosQueued /\ ~GiveBack(c).output.eos
           /\ GiveBack(c).eosSeen => c.eosSeen \/ c.output.eos
  BY DEF GiveBack, Codecs, Outputs, NoOutput

LEMMA EndStep == TypeOK /\ EndInv /\ [Next]_vars => EndInv'
  <1> SUFFICES ASSUME TypeOK, EndInv, [Next]_vars PROVE EndInv'
    OBVIOUS
  <1>t. /\ codec \in Codecs /\ platform \in Platforms
        /\ platform.inputs \in Seq(Inputs) /\ platform.outputs \in Seq(Outputs)
    BY DEF TypeOK, Platforms
  <1>1. CASE UNCHANGED <<codec, phase, platform>>
    BY <1>1 DEF EndInv
  <1>2. CASE ReceiveFormat
    <2>1. /\ platform'.inputs = platform.inputs /\ platform'.outputs = platform.outputs
          /\ codec'.eosQueued = codec.eosQueued /\ codec'.eosSeen = codec.eosSeen
          /\ codec'.output = codec.output /\ phase' = phase
      BY <1>2, <1>t DEF ReceiveFormat, Platforms, Codecs
    <2> QED
      BY <2>1 DEF EndInv
  <1>3. CASE ReceiveEnd
    BY <1>3 DEF ReceiveEnd, EndOfStream, EndInv
  <1>4. ASSUME platform.outputs # <<>>,
               platform' = [platform EXCEPT !.outputs = Tail(@), !.answered = TRUE]
        PROVE  /\ platform'.inputs = platform.inputs
               /\ Head(platform.outputs) \in Outputs
               /\ Head(platform.outputs).eos => codec.eosQueued
               /\ \A i \in 1 .. Len(platform'.outputs) :
                    platform'.outputs[i].eos => codec.eosQueued
    <2>1. platform'.inputs = platform.inputs /\ platform'.outputs = Tail(platform.outputs)
      BY <1>4, <1>t DEF Platforms
    <2>2. /\ Head(platform.outputs) = platform.outputs[1] /\ Len(platform.outputs) \in Nat \ {0}
          /\ Len(Tail(platform.outputs)) = Len(platform.outputs) - 1
          /\ Head(platform.outputs) \in Outputs
          /\ \A i \in 1 .. Len(platform.outputs) - 1 :
                Tail(platform.outputs)[i] = platform.outputs[i + 1]
      BY <1>4, <1>t, HeadAndTail
    <2>3. ASSUME NEW i \in 1 .. Len(Tail(platform.outputs)), Tail(platform.outputs)[i].eos
          PROVE  codec.eosQueued
      <3>1. Tail(platform.outputs)[i] = platform.outputs[i + 1]
            /\ i + 1 \in 1 .. Len(platform.outputs)
        BY <2>2
      <3> QED
        BY <2>3, <3>1 DEF EndInv
    <2> QED
      BY <2>1, <2>2, <2>3 DEF EndInv
  <1>5. CASE ReceiveEmpty
    <2>1. /\ platform' = [platform EXCEPT !.outputs = Tail(@), !.answered = TRUE]
          /\ platform.outputs # <<>> /\ phase' \in {phase, "DecoderDrained"}
      BY <1>5 DEF ReceiveEmpty, BufferReady, EndOfStream
    <2>2. /\ codec'.eosQueued = codec.eosQueued /\ codec'.output = codec.output
          /\ codec'.eosSeen = Head(platform.outputs).eos
      BY <1>5, <1>t DEF ReceiveEmpty, Codecs
    <2> QED
      BY <1>4, <2>1, <2>2 DEF EndInv
  <1>6. ASSUME NEW early \in BOOLEAN, ReceiveFrame(early) PROVE EndInv'
    <2> DEFINE out == Head(platform.outputs)
               token == <<generation, out.number>>
               holding == [codec EXCEPT !.output = out, !.identity = token, !.started = TRUE]
    <2>1. /\ platform' = [platform EXCEPT !.outputs = Tail(@), !.answered = TRUE]
          /\ platform.outputs # <<>> /\ phase' = phase /\ out.number # None
          /\ codec' \in {holding, GiveBack(holding)}
      BY <1>6 DEF ReceiveFrame, BufferReady
    <2>2. out \in Outputs /\ token \in Tokens
      BY <1>4, <2>1 DEF Outputs, Tokens, TypeOK
    <2>3. /\ holding \in Codecs /\ holding.eosQueued = codec.eosQueued
          /\ holding.eosSeen = codec.eosSeen /\ holding.output = out
      BY <1>t, <2>2 DEF Codecs
    <2> HIDE DEF holding
    <2>4. codec'.eosQueued = codec.eosQueued
          /\ (codec'.eosSeen \/ codec'.output.eos => codec.eosSeen \/ out.eos)
      BY <2>1, <2>3, GiveBackEnd
    <2> QED
      BY <1>4, <2>1, <2>4 DEF EndInv
  <1>7. CASE FinishStep \/ Close
    <2>1. UNCHANGED <<phase, platform>> /\ codec' \in {codec, GiveBack(codec)}
      BY <1>7 DEF FinishStep, FinishFrame, Close, Released
    <2> QED
      BY <1>t, <2>1, GiveBackEnd DEF EndInv
  <1>8. ASSUME NEW items \in Loads, Queue(items), NEW b, EndInv,
               \A i \in 1 .. Len(items) : items[i].number = Eos => b,
               codec.eosQueued => b
        PROVE  /\ platform'.outputs = platform.outputs
               /\ \A i \in 1 .. Len(platform'.inputs) : platform'.inputs[i].number = Eos => b
    <2>1. platform' = [platform EXCEPT !.inputs = platform.inputs \o items]
      BY <1>8, QueueType
    <2>2. platform'.outputs = platform.outputs /\ platform'.inputs = platform.inputs \o items
      BY <1>t, <2>1 DEF Platforms
    <2>3. items \in Seq(Inputs)
      BY DEF Loads
    <2>4. Len(platform.inputs \o items) = Len(platform.inputs) + Len(items)
          /\ Len(platform.inputs) \in Nat /\ Len(items) \in Nat
      BY <1>t, <2>3
    <2>5. ASSUME NEW i \in 1 .. Len(platform.inputs) + Len(items),
                 (platform.inputs \o items)[i].number = Eos
          PROVE  b
      <3>1. CASE i <= Len(platform.inputs)
        <4>1. (platform.inputs \o items)[i] = platform.inputs[i]
              /\ i \in 1 .. Len(platform.inputs)
          BY <1>t, <2>3, <2>4, <3>1
        <4> QED
          BY <1>8, <2>5, <4>1 DEF EndInv
      <3>2. CASE i > Len(platform.inputs)
        <4>1. (platform.inputs \o items)[i] = items[i - Len(platform.inputs)]
              /\ i - Len(platform.inputs) \in 1 .. Len(items)
          BY <1>t, <2>3, <2>4, <3>2
        <4> QED
          BY <1>8, <2>5, <4>1
      <3> QED
        BY <2>4, <3>1, <3>2
    <2> QED
      BY <2>2, <2>4, <2>5
  <1>9. \A i \in 1 .. Len(Due) : Due[i].number # Eos
    BY DueType, BufferTypes DEF Config, Eos
  <1>10. ASSUME NEW item \in Inputs
         PROVE  \A i \in 1 .. Len(Append(Due, item)) :
                    Append(Due, item)[i].number = Eos => item.number = Eos
    <2>1. Due \in Seq(Inputs)
      BY DueType DEF Loads
    <2>2. \A i \in 1 .. Len(Due) + 1 :
            Append(Due, item)[i] = IF i = Len(Due) + 1 THEN item ELSE Due[i]
      BY <2>1
    <2> QED
      BY <1>9, <2>1, <2>2
  <1>11. CASE SubmitPacket
    <2> DEFINE n == NextInput
               item == [number |-> n, time |-> Pts(n) + OffsetFor(n)]
               queued == ConfigRestored /\ HasRoom(Due) /\ Pts(n) + OffsetFor(n) >= 0
               items == IF queued THEN Append(Due, item) ELSE Due
    <2>1. n \in Packets /\ Queue(items) /\ UNCHANGED <<phase, codec>>
      BY <1>11 DEF SubmitPacket
    <2>2. items \in Loads /\ \A i \in 1 .. Len(items) : items[i].number = Eos => codec.eosQueued
      <3>1. CASE queued
        <4>1. item \in Inputs
          BY <2>1, <3>1 DEF Inputs, OffsetFor, Pts, Packets, TypeOK, Decoders, None
        <4>2. item.number # Eos
          BY <2>1, BufferTypes
        <4> QED
          BY <1>10, <3>1, <4>1, <4>2, DueType
      <3>2. CASE ~queued
        BY <1>9, <3>2, DueType
      <3> QED
        BY <3>1, <3>2
    <2> HIDE DEF items
    <2> QED
      BY <1>8, <2>1, <2>2 DEF EndInv
  <1>12. CASE SubmitEnd
    <2> DEFINE item == [number |-> Eos, time |-> 0]
               queued == ConfigRestored /\ HasRoom(Due)
               items == IF queued THEN Append(Due, item) ELSE Due
    <2>1. /\ Queue(items) /\ phase' = IF queued THEN "Draining" ELSE phase
          /\ phase \notin {"Draining", "DecoderDrained"}
      BY <1>12 DEF SubmitEnd, Submitting
    <2>2. /\ codec'.eosQueued <=> codec.eosQueued \/ queued
          /\ codec'.eosSeen = codec.eosSeen /\ codec'.output = codec.output
      BY <1>12, <1>t DEF SubmitEnd, Codecs
    <2>3. item \in Inputs
      BY DEF Inputs
    <2>4. items \in Loads /\ \A i \in 1 .. Len(items) : items[i].number = Eos => codec'.eosQueued
      BY <1>9, <2>2, <2>3, DueType
    <2> HIDE DEF items, queued
    <2>5. codec.eosQueued => codec'.eosQueued
      BY <2>2
    <2>6. /\ platform'.outputs = platform.outputs
          /\ \A i \in 1 .. Len(platform'.inputs) :
                platform'.inputs[i].number = Eos => codec'.eosQueued
      BY <1>8, <2>1, <2>4, <2>5
    <2> QED
      BY <2>1, <2>2, <2>5, <2>6 DEF EndInv
  <1>13. CASE EndInput
    BY <1>13 DEF EndInput, EndInv
  <1>14. CASE Seek
    <2>1. /\ platform'.inputs = <<>> /\ platform'.outputs = <<>>
          /\ codec'.eosQueued = FALSE /\ codec'.eosSeen = FALSE /\ codec'.output = NoOutput
      BY <1>14, <1>t DEF Seek, FlushPlatform, FlushCodec, Codecs
    <2> QED
      BY <2>1 DEF EndInv, NoOutput
  <1>15. CASE PlatformDecodes
    <2>1. UNCHANGED <<codec, phase>> /\ platform.inputs # <<>>
      BY <1>15 DEF PlatformDecodes, DecodeConfig, DecodePacket, DecodeEnd, Decoding
    <2>2. /\ Head(platform.inputs) = platform.inputs[1] /\ Len(platform.inputs) \in Nat \ {0}
          /\ Rest \in Seq(Inputs) /\ Len(Rest) = Len(platform.inputs) - 1
          /\ \A i \in 1 .. Len(platform.inputs) - 1 : Rest[i] = platform.inputs[i + 1]
      BY <1>t, <2>1, HeadAndTail DEF Rest
    <2>3. /\ Current = Eos => codec.eosQueued
          /\ \A i \in 1 .. Len(Rest) : Rest[i].number = Eos => codec.eosQueued
      BY <2>2 DEF EndInv, Current
    <2>4. ASSUME NEW output \in Outputs, Offers(output), output.eos => codec.eosQueued
          PROVE  EndInv'
      <3>1. platform'.inputs = Rest /\ platform'.outputs = Append(platform.outputs, output)
        BY <1>t, <2>4 DEF Offers, Platforms
      <3>2. \A i \in 1 .. Len(platform.outputs) + 1 :
              Append(platform.outputs, output)[i] =
                IF i = Len(platform.outputs) + 1 THEN output ELSE platform.outputs[i]
        BY <1>t
      <3>3. \A i \in 1 .. Len(Append(platform.outputs, output)) :
              Append(platform.outputs, output)[i].eos => codec.eosQueued
        BY <1>t, <2>4, <3>2 DEF EndInv
      <3> QED
        BY <2>1, <2>3, <3>1, <3>3 DEF EndInv
    <2>5. CASE \/ DecodeConfig /\ platform' = [platform EXCEPT !.inputs = Rest]
               \/ DecodePacket /\ platform' = [platform EXCEPT !.format = "changed"]
      <3>1. platform'.inputs \in {Rest, platform.inputs} /\ platform'.outputs = platform.outputs
        BY <1>t, <2>5 DEF Platforms
      <3> QED
        BY <2>1, <2>3, <3>1 DEF EndInv
    <2>6. CASE Offers(NoOutput)
      BY <2>4, <2>6, BufferTypes DEF NoOutput
    <2>7. CASE Current = Eos /\ Offers(EndOutput)
      BY <2>3, <2>4, <2>7, BufferTypes
    <2>8. CASE /\ Current \in Packets
               /\ Offers([number |-> Current, time |-> Head(platform.inputs).time,
                          eos |-> FALSE])
      <3> DEFINE output == [number |-> Current, time |-> Head(platform.inputs).time,
                            eos |-> FALSE]
      <3>1. output \in Outputs /\ output.eos = FALSE
        <4>1. Head(platform.inputs) \in Inputs
          BY <1>t, <2>1, HeadAndTail
        <4> QED
          BY <2>8, <4>1 DEF Outputs, Inputs
      <3> HIDE DEF output
      <3> QED
        BY <2>4, <2>8, <3>1 DEF output
    <2>9. CASE /\ Current = Eos
               /\ platform' = [platform EXCEPT !.inputs = Rest,
                                    !.outputs = Marked(@)]
      <3>1. platform'.inputs = Rest
        BY <1>t, <2>9 DEF Platforms
      <3> QED
        BY <2>1, <2>3, <2>9, <3>1 DEF EndInv
    <2> QED
      BY <1>15, <2>5, <2>6, <2>7, <2>8, <2>9
         DEF PlatformDecodes, DecodeConfig, DecodePacket, DecodeEnd
  <1> QED
    BY <1>1, <1>2, <1>3, <1>5, <1>6, <1>7, <1>11, <1>12, <1>13, <1>14, <1>15
       DEF Next, WorkerSteps, ReceiveStep, FinishStep, SubmitStep, vars, SkipReceive,
           ReceiveNothing, KeepFrame, SubmitNothing, GatePacket, Closed, FinishFrame

SurfaceInv == TypeOK /\ TokenNamesSlot /\ TimesInv /\ EndInv /\ OffsetInv

(* Every call that could fail finds what it needs. *)
LEMMA ErrorStep == SurfaceInv /\ NoInternalError /\ [Next]_vars => NoInternalError'
  <1> SUFFICES ASSUME SurfaceInv, NoInternalError, [Next]_vars, pc' = "impossible" PROVE FALSE
    BY DEF NoInternalError
  <1> USE DEF SurfaceInv
  <1>1. CASE ReceiveEnd
    <2>1. phase = "Draining"
      BY <1>1 DEF ReceiveEnd, Receiving, EndInv
    <2> QED
      BY <1>1, <2>1 DEF ReceiveEnd, EndOfStream
  <1>2. CASE ReceiveEmpty
    <2>1. platform.outputs # <<>> /\ platform.outputs \in Seq(Outputs) /\ phase # "DecoderDrained"
      BY <1>2 DEF ReceiveEmpty, BufferReady, Polling, Receiving, TypeOK, Platforms
    <2>2. Head(platform.outputs).eos => phase = "Draining"
      BY <2>1, HeadAndTail DEF EndInv
    <2> QED
      BY <1>2, <2>2 DEF ReceiveEmpty, EndOfStream
  <1>3. ASSUME NEW early \in BOOLEAN, ReceiveFrame(early) PROVE FALSE
    <2>1. /\ platform.outputs # <<>> /\ platform.outputs \in Seq(Outputs)
          /\ Head(platform.outputs).number # None /\ decoder.offset = None
      BY <1>3 DEF ReceiveFrame, BufferReady, TypeOK, Platforms
    <2>2. Head(platform.outputs).number \in Packets
      <3>1. Head(platform.outputs) \in Outputs
        BY <2>1, HeadAndTail
      <3> QED
        BY <2>1, <3>1 DEF Outputs
    <2>3. Carries(Head(platform.outputs), decoder.offset)
      BY <2>1, CarryQueue DEF TimesInv
    <2> QED
      BY <2>1, <2>2, <2>3 DEF Carries
  <1>4. ASSUME NEW render \in BOOLEAN, FinishFrame(render) PROVE FALSE
    <2>1. /\ pc = "present" /\ frame # NoFrame /\ Refused(codec, frame.token, render)
      BY <1>4 DEF FinishFrame
    <2>2. codec.identity = frame.token /\ frame.token = <<generation, codec.output.number>>
      BY <2>1 DEF TokenNamesSlot
    <2>3. codec.output = NoOutput
      BY <2>1, <2>2 DEF Refused, IsStale
    <2>4. frame.token \in (0 .. MaxFlush) \X Packets
      BY <2>1 DEF TypeOK, Tokens
    <2>5. codec.output.number \in Packets
      BY <2>2, <2>4
    <2> QED
      BY <2>3, <2>5, BufferTypes
  <1>5. CASE SubmitPacket
    <2>1. ~codec.eosQueued
      BY <1>5 DEF SubmitPacket, Submitting, EndInv
    <2>2. Pts(NextInput) + OffsetFor(NextInput) >= 0
      BY <1>5, NextPacket DEF SubmitPacket
    <2>3. Pts(NextInput) + OffsetFor(NextInput) \in Int
      BY <1>5 DEF SubmitPacket, TypeOK, Decoders, OffsetFor, Pts, Packets
    <2> QED
      BY <1>5, <2>1, <2>2, <2>3 DEF SubmitPacket
  <1>6. CASE SubmitEnd
    BY <1>6 DEF SubmitEnd, Submitting, EndInv
  <1>7. CASE Seek
    <2>1. frame # NoFrame /\ Refused(FlushCodec(codec), frame.token, FALSE)
      BY <1>7 DEF Seek
    <2>2. FlushCodec(codec).identity = <<>>
      BY DEF FlushCodec, TypeOK, Codecs
    <2>3. frame.token \in (0 .. MaxFlush) \X Packets
      BY <2>1 DEF TypeOK, Tokens
    <2>4. frame.token # <<>>
      BY <2>3
    <2> QED
      BY <2>1, <2>2, <2>4 DEF Refused, IsStale
  <1>8. CASE PlatformDecodes \/ Closed \/ UNCHANGED vars \/ EndInput
    BY <1>8 DEF PlatformDecodes, DecodeConfig, DecodePacket, DecodeEnd, Closed, vars, EndInput,
                NoInternalError
  <1>9. CASE SkipReceive \/ ReceiveNothing \/ ReceiveFormat \/ KeepFrame \/ SubmitNothing
              \/ GatePacket \/ Close
    BY <1>9 DEF SkipReceive, ReceiveNothing, ReceiveFormat, KeepFrame, SubmitNothing,
                GatePacket, Close
  <1> QED
    BY <1>1, <1>2, <1>3, <1>4, <1>5, <1>6, <1>7, <1>8, <1>9
       DEF Next, WorkerSteps, ReceiveStep, FinishStep, SubmitStep

(***************************************************************************)
(* Without a fault of the platform no call of the video branch fails: no   *)
(* frame is stale when it is presented, no time is below zero, no end of   *)
(* stream is unexpected, nothing is submitted behind the end.              *)
(***************************************************************************)
THEOREM NoInternalErrorEver == Spec => []NoInternalError
  <1>1. Init => SurfaceInv /\ NoInternalError
    <2>1. Init => EndInv /\ OffsetInv /\ NoInternalError
      BY BufferTypes DEF Init, EndInv, OffsetInv, NoInternalError, NoOutput
    <2> QED
      BY <2>1, TypeInit, TokenInit, TimesInit DEF SurfaceInv
  <1>2. SurfaceInv /\ [Next]_vars => SurfaceInv'
    BY TypeStep, TokenStep, TimesStep, EndStep, OffsetStep DEF SurfaceInv
  <1>3. (SurfaceInv /\ NoInternalError) /\ [Next]_vars => (SurfaceInv /\ NoInternalError)'
    BY <1>2, ErrorStep
  <1> QED
    BY <1>1, <1>3, PTL DEF Spec

-----------------------------------------------------------------------------
(* What the platform is given *)

(***************************************************************************)
(* The configuration is pending only while the platform has nothing, and   *)
(* when it is not, it was not lost or stands in `fed`.                     *)
(***************************************************************************)
AnswerInv ==
    /\ platform.answered = codec.started
    /\ decoder.configPending =>
        /\ fed = <<>> /\ platform.configLost /\ ~codec.started
        /\ platform.inputs = <<>> /\ platform.outputs = <<>> /\ platform.format # "changed"
    /\ ~decoder.configPending /\ fed = <<>> => ~platform.configLost

(* The pending input is the one the demuxer delivered last. *)
SourceInv ==
    /\ input \in Packets => source = input + 1
    /\ input = Eos => source = PacketCount
    /\ phase = "InputEnded" => source = PacketCount

Upcoming == IF input = None THEN source ELSE input

(* The key-frame gate is closed as long as nothing was fed, and what comes *)
(* next is the one after the last one fed.                                 *)
FedInv ==
    /\ ~decoder.needsKey => Begun(fed)
    /\ Begun(fed) =>
          IF fed[Len(fed)] = Eos
          THEN codec.eosQueued
          ELSE ~decoder.needsKey /\ fed[Len(fed)] + 1 = Upcoming

(* What may be given first. *)
Starts == KeyPackets \cup {Eos}

LEMMA StartsAreNumbers == Starts \subseteq Packets \cup {Eos}
  BY KeyPacketsAssumption DEF Starts, Packets

(* What `fed` is once the configuration that is due has been sent. *)
Base == IF Due = <<>> THEN fed ELSE <<Config>>

LEMMA DecodableIs == TypeOK => (Decodable <=> IsDecodable(fed, platform.configLost, Starts))
  <1> SUFFICES ASSUME TypeOK PROVE Decodable <=> IsDecodable(fed, platform.configLost, Starts)
    OBVIOUS
  <1>1. DOMAIN fed = 1 .. Len(fed)
    BY DEF TypeOK
  <1> QED
    BY <1>1 DEF Decodable, IsDecodable, IsFirst, Starts

LEMMA BaseFacts ==
    ASSUME TypeOK, AnswerInv, Decodable
    PROVE  /\ Base \in Feeds /\ platform.configLost \in BOOLEAN
           /\ IsDecodable(Base, platform.configLost, Starts)
           /\ ConfigRestored /\ Base = <<>> => ~platform.configLost
           /\ \/ Base = fed
              \/ fed = <<>> /\ Base = <<Config>> /\ Len(Base) = 1 /\ Base[1] = Config
           /\ decoder.configPending /\ ~ConfigRestored => Base = <<>>
           /\ ConfigRestored /\ decoder.configPending => Base # <<>>
           /\ Begun(Base) => Base = fed
           /\ Begun(fed) => Base = fed
  <1>1. fed \in Feeds /\ platform.configLost \in BOOLEAN
    BY DEF TypeOK, Feeds, Platforms
  <1>2. CASE Due = <<>>
    <2>1. Base = fed
      BY <1>2 DEF Base
    <2>2. ConfigRestored => ~decoder.configPending
      BY <1>2 DEF ConfigRestored
    <2>3. IsDecodable(Base, platform.configLost, Starts)
      BY <2>1, DecodableIs
    <2>4. /\ decoder.configPending => fed = <<>>
          /\ ~decoder.configPending /\ fed = <<>> => ~platform.configLost
      BY DEF AnswerInv
    <2>5. /\ ConfigRestored /\ Base = <<>> => ~platform.configLost
          /\ decoder.configPending /\ ~ConfigRestored => Base = <<>>
          /\ ConfigRestored /\ decoder.configPending => Base # <<>>
      BY <2>1, <2>2, <2>4
    <2>6. Base \in Feeds /\ platform.configLost \in BOOLEAN
      BY <1>1, <2>1
    <2> QED
      BY <2>1, <2>3, <2>5, <2>6
  <1>3. CASE Due # <<>>
    <2>1. Base = <<Config>> /\ Len(Base) = 1 /\ Base[1] = Config /\ Base \in Feeds
      BY <1>3 DEF Base, Feeds
    <2>2. decoder.configPending /\ fed = <<>> /\ platform.configLost
      BY <1>3 DEF Due, AnswerInv
    <2>3. IsDecodable(Base, platform.configLost, Starts)
      BY <2>1, <2>2 DEF IsDecodable
    <2>4. ~Begun(Base) /\ ~Begun(fed)
      BY <2>1, <2>2 DEF Begun
    <2> QED
      BY <1>1, <1>3, <2>1, <2>2, <2>3, <2>4 DEF ConfigRestored
  <1> QED
    BY <1>2, <1>3

(* What submit makes of `fed`. *)
LEMMA FedGrows ==
    ASSUME TypeOK, AnswerInv, NEW queued \in BOOLEAN,
           NEW n \in Packets \cup {Eos}, NEW time \in Nat,
           Queue(IF queued THEN Append(Due, [number |-> n, time |-> time]) ELSE Due)
    PROVE  fed' = IF queued THEN Append(Base, n) ELSE Base
  <1> DEFINE item == [number |-> n, time |-> time]
             items == IF queued THEN Append(Due, item) ELSE Due
             numbers == [i \in 1 .. Len(items) |-> items[i].number]
  <1>1. fed' = fed \o numbers /\ fed \in Feeds
    BY DEF Queue, TypeOK, Feeds
  <1>2. fed \o <<>> = fed /\ fed \o <<n>> = Append(fed, n)
    BY <1>1 DEF Feeds
  <1>3. CASE Due = <<>> /\ ~queued
    <2>1. numbers = <<>>
      BY <1>3
    <2> QED
      BY <1>1, <1>2, <1>3, <2>1 DEF Base
  <1>4. CASE Due = <<>> /\ queued
    <2>1. items = <<item>>
      BY <1>4
    <2>2. numbers = <<n>>
      BY <2>1
    <2> QED
      BY <1>1, <1>2, <1>4, <2>2 DEF Base
  <1>5. CASE Due # <<>>
    <2>1. Due = <<ConfigInput>> /\ fed = <<>> /\ ConfigInput.number = Config
      BY <1>5, DueType, BufferTypes DEF AnswerInv, Due
    <2>2. CASE ~queued
      <3>1. numbers = <<Config>>
        BY <2>1, <2>2
      <3> QED
        BY <1>1, <1>5, <2>1, <2>2, <3>1 DEF Base
    <2>3. CASE queued
      <3>1. items \in Seq({ConfigInput, item}) /\ Len(items) = 2
            /\ items[1] = ConfigInput /\ items[2] = item
        BY <2>1, <2>3
      <3>2. numbers = <<Config, n>>
        <4>1. Len(numbers) = 2 /\ numbers[1] = Config /\ numbers[2] = n
          BY <2>1, <3>1
        <4>2. numbers = [i \in 1 .. 2 |-> numbers[i]]
          BY <3>1
        <4> QED
          BY <4>1, <4>2
      <3> QED
        BY <1>1, <1>5, <2>1, <2>3, <3>2 DEF Base
    <2> QED
      BY <2>2, <2>3
  <1> QED
    BY <1>3, <1>4, <1>5

(* The pending input is the next packet's or the end's. *)
LEMMA SourceStep == TypeOK /\ SourceInv /\ [Next]_vars => SourceInv'
  <1> SUFFICES ASSUME TypeOK, SourceInv, [Next]_vars PROVE SourceInv'
    OBVIOUS
  <1> USE NumbersDiffer DEF SourceInv
  <1>1. CASE UNCHANGED <<source, input>> /\ phase' \in {phase, "DecoderDrained"}
    BY <1>1
  <1>2. CASE GatePacket
    <2>1. /\ NextInput \in Packets /\ Pulled /\ input' = None /\ phase' = phase
      BY <1>2 DEF GatePacket
    <2>2. phase = "InputEnded" => source' = source
      BY <2>1 DEF Pulled
    <2> QED
      BY <2>1, <2>2
  <1>3. CASE SubmitPacket
    <2>1. /\ NextInput \in Packets /\ Pulled /\ input' \in {None, NextInput} /\ phase' = phase
      BY <1>3 DEF SubmitPacket
    <2>2. CASE input # None
      BY <2>1, <2>2 DEF Pulled, NextInput
    <2>3. CASE input = None
      <3>1. source < PacketCount /\ NextInput = source /\ source' = source + 1
        BY <2>1, <2>3 DEF Pulled, NextInput
      <3> QED
        BY <2>1, <3>1
    <2> QED
      BY <2>2, <2>3
  <1>4. CASE SubmitEnd
    BY <1>4 DEF SubmitEnd
  <1>5. CASE Seek
    BY <1>5 DEF Seek
  <1>6. CASE EndInput
    BY <1>6 DEF EndInput
  <1> QED
    BY <1>1, <1>2, <1>3, <1>4, <1>5, <1>6
       DEF Next, WorkerSteps, ReceiveStep, FinishStep, SubmitStep, PlatformDecodes, vars,
           SkipReceive, ReceiveNothing, ReceiveFormat, ReceiveEnd, ReceiveEmpty, ReceiveFrame,
           EndOfStream, FinishFrame, KeepFrame, SubmitNothing, DecodeConfig, DecodePacket,
           DecodeEnd, Close, Closed

(* A frame whose slot goes back leaves the codec started or not, as it was. *)
LEMMA GiveBackStarted ==
    ASSUME NEW c \in Codecs, NEW token
    PROVE  /\ Released(c, token).started = c.started /\ GiveBack(c).started = c.started
           /\ Released(c, token).eosQueued = c.eosQueued /\ GiveBack(c).eosQueued = c.eosQueued
  BY DEF Released, GiveBack, Codecs

(* The first answer of the platform starts the codec. *)
LEMMA AnswerReceive == TypeOK /\ AnswerInv /\ ReceiveStep => AnswerInv'
  <1> SUFFICES ASSUME TypeOK, AnswerInv, ReceiveStep PROVE AnswerInv'
    OBVIOUS
  <1>t. codec \in Codecs /\ platform \in Platforms /\ platform.outputs \in Seq(Outputs)
    BY DEF TypeOK, Platforms
  <1>1. CASE SkipReceive \/ ReceiveNothing \/ ReceiveEnd
    BY <1>1 DEF SkipReceive, ReceiveNothing, ReceiveEnd, AnswerInv
  <1>2. CASE /\ platform.outputs # <<>> \/ platform.format = "changed"
             /\ platform'.answered = TRUE /\ codec'.started = TRUE
             /\ platform'.configLost = platform.configLost
             /\ decoder' = decoder /\ fed' = fed
    BY <1>2 DEF AnswerInv
  <1>3. CASE ReceiveFormat
    <2>1. platform.format = "changed"
      BY <1>3 DEF ReceiveFormat
    <2> QED
      BY <1>2, <1>3, <1>t, <2>1 DEF ReceiveFormat, Codecs, Platforms
  <1>4. CASE ReceiveEmpty
    <2>1. platform.outputs # <<>>
      BY <1>4 DEF ReceiveEmpty, BufferReady
    <2> QED
      BY <1>2, <1>4, <1>t, <2>1 DEF ReceiveEmpty, Codecs, Platforms
  <1>5. ASSUME NEW early \in BOOLEAN, ReceiveFrame(early) PROVE AnswerInv'
    <2> DEFINE out == Head(platform.outputs)
               holding == [codec EXCEPT !.output = out, !.identity = <<generation, out.number>>,
                                        !.started = TRUE]
    <2>1. platform.outputs # <<>> /\ out.number # None /\ codec' \in {holding, GiveBack(holding)}
      BY <1>5 DEF ReceiveFrame, BufferReady
    <2>2. out \in Outputs /\ out.number \in Packets
      <3>1. out \in Outputs
        BY <1>t, <2>1, HeadAndTail
      <3> HIDE DEF out
      <3> QED
        BY <2>1, <3>1 DEF Outputs
    <2>3. holding \in Codecs /\ holding.started = TRUE
      <3>1. <<generation, out.number>> \in Tokens
        BY <2>2 DEF TypeOK, Tokens
      <3> QED
        BY <1>t, <2>2, <3>1 DEF Codecs
    <2>4. codec'.started = TRUE
      <3> HIDE DEF holding
      <3> QED
        BY <2>1, <2>3, GiveBackStarted
    <2> QED
      BY <1>2, <1>5, <1>t, <2>1, <2>4 DEF ReceiveFrame, Platforms
  <1> QED
    BY <1>1, <1>3, <1>4, <1>5 DEF ReceiveStep

LEMMA AnswerStep == TypeOK /\ AnswerInv /\ Decodable /\ [Next]_vars => AnswerInv'
  <1> SUFFICES ASSUME TypeOK, AnswerInv, Decodable, [Next]_vars PROVE AnswerInv'
    OBVIOUS
  <1>t. codec \in Codecs /\ platform \in Platforms /\ decoder \in Decoders
    BY DEF TypeOK
  <1>1. CASE ReceiveStep
    BY <1>1, AnswerReceive
  <1>2. CASE /\ UNCHANGED <<decoder, platform, fed>>
             /\ codec'.started = codec.started
    BY <1>2 DEF AnswerInv
  <1>3. CASE FinishStep
    <2>1. codec' = Released(codec, frame.token) /\ UNCHANGED <<decoder, platform, fed>>
      BY <1>3 DEF FinishStep, FinishFrame
    <2> QED
      BY <1>2, <1>t, <2>1, GiveBackStarted
  <1>4. CASE Close
    <2>1. codec' \in {codec, Released(codec, frame.token)} /\ UNCHANGED <<decoder, platform, fed>>
      BY <1>4 DEF Close
    <2> QED
      BY <1>2, <1>t, <2>1, GiveBackStarted
  <1>5. CASE KeepFrame \/ SubmitNothing \/ GatePacket \/ EndInput \/ Closed \/ UNCHANGED vars
    BY <1>2, <1>5 DEF KeepFrame, SubmitNothing, GatePacket, EndInput, Closed, vars
  <1>6. ASSUME NEW queued \in BOOLEAN, NEW n \in Packets \cup {Eos},
               fed' = (IF queued THEN Append(Base, n) ELSE Base), queued => ConfigRestored,
               decoder'.configPending = ~ConfigRestored,
               NEW items, Queue(items), ~ConfigRestored => items = <<>>,
               codec'.started = codec.started
        PROVE  AnswerInv'
    <2>1. /\ platform'.answered = platform.answered /\ platform'.configLost = platform.configLost
          /\ platform'.outputs = platform.outputs /\ platform'.format = platform.format
          /\ platform'.inputs = platform.inputs \o items
      BY <1>6, <1>t DEF Queue, Platforms
    <2>2. CASE ~ConfigRestored
      <3>1. fed' = fed /\ platform'.inputs = platform.inputs /\ decoder.configPending
        <4>1. Due = <<>> /\ decoder.configPending
          BY <2>2 DEF ConfigRestored
        <4> QED
          BY <1>6, <1>t, <2>1, <2>2, <4>1 DEF Base, Platforms
      <3> QED
        BY <1>6, <2>1, <2>2, <3>1 DEF AnswerInv
    <2>3. CASE ConfigRestored
      <3>1. fed' = <<>> => Base = <<>>
        <4>1. Append(Base, n) # <<>>
          BY BaseFacts, AppendFacts DEF Feeds
        <4> QED
          BY <1>6, <4>1
      <3>2. fed' = <<>> => ~platform.configLost
        BY <2>3, <3>1, BaseFacts
      <3> QED
        BY <1>6, <2>1, <2>3, <3>2 DEF AnswerInv
    <2> QED
      BY <2>2, <2>3
  <1>7. CASE SubmitPacket
    <2> DEFINE n == NextInput
               time == Pts(n) + OffsetFor(n)
               queued == ConfigRestored /\ HasRoom(Due) /\ time >= 0
               items == IF queued THEN Append(Due, [number |-> n, time |-> time]) ELSE Due
    <2>1. /\ Queue(items) /\ codec' = codec /\ n \in Packets
          /\ decoder'.configPending = ~ConfigRestored
      BY <1>7 DEF SubmitPacket
    <2>2. queued => time \in Nat
      BY <2>1 DEF TypeOK, Decoders, OffsetFor, Pts, None, Packets
    <2>3. fed' = IF queued THEN Append(Base, n) ELSE Base
      <3>1. CASE queued
        BY <2>1, <2>2, <3>1, FedGrows
      <3>2. CASE ~queued
        <4>1. Queue(IF FALSE THEN Append(Due, [number |-> n, time |-> 0]) ELSE Due)
          BY <2>1, <3>2
        <4> QED
          BY <2>1, <3>2, <4>1, FedGrows
      <3> QED
        BY <3>1, <3>2
    <2>4. ~ConfigRestored => items = <<>>
      BY DEF ConfigRestored
    <2>5. queued \in BOOLEAN /\ (queued => ConfigRestored)
      OBVIOUS
    <2> HIDE DEF n, queued, items
    <2> QED
      BY <1>6, <2>1, <2>3, <2>4, <2>5
  <1>8. CASE SubmitEnd
    <2> DEFINE queued == ConfigRestored /\ HasRoom(Due)
               items == IF queued THEN Append(Due, [number |-> Eos, time |-> 0]) ELSE Due
    <2>1. /\ Queue(items) /\ decoder'.configPending = ~ConfigRestored
          /\ codec'.started = codec.started
      BY <1>8, <1>t DEF SubmitEnd, Decoders, Codecs
    <2>2. fed' = IF queued THEN Append(Base, Eos) ELSE Base
      BY <2>1, FedGrows
    <2>3. ~ConfigRestored => items = <<>>
      BY DEF ConfigRestored
    <2>4. queued \in BOOLEAN /\ (queued => ConfigRestored)
      OBVIOUS
    <2> HIDE DEF queued, items
    <2> QED
      BY <1>6, <2>1, <2>2, <2>3, <2>4
  <1>9. CASE Seek
    BY <1>9, <1>t DEF Seek, AnswerInv, Flushed, FlushCodec, FlushPlatform, Codecs, Platforms, Decoders
  <1>10. CASE PlatformDecodes
    <2>1. /\ platform.inputs # <<>> /\ UNCHANGED <<decoder, codec, fed>>
          /\ platform'.answered = platform.answered /\ platform'.configLost = platform.configLost
      BY <1>10, <1>t DEF PlatformDecodes, DecodeConfig, DecodePacket, DecodeEnd, Decoding, Offers,
                         Platforms
    <2> QED
      BY <2>1 DEF AnswerInv
  <1> QED
    BY <1>1, <1>3, <1>4, <1>5, <1>7, <1>8, <1>9, <1>10 DEF Next, WorkerSteps, SubmitStep

(* The same with what submit adds to `fed`, for Decodable and FedInv. *)
LEMMA FedSubmit ==
    ASSUME TypeOK, EndInv, AnswerInv, FedInv, Decodable,
           NEW queued \in BOOLEAN, NEW n \in Packets \cup {Eos},
           fed' = IF queued THEN Append(Base, n) ELSE Base,
           queued => ConfigRestored,
           n \in Packets => n \in KeyPackets \/ ~decoder.needsKey,
           n = Upcoming, ~codec.eosQueued,
           decoder'.needsKey = (decoder.needsKey /\ ~(queued /\ n # Eos)),
           queued /\ n # Eos => Upcoming' = n + 1,
           ~queued => Upcoming' = n,
           queued /\ n = Eos => codec'.eosQueued,
           platform'.configLost = platform.configLost
    PROVE  IsDecodable(fed', platform'.configLost, Starts) /\ FedInv'
  <1>b. /\ Base \in Feeds /\ platform.configLost \in BOOLEAN
        /\ IsDecodable(Base, platform.configLost, Starts)
        /\ ConfigRestored /\ Base = <<>> => ~platform.configLost
        /\ Begun(Base) <=> Begun(fed)
        /\ Begun(fed) => Base = fed
    <2>1. Begun(Base) => Base = fed
      BY BaseFacts
    <2>2. Begun(fed) => Base = fed
      BY BaseFacts
    <2> QED
      BY <2>1, <2>2, BaseFacts
  <1>n. decoder.needsKey \in BOOLEAN /\ decoder'.needsKey \in BOOLEAN
    BY DEF TypeOK, Decoders
  <1>1. /\ ~decoder.needsKey => Begun(fed)
        /\ Begun(fed) => ~decoder.needsKey /\ fed[Len(fed)] + 1 = n /\ fed[Len(fed)] # Eos
    BY DEF FedInv
  <1>2. CASE ~queued
    <2>1. fed' = Base /\ Upcoming' = n /\ (decoder'.needsKey <=> decoder.needsKey)
      BY <1>2, <1>n
    <2>2. IsDecodable(fed', platform'.configLost, Starts)
      BY <1>b, <2>1
    <2>3. Begun(fed') <=> Begun(fed)
      BY <1>b, <2>1
    <2>4. Begun(fed') => fed'[Len(fed')] = fed[Len(fed)]
      BY <1>b, <2>1, <2>3
    <2>5. FedInv'
      BY <1>1, <2>1, <2>3, <2>4 DEF FedInv
    <2> QED
      BY <2>2, <2>5
  <1>3. CASE queued
    <2>1. fed' = Append(Base, n) /\ ConfigRestored
      BY <1>3
    <2>2. ~Begun(Base) => n \in Starts
      BY <1>b, <1>1 DEF Starts
    <2>3. Begun(Base) => n = Base[Len(Base)] + 1
      BY <1>b, <1>1
    <2>4. Base = <<>> => ~platform.configLost
      BY <1>b, <2>1
    <2>5. /\ IsDecodable(fed', platform.configLost, Starts) /\ Begun(fed')
          /\ fed'[Len(fed')] = n
      BY <1>b, <2>1, <2>2, <2>3, <2>4, OneMore
    <2>6. IF n = Eos THEN codec'.eosQueued ELSE ~decoder'.needsKey /\ n + 1 = Upcoming'
      BY <1>3
    <2>7. FedInv'
      BY <2>5, <2>6 DEF FedInv
    <2> QED
      BY <2>5, <2>7
  <1> QED
    BY <1>2, <1>3

LEMMA FedStep ==
    TypeOK /\ EndInv /\ SourceInv /\ AnswerInv /\ FedInv /\ Decodable /\ [Next]_vars
    => FedInv' /\ Decodable'
  <1> SUFFICES ASSUME TypeOK, EndInv, SourceInv, AnswerInv, FedInv, Decodable, [Next]_vars
               PROVE  FedInv' /\ Decodable'
    OBVIOUS
  <1>t. codec \in Codecs /\ platform \in Platforms /\ decoder \in Decoders /\ TypeOK'
    BY TypeStep DEF TypeOK
  <1>d. ASSUME IsDecodable(fed', platform'.configLost, Starts) PROVE Decodable'
    <2>1. DOMAIN fed' = 1 .. Len(fed')
      BY <1>t DEF TypeOK
    <2> QED
      BY <1>d, <2>1 DEF Decodable, IsDecodable, IsFirst, Starts
  <1>1. CASE /\ UNCHANGED <<fed, decoder, input, source>>
             /\ platform'.configLost = platform.configLost
             /\ codec'.eosQueued = codec.eosQueued
    <2>1. FedInv'
      BY <1>1 DEF FedInv, Upcoming, Begun
    <2>2. Decodable'
      BY <1>1 DEF Decodable, IsFirst
    <2> QED
      BY <2>1, <2>2
  <1>2. CASE ReceiveStep
    <2>1. UNCHANGED <<fed, decoder, input, source>>
      BY <1>2 DEF ReceiveStep, SkipReceive, ReceiveNothing, ReceiveFormat, ReceiveEnd,
                  ReceiveEmpty, ReceiveFrame
    <2>2. platform'.configLost = platform.configLost
      BY <1>2, <1>t DEF ReceiveStep, SkipReceive, ReceiveNothing, ReceiveFormat, ReceiveEnd,
                  ReceiveEmpty, ReceiveFrame, Platforms
    <2>3. codec'.eosQueued = codec.eosQueued
      <3>1. CASE SkipReceive \/ ReceiveNothing \/ ReceiveFormat \/ ReceiveEnd \/ ReceiveEmpty
        BY <1>t, <3>1 DEF SkipReceive, ReceiveNothing, ReceiveFormat, ReceiveEnd, ReceiveEmpty,
                          Codecs
      <3>2. ASSUME NEW early \in BOOLEAN, ReceiveFrame(early)
            PROVE  codec'.eosQueued = codec.eosQueued
        BY <1>t, <3>2 DEF ReceiveFrame, GiveBack, Codecs
      <3> QED
        BY <1>2, <3>1, <3>2 DEF ReceiveStep
    <2> QED
      BY <1>1, <2>1, <2>2, <2>3
  <1>3. CASE FinishStep \/ Close
    <2>1. /\ codec' \in {codec, Released(codec, frame.token)}
          /\ UNCHANGED <<fed, decoder, input, source, platform>>
      BY <1>3 DEF FinishStep, FinishFrame, Close
    <2> QED
      BY <1>1, <1>t, <2>1, GiveBackStarted
  <1>4. CASE KeepFrame \/ SubmitNothing \/ EndInput \/ Closed \/ UNCHANGED vars
    BY <1>1, <1>4 DEF KeepFrame, SubmitNothing, EndInput, Closed, vars
  <1>5. CASE GatePacket
    <2>1. /\ decoder.needsKey /\ UNCHANGED <<fed, decoder, codec, platform>>
          /\ ~codec.eosQueued
      BY <1>5 DEF GatePacket, Submitting, EndInv
    <2>2. ~Begun(fed)
      BY <2>1 DEF FedInv
    <2>3. FedInv'
      BY <2>1, <2>2 DEF FedInv, Begun
    <2>4. Decodable'
      BY <2>1 DEF Decodable, IsFirst
    <2> QED
      BY <2>3, <2>4
  <1>6. CASE SubmitPacket
    <2> DEFINE n == NextInput
               time == Pts(n) + OffsetFor(n)
               queued == ConfigRestored /\ HasRoom(Due) /\ time >= 0
    <2>1. /\ Queue(IF queued THEN Append(Due, [number |-> n, time |-> time]) ELSE Due)
          /\ codec' = codec /\ n \in Packets /\ Pulled /\ ~codec.eosQueued
          /\ n \in KeyPackets \/ ~decoder.needsKey
          /\ decoder'.needsKey = (decoder.needsKey /\ ~queued)
          /\ input' = IF queued THEN None ELSE n
      BY <1>6 DEF SubmitPacket, Submitting, EndInv
    <2>2. queued => time \in Nat
      BY <2>1 DEF TypeOK, Decoders, OffsetFor, Pts, None, Packets
    <2>3. fed' = IF queued THEN Append(Base, n) ELSE Base
      <3>1. CASE queued
        BY <2>1, <2>2, <3>1, FedGrows
      <3>2. CASE ~queued
        <4>1. Queue(IF FALSE THEN Append(Due, [number |-> n, time |-> 0]) ELSE Due)
          BY <2>1, <3>2
        <4> QED
          BY <2>1, <3>2, <4>1, FedGrows
      <3> QED
        BY <3>1, <3>2
    <2>4. platform'.configLost = platform.configLost
      BY <1>t, <2>1 DEF Queue, Platforms
    <2>5. n = Upcoming /\ source' = n + 1 /\ n # Eos /\ n # None
      BY <2>1, NumbersDiffer DEF Upcoming, NextInput, Pulled, SourceInv
    <2>6. Upcoming' = IF queued THEN n + 1 ELSE n
      BY <2>1, <2>5 DEF Upcoming
    <2>7. queued \in BOOLEAN /\ (queued => ConfigRestored) /\ n \in Packets \cup {Eos}
      BY <2>1
    <2> HIDE DEF n, queued
    <2> QED
      BY <1>d, <2>1, <2>3, <2>4, <2>5, <2>6, <2>7, FedSubmit
  <1>7. CASE SubmitEnd
    <2> DEFINE queued == ConfigRestored /\ HasRoom(Due)
    <2>1. /\ Queue(IF queued THEN Append(Due, [number |-> Eos, time |-> 0]) ELSE Due)
          /\ ~codec.eosQueued /\ decoder'.needsKey = decoder.needsKey
          /\ input' = (IF queued THEN None ELSE Eos) /\ source' = source
          /\ queued => codec'.eosQueued
          /\ NextInput = Eos /\ (input = Eos \/ phase = "InputEnded")
      BY <1>7, <1>t DEF SubmitEnd, Submitting, EndInv, Decoders, Codecs
    <2>2. fed' = IF queued THEN Append(Base, Eos) ELSE Base
      BY <2>1, FedGrows
    <2>3. platform'.configLost = platform.configLost
      BY <1>t, <2>1 DEF Queue, Platforms
    <2>4. Eos = Upcoming
      BY <2>1, NumbersDiffer DEF Upcoming, NextInput, SourceInv
    <2>5. ~queued => Upcoming' = Eos
      BY <2>1, NumbersDiffer DEF Upcoming
    <2>6. queued \in BOOLEAN /\ (queued => ConfigRestored) /\ Eos \notin Packets
          /\ decoder.needsKey \in BOOLEAN
      BY <1>t, NumbersDiffer DEF Decoders
    <2> HIDE DEF queued
    <2> QED
      BY <1>d, <2>1, <2>2, <2>3, <2>4, <2>5, <2>6, FedSubmit
  <1>8. CASE Seek
    <2>1. fed' = <<>> /\ decoder'.needsKey = TRUE
      BY <1>8 DEF Seek, Flushed
    <2> QED
      BY <2>1 DEF FedInv, Begun, Decodable
  <1>9. CASE PlatformDecodes
    BY <1>1, <1>9, <1>t DEF PlatformDecodes, DecodeConfig, DecodePacket, DecodeEnd, Offers,
                            Platforms
  <1> QED
    BY <1>2, <1>3, <1>4, <1>5, <1>6, <1>7, <1>8, <1>9 DEF Next, WorkerSteps, SubmitStep

(***************************************************************************)
(* Wherever a track is sought and however often, before or after the codec *)
(* has answered: it is given its configuration first exactly when it has   *)
(* lost it, a key frame next, and then every packet to the end.            *)
(***************************************************************************)
THEOREM DecodableAlways == Spec => []Decodable
  <1> DEFINE Inv == TypeOK /\ EndInv /\ SourceInv /\ AnswerInv /\ FedInv /\ Decodable
  <1>1. Init => Inv
    <2> SUFFICES ASSUME Init PROVE Inv
      OBVIOUS
    <2>1. TypeOK
      BY TypeInit
    <2>2. EndInv
      BY BufferTypes DEF Init, EndInv, NoOutput
    <2>3. SourceInv
      BY NumbersDiffer DEF Init, SourceInv
    <2>4. AnswerInv /\ FedInv /\ Decodable
      BY DEF Init, AnswerInv, FedInv, Begun, Decodable
    <2> QED
      BY <2>1, <2>2, <2>3, <2>4
  <1>2. Inv /\ [Next]_vars => Inv'
    BY TypeStep, EndStep, SourceStep, AnswerStep, FedStep
  <1>3. Inv => Decodable
    OBVIOUS
  <1> QED
    BY <1>1, <1>2, <1>3, PTL DEF Spec


-----------------------------------------------------------------------------
(* A queue *)

(***************************************************************************)
(* The end of the stream is the last the platform holds, and when the      *)
(* codec's own record has it the platform holds nothing.                   *)
(***************************************************************************)
EndPlace ==
    /\ codec.output.eos => ~codec.eosSeen
    /\ codec.output.eos \/ codec.eosSeen => platform.outputs = <<>> /\ platform.inputs = <<>>
    /\ EndIsLast(platform.outputs, platform.inputs)
    /\ phase = "DecoderDrained" => codec.eosSeen

(* What the platform holds after each of its steps. *)
LEMMA PlatformSteps ==
    ASSUME TypeOK, PlatformDecodes
    PROVE  /\ UNCHANGED <<codec, phase, generation>> /\ platform.inputs # <<>>
           /\ \/ /\ Current = Config /\ platform'.inputs = Rest
                 /\ platform'.outputs = platform.outputs
              \/ /\ platform'.inputs = platform.inputs
                 /\ platform'.outputs = platform.outputs
              \/ \E output \in Outputs :
                    /\ platform'.inputs = Rest
                    /\ platform'.outputs = Append(platform.outputs, output)
                    /\ output.eos <=> Current = Eos
                    /\ output.number = IF Current \in Packets THEN Current ELSE None
              \/ /\ Current = Eos /\ platform.outputs # <<>>
                 /\ platform'.inputs = Rest
                 /\ platform'.outputs = Marked(platform.outputs)
  <1>t. platform \in Platforms /\ platform.inputs \in Seq(Inputs)
        /\ platform.outputs \in Seq(Outputs)
    BY DEF TypeOK, Platforms
  <1>1. UNCHANGED <<codec, phase, generation>> /\ platform.inputs # <<>>
    BY DEF PlatformDecodes, DecodeConfig, DecodePacket, DecodeEnd, Decoding
  <1>2. \A output : Offers(output) =>
            platform'.inputs = Rest /\ platform'.outputs = Append(platform.outputs, output)
    BY <1>t DEF Offers, Platforms
  <1>3. CASE DecodeConfig
    <2>1. Current = Config /\ (Offers(NoOutput) \/ platform' = [platform EXCEPT !.inputs = Rest])
      BY <1>3 DEF DecodeConfig
    <2>2. CASE Offers(NoOutput)
      <3>1. NoOutput.eos = FALSE
        BY DEF NoOutput
      <3>2. Current # Eos /\ Current \notin Packets
        BY <2>1, NumbersDiffer, BufferTypes
      <3> QED
        BY <1>1, <1>2, <2>2, <3>1, <3>2, BufferTypes
    <2>3. CASE platform' = [platform EXCEPT !.inputs = Rest]
      <3>1. platform'.inputs = Rest /\ platform'.outputs = platform.outputs
        BY <1>t, <2>3 DEF Platforms
      <3> QED
        BY <1>1, <2>1, <3>1
    <2> QED
      BY <2>1, <2>2, <2>3
  <1>4. CASE DecodePacket
    <2> DEFINE output == [number |-> Current, time |-> Head(platform.inputs).time, eos |-> FALSE]
    <2>1. Current \in Packets
          /\ (platform' = [platform EXCEPT !.format = "changed"] \/ Offers(output))
      BY <1>4 DEF DecodePacket
    <2>2. CASE platform' = [platform EXCEPT !.format = "changed"]
      <3>1. platform'.inputs = platform.inputs /\ platform'.outputs = platform.outputs
        BY <1>t, <2>2 DEF Platforms
      <3> QED
        BY <1>1, <3>1
    <2>3. CASE Offers(output)
      <3>1. Head(platform.inputs) \in Inputs
        BY <1>t, <1>1, HeadAndTail
      <3>2. output \in Outputs /\ output.eos = FALSE /\ output.number = Current
        BY <2>1, <3>1 DEF Outputs, Inputs
      <3>3. Current # Eos
        BY <2>1, BufferTypes
      <3> HIDE DEF output
      <3> QED
        BY <1>1, <1>2, <2>1, <2>3, <3>2, <3>3
    <2> QED
      BY <2>1, <2>2, <2>3
  <1>5. CASE DecodeEnd
    <2>1. /\ Current = Eos
          /\ \/ Offers(EndOutput)
             \/ /\ platform.outputs # <<>>
                /\ platform' = [platform EXCEPT !.inputs = Rest,
                                       !.outputs = Marked(@)]
      BY <1>5 DEF DecodeEnd
    <2>2. CASE Offers(EndOutput)
      <3>1. EndOutput.eos = TRUE /\ Current \notin Packets
        BY <2>1, BufferTypes DEF EndOutput
      <3> QED
        BY <1>1, <1>2, <2>1, <2>2, <3>1, BufferTypes
    <2>3. CASE /\ platform.outputs # <<>>
               /\ platform' = [platform EXCEPT !.inputs = Rest,
                                      !.outputs = Marked(@)]
      <3>1. platform'.inputs = Rest /\ platform'.outputs = Marked(platform.outputs)
        BY <1>t, <2>3 DEF Platforms, Marked
      <3> QED
        BY <1>1, <2>1, <2>3, <3>1
    <2> QED
      BY <2>1, <2>2, <2>3
  <1> QED
    BY <1>3, <1>4, <1>5 DEF PlatformDecodes

LEMMA SubmitSteps ==
    ASSUME TypeOK, OffsetInv, SubmitPacket \/ SubmitEnd
    PROVE  \E items \in Seq(Inputs), x \in Inputs :
              /\ platform'.inputs = platform.inputs \o items
              /\ platform'.outputs = platform.outputs
              /\ Added(items, x) /\ x.number \in Packets \cup {Eos}
              /\ phase \notin {"Draining", "DecoderDrained"} /\ phase' # "DecoderDrained"
              /\ codec'.output = codec.output /\ codec'.eosSeen = codec.eosSeen
              /\ generation' = generation
  <1>t. platform \in Platforms /\ codec \in Codecs
    BY DEF TypeOK
  <1>1. ASSUME NEW items \in Loads, Queue(items)
        PROVE  /\ items \in Seq(Inputs)
               /\ platform'.inputs = platform.inputs \o items
               /\ platform'.outputs = platform.outputs
    <2>1. platform' = [platform EXCEPT !.inputs = platform.inputs \o items]
      BY <1>1, QueueType
    <2> QED
      BY <1>t, <2>1 DEF Platforms, Loads
  <1>2. ASSUME NEW x \in Inputs PROVE Added(Due, x) /\ Added(Append(Due, x), x)
    <2>1. Due = <<>> \/ Due = <<ConfigInput>>
      BY DueType
    <2> QED
      BY <2>1 DEF Added
  <1>3. CASE SubmitPacket
    <2> DEFINE n == NextInput
               item == [number |-> n, time |-> Pts(n) + OffsetFor(n)]
               queued == ConfigRestored /\ HasRoom(Due) /\ Pts(n) + OffsetFor(n) >= 0
               items == IF queued THEN Append(Due, item) ELSE Due
    <2>1. /\ n \in Packets /\ Pulled /\ Queue(items) /\ UNCHANGED <<phase, codec, generation>>
          /\ phase \notin {"Draining", "DecoderDrained"}
      BY <1>3 DEF SubmitPacket, Submitting
    <2>2. item \in Inputs /\ item.number \in Packets \cup {Eos}
      <3>1. Pts(n) + OffsetFor(n) \in Int
        BY <2>1 DEF OffsetFor, Pts, Packets, TypeOK, Decoders, None
      <3>2. Pts(n) + OffsetFor(n) >= 0
        BY <2>1, NextPacket
      <3> QED
        BY <2>1, <3>1, <3>2 DEF Inputs
    <2> HIDE DEF item
    <2>3. items \in Loads /\ Added(items, item)
      BY <1>2, <2>2, DueType
    <2> HIDE DEF items, n
    <2> QED
      BY <1>1, <2>1, <2>2, <2>3
  <1>4. CASE SubmitEnd
    <2> DEFINE item == [number |-> Eos, time |-> 0]
               queued == ConfigRestored /\ HasRoom(Due)
               items == IF queued THEN Append(Due, item) ELSE Due
    <2>1. /\ Queue(items) /\ phase' = IF queued THEN "Draining" ELSE phase
          /\ phase \notin {"Draining", "DecoderDrained"} /\ generation' = generation
      BY <1>4 DEF SubmitEnd, Submitting
    <2>2. codec'.eosSeen = codec.eosSeen /\ codec'.output = codec.output
      BY <1>4, <1>t DEF SubmitEnd, Codecs
    <2>3. item \in Inputs /\ item.number \in Packets \cup {Eos}
      BY DEF Inputs
    <2> HIDE DEF item
    <2>4. items \in Loads /\ Added(items, item)
      BY <1>2, <2>3, DueType
    <2> HIDE DEF items
    <2>5. phase' # "DecoderDrained"
      BY <2>1
    <2> QED
      BY <1>1, <2>1, <2>2, <2>3, <2>4, <2>5
  <1> QED
    BY <1>3, <1>4


(* What receive does with the output it takes. *)
LEMMA OutputTaken ==
    ASSUME TypeOK, TokenNamesSlot, BufferReady,
           platform' = [platform EXCEPT !.outputs = Tail(@), !.answered = TRUE]
    PROVE  /\ platform'.inputs = platform.inputs
           /\ platform'.outputs = Tail(platform.outputs)
           /\ platform.outputs # <<>>
           /\ codec.output = NoOutput /\ ~codec.eosSeen /\ phase # "DecoderDrained"
           /\ pc = "receive" /\ frame = NoFrame
           /\ Head(platform.outputs) \in Outputs
  <1>1. platform'.inputs = platform.inputs /\ platform'.outputs = Tail(platform.outputs)
    BY DEF TypeOK, Platforms
  <1>2. /\ pc = "receive" /\ frame = NoFrame /\ platform.outputs # <<>>
        /\ ~codec.eosSeen /\ phase # "DecoderDrained"
    BY DEF BufferReady, Polling, Receiving
  <1>3. codec.output = NoOutput
    BY <1>2 DEF TokenNamesSlot
  <1>4. Head(platform.outputs) \in Outputs
    BY <1>2, HeadAndTail DEF TypeOK, Platforms
  <1> QED
    BY <1>1, <1>2, <1>3, <1>4

(* A picture is taken: the codec keeps it, or gives it back at once. *)
LEMMA FrameTaken ==
    ASSUME TypeOK, NEW early \in BOOLEAN, ReceiveFrame(early)
    PROVE  /\ BufferReady /\ UNCHANGED <<phase, generation>>
           /\ Head(platform.outputs).number # None
           /\ platform' = [platform EXCEPT !.outputs = Tail(@), !.answered = TRUE]
           /\ \/ /\ codec'.output = Head(platform.outputs)
                 /\ codec'.eosSeen = codec.eosSeen
              \/ /\ codec'.output = NoOutput
                 /\ codec'.eosSeen = (codec.eosSeen \/ Head(platform.outputs).eos)
  <1> DEFINE out == Head(platform.outputs)
             token == <<generation, out.number>>
             holding == [codec EXCEPT !.output = out, !.identity = token, !.started = TRUE]
  <1>1. /\ BufferReady /\ UNCHANGED <<phase, generation>> /\ out.number # None
        /\ platform' = [platform EXCEPT !.outputs = Tail(@), !.answered = TRUE]
        /\ codec' \in {holding, GiveBack(holding)}
    BY DEF ReceiveFrame
  <1>2. out \in Outputs
    BY <1>1, HeadAndTail DEF BufferReady, TypeOK, Platforms
  <1> HIDE DEF out
  <1>3. holding.output = out /\ holding.eosSeen = codec.eosSeen
    BY DEF TypeOK, Codecs
  <1>4. GiveBack(holding).output = NoOutput
        /\ GiveBack(holding).eosSeen = (codec.eosSeen \/ out.eos)
    BY DEF TypeOK, Codecs, GiveBack
  <1> HIDE DEF holding
  <1> QED
    BY <1>1, <1>3, <1>4 DEF out

(* A slot goes back, when its frame is finished or the branch closed. *)
LEMMA SlotGivenBack ==
    ASSUME TypeOK, TokenNamesSlot, FinishStep \/ Close
    PROVE  /\ UNCHANGED <<phase, platform, generation>>
           /\ \/ Close /\ codec' = codec
              \/ /\ codec'.output = NoOutput
                 /\ codec'.eosSeen = (codec.eosSeen \/ codec.output.eos)
                 /\ codec.output = NoOutput \/ codec.output.number \in Packets
                 /\ codec.output = NoOutput => Close
  <1>1. UNCHANGED <<phase, platform, generation>>
    BY DEF FinishStep, FinishFrame, Close
  <1>2. pc # "closed" /\ codec.identity = frame.token
    BY DEF FinishStep, FinishFrame, Close, TokenNamesSlot
  <1>3. Released(codec, frame.token) = GiveBack(codec)
    BY <1>2 DEF Released, IsStale
  <1>4. (FinishStep /\ codec' = GiveBack(codec)) \/ (Close /\ codec' \in {codec, GiveBack(codec)})
    BY <1>3 DEF FinishStep, FinishFrame, Close
  <1>5. GiveBack(codec).output = NoOutput
        /\ GiveBack(codec).eosSeen = (codec.eosSeen \/ codec.output.eos)
    BY DEF TypeOK, Codecs, GiveBack
  <1>6. frame # NoFrame => codec.output.number \in Packets
    <2> SUFFICES ASSUME frame # NoFrame PROVE codec.output.number \in Packets
      OBVIOUS
    <2>1. frame.token = <<generation, codec.output.number>>
      BY <1>2 DEF TokenNamesSlot
    <2>2. frame.token \in (0 .. MaxFlush) \X Packets
      BY DEF TypeOK, Tokens
    <2> QED
      BY <2>1, <2>2
  <1>7. frame = NoFrame => codec.output = NoOutput
    BY <1>2 DEF TokenNamesSlot
  <1>8. FinishStep => frame # NoFrame
    BY DEF FinishStep, FinishFrame
  <1>9. codec.output.number \in Packets => codec.output # NoOutput
    BY BufferTypes
  <1> QED
    BY <1>1, <1>4, <1>5, <1>6, <1>7, <1>8, <1>9

EndPlaceInv == TypeOK /\ TokenNamesSlot /\ OffsetInv /\ EndInv /\ EndPlace

LEMMA PlatformMoves ==
    ASSUME TypeOK, PlatformDecodes
    PROVE  /\ UNCHANGED <<codec, phase, generation>>
           /\ Decodes(Outputs, platform.inputs, platform.outputs, platform'.inputs, platform'.outputs)
  BY PlatformSteps DEF Decodes, Rest, Current

LEMMA EndPlaceStep == EndPlaceInv /\ [Next]_vars => EndPlace'
  <1> SUFFICES ASSUME EndPlaceInv, [Next]_vars PROVE EndPlace'
    OBVIOUS
  <1> USE DEF EndPlaceInv
  <1>t. /\ platform.inputs \in Seq(Inputs) /\ platform.outputs \in Seq(Outputs)
        /\ codec \in Codecs /\ NoOutput.eos = FALSE
    BY DEF TypeOK, Platforms, NoOutput
  <1>p. /\ codec.output.eos => ~codec.eosSeen
        /\ codec.output.eos \/ codec.eosSeen => platform.outputs = <<>> /\ platform.inputs = <<>>
        /\ EndIsLast(platform.outputs, platform.inputs)
        /\ phase = "DecoderDrained" => codec.eosSeen
    BY DEF EndPlace
  <1>1. CASE UNCHANGED <<codec, phase, platform>>
    BY <1>1 DEF EndPlace, EndIsLast
  <1>2. CASE ReceiveFormat
    <2>1. /\ platform'.inputs = platform.inputs /\ platform'.outputs = platform.outputs
          /\ codec'.eosSeen = codec.eosSeen /\ codec'.output = codec.output /\ phase' = phase
      BY <1>2 DEF ReceiveFormat, Platforms, Codecs, TypeOK
    <2> QED
      BY <1>p, <2>1 DEF EndPlace
  <1>3. CASE ReceiveEnd
    BY <1>p, <1>3 DEF ReceiveEnd, EndPlace
  <1>4. ASSUME platform.outputs # <<>>
        PROVE  /\ EndIsLast(Tail(platform.outputs), platform.inputs)
               /\ Head(platform.outputs).eos =>
                    Tail(platform.outputs) = <<>> /\ platform.inputs = <<>>
    BY <1>t, <1>p, <1>4, EndTaken
  <1>5. CASE ReceiveEmpty
    <2>1. /\ BufferReady
          /\ platform' = [platform EXCEPT !.outputs = Tail(@), !.answered = TRUE]
          /\ phase' = phase \/ Head(platform.outputs).eos
      BY <1>5 DEF ReceiveEmpty
    <2>2. codec'.output = codec.output /\ codec'.eosSeen = Head(platform.outputs).eos
      BY <1>5 DEF ReceiveEmpty, TypeOK, Codecs
    <2>3. /\ platform'.inputs = platform.inputs /\ platform'.outputs = Tail(platform.outputs)
          /\ platform.outputs # <<>> /\ codec.output = NoOutput /\ phase # "DecoderDrained"
      BY <2>1, OutputTaken
    <2> QED
      BY <1>t, <1>4, <2>1, <2>2, <2>3 DEF EndPlace
  <1>6. ASSUME NEW early \in BOOLEAN, ReceiveFrame(early) PROVE EndPlace'
    <2>1. /\ BufferReady /\ phase' = phase
          /\ platform' = [platform EXCEPT !.outputs = Tail(@), !.answered = TRUE]
          /\ \/ /\ codec'.output = Head(platform.outputs)
                /\ codec'.eosSeen = codec.eosSeen
             \/ /\ codec'.output = NoOutput
                /\ codec'.eosSeen = (codec.eosSeen \/ Head(platform.outputs).eos)
      BY <1>6, FrameTaken
    <2>2. /\ platform'.inputs = platform.inputs /\ platform'.outputs = Tail(platform.outputs)
          /\ platform.outputs # <<>> /\ ~codec.eosSeen /\ phase # "DecoderDrained"
      BY <2>1, OutputTaken
    <2> QED
      BY <1>t, <1>4, <2>1, <2>2 DEF EndPlace
  <1>7. CASE FinishStep \/ Close
    <2>1. /\ UNCHANGED <<phase, platform>>
          /\ \/ codec' = codec
             \/ /\ codec'.output = NoOutput
                /\ codec'.eosSeen = (codec.eosSeen \/ codec.output.eos)
      BY <1>7, SlotGivenBack
    <2> QED
      BY <1>t, <1>p, <2>1 DEF EndPlace
  <1>8. CASE SubmitPacket \/ SubmitEnd
    <2>1. PICK items \in Seq(Inputs), x \in Inputs :
              /\ platform'.inputs = platform.inputs \o items
              /\ platform'.outputs = platform.outputs
              /\ Added(items, x) /\ x.number \in Packets \cup {Eos}
              /\ phase \notin {"Draining", "DecoderDrained"} /\ phase' # "DecoderDrained"
              /\ codec'.output = codec.output /\ codec'.eosSeen = codec.eosSeen
              /\ generation' = generation
      BY <1>8, SubmitSteps
    <2>2. /\ ~codec.eosSeen /\ ~codec.output.eos
          /\ \A i \in 1 .. Len(platform.inputs) : platform.inputs[i].number # Eos
          /\ \A i \in 1 .. Len(platform.outputs) : ~platform.outputs[i].eos
      BY <2>1 DEF EndInv
    <2>3. \A i \in 1 .. Len(items) : items[i].number = Eos => i = Len(items)
      BY <2>1, AddedEnd
    <2>4. EndIsLast(platform.outputs, platform.inputs \o items)
      BY <1>t, <2>2, <2>3, EndQueued
    <2> QED
      BY <2>1, <2>2, <2>4 DEF EndPlace
  <1>9. CASE EndInput
    BY <1>p, <1>9 DEF EndInput, EndPlace
  <1>10. CASE Seek
    <2>1. /\ platform'.inputs = <<>> /\ platform'.outputs = <<>> /\ phase' = "Feeding"
          /\ codec'.eosSeen = FALSE /\ codec'.output = NoOutput
      BY <1>10, <1>t DEF Seek, FlushPlatform, FlushCodec, Codecs
    <2>2. EndIsLast(<<>>, <<>>)
      BY DEF EndIsLast
    <2> QED
      BY <1>t, <2>1, <2>2 DEF EndPlace
  <1>11. CASE PlatformDecodes
    <2>1. /\ UNCHANGED <<codec, phase>>
          /\ Decodes(Outputs, platform.inputs, platform.outputs, platform'.inputs, platform'.outputs)
      BY <1>11, PlatformMoves
    <2>2. platform.inputs # <<>>
      BY <2>1 DEF Decodes
    <2>3. ~codec.output.eos /\ ~codec.eosSeen
      BY <1>p, <2>2
    <2>4. EndIsLast(platform'.outputs, platform'.inputs)
      BY <1>t, <1>p, <2>1, DecodesEnd, SurfaceOutputs
    <2> QED
      BY <1>p, <2>1, <2>3, <2>4 DEF EndPlace
  <1> QED
    BY <1>1, <1>2, <1>3, <1>5, <1>6, <1>7, <1>8, <1>9, <1>10, <1>11
       DEF Next, WorkerSteps, ReceiveStep, SubmitStep, vars, SkipReceive,
           ReceiveNothing, KeepFrame, SubmitNothing, GatePacket, Closed


(***************************************************************************)
(* Inside in three parts: what the codec has noted, what the platform      *)
(* offers, what waits in it.                                               *)
(***************************************************************************)
FrontOf(o, seen) == Join(Emits(o), IF seen THEN <<Eos>> ELSE <<>>)
Ending == codec.eosSeen /\ phase # "DecoderDrained"

LEMMA InsideIs ==
    /\ Inside = Three(FrontOf(codec.output, Ending), Offered(platform.outputs),
                      Waiting(platform.inputs))
    /\ Inside' = Three(FrontOf(codec'.output, Ending'), Offered(platform'.outputs),
                       Waiting(platform'.inputs))
  BY DEF Inside, Three, Join, FrontOf, Ending

LEMMA FrontFacts ==
    ASSUME NEW o \in Outputs, NEW seen \in BOOLEAN
    PROVE  /\ FrontOf(o, seen) \in Seq(Numbers)
           /\ FrontOf(NoOutput, FALSE) = <<>> /\ FrontOf(NoOutput, TRUE) = <<Eos>>
           /\ FrontOf(o, FALSE) = Emits(o)
           /\ o.number \in Packets /\ ~(o.eos /\ seen) =>
                FrontOf(o, seen) = Join(<<o.number>>, FrontOf(NoOutput, o.eos \/ seen))
  <1> DEFINE end == <<Eos>>
             W == Seq(Numbers)
  <1>1. end \in W /\ <<>> \in W
    <2>1. Eos \in Numbers
      BY DEF Numbers
    <2> QED
      BY <2>1, OneElement
  <1>2. /\ \A a, b \in W : Join(a, b) \in W
        /\ \A a \in W : Join(<<>>, a) = a /\ Join(a, <<>>) = a
        /\ \A a, b, c \in W : Join(Join(a, b), c) = Join(a, Join(b, c))
    BY JoinFacts
  <1>3. Emits(o) \in W /\ Emits(NoOutput) = <<>>
    BY EmitsIs, SurfaceOutputs, BufferTypes DEF NoOutput
  <1>4. ASSUME o.number \in Packets
        PROVE  Emits(o) = Join(<<o.number>>, IF o.eos THEN end ELSE <<>>) /\ <<o.number>> \in W
    <2>1. o.number # None /\ o.number \in Numbers
      BY <1>4, BufferTypes DEF Numbers
    <2> QED
      BY <2>1, EmitsIs, SurfaceOutputs, OneElement
  <1> HIDE DEF end, W
  <1>5. \A p \in Outputs : FrontOf(p, seen) = Join(Emits(p), IF seen THEN end ELSE <<>>)
    BY DEF FrontOf, end
  <1>6. \A p \in Outputs : FrontOf(p, TRUE) = Join(Emits(p), end)
                           /\ FrontOf(p, FALSE) = Join(Emits(p), <<>>)
    BY DEF FrontOf, end
  <1>7. NoOutput \in Outputs
    BY BufferTypes
  <1>8. FrontOf(NoOutput, FALSE) = <<>> /\ FrontOf(NoOutput, TRUE) = end
    BY <1>1, <1>2, <1>3, <1>6, <1>7
  <1>9. FrontOf(o, FALSE) = Emits(o) /\ FrontOf(o, seen) \in W
    BY <1>1, <1>2, <1>3, <1>5, <1>6
  <1>10. ASSUME o.number \in Packets, ~(o.eos /\ seen)
         PROVE  FrontOf(o, seen) = Join(<<o.number>>, FrontOf(NoOutput, o.eos \/ seen))
    <2> DEFINE x == <<o.number>>
    <2>1. Emits(o) = Join(x, IF o.eos THEN end ELSE <<>>) /\ x \in W
      BY <1>4, <1>10
    <2>2. o.eos \in BOOLEAN
      BY DEF Outputs
    <2> HIDE DEF x
    <2>3. CASE o.eos
      <3>1. FrontOf(o, seen) = Emits(o) /\ FrontOf(NoOutput, o.eos \/ seen) = end
        BY <1>8, <1>9, <1>10, <2>3
      <3> QED
        BY <2>1, <2>3, <3>1 DEF x
    <2>4. CASE ~o.eos /\ seen
      <3>1. Emits(o) = x
        BY <1>2, <2>1, <2>4
      <3>2. FrontOf(o, seen) = Join(x, end) /\ FrontOf(NoOutput, o.eos \/ seen) = end
        BY <1>6, <1>8, <2>4, <3>1
      <3> QED
        BY <3>2 DEF x
    <2>5. CASE ~o.eos /\ ~seen
      <3>1. FrontOf(o, seen) = Emits(o) /\ FrontOf(NoOutput, o.eos \/ seen) = <<>>
        BY <1>8, <1>9, <2>5
      <3> QED
        BY <2>1, <2>5, <3>1 DEF x
    <2> QED
      BY <2>2, <2>3, <2>4, <2>5
  <1> QED
    BY <1>8, <1>9, <1>10 DEF end, W

(* The parts are sequences of numbers. *)
LEMMA PartTypes ==
    ASSUME TypeOK
    PROVE  /\ codec.output \in Outputs /\ Ending \in BOOLEAN
           /\ platform.outputs \in Seq(Outputs) /\ platform.inputs \in Seq(Inputs)
           /\ FrontOf(codec.output, Ending) \in Seq(Numbers)
           /\ Offered(platform.outputs) \in Seq(Numbers)
           /\ Waiting(platform.inputs) \in Seq(Numbers)
           /\ Inside \in Seq(Numbers)
  <1>1. /\ codec.output \in Outputs /\ Ending \in BOOLEAN
        /\ platform.outputs \in Seq(Outputs) /\ platform.inputs \in Seq(Inputs)
    BY DEF TypeOK, Codecs, Platforms, Ending
  <1>2. FrontOf(codec.output, Ending) \in Seq(Numbers)
    BY <1>1, FrontFacts
  <1>3. Offered(platform.outputs) \in Seq(Numbers) /\ Waiting(platform.inputs) \in Seq(Numbers)
    BY <1>1, OfferedSteps, SurfaceOutputs, WaitingSteps
  <1>4. Three(FrontOf(codec.output, Ending), Offered(platform.outputs),
              Waiting(platform.inputs)) \in Seq(Numbers)
    BY <1>2, <1>3, ThreeJoined
  <1> QED
    BY <1>1, <1>2, <1>3, <1>4, InsideIs

(* While the end was not submitted, it is nowhere. *)
LEMMA NoEndInside ==
    ASSUME TypeOK, EndInv, ~codec.eosQueued
    PROVE  Inside \in Seq(Packets)
  <1>1. codec.output \in Outputs /\ ~codec.output.eos /\ ~Ending
    BY DEF EndInv, Ending, TypeOK, Codecs
  <1>2. FrontOf(codec.output, Ending) \in Seq(Packets)
    <2>1. FrontOf(codec.output, FALSE) = Emits(codec.output)
      BY <1>1, FrontFacts
    <2>2. Emits(codec.output) \in Seq(Packets)
      BY <1>1, EmitsIs, SurfaceOutputs
    <2>3. Ending = FALSE
      BY <1>1, PartTypes
    <2> QED
      BY <2>1, <2>2, <2>3
  <1>3. Offered(platform.outputs) \in Seq(Packets) /\ Waiting(platform.inputs) \in Seq(Packets)
    BY NoEnd, SurfaceOutputs DEF EndInv, TypeOK, Platforms
  <1>4. Three(FrontOf(codec.output, Ending), Offered(platform.outputs), Waiting(platform.inputs))
           \in Seq(Packets)
    BY <1>2, <1>3, ThreeJoined
  <1> QED
    BY <1>4, InsideIs

(* What a step does to the queue. *)
Stays == Inside' = Inside /\ generation' = generation
Leaves == (\E x \in Numbers : Inside = Join(<<x>>, Inside')) /\ generation' = generation
Comes == /\ Inside \in Seq(Packets) /\ generation' = generation
         /\ \E x \in Numbers : Inside' = Join(Inside, <<x>>)
Empties == Inside' = <<>> /\ generation' = generation + 1
LEMMA QueueEnd == EndPlaceInv /\ ReceiveEnd => Leaves
  <1> SUFFICES ASSUME EndPlaceInv, ReceiveEnd PROVE Leaves
    OBVIOUS
  <1>1. /\ frame = NoFrame /\ pc = "receive" /\ codec.eosSeen /\ phase # "DecoderDrained"
        /\ phase' = "DecoderDrained" /\ UNCHANGED <<codec, platform, generation>>
    BY DEF ReceiveEnd, Receiving, EndOfStream
  <1>2. codec.output = NoOutput
    BY <1>1 DEF EndPlaceInv, TokenNamesSlot
  <1>3. Ending = TRUE /\ Ending' = FALSE
    BY <1>1 DEF Ending, EndPlaceInv, TypeOK, Codecs
  <1> DEFINE c == Offered(platform.outputs)
             d == Waiting(platform.inputs)
             end == <<Eos>>
  <1>4. c \in Seq(Numbers) /\ d \in Seq(Numbers) /\ end \in Seq(Numbers) /\ Eos \in Numbers
    <2>1. Eos \in Numbers
      BY DEF Numbers
    <2> QED
      BY <2>1, PartTypes, OneElement DEF EndPlaceInv
  <1>5. FrontOf(NoOutput, FALSE) = <<>> /\ FrontOf(NoOutput, TRUE) = end
    BY FrontFacts, BufferTypes
  <1>6. Inside = Three(end, c, d) /\ Inside' = Three(<<>>, c, d)
    BY <1>1, <1>2, <1>3, <1>5, InsideIs
  <1> HIDE DEF c, d, end
  <1>7. Three(end, c, d) = Join(end, Three(<<>>, c, d))
    BY <1>4, ThreeJoined
  <1> QED
    BY <1>1, <1>4, <1>6, <1>7 DEF Leaves, end

LEMMA QueueEmpty == EndPlaceInv /\ ReceiveEmpty => Stays \/ Leaves
  <1> SUFFICES ASSUME EndPlaceInv, ReceiveEmpty PROVE Stays \/ Leaves
    OBVIOUS
  <1> USE DEF EndPlaceInv
  <1> DEFINE out == Head(platform.outputs)
  <1>1. /\ BufferReady /\ out.number = None /\ generation' = generation
        /\ platform' = [platform EXCEPT !.outputs = Tail(@), !.answered = TRUE]
        /\ codec'.output = codec.output /\ codec'.eosSeen = out.eos
        /\ IF out.eos THEN phase' = "DecoderDrained" ELSE phase' = phase
    BY DEF ReceiveEmpty, EndOfStream, TypeOK, Codecs
  <1>2. /\ platform'.inputs = platform.inputs /\ platform'.outputs = Tail(platform.outputs)
        /\ platform.outputs # <<>> /\ codec.output = NoOutput /\ ~codec.eosSeen
        /\ out \in Outputs
    BY <1>1, OutputTaken
  <1>3. Ending = FALSE /\ Ending' = FALSE
    BY <1>1, <1>2 DEF Ending
  <1> DEFINE c == Offered(Tail(platform.outputs))
             d == Waiting(platform.inputs)
             e == Emits(out)
  <1>4. Offered(platform.outputs) = Join(e, c) /\ c \in Seq(Numbers) /\ d \in Seq(Numbers)
    <2>1. platform.outputs \in Seq(Outputs) /\ Tail(platform.outputs) \in Seq(Outputs)
      BY <1>2, PartTypes, TailFacts
    <2> QED
      BY <1>2, <2>1, PartTypes, OfferedSteps, SurfaceOutputs
  <1>5. FrontOf(NoOutput, FALSE) = <<>>
    BY FrontFacts, BufferTypes
  <1>6. Inside = Three(<<>>, Join(e, c), d) /\ Inside' = Three(<<>>, c, d)
    BY <1>1, <1>2, <1>3, <1>4, <1>5, InsideIs
  <1>7. e \in Seq(Numbers) /\ (~out.eos => e = <<>>) /\ (out.eos => e = <<Eos>>)
    BY <1>1, <1>2, EmitsIs, SurfaceOutputs
  <1>8. Eos \in Numbers
    BY DEF Numbers
  <1> HIDE DEF c, d, e, out
  <1>9. Three(<<>>, Join(e, c), d) = Join(e, Three(<<>>, c, d))
    BY <1>4, <1>7, ThreeJoined
  <1>10. CASE out.eos
    BY <1>1, <1>6, <1>7, <1>8, <1>9, <1>10 DEF Leaves
  <1>11. CASE ~out.eos
    <2>1. Join(e, c) = c
      BY <1>4, <1>7, <1>11, JoinFacts
    <2> QED
      BY <1>1, <1>6, <2>1 DEF Stays
  <1> QED
    BY <1>10, <1>11

LEMMA QueueFrame ==
    ASSUME EndPlaceInv, NEW early \in BOOLEAN, ReceiveFrame(early)
    PROVE  Stays \/ Leaves
  <1> USE DEF EndPlaceInv
  <1> DEFINE out == Head(platform.outputs)
  <1>1. /\ BufferReady /\ UNCHANGED <<phase, generation>> /\ out.number # None
        /\ platform' = [platform EXCEPT !.outputs = Tail(@), !.answered = TRUE]
        /\ \/ codec'.output = out /\ codec'.eosSeen = codec.eosSeen
           \/ codec'.output = NoOutput /\ codec'.eosSeen = (codec.eosSeen \/ out.eos)
    BY FrameTaken
  <1>2. /\ platform'.inputs = platform.inputs /\ platform'.outputs = Tail(platform.outputs)
        /\ platform.outputs # <<>> /\ codec.output = NoOutput /\ ~codec.eosSeen
        /\ phase # "DecoderDrained" /\ out \in Outputs
    BY <1>1, OutputTaken
  <1>3. out.number \in Packets /\ out.eos \in BOOLEAN /\ codec.eosSeen = FALSE
    BY <1>1, <1>2 DEF Outputs, TypeOK, Codecs
  <1>4. Ending = FALSE
    BY <1>2, PartTypes DEF Ending
  <1> DEFINE c == Offered(Tail(platform.outputs))
             d == Waiting(platform.inputs)
             e == Emits(out)
             b == FrontOf(NoOutput, out.eos)
             x == <<out.number>>
  <1>5. Offered(platform.outputs) = Join(e, c) /\ c \in Seq(Numbers) /\ d \in Seq(Numbers)
    <2>1. platform.outputs \in Seq(Outputs) /\ Tail(platform.outputs) \in Seq(Outputs)
      BY <1>2, PartTypes, TailFacts
    <2> QED
      BY <1>2, <2>1, PartTypes, OfferedSteps, SurfaceOutputs
  <1>6. /\ e \in Seq(Numbers) /\ b \in Seq(Numbers) /\ x \in Seq(Numbers)
        /\ FrontOf(NoOutput, FALSE) = <<>> /\ FrontOf(out, FALSE) = e /\ e = Join(x, b)
    <2>1. e \in Seq(Numbers)
      BY <1>2, EmitsIs, SurfaceOutputs
    <2>2. FrontOf(NoOutput, FALSE) = <<>> /\ FrontOf(out, FALSE) = e
      BY <1>2, FrontFacts
    <2>3. FrontOf(out, FALSE) = Join(x, FrontOf(NoOutput, out.eos \/ FALSE))
      BY <1>2, <1>3, FrontFacts
    <2>4. (out.eos \/ FALSE) = out.eos
      BY <1>3
    <2>5. b \in Seq(Numbers)
      BY <1>3, FrontFacts, BufferTypes
    <2>6. out.number \in Numbers
      BY <1>3 DEF Numbers
    <2> QED
      BY <2>1, <2>2, <2>3, <2>4, <2>5, <2>6, OneElement
  <1>7. Inside = Three(<<>>, Join(e, c), d)
    BY <1>2, <1>4, <1>5, <1>6, InsideIs
  <1>8. out.number \in Numbers
    BY <1>3 DEF Numbers
  <1>9. \/ codec'.output = out /\ Ending' = FALSE
        \/ codec'.output = NoOutput /\ Ending' = out.eos
    BY <1>1, <1>2, <1>3 DEF Ending
  <1>10. Inside' = Three(e, c, d) \/ Inside' = Three(b, c, d)
    BY <1>2, <1>6, <1>9, InsideIs
  <1> HIDE DEF c, d, e, b, x, out
  <1>11. Three(<<>>, Join(e, c), d) = Join(e, Three(<<>>, c, d))
    BY <1>5, <1>6, ThreeJoined
  <1>12. Three(e, c, d) = Join(e, Three(<<>>, c, d))
    BY <1>5, <1>6, ThreeJoined
  <1>13. Three(e, c, d) = Join(x, Three(b, c, d))
    BY <1>5, <1>6, ThreeJoined
  <1>14. CASE Inside' = Three(e, c, d)
    BY <1>1, <1>7, <1>11, <1>12, <1>14 DEF Stays
  <1>15. CASE Inside' = Three(b, c, d)
    BY <1>1, <1>7, <1>8, <1>11, <1>12, <1>13, <1>15 DEF Leaves, x
  <1> QED
    BY <1>10, <1>14, <1>15

LEMMA QueueRelease == EndPlaceInv /\ (FinishStep \/ Close) => Stays \/ Leaves
  <1> SUFFICES ASSUME EndPlaceInv, FinishStep \/ Close PROVE Stays \/ Leaves
    OBVIOUS
  <1> USE DEF EndPlaceInv
  <1> DEFINE o == codec.output
  <1>1. /\ UNCHANGED <<phase, platform, generation>>
        /\ \/ codec' = codec
           \/ /\ codec'.output = NoOutput
              /\ codec'.eosSeen = (codec.eosSeen \/ o.eos)
              /\ o = NoOutput \/ o.number \in Packets
    BY SlotGivenBack
  <1>2. codec.eosSeen \in BOOLEAN /\ o \in Outputs /\ o.eos \in BOOLEAN /\ Ending \in BOOLEAN
        /\ NoOutput.eos = FALSE
    BY PartTypes DEF TypeOK, Codecs, Outputs, NoOutput
  <1>3. o.eos => ~codec.eosSeen /\ phase # "DecoderDrained"
    BY DEF EndPlace
  <1>4. CASE codec' = codec
    BY <1>1, <1>4, InsideIs DEF Stays, Ending
  <1>5. CASE codec'.output = NoOutput /\ codec'.eosSeen = (codec.eosSeen \/ o.eos)
    <2>1. Ending' = (o.eos \/ Ending) /\ ~(o.eos /\ Ending)
      BY <1>1, <1>2, <1>3, <1>5 DEF Ending
    <2>2. CASE o = NoOutput
      <3>1. Ending' = Ending
        BY <1>2, <2>1, <2>2
      <3> QED
        BY <1>1, <1>5, <2>2, <3>1, InsideIs DEF Stays
    <2>3. CASE o.number \in Packets
      <3> DEFINE c == Offered(platform.outputs)
                 d == Waiting(platform.inputs)
                 b == FrontOf(NoOutput, Ending')
                 x == <<o.number>>
      <3>1. FrontOf(o, Ending) = Join(x, FrontOf(NoOutput, o.eos \/ Ending))
        BY <1>2, <2>1, <2>3, FrontFacts
      <3>2. Inside = Three(Join(x, b), c, d) /\ Inside' = Three(b, c, d)
        BY <1>1, <1>5, <2>1, <3>1, InsideIs
      <3>3. Ending' \in BOOLEAN
        BY <1>2, <2>1
      <3>4. /\ b \in Seq(Numbers) /\ c \in Seq(Numbers) /\ d \in Seq(Numbers)
            /\ x \in Seq(Numbers) /\ o.number \in Numbers
        <4>1. o.number \in Numbers
          BY <2>3 DEF Numbers
        <4>2. b \in Seq(Numbers)
          BY <3>3, FrontFacts, BufferTypes
        <4> QED
          BY <4>1, <4>2, PartTypes, OneElement
      <3> HIDE DEF b, c, d, x
      <3>5. Three(Join(x, b), c, d) = Join(x, Three(b, c, d))
        BY <3>4, ThreeJoined
      <3> QED
        BY <1>1, <3>2, <3>4, <3>5 DEF Leaves, x
    <2> QED
      BY <1>1, <1>5, <2>2, <2>3
  <1> QED
    BY <1>1, <1>4, <1>5


LEMMA QueueSubmit == EndPlaceInv /\ (SubmitPacket \/ SubmitEnd) => Stays \/ Comes
  <1> SUFFICES ASSUME EndPlaceInv, SubmitPacket \/ SubmitEnd PROVE Stays \/ Comes
    OBVIOUS
  <1> USE DEF EndPlaceInv
  <1>1. PICK items \in Seq(Inputs), x \in Inputs :
            /\ platform'.inputs = platform.inputs \o items
            /\ platform'.outputs = platform.outputs
            /\ Added(items, x) /\ x.number \in Packets \cup {Eos}
            /\ phase \notin {"Draining", "DecoderDrained"} /\ phase' # "DecoderDrained"
            /\ codec'.output = codec.output /\ codec'.eosSeen = codec.eosSeen
            /\ generation' = generation
    BY SubmitSteps
  <1>2. Inside \in Seq(Packets)
    <2>1. ~codec.eosQueued
      BY <1>1 DEF EndInv
    <2> QED
      BY <2>1, NoEndInside
  <1>3. Ending' = Ending
    BY <1>1 DEF Ending
  <1> DEFINE b == FrontOf(codec.output, Ending)
             c == Offered(platform.outputs)
             d == Waiting(platform.inputs)
             s == <<x.number>>
  <1>4. /\ b \in Seq(Numbers) /\ c \in Seq(Numbers) /\ d \in Seq(Numbers) /\ s \in Seq(Numbers)
        /\ x.number \in Numbers
    <2>1. x.number \in Numbers
      BY <1>1 DEF Numbers
    <2> QED
      BY <2>1, PartTypes, OneElement
  <1>5. Waiting(platform.inputs \o items) \in {d, Join(d, s)}
    BY <1>1, PartTypes, AddedWaiting
  <1>6. Inside = Three(b, c, d)
    BY InsideIs
  <1>7. Inside' = Three(b, c, d) \/ Inside' = Three(b, c, Join(d, s))
    BY <1>1, <1>3, <1>5, InsideIs
  <1> HIDE DEF b, c, d, s
  <1>8. Three(b, c, Join(d, s)) = Join(Three(b, c, d), s)
    BY <1>4, ThreeJoined
  <1> QED
    BY <1>1, <1>2, <1>4, <1>6, <1>7, <1>8 DEF Stays, Comes, s

(* The platform moves what it holds, and nothing else: the queue is the same. *)
LEMMA QueuePlatform == EndPlaceInv /\ PlatformDecodes => Stays
  <1> SUFFICES ASSUME EndPlaceInv, PlatformDecodes PROVE Stays
    OBVIOUS
  <1> USE DEF EndPlaceInv
  <1>1. /\ UNCHANGED <<codec, phase, generation>>
        /\ Decodes(Outputs, platform.inputs, platform.outputs, platform'.inputs, platform'.outputs)
    BY PlatformMoves
  <1>2. Ending' = Ending
    BY <1>1 DEF Ending
  <1>3. EndIsLast(platform.outputs, platform.inputs)
    BY DEF EndPlace
  <1>4. Three(FrontOf(codec.output, Ending), Offered(platform'.outputs), Waiting(platform'.inputs))
           = Three(FrontOf(codec.output, Ending), Offered(platform.outputs), Waiting(platform.inputs))
    BY <1>1, <1>3, PartTypes, DecodesQueue, SurfaceOutputs
  <1> QED
    BY <1>1, <1>2, <1>4, InsideIs DEF Stays

LEMMA QueueSeek == EndPlaceInv /\ Seek => Empties
  <1> SUFFICES ASSUME EndPlaceInv, Seek PROVE Empties
    OBVIOUS
  <1>1. /\ platform'.inputs = <<>> /\ platform'.outputs = <<>> /\ codec'.output = NoOutput
        /\ codec'.eosSeen = FALSE /\ generation' = generation + 1
    BY DEF Seek, FlushPlatform, FlushCodec, EndPlaceInv, TypeOK, Codecs
  <1>2. Ending' = FALSE
    BY <1>1 DEF Ending
  <1>3. Offered(<<>>) = <<>> /\ Waiting(<<>>) = <<>> /\ FrontOf(NoOutput, FALSE) = <<>>
    <2>1. <<>> \in Seq(Outputs) /\ <<>> \in Seq(Inputs)
      OBVIOUS
    <2> QED
      BY <2>1, OfferedSteps, SurfaceOutputs, WaitingSteps, FrontFacts, BufferTypes
  <1>4. Three(<<>>, <<>>, <<>>) = <<>>
    BY JoinFacts DEF Three
  <1> QED
    BY <1>1, <1>2, <1>3, <1>4, InsideIs DEF Empties

(* Every step of the branch is a step of the queue, or none. *)
LEMMA QueueStep ==
    EndPlaceInv /\ [Next]_vars => Stays \/ Leaves \/ Comes \/ Empties
  <1> SUFFICES ASSUME EndPlaceInv, [Next]_vars PROVE Stays \/ Leaves \/ Comes \/ Empties
    OBVIOUS
  <1>1. CASE UNCHANGED <<codec, phase, platform, generation>>
    BY <1>1, InsideIs DEF Stays, Ending
  <1>2. CASE ReceiveFormat
    <2>1. /\ platform'.inputs = platform.inputs /\ platform'.outputs = platform.outputs
          /\ codec'.eosSeen = codec.eosSeen /\ codec'.output = codec.output /\ phase' = phase
          /\ generation' = generation
      BY <1>2 DEF ReceiveFormat, Platforms, Codecs, TypeOK, EndPlaceInv
    <2> QED
      BY <2>1, InsideIs DEF Stays, Ending
  <1>3. CASE EndInput
    <2>1. Ending' = Ending /\ UNCHANGED <<codec, platform, generation>>
      BY <1>3 DEF EndInput, Ending
    <2> QED
      BY <2>1, InsideIs DEF Stays
  <1> QED
    BY <1>1, <1>2, <1>3, QueueEnd, QueueEmpty, QueueFrame, QueueRelease, QueueSubmit,
       QueuePlatform, QueueSeek
       DEF Next, WorkerSteps, ReceiveStep, SubmitStep, vars, SkipReceive,
           ReceiveNothing, KeepFrame, SubmitNothing, GatePacket, Closed


(* The queue's steps are those a pipeline branch may assume of its decoder. *)
LEMMA ContractStep ==
    ASSUME EndPlaceInv, TypeOK', Stays \/ Leaves \/ Comes \/ Empties
    PROVE  [Contract!Next]_(Contract!vars)
  <1>1. Inside \in Seq(Numbers)
    BY PartTypes DEF EndPlaceInv
  <1>2. CASE Stays
    BY <1>2 DEF Stays, Contract!vars
  <1>3. CASE Leaves
    <2>1. PICK x \in Numbers : Inside = Join(<<x>>, Inside')
      BY <1>3 DEF Leaves
    <2>2. Inside' \in Seq(Numbers)
      <3>1. Inside' = Three(FrontOf(codec'.output, Ending'), Offered(platform'.outputs),
                            Waiting(platform'.inputs))
        BY InsideIs
      <3>2. /\ codec'.output \in Outputs /\ Ending' \in BOOLEAN
            /\ platform'.outputs \in Seq(Outputs) /\ platform'.inputs \in Seq(Inputs)
        BY DEF TypeOK, Codecs, Platforms, Ending
      <3>3. /\ FrontOf(codec'.output, Ending') \in Seq(Numbers)
            /\ Offered(platform'.outputs) \in Seq(Numbers)
            /\ Waiting(platform'.inputs) \in Seq(Numbers)
        BY <3>2, FrontFacts, OfferedSteps, SurfaceOutputs, WaitingSteps
      <3> QED
        BY <3>1, <3>3, ThreeJoined
    <2> DEFINE old == Inside
               new == Inside'
    <2>3. old = <<x>> \o new /\ new \in Seq(Numbers)
      BY <2>1, <2>2 DEF Join
    <2> HIDE DEF old, new
    <2>4. old # <<>> /\ Tail(old) = new
      BY <2>3, Concats
    <2> QED
      BY <1>3, <2>4 DEF Leaves, Contract!Next, Contract!Receive, old, new
  <1>4. CASE Comes
    <2>1. PICK x \in Numbers : Inside' = Join(Inside, <<x>>)
      BY <1>4 DEF Comes
    <2>2. Inside' = Append(Inside, x)
      <3> DEFINE old == Inside
                 new == Inside'
      <3>1. new = old \o <<x>> /\ old \in Seq(Numbers)
        BY <1>1, <2>1 DEF Join
      <3> HIDE DEF old, new
      <3>2. new = Append(old, x)
        BY <3>1, Concats
      <3> QED
        BY <3>2 DEF old, new
    <2>3. \A i \in DOMAIN Inside : Inside[i] # Eos
      <3>1. Inside \in Seq(Packets)
        BY <1>4 DEF Comes
      <3>2. \A i \in DOMAIN Inside : Inside[i] \in Packets
        BY <3>1
      <3> QED
        BY <3>2, NumbersDiffer
    <2>4. x \in 0 .. Eos
      BY DEF Numbers, Packets, Eos
    <2> QED
      BY <1>4, <2>2, <2>3, <2>4 DEF Comes, Contract!Next, Contract!Submit
  <1>5. CASE Empties
    BY <1>5 DEF Empties, Contract!Next, Contract!Flush
  <1> QED
    BY <1>2, <1>3, <1>4, <1>5

LEMMA ContractInit == Init => EndPlaceInv /\ Contract!Init
  <1> SUFFICES ASSUME Init PROVE EndPlaceInv /\ Contract!Init
    OBVIOUS
  <1>1. TypeOK /\ TokenNamesSlot
    BY TypeInit, TokenInit
  <1>2. /\ codec.output = NoOutput /\ codec.eosSeen = FALSE /\ codec.eosQueued = FALSE
        /\ platform.inputs = <<>> /\ platform.outputs = <<>> /\ phase = "Feeding"
        /\ input = None /\ decoder.offset = None /\ generation = 0
    BY DEF Init
  <1>3. OffsetInv /\ EndInv /\ EndPlace
    BY <1>2, BufferTypes DEF OffsetInv, EndInv, EndPlace, EndIsLast, NoOutput
  <1>4. Inside = <<>>
    <2>1. Ending = FALSE
      BY <1>2 DEF Ending
    <2>2. Offered(<<>>) = <<>> /\ Waiting(<<>>) = <<>> /\ FrontOf(NoOutput, FALSE) = <<>>
      <3>1. <<>> \in Seq(Outputs) /\ <<>> \in Seq(Inputs)
        OBVIOUS
      <3> QED
        BY <3>1, OfferedSteps, SurfaceOutputs, WaitingSteps, FrontFacts, BufferTypes
    <2>3. Three(<<>>, <<>>, <<>>) = <<>>
      BY JoinFacts DEF Three
    <2> QED
      BY <1>2, <2>1, <2>2, <2>3, InsideIs
  <1> QED
    BY <1>1, <1>2, <1>3, <1>4 DEF EndPlaceInv, Contract!Init

(***************************************************************************)
(* The decoder, its session and the platform's codec are together one      *)
(* queue: what is submitted comes out once and in order, the end of the    *)
(* stream last, whoever holds it on the way and whenever a slot goes back; *)
(* only a flush takes something out.  They implement DecoderContract.      *)
(***************************************************************************)
THEOREM IsAQueueAlways == Spec => IsAQueue
  <1>1. EndPlaceInv /\ [Next]_vars => EndPlaceInv'
    BY TypeStep, TokenStep, OffsetStep, EndStep, EndPlaceStep DEF EndPlaceInv
  <1>2. EndPlaceInv /\ [Next]_vars => [Contract!Next]_(Contract!vars)
    <2> SUFFICES ASSUME EndPlaceInv, [Next]_vars PROVE [Contract!Next]_(Contract!vars)
      OBVIOUS
    <2>1. TypeOK' /\ (Stays \/ Leaves \/ Comes \/ Empties)
      BY <1>1, QueueStep DEF EndPlaceInv
    <2> QED
      BY <2>1, ContractStep
  <1> QED
    BY <1>1, <1>2, ContractInit, PTL DEF Spec, IsAQueue, Contract!Spec

=============================================================================
