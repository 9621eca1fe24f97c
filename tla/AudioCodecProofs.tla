-------------------------- MODULE AudioCodecProofs --------------------------
(***************************************************************************)
(* For every track, every spacing and lead of its times, every platform    *)
(* codec and every number of seeks: the types, what the platform is given, *)
(* the queue that decoder and codec are together, calls that do not fail,  *)
(* and what is heard after a seek.                                         *)
(***************************************************************************)
EXTENDS AudioCodec, CodecQueueProofs

USE PacketCountAssumption, TimesAssumption, SlotsAssumption, MaxFlushAssumption

-----------------------------------------------------------------------------
(* Types *)

Outputs == [number : Packets \cup {None}, time : Nat, config : BOOLEAN, eos : BOOLEAN]
Decoders == [configPending : BOOLEAN, hasFormat : BOOLEAN, offset : Nat \cup {None}]
Codecs == [eosQueued : BOOLEAN, eosSeen : BOOLEAN, started : BOOLEAN]
Platforms == [inputs : Seq(Inputs), outputs : Seq(Outputs),
              format : {"unknown", "changed", "told"}, answered : BOOLEAN, configLost : BOOLEAN]

TypeOK ==
    /\ pc \in {"output", "receive", "trimmed", "submit", "closed", "impossible"}
    /\ phase \in {"Feeding", "InputEnded", "Draining", "DecoderDrained"}
    /\ extractor \in 0 .. PacketCount
    /\ queue = <<>> \/ \E n \in Packets : queue = <<n>>
    /\ input \in Packets \cup {None, Eos}
    /\ frame = NoFrame \/ frame \in [number : Packets, pts : Int]
    /\ boundary \in Nat
    /\ decoder \in Decoders
    /\ codec \in Codecs
    /\ platform \in Platforms
    /\ generation \in 0 .. MaxFlush
    /\ fed \in Feeds
    /\ heard \in Packets \cup {None}

(* The lemmas about codecs apply. *)
LEMMA AudioOutputs == IsOutputs(Outputs)
  BY DEF IsOutputs, Outputs

LEMMA NoPcmType ==
    \A config, eos \in BOOLEAN :
        /\ NoPcm(config, eos) \in Outputs
        /\ NoPcm(config, eos).number = None /\ NoPcm(config, eos).eos = eos
  BY DEF NoPcm, Outputs

(* What the queue holds, one packet at most. *)
LEMMA QueueIs ==
    ASSUME TypeOK
    PROVE  /\ queue # <<>> => Head(queue) \in Packets /\ Tail(queue) = <<>>
           /\ \A n \in Packets : <<n>> # <<>> /\ Head(<<n>>) = n /\ Tail(<<n>>) = <<>>
  <1>1. \A n : <<n>> # <<>> /\ Head(<<n>>) = n /\ Tail(<<n>>) = <<>>
    OBVIOUS
  <1>2. queue = <<>> \/ \E n \in Packets : queue = <<n>>
    BY DEF TypeOK
  <1> QED
    BY <1>1, <1>2

(* Where a seek lands: at the beginning, or at a packet not behind it. *)
LEMMA LandingIs ==
    ASSUME NEW us \in Int
    PROVE  /\ Landing(us) \in 0 .. PacketCount
           /\ Landing(us) # 0 => Landing(us) \in Packets /\ Pts(Landing(us)) <= us
  <1> DEFINE S == {0} \cup {n \in Packets : Pts(n) <= us}
             T == {PacketCount - n : n \in S}
  <1>1. S \subseteq 0 .. PacketCount /\ 0 \in S
    BY DEF Packets
  <1> HIDE DEF S
  <1>2. T \in SUBSET Nat /\ T # {}
    BY <1>1
  <1>3. PICK m \in T : \A n \in T : m <= n
    BY <1>2, LeastNat
  <1>4. PICK x \in S : m = PacketCount - x
    BY <1>3
  <1>5. \A y \in S : x >= y
    <2> SUFFICES ASSUME NEW y \in S PROVE x >= y
      OBVIOUS
    <2>1. PacketCount - y \in T
      OBVIOUS
    <2>2. PacketCount - x <= PacketCount - y
      BY <1>3, <1>4, <2>1
    <2> QED
      BY <1>1, <2>2
  <1>6. Max(S) \in S
    BY <1>5 DEF Max
  <1> QED
    BY <1>1, <1>6 DEF Landing, S

LEMMA TypeInit == Init => TypeOK
  <1> SUFFICES ASSUME Init PROVE TypeOK
    OBVIOUS
  <1> USE DEF Init
  <1>1. codec \in Codecs /\ decoder \in Decoders
    BY DEF Codecs, Decoders
  <1>2. platform \in Platforms /\ fed \in Feeds
    BY DEF Platforms, Feeds
  <1> QED
    BY <1>1, <1>2 DEF TypeOK

(***************************************************************************)
(* What the calls of the branch do, in the terms of the proofs below:      *)
(* submit has a next input n and hands it over or keeps it (queued), and   *)
(* receive takes the first output.                                         *)
(***************************************************************************)
Hands(items) ==
    /\ platform'.inputs = platform.inputs \o items
    /\ fed' = fed \o Numbered(items)
    /\ platform'.outputs = platform.outputs /\ platform'.format = platform.format
    /\ platform'.answered = platform.answered /\ platform'.configLost = platform.configLost

Keeps(n, queued) ==
    /\ decoder'.configPending = ~ConfigRestored /\ decoder'.hasFormat = decoder.hasFormat
    /\ decoder'.offset = IF n # Eos /\ ConfigRestored THEN OffsetFor(n) ELSE decoder.offset
    /\ codec'.eosQueued = (codec.eosQueued \/ (queued /\ n = Eos))
    /\ codec'.eosSeen = codec.eosSeen /\ codec'.started = codec.started
    /\ phase' = IF queued /\ n = Eos THEN "Draining" ELSE phase
    /\ input' = IF queued THEN None ELSE n
    /\ UNCHANGED <<extractor, frame, boundary, generation, heard>>

Submits(n, time, queued) ==
    /\ pc = "submit" /\ phase \in {"Feeding", "InputEnded"} /\ n = NextInput /\ Pulled
    /\ queued => ConfigRestored
    /\ queued /\ n # Eos => time = Pts(n) + OffsetFor(n)
    /\ Hands(IF queued THEN Append(Due, [number |-> n, time |-> time]) ELSE Due)
    /\ Keeps(n, queued)
    /\ pc' \in {"output", "impossible"}
    /\ pc' = "output" \/ codec.eosQueued \/ (n # Eos /\ Pts(n) + OffsetFor(n) < 0)

Takes(out) ==
    /\ pc = "receive" /\ ~codec.eosSeen
    /\ platform.outputs # <<>> /\ out = Head(platform.outputs)
    /\ platform'.outputs = Tail(platform.outputs) /\ platform'.inputs = platform.inputs
    /\ platform'.format = platform.format /\ platform'.configLost = platform.configLost
    /\ platform'.answered = TRUE /\ codec'.started = TRUE
    /\ codec'.eosSeen = out.eos /\ codec'.eosQueued = codec.eosQueued
    /\ UNCHANGED <<extractor, queue, input, boundary, decoder, generation, fed>>

LEMMA DueIs ==
    /\ Due \in {<<>>, <<ConfigInput>>} /\ (Due # <<>> => decoder.configPending)
    /\ Due \in Seq(Inputs)
    /\ \A x \in Inputs : Added(Due, x) /\ Added(Append(Due, x), x)
    /\ \A x \in Inputs : Append(Due, x) \in Seq(Inputs)
  <1>1. Due \in {<<>>, <<ConfigInput>>} /\ (Due # <<>> => decoder.configPending)
    BY DEF Due
  <1>2. Due \in Seq(Inputs)
    <2>1. <<ConfigInput>> \in Seq(Inputs) /\ <<>> \in Seq(Inputs)
      BY ConfigFacts, OneElement
    <2> QED
      BY <1>1, <2>1
  <1> QED
    BY <1>1, <1>2, AppendFacts DEF Added

LEMMA NextInputIs ==
    ASSUME TypeOK
    PROVE  /\ NextInput \in Packets \cup {Eos, None}
           /\ Pulled => queue' \in {queue, <<>>}
           /\ NextInput = Eos /\ queue' = queue => Pulled
  <1>1. queue # <<>> => Head(queue) \in Packets /\ Tail(queue) = <<>>
    BY QueueIs
  <1>2. input \in Packets \cup {None, Eos}
    BY DEF TypeOK
  <1>3. NextInput \in Packets \cup {Eos, None}
    BY <1>1, <1>2 DEF NextInput
  <1>4. Pulled => queue' \in {queue, <<>>}
    BY <1>1 DEF Pulled
  <1>5. NextInput = Eos /\ queue' = queue => Pulled
    BY <1>1, NumbersDiffer DEF NextInput, Pulled
  <1> QED
    BY <1>3, <1>4, <1>5

LEMMA OffsetType ==
    ASSUME decoder \in Decoders, NEW n \in Int
    PROVE  OffsetFor(n) \in Nat /\ Pts(n) \in Int /\ Pts(n) + OffsetFor(n) \in Int
  <1>1. Pts(n) \in Int
    BY DEF Pts
  <1>2. FirstOffset(n) \in Nat
    BY <1>1 DEF FirstOffset
  <1>3. OffsetFor(n) \in Nat
    BY <1>2 DEF OffsetFor, Decoders
  <1> QED
    BY <1>1, <1>3

LEMMA SubmitIs ==
    ASSUME TypeOK, SubmitPacket \/ SubmitEnd
    PROVE  \E n \in Packets \cup {Eos}, time \in Nat, queued \in BOOLEAN : Submits(n, time, queued)
  <1>t. decoder \in Decoders /\ codec \in Codecs /\ platform \in Platforms
    BY DEF TypeOK
  <1>1. ASSUME NEW items, Queue(items) PROVE Hands(items)
    BY <1>t, <1>1 DEF Queue, Platforms, Numbered, Hands
  <1>2. CASE SubmitPacket
    <2> DEFINE n == NextInput
               time == Pts(n) + OffsetFor(n)
               queued == ConfigRestored /\ HasRoom(Due) /\ time >= 0
               items == IF queued THEN Append(Due, [number |-> n, time |-> time]) ELSE Due
    <2>1. /\ n \in Packets /\ n # Eos /\ n \in Int
      BY <1>2, NumbersDiffer DEF SubmitPacket, Packets
    <2>2. time \in Int
      BY <1>t, <2>1, OffsetType
    <2>3. /\ pc = "submit" /\ phase \in {"Feeding", "InputEnded"} /\ Pulled /\ Queue(items)
          /\ codec' = codec /\ phase' = phase
          /\ decoder' = [decoder EXCEPT
                            !.configPending = ~ConfigRestored,
                            !.offset = IF ConfigRestored THEN OffsetFor(n) ELSE @]
          /\ input' = IF queued THEN None ELSE n
          /\ UNCHANGED <<extractor, frame, boundary, generation, heard>>
          /\ pc' = IF codec.eosQueued \/ (ConfigRestored /\ time < 0)
                    THEN "impossible" ELSE "output"
      BY <1>2 DEF SubmitPacket, Submitting
    <2>4. /\ decoder'.configPending = ~ConfigRestored /\ decoder'.hasFormat = decoder.hasFormat
          /\ decoder'.offset = IF ConfigRestored THEN OffsetFor(n) ELSE decoder.offset
      BY <1>t, <2>3 DEF Decoders
    <2>5. queued \in BOOLEAN /\ (queued => ConfigRestored)
      OBVIOUS
    <2>6. PICK t \in Nat : queued => t = time
      <3>1. queued => time \in Nat
        BY <2>2
      <3> HIDE DEF queued, time
      <3> QED
        BY <3>1
    <2>7. items = IF queued THEN Append(Due, [number |-> n, time |-> t]) ELSE Due
      BY <2>6
    <2>8. /\ pc' \in {"output", "impossible"}
          /\ pc' = "output" \/ codec.eosQueued \/ (n # Eos /\ Pts(n) + OffsetFor(n) < 0)
      BY <2>1, <2>3
    <2>9. time = Pts(n) + OffsetFor(n)
      OBVIOUS
    <2> HIDE DEF queued, n, time, items
    <2>10. n = NextInput
      BY DEF n
    <2>11. Hands(items)
      BY <1>1, <2>3
    <2>12. Keeps(n, queued)
      <3>1. codec.eosQueued \in BOOLEAN
        BY <1>t DEF Codecs
      <3>2. codec'.eosQueued = (codec.eosQueued \/ (queued /\ n = Eos))
        BY <2>1, <2>3, <3>1
      <3> QED
        BY <2>1, <2>3, <2>4, <3>2 DEF Keeps
    <2>13. Submits(n, t, queued)
      BY <2>3, <2>5, <2>6, <2>7, <2>8, <2>9, <2>10, <2>11, <2>12 DEF Submits
    <2> QED
      BY <2>1, <2>5, <2>6, <2>13
  <1>3. CASE SubmitEnd
    <2> DEFINE queued == ConfigRestored /\ HasRoom(Due)
               items == IF queued THEN Append(Due, [number |-> Eos, time |-> 0]) ELSE Due
    <2>1. /\ pc = "submit" /\ phase \in {"Feeding", "InputEnded"} /\ NextInput = Eos
          /\ Queue(items) /\ queue' = queue
          /\ codec' = [codec EXCEPT !.eosQueued = @ \/ queued]
          /\ phase' = IF queued THEN "Draining" ELSE phase
          /\ decoder' = [decoder EXCEPT !.configPending = ~ConfigRestored]
          /\ input' = IF queued THEN None ELSE Eos
          /\ UNCHANGED <<extractor, frame, boundary, generation, heard>>
          /\ pc' = IF codec.eosQueued THEN "impossible" ELSE "output"
      BY <1>3 DEF SubmitEnd, Submitting
    <2>2. /\ decoder'.configPending = ~ConfigRestored /\ decoder'.hasFormat = decoder.hasFormat
          /\ decoder'.offset = decoder.offset
      BY <1>t, <2>1 DEF Decoders
    <2>3. queued \in BOOLEAN /\ (queued => ConfigRestored) /\ 0 \in Nat
      OBVIOUS
    <2>4. /\ codec'.eosQueued = (codec.eosQueued \/ queued)
          /\ codec'.eosSeen = codec.eosSeen /\ codec'.started = codec.started
      BY <1>t, <2>1 DEF Codecs
    <2>5. Pulled
      BY <2>1, NextInputIs
    <2>6. items = IF queued THEN Append(Due, [number |-> Eos, time |-> 0]) ELSE Due
      OBVIOUS
    <2> HIDE DEF queued, items
    <2>7. Hands(items)
      BY <1>1, <2>1
    <2>8. Keeps(Eos, queued)
      BY <2>1, <2>2, <2>4 DEF Keeps
    <2>9. Submits(Eos, 0, queued)
      BY <2>1, <2>3, <2>5, <2>6, <2>7, <2>8 DEF Submits
    <2> QED
      BY <2>3, <2>9
  <1> QED
    BY <1>2, <1>3

(* The first output is taken out of its slot. *)
LEMMA ReceiveIs ==
    ASSUME TypeOK, ReceiveEmpty \/ ReceiveFrame
    PROVE  /\ Takes(Head(platform.outputs)) /\ Head(platform.outputs) \in Outputs
           /\ Tail(platform.outputs) \in Seq(Outputs)
  <1>t. codec \in Codecs /\ platform \in Platforms /\ platform.outputs \in Seq(Outputs)
    BY DEF TypeOK, Platforms
  <1> DEFINE out == Head(platform.outputs)
  <1>1. /\ pc = "receive" /\ ~codec.eosSeen /\ platform.outputs # <<>> /\ TakeOutput(out)
        /\ UNCHANGED <<extractor, queue, input, boundary, decoder, generation, fed>>
    BY DEF ReceiveEmpty, ReceiveFrame, BufferReady, Polling
  <1>2. out \in Outputs /\ Tail(platform.outputs) \in Seq(Outputs)
    BY <1>t, <1>1, TailFacts
  <1> HIDE DEF out
  <1>3. /\ platform'.outputs = Tail(platform.outputs) /\ platform'.inputs = platform.inputs
        /\ platform'.format = platform.format /\ platform'.configLost = platform.configLost
        /\ platform'.answered = TRUE
    BY <1>t, <1>1 DEF TakeOutput, Platforms
  <1>4. codec'.started = TRUE /\ codec'.eosQueued = codec.eosQueued
    BY <1>t, <1>1 DEF TakeOutput, Codecs
  <1>5. codec'.eosSeen = out.eos
    <2>1. codec'.eosSeen = (codec.eosSeen \/ out.eos)
      BY <1>t, <1>1 DEF TakeOutput, Codecs
    <2>2. out.eos \in BOOLEAN /\ codec.eosSeen = FALSE
      BY <1>t, <1>1, <1>2 DEF Outputs, Codecs
    <2> QED
      BY <2>1, <2>2
  <1>6. Takes(out)
    BY <1>1, <1>3, <1>4, <1>5 DEF Takes, out
  <1> QED
    BY <1>2, <1>6 DEF out

(* An output of the platform for an input. *)
AnswersTo(item) ==
    {out \in Outputs :
        /\ out.eos <=> item.number = Eos
        /\ out.number = IF item.number \in Packets THEN item.number ELSE None
        /\ item.number \in Packets => out.time = item.time /\ platform.format # "unknown"}

(* The platform decodes, and everything else stays. *)
LEMMA PlatformIs ==
    ASSUME TypeOK, PlatformDecodes
    PROVE  /\ UNCHANGED <<branch, extractor, decoder, codec, generation, fed, heard>>
           /\ platform.inputs # <<>> /\ Head(platform.inputs) \in Inputs
           /\ Decodes(AnswersTo(Head(platform.inputs)), platform.inputs, platform.outputs,
                      platform'.inputs, platform'.outputs)
           /\ platform'.format = platform.format
              \/ (platform.format = "unknown" /\ platform'.format = "changed")
           /\ platform' = [inputs |-> platform'.inputs, outputs |-> platform'.outputs,
                           format |-> platform'.format, answered |-> platform.answered,
                           configLost |-> platform.configLost]
  <1>t. platform \in Platforms /\ platform.inputs \in Seq(Inputs)
        /\ platform.outputs \in Seq(Outputs)
    BY DEF TypeOK, Platforms
  <1> DEFINE item == Head(platform.inputs)
             Rebuilt == /\ platform'.format = platform.format
                           \/ (platform.format = "unknown" /\ platform'.format = "changed")
                        /\ platform' = [inputs |-> platform'.inputs, outputs |-> platform'.outputs,
                                        format |-> platform'.format,
                                        answered |-> platform.answered,
                                        configLost |-> platform.configLost]
             Does == Decodes(AnswersTo(item), platform.inputs, platform.outputs,
                             platform'.inputs, platform'.outputs)
  <1>1. /\ UNCHANGED <<branch, extractor, decoder, codec, generation, fed, heard>>
        /\ platform.inputs # <<>>
    BY DEF PlatformDecodes, DecodeConfig, DecodePacket, DecodeEnd, Decoding, Kept
  <1>2. item \in Inputs /\ item.number \in Packets \cup {Eos, Config} /\ item.time \in Nat
    <2>1. item \in Inputs
      BY <1>t, <1>1, TailFacts
    <2> HIDE DEF item
    <2> QED
      BY <2>1 DEF Inputs
  <1>3. Current = item.number /\ Rest = Tail(platform.inputs)
    BY DEF Current, Rest
  <1> HIDE DEF item
  <1>4. ASSUME NEW out \in AnswersTo(item), Offers(out) PROVE Does /\ Rebuilt
    <2>1. /\ platform'.inputs = Tail(platform.inputs)
          /\ platform'.outputs = Append(platform.outputs, out) /\ Rebuilt
      BY <1>t, <1>3, <1>4 DEF Offers, Platforms
    <2> HIDE DEF Rebuilt
    <2> QED
      BY <1>1, <2>1 DEF Decodes, AnswersTo, item
  <1>5. CASE DecodeConfig
    <2>1. item.number = Config
      BY <1>3, <1>5 DEF DecodeConfig
    <2>2. ASSUME NEW config \in BOOLEAN, Offers(NoPcm(config, FALSE)) PROVE Does /\ Rebuilt
      <3>1. NoPcm(config, FALSE) \in AnswersTo(item)
        BY <2>1, NoPcmType, NumbersDiffer DEF AnswersTo
      <3> QED
        BY <1>4, <2>2, <3>1
    <2>3. CASE platform' = [platform EXCEPT !.inputs = Rest]
      <3>1. /\ platform'.inputs = Tail(platform.inputs) /\ platform'.outputs = platform.outputs
            /\ Rebuilt
        BY <1>t, <1>3, <2>3 DEF Platforms
      <3> HIDE DEF Rebuilt
      <3>2. Does
        BY <1>1, <2>1, <3>1 DEF Decodes, item
      <3> QED
        BY <1>1, <1>2, <3>1, <3>2 DEF item, Rebuilt
    <2> QED
      BY <1>1, <1>2, <1>5, <2>2, <2>3 DEF DecodeConfig, item
  <1>6. CASE DecodePacket
    <2> DEFINE out == [number |-> Current, time |-> item.time, config |-> FALSE, eos |-> FALSE]
    <2>1. item.number \in Packets /\ item.number # Eos
      BY <1>3, <1>6, NumbersDiffer DEF DecodePacket
    <2>2. CASE platform.format = "unknown"
      <3>1. platform' = [platform EXCEPT !.format = "changed"]
        BY <1>6, <2>2 DEF DecodePacket
      <3>2. /\ platform'.inputs = platform.inputs /\ platform'.outputs = platform.outputs
            /\ Rebuilt
        BY <1>t, <2>2, <3>1 DEF Platforms
      <3> HIDE DEF Rebuilt
      <3>3. Does
        BY <1>1, <3>2 DEF Decodes
      <3> QED
        BY <1>1, <1>2, <3>2, <3>3 DEF item, Rebuilt
    <2>3. CASE platform.format # "unknown"
      <3>1. Offers(out)
        BY <1>6, <2>3 DEF DecodePacket, item
      <3>2. out \in AnswersTo(item)
        BY <1>2, <1>3, <2>1, <2>3 DEF AnswersTo, Outputs
      <3> QED
        BY <1>1, <1>2, <1>4, <3>1, <3>2 DEF item
    <2> QED
      BY <2>2, <2>3
  <1>7. CASE DecodeEnd
    <2>1. item.number = Eos
      BY <1>3, <1>7 DEF DecodeEnd
    <2>2. CASE Offers(NoPcm(FALSE, TRUE))
      <3>1. NoPcm(FALSE, TRUE) \in AnswersTo(item)
        BY <2>1, NoPcmType, NumbersDiffer DEF AnswersTo
      <3> QED
        BY <1>1, <1>2, <1>4, <2>2, <3>1 DEF item
    <2>3. CASE /\ platform.outputs # <<>>
               /\ platform' = [platform EXCEPT !.inputs = Rest, !.outputs = Marked(@)]
      <3>1. /\ platform'.inputs = Tail(platform.inputs)
            /\ platform'.outputs = Marked(platform.outputs) /\ Rebuilt
        BY <1>t, <1>3, <2>3 DEF Platforms
      <3> HIDE DEF Rebuilt
      <3>2. Does
        BY <1>1, <2>1, <2>3, <3>1 DEF Decodes, item
      <3> QED
        BY <1>1, <1>2, <3>1, <3>2 DEF item, Rebuilt
    <2> QED
      BY <1>7, <2>2, <2>3 DEF DecodeEnd
  <1> QED
    BY <1>5, <1>6, <1>7 DEF PlatformDecodes

(* The same, as a step over any set that has the answers. *)
LEMMA DecodesMore ==
    ASSUME NEW S, NEW T, S \subseteq T, NEW outputs, NEW inputs, NEW outputs2, NEW inputs2,
           Decodes(S, inputs, outputs, inputs2, outputs2)
    PROVE  Decodes(T, inputs, outputs, inputs2, outputs2)
  BY DEF Decodes

(* Types of the platform, as the moves change it. *)
LEMMA TypeSubmit == TypeOK /\ (SubmitPacket \/ SubmitEnd) => TypeOK'
  <1> SUFFICES ASSUME TypeOK, SubmitPacket \/ SubmitEnd PROVE TypeOK'
    OBVIOUS
  <1>t. /\ decoder \in Decoders /\ codec \in Codecs /\ platform \in Platforms
        /\ platform.inputs \in Seq(Inputs) /\ fed \in Feeds
    BY DEF TypeOK, Platforms
  <1>1. PICK n \in Packets \cup {Eos}, time \in Nat, queued \in BOOLEAN : Submits(n, time, queued)
    BY SubmitIs
  <1> DEFINE items == IF queued THEN Append(Due, [number |-> n, time |-> time]) ELSE Due
  <1>2. items \in Seq(Inputs)
    <2>1. [number |-> n, time |-> time] \in Inputs
      BY DEF Inputs
    <2> QED
      BY <2>1, DueIs
  <1>3. /\ Hands(items) /\ Keeps(n, queued) /\ Pulled /\ phase \in {"Feeding", "InputEnded"}
        /\ pc' \in {"output", "impossible"}
    BY <1>1 DEF Submits
  <1> HIDE DEF items
  <1>4. platform.inputs \o items \in Seq(Inputs) /\ fed \o Numbered(items) \in Feeds
    <2>1. ASSUME NEW i \in 1 .. Len(items) PROVE items[i].number \in Packets \cup {Eos, Config}
      <3>1. items[i] \in Inputs
        BY <1>2
      <3> QED
        BY <3>1 DEF Inputs
    <2>2. Numbered(items) \in Feeds
      BY <1>2, <2>1 DEF Numbered, Feeds
    <2> QED
      BY <1>t, <1>2, <2>2 DEF Feeds
  <1>5. platform' \in Platforms
    <2>1. PICK more : platform' = [platform EXCEPT !.inputs = @ \o more]
      BY DEF SubmitPacket, SubmitEnd, Queue
    <2> QED
      BY <1>t, <1>3, <1>4, <2>1 DEF Hands, Platforms
  <1>6. decoder' \in Decoders
    <2>1. ASSUME NEW m \in Packets PROVE OffsetFor(m) \in Nat
      <3>1. m \in Int
        BY DEF Packets
      <3> QED
        BY <1>t, <3>1, OffsetType
    <2>2. ConfigRestored \in BOOLEAN
      BY DEF ConfigRestored
    <2> QED
      BY <1>t, <2>1, <2>2 DEF SubmitPacket, SubmitEnd, Decoders
  <1>7. codec' \in Codecs
    <2>1. (ConfigRestored /\ HasRoom(Due)) \in BOOLEAN
      OBVIOUS
    <2> QED
      BY <1>t, <2>1 DEF SubmitPacket, SubmitEnd, Codecs
  <1>8. queue' = <<>> \/ \E m \in Packets : queue' = <<m>>
    BY <1>3, NextInputIs DEF TypeOK
  <1>9. input' \in Packets \cup {None, Eos} /\ phase' \in {"Feeding", "InputEnded", "Draining"}
    BY <1>3 DEF Keeps
  <1>10. fed' \in Feeds
    BY <1>3, <1>4 DEF Hands
  <1> QED
    BY <1>3, <1>5, <1>6, <1>7, <1>8, <1>9, <1>10 DEF TypeOK, Keeps

LEMMA TypeReceive == TypeOK /\ (ReceiveEmpty \/ ReceiveFrame) => TypeOK'
  <1> SUFFICES ASSUME TypeOK, ReceiveEmpty \/ ReceiveFrame PROVE TypeOK'
    OBVIOUS
  <1>t. decoder \in Decoders /\ codec \in Codecs /\ platform \in Platforms
    BY DEF TypeOK
  <1> DEFINE out == Head(platform.outputs)
  <1>1. /\ Takes(out) /\ out \in Outputs /\ Tail(platform.outputs) \in Seq(Outputs)
    BY ReceiveIs
  <1>2. TakeOutput(out)
    BY DEF ReceiveEmpty, ReceiveFrame
  <1>3. platform' \in Platforms
    BY <1>t, <1>1, <1>2 DEF TakeOutput, Platforms
  <1>4. codec' \in Codecs
    <2>1. out.eos \in BOOLEAN
      BY <1>1 DEF Outputs
    <2> HIDE DEF out
    <2> QED
      BY <1>t, <1>2, <2>1 DEF TakeOutput, Codecs
  <1>5. /\ pc' \in {"trimmed", "impossible"}
        /\ phase' \in {phase, "DecoderDrained"}
    BY DEF ReceiveEmpty, ReceiveFrame, EndOfStream
  <1>6. /\ frame' = NoFrame \/ frame' \in [number : Packets, pts : Int] \/ frame' = frame
        /\ heard' \in Packets \cup {None}
    <2>1. CASE ReceiveEmpty
      BY <2>1 DEF ReceiveEmpty, TypeOK
    <2>2. CASE ReceiveFrame
      <3> DEFINE failed == ~decoder.hasFormat \/ decoder.offset = None
                 early == IsEarly(RestoredTime(out))
      <3>1. /\ out.number # None
            /\ frame' = IF failed \/ early THEN NoFrame
                        ELSE [number |-> out.number, pts |-> RestoredTime(out)]
            /\ heard' = IF heard = None THEN frame'.number ELSE heard
        BY <2>2 DEF ReceiveFrame
      <3>2. out.number \in Packets /\ out.time \in Nat
        BY <1>1, <3>1 DEF Outputs
      <3>3. ~failed => RestoredTime(out) \in Int
        BY <1>t, <3>2 DEF RestoredTime, Decoders
      <3> HIDE DEF out, early
      <3>4. frame' = NoFrame \/ frame' \in [number : Packets, pts : Int]
        BY <3>1, <3>2, <3>3
      <3>5. frame'.number \in Packets \cup {None}
        BY <3>4 DEF NoFrame
      <3> QED
        BY <3>1, <3>4, <3>5 DEF TypeOK
    <2> QED
      BY <2>1, <2>2
  <1>7. UNCHANGED <<extractor, queue, input, boundary, decoder, generation, fed>>
    BY <1>1 DEF Takes
  <1> QED
    BY <1>3, <1>4, <1>5, <1>6, <1>7 DEF TypeOK

LEMMA TypePlatform == TypeOK /\ PlatformDecodes => TypeOK'
  <1> SUFFICES ASSUME TypeOK, PlatformDecodes PROVE TypeOK'
    OBVIOUS
  <1> DEFINE item == Head(platform.inputs)
  <1>1. /\ UNCHANGED <<branch, extractor, decoder, codec, generation, fed, heard>>
        /\ Decodes(AnswersTo(item), platform.inputs, platform.outputs,
                   platform'.inputs, platform'.outputs)
        /\ platform'.format \in {platform.format, "changed"}
        /\ platform' = [inputs |-> platform'.inputs, outputs |-> platform'.outputs,
                        format |-> platform'.format, answered |-> platform.answered,
                        configLost |-> platform.configLost]
    BY PlatformIs
  <1>2. /\ platform.inputs \in Seq(Inputs) /\ platform.outputs \in Seq(Outputs)
        /\ platform.format \in {"unknown", "changed", "told"}
        /\ platform.answered \in BOOLEAN /\ platform.configLost \in BOOLEAN
    BY DEF TypeOK, Platforms
  <1>3. AnswersTo(item) \subseteq Outputs
    BY DEF AnswersTo
  <1>4. Decodes(Outputs, platform.inputs, platform.outputs, platform'.inputs, platform'.outputs)
    BY <1>1, <1>3, DecodesMore
  <1>5. platform'.inputs \in Seq(Inputs) /\ platform'.outputs \in Seq(Outputs)
    BY <1>2, <1>4, DecodesType, AudioOutputs
  <1>6. platform' \in Platforms
    BY <1>1, <1>2, <1>5 DEF Platforms
  <1> QED
    BY <1>1, <1>6 DEF TypeOK, branch

LEMMA TypeSeek ==
    ASSUME TypeOK, NEW target \in 0 .. PacketCount * Spacing * NanosPerMicro, Seek(target)
    PROVE  TypeOK'
  <1>1. target \in Nat /\ Micros(target) \in Int
    <2>1. PacketCount * Spacing * NanosPerMicro \in Int
      OBVIOUS
    <2>2. target \in Nat
      BY <2>1
    <2> QED
      BY <2>2 DEF Micros
  <1>2. extractor' \in 0 .. PacketCount
    BY <1>1, LandingIs DEF Seek
  <1>3. decoder' \in Decoders /\ codec' \in Codecs
    BY DEF TypeOK, Seek, Flushed, Decoders, Codecs
  <1>4. platform' \in Platforms
    BY DEF TypeOK, Seek, FlushPlatform, Platforms
  <1>5. generation' \in 0 .. MaxFlush
    BY DEF TypeOK, Seek
  <1>6. /\ pc' \in {"closed", pc} /\ phase' = "Feeding" /\ queue' = <<>> /\ input' = None
        /\ frame' = NoFrame /\ boundary' = target /\ fed' = <<>> /\ heard' = None
    BY DEF Seek
  <1>7. <<>> \in Feeds
    BY DEF Feeds
  <1> QED
    BY <1>1, <1>2, <1>3, <1>4, <1>5, <1>6, <1>7 DEF TypeOK

(* Steps that touch neither the platform's queue nor what is in it. *)
QuietStep ==
    \/ \E accepted \in BOOLEAN : SubmitFrame(accepted)
    \/ ReceiveNothing \/ ReceiveFormat \/ ReceiveEnd \/ SubmitNothing
    \/ ReadPacket \/ ReadEnd \/ Close \/ Closed \/ UNCHANGED vars

LEMMA TypeQuiet == TypeOK /\ QuietStep => TypeOK'
  <1> SUFFICES ASSUME TypeOK, QuietStep PROVE TypeOK'
    OBVIOUS
  <1> USE DEF TypeOK
  <1>1. ASSUME NEW accepted \in BOOLEAN, SubmitFrame(accepted) PROVE TypeOK'
    BY <1>1 DEF SubmitFrame
  <1>2. CASE ReceiveFormat
    <2>1. platform' \in Platforms /\ codec' \in Codecs /\ decoder' \in Decoders
      BY <1>2 DEF ReceiveFormat, Platforms, Codecs, Decoders
    <2> QED
      BY <1>2, <2>1 DEF ReceiveFormat
  <1>3. CASE ReadPacket
    <2>1. extractor \in Packets /\ extractor + 1 \in 0 .. PacketCount
      BY <1>3 DEF ReadPacket, Packets
    <2> QED
      BY <1>3, <2>1 DEF ReadPacket
  <1>4. CASE ReceiveNothing \/ ReceiveEnd \/ SubmitNothing \/ ReadEnd \/ Close
    BY <1>4 DEF ReceiveNothing, ReceiveEnd, EndOfStream, SubmitNothing, ReadEnd, Close
  <1>5. CASE Closed \/ UNCHANGED vars
    BY <1>5 DEF Closed, vars, branch
  <1> QED
    BY <1>1, <1>2, <1>3, <1>4, <1>5 DEF QuietStep

(* The steps of the system, as the proofs below tell them apart. *)
LEMMA StepIs ==
    [Next]_vars =>
        \/ QuietStep \/ SubmitPacket \/ SubmitEnd \/ ReceiveEmpty \/ ReceiveFrame \/ PlatformDecodes
        \/ \E target \in 0 .. PacketCount * Spacing * NanosPerMicro : Seek(target)
  BY DEF Next, StepOfBranch, DemuxerReads, QuietStep

LEMMA TypeStep == TypeOK /\ [Next]_vars => TypeOK'
  BY StepIs, TypeQuiet, TypeSubmit, TypeReceive, TypePlatform, TypeSeek

(* Whatever the platform, the branch and the listener do: the types. *)
THEOREM TypeCorrect == Spec => []TypeOK
  BY TypeInit, TypeStep, PTL DEF Spec


-----------------------------------------------------------------------------
(* The invariant *)

(* What comes next: the pending input, or else what the demuxer has next.  *)
AfterInput == IF queue # <<>> THEN Head(queue) ELSE extractor
Upcoming == IF input # None THEN input ELSE AfterInput

(* The packets come from the file one after the other, up to its end. *)
SourceInv ==
    /\ queue # <<>> => extractor = Head(queue) + 1
    /\ input \in Packets => AfterInput = input + 1
    /\ input = Eos => phase = "InputEnded"
    /\ phase # "Feeding" => queue = <<>> /\ extractor = PacketCount
    /\ phase \in {"Draining", "DecoderDrained"} => input = None
    /\ pc = "receive" => phase # "DecoderDrained"

(***************************************************************************)
(* The end of the stream is seen only after it was queued, which is when   *)
(* the branch drains; it is the last the platform holds, and once it is    *)
(* seen the platform holds nothing.                                        *)
(***************************************************************************)
EndInv ==
    /\ codec.eosSeen => codec.eosQueued /\ platform.outputs = <<>> /\ platform.inputs = <<>>
    /\ codec.eosQueued <=> phase \in {"Draining", "DecoderDrained"}
    /\ phase = "DecoderDrained" => codec.eosSeen
    /\ EndIsLast(platform.outputs, platform.inputs)

(***************************************************************************)
(* What the platform holds: packets with their time in the mapping of this *)
(* run, PCM with that time and after its format, and the end only when it  *)
(* was queued.                                                             *)
(***************************************************************************)
GoodInputs(offset, ended) ==
    {item \in Inputs :
        /\ item.number \in Packets => offset # None /\ item.time = Pts(item.number) + offset
        /\ item.number = Eos => ended}

GoodOutputs(offset, format, ended) ==
    {out \in Outputs :
        /\ out.number \in Packets =>
              offset # None /\ out.time = Pts(out.number) + offset /\ format # "unknown"
        /\ out.eos => ended}

ContentInv ==
    /\ platform.inputs \in Seq(GoodInputs(decoder.offset, codec.eosQueued))
    /\ platform.outputs \in Seq(GoodOutputs(decoder.offset, platform.format, codec.eosQueued))
    /\ platform.format = "told" => decoder.hasFormat

(* The configuration is pending only while the platform has nothing.       *)
AnswerInv ==
    /\ Answers(fed, decoder.configPending, platform.configLost)
    /\ platform.answered = codec.started
    /\ decoder.configPending =>
          /\ ~codec.started /\ platform.format # "changed"
          /\ platform.inputs = <<>> /\ platform.outputs = <<>>

(* What comes next is the one after the last one fed. *)
FedInv ==
    Begun(fed) => IF fed[Len(fed)] = Eos THEN codec.eosQueued ELSE fed[Len(fed)] + 1 = Upcoming

(* No time that is still to come is negative in the mapping of this run. *)
OffsetInv == decoder.offset # None => Pts(Upcoming) + decoder.offset >= 0

FrameInv == frame # NoFrame => frame.pts = Pts(frame.number) * NanosPerMicro

AudioInv ==
    /\ TypeOK /\ SourceInv /\ EndInv /\ ContentInv /\ AnswerInv /\ FedInv /\ OffsetInv /\ FrameInv
    /\ NoInternalError /\ Decodable


LEMMA GoodTypes ==
    ASSUME NEW offset, NEW format, NEW ended
    PROVE  /\ GoodInputs(offset, ended) \subseteq Inputs
           /\ GoodOutputs(offset, format, ended) \subseteq Outputs
           /\ ended => IsOutputs(GoodOutputs(offset, format, ended))
  <1>1. ASSUME NEW o \in GoodOutputs(offset, format, ended), ended
        PROVE  /\ o.number \in Packets \cup {None} /\ o.eos \in BOOLEAN
               /\ [o EXCEPT !.eos = TRUE] \in GoodOutputs(offset, format, ended)
               /\ [o EXCEPT !.eos = TRUE].number = o.number /\ [o EXCEPT !.eos = TRUE].eos
    <2>1. o \in Outputs
      BY DEF GoodOutputs
    <2>2. /\ [o EXCEPT !.eos = TRUE] \in Outputs
          /\ [o EXCEPT !.eos = TRUE].number = o.number /\ [o EXCEPT !.eos = TRUE].eos
          /\ [o EXCEPT !.eos = TRUE].time = o.time
          /\ o.number \in Packets \cup {None} /\ o.eos \in BOOLEAN
      BY <2>1 DEF Outputs
    <2> QED
      BY <1>1, <2>2 DEF GoodOutputs
  <1> QED
    BY <1>1 DEF GoodInputs, GoodOutputs, IsOutputs

(* Nothing that is not good is inside; no end before it was queued. *)
LEMMA NothingEnds ==
    ASSUME TypeOK, ContentInv
    PROVE  /\ platform.inputs \in Seq(Inputs) /\ platform.outputs \in Seq(Outputs)
           /\ platform.outputs # <<>> =>
                Head(platform.outputs)
                   \in GoodOutputs(decoder.offset, platform.format, codec.eosQueued)
           /\ ~codec.eosQueued =>
                /\ \A i \in 1 .. Len(platform.inputs) : platform.inputs[i].number # Eos
                /\ \A i \in 1 .. Len(platform.outputs) : ~platform.outputs[i].eos
  <1>1. platform.inputs \in Seq(Inputs) /\ platform.outputs \in Seq(Outputs)
    BY DEF TypeOK, Platforms
  <1> DEFINE I == GoodInputs(decoder.offset, codec.eosQueued)
             O == GoodOutputs(decoder.offset, platform.format, codec.eosQueued)
  <1>2. platform.inputs \in Seq(I) /\ platform.outputs \in Seq(O)
    BY DEF ContentInv
  <1>3. /\ ~codec.eosQueued => \A item \in I : item.number # Eos
        /\ ~codec.eosQueued => \A out \in O : ~out.eos
    BY DEF GoodInputs, GoodOutputs
  <1> HIDE DEF I, O
  <1>4. /\ \A i \in 1 .. Len(platform.inputs) : platform.inputs[i] \in I
        /\ \A i \in 1 .. Len(platform.outputs) : platform.outputs[i] \in O
    BY <1>2
  <1>5. platform.outputs # <<>> => Head(platform.outputs) \in O
    BY <1>2, TailFacts
  <1> QED
    BY <1>1, <1>3, <1>4, <1>5 DEF O

LEMMA DecodableIs ==
    TypeOK => (Decodable <=> IsDecodable(fed, platform.configLost, Packets \cup {Eos}))
  <1> SUFFICES ASSUME TypeOK
               PROVE  Decodable <=> IsDecodable(fed, platform.configLost, Packets \cup {Eos})
    OBVIOUS
  <1>1. DOMAIN fed = 1 .. Len(fed)
    BY DEF TypeOK, Feeds
  <1> QED
    BY <1>1 DEF Decodable, IsDecodable, IsFirst

LEMMA PtsIs ==
    \A n \in Int : Pts(n) \in Int /\ Pts(n + 1) = Pts(n) + Spacing /\ Pts(n + 1) > Pts(n)
  <1> SUFFICES ASSUME NEW n \in Int
               PROVE  Pts(n) \in Int /\ Pts(n + 1) = Pts(n) + Spacing /\ Pts(n + 1) > Pts(n)
    OBVIOUS
  <1>1. Spacing \in Int /\ Spacing > 0 /\ n * Spacing \in Int
        /\ (n + 1) * Spacing = n * Spacing + Spacing
    OBVIOUS
  <1> QED
    BY <1>1 DEF Pts

-----------------------------------------------------------------------------
(* Submit keeps it *)

(* What is submitted is what comes next, and then comes the one after it.  *)
LEMMA NextIs ==
    ASSUME TypeOK, SourceInv, NextInput # None, phase \in {"Feeding", "InputEnded"},
           Pulled, extractor' = extractor
    PROVE  /\ NextInput = Upcoming
           /\ AfterInput' = IF NextInput = Eos THEN Eos ELSE NextInput + 1
           /\ NextInput = Eos => phase = "InputEnded"
           /\ queue' # <<>> => queue' = queue
           /\ queue = <<>> => queue' = <<>>
  <1>1. queue # <<>> => Head(queue) \in Packets /\ Tail(queue) = <<>>
    BY QueueIs
  <1>2. input \in Packets \cup {None, Eos} /\ extractor \in 0 .. PacketCount
    BY DEF TypeOK
  <1>3. CASE input \in Packets
    BY <1>2, <1>3, NumbersDiffer DEF NextInput, Upcoming, AfterInput, Pulled, SourceInv
  <1>4. CASE input = Eos
    BY <1>2, <1>4, NumbersDiffer DEF NextInput, Upcoming, AfterInput, Pulled, SourceInv
  <1>5. CASE input = None /\ queue # <<>>
    <2>1. /\ NextInput = Head(queue) /\ queue' = <<>> /\ extractor = Head(queue) + 1
          /\ Upcoming = Head(queue)
      BY <1>1, <1>5 DEF NextInput, Upcoming, AfterInput, Pulled, SourceInv
    <2>2. AfterInput' = extractor'
      BY <2>1 DEF AfterInput
    <2>3. NextInput \in Packets /\ NextInput # Eos
      BY <1>1, <1>5, <2>1, NumbersDiffer
    <2> QED
      BY <1>5, <2>1, <2>2, <2>3
  <1>6. CASE input = None /\ queue = <<>>
    <2>1. NextInput = Eos /\ phase = "InputEnded" /\ queue' = queue
      BY <1>6 DEF NextInput, Pulled
    <2>2. extractor = PacketCount
      BY <2>1 DEF SourceInv
    <2> QED
      BY <1>6, <2>1, <2>2 DEF Upcoming, AfterInput, Eos
  <1> QED
    BY <1>2, <1>3, <1>4, <1>5, <1>6

LEMMA SubmitSource ==
    ASSUME TypeOK, SourceInv, NEW n \in Packets \cup {Eos}, NEW time \in Nat,
           NEW queued \in BOOLEAN, Submits(n, time, queued)
    PROVE  /\ n = Upcoming /\ n \in Nat
           /\ Upcoming' = IF queued /\ n # Eos THEN n + 1 ELSE n
           /\ SourceInv'
  <1>1. /\ phase \in {"Feeding", "InputEnded"} /\ NextInput = n /\ Pulled /\ extractor' = extractor
        /\ phase' = IF queued /\ n = Eos THEN "Draining" ELSE phase
        /\ input' = IF queued THEN None ELSE n
        /\ pc' \in {"output", "impossible"}
    BY DEF Submits, Keeps
  <1>2. n # None /\ n \in Nat /\ None \notin Packets /\ Eos \notin Packets
    BY NumbersDiffer
  <1>3. /\ n = Upcoming /\ (n = Eos => phase = "InputEnded")
        /\ AfterInput' = IF n = Eos THEN Eos ELSE n + 1
        /\ queue' # <<>> => queue' = queue
        /\ queue = <<>> => queue' = <<>>
    BY <1>1, <1>2, NextIs
  <1>4. Upcoming' = IF queued THEN AfterInput' ELSE n
    BY <1>1, <1>2 DEF Upcoming
  <1>5. Upcoming' = IF queued /\ n # Eos THEN n + 1 ELSE n
    BY <1>3, <1>4
  <1>6. queue' # <<>> => extractor' = Head(queue') + 1
    BY <1>1, <1>3 DEF SourceInv
  <1>7. input' \in Packets => AfterInput' = input' + 1
    BY <1>1, <1>2, <1>3
  <1>8. input' = Eos => phase' = "InputEnded"
    BY <1>1, <1>2, <1>3, NumbersDiffer
  <1>9. phase' # "Feeding" => queue' = <<>> /\ extractor' = PacketCount
    BY <1>1, <1>3 DEF SourceInv
  <1>10. phase' \in {"Draining", "DecoderDrained"} => input' = None
    BY <1>1
  <1>11. pc' # "receive"
    BY <1>1
  <1>12. SourceInv'
    BY <1>6, <1>7, <1>8, <1>9, <1>10, <1>11 DEF SourceInv
  <1> QED
    BY <1>2, <1>3, <1>5, <1>12


LEMMA SubmitKeeps == AudioInv /\ (SubmitPacket \/ SubmitEnd) => AudioInv'
  <1> SUFFICES ASSUME AudioInv, SubmitPacket \/ SubmitEnd PROVE AudioInv'
    OBVIOUS
  <1>i. /\ TypeOK /\ SourceInv /\ EndInv /\ ContentInv /\ AnswerInv /\ FedInv /\ OffsetInv
        /\ FrameInv /\ NoInternalError /\ Decodable
    BY DEF AudioInv
  <1>1. PICK n \in Packets \cup {Eos}, time \in Nat, queued \in BOOLEAN : Submits(n, time, queued)
    BY <1>i, SubmitIs
  <1> DEFINE items == IF queued THEN Append(Due, [number |-> n, time |-> time]) ELSE Due
  <1>2. /\ Hands(items) /\ Keeps(n, queued) /\ phase \in {"Feeding", "InputEnded"}
        /\ (queued => ConfigRestored)
        /\ (queued /\ n # Eos => time = Pts(n) + OffsetFor(n))
        /\ pc' = "output" \/ codec.eosQueued \/ (n # Eos /\ Pts(n) + OffsetFor(n) < 0)
    BY <1>1 DEF Submits
  <1>3. /\ n = Upcoming /\ n \in Nat
        /\ Upcoming' = IF queued /\ n # Eos THEN n + 1 ELSE n
        /\ SourceInv'
    BY <1>i, <1>1, SubmitSource
  <1>4. TypeOK'
    BY <1>i, TypeSubmit
  <1>5. /\ codec.eosQueued = FALSE /\ codec.eosSeen = FALSE
        /\ codec'.eosQueued = (queued /\ n = Eos) /\ codec'.eosSeen = FALSE
    <2>1. codec.eosQueued \in BOOLEAN /\ codec.eosSeen \in BOOLEAN
      BY <1>i DEF TypeOK, Codecs
    <2>2. ~codec.eosQueued /\ ~codec.eosSeen
      BY <1>i, <1>2 DEF EndInv
    <2> QED
      BY <1>2, <2>1, <2>2 DEF Keeps
  <1>6. Pts(n) + OffsetFor(n) \in Nat /\ OffsetFor(n) \in Nat /\ OffsetFor(n) # None
    <2>1. /\ OffsetFor(n) \in Nat /\ Pts(n) \in Int /\ Pts(n) + OffsetFor(n) \in Int
      BY <1>i, <1>3, OffsetType DEF TypeOK
    <2>2. Pts(n) + OffsetFor(n) >= 0
      BY <1>i, <1>3, <2>1 DEF OffsetFor, FirstOffset, OffsetInv
    <2> QED
      BY <2>1, <2>2 DEF None
  <1>7. NoInternalError'
    BY <1>2, <1>5, <1>6 DEF NoInternalError
  <1>8. FrameInv'
    BY <1>i, <1>2 DEF FrameInv, Keeps
  <1>9. /\ decoder.configPending \in BOOLEAN
        /\ decoder'.configPending = (decoder.configPending /\ Due = <<>>)
        /\ ConfigRestored = (~decoder.configPending \/ Due # <<>>)
    BY <1>i, <1>2 DEF Keeps, ConfigRestored, TypeOK, Decoders
  <1>10. /\ IsDecodable(fed', platform.configLost, Packets \cup {Eos}) /\ fed' \in Feeds
         /\ Answers(fed', decoder.configPending /\ Due = <<>>, platform.configLost)
         /\ queued => Begun(fed') /\ fed'[Len(fed')] = n
         /\ ~queued => (Begun(fed') <=> Begun(fed)) /\ (Begun(fed) => fed' = fed)
         /\ decoder.configPending /\ Due = <<>> => ~queued /\ fed' = fed
    <2>1. Submitted(fed, fed', decoder.configPending, Due, n, time, queued)
      BY <1>2, <1>9, DueIs DEF Submitted, Hands
    <2>2. /\ fed \in Feeds /\ platform.configLost \in BOOLEAN
          /\ IsDecodable(fed, platform.configLost, Packets \cup {Eos})
          /\ Answers(fed, decoder.configPending, platform.configLost)
      BY <1>i, DecodableIs DEF TypeOK, Platforms, AnswerInv
    <2>3. Begun(fed) => n = fed[Len(fed)] + 1
      BY <1>i, <1>3, <1>5 DEF FedInv
    <2> QED
      BY <1>9, <2>1, <2>2, <2>3, SubmittedGrows
  <1>11. Decodable'
    <2>1. platform'.configLost = platform.configLost
      BY <1>2 DEF Hands
    <2>2. DOMAIN fed' = 1 .. Len(fed')
      BY <1>10 DEF Feeds
    <2> QED
      BY <1>10, <2>1, <2>2 DEF Decodable, IsDecodable, IsFirst
  <1>12. FedInv'
    <2>1. CASE queued
      BY <1>3, <1>5, <1>10, <2>1 DEF FedInv
    <2>2. CASE ~queued
      <3>1. Upcoming' = Upcoming /\ codec'.eosQueued = codec.eosQueued
        BY <1>3, <1>5, <2>2
      <3> QED
        BY <1>i, <1>10, <2>2, <3>1 DEF FedInv
    <2> QED
      BY <2>1, <2>2
  <1>13. AnswerInv'
    <2>1. /\ platform'.configLost = platform.configLost /\ platform'.answered = platform.answered
          /\ platform'.format = platform.format /\ platform'.outputs = platform.outputs
          /\ platform'.inputs = platform.inputs \o items /\ codec'.started = codec.started
      BY <1>2 DEF Hands, Keeps
    <2>2. Answers(fed', decoder'.configPending, platform'.configLost)
      BY <1>9, <1>10, <2>1
    <2>3. decoder'.configPending => decoder.configPending /\ items = <<>>
      BY <1>9, <1>10
    <2>4. platform.inputs = <<>> /\ items = <<>> => platform'.inputs = <<>>
      BY <2>1
    <2> HIDE DEF items
    <2> QED
      BY <1>i, <2>1, <2>2, <2>3, <2>4 DEF AnswerInv
  <1>14. OffsetInv'
    <2>1. \/ n # Eos /\ decoder'.offset = OffsetFor(n)
          \/ decoder'.offset = decoder.offset
      BY <1>2 DEF Keeps
    <2>2. decoder'.offset # None => Pts(n) + decoder'.offset >= 0 /\ decoder'.offset \in Nat
      <3>1. CASE n # Eos /\ decoder'.offset = OffsetFor(n)
        BY <1>6, <3>1
      <3>2. CASE decoder'.offset = decoder.offset
        BY <1>i, <1>3, <3>2 DEF OffsetInv, TypeOK, Decoders
      <3> QED
        BY <2>1, <3>1, <3>2
    <2>3. Pts(n) \in Int /\ Pts(n + 1) \in Int /\ Pts(n + 1) > Pts(n)
      BY <1>3, PtsIs
    <2>4. Upcoming' = n \/ Upcoming' = n + 1
      BY <1>3
    <2> QED
      BY <2>2, <2>3, <2>4 DEF OffsetInv
  <1>15. ContentInv'
    <2> DEFINE I == GoodInputs(decoder.offset, codec.eosQueued)
               I2 == GoodInputs(decoder'.offset, codec'.eosQueued)
               O == GoodOutputs(decoder.offset, platform.format, codec.eosQueued)
               O2 == GoodOutputs(decoder'.offset, platform'.format, codec'.eosQueued)
               item == [number |-> n, time |-> time]
    <2>1. /\ platform'.inputs = platform.inputs \o items /\ platform'.outputs = platform.outputs
          /\ platform'.format = platform.format /\ decoder'.hasFormat = decoder.hasFormat
      BY <1>2 DEF Hands, Keeps
    <2>2. decoder.offset = None \/ decoder'.offset = decoder.offset
      BY <1>2 DEF Keeps, OffsetFor
    <2>3. I \subseteq I2 /\ O \subseteq O2
      <3>1. /\ platform.format # "unknown" => platform'.format # "unknown"
            /\ codec.eosQueued = FALSE \/ codec'.eosQueued = TRUE
        BY <1>5, <2>1
      <3> QED
        BY <2>2, <3>1 DEF GoodInputs, GoodOutputs
    <2>4. platform.inputs \in Seq(I) /\ platform.outputs \in Seq(O)
          /\ (platform.format = "told" => decoder.hasFormat)
      BY <1>i DEF ContentInv
    <2>5. ConfigInput \in I2
      BY ConfigFacts, NumbersDiffer DEF GoodInputs
    <2>6. queued => item \in I2
      <3> SUFFICES ASSUME queued PROVE item \in I2
        OBVIOUS
      <3>1. item \in Inputs /\ item.number = n /\ item.time = time
        BY DEF Inputs
      <3>2. n = Eos => codec'.eosQueued
        BY <1>5
      <3>3. n \in Packets => decoder'.offset = OffsetFor(n) /\ time = Pts(n) + OffsetFor(n)
        BY <1>2, NumbersDiffer DEF Keeps
      <3> HIDE DEF item
      <3> QED
        BY <1>6, <3>1, <3>2, <3>3 DEF GoodInputs
    <2>7. Due \in Seq(I2)
      <3>1. <<ConfigInput>> \in Seq(I2) /\ <<>> \in Seq(I2)
        BY <2>5, OneElement
      <3> QED
        BY <3>1, DueIs
    <2>8. items \in Seq(I2)
      <3> HIDE DEF item, I2
      <3> QED
        BY <2>6, <2>7, AppendFacts DEF item
    <2> HIDE DEF I, I2, O, O2, items
    <2>9. platform.inputs \in Seq(I2) /\ platform.outputs \in Seq(O2)
      BY <2>3, <2>4, LargerSet
    <2>10. platform'.inputs \in Seq(I2)
      BY <2>1, <2>8, <2>9
    <2> QED
      BY <2>1, <2>4, <2>9, <2>10 DEF ContentInv, I2, O2
  <1>16. EndInv'
    <2>1. /\ \A i \in 1 .. Len(platform.inputs) : platform.inputs[i].number # Eos
          /\ \A i \in 1 .. Len(platform.outputs) : ~platform.outputs[i].eos
          /\ platform.inputs \in Seq(Inputs) /\ platform.outputs \in Seq(Outputs)
      BY <1>i, <1>5, NothingEnds
    <2>2. items \in Seq(Inputs) /\ \A i \in 1 .. Len(items) : items[i].number = Eos => i = Len(items)
      <3> DEFINE item == [number |-> n, time |-> time]
      <3>1. item \in Inputs
        BY DEF Inputs
      <3>2. Added(items, item)
        BY <3>1, DueIs
      <3> HIDE DEF items, item
      <3> QED
        BY <3>1, <3>2, AddedEnd
    <2>3. platform'.inputs = platform.inputs \o items /\ platform'.outputs = platform.outputs
      BY <1>2 DEF Hands
    <2> HIDE DEF items
    <2>4. EndIsLast(platform.outputs, platform.inputs \o items)
      BY <2>1, <2>2, EndQueued
    <2>5. phase' = IF queued /\ n = Eos THEN "Draining" ELSE phase
      BY <1>2 DEF Keeps
    <2>6. phase' # "DecoderDrained" /\ (codec'.eosQueued <=> phase' \in {"Draining", "DecoderDrained"})
      BY <1>2, <1>5, <2>5
    <2> QED
      BY <1>5, <2>3, <2>4, <2>6 DEF EndInv
  <1> QED
    BY <1>3, <1>4, <1>7, <1>8, <1>11, <1>12, <1>13, <1>14, <1>15, <1>16 DEF AudioInv


-----------------------------------------------------------------------------
(* Receive keeps it *)

(***************************************************************************)
(* The output that is taken is good, and since the format was told before  *)
(* it, its time can be restored.  The end of the stream comes only while   *)
(* the branch drains.                                                      *)
(***************************************************************************)
LEMMA TakenIs ==
    ASSUME AudioInv, NEW out, out = Head(platform.outputs), Takes(out),
           platform.format # "changed"
    PROVE  /\ out \in GoodOutputs(decoder.offset, platform.format, codec.eosQueued)
           /\ out.number \in Packets \cup {None} /\ out.eos \in BOOLEAN
           /\ out.eos => phase = "Draining"
           /\ out.number \in Packets =>
                /\ decoder.hasFormat /\ decoder.offset # None
                /\ RestoredTime(out) = Pts(out.number) * NanosPerMicro
  <1>i. TypeOK /\ ContentInv /\ EndInv /\ SourceInv
    BY DEF AudioInv
  <1>1. out \in GoodOutputs(decoder.offset, platform.format, codec.eosQueued)
    BY <1>i, NothingEnds DEF Takes
  <1>2. out \in Outputs
    BY <1>1 DEF GoodOutputs
  <1>3. out.eos => phase = "Draining"
    <2>1. out.eos => codec.eosQueued
      BY <1>1 DEF GoodOutputs
    <2> QED
      BY <1>i, <2>1 DEF EndInv, SourceInv, Takes
  <1>4. ASSUME out.number \in Packets
        PROVE  /\ decoder.hasFormat /\ decoder.offset # None
               /\ RestoredTime(out) = Pts(out.number) * NanosPerMicro
    <2>1. /\ decoder.offset # None /\ out.time = Pts(out.number) + decoder.offset
          /\ platform.format # "unknown"
      BY <1>1, <1>4 DEF GoodOutputs
    <2>2. platform.format = "told"
      BY <1>i, <2>1 DEF TypeOK, Platforms
    <2>3. out.time - decoder.offset = Pts(out.number)
      <3>1. decoder.offset \in Nat
        BY <1>i, <2>1 DEF TypeOK, Decoders
      <3>2. out.number \in Int
        BY <1>4 DEF Packets
      <3>3. Pts(out.number) \in Int
        BY <3>2, PtsIs
      <3> QED
        BY <2>1, <3>1, <3>3
    <2> QED
      BY <1>i, <2>1, <2>2, <2>3 DEF RestoredTime, ContentInv
  <1> QED
    BY <1>1, <1>2, <1>3, <1>4 DEF Outputs

LEMMA ReceiveKeeps == AudioInv /\ (ReceiveEmpty \/ ReceiveFrame) => AudioInv'
  <1> SUFFICES ASSUME AudioInv, ReceiveEmpty \/ ReceiveFrame PROVE AudioInv'
    OBVIOUS
  <1>i. /\ TypeOK /\ SourceInv /\ EndInv /\ ContentInv /\ AnswerInv /\ FedInv /\ OffsetInv
        /\ FrameInv /\ NoInternalError /\ Decodable
    BY DEF AudioInv
  <1>1. PICK out : out = Head(platform.outputs)
    OBVIOUS
  <1>2. Takes(out) /\ platform.format # "changed"
    BY <1>i, <1>1, ReceiveIs DEF ReceiveEmpty, ReceiveFrame, BufferReady
  <1>3. /\ out \in GoodOutputs(decoder.offset, platform.format, codec.eosQueued)
        /\ out.number \in Packets \cup {None} /\ out.eos \in BOOLEAN
        /\ out.eos => phase = "Draining"
        /\ out.number \in Packets =>
             /\ decoder.hasFormat /\ decoder.offset # None
             /\ RestoredTime(out) = Pts(out.number) * NanosPerMicro
    BY <1>1, <1>2, TakenIs
  <1>4. /\ UNCHANGED <<extractor, queue, input, boundary, decoder, generation, fed>>
        /\ platform.outputs # <<>> /\ pc = "receive" /\ phase # "DecoderDrained"
        /\ platform'.outputs = Tail(platform.outputs) /\ platform'.inputs = platform.inputs
        /\ platform'.format = platform.format /\ platform'.configLost = platform.configLost
        /\ platform'.answered = TRUE /\ codec'.started = TRUE
        /\ codec'.eosSeen = out.eos /\ codec'.eosQueued = codec.eosQueued
    BY <1>i, <1>2 DEF Takes, SourceInv
  <1>5. /\ pc' = "trimmed"
        /\ phase' = phase \/ (out.eos /\ phase = "Draining" /\ phase' = "DecoderDrained")
        /\ frame' # NoFrame /\ frame' # frame =>
              frame'.pts = Pts(frame'.number) * NanosPerMicro
    <2>1. CASE ReceiveEmpty
      <3>1. /\ frame' = frame
            /\ IF out.eos /\ ~out.config
               THEN EndOfStream ELSE pc' = "trimmed" /\ UNCHANGED phase
        BY <1>1, <2>1 DEF ReceiveEmpty
      <3> QED
        BY <1>3, <3>1 DEF EndOfStream
    <2>2. CASE ReceiveFrame
      <3>1. /\ out.number # None /\ phase' = phase
            /\ pc' = IF ~decoder.hasFormat \/ decoder.offset = None THEN "impossible" ELSE "trimmed"
            /\ frame' = IF (~decoder.hasFormat \/ decoder.offset = None) \/ IsEarly(RestoredTime(out))
                        THEN NoFrame
                        ELSE [number |-> out.number, pts |-> RestoredTime(out)]
        BY <1>1, <2>2 DEF ReceiveFrame
      <3> QED
        BY <1>3, <3>1
    <2> QED
      BY <2>1, <2>2
  <1>6. TypeOK'
    BY <1>i, TypeReceive
  <1>7. Upcoming' = Upcoming /\ AfterInput' = AfterInput
    BY <1>4 DEF Upcoming, AfterInput
  <1>8. SourceInv'
    BY <1>i, <1>4, <1>5, <1>7 DEF SourceInv
  <1>9. EndInv'
    <2>1. /\ EndIsLast(Tail(platform.outputs), platform.inputs)
          /\ out.eos => Tail(platform.outputs) = <<>> /\ platform.inputs = <<>>
      BY <1>i, <1>1, <1>4, NothingEnds, EndTaken DEF EndInv
    <2>2. /\ codec'.eosQueued <=> phase' \in {"Draining", "DecoderDrained"}
          /\ phase' = "DecoderDrained" => out.eos
          /\ out.eos => codec.eosQueued
      BY <1>i, <1>3, <1>4, <1>5 DEF EndInv
    <2> QED
      BY <1>4, <2>1, <2>2 DEF EndInv
  <1>10. ContentInv'
    <2> DEFINE O == GoodOutputs(decoder.offset, platform.format, codec.eosQueued)
    <2>1. platform.outputs \in Seq(O)
      BY <1>i DEF ContentInv
    <2> HIDE DEF O
    <2>2. Tail(platform.outputs) \in Seq(O)
      BY <1>4, <2>1, TailFacts
    <2> QED
      BY <1>i, <1>4, <2>2 DEF ContentInv, O
  <1>11. AnswerInv'
    BY <1>i, <1>4 DEF AnswerInv
  <1>12. FedInv' /\ OffsetInv'
    BY <1>i, <1>4, <1>7 DEF FedInv, OffsetInv
  <1>13. FrameInv'
    BY <1>i, <1>5 DEF FrameInv
  <1>14. NoInternalError' /\ Decodable'
    BY <1>i, <1>4, <1>5 DEF NoInternalError, Decodable, IsFirst
  <1> QED
    BY <1>6, <1>8, <1>9, <1>10, <1>11, <1>12, <1>13, <1>14 DEF AudioInv

-----------------------------------------------------------------------------
(* The platform keeps it *)

LEMMA PlatformKeeps == AudioInv /\ PlatformDecodes => AudioInv'
  <1> SUFFICES ASSUME AudioInv, PlatformDecodes PROVE AudioInv'
    OBVIOUS
  <1>i. /\ TypeOK /\ SourceInv /\ EndInv /\ ContentInv /\ AnswerInv /\ FedInv /\ OffsetInv
        /\ FrameInv /\ NoInternalError /\ Decodable
    BY DEF AudioInv
  <1>1. PICK item : item = Head(platform.inputs)
    OBVIOUS
  <1>2. /\ UNCHANGED <<branch, extractor, decoder, codec, generation, fed, heard>>
        /\ platform.inputs # <<>>
        /\ Decodes(AnswersTo(item), platform.inputs, platform.outputs,
                   platform'.inputs, platform'.outputs)
        /\ platform'.format = platform.format
           \/ (platform.format = "unknown" /\ platform'.format = "changed")
        /\ platform' = [inputs |-> platform'.inputs, outputs |-> platform'.outputs,
                        format |-> platform'.format, answered |-> platform.answered,
                        configLost |-> platform.configLost]
    BY <1>i, <1>1, PlatformIs
  <1>3. platform'.answered = platform.answered /\ platform'.configLost = platform.configLost
    BY <1>2
  <1>4. TypeOK'
    BY <1>i, TypePlatform
  <1>5. UNCHANGED <<pc, phase, queue, input, frame, boundary>>
    BY <1>2 DEF branch
  <1>6. Upcoming' = Upcoming /\ AfterInput' = AfterInput
    BY <1>2, <1>5 DEF Upcoming, AfterInput
  <1>7. SourceInv' /\ FedInv' /\ OffsetInv' /\ FrameInv' /\ NoInternalError'
    BY <1>i, <1>2, <1>5, <1>6 DEF SourceInv, FedInv, OffsetInv, FrameInv, NoInternalError
  <1>8. Decodable'
    BY <1>i, <1>2, <1>3 DEF Decodable, IsFirst
  <1>9. AnswerInv'
    BY <1>i, <1>2, <1>3 DEF AnswerInv
  <1>10. EndInv'
    <2>1. /\ platform.inputs \in Seq(Inputs) /\ platform.outputs \in Seq(Outputs)
          /\ EndIsLast(platform.outputs, platform.inputs)
      BY <1>i, NothingEnds DEF EndInv
    <2>2. AnswersTo(item) \subseteq Outputs
      BY DEF AnswersTo
    <2>3. Decodes(Outputs, platform.inputs, platform.outputs, platform'.inputs, platform'.outputs)
      BY <1>2, <2>2, DecodesMore
    <2>4. EndIsLast(platform'.outputs, platform'.inputs)
      BY <2>1, <2>3, AudioOutputs, DecodesEnd
    <2>5. ~codec.eosSeen
      BY <1>i, <1>2 DEF EndInv
    <2> QED
      BY <1>i, <1>2, <1>5, <2>4, <2>5 DEF EndInv
  <1>11. ContentInv'
    <2> DEFINE I == GoodInputs(decoder.offset, codec.eosQueued)
               O == GoodOutputs(decoder.offset, platform.format, codec.eosQueued)
               O2 == GoodOutputs(decoder.offset, platform'.format, codec.eosQueued)
               S == AnswersTo(item)
    <2>1. /\ platform.inputs \in Seq(I) /\ platform.outputs \in Seq(O)
          /\ (platform.format = "told" => decoder.hasFormat)
      BY <1>i DEF ContentInv
    <2>2. item \in I
      <3> HIDE DEF I
      <3> QED
        BY <1>1, <1>2, <2>1, TailFacts
    <2>3. ASSUME NEW o \in S PROVE o \in O
      <3>1. /\ o \in Outputs /\ (o.eos => item.number = Eos)
            /\ o.number = IF item.number \in Packets THEN item.number ELSE None
            /\ item.number \in Packets => o.time = item.time /\ platform.format # "unknown"
        BY DEF AnswersTo
      <3>2. /\ item.number \in Packets =>
                  decoder.offset # None /\ item.time = Pts(item.number) + decoder.offset
            /\ item.number = Eos => codec.eosQueued
        BY <2>2 DEF GoodInputs
      <3>3. o.number \in Packets => item.number \in Packets /\ o.number = item.number
        BY <3>1, NumbersDiffer
      <3> QED
        BY <3>1, <3>2, <3>3 DEF GoodOutputs
    <2>4. O \subseteq O2
      BY <1>2 DEF GoodOutputs
    <2>5. item.number = Eos => IsOutputs(O)
      <3>1. item.number = Eos => codec.eosQueued
        BY <2>2 DEF GoodInputs
      <3> QED
        BY <3>1, GoodTypes
    <2> HIDE DEF I, O, O2, S
    <2>6. Decodes(O, platform.inputs, platform.outputs, platform'.inputs, platform'.outputs)
      <3>1. S \subseteq O
        BY <2>3
      <3> QED
        BY <1>2, <3>1, DecodesMore DEF S
    <2>7. platform'.inputs \in Seq(I) /\ platform'.outputs \in Seq(O)
      BY <1>1, <2>1, <2>5, <2>6, DecodesType
    <2>8. platform'.outputs \in Seq(O2)
      BY <2>4, <2>7, LargerSet
    <2>9. platform'.format = "told" => decoder.hasFormat
      BY <1>2, <2>1
    <2> QED
      BY <1>2, <2>7, <2>8, <2>9 DEF ContentInv, I, O2
  <1> QED
    BY <1>4, <1>7, <1>8, <1>9, <1>10, <1>11 DEF AudioInv


-----------------------------------------------------------------------------
(* A seek and the quiet steps keep it *)

LEMMA SeekKeeps ==
    ASSUME AudioInv, NEW target \in 0 .. PacketCount * Spacing * NanosPerMicro, Seek(target)
    PROVE  AudioInv'
  <1>i. /\ TypeOK /\ AnswerInv /\ ContentInv /\ NoInternalError
        /\ decoder \in Decoders /\ codec \in Codecs
    BY DEF AudioInv, TypeOK
  <1>1. TypeOK'
    BY <1>i, TypeSeek
  <1>2. /\ pc = "output" /\ pc' \in {"output", "closed"} /\ phase' = "Feeding"
        /\ queue' = <<>> /\ input' = None /\ frame' = NoFrame /\ fed' = <<>>
        /\ platform'.inputs = <<>> /\ platform'.outputs = <<>>
        /\ platform'.format = (IF platform.format = "told" THEN "told" ELSE "unknown")
        /\ platform'.answered = platform.answered /\ platform'.configLost = ~platform.answered
    BY DEF Seek, BetweenSteps, FlushPlatform
  <1>3. /\ codec'.eosQueued = FALSE /\ codec'.eosSeen = FALSE /\ codec'.started = codec.started
        /\ decoder'.configPending = (decoder.configPending \/ ~codec.started)
        /\ decoder'.hasFormat = decoder.hasFormat /\ decoder'.offset = None
    BY <1>i DEF Seek, Flushed, Codecs, Decoders
  <1>4. SourceInv'
    BY <1>2, NumbersDiffer DEF SourceInv
  <1>5. EndInv'
    BY <1>2, <1>3 DEF EndInv, EndIsLast
  <1>6. ContentInv'
    BY <1>i, <1>2, <1>3 DEF ContentInv
  <1>7. AnswerInv'
    <2>1. platform.answered = codec.started /\ (decoder.configPending => ~codec.started)
      BY <1>i DEF AnswerInv
    <2> QED
      BY <1>2, <1>3, <2>1 DEF AnswerInv, Answers
  <1>8. FedInv' /\ OffsetInv' /\ FrameInv' /\ NoInternalError' /\ Decodable'
    BY <1>2, <1>3 DEF FedInv, Begun, OffsetInv, FrameInv, NoInternalError, Decodable
  <1> QED
    BY <1>1, <1>4, <1>5, <1>6, <1>7, <1>8 DEF AudioInv

(* What a quiet step leaves as it is. *)
LEMMA QuietIs ==
    ASSUME TypeOK, QuietStep
    PROVE  /\ UNCHANGED <<input, boundary, generation, fed, heard>> /\ frame' \in {frame, NoFrame}
           /\ platform'.inputs = platform.inputs /\ platform'.outputs = platform.outputs
           /\ platform'.configLost = platform.configLost
           /\ codec'.eosQueued = codec.eosQueued /\ codec'.eosSeen = codec.eosSeen
           /\ decoder'.configPending = decoder.configPending /\ decoder'.offset = decoder.offset
           /\ \/ UNCHANGED <<platform, codec, decoder>>
              \/ /\ platform.format = "changed" /\ platform'.format = "told"
                 /\ platform'.answered = TRUE /\ codec'.started = TRUE
                 /\ decoder'.hasFormat = TRUE
  <1>1. CASE ReceiveFormat
    BY <1>1 DEF ReceiveFormat, TypeOK, Platforms, Codecs, Decoders
  <1>2. CASE \E accepted \in BOOLEAN : SubmitFrame(accepted)
    BY <1>2 DEF SubmitFrame
  <1>3. CASE \/ ReceiveNothing \/ ReceiveEnd \/ SubmitNothing \/ ReadPacket \/ ReadEnd
             \/ Close \/ Closed \/ UNCHANGED vars
    BY <1>3 DEF ReceiveNothing, ReceiveEnd, EndOfStream, SubmitNothing, ReadPacket, ReadEnd,
                Close, Closed, vars, branch
  <1> QED
    BY <1>1, <1>2, <1>3 DEF QuietStep

(* Where the branch and the file are, after a quiet step. *)
LEMMA QuietSource ==
    ASSUME TypeOK, SourceInv, EndInv, NoInternalError, QuietStep
    PROVE  /\ SourceInv' /\ Upcoming' = Upcoming /\ NoInternalError'
           /\ \/ phase' = phase
              \/ phase = "Feeding" /\ phase' = "InputEnded"
              \/ ReceiveEnd /\ phase = "Draining" /\ phase' = "DecoderDrained" /\ codec.eosSeen
  <1>1. ASSUME UNCHANGED <<phase, extractor, queue, input>>,
               pc' # "impossible", pc' = "receive" => phase # "DecoderDrained"
        PROVE  /\ SourceInv' /\ Upcoming' = Upcoming /\ NoInternalError' /\ phase' = phase
    <2>1. AfterInput' = AfterInput /\ Upcoming' = Upcoming
      BY <1>1 DEF AfterInput, Upcoming
    <2> QED
      BY <1>1, <2>1 DEF SourceInv, NoInternalError
  <1>2. CASE \E accepted \in BOOLEAN : SubmitFrame(accepted)
    <2>1. PICK accepted \in BOOLEAN : SubmitFrame(accepted)
      BY <1>2
    <2>2. pc' # "impossible" /\ (pc' = "receive" => phase # "DecoderDrained")
      BY <2>1 DEF SubmitFrame
    <2>3. UNCHANGED <<phase, extractor, queue, input>>
      BY <2>1 DEF SubmitFrame
    <2> QED
      BY <1>1, <2>2, <2>3
  <1>3. CASE ReceiveNothing \/ ReceiveFormat \/ SubmitNothing \/ Close
    BY <1>1, <1>3 DEF ReceiveNothing, ReceiveFormat, SubmitNothing, Close
  <1>4. CASE Closed \/ UNCHANGED vars
    <2>1. UNCHANGED <<pc, phase, extractor, queue, input>>
      BY <1>4 DEF Closed, vars, branch
    <2> QED
      BY <1>1, <2>1 DEF SourceInv, NoInternalError
  <1>5. CASE ReceiveEnd
    <2>1. /\ pc = "receive" /\ codec.eosSeen /\ phase' = "DecoderDrained"
          /\ pc' = (IF phase = "Draining" THEN "trimmed" ELSE "impossible")
          /\ UNCHANGED <<extractor, queue, input>>
      BY <1>5 DEF ReceiveEnd, EndOfStream
    <2>2. phase = "Draining"
      BY <2>1 DEF SourceInv, EndInv
    <2>3. AfterInput' = AfterInput /\ Upcoming' = Upcoming
      BY <2>1 DEF AfterInput, Upcoming
    <2> QED
      BY <1>5, <2>1, <2>2, <2>3 DEF SourceInv, NoInternalError
  <1>6. CASE ReadPacket
    <2>1. CASE UNCHANGED <<queue, extractor>>
      BY <1>1, <1>6, <2>1 DEF ReadPacket, BetweenSteps
    <2>2. CASE queue' = <<extractor>> /\ extractor' = extractor + 1 /\ pc' = pc
      <3>1. /\ queue = <<>> /\ extractor \in Packets /\ phase = "Feeding" /\ pc = "output"
            /\ phase' = phase /\ input' = input
        BY <1>6 DEF ReadPacket, BetweenSteps
      <3>2. queue' # <<>> /\ Head(queue') = extractor
        BY <2>2, <3>1, QueueIs
      <3>3. AfterInput' = AfterInput
        BY <3>1, <3>2 DEF AfterInput
      <3>4. Upcoming' = Upcoming
        BY <3>1, <3>3 DEF Upcoming
      <3> QED
        BY <2>2, <3>1, <3>2, <3>3, <3>4 DEF SourceInv, NoInternalError
    <2> QED
      BY <1>6, <2>1, <2>2 DEF ReadPacket
  <1>7. CASE ReadEnd
    <2>1. /\ pc = "output" /\ phase = "Feeding" /\ phase' = "InputEnded" /\ queue = <<>>
          /\ extractor = PacketCount /\ UNCHANGED <<pc, extractor, queue, input>>
      BY <1>7 DEF ReadEnd, BetweenSteps
    <2>2. AfterInput' = AfterInput /\ Upcoming' = Upcoming
      BY <2>1 DEF AfterInput, Upcoming
    <2> QED
      BY <2>1, <2>2 DEF SourceInv, NoInternalError
  <1> QED
    BY <1>1, <1>2, <1>3, <1>4, <1>5, <1>6, <1>7 DEF QuietStep

LEMMA QuietKeeps == AudioInv /\ QuietStep => AudioInv'
  <1> SUFFICES ASSUME AudioInv, QuietStep PROVE AudioInv'
    OBVIOUS
  <1>i. /\ TypeOK /\ SourceInv /\ EndInv /\ ContentInv /\ AnswerInv /\ FedInv /\ OffsetInv
        /\ FrameInv /\ NoInternalError /\ Decodable
    BY DEF AudioInv
  <1>1. /\ UNCHANGED <<input, boundary, generation, fed, heard>> /\ frame' \in {frame, NoFrame}
        /\ platform'.inputs = platform.inputs /\ platform'.outputs = platform.outputs
        /\ platform'.configLost = platform.configLost
        /\ codec'.eosQueued = codec.eosQueued /\ codec'.eosSeen = codec.eosSeen
        /\ decoder'.configPending = decoder.configPending /\ decoder'.offset = decoder.offset
        /\ \/ UNCHANGED <<platform, codec, decoder>>
           \/ /\ platform.format = "changed" /\ platform'.format = "told"
              /\ platform'.answered = TRUE /\ codec'.started = TRUE
              /\ decoder'.hasFormat = TRUE
    BY <1>i, QuietIs
  <1>2. /\ SourceInv' /\ Upcoming' = Upcoming /\ NoInternalError'
        /\ \/ phase' = phase
           \/ phase = "Feeding" /\ phase' = "InputEnded"
           \/ ReceiveEnd /\ phase = "Draining" /\ phase' = "DecoderDrained" /\ codec.eosSeen
    BY <1>i, QuietSource
  <1>3. TypeOK'
    BY <1>i, TypeQuiet
  <1>4. EndInv'
    BY <1>i, <1>1, <1>2 DEF EndInv
  <1>5. ContentInv'
    <2> DEFINE O == GoodOutputs(decoder.offset, platform.format, codec.eosQueued)
               O2 == GoodOutputs(decoder.offset, platform'.format, codec.eosQueued)
    <2>1. O \subseteq O2
      BY <1>1 DEF GoodOutputs
    <2>2. platform.outputs \in Seq(O)
      BY <1>i DEF ContentInv
    <2> HIDE DEF O, O2
    <2>3. platform.outputs \in Seq(O2)
      BY <2>1, <2>2, LargerSet
    <2>4. platform'.format = "told" => decoder'.hasFormat
      BY <1>i, <1>1 DEF ContentInv
    <2> QED
      BY <1>i, <1>1, <2>3, <2>4 DEF ContentInv, O2
  <1>6. AnswerInv'
    BY <1>i, <1>1 DEF AnswerInv
  <1>7. FedInv' /\ OffsetInv' /\ FrameInv' /\ Decodable'
    BY <1>i, <1>1, <1>2 DEF FedInv, OffsetInv, FrameInv, Decodable, IsFirst
  <1> QED
    BY <1>2, <1>3, <1>4, <1>5, <1>6, <1>7 DEF AudioInv

LEMMA AudioInit == Init => AudioInv
  <1> SUFFICES ASSUME Init PROVE AudioInv
    OBVIOUS
  <1> USE DEF Init
  <1>1. TypeOK
    BY TypeInit
  <1>2. SourceInv /\ EndInv
    BY NumbersDiffer DEF SourceInv, EndInv, EndIsLast
  <1>3. ContentInv /\ AnswerInv
    BY DEF ContentInv, AnswerInv, Answers
  <1>4. FedInv /\ OffsetInv /\ FrameInv /\ NoInternalError /\ Decodable
    BY DEF FedInv, Begun, OffsetInv, FrameInv, NoInternalError, Decodable
  <1> QED
    BY <1>1, <1>2, <1>3, <1>4 DEF AudioInv

LEMMA AudioStep == AudioInv /\ [Next]_vars => AudioInv'
  BY StepIs, QuietKeeps, SubmitKeeps, ReceiveKeeps, PlatformKeeps, SeekKeeps

(***************************************************************************)
(* Wherever the track is sought and however often, before or after the     *)
(* codec has answered: it is given its configuration first exactly when    *)
(* the last flush took it away, then every packet after the one before,    *)
(* and the end of the stream behind the last one.                          *)
(***************************************************************************)
THEOREM DecodableAlways == Spec => []Decodable
  <1>1. AudioInv => Decodable
    BY DEF AudioInv
  <1> QED
    BY <1>1, AudioInit, AudioStep, PTL DEF Spec

-----------------------------------------------------------------------------
(* A queue *)

(***************************************************************************)
(* Inside in three parts: the end the codec has noted, what the platform   *)
(* offers, what waits in it.                                               *)
(***************************************************************************)
Ending == codec.eosSeen /\ phase # "DecoderDrained"
Noted(seen) == IF seen THEN <<Eos>> ELSE <<>>

LEMMA InsideIs ==
    /\ Inside = Three(Noted(Ending), Offered(platform.outputs), Waiting(platform.inputs))
    /\ Inside' = Three(Noted(Ending'), Offered(platform'.outputs), Waiting(platform'.inputs))
  BY DEF Inside, Three, Join, Noted, Ending

LEMMA NotedIs ==
    /\ \A seen : Noted(seen) \in Seq(Numbers)
    /\ Noted(FALSE) = <<>> /\ Noted(TRUE) = <<Eos>> /\ Eos \in Numbers
  <1>1. Eos \in Numbers
    BY DEF Numbers
  <1>2. <<Eos>> \in Seq(Numbers) /\ <<>> \in Seq(Numbers)
    BY <1>1, OneElement
  <1> QED
    BY <1>1, <1>2 DEF Noted

LEMMA PartTypes ==
    ASSUME AudioInv
    PROVE  /\ platform.outputs \in Seq(Outputs) /\ platform.inputs \in Seq(Inputs)
           /\ Noted(Ending) \in Seq(Numbers)
           /\ Offered(platform.outputs) \in Seq(Numbers)
           /\ Waiting(platform.inputs) \in Seq(Numbers)
           /\ Inside \in Seq(Numbers)
           /\ ~codec.eosQueued => Inside \in Seq(Packets)
  <1>1. /\ platform.outputs \in Seq(Outputs) /\ platform.inputs \in Seq(Inputs)
        /\ ~codec.eosQueued =>
             /\ \A i \in 1 .. Len(platform.inputs) : platform.inputs[i].number # Eos
             /\ \A i \in 1 .. Len(platform.outputs) : ~platform.outputs[i].eos
    BY NothingEnds DEF AudioInv
  <1>2. /\ Noted(Ending) \in Seq(Numbers) /\ Offered(platform.outputs) \in Seq(Numbers)
        /\ Waiting(platform.inputs) \in Seq(Numbers)
    BY <1>1, NotedIs, OfferedSteps, AudioOutputs, WaitingSteps
  <1>3. Three(Noted(Ending), Offered(platform.outputs), Waiting(platform.inputs)) \in Seq(Numbers)
    BY <1>2, ThreeJoined
  <1>4. ASSUME ~codec.eosQueued PROVE Inside \in Seq(Packets)
    <2>1. Ending = FALSE
      BY <1>4 DEF Ending, AudioInv, EndInv
    <2>2. Noted(Ending) \in Seq(Packets)
      <3>1. Noted(Ending) = <<>>
        BY <2>1, NotedIs
      <3>2. <<>> \in Seq(Packets)
        OBVIOUS
      <3> QED
        BY <3>1, <3>2
    <2>3. Offered(platform.outputs) \in Seq(Packets) /\ Waiting(platform.inputs) \in Seq(Packets)
      BY <1>1, <1>4, NoEnd, AudioOutputs
    <2>4. Three(Noted(Ending), Offered(platform.outputs), Waiting(platform.inputs))
             \in Seq(Packets)
      BY <2>2, <2>3, ThreeJoined
    <2> QED
      BY <2>4, InsideIs
  <1> QED
    BY <1>1, <1>2, <1>3, <1>4, InsideIs

LEMMA NextInside == AudioInv' => Inside' \in Seq(Numbers)
  <1> SUFFICES ASSUME AudioInv' PROVE Inside' \in Seq(Numbers)
    OBVIOUS
  <1>1. platform'.outputs \in Seq(Outputs) /\ platform'.inputs \in Seq(Inputs)
    BY DEF AudioInv, TypeOK, Platforms
  <1>2. /\ Noted(Ending') \in Seq(Numbers) /\ Offered(platform'.outputs) \in Seq(Numbers)
        /\ Waiting(platform'.inputs) \in Seq(Numbers)
    BY <1>1, NotedIs, OfferedSteps, AudioOutputs, WaitingSteps
  <1>3. Three(Noted(Ending'), Offered(platform'.outputs), Waiting(platform'.inputs))
           \in Seq(Numbers)
    BY <1>2, ThreeJoined
  <1> QED
    BY <1>3, InsideIs

(* The number that is submitted next, or one behind the end of the stream. *)
End == IF codec.eosQueued THEN Eos + 1 ELSE Upcoming

(***************************************************************************)
(* What a step does to the queue, and what is heard of it: nothing moves,  *)
(* x leaves (heard, unless it is early or not the first), what comes next  *)
(* is put in, or a seek empties it all.                                    *)
(***************************************************************************)
Stays == Inside' = Inside /\ End' = End /\ UNCHANGED <<generation, boundary, heard>>

IsHeard(x) == heard = None /\ x # Eos /\ EndOf(x) > boundary

Leaves(x) ==
    /\ Inside = Join(<<x>>, Inside') /\ End' = End /\ UNCHANGED <<generation, boundary>>
    /\ heard' = IF IsHeard(x) THEN x ELSE heard

Comes ==
    /\ Inside \in Seq(Packets) /\ End \in Numbers
    /\ Inside' = Join(Inside, <<End>>) /\ End' = End + 1
    /\ UNCHANGED <<generation, boundary, heard>>

Empties ==
    /\ Inside' = <<>> /\ generation' = generation + 1 /\ heard' = None
    /\ boundary' \in Nat /\ End' = Landing(Micros(boundary'))

Moves == Stays \/ (\E x \in Numbers : Leaves(x)) \/ Comes \/ Empties

LEMMA QueueSubmit == AudioInv /\ (SubmitPacket \/ SubmitEnd) => Moves
  <1> SUFFICES ASSUME AudioInv, SubmitPacket \/ SubmitEnd PROVE Moves
    OBVIOUS
  <1>i. TypeOK /\ SourceInv /\ EndInv
    BY DEF AudioInv
  <1>1. PICK n \in Packets \cup {Eos}, time \in Nat, queued \in BOOLEAN : Submits(n, time, queued)
    BY <1>i, SubmitIs
  <1> DEFINE item == [number |-> n, time |-> time]
             items == IF queued THEN Append(Due, item) ELSE Due
             c == Offered(platform.outputs)
             d == Waiting(platform.inputs)
             f == Noted(Ending)
             s == <<n>>
  <1>2. /\ Hands(items) /\ Keeps(n, queued) /\ phase \in {"Feeding", "InputEnded"}
    BY <1>1 DEF Submits
  <1>3. /\ n = Upcoming /\ n \in Nat /\ Upcoming' = IF queued /\ n # Eos THEN n + 1 ELSE n
    BY <1>i, <1>1, SubmitSource
  <1>4. /\ codec.eosQueued = FALSE /\ codec.eosSeen = FALSE
        /\ codec'.eosQueued = (queued /\ n = Eos) /\ codec'.eosSeen = FALSE
    <2>1. codec.eosQueued \in BOOLEAN /\ codec.eosSeen \in BOOLEAN
      BY <1>i DEF TypeOK, Codecs
    <2>2. ~codec.eosQueued /\ ~codec.eosSeen
      BY <1>i, <1>2 DEF EndInv
    <2> QED
      BY <1>2, <2>1, <2>2 DEF Keeps
  <1>5. /\ End = n /\ (queued => End' = n + 1) /\ (~queued => End' = n)
    BY <1>3, <1>4 DEF End
  <1>6. Inside \in Seq(Packets) /\ f \in Seq(Numbers) /\ c \in Seq(Numbers) /\ d \in Seq(Numbers)
    BY <1>4, PartTypes
  <1>7. n \in Numbers /\ s \in Seq(Numbers)
    <2>1. n \in Numbers
      BY DEF Numbers
    <2> QED
      BY <2>1, OneElement
  <1>8. Waiting(platform.inputs \o items) = IF queued THEN Join(d, s) ELSE d
    <2>1. item \in Inputs /\ item.number = n
      BY DEF Inputs
    <2> HIDE DEF item
    <2>2. /\ Waiting(platform.inputs \o Due) = Waiting(platform.inputs)
          /\ Waiting(platform.inputs \o Append(Due, item))
                = Join(Waiting(platform.inputs), <<item.number>>)
      BY <2>1, PartTypes, DueIs, DueWaiting
    <2> QED
      BY <2>1, <2>2
  <1>9. /\ platform'.inputs = platform.inputs \o items /\ platform'.outputs = platform.outputs
        /\ UNCHANGED <<generation, boundary, heard>>
    BY <1>2 DEF Hands, Keeps
  <1>10. Ending' = Ending
    BY <1>4 DEF Ending
  <1>11. Inside = Three(f, c, d) /\ Inside' = Three(f, c, IF queued THEN Join(d, s) ELSE d)
    BY <1>8, <1>9, <1>10, InsideIs
  <1> HIDE DEF items, item, c, d, f, s
  <1>12. Three(f, c, Join(d, s)) = Join(Three(f, c, d), s)
    BY <1>6, <1>7, ThreeJoined
  <1>13. CASE queued
    <2>1. Inside' = Join(Inside, <<End>>)
      BY <1>5, <1>11, <1>12, <1>13 DEF s
    <2>2. Comes
      BY <1>5, <1>6, <1>7, <1>9, <1>13, <2>1 DEF Comes
    <2> QED
      BY <2>2 DEF Moves
  <1>14. CASE ~queued
    BY <1>5, <1>9, <1>11, <1>14 DEF Stays, Moves
  <1> QED
    BY <1>13, <1>14

(* A block is early when it ends before the boundary. *)
LEMMA EarlyIs ==
    ASSUME NEW n \in Int
    PROVE  /\ IsEarly(Pts(n) * NanosPerMicro) <=> EndOf(n) <= boundary
           /\ EndOf(n) \in Int
  <1>1. Pts(n) \in Int /\ Spacing \in Int /\ NanosPerMicro \in Int
    BY PtsIs
  <1>2. \A a, b, x \in Int : (a + b) * x = a * x + b * x
    OBVIOUS
  <1>3. (Pts(n) + Spacing) * NanosPerMicro = Pts(n) * NanosPerMicro + Spacing * NanosPerMicro
    BY <1>1, <1>2
  <1>4. EndOf(n) \in Int
    BY <1>1 DEF EndOf
  <1> QED
    BY <1>3, <1>4 DEF IsEarly, EndOf

LEMMA QueueReceive == AudioInv /\ (ReceiveEmpty \/ ReceiveFrame) => Moves
  <1> SUFFICES ASSUME AudioInv, ReceiveEmpty \/ ReceiveFrame PROVE Moves
    OBVIOUS
  <1>i. TypeOK /\ SourceInv /\ EndInv
    BY DEF AudioInv
  <1>1. PICK out : out = Head(platform.outputs)
    OBVIOUS
  <1>2. Takes(out) /\ platform.format # "changed" /\ out \in Outputs
        /\ Tail(platform.outputs) \in Seq(Outputs)
    BY <1>i, <1>1, ReceiveIs DEF ReceiveEmpty, ReceiveFrame, BufferReady
  <1>3. /\ out.number \in Packets \cup {None} /\ out.eos \in BOOLEAN
        /\ out.eos => phase = "Draining"
        /\ out.number \in Packets =>
             /\ decoder.hasFormat /\ decoder.offset # None
             /\ RestoredTime(out) = Pts(out.number) * NanosPerMicro
    BY <1>1, <1>2, TakenIs
  <1>4. /\ UNCHANGED <<extractor, queue, input, boundary, decoder, generation, fed>>
        /\ platform.outputs # <<>> /\ phase # "DecoderDrained" /\ codec.eosSeen = FALSE
        /\ platform'.outputs = Tail(platform.outputs) /\ platform'.inputs = platform.inputs
        /\ codec'.eosSeen = out.eos /\ codec'.eosQueued = codec.eosQueued
    BY <1>i, <1>2 DEF Takes, SourceInv, TypeOK, Codecs
  <1>5. End' = End /\ UNCHANGED <<generation, boundary>>
    BY <1>4 DEF End, Upcoming, AfterInput
  <1> DEFINE c == Offered(Tail(platform.outputs))
             d == Waiting(platform.inputs)
             g == Noted(out.eos)
             e == Emits(out)
             none == <<>>
  <1>6. /\ Offered(platform.outputs) = Join(e, c) /\ c \in Seq(Numbers) /\ d \in Seq(Numbers)
        /\ g \in Seq(Numbers) /\ none \in Seq(Numbers) /\ e \in Seq(Numbers)
    BY <1>1, <1>2, <1>4, PartTypes, OfferedSteps, AudioOutputs, NotedIs, EmitsIs
  <1>7. Inside = Join(e, Three(none, c, d))
    <2>1. Ending = FALSE
      BY <1>4 DEF Ending
    <2>2. Inside = Three(none, Join(e, c), d)
      BY <1>6, <2>1, NotedIs, InsideIs
    <2> HIDE DEF c, d, e, none
    <2>3. Three(<<>>, Join(e, c), d) = Join(e, Three(<<>>, c, d))
      BY <1>6, ThreeJoined
    <2> QED
      BY <2>2, <2>3 DEF none
  <1>8. Inside' = Three(Noted(Ending'), c, d)
    BY <1>4, InsideIs
  <1>9. CASE ReceiveEmpty
    <2>1. /\ out.number = None /\ heard' = heard
          /\ IF out.eos /\ ~out.config THEN EndOfStream ELSE UNCHANGED phase
      BY <1>1, <1>9 DEF ReceiveEmpty
    <2>2. (~out.eos => e = none) /\ (out.eos => e = <<Eos>> /\ g = <<Eos>>)
      BY <1>2, <2>1, EmitsIs, AudioOutputs, NotedIs
    <2>3. CASE out.eos /\ ~out.config
      <3>1. Ending' = FALSE
        BY <2>1, <2>3 DEF Ending, EndOfStream
      <3>2. Inside = Join(<<Eos>>, Inside')
        BY <1>7, <1>8, <2>2, <2>3, <3>1, NotedIs
      <3>3. Leaves(Eos)
        BY <1>5, <2>1, <3>2 DEF Leaves, IsHeard
      <3> QED
        BY <3>3, NotedIs DEF Moves
    <2>4. CASE out.eos /\ out.config
      <3>1. Ending' = TRUE
        BY <1>4, <2>1, <2>4 DEF Ending
      <3>2. Inside' = Three(g, c, d) /\ e = g
        BY <1>8, <2>2, <2>4, <3>1, NotedIs
      <3> HIDE DEF c, d, e, none, g
      <3>3. Three(g, c, d) = Join(g, Three(<<>>, c, d))
        BY <1>6, ThreeJoined
      <3>4. Inside' = Inside
        BY <1>7, <3>2, <3>3 DEF none
      <3> QED
        BY <1>5, <2>1, <3>4 DEF Stays, Moves
    <2>5. CASE ~out.eos
      <3>1. Ending' = FALSE
        BY <1>3, <1>4, <2>5 DEF Ending
      <3>2. Inside' = Three(none, c, d)
        BY <1>8, <3>1, NotedIs
      <3> HIDE DEF c, d, e
      <3>3. Inside = Three(none, c, d)
        <4>1. Three(none, c, d) \in Seq(Numbers)
          BY <1>6, ThreeJoined
        <4> QED
          BY <1>7, <2>2, <2>5, <4>1, JoinFacts
      <3> QED
        BY <1>5, <2>1, <3>2, <3>3 DEF Stays, Moves
    <2> QED
      BY <2>3, <2>4, <2>5
  <1>10. CASE ReceiveFrame
    <2> DEFINE n == out.number
               x == <<n>>
    <2>1. n # None /\ phase' = phase
      BY <1>1, <1>10 DEF ReceiveFrame
    <2>2. n \in Packets /\ n # Eos /\ n \in Int /\ n \in Numbers
      BY <1>3, <2>1, NumbersDiffer DEF Numbers, Packets
    <2>3. heard' = IF IsHeard(n) THEN n ELSE heard
      <3>1. /\ heard' = IF heard = None THEN frame'.number ELSE heard
            /\ frame' = IF IsEarly(RestoredTime(out)) THEN NoFrame
                        ELSE [number |-> n, pts |-> RestoredTime(out)]
        BY <1>1, <1>3, <1>10, <2>2 DEF ReceiveFrame
      <3>2. IsEarly(RestoredTime(out)) <=> EndOf(n) <= boundary
        BY <1>3, <2>2, EarlyIs
      <3>3. EndOf(n) \in Int /\ boundary \in Int
        BY <1>i, <2>2, EarlyIs DEF TypeOK
      <3>4. EndOf(n) > boundary <=> ~(EndOf(n) <= boundary)
        BY <3>3
      <3> QED
        BY <2>2, <3>1, <3>2, <3>4 DEF IsHeard, NoFrame
    <2>4. e = Join(x, g) /\ x \in Seq(Numbers)
      <3>1. e = Join(IF n = None THEN <<>> ELSE <<n>>, IF out.eos THEN <<Eos>> ELSE <<>>)
        BY <1>2, EmitsIs, AudioOutputs
      <3> QED
        BY <2>1, <2>2, <3>1, OneElement DEF Noted
    <2>5. Ending' = out.eos
      BY <1>3, <1>4, <2>1 DEF Ending
    <2>6. Inside' = Three(g, c, d)
      BY <1>8, <2>5
    <2> HIDE DEF c, d, e, g, x, none, n
    <2>7. Three(g, c, d) = Join(g, Three(<<>>, c, d)) /\ Three(<<>>, c, d) \in Seq(Numbers)
      <3>1. Three(none, c, d) \in Seq(Numbers)
        BY <1>6, ThreeJoined
      <3>2. Three(g, c, d) = Join(g, Three(<<>>, c, d))
        BY <1>6, ThreeJoined
      <3> QED
        BY <3>1, <3>2 DEF none
    <2>8. Join(Join(x, g), Three(<<>>, c, d)) = Join(x, Join(g, Three(<<>>, c, d)))
      BY <1>6, <2>4, <2>7, JoinFacts
    <2>9. Inside = Join(<<n>>, Inside')
      BY <1>7, <2>4, <2>6, <2>7, <2>8 DEF x, none
    <2>10. Leaves(n)
      BY <1>5, <2>3, <2>9 DEF Leaves
    <2> QED
      BY <2>2, <2>10 DEF Moves
  <1> QED
    BY <1>9, <1>10


(* The platform moves what it holds, and nothing else: the queue is the same. *)
LEMMA QueuePlatform == AudioInv /\ PlatformDecodes => Moves
  <1> SUFFICES ASSUME AudioInv, PlatformDecodes PROVE Moves
    OBVIOUS
  <1>1. PICK item : item = Head(platform.inputs)
    OBVIOUS
  <1>2. /\ UNCHANGED <<branch, extractor, decoder, codec, generation, fed, heard>>
        /\ Decodes(AnswersTo(item), platform.inputs, platform.outputs,
                   platform'.inputs, platform'.outputs)
    BY <1>1, PlatformIs DEF AudioInv
  <1>3. UNCHANGED <<pc, phase, queue, input, frame, boundary>>
    BY <1>2 DEF branch
  <1>4. AnswersTo(item) \subseteq Outputs
    BY DEF AnswersTo
  <1>5. Decodes(Outputs, platform.inputs, platform.outputs, platform'.inputs, platform'.outputs)
    BY <1>2, <1>4, DecodesMore
  <1>6. EndIsLast(platform.outputs, platform.inputs)
    BY DEF AudioInv, EndInv
  <1>7. Three(Noted(Ending), Offered(platform'.outputs), Waiting(platform'.inputs))
           = Three(Noted(Ending), Offered(platform.outputs), Waiting(platform.inputs))
    BY <1>5, <1>6, PartTypes, DecodesQueue, AudioOutputs
  <1>8. Ending' = Ending /\ End' = End
    BY <1>2, <1>3 DEF Ending, End, Upcoming, AfterInput
  <1> QED
    BY <1>2, <1>3, <1>7, <1>8, InsideIs DEF Stays, Moves

LEMMA QueueSeek ==
    ASSUME AudioInv, NEW target \in 0 .. PacketCount * Spacing * NanosPerMicro, Seek(target)
    PROVE  Moves
  <1>1. /\ platform'.inputs = <<>> /\ platform'.outputs = <<>> /\ queue' = <<>> /\ input' = None
        /\ extractor' = Landing(Micros(target)) /\ boundary' = target
        /\ generation' = generation + 1 /\ heard' = None
    BY DEF Seek, FlushPlatform
  <1>2. codec'.eosQueued = FALSE /\ codec'.eosSeen = FALSE
    BY DEF Seek, AudioInv, TypeOK, Codecs
  <1>3. target \in Nat
    <2>1. PacketCount * Spacing * NanosPerMicro \in Int
      OBVIOUS
    <2> QED
      BY <2>1
  <1>4. End' = Landing(Micros(boundary'))
    BY <1>1, <1>2 DEF End, Upcoming, AfterInput
  <1>5. Offered(<<>>) = <<>> /\ Waiting(<<>>) = <<>>
    <2>1. <<>> \in Seq(Outputs) /\ <<>> \in Seq(Inputs)
      OBVIOUS
    <2> QED
      BY <2>1, OfferedSteps, AudioOutputs, WaitingSteps
  <1>6. Ending' = FALSE
    BY <1>2 DEF Ending
  <1>7. Three(<<>>, <<>>, <<>>) = <<>>
    BY JoinFacts DEF Three
  <1>8. Inside' = <<>>
    BY <1>1, <1>5, <1>6, <1>7, InsideIs, NotedIs
  <1> QED
    BY <1>1, <1>3, <1>4, <1>8 DEF Empties, Moves

LEMMA QueueQuiet == AudioInv /\ QuietStep => Moves
  <1> SUFFICES ASSUME AudioInv, QuietStep PROVE Moves
    OBVIOUS
  <1>i. TypeOK /\ SourceInv /\ EndInv /\ NoInternalError
    BY DEF AudioInv
  <1>1. /\ UNCHANGED <<boundary, generation, heard>>
        /\ platform'.inputs = platform.inputs /\ platform'.outputs = platform.outputs
        /\ codec'.eosQueued = codec.eosQueued /\ codec'.eosSeen = codec.eosSeen
    BY <1>i, QuietIs
  <1>2. /\ Upcoming' = Upcoming
        /\ \/ phase' = phase
           \/ phase = "Feeding" /\ phase' = "InputEnded"
           \/ ReceiveEnd /\ phase = "Draining" /\ phase' = "DecoderDrained" /\ codec.eosSeen
    BY <1>i, QuietSource
  <1>3. End' = End
    BY <1>1, <1>2 DEF End
  <1>4. CASE phase' = phase \/ (phase = "Feeding" /\ phase' = "InputEnded")
    <2>1. Ending' = Ending
      BY <1>1, <1>4 DEF Ending
    <2> QED
      BY <1>1, <1>3, <2>1, InsideIs DEF Stays, Moves
  <1>5. CASE phase = "Draining" /\ phase' = "DecoderDrained" /\ codec.eosSeen
    <2> DEFINE c == Offered(platform.outputs)
               d == Waiting(platform.inputs)
               g == <<Eos>>
    <2>1. Ending = TRUE /\ Ending' = FALSE
      BY <1>i, <1>1, <1>5 DEF Ending, TypeOK, Codecs
    <2>2. Inside = Three(g, c, d) /\ Inside' = Three(<<>>, c, d)
      BY <1>1, <2>1, NotedIs, InsideIs
    <2>3. c \in Seq(Numbers) /\ d \in Seq(Numbers) /\ g \in Seq(Numbers)
      BY PartTypes, NotedIs, OneElement
    <2> HIDE DEF c, d, g
    <2>4. Three(g, c, d) = Join(g, Three(<<>>, c, d))
      BY <2>3, ThreeJoined
    <2>5. Leaves(Eos)
      BY <1>1, <1>3, <2>2, <2>4 DEF Leaves, IsHeard, g
    <2> QED
      BY <2>5, NotedIs DEF Moves
  <1> QED
    BY <1>2, <1>4, <1>5

(* Whatever happens, one of these happens to the queue. *)
LEMMA QueueStep == AudioInv /\ [Next]_vars => Moves
  BY StepIs, QueueQuiet, QueueSubmit, QueueReceive, QueuePlatform, QueueSeek

(* The queue's steps are those a pipeline branch may assume of its decoder. *)
LEMMA ContractStep ==
    ASSUME AudioInv, AudioInv', Moves
    PROVE  [Contract!Next]_(Contract!vars)
  <1>1. Inside \in Seq(Numbers) /\ Inside' \in Seq(Numbers)
    BY PartTypes, NextInside
  <1> DEFINE old == Inside
             new == Inside'
  <1>2. CASE Stays
    BY <1>2 DEF Stays, Contract!vars
  <1>3. ASSUME NEW x \in Numbers, Leaves(x) PROVE [Contract!Next]_(Contract!vars)
    <2>1. old = <<x>> \o new /\ new \in Seq(Numbers)
      BY <1>1, <1>3 DEF Leaves, Join
    <2> HIDE DEF old, new
    <2>2. old # <<>> /\ Tail(old) = new
      BY <2>1, Concats
    <2> QED
      BY <1>3, <2>2 DEF Leaves, Contract!Next, Contract!Receive, old, new
  <1>4. CASE Comes
    <2>1. PICK x : x = End
      OBVIOUS
    <2>2. x \in Numbers /\ Inside \in Seq(Packets) /\ generation' = generation
      BY <1>4, <2>1 DEF Comes
    <2>3. new = old \o <<x>> /\ old \in Seq(Numbers)
      BY <1>1, <1>4, <2>1 DEF Comes, Join
    <2>4. \A i \in DOMAIN old : old[i] # Eos
      <3>1. \A i \in DOMAIN old : old[i] \in Packets
        BY <2>2
      <3> QED
        BY <3>1, NumbersDiffer
    <2> HIDE DEF old, new
    <2>5. new = Append(old, x)
      BY <2>2, <2>3, Concats
    <2>6. x \in 0 .. Eos
      BY <2>2 DEF Numbers, Packets, Eos
    <2> QED
      BY <2>2, <2>4, <2>5, <2>6 DEF Contract!Next, Contract!Submit, old, new
  <1>5. CASE Empties
    BY <1>5 DEF Empties, Contract!Next, Contract!Flush
  <1> QED
    BY <1>2, <1>3, <1>4, <1>5 DEF Moves

LEMMA InsideInit == Init => Inside = <<>> /\ End = 0
  <1> SUFFICES ASSUME Init PROVE Inside = <<>> /\ End = 0
    OBVIOUS
  <1>1. Ending = FALSE /\ platform.inputs = <<>> /\ platform.outputs = <<>> /\ End = 0
    BY DEF Init, Ending, End, Upcoming, AfterInput
  <1>2. Offered(<<>>) = <<>> /\ Waiting(<<>>) = <<>>
    <2>1. <<>> \in Seq(Outputs) /\ <<>> \in Seq(Inputs)
      OBVIOUS
    <2> QED
      BY <2>1, OfferedSteps, AudioOutputs, WaitingSteps
  <1>3. Three(<<>>, <<>>, <<>>) = <<>>
    BY JoinFacts DEF Three
  <1> QED
    BY <1>1, <1>2, <1>3, InsideIs, NotedIs

(***************************************************************************)
(* The audio decoder, its codec and the platform's are together one queue: *)
(* what is submitted comes out once and in order, the end of the stream    *)
(* last, whether it comes alone or with the last block; only a flush takes *)
(* something out.  They implement DecoderContract.                         *)
(***************************************************************************)
THEOREM IsAQueueAlways == Spec => IsAQueue
  <1>1. Init => Contract!Init
    BY InsideInit DEF Init, Contract!Init
  <1>2. AudioInv /\ [Next]_vars => [Contract!Next]_(Contract!vars)
    BY AudioStep, QueueStep, ContractStep
  <1> QED
    BY <1>1, <1>2, AudioInit, AudioStep, PTL DEF Spec, IsAQueue, Contract!Spec


-----------------------------------------------------------------------------
(* What is heard *)

(* Later packets have later times. *)
LEMMA PtsOrder ==
    ASSUME NEW m \in Nat, NEW n \in Nat, m <= n
    PROVE  Pts(m) <= Pts(n) /\ Pts(m) \in Int /\ Pts(n) \in Int
  <1>1. PICK d \in Nat : n = m + d
    <2>1. n - m \in Nat /\ n = m + (n - m)
      OBVIOUS
    <2> QED
      BY <2>1
  <1>2. \A a, b, c \in Int : (a + b) * c = a * c + b * c
    OBVIOUS
  <1>3. n * Spacing = m * Spacing + d * Spacing
    BY <1>1, <1>2
  <1>4. d * Spacing \in Nat /\ m * Spacing \in Nat /\ Lead \in Nat
    OBVIOUS
  <1> QED
    BY <1>3, <1>4 DEF Pts

(* The demuxer seeks in whole microseconds, none of them behind the target. *)
LEMMA MicrosIs ==
    ASSUME NEW ns \in Nat
    PROVE  Micros(ns) \in Int /\ Micros(ns) * NanosPerMicro <= ns
  <1>1. ns \div NanosPerMicro \in Int
    OBVIOUS
  <1>2. NanosPerMicro * (ns \div NanosPerMicro) <= ns
    OBVIOUS
  <1>3. \A a, b \in Int : a * b = b * a
    OBVIOUS
  <1>4. (ns \div NanosPerMicro) * NanosPerMicro <= ns
    BY <1>1, <1>2, <1>3
  <1> QED
    BY <1>1, <1>4 DEF Micros

(* So where a seek lands, everything before has ended by the target. *)
LEMMA LandsEarly ==
    ASSUME NEW ns \in Nat, NEW k \in Packets, k < Landing(Micros(ns))
    PROVE  EndOf(k) <= ns
  <1>1. /\ Micros(ns) \in Int /\ Micros(ns) * NanosPerMicro <= ns
        /\ Landing(Micros(ns)) \in 0 .. PacketCount
        /\ Landing(Micros(ns)) # 0 => Pts(Landing(Micros(ns))) <= Micros(ns)
    BY MicrosIs, LandingIs
  <1> DEFINE n == Landing(Micros(ns))
             us == Micros(ns)
  <1>2. k \in Nat /\ k + 1 \in Nat /\ n \in Nat /\ k + 1 <= n /\ n # 0
    BY <1>1 DEF Packets
  <1> HIDE DEF n, us
  <1>3. Pts(k + 1) = Pts(k) + Spacing /\ Pts(k + 1) \in Int
    BY <1>2, PtsIs
  <1>4. Pts(k + 1) <= Pts(n) /\ Pts(n) \in Int
    BY <1>2, PtsOrder
  <1>5. Pts(n) <= us /\ us \in Int /\ us * NanosPerMicro <= ns
    BY <1>1, <1>2 DEF n, us
  <1>6. Pts(k + 1) <= us
    BY <1>3, <1>4, <1>5
  <1>7. Pts(k + 1) * NanosPerMicro <= us * NanosPerMicro
    <2>1. \A a, b \in Int : \A c \in Nat : a <= b => a * c <= b * c
      OBVIOUS
    <2> QED
      BY <1>3, <1>5, <1>6, <2>1
  <1>8. EndOf(k) = Pts(k + 1) * NanosPerMicro
    BY <1>3 DEF EndOf
  <1>9. Pts(k + 1) * NanosPerMicro \in Int /\ us * NanosPerMicro \in Int
    BY <1>3, <1>5
  <1> QED
    BY <1>5, <1>7, <1>8, <1>9

(* A run of numbers: from the first up to, and without, the limit. *)
IsRun(s, first, limit) ==
    Len(s) = limit - first /\ \A i \in 1 .. Len(s) : s[i] = first + i - 1

LEMMA RunGrows ==
    ASSUME NEW s \in Seq(Numbers), NEW first \in Nat, NEW limit \in Numbers,
           IsRun(s, first, limit)
    PROVE  IsRun(Join(s, <<limit>>), first, limit + 1)
  <1> DEFINE t == Append(s, limit)
  <1>1. limit \in Int
    BY NumbersDiffer DEF Numbers
  <1>2. Join(s, <<limit>>) = t
    BY Concats DEF Join
  <1>3. /\ Len(t) = Len(s) + 1 /\ Len(s) \in Nat /\ t[Len(s) + 1] = limit
        /\ \A i \in 1 .. Len(s) : t[i] = s[i]
    BY AppendFacts
  <1> HIDE DEF t
  <1>4. Len(s) = limit - first /\ \A i \in 1 .. Len(s) : s[i] = first + i - 1
    BY DEF IsRun
  <1>5. ASSUME NEW i \in 1 .. Len(t) PROVE t[i] = first + i - 1
    <2>1. CASE i \in 1 .. Len(s)
      BY <1>3, <1>4, <2>1
    <2>2. CASE i = Len(s) + 1
      BY <1>1, <1>3, <1>4, <2>2
    <2> QED
      BY <1>3, <2>1, <2>2
  <1> QED
    BY <1>1, <1>2, <1>3, <1>4, <1>5 DEF IsRun

LEMMA RunShrinks ==
    ASSUME NEW s \in Seq(Numbers), NEW x \in Numbers, NEW first \in Nat, NEW limit \in Int,
           IsRun(Join(<<x>>, s), first, limit)
    PROVE  x = first /\ IsRun(s, first + 1, limit)
  <1> DEFINE t == <<x>> \o s
  <1>1. Join(<<x>>, s) = t
    BY DEF Join
  <1>2. /\ Len(t) = Len(s) + 1 /\ Len(s) \in Nat /\ t[1] = x
        /\ \A i \in 1 .. Len(s) : t[i + 1] = s[i]
    OBVIOUS
  <1> HIDE DEF t
  <1>3. Len(t) = limit - first /\ \A i \in 1 .. Len(t) : t[i] = first + i - 1
    BY <1>1 DEF IsRun
  <1>4. x = first
    <2>1. 1 \in 1 .. Len(t)
      BY <1>2
    <2> QED
      BY <1>2, <1>3, <2>1
  <1>5. ASSUME NEW i \in 1 .. Len(s) PROVE s[i] = (first + 1) + i - 1
    <2>1. i + 1 \in 1 .. Len(t)
      BY <1>2
    <2>2. t[i + 1] = first + (i + 1) - 1
      BY <1>3, <2>1
    <2> QED
      BY <1>2, <2>2
  <1>6. Len(s) = limit - (first + 1)
    <2>1. Len(t) = Len(s) + 1 /\ Len(s) \in Nat /\ Len(t) = limit - first
      BY <1>2, <1>3
    <2> QED
      BY <2>1
  <1>7. IsRun(s, first + 1, limit)
    BY <1>5, <1>6 DEF IsRun
  <1> QED
    BY <1>4, <1>7

(***************************************************************************)
(* What is inside is one run of packets up to what is submitted next.  As  *)
(* long as no block was kept since the seek, all before that run is early; *)
(* and the one that was kept is the first that is not.                     *)
(***************************************************************************)
AllEarly(first, bound) == \A k \in Packets : k < first => EndOf(k) <= bound
FirstKept(n, bound) == EndOf(n) > bound /\ AllEarly(n, bound)

HeardInv ==
    /\ \E first \in Nat :
          IsRun(Inside, first, End) /\ (heard = None => AllEarly(first, boundary))
    /\ heard # None => FirstKept(heard, boundary)

LEMMA EndType == AudioInv => End \in Nat
  <1> SUFFICES ASSUME AudioInv PROVE End \in Nat
    OBVIOUS
  <1>1. queue # <<>> => Head(queue) \in Packets
    BY QueueIs DEF AudioInv
  <1>2. input \in Packets \cup {None, Eos} /\ extractor \in 0 .. PacketCount
    BY DEF AudioInv, TypeOK
  <1>3. Packets \subseteq Nat /\ Eos \in Nat /\ Eos + 1 \in Nat /\ 0 .. PacketCount \subseteq Nat
    BY NumbersDiffer
  <1>4. AfterInput \in Nat
    BY <1>1, <1>2, <1>3 DEF AfterInput
  <1> QED
    BY <1>2, <1>3, <1>4 DEF End, Upcoming

LEMMA HeardStep == AudioInv /\ AudioInv' /\ HeardInv /\ Moves => HeardInv'
  <1> SUFFICES ASSUME AudioInv, AudioInv', HeardInv, Moves PROVE HeardInv'
    OBVIOUS
  <1>1. PICK first \in Nat :
            IsRun(Inside, first, End) /\ (heard = None => AllEarly(first, boundary))
    BY DEF HeardInv
  <1>2. heard # None => FirstKept(heard, boundary)
    BY DEF HeardInv
  <1>3. End \in Nat /\ Inside \in Seq(Numbers) /\ Inside' \in Seq(Numbers)
    BY EndType, PartTypes, NextInside
  <1>4. CASE Stays
    <2>1. IsRun(Inside', first, End') /\ (heard' = None => AllEarly(first, boundary'))
      BY <1>1, <1>4 DEF Stays
    <2>2. heard' # None => FirstKept(heard', boundary')
      BY <1>2, <1>4 DEF Stays
    <2> QED
      BY <2>1, <2>2 DEF HeardInv
  <1>5. CASE Comes
    <2>1. PICK limit \in Numbers : limit = End
      BY <1>5 DEF Comes
    <2>2. Inside' = Join(Inside, <<limit>>) /\ End' = limit + 1
      BY <1>5, <2>1 DEF Comes
    <2>3. IsRun(Join(Inside, <<limit>>), first, limit + 1)
      BY <1>1, <1>3, <2>1, RunGrows
    <2>4. IsRun(Inside', first, End') /\ (heard' = None => AllEarly(first, boundary'))
      BY <1>1, <1>5, <2>2, <2>3 DEF Comes
    <2>5. heard' # None => FirstKept(heard', boundary')
      BY <1>2, <1>5 DEF Comes
    <2> QED
      BY <2>4, <2>5 DEF HeardInv
  <1>6. ASSUME NEW x \in Numbers, Leaves(x) PROVE HeardInv'
    <2>1. /\ Inside = Join(<<x>>, Inside') /\ End' = End /\ boundary' = boundary
          /\ heard' = IF IsHeard(x) THEN x ELSE heard
      BY <1>6 DEF Leaves
    <2>2. x = first /\ IsRun(Inside', first + 1, End')
      BY <1>1, <1>3, <2>1, RunShrinks
    <2>3. first + 1 \in Nat
      OBVIOUS
    <2>4. CASE IsHeard(x)
      <3>1. heard = None /\ x # Eos /\ EndOf(x) > boundary /\ heard' = x
        BY <2>1, <2>4 DEF IsHeard
      <3>2. AllEarly(x, boundary) /\ x # None
        BY <1>1, <2>2, <3>1 DEF None
      <3>3. FirstKept(heard', boundary')
        BY <2>1, <3>1, <3>2 DEF FirstKept
      <3>4. heard' # None
        BY <3>1, <3>2
      <3> QED
        BY <2>2, <2>3, <3>3, <3>4 DEF HeardInv
    <2>5. CASE ~IsHeard(x)
      <3>1. heard' = heard
        BY <2>1, <2>5
      <3>2. ASSUME heard = None PROVE AllEarly(first + 1, boundary)
        <4> SUFFICES ASSUME NEW k \in Packets, k < first + 1 PROVE EndOf(k) <= boundary
          BY DEF AllEarly
        <4>1. CASE k < first
          BY <1>1, <3>2, <4>1 DEF AllEarly
        <4>2. CASE k = first
          <5>1. k = x /\ x # Eos
            BY <2>2, <4>2, NumbersDiffer
          <5>2. ~(EndOf(k) > boundary)
            BY <2>5, <3>2, <5>1 DEF IsHeard
          <5>3. EndOf(k) \in Int /\ boundary \in Int
            BY EarlyIs DEF AudioInv, TypeOK, Packets
          <5> QED
            BY <5>2, <5>3
        <4> QED
          BY <4>1, <4>2 DEF Packets
      <3>3. heard' # None => FirstKept(heard', boundary')
        BY <1>2, <2>1, <3>1
      <3> QED
        BY <2>1, <2>2, <2>3, <3>1, <3>2, <3>3 DEF HeardInv
    <2> QED
      BY <2>4, <2>5
  <1>7. CASE Empties
    <2>1. /\ Inside' = <<>> /\ heard' = None /\ boundary' \in Nat
          /\ End' = Landing(Micros(boundary'))
      BY <1>7 DEF Empties
    <2>2. End' \in Nat
      <3>1. Micros(boundary') \in Int
        BY <2>1, MicrosIs
      <3>2. Landing(Micros(boundary')) \in 0 .. PacketCount
        BY <3>1, LandingIs
      <3> QED
        BY <2>1, <3>2
    <2>3. IsRun(Inside', End', End')
      BY <2>1, <2>2 DEF IsRun
    <2>4. AllEarly(End', boundary')
      BY <2>1, LandsEarly DEF AllEarly
    <2> QED
      BY <2>1, <2>2, <2>3, <2>4 DEF HeardInv
  <1> QED
    BY <1>4, <1>5, <1>6, <1>7 DEF Moves

(***************************************************************************)
(* For every spacing and lead of the times, every target and every number  *)
(* of seeks: a block has the time of its packet, the first block kept      *)
(* since a seek is the first that ends behind the target, and no call ends *)
(* in an error.                                                            *)
(***************************************************************************)
THEOREM HeardFromBoundaryAlways == Spec => []HeardFromBoundary
  <1>1. Init => HeardInv
    <2> SUFFICES ASSUME Init PROVE HeardInv
      OBVIOUS
    <2>1. Inside = <<>> /\ End = 0 /\ heard = None
      BY InsideInit DEF Init
    <2>2. IsRun(Inside, 0, End) /\ AllEarly(0, boundary)
      BY <2>1 DEF IsRun, AllEarly, Packets
    <2> QED
      BY <2>1, <2>2 DEF HeardInv
  <1>2. AudioInv /\ HeardInv /\ [Next]_vars => (AudioInv /\ HeardInv)'
    BY AudioStep, QueueStep, HeardStep
  <1>3. AudioInv /\ HeardInv => HeardFromBoundary
    BY DEF AudioInv, FrameInv, HeardInv, HeardFromBoundary, IsFirstKept, FirstKept, AllEarly
  <1> QED
    BY <1>1, <1>2, <1>3, AudioInit, PTL DEF Spec

=============================================================================
