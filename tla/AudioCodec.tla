----------------------------- MODULE AudioCodec -----------------------------
(***************************************************************************)
(* Android audio from the file to the PCM: AndroidDemuxer on one selected  *)
(* AAC track, the audio branch, AndroidAudioDecoder, and NativeMediaCodec  *)
(* in buffer mode, over an extractor and a platform codec.  An output is   *)
(* copied and its slot given back within the call that finds it, so no     *)
(* slot is ever out.                                                       *)
(*                                                                         *)
(* Packets are numbered; each decodes to one block of PCM.  Pts(n) is in   *)
(* microseconds and may begin below zero; boundaries are in nanoseconds.   *)
(***************************************************************************)
EXTENDS CodecQueue, FiniteSetsExt

CONSTANTS
    Spacing, Lead,  \* microseconds from one to the next, and of the first below zero
    NanosPerMicro,
    InputSlots, OutputSlots,    \* of the platform codec
    MaxFlush        \* seeks

ASSUME TimesAssumption == Spacing \in Nat \ {0} /\ Lead \in Nat /\ NanosPerMicro \in Nat \ {0}
ASSUME SlotsAssumption == InputSlots \in Nat \ {0} /\ OutputSlots \in Nat \ {0}
ASSUME MaxFlushAssumption == MaxFlush \in Nat

Pts(n) == n * Spacing - Lead

VARIABLES
    pc,         \* where AudioPipeline::step is
    phase,      \* AudioPhase
    extractor,  \* the current sample of AMediaExtractor, PacketCount for none
    queue,      \* pending_packet and the packet queue
    input,      \* pending_input
    frame,      \* pending_frame: its number and its time
    boundary,   \* presentation_boundary
    decoder,    \* AndroidAudioDecoder
    codec,      \* NativeMediaCodec
    platform,   \* AMediaCodec: inputs it holds, outputs it offers
    generation, \* how often it was flushed
    fed,        \* history: what was queued since the last flush
    heard       \* history: the first block kept since then

branch == <<pc, phase, queue, input, frame, boundary>>
vars == <<branch, extractor, decoder, codec, platform, generation, fed, heard>>

NoFrame == [number |-> None, pts |-> 0]

(* number None: no PCM, that is, configuration (config) or nothing at all. *)
NoPcm(config, eos) == [number |-> None, time |-> 0, config |-> config, eos |-> eos]

Init ==
    /\ pc = "output" /\ phase = "Feeding"
    /\ extractor = 0
    /\ queue = <<>> /\ input = None /\ frame = NoFrame
    /\ boundary = 0
    /\ decoder = [configPending |-> FALSE, hasFormat |-> FALSE, offset |-> None]
    /\ codec = [eosQueued |-> FALSE, eosSeen |-> FALSE, started |-> FALSE]
    /\ platform = [inputs |-> <<>>, outputs |-> <<>>, format |-> "unknown",
                   answered |-> FALSE, configLost |-> FALSE]
    /\ generation = 0 /\ fed = <<>> /\ heard = None

-----------------------------------------------------------------------------
(* The demuxer, between two steps of the branch *)

BetweenSteps == pc = "output"

(* read_packet; a sample time of -1 cannot be told from no sample. *)
ReadPacket ==
    /\ BetweenSteps /\ phase = "Feeding" /\ queue = <<>>
    /\ extractor \in Packets
    /\ IF Pts(extractor) = -1
       THEN pc' = "closed" /\ UNCHANGED <<queue, extractor>>
       ELSE queue' = <<extractor>> /\ extractor' = extractor + 1 /\ UNCHANGED pc
    /\ UNCHANGED <<phase, input, frame, boundary, decoder, codec, platform, generation, fed, heard>>

(* EndOfStream of the demuxer, end_input of the branch. *)
ReadEnd ==
    /\ BetweenSteps /\ phase = "Feeding" /\ queue = <<>>
    /\ extractor = PacketCount
    /\ phase' = "InputEnded"
    /\ UNCHANGED <<pc, extractor, queue, input, frame, boundary, decoder, codec, platform, generation,
                   fed, heard>>

-----------------------------------------------------------------------------
(* step: the pending frame, which the output may refuse for now *)

SubmitFrame(accepted) ==
    /\ pc \in {"output", "trimmed"}
    /\ accepted => frame # NoFrame
    /\ pc' = IF (frame # NoFrame /\ ~accepted) \/ phase = "DecoderDrained"
             THEN "output"
             ELSE IF pc = "output" THEN "receive" ELSE "submit"
    /\ frame' = IF accepted THEN NoFrame ELSE frame
    /\ UNCHANGED <<phase, extractor, queue, input, boundary, decoder, codec, platform, generation, fed,
                   heard>>

-----------------------------------------------------------------------------
(* step: receive *)

Polling == pc = "receive" /\ ~codec.eosSeen

ReceiveNothing ==
    /\ Polling /\ platform.format # "changed" /\ platform.outputs = <<>>
    /\ pc' = "trimmed"
    /\ UNCHANGED <<phase, extractor, queue, input, frame, boundary, decoder, codec, platform, generation,
                   fed, heard>>

ReceiveFormat ==
    /\ Polling /\ platform.format = "changed"
    /\ platform' = [platform EXCEPT !.format = "told", !.answered = TRUE]
    /\ codec' = [codec EXCEPT !.started = TRUE]
    /\ decoder' = [decoder EXCEPT !.hasFormat = TRUE]
    /\ pc' = "trimmed"
    /\ UNCHANGED <<phase, extractor, queue, input, frame, boundary, generation, fed, heard>>

(* UnexpectedDecoderEos, or the end the branch has waited for. *)
EndOfStream ==
    /\ pc' = IF phase = "Draining" THEN "trimmed" ELSE "impossible"
    /\ phase' = "DecoderDrained"

ReceiveEnd ==
    /\ pc = "receive" /\ codec.eosSeen
    /\ EndOfStream
    /\ UNCHANGED <<extractor, queue, input, frame, boundary, decoder, codec, platform, generation, fed,
                   heard>>

BufferReady == Polling /\ platform.format # "changed" /\ platform.outputs # <<>>

(* Mutant: the end on the last block is overlooked. *)
TakeForgettingEnd(out) ==
    /\ platform' = [platform EXCEPT !.outputs = Tail(@), !.answered = TRUE]
    /\ codec' = [codec EXCEPT !.started = TRUE]

(* take_output_buffer: the bytes are copied, the slot goes back. *)
TakeOutput(out) ==
    /\ platform' = [platform EXCEPT !.outputs = Tail(@), !.answered = TRUE]
    /\ codec' = [codec EXCEPT !.started = TRUE, !.eosSeen = @ \/ out.eos]

(* Only an empty buffer tells its end at once. *)
ReceiveEmpty ==
    /\ BufferReady
    /\ LET out == Head(platform.outputs)
       IN  /\ out.number = None
           /\ TakeOutput(out)
           /\ IF out.eos /\ ~out.config THEN EndOfStream ELSE pc' = "trimmed" /\ UNCHANGED phase
    /\ UNCHANGED <<extractor, queue, input, frame, boundary, decoder, generation, fed, heard>>

(* restore_output_timestamp. *)
RestoredTime(out) == (out.time - decoder.offset) * NanosPerMicro

(* trim_audio_before drops a block that ends before the boundary. *)
IsEarly(pts) == pts + Spacing * NanosPerMicro <= boundary

ReceiveFrame ==
    /\ BufferReady
    /\ LET out == Head(platform.outputs)
           failed == ~decoder.hasFormat \/ decoder.offset = None
       IN  /\ out.number # None
           /\ TakeOutput(out)
           /\ pc' = IF failed THEN "impossible" ELSE "trimmed"
           /\ frame' = IF failed \/ IsEarly(RestoredTime(out))
                       THEN NoFrame
                       ELSE [number |-> out.number, pts |-> RestoredTime(out)]
           /\ heard' = IF heard = None THEN frame'.number ELSE heard
    /\ UNCHANGED <<phase, extractor, queue, input, boundary, decoder, generation, fed>>

-----------------------------------------------------------------------------
(* step: submit *)

Submitting == pc = "submit" /\ phase \in {"Feeding", "InputEnded"}

NextInput ==
    CASE input # None -> input
      [] input = None /\ queue # <<>> -> Head(queue)
      [] input = None /\ queue = <<>> /\ phase = "InputEnded" -> Eos
      [] OTHER -> None

SubmitNothing ==
    /\ pc = "submit"
    /\ Submitting => NextInput = None
    /\ pc' = "output"
    /\ UNCHANGED <<phase, extractor, queue, input, frame, boundary, decoder, codec, platform, generation,
                   fed, heard>>

HasRoom(items) == Len(platform.inputs) + Len(items) < InputSlots

(* try_restore_codec_config: when the configuration is due it comes first. *)
Due ==
    IF decoder.configPending /\ HasRoom(<<>>) THEN <<ConfigInput>> ELSE <<>>

ConfigRestored == ~decoder.configPending \/ Due # <<>>

FirstOffset(n) == IF Pts(n) < 0 THEN -Pts(n) ELSE 0

(* map_input_timestamp: the first time since the flush must not be negative. *)
OffsetFor(n) == IF decoder.offset = None THEN FirstOffset(n) ELSE decoder.offset

Queue(items) ==
    /\ platform' = [platform EXCEPT !.inputs = @ \o items]
    /\ fed' = fed \o [i \in DOMAIN items |-> items[i].number]

Pulled == queue' = IF input = None /\ queue # <<>> THEN Tail(queue) ELSE queue

SubmitPacket ==
    /\ Submitting /\ NextInput \in Packets
    /\ LET n == NextInput
           time == Pts(n) + OffsetFor(n)
           queued == ConfigRestored /\ HasRoom(Due) /\ time >= 0
       IN  /\ Queue(IF queued THEN Append(Due, [number |-> n, time |-> time]) ELSE Due)
           /\ decoder' = [decoder EXCEPT
                            !.configPending = ~ConfigRestored,
                            !.offset = IF ConfigRestored THEN OffsetFor(n) ELSE @]
           /\ input' = IF queued THEN None ELSE n
           /\ pc' = IF codec.eosQueued \/ (ConfigRestored /\ time < 0)
                    THEN "impossible" ELSE "output"
    /\ Pulled
    /\ UNCHANGED <<phase, extractor, frame, boundary, codec, generation, heard>>

SubmitEnd ==
    /\ Submitting /\ NextInput = Eos
    /\ LET queued == ConfigRestored /\ HasRoom(Due)
       IN  /\ Queue(IF queued THEN Append(Due, [number |-> Eos, time |-> 0]) ELSE Due)
           /\ input' = IF queued THEN None ELSE Eos
           /\ phase' = IF queued THEN "Draining" ELSE phase
           /\ codec' = [codec EXCEPT !.eosQueued = @ \/ queued]
    /\ decoder' = [decoder EXCEPT !.configPending = ~ConfigRestored]
    /\ pc' = IF codec.eosQueued THEN "impossible" ELSE "output"
    /\ UNCHANGED <<extractor, queue, frame, boundary, generation, heard>>

-----------------------------------------------------------------------------
(* Seek and failure *)

(* Mutant: the lost configuration is not sent again. *)
FlushedWithoutConfig(d, c) == [d EXCEPT !.configPending = FALSE, !.offset = None]

(* AndroidAudioDecoder::flush: the output format stays known. *)
Flushed(d, c) == [d EXCEPT !.configPending = @ \/ ~c.started, !.offset = None]

(* A flush before the first answer takes the configuration with it. *)
FlushPlatform(p) ==
    [inputs |-> <<>>, outputs |-> <<>>,
     format |-> IF p.format = "told" THEN "told" ELSE "unknown",
     answered |-> p.answered,
     configLost |-> ~p.answered]

(* Mutant: the target is rounded up to a microsecond. *)
RoundedUp(ns) == (ns + NanosPerMicro - 1) \div NanosPerMicro

(* AndroidDemuxer::seek in microseconds. *)
Micros(ns) == ns \div NanosPerMicro

(* AMEDIAEXTRACTOR_SEEK_PREVIOUS_SYNC; every AAC sample is one. *)
Landing(us) == Max({0} \cup {n \in Packets : Pts(n) <= us})

(* PlaybackPipeline::seek: the branch is reset, then the demuxer moves. *)
Seek(target) ==
    /\ BetweenSteps /\ generation < MaxFlush
    /\ generation' = generation + 1
    /\ decoder' = Flushed(decoder, codec)
    /\ codec' = [codec EXCEPT !.eosQueued = FALSE, !.eosSeen = FALSE]
    /\ platform' = FlushPlatform(platform)
    /\ phase' = "Feeding"
    /\ queue' = <<>> /\ input' = None /\ frame' = NoFrame
    /\ boundary' = target
    /\ extractor' = Landing(Micros(target))
    /\ fed' = <<>> /\ heard' = None
    /\ pc' = IF Pts(extractor') = -1 THEN "closed" ELSE pc

(* Some call of the platform fails, a seek that finds no sample included. *)
Close ==
    /\ pc \in {"output", "receive", "trimmed", "submit"}
    /\ pc' = "closed"
    /\ UNCHANGED <<phase, extractor, queue, input, frame, boundary, decoder, codec, platform, generation,
                   fed, heard>>

Closed == pc = "closed" /\ UNCHANGED vars

-----------------------------------------------------------------------------
(* The platform codec *)

Decoding == pc # "closed" /\ platform.inputs # <<>>
Rest == Tail(platform.inputs)
Current == Head(platform.inputs).number

Offers(out) ==
    /\ Len(platform.outputs) < OutputSlots
    /\ platform' = [platform EXCEPT !.inputs = Rest, !.outputs = Append(@, out)]

Kept == UNCHANGED <<branch, extractor, decoder, codec, generation, fed, heard>>

(* Configuration yields nothing, itself, or a buffer without data. *)
DecodeConfig ==
    /\ Decoding /\ Current = Config
    /\ \/ \E config \in BOOLEAN : Offers(NoPcm(config, FALSE))
       \/ platform' = [platform EXCEPT !.inputs = Rest]
    /\ Kept

(* The output format is known with the first PCM, and told before it. *)
DecodePacket ==
    /\ Decoding /\ Current \in Packets
    /\ IF platform.format = "unknown"
       THEN platform' = [platform EXCEPT !.format = "changed"]
       ELSE Offers([number |-> Current, time |-> Head(platform.inputs).time,
                    config |-> FALSE, eos |-> FALSE])
    /\ Kept

(* The end comes with the last PCM or in a buffer of its own. *)
DecodeEnd ==
    /\ Decoding /\ Current = Eos
    /\ \/ Offers(NoPcm(FALSE, TRUE))
       \/ /\ platform.outputs # <<>>
          /\ platform' = [platform EXCEPT !.inputs = Rest, !.outputs = Marked(@)]
    /\ Kept

PlatformDecodes == DecodeConfig \/ DecodePacket \/ DecodeEnd

StepOfBranch ==
    \/ \E accepted \in BOOLEAN : SubmitFrame(accepted)
    \/ ReceiveNothing \/ ReceiveFormat \/ ReceiveEnd \/ ReceiveEmpty \/ ReceiveFrame
    \/ SubmitNothing \/ SubmitPacket \/ SubmitEnd

DemuxerReads == ReadPacket \/ ReadEnd

Next ==
    \/ StepOfBranch \/ DemuxerReads \/ PlatformDecodes
    \/ \E target \in 0 .. PacketCount * Spacing * NanosPerMicro : Seek(target)
    \/ Close \/ Closed

Spec == Init /\ [][Next]_vars

(* The worker goes on, the codec decodes, PCM and packets pass at last. *)
FairSpec ==
    /\ Spec
    /\ WF_vars(StepOfBranch) /\ WF_vars(PlatformDecodes)
    /\ SF_vars(SubmitFrame(TRUE)) /\ SF_vars(DemuxerReads)

-----------------------------------------------------------------------------
(***************************************************************************)
(* What the platform is given since a start or a flush can be decoded: the *)
(* configuration comes first, exactly when the last flush took it away;    *)
(* then every packet after the one before, and the end of the stream       *)
(* behind the last one.                                                    *)
(***************************************************************************)
IsFirst(i) == i = 1 \/ fed[i - 1] = Config

Decodable ==
    \A i \in DOMAIN fed :
        /\ fed[i] = Config <=> i = 1 /\ platform.configLost
        /\ fed[i] # Config =>
              IF IsFirst(i) THEN fed[i] \in Packets \cup {Eos} ELSE fed[i] = fed[i - 1] + 1

(***************************************************************************)
(* A block has the time of the packet it was decoded from, and the first   *)
(* one kept since a seek is the first that ends behind the boundary: the   *)
(* demuxer, which seeks in microseconds, never lands behind the target,    *)
(* and the shift of one run is never taken off the times of another.  And  *)
(* without a fault of the platform no call ends in an error: PCM never     *)
(* comes before its format (MissingOutputFormat) or before a time mapping  *)
(* (InvalidState), no time is unmappable (UnsupportedInputTimestamp), and  *)
(* no end of stream is unexpected (UnexpectedDecoderEos).                  *)
(***************************************************************************)
NoInternalError == pc # "impossible"

EndOf(n) == (Pts(n) + Spacing) * NanosPerMicro

IsFirstKept(n) ==
    /\ EndOf(n) > boundary
    /\ \A k \in Packets : k < n => EndOf(k) <= boundary

HeardFromBoundary ==
    /\ NoInternalError
    /\ frame # NoFrame => frame.pts = Pts(frame.number) * NanosPerMicro
    /\ heard # None => IsFirstKept(heard)

(***************************************************************************)
(* Decoder and codec together are a queue that hands out every block and   *)
(* the end of the stream once and in order, until it is flushed.           *)
(***************************************************************************)
Inside ==
    (IF codec.eosSeen /\ phase # "DecoderDrained" THEN <<Eos>> ELSE <<>>)
        \o Offered(platform.outputs)
        \o Waiting(platform.inputs)

Contract == INSTANCE DecoderContract WITH inside <- Inside, flushes <- generation, eos <- Eos
IsAQueue == Contract!Spec

(* A stream that is neither sought nor broken is decoded to its end. *)
Drains ==
    \A g \in 0 .. MaxFlush :
        generation = g ~> phase = "DecoderDrained" \/ generation > g \/ pc = "closed"

==============================================================================
