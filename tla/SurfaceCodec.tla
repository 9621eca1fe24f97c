---------------------------- MODULE SurfaceCodec ----------------------------
(***************************************************************************)
(* The Android video branch below VideoPipeline: AndroidVideoDecoder, the  *)
(* VideoCodecSession it shares with the frames it gives out, and           *)
(* NativeMediaCodec in surface mode, over a platform codec that works on   *)
(* its own.  The pictures stay in the output slots of the platform; a      *)
(* frame is a token for one slot, and presenting or discarding the frame   *)
(* gives the slot back.                                                    *)
(*                                                                         *)
(* The worker calls in the order of VideoPipeline::step: receive, present, *)
(* submit.  Packets are numbered; Pts(n) is in microseconds, one unit to a *)
(* packet, and may begin below zero.                                       *)
(***************************************************************************)
EXTENDS CodecQueue

CONSTANTS
    KeyPackets,     \* those that hold a key frame
    Lead,           \* packets whose presentation time is negative
    InputSlots, OutputSlots,    \* of the platform codec
    MaxFlush        \* seeks

ASSUME KeyPacketsAssumption == KeyPackets \subseteq 0 .. PacketCount - 1
ASSUME LeadAssumption == Lead \in Nat
ASSUME SlotsAssumption == InputSlots \in Nat \ {0} /\ OutputSlots \in Nat \ {0}
ASSUME MaxFlushAssumption == MaxFlush \in Nat

Pts(n) == n - Lead

VARIABLES
    pc,         \* where VideoPipeline::step is
    phase,      \* VideoPhase
    source,     \* the next packet the demuxer delivers
    input,      \* pending_input
    frame,      \* pending_frame: its token and its time
    decoder,    \* AndroidVideoDecoder
    codec,      \* NativeMediaCodec
    platform,   \* AMediaCodec: inputs it holds, outputs it offers
    generation, \* how often it was flushed
    fed         \* history: what was queued since the last flush

vars == <<pc, phase, source, input, frame, decoder, codec, platform, generation, fed>>

NoFrame == [token |-> <<>>, pts |-> 0]
NoOutput == [number |-> None, time |-> 0, eos |-> FALSE]
EndOutput == [number |-> None, time |-> 0, eos |-> TRUE]
Tokens == (0 .. MaxFlush) \X Packets

Outputs == [number : Packets \cup {None}, time : Nat, eos : BOOLEAN]
Decoders == [configPending : BOOLEAN, needsKey : BOOLEAN, offset : Nat \cup {None}]
Codecs == [output : Outputs, identity : Tokens \cup {<<>>}, eosQueued : BOOLEAN,
           eosSeen : BOOLEAN, started : BOOLEAN]
Platforms == [inputs : Seq(Inputs), outputs : Seq(Outputs),
              format : {"unknown", "changed", "told"}, answered : BOOLEAN, configLost : BOOLEAN]

TypeOK ==
    /\ pc \in {"receive", "present", "submit", "closed", "impossible"}
    /\ phase \in {"Feeding", "InputEnded", "Draining", "DecoderDrained"}
    /\ source \in 0 .. PacketCount
    /\ input \in Packets \cup {None, Eos}
    /\ frame = NoFrame \/ frame \in [token : Tokens, pts : Int]
    /\ decoder \in Decoders
    /\ codec \in Codecs
    /\ platform \in Platforms
    /\ Len(platform.inputs) <= InputSlots /\ Len(platform.outputs) <= OutputSlots
    /\ generation \in 0 .. MaxFlush
    /\ fed \in Seq(Packets \cup {Eos, Config})

Init ==
    /\ pc = "receive" /\ phase = "Feeding"
    /\ source = 0 /\ input = None /\ frame = NoFrame
    /\ decoder = [configPending |-> FALSE, needsKey |-> TRUE, offset |-> None]
    /\ codec = [output |-> NoOutput, identity |-> <<>>, eosQueued |-> FALSE,
                eosSeen |-> FALSE, started |-> FALSE]
    /\ platform = [inputs |-> <<>>, outputs |-> <<>>, format |-> "unknown",
                   answered |-> FALSE, configLost |-> FALSE]
    /\ generation = 0 /\ fed = <<>>

-----------------------------------------------------------------------------
(* Receive: try_receive_surface, and what becomes of its answer *)

Receiving == pc = "receive" /\ frame = NoFrame /\ phase # "DecoderDrained"

(* The last frame is back and the end of the stream has not been seen. *)
Polling == Receiving /\ codec.identity = <<>> /\ ~codec.eosSeen

SkipReceive ==
    /\ pc = "receive" /\ ~Receiving
    /\ pc' = "present"
    /\ UNCHANGED <<phase, source, input, frame, decoder, codec, platform, generation, fed>>

ReceiveNothing ==
    /\ Receiving
    /\ \/ codec.identity # <<>>
       \/ Polling /\ platform.format # "changed" /\ platform.outputs = <<>>
    /\ pc' = "present"
    /\ UNCHANGED <<phase, source, input, frame, decoder, codec, platform, generation, fed>>

ReceiveFormat ==
    /\ Polling /\ platform.format = "changed"
    /\ platform' = [platform EXCEPT !.format = "told", !.answered = TRUE]
    /\ codec' = [codec EXCEPT !.started = TRUE]
    /\ pc' = "present"
    /\ UNCHANGED <<phase, source, input, frame, decoder, generation, fed>>

(* UnexpectedDecoderEos, or the end the branch has waited for. *)
EndOfStream ==
    /\ pc' = IF phase = "Draining" THEN "present" ELSE "impossible"
    /\ phase' = "DecoderDrained"

ReceiveEnd ==
    /\ Receiving /\ codec.identity = <<>> /\ codec.eosSeen
    /\ EndOfStream
    /\ UNCHANGED <<source, input, frame, decoder, codec, platform, generation, fed>>

(* ensure_output_buffer has found an output buffer, the first one offered. *)
BufferReady == Polling /\ platform.format # "changed" /\ platform.outputs # <<>>

(* A buffer without a picture goes back at once; it may carry the end. *)
ReceiveEmpty ==
    /\ BufferReady
    /\ Head(platform.outputs).number = None
    /\ platform' = [platform EXCEPT !.outputs = Tail(@), !.answered = TRUE]
    /\ codec' = [codec EXCEPT !.started = TRUE, !.eosSeen = Head(platform.outputs).eos]
    /\ IF Head(platform.outputs).eos THEN EndOfStream ELSE pc' = "present" /\ UNCHANGED phase
    /\ UNCHANGED <<source, input, frame, decoder, generation, fed>>

(* Mutant: the end on the last picture is overlooked. *)
GiveBackForgettingEnd(c) == [c EXCEPT !.output = NoOutput, !.identity = <<>>]

(* release_pending_output: the slot goes back, and its end flag is noted. *)
GiveBack(c) ==
    [c EXCEPT !.output = NoOutput, !.identity = <<>>, !.eosSeen = @ \/ c.output.eos]

(***************************************************************************)
(* A picture: the codec remembers the token it gives out.  A frame before  *)
(* the boundary (early) is discarded on the spot.                          *)
(***************************************************************************)
ReceiveFrame(early) ==
    /\ BufferReady
    /\ Head(platform.outputs).number # None
    /\ LET out == Head(platform.outputs)
           token == <<generation, out.number>>
           holding == [codec EXCEPT !.output = out, !.identity = token, !.started = TRUE]
       IN  IF decoder.offset = None
           THEN /\ pc' = "impossible"
                /\ codec' = GiveBack(holding)
                /\ UNCHANGED frame
           ELSE /\ pc' = "present"
                /\ codec' = IF early THEN GiveBack(holding) ELSE holding
                /\ frame' = IF early THEN NoFrame
                            ELSE [token |-> token, pts |-> out.time - decoder.offset]
    /\ platform' = [platform EXCEPT !.outputs = Tail(@), !.answered = TRUE]
    /\ UNCHANGED <<phase, source, input, decoder, generation, fed>>

-----------------------------------------------------------------------------
(* Present: AvSync decides, the frame gives its slot back *)

(* Mutant: a token is good after a flush. *)
NeverStale(c, token) == FALSE

(* The token is not the one the codec gave out last, or is void by a flush. *)
IsStale(c, token) == token # c.identity

(***************************************************************************)
(* release_surface_output: a stale token cannot show a picture, and is     *)
(* forgotten when it is only discarded, for the slot may be another's.     *)
(***************************************************************************)
Refused(c, token, render) == IF IsStale(c, token) THEN render ELSE c.output = NoOutput

Released(c, token) == IF IsStale(c, token) THEN c ELSE GiveBack(c)

FinishFrame(render) ==
    /\ pc = "present" /\ frame # NoFrame
    /\ pc' = IF Refused(codec, frame.token, render) THEN "impossible" ELSE "submit"
    /\ codec' = Released(codec, frame.token)
    /\ frame' = NoFrame
    /\ UNCHANGED <<phase, source, input, decoder, platform, generation, fed>>

(* No frame, or one whose time has not come. *)
KeepFrame ==
    /\ pc = "present"
    /\ pc' = "submit"
    /\ UNCHANGED <<phase, source, input, frame, decoder, codec, platform, generation, fed>>

-----------------------------------------------------------------------------
(* Submit *)

Submitting == pc = "submit" /\ phase \notin {"Draining", "DecoderDrained"}

(* Nothing to submit, or nothing yet. *)
SubmitNothing ==
    /\ pc = "submit"
    /\ phase \notin {"Draining", "DecoderDrained"} => input = None /\ phase = "Feeding"
    /\ pc' = "receive"
    /\ UNCHANGED <<phase, source, input, frame, decoder, codec, platform, generation, fed>>

(* The pending input, or the next one. *)
NextInput ==
    CASE input # None -> input
      [] input = None /\ source < PacketCount -> source
      [] OTHER -> Eos

Pulled == source' = IF input = None /\ source < PacketCount THEN source + 1 ELSE source

(* Until the first key frame, packets are accepted and forgotten. *)
GatePacket ==
    /\ Submitting
    /\ NextInput \in Packets \ KeyPackets /\ decoder.needsKey
    /\ Pulled
    /\ input' = None
    /\ pc' = "receive"
    /\ UNCHANGED <<phase, frame, decoder, codec, platform, generation, fed>>

HasRoom(items) == Len(platform.inputs) + Len(items) < InputSlots

(* try_restore_codec_config: when the configuration is due it comes first. *)
Due == IF decoder.configPending /\ HasRoom(<<>>) THEN <<ConfigInput>> ELSE <<>>

ConfigRestored == ~decoder.configPending \/ Due # <<>>

(* Mutant: each packet is shifted by its own offset. *)
OffsetOfPacket(n) == IF Pts(n) < 0 THEN -Pts(n) ELSE 0

(* map_input_timestamp: the first time since the flush must not be negative. *)
OffsetFor(n) ==
    CASE decoder.offset # None -> decoder.offset
      [] decoder.offset = None /\ Pts(n) < 0 -> -Pts(n)
      [] OTHER -> 0

(* AMediaCodec_queueInputBuffer, and the record of it. *)
Queue(items) ==
    /\ platform' = [platform EXCEPT !.inputs = @ \o items]
    /\ fed' = fed \o [i \in 1 .. Len(items) |-> items[i].number]

SubmitPacket ==
    /\ Submitting
    /\ NextInput \in Packets /\ (NextInput \in KeyPackets \/ ~decoder.needsKey)
    /\ LET n == NextInput
           time == Pts(n) + OffsetFor(n)
           queued == ConfigRestored /\ HasRoom(Due) /\ time >= 0
       IN  /\ Queue(IF queued THEN Append(Due, [number |-> n, time |-> time]) ELSE Due)
           /\ decoder' = [configPending |-> ~ConfigRestored,
                          needsKey |-> decoder.needsKey /\ ~queued,
                          offset |-> IF ConfigRestored THEN OffsetFor(n) ELSE decoder.offset]
           /\ input' = IF queued THEN None ELSE n
           /\ pc' = IF codec.eosQueued \/ (ConfigRestored /\ time < 0)
                    THEN "impossible" ELSE "receive"
    /\ Pulled
    /\ UNCHANGED <<phase, frame, codec, generation>>

SubmitEnd ==
    /\ Submitting
    /\ NextInput = Eos /\ (input = Eos \/ phase = "InputEnded")
    /\ LET queued == ConfigRestored /\ HasRoom(Due)
       IN  /\ Queue(IF queued THEN Append(Due, [number |-> Eos, time |-> 0]) ELSE Due)
           /\ input' = IF queued THEN None ELSE Eos
           /\ phase' = IF queued THEN "Draining" ELSE phase
           /\ codec' = [codec EXCEPT !.eosQueued = @ \/ queued]
    /\ decoder' = [decoder EXCEPT !.configPending = ~ConfigRestored]
    /\ pc' = IF codec.eosQueued THEN "impossible" ELSE "receive"
    /\ UNCHANGED <<source, frame, generation>>

(* end_input. *)
EndInput ==
    /\ pc = "receive" /\ phase = "Feeding" /\ source = PacketCount
    /\ phase' = "InputEnded"
    /\ UNCHANGED <<pc, source, input, frame, decoder, codec, platform, generation, fed>>

-----------------------------------------------------------------------------
(* Seek and failure *)

(* Mutant: a token outlives the flush that voids its slot. *)
FlushKeepingToken(c) ==
    [c EXCEPT !.output = NoOutput, !.eosQueued = FALSE, !.eosSeen = FALSE]

(* NativeMediaCodec::flush: every slot taken before is void. *)
FlushCodec(c) ==
    [c EXCEPT !.output = NoOutput, !.identity = <<>>, !.eosQueued = FALSE, !.eosSeen = FALSE]

(* Mutant: the lost configuration is not sent again. *)
FlushedWithoutConfig(d, c) == [configPending |-> FALSE, needsKey |-> TRUE, offset |-> None]

(* AndroidVideoDecoder::flush. *)
Flushed(d, c) == [configPending |-> d.configPending \/ ~c.started, needsKey |-> TRUE, offset |-> None]

(* A flush before the first answer takes the configuration with it. *)
FlushPlatform(p) ==
    [inputs |-> <<>>, outputs |-> <<>>,
     format |-> IF p.format = "told" THEN "told" ELSE "unknown",
     answered |-> p.answered,
     configLost |-> ~p.answered]

(***************************************************************************)
(* VideoPipeline::reset: the decoder is flushed before the pending frame   *)
(* is discarded, whose token is stale by then.                             *)
(***************************************************************************)
Seek ==
    /\ pc = "receive" /\ generation < MaxFlush
    /\ pc' = IF frame # NoFrame /\ Refused(FlushCodec(codec), frame.token, FALSE)
             THEN "impossible" ELSE "receive"
    /\ decoder' = Flushed(decoder, codec)
    /\ codec' = FlushCodec(codec)
    /\ platform' = FlushPlatform(platform)
    /\ frame' = NoFrame /\ input' = None /\ phase' = "Feeding"
    /\ source' \in 0 .. PacketCount
    /\ generation' = generation + 1
    /\ fed' = <<>>

(***************************************************************************)
(* Some call of the platform fails and the pipeline is dropped.  The drop  *)
(* of a pending frame releases its token (discard_on_drop), unless it was  *)
(* the codec that failed.                                                  *)
(***************************************************************************)
Close ==
    /\ pc \in {"receive", "present", "submit"}
    /\ pc' = "closed"
    /\ frame' = NoFrame
    /\ codec' \in {codec, Released(codec, frame.token)}
    /\ UNCHANGED <<phase, source, input, decoder, platform, generation, fed>>

Closed == pc = "closed" /\ UNCHANGED vars

-----------------------------------------------------------------------------
(* The platform *)

Held == IF codec.output = NoOutput THEN 0 ELSE 1

Decoding == pc # "closed" /\ platform.inputs # <<>>
OutputFree == Len(platform.outputs) + Held < OutputSlots
Rest == Tail(platform.inputs)
Current == Head(platform.inputs).number

Offers(output) ==
    /\ OutputFree
    /\ platform' = [platform EXCEPT !.inputs = Rest, !.outputs = Append(@, output)]

(* Configuration yields nothing, or a buffer without a picture. *)
DecodeConfig ==
    /\ Decoding /\ Current = Config
    /\ \/ Offers(NoOutput)
       \/ platform' = [platform EXCEPT !.inputs = Rest]
    /\ UNCHANGED <<pc, phase, source, input, frame, decoder, codec, generation, fed>>

(* The output format is known with the first picture, and told before it. *)
DecodePacket ==
    /\ Decoding /\ Current \in Packets
    /\ IF platform.format = "unknown"
       THEN platform' = [platform EXCEPT !.format = "changed"]
       ELSE Offers([number |-> Current, time |-> Head(platform.inputs).time, eos |-> FALSE])
    /\ UNCHANGED <<pc, phase, source, input, frame, decoder, codec, generation, fed>>

(* The end comes with the last picture or in a buffer of its own. *)
DecodeEnd ==
    /\ Decoding /\ Current = Eos
    /\ \/ Offers(EndOutput)
       \/ /\ platform.outputs # <<>>
          /\ platform' = [platform EXCEPT !.inputs = Rest, !.outputs = Marked(@)]
    /\ UNCHANGED <<pc, phase, source, input, frame, decoder, codec, generation, fed>>

PlatformDecodes == DecodeConfig \/ DecodePacket \/ DecodeEnd

ReceiveStep ==
    \/ SkipReceive \/ ReceiveNothing \/ ReceiveFormat \/ ReceiveEnd \/ ReceiveEmpty
    \/ \E early \in BOOLEAN : ReceiveFrame(early)

FinishStep == \E render \in BOOLEAN : FinishFrame(render)

SubmitStep == GatePacket \/ SubmitPacket \/ SubmitEnd

WorkerSteps == ReceiveStep \/ FinishStep \/ KeepFrame \/ SubmitStep \/ SubmitNothing

Next == WorkerSteps \/ EndInput \/ PlatformDecodes \/ Seek \/ Close \/ Closed

Spec == Init /\ [][Next]_vars

(***************************************************************************)
(* The worker goes on, the codec decodes, the demuxer delivers at last,    *)
(* and the time of a frame comes at last.                                  *)
(***************************************************************************)
Fairness ==
    /\ WF_vars(WorkerSteps) /\ WF_vars(PlatformDecodes)
    /\ SF_vars(SubmitStep) /\ SF_vars(EndInput) /\ SF_vars(FinishStep)

FairSpec == Spec /\ Fairness

-----------------------------------------------------------------------------
(***************************************************************************)
(* Without a fault of the platform no call ends in an error: no stale      *)
(* token is presented (InvalidState), no time is unmappable                *)
(* (UnsupportedInputTimestamp), no end of stream is unexpected.            *)
(***************************************************************************)
NoInternalError == pc # "impossible"

(***************************************************************************)
(* A slot the codec has given out is held by the pending frame and by no   *)
(* one else: try_receive_surface answers NotReady while it is out, so a    *)
(* slot nobody holds would stop the video for ever, and a frame whose slot *)
(* is another's would show the wrong picture.                              *)
(***************************************************************************)
TokenNamesSlot ==
    pc # "closed" =>
        /\ codec.identity = frame.token
        /\ IF frame = NoFrame
           THEN codec.output = NoOutput
           ELSE frame.token = <<generation, codec.output.number>>

(***************************************************************************)
(* What the platform is given after a start or a flush can be decoded: the *)
(* configuration comes first, exactly when the last flush took it away;    *)
(* then a key frame, unless the track ends before one; then every packet   *)
(* after the one before, and the end of the stream behind the last one.    *)
(***************************************************************************)
IsFirst(i) == i = 1 \/ fed[i - 1] = Config

Decodable ==
    \A i \in DOMAIN fed :
        /\ fed[i] = Config <=> i = 1 /\ platform.configLost
        /\ fed[i] # Config =>
              IF IsFirst(i) THEN fed[i] \in KeyPackets \cup {Eos} ELSE fed[i] = fed[i - 1] + 1

(***************************************************************************)
(* A frame has the presentation time of the packet it was decoded from,    *)
(* although times are shifted on the way in when a run begins below zero   *)
(* and every run has a shift of its own.                                   *)
(***************************************************************************)
TimesSurvive == frame # NoFrame => frame.pts = Pts(frame.token[2])

(***************************************************************************)
(* Decoder, session and codec together are a queue that hands out every    *)
(* frame and the end of the stream once and in order, until it is flushed. *)
(***************************************************************************)
Inside ==
    Emits(codec.output)
        \o (IF codec.eosSeen /\ phase # "DecoderDrained" THEN <<Eos>> ELSE <<>>)
        \o Offered(platform.outputs)
        \o Waiting(platform.inputs)

Contract == INSTANCE DecoderContract WITH inside <- Inside, flushes <- generation, eos <- Eos
IsAQueue == Contract!Spec

(* A stream that is neither sought nor broken is decoded to its end. *)
Drains ==
    \A g \in 0 .. MaxFlush :
        generation = g ~> phase = "DecoderDrained" \/ generation > g \/ pc = "closed"

=============================================================================
