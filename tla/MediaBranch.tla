----------------------------- MODULE MediaBranch -----------------------------
(***************************************************************************)
(* What the audio branch (pipeline/audio.rs) and the video branch          *)
(* (pipeline/video.rs) have in common: a bounded packet queue, one pending *)
(* decoder input, a decoder, one pending frame, and four phases.           *)
(*                                                                         *)
(* A packet is its number in the track, and so is the frame it decodes to; *)
(* the number of a packet is also its presentation time.  The end of the   *)
(* stream is the number after the last packet.  The decoder (the trait     *)
(* Decoder, over a platform codec that works on its own) takes inputs into *)
(* `accepted` and offers outputs in `decoded`, in order.                   *)
(***************************************************************************)
EXTENDS Integers, Sequences

CONSTANTS
    QueueCapacity,  \* packet_capacity of both branches
    DecoderDepth    \* inputs and outputs a decoder holds together

ASSUME QueueCapacityAssumption == QueueCapacity \in Nat \ {0}
ASSUME DecoderDepthAssumption == DecoderDepth \in Nat \ {0}

None == -1

Phases == {"Feeding", "InputEnded", "Draining", "DecoderDrained"}

(* Branches that hold numbers up to `eos`, the end of the stream. *)
Branches(eos) ==
    [epoch : Nat, phase : Phases, queue : Seq(0 .. eos), input : None .. eos,
     accepted : Seq(0 .. eos), decoded : Seq(0 .. eos), frame : None .. eos]

(* Mutant: the branch keeps its epoch over a reset. *)
ResetKeepsEpoch(e) ==
    [epoch |-> 0, phase |-> "Feeding", queue |-> <<>>, input |-> None,
     accepted |-> <<>>, decoded |-> <<>>, frame |-> None]

(* A new branch, and what reset leaves of any branch. *)
NewBranch(e) ==
    [epoch |-> e, phase |-> "Feeding", queue |-> <<>>, input |-> None,
     accepted |-> <<>>, decoded |-> <<>>, frame |-> None]

QueueIsFull(b) == Len(b.queue) >= QueueCapacity

(* try_push_packet, once the packet is known to fit epoch and phase. *)
Push(b, n) == [b EXCEPT !.queue = Append(@, n)]

EndInput(b) == IF b.phase = "Feeding" THEN [b EXCEPT !.phase = "InputEnded"] ELSE b

(***************************************************************************)
(* submit_one_input: take an input from the queue, or the end of stream    *)
(* when the queue is empty and will stay so, and offer it to the decoder;  *)
(* an input the decoder has no room for stays pending.                     *)
(***************************************************************************)
Pull(b, eos) ==
    CASE b.input # None -> b
      [] b.input = None /\ b.queue # <<>> ->
            [b EXCEPT !.input = Head(b.queue), !.queue = Tail(@)]
      [] b.input = None /\ b.queue = <<>> /\ b.phase = "InputEnded" ->
            [b EXCEPT !.input = eos]
      [] OTHER -> b

DecoderIsFull(b) == Len(b.accepted) + Len(b.decoded) >= DecoderDepth

(* Mutant: an input the decoder has no room for is lost. *)
OfferForgetting(b, eos) ==
    IF b.input = None
    THEN b
    ELSE [b EXCEPT !.accepted = IF DecoderIsFull(b) THEN @ ELSE Append(@, b.input),
                   !.input = None,
                   !.phase = IF b.input = eos THEN "Draining" ELSE @]

Offer(b, eos) ==
    IF b.input = None \/ DecoderIsFull(b)
    THEN b
    ELSE [b EXCEPT !.accepted = Append(@, b.input),
                   !.input = None,
                   !.phase = IF b.input = eos THEN "Draining" ELSE @]

SubmitOneInput(b, eos) ==
    IF b.phase \in {"Draining", "DecoderDrained"} THEN b ELSE Offer(Pull(b, eos), eos)

(* The decoder offers an output; the branch has taken it (Decoder::receive). *)
HasOutput(b) == b.decoded # <<>>

TakeOutput(b) == [b EXCEPT !.decoded = Tail(@)]

(* The codec turns one input into one output, whenever it likes. *)
CanDecode(b) == b.accepted # <<>>

Decode(b) == [b EXCEPT !.accepted = Tail(@), !.decoded = Append(@, Head(b.accepted))]

(* is_decoder_drained, and the DecoderDrained result of a step. *)
IsDrained(b) == b.phase = "DecoderDrained" /\ b.frame = None

==============================================================================
