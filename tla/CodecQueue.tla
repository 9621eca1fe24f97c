----------------------------- MODULE CodecQueue -----------------------------
(***************************************************************************)
(* One track on its way through a platform codec, as both Android decoders *)
(* use it: numbered packets, the codec configuration that may have to come *)
(* before them, the end of the stream behind them.  An output carries a    *)
(* packet's picture or PCM, or nothing (number None), and may tell the end *)
(* of the stream.                                                          *)
(***************************************************************************)
EXTENDS Integers, Sequences, SequencesExt

CONSTANT PacketCount    \* packets of the track

ASSUME PacketCountAssumption == PacketCount \in Nat

None == -1
Eos == PacketCount          \* DecodeInput::EndOfStream, after the last packet
Config == PacketCount + 1   \* SPS and PPS, or the AudioSpecificConfig
Packets == 0 .. PacketCount - 1

ConfigInput == [number |-> Config, time |-> 0]
Inputs == [number : Packets \cup {Eos, Config}, time : Nat]

(* The end of the stream comes with the last output. *)
Marked(outputs) == [outputs EXCEPT ![Len(outputs)].eos = TRUE]

(* What an output or an input is to the pipeline, and what many are. *)
Emits(output) ==
    (IF output.number = None THEN <<>> ELSE <<output.number>>)
        \o (IF output.eos THEN <<Eos>> ELSE <<>>)

Accepts(item) == IF item.number = Config THEN <<>> ELSE <<item.number>>

Offered(outputs) == FlattenSeq([i \in DOMAIN outputs |-> Emits(outputs[i])])
Waiting(inputs) == FlattenSeq([i \in DOMAIN inputs |-> Accepts(inputs[i])])

=============================================================================
