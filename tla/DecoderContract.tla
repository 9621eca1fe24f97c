-------------------------- MODULE DecoderContract --------------------------
(***************************************************************************)
(* What a pipeline branch may assume of its decoder (ports/decoder.rs):    *)
(* inputs that are accepted come out once and in order, the end of the     *)
(* stream last, and a flush empties it.                                    *)
(***************************************************************************)
EXTENDS Naturals, Sequences

VARIABLES
    inside,     \* accepted and not yet received
    flushes     \* how often the decoder was flushed

CONSTANT eos

vars == <<inside, flushes>>

Init == inside = <<>> /\ flushes = 0

Submit(x) ==
    /\ \A i \in DOMAIN inside : inside[i] # eos
    /\ inside' = Append(inside, x)
    /\ UNCHANGED flushes

Receive ==
    /\ inside # <<>>
    /\ inside' = Tail(inside)
    /\ UNCHANGED flushes

Flush ==
    /\ inside' = <<>>
    /\ flushes' = flushes + 1

Next == (\E x \in 0 .. eos : Submit(x)) \/ Receive \/ Flush

Spec == Init /\ [][Next]_vars

=============================================================================
