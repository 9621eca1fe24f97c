----------------------------- MODULE AudioDevice -----------------------------
(***************************************************************************)
(* What an AudioOutput (ports/audio_output.rs) and the one block that      *)
(* AudioPipeline holds for it are together: PCM taken from the decoder is  *)
(* heard once and in order, only while playback runs; every frame heard    *)
(* counts one in the position; a flush leaves nothing and stops it; and    *)
(* the end is reported only when nothing is left to hear.                  *)
(***************************************************************************)
EXTENDS Naturals, SequencesExt

VARIABLES
    queue,      \* taken from the decoder and not yet heard
    played,     \* playback_position
    running,    \* started and not paused
    completed   \* the end of playback was reported

vars == <<queue, played, running, completed>>

Init == queue = <<>> /\ played = 0 /\ running = FALSE /\ completed = FALSE

Submit ==
    /\ running
    /\ IsStrictPrefix(queue, queue')
    /\ UNCHANGED <<played, running, completed>>

Hear ==
    /\ running /\ queue # <<>>
    /\ queue' = Tail(queue)
    /\ played' = played + 1
    /\ UNCHANGED <<running, completed>>

Start ==
    /\ ~completed
    /\ running' = TRUE
    /\ UNCHANGED <<queue, played, completed>>

Pause ==
    /\ running' = FALSE
    /\ UNCHANGED <<queue, played, completed>>

(* is_drained has answered yes, and the output is paused. *)
Complete ==
    /\ running /\ queue = <<>>
    /\ running' = FALSE /\ completed' = TRUE
    /\ UNCHANGED <<queue, played>>

(* The counter may go anywhere. *)
Flush ==
    /\ queue' = <<>> /\ played' \in Nat
    /\ running' = FALSE /\ completed' = FALSE

Next == Submit \/ Hear \/ Start \/ Pause \/ Complete \/ Flush

Spec == Init /\ [][Next]_vars

=============================================================================
