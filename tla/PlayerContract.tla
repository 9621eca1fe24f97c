--------------------------- MODULE PlayerContract ---------------------------
(***************************************************************************)
(* What the player promises the code that listens to its events: the state *)
(* the events tell follows the public state machine, one legal step at a   *)
(* time, and nothing happens after Released.  It says nothing of threads,  *)
(* epochs or queues.                                                       *)
(***************************************************************************)
EXTENDS PlayerState

VARIABLE shown

Init == shown = "Idle"

(* Some action of the state machine other than a failure. *)
Move ==
    \E a \in StateActions \ {"FatalError"} :
        \E t \in PlayerStates : Transition(shown, a, t) /\ shown' = t

(* A failure is told at most once until the player is stopped or released. *)
Fail ==
    /\ shown \in {"Idle", "Preparing", "Ready", "Playing", "Paused", "Ended"}
    /\ shown' = "Error"

Next == Move \/ Fail

Spec == Init /\ [][Next]_shown

==============================================================================
