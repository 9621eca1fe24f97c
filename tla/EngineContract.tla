--------------------------- MODULE EngineContract ---------------------------
(***************************************************************************)
(* What PlayerEngine promises its owner about threads, and nothing else:   *)
(* new either opens the engine or fails with no thread left behind;        *)
(* shutdown returns only when the last thread is gone; a thread never      *)
(* comes back.  The threads may end earlier, of their own accord, and the  *)
(* owner is not told.                                                      *)
(***************************************************************************)

VARIABLES
    phase,      \* where the call that creates or ends the engine stands
    threads     \* some thread of the engine runs

vars == <<phase, threads>>

Phases == {"absent", "creating", "open", "closing", "closed", "refusing", "refused"}

Init ==
    \/ phase = "absent" /\ threads = FALSE
    \/ phase = "creating" /\ threads = TRUE

Create == phase = "absent" /\ phase' = "creating" /\ threads' = TRUE

Open == phase = "creating" /\ phase' = "open" /\ UNCHANGED threads

(* The engine cannot be created; new waits for what it had started. *)
Refuse == phase = "creating" /\ phase' = "refusing" /\ UNCHANGED threads

Refused == phase = "refusing" /\ threads = FALSE /\ phase' = "refused" /\ UNCHANGED threads

Close == phase = "open" /\ phase' = "closing" /\ UNCHANGED threads

Closed == phase = "closing" /\ threads = FALSE /\ phase' = "closed" /\ UNCHANGED threads

LastThreadEnds == threads = TRUE /\ threads' = FALSE /\ UNCHANGED phase

Next == Create \/ Open \/ Refuse \/ Refused \/ Close \/ Closed \/ LastThreadEnds

Spec == Init /\ [][Next]_vars

==============================================================================
