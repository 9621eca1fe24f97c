----------------------------- MODULE PlayerState -----------------------------
(***************************************************************************)
(* The public state machine of the player: which action is legal in which  *)
(* state and where it leads (player/state.rs).  The table is a relation;   *)
(* an action with no successor is the code's InvalidTransition.            *)
(***************************************************************************)

PlayerStates ==
    {"Idle", "Preparing", "Ready", "Playing", "Paused", "Error", "Ended", "Released"}

StateActions ==
    {"BeginPrepare", "PreparationCompleted", "Play", "Pause", "Seek", "Stop",
     "FatalError", "PlaybackCompleted", "Release"}

(* Mutant: forgets that a completion may be overtaken by the user's Pause. *)
CompletesOnlyWhilePlaying == {"Playing"}

(* States in which PlaybackCompleted is legal. *)
CompletableStates == {"Playing", "Paused"}

(* Action a takes state s to state t. *)
Transition(s, a, t) ==
    \/ a = "Release" /\ t = "Released"
    \/ a = "BeginPrepare" /\ s = "Idle" /\ t = "Preparing"
    \/ a = "PreparationCompleted" /\ s = "Preparing" /\ t = "Ready"
    \/ a = "Play" /\ s \in {"Ready", "Playing", "Paused"} /\ t = "Playing"
    \/ a = "Pause" /\ s \in {"Playing", "Paused"} /\ t = "Paused"
    \/ a = "Seek" /\ s \in {"Ready", "Playing", "Paused"} /\ t = s
    \/ a = "Seek" /\ s = "Ended" /\ t = "Paused"
    \/ a = "Stop" /\ s # "Released" /\ t = "Idle"
    \/ a = "FatalError" /\ s # "Released" /\ t = "Error"
    \/ a = "PlaybackCompleted" /\ s \in CompletableStates /\ t = "Ended"

(* PlayerState::transition returns Ok. *)
Legal(s, a) == \E t \in PlayerStates : Transition(s, a, t)

==============================================================================
