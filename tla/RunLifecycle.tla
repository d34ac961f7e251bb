------------------------------ MODULE RunLifecycle ------------------------------
(***************************************************************************)
(* What run.json promises to whoever reads it: a run appears as PREPARED   *)
(* and its state then moves only along the allowed transitions.  The       *)
(* promise is about every write of the file, those of `recover` included.  *)
(***************************************************************************)
EXTENDS RunStates

VARIABLE state

Init == state = NoRun

Prepare == state = NoRun /\ state' = "PREPARED"

Move == \E next \in State : AllowedTransition(state, next) /\ state' = next

Next == Prepare \/ Move

Spec == Init /\ [][Next]_state
===============================================================================
