------------------------------- MODULE RunStates -------------------------------
(***************************************************************************)
(* The states of a run and the transitions internal/store allows.          *)
(***************************************************************************)
NoRun == "NONE"     (* the run directory has no run.json yet *)

State ==
  {"PREPARED", "CONTRACTED", "REVIEWING", "REVIEWED", "FIX_AUTHORIZED",
   "MUTATED", "GATED", "REREVIEWED", "FINALIZED", "EXPORTED", "BLOCKED"}

(* allowedTransition *)
Allowed ==
  [PREPARED       |-> {"CONTRACTED", "BLOCKED"},
   CONTRACTED     |-> {"REVIEWING", "BLOCKED"},
   REVIEWING      |-> {"REVIEWED", "BLOCKED"},
   REVIEWED       |-> {"FIX_AUTHORIZED", "GATED", "BLOCKED"},
   FIX_AUTHORIZED |-> {"MUTATED", "BLOCKED"},
   MUTATED        |-> {"PREPARED", "BLOCKED"},
   GATED          |-> {"REREVIEWED", "BLOCKED"},
   REREVIEWED     |-> {"FINALIZED", "BLOCKED"},
   FINALIZED      |-> {"EXPORTED"},
   EXPORTED       |-> {},
   BLOCKED        |-> {"PREPARED", "REVIEWING"}]

AllowedTransition(current, next) ==
  current \in State /\ next \in Allowed[current]
===============================================================================
