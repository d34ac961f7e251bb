----------------------------- MODULE FindingStates -----------------------------
(***************************************************************************)
(* The states of a finding in the ledger and the transitions               *)
(* internal/workflow allows.                                               *)
(***************************************************************************)
Absent == "absent"     (* the ledger has no record of the finding *)

FindingState ==
  {"reported", "needs_confirmation", "confirmed", "rejected", "accepted_risk",
   "fix_authorized", "fixed_unverified", "verified_closed"}

(* Mutant of AllowedNext: a rejected finding may be confirmed after all. *)
AllowedNextReopened ==
  [reported           |-> {"confirmed", "rejected", "needs_confirmation"},
   needs_confirmation |-> {"confirmed", "rejected"},
   confirmed          |-> {"fix_authorized", "accepted_risk"},
   fix_authorized     |-> {"fixed_unverified"},
   fixed_unverified   |-> {"verified_closed", "confirmed"},
   rejected           |-> {"confirmed"},
   accepted_risk      |-> {},
   verified_closed    |-> {}]

(* allowedFindingTransition *)
AllowedNext ==
  [reported           |-> {"confirmed", "rejected", "needs_confirmation"},
   needs_confirmation |-> {"confirmed", "rejected"},
   confirmed          |-> {"fix_authorized", "accepted_risk"},
   fix_authorized     |-> {"fixed_unverified"},
   fixed_unverified   |-> {"verified_closed", "confirmed"},
   rejected           |-> {},
   accepted_risk      |-> {},
   verified_closed    |-> {}]

AllowedFindingTransition(current, next) ==
  current \in FindingState /\ next \in AllowedNext[current]

(* How a serious finding may stand under the verdict "ready". *)
Settled == {"rejected", "verified_closed", "accepted_risk"}
===============================================================================
