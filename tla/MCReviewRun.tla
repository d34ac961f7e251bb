------------------------------ MODULE MCReviewRun ------------------------------
(* ReviewRun for TLC: two instances. *)
EXTENDS ReviewRun, TLC

Symmetry == Permutations(Proc)

(* A task of risk L3: two passes, two perspectives.  One answer has a      *)
(* serious finding, one a minor one; a third is as good as the first for   *)
(* completeness and has none.                                              *)
TwoPasses == [t \in Task |-> 2]
TwoPerspectives == [t \in Task |-> {"correctness", "failure-recovery"}]
BothFindings == {"f1", "f2"}
ImportedBoth == [f1 |-> "reported", f2 |-> "needs_confirmation"]

First(t) ==
  [task |-> t, pass |-> "p1", perspective |-> "correctness", context |-> "c1",
   completed |-> TRUE, confirm |-> FALSE, findings |-> {"f1"}]
Second(t) ==
  [task |-> t, pass |-> "p2", perspective |-> "failure-recovery", context |-> "c2",
   completed |-> TRUE, confirm |-> FALSE, findings |-> {"f2"}]
Third(t) == [First(t) EXCEPT !.pass = "p3", !.context = "c3", !.findings = {}]

ThreeResults == UNION {{First(t), Second(t), Third(t)} : t \in Task}

(* A task of low risk: one pass, with one minor finding, or an incomplete  *)
(* answer for the same pass.                                               *)
OnePass == [t \in Task |-> 1]
OnePerspective == [t \in Task |-> {"correctness"}]
OneFinding == {"f2"}
ImportedOne == [f2 |-> "reported"]

Minor(t) == [First(t) EXCEPT !.findings = OneFinding]
Incomplete(t) == [First(t) EXCEPT !.findings = {}, !.completed = FALSE]
TwoAnswers == UNION {{Minor(t), Incomplete(t)} : t \in Task}
===============================================================================
