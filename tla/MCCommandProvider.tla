--------------------------- MODULE MCCommandProvider ---------------------------
(* CommandProvider for TLC. *)
EXTENDS CommandProvider, TLC

Symmetry == Permutations(Proc) \cup Permutations(Version)

(* Two tasks; the second is under review and wants two passes.             *)
TwoTasks == 1..2
Files == [t \in TwoTasks |->
            IF t = 1 THEN [a |-> "mechanically_verified"]
            ELSE [a |-> "invariant_checked", b |-> "mechanically_verified"]]
Views == [t \in TwoTasks |-> IF t = 1 THEN {"correctness"} ELSE {"correctness", "security"}]
Demanded == <<1, 2>>

ResultOf(task, pass, perspective, context, completed, coverage, findings) ==
  [task |-> task, pass |-> pass, perspective |-> perspective, context |-> context,
   completed |-> completed, coverage |-> coverage, findings |-> findings, by |-> 0]

Flaw(variant) == [print |-> "flaw", variant |-> variant]

Mechanical == [a |-> "mechanically_verified", b |-> "mechanically_verified"]
Full == [a |-> "fully_reviewed", b |-> "mechanically_verified"]

(* A thorough answer, one in a context already heard, one that covers less *)
(* than the task requires, and one that is not completed.                  *)
Answers ==
  {ResultOf(2, 2, "security", "other", TRUE, Full, {Flaw("high")}),
   ResultOf(2, 1, "security", "same", TRUE, Full, {}),
   ResultOf(2, 2, "security", "other", TRUE, Mechanical, {}),
   ResultOf(2, 4, "correctness", "third", FALSE, [a |-> "other"], {Flaw("low")})}

Checked == ResultOf(1, 1, "correctness", "same", TRUE, [a |-> "fully_reviewed"], {})
First == ResultOf(2, 3, "correctness", "same", TRUE, Full, {Flaw("low")})
Partial == ResultOf(1, 2, "correctness", "same", FALSE, <<>>, {})

(* Nothing, what another reviewer has recorded, and an index with room.    *)
Before3 == {<<>>, <<Checked, First>>, <<Checked, Partial, First>>}
===============================================================================
