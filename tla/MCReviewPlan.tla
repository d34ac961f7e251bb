------------------------------ MODULE MCReviewPlan ------------------------------
(* ReviewPlan for TLC: three paths, two contract types of which the second *)
(* is the graver, a text of one byte and an opaque content of two.         *)
EXTENDS ReviewPlan

CONSTANTS text, blob

Three == 1..3
Two == 1..2
Levels == <<2, 4>>
Sizes == [c \in {text, blob, Absent} |-> IF c = text THEN 1 ELSE IF c = blob THEN 2 ELSE 0]

Name(signal, types, dir) == [signal |-> signal, types |-> types, dir |-> dir]

(* One task for all; a chain of contracts; two contracts, two directories; *)
(* what has no contract.                                                   *)
SomeNames ==
  {<<Name("source", {1}, "a"), Name("source", {1}, "a"), Name("source", {1}, "b")>>,
   <<Name("source", {1}, "a"), Name("boundary", {1, 2}, "a"), Name("other", {2}, "a")>>,
   <<Name("high_impact", {2}, "a"), Name("other", {2}, "b"), Name("prose", {}, "b")>>,
   <<Name("generated", {}, "a"), Name("generated", {}, "a"), Name("other", {}, "b")>>}

SomePolicies ==
  {[p \in Three |-> NoRule], [p \in Three |-> IF p = 1 THEN 3 ELSE 1]}

File(base, head, index, work) ==
  [slot \in Slot |-> CASE slot = "base" -> base [] slot = "head" -> head
                       [] slot = "index" -> index [] OTHER -> work]

(* Unchanged; committed; staged and changed again; committed and changed   *)
(* again; deleted from the index and kept.                                 *)
Files ==
  {File(text, text, text, text), File(Absent, text, text, text),
   File(text, text, blob, text), File(text, blob, blob, text),
   File(text, text, Absent, blob)}

SomeTrees == [Three -> Files]
===============================================================================
