------------------------------- MODULE MCGateRun -------------------------------
(* GateRun for TLC. *)
EXTENDS GateRun, TLC

Symmetry == Permutations(Proc)

Three == 1..3

(* The third gate's executable is replaced, and the old one comes back.    *)
Tools == {[g \in Three |-> IF g = 3 THEN v ELSE 1] : v \in 1..2}

(* Three gates of which the change matches the third; the second needs no  *)
(* other, the first one other.  Validate refuses some of them.             *)
SomeGates ==
  [deps : {deps \in [Three -> SUBSET Three] : deps[2] = {} /\ deps[1] \in {{2}, {3}}},
   matching : {{3}}, blocking : {{2, 3}}, final : {{3}}]
===============================================================================
