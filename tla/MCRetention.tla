----------------------------- MODULE MCRetention -----------------------------
(* Retention for TLC: two runs of one repository; the second refers to the  *)
(* blob of the first and to one of its own.                                 *)
EXTENDS Retention

TwoRefs == [r1 |-> {"b1"}, r2 |-> {"b1", "b2"}]
OneRepo == [r1 |-> "g1", r2 |-> "g1"]
===============================================================================
