---------------------------- MODULE MCProcessRunner ----------------------------
(* ProcessRunner for TLC. *)
EXTENDS ProcessRunner

Streams == {"stdout", "stderr"}

Limits == [s \in Streams |-> 1]

(* What exceeds the limit of stdout fills its pipe as well. *)
Outputs == [s \in Streams |-> IF s = "stdout" THEN 3 ELSE 2]
===============================================================================
