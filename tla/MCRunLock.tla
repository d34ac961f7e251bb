------------------------------- MODULE MCRunLock -------------------------------
(* RunLock for TLC.  The processes are interchangeable in the safety runs. *)
EXTENDS RunLock, TLC

Symmetry == Permutations(Proc)
===============================================================================
