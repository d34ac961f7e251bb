----------------------------- MODULE MCRunJournal -----------------------------
(* RunJournal for TLC.  The processes are interchangeable in safety runs.   *)
EXTENDS RunJournal, TLC

Symmetry == Permutations(Proc)
===============================================================================
