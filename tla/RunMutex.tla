------------------------------- MODULE RunMutex -------------------------------
(***************************************************************************)
(* What a lock of the store promises to the commands that use it: at any   *)
(* time at most one process is its holder, and the lock passes from one    *)
(* process to another only through nobody.  A holder that is killed yields *)
(* the lock: "Dead-PID locks are recovered".                               *)
(*                                                                         *)
(* RunLock shows how far internal/store keeps this promise.                *)
(***************************************************************************)
CONSTANTS
  Proc,    (* operating-system processes, one per command invocation *)
  NoOne    (* the holder of a free lock                              *)

VARIABLE holder

Init == holder = NoOne

Grant(p) == holder = NoOne /\ holder' = p

Yield(p) == holder = p /\ holder' = NoOne

Next == \E p \in Proc : Grant(p) \/ Yield(p)

Spec == Init /\ [][Next]_holder
===============================================================================
