------------------------------- MODULE BlobStore -------------------------------
(***************************************************************************)
(* What the state directory promises about sealed content: every run that  *)
(* can be opened has all blobs of its snapshot, and a blob is removed only *)
(* when no such run needs it.                                              *)
(***************************************************************************)
CONSTANTS
  Run, Blob,
  Refs         (* the blobs of a run's snapshot                            *)

VARIABLES
  live,        (* runs that can be opened                                  *)
  blobs        (* blobs there are                                          *)

Init == live = {} /\ blobs = {}

Store(b) == blobs' = blobs \cup {b} /\ UNCHANGED live

Publish(r) ==
  /\ Refs[r] \subseteq blobs
  /\ live' = live \cup {r}
  /\ UNCHANGED blobs

Collect(r) == live' = live \ {r} /\ UNCHANGED blobs

Drop(b) ==
  /\ \A r \in live : b \notin Refs[r]
  /\ blobs' = blobs \ {b}
  /\ UNCHANGED live

Next ==
  \/ \E r \in Run : Publish(r) \/ Collect(r)
  \/ \E b \in Blob : Store(b) \/ Drop(b)

Spec == Init /\ [][Next]_<<live, blobs>>
===============================================================================
