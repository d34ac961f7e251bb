---- MODULE MCPublicExport ----
(* PublicExport with two processes, two candidates, one of them flagged by *)
(* the scan and one redacted, one time of approval and two outputs.        *)
EXTENDS PublicExport, TLC

CONSTANTS p1, p2, flagged, redacted, s1, o1, o2

MCProc == {p1, p2}
MCCandidate == {flagged, redacted}
MCFlagged == {flagged}
MCRedacted == {redacted}
MCStamp == {s1}
MCOutput == {o1, o2}

(* The state but for the events of what is prepared and approved, which no *)
(* command and no property looks at.                                       *)
Seen ==
  <<state, archived, artifacts, Exports(events) \cup {e \in events : e.kind = "portable"},
    outputs, pc, cmd, kills, doubled>>

Symmetry == Permutations(MCProc) \cup Permutations(MCOutput)
====
