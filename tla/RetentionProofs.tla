---------------------------- MODULE RetentionProofs ----------------------------
(***************************************************************************)
(* What holds of runs, blobs and garbage collection for any number of      *)
(* runs, plans, lockless writers and kills.                                *)
(*                                                                         *)
(* The argument is CollectionInv: what a collection has revalidated at its *)
(* start still holds at each of its steps, because everything that could   *)
(* change it needs gc.lock or only touches runs already gone.  What a lock *)
(* file, gc.lock or another, keeps apart is at the end.                    *)
(***************************************************************************)
EXTENDS Retention, RunLock, TLAPS

(* A collection that renames or removes does it for a plan on disk. *)
PlanHeld == gc.step \in {"rename", "blobs"} => gc.plan \in plans

Typed == TypeOK /\ PlanHeld

(* The typing and PlanHeld are preserved together: RecordExecution records *)
(* the plan it holds.                                                      *)
LEMMA TypedStep == Typed /\ [Next]_vars => Typed'
<1> SUFFICES ASSUME Typed, [Next]_vars PROVE Typed'
  OBVIOUS
<1> USE RetentionConstants DEF Typed, TypeOK, PlanHeld, Dir, Idle, Step, runs, evidence
<1>1. CASE UNCHANGED vars
  BY <1>1 DEF vars
<1>2. ASSUME NEW r \in Run, BeginRun(r) PROVE Typed'
  <2>1. gc' = [step |-> "begin", run |-> {r}, plan |-> NoPlan, todo |-> {}]
    BY <1>2 DEF BeginRun
  <2>2. QED
    BY <1>2, <2>1 DEF BeginRun
<1>3. ASSUME NEW r \in Run, WriteSnapshot(r) PROVE Typed'
  BY <1>3 DEF WriteSnapshot
<1>4. ASSUME NEW r \in Run, Prepared(r) PROVE Typed'
  BY <1>4 DEF Prepared
<1>5. ASSUME NEW r \in Run, NEW b \in Blob, WriteBlob(r, b) PROVE Typed'
  BY <1>5 DEF WriteBlob
<1>6. ASSUME NEW r \in Run, NEW exempt \in BOOLEAN, ArchiveRun(r, exempt) PROVE Typed'
  BY <1>6 DEF ArchiveRun
<1>7. ASSUME NEW repo \in Repo, NEW cutoff \in 1..clock, PlanGC(repo, cutoff) PROVE Typed'
  <2> DEFINE c == Candidates(repo, cutoff)
  <2>1. c \in SUBSET Run /\ Unreferenced(c) \subseteq RefsOf(c)
    BY DEF Candidates, Unreferenced
  <2>2. RefsOf(c) \in SUBSET Blob
    BY <2>1 DEF RefsOf
  <2>3. [repo |-> repo, cutoff |-> cutoff, runs |-> c, blobs |-> Unreferenced(c)] \in Plan
    BY <2>1, <2>2 DEF Plan
  <2>4. QED
    BY <1>7, <2>1, <2>3 DEF PlanGC
<1>8. ASSUME NEW p \in plans, ExecuteGC(p) PROVE Typed'
  <2>1. p.runs \in SUBSET Run
    BY DEF Plan
  <2>2. gc' = [step |-> "rename", run |-> p.runs, plan |-> p, todo |-> {}]
    BY <1>8 DEF ExecuteGC
  <2>3. QED
    BY <1>8, <2>1, <2>2 DEF ExecuteGC
<1>9. ASSUME NEW p \in plans, RepeatGC(p) PROVE Typed'
  <2>1. gc' = [step |-> "purge", run |-> {}, plan |-> p, todo |-> {}]
    BY <1>9 DEF RepeatGC
  <2>2. QED
    BY <1>9, <2>1 DEF RepeatGC
<1>10. ASSUME NEW r \in Run, RenameRun(r) PROVE Typed'
  BY <1>10 DEF RenameRun
<1>11. ASSUME NEW r \in Run, FailRename(r) PROVE Typed'
  BY <1>11 DEF FailRename
<1>12. CASE StartBlobs
  <2>1. gc.plan \in plans /\ gc.plan.blobs \in SUBSET Blob
    BY <1>12 DEF StartBlobs, Plan
  <2>2. gc' = [gc EXCEPT !.step = "blobs", !.todo = gc.plan.blobs]
    BY <1>12 DEF StartBlobs
  <2>3. QED
    BY <1>12, <2>1, <2>2 DEF StartBlobs
<1>13. CASE RecordExecution
  BY <1>13 DEF RecordExecution
<1>14. CASE EmptyTrash
  BY <1>14 DEF EmptyTrash
<1>15. ASSUME NEW b \in Blob, RemoveBlob(b) PROVE Typed'
  BY <1>15 DEF RemoveBlob
<1>16. CASE Write
  BY <1>16 DEF Write, OpenRun, RefuseArtifact, Resurrect, WriteArtifact,
     WriteLate, AddEvidence
<1>17. CASE Kill
  BY <1>17 DEF Kill
<1>18. QED
  BY <1>1, <1>2, <1>3, <1>4, <1>5, <1>6, <1>7, <1>8, <1>9, <1>10, <1>11,
     <1>12, <1>13, <1>14, <1>15, <1>16, <1>17 DEF Next, Begin, Collect

(* Every variable keeps its type, and no plan names a blob that is not one *)
(* of its own runs'.                                                       *)
THEOREM RetentionTyping == Spec => []TypeOK
<1>1. Init => Typed
  BY DEF Init, Typed, TypeOK, PlanHeld, Dir, Unarchived, Idle, Step
<1>2. Spec => []Typed
  BY <1>1, TypedStep, PTL DEF Spec
<1>3. QED
  BY <1>2, PTL DEF Typed

-------------------------------------------------------------------------------
(* A blob of a run is among the blobs of every set with that run. *)
LEMMA RefsAreIn == \A set \in SUBSET Run : \A r \in set : Refs[r] \subseteq RefsOf(set)
BY DEF RefsOf

(* What a plan is to remove is of no run that can be opened outside it,    *)
(* once its blobs have been compared with the references as they are now.  *)
LEMMA RevalidatedBlobs ==
  ASSUME NEW p \in Plan, SameBlobs(p)
  PROVE  \A r \in Live \ p.runs : Refs[r] \cap p.blobs = {}
<1>1. Live \ p.runs \subseteq Present \ p.runs /\ Present \ p.runs \in SUBSET Run
  BY DEF Live, Present
<1>2. p.blobs \cap RefsOf(Present \ p.runs) = {}
  BY DEF SameBlobs, Unreferenced
<1>3. QED
  BY <1>1, <1>2, RefsAreIn

(* Commands without gc.lock bring no run back to life and take none from   *)
(* where a collection has put it; what they make public they damage.       *)
LEMMA WritersApart ==
  ASSUME Typed, Write
  PROVE  /\ UNCHANGED <<archive, clock, trash, blobs, plans, done, gc, kills>>
         /\ Live' = Live
         /\ \A r \in Run : \/ dir'[r] = dir[r]
                           \/ dir[r] \in {"gone", "remnant"} /\ dir'[r] = "remnant"
         /\ \A r \in Run : dir[r] = "archived" /\ (r \in public => r \in damaged)
                             => (r \in public' => r \in damaged')
<1> USE DEF Typed, TypeOK, Live, runs, evidence
<1>1. ASSUME NEW r \in Run, OpenRun(r) \/ RefuseArtifact(r)
      PROVE  UNCHANGED <<dir, archive, clock, trash, blobs, plans, done, gc, kills, public, damaged>>
  BY <1>1 DEF OpenRun, RefuseArtifact
<1>2. CASE \E r \in Run : Resurrect(r)
  BY <1>2 DEF Resurrect
<1>3. CASE \E r \in Run, isPublic \in BOOLEAN : WriteArtifact(r, isPublic)
  BY <1>3 DEF WriteArtifact, AddEvidence
<1>4. CASE \E r \in Run, isPublic \in BOOLEAN : WriteLate(r, isPublic)
  BY <1>4 DEF WriteLate, AddEvidence
<1>5. QED
  BY <1>1, <1>2, <1>3, <1>4 DEF Write

(* Renaming is preserved: its facts about archived runs are established by *)
(* ExecuteGC and lost for a run only when it is renamed.                   *)
LEMMA RenamingStep == Typed /\ Renaming /\ [Next]_vars => Renaming'
<1> SUFFICES ASSUME Typed, Renaming, [Next]_vars PROVE Renaming'
  OBVIOUS
<1> USE DEF Typed, TypeOK, PlanHeld, Idle, runs, evidence
<1>1. CASE UNCHANGED vars
  BY <1>1 DEF vars, Renaming, Live
<1>2. CASE Begin \/ (\E r \in Run, exempt \in BOOLEAN : ArchiveRun(r, exempt))
  <2>1. ASSUME NEW r \in Run, BeginRun(r) PROVE gc'.step # "rename"
    BY <2>1 DEF BeginRun
  <2>2. ASSUME NEW r \in Run, WriteSnapshot(r) \/ Prepared(r) PROVE gc'.step # "rename"
    BY <2>2 DEF WriteSnapshot, Prepared
  <2>3. ASSUME NEW r \in Run, NEW b \in Blob, WriteBlob(r, b) PROVE gc'.step # "rename"
    BY <2>3 DEF WriteBlob
  <2>4. ASSUME NEW r \in Run, NEW exempt \in BOOLEAN, ArchiveRun(r, exempt)
        PROVE  gc'.step # "rename"
    BY <2>4 DEF ArchiveRun
  <2>5. QED
    BY <1>2, <2>1, <2>2, <2>3, <2>4 DEF Begin, Renaming
<1>3. ASSUME NEW repo \in Repo, NEW cutoff \in 1..clock, PlanGC(repo, cutoff)
      PROVE  Renaming'
  BY <1>3 DEF PlanGC, Renaming
<1>4. ASSUME NEW p \in plans, ExecuteGC(p) PROVE Renaming'
  <2>1. p \in Plan /\ p.runs \in SUBSET Run
    BY DEF Plan
  <2>2. gc' = [step |-> "rename", run |-> p.runs, plan |-> p, todo |-> {}]
    BY <1>4 DEF ExecuteGC
  <2>3. \A r \in Live \ p.runs : Refs[r] \cap p.blobs = {}
    BY <1>4, <2>1, RevalidatedBlobs DEF ExecuteGC
  <2>4. \A r \in p.runs : StillEligible(p, r)
    BY <1>4 DEF ExecuteGC
  <2>5. UNCHANGED <<dir, archive, plans, public, damaged>> /\ Live' = Live
    BY <1>4 DEF ExecuteGC, Live
  <2>6. QED
    BY <2>1, <2>2, <2>3, <2>4, <2>5 DEF Renaming, StillEligible, Located, Collectable
<1>5. ASSUME NEW p \in plans, RepeatGC(p) PROVE Renaming'
  BY <1>5 DEF RepeatGC, Renaming
<1>6. ASSUME NEW q \in Run, RenameRun(q) PROVE Renaming'
  <2>1. /\ gc.step = "rename" /\ gc'.step = "rename" /\ gc'.plan = gc.plan
        /\ gc'.run = gc.run \ {q}
        /\ UNCHANGED <<archive, plans, public, damaged>>
    BY <1>6 DEF RenameRun
  <2>2. /\ dir'[q] = "gone"
        /\ \A r \in Run \ {q} : dir'[r] = dir[r]
        /\ Live' \subseteq Live
    BY <1>6 DEF RenameRun, Live
  <2>3. gc.plan.runs \in SUBSET Run
    BY <2>1 DEF Plan
  <2>4. QED
    BY <2>1, <2>2, <2>3 DEF Renaming
<1>7. CASE (\E r \in Run : FailRename(r)) \/ StartBlobs \/ RecordExecution \/ EmptyTrash \/ Kill
  <2>1. (\E r \in Run : FailRename(r)) \/ EmptyTrash \/ Kill => gc'.step # "rename"
    BY DEF FailRename, EmptyTrash, Kill
  <2>2. StartBlobs => gc'.step = "blobs"
    BY DEF StartBlobs
  <2>3. RecordExecution => gc'.step = "purge"
    BY DEF RecordExecution
  <2>4. QED
    BY <1>7, <2>1, <2>2, <2>3 DEF Renaming
<1>8. ASSUME NEW b \in Blob, RemoveBlob(b) PROVE Renaming'
  BY <1>8 DEF RemoveBlob, Renaming
<1>9. CASE Write
  <2>1. SUFFICES ASSUME gc.step = "rename" PROVE Renaming'
    BY <1>9, WritersApart DEF Renaming
  <2>2. gc.plan.runs \in SUBSET Run
    BY <2>1 DEF Plan
  <2>3. QED
    BY <1>9, <2>1, <2>2, WritersApart DEF Renaming
<1>10. QED
  BY <1>1, <1>2, <1>3, <1>4, <1>5, <1>6, <1>7, <1>8, <1>9 DEF Next, Collect

(* Removing is preserved: it begins as Renaming ends, when no run of the   *)
(* plan is left in place.                                                  *)
LEMMA RemovingStep == Typed /\ Renaming /\ Removing /\ [Next]_vars => Removing'
<1> SUFFICES ASSUME Typed, Renaming, Removing, [Next]_vars PROVE Removing'
  OBVIOUS
<1> USE DEF Typed, TypeOK, PlanHeld, Idle, runs, evidence
<1>1. CASE UNCHANGED vars
  BY <1>1 DEF vars, Removing, Live
<1>2. CASE StartBlobs
  <2>1. /\ gc' = [gc EXCEPT !.step = "blobs", !.todo = gc.plan.blobs]
        /\ gc.step = "rename" /\ gc.run = {}
        /\ UNCHANGED <<dir, plans>> /\ Live' = Live
    BY <1>2 DEF StartBlobs, Renamed, Live
  <2>2. gc.plan \in plans /\ gc.plan.runs \in SUBSET Run
    BY <2>1 DEF Plan
  <2>3. \A r \in gc.plan.runs : dir[r] \in {"gone", "remnant"}
    BY <2>1 DEF Renaming
  <2>4. Live \cap gc.plan.runs = {}
    BY <2>3 DEF Live
  <2>5. \A r \in Live : Refs[r] \cap gc.plan.blobs = {}
    BY <2>1, <2>4 DEF Renaming
  <2>6. QED
    BY <2>1, <2>2, <2>3, <2>5 DEF Removing
<1>3. ASSUME NEW b \in Blob, RemoveBlob(b) PROVE Removing'
  BY <1>3 DEF RemoveBlob, Removing, Live
<1>4. CASE Write
  <2>1. SUFFICES ASSUME gc.step = "blobs" PROVE Removing'
    BY <1>4, WritersApart DEF Removing
  <2>2. gc.plan.runs \in SUBSET Run
    BY <2>1 DEF Plan
  <2>3. QED
    BY <1>4, <2>1, <2>2, WritersApart DEF Removing
<1>5. ASSUME NEW repo \in Repo, NEW cutoff \in 1..clock, PlanGC(repo, cutoff)
      PROVE  Removing'
  BY <1>5 DEF PlanGC, Removing
<1>6. CASE Begin \/ (\E r \in Run, exempt \in BOOLEAN : ArchiveRun(r, exempt))
  <2>1. ASSUME NEW r \in Run, BeginRun(r) PROVE gc'.step # "blobs"
    BY <2>1 DEF BeginRun
  <2>2. ASSUME NEW r \in Run, WriteSnapshot(r) \/ Prepared(r) PROVE gc'.step # "blobs"
    BY <2>2 DEF WriteSnapshot, Prepared
  <2>3. ASSUME NEW r \in Run, NEW b \in Blob, WriteBlob(r, b) PROVE gc'.step # "blobs"
    BY <2>3 DEF WriteBlob
  <2>4. ASSUME NEW r \in Run, NEW exempt \in BOOLEAN, ArchiveRun(r, exempt)
        PROVE  gc'.step # "blobs"
    BY <2>4 DEF ArchiveRun
  <2>5. QED
    BY <1>6, <2>1, <2>2, <2>3, <2>4 DEF Begin, Removing
<1>7. ASSUME NEW p \in plans, ExecuteGC(p) \/ RepeatGC(p) PROVE Removing'
  <2>1. CASE ExecuteGC(p)
    BY <2>1 DEF ExecuteGC, Removing
  <2>2. CASE RepeatGC(p)
    BY <2>2 DEF RepeatGC, Removing
  <2>3. QED
    BY <1>7, <2>1, <2>2
<1>8. CASE (\E r \in Run : RenameRun(r) \/ FailRename(r)) \/ RecordExecution \/ EmptyTrash \/ Kill
  <2>1. gc'.step # "blobs"
    BY <1>8 DEF RenameRun, FailRename, RecordExecution, EmptyTrash, Kill
  <2>2. QED
    BY <2>1 DEF Removing
<1>9. QED
  BY <1>1, <1>2, <1>3, <1>4, <1>5, <1>6, <1>7, <1>8 DEF Next, Collect

(* What a collection has revalidated at its start holds at each of its     *)
(* steps.                                                                  *)
THEOREM RevalidationStands == Spec => []CollectionInv
<1>1. Init => Typed /\ Renaming /\ Removing
  BY DEF Init, Typed, TypeOK, PlanHeld, Dir, Unarchived, Idle, Step, Renaming, Removing
<1>2. Spec => [](Typed /\ Renaming /\ Removing)
  BY <1>1, TypedStep, RenamingStep, RemovingStep, PTL DEF Spec
<1>3. QED
  BY <1>2, PTL DEF CollectionInv

-------------------------------------------------------------------------------
CollectionTyped == Typed /\ Renaming /\ Removing

(* The live runs, run by run. *)
LEMMA ReadableRunByRun ==
  TypeOK => (LiveRunsReadable <=> \A r \in Live : Refs[r] \subseteq blobs)
BY RefsAreIn DEF LiveRunsReadable, RefsOf, Live, TypeOK

(* What a step does to the live runs and the blobs: publish a run that has *)
(* its blobs, rename one away, add a blob, or remove one no live run needs *)
(* (the steps of BlobStore).                                               *)
StoreMove ==
  \/ Live' = Live /\ blobs' = blobs
  \/ \E r \in Run : Refs[r] \subseteq blobs /\ Live' = Live \cup {r} /\ blobs' = blobs
  \/ \E r \in Run : Live' = Live \ {r} /\ blobs' = blobs
  \/ \E b \in Blob : Live' = Live /\ blobs' = blobs \cup {b}
  \/ \E b \in Blob : (\A r \in Live : b \notin Refs[r]) /\ Live' = Live /\ blobs' = blobs \ {b}

(* Every step moves the store in one of these ways. *)
LEMMA StoreStep == CollectionTyped /\ [Next]_vars => StoreMove
<1> SUFFICES ASSUME CollectionTyped, [Next]_vars PROVE StoreMove
  OBVIOUS
<1> USE DEF CollectionTyped, Typed, TypeOK, Live, Idle, runs, evidence
<1> DEFINE Same == Live' = Live /\ blobs' = blobs
<1>1. ASSUME UNCHANGED vars PROVE Same
  BY <1>1 DEF vars
<1>2. ASSUME NEW r \in Run, BeginRun(r) \/ WriteSnapshot(r) \/ FailRename(r) PROVE Same
  BY <1>2 DEF BeginRun, WriteSnapshot, FailRename
<1>3. ASSUME NEW r \in Run, Prepared(r)
      PROVE  Refs[r] \subseteq blobs /\ Live' = Live \cup {r} /\ blobs' = blobs
  BY <1>3 DEF Prepared, Written
<1>4. ASSUME NEW r \in Run, RenameRun(r)
      PROVE  Live' = Live \ {r} /\ blobs' = blobs
  BY <1>4 DEF RenameRun
<1>5. ASSUME NEW r \in Run, NEW b \in Blob, WriteBlob(r, b)
      PROVE  Live' = Live /\ blobs' = blobs \cup {b}
  BY <1>5 DEF WriteBlob
<1>6. ASSUME NEW b \in Blob, RemoveBlob(b)
      PROVE  /\ \A r \in Live : b \notin Refs[r]
             /\ Live' = Live /\ blobs' = blobs \ {b}
  BY <1>6 DEF RemoveBlob, Removing
<1>7. ASSUME NEW r \in Run, NEW exempt \in BOOLEAN, ArchiveRun(r, exempt) PROVE Same
  BY <1>7 DEF ArchiveRun
<1>8. ASSUME NEW repo \in Repo, NEW cutoff \in 1..clock, PlanGC(repo, cutoff) PROVE Same
  BY <1>8 DEF PlanGC
<1>9. ASSUME NEW p \in plans, ExecuteGC(p) \/ RepeatGC(p) PROVE Same
  BY <1>9 DEF ExecuteGC, RepeatGC
<1>10. ASSUME StartBlobs \/ RecordExecution \/ EmptyTrash \/ Kill PROVE Same
  BY <1>10 DEF StartBlobs, RecordExecution, EmptyTrash, Kill
<1>11. ASSUME Write PROVE Same
  BY <1>11, WritersApart
<1> HIDE DEF CollectionTyped, Typed, TypeOK, Live, Idle, runs, evidence
<1>12. ASSUME Next PROVE StoreMove
  <2>1. CASE Begin
    BY <2>1, <1>2, <1>3, <1>5 DEF Begin, StoreMove
  <2>2. CASE Collect
    BY <2>2, <1>2, <1>4, <1>6, <1>8, <1>9, <1>10 DEF Collect, StoreMove
  <2>3. CASE Write \/ Kill \/ \E r \in Run, exempt \in BOOLEAN : ArchiveRun(r, exempt)
    BY <2>3, <1>7, <1>10, <1>11 DEF StoreMove
  <2>4. QED
    BY <1>12, <2>1, <2>2, <2>3 DEF Next
<1>13. QED
  BY <1>1, <1>12 DEF StoreMove

(* Every run that can be opened has the content it was sealed with. *)
THEOREM ContentIsKept == Spec => []LiveRunsReadable
<1> DEFINE HaveBlobs == \A r \in Live : Refs[r] \subseteq blobs
<1>1. Init => CollectionTyped /\ HaveBlobs
  BY DEF Init, CollectionTyped, Typed, TypeOK, PlanHeld, Dir, Unarchived, Idle, Step,
         Renaming, Removing, Live
<1>2. CollectionTyped /\ HaveBlobs /\ [Next]_vars => HaveBlobs'
  <2> SUFFICES ASSUME CollectionTyped, HaveBlobs, [Next]_vars,
                      NEW q \in Live'
               PROVE  Refs[q] \subseteq blobs'
    OBVIOUS
  <2> HIDE DEF HaveBlobs
  <2>1. q \in Live => Refs[q] \subseteq blobs
    BY DEF HaveBlobs
  <2>2. StoreMove
    BY StoreStep
  <2>3. QED
    BY <2>1, <2>2 DEF StoreMove, HaveBlobs
<1>3. Spec => [](CollectionTyped /\ HaveBlobs)
  BY <1>1, <1>2, TypedStep, RenamingStep, RemovingStep, PTL DEF Spec, CollectionTyped
<1>4. CollectionTyped /\ HaveBlobs => LiveRunsReadable
  BY ReadableRunByRun DEF CollectionTyped, Typed
<1>5. QED
  BY <1>3, <1>4, PTL

(* Runs and blobs are a BlobStore: a run is published with its blobs, and  *)
(* a blob is dropped only when no live run needs it.                       *)
THEOREM StoreRefinement == Spec => ImplementsBlobStore
<1>1. Init => Abstract!Init
  BY DEF Init, Abstract!Init, Live
<1>2. CollectionTyped /\ [Next]_vars => [Abstract!Next]_<<Live, blobs>>
  <2> SUFFICES ASSUME CollectionTyped, [Next]_vars
               PROVE  Abstract!Next \/ (Live' = Live /\ blobs' = blobs)
    OBVIOUS
  <2>1. ASSUME NEW r \in Run, Refs[r] \subseteq blobs, Live' = Live \cup {r}, blobs' = blobs
        PROVE  Abstract!Next
    BY <2>1 DEF Abstract!Next, Abstract!Publish
  <2>2. ASSUME NEW r \in Run, Live' = Live \ {r}, blobs' = blobs PROVE Abstract!Next
    BY <2>2 DEF Abstract!Next, Abstract!Collect
  <2>3. ASSUME NEW b \in Blob, Live' = Live, blobs' = blobs \cup {b} PROVE Abstract!Next
    BY <2>3 DEF Abstract!Next, Abstract!Store
  <2>4. ASSUME NEW b \in Blob, \A r \in Live : b \notin Refs[r],
               Live' = Live, blobs' = blobs \ {b}
        PROVE  Abstract!Next
    BY <2>4 DEF Abstract!Next, Abstract!Drop
  <2>5. StoreMove
    BY StoreStep
  <2>6. QED
    BY <2>1, <2>2, <2>3, <2>4, <2>5 DEF StoreMove
<1>3. Init => CollectionTyped
  BY DEF Init, CollectionTyped, Typed, TypeOK, PlanHeld, Dir, Unarchived, Idle, Step,
         Renaming, Removing
<1>4. QED
  BY <1>1, <1>2, <1>3, TypedStep, RenamingStep, RemovingStep, PTL
     DEF Spec, CollectionTyped, ImplementsBlobStore, Abstract!Spec

-------------------------------------------------------------------------------
(* A run leaves the archived only by RenameRun, and what has left runs/    *)
(* does not come back as a run.                                            *)
LEMMA DirStep ==
  ASSUME Typed, [Next]_vars, NEW r \in Run
  PROVE  /\ dir[r] \in {"gone", "remnant"} => dir'[r] \in {"gone", "remnant"}
         /\ dir[r] = "archived" => dir'[r] = "archived" \/ RenameRun(r)
<1> USE DEF Typed, TypeOK, Idle, runs, evidence
<1>1. CASE UNCHANGED dir
  BY <1>1
<1>2. CASE UNCHANGED vars
  BY <1>2 DEF vars
<1>3. CASE \E q \in Run : BeginRun(q) \/ WriteSnapshot(q) \/ Prepared(q)
  BY <1>3 DEF BeginRun, WriteSnapshot, Prepared
<1>4. CASE \E q \in Run, exempt \in BOOLEAN : ArchiveRun(q, exempt)
  BY <1>4 DEF ArchiveRun
<1>5. CASE \E q \in Run : RenameRun(q)
  <2>1. PICK q \in Run : RenameRun(q)
    BY <1>5
  <2>2. dir'[q] = "gone" /\ \A s \in Run \ {q} : dir'[s] = dir[s]
    BY <2>1 DEF RenameRun
  <2>3. QED
    BY <2>1, <2>2
<1>6. CASE Write
  BY <1>6, WritersApart
<1>7. CASE \E q \in Run, b \in Blob : WriteBlob(q, b)
  BY <1>1, <1>7 DEF WriteBlob
<1>8. CASE \E repo \in Repo, cutoff \in 1..clock : PlanGC(repo, cutoff)
  BY <1>1, <1>8 DEF PlanGC
<1>9. CASE \E p \in plans : ExecuteGC(p) \/ RepeatGC(p)
  BY <1>1, <1>9 DEF ExecuteGC, RepeatGC
<1>10. CASE StartBlobs \/ RecordExecution \/ EmptyTrash \/ Kill \/ \E q \in Run : FailRename(q)
  BY <1>1, <1>10 DEF StartBlobs, RecordExecution, EmptyTrash, Kill, FailRename
<1>11. CASE \E b \in Blob : RemoveBlob(b)
  BY <1>1, <1>11 DEF RemoveBlob
<1>12. QED
  BY <1>2, <1>3, <1>4, <1>5, <1>6, <1>7, <1>8, <1>9, <1>10, <1>11 DEF Next, Begin, Collect

(* An execution is recorded only when all runs of its plan are gone, and   *)
(* they stay so.                                                           *)
THEOREM ExecutionIsComplete == Spec => []ExecutedIsGone
<1>1. Init => CollectionTyped /\ ExecutedIsGone
  BY DEF Init, CollectionTyped, Typed, TypeOK, PlanHeld, Dir, Unarchived, Idle, Step,
         Renaming, Removing, ExecutedIsGone
<1>2. CollectionTyped /\ ExecutedIsGone /\ [Next]_vars => ExecutedIsGone'
  <2> SUFFICES ASSUME CollectionTyped, ExecutedIsGone, [Next]_vars,
                      NEW p \in done', NEW r \in p.runs
               PROVE  dir'[r] \in {"gone", "remnant"}
    BY DEF ExecutedIsGone
  <2>1. p \in done \/ (RecordExecution /\ p = gc.plan)
    BY DEF Next, vars, Begin, Collect, Write, BeginRun, WriteSnapshot, Prepared, WriteBlob,
           ArchiveRun, PlanGC, ExecuteGC, RepeatGC, RenameRun, FailRename, StartBlobs,
           RemoveBlob, RecordExecution, EmptyTrash, Kill, OpenRun, RefuseArtifact,
           WriteArtifact, WriteLate, Resurrect
  <2>2. dir[r] \in {"gone", "remnant"}
    BY <2>1 DEF ExecutedIsGone, RecordExecution, CollectionTyped, Removing
  <2>3. p \in Plan
    BY <2>1 DEF RecordExecution, CollectionTyped, Removing, Typed, TypeOK
  <2>4. QED
    BY <2>2, <2>3, DirStep DEF CollectionTyped, Plan
<1>3. Spec => [](CollectionTyped /\ ExecutedIsGone)
  BY <1>1, <1>2, TypedStep, RenamingStep, RemovingStep, PTL DEF Spec, CollectionTyped
<1>4. QED
  BY <1>3, PTL

(* A run leaves runs/ only as an eligible run of a plan. *)
THEOREM EligibleLeave == Spec => OnlyEligibleLeave
<1>1. CollectionTyped /\ [Next]_vars =>
        [\A r \in Run : dir[r] = "archived" /\ dir'[r] # "archived" =>
           /\ ~archive[r].exempt
           /\ r \in public => r \in damaged
           /\ \E p \in plans : r \in p.runs /\ archive[r].at <= p.cutoff]_vars
  <2> SUFFICES ASSUME CollectionTyped, [Next]_vars, NEW r \in Run,
                      dir[r] = "archived", dir'[r] # "archived"
               PROVE  /\ ~archive[r].exempt
                      /\ r \in public => r \in damaged
                      /\ \E p \in plans : r \in p.runs /\ archive[r].at <= p.cutoff
    OBVIOUS
  <2>1. RenameRun(r)
    BY DirStep DEF CollectionTyped
  <2>2. gc.step = "rename" /\ r \in gc.run
    BY <2>1 DEF RenameRun
  <2>3. QED
    BY <2>2 DEF CollectionTyped, Renaming
<1>2. Init => CollectionTyped
  BY DEF Init, CollectionTyped, Typed, TypeOK, PlanHeld, Dir, Unarchived, Idle, Step,
         Renaming, Removing
<1>3. QED
  BY <1>1, <1>2, TypedStep, RenamingStep, RemovingStep, PTL
     DEF Spec, CollectionTyped, OnlyEligibleLeave

-------------------------------------------------------------------------------
(* Who keeps a blob: the runs in place, and those in the trash of a plan    *)
(* whose execution is not recorded yet.                                     *)
Holding == Present \cup {r \in Run : trash[r] \notin done \cup {NoPlan}}

(* The trash of a plan has runs of the plan.  A collection under way is not *)
(* recorded, and what is only of its runs it is going to remove, or has; one*)
(* that empties the trash is recorded.                                      *)
OnItsWay ==
  /\ \A r \in Run : trash[r] # NoPlan => r \in trash[r].runs
  /\ gc.step \in {"rename", "blobs"} =>
       /\ gc.plan \notin done
       /\ RefsOf(gc.plan.runs) \ RefsOf(Present \ gc.plan.runs) \subseteq gc.plan.blobs
  /\ gc.step = "blobs" => blobs \cap gc.plan.blobs \subseteq gc.todo
  /\ gc.step = "purge" => gc.plan \in done

KeptBlobs == blobs \subseteq RefsOf(Holding) /\ OnItsWay

LEMMA MoreRefs ==
  ASSUME NEW S \in SUBSET Run, NEW T \in SUBSET Run, S \subseteq T
  PROVE  RefsOf(S) \subseteq RefsOf(T)
BY DEF RefsOf

(* A step that only brings runs keeps their blobs.                          *)
LEMMA QuietStep ==
  ASSUME CollectionTyped, KeptBlobs, UNCHANGED <<trash, done, blobs>>,
         Present \subseteq Present', Present' \subseteq Run,
         gc' = gc \/ gc'.step \in {"none", "begin"}
  PROVE  KeptBlobs'
<1>1. Holding \subseteq Holding' /\ Holding \in SUBSET Run /\ Holding' \in SUBSET Run
  BY DEF Holding
<1>2. RefsOf(Holding) \subseteq RefsOf(Holding')
  BY <1>1, MoreRefs
<1>3. RefsOf(Present \ gc.plan.runs) \subseteq RefsOf(Present' \ gc.plan.runs)
  BY MoreRefs
<1>4. (blobs \subseteq RefsOf(Holding))'
  <2>1. RefsOf(Holding)' = RefsOf(Holding')
    BY DEF RefsOf
  <2>2. QED
    BY <1>2, <2>1 DEF KeptBlobs
<1>5. OnItsWay'
  <2>1. CASE gc' = gc
    <3>1. RefsOf(Present \ gc.plan.runs)' = RefsOf(Present' \ gc.plan.runs)
          /\ RefsOf(gc.plan.runs)' = RefsOf(gc.plan.runs)
      BY <2>1 DEF RefsOf
    <3>2. QED
      BY <1>3, <2>1, <3>1 DEF KeptBlobs, OnItsWay
  <2>2. CASE gc'.step \in {"none", "begin"}
    BY <2>2 DEF KeptBlobs, OnItsWay
  <2>3. QED
    BY <2>1, <2>2
<1>6. QED
  BY <1>4, <1>5 DEF KeptBlobs

(* A collection goes on, is recorded, or empties the trash.                 *)
LEMMA CollectionStep ==
  ASSUME CollectionTyped, KeptBlobs,
         \/ \E p \in plans : ExecuteGC(p) \/ RepeatGC(p)
         \/ \E r \in Run : RenameRun(r)
         \/ StartBlobs \/ RecordExecution \/ EmptyTrash
         \/ \E b \in Blob : RemoveBlob(b)
  PROVE  KeptBlobs'
<1> USE DEF CollectionTyped, Typed, TypeOK, PlanHeld, Idle, runs, evidence
<1>1. /\ Present \in SUBSET Run /\ Holding \in SUBSET Run
      /\ gc.plan \in plans => gc.plan \in Plan /\ gc.plan.runs \in SUBSET Run
                              /\ gc.plan # NoPlan
  BY NoTrash DEF Present, Holding, Plan
<1>2. ASSUME NEW p \in plans, ExecuteGC(p) PROVE KeptBlobs'
  <2>1. /\ gc' = [step |-> "rename", run |-> p.runs, plan |-> p, todo |-> {}]
        /\ p \notin done /\ UNCHANGED <<dir, trash, done, blobs>>
        /\ RefsOf(p.runs) \ RefsOf(Present \ p.runs) = p.blobs
    BY <1>2 DEF ExecuteGC, SameBlobs, Unreferenced
  <2>2. Present' = Present /\ Holding' = Holding
    BY <2>1 DEF Present, Holding
  <2>3. QED
    BY <2>1, <2>2 DEF KeptBlobs, OnItsWay, RefsOf
<1>3. ASSUME NEW p \in plans, RepeatGC(p) PROVE KeptBlobs'
  <2>1. /\ gc'.step = "purge" /\ gc'.plan = p /\ p \in done
        /\ UNCHANGED <<dir, trash, done, blobs>>
    BY <1>3 DEF RepeatGC
  <2>2. Present' = Present /\ Holding' = Holding
    BY <2>1 DEF Present, Holding
  <2>3. QED
    BY <2>1, <2>2 DEF KeptBlobs, OnItsWay, RefsOf
<1>4. ASSUME NEW r \in Run, RenameRun(r) PROVE KeptBlobs'
  <2>1. /\ gc.step = "rename" /\ r \in gc.run /\ gc.plan \in plans /\ r \in gc.plan.runs
        /\ gc'.step = "rename" /\ gc'.plan = gc.plan /\ done' = done /\ blobs' = blobs
        /\ gc.plan \notin done
    BY <1>4 DEF RenameRun, Renaming, KeptBlobs, OnItsWay
  <2>2. /\ trash' \in [Run -> Plan \cup {NoPlan}] /\ dir' \in [Run -> Dir]
        /\ \A q \in Run \ {r} : trash'[q] = trash[q] /\ dir'[q] = dir[q]
        /\ \/ trash'[r] = gc.plan
           \/ trash'[r] = trash[r] /\ dir'[r] = dir[r]
    BY <1>1, <1>4, <2>1 DEF RenameRun, Dir
  <2>3. Present' \subseteq Run /\ Present \ gc.plan.runs = Present' \ gc.plan.runs
    BY <2>1, <2>2 DEF Present
  <2>4. Holding \subseteq Holding' /\ Holding' \in SUBSET Run
    BY <1>1, <2>1, <2>2 DEF Holding, Present
  <2>5. RefsOf(Holding) \subseteq RefsOf(Holding')
    BY <1>1, <2>4, MoreRefs
  <2>6. \A q \in Run : trash'[q] # NoPlan => q \in trash'[q].runs
    BY <2>1, <2>2 DEF KeptBlobs, OnItsWay
  <2>7. QED
    BY <2>1, <2>3, <2>5, <2>6 DEF KeptBlobs, OnItsWay, RefsOf
<1>5. CASE StartBlobs
  <2>1. /\ gc.step = "rename" /\ gc'.step = "blobs" /\ gc'.plan = gc.plan
        /\ gc'.todo = gc.plan.blobs /\ UNCHANGED <<dir, trash, done, blobs>>
    BY <1>5 DEF StartBlobs
  <2>2. Present' = Present /\ Holding' = Holding
    BY <2>1 DEF Present, Holding
  <2>3. QED
    BY <2>1, <2>2 DEF KeptBlobs, OnItsWay, RefsOf
<1>6. ASSUME NEW b \in Blob, RemoveBlob(b) PROVE KeptBlobs'
  <2>1. /\ gc.step = "blobs" /\ gc'.step = "blobs" /\ gc'.plan = gc.plan
        /\ gc'.todo = gc.todo \ {b} /\ blobs' = blobs \ {b} /\ UNCHANGED <<dir, trash, done>>
    BY <1>6 DEF RemoveBlob
  <2>2. Present' = Present /\ Holding' = Holding
    BY <2>1 DEF Present, Holding
  <2>3. QED
    BY <2>1, <2>2 DEF KeptBlobs, OnItsWay, RefsOf
<1>7. CASE RecordExecution
  <2>1. /\ gc.step = "blobs" /\ gc.todo = {} /\ gc'.step = "purge" /\ gc'.plan = gc.plan
        /\ done' = done \cup {gc.plan} /\ UNCHANGED <<dir, trash, blobs>>
    BY <1>7 DEF RecordExecution, Removed
  <2>2. Present' = Present /\ Present \subseteq Holding' /\ Holding' \in SUBSET Run
    BY <2>1 DEF Present, Holding
  <2>3. ASSUME NEW b \in blobs PROVE b \in RefsOf(Holding')
    <3>1. PICK h \in Holding : b \in Refs[h]
      BY DEF KeptBlobs, RefsOf
    <3>2. CASE h \in Holding'
      BY <2>2, <3>1, <3>2 DEF RefsOf
    <3>3. CASE h \notin Holding'
      <4>1. trash[h] = gc.plan /\ h \in gc.plan.runs
        <5>1. h \in Run /\ trash[h] \notin done \cup {NoPlan} /\ trash[h] \in done'
          BY <1>1, <2>1, <2>2, <3>3 DEF Holding
        <5>2. QED
          BY <2>1, <5>1 DEF KeptBlobs, OnItsWay
      <4>2. b \in RefsOf(gc.plan.runs) /\ b \notin gc.plan.blobs
        BY <2>1, <3>1, <4>1 DEF RefsOf, KeptBlobs, OnItsWay
      <4>3. b \in RefsOf(Present \ gc.plan.runs)
        BY <2>1, <4>2 DEF KeptBlobs, OnItsWay
      <4>4. RefsOf(Present \ gc.plan.runs) \subseteq RefsOf(Holding')
        BY <1>1, <2>2, MoreRefs
      <4>5. QED
        BY <4>3, <4>4
    <3>4. QED
      BY <3>2, <3>3
  <2>4. QED
    BY <2>1, <2>3 DEF KeptBlobs, OnItsWay, RefsOf
<1>8. CASE EmptyTrash
  <2>1. /\ gc.step = "purge" /\ gc.plan \in done /\ gc'.step = "none"
        /\ trash' = [r \in Run |-> IF trash[r] = gc.plan THEN NoPlan ELSE trash[r]]
        /\ UNCHANGED <<dir, done, blobs>>
    BY <1>8 DEF EmptyTrash, KeptBlobs, OnItsWay
  <2>2. Present' = Present /\ Holding' = Holding
    BY <2>1 DEF Present, Holding
  <2>3. QED
    BY <2>1, <2>2 DEF KeptBlobs, OnItsWay, RefsOf
<1>9. QED
  BY <1>2, <1>3, <1>4, <1>5, <1>6, <1>7, <1>8

LEMMA KeptStep == CollectionTyped /\ KeptBlobs /\ [Next]_vars => KeptBlobs'
<1> SUFFICES ASSUME CollectionTyped, KeptBlobs, [Next]_vars PROVE KeptBlobs'
  OBVIOUS
<1> USE DEF CollectionTyped, Typed, TypeOK, Idle, runs, evidence
<1>1. CASE UNCHANGED vars
  BY <1>1, QuietStep DEF vars, Present
<1>2. ASSUME NEW r \in Run, BeginRun(r) \/ WriteSnapshot(r) \/ Prepared(r) PROVE KeptBlobs'
  <2>1. UNCHANGED <<trash, done, blobs>> /\ (gc' = gc \/ gc'.step \in {"none", "begin"})
    <3>1. CASE BeginRun(r)
      <4>1. gc' = [step |-> "begin", run |-> {r}, plan |-> NoPlan, todo |-> {}]
        BY <3>1 DEF BeginRun
      <4>2. QED
        BY <3>1, <4>1 DEF BeginRun
    <3>2. CASE WriteSnapshot(r)
      BY <3>2 DEF WriteSnapshot
    <3>3. CASE Prepared(r)
      BY <3>3 DEF Prepared
    <3>4. QED
      BY <1>2, <3>1, <3>2, <3>3
  <2>2. PICK d \in {"started", "sealed", "prepared"} : dir' = [dir EXCEPT ![r] = d]
    BY <1>2 DEF BeginRun, WriteSnapshot, Prepared
  <2>3. Present \subseteq Present' /\ Present' \subseteq Run
    BY <2>2 DEF Present
  <2>4. QED
    BY <2>1, <2>3, QuietStep
<1>3. CASE \E r \in Run, exempt \in BOOLEAN : ArchiveRun(r, exempt)
  <2>1. /\ UNCHANGED <<trash, done, blobs, gc>>
        /\ Present \subseteq Present' /\ Present' \subseteq Run
    BY <1>3 DEF ArchiveRun, Present
  <2>2. QED
    BY <2>1, QuietStep
<1>4. CASE \E repo \in Repo, cutoff \in 1..clock : PlanGC(repo, cutoff)
  <2>1. UNCHANGED <<dir, trash, done, blobs, gc>>
    BY <1>4 DEF PlanGC
  <2>2. QED
    BY <2>1, QuietStep DEF Present
<1>5. CASE Kill \/ \E r \in Run : FailRename(r)
  <2>1. UNCHANGED <<dir, trash, done, blobs>> /\ gc'.step = "none"
    BY <1>5 DEF Kill, FailRename
  <2>2. QED
    BY <2>1, QuietStep DEF Present
<1>6. CASE Write
  <2>1. /\ UNCHANGED <<trash, done, blobs, gc>>
        /\ Present \subseteq Present' /\ Present' \subseteq Run
    BY <1>6, WritersApart DEF Present
  <2>2. QED
    BY <2>1, QuietStep
<1>7. ASSUME NEW r \in Run, NEW b \in Blob, WriteBlob(r, b) PROVE KeptBlobs'
  <2>1. /\ UNCHANGED <<dir, trash, done, gc>> /\ blobs' = blobs \cup {b} /\ b \in Refs[r]
        /\ r \in Present /\ gc.step = "begin"
    BY <1>7 DEF WriteBlob, Present
  <2>2. Holding' = Holding /\ r \in Holding
    BY <2>1 DEF Holding, Present
  <2>3. QED
    BY <2>1, <2>2 DEF KeptBlobs, OnItsWay, RefsOf
<1>8. CASE \/ \E p \in plans : ExecuteGC(p) \/ RepeatGC(p)
           \/ \E r \in Run : RenameRun(r)
           \/ StartBlobs \/ RecordExecution \/ EmptyTrash
           \/ \E b \in Blob : RemoveBlob(b)
  BY <1>8, CollectionStep
<1> HIDE DEF CollectionTyped, Typed, TypeOK, Idle, runs, evidence
<1>9. QED
  BY <1>1, <1>2, <1>3, <1>4, <1>5, <1>6, <1>7, <1>8 DEF Next, Begin, Collect

(* No blob is left behind that no run in place or in the trash refers to,   *)
(* whichever collections were killed, repeated or overtaken: a plan's       *)
(* execution is recorded when what was only its runs' is removed.           *)
THEOREM BlobsHaveRuns == Spec => []NoOrphanBlobs
<1>1. Init => CollectionTyped /\ KeptBlobs
  BY DEF Init, CollectionTyped, Typed, TypeOK, PlanHeld, Dir, Unarchived, Idle, Step,
         Renaming, Removing, KeptBlobs, OnItsWay
<1>2. Spec => [](CollectionTyped /\ KeptBlobs)
  BY <1>1, KeptStep, TypedStep, RenamingStep, RemovingStep, PTL DEF Spec, CollectionTyped
<1>3. CollectionTyped /\ KeptBlobs => NoOrphanBlobs
  BY DEF KeptBlobs, NoOrphanBlobs, Holding, RefsOf
<1>4. QED
  BY <1>2, <1>3, PTL

-------------------------------------------------------------------------------
(* Collections, and all other commands, keep apart by lock files (RunLock). *)
(*                                                                          *)
(* Until a takeover misfires, the file is its holder's (Exclusive); and     *)
(* when no more than two commands ever meet on the lock, a takeover cannot  *)
(* hurt and the file implements RunMutex (TwoImplementMutex).               *)

(* Every variable keeps its type, and a judging process remembers what it  *)
(* judges.                                                                 *)
THEOREM LockTyping == LockSpec => []LockTypeOK
<1>1. LockInit => LockTypeOK
  <2> SUFFICES ASSUME LockInit PROVE LockTypeOK
    OBVIOUS
  <2> USE DEF LockInit
  <2>1. \A p \in Proc : pc[p] = "idle"
    OBVIOUS
  <2>2. \A p \in Proc : pc[p] \in {"judging", "removing"} => seen[p] # NoFile
    BY <2>1
  <2>3. file \in Meta \cup {NoFile} /\ seen \in [Proc -> Meta \cup {NoFile}]
    OBVIOUS
  <2>4. QED
    BY <2>2, <2>3 DEF LockTypeOK
<1>2. LockTypeOK /\ [LockNext]_lockVars => LockTypeOK'
  <2> SUFFICES ASSUME LockTypeOK, [LockNext]_lockVars PROVE LockTypeOK'
    OBVIOUS
  <2> USE LockConstants DEF LockTypeOK, Meta, Goto
  <2>1. CASE UNCHANGED lockVars
    BY <2>1 DEF lockVars
  <2>2. ASSUME NEW p \in Proc, Attempt(p) PROVE LockTypeOK'
    BY <2>2 DEF Attempt
  <2>3. ASSUME NEW p \in Proc, Acquiring(p) PROVE LockTypeOK'
    <3>1. CASE Create(p)
      BY <3>1 DEF Create
    <3>2. CASE Exists(p)
      BY <3>2 DEF Exists
    <3>3. CASE WriteMetadata(p)
      BY <3>3 DEF WriteMetadata, Mine
    <3>4. CASE FailMetadata(p)
      BY <3>4 DEF FailMetadata
    <3>5. CASE RefuseUnknown(p)
      BY <3>5 DEF RefuseUnknown
    <3>6. CASE ReadMetadata(p)
      BY <3>6 DEF ReadMetadata, Readable
    <3>7. CASE RefuseLive(p)
      BY <3>7 DEF RefuseLive
    <3>8. CASE JudgeDead(p)
      BY <3>8 DEF JudgeDead
    <3>9. CASE RemoveStale(p)
      BY <3>9 DEF RemoveStale
    <3>10. QED
      BY <2>3, <3>1, <3>2, <3>3, <3>4, <3>5, <3>6, <3>7, <3>8, <3>9
         DEF Acquiring
  <2>4. ASSUME NEW p \in Proc, Releasing(p) PROVE LockTypeOK'
    BY <2>4 DEF Releasing, ReleaseOwned, ReleaseForeign, RemoveOwned
  <2>5. ASSUME NEW p \in Proc, Exit(p) PROVE LockTypeOK'
    BY <2>5 DEF Exit
  <2>6. ASSUME NEW p \in Proc, KillContender(p) PROVE LockTypeOK'
    BY <2>6 DEF KillContender
  <2>7. QED
    BY <2>1, <2>2, <2>3, <2>4, <2>5, <2>6 DEF LockNext
<1>3. QED
  BY <1>1, <1>2, PTL DEF LockSpec

-------------------------------------------------------------------------------
(* A process only ever removes a lock whose recorded holder is gone: nobody *)
(* comes back from "gone", and what was judged is kept until it is removed. *)
THEOREM JudgementStands == LockSpec => []JudgedIsGone
<1>1. LockInit => JudgedIsGone
  BY DEF LockInit, JudgedIsGone
<1>2. LockTypeOK /\ JudgedIsGone /\ [LockNext]_lockVars => JudgedIsGone'
  <2> SUFFICES ASSUME LockTypeOK, JudgedIsGone, [LockNext]_lockVars,
                      NEW q \in Proc, pc'[q] = "removing"
               PROVE  pc'[seen'[q].pid] = "gone"
    BY DEF JudgedIsGone, Alive
  <2> USE DEF LockTypeOK, JudgedIsGone, Alive, Goto, Meta
  <2>1. CASE UNCHANGED lockVars
    BY <2>1 DEF lockVars
  <2>2. ASSUME NEW p \in Proc,
               Attempt(p) \/ Acquiring(p) \/ Releasing(p) \/ Exit(p) \/ KillContender(p)
        PROVE  pc'[seen'[q].pid] = "gone"
    <3>1. CASE p = q
      <4>1. JudgeDead(q)
        BY <2>2, <3>1
           DEF Attempt, Acquiring, Create, Exists, WriteMetadata, FailMetadata,
               RefuseUnknown, ReadMetadata, RefuseLive, RemoveStale, Releasing,
               ReleaseOwned, ReleaseForeign, RemoveOwned, Exit, KillContender
      <4>2. QED
        BY <4>1 DEF JudgeDead
    <3>2. CASE p # q
      <4>1. pc[q] = "removing" /\ seen'[q] = seen[q]
        BY <2>2, <3>2
           DEF Attempt, Acquiring, Create, Exists, WriteMetadata, FailMetadata,
               RefuseUnknown, ReadMetadata, RefuseLive, JudgeDead, RemoveStale,
               Releasing, ReleaseOwned, ReleaseForeign, RemoveOwned, Exit, KillContender
      <4>2. seen[q].pid \in Proc /\ pc[seen[q].pid] = "gone"
        BY <4>1
      <4>3. \A r \in Proc : pc[r] = "gone" => pc'[r] = "gone"
        BY <2>2
           DEF Attempt, Acquiring, Create, Exists, WriteMetadata, FailMetadata,
               RefuseUnknown, ReadMetadata, RefuseLive, JudgeDead, RemoveStale,
               Releasing, ReleaseOwned, ReleaseForeign, RemoveOwned, Exit, KillContender
      <4>4. QED
        BY <4>1, <4>2, <4>3
    <3>3. QED
      BY <3>1, <3>2
  <2>3. QED
    BY <2>1, <2>2 DEF LockNext
<1>3. QED
  BY <1>1, <1>2, LockTyping, PTL DEF LockSpec

(* A takeover that has misfired has misfired for good. *)
LEMMA MisfireStays == LockTypeOK /\ [LockNext]_lockVars => (misfired => misfired')
BY DEF LockTypeOK, LockNext, lockVars, Acquiring, Releasing, Attempt, Create, Exists, WriteMetadata,
   FailMetadata, RefuseUnknown, ReadMetadata, RefuseLive, JudgeDead, RemoveStale,
   ReleaseOwned, ReleaseForeign, RemoveOwned, Exit, KillContender

(* While no takeover has misfired, whoever created or holds the lock finds  *)
(* its own token in the file.                                              *)
THEOREM HolderKeepsFile == LockSpec => []HolderOwnsFile
<1>1. LockInit => HolderOwnsFile
  BY DEF LockInit, HolderOwnsFile, Owning, Held
<1>2. LockTypeOK /\ JudgedIsGone /\ HolderOwnsFile /\ [LockNext]_lockVars => HolderOwnsFile'
  <2> SUFFICES ASSUME LockTypeOK, JudgedIsGone, HolderOwnsFile, [LockNext]_lockVars,
                      ~misfired', NEW q \in Proc, pc'[q] \in Owning
               PROVE  (Mine(q) /\ (Readable <=> pc[q] \in Held))'
    BY DEF HolderOwnsFile
  <2> USE LockConstants DEF LockTypeOK, Meta, Goto, Owning, Held, Mine, Readable
  <2>1. CASE UNCHANGED lockVars
    BY <2>1 DEF lockVars, HolderOwnsFile
  <2>2. ~misfired
    BY MisfireStays
  <2>3. \A r \in Proc : pc[r] \in Owning =>
          Mine(r) /\ (Readable <=> pc[r] \in Held)
    BY <2>2 DEF HolderOwnsFile
  <2>4. ASSUME NEW p \in Proc, RemoveStale(p)
        PROVE  (Mine(q) /\ (Readable <=> pc[q] \in Held))'
    <3>1. pc[q] \in Owning /\ p # q
      BY <2>4 DEF RemoveStale
    <3>2. file # NoFile /\ file.pid = q /\ pc[q] # "gone"
      BY <2>3, <3>1
    <3>3. file = seen[p]
      BY <2>4, <3>2 DEF RemoveStale
    <3>4. pc[seen[p].pid] = "gone"
      BY <2>4 DEF RemoveStale, JudgedIsGone, Alive
    <3>5. QED
      BY <3>2, <3>3, <3>4
  <2>5. ASSUME NEW p \in Proc,
               FailMetadata(p) \/ RemoveOwned(p)
        PROVE  (Mine(q) /\ (Readable <=> pc[q] \in Held))'
    <3>1. p # q /\ pc[q] \in Owning /\ pc[p] \in Owning
      BY <2>5 DEF FailMetadata, RemoveOwned
    <3>2. file.pid = p /\ file.pid = q
      BY <2>3, <3>1
    <3>3. QED
      BY <3>1, <3>2
  <2>6. ASSUME NEW p \in Proc, Create(p)
        PROVE  (Mine(q) /\ (Readable <=> pc[q] \in Held))'
    <3>1. pc[q] \notin Owning
      BY <2>3, <2>6 DEF Create
    <3>2. p = q
      BY <2>6, <3>1 DEF Create
    <3>3. file' \in Meta
      BY <2>6 DEF Create
    <3>4. QED
      BY <2>6, <3>2, <3>3 DEF Create
  <2>7. ASSUME NEW p \in Proc, WriteMetadata(p)
        PROVE  (Mine(q) /\ (Readable <=> pc[q] \in Held))'
    <3>1. Mine(p) /\ file' = [file EXCEPT !.written = TRUE]
      BY <2>3, <2>7 DEF WriteMetadata
    <3>2. pc[q] \in Owning
      BY <2>7 DEF WriteMetadata
    <3>3. p = q
      BY <2>3, <3>1, <3>2
    <3>4. QED
      BY <2>7, <3>1, <3>3 DEF WriteMetadata
  <2>8. ASSUME NEW p \in Proc, Attempt(p)
        PROVE  (Mine(q) /\ (Readable <=> pc[q] \in Held))'
    <3>1. p # q /\ pc[q] \in Owning
      BY <2>8 DEF Attempt
    <3>2. QED
      BY <2>3, <2>8, <3>1 DEF Attempt
  <2>9. ASSUME NEW p \in Proc,
               \/ Exists(p) \/ RefuseUnknown(p) \/ ReadMetadata(p)
               \/ RefuseLive(p) \/ JudgeDead(p) \/ ReleaseOwned(p)
               \/ ReleaseForeign(p) \/ Exit(p) \/ KillContender(p)
        PROVE  (Mine(q) /\ (Readable <=> pc[q] \in Held))'
    <3>1. file' = file /\ attempt' = attempt
      BY <2>9 DEF Exists, RefuseUnknown, ReadMetadata, RefuseLive, JudgeDead,
                  ReleaseOwned, ReleaseForeign, Exit, KillContender
    <3>2. pc[q] \in Owning /\ (pc'[q] \in Held <=> pc[q] \in Held)
      BY <2>9 DEF Exists, RefuseUnknown, ReadMetadata, RefuseLive, JudgeDead,
                  ReleaseOwned, ReleaseForeign, Exit, KillContender
    <3>3. QED
      BY <2>3, <3>1, <3>2
  <2>10. QED
    BY <2>1, <2>4, <2>5, <2>6, <2>7, <2>8, <2>9 DEF LockNext, Acquiring, Releasing
<1>3. QED
  BY <1>1, <1>2, LockTyping, JudgementStands, PTL DEF LockSpec

(* Until a takeover misfires, at most one process holds the lock, whatever *)
(* the number of commands, exits and killed.                                *)
THEOREM ExclusionUntilMisfire == LockSpec => [](~misfired => MutualExclusion)
<1>1. LockTypeOK /\ HolderOwnsFile => (~misfired => MutualExclusion)
  BY DEF HolderOwnsFile, MutualExclusion, Owning, Mine
<1>2. QED
  BY <1>1, LockTyping, HolderKeepsFile, PTL

(* Under mutual exclusion the refinement mapping names the one holder.     *)
HolderNamed ==
  /\ \A p \in Proc : holder = p <=> pc[p] \in Held
  /\ holder = NoOne <=> \A p \in Proc : pc[p] \notin Held

(* With one holder at most, the abstract holder is that process. *)
LEMMA HolderIs == MutualExclusion => HolderNamed
<1> SUFFICES ASSUME MutualExclusion PROVE HolderNamed
  OBVIOUS
<1>1. CASE \E p \in Proc : pc[p] \in Held
  <2>1. holder \in Proc /\ pc[holder] \in Held
    BY <1>1 DEF holder
  <2>2. QED
    BY <2>1, LockConstants DEF MutualExclusion, HolderNamed
<1>2. CASE ~\E p \in Proc : pc[p] \in Held
  BY <1>2, LockConstants DEF holder, HolderNamed
<1>3. QED
  BY <1>1, <1>2

(* One step of a lock moves one process.                                   *)
LEMMA OneMoves ==
  ASSUME LockTypeOK, [LockNext]_lockVars
  PROVE  \/ pc' = pc
         \/ \E p \in Proc : \A q \in Proc \ {p} : pc'[q] = pc[q]
<1> USE DEF LockTypeOK, Goto
<1>1. CASE UNCHANGED lockVars
  BY <1>1 DEF lockVars
<1>2. ASSUME NEW p \in Proc,
             Attempt(p) \/ Acquiring(p) \/ Releasing(p) \/ Exit(p) \/ KillContender(p)
      PROVE  \A q \in Proc \ {p} : pc'[q] = pc[q]
  BY <1>2 DEF Attempt, Acquiring, Create, Exists, WriteMetadata, FailMetadata,
     RefuseUnknown, ReadMetadata, RefuseLive, JudgeDead, RemoveStale,
     Releasing, ReleaseOwned, ReleaseForeign, RemoveOwned, Exit, KillContender
<1>3. QED
  BY <1>1, <1>2 DEF LockNext

(* A step with at most one holder before and after it grants the lock,     *)
(* yields it or leaves it.                                                 *)
LEMMA HolderMoves ==
  LockTypeOK /\ MutualExclusion /\ MutualExclusion' /\ [LockNext]_lockVars => [Mutex!Next]_holder
<1> SUFFICES ASSUME LockTypeOK, MutualExclusion, MutualExclusion', [LockNext]_lockVars
             PROVE  [Mutex!Next]_holder
  OBVIOUS
<1>0. (MutualExclusion => HolderNamed)'
  BY HolderIs, PTL
<1>1. CASE \A q \in Proc : pc'[q] = pc[q]
  <2>1. \A q \in Proc : pc'[q] \in Held <=> pc[q] \in Held
    BY <1>1
  <2>2. holder' = holder
    BY <2>1 DEF holder
  <2>3. QED
    BY <2>2
<1>2. ASSUME NEW p \in Proc, \A q \in Proc \ {p} : pc'[q] = pc[q]
      PROVE  [Mutex!Next]_holder
  <2>1. HolderNamed
    BY HolderIs
  <2>2. HolderNamed'
    BY <1>0
  <2>3. CASE pc[p] \notin Held /\ pc'[p] \in Held
    <3>1. holder' = p
      BY <2>2, <2>3 DEF HolderNamed
    <3>2. \A q \in Proc : pc[q] \notin Held
      BY <1>2, <2>3 DEF MutualExclusion
    <3>3. holder = NoOne
      BY <2>1, <3>2 DEF HolderNamed
    <3>4. QED
      BY <3>1, <3>3 DEF Mutex!Next, Mutex!Grant
  <2>4. CASE pc[p] \in Held /\ pc'[p] \notin Held
    <3>1. holder = p
      BY <2>1, <2>4 DEF HolderNamed
    <3>2. \A q \in Proc : pc'[q] \notin Held
      BY <1>2, <2>4 DEF MutualExclusion
    <3>3. holder' = NoOne
      BY <2>2, <3>2 DEF HolderNamed
    <3>4. QED
      BY <3>1, <3>3 DEF Mutex!Next, Mutex!Yield
  <2>5. CASE pc[p] \in Held <=> pc'[p] \in Held
    <3>1. \A q \in Proc : pc'[q] \in Held <=> pc[q] \in Held
      BY <1>2, <2>5
    <3>2. holder' = holder
      BY <3>1 DEF holder
    <3>3. QED
      BY <3>2
  <2>6. QED
    BY <2>3, <2>4, <2>5
<1>3. QED
  BY <1>1, <1>2, OneMoves

(* However many commands contend, their lock is a RunMutex until a         *)
(* takeover misfires.                                                      *)
THEOREM MutexHoldsUntilMisfire == LockSpec => MutexUntilMisfire
<1>1. LockInit => Mutex!Init
  BY DEF LockInit, Mutex!Init, holder, Held
<1>2. LockTypeOK /\ (~misfired => MutualExclusion) /\ (~misfired => MutualExclusion)' /\ [LockNext]_lockVars
        => [misfired' \/ Mutex!Next]_holder
  BY MisfireStays, HolderMoves
<1>3. QED
  BY <1>1, <1>2, LockTyping, ExclusionUntilMisfire, PTL
     DEF LockSpec, MutexUntilMisfire

-------------------------------------------------------------------------------
(* No three commands meet on the lock. *)
AtMostTwo == \A p, q, r \in Proc : p = q \/ q = r \/ p = r

(* With two commands a takeover may remove another file than it judged, but *)
(* only one that the same dead process left behind.  What makes that safe:  *)
(* a process in acquire never finds a file of its own, so it judges the     *)
(* other process, and there is no third one to lose its file.               *)
OwnersKeepFile ==
  \A p \in Proc : pc[p] \in Owning =>
    Mine(p) /\ (Readable <=> pc[p] \in Held)

StrangersFile ==
  \A p \in Proc : pc[p] \notin Owning \cup {"gone"} =>
    file = NoFile \/ file.pid # p

JudgesStranger ==
  \A p \in Proc : pc[p] \in {"judging", "removing"} => seen[p].pid # p

TwoInv == OwnersKeepFile /\ StrangersFile /\ JudgesStranger

(* With two processes the file is that of whoever believes to have the    *)
(* lock, and a judgement is always about the other, which is gone.         *)
LEMMA TwoInvHolds == AtMostTwo => (LockSpec => []TwoInv)
<1> SUFFICES ASSUME AtMostTwo PROVE LockSpec => []TwoInv
  OBVIOUS
<1>1. LockInit => TwoInv
  BY DEF LockInit, TwoInv, OwnersKeepFile, StrangersFile, JudgesStranger, Owning,
         Held
<1>2. LockTypeOK /\ JudgedIsGone /\ TwoInv /\ [LockNext]_lockVars => TwoInv'
  <2> SUFFICES ASSUME LockTypeOK, JudgedIsGone, TwoInv, [LockNext]_lockVars PROVE TwoInv'
    OBVIOUS
  <2> USE LockConstants
      DEF LockTypeOK, Meta, Goto, Owning, Held, Mine, Readable, TwoInv,
          OwnersKeepFile, StrangersFile, JudgesStranger
  <2>1. CASE UNCHANGED lockVars
    BY <2>1 DEF lockVars
  <2>2. ASSUME NEW p \in Proc, Attempt(p) PROVE TwoInv'
    BY <2>2 DEF Attempt
  <2>3. ASSUME NEW p \in Proc, Create(p) PROVE TwoInv'
    <3>1. \A q \in Proc : pc[q] \notin Owning
      BY <2>3 DEF Create
    <3>2. file' \in Meta /\ file'.pid = p
      BY <2>3 DEF Create
    <3>3. \A q \in Proc \ {p} : pc'[q] = pc[q]
      BY <2>3 DEF Create
    <3>4. OwnersKeepFile'
      BY <2>3, <3>1, <3>2, <3>3 DEF Create
    <3>5. StrangersFile'
      BY <2>3, <3>2, <3>3 DEF Create
    <3>6. JudgesStranger'
      BY <2>3 DEF Create
    <3>7. QED
      BY <3>4, <3>5, <3>6
  <2>4. ASSUME NEW p \in Proc,
               \/ Exists(p) \/ RefuseUnknown(p) \/ RefuseLive(p)
               \/ JudgeDead(p) \/ Exit(p) \/ KillContender(p) \/ ReleaseOwned(p)
        PROVE  TwoInv'
    BY <2>4 DEF Exists, RefuseUnknown, RefuseLive, JudgeDead, Exit, KillContender,
                ReleaseOwned
  <2>5. ASSUME NEW p \in Proc, ReadMetadata(p) PROVE TwoInv'
    BY <2>5 DEF ReadMetadata
  <2>6. ASSUME NEW p \in Proc, WriteMetadata(p) PROVE TwoInv'
    <3>1. Mine(p) /\ file' = [file EXCEPT !.written = TRUE]
      BY <2>6 DEF WriteMetadata
    <3>2. file' \in Meta /\ file'.pid = p /\ file'.token = attempt[p]
          /\ file'.written
      BY <3>1
    <3>3. \A q \in Proc \ {p} : pc'[q] = pc[q] /\ pc[q] \notin Owning
      BY <2>6, <3>1 DEF WriteMetadata
    <3>4. QED
      <4>1. OwnersKeepFile'
        BY <2>6, <3>1, <3>2, <3>3 DEF WriteMetadata, Owning
      <4>2. StrangersFile' /\ JudgesStranger'
        BY <2>6, <3>1, <3>2, <3>3 DEF WriteMetadata
      <4>3. QED
        BY <4>1, <4>2 DEF TwoInv
  <2>7. ASSUME NEW p \in Proc, FailMetadata(p) \/ RemoveOwned(p)
        PROVE  TwoInv'
    <3>1. \A q \in Proc \ {p} : pc'[q] = pc[q] /\ pc[q] \notin Owning
      BY <2>7 DEF FailMetadata, RemoveOwned
    <3>2. QED
      BY <2>7, <3>1 DEF FailMetadata, RemoveOwned
  <2>8. ASSUME NEW p \in Proc, RemoveStale(p) PROVE TwoInv'
    <3>1. seen[p].pid \in Proc /\ seen[p].pid # p /\ pc[seen[p].pid] = "gone"
      BY <2>8 DEF RemoveStale, JudgedIsGone, Alive
    <3>2. \A q \in Proc \ {p} : q = seen[p].pid
      BY <3>1 DEF AtMostTwo
    <3>3. \A q \in Proc : pc'[q] \notin Owning
      BY <2>8, <3>1, <3>2 DEF RemoveStale
    <3>4. QED
      BY <2>8, <3>3 DEF RemoveStale
  <2>9. ASSUME NEW p \in Proc, ReleaseForeign(p) PROVE TwoInv'
    BY <2>9 DEF ReleaseForeign
  <2>10. QED
    BY <2>1, <2>2, <2>3, <2>4, <2>5, <2>6, <2>7, <2>8, <2>9
       DEF LockNext, Acquiring, Releasing
<1>3. QED
  BY <1>1, <1>2, LockTyping, JudgementStands, PTL DEF LockSpec

(* Two commands never hold the lock together. *)
THEOREM TwoExclude == AtMostTwo => (LockSpec => []MutualExclusion)
<1>1. LockTypeOK /\ TwoInv => MutualExclusion
  BY DEF TwoInv, OwnersKeepFile, MutualExclusion, Owning, Mine
<1>2. QED
  BY <1>1, LockTyping, TwoInvHolds, PTL

(* Two commands see exactly a RunMutex: the lock file goes from one to the *)
(* other only by being free.                                               *)
THEOREM TwoImplementMutex == AtMostTwo => (LockSpec => ImplementsMutex)
<1> SUFFICES ASSUME AtMostTwo PROVE LockSpec => ImplementsMutex
  OBVIOUS
<1>1. LockInit => Mutex!Init
  BY DEF LockInit, Mutex!Init, holder, Held
<1>2. QED
  BY <1>1, HolderMoves, LockTyping, TwoExclude, PTL
     DEF LockSpec, ImplementsMutex, Mutex!Spec
===============================================================================
