------------------------------- MODULE Retention -------------------------------
(***************************************************************************)
(* Runs, their blobs and garbage collection (internal/store:               *)
(* BeginClassifiedRun, ArchiveRun, PlanGC, ExecuteGC).                     *)
(*                                                                         *)
(* All four hold locks/gc.lock from start to end and are refused when it   *)
(* is taken, so there is one such command at a time: the variable gc.  It  *)
(* may be killed at any step.  Beside it run commands that opened a run    *)
(* and write to it without any lock (gates run, packet, export): writers.  *)
(***************************************************************************)
EXTENDS Naturals, FiniteSets

CONSTANTS
  Run, Blob, Repo,
  RepoOf,      (* the repository of a run                                  *)
  Refs,        (* the blobs of a run's snapshot                            *)
  NoPlan,      (* a run that is in no trash                                *)
  MaxPlans,    (* bound: plans made                                        *)
  MaxWriters,  (* bound: runs with a lockless writer at one time           *)
  MaxKills     (* bound: commands killed                                   *)

ASSUME RetentionConstants ==
  /\ IsFiniteSet(Run)
  /\ RepoOf \in [Run -> Repo]
  /\ Refs \in [Run -> SUBSET Blob]
  /\ MaxPlans \in Nat /\ MaxWriters \in Nat /\ MaxKills \in Nat

VARIABLES
  dir,         (* what there is under runs/<run>                           *)
  archive,     (* archive.json of a run, wherever the run is               *)
  clock,       (* archives made: the time of the latest one                *)
  trash,       (* the plan in whose trash a run is                         *)
  blobs,       (* blobs/sha256                                             *)
  plans,       (* gc/plans                                                 *)
  done,        (* gc/executions                                            *)
  public,      (* runs with public-export evidence                         *)
  damaged,     (* archived runs written to after the archive               *)
  writers,     (* runs some lockless command has opened                    *)
  gc,          (* the command that holds gc.lock                           *)
  kills

runs == <<dir, archive, clock, trash>>
evidence == <<public, damaged, writers>>
vars == <<runs, blobs, plans, done, evidence, gc, kills>>

(* dir: nothing yet; run.json; and snapshot.json; and the first event; and *)
(* archive.json; renamed away; come back without any of them.              *)
Dir == {"unborn", "started", "sealed", "prepared", "archived", "gone", "remnant"}

Present == {r \in Run : dir[r] \notin {"unborn", "gone"}}

RefsOf(set) == UNION {Refs[r] : r \in set}

Unarchived == [at |-> 0, exempt |-> FALSE]

Step == {"none", "begin", "rename", "blobs", "record", "purge"}

Idle == [step |-> "none", run |-> {}, plan |-> NoPlan, todo |-> {}]

Init ==
  /\ dir = [r \in Run |-> "unborn"]
  /\ archive = [r \in Run |-> Unarchived]
  /\ clock = 0
  /\ trash = [r \in Run |-> NoPlan]
  /\ blobs = {}
  /\ plans = {}
  /\ done = {}
  /\ public = {}
  /\ damaged = {}
  /\ writers = {}
  /\ gc = Idle
  /\ kills = 0

-------------------------------------------------------------------------------
(* BeginClassifiedRun: run.json, snapshot.json, the blobs, the first event *)
BeginRun(r) ==
  /\ gc = Idle
  /\ dir[r] = "unborn"
  /\ dir' = [dir EXCEPT ![r] = "started"]
  /\ gc' = [Idle EXCEPT !.step = "begin", !.run = {r}]
  /\ UNCHANGED <<archive, clock, trash, blobs, plans, done, evidence, kills>>

WriteSnapshot(r) ==
  /\ gc.step = "begin" /\ r \in gc.run
  /\ dir[r] = "started"
  /\ dir' = [dir EXCEPT ![r] = "sealed"]
  /\ UNCHANGED <<archive, clock, trash, blobs, plans, done, evidence, gc, kills>>

(* writeBlob leaves a blob alone that is there. *)
WriteBlob(r, b) ==
  /\ gc.step = "begin" /\ r \in gc.run
  /\ dir[r] = "sealed"
  /\ b \in Refs[r] \ blobs
  /\ blobs' = blobs \cup {b}
  /\ UNCHANGED <<runs, plans, done, evidence, gc, kills>>

(* Mutant of Written: the run is prepared before its blobs are there. *)
WrittenUnseen(r) == TRUE

Written(r) == Refs[r] \subseteq blobs

Prepared(r) ==
  /\ gc.step = "begin" /\ r \in gc.run
  /\ dir[r] = "sealed" /\ Written(r)
  /\ dir' = [dir EXCEPT ![r] = "prepared"]
  /\ gc' = Idle
  /\ UNCHANGED <<archive, clock, trash, blobs, plans, done, evidence, kills>>

(* ArchiveRun; exempt: pinned, or not EXPORTED. *)
ArchiveRun(r, exempt) ==
  /\ gc = Idle
  /\ dir[r] = "prepared"
  /\ dir' = [dir EXCEPT ![r] = "archived"]
  /\ clock' = clock + 1
  /\ archive' = [archive EXCEPT ![r] = [at |-> clock', exempt |-> exempt]]
  /\ UNCHANGED <<trash, blobs, plans, done, evidence, gc, kills>>

-------------------------------------------------------------------------------
(* Mutant of Collectable: a pin, or a run never exported, is not looked at. *)
CollectablePinned(r, cutoff) == archive[r].at <= cutoff /\ r \notin public

(* What plan and execution both ask of an archived run. *)
Collectable(r, cutoff) ==
  ~archive[r].exempt /\ archive[r].at <= cutoff /\ r \notin public

Candidates(repo, cutoff) == 
  {r \in Run : RepoOf[r] = repo /\ dir[r] = "archived" /\ Collectable(r, cutoff)}

(* blobReferences reads the snapshot of every run of every repository. *)
ReferencesRead == \A r \in Present : dir[r] \notin {"started", "remnant"}

Unreferenced(set) == RefsOf(set) \ RefsOf(Present \ set)

PlanGC(repo, cutoff) ==
  LET candidates == Candidates(repo, cutoff)
  IN  /\ gc = Idle
      /\ candidates \cap damaged = {}
      /\ ReferencesRead
      /\ plans' = plans \cup {[repo |-> repo, cutoff |-> cutoff, runs |-> candidates,
                               blobs |-> Unreferenced(candidates)]}
      /\ Cardinality(plans') <= MaxPlans
      /\ UNCHANGED <<runs, blobs, done, evidence, gc, kills>>

-------------------------------------------------------------------------------
(* candidateLocation, and the archive record found there *)
Located(p, r) == dir[r] = "archived" \/ (dir[r] = "gone" /\ trash[r] = p)

StillEligible(p, r) ==
  Located(p, r) /\ Collectable(r, p.cutoff) /\ r \notin damaged

(* Mutant of SameBlobs: the plan's blobs are taken as they were planned. *)
SameBlobsUnread(p) == TRUE

SameBlobs(p) == Unreferenced(p.runs) = p.blobs

ExecuteGC(p) ==
  /\ gc = Idle
  /\ p \in plans \ done
  /\ \A r \in p.runs : StillEligible(p, r)
  /\ ReferencesRead
  /\ SameBlobs(p)
  /\ gc' = [Idle EXCEPT !.step = "rename", !.plan = p, !.run = p.runs]
  /\ UNCHANGED <<runs, blobs, plans, done, evidence, kills>>

(* An executed plan only has its trash emptied. *)
RepeatGC(p) ==
  /\ gc = Idle
  /\ p \in done
  /\ gc' = [Idle EXCEPT !.step = "purge", !.plan = p]
  /\ UNCHANGED <<runs, blobs, plans, done, evidence, kills>>

RenameRun(r) ==
  /\ gc.step = "rename" /\ r \in gc.run
  /\ IF dir[r] = "archived"
       THEN /\ dir' = [dir EXCEPT ![r] = "gone"]
            /\ trash' = [trash EXCEPT ![r] = gc.plan]
       ELSE dir[r] = "gone" /\ UNCHANGED <<dir, trash>>
  /\ gc' = [gc EXCEPT !.run = @ \ {r}]
  /\ UNCHANGED <<archive, clock, blobs, plans, done, evidence, kills>>

(* A directory that came back cannot be renamed onto the one in the trash. *)
FailRename(r) ==
  /\ gc.step = "rename" /\ r \in gc.run
  /\ dir[r] = "remnant"
  /\ gc' = Idle
  /\ UNCHANGED <<runs, blobs, plans, done, evidence, kills>>

Renamed == gc.run = {}

StartBlobs ==
  /\ gc.step = "rename" /\ Renamed
  /\ gc' = [gc EXCEPT !.step = "blobs", !.todo = gc.plan.blobs]
  /\ UNCHANGED <<runs, blobs, plans, done, evidence, kills>>

RemoveBlob(b) ==
  /\ gc.step = "blobs" /\ b \in gc.todo
  /\ blobs' = blobs \ {b}
  /\ gc' = [gc EXCEPT !.todo = @ \ {b}]
  /\ UNCHANGED <<runs, plans, done, evidence, kills>>

(* Mutant of Removed: the execution is recorded before its work. *)
RemovedNone == TRUE

Removed == gc.todo = {}

RecordExecution ==
  /\ gc.step = "blobs" /\ Removed
  /\ done' = done \cup {gc.plan}
  /\ gc' = [gc EXCEPT !.step = "purge"]
  /\ UNCHANGED <<runs, blobs, plans, evidence, kills>>

EmptyTrash ==
  /\ gc.step = "purge"
  /\ trash' = [r \in Run |-> IF trash[r] = gc.plan THEN NoPlan ELSE trash[r]]
  /\ gc' = Idle
  /\ UNCHANGED <<dir, archive, clock, blobs, plans, done, evidence, kills>>

Kill ==
  /\ gc # Idle
  /\ kills < MaxKills
  /\ kills' = kills + 1
  /\ gc' = Idle
  /\ UNCHANGED <<runs, blobs, plans, done, evidence>>

-------------------------------------------------------------------------------
(* A command opens a run it will write to later, holding no lock.          *)
OpenRun(r) ==
  /\ dir[r] = "prepared"
  /\ Cardinality(writers \cup {r}) <= MaxWriters
  /\ writers' = writers \cup {r}
  /\ UNCHANGED <<runs, blobs, plans, done, public, damaged, gc, kills>>

(* Its artifact is public-export evidence, or none that matters here.      *)
AddEvidence(r, isPublic) == public' = IF isPublic THEN public \cup {r} ELSE public

WriteArtifact(r, isPublic) ==
  /\ r \in writers
  /\ dir[r] = "prepared"
  /\ AddEvidence(r, isPublic)
  /\ writers' = writers \ {r}
  /\ UNCHANGED <<runs, blobs, plans, done, damaged, gc, kills>>

(* ensureRunMutable finds archive.json. *)
RefuseArtifact(r) ==
  /\ r \in writers
  /\ dir[r] = "archived"
  /\ writers' = writers \ {r}
  /\ UNCHANGED <<runs, blobs, plans, done, public, damaged, gc, kills>>

(* ensureRunMutable has looked before archive.json was written. *)
WriteLate(r, isPublic) ==
  /\ r \in writers
  /\ dir[r] = "archived"
  /\ AddEvidence(r, isPublic)
  /\ damaged' = damaged \cup {r}
  /\ writers' = writers \ {r}
  /\ UNCHANGED <<runs, blobs, plans, done, gc, kills>>

(* The run is gone, and archive.json with it: the write makes the          *)
(* directory again.                                                        *)
Resurrect(r) ==
  /\ r \in writers
  /\ dir[r] \in {"gone", "remnant"}
  /\ dir' = [dir EXCEPT ![r] = "remnant"]
  /\ writers' = writers \ {r}
  /\ UNCHANGED <<archive, clock, trash, blobs, plans, done, public, damaged, gc, kills>>

-------------------------------------------------------------------------------
Begin ==
  \/ \E r \in Run : BeginRun(r) \/ WriteSnapshot(r) \/ Prepared(r)
  \/ \E r \in Run, b \in Blob : WriteBlob(r, b)

Collect ==
  \/ \E repo \in Repo, cutoff \in 1..clock : PlanGC(repo, cutoff)
  \/ \E p \in plans : ExecuteGC(p) \/ RepeatGC(p)
  \/ \E r \in Run : RenameRun(r) \/ FailRename(r)
  \/ StartBlobs \/ RecordExecution \/ EmptyTrash
  \/ \E b \in Blob : RemoveBlob(b)

Write ==
  \/ \E r \in Run : OpenRun(r) \/ RefuseArtifact(r) \/ Resurrect(r)
  \/ \E r \in Run, isPublic \in BOOLEAN : WriteArtifact(r, isPublic) \/ WriteLate(r, isPublic)

Next ==
  \/ Begin \/ Collect \/ Write \/ Kill
  \/ \E r \in Run, exempt \in BOOLEAN : ArchiveRun(r, exempt)

Spec == Init /\ [][Next]_vars

-------------------------------------------------------------------------------
Plan == [repo : Repo, cutoff : Nat, runs : SUBSET Run, blobs : SUBSET Blob]

ASSUME NoTrash == NoPlan \notin Plan

TypeOK ==
  /\ dir \in [Run -> Dir]
  /\ archive \in [Run -> [at : Nat, exempt : BOOLEAN]]
  /\ clock \in Nat
  /\ trash \in [Run -> Plan \cup {NoPlan}]
  /\ blobs \in SUBSET Blob
  /\ plans \in SUBSET Plan
  /\ done \in SUBSET Plan
  /\ public \in SUBSET Run /\ damaged \in SUBSET Run /\ writers \in SUBSET Run
  /\ gc \in [step : Step, run : SUBSET Run, plan : Plan \cup {NoPlan}, todo : SUBSET Blob]
  /\ kills \in Nat
  /\ \A p \in plans : p.blobs \subseteq RefsOf(p.runs)

Live == {r \in Run : dir[r] \in {"prepared", "archived"}}

(* Every run that can be opened, an archived one too, has all the content  *)
(* it was sealed with, whichever plan was executed, killed or repeated and *)
(* whichever runs were begun since it was planned.                         *)
LiveRunsReadable == RefsOf(Live) \subseteq blobs

(* What a collection may rely on once it has revalidated its plan: its     *)
(* runs are gone, or archived and eligible as they were; what it is to     *)
(* remove is no blob of a run outside the plan, and in the end of no run   *)
(* that can be opened.                                                     *)
Renaming ==
  gc.step = "rename" =>
    /\ gc.plan \in plans /\ gc.run \subseteq gc.plan.runs
    /\ \A r \in gc.plan.runs :
         \/ dir[r] \in {"gone", "remnant"}
         \/ /\ r \in gc.run /\ dir[r] = "archived"
            /\ ~archive[r].exempt /\ archive[r].at <= gc.plan.cutoff
            /\ r \in public => r \in damaged
    /\ \A r \in Live \ gc.plan.runs : Refs[r] \cap gc.plan.blobs = {}

Removing ==
  gc.step = "blobs" =>
    /\ gc.plan \in plans
    /\ \A r \in gc.plan.runs : dir[r] \in {"gone", "remnant"}
    /\ \A r \in Live : Refs[r] \cap gc.todo = {}

CollectionInv == Renaming /\ Removing

(* With the live runs, the store of blobs does what BlobStore says. *)
Abstract == INSTANCE BlobStore WITH live <- Live
ImplementsBlobStore == Abstract!Spec

(* No blob is left that nobody refers to: a killed collection has its runs *)
(* in the trash for as long as their blobs are there.                      *)
NoOrphanBlobs ==
  blobs \subseteq RefsOf(Present \cup {r \in Run : trash[r] # NoPlan})

(* An execution record means that the plan's runs are gone and can be      *)
(* repeated: emptying the trash is all that is left.                       *)
ExecutedIsGone == \A p \in done : \A r \in p.runs : dir[r] \in {"gone", "remnant"}

(* A run leaves runs/ only as a plan names it, archived, exported, not     *)
(* pinned and without public evidence, but for what is written to it after *)
(* its archive.                                                            *)
OnlyEligibleLeave ==
  [][\A r \in Run : dir[r] = "archived" /\ dir'[r] # "archived" =>
       /\ ~archive[r].exempt
       /\ r \in public => r \in damaged
       /\ \E p \in plans : r \in p.runs /\ archive[r].at <= p.cutoff]_vars
===============================================================================
