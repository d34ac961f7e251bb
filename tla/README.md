# Verification of DiffDossier

DiffDossier is a command-line tool that turns one Git change into a review
dossier. `prepare` seals the change (a *run*), commands record review results,
decide findings, authorize fixes and pass gates, `verify`/`finalize` judge the
run, `export` publishes it, and `run archive`, `gc plan`, `gc run` retire it.
There is no server: every command is a short process, all state is in files of a
per-user state directory, and what keeps two commands apart is a set of lock
files. So the questions worth asking are those of a file protocol: what another
command may have done between a read and a write, and what a process killed
between two writes leaves behind.

The modules here are TLA+ models of that protocol, and of the two places where
DiffDossier runs other programs, checked by TLC on small instances. Each of them
also has theorems that TLAPS proves for every size.

- [1. Inventory](#1-inventory)
- [2. Modules, and how they correspond to the code](#2-modules-and-how-they-correspond-to-the-code)
- [3. What each run checks](#3-what-each-run-checks)
- [4. What is proved](#4-what-is-proved)
- [5. Disagreements between code and documentation](#5-disagreements-between-code-and-documentation)
- [6. Abstractions, bounds and fairness](#6-abstractions-bounds-and-fairness)
- [7. Not modelled](#7-not-modelled)
- [8. Plan](#8-plan)
- [9. Running the checks](#9-running-the-checks)

Paths are relative to the repository.

## 1. Inventory

| Component | State it keeps | Operations | What is hard | What makes it correct |
|---|---|---|---|---|
| **Run lock** `internal/store/store.go` (`acquire`, `Lock.Release`), `process_alive_*.go` | `locks/write.lock`, `locks/events.lock` of a run, `locks/gc.lock` and the registry's lock: PID, token | exclusive create, judge an existing lock's PID, remove a dead one and retry, release by token | the create/write, read/judge/remove and read/remove sequences are several system calls; processes die between them | at most one holder; unknown locks fail closed; dead holders' locks are recovered; a call ends |
| **Run directory** `internal/store/store.go` (`BeginClassifiedRun`, `LoadRun`, `AppendEvent`, `UpdateRunState(Held)`, `RecoverRun`) | `run.json`, `snapshot.json`, `events.jsonl` (a hash chain) | begin, transition (event first, `run.json` second), plain event, load, recover | kills between the writes, torn journal lines, events written without the run lock | the journal leads by at most one transition; the run moves along allowed edges only |
| **Archive and garbage collection** `internal/store/retention.go` | `archive.json`, `gc/plans`, `gc/trash`, `gc/executions`, `blobs/sha256` | archive, plan, execute | a plan is executed long after it was made; execution is many renames and removals; commands without a lock | no run that can be opened loses content; only eligible runs go; an interrupted execution can be finished |
| **Review records** `internal/cli/record.go`, `record_batch.go`, `findings.go`, `internal/results/index.go`, `internal/workflow/findings.go` | result files, `results/index.json`, `findings.json`, fix authorizations | record a task or a batch, decide a finding, authorize a fix | three files written in turn; ledgers read before the lock is taken | index, files and ledger agree; no finding is lost; a judged run's evidence stands still |
| **Verdict** `internal/cli/verify.go`, `internal/reporting/report.go` | none (reads everything, moves the run) | verify, finalize | all of it is read without the lock | `FINALIZED` only for a run whose files say `ready` |
| **Plan and contract** `internal/cli/plan.go`, `internal/planner`, `internal/risk`, `internal/contracts` | task, contract and policy files | plan | limits of slices; a path has up to four entries | no entry lost, none twice; a task demands what the risk of its paths calls for |
| **Refresh and invalidation** `internal/cli/refresh.go`, `internal/workflow/invalidation.go` | the predecessor's state, the new run | refresh | two runs and a transition in one command | a run is `MUTATED` only with a successor that is exactly the authorized worktree |
| **Snapshot** `internal/snapshot/snapshot.go` | none (reads Git and the worktree) | capture twice and compare, verify fresh | the worktree changes during the capture | the sealed content is one the worktree had |
| **Gates** `internal/gates`, `internal/cli/gates.go` | gate plan, evidence files | plan, run | tools and worktree change; several gates runs and a verify write and read one evidence file; failure of a non-blocking gate | no gate counts as passed whose dependencies have not; a run is judged on the evidence of its plan |
| **Process runner** `internal/process` | none; two pipes, a process group | run a child with limits, cancel | two readers, a context, a watcher and the child's end race; descendants fork, leave the group, keep the pipes | output reported as whole is whole; a killed tree stays gone; the call returns |
| **Packets and results** `internal/packets`, `internal/results` | packet and result files, `comparison.json` | build, validate, append, compare | three kinds of coverage; a slice shared with the caller | a reviewed run is covered as its tasks demand; a comparison is of all results |
| **Providers** `internal/providers`, `internal/adapters`, `internal/cli/review.go` | `reviews/attempts.json` | describe, authorize, handshake, review, record the attempt | executable replaced and grants expiring between two launches; one ledger rewritten by several commands; a record that fails half way | nothing delivered without authorization; the ledger keeps and tells what happened |
| **Policy and redaction** `internal/policy`, `internal/redact` | trust bindings, egress grants, approvals | classify, redact, grant | expiry | only in what it authorizes elsewhere |
| **Public and portable export** `internal/exporter`, `internal/cli/export.go` | export records, revocations | public prepare, approve, create, revoke; portable | undo after a refused event; no run lock | only approved content leaves; an export has its event and record, or neither |
| **Registry** `internal/store/store.go` (`Register`) | `registry.json` | register a repository | one lock, one file | – |
| **Commands without state** `init`, `status`, `prepare`'s flags, configuration, inventory, Git access, release tooling, schemas, entry points | – | – | sequential | – |

How they interact: every command loads the run (`LoadRun`, which refuses an
archived run, a torn or invalid journal, and a `run.json` that differs from what
the journal replays to). The commands that change review records take the run's
`write.lock`, re-read the state and call `UpdateRunStateHeld`, which appends the
event under `events.lock` and then replaces `run.json`. `gates`, `packet` and
`export` append events and artifacts *without* the run lock. `review run` takes it
for each attempt it appends, and once more, through `record`, for its result. Begin, archive and
both gc commands hold the store's `gc.lock`; archive also holds the run's lock.
No command waits for a lock; a taken one refuses the command.

PROJECT.json lists the hazards one by one, at the line where each bites, with the
properties that would catch it.

## 2. Modules, and how they correspond to the code

```
RunMutex  <--implements--  RunLock                                    MCRunLock
RunStates <-- RunLifecycle <--implements-- RunJournal                 MCRunJournal
RunStates, FindingStates  <--  ReviewRun                              MCReviewRun
BlobStore <--implements--  Retention                                  MCRetention
RunStates, GatePlan  <--  GateRun                                     MCGateRun
ReviewPlan                                                            MCReviewPlan
PublicExport                                                          MCPublicExport
ReviewResults <-- CommandProvider                                     MCCommandProvider
ProcessRunner                                                         MCProcessRunner
```

The first four lines are the file protocol; the next four are commands at work on
one run, which take the locks and the journal as given; the last is one call within
a command. ReviewRun has gates as "passing evidence for this worktree or not", tasks
as model values and any result as acceptable; GateRun, ReviewPlan and
CommandProvider say where these come from. What a gate's child or a provider does
under GateRun and CommandProvider ("exits with or without success", "answers or
ends otherwise") is what ProcessRunner says a call may return.

The proofs are in modules of their own, which extend the modules they are about:

| Proofs | about |
|---|---|
| RunJournalProofs | RunJournal |
| ReviewRunProofs | ReviewRun |
| RetentionProofs | Retention; and RunLock, whose lock files every command goes by |
| GateRunProofs | GatePlan and GateRun |
| ReviewPlanProofs | ReviewPlan |
| PublicExportProofs | PublicExport |
| CommandProviderProofs | ReviewResults and CommandProvider; and ProcessRunner, which runs the executable |
| Recursion | recursive functions and loops in general; RunJournalProofs, GateRunProofs and ReviewPlanProofs use it |

RunLock and ProcessRunner name their specification `LockSpec` and `RunnerSpec` (and
`LockInit`, `RunnerNext`, …), so that one module can extend each with another.

**RunMutex** (abstract): a lock is free or has one holder.
**RunLock**: one lock file. `file` is the path's content (creator, token, whether
the metadata is written), `pc[p]` the system call a process is at, `seen[p]` the
metadata it read. One action per system call: `Create`/`Exists` are the
`O_EXCL` open, `WriteMetadata`/`FailMetadata` the write and sync,
`ReadMetadata`/`RefuseUnknown` the read, `JudgeDead`/`RefuseLive` `processAlive`,
`RemoveStale` the `os.Remove` before the retry, `ReleaseOwned` and `RemoveOwned`
Release's read and removal. `Exit` and `Kill` end a process, which is what makes
`processAlive` say no. `misfired` is a history variable: some `RemoveStale` has
removed a file other than the one judged.

**RunStates**: the table of `allowedTransition`. **RunLifecycle** (abstract): one
run moving along its edges, archived once, never changed after that.
**RunJournal**: one run directory. `runJson`, `sealed` (snapshot.json), `journal`,
`torn` and `archive` are files; `replay` is what `runJournalState` would return,
carried along event by event; `prev`, `target`, `digest` are what a command has in
memory. Its processes run `BeginClassifiedRun`, `UpdateRunState`, a plain
`AppendEvent`, `RecoverRun` and `ArchiveRun`, one file write a step: `Check*` is
what an operation validates, `AppendLine` the append (a kill may cut it in half:
`torn`), `WriteRun` the replacement of run.json, `Digest` and `WriteArchive` the
two reads and writes of the archive. `ContinueHeld` and `ContinueVerify` are the
commands that make two transitions (record under one lock, verify under two).

**FindingStates**: the table of `allowedFindingTransition`.
**ReviewRun**: one run's review records under the commands that write them:
`files` (result files), `index`, `ledger`, `approvals`, `gates`, `tree` (the
worktree) and `successor`. `cmd[p]` is what a command read before it took the
lock: this is where its value may be stale. `record`: `StartRecord` …
`CheckRecord`, `WriteResult` (one per result), `WriteIndex`, `WriteLedger`,
`BeginReviewing`, `EndRecord`. `finding`, `fix`: `StartFinding`/`StartFix` read the
ledger, `AcquireRunLock`, `WriteLedger`, `WriteApproval`, `AuthorizeFix`.
`verify`/`finalize`: `StartVerify`, `ReadLedger`, `Judge`, then the transitions.
`refresh`: `StartRefresh`, the transition to MUTATED, `BeginRun`. `Edit`,
`LapseRisk` and `LapseApproval` are the environment: the worktree and the clock.

**BlobStore** (abstract): a set of live runs and a set of blobs; a run is published
with its blobs, a blob is dropped when no live run needs it.
**Retention**: all runs of the store. `dir[r]` says how far the directory has got
(begun, sealed, with a journal, archived, renamed away, made again), `archive[r]`
its record, `trash[r]` in which plan's trash it is, `plans` and `done` the plan
and execution records, `gc` the command that holds gc.lock with its remaining
work. `PlanGC`, `ExecuteGC` (the revalidation), `RenameRun`, `StartBlobs`,
`RemoveBlob`, `RecordExecution`, `EmptyTrash`, `RepeatGC` follow `retention.go`
step by step. `OpenRun`, `WriteArtifact`, `WriteLate`, `Resurrect` are the commands
that hold no lock, seen at the moment their write meets the run's directory.

**GatePlan**: which gates a plan has and in which order, as operators on a
dependency relation (`Config.Validate`, `BuildPlan`, `topological`), with the
order checked and proved against its definition (`Ordered`). Loop and visits are recursive
functions.
**GateRun**: `gates plan`, `gates run`, `verify` and `finalize` of one run at the level
of plan.json and evidence.json. `StorePlan`; `StartRun`, `TrustPlan`, then for each gate
`Before` (the worktree is fresh), `MayRun` (dependencies passed, executable as
planned), `RunGate`, `ExitGate`, `After`; `WriteEvidence`. `StartVerify`, `ComparePlan`,
`Judge`, `Advance` are the judging side: the plan is built again and compared, the
evidence has to have every blocking gate, in a final run where one is called for.
`Edit` and `Install` change the worktree and the tools under it.

**ReviewPlan**: from repository to tasks and back. `Entries` is the inventory of the four
comparisons, `LevelOf` the risk of a path, `Build` the plan: `Group` the entries with one
`Key`, `Slice` what is cut off a group (whole paths, in order, within the limits) and
`Slices` the loop that does it, `MakeTask`, `Linked`. A task holds the set of its entries:
the order inside it is text, and that of the groups is left open. `Changed` and
`MustReload` are what a refresh reloads. `Prepare`, `PlanRun` and `Refresh` are the
commands, `Write`, `Add`, `Commit`, `Uncommit`, `SetPolicy` what a developer does between
them.

**PublicExport**: one run's exports. `artifacts`, `events` and `outputs` are the files in
the run, the announcements in its journal and the files outside the store; `cmd[p]`
what a command has still to write. `Create` and `Revoke` go `LinkOutput`,
`WriteArtifact`, `AppendEvent`; a refusal goes back by `RemoveArtifact` and `RemoveOutput`.
`portable` walks the run: `ListRun` lists its directory once, and whether `exports/` is
visited is settled then (`walked`); `ReadEvents` reads the journal, `ListExports` lists
the exports and `ReadFile` reads one of them at a time; `RefuseRead` is an archive given
up over a file that is gone. `doubled` is a history variable: a second command has
written the same bundle.

**ReviewResults**: results as values. `Accepted` is `results.Validate` (`Satisfies` its
coverage rule), `AppendResult` and `ReviewComplete` the index, `Compare` and
`TaskComparison` the comparison. `LeftWith` is the slice a caller of `Append` is left
with when the array had room and was sorted under it.

**CommandProvider**: `review run` of one task by several commands. `attempts`, `index` and
`comparison` are files, `binary` and `lapsed` the world, `cmd[p]` what the command has
displayed, been granted and read. `Start`, then for each attempt `ReadAttempts`,
`AppendAttempt` (or `RefuseEvent`, which leaves the ledger written); `NewCommand` takes
the grants, `Handshake` is the first launch and `Deliver` the second, which gets the
packet; `LockRecord`, `RecordResult`, `WriteComparison`, `MoveRun` are `runRecord`, with
the ways it is refused. `standing`, `missed` and an index entry's `by` are history.

**ProcessRunner**: one call of `process.Run`. `alive`, `group`, `holds` are the child and
its descendants, which do what they like (`Fork`, `LeaveGroup`, `Close`, `Write`, `Exit`);
`Read`, `FinishReading`, `ReportLimit` the two readers, `CloseReadersDone` the goroutine
that waits for them, `WatchCancellation` the watcher, `Select`, `TerminateTree`, `Drain`,
`Wait`, `Return` Run itself. A select that has found nothing is `parked` until one
of the channels is ready, one that finds several takes any.

The `Mutant of X` definitions in the modules are the way a plausible bug in X
would look; each is used once, to show that the property named with it in
PROJECT.json can fail.

## 3. What each run checks

Passing runs (deadlock is not checked: commands are finite and bounded, or the run
comes to an end state, so an instance may stop).

| Run | Instance | Shows |
|---|---|---|
| `lock` | three contenders, two acquires each, two kills, fairness | until a takeover misfires, whoever created or holds the lock finds its own token in the file (`HolderOwnsFile`) and the lock is a RunMutex (`MutexUntilMisfire`); every call ends (`AcquireEnds`); a dead holder's lock is recovered (`DeadLockRecovered`) |
| `journal` | two commands, two kills; commands start until the journal has nine events (begin to EXPORTED are eight, the archive is the ninth) | run.json lags by at most one transition (`WriteAheadLag`); `runJournalState` accepts exactly the chains (`ReplayIsChain`); a journal becomes invalid only by a command that had loaded the run before another was killed (`SpoiledOnlyByLag`); nothing is written once archived (`ArchiveIsFinal`); the directory implements `RunLifecycle` (`FollowsLifecycle`) |
| `review` | two commands, one task with two passes and two perspectives, three possible answers (a serious finding, a minor one, none) of which two complete it, batches of two, one kill | a judged run is complete (`ReviewedIsComplete`) and its evidence frozen (`EvidenceFrozen`); findings are imported (`FindingsImported`); a verdict judged on unlocked reads still holds of what is on disk (`VerdictStands`) |
| `review_fix` | two commands, one task with two answers for its one pass, a minor finding, two scopes, edits and expiries, one kill | index and files agree, also when a killed command's result file is replaced by another answer (`IndexMatchesFiles`); `FIX_AUTHORIZED` only with an authorization on disk (`AuthorizedByRecord`); a refresh takes up only a worktree exactly as authorized (`RefreshedAsAuthorized`) |
| `retention` | two runs that share a blob, a lockless writer for each, two plans, two kills anywhere | no run that can be opened loses a blob (`LiveRunsReadable`), none is orphaned (`NoOrphanBlobs`), `BlobStore` is implemented (`ImplementsBlobStore`), only eligible runs leave (`OnlyEligibleLeave`) |
| `gates` | two commands, three gates (the change calls for the third; the second needs none, the first needs one other, the third any, and what `Validate` refuses is left out), two versions of a tool | dependencies come first and each gate once (`PlanIsOrdered`); evidence is of one whole run of one plan (`EvidenceIsWhole`); a command that finds a run ready has evidence for every blocking gate of the plan it built (`VerdictIsBacked`); what a run was judged on is not replaced by less (`JudgedStaysBacked`) |
| `plan` | some repositories of three paths, two contract types, two policies, at most two files or four bytes a task, two edits | every entry in exactly one task (`PlanCoversChange`); a task exceeds its limits by its last path at most, and is marked (`WithinLimits`); the tasks to reload are exactly those a chain of shared contracts connects with a changed path (`ReloadIsClosed`); the files of a kept task are the same in index and worktree (`KeptIsUnchanged`) |
| `export` | two commands, one candidate with scan findings and one redacted summary, two outputs, one kill, `run archive` at any time | only approved content is published or kept (`OnlyApprovedLeaves`); what the journal announces is there (`AnnouncedIsKept`); a refused command leaves nothing (`RefusedLeavesNothing`); a portable archive that has exports has what its own journal announces (`PortableIsCoherent`). A `VIEW` leaves the events of prepare and approve, which nothing reads, out of what tells two states apart |
| `runner` | a child and one descendant, two streams with a limit of one unit, of which one can exceed it and fill its pipe as well, fairness | what is not reported as cut off is whole (`WholeOutput`); a killed tree stays gone (`TreeIsGone`); the call returns when the context ends, when a limit is passed while Run waits, and when everybody has ended (`RunEnds`) |
| `provider` | two commands on one of two tasks that wants two passes; four answers (thorough, in a context already heard, covering too little, not completed); an index that starts empty, with two or with three records; two versions of the executable | packets leave as authorized (`PacketIsAuthorized`); the ledger only grows (`AttemptsOnlyGrow`) and tells the outcome (`AttemptsTellOutcome`); a comparison is of all results of its task (`ComparisonIsOfAll`); a reviewed run is covered (`ReviewedIsCovered`) |

The type invariants are proved (section 4) rather than run.

Runs that find a violation are in section 5.

## 4. What is proved

For every number of processes, events, runs, plans, tasks, results, outputs, descendants,
paths, gates, kills and writers, from the ASSUMEs of the modules and nothing else. They
say that bounds and sizes are natural numbers; that "nobody", "no plan", "no file" and "no
report" are not processes, plans, files or reports; that runs are finitely many and refer
to blobs (`RetentionConstants`); that gates and paths are finitely many and, in place of
the names they are sorted by, numbered (`GateConstants`, `PlanConstants`); that tables
give each task, result or candidate what it is looked up for (`ReviewConstants`,
`ResultConstants`, `ExportConstants`, `RunConstants`); and that what an index holds before
was accepted (`EarlierWereAccepted`). TLC evaluates each of them.

Every safety invariant and action property of a passing run is a theorem here, and so are
the three refinements (of RunMutex up to a misfire, of RunLifecycle, of BlobStore).

**Recursion.** The library's induction theorems take an operator as a parameter, which the
provers cannot instantiate, and so does its theorem that a recursive function exists. What it
says of well-founded relations they can use: a set of numbers has a least one
(`LeastOfSome`), so if something fails at some place, take a place of least measure where it
does (`LeastMeasure`). `SolutionExists` is the existence of a function from an equation that
gives its value at a place from values at places of smaller measure; functions take the
place of operators in it. `LoopExists` and `LoopEnds` apply it to loops that
add to a finite set until nothing is missing: the loop's function exists and gives the
least closed set. The loop of `BuildPlan`, the visits of `topological` and the closure
of `ComputeInvalidation` are cases of these.

**RunLock** (in RetentionProofs). `LockTyping`. `HolderKeepsFile`: the invariant behind it says
that the file's token is that of the process at `created`, `held` or `releasing`,
and that a process about to remove a stale file has judged one whose creator is
gone (`JudgementStands`) — a gone process never comes back, so a judgement does not
expire; what can change is only *which* file the path names, and that is
`misfired`. From it `ExclusionUntilMisfire`: two holders need a misfire.
`MutexHoldsUntilMisfire` turns that into the refinement: up to a misfire every
step grants the lock, yields it or leaves it. `TwoExclude` and
`TwoImplementMutex` drop the condition and assume that there are at most two
processes instead: to lose a held lock takes a dead owner, a slow and a fast
contender, that is three. The condition is not a technicality, see
`lock_takeover_race`.

**RunJournalProofs.** `JournalTyping`, and `JournalInv`, the inductive invariant: it relates
what every command has in memory at its program counter to the files (who holds
the run lock has read the run.json that is there; a transition that has been
appended and not yet written back is the only one), so that `LagBound`
(`WriteAheadLag`), `Agreement`, `ArchivedState` and the action properties
`ArchivedForGood` and `SpoiledByLag` follow. `JournalFollowsLifecycle` is the refinement: every
replacement of run.json, also that of a recovery, is one allowed transition.
`ReplayReadsChain` is about journals of any length: what `runJournalState` answers is the end
of a chain of allowed transitions from PREPARED, and it answers with an error for
anything that is not one (`ReplayIsChain`). The invariant `ChainInv` goes with the
appends: one more line extends the chain or breaks it, and a broken one stays broken.

**RetentionProofs.** `RetentionTyping`. The inductive invariant is `CollectionInv`
(`RevalidationStands`): `ExecuteGC` compares the plan with the directories and
references *as they are now*; everything that could change that needs gc.lock,
and what a lockless writer does reaches no live run. So while runs are renamed,
those still in place are eligible and no live run outside the plan shares a blob
of the plan, and when blobs are removed no live run needs them. From it
`ContentIsKept`, `StoreRefinement` (each step is a step of BlobStore or leaves it
alone), `ExecutionIsComplete` and `EligibleLeave`. `BlobsHaveRuns` needs a second
invariant, `KeptBlobs`: a collection under way is not recorded yet, it is going to
remove (or has removed) all that only its runs refer to, and runs lie in the trash of
a plan that names them; so when the record is written, every blob left of the plan's
runs is also a blob of a run that stays.

**ReviewRunProofs.** `ReviewInv` (`ReviewIsInvariant`) is the typing with what each
command has in memory at its program counter, all seven properties, and `Stands(p)`:
what command p read before it took the lock, related to the files now. Its parts go
by the commands: a record that holds the lock has validated against this index
(`Records`), a verdict was judged on files that can only have grown since or been
written over (`Judges`), an authorization is on disk before its transition
(`Authorizes`), a refresh knows the scope it was let through by (`Refreshes`). The
properties need each other: that a verdict stands rests on a reviewed run's index
being frozen, that on the guard of `CheckRecord` under the lock.

**GateRunProofs.** First the plan. `SelectedIsWanted`: the loop that pulls in dependencies
ends with exactly the wanted gates. `OrderIsOrdered`: the visits of `topological` put
every gate once and behind its dependencies. The visits are a recursion whose set of gates
to visit may grow at a call, so the measure is the pair of how many gates those to visit
want in all and how many they are themselves (`VisitsDescend`); that a gate's dependencies
want fewer than the gate is where `Validate`'s refusal of cycles comes in (`NoCycle`).
`PlansAreOrdered` is `PlanIsOrdered` for every declaration that `Validate` accepts. Then
the commands, `GatesInv`: a `gates run` reports of exactly the gates behind it and is at a
gate only with its dependencies passed, so any evidence on disk, whoever wrote it last, is
of a whole plan. From it `WholeEvidence`, `BackedVerdict` and `JudgedIsBacked`.

**ReviewPlanProofs.** What a plan is made of is proved of its operators. `SliceInLimits`: a
slice exceeds the limits by its last path at most, and only a slice so marked. `SlicesPart`:
cutting slice after slice ends, and the slices part the group, no entry lost and none
twice; each cut leaves fewer paths (`CutOff`). `BuildPlans`: the tasks of all groups part the
change. `ReloadIsLeast`: the loop of `ComputeInvalidation` ends with the least set of tasks that
has the changed ones and goes along shared contracts (`NeighborsShare`). `UnchangedIsSame`:
an unchanged set of entries is an unchanged file in index and worktree, because the last
entry of a path tells what the file is (`LastEntryTells`). `Inv` carries this with the
commands: whatever is edited, committed or refreshed, the plan at hand was built from the
sealed change (`PlanInv`) and the one before from the change of the predecessor (`PriorInv`).
From it `TypesAreKept`, `PlansCoverChanges`, `TasksAreWithinLimits`, `ReloadsAreClosed` and
`KeptTasksAreUnchanged`.

**PublicExportProofs.** `ExportInv` (`ExportIsInvariant`): each output has one owner that
may still take it back (`Ownership`), what is kept or announced is there whatever the
others undo (`KeptIsThere`, `AnnouncedStays`), a command that has removed something
has nothing of it left (`NothingLeft`), and a portable archive in the making
has, once it has listed the exports, read or still listed every bundle its events
announce (`PortableInHand`). From it the four properties of
the run.

**CommandProviderProofs.** `CommandsInv` (`CommandsAreSound`) is one conjunct for each
thing a step rests on: who holds the lock (`Holding`), whose copy of the ledger is
current (`Current`), what has been announced, granted, accepted and delivered
(`Announced`, `Granted`, `Acceptable`, `Delivered`), and the order of the attempts of one
command (`InOrder`), which needs that no two commands have the same id (`Distinct`).
From it `PacketsAreAuthorized`, `AttemptsAreKept`, `LedgerTellsOutcome`, and with
`CoveredInv`, which carries acceptance through the index, `ReviewIsCovered`.
`ComparisonsAreOfAll`: a result that is put in anywhere (`AppendResultInserts`) is put in
the same way among the results of its task, so the comparison made of the index and the
new entry is one of all of them; `ComparisonInv` has it of the comparison on disk, and of the
one that a command at `compare` is about to write.

**ProcessRunner** (in CommandProviderProofs). `RunnerInv` (`RunnerIsInvariant`): a reader
that has stopped is past the limit or at an end nobody can move (`StoppedAtEnd`: no
process is left that holds the pipe, and pipes are only inherited), readersDone means both
(`ClosedByReaders`), Run waits for the child only after that (`WaitsForReaders`). From it
`OutputIsWhole` and `TreeStaysGone`.

Only model-checked: the liveness properties (`AcquireEnds`, `DeadLockRecovered`,
`RunEnds`). Liveness under fairness needs ENABLED, which is outside the prover's reach.

In all modules the operand of a prefix operator (`UNION`, `SUBSET`, `DOMAIN`) is put in
parentheses where a set operator follows: TLC and tlapm group `SUBSET A \ B` differently,
and the runs and the proofs have to be about the same formula.

## 5. Disagreements between code and documentation

Each is a run that TLC ends with a counterexample to one property taken from the
repository's words; PROJECT.json quotes them with their lines.

| Run | What happens |
|---|---|
| `lock_takeover_race` | `acquire` removes the path, not the file it judged: the slower of two commands that judged the same dead lock removes the faster one's new lock, and both hold it. Nobody is killed. |
| `review_lost_decision` | `finding` reads the ledger before it takes the lock and writes it back after: what another command imported in between is lost, and the run is FINALIZED without it |

More that the models contain and no run is spent on:

- A command that loaded the run before another was killed between event and run.json
  appends a transition from the stale state; the journal is then invalid for good and
  `recover` refuses it (`journal`; `SpoiledOnlyByLag` says that this is the only way).
- `record` killed between index and ledger: the retry is refused as a duplicate, its
  findings never reach the ledger, its pass counts (`review`; `FindingsImported`
  excepts behaviours with a kill).
- `AppendEvent` looks for archive.json before it takes events.lock, and its callers in
  gates, packet and export hold no run lock: an event can land between the archive's
  event or digest and its record, and `verifyArchivedRun` fails from then on
  (`journal` reaches this; `ArchiveIsFinal` is about record and run.json only).
- `refresh` moves the run to MUTATED before it begins the new one; a refusal there
  (gc.lock is held) strands the run, as no refresh can be tried again (`review_fix`).
- A plan killed between two renames cannot be finished once another plan has
  collected the runs it had left: its trash stays (`retention`).
- A second `export public create` of the same bundle that is refused its event takes
  the first one's record with it; the published bundle can then not be revoked
  (`export`, where `doubled` marks it).
- `export portable` lists the run's directory before it reads events.jsonl
  (internal/exporter/export.go:38), and a new run has no `exports/`
  (internal/store/store.go:149-151). A walk that began before the first
  `export public prepare` may read the event of a bundle created meanwhile and never
  visit `exports/`: its archive announces what it has not got. `PortableIsCoherent` is
  about archives that have exports (`export`, where `walked` marks them).
- `gates run` wants REVIEWED. Once verify has moved a run to REREVIEWED, a new version
  of a tool, or an ordinary gates run that was still under way, leaves it with
  evidence finalize refuses and no way to make other evidence (`gates`).
- "The executable and working directory are revalidated immediately before every
  process launch" (docs/providers-and-results.md:19-20): the launch that gets the packet
  (internal/providers/command.go:218) follows the handshake without another
  authorization. `PacketIsAuthorized` says what does hold of it (`provider`).
- "Every … attempt is appended to `reviews/attempts.json`" (docs/providers-and-results.md:58):
  a failed attempt that cannot be appended is dropped (internal/cli/review.go:216 and
  :241), and one that says `failed` may have its result recorded, when `record` was
  refused after the index was written. `AttemptsTellOutcome` claims neither (`provider`).
  The attempt `started` names the plan that was displayed; the command is described
  again after that, and is authorized as it is then.
- With three records in the index, and other numbers that leave an array room,
  `results.Append` sorts the array its caller still ranges over
  (internal/cli/record.go:234): comparison.json then has one result twice and misses
  another (`provider`, where `missed` marks it).
- A call of `process.Run` that is cancelled while it is in `command.Wait` leaves the
  process group to the watcher, whose select may take `done` instead; a group member that
  holds no pipe then survives, which tree_unix_test.go rules out for a cancellation
  during the select (`runner`; `TreeIsGone` is about trees Run has killed). And when both
  readers are done, one at its limit, select may take readersDone: nobody is killed and
  Wait waits for the child or the context (`runner`; `RunEnds` claims it only when Run
  was already waiting).

The passing runs are stated so that they say what holds *beside* these: for
instance `VerdictStands` in `review` excludes only behaviours in which a ledger
was written over (the history variable `overwrote`), and `FindingsImported` those
and the ones with a kill.

## 6. Abstractions, bounds and fairness

- *File operations.* A rename-into-place write (`atomicBytes`) is one step; an
  append may be cut in half by a kill. A disk that refuses a write is not
  modelled, except where the code handles it (`FailMetadata`).
- *Locks.* RunJournal and ReviewRun use RunMutex for the run's two locks, a killed holder
  yielding; RunLock says when the lock files keep that promise, and the takeover
  race is shown there only. In RunJournal gc.lock, which archive takes
  as well, is left out: it only refuses more. In Retention gc.lock is the variable `gc`.
- *PIDs* are not reused. Reuse makes a dead lock look live until the other process ends.
- *Windows*: the lock files are modelled with Unix semantics of `processAlive` and `os.Remove`.
- *Content* is a model value or a set: a result is its task, pass, perspective,
  context, completeness and findings; a worktree is the sealed one or one a scope
  authorizes; a plan's cutoff is a number on the clock of archives made.
- *ReviewRun* takes run.json and the journal as one variable `state`: how they
  agree is RunJournal's matter. `comparison.json` and the reports, which no later
  step reads, are left out, and so is EXPORTED (it is in RunJournal's `Target`).
  BLOCKED is in the table and no command asks for it.
- *CommandProvider*: a plan is its executable's digest; flags, environment and packet are
  the command's own and do not change. Trust binding, egress grant and their expiry are
  one grant that lapses. Several writes of `runRecord` are one step here and apart in
  ReviewRun. Decoding an index is taken to double its array (`HasSpare`); Go's size
  classes may leave room more often.
- *ProcessRunner*: output is counted in units; os/exec is modelled as far as Run relies
  on it, and marked so in the module. Start's own failures are left out. Signals
  kill at once, and a process that leaves the group cannot be killed.
- *Retention* does not say when writers hold a run lock; it lets any prepared run
  have one that does not.
- *GateRun* has the version of each gate's executable for its digest; argv, environment,
  timeouts and the shell confirmation are left out, and so is the evidence cache, which
  no caller passes. A gate exits with or without success at will.
- *ReviewPlan* chooses what a path's name says (signal word, contract types, directory)
  and what policies say; the words themselves are data. Renames, modes, ignored
  files, submodules and rule files are left out. Sizes are small numbers.
- *PublicExport*: a digest is what it digests; times of approval differ; a
  redaction approval handed to `approve` is taken to be a valid one; of a portable
  archive only bundles and their events are kept, and that a tombstone or a temporary
  file is gone when it is read only makes `RefuseRead`, which is always possible.
  `exports/` may be there before its first file, so `ListRun` may find it at any time. Preparing a prepared candidate
  again writes the same files and is left out. An append whose sync fails after the
  write is left out.

Bounds are constants and appear only in guards: `MaxAttempts`, `MaxKills`, `MaxKilled`,
`MaxEvents`, `MaxBatch`, `MaxPlans`, `MaxWriters`, `MaxEdits`, `MaxCommands`, `MaxOutput`.
Two processes are enough for a stale read, three for the takeover race; two kills for a
recovery, or a repeated collection, that is itself killed; nine events for a run that goes
from begin to its archive by way of EXPORTED; two runs for a blob one of them keeps alive;
two plans for one that overtakes another; three gates for a chain and one beside it; three
paths for tasks that share a directory or a contract or neither; two edits for a change
and its reversal; two outputs for a bundle created twice; three earlier records for an
array with room; one descendant to keep a pipe, leave the group or outlive the child.
Where a property is proved the bound does not matter.

Fairness is weak everywhere. In RunLock it is for the steps of one call of a live process
(`Acquiring(p)` and `Releasing(p)`): a call is straight-line code without waits, and the
operating system schedules a process that can run. In ProcessRunner it is for the
goroutines of the call and what os/exec does for it (`Reading(s)`, `CloseReadersDone`,
`WatchCancellation`, `KillChild`, `BreakStdin`, `Running`): each is a goroutine that the
Go scheduler runs when it can go on, and is written as one action so that a step
that stays enabled is taken. Nothing is assumed of when commands start, exit or are
killed, nor of what a child and its descendants do.

## 7. Not modelled

| Part | Why |
|---|---|
| The two captures of a snapshot | `Capture` compares two readings of Git and the worktree and refuses if they differ; the models have only `VerifyFresh`, the comparison with what was sealed. What a capture sees of a worktree that changes and changes back is a question about Git's index refresh as much as about this code |
| Building packets, parsing results, `review`'s manual provider, the static adapters | parsing and text; no state but what CommandProvider has |
| `tree_windows.go` (job objects) | the Unix implementation is modelled; a job has no process that leaves it |
| The words and tables risk and contracts are inferred from, the secret scanner's rules, path sanitizing | functions of strings |
| Registry | one lock and one file |
| Configuration, inventory, Git access, status, init, dispatch, release tooling, schemas | parsing and output, no state of their own |

## 8. Plan

Done: RunLock, RunJournal, ReviewRun, Retention, GateRun, ReviewPlan, PublicExport,
ProcessRunner, ReviewResults and CommandProvider, and proofs of the safety of all of them.

What is left:

1. **Snapshot** — two captures of a worktree that changes, with the sealed content
   one the worktree had at some moment, or the changes that go unseen named.
2. **Store registry** — `Register` under its lock; it adds little to RunLock.
3. RunJournal and ReviewRun composed with RunLock instead of RunMutex, to see what a
   misfired takeover does to journal and ledger.
4. Properties for the hazards PROJECT.json lists without one, and then their proofs.

## 9. Running the checks

`tlc -workers 2 -config journal.cfg MCRunJournal` checks a run; PROJECT.json names
the module of each cfg. `tlapm RunJournalProofs.tla` checks proofs. The longest runs take
one to four minutes: `journal` (1.3 million states), `provider` (870 000), `export` (740 000),
`gates` (520 000), and `runner` (160 000, with liveness). The proof modules take
from ten seconds to three minutes each.
