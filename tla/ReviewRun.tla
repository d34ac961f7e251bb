------------------------------- MODULE ReviewRun -------------------------------
(***************************************************************************)
(* The review records of one run under concurrent commands: the result     *)
(* files and their index, the finding ledger, fix authorizations, gate     *)
(* evidence and the verdict that moves the run on (internal/cli record,    *)
(* record batch, finding, fix, gates run, verify, finalize and refresh).   *)
(*                                                                         *)
(* A process is one command, killed at any step or refused.  One write of  *)
(* a file is one step.  run.json and its journal are one variable here:    *)
(* what happens between them is RunJournal's subject, and the run's        *)
(* write.lock is a RunMutex.                                               *)
(***************************************************************************)
EXTENDS RunStates, FindingStates, Naturals, FiniteSets

CONSTANTS
  Proc,            (* processes                                            *)
  NoOne,           (* the holder of a free lock                            *)
  Task,            (* tasks of the plan                                    *)
  RequiredPasses,  (* per task                                             *)
  Perspectives,    (* per task, the perspectives it requires               *)
  Result,          (* valid results a provider may hand in                 *)
  NoResult,        (* no result file                                       *)
  Finding,         (* findings, named as in the ledger                     *)
  Serious,         (* those of severity critical or high                   *)
  Imported,        (* the state each finding is imported in                *)
  Scope,           (* sets of changed paths a fixer may produce            *)
  Sealed,          (* the worktree is as the snapshot has it               *)
  MaxBatch,        (* bound: results of one record command                 *)
  MaxKills         (* bound: processes killed                              *)

ASSUME ReviewConstants ==
  /\ NoOne \notin Proc
  /\ RequiredPasses \in [Task -> Nat]
  /\ IsFiniteSet(Result)
  /\ \A r \in Result : r.task \in Task /\ r.findings \subseteq Finding
  /\ \A r, s \in Result :
       <<r.task, r.pass>> # <<s.task, s.pass>> => r.findings \cap s.findings = {}
  /\ NoResult \notin Result
  /\ Serious \subseteq Finding
  /\ Imported \in [Finding -> {"reported", "needs_confirmation"}]
  /\ Sealed \notin Scope
  /\ MaxBatch \in Nat /\ MaxKills \in Nat

VARIABLES
  state,       (* run.json                                                 *)
  tree,        (* the worktree: Sealed, or how it differs from the seal    *)
  files,       (* results/<task>/pass-<pass>.json                          *)
  index,       (* results/index.json                                       *)
  ledger,      (* findings.json                                            *)
  lapsed,      (* accepted risks whose expiry has passed                   *)
  approvals,   (* approvals/fix-*.json                                     *)
  gates,       (* what gates/evidence.json says of the blocking gates      *)
  successor,   (* the run refresh has begun: its tree, or Sealed           *)
  lock,        (* holder of locks/write.lock                               *)
  pc, cmd,     (* where each process is, and what it remembers             *)
  kills,
  overwrote    (* history: a ledger was written over one that was not read *)

records == <<files, index, ledger, approvals, gates>>
world == <<tree, lapsed>>
vars == <<state, world, records, successor, lock, pc, cmd, kills, overwrote>>

Key == {<<r.task, r.pass>> : r \in Result}
KeyOf(r) == <<r.task, r.pass>>

FindingsOf(results) == UNION {r.findings : r \in results}

Recordable == {"CONTRACTED", "REVIEWING"}

(* What a command keeps in memory: the results or findings it is about,    *)
(* the ledger, run state and worktree as it read them, where it is going.  *)
Ledger == [Finding -> FindingState \cup {Absent}]

Nothing ==
  [op |-> "none", batch |-> {}, ids |-> {}, seen |-> [f \in Finding |-> Absent],
   loaded |-> NoRun, next |-> NoRun, scope |-> Sealed]

-------------------------------------------------------------------------------
(* ReviewComplete *)
Completed(idx, t) == {r \in idx : r.task = t /\ r.completed}

Complete(idx) ==
  /\ Task # {}
  /\ \A t \in Task :
       LET perspectives == {r.perspective : r \in Completed(idx, t)}
           contexts == {r.context : r \in Completed(idx, t)}
       IN  /\ Cardinality(perspectives) >= RequiredPasses[t]
           /\ Cardinality(contexts) >= RequiredPasses[t]
           /\ Perspectives[t] \subseteq perspectives

(* verdict = "ready" for an index, a ledger, its expired risks and gates.  *)
Ready(idx, l, expired, g) ==
  /\ Complete(idx)
  /\ \A r \in idx : ~r.confirm
  /\ \A f \in Finding :
       /\ l[f] # "needs_confirmation"
       /\ ~(l[f] = "accepted_risk" /\ f \in expired)
       /\ f \in Serious => l[f] \in Settled \cup {Absent}
  /\ g = "pass"

-------------------------------------------------------------------------------
(* gates starts as "pass" when no blocking gate is configured. *)
Init ==
  /\ state = "PREPARED"
  /\ tree = Sealed
  /\ files = [k \in Key |-> NoResult]
  /\ index = {}
  /\ ledger = [f \in Finding |-> Absent]
  /\ lapsed = {}
  /\ approvals = {}
  /\ gates \in {"not_run", "pass"}
  /\ successor = Sealed
  /\ lock = NoOne
  /\ pc = [p \in Proc |-> "idle"]
  /\ cmd = [p \in Proc |-> Nothing]
  /\ kills = 0
  /\ overwrote = FALSE

Goto(p, from, to) ==
  /\ pc[p] = from
  /\ pc' = [pc EXCEPT ![p] = to]

Release(p) == lock' = IF lock = p THEN NoOne ELSE lock

(* The command is done or gives up. *)
Leave(p) ==
  /\ pc' = [pc EXCEPT ![p] = "idle"]
  /\ cmd' = [cmd EXCEPT ![p] = Nothing]
  /\ Release(p)

Return(p) ==
  /\ Leave(p)
  /\ UNCHANGED <<state, world, records, successor, kills, overwrote>>

Begins(p, first, command) ==
  /\ Goto(p, "idle", first)
  /\ cmd' = [cmd EXCEPT ![p] = command]
  /\ UNCHANGED <<state, world, records, successor, lock, kills, overwrote>>

Fresh == tree = Sealed

-------------------------------------------------------------------------------
(* UpdateRunState: the lock is taken, the transition made, the lock left.  *)

CanAdvance(p) == lock = NoOne /\ AllowedTransition(state, cmd[p].next)

(* What a verify that has reached a state asks for next. *)
After(p) ==
  CASE cmd[p].next = "GATED" -> "REREVIEWED"
    [] cmd[p].next = "REREVIEWED" /\ cmd[p].op = "finalize" -> "FINALIZED"
    [] OTHER -> NoRun

Advance(p) ==
  /\ pc[p] = "advance"
  /\ CanAdvance(p)
  /\ state' = cmd[p].next
  /\ IF cmd[p].op = "refresh" \/ After(p) # NoRun
       THEN /\ pc' = [pc EXCEPT ![p] = IF cmd[p].op = "refresh" THEN "begin" ELSE @]
            /\ cmd' = [cmd EXCEPT ![p].next = After(p)]
            /\ lock' = lock
       ELSE Leave(p)
  /\ UNCHANGED <<world, records, successor, kills, overwrote>>

RefuseAdvance(p) ==
  /\ pc[p] = "advance"
  /\ ~CanAdvance(p)
  /\ Return(p)

(* plan, or record contract *)
StartPlan(p) ==
  /\ state = "PREPARED" /\ Fresh
  /\ Begins(p, "advance", [Nothing EXCEPT !.op = "plan", !.next = "CONTRACTED"])

-------------------------------------------------------------------------------
(* record task and record batch, up to the lock: the results are valid and *)
(* the snapshot was fresh when last looked at.                             *)
StartRecord(p, batch) ==
  /\ state \in Recordable /\ Fresh
  /\ \A r, s \in batch : KeyOf(r) = KeyOf(s) => r = s
  /\ Begins(p, "lock", [Nothing EXCEPT !.op = "record", !.batch = batch])

(* finding confirm, reject and accept-risk: the ledger is read before the  *)
(* lock is taken, in any run state.                                        *)
StartFinding(p, f, decision) ==
  /\ Fresh
  /\ AllowedFindingTransition(ledger[f], decision)
  /\ Begins(p, "lock", [Nothing EXCEPT !.op = "finding", !.ids = {f},
                                       !.seen = ledger, !.next = decision])

(* fix authorize reads run state and ledger before the lock, too. *)
StartFix(p, ids, scope) ==
  /\ state = "REVIEWED" /\ Fresh
  /\ \A f \in ids : ledger[f] = "confirmed"
  /\ Begins(p, "lock", [Nothing EXCEPT !.op = "fix", !.ids = ids, !.scope = scope,
                                       !.seen = ledger, !.next = "fix_authorized"])

AcquireRunLock(p) ==
  /\ Goto(p, "lock", IF cmd[p].op = "record" THEN "check" ELSE "ledger")
  /\ lock = NoOne
  /\ lock' = p
  /\ UNCHANGED <<state, world, records, successor, cmd, kills, overwrote>>

RefuseLock(p) ==
  /\ pc[p] = "lock"
  /\ lock # NoOne
  /\ Return(p)

(* verifyResultIndex: every indexed result is in its file. *)
IndexVerifies == \A r \in index : files[KeyOf(r)] = r

(* Mutant of Recording: the run state is not read again under the lock. *)
RecordingAnyState(p) ==
  /\ IndexVerifies
  /\ \A r \in cmd[p].batch : \A s \in index : KeyOf(r) # KeyOf(s)
  /\ \A f \in FindingsOf(cmd[p].batch) : ledger[f] = Absent

(* Mutant of Recording: a pass may be recorded again. *)
RecordingAgain(p) ==
  /\ state \in Recordable
  /\ IndexVerifies

(* What record checks under the lock: state, index, new passes, new        *)
(* findings.                                                               *)
Recording(p) ==
  /\ state \in Recordable
  /\ IndexVerifies
  /\ \A r \in cmd[p].batch : \A s \in index : KeyOf(r) # KeyOf(s)
  /\ \A f \in FindingsOf(cmd[p].batch) : ledger[f] = Absent

CheckRecord(p) ==
  /\ Recording(p)
  /\ Goto(p, "check", "results")
  /\ cmd' = [cmd EXCEPT ![p].seen = ledger, ![p].loaded = state,
                        ![p].ids = FindingsOf(cmd[p].batch)]
  /\ UNCHANGED <<state, world, records, successor, lock, kills, overwrote>>

RefuseRecord(p) ==
  /\ pc[p] = "check"
  /\ ~Recording(p)
  /\ Return(p)

WriteResult(p, r) ==
  /\ pc[p] = "results" /\ r \in cmd[p].batch
  /\ files[KeyOf(r)] # r
  /\ files' = [files EXCEPT ![KeyOf(r)] = r]
  /\ UNCHANGED <<state, world, index, ledger, approvals, gates, successor, lock,
                 pc, cmd, kills, overwrote>>

WriteIndex(p) ==
  /\ Goto(p, "results", "ledger")
  /\ \A r \in cmd[p].batch : files[KeyOf(r)] = r
  /\ index' = index \cup cmd[p].batch
  /\ UNCHANGED <<state, world, files, ledger, approvals, gates, successor, lock,
                 cmd, kills, overwrote>>

-------------------------------------------------------------------------------
(* Mutant of NewLedger: of a batch, only one finding is imported. *)
NewLedgerOne(p) ==
  [f \in Finding |->
     CASE f \notin cmd[p].ids -> cmd[p].seen[f]
       [] f \in cmd[p].ids /\ cmd[p].op = "record" ->
            IF f = CHOOSE g \in cmd[p].ids : TRUE THEN Imported[f] ELSE Absent
       [] OTHER -> cmd[p].next]

(* The ledger a command writes: the one it read, with its own change.      *)
NewLedger(p) ==
  [f \in Finding |->
     CASE f \notin cmd[p].ids -> cmd[p].seen[f]
       [] f \in cmd[p].ids /\ cmd[p].op = "record" -> Imported[f]
       [] OTHER -> cmd[p].next]

AfterLedger == [record |-> "reviewing", fix |-> "approve"]

WriteLedger(p) ==
  /\ pc[p] = "ledger"
  /\ ledger' = NewLedger(p)
  /\ overwrote' = (overwrote \/ ledger # cmd[p].seen)
  /\ IF cmd[p].op \in DOMAIN AfterLedger
       THEN /\ pc' = [pc EXCEPT ![p] = AfterLedger[cmd[p].op]]
            /\ cmd' = [cmd EXCEPT ![p].seen = Nothing.seen]
            /\ lock' = lock
       ELSE Leave(p)
  /\ UNCHANGED <<state, world, files, index, approvals, gates, successor, kills>>

(* record moves a CONTRACTED run to REVIEWING, and a complete one on to    *)
(* REVIEWED, under its lock.                                               *)
BeginReviewing(p) ==
  /\ Goto(p, "reviewing", "reviewed")
  /\ IF cmd[p].loaded = "CONTRACTED"
       THEN AllowedTransition(state, "REVIEWING") /\ state' = "REVIEWING"
       ELSE state' = state
  /\ UNCHANGED <<world, records, successor, lock, cmd, kills, overwrote>>

(* Mutant of EndRecord: the run is REVIEWED whatever is missing. *)
EndRecordAlways(p) ==
  /\ pc[p] = "reviewed"
  /\ Leave(p)
  /\ AllowedTransition(state, "REVIEWED") /\ state' = "REVIEWED"
  /\ UNCHANGED <<world, records, successor, kills, overwrote>>

EndRecord(p) ==
  /\ pc[p] = "reviewed"
  /\ Leave(p)
  /\ IF Complete(index)
       THEN AllowedTransition(state, "REVIEWED") /\ state' = "REVIEWED"
       ELSE state' = state
  /\ UNCHANGED <<world, records, successor, kills, overwrote>>

(* Mutant of WriteApproval: the run is moved on before it is written. *)
WriteApprovalLate(p) ==
  /\ cmd[p].op = "fix"
  /\ Goto(p, "approve", "authorize")
  /\ UNCHANGED <<state, world, records, successor, lock, cmd, kills, overwrote>>

(* fix: approvals/fix-<digest>.json *)
WriteApproval(p) ==
  /\ cmd[p].op = "fix"
  /\ Goto(p, "approve", "authorize")
  /\ approvals' = approvals \cup
       {[ids |-> cmd[p].ids, scope |-> cmd[p].scope, live |-> TRUE]}
  /\ UNCHANGED <<state, world, files, index, ledger, gates, successor, lock, cmd,
                 kills, overwrote>>

AuthorizeFix(p) ==
  /\ pc[p] = "authorize"
  /\ AllowedTransition(state, "FIX_AUTHORIZED")
  /\ state' = "FIX_AUTHORIZED"
  /\ Leave(p)
  /\ UNCHANGED <<world, records, successor, kills, overwrote>>

(* The run has moved on since fix looked: ledger and approval stay. *)
RefuseFix(p) ==
  /\ pc[p] = "authorize"
  /\ ~AllowedTransition(state, "FIX_AUTHORIZED")
  /\ Return(p)

(* AppendEvent is refused: a command that holds no run lock has            *)
(* events.lock.  What was written before it stays.                         *)
RefuseEvent(p) ==
  /\ pc[p] \in {"reviewing", "reviewed", "authorize", "advance"}
  /\ Return(p)

-------------------------------------------------------------------------------
(* gates run: the evidence is written, without the run lock, only when     *)
(* every blocking gate passed and the worktree is still the sealed one.    *)
StartGates(p) ==
  /\ state = "REVIEWED" /\ Fresh
  /\ Begins(p, "gating", [Nothing EXCEPT !.op = "gates"])

PassGates(p) ==
  /\ pc[p] = "gating" /\ Fresh
  /\ gates' = "pass"
  /\ Leave(p)
  /\ UNCHANGED <<state, world, files, index, ledger, approvals, successor, kills,
                 overwrote>>

FailGates(p) == pc[p] = "gating" /\ Return(p)

(* verify and finalize read run state and index, then the ledger, then the *)
(* gate evidence, without the lock.  An index that does not verify ends    *)
(* them; in other run states they only write a report.                     *)
StartVerify(p, op) ==
  /\ state \in {"REVIEWED", "REREVIEWED"} /\ Fresh
  /\ index # {} /\ IndexVerifies
  /\ Begins(p, "read", [Nothing EXCEPT !.op = op, !.loaded = state, !.batch = index])

ReadLedger(p) ==
  /\ Goto(p, "read", "judge")
  /\ cmd' = [cmd EXCEPT ![p].seen = ledger]
  /\ UNCHANGED <<state, world, records, successor, lock, kills, overwrote>>

(* The first state a ready report asks for, given the state it was loaded  *)
(* in.                                                                     *)
FirstMove(p) ==
  CASE cmd[p].loaded = "REVIEWED" -> "GATED"
    [] cmd[p].loaded = "REREVIEWED" /\ cmd[p].op = "finalize" -> "FINALIZED"
    [] OTHER -> NoRun

Moves(p) ==
  FirstMove(p) # NoRun /\ Ready(cmd[p].batch, cmd[p].seen, lapsed, gates)

Judge(p) ==
  /\ Goto(p, "judge", "advance")
  /\ Moves(p)
  /\ cmd' = [cmd EXCEPT ![p] = [Nothing EXCEPT !.op = cmd[p].op, !.next = FirstMove(p)]]
  /\ UNCHANGED <<state, world, records, successor, lock, kills, overwrote>>

JudgeNotReady(p) ==
  /\ pc[p] = "judge"
  /\ ~Moves(p)
  /\ Return(p)

-------------------------------------------------------------------------------
(* Mutant of Matching: any authorization will do. *)
MatchingAny(scope) == \E a \in approvals : a.live

(* An unexpired authorization has exactly the scope of the mutation. *)
Matching(scope) == \E a \in approvals : a.live /\ a.scope = scope

(* refresh captures the worktree and finds an authorization for it.        *)
StartRefresh(p) ==
  /\ state = "FIX_AUTHORIZED"
  /\ ~Fresh /\ Matching(tree)
  /\ Begins(p, "advance", [Nothing EXCEPT !.op = "refresh", !.next = "MUTATED",
                                          !.scope = tree])

BeginRun(p) ==
  /\ pc[p] = "begin"
  /\ successor' = cmd[p].scope
  /\ Leave(p)
  /\ UNCHANGED <<state, world, records, kills, overwrote>>

(* BeginClassifiedRun is refused: a garbage collection holds gc.lock. *)
RefuseBegin(p) == pc[p] = "begin" /\ Return(p)

-------------------------------------------------------------------------------
(* The worktree is edited, by the fixer or by anybody else. *)
Edit(change) ==
  /\ tree' = change
  /\ UNCHANGED <<state, lapsed, records, successor, lock, pc, cmd, kills, overwrote>>

(* Time passes an expiry date. *)
LapseRisk(f) ==
  /\ ledger[f] = "accepted_risk"
  /\ lapsed' = lapsed \cup {f}
  /\ UNCHANGED <<state, tree, records, successor, lock, pc, cmd, kills, overwrote>>

LapseApproval(a) ==
  /\ a.live
  /\ approvals' = (approvals \ {a}) \cup {[a EXCEPT !.live = FALSE]}
  /\ UNCHANGED <<state, world, files, index, ledger, gates, successor, lock, pc, cmd,
                 kills, overwrote>>

Kill(p) ==
  /\ pc[p] # "idle"
  /\ kills < MaxKills
  /\ kills' = kills + 1
  /\ Leave(p)
  /\ UNCHANGED <<state, world, records, successor, overwrote>>

-------------------------------------------------------------------------------
Decision == {"confirmed", "rejected", "accepted_risk"}

Batches == {b \in SUBSET Result : b # {} /\ Cardinality(b) <= MaxBatch}

Start(p) ==
  \/ StartPlan(p) \/ StartGates(p) \/ StartRefresh(p)
  \/ \E batch \in Batches : StartRecord(p, batch)
  \/ \E f \in Finding, decision \in Decision : StartFinding(p, f, decision)
  \/ \E ids \in (SUBSET Finding) \ {{}}, scope \in Scope : StartFix(p, ids, scope)
  \/ \E op \in {"verify", "finalize"} : StartVerify(p, op)

Step(p) ==
  \/ Advance(p) \/ RefuseAdvance(p) \/ AcquireRunLock(p) \/ RefuseLock(p)
  \/ CheckRecord(p) \/ RefuseRecord(p) \/ WriteIndex(p) \/ WriteLedger(p)
  \/ BeginReviewing(p) \/ EndRecord(p)
  \/ WriteApproval(p) \/ AuthorizeFix(p) \/ RefuseFix(p) \/ RefuseEvent(p)
  \/ PassGates(p) \/ FailGates(p)
  \/ ReadLedger(p) \/ Judge(p) \/ JudgeNotReady(p)
  \/ BeginRun(p) \/ RefuseBegin(p)
  \/ \E r \in cmd[p].batch : WriteResult(p, r)

Environment ==
  \/ \E change \in Scope \cup {Sealed} : Edit(change)
  \/ \E f \in Finding : LapseRisk(f)
  \/ \E a \in approvals : LapseApproval(a)

Next ==
  \/ \E p \in Proc : Start(p) \/ Step(p) \/ Kill(p)
  \/ Environment

Spec == Init /\ [][Next]_vars

-------------------------------------------------------------------------------
Pc == {"idle", "lock", "check", "results", "ledger", "reviewing", "reviewed",
       "approve", "authorize", "gating", "read", "judge", "advance", "begin"}

Op == {"none", "plan", "record", "finding", "fix", "gates", "verify", "finalize",
       "refresh"}

Command ==
  [op : Op, batch : SUBSET Result, ids : SUBSET Finding, seen : Ledger,
   loaded : State \cup {NoRun}, next : State \cup FindingState \cup {NoRun},
   scope : Scope \cup {Sealed}]

(* The types of the variables. *)
TypeOK ==
  /\ state \in State
  /\ tree \in Scope \cup {Sealed}
  /\ files \in [Key -> Result \cup {NoResult}]
  /\ index \in SUBSET Result
  /\ ledger \in Ledger
  /\ lapsed \in SUBSET Finding
  /\ approvals \in
       SUBSET [ids : SUBSET Finding, scope : Scope, live : BOOLEAN]
  /\ gates \in {"not_run", "pass"}
  /\ successor \in Scope \cup {Sealed}
  /\ lock \in Proc \cup {NoOne}
  /\ pc \in [Proc -> Pc]
  /\ cmd \in [Proc -> Command]
  /\ kills \in Nat
  /\ overwrote \in BOOLEAN

(* verify can always rely on the index: whatever was killed or retried,    *)
(* every indexed pass has its file, with the very content it was recorded  *)
(* with, and no pass is indexed twice.                                     *)
IndexMatchesFiles ==
  /\ IndexVerifies
  /\ \A r, s \in index : KeyOf(r) = KeyOf(s) => r = s

(* A run is past REVIEWING only with every task's passes and perspectives  *)
(* in its index, also when the command that completed it was killed.       *)
ReviewedIsComplete ==
  state \notin {"PREPARED", "CONTRACTED", "REVIEWING"} => Complete(index)

(* Nobody adds evidence to a run that has been judged complete: verify     *)
(* reads the index without the lock.                                       *)
EvidenceFrozen ==
  [][state \notin Recordable => index' = index /\ files' = files]_vars

(* Without kills and without a ledger written over, every finding of an    *)
(* indexed result is in the ledger, or the command that brings it is still *)
(* at it.                                                                  *)
FindingsImported ==
  kills = 0 /\ ~overwrote =>
    \A f \in FindingsOf(index) :
      \/ ledger[f] # Absent
      \/ \E p \in Proc : pc[p] = "ledger" /\ cmd[p].op = "record" /\ f \in cmd[p].ids

(* verify decides on a ledger and on evidence it read without the lock.    *)
(* Unless a ledger was written over, what it decided is still so: the      *)
(* verdict "ready" holds of the records of a run it has moved on, risks    *)
(* that expired since aside.                                               *)
VerdictStands ==
  ~overwrote /\ state \in {"GATED", "REREVIEWED", "FINALIZED"} =>
    Ready(index, ledger, {}, gates)

(* A run is FIX_AUTHORIZED by an authorization on disk all of whose        *)
(* findings the ledger has as fix_authorized.                              *)
AuthorizedByRecord ==
  ~overwrote /\ state \in {"FIX_AUTHORIZED", "MUTATED"} =>
    \E a \in approvals : \A f \in a.ids : ledger[f] = "fix_authorized"

(* The run that refresh begins is of a worktree whose every change was     *)
(* authorized, and the old run is MUTATED by then.                         *)
RefreshedAsAuthorized ==
  successor # Sealed =>
    state = "MUTATED" /\ \E a \in approvals : a.scope = successor

(* docs/adr/0003: `ready` means that the declared scope satisfies its      *)
(* coverage, finding and gate requirements.  So no serious finding of an   *)
(* indexed result is open, or missing, when a run is FINALIZED.            *)
FinalizedIsSettled ==
  state = "FINALIZED" =>
    \A f \in FindingsOf(index) \cap Serious : ledger[f] \in Settled
===============================================================================
