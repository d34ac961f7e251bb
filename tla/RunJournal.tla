------------------------------- MODULE RunJournal -------------------------------
(***************************************************************************)
(* One run directory of internal/store: run.json and its write-ahead event *)
(* journal, under the commands that change them, the run's write.lock and  *)
(* events.lock, and archive.json.                                          *)
(*                                                                         *)
(* A process is one command.  It may be killed at any step; nothing of its *)
(* memory survives, so a killed or finished process is idle again and      *)
(* stands for the next one.  The two locks are RunMutex's: a killed holder *)
(* yields (RunLock shows when the lock files keep that promise).           *)
(*                                                                         *)
(* replay is what runJournalState returns for the journal.  It is carried  *)
(* along event by event instead of being computed again by every reader;   *)
(* ReplayIsChain says what it has to return.                               *)
(***************************************************************************)
EXTENDS RunStates, Naturals, Sequences

CONSTANTS
  Proc,        (* processes                                                *)
  NoOne,       (* the holder of a free lock                                *)
  NoArchive,   (* archive.json does not exist                              *)
  MaxEvents,   (* bound: no command starts once the journal is this long   *)
  MaxKills     (* bound: processes killed                                  *)

(* archive.json: how many events its digest covers, and the run's state. *)
ArchiveRecord == [events : Nat, state : State \cup {NoRun}]

ASSUME JournalConstants ==
  /\ NoOne \notin Proc
  /\ NoArchive \notin ArchiveRecord
  /\ MaxEvents \in Nat
  /\ MaxKills \in Nat

VARIABLES
  runJson,      (* the state in run.json, or NoRun                         *)
  sealed,       (* snapshot.json is there                                  *)
  journal,      (* the lines of events.jsonl                               *)
  replay,       (* the state the journal replays to                        *)
  torn,         (* the last line was cut off by a kill                     *)
  archive,      (* archive.json: the events its digest covers              *)
  writeLock,    (* holder of locks/write.lock                              *)
  eventsLock,   (* holder of locks/events.lock                             *)
  pc,           (* where each process is                                   *)
  op,           (* the store operation it is in                            *)
  prev,         (* run.State as it read it                                 *)
  target,       (* the state it is about to record                         *)
  digest,       (* runContentDigest, as the number of events it covers     *)
  kills

disk == <<runJson, sealed, journal, replay, torn, archive>>
local == <<op, prev, target, digest>>
vars == <<disk, writeLock, eventsLock, pc, local, kills>>

(* runJournalState's answers beside a state: an empty journal, an error.   *)
Invalid == "INVALID"

Event ==
  [type : {"run_prepared", "state_transition", "note", "run_recovered",
           "run_archived"},
   from : State \cup {NoRun}, to : State \cup {NoRun}]

(* Mutant of Replay: a transition that does not fit is skipped. *)
ReplayLenient(derived, event) ==
  CASE derived = NoRun /\ event.type = "run_prepared" -> "PREPARED"
    [] derived \in State /\ event.type = "state_transition"
       /\ event.from = derived -> event.to
    [] OTHER -> derived

(* One iteration of runJournalState: the first event must be run_prepared, *)
(* a transition must leave the state derived so far along an allowed edge. *)
Replay(derived, event) ==
  CASE derived = NoRun ->
         IF event.type = "run_prepared" THEN "PREPARED" ELSE Invalid
    [] derived \in State /\ event.type = "state_transition" ->
         IF event.from = derived /\ AllowedTransition(derived, event.to)
           THEN event.to ELSE Invalid
    [] OTHER -> derived

(* VerifyEventChain and VerifyRunJournal succeed. *)
JournalReads == ~torn /\ replay \in State

(* LoadRun succeeds. *)
Loads == archive = NoArchive /\ sealed /\ JournalReads /\ replay = runJson

(* run states ArchiveRun accepts *)
Archivable == {"FINALIZED", "EXPORTED", "BLOCKED"}

(* The transitions the commands ask for: plan, record, fix, refresh,       *)
(* verify and export.  None asks for BLOCKED.                              *)
Target ==
  {"CONTRACTED", "REVIEWING", "REVIEWED", "FIX_AUTHORIZED", "MUTATED",
   "GATED", "REREVIEWED", "FINALIZED", "EXPORTED"}

LastType == journal[Len(journal)].type

-------------------------------------------------------------------------------
Init ==
  /\ runJson = NoRun
  /\ sealed = FALSE
  /\ journal = <<>>
  /\ replay = NoRun
  /\ torn = FALSE
  /\ archive = NoArchive
  /\ writeLock = NoOne
  /\ eventsLock = NoOne
  /\ pc = [p \in Proc |-> "idle"]
  /\ op = [p \in Proc |-> "none"]
  /\ prev = [p \in Proc |-> NoRun]
  /\ target = [p \in Proc |-> NoRun]
  /\ digest = [p \in Proc |-> 0]
  /\ kills = 0

Goto(p, from, to) ==
  /\ pc[p] = from
  /\ pc' = [pc EXCEPT ![p] = to]

(* Nothing of a command outlives it. *)
Forget(p) ==
  /\ op' = [op EXCEPT ![p] = "none"]
  /\ prev' = [prev EXCEPT ![p] = NoRun]
  /\ target' = [target EXCEPT ![p] = NoRun]
  /\ digest' = [digest EXCEPT ![p] = 0]

Begins(p, operation, first) ==
  /\ Goto(p, "idle", first)
  /\ op' = [op EXCEPT ![p] = operation]
  /\ Len(journal) < MaxEvents

(* The command gives up or is done: its deferred Releases run. *)
Return(p) ==
  /\ pc' = [pc EXCEPT ![p] = "idle"]
  /\ writeLock' = IF writeLock = p THEN NoOne ELSE writeLock
  /\ eventsLock' = IF eventsLock = p THEN NoOne ELSE eventsLock
  /\ Forget(p)
  /\ UNCHANGED <<disk, kills>>

-------------------------------------------------------------------------------
(* BeginClassifiedRun: run.json, then snapshot.json, then the first event. *)
BeginRun(p) ==
  /\ runJson = NoRun
  /\ Begins(p, "begin", "seal")
  /\ runJson' = "PREPARED"
  /\ UNCHANGED <<sealed, journal, replay, torn, archive, writeLock, eventsLock,
                 prev, target, digest, kills>>

WriteSnapshot(p) ==
  /\ op[p] = "begin"
  /\ Goto(p, "seal", "mutable")
  /\ sealed' = TRUE
  /\ UNCHANGED <<runJson, journal, replay, torn, archive, writeLock, eventsLock,
                 local, kills>>

(* A command has loaded the run and decides to move it to next. *)
StartUpdate(p, next) ==
  /\ Loads
  /\ AllowedTransition(runJson, next)
  /\ Begins(p, "update", "lock")
  /\ target' = [target EXCEPT ![p] = next]
  /\ UNCHANGED <<disk, writeLock, eventsLock, prev, digest, kills>>

(* A command that records an event without the run lock (gates plan,       *)
(* gates run, packet contract, public export).                             *)
StartNote(p) ==
  /\ Loads
  /\ Begins(p, "note", "mutable")
  /\ UNCHANGED <<disk, writeLock, eventsLock, prev, target, digest, kills>>

(* recover and run archive do not load the run first. *)
StartRecover(p) ==
  /\ runJson # NoRun
  /\ Begins(p, "recover", "lock")
  /\ UNCHANGED <<disk, writeLock, eventsLock, prev, target, digest, kills>>

StartArchive(p) ==
  /\ runJson # NoRun
  /\ Begins(p, "archive", "lock")
  /\ UNCHANGED <<disk, writeLock, eventsLock, prev, target, digest, kills>>

-------------------------------------------------------------------------------
(* AcquireRunLock *)
Lock(p) ==
  /\ Goto(p, "lock", "check")
  /\ writeLock = NoOne
  /\ writeLock' = p
  /\ UNCHANGED <<disk, eventsLock, local, kills>>

RefuseLock(p) ==
  /\ pc[p] = "lock"
  /\ writeLock # NoOne
  /\ Return(p)

(* Mutant of UpdateAllowed: the state loaded before the lock is trusted. *)
UpdateUnchecked(p) == archive = NoArchive

(* UpdateRunStateHeld up to AppendEvent: run.json is read again under the  *)
(* lock, the journal is not.                                               *)
UpdateAllowed(p) == archive = NoArchive /\ AllowedTransition(runJson, target[p])

(* Mutant of CheckUpdate: run.json is replaced without its event first. *)
CheckUpdateNoEvent(p) ==
  /\ op[p] = "update"
  /\ UpdateAllowed(p)
  /\ Goto(p, "check", "write")
  /\ prev' = [prev EXCEPT ![p] = runJson]
  /\ UNCHANGED <<disk, writeLock, eventsLock, op, target, digest, kills>>

CheckUpdate(p) ==
  /\ op[p] = "update"
  /\ UpdateAllowed(p)
  /\ Goto(p, "check", "mutable")
  /\ prev' = [prev EXCEPT ![p] = runJson]
  /\ UNCHANGED <<disk, writeLock, eventsLock, op, target, digest, kills>>

RefuseUpdate(p) ==
  /\ op[p] = "update" /\ pc[p] = "check"
  /\ ~UpdateAllowed(p)
  /\ Return(p)

(* RecoverRun up to its write of run.json; the operator has echoed the     *)
(* derived state.                                                          *)
RecoverNeeded == sealed /\ JournalReads /\ replay # runJson

CheckRecover(p) ==
  /\ op[p] = "recover"
  /\ RecoverNeeded
  /\ Goto(p, "check", "write")
  /\ prev' = [prev EXCEPT ![p] = runJson]
  /\ target' = [target EXCEPT ![p] = replay]
  /\ UNCHANGED <<disk, writeLock, eventsLock, op, digest, kills>>

(* Nothing to repair, a journal that does not read, or another echo. *)
RefuseRecover(p) ==
  /\ op[p] = "recover" /\ pc[p] = "check"
  /\ Return(p)

(* Mutant of ArchiveAllowed: run.json is not compared with the journal. *)
ArchiveUnverified ==
  /\ archive = NoArchive
  /\ runJson \in Archivable
  /\ JournalReads

(* ArchiveRun up to the archive event, which an interrupted archive may    *)
(* have left behind.                                                       *)
ArchiveAllowed ==
  /\ archive = NoArchive
  /\ runJson \in Archivable
  /\ JournalReads /\ replay = runJson

CheckArchive(p) ==
  /\ op[p] = "archive"
  /\ ArchiveAllowed
  /\ Goto(p, "check", IF LastType = "run_archived" THEN "digest" ELSE "mutable")
  /\ UNCHANGED <<disk, writeLock, eventsLock, local, kills>>

(* Not archivable, or the event left behind has another payload. *)
RefuseArchive(p) ==
  /\ op[p] = "archive" /\ pc[p] = "check"
  /\ ArchiveAllowed => LastType = "run_archived"
  /\ Return(p)

-------------------------------------------------------------------------------
(* AppendEvent: ensureRunMutable, then events.lock, then one line. *)
Mutable(p) ==
  /\ Goto(p, "mutable", "events")
  /\ archive = NoArchive
  /\ UNCHANGED <<disk, writeLock, eventsLock, local, kills>>

RefuseArchived(p) ==
  /\ pc[p] = "mutable"
  /\ archive # NoArchive
  /\ Return(p)

LockEvents(p) ==
  /\ Goto(p, "events", "append")
  /\ eventsLock = NoOne
  /\ eventsLock' = p
  /\ UNCHANGED <<disk, writeLock, local, kills>>

RefuseEvents(p) ==
  /\ pc[p] = "events"
  /\ eventsLock # NoOne
  /\ Return(p)

Transition(p) ==
  [type |-> "state_transition", from |-> prev[p], to |-> target[p]]

Plain(type) == [type |-> type, from |-> NoRun, to |-> NoRun]

EventOf(p) ==
  CASE op[p] = "begin"   -> Plain("run_prepared")
    [] op[p] = "update"  -> Transition(p)
    [] op[p] = "recover" -> Plain("run_recovered")
    [] op[p] = "archive" -> Plain("run_archived")
    [] OTHER             -> Plain("note")

AfterAppend ==
  [begin |-> "release", update |-> "write", note |-> "release",
   recover |-> "release", archive |-> "digest"]

AppendLine(p) ==
  /\ op[p] \in DOMAIN AfterAppend
  /\ Goto(p, "append", AfterAppend[op[p]])
  /\ ~torn
  /\ journal' = Append(journal, EventOf(p))
  /\ replay' = Replay(replay, EventOf(p))
  /\ eventsLock' = NoOne
  /\ UNCHANGED <<runJson, sealed, torn, archive, writeLock, local, kills>>

(* lastEvent cannot decode the journal. *)
RefuseTorn(p) ==
  /\ pc[p] = "append"
  /\ torn
  /\ Return(p)

-------------------------------------------------------------------------------
(* run.json is replaced: by an update after its event, by recover before.  *)
WriteRun(p) ==
  /\ op[p] \in {"update", "recover"}
  /\ Goto(p, "write", IF op[p] = "update" THEN "release" ELSE "mutable")
  /\ runJson' = target[p]
  /\ UNCHANGED <<sealed, journal, replay, torn, archive, writeLock, eventsLock,
                 local, kills>>

(* runContentDigest, and then archive.json. *)
Digest(p) ==
  /\ op[p] = "archive"
  /\ Goto(p, "digest", "archiving")
  /\ digest' = [digest EXCEPT ![p] = Len(journal)]
  /\ UNCHANGED <<disk, writeLock, eventsLock, op, prev, target, kills>>

WriteArchive(p) ==
  /\ op[p] = "archive"
  /\ Goto(p, "archiving", "release")
  /\ archive' = [events |-> digest[p], state |-> runJson]
  /\ UNCHANGED <<runJson, sealed, journal, replay, torn, writeLock, eventsLock,
                 local, kills>>

Finish(p) ==
  /\ pc[p] = "release"
  /\ Return(p)

(* record moves on from REVIEWING under the same lock. *)
ContinueHeld(p) ==
  /\ op[p] = "update" /\ target[p] = "REVIEWING"
  /\ Goto(p, "release", "check")
  /\ target' = [target EXCEPT ![p] = "REVIEWED"]
  /\ UNCHANGED <<disk, writeLock, eventsLock, op, prev, digest, kills>>

(* verify takes the lock again for its next state without loading again.   *)
VerifyNext == [GATED |-> "REREVIEWED", REREVIEWED |-> "FINALIZED"]

ContinueVerify(p) ==
  /\ op[p] = "update" /\ target[p] \in DOMAIN VerifyNext
  /\ Goto(p, "release", "lock")
  /\ target' = [target EXCEPT ![p] = VerifyNext[target[p]]]
  /\ writeLock' = IF writeLock = p THEN NoOne ELSE writeLock
  /\ UNCHANGED <<disk, eventsLock, op, prev, digest, kills>>

-------------------------------------------------------------------------------
(* The process is killed; in AppendEvent, possibly with half a line out.   *)
Kill(p) ==
  /\ pc[p] # "idle"
  /\ kills < MaxKills
  /\ kills' = kills + 1
  /\ pc' = [pc EXCEPT ![p] = "idle"]
  /\ writeLock' = IF writeLock = p THEN NoOne ELSE writeLock
  /\ eventsLock' = IF eventsLock = p THEN NoOne ELSE eventsLock
  /\ torn' \in IF pc[p] = "append" THEN {torn, TRUE} ELSE {torn}
  /\ Forget(p)
  /\ UNCHANGED <<runJson, sealed, journal, replay, archive>>

Start(p) ==
  \/ BeginRun(p) \/ StartNote(p) \/ StartRecover(p) \/ StartArchive(p)
  \/ \E next \in Target : StartUpdate(p, next)

Step(p) ==
  \/ WriteSnapshot(p) \/ Lock(p) \/ RefuseLock(p)
  \/ CheckUpdate(p) \/ RefuseUpdate(p) \/ CheckRecover(p) \/ RefuseRecover(p)
  \/ CheckArchive(p) \/ RefuseArchive(p)
  \/ Mutable(p) \/ RefuseArchived(p) \/ LockEvents(p) \/ RefuseEvents(p)
  \/ AppendLine(p) \/ RefuseTorn(p) \/ WriteRun(p) \/ Digest(p) \/ WriteArchive(p)
  \/ Finish(p) \/ ContinueHeld(p) \/ ContinueVerify(p)

Next == \E p \in Proc : Start(p) \/ Step(p) \/ Kill(p)

Spec == Init /\ [][Next]_vars

-------------------------------------------------------------------------------
Pc == {"idle", "seal", "lock", "check", "mutable", "events", "append", "write",
       "digest", "archiving", "release"}

Op == {"none", "begin", "update", "note", "recover", "archive"}

DiskOK ==
  /\ runJson \in State \cup {NoRun}
  /\ sealed \in BOOLEAN
  /\ journal \in Seq(Event)
  /\ replay \in State \cup {NoRun, Invalid}
  /\ torn \in BOOLEAN
  /\ archive \in ArchiveRecord \cup {NoArchive}

CommandsOK ==
  /\ writeLock \in Proc \cup {NoOne}
  /\ eventsLock \in Proc \cup {NoOne}
  /\ pc \in [Proc -> Pc]
  /\ op \in [Proc -> Op]
  /\ prev \in [Proc -> State \cup {NoRun}]
  /\ target \in [Proc -> State \cup {NoRun}]
  /\ digest \in [Proc -> Nat]
  /\ kills \in Nat

TypeOK == DiskOK /\ CommandsOK

(* run.json never runs ahead of its journal and never lags it by more than *)
(* one transition, whoever was killed between the event and the write.     *)
WriteAheadLag ==
  replay # Invalid =>
    \/ runJson = replay
    \/ AllowedTransition(runJson, replay)
    \/ runJson = "PREPARED" /\ replay = NoRun

(* What a journal says when it is read as a whole: the state its first n   *)
(* events lead to is where the last transition among them went.            *)
Moves(events, n) == {i \in 1..n : events[i].type = "state_transition"}

LastMove(events, n) ==
  CHOOSE i \in Moves(events, n) : \A j \in Moves(events, n) : j <= i

EndOf(events, n) ==
  IF Moves(events, n) = {} THEN "PREPARED" ELSE events[LastMove(events, n)].to

(* A journal is a chain: it begins with run_prepared, and its transitions, *)
(* whatever else was recorded between them, form one path of allowed edges *)
(* from PREPARED.                                                          *)
IsChain(events) ==
  /\ events # <<>> /\ events[1].type = "run_prepared"
  /\ \A i \in Moves(events, Len(events)) :
       /\ events[i].from = EndOf(events, i - 1)
       /\ AllowedTransition(events[i].from, events[i].to)

(* runJournalState accepts exactly the journals that are such a chain, and *)
(* answers with its end.                                                   *)
ReplayIsChain ==
  IF IsChain(journal) THEN replay = EndOf(journal, Len(journal))
                      ELSE replay \notin State

(* With nobody killed a free write.lock means that run.json and journal    *)
(* agree, and no interleaving of commands can make the journal invalid.    *)
AgreeWhenUnlocked ==
  kills = 0 =>
    /\ replay # Invalid
    /\ writeLock = NoOne /\ replay # NoRun => runJson = replay

(* run.json moves along the allowed transitions only: also when a recovery *)
(* writes it, and also when a second command follows a killed one.         *)
Lifecycle == INSTANCE RunLifecycle WITH state <- runJson
FollowsLifecycle == Lifecycle!Spec

(* Once archive.json is there, run.json keeps the state it was archived in *)
(* and the journal keeps replaying to it.                                  *)
ArchiveFreezesState ==
  archive # NoArchive => runJson = archive.state /\ replay = archive.state

(* A run is archived once, and run.json is never written again.            *)
ArchiveIsFinal ==
  [][archive # NoArchive => archive' = archive /\ runJson' = runJson]_vars

(* A journal is spoiled for good only by a command that had loaded the run *)
(* before another one was killed between its event and run.json, and that  *)
(* appends a transition from the run.json left behind.  Without a kill, or *)
(* once LoadRun or recover have seen the gap, nobody spoils it.            *)
SpoiledOnlyByLag ==
  [][replay # Invalid /\ replay' = Invalid =>
       /\ kills > 0
       /\ replay \in State /\ AllowedTransition(runJson, replay)
       /\ \E p \in Proc : op[p] = "update" /\ prev[p] = runJson /\ writeLock = p]_vars

-------------------------------------------------------------------------------
(* The inductive invariant behind the properties above.                    *)

(* Past AcquireRunLock, a command that takes the run lock has it. *)
HoldsLock ==
  \A p \in Proc :
    op[p] \in {"update", "recover", "archive"} /\ pc[p] \notin {"idle", "lock"}
      => writeLock = p

(* Whoever has loaded or verified the run has seen a first event. *)
SawJournal ==
  \A p \in Proc :
    /\ op[p] \in {"update", "note"} => replay # NoRun
    /\ op[p] \in {"recover", "archive"} /\ pc[p] \notin {"lock", "check"}
         => replay # NoRun
    /\ op[p] = "begin" => runJson # NoRun

(* What an update read under the lock is still so when it appends and when *)
(* it writes.                                                              *)
UpdateBound ==
  \A p \in Proc : op[p] = "update" =>
    /\ pc[p] \in {"mutable", "events", "append", "write"} =>
         archive = NoArchive /\ AllowedTransition(runJson, target[p])
    /\ pc[p] \in {"mutable", "events", "append"} => prev[p] = runJson
    /\ pc[p] = "write" => replay \in {target[p], Invalid}

RecoverBound ==
  \A p \in Proc : op[p] = "recover" /\ pc[p] = "write" =>
    replay \in State /\ target[p] = replay /\ runJson # replay

ArchiveBound ==
  \A p \in Proc :
    op[p] = "archive"
    /\ pc[p] \in {"mutable", "events", "append", "digest", "archiving"} =>
         archive = NoArchive /\ replay \in State /\ runJson = replay

ArchivedReads == archive # NoArchive => replay \in State

(* Without a kill, only an update about to write run.json lets it lag.     *)
LagHasWriter ==
  kills = 0 =>
    /\ replay # Invalid
    /\ \/ replay = NoRun
       \/ runJson = replay
       \/ \E p \in Proc : op[p] = "update" /\ pc[p] = "write"

IInv ==
  /\ HoldsLock
  /\ SawJournal
  /\ UpdateBound
  /\ RecoverBound
  /\ ArchiveBound
  /\ LagHasWriter
  /\ WriteAheadLag
  /\ ArchiveFreezesState
  /\ ArchivedReads
===============================================================================
