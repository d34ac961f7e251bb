---------------------------- MODULE RunJournalProofs ----------------------------
(***************************************************************************)
(* What holds of a run directory for every number of commands, kills and   *)
(* events: run.json lags its journal by at most one transition, moves only *)
(* along the allowed edges, and stands still once the run is archived.     *)
(***************************************************************************)
EXTENDS RunJournal, Recursion

(* What the table of transitions allows: edges between two different      *)
(* states, and none out of what is not a state.                            *)
LEMMA Edges ==
  /\ NoRun \notin State /\ Invalid \notin State /\ NoRun # Invalid
  /\ "PREPARED" \in State
  /\ Target \subseteq State
  /\ \A s, t : AllowedTransition(s, t) => s \in State /\ t \in State /\ s # t
<1>1. NoRun \notin State /\ Invalid \notin State /\ NoRun # Invalid
  BY DEF NoRun, State, Invalid
<1>2. "PREPARED" \in State /\ Target \subseteq State
  BY DEF State, Target
<1>3. ASSUME NEW s \in State PROVE s \notin Allowed[s] /\ Allowed[s] \subseteq State
  BY <1>3 DEF State, Allowed
<1>4. QED
  BY <1>1, <1>2, <1>3 DEF AllowedTransition

(* Replaying one more event gives a state or an error. *)
LEMMA ReplayType ==
  ASSUME NEW s \in State \cup {NoRun, Invalid}, NEW e \in Event
  PROVE  Replay(s, e) \in State \cup {NoRun, Invalid}
BY Edges DEF Replay

(* What a command is about to append is an event of the journal. *)
LEMMA EventType ==
  ASSUME CommandsOK, NEW p \in Proc
  PROVE  EventOf(p) \in Event
BY Edges DEF CommandsOK, EventOf, Transition, Plain, Event

(* Every variable of the commands keeps its type. *)
LEMMA CommandsTyping == CommandsOK /\ DiskOK /\ [Next]_vars => CommandsOK'
<1> SUFFICES ASSUME CommandsOK, DiskOK, [Next]_vars PROVE CommandsOK'
  OBVIOUS
<1> USE Edges DEF CommandsOK, Goto, Begins, Return, Forget, local, Pc, Op
<1>1. CASE UNCHANGED vars
  BY <1>1 DEF vars
<1>2. ASSUME NEW p \in Proc,
             BeginRun(p) \/ StartNote(p) \/ StartRecover(p) \/ StartArchive(p)
      PROVE  CommandsOK'
  BY <1>2 DEF BeginRun, StartNote, StartRecover, StartArchive
<1>3. ASSUME NEW p \in Proc, NEW next \in Target, StartUpdate(p, next)
      PROVE  CommandsOK'
  BY <1>3 DEF StartUpdate
<1>4. ASSUME NEW p \in Proc, Return(p)
      PROVE  CommandsOK'
  BY <1>4
<1>5. ASSUME NEW p \in Proc,
             \/ WriteSnapshot(p) \/ Lock(p) \/ Mutable(p) \/ LockEvents(p)
             \/ CheckArchive(p) \/ WriteRun(p) \/ WriteArchive(p)
      PROVE  CommandsOK'
  BY <1>5 DEF WriteSnapshot, Lock, Mutable, LockEvents, CheckArchive, WriteRun,
              WriteArchive
<1>6. ASSUME NEW p \in Proc, CheckUpdate(p) \/ CheckRecover(p)
      PROVE  CommandsOK'
  <2>1. CASE CheckUpdate(p)
    BY <2>1 DEF CheckUpdate, DiskOK
  <2>2. CASE CheckRecover(p)
    BY <2>2 DEF CheckRecover, DiskOK, RecoverNeeded, JournalReads
  <2>3. QED
    BY <1>6, <2>1, <2>2
<1>7. ASSUME NEW p \in Proc, AppendLine(p)
      PROVE  CommandsOK'
  BY <1>7 DEF AppendLine, AfterAppend
<1>8. ASSUME NEW p \in Proc, Digest(p)
      PROVE  CommandsOK'
  BY <1>8 DEF Digest, DiskOK
<1>9. ASSUME NEW p \in Proc, ContinueHeld(p) \/ ContinueVerify(p)
      PROVE  CommandsOK'
  BY <1>9 DEF ContinueHeld, ContinueVerify, VerifyNext, State
<1>10. ASSUME NEW p \in Proc, Kill(p)
       PROVE  CommandsOK'
  BY <1>10 DEF Kill
<1>11. QED
  BY <1>1, <1>2, <1>3, <1>4, <1>5, <1>6, <1>7, <1>8, <1>9, <1>10
     DEF Next, Start, Step, RefuseLock, RefuseUpdate, RefuseRecover,
         RefuseArchive, RefuseArchived, RefuseEvents, RefuseTorn, Finish

(* Every file of the run directory keeps its type. *)
LEMMA DiskTyping == CommandsOK /\ DiskOK /\ [Next]_vars => DiskOK'
<1> SUFFICES ASSUME CommandsOK, DiskOK, [Next]_vars PROVE DiskOK'
  OBVIOUS
<1> USE Edges DEF DiskOK, disk
<1>1. CASE disk' = disk
  BY <1>1
<1>2. ASSUME NEW p \in Proc, BeginRun(p) \/ WriteSnapshot(p) PROVE DiskOK'
  BY <1>2 DEF BeginRun, WriteSnapshot
<1>3. ASSUME NEW p \in Proc, AppendLine(p) PROVE DiskOK'
  <2>1. EventOf(p) \in Event
    BY EventType
  <2>2. Replay(replay, EventOf(p)) \in State \cup {NoRun, Invalid}
    BY <2>1, ReplayType
  <2>3. QED
    BY <1>3, <2>1, <2>2 DEF AppendLine
<1>4. ASSUME NEW p \in Proc, WriteRun(p) PROVE DiskOK'
  BY <1>4 DEF WriteRun, CommandsOK
<1>5. ASSUME NEW p \in Proc, WriteArchive(p) PROVE DiskOK'
  BY <1>5 DEF WriteArchive, CommandsOK, ArchiveRecord
<1>6. ASSUME NEW p \in Proc, Kill(p) PROVE DiskOK'
  BY <1>6 DEF Kill
<1>7. QED
  BY <1>1, <1>2, <1>3, <1>4, <1>5, <1>6
     DEF Next, Start, Step, vars, RefuseLock, RefuseUpdate, RefuseRecover,
         RefuseArchive, RefuseArchived, RefuseEvents, RefuseTorn, Finish,
         Return, StartUpdate, StartNote, StartRecover, StartArchive, Lock,
         CheckUpdate, CheckRecover, CheckArchive, Mutable, LockEvents, Digest,
         ContinueHeld, ContinueVerify

(* An empty run directory, and no commands. *)
LEMMA InitTyping == Init => TypeOK
<1> SUFFICES ASSUME Init PROVE TypeOK
  OBVIOUS
<1> USE DEF Init
<1>1. DiskOK
  <2>1. journal \in Seq(Event)
    OBVIOUS
  <2>2. QED
    BY <2>1 DEF DiskOK
<1>2. CommandsOK
  BY DEF CommandsOK, Pc, Op
<1>3. QED
  BY <1>1, <1>2 DEF TypeOK

(* Every variable keeps its type. *)
THEOREM JournalTyping == Spec => []TypeOK
<1>1. Init => TypeOK
  BY InitTyping
<1>2. TypeOK /\ [Next]_vars => TypeOK'
  BY CommandsTyping, DiskTyping DEF TypeOK
<1>3. QED
  BY <1>1, <1>2, PTL DEF Spec

-------------------------------------------------------------------------------
(* An empty run directory satisfies the invariant. *)
LEMMA InitInv == Init => IInv
<1> SUFFICES ASSUME Init PROVE IInv
  OBVIOUS
<1> USE Edges DEF Init
<1>1. \A p \in Proc : pc[p] = "idle" /\ op[p] = "none"
  OBVIOUS
<1>2. HoldsLock /\ SawJournal /\ UpdateBound /\ RecoverBound /\ ArchiveBound
  BY <1>1 DEF HoldsLock, SawJournal, UpdateBound, RecoverBound, ArchiveBound
<1>3. LagHasWriter /\ WriteAheadLag /\ ArchiveFreezesState /\ ArchivedReads
  BY DEF LagHasWriter, WriteAheadLag, ArchiveFreezesState, ArchivedReads
<1>4. QED
  BY <1>2, <1>3 DEF IInv

(* A command starts, or moves on without touching a file.                  *)
LEMMA QuietSteps ==
  ASSUME TypeOK, IInv, NEW p \in Proc,
         \/ StartNote(p) \/ StartRecover(p) \/ StartArchive(p)
         \/ \E next \in Target : StartUpdate(p, next)
         \/ Lock(p) \/ CheckUpdate(p) \/ CheckRecover(p) \/ CheckArchive(p)
         \/ Mutable(p) \/ LockEvents(p) \/ Digest(p)
         \/ ContinueHeld(p) \/ ContinueVerify(p)
  PROVE  IInv'
<1> USE JournalConstants, Edges
    DEF IInv, TypeOK, DiskOK, CommandsOK, Goto, Begins, disk, local
<1>1. runJson' = runJson /\ replay' = replay /\ archive' = archive
      /\ kills' = kills
  BY DEF StartNote, StartRecover, StartArchive, StartUpdate, Lock, CheckUpdate,
         CheckRecover, CheckArchive, Mutable, LockEvents, Digest, ContinueHeld,
         ContinueVerify
<1>2. \A q \in Proc \ {p} :
        /\ pc'[q] = pc[q] /\ op'[q] = op[q]
        /\ prev'[q] = prev[q] /\ target'[q] = target[q]
  BY DEF StartNote, StartRecover, StartArchive, StartUpdate, Lock, CheckUpdate,
         CheckRecover, CheckArchive, Mutable, LockEvents, Digest, ContinueHeld,
         ContinueVerify
<1>3. HoldsLock'
  BY <1>2 DEF HoldsLock, StartNote, StartRecover, StartArchive, StartUpdate,
     Lock, CheckUpdate, CheckRecover, CheckArchive, Mutable, LockEvents, Digest,
     ContinueHeld, ContinueVerify
<1>4. SawJournal'
  BY <1>1, <1>2 DEF SawJournal, StartNote, StartRecover, StartArchive,
     StartUpdate, Lock, CheckUpdate, CheckRecover, CheckArchive, Mutable,
     LockEvents, Digest, ContinueHeld, ContinueVerify, Loads, JournalReads,
     RecoverNeeded, ArchiveAllowed
<1>5. UpdateBound'
  BY <1>1, <1>2 DEF UpdateBound, StartNote, StartRecover, StartArchive,
     StartUpdate, Lock, CheckUpdate, CheckRecover, CheckArchive, Mutable,
     LockEvents, Digest, ContinueHeld, ContinueVerify, UpdateAllowed
<1>6. RecoverBound'
  BY <1>1, <1>2 DEF RecoverBound, StartNote, StartRecover, StartArchive,
     StartUpdate, Lock, CheckUpdate, CheckRecover, CheckArchive, Mutable,
     LockEvents, Digest, ContinueHeld, ContinueVerify, RecoverNeeded,
     JournalReads
<1>7. ArchiveBound'
  BY <1>1, <1>2 DEF ArchiveBound, StartNote, StartRecover, StartArchive,
     StartUpdate, Lock, CheckUpdate, CheckRecover, CheckArchive, Mutable,
     LockEvents, Digest, ContinueHeld, ContinueVerify, ArchiveAllowed,
     JournalReads
<1>8. LagHasWriter' /\ WriteAheadLag' /\ ArchiveFreezesState' /\ ArchivedReads'
  <2>1. WriteAheadLag' /\ ArchiveFreezesState' /\ ArchivedReads'
    BY <1>1 DEF WriteAheadLag, ArchiveFreezesState, ArchivedReads
  <2>2. \A q \in Proc : op[q] = "update" /\ pc[q] = "write" =>
          op'[q] = "update" /\ pc'[q] = "write"
    BY <1>2 DEF StartNote, StartRecover, StartArchive, StartUpdate, Lock,
       CheckUpdate, CheckRecover, CheckArchive, Mutable, LockEvents, Digest,
       ContinueHeld, ContinueVerify
  <2>3. LagHasWriter'
    BY <1>1, <2>2 DEF LagHasWriter
  <2>4. QED
    BY <2>1, <2>3
<1>9. QED
  BY <1>3, <1>4, <1>5, <1>6, <1>7, <1>8

(* A command returns, refused or done.                                     *)
LEMMA ReturnStep ==
  ASSUME TypeOK, IInv, NEW p \in Proc, Return(p), pc[p] # "write"
  PROVE  IInv'
<1> USE JournalConstants, Edges
    DEF IInv, TypeOK, DiskOK, CommandsOK, Return, Forget, disk
<1>1. \A q \in Proc \ {p} :
        /\ pc'[q] = pc[q] /\ op'[q] = op[q]
        /\ prev'[q] = prev[q] /\ target'[q] = target[q]
  OBVIOUS
<1>2. pc'[p] = "idle" /\ op'[p] = "none"
  OBVIOUS
<1>3. runJson' = runJson /\ replay' = replay /\ archive' = archive
      /\ kills' = kills
  OBVIOUS
<1>4. HoldsLock'
  BY <1>1, <1>2 DEF HoldsLock
<1>5. SawJournal' /\ UpdateBound' /\ RecoverBound' /\ ArchiveBound'
  BY <1>1, <1>2, <1>3 DEF SawJournal, UpdateBound, RecoverBound, ArchiveBound
<1>6. LagHasWriter' /\ WriteAheadLag' /\ ArchiveFreezesState' /\ ArchivedReads'
  BY <1>1, <1>2, <1>3 DEF LagHasWriter, WriteAheadLag, ArchiveFreezesState, ArchivedReads
<1>7. QED
  BY <1>4, <1>5, <1>6

(* The run is created, or its process is killed.                           *)
LEMMA BeginAndKill ==
  ASSUME TypeOK, IInv, NEW p \in Proc,
         BeginRun(p) \/ WriteSnapshot(p) \/ Kill(p)
  PROVE  IInv'
<1> USE JournalConstants, Edges
    DEF IInv, TypeOK, DiskOK, CommandsOK, Goto, Begins, Forget, disk, local
<1>1. CASE BeginRun(p)
  <2> USE <1>1 DEF BeginRun
  <2>1. \A q \in Proc \ {p} :
          /\ pc'[q] = pc[q] /\ op'[q] = op[q]
          /\ prev'[q] = prev[q] /\ target'[q] = target[q]
    OBVIOUS
  <2>2. pc'[p] = "seal" /\ op'[p] = "begin" /\ runJson = NoRun
        /\ runJson' = "PREPARED" /\ replay' = replay /\ archive' = archive
    OBVIOUS
  <2>3. replay \in {NoRun, Invalid}
    BY DEF WriteAheadLag
  <2>4. HoldsLock' /\ SawJournal'
    BY <2>1, <2>2 DEF HoldsLock, SawJournal
  <2>5. UpdateBound' /\ RecoverBound' /\ ArchiveBound'
    BY <2>1, <2>2, <2>3 DEF UpdateBound, RecoverBound, ArchiveBound, SawJournal
  <2>6. LagHasWriter' /\ WriteAheadLag'
    BY <2>1, <2>2, <2>3 DEF LagHasWriter, WriteAheadLag
  <2>7. archive = NoArchive
    BY <2>3 DEF ArchivedReads
  <2>8. ArchiveFreezesState' /\ ArchivedReads'
    BY <2>2, <2>7 DEF ArchiveFreezesState, ArchivedReads
  <2>9. QED
    BY <2>4, <2>5, <2>6, <2>8
<1>2. CASE WriteSnapshot(p)
  <2> USE <1>2 DEF WriteSnapshot
  <2>1. HoldsLock' /\ SawJournal' /\ UpdateBound' /\ RecoverBound' /\ ArchiveBound'
    BY DEF HoldsLock, SawJournal, UpdateBound, RecoverBound, ArchiveBound
  <2>2. LagHasWriter' /\ WriteAheadLag' /\ ArchiveFreezesState' /\ ArchivedReads'
    BY DEF LagHasWriter, WriteAheadLag, ArchiveFreezesState, ArchivedReads
  <2>3. QED
    BY <2>1, <2>2
<1>3. CASE Kill(p)
  <2> USE <1>3 DEF Kill
  <2>1. \A q \in Proc \ {p} :
          /\ pc'[q] = pc[q] /\ op'[q] = op[q]
          /\ prev'[q] = prev[q] /\ target'[q] = target[q]
    OBVIOUS
  <2>2. pc'[p] = "idle" /\ op'[p] = "none" /\ kills' # 0
        /\ runJson' = runJson /\ replay' = replay /\ archive' = archive
    OBVIOUS
  <2>3. HoldsLock'
    BY <2>1, <2>2 DEF HoldsLock
  <2>4. SawJournal' /\ UpdateBound' /\ RecoverBound' /\ ArchiveBound'
    BY <2>1, <2>2 DEF SawJournal, UpdateBound, RecoverBound, ArchiveBound
  <2>5. LagHasWriter' /\ WriteAheadLag' /\ ArchiveFreezesState' /\ ArchivedReads'
    BY <2>2 DEF LagHasWriter, WriteAheadLag, ArchiveFreezesState, ArchivedReads
  <2>6. QED
    BY <2>3, <2>4, <2>5
<1>4. QED
  BY <1>1, <1>2, <1>3

(* No other command that takes the run lock is under way.                  *)
LEMMA OthersWait ==
  ASSUME TypeOK, IInv, NEW p \in Proc,
         op[p] \in {"update", "recover", "archive"}, pc[p] \notin {"idle", "lock"},
         NEW q \in Proc \ {p},
         op[q] \in {"update", "recover", "archive"}
  PROVE  pc[q] \in {"idle", "lock"}
BY JournalConstants DEF IInv, HoldsLock

(* AppendEvent writes its line.                                            *)
LEMMA AppendStep ==
  ASSUME TypeOK, IInv, NEW p \in Proc, AppendLine(p)
  PROVE  IInv'
<1> USE JournalConstants, Edges
    DEF IInv, TypeOK, DiskOK, CommandsOK, Goto, AppendLine, local
<1>1. \A q \in Proc \ {p} : pc'[q] = pc[q]
  OBVIOUS
<1>2. /\ runJson' = runJson /\ archive' = archive /\ kills' = kills
      /\ op' = op /\ prev' = prev /\ target' = target
      /\ writeLock' = writeLock /\ pc[p] = "append"
      /\ pc'[p] = AfterAppend[op[p]]
  OBVIOUS
<1>3. HoldsLock'
  BY <1>1, <1>2 DEF HoldsLock, AfterAppend
<1>4. CASE op[p] = "update"
  <2>1. pc'[p] = "write"
    BY <1>2, <1>4 DEF AfterAppend
  <2>2. /\ archive = NoArchive /\ AllowedTransition(runJson, target[p])
        /\ prev[p] = runJson /\ replay # NoRun
    BY <1>2, <1>4 DEF UpdateBound, SawJournal
  <2>3. replay' = Replay(replay, Transition(p))
    BY <1>4 DEF EventOf
  <2>4. CASE replay = runJson
    <3>1. replay' = target[p]
      BY <2>2, <2>3, <2>4 DEF Replay, Transition
    <3>2. \A q \in Proc \ {p} : op[q] \in {"update", "recover", "archive"} =>
            pc[q] \in {"idle", "lock"}
      BY <1>2, <1>4, OthersWait
    <3>3. SawJournal' /\ UpdateBound'
      <4>1. replay' # NoRun
        BY <2>2, <3>1
      <4>2. SawJournal'
        BY <1>1, <1>2, <4>1 DEF SawJournal
      <4>3. UpdateBound'
        BY <1>1, <1>2, <2>1, <2>2, <3>1, <3>2 DEF UpdateBound
      <4>4. QED
        BY <4>2, <4>3
    <3>4. RecoverBound' /\ ArchiveBound'
      BY <1>1, <1>2, <1>4, <3>2 DEF RecoverBound, ArchiveBound
    <3>5. LagHasWriter' /\ WriteAheadLag' /\ ArchiveFreezesState' /\ ArchivedReads'
      BY <1>2, <1>4, <2>1, <2>2, <3>1
         DEF LagHasWriter, WriteAheadLag, ArchiveFreezesState, ArchivedReads
    <3>6. QED
      BY <1>3, <3>3, <3>4, <3>5
  <2>5. CASE replay # runJson
    <3>1. replay' = Invalid
      BY <2>2, <2>3, <2>5 DEF Replay, Transition
    <3>2. \A q \in Proc \ {p} : op[q] \in {"update", "recover", "archive"} =>
            pc[q] \in {"idle", "lock"}
      BY <1>2, <1>4, OthersWait
    <3>3. SawJournal' /\ UpdateBound'
      BY <1>1, <1>2, <2>1, <2>2, <3>1, <3>2 DEF SawJournal, UpdateBound
    <3>4. RecoverBound' /\ ArchiveBound'
      BY <1>1, <1>2, <1>4, <3>2 DEF RecoverBound, ArchiveBound
    <3>5. kills # 0
      BY <1>2, <1>4, <2>2, <2>5, <3>2 DEF LagHasWriter
    <3>6. LagHasWriter' /\ WriteAheadLag' /\ ArchiveFreezesState' /\ ArchivedReads'
      BY <1>2, <2>2, <3>1, <3>5
         DEF LagHasWriter, WriteAheadLag, ArchiveFreezesState, ArchivedReads
    <3>7. QED
      BY <1>3, <3>3, <3>4, <3>6
  <2>6. QED
    BY <2>4, <2>5
<1>5. CASE op[p] # "update"
  <2>1. EventOf(p).type # "state_transition"
    BY <1>5 DEF EventOf, Plain
  <2>2. pc'[p] \in {"release", "digest"} /\ (pc'[p] = "digest" => op[p] = "archive")
    BY <1>2, <1>5 DEF AfterAppend
  <2>3. CASE replay # NoRun
    <3>1. replay' = replay
      BY <2>1, <2>3 DEF Replay
    <3>2. SawJournal' /\ UpdateBound' /\ RecoverBound'
      BY <1>1, <1>2, <1>5, <2>2, <3>1 DEF SawJournal, UpdateBound, RecoverBound
    <3>3. ArchiveBound'
      BY <1>1, <1>2, <2>2, <3>1 DEF ArchiveBound
    <3>4. WriteAheadLag' /\ ArchiveFreezesState' /\ ArchivedReads'
      BY <1>2, <3>1 DEF WriteAheadLag, ArchiveFreezesState, ArchivedReads
    <3>5. LagHasWriter'
      BY <1>1, <1>2, <1>5, <3>1 DEF LagHasWriter
    <3>6. QED
      BY <1>3, <3>2, <3>3, <3>4, <3>5
  <2>4. CASE replay = NoRun
    <3>1. op[p] = "begin"
      BY <1>2, <1>5, <2>4 DEF SawJournal, AfterAppend
    <3>2. replay' = "PREPARED"
      BY <2>4, <3>1 DEF Replay, EventOf, Plain
    <3>3. runJson = "PREPARED" /\ archive = NoArchive
      BY <2>4, <3>1 DEF SawJournal, WriteAheadLag, ArchiveFreezesState, ArchivedReads
    <3>4. \A q \in Proc : op[q] \notin {"update", "note"}
      BY <2>4 DEF SawJournal
    <3>5. \A q \in Proc :
            op[q] \in {"recover", "archive"} => pc[q] \in {"lock", "check"}
      BY <2>4 DEF SawJournal
    <3>6. SawJournal' /\ UpdateBound' /\ RecoverBound' /\ ArchiveBound'
      <4>1. SawJournal'
        BY <1>1, <1>2, <2>2, <3>1, <3>2, <3>3, <3>4, <3>5 DEF SawJournal
      <4>2. UpdateBound'
        BY <1>1, <1>2, <2>2, <3>1, <3>2, <3>3, <3>4, <3>5 DEF UpdateBound
      <4>3. RecoverBound'
        BY <1>1, <1>2, <2>2, <3>1, <3>2, <3>3, <3>4, <3>5 DEF RecoverBound
      <4>4. ArchiveBound'
        BY <1>1, <1>2, <2>2, <3>1, <3>2, <3>3, <3>4, <3>5 DEF ArchiveBound
      <4>5. QED
        BY <4>1, <4>2, <4>3, <4>4
    <3>7. LagHasWriter' /\ WriteAheadLag' /\ ArchiveFreezesState' /\ ArchivedReads'
      BY <1>2, <3>2, <3>3 DEF LagHasWriter, WriteAheadLag, ArchiveFreezesState, ArchivedReads
    <3>8. QED
      BY <1>3, <3>6, <3>7
  <2>5. QED
    BY <2>3, <2>4
<1>6. QED
  BY <1>4, <1>5

(* run.json is replaced.                                                   *)
LEMMA WriteRunStep ==
  ASSUME TypeOK, IInv, NEW p \in Proc, WriteRun(p)
  PROVE  IInv' /\ AllowedTransition(runJson, runJson') /\ archive = NoArchive
<1> USE JournalConstants, Edges
    DEF IInv, TypeOK, DiskOK, CommandsOK, Goto, WriteRun, local
<1>1. \A q \in Proc \ {p} : pc'[q] = pc[q]
  OBVIOUS
<1>2. /\ runJson' = target[p] /\ replay' = replay /\ archive' = archive
      /\ kills' = kills /\ op' = op /\ prev' = prev /\ target' = target
      /\ writeLock' = writeLock /\ pc[p] = "write"
  OBVIOUS
<1>3. \A q \in Proc \ {p} : op[q] \in {"update", "recover", "archive"} =>
        pc[q] \in {"idle", "lock"}
  BY <1>2, OthersWait
<1>4. HoldsLock'
  BY <1>1, <1>2 DEF HoldsLock
<1>5. CASE op[p] = "update"
  <2>1. /\ archive = NoArchive /\ AllowedTransition(runJson, target[p])
        /\ replay \in {target[p], Invalid} /\ target[p] # NoRun
    BY <1>2, <1>5 DEF UpdateBound
  <2>2. pc'[p] = "release"
    BY <1>5
  <2>3. SawJournal' /\ UpdateBound' /\ RecoverBound' /\ ArchiveBound'
    BY <1>1, <1>2, <1>3, <1>5, <2>1, <2>2
       DEF SawJournal, UpdateBound, RecoverBound, ArchiveBound
  <2>4. LagHasWriter' /\ WriteAheadLag' /\ ArchiveFreezesState' /\ ArchivedReads'
    BY <1>2, <2>1
       DEF LagHasWriter, WriteAheadLag, ArchiveFreezesState, ArchivedReads
  <2>5. QED
    BY <1>2, <1>4, <2>1, <2>3, <2>4
<1>6. CASE op[p] = "recover"
  <2>1. replay \in State /\ target[p] = replay /\ runJson # replay
    BY <1>2, <1>6 DEF RecoverBound
  <2>2. AllowedTransition(runJson, target[p])
    BY <2>1 DEF WriteAheadLag
  <2>3. archive = NoArchive
    BY <2>1 DEF ArchiveFreezesState
  <2>4. pc'[p] = "mutable"
    BY <1>6
  <2>5. SawJournal' /\ UpdateBound' /\ RecoverBound' /\ ArchiveBound'
    BY <1>1, <1>2, <1>3, <1>6, <2>1, <2>4
       DEF SawJournal, UpdateBound, RecoverBound, ArchiveBound
  <2>6. LagHasWriter' /\ WriteAheadLag' /\ ArchiveFreezesState' /\ ArchivedReads'
    BY <1>2, <2>1, <2>3
       DEF LagHasWriter, WriteAheadLag, ArchiveFreezesState, ArchivedReads
  <2>7. QED
    BY <1>2, <1>4, <2>2, <2>3, <2>5, <2>6
<1>7. QED
  BY <1>5, <1>6

(* archive.json is written.                                                *)
LEMMA WriteArchiveStep ==
  ASSUME TypeOK, IInv, NEW p \in Proc, WriteArchive(p)
  PROVE  IInv' /\ archive = NoArchive
<1> USE JournalConstants, Edges
    DEF IInv, TypeOK, DiskOK, CommandsOK, Goto, WriteArchive, local
<1>1. \A q \in Proc \ {p} : pc'[q] = pc[q]
  OBVIOUS
<1>2. /\ runJson' = runJson /\ replay' = replay /\ kills' = kills
      /\ op' = op /\ prev' = prev /\ target' = target
      /\ writeLock' = writeLock /\ op[p] = "archive" /\ pc[p] = "archiving"
      /\ pc'[p] = "release" /\ archive'.state = runJson
  OBVIOUS
<1>3. \A q \in Proc \ {p} : op[q] \in {"update", "recover", "archive"} =>
        pc[q] \in {"idle", "lock"}
  BY <1>2, OthersWait
<1>4. archive = NoArchive /\ replay \in State /\ runJson = replay
  BY <1>2 DEF ArchiveBound
<1>5. HoldsLock' /\ SawJournal'
  BY <1>1, <1>2 DEF HoldsLock, SawJournal
<1>6. UpdateBound' /\ RecoverBound' /\ ArchiveBound'
  BY <1>1, <1>2, <1>3 DEF UpdateBound, RecoverBound, ArchiveBound
<1>7. LagHasWriter' /\ WriteAheadLag' /\ ArchiveFreezesState' /\ ArchivedReads'
  BY <1>2, <1>4
     DEF LagHasWriter, WriteAheadLag, ArchiveFreezesState, ArchivedReads
<1>8. QED
  BY <1>4, <1>5, <1>6, <1>7

(* Every refusal and every completion is a Return outside a pending write. *)
LEMMA Returns ==
  ASSUME TypeOK, NEW p \in Proc,
         \/ RefuseLock(p) \/ RefuseUpdate(p) \/ RefuseRecover(p)
         \/ RefuseArchive(p) \/ RefuseArchived(p) \/ RefuseEvents(p)
         \/ RefuseTorn(p) \/ Finish(p)
  PROVE  Return(p) /\ pc[p] # "write"
BY DEF RefuseLock, RefuseUpdate, RefuseRecover, RefuseArchive, RefuseArchived,
       RefuseEvents, RefuseTorn, Finish

(* Every step of every command keeps the invariant. *)
LEMMA NextInv == TypeOK /\ IInv /\ [Next]_vars => IInv'
<1> SUFFICES ASSUME TypeOK, IInv, [Next]_vars PROVE IInv'
  OBVIOUS
<1>1. CASE UNCHANGED vars
  BY <1>1 DEF vars, disk, local, IInv, HoldsLock, SawJournal, UpdateBound,
     RecoverBound, ArchiveBound, LagHasWriter, WriteAheadLag,
     ArchiveFreezesState, ArchivedReads
<1>2. ASSUME NEW p \in Proc, Start(p) PROVE IInv'
  BY <1>2, QuietSteps, BeginAndKill DEF Start
<1>3. ASSUME NEW p \in Proc, Step(p) PROVE IInv'
  BY <1>3, QuietSteps, BeginAndKill, AppendStep, WriteRunStep, WriteArchiveStep,
     Returns, ReturnStep DEF Step
<1>4. ASSUME NEW p \in Proc, Kill(p) PROVE IInv'
  BY <1>4, BeginAndKill
<1>5. QED
  BY <1>1, <1>2, <1>3, <1>4 DEF Next

(* The inductive invariant. *)
THEOREM JournalInv == Spec => []IInv
<1>1. QED
  BY InitInv, NextInv, JournalTyping, PTL DEF Spec

(* However many commands are killed, a valid journal is at most one        *)
(* transition ahead of run.json, so that `recover` never skips a state.    *)
THEOREM LagBound == Spec => []WriteAheadLag
<1>1. IInv => WriteAheadLag
  BY DEF IInv
<1>2. QED
  BY <1>1, JournalInv, PTL

(* Without kills the journal is valid and agrees with run.json whenever    *)
(* nobody holds the run lock, for any number of concurrent commands.       *)
THEOREM Agreement == Spec => []AgreeWhenUnlocked
<1>1. IInv => AgreeWhenUnlocked
  <2> SUFFICES ASSUME IInv, kills = 0
               PROVE  /\ replay # Invalid
                      /\ writeLock = NoOne /\ replay # NoRun => runJson = replay
    BY DEF AgreeWhenUnlocked
  <2>1. ASSUME NEW p \in Proc, op[p] = "update", pc[p] = "write"
        PROVE  writeLock # NoOne
    BY <2>1, JournalConstants DEF IInv, HoldsLock
  <2>2. QED
    BY <2>1 DEF IInv, LagHasWriter
<1>2. QED
  BY <1>1, JournalInv, PTL

(* An archived run keeps the state it was archived in. *)
THEOREM ArchivedState == Spec => []ArchiveFreezesState
<1>1. IInv => ArchiveFreezesState
  BY DEF IInv
<1>2. QED
  BY <1>1, JournalInv, PTL

(* run.json and archive.json are never written once archive.json exists.   *)
THEOREM ArchivedForGood == Spec => ArchiveIsFinal
<1>1. TypeOK /\ IInv /\ [Next]_vars
        => [archive # NoArchive => archive' = archive /\ runJson' = runJson]_vars
  <2> SUFFICES ASSUME TypeOK, IInv, [Next]_vars, archive # NoArchive
               PROVE  archive' = archive /\ runJson' = runJson
    OBVIOUS
  <2>1. runJson # NoRun
    BY Edges DEF IInv, ArchiveFreezesState, ArchivedReads
  <2>2. \A p \in Proc : ~WriteRun(p) /\ ~WriteArchive(p) /\ ~BeginRun(p)
    BY <2>1, WriteRunStep, WriteArchiveStep DEF BeginRun
  <2>3. QED
    BY <2>2 DEF Next, Start, Step, vars, disk, RefuseLock, RefuseUpdate,
       RefuseRecover, RefuseArchive, RefuseArchived, RefuseEvents, RefuseTorn,
       Finish, Return, StartUpdate, StartNote, StartRecover, StartArchive,
       Lock, CheckUpdate, CheckRecover, CheckArchive, Mutable, LockEvents,
       Digest, ContinueHeld, ContinueVerify, WriteSnapshot, AppendLine, Kill
<1>2. QED
  BY <1>1, JournalInv, JournalTyping, PTL DEF Spec, ArchiveIsFinal

(* The journal becomes invalid only by an update that has read a run.json  *)
(* left behind by a killed command.                                        *)
LEMMA SpoilingStep ==
  ASSUME TypeOK, IInv, IInv', NEW p \in Proc, AppendLine(p),
         replay # Invalid, replay' = Invalid
  PROVE  /\ kills > 0
         /\ replay \in State /\ AllowedTransition(runJson, replay)
         /\ op[p] = "update" /\ prev[p] = runJson /\ writeLock = p
<1> USE JournalConstants, Edges DEF TypeOK, DiskOK, CommandsOK
<1>1. kills' = kills /\ pc[p] = "append" /\ replay' = Replay(replay, EventOf(p))
  BY DEF AppendLine, Goto
<1>2. kills > 0
  BY <1>1 DEF IInv, LagHasWriter
<1>3. op[p] = "update"
  <2> SUFFICES ASSUME op[p] # "update" PROVE FALSE
    OBVIOUS
  <2>1. EventOf(p).type # "state_transition"
    BY DEF EventOf, Plain
  <2>2. replay = NoRun /\ EventOf(p).type # "run_prepared"
    BY <1>1, <2>1 DEF Replay
  <2>3. op[p] = "begin"
    BY <1>1, <2>2 DEF IInv, SawJournal, AppendLine, AfterAppend
  <2>4. QED
    BY <2>2, <2>3 DEF EventOf, Plain
<1>4. prev[p] = runJson /\ AllowedTransition(runJson, target[p]) /\ replay # NoRun
  BY <1>1, <1>3 DEF IInv, UpdateBound, SawJournal
<1>5. replay \in State
  BY <1>4
<1>6. replay # runJson
  BY <1>1, <1>3, <1>4 DEF Replay, EventOf, Transition
<1>7. AllowedTransition(runJson, replay)
  BY <1>5, <1>6, <1>4 DEF IInv, WriteAheadLag
<1>8. writeLock = p
  BY <1>1, <1>3 DEF IInv, HoldsLock
<1>9. QED
  BY <1>2, <1>3, <1>4, <1>5, <1>7, <1>8

(* A valid journal is spoiled only by a command that had loaded the run    *)
(* before another one was killed between its event and run.json.           *)
THEOREM SpoiledByLag == Spec => SpoiledOnlyByLag
<1>1. TypeOK /\ IInv /\ IInv' /\ [Next]_vars
        => [replay # Invalid /\ replay' = Invalid =>
              /\ kills > 0
              /\ replay \in State /\ AllowedTransition(runJson, replay)
              /\ \E p \in Proc :
                   op[p] = "update" /\ prev[p] = runJson /\ writeLock = p]_vars
  <2> SUFFICES ASSUME TypeOK, IInv, IInv', [Next]_vars,
                      replay # Invalid, replay' = Invalid
               PROVE  /\ kills > 0
                      /\ replay \in State /\ AllowedTransition(runJson, replay)
                      /\ \E p \in Proc :
                           op[p] = "update" /\ prev[p] = runJson /\ writeLock = p
    OBVIOUS
  <2>1. PICK p \in Proc : AppendLine(p)
    BY DEF Next, Start, Step, vars, disk, RefuseLock, RefuseUpdate,
       RefuseRecover, RefuseArchive, RefuseArchived, RefuseEvents, RefuseTorn,
       Finish, Return, StartUpdate, StartNote, StartRecover, StartArchive,
       Lock, CheckUpdate, CheckRecover, CheckArchive, Mutable, LockEvents,
       Digest, ContinueHeld, ContinueVerify, WriteSnapshot, BeginRun, WriteRun,
       WriteArchive, Kill
  <2>2. QED
    BY <2>1, SpoilingStep
<1>2. QED
  BY <1>1, JournalInv, JournalTyping, PTL DEF Spec, SpoiledOnlyByLag

(* run.json implements the abstract life of a run: every replacement of    *)
(* the file, a recovery's included, is one allowed transition.             *)
THEOREM JournalFollowsLifecycle == Spec => FollowsLifecycle
<1>1. Init => Lifecycle!Init
  BY DEF Init, Lifecycle!Init, NoRun, Lifecycle!NoRun
<1>2. TypeOK /\ IInv /\ [Next]_vars => [Lifecycle!Next]_runJson
  <2> SUFFICES ASSUME TypeOK, IInv, [Next]_vars, runJson' # runJson
               PROVE  Lifecycle!Next
    OBVIOUS
  <2>1. \E p \in Proc : WriteRun(p) \/ BeginRun(p)
    <3>1. PICK p \in Proc : Start(p) \/ Step(p) \/ Kill(p)
      BY DEF Next, vars, disk
    <3>2. CASE Start(p) \/ Kill(p)
      BY <3>2 DEF Start, StartUpdate, StartNote, StartRecover, StartArchive, Kill, disk
    <3>3. CASE Step(p)
      <4>1. ASSUME \/ WriteSnapshot(p) \/ Lock(p) \/ RefuseLock(p) \/ CheckUpdate(p)
                   \/ RefuseUpdate(p) \/ CheckRecover(p) \/ RefuseRecover(p)
                   \/ CheckArchive(p) \/ RefuseArchive(p)
            PROVE  runJson' = runJson
        BY <4>1 DEF WriteSnapshot, Lock, RefuseLock, CheckUpdate, RefuseUpdate, CheckRecover,
                    RefuseRecover, CheckArchive, RefuseArchive, Finish, Return, disk
      <4>2. ASSUME \/ Mutable(p) \/ RefuseArchived(p) \/ LockEvents(p) \/ RefuseEvents(p)
                   \/ AppendLine(p) \/ RefuseTorn(p) \/ Digest(p) \/ WriteArchive(p)
                   \/ Finish(p) \/ ContinueHeld(p) \/ ContinueVerify(p)
            PROVE  runJson' = runJson
        BY <4>2 DEF Mutable, RefuseArchived, LockEvents, RefuseEvents, AppendLine, RefuseTorn,
                    Digest, WriteArchive, Finish, ContinueHeld, ContinueVerify, Return, disk
      <4>3. QED
        BY <3>3, <4>1, <4>2 DEF Step
    <3>4. QED
      BY <3>1, <3>2, <3>3
  <2>2. CASE \E p \in Proc : BeginRun(p)
    BY <2>2 DEF BeginRun, Lifecycle!Next, Lifecycle!Prepare, NoRun,
       Lifecycle!NoRun
  <2>3. CASE \E p \in Proc : WriteRun(p)
    <3>1. AllowedTransition(runJson, runJson') /\ runJson' \in State
      BY <2>3, WriteRunStep, Edges
    <3>2. QED
      BY <3>1 DEF Lifecycle!Next, Lifecycle!Move, AllowedTransition,
         Lifecycle!AllowedTransition, State, Lifecycle!State, Allowed,
         Lifecycle!Allowed
  <2>4. QED
    BY <2>1, <2>2, <2>3
<1>3. QED
  BY <1>1, <1>2, JournalInv, JournalTyping, PTL
     DEF Spec, FollowsLifecycle, Lifecycle!Spec
-------------------------------------------------------------------------------
(* Replaying a journal of any length.                                      *)

(* The last move among some events is one of them. *)
LEMMA LastIsMove ==
  ASSUME NEW s \in Seq(Event), NEW n \in Nat, Moves(s, n) # {}
  PROVE  /\ LastMove(s, n) \in Moves(s, n)
         /\ \A i \in Moves(s, n) : i <= LastMove(s, n)
<1> DEFINE M == Moves(s, n)
           S == {n - i : i \in M}
<1>1. M \subseteq 1..n
  BY DEF Moves
<1> HIDE DEF M
<1>2. S \in SUBSET Nat /\ S # {}
  BY <1>1 DEF M
<1>3. PICK x \in S : \A y \in S : x <= y
  BY <1>2, LeastOfSome
<1>4. PICK i \in M : x = n - i
  BY <1>3
<1>5. ASSUME NEW j \in M PROVE j <= i
  <2>1. n - i <= n - j
    BY <1>3, <1>4
  <2> QED BY <1>1, <2>1
<1>6. \E k \in M : \A j \in M : j <= k
  BY <1>5
<1> QED BY <1>6 DEF LastMove, M

(* One more event leaves what the earlier ones say alone. *)
LEMMA EndsOfPrefix ==
  ASSUME NEW s \in Seq(Event), NEW e \in Event, NEW n \in 0..Len(s)
  PROVE  /\ Moves(Append(s, e), n) = Moves(s, n)
         /\ EndOf(Append(s, e), n) = EndOf(s, n)
<1> DEFINE t == Append(s, e)
<1>1. \A i \in 1..n : t[i] = s[i]
  OBVIOUS
<1> HIDE DEF t
<1>2. Moves(t, n) = Moves(s, n)
  BY <1>1 DEF Moves
<1>3. LastMove(t, n) = LastMove(s, n)
  BY <1>2 DEF LastMove
<1>4. ASSUME Moves(s, n) # {} PROVE LastMove(s, n) \in 1..n
  BY <1>4, LastIsMove DEF Moves
<1>5. EndOf(t, n) = EndOf(s, n)
  BY <1>1, <1>2, <1>3, <1>4 DEF EndOf
<1> QED BY <1>2, <1>5 DEF t

(* One more event moves the end, or does not. *)
LEMMA EndsOfWhole ==
  ASSUME NEW s \in Seq(Event), NEW e \in Event
  PROVE  LET t == Append(s, e)
         IN  IF e.type = "state_transition"
               THEN /\ Moves(t, Len(t)) = Moves(s, Len(s)) \cup {Len(t)}
                    /\ EndOf(t, Len(t)) = e.to
               ELSE /\ Moves(t, Len(t)) = Moves(s, Len(s))
                    /\ EndOf(t, Len(t)) = EndOf(s, Len(s))
<1> DEFINE t == Append(s, e)
<1>1. t \in Seq(Event) /\ Len(t) = Len(s) + 1 /\ t[Len(t)] = e
      /\ \A i \in 1..Len(s) : t[i] = s[i]
  OBVIOUS
<1>2. Len(s) \in 0..Len(s) /\ Len(t) \in Nat
  BY <1>1
<1>3. Moves(t, Len(s)) = Moves(s, Len(s)) /\ EndOf(t, Len(s)) = EndOf(s, Len(s))
  BY <1>2, EndsOfPrefix
<1> HIDE DEF t
<1>4. CASE e.type = "state_transition"
  <2>1. Moves(t, Len(t)) = Moves(t, Len(s)) \cup {Len(t)}
    BY <1>1, <1>4 DEF Moves
  <2>2. Moves(t, Len(t)) # {} /\ Len(t) \in Moves(t, Len(t))
    BY <2>1
  <2>3. /\ LastMove(t, Len(t)) \in Moves(t, Len(t))
        /\ Len(t) <= LastMove(t, Len(t))
    BY <1>1, <1>2, <2>2, LastIsMove
  <2>4. LastMove(t, Len(t)) = Len(t)
    BY <1>2, <2>3 DEF Moves
  <2> QED BY <1>1, <1>3, <1>4, <2>1, <2>2, <2>4 DEF EndOf, t
<1>5. CASE e.type # "state_transition"
  <2>1. Moves(t, Len(t)) = Moves(t, Len(s))
    BY <1>1, <1>5 DEF Moves
  <2>2. LastMove(t, Len(t)) = LastMove(t, Len(s))
    BY <2>1 DEF LastMove
  <2>3. EndOf(t, Len(t)) = EndOf(t, Len(s))
    BY <2>1, <2>2 DEF EndOf
  <2> QED BY <1>3, <1>5, <2>1, <2>3 DEF t
<1> QED BY <1>4, <1>5

(* A chain goes on with a transition from its end along an allowed edge, or *)
(* with anything that is no transition; nothing else makes a chain of more  *)
(* than one event.                                                          *)
LEMMA ChainGrows ==
  ASSUME NEW s \in Seq(Event), NEW e \in Event
  PROVE  IsChain(Append(s, e)) <=>
           IF s = <<>> THEN e.type = "run_prepared"
           ELSE /\ IsChain(s)
                /\ e.type = "state_transition" =>
                     e.from = EndOf(s, Len(s)) /\ AllowedTransition(e.from, e.to)
<1> DEFINE t == Append(s, e)
           Fits(u, i) == /\ u[i].from = EndOf(u, i - 1)
                         /\ AllowedTransition(u[i].from, u[i].to)
<1>1. /\ t \in Seq(Event) /\ t # <<>> /\ Len(t) = Len(s) + 1 /\ t[Len(t)] = e
      /\ Len(s) \in Nat /\ \A i \in 1..Len(s) : t[i] = s[i]
  OBVIOUS
<1>2. \A i \in Moves(s, Len(s)) : i \in 1..Len(s)
  BY DEF Moves
<1>3. \A i \in 1..(Len(s) + 1) : EndOf(t, i - 1) = EndOf(s, i - 1)
  BY <1>1, EndsOfPrefix
<1>4. \A i \in Moves(s, Len(s)) : Fits(t, i) <=> Fits(s, i)
  BY <1>1, <1>2, <1>3
<1>5. Fits(t, Len(t)) <=> e.from = EndOf(s, Len(s)) /\ AllowedTransition(e.from, e.to)
  BY <1>1, <1>3
<1>6. Moves(t, Len(t)) = IF e.type = "state_transition" THEN Moves(s, Len(s)) \cup {Len(t)}
                                                        ELSE Moves(s, Len(s))
  BY EndsOfWhole
<1>7. IsChain(t) <=> t[1].type = "run_prepared" /\ \A i \in Moves(t, Len(t)) : Fits(t, i)
  BY <1>1 DEF IsChain
<1>8. IsChain(s) <=> s # <<>> /\ s[1].type = "run_prepared"
                     /\ \A i \in Moves(s, Len(s)) : Fits(s, i)
  BY DEF IsChain
<1> HIDE DEF Fits
<1>9. CASE s = <<>>
  <2>1. t[1] = e /\ Moves(s, Len(s)) = {}
    BY <1>1, <1>2, <1>9
  <2>2. IsChain(t) => e.type = "run_prepared"
    BY <1>7, <2>1
  <2>3. e.type = "run_prepared" => Moves(t, Len(t)) = {}
    BY <1>6, <2>1
  <2> QED BY <1>7, <1>9, <2>1, <2>2, <2>3 DEF t
<1>10. CASE s # <<>>
  <2>1. t[1] = s[1]
    BY <1>1, <1>10
  <2>2. (\A i \in Moves(t, Len(t)) : Fits(t, i)) <=>
          /\ \A i \in Moves(s, Len(s)) : Fits(s, i)
          /\ e.type = "state_transition" => Fits(t, Len(t))
    BY <1>4, <1>6
  <2> QED BY <1>5, <1>7, <1>8, <1>10, <2>1, <2>2 DEF t
<1> QED BY <1>9, <1>10

(* The end of a chain is a state. *)
LEMMA ChainEnds ==
  ASSUME NEW s \in Seq(Event), IsChain(s)
  PROVE  EndOf(s, Len(s)) \in State
<1>1. CASE Moves(s, Len(s)) = {}
  BY <1>1, Edges DEF EndOf
<1>2. CASE Moves(s, Len(s)) # {}
  <2>1. LastMove(s, Len(s)) \in Moves(s, Len(s))
    BY <1>2, LastIsMove
  <2> QED BY <1>2, <2>1, Edges DEF EndOf, IsChain
<1> QED BY <1>1, <1>2

(* What a step needs to know beside ReplayIsChain: an empty journal is the *)
(* one that replays to nothing.                                            *)
ChainInv ==
  /\ TypeOK
  /\ replay = NoRun <=> journal = <<>>
  /\ ReplayIsChain

LEMMA ChainStep == ChainInv /\ [Next]_vars => ChainInv'
<1> SUFFICES ASSUME ChainInv, [Next]_vars PROVE ChainInv'
  OBVIOUS
<1>1. TypeOK'
  BY CommandsTyping, DiskTyping DEF ChainInv, TypeOK
<1>2. CASE journal' = journal /\ replay' = replay
  BY <1>1, <1>2 DEF ChainInv, ReplayIsChain
<1>3. ASSUME NEW p \in Proc, AppendLine(p) PROVE ChainInv'
  <2> DEFINE e == EventOf(p)
  <2>1. e \in Event /\ journal \in Seq(Event)
    BY EventType DEF ChainInv, TypeOK, DiskOK
  <2>2. journal' = Append(journal, e) /\ replay' = Replay(replay, e)
    BY <1>3 DEF AppendLine
  <2> HIDE DEF e
  <2>3. journal' # <<>>
    BY <2>1, <2>2
  <2>4. CASE journal = <<>>
    <3>1. replay = NoRun
      BY <2>4 DEF ChainInv
    <3>2. IsChain(journal') <=> e.type = "run_prepared"
      BY <2>1, <2>2, <2>4, ChainGrows
    <3>3. replay' = IF e.type = "run_prepared" THEN "PREPARED" ELSE Invalid
      BY <2>2, <3>1, Edges DEF Replay
    <3>4. ASSUME e.type = "run_prepared" PROVE EndOf(journal', Len(journal')) = "PREPARED"
      <4>1. EndOf(journal', Len(journal')) = EndOf(journal, Len(journal))
        BY <2>1, <2>2, <3>4, EndsOfWhole
      <4> QED BY <2>4, <4>1 DEF EndOf, Moves
    <3> QED BY <1>1, <2>3, <3>2, <3>3, <3>4, Edges DEF ChainInv, ReplayIsChain
  <2>5. CASE journal # <<>> /\ IsChain(journal)
    <3>1. replay = EndOf(journal, Len(journal)) /\ replay \in State
      BY <2>1, <2>5, ChainEnds DEF ChainInv, ReplayIsChain
    <3>2. IsChain(journal') <=>
            (e.type = "state_transition" => e.from = replay /\ AllowedTransition(e.from, e.to))
      BY <2>1, <2>2, <2>5, <3>1, ChainGrows
    <3>3. EndOf(journal', Len(journal')) = IF e.type = "state_transition" THEN e.to ELSE replay
      BY <2>1, <2>2, <3>1, EndsOfWhole
    <3>4. replay' = IF e.type = "state_transition"
                      THEN IF e.from = replay /\ AllowedTransition(replay, e.to)
                             THEN e.to ELSE Invalid
                      ELSE replay
      BY <2>2, <3>1, Edges DEF Replay
    <3> QED BY <1>1, <2>3, <3>1, <3>2, <3>3, <3>4, Edges DEF ChainInv, ReplayIsChain
  <2>6. CASE journal # <<>> /\ ~IsChain(journal)
    <3>1. replay \notin State /\ replay # NoRun
      BY <2>6 DEF ChainInv, ReplayIsChain
    <3>2. replay' = replay
      BY <2>2, <3>1 DEF Replay
    <3>3. ~IsChain(journal')
      BY <2>1, <2>2, <2>6, ChainGrows
    <3> QED BY <1>1, <2>3, <3>1, <3>2, <3>3 DEF ChainInv, ReplayIsChain
  <2> QED BY <2>4, <2>5, <2>6
<1> QED
  BY <1>2, <1>3
     DEF Next, Start, Step, vars, disk, RefuseLock, RefuseUpdate,
         RefuseRecover, RefuseArchive, RefuseArchived, RefuseEvents, RefuseTorn,
         Finish, Return, StartUpdate, StartNote, StartRecover, StartArchive,
         Lock, CheckUpdate, CheckRecover, CheckArchive, Mutable, LockEvents,
         Digest, ContinueHeld, ContinueVerify, WriteSnapshot, BeginRun, WriteRun,
         WriteArchive, Kill

(* runJournalState, over a journal of any length that any commands have    *)
(* written, cut off by kills or spoiled: it answers with a state exactly   *)
(* when the journal is one chain of allowed transitions from PREPARED, and *)
(* the answer is that chain's end.                                         *)
THEOREM ReplayReadsChain == Spec => []ReplayIsChain
<1>1. Init => ChainInv
  <2> SUFFICES ASSUME Init PROVE ChainInv
    OBVIOUS
  <2>1. TypeOK
    BY InitTyping
  <2>2. ~IsChain(journal) /\ replay = NoRun /\ journal = <<>>
    BY DEF Init, IsChain
  <2> QED BY <2>1, <2>2, Edges DEF ChainInv, ReplayIsChain
<1>2. ChainInv /\ [Next]_vars => ChainInv'
  BY ChainStep
<1>3. ChainInv => ReplayIsChain
  BY DEF ChainInv
<1> QED BY <1>1, <1>2, <1>3, PTL DEF Spec
===============================================================================
