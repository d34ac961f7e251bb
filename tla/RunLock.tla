-------------------------------- MODULE RunLock --------------------------------
(***************************************************************************)
(* One lock file of internal/store (locks/write.lock, locks/events.lock,   *)
(* locks/gc.lock): acquire and Lock.Release, one system call per action.   *)
(*                                                                         *)
(* A process is one command invocation.  It may use the lock several       *)
(* times, it exits when it is done, and it may be killed anywhere.  The    *)
(* file names its creator's PID and a random token; a token is modelled by *)
(* the creator and the number of its attempt, which is as unique.  PIDs    *)
(* are not reused.                                                         *)
(***************************************************************************)
EXTENDS Naturals, FiniteSets

CONSTANTS
  Proc,          (* processes                                            *)
  NoOne,         (* nobody: RunMutex's free lock                         *)
  NoFile,        (* the lock file does not exist                         *)
  MaxAttempts,   (* bound: acquire calls of one process                  *)
  MaxKilled      (* bound: processes killed                              *)

ASSUME LockConstants ==
  /\ NoFile \notin [pid : Proc, token : Nat, written : BOOLEAN]
  /\ NoOne \notin Proc
  /\ MaxAttempts \in Nat
  /\ MaxKilled \in Nat

VARIABLES
  file,       (* the lock file at the path: NoFile, or who created it and  *)
              (* whether its metadata has been written                     *)
  pc,         (* where each process is in acquire or Release               *)
  attempt,    (* acquire calls each process has begun                      *)
  seen,       (* the metadata each contender read from an existing file    *)
  killed,     (* processes killed so far                                   *)
  misfired    (* history: some takeover removed a file it had not judged   *)

lockVars == <<file, pc, attempt, seen, killed, misfired>>

Meta == [pid : Proc, token : Nat, written : BOOLEAN]

Held == {"held", "releasing"}
Owning == Held \cup {"created"}

(* processAlive: kill(pid, 0) fails once the process is gone. *)
Alive(p) == pc[p] # "gone"

Mine(p) ==
  /\ file # NoFile
  /\ file.pid = p
  /\ file.token = attempt[p]

(* The file exists and its metadata decodes. *)
Readable == file # NoFile /\ file.written

Goto(p, from, to) ==
  /\ pc[p] = from
  /\ pc' = [pc EXCEPT ![p] = to]

-------------------------------------------------------------------------------
LockInit ==
  /\ file = NoFile
  /\ pc = [p \in Proc |-> "idle"]
  /\ attempt = [p \in Proc |-> 0]
  /\ seen = [p \in Proc |-> NoFile]
  /\ killed = 0
  /\ misfired = FALSE

(* acquire is called: a fresh token. *)
Attempt(p) ==
  /\ Goto(p, "idle", "opening")
  /\ attempt[p] < MaxAttempts
  /\ attempt' = [attempt EXCEPT ![p] = @ + 1]
  /\ UNCHANGED <<file, seen, killed, misfired>>

(* Mutant of Create: the file is opened without O_EXCL. *)
CreateShared(p) ==
  /\ Goto(p, "opening", "created")
  /\ file' = [pid |-> p, token |-> attempt[p], written |-> FALSE]
  /\ UNCHANGED <<attempt, seen, killed, misfired>>

(* OpenFile(O_CREATE|O_EXCL) succeeds: the file is there, still empty. *)
Create(p) ==
  /\ Goto(p, "opening", "created")
  /\ file = NoFile
  /\ file' = [pid |-> p, token |-> attempt[p], written |-> FALSE]
  /\ UNCHANGED <<attempt, seen, killed, misfired>>

(* OpenFile fails with IsExist. *)
Exists(p) ==
  /\ Goto(p, "opening", "reading")
  /\ file # NoFile
  /\ UNCHANGED <<file, attempt, seen, killed, misfired>>

(* The metadata goes to the file this process opened; when the path names  *)
(* another file by now, the write is to an unlinked one.                   *)
WriteMetadata(p) ==
  /\ Goto(p, "created", "held")
  /\ file' = IF Mine(p) THEN [file EXCEPT !.written = TRUE] ELSE file
  /\ UNCHANGED <<attempt, seen, killed, misfired>>

(* The write or the sync fails: the path is removed, the call fails. *)
FailMetadata(p) ==
  /\ Goto(p, "created", "idle")
  /\ file' = NoFile
  /\ UNCHANGED <<attempt, seen, killed, misfired>>

(* Mutant of RefuseUnknown: a lock without metadata is waited for. *)
WaitUnknown(p) ==
  /\ Goto(p, "reading", "opening")
  /\ ~Readable
  /\ UNCHANGED <<file, attempt, seen, killed, misfired>>

(* The existing file has gone or has no valid metadata: already held. *)
RefuseUnknown(p) ==
  /\ Goto(p, "reading", "idle")
  /\ ~Readable
  /\ UNCHANGED <<file, attempt, seen, killed, misfired>>

ReadMetadata(p) ==
  /\ Goto(p, "reading", "judging")
  /\ Readable
  /\ seen' = [seen EXCEPT ![p] = file]
  /\ UNCHANGED <<file, attempt, killed, misfired>>

RefuseLive(p) ==
  /\ Goto(p, "judging", "idle")
  /\ Alive(seen[p].pid)
  /\ UNCHANGED <<file, attempt, seen, killed, misfired>>

(* Mutant of JudgeDead: processAlive is not asked. *)
JudgeAnyone(p) ==
  /\ Goto(p, "judging", "removing")
  /\ UNCHANGED <<file, attempt, seen, killed, misfired>>

(* Mutant of JudgeDead: a dead holder's lock is refused as a live one is. *)
RefuseDead(p) ==
  /\ Goto(p, "judging", "idle")
  /\ ~Alive(seen[p].pid)
  /\ UNCHANGED <<file, attempt, seen, killed, misfired>>

JudgeDead(p) ==
  /\ Goto(p, "judging", "removing")
  /\ ~Alive(seen[p].pid)
  /\ UNCHANGED <<file, attempt, seen, killed, misfired>>

(* os.Remove(path), whatever file the path names now; then acquire again.  *)
RemoveStale(p) ==
  /\ Goto(p, "removing", "opening")
  /\ file' = NoFile
  /\ misfired' = (misfired \/ file \notin {NoFile, seen[p]})
  /\ UNCHANGED <<attempt, seen, killed>>

(* Release reads the path back and finds its own token. *)
ReleaseOwned(p) ==
  /\ Goto(p, "held", "releasing")
  /\ Mine(p) /\ Readable
  /\ UNCHANGED <<file, attempt, seen, killed, misfired>>

(* Release finds no file, or one that is not its own, and leaves it.       *)
ReleaseForeign(p) ==
  /\ Goto(p, "held", "idle")
  /\ ~(Mine(p) /\ Readable)
  /\ UNCHANGED <<file, attempt, seen, killed, misfired>>

RemoveOwned(p) ==
  /\ Goto(p, "releasing", "idle")
  /\ file' = NoFile
  /\ UNCHANGED <<attempt, seen, killed, misfired>>

(* The command ends. *)
Exit(p) ==
  /\ Goto(p, "idle", "gone")
  /\ UNCHANGED <<file, attempt, seen, killed, misfired>>

(* The process is killed; its lock file, written or empty, stays behind.   *)
KillContender(p) ==
  /\ pc[p] \notin {"idle", "gone"}
  /\ killed < MaxKilled
  /\ pc' = [pc EXCEPT ![p] = "gone"]
  /\ killed' = killed + 1
  /\ UNCHANGED <<file, attempt, seen, misfired>>

(* The steps of one acquire or Release call, once it has begun. *)
Acquiring(p) ==
  \/ Create(p) \/ Exists(p) \/ WriteMetadata(p) \/ FailMetadata(p)
  \/ RefuseUnknown(p) \/ ReadMetadata(p) \/ RefuseLive(p) \/ JudgeDead(p)
  \/ RemoveStale(p)

Releasing(p) == ReleaseOwned(p) \/ ReleaseForeign(p) \/ RemoveOwned(p)

LockNext ==
  \E p \in Proc :
    Attempt(p) \/ Acquiring(p) \/ Releasing(p) \/ Exit(p) \/ KillContender(p)

LockSpec == LockInit /\ [][LockNext]_lockVars

(* A call that has begun runs to its end unless its process is killed.     *)
FairSpec ==
  /\ LockSpec
  /\ \A p \in Proc : WF_lockVars(Acquiring(p)) /\ WF_lockVars(Releasing(p))

-------------------------------------------------------------------------------
LockTypeOK ==
  /\ file \in Meta \cup {NoFile}
  /\ pc \in [Proc -> {"idle", "opening", "created", "reading", "judging",
                      "removing", "held", "releasing", "gone"}]
  /\ attempt \in [Proc -> Nat]
  /\ seen \in [Proc -> Meta \cup {NoFile}]
  /\ killed \in Nat
  /\ misfired \in BOOLEAN
  /\ \A p \in Proc : pc[p] \in {"judging", "removing"} => seen[p] # NoFile

(* At most one process believes it holds the lock: what every caller of    *)
(* AcquireRunLock relies on.                                               *)
MutualExclusion ==
  \A p, q \in Proc : pc[p] \in Held /\ pc[q] \in Held => p = q

(* As long as no takeover has removed a file other than the one it judged, *)
(* the lock file is that of the process that created or holds the lock, so *)
(* that Release can only remove the exact token it owns.                   *)
HolderOwnsFile ==
  ~misfired =>
    \A p \in Proc : pc[p] \in Owning =>
      Mine(p) /\ (Readable <=> pc[p] \in Held)

(* A takeover that has judged a lock dead acts on a process that is gone:  *)
(* os.Remove never follows a judgement that the holder is alive.           *)
JudgedIsGone ==
  \A p \in Proc : pc[p] = "removing" => ~Alive(seen[p].pid)

(* acquire never waits: a call that has begun ends with the lock, with a   *)
(* refusal, or with its process, even while other commands keep taking and *)
(* leaving the lock.                                                       *)
AcquireEnds ==
  \A p \in Proc : pc[p] = "opening" ~> pc[p] \in {"idle", "held", "gone"}

(* A lock whose holder died after writing its metadata is recovered: once  *)
(* a contender has read it, that very file goes away or the contender is   *)
(* killed too.                                                             *)
DeadLockRecovered ==
  \A p \in Proc :
    (pc[p] = "judging" /\ file = seen[p] /\ ~Alive(seen[p].pid))
      ~> (file # seen[p] \/ pc[p] = "gone")

-------------------------------------------------------------------------------
(* The lock the callers see. *)
holder ==
  IF \E p \in Proc : pc[p] \in Held
    THEN CHOOSE p \in Proc : pc[p] \in Held
    ELSE NoOne

Mutex == INSTANCE RunMutex

(* The lock file implements RunMutex. *)
ImplementsMutex == Mutex!Spec

(* It does so as long as no takeover has misfired, however many processes  *)
(* contend: the lock goes from one holder to the next only by being free.  *)
MutexUntilMisfire == Mutex!Init /\ [][misfired' \/ Mutex!Next]_holder
===============================================================================
