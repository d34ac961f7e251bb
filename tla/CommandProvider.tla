---------------------------- MODULE CommandProvider ----------------------------
(***************************************************************************)
(* review run of one task of a run (internal/cli/review.go,                *)
(* internal/providers): the packet is described, the plan authorized, the  *)
(* provider's executable started for a handshake and then for the review,  *)
(* and its result recorded; each attempt goes to reviews/attempts.json.    *)
(* The operator, the clock and whoever installs executables act beside it, *)
(* and so do the commands that finalize the run and archive it.            *)
(*                                                                         *)
(* Of an execution plan only the executable's digest can change while a    *)
(* command runs, and it stands for the plan; the flags, the environment    *)
(* and the packet are the command's own.                                   *)
(***************************************************************************)
EXTENDS ReviewResults

CONSTANTS
  Proc,          (* processes, one per command                              *)
  Version,       (* versions of the provider's executable                   *)
  Reviewed,      (* the task                                                *)
  Answer,        (* results a provider may give                             *)
  Earlier,       (* what the index may hold before                          *)
  None,          (* no plan, no result, no file                             *)
  MaxCommands    (* bound: commands that are started                        *)

ASSUME ProviderConstants ==
  /\ Reviewed \in Task
  /\ None \notin Version /\ None \notin Answer /\ None \notin Proc
  /\ MaxCommands \in Nat

(* A result as results.Validate reads it; by is the command it came with,  *)
(* 0 when it came by record or import.                                     *)
IsResult(r) ==
  /\ r = [task |-> r.task, pass |-> r.pass, perspective |-> r.perspective,
          context |-> r.context, completed |-> r.completed, coverage |-> r.coverage,
          findings |-> r.findings, by |-> r.by]
  /\ r.completed \in BOOLEAN

ASSUME EarlierWereAccepted ==
  /\ \A answer \in Answer : IsResult(answer)
  /\ \A e \in Earlier :
       /\ e \in Seq(Range(e))
       /\ \A i \in DOMAIN e : IsResult(e[i]) /\ e[i].by = 0 /\ Accepted(e[i], e[i].task)

VARIABLES
  state,      (* how far the run is                                        *)
  index,      (* results/index.json, with the results it refers to         *)
  comparison, (* results/<task>/comparison.json                            *)
  attempts,   (* reviews/attempts.json                                     *)
  writeLock,  (* the run's lock                                            *)
  binary,     (* the executable as it is                                   *)
  lapsed,     (* what the operator has granted has expired                 *)
  pc, cmd,    (* where each process is, and what it remembers              *)
  commands,   (* commands started so far                                   *)
  standing,   (* history: processes for which nothing has changed since    *)
              (* they last authorized                                      *)
  missed      (* history: a comparison was made of a slice that had        *)
              (* changed under its owner, or a command ended before it     *)

record == <<index, comparison, missed>>
world == <<binary, lapsed>>
vars == <<state, record, attempts, writeLock, world, pc, cmd, commands, standing>>

(* id is the command; echoed the plan it displayed and the operator has to *)
(* echo, plan the one it executes, trust the binding it has read, read the *)
(* ledger and left the index, as it has them in memory.                    *)
Told == {"planned", "packet_ready", "started", "failed", "completed"}

Attempt == [id : Nat, status : Told, plan : Version \cup {None}]

Results == (UNION {Range(e) : e \in Earlier})
             \cup {[answer EXCEPT !.by = id] : answer \in Answer, id \in 1..MaxCommands}

Command == [id : 0..MaxCommands, status : Told \cup {"none"}, echoed : Version \cup {None},
            plan : Version \cup {None}, trust : Version \cup {None},
            read : Seq(Attempt), answer : Answer \cup {None}, left : Seq(Results)]

Nothing == [id |-> 0, status |-> "none", echoed |-> None, plan |-> None,
            trust |-> None, read |-> <<>>, answer |-> None, left |-> <<>>]

TypeOK ==
  /\ state \in {"CONTRACTED", "REVIEWING", "REVIEWED", "ARCHIVED"}
  /\ index \in Seq(Results)
  /\ attempts \in Seq(Attempt)
  /\ writeLock \in Proc \cup {None}
  /\ binary \in Version /\ lapsed \in BOOLEAN /\ missed \in BOOLEAN
  /\ pc \in [Proc -> {"idle", "lock", "write", "echo", "authorize", "handshake", "answer",
                      "record", "append", "compare", "move"}]
  /\ cmd \in [Proc -> Command]
  /\ commands \in 0..MaxCommands
  /\ standing \subseteq Proc

(* A single result is not compared. *)
ComparisonOf(results) ==
  LET compared == Compare(Of(results, Reviewed))
  IN  IF compared.size > 1 THEN compared ELSE None

Init ==
  /\ index \in Earlier
  /\ state = IF index = <<>> THEN "CONTRACTED" ELSE "REVIEWING"
  /\ comparison = ComparisonOf(index)
  /\ attempts = <<>>
  /\ writeLock = None
  /\ binary \in Version
  /\ lapsed = FALSE
  /\ pc = [p \in Proc |-> "idle"]
  /\ cmd = [p \in Proc |-> Nothing]
  /\ commands = 0
  /\ standing = {}
  /\ missed = FALSE

Goto(p, from, to) ==
  /\ pc[p] = from
  /\ pc' = [pc EXCEPT ![p] = to]

Unlocked(p) == IF writeLock = p THEN None ELSE writeLock

(* A command returns. *)
Leave(p) ==
  /\ pc' = [pc EXCEPT ![p] = "idle"]
  /\ cmd' = [cmd EXCEPT ![p] = Nothing]
  /\ writeLock' = Unlocked(p)
  /\ UNCHANGED <<state, record, attempts, world, commands, standing>>

(* The command is about to append an attempt. *)
Attempts(p, status) ==
  /\ pc' = [pc EXCEPT ![p] = "lock"]
  /\ cmd' = [cmd EXCEPT ![p].status = status]

-------------------------------------------------------------------------------
(* runReview up to the first attempt.  A manual review ends with it.       *)
Start(p, status) ==
  /\ state \in {"CONTRACTED", "REVIEWING"}
  /\ pc[p] = "idle"
  /\ commands < MaxCommands
  /\ commands' = commands + 1
  /\ pc' = [pc EXCEPT ![p] = "lock"]
  /\ cmd' = [cmd EXCEPT ![p].id = commands + 1, ![p].status = status,
                        ![p].echoed = IF status = "planned" THEN binary ELSE None]
  /\ UNCHANGED <<state, record, attempts, writeLock, world, standing>>

(* appendReviewAttempt: the ledger is read and written under the lock,     *)
(* the event follows.  A failure of an attempt's own recording is the end  *)
(* of the command, also when the attempt says that it has failed.          *)

(* Mutant of ReadAttempts: the lock is not waited for. *)
ReadAnyway(p) ==
  /\ Goto(p, "lock", "write")
  /\ writeLock' = p
  /\ cmd' = [cmd EXCEPT ![p].read = attempts]
  /\ UNCHANGED <<state, record, attempts, world, commands, standing>>

ReadAttempts(p) ==
  /\ Goto(p, "lock", "write")
  /\ writeLock = None /\ writeLock' = p
  /\ cmd' = [cmd EXCEPT ![p].read = attempts]
  /\ UNCHANGED <<state, record, attempts, world, commands, standing>>

RefuseLock(p) ==
  /\ pc[p] = "lock" /\ writeLock # None
  /\ Leave(p)

After(status) ==
  CASE status = "planned" -> "echo"
    [] status = "started" -> "authorize"
    [] OTHER -> "idle"

WriteAttempts(p) ==
  /\ state # "ARCHIVED" /\ pc[p] = "write"
  /\ attempts' = Append(cmd[p].read, [id |-> cmd[p].id, status |-> cmd[p].status,
                                       plan |-> cmd[p].echoed])
  /\ writeLock' = Unlocked(p)
  /\ UNCHANGED <<state, record, world, commands, standing>>

(* The ledger is written, the event appended and the lock released.        *)
AppendAttempt(p) ==
  /\ WriteAttempts(p)
  /\ pc' = [pc EXCEPT ![p] = After(cmd[p].status)]
  /\ cmd' = [cmd EXCEPT ![p] =
       IF After(cmd[p].status) = "idle" THEN Nothing ELSE [@ EXCEPT !.read = <<>>]]

(* events.lock is held, or the command killed, when the event is due.      *)
RefuseEvent(p) ==
  /\ WriteAttempts(p)
  /\ pc' = [pc EXCEPT ![p] = "idle"]
  /\ cmd' = [cmd EXCEPT ![p] = Nothing]

RefuseArchived(p) ==
  /\ pc[p] = "write" /\ state = "ARCHIVED"
  /\ Leave(p)

-------------------------------------------------------------------------------
(* A plan that has been displayed is one the operator may grant.           *)
Displayed == {attempts[i].plan : i \in {j \in DOMAIN attempts :
                                          attempts[j].status = "planned"}}

(* The plan is echoed and the packet clean: trust binding and egress grant *)
(* are read, and NewCommand describes the command again.                   *)
NewCommand(p) ==
  /\ pc[p] = "echo"
  /\ pc' = [pc EXCEPT ![p] = "lock"]
  /\ \E granted \in Displayed :
       cmd' = [cmd EXCEPT ![p].trust = granted, ![p].plan = binary, ![p].status = "started"]
  /\ UNCHANGED <<state, record, attempts, writeLock, world, commands, standing>>

(* No digest or another one, scan findings, no grants. *)
StayUnauthorized(p) ==
  /\ pc[p] = "echo"
  /\ Leave(p)

(* Mutant of Authorized: the executable is not described again. *)
AuthorizedOnce(p) == cmd[p].trust = cmd[p].plan /\ ~lapsed

(* Command.authorize *)
Authorized(p) ==
  /\ binary = cmd[p].plan
  /\ cmd[p].trust = cmd[p].plan
  /\ ~lapsed

(* Review authorizes, Handshake does so again and runs the executable.     *)
Handshake(p) ==
  /\ Authorized(p)
  /\ Goto(p, "authorize", "handshake")
  /\ standing' = standing \cup {p}
  /\ UNCHANGED <<state, record, attempts, writeLock, world, cmd, commands>>

RefuseAuthorization(p) ==
  /\ pc[p] = "authorize" /\ ~Authorized(p)
  /\ Attempts(p, "failed")
  /\ UNCHANGED <<state, record, attempts, writeLock, world, commands, standing>>

(* The answer to the handshake is as the plan wants it.  The executable is *)
(* run again, with the packet on its stdin.                                *)
Deliver(p) ==
  /\ Goto(p, "handshake", "answer")
  /\ standing' = standing \ {p}
  /\ cmd' = [cmd EXCEPT ![p].plan = None, ![p].trust = None]
  /\ UNCHANGED <<state, record, attempts, writeLock, world, commands>>

TakeAnswer(p, answer) ==
  /\ Goto(p, "answer", "record")
  /\ cmd' = [cmd EXCEPT ![p].answer = answer]
  /\ UNCHANGED <<state, record, attempts, writeLock, world, commands, standing>>

(* It ends otherwise: exit status, limits, timeout, or no valid output.    *)
FailProvider(p) ==
  /\ pc[p] \in {"handshake", "answer"}
  /\ Attempts(p, "failed")
  /\ standing' = standing \ {p}
  /\ UNCHANGED <<state, record, attempts, writeLock, world, commands>>

-------------------------------------------------------------------------------
(* runRecord, with the result in a temporary file.  What it writes in turn *)
(* is ReviewRun's matter.                                                  *)
LockRecord(p) ==
  /\ Goto(p, "record", "append")
  /\ Accepted(cmd[p].answer, Reviewed)
  /\ writeLock = None /\ writeLock' = p
  /\ UNCHANGED <<state, record, attempts, world, cmd, commands, standing>>

(* Not accepted, worktree edited, lock taken.  *)
RefuseRecord(p) ==
  /\ pc[p] = "record"
  /\ Attempts(p, "failed")
  /\ UNCHANGED <<state, record, attempts, writeLock, world, commands, standing>>

Recordable(p) == state \in {"CONTRACTED", "REVIEWING"} /\ ~Recorded(index, cmd[p].answer)

(* The record, as the index has it, and whose it is. *)
Entry(p) == [cmd[p].answer EXCEPT !.by = cmd[p].id]

RecordResult(p) ==
  /\ Goto(p, "append", "compare")
  /\ Recordable(p)
  /\ index' = AppendResult(index, Entry(p))
  /\ missed' = (missed \/ LeftWith(index, Entry(p)) # index)
  /\ cmd' = [cmd EXCEPT ![p].left = LeftWith(index, Entry(p))]
  /\ UNCHANGED <<state, comparison, attempts, writeLock, world, commands, standing>>

(* Mutant of RefuseAppend: a pass that is recorded is as good as done.     *)
TakeAsRecorded(p) ==
  /\ pc[p] = "append" /\ ~Recordable(p)
  /\ Attempts(p, "completed")
  /\ writeLock' = None
  /\ UNCHANGED <<state, record, attempts, world, commands, standing>>

(* A pass that is recorded already, or a run that has gone on.             *)
RefuseAppend(p) ==
  /\ pc[p] = "append" /\ ~Recordable(p)
  /\ Attempts(p, "failed")
  /\ writeLock' = None
  /\ UNCHANGED <<state, record, attempts, world, commands, standing>>

(* Mutant of Compared: of what was recorded before. *)
ComparedEarlier(p) == Compare(Of(cmd[p].left, Reviewed))

Compared(p) == TaskComparison(cmd[p].left, Entry(p))

WriteComparison(p) ==
  /\ Goto(p, "compare", "move")
  /\ comparison' = IF Compared(p).size > 1 THEN Compared(p) ELSE comparison
  /\ cmd' = [cmd EXCEPT ![p].left = <<>>]
  /\ UNCHANGED <<state, index, missed, attempts, writeLock, world, commands, standing>>

MoveRun(p) ==
  /\ pc[p] = "move"
  /\ state' = IF ReviewComplete(index) THEN "REVIEWED" ELSE "REVIEWING"
  /\ writeLock' = None
  /\ Attempts(p, "completed")
  /\ UNCHANGED <<record, attempts, world, commands, standing>>

(* A result of another record cannot be read: this one stays recorded.     *)
RefuseComparison(p) ==
  /\ pc[p] = "compare"
  /\ missed' = TRUE
  /\ writeLock' = None
  /\ Attempts(p, "failed")
  /\ UNCHANGED <<state, index, comparison, attempts, world, commands, standing>>

(* The event or a transition is refused: all is recorded, and the attempt  *)
(* is a failed one.                                                        *)
RefuseMove(p) ==
  /\ pc[p] = "move"
  /\ state' \in {state, IF ReviewComplete(index) THEN "REVIEWING" ELSE state}
  /\ writeLock' = None
  /\ Attempts(p, "failed")
  /\ UNCHANGED <<record, attempts, world, commands, standing>>

-------------------------------------------------------------------------------
(* The process is killed, or cannot write the temporary file.  Its lock is *)
(* taken over by whoever asks next, which is RunLock's matter.             *)
Kill(p) ==
  /\ pc[p] # "idle"
  /\ pc' = [pc EXCEPT ![p] = "idle"]
  /\ cmd' = [cmd EXCEPT ![p] = Nothing]
  /\ writeLock' = Unlocked(p)
  /\ missed' = (missed \/ pc[p] = "compare")
  /\ standing' = standing \ {p}
  /\ UNCHANGED <<state, index, comparison, attempts, world, commands>>

(* The executable is replaced. *)
Install(version) ==
  /\ binary # version /\ binary' = version
  /\ standing' = {}
  /\ UNCHANGED <<state, record, attempts, writeLock, lapsed, pc, cmd, commands>>

Lapse ==
  /\ ~lapsed /\ lapsed' = TRUE
  /\ standing' = {}
  /\ UNCHANGED <<state, record, attempts, writeLock, binary, pc, cmd, commands>>

(* verify, finalize and run archive *)
ArchiveRun ==
  /\ state = "REVIEWED" /\ writeLock = None
  /\ state' = "ARCHIVED"
  /\ UNCHANGED <<record, attempts, writeLock, world, pc, cmd, commands, standing>>

Attempting(p) ==
  \/ ReadAttempts(p) \/ RefuseLock(p) \/ AppendAttempt(p)
  \/ RefuseEvent(p) \/ RefuseArchived(p)

Executing(p) ==
  \/ NewCommand(p) \/ StayUnauthorized(p)
  \/ Handshake(p) \/ RefuseAuthorization(p) \/ Deliver(p) \/ FailProvider(p)
  \/ \E answer \in Answer : TakeAnswer(p, answer)

Recording(p) ==
  \/ LockRecord(p) \/ RefuseRecord(p) \/ RecordResult(p) \/ RefuseAppend(p)
  \/ WriteComparison(p) \/ RefuseComparison(p) \/ MoveRun(p) \/ RefuseMove(p)

World ==
  \/ \E version \in Version : Install(version)
  \/ Lapse \/ ArchiveRun

Next ==
  \/ \E p \in Proc :
       \/ \E status \in {"planned", "packet_ready"} : Start(p, status)
       \/ Attempting(p) \/ Executing(p) \/ Recording(p) \/ Kill(p)
  \/ World

Spec == Init /\ [][Next]_vars

-------------------------------------------------------------------------------
Started(id) == \E i \in DOMAIN attempts :
                 attempts[i].id = id /\ attempts[i].status = "started"

(* A packet leaves only in an execution of the plan the trust binding      *)
(* names, after an attempt that says so is in the ledger; and to the       *)
(* executable of that plan, before the grants expire, unless executable or *)
(* clock have changed since the handshake was authorized (review.go,       *)
(* command.go; docs/providers-and-results.md promises a check before every *)
(* launch, which the second launch does not get).                          *)
PacketIsAuthorized ==
  [][\A p \in Proc : pc[p] = "handshake" /\ pc'[p] = "answer" =>
       /\ cmd[p].trust = cmd[p].plan /\ Started(cmd[p].id)
       /\ p \in standing => binary = cmd[p].plan /\ ~lapsed]_vars

(* No attempt that is in the ledger is ever lost or altered, by whatever   *)
(* other command appends its own (appendReviewAttempt).                    *)
AttemptsOnlyGrow ==
  [][/\ Len(attempts) <= Len(attempts')
     /\ SubSeq(attempts', 1, Len(attempts)) = attempts]_attempts

Stage(status) ==
  CASE status = "planned" -> 1 [] status = "started" -> 2 [] OTHER -> 3

(* Of each command the ledger tells planned, started and one end, in this  *)
(* order.  An attempt is completed only with its result in the index, and  *)
(* no result of a provider is there without a started attempt (a failed    *)
(* attempt's result may be).                                               *)
AttemptsTellOutcome ==
  /\ \A i, j \in DOMAIN attempts :
       i < j /\ attempts[i].id = attempts[j].id =>
         Stage(attempts[i].status) < Stage(attempts[j].status)
  /\ \A i \in DOMAIN attempts : attempts[i].status = "completed" =>
       \E k \in DOMAIN index : index[k].by = attempts[i].id
  /\ \A k \in DOMAIN index : index[k].by # 0 => Started(index[k].by)

(* The comparison of a task is one of all its recorded results, each once, *)
(* unless a command compared a slice that had changed under it, which is   *)
(* possible from three records on, or ended before it compared.            *)
ComparisonIsOfAll ==
  ~missed /\ (\A p \in Proc : pc[p] # "compare") => comparison = ComparisonOf(index)

(* How much a status says: each of the three means the ones before it.     *)
Strength == [other |-> 0, mechanically_verified |-> 1, invariant_checked |-> 2,
             fully_reviewed |-> 3]

(* In a reviewed run as many contexts as the task demands, and one with    *)
(* each of its perspectives, have gone through all its paths, each at      *)
(* least as closely as it requires (results.Validate, ReviewComplete).     *)
ReviewedIsCovered ==
  state \in {"REVIEWED", "ARCHIVED"} =>
    \A t \in Task :
      LET thorough == {index[i] : i \in {j \in DOMAIN index :
            /\ index[j].task = t
            /\ \A path \in DOMAIN Paths[t] :
                 /\ path \in DOMAIN index[j].coverage
                 /\ Strength[index[j].coverage[path]] >= Strength[Paths[t][path]]}}
      IN  /\ Cardinality({r.context : r \in thorough}) >= Passes[t]
          /\ Perspectives[t] \subseteq {r.perspective : r \in thorough}

===============================================================================
