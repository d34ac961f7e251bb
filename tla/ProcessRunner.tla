----------------------------- MODULE ProcessRunner -----------------------------
(***************************************************************************)
(* One call of process.Run on Unix (internal/process): a child started in  *)
(* a process group of its own, two goroutines that read its output up to a *)
(* limit, one that waits for the end of the context, and the caller, which *)
(* kills the group when a limit is passed or the context ends and reaps    *)
(* the child when both readers are done.                                   *)
(*                                                                         *)
(* Output is counted in units, a pipe holds so many of them.  The child    *)
(* and its descendants write, close, fork, leave the group and exit as     *)
(* they like; nothing is assumed of them.  os/exec is modelled as far as   *)
(* Run relies on it: it feeds stdin, kills the child alone when the        *)
(* context ends, and Wait returns when the child has ended and stdin is    *)
(* fed or broken, and closes the pipes.                                    *)
(***************************************************************************)
EXTENDS Integers, FiniteSets

CONSTANTS
  Child,         (* the process Run starts                                  *)
  Descendant,    (* processes that it, or they, may start                   *)
  Stream,        (* stdout and stderr                                       *)
  Stdin,         (* the pipe Run feeds                                      *)
  Limit,         (* MaxStdout and MaxStderr                                 *)
  Capacity,      (* what a pipe holds                                       *)
  MaxOutput      (* bound: what is written to a stream                      *)

ASSUME RunnerConstants ==
  /\ Child \notin Descendant
  /\ Stdin \notin Stream
  /\ Limit \in [Stream -> Nat \ {0}]
  /\ Capacity \in Nat \ {0}
  /\ MaxOutput \in [Stream -> Nat]

Process == Descendant \cup {Child}

VARIABLES
  ctx,        (* the context has ended                                     *)
  alive,      (* processes that run                                        *)
  group,      (* processes in the child's group, if they run               *)
  holds,      (* the pipes a process has open                              *)
  exit,       (* how the child ended                                       *)
  written,    (* units written to a stream                                 *)
  got,        (* units its reader has read                                 *)
  reader,     (* where the reader of a stream is                           *)
  reported,   (* streams whose error is in limitError                      *)
  closed,     (* readersDone is closed                                     *)
  fed,        (* the goroutine that feeds stdin has ended                  *)
  at,         (* where Run is                                              *)
  watching,   (* the goroutine of watchCancellation still waits            *)
  outcome,    (* what Run has returned                                     *)
  killed      (* history: Run itself has called terminateTree              *)

processes == <<alive, group, holds, exit>>
output == <<written, got>>
readers == <<reader, reported, closed>>
caller == <<at, outcome, killed>>
runnerVars == <<ctx, processes, output, readers, fed, caller, watching>>

Pipe == Stream \cup {Stdin}
InPipe(s) == written[s] - got[s]

Place == {"select", "parked", "limit", "cancel", "drain", "wait", "judge", "returned"}

RunnerTypeOK ==
  /\ ctx \in BOOLEAN /\ fed \in BOOLEAN /\ closed \in BOOLEAN /\ watching \in BOOLEAN
  /\ alive \subseteq Process /\ group \subseteq Process
  /\ holds \in [Process -> SUBSET Pipe]
  /\ exit \in {"none", "ok", "failed"}
  /\ written \in [Stream -> Nat] /\ got \in [Stream -> Nat]
  /\ reader \in [Stream -> {"reading", "over", "done"}]
  /\ reported \subseteq Stream
  /\ at \in Place
  /\ killed \in BOOLEAN
  /\ outcome \in {"none", "ok", "failed", "cancelled", "limit"}

(* Run has started the child and the goroutines.  What it has for stdin    *)
(* may have gone into the pipe at once.                                    *)
RunnerInit ==
  /\ ctx = FALSE
  /\ alive = {Child}
  /\ group = Process
  /\ holds = [p \in Process |-> IF p = Child THEN Pipe ELSE {}]
  /\ exit = "none"
  /\ written = [s \in Stream |-> 0]
  /\ got = [s \in Stream |-> 0]
  /\ reader = [s \in Stream |-> "reading"]
  /\ reported = {}
  /\ closed = FALSE
  /\ fed \in BOOLEAN
  /\ at = "select"
  /\ watching = TRUE
  /\ outcome = "none"
  /\ killed = FALSE

Open(pipe) == \E p \in alive : pipe \in holds[p]

(* The processes in S end, by being killed or of their own. *)
End(S, status) ==
  /\ alive' = alive \ S
  /\ holds' = [p \in Process |-> IF p \in S THEN {} ELSE holds[p]]
  /\ exit' = IF Child \in S \cap alive THEN status ELSE exit
  /\ UNCHANGED group

KillAll(S) == End(S, "failed")

(* A select that waits is woken by the first channel that becomes ready.   *)
Wake(place) == at' = IF at = "parked" THEN place ELSE at

-------------------------------------------------------------------------------
(* The child, its descendants and the clock *)
Fork(p, d) ==
  /\ p \in alive /\ d \in Descendant \ alive
  /\ alive' = alive \cup {d}
  /\ holds' = [holds EXCEPT ![d] = holds[p]]
  /\ group' = IF p \in group THEN group \cup {d} ELSE group \ {d}
  /\ UNCHANGED <<ctx, exit, output, readers, fed, caller, watching>>

(* setsid, which the leader of a group cannot call *)
LeaveGroup(d) ==
  /\ d \in Descendant \cap alive \cap group
  /\ group' = group \ {d}
  /\ UNCHANGED <<ctx, alive, holds, exit, output, readers, fed, caller, watching>>

Close(p, pipe) ==
  /\ p \in alive /\ pipe \in holds[p]
  /\ holds' = [holds EXCEPT ![p] = @ \ {pipe}]
  /\ UNCHANGED <<ctx, alive, group, exit, output, readers, fed, caller, watching>>

(* A write to a full pipe waits; once Run has closed its end it fails.     *)
Write(p, s) ==
  /\ p \in alive /\ s \in holds[p]
  /\ at \notin {"judge", "returned"}
  /\ InPipe(s) < Capacity /\ written[s] < MaxOutput[s]
  /\ written' = [written EXCEPT ![s] = @ + 1]
  /\ UNCHANGED <<ctx, processes, got, readers, fed, caller, watching>>

ReadStdin(p) ==
  /\ p \in alive /\ Stdin \in holds[p]
  /\ ~fed /\ fed' = TRUE
  /\ UNCHANGED <<ctx, processes, output, readers, caller, watching>>

Exit(p, status) ==
  /\ p \in alive
  /\ End({p}, status)
  /\ UNCHANGED <<ctx, output, readers, fed, caller, watching>>

EndContext ==
  /\ ~ctx /\ ctx' = TRUE
  /\ Wake("cancel")
  /\ UNCHANGED <<processes, output, readers, fed, outcome, killed, watching>>

-------------------------------------------------------------------------------
(* readBounded: ReadAll of a reader that ends after limit+1 *)

(* Mutant of Enough: the extra unit is not read. *)
EnoughAtLimit(s) == got[s] = Limit[s]

(* What LimitReader lets through has been read. *)
Enough(s) == got[s] = Limit[s] + 1

Read(s) ==
  /\ reader[s] = "reading" /\ ~Enough(s)
  /\ InPipe(s) > 0
  /\ got' = [got EXCEPT ![s] = @ + 1]
  /\ UNCHANGED <<ctx, processes, written, readers, fed, caller, watching>>

Exceeds(s) == got[s] > Limit[s]

EndOfFile(s) == InPipe(s) = 0 /\ ~Open(s)

FinishReading(s) ==
  /\ reader[s] = "reading"
  /\ Enough(s) \/ EndOfFile(s)
  /\ reader' = [reader EXCEPT ![s] = IF Exceeds(s) THEN "over" ELSE "done"]
  /\ UNCHANGED <<ctx, processes, output, reported, closed, fed, caller, watching>>

(* Mutant of Room: limitError has no buffer, a send meets the select.      *)
RoomForNone == at = "parked"

(* limitError has room for the errors of two readers. *)
Room == Cardinality(reported) < 2

(* The deferred wait.Done comes after the error is sent. *)
ReportLimit(s) ==
  /\ reader[s] = "over" /\ Room
  /\ reader' = [reader EXCEPT ![s] = "done"]
  /\ reported' = reported \cup {s}
  /\ Wake("limit")
  /\ UNCHANGED <<ctx, processes, output, closed, fed, outcome, killed, watching>>

CloseReadersDone ==
  /\ ~closed /\ \A s \in Stream : reader[s] = "done"
  /\ closed' = TRUE
  /\ Wake("wait")
  /\ UNCHANGED <<ctx, processes, output, reader, reported, fed, outcome, killed, watching>>

-------------------------------------------------------------------------------
(* Mutant of Killed: the child alone is killed. *)
KilledChild == {Child}

(* terminateTree kills the group. *)
Killed == group

(* watchCancellation, and what os/exec does for the command *)
WatchCancellation ==
  /\ watching /\ watching' = FALSE
  /\ \/ ctx /\ KillAll(Killed)
     \/ at = "returned" /\ UNCHANGED processes
  /\ UNCHANGED <<ctx, output, readers, fed, caller>>

KillChild ==
  /\ ctx /\ Child \in alive
  /\ KillAll({Child})
  /\ UNCHANGED <<ctx, output, readers, fed, caller, watching>>

(* Nobody is left to read stdin. *)
BreakStdin ==
  /\ ~fed /\ ~Open(Stdin)
  /\ fed' = TRUE
  /\ UNCHANGED <<ctx, processes, output, readers, caller, watching>>

-------------------------------------------------------------------------------
(* Run, from its select *)

(* Any of the channels that are ready, or none is. *)
Select ==
  /\ at = "select"
  /\ \/ reported # {} /\ at' = "limit"
     \/ ctx /\ at' = "cancel"
     \/ closed /\ at' = "wait"
     \/ reported = {} /\ ~ctx /\ ~closed /\ at' = "parked"
  /\ UNCHANGED <<ctx, processes, output, readers, fed, outcome, killed, watching>>

TerminateTree ==
  /\ at \in {"limit", "cancel"} /\ at' = "drain"
  /\ KillAll(Killed)
  /\ killed' = TRUE
  /\ UNCHANGED <<ctx, output, readers, fed, outcome, watching>>

Drain ==
  /\ at = "drain" /\ closed
  /\ at' = "wait"
  /\ UNCHANGED <<ctx, processes, output, readers, fed, outcome, killed, watching>>

(* command.Wait *)
Wait ==
  /\ at = "wait" /\ Child \notin alive /\ fed
  /\ at' = "judge"
  /\ UNCHANGED <<ctx, processes, output, readers, fed, outcome, killed, watching>>

Verdict ==
  CASE ctx -> "cancelled"
    [] ~ctx /\ \E s \in Stream : Exceeds(s) -> "limit"
    [] OTHER -> exit

Return ==
  /\ at = "judge" /\ at' = "returned"
  /\ outcome' = Verdict
  /\ UNCHANGED <<ctx, processes, output, readers, fed, killed, watching>>

Reading(s) == Read(s) \/ FinishReading(s) \/ ReportLimit(s)
Running == Select \/ TerminateTree \/ Drain \/ Wait \/ Return

Environment ==
  \/ \E p \in Process :
       \/ \E d \in Descendant : Fork(p, d)
       \/ \E s \in Stream : Write(p, s)
       \/ \E pipe \in Pipe : Close(p, pipe)
       \/ ReadStdin(p)
       \/ \E status \in {"ok", "failed"} : Exit(p, status)
  \/ \E d \in Descendant : LeaveGroup(d)
  \/ EndContext

RunnerNext ==
  \/ Environment
  \/ \E s \in Stream : Reading(s)
  \/ CloseReadersDone \/ WatchCancellation \/ KillChild \/ BreakStdin
  \/ Running

RunnerSpec == RunnerInit /\ [][RunnerNext]_runnerVars

(* A goroutine that can go on does. *)
FairSpec ==
  /\ RunnerSpec
  /\ \A s \in Stream : WF_runnerVars(Reading(s))
  /\ WF_runnerVars(CloseReadersDone) /\ WF_runnerVars(WatchCancellation)
  /\ WF_runnerVars(KillChild) /\ WF_runnerVars(BreakStdin)
  /\ WF_runnerVars(Running)

-------------------------------------------------------------------------------
(* A command that is not reported as cut off, be it by the limit or by the *)
(* context, is reported with everything that was ever written to its       *)
(* pipes: the readers are at the end before Wait closes the descriptors,   *)
(* and nobody is left who could write (runner.go's comment on Wait).       *)
WholeOutput ==
  outcome \in {"ok", "failed"} => \A s \in Stream : got[s] = written[s]

(* Once Run has killed the tree, because of a limit or of the context, no  *)
(* process of the child's group is alive again, however the rest of the    *)
(* call goes: not one that was forked meanwhile either (terminateTree, and *)
(* TestCancellationKillsGrandchildProcessGroup).                           *)
TreeIsGone == killed => alive \cap group = {}

(* Some process that has left the group has a pipe of the command open.    *)
Loose == \E p \in alive \ group : holds[p] # {}

Returned == at = "returned"

(* The call returns, whatever child and descendants do, unless a process   *)
(* that has left the group keeps a pipe: when the context ends, also while *)
(* Run is in Wait and only the watching goroutine can kill the group; and, *)
(* without the context, when a limit is passed while Run waits in its      *)
(* select.  (Before that there is no such promise: when both readers are   *)
(* done by the time Run gets there, select may take that for the news, and *)
(* Wait waits for the child.)  It returns, pipes or not, when child and    *)
(* descendants have ended: nobody waits for somebody who waits for him.    *)
RunEnds ==
  /\ <>[]~Loose =>
       /\ ctx ~> Returned
       /\ (at = "parked" /\ \E s \in Stream : Exceeds(s)) ~> Returned
  /\ (alive = {}) ~> Returned

===============================================================================
