-------------------------------- MODULE GateRun --------------------------------
(***************************************************************************)
(* The gates of one run: gates plan, gates run and what verify makes of    *)
(* their evidence, under concurrent commands, an edited worktree and a     *)
(* toolchain that is replaced under them (internal/gates, internal/cli     *)
(* gates and verify).                                                      *)
(*                                                                         *)
(* A plan's digest covers the order of its gates, the digests of their     *)
(* executables and environment, the snapshot and the configuration.  The   *)
(* last two cannot change in a run, VerifyFresh covers the configuration;  *)
(* an environment is a process's own and is left out.                      *)
(***************************************************************************)
EXTENDS GatePlan, RunStates, Functions

CONSTANTS
  Proc,          (* processes, one per command                              *)
  Declaration,   (* gate declarations: dependencies, what the change        *)
                 (* matches, which gates are blocking, which final_always   *)
  Toolchain,     (* what the gates' executables can be                      *)
  None           (* no file                                                 *)

ASSUME RunConstants ==
  /\ \A d \in Declaration :
       /\ d.deps \in [Gate -> SUBSET Gate]
       /\ d.matching \subseteq Gate /\ d.blocking \subseteq Gate
       /\ d.final \subseteq Gate
  /\ \A t \in Toolchain : DOMAIN t = Gate

VARIABLES
  decl,       (* the configured gates                                      *)
  state,      (* run.json                                                  *)
  fresh,      (* the worktree is as the snapshot has it                    *)
  toolchain,  (* the gates' executables as they are now                    *)
  plan,       (* gates/plan.json                                           *)
  evidence,   (* gates/evidence.json                                       *)
  pc, cmd     (* where each process is, and what it remembers              *)

files == <<plan, evidence>>
world == <<decl, fresh, toolchain>>
vars == <<state, world, files, pc, cmd>>

Plan == [gates : Seq(Gate), tools : {Restrict(t, S) : t \in Toolchain, S \in SUBSET Gate}]

(* BuildPlan, now *)
Build ==
  LET gates == Order(decl.deps, decl.matching)
  IN  [gates |-> gates, tools |-> Restrict(toolchain, ToSet(gates))]

(* What gates run records, and what it knows of the gates it has run: the  *)
(* plan it follows, whether it is --final, the gates it reports as passed  *)
(* and as failed; ran is a history: those whose executable was the planned *)
(* one when it was started, and which exited with 0.                       *)
Report == [plan : Plan, final : BOOLEAN, passed : SUBSET Gate,
           failed : SUBSET Gate, ran : SUBSET Gate]

Command == [op : {"none", "plan", "run", "verify", "finalize"},
            built : Plan \cup {None}, at : Nat, exit : BOOLEAN,
            report : Report \cup {None}, next : State \cup {NoRun}]

Nothing == [op |-> "none", built |-> None, at |-> 1, exit |-> FALSE,
            report |-> None, next |-> NoRun]

Init ==
  /\ decl \in Declaration
  /\ state = "REVIEWED"
  /\ fresh = TRUE
  /\ toolchain \in Toolchain
  /\ plan = None
  /\ evidence = None
  /\ pc = [p \in Proc |-> "idle"]
  /\ cmd = [p \in Proc |-> Nothing]

Goto(p, from, to) ==
  /\ pc[p] = from
  /\ pc' = [pc EXCEPT ![p] = to]

Leave(p) ==
  /\ pc' = [pc EXCEPT ![p] = "idle"]
  /\ cmd' = [cmd EXCEPT ![p] = Nothing]

(* A command that is refused, fails on an error or is killed: what it has  *)
(* not written is lost.  Every check below that does not hold ends so.     *)
Stop(p) ==
  /\ pc[p] # "idle"
  /\ Leave(p)
  /\ UNCHANGED <<state, world, files>>

(* A command that has a valid configuration, a fresh snapshot and the plan *)
(* as BuildPlan makes it now.                                              *)
Begins(p, op, next, first) ==
  /\ Valid(decl.deps) /\ fresh
  /\ Goto(p, "idle", first)
  /\ cmd' = [cmd EXCEPT ![p] = [Nothing EXCEPT !.op = op, !.built = Build,
                                               !.next = next]]
  /\ UNCHANGED <<state, world, files>>

-------------------------------------------------------------------------------
(* gates plan: in any state of the run *)
StartPlan(p) == Begins(p, "plan", NoRun, "store")

StorePlan(p) ==
  /\ pc[p] = "store"
  /\ plan' = cmd[p].built
  /\ Leave(p)
  /\ UNCHANGED <<state, world, evidence>>

-------------------------------------------------------------------------------
(* gates run *)
StartRun(p) == state = "REVIEWED" /\ Begins(p, "run", NoRun, "trust")

(* The plan it built is the stored one, which the operator trusts.         *)
TrustPlan(p, final) ==
  /\ plan = cmd[p].built
  /\ Goto(p, "trust", "before")
  /\ cmd' = [cmd EXCEPT ![p].report = [plan |-> plan, final |-> final, passed |-> {},
                                       failed |-> {}, ran |-> {}]]
  /\ UNCHANGED <<state, world, files>>

Before(p) ==
  /\ fresh
  /\ Goto(p, "before", "gate")
  /\ UNCHANGED <<state, world, files, cmd>>

HasGate(p) == cmd[p].at <= Len(cmd[p].built.gates)

gate(p) == cmd[p].built.gates[cmd[p].at]

(* The gate's executable is the planned one, and its dependencies passed.  *)
MayRun(p) ==
  /\ toolchain[gate(p)] = cmd[p].built.tools[gate(p)]
  /\ decl.deps[gate(p)] \subseteq cmd[p].report.passed

RunGate(p) ==
  /\ Goto(p, "gate", "running")
  /\ HasGate(p) /\ MayRun(p)
  /\ UNCHANGED <<state, world, files, cmd>>

(* The child ends, by itself or by the gate's timeout. *)
ExitGate(p, exit) ==
  /\ Goto(p, "running", "after")
  /\ cmd' = [cmd EXCEPT ![p].exit = exit,
                        ![p].report.ran = IF exit THEN @ \cup {gate(p)} ELSE @]
  /\ UNCHANGED <<state, world, files>>

(* Mutant of Tolerated: every failure is. *)
ToleratedAny(p) == TRUE

(* The gate has passed, or need not. *)
Tolerated(p) == cmd[p].exit \/ gate(p) \notin decl.blocking

After(p) ==
  /\ Goto(p, "after", "gate")
  /\ fresh /\ Tolerated(p)
  /\ cmd' = [cmd EXCEPT
       ![p].at = @ + 1,
       ![p].report.passed = IF cmd[p].exit THEN @ \cup {gate(p)} ELSE @,
       ![p].report.failed = IF cmd[p].exit THEN @ ELSE @ \cup {gate(p)}]
  /\ UNCHANGED <<state, world, files>>

WriteEvidence(p) ==
  /\ pc[p] = "gate" /\ ~HasGate(p)
  /\ evidence' = cmd[p].report
  /\ Leave(p)
  /\ UNCHANGED <<state, world, plan>>

-------------------------------------------------------------------------------
(* verify and finalize, of whose verdict only the gates are looked at here. *)
(* The state they loaded says where a ready verdict moves the run; if       *)
(* nowhere, they only write a report.                                       *)
FirstMove(op) ==
  CASE state = "REVIEWED" -> "GATED"
    [] state = "REREVIEWED" /\ op = "finalize" -> "FINALIZED"
    [] OTHER -> NoRun

StartVerify(p, op) ==
  /\ FirstMove(op) # NoRun
  /\ Begins(p, op, FirstMove(op), "compare")

(* No stored plan is as good as the current one. *)
ComparePlan(p) ==
  /\ plan \in {cmd[p].built, None}
  /\ Goto(p, "compare", "judge")
  /\ UNCHANGED <<state, world, files, cmd>>

(* Mutant of Accepted: an ordinary pass is as good as a --final one. *)
AcceptedOrdinary(p, g) ==
  evidence # None /\ evidence.plan = cmd[p].built /\ g \in evidence.passed

(* Mutant of Accepted: a gate without a record does not count. *)
AcceptedUnrecorded(p, g) == evidence = None \/ AcceptedOrdinary(p, g)

(* The gate has passing evidence, for this plan. *)
Accepted(p, g) ==
  /\ evidence # None
  /\ evidence.plan = cmd[p].built
  /\ g \in evidence.passed
  /\ g \in decl.final => evidence.final

Judge(p) ==
  /\ Goto(p, "judge", "advance")
  /\ \A g \in ToSet(cmd[p].built.gates) \cap decl.blocking : Accepted(p, g)
  /\ cmd' = [cmd EXCEPT ![p].report = evidence]
  /\ UNCHANGED <<state, world, files>>

(* The state a verify that has reached one asks for next. *)
Then(p) ==
  CASE cmd[p].next = "GATED" -> "REREVIEWED"
    [] cmd[p].next = "REREVIEWED" /\ cmd[p].op = "finalize" -> "FINALIZED"
    [] OTHER -> NoRun

Advance(p) ==
  /\ pc[p] = "advance" /\ AllowedTransition(state, cmd[p].next)
  /\ state' = cmd[p].next
  /\ IF Then(p) = NoRun
       THEN Leave(p)
       ELSE cmd' = [cmd EXCEPT ![p].next = Then(p)] /\ pc' = pc
  /\ UNCHANGED <<world, files>>

-------------------------------------------------------------------------------
(* The environment: gates and people write to the worktree, and undo it;   *)
(* tools are installed.                                                    *)
Edit == fresh' = ~fresh /\ UNCHANGED <<decl, state, toolchain, files, pc, cmd>>

Install(t) ==
  /\ t # toolchain /\ toolchain' = t
  /\ UNCHANGED <<decl, state, fresh, files, pc, cmd>>

Step(p) ==
  \/ StartPlan(p) \/ StorePlan(p)
  \/ StartRun(p) \/ (\E final \in BOOLEAN : TrustPlan(p, final)) \/ Before(p)
  \/ RunGate(p) \/ (\E exit \in BOOLEAN : ExitGate(p, exit)) \/ After(p)
  \/ WriteEvidence(p)
  \/ (\E op \in {"verify", "finalize"} : StartVerify(p, op))
  \/ ComparePlan(p) \/ Judge(p) \/ Advance(p)
  \/ Stop(p)

Next ==
  \/ \E p \in Proc : Step(p)
  \/ Edit
  \/ \E t \in Toolchain : Install(t)

Spec == Init /\ [][Next]_vars

-------------------------------------------------------------------------------
(* The types of the variables. *)
TypeOK ==
  /\ decl \in Declaration
  /\ state \in State
  /\ fresh \in BOOLEAN
  /\ toolchain \in Toolchain
  /\ plan \in Plan \cup {None}
  /\ evidence \in Report \cup {None}
  /\ pc \in [Proc -> {"idle", "store", "trust", "before", "gate", "running",
                      "after", "compare", "judge", "advance"}]
  /\ cmd \in [Proc -> Command]

ASSUME NoReport == None \notin Report

(* BuildPlan: the plan of every accepted declaration has each wanted gate  *)
(* once, after its dependencies.                                           *)
PlanIsOrdered ==
  plan # None => Ordered(plan.gates, decl.deps, decl.matching)

(* gates.Run: evidence is written only for a whole plan.  Each of its      *)
(* gates is in it, passed or failed; those that passed did exit with 0,    *)
(* and so did every blocking gate and every dependency of a gate.          *)
EvidenceIsWhole ==
  evidence # None =>
    LET planned == Wanted(decl.deps, decl.matching)
    IN  /\ evidence.passed \cup evidence.failed = planned
        /\ evidence.passed \subseteq evidence.ran
        /\ planned \cap decl.blocking \subseteq evidence.ran
        /\ \A g \in planned : decl.deps[g] \subseteq evidence.ran

(* verify: a command that is about to move the run on has read evidence of *)
(* one gates run in which all blocking gates passed, on the executables it *)
(* has seen itself, and the final_always ones in a --final run, whatever   *)
(* was planned, run or installed since.                                    *)
VerdictIsBacked ==
  \A p \in Proc : pc[p] = "advance" =>
    \A g \in Wanted(decl.deps, decl.matching) \cap decl.blocking :
      /\ cmd[p].report # None
      /\ g \in cmd[p].report.ran
      /\ cmd[p].report.plan = cmd[p].built
      /\ g \in decl.final => cmd[p].report.final

(* verify beside gates run: a run that has left REVIEWED has evidence on   *)
(* disk that all blocking gates passed, also when a gates run that began   *)
(* before, for another plan or not --final, writes its own over it.        *)
JudgedStaysBacked ==
  state # "REVIEWED" =>
    \A g \in Wanted(decl.deps, decl.matching) \cap decl.blocking :
      evidence # None /\ g \in evidence.passed /\ g \in evidence.ran
===============================================================================
