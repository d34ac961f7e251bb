------------------------------- MODULE ReviewPlan -------------------------------
(***************************************************************************)
(* What there is to review and who has to: from the state of a Git         *)
(* repository to the entries of its change (internal/inventory), their     *)
(* risk (internal/contracts, internal/risk), the review tasks of a plan    *)
(* (internal/planner), and, when the change is changed, the tasks to be    *)
(* done again (internal/workflow ComputeInvalidation).                     *)
(*                                                                         *)
(* A path is the rank of its encoded name, a contract type the rank of its *)
(* name.  What a path's name says is chosen once; renames, modes, ignored  *)
(* files and submodules are left out.                                      *)
(***************************************************************************)
EXTENDS Integers, FiniteSets, SequencesExt

CONSTANTS
  Path, Type,
  TypeLevel,     (* the level inferred from a contract type                *)
  Content,       (* what a file can hold                                   *)
  Absent,        (* no file                                                *)
  Size,          (* of each content                                        *)
  Opaque,        (* the contents that are not text: binaries, LFS pointers *)
  Names,         (* what the paths' names can say                          *)
  Policies,      (* the risk policies there can be                         *)
  Trees,         (* the repositories a review may start from               *)
  MaxFiles, MaxPacketBytes,  (* the configured limits of a task            *)
  MaxEdits       (* bound on edits of the repository                       *)

Level == 0..4
NoRule == -1
SignalLevel == [high_impact |-> 4, boundary |-> 3, source |-> 2, other |-> 2,
                prose |-> 1, generated |-> 0]
Signal == DOMAIN SignalLevel
Slot == {"base", "head", "index", "work"}
Tree == [Path -> [Slot -> Content \cup {Absent}]]

ASSUME PlanConstants ==
  /\ Path \subseteq Nat /\ IsFiniteSet(Path) /\ Type \subseteq Nat
  /\ TypeLevel \in [Type -> Level]
  /\ Absent \notin Content /\ Opaque \subseteq Content
  /\ Size \in [Content \cup {Absent} -> Nat] /\ Size[Absent] = 0
  /\ Names \subseteq [Path -> [signal : Signal, types : SUBSET Type, dir : STRING]]
  /\ Policies \subseteq [Path -> Level \cup {NoRule}]
  /\ Trees \subseteq Tree
  /\ MaxFiles \in Nat \ {0} /\ MaxPacketBytes \in Nat \ {0} /\ MaxEdits \in Nat

VARIABLES
  names,    (* what the paths' names say                                    *)
  policy,   (* the level of the strongest policy rule that matches a path   *)
  tree,     (* the repository: merge base, HEAD, index, worktree            *)
  seal,     (* the snapshot of the current run: tree and policy             *)
  plan,     (* plan.json of the current run: its tasks, in order            *)
  prior,    (* the run before it, and what refresh made of it               *)
  edits     (* how often the repository or the policy has been changed      *)

vars == <<names, policy, tree, seal, plan, prior, edits>>

-------------------------------------------------------------------------------
(* inventory.Capture: the four comparisons, in the order of their scopes.  *)
Scopes == <<"merge_base_to_head", "staged", "unstaged", "untracked">>

Entry == [scope : DOMAIN Scopes, path : Path,
          previous : Content \cup {Absent}, current : Content \cup {Absent}]

EntriesOf(p, file) ==
  {e \in {[scope |-> 1, path |-> p, previous |-> file["base"], current |-> file["head"]],
          [scope |-> 2, path |-> p, previous |-> file["head"], current |-> file["index"]],
          [scope |-> 3, path |-> p, previous |-> file["index"], current |-> file["work"]],
          [scope |-> 4, path |-> p, previous |-> Absent, current |-> file["work"]]} :
     /\ e.previous # e.current
     /\ e.scope = 3 => file["index"] # Absent
     /\ e.scope = 4 => file["index"] = Absent}

Entries(t) == UNION {EntriesOf(p, t[p]) : p \in Path}

Paths(es) == {e.path : e \in es}

FirstOf(es, p) == CHOOSE e \in es : e.path = p /\ \A f \in es : f.path = p => e.scope <= f.scope
LastOf(es, p) == CHOOSE e \in es : e.path = p /\ \A f \in es : f.path = p => f.scope <= e.scope

Bytes(e) == Size[e.previous] + Size[e.current]

-------------------------------------------------------------------------------
(* risk.inferred: the first thing known of a path decides; of its contract *)
(* types the one first by name, of its entries the one first by scope.     *)
Inferred(es, p) ==
  LET grave == names[p].signal \in {"high_impact", "boundary"}
      types == names[p].types
      opaque == FirstOf(es, p).current \in Opaque
  IN  IF grave \/ (types = {} /\ ~opaque) THEN SignalLevel[names[p].signal]
      ELSE IF types # {} THEN TypeLevel[Min(types)] ELSE 3

(* risk.Assess: a policy rule may raise the level. *)
LevelOf(es, p) == Max({policy[p], Inferred(es, p)})

(* Nothing is known of the path: neither by its name nor by a rule.        *)
Unclassified(es, p) ==
  /\ policy[p] = NoRule
  /\ names[p].signal = "other" /\ names[p].types = {}
  /\ FirstOf(es, p).current \notin Opaque

RequiresOwner(level) == level >= 3

-------------------------------------------------------------------------------
(* planner.Build: paths of the same level and contracts make a group, of   *)
(* no contract also of the same directory.  The groups' order is the       *)
(* strings' and left open here.                                            *)
Key(es, p) ==
  [level |-> LevelOf(es, p), types |-> names[p].types,
   dir |-> IF names[p].types = {} THEN names[p].dir ELSE ""]

Group(es, key) == {e \in es : Key(es, e.path) = key}

(* The order of a group's entries. *)
Before(e, f) == e.path < f.path \/ (e.path = f.path /\ e.scope < f.scope)

Earlier(items, f) == {e \in items : Before(e, f)}

Total(items) == MapThenSumSet(Bytes, items)

Fits(items, e) == Total(items) + Bytes(e) <= MaxPacketBytes

(* Mutant of Breaks: each entry is an item of its own. *)
BreaksEntry(before, f) ==
  before # {} /\ (Cardinality(Paths(before)) >= MaxFiles \/ ~Fits(before, f))

(* Mutant of Breaks: one file too many. *)
BreaksLate(before, f) ==
  /\ before # {} /\ f.path \notin Paths(before)
  /\ Cardinality(Paths(before)) > MaxFiles \/ ~Fits(before, f)

(* sliceSize: a task ends before the first entry of a path, but of its own *)
(* first, that is one too many or does not fit.                            *)
Breaks(before, f) ==
  /\ before # {} /\ f.path \notin Paths(before)
  /\ Cardinality(Paths(before)) >= MaxFiles \/ ~Fits(before, f)

Slice(items) ==
  {e \in items : \A f \in items : f = e \/ Before(f, e) => ~Breaks(Earlier(items, f), f)}

(* The groups, one after the other, each cut until nothing is left of it.  *)
Slices(es) ==
  LET keys == SetToSeq({Key(es, p) : p \in Paths(es)})
      cut[left \in SUBSET es] ==
        IF left = {} THEN <<>>
        ELSE LET k == Min({i \in DOMAIN keys : Group(es, keys[i]) \cap left # {}})
                 slice == Slice(Group(es, keys[k]) \cap left)
             IN  <<slice>> \o cut[left \ slice]
  IN  cut[es]

Task == [entries : SUBSET Entry, level : Level, types : SUBSET Type, full : SUBSET Entry,
         confirm : BOOLEAN, oversized : BOOLEAN, passes : 1..2, needs : SUBSET Nat]

(* makeTask; an entry that need not be read in full is verified            *)
(* mechanically.                                                           *)
MakeTask(es, items) ==
  LET level == Max({LevelOf(es, p) : p \in Paths(items)})
      opaque == {e \in items : e.current \in Opaque}
  IN  [entries |-> items,
       level |-> level,
       types |-> UNION {names[p].types : p \in Paths(items)},
       full |-> opaque \cup {e \in items : LevelOf(es, e.path) # 0},
       confirm |-> \/ opaque # {} \/ RequiresOwner(level)
                   \/ \E p \in Paths(items) : Unclassified(es, p),
       oversized |-> Total(items) > MaxPacketBytes,
       passes |-> IF RequiresOwner(level) THEN 2 ELSE 1,
       needs |-> {}]

(* linkDependencies: on the earlier tasks that share a contract.           *)
Linked(tasks) ==
  [i \in DOMAIN tasks |->
     [tasks[i] EXCEPT !.needs = {j \in 1..(i - 1) : tasks[j].types \cap tasks[i].types # {}}]]

Build(es) ==
  LET slices == Slices(es)
  IN  Linked([i \in DOMAIN slices |-> MakeTask(es, slices[i])])

-------------------------------------------------------------------------------
(* Mutant of Changed: an old path's first entry stands for it.             *)
ChangedFirst(old, new) ==
  {p \in Paths(old) \cup Paths(new) :
     p \in Paths(old) \cap Paths(new) => FirstOf(old, p) # FirstOf(new, p)}

(* refresh, changedInventoryPaths: a later entry of a path replaces the    *)
(* fingerprint of an earlier one.                                          *)
Changed(old, new) ==
  {p \in Paths(old) \cup Paths(new) :
     p \in Paths(old) \cap Paths(new) => LastOf(old, p) # LastOf(new, p)}

(* Mutant of Neighbors: only what a task depends on.                       *)
NeighborsBelow(tasks, S) == S \cup UNION {tasks[i].needs : i \in S}

Neighbors(tasks, S) ==
  S \cup (UNION {tasks[i].needs : i \in S}) \cup {j \in DOMAIN tasks : tasks[j].needs \cap S # {}}

(* ComputeInvalidation: the tasks with a changed path, their neighbours    *)
(* until there are no more, and once the tasks that share a contract.      *)
MustReload(tasks, changed, semantic) ==
  LET spread[S \in SUBSET DOMAIN tasks] ==
        IF Neighbors(tasks, S) = S THEN S ELSE spread[Neighbors(tasks, S)]
      reached == spread[{i \in DOMAIN tasks : Paths(tasks[i].entries) \cap changed # {}}]
      types == UNION {tasks[i].types : i \in reached}
  IN  IF semantic THEN DOMAIN tasks
      ELSE reached \cup {i \in DOMAIN tasks : tasks[i].types \cap types # {}}
-------------------------------------------------------------------------------
Seal == [tree |-> tree, policy |-> policy]

None == [none |-> TRUE]

(* Whatever contracts.Build makes of the paths' names. *)
Init ==
  /\ names \in Names
  /\ policy \in Policies
  /\ tree \in Trees
  /\ seal = None
  /\ plan = <<>>
  /\ prior = None
  /\ edits = 0

(* prepare *)
Prepare ==
  /\ seal = None
  /\ seal' = Seal
  /\ UNCHANGED <<names, policy, tree, plan, prior, edits>>

(* plan: the snapshot is fresh, the run has none. *)
PlanRun ==
  /\ seal = Seal /\ plan = <<>>
  /\ plan' = Build(Entries(tree))
  /\ UNCHANGED <<names, policy, tree, seal, prior, edits>>

(* refresh, for a run that has come to an authorized fix: the new run and  *)
(* what it takes over from the old one.                                    *)
Refresh ==
  /\ plan # <<>> /\ seal # Seal
  /\ LET changed == Changed(Entries(seal.tree), Entries(tree))
     IN  prior' = [seal |-> seal, plan |-> plan, changed |-> changed,
                   reload |-> MustReload(plan, changed, policy # seal.policy)]
  /\ seal' = Seal
  /\ plan' = <<>>
  /\ UNCHANGED <<names, policy, tree, edits>>

(* The environment: files are written, added and committed, a commit is    *)
(* taken back to the merge base with the index kept, the policy is edited. *)
Edit(change) ==
  /\ edits < MaxEdits /\ edits' = edits + 1
  /\ change
  /\ UNCHANGED <<names, seal, plan, prior>>

Write(p, c) == tree' = [tree EXCEPT ![p]["work"] = c] /\ policy' = policy

Add(p) == tree' = [tree EXCEPT ![p]["index"] = tree[p]["work"]] /\ policy' = policy

Commit ==
  /\ tree' = [p \in Path |-> [tree[p] EXCEPT !["head"] = tree[p]["index"]]]
  /\ policy' = policy

Uncommit ==
  /\ tree' = [p \in Path |-> [tree[p] EXCEPT !["head"] = tree[p]["base"]]]
  /\ policy' = policy

(* What LoadOverrides will find in the policy files. *)
SetPolicy(new) == policy' = new /\ tree' = tree

Next ==
  \/ Prepare \/ PlanRun \/ Refresh
  \/ \E p \in Path, c \in Content \cup {Absent} : Edit(Write(p, c))
  \/ \E p \in Path : Edit(Add(p))
  \/ Edit(Commit) \/ Edit(Uncommit)
  \/ \E new \in Policies : Edit(SetPolicy(new))

Spec == Init /\ [][Next]_vars

-------------------------------------------------------------------------------
(* The types of the variables. *)
TypeOK ==
  /\ names \in Names /\ policy \in Policies /\ tree \in Tree
  /\ seal # None => seal.tree \in Tree /\ seal.policy \in Policies
  /\ \A i \in DOMAIN plan : plan[i] \in Task
  /\ prior # None =>
       /\ prior.changed \subseteq Path
       /\ prior.reload \subseteq DOMAIN prior.plan
  /\ edits \in 0..MaxEdits

(* planner.Build ("each path belongs to exactly one task"): the tasks hold *)
(* every entry of the snapshot once, and all entries of a path together.   *)
PlanCoversChange ==
  plan # <<>> =>
    /\ UNION {plan[i].entries : i \in DOMAIN plan} = Entries(seal.tree)
    /\ \A i \in DOMAIN plan : plan[i].entries # {}
    /\ \A i, j \in DOMAIN plan :
         i # j => Paths(plan[i].entries) \cap Paths(plan[j].entries) = {}

(* sliceSize: a task has at most MaxFiles paths, and exceeds the bytes     *)
(* only by its first path or by what a path has after its first entry.  It *)
(* is marked oversized then.                                               *)
WithinLimits ==
  \A i \in DOMAIN plan :
    LET items == plan[i].entries
    IN  /\ Cardinality(Paths(items)) <= MaxFiles
        /\ \A p \in Paths(items) :
             LET before == {e \in items : e.path < p}
             IN  before # {} => Fits(before, FirstOf(items, p))
        /\ Total(items) > MaxPacketBytes => plan[i].oversized

(* refresh and ComputeInvalidation: the tasks to do again are those that a *)
(* chain of shared contracts connects with a changed path, although shared *)
(* contracts are looked at only once; all, if the policy has changed.      *)
ReloadIsClosed ==
  prior # None =>
    LET tasks == prior.plan
        closed == {S \in SUBSET DOMAIN tasks :
                     \A i \in DOMAIN tasks :
                       \/ i \in S
                       \/ /\ Paths(tasks[i].entries) \cap prior.changed = {}
                          /\ \A j \in S : tasks[i].types \cap tasks[j].types = {}}
    IN  prior.reload = IF seal.policy # prior.seal.policy THEN DOMAIN tasks
                       ELSE {i \in DOMAIN tasks : \A S \in closed : i \in S}

(* refresh, changedInventoryPaths: a task that need not be done again is   *)
(* about the same files as before in the index and in the worktree,        *)
(* although of several entries of a path only the last is compared.        *)
KeptIsUnchanged ==
  prior # None =>
    \A i \in (DOMAIN prior.plan) \ prior.reload :
      \A e \in prior.plan[i].entries, slot \in {"index", "work"} :
        seal.tree[e.path][slot] = prior.seal.tree[e.path][slot]
===============================================================================
