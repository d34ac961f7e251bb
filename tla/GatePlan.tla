------------------------------- MODULE GatePlan -------------------------------
(***************************************************************************)
(* Which gates are planned for a change, and in which order                *)
(* (internal/gates BuildPlan), for a declaration internal/config accepts.  *)
(*                                                                         *)
(* A gate's name is its rank among the sorted names.  A declaration says   *)
(* which gates each gate depends on and which of them the changed paths    *)
(* match; resolving executables and hashing them is GateRun's toolchain.   *)
(***************************************************************************)
EXTENDS Integers, Sequences, FiniteSets, SequencesExt

CONSTANT Gate

ASSUME GateConstants == Gate \subseteq Nat /\ IsFiniteSet(Gate)

(* Config.Validate: no gate depends on itself, by any way: every set of    *)
(* gates has one that depends on none of the others.                       *)
Valid(deps) ==
  \A S \in (SUBSET Gate) \ {{}} : \E g \in S : deps[g] \cap S = {}

(* "A selected leaf pulls in all dependencies": the loop that adds the     *)
(* missing ones until none is missing.                                     *)
Selected(deps, matching) ==
  LET pull[S \in SUBSET Gate] ==
        LET T == S \cup UNION {deps[g] : g \in S}
        IN  IF T = S THEN S ELSE pull[T]
  IN  pull[matching]

(* Mutant of Order: by name. *)
OrderByName(deps, matching) ==
  SetToSortSeq(Selected(deps, matching), LAMBDA g, h : g < h)

(* topological: a gate that is not there yet comes after its dependencies, *)
(* which are visited like the gates themselves in the order of names.      *)
Order(deps, matching) ==
  LET visit[todo \in SUBSET Gate] ==
        [order \in Seq(Gate) |->
           IF todo = {} THEN order
           ELSE LET g == Min(todo)
                IN  visit[todo \ {g}][IF g \in ToSet(order)
                                        THEN order
                                        ELSE Append(visit[deps[g]][order], g)]]
  IN  visit[Selected(deps, matching)][<<>>]

-------------------------------------------------------------------------------
(* What the declaration asks for: the least set with the matching gates in *)
(* it that holds with a gate its dependencies.                             *)
Wanted(deps, matching) ==
  LET closed == {S \in SUBSET Gate :
                   matching \subseteq S /\ \A g \in S : deps[g] \subseteq S}
  IN  {g \in Gate : \A S \in closed : g \in S}

(* Each gate once, after its dependencies. *)
AfterDependencies(order, deps) ==
  /\ Len(order) = Cardinality(ToSet(order))
  /\ \A i \in DOMAIN order : deps[order[i]] \subseteq {order[j] : j \in 1..(i - 1)}

Ordered(order, deps, matching) ==
  ToSet(order) = Wanted(deps, matching) /\ AfterDependencies(order, deps)
===============================================================================
