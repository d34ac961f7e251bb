----------------------------- MODULE ReviewResults -----------------------------
(***************************************************************************)
(* Review results as values (internal/results): which a task accepts, how  *)
(* the index of recorded results grows, when a review is complete, and     *)
(* what the comparison of a task's results says.                           *)
(*                                                                         *)
(* A result is bound to its task by digests of the task's input and of the *)
(* prompt; here it names the task.  A finding is the print two reviewers   *)
(* agree on and the variant they may disagree on.  A context is provider,  *)
(* model family and isolation.                                             *)
(***************************************************************************)
EXTENDS Integers, Sequences, FiniteSets, Functions

CONSTANTS
  Task,          (* numbers, in the order of their names                    *)
  Paths,         (* a task's paths and the coverage they require            *)
  Perspectives,  (* a task's perspectives                                   *)
  Passes         (* a task's required passes                                *)

Coverage == {"fully_reviewed", "mechanically_verified", "invariant_checked"}

(* Other statuses, like sampled, satisfy nothing. *)
Status == Coverage \cup {"other"}

ASSUME ResultConstants ==
  /\ Task \subseteq Nat
  /\ \A t \in Task : Paths[t] \in [DOMAIN Paths[t] -> Coverage]
  /\ Passes \in [Task -> Nat]

(* Mutant of Satisfies: a mechanical check is as good as an invariant.     *)
SatisfiesLoosely(required, actual) ==
  actual \in {required, "fully_reviewed", "mechanically_verified"}

(* coverageSatisfies *)
Satisfies(required, actual) ==
  CASE required = "mechanically_verified" -> actual \in Coverage
    [] required = "invariant_checked" ->
         actual \in {"invariant_checked", "fully_reviewed"}
    [] OTHER -> actual = required

Covers(result, t) ==
  /\ DOMAIN result.coverage = DOMAIN Paths[t]
  /\ \A path \in DOMAIN Paths[t] : Satisfies(Paths[t][path], result.coverage[path])

(* Validate: accepted, and of an accepted one whether it is completed.     *)
Accepted(result, t) ==
  /\ result.task = t
  /\ result.perspective \in Perspectives[t]
  /\ DOMAIN result.coverage \subseteq DOMAIN Paths[t]
  /\ result.completed => Covers(result, t)

-------------------------------------------------------------------------------
(* The index is sorted by task and pass. *)
Before(r, s) == r.task < s.task \/ (r.task = s.task /\ r.pass < s.pass)

Recorded(index, result) ==
  \E i \in DOMAIN index : index[i].task = result.task /\ index[i].pass = result.pass

(* results.Append of a result that is not recorded: append and sort.       *)
AppendResult(index, result) ==
  LET earlier == Cardinality({i \in DOMAIN index : Before(index[i], result)})
  IN  SubSeq(index, 1, earlier) \o <<result>> \o SubSeq(index, earlier + 1, Len(index))

(* Does decoding n elements leave room for another?  Slices double.        *)
HasSpare(n) == n > 0 /\ \A k \in 0..n : n # 2^k

(* The caller of Append still has the slice it passed.  With room to spare *)
(* Append has grown and sorted the same array under it.                    *)
LeftWith(index, result) ==
  IF HasSpare(Len(index))
    THEN SubSeq(AppendResult(index, result), 1, Len(index))
    ELSE index

ReviewComplete(index) ==
  /\ Task # {}
  /\ \A t \in Task :
       LET done == {index[i] : i \in {j \in DOMAIN index :
                                        index[j].task = t /\ index[j].completed}}
       IN  /\ Cardinality({r.perspective : r \in done}) >= Passes[t]
           /\ Cardinality({r.context : r \in done}) >= Passes[t]
           /\ Perspectives[t] \subseteq {r.perspective : r \in done}

-------------------------------------------------------------------------------
(* The results of a task, at their places in an index. *)
Of(index, task) == Restrict(index, {i \in DOMAIN index : index[i].task = task})

(* Compare, of results in any order; prompts are the same, as Accepted     *)
(* results bind the task's.                                                *)
Prints(result) == {finding.print : finding \in result.findings}

Compare(results) ==
  LET Having(print) == {i \in DOMAIN results : print \in Prints(results[i])}
      all == UNION {Prints(results[i]) : i \in DOMAIN results}
      Variants(print) == {finding.variant : finding \in
        {f \in UNION {results[i].findings : i \in DOMAIN results} : f.print = print}}
  IN  [size |-> Cardinality(DOMAIN results),
       passes |-> {results[i].pass : i \in DOMAIN results},
       independent |->
         /\ Cardinality(DOMAIN results) > 1
         /\ \A i, j \in DOMAIN results : results[i].context = results[j].context => i = j,
       overlap |-> {print \in all : Having(print) = DOMAIN results},
       unique |-> {print \in all : \E i \in DOMAIN results : Having(print) = {i}},
       disagreements |-> {print \in all : Cardinality(Variants(print)) > 1}]

(* buildTaskComparison: the new result, and those of its task in the index *)
(* it is given.                                                            *)
WithNew(results, result) ==
  [i \in {0} \cup DOMAIN results |-> IF i = 0 THEN result ELSE results[i]]

TaskComparison(index, result) == Compare(WithNew(Of(index, result.task), result))
===============================================================================
