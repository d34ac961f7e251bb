----------------------------- MODULE GateRunProofs -----------------------------
(***************************************************************************)
(* What holds of gates plan, gates run and verify for any number of        *)
(* processes, gates, declarations and toolchains.                          *)
(*                                                                         *)
(* First, what BuildPlan computes: the loop of Selected ends with what is  *)
(* wanted, and the visits of Order put each gate behind its dependencies,  *)
(* which they reach first because a valid declaration has no cycle.        *)
(*                                                                         *)
(* Then the commands: one reports of exactly the gates behind it, and      *)
(* goes on to the next only if it passed or need not, so that any evidence *)
(* on disk, whoever wrote it last, is of a whole plan in which the         *)
(* blocking gates passed.                                                  *)
(***************************************************************************)
EXTENDS GateRun, Recursion, FiniteSetTheorems

-------------------------------------------------------------------------------
(* BuildPlan.                                                              *)

Dependencies == [Gate -> SUBSET Gate]

(* Wanted is the least closed set. *)
LEMMA WantedIsLeast ==
  ASSUME NEW deps \in Dependencies, NEW T \in SUBSET Gate
  PROVE  /\ Wanted(deps, T) \in SUBSET Gate
         /\ T \subseteq Wanted(deps, T)
         /\ \A g \in Wanted(deps, T) : deps[g] \subseteq Wanted(deps, T)
         /\ \A S \in SUBSET Gate :
              T \subseteq S /\ (\A g \in S : deps[g] \subseteq S) => Wanted(deps, T) \subseteq S
<1>1. Wanted(deps, T) \in SUBSET Gate /\ T \subseteq Wanted(deps, T)
  BY DEF Wanted
<1>2. ASSUME NEW g \in Wanted(deps, T) PROVE deps[g] \subseteq Wanted(deps, T)
  <2> SUFFICES ASSUME NEW h \in deps[g] PROVE h \in Wanted(deps, T)
    OBVIOUS
  <2>1. g \in Gate /\ h \in Gate
    BY <1>1 DEF Dependencies
  <2> QED BY <2>1 DEF Wanted
<1>3. ASSUME NEW S \in SUBSET Gate, T \subseteq S, \A g \in S : deps[g] \subseteq S
      PROVE  Wanted(deps, T) \subseteq S
  BY <1>3 DEF Wanted
<1> QED BY <1>1, <1>2, <1>3

(* What is closed wants only itself. *)
LEMMA ClosedIsWanted ==
  ASSUME NEW deps \in Dependencies, NEW T \in SUBSET Gate, \A g \in T : deps[g] \subseteq T
  PROVE  Wanted(deps, T) = T
<1>1. T \subseteq Wanted(deps, T)
  BY WantedIsLeast
<1>2. Wanted(deps, T) \subseteq T
  BY WantedIsLeast
<1> QED BY <1>1, <1>2

(* To want some gates is to want one of them, its dependencies, the others. *)
Splits(deps, T, g) ==
  Wanted(deps, T) = {g} \cup Wanted(deps, deps[g]) \cup Wanted(deps, T \ {g})

LEMMA WantedSplits ==
  ASSUME NEW deps \in Dependencies, NEW T \in SUBSET Gate, NEW g \in T
  PROVE  Splits(deps, T, g)
<1>1. deps[g] \in SUBSET Gate /\ T \ {g} \in SUBSET Gate
  BY DEF Dependencies
<1> DEFINE A == Wanted(deps, T)  B == Wanted(deps, deps[g])  C == Wanted(deps, T \ {g})
<1>2. /\ A \in SUBSET Gate /\ T \subseteq A /\ \A h \in A : deps[h] \subseteq A
      /\ \A S \in SUBSET Gate :
           T \subseteq S /\ (\A h \in S : deps[h] \subseteq S) => A \subseteq S
  BY WantedIsLeast
<1>3. /\ B \in SUBSET Gate /\ deps[g] \subseteq B /\ \A h \in B : deps[h] \subseteq B
      /\ \A S \in SUBSET Gate :
           deps[g] \subseteq S /\ (\A h \in S : deps[h] \subseteq S) => B \subseteq S
  BY <1>1, WantedIsLeast
<1>4. /\ C \in SUBSET Gate /\ T \ {g} \subseteq C /\ \A h \in C : deps[h] \subseteq C
      /\ \A S \in SUBSET Gate :
           T \ {g} \subseteq S /\ (\A h \in S : deps[h] \subseteq S) => C \subseteq S
  BY <1>1, WantedIsLeast
<1> HIDE DEF A, B, C
<1>5. B \subseteq A /\ C \subseteq A
  BY <1>2, <1>3, <1>4
<1>6. {g} \cup B \cup C \in SUBSET Gate
  BY <1>3, <1>4
<1>7. A \subseteq {g} \cup B \cup C
  BY <1>2, <1>3, <1>4, <1>6
<1>8. A = {g} \cup B \cup C
  BY <1>2, <1>5, <1>7
<1> QED BY <1>8 DEF A, B, C, Splits

(* What Validate accepts has no cycles. *)
LEMMA NoCycle ==
  ASSUME NEW deps \in Dependencies, Valid(deps), NEW g \in Gate
  PROVE  g \notin Wanted(deps, deps[g])
<1> DEFINE S == {h \in Gate : g \in Wanted(deps, deps[h])}
<1>1. SUFFICES ASSUME g \in S PROVE FALSE
  OBVIOUS
<1>2. PICK h \in S : deps[h] \cap S = {}
  BY <1>1 DEF Valid
<1>3. h \in Gate /\ deps[h] \in SUBSET Gate /\ g \in Wanted(deps, deps[h])
  BY DEF Dependencies
<1> DEFINE C == deps[h] \cup UNION {Wanted(deps, deps[d]) : d \in deps[h]}
<1>4. ASSUME NEW d \in deps[h]
      PROVE  /\ d \in Gate /\ deps[d] \in SUBSET Gate
             /\ Wanted(deps, deps[d]) \in SUBSET Gate
             /\ deps[d] \subseteq Wanted(deps, deps[d])
             /\ \A k \in Wanted(deps, deps[d]) : deps[k] \subseteq Wanted(deps, deps[d])
             /\ g \notin Wanted(deps, deps[d])
  <2>1. d \in Gate /\ deps[d] \in SUBSET Gate /\ d \notin S
    BY <1>2, <1>3 DEF Dependencies
  <2> QED BY <2>1, WantedIsLeast
<1>5. C \in SUBSET Gate /\ deps[h] \subseteq C
  BY <1>3, <1>4
<1>6. ASSUME NEW k \in C PROVE deps[k] \subseteq C
  BY <1>4
<1>7. Wanted(deps, deps[h]) \subseteq C
  <2> HIDE DEF C
  <2> QED BY <1>3, <1>5, <1>6, WantedIsLeast
<1>8. g \in deps[h]
  BY <1>3, <1>4, <1>7
<1> QED BY <1>1, <1>2, <1>8

(* Selected: the loop ends with all that is wanted. *)
LEMMA SelectedIsWanted ==
  ASSUME GateConstants, NEW deps \in Dependencies, NEW matching \in SUBSET Gate
  PROVE  Selected(deps, matching) = Wanted(deps, matching)
<1> DEFINE More(S) == S \cup UNION {deps[g] : g \in S}
           step == [S \in SUBSET Gate |-> More(S)]
           pull == CHOOSE f : f = [S \in SUBSET Gate |-> IF More(S) = S THEN S ELSE f[More(S)]]
           W == Wanted(deps, matching)
<1>1. /\ IsFiniteSet(Gate) /\ step \in [SUBSET Gate -> SUBSET Gate] /\ Grows(step, Gate)
      /\ \A S \in SUBSET Gate : step[S] = More(S)
  <2>1. \A S \in SUBSET Gate : More(S) \in SUBSET Gate /\ S \subseteq More(S)
    BY DEF Dependencies
  <2> QED BY <2>1 DEF Grows, GateConstants
<1> HIDE DEF step
<1>2. PICK f : IsLoop(f, Gate, step)
  <2>1. HasLoop(Gate, step)
    BY <1>1, LoopExists
  <2> QED BY <2>1 DEF HasLoop
<1>3. f = [S \in SUBSET Gate |-> IF More(S) = S THEN S ELSE f[More(S)]]
  <2> HIDE DEF More
  <2> QED BY <1>1, <1>2 DEF IsLoop
<1>4. pull = [S \in SUBSET Gate |-> IF More(S) = S THEN S ELSE pull[More(S)]]
  BY <1>3
<1>5. IsLoop(pull, Gate, step)
  <2> HIDE DEF More, pull
  <2> QED BY <1>1, <1>4 DEF IsLoop
<1> HIDE DEF pull
<1>6. PICK R \in SUBSET Gate : R = pull[matching] /\ Ends(step, Gate, matching, R)
  <2>1. Ends(step, Gate, matching, pull[matching])
    BY <1>1, <1>5, LoopEnds
  <2> QED BY <2>1 DEF Ends
<1>7. /\ W \in SUBSET Gate /\ matching \subseteq W /\ \A g \in W : deps[g] \subseteq W
      /\ \A S \in SUBSET Gate :
           matching \subseteq S /\ (\A g \in S : deps[g] \subseteq S) => W \subseteq S
  BY WantedIsLeast
<1> HIDE DEF W
<1>8. W \subseteq R
  <2>1. More(R) = R /\ matching \subseteq R
    BY <1>1, <1>6 DEF Ends
  <2> QED BY <1>7, <2>1
<1>9. R \subseteq W
  <2>1. ASSUME NEW S \in SUBSET W PROVE step[S] \subseteq W
    <3>1. step[S] = More(S)
      BY <1>1, <1>7
    <3>2. \A x \in More(S) : x \in S \/ \E g \in S : x \in deps[g]
      OBVIOUS
    <3> HIDE DEF More
    <3> QED BY <1>7, <3>1, <3>2
  <2> QED BY <1>6, <1>7, <2>1 DEF Ends
<1> QED BY <1>6, <1>8, <1>9 DEF Selected, pull, More, W

(* A visit of some gates visits fewer wanted ones, or of as many fewer.    *)
Descends(m, deps) ==
  \A T \in SUBSET Gate : \A g \in T : m[T \ {g}] < m[T] /\ m[deps[g]] < m[T]

LEMMA Lexicographic ==
  ASSUME NEW a \in Nat, NEW b \in Nat, NEW c \in Nat, NEW d \in Nat, NEW n \in Nat
  PROVE  /\ a <= b /\ c < d => a * n + c < b * n + d
         /\ a < b /\ c < n => a * n + c < b * n + d
<1>1. a <= b => a * n <= b * n
  <2> SUFFICES ASSUME a <= b PROVE a * n <= b * n
    OBVIOUS
  <2>1. PICK k \in Nat : b = a + k
    <3>1. b - a \in Nat /\ b = a + (b - a)
      OBVIOUS
    <3> QED BY <3>1
  <2>2. b * n = a * n + k * n /\ k * n \in Nat /\ a * n \in Nat
    BY <2>1
  <2> QED BY <2>2
<1>2. a < b => (a + 1) * n <= b * n
  <2> SUFFICES ASSUME a < b PROVE (a + 1) * n <= b * n
    OBVIOUS
  <2>1. PICK k \in Nat : b = (a + 1) + k
    <3>1. b - (a + 1) \in Nat /\ b = (a + 1) + (b - (a + 1))
      OBVIOUS
    <3> QED BY <3>1
  <2>2. b * n = (a + 1) * n + k * n /\ k * n \in Nat /\ (a + 1) * n \in Nat
    BY <2>1
  <2> QED BY <2>2
<1>3. (a + 1) * n = a * n + n /\ a * n \in Nat /\ b * n \in Nat
  OBVIOUS
<1> QED BY <1>1, <1>2, <1>3

LEMMA VisitsDescend ==
  ASSUME GateConstants, NEW deps \in Dependencies, Valid(deps)
  PROVE  \E m \in [SUBSET Gate -> Nat] : Descends(m, deps)
<1> DEFINE N == Cardinality(Gate) + 1
           W(T) == Cardinality(Wanted(deps, T))
           m == [T \in SUBSET Gate |-> W(T) * N + Cardinality(T)]
<1>1. ASSUME NEW T \in SUBSET Gate
      PROVE  /\ IsFiniteSet(T) /\ Cardinality(T) \in Nat /\ Cardinality(T) < N
             /\ Wanted(deps, T) \in SUBSET Gate /\ IsFiniteSet(Wanted(deps, T))
             /\ W(T) \in Nat
  <2>1. Wanted(deps, T) \in SUBSET Gate
    BY WantedIsLeast
  <2>2. IsFiniteSet(T) /\ Cardinality(T) <= Cardinality(Gate)
    BY FS_Subset DEF GateConstants
  <2>3. IsFiniteSet(Wanted(deps, T))
    BY <2>1, FS_Subset DEF GateConstants
  <2>4. Cardinality(T) \in Nat /\ Cardinality(Gate) \in Nat /\ W(T) \in Nat
    BY <2>2, <2>3, FS_CardinalityType DEF GateConstants
  <2> QED BY <2>1, <2>2, <2>3, <2>4
<1>2. N \in Nat
  BY FS_CardinalityType DEF GateConstants
<1>3. ASSUME NEW T \in SUBSET Gate, NEW g \in T
      PROVE  m[T \ {g}] < m[T] /\ m[deps[g]] < m[T]
  <2>1. T \ {g} \in SUBSET Gate /\ deps[g] \in SUBSET Gate /\ g \in Gate
    BY DEF Dependencies
  <2>2. Wanted(deps, T) = {g} \cup Wanted(deps, deps[g]) \cup Wanted(deps, T \ {g})
    <3>1. Splits(deps, T, g)
      BY WantedSplits
    <3> QED BY <3>1 DEF Splits
  <2>3. g \notin Wanted(deps, deps[g])
    BY NoCycle, <2>1
  <2>4. W(T \ {g}) <= W(T)
    BY <1>1, <2>2, FS_Subset
  <2>5. W(deps[g]) < W(T)
    <3>1. W(deps[g]) <= W(T) /\ W(deps[g]) # W(T)
      BY <1>1, <2>2, <2>3, FS_Subset
    <3> QED BY <1>1, <2>1, <3>1
  <2>6. Cardinality(T \ {g}) = Cardinality(T) - 1
    BY <1>1, FS_RemoveElement
  <2>7. Cardinality(T \ {g}) < Cardinality(T)
    BY <1>1, <2>6
  <2> HIDE DEF N, W
  <2>8. W(T \ {g}) * N + Cardinality(T \ {g}) < W(T) * N + Cardinality(T)
    BY <1>1, <1>2, <2>1, <2>4, <2>7, Lexicographic
  <2>9. W(deps[g]) * N + Cardinality(deps[g]) < W(T) * N + Cardinality(T)
    BY <1>1, <1>2, <2>1, <2>5, Lexicographic
  <2> QED BY <2>1, <2>8, <2>9
<1>4. m \in [SUBSET Gate -> Nat]
  <2> SUFFICES ASSUME NEW T \in SUBSET Gate PROVE W(T) * N + Cardinality(T) \in Nat
    OBVIOUS
  <2> HIDE DEF N, W
  <2> QED BY <1>1, <1>2
<1> HIDE DEF m
<1> QED BY <1>3, <1>4 DEF Descends

(* One more gate, after its dependencies. *)
LEMMA AppendKeepsOrder ==
  ASSUME NEW deps \in Dependencies, NEW order \in Seq(Gate), NEW g \in Gate,
         GateConstants, AfterDependencies(order, deps),
         deps[g] \subseteq ToSet(order), g \notin ToSet(order)
  PROVE  /\ Append(order, g) \in Seq(Gate)
         /\ ToSet(Append(order, g)) = ToSet(order) \cup {g}
         /\ AfterDependencies(Append(order, g), deps)
<1> DEFINE after == Append(order, g)
<1>1. /\ after \in Seq(Gate) /\ Len(after) = Len(order) + 1 /\ Len(order) \in Nat
      /\ \A i \in 1..Len(order) : after[i] = order[i]
      /\ after[Len(order) + 1] = g
      /\ DOMAIN order = 1..Len(order) /\ DOMAIN after = 1..(Len(order) + 1)
  OBVIOUS
<1> HIDE DEF after
<1>2. ToSet(after) = ToSet(order) \cup {g}
  BY <1>1 DEF ToSet
<1>3. Len(after) = Cardinality(ToSet(after))
  <2>1. ToSet(order) \in SUBSET Gate
    BY <1>1 DEF ToSet
  <2>2. IsFiniteSet(ToSet(order))
    BY <2>1, FS_Subset DEF GateConstants
  <2>3. Cardinality(ToSet(order) \cup {g}) = Cardinality(ToSet(order)) + 1
    BY <2>2, FS_AddElement
  <2> QED BY <1>1, <1>2, <2>3 DEF AfterDependencies
<1>4. ASSUME NEW i \in DOMAIN after
      PROVE  deps[after[i]] \subseteq {after[j] : j \in 1..(i - 1)}
  <2> SUFFICES ASSUME NEW d \in deps[after[i]] PROVE \E j \in 1..(i - 1) : d = after[j]
    OBVIOUS
  <2>1. CASE i \in 1..Len(order)
    <3>1. deps[order[i]] \subseteq {order[j] : j \in 1..(i - 1)}
      BY <1>1, <2>1 DEF AfterDependencies
    <3>2. PICK j \in 1..(i - 1) : d = order[j]
      BY <1>1, <2>1, <3>1
    <3> QED BY <1>1, <2>1, <3>2
  <2>2. CASE i = Len(order) + 1
    <3>1. PICK j \in 1..Len(order) : d = order[j]
      BY <1>1, <2>2 DEF ToSet
    <3> QED BY <1>1, <2>2, <3>1
  <2> QED BY <1>1, <2>1, <2>2
<1> QED BY <1>1, <1>2, <1>3, <1>4 DEF after, AfterDependencies

(* A sequence in order has with a gate all it wants. *)
LEMMA OrderIsClosed ==
  ASSUME NEW deps \in Dependencies, NEW order \in Seq(Gate), AfterDependencies(order, deps),
         NEW g \in ToSet(order)
  PROVE  Wanted(deps, deps[g]) \subseteq ToSet(order)
<1>1. ToSet(order) \in SUBSET Gate /\ DOMAIN order = 1..Len(order) /\ Len(order) \in Nat
  BY DEF ToSet
<1>2. ASSUME NEW h \in ToSet(order) PROVE deps[h] \subseteq ToSet(order)
  <2>1. PICK i \in DOMAIN order : h = order[i]
    BY DEF ToSet
  <2>2. deps[h] \subseteq {order[j] : j \in 1..(i - 1)}
    BY <2>1 DEF AfterDependencies
  <2>3. \A j \in 1..(i - 1) : order[j] \in ToSet(order)
    BY <1>1 DEF ToSet
  <2> QED BY <2>2, <2>3
<1>3. deps[g] \in SUBSET Gate
  BY <1>1 DEF Dependencies
<1> QED BY <1>1, <1>2, <1>3, WantedIsLeast

(* What a visit of the gates T makes of a sequence in order. *)
Visited(deps, T, order, result) ==
  /\ result \in Seq(Gate)
  /\ ToSet(result) = ToSet(order) \cup Wanted(deps, T)
  /\ AfterDependencies(result, deps)

LEMMA OrderIsOrdered ==
  ASSUME GateConstants, NEW deps \in Dependencies, Valid(deps), NEW matching \in SUBSET Gate
  PROVE  /\ Order(deps, matching) \in Seq(Gate)
         /\ Ordered(Order(deps, matching), deps, matching)
<1> DEFINE V == [Seq(Gate) -> Seq(Gate)]
           Next1(f, T, order) ==
             IF Min(T) \in ToSet(order) THEN order
             ELSE Append(f[deps[Min(T)]][order], Min(T))
           Visit(f, T) == [order \in Seq(Gate) |->
             IF T = {} THEN order ELSE f[T \ {Min(T)}][Next1(f, T, order)]]
           D == [f \in [SUBSET Gate -> V] |-> [T \in SUBSET Gate |-> Visit(f, T)]]
           visit == CHOOSE f : f = [T \in SUBSET Gate |-> Visit(f, T)]
<1>1. ASSUME NEW T \in SUBSET Gate, T # {} PROVE Min(T) \in T
  <2>1. T \in SUBSET Nat
    BY DEF GateConstants
  <2>2. \E g \in T : \A h \in T : g <= h
    BY <1>1, <2>1, LeastOfSome
  <2> QED BY <2>2 DEF Min
<1>2. PICK m \in [SUBSET Gate -> Nat] : Descends(m, deps)
  BY VisitsDescend
<1>3. ASSUME NEW f \in [SUBSET Gate -> V], NEW T \in SUBSET Gate PROVE Visit(f, T) \in V
  <2> SUFFICES ASSUME NEW order \in Seq(Gate), T # {}
               PROVE  f[T \ {Min(T)}][Next1(f, T, order)] \in Seq(Gate)
    OBVIOUS
  <2>1. Min(T) \in Gate /\ T \ {Min(T)} \in SUBSET Gate
    BY <1>1
  <2>2. deps[Min(T)] \in SUBSET Gate
    BY <2>1 DEF Dependencies
  <2>3. f[T \ {Min(T)}] \in V /\ f[deps[Min(T)]] \in V
    BY <2>1, <2>2
  <2>4. Append(f[deps[Min(T)]][order], Min(T)) \in Seq(Gate)
    BY <2>1, <2>3
  <2>5. Next1(f, T, order) \in Seq(Gate)
    BY <2>4
  <2> QED BY <2>3, <2>5
<1>4. D \in [[SUBSET Gate -> V] -> [SUBSET Gate -> V]]
  <2> HIDE DEF Visit, V
  <2> QED BY <1>3
<1>5. DependsOnSmaller(SUBSET Gate, V, m, D)
  <2> SUFFICES ASSUME NEW T \in SUBSET Gate,
                      NEW f \in [SUBSET Gate -> V], NEW h \in [SUBSET Gate -> V],
                      \A R \in SUBSET Gate : m[R] < m[T] => f[R] = h[R]
               PROVE  Visit(f, T) = Visit(h, T)
    <3> HIDE DEF Visit, V
    <3> QED BY DEF DependsOnSmaller
  <2>1. CASE T = {}
    BY <2>1
  <2>2. CASE T # {}
    <3>1. Min(T) \in T
      BY <1>1, <2>2
    <3>2. deps[Min(T)] \in SUBSET Gate /\ T \ {Min(T)} \in SUBSET Gate
      BY <3>1 DEF Dependencies
    <3>3. m[T \ {Min(T)}] < m[T] /\ m[deps[Min(T)]] < m[T]
      BY <1>2, <3>1 DEF Descends
    <3>4. f[T \ {Min(T)}] = h[T \ {Min(T)}] /\ f[deps[Min(T)]] = h[deps[Min(T)]]
      BY <3>2, <3>3
    <3> QED BY <2>2, <3>4
  <2> QED BY <2>1, <2>2
<1>6. visit = [T \in SUBSET Gate |-> Visit(visit, T)]
  <2>1. V # {}
    <3>1. [order \in Seq(Gate) |-> order] \in V
      OBVIOUS
    <3> QED BY <3>1
  <2>2. HasSolution(SUBSET Gate, V, D)
    <3> HIDE DEF V, D
    <3> QED BY <1>4, <1>5, <2>1, SolutionExists
  <2> HIDE DEF Visit, V
  <2>3. PICK f \in [SUBSET Gate -> V] : f = [T \in SUBSET Gate |-> Visit(f, T)]
    BY <2>2 DEF HasSolution
  <2> QED BY <2>3
<1> HIDE DEF visit, D, V
<1> DEFINE Wrong == {T \in SUBSET Gate :
             ~ \A order \in Seq(Gate) :
                 AfterDependencies(order, deps) => Visited(deps, T, order, visit[T][order])}
<1>7. Wrong = {}
  <2> SUFFICES ASSUME Wrong # {} PROVE FALSE
    OBVIOUS
  <2>1. PICK T \in Wrong : \A R \in Wrong : m[T] <= m[R]
    <3>1. Wrong \in SUBSET SUBSET Gate
      OBVIOUS
    <3> HIDE DEF Wrong
    <3> QED BY <3>1, LeastMeasure
  <2>2. PICK order \in Seq(Gate) :
          AfterDependencies(order, deps) /\ ~ Visited(deps, T, order, visit[T][order])
    OBVIOUS
  <2>3. visit[T][order] = IF T = {} THEN order
                          ELSE visit[T \ {Min(T)}][Next1(visit, T, order)]
    <3>1. visit[T] = Visit(visit, T)
      BY <1>6
    <3> QED BY <3>1
  <2>4. CASE T = {}
    <3>1. Wanted(deps, T) = {}
      BY <2>4, ClosedIsWanted
    <3> QED BY <2>2, <2>3, <2>4, <3>1 DEF Visited
  <2>5. CASE T # {}
    <3> DEFINE g == Min(T)  next == Next1(visit, T, order)
    <3>1. g \in T /\ g \in Gate /\ T \ {g} \in SUBSET Gate /\ deps[g] \in SUBSET Gate
      BY <1>1, <2>5 DEF Dependencies
    <3> HIDE DEF g
    <3>2. ASSUME NEW R \in {T \ {g}, deps[g]}, NEW o \in Seq(Gate), AfterDependencies(o, deps)
          PROVE  Visited(deps, R, o, visit[R][o])
      <4>1. m[R] < m[T] /\ R \in SUBSET Gate
        BY <1>2, <3>1 DEF Descends
      <4>2. R \notin Wrong
        <5>1. m[R] \in Nat /\ m[T] \in Nat /\ ~(m[T] <= m[R])
          BY <4>1
        <5> HIDE DEF Wrong
        <5> QED BY <2>1, <5>1
      <4> QED BY <3>2, <4>1, <4>2
    <3>3. Splits(deps, T, g)
      BY <3>1, WantedSplits
    <3>4. /\ next \in Seq(Gate) /\ AfterDependencies(next, deps)
          /\ ToSet(next) = ToSet(order) \cup {g} \cup Wanted(deps, deps[g])
      <4>1. CASE g \in ToSet(order)
        <5>1. next = order
          BY <4>1 DEF g
        <5>2. Wanted(deps, deps[g]) \subseteq ToSet(order)
          BY <2>2, <4>1, OrderIsClosed
        <5> QED BY <2>2, <4>1, <5>1, <5>2
      <4>2. CASE g \notin ToSet(order)
        <5> DEFINE below == visit[deps[g]][order]
        <5>1. next = Append(below, g)
          BY <4>2 DEF g
        <5>2. Visited(deps, deps[g], order, below)
          BY <2>2, <3>2
        <5> HIDE DEF below, next
        <5>3. /\ below \in Seq(Gate) /\ AfterDependencies(below, deps)
              /\ ToSet(below) = ToSet(order) \cup Wanted(deps, deps[g])
          BY <5>2 DEF Visited
        <5>4. g \notin ToSet(below) /\ deps[g] \subseteq ToSet(below)
          BY <3>1, <4>2, <5>3, NoCycle, WantedIsLeast
        <5>5. /\ Append(below, g) \in Seq(Gate) /\ AfterDependencies(Append(below, g), deps)
              /\ ToSet(Append(below, g)) = ToSet(below) \cup {g}
          BY <3>1, <5>3, <5>4, AppendKeepsOrder
        <5> QED BY <5>1, <5>3, <5>5
      <4> QED BY <4>1, <4>2
    <3> HIDE DEF next
    <3>5. Visited(deps, T \ {g}, next, visit[T \ {g}][next])
      BY <3>2, <3>4
    <3>6. visit[T][order] = visit[T \ {g}][next]
      BY <2>3, <2>5 DEF g, next
    <3>7. Visited(deps, T, order, visit[T][order])
      BY <3>3, <3>4, <3>5, <3>6 DEF Visited, Splits
    <3> QED BY <2>2, <3>7
  <2> QED BY <2>4, <2>5
<1> DEFINE W == Wanted(deps, matching)
<1>8. Order(deps, matching) = visit[W][<<>>]
  <2>1. Selected(deps, matching) = W
    BY SelectedIsWanted
  <2> QED BY <2>1 DEF Order, visit
<1>9. W \in SUBSET Gate /\ Wanted(deps, W) = W
  <2>1. /\ W \in SUBSET Gate /\ \A g \in W : deps[g] \subseteq W
    BY WantedIsLeast
  <2> HIDE DEF W
  <2> QED BY <2>1, ClosedIsWanted
<1>10. <<>> \in Seq(Gate) /\ ToSet(<<>>) = {} /\ AfterDependencies(<<>>, deps)
  <2>1. <<>> \in Seq(Gate) /\ ToSet(<<>>) = {} /\ DOMAIN <<>> = {} /\ Len(<<>>) = 0
    BY DEF ToSet
  <2>2. Cardinality({}) = 0
    BY FS_EmptySet
  <2> QED BY <2>1, <2>2 DEF AfterDependencies
<1>11. Visited(deps, W, <<>>, visit[W][<<>>])
  BY <1>7, <1>9, <1>10
<1> QED BY <1>8, <1>9, <1>10, <1>11 DEF Visited, Ordered

-------------------------------------------------------------------------------
(* The commands.                                                           *)

Planned == Wanted(decl.deps, decl.matching)

(* A report of a whole plan. *)
Whole(r) ==
  /\ r \in Report
  /\ r.passed \cup r.failed = Planned
  /\ r.passed \subseteq r.ran
  /\ Planned \cap decl.blocking \subseteq r.passed
  /\ \A g \in Planned : decl.deps[g] \subseteq r.passed

(* The gates behind a command. *)
Behind(p) == {cmd[p].built.gates[i] : i \in 1..(cmd[p].at - 1)}

(* A gates run knows of them what a report will say of all.                *)
Reports(p) ==
  /\ cmd[p].report \in Report
  /\ cmd[p].report.plan = cmd[p].built
  /\ cmd[p].at \in 1..(Len(cmd[p].built.gates) + 1)
  /\ cmd[p].report.passed \cup cmd[p].report.failed = Behind(p)
  /\ cmd[p].report.passed \subseteq cmd[p].report.ran
  /\ Behind(p) \cap decl.blocking \subseteq cmd[p].report.passed
  /\ \A g \in Behind(p) : decl.deps[g] \subseteq cmd[p].report.passed

(* At its current gate, the dependencies have passed. *)
AtGate(p) ==
  /\ HasGate(p)
  /\ decl.deps[gate(p)] \subseteq cmd[p].report.passed
  /\ pc[p] = "after" /\ cmd[p].exit => gate(p) \in cmd[p].report.ran

(* A verify about to advance has read a whole report, on its own plan.     *)
Verdict(p) ==
  \A g \in Planned \cap decl.blocking :
    /\ evidence # None /\ cmd[p].report # None
    /\ Whole(cmd[p].report)
    /\ cmd[p].report.plan = cmd[p].built
    /\ g \in decl.final => cmd[p].report.final

Follows(p) ==
  /\ pc[p] # "idle" => cmd[p].built \in Plan /\ ToSet(cmd[p].built.gates) = Planned
  /\ pc[p] = "trust" => cmd[p].at = 1
  /\ pc[p] \in {"before", "gate", "running", "after"} => Reports(p)
  /\ pc[p] \in {"running", "after"} => AtGate(p)
  /\ pc[p] = "advance" => Verdict(p)

EvidenceStands ==
  /\ evidence # None => Whole(evidence)
  /\ state # "REVIEWED" => \A g \in Planned \cap decl.blocking : evidence # None

GatesInv == TypeOK /\ EvidenceStands /\ \A p \in Proc : Follows(p)

-------------------------------------------------------------------------------
(* What every command starts with is a plan of the wanted gates.           *)
LEMMA BuildIsPlan ==
  ASSUME TypeOK, Valid(decl.deps)
  PROVE  /\ Build \in Plan /\ ToSet(Build.gates) = Planned
         /\ Ordered(Build.gates, decl.deps, decl.matching)
<1> DEFINE order == Order(decl.deps, decl.matching)
<1>1. decl.deps \in Dependencies /\ decl.matching \in SUBSET Gate
  BY RunConstants DEF TypeOK, Dependencies
<1>2. order \in Seq(Gate) /\ Ordered(order, decl.deps, decl.matching)
  BY <1>1, OrderIsOrdered, GateConstants
<1>3. ToSet(order) \in SUBSET Gate
  BY <1>2 DEF ToSet
<1>4. Build = [gates |-> order, tools |-> Restrict(toolchain, ToSet(order))]
  BY DEF Build
<1>5. toolchain \in Toolchain
  BY DEF TypeOK
<1> HIDE DEF order
<1> QED
  BY <1>2, <1>3, <1>4, <1>5 DEF Plan, Ordered, Planned

(* A step of one command leaves the others as they are.                    *)
LEMMA OthersFollow ==
  ASSUME GatesInv, NEW p \in Proc, NEW q \in Proc \ {p}, decl' = decl,
         evidence # None => evidence' # None,
         pc'[q] = pc[q], cmd'[q] = cmd[q]
  PROVE  Follows(q)'
BY DEF GatesInv, Follows, Planned, Reports, Behind, AtGate, HasGate, gate, Verdict, Whole

(* A command that leaves, whatever it was. *)
LEMMA LeaveStep ==
  ASSUME GatesInv, NEW p \in Proc, Leave(p), decl' = decl,
         evidence # None => evidence' # None
  PROVE  (\A q \in Proc : Follows(q))'
         /\ pc' \in [Proc -> {"idle", "store", "trust", "before", "gate", "running",
                              "after", "compare", "judge", "advance"}]
         /\ cmd' \in [Proc -> Command]
<1>1. /\ pc'[p] = "idle"
      /\ \A q \in Proc \ {p} : pc'[q] = pc[q] /\ cmd'[q] = cmd[q]
  BY DEF Leave, GatesInv, TypeOK
<1>2. ASSUME NEW q \in Proc PROVE Follows(q)'
  BY <1>1, OthersFollow DEF Follows
<1>3. Nothing \in Command
  BY DEF Nothing, Command
<1>4. QED
  BY <1>2, <1>3 DEF Leave, GatesInv, TypeOK

(* A command begins. *)
LEMMA BeginStep ==
  ASSUME GatesInv, NEW p \in Proc,
         NEW op \in {"plan", "run", "verify", "finalize"}, NEW next \in State \cup {NoRun},
         NEW first \in {"store", "trust", "compare"}, Begins(p, op, next, first)
  PROVE  GatesInv'
<1>1. Build \in Plan /\ ToSet(Build.gates) = Planned
  BY BuildIsPlan DEF GatesInv, Begins
<1>2. UNCHANGED <<state, decl, fresh, toolchain, plan, evidence>>
  BY DEF Begins, world, files
<1> DEFINE c == [Nothing EXCEPT !.op = op, !.built = Build, !.next = next]
<1>3. pc' = [pc EXCEPT ![p] = first] /\ cmd' = [cmd EXCEPT ![p] = c]
  BY DEF Begins, Goto
<1>4. c \in Command /\ c.built = Build /\ c.at = 1
  BY <1>1 DEF Nothing, Command
<1> HIDE DEF c
<1>5. TypeOK' /\ Planned' = Planned /\ EvidenceStands'
  BY <1>2, <1>3, <1>4 DEF GatesInv, TypeOK, EvidenceStands, Planned, Whole
<1>6. pc'[p] = first /\ cmd'[p] = c
  BY <1>3 DEF GatesInv, TypeOK
<1>7. Follows(p)'
  BY <1>1, <1>4, <1>5, <1>6 DEF Follows
<1>8. ASSUME NEW q \in Proc \ {p} PROVE Follows(q)'
  BY <1>2, <1>3, OthersFollow DEF GatesInv, TypeOK
<1>9. QED
  BY <1>5, <1>7, <1>8 DEF GatesInv

(* A step of one command on what it remembers. *)
LEMMA OwnStep ==
  ASSUME GatesInv, NEW p \in Proc, UNCHANGED <<state, decl, evidence>>, TypeOK', Follows(p)',
         \A q \in Proc \ {p} : pc'[q] = pc[q] /\ cmd'[q] = cmd[q]
  PROVE  GatesInv'
<1>1. EvidenceStands'
  BY DEF GatesInv, EvidenceStands, Planned, Whole
<1>2. QED
  BY <1>1, OthersFollow DEF GatesInv

(* gates run, up to its first gate and in front of each. *)
LEMMA GateStep ==
  ASSUME GatesInv, NEW p \in Proc,
         (\E final \in BOOLEAN : TrustPlan(p, final)) \/ Before(p) \/ RunGate(p)
  PROVE  GatesInv'
<1> USE DEF Goto, world, files
<1>1. UNCHANGED <<state, decl, fresh, toolchain, plan, evidence>> /\ Follows(p) /\ TypeOK
  BY DEF TrustPlan, Before, RunGate, GatesInv
<1>2. ASSUME NEW final \in BOOLEAN, TrustPlan(p, final) PROVE GatesInv'
  <2> DEFINE report == [plan |-> plan, final |-> final, passed |-> {}, failed |-> {}, ran |-> {}]
  <2>1. /\ plan = cmd[p].built /\ pc[p] = "trust"
        /\ pc' = [pc EXCEPT ![p] = "before"] /\ cmd' = [cmd EXCEPT ![p].report = report]
    BY <1>2 DEF TrustPlan
  <2>2. cmd[p].at = 1 /\ plan \in Plan /\ ToSet(plan.gates) = Planned
    BY <1>1, <2>1 DEF Follows
  <2>3. report \in Report
    BY <2>2 DEF Report
  <2>4. TypeOK'
    <3>1. [cmd[p] EXCEPT !.report = report] \in Command
      BY <1>1, <2>3 DEF TypeOK, Command
    <3> HIDE DEF report
    <3>2. QED
      BY <1>1, <2>1, <3>1 DEF TypeOK
  <2>5. /\ pc'[p] = "before" /\ cmd'[p].report = report
        /\ cmd'[p].built = cmd[p].built /\ cmd'[p].at = 1
    BY <1>1, <2>1, <2>2 DEF TypeOK, Command
  <2>6. plan.gates \in Seq(Gate) /\ Len(plan.gates) \in Nat
    BY <2>2 DEF Plan
  <2>7. Reports(p)'
    <3>1. Behind(p)' = {}
      BY <2>5 DEF Behind
    <3>2. QED
      BY <2>1, <2>3, <2>5, <2>6, <3>1 DEF Reports
  <2>8. Follows(p)'
    BY <1>1, <2>1, <2>2, <2>5, <2>7 DEF Follows, Planned
  <2>9. QED
    BY <1>1, <2>1, <2>4, <2>8, OwnStep DEF TypeOK
<1>3. CASE Before(p)
  <2>1. pc' = [pc EXCEPT ![p] = "gate"] /\ cmd' = cmd /\ pc[p] = "before"
    BY <1>3 DEF Before
  <2>2. TypeOK'
    BY <1>1, <2>1 DEF TypeOK
  <2>3. Follows(p)'
    BY <1>1, <2>1 DEF TypeOK, Follows, Planned, Reports, Behind
  <2>4. QED
    BY <1>1, <2>1, <2>2, <2>3, OwnStep DEF TypeOK
<1>4. CASE RunGate(p)
  <2>1. /\ pc' = [pc EXCEPT ![p] = "running"] /\ cmd' = cmd /\ pc[p] = "gate"
        /\ HasGate(p) /\ decl.deps[gate(p)] \subseteq cmd[p].report.passed
    BY <1>4 DEF RunGate, MayRun
  <2>2. TypeOK'
    BY <1>1, <2>1 DEF TypeOK
  <2>3. pc'[p] = "running" /\ AtGate(p)'
    BY <1>1, <2>1 DEF TypeOK, AtGate, HasGate, gate
  <2>4. Follows(p)'
    BY <1>1, <2>1, <2>3 DEF TypeOK, Follows, Planned, Reports, Behind
  <2>5. QED
    BY <1>1, <2>1, <2>2, <2>4, OwnStep DEF TypeOK
<1>5. QED
  BY <1>2, <1>3, <1>4

(* A gate ends. *)
LEMMA ExitStep ==
  ASSUME GatesInv, NEW p \in Proc, NEW exit \in BOOLEAN, ExitGate(p, exit)
  PROVE  GatesInv'
<1> DEFINE r == cmd[p].report
           ran == IF exit THEN r.ran \cup {gate(p)} ELSE r.ran
<1>1. UNCHANGED <<state, decl, fresh, toolchain, plan, evidence>> /\ Follows(p) /\ TypeOK
  BY DEF ExitGate, GatesInv, world, files
<1>2. /\ pc[p] = "running" /\ pc' = [pc EXCEPT ![p] = "after"]
      /\ cmd' = [cmd EXCEPT ![p].exit = exit, ![p].report.ran = ran]
  BY DEF ExitGate, Goto
<1>3. Reports(p) /\ AtGate(p) /\ cmd[p].built \in Plan
  BY <1>1, <1>2 DEF Follows
<1>4. r \in Report /\ cmd[p] \in Command
  BY <1>1, <1>3 DEF Reports, TypeOK
<1>5. gate(p) \in Gate
  BY <1>3, <1>4 DEF AtGate, HasGate, gate, Reports, Plan, Command
<1>6. ran \in SUBSET Gate /\ r.ran \subseteq ran
  BY <1>4, <1>5 DEF Report
<1> HIDE DEF ran
<1>7. /\ cmd'[p].report = [r EXCEPT !.ran = ran] /\ cmd'[p].exit = exit
      /\ cmd'[p].built = cmd[p].built /\ cmd'[p].at = cmd[p].at /\ pc'[p] = "after"
      /\ cmd'[p] \in Command /\ [r EXCEPT !.ran = ran] \in Report
  BY <1>1, <1>2, <1>4, <1>6 DEF TypeOK, Command, Report
<1>8. TypeOK'
  BY <1>1, <1>2, <1>7 DEF TypeOK
<1>9. /\ cmd'[p].report.plan = r.plan /\ cmd'[p].report.passed = r.passed
      /\ cmd'[p].report.failed = r.failed /\ cmd'[p].report.ran = ran
  BY <1>4, <1>7 DEF Report
<1>10. Reports(p)'
  BY <1>1, <1>3, <1>6, <1>7, <1>9 DEF Reports, Behind
<1>11. AtGate(p)'
  BY <1>1, <1>3, <1>7, <1>9 DEF AtGate, HasGate, gate, ran
<1>12. Follows(p)'
  BY <1>1, <1>2, <1>7, <1>10, <1>11 DEF Follows, Planned
<1>13. QED
  BY <1>1, <1>2, <1>8, <1>12, OwnStep DEF TypeOK

(* A gate that ended is reported, and the command is behind one more.      *)
LEMMA AfterStep ==
  ASSUME GatesInv, NEW p \in Proc, After(p)
  PROVE  GatesInv'
<1> DEFINE r == cmd[p].report
           g == gate(p)
           passed == IF cmd[p].exit THEN r.passed \cup {g} ELSE r.passed
           failed == IF cmd[p].exit THEN r.failed ELSE r.failed \cup {g}
<1>1. UNCHANGED <<state, decl, fresh, toolchain, plan, evidence>> /\ Follows(p) /\ TypeOK
  BY DEF After, GatesInv, world, files
<1>2. /\ pc[p] = "after" /\ pc' = [pc EXCEPT ![p] = "gate"] /\ Tolerated(p)
      /\ cmd' = [cmd EXCEPT ![p].at = @ + 1, ![p].report.passed = passed,
                            ![p].report.failed = failed]
  BY DEF After, Goto
<1>3. Reports(p) /\ AtGate(p) /\ cmd[p].built \in Plan
  BY <1>1, <1>2 DEF Follows
<1>4. r \in Report /\ cmd[p] \in Command /\ cmd[p].at \in Nat /\ cmd[p].exit \in BOOLEAN
  BY <1>1, <1>3 DEF Reports, TypeOK, Command
<1>5. g \in Gate
  BY <1>3, <1>4 DEF AtGate, HasGate, gate, Reports, Plan, Command
<1>6. /\ passed \in SUBSET Gate /\ failed \in SUBSET Gate /\ r.passed \subseteq passed
      /\ passed \cup failed = r.passed \cup r.failed \cup {g}
      /\ passed \subseteq r.ran
      /\ g \in decl.blocking => g \in passed
  BY <1>2, <1>3, <1>4, <1>5 DEF Report, Reports, AtGate, Tolerated
<1> HIDE DEF passed, failed
<1>7. /\ cmd'[p].report = [r EXCEPT !.passed = passed, !.failed = failed]
      /\ cmd'[p].built = cmd[p].built /\ cmd'[p].at = cmd[p].at + 1 /\ pc'[p] = "gate"
      /\ cmd'[p] \in Command /\ [r EXCEPT !.passed = passed, !.failed = failed] \in Report
  <2> DEFINE s == [r EXCEPT !.passed = passed, !.failed = failed]
  <2>1. s \in Report
    BY <1>4, <1>6 DEF Report
  <2>2. cmd'[p] = [cmd[p] EXCEPT !.at = cmd[p].at + 1, !.report = s] /\ pc'[p] = "gate"
    BY <1>1, <1>2, <1>4 DEF TypeOK, Command
  <2> HIDE DEF s
  <2>3. cmd[p].at + 1 \in Nat
    BY <1>4
  <2>4. [cmd[p] EXCEPT !.at = cmd[p].at + 1, !.report = s] \in Command
    BY <1>4, <2>1, <2>3 DEF Command
  <2>5. /\ cmd'[p].report = s /\ cmd'[p].built = cmd[p].built
        /\ cmd'[p].at = cmd[p].at + 1
    BY <1>4, <2>2 DEF Command
  <2>6. QED
    BY <2>1, <2>2, <2>4, <2>5 DEF s
<1>8. TypeOK'
  BY <1>1, <1>2, <1>7 DEF TypeOK
<1>9. /\ cmd'[p].report.plan = r.plan /\ cmd'[p].report.passed = passed
      /\ cmd'[p].report.failed = failed /\ cmd'[p].report.ran = r.ran
  BY <1>4, <1>7 DEF Report
<1>10. Behind(p)' = Behind(p) \cup {g}
  <2>1. cmd[p].at \in 1..Len(cmd[p].built.gates) /\ Len(cmd[p].built.gates) \in Nat
    BY <1>3, <1>4 DEF AtGate, HasGate, Reports, Plan
  <2>2. 1..(cmd[p].at + 1 - 1) = 1..(cmd[p].at - 1) \cup {cmd[p].at}
    BY <2>1
  <2>3. Behind(p)' = {cmd[p].built.gates[i] : i \in 1..(cmd[p].at + 1 - 1)}
    <3>1. cmd'[p].at - 1 = cmd[p].at + 1 - 1 /\ cmd'[p].built = cmd[p].built
      BY <1>4, <1>7
    <3>2. Behind(p)' = {cmd'[p].built.gates[i] : i \in 1..(cmd'[p].at - 1)}
      BY DEF Behind
    <3>3. QED
      BY <3>1, <3>2, Zenon
  <2>4. QED
    BY <2>2, <2>3 DEF Behind, gate
<1>11. Reports(p)'
  <2>1. cmd[p].at + 1 \in 1..(Len(cmd[p].built.gates) + 1)
    BY <1>3, <1>4 DEF AtGate, HasGate, Reports, Plan
  <2>2. decl.deps[g] \subseteq r.passed
    BY <1>3 DEF AtGate
  <2> HIDE DEF g
  <2>3. QED
    BY <1>1, <1>3, <1>6, <1>7, <1>9, <1>10, <2>1, <2>2 DEF Reports
<1>12. Follows(p)'
  BY <1>1, <1>2, <1>7, <1>11 DEF Follows, Planned
<1>13. QED
  BY <1>1, <1>2, <1>8, <1>12, OwnStep DEF TypeOK

(* A command that has no gate left has a whole report. *)
LEMMA EvidenceStep ==
  ASSUME GatesInv, NEW p \in Proc, WriteEvidence(p)
  PROVE  GatesInv'
<1> DEFINE r == cmd[p].report
<1>1. /\ UNCHANGED <<state, decl, fresh, toolchain, plan>> /\ evidence' = r
      /\ pc[p] = "gate" /\ ~HasGate(p) /\ Leave(p)
  BY DEF WriteEvidence, world
<1>2. TypeOK /\ Reports(p) /\ cmd[p].built \in Plan /\ ToSet(cmd[p].built.gates) = Planned
  BY <1>1 DEF GatesInv, Follows
<1>3. Behind(p) = Planned
  <2>1. cmd[p].at \in Nat /\ Len(cmd[p].built.gates) \in Nat
        /\ cmd[p].built.gates \in Seq(Gate)
    BY <1>2 DEF Reports, Plan
  <2>2. cmd[p].at = Len(cmd[p].built.gates) + 1
    BY <1>1, <1>2, <2>1 DEF Reports, HasGate
  <2>3. 1..(cmd[p].at - 1) = DOMAIN cmd[p].built.gates
    BY <2>1, <2>2
  <2>4. QED
    BY <1>2, <2>3 DEF Behind, ToSet
<1>4. Whole(r)
  BY <1>2, <1>3 DEF Whole, Reports
<1>5. evidence' # None
  BY <1>1, <1>4, NoReport DEF Whole
<1>6. EvidenceStands'
  BY <1>1, <1>4, <1>5 DEF EvidenceStands, Whole, Planned
<1>7. TypeOK'
  BY <1>1, <1>2, <1>4, <1>5, LeaveStep DEF TypeOK, Whole
<1>8. QED
  BY <1>1, <1>5, <1>6, <1>7, LeaveStep DEF GatesInv

(* verify compares the plan, reads the evidence, and moves the run.        *)
LEMMA JudgeStep ==
  ASSUME GatesInv, NEW p \in Proc, ComparePlan(p) \/ Judge(p)
  PROVE  GatesInv'
<1> USE DEF Goto, world, files
<1>1. UNCHANGED <<state, decl, fresh, toolchain, plan, evidence>> /\ Follows(p) /\ TypeOK
  BY DEF ComparePlan, Judge, GatesInv
<1>2. CASE ComparePlan(p)
  <2>1. pc' = [pc EXCEPT ![p] = "judge"] /\ cmd' = cmd /\ pc[p] = "compare"
    BY <1>2 DEF ComparePlan
  <2>2. TypeOK'
    BY <1>1, <2>1 DEF TypeOK
  <2>3. Follows(p)'
    BY <1>1, <2>1 DEF TypeOK, Follows, Planned
  <2>4. QED
    BY <1>1, <2>1, <2>2, <2>3, OwnStep DEF TypeOK
<1>3. CASE Judge(p)
  <2>1. /\ pc[p] = "judge" /\ pc' = [pc EXCEPT ![p] = "advance"]
        /\ cmd' = [cmd EXCEPT ![p].report = evidence]
        /\ \A g \in ToSet(cmd[p].built.gates) \cap decl.blocking : Accepted(p, g)
    BY <1>3 DEF Judge
  <2>2. TypeOK'
    BY <1>1, <2>1 DEF TypeOK, Command
  <2>3. /\ pc'[p] = "advance" /\ cmd'[p].report = evidence
        /\ cmd'[p].built = cmd[p].built
    BY <1>1, <2>1 DEF TypeOK, Command
  <2>4. cmd[p].built \in Plan /\ ToSet(cmd[p].built.gates) = Planned
    BY <1>1, <2>1 DEF Follows
  <2>5. Planned' = Planned
    BY <1>1 DEF Planned
  <2>6. ASSUME NEW g \in Planned \cap decl.blocking
        PROVE  /\ evidence # None /\ Whole(evidence)
               /\ evidence.plan = cmd[p].built
               /\ g \in decl.final => evidence.final
    BY <2>1, <2>4 DEF Accepted, GatesInv, EvidenceStands
  <2>7. Verdict(p)'
    BY <1>1, <2>3, <2>5, <2>6 DEF Verdict, Whole
  <2>8. Follows(p)'
    BY <1>1, <2>3, <2>4, <2>5, <2>7 DEF Follows
  <2>9. QED
    BY <1>1, <2>1, <2>2, <2>8, OwnStep DEF TypeOK
<1>4. QED
  BY <1>2, <1>3

LEMMA AdvanceStep ==
  ASSUME GatesInv, NEW p \in Proc, Advance(p)
  PROVE  GatesInv'
<1>1. /\ UNCHANGED <<decl, fresh, toolchain, plan, evidence>>
      /\ Follows(p) /\ TypeOK /\ pc[p] = "advance" /\ state' = cmd[p].next
      /\ AllowedTransition(state, cmd[p].next)
  BY DEF Advance, GatesInv, world, files
<1>2. state' \in State
  <2>1. \A current \in State : Allowed[current] \subseteq State
    BY DEF Allowed, State
  <2>2. QED
    BY <1>1, <2>1 DEF AllowedTransition
<1>3. EvidenceStands'
  BY <1>1 DEF GatesInv, Follows, Verdict, EvidenceStands, Planned, Whole
<1>4. CASE Then(p) = NoRun
  <2>1. Leave(p)
    BY <1>4 DEF Advance
  <2>2. QED
    BY <1>1, <1>2, <1>3, <2>1, LeaveStep DEF GatesInv, TypeOK
<1>5. CASE Then(p) # NoRun
  <2>1. pc' = pc /\ cmd' = [cmd EXCEPT ![p].next = Then(p)]
    BY <1>5 DEF Advance
  <2>2. Then(p) \in State
    BY <1>5 DEF Then, State
  <2>3. TypeOK'
    BY <1>1, <1>2, <2>1, <2>2 DEF TypeOK, Command
  <2>4. Follows(p)'
    <3>1. cmd'[p].report = cmd[p].report /\ cmd'[p].built = cmd[p].built
          /\ pc'[p] = "advance"
      BY <1>1, <2>1 DEF TypeOK, Command
    <3>2. Verdict(p)'
      BY <1>1, <3>1 DEF Follows, Verdict, Planned, Whole
    <3>3. QED
      BY <1>1, <3>1, <3>2 DEF Follows, Planned
  <2>5. ASSUME NEW q \in Proc \ {p} PROVE Follows(q)'
    BY <1>1, <2>1, OthersFollow DEF TypeOK
  <2>6. QED
    BY <1>3, <2>3, <2>4, <2>5 DEF GatesInv
<1>6. QED
  BY <1>4, <1>5

(* The environment: nothing of a command's is touched. *)
LEMMA WorldStep ==
  ASSUME GatesInv, UNCHANGED <<decl, state, plan, evidence, pc, cmd>>,
         fresh' \in BOOLEAN, toolchain' \in Toolchain
  PROVE  GatesInv'
<1>1. TypeOK' /\ EvidenceStands'
  BY DEF GatesInv, TypeOK, EvidenceStands, Planned, Whole
<1>2. ASSUME NEW q \in Proc PROVE Follows(q)'
  BY DEF GatesInv, Follows, Planned, Reports, Behind, AtGate, HasGate, gate, Verdict, Whole
<1>3. QED
  BY <1>1, <1>2 DEF GatesInv

LEMMA LastStep ==
  ASSUME GatesInv, NEW p \in Proc, StorePlan(p) \/ Stop(p)
  PROVE  GatesInv'
<1>1. /\ UNCHANGED <<state, decl, fresh, toolchain, evidence>> /\ Leave(p)
      /\ plan' = plan \/ (pc[p] = "store" /\ plan' = cmd[p].built)
  BY DEF StorePlan, Stop, world, files
<1>2. plan' \in Plan \cup {None}
  BY <1>1 DEF GatesInv, TypeOK, Follows
<1>3. TypeOK' /\ EvidenceStands'
  BY <1>1, <1>2, LeaveStep DEF GatesInv, TypeOK, EvidenceStands, Planned, Whole
<1>4. QED
  BY <1>1, <1>3, LeaveStep DEF GatesInv

LEMMA GatesStep == GatesInv /\ [Next]_vars => GatesInv'
<1> SUFFICES ASSUME GatesInv, [Next]_vars PROVE GatesInv'
  OBVIOUS
<1>1. CASE UNCHANGED vars
  BY <1>1, WorldStep DEF vars, world, files, GatesInv, TypeOK
<1>2. CASE Edit
  BY <1>2, WorldStep DEF Edit, files, GatesInv, TypeOK
<1>3. ASSUME NEW t \in Toolchain, Install(t) PROVE GatesInv'
  BY <1>3, WorldStep DEF Install, files, GatesInv, TypeOK
<1>4. ASSUME NEW p \in Proc, Step(p) PROVE GatesInv'
  <2>1. CASE StartPlan(p) \/ StartRun(p)
    BY <2>1, BeginStep DEF StartPlan, StartRun
  <2>2. ASSUME NEW op \in {"verify", "finalize"}, StartVerify(p, op) PROVE GatesInv'
    <3>1. FirstMove(op) \in State
      BY <2>2 DEF StartVerify, FirstMove, State
    <3>2. QED
      BY <2>2, <3>1, BeginStep DEF StartVerify
  <2>3. QED
    BY <1>4, <2>1, <2>2, GateStep, ExitStep, AfterStep, EvidenceStep, JudgeStep,
       AdvanceStep, LastStep DEF Step
<1>5. QED
  BY <1>1, <1>2, <1>3, <1>4 DEF Next

-------------------------------------------------------------------------------
LEMMA GatesInit == Init => GatesInv
BY DEF Init, GatesInv, TypeOK, EvidenceStands, Follows, Nothing, Command, State

(* What gates run and verify rely on holds in every reachable state.       *)
THEOREM GatesStand == Spec => []GatesInv
BY GatesInit, GatesStep, PTL DEF Spec

(* The variables have their types. *)
THEOREM GateTyping == Spec => []TypeOK
<1>1. GatesInv => TypeOK
  BY DEF GatesInv
<1>2. QED
  BY <1>1, GatesStand, PTL

(* What is planned, and what a command has built, is in order.             *)
InOrder(built) == Ordered(built.gates, decl.deps, decl.matching)

OrderedInv ==
  /\ GatesInv
  /\ plan # None => InOrder(plan)
  /\ \A p \in Proc : pc[p] # "idle" => InOrder(cmd[p].built)

(* A command that goes on has what it has built; one that leaves, nothing. *)
LEMMA OrderedStep == OrderedInv /\ [Next]_vars => OrderedInv'
<1> SUFFICES ASSUME OrderedInv, [Next]_vars PROVE OrderedInv'
  OBVIOUS
<1> USE DEF OrderedInv, InOrder
<1>1. GatesInv'
  BY GatesStep
<1>2. /\ pc \in [Proc -> {"idle", "store", "trust", "before", "gate", "running",
                         "after", "compare", "judge", "advance"}]
      /\ cmd \in [Proc -> Command]
  BY DEF GatesInv, TypeOK
<1>3. CASE UNCHANGED vars
  BY <1>1, <1>3 DEF vars, world, files
<1>4. CASE Edit \/ \E t \in Toolchain : Install(t)
  BY <1>1, <1>4 DEF Edit, Install, files
<1>5. ASSUME NEW p \in Proc, Step(p) PROVE OrderedInv'
  <2>1. decl' = decl
    BY <1>5 DEF Step, StartPlan, StorePlan, StartRun, TrustPlan, Before, RunGate, ExitGate,
                After, WriteEvidence, StartVerify, ComparePlan, Judge, Advance, Stop, Begins,
                world
  <2>2. ASSUME NEW op, NEW next, NEW first, Begins(p, op, next, first)
        PROVE OrderedInv'
    <3>1. Ordered(Build.gates, decl.deps, decl.matching)
      BY <2>2, BuildIsPlan DEF Begins, GatesInv
    <3> DEFINE c == [Nothing EXCEPT !.op = op, !.built = Build, !.next = next]
    <3>2. c.built = Build
      BY DEF Nothing
    <3>3. cmd' = [cmd EXCEPT ![p] = c] /\ plan' = plan /\ pc' = [pc EXCEPT ![p] = first]
      BY <2>2 DEF Begins, Goto, files
    <3> HIDE DEF c
    <3> QED BY <1>1, <1>2, <2>1, <3>1, <3>2, <3>3
  <2>3. ASSUME Leave(p), plan' \in {plan, cmd[p].built}, pc[p] # "idle" PROVE OrderedInv'
    BY <1>1, <1>2, <2>1, <2>3 DEF Leave
  <2>4. ASSUME pc[p] # "idle", plan' = plan,
               \A q \in Proc : cmd'[q].built = cmd[q].built,
               \A q \in Proc \ {p} : pc'[q] = pc[q]
        PROVE  OrderedInv'
    BY <1>1, <2>1, <2>4
  <2> HIDE DEF OrderedInv, InOrder
  <2>5. CASE StartPlan(p) \/ StartRun(p) \/ \E op \in {"verify", "finalize"} : StartVerify(p, op)
    BY <2>2, <2>5 DEF StartPlan, StartRun, StartVerify
  <2>6. CASE StorePlan(p) \/ WriteEvidence(p) \/ Stop(p)
    BY <2>3, <2>6 DEF StorePlan, WriteEvidence, Stop, files
  <2>7. CASE Before(p) \/ RunGate(p) \/ ComparePlan(p)
    BY <1>2, <2>4, <2>7 DEF Before, RunGate, ComparePlan, Goto, files
  <2>8. CASE (\E final \in BOOLEAN : TrustPlan(p, final)) \/ Judge(p)
    BY <1>2, <2>4, <2>8 DEF TrustPlan, Judge, Goto, files, Command
  <2>9. CASE (\E exit \in BOOLEAN : ExitGate(p, exit)) \/ After(p)
    <3>1. \A q \in Proc : cmd'[q].built = cmd[q].built
      <4>1. ASSUME NEW exit \in BOOLEAN, ExitGate(p, exit)
            PROVE  \A q \in Proc : cmd'[q].built = cmd[q].built
        <5> DEFINE ran == IF exit THEN cmd[p].report.ran \cup {gate(p)} ELSE cmd[p].report.ran
        <5>1. cmd' = [cmd EXCEPT ![p].exit = exit, ![p].report.ran = ran]
          BY <4>1 DEF ExitGate
        <5> HIDE DEF ran
        <5> QED BY <1>2, <5>1 DEF Command
      <4>2. ASSUME After(p) PROVE \A q \in Proc : cmd'[q].built = cmd[q].built
        <5> DEFINE r == cmd[p].report
                   passed == IF cmd[p].exit THEN r.passed \cup {gate(p)} ELSE r.passed
                   failed == IF cmd[p].exit THEN r.failed ELSE r.failed \cup {gate(p)}
        <5>1. cmd' = [cmd EXCEPT ![p].at = @ + 1, ![p].report.passed = passed,
                                 ![p].report.failed = failed]
          BY <4>2 DEF After
        <5> HIDE DEF passed, failed
        <5> QED BY <1>2, <5>1 DEF Command
      <4> QED BY <2>9, <4>1, <4>2
    <3>2. pc[p] # "idle" /\ plan' = plan /\ \A q \in Proc \ {p} : pc'[q] = pc[q]
      BY <1>2, <2>9 DEF ExitGate, After, Goto, files
    <3> QED BY <2>4, <3>1, <3>2
  <2>10. CASE Advance(p)
    <3>1. CASE Then(p) = NoRun
      BY <2>3, <2>10, <3>1 DEF Advance, files
    <3>2. CASE Then(p) # NoRun
      BY <1>2, <2>4, <2>10, <3>2 DEF Advance, files, Command
    <3> QED BY <3>1, <3>2
  <2> QED BY <1>5, <2>5, <2>6, <2>7, <2>8, <2>9, <2>10 DEF Step
<1> QED BY <1>3, <1>4, <1>5 DEF Next

(* gates plan: a stored plan has every wanted gate once, after its         *)
(* dependencies, for any declaration without a cycle.                      *)
THEOREM PlansAreOrdered == Spec => []PlanIsOrdered
<1>1. Init => OrderedInv
  BY GatesInit DEF OrderedInv, Init
<1>2. OrderedInv => PlanIsOrdered
  BY DEF OrderedInv, InOrder, PlanIsOrdered
<1>3. QED
  BY <1>1, <1>2, OrderedStep, PTL DEF Spec

(* gates.Run: evidence, whichever command wrote it last, is of a whole     *)
(* plan, of which the blocking gates and every dependency exited with 0.   *)
THEOREM WholeEvidence == Spec => []EvidenceIsWhole
<1>1. GatesInv => EvidenceIsWhole
  BY DEF GatesInv, EvidenceStands, Whole, EvidenceIsWhole, Planned, Report
<1>2. QED
  BY <1>1, GatesStand, PTL

(* verify: what it has read when it moves the run is a whole report on the *)
(* plan it built itself, whatever was planned, run or installed since.     *)
THEOREM BackedVerdict == Spec => []VerdictIsBacked
<1>1. GatesInv => VerdictIsBacked
  <2> SUFFICES ASSUME GatesInv, NEW p \in Proc, pc[p] = "advance",
                      NEW g \in Planned \cap decl.blocking
               PROVE  /\ cmd[p].report # None /\ g \in cmd[p].report.ran
                      /\ cmd[p].report.plan = cmd[p].built
                      /\ g \in decl.final => cmd[p].report.final
    BY DEF VerdictIsBacked, Planned
  <2>1. QED
    BY DEF GatesInv, Follows, Verdict, Whole
<1>2. QED
  BY <1>1, GatesStand, PTL

(* verify beside gates run: a run that has left REVIEWED keeps evidence    *)
(* that the blocking gates passed, whichever command writes it anew.       *)
THEOREM JudgedIsBacked == Spec => []JudgedStaysBacked
<1>1. GatesInv => JudgedStaysBacked
  BY DEF GatesInv, EvidenceStands, Whole, JudgedStaysBacked, Planned
<1>2. QED
  BY <1>1, GatesStand, PTL
===============================================================================
