------------------------------- MODULE Recursion -------------------------------
(***************************************************************************)
(* Lemmas for proofs about recursive functions: a set of numbers has a     *)
(* least one, an equation that gives a function's value at a place from    *)
(* its values at places of a smaller measure has a solution, and so has    *)
(* that of a loop that adds to a set; the loop ends with a closed set.     *)
(***************************************************************************)
EXTENDS Integers, WellFoundedInduction, FiniteSetTheorems, TLAPS

(* The numbers are well-founded: a set of some has a least one. *)
LEMMA LeastOfSome ==
  ASSUME NEW S \in SUBSET Nat, S # {}
  PROVE  \E x \in S : \A y \in S : x <= y
<1> DEFINE R == OpToRel(<, Nat)
<1>1. IsWellFoundedOn(R, Nat)
  BY NatLessThanWellFounded
<1>2. \A x, y \in Nat : x < y => <<x, y>> \in R
  BY DEF OpToRel
<1> HIDE DEF R
<1>3. PICK x \in S : \A y \in S : ~(<<y, x>> \in R)
  BY <1>1, WFMin
<1>4. ASSUME NEW y \in S PROVE x <= y
  <2>1. x \in Nat /\ y \in Nat
    OBVIOUS
  <2>2. ~(y < x)
    BY <1>2, <1>3, <2>1
  <2> QED BY <2>1, <2>2
<1> QED BY <1>4

(* What holds of the places before a place, by their measure, holds there: *)
(* a place where it does not would be preceded by a least one.             *)
LEMMA LeastMeasure ==
  ASSUME NEW S, NEW m \in [S -> Nat], NEW T \in SUBSET S, T # {}
  PROVE  \E x \in T : \A y \in T : m[x] <= m[y]
<1> DEFINE M == {m[x] : x \in T}
<1>1. M \in SUBSET Nat /\ M # {}
  OBVIOUS
<1>2. PICK n \in M : \A k \in M : n <= k
  <2> HIDE DEF M
  <2> QED BY <1>1, LeastOfSome
<1>3. PICK x \in T : n = m[x]
  OBVIOUS
<1> QED BY <1>2, <1>3

(* A finite set of numbers has a greatest one. *)
LEMMA GreatestOfSome ==
  ASSUME NEW S \in SUBSET Nat, S # {}, IsFiniteSet(S)
  PROVE  \E x \in S : \A y \in S : y <= x
<1> DEFINE Above(x) == {y \in S : x < y}
           m == [x \in S |-> Cardinality(Above(x))]
<1>1. ASSUME NEW x \in S PROVE IsFiniteSet(Above(x)) /\ Cardinality(Above(x)) \in Nat
  BY FS_Subset, FS_CardinalityType
<1>2. PICK x \in S : \A y \in S : m[x] <= m[y]
  <2>1. m \in [S -> Nat]
    BY <1>1
  <2> HIDE DEF m
  <2> QED BY <2>1, LeastMeasure
<1>3. ASSUME NEW y \in S PROVE y <= x
  <2>1. x \in Nat /\ y \in Nat
    OBVIOUS
  <2>2. SUFFICES ASSUME x < y PROVE FALSE
    BY <2>1
  <2>3. Above(y) \subseteq Above(x)
    <3> SUFFICES ASSUME NEW z \in S, y < z PROVE x < z
      OBVIOUS
    <3>1. z \in Nat
      OBVIOUS
    <3> QED BY <2>1, <2>2, <3>1
  <2>4. y \in Above(x) /\ y \notin Above(y)
    BY <2>1, <2>2
  <2> HIDE DEF Above
  <2>5. Cardinality(Above(y)) <= Cardinality(Above(x))
        /\ Cardinality(Above(y)) # Cardinality(Above(x))
    BY <1>1, <2>3, <2>4, FS_Subset
  <2> QED BY <1>1, <1>2, <2>5
<1> QED BY <1>3

(* What D makes of a function is the same at a place for functions that    *)
(* are the same at the places of a smaller measure.                        *)
DependsOnSmaller(S, V, m, D) ==
  \A x \in S : \A f, g \in [S -> V] :
    (\A y \in S : m[y] < m[x] => f[y] = g[y]) => D[f][x] = D[g][x]

(* f is a solution at the places whose measure is less than n. *)
Solves(f, n, S, m, D) == \A x \in S : m[x] < n => f[x] = D[f][x]

(* There is one, up to any measure: what D makes of one up to a smaller. *)
LEMMA SolvedUpTo ==
  ASSUME NEW S, NEW V, V # {}, NEW m \in [S -> Nat], NEW D \in [[S -> V] -> [S -> V]],
         DependsOnSmaller(S, V, m, D),
         NEW n \in Nat
  PROVE  \E f \in [S -> V] : Solves(f, n, S, m, D)
<1> DEFINE Bad == {k \in Nat : ~ \E f \in [S -> V] : Solves(f, k, S, m, D)}
<1>1. SUFFICES ASSUME Bad # {} PROVE FALSE
  OBVIOUS
<1>2. PICK k \in Bad : \A j \in Bad : k <= j
  <2>1. Bad \in SUBSET Nat
    OBVIOUS
  <2> HIDE DEF Bad
  <2> QED BY <1>1, <2>1, LeastOfSome
<1>3. k # 0
  <2>1. PICK v \in V : TRUE
    OBVIOUS
  <2>2. [x \in S |-> v] \in [S -> V]
    OBVIOUS
  <2>3. Solves([x \in S |-> v], 0, S, m, D)
    BY DEF Solves
  <2> QED BY <2>2, <2>3
<1>4. PICK f \in [S -> V] : Solves(f, k - 1, S, m, D)
  <2>1. k - 1 \in Nat /\ ~(k <= k - 1)
    BY <1>3
  <2> QED BY <1>2, <2>1
<1> DEFINE g == D[f]
<1>5. g \in [S -> V]
  OBVIOUS
<1>6. ASSUME NEW x \in S, m[x] < k PROVE g[x] = D[g][x]
  <2>1. ASSUME NEW y \in S, m[y] < m[x] PROVE f[y] = g[y]
    <3>1. m[x] \in Nat /\ m[y] \in Nat
      OBVIOUS
    <3>2. m[y] < k - 1
      BY <1>6, <2>1, <3>1
    <3> QED BY <1>4, <3>2 DEF Solves
  <2>2. D[f][x] = D[g][x]
    <3> HIDE DEF g
    <3> QED BY <1>5, <2>1 DEF DependsOnSmaller
  <2> QED BY <2>2
<1>7. Solves(g, k, S, m, D)
  BY <1>6 DEF Solves
<1> QED BY <1>5, <1>7

HasSolution(S, V, D) == \E f \in [S -> V] : f = D[f]

(* There is one at all places: at each, what those up to it have in common. *)
LEMMA SolutionExists ==
  ASSUME NEW S, NEW V, V # {}, NEW m \in [S -> Nat], NEW D \in [[S -> V] -> [S -> V]],
         DependsOnSmaller(S, V, m, D)
  PROVE  HasSolution(S, V, D)
<1>0. ASSUME NEW n \in Nat, NEW f \in [S -> V], NEW g \in [S -> V],
             Solves(f, n, S, m, D), Solves(g, n, S, m, D), NEW x \in S, m[x] < n
      PROVE  f[x] = g[x]
  <2> DEFINE T == {y \in S : m[y] < n /\ f[y] # g[y]}
  <2>1. SUFFICES ASSUME T # {} PROVE FALSE
    BY <1>0
  <2>2. PICK y \in T : \A z \in T : m[y] <= m[z]
    <3>1. T \in SUBSET S
      OBVIOUS
    <3> HIDE DEF T
    <3> QED BY <2>1, <3>1, LeastMeasure
  <2>3. \A z \in S : m[z] < m[y] => f[z] = g[z]
    <3> SUFFICES ASSUME NEW z \in S, m[z] < m[y] PROVE f[z] = g[z]
      OBVIOUS
    <3>1. m[z] \in Nat /\ m[y] \in Nat /\ m[y] < n
      OBVIOUS
    <3>2. m[z] < n /\ ~(m[y] <= m[z])
      BY <3>1
    <3> QED BY <2>2, <3>2
  <2>4. D[f][y] = D[g][y]
    BY <2>3 DEF DependsOnSmaller
  <2>5. f[y] = D[f][y] /\ g[y] = D[g][y]
    BY <1>0 DEF Solves
  <2> QED BY <2>4, <2>5
<1> DEFINE Up(n) == CHOOSE f \in [S -> V] : Solves(f, n, S, m, D)
<1>1. ASSUME NEW n \in Nat PROVE Up(n) \in [S -> V] /\ Solves(Up(n), n, S, m, D)
  BY SolvedUpTo
<1> HIDE DEF Up
<1> DEFINE F == [x \in S |-> Up(m[x] + 1)[x]]
<1>2. F \in [S -> V]
  <2> SUFFICES ASSUME NEW x \in S PROVE Up(m[x] + 1)[x] \in V
    OBVIOUS
  <2>1. m[x] + 1 \in Nat
    OBVIOUS
  <2> QED BY <1>1, <2>1
<1>3. ASSUME NEW x \in S PROVE F[x] = D[F][x]
  <2> DEFINE n == m[x] + 1
  <2>1. n \in Nat /\ m[x] \in Nat /\ m[x] < n
    OBVIOUS
  <2>2. Up(n) \in [S -> V] /\ Solves(Up(n), n, S, m, D)
    BY <1>1, <2>1
  <2>3. F[x] = Up(n)[x]
    OBVIOUS
  <2> HIDE DEF n
  <2>4. ASSUME NEW y \in S, m[y] < m[x] PROVE Up(n)[y] = F[y]
    <3>1. PICK k \in Nat : k = m[y] + 1 /\ m[y] < k /\ k <= n
      BY <2>1, <2>4 DEF n
    <3>2. F[y] = Up(k)[y]
      BY <3>1
    <3> HIDE DEF F
    <3>3. PICK v \in [S -> V] : v = Up(k) /\ Solves(v, k, S, m, D)
      BY <1>1, <3>1
    <3>4. PICK u \in [S -> V] : u = Up(n) /\ Solves(u, n, S, m, D)
      BY <2>2
    <3>5. Solves(u, k, S, m, D)
      <4> SUFFICES ASSUME NEW z \in S, m[z] < k PROVE u[z] = D[u][z]
        BY DEF Solves
      <4>1. m[z] < n
        BY <2>1, <3>1
      <4> QED BY <3>4, <4>1 DEF Solves
    <3>6. u[y] = v[y]
      BY <3>1, <3>3, <3>5, <1>0
    <3> QED BY <3>2, <3>3, <3>4, <3>6
  <2> HIDE DEF F
  <2>5. D[Up(n)][x] = D[F][x]
    BY <1>2, <2>2, <2>4 DEF DependsOnSmaller
  <2> QED BY <2>1, <2>2, <2>3, <2>5 DEF Solves
<1> HIDE DEF F
<1> QED BY <1>2, <1>3 DEF HasSolution

-------------------------------------------------------------------------------
(* A loop that adds to a subset of U until nothing is added any more.      *)
Grows(step, U) == \A S \in SUBSET U : S \subseteq step[S]

IsLoop(loop, U, step) ==
  loop = [S \in SUBSET U |-> IF step[S] = S THEN S ELSE loop[step[S]]]

HasLoop(U, step) == \E loop \in [SUBSET U -> SUBSET U] : IsLoop(loop, U, step)

(* What is left to add. *)
LEMMA StepLeavesLess ==
  ASSUME NEW U, IsFiniteSet(U), NEW step \in [SUBSET U -> SUBSET U], Grows(step, U),
         NEW S \in SUBSET U
  PROVE  /\ Cardinality(U \ S) \in Nat
         /\ step[S] # S => Cardinality(U \ step[S]) < Cardinality(U \ S)
<1>1. PICK R \in SUBSET U : R = step[S] /\ S \subseteq R
  BY DEF Grows
<1>2. IsFiniteSet(U \ S) /\ Cardinality(U \ S) \in Nat
  BY FS_Subset, FS_CardinalityType
<1>3. ASSUME R # S PROVE Cardinality(U \ R) < Cardinality(U \ S)
  <2>1. U \ R \subseteq U \ S /\ U \ R # U \ S
    BY <1>1, <1>3
  <2>2. Cardinality(U \ R) <= Cardinality(U \ S) /\ Cardinality(U \ R) # Cardinality(U \ S)
    BY <1>2, <2>1, FS_Subset
  <2>3. Cardinality(U \ R) \in Nat
    BY <1>2, <2>1, FS_Subset, FS_CardinalityType
  <2> QED BY <1>2, <2>2, <2>3
<1> QED BY <1>1, <1>2, <1>3

(* There is such a loop. *)
LEMMA LoopExists ==
  ASSUME NEW U, IsFiniteSet(U), NEW step \in [SUBSET U -> SUBSET U], Grows(step, U)
  PROVE  HasLoop(U, step)
<1> DEFINE V == SUBSET U
           m == [S \in V |-> Cardinality(U \ S)]
           D == [f \in [V -> V] |-> [S \in V |-> IF step[S] = S THEN S ELSE f[step[S]]]]
<1>1. m \in [V -> Nat]
  BY StepLeavesLess
<1>2. D \in [[V -> V] -> [V -> V]]
  OBVIOUS
<1>3. DependsOnSmaller(V, V, m, D)
  BY StepLeavesLess DEF DependsOnSmaller
<1>4. V # {}
  OBVIOUS
<1>5. PICK f \in [V -> V] : f = D[f]
  <2> HIDE DEF V, m, D
  <2>1. HasSolution(V, V, D)
    BY <1>1, <1>2, <1>3, <1>4, SolutionExists
  <2> QED BY <2>1 DEF HasSolution
<1>6. IsLoop(f, U, step)
  BY <1>5 DEF IsLoop
<1> QED BY <1>6 DEF HasLoop

(* It ends with the least set, among those with no step out of them, that  *)
(* it may come to.                                                         *)
Ends(step, U, S, result) ==
  /\ result \in SUBSET U /\ S \subseteq result /\ step[result] = result
  /\ \A W \in SUBSET U :
       S \subseteq W /\ (\A R \in SUBSET W : step[R] \subseteq W) => result \subseteq W

LEMMA LoopEnds ==
  ASSUME NEW U, IsFiniteSet(U), NEW step \in [SUBSET U -> SUBSET U], Grows(step, U),
         NEW loop, IsLoop(loop, U, step), NEW S \in SUBSET U
  PROVE  Ends(step, U, S, loop[S])
<1> DEFINE V == SUBSET U
           m == [R \in V |-> Cardinality(U \ R)]
           T == {R \in V : ~Ends(step, U, R, loop[R])}
<1>1. SUFFICES ASSUME T # {} PROVE FALSE
  OBVIOUS
<1>2. m \in [V -> Nat]
  BY StepLeavesLess
<1>3. PICK R \in T : \A Q \in T : m[R] <= m[Q]
  <2>1. T \in SUBSET V
    OBVIOUS
  <2> HIDE DEF T, V, m
  <2> QED BY <1>1, <1>2, <2>1, LeastMeasure
<1>4. R \in V /\ ~Ends(step, U, R, loop[R])
  OBVIOUS
<1>5. loop[R] = IF step[R] = R THEN R ELSE loop[step[R]]
  BY <1>4 DEF IsLoop
<1>6. CASE step[R] = R
  BY <1>4, <1>5, <1>6 DEF Ends
<1>7. CASE step[R] # R
  <2>1. step[R] \in V /\ R \subseteq step[R]
    BY <1>4 DEF Grows
  <2>2. ~(m[R] <= m[step[R]])
    <3>1. m[step[R]] < m[R] /\ m[R] \in Nat /\ m[step[R]] \in Nat
      BY <1>4, <1>7, <2>1, StepLeavesLess
    <3> HIDE DEF m
    <3> QED BY <3>1
  <2>3. Ends(step, U, step[R], loop[step[R]])
    BY <1>3, <2>1, <2>2
  <2>4. Ends(step, U, R, loop[step[R]])
    BY <1>4, <2>1, <2>3 DEF Ends
  <2> QED BY <1>4, <1>5, <1>7, <2>4
<1> QED BY <1>6, <1>7
===============================================================================
