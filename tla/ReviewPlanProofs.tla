---------------------------- MODULE ReviewPlanProofs ----------------------------
(***************************************************************************)
(* What holds of a plan and of its refresh for any number of paths,        *)
(* contract types, contents, policies and limits.                          *)
(*                                                                         *)
(* First, what planner.Build computes: the slices cut from the groups part *)
(* the entries of a change, each within the limits.  Then what             *)
(* ComputeInvalidation computes: the closure under shared contracts.  Then *)
(* what the last entry of a path tells of its file.  The commands keep     *)
(* these facts of the plan and of the run before it.                       *)
(***************************************************************************)
EXTENDS ReviewPlan, Recursion, FiniteSetTheorems

-------------------------------------------------------------------------------
(* What Capture lists: of a path at most one entry per scope.              *)
Inventory(es) ==
  /\ es \subseteq Entry
  /\ \A e, f \in es : e.path = f.path /\ e.scope = f.scope => e = f

LEMMA EntriesAreInventory ==
  ASSUME NEW t \in Tree
  PROVE  Inventory(Entries(t))
<1>1. ASSUME NEW e \in Entries(t)
      PROVE  /\ e \in Entry
             /\ e.scope = 1 => e.previous = t[e.path]["base"] /\ e.current = t[e.path]["head"]
             /\ e.scope = 2 => e.previous = t[e.path]["head"] /\ e.current = t[e.path]["index"]
             /\ e.scope = 3 => e.previous = t[e.path]["index"] /\ e.current = t[e.path]["work"]
             /\ e.scope = 4 => e.previous = Absent /\ e.current = t[e.path]["work"]
  <2>1. PICK p \in Path : e \in EntriesOf(p, t[p])
    BY DEF Entries
  <2>2. /\ t[p]["base"] \in Content \cup {Absent} /\ t[p]["head"] \in Content \cup {Absent}
        /\ t[p]["index"] \in Content \cup {Absent} /\ t[p]["work"] \in Content \cup {Absent}
    BY DEF Tree, Slot
  <2>3. 1..4 = DOMAIN Scopes
    BY DEF Scopes
  <2> QED BY <2>1, <2>2, <2>3 DEF EntriesOf, Entry
<1>2. ASSUME NEW e \in Entries(t), NEW f \in Entries(t), e.path = f.path, e.scope = f.scope
      PROVE  e = f
  <2>1. e \in Entry /\ f \in Entry /\ e.scope \in 1..4
    BY <1>1 DEF Entry, Scopes
  <2>2. e.previous = f.previous /\ e.current = f.current
    BY <1>1, <1>2, <2>1
  <2> QED BY <1>2, <2>1, <2>2 DEF Entry
<1> QED BY <1>1, <1>2 DEF Inventory

LEMMA EntriesAreNumbered ==
  ASSUME PlanConstants, NEW es, Inventory(es), NEW e \in es
  PROVE  e \in Entry /\ e.path \in Nat /\ e.scope \in Nat /\ e.path \in Paths(es)
<1>1. e \in Entry /\ e.path \in Path
  BY DEF Inventory, Entry
<1>2. e.path \in Nat
  BY <1>1 DEF PlanConstants
<1>3. e.scope \in Nat
  <2>1. e.scope \in DOMAIN Scopes
    BY <1>1 DEF Entry
  <2> QED BY <2>1 DEF Scopes
<1>4. e.path \in Paths(es)
  BY DEF Paths
<1> QED BY <1>1, <1>2, <1>3, <1>4

LEMMA InventoryIsFinite ==
  ASSUME PlanConstants, NEW es, Inventory(es)
  PROVE  IsFiniteSet(es) /\ IsFiniteSet(Paths(es)) /\ Paths(es) \in SUBSET Nat
<1>1. es \subseteq Entry /\ \A e \in es : e.path \in Path /\ e.scope \in 1..4
  BY DEF Inventory, Entry, Scopes
<1> DEFINE f == [e \in es |-> <<e.path, e.scope>>]
<1>2. f \in Injection(es, Path \X (1..4))
  BY <1>1 DEF Inventory, Injection, IsInjective
<1>3. IsFiniteSet(Path \X (1..4))
  <2>1. IsFiniteSet(1..4)
    <3> DEFINE n == 4
    <3>1. n \in Int /\ 1 \in Int
      OBVIOUS
    <3> HIDE DEF n
    <3>2. IsFiniteSet(1..n)
      BY <3>1, FS_Interval
    <3> QED BY <3>2 DEF n
  <2>2. IsFiniteSet(Path)
    BY DEF PlanConstants
  <2> QED BY <2>1, <2>2, FS_Product
<1>4. IsFiniteSet(es)
  BY <1>2, <1>3, FS_Injection
<1>5. Paths(es) \subseteq Path
  BY <1>1 DEF Paths
<1>6. IsFiniteSet(Path) /\ Path \subseteq Nat
  BY DEF PlanConstants
<1> QED BY <1>4, <1>5, <1>6, FS_Subset

(* Of a path's entries one is the first. *)
LEMMA FirstIsFirst ==
  ASSUME NEW es, Inventory(es), NEW p \in Paths(es)
  PROVE  /\ FirstOf(es, p) \in es /\ FirstOf(es, p).path = p
         /\ \A f \in es : f.path = p => FirstOf(es, p).scope <= f.scope
<1> DEFINE T == {e \in es : e.path = p}
           m == [e \in T |-> e.scope]
<1>1. T # {}
  BY DEF Paths
<1>2. m \in [T -> Nat]
  BY DEF Inventory, Entry, Scopes
<1>3. PICK e \in T : \A f \in T : m[e] <= m[f]
  <2> HIDE DEF T, m
  <2> QED BY <1>1, <1>2, LeastMeasure
<1>4. \E x \in es : x.path = p /\ \A f \in es : f.path = p => x.scope <= f.scope
  BY <1>3
<1> QED BY <1>4 DEF FirstOf

(* And one is the last. *)
LEMMA LastIsLast ==
  ASSUME NEW es, Inventory(es), NEW p \in Paths(es)
  PROVE  /\ LastOf(es, p) \in es /\ LastOf(es, p).path = p
         /\ \A f \in es : f.path = p => f.scope <= LastOf(es, p).scope
<1> DEFINE T == {e \in es : e.path = p}
           m == [e \in T |-> 4 - e.scope]
<1>1. T # {}
  BY DEF Paths
<1>2. \A e \in T : e.scope \in 1..4
  BY DEF Inventory, Entry, Scopes
<1>3. m \in [T -> Nat]
  BY <1>2
<1>4. PICK e \in T : \A f \in T : m[e] <= m[f]
  <2> HIDE DEF T, m
  <2> QED BY <1>1, <1>3, LeastMeasure
<1>5. \E x \in es : x.path = p /\ \A f \in es : f.path = p => f.scope <= x.scope
  <2>1. ASSUME NEW f \in T PROVE f.scope <= e.scope
    <3>1. m[e] = 4 - e.scope /\ m[f] = 4 - f.scope /\ m[e] <= m[f]
      BY <1>4
    <3> QED BY <1>2, <3>1
  <2> QED BY <2>1
<1> QED BY <1>5 DEF LastOf

-------------------------------------------------------------------------------
(* sliceSize.  The order of a group's entries is total.                    *)
LEMMA BeforeIsTotal ==
  ASSUME PlanConstants, NEW items, Inventory(items),
         NEW e \in items, NEW f \in items, NEW g \in items
  PROVE  /\ ~Before(e, e)
         /\ e = f \/ Before(e, f) \/ Before(f, e)
         /\ Before(e, f) /\ Before(f, g) => Before(e, g)
<1>1. /\ e.path \in Nat /\ f.path \in Nat /\ g.path \in Nat
      /\ e.scope \in Nat /\ f.scope \in Nat /\ g.scope \in Nat
  BY EntriesAreNumbered
<1> QED BY <1>1 DEF Before, Inventory

InLimits(items) ==
  /\ Cardinality(Paths(items)) <= MaxFiles
  /\ \A p \in Paths(items) :
       LET before == {e \in items : e.path < p}
       IN  before # {} => Fits(before, FirstOf(items, p))

(* Nothing comes before the first entry, so a slice has at least that. *)
LEMMA SliceIsSome ==
  ASSUME PlanConstants, NEW items, Inventory(items), items # {}
  PROVE  Slice(items) # {}
<1>1. PICK p \in Paths(items) : \A q \in Paths(items) : p <= q
  <2>1. Paths(items) # {} /\ Paths(items) \in SUBSET Nat
    BY InventoryIsFinite, EntriesAreNumbered
  <2> QED BY <2>1, LeastOfSome
<1> DEFINE e == FirstOf(items, p)
<1>2. e \in items /\ e.path = p /\ \A f \in items : f.path = p => e.scope <= f.scope
  BY FirstIsFirst
<1> HIDE DEF e
<1>3. ASSUME NEW f \in items PROVE ~Before(f, e)
  <2>1. p <= f.path
    BY <1>1 DEF Paths
  <2>2. f.path \in Nat /\ p \in Nat /\ f.scope \in Nat /\ e.scope \in Nat
    BY <1>2, EntriesAreNumbered
  <2> QED BY <1>2, <2>1, <2>2 DEF Before
<1>4. Earlier(items, e) = {}
  BY <1>3 DEF Earlier
<1>5. e \in Slice(items)
  BY <1>2, <1>3, <1>4 DEF Slice, Breaks
<1> QED BY <1>5

(* A slice has the entries before any of its own, and ends between paths. *)
LEMMA SliceIsPrefix ==
  ASSUME PlanConstants, NEW items, Inventory(items)
  PROVE  /\ Slice(items) \subseteq items
         /\ \A e \in Slice(items), f \in items : Before(f, e) => f \in Slice(items)
         /\ \A e \in Slice(items) : ~Breaks(Earlier(items, e), e)
         /\ \A e \in Slice(items), f \in items : e.path = f.path => f \in Slice(items)
<1>1. Slice(items) \subseteq items /\ \A e \in Slice(items) : ~Breaks(Earlier(items, e), e)
  BY DEF Slice
<1>2. ASSUME NEW e \in Slice(items), NEW f \in items, Before(f, e) PROVE f \in Slice(items)
  <2> SUFFICES ASSUME NEW g \in items, g = f \/ Before(g, f)
               PROVE  ~Breaks(Earlier(items, g), g)
    BY DEF Slice
  <2>1. Before(g, e)
    BY <1>1, <1>2, BeforeIsTotal
  <2> QED BY <2>1 DEF Slice
<1>3. ASSUME NEW e \in Slice(items), NEW f \in items, e.path = f.path PROVE f \in Slice(items)
  <2> SUFFICES ASSUME NEW g \in items, g = f \/ Before(g, f), Breaks(Earlier(items, g), g)
               PROVE  FALSE
    BY DEF Slice
  <2>1. Before(e, g)
    <3>1. ~(g = e \/ Before(g, e))
      BY DEF Slice
    <3> QED BY <1>1, <3>1, BeforeIsTotal
  <2>2. e.path = g.path
    <3>1. e \in items
      BY <1>1
    <3>2. e.path \in Nat /\ f.path \in Nat /\ g.path \in Nat
      BY <3>1, EntriesAreNumbered
    <3> QED BY <1>3, <2>1, <3>2 DEF Before
  <2>3. g.path \in Paths(Earlier(items, g))
    BY <1>1, <2>1, <2>2 DEF Paths, Earlier
  <2> QED BY <2>3 DEF Breaks
<1> QED BY <1>1, <1>2, <1>3

(* A slice is within the limits, since it goes on to none of its paths     *)
(* that would break it.                                                    *)
LEMMA SliceInLimits ==
  ASSUME PlanConstants, NEW items, Inventory(items), items # {}
  PROVE  InLimits(Slice(items))
<1> DEFINE S == Slice(items)
           before(p) == {e \in S : e.path < p}
<1>1. /\ S \subseteq items
      /\ \A e \in S, f \in items : Before(f, e) => f \in S
      /\ \A e \in S : ~Breaks(Earlier(items, e), e)
  BY SliceIsPrefix
<1>2. S # {} /\ Inventory(S)
  BY <1>1, SliceIsSome DEF Inventory
<1> HIDE DEF S
<1>3. /\ IsFiniteSet(S) /\ IsFiniteSet(Paths(S)) /\ Paths(S) \in SUBSET Nat
      /\ \A e \in S : e.path \in Nat /\ e.scope \in Nat
  <2>1. IsFiniteSet(S) /\ IsFiniteSet(Paths(S)) /\ Paths(S) \in SUBSET Nat
    BY <1>2, InventoryIsFinite
  <2>2. \A e \in S : e.path \in Nat /\ e.scope \in Nat
    BY <1>2, EntriesAreNumbered
  <2> QED BY <2>1, <2>2
<1>4. ASSUME NEW p \in Paths(S), before(p) # {}
      PROVE  Fits(before(p), FirstOf(S, p)) /\ Cardinality(Paths(before(p))) < MaxFiles
  <2>1. PICK e \in S : e = FirstOf(S, p) /\ e.path = p /\ \A f \in S : f.path = p => e.scope <= f.scope
    BY <1>2, FirstIsFirst
  <2>2. Earlier(items, e) = before(p)
    <3>1. ASSUME NEW f \in Earlier(items, e) PROVE f \in before(p)
      <4>1. f \in S /\ Before(f, e)
        BY <1>1 DEF Earlier
      <4> QED BY <1>3, <2>1, <4>1 DEF Before
    <3>2. ASSUME NEW f \in before(p) PROVE f \in Earlier(items, e)
      BY <1>1, <2>1 DEF Earlier, Before
    <3> QED BY <3>1, <3>2
  <2>3. p \notin Paths(before(p))
    BY <1>3 DEF Paths
  <2>4. ~Breaks(before(p), e)
    BY <1>1, <2>2
  <2>5. Fits(before(p), e) /\ ~(Cardinality(Paths(before(p))) >= MaxFiles)
    BY <1>4, <2>1, <2>3, <2>4 DEF Breaks
  <2>6. Cardinality(Paths(before(p))) \in Nat /\ MaxFiles \in Nat
    <3>1. Paths(before(p)) \subseteq Paths(S)
      BY DEF Paths
    <3>2. IsFiniteSet(Paths(before(p)))
      BY <1>3, <3>1, FS_Subset
    <3> QED BY <3>2, FS_CardinalityType DEF PlanConstants
  <2> QED BY <2>1, <2>5, <2>6
<1>5. Cardinality(Paths(S)) <= MaxFiles
  <2>1. PICK p \in Paths(S) : \A q \in Paths(S) : q <= p
    <3>1. Paths(S) # {}
      BY <1>2, EntriesAreNumbered
    <3> QED BY <1>3, <3>1, GreatestOfSome
  <2>2. Paths(S) = Paths(before(p)) \cup {p}
    <3>1. ASSUME NEW q \in Paths(S) PROVE q \in Paths(before(p)) \/ q = p
      <4>1. PICK e \in S : q = e.path
        BY DEF Paths
      <4>2. q <= p /\ q \in Nat /\ p \in Nat
        BY <1>3, <2>1
      <4> QED BY <4>1, <4>2 DEF Paths
    <3>2. Paths(before(p)) \subseteq Paths(S)
      BY DEF Paths
    <3> QED BY <3>1, <3>2
  <2>3. p \notin Paths(before(p))
    BY <1>3 DEF Paths
  <2> DEFINE B == Paths(before(p))
  <2>4. IsFiniteSet(B) /\ Cardinality(B) \in Nat
    BY <1>3, <2>2, FS_Subset, FS_CardinalityType
  <2>5. Cardinality(Paths(S)) = Cardinality(B) + 1
    BY <2>2, <2>3, <2>4, FS_AddElement
  <2>6. MaxFiles \in Nat /\ MaxFiles >= 1
    BY DEF PlanConstants
  <2>7. CASE before(p) = {}
    <3>1. B = {}
      BY <2>7 DEF Paths
    <3>2. Cardinality(B) = 0
      BY <3>1, FS_EmptySet
    <3> QED BY <2>5, <2>6, <3>2
  <2>8. CASE before(p) # {}
    BY <1>4, <2>4, <2>5, <2>6, <2>8
  <2> QED BY <2>7, <2>8
<1>6. InLimits(S)
  BY <1>4, <1>5 DEF InLimits
<1> QED BY <1>6 DEF S

-------------------------------------------------------------------------------
(* planner.Build: what is cut off and what is left.                        *)
Lists(q, S) ==
  \E n \in Nat : q \in [1..n -> S] /\ \A x \in S : \E i \in 1..n : q[i] = x

LEMMA SetToSeqLists ==
  ASSUME NEW S, IsFiniteSet(S)
  PROVE  Lists(SetToSeq(S), S)
<1> DEFINE n == Cardinality(S)
<1>1. n \in Nat /\ ExistsBijection(1..n, S)
  BY FS_CardinalityType
<1> HIDE DEF n
<1>2. \E f \in [1..n -> S] : IsInjective(f)
  BY <1>1 DEF ExistsBijection, Bijection, Injection
<1>3. SetToSeq(S) \in Injection(1..n, S)
  BY <1>2 DEF SetToSeq, n, Injection
<1>4. Cardinality(1..n) = n
  <2>1. 1 \in Int /\ n \in Int /\ (1 > n => n = 0) /\ n - 1 + 1 = n
    BY <1>1
  <2>2. Cardinality(1..n) = IF 1 > n THEN 0 ELSE n - 1 + 1
    BY <2>1, FS_Interval
  <2> QED BY <2>1, <2>2
<1>5. SetToSeq(S) \in Surjection(1..n, S)
  BY <1>3, <1>4, FS_Injection DEF n
<1> QED BY <1>1, <1>3, <1>5 DEF Injection, Surjection, Lists

(* The tasks' entries: parts of what is left, each of paths of its own.    *)
Parted(left, q) ==
  /\ q \in Seq(SUBSET left)
  /\ \A e \in left : \E i \in DOMAIN q : e \in q[i]
  /\ \A i \in DOMAIN q : q[i] # {} /\ InLimits(q[i])
  /\ \A i, j \in DOMAIN q : i # j => Paths(q[i]) \cap Paths(q[j]) = {}

LEMMA CutOff ==
  ASSUME NEW left, NEW s \in SUBSET left, s # {}, InLimits(s),
         Paths(s) \cap Paths(left \ s) = {},
         NEW q, Parted(left \ s, q)
  PROVE  Parted(left, <<s>> \o q)
<1> DEFINE r == <<s>> \o q
<1>1. /\ q \in Seq(SUBSET (left \ s)) /\ q \in Seq(SUBSET left) /\ Len(q) \in Nat
      /\ DOMAIN q = 1..Len(q)
  <2>1. q \in Seq(SUBSET (left \ s))
    BY DEF Parted
  <2>2. DOMAIN q = 1..Len(q) /\ Len(q) \in Nat /\ \A i \in 1..Len(q) : q[i] \in SUBSET left
    BY <2>1
  <2> QED BY <2>1, <2>2
<1>2. /\ r \in Seq(SUBSET left) /\ DOMAIN r = 1..(Len(q) + 1)
      /\ r[1] = s /\ \A i \in 1..Len(q) : r[i + 1] = q[i]
  BY <1>1
<1> HIDE DEF r
<1>3. ASSUME NEW i \in DOMAIN r
      PROVE  \/ i = 1 /\ r[i] = s
             \/ i - 1 \in DOMAIN q /\ r[i] = q[i - 1]
  <2>1. CASE i = 1
    BY <1>2, <2>1
  <2>2. CASE i # 1
    <3>1. i - 1 \in 1..Len(q) /\ (i - 1) + 1 = i
      BY <1>1, <1>2, <2>2
    <3>2. r[(i - 1) + 1] = q[i - 1]
      BY <1>2, <3>1
    <3> QED BY <1>1, <3>1, <3>2
  <2> QED BY <2>1, <2>2
<1>4. ASSUME NEW e \in left PROVE \E i \in DOMAIN r : e \in r[i]
  <2>1. CASE e \in s
    <3>1. 1 \in DOMAIN r
      BY <1>1, <1>2
    <3> QED BY <1>2, <2>1, <3>1
  <2>2. CASE e \notin s
    <3>1. PICK i \in DOMAIN q : e \in q[i]
      BY <2>2 DEF Parted
    <3>2. i + 1 \in DOMAIN r /\ r[i + 1] = q[i]
      BY <1>1, <1>2
    <3> QED BY <3>1, <3>2
  <2> QED BY <2>1, <2>2
<1>5. ASSUME NEW i \in DOMAIN r PROVE r[i] # {} /\ InLimits(r[i])
  BY <1>3 DEF Parted
<1>6. ASSUME NEW i \in DOMAIN q PROVE Paths(q[i]) \subseteq Paths(left \ s)
  <2>1. q[i] \subseteq left \ s
    BY <1>1
  <2> QED BY <2>1 DEF Paths
<1>7. ASSUME NEW i \in DOMAIN r, NEW j \in DOMAIN r, i # j
      PROVE  Paths(r[i]) \cap Paths(r[j]) = {}
  <2>1. i \in Nat /\ j \in Nat
    BY <1>2
  <2>2. CASE i = 1
    <3>1. j - 1 \in DOMAIN q /\ r[j] = q[j - 1]
      BY <1>3, <1>7, <2>2
    <3>2. r[i] = s
      BY <1>2, <2>2
    <3>3. Paths(q[j - 1]) \subseteq Paths(left \ s)
      BY <1>6, <3>1
    <3> QED BY <3>1, <3>2, <3>3
  <2>3. CASE j = 1
    <3>1. i - 1 \in DOMAIN q /\ r[i] = q[i - 1]
      BY <1>3, <1>7, <2>3
    <3>2. r[j] = s
      BY <1>2, <2>3
    <3>3. Paths(q[i - 1]) \subseteq Paths(left \ s)
      BY <1>6, <3>1
    <3> QED BY <3>1, <3>2, <3>3
  <2>4. CASE i # 1 /\ j # 1
    <3>1. /\ i - 1 \in DOMAIN q /\ r[i] = q[i - 1]
          /\ j - 1 \in DOMAIN q /\ r[j] = q[j - 1]
      BY <1>3, <2>4
    <3>2. i - 1 # j - 1
      BY <1>7, <2>1
    <3> QED BY <3>1, <3>2 DEF Parted
  <2> QED BY <2>2, <2>3, <2>4
<1> QED BY <1>2, <1>4, <1>5, <1>7 DEF Parted, r

(* The groups, cut one after the other, part the entries of a change. *)
LEMMA SlicesPart ==
  ASSUME PlanConstants, NEW es, Inventory(es)
  PROVE  Parted(es, Slices(es))
<1> DEFINE keys == SetToSeq({Key(es, p) : p \in Paths(es)})
           first(left) == Min({i \in DOMAIN keys : Group(es, keys[i]) \cap left # {}})
           slice(left) == Slice(Group(es, keys[first(left)]) \cap left)
           S == SUBSET es
           V == Seq(SUBSET es)
           m == [left \in S |-> Cardinality(left)]
           D == [f \in [S -> V] |-> [left \in S |->
                   IF left = {} THEN <<>> ELSE <<slice(left)>> \o f[left \ slice(left)]]]
           cut == CHOOSE f : f = [left \in S |->
                   IF left = {} THEN <<>> ELSE <<slice(left)>> \o f[left \ slice(left)]]
<1>1. DOMAIN keys \in SUBSET Nat /\ \A p \in Paths(es) : \E i \in DOMAIN keys : keys[i] = Key(es, p)
  <2> DEFINE T == {Key(es, p) : p \in Paths(es)}
  <2>1. IsFiniteSet(T)
    <3> DEFINE f == [p \in Paths(es) |-> Key(es, p)]
    <3>1. f \in Surjection(Paths(es), T)
      BY DEF Surjection
    <3>2. IsFiniteSet(Paths(es))
      BY InventoryIsFinite
    <3> HIDE DEF f, T
    <3> QED BY <3>1, <3>2, FS_Surjection
  <2>2. \A p \in Paths(es) : Key(es, p) \in T
    OBVIOUS
  <2>3. keys = SetToSeq(T)
    OBVIOUS
  <2> HIDE DEF T, keys
  <2>4. PICK n \in Nat : keys \in [1..n -> T] /\ \A x \in T : \E i \in 1..n : keys[i] = x
    <3>1. Lists(keys, T)
      BY <2>1, <2>3, SetToSeqLists
    <3> QED BY <3>1 DEF Lists
  <2> QED BY <2>2, <2>4
<1> HIDE DEF keys
<1>2. ASSUME NEW left \in S, left # {}
      PROVE  /\ slice(left) \in S /\ slice(left) \subseteq left /\ slice(left) # {}
             /\ InLimits(slice(left))
             /\ Paths(slice(left)) \cap Paths(left \ slice(left)) = {}
  <2> DEFINE I == {i \in DOMAIN keys : Group(es, keys[i]) \cap left # {}}
  <2>1. I # {}
    <3>1. PICK e \in left : e \in es /\ e.path \in Paths(es)
      BY <1>2 DEF Paths
    <3>2. PICK i \in DOMAIN keys : keys[i] = Key(es, e.path)
      BY <1>1, <3>1
    <3>3. e \in Group(es, keys[i])
      BY <3>1, <3>2 DEF Group
    <3> QED BY <3>2, <3>3
  <2>2. first(left) \in I
    <3>1. I \in SUBSET Nat
      BY <1>1
    <3> HIDE DEF I
    <3>2. Min(I) \in I
      BY <2>1, <3>1, LeastOfSome DEF Min
    <3> QED BY <3>2 DEF I
  <2> DEFINE items == Group(es, keys[first(left)]) \cap left
  <2>3. items # {} /\ items \subseteq left
    BY <2>2
  <2>4. Inventory(items)
    BY <2>3 DEF Inventory
  <2>5. ASSUME NEW e \in items, NEW f \in left, e.path = f.path PROVE f \in items
    BY <2>5 DEF Group
  <2>6. slice(left) = Slice(items)
    OBVIOUS
  <2> HIDE DEF items, slice, first
  <2>7. /\ Slice(items) \subseteq items /\ Slice(items) # {} /\ InLimits(Slice(items))
        /\ \A e \in Slice(items), f \in items : e.path = f.path => f \in Slice(items)
    BY <2>3, <2>4, SliceIsSome, SliceIsPrefix, SliceInLimits
  <2>8. \A e \in Slice(items), f \in left \ Slice(items) : e.path # f.path
    BY <2>5, <2>7
  <2> QED BY <2>3, <2>6, <2>7, <2>8 DEF Paths
<1> HIDE DEF slice
<1>3. ASSUME NEW left \in S, left # {}
      PROVE  left \ slice(left) \in S /\ m[left \ slice(left)] < m[left]
  <2> DEFINE rest == left \ slice(left)
  <2>1. rest \in S /\ rest \subseteq left /\ rest # left
    <3>1. slice(left) \subseteq left /\ slice(left) # {}
      BY <1>2, <1>3
    <3> QED BY <3>1
  <2>2. IsFiniteSet(left)
    BY InventoryIsFinite, FS_Subset
  <2> HIDE DEF rest
  <2>3. Cardinality(rest) <= Cardinality(left) /\ Cardinality(rest) # Cardinality(left)
    BY <2>1, <2>2, FS_Subset
  <2>4. Cardinality(rest) \in Nat /\ Cardinality(left) \in Nat
    BY <2>1, <2>2, FS_Subset, FS_CardinalityType
  <2>5. m[rest] = Cardinality(rest) /\ m[left] = Cardinality(left)
    BY <2>1
  <2> QED BY <2>1, <2>3, <2>4, <2>5 DEF rest
<1>4. m \in [S -> Nat]
  BY InventoryIsFinite, FS_Subset, FS_CardinalityType
<1>5. D \in [[S -> V] -> [S -> V]]
  <2> SUFFICES ASSUME NEW f \in [S -> V], NEW left \in S, left # {}
               PROVE  <<slice(left)>> \o f[left \ slice(left)] \in V
    <3> HIDE DEF S
    <3>1. <<>> \in V
      OBVIOUS
    <3> QED BY <3>1
  <2>1. slice(left) \in SUBSET es
    BY <1>2
  <2>2. left \ slice(left) \in S
    BY <1>3
  <2>3. f[left \ slice(left)] \in Seq(SUBSET es)
    BY <2>2
  <2> QED BY <2>1, <2>3
<1>6. DependsOnSmaller(S, V, m, D)
  BY <1>3 DEF DependsOnSmaller
<1>7. PICK f \in [S -> V] : f = D[f]
  <2>1. V # {}
    <3>1. <<>> \in Seq(SUBSET es)
      OBVIOUS
    <3> QED BY <3>1
  <2> HIDE DEF S, V, m, D
  <2>2. HasSolution(S, V, D)
    BY <1>4, <1>5, <1>6, <2>1, SolutionExists
  <2> QED BY <2>2 DEF HasSolution
<1>8. cut = [left \in S |->
               IF left = {} THEN <<>> ELSE <<slice(left)>> \o cut[left \ slice(left)]]
  BY <1>7
<1> HIDE DEF cut, D
<1> DEFINE T == {left \in S : ~Parted(left, cut[left])}
<1>9. T = {}
  <2> SUFFICES ASSUME T # {} PROVE FALSE
    OBVIOUS
  <2>1. PICK left \in T : \A l \in T : m[left] <= m[l]
    <3>1. T \in SUBSET S
      OBVIOUS
    <3> HIDE DEF T, S, m
    <3> QED BY <1>4, <3>1, LeastMeasure
  <2>2. CASE left = {}
    <3>1. cut[left] = <<>>
      BY <1>8, <2>2
    <3>2. <<>> \in Seq(SUBSET {}) /\ DOMAIN <<>> = {}
      OBVIOUS
    <3>3. Parted({}, <<>>)
      BY <3>2 DEF Parted
    <3> QED BY <2>2, <3>1, <3>3
  <2>3. CASE left # {}
    <3> DEFINE rest == left \ slice(left)
    <3>1. rest \in S /\ m[rest] < m[left] /\ m[rest] \in Nat /\ m[left] \in Nat
      BY <1>3, <1>4, <2>3
    <3>2. Parted(rest, cut[rest])
      <4>1. ~(m[left] <= m[rest])
        BY <3>1
      <4> QED BY <2>1, <3>1, <4>1
    <3>3. cut[left] = <<slice(left)>> \o cut[rest]
      BY <1>8, <2>3
    <3>4. PICK s \in SUBSET left : /\ s = slice(left) /\ s # {} /\ InLimits(s)
                                    /\ Paths(s) \cap Paths(left \ s) = {}
      BY <1>2, <2>3
    <3>5. PICK q : q = cut[rest] /\ Parted(left \ s, q)
      BY <3>2, <3>4
    <3>6. Parted(left, <<s>> \o q)
      BY <3>4, <3>5, CutOff
    <3> QED BY <3>3, <3>4, <3>5, <3>6
  <2> QED BY <2>2, <2>3
<1>10. Parted(es, cut[es])
  BY <1>9
<1> QED BY <1>10 DEF Slices, cut, slice, first, keys, S

(* risk.Assess: every path has a level. *)
LEMMA LevelsAreLevels ==
  ASSUME PlanConstants, names \in Names, policy \in Policies, NEW es, NEW p \in Path
  PROVE  LevelOf(es, p) \in Level
<1>1. /\ names[p].signal \in Signal /\ names[p].types \in SUBSET Type
      /\ policy[p] \in Level \cup {NoRule}
  BY DEF PlanConstants
<1>2. \A s \in Signal : SignalLevel[s] \in Level
  BY DEF Signal, SignalLevel, Level
<1>3. ASSUME names[p].types # {} PROVE TypeLevel[Min(names[p].types)] \in Level
  <2>1. names[p].types \in SUBSET Nat
    BY <1>1 DEF PlanConstants
  <2>2. Min(names[p].types) \in names[p].types
    BY <1>3, <2>1, LeastOfSome DEF Min
  <2>3. Min(names[p].types) \in Type
    BY <1>1, <2>2
  <2> QED BY <2>3 DEF PlanConstants
<1>4. 3 \in Level
  BY DEF Level
<1>5. Inferred(es, p) \in Level
  BY <1>1, <1>2, <1>3, <1>4 DEF Inferred
<1>6. ASSUME NEW a \in Level \cup {NoRule}, NEW b \in Level PROVE Max({a, b}) \in Level
  <2>1. a \in Int /\ b \in Int /\ b >= 0 /\ (a \in Level \/ a = -1)
    BY DEF Level, NoRule
  <2>2. \E x \in {a, b} : \A y \in {a, b} : x >= y
    BY <2>1
  <2>3. Max({a, b}) \in {a, b} /\ Max({a, b}) >= b
    BY <2>2 DEF Max
  <2> QED BY <2>1, <2>3
<1> QED BY <1>1, <1>5, <1>6 DEF LevelOf

LEMMA HighestIsLevel ==
  ASSUME NEW L \in SUBSET Level, L # {}
  PROVE  Max(L) \in Level
<1>1. L \in SUBSET Nat
  BY DEF Level
<1>2. IsFiniteSet(L)
  <2>1. \A x \in L : x <= 4
    BY DEF Level
  <2> QED BY <1>1, <2>1, FS_BoundedSetOfNaturals
<1>3. PICK x \in L : \A y \in L : y <= x
  BY <1>1, <1>2, GreatestOfSome
<1>4. \A y \in L : x >= y
  BY <1>1, <1>3
<1>5. Max(L) \in L
  BY <1>4 DEF Max
<1> QED BY <1>5

(* makeTask *)
LEMMA TasksAreTasks ==
  ASSUME PlanConstants, names \in Names, policy \in Policies,
         NEW es, Inventory(es), NEW items \in SUBSET es, items # {}
  PROVE  MakeTask(es, items) \in Task
<1>1. \A p \in Paths(items) : p \in Path /\ LevelOf(es, p) \in Level /\ names[p].types \in SUBSET Type
  <2> SUFFICES ASSUME NEW e \in items
               PROVE  /\ e.path \in Path /\ LevelOf(es, e.path) \in Level
                      /\ names[e.path].types \in SUBSET Type
    BY DEF Paths
  <2>1. e.path \in Path
    BY DEF Inventory, Entry
  <2> QED BY <2>1, LevelsAreLevels DEF PlanConstants
<1>2. Max({LevelOf(es, p) : p \in Paths(items)}) \in Level
  <2> DEFINE L == {LevelOf(es, p) : p \in Paths(items)}
  <2>1. L \in SUBSET Level /\ L # {}
    BY <1>1 DEF Paths
  <2> HIDE DEF L
  <2>2. Max(L) \in Level
    BY <2>1, HighestIsLevel
  <2> QED BY <2>2 DEF L
<1>3. items \in SUBSET Entry
  BY DEF Inventory
<1>4. UNION {names[p].types : p \in Paths(items)} \in SUBSET Type
  BY <1>1
<1>5. \A level : (IF RequiresOwner(level) THEN 2 ELSE 1) \in 1..2
  OBVIOUS
<1> QED BY <1>2, <1>3, <1>4, <1>5 DEF MakeTask, Task

Share(tasks, i, j) == tasks[i].types \cap tasks[j].types # {}

(* What Build makes of a change. *)
Planned(es, tasks) ==
  /\ \E n \in Nat : DOMAIN tasks = 1..n
  /\ \A i \in DOMAIN tasks :
       /\ tasks[i] \in Task
       /\ tasks[i].entries \subseteq es /\ tasks[i].entries # {} /\ InLimits(tasks[i].entries)
       /\ Total(tasks[i].entries) > MaxPacketBytes => tasks[i].oversized
       /\ tasks[i].needs = {j \in 1..(i - 1) : Share(tasks, j, i)}
  /\ \A e \in es : \E i \in DOMAIN tasks : e \in tasks[i].entries
  /\ \A i, j \in DOMAIN tasks :
       i # j => Paths(tasks[i].entries) \cap Paths(tasks[j].entries) = {}

LEMMA BuildPlans ==
  ASSUME PlanConstants, names \in Names, policy \in Policies, NEW es, Inventory(es)
  PROVE  Planned(es, Build(es))
<1>1. PICK q \in Seq(SUBSET es) : q = Slices(es) /\ Parted(es, q)
  BY SlicesPart DEF Parted
<1> DEFINE made == [i \in DOMAIN q |-> MakeTask(es, q[i])]
           tasks == Build(es)
<1>2. ASSUME NEW i \in DOMAIN q
      PROVE  /\ q[i] \in SUBSET es /\ q[i] # {}
             /\ made[i] \in Task /\ made[i].entries = q[i]
             /\ Total(q[i]) > MaxPacketBytes => made[i].oversized
  <2>1. q[i] \in SUBSET es /\ q[i] # {}
    BY <1>1 DEF Parted
  <2>2. MakeTask(es, q[i]) \in Task
    BY <2>1, TasksAreTasks
  <2>3. /\ MakeTask(es, q[i]).entries = q[i]
        /\ Total(q[i]) > MaxPacketBytes => MakeTask(es, q[i]).oversized
    BY DEF MakeTask
  <2> QED BY <2>1, <2>2, <2>3
<1>3. tasks = Linked(made)
  BY <1>1 DEF Build
<1> HIDE DEF made, tasks
<1>4. DOMAIN made = DOMAIN q
  BY DEF made
<1>5. PICK n \in Nat : DOMAIN q = 1..n
  BY <1>1
<1>6. DOMAIN tasks = 1..n
  BY <1>3, <1>4, <1>5 DEF Linked
<1>7. ASSUME NEW i \in DOMAIN tasks
      PROVE  /\ tasks[i] \in Task /\ tasks[i].entries = q[i]
             /\ tasks[i].types = made[i].types
             /\ tasks[i].oversized = made[i].oversized
             /\ tasks[i].needs = {j \in 1..(i - 1) : made[j].types \cap made[i].types # {}}
  <2>1. i \in DOMAIN q /\ i \in DOMAIN made /\ made[i] \in Task
    BY <1>2, <1>4, <1>5, <1>6
  <2>2. tasks[i] = [made[i] EXCEPT !.needs =
                      {j \in 1..(i - 1) : made[j].types \cap made[i].types # {}}]
    BY <1>3, <2>1 DEF Linked
  <2>3. {j \in 1..(i - 1) : made[j].types \cap made[i].types # {}} \in SUBSET Nat
    OBVIOUS
  <2> DEFINE N == {j \in 1..(i - 1) : made[j].types \cap made[i].types # {}}
  <2> HIDE DEF N
  <2>4. N \in SUBSET Nat /\ tasks[i] = [made[i] EXCEPT !.needs = N]
    BY <2>2, <2>3 DEF N
  <2>5. /\ tasks[i] \in Task /\ tasks[i].entries = made[i].entries
        /\ tasks[i].types = made[i].types /\ tasks[i].oversized = made[i].oversized
        /\ tasks[i].needs = N
    BY <2>1, <2>4 DEF Task
  <2> QED BY <1>2, <2>1, <2>5 DEF N
<1>8. ASSUME NEW i \in DOMAIN tasks
      PROVE  tasks[i].needs = {j \in 1..(i - 1) : Share(tasks, j, i)}
  <2>1. \A j \in 1..(i - 1) : j \in DOMAIN tasks
    BY <1>6
  <2>2. \A j \in 1..(i - 1) :
          made[j].types \cap made[i].types = tasks[j].types \cap tasks[i].types
    BY <1>7, <2>1
  <2> QED BY <1>7, <2>2 DEF Share
<1>9. ASSUME NEW i \in DOMAIN tasks
      PROVE  /\ tasks[i].entries \subseteq es /\ tasks[i].entries # {}
             /\ InLimits(tasks[i].entries)
             /\ Total(tasks[i].entries) > MaxPacketBytes => tasks[i].oversized
  <2>1. i \in DOMAIN q /\ tasks[i].entries = q[i] /\ tasks[i].oversized = made[i].oversized
    BY <1>5, <1>6, <1>7
  <2>2. q[i] \subseteq es /\ q[i] # {} /\ (Total(q[i]) > MaxPacketBytes => made[i].oversized)
    BY <1>2, <2>1
  <2>3. InLimits(q[i])
    BY <1>1, <2>1 DEF Parted
  <2> QED BY <2>1, <2>2, <2>3
<1>10. ASSUME NEW e \in es PROVE \E i \in DOMAIN tasks : e \in tasks[i].entries
  <2>1. PICK i \in DOMAIN q : e \in q[i]
    BY <1>1 DEF Parted
  <2> QED BY <1>5, <1>6, <1>7, <2>1
<1>11. ASSUME NEW i \in DOMAIN tasks, NEW j \in DOMAIN tasks, i # j
       PROVE  Paths(tasks[i].entries) \cap Paths(tasks[j].entries) = {}
  BY <1>1, <1>5, <1>6, <1>7, <1>11 DEF Parted
<1>12. Planned(es, tasks)
  <2>1. \A i \in DOMAIN tasks : tasks[i] \in Task
    BY <1>7
  <2> QED BY <1>6, <1>8, <1>9, <1>10, <1>11, <2>1 DEF Planned
<1> QED BY <1>12 DEF tasks

-------------------------------------------------------------------------------
(* ComputeInvalidation.  The neighbours share a contract, either way.      *)
LEMMA NeighborsShare ==
  ASSUME NEW es, NEW tasks, Planned(es, tasks), NEW S \in SUBSET DOMAIN tasks
  PROVE  /\ Neighbors(tasks, S) \in SUBSET DOMAIN tasks /\ S \subseteq Neighbors(tasks, S)
         /\ \A i \in DOMAIN tasks :
              i \in Neighbors(tasks, S) <=> i \in S \/ \E j \in S : i # j /\ Share(tasks, i, j)
<1>1. PICK n \in Nat : DOMAIN tasks = 1..n
  BY DEF Planned
<1>2. \A i, j \in DOMAIN tasks : j \in tasks[i].needs <=> j < i /\ Share(tasks, i, j)
  <2> SUFFICES ASSUME NEW i \in DOMAIN tasks, NEW j \in DOMAIN tasks
               PROVE  j \in tasks[i].needs <=> j < i /\ Share(tasks, i, j)
    OBVIOUS
  <2>1. tasks[i].needs = {k \in 1..(i - 1) : Share(tasks, k, i)}
    BY DEF Planned
  <2>2. j \in 1..(i - 1) <=> j < i
    BY <1>1
  <2>3. Share(tasks, i, j) <=> Share(tasks, j, i)
    BY DEF Share
  <2> QED BY <2>1, <2>2, <2>3
<1>3. \A i \in DOMAIN tasks : tasks[i].needs \subseteq DOMAIN tasks
  <2> SUFFICES ASSUME NEW i \in DOMAIN tasks PROVE tasks[i].needs \subseteq DOMAIN tasks
    OBVIOUS
  <2>1. tasks[i].needs \subseteq 1..(i - 1)
    BY DEF Planned
  <2>2. 1..(i - 1) \subseteq 1..n
    BY <1>1
  <2> QED BY <1>1, <2>1, <2>2
<1>4. \A i, j \in DOMAIN tasks : i # j <=> i < j \/ j < i
  BY <1>1
<1> DEFINE N == Neighbors(tasks, S)
<1>0. \A x : x \in N <=> \/ x \in S
                         \/ \E j \in S : x \in tasks[j].needs
                         \/ x \in DOMAIN tasks /\ \E j \in S : j \in tasks[x].needs
  BY DEF Neighbors
<1> HIDE DEF N
<1>5. N \in SUBSET DOMAIN tasks /\ S \subseteq N
  BY <1>0, <1>3
<1>6. ASSUME NEW i \in DOMAIN tasks
      PROVE  i \in N <=> i \in S \/ \E j \in S : i # j /\ Share(tasks, i, j)
  <2>1. i \in N <=> \/ i \in S
                    \/ \E j \in S : i \in tasks[j].needs
                    \/ \E j \in S : j \in tasks[i].needs
    BY <1>0
  <2>2. \A j \in S : i \in tasks[j].needs \/ j \in tasks[i].needs <=> i # j /\ Share(tasks, i, j)
    <3> SUFFICES ASSUME NEW j \in S
                 PROVE  i \in tasks[j].needs \/ j \in tasks[i].needs <=> i # j /\ Share(tasks, i, j)
      OBVIOUS
    <3>1. Share(tasks, i, j) <=> Share(tasks, j, i)
      BY DEF Share
    <3> QED BY <1>2, <1>4, <3>1
  <2> QED BY <2>1, <2>2
<1> QED BY <1>5, <1>6 DEF N

(* What holds the tasks of changed paths, and nobody outside shares with. *)
Closed(tasks, changed) ==
  {S \in SUBSET DOMAIN tasks :
     \A i \in DOMAIN tasks :
       \/ i \in S
       \/ /\ Paths(tasks[i].entries) \cap changed = {}
          /\ \A j \in S : tasks[i].types \cap tasks[j].types = {}}

LeastClosed(R, tasks, changed) ==
  R \in Closed(tasks, changed) /\ \A S \in Closed(tasks, changed) : R \subseteq S

(* The tasks to do again are the least closed set: the loop ends with one, *)
(* and the last look at the contracts adds nothing to it.                  *)
LEMMA ReloadIsLeast ==
  ASSUME NEW es, NEW tasks, Planned(es, tasks), NEW changed
  PROVE  LeastClosed(MustReload(tasks, changed, FALSE), tasks, changed)
<1> DEFINE U == DOMAIN tasks
           step == [S \in SUBSET U |-> Neighbors(tasks, S)]
           spread == CHOOSE f : f = [S \in SUBSET U |->
                       IF Neighbors(tasks, S) = S THEN S ELSE f[Neighbors(tasks, S)]]
           start == {i \in U : Paths(tasks[i].entries) \cap changed # {}}
<1>1. IsFiniteSet(U)
  <2>1. PICK n \in Nat : U = 1..n
    BY DEF Planned
  <2>2. 1 \in Int /\ n \in Int
    OBVIOUS
  <2>3. IsFiniteSet(1..n)
    BY <2>2, FS_Interval
  <2> QED BY <2>1, <2>3
<1>2. /\ step \in [SUBSET U -> SUBSET U] /\ Grows(step, U)
      /\ \A S \in SUBSET U : step[S] = Neighbors(tasks, S)
  BY NeighborsShare DEF Grows
<1> HIDE DEF step
<1>3. PICK f : IsLoop(f, U, step)
  <2>1. HasLoop(U, step)
    BY <1>1, <1>2, LoopExists
  <2> QED BY <2>1 DEF HasLoop
<1>4. f = [S \in SUBSET U |-> IF Neighbors(tasks, S) = S THEN S ELSE f[Neighbors(tasks, S)]]
  BY <1>2, <1>3 DEF IsLoop
<1>5. spread = [S \in SUBSET U |->
                  IF Neighbors(tasks, S) = S THEN S ELSE spread[Neighbors(tasks, S)]]
  BY <1>4
<1>6. IsLoop(spread, U, step)
  <2> HIDE DEF spread
  <2> QED BY <1>2, <1>5 DEF IsLoop
<1> HIDE DEF spread
<1>7. PICK R \in SUBSET U : R = spread[start] /\ Ends(step, U, start, R)
  <2>1. start \in SUBSET U
    OBVIOUS
  <2> HIDE DEF start, U
  <2>2. Ends(step, U, start, spread[start])
    BY <1>1, <1>2, <1>6, <2>1, LoopEnds
  <2> QED BY <2>2 DEF Ends
<1>8. \A i \in U, j \in R : Share(tasks, i, j) => i \in R
  <2>1. Neighbors(tasks, R) = R
    BY <1>2, <1>7 DEF Ends
  <2>2. \A i \in U : i \in R <=> i \in R \/ \E j \in R : i # j /\ Share(tasks, i, j)
    BY <2>1, NeighborsShare
  <2> QED BY <2>2
<1>9. R \in Closed(tasks, changed)
  <2> SUFFICES ASSUME NEW i \in U, i \notin R
               PROVE  /\ Paths(tasks[i].entries) \cap changed = {}
                      /\ \A j \in R : tasks[i].types \cap tasks[j].types = {}
    BY DEF Closed
  <2>1. i \notin start
    BY <1>7 DEF Ends
  <2> QED BY <1>8, <2>1 DEF Share
<1>10. ASSUME NEW S \in Closed(tasks, changed) PROVE R \subseteq S
  <2>1. S \in SUBSET U /\ start \subseteq S
    BY DEF Closed
  <2>2. \A i \in U, j \in S : Share(tasks, i, j) => i \in S
    BY DEF Closed, Share
  <2>3. ASSUME NEW Q \in SUBSET S PROVE step[Q] \subseteq S
    <3>1. Q \in SUBSET U /\ step[Q] = Neighbors(tasks, Q)
      BY <1>2, <2>1
    <3>2. /\ Neighbors(tasks, Q) \subseteq U
          /\ \A i \in U : i \in Neighbors(tasks, Q) <=>
               i \in Q \/ \E j \in Q : i # j /\ Share(tasks, i, j)
      BY <3>1, NeighborsShare
    <3> QED BY <2>2, <3>1, <3>2
  <2> QED BY <1>7, <2>1, <2>3 DEF Ends
<1>11. MustReload(tasks, changed, FALSE) =
         R \cup {i \in U : tasks[i].types \cap UNION {tasks[j].types : j \in R} # {}}
  BY <1>7 DEF MustReload, spread
<1>12. ASSUME NEW i \in U, tasks[i].types \cap UNION {tasks[j].types : j \in R} # {}
       PROVE  i \in R
  <2>1. PICK j \in R : tasks[i].types \cap tasks[j].types # {}
    BY <1>12
  <2> QED BY <1>8, <2>1 DEF Share
<1>13. MustReload(tasks, changed, FALSE) = R
  BY <1>11, <1>12
<1> QED BY <1>9, <1>10, <1>13 DEF LeastClosed

-------------------------------------------------------------------------------
(* What the last entry of a path tells of the file, in the index and in    *)
(* the worktree.                                                           *)
LEMMA LastEntryTells ==
  ASSUME PlanConstants, NEW t \in Tree, NEW p \in Paths(Entries(t))
  PROVE  LET l == LastOf(Entries(t), p)
         IN  /\ t[p]["work"] = l.current
             /\ t[p]["index"] = IF l.scope = 4 THEN Absent
                                ELSE IF l.scope = 3 THEN l.previous ELSE l.current
<1> DEFINE l == LastOf(Entries(t), p)
           file == t[p]
           entry == [s \in 1..4 |->
             CASE s = 1 -> [scope |-> 1, path |-> p, previous |-> file["base"], current |-> file["head"]]
               [] s = 2 -> [scope |-> 2, path |-> p, previous |-> file["head"], current |-> file["index"]]
               [] s = 3 -> [scope |-> 3, path |-> p, previous |-> file["index"], current |-> file["work"]]
               [] OTHER -> [scope |-> 4, path |-> p, previous |-> Absent, current |-> file["work"]]]
<1>1. p \in Path
  <2>1. Inventory(Entries(t))
    BY EntriesAreInventory
  <2>2. PICK e \in Entries(t) : e.path = p
    BY DEF Paths
  <2> QED BY <2>1, <2>2 DEF Inventory, Entry
<1>2. /\ l \in Entries(t) /\ l.path = p
      /\ \A f \in Entries(t) : f.path = p => f.scope <= l.scope
  BY EntriesAreInventory, LastIsLast
<1> HIDE DEF l
<1>3. \A e \in EntriesOf(p, file) : e \in Entries(t) /\ e.path = p /\ e.scope <= l.scope
  BY <1>1, <1>2 DEF Entries, EntriesOf
<1>4. l \in EntriesOf(p, file)
  <2>1. PICK q \in Path : l \in EntriesOf(q, t[q])
    BY <1>2 DEF Entries
  <2>2. q = p
    BY <1>2, <2>1 DEF EntriesOf
  <2> QED BY <2>1, <2>2
<1>5. file["index"] # Absent /\ file["index"] # file["work"] => l.scope >= 3
  <2> SUFFICES ASSUME file["index"] # Absent, file["index"] # file["work"] PROVE l.scope >= 3
    OBVIOUS
  <2>1. entry[3] \in EntriesOf(p, file) /\ entry[3].scope = 3
    BY DEF EntriesOf
  <2> QED BY <1>3, <1>4, <2>1 DEF EntriesOf
<1>6. file["index"] = Absent /\ file["work"] # Absent => l.scope >= 4
  <2> SUFFICES ASSUME file["index"] = Absent, file["work"] # Absent PROVE l.scope >= 4
    OBVIOUS
  <2>1. entry[4] \in EntriesOf(p, file) /\ entry[4].scope = 4
    BY DEF EntriesOf
  <2> QED BY <1>3, <1>4, <2>1 DEF EntriesOf
<1>7. file["head"] # file["index"] => l.scope >= 2
  <2> SUFFICES ASSUME file["head"] # file["index"] PROVE l.scope >= 2
    OBVIOUS
  <2>1. entry[2] \in EntriesOf(p, file) /\ entry[2].scope = 2
    BY DEF EntriesOf
  <2> QED BY <1>3, <1>4, <2>1 DEF EntriesOf
<1>8. \/ l.scope = 1 /\ l.current = file["head"]
      \/ l.scope = 2 /\ l.current = file["index"]
      \/ l.scope = 3 /\ l.previous = file["index"] /\ l.current = file["work"]
      \/ l.scope = 4 /\ file["index"] = Absent /\ l.current = file["work"]
  BY <1>4 DEF EntriesOf
<1>9. /\ file["work"] = l.current
      /\ file["index"] = IF l.scope = 4 THEN Absent
                         ELSE IF l.scope = 3 THEN l.previous ELSE l.current
  <2>1. CASE l.scope = 1
    BY <1>5, <1>6, <1>7, <1>8, <2>1
  <2>2. CASE l.scope = 2
    BY <1>5, <1>6, <1>8, <2>2
  <2>3. CASE l.scope = 3
    BY <1>8, <2>3
  <2>4. CASE l.scope = 4
    BY <1>8, <2>4
  <2> QED BY <1>8, <2>1, <2>2, <2>3, <2>4
<1> QED BY <1>9 DEF l

(* A path that has not changed is the same there. *)
LEMMA UnchangedIsSame ==
  ASSUME PlanConstants, NEW t \in Tree, NEW u \in Tree, NEW p \in Paths(Entries(t)),
         p \notin Changed(Entries(t), Entries(u)), NEW slot \in {"index", "work"}
  PROVE  u[p][slot] = t[p][slot]
<1>1. p \in Paths(Entries(u)) /\ LastOf(Entries(t), p) = LastOf(Entries(u), p)
  BY DEF Changed
<1>2. PICK l : /\ l = LastOf(Entries(t), p) /\ l = LastOf(Entries(u), p)
  BY <1>1
<1>3. /\ t[p]["work"] = l.current
      /\ t[p]["index"] = IF l.scope = 4 THEN Absent
                         ELSE IF l.scope = 3 THEN l.previous ELSE l.current
  BY <1>2, LastEntryTells
<1>4. /\ u[p]["work"] = l.current
      /\ u[p]["index"] = IF l.scope = 4 THEN Absent
                         ELSE IF l.scope = 3 THEN l.previous ELSE l.current
  BY <1>1, <1>2, LastEntryTells
<1> QED BY <1>3, <1>4

-------------------------------------------------------------------------------
(* The commands.                                                           *)
Sealed == [tree : Tree, policy : Policies]

TypeInv ==
  /\ names \in Names /\ policy \in Policies /\ tree \in Tree
  /\ seal \in Sealed \cup {None}
  /\ edits \in 0..MaxEdits

(* A plan is of the snapshot, whatever has become of the tree since. *)
PlanInv == plan # <<>> => seal \in Sealed /\ Planned(Entries(seal.tree), plan)

(* What a refresh took over is of the run before and of the snapshot of    *)
(* this one.                                                               *)
PriorInv ==
  prior # None =>
    /\ seal \in Sealed /\ prior.seal \in Sealed
    /\ Planned(Entries(prior.seal.tree), prior.plan)
    /\ prior.changed = Changed(Entries(prior.seal.tree), Entries(seal.tree))
    /\ prior.reload = MustReload(prior.plan, prior.changed, seal.policy # prior.seal.policy)

Inv == TypeInv /\ PlanInv /\ PriorInv

LEMMA SealIsSealed == TypeInv => Seal \in Sealed
  BY DEF TypeInv, Seal, Sealed

LEMMA SealedIsNotNone == \A s \in Sealed : s # None
  BY DEF Sealed, None

LEMMA InvInit == PlanConstants /\ Init => Inv
<1> SUFFICES ASSUME PlanConstants, Init PROVE Inv
  OBVIOUS
<1>1. TypeInv
  <2>1. tree \in Tree /\ 0 \in 0..MaxEdits
    BY DEF Init, PlanConstants
  <2> QED BY <2>1 DEF Init, TypeInv
<1>2. PlanInv /\ PriorInv
  BY DEF Init, PlanInv, PriorInv
<1> QED BY <1>1, <1>2 DEF Inv

LEMMA EditKeepsTypes ==
  ASSUME PlanConstants, TypeInv
  PROVE  /\ \A p \in Path, c \in Content \cup {Absent} : Write(p, c) => tree' \in Tree /\ policy' \in Policies
         /\ \A p \in Path : Add(p) => tree' \in Tree /\ policy' \in Policies
         /\ Commit \/ Uncommit => tree' \in Tree /\ policy' \in Policies
         /\ \A new \in Policies : SetPolicy(new) => tree' \in Tree /\ policy' \in Policies
<1>1. /\ tree \in [Path -> [Slot -> Content \cup {Absent}]] /\ policy \in Policies
      /\ "work" \in Slot /\ "index" \in Slot /\ "base" \in Slot /\ "head" \in Slot
  BY DEF TypeInv, Tree, Slot
<1>2. ASSUME NEW p \in Path, NEW c \in Content \cup {Absent}, Write(p, c)
      PROVE  tree' \in Tree /\ policy' \in Policies
  BY <1>1, <1>2 DEF Write, Tree
<1>3. ASSUME NEW p \in Path, Add(p) PROVE tree' \in Tree /\ policy' \in Policies
  BY <1>1, <1>3 DEF Add, Tree
<1>4. ASSUME Commit PROVE tree' \in Tree /\ policy' \in Policies
  BY <1>1, <1>4 DEF Commit, Tree
<1>5. ASSUME Uncommit PROVE tree' \in Tree /\ policy' \in Policies
  BY <1>1, <1>5 DEF Uncommit, Tree
<1>6. ASSUME NEW new \in Policies, SetPolicy(new) PROVE tree' \in Tree /\ policy' \in Policies
  BY <1>6 DEF SetPolicy, TypeInv
<1> QED BY <1>2, <1>3, <1>4, <1>5, <1>6

LEMMA InvNext == PlanConstants /\ Inv /\ [Next]_vars => Inv'
<1> SUFFICES ASSUME PlanConstants, Inv, [Next]_vars PROVE Inv'
  OBVIOUS
<1>0. TypeInv /\ PlanInv /\ PriorInv
  BY DEF Inv
<1>1. CASE Prepare
  <2>1. seal = None /\ seal' = Seal /\ UNCHANGED <<names, policy, tree, plan, prior, edits>>
    BY <1>1 DEF Prepare
  <2>2. plan = <<>> /\ prior = None
    BY <1>0, <2>1, SealedIsNotNone DEF PlanInv, PriorInv
  <2>3. TypeInv'
    BY <1>0, <2>1, SealIsSealed DEF TypeInv
  <2> QED BY <2>1, <2>2, <2>3 DEF Inv, PlanInv, PriorInv
<1>2. CASE PlanRun
  <2>1. /\ seal = Seal /\ plan' = Build(Entries(tree))
        /\ UNCHANGED <<names, policy, tree, seal, prior, edits>>
    BY <1>2 DEF PlanRun
  <2>2. TypeInv'
    BY <1>0, <2>1 DEF TypeInv
  <2>3. seal.tree = tree /\ seal \in Sealed
    BY <1>0, <2>1, SealIsSealed DEF Seal
  <2>4. Planned(Entries(tree), Build(Entries(tree)))
    BY <1>0, EntriesAreInventory, BuildPlans DEF TypeInv
  <2>5. PlanInv'
    BY <2>1, <2>3, <2>4 DEF PlanInv
  <2>6. PriorInv'
    BY <1>0, <2>1 DEF PriorInv
  <2> QED BY <2>2, <2>5, <2>6 DEF Inv
<1>3. CASE Refresh
  <2> DEFINE changed == Changed(Entries(seal.tree), Entries(tree))
  <2>1. /\ plan # <<>> /\ seal' = Seal /\ plan' = <<>>
        /\ prior' = [seal |-> seal, plan |-> plan, changed |-> changed,
                     reload |-> MustReload(plan, changed, policy # seal.policy)]
        /\ UNCHANGED <<names, policy, tree, edits>>
    BY <1>3 DEF Refresh
  <2>2. TypeInv'
    BY <1>0, <2>1, SealIsSealed DEF TypeInv
  <2>3. PlanInv'
    BY <2>1 DEF PlanInv
  <2>4. seal \in Sealed /\ Planned(Entries(seal.tree), plan)
    BY <1>0, <2>1 DEF PlanInv
  <2>5. seal' \in Sealed /\ seal'.tree = tree /\ seal'.policy = policy
    BY <1>0, <2>1, SealIsSealed DEF Seal
  <2>6. /\ prior'.seal = seal /\ prior'.plan = plan /\ prior'.changed = changed
        /\ prior'.reload = MustReload(plan, changed, policy # seal.policy)
    BY <2>1
  <2> HIDE DEF changed
  <2>7. prior'.changed = Changed(Entries(prior'.seal.tree), Entries(seal'.tree))
    BY <2>5, <2>6 DEF changed
  <2>8. prior'.reload = MustReload(prior'.plan, prior'.changed, seal'.policy # prior'.seal.policy)
    BY <2>5, <2>6
  <2>9. PriorInv'
    BY <2>4, <2>5, <2>6, <2>7, <2>8 DEF PriorInv
  <2> QED BY <2>2, <2>3, <2>9 DEF Inv
<1>4. ASSUME edits < MaxEdits, edits' = edits + 1, UNCHANGED <<names, seal, plan, prior>>,
             tree' \in Tree, policy' \in Policies
      PROVE  Inv'
  <2>1. UNCHANGED <<names, seal, plan, prior>>
    BY <1>4
  <2>2. edits' \in 0..MaxEdits
    BY <1>0, <1>4 DEF TypeInv, PlanConstants
  <2>3. TypeInv'
    BY <1>0, <1>4, <2>1, <2>2 DEF TypeInv
  <2> QED BY <1>0, <2>1, <2>3 DEF Inv, PlanInv, PriorInv
<1>5. CASE UNCHANGED vars
  BY <1>0, <1>5 DEF vars, Inv, TypeInv, PlanInv, PriorInv
<1>6. CASE \E p \in Path, c \in Content \cup {Absent} : Edit(Write(p, c))
  <2>1. PICK p \in Path, c \in Content \cup {Absent} : Edit(Write(p, c))
    BY <1>6
  <2>2. Write(p, c)
    BY <2>1 DEF Edit
  <2> QED BY <1>0, <1>4, <2>1, <2>2, EditKeepsTypes DEF Edit
<1>7. CASE \E p \in Path : Edit(Add(p))
  <2>1. PICK p \in Path : Edit(Add(p))
    BY <1>7
  <2>2. Add(p)
    BY <2>1 DEF Edit
  <2> QED BY <1>0, <1>4, <2>1, <2>2, EditKeepsTypes DEF Edit
<1>8. CASE Edit(Commit) \/ Edit(Uncommit)
  <2>1. Commit \/ Uncommit
    BY <1>8 DEF Edit
  <2> QED BY <1>0, <1>4, <1>8, <2>1, EditKeepsTypes DEF Edit
<1>9. CASE \E new \in Policies : Edit(SetPolicy(new))
  <2>1. PICK new \in Policies : Edit(SetPolicy(new))
    BY <1>9
  <2>2. SetPolicy(new)
    BY <2>1 DEF Edit
  <2> QED BY <1>0, <1>4, <2>1, <2>2, EditKeepsTypes DEF Edit
<1> QED BY <1>1, <1>2, <1>3, <1>5, <1>6, <1>7, <1>8, <1>9 DEF Next

-------------------------------------------------------------------------------
LEMMA InvTypes == PlanConstants /\ Inv => TypeOK
<1> SUFFICES ASSUME PlanConstants, Inv PROVE TypeOK
  OBVIOUS
<1>1. seal # None => seal.tree \in Tree /\ seal.policy \in Policies
  BY DEF Inv, TypeInv, Sealed
<1>2. \A i \in DOMAIN plan : plan[i] \in Task
  <2>1. plan = <<>> => DOMAIN plan = {}
    OBVIOUS
  <2> QED BY <2>1 DEF Inv, PlanInv, Planned
<1>3. ASSUME prior # None
      PROVE  prior.changed \subseteq Path /\ prior.reload \subseteq DOMAIN prior.plan
  <2>1. /\ seal \in Sealed /\ prior.seal \in Sealed
        /\ Planned(Entries(prior.seal.tree), prior.plan)
        /\ prior.changed = Changed(Entries(prior.seal.tree), Entries(seal.tree))
        /\ prior.reload = MustReload(prior.plan, prior.changed, seal.policy # prior.seal.policy)
    BY <1>3 DEF Inv, PriorInv
  <2>2. ASSUME NEW t \in Tree PROVE Paths(Entries(t)) \subseteq Path
    <3>1. Inventory(Entries(t))
      BY EntriesAreInventory
    <3>2. \A e \in Entries(t) : e.path \in Path
      BY <3>1 DEF Inventory, Entry
    <3> QED BY <3>2 DEF Paths
  <2>3. seal.tree \in Tree /\ prior.seal.tree \in Tree
    BY <2>1 DEF Sealed
  <2>4. prior.changed \subseteq Path
    BY <2>1, <2>2, <2>3 DEF Changed
  <2>5. MustReload(prior.plan, prior.changed, FALSE) \subseteq DOMAIN prior.plan
    <3>1. LeastClosed(MustReload(prior.plan, prior.changed, FALSE), prior.plan, prior.changed)
      BY <2>1, ReloadIsLeast
    <3> QED BY <3>1 DEF LeastClosed, Closed
  <2>6. MustReload(prior.plan, prior.changed, TRUE) = DOMAIN prior.plan
    BY DEF MustReload
  <2>7. (seal.policy # prior.seal.policy) \in BOOLEAN
    OBVIOUS
  <2> QED BY <2>1, <2>4, <2>5, <2>6, <2>7
<1>4. names \in Names /\ policy \in Policies /\ tree \in Tree /\ edits \in 0..MaxEdits
  BY DEF Inv, TypeInv
<1> QED BY <1>1, <1>2, <1>3, <1>4 DEF TypeOK

LEMMA InvCovers == Inv => PlanCoversChange
<1> SUFFICES ASSUME Inv, plan # <<>>
             PROVE  /\ UNION {plan[i].entries : i \in DOMAIN plan} = Entries(seal.tree)
                    /\ \A i \in DOMAIN plan : plan[i].entries # {}
                    /\ \A i, j \in DOMAIN plan :
                         i # j => Paths(plan[i].entries) \cap Paths(plan[j].entries) = {}
  BY DEF PlanCoversChange
<1>1. Planned(Entries(seal.tree), plan)
  BY DEF Inv, PlanInv
<1> DEFINE es == Entries(seal.tree)
<1> HIDE DEF es
<1>2. /\ \A i \in DOMAIN plan : plan[i].entries \subseteq es /\ plan[i].entries # {}
      /\ \A e \in es : \E i \in DOMAIN plan : e \in plan[i].entries
      /\ \A i, j \in DOMAIN plan :
           i # j => Paths(plan[i].entries) \cap Paths(plan[j].entries) = {}
  BY <1>1 DEF Planned, es
<1>3. UNION {plan[i].entries : i \in DOMAIN plan} = es
  BY <1>2
<1> QED BY <1>2, <1>3 DEF es

LEMMA InvLimits == Inv => WithinLimits
<1> SUFFICES ASSUME Inv, NEW i \in DOMAIN plan
             PROVE  /\ InLimits(plan[i].entries)
                    /\ Total(plan[i].entries) > MaxPacketBytes => plan[i].oversized
  BY DEF WithinLimits, InLimits
<1>1. plan # <<>>
  OBVIOUS
<1> QED BY <1>1 DEF Inv, PlanInv, Planned

LEMMA InvReload == Inv => ReloadIsClosed
<1> SUFFICES ASSUME Inv, prior # None
             PROVE  prior.reload =
                      IF seal.policy # prior.seal.policy THEN DOMAIN prior.plan
                      ELSE {i \in DOMAIN prior.plan :
                              \A S \in Closed(prior.plan, prior.changed) : i \in S}
  BY DEF ReloadIsClosed, Closed
<1>1. /\ Planned(Entries(prior.seal.tree), prior.plan)
      /\ prior.reload = MustReload(prior.plan, prior.changed, seal.policy # prior.seal.policy)
  BY DEF Inv, PriorInv
<1>2. MustReload(prior.plan, prior.changed, TRUE) = DOMAIN prior.plan
  BY DEF MustReload
<1>3. PICK R : /\ R = MustReload(prior.plan, prior.changed, FALSE)
               /\ LeastClosed(R, prior.plan, prior.changed)
  <2>1. LeastClosed(MustReload(prior.plan, prior.changed, FALSE), prior.plan, prior.changed)
    BY <1>1, ReloadIsLeast
  <2> QED BY <2>1
<1>4. R = {i \in DOMAIN prior.plan : \A S \in Closed(prior.plan, prior.changed) : i \in S}
  <2>1. R \subseteq DOMAIN prior.plan
    BY <1>3 DEF LeastClosed, Closed
  <2> QED BY <1>3, <2>1 DEF LeastClosed
<1>5. CASE seal.policy # prior.seal.policy
  BY <1>1, <1>2, <1>5
<1>6. CASE seal.policy = prior.seal.policy
  BY <1>1, <1>3, <1>4, <1>6
<1> QED BY <1>5, <1>6

LEMMA InvKept == PlanConstants /\ Inv => KeptIsUnchanged
<1> SUFFICES ASSUME PlanConstants, Inv, prior # None,
                    NEW i \in (DOMAIN prior.plan) \ prior.reload,
                    NEW e \in prior.plan[i].entries, NEW slot \in {"index", "work"}
             PROVE  seal.tree[e.path][slot] = prior.seal.tree[e.path][slot]
  BY DEF KeptIsUnchanged
<1>1. /\ seal \in Sealed /\ prior.seal \in Sealed
      /\ Planned(Entries(prior.seal.tree), prior.plan)
      /\ prior.changed = Changed(Entries(prior.seal.tree), Entries(seal.tree))
      /\ prior.reload = MustReload(prior.plan, prior.changed, seal.policy # prior.seal.policy)
  BY DEF Inv, PriorInv
<1>2. prior.reload = MustReload(prior.plan, prior.changed, FALSE)
  <2>1. seal.policy = prior.seal.policy
    BY <1>1 DEF MustReload
  <2> QED BY <1>1, <2>1
<1>3. Paths(prior.plan[i].entries) \cap prior.changed = {}
  <2>1. LeastClosed(MustReload(prior.plan, prior.changed, FALSE), prior.plan, prior.changed)
    BY <1>1, ReloadIsLeast
  <2>2. PICK R : R = prior.reload /\ R \in Closed(prior.plan, prior.changed)
    BY <1>2, <2>1 DEF LeastClosed
  <2>3. i \in DOMAIN prior.plan /\ i \notin R
    BY <2>2
  <2> QED BY <2>2, <2>3 DEF Closed
<1>4. e \in Entries(prior.seal.tree)
  BY <1>1 DEF Planned
<1>5. e.path \in Paths(Entries(prior.seal.tree)) /\ e.path \in Paths(prior.plan[i].entries)
  BY <1>4 DEF Paths
<1>6. seal.tree \in Tree /\ prior.seal.tree \in Tree
  BY <1>1 DEF Sealed
<1> QED BY <1>1, <1>3, <1>5, <1>6, UnchangedIsSame

-------------------------------------------------------------------------------
LEMMA InvAlways == Spec => []Inv
<1>1. PlanConstants
  BY PlanConstants
<1>2. PlanConstants /\ Init => Inv
  BY InvInit
<1>3. PlanConstants /\ Inv /\ [Next]_vars => Inv'
  BY InvNext
<1> QED BY <1>1, <1>2, <1>3, PTL DEF Spec

(* The variables keep their types. *)
THEOREM TypesAreKept == Spec => []TypeOK
<1>1. Inv => TypeOK
  BY InvTypes, PlanConstants
<1> QED BY <1>1, InvAlways, PTL

(* planner.Build: whatever the change, its contracts, the policy and the   *)
(* limits, the tasks of a plan hold each entry of the snapshot, and a path *)
(* belongs to exactly one of them.                                         *)
THEOREM PlansCoverChanges == Spec => []PlanCoversChange
  BY InvAlways, InvCovers, PTL

(* sliceSize: no task exceeds the limits but by what cannot be divided,    *)
(* and one that does is marked.                                            *)
THEOREM TasksAreWithinLimits == Spec => []WithinLimits
  BY InvAlways, InvLimits, PTL

(* ComputeInvalidation: however the tasks share contracts, the loop over   *)
(* their dependencies and the one look at the contracts reach the whole    *)
(* closure of the changed paths and nothing else.                          *)
THEOREM ReloadsAreClosed == Spec => []ReloadIsClosed
  BY InvAlways, InvReload, PTL

(* changedInventoryPaths: the last entry of a path is enough to tell that  *)
(* a kept task's files are the same in the index and in the worktree.      *)
THEOREM KeptTasksAreUnchanged == Spec => []KeptIsUnchanged
<1>1. Inv => KeptIsUnchanged
  BY InvKept, PlanConstants
<1> QED BY <1>1, InvAlways, PTL
===============================================================================
