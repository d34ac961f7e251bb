------------------------- MODULE CommandProviderProofs --------------------------
(* Proofs about CommandProvider, for any number of commands, executables,   *)
(* tasks and answers, and about the ProcessRunner that runs an executable.  *)
EXTENDS CommandProvider, ProcessRunner, FiniteSetTheorems, SequenceTheorems, TLAPS

(* A sequence is another one with an element put in after the first n.      *)
Inserted(a, s, r, n) ==
  /\ Len(a) = Len(s) + 1
  /\ \A i \in 1..n : a[i] = s[i]
  /\ a[n + 1] = r
  /\ \A i \in (n + 2)..(Len(s) + 1) : a[i] = s[i - 1]

(* AppendResult puts a result in, and leaves the order of the others.       *)
LEMMA AppendResultInserts ==
  ASSUME NEW S, NEW s \in Seq(S), NEW r \in S
  PROVE  /\ AppendResult(s, r) \in Seq(S)
         /\ \E n \in 0..Len(s) : Inserted(AppendResult(s, r), s, r, n)
<1> DEFINE earlier == {i \in DOMAIN s : Before(s[i], r)}
           n == Cardinality(earlier)
           front == SubSeq(s, 1, n)
           back == SubSeq(s, n + 1, Len(s))
           all == front \o <<r>> \o back
<1>1. n \in 0..Len(s)
  <2>1. IsFiniteSet(1..Len(s)) /\ Cardinality(1..Len(s)) = Len(s)
    <3> DEFINE l == Len(s)
    <3>1. l \in Nat
      OBVIOUS
    <3> HIDE DEF l
    <3>2. 1 \in Int /\ l \in Int /\ (1 > l => l = 0) /\ l - 1 + 1 = l
      BY <3>1
    <3>3. IsFiniteSet(1..l) /\ Cardinality(1..l) = IF 1 > l THEN 0 ELSE l - 1 + 1
      BY <3>2, FS_Interval
    <3> QED BY <3>2, <3>3 DEF l
  <2>2. earlier \subseteq 1..Len(s)
    OBVIOUS
  <2> QED BY <2>1, <2>2, FS_Subset, FS_CardinalityType
<1> HIDE DEF n
<1>2. front \in Seq(S) /\ Len(front) = n /\ \A i \in 1..n : front[i] = s[i]
  BY <1>1, SubSeqProperties
<1>3. /\ back \in Seq(S) /\ Len(back) = Len(s) - n
      /\ \A i \in 1..(Len(s) - n) : back[i] = s[n + i]
  BY <1>1, SubSeqProperties
<1>4. /\ all \in Seq(S) /\ Len(all) = Len(s) + 1
      /\ \A i \in 1..n : all[i] = s[i]
      /\ all[n + 1] = r
      /\ \A i \in (n + 2)..(Len(s) + 1) : all[i] = s[i - 1]
  <2> HIDE DEF front, back
  <2>1. <<r>> \in Seq(S) /\ Len(<<r>>) = 1 /\ <<r>>[1] = r
    OBVIOUS
  <2>2. /\ front \o <<r>> \in Seq(S) /\ Len(front \o <<r>>) = n + 1
        /\ \A i \in 1..(n + 1) :
             (front \o <<r>>)[i] = IF i <= n THEN front[i] ELSE <<r>>[i - n]
    BY <1>1, <1>2, <2>1, ConcatProperties
  <2> DEFINE mid == front \o <<r>>
  <2> HIDE DEF mid
  <2>3. /\ all \in Seq(S) /\ Len(all) = n + 1 + (Len(s) - n)
        /\ \A i \in 1..(n + 1 + (Len(s) - n)) :
             all[i] = IF i <= n + 1 THEN mid[i] ELSE back[i - (n + 1)]
    <3>1. mid \in Seq(S) /\ Len(mid) = n + 1
      BY <2>2 DEF mid
    <3>2. all = mid \o back
      BY DEF mid
    <3>3. /\ mid \o back \in Seq(S) /\ Len(mid \o back) = Len(mid) + Len(back)
          /\ \A i \in 1..(Len(mid) + Len(back)) :
               (mid \o back)[i] = IF i <= Len(mid) THEN mid[i] ELSE back[i - Len(mid)]
      BY <1>3, <3>1, ConcatProperties
    <3> HIDE DEF all
    <3> QED BY <1>3, <3>1, <3>2, <3>3
  <2>4. Len(s) \in Nat
    OBVIOUS
  <2> HIDE DEF all
  <2>5. \A i \in 1..n : all[i] = s[i]
    <3> SUFFICES ASSUME NEW i \in 1..n PROVE all[i] = s[i]
      OBVIOUS
    <3>1. i <= n + 1 /\ i \in 1..(n + 1) /\ i \in 1..(n + 1 + (Len(s) - n))
      BY <1>1, <2>4
    <3>2. all[i] = mid[i] /\ mid[i] = front[i]
      BY <1>1, <2>2, <2>3, <3>1 DEF mid
    <3> QED BY <1>2, <3>2
  <2>6. all[n + 1] = r
    BY <1>1, <2>1, <2>2, <2>3, <2>4 DEF mid
  <2>7. \A i \in (n + 2)..(Len(s) + 1) : all[i] = s[i - 1]
    <3> SUFFICES ASSUME NEW i \in (n + 2)..(Len(s) + 1) PROVE all[i] = s[i - 1]
      OBVIOUS
    <3>1. all[i] = back[i - (n + 1)] /\ i - (n + 1) \in 1..(Len(s) - n)
      BY <1>1, <2>3, <2>4
    <3>2. n + (i - (n + 1)) = i - 1
      BY <1>1, <2>4
    <3> QED BY <1>3, <3>1, <3>2
  <2>8. all \in Seq(S) /\ Len(all) = Len(s) + 1
    <3>1. n + 1 + (Len(s) - n) = Len(s) + 1
      BY <1>1, <2>4
    <3> QED BY <2>3, <3>1
  <2> QED BY <2>5, <2>6, <2>7, <2>8, Zenon
<1>5. AppendResult(s, r) = all
  BY DEF AppendResult, n
<1> HIDE DEF all
<1>6. Inserted(all, s, r, n)
  BY <1>4 DEF Inserted
<1> QED BY <1>1, <1>4, <1>5, <1>6

(* AppendResult keeps what is recorded, in its order, and adds the result.  *)
LEMMA AppendResultKeeps ==
  ASSUME NEW S, NEW s \in Seq(S), NEW r \in S
  PROVE  /\ AppendResult(s, r) \in Seq(S) /\ Len(AppendResult(s, r)) = Len(s) + 1
         /\ \A i \in DOMAIN s : \E j \in DOMAIN AppendResult(s, r) : AppendResult(s, r)[j] = s[i]
         /\ \E j \in DOMAIN AppendResult(s, r) : AppendResult(s, r)[j] = r
         /\ \A j \in DOMAIN AppendResult(s, r) :
              AppendResult(s, r)[j] = r \/ \E i \in DOMAIN s : AppendResult(s, r)[j] = s[i]
<1> DEFINE all == AppendResult(s, r)
<1>0. all \in Seq(S) /\ \E n \in 0..Len(s) : Inserted(all, s, r, n)
  BY AppendResultInserts
<1> HIDE DEF all
<1>1. PICK n \in 0..Len(s) :
        /\ all \in Seq(S) /\ Len(all) = Len(s) + 1
        /\ \A i \in 1..n : all[i] = s[i]
        /\ all[n + 1] = r
        /\ \A i \in (n + 2)..(Len(s) + 1) : all[i] = s[i - 1]
  BY <1>0 DEF Inserted
<1> HIDE DEF all
<1>6. \A i \in DOMAIN s : \E j \in DOMAIN all : all[j] = s[i]
  <2> SUFFICES ASSUME NEW i \in DOMAIN s PROVE \E j \in DOMAIN all : all[j] = s[i]
    OBVIOUS
  <2>1. CASE i <= n BY <1>1, <2>1
  <2>2. CASE i > n
    <3>1. i + 1 \in DOMAIN all /\ all[i + 1] = s[i]
      BY <1>1, <2>2
    <3> QED BY <3>1
  <2> QED BY <1>1, <2>1, <2>2
<1>7. \E j \in DOMAIN all : all[j] = r
  BY <1>1
<1>8. \A j \in DOMAIN all : all[j] = r \/ \E i \in DOMAIN s : all[j] = s[i]
  <2> SUFFICES ASSUME NEW j \in DOMAIN all, all[j] # r PROVE \E i \in DOMAIN s : all[j] = s[i]
    OBVIOUS
  <2>1. CASE j <= n BY <1>1, <2>1
  <2>2. CASE j > n + 1
    <3>1. j - 1 \in DOMAIN s /\ all[j] = s[j - 1]
      BY <1>1, <2>2
    <3> QED BY <3>1
  <2> QED BY <1>1, <2>1, <2>2
<1> QED BY <1>1, <1>6, <1>7, <1>8 DEF all

(* What a comparison says does not depend on the places of the results.     *)
LEMMA ComparisonOfSame ==
  ASSUME NEW f, NEW g, NEW b \in Bijection(DOMAIN f, DOMAIN g), IsFiniteSet(DOMAIN f),
         \A i \in DOMAIN f : f[i] = g[b[i]]
  PROVE  Compare(f) = Compare(g)
<1> DEFINE F == DOMAIN f
           G == DOMAIN g
           HavingF(print) == {i \in F : print \in Prints(f[i])}
           HavingG(print) == {i \in G : print \in Prints(g[i])}
           allF == UNION {Prints(f[i]) : i \in F}
           allG == UNION {Prints(g[i]) : i \in G}
           findF == UNION {f[i].findings : i \in F}
           findG == UNION {g[i].findings : i \in G}
           Variants(fs, print) == {finding.variant : finding \in {x \in fs : x.print = print}}
<1>1. /\ b \in [F -> G]
      /\ \A i, j \in F : b[i] = b[j] => i = j
      /\ \A k \in G : \E i \in F : b[i] = k
  BY DEF Bijection, Injection, Surjection, IsInjective
<1>2. Cardinality(F) = Cardinality(G)
  BY FS_Bijection DEF ExistsBijection
<1> HIDE DEF F, G
<1>3. \A i \in F : f[i] = g[b[i]]
  BY DEF F
<1>4. {f[i].pass : i \in F} = {g[i].pass : i \in G}
  BY <1>1, <1>3
<1>5. (\A i, j \in F : f[i].context = f[j].context => i = j)
        <=> (\A i, j \in G : g[i].context = g[j].context => i = j)
  BY <1>1, <1>3
<1>6. allF = allG
  <2>1. {Prints(f[i]) : i \in F} = {Prints(g[i]) : i \in G}
    BY <1>1, <1>3
  <2> QED BY <2>1
<1>7. findF = findG
  <2>1. {f[i].findings : i \in F} = {g[i].findings : i \in G}
    BY <1>1, <1>3
  <2> QED BY <2>1
<1>8. ASSUME NEW print PROVE (HavingF(print) = F) <=> (HavingG(print) = G)
  BY <1>1, <1>3
<1>9. ASSUME NEW print
      PROVE  (\E i \in F : HavingF(print) = {i}) <=> (\E i \in G : HavingG(print) = {i})
  <2>1. \A i \in F : b[i] \in G /\ (i \in HavingF(print) <=> b[i] \in HavingG(print))
    BY <1>1, <1>3
  <2>2. ASSUME NEW i \in F, HavingF(print) = {i} PROVE HavingG(print) = {b[i]}
    BY <1>1, <2>1, <2>2
  <2>3. ASSUME NEW k \in G, HavingG(print) = {k} PROVE \E i \in F : HavingF(print) = {i}
    <3>1. PICK i \in F : b[i] = k
      BY <1>1
    <3>2. HavingF(print) = {i}
      BY <1>1, <2>1, <2>3, <3>1
    <3> QED BY <3>2
  <2> QED BY <2>1, <2>2, <2>3
<1> HIDE DEF HavingF, HavingG, allF, allG, findF, findG
<1>10. {print \in allF : HavingF(print) = F} = {print \in allG : HavingG(print) = G}
  BY <1>6, <1>8
<1>11. {print \in allF : \E i \in F : HavingF(print) = {i}}
         = {print \in allG : \E i \in G : HavingG(print) = {i}}
  BY <1>6, <1>9
<1>12. {print \in allF : Cardinality(Variants(findF, print)) > 1}
         = {print \in allG : Cardinality(Variants(findG, print)) > 1}
  BY <1>6, <1>7
<1> QED
  BY <1>2, <1>4, <1>5, <1>10, <1>11, <1>12, Zenon
     DEF Compare, HavingF, HavingG, allF, allG, findF, findG, F, G

(* buildTaskComparison of the index before a result, and that result, is    *)
(* the comparison of the results the index holds after it.                  *)
LEMMA ComparisonOfAppended ==
  ASSUME NEW S, NEW s \in Seq(S), NEW r \in S
  PROVE  LET before == Of(s, r.task)
             after == Of(AppendResult(s, r), r.task)
         IN  /\ Compare(WithNew(before, r)) = Compare(after)
             /\ Cardinality(DOMAIN before) \in Nat
             /\ Cardinality(DOMAIN after) = Cardinality(DOMAIN before) + 1
<1> DEFINE a == AppendResult(s, r)
           before == Of(s, r.task)
           after == Of(a, r.task)
           f == WithNew(before, r)
<1>0. a \in Seq(S) /\ \E n \in 0..Len(s) : Inserted(a, s, r, n)
  BY AppendResultInserts
<1> HIDE DEF a
<1>1. PICK n \in 0..Len(s) :
        /\ a \in Seq(S) /\ Len(a) = Len(s) + 1
        /\ \A i \in 1..n : a[i] = s[i]
        /\ a[n + 1] = r
        /\ \A i \in (n + 2)..(Len(s) + 1) : a[i] = s[i - 1]
  BY <1>0 DEF Inserted
<1> DEFINE b == [i \in DOMAIN f |-> IF i = 0 THEN n + 1 ELSE IF i <= n THEN i ELSE i + 1]
<1> HIDE DEF a
<1>2. /\ DOMAIN before = {i \in 1..Len(s) : s[i].task = r.task}
      /\ \A i \in DOMAIN before : before[i] = s[i]
      /\ Len(s) \in Nat
  BY DEF Of, Restrict
<1>3. /\ DOMAIN after = {i \in 1..(Len(s) + 1) : a[i].task = r.task}
      /\ \A i \in DOMAIN after : after[i] = a[i]
  BY <1>1 DEF Of, Restrict
<1>4. /\ DOMAIN f = {0} \cup DOMAIN before /\ 0 \notin DOMAIN before
      /\ f[0] = r /\ \A i \in DOMAIN before : f[i] = s[i]
  BY <1>2 DEF WithNew
<1> HIDE DEF f, before, after
<1>5. IsFiniteSet(DOMAIN before) /\ Cardinality(DOMAIN before) \in Nat
  <2>1. IsFiniteSet(1..Len(s))
    BY <1>2, FS_Interval
  <2> QED BY <1>2, <2>1, FS_Subset, FS_CardinalityType
<1>6. IsFiniteSet(DOMAIN f) /\ Cardinality(DOMAIN f) = Cardinality(DOMAIN before) + 1
  <2>1. DOMAIN f = (DOMAIN before) \cup {0}
    BY <1>4
  <2> QED BY <1>4, <1>5, <2>1, FS_AddElement
<1>7. \A i \in DOMAIN before : /\ i <= n => a[i] = s[i] /\ i \in 1..(Len(s) + 1)
                               /\ i > n => a[i + 1] = s[i] /\ i + 1 \in 1..(Len(s) + 1)
  <2> SUFFICES ASSUME NEW i \in DOMAIN before
      PROVE  /\ i <= n => a[i] = s[i] /\ i \in 1..(Len(s) + 1)
             /\ i > n => a[i + 1] = s[i] /\ i + 1 \in 1..(Len(s) + 1)
    OBVIOUS
  <2>1. i \in 1..Len(s)
    BY <1>2
  <2>2. CASE i <= n
    BY <1>1, <1>2, <2>1, <2>2
  <2>3. CASE i > n
    <3>1. i + 1 \in (n + 2)..(Len(s) + 1) /\ (i + 1) - 1 = i /\ i + 1 \in 1..(Len(s) + 1)
      BY <1>1, <1>2, <2>1, <2>3
    <3>2. a[i + 1] = s[(i + 1) - 1]
      BY <1>1, <3>1
    <3> QED BY <2>1, <2>3, <3>1, <3>2
  <2> QED BY <1>2, <2>1, <2>2, <2>3
<1>8. b \in [DOMAIN f -> DOMAIN after] /\ \A i \in DOMAIN f : f[i] = after[b[i]]
  <2> SUFFICES ASSUME NEW i \in DOMAIN f PROVE b[i] \in DOMAIN after /\ f[i] = after[b[i]]
    OBVIOUS
  <2>1. CASE i = 0
    <3>1. b[i] = n + 1 /\ n + 1 \in 1..(Len(s) + 1)
      BY <1>1, <1>2, <2>1
    <3> QED BY <1>1, <1>3, <1>4, <2>1, <3>1
  <2>2. CASE i # 0
    <3>1. i \in DOMAIN before /\ s[i].task = r.task /\ f[i] = s[i] /\ i \in Nat
      BY <1>2, <1>4, <2>2
    <3>2. CASE i <= n
      BY <1>3, <1>7, <2>2, <3>1, <3>2
    <3>3. CASE ~(i <= n)
      <4>1. b[i] = i + 1 /\ i > n
        BY <1>1, <2>2, <3>1, <3>3
      <4> QED BY <1>3, <1>7, <3>1, <4>1
    <3> QED BY <3>2, <3>3
  <2> QED BY <2>1, <2>2
<1>9. \A i, j \in DOMAIN f : b[i] = b[j] => i = j
  <2>1. \A i \in DOMAIN f : i \in Nat
    BY <1>2, <1>4
  <2> QED BY <1>1, <2>1
<1>10. \A k \in DOMAIN after : \E i \in DOMAIN f : b[i] = k
  <2> SUFFICES ASSUME NEW k \in DOMAIN after PROVE \E i \in DOMAIN f : b[i] = k
    OBVIOUS
  <2>1. k \in 1..(Len(s) + 1) /\ a[k].task = r.task
    BY <1>3
  <2>2. CASE k = n + 1
    BY <1>4, <2>2
  <2>3. CASE k <= n
    <3>1. k \in DOMAIN before /\ k # 0
      BY <1>1, <1>2, <2>1, <2>3
    <3> QED BY <1>4, <2>3, <3>1
  <2>4. CASE k > n + 1
    <3>1. k - 1 \in 1..Len(s) /\ a[k] = s[k - 1] /\ ~(k - 1 <= n) /\ k - 1 # 0 /\ k - 1 + 1 = k
      BY <1>1, <1>2, <2>1, <2>4
    <3>2. k - 1 \in DOMAIN f
      BY <1>2, <1>4, <2>1, <3>1
    <3>3. b[k - 1] = k
      BY <3>1, <3>2
    <3> QED BY <3>2, <3>3
  <2> QED BY <1>1, <2>1, <2>2, <2>3, <2>4
<1>11. b \in Bijection(DOMAIN f, DOMAIN after)
  BY <1>8, <1>9, <1>10 DEF Bijection, Injection, Surjection, IsInjective
<1> HIDE DEF b
<1>12. Compare(f) = Compare(after)
  BY <1>6, <1>8, <1>11, ComparisonOfSame
<1>13. Cardinality(DOMAIN after) = Cardinality(DOMAIN f)
  BY <1>6, <1>11, FS_Bijection DEF ExistsBijection
<1> QED BY <1>5, <1>6, <1>12, <1>13 DEF f, before, after, a

(* What the caller of Append is left with are records of the index too.     *)
LEMMA LeftAreResults ==
  ASSUME NEW S, NEW s \in Seq(S), NEW r \in S
  PROVE  LeftWith(s, r) \in Seq(S)
<1> DEFINE grown == AppendResult(s, r)
<1>1. grown \in Seq(S)
  BY AppendResultKeeps
<1>2. Len(grown) >= Len(s)
  BY AppendResultKeeps
<1>3. SubSeq(grown, 1, Len(s)) \in Seq(S)
  <2> HIDE DEF grown
  <2>1. \A i \in 1..Len(s) : grown[i] \in S
    BY <1>1, <1>2 DEF grown
  <2> QED BY <2>1, SubSeqProperties
<1> QED BY <1>3 DEF LeftWith

-------------------------------------------------------------------------------
(* A command that runs has its number, a status when it is about to append  *)
(* one, and an answer when it records.                                      *)
Busy ==
  \A p \in Proc :
    /\ pc[p] # "idle" => cmd[p].id \in 1..commands
    /\ pc[p] \in {"lock", "write"} => cmd[p].status \in Told
    /\ pc[p] \in {"record", "append", "compare", "move"} => cmd[p].answer \in Answer

Typed == TypeOK /\ Busy

LEMMA InitTyped == ASSUME Init PROVE Typed
<1> USE ProviderConstants DEF Init
<1>1. index \in Seq(Results)
  <2>1. index \in Seq(Range(index)) /\ Range(index) \subseteq Results
    BY EarlierWereAccepted DEF Results
  <2> QED BY <2>1
<1>2. Nothing \in Command
  BY DEF Command, Nothing
<1>3. TypeOK
  <2>1. cmd \in [Proc -> Command] /\ attempts \in Seq(Attempt)
    BY <1>2
  <2>2. lapsed \in BOOLEAN /\ missed \in BOOLEAN /\ writeLock \in Proc \cup {None}
    BY Zenon
  <2>4. standing \subseteq Proc /\ commands \in 0..MaxCommands /\ binary \in Version
    OBVIOUS
  <2>3. /\ state \in {"CONTRACTED", "REVIEWING", "REVIEWED", "ARCHIVED"}
        /\ \A p \in Proc : pc[p] = "idle"
    OBVIOUS
  <2> QED BY <1>1, <2>1, <2>2, <2>3, <2>4 DEF TypeOK
<1>4. Busy
  BY DEF Busy
<1> QED BY <1>3, <1>4 DEF Typed

(* An answer that is recorded is a result, with its command's number.       *)
LEMMA EntryIsResult ==
  ASSUME Typed, NEW p \in Proc, pc[p] \in {"append", "compare"}
  PROVE  /\ Entry(p) \in Results /\ Entry(p).by = cmd[p].id
         /\ Entry(p) = [task |-> cmd[p].answer.task, pass |-> cmd[p].answer.pass,
                        perspective |-> cmd[p].answer.perspective,
                        context |-> cmd[p].answer.context,
                        completed |-> cmd[p].answer.completed,
                        coverage |-> cmd[p].answer.coverage,
                        findings |-> cmd[p].answer.findings, by |-> cmd[p].id]
<1>1. cmd[p].answer \in Answer /\ cmd[p].id \in 1..MaxCommands
  BY ProviderConstants DEF Typed, TypeOK, Busy
<1>2. IsResult(cmd[p].answer)
  BY <1>1, EarlierWereAccepted
<1>3. Entry(p) \in Results
  <2>1. Entry(p) \in {[answer EXCEPT !.by = id] : answer \in Answer, id \in 1..MaxCommands}
    BY <1>1 DEF Entry
  <2> QED BY <2>1 DEF Results
<1>4. Entry(p) = [cmd[p].answer EXCEPT !.by = cmd[p].id]
  BY DEF Entry
<1> DEFINE a == cmd[p].answer
<1>5. a = [task |-> a.task, pass |-> a.pass, perspective |-> a.perspective,
           context |-> a.context, completed |-> a.completed, coverage |-> a.coverage,
           findings |-> a.findings, by |-> a.by]
  BY <1>2 DEF IsResult
<1> QED BY <1>3, <1>4, <1>5

-------------------------------------------------------------------------------
(* What a process remembers when it changes some of it, the others nothing. *)
OthersKeep(p) ==
  cmd' \in [Proc -> Command] /\ \A q \in Proc \ {p} : cmd'[q] = cmd[q]

LEMMA SetsStatus ==
  ASSUME cmd \in [Proc -> Command], NEW p \in Proc,
         NEW s \in Told,
         cmd' = [cmd EXCEPT ![p].status = s]
  PROVE  /\ OthersKeep(p) /\ cmd'[p].id = cmd[p].id /\ cmd'[p].echoed = cmd[p].echoed
         /\ cmd'[p].plan = cmd[p].plan /\ cmd'[p].trust = cmd[p].trust /\ cmd'[p].read = cmd[p].read
         /\ cmd'[p].answer = cmd[p].answer /\ cmd'[p].left = cmd[p].left /\ cmd'[p].status = s
<1> DEFINE c == [cmd[p] EXCEPT !.status = s]
<1>1. c \in Command
  BY DEF Command
<1>2. /\ c.id = cmd[p].id /\ c.echoed = cmd[p].echoed /\ c.plan = cmd[p].plan
      /\ c.trust = cmd[p].trust /\ c.read = cmd[p].read /\ c.answer = cmd[p].answer
      /\ c.left = cmd[p].left /\ c.status = s
  BY DEF Command
<1>3. cmd' = [cmd EXCEPT ![p] = c]
  OBVIOUS
<1> HIDE DEF c
<1>4. OthersKeep(p) /\ cmd'[p] = c
  BY <1>1, <1>3 DEF OthersKeep
<1> QED BY <1>2, <1>4

LEMMA SetsRead ==
  ASSUME cmd \in [Proc -> Command], NEW p \in Proc,
         NEW r \in Seq(Attempt),
         cmd' = [cmd EXCEPT ![p].read = r]
  PROVE  /\ OthersKeep(p) /\ cmd'[p].id = cmd[p].id /\ cmd'[p].status = cmd[p].status
         /\ cmd'[p].echoed = cmd[p].echoed /\ cmd'[p].plan = cmd[p].plan /\ cmd'[p].trust = cmd[p].trust
         /\ cmd'[p].answer = cmd[p].answer /\ cmd'[p].left = cmd[p].left /\ cmd'[p].read = r
<1> DEFINE c == [cmd[p] EXCEPT !.read = r]
<1>1. c \in Command
  BY DEF Command
<1>2. /\ c.id = cmd[p].id /\ c.status = cmd[p].status /\ c.echoed = cmd[p].echoed
      /\ c.plan = cmd[p].plan /\ c.trust = cmd[p].trust /\ c.answer = cmd[p].answer
      /\ c.left = cmd[p].left /\ c.read = r
  BY DEF Command
<1>3. cmd' = [cmd EXCEPT ![p] = c]
  OBVIOUS
<1> HIDE DEF c
<1>4. OthersKeep(p) /\ cmd'[p] = c
  BY <1>1, <1>3 DEF OthersKeep
<1> QED BY <1>2, <1>4

LEMMA SetsGrant ==
  ASSUME cmd \in [Proc -> Command], NEW p \in Proc,
         NEW v \in Version \cup {None}, NEW w \in Version, NEW s \in Told,
         cmd' = [cmd EXCEPT ![p].trust = v, ![p].plan = w, ![p].status = s]
  PROVE  /\ OthersKeep(p) /\ cmd'[p].id = cmd[p].id /\ cmd'[p].echoed = cmd[p].echoed
         /\ cmd'[p].read = cmd[p].read /\ cmd'[p].answer = cmd[p].answer /\ cmd'[p].left = cmd[p].left
         /\ cmd'[p].trust = v /\ cmd'[p].plan = w /\ cmd'[p].status = s
<1> DEFINE c == [cmd[p] EXCEPT !.trust = v, !.plan = w, !.status = s]
<1>1. c \in Command
  BY DEF Command
<1>2. /\ c.id = cmd[p].id /\ c.echoed = cmd[p].echoed /\ c.read = cmd[p].read
      /\ c.answer = cmd[p].answer /\ c.left = cmd[p].left /\ c.trust = v
      /\ c.plan = w /\ c.status = s
  BY DEF Command
<1>3. cmd' = [cmd EXCEPT ![p] = c]
  OBVIOUS
<1> HIDE DEF c
<1>4. OthersKeep(p) /\ cmd'[p] = c
  BY <1>1, <1>3 DEF OthersKeep
<1> QED BY <1>2, <1>4

LEMMA SetsPlan ==
  ASSUME cmd \in [Proc -> Command], NEW p \in Proc,
         NEW v \in Version \cup {None}, NEW w \in Version \cup {None},
         cmd' = [cmd EXCEPT ![p].plan = v, ![p].trust = w]
  PROVE  /\ OthersKeep(p) /\ cmd'[p].id = cmd[p].id /\ cmd'[p].status = cmd[p].status
         /\ cmd'[p].echoed = cmd[p].echoed /\ cmd'[p].read = cmd[p].read /\ cmd'[p].answer = cmd[p].answer
         /\ cmd'[p].left = cmd[p].left /\ cmd'[p].plan = v /\ cmd'[p].trust = w
<1> DEFINE c == [cmd[p] EXCEPT !.plan = v, !.trust = w]
<1>1. c \in Command
  BY DEF Command
<1>2. /\ c.id = cmd[p].id /\ c.status = cmd[p].status /\ c.echoed = cmd[p].echoed
      /\ c.read = cmd[p].read /\ c.answer = cmd[p].answer /\ c.left = cmd[p].left
      /\ c.plan = v /\ c.trust = w
  BY DEF Command
<1>3. cmd' = [cmd EXCEPT ![p] = c]
  OBVIOUS
<1> HIDE DEF c
<1>4. OthersKeep(p) /\ cmd'[p] = c
  BY <1>1, <1>3 DEF OthersKeep
<1> QED BY <1>2, <1>4

LEMMA SetsAnswer ==
  ASSUME cmd \in [Proc -> Command], NEW p \in Proc,
         NEW a \in Answer,
         cmd' = [cmd EXCEPT ![p].answer = a]
  PROVE  /\ OthersKeep(p) /\ cmd'[p].id = cmd[p].id /\ cmd'[p].status = cmd[p].status
         /\ cmd'[p].echoed = cmd[p].echoed /\ cmd'[p].plan = cmd[p].plan /\ cmd'[p].trust = cmd[p].trust
         /\ cmd'[p].read = cmd[p].read /\ cmd'[p].left = cmd[p].left /\ cmd'[p].answer = a
<1> DEFINE c == [cmd[p] EXCEPT !.answer = a]
<1>1. c \in Command
  BY DEF Command
<1>2. /\ c.id = cmd[p].id /\ c.status = cmd[p].status /\ c.echoed = cmd[p].echoed
      /\ c.plan = cmd[p].plan /\ c.trust = cmd[p].trust /\ c.read = cmd[p].read
      /\ c.left = cmd[p].left /\ c.answer = a
  BY DEF Command
<1>3. cmd' = [cmd EXCEPT ![p] = c]
  OBVIOUS
<1> HIDE DEF c
<1>4. OthersKeep(p) /\ cmd'[p] = c
  BY <1>1, <1>3 DEF OthersKeep
<1> QED BY <1>2, <1>4

LEMMA SetsLeft ==
  ASSUME cmd \in [Proc -> Command], NEW p \in Proc,
         NEW l \in Seq(Results),
         cmd' = [cmd EXCEPT ![p].left = l]
  PROVE  /\ OthersKeep(p) /\ cmd'[p].id = cmd[p].id /\ cmd'[p].status = cmd[p].status
         /\ cmd'[p].echoed = cmd[p].echoed /\ cmd'[p].plan = cmd[p].plan /\ cmd'[p].trust = cmd[p].trust
         /\ cmd'[p].read = cmd[p].read /\ cmd'[p].answer = cmd[p].answer /\ cmd'[p].left = l
<1> DEFINE c == [cmd[p] EXCEPT !.left = l]
<1>1. c \in Command
  BY DEF Command
<1>2. /\ c.id = cmd[p].id /\ c.status = cmd[p].status /\ c.echoed = cmd[p].echoed
      /\ c.plan = cmd[p].plan /\ c.trust = cmd[p].trust /\ c.read = cmd[p].read
      /\ c.answer = cmd[p].answer /\ c.left = l
  BY DEF Command
<1>3. cmd' = [cmd EXCEPT ![p] = c]
  OBVIOUS
<1> HIDE DEF c
<1>4. OthersKeep(p) /\ cmd'[p] = c
  BY <1>1, <1>3 DEF OthersKeep
<1> QED BY <1>2, <1>4

LEMMA Forgets ==
  ASSUME cmd \in [Proc -> Command], NEW p \in Proc,
         cmd' = [cmd EXCEPT ![p] = Nothing]
  PROVE  /\ OthersKeep(p) /\ cmd'[p] = Nothing
BY ProviderConstants DEF OthersKeep, Command, Told, Nothing

(* What an attempt that is written adds to the ledger.                      *)
Attempted(p) == [id |-> cmd[p].id, status |-> cmd[p].status, plan |-> cmd[p].echoed]

LEMMA WrittenAttempt ==
  ASSUME Typed, NEW p \in Proc, WriteAttempts(p)
  PROVE  Attempted(p) \in Attempt /\ attempts' = Append(cmd[p].read, Attempted(p))
         /\ attempts' \in Seq(Attempt)
<1>1. cmd[p].id \in Nat /\ cmd[p].echoed \in Version \cup {None} /\ cmd[p].read \in Seq(Attempt)
  BY ProviderConstants DEF Typed, TypeOK, Command
<1>2. cmd[p].status \in Told
  BY DEF Typed, Busy, WriteAttempts
<1>3. Attempted(p) \in Attempt
  BY <1>1, <1>2 DEF Attempted, Attempt
<1> QED BY <1>1, <1>3 DEF WriteAttempts, Attempted

LEMMA StartsCommand ==
  ASSUME Typed, NEW p \in Proc, NEW status \in {"planned", "packet_ready"}, Start(p, status)
  PROVE  OthersKeep(p) /\ cmd'[p].id = commands + 1 /\ cmd'[p].status = status
<1> DEFINE v == IF status = "planned" THEN binary ELSE None
           n == commands + 1
           c == [cmd[p] EXCEPT !.id = n, !.status = status, !.echoed = v]
<1>1. n \in 0..MaxCommands /\ status \in Told /\ v \in Version \cup {None}
  BY ProviderConstants DEF Start, Told, Typed, TypeOK
<1>2. cmd' = [cmd EXCEPT ![p] = c]
  BY DEF Start
<1>3. cmd \in [Proc -> Command]
  BY DEF Typed, TypeOK
<1>4. c \in Command /\ c.id = n /\ c.status = status
  <2> HIDE DEF n, v
  <2> QED BY <1>1, <1>3 DEF Command
<1> HIDE DEF c
<1>5. cmd' \in [Proc -> Command] /\ cmd'[p] = c /\ \A q \in Proc \ {p} : cmd'[q] = cmd[q]
  BY <1>2, <1>3, <1>4
<1> QED BY <1>4, <1>5 DEF OthersKeep

LEMMA TypingStep == ASSUME Typed, [Next]_vars PROVE Typed'
<1>1. cmd \in [Proc -> Command] /\ None \notin Proc /\ MaxCommands \in Nat
  BY ProviderConstants DEF Typed, TypeOK
<1> USE DEF Typed, TypeOK, Busy, Goto, Attempts, Unlocked, OthersKeep
<1>2. ASSUME NEW p \in Proc, NEW status \in {"planned", "packet_ready"}, Start(p, status)
      PROVE Typed'
  <2>1. OthersKeep(p) /\ cmd'[p].id = commands + 1 /\ cmd'[p].status = status
    BY <1>2, StartsCommand
  <2> QED BY <1>1, <1>2, <2>1 DEF Start, Told, record, world
<1>3. ASSUME NEW p \in Proc, Leave(p) PROVE Typed'
  <2>1. OthersKeep(p)
    BY <1>1, <1>3, Forgets DEF Leave
  <2> QED BY <1>1, <1>3, <2>1 DEF Leave, record, world
<1>4. ASSUME NEW p \in Proc, Attempting(p) PROVE Typed'
  <2>1. CASE ReadAttempts(p)
    <3>1. OthersKeep(p) /\ cmd'[p].id = cmd[p].id /\ cmd'[p].status = cmd[p].status
      BY <1>1, <2>1, SetsRead DEF ReadAttempts
    <3> QED BY <1>1, <2>1, <3>1 DEF ReadAttempts, record, world
  <2>2. CASE AppendAttempt(p)
    <3>1. CASE After(cmd[p].status) = "idle"
      <4>1. OthersKeep(p)
        BY <1>1, <2>2, <3>1, Forgets DEF AppendAttempt
      <4> QED BY <1>1, <2>2, <3>1, <4>1, WrittenAttempt
                 DEF AppendAttempt, WriteAttempts, record, world
    <3>2. CASE After(cmd[p].status) # "idle"
      <4>1. OthersKeep(p) /\ cmd'[p].id = cmd[p].id
        <5>1. cmd' = [cmd EXCEPT ![p].read = <<>>] /\ <<>> \in Seq(Attempt)
          BY <2>2, <3>2 DEF AppendAttempt
        <5> QED BY <1>1, <5>1, SetsRead
      <4> QED BY <1>1, <2>2, <3>2, <4>1, WrittenAttempt
                 DEF AppendAttempt, WriteAttempts, After, record, world
    <3> QED BY <3>1, <3>2
  <2>3. CASE RefuseEvent(p)
    <3>1. OthersKeep(p)
      BY <1>1, <2>3, Forgets DEF RefuseEvent
    <3> QED BY <1>1, <2>3, <3>1, WrittenAttempt DEF RefuseEvent, WriteAttempts, record, world
  <2> QED BY <1>3, <1>4, <2>1, <2>2, <2>3 DEF Attempting, RefuseLock, RefuseArchived
<1>5. ASSUME NEW p \in Proc, Executing(p) PROVE Typed'
  <2>1. CASE NewCommand(p)
    <3>1. Displayed \subseteq Version \cup {None}
      <4>1. \A i \in DOMAIN attempts : attempts[i] \in Attempt
        OBVIOUS
      <4> QED BY <4>1 DEF Displayed, Attempt
    <3>2. PICK granted \in Displayed : cmd' = [cmd EXCEPT ![p].trust = granted,
                                        ![p].plan = binary, ![p].status = "started"]
      BY <2>1 DEF NewCommand
    <3>3. OthersKeep(p) /\ cmd'[p].id = cmd[p].id /\ cmd'[p].status = "started"
      BY <1>1, <3>1, <3>2, SetsGrant DEF Told
    <3> QED BY <1>1, <2>1, <3>3 DEF NewCommand, Told, record, world
  <2>2. CASE Handshake(p)
    BY <1>1, <2>2 DEF Handshake, record, world
  <2>3. CASE RefuseAuthorization(p) \/ FailProvider(p)
    <3>1. OthersKeep(p) /\ cmd'[p].id = cmd[p].id /\ cmd'[p].status = "failed"
      BY <1>1, <2>3, SetsStatus DEF RefuseAuthorization, FailProvider, Told
    <3>2. CASE RefuseAuthorization(p)
      BY <1>1, <3>1, <3>2 DEF RefuseAuthorization, Told, record, world
    <3>3. CASE FailProvider(p)
      BY <1>1, <3>1, <3>3 DEF FailProvider, Told, record, world
    <3> QED BY <2>3, <3>2, <3>3
  <2>4. CASE Deliver(p)
    <3>1. OthersKeep(p) /\ cmd'[p].id = cmd[p].id
      BY <1>1, <2>4, SetsPlan DEF Deliver
    <3> QED BY <1>1, <2>4, <3>1 DEF Deliver, record, world
  <2>5. ASSUME NEW answer \in Answer, TakeAnswer(p, answer) PROVE Typed'
    <3>1. OthersKeep(p) /\ cmd'[p].id = cmd[p].id /\ cmd'[p].answer = answer
      BY <1>1, <2>5, SetsAnswer DEF TakeAnswer
    <3> QED BY <1>1, <2>5, <3>1 DEF TakeAnswer, record, world
  <2> QED BY <1>3, <1>5, <2>1, <2>2, <2>3, <2>4, <2>5 DEF Executing, StayUnauthorized
<1>6. ASSUME NEW p \in Proc, Recording(p) PROVE Typed'
  <2>1. CASE LockRecord(p)
    BY <1>1, <2>1 DEF LockRecord, record, world
  <2>2. CASE RecordResult(p)
    <3>1. /\ AppendResult(index, Entry(p)) \in Seq(Results)
          /\ LeftWith(index, Entry(p)) \in Seq(Results)
      BY <2>2, EntryIsResult, AppendResultKeeps, LeftAreResults DEF RecordResult
    <3>2. missed' \in BOOLEAN
      BY <2>2, Zenon DEF RecordResult
    <3>3. OthersKeep(p) /\ cmd'[p].id = cmd[p].id /\ cmd'[p].answer = cmd[p].answer
      BY <1>1, <2>2, <3>1, SetsLeft DEF RecordResult
    <3> QED BY <1>1, <2>2, <3>1, <3>2, <3>3 DEF RecordResult, world
  <2>3. CASE WriteComparison(p)
    <3>1. <<>> \in Seq(Results)
      OBVIOUS
    <3>2. OthersKeep(p) /\ cmd'[p].id = cmd[p].id /\ cmd'[p].answer = cmd[p].answer
      BY <1>1, <2>3, <3>1, SetsLeft DEF WriteComparison
    <3> QED BY <1>1, <2>3, <3>2 DEF WriteComparison, world
  <2>4. ASSUME NEW s \in {"failed", "completed"}, Attempts(p, s) PROVE
          /\ OthersKeep(p) /\ cmd'[p].id = cmd[p].id /\ cmd'[p].status = s /\ s \in Told
          /\ pc' = [pc EXCEPT ![p] = "lock"]
    BY <1>1, <2>4, SetsStatus DEF Told
  <2>5. CASE RefuseRecord(p)
    BY <1>1, <2>4, <2>5 DEF RefuseRecord, record, world
  <2>6. CASE RefuseAppend(p)
    BY <1>1, <2>4, <2>6 DEF RefuseAppend, record, world
  <2>7. CASE RefuseComparison(p)
    BY <1>1, <2>4, <2>7 DEF RefuseComparison, world
  <2>8. CASE MoveRun(p)
    BY <1>1, <2>4, <2>8 DEF MoveRun, record, world
  <2>9. CASE RefuseMove(p)
    BY <1>1, <2>4, <2>9 DEF RefuseMove, record, world
  <2> QED BY <1>6, <2>1, <2>2, <2>3, <2>5, <2>6, <2>7, <2>8, <2>9 DEF Recording
<1>7. ASSUME NEW p \in Proc, Kill(p) PROVE Typed'
  <2>1. missed' \in BOOLEAN
    BY <1>7, Zenon DEF Kill
  <2>2. OthersKeep(p)
    BY <1>1, <1>7, Forgets DEF Kill
  <2> QED BY <1>1, <1>7, <2>1, <2>2 DEF Kill, world
<1>8. ASSUME World PROVE Typed'
  <2>1. ASSUME NEW version \in Version, Install(version) PROVE Typed'
    BY <1>1, <2>1 DEF Install, record
  <2>2. CASE Lapse
    <3>1. lapsed' \in BOOLEAN
      BY <2>2, Zenon DEF Lapse
    <3> QED BY <1>1, <2>2, <3>1 DEF Lapse, record
  <2>3. CASE ArchiveRun
    BY <1>1, <2>3 DEF ArchiveRun, record, world
  <2> QED BY <1>8, <2>1, <2>2, <2>3 DEF World
<1>9. ASSUME UNCHANGED vars PROVE Typed'
  BY <1>9 DEF vars, record, world
<1> QED BY <1>2, <1>4, <1>5, <1>6, <1>7, <1>8, <1>9 DEF Next

-------------------------------------------------------------------------------
(* A step of one command; the world takes the others.                       *)
Acts(p) ==
  \/ \E status \in {"planned", "packet_ready"} : Start(p, status)
  \/ Attempting(p) \/ Executing(p) \/ Recording(p) \/ Kill(p)

LEMMA NextActs == ASSUME Next PROVE (\E p \in Proc : Acts(p)) \/ World
BY Zenon DEF Next, Acts

(* The lock is held by who is between its read and its write, and is not    *)
(* taken from him.                                                          *)
Holding(p) == pc[p] \in {"write", "append", "compare", "move"} => writeLock = p

(* What a command has read of the ledger is what it will append to.         *)
Current(p) == pc[p] = "write" => cmd[p].read = attempts

(* A step leaves the other commands where they are, and with what they      *)
(* remember.                                                                *)
LEMMA OthersStay ==
  ASSUME Typed, NEW p \in Proc, Acts(p), NEW q \in Proc \ {p}
  PROVE  pc'[q] = pc[q] /\ cmd'[q] = cmd[q]
<1> USE DEF Goto, Attempts, Leave, Typed, TypeOK
<1>1. CASE \E status \in {"planned", "packet_ready"} : Start(p, status)
  BY <1>1 DEF Start
<1>2. CASE Attempting(p)
  <2>1. CASE ReadAttempts(p) \/ RefuseLock(p) \/ RefuseEvent(p) \/ RefuseArchived(p)
    BY <2>1 DEF ReadAttempts, RefuseLock, RefuseEvent, RefuseArchived
  <2>2. CASE AppendAttempt(p)
    <3>1. \E c, to : cmd' = [cmd EXCEPT ![p] = c] /\ pc' = [pc EXCEPT ![p] = to]
      BY <2>2, Zenon DEF AppendAttempt
    <3> QED BY <3>1
  <2> QED BY <1>2, <2>1, <2>2 DEF Attempting
<1>3. CASE Executing(p)
  <2>1. CASE NewCommand(p) \/ StayUnauthorized(p) \/ Handshake(p)
    BY <2>1 DEF NewCommand, StayUnauthorized, Handshake
  <2>2. CASE RefuseAuthorization(p) \/ FailProvider(p) \/ Deliver(p)
    BY <2>2 DEF RefuseAuthorization, FailProvider, Deliver
  <2>3. CASE \E answer \in Answer : TakeAnswer(p, answer)
    BY <2>3 DEF TakeAnswer
  <2> QED BY <1>3, <2>1, <2>2, <2>3 DEF Executing
<1>4. CASE Recording(p)
  <2>1. CASE LockRecord(p) \/ RefuseRecord(p) \/ RecordResult(p) \/ RefuseAppend(p)
    BY <2>1 DEF LockRecord, RefuseRecord, RecordResult, RefuseAppend
  <2>2. CASE WriteComparison(p) \/ RefuseComparison(p) \/ MoveRun(p) \/ RefuseMove(p)
    BY <2>2 DEF WriteComparison, RefuseComparison, MoveRun, RefuseMove
  <2> QED BY <1>4, <2>1, <2>2 DEF Recording
<1>5. CASE Kill(p)
  BY <1>5 DEF Kill
<1> QED BY <1>1, <1>2, <1>3, <1>4, <1>5 DEF Acts

(* What a command changes of what is shared: it takes a free lock or frees  *)
(* its own, writes the ledger with its attempt, the index with its result,  *)
(* and only its own authorization comes or goes.                            *)
LEMMA Effects ==
  ASSUME Typed, NEW p \in Proc, Acts(p), Holding(p)
  PROVE  /\ writeLock' \in {writeLock, p} \/ (writeLock = p /\ writeLock' = None)
         /\ writeLock' # writeLock => writeLock \in {None, p}
         /\ attempts' = attempts \/ WriteAttempts(p)
         /\ index' = index \/ RecordResult(p)
         /\ binary' = binary /\ lapsed' = lapsed
         /\ \A q \in Proc \ {p} : q \in standing' <=> q \in standing
         /\ commands' = commands \/ (commands' = commands + 1 /\ pc[p] = "idle")
<1> USE DEF Goto, Attempts, Leave, Unlocked, Holding, record, world, Typed, TypeOK
<1>1. CASE \E status \in {"planned", "packet_ready"} : Start(p, status)
  BY <1>1 DEF Start
<1>2. CASE Attempting(p)
  BY <1>2 DEF Attempting, ReadAttempts, RefuseLock, AppendAttempt, RefuseEvent,
              RefuseArchived, WriteAttempts
<1>3. CASE Executing(p)
  BY <1>3 DEF Executing, NewCommand, StayUnauthorized, Handshake, RefuseAuthorization,
              Deliver, FailProvider, TakeAnswer
<1>4. CASE Recording(p)
  BY <1>4 DEF Recording, LockRecord, RefuseRecord, RecordResult, RefuseAppend,
              WriteComparison, RefuseComparison, MoveRun, RefuseMove
<1>5. CASE Kill(p)
  BY <1>5 DEF Kill
<1> QED BY <1>1, <1>2, <1>3, <1>4, <1>5 DEF Acts

-------------------------------------------------------------------------------
(* Nobody who runs has another's number, and the ledger none of the future. *)
Distinct ==
  /\ \A p, q \in Proc : p # q /\ pc[p] # "idle" /\ pc[q] # "idle" => cmd[p].id # cmd[q].id
  /\ \A i \in DOMAIN attempts : attempts[i].id <= commands

(* A result that a command has recorded. *)
HasResult(id) == \E k \in DOMAIN index : index[k].by = id

(* Who has got past started, is about to deliver, is about to append or has *)
(* appended, each with what it rests on.                                    *)
Announced(p) ==
  pc[p] \in {"authorize", "handshake", "answer", "record", "append", "compare", "move"} =>
    Started(cmd[p].id)

Granted(p) ==
  pc[p] = "handshake" =>
    /\ cmd[p].trust = cmd[p].plan
    /\ p \in standing => binary = cmd[p].plan /\ ~lapsed

Acceptable(p) == pc[p] = "append" => Accepted(cmd[p].answer, Reviewed)

Delivered(p) ==
  pc[p] \in {"compare", "move"}
    \/ (pc[p] \in {"lock", "write"} /\ cmd[p].status = "completed") => HasResult(cmd[p].id)

Upcoming(p) ==
  CASE pc[p] \in {"lock", "write"} -> Stage(cmd[p].status)
    [] pc[p] = "echo" -> 2
    [] OTHER -> 3

InOrder(p) ==
  pc[p] # "idle" =>
    \A i \in DOMAIN attempts : attempts[i].id = cmd[p].id =>
      Stage(attempts[i].status) < Upcoming(p)

(* What holds of a command wherever it is. *)
CommandInv(p) ==
  /\ Holding(p) /\ Current(p) /\ Announced(p) /\ Granted(p)
  /\ Acceptable(p) /\ Delivered(p) /\ InOrder(p)

CommandsInv == Typed /\ Distinct /\ \A p \in Proc : CommandInv(p)

(* The ledger grows by the attempt that is written, if at all.              *)
LEMMA LedgerGrows ==
  ASSUME CommandsInv, NEW p \in Proc, Acts(p)
  PROVE  \/ attempts' = attempts
         \/ /\ WriteAttempts(p)
            /\ attempts' = Append(attempts, Attempted(p)) /\ Attempted(p) \in Attempt
<1>1. attempts' = attempts \/ WriteAttempts(p)
  BY Effects DEF CommandsInv, CommandInv
<1>2. ASSUME WriteAttempts(p)
      PROVE  attempts' = Append(attempts, Attempted(p)) /\ Attempted(p) \in Attempt
  BY <1>2, WrittenAttempt DEF CommandsInv, CommandInv, Current, WriteAttempts
<1> QED BY <1>1, <1>2

(* Attempts and results stay. *)
LEMMA StartedStays ==
  ASSUME CommandsInv, NEW p \in Proc, Acts(p), NEW id, Started(id)
  PROVE  Started(id)'
<1>1. CASE attempts' = attempts
  BY <1>1 DEF Started
<1>2. CASE attempts' = Append(attempts, Attempted(p)) /\ Attempted(p) \in Attempt
  <2>1. attempts \in Seq(Attempt)
    BY DEF CommandsInv, Typed, TypeOK
  <2>2. \A i \in DOMAIN attempts : i \in DOMAIN attempts' /\ attempts'[i] = attempts[i]
    BY <1>2, <2>1
  <2> QED BY <2>2 DEF Started
<1> QED BY <1>1, <1>2, LedgerGrows

LEMMA Records ==
  ASSUME CommandsInv, NEW p \in Proc, RecordResult(p)
  PROVE  /\ \A i \in DOMAIN index : \E j \in DOMAIN index' : index'[j] = index[i]
         /\ \E j \in DOMAIN index' : index'[j] = Entry(p)
         /\ \A j \in DOMAIN index' :
              index'[j] = Entry(p) \/ \E i \in DOMAIN index : index'[j] = index[i]
         /\ Entry(p) \in Results /\ Entry(p).by = cmd[p].id
<1>1. index \in Seq(Results)
  BY DEF CommandsInv, Typed, TypeOK
<1>2. Entry(p) \in Results /\ Entry(p).by = cmd[p].id
  BY EntryIsResult DEF CommandsInv, RecordResult, Goto
<1> DEFINE e == Entry(p)
           grown == AppendResult(index, e)
<1>3. index' = grown
  BY DEF RecordResult
<1> HIDE DEF e
<1>4. e \in Results
  BY <1>2 DEF e
<1>5. \A i \in DOMAIN index : \E j \in DOMAIN grown : grown[j] = index[i]
  BY <1>1, <1>4, AppendResultKeeps
<1>6. \E j \in DOMAIN grown : grown[j] = e
  BY <1>1, <1>4, AppendResultKeeps
<1>7. \A j \in DOMAIN grown : grown[j] = e \/ \E i \in DOMAIN index : grown[j] = index[i]
  BY <1>1, <1>4, AppendResultKeeps
<1> HIDE DEF grown
<1> QED BY <1>2, <1>3, <1>5, <1>6, <1>7 DEF e

LEMMA ResultStays ==
  ASSUME CommandsInv, NEW p \in Proc, Acts(p), NEW id, HasResult(id)
  PROVE  HasResult(id)'
<1>1. CASE index' = index
  BY <1>1 DEF HasResult
<1>2. CASE RecordResult(p)
  BY <1>2, Records DEF HasResult
<1>3. Holding(p) /\ Typed
  BY DEF CommandsInv, CommandInv
<1> QED BY <1>1, <1>2, <1>3, Effects

(* A step of one command disturbs no other. *)
LEMMA OthersInv ==
  ASSUME CommandsInv, NEW p \in Proc, Acts(p), NEW q \in Proc \ {p}
  PROVE  CommandInv(q)'
<1>1. pc'[q] = pc[q] /\ cmd'[q] = cmd[q]
  BY OthersStay DEF CommandsInv
<1>2. CommandInv(q) /\ CommandInv(p) /\ Typed
  BY DEF CommandsInv
<1>3. Holding(q)'
  BY <1>1, <1>2, Effects, ProviderConstants DEF CommandInv, Holding
<1>4. Current(q)'
  <2>1. pc[q] = "write" => ~WriteAttempts(p)
    BY <1>2 DEF CommandInv, Holding, WriteAttempts
  <2>2. pc[q] = "write" => attempts' = attempts
    BY <1>2, <2>1, Effects DEF CommandInv
  <2> QED BY <1>1, <1>2, <2>2 DEF CommandInv, Current
<1>5. Announced(q)'
  BY <1>1, <1>2, StartedStays DEF CommandInv, Announced, Started
<1>6. Granted(q)'
  BY <1>1, <1>2, Effects DEF CommandInv, Granted
<1>7. Acceptable(q)'
  BY <1>1, <1>2 DEF CommandInv, Acceptable
<1>8. Delivered(q)'
  BY <1>1, <1>2, ResultStays DEF CommandInv, Delivered, HasResult
<1>9. InOrder(q)'
  <2>1. CASE attempts' = attempts
    BY <1>1, <1>2, <2>1 DEF CommandInv, InOrder, Upcoming
  <2>2. CASE WriteAttempts(p) /\ attempts' = Append(attempts, Attempted(p))
             /\ Attempted(p) \in Attempt
    <3>1. pc[q] # "idle" => Attempted(p).id # cmd[q].id
      BY <2>2 DEF CommandsInv, Distinct, WriteAttempts, Attempted
    <3>2. attempts \in Seq(Attempt)
      BY DEF CommandsInv, Typed, TypeOK
    <3>3. \A i \in DOMAIN attempts' :
            (i \in DOMAIN attempts /\ attempts'[i] = attempts[i]) \/ attempts'[i] = Attempted(p)
      BY <2>2, <3>2
    <3> QED BY <1>1, <1>2, <3>1, <3>3 DEF CommandInv, InOrder, Upcoming
  <2> QED BY <2>1, <2>2, LedgerGrows
<1> QED BY <1>3, <1>4, <1>5, <1>6, <1>7, <1>8, <1>9 DEF CommandInv

(* A step of a command leaves it where what it rests on holds. *)
LEMMA OwnInv ==
  ASSUME CommandsInv, NEW p \in Proc, Acts(p)
  PROVE  CommandInv(p)'
<1>1. /\ cmd \in [Proc -> Command] /\ pc' \in [Proc -> {"idle", "lock", "write", "echo",
           "authorize", "handshake", "answer", "record", "append", "compare", "move"}]
      /\ None \notin Proc /\ None \notin Answer
      /\ pc \in [Proc -> {"idle", "lock", "write", "echo", "authorize", "handshake", "answer",
                      "record", "append", "compare", "move"}]
  <2>1. pc' \in [Proc -> {"idle", "lock", "write", "echo", "authorize", "handshake", "answer",
                          "record", "append", "compare", "move"}]
    <3>1. Typed'
      BY TypingStep, Zenon DEF CommandsInv, Acts, Next
    <3> QED BY <3>1 DEF Typed, TypeOK
  <2> QED BY <2>1, ProviderConstants DEF CommandsInv, Typed, TypeOK
<1>2. CommandInv(p) /\ Typed
  BY DEF CommandsInv
<1> DEFINE Parts == Holding(p)' /\ Current(p)' /\ Announced(p)' /\ Granted(p)'
                      /\ Acceptable(p)' /\ Delivered(p)' /\ InOrder(p)'
<1> SUFFICES Parts
  BY DEF CommandInv
<1> USE DEF Holding, Current, Announced, Granted, Acceptable, Delivered, InOrder, Upcoming
<1>3. CASE pc'[p] = "idle"
  BY <1>3
<1>4. \A id : Started(id) => Started(id)'
  BY StartedStays
<1>5. \A id : HasResult(id) => HasResult(id)'
  BY ResultStays
(* Going to append an attempt that tells an end. *)
<1>6. ASSUME NEW s \in {"failed", "completed"}, Attempts(p, s), UNCHANGED attempts,
             s = "completed" => HasResult(cmd[p].id),
             pc[p] \in {"authorize", "handshake", "answer", "record", "append", "compare", "move"}
      PROVE  Parts
  <2>1. OthersKeep(p) /\ cmd'[p].id = cmd[p].id /\ cmd'[p].status = s
    BY <1>1, <1>6, SetsStatus DEF Told, Attempts
  <2>2. pc'[p] = "lock"
    BY <1>1, <1>6 DEF Attempts
  <2>3. InOrder(p)'
    BY <1>2, <1>6, <2>1, <2>2 DEF CommandInv, Stage
  <2>4. Delivered(p)'
    BY <1>5, <1>6, <2>1, <2>2 DEF HasResult
  <2> QED BY <2>2, <2>3, <2>4
<1>7. ASSUME NEW status \in {"planned", "packet_ready"}, Start(p, status) PROVE Parts
  <2>1. cmd'[p].id = commands + 1 /\ cmd'[p].status = status
    BY <1>2, <1>7, StartsCommand
  <2>2. pc'[p] = "lock" /\ attempts' = attempts
    BY <1>1, <1>7 DEF Start
  <2>3. InOrder(p)'
    <3>1. \A i \in DOMAIN attempts : attempts[i].id # commands + 1
      <4>1. \A i \in DOMAIN attempts : attempts[i].id <= commands
        BY DEF CommandsInv, Distinct
      <4>2. commands \in Nat
        BY <1>2 DEF Typed, TypeOK
      <4>3. \A i \in DOMAIN attempts : attempts[i].id \in Nat
        <5>1. \A i \in DOMAIN attempts : attempts[i] \in Attempt
          BY <1>2 DEF Typed, TypeOK
        <5> QED BY <5>1 DEF Attempt
      <4> QED BY <4>1, <4>2, <4>3
    <3> QED BY <2>1, <2>2, <3>1
  <2> QED BY <2>1, <2>2, <2>3
<1>8. CASE Attempting(p)
  <2>1. CASE ReadAttempts(p)
    <3>1. pc[p] = "lock" /\ pc'[p] = "write" /\ writeLock' = p
          /\ UNCHANGED <<attempts, index>>
      BY <1>1, <2>1 DEF ReadAttempts, Goto, record
    <3>2. cmd'[p].read = attempts /\ cmd'[p].id = cmd[p].id /\ cmd'[p].status = cmd[p].status
      BY <1>1, <1>2, <2>1, SetsRead DEF ReadAttempts, Typed, TypeOK
    <3> QED BY <1>2, <3>1, <3>2 DEF CommandInv, HasResult
  <2>2. CASE AppendAttempt(p) /\ After(cmd[p].status) # "idle"
    <3>1. pc[p] = "write" /\ pc'[p] = After(cmd[p].status)
      BY <1>1, <2>2 DEF AppendAttempt, WriteAttempts
    <3>2. cmd'[p].id = cmd[p].id
      <4>1. cmd' = [cmd EXCEPT ![p].read = <<>>] /\ <<>> \in Seq(Attempt)
        BY <2>2 DEF AppendAttempt
      <4> QED BY <1>1, <4>1, SetsRead
    <3>3. attempts' = Append(attempts, Attempted(p)) /\ Attempted(p) \in Attempt
      BY <1>2, <2>2, <3>1, WrittenAttempt DEF AppendAttempt, CommandInv
    <3>4. attempts \in Seq(Attempt)
      BY <1>2 DEF Typed, TypeOK
    <3>5. \A i \in DOMAIN attempts' :
            (i \in DOMAIN attempts /\ attempts'[i] = attempts[i]) \/ attempts'[i] = Attempted(p)
      BY <3>3, <3>4
    <3>6. Len(attempts) + 1 \in DOMAIN attempts' /\ attempts'[Len(attempts) + 1] = Attempted(p)
      BY <3>3, <3>4
    <3>7. Attempted(p).id = cmd[p].id /\ Attempted(p).status = cmd[p].status
      BY DEF Attempted
    <3>8. \/ cmd[p].status = "planned" /\ pc'[p] = "echo"
          \/ cmd[p].status = "started" /\ pc'[p] = "authorize"
      BY <2>2, <3>1 DEF After
    <3>9. pc'[p] = "authorize" => Started(cmd[p].id)'
      BY <3>2, <3>6, <3>7, <3>8 DEF Started
    <3>10. InOrder(p)'
      <4>1. \A i \in DOMAIN attempts : attempts[i].id = cmd[p].id =>
              Stage(attempts[i].status) < Stage(cmd[p].status)
        BY <1>2, <3>1 DEF CommandInv
      <4>2. \A i \in DOMAIN attempts : Stage(attempts[i].status) \in 1..3
        BY DEF Stage
      <4> HIDE DEF InOrder, Upcoming
      <4>3. CASE pc'[p] = "echo"
        <5>1. \A i \in DOMAIN attempts' : attempts'[i].id = cmd[p].id =>
                Stage(attempts'[i].status) < 2
          BY <3>5, <3>7, <3>8, <4>1, <4>2, <4>3 DEF Stage
        <5> QED BY <3>2, <4>3, <5>1 DEF InOrder, Upcoming
      <4>4. CASE pc'[p] = "authorize"
        <5>1. \A i \in DOMAIN attempts' : attempts'[i].id = cmd[p].id =>
                Stage(attempts'[i].status) < 3
          BY <3>5, <3>7, <3>8, <4>1, <4>2, <4>4 DEF Stage
        <5> QED BY <3>2, <4>4, <5>1 DEF InOrder, Upcoming
      <4> QED BY <3>8, <4>3, <4>4
    <3> HIDE DEF InOrder
    <3> QED BY <3>2, <3>8, <3>9, <3>10 DEF Started
  <2>3. CASE (AppendAttempt(p) /\ After(cmd[p].status) = "idle")
             \/ RefuseLock(p) \/ RefuseEvent(p) \/ RefuseArchived(p)
    <3>1. pc'[p] = "idle"
      BY <1>1, <2>3 DEF AppendAttempt, RefuseLock, RefuseEvent, RefuseArchived, Leave
    <3> QED BY <3>1
  <2> QED BY <1>8, <2>1, <2>2, <2>3 DEF Attempting
<1>9. CASE Executing(p)
  <2>1. CASE NewCommand(p)
    <3>1. Displayed \subseteq Version \cup {None}
      <4>1. \A i \in DOMAIN attempts : attempts[i] \in Attempt
        BY <1>2 DEF Typed, TypeOK
      <4> QED BY <4>1 DEF Displayed, Attempt
    <3>2. PICK granted \in Displayed : cmd' = [cmd EXCEPT ![p].trust = granted,
                                        ![p].plan = binary, ![p].status = "started"]
      BY <2>1 DEF NewCommand
    <3>3. binary \in Version
      BY <1>2 DEF Typed, TypeOK
    <3>4. cmd'[p].id = cmd[p].id /\ cmd'[p].status = "started"
      BY <1>1, <3>1, <3>2, <3>3, SetsGrant DEF Told
    <3>5. pc[p] = "echo" /\ pc'[p] = "lock" /\ attempts' = attempts
      BY <1>1, <2>1 DEF NewCommand
    <3> QED BY <1>2, <3>4, <3>5 DEF CommandInv, Stage
  <2>2. CASE Handshake(p)
    <3>1. /\ pc[p] = "authorize" /\ pc'[p] = "handshake" /\ cmd' = cmd
          /\ UNCHANGED <<attempts, binary, lapsed>>
      BY <1>1, <2>2 DEF Handshake, Goto, world
    <3> QED BY <1>2, <2>2, <3>1 DEF CommandInv, Handshake, Authorized, Started
  <2>3. CASE RefuseAuthorization(p) \/ FailProvider(p)
    BY <1>6, <2>3 DEF RefuseAuthorization, FailProvider
  <2>4. CASE Deliver(p)
    <3>1. None \in Version \cup {None}
      OBVIOUS
    <3>2. cmd'[p].id = cmd[p].id
      BY <1>1, <2>4, <3>1, SetsPlan DEF Deliver
    <3>3. pc[p] = "handshake" /\ pc'[p] = "answer" /\ attempts' = attempts
      BY <1>1, <2>4 DEF Deliver, Goto
    <3> QED BY <1>2, <3>2, <3>3 DEF CommandInv, Started
  <2>5. ASSUME NEW answer \in Answer, TakeAnswer(p, answer) PROVE Parts
    <3>1. cmd'[p].id = cmd[p].id
      BY <1>1, <2>5, SetsAnswer DEF TakeAnswer
    <3>2. pc[p] = "answer" /\ pc'[p] = "record" /\ attempts' = attempts
      BY <1>1, <2>5 DEF TakeAnswer, Goto
    <3> QED BY <1>2, <3>1, <3>2 DEF CommandInv, Started
  <2>6. CASE StayUnauthorized(p)
    <3>1. pc'[p] = "idle"
      BY <1>1, <2>6 DEF StayUnauthorized, Leave
    <3> QED BY <3>1
  <2> QED BY <1>9, <2>1, <2>2, <2>3, <2>4, <2>5, <2>6 DEF Executing
<1>10. CASE Recording(p)
  <2>1. CASE LockRecord(p)
    <3>1. /\ pc[p] = "record" /\ pc'[p] = "append" /\ cmd' = cmd /\ writeLock' = p
          /\ attempts' = attempts
      BY <1>1, <2>1 DEF LockRecord, Goto
    <3>2. Accepted(cmd[p].answer, Reviewed)
      BY <2>1 DEF LockRecord
    <3> QED BY <1>2, <3>1, <3>2 DEF CommandInv, Started
  <2>2. CASE RecordResult(p)
    <3>1. LeftWith(index, Entry(p)) \in Seq(Results)
      <4>1. Entry(p) \in Results /\ index \in Seq(Results)
        BY <1>2, <2>2, EntryIsResult DEF RecordResult, Goto, Typed, TypeOK
      <4> QED BY <4>1, LeftAreResults
    <3>2. cmd'[p].id = cmd[p].id
      BY <1>1, <2>2, <3>1, SetsLeft DEF RecordResult
    <3>3. /\ pc[p] = "append" /\ pc'[p] = "compare" /\ attempts' = attempts
          /\ writeLock' = writeLock
      BY <1>1, <2>2 DEF RecordResult, Goto
    <3>4. HasResult(cmd[p].id)'
      BY <2>2, <3>2, Records DEF HasResult
    <3> QED BY <1>2, <3>2, <3>3, <3>4 DEF CommandInv, Started, HasResult
  <2>3. CASE WriteComparison(p)
    <3>1. <<>> \in Seq(Results)
      OBVIOUS
    <3>2. cmd'[p].id = cmd[p].id
      BY <1>1, <2>3, <3>1, SetsLeft DEF WriteComparison
    <3>3. /\ pc[p] = "compare" /\ pc'[p] = "move" /\ attempts' = attempts
          /\ UNCHANGED <<writeLock, index>>
      BY <1>1, <2>3 DEF WriteComparison, Goto
    <3> QED BY <1>2, <3>2, <3>3 DEF CommandInv, Started, HasResult
  <2>4. CASE RefuseRecord(p) \/ RefuseAppend(p) \/ RefuseComparison(p) \/ RefuseMove(p)
    BY <1>6, <2>4 DEF RefuseRecord, RefuseAppend, RefuseComparison, RefuseMove
  <2>5. CASE MoveRun(p)
    <3>1. HasResult(cmd[p].id)
      BY <1>2, <2>5 DEF CommandInv, MoveRun
    <3> QED BY <1>6, <2>5, <3>1 DEF MoveRun
  <2> QED BY <1>10, <2>1, <2>2, <2>3, <2>4, <2>5 DEF Recording
<1>11. CASE Kill(p)
  <2>1. pc'[p] = "idle"
    BY <1>1, <1>11 DEF Kill
  <2> QED BY <2>1
<1> QED BY <1>7, <1>8, <1>9, <1>10, <1>11 DEF Acts

-------------------------------------------------------------------------------
(* A command keeps its number, or gets a new one, or ends.                  *)
LEMMA OwnNumber ==
  ASSUME Typed, NEW p \in Proc, Acts(p)
  PROVE  \/ pc'[p] = "idle"
         \/ pc[p] # "idle" /\ cmd'[p].id = cmd[p].id
         \/ cmd'[p].id = commands + 1 /\ commands' = commands + 1
<1> DEFINE Goal == \/ pc'[p] = "idle"
                   \/ pc[p] # "idle" /\ cmd'[p].id = cmd[p].id
                   \/ cmd'[p].id = commands + 1 /\ commands' = commands + 1
<1>1. /\ cmd \in [Proc -> Command] /\ attempts \in Seq(Attempt) /\ binary \in Version
      /\ index \in Seq(Results)
      /\ pc \in [Proc -> {"idle", "lock", "write", "echo", "authorize", "handshake", "answer",
                      "record", "append", "compare", "move"}]
  BY DEF Typed, TypeOK
<1>2. CASE \E status \in {"planned", "packet_ready"} : Start(p, status)
  BY <1>2, StartsCommand DEF Start
<1>3. ASSUME NEW s \in Told, Attempts(p, s) PROVE cmd'[p].id = cmd[p].id
  BY <1>1, <1>3, SetsStatus DEF Attempts
<1>4. CASE Attempting(p)
  <2>1. CASE ReadAttempts(p)
    BY <1>1, <2>1, SetsRead DEF ReadAttempts, Goto
  <2>2. CASE AppendAttempt(p) /\ After(cmd[p].status) # "idle"
    <3>1. cmd' = [cmd EXCEPT ![p].read = <<>>] /\ <<>> \in Seq(Attempt)
      BY <2>2 DEF AppendAttempt
    <3>2. pc[p] # "idle"
      BY <2>2 DEF AppendAttempt, WriteAttempts
    <3> QED BY <1>1, <3>1, <3>2, SetsRead
  <2>3. CASE (AppendAttempt(p) /\ After(cmd[p].status) = "idle")
             \/ RefuseLock(p) \/ RefuseEvent(p) \/ RefuseArchived(p)
    BY <1>1, <2>3 DEF AppendAttempt, RefuseLock, RefuseEvent, RefuseArchived, Leave
  <2> QED BY <1>4, <2>1, <2>2, <2>3 DEF Attempting
<1>5. CASE Executing(p)
  <2>1. CASE NewCommand(p)
    <3>1. Displayed \subseteq Version \cup {None}
      <4>1. \A i \in DOMAIN attempts : attempts[i] \in Attempt
        BY <1>1
      <4> QED BY <4>1 DEF Displayed, Attempt
    <3>2. PICK granted \in Displayed : cmd' = [cmd EXCEPT ![p].trust = granted,
                                        ![p].plan = binary, ![p].status = "started"]
      BY <2>1 DEF NewCommand
    <3> QED BY <1>1, <2>1, <3>1, <3>2, SetsGrant DEF Told, NewCommand
  <2>2. CASE Handshake(p)
    BY <2>2 DEF Handshake, Goto
  <2>3. CASE RefuseAuthorization(p) \/ FailProvider(p)
    BY <1>3, <2>3 DEF RefuseAuthorization, FailProvider, Told
  <2>4. CASE Deliver(p)
    BY <1>1, <2>4, SetsPlan DEF Deliver, Goto
  <2>5. ASSUME NEW answer \in Answer, TakeAnswer(p, answer) PROVE Goal
    BY <1>1, <2>5, SetsAnswer DEF TakeAnswer, Goto
  <2>6. CASE StayUnauthorized(p)
    BY <1>1, <2>6 DEF StayUnauthorized, Leave
  <2> QED BY <1>5, <2>1, <2>2, <2>3, <2>4, <2>5, <2>6 DEF Executing
<1>6. CASE Recording(p)
  <2>1. CASE LockRecord(p)
    BY <2>1 DEF LockRecord, Goto
  <2>2. CASE RecordResult(p)
    <3>1. LeftWith(index, Entry(p)) \in Seq(Results)
      <4>1. Entry(p) \in Results
        BY <2>2, EntryIsResult DEF RecordResult, Goto
      <4> QED BY <1>1, <4>1, LeftAreResults
    <3> QED BY <1>1, <2>2, <3>1, SetsLeft DEF RecordResult, Goto
  <2>3. CASE WriteComparison(p)
    <3>1. <<>> \in Seq(Results)
      OBVIOUS
    <3> QED BY <1>1, <2>3, <3>1, SetsLeft DEF WriteComparison, Goto
  <2>4. CASE RefuseRecord(p) \/ RefuseAppend(p) \/ RefuseComparison(p) \/ RefuseMove(p)
             \/ MoveRun(p)
    BY <1>3, <2>4 DEF RefuseRecord, RefuseAppend, RefuseComparison, RefuseMove, MoveRun, Told
  <2> QED BY <1>6, <2>1, <2>2, <2>3, <2>4 DEF Recording
<1>7. CASE Kill(p)
  BY <1>1, <1>7 DEF Kill
<1> QED BY <1>2, <1>4, <1>5, <1>6, <1>7 DEF Acts

LEMMA DistinctStep ==
  ASSUME CommandsInv, NEW p \in Proc, Acts(p)
  PROVE  Distinct'
<1>1. Typed /\ Distinct /\ Holding(p) /\ commands \in Nat
  BY DEF CommandsInv, CommandInv, Typed, TypeOK
<1>2. commands' = commands \/ (commands' = commands + 1 /\ pc[p] = "idle")
  BY <1>1, Effects
<1>3. ASSUME NEW q \in Proc \ {p}, pc'[p] # "idle", pc'[q] # "idle"
      PROVE cmd'[p].id # cmd'[q].id
  <2>1. pc'[q] = pc[q] /\ cmd'[q] = cmd[q]
    BY <1>1, OthersStay
  <2>2. cmd[q].id \in 1..commands
    BY <1>1, <1>3, <2>1 DEF Typed, Busy
  <2>3. CASE pc[p] # "idle" /\ cmd'[p].id = cmd[p].id
    BY <1>1, <1>3, <2>1, <2>3 DEF Distinct
  <2>4. CASE cmd'[p].id = commands + 1
    BY <1>1, <2>1, <2>2, <2>4
  <2> QED BY <1>1, <1>3, <2>3, <2>4, OwnNumber
<1>4. ASSUME NEW q \in Proc \ {p}, NEW r \in Proc \ {p}, q # r, pc'[q] # "idle", pc'[r] # "idle"
      PROVE cmd'[q].id # cmd'[r].id
  BY <1>1, <1>4, OthersStay DEF Distinct
<1>5. \A i \in DOMAIN attempts' : attempts'[i].id <= commands'
  <2>1. \A i \in DOMAIN attempts : attempts[i].id <= commands /\ attempts[i].id \in Nat
    <3>1. \A i \in DOMAIN attempts : attempts[i] \in Attempt
      BY <1>1 DEF Typed, TypeOK
    <3> QED BY <1>1, <3>1 DEF Distinct, Attempt
  <2>2. CASE attempts' = attempts
    BY <1>1, <1>2, <2>1, <2>2
  <2>3. CASE WriteAttempts(p) /\ attempts' = Append(attempts, Attempted(p))
             /\ Attempted(p) \in Attempt
    <3>1. attempts \in Seq(Attempt)
      BY <1>1 DEF Typed, TypeOK
    <3>2. \A i \in DOMAIN attempts' :
            (i \in DOMAIN attempts /\ attempts'[i] = attempts[i]) \/ attempts'[i] = Attempted(p)
      BY <2>3, <3>1
    <3>3. Attempted(p).id = cmd[p].id /\ pc[p] = "write"
      BY <2>3 DEF Attempted, WriteAttempts
    <3>4. Attempted(p).id \in 1..commands
      BY <1>1, <3>3 DEF Typed, Busy
    <3> QED BY <1>1, <1>2, <2>1, <3>2, <3>4
  <2> QED BY <2>2, <2>3, LedgerGrows
<1> QED BY <1>3, <1>4, <1>5 DEF Distinct

(* What holds of the commands holds on. *)
LEMMA CommandsStep == ASSUME CommandsInv, [Next]_vars PROVE CommandsInv'
<1>1. Typed'
  BY TypingStep DEF CommandsInv
<1>2. ASSUME NEW p \in Proc, Acts(p) PROVE CommandsInv'
  BY <1>1, <1>2, DistinctStep, OwnInv, OthersInv DEF CommandsInv
<1>3. CASE World \/ UNCHANGED vars
  <2>1. UNCHANGED <<pc, cmd, attempts, index, writeLock, commands>>
    BY <1>3 DEF World, Install, Lapse, ArchiveRun, vars, record
  <2>2. standing' = {} \/ UNCHANGED <<standing, binary, lapsed>>
    BY <1>3 DEF World, Install, Lapse, ArchiveRun, vars, world
  <2>3. Distinct'
    BY <2>1 DEF CommandsInv, Distinct
  <2>4. ASSUME NEW p \in Proc PROVE CommandInv(p)'
    <3>1. CommandInv(p)
      BY DEF CommandsInv
    <3>2. Holding(p)' /\ Current(p)' /\ Acceptable(p)'
      BY <2>1, <3>1 DEF CommandInv, Holding, Current, Acceptable
    <3>3. Announced(p)' /\ Delivered(p)' /\ InOrder(p)'
      BY <2>1, <3>1 DEF CommandInv, Announced, Started, Delivered, HasResult, InOrder, Upcoming
    <3>4. Granted(p)'
      BY <2>1, <2>2, <3>1 DEF CommandInv, Granted
    <3> QED BY <3>2, <3>3, <3>4 DEF CommandInv
  <2> QED BY <1>1, <2>3, <2>4 DEF CommandsInv
<1> QED BY <1>2, <1>3, NextActs

LEMMA InitCommands == ASSUME Init PROVE CommandsInv
<1>1. Typed
  BY InitTyped
<1>2. \A p \in Proc : pc[p] = "idle"
  BY DEF Init
<1>3. Distinct
  BY <1>2 DEF Init, Distinct
<1>4. \A p \in Proc : CommandInv(p)
  BY <1>2 DEF CommandInv, Holding, Current, Announced, Granted, Acceptable, Delivered, InOrder
<1> QED BY <1>1, <1>3, <1>4 DEF CommandsInv

(* The inductive invariant of the commands: what each may rest on where it  *)
(* is.                                                                      *)
THEOREM CommandsAreSound == Spec => []CommandsInv
BY InitCommands, CommandsStep, PTL DEF Spec

(* A packet leaves only with a trusted plan that is announced, to the       *)
(* executable of it unless the world has changed since, for any number of   *)
(* commands, executables and replacements.                                  *)
THEOREM PacketsAreAuthorized == Spec => PacketIsAuthorized
<1>1. ASSUME CommandsInv, [Next]_vars
      PROVE  [\A p \in Proc : pc[p] = "handshake" /\ pc'[p] = "answer" =>
                /\ cmd[p].trust = cmd[p].plan /\ Started(cmd[p].id)
                /\ p \in standing => binary = cmd[p].plan /\ ~lapsed]_vars
  BY <1>1 DEF CommandsInv, CommandInv, Granted, Announced
<1> QED BY <1>1, CommandsAreSound, PTL DEF Spec, PacketIsAuthorized

(* The attempt ledger keeps what it has, for any number of commands that    *)
(* rewrite it.                                                              *)
THEOREM AttemptsAreKept == Spec => AttemptsOnlyGrow
<1>1. ASSUME CommandsInv, [Next]_vars
      PROVE  [/\ Len(attempts) <= Len(attempts')
              /\ SubSeq(attempts', 1, Len(attempts)) = attempts]_attempts
  <2> SUFFICES ASSUME attempts' # attempts
               PROVE  /\ Len(attempts) <= Len(attempts')
                      /\ SubSeq(attempts', 1, Len(attempts)) = attempts
    OBVIOUS
  <2>1. attempts \in Seq(Attempt)
    BY <1>1 DEF CommandsInv, Typed, TypeOK
  <2>2. ~(World \/ UNCHANGED vars)
    BY DEF World, Install, Lapse, ArchiveRun, vars
  <2>3. PICK a \in Attempt : attempts' = Append(attempts, a)
    BY <1>1, <2>2, NextActs, LedgerGrows
  <2>4. /\ Len(attempts') = Len(attempts) + 1 /\ Len(attempts) \in Nat
        /\ \A i \in 1..Len(attempts) : attempts'[i] = attempts[i]
    BY <2>1, <2>3
  <2> DEFINE kept == SubSeq(attempts', 1, Len(attempts))
  <2>5. /\ kept \in Seq(Attempt) /\ Len(kept) = Len(attempts)
        /\ \A i \in 1..Len(attempts) : kept[i] = attempts[i]
    <3>1. \A i \in 1..Len(attempts) : attempts'[i] \in Attempt
      BY <2>1, <2>4
    <3> QED BY <2>4, <3>1, SubSeqProperties
  <2> HIDE DEF kept
  <2>6. kept = attempts
    BY <2>1, <2>5, SeqEqual
  <2> QED BY <2>4, <2>6 DEF kept
<1> QED BY <1>1, CommandsAreSound, PTL DEF Spec, AttemptsOnlyGrow

-------------------------------------------------------------------------------
(* What the ledger tells stays true when a command goes on.                 *)
LEMMA TellingStep ==
  ASSUME CommandsInv, AttemptsTellOutcome, NEW p \in Proc, Acts(p)
  PROVE  AttemptsTellOutcome'
<1>1. /\ CommandInv(p) /\ attempts \in Seq(Attempt) /\ index \in Seq(Results)
  BY DEF CommandsInv, Typed, TypeOK
<1> DEFINE a == Attempted(p)
<1>2. attempts' = attempts \/ (WriteAttempts(p) /\ attempts' = Append(attempts, a) /\ a \in Attempt)
  BY LedgerGrows
<1>3. a.id = cmd[p].id /\ a.status = cmd[p].status
  BY DEF Attempted
<1> HIDE DEF a
<1>4. \A i, j \in DOMAIN attempts' :
        i < j /\ attempts'[i].id = attempts'[j].id =>
          Stage(attempts'[i].status) < Stage(attempts'[j].status)
  <2>1. CASE attempts' = attempts
    BY <2>1 DEF AttemptsTellOutcome
  <2>2. CASE WriteAttempts(p) /\ attempts' = Append(attempts, a) /\ a \in Attempt
    <3>1. \A i \in DOMAIN attempts : attempts[i].id = a.id =>
            Stage(attempts[i].status) < Stage(a.status)
      BY <1>1, <1>3, <2>2 DEF CommandInv, InOrder, Upcoming, WriteAttempts
    <3>2. \A i \in DOMAIN attempts' :
            \/ i \in DOMAIN attempts /\ attempts'[i] = attempts[i]
            \/ i = Len(attempts) + 1 /\ attempts'[i] = a
      BY <1>1, <2>2
    <3>3. \A i \in DOMAIN attempts : i \in Nat /\ i < Len(attempts) + 1
      BY <1>1
    <3> SUFFICES ASSUME NEW i \in DOMAIN attempts', NEW j \in DOMAIN attempts',
                        i < j, attempts'[i].id = attempts'[j].id
                 PROVE  Stage(attempts'[i].status) < Stage(attempts'[j].status)
      OBVIOUS
    <3>4. CASE i = Len(attempts) + 1
      BY <1>1, <3>2, <3>3, <3>4
    <3>5. CASE i \in DOMAIN attempts /\ attempts'[i] = attempts[i]
      BY <3>1, <3>2, <3>5 DEF AttemptsTellOutcome
    <3> QED BY <3>2, <3>4, <3>5
  <2> QED BY <1>2, <2>1, <2>2
<1>5. \A id : (\E k \in DOMAIN index : index[k].by = id) =>
               \E k \in DOMAIN index' : index'[k].by = id
  BY ResultStays DEF HasResult
<1>6. \A id : (\E i \in DOMAIN attempts : attempts[i].id = id /\ attempts[i].status = "started") =>
               \E i \in DOMAIN attempts' : attempts'[i].id = id /\ attempts'[i].status = "started"
  BY StartedStays DEF Started
<1>7. ASSUME NEW i \in DOMAIN attempts', attempts'[i].status = "completed"
      PROVE  \E k \in DOMAIN index' : index'[k].by = attempts'[i].id
  <2>1. CASE i \in DOMAIN attempts /\ attempts'[i] = attempts[i]
    <3>1. \E k \in DOMAIN index : index[k].by = attempts[i].id
      BY <1>7, <2>1 DEF AttemptsTellOutcome
    <3> QED BY <1>5, <2>1, <3>1
  <2>2. CASE WriteAttempts(p) /\ attempts'[i] = a
    <3>1. \E k \in DOMAIN index : index[k].by = cmd[p].id
      BY <1>1, <1>3, <1>7, <2>2 DEF CommandInv, Delivered, HasResult, WriteAttempts
    <3> QED BY <1>3, <1>5, <2>2, <3>1
  <2>3. \/ i \in DOMAIN attempts /\ attempts'[i] = attempts[i]
        \/ WriteAttempts(p) /\ attempts'[i] = a
    BY <1>1, <1>2
  <2> QED BY <2>1, <2>2, <2>3
<1>8. ASSUME NEW k \in DOMAIN index', index'[k].by # 0
      PROVE  \E i \in DOMAIN attempts' :
               attempts'[i].id = index'[k].by /\ attempts'[i].status = "started"
  <2>1. ASSUME NEW i \in DOMAIN index, index'[k] = index[i]
        PROVE  \E j \in DOMAIN attempts :
                 attempts[j].id = index'[k].by /\ attempts[j].status = "started"
    BY <1>8, <2>1 DEF AttemptsTellOutcome, Started
  <2>2. ASSUME RecordResult(p), index'[k] = Entry(p)
        PROVE  \E j \in DOMAIN attempts :
                 attempts[j].id = index'[k].by /\ attempts[j].status = "started"
    <3>1. index'[k].by = cmd[p].id
      BY <2>2, Records
    <3>2. Started(cmd[p].id)
      BY <1>1, <2>2 DEF CommandInv, Announced, RecordResult, Goto
    <3> QED BY <3>1, <3>2 DEF Started
  <2>3. index' = index \/ RecordResult(p)
    BY <1>1, Effects DEF CommandsInv, CommandInv
  <2>4. \E j \in DOMAIN attempts :
          attempts[j].id = index'[k].by /\ attempts[j].status = "started"
    <3>1. CASE index' = index
      BY <2>1, <3>1
    <3>2. CASE RecordResult(p)
      BY <2>1, <2>2, <3>2, Records
    <3> QED BY <2>3, <3>1, <3>2
  <2> QED BY <1>6, <2>4
<1> QED BY <1>4, <1>7, <1>8 DEF AttemptsTellOutcome, Started

(* Of each command the attempt ledger tells a story in order, completed     *)
(* only with a result, and no provider's result is untold, for any number   *)
(* of commands, refused, killed or interleaved.                             *)
THEOREM LedgerTellsOutcome == Spec => []AttemptsTellOutcome
<1>1. ASSUME Init PROVE AttemptsTellOutcome
  BY <1>1, EarlierWereAccepted DEF Init, AttemptsTellOutcome
<1>2. ASSUME CommandsInv, AttemptsTellOutcome, [Next]_vars PROVE AttemptsTellOutcome'
  <2>1. CASE World \/ UNCHANGED vars
    <3>1. attempts' = attempts /\ index' = index
      BY <2>1 DEF World, Install, Lapse, ArchiveRun, vars, record
    <3> QED BY <1>2, <3>1 DEF AttemptsTellOutcome, Started
  <2> QED BY <1>2, <2>1, NextActs, TellingStep
<1> QED BY <1>1, <1>2, CommandsAreSound, PTL DEF Spec

-------------------------------------------------------------------------------
(* All that is recorded was accepted, and a run that is reviewed was judged *)
(* so by the index as it is.                                                *)
CoveredInv ==
  /\ \A k \in DOMAIN index : Accepted(index[k], index[k].task)
  /\ state \in {"REVIEWED", "ARCHIVED"} => ReviewComplete(index)

LEMMA CoveredStep == ASSUME CommandsInv, CoveredInv, [Next]_vars PROVE CoveredInv'
<1>1. ASSUME NEW p \in Proc, RecordResult(p) PROVE CoveredInv'
  <2> DEFINE e == Entry(p)
             r == cmd[p].answer
  <2>1. pc[p] = "append" /\ state' = state /\ state \in {"CONTRACTED", "REVIEWING"}
    BY <1>1 DEF RecordResult, Goto, Recordable
  <2>2. Accepted(r, Reviewed)
    BY <2>1 DEF CommandsInv, CommandInv, Acceptable
  <2>3. /\ e.task = r.task /\ e.perspective = r.perspective /\ e.coverage = r.coverage
        /\ e.completed = r.completed
    <3>1. e = [task |-> r.task, pass |-> r.pass, perspective |-> r.perspective,
               context |-> r.context, completed |-> r.completed, coverage |-> r.coverage,
               findings |-> r.findings, by |-> cmd[p].id]
      BY <2>1, EntryIsResult DEF CommandsInv
    <3> HIDE DEF e, r
    <3> QED BY <3>1
  <2> HIDE DEF e, r
  <2>4. Accepted(e, e.task)
    BY <2>2, <2>3 DEF Accepted, Covers
  <2>5. \A j \in DOMAIN index' : index'[j] = e \/ \E i \in DOMAIN index : index'[j] = index[i]
    BY <1>1, Records DEF e
  <2> QED BY <2>1, <2>4, <2>5 DEF CoveredInv
<1>2. ASSUME index' = index, state' = state PROVE CoveredInv'
  BY <1>2 DEF CoveredInv
<1>3. ASSUME NEW p \in Proc, MoveRun(p) \/ RefuseMove(p) PROVE CoveredInv'
  BY <1>3 DEF MoveRun, RefuseMove, record, CoveredInv
<1>4. ASSUME World \/ UNCHANGED vars PROVE CoveredInv'
  BY <1>4 DEF World, Install, Lapse, ArchiveRun, record, vars, CoveredInv
<1>5. ASSUME NEW p \in Proc, Acts(p), ~RecordResult(p), ~MoveRun(p), ~RefuseMove(p)
      PROVE  index' = index /\ state' = state
  <2> USE DEF record, Leave
  <2>1. CASE \E status \in {"planned", "packet_ready"} : Start(p, status)
    BY <2>1 DEF Start
  <2>2. CASE Attempting(p)
    BY <2>2 DEF Attempting, ReadAttempts, RefuseLock, AppendAttempt, RefuseEvent,
                RefuseArchived, WriteAttempts
  <2>3. CASE Executing(p)
    BY <2>3 DEF Executing, NewCommand, StayUnauthorized, Handshake, RefuseAuthorization,
                Deliver, FailProvider, TakeAnswer
  <2>4. CASE Recording(p)
    BY <1>5, <2>4 DEF Recording, LockRecord, RefuseRecord, RefuseAppend,
                WriteComparison, RefuseComparison
  <2>5. CASE Kill(p)
    BY <2>5 DEF Kill
  <2> QED BY <1>5, <2>1, <2>2, <2>3, <2>4, <2>5 DEF Acts
<1> QED BY <1>1, <1>2, <1>3, <1>4, <1>5, NextActs

(* What satisfies a demand says at least as much.                           *)
LEMMA SatisfyingIsStrong ==
  ASSUME NEW required \in Coverage, NEW actual, Satisfies(required, actual)
  PROVE  Strength[actual] >= Strength[required]
BY DEF Satisfies, Coverage, Strength

(* A reviewed run is covered: every path of every task, as closely as it    *)
(* requires, in as many contexts and by all the perspectives, for any tasks *)
(* and any answers.                                                         *)
THEOREM ReviewIsCovered == Spec => []ReviewedIsCovered
<1>1. ASSUME Init PROVE CoveredInv
  BY <1>1, EarlierWereAccepted DEF Init, CoveredInv
<1>2. ASSUME CommandsInv, CoveredInv PROVE ReviewedIsCovered
  <2> SUFFICES ASSUME state \in {"REVIEWED", "ARCHIVED"}, NEW t \in Task
      PROVE LET thorough == {index[i] : i \in {j \in DOMAIN index :
                  /\ index[j].task = t
                  /\ \A path \in DOMAIN Paths[t] :
                       /\ path \in DOMAIN index[j].coverage
                       /\ Strength[index[j].coverage[path]] >= Strength[Paths[t][path]]}}
            IN  /\ Cardinality({r.context : r \in thorough}) >= Passes[t]
                /\ Perspectives[t] \subseteq {r.perspective : r \in thorough}
    BY DEF ReviewedIsCovered
  <2> DEFINE Heeds(j) == /\ index[j].task = t
                         /\ \A path \in DOMAIN Paths[t] :
                              /\ path \in DOMAIN index[j].coverage
                              /\ Strength[index[j].coverage[path]] >= Strength[Paths[t][path]]
             thorough == {index[i] : i \in {j \in DOMAIN index : Heeds(j)}}
             done == {index[i] : i \in {j \in DOMAIN index :
                                          index[j].task = t /\ index[j].completed}}
             contexts(S) == {r.context : r \in S}
  <2>1. index \in Seq(Results) /\ Len(index) \in Nat /\ DOMAIN index = 1..Len(index)
    BY <1>2 DEF CommandsInv, Typed, TypeOK
  <2>2. ASSUME NEW j \in DOMAIN index, index[j].task = t, index[j].completed PROVE Heeds(j)
    <3>1. Covers(index[j], t)
      BY <1>2, <2>2 DEF CoveredInv, Accepted
    <3>2. ASSUME NEW path \in DOMAIN Paths[t]
          PROVE  /\ path \in DOMAIN index[j].coverage
                 /\ Strength[index[j].coverage[path]] >= Strength[Paths[t][path]]
      <4>1. Paths[t][path] \in Coverage
        BY ResultConstants
      <4>2. path \in DOMAIN index[j].coverage
            /\ Satisfies(Paths[t][path], index[j].coverage[path])
        BY <3>1 DEF Covers
      <4> QED BY <4>1, <4>2, SatisfyingIsStrong
    <3> QED BY <2>2, <3>2
  <2> HIDE DEF Heeds
  <2>3. done \subseteq thorough
    BY <2>2
  <2>4. /\ Cardinality(contexts(done)) >= Passes[t]
        /\ Perspectives[t] \subseteq {r.perspective : r \in done}
    BY <1>2 DEF CoveredInv, ReviewComplete
  <2> DEFINE heeding == {j \in DOMAIN index : Heeds(j)}
             context == [j \in heeding |-> index[j].context]
  <2>5. IsFiniteSet(heeding)
    <3>1. IsFiniteSet(1..Len(index))
      BY <2>1, FS_Interval
    <3> QED BY <2>1, <3>1, FS_Subset
  <2>6. contexts(done) \subseteq contexts(thorough) /\ IsFiniteSet(contexts(thorough))
    <3>1. thorough = {index[i] : i \in heeding}
      OBVIOUS
    <3> HIDE DEF heeding, thorough, done
    <3>2. context \in Surjection(heeding, contexts(thorough))
      BY <3>1 DEF Surjection
    <3> HIDE DEF context
    <3>3. IsFiniteSet(contexts(thorough))
      <4> HIDE DEF contexts
      <4> QED BY <2>5, <3>2, FS_Surjection
    <3> QED BY <2>3, <3>3
  <2> HIDE DEF thorough, done
  <2> HIDE DEF contexts
  <2>7. /\ Cardinality(contexts(done)) <= Cardinality(contexts(thorough))
        /\ Cardinality(contexts(done)) \in Nat /\ Cardinality(contexts(thorough)) \in Nat
    BY <2>6, FS_Subset, FS_CardinalityType
  <2>8. Cardinality(contexts(thorough)) >= Passes[t]
    BY <2>4, <2>7, ResultConstants
  <2>9. Perspectives[t] \subseteq {r.perspective : r \in thorough}
    BY <2>3, <2>4
  <2> QED BY <2>8, <2>9 DEF thorough, contexts, Heeds
<1> QED BY <1>1, <1>2, CoveredStep, CommandsAreSound, PTL DEF Spec

-------------------------------------------------------------------------------
(* Unless one was missed, the comparison on disk is of all results of the   *)
(* task; while a command is at comparing, it is about to be: the slice it   *)
(* has is the index as it was, and one result is not compared.              *)
IsOfAll(results) == comparison = ComparisonOf(results)

AboutToCompare(p) ==
  pc[p] = "compare" =>
    /\ Compared(p) = Compare(Of(index, Reviewed))
    /\ Compared(p).size <= 1 => comparison = None

ComparisonInv ==
  ~missed => /\ ComparisonIsOfAll
             /\ \A p \in Proc : AboutToCompare(p)

(* Nobody is at comparing when somebody else has the lock.                  *)
LEMMA OneCompares ==
  ASSUME CommandsInv, NEW p \in Proc, pc[p] \in {"append", "compare"}
  PROVE  \A q \in Proc \ {p} : pc[q] # "compare"
BY DEF CommandsInv, CommandInv, Holding

(* What neither the comparison nor who is at comparing has to do with.      *)
LEMMA ComparisonApart ==
  ASSUME ComparisonInv, index' = index, comparison' = comparison, missed' = missed,
         \A p \in Proc : /\ pc'[p] = "compare" <=> pc[p] = "compare"
                         /\ pc[p] = "compare" => cmd'[p] = cmd[p]
  PROVE  ComparisonInv'
<1>1. \A p \in Proc : AboutToCompare(p) => AboutToCompare(p)'
  BY DEF AboutToCompare, Compared, Entry
<1>2. ComparisonIsOfAll => ComparisonIsOfAll'
  BY DEF ComparisonIsOfAll, ComparisonOf
<1> QED BY <1>1, <1>2 DEF ComparisonInv

LEMMA ComparisonOnRecord ==
  ASSUME CommandsInv, CommandsInv', ComparisonInv, NEW p \in Proc, RecordResult(p)
  PROVE  ComparisonInv'
<1> SUFFICES ASSUME ~missed' PROVE ComparisonIsOfAll' /\ \A q \in Proc : AboutToCompare(q)'
  BY DEF ComparisonInv
<1> DEFINE e == Entry(p)
           before == Of(index, Reviewed)
           after == Of(index', Reviewed)
<1>1. /\ pc[p] = "append" /\ pc' = [pc EXCEPT ![p] = "compare"] /\ comparison' = comparison
      /\ index' = AppendResult(index, e) /\ ~missed /\ LeftWith(index, e) = index
      /\ cmd' = [cmd EXCEPT ![p].left = LeftWith(index, e)]
  BY DEF RecordResult, Goto
<1>2. /\ cmd \in [Proc -> Command] /\ index \in Seq(Results)
      /\ Accepted(cmd[p].answer, Reviewed)
      /\ \A q \in Proc : pc'[q] = IF q = p THEN "compare" ELSE pc[q]
  BY <1>1 DEF CommandsInv, CommandInv, Typed, TypeOK, Acceptable
<1>3. e \in Results /\ e.task = Reviewed
  <2>1. /\ e \in Results
        /\ e = [task |-> cmd[p].answer.task, pass |-> cmd[p].answer.pass,
                        perspective |-> cmd[p].answer.perspective,
                        context |-> cmd[p].answer.context,
                        completed |-> cmd[p].answer.completed,
                        coverage |-> cmd[p].answer.coverage,
                        findings |-> cmd[p].answer.findings, by |-> cmd[p].id]
    BY <1>1, EntryIsResult DEF CommandsInv
  <2>2. cmd[p].answer.task = Reviewed
    BY <1>2 DEF Accepted
  <2> HIDE DEF e
  <2> QED BY <2>1, <2>2
<1>4. /\ OthersKeep(p) /\ cmd'[p].id = cmd[p].id /\ cmd'[p].answer = cmd[p].answer
      /\ cmd'[p].left = index
  <2>1. LeftWith(index, e) \in Seq(Results)
    BY <1>1, <1>2
  <2> HIDE DEF e
  <2> QED BY <1>1, <1>2, <2>1, SetsLeft
<1>5. Entry(p)' = e
  BY <1>4 DEF Entry
<1> HIDE DEF e
<1>6. /\ Compare(WithNew(before, e)) = Compare(after)
      /\ Cardinality(DOMAIN before) \in Nat
      /\ Cardinality(DOMAIN after) = Cardinality(DOMAIN before) + 1
  BY <1>1, <1>2, <1>3, ComparisonOfAppended
<1>7. Compared(p)' = Compare(after)
  BY <1>3, <1>4, <1>5, <1>6 DEF Compared, TaskComparison
<1>8. Compare(after).size = Cardinality(DOMAIN after)
      /\ Compare(before).size = Cardinality(DOMAIN before)
  BY DEF Compare
<1>9. comparison = ComparisonOf(index)
  <2>1. \A q \in Proc : pc[q] # "compare"
    BY <1>1, OneCompares
  <2> QED BY <1>1, <2>1 DEF ComparisonInv, ComparisonIsOfAll
<1>10. ASSUME Compare(after).size <= 1 PROVE comparison = None
  <2>1. ~(Compare(before).size > 1)
    BY <1>6, <1>8, <1>10
  <2> QED BY <1>9, <2>1 DEF ComparisonOf
<1>11. pc'[p] = "compare" /\ \A q \in Proc \ {p} : pc'[q] # "compare"
  BY <1>1, <1>2, OneCompares
<1> HIDE DEF after
<1>12. AboutToCompare(p)'
  BY <1>1, <1>7, <1>10 DEF AboutToCompare, after
<1> QED BY <1>11, <1>12 DEF AboutToCompare, ComparisonIsOfAll

LEMMA ComparisonOnWrite ==
  ASSUME CommandsInv, ComparisonInv, NEW p \in Proc, WriteComparison(p)
  PROVE  ComparisonInv'
<1> SUFFICES ASSUME ~missed' PROVE ComparisonIsOfAll' /\ \A q \in Proc : AboutToCompare(q)'
  BY DEF ComparisonInv
<1>1. /\ pc[p] = "compare" /\ pc' = [pc EXCEPT ![p] = "move"] /\ index' = index /\ ~missed
      /\ comparison' = IF Compared(p).size > 1 THEN Compared(p) ELSE comparison
  BY DEF WriteComparison, Goto
<1>2. index \in Seq(Results) /\ \A q \in Proc : pc'[q] = IF q = p THEN "move" ELSE pc[q]
  BY <1>1 DEF CommandsInv, Typed, TypeOK
<1>3. \A q \in Proc : pc'[q] # "compare"
  BY <1>1, <1>2, OneCompares
<1>4. /\ Compared(p) = Compare(Of(index, Reviewed))
      /\ Compared(p).size <= 1 => comparison = None
  BY <1>1 DEF ComparisonInv, AboutToCompare
<1>5. Compared(p).size \in Nat
  <2> DEFINE own == Of(index, Reviewed)
  <2>1. DOMAIN own \subseteq 1..Len(index) /\ Len(index) \in Nat
    BY <1>2 DEF Of, Restrict
  <2>2. IsFiniteSet(1..Len(index))
    BY <2>1, FS_Interval
  <2> HIDE DEF own
  <2>3. Cardinality(DOMAIN own) \in Nat
    BY <2>1, <2>2, FS_Subset, FS_CardinalityType
  <2>4. Compare(own).size = Cardinality(DOMAIN own)
    BY DEF Compare
  <2> QED BY <1>4, <2>3, <2>4 DEF own
<1>6. comparison' = ComparisonOf(index)
  BY <1>1, <1>4, <1>5 DEF ComparisonOf
<1> QED BY <1>1, <1>3, <1>6 DEF AboutToCompare, ComparisonIsOfAll, ComparisonOf

LEMMA ComparisonStep ==
  ASSUME CommandsInv, CommandsInv', ComparisonInv, [Next]_vars
  PROVE  ComparisonInv'
<1>1. CASE World \/ UNCHANGED vars
  <2>1. UNCHANGED <<index, comparison, missed, pc, cmd>>
    BY <1>1 DEF World, Install, Lapse, ArchiveRun, vars, record
  <2> QED BY <2>1, ComparisonApart
<1>2. ASSUME NEW p \in Proc, Acts(p) PROVE ComparisonInv'
  <2>1. CASE RecordResult(p) \/ WriteComparison(p)
    BY <2>1, ComparisonOnRecord, ComparisonOnWrite
  <2>2. CASE missed'
    BY <2>2 DEF ComparisonInv
  <2>3. ASSUME ~RecordResult(p), ~WriteComparison(p), ~missed' PROVE ComparisonInv'
    <3>1. /\ index' = index /\ comparison' = comparison /\ missed' = missed
          /\ pc[p] # "compare" /\ pc'[p] # "compare"
      <4> USE DEF record, Leave, Goto, Attempts, CommandsInv, Typed, TypeOK
      <4>1. CASE \E status \in {"planned", "packet_ready"} : Start(p, status)
        BY <4>1 DEF Start
      <4>2. CASE Attempting(p)
        BY <4>2 DEF Attempting, ReadAttempts, RefuseLock, AppendAttempt, RefuseEvent,
                    RefuseArchived, WriteAttempts, After
      <4>3. CASE Executing(p)
        BY <4>3 DEF Executing, NewCommand, StayUnauthorized, Handshake, RefuseAuthorization,
                    Deliver, FailProvider, TakeAnswer
      <4>4. CASE Recording(p)
        BY <2>3, <4>4 DEF Recording, LockRecord, RefuseRecord, RefuseAppend,
                    RefuseComparison, MoveRun, RefuseMove
      <4>5. CASE Kill(p)
        BY <2>3, <4>5 DEF Kill
      <4> QED BY <1>2, <4>1, <4>2, <4>3, <4>4, <4>5 DEF Acts
    <3>2. \A q \in Proc \ {p} : pc'[q] = pc[q] /\ cmd'[q] = cmd[q]
      BY <1>2, OthersStay DEF CommandsInv
    <3>3. \A q \in Proc : /\ pc'[q] = "compare" <=> pc[q] = "compare"
                          /\ pc[q] = "compare" => cmd'[q] = cmd[q]
      BY <3>1, <3>2
    <3> QED BY <3>1, <3>3, ComparisonApart
  <2> QED BY <2>1, <2>2, <2>3
<1> QED BY <1>1, <1>2, NextActs

(* The comparison of a task is one of all its recorded results, wherever    *)
(* Append has put them, for any number of commands, results and findings,   *)
(* unless a command compared a slice that had changed or never got there.   *)
THEOREM ComparisonsAreOfAll == Spec => []ComparisonIsOfAll
<1>1. Init => ComparisonInv
  BY DEF Init, ComparisonInv, ComparisonIsOfAll, AboutToCompare
<1>2. CommandsInv /\ CommandsInv' /\ ComparisonInv /\ [Next]_vars => ComparisonInv'
  BY ComparisonStep
<1>3. ComparisonInv => ComparisonIsOfAll
  BY DEF ComparisonInv, ComparisonIsOfAll
<1> QED BY <1>1, <1>2, <1>3, CommandsAreSound, PTL DEF Spec

-------------------------------------------------------------------------------
(* The executable a command runs is run by ProcessRunner: for any number of *)
(* descendants, any limits and any streams.                                 *)

(* The parts of the inductive invariant.  A reader that has stopped has     *)
(* passed the limit or has seen the end, after which there is nobody left   *)
(* to write; readersDone is closed by both; Run waits only after that; and  *)
(* a whole outcome was given with no limit passed.                          *)
StoppedAtEnd ==
  \A s \in Stream : reader[s] # "reading" =>
    Exceeds(s) \/ (got[s] = written[s] /\ ~Open(s))

ClosedByReaders == closed => \A s \in Stream : reader[s] = "done"

WaitsForReaders == at \in {"wait", "judge", "returned"} => closed

ReturnedWithin ==
  /\ outcome # "none" => at = "returned"
  /\ outcome \in {"ok", "failed"} => \A s \in Stream : ~Exceeds(s)

RunnerInv ==
  /\ RunnerTypeOK
  /\ StoppedAtEnd /\ ClosedByReaders /\ WaitsForReaders /\ ReturnedWithin
  /\ TreeIsGone

-------------------------------------------------------------------------------
(* The pipes, processes, counters and places are what they are called.      *)
LEMMA RunnerTypingStep == ASSUME RunnerTypeOK, [RunnerNext]_runnerVars PROVE RunnerTypeOK'
<1> USE RunnerConstants DEF RunnerTypeOK, Process, Pipe, Place
<1>1. ASSUME Environment PROVE RunnerTypeOK'
  <2>1. ASSUME NEW p \in Process, NEW d \in Descendant, Fork(p, d) PROVE RunnerTypeOK'
    BY <2>1 DEF Fork, output, readers, caller
  <2>2. ASSUME NEW p \in Process, NEW s \in Stream, Write(p, s) PROVE RunnerTypeOK'
    BY <2>2 DEF Write, processes, readers, caller
  <2>3. ASSUME NEW p \in Process, NEW pipe \in Pipe, Close(p, pipe) PROVE RunnerTypeOK'
    BY <2>3 DEF Close, output, readers, caller
  <2>4. ASSUME NEW p \in Process, ReadStdin(p) PROVE RunnerTypeOK'
    BY <2>4 DEF ReadStdin, processes, output, readers, caller
  <2>5. ASSUME NEW p \in Process, NEW status \in {"ok", "failed"}, Exit(p, status)
        PROVE RunnerTypeOK'
    BY <2>5 DEF Exit, End, output, readers, caller
  <2>6. ASSUME NEW d \in Descendant, LeaveGroup(d) PROVE RunnerTypeOK'
    BY <2>6 DEF LeaveGroup, output, readers, caller
  <2>7. ASSUME EndContext PROVE RunnerTypeOK'
    BY <2>7 DEF EndContext, Wake, processes, output, readers
  <2> QED BY <1>1, <2>1, <2>2, <2>3, <2>4, <2>5, <2>6, <2>7 DEF Environment
<1>2. ASSUME NEW s \in Stream, Reading(s) PROVE RunnerTypeOK'
  <2>1. CASE Read(s) BY <2>1 DEF Read, processes, readers, caller
  <2>2. CASE FinishReading(s) BY <2>2 DEF FinishReading, processes, output, caller
  <2>3. CASE ReportLimit(s) BY <2>3 DEF ReportLimit, Wake, processes, output
  <2> QED BY <1>2, <2>1, <2>2, <2>3 DEF Reading
<1>3. ASSUME CloseReadersDone PROVE RunnerTypeOK'
  BY <1>3 DEF CloseReadersDone, Wake, processes, output
<1>4. ASSUME WatchCancellation PROVE RunnerTypeOK'
  BY <1>4 DEF WatchCancellation, KillAll, End, processes, output, readers, caller
<1>5. ASSUME KillChild PROVE RunnerTypeOK'
  BY <1>5 DEF KillChild, KillAll, End, output, readers, caller
<1>6. ASSUME BreakStdin PROVE RunnerTypeOK'
  BY <1>6 DEF BreakStdin, processes, output, readers, caller
<1>7. ASSUME Running PROVE RunnerTypeOK'
  <2>1. CASE Select BY <2>1 DEF Select, processes, output, readers
  <2>2. CASE TerminateTree BY <2>2 DEF TerminateTree, KillAll, End, output, readers
  <2>3. CASE Drain BY <2>3 DEF Drain, processes, output, readers
  <2>4. CASE Wait BY <2>4 DEF Wait, processes, output, readers
  <2>5. CASE Return BY <2>5 DEF Return, Verdict, processes, output, readers
  <2> QED BY <1>7, <2>1, <2>2, <2>3, <2>4, <2>5 DEF Running
<1>8. ASSUME UNCHANGED runnerVars PROVE RunnerTypeOK'
  BY <1>8 DEF runnerVars, processes, output, readers, caller
<1> QED BY <1>1, <1>2, <1>3, <1>4, <1>5, <1>6, <1>7, <1>8 DEF RunnerNext

-------------------------------------------------------------------------------
(* Who could write to a stream may only become fewer: a process shares what *)
(* it has when it forks, and nothing gives a process a pipe otherwise.      *)
LEMMA NobodyComesBack ==
  ASSUME RunnerTypeOK, [RunnerNext]_runnerVars, NEW s \in Stream, ~Open(s)
  PROVE  ~Open(s)' /\ written'[s] = written[s]
<1> USE RunnerConstants DEF RunnerTypeOK, Process, Open
<1>1. ASSUME NEW p \in Process, NEW d \in Descendant, Fork(p, d)
      PROVE  ~Open(s)' /\ written'[s] = written[s]
  BY <1>1 DEF Fork, output
<1>2. ASSUME NEW p \in Process, NEW t \in Stream, Write(p, t)
      PROVE  ~Open(s)' /\ written'[s] = written[s]
  BY <1>2 DEF Write, processes
<1>3. ASSUME NEW p \in Process, NEW pipe \in Pipe, Close(p, pipe)
      PROVE  ~Open(s)' /\ written'[s] = written[s]
  BY <1>3 DEF Close, output
<1>4. ASSUME NEW S, NEW status, End(S, status), UNCHANGED output
      PROVE  ~Open(s)' /\ written'[s] = written[s]
  BY <1>4 DEF End, output
<1>5. ASSUME NEW d \in Descendant, LeaveGroup(d)
      PROVE  ~Open(s)' /\ written'[s] = written[s]
  BY <1>5 DEF LeaveGroup, output
<1>6. ASSUME UNCHANGED <<processes, written>>
      PROVE  ~Open(s)' /\ written'[s] = written[s]
  BY <1>6 DEF processes
<1>7. ASSUME Environment PROVE ~Open(s)' /\ written'[s] = written[s]
  BY <1>1, <1>2, <1>3, <1>4, <1>5, <1>6, <1>7
     DEF Environment, Exit, ReadStdin, EndContext, output
<1>8. ASSUME NEW t \in Stream, Reading(t) PROVE ~Open(s)' /\ written'[s] = written[s]
  BY <1>6, <1>8 DEF Reading, Read, FinishReading, ReportLimit, output
<1>9. ASSUME CloseReadersDone \/ BreakStdin PROVE ~Open(s)' /\ written'[s] = written[s]
  BY <1>6, <1>9 DEF CloseReadersDone, BreakStdin, output
<1>10. ASSUME WatchCancellation \/ KillChild PROVE ~Open(s)' /\ written'[s] = written[s]
  BY <1>4, <1>6, <1>10 DEF WatchCancellation, KillChild, KillAll, output
<1>11. ASSUME Running PROVE ~Open(s)' /\ written'[s] = written[s]
  BY <1>4, <1>6, <1>11
     DEF Running, Select, TerminateTree, Drain, Wait, Return, KillAll, output
<1>12. ASSUME UNCHANGED runnerVars PROVE ~Open(s)' /\ written'[s] = written[s]
  BY <1>6, <1>12 DEF runnerVars, output
<1> QED BY <1>7, <1>8, <1>9, <1>10, <1>11, <1>12 DEF RunnerNext

(* Only the reader of a stream advances it, and only while it reads.        *)
LEMMA ReadersStep ==
  ASSUME RunnerTypeOK, [RunnerNext]_runnerVars, NEW s \in Stream
  PROVE  \/ UNCHANGED <<reader[s], got[s]>>
         \/ Reading(s)
<1> USE DEF RunnerTypeOK
<1>1. ASSUME NEW t \in Stream, Reading(t), t # s PROVE UNCHANGED <<reader[s], got[s]>>
  BY <1>1 DEF Reading, Read, FinishReading, ReportLimit, output, readers
<1>2. ASSUME Environment PROVE UNCHANGED <<reader[s], got[s]>>
  BY <1>2 DEF Environment, Fork, Write, Close, ReadStdin, Exit, LeaveGroup, EndContext,
              output, readers
<1>3. ASSUME Running PROVE UNCHANGED <<reader[s], got[s]>>
  BY <1>3 DEF Running, Select, TerminateTree, Drain, Wait, Return, output, readers
<1>4. ASSUME CloseReadersDone \/ WatchCancellation \/ KillChild \/ BreakStdin
      PROVE UNCHANGED <<reader[s], got[s]>>
  BY <1>4 DEF CloseReadersDone, WatchCancellation, KillChild, BreakStdin, output, readers
<1>5. ASSUME UNCHANGED runnerVars PROVE UNCHANGED <<reader[s], got[s]>>
  BY <1>5 DEF runnerVars, output, readers
<1> QED BY <1>1, <1>2, <1>3, <1>4, <1>5 DEF RunnerNext

(* A reader that has stopped stays where it stopped: past the limit, or at  *)
(* an end behind which nobody can write.                                    *)
LEMMA StoppedStep == ASSUME RunnerTypeOK, StoppedAtEnd, [RunnerNext]_runnerVars PROVE StoppedAtEnd'
<1> USE RunnerConstants DEF RunnerTypeOK, Exceeds
<1> SUFFICES ASSUME NEW s \in Stream, reader'[s] # "reading"
             PROVE  (got'[s] > Limit[s]) \/ (got'[s] = written'[s] /\ ~Open(s)')
  BY DEF StoppedAtEnd
<1>1. CASE UNCHANGED <<reader[s], got[s]>>
  BY <1>1, NobodyComesBack DEF StoppedAtEnd
<1>2. CASE Reading(s)
  <2>1. CASE Read(s) BY <2>1 DEF Read, readers
  <2>2. CASE FinishReading(s) /\ Enough(s) BY <2>2 DEF FinishReading, Enough, output
  <2>3. CASE FinishReading(s) /\ EndOfFile(s)
    BY <2>3, NobodyComesBack DEF FinishReading, EndOfFile, InPipe, output
  <2>4. CASE ReportLimit(s)
    BY <2>4, NobodyComesBack DEF ReportLimit, StoppedAtEnd, output
  <2> QED BY <1>2, <2>1, <2>2, <2>3, <2>4 DEF Reading, FinishReading
<1> QED BY <1>1, <1>2, ReadersStep

-------------------------------------------------------------------------------
(* readersDone is closed by readers that are both done, and Run does not    *)
(* get past its select, or its drain, before.                               *)
LEMMA ClosingStep ==
  ASSUME RunnerTypeOK, ClosedByReaders, WaitsForReaders, [RunnerNext]_runnerVars
  PROVE  ClosedByReaders' /\ WaitsForReaders'
<1> USE DEF RunnerTypeOK, Place
<1>1. ClosedByReaders'
  <2>1. CASE closed' = closed
    BY <2>1, ReadersStep DEF ClosedByReaders, Reading, Read, FinishReading, ReportLimit
  <2>2. CASE CloseReadersDone
    BY <2>2 DEF ClosedByReaders, CloseReadersDone
  <2>3. closed' = closed \/ CloseReadersDone
    BY DEF RunnerNext, Environment, Fork, Write, Close, ReadStdin, Exit, LeaveGroup, EndContext,
           Reading, Read, FinishReading, ReportLimit, WatchCancellation, KillChild,
           BreakStdin, Running, Select, TerminateTree, Drain, Wait, Return, readers, runnerVars
  <2> QED BY <2>1, <2>2, <2>3
<1>2. WaitsForReaders'
  <2> USE DEF WaitsForReaders
  <2>1. CASE Environment
    BY <2>1 DEF Environment, Fork, Write, Close, ReadStdin, Exit, LeaveGroup, EndContext,
                Wake, readers, caller
  <2>2. CASE \E s \in Stream : Reading(s)
    BY <2>2 DEF Reading, Read, FinishReading, ReportLimit, Wake, readers, caller
  <2>3. CASE CloseReadersDone
    BY <2>3 DEF CloseReadersDone
  <2>4. CASE WatchCancellation \/ KillChild \/ BreakStdin
    BY <2>4 DEF WatchCancellation, KillChild, BreakStdin, readers, caller
  <2>5. CASE Running
    BY <2>5 DEF Running, Select, TerminateTree, Drain, Wait, Return, readers
  <2>6. CASE UNCHANGED runnerVars
    BY <2>6 DEF runnerVars, readers, caller
  <2> QED BY <2>1, <2>2, <2>3, <2>4, <2>5, <2>6 DEF RunnerNext
<1> QED BY <1>1, <1>2

(* An outcome is given once, when both readers have stopped for good.       *)
LEMMA OutcomeStep ==
  ASSUME RunnerTypeOK, ClosedByReaders, WaitsForReaders, ReturnedWithin, [RunnerNext]_runnerVars
  PROVE  ReturnedWithin'
<1> USE DEF RunnerTypeOK, Place
<1>1. at = "returned" => UNCHANGED <<at, outcome, reader, got>>
  <2> SUFFICES ASSUME at = "returned" PROVE UNCHANGED <<at, outcome, reader, got>>
    OBVIOUS
  <2>1. \A s \in Stream : reader[s] = "done"
    BY DEF ClosedByReaders, WaitsForReaders
  <2>2. CASE Environment
    BY <2>2 DEF Environment, Fork, Write, Close, ReadStdin, Exit, LeaveGroup, EndContext,
                Wake, readers, caller, output
  <2>3. ASSUME NEW s \in Stream, Reading(s) PROVE FALSE
    BY <2>1, <2>3 DEF Reading, Read, FinishReading, ReportLimit
  <2>4. CASE CloseReadersDone
    BY <2>4 DEF CloseReadersDone, WaitsForReaders
  <2>5. CASE WatchCancellation \/ KillChild \/ BreakStdin
    BY <2>5 DEF WatchCancellation, KillChild, BreakStdin, readers, caller, output
  <2>6. CASE Running
    BY <2>6 DEF Running, Select, TerminateTree, Drain, Wait, Return
  <2>7. CASE UNCHANGED runnerVars
    BY <2>7 DEF runnerVars, readers, caller, output
  <2> QED BY <2>2, <2>3, <2>4, <2>5, <2>6, <2>7 DEF RunnerNext
<1>2. outcome' = outcome \/ Return
  BY DEF RunnerNext, Environment, Fork, Write, Close, ReadStdin, Exit, LeaveGroup, EndContext,
         Reading, Read, FinishReading, ReportLimit, CloseReadersDone, WatchCancellation,
         KillChild, BreakStdin, Running, Select, TerminateTree, Drain, Wait, caller, runnerVars
<1>3. CASE outcome = "none" /\ outcome' = outcome
  BY <1>3 DEF ReturnedWithin
<1>4. CASE outcome # "none" /\ outcome' = outcome
  BY <1>1, <1>4 DEF ReturnedWithin, Exceeds
<1>5. CASE Return
  <2>1. at' = "returned" /\ got' = got /\ outcome' = Verdict
    BY <1>5 DEF Return, output
  <2>2. Verdict \in {"ok", "failed"} => \A s \in Stream : ~Exceeds(s)
    BY DEF Verdict
  <2> QED BY <2>1, <2>2 DEF ReturnedWithin, Exceeds
<1> QED BY <1>2, <1>3, <1>4, <1>5

(* A group that is empty stays so: nobody joins it but a child of one in    *)
(* it, and what Run kills is the group as it is then.                       *)
LEMMA GoneStep == ASSUME RunnerTypeOK, TreeIsGone, [RunnerNext]_runnerVars PROVE TreeIsGone'
<1> USE DEF RunnerTypeOK, TreeIsGone
<1>1. CASE killed /\ Environment
  BY <1>1 DEF Environment, Fork, Write, Close, ReadStdin, Exit, End, LeaveGroup, EndContext,
              processes, caller
<1>2. CASE TerminateTree
  BY <1>2 DEF TerminateTree, KillAll, End, Killed
<1>3. CASE killed /\ (WatchCancellation \/ KillChild)
  BY <1>3 DEF WatchCancellation, KillChild, KillAll, End, processes, caller
<1>4. CASE UNCHANGED <<alive, group, killed>>
  BY <1>4
<1>5. ~killed => ~killed' \/ TerminateTree
  BY DEF RunnerNext, Environment, Fork, Write, Close, ReadStdin, Exit, LeaveGroup, EndContext,
         Reading, Read, FinishReading, ReportLimit, CloseReadersDone, WatchCancellation,
         KillChild, BreakStdin, Running, Select, Drain, Wait, Return, caller, runnerVars
<1>6. \/ Environment \/ TerminateTree \/ WatchCancellation \/ KillChild
      \/ UNCHANGED <<alive, group, killed>>
  BY DEF RunnerNext, Reading, Read, FinishReading, ReportLimit, CloseReadersDone, BreakStdin,
         Running, Select, Drain, Wait, Return, processes, caller, runnerVars
<1> QED BY <1>1, <1>2, <1>3, <1>4, <1>5, <1>6

-------------------------------------------------------------------------------
(* The inductive invariant of a call.                                       *)
THEOREM RunnerIsInvariant == RunnerSpec => []RunnerInv
<1>1. RunnerInit => RunnerInv
  <2> SUFFICES ASSUME RunnerInit PROVE RunnerInv
    OBVIOUS
  <2> USE RunnerConstants DEF RunnerInit
  <2>1. RunnerTypeOK
    BY DEF RunnerTypeOK, Process, Pipe, Place
  <2> QED
    BY <2>1 DEF RunnerInv, StoppedAtEnd, ClosedByReaders, WaitsForReaders, ReturnedWithin,
                TreeIsGone
<1>2. RunnerInv /\ [RunnerNext]_runnerVars => RunnerInv'
  BY RunnerTypingStep, StoppedStep, ClosingStep, OutcomeStep, GoneStep DEF RunnerInv
<1> QED BY <1>1, <1>2, PTL DEF RunnerSpec

(* What is reported as whole is all that was written, for any number of     *)
(* descendants and any limits: when Run gives its outcome both readers have *)
(* stopped below the limit, which is at an end nobody can move any more.    *)
THEOREM OutputIsWhole == RunnerSpec => []WholeOutput
<1>1. RunnerInv => WholeOutput
  BY DEF RunnerInv, WholeOutput, ReturnedWithin, WaitsForReaders, ClosedByReaders,
         StoppedAtEnd, RunnerTypeOK
<1> QED BY <1>1, RunnerIsInvariant, PTL

(* A tree that Run has killed stays gone, however many descendants fork     *)
(* meanwhile.                                                               *)
THEOREM TreeStaysGone == RunnerSpec => []TreeIsGone
<1>1. RunnerInv => TreeIsGone
  BY DEF RunnerInv
<1> QED BY <1>1, RunnerIsInvariant, PTL
===============================================================================
