----------------------------- MODULE ReviewRunProofs ----------------------------
(* Proofs about ReviewRun, for any number of commands, any tasks, answers,  *)
(* findings and fix scopes.                                                 *)
EXTENDS ReviewRun, FiniteSetTheorems, TLAPS

Early == {"PREPARED", "CONTRACTED", "REVIEWING"}

Decided == Decision \cup {"fix_authorized"}

(* What a command has in memory where it is, whatever the others do.        *)
InHand(p) ==
  LET op == cmd[p].op
  IN  /\ pc[p] \in {"lock", "ledger"} => op \in {"record", "finding", "fix"}
      /\ pc[p] \in {"check", "results", "reviewing", "reviewed"} => op = "record"
      /\ pc[p] \in {"approve", "authorize"} => op = "fix"
      /\ pc[p] \in {"read", "judge"} => op \in {"verify", "finalize"}
      /\ pc[p] = "advance" => op \in {"plan", "verify", "finalize", "refresh"}
      /\ pc[p] = "begin" => op = "refresh"
      /\ pc[p] # "idle" /\ op \in {"fix", "refresh"} => cmd[p].scope \in Scope
      /\ pc[p] = "advance" =>
           cmd[p].next \in CASE op = "plan" -> {"CONTRACTED"}
                             [] op = "refresh" -> {"MUTATED"}
                             [] OTHER -> {"GATED", "REREVIEWED", "FINALIZED"}
      /\ pc[p] \in {"lock", "check", "results"} /\ op = "record" =>
           \A r, s \in cmd[p].batch : KeyOf(r) = KeyOf(s) => r = s
      /\ pc[p] \in {"results", "ledger"} /\ op = "record" =>
           cmd[p].ids = FindingsOf(cmd[p].batch)
      /\ pc[p] \in {"lock", "ledger"} /\ op = "fix" => cmd[p].next = "fix_authorized"
      /\ pc[p] \in {"lock", "ledger"} /\ op # "record" =>
           /\ cmd[p].next \in Decided
           /\ \A f \in cmd[p].ids : AllowedFindingTransition(cmd[p].seen[f], cmd[p].next)

Typed == TypeOK /\ \A p \in Proc : InHand(p)

-------------------------------------------------------------------------------
(* A process changes its own memory only.                                   *)
OthersKeep(p) ==
  /\ cmd' \in [Proc -> Command] /\ pc' \in [Proc -> Pc]
  /\ \A q \in Proc \ {p} : cmd'[q] = cmd[q] /\ pc'[q] = pc[q]

LEMMA NothingIsCommand == Nothing \in Command
<1>1. [f \in Finding |-> Absent] \in Ledger
  BY DEF Ledger
<1> QED BY <1>1 DEF Nothing, Command, Op

LEMMA Sets ==
  ASSUME cmd \in [Proc -> Command], NEW p \in Proc, NEW c \in Command,
         cmd' = [cmd EXCEPT ![p] = c]
  PROVE  /\ cmd' \in [Proc -> Command] /\ cmd'[p] = c
         /\ \A q \in Proc \ {p} : cmd'[q] = cmd[q]
OBVIOUS

LEMMA InitTyped == ASSUME Init PROVE Typed
<1> USE ReviewConstants DEF Init
<1>1. cmd \in [Proc -> Command]
  BY NothingIsCommand
<1>2. ledger \in Ledger /\ files \in [Key -> Result \cup {NoResult}]
  BY DEF Ledger
<1>3. TypeOK
  BY <1>1, <1>2 DEF TypeOK, State, Pc
<1>4. \A p \in Proc : InHand(p)
  BY DEF InHand
<1> QED BY <1>3, <1>4 DEF Typed

(* The ledger that a command writes is one.                                 *)
LEMMA NewLedgerTyped ==
  ASSUME Typed, NEW p \in Proc, pc[p] = "ledger"
  PROVE  NewLedger(p) \in Ledger
<1>1. cmd[p] \in Command /\ InHand(p)
  BY DEF Typed, TypeOK
<1>2. cmd[p].seen \in Ledger
  BY <1>1 DEF Command
<1>3. cmd[p].op # "record" => cmd[p].next \in FindingState
  BY <1>1 DEF InHand, Decided, Decision, FindingState
<1>4. \A f \in Finding : Imported[f] \in FindingState
  BY ReviewConstants DEF FindingState
<1> QED BY <1>2, <1>3, <1>4 DEF NewLedger, Ledger

LEMMA FindingsAreFindings ==
  ASSUME NEW batch \in SUBSET Result
  PROVE  FindingsOf(batch) \in SUBSET Finding
BY ReviewConstants DEF FindingsOf

-------------------------------------------------------------------------------
(* A command that begins knows what it is given, one that leaves nothing.   *)
LEMMA BeginsTyped ==
  ASSUME Typed, NEW p \in Proc, NEW first \in Pc, NEW c \in Command, Begins(p, first, c)
  PROVE  TypeOK' /\ OthersKeep(p) /\ cmd'[p] = c /\ pc'[p] = first
<1>1. cmd' \in [Proc -> Command] /\ cmd'[p] = c /\ \A q \in Proc \ {p} : cmd'[q] = cmd[q]
  <2>1. cmd \in [Proc -> Command] /\ cmd' = [cmd EXCEPT ![p] = c]
    BY DEF Typed, TypeOK, Begins
  <2> QED BY <2>1, Sets
<1>2. pc' \in [Proc -> Pc] /\ pc'[p] = first /\ \A q \in Proc \ {p} : pc'[q] = pc[q]
  BY DEF Typed, TypeOK, Begins, Goto
<1> QED BY <1>1, <1>2 DEF Typed, TypeOK, Begins, OthersKeep, world, records

LEMMA LeaveTyped ==
  ASSUME Typed, NEW p \in Proc, Leave(p)
  PROVE  /\ OthersKeep(p) /\ cmd'[p] = Nothing /\ pc'[p] = "idle"
         /\ lock' \in Proc \cup {NoOne} /\ InHand(p)'
<1>1. cmd' \in [Proc -> Command] /\ cmd'[p] = Nothing /\ \A q \in Proc \ {p} : cmd'[q] = cmd[q]
  <2>1. cmd \in [Proc -> Command] /\ cmd' = [cmd EXCEPT ![p] = Nothing]
    BY DEF Typed, TypeOK, Leave
  <2> QED BY <2>1, Sets, NothingIsCommand
<1>2. pc' \in [Proc -> Pc] /\ pc'[p] = "idle" /\ \A q \in Proc \ {p} : pc'[q] = pc[q]
  BY DEF Typed, TypeOK, Leave, Pc
<1>3. lock' \in Proc \cup {NoOne}
  BY DEF Typed, TypeOK, Leave, Release
<1> QED BY <1>1, <1>2, <1>3 DEF OthersKeep, InHand

LEMMA OthersInHand ==
  ASSUME Typed, NEW p \in Proc, OthersKeep(p), InHand(p)'
  PROVE  \A q \in Proc : InHand(q)'
<1> SUFFICES ASSUME NEW q \in Proc \ {p} PROVE InHand(q)'
  OBVIOUS
<1>1. InHand(q) /\ cmd'[q] = cmd[q] /\ pc'[q] = pc[q]
  BY DEF Typed, OthersKeep
<1> QED BY <1>1 DEF InHand

LEMMA StartTyped == ASSUME Typed, NEW p \in Proc, Start(p) PROVE Typed'
<1>1. ASSUME NEW first \in Pc, NEW c \in Command, Begins(p, first, c),
             OthersKeep(p) /\ cmd'[p] = c /\ pc'[p] = first => InHand(p)'
      PROVE Typed'
  BY <1>1, BeginsTyped, OthersInHand DEF Typed
<1>2. CASE StartPlan(p)
  <2> DEFINE c == [Nothing EXCEPT !.op = "plan", !.next = "CONTRACTED"]
  <2>1. c \in Command /\ c.op = "plan" /\ c.next = "CONTRACTED"
    BY NothingIsCommand DEF Command, Op, State, Nothing
  <2>2. Begins(p, "advance", c) /\ "advance" \in Pc
    BY <1>2 DEF StartPlan, Pc
  <2> HIDE DEF c
  <2> QED BY <1>1, <2>1, <2>2 DEF InHand
<1>3. CASE StartGates(p)
  <2> DEFINE c == [Nothing EXCEPT !.op = "gates"]
  <2>1. c \in Command /\ c.op = "gates"
    BY NothingIsCommand DEF Command, Op, Nothing
  <2>2. Begins(p, "gating", c) /\ "gating" \in Pc
    BY <1>3 DEF StartGates, Pc
  <2> HIDE DEF c
  <2> QED BY <1>1, <2>1, <2>2 DEF InHand
<1>4. CASE StartRefresh(p)
  <2> DEFINE c == [Nothing EXCEPT !.op = "refresh", !.next = "MUTATED", !.scope = tree]
  <2>1. tree \in Scope
    BY <1>4 DEF StartRefresh, Typed, TypeOK, Fresh
  <2>2. c \in Command /\ c.op = "refresh" /\ c.next = "MUTATED" /\ c.scope = tree
    BY <2>1, NothingIsCommand DEF Command, Op, State, Nothing
  <2>3. Begins(p, "advance", c) /\ "advance" \in Pc
    BY <1>4 DEF StartRefresh, Pc
  <2> HIDE DEF c
  <2> QED BY <1>1, <2>1, <2>2, <2>3 DEF InHand
<1>5. ASSUME NEW batch \in Batches, StartRecord(p, batch) PROVE Typed'
  <2> DEFINE c == [Nothing EXCEPT !.op = "record", !.batch = batch]
  <2>1. c \in Command /\ c.op = "record" /\ c.batch = batch
    BY NothingIsCommand DEF Command, Op, Nothing, Batches
  <2>2. Begins(p, "lock", c) /\ "lock" \in Pc
    BY <1>5 DEF StartRecord, Pc
  <2>3. \A r, s \in batch : KeyOf(r) = KeyOf(s) => r = s
    BY <1>5 DEF StartRecord
  <2> HIDE DEF c
  <2> QED BY <1>1, <2>1, <2>2, <2>3 DEF InHand
<1>6. ASSUME NEW f \in Finding, NEW decision \in Decision, StartFinding(p, f, decision)
      PROVE Typed'
  <2> DEFINE c == [Nothing EXCEPT !.op = "finding", !.ids = {f}, !.seen = ledger,
                                  !.next = decision]
  <2>1. decision \in FindingState /\ ledger \in Ledger
    BY DEF Decision, FindingState, Typed, TypeOK
  <2>2. c \in Command /\ c.op = "finding" /\ c.ids = {f} /\ c.seen = ledger
        /\ c.next = decision
    BY <2>1, NothingIsCommand DEF Command, Op, Nothing
  <2>3. Begins(p, "lock", c) /\ "lock" \in Pc
    BY <1>6 DEF StartFinding, Pc
  <2>4. AllowedFindingTransition(ledger[f], decision) /\ decision \in Decided
    BY <1>6 DEF StartFinding, Decided
  <2> HIDE DEF c
  <2> QED BY <1>1, <2>1, <2>2, <2>3, <2>4 DEF InHand
<1>7. ASSUME NEW ids \in (SUBSET Finding) \ {{}}, NEW scope \in Scope, StartFix(p, ids, scope)
      PROVE Typed'
  <2> DEFINE c == [Nothing EXCEPT !.op = "fix", !.ids = ids, !.scope = scope,
                                  !.seen = ledger, !.next = "fix_authorized"]
  <2>1. "fix_authorized" \in FindingState /\ ledger \in Ledger
    BY DEF FindingState, Typed, TypeOK
  <2>2. c \in Command /\ c.op = "fix" /\ c.ids = ids /\ c.seen = ledger
        /\ c.scope = scope /\ c.next = "fix_authorized"
    BY <2>1, NothingIsCommand DEF Command, Op, Nothing
  <2>3. Begins(p, "lock", c) /\ "lock" \in Pc
    BY <1>7 DEF StartFix, Pc
  <2>4. AllowedFindingTransition("confirmed", "fix_authorized")
    BY DEF AllowedFindingTransition, AllowedNext, FindingState
  <2>5. \A f \in ids : ledger[f] = "confirmed"
    BY <1>7 DEF StartFix
  <2> HIDE DEF c
  <2> QED BY <1>1, <2>1, <2>2, <2>3, <2>4, <2>5 DEF InHand, Decided
<1>8. ASSUME NEW op \in {"verify", "finalize"}, StartVerify(p, op) PROVE Typed'
  <2> DEFINE c == [Nothing EXCEPT !.op = op, !.loaded = state, !.batch = index]
  <2>1. c \in Command /\ c.op = op
    BY NothingIsCommand DEF Command, Op, Nothing, Typed, TypeOK
  <2>2. Begins(p, "read", c) /\ "read" \in Pc
    BY <1>8 DEF StartVerify, Pc
  <2> HIDE DEF c
  <2> QED BY <1>1, <2>1, <2>2 DEF InHand
<1> QED BY <1>2, <1>3, <1>4, <1>5, <1>6, <1>7, <1>8 DEF Start

LEMMA GoesTyped ==
  ASSUME Typed, NEW p \in Proc, NEW from, NEW to \in Pc, Goto(p, from, to), cmd' = cmd
  PROVE  OthersKeep(p) /\ cmd'[p] = cmd[p] /\ pc[p] = from /\ pc'[p] = to
BY DEF Typed, TypeOK, Goto, OthersKeep

LEMMA AdvanceTyped == ASSUME Typed, NEW p \in Proc, Advance(p) PROVE Typed'
<1>1. cmd[p] \in Command /\ InHand(p) /\ pc[p] = "advance"
  BY DEF Typed, TypeOK, Advance
<1>2. state' \in State
  BY <1>1 DEF Advance, InHand, State
<1>3. CASE cmd[p].op = "refresh" \/ After(p) # NoRun
  <2> DEFINE c == [cmd[p] EXCEPT !.next = After(p)]
  <2>1. After(p) \in State \cup {NoRun}
    BY DEF After, State
  <2>2. c \in Command /\ c.op = cmd[p].op /\ c.scope = cmd[p].scope /\ c.next = After(p)
    BY <1>1, <2>1 DEF Command
  <2>3. cmd' = [cmd EXCEPT ![p] = c]
    BY <1>3 DEF Advance
  <2>4. cmd' \in [Proc -> Command] /\ cmd'[p] = c /\ \A q \in Proc \ {p} : cmd'[q] = cmd[q]
    <3>1. cmd \in [Proc -> Command]
      BY DEF Typed, TypeOK
    <3> HIDE DEF c
    <3> QED BY <2>2, <2>3, <3>1, Sets
  <2> HIDE DEF c
  <2>5. /\ pc' \in [Proc -> Pc] /\ \A q \in Proc \ {p} : pc'[q] = pc[q]
        /\ pc'[p] = IF cmd[p].op = "refresh" THEN "begin" ELSE "advance"
    BY <1>1, <1>3 DEF Advance, Typed, TypeOK, Pc
  <2>6. InHand(p)'
    BY <1>1, <1>3, <2>2, <2>4, <2>5 DEF InHand, After, NoRun
  <2>7. OthersKeep(p)
    BY <2>4, <2>5 DEF OthersKeep
  <2>8. TypeOK'
    BY <1>2, <1>3, <2>4, <2>5 DEF Typed, TypeOK, Advance, world, records
  <2> QED BY <2>6, <2>7, <2>8, OthersInHand DEF Typed
<1>4. CASE ~(cmd[p].op = "refresh" \/ After(p) # NoRun)
  <2>1. Leave(p)
    BY <1>4 DEF Advance
  <2>2. /\ OthersKeep(p) /\ lock' \in Proc \cup {NoOne} /\ InHand(p)'
    BY <2>1, LeaveTyped
  <2>3. TypeOK'
    BY <1>2, <2>2 DEF Typed, TypeOK, Advance, OthersKeep, world, records
  <2> QED BY <2>2, <2>3, OthersInHand DEF Typed
<1> QED BY <1>3, <1>4

LEMMA CheckTyped == ASSUME Typed, NEW p \in Proc, CheckRecord(p) PROVE Typed'
<1>1. cmd[p] \in Command /\ InHand(p) /\ pc[p] = "check" /\ ledger \in Ledger /\ state \in State
  BY DEF Typed, TypeOK, CheckRecord, Goto
<1> DEFINE new == FindingsOf(cmd[p].batch)
           c == [cmd[p] EXCEPT !.seen = ledger, !.loaded = state, !.ids = new]
<1>2. new \in SUBSET Finding
  BY <1>1, FindingsAreFindings DEF Command
<1>3. c \in Command /\ c.op = cmd[p].op /\ c.batch = cmd[p].batch /\ c.ids = new
  <2> HIDE DEF new
  <2> QED BY <1>1, <1>2 DEF Command
<1>4. cmd' = [cmd EXCEPT ![p] = c]
  BY DEF CheckRecord
<1>5. cmd' \in [Proc -> Command] /\ cmd'[p] = c /\ \A q \in Proc \ {p} : cmd'[q] = cmd[q]
  <2>1. cmd \in [Proc -> Command]
    BY DEF Typed, TypeOK
  <2> HIDE DEF c
  <2> QED BY <1>3, <1>4, <2>1, Sets
<1> HIDE DEF c
<1>6. pc' \in [Proc -> Pc] /\ pc'[p] = "results" /\ \A q \in Proc \ {p} : pc'[q] = pc[q]
  BY DEF CheckRecord, Goto, Typed, TypeOK, Pc
<1>7. InHand(p)'
  BY <1>1, <1>3, <1>5, <1>6 DEF InHand
<1>8. OthersKeep(p)
  BY <1>5, <1>6 DEF OthersKeep
<1>9. TypeOK'
  BY <1>5, <1>6 DEF Typed, TypeOK, CheckRecord, world, records
<1> QED BY <1>7, <1>8, <1>9, OthersInHand DEF Typed

LEMMA WriteLedgerTyped == ASSUME Typed, NEW p \in Proc, WriteLedger(p) PROVE Typed'
<1>1. cmd[p] \in Command /\ InHand(p) /\ pc[p] = "ledger" /\ overwrote' \in BOOLEAN
  BY DEF Typed, TypeOK, WriteLedger
<1>2. ledger' \in Ledger
  BY <1>1, NewLedgerTyped DEF WriteLedger
<1>3. CASE cmd[p].op \in DOMAIN AfterLedger
  <2> DEFINE c == [cmd[p] EXCEPT !.seen = Nothing.seen]
  <2>1. Nothing.seen \in Ledger
    BY NothingIsCommand DEF Command
  <2>2. c \in Command /\ c.op = cmd[p].op /\ c.scope = cmd[p].scope
    BY <1>1, <2>1 DEF Command
  <2>3. cmd' = [cmd EXCEPT ![p] = c]
    BY <1>3 DEF WriteLedger
  <2>4. cmd' \in [Proc -> Command] /\ cmd'[p] = c /\ \A q \in Proc \ {p} : cmd'[q] = cmd[q]
    <3>1. cmd \in [Proc -> Command]
      BY DEF Typed, TypeOK
    <3> HIDE DEF c
    <3> QED BY <2>2, <2>3, <3>1, Sets
  <2> HIDE DEF c
  <2>5. /\ pc' \in [Proc -> Pc] /\ \A q \in Proc \ {p} : pc'[q] = pc[q]
        /\ pc'[p] = IF cmd[p].op = "record" THEN "reviewing" ELSE "approve"
    BY <1>1, <1>3 DEF WriteLedger, Typed, TypeOK, Pc, AfterLedger
  <2>6. InHand(p)'
    BY <1>1, <1>3, <2>2, <2>4, <2>5 DEF InHand, AfterLedger
  <2>7. OthersKeep(p)
    BY <2>4, <2>5 DEF OthersKeep
  <2>8. TypeOK'
    BY <1>1, <1>2, <1>3, <2>4, <2>5 DEF Typed, TypeOK, WriteLedger, world
  <2> QED BY <2>6, <2>7, <2>8, OthersInHand DEF Typed
<1>4. CASE cmd[p].op \notin DOMAIN AfterLedger
  <2>1. Leave(p)
    BY <1>4 DEF WriteLedger
  <2>2. /\ OthersKeep(p) /\ lock' \in Proc \cup {NoOne} /\ InHand(p)'
    BY <2>1, LeaveTyped
  <2>3. TypeOK'
    BY <1>1, <1>2, <2>2 DEF Typed, TypeOK, WriteLedger, OthersKeep, world
  <2> QED BY <2>2, <2>3, OthersInHand DEF Typed
<1> QED BY <1>3, <1>4

LEMMA ReadTyped == ASSUME Typed, NEW p \in Proc, ReadLedger(p) PROVE Typed'
<1>1. cmd[p] \in Command /\ InHand(p) /\ pc[p] = "read" /\ ledger \in Ledger
  BY DEF Typed, TypeOK, ReadLedger, Goto
<1> DEFINE c == [cmd[p] EXCEPT !.seen = ledger]
<1>2. c \in Command /\ c.op = cmd[p].op
  BY <1>1 DEF Command
<1>3. cmd' = [cmd EXCEPT ![p] = c]
  BY DEF ReadLedger
<1>4. cmd' \in [Proc -> Command] /\ cmd'[p] = c /\ \A q \in Proc \ {p} : cmd'[q] = cmd[q]
  <2>1. cmd \in [Proc -> Command]
    BY DEF Typed, TypeOK
  <2> HIDE DEF c
  <2> QED BY <1>2, <1>3, <2>1, Sets
<1> HIDE DEF c
<1>5. pc' \in [Proc -> Pc] /\ pc'[p] = "judge" /\ \A q \in Proc \ {p} : pc'[q] = pc[q]
  BY DEF ReadLedger, Goto, Typed, TypeOK, Pc
<1>6. InHand(p)'
  BY <1>1, <1>2, <1>4, <1>5 DEF InHand
<1>7. OthersKeep(p)
  BY <1>4, <1>5 DEF OthersKeep
<1>8. TypeOK'
  BY <1>4, <1>5 DEF Typed, TypeOK, ReadLedger, world, records
<1> QED BY <1>6, <1>7, <1>8, OthersInHand DEF Typed

LEMMA JudgeTyped == ASSUME Typed, NEW p \in Proc, Judge(p) PROVE Typed'
<1>1. cmd[p] \in Command /\ InHand(p) /\ pc[p] = "judge" /\ FirstMove(p) # NoRun
  BY DEF Typed, TypeOK, Judge, Goto, Moves
<1>2. FirstMove(p) \in {"GATED", "FINALIZED"}
  BY <1>1 DEF FirstMove
<1> DEFINE c == [Nothing EXCEPT !.op = cmd[p].op, !.next = FirstMove(p)]
<1>3. c \in Command /\ c.op = cmd[p].op /\ c.next = FirstMove(p)
  <2>1. FirstMove(p) \in State \cup FindingState \cup {NoRun} /\ cmd[p].op \in Op
    BY <1>1, <1>2 DEF State, Command
  <2> QED BY <2>1, NothingIsCommand DEF Command, Nothing
<1>4. cmd' = [cmd EXCEPT ![p] = c]
  BY DEF Judge
<1>5. cmd' \in [Proc -> Command] /\ cmd'[p] = c /\ \A q \in Proc \ {p} : cmd'[q] = cmd[q]
  <2>1. cmd \in [Proc -> Command]
    BY DEF Typed, TypeOK
  <2> HIDE DEF c
  <2> QED BY <1>3, <1>4, <2>1, Sets
<1> HIDE DEF c
<1>6. pc' \in [Proc -> Pc] /\ pc'[p] = "advance" /\ \A q \in Proc \ {p} : pc'[q] = pc[q]
  BY DEF Judge, Goto, Typed, TypeOK, Pc
<1>7. InHand(p)'
  BY <1>1, <1>2, <1>3, <1>5, <1>6 DEF InHand
<1>8. OthersKeep(p)
  BY <1>5, <1>6 DEF OthersKeep
<1>9. TypeOK'
  BY <1>5, <1>6 DEF Typed, TypeOK, Judge, world, records
<1> QED BY <1>7, <1>8, <1>9, OthersInHand DEF Typed

(* The steps after which a command leaves.                                  *)
Leaving(p) ==
  \/ RefuseAdvance(p) \/ RefuseLock(p) \/ RefuseRecord(p) \/ EndRecord(p)
  \/ AuthorizeFix(p) \/ RefuseFix(p) \/ RefuseEvent(p) \/ PassGates(p) \/ FailGates(p)
  \/ JudgeNotReady(p) \/ BeginRun(p) \/ RefuseBegin(p) \/ Kill(p)

LEMMA LeavingTyped == ASSUME Typed, NEW p \in Proc, Leaving(p) PROVE Typed'
<1>1. Leave(p)
  BY DEF Leaving, RefuseAdvance, RefuseLock, RefuseRecord, EndRecord, AuthorizeFix, RefuseFix,
         RefuseEvent, PassGates, FailGates, JudgeNotReady, BeginRun, RefuseBegin, Kill, Return
<1>2. OthersKeep(p) /\ lock' \in Proc \cup {NoOne} /\ InHand(p)'
  BY <1>1, LeaveTyped
<1>3. cmd' \in [Proc -> Command] /\ pc' \in [Proc -> Pc]
  BY <1>2 DEF OthersKeep
<1> USE <1>2, <1>3 DEF Typed, TypeOK, world, records
<1>4. CASE \/ RefuseAdvance(p) \/ RefuseLock(p) \/ RefuseRecord(p) \/ RefuseFix(p)
           \/ RefuseEvent(p) \/ FailGates(p) \/ JudgeNotReady(p) \/ RefuseBegin(p)
  <2>1. TypeOK'
    BY <1>4 DEF RefuseAdvance, RefuseLock, RefuseRecord, RefuseFix, RefuseEvent, FailGates,
                JudgeNotReady, RefuseBegin, Return
  <2> QED BY <2>1, OthersInHand
<1>5. CASE EndRecord(p) \/ AuthorizeFix(p)
  <2>1. TypeOK'
    BY <1>5 DEF EndRecord, AuthorizeFix, State
  <2> QED BY <2>1, OthersInHand
<1>6. CASE PassGates(p) \/ Kill(p)
  <2>1. TypeOK'
    BY <1>6 DEF PassGates, Kill
  <2> QED BY <2>1, OthersInHand
<1>7. CASE BeginRun(p)
  <2>1. cmd[p].scope \in Scope
    BY <1>7 DEF InHand, BeginRun
  <2>2. TypeOK'
    BY <1>7, <2>1 DEF BeginRun
  <2> QED BY <2>2, OthersInHand
<1> QED BY <1>4, <1>5, <1>6, <1>7 DEF Leaving

(* The steps that only go on.                                               *)
Going(p) ==
  \/ AcquireRunLock(p) \/ WriteIndex(p) \/ BeginReviewing(p) \/ WriteApproval(p)
  \/ \E r \in cmd[p].batch : WriteResult(p, r)

LEMMA GoingTyped == ASSUME Typed, NEW p \in Proc, Going(p) PROVE Typed'
<1>1. cmd[p] \in Command /\ InHand(p)
  BY DEF Typed, TypeOK
<1>2. CASE AcquireRunLock(p)
  <2>1. OthersKeep(p) /\ cmd'[p] = cmd[p] /\ pc[p] = "lock"
        /\ pc'[p] = IF cmd[p].op = "record" THEN "check" ELSE "ledger"
    <3>1. (IF cmd[p].op = "record" THEN "check" ELSE "ledger") \in Pc
      BY DEF Pc
    <3> QED BY <1>2, <3>1, GoesTyped DEF AcquireRunLock
  <2>2. InHand(p)'
    BY <1>1, <2>1 DEF InHand
  <2>3. TypeOK'
    BY <1>2, <2>1 DEF Typed, TypeOK, AcquireRunLock, OthersKeep, world, records
  <2> QED BY <2>1, <2>2, <2>3, OthersInHand DEF Typed
<1>3. CASE WriteIndex(p)
  <2>1. OthersKeep(p) /\ cmd'[p] = cmd[p] /\ pc[p] = "results" /\ pc'[p] = "ledger"
    BY <1>3, GoesTyped DEF WriteIndex, Pc
  <2>2. InHand(p)'
    BY <1>1, <2>1 DEF InHand
  <2>3. TypeOK'
    BY <1>1, <1>3, <2>1 DEF Typed, TypeOK, WriteIndex, OthersKeep, world, Command
  <2> QED BY <2>1, <2>2, <2>3, OthersInHand DEF Typed
<1>4. CASE BeginReviewing(p)
  <2>1. OthersKeep(p) /\ cmd'[p] = cmd[p] /\ pc[p] = "reviewing" /\ pc'[p] = "reviewed"
    BY <1>4, GoesTyped DEF BeginReviewing, Pc
  <2>2. InHand(p)'
    BY <1>1, <2>1 DEF InHand
  <2>3. TypeOK'
    BY <1>4, <2>1 DEF Typed, TypeOK, BeginReviewing, OthersKeep, world, records, State
  <2> QED BY <2>1, <2>2, <2>3, OthersInHand DEF Typed
<1>5. CASE WriteApproval(p)
  <2> cmd[p].scope \in Scope
    BY <1>1, <1>5 DEF InHand, WriteApproval, Goto
  <2>1. OthersKeep(p) /\ cmd'[p] = cmd[p] /\ pc[p] = "approve" /\ pc'[p] = "authorize"
    BY <1>5, GoesTyped DEF WriteApproval, Pc
  <2>2. InHand(p)'
    BY <1>1, <2>1 DEF InHand
  <2>3. approvals' \in SUBSET [ids : SUBSET Finding, scope : Scope, live : BOOLEAN]
    <3> DEFINE Approval == [ids : SUBSET Finding, scope : Scope, live : BOOLEAN]
               a == [ids |-> cmd[p].ids, scope |-> cmd[p].scope, live |-> TRUE]
    <3>1. a \in Approval
      <4>1. cmd[p].ids \in SUBSET Finding
        BY <1>1 DEF Command
      <4> QED BY <4>1
    <3>2. approvals' = approvals \cup {a}
      BY <1>5 DEF WriteApproval
    <3>3. approvals \in SUBSET Approval
      BY DEF Typed, TypeOK
    <3> HIDE DEF a, Approval
    <3>4. approvals' \in SUBSET Approval
      BY <3>1, <3>2, <3>3
    <3> QED BY <3>4 DEF Approval
  <2>4. TypeOK'
    BY <1>5, <2>1, <2>3 DEF Typed, TypeOK, WriteApproval, OthersKeep, world
  <2> QED BY <2>1, <2>2, <2>4, OthersInHand DEF Typed
<1>6. ASSUME NEW r \in cmd[p].batch, WriteResult(p, r) PROVE Typed'
  <2>1. r \in Result
    BY <1>1 DEF Command
  <2>2. TypeOK'
    BY <1>6, <2>1 DEF Typed, TypeOK, WriteResult, world
  <2>3. \A q \in Proc : InHand(q)'
    BY <1>6 DEF Typed, InHand, WriteResult
  <2> QED BY <2>2, <2>3 DEF Typed
<1> QED BY <1>2, <1>3, <1>4, <1>5, <1>6 DEF Going

LEMMA EnvironmentTyped == ASSUME Typed, Environment PROVE Typed'
<1>1. pc' = pc /\ cmd' = cmd
  BY DEF Environment, Edit, LapseRisk, LapseApproval
<1>2. \A q \in Proc : InHand(q)'
  BY <1>1 DEF Typed, InHand
<1>3. TypeOK'
  <2>1. ASSUME NEW change \in Scope \cup {Sealed}, Edit(change) PROVE TypeOK'
    BY <2>1 DEF Typed, TypeOK, Edit, records
  <2>2. ASSUME NEW f \in Finding, LapseRisk(f) PROVE TypeOK'
    BY <2>2 DEF Typed, TypeOK, LapseRisk, records
  <2>3. ASSUME NEW a \in approvals, LapseApproval(a) PROVE TypeOK'
    BY <2>3 DEF Typed, TypeOK, LapseApproval, world
  <2> QED BY <2>1, <2>2, <2>3 DEF Environment
<1> QED BY <1>2, <1>3 DEF Typed

LEMMA NextIs ==
  ASSUME Next
  PROVE  \/ \E p \in Proc :
              \/ Start(p) \/ Advance(p) \/ CheckRecord(p) \/ WriteLedger(p)
              \/ ReadLedger(p) \/ Judge(p) \/ Leaving(p) \/ Going(p)
         \/ Environment
BY DEF Next, Step, Leaving, Going

LEMMA TypingStep == ASSUME Typed, [Next]_vars PROVE Typed'
<1>1. CASE UNCHANGED vars
  BY <1>1 DEF vars, world, records, Typed, TypeOK, InHand
<1> QED BY <1>1, NextIs, StartTyped, AdvanceTyped, CheckTyped, WriteLedgerTyped, ReadTyped,
           JudgeTyped, LeavingTyped, GoingTyped, EnvironmentTyped

(* What the files, the run and the commands hold is of its type, and a      *)
(* command has the operation its place belongs to, with what it needs.      *)
THEOREM ReviewTyping == Spec => []Typed
BY InitTyped, TypingStep, PTL DEF Spec

-------------------------------------------------------------------------------
Locked == {"check", "results", "ledger", "reviewing", "reviewed", "approve", "authorize"}

(* No finding of a ledger stands against the verdict "ready".               *)
Clear(l) ==
  \A f \in Finding :
    l[f] # "needs_confirmation" /\ (f \in Serious => l[f] \in Settled \cup {Absent})

(* How what a command holds stands to what is on disk, until it leaves: who *)
(* is past the lock has it, so that a record finds the run recordable and   *)
(* its passes new to the end; the index a verify has read is the index,     *)
(* and what spoke for the verdict in its ledger still does, if no ledger    *)
(* was written over; what fix and refresh rely on is in the approvals.      *)
Holds(p) == pc[p] \in Locked => lock = p

Records(p) ==
  LET recording == pc[p] \in {"results", "ledger", "reviewing", "reviewed"}
                     /\ cmd[p].op = "record"
  IN  /\ recording => state \in Recordable
      /\ pc[p] = "results" => \A r \in cmd[p].batch, s \in index : KeyOf(r) # KeyOf(s)

Judges(p) ==
  /\ pc[p] \in {"read", "judge"} => state \notin Early /\ cmd[p].batch = index
  /\ pc[p] = "judge" /\ ~overwrote => (Clear(cmd[p].seen) => Clear(ledger))
  /\ pc[p] = "advance" /\ cmd[p].op \in {"verify", "finalize"} =>
       /\ state \notin Early
       /\ ~overwrote => Ready(index, ledger, {}, gates)

Authorizes(p) ==
  /\ pc[p] \in {"approve", "authorize"} /\ ~overwrote =>
       \A f \in cmd[p].ids : ledger[f] = "fix_authorized"
  /\ pc[p] = "authorize" => \E a \in approvals : a.ids = cmd[p].ids

Refreshes(p) ==
  /\ pc[p] \in {"advance", "begin"} /\ cmd[p].op = "refresh" =>
       \E a \in approvals : a.scope = cmd[p].scope
  /\ pc[p] = "begin" => state = "MUTATED"

Stands(p) == Holds(p) /\ Records(p) /\ Judges(p) /\ Authorizes(p) /\ Refreshes(p)

ReviewInv ==
  /\ Typed
  /\ \A p \in Proc : Stands(p)
  /\ IndexMatchesFiles /\ ReviewedIsComplete /\ VerdictStands
  /\ AuthorizedByRecord /\ RefreshedAsAuthorized /\ FindingsImported

LEMMA InitStands == ASSUME Init PROVE ReviewInv
<1>1. Typed
  BY InitTyped
<1>2. \A p \in Proc : Stands(p)
  BY DEF Init, Stands, Holds, Records, Judges, Authorizes, Refreshes, Locked
<1>3. IndexMatchesFiles /\ FindingsImported
  BY DEF Init, IndexMatchesFiles, IndexVerifies, FindingsImported, FindingsOf
<1>4. ReviewedIsComplete /\ VerdictStands /\ AuthorizedByRecord /\ RefreshedAsAuthorized
  BY DEF Init, ReviewedIsComplete, VerdictStands, AuthorizedByRecord, RefreshedAsAuthorized
<1> QED BY <1>1, <1>2, <1>3, <1>4 DEF ReviewInv

Acts(p) == Start(p) \/ Step(p) \/ Kill(p)

(* A process that acts leaves what the others have in memory.               *)
LEMMA ActsAlone ==
  ASSUME Typed, NEW p \in Proc, Acts(p), NEW q \in Proc \ {p}
  PROVE  cmd'[q] = cmd[q] /\ pc'[q] = pc[q]
<1> USE DEF Typed, TypeOK
<1>1. CASE Start(p)
  BY <1>1 DEF Start, StartPlan, StartRecord, StartFinding, StartFix, StartGates, StartVerify,
              StartRefresh, Begins, Goto
<1>2. CASE Leave(p)
  BY <1>2 DEF Leave
<1>3. CASE Step(p) /\ ~Leave(p)
  BY <1>3 DEF Step, Advance, RefuseAdvance, AcquireRunLock, RefuseLock, CheckRecord,
              RefuseRecord, WriteIndex, WriteLedger, BeginReviewing, EndRecord, WriteApproval,
              AuthorizeFix, RefuseFix, RefuseEvent, PassGates, FailGates, ReadLedger, Judge,
              JudgeNotReady, BeginRun, RefuseBegin, WriteResult, Return, Goto
<1>4. CASE Kill(p)
  BY <1>2, <1>4 DEF Kill
<1> QED BY <1>1, <1>2, <1>3, <1>4 DEF Acts

(* What a step leaves as it is.                                             *)
LEMMA Untouched ==
  ASSUME Typed, NEW p \in Proc, Acts(p)
  PROVE  /\ ~(Advance(p) \/ BeginReviewing(p) \/ EndRecord(p) \/ AuthorizeFix(p)) =>
              state' = state
         /\ ~WriteLedger(p) => ledger' = ledger /\ overwrote' = overwrote
         /\ ~WriteIndex(p) => index' = index
         /\ ~(\E r \in cmd[p].batch : WriteResult(p, r)) => files' = files
         /\ ~WriteApproval(p) => approvals' = approvals
         /\ ~PassGates(p) => gates' = gates
         /\ ~BeginRun(p) => successor' = successor
         /\ ~Kill(p) => kills' = kills
<1> USE DEF records, world
<1>1. CASE Start(p)
  BY <1>1 DEF Start, StartPlan, StartRecord, StartFinding, StartFix, StartGates, StartVerify,
              StartRefresh, Begins
<1>2. CASE Kill(p)
  BY <1>2 DEF Kill
<1>3. CASE \/ Advance(p) \/ AcquireRunLock(p) \/ CheckRecord(p) \/ WriteIndex(p)
           \/ WriteLedger(p) \/ BeginReviewing(p) \/ EndRecord(p) \/ WriteApproval(p)
  BY <1>3 DEF Advance, AcquireRunLock, CheckRecord, WriteIndex, WriteLedger, BeginReviewing,
              EndRecord, WriteApproval
<1>4. CASE \/ AuthorizeFix(p) \/ PassGates(p) \/ ReadLedger(p) \/ Judge(p) \/ BeginRun(p)
           \/ \E r \in cmd[p].batch : WriteResult(p, r)
  BY <1>4 DEF AuthorizeFix, PassGates, ReadLedger, Judge, BeginRun, WriteResult
<1>5. CASE \/ RefuseAdvance(p) \/ RefuseLock(p) \/ RefuseRecord(p) \/ RefuseFix(p)
           \/ RefuseEvent(p) \/ FailGates(p) \/ JudgeNotReady(p) \/ RefuseBegin(p)
  BY <1>5 DEF RefuseAdvance, RefuseLock, RefuseRecord, RefuseFix, RefuseEvent, FailGates,
              JudgeNotReady, RefuseBegin, Return
<1> QED BY <1>1, <1>2, <1>3, <1>4, <1>5 DEF Acts, Step

(* The run is moved by a command that has the lock, or while nobody has it; *)
(* never back to where results are recorded, and out of MUTATED not at all. *)
LEMMA StateMoves ==
  ASSUME ReviewInv, NEW p \in Proc, Acts(p)
  PROVE  /\ state \notin Early => state' \notin Early
         /\ state = "MUTATED" => state' = "MUTATED"
         /\ state' # state => lock \in {NoOne, p}
<1>1. state \in State /\ InHand(p) /\ Stands(p)
  BY DEF ReviewInv, Typed, TypeOK
<1>2. CASE Advance(p)
  <2>1. /\ state' = cmd[p].next /\ lock = NoOne /\ AllowedTransition(state, state')
        /\ state' \in {"CONTRACTED", "MUTATED", "GATED", "REREVIEWED", "FINALIZED"}
    BY <1>1, <1>2 DEF Advance, CanAdvance, InHand
  <2> QED BY <2>1 DEF AllowedTransition, Allowed, Early, State
<1>3. CASE BeginReviewing(p)
  <2>1. state \in Recordable /\ lock = p
    BY <1>1, <1>3 DEF BeginReviewing, Goto, InHand, Stands, Holds, Records, Locked
  <2> QED BY <2>1 DEF Early, Recordable
<1>4. CASE EndRecord(p)
  <2>1. state \in Recordable /\ lock = p
    BY <1>1, <1>4 DEF EndRecord, InHand, Stands, Holds, Records, Locked
  <2> QED BY <2>1 DEF Early, Recordable
<1>5. CASE AuthorizeFix(p)
  <2>1. state' = "FIX_AUTHORIZED" /\ AllowedTransition(state, state') /\ lock = p
    BY <1>1, <1>5 DEF AuthorizeFix, Stands, Holds, Locked
  <2> QED BY <2>1 DEF AllowedTransition, Allowed, Early, State
<1> QED BY <1>2, <1>3, <1>4, <1>5, Untouched DEF ReviewInv

(* Unless one is written over, the ledger takes new findings while results  *)
(* are recorded, and decisions as the table of finding states allows them.  *)
LEMMA LedgerMoves ==
  ASSUME ReviewInv, NEW p \in Proc, Acts(p)
  PROVE  /\ overwrote => overwrote'
         /\ ledger' # ledger => lock = p
         /\ ~overwrote' => \A f \in Finding :
              \/ ledger'[f] = ledger[f]
              \/ state \in Recordable /\ ledger'[f] # Absent
              \/ /\ ledger'[f] \in Decided
                 /\ AllowedFindingTransition(ledger[f], ledger'[f])
<1>1. Typed /\ InHand(p) /\ Stands(p)
  BY DEF ReviewInv, Typed
<1>2. CASE ~WriteLedger(p)
  BY <1>1, <1>2, Untouched
<1>3. CASE WriteLedger(p)
  <2>1. /\ pc[p] = "ledger" /\ lock = p /\ ledger' = NewLedger(p)
        /\ overwrote' = (overwrote \/ ledger # cmd[p].seen)
    BY <1>1, <1>3 DEF WriteLedger, Stands, Holds, Locked
  <2>2. SUFFICES ASSUME ~overwrote', NEW f \in Finding, f \in cmd[p].ids
                 PROVE  \/ state \in Recordable /\ ledger'[f] # Absent
                        \/ /\ ledger'[f] \in Decided
                           /\ AllowedFindingTransition(ledger[f], ledger'[f])
    BY <2>1 DEF NewLedger
  <2>3. cmd[p].seen = ledger
    BY <2>1, <2>2
  <2>4. CASE cmd[p].op = "record"
    <3>1. ledger'[f] = Imported[f]
      BY <2>1, <2>2, <2>4 DEF NewLedger
    <3>2. Imported[f] # Absent
      BY ReviewConstants DEF Absent
    <3>3. state \in Recordable
      BY <1>1, <2>1, <2>4 DEF Stands, Records
    <3> QED BY <3>1, <3>2, <3>3
  <2>5. CASE cmd[p].op # "record"
    <3>1. ledger'[f] = cmd[p].next
      BY <2>1, <2>2, <2>5 DEF NewLedger
    <3>2. cmd[p].next \in Decided /\ AllowedFindingTransition(cmd[p].seen[f], cmd[p].next)
      BY <1>1, <2>1, <2>2, <2>5 DEF InHand
    <3> QED BY <2>3, <3>1, <3>2
  <2> QED BY <2>4, <2>5
<1> QED BY <1>2, <1>3

(* A ledger clear of what stands against the verdict stays so, and what is  *)
(* authorized stays authorized, once results are no longer recorded.        *)
LEMMA ClearStays ==
  ASSUME ReviewInv, NEW p \in Proc, Acts(p), ~overwrote', state \notin Recordable
  PROVE  /\ Clear(ledger) => Clear(ledger')
         /\ \A f \in Finding : ledger[f] = "fix_authorized" => ledger'[f] = "fix_authorized"
<1>1. \A f \in Finding :
        \/ ledger'[f] = ledger[f]
        \/ ledger'[f] \in Decided /\ AllowedFindingTransition(ledger[f], ledger'[f])
  BY LedgerMoves
<1>2. ASSUME NEW f \in Finding, ledger[f] = "fix_authorized" PROVE ledger'[f] = "fix_authorized"
  BY <1>1, <1>2 DEF Decided, Decision, AllowedFindingTransition, AllowedNext
<1>3. ASSUME Clear(ledger), NEW f \in Finding
      PROVE ledger'[f] # "needs_confirmation"
            /\ (f \in Serious => ledger'[f] \in Settled \cup {Absent})
  <2>1. /\ ledger[f] # "needs_confirmation"
        /\ f \in Serious => ledger[f] \in Settled \cup {Absent}
    BY <1>3 DEF Clear
  <2>2. CASE ledger'[f] = ledger[f]
    BY <2>1, <2>2
  <2>3. CASE ledger'[f] \in Decided /\ AllowedFindingTransition(ledger[f], ledger'[f])
    <3>1. ledger'[f] # "needs_confirmation"
      BY <2>3 DEF Decided, Decision
    <3>2. ledger[f] \notin {"rejected", "accepted_risk", Absent}
      BY <2>3 DEF AllowedFindingTransition, AllowedNext, FindingState, Absent
    <3>3. ledger[f] # "verified_closed"
      BY <2>3 DEF AllowedFindingTransition, AllowedNext
    <3> QED BY <2>1, <3>1, <3>2, <3>3 DEF Settled
  <2> QED BY <1>1, <2>2, <2>3
<1> QED BY <1>2, <1>3 DEF Clear

LEMMA LockStays ==
  ASSUME NEW p \in Proc, Acts(p), lock \notin {NoOne, p}
  PROVE  lock' = lock
<1>1. CASE Leave(p)
  BY <1>1 DEF Leave, Release
<1>2. CASE Start(p)
  BY <1>2 DEF Start, StartPlan, StartRecord, StartFinding, StartFix, StartGates, StartVerify,
              StartRefresh, Begins
<1>3. CASE Step(p) /\ ~Leave(p)
  BY <1>3 DEF Step, Advance, RefuseAdvance, AcquireRunLock, RefuseLock, CheckRecord,
              RefuseRecord, WriteIndex, WriteLedger, BeginReviewing, EndRecord, WriteApproval,
              AuthorizeFix, RefuseFix, RefuseEvent, PassGates, FailGates, ReadLedger, Judge,
              JudgeNotReady, BeginRun, RefuseBegin, WriteResult, Return
<1> QED BY <1>1, <1>2, <1>3 DEF Acts, Kill

(* Result files and index change only while the run takes results, by who   *)
(* has the lock; approvals stay, and so do gates that have passed.          *)
LEMMA EvidenceStays ==
  ASSUME ReviewInv, NEW p \in Proc, Acts(p)
  PROVE  /\ state \notin Recordable \/ lock # p => index' = index /\ files' = files
         /\ \A a \in approvals : a \in approvals'
         /\ gates = "pass" => gates' = "pass"
<1>1. Typed /\ InHand(p) /\ Stands(p)
  BY DEF ReviewInv, Typed
<1>2. ASSUME WriteIndex(p) \/ \E r \in cmd[p].batch : WriteResult(p, r)
      PROVE state \in Recordable /\ lock = p
  <2>1. pc[p] = "results"
    BY <1>2 DEF WriteIndex, WriteResult, Goto
  <2> QED BY <1>1, <2>1 DEF InHand, Stands, Holds, Records, Locked
<1>3. \A a \in approvals : a \in approvals'
  BY <1>1, Untouched DEF WriteApproval
<1>4. gates = "pass" => gates' = "pass"
  BY <1>1, Untouched DEF PassGates
<1> QED BY <1>1, <1>2, <1>3, <1>4, Untouched

LEMMA ReadyMeans ==
  ASSUME NEW idx, NEW l, NEW g
  PROVE  Ready(idx, l, {}, g) <=>
           Complete(idx) /\ (\A r \in idx : ~r.confirm) /\ Clear(l) /\ g = "pass"
BY DEF Ready, Clear

(* A verdict "ready" stays one.                                             *)
LEMMA ReadyStays ==
  ASSUME ReviewInv, NEW p \in Proc, Acts(p), ~overwrote', state \notin Early,
         Ready(index, ledger, {}, gates)
  PROVE  Ready(index, ledger, {}, gates)'
<1>1. state \notin Recordable
  BY DEF Early, Recordable
<1>2. index' = index /\ gates' = "pass" /\ Clear(ledger')
  BY <1>1, EvidenceStays, ClearStays, ReadyMeans
<1>3. Complete(index) /\ \A r \in index : ~r.confirm
  BY ReadyMeans
<1>4. Ready(index, ledger', {}, "pass")
  BY <1>2, <1>3, ReadyMeans
<1> QED BY <1>2, <1>4

(* What the others hold still stands when one has acted.                    *)
LEMMA OthersStand ==
  ASSUME ReviewInv, NEW p \in Proc, Acts(p), NEW q \in Proc \ {p}
  PROVE  Stands(q)'
<1>1. Typed /\ Stands(q) /\ InHand(q) /\ cmd'[q] = cmd[q] /\ pc'[q] = pc[q]
  BY ActsAlone DEF ReviewInv, Typed
<1>2. pc[q] \in Locked => lock = q /\ q \notin {NoOne, p}
  BY <1>1, ReviewConstants DEF Stands, Holds
<1>3. overwrote => overwrote'
  BY LedgerMoves
<1>4. Holds(q)'
  BY <1>1, <1>2, LockStays DEF Holds
<1>5. Records(q)'
  <2>1. CASE pc[q] \in Locked
    <3>1. state' = state /\ index' = index
      BY <1>2, <2>1, StateMoves, EvidenceStays
    <3> QED BY <1>1, <3>1 DEF Stands, Records
  <2>2. CASE pc[q] \notin Locked
    BY <1>1, <2>2 DEF Records, Locked
  <2> QED BY <2>1, <2>2
<1>6. Judges(q)'
  <2>1. CASE pc[q] \in {"read", "judge"}
    <3>1. state \notin Early /\ state' \notin Early /\ cmd[q].batch = index
      BY <1>1, <2>1, StateMoves DEF Stands, Judges
    <3>2. index' = index /\ (~overwrote' /\ Clear(ledger) => Clear(ledger'))
      BY <3>1, EvidenceStays, ClearStays DEF Early, Recordable
    <3>3. pc[q] = "judge" /\ ~overwrote' /\ Clear(cmd[q].seen) => Clear(ledger')
      BY <1>1, <1>3, <3>2 DEF Stands, Judges
    <3> QED BY <1>1, <2>1, <3>1, <3>2, <3>3 DEF Judges
  <2>2. CASE pc[q] = "advance" /\ cmd[q].op \in {"verify", "finalize"}
    <3>1. state \notin Early /\ state' \notin Early
      BY <1>1, <2>2, StateMoves DEF Stands, Judges
    <3>2. ~overwrote' => Ready(index, ledger, {}, gates)'
      BY <1>1, <1>3, <2>2, <3>1, ReadyStays DEF Stands, Judges
    <3> QED BY <1>1, <2>2, <3>1, <3>2 DEF Judges
  <2>3. CASE ~(pc[q] = "advance" /\ cmd[q].op \in {"verify", "finalize"})
             /\ pc[q] \notin {"read", "judge"}
    BY <1>1, <2>3 DEF Judges
  <2> QED BY <2>1, <2>2, <2>3
<1>7. Authorizes(q)'
  <2>1. CASE pc[q] \in {"approve", "authorize"}
    <3>1. ledger' = ledger
      BY <1>2, <2>1, LedgerMoves DEF Locked
    <3> QED BY <1>1, <1>3, <2>1, <3>1, EvidenceStays DEF Stands, Authorizes
  <2>2. CASE pc[q] \notin {"approve", "authorize"}
    BY <1>1, <2>2 DEF Authorizes
  <2> QED BY <2>1, <2>2
<1>8. Refreshes(q)'
  BY <1>1, StateMoves, EvidenceStays DEF Stands, Refreshes
<1> QED BY <1>4, <1>5, <1>6, <1>7, <1>8 DEF Stands

(* What a process begins with stands.                                       *)
LEMMA StartStands == ASSUME ReviewInv, NEW p \in Proc, Start(p) PROVE Stands(p)'
<1>1. Typed /\ cmd \in [Proc -> Command] /\ pc \in [Proc -> Pc]
  BY DEF ReviewInv, Typed, TypeOK
<1>2. Acts(p)
  BY DEF Acts
<1> USE DEF Stands, Holds, Records, Judges, Authorizes, Refreshes, Locked
<1>3. CASE StartPlan(p)
  <2>1. pc'[p] = "advance" /\ cmd'[p].op = "plan"
    BY <1>1, <1>3 DEF StartPlan, Begins, Goto, Nothing
  <2> QED BY <2>1
<1>4. CASE StartGates(p)
  <2>1. pc'[p] = "gating"
    BY <1>1, <1>4 DEF StartGates, Begins, Goto
  <2> QED BY <2>1
<1>5. CASE StartRefresh(p)
  <2>1. pc'[p] = "advance" /\ cmd'[p].op = "refresh" /\ cmd'[p].scope = tree
    BY <1>1, <1>5 DEF StartRefresh, Begins, Goto, Nothing
  <2>2. approvals' = approvals /\ \E a \in approvals : a.scope = tree
    BY <1>5 DEF StartRefresh, Begins, records, Matching
  <2> QED BY <2>1, <2>2
<1>6. CASE \/ \E batch \in Batches : StartRecord(p, batch)
           \/ \E f \in Finding, decision \in Decision : StartFinding(p, f, decision)
           \/ \E ids \in (SUBSET Finding) \ {{}}, scope \in Scope : StartFix(p, ids, scope)
  <2>1. pc'[p] = "lock"
    BY <1>1, <1>6 DEF StartRecord, StartFinding, StartFix, Begins, Goto
  <2> QED BY <2>1
<1>7. ASSUME NEW op \in {"verify", "finalize"}, StartVerify(p, op) PROVE Stands(p)'
  <2>1. pc'[p] = "read" /\ cmd'[p].batch = index
    BY <1>1, <1>7 DEF StartVerify, Begins, Goto, Nothing
  <2>2. index' = index /\ state' = state /\ state \notin Early
    BY <1>7 DEF StartVerify, Begins, records, Early
  <2> QED BY <2>1, <2>2
<1> QED BY <1>3, <1>4, <1>5, <1>6, <1>7 DEF Start

LEMMA LeaveStands ==
  ASSUME Typed, NEW p \in Proc, Leave(p)
  PROVE  Stands(p)'
<1>1. pc'[p] = "idle"
  BY LeaveTyped
<1> QED BY <1>1 DEF Stands, Holds, Records, Judges, Authorizes, Refreshes, Locked

(* What a process goes on with stands: under the lock ...                   *)
LEMMA LockedStands ==
  ASSUME ReviewInv, NEW p \in Proc,
         \/ AcquireRunLock(p) \/ CheckRecord(p) \/ WriteIndex(p) \/ WriteLedger(p)
         \/ BeginReviewing(p) \/ WriteApproval(p)
         \/ \E r \in cmd[p].batch : WriteResult(p, r)
  PROVE  Stands(p)'
<1>1. /\ Typed /\ InHand(p) /\ Stands(p) /\ cmd[p] \in Command
      /\ cmd \in [Proc -> Command] /\ pc \in [Proc -> Pc]
  BY DEF ReviewInv, Typed, TypeOK
<1>2. CASE AcquireRunLock(p)
  <2>1. /\ cmd'[p] = cmd[p] /\ lock' = p
        /\ pc'[p] = IF cmd[p].op = "record" THEN "check" ELSE "ledger"
    BY <1>1, <1>2 DEF AcquireRunLock, Goto
  <2> QED BY <2>1 DEF Stands, Holds, Records, Judges, Authorizes, Refreshes
<1>3. CASE CheckRecord(p)
  <2>1. pc[p] = "check" /\ pc'[p] = "results" /\ cmd'[p].batch = cmd[p].batch
    BY <1>1, <1>3 DEF CheckRecord, Goto, Command
  <2>2. lock' = p /\ state' \in Recordable /\ index' = index
        /\ \A r \in cmd[p].batch, s \in index : KeyOf(r) # KeyOf(s)
    BY <1>1, <1>3, <2>1 DEF CheckRecord, Recording, Stands, Holds, Locked, records
  <2> QED BY <2>1, <2>2 DEF Stands, Holds, Records, Judges, Authorizes, Refreshes
<1>4. CASE WriteIndex(p)
  <2>1. pc[p] = "results" /\ pc'[p] = "ledger" /\ lock' = lock /\ state' = state
    BY <1>1, <1>4 DEF WriteIndex, Goto
  <2>2. lock = p /\ state \in Recordable
    BY <1>1, <2>1 DEF InHand, Stands, Holds, Records, Locked
  <2> QED BY <2>1, <2>2 DEF Stands, Holds, Records, Judges, Authorizes, Refreshes
<1>5. CASE WriteLedger(p)
  <2>1. CASE Leave(p)
    BY <1>1, <2>1, LeaveStands
  <2>2. CASE ~Leave(p)
    <3>1. /\ pc[p] = "ledger" /\ lock' = lock /\ state' = state
          /\ cmd[p].op \in {"record", "fix"}
          /\ pc'[p] = IF cmd[p].op = "record" THEN "reviewing" ELSE "approve"
          /\ cmd' = [cmd EXCEPT ![p].seen = Nothing.seen]
      BY <1>1, <1>5, <2>2 DEF WriteLedger, AfterLedger
    <3>2. cmd'[p].op = cmd[p].op /\ cmd'[p].ids = cmd[p].ids
      BY <1>1, <3>1 DEF Command
    <3>3. lock = p
      BY <1>1, <3>1 DEF Stands, Holds, Locked
    <3>4. CASE cmd[p].op = "record"
      <4>1. state \in Recordable
        BY <1>1, <3>1, <3>4 DEF Stands, Records
      <4> QED BY <3>1, <3>2, <3>3, <3>4, <4>1
              DEF Stands, Holds, Records, Judges, Authorizes, Refreshes
    <3>5. CASE cmd[p].op = "fix"
      <4>1. \A f \in cmd[p].ids : ledger'[f] = "fix_authorized"
        <5>1. cmd[p].next = "fix_authorized" /\ cmd[p].ids \subseteq Finding
          BY <1>1, <3>1, <3>5 DEF InHand, Command
        <5>2. ledger' = NewLedger(p)
          BY <1>5 DEF WriteLedger
        <5> QED BY <3>5, <5>1, <5>2 DEF NewLedger
      <4> QED BY <3>1, <3>2, <3>3, <3>5, <4>1
              DEF Stands, Holds, Records, Judges, Authorizes, Refreshes
    <3> QED BY <3>1, <3>4, <3>5
  <2> QED BY <2>1, <2>2
<1>6. CASE BeginReviewing(p)
  <2>1. pc[p] = "reviewing" /\ pc'[p] = "reviewed" /\ lock' = lock
    BY <1>1, <1>6 DEF BeginReviewing, Goto
  <2>2. lock = p /\ state \in Recordable
    BY <1>1, <2>1 DEF InHand, Stands, Holds, Records, Locked
  <2>3. state' \in Recordable
    BY <1>6, <2>2 DEF BeginReviewing, Recordable
  <2> QED BY <2>1, <2>2, <2>3 DEF Stands, Holds, Records, Judges, Authorizes, Refreshes
<1>7. CASE WriteApproval(p)
  <2>1. /\ pc[p] = "approve" /\ pc'[p] = "authorize" /\ lock' = lock /\ cmd'[p] = cmd[p]
        /\ cmd[p].op = "fix" /\ ledger' = ledger /\ overwrote' = overwrote
    BY <1>1, <1>7 DEF WriteApproval, Goto
  <2>2. lock = p /\ (~overwrote => \A f \in cmd[p].ids : ledger[f] = "fix_authorized")
    BY <1>1, <2>1 DEF Stands, Holds, Authorizes, Locked
  <2>3. \E a \in approvals' : a.ids = cmd[p].ids
    <3> DEFINE a == [ids |-> cmd[p].ids, scope |-> cmd[p].scope, live |-> TRUE]
    <3>1. a.ids = cmd[p].ids /\ approvals' = approvals \cup {a}
      BY <1>7 DEF WriteApproval
    <3> HIDE DEF a
    <3> QED BY <3>1
  <2> QED BY <2>1, <2>2, <2>3 DEF Stands, Holds, Records, Judges, Authorizes, Refreshes
<1>8. ASSUME NEW r \in cmd[p].batch, WriteResult(p, r) PROVE Stands(p)'
  <2>1. pc[p] = "results" /\ cmd[p].op = "record"
    BY <1>1, <1>8 DEF WriteResult, InHand
  <2> QED BY <1>1, <1>8, <2>1
          DEF Stands, Holds, Records, Judges, Authorizes, Refreshes, WriteResult, Locked
<1> QED BY <1>2, <1>3, <1>4, <1>5, <1>6, <1>7, <1>8

(* ... and where it judges and moves the run.                               *)
LEMMA MovingStands ==
  ASSUME ReviewInv, NEW p \in Proc, Advance(p) \/ ReadLedger(p) \/ Judge(p)
  PROVE  Stands(p)'
<1>1. /\ Typed /\ InHand(p) /\ Stands(p) /\ cmd[p] \in Command
      /\ cmd \in [Proc -> Command] /\ pc \in [Proc -> Pc]
  BY DEF ReviewInv, Typed, TypeOK
<1>2. CASE Advance(p)
  <2>1. CASE Leave(p)
    BY <1>1, <2>1, LeaveStands
  <2>2. CASE ~Leave(p)
    <3>1. /\ pc[p] = "advance" /\ state' = cmd[p].next
          /\ cmd[p].op = "refresh" \/ After(p) # NoRun
          /\ pc'[p] = IF cmd[p].op = "refresh" THEN "begin" ELSE "advance"
          /\ cmd' = [cmd EXCEPT ![p].next = After(p)]
          /\ UNCHANGED <<world, records, overwrote>>
      BY <1>1, <1>2, <2>2 DEF Advance
    <3>2. cmd'[p].op = cmd[p].op /\ cmd'[p].scope = cmd[p].scope
      BY <1>1, <3>1 DEF Command
    <3>3. CASE cmd[p].op = "refresh"
      <4>1. state' = "MUTATED" /\ \E a \in approvals : a.scope = cmd[p].scope
        BY <1>1, <3>1, <3>3 DEF InHand, Stands, Refreshes
      <4> QED BY <3>1, <3>2, <3>3, <4>1
              DEF Stands, Holds, Records, Judges, Authorizes, Refreshes, Locked, records
    <3>4. CASE cmd[p].op # "refresh"
      <4>1. cmd[p].op \in {"verify", "finalize"}
            /\ state' \in {"GATED", "REREVIEWED", "FINALIZED"}
        BY <1>1, <3>1, <3>4 DEF InHand, After
      <4>2. ~overwrote => Ready(index, ledger, {}, gates)
        BY <1>1, <3>1, <4>1 DEF Stands, Judges
      <4>3. ~overwrote' => Ready(index, ledger, {}, gates)'
        BY <3>1, <4>2 DEF records
      <4> QED BY <3>1, <3>2, <3>4, <4>1, <4>3
              DEF Stands, Holds, Records, Judges, Authorizes, Refreshes, Locked, Early
    <3> QED BY <3>3, <3>4
  <2> QED BY <2>1, <2>2
<1>3. CASE ReadLedger(p)
  <2>1. /\ pc[p] = "read" /\ pc'[p] = "judge" /\ state' = state
        /\ cmd' = [cmd EXCEPT ![p].seen = ledger] /\ ledger' = ledger /\ index' = index
    BY <1>1, <1>3 DEF ReadLedger, Goto, records
  <2>2. cmd'[p].batch = cmd[p].batch /\ cmd'[p].seen = ledger
    BY <1>1, <2>1 DEF Command
  <2>3. state \notin Early /\ cmd[p].batch = index
    BY <1>1, <2>1 DEF Stands, Judges
  <2> QED BY <2>1, <2>2, <2>3 DEF Stands, Holds, Records, Judges, Authorizes, Refreshes, Locked
<1>4. CASE Judge(p)
  <2>1. /\ pc[p] = "judge" /\ pc'[p] = "advance" /\ Moves(p)
        /\ cmd'[p] = [Nothing EXCEPT !.op = cmd[p].op, !.next = FirstMove(p)]
        /\ UNCHANGED <<state, world, records, overwrote>>
    BY <1>1, <1>4 DEF Judge, Goto
  <2>2. cmd'[p].op = cmd[p].op /\ cmd[p].op \in {"verify", "finalize"}
    BY <1>1, <2>1 DEF Nothing, InHand
  <2>3. /\ state \notin Early /\ cmd[p].batch = index
        /\ ~overwrote => (Clear(cmd[p].seen) => Clear(ledger))
    BY <1>1, <2>1 DEF Stands, Judges
  <2>4. /\ Complete(index) /\ \A r \in index : ~r.confirm
        /\ Clear(cmd[p].seen) /\ gates = "pass"
    BY <2>1, <2>3 DEF Moves, Ready, Clear
  <2>5. ~overwrote => Ready(index, ledger, {}, gates)
    BY <2>3, <2>4, ReadyMeans
  <2>6. ~overwrote' => Ready(index, ledger, {}, gates)'
    BY <2>1, <2>5 DEF records
  <2> QED BY <2>1, <2>2, <2>3, <2>6
          DEF Stands, Holds, Records, Judges, Authorizes, Refreshes, Locked
<1> QED BY <1>2, <1>3, <1>4

(* Edits and expiries take nothing away that a command relies on.           *)
LEMMA EnvironmentStands ==
  ASSUME ReviewInv, Environment
  PROVE  /\ \A p \in Proc : Stands(p)'
         /\ UNCHANGED <<state, files, index, ledger, gates, successor, pc, cmd, kills, overwrote>>
         /\ \A a \in approvals : \E b \in approvals' : b.ids = a.ids /\ b.scope = a.scope
<1>1. UNCHANGED <<state, files, index, ledger, gates, successor, lock, pc, cmd, kills, overwrote>>
  BY DEF Environment, Edit, LapseRisk, LapseApproval, records, world
<1>2. ASSUME NEW a \in approvals
      PROVE \E b \in approvals' : b.ids = a.ids /\ b.scope = a.scope
  <2>1. CASE approvals' = approvals
    BY <2>1
  <2>2. ASSUME NEW c \in approvals, LapseApproval(c)
        PROVE \E b \in approvals' : b.ids = a.ids /\ b.scope = a.scope
    <3> DEFINE d == [c EXCEPT !.live = FALSE]
    <3>1. c \in [ids : SUBSET Finding, scope : Scope, live : BOOLEAN]
      BY DEF ReviewInv, Typed, TypeOK
    <3>2. d.ids = c.ids /\ d.scope = c.scope /\ approvals' = (approvals \ {c}) \cup {d}
      BY <2>2, <3>1 DEF LapseApproval
    <3> HIDE DEF d
    <3> QED BY <3>2
  <2> QED BY <2>1, <2>2 DEF Environment, Edit, LapseRisk, records
<1>3. ASSUME NEW p \in Proc PROVE Stands(p)'
  <2>1. Stands(p)
    BY DEF ReviewInv
  <2>2. Holds(p)' /\ Records(p)'
    BY <1>1, <2>1 DEF Stands, Holds, Records
  <2>3. Judges(p)'
    BY <1>1, <2>1 DEF Stands, Judges
  <2>4. Authorizes(p)' /\ Refreshes(p)'
    BY <1>1, <1>2, <2>1 DEF Stands, Authorizes, Refreshes
  <2> QED BY <2>2, <2>3, <2>4 DEF Stands
<1> QED BY <1>1, <1>2, <1>3

LEMMA StandsStep ==
  ASSUME ReviewInv, Next
  PROVE  \A p \in Proc : Stands(p)'
<1>1. CASE Environment
  BY <1>1, EnvironmentStands
<1>2. ASSUME NEW p \in Proc, Acts(p) PROVE \A q \in Proc : Stands(q)'
  <2>1. Stands(p)'
    <3>1. Typed
      BY DEF ReviewInv
    <3>2. CASE Leaving(p)
      <4>1. Leave(p)
        BY <3>2 DEF Leaving, RefuseAdvance, RefuseLock, RefuseRecord, EndRecord, AuthorizeFix,
                    RefuseFix, RefuseEvent, PassGates, FailGates, JudgeNotReady, BeginRun,
                    RefuseBegin, Kill, Return
      <4> QED BY <3>1, <4>1, LeaveStands
    <3> QED BY <1>2, <3>2, StartStands, LockedStands, MovingStands DEF Acts, Step, Leaving
  <2> QED BY <1>2, <2>1, OthersStand
<1> QED BY <1>1, <1>2 DEF Next, Acts

-------------------------------------------------------------------------------
(* The index and the result files: a pass is indexed only with its file     *)
(* written, and a file is written only while its pass is in no index.       *)
LEMMA IndexStep == ASSUME ReviewInv, Next PROVE IndexMatchesFiles'
<1>1. IndexMatchesFiles /\ index \subseteq Result
  BY DEF ReviewInv, Typed, TypeOK
<1>2. CASE index' = index /\ files' = files
  BY <1>1, <1>2 DEF IndexMatchesFiles, IndexVerifies
<1>3. ASSUME NEW p \in Proc, NEW r \in cmd[p].batch, WriteResult(p, r)
      PROVE IndexMatchesFiles'
  <2>1. /\ index' = index /\ files' = [files EXCEPT ![KeyOf(r)] = r] /\ pc[p] = "results"
    BY <1>3 DEF WriteResult
  <2>2. \A s \in index : KeyOf(r) # KeyOf(s)
    BY <2>1 DEF ReviewInv, Stands, Records
  <2>3. \A s \in index : KeyOf(s) \in Key
    BY <1>1 DEF Key, KeyOf
  <2>4. files \in [Key -> Result \cup {NoResult}]
    BY DEF ReviewInv, Typed, TypeOK
  <2>5. \A s \in index : files'[KeyOf(s)] = files[KeyOf(s)]
    BY <2>1, <2>2, <2>3, <2>4
  <2> QED BY <1>1, <2>1, <2>5 DEF IndexMatchesFiles, IndexVerifies
<1>4. ASSUME NEW p \in Proc, WriteIndex(p) PROVE IndexMatchesFiles'
  <2>1. /\ index' = index \cup cmd[p].batch /\ files' = files /\ pc[p] = "results"
        /\ \A r \in cmd[p].batch : files[KeyOf(r)] = r
    BY <1>4 DEF WriteIndex, Goto
  <2>2. /\ \A r \in cmd[p].batch, s \in index : KeyOf(r) # KeyOf(s)
        /\ \A r, s \in cmd[p].batch : KeyOf(r) = KeyOf(s) => r = s
    BY <2>1 DEF ReviewInv, Typed, InHand, Stands, Records
  <2> QED BY <1>1, <2>1, <2>2 DEF IndexMatchesFiles, IndexVerifies
<1>5. ASSUME NEW p \in Proc, Acts(p) PROVE IndexMatchesFiles'
  BY <1>2, <1>3, <1>4, <1>5, Untouched DEF ReviewInv
<1>6. CASE Environment
  BY <1>2, <1>6, EnvironmentStands
<1> QED BY <1>5, <1>6 DEF Next, Acts

(* A run goes past REVIEWING only by the record that completes it.          *)
LEMMA CompleteStep == ASSUME ReviewInv, Next PROVE ReviewedIsComplete'
<1>1. ReviewedIsComplete <=> (state \notin Early => Complete(index))
  BY DEF ReviewedIsComplete, Early
<1>2. ASSUME NEW p \in Proc, Acts(p), state' \notin Early PROVE Complete(index')
  <2>1. CASE state \notin Early
    <3>1. index' = index
      BY <1>2, <2>1, EvidenceStays DEF Early, Recordable
    <3> QED BY <1>1, <2>1, <3>1 DEF ReviewInv
  <2>2. CASE state \in Early
    <3>1. state' # state
      BY <1>2, <2>2
    <3>2. CASE Advance(p)
      <4>1. /\ AllowedTransition(state, state')
            /\ state' \in {"CONTRACTED", "MUTATED", "GATED", "REREVIEWED", "FINALIZED"}
        BY <3>2 DEF Advance, CanAdvance, InHand, ReviewInv, Typed
      <4> QED BY <1>2, <2>2, <4>1 DEF AllowedTransition, Allowed, Early
    <3>3. CASE BeginReviewing(p)
      BY <1>2, <2>2, <3>3 DEF BeginReviewing, Early
    <3>4. CASE EndRecord(p)
      BY <3>1, <3>4 DEF EndRecord, records
    <3>5. CASE AuthorizeFix(p)
      BY <2>2, <3>5 DEF AuthorizeFix, AllowedTransition, Allowed, Early
    <3> QED BY <1>2, <3>1, <3>2, <3>3, <3>4, <3>5, Untouched DEF ReviewInv
  <2> QED BY <2>1, <2>2
<1>3. CASE Environment
  BY <1>3, EnvironmentStands DEF ReviewInv, ReviewedIsComplete
<1>4. ASSUME NEW p \in Proc, Acts(p) PROVE ReviewedIsComplete'
  BY <1>2, <1>4 DEF ReviewedIsComplete, Early
<1> QED BY <1>3, <1>4 DEF Next, Acts

(* A verify moves the run on what it has read, and nothing takes that back. *)
LEMMA VerdictStep == ASSUME ReviewInv, Next PROVE VerdictStands'
<1>1. ASSUME NEW p \in Proc, Acts(p), ~overwrote', state' \in {"GATED", "REREVIEWED", "FINALIZED"}
      PROVE Ready(index, ledger, {}, gates)'
  <2>1. ~overwrote
    BY <1>1, LedgerMoves
  <2>2. CASE state' = state
    BY <1>1, <2>1, <2>2, ReadyStays DEF ReviewInv, VerdictStands, Early
  <2>3. CASE Advance(p)
    <3>1. pc[p] = "advance" /\ state' = cmd[p].next /\ UNCHANGED records
      BY <2>3 DEF Advance
    <3>2. cmd[p].op \in {"verify", "finalize"}
      BY <1>1, <3>1 DEF ReviewInv, Typed, InHand
    <3>3. Ready(index, ledger, {}, gates)
      BY <2>1, <3>1, <3>2 DEF ReviewInv, Stands, Judges
    <3> QED BY <3>1, <3>3 DEF records
  <2>4. CASE state' # state /\ ~Advance(p)
    <3>1. BeginReviewing(p) \/ EndRecord(p) \/ AuthorizeFix(p)
      BY <1>1, <2>4, Untouched DEF ReviewInv
    <3> QED BY <1>1, <2>4, <3>1 DEF BeginReviewing, EndRecord, AuthorizeFix
  <2> QED BY <2>2, <2>3, <2>4
<1>2. CASE Environment
  BY <1>2, EnvironmentStands DEF ReviewInv, VerdictStands
<1>3. ASSUME NEW p \in Proc, Acts(p) PROVE VerdictStands'
  BY <1>1, <1>3 DEF VerdictStands
<1> QED BY <1>2, <1>3 DEF Next, Acts

(* What a run is authorized by stays in approvals and ledger.               *)
LEMMA AuthorizedStep == ASSUME ReviewInv, Next PROVE AuthorizedByRecord'
<1>1. ASSUME NEW p \in Proc, Acts(p), ~overwrote', state' \in {"FIX_AUTHORIZED", "MUTATED"}
      PROVE \E a \in approvals' : \A f \in a.ids : ledger'[f] = "fix_authorized"
  <2>1. ~overwrote
    BY <1>1, LedgerMoves
  <2>2. CASE state \in {"FIX_AUTHORIZED", "MUTATED"}
    <3>1. PICK a \in approvals : \A f \in a.ids : ledger[f] = "fix_authorized"
      BY <2>1, <2>2 DEF ReviewInv, AuthorizedByRecord
    <3>2. a.ids \subseteq Finding
      BY DEF ReviewInv, Typed, TypeOK
    <3>3. \A f \in Finding : ledger[f] = "fix_authorized" => ledger'[f] = "fix_authorized"
      BY <1>1, <2>2, ClearStays DEF Recordable
    <3>4. a \in approvals'
      BY <1>1, EvidenceStays
    <3> QED BY <3>1, <3>2, <3>3, <3>4
  <2>3. CASE AuthorizeFix(p)
    <3>1. pc[p] = "authorize" /\ approvals' = approvals /\ ledger' = ledger
      BY <2>3 DEF AuthorizeFix, records
    <3>2. /\ \A f \in cmd[p].ids : ledger[f] = "fix_authorized"
          /\ \E a \in approvals : a.ids = cmd[p].ids
      BY <2>1, <3>1 DEF ReviewInv, Stands, Authorizes
    <3> QED BY <3>1, <3>2
  <2>4. CASE state \notin {"FIX_AUTHORIZED", "MUTATED"} /\ ~AuthorizeFix(p)
    <3>1. Advance(p) \/ BeginReviewing(p) \/ EndRecord(p)
      BY <1>1, <2>4, Untouched DEF ReviewInv
    <3>2. CASE Advance(p)
      <4>1. /\ AllowedTransition(state, state')
            /\ state' \in {"CONTRACTED", "MUTATED", "GATED", "REREVIEWED", "FINALIZED"}
        BY <3>2 DEF Advance, CanAdvance, InHand, ReviewInv, Typed
      <4> QED BY <1>1, <2>4, <4>1 DEF AllowedTransition, Allowed, State
    <3>3. CASE BeginReviewing(p) \/ EndRecord(p)
      BY <1>1, <2>4, <3>3 DEF BeginReviewing, EndRecord
    <3> QED BY <3>1, <3>2, <3>3
  <2> QED BY <2>2, <2>3, <2>4
<1>2. ASSUME Environment PROVE AuthorizedByRecord'
  <2>1. /\ UNCHANGED <<state, ledger, overwrote>>
        /\ \A a \in approvals : \E b \in approvals' : b.ids = a.ids
    BY <1>2, EnvironmentStands
  <2> QED BY <2>1 DEF ReviewInv, AuthorizedByRecord
<1>3. ASSUME NEW p \in Proc, Acts(p) PROVE AuthorizedByRecord'
  BY <1>1, <1>3 DEF AuthorizedByRecord
<1> QED BY <1>2, <1>3 DEF Next, Acts

LEMMA RefreshedStep == ASSUME ReviewInv, Next PROVE RefreshedAsAuthorized'
<1>1. CASE Environment
  <2>1. /\ UNCHANGED <<state, successor>>
        /\ \A a \in approvals : \E b \in approvals' : b.scope = a.scope
    BY <1>1, EnvironmentStands
  <2> QED BY <2>1 DEF ReviewInv, RefreshedAsAuthorized
<1>2. ASSUME NEW p \in Proc, Acts(p) PROVE RefreshedAsAuthorized'
  <2>1. CASE BeginRun(p)
    <3>1. /\ pc[p] = "begin" /\ successor' = cmd[p].scope
          /\ state' = state /\ approvals' = approvals
      BY <2>1 DEF BeginRun, records
    <3>2. state = "MUTATED" /\ \E a \in approvals : a.scope = cmd[p].scope
      BY <3>1 DEF ReviewInv, Typed, InHand, Stands, Refreshes
    <3> QED BY <3>1, <3>2 DEF RefreshedAsAuthorized
  <2>2. CASE ~BeginRun(p)
    BY <1>2, <2>2, Untouched, StateMoves, EvidenceStays DEF ReviewInv, RefreshedAsAuthorized
  <2> QED BY <2>1, <2>2
<1> QED BY <1>1, <1>2 DEF Next, Acts

(* The findings a record indexes are imported by the same command.          *)
LEMMA ImportedStep == ASSUME ReviewInv, Next PROVE FindingsImported'
<1> DEFINE Importing(f) == \E p \in Proc : /\ pc[p] = "ledger" /\ cmd[p].op = "record"
                                           /\ f \in cmd[p].ids
<1>1. CASE Environment
  BY <1>1, EnvironmentStands DEF ReviewInv, FindingsImported
<1>2. ASSUME NEW p \in Proc, Acts(p), kills' = 0, ~overwrote', NEW f \in FindingsOf(index')
      PROVE ledger'[f] # Absent \/ Importing(f)'
  <2>1. kills \in Nat /\ Typed /\ index \subseteq Result /\ InHand(p) /\ Stands(p)
    BY DEF ReviewInv, Typed, TypeOK
  <2>2. ~Kill(p) /\ kills = 0
    BY <1>2, <2>1, Untouched DEF Kill
  <2>3. ~overwrote
    BY <1>2, LedgerMoves
  <2>4. f \in FindingsOf(index) => ledger[f] # Absent \/ Importing(f)
    BY <2>2, <2>3 DEF ReviewInv, FindingsImported
  <2>5. CASE WriteIndex(p)
    <3>1. /\ pc[p] = "results" /\ pc'[p] = "ledger" /\ cmd' = cmd /\ ledger' = ledger
          /\ index' = index \cup cmd[p].batch
      BY <2>1, <2>5 DEF WriteIndex, Goto, Typed, TypeOK
    <3>2. cmd[p].op = "record" /\ cmd[p].ids = FindingsOf(cmd[p].batch)
      BY <2>1, <3>1 DEF InHand
    <3>3. f \in FindingsOf(index) \/ f \in cmd[p].ids
      BY <1>2, <3>1, <3>2 DEF FindingsOf
    <3>4. ASSUME NEW q \in Proc, pc[q] = "ledger" PROVE pc'[q] = "ledger"
      BY <1>2, <2>1, <3>1, <3>4, ActsAlone
    <3> QED BY <2>4, <3>1, <3>2, <3>3, <3>4
  <2>6. CASE WriteLedger(p)
    <3>1. /\ pc[p] = "ledger" /\ index' = index /\ ledger' = NewLedger(p)
          /\ ledger = cmd[p].seen /\ lock = p
      BY <1>2, <2>1, <2>6 DEF WriteLedger, Stands, Holds, Locked
    <3>2. f \in Finding
      BY <2>1, <3>1, FindingsAreFindings
    <3>3. CASE f \in cmd[p].ids
      <4>1. CASE cmd[p].op = "record"
        <5>1. ledger'[f] = Imported[f]
          BY <3>1, <3>2, <3>3, <4>1 DEF NewLedger
        <5>2. Imported[f] # Absent
          BY <3>2, ReviewConstants DEF Absent
        <5> QED BY <5>1, <5>2
      <4>2. CASE cmd[p].op # "record"
        <5>1. ledger'[f] = cmd[p].next
          BY <3>1, <3>2, <3>3, <4>2 DEF NewLedger
        <5>2. cmd[p].next # Absent
          BY <2>1, <3>1, <4>2 DEF InHand, Decided, Decision, Absent
        <5> QED BY <5>1, <5>2
      <4> QED BY <4>1, <4>2
    <3>4. CASE f \notin cmd[p].ids
      <4>1. ledger'[f] = ledger[f]
        BY <3>1, <3>2, <3>4 DEF NewLedger
      <4>2. ~Importing(f)
        <5> SUFFICES ASSUME NEW q \in Proc, pc[q] = "ledger", f \in cmd[q].ids PROVE FALSE
          OBVIOUS
        <5>1. lock = q
          BY DEF ReviewInv, Stands, Holds, Locked
        <5> QED BY <3>1, <3>4, <5>1
      <4> QED BY <1>2, <2>4, <3>1, <4>1, <4>2
    <3> QED BY <3>3, <3>4
  <2>7. CASE ~WriteIndex(p) /\ ~WriteLedger(p)
    <3>1. index' = index /\ ledger' = ledger
      BY <1>2, <2>1, <2>7, Untouched
    <3>2. ASSUME NEW q \in Proc, pc[q] = "ledger" PROVE q # p
      BY <1>2, <2>2, <2>7, <3>2 DEF Acts, Start, Step, StartPlan, StartRecord, StartFinding,
         StartFix, StartGates, StartVerify, StartRefresh, Begins, Goto, Advance, RefuseAdvance,
         AcquireRunLock, RefuseLock, CheckRecord, RefuseRecord, BeginReviewing, EndRecord,
         WriteApproval, AuthorizeFix, RefuseFix, RefuseEvent, PassGates, FailGates, ReadLedger,
         Judge, JudgeNotReady, BeginRun, RefuseBegin, WriteResult
    <3>3. ASSUME NEW q \in Proc, pc[q] = "ledger" PROVE pc'[q] = "ledger" /\ cmd'[q] = cmd[q]
      BY <1>2, <2>1, <3>2, <3>3, ActsAlone
    <3> QED BY <1>2, <2>4, <3>1, <3>3
  <2> QED BY <2>5, <2>6, <2>7
<1>3. ASSUME NEW p \in Proc, Acts(p) PROVE FindingsImported'
  BY <1>2, <1>3 DEF FindingsImported
<1> QED BY <1>1, <1>3 DEF Next, Acts

-------------------------------------------------------------------------------
(* The invariant behind the theorems below: it holds in every state of the  *)
(* specification, for any number of commands and of kills.                  *)
THEOREM ReviewIsInvariant == Spec => []ReviewInv
<1>1. ASSUME ReviewInv, [Next]_vars PROVE ReviewInv'
  <2>1. CASE UNCHANGED vars
    <3>1. Typed'
      BY <1>1, TypingStep DEF ReviewInv
    <3>2. \A p \in Proc : Stands(p)'
      BY <1>1, <2>1 DEF ReviewInv, vars, records, world, Stands, Holds, Records, Judges,
                        Authorizes, Refreshes
    <3>3. IndexMatchesFiles' /\ ReviewedIsComplete' /\ VerdictStands'
      BY <1>1, <2>1 DEF ReviewInv, vars, records, world, IndexMatchesFiles, IndexVerifies,
                        ReviewedIsComplete, VerdictStands
    <3>4. AuthorizedByRecord' /\ RefreshedAsAuthorized' /\ FindingsImported'
      BY <1>1, <2>1 DEF ReviewInv, vars, records, world, AuthorizedByRecord,
                        RefreshedAsAuthorized, FindingsImported
    <3> QED BY <3>1, <3>2, <3>3, <3>4 DEF ReviewInv
  <2>2. CASE Next
    <3>1. Typed'
      BY <1>1, TypingStep DEF ReviewInv
    <3> QED BY <1>1, <2>2, <3>1, StandsStep, IndexStep, CompleteStep, VerdictStep,
               AuthorizedStep, RefreshedStep, ImportedStep DEF ReviewInv
  <2> QED BY <1>1, <2>1, <2>2
<1> QED BY <1>1, InitStands, PTL DEF Spec

(* Every indexed pass has its file, with the content it was recorded with,  *)
(* and no pass is indexed twice, whatever was killed or tried again.        *)
THEOREM IndexIsInFiles == Spec => []IndexMatchesFiles
<1>1. ReviewInv => IndexMatchesFiles
  BY DEF ReviewInv
<1> QED BY <1>1, ReviewIsInvariant, PTL

(* A run is past REVIEWING only when its index is complete.                 *)
THEOREM ReviewedMeansComplete == Spec => []ReviewedIsComplete
<1>1. ReviewInv => ReviewedIsComplete
  BY DEF ReviewInv
<1> QED BY <1>1, ReviewIsInvariant, PTL

(* Without kills and lost ledgers every indexed finding is in the ledger,   *)
(* or on its way there.                                                     *)
THEOREM FindingsAreImported == Spec => []FindingsImported
<1>1. ReviewInv => FindingsImported
  BY DEF ReviewInv
<1> QED BY <1>1, ReviewIsInvariant, PTL

(* A verdict that was reached on unlocked reads holds of what is on disk    *)
(* when the run is moved on, and from then on, unless a ledger was lost.    *)
THEOREM VerdictsStand == Spec => []VerdictStands
<1>1. ReviewInv => VerdictStands
  BY DEF ReviewInv
<1> QED BY <1>1, ReviewIsInvariant, PTL

(* A run is FIX_AUTHORIZED, or MUTATED, by an approval on disk whose        *)
(* findings the ledger has as authorized, unless a ledger was lost.         *)
THEOREM FixesAreAuthorized == Spec => []AuthorizedByRecord
<1>1. ReviewInv => AuthorizedByRecord
  BY DEF ReviewInv
<1> QED BY <1>1, ReviewIsInvariant, PTL

(* A run is refreshed only into a worktree that an approval is for.         *)
THEOREM RefreshesAreAuthorized == Spec => []RefreshedAsAuthorized
<1>1. ReviewInv => RefreshedAsAuthorized
  BY DEF ReviewInv
<1> QED BY <1>1, ReviewIsInvariant, PTL

(* Index and result files stand still in every run that no longer takes     *)
(* results.                                                                 *)
THEOREM EvidenceIsFrozen == Spec => EvidenceFrozen
<1>1. ASSUME ReviewInv, [Next]_vars
      PROVE [state \notin Recordable => index' = index /\ files' = files]_vars
  <2>1. CASE UNCHANGED vars
    BY <2>1
  <2>2. CASE Environment
    BY <1>1, <2>2, EnvironmentStands
  <2>3. ASSUME NEW p \in Proc, Acts(p)
        PROVE state \notin Recordable => index' = index /\ files' = files
    BY <1>1, <2>3, EvidenceStays
  <2> QED BY <1>1, <2>1, <2>2, <2>3 DEF Next, Acts
<1> QED BY <1>1, ReviewIsInvariant, PTL DEF Spec, EvidenceFrozen
===============================================================================
