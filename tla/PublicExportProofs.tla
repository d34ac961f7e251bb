--------------------------- MODULE PublicExportProofs ---------------------------
(* Proofs about PublicExport, for any number of commands, any candidates,   *)
(* approvals and outputs, and any number of kills.                          *)
EXTENDS PublicExport, SequenceTheorems, TLAPS

Plain == {f \in Artifact : f.kind \notin {"bundle", "tombstone"}}

Publishes(p) == cmd[p].op \in {"create", "revoke"}

(* What a walk has before it: a part is taken before files are listed.      *)
Rests == {Walk, <<"events", "exports">>, <<"exports">>, <<>>}

(* What a command has in memory where it is.  What create and revoke put    *)
(* into the output is what they keep in the run and announce.               *)
InHand(p) ==
  /\ pc[p] \in {"read", "advance"} => cmd[p].op = "portable"
  /\ pc[p] = "link" => cmd[p].op \in {"create", "revoke", "portable"}
  /\ pc[p] = "write" => cmd[p].op \in {"prepare", "approve", "create", "revoke"}
  /\ pc[p] = "event" => cmd[p].op # "none"
  /\ pc[p] \in {"remove", "unlink"} => Publishes(p)
  /\ Publishes(p) =>
       /\ cmd[p].output \in Output
       /\ \/ cmd[p].event \in Bundles
          \/ cmd[p].event \in Tombstones /\ cmd[p].event.output = cmd[p].output
       /\ cmd[p].content = cmd[p].event /\ cmd[p].todo = <<cmd[p].event>>
  /\ cmd[p].op \in {"prepare", "approve"} =>
       /\ cmd[p].output = None
       /\ cmd[p].todo \in Seq(Plain) /\ cmd[p].todo # <<>> /\ cmd[p].event \in Plain
  /\ cmd[p].op = "portable" =>
       /\ cmd[p].output \in Output /\ cmd[p].content \in Archives
       /\ cmd[p].event = File("portable", cmd[p].output)
       /\ pc[p] = "read" => cmd[p].todo \in Rests /\ (cmd[p].todo = <<>> <=> cmd[p].listed # {})

(* A command owns the output it has linked and may take back.               *)
Owns(p) == Publishes(p) /\ pc[p] \in {"write", "event", "remove", "unlink"}

(* It has kept its export in the run.                                       *)
Kept(p) == Publishes(p) /\ pc[p] \in {"event", "remove"}

Approved(b) ==
  /\ b.content \notin Flagged /\ b.approval.candidate = b.content
  /\ File("approval", b.approval) \in artifacts
  /\ b.content \in Redacted => File("redaction", b.content) \in artifacts

(* Only what is approved is published, or is about to be.                   *)
ApprovedInHand ==
  /\ \A p \in Proc : Publishes(p) /\ cmd[p].event \in Bundles => Approved(cmd[p].event)
  /\ \A b \in artifacts \cap Bundles : Approved(b)
  /\ \A o \in Output : outputs[o] \in Bundles => Approved(outputs[o])

(* An output holds what its owner has put there, has one owner, and a       *)
(* tombstone is where it says.                                              *)
Ownership ==
  /\ \A p \in Proc : Owns(p) => outputs[cmd[p].output] = cmd[p].event
  /\ \A p, q \in Proc : Owns(p) /\ Owns(q) /\ cmd[p].output = cmd[q].output => p = q
  /\ \A o \in Output : outputs[o] \in Tombstones => outputs[o].output = o

(* An export that is kept, or announced, is in the run, or is doubled: the  *)
(* undoing of another command that has written it may take it away.         *)
KeptIsThere ==
  /\ \A p \in Proc : Kept(p) => cmd[p].event \in artifacts \cup doubled
  /\ \A f \in Exports(events) : f \in artifacts \cup doubled
  /\ \A p, q \in Proc :
       Kept(p) /\ Kept(q) /\ cmd[p].event = cmd[q].event => p = q \/ cmd[p].event \in doubled
  /\ \A p \in Proc : Kept(p) /\ cmd[p].event \in events => cmd[p].event \in doubled

(* What is announced is in an output nobody will take back.                 *)
AnnouncedStays ==
  /\ \A f \in Exports(events) : \E o \in Output :
       outputs[o] = f /\ \A p \in Proc : Owns(p) => cmd[p].output # o
  /\ \A p \in Proc : pc[p] = "advance" => cmd[p].event \in events
  /\ state = "EXPORTED" => \E o \in Output : File("portable", o) \in events

(* Without kills and archive, an export that is not announced is in the     *)
(* hands of its command.                                                    *)
NothingLeft ==
  kills = 0 /\ ~archived =>
    /\ \A f \in Exports(artifacts) :
         f \in events \cup doubled \/ \E p \in Proc : Kept(p) /\ cmd[p].event = f
    /\ \A o \in Output : outputs[o] \in Bundles \cup Tombstones =>
         \/ outputs[o] \in events
         \/ \E p \in Proc : Owns(p) /\ cmd[p].output = o

(* An archive that has exports has what its events announce.                *)
Coherent(z) == z.walked => z.events \subseteq z.exports \cup doubled

(* Once exports is listed, what the events read before announce has been    *)
(* read, or is listed and still to be read.                                 *)
PortableInHand ==
  /\ \A p \in Proc : cmd[p].op = "portable" =>
       /\ pc[p] = "read" => cmd[p].content.events \subseteq events
       /\ pc[p] = "read" /\ cmd[p].todo = <<>> /\ cmd[p].content.walked =>
            cmd[p].content.events \subseteq cmd[p].listed \cup cmd[p].content.exports \cup doubled
       /\ pc[p] # "read" => Coherent(cmd[p].content)
  /\ \A o \in Output : outputs[o] \in Archives \ {None} => Coherent(outputs[o])

Typed == TypeOK /\ \A p \in Proc : InHand(p)

ExportInv ==
  /\ Typed
  /\ ApprovedInHand /\ Ownership /\ KeptIsThere /\ AnnouncedStays
  /\ NothingLeft /\ PortableInHand

-------------------------------------------------------------------------------
(* Files, exports and archives are told apart by their kinds.               *)
LEMMA Kinds ==
  /\ \A b \in Bundles : b.kind = "bundle" /\ b \in Artifact
  /\ \A t \in Tombstones : t.kind = "tombstone" /\ t \in Artifact
  /\ \A z \in Archives : z.kind = "portable"
  /\ \A f \in Event : f.kind \in {"bundle", "tombstone"} => f \in Bundles \cup Tombstones
  /\ \A f \in Plain : f \in Artifact /\ f \notin Bundles \cup Tombstones
  /\ \A o \in Output : File("portable", o) \in Event /\ File("portable", o).kind = "portable"
<1>1. \A b \in Bundles : b.kind = "bundle" /\ b \in Artifact
  BY DEF Bundles, Bundle, Artifact
<1>2. \A t \in Tombstones : t.kind = "tombstone" /\ t \in Artifact
  BY DEF Tombstones, Tombstone, Artifact
<1>3. \A z \in Archives : z.kind = "portable"
  BY DEF Archives
<1>4. \A f \in Event : f.kind \in {"bundle", "tombstone"} => f \in Bundles \cup Tombstones
  BY DEF Event, Artifact
<1>5. \A f \in Plain : f \in Artifact /\ f \notin Bundles \cup Tombstones
  BY <1>1, <1>2 DEF Plain
<1>6. \A o \in Output : File("portable", o) \in Event /\ File("portable", o).kind = "portable"
  BY DEF File, Event
<1> QED BY <1>1, <1>2, <1>3, <1>4, <1>5, <1>6

LEMMA FilesArePlain ==
  /\ \A c \in Candidate : /\ File("candidate", c) \in Plain /\ File("preparation", c) \in Plain
                          /\ File("redaction", c) \in Plain
  /\ \A a \in Approval : File("approval", a) \in Plain
<1>1. \A c \in Candidate, k \in {"candidate", "preparation", "redaction"} :
        File(k, c) \in Artifact /\ File(k, c).kind = k
  BY DEF File, Artifact
<1>2. \A a \in Approval : File("approval", a) \in Artifact /\ File("approval", a).kind = "approval"
  BY DEF File, Artifact
<1> QED BY <1>1, <1>2 DEF Plain

LEMMA NothingIsCommand == Nothing \in Command
<1>1. <<>> \in Seq(Artifact \cup {"run", "events", "exports"})
  OBVIOUS
<1> QED BY <1>1 DEF Nothing, Command, Content

LEMMA Sets ==
  ASSUME cmd \in [Proc -> Command], NEW p \in Proc, NEW c \in Command,
         cmd' = [cmd EXCEPT ![p] = c]
  PROVE  /\ cmd' \in [Proc -> Command] /\ cmd'[p] = c
         /\ \A q \in Proc \ {p} : cmd'[q] = cmd[q]
OBVIOUS

(* A process changes its own memory only.                                   *)
OthersKeep(p) ==
  /\ cmd' \in [Proc -> Command] /\ pc' \in [Proc -> Pc]
  /\ \A q \in Proc \ {p} : cmd'[q] = cmd[q] /\ pc'[q] = pc[q]

LEMMA InitTyped == ASSUME Init PROVE Typed
<1> USE DEF Init
<1>1. cmd \in [Proc -> Command] /\ outputs \in [Output -> Content]
  BY NothingIsCommand DEF Content
<1>2. TypeOK
  BY <1>1 DEF TypeOK, Pc
<1>3. \A p \in Proc : InHand(p)
  BY DEF InHand, Publishes, Nothing
<1> QED BY <1>2, <1>3 DEF Typed

LEMMA OthersInHand ==
  ASSUME Typed, NEW p \in Proc, OthersKeep(p), InHand(p)'
  PROVE  \A q \in Proc : InHand(q)'
<1> SUFFICES ASSUME NEW q \in Proc \ {p} PROVE InHand(q)'
  OBVIOUS
<1>1. InHand(q) /\ cmd'[q] = cmd[q] /\ pc'[q] = pc[q]
  BY DEF Typed, OthersKeep
<1> QED BY <1>1 DEF InHand, Publishes

LEMMA BeginsTyped ==
  ASSUME Typed, NEW p \in Proc, NEW first \in Pc, NEW c \in Command, Begins(p, first, c)
  PROVE  /\ TypeOK' /\ OthersKeep(p) /\ cmd'[p] = [c EXCEPT !.from = state] /\ pc'[p] = first
         /\ pc[p] = "idle" /\ ~archived
         /\ UNCHANGED <<state, archived, artifacts, events, outputs, kills, doubled>>
<1> DEFINE d == [c EXCEPT !.from = state]
<1>1. d \in Command
  BY DEF Command, Typed, TypeOK
<1>2. cmd' = [cmd EXCEPT ![p] = d] /\ cmd \in [Proc -> Command]
  BY DEF Begins, Typed, TypeOK
<1> HIDE DEF d
<1>3. cmd' \in [Proc -> Command] /\ cmd'[p] = d /\ \A q \in Proc \ {p} : cmd'[q] = cmd[q]
  BY <1>1, <1>2, Sets
<1>4. pc' \in [Proc -> Pc] /\ pc'[p] = first /\ \A q \in Proc \ {p} : pc'[q] = pc[q]
  BY DEF Typed, TypeOK, Begins, Goto
<1>5. /\ UNCHANGED <<state, archived, artifacts, events, outputs, kills, doubled>>
      /\ pc[p] = "idle" /\ ~archived
  BY DEF Begins, Goto
<1> QED BY <1>3, <1>4, <1>5 DEF Typed, TypeOK, OthersKeep, d

LEMMA LeaveTyped ==
  ASSUME Typed, NEW p \in Proc, Leave(p)
  PROVE  OthersKeep(p) /\ cmd'[p] = Nothing /\ pc'[p] = "idle" /\ InHand(p)'
<1>1. cmd' \in [Proc -> Command] /\ cmd'[p] = Nothing /\ \A q \in Proc \ {p} : cmd'[q] = cmd[q]
  <2>1. cmd \in [Proc -> Command] /\ cmd' = [cmd EXCEPT ![p] = Nothing]
    BY DEF Typed, TypeOK, Leave
  <2> QED BY <2>1, Sets, NothingIsCommand
<1>2. pc' \in [Proc -> Pc] /\ pc'[p] = "idle" /\ \A q \in Proc \ {p} : pc'[q] = pc[q]
  BY DEF Typed, TypeOK, Leave, Pc
<1> QED BY <1>1, <1>2 DEF OthersKeep, InHand, Publishes, Nothing

LEMMA GoesTyped ==
  ASSUME Typed, NEW p \in Proc, NEW from, NEW to \in Pc, Goto(p, from, to), cmd' = cmd
  PROVE  OthersKeep(p) /\ cmd'[p] = cmd[p] /\ pc[p] = from /\ pc'[p] = to
BY DEF Typed, TypeOK, Goto, OthersKeep

-------------------------------------------------------------------------------
(* What a command that begins has in hand.                                  *)
BeginsWith(p, first) ==
  /\ TypeOK' /\ OthersKeep(p) /\ InHand(p)'
  /\ pc[p] = "idle" /\ pc'[p] = first
  /\ UNCHANGED <<state, archived, artifacts, events, outputs, kills, doubled>>

LEMMA PlainBegins ==
  ASSUME Typed, NEW p \in Proc, NEW c \in Candidate,
         Prepare(p, c) \/ \E s \in Stamp : Approve(p, c, s)
  PROVE  BeginsWith(p, "write") /\ cmd'[p].op \in {"prepare", "approve"}
<1>1. ASSUME NEW todo \in Seq(Plain), todo # <<>>, NEW event \in Plain,
             NEW op \in {"prepare", "approve"},
             Begins(p, "write", [Nothing EXCEPT !.op = op, !.todo = todo, !.event = event])
      PROVE  BeginsWith(p, "write") /\ cmd'[p].op \in {"prepare", "approve"}
  <2> DEFINE d == [Nothing EXCEPT !.op = op, !.todo = todo, !.event = event]
             e == [d EXCEPT !.from = state]
  <2>1. todo \in Seq(Artifact \cup {"run", "events", "exports"}) /\ event \in Event
    BY Kinds DEF Event, Plain
  <2>2. d \in Command
    BY <2>1, NothingIsCommand DEF Command
  <2>3. e.op = op /\ e.todo = todo /\ e.event = event /\ e.output = None
    BY DEF Nothing
  <2> HIDE DEF d
  <2>4. /\ TypeOK' /\ OthersKeep(p) /\ cmd'[p] = e /\ pc'[p] = "write" /\ pc[p] = "idle"
        /\ UNCHANGED <<state, archived, artifacts, events, outputs, kills, doubled>>
    BY <1>1, <2>2, BeginsTyped DEF Pc, d
  <2> HIDE DEF e
  <2>5. InHand(p)'
    BY <1>1, <2>3, <2>4 DEF InHand, Publishes
  <2> QED BY <1>1, <2>3, <2>4, <2>5 DEF BeginsWith
<1>2. CASE Prepare(p, c)
  <2> DEFINE todo == <<File("candidate", c), File("preparation", c)>>
  <2>1. todo \in Seq(Plain) /\ todo # <<>> /\ File("preparation", c) \in Plain
    BY FilesArePlain
  <2> QED BY <1>1, <1>2, <2>1 DEF Prepare
<1>3. ASSUME NEW s \in Stamp, Approve(p, c, s)
      PROVE  BeginsWith(p, "write") /\ cmd'[p].op \in {"prepare", "approve"}
  <2> DEFINE a == [candidate |-> c, at |-> s]
             approval == File("approval", a)
             todo == IF c \in Redacted THEN <<File("redaction", c), approval>>
                                       ELSE <<approval>>
  <2>1. approval \in Plain
    <3>1. a \in Approval
      BY DEF Approval
    <3> QED BY <3>1, FilesArePlain
  <2>2. Begins(p, "write", [Nothing EXCEPT !.op = "approve", !.todo = todo, !.event = approval])
    BY <1>3 DEF Approve
  <2> HIDE DEF approval
  <2>3. todo \in Seq(Plain) /\ todo # <<>>
    BY <2>1, FilesArePlain
  <2> HIDE DEF todo
  <2> QED BY <1>1, <2>1, <2>2, <2>3
<1> QED BY <1>2, <1>3

LEMMA ExportBegins ==
  ASSUME Typed, NEW p \in Proc, NEW o \in Output, NEW f, NEW op \in {"create", "revoke"},
         f \in Bundles \/ (f \in Tombstones /\ f.output = o),
         Begins(p, "link", [Nothing EXCEPT !.op = op, !.output = o, !.content = f,
                                           !.todo = <<f>>, !.event = f])
  PROVE  BeginsWith(p, "link") /\ cmd'[p].op = op /\ cmd'[p].event = f
<1> DEFINE d == [Nothing EXCEPT !.op = op, !.output = o, !.content = f,
                                !.todo = <<f>>, !.event = f]
           e == [d EXCEPT !.from = state]
<1>1. <<f>> \in Seq(Artifact \cup {"run", "events", "exports"}) /\ f \in Event /\ f \in Content
  BY Kinds DEF Event, Content
<1>2. d \in Command
  BY <1>1, NothingIsCommand DEF Command
<1>3. e.op = op /\ e.output = o /\ e.content = f /\ e.todo = <<f>> /\ e.event = f
  BY DEF Nothing
<1> HIDE DEF d
<1>4. /\ TypeOK' /\ OthersKeep(p) /\ cmd'[p] = e /\ pc'[p] = "link" /\ pc[p] = "idle"
      /\ UNCHANGED <<state, archived, artifacts, events, outputs, kills, doubled>>
  BY <1>2, BeginsTyped DEF Pc, d
<1> HIDE DEF e
<1>5. InHand(p)'
  BY <1>3, <1>4 DEF InHand, Publishes
<1> QED BY <1>3, <1>4, <1>5 DEF BeginsWith

LEMMA CreateBegins ==
  ASSUME Typed, NEW p \in Proc, NEW c \in Candidate, NEW a \in Approval, NEW o \in Output,
         Create(p, c, a, o)
  PROVE  /\ BeginsWith(p, "link") /\ cmd'[p].op = "create" /\ cmd'[p].event = Bundle(c, a)
         /\ Bundle(c, a) \in Bundles /\ Approved(Bundle(c, a))
<1>1. Bundle(c, a) \in Bundles
  BY DEF Bundles
<1>2. Approved(Bundle(c, a))
  BY DEF Create, Creatable, Approved, Bundle
<1>3. BeginsWith(p, "link") /\ cmd'[p].op = "create" /\ cmd'[p].event = Bundle(c, a)
  BY <1>1, ExportBegins DEF Create
<1> QED BY <1>1, <1>2, <1>3

LEMMA RevokeBegins ==
  ASSUME Typed, NEW p \in Proc, NEW b \in Bundles, NEW o \in Output, Revoke(p, b, o)
  PROVE  /\ BeginsWith(p, "link") /\ cmd'[p].op = "revoke" /\ cmd'[p].event \in Tombstones
<1>1. Tombstone(b, o) \in Tombstones /\ Tombstone(b, o).output = o
  BY DEF Tombstones, Tombstone
<1>2. BeginsWith(p, "link") /\ cmd'[p].op = "revoke" /\ cmd'[p].event = Tombstone(b, o)
  BY <1>1, ExportBegins DEF Revoke
<1> QED BY <1>1, <1>2

LEMMA Walking ==
  /\ Walk # <<>> /\ Head(Walk) = "run" /\ Tail(Walk) = <<"events", "exports">>
  /\ <<"events", "exports">> # <<>> /\ Head(<<"events", "exports">>) = "events"
  /\ Tail(<<"events", "exports">>) = <<"exports">>
  /\ <<"exports">> # <<>> /\ Head(<<"exports">>) = "exports" /\ Tail(<<"exports">>) = <<>>
  /\ Rests \subseteq Seq(Artifact \cup {"run", "events", "exports"})
<1> DEFINE S == Artifact \cup {"run", "events", "exports"}
<1>1. Walk # <<>> /\ Head(Walk) = "run" /\ Tail(Walk) = <<"events", "exports">>
  BY DEF Walk
<1>2. /\ <<"events", "exports">> # <<>> /\ Head(<<"events", "exports">>) = "events"
      /\ Tail(<<"events", "exports">>) = <<"exports">>
  OBVIOUS
<1>3. <<"exports">> # <<>> /\ Head(<<"exports">>) = "exports" /\ Tail(<<"exports">>) = <<>>
  OBVIOUS
<1>4. "run" \in S /\ "events" \in S /\ "exports" \in S
  OBVIOUS
<1> HIDE DEF S
<1>5. <<"run", "events", "exports">> \in Seq(S) /\ <<"events", "exports">> \in Seq(S)
  BY <1>4
<1>6. <<"exports">> \in Seq(S) /\ <<>> \in Seq(S)
  BY <1>4
<1> QED BY <1>1, <1>2, <1>3, <1>5, <1>6 DEF Rests, Walk, S

LEMMA PortableBegins ==
  ASSUME Typed, NEW p \in Proc, NEW o \in Output, Portable(p, o)
  PROVE  /\ BeginsWith(p, "read") /\ cmd'[p].op = "portable"
         /\ cmd'[p].content.events = {}
<1> DEFINE z == [kind |-> "portable", walked |-> FALSE, events |-> {}, exports |-> {}]
           d == [Nothing EXCEPT !.op = "portable", !.output = o, !.todo = Walk,
                                !.content = z, !.event = File("portable", o)]
           e == [d EXCEPT !.from = state]
<1>1. z \in Archives /\ z \in Content
  BY DEF Archives, Content
<1>2. Walk \in Seq(Artifact \cup {"run", "events", "exports"}) /\ File("portable", o) \in Event
  BY Kinds DEF Walk
<1>3. d \in Command
  <2> HIDE DEF z
  <2> QED BY <1>1, <1>2, NothingIsCommand DEF Command
<1>4. /\ e.op = "portable" /\ e.output = o /\ e.content = z /\ e.todo = Walk
      /\ e.event = File("portable", o) /\ e.listed = {}
  BY DEF Nothing
<1> HIDE DEF d
<1>5. /\ TypeOK' /\ OthersKeep(p) /\ cmd'[p] = e /\ pc'[p] = "read" /\ pc[p] = "idle"
      /\ UNCHANGED <<state, archived, artifacts, events, outputs, kills, doubled>>
  <2>1. Begins(p, "read", d)
    BY DEF Portable, d
  <2> QED BY <1>3, <2>1, BeginsTyped DEF Pc
<1> HIDE DEF e
<1>6. InHand(p)'
  <2>1. Walk \in Rests /\ Walk # <<>>
    BY Walking DEF Rests
  <2> HIDE DEF z
  <2> QED BY <1>1, <1>4, <1>5, <2>1 DEF InHand, Publishes
<1> QED BY <1>4, <1>5, <1>6 DEF BeginsWith

-------------------------------------------------------------------------------
(* What a command that goes on has in hand.                                 *)
Remains(p) == TypeOK' /\ OthersKeep(p) /\ InHand(p)'

LEMMA WalksOn ==
  ASSUME Typed, NEW p \in Proc, pc[p] = "read", NEW z \in Archives, NEW listed \in SUBSET Bundles,
         NEW todo \in Rests, todo # <<>> => listed = {}, WalkOn(p, z, listed, todo)
  PROVE  /\ Remains(p) /\ cmd'[p].op = "portable"
         /\ cmd'[p].content = z /\ cmd'[p].listed = listed /\ cmd'[p].todo = todo
         /\ pc'[p] = IF listed = {} /\ todo = <<>> THEN "link" ELSE "read"
<1> DEFINE d == [cmd[p] EXCEPT !.content = z, !.listed = listed, !.todo = todo]
           to == IF listed = {} /\ todo = <<>> THEN "link" ELSE "read"
<1>1. /\ cmd[p] \in Command /\ cmd \in [Proc -> Command] /\ pc \in [Proc -> Pc]
      /\ cmd' = [cmd EXCEPT ![p] = d] /\ pc' = [pc EXCEPT ![p] = to]
      /\ UNCHANGED <<state, archived, artifacts, events, outputs, kills, doubled>>
  BY DEF Typed, TypeOK, WalkOn
<1>2. /\ cmd[p].op = "portable" /\ cmd[p].output \in Output
      /\ cmd[p].event = File("portable", cmd[p].output)
  BY DEF Typed, InHand
<1>3. todo \in Seq(Artifact \cup {"run", "events", "exports"}) /\ z \in Content
  BY Walking DEF Content
<1>4. /\ d \in Command /\ d.op = "portable" /\ d.output = cmd[p].output
      /\ d.event = cmd[p].event /\ d.content = z /\ d.listed = listed /\ d.todo = todo
  BY <1>1, <1>2, <1>3 DEF Command
<1> HIDE DEF d
<1>5. cmd' \in [Proc -> Command] /\ cmd'[p] = d /\ \A q \in Proc \ {p} : cmd'[q] = cmd[q]
  BY <1>1, <1>4, Sets
<1>6. pc' \in [Proc -> Pc] /\ pc'[p] = to /\ \A q \in Proc \ {p} : pc'[q] = pc[q]
  BY <1>1 DEF Pc
<1>7. TypeOK' /\ OthersKeep(p)
  BY <1>1, <1>5, <1>6 DEF Typed, TypeOK, OthersKeep
<1>8. InHand(p)'
  BY <1>2, <1>4, <1>5, <1>6 DEF InHand, Publishes
<1> QED BY <1>4, <1>5, <1>6, <1>7, <1>8 DEF Remains

(* WriteArtifact writes the export, or one of the other files.              *)
LEMMA WritesFile ==
  ASSUME Typed, NEW p \in Proc, WriteArtifact(p)
  PROVE  /\ Remains(p) /\ cmd'[p].op = cmd[p].op /\ cmd'[p].event = cmd[p].event
         /\ cmd'[p].output = cmd[p].output /\ pc[p] = "write" /\ ~archived
         /\ UNCHANGED <<state, archived, events, outputs, kills>>
         /\ Publishes(p) =>
              /\ pc'[p] = "event" /\ artifacts' = artifacts \cup {cmd[p].event}
              /\ doubled' = doubled \cup (Bundles \cap artifacts \cap {cmd[p].event})
         /\ ~Publishes(p) =>
              doubled' = doubled /\ \E f \in Plain : artifacts' = artifacts \cup {f}
<1> DEFINE file == Head(cmd[p].todo)
<1>1. /\ cmd[p] \in Command /\ pc[p] = "write" /\ InHand(p) /\ cmd \in [Proc -> Command]
      /\ ~archived /\ UNCHANGED <<state, archived, events, outputs, kills>>
      /\ artifacts' = artifacts \cup {file}
      /\ doubled' = doubled \cup (Bundles \cap artifacts \cap {file})
      /\ artifacts \subseteq Artifact /\ doubled \subseteq Bundles
  BY DEF Typed, TypeOK, WriteArtifact
<1>2. CASE Publishes(p)
  <2>1. /\ cmd[p].todo = <<cmd[p].event>> /\ cmd[p].event \in Artifact
    BY <1>1, <1>2, Kinds DEF InHand
  <2>2. Goto(p, "write", "event") /\ cmd' = cmd /\ file = cmd[p].event
    BY <2>1 DEF WriteArtifact
  <2> HIDE DEF file
  <2>3. OthersKeep(p) /\ cmd'[p] = cmd[p] /\ pc'[p] = "event"
    BY <2>2, GoesTyped DEF Pc
  <2>4. InHand(p)'
    BY <1>1, <1>2, <2>3 DEF InHand, Publishes
  <2>5. TypeOK'
    <3>1. artifacts' \subseteq Artifact /\ doubled' \subseteq Bundles
      BY <1>1, <2>1, <2>2
    <3> QED BY <1>1, <2>3, <3>1 DEF Typed, TypeOK, OthersKeep
  <2> QED BY <1>1, <1>2, <2>2, <2>3, <2>4, <2>5 DEF Remains
<1>3. CASE ~Publishes(p)
  <2>1. /\ cmd[p].op \in {"prepare", "approve"} /\ cmd[p].output = None
        /\ cmd[p].todo \in Seq(Plain) /\ cmd[p].todo # <<>> /\ cmd[p].event \in Plain
    BY <1>1, <1>3 DEF InHand, Publishes
  <2>2. /\ file \in Plain /\ Tail(cmd[p].todo) \in Seq(Plain)
        /\ Len(cmd[p].todo) # 1 => Tail(cmd[p].todo) # <<>>
    <3>1. /\ file \in Plain /\ Tail(cmd[p].todo) \in Seq(Plain)
          /\ Len(Tail(cmd[p].todo)) = Len(cmd[p].todo) - 1 /\ Len(cmd[p].todo) \in Nat
      BY <2>1, HeadTailProperties, LenProperties
    <3> DEFINE later == Tail(cmd[p].todo)
    <3> HIDE DEF later
    <3>2. later = <<>> => Len(later) = 0
      OBVIOUS
    <3> QED BY <3>1, <3>2 DEF later
  <2>3. file \notin Bundles /\ file \in Artifact
    BY <2>2, Kinds
  <2>4. /\ OthersKeep(p) /\ cmd'[p].op = cmd[p].op /\ cmd'[p].event = cmd[p].event
        /\ cmd'[p].output = cmd[p].output
        /\ InHand(p)'
    <3>1. CASE Len(cmd[p].todo) = 1
      <4>1. Goto(p, "write", "event") /\ cmd' = cmd
        BY <3>1 DEF WriteArtifact
      <4>2. OthersKeep(p) /\ cmd'[p] = cmd[p] /\ pc'[p] = "event"
        BY <4>1, GoesTyped DEF Pc
      <4> QED BY <2>1, <4>2 DEF InHand, Publishes
    <3>2. CASE Len(cmd[p].todo) # 1
      <4> DEFINE later == Tail(cmd[p].todo)
                 e == [cmd[p] EXCEPT !.todo = later]
      <4>1. pc' = pc /\ cmd' = [cmd EXCEPT ![p] = e]
        BY <3>2 DEF WriteArtifact
      <4>2. later \in Seq(Artifact \cup {"run", "events", "exports"})
        BY <2>2, Kinds
      <4>3. e \in Command /\ e.op = cmd[p].op /\ e.event = cmd[p].event
            /\ e.output = cmd[p].output /\ e.todo = later
        <5> HIDE DEF later
        <5> QED BY <1>1, <4>2 DEF Command
      <4> HIDE DEF e
      <4>4. cmd' \in [Proc -> Command] /\ cmd'[p] = e /\ \A q \in Proc \ {p} : cmd'[q] = cmd[q]
        BY <1>1, <4>1, <4>3, Sets
      <4>5. OthersKeep(p)
        BY <4>1, <4>4 DEF Typed, TypeOK, OthersKeep
      <4> QED BY <1>1, <2>1, <2>2, <3>2, <4>1, <4>3, <4>4, <4>5 DEF InHand, Publishes
    <3> QED BY <3>1, <3>2
  <2> HIDE DEF file
  <2>5. artifacts' \subseteq Artifact /\ doubled' = doubled
    BY <1>1, <2>3
  <2>6. TypeOK'
    BY <1>1, <2>4, <2>5 DEF Typed, TypeOK, OthersKeep
  <2> QED BY <1>1, <1>3, <2>2, <2>4, <2>5, <2>6 DEF Remains
<1> QED BY <1>2, <1>3

-------------------------------------------------------------------------------
(* The steps of a command by what they do to the files.                     *)
Begun(p) ==
  /\ pc[p] = "idle" /\ UNCHANGED <<state, archived, artifacts, events, outputs, kills, doubled>>
  /\ \/ pc'[p] = "write" /\ cmd'[p].op \in {"prepare", "approve"}
     \/ pc'[p] = "link" /\ cmd'[p].op = "create" /\ Approved(cmd'[p].event)
     \/ pc'[p] = "link" /\ cmd'[p].op = "revoke" /\ cmd'[p].event \in Tombstones
     \/ pc'[p] = "read" /\ cmd'[p].op = "portable" /\ cmd'[p].content.events = {}

Reads(p) ==
  /\ pc[p] = "read" /\ cmd[p].op = "portable" /\ cmd'[p].op = "portable"
  /\ UNCHANGED <<state, archived, artifacts, events, outputs, kills, doubled>>
  /\ pc'[p] = IF cmd'[p].listed = {} /\ cmd'[p].todo = <<>> THEN "link" ELSE "read"
  /\ \/ /\ cmd'[p].todo # <<>>
        /\ cmd'[p].content.events \in {cmd[p].content.events, events \cap Bundles}
     \/ /\ cmd'[p].todo = <<>> /\ cmd'[p].content = cmd[p].content
        /\ cmd[p].content.walked => cmd'[p].listed = artifacts \cap Bundles
     \/ /\ cmd[p].todo = <<>> /\ cmd'[p].todo = <<>>
        /\ cmd'[p].content.events = cmd[p].content.events
        /\ cmd'[p].content.walked = cmd[p].content.walked
        /\ cmd[p].listed \cup cmd[p].content.exports
              \subseteq cmd'[p].listed \cup cmd'[p].content.exports

Links(p) ==
  /\ pc[p] = "link" /\ cmd[p].output \in Output /\ outputs[cmd[p].output] = None
  /\ outputs' = [outputs EXCEPT ![cmd[p].output] = cmd[p].content]
  /\ UNCHANGED <<state, archived, artifacts, events, kills, doubled>>
  /\ \/ Publishes(p) /\ cmd'[p] = cmd[p] /\ pc'[p] = "write"
     \/ cmd[p].op = "portable" /\ cmd'[p] = cmd[p] /\ pc'[p] = "event"
     \/ cmd[p].op = "portable" /\ cmd'[p] = Nothing /\ pc'[p] = "idle"

WritesPlain(p) ==
  /\ pc[p] = "write" /\ ~Publishes(p) /\ cmd'[p].op = cmd[p].op
  /\ cmd[p].op \in {"prepare", "approve"}
  /\ UNCHANGED <<state, archived, events, outputs, kills, doubled>>
  /\ \E f \in Plain : artifacts' = artifacts \cup {f}

WritesExport(p) ==
  /\ pc[p] = "write" /\ Publishes(p) /\ cmd'[p] = cmd[p] /\ pc'[p] = "event"
  /\ artifacts' = artifacts \cup {cmd[p].event}
  /\ doubled' = doubled \cup (Bundles \cap artifacts \cap {cmd[p].event})
  /\ UNCHANGED <<state, archived, events, outputs, kills>>

Announces(p) ==
  /\ pc[p] = "event" /\ events' = events \cup {cmd[p].event}
  /\ UNCHANGED <<state, archived, artifacts, outputs, kills, doubled>>
  /\ \/ cmd[p].op = "portable" /\ cmd'[p] = cmd[p] /\ pc'[p] = "advance"
     \/ cmd[p].op # "portable" /\ cmd'[p] = Nothing /\ pc'[p] = "idle"

(* A command ends; while it owns an output only if it is killed.            *)
Ends(p) ==
  /\ cmd'[p] = Nothing /\ pc'[p] = "idle"
  /\ Owns(p) => kills' # 0
  /\ kills' = 0 => kills = 0
  /\ state' = state \/ pc[p] = "advance"
  /\ UNCHANGED <<archived, artifacts, events, outputs, doubled>>

(* It turns to undoing what it has done.                                    *)
Turns(p) ==
  /\ Publishes(p) /\ cmd'[p] = cmd[p]
  /\ \/ pc[p] = "write" /\ archived /\ pc'[p] = "unlink"
     \/ pc[p] = "event" /\ pc'[p] = "remove"
  /\ UNCHANGED <<state, archived, artifacts, events, outputs, kills, doubled>>

RemovesFile(p) ==
  /\ Publishes(p) /\ pc[p] = "remove" /\ pc'[p] = "unlink" /\ cmd'[p] = cmd[p]
  /\ artifacts' = IF archived THEN artifacts ELSE artifacts \ {cmd[p].event}
  /\ UNCHANGED <<state, archived, events, outputs, kills, doubled>>

RemovesOutput(p) ==
  /\ Publishes(p) /\ pc[p] = "unlink" /\ pc'[p] = "idle" /\ cmd'[p] = Nothing
  /\ outputs' = [outputs EXCEPT ![cmd[p].output] = None]
  /\ UNCHANGED <<state, archived, artifacts, events, kills, doubled>>

Goes(p) ==
  \/ Begun(p) \/ Reads(p) \/ Links(p) \/ WritesPlain(p) \/ WritesExport(p)
  \/ Announces(p) \/ Ends(p) \/ Turns(p) \/ RemovesFile(p) \/ RemovesOutput(p)

LEMMA Beginnings ==
  ASSUME Typed, NEW p \in Proc,
         \/ \E c \in Candidate :
              \/ Prepare(p, c)
              \/ \E s \in Stamp : Approve(p, c, s)
              \/ \E a \in Approval, o \in Output : Create(p, c, a, o)
         \/ \E b \in Bundles, o \in Output : Revoke(p, b, o)
         \/ \E o \in Output : Portable(p, o)
  PROVE  Remains(p) /\ Begun(p)
<1>1. ASSUME NEW c \in Candidate, Prepare(p, c) \/ \E s \in Stamp : Approve(p, c, s)
      PROVE  Remains(p) /\ Begun(p)
  BY <1>1, PlainBegins DEF BeginsWith, Remains, Begun
<1>2. ASSUME NEW c \in Candidate, NEW a \in Approval, NEW o \in Output, Create(p, c, a, o)
      PROVE  Remains(p) /\ Begun(p)
  BY <1>2, CreateBegins DEF BeginsWith, Remains, Begun
<1>3. ASSUME NEW b \in Bundles, NEW o \in Output, Revoke(p, b, o)
      PROVE  Remains(p) /\ Begun(p)
  BY <1>3, RevokeBegins DEF BeginsWith, Remains, Begun
<1>4. ASSUME NEW o \in Output, Portable(p, o)
      PROVE  Remains(p) /\ Begun(p)
  BY <1>4, PortableBegins DEF BeginsWith, Remains, Begun
<1> QED BY <1>1, <1>2, <1>3, <1>4

LEMMA ReadSteps ==
  ASSUME Typed, NEW p \in Proc,
         ListRun(p) \/ ReadEvents(p) \/ ListExports(p) \/ ReadFile(p)
  PROVE  Remains(p) /\ Reads(p)
<1> DEFINE z == cmd[p].content
           todo == cmd[p].todo
<1>1. /\ pc[p] = "read" /\ cmd[p].op = "portable" /\ z \in Archives /\ todo \in Rests
      /\ cmd[p].listed \in SUBSET Bundles /\ (todo = <<>> <=> cmd[p].listed # {})
      /\ UNCHANGED <<state, archived, artifacts, events, outputs, kills, doubled>>
  <2>1. pc[p] = "read"
    BY DEF ListRun, ReadEvents, ListExports, ReadFile, Visits
  <2> QED BY <2>1 DEF Typed, TypeOK, InHand, Publishes, Command, ListRun, ReadEvents,
                      ListExports, ReadFile, WalkOn
<1>2. CASE ListRun(p)
  <2>1. PICK walked \in BOOLEAN : WalkOn(p, [z EXCEPT !.walked = walked], {}, Tail(todo))
    BY <1>2 DEF ListRun
  <2> DEFINE y == [z EXCEPT !.walked = walked]
             rest == Tail(todo)
  <2>2. y \in Archives /\ y.events = z.events
    BY <1>1 DEF Archives
  <2>3. rest \in Rests /\ rest # <<>>
    <3>1. todo # <<>> /\ Head(todo) = "run"
      BY <1>1, <1>2 DEF ListRun, Visits
    <3>2. todo = Walk
      BY <1>1, <3>1, Walking DEF Rests
    <3> QED BY <3>2, Walking DEF Rests
  <2>4. WalkOn(p, y, {}, rest) /\ {} \in SUBSET Bundles
    BY <2>1
  <2> HIDE DEF y, z, todo, rest
  <2>5. /\ Remains(p) /\ cmd'[p].op = "portable" /\ cmd'[p].content = y
        /\ cmd'[p].todo = rest /\ pc'[p] = "read"
    BY <1>1, <2>2, <2>3, <2>4, WalksOn
  <2> QED BY <1>1, <2>2, <2>3, <2>5 DEF Reads, z
<1>3. CASE ReadEvents(p)
  <2> DEFINE y == [z EXCEPT !.events = events \cap Bundles]
             rest == Tail(todo)
  <2>1. WalkOn(p, y, {}, rest) /\ {} \in SUBSET Bundles
    BY <1>3 DEF ReadEvents
  <2>2. y \in Archives /\ y.events = events \cap Bundles
    BY <1>1 DEF Archives
  <2>3. rest \in Rests /\ rest # <<>>
    <3>1. todo # <<>> /\ Head(todo) = "events"
      BY <1>1, <1>3 DEF ReadEvents, Visits
    <3>2. todo = <<"events", "exports">>
      BY <1>1, <3>1, Walking DEF Rests
    <3> QED BY <3>2, Walking DEF Rests
  <2> HIDE DEF y, z, todo, rest
  <2>4. /\ Remains(p) /\ cmd'[p].op = "portable" /\ cmd'[p].content = y
        /\ cmd'[p].todo = rest /\ pc'[p] = "read"
    BY <1>1, <2>1, <2>2, <2>3, WalksOn
  <2> QED BY <1>1, <2>2, <2>3, <2>4 DEF Reads
<1>4. CASE ListExports(p)
  <2> DEFINE listed == IF z.walked THEN artifacts \cap Bundles ELSE {}
             rest == Tail(todo)
  <2>1. WalkOn(p, z, listed, rest) /\ listed \in SUBSET Bundles
    BY <1>4 DEF ListExports
  <2>2. z.walked => listed = artifacts \cap Bundles
    OBVIOUS
  <2>3. rest \in Rests /\ rest = <<>>
    <3>1. todo # <<>> /\ Head(todo) = "exports"
      BY <1>1, <1>4 DEF ListExports, Visits
    <3>2. todo = <<"exports">>
      BY <1>1, <3>1, Walking DEF Rests
    <3> QED BY <3>2, Walking DEF Rests
  <2> HIDE DEF listed, z, todo, rest
  <2>4. /\ Remains(p) /\ cmd'[p].op = "portable" /\ cmd'[p].content = z
        /\ cmd'[p].listed = listed /\ cmd'[p].todo = rest
        /\ pc'[p] = IF listed = {} /\ rest = <<>> THEN "link" ELSE "read"
    BY <1>1, <2>1, <2>3, WalksOn
  <2> QED BY <1>1, <2>2, <2>3, <2>4 DEF Reads, z
<1>5. CASE ReadFile(p)
  <2>0. todo = <<>>
    BY <1>1, <1>5 DEF Typed, InHand, ReadFile
  <2>1. PICK b \in cmd[p].listed \cap artifacts :
          WalkOn(p, [z EXCEPT !.exports = @ \cup {b}], cmd[p].listed \ {b}, todo)
    BY <1>5 DEF ReadFile
  <2> DEFINE y == [z EXCEPT !.exports = @ \cup {b}]
  <2>2. /\ y \in Archives /\ y.events = z.events /\ y.walked = z.walked
        /\ y.exports = z.exports \cup {b}
    BY <1>1, <2>1 DEF Archives
  <2> HIDE DEF y, z, todo
  <2>3. /\ Remains(p) /\ cmd'[p].op = "portable" /\ cmd'[p].content = y
        /\ cmd'[p].listed = cmd[p].listed \ {b} /\ cmd'[p].todo = todo
        /\ pc'[p] = IF cmd[p].listed \ {b} = {} /\ todo = <<>> THEN "link" ELSE "read"
    BY <1>1, <2>0, <2>1, <2>2, WalksOn DEF y
  <2> QED BY <1>1, <2>0, <2>2, <2>3 DEF Reads, z, todo
<1> QED BY <1>2, <1>3, <1>4, <1>5

LEMMA LinkStep ==
  ASSUME Typed, NEW p \in Proc, LinkOutput(p)
  PROVE  Remains(p) /\ Links(p)
<1>1. /\ cmd[p] \in Command /\ pc[p] = "link" /\ InHand(p) /\ outputs \in [Output -> Content]
      /\ outputs' = [outputs EXCEPT ![cmd[p].output] = cmd[p].content]
      /\ UNCHANGED <<state, archived, artifacts, events, kills, doubled>>
      /\ outputs[cmd[p].output] = None
  BY DEF Typed, TypeOK, LinkOutput, Free
<1>2. cmd[p].output \in Output /\ cmd[p].op \in {"create", "revoke", "portable"}
  BY <1>1 DEF InHand, Publishes
<1>3. outputs' \in [Output -> Content]
  BY <1>1, <1>2 DEF Command
<1>4. /\ OthersKeep(p) /\ InHand(p)'
      /\ \/ Publishes(p) /\ cmd'[p] = cmd[p] /\ pc'[p] = "write"
         \/ cmd[p].op = "portable" /\ cmd'[p] = cmd[p] /\ pc'[p] = "event"
         \/ cmd[p].op = "portable" /\ cmd'[p] = Nothing /\ pc'[p] = "idle"
  <2>1. CASE AfterLink(p) = "idle"
    <3>1. Leave(p) /\ cmd[p].op = "portable"
      BY <2>1 DEF LinkOutput, AfterLink
    <3> QED BY <3>1, LeaveTyped
  <2>2. CASE AfterLink(p) # "idle"
    <3>1. /\ Goto(p, "link", AfterLink(p)) /\ cmd' = cmd
          /\ \/ cmd[p].op # "portable" /\ AfterLink(p) = "write"
             \/ cmd[p].op = "portable" /\ AfterLink(p) = "event"
      BY <2>2 DEF LinkOutput, AfterLink
    <3>2. OthersKeep(p) /\ cmd'[p] = cmd[p] /\ pc'[p] = AfterLink(p)
      BY <3>1, GoesTyped DEF Pc
    <3>3. InHand(p)'
      BY <1>1, <1>2, <3>1, <3>2 DEF InHand, Publishes
    <3> QED BY <1>2, <3>1, <3>2, <3>3 DEF Publishes
  <2> QED BY <2>1, <2>2
<1>5. TypeOK'
  BY <1>1, <1>3, <1>4 DEF Typed, TypeOK, OthersKeep
<1> QED BY <1>1, <1>2, <1>4, <1>5 DEF Remains, Links

LEMMA WriteStep ==
  ASSUME Typed, NEW p \in Proc, WriteArtifact(p)
  PROVE  Remains(p) /\ (WritesPlain(p) \/ WritesExport(p))
<1>1. CASE Publishes(p)
  <2>1. cmd'[p] = cmd[p]
    <3>1. cmd[p].todo = <<cmd[p].event>>
      BY <1>1 DEF Typed, InHand
    <3> QED BY <3>1 DEF WriteArtifact
  <2> QED BY <1>1, <2>1, WritesFile DEF WritesExport
<1>2. CASE ~Publishes(p)
  <2>1. cmd[p].op \in {"prepare", "approve"}
    BY <1>2 DEF Typed, InHand, WriteArtifact, Publishes
  <2> QED BY <1>2, <2>1, WritesFile DEF WritesPlain
<1> QED BY <1>1, <1>2

LEMMA AppendStep ==
  ASSUME Typed, NEW p \in Proc, AppendEvent(p)
  PROVE  Remains(p) /\ Announces(p)
<1>1. /\ cmd[p] \in Command /\ pc[p] = "event" /\ InHand(p) /\ events \subseteq Event
      /\ events' = events \cup {cmd[p].event}
      /\ UNCHANGED <<state, archived, artifacts, outputs, kills, doubled>>
  BY DEF Typed, TypeOK, AppendEvent
<1>2. events' \subseteq Event
  <2>1. cmd[p].event \in Event
    BY <1>1, Kinds DEF InHand, Publishes, Command, Plain, Event
  <2> QED BY <1>1, <2>1
<1>3. CASE cmd[p].op = "portable"
  <2>1. Goto(p, "event", "advance") /\ cmd' = cmd
    BY <1>3 DEF AppendEvent
  <2>2. OthersKeep(p) /\ cmd'[p] = cmd[p] /\ pc'[p] = "advance"
    BY <2>1, GoesTyped DEF Pc
  <2>3. InHand(p)'
    BY <1>1, <1>3, <2>2 DEF InHand, Publishes
  <2>4. TypeOK'
    BY <1>1, <1>2, <2>2 DEF Typed, TypeOK, OthersKeep
  <2> QED BY <1>1, <1>3, <2>2, <2>3, <2>4 DEF Remains, Announces
<1>4. CASE cmd[p].op # "portable"
  <2>1. OthersKeep(p) /\ cmd'[p] = Nothing /\ pc'[p] = "idle" /\ InHand(p)'
    BY <1>4, LeaveTyped DEF AppendEvent
  <2>2. TypeOK'
    BY <1>1, <1>2, <2>1 DEF Typed, TypeOK, OthersKeep
  <2> QED BY <1>1, <1>4, <2>1, <2>2 DEF Remains, Announces
<1> QED BY <1>3, <1>4

(* RefuseRead, RefuseOutput, RefuseWrite, RefuseEvent, the advances, Kill    *)
LEMMA LeaveStep ==
  ASSUME Typed, NEW p \in Proc, Leave(p), Owns(p) => kills' # 0, kills' = 0 => kills = 0,
         state' = state \/ pc[p] = "advance", state' \in {"FINALIZED", "EXPORTED"},
         kills' \in Nat, UNCHANGED <<archived, artifacts, events, outputs, doubled>>
  PROVE  Remains(p) /\ Ends(p)
<1>1. OthersKeep(p) /\ cmd'[p] = Nothing /\ pc'[p] = "idle" /\ InHand(p)'
  BY LeaveTyped
<1>2. TypeOK'
  BY <1>1 DEF Typed, TypeOK, OthersKeep
<1> QED BY <1>1, <1>2 DEF Remains, Ends

LEMMA TurnStep ==
  ASSUME Typed, NEW p \in Proc, NEW from \in {"write", "event"}, NEW to \in {"remove", "unlink"},
         Goto(p, from, to), cmd' = cmd, Publishes(p),
         from = "write" => archived /\ to = "unlink", from = "event" => to = "remove",
         UNCHANGED <<state, archived, artifacts, events, outputs, kills, doubled>>
  PROVE  Remains(p) /\ Turns(p)
<1>1. OthersKeep(p) /\ cmd'[p] = cmd[p] /\ pc[p] = from /\ pc'[p] = to
  BY GoesTyped DEF Pc
<1>2. InHand(p)'
  BY <1>1 DEF Typed, InHand, Publishes
<1>3. TypeOK'
  BY <1>1 DEF Typed, TypeOK, OthersKeep
<1> QED BY <1>1, <1>2, <1>3 DEF Remains, Turns

LEMMA RefuseSteps ==
  ASSUME Typed, NEW p \in Proc, RefuseRead(p) \/ RefuseOutput(p) \/ RefuseWrite(p) \/ RefuseEvent(p)
  PROVE  Remains(p) /\ (Ends(p) \/ Turns(p))
<1>1. /\ cmd[p] \in Command /\ InHand(p) /\ kills \in Nat /\ state \in {"FINALIZED", "EXPORTED"}
      /\ UNCHANGED <<state, archived, artifacts, events, outputs, kills, doubled>>
  BY DEF Typed, TypeOK, RefuseRead, RefuseOutput, RefuseWrite, RefuseEvent
<1>2. CASE RefuseRead(p) \/ RefuseOutput(p)
  <2>1. Leave(p) /\ ~Owns(p)
    BY <1>2 DEF RefuseRead, RefuseOutput, Owns
  <2> QED BY <1>1, <2>1, LeaveStep
<1>3. CASE RefuseWrite(p)
  <2>1. CASE Publishes(p)
    <3>1. cmd[p].output # None /\ archived
      BY <1>1, <1>3, <2>1, NoFile DEF InHand, RefuseWrite
    <3>2. Goto(p, "write", "unlink") /\ cmd' = cmd
      BY <1>3, <3>1 DEF RefuseWrite
    <3> QED BY <1>1, <2>1, <3>1, <3>2, TurnStep
  <2>2. CASE ~Publishes(p)
    <3>1. cmd[p].output = None
      BY <1>1, <1>3, <2>2 DEF InHand, RefuseWrite, Publishes
    <3>2. Leave(p) /\ ~Owns(p)
      BY <1>3, <2>2, <3>1 DEF RefuseWrite, Owns
    <3> QED BY <1>1, <3>2, LeaveStep
  <2> QED BY <2>1, <2>2
<1>4. CASE RefuseEvent(p)
  <2>1. CASE Publishes(p)
    <3>1. Goto(p, "event", "remove") /\ cmd' = cmd
      BY <1>4, <2>1 DEF RefuseEvent, Undoes, Publishes
    <3> QED BY <1>1, <2>1, <3>1, TurnStep
  <2>2. CASE ~Publishes(p)
    <3>1. Leave(p) /\ ~Owns(p)
      BY <1>4, <2>2 DEF RefuseEvent, Undoes, Publishes, Owns
    <3> QED BY <1>1, <3>1, LeaveStep
  <2> QED BY <2>1, <2>2
<1> QED BY <1>2, <1>3, <1>4

LEMMA AdvanceSteps ==
  ASSUME Typed, NEW p \in Proc, Advance(p) \/ RefuseAdvance(p) \/ Kill(p)
  PROVE  Remains(p) /\ Ends(p)
<1>1. kills \in Nat /\ state \in {"FINALIZED", "EXPORTED"}
  BY DEF Typed, TypeOK
<1>2. CASE Advance(p)
  <2>1. Leave(p) /\ ~Owns(p) /\ pc[p] = "advance" /\ state' = "EXPORTED"
        /\ UNCHANGED <<archived, artifacts, events, outputs, kills, doubled>>
    BY <1>2 DEF Advance, Owns
  <2> QED BY <1>1, <2>1, LeaveStep
<1>3. CASE RefuseAdvance(p)
  <2>1. Leave(p) /\ ~Owns(p)
        /\ UNCHANGED <<state, archived, artifacts, events, outputs, kills, doubled>>
    BY <1>3 DEF RefuseAdvance, Owns
  <2> QED BY <1>1, <2>1, LeaveStep
<1>4. CASE Kill(p)
  <2>1. Leave(p) /\ kills' = kills + 1
        /\ UNCHANGED <<state, archived, artifacts, events, outputs, doubled>>
    BY <1>4 DEF Kill
  <2> QED BY <1>1, <2>1, LeaveStep
<1> QED BY <1>2, <1>3, <1>4

LEMMA RemoveSteps ==
  ASSUME Typed, NEW p \in Proc, RemoveArtifact(p) \/ RemoveOutput(p)
  PROVE  Remains(p) /\ (RemovesFile(p) \/ RemovesOutput(p))
<1>1. /\ cmd[p] \in Command /\ InHand(p) /\ artifacts \subseteq Artifact
      /\ outputs \in [Output -> Content] /\ pc[p] \in {"remove", "unlink"}
  BY DEF Typed, TypeOK, RemoveArtifact, RemoveOutput, Goto
<1>2. Publishes(p) /\ cmd[p].output \in Output
  BY <1>1 DEF InHand
<1>3. CASE RemoveArtifact(p)
  <2>1. /\ Goto(p, "remove", "unlink") /\ cmd' = cmd
        /\ artifacts' = IF archived THEN artifacts ELSE artifacts \ {cmd[p].event}
        /\ UNCHANGED <<state, archived, events, outputs, kills, doubled>>
    BY <1>3 DEF RemoveArtifact
  <2>2. OthersKeep(p) /\ cmd'[p] = cmd[p] /\ pc[p] = "remove" /\ pc'[p] = "unlink"
    BY <2>1, GoesTyped DEF Pc
  <2>3. InHand(p)'
    BY <1>1, <1>2, <2>2 DEF InHand, Publishes
  <2>4. TypeOK'
    <3>1. artifacts' \subseteq Artifact
      BY <1>1, <2>1
    <3> QED BY <2>1, <2>2, <3>1 DEF Typed, TypeOK, OthersKeep
  <2> QED BY <1>2, <2>1, <2>2, <2>3, <2>4 DEF Remains, RemovesFile
<1>4. CASE RemoveOutput(p)
  <2>1. /\ pc[p] = "unlink" /\ Leave(p)
        /\ outputs' = [outputs EXCEPT ![cmd[p].output] = None]
        /\ UNCHANGED <<state, archived, artifacts, events, kills, doubled>>
    BY <1>4 DEF RemoveOutput
  <2>2. OthersKeep(p) /\ cmd'[p] = Nothing /\ pc'[p] = "idle" /\ InHand(p)'
    BY <2>1, LeaveTyped
  <2>3. outputs' \in [Output -> Content]
    BY <1>1, <1>2, <2>1 DEF Content
  <2>4. TypeOK'
    BY <2>1, <2>2, <2>3 DEF Typed, TypeOK, OthersKeep
  <2> QED BY <1>2, <2>1, <2>2, <2>4 DEF Remains, RemovesOutput
<1> QED BY <1>3, <1>4

LEMMA EveryStep ==
  ASSUME Typed, NEW p \in Proc, Step(p)
  PROVE  Remains(p) /\ Goes(p)
<1>1. CASE \/ \E c \in Candidate :
                \/ Prepare(p, c)
                \/ \E s \in Stamp : Approve(p, c, s)
                \/ \E a \in Approval, o \in Output : Create(p, c, a, o)
           \/ \E b \in Bundles, o \in Output : Revoke(p, b, o)
           \/ \E o \in Output : Portable(p, o)
  BY <1>1, Beginnings DEF Goes
<1>2. CASE ListRun(p) \/ ReadEvents(p) \/ ListExports(p) \/ ReadFile(p)
  BY <1>2, ReadSteps DEF Goes
<1>3. CASE LinkOutput(p)
  BY <1>3, LinkStep DEF Goes
<1>4. CASE WriteArtifact(p)
  BY <1>4, WriteStep DEF Goes
<1>5. CASE RefuseRead(p) \/ RefuseOutput(p) \/ RefuseWrite(p) \/ RefuseEvent(p)
  BY <1>5, RefuseSteps DEF Goes
<1>6. CASE AppendEvent(p)
  BY <1>6, AppendStep DEF Goes
<1>7. CASE RemoveArtifact(p) \/ RemoveOutput(p)
  BY <1>7, RemoveSteps DEF Goes
<1>8. CASE Advance(p) \/ RefuseAdvance(p) \/ Kill(p)
  BY <1>8, AdvanceSteps DEF Goes
<1> QED BY <1>1, <1>2, <1>3, <1>4, <1>5, <1>6, <1>7, <1>8 DEF Step

-------------------------------------------------------------------------------
(* What the parts of the invariant have in common.                          *)
LEMMA Others ==
  ASSUME NEW p \in Proc, OthersKeep(p), NEW q \in Proc \ {p}
  PROVE  /\ cmd'[q] = cmd[q] /\ pc'[q] = pc[q]
         /\ Publishes(q)' <=> Publishes(q)
         /\ Owns(q)' <=> Owns(q)
         /\ Kept(q)' <=> Kept(q)
BY DEF OthersKeep, Publishes, Owns, Kept

LEMMA InTheHand ==
  ASSUME Typed, NEW p \in Proc, Publishes(p)
  PROVE  /\ cmd[p].output \in Output /\ cmd[p].content = cmd[p].event
         /\ cmd[p].event \in Bundles \cup Tombstones
         /\ cmd[p].event \in Tombstones => cmd[p].event.output = cmd[p].output
         /\ cmd[p].event # None /\ cmd[p].event \notin Plain
         /\ cmd[p].event.kind \in {"bundle", "tombstone"}
<1>1. /\ cmd[p].output \in Output /\ cmd[p].content = cmd[p].event
      /\ \/ cmd[p].event \in Bundles
         \/ cmd[p].event \in Tombstones /\ cmd[p].event.output = cmd[p].output
  BY DEF Typed, InHand
<1>2. cmd[p].event \in Event /\ cmd[p].event.kind \in {"bundle", "tombstone"}
  BY <1>1, Kinds DEF Event
<1>3. cmd[p].event \in Tombstones => cmd[p].event.output = cmd[p].output
  BY <1>1, Kinds
<1> QED BY <1>1, <1>2, <1>3, Kinds, NoFile

LEMMA Apart ==
  /\ Bundles \cap Tombstones = {} /\ Bundles \cap Archives = {} /\ Tombstones \cap Archives = {}
  /\ None \notin Bundles \cup Tombstones
BY Kinds, NoFile DEF Event

(* What a command publishes is what it had in hand, unless it begins.       *)
LEMMA StillPublishes ==
  ASSUME NEW p \in Proc, Goes(p), Publishes(p)', ~Begun(p)
  PROVE  cmd'[p] = cmd[p] /\ Publishes(p)
BY DEF Goes, Reads, Links, WritesPlain, WritesExport, Announces, Ends, Turns, RemovesFile,
       RemovesOutput, Publishes, Nothing

-------------------------------------------------------------------------------
(* Approvals stay: a command removes bundles and tombstones only.           *)
LEMMA ApprovedStep ==
  ASSUME Typed, ApprovedInHand, NEW p \in Proc, Remains(p), Goes(p)
  PROVE  ApprovedInHand'
<1>1. /\ outputs \in [Output -> Content] /\ artifacts \subseteq Artifact
      /\ Publishes(p) => cmd[p].event \in Bundles \cup Tombstones
                         /\ cmd[p].event \notin Plain /\ cmd[p].content = cmd[p].event
  BY InTheHand DEF Typed, TypeOK
<1>2. \A f \in Plain : f \in artifacts => f \in artifacts'
  BY <1>1 DEF Goes, Begun, Reads, Links, WritesPlain, WritesExport, Announces, Ends, Turns,
              RemovesFile, RemovesOutput
<1>3. \A b \in Bundles : Approved(b) => Approved(b)'
  <2> SUFFICES ASSUME NEW b \in Bundles, Approved(b) PROVE Approved(b)'
    OBVIOUS
  <2>1. b.content \in Candidate /\ b.approval \in Approval
    BY DEF Bundles, Bundle
  <2> QED BY <1>2, <2>1, FilesArePlain DEF Approved
<1>4. \A q \in Proc : Publishes(q)' /\ cmd'[q].event \in Bundles => Approved(cmd[q].event)'
  <2> SUFFICES ASSUME NEW q \in Proc, Publishes(q)', cmd'[q].event \in Bundles
               PROVE  Approved(cmd[q].event)'
    OBVIOUS
  <2>1. CASE q # p
    <3>1. cmd'[q] = cmd[q] /\ Publishes(q)
      BY <2>1, Others DEF Remains
    <3> QED BY <1>3, <3>1 DEF ApprovedInHand, Approved
  <2>2. CASE q = p /\ Begun(p)
    <3>1. Approved(cmd'[p].event)
      BY <2>2, Apart DEF Begun, Publishes
    <3> QED BY <1>3, <2>2, <3>1 DEF Approved
  <2>3. CASE q = p /\ ~Begun(p)
    <3>1. cmd'[p] = cmd[p] /\ Publishes(p)
      BY <2>3, StillPublishes
    <3> QED BY <1>3, <2>3, <3>1 DEF ApprovedInHand, Approved
  <2> QED BY <2>1, <2>2, <2>3
<1>5. \A b \in artifacts' \cap Bundles : Approved(b)'
  <2>1. \A b \in artifacts' \cap Bundles :
          b \in artifacts \/ (Publishes(p) /\ b = cmd[p].event)
    BY Kinds DEF Goes, Begun, Reads, Links, WritesPlain, WritesExport, Announces, Ends, Turns,
                 RemovesFile, RemovesOutput
  <2> QED BY <1>3, <2>1 DEF ApprovedInHand
<1>6. \A o \in Output : outputs'[o] \in Bundles => Approved(outputs[o])'
  <2> SUFFICES ASSUME NEW o \in Output, outputs'[o] \in Bundles PROVE Approved(outputs[o])'
    OBVIOUS
  <2>1. outputs'[o] = outputs[o] \/ (Publishes(p) /\ outputs'[o] = cmd[p].event)
    <3>1. CASE Links(p) /\ ~Publishes(p)
      <4>1. cmd[p].content \in Archives
        BY <3>1 DEF Typed, InHand, Links
      <4> QED BY <1>1, <3>1, <4>1, Apart DEF Links
    <3>2. CASE Links(p) /\ Publishes(p)
      BY <1>1, <3>2 DEF Links
    <3>3. CASE RemovesOutput(p)
      BY <1>1, <3>3, Apart DEF RemovesOutput
    <3>4. CASE ~Links(p) /\ ~RemovesOutput(p)
      BY <3>4 DEF Goes, Begun, Reads, WritesPlain, WritesExport, Announces, Ends, Turns,
                  RemovesFile
    <3> QED BY <3>1, <3>2, <3>3, <3>4
  <2>2. Approved(outputs'[o])
    BY <2>1 DEF ApprovedInHand
  <2> QED BY <1>3, <2>2 DEF Approved
<1> QED BY <1>4, <1>5, <1>6 DEF ApprovedInHand

-------------------------------------------------------------------------------
LEMMA OutputsChange ==
  ASSUME Typed, NEW p \in Proc, Goes(p), ~Links(p), ~RemovesOutput(p)
  PROVE  /\ outputs' = outputs
         /\ Owns(p)' => Owns(p) /\ cmd'[p] = cmd[p]
         /\ Owns(p) => Owns(p)' \/ Ends(p) \/ Announces(p)
BY DEF Goes, Begun, Reads, WritesPlain, WritesExport, Announces, Ends, Turns, RemovesFile,
       Owns, Publishes, Nothing

LEMMA OwnershipStep ==
  ASSUME Typed, Ownership, NEW p \in Proc, Remains(p), Goes(p)
  PROVE  Ownership'
<1>1. outputs \in [Output -> Content]
  BY DEF Typed, TypeOK
<1>2. CASE Links(p)
  <2> DEFINE o == cmd[p].output
  <2>1. /\ o \in Output /\ outputs[o] = None /\ outputs' = [outputs EXCEPT ![o] = cmd[p].content]
        /\ Owns(p)' => Publishes(p) /\ cmd'[p] = cmd[p]
    BY <1>2 DEF Links, Owns, Publishes, Nothing
  <2>2. \A q \in Proc : Owns(q) => cmd[q].output # o /\ cmd[q].output \in Output
    BY <2>1, InTheHand DEF Ownership, Owns
  <2>3. \A q \in Proc \ {p} : Owns(q)' => Owns(q) /\ cmd'[q] = cmd[q]
    BY Others DEF Remains
  <2>4. \A q \in Proc : Owns(q)' => outputs'[cmd'[q].output] = cmd'[q].event
    BY <1>1, <2>1, <2>2, <2>3, InTheHand DEF Ownership
  <2>5. \A q, r \in Proc : Owns(q)' /\ Owns(r)' /\ cmd'[q].output = cmd'[r].output => q = r
    BY <2>1, <2>2, <2>3 DEF Ownership
  <2>6. \A x \in Output : outputs'[x] \in Tombstones => outputs'[x].output = x
    <3>1. cmd[p].content \in Tombstones => cmd[p].content.output = o
      <4>1. CASE Publishes(p)
        BY <4>1, InTheHand
      <4>2. CASE ~Publishes(p)
        BY <1>2, <4>2, Apart DEF Links, Typed, InHand
      <4> QED BY <4>1, <4>2
    <3> QED BY <1>1, <2>1, <3>1 DEF Ownership
  <2> QED BY <2>4, <2>5, <2>6 DEF Ownership
<1>3. CASE RemovesOutput(p)
  <2> DEFINE o == cmd[p].output
  <2>1. /\ Owns(p) /\ outputs' = [outputs EXCEPT ![o] = None] /\ ~Owns(p)'
    BY <1>3 DEF RemovesOutput, Owns, Publishes, Nothing
  <2>2. \A q \in Proc \ {p} : Owns(q)' => Owns(q) /\ cmd'[q] = cmd[q] /\ cmd[q].output # o
    BY <2>1, Others DEF Remains, Ownership
  <2>3. \A q \in Proc : Owns(q)' => outputs'[cmd'[q].output] = cmd'[q].event
    BY <1>1, <2>1, <2>2 DEF Ownership
  <2>4. \A q, r \in Proc : Owns(q)' /\ Owns(r)' /\ cmd'[q].output = cmd'[r].output => q = r
    BY <2>1, <2>2 DEF Ownership
  <2>5. \A x \in Output : outputs'[x] \in Tombstones => outputs'[x].output = x
    BY <1>1, <2>1, Apart DEF Ownership
  <2> QED BY <2>3, <2>4, <2>5 DEF Ownership
<1>4. CASE ~Links(p) /\ ~RemovesOutput(p)
  <2>1. outputs' = outputs /\ \A q \in Proc : Owns(q)' => Owns(q) /\ cmd'[q] = cmd[q]
    BY <1>4, OutputsChange, Others DEF Remains
  <2> QED BY <2>1 DEF Ownership
<1> QED BY <1>2, <1>3, <1>4

-------------------------------------------------------------------------------
LEMMA KeptChanges ==
  ASSUME Typed, NEW p \in Proc, Goes(p), ~WritesExport(p), ~RemovesFile(p), ~Announces(p)
  PROVE  /\ artifacts \subseteq artifacts' /\ events' = events /\ doubled' = doubled
         /\ Kept(p)' => Kept(p) /\ cmd'[p] = cmd[p]
BY DEF Goes, Begun, Reads, Links, WritesPlain, Ends, Turns, RemovesOutput, Kept, Publishes,
       Nothing

LEMMA KeptStep ==
  ASSUME Typed, Ownership, KeptIsThere, AnnouncedStays, NEW p \in Proc, Remains(p), Goes(p)
  PROVE  KeptIsThere'
<1>0. \A q \in Proc \ {p} : Kept(q)' => Kept(q) /\ cmd'[q] = cmd[q]
  BY Others DEF Remains
<1>1. CASE WritesExport(p)
  <2> DEFINE f == cmd[p].event
  <2>1. /\ Publishes(p) /\ Owns(p) /\ cmd'[p] = cmd[p] /\ events' = events
        /\ artifacts' = artifacts \cup {f}
        /\ doubled' = doubled \cup (Bundles \cap artifacts \cap {f})
    BY <1>1 DEF WritesExport, Owns
  <2>2. /\ f \in Bundles \cup Tombstones /\ f.kind \in {"bundle", "tombstone"}
        /\ f \in Tombstones => f.output = cmd[p].output
    BY <2>1, InTheHand
  <2>3. \A q \in Proc \ {p} : Kept(q) /\ cmd[q].event = f => f \in doubled'
    <3> SUFFICES ASSUME NEW q \in Proc \ {p}, Kept(q), cmd[q].event = f PROVE f \in doubled'
      OBVIOUS
    <3>1. CASE f \in Bundles
      BY <2>1, <3>1 DEF KeptIsThere
    <3>2. CASE f \in Tombstones
      <4>1. Owns(q) /\ cmd[q].output = cmd[p].output
        BY <2>2, <3>2, InTheHand DEF Kept, Owns
      <4> QED BY <2>1, <4>1 DEF Ownership
    <3> QED BY <2>2, <3>1, <3>2
  <2>4. f \in events => f \in doubled'
    <3> SUFFICES ASSUME f \in events PROVE f \in doubled'
      OBVIOUS
    <3>1. f \in Exports(events)
      BY <2>2 DEF Exports
    <3>2. CASE f \in Bundles
      BY <2>1, <3>1, <3>2 DEF KeptIsThere
    <3>3. CASE f \in Tombstones
      <4>1. PICK o \in Output : outputs[o] = f /\ \A q \in Proc : Owns(q) => cmd[q].output # o
        BY <3>1 DEF AnnouncedStays
      <4>2. f.output = o
        BY <3>3, <4>1 DEF Ownership
      <4> QED BY <2>1, <2>2, <3>3, <4>1, <4>2
    <3> QED BY <2>2, <3>2, <3>3
  <2> HIDE DEF f
  <2>5. \A q \in Proc : Kept(q)' => (q = p \/ Kept(q)) /\ cmd'[q] = cmd[q]
    BY <1>0, <2>1
  <2>6. cmd'[p].event = f /\ cmd[p].event = f
    BY <2>1 DEF f
  <2>7. \A q \in Proc : Kept(q)' => cmd'[q].event \in artifacts' \cup doubled'
    BY <2>1, <2>5, <2>6 DEF KeptIsThere
  <2>8. \A g \in Exports(events') : g \in artifacts' \cup doubled'
    BY <2>1 DEF KeptIsThere, Exports
  <2>9. \A q, r \in Proc : Kept(q)' /\ Kept(r)' /\ cmd'[q].event = cmd'[r].event =>
                             q = r \/ cmd'[q].event \in doubled'
    BY <2>1, <2>3, <2>5, <2>6 DEF KeptIsThere
  <2>10. \A q \in Proc : Kept(q)' /\ cmd'[q].event \in events' => cmd'[q].event \in doubled'
    BY <2>1, <2>4, <2>5, <2>6 DEF KeptIsThere
  <2> QED BY <2>7, <2>8, <2>9, <2>10 DEF KeptIsThere, Exports
<1>2. CASE RemovesFile(p)
  <2>1. /\ Kept(p) /\ ~Kept(p)' /\ events' = events /\ doubled' = doubled
        /\ artifacts \ {cmd[p].event} \subseteq artifacts'
    BY <1>2 DEF RemovesFile, Kept
  <2>2. \A q \in Proc : Kept(q)' => q # p /\ Kept(q) /\ cmd'[q] = cmd[q]
    BY <1>0, <2>1
  <2> QED BY <2>1, <2>2 DEF KeptIsThere, Exports
<1>3. CASE Announces(p)
  <2>1. /\ ~Kept(p)' /\ events' = events \cup {cmd[p].event} /\ doubled' = doubled
        /\ artifacts' = artifacts
        /\ Publishes(p) => Kept(p)
    BY <1>3 DEF Announces, Kept, Publishes, Nothing
  <2>2. \A q \in Proc : Kept(q)' => q # p /\ Kept(q) /\ cmd'[q] = cmd[q]
    BY <1>0, <2>1
  <2>3. ~Publishes(p) => cmd[p].event.kind \notin {"bundle", "tombstone"}
    <3> SUFFICES ASSUME ~Publishes(p) PROVE cmd[p].event.kind \notin {"bundle", "tombstone"}
      OBVIOUS
    <3>1. CASE cmd[p].op = "portable"
      <4>1. cmd[p].event = File("portable", cmd[p].output) /\ cmd[p].output \in Output
        BY <3>1 DEF Typed, InHand
      <4> QED BY <4>1, Kinds
    <3>2. CASE cmd[p].op # "portable"
      <4>1. cmd[p].event \in Plain
        BY <1>3, <3>2 DEF Typed, TypeOK, Command, InHand, Announces, Publishes
      <4> QED BY <4>1 DEF Plain
    <3> QED BY <3>1, <3>2
  <2>4. \A q \in Proc : Kept(q) => cmd[q].event.kind \in {"bundle", "tombstone"}
    BY InTheHand DEF Kept
  <2>5. \A g \in Exports(events') : g \in artifacts' \cup doubled'
    BY <2>1, <2>3 DEF KeptIsThere, Exports
  <2>6. \A q \in Proc : Kept(q)' /\ cmd'[q].event \in events' => cmd'[q].event \in doubled'
    BY <2>1, <2>2, <2>3, <2>4 DEF KeptIsThere
  <2> QED BY <2>1, <2>2, <2>5, <2>6 DEF KeptIsThere, Exports
<1>4. CASE ~WritesExport(p) /\ ~RemovesFile(p) /\ ~Announces(p)
  <2>1. /\ artifacts \subseteq artifacts' /\ events' = events /\ doubled' = doubled
        /\ \A q \in Proc : Kept(q)' => Kept(q) /\ cmd'[q] = cmd[q]
    BY <1>0, <1>4, KeptChanges
  <2> QED BY <2>1 DEF KeptIsThere, Exports
<1> QED BY <1>1, <1>2, <1>3, <1>4

-------------------------------------------------------------------------------
LEMMA AnnouncedStep ==
  ASSUME Typed, Ownership, AnnouncedStays, NEW p \in Proc, Remains(p), Goes(p)
  PROVE  AnnouncedStays'
<1>1. /\ outputs \in [Output -> Content] /\ events \subseteq Event
      /\ \A f \in Exports(events) : f # None
  BY NoFile DEF Typed, TypeOK, Exports
<1>2. \A q \in Proc \ {p} : Owns(q)' => Owns(q) /\ cmd'[q] = cmd[q]
  BY Others DEF Remains
<1>3. events \subseteq events' /\ (~Announces(p) => events' = events)
  BY DEF Goes, Begun, Reads, Links, WritesPlain, WritesExport, Announces, Ends, Turns,
         RemovesFile, RemovesOutput
<1>4. \A f \in Exports(events') : \E o \in Output :
        outputs'[o] = f /\ \A q \in Proc : Owns(q)' => cmd'[q].output # o
  <2> SUFFICES ASSUME NEW f \in Exports(events')
               PROVE  \E o \in Output :
                        outputs'[o] = f /\ \A q \in Proc : Owns(q)' => cmd'[q].output # o
    OBVIOUS
  <2>1. CASE f \in events
    <3>1. f \in Exports(events)
      BY <2>1 DEF Exports
    <3>2. PICK o \in Output : outputs[o] = f /\ \A q \in Proc : Owns(q) => cmd[q].output # o
      BY <3>1 DEF AnnouncedStays
    <3>3. outputs'[o] = f /\ (Owns(p)' => cmd'[p].output # o)
      <4>1. CASE Links(p)
        BY <1>1, <3>1, <3>2, <4>1 DEF Links, Owns, Publishes, Nothing
      <4>2. CASE RemovesOutput(p)
        <5>1. Owns(p) /\ ~Owns(p)' /\ outputs' = [outputs EXCEPT ![cmd[p].output] = None]
          BY <4>2 DEF RemovesOutput, Owns, Publishes, Nothing
        <5> QED BY <1>1, <3>2, <5>1
      <4>3. CASE ~Links(p) /\ ~RemovesOutput(p)
        BY <3>2, <4>3, OutputsChange
      <4> QED BY <4>1, <4>2, <4>3
    <3> QED BY <1>2, <3>2, <3>3
  <2>2. CASE f \notin events
    <3>1. /\ Announces(p) /\ f = cmd[p].event /\ f.kind \in {"bundle", "tombstone"}
      BY <1>3, <2>2 DEF Exports, Announces
    <3>2. Publishes(p)
      <4>1. CASE cmd[p].op = "portable"
        <5>1. cmd[p].event = File("portable", cmd[p].output) /\ cmd[p].output \in Output
          BY <4>1 DEF Typed, InHand
        <5> QED BY <3>1, <5>1, Kinds
      <4>2. CASE cmd[p].op \in {"prepare", "approve"}
        BY <3>1, <4>2 DEF Typed, InHand, Plain
      <4> QED BY <3>1, <4>1, <4>2 DEF Typed, TypeOK, Command, InHand, Announces, Publishes
    <3>3. Owns(p) /\ ~Owns(p)' /\ outputs' = outputs
      BY <3>1, <3>2 DEF Announces, Owns, Publishes, Nothing
    <3>4. outputs[cmd[p].output] = f /\ cmd[p].output \in Output
      BY <3>1, <3>2, <3>3, InTheHand DEF Ownership
    <3>5. \A q \in Proc : Owns(q)' => cmd'[q].output # cmd[p].output
      BY <1>2, <3>3 DEF Ownership
    <3> QED BY <3>3, <3>4, <3>5
  <2> QED BY <2>1, <2>2
<1>5. \A q \in Proc : pc'[q] = "advance" => cmd'[q].event \in events'
  <2> SUFFICES ASSUME NEW q \in Proc, pc'[q] = "advance" PROVE cmd'[q].event \in events'
    OBVIOUS
  <2>1. CASE q # p
    BY <1>3, <2>1, Others DEF AnnouncedStays, Remains
  <2>2. CASE q = p
    BY <2>2 DEF Goes, Begun, Reads, Links, WritesExport, Announces, Ends, Turns, RemovesFile,
                RemovesOutput, WritesPlain, Remains, InHand
  <2> QED BY <2>1, <2>2
<1>6. state' = "EXPORTED" => \E o \in Output : File("portable", o) \in events'
  <2>1. state' = state \/ pc[p] = "advance"
    BY DEF Goes, Begun, Reads, Links, WritesPlain, WritesExport, Announces, Ends, Turns,
           RemovesFile, RemovesOutput
  <2>2. CASE pc[p] = "advance"
    <3>1. cmd[p].event = File("portable", cmd[p].output) /\ cmd[p].output \in Output
      BY <2>2 DEF Typed, InHand
    <3> QED BY <1>3, <2>2, <3>1 DEF AnnouncedStays
  <2> QED BY <1>3, <2>1, <2>2 DEF AnnouncedStays
<1> QED BY <1>4, <1>5, <1>6 DEF AnnouncedStays, Exports

-------------------------------------------------------------------------------
(* A command that has published gives up only by announcing or undoing it.  *)
LEMMA NothingStep ==
  ASSUME Typed, Ownership, NothingLeft, NEW p \in Proc, Remains(p), Goes(p)
  PROVE  NothingLeft'
<1> SUFFICES ASSUME kills' = 0, ~archived'
             PROVE  /\ \A f \in Exports(artifacts') :
                         \/ f \in events' \cup doubled'
                         \/ \E q \in Proc : Kept(q)' /\ cmd'[q].event = f
                    /\ \A o \in Output : outputs'[o] \in Bundles \cup Tombstones =>
                         \/ outputs'[o] \in events'
                         \/ \E q \in Proc : Owns(q)' /\ cmd'[q].output = o
  BY DEF NothingLeft, Exports
<1>1. /\ kills = 0 /\ ~archived /\ events \subseteq events' /\ doubled \subseteq doubled'
      /\ outputs \in [Output -> Content]
  BY DEF Goes, Begun, Reads, Links, WritesPlain, WritesExport, Announces, Ends, Turns,
         RemovesFile, RemovesOutput, Typed, TypeOK
<1>2. \A q \in Proc \ {p} : /\ Kept(q)' <=> Kept(q)
                            /\ Owns(q)' <=> Owns(q)
                            /\ cmd'[q] = cmd[q]
  BY Others DEF Remains
<1>3. Kept(p) => (Kept(p)' /\ cmd'[p] = cmd[p]) \/ Announces(p) \/ RemovesFile(p)
  BY <1>1 DEF Goes, Begun, Reads, Links, WritesPlain, WritesExport, Announces, Ends, Turns,
              RemovesFile, RemovesOutput, Kept, Owns, Publishes
<1>4. Owns(p) => (Owns(p)' /\ cmd'[p] = cmd[p]) \/ Announces(p) \/ RemovesOutput(p)
  BY <1>1 DEF Goes, Begun, Reads, Links, WritesPlain, WritesExport, Announces, Ends, Turns,
              RemovesFile, RemovesOutput, Owns, Publishes
<1>5. ASSUME NEW f \in Exports(artifacts')
      PROVE  \/ f \in events' \cup doubled'
             \/ \E q \in Proc : Kept(q)' /\ cmd'[q].event = f
  <2>1. CASE f \notin artifacts
    <3>1. WritesExport(p) /\ f = cmd[p].event
      <4>1. f \notin Plain
        BY DEF Exports, Plain
      <4> QED BY <2>1, <4>1 DEF Exports, Goes, Begun, Reads, Links, WritesPlain, WritesExport,
                   Announces, Ends, Turns, RemovesFile, RemovesOutput
    <3>2. Kept(p)' /\ cmd'[p].event = f
      BY <3>1 DEF WritesExport, Kept, Publishes
    <3> QED BY <3>2
  <2>2. CASE f \in artifacts /\ f \in events \cup doubled
    BY <1>1, <2>2
  <2>3. CASE f \in artifacts /\ f \notin events \cup doubled
    <3>1. PICK q \in Proc : Kept(q) /\ cmd[q].event = f
      BY <1>1, <2>3 DEF NothingLeft, Exports
    <3>2. CASE q # p
      BY <1>2, <3>1, <3>2
    <3>3. CASE q = p /\ Announces(p)
      BY <3>1, <3>3 DEF Announces
    <3>4. CASE q = p /\ RemovesFile(p)
      BY <1>1, <3>1, <3>4 DEF RemovesFile, Exports
    <3> QED BY <1>3, <3>1, <3>2, <3>3, <3>4
  <2> QED BY <2>1, <2>2, <2>3
<1>6. ASSUME NEW o \in Output, outputs'[o] \in Bundles \cup Tombstones
      PROVE  \/ outputs'[o] \in events'
             \/ \E q \in Proc : Owns(q)' /\ cmd'[q].output = o
  <2>1. CASE Links(p) /\ o = cmd[p].output
    <3>1. outputs'[o] = cmd[p].content
      BY <1>1, <2>1 DEF Links
    <3>2. CASE Publishes(p)
      BY <2>1, <3>2 DEF Links, Owns, Publishes
    <3>3. CASE ~Publishes(p)
      <4>1. cmd[p].content \in Archives
        BY <2>1, <3>3 DEF Links, Typed, InHand
      <4> QED BY <1>6, <3>1, <4>1, Apart
    <3> QED BY <3>2, <3>3
  <2>2. CASE RemovesOutput(p) /\ o = cmd[p].output
    BY <1>1, <1>6, <2>2, Apart DEF RemovesOutput
  <2>3. CASE ~(Links(p) /\ o = cmd[p].output) /\ ~(RemovesOutput(p) /\ o = cmd[p].output)
    <3>1. outputs'[o] = outputs[o]
      <4>1. CASE Links(p) \/ RemovesOutput(p)
        BY <1>1, <2>3, <4>1 DEF Links, RemovesOutput
      <4>2. CASE ~Links(p) /\ ~RemovesOutput(p)
        BY <4>2, OutputsChange
      <4> QED BY <4>1, <4>2
    <3>2. CASE outputs[o] \in events
      BY <1>1, <3>1, <3>2
    <3>3. CASE outputs[o] \notin events
      <4>1. PICK q \in Proc : Owns(q) /\ cmd[q].output = o
        BY <1>1, <1>6, <3>1, <3>3 DEF NothingLeft
      <4>2. CASE q # p
        BY <1>2, <4>1, <4>2
      <4>3. CASE q = p /\ Announces(p)
        BY <3>1, <4>1, <4>3 DEF Announces, Ownership
      <4> QED BY <1>4, <2>3, <4>1, <4>2, <4>3
    <3> QED BY <3>2, <3>3
  <2> QED BY <2>1, <2>2, <2>3
<1> QED BY <1>5, <1>6

-------------------------------------------------------------------------------
LEMMA PortableStep ==
  ASSUME Typed, KeptIsThere, PortableInHand, NEW p \in Proc, Remains(p), Goes(p)
  PROVE  PortableInHand'
<1>1. /\ events \subseteq events' /\ doubled \subseteq doubled' /\ outputs \in [Output -> Content]
  BY DEF Goes, Begun, Reads, Links, WritesPlain, WritesExport, Announces, Ends, Turns,
         RemovesFile, RemovesOutput, Typed, TypeOK
<1>2. \A z : Coherent(z) => Coherent(z)'
  BY <1>1 DEF Coherent
<1> DEFINE Fine(q) ==
             /\ pc[q] = "read" => cmd[q].content.events \subseteq events
             /\ pc[q] = "read" /\ cmd[q].todo = <<>> /\ cmd[q].content.walked =>
                  cmd[q].content.events
                    \subseteq cmd[q].listed \cup cmd[q].content.exports \cup doubled
             /\ pc[q] # "read" => Coherent(cmd[q].content)
<1>3. ASSUME NEW q \in Proc, q # p, cmd'[q].op = "portable" PROVE Fine(q)'
  <2>1. cmd'[q] = cmd[q] /\ pc'[q] = pc[q]
    BY <1>3, Others DEF Remains
  <2>2. Fine(q)
    BY <1>3, <2>1 DEF PortableInHand
  <2> QED BY <1>1, <1>2, <2>1, <2>2 DEF Coherent
<1>4. ASSUME cmd'[p].op = "portable" PROVE Fine(p)'
  <2>1. CASE Begun(p)
    BY <1>4, <2>1 DEF Begun
  <2>2. CASE Reads(p)
    <3>1. /\ cmd[p].op = "portable" /\ pc[p] = "read" /\ cmd[p].content \in Archives
          /\ cmd[p].content.events \subseteq events /\ cmd[p].content.events \subseteq Bundles
      BY <2>2 DEF Reads, Typed, InHand, PortableInHand, Archives
    <3>2. cmd'[p].content.events \subseteq events' /\ doubled' = doubled
      <4>1. cmd'[p].content.events \in {cmd[p].content.events, events \cap Bundles}
        BY <2>2 DEF Reads
      <4> QED BY <1>1, <2>2, <3>1, <4>1 DEF Reads
    <3>3. cmd'[p].todo = <<>> /\ cmd'[p].content.walked =>
            cmd'[p].content.events
              \subseteq cmd'[p].listed \cup cmd'[p].content.exports \cup doubled'
      <4> SUFFICES ASSUME cmd'[p].todo = <<>>, cmd'[p].content.walked
                   PROVE  cmd'[p].content.events
                            \subseteq cmd'[p].listed \cup cmd'[p].content.exports \cup doubled
        BY <3>2
      <4>1. CASE /\ cmd'[p].content = cmd[p].content
                 /\ cmd[p].content.walked => cmd'[p].listed = artifacts \cap Bundles
        <5>1. \A b \in cmd[p].content.events : b \in Exports(events) /\ b \in Bundles
          BY <3>1, Kinds DEF Exports
        <5> QED BY <4>1, <5>1 DEF KeptIsThere
      <4>2. CASE /\ cmd[p].todo = <<>>
                 /\ cmd'[p].content.events = cmd[p].content.events
                 /\ cmd'[p].content.walked = cmd[p].content.walked
                 /\ cmd[p].listed \cup cmd[p].content.exports
                       \subseteq cmd'[p].listed \cup cmd'[p].content.exports
        <5>1. cmd[p].content.events \subseteq cmd[p].listed \cup cmd[p].content.exports \cup doubled
          BY <3>1, <4>2 DEF PortableInHand
        <5> QED BY <4>2, <5>1
      <4> QED BY <2>2, <4>1, <4>2 DEF Reads
    <3>4. pc'[p] # "read" => cmd'[p].listed = {} /\ cmd'[p].todo = <<>>
      BY <2>2 DEF Reads
    <3> QED BY <3>2, <3>3, <3>4 DEF Coherent
  <2>3. CASE ~Begun(p) /\ ~Reads(p)
    <3>1. cmd'[p] = cmd[p] /\ pc[p] # "read" /\ pc'[p] # "read"
      BY <1>4, <2>3 DEF Goes, Links, WritesPlain, WritesExport, Announces, Ends, Turns,
                        RemovesFile, RemovesOutput, Nothing, Publishes
    <3> QED BY <1>2, <1>4, <3>1 DEF PortableInHand, Coherent
  <2> QED BY <2>1, <2>2, <2>3
<1>5. ASSUME NEW o \in Output, outputs'[o] \in Archives \ {None} PROVE Coherent(outputs[o])'
  <2>1. Coherent(outputs'[o])
    <3>1. CASE Links(p) /\ o = cmd[p].output
      <4>1. outputs'[o] = cmd[p].content /\ pc[p] = "link"
        BY <1>1, <3>1 DEF Links
      <4>2. cmd[p].op = "portable"
        BY <1>5, <3>1, <4>1, InTheHand, Apart DEF Links
      <4> QED BY <4>1, <4>2 DEF PortableInHand
    <3>2. CASE RemovesOutput(p) /\ o = cmd[p].output
      BY <1>1, <1>5, <3>2 DEF RemovesOutput
    <3>3. CASE ~(Links(p) /\ o = cmd[p].output) /\ ~(RemovesOutput(p) /\ o = cmd[p].output)
      <4>1. outputs'[o] = outputs[o]
        <5>1. CASE Links(p) \/ RemovesOutput(p)
          BY <1>1, <3>3, <5>1 DEF Links, RemovesOutput
        <5>2. CASE ~Links(p) /\ ~RemovesOutput(p)
          BY <5>2, OutputsChange
        <5> QED BY <5>1, <5>2
      <4> QED BY <1>5, <4>1 DEF PortableInHand
    <3> QED BY <3>1, <3>2, <3>3
  <2> QED BY <1>2, <2>1 DEF Coherent
<1> QED BY <1>3, <1>4, <1>5 DEF PortableInHand, Coherent

-------------------------------------------------------------------------------
LEMMA ArchiveStep == ASSUME ExportInv, Archive PROVE ExportInv'
<1>1. /\ UNCHANGED <<state, artifacts, events, outputs, pc, cmd, kills, doubled>>
      /\ archived' = TRUE
  BY DEF Archive
<1>2. Typed'
  BY <1>1 DEF ExportInv, Typed, TypeOK, InHand, Publishes
<1>3. ApprovedInHand' /\ Ownership' /\ KeptIsThere'
  BY <1>1 DEF ExportInv, ApprovedInHand, Approved, Ownership, KeptIsThere, Owns, Kept, Publishes,
              Exports
<1>4. AnnouncedStays' /\ NothingLeft' /\ PortableInHand'
  BY <1>1 DEF ExportInv, AnnouncedStays, NothingLeft, PortableInHand, Owns, Publishes, Exports,
              Coherent
<1> QED BY <1>2, <1>3, <1>4 DEF ExportInv

LEMMA ExportInit == ASSUME Init PROVE ExportInv
<1>1. /\ Typed /\ \A p \in Proc : pc[p] = "idle" /\ cmd[p] = Nothing
      /\ artifacts = {} /\ events = {} /\ state = "FINALIZED"
      /\ \A o \in Output : outputs[o] = None
  BY InitTyped DEF Init
<1>2. \A p \in Proc : ~Publishes(p) /\ ~Owns(p) /\ ~Kept(p) /\ cmd[p].op # "portable"
  <2>1. Nothing.op = "none"
    BY DEF Nothing
  <2> QED BY <1>1, <2>1 DEF Publishes, Owns, Kept
<1>3. ApprovedInHand /\ Ownership
  BY <1>1, <1>2, Apart DEF ApprovedInHand, Ownership
<1>4. KeptIsThere /\ AnnouncedStays
  BY <1>1, <1>2 DEF KeptIsThere, AnnouncedStays, Exports
<1>5. NothingLeft /\ PortableInHand
  BY <1>1, <1>2, Apart DEF NothingLeft, PortableInHand, Exports
<1> QED BY <1>1, <1>3, <1>4, <1>5 DEF ExportInv

LEMMA ExportStep == ASSUME ExportInv, NEW p \in Proc, Step(p) PROVE ExportInv'
<1>1. Typed /\ Remains(p) /\ Goes(p)
  BY EveryStep DEF ExportInv
<1>2. Typed'
  BY <1>1, OthersInHand DEF Remains, Typed
<1>3. ApprovedInHand' /\ Ownership' /\ KeptIsThere'
  BY <1>1, ApprovedStep, OwnershipStep, KeptStep DEF ExportInv
<1>4. AnnouncedStays' /\ NothingLeft' /\ PortableInHand'
  BY <1>1, AnnouncedStep, NothingStep, PortableStep DEF ExportInv
<1> QED BY <1>2, <1>3, <1>4 DEF ExportInv

LEMMA ExportStutter == ASSUME ExportInv, UNCHANGED vars PROVE ExportInv'
<1>1. UNCHANGED <<state, archived, artifacts, events, outputs, pc, cmd, kills, doubled>>
  BY DEF vars
<1>2. Typed'
  BY <1>1 DEF ExportInv, Typed, TypeOK, InHand, Publishes
<1>3. ApprovedInHand' /\ Ownership' /\ KeptIsThere'
  BY <1>1 DEF ExportInv, ApprovedInHand, Approved, Ownership, KeptIsThere, Owns, Kept, Publishes,
              Exports
<1>4. AnnouncedStays' /\ NothingLeft' /\ PortableInHand'
  BY <1>1 DEF ExportInv, AnnouncedStays, NothingLeft, PortableInHand, Owns, Publishes, Kept,
              Exports, Coherent
<1> QED BY <1>2, <1>3, <1>4 DEF ExportInv

(* The invariant holds of every behaviour of the exports of a run: what     *)
(* each command has in memory at its step (create, revoke, portable of      *)
(* internal/cli/export.go) agrees with the files.                           *)
THEOREM ExportIsInvariant == Spec => []ExportInv
<1>1. ExportInv /\ [Next]_vars => ExportInv'
  BY ExportStep, ArchiveStep, ExportStutter DEF Next
<1> QED BY <1>1, ExportInit, PTL DEF Spec

(* The files and every command's memory have their types, and a command     *)
(* that undoes, publishes or advances has the memory that step relies on.   *)
THEOREM ExportTyping == Spec => []Typed
<1>1. ExportInv => Typed
  BY DEF ExportInv
<1> QED BY <1>1, ExportIsInvariant, PTL

(* No bundle is in the run or outside it without the approval of exactly    *)
(* that content on disk (CreatePublic): approvals are never taken back, not *)
(* by any undoing of any command.                                           *)
THEOREM ApprovalsHold == Spec => []OnlyApprovedLeaves
<1>1. ExportInv => OnlyApprovedLeaves
  <2> SUFFICES ASSUME ExportInv PROVE OnlyApprovedLeaves
    OBVIOUS
  <2>1. \A b \in (artifacts \cup Published) \cap Bundles : Approved(b)
    BY DEF ExportInv, ApprovedInHand, Published
  <2> QED BY <2>1 DEF OnlyApprovedLeaves, Approved
<1> QED BY <1>1, ExportIsInvariant, PTL

(* What the journal announces as created or revoked is outside the store    *)
(* and in the run, however many commands undo theirs meanwhile, and EXPORTED*)
(* has its portable event.                                                  *)
THEOREM AnnouncementsHold == Spec => []AnnouncedIsKept
<1>1. ExportInv => AnnouncedIsKept
  <2> SUFFICES ASSUME ExportInv PROVE AnnouncedIsKept
    OBVIOUS
  <2>1. ASSUME NEW f \in Exports(events) PROVE f \in Published /\ f \in artifacts \cup doubled
    <3>1. PICK o \in Output : outputs[o] = f
      BY DEF ExportInv, AnnouncedStays
    <3>2. f # None
      BY NoFile DEF ExportInv, Typed, TypeOK, Exports
    <3> QED BY <3>1, <3>2 DEF Published, ExportInv, KeptIsThere
  <2> QED BY <2>1 DEF AnnouncedIsKept, ExportInv, AnnouncedStays
<1> QED BY <1>1, ExportIsInvariant, PTL

(* When every command has ended, none killed and the run not archived, no   *)
(* bundle and no tombstone is left that is not announced (RemoveRunArtifact,*)
(* and the removal of the output, in runExportPublicCreate and its like).   *)
THEOREM RefusalsLeaveNothing == Spec => []RefusedLeavesNothing
<1>1. ExportInv => RefusedLeavesNothing
  <2> SUFFICES ASSUME ExportInv, kills = 0, ~archived, \A p \in Proc : pc[p] = "idle",
                      NEW f \in Exports(artifacts \cup Published), f \notin doubled
               PROVE  f \in events
    BY DEF RefusedLeavesNothing
  <2>1. \A p \in Proc : ~Owns(p) /\ ~Kept(p)
    BY DEF Owns, Kept
  <2>2. CASE f \in artifacts
    BY <2>1, <2>2 DEF ExportInv, NothingLeft, Exports
  <2>3. CASE f \in Published
    <3>1. PICK o \in Output : outputs[o] = f
      BY <2>3 DEF Published
    <3>2. f # None /\ f \in Content /\ f.kind \in {"bundle", "tombstone"}
      BY <2>3, <3>1 DEF Published, Exports, ExportInv, Typed, TypeOK
    <3>3. f \in Bundles \cup Tombstones
      BY <3>2, Kinds DEF Content
    <3> QED BY <2>1, <3>1, <3>3 DEF ExportInv, NothingLeft
  <2> QED BY <2>2, <2>3 DEF Exports
<1> QED BY <1>1, ExportIsInvariant, PTL

(* A portable archive that has exports has every bundle its own event log   *)
(* announces, though it is read without a lock, file by file, while bundles *)
(* are created and undone: events are read before exports is listed, an     *)
(* announced bundle stays, and an archive without a listed file is refused. *)
THEOREM ArchivesAreCoherent == Spec => []PortableIsCoherent
<1>1. ExportInv => PortableIsCoherent
  <2> SUFFICES ASSUME ExportInv, NEW z \in Published, z.kind = "portable"
               PROVE  Coherent(z)
    BY DEF PortableIsCoherent, Coherent
  <2>1. PICK o \in Output : outputs[o] = z /\ z # None
    BY DEF Published
  <2>2. z \in Archives
    BY <2>1, Kinds DEF ExportInv, Typed, TypeOK, Content
  <2> QED BY <2>1, <2>2 DEF ExportInv, PortableInHand
<1> QED BY <1>1, ExportIsInvariant, PTL
===============================================================================
