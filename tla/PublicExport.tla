------------------------------ MODULE PublicExport ------------------------------
(***************************************************************************)
(* The exports of one run (internal/cli export, internal/exporter): public *)
(* bundles, prepared, approved, created and revoked, and portable          *)
(* archives, by concurrent commands that hold no run lock and undo what    *)
(* they have written when their event is refused, beside run archive.      *)
(*                                                                         *)
(* A command writes an output outside the store, then files of the run,    *)
(* then an event.  A candidate stands for all an approval names of it:     *)
(* content, class, action, policy, scan, redaction approval; its public    *)
(* revision is left out, as are the dry runs without a trust digest and    *)
(* errors of the file system.                                              *)
(***************************************************************************)
EXTENDS Naturals, Sequences

CONSTANTS
  Proc,       (* processes, one per command                                 *)
  Candidate,
  Flagged,    (* the candidates the scan has findings in                    *)
  Redacted,   (* the redacted summaries, which need a redaction approval    *)
  Stamp,      (* times of approval                                          *)
  Output,     (* paths outside the store and the repository                 *)
  None,       (* no file                                                    *)
  MaxKills    (* bound on kills                                             *)

ASSUME ExportConstants ==
  Flagged \subseteq Candidate /\ Redacted \subseteq Candidate /\ MaxKills \in Nat

VARIABLES
  state,      (* run.json                                                   *)
  archived,   (* there is an archive.json                                   *)
  artifacts,  (* the files of the run that exports write                    *)
  events,     (* events.jsonl: an event is what it announces                *)
  outputs,    (* the files outside the store                                *)
  pc, cmd,    (* where each process is, and what it remembers               *)
  kills,      (* how many have been killed                                  *)
  doubled     (* history: bundles that a second command has written again   *)

vars == <<state, archived, artifacts, events, outputs, pc, cmd, kills, doubled>>

(* Files have digests in their names: what is digested stands for them.    *)
Approval == [candidate : Candidate, at : Stamp]
File(kind, of) == [kind |-> kind, of |-> of]
Bundle(c, a) == [kind |-> "bundle", content |-> c, approval |-> a]
Tombstone(b, o) == [kind |-> "tombstone", bundle |-> b, output |-> o]

Bundles == {Bundle(c, a) : c \in Candidate, a \in Approval}
Tombstones == {Tombstone(b, o) : b \in Bundles, o \in Output}

Artifact ==
  [kind : {"candidate", "preparation", "redaction"}, of : Candidate]
    \cup [kind : {"approval"}, of : Approval] \cup Bundles \cup Tombstones

Event == Artifact \cup [kind : {"portable"}, of : Output]

ASSUME NoFile == None \notin Output \cup Event

Exports(files) == {f \in files : f.kind \in {"bundle", "tombstone"}}

Nothing ==
  [op |-> "none", output |-> None, content |-> None, todo |-> <<>>, listed |-> {},
   event |-> None, from |-> "none"]

(* Before it is FINALIZED a run can be exported as well: a portable        *)
(* archive then goes without an event, as it does when the run is EXPORTED.*)
Init ==
  /\ state = "FINALIZED" /\ archived = FALSE
  /\ artifacts = {} /\ events = {}
  /\ outputs = [o \in Output |-> None]
  /\ pc = [p \in Proc |-> "idle"]
  /\ cmd = [p \in Proc |-> Nothing]
  /\ kills = 0
  /\ doubled = {}

Goto(p, from, to) ==
  /\ pc[p] = from
  /\ pc' = [pc EXCEPT ![p] = to]

Leave(p) ==
  /\ pc' = [pc EXCEPT ![p] = "idle"]
  /\ cmd' = [cmd EXCEPT ![p] = Nothing]

-------------------------------------------------------------------------------
(* resolveExportContext, and what a command is going to do: LoadRun        *)
(* refuses an archived run.                                                *)
Begins(p, first, todo) ==
  /\ ~archived
  /\ Goto(p, "idle", first)
  /\ cmd' = [cmd EXCEPT ![p] = [todo EXCEPT !.from = state]]
  /\ UNCHANGED <<state, archived, artifacts, events, outputs, kills, doubled>>

(* loadPublicPreparation *)
Prepared(c) == {File("candidate", c), File("preparation", c)} \subseteq artifacts

(* To prepare a candidate again would write the same files. *)
Prepare(p, c) ==
  /\ ~Prepared(c)
  /\ Begins(p, "write",
       [Nothing EXCEPT !.op = "prepare",
                       !.todo = <<File("candidate", c), File("preparation", c)>>,
                       !.event = File("preparation", c)])

(* The times of two approvals differ. *)
Now(s) ==
  /\ \A f \in artifacts : f.kind = "approval" => f.of.at # s
  /\ \A q \in Proc : cmd[q].op = "approve" => cmd[q].event.of.at # s

Approve(p, c, s) ==
  /\ Prepared(c) /\ c \notin Flagged
  /\ Now(s)
  /\ LET approval == File("approval", [candidate |-> c, at |-> s])
     IN  Begins(p, "write",
           [Nothing EXCEPT !.op = "approve",
                           !.todo = IF c \in Redacted
                                    THEN <<File("redaction", c), approval>>
                                    ELSE <<approval>>,
                           !.event = approval])

(* Mutant of Creatable: create relies on what approve has checked. *)
CreatableAny(c, a) == Prepared(c) /\ (c \in Redacted => File("redaction", c) \in artifacts)

(* CreatePublic *)
Creatable(c, a) ==
  /\ Prepared(c) /\ c \notin Flagged
  /\ a.candidate = c
  /\ c \in Redacted => File("redaction", c) \in artifacts

Create(p, c, a, o) ==
  /\ File("approval", a) \in artifacts /\ Creatable(c, a)
  /\ Begins(p, "link",
       [Nothing EXCEPT !.op = "create", !.output = o, !.content = Bundle(c, a),
                       !.todo = <<Bundle(c, a)>>, !.event = Bundle(c, a)])

Revoke(p, b, o) ==
  /\ b \in artifacts
  /\ Begins(p, "link",
       [Nothing EXCEPT !.op = "revoke", !.output = o, !.content = Tombstone(b, o),
                       !.todo = <<Tombstone(b, o)>>, !.event = Tombstone(b, o)])

-------------------------------------------------------------------------------
(* Mutant of Walk: the files of exports are read first. *)
WalkBack == <<"run", "exports", "events">>

(* filepath.WalkDir lists the run's directory once, then goes through its   *)
(* names in order; exports is listed when it is its turn.                  *)
Walk == <<"run", "events", "exports">>

(* export portable; of what it reads, the bundles are kept, and whether     *)
(* there is an exports directory in the archive.                           *)
Portable(p, o) ==
  Begins(p, "read",
    [Nothing EXCEPT !.op = "portable", !.output = o, !.todo = Walk,
                    !.content = [kind |-> "portable", walked |-> FALSE,
                                 events |-> {}, exports |-> {}],
                    !.event = File("portable", o)])

WalkOn(p, content, listed, todo) ==
  /\ cmd' = [cmd EXCEPT ![p].content = content, ![p].listed = listed, ![p].todo = todo]
  /\ pc' = [pc EXCEPT ![p] = IF listed = {} /\ todo = <<>> THEN "link" ELSE "read"]
  /\ UNCHANGED <<state, archived, artifacts, events, outputs, kills, doubled>>

Visits(p, part) ==
  pc[p] = "read" /\ cmd[p].listed = {} /\ Head(cmd[p].todo) = part

(* BeginClassifiedRun makes no exports directory: the first prepare does,   *)
(* before it writes its candidate there, and it stays.                     *)
HasExports(walked) ==
  (\E f \in artifacts : f.kind \in {"candidate", "preparation"}) => walked

(* The listing decides if exports is visited, whatever is made of it later. *)
ListRun(p) ==
  /\ Visits(p, "run")
  /\ \E walked \in BOOLEAN :
       /\ HasExports(walked)
       /\ WalkOn(p, [cmd[p].content EXCEPT !.walked = walked], {}, Tail(cmd[p].todo))

ReadEvents(p) ==
  /\ Visits(p, "events")
  /\ WalkOn(p, [cmd[p].content EXCEPT !.events = events \cap Bundles], {}, Tail(cmd[p].todo))

ListExports(p) ==
  /\ Visits(p, "exports")
  /\ WalkOn(p, cmd[p].content, IF cmd[p].content.walked THEN artifacts \cap Bundles ELSE {},
            Tail(cmd[p].todo))

ReadFile(p) ==
  /\ pc[p] = "read"
  /\ \E b \in cmd[p].listed \cap artifacts :
       WalkOn(p, [cmd[p].content EXCEPT !.exports = @ \cup {b}], cmd[p].listed \ {b}, cmd[p].todo)

(* A file that was listed, of these, a tombstone or the temporary one of a  *)
(* write, is gone when it is read, or a line is not whole: no archive.      *)
RefuseRead(p) ==
  /\ pc[p] = "read"
  /\ Leave(p)
  /\ UNCHANGED <<state, archived, artifacts, events, outputs, kills, doubled>>

-------------------------------------------------------------------------------
(* writeExclusiveBytes: the link fails if there is a file. *)
Free(o) == outputs[o] = None

(* Mutant of AfterLink: the output is not kept in the run. *)
AfterLinkUnkept(p) ==
  IF cmd[p].op # "portable" \/ cmd[p].from = "FINALIZED" THEN "event" ELSE "idle"

(* Only a FINALIZED run gets an event, and a state, for a portable archive. *)
AfterLink(p) == IF cmd[p].op # "portable" THEN "write"
                ELSE IF cmd[p].from = "FINALIZED" THEN "event" ELSE "idle"

LinkOutput(p) ==
  /\ pc[p] = "link" /\ Free(cmd[p].output)
  /\ outputs' = [outputs EXCEPT ![cmd[p].output] = cmd[p].content]
  /\ IF AfterLink(p) = "idle" THEN Leave(p) ELSE Goto(p, "link", AfterLink(p)) /\ cmd' = cmd
  /\ UNCHANGED <<state, archived, artifacts, events, kills, doubled>>

RefuseOutput(p) ==
  /\ pc[p] = "link" /\ ~Free(cmd[p].output)
  /\ Leave(p)
  /\ UNCHANGED <<state, archived, artifacts, events, outputs, kills, doubled>>

(* WriteRunJSON, WriteRunBytes *)
WriteArtifact(p) ==
  /\ pc[p] = "write" /\ ~archived
  /\ LET file == Head(cmd[p].todo)
     IN  /\ artifacts' = artifacts \cup {file}
         /\ doubled' = doubled \cup (Bundles \cap artifacts \cap {file})
  /\ IF Len(cmd[p].todo) = 1
       THEN Goto(p, "write", "event") /\ cmd' = cmd
       ELSE pc' = pc /\ cmd' = [cmd EXCEPT ![p].todo = Tail(@)]
  /\ UNCHANGED <<state, archived, events, outputs, kills>>

(* create and revoke take their output back. *)
RefuseWrite(p) ==
  /\ pc[p] = "write" /\ archived
  /\ IF cmd[p].output # None THEN Goto(p, "write", "unlink") /\ cmd' = cmd ELSE Leave(p)
  /\ UNCHANGED <<state, archived, artifacts, events, outputs, kills, doubled>>

(* AppendEvent *)
AppendEvent(p) ==
  /\ pc[p] = "event" /\ ~archived
  /\ events' = events \cup {cmd[p].event}
  /\ IF cmd[p].op = "portable" THEN Goto(p, "event", "advance") /\ cmd' = cmd ELSE Leave(p)
  /\ UNCHANGED <<state, archived, artifacts, outputs, kills, doubled>>

(* Mutant of Undoes: only the output is taken back. *)
UndoesOutput(p) == IF cmd[p].op \in {"create", "revoke"} THEN "unlink" ELSE "idle"

(* Where a command goes that is refused its event. *)
Undoes(p) == IF cmd[p].op \in {"create", "revoke"} THEN "remove" ELSE "idle"

(* The event is refused: the run is archived, or another command holds     *)
(* events.lock.                                                            *)
RefuseEvent(p) ==
  /\ pc[p] = "event"
  /\ IF Undoes(p) = "idle" THEN Leave(p) ELSE Goto(p, "event", Undoes(p)) /\ cmd' = cmd
  /\ UNCHANGED <<state, archived, artifacts, events, outputs, kills, doubled>>

(* RemoveRunArtifact, whose error is ignored. *)
RemoveArtifact(p) ==
  /\ Goto(p, "remove", "unlink")
  /\ artifacts' = IF archived THEN artifacts ELSE artifacts \ {cmd[p].event}
  /\ UNCHANGED <<state, archived, events, outputs, cmd, kills, doubled>>

RemoveOutput(p) ==
  /\ pc[p] = "unlink"
  /\ outputs' = [outputs EXCEPT ![cmd[p].output] = None]
  /\ Leave(p)
  /\ UNCHANGED <<state, archived, artifacts, events, kills, doubled>>

(* UpdateRunState *)
Advance(p) ==
  /\ pc[p] = "advance" /\ ~archived /\ state = "FINALIZED"
  /\ state' = "EXPORTED"
  /\ Leave(p)
  /\ UNCHANGED <<archived, artifacts, events, outputs, kills, doubled>>

(* Its refusal, of an archived or exported run or under another's lock. *)
RefuseAdvance(p) ==
  /\ pc[p] = "advance"
  /\ Leave(p)
  /\ UNCHANGED <<state, archived, artifacts, events, outputs, kills, doubled>>

-------------------------------------------------------------------------------
(* run archive, see RunJournal *)
Archive ==
  /\ ~archived /\ archived' = TRUE
  /\ UNCHANGED <<state, artifacts, events, outputs, pc, cmd, kills, doubled>>

Kill(p) ==
  /\ pc[p] # "idle" /\ kills < MaxKills
  /\ kills' = kills + 1
  /\ Leave(p)
  /\ UNCHANGED <<state, archived, artifacts, events, outputs, doubled>>

Step(p) ==
  \/ \E c \in Candidate :
       \/ Prepare(p, c)
       \/ \E s \in Stamp : Approve(p, c, s)
       \/ \E a \in Approval, o \in Output : Create(p, c, a, o)
  \/ \E b \in Bundles, o \in Output : Revoke(p, b, o)
  \/ \E o \in Output : Portable(p, o)
  \/ ListRun(p) \/ ReadEvents(p) \/ ListExports(p) \/ ReadFile(p) \/ RefuseRead(p)
  \/ LinkOutput(p) \/ RefuseOutput(p)
  \/ WriteArtifact(p) \/ RefuseWrite(p)
  \/ AppendEvent(p) \/ RefuseEvent(p)
  \/ RemoveArtifact(p) \/ RemoveOutput(p)
  \/ Advance(p) \/ RefuseAdvance(p)
  \/ Kill(p)

Next == (\E p \in Proc : Step(p)) \/ Archive

Spec == Init /\ [][Next]_vars

-------------------------------------------------------------------------------
Pc == {"idle", "read", "link", "write", "event", "remove", "unlink", "advance"}

Archives ==
  [kind : {"portable"}, walked : BOOLEAN, events : SUBSET Bundles, exports : SUBSET Bundles]

Content == Bundles \cup Tombstones \cup Archives \cup {None}

Command ==
  [op : {"none", "prepare", "approve", "create", "revoke", "portable"},
   output : Output \cup {None}, content : Content,
   todo : Seq(Artifact \cup {"run", "events", "exports"}), listed : SUBSET Bundles,
   event : Event \cup {None}, from : {"none", "FINALIZED", "EXPORTED"}]

(* The types of the variables. *)
TypeOK ==
  /\ state \in {"FINALIZED", "EXPORTED"}
  /\ archived \in BOOLEAN
  /\ artifacts \subseteq Artifact /\ events \subseteq Event /\ doubled \subseteq Bundles
  /\ outputs \in [Output -> Content]
  /\ pc \in [Proc -> Pc]
  /\ cmd \in [Proc -> Command]
  /\ kills \in Nat

Published == {outputs[o] : o \in Output} \ {None}

(* Nothing leaves the store as public that was not approved as it is: the  *)
(* content of every bundle, in the run or outside it, has no findings, and *)
(* its approval, and for a redacted summary the redaction approval, are    *)
(* approvals of that content and are stored (export public create).        *)
OnlyApprovedLeaves ==
  \A b \in (artifacts \cup Published) \cap Bundles :
    /\ b.content \notin Flagged /\ b.approval.candidate = b.content
    /\ File("approval", b.approval) \in artifacts
    /\ b.content \in Redacted => File("redaction", b.content) \in artifacts

(* What the event log announces is there: a created or revoked event's     *)
(* bundle or tombstone is in an output and in the run, whatever is killed  *)
(* or archived, unless a second command has created the same bundle, whose *)
(* undoing takes the run's file away.  A run is EXPORTED only when a       *)
(* portable archive has been announced.                                    *)
AnnouncedIsKept ==
  /\ \A f \in Exports(events) : f \in Published /\ f \in artifacts \cup doubled
  /\ state = "EXPORTED" => \E o \in Output : File("portable", o) \in events

(* A refused command leaves nothing: when nothing runs, was killed or      *)
(* archived, every bundle and tombstone outside the store or in the run    *)
(* has been announced, bundles created twice excepted.                     *)
RefusedLeavesNothing ==
  (kills = 0 /\ ~archived /\ \A p \in Proc : pc[p] = "idle") =>
    (Exports(artifacts \cup Published) \ doubled) \subseteq events

(* A portable archive of a run that has exports holds every bundle that    *)
(* its own event log announces, although it is read, file by file, while    *)
(* exports are created and taken back (exporter.Portable).  It says nothing *)
(* of an archive whose walk began before the run had an exports directory:  *)
(* that one may announce what was created meanwhile, and has none of it.    *)
PortableIsCoherent ==
  \A z \in Published :
    z.kind = "portable" /\ z.walked => z.events \subseteq z.exports \cup doubled
===============================================================================
