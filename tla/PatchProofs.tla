---------------------------- MODULE PatchProofs ----------------------------
(***************************************************************************)
(* What the journal promises of patch.apply and patch.rollback, proved for *)
(* any number of connections, change sets, requests and faults.            *)
(*                                                                         *)
(* Types says of each call where it may be, of its records that they       *)
(* describe the operations of its request in order, and of tree, journal,  *)
(* manifests and backups what they hold.  Nearly every step of a call is a *)
(* Moves of its own progress and at most a Rewrites of one entry of the    *)
(* journal, which leaves the file or publishes all of memory.              *)
(*                                                                         *)
(* ReversibleIsUndoable and CompletedIsRecorded are not inductive: while   *)
(* an apply runs, what makes the next record true is its progress.         *)
(* Accounts adds it.  Sound relates entry, file, manifest and backups of a *)
(* change set to its request; Tracks says where these are at each place of *)
(* the one apply that has the change set.  A step of another call changes  *)
(* at most the status of an entry (StatusLocal), a step for another change *)
(* set at most publishes this one (OtherChangeSets).                       *)
(*                                                                         *)
(* Stacked says who may be in the stack of the history and which call may  *)
(* be at work on it, which is all InterruptedApplyIsPending needs besides. *)
(* Grounded says that files lie in directories and that the backup an      *)
(* apply is about to take is not taken.  Restorable is what makes a        *)
(* rollback restore: at every level of the stack the records of a change   *)
(* set, undone one by one from the last, lead from the files above it back *)
(* to those it found, and at each tree on the way every file it found is   *)
(* in the tree or in a backup.  The chains of trees this speaks of are     *)
(* sequences, so that no recursion is needed (UndoesTo); what one step of  *)
(* undoing does to files is in TreeProofs.                                 *)
(***************************************************************************)
EXTENDS PatchHandlers, TreeProofs

Applying == {"mkdir", "next", "preimages", "perform", "manifest", "fill", "record", "postimages"}

\* Records and operations that name their paths: a rename its source too.
RecordSet ==
    {r \in [type: OpTypes, path: TreePaths, old: TreePaths \cup {NoPath}, created: BOOLEAN,
            backup: 0 .. MaxOps] : Names(r)}

NamedOperation == {op \in Operation : Names(op)}

HandlerRecord ==
    [pc: Applying \cup {"idle", "fail", "undo"}, cs: ChangeSets \cup {NoEntry},
     ops: Seq(NamedOperation), idx: Nat, images: Seq(TreePaths),
     record: RecordSet \cup {NoRecord}, records: Seq(RecordSet)]

ManifestRecord == [state: {"none", "torn", "whole"}, records: Seq(RecordSet)]
BackupRecord == [state: {"none", "torn", "whole"}, data: Seq(Texts)]

\* The record of operation number n.
Describes(r, op, n) == SameOperation(r, op) /\ r.backup \in {0, n}

\* How many operations have a record.
Recorded(x) == IF x.pc \in {"fill", "record", "postimages"} THEN x.idx ELSE x.idx - 1

\* What is true of the progress of one call whatever the others do.
Fits(x) ==
    /\ x.pc # "idle" => x.cs \in ChangeSets
    /\ x.idx <= MaxOps + 1
    /\ x.pc \in Applying =>
        /\ Len(x.ops) <= MaxOps
        /\ x.idx \in 1 .. Len(x.ops) + 1
        /\ x.pc \notin {"mkdir", "next"} => x.idx <= Len(x.ops)
        /\ Len(x.records) = Recorded(x)
        /\ \A i \in 1 .. Len(x.records) : Describes(x.records[i], x.ops[i], i)
    /\ x.pc \in {"perform", "manifest"} =>
        x.record \in RecordSet /\ Describes(x.record, x.ops[x.idx], x.idx)
    /\ x.pc = "undo" => x.idx <= Len(x.records)

HandlerTypes ==
    /\ handler \in [Handlers -> HandlerRecord]
    /\ \A h \in Handlers : Fits(handler[h])

StoreTypes ==
    /\ manifest \in [ChangeSets -> ManifestRecord]
    /\ \A cs \in ChangeSets : Len(manifest[cs].records) <= MaxOps
    /\ backups \in [ChangeSets -> [1 .. MaxOps -> BackupRecord]]

HistoryTypes ==
    /\ history = [before |-> history.before, request |-> history.request, stack |-> history.stack,
                  undone |-> history.undone, residue |-> history.residue, tried |-> history.tried,
                  retried |-> history.retried]
    /\ history.request \in [ChangeSets -> Seq(Operation)]

Types ==
    /\ JournalTypeOK
    /\ tree \in Tree
    /\ StoreTypes
    /\ HandlerTypes
    /\ HistoryTypes
    /\ faults \in 0 .. MaxFaults

\* The types imply the invariant the runs check.
LEMMA TypesSuffice == Types => PatchTypeOK
<1> SUFFICES ASSUME Types PROVE PatchTypeOK
    OBVIOUS
<1>1. ASSUME NEW cs \in ChangeSets
      PROVE  /\ manifest[cs].state \in {"none", "torn", "whole"}
             /\ Len(manifest[cs].records) <= MaxOps
             /\ \A n \in 1 .. MaxOps : backups[cs][n].state \in {"none", "torn", "whole"}
    BY DEF Types, StoreTypes, ManifestRecord, BackupRecord
<1>2. ASSUME NEW h \in Handlers
      PROVE  /\ handler[h].pc \in {"idle", "mkdir", "next", "preimages", "perform", "manifest",
                              "fill", "record", "postimages", "fail", "undo"}
             /\ ~At(h, "idle") => handler[h].cs \in ChangeSets
             /\ handler[h].idx \in 0 .. MaxOps + 1
    BY RequestForm DEF Types, HandlerTypes, HandlerRecord, Applying, Fits, At
<1> QED
    BY <1>1, <1>2 DEF Types, PatchTypeOK

----------------------------------------------------------------------------
(***************************************************************************)
(* The project directory: every operation and undoing makes a tree.        *)
(***************************************************************************)
LEMMA FileNode == ASSUME NEW data \in Seq(Texts) PROVE File(data) \in Node
BY DEF File, Node

\* The data of a file is what was written to it.
LEMMA DataTyped ==
    ASSUME NEW t \in Tree, NEW p \in TreePaths
    PROVE  /\ IsFile(t, p) => t[p].data \in Seq(Texts)
           /\ DataAt(t, p) \in Seq(Texts)
<1>1. t[p] \in Node
    BY DEF Tree
<1>2. IsFile(t, p) => t[p].data \in Seq(Texts)
    BY <1>1 DEF IsFile, Node, Absent, Directory
<1> QED
    BY <1>2 DEF DataAt

\* Making directories, writing a file, removing and moving keep a tree one.
LEMMA TreeWithDirectories ==
    ASSUME NEW t \in Tree, NEW dirs PROVE WithDirectories(t, dirs) \in Tree
BY DEF WithDirectories, Tree, Node

\* A file on a path, with the directories above it.
LEMMA TreeWithFile ==
    ASSUME NEW t \in Tree, NEW p \in TreePaths, NEW data \in Seq(Texts)
    PROVE  WithFile(t, p, data) \in Tree
BY TreeWithDirectories, FileNode DEF WithFile, Tree

\* A path removed.
LEMMA TreeWithout ==
    ASSUME NEW t \in Tree, NEW p \in TreePaths PROVE Without(t, p) \in Tree
BY DEF Without, Tree, Node

\* A path moved with all it holds.
LEMMA TreeMoved ==
    ASSUME NEW t \in Tree, NEW from, NEW to PROVE Moved(t, from, to) \in Tree
<1> DEFINE New(q) == IF IsPrefix(from, q) THEN Absent
                     ELSE IF IsPrefix(to, q)
                          THEN IF Rebased(q, to, from) \in TreePaths THEN t[Rebased(q, to, from)]
                               ELSE Absent
                     ELSE t[q]
<1>1. Moved(t, from, to) = [q \in TreePaths |-> New(q)]
    BY DEF Moved
<1>2. ASSUME NEW q \in TreePaths PROVE New(q) \in Node
    BY DEF Tree, Node
<1> HIDE DEF New
<1> QED
    BY <1>1, <1>2 DEF Tree

\* An operation performed, refused or interrupted leaves a tree.
LEMMA TreePerformed ==
    ASSUME NEW t \in Tree, NEW op \in Operation
    PROVE  /\ CanPerform(t, op) => Performed(t, op) \in Tree
           /\ Refused(t, op) \in Tree
           /\ Interrupted(t, op) \subseteq Tree
<1>0. op.path \in TreePaths /\ op.text \in Texts
    BY DEF Operation
<1>1. DataAt(t, op.path) \in Seq(Texts) /\ <<op.text>> \in Seq(Texts) /\ <<>> \in Seq(Texts)
      /\ Append(DataAt(t, op.path), op.text) \in Seq(Texts)
    BY <1>0, DataTyped
<1>2. /\ WithFile(t, op.path, <<op.text>>) \in Tree
      /\ WithFile(t, op.path, Append(DataAt(t, op.path), op.text)) \in Tree
      /\ \A part \in Parts : /\ WithFile(t, op.path, part) \in Tree
                              /\ WithFile(t, op.path, DataAt(t, op.path) \o part) \in Tree
    <2>1. \A part \in Parts : part \in Seq(Texts) /\ DataAt(t, op.path) \o part \in Seq(Texts)
        BY <1>1, PartsTyped
    <2> QED
        BY <1>0, <1>1, <2>1, TreeWithFile
<1>3. /\ WithDirectories(t, Above(op.path)) \in Tree
      /\ WithDirectories(t, Above(op.path) \cup {op.path}) \in Tree
    BY TreeWithDirectories
<1>4. Moved(WithDirectories(t, Above(op.path)), op.old, op.path) \in Tree
    BY <1>3, TreeMoved
<1>5. Without(t, op.path) \in Tree
    BY <1>0, TreeWithout
<1>6. CanPerform(t, op) => op.type \in {"write", "append", "delete", "rename", "mkdir"}
    BY DEF CanPerform
<1>7. CanPerform(t, op) => Performed(t, op) \in Tree
    <2>1. op.type = "write" => Performed(t, op) \in Tree
        BY <1>2, Zenon DEF Performed
    <2>2. op.type = "append" => Performed(t, op) \in Tree
        BY <1>2, Zenon DEF Performed
    <2>3. op.type = "delete" => Performed(t, op) \in Tree
        BY <1>5, Zenon DEF Performed
    <2>4. op.type = "rename" => Performed(t, op) \in Tree
        BY <1>4, Zenon DEF Performed
    <2>5. op.type = "mkdir" => Performed(t, op) \in Tree
        BY <1>3, Zenon DEF Performed
    <2> QED
        BY <1>6, <2>1, <2>2, <2>3, <2>4, <2>5
<1>8. Refused(t, op) \in Tree
    BY <1>3 DEF Refused
<1>9. Interrupted(t, op) \subseteq Tree
    BY <1>2, <1>3 DEF Interrupted
<1> QED
    BY <1>7, <1>8, <1>9

\* So does the undoing of a record.
LEMMA TreeUndone ==
    ASSUME NEW t \in Tree, NEW r \in RecordSet, NEW saved \in Seq(Texts)
    PROVE  /\ Undone(t, r, saved) \in Tree
           /\ UndoRefused(t, r) \in Tree
           /\ UndoInterrupted(t, r, saved) \subseteq Tree
<1>0. r.path \in TreePaths
    BY DEF RecordSet
<1>1. /\ WithFile(t, r.path, saved) \in Tree
      /\ \A n \in 0 .. Len(saved) : WithFile(t, r.path, SubSeq(saved, 1, n)) \in Tree
    <2>1. \A n \in 0 .. Len(saved) : SubSeq(saved, 1, n) \in Seq(Texts)
        OBVIOUS
    <2> QED
        BY <1>0, <2>1, TreeWithFile
<1>2. WithDirectories(t, Above(r.old)) \in Tree /\ WithDirectories(t, Above(r.path)) \in Tree
    BY TreeWithDirectories
<1>3. Moved(WithDirectories(t, Above(r.old)), r.path, r.old) \in Tree
    BY <1>2, TreeMoved
<1>4. Without(t, r.path) \in Tree
    BY <1>0, TreeWithout
<1> QED
    BY <1>1, <1>2, <1>3, <1>4 DEF Undone, UndoRefused, UndoInterrupted

----------------------------------------------------------------------------
(***************************************************************************)
(* The progress of a call: what an assignment to some of its fields makes  *)
(* of it.                                                                  *)
(***************************************************************************)
Pcs == Applying \cup {"idle", "fail", "undo"}

IsWith(y, x, pc, idx, images, record, records) ==
    /\ y \in HandlerRecord
    /\ y.cs = x.cs /\ y.ops = x.ops
    /\ y.pc = pc /\ y.idx = idx /\ y.images = images /\ y.record = record /\ y.records = records

\* The place alone changes.
LEMMA WithPc ==
    ASSUME NEW x \in HandlerRecord, NEW pc \in Pcs
    PROVE  IsWith([x EXCEPT !.pc = pc], x, pc, x.idx, x.images, x.record, x.records)
BY DEF HandlerRecord, IsWith, Pcs

\* The paths left to hash change, with or without the place.
LEMMA WithImages ==
    ASSUME NEW x \in HandlerRecord, NEW pc \in Pcs, NEW images \in Seq(TreePaths)
    PROVE  /\ IsWith([x EXCEPT !.pc = pc, !.images = images], x,
                     pc, x.idx, images, x.record, x.records)
           /\ IsWith([x EXCEPT !.images = images], x,
                     x.pc, x.idx, images, x.record, x.records)
BY DEF HandlerRecord, IsWith, Pcs

\* The record of the present operation is known.
LEMMA WithItsRecord ==
    ASSUME NEW x \in HandlerRecord, NEW pc \in Pcs, NEW r \in RecordSet
    PROVE  IsWith([x EXCEPT !.pc = pc, !.record = r], x, pc, x.idx, x.images, r, x.records)
BY DEF HandlerRecord, IsWith, Pcs

\* A record is added to the records.
LEMMA WithRecords ==
    ASSUME NEW x \in HandlerRecord, NEW pc \in Pcs, NEW rs \in Seq(RecordSet)
    PROVE  IsWith([x EXCEPT !.pc = pc, !.records = rs], x, pc, x.idx, x.images, x.record, rs)
BY DEF HandlerRecord, IsWith, Pcs

\* The index moves on, or back in a rollback.
LEMMA WithIndex ==
    ASSUME NEW x \in HandlerRecord, NEW pc \in Pcs, NEW n \in Nat
    PROVE  /\ IsWith([x EXCEPT !.pc = pc, !.idx = n, !.record = NoRecord], x,
                     pc, n, x.images, NoRecord, x.records)
           /\ IsWith([x EXCEPT !.idx = n], x, x.pc, n, x.images, x.record, x.records)
BY DEF HandlerRecord, IsWith, Pcs

\* A handler that serves no call.
LEMMA IdleRecord ==
    Idle \in HandlerRecord /\ Idle.pc = "idle" /\ Idle.idx = 0 /\ Idle.records = <<>>
<1>1. <<>> \in Seq(Operation) /\ <<>> \in Seq(TreePaths) /\ <<>> \in Seq(RecordSet)
    OBVIOUS
<1> HIDE DEF NoRecord
<1> QED
    BY <1>1 DEF Idle, HandlerRecord

----------------------------------------------------------------------------
(***************************************************************************)
(* What each step of a call does to its progress.                          *)
(***************************************************************************)
Moves(h, pc, idx, images, record, records) ==
    /\ handler' = [handler EXCEPT ![h] = handler'[h]]
    /\ IsWith(handler'[h], handler[h], pc, idx, images, record, records)

GoesTo(h, pc) ==
    Moves(h, pc, handler[h].idx, handler[h].images, handler[h].record, handler[h].records)

\* An assignment to the progress of one handler is all that happens to them.
LEMMA OneMoves ==
    ASSUME HandlerTypes, NEW h \in Handlers, NEW y, handler' = [handler EXCEPT ![h] = y]
    PROVE  handler'[h] = y /\ handler' = [handler EXCEPT ![h] = handler'[h]]
BY DEF HandlerTypes

\* Goto changes the place alone.
LEMMA GotoMoves ==
    ASSUME HandlerTypes, NEW h \in Handlers, NEW pc \in Pcs, Goto(h, pc)
    PROVE  GoesTo(h, pc)
<1> DEFINE y == [handler[h] EXCEPT !.pc = pc]
<1>1. handler[h] \in HandlerRecord
    BY DEF HandlerTypes
<1>2. IsWith(y, handler[h], pc, handler[h].idx, handler[h].images, handler[h].record,
             handler[h].records)
    BY <1>1, WithPc
<1>3. handler' = [handler EXCEPT ![h] = y]
    BY DEF Goto
<1> HIDE DEF y
<1>4. handler'[h] = y /\ handler' = [handler EXCEPT ![h] = handler'[h]]
    BY <1>3, OneMoves
<1> QED
    BY <1>2, <1>4 DEF Moves, GoesTo

\* An operation names paths of the project.
LEMMA NamedPathsTyped == ASSUME NEW op \in Operation PROVE NamedPaths(op) \in Seq(TreePaths)
BY DEF Operation, NamedPaths

\* The present operation is one.
LEMMA OpTyped ==
    ASSUME HandlerTypes, NEW h \in Handlers, handler[h].idx \in 1 .. Len(handler[h].ops)
    PROVE  Op(h) \in Operation /\ Names(Op(h))
<1>1. handler[h].ops \in Seq(NamedOperation)
    BY DEF HandlerTypes, HandlerRecord
<1>2. handler[h].ops[handler[h].idx] \in NamedOperation
    BY <1>1
<1> QED
    BY <1>2 DEF Op, NamedOperation

\* So is every operation of a request.
LEMMA RequestTyped ==
    ASSUME NEW request \in Requests
    PROVE  /\ request \in Seq(Operation) /\ request \in Seq(NamedOperation) /\ request # <<>>
           /\ Len(request) <= MaxOps
<1>1. /\ request \in Seq(Operation) /\ request # <<>> /\ Len(request) <= MaxOps
      /\ \A i \in 1 .. Len(request) : request[i].type = "rename" => request[i].old # NoPath
    BY RequestForm DEF ValidRequest
<1>2. ASSUME NEW i \in 1 .. Len(request) PROVE request[i] \in NamedOperation
    <2>1. request[i] \in Operation
        BY <1>1
    <2> QED
        BY <1>1, <2>1 DEF NamedOperation, Operation, Names
<1> QED
    BY <1>1, <1>2

\* The record of operation n describes it, and its backup is n or none.
LEMMA RecordForTyped ==
    ASSUME NEW t, NEW op \in Operation, Names(op), NEW n \in 0 .. MaxOps
    PROVE  RecordFor(op, t, n) \in RecordSet /\ Describes(RecordFor(op, t, n), op, n)
<1>1. Creates(op, t) \in BOOLEAN
    BY DEF Creates
<1> QED
    BY <1>1, RequestForm DEF RecordFor, RecordSet, Operation, Describes, SameOperation, Names

\* Images are kept under the paths of an operation.
LEMMA ImageMoves ==
    ASSUME HandlerTypes, NEW h \in Handlers, handler[h].images # <<>>, ImageNext(h)
    PROVE  /\ Moves(h, handler[h].pc, handler[h].idx, Tail(handler[h].images), handler[h].record,
                    handler[h].records)
           /\ Head(handler[h].images) \in TreePaths
<1> DEFINE x == handler[h]
           y == [x EXCEPT !.images = Tail(x.images)]
<1>1. x \in HandlerRecord /\ x.images \in Seq(TreePaths) /\ x.pc \in Pcs
    BY DEF HandlerTypes, HandlerRecord, Pcs
<1>2. Tail(x.images) \in Seq(TreePaths) /\ Head(x.images) \in TreePaths
    BY <1>1
<1>3. IsWith(y, x, x.pc, x.idx, Tail(x.images), x.record, x.records)
    BY <1>1, <1>2, WithImages
<1>4. handler' = [handler EXCEPT ![h] = y]
    BY DEF ImageNext
<1> HIDE DEF y
<1>5. handler'[h] = y /\ handler' = [handler EXCEPT ![h] = handler'[h]]
    BY <1>4, OneMoves
<1> QED
    BY <1>2, <1>3, <1>5 DEF Moves

\* The paths of the present operation are next to be hashed.
LEMMA NamedMoves ==
    ASSUME HandlerTypes, NEW h \in Handlers, NEW pc \in Pcs, Op(h) \in Operation,
           handler' = [handler EXCEPT ![h].pc = pc, ![h].images = NamedPaths(Op(h))]
    PROVE  Moves(h, pc, handler[h].idx, NamedPaths(Op(h)), handler[h].record, handler[h].records)
<1> DEFINE x == handler[h]
           images == NamedPaths(Op(h))
           y == [x EXCEPT !.pc = pc, !.images = images]
<1>1. x \in HandlerRecord /\ images \in Seq(TreePaths)
    BY NamedPathsTyped DEF HandlerTypes
<1>2. handler' = [handler EXCEPT ![h] = y]
    OBVIOUS
<1> HIDE DEF images
<1>3. IsWith(y, x, pc, x.idx, images, x.record, x.records)
    BY <1>1, WithImages
<1> HIDE DEF y
<1>4. handler'[h] = y /\ handler' = [handler EXCEPT ![h] = handler'[h]]
    BY <1>2, OneMoves
<1> QED
    BY <1>3, <1>4 DEF Moves, images

\* Inspection ends the apply, or makes the record and the backup it names.
LEMMA InspectMoves ==
    ASSUME HandlerTypes, NEW h \in Handlers, Op(h) \in Operation, Names(Op(h)),
           handler[h].idx \in 0 .. MaxOps, Inspect(h)
    PROVE  \/ GoesTo(h, "fail") /\ UNCHANGED backups
           \/ LET r == RecordFor(Op(h), tree, handler[h].idx)
              IN /\ Moves(h, "perform", handler[h].idx, handler[h].images, r, handler[h].records)
                 /\ backups' = IF r.backup = 0 THEN backups
                               ELSE [backups EXCEPT ![handler[h].cs][r.backup] =
                                        [state |-> "whole", data |-> tree[Op(h).path].data]]
<1> DEFINE x == handler[h]
           r == RecordFor(Op(h), tree, x.idx)
           y == [x EXCEPT !.pc = "perform", !.record = r]
<1>0. "fail" \in Pcs /\ "perform" \in Pcs
    BY DEF Pcs, Applying
<1>1. CASE Goto(h, "fail") /\ UNCHANGED backups
    BY <1>0, <1>1, GotoMoves
<1>2. CASE /\ handler' = [handler EXCEPT ![h] = y]
           /\ backups' = IF r.backup = 0 THEN backups
                         ELSE [backups EXCEPT ![x.cs][r.backup] =
                                 [state |-> "whole", data |-> tree[Op(h).path].data]]
    <2>1. x \in HandlerRecord
        BY DEF HandlerTypes, HandlerRecord
    <2>2. r \in RecordSet
        BY <2>1, RecordForTyped
    <2> HIDE DEF r
    <2>3. IsWith(y, x, "perform", x.idx, x.images, r, x.records)
        BY <1>0, <2>1, <2>2, WithItsRecord
    <2> HIDE DEF y
    <2>4. handler'[h] = y /\ handler' = [handler EXCEPT ![h] = handler'[h]]
        BY <1>2, OneMoves
    <2>5. Moves(h, "perform", x.idx, x.images, r, x.records)
        BY <2>3, <2>4 DEF Moves
    <2> QED
        BY <1>2, <2>5 DEF r
<1> QED
    BY <1>1, <1>2 DEF Inspect

\* The record of the present operation joins the others.
LEMMA TruncateMoves ==
    ASSUME HandlerTypes, NEW h \in Handlers, handler[h].record \in RecordSet, TruncateManifest(h)
    PROVE  Moves(h, "fill", handler[h].idx, handler[h].images, handler[h].record,
                 Append(handler[h].records, handler[h].record))
<1> DEFINE x == handler[h]
           rs == Append(x.records, x.record)
           y == [x EXCEPT !.pc = "fill", !.records = rs]
<1>1. x \in HandlerRecord /\ x.records \in Seq(RecordSet) /\ "fill" \in Pcs
    BY DEF HandlerTypes, HandlerRecord, Pcs, Applying
<1>2. handler' = [handler EXCEPT ![h] = y]
    BY DEF TruncateManifest, WithRecord
<1>3. rs \in Seq(RecordSet)
    BY <1>1
<1> HIDE DEF rs
<1>4. IsWith(y, x, "fill", x.idx, x.images, x.record, rs)
    BY <1>1, <1>3, WithRecords
<1> HIDE DEF y
<1>5. handler'[h] = y /\ handler' = [handler EXCEPT ![h] = handler'[h]]
    BY <1>2, OneMoves
<1> QED
    BY <1>4, <1>5 DEF Moves, rs

\* The next operation is up.
LEMMA DoneMoves ==
    ASSUME HandlerTypes, NEW h \in Handlers, OperationDone(h)
    PROVE  Moves(h, "next", handler[h].idx + 1, handler[h].images, NoRecord, handler[h].records)
<1> DEFINE x == handler[h]
           y == [x EXCEPT !.pc = "next", !.idx = x.idx + 1, !.record = NoRecord]
<1>1. x \in HandlerRecord /\ x.idx + 1 \in Nat /\ "next" \in Pcs
    BY DEF HandlerTypes, HandlerRecord, Pcs, Applying
<1>2. handler' = [handler EXCEPT ![h] = y]
    BY DEF OperationDone
<1>3. IsWith(y, x, "next", x.idx + 1, x.images, NoRecord, x.records)
    BY <1>1, WithIndex
<1> HIDE DEF y
<1>4. handler'[h] = y /\ handler' = [handler EXCEPT ![h] = handler'[h]]
    BY <1>2, OneMoves
<1> QED
    BY <1>3, <1>4 DEF Moves

\* A record is undone and the one before is up, or the rollback fails.
LEMMA UndoMoves ==
    ASSUME HandlerTypes, NEW h \in Handlers, UndoRecord(h) \/ UndoFails(h)
    PROVE  \/ GoesTo(h, "fail")
           \/ Moves(h, "undo", handler[h].idx - 1, handler[h].images, handler[h].record,
                    handler[h].records)
<1> DEFINE x == handler[h]
           y == [x EXCEPT !.idx = x.idx - 1]
<1>0. x \in HandlerRecord /\ x.pc \in Pcs /\ "fail" \in Pcs /\ x.idx \in Nat
    BY DEF HandlerTypes, HandlerRecord, Pcs
<1>1. CASE Goto(h, "fail")
    BY <1>0, <1>1, GotoMoves
<1>2. CASE x.pc = "undo" /\ x.idx > 0 /\ handler' = [handler EXCEPT ![h] = y]
    <2>1. x.idx - 1 \in Nat
        BY <1>0, <1>2
    <2>2. IsWith(y, x, x.pc, x.idx - 1, x.images, x.record, x.records)
        BY <1>0, <2>1, WithIndex
    <2> HIDE DEF y
    <2>3. handler'[h] = y /\ handler' = [handler EXCEPT ![h] = handler'[h]]
        BY <1>2, OneMoves
    <2> QED
        BY <1>2, <2>2, <2>3 DEF Moves
<1> QED
    BY <1>1, <1>2 DEF UndoRecord, UndoFails, At

----------------------------------------------------------------------------
(***************************************************************************)
(* What each method does to the journal.  Every write of it stores memory  *)
(* as it is then, or nothing.                                              *)
(***************************************************************************)
Rewrites(cs) ==
    /\ entries[cs] # NoEntry /\ entries[cs] \in ChangeSetEntry
    /\ entries'[cs] \in ChangeSetEntry
    /\ entries' = [entries EXCEPT ![cs] = entries'[cs]]
    /\ file' = entries' \/ file' = file

\* The log and the status stay.
Keeps(cs) == /\ entries'[cs].operations = entries[cs].operations
             /\ entries'[cs].status = entries[cs].status

\* An image stored in an entry leaves its log and its status.
LEMMA EntryWithImage ==
    ASSUME NEW e \in ChangeSetEntry, NEW p \in Paths, NEW hash \in Hashes
    PROVE  /\ [e EXCEPT !.preimages[p] = hash] \in ChangeSetEntry
           /\ [e EXCEPT !.preimages[p] = hash].operations = e.operations
           /\ [e EXCEPT !.preimages[p] = hash].status = e.status
           /\ [e EXCEPT !.postimages[p] = hash] \in ChangeSetEntry
           /\ [e EXCEPT !.postimages[p] = hash].operations = e.operations
           /\ [e EXCEPT !.postimages[p] = hash].status = e.status
<1> DEFINE pre == [e.preimages EXCEPT ![p] = hash]
           post == [e.postimages EXCEPT ![p] = hash]
<1>1. pre \in Images /\ post \in Images
    BY DEF ChangeSetEntry, Images
<1>2. /\ [e EXCEPT !.preimages[p] = hash] = [e EXCEPT !.preimages = pre]
      /\ [e EXCEPT !.postimages[p] = hash] = [e EXCEPT !.postimages = post]
    OBVIOUS
<1> HIDE DEF pre, post
<1>3. /\ [e EXCEPT !.preimages = pre] \in ChangeSetEntry
      /\ [e EXCEPT !.preimages = pre].operations = e.operations
      /\ [e EXCEPT !.preimages = pre].status = e.status
    BY <1>1 DEF ChangeSetEntry
<1>4. /\ [e EXCEPT !.postimages = post] \in ChangeSetEntry
      /\ [e EXCEPT !.postimages = post].operations = e.operations
      /\ [e EXCEPT !.postimages = post].status = e.status
    BY <1>1 DEF ChangeSetEntry
<1> QED
    BY <1>2, <1>3, <1>4

\* An operation added to an entry is the last of its log.
LEMMA EntryWithOperation ==
    ASSUME NEW e \in ChangeSetEntry, NEW op \in OperationEntry
    PROVE  /\ [e EXCEPT !.operations = Append(@, op)] \in ChangeSetEntry
           /\ [e EXCEPT !.operations = Append(@, op)].operations = Append(e.operations, op)
           /\ [e EXCEPT !.operations = Append(@, op)].status = e.status
<1> DEFINE ops == Append(e.operations, op)
<1>1. ops \in Seq(OperationEntry)
    BY DEF ChangeSetEntry
<1>2. [e EXCEPT !.operations = Append(@, op)] = [e EXCEPT !.operations = ops]
    OBVIOUS
<1> HIDE DEF ops
<1>3. /\ [e EXCEPT !.operations = ops] \in ChangeSetEntry
      /\ [e EXCEPT !.operations = ops].operations = ops
      /\ [e EXCEPT !.operations = ops].status = e.status
    BY <1>1 DEF ChangeSetEntry
<1> QED
    BY <1>2, <1>3 DEF ops

\* A status set leaves the log.
LEMMA EntryWithStatus ==
    ASSUME NEW e \in ChangeSetEntry, NEW st \in Status
    PROVE  /\ [e EXCEPT !.status = st] \in ChangeSetEntry
           /\ [e EXCEPT !.status = st].operations = e.operations
           /\ [e EXCEPT !.status = st].status = st
BY DEF ChangeSetEntry

\* Every mutation of a known change set is a rewrite of its entry.
LEMMA UpdateRewrites ==
    ASSUME JournalTypeOK, NEW cs \in ChangeSets, NEW e, NEW ok \in BOOLEAN, Update(cs, e, ok),
           entries[cs] \in ChangeSetEntry => e \in ChangeSetEntry
    PROVE  Rewrites(cs) /\ entries'[cs] = e
BY DEF Update, Persist, Known, Rewrites, JournalTypeOK

\* SetPreimage and SetPostimage.
LEMMA ImageRewrites ==
    ASSUME JournalTypeOK, NEW cs \in ChangeSets, NEW p \in TreePaths, NEW data \in Seq(Texts),
           NEW ok \in BOOLEAN, SetPreimage(cs, p, data, ok) \/ SetPostimage(cs, p, data, ok)
    PROVE  Rewrites(cs) /\ Keeps(cs)
<1> DEFINE pre == [entries[cs] EXCEPT !.preimages[p] = data]
           post == [entries[cs] EXCEPT !.postimages[p] = data]
<1>1. p \in Paths /\ data \in Hashes
    BY HashesAreData
<1>2. entries[cs] \in ChangeSetEntry =>
        /\ pre \in ChangeSetEntry /\ pre.operations = entries[cs].operations
        /\ pre.status = entries[cs].status
        /\ post \in ChangeSetEntry /\ post.operations = entries[cs].operations
        /\ post.status = entries[cs].status
    BY <1>1, EntryWithImage
<1>3. Update(cs, pre, ok) \/ Update(cs, post, ok)
    BY DEF SetPreimage, SetPostimage
<1> HIDE DEF pre, post
<1> QED
    BY <1>2, <1>3, UpdateRewrites DEF Keeps, Rewrites

\* AddOperation.
LEMMA AddRewrites ==
    ASSUME JournalTypeOK, NEW cs \in ChangeSets, NEW op \in OperationEntry, NEW ok \in BOOLEAN,
           AddOperation(cs, op, ok)
    PROVE  /\ Rewrites(cs)
           /\ entries'[cs].operations = Append(entries[cs].operations, op)
           /\ entries'[cs].status = entries[cs].status
<1> DEFINE e == [entries[cs] EXCEPT !.operations = Append(@, op)]
<1>1. entries[cs] \in ChangeSetEntry =>
        /\ e \in ChangeSetEntry /\ e.operations = Append(entries[cs].operations, op)
        /\ e.status = entries[cs].status
    BY EntryWithOperation
<1>2. Update(cs, e, ok)
    BY DEF AddOperation
<1> HIDE DEF e
<1> QED
    BY <1>1, <1>2, UpdateRewrites DEF Rewrites

\* Complete, MarkFailed and MarkRolledBack.
LEMMA SettleRewrites ==
    ASSUME JournalTypeOK, NEW cs \in ChangeSets, NEW st \in Status, NEW ok \in BOOLEAN,
           Settle(cs, st, ok)
    PROVE  /\ Rewrites(cs)
           /\ entries'[cs].operations = entries[cs].operations
           /\ entries'[cs].status = st
<1> DEFINE e == [entries[cs] EXCEPT !.status = st]
<1>1. entries[cs] \in ChangeSetEntry =>
        e \in ChangeSetEntry /\ e.operations = entries[cs].operations /\ e.status = st
    BY EntryWithStatus
<1>2. Update(cs, e, ok)
    BY DEF Settle
<1> HIDE DEF e
<1> QED
    BY <1>1, <1>2, UpdateRewrites DEF Rewrites

\* A rewrite keeps the types of the journal.
LEMMA RewritesTyped ==
    ASSUME JournalTypeOK, NEW cs \in ChangeSets, Rewrites(cs) PROVE JournalTypeOK'
BY DEF JournalTypeOK, Rewrites

----------------------------------------------------------------------------
(***************************************************************************)
(* The types are kept.                                                     *)
(***************************************************************************)
LEMMA FitsIdle == Idle \in HandlerRecord /\ Fits(Idle)
BY IdleRecord, RequestForm DEF Fits, Applying

\* The entry Begin makes.
LEMMA NewEntryTyped == NewEntry \in ChangeSetEntry
BY DEF NewEntry, ChangeSetEntry, Images, Status

\* The types hold of a bridge that just started.
LEMMA TypesInit == Init => Types
<1> SUFFICES ASSUME Init PROVE Types
    OBVIOUS
<1>1. JournalTypeOK
    BY DEF Init, JournalInit, JournalTypeOK
<1>2. tree \in Tree /\ faults \in 0 .. MaxFaults
    BY RequestForm, FaultBound DEF Init
<1>3. NoManifest \in ManifestRecord /\ Len(NoManifest.records) = 0
    <2>1. <<>> \in Seq(RecordSet)
        OBVIOUS
    <2> QED
        BY <2>1 DEF NoManifest, ManifestRecord
<1>4. NoBackup \in BackupRecord
    BY DEF NoBackup, BackupRecord
<1>5. StoreTypes
    BY <1>3, <1>4, RequestForm DEF Init, StoreTypes
<1>6. HandlerTypes
    BY FitsIdle DEF Init, HandlerTypes
<1>7. HistoryTypes
    <2>1. <<>> \in Seq(Operation)
        OBVIOUS
    <2> QED
        BY <2>1 DEF Init, HistoryTypes
<1> QED
    BY <1>1, <1>2, <1>5, <1>6, <1>7 DEF Types

\* One call moved, and its progress is one the code can be in.
LEMMA HandlerTypesKept ==
    ASSUME HandlerTypes, NEW h \in Handlers, handler' = [handler EXCEPT ![h] = handler'[h]],
           handler'[h] \in HandlerRecord, Fits(handler'[h])
    PROVE  HandlerTypes'
BY DEF HandlerTypes

\* A call that gives up or ends.
LEMMA FailFits ==
    ASSUME HandlerTypes, NEW h \in Handlers, handler[h].pc # "idle", GoesTo(h, "fail")
    PROVE  HandlerTypes'
<1>1. Fits(handler'[h])
    BY DEF HandlerTypes, GoesTo, Moves, IsWith, Fits, Applying
<1> QED
    BY <1>1, HandlerTypesKept DEF GoesTo, Moves, IsWith

\* A call that ends.
LEMMA ReturnFits ==
    ASSUME HandlerTypes, NEW h \in Handlers, Return(h)
    PROVE  HandlerTypes'
BY FitsIdle, OneMoves, HandlerTypesKept DEF Return

\* The moves of an apply that keep its records and its index.
LEMMA SameRecordsFit ==
    ASSUME HandlerTypes, NEW h \in Handlers, NEW pc \in Applying, NEW images, NEW record,
           handler[h].pc \in Applying,
           Moves(h, pc, handler[h].idx, images, record, handler[h].records),
           pc \in {"fill", "record", "postimages"}
              <=> handler[h].pc \in {"fill", "record", "postimages"},
           pc \in {"mkdir", "next"} \/ handler[h].idx <= Len(handler[h].ops),
           pc \in {"perform", "manifest"} =>
              /\ record \in RecordSet
              /\ Describes(record, handler[h].ops[handler[h].idx], handler[h].idx)
    PROVE  HandlerTypes'
<1> DEFINE x == handler[h]
           y == handler'[h]
<1>1. /\ y.cs = x.cs /\ y.ops = x.ops /\ y.pc = pc /\ y.idx = x.idx /\ y.record = record
      /\ y.records = x.records
    BY DEF Moves, IsWith
<1>2. Fits(x) /\ x \in HandlerRecord
    BY DEF HandlerTypes
<1>3. Recorded(y) = Recorded(x)
    BY <1>1 DEF Recorded
<1>4. Fits(y)
    <2>1. y.pc # "idle" /\ y.pc \in Applying /\ y.pc # "undo"
        BY <1>1 DEF Applying
    <2>2. y.cs \in ChangeSets /\ y.idx <= MaxOps + 1 /\ Len(y.ops) <= MaxOps
          /\ y.idx \in 1 .. Len(y.ops) + 1
        BY <1>1, <1>2 DEF Fits, Applying
    <2>3. /\ Len(y.records) = Recorded(y)
          /\ \A i \in 1 .. Len(y.records) : Describes(y.records[i], y.ops[i], i)
        BY <1>1, <1>2, <1>3 DEF Fits
    <2> HIDE DEF x, y
    <2> QED
        BY <1>1, <2>1, <2>2, <2>3 DEF Fits, x
<1> QED
    BY <1>4, HandlerTypesKept DEF Moves, IsWith

\* The present operation is one of the request.
LEMMA PresentOperation ==
    ASSUME HandlerTypes, NEW h \in Handlers, handler[h].pc \in Applying,
           handler[h].idx <= Len(handler[h].ops)
    PROVE  /\ Op(h) \in Operation /\ Names(Op(h))
           /\ handler[h].idx \in 1 .. Len(handler[h].ops) /\ handler[h].idx \in 1 .. MaxOps
<1>1. handler[h].idx \in 1 .. Len(handler[h].ops) /\ handler[h].idx \in 1 .. MaxOps
    BY RequestForm DEF HandlerTypes, HandlerRecord, Fits
<1> QED
    BY <1>1, OpTyped

\* The places of an apply are none of the others.
LEMMA Places ==
    /\ Applying \subseteq Pcs /\ "fail" \in Pcs /\ "undo" \in Pcs
    /\ \A pc \in Applying : pc # "idle" /\ pc # "undo" /\ pc # "fail"
    /\ \A pc \in {"mkdir", "next", "preimages", "perform", "manifest", "fill", "record",
                  "postimages"} : pc \in Applying
BY DEF Applying, Pcs

\* Each step of an apply.
LEMMA ApplyHandlerTypes ==
    ASSUME HandlerTypes, NEW h \in Handlers, ApplyStep(h)
    PROVE  HandlerTypes'
<1> DEFINE x == handler[h]
<1>0. x \in HandlerRecord /\ Fits(x)
    BY DEF HandlerTypes
<1>1. ASSUME NEW ok \in BOOLEAN, MakeBackupDirectory(h, ok) PROVE HandlerTypes'
    <2>1. x.pc = "mkdir"
        BY <1>1 DEF MakeBackupDirectory, At
    <2>2. GoesTo(h, "next") \/ GoesTo(h, "fail")
        BY <1>1, GotoMoves, Places DEF MakeBackupDirectory
    <2>3. CASE GoesTo(h, "fail")
        BY <2>1, <2>3, FailFits
    <2>4. CASE GoesTo(h, "next")
        BY <2>1, <2>4, SameRecordsFit, Places DEF GoesTo
    <2> QED
        BY <2>2, <2>3, <2>4
<1>2. ASSUME NEW ok \in BOOLEAN, StorePreimage(h, ok) \/ StorePostimage(h, ok)
      PROVE  HandlerTypes'
    <2>1. x.pc \in {"preimages", "postimages"} /\ x.images # <<>> /\ ImageNext(h)
        BY <1>2 DEF StorePreimage, StorePostimage, At
    <2>2. Moves(h, x.pc, x.idx, Tail(x.images), x.record, x.records)
        BY <2>1, ImageMoves
    <2>3. x.idx <= Len(x.ops)
        BY <1>0, <2>1 DEF Fits, Applying
    <2> QED
        BY <2>1, <2>2, <2>3, SameRecordsFit, Places
<1>3. ASSUME NEW ok \in BOOLEAN, FillManifest(h, ok) PROVE HandlerTypes'
    <2>1. x.pc = "fill" /\ x.idx <= Len(x.ops)
        BY <1>0, <1>3 DEF FillManifest, At, Fits, Applying
    <2>2. GoesTo(h, "record") \/ GoesTo(h, "fail")
        BY <1>3, GotoMoves, Places DEF FillManifest, AfterFill
    <2>3. CASE GoesTo(h, "fail")
        BY <2>1, <2>3, FailFits
    <2>4. CASE GoesTo(h, "record")
        BY <2>1, <2>4, SameRecordsFit, Places DEF GoesTo
    <2> QED
        BY <2>2, <2>3, <2>4
<1>4. ASSUME NEW ok \in BOOLEAN, RecordOperation(h, ok) PROVE HandlerTypes'
    <2>1. x.pc = "record" /\ x.idx <= Len(x.ops)
        BY <1>0, <1>4 DEF RecordOperation, At, Fits, Applying
    <2>2. Op(h) \in Operation
        BY <2>1, PresentOperation, Places
    <2>3. \E pc \in {"postimages", "fail"} :
            Moves(h, pc, x.idx, NamedPaths(Op(h)), x.record, x.records)
        BY <1>4, <2>2, NamedMoves, Places DEF RecordOperation
    <2>4. CASE Moves(h, "postimages", x.idx, NamedPaths(Op(h)), x.record, x.records)
        BY <2>1, <2>4, SameRecordsFit, Places
    <2>5. CASE Moves(h, "fail", x.idx, NamedPaths(Op(h)), x.record, x.records)
        <3>1. Fits(handler'[h])
            BY <1>0, <2>1, <2>5 DEF Moves, IsWith, Fits, Applying
        <3> QED
            BY <2>5, <3>1, HandlerTypesKept DEF Moves, IsWith
    <2> QED
        BY <2>3, <2>4, <2>5
<1>5. ASSUME NEW ok \in BOOLEAN, ApplyComplete(h, ok) PROVE HandlerTypes'
    BY <1>5, ReturnFits DEF ApplyComplete
<1>6. CASE DeadlinePassed(h)
    BY <1>6, GotoMoves, Places, FailFits DEF DeadlinePassed, At
<1>7. CASE NextOperation(h)
    <2>1. x.pc = "next" /\ x.idx <= Len(x.ops)
        BY <1>0, <1>7 DEF NextOperation, At, LoopEnds, HandlerRecord
    <2>2. Op(h) \in Operation
        BY <2>1, PresentOperation, Places
    <2>3. Moves(h, "preimages", x.idx, NamedPaths(Op(h)), x.record, x.records)
        BY <1>7, <2>2, NamedMoves, Places DEF NextOperation
    <2> QED
        BY <2>1, <2>3, SameRecordsFit, Places
<1>8. CASE Inspect(h)
    <2>1. x.pc = "preimages" /\ x.idx <= Len(x.ops)
        BY <1>0, <1>8 DEF Inspect, At, Fits, Applying
    <2>2. Op(h) \in Operation /\ Names(Op(h)) /\ x.idx \in 0 .. MaxOps
        BY <2>1, PresentOperation, Places
    <2> DEFINE r == RecordFor(Op(h), tree, x.idx)
    <2>3. r \in RecordSet /\ Describes(r, Op(h), x.idx)
        BY <2>2, RecordForTyped
    <2>4. GoesTo(h, "fail") \/ Moves(h, "perform", x.idx, x.images, r, x.records)
        BY <1>8, <2>2, InspectMoves
    <2> HIDE DEF r
    <2>5. CASE GoesTo(h, "fail")
        BY <2>1, <2>5, FailFits
    <2>6. CASE Moves(h, "perform", x.idx, x.images, r, x.records)
        BY <2>1, <2>3, <2>6, SameRecordsFit, Places DEF Op
    <2> QED
        BY <2>4, <2>5, <2>6
<1>9. CASE BackupFails(h)
    BY <1>9, GotoMoves, Places, FailFits DEF BackupFails, At
<1>10. CASE Perform(h) \/ PerformFails(h)
    <2>1. x.pc = "perform" /\ x.idx <= Len(x.ops) /\ x.record \in RecordSet
          /\ Describes(x.record, x.ops[x.idx], x.idx)
        BY <1>0, <1>10 DEF Perform, PerformFails, At, Fits, Applying
    <2>2. GoesTo(h, "manifest") \/ GoesTo(h, "fail")
        BY <1>10, GotoMoves, Places DEF Perform, PerformFails
    <2>3. CASE GoesTo(h, "fail")
        BY <2>1, <2>3, FailFits
    <2>4. CASE GoesTo(h, "manifest")
        BY <2>1, <2>4, SameRecordsFit, Places DEF GoesTo
    <2> QED
        BY <2>2, <2>3, <2>4
<1>11. CASE TruncateManifest(h)
    <2>1. /\ x.pc = "manifest" /\ x.idx <= Len(x.ops) /\ x.record \in RecordSet
          /\ Describes(x.record, x.ops[x.idx], x.idx)
        BY <1>0, <1>11 DEF TruncateManifest, At, Fits, Applying
    <2>2. Moves(h, "fill", x.idx, x.images, x.record, Append(x.records, x.record))
        BY <1>11, <2>1, TruncateMoves
    <2>3. Fits(handler'[h])
        BY <1>0, <2>1, <2>2 DEF Moves, IsWith, Fits, Applying, Recorded, HandlerRecord
    <2> QED
        BY <2>2, <2>3, HandlerTypesKept DEF Moves, IsWith
<1>12. CASE OperationDone(h)
    <2>1. x.pc = "postimages" /\ x.idx <= Len(x.ops)
        BY <1>0, <1>12 DEF OperationDone, At, Fits, Applying
    <2>2. Moves(h, "next", x.idx + 1, x.images, NoRecord, x.records)
        BY <1>12, DoneMoves
    <2>3. Fits(handler'[h])
        BY <1>0, <2>1, <2>2, RequestForm DEF Moves, IsWith, Fits, Applying, Recorded, HandlerRecord
    <2> QED
        BY <2>2, <2>3, HandlerTypesKept DEF Moves, IsWith
<1> QED
    BY <1>1, <1>2, <1>3, <1>4, <1>5, <1>6, <1>7, <1>8, <1>9, <1>10, <1>11, <1>12 DEF ApplyStep

\* What a new apply and a new rollback start with.
LEMMA BeginMoves ==
    ASSUME HandlerTypes, NEW h \in Handlers, NEW cs \in ChangeSets, NEW request \in Requests,
           ApplyBegin(h, cs, request, TRUE)
    PROVE  /\ handler' = [handler EXCEPT ![h] = handler'[h]]
           /\ handler'[h] \in HandlerRecord
           /\ handler'[h].pc = "mkdir" /\ handler'[h].cs = cs /\ handler'[h].ops = request
           /\ handler'[h].idx = 1 /\ handler'[h].records = <<>>
           /\ Fits(handler'[h])
<1> DEFINE y == [Idle EXCEPT !.pc = "mkdir", !.cs = cs, !.ops = request, !.idx = 1]
<1>1. handler' = [handler EXCEPT ![h] = y]
    BY DEF ApplyBegin
<1>2. request \in Seq(NamedOperation) /\ request # <<>> /\ Len(request) <= MaxOps /\ MaxOps \in Nat
    BY RequestForm, RequestTyped
<1>3. /\ y \in HandlerRecord /\ y.pc = "mkdir" /\ y.cs = cs /\ y.ops = request
      /\ y.idx = 1 /\ y.records = <<>>
    <2>1. Idle \in HandlerRecord /\ Idle.records = <<>> /\ <<>> \in Seq(RecordSet)
        BY IdleRecord
    <2> HIDE DEF y
    <2>2. /\ y \in HandlerRecord /\ y.pc = "mkdir" /\ y.cs = cs /\ y.ops = request
          /\ y.idx = 1 /\ y.records = Idle.records
        BY <1>2, <2>1 DEF y, HandlerRecord, Applying
    <2> QED
        BY <2>1, <2>2
<1> HIDE DEF y
<1>4. Fits(y)
    BY <1>2, <1>3 DEF Fits, Applying, Recorded
<1>5. handler'[h] = y /\ handler' = [handler EXCEPT ![h] = handler'[h]]
    BY <1>1, OneMoves
<1> QED
    BY <1>3, <1>4, <1>5

\* A rollback starts at the last record of the manifest it read.
LEMMA StartMoves ==
    ASSUME HandlerTypes, StoreTypes, NEW h \in Handlers, NEW cs \in ChangeSets,
           RollbackStart(h, cs)
    PROVE  /\ handler' = [handler EXCEPT ![h] = handler'[h]]
           /\ handler'[h] \in HandlerRecord /\ handler'[h].pc = "undo"
           /\ Fits(handler'[h])
<1> DEFINE rs == manifest[cs].records
           n == FirstToUndo(rs)
           y == [Idle EXCEPT !.pc = "undo", !.cs = cs, !.records = rs, !.idx = n]
<1>1. handler' = [handler EXCEPT ![h] = y]
    BY DEF RollbackStart
<1>2. rs \in Seq(RecordSet) /\ Len(rs) <= MaxOps /\ n = Len(rs) /\ n \in Nat /\ MaxOps \in Nat
    BY RequestForm DEF StoreTypes, ManifestRecord, FirstToUndo
<1> HIDE DEF rs, n
<1>3. y \in HandlerRecord /\ y.pc = "undo" /\ y.cs = cs /\ y.records = rs /\ y.idx = n
    <2>1. Idle \in HandlerRecord /\ <<>> \in Seq(Operation)
        BY IdleRecord
    <2> HIDE DEF y
    <2> QED
        BY <1>2, <2>1 DEF y, HandlerRecord
<1> HIDE DEF y
<1>4. Fits(y)
    BY <1>2, <1>3 DEF Fits, Applying
<1>5. handler'[h] = y /\ handler' = [handler EXCEPT ![h] = handler'[h]]
    BY <1>1, OneMoves
<1> QED
    BY <1>3, <1>4, <1>5

\* Each step of a rollback.
LEMMA RollbackHandlerTypes ==
    ASSUME HandlerTypes, StoreTypes, NEW h \in Handlers, RollbackStep(h)
    PROVE  HandlerTypes'
<1> DEFINE x == handler[h]
<1>0. x \in HandlerRecord /\ Fits(x)
    BY DEF HandlerTypes
<1>1. ASSUME NEW cs \in ChangeSets, RollbackStart(h, cs) PROVE HandlerTypes'
    BY <1>1, StartMoves, HandlerTypesKept
<1>2. CASE UndoRecord(h) \/ UndoFails(h)
    <2>1. x.pc = "undo" /\ x.idx > 0
        BY <1>2 DEF UndoRecord, UndoFails, At
    <2>2. CASE GoesTo(h, "fail")
        BY <2>1, <2>2, FailFits
    <2>3. CASE Moves(h, "undo", x.idx - 1, x.images, x.record, x.records)
        <3>1. Fits(handler'[h])
            BY <1>0, <2>1, <2>3, RequestForm
            DEF Moves, IsWith, Fits, Applying, HandlerRecord
        <3> QED
            BY <2>3, <3>1, HandlerTypesKept DEF Moves, IsWith
    <2> QED
        BY <1>2, <2>2, <2>3, UndoMoves
<1>3. ASSUME NEW ok \in BOOLEAN, RollbackReturns(h, ok) PROVE HandlerTypes'
    BY <1>3, ReturnFits DEF RollbackReturns
<1> QED
    BY <1>1, <1>2, <1>3 DEF RollbackStep

\* Every step.
LEMMA HandlerTypesStep == ASSUME HandlerTypes, StoreTypes, Next PROVE HandlerTypes'
<1>1. ASSUME NEW h \in Handlers, NEW cs \in ChangeSets, NEW request \in Requests,
             NEW ok \in BOOLEAN, ApplyBegin(h, cs, request, ok)
      PROVE  HandlerTypes'
    <2>1. CASE ok = TRUE
        BY <1>1, <2>1, BeginMoves, HandlerTypesKept
    <2>2. CASE ok = FALSE
        BY <1>1, <2>2 DEF ApplyBegin, HandlerTypes
    <2> QED
        BY <2>1, <2>2
<1>2. ASSUME NEW h \in Handlers, ApplyStep(h) PROVE HandlerTypes'
    BY <1>2, ApplyHandlerTypes
<1>3. ASSUME NEW h \in Handlers, RollbackStep(h) PROVE HandlerTypes'
    BY <1>3, RollbackHandlerTypes
<1>4. ASSUME NEW h \in Handlers, NEW ok \in BOOLEAN, FailReturns(h, ok) PROVE HandlerTypes'
    BY <1>4, ReturnFits DEF FailReturns
<1>5. CASE CrashAndRestart
    BY <1>5, FitsIdle DEF CrashAndRestart, HandlerTypes
<1> QED
    BY <1>1, <1>2, <1>3, <1>4, <1>5 DEF Next, CallApply, HandlersOrCrash

\* The change set of a busy call is one.
LEMMA BusyChangeSet ==
    ASSUME HandlerTypes, NEW h \in Handlers, handler[h].pc # "idle"
    PROVE  handler[h].cs \in ChangeSets
BY DEF HandlerTypes, Fits

\* What the two hashing loops do to the journal and the store.
LEMMA ImageStep ==
    ASSUME JournalTypeOK, tree \in Tree, HandlerTypes, NEW h \in Handlers, NEW ok \in BOOLEAN,
           StorePreimage(h, ok) \/ StorePostimage(h, ok)
    PROVE  \/ UNCHANGED <<entries, file>>
           \/ Rewrites(handler[h].cs) /\ Keeps(handler[h].cs)
<1> DEFINE path == Head(handler[h].images)
<1>1. handler[h].cs \in ChangeSets /\ path \in TreePaths
    BY BusyChangeSet, ImageMoves DEF StorePreimage, StorePostimage, At
<1>2. IsFile(tree, path) => tree[path].data \in Seq(Texts)
    BY <1>1, DataTyped
<1>3. CASE ~IsFile(tree, path)
    BY <1>3 DEF StorePreimage, StorePostimage
<1>4. CASE IsFile(tree, path)
    <2>1. \/ SetPreimage(handler[h].cs, path, tree[path].data, ok)
          \/ SetPostimage(handler[h].cs, path, tree[path].data, ok)
        BY <1>4 DEF StorePreimage, StorePostimage
    <2> HIDE DEF path
    <2> QED
        BY <1>1, <1>2, <1>4, <2>1, ImageRewrites
<1> QED
    BY <1>3, <1>4

\* What the recording of an operation does to the journal.
LEMMA RecordStep ==
    ASSUME JournalTypeOK, HandlerTypes, NEW h \in Handlers, NEW ok \in BOOLEAN,
           RecordOperation(h, ok)
    PROVE  /\ Rewrites(handler[h].cs)
           /\ entries'[handler[h].cs].operations =
                Append(entries[handler[h].cs].operations, [type |-> Op(h).type, path |-> Op(h).path])
           /\ entries'[handler[h].cs].status = entries[handler[h].cs].status
<1>1. handler[h].pc = "record"
    BY DEF RecordOperation, At
<1>2. handler[h].cs \in ChangeSets /\ handler[h].idx <= Len(handler[h].ops)
    BY <1>1 DEF HandlerTypes, Fits, Applying
<1>3. Op(h) \in Operation
    BY <1>1, <1>2, Places, PresentOperation
<1>4. [type |-> Op(h).type, path |-> Op(h).path] \in OperationEntry
    BY <1>3, HashesAreData DEF Operation, OperationEntry
<1> QED
    BY <1>2, <1>4, AddRewrites DEF RecordOperation

\* What the end of a call does to the journal.
LEMMA SettleStep ==
    ASSUME JournalTypeOK, NEW cs \in ChangeSets, NEW ok \in BOOLEAN,
           Complete(cs, ok) \/ MarkFailed(cs, ok) \/ MarkRolledBack(cs, ok)
    PROVE  Rewrites(cs) /\ entries'[cs].operations = entries[cs].operations
           /\ \/ Complete(cs, ok) /\ entries'[cs].status = "completed"
              \/ entries'[cs].status \in {"failed", "rolled_back"}
<1>1. {"completed", "failed", "rolled_back"} \subseteq Status
    BY DEF Status
<1> QED
    BY <1>1, SettleRewrites DEF Complete, MarkFailed, MarkRolledBack

\* The journal keeps its types.
LEMMA JournalTypesStep ==
    ASSUME JournalTypeOK, tree \in Tree, HandlerTypes, Next PROVE JournalTypeOK'
<1>1. ASSUME NEW h \in Handlers, NEW cs \in ChangeSets, NEW request \in Requests,
             NEW ok \in BOOLEAN, ApplyBegin(h, cs, request, ok)
      PROVE  JournalTypeOK'
    <2>1. Begin(cs, ok)
        BY <1>1 DEF ApplyBegin
    <2> QED
        BY <2>1, NewEntryTyped DEF Begin, Persist, JournalTypeOK
<1>2. ASSUME NEW h \in Handlers, ApplyStep(h) PROVE JournalTypeOK'
    <2>1. CASE UNCHANGED <<entries, file>>
        BY <2>1 DEF JournalTypeOK
    <2>2. ASSUME NEW ok \in BOOLEAN, StorePreimage(h, ok) \/ StorePostimage(h, ok)
          PROVE  JournalTypeOK'
        <3>1. handler[h].cs \in ChangeSets
            BY <2>2, BusyChangeSet DEF StorePreimage, StorePostimage, At
        <3> QED
            BY <2>1, <2>2, <3>1, ImageStep, RewritesTyped
    <2>3. ASSUME NEW ok \in BOOLEAN, RecordOperation(h, ok) PROVE JournalTypeOK'
        <3>1. handler[h].cs \in ChangeSets
            BY <2>3, BusyChangeSet DEF RecordOperation, At
        <3> QED
            BY <2>3, <3>1, RecordStep, RewritesTyped
    <2>4. ASSUME NEW ok \in BOOLEAN, ApplyComplete(h, ok) PROVE JournalTypeOK'
        <3>1. handler[h].cs \in ChangeSets /\ Complete(handler[h].cs, ok)
            BY <2>4, BusyChangeSet DEF ApplyComplete, At
        <3> QED
            BY <3>1, SettleStep, RewritesTyped
    <2>5. \/ UNCHANGED <<entries, file>>
          \/ \E ok \in BOOLEAN : \/ StorePreimage(h, ok) \/ StorePostimage(h, ok)
                                 \/ RecordOperation(h, ok) \/ ApplyComplete(h, ok)
        BY <1>2 DEF ApplyStep, MakeBackupDirectory, FillManifest, DeadlinePassed, NextOperation,
            Inspect, BackupFails, Perform, PerformFails, TruncateManifest, OperationDone
    <2> QED
        BY <2>1, <2>2, <2>3, <2>4, <2>5
<1>3. ASSUME NEW h \in Handlers, RollbackStep(h) PROVE JournalTypeOK'
    <2>1. CASE UNCHANGED <<entries, file>>
        BY <2>1 DEF JournalTypeOK
    <2>2. ASSUME NEW ok \in BOOLEAN, RollbackReturns(h, ok) PROVE JournalTypeOK'
        <3>1. handler[h].cs \in ChangeSets /\ MarkRolledBack(handler[h].cs, ok)
            BY <2>2, BusyChangeSet DEF RollbackReturns, At
        <3> QED
            BY <3>1, SettleStep, RewritesTyped
    <2>3. UNCHANGED <<entries, file>> \/ \E ok \in BOOLEAN : RollbackReturns(h, ok)
        BY <1>3 DEF RollbackStep, RollbackStart, UndoRecord, UndoFails
    <2> QED
        BY <2>1, <2>2, <2>3
<1>4. ASSUME NEW h \in Handlers, NEW ok \in BOOLEAN, FailReturns(h, ok) PROVE JournalTypeOK'
    <2>1. handler[h].cs \in ChangeSets /\ MarkFailed(handler[h].cs, ok)
        BY <1>4, BusyChangeSet DEF FailReturns, At
    <2> QED
        BY <2>1, SettleStep, RewritesTyped
<1>5. CASE CrashAndRestart
    BY <1>5 DEF CrashAndRestart, Reopen, JournalTypeOK
<1> QED
    BY <1>1, <1>2, <1>3, <1>4, <1>5 DEF Next, CallApply, HandlersOrCrash

\* Faults are counted up to their bound.
LEMMA FaultsStep == ASSUME faults \in 0 .. MaxFaults, Next PROVE faults' \in 0 .. MaxFaults
<1>1. Fault \/ NoFault => faults' \in 0 .. MaxFaults
    BY FaultBound DEF Fault, NoFault
<1>2. \A ok \in BOOLEAN : Outcome(ok) => Fault \/ NoFault
    BY DEF Outcome
<1>3. ASSUME NEW h \in Handlers, NEW cs \in ChangeSets, NEW request \in Requests,
             NEW ok \in BOOLEAN, ApplyBegin(h, cs, request, ok)
      PROVE  Fault \/ NoFault
    BY <1>2, <1>3 DEF ApplyBegin
<1>4. ASSUME NEW h \in Handlers, ApplyStep(h) PROVE Fault \/ NoFault
    <2>1. ASSUME NEW ok \in BOOLEAN, StorePreimage(h, ok) \/ StorePostimage(h, ok)
          PROVE  Fault \/ NoFault
        BY <1>2, <2>1 DEF StorePreimage, StorePostimage, NoFault
    <2>2. ASSUME NEW ok \in BOOLEAN,
                 \/ MakeBackupDirectory(h, ok) \/ FillManifest(h, ok)
                 \/ RecordOperation(h, ok) \/ ApplyComplete(h, ok)
          PROVE  Fault \/ NoFault
        BY <1>2, <2>2 DEF MakeBackupDirectory, FillManifest, RecordOperation, ApplyComplete
    <2>3. ASSUME DeadlinePassed(h) \/ NextOperation(h) \/ Inspect(h) \/ BackupFails(h)
                 \/ Perform(h) \/ PerformFails(h) \/ TruncateManifest(h) \/ OperationDone(h)
          PROVE  Fault \/ NoFault
        BY <2>3 DEF DeadlinePassed, NextOperation, Inspect, BackupFails, Perform, PerformFails,
            TruncateManifest, OperationDone, NoFault
    <2> QED
        BY <1>4, <2>1, <2>2, <2>3 DEF ApplyStep
<1>5. ASSUME NEW h \in Handlers, RollbackStep(h) PROVE Fault \/ NoFault
    BY <1>2, <1>5 DEF RollbackStep, RollbackStart, UndoRecord, UndoFails, RollbackReturns, NoFault
<1>6. ASSUME NEW h \in Handlers, NEW ok \in BOOLEAN, FailReturns(h, ok) PROVE Fault \/ NoFault
    BY <1>2, <1>6 DEF FailReturns
<1>7. CASE CrashAndRestart
    BY <1>1, <1>7 DEF CrashAndRestart
<1> QED
    BY <1>1, <1>3, <1>4, <1>5, <1>6, <1>7 DEF Next, CallApply, HandlersOrCrash

\* A busy rollback is at one of its records.
LEMMA PresentRecord ==
    ASSUME HandlerTypes, StoreTypes, NEW h \in Handlers, At(h, "undo"), handler[h].idx > 0
    PROVE  LET r == handler[h].records[handler[h].idx]
           IN r \in RecordSet
<1>1. /\ handler[h].records \in Seq(RecordSet) /\ handler[h].idx \in Nat
      /\ handler[h].idx <= Len(handler[h].records)
    BY DEF HandlerTypes, HandlerRecord, Fits, At
<1> QED
    BY <1>1

\* A backup is of some data.
LEMMA SavedTyped ==
    ASSUME StoreTypes, NEW cs \in ChangeSets, NEW r \in RecordSet
    PROVE  Saved(cs, r) \in Seq(Texts)
<1>1. <<>> \in Seq(Texts)
    OBVIOUS
<1>2. r.backup # 0 => r.backup \in 1 .. MaxOps
    BY RequestForm DEF RecordSet
<1>3. r.backup # 0 => backups[cs][r.backup].data \in Seq(Texts)
    BY <1>2 DEF StoreTypes, BackupRecord
<1> QED
    BY <1>1, <1>3 DEF Saved

\* The project directory stays one.
LEMMA TreeStep ==
    ASSUME tree \in Tree, StoreTypes, HandlerTypes, Next PROVE tree' \in Tree
<1>1. ASSUME NEW h \in Handlers, ApplyStep(h) PROVE tree' \in Tree
    <2>1. CASE UNCHANGED tree
        BY <2>1
    <2>2. CASE Perform(h) \/ PerformFails(h)
        <3>1. handler[h].pc = "perform" /\ handler[h].idx <= Len(handler[h].ops)
            BY <2>2 DEF Perform, PerformFails, At, HandlerTypes, Fits, Applying
        <3>2. Op(h) \in Operation
            BY <3>1, Places, PresentOperation
        <3> QED
            BY <2>2, <3>2, TreePerformed DEF Perform, PerformFails
    <2>3. UNCHANGED tree \/ Perform(h) \/ PerformFails(h)
        BY <1>1 DEF ApplyStep, MakeBackupDirectory, StorePreimage, StorePostimage, FillManifest,
            RecordOperation, ApplyComplete, DeadlinePassed, NextOperation, Inspect, BackupFails,
            TruncateManifest, OperationDone
    <2> QED
        BY <2>1, <2>2, <2>3
<1>2. ASSUME NEW h \in Handlers, RollbackStep(h) PROVE tree' \in Tree
    <2>1. CASE UNCHANGED tree
        BY <2>1
    <2>2. CASE UndoRecord(h) \/ UndoFails(h)
        <3> DEFINE r == handler[h].records[handler[h].idx]
                   saved == Saved(handler[h].cs, r)
        <3>1. At(h, "undo") /\ handler[h].idx > 0 /\ handler[h].pc # "idle"
            BY <2>2 DEF UndoRecord, UndoFails, At
        <3>2. r \in RecordSet /\ saved \in Seq(Texts)
            BY <3>1, PresentRecord, BusyChangeSet, SavedTyped
        <3>3. \/ tree' = Undone(tree, r, saved) \/ tree' = UndoRefused(tree, r)
              \/ tree' \in UndoInterrupted(tree, r, saved)
            BY <2>2 DEF UndoRecord, UndoFails
        <3> HIDE DEF r, saved
        <3> QED
            BY <3>2, <3>3, TreeUndone
    <2>3. UNCHANGED tree \/ UndoRecord(h) \/ UndoFails(h)
        BY <1>2 DEF RollbackStep, RollbackStart, RollbackReturns
    <2> QED
        BY <2>1, <2>2, <2>3
<1>3. CASE UNCHANGED tree
    BY <1>3
<1>4. \/ \E h \in Handlers : ApplyStep(h) \/ RollbackStep(h)
      \/ UNCHANGED tree
    BY DEF Next, CallApply, HandlersOrCrash, ApplyBegin, FailReturns, CrashAndRestart
<1> QED
    BY <1>1, <1>2, <1>3, <1>4

\* The manifest is written by two steps of an apply only, the second of which
\* may fail and leave it torn.
LEMMA FillStep ==
    ASSUME StoreTypes, HandlerTypes, NEW h \in Handlers, NEW ok \in BOOLEAN, FillManifest(h, ok)
    PROVE  /\ ok = FALSE => UNCHANGED manifest
           /\ ok = TRUE => manifest' = [manifest EXCEPT ![handler[h].cs] =
                                            WholeManifest(handler[h].records)]
<1>1. ok = TRUE => manifest' = [manifest EXCEPT ![handler[h].cs] =
                                    WholeManifest(handler[h].records)]
    BY DEF FillManifest
<1>2. CASE ok = FALSE
    <2>1. manifest' = [manifest EXCEPT ![handler[h].cs] = manifest[handler[h].cs]]
        BY <1>2 DEF FillManifest
    <2> QED
        BY <1>2, <2>1 DEF StoreTypes
<1> QED
    BY <1>1, <1>2

SetsBackup(cs, n, b) == backups' = [backups EXCEPT ![cs][n] = b]

\* Backups are written by two steps of an apply only.
LEMMA BackupStep ==
    ASSUME HandlerTypes, tree \in Tree, NEW h \in Handlers, Inspect(h) \/ BackupFails(h),
           backups' # backups
    PROVE  \E n \in 1 .. MaxOps, b \in BackupRecord :
            /\ n = handler[h].idx
            /\ BackupFails(h) \/ b.state = "whole"
            /\ SetsBackup(handler[h].cs, n, b)
<1> DEFINE x == handler[h]
<1>1. x.pc = "preimages"
    BY DEF Inspect, BackupFails, At
<1>2. x.idx <= Len(x.ops)
    BY <1>1 DEF HandlerTypes, Fits, Applying
<1>3. Op(h) \in Operation /\ x.idx \in 1 .. MaxOps
    BY <1>1, <1>2, Places, PresentOperation
<1>4. CASE BackupFails(h)
    <2>1. [state |-> "torn", data |-> <<>>] \in BackupRecord
        BY DEF BackupRecord
    <2>2. backups' = [backups EXCEPT ![x.cs][x.idx] = [state |-> "torn", data |-> <<>>]]
        BY <1>4 DEF BackupFails
    <2> QED
        BY <1>3, <1>4, <2>1, <2>2 DEF SetsBackup
<1>5. CASE Inspect(h)
    <2> DEFINE r == RecordFor(Op(h), tree, x.idx)
               b == [state |-> "whole", data |-> tree[Op(h).path].data]
    <2>1. r.backup # 0 /\ backups' = [backups EXCEPT ![x.cs][r.backup] = b]
        BY <1>5 DEF Inspect
    <2>2. IsFile(tree, Op(h).path) /\ r.backup = x.idx
        BY <2>1 DEF RecordFor
    <2>3. Op(h).path \in TreePaths
        BY <1>3 DEF Operation
    <2>4. b \in BackupRecord /\ b.state = "whole"
        BY <2>2, <2>3, DataTyped DEF BackupRecord
    <2>5. SetsBackup(x.cs, x.idx, b)
        BY <2>1, <2>2 DEF SetsBackup
    <2> HIDE DEF r, b
    <2> QED
        BY <1>3, <2>4, <2>5
<1> QED
    BY <1>4, <1>5

\* The store keeps its types.
LEMMA StoreTypesStep ==
    ASSUME Types, Next PROVE StoreTypes'
<1>0. StoreTypes /\ HandlerTypes /\ tree \in Tree
    BY DEF Types
<1>1. CASE UNCHANGED <<manifest, backups>>
    BY <1>0, <1>1 DEF StoreTypes
<1>2. ASSUME NEW h \in Handlers, ApplyStep(h) PROVE StoreTypes'
    <2> DEFINE cs == handler[h].cs
    <2>1. CASE TruncateManifest(h)
        <3>1. cs \in ChangeSets
            BY <2>1, BusyChangeSet, <1>0 DEF TruncateManifest, At
        <3>2. TornManifest \in ManifestRecord /\ Len(TornManifest.records) = 0
            <4>1. <<>> \in Seq(RecordSet)
                OBVIOUS
            <4> QED
                BY <4>1 DEF TornManifest, ManifestRecord
        <3>3. manifest' = [manifest EXCEPT ![cs] = TornManifest] /\ UNCHANGED backups
            BY <2>1 DEF TruncateManifest
        <3> QED
            BY <1>0, <3>1, <3>2, <3>3, RequestForm DEF StoreTypes
    <2>2. ASSUME NEW ok \in BOOLEAN, FillManifest(h, ok) PROVE StoreTypes'
        <3> DEFINE m == WholeManifest(handler[h].records)
        <3>1. handler[h].pc = "fill" /\ cs \in ChangeSets
            BY <2>2, BusyChangeSet, <1>0 DEF FillManifest, At
        <3>2. handler[h].records \in Seq(RecordSet) /\ Len(handler[h].records) <= MaxOps
            <4> DEFINE x == handler[h]
            <4>1. x \in HandlerRecord /\ Fits(x) /\ x.pc = "fill"
                BY <1>0, <3>1 DEF HandlerTypes
            <4> HIDE DEF x
            <4>2. Len(x.records) = x.idx /\ x.idx <= Len(x.ops) /\ Len(x.ops) <= MaxOps
                BY <4>1 DEF Fits, Applying, Recorded
            <4>3. x.records \in Seq(RecordSet) /\ x.ops \in Seq(NamedOperation) /\ x.idx \in Nat
                BY <4>1 DEF HandlerRecord
            <4> QED
                BY <4>2, <4>3, RequestForm DEF x
        <3>3. m \in ManifestRecord /\ Len(m.records) <= MaxOps
            BY <3>2 DEF WholeManifest, ManifestRecord
        <3>4. UNCHANGED backups /\ (UNCHANGED manifest \/ manifest' = [manifest EXCEPT ![cs] = m])
            BY <1>0, <2>2, FillStep DEF FillManifest
        <3> HIDE DEF m
        <3> QED
            BY <1>0, <3>1, <3>3, <3>4 DEF StoreTypes
    <2>3. CASE (Inspect(h) \/ BackupFails(h)) /\ backups' # backups
        <3>1. cs \in ChangeSets
            BY <2>3, BusyChangeSet, <1>0 DEF Inspect, BackupFails, At
        <3>2. PICK n \in 1 .. MaxOps, b \in BackupRecord : SetsBackup(cs, n, b)
            BY <1>0, <2>3, BackupStep
        <3>3. UNCHANGED manifest
            BY <2>3 DEF Inspect, BackupFails
        <3> QED
            BY <1>0, <3>1, <3>2, <3>3 DEF StoreTypes, SetsBackup
    <2>4. \/ UNCHANGED <<manifest, backups>> \/ TruncateManifest(h)
          \/ \E ok \in BOOLEAN : FillManifest(h, ok)
          \/ (Inspect(h) \/ BackupFails(h)) /\ backups' # backups
        BY <1>2 DEF ApplyStep, MakeBackupDirectory, StorePreimage, StorePostimage,
            RecordOperation, ApplyComplete, DeadlinePassed, NextOperation, Inspect, BackupFails,
            Perform, PerformFails, OperationDone
    <2> QED
        BY <1>1, <2>1, <2>2, <2>3, <2>4
<1>3. UNCHANGED <<manifest, backups>> \/ \E h \in Handlers : ApplyStep(h)
    BY DEF Next, CallApply, HandlersOrCrash, ApplyBegin, FailReturns, CrashAndRestart,
        RollbackStep, RollbackStart, RollbackReturns, UndoRecord, UndoFails
<1> QED
    BY <1>1, <1>2, <1>3

\* Only a Begin adds to the requests the history keeps.
LEMMA HistoryBegins ==
    ASSUME HistoryTypes, NEW h, NEW cs \in ChangeSets, NEW request \in Requests,
           RememberBegin(h, cs, request)
    PROVE  HistoryTypes' /\ history'.request = [history.request EXCEPT ![cs] = request]
<1> DEFINE b == [history.before EXCEPT ![cs] = tree]
           q == [history.request EXCEPT ![cs] = request]
           st == IF Alone(h) THEN Append(history.stack, cs) ELSE <<>>
<1>1. history' = [history EXCEPT !.before = b, !.request = q, !.stack = st, !.undone = NoEntry]
    BY DEF RememberBegin
<1>2. q \in [ChangeSets -> Seq(Operation)]
    BY RequestForm DEF HistoryTypes, ValidRequest
<1> HIDE DEF b, q, st
<1> QED
    BY <1>1, <1>2 DEF HistoryTypes, q

\* What a rollback remembers leaves the requests.
LEMMA HistoryOfRollback ==
    ASSUME HistoryTypes, NEW h, NEW cs, RememberRollback(h, cs)
    PROVE  HistoryTypes' /\ history'.request = history.request
<1> DEFINE t == history.tried \cup {cs}
           rt == IF cs \in history.tried THEN history.retried \cup {cs} ELSE history.retried
           st == IF Alone(h) /\ OnTop(cs) THEN history.stack ELSE <<>>
           u == IF Alone(h) /\ history.undone = cs THEN history.undone ELSE NoEntry
<1>1. history' = [history EXCEPT !.tried = t, !.retried = rt, !.stack = st, !.undone = u]
    BY DEF RememberRollback
<1> HIDE DEF t, rt, st, u
<1> QED
    BY <1>1 DEF HistoryTypes

\* So does what its end remembers,
LEMMA HistoryOfRolledBack ==
    ASSUME HistoryTypes, NEW cs, RememberRolledBack(cs)
    PROVE  HistoryTypes' /\ history'.request = history.request
<1> DEFINE st == IF OnTop(cs) THEN Front(history.stack) ELSE history.stack
<1>1. \/ history' = [history EXCEPT !.undone = NoEntry, !.stack = <<>>]
      \/ history' = [history EXCEPT !.undone = cs, !.stack = st]
    BY DEF RememberRolledBack
<1> HIDE DEF st
<1> QED
    BY <1>1 DEF HistoryTypes

\* and what an interrupted operation or a restart does.
LEMMA HistoryOfResidue ==
    ASSUME HistoryTypes, NEW css, RememberResidue(css)
    PROVE  HistoryTypes' /\ history'.request = history.request
<1> DEFINE r == history.residue \cup css
<1>1. history' = [history EXCEPT !.residue = r]
    BY DEF RememberResidue
<1> HIDE DEF r
<1> QED
    BY <1>1 DEF HistoryTypes

\* No other step adds a request.
LEMMA RequestsKept ==
    ASSUME HistoryTypes,
           \/ CrashAndRestart
           \/ \E h \in Handlers : \/ ApplyStep(h) \/ RollbackStep(h)
                                  \/ \E ok \in BOOLEAN : FailReturns(h, ok)
    PROVE  HistoryTypes' /\ history'.request = history.request
<1>1. CASE UNCHANGED history
    BY <1>1 DEF HistoryTypes
<1>2. CASE \E css : RememberResidue(css)
    BY <1>2, HistoryOfResidue
<1>3. CASE \E h, cs : RememberRollback(h, cs)
    BY <1>3, HistoryOfRollback
<1>4. CASE \E cs : RememberRolledBack(cs)
    BY <1>4, HistoryOfRolledBack
<1>5. ASSUME NEW h \in Handlers, ApplyStep(h)
      PROVE  UNCHANGED history \/ \E css : RememberResidue(css)
    BY <1>5 DEF ApplyStep, MakeBackupDirectory, StorePreimage, StorePostimage, FillManifest,
        RecordOperation, ApplyComplete, DeadlinePassed, NextOperation, Inspect, BackupFails,
        Perform, PerformFails, TruncateManifest, OperationDone
<1>6. ASSUME NEW h \in Handlers, RollbackStep(h)
      PROVE  \/ UNCHANGED history \/ \E g, cs : RememberRollback(g, cs)
             \/ \E cs : RememberRolledBack(cs)
    BY <1>6 DEF RollbackStep, RollbackStart, UndoRecord, UndoFails, RollbackReturns
<1>7. CASE CrashAndRestart
    BY <1>2, <1>7 DEF CrashAndRestart
<1>8. ASSUME NEW h \in Handlers, NEW ok \in BOOLEAN, FailReturns(h, ok) PROVE UNCHANGED history
    BY <1>8 DEF FailReturns
<1> QED
    BY <1>1, <1>2, <1>3, <1>4, <1>5, <1>6, <1>7, <1>8

(***************************************************************************)
(* Every call is at one of its places, at an operation of its request or a *)
(* record of its manifest, and the journal, the tree and the files of the  *)
(* rollback directory are what the code may read back: for any handlers,   *)
(* change sets, requests and faults.                                       *)
(***************************************************************************)
THEOREM TypesHold == Spec => []Types
<1>1. Types /\ [Next]_vars => Types'
    <2> SUFFICES ASSUME Types, [Next]_vars PROVE Types'
        OBVIOUS
    <2>1. CASE UNCHANGED vars
        BY <2>1 DEF vars, bridgeVars, Types, JournalTypeOK, StoreTypes, HandlerTypes, HistoryTypes
    <2>2. CASE Next
        <3>1. JournalTypeOK' /\ tree' \in Tree /\ StoreTypes' /\ HandlerTypes'
              /\ faults' \in 0 .. MaxFaults
            BY <2>2, JournalTypesStep, TreeStep, StoreTypesStep, HandlerTypesStep, FaultsStep
            DEF Types
        <3>2. HistoryTypes'
            <4>1. HistoryTypes
                BY DEF Types
            <4>2. ASSUME NEW h \in Handlers, NEW cs \in ChangeSets, NEW request \in Requests,
                         NEW ok \in BOOLEAN, ApplyBegin(h, cs, request, ok)
                  PROVE  HistoryTypes'
                <5>1. CASE ok = TRUE
                    BY <4>1, <4>2, <5>1, HistoryBegins DEF ApplyBegin
                <5>2. CASE ok = FALSE
                    BY <4>1, <4>2, <5>2 DEF ApplyBegin, HistoryTypes
                <5> QED
                    BY <5>1, <5>2
            <4> QED
                BY <2>2, <4>1, <4>2, RequestsKept DEF Next, CallApply, HandlersOrCrash
        <3> QED
            BY <3>1, <3>2 DEF Types
    <2> QED
        BY <2>1, <2>2
<1> QED
    BY <1>1, TypesInit, PTL DEF Spec

(* The types the run checks. *)
THEOREM PatchTypes == Spec => []PatchTypeOK
BY TypesHold, TypesSuffice, PTL

----------------------------------------------------------------------------
(***************************************************************************)
(* Journal, manifest and backups of one change set, whose entry is e in    *)
(* memory and f in the file, m its manifest, b its backups and req the     *)
(* operations it was begun for.                                            *)
(***************************************************************************)
SoundRecords(records, b, req) ==
    /\ Len(records) <= Len(req)
    /\ \A i \in 1 .. Len(records) :
        /\ Describes(records[i], req[i], i)
        /\ records[i].backup # 0 => b[records[i].backup].state = "whole"

SoundLog(e, m, req) ==
    /\ Len(e.operations) <= Len(req)
    /\ \A i \in 1 .. Len(e.operations) : SameOperation(e.operations[i], req[i])
    /\ m.state # "torn" => Len(e.operations) <= Len(m.records)
    /\ e.status = "completed" => /\ Len(e.operations) = Len(req)
                                 /\ m.state = "whole" /\ Len(m.records) = Len(req)

Sound(e, f, m, b, req) ==
    /\ e = NoEntry <=> f = NoEntry
    /\ e = NoEntry => m = NoManifest
    /\ SoundRecords(m.records, b, req)
    /\ e # NoEntry => /\ SoundLog(e, m, req) /\ SoundLog(f, m, req)
                      /\ Len(f.operations) <= Len(e.operations)

\* How many operations an apply has in the journal, and what is in its
\* manifest.
Logged(x) == IF x.pc = "postimages" THEN x.idx ELSE x.idx - 1

ManifestOf(x) == IF x.pc = "fill" THEN TornManifest
                 ELSE IF x.records = <<>> THEN NoManifest
                 ELSE WholeManifest(x.records)

\* The apply of that change set, at x, has the three where its place says.
Tracks(x, e, f, m, b, req) ==
    /\ x.ops = req /\ req # <<>>
    /\ e # NoEntry
    /\ Len(e.operations) = Logged(x)
    /\ e.status # "completed" /\ f.status # "completed"
    /\ m = ManifestOf(x)
    /\ SoundRecords(x.records, b, req)
    /\ x.pc \in {"perform", "manifest"} /\ x.record.backup # 0 =>
        b[x.record.backup].state = "whole"

IsSound(cs) == Sound(entries[cs], file[cs], manifest[cs], backups[cs], history.request[cs])

IsTracked(h) ==
    LET cs == handler[h].cs
    IN handler[h].pc \in Applying =>
        Tracks(handler[h], entries[cs], file[cs], manifest[cs], backups[cs], history.request[cs])

\* No two calls apply one change set: Begin draws a new id.
OneApply ==
    \A g, h \in Handlers :
        /\ handler[g].pc \in Applying /\ handler[h].pc \in Applying
        /\ handler[g].cs = handler[h].cs
        => g = h

Accounts ==
    /\ Types
    /\ \A cs \in ChangeSets : IsSound(cs)
    /\ \A h \in Handlers : IsTracked(h)
    /\ OneApply

\* A write for another change set publishes the entry in memory.
LEMMA Published ==
    ASSUME NEW e, NEW f, NEW m, NEW b, NEW req
    PROVE  /\ Sound(e, f, m, b, req) => Sound(e, e, m, b, req)
           /\ \A x : Tracks(x, e, f, m, b, req) => Tracks(x, e, e, m, b, req)
<1>1. ASSUME Sound(e, f, m, b, req), e # NoEntry PROVE Len(e.operations) <= Len(e.operations)
    BY <1>1 DEF Sound, SoundLog
<1> QED
    BY <1>1 DEF Sound, Tracks

\* A step of one call for one change set: memory may be published, and
\* nothing else happens to the other change sets.
Local(h, cs) ==
    /\ handler' = [handler EXCEPT ![h] = handler'[h]]
    /\ \A d \in ChangeSets : file'[d] = file[d] \/ file'[d] = entries'[d]
    /\ \A d \in ChangeSets \ {cs} :
        /\ entries'[d] = entries[d] /\ manifest'[d] = manifest[d] /\ backups'[d] = backups[d]
        /\ history'.request[d] = history.request[d]

\* The accounts of the other change sets stay.
LEMMA OtherChangeSets ==
    ASSUME NEW h, NEW cs \in ChangeSets, Local(h, cs), NEW d \in ChangeSets \ {cs}
    PROVE  /\ IsSound(d) => IsSound(d)'
           /\ \A x : Tracks(x, entries[d], file[d], manifest[d], backups[d], history.request[d])
                => Tracks(x, entries'[d], file'[d], manifest'[d], backups'[d], history'.request[d])
<1>1. /\ entries'[d] = entries[d] /\ manifest'[d] = manifest[d] /\ backups'[d] = backups[d]
      /\ history'.request[d] = history.request[d]
      /\ file'[d] = file[d] \/ file'[d] = entries[d]
    BY DEF Local
<1>2. Sound(entries[d], file[d], manifest[d], backups[d], history.request[d])
        => Sound(entries'[d], file'[d], manifest'[d], backups'[d], history'.request[d])
    BY <1>1, Published
<1>3. \A x : Tracks(x, entries[d], file[d], manifest[d], backups[d], history.request[d])
                => Tracks(x, entries'[d], file'[d], manifest'[d], backups'[d], history'.request[d])
    BY <1>1, Published
<1> QED
    BY <1>2, <1>3 DEF IsSound

\* A step for one change set keeps the accounts if it keeps those of that change
\* set and of the calls that have it.
LEMMA LocalStep ==
    ASSUME Accounts, Types', NEW h \in Handlers, NEW cs \in ChangeSets, Local(h, cs),
           IsSound(cs)', IsTracked(h)',
           handler'[h].pc \in Applying =>
              /\ handler'[h].cs = cs
              /\ \A g \in Handlers \ {h} : handler[g].pc \in Applying => handler[g].cs # cs,
           \A g \in Handlers \ {h} : handler[g].cs = cs => IsTracked(g)'
    PROVE  Accounts'
<1>1. \A g \in Handlers \ {h} : handler'[g] = handler[g]
    BY DEF Local, Types, HandlerTypes
<1>2. \A d \in ChangeSets : IsSound(d)'
    BY OtherChangeSets DEF Accounts
<1>3. ASSUME NEW g \in Handlers PROVE IsTracked(g)'
    <2>1. CASE g = h
        BY <2>1
    <2>2. CASE g # h /\ handler[g].cs = cs
        BY <2>2
    <2>3. CASE g # h /\ handler[g].cs # cs
        <3>1. handler'[g] = handler[g] /\ IsTracked(g)
            BY <1>1, <2>3 DEF Accounts
        <3>2. CASE handler[g].pc \notin Applying
            BY <3>1, <3>2 DEF IsTracked
        <3>3. CASE handler[g].pc \in Applying
            <4>1. handler[g].cs \in ChangeSets \ {cs}
                BY <2>3, <3>3, BusyChangeSet, Places DEF Accounts, Types
            <4> QED
                BY <3>1, <3>3, <4>1, OtherChangeSets DEF IsTracked
        <3> QED
            BY <3>2, <3>3
    <2> QED
        BY <2>1, <2>2, <2>3
<1>4. OneApply'
    BY <1>1 DEF Accounts, OneApply
<1> QED
    BY <1>2, <1>3, <1>4 DEF Accounts

(***************************************************************************)
(* The steps of the apply that has the change set.                         *)
(***************************************************************************)
LEMMA ApplyLocal ==
    ASSUME Accounts, Types', NEW h \in Handlers, NEW cs \in ChangeSets,
           handler[h].pc \in Applying, handler[h].cs = cs, Local(h, cs),
           handler'[h].pc # "idle" => handler'[h].cs = cs,
           IsSound(cs)', IsTracked(h)'
    PROVE  Accounts'
<1>1. ASSUME NEW g \in Handlers \ {h}, handler[g].cs = cs
      PROVE  handler[g].pc \notin Applying /\ IsTracked(g)'
    <2>1. handler[g].pc \notin Applying
        BY <1>1 DEF Accounts, OneApply
    <2>2. handler'[g] = handler[g]
        BY DEF Local, Accounts, Types, HandlerTypes
    <2> QED
        BY <2>1, <2>2 DEF IsTracked
<1>2. handler'[h].pc \in Applying => handler'[h].cs = cs
    BY Places
<1> QED
    BY <1>1, <1>2, LocalStep

(***************************************************************************)
(* The steps of a rollback and of a call that gives up: nothing but the    *)
(* status of the entry changes, and not to completed.                      *)
(***************************************************************************)
StatusOnly(cs) ==
    /\ UNCHANGED <<manifest, backups>>
    /\ history'.request = history.request
    /\ entries[cs] # NoEntry => /\ entries'[cs] # NoEntry
                                /\ entries'[cs].operations = entries[cs].operations
                                /\ \/ entries'[cs].status = entries[cs].status
                                   \/ entries'[cs].status # "completed"
    /\ entries[cs] = NoEntry => entries'[cs] = NoEntry

\* A status other than completed breaks no account.
LEMMA StatusChanges ==
    ASSUME NEW e, NEW f, NEW e2, NEW f2, NEW m, NEW b, NEW req,
           e2.operations = e.operations,
           e2.status = e.status \/ e2.status # "completed",
           f2 \in {f, e2}, e # NoEntry <=> e2 # NoEntry
    PROVE  /\ Sound(e, f, m, b, req) => Sound(e2, f2, m, b, req)
           /\ \A x : Sound(e, f, m, b, req) /\ Tracks(x, e, f, m, b, req) =>
                        Tracks(x, e2, f2, m, b, req)
<1>1. ASSUME Sound(e, f, m, b, req), e # NoEntry PROVE Len(e.operations) <= Len(e.operations)
    BY <1>1 DEF Sound, SoundLog
<1>2. ASSUME Sound(e, f, m, b, req), e # NoEntry
      PROVE SoundLog(e2, m, req) /\ SoundLog(f2, m, req) /\ Len(f2.operations) <= Len(e2.operations)
    BY <1>1, <1>2 DEF Sound, SoundLog
<1>3. Sound(e, f, m, b, req) => Sound(e2, f2, m, b, req)
    BY <1>2 DEF Sound
<1>4. ASSUME NEW x, Sound(e, f, m, b, req), Tracks(x, e, f, m, b, req)
      PROVE  Tracks(x, e2, f2, m, b, req)
    BY <1>4 DEF Tracks
<1> QED
    BY <1>3, <1>4

\* A step that changes at most the status keeps the accounts of all.
LEMMA StatusLocal ==
    ASSUME Accounts, Types', NEW h \in Handlers, NEW cs \in ChangeSets,
           handler[h].pc \notin Applying, handler'[h].pc \notin Applying,
           Local(h, cs), StatusOnly(cs)
    PROVE  Accounts'
<1> DEFINE e == entries[cs]
           f == file[cs]
           e2 == entries'[cs]
           f2 == file'[cs]
           m == manifest[cs]
           b == backups[cs]
           req == history.request[cs]
<1>0. Sound(e, f, m, b, req) /\ (e = NoEntry <=> f = NoEntry)
    BY DEF Accounts, IsSound, Sound
<1>1. f2 \in {f, e2} /\ manifest'[cs] = m /\ backups'[cs] = b /\ history'.request[cs] = req
    BY DEF Local, StatusOnly
<1>2. CASE e = NoEntry
    <2>1. e2 = NoEntry /\ f2 = NoEntry
        BY <1>0, <1>1, <1>2 DEF StatusOnly
    <2>2. Sound(e2, f2, m, b, req) /\ e2 = e /\ f2 = f
        BY <1>0, <1>2, <2>1
    <2>3. IsSound(cs)'
        BY <1>1, <2>2 DEF IsSound
    <2>4. ASSUME NEW g \in Handlers \ {h}, handler[g].cs = cs PROVE IsTracked(g)'
        <3>1. handler'[g] = handler[g]
            BY DEF Local, Accounts, Types, HandlerTypes
        <3>2. handler[g].pc \notin Applying
            BY <1>2, <2>4 DEF Accounts, IsTracked, Tracks
        <3> QED
            BY <3>1, <3>2 DEF IsTracked
    <2>5. IsTracked(h)'
        BY DEF IsTracked
    <2> HIDE DEF e, f, e2, f2, m, b, req
    <2> QED
        BY <2>3, <2>4, <2>5, LocalStep
<1>3. CASE e # NoEntry
    <2>1. /\ e2 # NoEntry /\ e2.operations = e.operations
          /\ e2.status = e.status \/ e2.status # "completed"
        BY <1>3 DEF StatusOnly
    <2>2. IsSound(cs)'
        <3> HIDE DEF e, f, e2, f2, m, b, req
        <3>1. Sound(e2, f2, m, b, req)
            BY <1>0, <1>1, <1>3, <2>1, StatusChanges
        <3> QED
            BY <1>1, <3>1 DEF IsSound, e, f, e2, f2, m, b, req
    <2>3. ASSUME NEW g \in Handlers \ {h}, handler[g].cs = cs PROVE IsTracked(g)'
        <3>1. handler'[g] = handler[g]
            BY DEF Local, Accounts, Types, HandlerTypes
        <3>2. handler[g].pc \in Applying => Tracks(handler[g], e, f, m, b, req)
            BY <2>3 DEF Accounts, IsTracked
        <3>3. handler[g].pc \in Applying => Tracks(handler[g], e2, f2, m, b, req)
            <4> HIDE DEF e, f, e2, f2, m, b, req
            <4> QED
                BY <1>0, <1>1, <1>3, <2>1, <3>2, StatusChanges
        <3> QED
            BY <1>1, <2>3, <3>1, <3>3 DEF IsTracked
    <2>4. IsTracked(h)'
        BY DEF IsTracked
    <2> HIDE DEF e, f, e2, f2, m, b, req
    <2> QED
        BY <2>2, <2>3, <2>4, LocalStep
<1> QED
    BY <1>2, <1>3

\* What Rewrites and StatusOnly have in common.
LEMMA RewritesLocal ==
    ASSUME JournalTypeOK, NEW h, NEW cs \in ChangeSets, handler' = [handler EXCEPT ![h] = handler'[h]],
           UNCHANGED <<entries, file>> \/ Rewrites(cs),
           UNCHANGED <<manifest, backups>>, history'.request = history.request
    PROVE  Local(h, cs)
BY DEF Local, Rewrites, JournalTypeOK

\* Each step of a rollback, and the end of a call that gives up.
LEMMA OtherSteps ==
    ASSUME Accounts, Types', NEW h \in Handlers,
           RollbackStep(h) \/ \E ok \in BOOLEAN : FailReturns(h, ok)
    PROVE  Accounts'
<1>0. Types /\ JournalTypeOK /\ HandlerTypes /\ StoreTypes /\ HistoryTypes
    BY DEF Accounts, Types
<1>1. history'.request = history.request
    BY <1>0, RequestsKept
<1>2. UNCHANGED <<manifest, backups>>
    BY DEF RollbackStep, RollbackStart, UndoRecord, UndoFails, RollbackReturns, FailReturns
<1>3. ASSUME NEW cs \in ChangeSets, RollbackStart(h, cs) PROVE Accounts'
    <2>1. handler' = [handler EXCEPT ![h] = handler'[h]] /\ handler'[h].pc \notin Applying
        BY <1>0, <1>3, StartMoves, Places
    <2>2. handler[h].pc \notin Applying /\ UNCHANGED <<entries, file>>
        BY <1>3, Places DEF RollbackStart, At
    <2>3. Local(h, cs) /\ StatusOnly(cs)
        BY <1>0, <1>1, <1>2, <2>1, <2>2, RewritesLocal DEF StatusOnly
    <2> QED
        BY <2>1, <2>2, <2>3, StatusLocal
<1>4. CASE UndoRecord(h) \/ UndoFails(h)
    <2>1. handler[h].pc \notin Applying /\ handler[h].pc # "idle" /\ UNCHANGED <<entries, file>>
        BY <1>4, Places DEF UndoRecord, UndoFails, At
    <2>2. handler' = [handler EXCEPT ![h] = handler'[h]] /\ handler'[h].pc \notin Applying
        BY <1>0, <1>4, UndoMoves, Places DEF GoesTo, Moves, IsWith
    <2>3. PICK cs \in ChangeSets : cs = handler[h].cs
        BY <1>0, <2>1, BusyChangeSet
    <2>4. Local(h, cs) /\ StatusOnly(cs)
        BY <1>0, <1>1, <1>2, <2>1, <2>2, RewritesLocal DEF StatusOnly
    <2> QED
        BY <2>1, <2>2, <2>4, StatusLocal
<1>5. ASSUME NEW ok \in BOOLEAN, RollbackReturns(h, ok) \/ FailReturns(h, ok) PROVE Accounts'
    <2>1. handler[h].pc \notin Applying /\ handler[h].pc # "idle"
        BY <1>5, Places DEF RollbackReturns, FailReturns, At
    <2>2. handler' = [handler EXCEPT ![h] = handler'[h]] /\ handler'[h].pc \notin Applying
        <3>1. Return(h)
            BY <1>5 DEF RollbackReturns, FailReturns
        <3> QED
            BY <1>0, <3>1, OneMoves, IdleRecord, Places DEF Return
    <2>3. PICK cs \in ChangeSets : cs = handler[h].cs
        BY <1>0, <2>1, BusyChangeSet
    <2>4. MarkRolledBack(cs, ok) \/ MarkFailed(cs, ok)
        BY <1>5, <2>3 DEF RollbackReturns, FailReturns
    <2>5. Rewrites(cs) /\ entries'[cs].operations = entries[cs].operations
          /\ entries'[cs].status \in {"failed", "rolled_back"}
        BY <1>0, <2>4, SettleRewrites DEF MarkRolledBack, MarkFailed, Status
    <2>6. Local(h, cs) /\ StatusOnly(cs)
        BY <1>0, <1>1, <1>2, <2>2, <2>5, RewritesLocal, NullsAreFresh DEF StatusOnly, Rewrites
    <2> QED
        BY <2>1, <2>2, <2>6, StatusLocal
<1> QED
    BY <1>3, <1>4, <1>5 DEF RollbackStep

\* Nothing of the accounts changes.
LEMMA AccountsKept ==
    ASSUME Accounts, Types', UNCHANGED <<entries, file, manifest, backups, handler>>,
           history'.request = history.request
    PROVE  Accounts'
<1>1. \A cs \in ChangeSets : IsSound(cs)'
    BY DEF Accounts, IsSound
<1>2. \A h \in Handlers : IsTracked(h)'
    BY DEF Accounts, IsTracked
<1>3. OneApply'
    BY DEF Accounts, OneApply
<1> QED
    BY <1>1, <1>2, <1>3 DEF Accounts

\* A change set begins with an empty log, no manifest and the request it is
\* begun for; no other apply has it.
LEMMA BeginStep ==
    ASSUME Accounts, Types', NEW h \in Handlers, NEW cs \in ChangeSets, NEW request \in Requests,
           NEW ok \in BOOLEAN, ApplyBegin(h, cs, request, ok)
    PROVE  Accounts'
<1>0. Types /\ JournalTypeOK /\ HandlerTypes /\ HistoryTypes
    BY DEF Accounts, Types
<1>1. CASE ok = FALSE
    <2>1. UNCHANGED <<entries, file, manifest, backups, handler, history>>
        BY <1>1 DEF ApplyBegin, Begin, Persist
    <2> QED
        BY <2>1, AccountsKept
<1>2. CASE ok = TRUE
    <2>1. /\ handler' = [handler EXCEPT ![h] = handler'[h]]
          /\ handler'[h].pc = "mkdir" /\ handler'[h].cs = cs /\ handler'[h].ops = request
          /\ handler'[h].idx = 1 /\ handler'[h].records = <<>>
        BY <1>0, <1>2, BeginMoves
    <2>2. history'.request = [history.request EXCEPT ![cs] = request]
        BY <1>0, <1>2, HistoryBegins DEF ApplyBegin
    <2>3. /\ entries[cs] = NoEntry
          /\ entries' = [entries EXCEPT ![cs] = NewEntry] /\ file' = entries'
          /\ UNCHANGED <<manifest, backups>>
        BY <1>2 DEF ApplyBegin, Begin, Known, Persist
    <2>4. Local(h, cs)
        BY <1>0, <2>1, <2>2, <2>3 DEF Local, JournalTypeOK, HistoryTypes
    <2>5. /\ entries'[cs] = NewEntry /\ file'[cs] = NewEntry /\ manifest'[cs] = NoManifest
          /\ history'.request[cs] = request
        BY <1>0, <2>2, <2>3 DEF JournalTypeOK, HistoryTypes, Accounts, IsSound, Sound
    <2>6. /\ NewEntry # NoEntry /\ Len(NewEntry.operations) = 0
          /\ NewEntry.status # "completed"
        BY NewEntryTyped, NullsAreFresh DEF NewEntry
    <2>7. request \in Seq(Operation) /\ request # <<>>
        BY RequestForm DEF ValidRequest
    <2>8. \A x : x = <<>> => SoundRecords(x, backups'[cs], request)
        BY <2>7 DEF SoundRecords
    <2>9. Sound(NewEntry, NewEntry, NoManifest, backups'[cs], request)
        BY <2>6, <2>7, <2>8 DEF Sound, SoundLog, NoManifest
    <2>10. IsSound(cs)'
        BY <2>5, <2>9 DEF IsSound
    <2>11. Tracks(handler'[h], NewEntry, NewEntry, NoManifest, backups'[cs], request)
        BY <2>1, <2>6, <2>7, <2>8 DEF Tracks, Logged, ManifestOf
    <2>12. IsTracked(h)'
        BY <2>1, <2>5, <2>11 DEF IsTracked
    <2>13. \A g \in Handlers \ {h} : handler[g].pc \in Applying => handler[g].cs # cs
        BY <2>3 DEF Accounts, IsTracked, Tracks
    <2>14. ASSUME NEW g \in Handlers \ {h}, handler[g].cs = cs PROVE IsTracked(g)'
        <3>1. handler'[g] = handler[g]
            BY <1>0, <2>1 DEF HandlerTypes
        <3> QED
            BY <2>13, <2>14, <3>1 DEF IsTracked
    <2> QED
        BY <2>1, <2>4, <2>10, <2>12, <2>13, <2>14, LocalStep
<1> QED
    BY <1>1, <1>2

\* A restart ends every call, and takes the file for the memory.
LEMMA CrashStep == ASSUME Accounts, Types', CrashAndRestart PROVE Accounts'
<1>1. /\ entries' = file /\ file' = file /\ UNCHANGED <<manifest, backups>>
      /\ \A h \in Handlers : handler'[h] = Idle
    BY DEF CrashAndRestart, Reopen
<1>2. history'.request = history.request
    BY RequestsKept DEF Accounts, Types
<1>3. ASSUME NEW cs \in ChangeSets PROVE IsSound(cs)'
    <2> DEFINE e == entries[cs]
               f == file[cs]
               m == manifest[cs]
               b == backups[cs]
               req == history.request[cs]
    <2>1. Sound(e, f, m, b, req)
        BY DEF Accounts, IsSound
    <2>2. Sound(f, f, m, b, req)
        <3> HIDE DEF e, f, m, b, req
        <3>1. ASSUME f # NoEntry PROVE Len(f.operations) <= Len(f.operations)
            BY <2>1, <3>1 DEF Sound, SoundLog
        <3> QED
            BY <2>1, <3>1 DEF Sound
    <2> QED
        BY <1>1, <1>2, <2>2 DEF IsSound
<1>4. \A h \in Handlers : handler'[h].pc \notin Applying
    BY <1>1, IdleRecord, Places
<1> QED
    BY <1>3, <1>4 DEF Accounts, IsTracked, OneApply

\* A step of an apply that touches neither manifest nor backups, and of the
\* journal only the images.
LEMMA QuietStep ==
    ASSUME Accounts, Types', NEW h \in Handlers, NEW cs \in ChangeSets,
           handler[h].cs = cs, handler[h].pc \in Applying,
           UNCHANGED <<entries, file>> \/ (Rewrites(cs) /\ Keeps(cs)),
           UNCHANGED <<manifest, backups>>, history'.request = history.request,
           NEW pc, NEW idx, NEW images, NEW record,
           Moves(h, pc, idx, images, record, handler[h].records),
           pc \in Applying =>
              /\ pc # "fill" /\ handler[h].pc # "fill"
              /\ Logged(handler'[h]) = Logged(handler[h])
              /\ pc \in {"perform", "manifest"} /\ record.backup # 0 =>
                    backups[cs][record.backup].state = "whole"
    PROVE  Accounts'
<1> DEFINE x == handler[h]
           y == handler'[h]
           e == entries[cs]
           f == file[cs]
           e2 == entries'[cs]
           f2 == file'[cs]
           m == manifest[cs]
           b == backups[cs]
           req == history.request[cs]
<1>1. Sound(e, f, m, b, req) /\ Tracks(x, e, f, m, b, req)
    BY DEF Accounts, IsSound, IsTracked
<1>2. handler' = [handler EXCEPT ![h] = y] /\ y.cs = cs /\ y.ops = x.ops
      /\ y.records = x.records /\ y.pc = pc /\ y.record = record
    BY DEF Moves, IsWith
<1>3. Local(h, cs)
    BY <1>2, RewritesLocal DEF Accounts, Types
<1>4. /\ e2.operations = e.operations /\ e2.status = e.status /\ f2 \in {f, e2}
      /\ e # NoEntry /\ e2 # NoEntry
      /\ manifest'[cs] = m /\ backups'[cs] = b /\ history'.request[cs] = req
    BY <1>1, NullsAreFresh DEF Keeps, Rewrites, Tracks
<1>5. Sound(e2, f2, m, b, req) /\ Tracks(x, e2, f2, m, b, req)
    <2> HIDE DEF x, e, f, e2, f2, m, b, req
    <2> QED
        BY <1>1, <1>4, StatusChanges
<1>6. IsSound(cs)'
    BY <1>4, <1>5 DEF IsSound
<1>7. IsTracked(h)'
    <2>1. CASE pc \notin Applying
        BY <1>2, <2>1 DEF IsTracked
    <2>2. CASE pc \in Applying
        <3>1. ManifestOf(y) = ManifestOf(x)
            BY <1>2, <2>2 DEF ManifestOf
        <3>2. pc \in {"perform", "manifest"} /\ record.backup # 0 =>
                b[record.backup].state = "whole"
            BY <2>2
        <3>3. Logged(y) = Logged(x)
            BY <2>2
        <3>4. Tracks(y, e2, f2, m, b, req)
            <4> HIDE DEF x, y, e, f, e2, f2, m, b, req
            <4> QED
                BY <1>2, <1>5, <3>1, <3>2, <3>3 DEF Tracks
        <3> QED
            BY <1>2, <1>4, <3>4 DEF IsTracked
    <2> QED
        BY <2>1, <2>2
<1> QED
    BY <1>2, <1>3, <1>6, <1>7, ApplyLocal

\* The backup of a later operation is none of the earlier records'.
LEMMA LaterBackup ==
    ASSUME NEW b \in [1 .. MaxOps -> BackupRecord], NEW n \in 1 .. MaxOps, NEW new,
           NEW rs \in Seq(RecordSet), NEW req, SoundRecords(rs, b, req), Len(rs) < n
    PROVE  SoundRecords(rs, [b EXCEPT ![n] = new], req)
<1> DEFINE b2 == [b EXCEPT ![n] = new]
<1>1. ASSUME NEW i \in 1 .. Len(rs), rs[i].backup # 0
      PROVE  b2[rs[i].backup] = b[rs[i].backup]
    <2>1. rs[i].backup = i /\ i # n /\ i \in 1 .. MaxOps
        BY <1>1, RequestForm DEF SoundRecords, Describes
    <2> QED
        BY <2>1
<1> HIDE DEF b2
<1> QED
    BY <1>1 DEF SoundRecords, b2

\* A backup is made, or torn, before its operation is in any record.
LEMMA BackupAccounts ==
    ASSUME Accounts, Types', NEW h \in Handlers, Inspect(h) \/ BackupFails(h),
           backups' # backups
    PROVE  Accounts'
<1> DEFINE x == handler[h]
           y == handler'[h]
<1>0. /\ Types /\ HandlerTypes /\ StoreTypes /\ tree \in Tree /\ x \in HandlerRecord /\ Fits(x)
    BY DEF Accounts, Types, HandlerTypes
<1>1. x.pc = "preimages" /\ x.pc \in Applying /\ x.idx <= Len(x.ops)
    BY <1>0 DEF Inspect, BackupFails, At, Fits, Applying
<1>2. PICK cs \in ChangeSets : cs = x.cs
    BY <1>0, <1>1, BusyChangeSet, Places
<1> DEFINE e == entries[cs]
           f == file[cs]
           m == manifest[cs]
           b == backups[cs]
           b2 == backups'[cs]
           req == history.request[cs]
<1>3. PICK n \in 1 .. MaxOps, new \in BackupRecord :
            /\ n = x.idx /\ (BackupFails(h) \/ new.state = "whole")
            /\ SetsBackup(cs, n, new)
    BY <1>0, <1>2, BackupStep
<1>4. b \in [1 .. MaxOps -> BackupRecord] /\ b2 = [b EXCEPT ![n] = new]
    BY <1>0, <1>2, <1>3 DEF StoreTypes, SetsBackup
<1>5. UNCHANGED <<entries, file, manifest, history>>
    BY DEF Inspect, BackupFails
<1>6. Sound(e, f, m, b, req) /\ Tracks(x, e, f, m, b, req)
    BY <1>1, <1>2 DEF Accounts, IsSound, IsTracked
<1>7. x.records \in Seq(RecordSet) /\ Len(x.records) < n
    BY <1>0, <1>1, <1>3 DEF HandlerRecord, Fits, Recorded
<1>8. m.records = x.records
    BY <1>1, <1>6 DEF Tracks, ManifestOf, NoManifest, WholeManifest
<1>9. SoundRecords(x.records, b2, req)
    <2>1. SoundRecords(x.records, b, req)
        BY <1>6 DEF Tracks
    <2> HIDE DEF x, b, b2, req
    <2> QED
        BY <1>4, <1>7, <2>1, LaterBackup
<1>10. Sound(e, f, m, b2, req)
    <2> HIDE DEF x, e, f, m, b, b2, req
    <2> QED
        BY <1>6, <1>8, <1>9 DEF Sound
<1>11. \/ GoesTo(h, "fail")
       \/ \E r : /\ Moves(h, "perform", x.idx, x.images, r, x.records)
                 /\ r.backup \in {0, n} /\ new.state = "whole"
    <2>1. CASE BackupFails(h)
        BY <1>0, <2>1, GotoMoves, Places DEF BackupFails
    <2>2. CASE Inspect(h) /\ ~BackupFails(h)
        <3>1. Op(h) \in Operation /\ Names(Op(h)) /\ x.idx \in 0 .. MaxOps
            BY <1>0, <1>1, PresentOperation
        <3>2. RecordFor(Op(h), tree, x.idx).backup \in {0, x.idx}
            BY DEF RecordFor
        <3> QED
            BY <1>0, <1>3, <2>2, <3>1, <3>2, InspectMoves
    <2> QED
        BY <2>1, <2>2
<1>12. /\ handler' = [handler EXCEPT ![h] = y] /\ y.cs = x.cs
       /\ y.ops = x.ops /\ y.idx = x.idx /\ y.records = x.records
    BY <1>11 DEF GoesTo, Moves, IsWith
<1>13. \/ y.pc = "fail"
       \/ y.pc = "perform" /\ (y.record.backup # 0 => b2[y.record.backup].state = "whole")
    <2>1. b2[n] = new
        BY <1>4
    <2> QED
        BY <1>11, <2>1 DEF GoesTo, Moves, IsWith
<1>14. Local(h, cs)
    BY <1>0, <1>2, <1>3, <1>5, <1>12 DEF Local, StoreTypes, SetsBackup
<1>15. IsSound(cs)'
    BY <1>5, <1>10 DEF IsSound
<1>16. IsTracked(h)'
    <2>1. CASE y.pc = "fail"
        BY <2>1, Places DEF IsTracked
    <2>2. CASE y.pc # "fail"
        <3>1. y.pc = "perform" /\ (y.record.backup # 0 => b2[y.record.backup].state = "whole")
            BY <1>13, <2>2
        <3>2. ManifestOf(y) = ManifestOf(x) /\ Logged(y) = Logged(x)
            BY <1>1, <1>12, <3>1 DEF ManifestOf, Logged
        <3>3. Tracks(y, e, f, m, b2, req)
            <4> HIDE DEF x, y, e, f, m, b, b2, req
            <4> QED
                BY <1>6, <1>9, <1>12, <3>1, <3>2 DEF Tracks
        <3> QED
            BY <1>2, <1>5, <1>12, <3>3 DEF IsTracked
    <2> QED
        BY <2>1, <2>2
<1> QED
    BY <1>1, <1>2, <1>12, <1>14, <1>15, <1>16, ApplyLocal

\* persistRollbackManifest truncates the manifest: until it is filled the
\* records are known to the apply only.
LEMMA TruncateAccounts ==
    ASSUME Accounts, Types', NEW h \in Handlers, TruncateManifest(h)
    PROVE  Accounts'
<1> DEFINE x == handler[h]
           y == handler'[h]
           rs == Append(x.records, x.record)
<1>0. /\ Types /\ HandlerTypes /\ StoreTypes /\ x \in HandlerRecord /\ Fits(x)
    BY DEF Accounts, Types, HandlerTypes
<1>1. x.pc = "manifest" /\ x.pc \in Applying /\ x.idx <= Len(x.ops)
    BY <1>0 DEF TruncateManifest, At, Fits, Applying
<1>2. PICK cs \in ChangeSets : cs = x.cs
    BY <1>0, <1>1, BusyChangeSet, Places
<1> DEFINE e == entries[cs]
           f == file[cs]
           m == manifest[cs]
           b == backups[cs]
           req == history.request[cs]
<1>3. UNCHANGED <<entries, file, backups, history>>
    BY DEF TruncateManifest
<1>4. manifest' = [manifest EXCEPT ![cs] = TornManifest]
    BY <1>2 DEF TruncateManifest
<1>5. Sound(e, f, m, b, req) /\ Tracks(x, e, f, m, b, req)
    BY <1>1, <1>2 DEF Accounts, IsSound, IsTracked
<1>6. x.record \in RecordSet /\ Describes(x.record, x.ops[x.idx], x.idx)
      /\ Len(x.records) = x.idx - 1 /\ x.idx \in Nat /\ x.idx >= 1
    BY <1>0, <1>1 DEF Fits, Recorded, Applying, HandlerRecord
<1>7. /\ handler' = [handler EXCEPT ![h] = y] /\ y.cs = x.cs /\ y.pc = "fill"
      /\ y.ops = x.ops /\ y.idx = x.idx /\ y.records = rs
    BY <1>0, <1>6, TruncateMoves DEF Moves, IsWith
<1>8. SoundRecords(rs, b, req)
    <2>1. x.records \in Seq(RecordSet) /\ SoundRecords(x.records, b, req) /\ x.ops = req
        BY <1>0, <1>5 DEF HandlerRecord, Tracks
    <2>2. x.record.backup # 0 => b[x.record.backup].state = "whole"
        BY <1>1, <1>5 DEF Tracks
    <2>3. Len(rs) = x.idx /\ rs[x.idx] = x.record
          /\ \A i \in 1 .. x.idx - 1 : rs[i] = x.records[i]
        BY <1>6, <2>1
    <2> HIDE DEF x, rs, b, req
    <2> QED
        BY <1>1, <1>6, <2>1, <2>2, <2>3, SMTT(30) DEF SoundRecords
<1>9. SoundRecords(TornManifest.records, b, req)
    BY <1>5 DEF SoundRecords, TornManifest, Tracks, Sound
<1>10. Sound(e, f, TornManifest, b, req)
    <2> HIDE DEF x, e, f, m, b, req
    <2>1. TornManifest.state = "torn"
        BY DEF TornManifest
    <2>2. SoundLog(e, TornManifest, req) /\ SoundLog(f, TornManifest, req)
        BY <1>5, <2>1 DEF Sound, Tracks, SoundLog
    <2> QED
        BY <1>5, <1>9, <2>2 DEF Sound, Tracks
<1>11. Local(h, cs)
    BY <1>0, <1>2, <1>3, <1>4, <1>7 DEF Local, StoreTypes
<1>12. manifest'[cs] = TornManifest
    BY <1>0, <1>4 DEF StoreTypes
<1>13. IsSound(cs)'
    BY <1>3, <1>10, <1>12 DEF IsSound
<1>14. Tracks(y, e, f, TornManifest, b, req)
    <2>1. ManifestOf(y) = TornManifest /\ Logged(y) = Logged(x)
        BY <1>1, <1>7 DEF ManifestOf, Logged
    <2> HIDE DEF x, y, rs, e, f, m, b, req
    <2> QED
        BY <1>5, <1>7, <1>8, <2>1 DEF Tracks
<1>15. IsTracked(h)'
    BY <1>2, <1>3, <1>7, <1>12, <1>14 DEF IsTracked
<1> QED
    BY <1>1, <1>2, <1>7, <1>11, <1>13, <1>15, ApplyLocal

\* A manifest that was filled has every record the apply has.
LEMMA FillAccounts ==
    ASSUME Accounts, Types', NEW h \in Handlers, FillManifest(h, TRUE)
    PROVE  Accounts'
<1> DEFINE x == handler[h]
           y == handler'[h]
           w == WholeManifest(x.records)
<1>0. /\ Types /\ HandlerTypes /\ StoreTypes /\ x \in HandlerRecord /\ Fits(x)
    BY DEF Accounts, Types, HandlerTypes
<1>1. x.pc = "fill" /\ x.pc \in Applying /\ x.idx <= Len(x.ops)
    BY <1>0 DEF FillManifest, At, Fits, Applying
<1>2. PICK cs \in ChangeSets : cs = x.cs
    BY <1>0, <1>1, BusyChangeSet, Places
<1> DEFINE e == entries[cs]
           f == file[cs]
           m == manifest[cs]
           b == backups[cs]
           req == history.request[cs]
<1>3. UNCHANGED <<entries, file, backups, history>>
    BY DEF FillManifest
<1>4. manifest' = [manifest EXCEPT ![cs] = w]
    BY <1>0, <1>2, FillStep
<1>5. Sound(e, f, m, b, req) /\ Tracks(x, e, f, m, b, req)
    BY <1>1, <1>2 DEF Accounts, IsSound, IsTracked
<1>6. Len(x.records) = x.idx /\ x.idx \in Nat /\ x.idx >= 1 /\ x.records \in Seq(RecordSet)
    BY <1>0, <1>1 DEF Fits, Recorded, Applying, HandlerRecord
<1>7. /\ handler' = [handler EXCEPT ![h] = y] /\ y.cs = x.cs /\ y.pc = "record"
      /\ y.ops = x.ops /\ y.idx = x.idx /\ y.records = x.records
    BY <1>0, GotoMoves, Places DEF FillManifest, AfterFill, GoesTo, Moves, IsWith
<1>8. w.state = "whole" /\ w.records = x.records
    BY DEF WholeManifest
<1>9. e \in ChangeSetEntry /\ f \in ChangeSetEntry
    BY <1>0, <1>5 DEF Types, JournalTypeOK, Sound, Tracks
<1>10. Sound(e, f, w, b, req)
    <2>1. Len(e.operations) = x.idx - 1
        BY <1>1, <1>5 DEF Tracks, Logged
    <2> HIDE DEF x, e, f, m, b, req, w
    <2>2. Len(f.operations) <= Len(e.operations) /\ Len(e.operations) <= Len(w.records)
          /\ Len(f.operations) <= Len(w.records)
        <3>1. Len(f.operations) \in Nat
            BY <1>9 DEF ChangeSetEntry
        <3>2. Len(f.operations) <= Len(e.operations)
            BY <1>5 DEF Sound, Tracks
        <3> QED
            BY <1>6, <1>8, <2>1, <3>1, <3>2
    <2>3. SoundLog(e, w, req) /\ SoundLog(f, w, req)
        BY <1>5, <2>2 DEF Sound, Tracks, SoundLog
    <2> QED
        BY <1>5, <1>8, <2>2, <2>3 DEF Sound, Tracks
<1>11. Local(h, cs)
    BY <1>0, <1>2, <1>3, <1>4, <1>7 DEF Local, StoreTypes
<1>12. manifest'[cs] = w
    BY <1>0, <1>4 DEF StoreTypes
<1>13. IsSound(cs)'
    BY <1>3, <1>10, <1>12 DEF IsSound
<1>14. Tracks(y, e, f, w, b, req)
    <2>1. ManifestOf(y) = w /\ Logged(y) = Logged(x)
        BY <1>1, <1>6, <1>7 DEF ManifestOf, Logged
    <2> HIDE DEF x, y, e, f, m, b, req, w
    <2> QED
        BY <1>5, <1>7, <2>1 DEF Tracks
<1>15. IsTracked(h)'
    BY <1>2, <1>3, <1>7, <1>12, <1>14 DEF IsTracked
<1> QED
    BY <1>1, <1>2, <1>7, <1>11, <1>13, <1>15, ApplyLocal

\* An operation is recorded when its record is in the manifest.
LEMMA RecordAccounts ==
    ASSUME Accounts, Types', NEW h \in Handlers, NEW ok \in BOOLEAN, RecordOperation(h, ok)
    PROVE  Accounts'
<1> DEFINE x == handler[h]
           y == handler'[h]
           op == [type |-> Op(h).type, path |-> Op(h).path]
<1>0. /\ Types /\ JournalTypeOK /\ HandlerTypes /\ x \in HandlerRecord /\ Fits(x)
    BY DEF Accounts, Types, HandlerTypes
<1>1. x.pc = "record" /\ x.pc \in Applying /\ x.idx <= Len(x.ops)
    BY <1>0 DEF RecordOperation, At, Fits, Applying
<1>2. PICK cs \in ChangeSets : cs = x.cs
    BY <1>0, <1>1, BusyChangeSet, Places
<1> DEFINE e == entries[cs]
           f == file[cs]
           e2 == entries'[cs]
           f2 == file'[cs]
           m == manifest[cs]
           b == backups[cs]
           req == history.request[cs]
<1>3. UNCHANGED <<manifest, backups, history>>
    BY DEF RecordOperation
<1>4. /\ Rewrites(cs) /\ e2.operations = Append(e.operations, op) /\ e2.status = e.status
    BY <1>0, <1>2, RecordStep
<1>5. Sound(e, f, m, b, req) /\ Tracks(x, e, f, m, b, req)
    BY <1>1, <1>2 DEF Accounts, IsSound, IsTracked
<1>6. Len(x.records) = x.idx /\ x.idx \in Nat /\ x.idx >= 1
    BY <1>0, <1>1 DEF Fits, Recorded, Applying, HandlerRecord
<1>7. Op(h) \in Operation /\ Op(h) = x.ops[x.idx]
    BY <1>0, <1>1, PresentOperation DEF Op
<1>8. \E pc \in {"postimages", "fail"} :
            Moves(h, pc, x.idx, NamedPaths(Op(h)), x.record, x.records)
    BY <1>0, <1>7, NamedMoves, Places DEF RecordOperation
<1>9. /\ handler' = [handler EXCEPT ![h] = y] /\ y.cs = x.cs /\ y.pc \in {"postimages", "fail"}
      /\ y.ops = x.ops /\ y.idx = x.idx /\ y.records = x.records
    BY <1>8 DEF Moves, IsWith
<1>10. e \in ChangeSetEntry /\ e2 # NoEntry /\ f2 \in {f, e2}
    BY <1>4, NullsAreFresh DEF Rewrites
<1>11. m.state = "whole" /\ m.records = x.records
    BY <1>1, <1>5, <1>6 DEF Tracks, ManifestOf, WholeManifest
<1>12. /\ e.operations \in Seq(OperationEntry) /\ Len(e.operations) = x.idx - 1
       /\ Len(e2.operations) = x.idx /\ e2.operations[x.idx] = op
       /\ \A i \in 1 .. x.idx - 1 : e2.operations[i] = e.operations[i]
    <2>1. e.operations \in Seq(OperationEntry) /\ Len(e.operations) = x.idx - 1
        BY <1>1, <1>5, <1>10 DEF ChangeSetEntry, Tracks, Logged
    <2> HIDE DEF x, e, e2, op
    <2> QED
        BY <1>4, <1>6, <2>1
<1>13. SameOperation(op, req[x.idx]) /\ x.ops = req
    BY <1>5, <1>7 DEF SameOperation, Tracks
<1>14. SoundLog(e2, m, req)
    <2> HIDE DEF x, e, f, e2, f2, m, b, req, op
    <2>1. \A i \in 1 .. x.idx : SameOperation(e2.operations[i], req[i])
        BY <1>5, <1>6, <1>12, <1>13, SMTT(30) DEF Sound, Tracks, SoundLog
    <2>2. e2.status # "completed"
        BY <1>4, <1>5 DEF Tracks
    <2> QED
        BY <1>1, <1>6, <1>11, <1>12, <1>13, <2>1, <2>2 DEF SoundLog
<1>15. SoundLog(f, m, req) /\ f # NoEntry /\ Len(f.operations) <= Len(e.operations)
    BY <1>5 DEF Sound, Tracks
<1>16. f \in ChangeSetEntry
    BY <1>0, <1>15 DEF JournalTypeOK
<1>17. Sound(e2, f2, m, b, req)
    <2> HIDE DEF x, e, f, e2, f2, m, b, req, op
    <2>1. Len(f.operations) <= Len(e2.operations) /\ Len(e2.operations) <= Len(e2.operations)
        <3>1. Len(f.operations) \in Nat
            BY <1>16 DEF ChangeSetEntry
        <3> QED
            BY <1>6, <1>12, <1>15, <3>1
    <2> QED
        BY <1>5, <1>10, <1>14, <1>15, <2>1, NullsAreFresh DEF Sound
<1>18. Local(h, cs)
    BY <1>0, <1>3, <1>4, <1>9, RewritesLocal
<1>19. IsSound(cs)'
    BY <1>3, <1>17 DEF IsSound
<1>20. IsTracked(h)'
    <2>1. CASE y.pc = "fail"
        BY <2>1, Places DEF IsTracked
    <2>2. CASE y.pc = "postimages"
        <3>1. ManifestOf(y) = ManifestOf(x) /\ Logged(y) = x.idx
            BY <1>1, <1>9, <2>2 DEF ManifestOf, Logged
        <3>2. Tracks(y, e2, f2, m, b, req)
            <4> HIDE DEF x, y, e, f, e2, f2, m, b, req, op
            <4> QED
                BY <1>4, <1>5, <1>9, <1>10, <1>12, <2>2, <3>1 DEF Tracks
        <3> QED
            BY <1>2, <1>3, <1>9, <3>2 DEF IsTracked
    <2> QED
        BY <1>9, <2>1, <2>2
<1> QED
    BY <1>1, <1>2, <1>9, <1>18, <1>19, <1>20, ApplyLocal

\* Complete is called after the last operation only.
LEMMA CompleteAccounts ==
    ASSUME Accounts, Types', NEW h \in Handlers, NEW ok \in BOOLEAN, ApplyComplete(h, ok)
    PROVE  Accounts'
<1> DEFINE x == handler[h]
<1>0. /\ Types /\ JournalTypeOK /\ HandlerTypes /\ x \in HandlerRecord /\ Fits(x)
    BY DEF Accounts, Types, HandlerTypes
<1>1. x.pc = "next" /\ x.pc \in Applying /\ x.idx = Len(x.ops) + 1
    BY <1>0 DEF ApplyComplete, At, LoopEnds, Fits, Applying, HandlerRecord
<1>2. PICK cs \in ChangeSets : cs = x.cs
    BY <1>0, <1>1, BusyChangeSet, Places
<1> DEFINE e == entries[cs]
           f == file[cs]
           e2 == entries'[cs]
           f2 == file'[cs]
           m == manifest[cs]
           b == backups[cs]
           req == history.request[cs]
<1>3. UNCHANGED <<manifest, backups, history>> /\ Return(h) /\ Complete(cs, ok)
    BY <1>2 DEF ApplyComplete
<1>4. Rewrites(cs) /\ e2.operations = e.operations /\ e2.status = "completed"
    BY <1>0, <1>3, SettleRewrites DEF Complete, Status
<1>5. Sound(e, f, m, b, req) /\ Tracks(x, e, f, m, b, req)
    BY <1>1, <1>2 DEF Accounts, IsSound, IsTracked
<1>6. Len(x.records) = Len(x.ops) /\ x.ops = req /\ req # <<>> /\ req \in Seq(NamedOperation)
    BY <1>0, <1>1, <1>5 DEF Fits, Recorded, Applying, HandlerRecord, Tracks
<1>7. x.records # <<>>
    BY <1>0, <1>6 DEF HandlerRecord
<1>8. m.state = "whole" /\ Len(m.records) = Len(req)
    BY <1>1, <1>5, <1>6, <1>7 DEF Tracks, ManifestOf, WholeManifest
<1>9. Len(e.operations) = Len(req)
    BY <1>1, <1>5, <1>6 DEF Tracks, Logged
<1>10. e2 # NoEntry /\ f2 \in {f, e2}
    BY <1>4, NullsAreFresh DEF Rewrites
<1>11. Sound(e2, f2, m, b, req)
    <2> HIDE DEF x, e, f, e2, f2, m, b, req
    <2>1. SoundLog(e2, m, req)
        BY <1>4, <1>5, <1>8, <1>9 DEF Sound, Tracks, SoundLog
    <2>2. Len(f.operations) <= Len(e2.operations) /\ SoundLog(f, m, req) /\ f # NoEntry
          /\ Len(e2.operations) <= Len(e2.operations)
        BY <1>4, <1>5, <1>6, <1>9 DEF Sound, Tracks
    <2> QED
        BY <1>5, <1>10, <2>1, <2>2 DEF Sound
<1>12. handler' = [handler EXCEPT ![h] = handler'[h]] /\ handler'[h].pc = "idle"
    BY <1>0, <1>3, OneMoves, IdleRecord DEF Return
<1>13. Local(h, cs)
    BY <1>0, <1>3, <1>4, <1>12, RewritesLocal
<1>14. IsSound(cs)'
    BY <1>3, <1>11 DEF IsSound
<1>15. IsTracked(h)'
    BY <1>12, Places DEF IsTracked
<1> QED
    BY <1>1, <1>2, <1>12, <1>13, <1>14, <1>15, ApplyLocal

\* Each step of an apply.
LEMMA ApplyAccounts ==
    ASSUME Accounts, Types', NEW h \in Handlers, ApplyStep(h)
    PROVE  Accounts'
<1> DEFINE x == handler[h]
<1>0. /\ Types /\ JournalTypeOK /\ HandlerTypes /\ StoreTypes /\ tree \in Tree
      /\ x \in HandlerRecord /\ Fits(x)
    BY DEF Accounts, Types, HandlerTypes
<1>1. history'.request = history.request
    BY RequestsKept DEF Accounts, Types
<1>2. x.pc \in Applying
    BY DEF ApplyStep, MakeBackupDirectory, StorePreimage, StorePostimage, FillManifest,
        RecordOperation, ApplyComplete, DeadlinePassed, NextOperation, Inspect, BackupFails,
        Perform, PerformFails, TruncateManifest, OperationDone, At, Applying
<1>3. PICK cs \in ChangeSets : cs = x.cs
    BY <1>0, <1>2, BusyChangeSet, Places
<1>4. Tracks(x, entries[cs], file[cs], manifest[cs], backups[cs], history.request[cs])
    BY <1>2, <1>3 DEF Accounts, IsTracked
<1>5. ASSUME GoesTo(h, "fail"), UNCHANGED <<entries, file, manifest, backups>> PROVE Accounts'
    <2>1. Moves(h, "fail", x.idx, x.images, x.record, x.records)
        BY <1>5 DEF GoesTo
    <2> QED
        BY <1>1, <1>2, <1>3, <1>5, <2>1, QuietStep, Places
<1>6. ASSUME NEW ok \in BOOLEAN, MakeBackupDirectory(h, ok) PROVE Accounts'
    <2>1. x.pc = "mkdir" /\ UNCHANGED <<entries, file, manifest, backups>>
        BY <1>6 DEF MakeBackupDirectory, At
    <2>2. GoesTo(h, "next") \/ GoesTo(h, "fail")
        BY <1>0, <1>6, GotoMoves, Places DEF MakeBackupDirectory
    <2>3. CASE GoesTo(h, "next")
        <3>1. Moves(h, "next", x.idx, x.images, x.record, x.records)
            BY <2>3 DEF GoesTo
        <3>2. Logged(handler'[h]) = Logged(x)
            BY <2>1, <3>1 DEF Moves, IsWith, Logged
        <3> QED
            BY <1>1, <1>2, <1>3, <2>1, <3>1, <3>2, QuietStep
    <2> QED
        BY <1>5, <2>1, <2>2, <2>3
<1>7. ASSUME NEW ok \in BOOLEAN, StorePreimage(h, ok) \/ StorePostimage(h, ok)
      PROVE  Accounts'
    <2>1. x.pc \in {"preimages", "postimages"} /\ x.images # <<>> /\ ImageNext(h)
          /\ UNCHANGED <<manifest, backups>>
        BY <1>7 DEF StorePreimage, StorePostimage, At
    <2>2. Moves(h, x.pc, x.idx, Tail(x.images), x.record, x.records)
        BY <1>0, <2>1, ImageMoves
    <2>3. UNCHANGED <<entries, file>> \/ (Rewrites(cs) /\ Keeps(cs))
        BY <1>0, <1>3, <1>7, ImageStep
    <2>4. Logged(handler'[h]) = Logged(x)
        BY <2>2 DEF Moves, IsWith, Logged
    <2> QED
        BY <1>1, <1>2, <1>3, <2>1, <2>2, <2>3, <2>4, QuietStep
<1>8. ASSUME NEW ok \in BOOLEAN, FillManifest(h, ok) PROVE Accounts'
    <2>1. CASE ok = TRUE
        BY <1>8, <2>1, FillAccounts
    <2>2. CASE ok = FALSE
        <3>1. UNCHANGED <<entries, file, manifest, backups>> /\ GoesTo(h, "fail")
            BY <1>0, <1>8, <2>2, FillStep, GotoMoves, Places DEF FillManifest, AfterFill
        <3> QED
            BY <1>5, <3>1
    <2> QED
        BY <2>1, <2>2
<1>9. CASE DeadlinePassed(h)
    BY <1>0, <1>5, <1>9, GotoMoves, Places DEF DeadlinePassed
<1>10. CASE NextOperation(h)
    <2>1. x.pc = "next" /\ x.idx <= Len(x.ops) /\ UNCHANGED <<entries, file, manifest, backups>>
        BY <1>0, <1>10 DEF NextOperation, At, LoopEnds, HandlerRecord
    <2>2. Op(h) \in Operation
        BY <1>0, <1>2, <2>1, PresentOperation
    <2>3. Moves(h, "preimages", x.idx, NamedPaths(Op(h)), x.record, x.records)
        BY <1>0, <1>10, <2>2, NamedMoves, Places DEF NextOperation
    <2>4. Logged(handler'[h]) = Logged(x)
        BY <2>1, <2>3 DEF Moves, IsWith, Logged
    <2> QED
        BY <1>1, <1>2, <1>3, <2>1, <2>3, <2>4, QuietStep
<1>11. CASE Inspect(h) /\ UNCHANGED backups
    <2>1. x.pc = "preimages" /\ UNCHANGED <<entries, file, manifest, backups>>
        BY <1>11 DEF Inspect, At
    <2>2. x.idx <= Len(x.ops)
        BY <1>0, <2>1 DEF Fits, Applying
    <2>3. /\ Op(h) \in Operation /\ Names(Op(h))
          /\ x.idx \in 0 .. MaxOps /\ x.idx \in 1 .. MaxOps
        BY <1>0, <1>2, <2>2, PresentOperation
    <2> DEFINE r == RecordFor(Op(h), tree, x.idx)
               new == [state |-> "whole", data |-> tree[Op(h).path].data]
    <2>4. \/ GoesTo(h, "fail")
          \/ /\ Moves(h, "perform", x.idx, x.images, r, x.records)
             /\ r.backup # 0 => SetsBackup(cs, r.backup, new)
        BY <1>0, <1>3, <1>11, <2>3, InspectMoves DEF SetsBackup
    <2>5. r.backup # 0 => r.backup \in 1 .. MaxOps
        BY <2>3 DEF RecordFor
    <2>6. CASE Moves(h, "perform", x.idx, x.images, r, x.records) /\ ~GoesTo(h, "fail")
        <3>1. r.backup # 0 => backups[cs][r.backup].state = "whole"
            <4>1. new.state = "whole"
                OBVIOUS
            <4>2. r.backup # 0 => SetsBackup(cs, r.backup, new)
                BY <2>4, <2>6
            <4> HIDE DEF r, new
            <4>3. ASSUME r.backup # 0 PROVE backups'[cs][r.backup] = new
                <5>1. PICK n \in 1 .. MaxOps : n = r.backup
                    BY <2>5, <4>3
                <5>2. backups' = [backups EXCEPT ![cs][n] = new]
                    BY <4>2, <4>3, <5>1, Zenon DEF SetsBackup
                <5>3. backups[cs] \in [1 .. MaxOps -> BackupRecord] /\ cs \in DOMAIN backups
                    BY <1>0 DEF StoreTypes
                <5>4. backups'[cs] = [backups[cs] EXCEPT ![n] = new]
                    BY <5>2, <5>3
                <5> QED
                    BY <5>1, <5>3, <5>4
            <4> QED
                BY <1>11, <4>1, <4>3
        <3>2. Logged(handler'[h]) = Logged(x)
            BY <2>1, <2>6 DEF Moves, IsWith, Logged
        <3> HIDE DEF r
        <3> QED
            BY <1>1, <1>2, <1>3, <2>1, <2>6, <3>1, <3>2, QuietStep
    <2> QED
        BY <1>5, <2>1, <2>4, <2>6
<1>12. CASE (Inspect(h) \/ BackupFails(h)) /\ backups' # backups
    BY <1>12, BackupAccounts
<1>13. CASE BackupFails(h) /\ UNCHANGED backups
    BY <1>0, <1>5, <1>13, GotoMoves, Places DEF BackupFails
<1>14. CASE Perform(h) \/ PerformFails(h)
    <2>1. x.pc = "perform" /\ UNCHANGED <<entries, file, manifest, backups>>
        BY <1>14 DEF Perform, PerformFails, At
    <2>2. GoesTo(h, "manifest") \/ GoesTo(h, "fail")
        BY <1>0, <1>14, GotoMoves, Places DEF Perform, PerformFails
    <2>3. CASE GoesTo(h, "manifest")
        <3>1. Moves(h, "manifest", x.idx, x.images, x.record, x.records)
            BY <2>3 DEF GoesTo
        <3>2. Logged(handler'[h]) = Logged(x)
            BY <2>1, <3>1 DEF Moves, IsWith, Logged
        <3>3. x.record.backup # 0 => backups[cs][x.record.backup].state = "whole"
            BY <1>4, <2>1 DEF Tracks
        <3> QED
            BY <1>1, <1>2, <1>3, <2>1, <3>1, <3>2, <3>3, QuietStep
    <2> QED
        BY <1>5, <2>1, <2>2, <2>3
<1>15. CASE TruncateManifest(h)
    BY <1>15, TruncateAccounts
<1>16. ASSUME NEW ok \in BOOLEAN, RecordOperation(h, ok) PROVE Accounts'
    BY <1>16, RecordAccounts
<1>17. CASE OperationDone(h)
    <2>1. x.pc = "postimages" /\ x.idx \in Nat /\ UNCHANGED <<entries, file, manifest, backups>>
        BY <1>0, <1>17 DEF OperationDone, At, HandlerRecord
    <2>2. Moves(h, "next", x.idx + 1, x.images, NoRecord, x.records)
        BY <1>0, <1>17, DoneMoves
    <2>3. Logged(handler'[h]) = Logged(x)
        BY <2>1, <2>2 DEF Moves, IsWith, Logged
    <2> QED
        BY <1>1, <1>2, <1>3, <2>1, <2>2, <2>3, QuietStep
<1>18. ASSUME NEW ok \in BOOLEAN, ApplyComplete(h, ok) PROVE Accounts'
    BY <1>18, CompleteAccounts
<1> QED
    BY <1>6, <1>7, <1>8, <1>9, <1>10, <1>11, <1>12, <1>13, <1>14, <1>15, <1>16, <1>17, <1>18
    DEF ApplyStep

\* Nothing has begun.
LEMMA AccountsInit == Init => Accounts
<1> SUFFICES ASSUME Init PROVE Accounts
    OBVIOUS
<1>1. Types
    BY TypesInit
<1>2. ASSUME NEW cs \in ChangeSets PROVE IsSound(cs)
    <2>1. /\ entries[cs] = NoEntry /\ file[cs] = NoEntry /\ manifest[cs] = NoManifest
          /\ history.request[cs] = <<>>
        BY DEF Init, JournalInit
    <2> QED
        BY <2>1 DEF IsSound, Sound, SoundRecords, NoManifest
<1>3. \A h \in Handlers : handler[h].pc \notin Applying
    BY IdleRecord, Places DEF Init
<1> QED
    BY <1>1, <1>2, <1>3 DEF Accounts, IsTracked, OneApply

(***************************************************************************)
(* Backup, manifest and journal are written in this order, and the apply   *)
(* in progress has each where its place says, while others roll the same   *)
(* change set back and the process restarts at any point.                  *)
(***************************************************************************)
THEOREM AccountsHold == Spec => []Accounts
<1>1. Accounts /\ Types' /\ [Next]_vars => Accounts'
    <2> SUFFICES ASSUME Accounts, Types', [Next]_vars PROVE Accounts'
        OBVIOUS
    <2>1. CASE UNCHANGED vars
        BY <2>1, AccountsKept DEF vars, bridgeVars
    <2>2. CASE CallApply(Requests)
        BY <2>2, BeginStep DEF CallApply
    <2>3. CASE HandlersOrCrash
        BY <2>3, ApplyAccounts, OtherSteps, CrashStep DEF HandlersOrCrash
    <2> QED
        BY <2>1, <2>2, <2>3 DEF Next
<1> QED
    BY <1>1, AccountsInit, TypesHold, PTL DEF Spec

\* What the accounts say of one image of the journal.
LEMMA SoundImage ==
    ASSUME Accounts, NEW cs \in ChangeSets, NEW image \in {entries, file}, image[cs] # NoEntry
    PROVE  /\ SoundLog(image[cs], manifest[cs], history.request[cs])
           /\ SoundRecords(manifest[cs].records, backups[cs], history.request[cs])
BY DEF Accounts, IsSound, Sound

(***************************************************************************)
(* An operation the journal lists as reversible has its record in the      *)
(* manifest, unless that is torn, and its backup is whole (patchApply).    *)
(***************************************************************************)
THEOREM ReversibleStaysUndoable == Spec => []ReversibleIsUndoable
<1>1. Accounts => ReversibleIsUndoable
    <2> SUFFICES ASSUME Accounts, NEW cs \in ChangeSets, NEW image \in {entries, file},
                        image[cs] # NoEntry, manifest[cs].state # "torn",
                        NEW i \in 1 .. Len(image[cs].operations)
                 PROVE  /\ i <= Len(manifest[cs].records)
                        /\ SameOperation(manifest[cs].records[i], image[cs].operations[i])
                        /\ manifest[cs].records[i].backup # 0 =>
                            backups[cs][manifest[cs].records[i].backup].state = "whole"
        BY DEF ReversibleIsUndoable
    <2> DEFINE ops == image[cs].operations
               rs == manifest[cs].records
               req == history.request[cs]
    <2>1. /\ Len(ops) <= Len(req) /\ SameOperation(ops[i], req[i]) /\ Len(ops) <= Len(rs)
          /\ Len(rs) <= Len(req)
          /\ \A j \in 1 .. Len(rs) : /\ SameOperation(rs[j], req[j])
                                     /\ rs[j].backup # 0 => backups[cs][rs[j].backup].state = "whole"
        BY SoundImage DEF SoundLog, SoundRecords, Describes
    <2>2. Len(ops) \in Nat /\ Len(rs) \in Nat
        <3>1. image[cs] \in ChangeSetEntry
            BY DEF Accounts, Types, JournalTypeOK
        <3>2. manifest[cs] \in ManifestRecord
            BY DEF Accounts, Types, StoreTypes
        <3> QED
            BY <3>1, <3>2 DEF ChangeSetEntry, ManifestRecord
    <2> HIDE DEF ops, rs, req
    <2>3. i \in 1 .. Len(rs)
        BY <2>1, <2>2 DEF ops
    <2> QED
        BY <2>1, <2>3 DEF SameOperation, ops, rs
<1> QED
    BY <1>1, AccountsHold, PTL

(***************************************************************************)
(* A change set the journal calls completed has every operation of its     *)
(* request in journal and manifest (patchApply, Complete).                 *)
(***************************************************************************)
THEOREM CompletedStaysRecorded == Spec => []CompletedIsRecorded
<1>1. Accounts => CompletedIsRecorded
    <2> SUFFICES ASSUME Accounts, NEW cs \in ChangeSets, NEW image \in {entries, file},
                        image[cs] # NoEntry, image[cs].status = "completed"
                 PROVE  LET request == history.request[cs]
                        IN /\ Len(image[cs].operations) = Len(request)
                           /\ manifest[cs].state = "whole"
                           /\ Len(manifest[cs].records) = Len(request)
                           /\ \A i \in 1 .. Len(request) :
                                /\ SameOperation(image[cs].operations[i], request[i])
                                /\ SameOperation(manifest[cs].records[i], request[i])
        BY DEF CompletedIsRecorded
    <2> QED
        BY SoundImage DEF SoundLog, SoundRecords, Describes
<1> QED
    BY <1>1, AccountsHold, PTL

----------------------------------------------------------------------------
(***************************************************************************)
(* What the history remembers.  The change sets in its stack have begun,   *)
(* each once; a busy call there is alone and has the last of them, or      *)
(* rolls the change set undone last back once more.                        *)
(***************************************************************************)
StackForm ==
    /\ history.before \in [ChangeSets -> Tree]
    /\ history.stack \in Seq(ChangeSets)
    /\ \A i, j \in 1 .. Len(history.stack) : history.stack[i] = history.stack[j] => i = j
    /\ \A i \in 1 .. Len(history.stack) :
        Known(history.stack[i]) /\ history.stack[i] # history.undone
    /\ history.undone \in ChangeSets \cup {NoEntry}
    /\ history.undone # NoEntry => history.undone \in history.tried
    /\ history.retried \subseteq history.tried

InOrder(h) ==
    handler[h].pc # "idle" =>
        /\ history.stack # <<>> => Alone(h) /\ OnTop(handler[h].cs)
        /\ history.undone # NoEntry =>
            /\ Alone(h) /\ handler[h].pc \notin Applying
            /\ handler[h].cs = history.undone /\ handler[h].cs \in history.retried

\* A rollback is remembered from its start.
TriedForm ==
    /\ \A h \in Handlers : handler[h].pc = "undo" => handler[h].cs \in history.tried
    /\ \A cs \in ChangeSets : \A image \in {entries, file} :
        image[cs] # NoEntry /\ image[cs].status = "rolled_back" => cs \in history.tried

Stacked == StackForm /\ (\A h \in Handlers : InOrder(h)) /\ TriedForm

\* A step of a busy call, on its own change set.
Proceeds(h) ==
    /\ handler[h].pc # "idle"
    /\ handler' = [handler EXCEPT ![h] = handler'[h]]
    /\ handler'[h].pc # "idle" => handler'[h].cs = handler[h].cs
    /\ handler'[h].pc = "undo" => handler[h].pc = "undo"
    /\ handler[h].pc \notin Applying => handler'[h].pc \notin Applying

\* The journal knows the same change sets, and calls no other rolled back.
SameKnown ==
    /\ \A cs \in ChangeSets : entries[cs] # NoEntry => entries'[cs] # NoEntry
    /\ \A cs \in ChangeSets : \A image \in {entries', file'} :
        image[cs] # NoEntry /\ image[cs].status = "rolled_back" =>
            \/ cs \in history'.tried
            \/ \E old \in {entries, file} : old[cs] # NoEntry /\ old[cs].status = "rolled_back"

SameStack ==
    /\ history'.before = history.before /\ history'.stack = history.stack
    /\ history'.undone = history.undone
    /\ history'.tried = history.tried /\ history'.retried = history.retried

\* What each of the calls that remember something leaves in the history.
LEMMA ResidueFields ==
    ASSUME HistoryTypes, NEW css, RememberResidue(css)
    PROVE  SameStack /\ history'.residue = history.residue \cup css
<1> DEFINE r == history.residue \cup css
<1>1. history' = [history EXCEPT !.residue = r]
    BY DEF RememberResidue
<1> HIDE DEF r
<1> QED
    BY <1>1 DEF HistoryTypes, SameStack, r

\* A change set that begins,
LEMMA BeginFields ==
    ASSUME HistoryTypes, NEW h, NEW cs, NEW request, RememberBegin(h, cs, request)
    PROVE  /\ history'.before = [history.before EXCEPT ![cs] = tree]
           /\ history'.stack = IF Alone(h) THEN Append(history.stack, cs) ELSE <<>>
           /\ history'.undone = NoEntry
           /\ history'.residue = history.residue
           /\ history'.tried = history.tried /\ history'.retried = history.retried
<1> DEFINE b == [history.before EXCEPT ![cs] = tree]
           q == [history.request EXCEPT ![cs] = request]
           st == IF Alone(h) THEN Append(history.stack, cs) ELSE <<>>
<1>1. history' = [history EXCEPT !.before = b, !.request = q, !.stack = st, !.undone = NoEntry]
    BY DEF RememberBegin
<1> HIDE DEF b, q, st
<1>2. /\ history'.before = b /\ history'.stack = st /\ history'.undone = NoEntry
      /\ history'.residue = history.residue
      /\ history'.tried = history.tried /\ history'.retried = history.retried
    BY <1>1 DEF HistoryTypes
<1> QED
    BY <1>2 DEF b, st

\* a rollback that starts,
LEMMA RollbackFields ==
    ASSUME HistoryTypes, NEW h, NEW cs, RememberRollback(h, cs)
    PROVE  /\ history'.before = history.before /\ history'.residue = history.residue
           /\ history'.tried = history.tried \cup {cs}
           /\ history'.retried = IF cs \in history.tried THEN history.retried \cup {cs}
                                 ELSE history.retried
           /\ history'.stack = IF Alone(h) /\ OnTop(cs) THEN history.stack ELSE <<>>
           /\ history'.undone = IF Alone(h) /\ history.undone = cs THEN history.undone ELSE NoEntry
<1> DEFINE t == history.tried \cup {cs}
           rt == IF cs \in history.tried THEN history.retried \cup {cs} ELSE history.retried
           st == IF Alone(h) /\ OnTop(cs) THEN history.stack ELSE <<>>
           u == IF Alone(h) /\ history.undone = cs THEN history.undone ELSE NoEntry
<1>1. history' = [history EXCEPT !.tried = t, !.retried = rt, !.stack = st, !.undone = u]
    BY DEF RememberRollback
<1> HIDE DEF t, rt, st, u
<1>2. /\ history'.before = history.before /\ history'.residue = history.residue
      /\ history'.tried = t /\ history'.retried = rt /\ history'.stack = st /\ history'.undone = u
    BY <1>1 DEF HistoryTypes
<1> QED
    BY <1>2 DEF t, rt, st, u

\* and one that ends.
LEMMA RolledBackFields ==
    ASSUME HistoryTypes, NEW cs, RememberRolledBack(cs)
    PROVE  /\ history'.before = history.before /\ history'.residue = history.residue
           /\ history'.tried = history.tried /\ history'.retried = history.retried
           /\ \/ history'.undone = NoEntry /\ history'.stack = <<>>
              \/ /\ Undisturbed(cs) /\ cs \notin history.residue \cup history.retried
                 /\ history'.undone = cs
                 /\ history'.stack = IF OnTop(cs) THEN Front(history.stack) ELSE history.stack
<1> DEFINE st == IF OnTop(cs) THEN Front(history.stack) ELSE history.stack
<1>1. \/ history' = [history EXCEPT !.undone = NoEntry, !.stack = <<>>]
      \/ /\ Undisturbed(cs) /\ cs \notin history.residue \cup history.retried
         /\ history' = [history EXCEPT !.undone = cs, !.stack = st]
    BY DEF RememberRolledBack
<1> HIDE DEF st
<1>2. /\ history'.before = history.before /\ history'.residue = history.residue
      /\ history'.tried = history.tried /\ history'.retried = history.retried
      /\ \/ history'.undone = NoEntry /\ history'.stack = <<>>
         \/ /\ Undisturbed(cs) /\ cs \notin history.residue \cup history.retried
            /\ history'.undone = cs /\ history'.stack = st
    BY <1>1 DEF HistoryTypes
<1> QED
    BY <1>2 DEF st

\* A change of the progress of a busy call is a step of it.
LEMMA MovesProceed ==
    ASSUME HandlerTypes, NEW h \in Handlers, handler[h].pc # "idle", NEW pc, NEW idx, NEW images,
           NEW record, NEW records, Moves(h, pc, idx, images, record, records),
           pc = "undo" => handler[h].pc = "undo",
           handler[h].pc \notin Applying => pc \notin Applying
    PROVE  Proceeds(h)
BY DEF Moves, IsWith, Proceeds

\* Its end is one,
LEMMA ReturnProceeds ==
    ASSUME HandlerTypes, NEW h \in Handlers, handler[h].pc # "idle", Return(h)
    PROVE  Proceeds(h) /\ handler'[h] = Idle
<1>1. handler'[h] = Idle /\ handler' = [handler EXCEPT ![h] = handler'[h]]
    BY OneMoves DEF Return
<1> QED
    BY <1>1, IdleRecord, Places DEF Proceeds

\* and a change of its place.
LEMMA GotoProceeds ==
    ASSUME HandlerTypes, NEW h \in Handlers, handler[h].pc # "idle", NEW pc \in Pcs, Goto(h, pc),
           pc = "undo" => handler[h].pc = "undo",
           handler[h].pc \notin Applying => pc \notin Applying
    PROVE  Proceeds(h) /\ GoesTo(h, pc)
BY GotoMoves, MovesProceed DEF GoesTo

\* Every step of an apply is one,
LEMMA ApplyProceeds ==
    ASSUME HandlerTypes, NEW h \in Handlers, ApplyStep(h)
    PROVE  Proceeds(h) /\ handler[h].pc \in Applying /\ handler'[h].pc # "undo"
<1> DEFINE x == handler[h]
<1>0. x \in HandlerRecord /\ Fits(x)
    BY DEF HandlerTypes
<1>1. x.pc \in Applying
    BY DEF ApplyStep, MakeBackupDirectory, StorePreimage, StorePostimage, FillManifest,
        RecordOperation, ApplyComplete, DeadlinePassed, NextOperation, Inspect, BackupFails,
        Perform, PerformFails, TruncateManifest, OperationDone, At, Applying
<1>2. x.pc # "idle"
    BY <1>1, Places
<1>3. ASSUME NEW pc \in Applying \cup {"fail"}, Goto(h, pc)
      PROVE  Proceeds(h) /\ handler'[h].pc # "undo"
    <2>1. pc \in Pcs /\ pc # "undo"
        BY Places
    <2> QED
        BY <1>1, <1>2, <1>3, <2>1, GotoProceeds DEF GoesTo, Moves, IsWith
<1>4. ASSUME NEW pc \in Applying \cup {"fail"}, NEW idx, NEW images, NEW record, NEW records,
             Moves(h, pc, idx, images, record, records)
      PROVE  Proceeds(h) /\ handler'[h].pc # "undo"
    <2>1. pc # "undo"
        BY Places
    <2> QED
        BY <1>1, <1>2, <1>4, <2>1, MovesProceed DEF Moves, IsWith
<1>5. ASSUME NEW ok \in BOOLEAN, MakeBackupDirectory(h, ok) \/ FillManifest(h, ok)
      PROVE  \E pc \in Applying \cup {"fail"} : Goto(h, pc)
    BY <1>5 DEF MakeBackupDirectory, FillManifest, AfterFill, Applying
<1>6. ASSUME NEW ok \in BOOLEAN, StorePreimage(h, ok) \/ StorePostimage(h, ok)
      PROVE  Moves(h, x.pc, x.idx, Tail(x.images), x.record, x.records)
    BY <1>6, ImageMoves DEF StorePreimage, StorePostimage
<1>7. x.pc \in Applying \ {"mkdir", "next"} => Op(h) \in Operation /\ Names(Op(h)) /\ x.idx \in 0 .. MaxOps
    <2>1. ASSUME x.pc \in Applying \ {"mkdir", "next"} PROVE x.idx <= Len(x.ops)
        BY <1>0, <2>1 DEF Fits
    <2> QED
        BY <1>1, <2>1, PresentOperation
<1>8. ASSUME NEW ok \in BOOLEAN, RecordOperation(h, ok)
      PROVE  \E pc \in Applying \cup {"fail"} :
                Moves(h, pc, x.idx, NamedPaths(Op(h)), x.record, x.records)
    <2>1. Op(h) \in Operation
        BY <1>1, <1>7, <1>8 DEF RecordOperation, At
    <2>2. CASE ok = TRUE
        BY <1>8, <2>1, <2>2, NamedMoves, Places DEF RecordOperation
    <2>3. CASE ok = FALSE
        BY <1>8, <2>1, <2>3, NamedMoves, Places DEF RecordOperation
    <2> QED
        BY <2>2, <2>3
<1>9. ASSUME NEW ok \in BOOLEAN, ApplyComplete(h, ok) PROVE Proceeds(h) /\ handler'[h].pc # "undo"
    BY <1>2, <1>9, ReturnProceeds, IdleRecord DEF ApplyComplete
<1>10. ASSUME DeadlinePassed(h) \/ BackupFails(h) \/ Perform(h) \/ PerformFails(h)
       PROVE  \E pc \in Applying \cup {"fail"} : Goto(h, pc)
    BY <1>10 DEF DeadlinePassed, BackupFails, Perform, PerformFails, Applying
<1>11. CASE NextOperation(h)
    <2>1. Op(h) \in Operation
        <3>1. x.pc = "next" /\ x.idx <= Len(x.ops)
            BY <1>0, <1>11 DEF NextOperation, At, LoopEnds, HandlerRecord
        <3> QED
            BY <1>1, <3>1, PresentOperation
    <2>2. Moves(h, "preimages", x.idx, NamedPaths(Op(h)), x.record, x.records)
        BY <1>11, <2>1, NamedMoves, Places DEF NextOperation
    <2> QED
        BY <1>1, <1>4, <2>2, Places
<1>12. CASE Inspect(h)
    <2>1. Op(h) \in Operation /\ Names(Op(h)) /\ x.idx \in 0 .. MaxOps
        BY <1>1, <1>7, <1>12 DEF Inspect, At
    <2>2. GoesTo(h, "fail") \/ \E r : Moves(h, "perform", x.idx, x.images, r, x.records)
        BY <1>12, <2>1, InspectMoves
    <2> QED
        BY <1>1, <1>4, <2>2, Places DEF GoesTo
<1>13. CASE TruncateManifest(h)
    <2>1. x.record \in RecordSet
        BY <1>0, <1>13 DEF TruncateManifest, At, Fits
    <2> QED
        BY <1>1, <1>4, <1>13, <2>1, TruncateMoves, Places
<1>14. CASE OperationDone(h)
    BY <1>1, <1>4, <1>14, DoneMoves, Places
<1>15. Proceeds(h) /\ handler'[h].pc # "undo"
    BY <1>1, <1>3, <1>4, <1>5, <1>6, <1>8, <1>9, <1>10, <1>11, <1>12, <1>13, <1>14 DEF ApplyStep
<1> QED
    BY <1>1, <1>15

\* which remembers at most that an effect has no record,
LEMMA ApplyHistory ==
    ASSUME HistoryTypes, NEW h \in Handlers, ApplyStep(h)
    PROVE  SameStack /\ history'.residue \in {history.residue, history.residue \cup {handler[h].cs}}
<1>1. \/ UNCHANGED history \/ RememberResidue({handler[h].cs})
    BY DEF ApplyStep, MakeBackupDirectory, StorePreimage, StorePostimage, FillManifest,
        RecordOperation, ApplyComplete, DeadlinePassed, NextOperation, Inspect, BackupFails,
        Perform, PerformFails, TruncateManifest, OperationDone
<1> QED
    BY <1>1, ResidueFields DEF SameStack

\* A rewrite of an entry that does not call it rolled back,
LEMMA RewriteKnows ==
    ASSUME JournalTypeOK, NEW cs \in ChangeSets, UNCHANGED <<entries, file>> \/ Rewrites(cs),
           \/ cs \in history'.tried
           \/ entries[cs] # NoEntry => \/ entries'[cs].status = entries[cs].status
                                       \/ entries'[cs].status # "rolled_back"
    PROVE  SameKnown
BY NullsAreFresh DEF SameKnown, Rewrites, JournalTypeOK

\* as every step of an apply makes.
LEMMA ApplyKnows ==
    ASSUME Types, NEW h \in Handlers, ApplyStep(h)
    PROVE  SameKnown
<1>0. JournalTypeOK /\ tree \in Tree /\ HandlerTypes
    BY DEF Types
<1>1. PICK cs \in ChangeSets : cs = handler[h].cs
    BY <1>0, ApplyProceeds, BusyChangeSet, Places
<1>2. CASE UNCHANGED <<entries, file>>
    BY <1>0, <1>2, RewriteKnows
<1>3. ASSUME NEW ok \in BOOLEAN, StorePreimage(h, ok) \/ StorePostimage(h, ok) PROVE SameKnown
    <2>1. UNCHANGED <<entries, file>> \/ (Rewrites(cs) /\ Keeps(cs))
        BY <1>0, <1>1, <1>3, ImageStep
    <2> QED
        BY <1>0, <1>2, <2>1, RewriteKnows DEF Keeps
<1>4. ASSUME NEW ok \in BOOLEAN, RecordOperation(h, ok) PROVE SameKnown
    BY <1>0, <1>1, <1>4, RecordStep, RewriteKnows
<1>5. ASSUME NEW ok \in BOOLEAN, ApplyComplete(h, ok) PROVE SameKnown
    <2>1. Complete(cs, ok)
        BY <1>1, <1>5 DEF ApplyComplete
    <2>2. Rewrites(cs) /\ entries'[cs].status = "completed"
        BY <1>0, <2>1, SettleRewrites DEF Complete, Status
    <2> QED
        BY <1>0, <2>2, RewriteKnows
<1>6. \/ UNCHANGED <<entries, file>>
      \/ \E ok \in BOOLEAN : \/ StorePreimage(h, ok) \/ StorePostimage(h, ok)
                             \/ RecordOperation(h, ok) \/ ApplyComplete(h, ok)
    BY DEF ApplyStep, MakeBackupDirectory, FillManifest, DeadlinePassed, NextOperation,
        Inspect, BackupFails, Perform, PerformFails, TruncateManifest, OperationDone
<1> QED
    BY <1>2, <1>3, <1>4, <1>5, <1>6

\* Rollbacks stay remembered.
LEMMA TriedKept ==
    ASSUME Types, TriedForm, NEW h \in Handlers, Proceeds(h), SameKnown,
           history.tried \subseteq history'.tried
    PROVE  TriedForm'
<1>1. ASSUME NEW g \in Handlers, handler'[g].pc = "undo" PROVE handler'[g].cs \in history'.tried
    <2>1. CASE g # h
        BY <1>1, <2>1 DEF Types, HandlerTypes, Proceeds, TriedForm
    <2>2. CASE g = h
        BY <1>1, <2>2, Places DEF Proceeds, TriedForm
    <2> QED
        BY <2>1, <2>2
<1>2. ASSUME NEW cs \in ChangeSets, NEW image \in {entries', file'},
             image[cs] # NoEntry, image[cs].status = "rolled_back"
      PROVE  cs \in history'.tried
    BY <1>2 DEF SameKnown, TriedForm
<1> QED
    BY <1>1, <1>2 DEF TriedForm

\* A step of a busy call keeps the order, if it remembers nothing of it.
LEMMA ProceedStacked ==
    ASSUME Types, Stacked, NEW h \in Handlers, Proceeds(h), SameKnown, SameStack
    PROVE  Stacked'
<1>1. StackForm'
    <2>1. \A i \in 1 .. Len(history.stack) :
            /\ history.stack[i] \in ChangeSets
            /\ entries[history.stack[i]] # NoEntry /\ history.stack[i] # history.undone
        BY DEF Stacked, StackForm, Known
    <2>2. \A i \in 1 .. Len(history'.stack) :
            entries'[history'.stack[i]] # NoEntry /\ history'.stack[i] # history'.undone
        BY <2>1 DEF SameStack, SameKnown
    <2> QED
        BY <2>2 DEF Stacked, StackForm, SameStack, Known
<1>2. ASSUME NEW g \in Handlers PROVE InOrder(g)'
    <2>1. \A k \in Handlers \ {h} : handler'[k] = handler[k]
        BY DEF Types, HandlerTypes, Proceeds
    <2>2. Alone(h) => Alone(h)'
        BY <2>1 DEF Alone
    <2>3. CASE g = h
        BY <2>2, <2>3 DEF Stacked, InOrder, Proceeds, SameStack, OnTop
    <2>4. CASE g # h
        BY <2>1, <2>4 DEF Stacked, InOrder, Proceeds, SameStack, OnTop, Alone
    <2> QED
        BY <2>3, <2>4
<1>3. TriedForm'
    BY TriedKept DEF Stacked, SameStack
<1> QED
    BY <1>1, <1>2, <1>3 DEF Stacked

\* A change set begins on top of the others, or beside them.
LEMMA BeginStacked ==
    ASSUME Types, Stacked, NEW h \in Handlers, NEW cs \in ChangeSets, NEW request \in Requests,
           ApplyBegin(h, cs, request, TRUE)
    PROVE  Stacked'
<1> USE DEF Types, Stacked
<1>1. /\ handler' = [handler EXCEPT ![h] = handler'[h]] /\ handler[h].pc = "idle"
      /\ handler'[h].pc = "mkdir" /\ handler'[h].cs = cs
    BY BeginMoves DEF ApplyBegin, At
<1>2. /\ entries[cs] = NoEntry
      /\ entries' = [entries EXCEPT ![cs] = NewEntry] /\ file' = entries'
    BY DEF ApplyBegin, Begin, Known, Persist
<1>3. /\ history'.before = [history.before EXCEPT ![cs] = tree]
      /\ history'.stack = IF Alone(h) THEN Append(history.stack, cs) ELSE <<>>
      /\ history'.undone = NoEntry
      /\ history'.tried = history.tried /\ history'.retried = history.retried
    BY BeginFields DEF ApplyBegin
<1>4. NewEntry # NoEntry /\ NewEntry.status # "rolled_back"
    BY NewEntryTyped, NullsAreFresh DEF NewEntry
<1>5. /\ \A d \in ChangeSets : entries[d] # NoEntry => entries'[d] # NoEntry
      /\ entries'[cs] # NoEntry
      /\ \A d \in ChangeSets : entries'[d] # NoEntry /\ entries'[d].status = "rolled_back" =>
            entries[d] # NoEntry /\ entries[d].status = "rolled_back"
    BY <1>2, <1>4 DEF JournalTypeOK
<1>6. StackForm'
    <2>1. history'.before \in [ChangeSets -> Tree]
        BY <1>3 DEF StackForm
    <2>2. CASE ~Alone(h)
        BY <1>3, <2>1, <2>2 DEF StackForm
    <2>3. CASE Alone(h)
        <3> DEFINE s == history.stack
                   s2 == Append(s, cs)
        <3>1. s \in Seq(ChangeSets) /\ s2 \in Seq(ChangeSets) /\ Len(s2) = Len(s) + 1
              /\ s2[Len(s) + 1] = cs /\ \A i \in 1 .. Len(s) : s2[i] = s[i]
            BY DEF StackForm
        <3>2. \A i \in 1 .. Len(s) : entries[s[i]] # NoEntry /\ s[i] \in ChangeSets
            BY DEF StackForm, Known
        <3>3. \A i \in 1 .. Len(s) : s[i] # cs
            BY <1>2, <3>2
        <3>4. \A i, j \in 1 .. Len(s) : s[i] = s[j] => i = j
            BY DEF StackForm
        <3> HIDE DEF s, s2
        <3>5. \A i, j \in 1 .. Len(s2) : s2[i] = s2[j] => i = j
            BY <3>1, <3>3, <3>4
        <3>6. \A i \in 1 .. Len(s2) : entries'[s2[i]] # NoEntry /\ s2[i] # NoEntry
            BY <1>5, <3>1, <3>2, NoChangeSet
        <3>7. history'.stack = s2
            BY <1>3, <2>3 DEF s, s2
        <3> QED
            BY <1>3, <2>1, <3>1, <3>5, <3>6, <3>7 DEF StackForm, Known
    <2> QED
        BY <2>2, <2>3
<1>7. ASSUME NEW g \in Handlers PROVE InOrder(g)'
    <2>1. \A k \in Handlers \ {h} : handler'[k] = handler[k]
        BY <1>1 DEF HandlerTypes
    <2>2. CASE ~Alone(h)
        BY <1>3, <2>2 DEF InOrder
    <2>3. CASE Alone(h)
        <3>1. Alone(h)' /\ (g # h => handler'[g].pc = "idle")
            BY <2>1, <2>3 DEF Alone
        <3>2. history'.stack # <<>> /\ Last(history'.stack) = cs
            BY <1>3, <2>3 DEF StackForm, Last
        <3> QED
            BY <1>1, <1>3, <3>1, <3>2 DEF InOrder, OnTop
    <2> QED
        BY <2>2, <2>3
<1>8. TriedForm'
    <2>1. \A g \in Handlers : handler'[g].pc = "undo" => handler[g].pc = "undo" /\ handler'[g] = handler[g]
        BY <1>1 DEF HandlerTypes
    <2> QED
        BY <1>2, <1>3, <1>5, <2>1 DEF TriedForm
<1> QED
    BY <1>6, <1>7, <1>8

\* A rollback starts on top, or the order is lost.
LEMMA StartStacked ==
    ASSUME Types, Stacked, NEW h \in Handlers, NEW cs \in ChangeSets, RollbackStart(h, cs)
    PROVE  Stacked'
<1> USE DEF Types, Stacked
<1>1. /\ handler' = [handler EXCEPT ![h] = handler'[h]] /\ handler[h].pc = "idle"
      /\ handler'[h].pc = "undo" /\ handler'[h].cs = cs
    <2>1. handler'[h].cs = cs
        <3> DEFINE y == [Idle EXCEPT !.pc = "undo", !.cs = cs, !.records = manifest[cs].records,
                                     !.idx = FirstToUndo(manifest[cs].records)]
        <3>1. handler' = [handler EXCEPT ![h] = y]
            BY DEF RollbackStart
        <3>2. y.cs = cs
            BY DEF Idle
        <3> HIDE DEF y
        <3> QED
            BY <3>1, <3>2, OneMoves
    <2> QED
        BY <2>1, StartMoves DEF RollbackStart, At
<1>2. UNCHANGED <<entries, file>>
    BY DEF RollbackStart
<1>3. /\ history'.before = history.before
      /\ history'.tried = history.tried \cup {cs}
      /\ history'.retried = IF cs \in history.tried THEN history.retried \cup {cs}
                            ELSE history.retried
      /\ history'.stack = IF Alone(h) /\ OnTop(cs) THEN history.stack ELSE <<>>
      /\ history'.undone = IF Alone(h) /\ history.undone = cs THEN history.undone ELSE NoEntry
    BY RollbackFields DEF RollbackStart
<1>4. StackForm'
    <2>1. /\ history'.retried \subseteq history'.tried
          /\ history'.undone # NoEntry => history'.undone \in history'.tried
          /\ history'.undone \in ChangeSets \cup {NoEntry}
        BY <1>3 DEF StackForm
    <2>2. CASE history'.stack = <<>>
        BY <1>3, <2>1, <2>2 DEF StackForm
    <2>3. CASE history'.stack = history.stack
        <3>1. \A i \in 1 .. Len(history.stack) :
                /\ history.stack[i] \in ChangeSets /\ entries[history.stack[i]] # NoEntry
                /\ history.stack[i] # history.undone
            BY DEF StackForm, Known
        <3>2. \A i \in 1 .. Len(history'.stack) :
                /\ entries'[history'.stack[i]] # NoEntry /\ history'.stack[i] # history'.undone
            BY <1>2, <1>3, <2>3, <3>1, NoChangeSet
        <3> QED
            BY <1>3, <2>1, <2>3, <3>2 DEF StackForm, Known
    <2> QED
        BY <1>3, <2>2, <2>3
<1>5. ASSUME NEW g \in Handlers PROVE InOrder(g)'
    <2>1. \A k \in Handlers \ {h} : handler'[k] = handler[k]
        BY <1>1 DEF HandlerTypes
    <2>2. CASE ~Alone(h)
        BY <1>3, <2>2 DEF InOrder
    <2>3. CASE Alone(h)
        <3>1. Alone(h)' /\ (g # h => handler'[g].pc = "idle")
            BY <2>1, <2>3 DEF Alone
        <3>2. history'.stack # <<>> => history'.stack = history.stack /\ OnTop(cs)
            BY <1>3
        <3>3. history'.undone # NoEntry => history.undone = cs /\ history'.undone = cs
                /\ cs \in history.tried
            BY <1>3 DEF StackForm
        <3> QED
            BY <1>1, <1>3, <3>1, <3>2, <3>3, Places DEF InOrder, OnTop
    <2> QED
        BY <2>2, <2>3
<1>6. TriedForm'
    <2>1. \A g \in Handlers \ {h} : handler'[g] = handler[g]
        BY <1>1 DEF HandlerTypes
    <2> QED
        BY <1>1, <1>2, <1>3, <2>1 DEF TriedForm
<1> QED
    BY <1>4, <1>5, <1>6

\* All but the last of a sequence.
LEMMA FrontOf ==
    ASSUME NEW S, NEW s \in Seq(S), s # <<>>
    PROVE  /\ Front(s) \in Seq(S) /\ Len(Front(s)) = Len(s) - 1
           /\ \A i \in 1 .. Len(s) - 1 : Front(s)[i] = s[i]
           /\ Last(s) = s[Len(s)] /\ Len(s) \in Nat \ {0}
<1>1. Len(s) \in Nat \ {0}
    OBVIOUS
<1>2. Front(s) = [i \in 1 .. Len(s) - 1 |-> s[i]]
    BY <1>1 DEF Front
<1>3. \A i \in 1 .. Len(s) - 1 : s[i] \in S
    BY <1>1
<1> QED
    BY <1>1, <1>2, <1>3 DEF Last

\* The change set rolled back leaves the stack, or the order is lost.
LEMMA RolledBackStacked ==
    ASSUME Types, Stacked, NEW h \in Handlers, NEW ok \in BOOLEAN, RollbackReturns(h, ok)
    PROVE  Stacked'
<1> USE DEF Types, Stacked
<1>0. handler[h].pc = "undo" /\ handler[h].pc # "idle" /\ Return(h)
    BY DEF RollbackReturns, At
<1>1. Proceeds(h) /\ handler'[h] = Idle /\ handler'[h].pc = "idle"
    BY <1>0, ReturnProceeds, IdleRecord
<1>2. PICK cs \in ChangeSets : cs = handler[h].cs
    BY <1>0, BusyChangeSet
<1>3. /\ history'.before = history.before
      /\ history'.tried = history.tried /\ history'.retried = history.retried
      /\ \/ history'.undone = NoEntry /\ history'.stack = <<>>
         \/ /\ Undisturbed(cs) /\ cs \notin history.residue \cup history.retried
            /\ history'.undone = cs
            /\ history'.stack = IF OnTop(cs) THEN Front(history.stack) ELSE history.stack
    BY <1>2, RolledBackFields DEF RollbackReturns
<1>4. cs \in history.tried
    BY <1>0, <1>2 DEF TriedForm
<1>5. Rewrites(cs)
    BY <1>2, SettleStep DEF RollbackReturns
<1>6. SameKnown
    BY <1>3, <1>4, <1>5, RewriteKnows
<1>7. TriedForm'
    BY <1>1, <1>3, <1>6, TriedKept
<1>8. CASE history'.undone = NoEntry /\ history'.stack = <<>>
    <2>1. StackForm'
        BY <1>3, <1>8 DEF StackForm
    <2>2. \A g \in Handlers : InOrder(g)'
        BY <1>8 DEF InOrder
    <2> QED
        BY <1>7, <2>1, <2>2
<1>9. CASE /\ Undisturbed(cs) /\ cs \notin history.residue \cup history.retried
           /\ history'.undone = cs
           /\ history'.stack = IF OnTop(cs) THEN Front(history.stack) ELSE history.stack
    <2>1. history.undone = NoEntry
        BY <1>0, <1>2, <1>9 DEF InOrder
    <2>2. OnTop(cs) /\ Alone(h) /\ history.stack # <<>>
        BY <1>0, <1>2, <1>9, <2>1, NoChangeSet DEF InOrder, Undisturbed, OnTop
    <2> DEFINE s == history.stack
               s2 == Front(s)
    <2>3. /\ s2 \in Seq(ChangeSets) /\ Len(s2) = Len(s) - 1 /\ s \in Seq(ChangeSets)
          /\ \A i \in 1 .. Len(s) - 1 : s2[i] = s[i]
          /\ s[Len(s)] = cs /\ Len(s) \in Nat \ {0}
        BY <2>2, FrontOf DEF StackForm, OnTop
    <2>4. /\ \A i \in 1 .. Len(s) : entries'[s[i]] # NoEntry
          /\ \A i, j \in 1 .. Len(s) : s[i] = s[j] => i = j
        BY <1>6 DEF StackForm, SameKnown, Known
    <2>5. history'.stack = s2
        BY <1>9, <2>2
    <2> HIDE DEF s, s2
    <2>6. /\ \A i \in 1 .. Len(s2) : entries'[s2[i]] # NoEntry /\ s2[i] # cs
          /\ \A i, j \in 1 .. Len(s2) : s2[i] = s2[j] => i = j
        BY <2>3, <2>4
    <2>7. StackForm'
        BY <1>3, <1>4, <1>9, <2>3, <2>5, <2>6 DEF StackForm, Known
    <2>8. \A g \in Handlers : handler'[g].pc = "idle"
        BY <1>1, <2>2 DEF Alone, Proceeds, HandlerTypes
    <2> QED
        BY <1>7, <2>7, <2>8 DEF InOrder
<1> QED
    BY <1>3, <1>8, <1>9

\* A restart leaves no call, and the change sets it finds in the file.
LEMMA CrashStacked == ASSUME Accounts, Stacked, CrashAndRestart PROVE Stacked'
<1>0. Types /\ HistoryTypes
    BY DEF Accounts, Types
<1>1. SameStack
    BY <1>0, ResidueFields DEF CrashAndRestart
<1>2. entries' = file /\ file' = file /\ \A h \in Handlers : handler'[h].pc = "idle"
    BY IdleRecord DEF CrashAndRestart, Reopen
<1>3. \A cs \in ChangeSets : entries[cs] # NoEntry => file[cs] # NoEntry
    BY DEF Accounts, IsSound, Sound
<1>4. StackForm'
    <2>1. \A i \in 1 .. Len(history.stack) :
            /\ history.stack[i] \in ChangeSets /\ entries[history.stack[i]] # NoEntry
            /\ history.stack[i] # history.undone
        BY DEF Stacked, StackForm, Known
    <2>2. \A i \in 1 .. Len(history'.stack) :
            entries'[history'.stack[i]] # NoEntry /\ history'.stack[i] # history'.undone
        BY <1>1, <1>2, <1>3, <2>1 DEF SameStack
    <2> QED
        BY <1>1, <2>2 DEF Stacked, StackForm, SameStack, Known
<1>5. \A h \in Handlers : InOrder(h)'
    BY <1>2 DEF InOrder
<1>6. TriedForm'
    BY <1>1, <1>2 DEF Stacked, TriedForm, SameStack
<1> QED
    BY <1>4, <1>5, <1>6 DEF Stacked

\* Nothing of it changes.
LEMMA StackedKept ==
    ASSUME Stacked, UNCHANGED <<entries, file, handler, history>>
    PROVE  Stacked'
<1>1. StackForm'
    BY DEF Stacked, StackForm, Known
<1>2. \A h \in Handlers : InOrder(h)'
    BY DEF Stacked, InOrder, Alone, OnTop
<1>3. TriedForm'
    BY DEF Stacked, TriedForm
<1> QED
    BY <1>1, <1>2, <1>3 DEF Stacked

\* Each step.
LEMMA StackedStep == ASSUME Accounts, Stacked, [Next]_vars PROVE Stacked'
<1>0. Types /\ JournalTypeOK /\ HandlerTypes /\ HistoryTypes
    BY DEF Accounts, Types
<1>1. CASE UNCHANGED vars
    BY <1>1, StackedKept DEF vars, bridgeVars
<1>2. ASSUME NEW h \in Handlers, NEW cs \in ChangeSets, NEW request \in Requests,
             NEW ok \in BOOLEAN, ApplyBegin(h, cs, request, ok)
      PROVE  Stacked'
    <2>1. CASE ok = TRUE
        BY <1>0, <1>2, <2>1, BeginStacked
    <2>2. CASE ok = FALSE
        BY <1>2, <2>2, StackedKept DEF ApplyBegin, Begin, Persist
    <2> QED
        BY <2>1, <2>2
<1>3. ASSUME NEW h \in Handlers, ApplyStep(h) PROVE Stacked'
    BY <1>0, <1>3, ApplyProceeds, ApplyKnows, ApplyHistory, ProceedStacked
<1>4. ASSUME NEW h \in Handlers, NEW cs \in ChangeSets, RollbackStart(h, cs) PROVE Stacked'
    BY <1>0, <1>4, StartStacked
<1>5. ASSUME NEW h \in Handlers, UndoRecord(h) \/ UndoFails(h) PROVE Stacked'
    <2>1. UNCHANGED <<entries, file, history>> /\ handler[h].pc = "undo"
        BY <1>5 DEF UndoRecord, UndoFails, At
    <2>2. Proceeds(h)
        BY <1>0, <1>5, <2>1, UndoMoves, MovesProceed, Places DEF GoesTo
    <2>3. SameKnown /\ SameStack
        BY <2>1 DEF SameKnown, SameStack
    <2> QED
        BY <1>0, <2>2, <2>3, ProceedStacked
<1>6. ASSUME NEW h \in Handlers, NEW ok \in BOOLEAN, RollbackReturns(h, ok) PROVE Stacked'
    BY <1>0, <1>6, RolledBackStacked
<1>7. ASSUME NEW h \in Handlers, NEW ok \in BOOLEAN, FailReturns(h, ok) PROVE Stacked'
    <2>1. handler[h].pc # "idle" /\ Return(h) /\ UNCHANGED history /\ MarkFailed(handler[h].cs, ok)
        BY <1>7 DEF FailReturns, At
    <2>2. PICK cs \in ChangeSets : cs = handler[h].cs
        BY <1>0, <2>1, BusyChangeSet
    <2>3. Rewrites(cs) /\ entries'[cs].status = "failed"
        BY <1>0, <2>1, <2>2, SettleRewrites DEF MarkFailed, Status
    <2>4. SameKnown
        BY <1>0, <2>3, RewriteKnows
    <2>5. Proceeds(h) /\ SameStack
        BY <1>0, <2>1, ReturnProceeds DEF SameStack
    <2> QED
        BY <1>0, <2>4, <2>5, ProceedStacked
<1>8. CASE CrashAndRestart
    BY <1>8, CrashStacked
<1> QED
    BY <1>1, <1>2, <1>3, <1>4, <1>5, <1>6, <1>7, <1>8
    DEF Next, CallApply, HandlersOrCrash, RollbackStep

\* Nothing has begun.
LEMMA StackedInit == Init => Stacked
<1> SUFFICES ASSUME Init PROVE Stacked
    OBVIOUS
<1>1. /\ history.before = [cs \in ChangeSets |-> tree] /\ history.stack = <<>>
      /\ history.undone = NoEntry /\ history.tried = {} /\ history.retried = {}
    BY DEF Init
<1>2. tree \in Tree
    BY TypesInit DEF Types
<1>3. StackForm
    BY <1>1, <1>2 DEF StackForm
<1>4. \A h \in Handlers : handler[h].pc = "idle"
    BY IdleRecord DEF Init
<1>5. TriedForm
    BY <1>4 DEF TriedForm, Init, JournalInit
<1> QED
    BY <1>3, <1>4, <1>5 DEF Stacked, InOrder

(***************************************************************************)
(* The change sets the history calls stacked lie on top of each other, and *)
(* no call but one for the last of them is in progress (patchApply,        *)
(* patchRollback).                                                         *)
(***************************************************************************)
THEOREM StackedHolds == Spec => []Stacked
<1>1. Accounts /\ Stacked /\ [Next]_vars => Stacked'
    BY StackedStep
<1> QED
    BY <1>1, StackedInit, AccountsHold, PTL DEF Spec

(***************************************************************************)
(* An apply that changed a file and was interrupted is pending in          *)
(* journal.json after a restart, unless it is completed there: Begin is    *)
(* stored before the first operation, and nothing but Complete and a       *)
(* rollback takes the change set from the pending ones (patchApply).       *)
(***************************************************************************)
THEOREM InterruptedStaysPending == Spec => []InterruptedApplyIsPending
<1>1. Accounts /\ Stacked => InterruptedApplyIsPending
    <2> SUFFICES ASSUME Accounts, Stacked, NEW cs \in ChangeSets \ history.tried, Undisturbed(cs)
                 PROVE  \/ cs \in Pending(file)
                        \/ /\ file[cs] # NoEntry /\ file[cs].status = "completed"
                           /\ Len(manifest[cs].records) = Len(history.request[cs])
        BY DEF InterruptedApplyIsPending
    <2>1. OnTop(cs)
        BY NoChangeSet DEF Stacked, StackForm, Undisturbed
    <2>2. entries[cs] # NoEntry
        <3> DEFINE s == history.stack
        <3>1. s \in Seq(ChangeSets) /\ s # <<>> /\ Last(s) = cs
            BY <2>1 DEF OnTop, Stacked, StackForm
        <3>2. \A i \in 1 .. Len(s) : entries[s[i]] # NoEntry
            BY DEF Stacked, StackForm, Known
        <3> HIDE DEF s
        <3>3. Last(s) = s[Len(s)] /\ Len(s) \in Nat \ {0}
            BY <3>1, FrontOf, Zenon
        <3> QED
            BY <3>1, <3>2, <3>3
    <2>3. file[cs] # NoEntry
        BY <2>2 DEF Accounts, IsSound, Sound
    <2>4. file[cs].status # "rolled_back"
        BY <2>3 DEF Stacked, TriedForm
    <2>5. file[cs].status = "completed" => Len(manifest[cs].records) = Len(history.request[cs])
        BY <2>3, SoundImage DEF SoundLog
    <2> QED
        BY <2>3, <2>4, <2>5 DEF Pending
<1> QED
    BY <1>1, AccountsHold, StackedHolds, PTL

----------------------------------------------------------------------------
(***************************************************************************)
(* What the records of a change set are worth.  Kept: every file of g is   *)
(* among the files f or in a whole backup of b.  Undoable: undoing the     *)
(* first k records rs, the latest first, takes the files f to g, and all   *)
(* on the way are kept.                                                    *)
(***************************************************************************)
Whole(data) == [state |-> "whole", data |-> data]

KeptFile(f, b, node) ==
    \/ \E q \in TreePaths : f[q] = node
    \/ \E n \in 1 .. MaxOps : b[n] = Whole(node.data)

Kept(f, g, b) == \A p \in TreePaths : g[p] # Absent => KeptFile(f, b, g[p])

SavedIn(b, r) == IF r.backup = 0 THEN <<>> ELSE b[r.backup].data

UndoesTo(chain, g, b, rs, k) ==
    /\ chain[0] = g
    /\ \A i \in 1 .. k : chain[i - 1] = UndoneFiles(chain[i], rs[i], SavedIn(b, rs[i]))
    /\ \A i \in 0 .. k : Kept(chain[i], g, b)

Undoable(f, g, b, rs, k) ==
    \E chain \in [0 .. k -> Tree] : chain[k] = f /\ UndoesTo(chain, g, b, rs, k)

\* Nothing to undo.
LEMMA UndoableStart ==
    ASSUME NEW f \in Tree, NEW b, NEW rs PROVE Undoable(f, f, b, rs, 0) /\ Kept(f, f, b)
<1>1. Kept(f, f, b)
    BY DEF Kept, KeptFile
<1> DEFINE chain == [i \in 0 .. 0 |-> f]
<1>2. chain \in [0 .. 0 -> Tree] /\ chain[0] = f /\ \A i \in 0 .. 0 : chain[i] = f
    OBVIOUS
<1> HIDE DEF chain
<1>3. UndoesTo(chain, f, b, rs, 0)
    BY <1>1, <1>2 DEF UndoesTo
<1> QED
    BY <1>1, <1>2, <1>3 DEF Undoable

\* The files are kept, and when nothing is left to undo they are those of g.
LEMMA UndoableEnds ==
    ASSUME NEW f, NEW g, NEW b, NEW rs, NEW k \in Nat, Undoable(f, g, b, rs, k)
    PROVE  Kept(f, g, b) /\ (k = 0 => f = g)
BY DEF Undoable, UndoesTo

\* One more operation and its record.
LEMMA UndoablePush ==
    ASSUME NEW f, NEW g, NEW b, NEW S, NEW rs \in Seq(S), Undoable(f, g, b, rs, Len(rs)),
           NEW f2 \in Tree, NEW r \in S, UndoneFiles(f2, r, SavedIn(b, r)) = f, Kept(f2, g, b)
    PROVE  Undoable(f2, g, b, Append(rs, r), Len(rs) + 1)
<1> DEFINE k == Len(rs)
           rs2 == Append(rs, r)
<1>1. k \in Nat /\ rs2[k + 1] = r /\ \A i \in 1 .. k : rs2[i] = rs[i]
    OBVIOUS
<1>2. PICK chain \in [0 .. k -> Tree] : chain[k] = f /\ UndoesTo(chain, g, b, rs, k)
    BY DEF Undoable
<1> HIDE DEF k, rs2
<1> DEFINE longer == [i \in 0 .. k + 1 |-> IF i = k + 1 THEN f2 ELSE chain[i]]
<1>3. /\ longer \in [0 .. k + 1 -> Tree] /\ longer[k + 1] = f2
      /\ \A i \in 0 .. k : longer[i] = chain[i]
    BY <1>1, <1>2
<1> HIDE DEF longer
<1>4. longer[0] = g
    BY <1>1, <1>2, <1>3 DEF UndoesTo
<1>5. ASSUME NEW i \in 1 .. k + 1
      PROVE  longer[i - 1] = UndoneFiles(longer[i], rs2[i], SavedIn(b, rs2[i]))
    <2>1. CASE i = k + 1
        <3>1. longer[i - 1] = f /\ longer[i] = f2 /\ rs2[i] = r
            BY <1>1, <1>2, <1>3, <2>1
        <3> QED
            BY <3>1
    <2>2. CASE i # k + 1
        <3>1. i \in 1 .. k /\ i \in 0 .. k /\ i - 1 \in 0 .. k
            BY <1>1, <2>2
        <3>2. longer[i - 1] = chain[i - 1] /\ longer[i] = chain[i] /\ rs2[i] = rs[i]
            BY <1>1, <1>3, <3>1
        <3> QED
            BY <1>2, <3>1, <3>2 DEF UndoesTo
    <2> QED
        BY <2>1, <2>2
<1>6. ASSUME NEW i \in 0 .. k + 1 PROVE Kept(longer[i], g, b)
    <2>1. CASE i = k + 1
        BY <1>3, <2>1
    <2>2. CASE i # k + 1
        <3>1. i \in 0 .. k
            BY <1>1, <2>2
        <3> QED
            BY <1>2, <1>3, <3>1 DEF UndoesTo
    <2> QED
        BY <2>1, <2>2
<1>7. UndoesTo(longer, g, b, rs2, k + 1)
    BY <1>4, <1>5, <1>6 DEF UndoesTo
<1>8. Undoable(f2, g, b, rs2, k + 1)
    BY <1>3, <1>7 DEF Undoable
<1> QED
    BY <1>8 DEF k, rs2

\* The latest record undone.
LEMMA UndoablePop ==
    ASSUME NEW f, NEW g, NEW b, NEW rs, NEW k \in Nat \ {0}, Undoable(f, g, b, rs, k)
    PROVE  Undoable(UndoneFiles(f, rs[k], SavedIn(b, rs[k])), g, b, rs, k - 1)
<1>1. PICK chain \in [0 .. k -> Tree] : chain[k] = f /\ UndoesTo(chain, g, b, rs, k)
    BY DEF Undoable
<1>2. k \in 1 .. k /\ k - 1 \in 0 .. k /\ 0 \in 0 .. k - 1
    OBVIOUS
<1>3. chain[k - 1] = UndoneFiles(f, rs[k], SavedIn(b, rs[k]))
    BY <1>1, <1>2 DEF UndoesTo
<1> DEFINE shorter == [i \in 0 .. k - 1 |-> chain[i]]
<1>4. shorter \in [0 .. k - 1 -> Tree] /\ \A i \in 0 .. k - 1 : shorter[i] = chain[i]
    BY <1>1
<1> HIDE DEF shorter
<1>5. shorter[0] = g /\ shorter[k - 1] = chain[k - 1]
    BY <1>1, <1>2, <1>4 DEF UndoesTo
<1>6. ASSUME NEW i \in 1 .. k - 1
      PROVE  shorter[i - 1] = UndoneFiles(shorter[i], rs[i], SavedIn(b, rs[i]))
    <2>1. i \in 1 .. k /\ i \in 0 .. k - 1 /\ i - 1 \in 0 .. k - 1
        OBVIOUS
    <2>2. shorter[i - 1] = chain[i - 1] /\ shorter[i] = chain[i]
        BY <1>4, <2>1
    <2> QED
        BY <1>1, <2>1, <2>2 DEF UndoesTo
<1>7. ASSUME NEW i \in 0 .. k - 1 PROVE Kept(shorter[i], g, b)
    <2>1. i \in 0 .. k
        OBVIOUS
    <2> QED
        BY <1>1, <1>4, <2>1 DEF UndoesTo
<1>8. UndoesTo(shorter, g, b, rs, k - 1)
    BY <1>5, <1>6, <1>7 DEF UndoesTo
<1> QED
    BY <1>3, <1>4, <1>5, <1>8 DEF Undoable

\* Another backup taken changes neither.
LEMMA LaterBackups ==
    ASSUME NEW f, NEW g, NEW b, NEW b2, \A n \in 1 .. MaxOps : b[n].state = "whole" => b2[n] = b[n]
    PROVE  /\ Kept(f, g, b) => Kept(f, g, b2)
           /\ \A rs, k : /\ k \in Nat /\ Undoable(f, g, b, rs, k)
                         /\ \A i \in 1 .. k : rs[i].backup # 0 => b2[rs[i].backup] = b[rs[i].backup]
                         => Undoable(f, g, b2, rs, k)
<1>1. ASSUME NEW f1, Kept(f1, g, b) PROVE Kept(f1, g, b2)
    <2> SUFFICES ASSUME NEW p \in TreePaths, g[p] # Absent PROVE KeptFile(f1, b2, g[p])
        BY DEF Kept
    <2>1. KeptFile(f1, b, g[p])
        BY <1>1 DEF Kept
    <2>2. ASSUME NEW n \in 1 .. MaxOps, b[n] = Whole(g[p].data) PROVE b2[n] = Whole(g[p].data)
        <3>1. b[n].state = "whole"
            BY <2>2 DEF Whole
        <3> QED
            BY <2>2, <3>1
    <2> QED
        BY <2>1, <2>2 DEF KeptFile
<1>2. ASSUME NEW rs, NEW k \in Nat, Undoable(f, g, b, rs, k),
             \A i \in 1 .. k : rs[i].backup # 0 => b2[rs[i].backup] = b[rs[i].backup]
      PROVE  Undoable(f, g, b2, rs, k)
    <2>1. PICK chain \in [0 .. k -> Tree] : chain[k] = f /\ UndoesTo(chain, g, b, rs, k)
        BY <1>2 DEF Undoable
    <2>2. \A i \in 1 .. k : SavedIn(b2, rs[i]) = SavedIn(b, rs[i])
        BY <1>2 DEF SavedIn
    <2>3. \A i \in 0 .. k : Kept(chain[i], g, b2)
        BY <1>1, <2>1 DEF UndoesTo
    <2>4. UndoesTo(chain, g, b2, rs, k)
        BY <2>1, <2>2, <2>3 DEF UndoesTo
    <2> QED
        BY <2>1, <2>4 DEF Undoable
<1> QED
    BY <1>1, <1>2

\* A file overwritten or removed is kept if a backup holds it,
LEMMA KeptWhenCopied ==
    ASSUME NEW f \in Tree, NEW f2, NEW g, NEW b, Kept(f, g, b), NEW p \in TreePaths,
           \A q \in TreePaths \ {p} : f2[q] = f[q],
           f[p] # Absent => \E n \in 1 .. MaxOps : b[n] = Whole(f[p].data)
    PROVE  Kept(f2, g, b)
<1> SUFFICES ASSUME NEW o \in TreePaths, g[o] # Absent PROVE KeptFile(f2, b, g[o])
    BY DEF Kept
<1>1. KeptFile(f, b, g[o])
    BY DEF Kept
<1>2. ASSUME NEW q \in TreePaths, f[q] = g[o] PROVE KeptFile(f2, b, g[o])
    <2>1. CASE q = p
        BY <1>2, <2>1 DEF KeptFile
    <2>2. CASE q # p
        BY <1>2, <2>2 DEF KeptFile
    <2> QED
        BY <2>1, <2>2
<1> QED
    BY <1>1, <1>2 DEF KeptFile

\* and a file moved is kept where it goes.
LEMMA KeptWhenMoved ==
    ASSUME NEW f, NEW f2, NEW g, NEW b, Kept(f, g, b),
           \A p \in TreePaths : f[p] # Absent => \E q \in TreePaths : f2[q] = f[p]
    PROVE  Kept(f2, g, b)
<1> SUFFICES ASSUME NEW o \in TreePaths, g[o] # Absent PROVE KeptFile(f2, b, g[o])
    BY DEF Kept
<1>1. KeptFile(f, b, g[o])
    BY DEF Kept
<1> QED
    BY <1>1 DEF KeptFile

\* A backup of what is about to change.
Copied(t, op, b) ==
    IsFile(t, op.path) => \E n \in 1 .. MaxOps : b[n] = Whole(t[op.path].data)

\* An operation performed, or ended in the middle, keeps the files.
LEMMA KeptPerformed ==
    ASSUME NEW t \in Tree, WellFormed(t), NEW op, Names(op), CanPerform(t, op),
           NEW g, NEW b, Kept(Files(t), g, b), Copied(t, op, b)
    PROVE  /\ Kept(Files(Performed(t, op)), g, b)
           /\ \A u \in Interrupted(t, op) : Kept(Files(u), g, b)
<1> DEFINE f == Files(t)
           p == op.path
<1>0. p \in TreePaths /\ f \in Tree
    BY FilesAt DEF Names
<1>1. f[p] # Absent => \E n \in 1 .. MaxOps : b[n] = Whole(f[p].data)
    BY <1>0, FilesAt DEF Copied
<1>2. ASSUME NEW f2, \A q \in TreePaths \ {p} : f2[q] = f[q] PROVE Kept(f2, g, b)
    <2> HIDE DEF f, p
    <2> QED
        BY <1>0, <1>1, <1>2, KeptWhenCopied DEF f
<1>3. ASSUME NEW node PROVE Kept([f EXCEPT ![p] = node], g, b)
    <2>1. \A q \in TreePaths \ {p} : [f EXCEPT ![p] = node][q] = f[q]
        BY <1>0 DEF Tree
    <2> HIDE DEF f, p
    <2> QED
        BY <1>2, <2>1
<1>4. Kept(Without(f, p), g, b)
    BY <1>3 DEF Without
<1>5. op.type = "rename" => Kept(Moved(f, op.old, p), g, b)
    <2> SUFFICES ASSUME op.type = "rename" PROVE Kept(Moved(f, op.old, p), g, b)
        OBVIOUS
    <2>1. op.old \in TreePaths /\ CanMove(t, op.old, p) /\ ~Exists(t, p)
        BY DEF Names, CanPerform
    <2>2. \A q \in TreePaths : f[q] # Absent => \E s \in TreePaths : Moved(f, op.old, p)[s] = f[q]
        BY <1>0, <2>1, MoveKeepsFiles
    <2> HIDE DEF f, p
    <2> QED
        BY <2>2, KeptWhenMoved DEF f
<1>6. Kept(Files(Performed(t, op)), g, b)
    <2>0. /\ op.type = "write" => Files(Performed(t, op)) = [f EXCEPT ![p] = File(<<op.text>>)]
          /\ op.type = "append" => Files(Performed(t, op))
                    = [f EXCEPT ![p] = File(Append(DataAt(t, p), op.text))]
          /\ op.type = "delete" => Files(Performed(t, op)) = Without(f, p)
          /\ op.type = "rename" => Files(Performed(t, op)) = Moved(f, op.old, p)
          /\ op.type = "mkdir" => Files(Performed(t, op)) = f
          /\ op.type \in {"write", "append", "delete", "rename", "mkdir"}
        BY FilesPerformed
    <2> HIDE DEF f, p
    <2>1. op.type = "write" => Kept(Files(Performed(t, op)), g, b)
        BY <1>3, <2>0
    <2>2. op.type = "append" => Kept(Files(Performed(t, op)), g, b)
        BY <1>3, <2>0
    <2>3. op.type = "delete" => Kept(Files(Performed(t, op)), g, b)
        BY <1>4, <2>0
    <2>4. op.type = "rename" => Kept(Files(Performed(t, op)), g, b)
        BY <1>5, <2>0
    <2>5. op.type = "mkdir" => Kept(Files(Performed(t, op)), g, b)
        BY <2>0 DEF f
    <2> QED
        BY <2>0, <2>1, <2>2, <2>3, <2>4, <2>5
<1>7. ASSUME NEW u \in Interrupted(t, op) PROVE Kept(Files(u), g, b)
    <2>1. \/ Files(u) = f \/ \E data : Files(u) = [f EXCEPT ![p] = File(data)]
        BY <1>0, FilesInterrupted
    <2> QED
        BY <1>3, <2>1
<1> QED
    BY <1>6, <1>7

\* An undo that ends in the middle keeps the files: it truncates a file only
\* to restore its backup.
LEMMA KeptUndoing ==
    ASSUME NEW t \in Tree, WellFormed(t), NEW r, Names(r), CanUndo(t, r), NEW g, NEW b,
           Restores(r) => r.backup \in 1 .. MaxOps /\ b[r.backup] = Whole(SavedIn(b, r))
                          /\ SavedIn(b, r) \in Seq(Texts),
           Kept(Files(t), g, b), Kept(UndoneFiles(Files(t), r, SavedIn(b, r)), g, b),
           NEW u \in UndoInterrupted(t, r, SavedIn(b, r))
    PROVE  Kept(Files(u), g, b)
<1> DEFINE f == Files(t)
           p == r.path
           saved == SavedIn(b, r)
<1>1. f \in Tree /\ p \in TreePaths
    BY FilesAt DEF Names
<1>2. Files(u) = f \/ (Restores(r) /\ \E data : Files(u) = [f EXCEPT ![p] = File(data)])
    BY FilesUndoInterrupted
<1>3. ASSUME NEW data, Restores(r), Files(u) = [f EXCEPT ![p] = File(data)]
      PROVE  Kept(Files(u), g, b)
    <2> DEFINE f1 == [f EXCEPT ![p] = File(saved)]
               f2 == [f EXCEPT ![p] = File(data)]
    <2>1. UndoneFiles(f, r, saved) = f1
        BY <1>3 DEF UndoneFiles, Restores
    <2>2. f1 \in Tree /\ f1[p] = File(saved) /\ \A q \in TreePaths \ {p} : f2[q] = f1[q]
        <3>1. File(saved) \in Node
            BY <1>3, FileNode
        <3> HIDE DEF f, p, saved
        <3> QED
            BY <1>1, <3>1 DEF Tree
    <2>3. \E n \in 1 .. MaxOps : b[n] = Whole(f1[p].data)
        <3>1. f1[p].data = saved
            BY <2>2 DEF File
        <3> QED
            BY <1>3, <3>1
    <2>4. Kept(f1, g, b)
        BY <2>1
    <2> HIDE DEF f1, f2, f, p
    <2>5. Kept(f2, g, b)
        BY <1>1, <2>2, <2>3, <2>4, KeptWhenCopied
    <2> QED
        BY <1>3, <2>5 DEF f2
<1> QED
    BY <1>2, <1>3

----------------------------------------------------------------------------
(***************************************************************************)
(* What holds whatever the order of the calls: the tree is well formed,    *)
(* and the backup an apply is going to take has not been taken.            *)
(***************************************************************************)
\* How many targets an apply has inspected.
Inspected(x) == IF x.pc \in {"mkdir", "next", "preimages"} THEN x.idx - 1 ELSE x.idx

NotTaken(cs, n) ==
    /\ entries[cs] = NoEntry => backups[cs][n].state # "whole"
    /\ \A h \in Handlers :
        /\ handler[h].pc \in Applying /\ handler[h].cs = cs /\ n > Inspected(handler[h])
        => backups[cs][n].state # "whole"

Fresh == \A cs \in ChangeSets : \A n \in 1 .. MaxOps : NotTaken(cs, n)

\* The records of an apply, with that of an operation just performed.
Written(x) == IF x.pc = "manifest" THEN Append(x.records, x.record) ELSE x.records

\* What the steps of an apply do besides the journal.
Continues(h) ==
    /\ UNCHANGED <<tree, backups, history>>
    /\ handler'[h].pc \in Applying \ {"perform"}
    /\ Written(handler'[h]) = Written(handler[h])
    /\ Inspected(handler'[h]) >= Inspected(handler[h])

Ends(h) ==
    /\ Files(tree') = Files(tree)
    /\ UNCHANGED <<backups, history, manifest>>
    /\ handler'[h].pc \notin Applying /\ handler[h].pc # "manifest"

Copies(h) ==
    LET r == RecordFor(Op(h), tree, handler[h].idx)
    IN /\ handler[h].pc = "preimages" /\ UNCHANGED <<tree, history, manifest>>
       /\ handler[h].idx \in 1 .. MaxOps /\ Op(h) \in Operation /\ Names(Op(h))
       /\ Moves(h, "perform", handler[h].idx, handler[h].images, r, handler[h].records)
       /\ backups' = IF r.backup = 0 THEN backups
                     ELSE [backups EXCEPT ![handler[h].cs][r.backup] =
                              Whole(tree[Op(h).path].data)]

TearsBackup(h) ==
    /\ handler[h].pc = "preimages" /\ UNCHANGED <<tree, history, manifest>>
    /\ handler[h].idx \in 1 .. MaxOps
    /\ backups' = [backups EXCEPT ![handler[h].cs][handler[h].idx] =
                      [state |-> "torn", data |-> <<>>]]
    /\ GoesTo(h, "fail")

Performs(h) ==
    /\ handler[h].pc = "perform" /\ CanPerform(tree, Op(h))
    /\ UNCHANGED <<backups, manifest>>
    /\ \/ tree' = Performed(tree, Op(h)) /\ GoesTo(h, "manifest") /\ UNCHANGED history
       \/ /\ tree' \in Interrupted(tree, Op(h)) /\ GoesTo(h, "fail")
          /\ RememberResidue({handler[h].cs})

\* The steps of an apply are of five kinds.
LEMMA ApplyCases ==
    ASSUME Types, NEW h \in Handlers, ApplyStep(h)
    PROVE  Continues(h) \/ Ends(h) \/ Copies(h) \/ TearsBackup(h) \/ Performs(h)
<1> DEFINE x == handler[h]
<1>0. HandlerTypes /\ x \in HandlerRecord /\ Fits(x) /\ tree \in Tree
    BY DEF Types, HandlerTypes
<1>1. x.pc \in Applying /\ x.pc # "idle"
    BY <1>0, ApplyProceeds, Places
<1>2. ASSUME Goto(h, "fail"), Files(tree') = Files(tree), UNCHANGED <<backups, history, manifest>>,
             x.pc # "manifest"
      PROVE  Ends(h)
    BY <1>0, <1>2, GotoMoves, Places DEF Ends, GoesTo, Moves, IsWith
<1>3. ASSUME UNCHANGED <<tree, backups, history>>, x.pc # "manifest",
             NEW pc \in Applying \ {"perform", "manifest"}, NEW images, NEW record,
             Moves(h, pc, x.idx, images, record, x.records),
             pc \in {"mkdir", "next", "preimages"} => x.pc \in {"mkdir", "next", "preimages"}
      PROVE  Continues(h)
    BY <1>0, <1>3 DEF Continues, Moves, IsWith, Written, Inspected, HandlerRecord
<1>4. ASSUME NEW ok \in BOOLEAN, MakeBackupDirectory(h, ok) PROVE Continues(h) \/ Ends(h)
    <2>1. UNCHANGED <<tree, manifest, backups, history>> /\ x.pc = "mkdir"
        BY <1>4 DEF MakeBackupDirectory, At
    <2>2. Goto(h, "next") \/ Goto(h, "fail")
        BY <1>4 DEF MakeBackupDirectory
    <2>3. CASE Goto(h, "next")
        BY <1>0, <1>3, <2>1, <2>3, GotoMoves, Places DEF GoesTo
    <2> QED
        BY <1>2, <2>1, <2>2, <2>3
<1>5. ASSUME NEW ok \in BOOLEAN, StorePreimage(h, ok) \/ StorePostimage(h, ok)
      PROVE  Continues(h)
    <2>1. /\ UNCHANGED <<tree, manifest, backups, history>>
          /\ x.pc \in {"preimages", "postimages"}
          /\ x.images # <<>> /\ ImageNext(h)
        BY <1>5 DEF StorePreimage, StorePostimage, At
    <2>2. Moves(h, x.pc, x.idx, Tail(x.images), x.record, x.records)
        BY <1>0, <2>1, ImageMoves
    <2> QED
        BY <1>1, <1>3, <2>1, <2>2
<1>6. ASSUME NEW ok \in BOOLEAN, FillManifest(h, ok) PROVE Continues(h) \/ Ends(h)
    <2>1. UNCHANGED <<tree, backups, history>> /\ x.pc = "fill"
        BY <1>6 DEF FillManifest, At
    <2>2. CASE ok = TRUE
        <3>1. Goto(h, "record")
            BY <1>6, <2>2 DEF FillManifest, AfterFill
        <3> QED
            BY <1>0, <1>3, <2>1, <3>1, GotoMoves, Places DEF GoesTo
    <2>3. CASE ok = FALSE
        <3>1. Goto(h, "fail") /\ UNCHANGED manifest
            BY <1>0, <1>6, <2>3, FillStep DEF FillManifest, AfterFill, Types
        <3> QED
            BY <1>2, <2>1, <3>1
    <2> QED
        BY <2>2, <2>3
<1>7. ASSUME NEW ok \in BOOLEAN, RecordOperation(h, ok) PROVE Continues(h) \/ Ends(h)
    <2>1. UNCHANGED <<tree, manifest, backups, history>> /\ x.pc = "record" /\ x.idx <= Len(x.ops)
        BY <1>0, <1>7 DEF RecordOperation, At, Fits, Applying
    <2>2. Op(h) \in Operation
        BY <1>0, <1>1, <2>1, PresentOperation
    <2>3. CASE ok = TRUE
        <3>1. Moves(h, "postimages", x.idx, NamedPaths(Op(h)), x.record, x.records)
            BY <1>0, <1>7, <2>2, <2>3, NamedMoves, Places DEF RecordOperation
        <3> QED
            BY <1>3, <2>1, <3>1, Places
    <2>4. CASE ok = FALSE
        <3>1. Moves(h, "fail", x.idx, NamedPaths(Op(h)), x.record, x.records)
            BY <1>0, <1>7, <2>2, <2>4, NamedMoves, Places DEF RecordOperation
        <3> QED
            BY <2>1, <3>1, Places DEF Ends, Moves, IsWith
    <2> QED
        BY <2>3, <2>4
<1>8. ASSUME NEW ok \in BOOLEAN, ApplyComplete(h, ok) PROVE Ends(h)
    <2>1. UNCHANGED <<tree, manifest, backups, history>> /\ x.pc = "next" /\ Return(h)
        BY <1>8 DEF ApplyComplete, At
    <2>2. handler'[h].pc = "idle"
        BY <1>0, <1>1, <2>1, ReturnProceeds, IdleRecord
    <2> QED
        BY <2>1, <2>2, Places DEF Ends
<1>9. CASE DeadlinePassed(h)
    <2>1. UNCHANGED <<tree, manifest, backups, history>> /\ x.pc = "next" /\ Goto(h, "fail")
        BY <1>9 DEF DeadlinePassed, At
    <2> QED
        BY <1>2, <2>1
<1>10. CASE NextOperation(h)
    <2>1. UNCHANGED <<tree, manifest, backups, history>> /\ x.pc = "next" /\ x.idx <= Len(x.ops)
        BY <1>0, <1>10 DEF NextOperation, At, LoopEnds, HandlerRecord
    <2>2. Op(h) \in Operation
        BY <1>0, <1>1, <2>1, PresentOperation
    <2>3. Moves(h, "preimages", x.idx, NamedPaths(Op(h)), x.record, x.records)
        BY <1>0, <1>10, <2>2, NamedMoves, Places DEF NextOperation
    <2> QED
        BY <1>3, <2>1, <2>3, Places
<1>11. CASE Inspect(h) \/ BackupFails(h)
    <2>1. UNCHANGED <<tree, manifest, history>> /\ x.pc = "preimages" /\ x.idx <= Len(x.ops)
        BY <1>0, <1>11 DEF Inspect, BackupFails, At, Fits, Applying
    <2>2. /\ Op(h) \in Operation /\ Names(Op(h))
          /\ x.idx \in 1 .. MaxOps /\ x.idx \in 0 .. MaxOps
        BY <1>0, <1>1, <2>1, PresentOperation
    <2>3. CASE BackupFails(h)
        BY <1>0, <2>1, <2>2, <2>3, GotoMoves, Places DEF BackupFails, TearsBackup
    <2>4. CASE Inspect(h)
        <3>1. CASE GoesTo(h, "fail") /\ UNCHANGED backups
            BY <2>1, <3>1, Places DEF Ends, GoesTo, Moves, IsWith
        <3>2. CASE ~(GoesTo(h, "fail") /\ UNCHANGED backups)
            BY <1>0, <2>1, <2>2, <2>4, <3>2, InspectMoves DEF Copies, Whole
        <3> QED
            BY <3>1, <3>2
    <2> QED
        BY <1>11, <2>3, <2>4
<1>12. CASE Perform(h) \/ PerformFails(h)
    <2>1. UNCHANGED <<manifest, backups>> /\ x.pc = "perform" /\ x.idx <= Len(x.ops)
        BY <1>0, <1>12 DEF Perform, PerformFails, At, Fits, Applying
    <2>2. Op(h) \in Operation /\ Names(Op(h))
        BY <1>0, <1>1, <2>1, PresentOperation
    <2>3. CASE Perform(h) /\ CanPerform(tree, Op(h))
        BY <1>0, <2>1, <2>3, GotoMoves, Places DEF Perform, Performs
    <2>4. CASE Perform(h) /\ ~CanPerform(tree, Op(h))
        <3>1. tree' = Refused(tree, Op(h)) /\ Goto(h, "fail") /\ UNCHANGED history
            BY <2>4 DEF Perform
        <3>2. Files(tree') = Files(tree)
            BY <1>0, <2>2, <3>1, FilesRefused DEF Names
        <3> QED
            BY <1>2, <2>1, <3>1, <3>2
    <2>5. CASE PerformFails(h) /\ tree' = tree
        <3>1. Goto(h, "fail") /\ UNCHANGED history
            BY <2>5 DEF PerformFails
        <3> QED
            BY <1>2, <2>1, <2>5, <3>1
    <2>6. CASE PerformFails(h) /\ tree' # tree
        BY <1>0, <2>1, <2>6, GotoMoves, Places DEF PerformFails, Performs
    <2> QED
        BY <1>12, <2>3, <2>4, <2>5, <2>6
<1>13. CASE TruncateManifest(h)
    <2>1. UNCHANGED <<tree, backups, history>> /\ x.pc = "manifest" /\ x.record \in RecordSet
        BY <1>0, <1>13 DEF TruncateManifest, At, Fits
    <2>2. Moves(h, "fill", x.idx, x.images, x.record, Append(x.records, x.record))
        BY <1>0, <1>13, <2>1, TruncateMoves
    <2>3. handler'[h].pc = "fill" /\ handler'[h].records = Append(x.records, x.record)
          /\ handler'[h].idx = x.idx /\ x.idx \in Nat
        BY <1>0, <2>2 DEF Moves, IsWith, HandlerRecord
    <2> QED
        BY <2>1, <2>3, Places DEF Continues, Written, Inspected
<1>14. CASE OperationDone(h)
    <2>1. UNCHANGED <<tree, manifest, backups, history>> /\ x.pc = "postimages" /\ x.idx \in Nat
        BY <1>0, <1>14 DEF OperationDone, At, HandlerRecord
    <2>2. Moves(h, "next", x.idx + 1, x.images, NoRecord, x.records)
        BY <1>0, <1>14, DoneMoves
    <2>3. handler'[h].pc = "next" /\ handler'[h].records = x.records /\ handler'[h].idx = x.idx + 1
        BY <2>2 DEF Moves, IsWith
    <2> QED
        BY <2>1, <2>3, Places DEF Continues, Written, Inspected
<1> QED
    BY <1>4, <1>5, <1>6, <1>7, <1>8, <1>9, <1>10, <1>11, <1>12, <1>13, <1>14 DEF ApplyStep

\* An apply writes the manifest and the backups of its change set only.
LEMMA ApplyElsewhere ==
    ASSUME Types, NEW h \in Handlers, ApplyStep(h)
    PROVE  \A d \in ChangeSets \ {handler[h].cs} :
                manifest'[d] = manifest[d] /\ backups'[d] = backups[d]
<1>0. manifest \in [ChangeSets -> ManifestRecord] /\ backups \in [ChangeSets -> [1 .. MaxOps -> BackupRecord]]
    BY DEF Types, StoreTypes
<1>1. UNCHANGED manifest \/ \E m : manifest' = [manifest EXCEPT ![handler[h].cs] = m]
    BY DEF ApplyStep, MakeBackupDirectory, StorePreimage, StorePostimage, FillManifest,
        RecordOperation, ApplyComplete, DeadlinePassed, NextOperation, Inspect, BackupFails,
        Perform, PerformFails, TruncateManifest, OperationDone
<1>2. UNCHANGED backups \/ \E n, b : backups' = [backups EXCEPT ![handler[h].cs][n] = b]
    <2>1. UNCHANGED backups \/ Copies(h) \/ TearsBackup(h)
        BY ApplyCases DEF Continues, Ends, Performs
    <2> QED
        BY <2>1, Zenon DEF Copies, TearsBackup
<1>3. \A d \in ChangeSets \ {handler[h].cs} : manifest'[d] = manifest[d]
    BY <1>0, <1>1
<1>4. \A d \in ChangeSets \ {handler[h].cs} : backups'[d] = backups[d]
    BY <1>0, <1>2
<1> QED
    BY <1>3, <1>4

\* One backup is written.
LEMMA OneBackup ==
    ASSUME StoreTypes, NEW cs \in ChangeSets, NEW n \in 1 .. MaxOps, NEW b,
           backups' = [backups EXCEPT ![cs][n] = b]
    PROVE  /\ backups'[cs][n] = b
           /\ \A k \in (1 .. MaxOps) \ {n} : backups'[cs][k] = backups[cs][k]
           /\ \A d \in ChangeSets \ {cs} : backups'[d] = backups[d]
BY DEF StoreTypes

\* What a step of an apply does to the backups.
Takes(h, n) ==
    /\ \A k \in (1 .. MaxOps) \ {n} : backups'[handler[h].cs][k] = backups[handler[h].cs][k]
    /\ n > Inspected(handler[h])
    /\ handler'[h].pc \in Applying => Inspected(handler'[h]) >= n

\* A step of an apply leaves the backups or takes the one of its operation.
LEMMA ApplyTakes ==
    ASSUME Types, NEW h \in Handlers, ApplyStep(h)
    PROVE  \/ /\ UNCHANGED backups
              /\ handler'[h].pc \in Applying => Inspected(handler'[h]) >= Inspected(handler[h])
           \/ handler[h].idx \in 1 .. MaxOps /\ Takes(h, handler[h].idx)
<1>0. handler[h] \in HandlerRecord /\ handler[h].cs \in ChangeSets /\ StoreTypes
    <2>1. HandlerTypes /\ StoreTypes
        BY DEF Types
    <2>2. handler[h].pc # "idle"
        BY <2>1, ApplyProceeds, Places
    <2> QED
        BY <2>1, <2>2, BusyChangeSet DEF HandlerTypes
<1>1. CASE Continues(h) \/ Ends(h)
    BY <1>1 DEF Continues, Ends
<1>2. CASE Performs(h)
    BY <1>0, <1>2, Places DEF Performs, GoesTo, Moves, IsWith, Inspected, HandlerRecord
<1>3. CASE TearsBackup(h)
    <2>1. handler'[h].pc = "fail"
        BY <1>3 DEF TearsBackup, GoesTo, Moves, IsWith
    <2>2. /\ handler[h].idx \in 1 .. MaxOps
          /\ \A k \in (1 .. MaxOps) \ {handler[h].idx} :
                backups'[handler[h].cs][k] = backups[handler[h].cs][k]
        BY <1>0, <1>3, OneBackup DEF TearsBackup
    <2>3. handler[h].idx > Inspected(handler[h])
        BY <1>3, <2>2 DEF TearsBackup, Inspected
    <2> QED
        BY <2>1, <2>2, <2>3, Places DEF Takes
<1>4. CASE Copies(h)
    <2>1. /\ handler'[h].pc = "perform" /\ handler'[h].idx = handler[h].idx
          /\ handler[h].pc = "preimages" /\ handler[h].idx \in 1 .. MaxOps
        BY <1>4 DEF Copies, Moves, IsWith
    <2>2. \A k \in (1 .. MaxOps) \ {handler[h].idx} :
            backups'[handler[h].cs][k] = backups[handler[h].cs][k]
        <3> DEFINE r == RecordFor(Op(h), tree, handler[h].idx)
        <3>1. r.backup \in {0, handler[h].idx}
            BY DEF RecordFor
        <3>2. \/ r.backup = 0 /\ backups' = backups
              \/ r.backup # 0 /\ \E b : backups' = [backups EXCEPT ![handler[h].cs][r.backup] = b]
            BY <1>4, Zenon DEF Copies
        <3> HIDE DEF r
        <3>3. CASE r.backup # 0
            <4>1. PICK b : backups' = [backups EXCEPT ![handler[h].cs][r.backup] = b]
                BY <3>2, <3>3
            <4>2. backups' = [backups EXCEPT ![handler[h].cs][handler[h].idx] = b]
                BY <3>1, <3>3, <4>1
            <4> QED
                BY <1>0, <2>1, <4>2, OneBackup
        <3> QED
            BY <3>2, <3>3
    <2> QED
        BY <1>0, <2>1, <2>2 DEF Takes, Inspected
<1> QED
    BY <1>1, <1>2, <1>3, <1>4, ApplyCases

\* The backups that are not taken yet are those of operations to come.
LEMMA ApplyFresh ==
    ASSUME Accounts, Fresh, NEW h \in Handlers, ApplyStep(h)
    PROVE  Fresh'
<1>0. /\ Types /\ HandlerTypes
      /\ backups \in [ChangeSets -> [1 .. MaxOps -> BackupRecord]]
    BY DEF Accounts, Types, StoreTypes
<1>1. /\ Proceeds(h) /\ handler[h].pc \in Applying /\ SameKnown
      /\ \A d \in ChangeSets \ {handler[h].cs} : backups'[d] = backups[d]
    BY <1>0, ApplyProceeds, ApplyKnows, ApplyElsewhere
<1>2. PICK cs \in ChangeSets : cs = handler[h].cs
    BY <1>0, <1>1, BusyChangeSet, Places
<1>3. entries'[cs] # NoEntry /\ \A d \in ChangeSets : entries'[d] = NoEntry => entries[d] = NoEntry
    BY <1>1, <1>2 DEF SameKnown, Accounts, IsTracked, Tracks
<1>4. \A g \in Handlers \ {h} :
        handler'[g] = handler[g] /\ (handler[g].pc \in Applying => handler[g].cs # cs)
    BY <1>0, <1>1, <1>2 DEF Proceeds, HandlerTypes, Accounts, OneApply
<1>5. handler'[h].pc \in Applying => handler'[h].cs = cs
    BY <1>1, <1>2, Places DEF Proceeds
<1>6. ASSUME NEW n \in 1 .. MaxOps, handler'[h].pc \in Applying, n > Inspected(handler'[h])
      PROVE  backups'[cs][n].state # "whole"
    <2>1. n > Inspected(handler[h]) => backups[cs][n].state # "whole"
        BY <1>1, <1>2 DEF Fresh, NotTaken
    <2>2. Inspected(handler[h]) \in Int /\ Inspected(handler'[h]) \in Int
        <3>1. HandlerTypes'
            BY <1>0, ApplyHandlerTypes
        <3> QED
            BY <1>0, <3>1 DEF Inspected, HandlerTypes, HandlerRecord
    <2>3. CASE UNCHANGED backups /\ Inspected(handler'[h]) >= Inspected(handler[h])
        BY <1>6, <2>1, <2>2, <2>3
    <2>4. ASSUME NEW m \in 1 .. MaxOps, Takes(h, m) PROVE backups'[cs][n].state # "whole"
        <3>1. n > m /\ n > Inspected(handler[h])
            BY <1>6, <2>2, <2>4, RequestForm DEF Takes
        <3>2. backups'[cs][n] = backups[cs][n]
            BY <1>0, <1>2, <2>4, <3>1 DEF Takes
        <3> QED
            BY <2>1, <3>1, <3>2
    <2> QED
        BY <1>0, <1>6, <2>3, <2>4, ApplyTakes
<1> SUFFICES ASSUME NEW d \in ChangeSets, NEW n \in 1 .. MaxOps PROVE NotTaken(d, n)'
    BY DEF Fresh
<1>7. CASE d = cs
    <2>1. ASSUME NEW g \in Handlers, handler'[g].pc \in Applying, handler'[g].cs = cs,
                 n > Inspected(handler'[g])
          PROVE  backups'[cs][n].state # "whole"
        BY <1>4, <1>6, <2>1
    <2> QED
        BY <1>3, <1>7, <2>1 DEF NotTaken
<1>8. CASE d # cs
    <2>1. NotTaken(d, n) /\ backups'[d] = backups[d]
        BY <1>1, <1>2, <1>8 DEF Fresh
    <2>2. ASSUME NEW g \in Handlers, handler'[g].pc \in Applying, handler'[g].cs = d,
                 n > Inspected(handler'[g])
          PROVE  backups'[d][n].state # "whole"
        BY <1>4, <1>5, <1>8, <2>1, <2>2 DEF NotTaken
    <2> QED
        BY <1>3, <2>1, <2>2 DEF NotTaken
<1> QED
    BY <1>7, <1>8

\* The other steps take none.
LEMMA QuietFresh ==
    ASSUME Types, Fresh, UNCHANGED backups,
           \A d \in ChangeSets : entries'[d] = NoEntry => entries[d] = NoEntry,
           \A g \in Handlers : handler'[g] = handler[g] \/ handler'[g].pc \notin Applying
    PROVE  Fresh'
<1> SUFFICES ASSUME NEW d \in ChangeSets, NEW n \in 1 .. MaxOps PROVE NotTaken(d, n)'
    BY DEF Fresh
<1>1. NotTaken(d, n)
    BY DEF Fresh
<1> QED
    BY <1>1 DEF NotTaken

\* A change set begins with none.
LEMMA BeginFresh ==
    ASSUME Types, Fresh, NEW h \in Handlers, NEW cs \in ChangeSets, NEW request \in Requests,
           ApplyBegin(h, cs, request, TRUE)
    PROVE  Fresh'
<1>0. HandlerTypes /\ JournalTypeOK
    BY DEF Types
<1>1. /\ handler' = [handler EXCEPT ![h] = handler'[h]]
      /\ handler'[h].cs = cs /\ UNCHANGED backups
    BY <1>0, BeginMoves DEF ApplyBegin
<1>2. /\ entries[cs] = NoEntry /\ entries' = [entries EXCEPT ![cs] = NewEntry]
      /\ NewEntry # NoEntry
    BY NewEntryTyped, NullsAreFresh DEF ApplyBegin, Begin, Known
<1>3. \A d \in ChangeSets : entries'[d] = NoEntry => entries[d] = NoEntry
    BY <1>2
<1>4. \A g \in Handlers \ {h} : handler'[g] = handler[g]
    BY <1>0, <1>1 DEF HandlerTypes
<1> SUFFICES ASSUME NEW d \in ChangeSets, NEW n \in 1 .. MaxOps PROVE NotTaken(d, n)'
    BY DEF Fresh
<1>5. NotTaken(d, n)
    BY DEF Fresh
<1> QED
    BY <1>1, <1>2, <1>3, <1>4, <1>5 DEF NotTaken

\* The tree stays well formed: it is changed by four steps.
LEMMA WellFormedStep ==
    ASSUME Types, WellFormed(tree), Next PROVE WellFormed(tree')
<1>0. tree \in Tree /\ HandlerTypes /\ StoreTypes
    BY DEF Types
<1>1. ASSUME NEW h \in Handlers, Perform(h) \/ PerformFails(h) PROVE WellFormed(tree')
    <2>1. handler[h].pc \in Applying /\ handler[h].idx <= Len(handler[h].ops)
        BY <1>0, <1>1, Places DEF Perform, PerformFails, At, HandlerTypes, Fits
    <2>2. Op(h) \in Operation /\ Names(Op(h)) /\ Op(h).text \in Texts
        BY <1>0, <2>1, PresentOperation DEF Operation
    <2>3. /\ CanPerform(tree, Op(h)) => WellFormed(Performed(tree, Op(h)))
          /\ WellFormed(Refused(tree, Op(h)))
          /\ CanPerform(tree, Op(h)) => \A u \in Interrupted(tree, Op(h)) : WellFormed(u)
        BY <1>0, <2>2, WellPerformed
    <2> QED
        BY <1>1, <2>3 DEF Perform, PerformFails
<1>2. ASSUME NEW h \in Handlers, UndoRecord(h) \/ UndoFails(h) PROVE WellFormed(tree')
    <2> DEFINE r == handler[h].records[handler[h].idx]
               saved == Saved(handler[h].cs, r)
    <2>1. At(h, "undo") /\ handler[h].idx > 0
        BY <1>2 DEF UndoRecord, UndoFails
    <2>2. r \in RecordSet /\ Names(r) /\ saved \in Seq(Texts)
        BY <1>0, <2>1, PresentRecord, SavedTyped, BusyChangeSet DEF RecordSet, At
    <2>3. /\ CanUndo(tree, r) => WellFormed(Undone(tree, r, saved))
          /\ WellFormed(UndoRefused(tree, r))
          /\ CanUndo(tree, r) => \A u \in UndoInterrupted(tree, r, saved) : WellFormed(u)
        BY <1>0, <2>2, WellUndone
    <2>4. CASE UndoRecord(h)
        <3>1. IF CanUndo(tree, r) THEN tree' = Undone(tree, r, saved) ELSE tree' = UndoRefused(tree, r)
            BY <2>4 DEF UndoRecord
        <3> HIDE DEF r, saved
        <3> QED
            BY <2>3, <3>1
    <2>5. CASE UndoFails(h)
        <3>1. CanUndo(tree, r) /\ tree' \in UndoInterrupted(tree, r, saved)
            BY <2>5 DEF UndoFails
        <3> HIDE DEF r, saved
        <3> QED
            BY <2>3, <3>1
    <2> QED
        BY <1>2, <2>4, <2>5
<1>3. CASE \A h \in Handlers : /\ ~Perform(h) /\ ~PerformFails(h)
                               /\ ~UndoRecord(h) /\ ~UndoFails(h)
    <2>1. tree' = tree
        BY <1>3 DEF Next, CallApply, HandlersOrCrash, ApplyStep, RollbackStep, ApplyBegin,
            MakeBackupDirectory, StorePreimage, StorePostimage, FillManifest, RecordOperation,
            ApplyComplete, DeadlinePassed, NextOperation, Inspect, BackupFails, TruncateManifest,
            OperationDone, RollbackStart, RollbackReturns, FailReturns, CrashAndRestart
    <2> QED
        BY <2>1
<1> QED
    BY <1>1, <1>2, <1>3

\* A call that gives up, and each step of a rollback but the first, is a step
\* of a busy call that leaves the other change sets.
LEMMA OtherProceeds ==
    ASSUME Types, TriedForm, NEW h \in Handlers,
           \/ UndoRecord(h) \/ UndoFails(h)
           \/ \E ok \in BOOLEAN : RollbackReturns(h, ok) \/ FailReturns(h, ok)
    PROVE  /\ Proceeds(h) /\ handler[h].pc \notin Applying /\ SameKnown
           /\ UNCHANGED <<manifest, backups>>
<1>0. HandlerTypes /\ JournalTypeOK
    BY DEF Types
<1>1. CASE UndoRecord(h) \/ UndoFails(h)
    <2>1. UNCHANGED <<entries, file, manifest, backups>> /\ handler[h].pc = "undo"
        BY <1>1 DEF UndoRecord, UndoFails, At
    <2>2. Proceeds(h)
        BY <1>0, <1>1, <2>1, UndoMoves, MovesProceed, Places DEF GoesTo
    <2> QED
        BY <2>1, <2>2, Places DEF SameKnown
<1>2. ASSUME NEW ok \in BOOLEAN, RollbackReturns(h, ok) \/ FailReturns(h, ok)
      PROVE  /\ Proceeds(h) /\ handler[h].pc \notin Applying /\ SameKnown
             /\ UNCHANGED <<manifest, backups>>
    <2>1. /\ handler[h].pc \in {"undo", "fail"} /\ Return(h) /\ UNCHANGED <<manifest, backups>>
          /\ handler[h].pc # "idle" /\ handler[h].pc \notin Applying
        BY <1>2, Places DEF RollbackReturns, FailReturns, At
    <2>2. PICK cs \in ChangeSets : cs = handler[h].cs
        BY <1>0, <2>1, BusyChangeSet
    <2>3. CASE RollbackReturns(h, ok)
        <3>1. cs \in history.tried
            BY <2>2, <2>3 DEF TriedForm, RollbackReturns, At
        <3>2. history'.tried = history.tried
            BY <2>3, RolledBackFields DEF RollbackReturns, Types
        <3>3. Rewrites(cs)
            BY <1>0, <2>2, <2>3, SettleStep DEF RollbackReturns
        <3> QED
            BY <1>0, <2>1, <3>1, <3>2, <3>3, ReturnProceeds, RewriteKnows
    <2>4. CASE FailReturns(h, ok)
        <3>1. Rewrites(cs) /\ entries'[cs].status = "failed"
            BY <1>0, <2>2, <2>4, SettleRewrites DEF FailReturns, MarkFailed, Status
        <3> QED
            BY <1>0, <2>1, <3>1, ReturnProceeds, RewriteKnows
    <2> QED
        BY <1>2, <2>3, <2>4
<1> QED
    BY <1>1, <1>2

\* Files lie in directories, and no apply overwrites a backup.
Grounded == WellFormed(tree) /\ Fresh

\* Every step keeps both.
LEMMA GroundedStep == ASSUME Accounts, Stacked, Grounded, [Next]_vars PROVE Grounded'
<1>0. Types /\ HandlerTypes /\ Fresh /\ WellFormed(tree) /\ TriedForm
    BY DEF Accounts, Types, Grounded, Stacked
<1>1. CASE UNCHANGED vars
    <2>1. Fresh'
        BY <1>0, <1>1, QuietFresh DEF vars, bridgeVars
    <2> QED
        BY <1>0, <1>1, <2>1 DEF Grounded, vars, bridgeVars
<1>2. CASE Next
    <2>1. WellFormed(tree')
        BY <1>0, <1>2, WellFormedStep
    <2>2. ASSUME NEW h \in Handlers, NEW cs \in ChangeSets, NEW request \in Requests,
                 NEW ok \in BOOLEAN, ApplyBegin(h, cs, request, ok)
          PROVE  Fresh'
        <3>1. CASE ok = TRUE
            BY <1>0, <2>2, <3>1, BeginFresh
        <3>2. CASE ok = FALSE
            BY <1>0, <2>2, <3>2, QuietFresh DEF ApplyBegin, Begin, Persist
        <3> QED
            BY <3>1, <3>2
    <2>3. ASSUME NEW h \in Handlers, ApplyStep(h) PROVE Fresh'
        BY <1>0, <2>3, ApplyFresh
    <2>4. ASSUME NEW h \in Handlers, NEW cs \in ChangeSets, RollbackStart(h, cs) PROVE Fresh'
        <3>1. UNCHANGED <<entries, backups>> /\ handler'[h].pc = "undo"
              /\ handler' = [handler EXCEPT ![h] = handler'[h]]
            BY <1>0, <2>4, StartMoves DEF RollbackStart, Types
        <3>2. \A g \in Handlers : handler'[g] = handler[g] \/ handler'[g].pc \notin Applying
            BY <1>0, <3>1, Places DEF HandlerTypes
        <3> QED
            BY <1>0, <3>1, <3>2, QuietFresh
    <2>5. ASSUME NEW h \in Handlers,
                 \/ UndoRecord(h) \/ UndoFails(h)
                 \/ \E ok \in BOOLEAN : RollbackReturns(h, ok) \/ FailReturns(h, ok)
          PROVE  Fresh'
        <3>1. /\ Proceeds(h) /\ handler[h].pc \notin Applying /\ SameKnown
              /\ UNCHANGED backups
            BY <1>0, <2>5, OtherProceeds
        <3>2. \A g \in Handlers : handler'[g] = handler[g] \/ handler'[g].pc \notin Applying
            BY <1>0, <3>1 DEF HandlerTypes, Proceeds
        <3>3. \A d \in ChangeSets : entries'[d] = NoEntry => entries[d] = NoEntry
            BY <3>1 DEF SameKnown
        <3> QED
            BY <1>0, <3>1, <3>2, <3>3, QuietFresh
    <2>6. ASSUME CrashAndRestart PROVE Fresh'
        <3>1. /\ UNCHANGED backups /\ entries' = file
              /\ \A g \in Handlers : handler'[g].pc \notin Applying
            BY <2>6, IdleRecord, Places DEF CrashAndRestart, Reopen
        <3>2. \A d \in ChangeSets : entries'[d] = NoEntry => entries[d] = NoEntry
            BY <3>1 DEF Accounts, IsSound, Sound
        <3> QED
            BY <1>0, <3>1, <3>2, QuietFresh
    <2>7. Fresh'
        BY <1>2, <2>2, <2>3, <2>4, <2>5, <2>6
        DEF Next, CallApply, HandlersOrCrash, RollbackStep
    <2> QED
        BY <2>1, <2>7 DEF Grounded
<1> QED
    BY <1>1, <1>2

\* A project starts as a tree, without backups.
LEMMA GroundedInit == Init => Grounded
<1> SUFFICES ASSUME Init PROVE Grounded
    OBVIOUS
<1>1. WellFormed(tree)
    BY TreesAreWellFormed DEF Init
<1>2. \A h \in Handlers : handler[h].pc \notin Applying
    BY IdleRecord, Places DEF Init
<1>3. \A cs \in ChangeSets : \A n \in 1 .. MaxOps : backups[cs][n].state = "none"
    BY DEF Init, NoBackup
<1>4. Fresh
    BY <1>2, <1>3 DEF Fresh, NotTaken
<1> QED
    BY <1>1, <1>4 DEF Grounded

----------------------------------------------------------------------------
(***************************************************************************)
(* What makes a rollback restore and a backup worth having.  The files as  *)
(* they are at the top of the stack, and as the change set above found     *)
(* them below, are what the records of a change set undo.                  *)
(***************************************************************************)

\* The files a change set found, and those above number i of the stack.
Start(cs) == Files(history.before[cs])
Level(i) == IF i = Len(history.stack) THEN Files(tree) ELSE Start(history.stack[i + 1])

\* What is kept, of a change set that is not set apart, and what its manifest
\* undoes when nobody is at work on it.
Exempt(cs) == cs \in history.retried \cup (history.residue \cap history.tried)
KeptAs(cs, f) == ~Exempt(cs) => Kept(f, Start(cs), backups[cs])

NotApplied(cs) == \A h \in Handlers : handler[h].pc \in Applying => handler[h].cs # cs
SettledAs(cs, f) ==
    /\ cs \notin history.residue \cup history.tried
    /\ manifest[cs].state = "whole"
    /\ NotApplied(cs)
    => Undoable(f, Start(cs), backups[cs], manifest[cs].records, Len(manifest[cs].records))

\* The same of a call in progress, by the records it has.
Applied(h) ==
    LET x == handler[h]
    IN x.pc \in Applying =>
        Undoable(Files(tree), Start(x.cs), backups[x.cs], Written(x), Len(Written(x)))

WholeBackups(b, rs) ==
    \A i \in 1 .. Len(rs) : rs[i].backup # 0 => b[rs[i].backup].state = "whole"

Undoing(h) ==
    LET x == handler[h]
    IN x.pc = "undo" =>
        /\ WholeBackups(backups[x.cs], x.records)
        /\ x.cs \notin history.residue \cup history.retried =>
            Undoable(Files(tree), Start(x.cs), backups[x.cs], x.records, x.idx)

\* An operation about to be performed is in its record, and copied.
Ready(h) ==
    LET x == handler[h]
    IN x.pc = "perform" =>
        /\ x.record = RecordFor(Op(h), tree, x.idx)
        /\ IsFile(tree, Op(h).path) => backups[x.cs][x.idx] = Whole(tree[Op(h).path].data)

InHand(h) == Applied(h) /\ Undoing(h) /\ Ready(h)

\* After a rollback nothing has followed, the files are those of the start.
BackToStart ==
    history.undone # NoEntry /\ history.undone \notin history.retried
        => Files(tree) = Start(history.undone)

Layers ==
    \A i \in 1 .. Len(history.stack) :
        KeptAs(history.stack[i], Level(i)) /\ SettledAs(history.stack[i], Level(i))

Restorable ==
    /\ Layers
    /\ history.stack # <<>> => \A h \in Handlers : InHand(h)
    /\ BackToStart

\* A busy call has the top of the stack.
LEMMA TopLevel ==
    ASSUME Types, Stacked, NEW h \in Handlers, handler[h].pc # "idle", history.stack # <<>>
    PROVE  LET n == Len(history.stack)
           IN /\ n \in Nat \ {0} /\ history.stack[n] = handler[h].cs
              /\ Level(n) = Files(tree) /\ Alone(h) /\ history.undone = NoEntry
<1> DEFINE s == history.stack
<1>1. Alone(h) /\ Last(s) = handler[h].cs /\ s \in Seq(ChangeSets) /\ s # <<>>
    BY DEF Stacked, InOrder, OnTop, StackForm
<1>2. Level(Len(s)) = Files(tree)
    BY DEF Level
<1>3. Last(s) = s[Len(s)] /\ Len(s) \in Nat \ {0}
    <2> HIDE DEF s
    <2> QED
        BY <1>1, FrontOf, Zenon
<1>4. history.undone = NoEntry
    <2>1. history.undone # NoEntry => history.undone = handler[h].cs
        BY DEF Stacked, InOrder
    <2>2. \A i \in 1 .. Len(s) : s[i] # history.undone
        BY DEF Stacked, StackForm
    <2> HIDE DEF s
    <2> QED
        BY <1>1, <1>3, <2>1, <2>2
<1> QED
    BY <1>1, <1>2, <1>3, <1>4

\* A change set whose store stays is worth what it was.
LEMMA LayerKept ==
    ASSUME NEW d, NEW f, KeptAs(d, f), SettledAs(d, f),
           history'.before[d] = history.before[d],
           history.residue \subseteq history'.residue, history.tried \subseteq history'.tried,
           history.retried \subseteq history'.retried,
           manifest'[d] = manifest[d], backups'[d] = backups[d],
           NotApplied(d)
    PROVE  /\ ~Exempt(d)' => Kept(f, Start(d)', backups'[d])
           /\ /\ d \notin history'.residue \cup history'.tried
              /\ manifest'[d].state = "whole"
              => Undoable(f, Start(d)', backups'[d], manifest'[d].records,
                          Len(manifest'[d].records))
<1>1. Start(d)' = Start(d)
    BY DEF Start
<1> QED
    BY <1>1 DEF KeptAs, SettledAs, Exempt

\* A step of a busy call keeps what lies below its change set.
LEMMA BusyStep ==
    ASSUME Types, Stacked, Restorable, NEW h \in Handlers, NEW cs \in ChangeSets,
           cs = handler[h].cs, Proceeds(h), SameStack, history.residue \subseteq history'.residue,
           \A d \in ChangeSets \ {cs} : manifest'[d] = manifest[d] /\ backups'[d] = backups[d],
           history.stack # <<>> =>
                KeptAs(cs, Files(tree))' /\ SettledAs(cs, Files(tree))' /\ InHand(h)'
    PROVE  Restorable'
<1> DEFINE s == history.stack
<1>0. /\ handler[h].pc # "idle" /\ history'.stack = s /\ s \in Seq(ChangeSets)
      /\ handler \in [Handlers -> HandlerRecord]
    BY DEF Proceeds, SameStack, Stacked, StackForm, Types, HandlerTypes
<1>1. BackToStart'
    <2>1. history.undone # NoEntry => history.undone \in history.retried
        BY <1>0 DEF Stacked, InOrder
    <2> QED
        BY <2>1 DEF BackToStart, SameStack
<1>2. CASE s = <<>>
    BY <1>0, <1>1, <1>2 DEF Restorable, Layers
<1>3. CASE s # <<>>
    <2>0. /\ Len(s) \in Nat \ {0} /\ s[Len(s)] = cs
          /\ \A g \in Handlers \ {h} : handler[g].pc = "idle"
        BY <1>0, <1>3, TopLevel DEF Alone
    <2>1. \A g \in Handlers \ {h} : handler'[g] = handler[g]
        BY <1>0 DEF Proceeds
    <2>2. \A g \in Handlers : InHand(g)'
        <3>1. ASSUME NEW g \in Handlers \ {h} PROVE InHand(g)'
            <4>1. handler'[g].pc = "idle"
                BY <2>0, <2>1
            <4> QED
                BY <4>1, Places DEF InHand, Applied, Undoing, Ready
        <3> QED
            BY <1>3, <3>1
    <2>3. ASSUME NEW i \in 1 .. Len(s)
          PROVE  KeptAs(s[i], Level(i))' /\ SettledAs(s[i], Level(i))'
        <3>1. CASE i = Len(s)
            <4>1. Level(i)' = Files(tree') /\ s[i] = cs /\ s'[i] = cs
                BY <1>0, <2>0, <3>1 DEF Level
            <4>2. KeptAs(cs, Files(tree))' /\ SettledAs(cs, Files(tree))'
                BY <1>3
            <4> HIDE DEF s
            <4> QED
                BY <4>1, <4>2 DEF KeptAs, SettledAs, Start, Exempt, NotApplied
        <3>2. CASE i # Len(s)
            <4>1. PICK d \in ChangeSets : d = s[i]
                BY <1>0
            <4>2. d # cs
                BY <2>0, <3>2, <4>1 DEF Stacked, StackForm
            <4>3. NotApplied(d)
                BY <2>0, <4>2, Places DEF NotApplied
            <4>4. Level(i)' = Level(i)
                BY <1>0, <2>0, <3>2 DEF Level, Start, SameStack
            <4>5. PICK f : f = Level(i)
                OBVIOUS
            <4>6. KeptAs(d, f) /\ SettledAs(d, f)
                BY <4>1, <4>5 DEF Restorable, Layers
            <4>7. /\ ~Exempt(d)' => Kept(f, Start(d)', backups'[d])
                  /\ /\ d \notin history'.residue \cup history'.tried
                     /\ manifest'[d].state = "whole"
                     => Undoable(f, Start(d)', backups'[d], manifest'[d].records,
                                 Len(manifest'[d].records))
                BY <4>2, <4>3, <4>6, LayerKept DEF SameStack
            <4>8. s'[i] = d
                BY <1>0, <4>1
            <4> HIDE DEF s
            <4> QED
                BY <4>4, <4>5, <4>7, <4>8 DEF KeptAs, SettledAs, Start, Exempt
        <3> QED
            BY <3>1, <3>2
    <2>4. Layers'
        BY <1>0, <2>3 DEF Layers
    <2> QED
        BY <1>1, <2>2, <2>4 DEF Restorable
<1> QED
    BY <1>2, <1>3

----------------------------------------------------------------------------
\* What is known of a busy call on top of the stack.
LEMMA TopFacts ==
    ASSUME Types, Stacked, Restorable, NEW h \in Handlers, handler[h].pc # "idle",
           history.stack # <<>>, NEW cs, cs = handler[h].cs
    PROVE  /\ cs \in ChangeSets /\ Alone(h)
           /\ KeptAs(cs, Files(tree)) /\ SettledAs(cs, Files(tree)) /\ InHand(h)
           /\ handler[h] \in HandlerRecord /\ Fits(handler[h])
<1> DEFINE n == Len(history.stack)
<1>1. /\ n \in Nat \ {0} /\ history.stack[n] = cs /\ Level(n) = Files(tree) /\ Alone(h)
    BY TopLevel
<1>2. n \in 1 .. n
    BY <1>1
<1>3. KeptAs(history.stack[n], Level(n)) /\ SettledAs(history.stack[n], Level(n)) /\ InHand(h)
    BY <1>2 DEF Restorable, Layers
<1>4. cs \in ChangeSets
    BY BusyChangeSet DEF Types
<1> HIDE DEF n
<1>5. KeptAs(cs, Files(tree)) /\ SettledAs(cs, Files(tree))
    BY <1>1, <1>3
<1> QED
    BY <1>1, <1>3, <1>4, <1>5 DEF Types, HandlerTypes

\* What a step leaves to the top of the stack.
TopKept(h, cs) == KeptAs(cs, Files(tree)) /\ SettledAs(cs, Files(tree)) /\ InHand(h)

\* A step that writes no file and no backup.
LEMMA ContinueTop ==
    ASSUME Types, NEW h \in Handlers, NEW cs \in ChangeSets, cs = handler[h].cs,
           handler[h].pc \in Applying, Proceeds(h), SameStack, TopKept(h, cs), Continues(h)
    PROVE  TopKept(h, cs)'
<1>1. /\ UNCHANGED <<tree, backups, history>>
      /\ handler'[h].pc \in Applying /\ handler'[h].pc # "perform" /\ handler'[h].pc # "undo"
      /\ Written(handler'[h]) = Written(handler[h]) /\ handler'[h].cs = cs
    BY Places DEF Continues, Proceeds
<1>2. KeptAs(cs, Files(tree))'
    BY <1>1 DEF TopKept, KeptAs, Start, Exempt
<1>3. SettledAs(cs, Files(tree))'
    BY <1>1 DEF SettledAs, NotApplied
<1>4. Applied(h)'
    BY <1>1 DEF TopKept, InHand, Applied, Start
<1>5. Undoing(h)' /\ Ready(h)'
    BY <1>1 DEF Undoing, Ready
<1> QED
    BY <1>2, <1>3, <1>4, <1>5 DEF TopKept, InHand

\* The manifest of an apply, when whole, has every record the apply has, but
\* that of an operation just performed.
LEMMA ManifestHasAll ==
    ASSUME Accounts, NEW h \in Handlers, handler[h].pc \in Applying, handler[h].pc # "manifest",
           manifest[handler[h].cs].state = "whole"
    PROVE  manifest[handler[h].cs].records = Written(handler[h])
<1>1. manifest[handler[h].cs] = ManifestOf(handler[h])
    BY DEF Accounts, IsTracked, Tracks
<1> QED
    BY <1>1 DEF ManifestOf, Written, WholeManifest, TornManifest, NoManifest

\* The backup an apply writes is none that is whole, or that a record names.
LEMMA BackupsGrow ==
    ASSUME Accounts, Fresh, NEW h \in Handlers, NEW cs \in ChangeSets, cs = handler[h].cs,
           handler[h].pc = "preimages", handler[h].idx \in 1 .. MaxOps,
           \A k \in (1 .. MaxOps) \ {handler[h].idx} : backups'[cs][k] = backups[cs][k]
    PROVE  \A f, g : /\ Kept(f, g, backups[cs]) => Kept(f, g, backups'[cs])
                     /\ LET rs == handler[h].records
                        IN Undoable(f, g, backups[cs], rs, Len(rs))
                              => Undoable(f, g, backups'[cs], rs, Len(rs))
<1> DEFINE rs == handler[h].records
           b == backups[cs]
           b2 == backups'[cs]
<1>0. handler[h] \in HandlerRecord /\ Fits(handler[h]) /\ handler[h].pc \in Applying
    BY Places DEF Accounts, Types, HandlerTypes
<1>1. b[handler[h].idx].state # "whole"
    BY <1>0 DEF Fresh, NotTaken, Inspected, HandlerRecord
<1>2. \A n \in 1 .. MaxOps : b[n].state = "whole" => b2[n] = b[n]
    BY <1>1
<1>3. rs \in Seq(RecordSet) /\ Len(rs) \in Nat /\ Len(rs) = handler[h].idx - 1
    BY <1>0 DEF HandlerRecord, Fits, Recorded
<1>4. ASSUME NEW i \in 1 .. Len(rs), rs[i].backup # 0 PROVE b2[rs[i].backup] = b[rs[i].backup]
    <2>1. rs[i].backup = i
        BY <1>0, <1>4 DEF Fits, Describes
    <2>2. i \in (1 .. MaxOps) \ {handler[h].idx}
        BY <1>3, RequestForm
    <2> QED
        BY <2>1, <2>2
<1> SUFFICES ASSUME NEW f, NEW g
             PROVE  /\ Kept(f, g, b) => Kept(f, g, b2)
                    /\ Undoable(f, g, b, rs, Len(rs)) => Undoable(f, g, b2, rs, Len(rs))
    OBVIOUS
<1> HIDE DEF rs, b, b2
<1> QED
    BY <1>2, <1>3, <1>4, LaterBackups

\* An apply that ends has its records in the manifest, if that is whole.
LEMMA EndTop ==
    ASSUME Accounts, NEW h \in Handlers, NEW cs \in ChangeSets, cs = handler[h].cs,
           handler[h].pc \in Applying, handler[h].pc # "manifest",
           SameStack, TopKept(h, cs),
           history'.residue = history.residue, UNCHANGED manifest, Files(tree') = Files(tree),
           handler'[h].pc \notin Applying, handler'[h].pc # "undo",
           Kept(Files(tree), Start(cs), backups[cs]) => Kept(Files(tree), Start(cs), backups'[cs]),
           LET rs == Written(handler[h])
           IN Undoable(Files(tree), Start(cs), backups[cs], rs, Len(rs))
                  => Undoable(Files(tree), Start(cs), backups'[cs], rs, Len(rs))
    PROVE  TopKept(h, cs)'
<1>1. Start(cs)' = Start(cs)
    BY DEF Start, SameStack
<1>2. KeptAs(cs, Files(tree))'
    BY <1>1 DEF TopKept, KeptAs, Exempt, SameStack
<1>3. SettledAs(cs, Files(tree))'
    <2>1. LET rs == Written(handler[h])
          IN Undoable(Files(tree), Start(cs), backups[cs], rs, Len(rs))
        BY DEF TopKept, InHand, Applied
    <2>2. manifest[cs].state = "whole" => manifest[cs].records = Written(handler[h])
        BY ManifestHasAll
    <2> QED
        BY <1>1, <2>1, <2>2 DEF SettledAs
<1>4. InHand(h)'
    BY Places DEF InHand, Applied, Undoing, Ready
<1> QED
    BY <1>2, <1>3, <1>4 DEF TopKept

\* A backup taken leaves what is undoable undoable.
LEMMA CopyTop ==
    ASSUME Accounts, Fresh, NEW h \in Handlers, NEW cs \in ChangeSets, cs = handler[h].cs,
           Proceeds(h), SameStack, TopKept(h, cs), Copies(h)
    PROVE  TopKept(h, cs)'
<1> DEFINE x == handler[h]
           r == RecordFor(Op(h), tree, x.idx)
<1>0. /\ x.pc = "preimages" /\ x.pc \in Applying /\ UNCHANGED <<tree, history, manifest>>
      /\ x.idx \in 1 .. MaxOps /\ StoreTypes /\ x \in HandlerRecord
      /\ Op(h) \in Operation /\ Names(Op(h)) /\ tree \in Tree
      /\ Moves(h, "perform", x.idx, x.images, r, x.records)
    BY Places DEF Copies, Accounts, Types, HandlerTypes
<1>1. /\ handler'[h].pc = "perform" /\ handler'[h].pc \in Applying /\ handler'[h].cs = cs
      /\ handler'[h].ops = x.ops /\ handler'[h].idx = x.idx /\ handler'[h].records = x.records
      /\ handler'[h].record = r
    BY <1>0, Places, Zenon DEF Moves, IsWith
<1>2. r.backup = (IF IsFile(tree, Op(h).path) THEN x.idx ELSE 0) /\ x.idx # 0
    BY <1>0 DEF RecordFor
<1>3. /\ \A k \in (1 .. MaxOps) \ {x.idx} : backups'[cs][k] = backups[cs][k]
      /\ IsFile(tree, Op(h).path) => backups'[cs][x.idx] = Whole(tree[Op(h).path].data)
    <2>1. backups' = IF r.backup = 0 THEN backups
                     ELSE [backups EXCEPT ![cs][r.backup] = Whole(tree[Op(h).path].data)]
        BY DEF Copies
    <2> HIDE DEF r
    <2>2. CASE IsFile(tree, Op(h).path)
        <3>1. backups' = [backups EXCEPT ![cs][x.idx] = Whole(tree[Op(h).path].data)]
            BY <1>2, <2>1, <2>2
        <3>2. PICK b : b = Whole(tree[Op(h).path].data)
            OBVIOUS
        <3>3. /\ backups'[cs][x.idx] = b
              /\ \A k \in (1 .. MaxOps) \ {x.idx} : backups'[cs][k] = backups[cs][k]
            <4>1. PICK n \in 1 .. MaxOps : n = x.idx
                BY <1>0
            <4>2. StoreTypes /\ backups' = [backups EXCEPT ![cs][n] = b]
                BY <1>0, <3>1, <3>2, <4>1
            <4>3. /\ backups'[cs][n] = b
                  /\ \A k \in (1 .. MaxOps) \ {n} : backups'[cs][k] = backups[cs][k]
                BY <4>2 DEF StoreTypes
            <4> QED
                BY <4>1, <4>3
        <3> QED
            BY <3>2, <3>3
    <2>3. CASE ~IsFile(tree, Op(h).path)
        BY <1>2, <2>1, <2>3
    <2> QED
        BY <2>2, <2>3
<1> HIDE DEF r
<1>4. \A f, g : /\ Kept(f, g, backups[cs]) => Kept(f, g, backups'[cs])
                /\ Undoable(f, g, backups[cs], x.records, Len(x.records))
                      => Undoable(f, g, backups'[cs], x.records, Len(x.records))
    BY <1>0, <1>3, BackupsGrow
<1>5. Start(cs)' = Start(cs) /\ Op(h)' = Op(h)
    BY <1>0, <1>1 DEF Start, Op
<1>6. KeptAs(cs, Files(tree))'
    BY <1>0, <1>4, <1>5 DEF TopKept, KeptAs, Exempt
<1>7. SettledAs(cs, Files(tree))'
    BY <1>1 DEF SettledAs, NotApplied
<1>8. Applied(h)'
    <2>1. Written(x) = x.records /\ Written(handler'[h]) = x.records
        BY <1>0, <1>1 DEF Written
    <2>2. Undoable(Files(tree), Start(cs), backups[cs], x.records, Len(x.records))
        BY <1>0, <2>1 DEF TopKept, InHand, Applied
    <2>3. Undoable(Files(tree), Start(cs), backups'[cs], x.records, Len(x.records))
        BY <1>4, <2>2
    <2> QED
        BY <1>0, <1>1, <1>5, <2>1, <2>3 DEF Applied
<1>9. Undoing(h)'
    BY <1>1 DEF Undoing
<1>10. Ready(h)'
    BY <1>0, <1>1, <1>3, <1>5 DEF Ready, r
<1> QED
    BY <1>6, <1>7, <1>8, <1>9, <1>10 DEF TopKept, InHand

----------------------------------------------------------------------------
\* The record Inspect makes is that of the operation.
LEMMA RecordForIs ==
    ASSUME NEW t, NEW op, NEW n, n # 0
    PROVE  RecordOf(RecordFor(op, t, n), op, t)
BY DEF RecordOf, RecordFor, Creates

\* An operation is undone by its record, whose backup was made before it.
LEMMA PerformTop ==
    ASSUME Accounts, WellFormed(tree), NEW h \in Handlers, NEW cs \in ChangeSets,
           cs = handler[h].cs, Proceeds(h), SameStack, TopKept(h, cs), Performs(h)
    PROVE  TopKept(h, cs)'
<1> DEFINE x == handler[h]
           b == backups[cs]
           g == Start(cs)
           f == Files(tree)
           f2 == Files(tree')
<1>0. /\ x.pc = "perform" /\ x.pc \in Applying /\ UNCHANGED <<manifest, backups>>
      /\ x \in HandlerRecord /\ Fits(x) /\ tree \in Tree /\ StoreTypes
      /\ CanPerform(tree, Op(h)) /\ HandlerTypes
    BY Places DEF Performs, Accounts, Types, HandlerTypes
<1>1. /\ Op(h) \in Operation /\ Names(Op(h)) /\ x.idx \in 1 .. MaxOps
      /\ x.record \in RecordSet
    BY <1>0, PresentOperation DEF Fits
<1>2. /\ x.record = RecordFor(Op(h), tree, x.idx) /\ RecordOf(x.record, Op(h), tree)
      /\ IsFile(tree, Op(h).path) => b[x.idx] = Whole(tree[Op(h).path].data)
    BY <1>0, <1>1, RecordForIs DEF TopKept, InHand, Ready
<1>3. Undoable(f, g, b, x.records, Len(x.records)) /\ x.records \in Seq(RecordSet)
    BY <1>0 DEF TopKept, InHand, Applied, Written, HandlerRecord
<1>4. Kept(f, g, b)
    <2>1. Len(x.records) \in Nat
        BY <1>3
    <2> HIDE DEF f, g, b, x
    <2> QED
        BY <1>3, <2>1, UndoableEnds
<1>5. Copied(tree, Op(h), b)
    BY <1>1, <1>2 DEF Copied
<1>6. /\ Kept(Files(Performed(tree, Op(h))), g, b)
      /\ \A u \in Interrupted(tree, Op(h)) : Kept(Files(u), g, b)
    <2> HIDE DEF g, b
    <2> QED
        BY <1>0, <1>1, <1>4, <1>5, KeptPerformed DEF f
<1>7. Start(cs)' = g
    BY DEF Start, SameStack
<1>8. tree' \in Tree /\ f2 \in Tree
    <2>1. tree' \in Tree
        BY <1>0, <1>1, TreePerformed DEF Performs
    <2> QED
        BY <2>1, FilesAt
<1>9. Kept(f2, g, b)
    BY <1>6 DEF Performs
<1>10. KeptAs(cs, Files(tree))'
    BY <1>0, <1>7, <1>9 DEF KeptAs
<1>11. CASE tree' = Performed(tree, Op(h)) /\ GoesTo(h, "manifest") /\ UNCHANGED history
    <2>1. /\ handler'[h].pc = "manifest" /\ handler'[h].pc \in Applying /\ handler'[h].cs = cs
          /\ handler'[h].records = x.records /\ handler'[h].record = x.record
        BY <1>11, Places, Zenon DEF GoesTo, Moves, IsWith
    <2>2. SettledAs(cs, Files(tree))'
        BY <2>1 DEF SettledAs, NotApplied
    <2>3. UndoneFiles(f2, x.record, SavedIn(b, x.record)) = f
        <3>1. IsFile(tree, Op(h).path) => SavedIn(b, x.record) = tree[Op(h).path].data
            BY <1>1, <1>2 DEF SavedIn, RecordFor, Whole
        <3> QED
            BY <1>0, <1>1, <1>2, <1>11, <3>1, UndoInverts
    <2>4. Undoable(f2, g, b, Append(x.records, x.record), Len(x.records) + 1)
        <3> HIDE DEF f, f2, g, b, x
        <3> QED
            BY <1>1, <1>3, <1>8, <1>9, <2>3, UndoablePush
    <2>5. Written(handler'[h]) = Append(x.records, x.record)
          /\ Len(Append(x.records, x.record)) = Len(x.records) + 1
        BY <1>3, <2>1 DEF Written
    <2>6. Applied(h)'
        BY <1>0, <1>7, <2>1, <2>4, <2>5 DEF Applied
    <2>7. Undoing(h)' /\ Ready(h)'
        BY <2>1 DEF Undoing, Ready
    <2> QED
        BY <1>10, <2>2, <2>6, <2>7 DEF TopKept, InHand
<1>12. CASE GoesTo(h, "fail") /\ RememberResidue({cs})
    <2>1. handler'[h].pc = "fail"
        BY <1>12 DEF GoesTo, Moves, IsWith
    <2>2. cs \in history'.residue
        BY <1>12, ResidueFields DEF Accounts, Types
    <2>3. SettledAs(cs, Files(tree))'
        BY <2>2 DEF SettledAs
    <2>4. InHand(h)'
        BY <2>1, Places DEF InHand, Applied, Undoing, Ready
    <2> QED
        BY <1>10, <2>3, <2>4 DEF TopKept
<1> QED
    BY <1>11, <1>12 DEF Performs

\* Each step of an apply.
LEMMA ApplyTop ==
    ASSUME Accounts, Stacked, Grounded, Restorable, NEW h \in Handlers, ApplyStep(h)
    PROVE  Restorable'
<1>0. Types /\ HandlerTypes /\ HistoryTypes /\ Fresh /\ WellFormed(tree) /\ StoreTypes
    BY DEF Accounts, Types, Grounded
<1>1. /\ Proceeds(h) /\ handler[h].pc \in Applying /\ handler'[h].pc # "undo"
      /\ SameStack /\ history.residue \subseteq history'.residue
    BY <1>0, ApplyProceeds, ApplyHistory
<1>2. handler[h].pc # "idle"
    BY <1>1, Places
<1>3. PICK cs \in ChangeSets : cs = handler[h].cs
    BY <1>0, <1>2, BusyChangeSet
<1>4. \A d \in ChangeSets \ {cs} : manifest'[d] = manifest[d] /\ backups'[d] = backups[d]
    BY <1>0, <1>3, ApplyElsewhere
<1>5. ASSUME history.stack # <<>> PROVE TopKept(h, cs)'
    <2>1. TopKept(h, cs)
        BY <1>0, <1>2, <1>3, <1>5, TopFacts DEF TopKept
    <2>2. CASE Continues(h)
        BY <1>0, <1>1, <1>3, <2>1, <2>2, ContinueTop
    <2>3. CASE Ends(h)
        <3>1. UNCHANGED <<backups, history, manifest>> /\ Files(tree') = Files(tree)
              /\ handler'[h].pc \notin Applying /\ handler[h].pc # "manifest"
            BY <2>3 DEF Ends
        <3>2. history'.residue = history.residue
            BY <3>1
        <3> QED
            BY <1>1, <1>3, <2>1, <3>1, <3>2, EndTop
    <2>4. CASE Copies(h)
        BY <1>0, <1>1, <1>3, <2>1, <2>4, CopyTop
    <2>5. CASE TearsBackup(h)
        <3>1. /\ UNCHANGED <<tree, history, manifest>> /\ handler[h].pc = "preimages"
              /\ handler'[h].pc = "fail" /\ handler[h].idx \in 1 .. MaxOps
              /\ handler'[h].pc \notin Applying /\ handler'[h].pc # "undo"
              /\ handler[h].pc # "manifest" /\ Files(tree') = Files(tree)
              /\ history'.residue = history.residue
            BY <2>5, Places DEF TearsBackup, GoesTo, Moves, IsWith
        <3>2. \A k \in (1 .. MaxOps) \ {handler[h].idx} : backups'[cs][k] = backups[cs][k]
            BY <1>0, <1>3, <2>5, OneBackup DEF TearsBackup
        <3>3. \A f, g : /\ Kept(f, g, backups[cs]) => Kept(f, g, backups'[cs])
                        /\ LET rs == handler[h].records
                           IN Undoable(f, g, backups[cs], rs, Len(rs))
                                 => Undoable(f, g, backups'[cs], rs, Len(rs))
            BY <1>0, <1>3, <3>1, <3>2, BackupsGrow
        <3>4. Written(handler[h]) = handler[h].records
            BY <3>1 DEF Written
        <3>5. Kept(Files(tree), Start(cs), backups[cs]) => Kept(Files(tree), Start(cs), backups'[cs])
            BY <3>3
        <3>6. LET rs == Written(handler[h])
              IN Undoable(Files(tree), Start(cs), backups[cs], rs, Len(rs))
                      => Undoable(Files(tree), Start(cs), backups'[cs], rs, Len(rs))
            BY <3>3, <3>4
        <3> QED
            BY <1>1, <1>3, <2>1, <3>1, <3>5, <3>6, EndTop
    <2>6. CASE Performs(h)
        BY <1>0, <1>1, <1>3, <2>1, <2>6, PerformTop
    <2> QED
        BY <1>0, <2>2, <2>3, <2>4, <2>5, <2>6, ApplyCases
<1>6. history.stack # <<>> =>
        KeptAs(cs, Files(tree))' /\ SettledAs(cs, Files(tree))' /\ InHand(h)'
    BY <1>5 DEF TopKept
<1> QED
    BY <1>0, <1>1, <1>3, <1>4, <1>6, BusyStep

----------------------------------------------------------------------------
\* An undo takes the files one record back, or leaves them kept.
LEMMA UndoTop ==
    ASSUME Accounts, Stacked, WellFormed(tree), NEW h \in Handlers, NEW cs \in ChangeSets,
           cs = handler[h].cs, TopKept(h, cs), UndoRecord(h) \/ UndoFails(h)
    PROVE  TopKept(h, cs)'
<1> DEFINE x == handler[h]
           r == x.records[x.idx]
           b == backups[cs]
           g == Start(cs)
           f == Files(tree)
           f2 == Files(tree')
           saved == SavedIn(b, r)
<1>0. /\ x.pc = "undo" /\ x.pc # "idle" /\ x.idx > 0 /\ UNCHANGED <<manifest, backups, history>>
      /\ x \in HandlerRecord /\ Fits(x) /\ tree \in Tree /\ StoreTypes /\ HandlerTypes
    BY DEF UndoRecord, UndoFails, At, Accounts, Types, HandlerTypes
<1>1. /\ x.idx \in Nat \ {0} /\ x.idx \in 1 .. Len(x.records) /\ r \in RecordSet /\ Names(r)
      /\ b \in [1 .. MaxOps -> BackupRecord]
    BY <1>0 DEF HandlerRecord, Fits, RecordSet, StoreTypes
<1>2. Saved(cs, r) = saved /\ saved \in Seq(Texts)
    BY <1>0, <1>1, SavedTyped DEF Saved, SavedIn
<1>3. cs \in history.tried
    BY <1>0 DEF Stacked, TriedForm
<1>4. Start(cs)' = g
    BY <1>0 DEF Start
<1>5. SettledAs(cs, Files(tree))'
    BY <1>0, <1>3 DEF SettledAs
<1>6. WholeBackups(b, x.records)
    BY <1>0 DEF TopKept, InHand, Undoing
<1>7. ASSUME cs \notin history.residue \cup history.retried
      PROVE  /\ Undoable(UndoneFiles(f, r, saved), g, b, x.records, x.idx - 1)
             /\ Kept(UndoneFiles(f, r, saved), g, b) /\ Kept(f, g, b)
    <2>1. Undoable(f, g, b, x.records, x.idx)
        BY <1>0, <1>7 DEF TopKept, InHand, Undoing
    <2>2. Undoable(UndoneFiles(f, r, saved), g, b, x.records, x.idx - 1)
        <3>1. Undoable(UndoneFiles(f, x.records[x.idx], SavedIn(b, x.records[x.idx])), g, b,
                       x.records, x.idx - 1)
            <4> HIDE DEF x, b, g, f
            <4> QED
                BY <1>1, <2>1, UndoablePop
        <3> QED
            BY <3>1
    <2>3. x.idx \in Nat /\ x.idx - 1 \in Nat
        BY <1>1
    <2> HIDE DEF x, r, b, g, f, saved
    <2> QED
        BY <2>1, <2>2, <2>3, UndoableEnds
<1>8. Exempt(cs) <=> cs \in history.residue \cup history.retried
    BY <1>3 DEF Exempt
<1>9. Exempt(cs)' <=> Exempt(cs)
    BY <1>0 DEF Exempt
<1>10. ASSUME tree' = Undone(tree, r, saved), CanUndo(tree, r),
              handler' = [handler EXCEPT ![h].idx = @ - 1]
       PROVE  TopKept(h, cs)'
    <2>1. f2 = UndoneFiles(f, r, saved)
        BY <1>0, <1>1, <1>10, FilesUndone
    <2>2. /\ handler'[h].pc = "undo" /\ handler'[h].cs = cs
          /\ handler'[h].records = x.records /\ handler'[h].idx = x.idx - 1
        <3>1. handler'[h] = [x EXCEPT !.idx = x.idx - 1]
            BY <1>0, <1>10 DEF HandlerTypes
        <3> QED
            BY <1>0, <3>1 DEF HandlerRecord
    <2>3. KeptAs(cs, Files(tree))'
        BY <1>0, <1>4, <1>7, <1>8, <1>9, <2>1 DEF KeptAs
    <2>4. Undoing(h)'
        BY <1>0, <1>4, <1>6, <1>7, <2>1, <2>2 DEF Undoing
    <2>5. Applied(h)' /\ Ready(h)'
        BY <2>2, Places DEF Applied, Ready
    <2> QED
        BY <1>5, <2>3, <2>4, <2>5 DEF TopKept, InHand
<1>11. ASSUME Goto(h, "fail"), cs \notin history.residue \cup history.retried => Kept(f2, g, b)
       PROVE  TopKept(h, cs)'
    <2>1. handler'[h].pc = "fail"
        BY <1>0, <1>11, GotoMoves, Places DEF GoesTo, Moves, IsWith
    <2>2. KeptAs(cs, Files(tree))'
        BY <1>0, <1>4, <1>8, <1>9, <1>11 DEF KeptAs
    <2>3. InHand(h)'
        BY <2>1, Places DEF InHand, Applied, Undoing, Ready
    <2> QED
        BY <1>5, <2>2, <2>3 DEF TopKept
<1>12. CASE UndoRecord(h) /\ CanUndo(tree, r)
    BY <1>2, <1>10, <1>12 DEF UndoRecord
<1>13. CASE UndoRecord(h) /\ ~CanUndo(tree, r)
    <2>1. f2 = f
        BY <1>0, <1>13, FilesUndoRefused DEF UndoRecord
    <2> QED
        BY <1>7, <1>11, <1>13, <2>1 DEF UndoRecord
<1>14. CASE UndoFails(h)
    <2>1. /\ CanUndo(tree, r) /\ tree' \in UndoInterrupted(tree, r, saved)
          /\ Goto(h, "fail")
        BY <1>14 DEF UndoFails, Saved, SavedIn
    <2>2. Restores(r) => r.backup \in 1 .. MaxOps /\ b[r.backup] = Whole(saved)
                         /\ saved \in Seq(Texts)
        <3> SUFFICES ASSUME r.backup # 0
                     PROVE  r.backup \in 1 .. MaxOps /\ b[r.backup] = Whole(saved)
            BY <1>2 DEF Restores
        <3>1. r.backup \in 1 .. MaxOps
            BY <1>1, RequestForm DEF RecordSet
        <3>2. b[r.backup].state = "whole"
            BY <1>1, <1>6 DEF WholeBackups
        <3>3. b[r.backup] \in BackupRecord /\ saved = b[r.backup].data
            BY <1>1, <3>1 DEF SavedIn
        <3> QED
            BY <3>1, <3>2, <3>3 DEF BackupRecord, Whole
    <2>3. ASSUME cs \notin history.residue \cup history.retried PROVE Kept(f2, g, b)
        <3>1. Kept(UndoneFiles(f, r, saved), g, b) /\ Kept(f, g, b)
            BY <1>7, <2>3
        <3> HIDE DEF x, r, b, g
        <3> QED
            BY <1>0, <1>1, <2>1, <2>2, <3>1, KeptUndoing
    <2> QED
        BY <1>11, <2>1, <2>3
<1> QED
    BY <1>12, <1>13, <1>14

\* A call that gives up.
LEMMA FailTop ==
    ASSUME Accounts, NEW h \in Handlers, NEW ok \in BOOLEAN, NEW cs \in ChangeSets,
           cs = handler[h].cs, TopKept(h, cs), FailReturns(h, ok)
    PROVE  TopKept(h, cs)'
<1>1. /\ UNCHANGED <<tree, manifest, backups, history>> /\ handler[h].pc = "fail"
      /\ handler'[h].pc = "idle" /\ handler' = [handler EXCEPT ![h] = handler'[h]]
      /\ handler \in [Handlers -> HandlerRecord]
    <2>1. HandlerTypes /\ Return(h) /\ handler[h].pc = "fail" /\ handler[h].pc # "idle"
        BY DEF FailReturns, At, Accounts, Types
    <2>2. handler'[h] = Idle /\ Proceeds(h)
        BY <2>1, ReturnProceeds
    <2> QED
        BY <2>1, <2>2, IdleRecord DEF FailReturns, Proceeds, HandlerTypes
<1>2. NotApplied(cs)' => NotApplied(cs)
    <2>1. \A g \in Handlers : handler[g].pc \in Applying => handler'[g] = handler[g]
        BY <1>1, Places
    <2> QED
        BY <2>1 DEF NotApplied
<1>3. KeptAs(cs, Files(tree))' /\ SettledAs(cs, Files(tree))'
    BY <1>1, <1>2 DEF TopKept, KeptAs, SettledAs, Start, Exempt
<1>4. InHand(h)'
    BY <1>1, Places DEF InHand, Applied, Undoing, Ready
<1> QED
    BY <1>3, <1>4 DEF TopKept

\* The steps of busy calls that roll back or give up.
LEMMA UndoRestorable ==
    ASSUME Accounts, Stacked, Grounded, Restorable, NEW h \in Handlers,
           UndoRecord(h) \/ UndoFails(h) \/ \E ok \in BOOLEAN : FailReturns(h, ok)
    PROVE  Restorable'
<1>0. Types /\ HandlerTypes /\ TriedForm /\ WellFormed(tree)
    BY DEF Accounts, Types, Grounded, Stacked
<1>1. Proceeds(h) /\ UNCHANGED <<manifest, backups>>
    BY <1>0, OtherProceeds
<1>2. handler[h].pc # "idle" /\ UNCHANGED history
    BY <1>1 DEF Proceeds, UndoRecord, UndoFails, FailReturns
<1>3. PICK cs \in ChangeSets : cs = handler[h].cs
    BY <1>0, <1>2, BusyChangeSet
<1>4. ASSUME history.stack # <<>> PROVE TopKept(h, cs)'
    <2>1. TopKept(h, cs)
        BY <1>0, <1>2, <1>3, <1>4, TopFacts DEF TopKept
    <2> QED
        BY <1>0, <1>3, <2>1, UndoTop, FailTop
<1>5. history.stack # <<>> =>
        KeptAs(cs, Files(tree))' /\ SettledAs(cs, Files(tree))' /\ InHand(h)'
    BY <1>4 DEF TopKept
<1>6. SameStack /\ history.residue \subseteq history'.residue
    BY <1>2 DEF SameStack
<1> QED
    BY <1>0, <1>1, <1>3, <1>5, <1>6, BusyStep

----------------------------------------------------------------------------
\* The last of the stack.
LEMMA TopOfStack ==
    ASSUME Stacked, history.stack # <<>>, NEW cs, OnTop(cs)
    PROVE  Len(history.stack) \in Nat \ {0} /\ history.stack[Len(history.stack)] = cs
           /\ Level(Len(history.stack)) = Files(tree)
<1> DEFINE s == history.stack
<1>1. Last(s) = cs /\ s \in Seq(ChangeSets) /\ s # <<>>
    BY DEF Stacked, OnTop, StackForm
<1>2. Level(Len(s)) = Files(tree)
    BY DEF Level
<1>3. Last(s) = s[Len(s)] /\ Len(s) \in Nat \ {0}
    <2> HIDE DEF s
    <2> QED
        BY <1>1, FrontOf, Zenon
<1> QED
    BY <1>1, <1>2, <1>3

\* A rollback starts with the records of the manifest.
LEMMA StartRestorable ==
    ASSUME Accounts, Stacked, Restorable, NEW h \in Handlers, NEW cs \in ChangeSets,
           RollbackStart(h, cs)
    PROVE  Restorable'
<1> DEFINE s == history.stack
           records == manifest[cs].records
<1>0. Types /\ HandlerTypes /\ HistoryTypes /\ StoreTypes /\ s \in Seq(ChangeSets)
    BY DEF Accounts, Types, Stacked, StackForm
<1>1. /\ handler[h].pc = "idle" /\ UNCHANGED <<entries, file, tree, manifest, backups>>
      /\ manifest[cs].state = "whole" /\ records \in Seq(RecordSet)
    BY <1>0 DEF RollbackStart, At, StoreTypes, ManifestRecord
<1>2. /\ handler' = [handler EXCEPT ![h] = handler'[h]]
      /\ handler'[h].pc = "undo" /\ handler'[h].cs = cs /\ handler'[h].records = records
      /\ handler'[h].idx = Len(records)
    <2> DEFINE y == [Idle EXCEPT !.pc = "undo", !.cs = cs, !.records = records,
                                 !.idx = FirstToUndo(records)]
    <2>1. handler' = [handler EXCEPT ![h] = y]
        BY DEF RollbackStart
    <2>2. y.pc = "undo" /\ y.cs = cs /\ y.records = records /\ y.idx = Len(records)
        BY DEF Idle, FirstToUndo
    <2> HIDE DEF y
    <2> QED
        BY <1>0, <2>1, <2>2, OneMoves
<1>3. /\ history'.before = history.before /\ history'.residue = history.residue
      /\ history'.tried = history.tried \cup {cs}
      /\ history'.retried = IF cs \in history.tried THEN history.retried \cup {cs}
                            ELSE history.retried
      /\ history'.stack = IF Alone(h) /\ OnTop(cs) THEN history.stack ELSE <<>>
      /\ history'.undone = IF Alone(h) /\ history.undone = cs THEN history.undone ELSE NoEntry
    BY <1>0, RollbackFields DEF RollbackStart
<1>4. BackToStart'
    <2>1. history.undone = cs => cs \in history.tried
        BY NoChangeSet DEF Stacked, StackForm
    <2> QED
        BY <1>3, <2>1 DEF BackToStart
<1>5. CASE history'.stack = <<>>
    BY <1>4, <1>5 DEF Restorable, Layers
<1>6. CASE history'.stack # <<>>
    <2>0. Alone(h) /\ OnTop(cs) /\ history'.stack = s /\ s # <<>>
        BY <1>3, <1>6 DEF OnTop
    <2>1. Len(s) \in Nat \ {0} /\ s[Len(s)] = cs /\ Level(Len(s)) = Files(tree)
        BY <2>0, TopOfStack
    <2>2. \A g \in Handlers : handler[g].pc = "idle"
        BY <1>1, <2>0 DEF Alone
    <2>3. \A d : NotApplied(d)
        BY <2>2, Places DEF NotApplied
    <2>4. \A i : Level(i)' = Level(i)
        BY <1>1, <1>3, <2>0 DEF Level, Start
    <2>5. ASSUME NEW i \in 1 .. Len(s)
          PROVE  KeptAs(s[i], Level(i))' /\ SettledAs(s[i], Level(i))'
        <3>1. PICK d \in ChangeSets : d = s[i]
            BY <1>0
        <3>2. PICK f : f = Level(i)
            OBVIOUS
        <3>3. KeptAs(d, f) /\ SettledAs(d, f)
            BY <3>1, <3>2 DEF Restorable, Layers
        <3>4. /\ ~Exempt(d)' => Kept(f, Start(d)', backups'[d])
              /\ /\ d \notin history'.residue \cup history'.tried
                 /\ manifest'[d].state = "whole"
                 => Undoable(f, Start(d)', backups'[d], manifest'[d].records,
                             Len(manifest'[d].records))
            BY <1>1, <1>3, <2>3, <3>3, LayerKept
        <3>5. s'[i] = d /\ Level(i)' = f
            BY <2>0, <2>4, <3>1, <3>2
        <3> HIDE DEF s
        <3> QED
            BY <3>4, <3>5 DEF KeptAs, SettledAs, Start, Exempt
    <2>6. Layers'
        BY <2>0, <2>5 DEF Layers
    <2>7. InHand(h)'
        <3>1. KeptAs(cs, Files(tree)) /\ SettledAs(cs, Files(tree))
            <4>1. Len(s) \in 1 .. Len(s)
                BY <2>1
            <4>2. KeptAs(s[Len(s)], Level(Len(s))) /\ SettledAs(s[Len(s)], Level(Len(s)))
                BY <4>1 DEF Restorable, Layers
            <4> HIDE DEF s
            <4> QED
                BY <2>1, <4>2
        <3>2. WholeBackups(backups[cs], records)
            BY DEF Accounts, IsSound, Sound, SoundRecords, WholeBackups
        <3>3. cs \notin history'.residue \cup history'.retried =>
                Undoable(Files(tree), Start(cs), backups[cs], records, Len(records))
            <4>1. cs \notin history'.residue \cup history'.retried =>
                    cs \notin history.residue \cup history.tried
                BY <1>3
            <4> QED
                BY <1>1, <2>3, <3>1, <4>1 DEF SettledAs
        <3>4. Start(cs)' = Start(cs)
            BY <1>3 DEF Start
        <3>5. Undoing(h)'
            BY <1>1, <1>2, <3>2, <3>3, <3>4 DEF Undoing
        <3> QED
            BY <1>2, <3>5, Places DEF InHand, Applied, Ready
    <2>8. \A g \in Handlers : InHand(g)'
        <3>1. ASSUME NEW g \in Handlers \ {h} PROVE InHand(g)'
            <4>1. handler'[g].pc = "idle"
                BY <1>0, <1>2, <2>2 DEF HandlerTypes
            <4> QED
                BY <4>1, Places DEF InHand, Applied, Undoing, Ready
        <3> QED
            BY <2>7, <3>1
    <2> QED
        BY <1>4, <2>6, <2>8 DEF Restorable
<1> QED
    BY <1>5, <1>6

\* A rollback that ends with nothing set apart is back at the start, and what
\* lies below is on top again.
LEMMA RolledBackRestorable ==
    ASSUME Accounts, Stacked, Restorable, NEW h \in Handlers, NEW ok \in BOOLEAN,
           RollbackReturns(h, ok)
    PROVE  Restorable'
<1> DEFINE s == history.stack
<1>0. Types /\ HandlerTypes /\ HistoryTypes /\ s \in Seq(ChangeSets) /\ TriedForm
    BY DEF Accounts, Types, Stacked, StackForm
<1>1. /\ handler[h].pc = "undo" /\ handler[h].pc # "idle" /\ handler[h].idx = 0
      /\ UNCHANGED <<tree, manifest, backups>> /\ Return(h)
    BY DEF RollbackReturns, At
<1>2. Proceeds(h) /\ handler'[h].pc = "idle"
    BY <1>0, <1>1, ReturnProceeds, IdleRecord
<1>3. PICK cs \in ChangeSets : cs = handler[h].cs
    BY <1>0, <1>1, BusyChangeSet
<1>4. /\ history'.before = history.before /\ history'.residue = history.residue
      /\ history'.tried = history.tried /\ history'.retried = history.retried
      /\ \/ history'.undone = NoEntry /\ history'.stack = <<>>
         \/ /\ Undisturbed(cs) /\ cs \notin history.residue \cup history.retried
            /\ history'.undone = cs
            /\ history'.stack = IF OnTop(cs) THEN Front(history.stack) ELSE history.stack
    BY <1>0, <1>3, RolledBackFields DEF RollbackReturns
<1>5. CASE history'.undone = NoEntry /\ history'.stack = <<>>
    BY <1>5 DEF Restorable, Layers, BackToStart
<1>6. CASE /\ Undisturbed(cs) /\ cs \notin history.residue \cup history.retried
           /\ history'.undone = cs
           /\ history'.stack = IF OnTop(cs) THEN Front(history.stack) ELSE history.stack
    <2>1. history.undone = NoEntry
        BY <1>1, <1>3, <1>6 DEF Stacked, InOrder
    <2>2. OnTop(cs) /\ s # <<>>
        BY <1>6, <2>1, NoChangeSet DEF Undisturbed, OnTop
    <2>3. /\ Len(s) \in Nat \ {0} /\ s[Len(s)] = cs /\ InHand(h)
          /\ \A g \in Handlers \ {h} : handler[g].pc = "idle"
        BY <1>0, <1>1, <1>3, <2>2, TopFacts, TopLevel DEF Alone
    <2>4. Files(tree) = Start(cs)
        <3>1. Undoable(Files(tree), Start(cs), backups[cs], handler[h].records, 0)
            BY <1>1, <1>3, <1>6, <2>3 DEF InHand, Undoing
        <3> QED
            BY <3>1, UndoableEnds
    <2>5. BackToStart'
        BY <1>1, <1>4, <1>6, <2>4 DEF BackToStart, Start
    <2>6. \A g \in Handlers : handler'[g].pc = "idle"
        BY <1>0, <1>2, <2>3 DEF Proceeds, HandlerTypes
    <2>7. \A d : NotApplied(d)
        BY <1>1, <2>3, Places DEF NotApplied
    <2>8. \A g \in Handlers : InHand(g)'
        BY <2>6, Places DEF InHand, Applied, Undoing, Ready
    <2> DEFINE s2 == Front(s)
    <2>9. /\ s2 \in Seq(ChangeSets) /\ Len(s2) = Len(s) - 1
          /\ \A i \in 1 .. Len(s) - 1 : s2[i] = s[i]
        BY <1>0, <2>2, FrontOf, Zenon
    <2>10. history'.stack = s2
        BY <1>6, <2>2
    <2> HIDE DEF s2
    <2>11. ASSUME NEW i \in 1 .. Len(s2)
           PROVE  KeptAs(history.stack[i], Level(i))' /\ SettledAs(history.stack[i], Level(i))'
        <3>0. i \in 1 .. Len(s) /\ i \in 1 .. Len(s) - 1 /\ i # Len(s)
            BY <2>3, <2>9
        <3>1. PICK d \in ChangeSets : d = s[i]
            BY <1>0, <3>0
        <3>2. PICK f : f = Level(i)
            OBVIOUS
        <3>3. KeptAs(d, f) /\ SettledAs(d, f)
            BY <3>0, <3>1, <3>2 DEF Restorable, Layers
        <3>4. /\ ~Exempt(d)' => Kept(f, Start(d)', backups'[d])
              /\ /\ d \notin history'.residue \cup history'.tried
                 /\ manifest'[d].state = "whole"
                 => Undoable(f, Start(d)', backups'[d], manifest'[d].records,
                             Len(manifest'[d].records))
            BY <1>1, <1>4, <2>7, <3>3, LayerKept
        <3>5. history'.stack[i] = d
            BY <2>9, <2>10, <3>0, <3>1
        <3>6. Level(i)' = f
            <4>1. f = Start(s[i + 1])
                BY <3>0, <3>2 DEF Level
            <4>2. CASE i = Len(s2)
                <5>1. s[i + 1] = cs
                    BY <2>3, <2>9, <4>2
                <5>2. Level(i)' = Files(tree')
                    BY <2>10, <4>2 DEF Level
                <5> QED
                    BY <1>1, <2>4, <4>1, <5>1, <5>2
            <4>3. CASE i # Len(s2)
                <5>1. Level(i)' = Files(history'.before[s2[i + 1]])
                    BY <2>10, <4>3 DEF Level, Start
                <5>2. s2[i + 1] = s[i + 1]
                    BY <2>3, <2>9, <3>0, <4>3
                <5> QED
                    BY <1>4, <4>1, <5>1, <5>2 DEF Start
            <4> QED
                BY <4>2, <4>3
        <3> HIDE DEF s
        <3> QED
            BY <3>4, <3>5, <3>6 DEF KeptAs, SettledAs, Start, Exempt
    <2>12. Layers'
        BY <2>10, <2>11 DEF Layers
    <2> QED
        BY <2>5, <2>8, <2>12 DEF Restorable
<1> QED
    BY <1>4, <1>5, <1>6

\* A restart ends the call in progress where it is.
LEMMA CrashRestorable ==
    ASSUME Accounts, Stacked, Restorable, CrashAndRestart PROVE Restorable'
<1> DEFINE s == history.stack
<1>0. Types /\ HistoryTypes /\ s \in Seq(ChangeSets)
    BY DEF Accounts, Types, Stacked, StackForm
<1>1. /\ UNCHANGED <<tree, manifest, backups>>
      /\ \A g \in Handlers : handler'[g].pc = "idle"
    BY IdleRecord DEF CrashAndRestart
<1>2. /\ SameStack /\ history.residue \subseteq history'.residue
      /\ \A g \in Handlers : handler[g].pc = "manifest" => handler[g].cs \in history'.residue
    <2> DEFINE css == {handler[g].cs : g \in {k \in Handlers : Unrecorded(k)}}
    <2>1. SameStack /\ history'.residue = history.residue \cup css
        BY <1>0, ResidueFields DEF CrashAndRestart
    <2> QED
        BY <2>1 DEF Unrecorded, At
<1>3. BackToStart'
    BY <1>1, <1>2 DEF Restorable, BackToStart, SameStack, Start
<1>4. \A g \in Handlers : InHand(g)'
    BY <1>1, Places DEF InHand, Applied, Undoing, Ready
<1>5. \A i : Level(i)' = Level(i)
    BY <1>1, <1>2 DEF Level, Start, SameStack
<1>6. ASSUME NEW i \in 1 .. Len(s)
      PROVE  KeptAs(s[i], Level(i))' /\ SettledAs(s[i], Level(i))'
    <2>1. PICK d \in ChangeSets : d = s[i]
        BY <1>0
    <2>2. PICK f : f = Level(i)
        OBVIOUS
    <2>3. KeptAs(d, f) /\ SettledAs(d, f)
        BY <2>1, <2>2 DEF Restorable, Layers
    <2>4. s'[i] = d /\ Level(i)' = f
        BY <1>2, <1>5, <2>1, <2>2 DEF SameStack
    <2>5. CASE NotApplied(d)
        <3>1. /\ ~Exempt(d)' => Kept(f, Start(d)', backups'[d])
              /\ /\ d \notin history'.residue \cup history'.tried
                 /\ manifest'[d].state = "whole"
                 => Undoable(f, Start(d)', backups'[d], manifest'[d].records,
                             Len(manifest'[d].records))
            BY <1>1, <1>2, <2>3, <2>5, LayerKept DEF SameStack
        <3> HIDE DEF s
        <3> QED
            BY <2>4, <3>1 DEF KeptAs, SettledAs, Start, Exempt
    <2>6. CASE ~NotApplied(d)
        <3>1. PICK h \in Handlers : handler[h].pc \in Applying /\ handler[h].cs = d
            BY <2>6 DEF NotApplied
        <3>2. Start(d)' = Start(d) /\ handler[h].pc # "idle" /\ s # <<>>
            BY <1>2, <3>1, Places DEF Start, SameStack
        <3>3. Len(s) \in Nat /\ s[Len(s)] = d /\ Level(Len(s)) = Files(tree) /\ InHand(h)
            BY <1>0, <3>1, <3>2, TopLevel DEF Restorable
        <3>4. i = Len(s) /\ f = Files(tree)
            BY <2>1, <2>2, <3>3 DEF Stacked, StackForm
        <3>5. handler[h].pc # "manifest" /\ manifest[d].state = "whole" =>
                Undoable(f, Start(d), backups[d], manifest[d].records, Len(manifest[d].records))
            <4>1. LET rs == Written(handler[h])
                  IN Undoable(f, Start(d), backups[d], rs, Len(rs))
                BY <3>1, <3>3, <3>4 DEF InHand, Applied
            <4>2. handler[h].pc # "manifest" /\ manifest[d].state = "whole" =>
                    manifest[d].records = Written(handler[h])
                BY <3>1, ManifestHasAll
            <4> QED
                BY <4>1, <4>2
        <3>6. ~Exempt(d)' => Kept(f, Start(d)', backups'[d])
            BY <1>1, <1>2, <2>3, <3>2 DEF KeptAs, Exempt, SameStack
        <3> HIDE DEF s
        <3> QED
            BY <1>1, <1>2, <2>4, <3>1, <3>2, <3>5, <3>6 DEF KeptAs, SettledAs, Start, Exempt
    <2> QED
        BY <2>5, <2>6
<1>7. Layers'
    BY <1>2, <1>6 DEF Layers, SameStack
<1> QED
    BY <1>3, <1>4, <1>7 DEF Restorable

\* A change set begins with nothing to undo, on the files those below it end
\* with.
LEMMA BeginRestorable ==
    ASSUME Accounts, Stacked, Restorable, NEW h \in Handlers, NEW cs \in ChangeSets,
           NEW request \in Requests, ApplyBegin(h, cs, request, TRUE)
    PROVE  Restorable'
<1> DEFINE s == history.stack
           n == Len(s)
<1>0. /\ Types /\ HandlerTypes /\ HistoryTypes /\ s \in Seq(ChangeSets) /\ n \in Nat
      /\ history.before \in [ChangeSets -> Tree] /\ tree \in Tree
    BY DEF Accounts, Types, Stacked, StackForm
<1>1. /\ handler[h].pc = "idle" /\ entries[cs] = NoEntry
      /\ UNCHANGED <<tree, manifest, backups>>
    BY DEF ApplyBegin, At, Begin, Known
<1>2. /\ handler' = [handler EXCEPT ![h] = handler'[h]]
      /\ handler'[h].pc = "mkdir" /\ handler'[h].cs = cs /\ handler'[h].records = <<>>
      /\ handler'[h].pc \in Applying
    BY <1>0, BeginMoves, Places
<1>3. /\ history'.before = [history.before EXCEPT ![cs] = tree]
      /\ history'.stack = IF Alone(h) THEN Append(history.stack, cs) ELSE <<>>
      /\ history'.undone = NoEntry
      /\ history'.residue = history.residue
      /\ history'.tried = history.tried /\ history'.retried = history.retried
    BY <1>0, BeginFields DEF ApplyBegin
<1>4. BackToStart'
    BY <1>3 DEF BackToStart
<1>5. CASE ~Alone(h)
    BY <1>3, <1>4, <1>5 DEF Restorable, Layers
<1>6. CASE Alone(h)
    <2>1. \A g \in Handlers : handler[g].pc = "idle"
        BY <1>1, <1>6 DEF Alone
    <2>2. \A d : NotApplied(d)
        BY <2>1, Places DEF NotApplied
    <2>3. /\ history'.stack = Append(s, cs) /\ Len(history'.stack) = n + 1
          /\ history'.stack[n + 1] = cs /\ \A i \in 1 .. n : history'.stack[i] = s[i]
        BY <1>0, <1>3, <1>6
    <2>4. history'.before[cs] = tree /\ Start(cs)' = Files(tree)
        BY <1>0, <1>3 DEF Start
    <2>5. \A d \in ChangeSets \ {cs} : history'.before[d] = history.before[d]
        BY <1>0, <1>3
    <2>6. Files(tree) \in Tree
        BY <1>0, FilesAt
    <2>7. \A i \in 1 .. n : s[i] # cs
        BY <1>1 DEF Stacked, StackForm, Known
    <2>8. ASSUME NEW i \in 1 .. n
          PROVE  KeptAs(history.stack[i], Level(i))' /\ SettledAs(history.stack[i], Level(i))'
        <3>1. PICK d \in ChangeSets : d = s[i]
            BY <1>0
        <3>2. PICK f : f = Level(i)
            OBVIOUS
        <3>3. KeptAs(d, f) /\ SettledAs(d, f) /\ d # cs
            BY <2>7, <3>1, <3>2 DEF Restorable, Layers
        <3>4. /\ ~Exempt(d)' => Kept(f, Start(d)', backups'[d])
              /\ /\ d \notin history'.residue \cup history'.tried
                 /\ manifest'[d].state = "whole"
                 => Undoable(f, Start(d)', backups'[d], manifest'[d].records,
                             Len(manifest'[d].records))
            BY <1>1, <1>3, <2>2, <2>5, <3>3, LayerKept
        <3>5. history'.stack[i] = d
            BY <2>3, <3>1
        <3>6. Level(i)' = f
            <4>1. Level(i)' = Files(history'.before[history'.stack[i + 1]])
                BY <1>0, <2>3 DEF Level, Start
            <4>2. CASE i = n
                <5>1. f = Files(tree)
                    BY <3>2, <4>2 DEF Level
                <5>2. history'.stack[i + 1] = cs
                    BY <2>3, <4>2
                <5> QED
                    BY <2>4, <4>1, <5>1, <5>2
            <4>3. CASE i # n
                <5>1. i + 1 \in 1 .. n
                    BY <1>0, <4>3
                <5>2. history'.stack[i + 1] = s[i + 1] /\ s[i + 1] # cs /\ s[i + 1] \in ChangeSets
                    BY <1>0, <2>3, <2>7, <5>1
                <5>3. f = Files(history.before[s[i + 1]])
                    BY <3>2, <4>3 DEF Level, Start
                <5> QED
                    BY <2>5, <4>1, <5>2, <5>3
            <4> QED
                BY <4>2, <4>3
        <3> HIDE DEF s, n
        <3> QED
            BY <3>4, <3>5, <3>6 DEF KeptAs, SettledAs, Start, Exempt
    <2>9. ASSUME NEW m, m = n + 1
          PROVE  KeptAs(history.stack[m], Level(m))' /\ SettledAs(history.stack[m], Level(m))'
        <3>2. history'.stack[m] = cs /\ m = Len(history'.stack)
            BY <2>3, <2>9
        <3>3. Level(m)' = Files(tree')
            BY <3>2 DEF Level
        <3>4. Kept(Files(tree'), Start(cs)', backups'[cs])
            BY <1>1, <2>4, <2>6, UndoableStart
        <3>5. KeptAs(history.stack[m], Level(m))'
            BY <3>2, <3>3, <3>4 DEF KeptAs, Start
        <3>6. SettledAs(history.stack[m], Level(m))'
            BY <1>2, <3>2 DEF SettledAs, NotApplied
        <3> QED
            BY <3>5, <3>6
    <2>10. Layers'
        BY <1>0, <2>3, <2>8, <2>9 DEF Layers
    <2>11. InHand(h)'
        <3>1. Written(handler'[h]) = <<>> /\ Len(<<>>) = 0
            BY <1>2 DEF Written
        <3>2. Undoable(Files(tree'), Start(cs)', backups'[cs], <<>>, 0)
            BY <1>1, <2>4, <2>6, UndoableStart
        <3>3. Applied(h)'
            BY <1>2, <3>1, <3>2 DEF Applied
        <3> QED
            BY <1>2, <3>3 DEF InHand, Undoing, Ready
    <2>12. \A g \in Handlers : InHand(g)'
        <3>1. ASSUME NEW g \in Handlers \ {h} PROVE InHand(g)'
            <4>1. handler'[g].pc = "idle"
                BY <1>0, <1>2, <2>1 DEF HandlerTypes
            <4> QED
                BY <4>1, Places DEF InHand, Applied, Undoing, Ready
        <3> QED
            BY <2>11, <3>1
    <2> QED
        BY <1>4, <2>10, <2>12 DEF Restorable
<1> QED
    BY <1>5, <1>6

----------------------------------------------------------------------------
\* Nothing of it changes.
LEMMA RestorableKept ==
    ASSUME Restorable, UNCHANGED <<tree, manifest, backups, handler, history>> PROVE Restorable'
<1>1. \A i : Level(i)' = Level(i)
    BY DEF Level, Start
<1>2. ASSUME NEW i \in 1 .. Len(history.stack)
      PROVE  KeptAs(history.stack[i], Level(i))' /\ SettledAs(history.stack[i], Level(i))'
    <2>1. KeptAs(history.stack[i], Level(i)) /\ SettledAs(history.stack[i], Level(i))
        BY DEF Restorable, Layers
    <2> QED
        BY <1>1, <2>1 DEF KeptAs, SettledAs, Start, Exempt, NotApplied
<1>3. Layers'
    BY <1>2 DEF Layers
<1>4. history.stack # <<>> => \A h \in Handlers : InHand(h)'
    BY DEF Restorable, InHand, Applied, Undoing, Ready, Start, Op
<1>5. BackToStart'
    BY DEF Restorable, BackToStart, Start
<1> QED
    BY <1>3, <1>4, <1>5 DEF Restorable

\* Each step.
LEMMA RestorableStep ==
    ASSUME Accounts, Stacked, Grounded, Restorable, [Next]_vars PROVE Restorable'
<1>1. CASE UNCHANGED vars
    BY <1>1, RestorableKept DEF vars, bridgeVars
<1>2. ASSUME NEW h \in Handlers, NEW cs \in ChangeSets, NEW request \in Requests,
             NEW ok \in BOOLEAN, ApplyBegin(h, cs, request, ok)
      PROVE  Restorable'
    <2>1. CASE ok = TRUE
        BY <1>2, <2>1, BeginRestorable
    <2>2. CASE ok = FALSE
        BY <1>2, <2>2, RestorableKept DEF ApplyBegin
    <2> QED
        BY <2>1, <2>2
<1>3. ASSUME NEW h \in Handlers, ApplyStep(h) PROVE Restorable'
    BY <1>3, ApplyTop
<1>4. ASSUME NEW h \in Handlers, NEW cs \in ChangeSets, RollbackStart(h, cs) PROVE Restorable'
    BY <1>4, StartRestorable
<1>5. ASSUME NEW h \in Handlers,
             UndoRecord(h) \/ UndoFails(h) \/ \E ok \in BOOLEAN : FailReturns(h, ok)
      PROVE  Restorable'
    BY <1>5, UndoRestorable
<1>6. ASSUME NEW h \in Handlers, NEW ok \in BOOLEAN, RollbackReturns(h, ok) PROVE Restorable'
    BY <1>6, RolledBackRestorable
<1>7. CASE CrashAndRestart
    BY <1>7, CrashRestorable
<1> QED
    BY <1>1, <1>2, <1>3, <1>4, <1>5, <1>6, <1>7
    DEF Next, CallApply, HandlersOrCrash, RollbackStep

\* Nothing has begun.
LEMMA RestorableInit == Init => Restorable
<1> SUFFICES ASSUME Init PROVE Restorable
    OBVIOUS
<1>1. history.stack = <<>> /\ history.undone = NoEntry
    BY DEF Init
<1> QED
    BY <1>1 DEF Restorable, Layers, BackToStart

(***************************************************************************)
(* The records of a change set undo the files at the top of the stack, and *)
(* those the change set above found, to the files it found itself, and the *)
(* files it found are there or in its backups: executePatchOperation makes *)
(* the backup before the operation and the record after it, and each pass  *)
(* of patchRollback takes the files one record back.                       *)
(***************************************************************************)
THEOREM RestorableHolds == Spec => [](Grounded /\ Restorable)
<1>1. Accounts /\ Stacked /\ Grounded /\ Restorable /\ [Next]_vars => Grounded' /\ Restorable'
    BY GroundedStep, RestorableStep
<1> QED
    BY <1>1, GroundedInit, RestorableInit, AccountsHold, StackedHolds, PTL DEF Spec

(***************************************************************************)
(* A rollback of the change set whose effects lie on top, with nothing set *)
(* apart, restores every file before it reports success (patchRollback,    *)
(* rollbackRecordEntry): for any requests, trees, connections and faults.  *)
(***************************************************************************)
THEOREM RolledBackIsRestored == Spec => []RolledBackMeansRestored
<1>1. Types /\ Stacked /\ Restorable => RolledBackMeansRestored
    <2> SUFFICES ASSUME Types, Stacked, Restorable, NEW h \in Handlers, UndidAll(h),
                        Undisturbed(handler[h].cs),
                        handler[h].cs \notin history.residue \cup history.retried
                 PROVE  Files(tree) = Files(history.before[handler[h].cs])
        BY DEF RolledBackMeansRestored
    <2>1. handler[h].pc = "undo" /\ handler[h].pc # "idle" /\ handler[h].idx = 0
        BY DEF UndidAll, At
    <2>2. PICK cs \in ChangeSets : cs = handler[h].cs
        BY <2>1, BusyChangeSet DEF Types
    <2>3. history.undone = NoEntry
        BY <2>1 DEF Stacked, InOrder
    <2>4. history.stack # <<>>
        BY <2>2, <2>3, NoChangeSet DEF Undisturbed, OnTop
    <2>5. InHand(h)
        BY <2>4 DEF Restorable
    <2>6. Undoable(Files(tree), Start(cs), backups[cs], handler[h].records, 0)
        BY <2>1, <2>2, <2>5 DEF InHand, Undoing
    <2>7. Files(tree) = Start(cs)
        BY <2>6, UndoableEnds
    <2> QED
        BY <2>2, <2>7 DEF Start
<1> QED
    BY <1>1, TypesHold, StackedHolds, RestorableHolds, PTL

(***************************************************************************)
(* The data of every file a change set found is in the tree or in one of   *)
(* its whole backups until its rollback is tried again, whatever fails     *)
(* (executePatchOperation backs a file up before it changes it, and undoes *)
(* only from whole backups).                                               *)
(***************************************************************************)
THEOREM NothingIsLost == Spec => []NothingLost
<1>1. Types /\ Stacked /\ Restorable => NothingLost
    <2> SUFFICES ASSUME Types, Stacked, Restorable,
                        NEW cs \in ChangeSets
                            \ (history.retried \cup (history.residue \cap history.tried)),
                        Undisturbed(cs), NEW p \in TreePaths, IsFile(history.before[cs], p)
                 PROVE  \/ \E q \in TreePaths : tree[q] = history.before[cs][p]
                        \/ \E n \in 1 .. MaxOps :
                            backups[cs][n] = [state |-> "whole", data |-> history.before[cs][p].data]
        BY DEF NothingLost
    <2>0. tree \in Tree /\ history.before[cs] \in Tree
        BY DEF Types, Stacked, StackForm
    <2>1. Kept(Files(tree), Start(cs), backups[cs])
        <3>1. CASE OnTop(cs)
            <4> DEFINE n == Len(history.stack)
            <4>1. history.stack # <<>>
                BY <3>1 DEF OnTop
            <4>2. n \in Nat \ {0} /\ history.stack[n] = cs /\ Level(n) = Files(tree)
                BY <3>1, <4>1, TopOfStack
            <4>3. n \in 1 .. n
                BY <4>2
            <4>4. KeptAs(history.stack[n], Level(n))
                BY <4>3 DEF Restorable, Layers
            <4> HIDE DEF n
            <4> QED
                BY <4>2, <4>4 DEF KeptAs, Exempt
        <3>2. CASE history.undone = cs
            <4>1. Files(tree) = Start(cs)
                BY <3>2, NoChangeSet DEF Restorable, BackToStart
            <4>2. Files(tree) \in Tree
                BY <2>0, FilesAt
            <4> QED
                BY <4>1, <4>2, UndoableStart
        <3> QED
            BY <3>1, <3>2 DEF Undisturbed
    <2>2. Start(cs)[p] = history.before[cs][p] /\ Start(cs)[p] # Absent
        BY <2>0, FilesAt DEF Start
    <2>3. KeptFile(Files(tree), backups[cs], history.before[cs][p])
        BY <2>1, <2>2 DEF Kept
    <2>4. ASSUME NEW q \in TreePaths, Files(tree)[q] = history.before[cs][p]
          PROVE  tree[q] = history.before[cs][p]
        BY <2>0, <2>2, <2>4, FilesAt
    <2> QED
        BY <2>3, <2>4 DEF KeptFile, Whole
<1> QED
    BY <1>1, TypesHold, StackedHolds, RestorableHolds, PTL

=============================================================================
