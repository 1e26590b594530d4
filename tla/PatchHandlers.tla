--------------------------- MODULE PatchHandlers ---------------------------
(***************************************************************************)
(* patch.apply and patch.rollback of the local bridge                      *)
(* (local-bridge/adapters/ipc_handlers.go) over the journal and the        *)
(* project directory.                                                      *)
(*                                                                         *)
(* A handler is one IPC connection; it serves one call at a time.  Nothing *)
(* but the journal's own mutex orders the calls of different connections,  *)
(* so every step another call, or a restart, can observe is an action: a   *)
(* write of the journal, the backup of a file, the operation itself, the   *)
(* truncation and the filling of the rollback manifest.                    *)
(*                                                                         *)
(* faults counts what the environment does to the bridge, up to MaxFaults: *)
(* a write error (disk full, an unwritable file) or the end of the process *)
(* followed by a restart.  The 60 s deadline of a call may pass at any     *)
(* check.  Content that does not decode and an unknown operation type both *)
(* fail after the backup: "unsupported" stands for them.  A call           *)
(* validatePatchRequest refuses, or a rollback whose change set or         *)
(* manifest cannot be read, changes nothing: a stuttering step.            *)
(***************************************************************************)
EXTENDS Journal, ProjectTree

CONSTANTS
    Handlers,     \* connections
    Requests,     \* validated patch requests: sequences of operations
    Trees,        \* the trees the project may start from
    MaxFaults,    \* bound on errors of the environment
    NoPath        \* the old path of an operation that is not a rename

VARIABLES
    tree,         \* the project directory
    manifest,     \* manifest.json of each change set
    backups,      \* the numbered backup files of each change set
    handler,      \* the progress of each call
    faults,
    history       \* what the properties compare with; the code has none of it

bridgeVars == <<entries, file, tree, manifest, backups, handler, faults>>
vars == <<bridgeVars, history>>

ASSUME FaultBound == MaxFaults \in Nat
ASSUME HashesAreData == Hashes = Seq(Texts) /\ Paths = TreePaths

MaxOps == LET lengths == {Len(r) : r \in Requests}
          IN CHOOSE n \in lengths : \A m \in lengths : m <= n

Operation == [type: OpTypes, path: TreePaths, old: TreePaths \cup {NoPath}, text: Texts]

\* What validatePatchRequest lets through: at least one operation, of a known
\* type or not, and a rename names its source.
ValidRequest(request) ==
    /\ request \in Seq(Operation) /\ request # <<>>
    /\ \A i \in 1 .. Len(request) : request[i].type = "rename" => request[i].old # NoPath

\* The requests are valid, and there is a longest one.
ASSUME RequestForm ==
    /\ \A request \in Requests : ValidRequest(request) /\ Len(request) <= MaxOps
    /\ MaxOps \in Nat
    /\ Trees \subseteq Tree

ASSUME TreesAreWellFormed == \A t \in Trees : WellFormed(t)
ASSUME NoChangeSet == NoEntry \notin ChangeSets

NoManifest == [state |-> "none", records |-> <<>>]
TornManifest == [state |-> "torn", records |-> <<>>]
WholeManifest(records) == [state |-> "whole", records |-> records]

NoRecord == [type |-> "none", path |-> NoPath, old |-> NoPath, created |-> FALSE, backup |-> 0]
NoBackup == [state |-> "none", data |-> <<>>]

Idle == [pc |-> "idle", cs |-> NoEntry, ops |-> <<>>, idx |-> 0, images |-> <<>>,
         record |-> NoRecord, records |-> <<>>]

Init ==
    /\ JournalInit
    /\ tree \in Trees
    /\ manifest = [cs \in ChangeSets |-> NoManifest]
    /\ backups = [cs \in ChangeSets |-> [n \in 1 .. MaxOps |-> NoBackup]]
    /\ handler = [h \in Handlers |-> Idle]
    /\ faults = 0
    /\ history = [before  |-> [cs \in ChangeSets |-> tree],
                  request |-> [cs \in ChangeSets |-> <<>>],
                  stack   |-> <<>>,
                  undone  |-> NoEntry,
                  residue |-> {},
                  tried   |-> {},
                  retried |-> {}]

----------------------------------------------------------------------------
\* What the history remembers.
\*   before[cs]   the tree when cs began
\*   request[cs]  the operations cs was begun for
\*   stack        change sets whose effects lie on top of each other in the
\*                tree, the latest last; emptied by calls that overlap, by a
\*                rollback out of order and by one that leaves effects behind
\*   undone       the change set rolled back last, nothing having begun since
\*   residue      change sets with an effect on the tree no record describes
\*   tried        change sets a rollback was started for; retried: more than
\*                once

Alone(h) == \A g \in Handlers \ {h} : handler[g].pc = "idle"

RememberBegin(h, cs, request) ==
    history' = [history EXCEPT !.before[cs] = tree,
                               !.request[cs] = request,
                               !.stack = IF Alone(h) THEN Append(@, cs) ELSE <<>>,
                               !.undone = NoEntry]

OnTop(cs) == history.stack # <<>> /\ Last(history.stack) = cs
Undisturbed(cs) == OnTop(cs) \/ history.undone = cs

RememberRollback(h, cs) ==
    history' = [history EXCEPT !.tried = @ \cup {cs},
                               !.retried = IF cs \in history.tried THEN @ \cup {cs} ELSE @,
                               !.stack = IF Alone(h) /\ OnTop(cs) THEN @ ELSE <<>>,
                               !.undone = IF Alone(h) /\ @ = cs THEN @ ELSE NoEntry]

\* What lies below shows again only if the change set was undone as a whole.
RememberRolledBack(cs) ==
    history' = IF Undisturbed(cs) /\ cs \notin history.residue \cup history.retried
               THEN [history EXCEPT
                        !.undone = cs,
                        !.stack = IF OnTop(cs) THEN Front(@) ELSE @]
               ELSE [history EXCEPT !.undone = NoEntry, !.stack = <<>>]

RememberResidue(css) == history' = [history EXCEPT !.residue = @ \cup css]

----------------------------------------------------------------------------
Fault == faults < MaxFaults /\ faults' = faults + 1
NoFault == UNCHANGED faults

\* The outcome of a write of the journal: an error of it is a fault.
Outcome(ok) == IF ok THEN NoFault ELSE Fault

At(h, pc) == handler[h].pc = pc
Goto(h, pc) == handler' = [handler EXCEPT ![h].pc = pc]
Return(h) == handler' = [handler EXCEPT ![h] = Idle]

Op(h) == handler[h].ops[handler[h].idx]
NamedPaths(op) == IF op.old = NoPath THEN <<op.path>> ELSE <<op.path, op.old>>

\* Every call that ends with an error of an operation marks the change set
\* failed and ignores whether that could be stored.
FailReturns(h, ok) ==
    /\ At(h, "fail")
    /\ MarkFailed(handler[h].cs, ok)
    /\ Outcome(ok)
    /\ Return(h)
    /\ UNCHANGED <<tree, manifest, backups, history>>

----------------------------------------------------------------------------
\* patch.apply

ApplyBegin(h, cs, request, ok) ==
    /\ At(h, "idle")
    /\ Begin(cs, ok)
    /\ Outcome(ok)
    /\ IF ok THEN /\ handler' = [handler EXCEPT ![h] =
                        [Idle EXCEPT !.pc = "mkdir", !.cs = cs, !.ops = request, !.idx = 1]]
                  /\ RememberBegin(h, cs, request)
             ELSE UNCHANGED <<handler, history>>
    /\ UNCHANGED <<tree, manifest, backups>>

MakeBackupDirectory(h, ok) ==
    /\ At(h, "mkdir")
    /\ Outcome(ok)
    /\ Goto(h, IF ok THEN "next" ELSE "fail")
    /\ UNCHANGED <<entries, file, tree, manifest, backups, history>>

\* A plausible slip: the loop ends one operation early.
LoopEndsEarly(h) == handler[h].idx >= Len(handler[h].ops)

LoopEnds(h) == handler[h].idx > Len(handler[h].ops)

\* The head of the loop: the context is looked at before each operation
\* only.
DeadlinePassed(h) ==
    /\ At(h, "next")
    /\ ~LoopEnds(h)
    /\ Goto(h, "fail")
    /\ UNCHANGED <<entries, file, tree, manifest, backups, faults, history>>

NextOperation(h) ==
    /\ At(h, "next")
    /\ ~LoopEnds(h)
    /\ handler' = [handler EXCEPT ![h].pc = "preimages", ![h].images = NamedPaths(Op(h))]
    /\ UNCHANGED <<entries, file, tree, manifest, backups, faults, history>>

\* Every named path that can be hashed has its hash stored, one write each;
\* an error of that write is ignored.
ImageNext(h) == handler' = [handler EXCEPT ![h].images = Tail(@)]

StorePreimage(h, ok) ==
    /\ At(h, "preimages")
    /\ handler[h].images # <<>>
    /\ LET path == Head(handler[h].images)
       IN IF IsFile(tree, path)
          THEN SetPreimage(handler[h].cs, path, tree[path].data, ok) /\ Outcome(ok)
          ELSE ok /\ UNCHANGED <<entries, file, faults>>
    /\ ImageNext(h)
    /\ UNCHANGED <<tree, manifest, backups, history>>

StorePostimage(h, ok) ==
    /\ At(h, "postimages")
    /\ handler[h].images # <<>>
    /\ LET path == Head(handler[h].images)
       IN IF IsFile(tree, path)
          THEN SetPostimage(handler[h].cs, path, tree[path].data, ok) /\ Outcome(ok)
          ELSE ok /\ UNCHANGED <<entries, file, faults>>
    /\ ImageNext(h)
    /\ UNCHANGED <<tree, manifest, backups, history>>

\* executePatchOperation, first half: inspect the target and copy it.
Creates(op, t) == op.type \in {"write", "append", "mkdir"} /\ ~Exists(t, op.path)

\* A plausible slip: a file about to be deleted is not copied first.
RecordWithoutDeleted(op, t, n) ==
    [type |-> op.type, path |-> op.path, old |-> op.old, created |-> Creates(op, t),
     backup |-> IF IsFile(t, op.path) /\ op.type # "delete" THEN n ELSE 0]

RecordFor(op, t, n) ==
    [type |-> op.type, path |-> op.path, old |-> op.old, created |-> Creates(op, t),
     backup |-> IF IsFile(t, op.path) THEN n ELSE 0]

Inspect(h) ==
    /\ At(h, "preimages")
    /\ handler[h].images = <<>>
    /\ IF Reachable(tree, Op(h).path)
       THEN LET record == RecordFor(Op(h), tree, handler[h].idx)
            IN /\ handler' = [handler EXCEPT ![h].pc = "perform", ![h].record = record]
               /\ backups' = IF record.backup = 0 THEN backups
                             ELSE [backups EXCEPT ![handler[h].cs][record.backup] =
                                      [state |-> "whole", data |-> tree[Op(h).path].data]]
       ELSE Goto(h, "fail") /\ UNCHANGED backups
    /\ UNCHANGED <<entries, file, tree, manifest, faults, history>>

BackupFails(h) ==
    /\ At(h, "preimages")
    /\ handler[h].images = <<>>
    /\ IsFile(tree, Op(h).path)
    /\ Fault
    /\ backups' = [backups EXCEPT ![handler[h].cs][handler[h].idx] =
                      [state |-> "torn", data |-> <<>>]]
    /\ Goto(h, "fail")
    /\ UNCHANGED <<entries, file, tree, manifest, history>>

\* executePatchOperation, second half: the operation itself.
Perform(h) ==
    /\ At(h, "perform")
    /\ IF CanPerform(tree, Op(h))
       THEN tree' = Performed(tree, Op(h)) /\ Goto(h, "manifest")
       ELSE tree' = Refused(tree, Op(h)) /\ Goto(h, "fail")
    /\ UNCHANGED <<entries, file, manifest, backups, faults, history>>

PerformFails(h) ==
    /\ At(h, "perform")
    /\ CanPerform(tree, Op(h))
    /\ Fault
    /\ tree' \in Interrupted(tree, Op(h))
    /\ Goto(h, "fail")
    /\ IF tree' = tree THEN UNCHANGED history ELSE RememberResidue({handler[h].cs})
    /\ UNCHANGED <<entries, file, manifest, backups>>

\* A plausible slip: the manifest is begun anew for each operation.
OnlyRecord(records, record) == <<record>>

WithRecord(records, record) == Append(records, record)

\* persistRollbackManifest rewrites the file in place.
TruncateManifest(h) ==
    /\ At(h, "manifest")
    /\ handler' = [handler EXCEPT ![h].pc = "fill",
                                  ![h].records = WithRecord(@, handler[h].record)]
    /\ manifest' = [manifest EXCEPT ![handler[h].cs] = TornManifest]
    /\ UNCHANGED <<entries, file, tree, backups, faults, history>>

\* A plausible slip: an error of the manifest does not stop the apply.
AfterFillAlways(ok) == "record"

AfterFill(ok) == IF ok THEN "record" ELSE "fail"

FillManifest(h, ok) ==
    /\ At(h, "fill")
    /\ Outcome(ok)
    /\ Goto(h, AfterFill(ok))
    /\ manifest' = [manifest EXCEPT ![handler[h].cs] =
                       IF ok THEN WholeManifest(handler[h].records) ELSE @]
    /\ UNCHANGED <<entries, file, tree, backups, history>>

\* j.AddOperation, with Reversible set whatever the operation.
RecordOperation(h, ok) ==
    /\ At(h, "record")
    /\ AddOperation(handler[h].cs, [type |-> Op(h).type, path |-> Op(h).path], ok)
    /\ Outcome(ok)
    /\ handler' = [handler EXCEPT ![h].pc = IF ok THEN "postimages" ELSE "fail",
                                  ![h].images = NamedPaths(Op(h))]
    /\ UNCHANGED <<tree, manifest, backups, history>>

OperationDone(h) ==
    /\ At(h, "postimages")
    /\ handler[h].images = <<>>
    /\ handler' = [handler EXCEPT ![h].pc = "next", ![h].idx = @ + 1, ![h].record = NoRecord]
    /\ UNCHANGED <<entries, file, tree, manifest, backups, faults, history>>

\* An error of Complete is returned, and memory says completed all the same.
ApplyComplete(h, ok) ==
    /\ At(h, "next")
    /\ LoopEnds(h)
    /\ Complete(handler[h].cs, ok)
    /\ Outcome(ok)
    /\ Return(h)
    /\ UNCHANGED <<tree, manifest, backups, history>>

----------------------------------------------------------------------------
\* patch.rollback

\* A plausible slip: an off-by-one skips the latest record.
FirstToUndoSkipsLatest(records) == Len(records) - 1

FirstToUndo(records) == Len(records)

\* Any known change set whose manifest can be read, whatever its status.
RollbackStart(h, cs) ==
    /\ At(h, "idle")
    /\ Known(cs)
    /\ manifest[cs].state = "whole"
    /\ LET records == manifest[cs].records
       IN handler' = [handler EXCEPT ![h] =
            [Idle EXCEPT !.pc = "undo", !.cs = cs, !.records = records,
                         !.idx = FirstToUndo(records)]]
    /\ RememberRollback(h, cs)
    /\ UNCHANGED <<entries, file, tree, manifest, backups, faults>>

Saved(cs, r) == IF r.backup = 0 THEN <<>> ELSE backups[cs][r.backup].data

\* The latest record first.
UndoRecord(h) ==
    /\ At(h, "undo")
    /\ handler[h].idx > 0
    /\ LET r == handler[h].records[handler[h].idx]
       IN IF CanUndo(tree, r)
          THEN /\ tree' = Undone(tree, r, Saved(handler[h].cs, r))
               /\ handler' = [handler EXCEPT ![h].idx = @ - 1]
          ELSE /\ tree' = UndoRefused(tree, r)
               /\ Goto(h, "fail")
    /\ UNCHANGED <<entries, file, manifest, backups, faults, history>>

UndoFails(h) ==
    /\ At(h, "undo")
    /\ handler[h].idx > 0
    /\ Fault
    /\ LET r == handler[h].records[handler[h].idx]
       IN /\ CanUndo(tree, r)
          /\ tree' \in UndoInterrupted(tree, r, Saved(handler[h].cs, r))
    /\ Goto(h, "fail")
    /\ UNCHANGED <<entries, file, manifest, backups, history>>

RollbackReturns(h, ok) ==
    /\ At(h, "undo")
    /\ handler[h].idx = 0
    /\ MarkRolledBack(handler[h].cs, ok)
    /\ Outcome(ok)
    /\ Return(h)
    /\ RememberRolledBack(handler[h].cs)
    /\ UNCHANGED <<tree, manifest, backups>>

----------------------------------------------------------------------------
\* The process ends at any point and a new one opens the journal: the calls
\* in progress are gone, and with them the records not yet in a manifest.
Unrecorded(h) == At(h, "manifest")

CrashAndRestart ==
    /\ entries # file \/ \E h \in Handlers : ~At(h, "idle")
    /\ Fault
    /\ Reopen
    /\ handler' = [h \in Handlers |-> Idle]
    /\ RememberResidue({handler[h].cs : h \in {g \in Handlers : Unrecorded(g)}})
    /\ UNCHANGED <<tree, manifest, backups>>

CallApply(requests) ==
    \E h \in Handlers, cs \in ChangeSets, request \in requests, ok \in BOOLEAN :
        ApplyBegin(h, cs, request, ok)

ApplyStep(h) ==
    \/ \E ok \in BOOLEAN :
        \/ MakeBackupDirectory(h, ok)
        \/ StorePreimage(h, ok)
        \/ StorePostimage(h, ok)
        \/ FillManifest(h, ok)
        \/ RecordOperation(h, ok)
        \/ ApplyComplete(h, ok)
    \/ DeadlinePassed(h)
    \/ NextOperation(h)
    \/ Inspect(h)
    \/ BackupFails(h)
    \/ Perform(h)
    \/ PerformFails(h)
    \/ TruncateManifest(h)
    \/ OperationDone(h)

RollbackStep(h) ==
    \/ \E cs \in ChangeSets : RollbackStart(h, cs)
    \/ UndoRecord(h)
    \/ UndoFails(h)
    \/ \E ok \in BOOLEAN : RollbackReturns(h, ok)

HandlersOrCrash ==
    \/ \E h \in Handlers :
        \/ ApplyStep(h)
        \/ RollbackStep(h)
        \/ \E ok \in BOOLEAN : FailReturns(h, ok)
    \/ CrashAndRestart

Next == CallApply(Requests) \/ HandlersOrCrash

Spec == Init /\ [][Next]_vars

----------------------------------------------------------------------------
PatchTypeOK ==
    /\ JournalTypeOK
    /\ tree \in Tree
    /\ \A cs \in ChangeSets :
        /\ manifest[cs].state \in {"none", "torn", "whole"}
        /\ Len(manifest[cs].records) <= MaxOps
        /\ \A n \in 1 .. MaxOps : backups[cs][n].state \in {"none", "torn", "whole"}
    /\ \A h \in Handlers :
        /\ handler[h].pc \in {"idle", "mkdir", "next", "preimages", "perform", "manifest",
                              "fill", "record", "postimages", "fail", "undo"}
        /\ ~At(h, "idle") => handler[h].cs \in ChangeSets
        /\ handler[h].idx \in 0 .. MaxOps + 1
    /\ faults \in 0 .. MaxFaults

UndidAll(h) == At(h, "undo") /\ handler[h].idx = 0

(***************************************************************************)
(* When patch.rollback is about to report success for the change set whose *)
(* effects lie on top, every file is as it was before the change set       *)
(* began.  This is what the per-type records of executePatchOperation and  *)
(* rollbackRecordEntry are for: chains of renames, a path touched twice, a *)
(* file replaced by a directory, an apply cut short by a failing operation *)
(* or a deadline, a manifest written halfway.  An effect that never got a  *)
(* record is set apart in history.residue, and so is a change set whose    *)
(* rollback is started again: after a restored rename it would move the    *)
(* wrong file, and report success.                                         *)
(***************************************************************************)
RolledBackMeansRestored ==
    \A h \in Handlers :
        LET cs == handler[h].cs
        IN /\ UndidAll(h)
           /\ Undisturbed(cs)
           /\ cs \notin history.residue \cup history.retried
           => Files(tree) = Files(history.before[cs])

(***************************************************************************)
(* The same without setting anything apart, as the design asks of a patch  *)
(* that was interrupted halfway.                                           *)
(***************************************************************************)
HalfAppliedIsUndone ==
    \A h \in Handlers :
        UndidAll(h) /\ Undisturbed(handler[h].cs)
            => Files(tree) = Files(history.before[handler[h].cs])

(***************************************************************************)
(* Whatever fails, the data of every file that a change set found is still *)
(* in the tree or in one of its whole backups, until its rollback is tried *)
(* a second time.  The backup is taken before the operation, and a rename  *)
(* needs none (executePatchOperation).  The rollback of a change set with  *)
(* an unrecorded effect is set apart: restoring a backup over a renamed    *)
(* file that no record tells of does lose that file.                       *)
(***************************************************************************)
NothingLost ==
    \A cs \in ChangeSets \ (history.retried \cup (history.residue \cap history.tried)) :
        Undisturbed(cs) =>
            \A p \in TreePaths : IsFile(history.before[cs], p) =>
                \/ \E q \in TreePaths : tree[q] = history.before[cs][p]
                \/ \E n \in 1 .. MaxOps :
                    backups[cs][n] = [state |-> "whole", data |-> history.before[cs][p].data]

SameOperation(r, op) == r.type = op.type /\ r.path = op.path

(***************************************************************************)
(* An operation the journal lists, which it does with Reversible set, can  *)
(* be undone: the manifest, unless torn, has its record at the same place, *)
(* and the backup the record names is whole.  This holds of the journal in *)
(* memory and of the one a restart would load, under any interleaving of   *)
(* calls: patchApply writes backup, manifest and journal in that order.    *)
(***************************************************************************)
ReversibleIsUndoable ==
    \A cs \in ChangeSets, image \in {entries, file} :
        image[cs] # NoEntry /\ manifest[cs].state # "torn" =>
            \A i \in 1 .. Len(image[cs].operations) :
                /\ i <= Len(manifest[cs].records)
                /\ LET r == manifest[cs].records[i]
                   IN /\ SameOperation(r, image[cs].operations[i])
                      /\ r.backup # 0 => backups[cs][r.backup].state = "whole"

(***************************************************************************)
(* A change set the journal calls completed was performed to the last      *)
(* operation, and journal and manifest both account for each of them, even *)
(* when calls overlap.                                                     *)
(***************************************************************************)
CompletedIsRecorded ==
    \A cs \in ChangeSets, image \in {entries, file} :
        image[cs] # NoEntry /\ image[cs].status = "completed" =>
            LET request == history.request[cs]
            IN /\ Len(image[cs].operations) = Len(request)
               /\ manifest[cs].state = "whole"
               /\ Len(manifest[cs].records) = Len(request)
               /\ \A i \in 1 .. Len(request) :
                    /\ SameOperation(image[cs].operations[i], request[i])
                    /\ SameOperation(manifest[cs].records[i], request[i])

(***************************************************************************)
(* An apply that changed a file and was interrupted is found again after   *)
(* a restart: its change set is pending in journal.json unless it is       *)
(* completed there.  Begin is stored before the first operation and        *)
(* Complete after the last one.                                            *)
(***************************************************************************)
InterruptedApplyIsPending ==
    \A cs \in ChangeSets \ history.tried :
        /\ Undisturbed(cs)
        /\ Files(tree) # Files(history.before[cs])
        => \/ cs \in Pending(file)
           \/ /\ file[cs] # NoEntry
              /\ file[cs].status = "completed"
              /\ Len(manifest[cs].records) = Len(history.request[cs])

============================================================================
