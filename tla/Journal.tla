------------------------------ MODULE Journal ------------------------------
(***************************************************************************)
(* The change-set journal of the local bridge                              *)
(* (local-bridge/internal/journal/journal.go).                             *)
(*                                                                         *)
(* The journal keeps every change set in a map (entries) guarded by one    *)
(* mutex and writes the whole map to journal.json (file) after every       *)
(* mutation.  The file is replaced by an atomic rename, so it always holds *)
(* one complete image of the map; a failure of any step of persistLocked   *)
(* leaves the previous image.  Each operation takes the mutex for all of   *)
(* its steps, so it is one action here; its last parameter, ok, is the     *)
(* outcome of persistLocked and the result the caller sees.                *)
(*                                                                         *)
(* Left out: work item and task ids, timestamps, error texts and the       *)
(* version number are data no property here tells apart.  ErrorMessage is  *)
(* set with status failed and cleared with the two other final statuses,   *)
(* so status stands for both.  A call with an unknown id, an empty path or *)
(* an empty hash returns an error and changes nothing: a stuttering step.  *)
(***************************************************************************)
EXTENDS Naturals, Sequences

CONSTANTS
    ChangeSets,   \* ids newID may draw
    Paths,        \* project paths an operation or an image may name
    OpTypes,      \* operation types as written by the caller
    Hashes,       \* content hashes
    NoHash,       \* no image recorded for a path
    NoEntry       \* the id is not in the map

VARIABLES
    entries,      \* the map in memory, as readers see it
    file          \* the image in journal.json

journalVars == <<entries, file>>

Status == {"in_progress", "completed", "failed", "rolled_back"}

OperationEntry == [type: OpTypes, path: Paths]

Images == [Paths -> Hashes \cup {NoHash}]

ChangeSetEntry == [status: Status, operations: Seq(OperationEntry),
                   preimages: Images, postimages: Images]

ASSUME NullsAreFresh == NoHash \notin Hashes /\ NoEntry \notin ChangeSetEntry

JournalTypeOK ==
    /\ entries \in [ChangeSets -> ChangeSetEntry \cup {NoEntry}]
    /\ file \in [ChangeSets -> ChangeSetEntry \cup {NoEntry}]

JournalInit ==
    /\ entries = [cs \in ChangeSets |-> NoEntry]
    /\ file = entries

----------------------------------------------------------------------------
Known(cs) == entries[cs] # NoEntry

\* A plausible slip: the image maps are left nil.
NewEntryWithoutImages == [status |-> "in_progress", operations |-> <<>>,
                          preimages |-> <<>>, postimages |-> <<>>]

NewEntry == [status |-> "in_progress", operations |-> <<>>,
             preimages  |-> [p \in Paths |-> NoHash],
             postimages |-> [p \in Paths |-> NoHash]]

\* The rename in persistLocked either publishes all of memory or nothing.
Persist(ok) == file' = IF ok THEN entries' ELSE file

\* A plausible slip: a refused change set stays in the map.
BeginLeavesEntry(cs, ok) ==
    /\ ~Known(cs)
    /\ entries' = [entries EXCEPT ![cs] = NewEntry]
    /\ Persist(ok)

\* A Begin whose persist fails takes the entry out of the map again.
Begin(cs, ok) ==
    /\ ~Known(cs)
    /\ entries' = IF ok THEN [entries EXCEPT ![cs] = NewEntry] ELSE entries
    /\ Persist(ok)

\* The shared shape of the other mutations: memory first, then the file; an
\* error of persistLocked is returned but memory keeps the mutation.
Update(cs, entry, ok) ==
    /\ Known(cs)
    /\ entries' = [entries EXCEPT ![cs] = entry]
    /\ Persist(ok)

AddOperation(cs, op, ok) ==
    Update(cs, [entries[cs] EXCEPT !.operations = Append(@, op)], ok)

SetPreimage(cs, path, hash, ok) ==
    Update(cs, [entries[cs] EXCEPT !.preimages[path] = hash], ok)

SetPostimage(cs, path, hash, ok) ==
    Update(cs, [entries[cs] EXCEPT !.postimages[path] = hash], ok)

\* A plausible slip: settling a change set starts its record afresh.
SettleAfresh(cs, status, ok) ==
    Update(cs, [NewEntry EXCEPT !.status = status], ok)

\* No guard on the present status: Complete, MarkFailed and MarkRolledBack
\* take an entry from any status to theirs.
Settle(cs, status, ok) ==
    Update(cs, [entries[cs] EXCEPT !.status = status], ok)

Complete(cs, ok) == Settle(cs, "completed", ok)
MarkFailed(cs, ok) == Settle(cs, "failed", ok)
MarkRolledBack(cs, ok) == Settle(cs, "rolled_back", ok)

\* A plausible slip: a failed change set is not pending.
PendingInProgress(image) == {cs \in ChangeSets :
    image[cs] # NoEntry /\ image[cs].status = "in_progress"}

\* What GetPending returns, as a set of ids.
Pending(image) == {cs \in ChangeSets :
    /\ image[cs] # NoEntry
    /\ image[cs].status \notin {"completed", "rolled_back"}}

\* The process ended and NewJournal loads the file.
Reopen ==
    /\ entries' = file
    /\ UNCHANGED file

============================================================================
