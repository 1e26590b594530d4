---------------------------- MODULE ProjectTree ----------------------------
(***************************************************************************)
(* The project directory as the patch handlers of                          *)
(* local-bridge/adapters/ipc_handlers.go see it, and what one patch        *)
(* operation, or the undoing of one, does to it.                           *)
(*                                                                         *)
(* A tree maps every path to a node.  A path is the sequence of its names; *)
(* the project root is not a path.  A file's data is the sequence of the   *)
(* texts written to it: "write" replaces the sequence, "append" extends    *)
(* it.  Hashes are taken to be injective, so data stands for its hash.     *)
(* Permissions, symbolic links and file modes are left out.                *)
(***************************************************************************)
EXTENDS Naturals, Sequences, SequencesExt

CONSTANTS
    TreePaths,    \* the paths of the project, closed under Above
    Texts         \* contents an operation may carry

Absent == [kind |-> "absent"]
Directory == [kind |-> "dir"]
File(data) == [kind |-> "file", data |-> data]

Node == {Absent, Directory} \cup [kind: {"file"}, data: Seq(Texts)]
Tree == [TreePaths -> Node]

IsFile(t, p) == t[p].kind = "file"
IsDirectory(t, p) == t[p].kind = "dir"
Exists(t, p) == t[p].kind # "absent"

\* The files of a tree, without its directories.
Files(t) == [p \in TreePaths |-> IF IsFile(t, p) THEN t[p] ELSE Absent]

\* Every directory on the way to p.
Above(p) == {SubSeq(p, 1, n) : n \in 1 .. Len(p) - 1}

ASSUME ParentsArePaths ==
    \A p \in TreePaths : p \in Seq(STRING) \ {<<>>} /\ Above(p) \subseteq TreePaths

\* What the file system sees to: a file or directory lies in directories.
WellFormed(t) == \A p \in TreePaths : Exists(t, p) => \A q \in Above(p) : IsDirectory(t, q)

----------------------------------------------------------------------------
\* The file system calls.

\* A file on the way to p makes every call on p fail with ENOTDIR, which is
\* not os.ErrNotExist.
Reachable(t, p) == \A q \in Above(p) : ~IsFile(t, q)

WithDirectories(t, dirs) ==
    [q \in TreePaths |-> IF q \in dirs THEN Directory ELSE t[q]]

WithFile(t, p, data) ==
    [WithDirectories(t, Above(p)) EXCEPT ![p] = File(data)]

\* os.Remove takes files and empty directories.
Removable(t, p) ==
    /\ Exists(t, p)
    /\ IsDirectory(t, p) => \A q \in TreePaths : IsStrictPrefix(p, q) => ~Exists(t, q)

Without(t, p) == [t EXCEPT ![p] = Absent]

\* Where a move takes what is at q.
Rebased(q, from, to) == to \o SubSeq(q, Len(from) + 1, Len(q))

\* os.Rename moves a file, or a directory with all it holds.
Moved(t, from, to) ==
    [q \in TreePaths |->
        IF IsPrefix(from, q) THEN Absent
        ELSE IF IsPrefix(to, q)
             THEN IF Rebased(q, to, from) \in TreePaths THEN t[Rebased(q, to, from)] ELSE Absent
        ELSE t[q]]

\* TreePaths bounds the paths there are: a directory is not moved where one
\* of the paths below it would be too long.
StaysInBounds(t, from, to) ==
    \A q \in TreePaths : IsPrefix(from, q) /\ Exists(t, q) => Rebased(q, from, to) \in TreePaths

\* Nothing is moved into itself, onto a directory, or, if it is a directory,
\* onto a file.
CanMove(t, from, to) ==
    /\ Exists(t, from)
    /\ Reachable(t, to)
    /\ ~IsPrefix(from, to)
    /\ Exists(t, to) => IsFile(t, from) /\ IsFile(t, to)
    /\ IsDirectory(t, from) => StaysInBounds(t, from, to)

\* copyFile onto p: its directories are made, then the file is created.
CanCopyTo(t, p) == Reachable(t, p) /\ ~IsDirectory(t, p)

----------------------------------------------------------------------------
\* One patch operation: [type, path, old, text].

\* executePatchOperation refuses an operation whose target cannot be
\* inspected, and leaves each type its own conditions.
CanPerform(t, op) ==
    /\ Reachable(t, op.path)
    /\ \/ op.type \in {"write", "append"} /\ ~IsDirectory(t, op.path)
       \/ op.type = "delete" /\ (Exists(t, op.path) => Removable(t, op.path))
       \/ op.type = "rename" /\ ~Exists(t, op.path) /\ CanMove(t, op.old, op.path)
       \/ op.type = "mkdir" /\ ~IsFile(t, op.path)

DataAt(t, p) == IF IsFile(t, p) THEN t[p].data ELSE <<>>

Performed(t, op) ==
    CASE op.type = "write"  -> WithFile(t, op.path, <<op.text>>)
      [] op.type = "append" -> WithFile(t, op.path, Append(DataAt(t, op.path), op.text))
      [] op.type = "delete" -> Without(t, op.path)
      [] op.type = "rename" -> Moved(WithDirectories(t, Above(op.path)), op.old, op.path)
      [] op.type = "mkdir"  -> WithDirectories(t, Above(op.path) \cup {op.path})

\* What an operation refused by its conditions leaves: a rename makes the
\* directories of its target before the system call refuses it.
Refused(t, op) ==
    IF op.type = "rename" /\ Reachable(t, op.path) /\ Exists(t, op.old) /\ ~Exists(t, op.path)
    THEN WithDirectories(t, Above(op.path))
    ELSE t

\* What may be written of one text: none of it, some of it, or all of it when
\* it is the close that fails.
Parts == {<<>>} \cup {<<text>> : text \in Texts}

\* What a write error in the middle of a possible operation may leave: the
\* directories made first, or the target opened (and truncated) and filled
\* with a part of the text.
Interrupted(t, op) ==
    {t} \cup
    (IF op.type = "delete" THEN {} ELSE {WithDirectories(t, Above(op.path))}) \cup
    (CASE op.type = "write"  -> {WithFile(t, op.path, part) : part \in Parts}
       [] op.type = "append" -> {WithFile(t, op.path, DataAt(t, op.path) \o part) : part \in Parts}
       [] OTHER -> {})

----------------------------------------------------------------------------
\* Undoing one record: [type, path, old, created, backup].  The backup is
\* its number in the rollback directory, 0 for none; saved is the data it
\* holds.  A record has a backup only if a file existed at its path, which
\* is when it is not created.

Restores(r) == r.backup # 0 /\ r.type \in {"write", "append", "delete"}

Removes(r) == r.created /\ ~Restores(r)

\* The conditions under which rollbackRecordEntry returns no error.
CanUndo(t, r) ==
    /\ Restores(r) => CanCopyTo(t, r.path)
    /\ Removes(r) => /\ Reachable(t, r.path)
                     /\ Exists(t, r.path) => Removable(t, r.path)
    /\ r.type = "rename" => CanMove(t, r.path, r.old)

Undone(t, r, saved) ==
    IF r.type = "rename" THEN Moved(WithDirectories(t, Above(r.old)), r.path, r.old)
    ELSE IF Restores(r) THEN WithFile(t, r.path, saved)
    ELSE IF Removes(r) THEN Without(t, r.path)
    ELSE t

\* What an undo leaves that is refused by its conditions.
UndoRefused(t, r) ==
    IF r.type = "rename" /\ Reachable(t, r.old)
    THEN WithDirectories(t, Above(r.old)) ELSE t

\* What an undo leaves that a write error ends in the middle: copyFile makes
\* the directories, creates the file, fills it, and then sets its mode and
\* closes it.
UndoInterrupted(t, r, saved) ==
    {t, UndoRefused(t, r)} \cup
    (IF Restores(r)
     THEN {WithDirectories(t, Above(r.path))} \cup
          {WithFile(t, r.path, SubSeq(saved, 1, n)) : n \in 0 .. Len(saved)}
     ELSE {})

============================================================================
