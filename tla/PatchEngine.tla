---------------------------- MODULE PatchEngine ----------------------------
(***************************************************************************)
(* Preflight and Apply of local-bridge/internal/patch/patch.go over the    *)
(* journal and the project directory.                                      *)
(*                                                                         *)
(* One call of Apply checks every operation of a proposal against the tree *)
(* as it is, begins a change set and then takes the operations in turn:    *)
(* the operation and the hash of what it will change go to the journal,    *)
(* the operation is performed, the hash of the result goes to the journal. *)
(* Nothing locks the project: between two steps the editor may save or     *)
(* delete a file (Edit, at most MaxEdits times).  A write error or the end *)
(* of the process (at most MaxFaults) may meet any step, and the context   *)
(* of the call may expire at each of its checks.                           *)
(*                                                                         *)
(* An operation is [type, action, path, target, content, find, to, all,    *)
(* edits].  Content, find and to are one text each; a unified diff is the  *)
(* set of the file changes it asks for.  project.godot is a file whose     *)
(* data is its lines.  Permissions, base64 and the temporary file of       *)
(* writeFileAtomic, whose rename is atomic, are left out.  Preflight reads *)
(* the tree in one step.  A journal error and the MarkFailed after it are  *)
(* two writes of the journal, hence two steps.                             *)
(***************************************************************************)
EXTENDS ProjectTree, ProjectSettings, FiniteSets

CONSTANTS
    ChangeSets, OpTypes, NoHash, NoEntry,   \* as in Journal
    Proposals,      \* sequences of operations
    Trees,          \* the trees the project may start from
    Edits,          \* what the editor may do: [path, node]
    ScenePaths,     \* paths with the extension of a scene
    ResourcePaths,  \* paths with the extension of a resource
    ProjectFile,    \* the path of project.godot
    Settings,       \* the settings that file may assign
    MaxFaults, MaxEdits,
    NoPath, NoText,
    Missing         \* what is recorded as the hash of no file

VARIABLES
    entries, file,  \* the journal
    tree,           \* the project directory
    call,           \* the progress of Apply
    faults, edits,
    history         \* what the properties compare with; the code has none of it

engineVars == <<entries, file, tree, call, faults>>
vars == <<engineVars, edits, history>>

INSTANCE Journal WITH Paths <- TreePaths, Hashes <- Seq(Texts) \cup {Missing}

FileChange == [path: TreePaths, from: Node, to: Node \ {Directory}]

Operation ==
    [type: OpTypes, action: STRING, path: Seq(STRING), target: Seq(STRING) \cup {NoPath},
     content: Texts \cup {NoText}, find: Texts \cup {NoText},
     to: Texts \cup {NoText}, all: BOOLEAN, edits: SUBSET FileChange]

ASSUME EngineBounds == MaxFaults \in Nat /\ MaxEdits \in Nat
ASSUME EngineNulls ==
    /\ NoHash \notin Seq(Texts) \cup {Missing}
    /\ NoEntry \notin ChangeSets \cup {NoHash} /\ NoEntry \notin ChangeSetEntry
    /\ NoPath \notin Seq(STRING) /\ NoText \notin Texts
ASSUME EngineTrees ==
    /\ ProjectFile \in TreePaths
    /\ \A t \in Trees : t \in Tree /\ WellFormed(t)
    /\ \A e \in Edits : e.path \in TreePaths /\ e.node \in Node \ {Directory}

FileActions == {"create", "write", "modify", "replace", "append", "delete", "rename"}

AllowedActions(type) ==
    CASE type = "project_setting" -> {"set", "remove"}
      [] type = "asset_import"    -> FileActions
      [] OTHER                    -> FileActions \cup {"apply_patch"}

NotCalled == [pc |-> "idle", cs |-> NoEntry, ops |-> <<>>, idx |-> 0,
              action |-> "", read |-> <<>>]

Init ==
    /\ JournalInit
    /\ tree \in Trees
    /\ call = NotCalled
    /\ faults = 0
    /\ edits = 0
    /\ history = [before |-> tree, late |-> {}, patched |-> {}]

----------------------------------------------------------------------------
\* What an operation means.

Op == call.ops[call.idx]

IsSettingOp(op) == op.type = "project_setting"

Synonym == [remove |-> "delete", move |-> "rename", update |-> "modify"]

HasFindReplace(op) == op.find # NoText

\* What a proposal carries are texts, lines made with them too.
HasTexts(op) ==
    /\ IsSettingOp(op) /\ IsSetting(op.path) =>
           /\ Header(SectionOf(op.path)) \in Texts
           /\ op.content # NoText => Assignment(KeyOf(op.path), op.content) \in Texts
    /\ HasFindReplace(op) => op.to \in Texts

\* A diff changes each path once, and leaves no file above another.
IsDiff(changes) ==
    \A e, f \in changes :
        /\ e.from # e.to
        /\ e.path = f.path => e = f
        /\ e.to # Absent /\ f.to # Absent => e.path \notin Above(f.path)

ASSUME EngineProposals ==
    /\ Blank \in Texts
    /\ \A ops \in Proposals :
          ops \in Seq(Operation) /\ \A i \in DOMAIN ops : HasTexts(ops[i]) /\ IsDiff(ops[i].edits)

\* normalizeAction, which looks at the tree again each time it is asked.
ActionOf(t, op) ==
    LET named == IF op.action \in DOMAIN Synonym THEN Synonym[op.action] ELSE op.action
    IN IF named # "" THEN IF IsSettingOp(op) /\ named = "delete" THEN "remove" ELSE named
       ELSE IF IsSettingOp(op) THEN "set"
       ELSE IF op.target # NoPath THEN "rename"
       ELSE IF op.content = NoText /\ ~HasFindReplace(op) THEN "delete"
       ELSE IF Exists(t, op.path) THEN "modify" ELSE "create"

\* operationPaths: the file hashed before, and the file hashed after, which
\* is also the one the journal names.
PrePath(op) == IF IsSettingOp(op) THEN ProjectFile ELSE op.path

PostPath(t, op) == IF ActionOf(t, op) = "rename" THEN op.target ELSE PrePath(op)

NamedPaths(op) == {op.path} \cup (IF op.target = NoPath THEN {} ELSE {op.target})

\* The paths an operation may read or change.
Touches(op) ==
    IF IsSettingOp(op) THEN {ProjectFile}
    ELSE NamedPaths(op) \cup {e.path : e \in op.edits}

FitsType(op) ==
    CASE op.type = "scene_op"    -> NamedPaths(op) \subseteq ScenePaths
      [] op.type = "resource_op" -> NamedPaths(op) \subseteq ResourcePaths
      [] OTHER                   -> TRUE

----------------------------------------------------------------------------
\* Preflight

\* A plausible slip: what the target is is not looked at.
CheckWritableAnything(t, p, mustExist) == mustExist => Exists(t, p)

CheckWritablePath(t, p, mustExist) ==
    IF Exists(t, p) THEN IsFile(t, p)
    ELSE ~mustExist /\ (Len(p) = 1 \/ IsDirectory(t, Front(p)))

CheckWritableForAction(t, op, action) ==
    CASE action = "rename" -> /\ CheckWritablePath(t, op.path, TRUE)
                              /\ CheckWritablePath(t, op.target, FALSE)
      [] action \in {"create", "write"} -> CheckWritablePath(t, op.path, FALSE)
      [] action \in {"delete", "modify", "replace", "append"} ->
                              CheckWritablePath(t, op.path, TRUE)
      [] action \in {"set", "remove"} -> CheckWritablePath(t, ProjectFile, TRUE)
      [] OTHER -> TRUE

PreflightFile(t, op, action) ==
    /\ FitsType(op)
    /\ NamedPaths(op) \subseteq TreePaths
    /\ action \in {"modify", "delete", "rename", "append"} => Exists(t, op.path)
    /\ action = "create" => ~Exists(t, op.path)
    /\ action = "apply_patch" => op.edits # {}
    /\ action = "rename" => op.target # NoPath /\ ~Exists(t, op.target)

\* A path outside of the project or an action the type does not have fails
\* before anything else is looked at.
PreflightOperation(t, op) ==
    LET action == ActionOf(t, op)
    IN /\ action \in AllowedActions(op.type)
       /\ IF IsSettingOp(op) THEN IsSetting(op.path) ELSE PreflightFile(t, op, action)
       /\ CheckWritableForAction(t, op, action)

PreflightOK(t, ops) == \A i \in DOMAIN ops : PreflightOperation(t, ops[i])

----------------------------------------------------------------------------
\* The operations on the tree.

TextData(text) == IF text = NoText THEN <<>> ELSE <<text>>

\* transformedContent: what it looks for in the file, and whether it is there.
IsTransformed(op, action) ==
    action \in {"write", "replace", "modify"} /\ op.type # "asset_import"

Searches(op, action) == IsTransformed(op, action) /\ HasFindReplace(op)

Finds(op, data) == \E i \in DOMAIN data : data[i] = op.find

\* The operations that read the file in one step and write it in another.
ReadsFirst(op, action) == IsSettingOp(op) \/ action = "append" \/ Searches(op, action)

ReplacedFirst(data, op) ==
    LET i == SelectInSeq(data, LAMBDA text : text = op.find)
    IN [data EXCEPT ![i] = op.to]

\* transformedContent, and the payloads of the other actions; data is what
\* was read.  An asset is written as it comes.
Transformed(op, action, data) ==
    IF IsSettingOp(op) THEN IF action = "remove" THEN WithoutSetting(data, op.path)
                            ELSE WithSetting(data, op.path, op.content)
    ELSE IF action = "append" THEN data \o TextData(op.content)
    ELSE IF ~ReadsFirst(op, action) THEN TextData(op.content)
    ELSE IF op.all THEN ReplaceAll(data, op.find, op.to) ELSE ReplacedFirst(data, op)

\* An operation that has to write something and carries nothing.
LacksContent(op, action) ==
    /\ op.content = NoText
    /\ IF IsSettingOp(op) THEN action = "set"
       ELSE IsTransformed(op, action) /\ ~HasFindReplace(op)

\* What transformedContent finds out once the file is read, and Preflight
\* does not look at.
ContentFits(op, action, data) ==
    /\ ~LacksContent(op, action)
    /\ ~IsSettingOp(op) /\ Searches(op, action) => Finds(op, data)

\* git apply: every change of the diff starts from the file it expects.
DiffApplies(t, op) ==
    /\ op.edits # {}
    /\ \A e \in op.edits : t[e.path] = e.from /\ Reachable(t, e.path) /\ ~IsDirectory(t, e.path)

\* git removes the directories that its deletions leave empty.
Emptied(t, changes) ==
    LET gone == {e.path : e \in {c \in changes : c.to = Absent}}
        ways == UNION {Above(p) : p \in gone}
    IN {q \in ways : \A r \in TreePaths :
                         IsStrictPrefix(q, r) /\ Exists(t, r) => r \in gone \cup ways}

\* Files are deleted before any is made.
WithEdits(t, changes) ==
    LET made == UNION {Above(e.path) : e \in {c \in changes : c.to # Absent}}
        left == [q \in TreePaths |-> IF q \in Emptied(t, changes) THEN Absent ELSE t[q]]
        base == WithDirectories(left, made)
    IN [p \in TreePaths |->
            IF \E e \in changes : e.path = p
            THEN (CHOOSE e \in changes : e.path = p).to ELSE base[p]]

\* The conditions of the file system calls an operation makes.
CanApply(t, op, action) ==
    /\ FitsType(op)
    /\ CASE action = "create" -> ~Exists(t, op.path) /\ CanCopyTo(t, op.path)
         [] action = "delete" -> Removable(t, op.path)
         [] action = "rename" -> CanMove(t, op.path, op.target)
         [] action = "apply_patch" -> DiffApplies(t, op)
         [] OTHER -> /\ ReadsFirst(op, action) => IsFile(t, PrePath(op))
                     /\ CanCopyTo(t, PrePath(op))

Applied(t, op, action, data) ==
    CASE action = "delete" -> Without(t, op.path)
      [] action = "rename" -> Moved(WithDirectories(t, Above(op.target)), op.path, op.target)
      [] action = "apply_patch" -> WithEdits(t, op.edits)
      [] action = "remove" /\ WithoutSetting(data, op.path) = data -> t
      [] OTHER -> WithFile(t, PrePath(op), Transformed(op, action, data))

\* os.Rename is refused after the directories of the target were made.
NotRenamed(t, op, action) ==
    IF action = "rename" /\ Reachable(t, op.target)
    THEN WithDirectories(t, Above(op.target)) ELSE t

\* What an operation that is cut short may leave: directories it made, and
\* of a diff, which git writes file by file, any part.
CutShort(t, op, action) ==
    IF action = "apply_patch" THEN {WithEdits(t, part) : part \in SUBSET op.edits}
    ELSE IF action = "delete" THEN {t}
    ELSE {t, WithDirectories(t, Above(PostPath(t, op)))}

----------------------------------------------------------------------------
Fault == faults < MaxFaults /\ faults' = faults + 1
Outcome(ok) == IF ok THEN UNCHANGED faults ELSE Fault

At(pc) == call.pc = pc
Goto(pc) == call' = [call EXCEPT !.pc = pc]

\* A plausible slip: an error of the journal does not stop Apply.
GoOnRegardless(ok, pc) == Goto(pc)

GoOn(ok, pc) == Goto(IF ok THEN pc ELSE "fail")

Running == call.pc \notin {"idle", "refused", "completed", "failed", "crashed"}

Submit(ops) ==
    /\ At("idle")
    /\ call' = [NotCalled EXCEPT !.pc = IF PreflightOK(tree, ops) THEN "begin" ELSE "refused",
                                 !.ops = ops]
    /\ UNCHANGED <<entries, file, tree, faults, edits, history>>

BeginChangeSet(cs, ok) ==
    /\ At("begin")
    /\ Begin(cs, ok)
    /\ Outcome(ok)
    /\ call' = [call EXCEPT !.pc = IF ok THEN "next" ELSE "failed",
                            !.cs = IF ok THEN cs ELSE NoEntry, !.idx = 1]
    /\ UNCHANGED <<tree, edits, history>>

\* ctx.Err at the head of the loop and at the start of an operation.
ContextExpires ==
    /\ \/ At("next") /\ call.idx <= Len(call.ops)
       \/ At("perform")
    /\ Goto("fail")
    /\ UNCHANGED <<entries, file, tree, faults, edits, history>>

JournalOperation(ok) ==
    /\ At("next")
    /\ call.idx <= Len(call.ops)
    /\ AddOperation(call.cs, [type |-> Op.type, path |-> PostPath(tree, Op)], ok)
    /\ Outcome(ok)
    /\ GoOn(ok, "preimage")
    /\ UNCHANGED <<tree, edits, history>>

\* fileHashOrMissing; a directory cannot be hashed.
Hashable(t, p) == ~IsDirectory(t, p)
HashOf(t, p) == IF IsFile(t, p) THEN t[p].data ELSE Missing

\* A plausible slip: the hash is of the path the result will have.
JournalPreimageOfPost(ok) ==
    /\ At("preimage")
    /\ Hashable(tree, PostPath(tree, Op))
    /\ SetPreimage(call.cs, PrePath(Op), HashOf(tree, PostPath(tree, Op)), ok)
    /\ Outcome(ok)
    /\ GoOn(ok, "perform")
    /\ UNCHANGED <<tree, edits, history>>

JournalPreimage(ok) ==
    /\ At("preimage")
    /\ Hashable(tree, PrePath(Op))
    /\ SetPreimage(call.cs, PrePath(Op), HashOf(tree, PrePath(Op)), ok)
    /\ Outcome(ok)
    /\ GoOn(ok, "perform")
    /\ UNCHANGED <<tree, edits, history>>

PostHashPath == PostPath(tree, Op)

\* A plausible slip: the hash of the result is kept under the path before.
JournalPostimageOfPre(ok) ==
    /\ At("postimage")
    /\ Hashable(tree, PostHashPath)
    /\ SetPostimage(call.cs, PrePath(Op), HashOf(tree, PostHashPath), ok)
    /\ Outcome(ok)
    /\ call' = [call EXCEPT !.pc = IF ok THEN "next" ELSE "fail",
                            !.idx = IF ok THEN @ + 1 ELSE @]
    /\ UNCHANGED <<tree, edits, history>>

JournalPostimage(ok) ==
    /\ At("postimage")
    /\ Hashable(tree, PostHashPath)
    /\ SetPostimage(call.cs, PostHashPath, HashOf(tree, PostHashPath), ok)
    /\ Outcome(ok)
    /\ call' = [call EXCEPT !.pc = IF ok THEN "next" ELSE "fail",
                            !.idx = IF ok THEN @ + 1 ELSE @]
    /\ UNCHANGED <<tree, edits, history>>

HashFails ==
    /\ \/ At("preimage") /\ ~Hashable(tree, PrePath(Op))
       \/ At("postimage") /\ ~Hashable(tree, PostHashPath)
    /\ Goto("fail")
    /\ UNCHANGED <<entries, file, tree, faults, edits, history>>

\* What the history remembers:
\*   before   the tree without the effects of Apply: an edit of a file Apply
\*            has not come to yet belongs to it
\*   late     paths edited after Apply had come to them
\*   patched  paths diffs changed other than the operation's own
RememberDiff(action) ==
    history' = IF action = "apply_patch"
               THEN [history EXCEPT !.patched = @ \cup ({e.path : e \in Op.edits} \ {Op.path})]
               ELSE history

\* applyFileOperation and applyProjectSetting, up to reading the file.
ReadFile ==
    /\ At("perform")
    /\ LET action == ActionOf(tree, Op)
       IN /\ ReadsFirst(Op, action)
          /\ IF CanApply(tree, Op, action)
             THEN call' = [call EXCEPT !.pc = "write", !.action = action,
                                       !.read = tree[PrePath(Op)].data]
             ELSE Goto("fail")
    /\ UNCHANGED <<entries, file, tree, faults, edits, history>>

\* What was read is changed and replaces the file as it is by now.
WriteFile ==
    /\ At("write")
    /\ IF ContentFits(Op, call.action, call.read) /\ CanCopyTo(tree, PrePath(Op))
       THEN /\ tree' = Applied(tree, Op, call.action, call.read)
            /\ call' = [call EXCEPT !.pc = "postimage", !.action = "", !.read = <<>>]
       ELSE UNCHANGED tree /\ Goto("fail")
    /\ UNCHANGED <<entries, file, faults, edits, history>>

\* The operations that read nothing.
Perform ==
    /\ At("perform")
    /\ LET action == ActionOf(tree, Op)
       IN /\ ~ReadsFirst(Op, action)
          /\ IF ContentFits(Op, action, <<>>) /\ CanApply(tree, Op, action)
             THEN /\ tree' = Applied(tree, Op, action, <<>>)
                  /\ Goto("postimage")
                  /\ RememberDiff(action)
             ELSE /\ tree' = NotRenamed(tree, Op, action)
                  /\ Goto("fail")
                  /\ UNCHANGED history
    /\ UNCHANGED <<entries, file, faults, edits>>

\* An error of the operating system, or the deadline of the git command.
PerformFails ==
    /\ LET action == IF At("write") THEN call.action ELSE ActionOf(tree, Op)
       IN /\ \/ At("perform") /\ CanApply(tree, Op, action)
             \/ At("write") /\ CanCopyTo(tree, PrePath(Op))
          /\ tree' \in CutShort(tree, Op, action)
          /\ RememberDiff(action)
    /\ Fault
    /\ Goto("fail")
    /\ UNCHANGED <<entries, file, edits>>

FailApply(ok) ==
    /\ At("fail")
    /\ MarkFailed(call.cs, ok)
    /\ Outcome(ok)
    /\ Goto("failed")
    /\ UNCHANGED <<tree, edits, history>>

\* An error of Complete is returned; nothing marks the change set failed.
CompleteApply(ok) ==
    /\ At("next")
    /\ call.idx > Len(call.ops)
    /\ Complete(call.cs, ok)
    /\ Outcome(ok)
    /\ Goto(IF ok THEN "completed" ELSE "failed")
    /\ UNCHANGED <<tree, edits, history>>

Crash ==
    /\ Running
    /\ Fault
    /\ Reopen
    /\ Goto("crashed")
    /\ IF At("perform") /\ Op.action = "apply_patch" /\ CanApply(tree, Op, "apply_patch")
       THEN tree' \in CutShort(tree, Op, "apply_patch") /\ RememberDiff("apply_patch")
       ELSE UNCHANGED <<tree, history>>
    /\ UNCHANGED edits

----------------------------------------------------------------------------
\* Apply has come to the paths of an operation once the hash of what it
\* will change is taken.
ComeTo(p) ==
    \E i \in 1 .. Len(call.ops) :
        /\ i < call.idx \/ (i = call.idx /\ call.pc \notin {"begin", "next", "preimage"})
        /\ p \in Touches(call.ops[i])

\* The editor saves or deletes a file, or an empty directory, whatever Apply
\* is doing.
CanEdit(t, e) ==
    IF e.node = Absent THEN Removable(t, e.path)
    ELSE ~IsDirectory(t, e.path) /\ (Len(e.path) > 1 => IsDirectory(t, Front(e.path)))

Edit(e) ==
    /\ Running
    /\ edits < MaxEdits
    /\ edits' = edits + 1
    /\ CanEdit(tree, e)
    /\ tree' = [tree EXCEPT ![e.path] = e.node]
    /\ history' = IF ComeTo(e.path) THEN [history EXCEPT !.late = @ \cup {e.path}]
                  ELSE [history EXCEPT !.before[e.path] = e.node]
    /\ UNCHANGED <<entries, file, call, faults>>

ApplyStep ==
    \/ \E ops \in Proposals : Submit(ops)
    \/ \E ok \in BOOLEAN :
        \/ \E cs \in ChangeSets : BeginChangeSet(cs, ok)
        \/ JournalOperation(ok)
        \/ JournalPreimage(ok)
        \/ JournalPostimage(ok)
        \/ FailApply(ok)
        \/ CompleteApply(ok)
    \/ ContextExpires
    \/ HashFails
    \/ ReadFile
    \/ WriteFile
    \/ Perform
    \/ PerformFails

Next ==
    \/ ApplyStep
    \/ Crash
    \/ \E e \in Edits : Edit(e)

Spec == Init /\ [][Next]_vars

----------------------------------------------------------------------------
EngineTypeOK ==
    /\ JournalTypeOK
    /\ tree \in Tree
    /\ call.pc \in {"idle", "refused", "begin", "next", "preimage", "perform", "write",
                   "postimage", "fail", "failed", "completed", "crashed"}
    /\ call.pc \notin {"idle", "refused", "begin", "failed", "crashed"} =>
            call.cs \in ChangeSets /\ call.idx \in 1 .. Len(call.ops) + 1
    /\ call.read \in Seq(Texts)
    /\ faults \in 0 .. MaxFaults
    /\ edits \in 0 .. MaxEdits

Journalled(image) ==
    {image.operations[i].path : i \in DOMAIN image.operations} \cup
    {p \in TreePaths : image.preimages[p] # NoHash}

(***************************************************************************)
(* Write ahead: a file that Apply changed, made or removed is named in the *)
(* journal on disk, whatever failed and whenever the process ended, so     *)
(* that whoever finds the pending change set knows where to look.  Files   *)
(* the editor wrote meanwhile are set apart, and so are the files of a     *)
(* diff other than the operation's own, which the journal never names.     *)
(***************************************************************************)
EffectsAreJournalled ==
    \A p \in TreePaths \ (history.late \cup history.patched) :
        /\ tree[p] # history.before[p]
        /\ IsFile(tree, p) \/ IsFile(history.before, p)
        => /\ file[call.cs] # NoEntry
           /\ p \in Journalled(file[call.cs])

TouchedBy(p) == {i \in DOMAIN call.ops : p \in Touches(call.ops[i])}

(***************************************************************************)
(* The preimage kept for a path only one operation touches is the hash of  *)
(* the file as it would be without Apply: of what the editor saved last    *)
(* before Apply came to it, not of what preflight saw or of a result of    *)
(* Apply itself.  (Of two operations on a path the second overwrites the   *)
(* preimage of the first.)                                                 *)
(***************************************************************************)
PreimageIsOriginal ==
    \A image \in {entries, file}, cs \in ChangeSets : image[cs] # NoEntry =>
        \A p \in TreePaths \ history.late :
            image[cs].preimages[p] # NoHash /\ Cardinality(TouchedBy(p)) = 1
                => image[cs].preimages[p] = HashOf(history.before, p)

\* The last operation to touch p leaves its result there.
Result(p) == TouchedBy(p) # {} /\ p = PostPath(tree, call.ops[Max(TouchedBy(p))])

(***************************************************************************)
(* A change set that memory or the file calls completed accounts for the   *)
(* proposal: it names, in their order, the path each operation has its     *)
(* result at, and the postimage of a path is the hash of the file there,   *)
(* unless it was renamed away or the editor wrote it.                      *)
(***************************************************************************)
CompletedMatchesTree ==
    \A image \in {entries, file}, cs \in ChangeSets :
        image[cs] # NoEntry /\ image[cs].status = "completed" =>
            /\ Len(image[cs].operations) = Len(call.ops)
            /\ \A i \in DOMAIN call.ops : image[cs].operations[i].path = PostPath(tree, call.ops[i])
            /\ \A p \in TreePaths \ history.late :
                    Result(p) => /\ image[cs].postimages[p] = HashOf(tree, p)
                                 /\ p \in Journalled(image[cs])

\* No operation touches a path of another, or a path above or below it.
Independent(ops) ==
    \A i, j \in DOMAIN ops : i # j =>
        \A p \in Touches(ops[i]), q \in Touches(ops[j]) : ~IsPrefix(p, q)

(***************************************************************************)
(* Preflight is enough but for what it does not look at: if it passed,     *)
(* nobody edits the project and no two operations meet on a path, then no  *)
(* file system call an operation makes is refused and its content fits,    *)
(* whatever the operations before it did.  Three failures Preflight does   *)
(* not foresee: a diff that does not apply, an operation that writes and   *)
(* carries no content, and a search whose text was not in the file before  *)
(* Apply, or that had no file.                                             *)
(***************************************************************************)
Unforeseen(op, action) ==
    \/ action = "apply_patch"
    \/ LacksContent(op, action)
    \/ Searches(op, action) /\ ~Finds(op, DataAt(history.before, op.path))

PreflightIsEnough ==
    At("perform") /\ edits = 0 /\ Independent(call.ops) =>
        LET action == ActionOf(tree, Op)
        IN \/ Unforeseen(Op, action)
           \/ /\ CanApply(tree, Op, action)
              /\ ContentFits(Op, action, DataAt(tree, PrePath(Op)))

(***************************************************************************)
(* Setting or removing a project setting changes what Godot reads for that *)
(* setting and for no other, wherever its section and its key are in the   *)
(* file that was read, and nothing else the editor saved is lost.  Holds   *)
(* if the file has every section once and did not change since it was      *)
(* read (applyProjectSetting, findSectionBounds).                          *)
(***************************************************************************)
OnlyThatSetting ==
    [][ /\ At("write") /\ call'.pc = "postimage" /\ IsSettingOp(Op)
        /\ SectionsOnce(call.read)
        /\ tree[ProjectFile] = File(call.read)
        => \A setting \in Settings :
               ReadSetting(tree'[ProjectFile].data, setting, NoText) =
                   IF setting # Op.path THEN ReadSetting(call.read, setting, NoText)
                   ELSE IF call.action = "remove" THEN NoText ELSE Op.content ]_vars

============================================================================
