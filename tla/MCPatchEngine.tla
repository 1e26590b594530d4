--------------------------- MODULE MCPatchEngine ---------------------------
(* Files a, s (a scene) and project.godot, a directory d with a file d/a;  *)
(* every action on them, alone and in pairs that meet on a path or do not. *)
EXTENDS PatchEngine, TLC

CONSTANTS c1, x, y, n

a == <<"a">>
s == <<"s">>
d == <<"d">>
da == <<"d", "a">>
project == <<"project">>
outside == <<"..">>

MCPaths == {a, s, d, da, project}

\* A setting in each of two sections, and a second key in one of them.
ak == <<"a", "k">>
al == <<"a", "l">>
bk == <<"b", "k">>
MCSettings == {ak, al, bk}
Line(setting, value) == Assignment(KeyOf(setting), value)

MCTexts == {x, y, n, Blank, Header("a"), Header("b")} \cup
           {Line(setting, value) : setting \in MCSettings, value \in {x, y}}
MCOpTypes == {"text_patch", "scene_op", "resource_op", "asset_import", "project_setting"}

NoOp == [type |-> "text_patch", action |-> "", path |-> a, target |-> NoPath, content |-> NoText,
         find |-> NoText, to |-> NoText, all |-> FALSE, edits |-> {}]

On(type, action, p) == [NoOp EXCEPT !.type = type, !.action = action, !.path = p]
Text(action, p) == [On("text_patch", action, p) EXCEPT !.content = n]
Rename(from, to) == [On("text_patch", "move", from) EXCEPT !.target = to]
Replace(p, all) == [On("text_patch", "modify", p) EXCEPT !.find = x, !.to = y, !.all = all]
SetTo(setting, value) == [On("project_setting", "", setting) EXCEPT !.content = value]
Unset(setting) == On("project_setting", "remove", setting)
Change(p, from, to) == [path |-> p, from |-> from, to |-> to]
Diff(p, changes) == [On("text_patch", "apply_patch", p) EXCEPT !.edits = changes]
Deletion == Diff(da, {Change(da, File(<<y>>), Absent)})
TwoFiles == Diff(a, {Change(a, File(<<x, x>>), File(<<n>>)), Change(da, Absent, File(<<n>>))})

MCOperations ==
    {Text("", a), Text("create", da), Text("append", a), Text("write", da), Text("delete", a),
     Rename(a, da), Rename(a, s), Replace(a, TRUE), Replace(a, FALSE), TwoFiles, Deletion,
     [Replace(da, TRUE) EXCEPT !.action = "write"], On("text_patch", "", a),
     On("asset_import", "replace", a),
     [On("scene_op", "", s) EXCEPT !.content = n],
     SetTo(ak, y), Unset(ak)}

\* What Preflight or the content check has to refuse.
MCRefused ==
    {Text("write", outside), Text("set", a), On("scene_op", "delete", a), Text("delete", d),
     On("resource_op", "delete", a), SetTo(<<"a">>, y), SetTo(ak, NoText), Rename(a, NoPath),
     On("text_patch", "write", a), Diff(a, {})}

\* Preflight finds no directory at d, the second operation does.
MCNowDirectory ==
    <<Diff(a, {Change(a, File(<<y>>), File(<<n>>)), Change(da, Absent, File(<<n>>))}),
      Text("write", d)>>

MCProposals == {<<op>> : op \in MCOperations \cup MCRefused \cup {Unset(al), SetTo(bk, y)}} \cup
               {<<op1, op2>> : op1 \in MCOperations, op2 \in MCOperations} \cup
               {MCNowDirectory}

MCTree(atA, atD, atDA, lines) ==
    (a :> atA) @@ (s :> Absent) @@ (d :> atD) @@ (da :> atDA) @@ (project :> File(lines))

MCProjectLines ==
    {<<Header("a"), Line(ak, x), Blank, Header("b"), Line(bk, x)>>,
     <<Header("b"), Line(bk, x), Blank, Header("a"), Line(al, x)>>,
     <<Header("b"), Header("a"), Line(al, x), Line(ak, x), Line(ak, y)>>}
MCLines == CHOOSE lines \in MCProjectLines : TRUE

MCTrees ==
    {MCTree(File(<<x, x>>), Directory, Absent, lines) : lines \in MCProjectLines} \cup
    {MCTree(File(<<x, x>>), Directory, File(<<y>>), MCLines),
     MCTree(Absent, Directory, Absent, MCLines),
     MCTree(File(<<y>>), Absent, Absent, MCLines),
     MCTree(File(<<y>>), File(<<x>>), Absent, <<>>)}

MCEdits == {[path |-> a, node |-> File(<<y>>)], [path |-> a, node |-> Absent],
            [path |-> da, node |-> File(<<y>>)], [path |-> d, node |-> Absent],
            [path |-> project, node |-> File(<<Header("a"), Line(al, y)>>)]}

MCScenes == {s}
MCResources == {da}
MCOne == {c1}
============================================================================
