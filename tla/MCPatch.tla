------------------------------ MODULE MCPatch ------------------------------
(* Paths a, d and d/a, with a/a for where a moved d/a goes; every type of  *)
(* operation on them.                                                      *)
EXTENDS PatchHandlers, TLC

CONSTANTS c1, c2, h1, h2

a == <<"a">>
d == <<"d">>
da == <<"d", "a">>
aa == <<"a", "a">>

MCPaths == {a, aa, d, da}
MCTexts == {"x", "y", "new"}
MCHashes == Seq(MCTexts)
MCOpTypes == {"write", "append", "delete", "rename", "mkdir", "unsupported"}

On(type, p) == [type |-> type, path |-> p, old |-> NoPath, text |-> "new"]
Rename(from, to) == [type |-> "rename", path |-> to, old |-> from, text |-> "new"]

MCOperations ==
    {On(type, p) : type \in {"write", "delete"}, p \in {a, d, da}} \cup
    {On("append", a), On("mkdir", d), On("mkdir", a), On("unsupported", a)} \cup
    {Rename(a, d), Rename(a, da), Rename(da, a), Rename(d, a)}

MCSingle == {<<op>> : op \in MCOperations}
MCPairs == {<<op1, op2>> : op1 \in MCOperations, op2 \in MCOperations}

\* For two change sets: requests that meet on a path.
MCMixed == {<<On("append", a)>>, <<Rename(a, da), On("write", a)>>,
            <<On("delete", a)>>}

\* For one on top of the other: what a rename moved that no record tells of
\* stays when its change set is rolled back.
MCInTurn == {<<On("append", a)>>, <<On("append", a), Rename(a, da)>>}

\* A file a beside nothing, beside a file d, beside a directory d with and
\* without a file.
MCTree(nd, nda) == (a :> File(<<"x">>)) @@ (d :> nd) @@ (da :> nda) @@ (aa :> Absent)

MCTrees == {MCTree(Absent, Absent), MCTree(File(<<"y">>), Absent),
            MCTree(Directory, Absent), MCTree(Directory, File(<<"y">>))}
MCTreesMixed == {MCTree(Directory, Absent)}

MCRequests == MCPairs \cup MCMixed

(* The run takes three cuts through these instances.  In the first, a      *)
(* single change set is applied and rolled back, one call at a time, by    *)
(* any two operations on any tree, while things fail; in the second, the   *)
(* calls of two handlers on two change sets that meet on a path            *)
(* interleave, and nothing fails; in the third, such change sets lie on    *)
(* top of each other, one call at a time, and one thing fails.             *)
Begun == {cs \in ChangeSets : history.request[cs] # <<>>}
Busy == {h \in Handlers : ~At(h, "idle")}

OneAtATime == Cardinality(Busy) <= 1
Meet(requests) == \A cs \in Begun : history.request[cs] \in requests
FoundMixed == {cs \in ChangeSets : history.before[cs] \in MCTreesMixed}

OneChangeSet == Cardinality(Begun) <= 1 /\ OneAtATime
TwoCallsThatMeet == Meet(MCMixed) /\ Begun \subseteq FoundMixed /\ faults = 0
TwoInTurn == Meet(MCInTurn) /\ FoundMixed # {} /\ OneAtATime /\ faults <= 1

MCNext ==
    /\ \/ Begun = {} /\ CallApply(Requests)
       \/ TwoCallsThatMeet /\ CallApply(MCMixed)
       \/ TwoInTurn /\ CallApply(MCInTurn)
       \/ HandlersOrCrash
    /\ (OneChangeSet \/ TwoCallsThatMeet \/ TwoInTurn)'
MCSpec == Init /\ [][MCNext]_vars

MCOne == {c1}
MCTwo == {c1, c2}
MCOneHandler == {h1}
MCTwoHandlers == {h1, h2}
MCSymmetry == Permutations(MCTwo) \cup Permutations(MCTwoHandlers)
============================================================================
