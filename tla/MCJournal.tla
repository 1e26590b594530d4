----------------------------- MODULE MCJournal -----------------------------
(* Two change sets, one path, one content, two operations each: enough for   *)
(* one change set to write the file while the other has unsaved changes.   *)
EXTENDS JournalCalls, TLC

CONSTANTS c1, c2, p1, h1

MCChangeSets == {c1, c2}
MCPaths == {p1}
MCHashes == {h1}
MCOpTypes == {"write"}
MCSymmetry == Permutations(MCChangeSets)
============================================================================
