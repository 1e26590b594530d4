---------------------------- MODULE EngineProofs ----------------------------
(***************************************************************************)
(* The properties of PatchEngine for every project tree, proposal, editor  *)
(* and number of faults.                                                   *)
(*                                                                         *)
(* First what the pure parts do: that the texts of a project setting and   *)
(* of a replacement are texts, and, for each kind of operation, performed, *)
(* refused or cut short, that it leaves a tree whose files lie in          *)
(* directories and that it changes nothing outside of what the operation   *)
(* may reach (Effect of TreeProofs).                                       *)
(*                                                                         *)
(* Then the inductive invariant IInv: Apply has come to a path (ComeTo)    *)
(* before the path can differ from what it would be without Apply, and     *)
(* by then the log and the preimages in memory and on disk name it.  Each  *)
(* step has a lemma of its own; the steps that change the tree share one,  *)
(* TreeStepKeeps, and the steps that write the journal share JournalStep.  *)
(* The properties follow at the end.                                       *)
(***************************************************************************)
EXTENDS PatchEngine, TreeProofs, FiniteSetTheorems, WellFoundedInduction

----------------------------------------------------------------------------
(***************************************************************************)
(* Numbers.  Induction over them is the choice of a least counterexample.  *)
(***************************************************************************)
LEMMA LeastNumber ==
    ASSUME NEW S \in SUBSET Nat, S # {}
    PROVE  \E m \in S : \A k \in S : m <= k
<1> DEFINE R == OpToRel(<, Nat)
<1>1. \E m \in S : \A k \in S : ~ (<<k, m>> \in R)
    BY WFMin, NatLessThanWellFounded
<1>2. R = {ss \in Nat \X Nat : ss[1] < ss[2]}
    BY Zenon DEF OpToRel
<1> HIDE DEF R
<1>3. ASSUME NEW k \in Nat, NEW m \in Nat, k < m PROVE <<k, m>> \in R
    BY <1>2, <1>3
<1>4. \A k, m \in S : k < m => <<k, m>> \in R
    BY <1>3
<1>5. PICK m \in S : \A k \in S : <<k, m>> \notin R
    BY <1>1, Zenon
<1>6. ASSUME NEW k \in S PROVE m <= k
    <2>1. ~(k < m)
        BY <1>4, <1>5, Zenon
    <2> QED
        BY <2>1
<1> QED
    BY <1>6

\* The first number of a set and, if it is bounded, the last.
LEMMA MinOf ==
    ASSUME NEW S \in SUBSET Nat, S # {}
    PROVE  Min(S) \in S /\ \A k \in S : Min(S) <= k
BY LeastNumber DEF Min

\* The last number of a bounded set: counted from the bound it is the first.
LEMMA MaxOf ==
    ASSUME NEW n \in Nat, NEW S \in SUBSET (0 .. n), S # {}
    PROVE  Max(S) \in S /\ \A k \in S : k <= Max(S)
<1> DEFINE D == {n - k : k \in S}
<1>1. (\A k \in S : n - k \in D) /\ \A d \in D : \E m \in S : d = n - m
    OBVIOUS
<1>2. D \in SUBSET Nat /\ D # {}
    <2>1. \A k \in S : n - k \in Nat
        OBVIOUS
    <2> QED
        BY <2>1
<1> HIDE DEF D
<1>3. PICK d \in D : \A e \in D : d <= e
    BY <1>2, LeastNumber
<1>4. PICK m \in S : d = n - m
    BY <1>1
<1>5. ASSUME NEW k \in S PROVE m >= k
    <2>1. d <= n - k
        BY <1>1, <1>3
    <2> QED
        BY <1>4, <2>1
<1> QED
    BY <1>5 DEF Max

\* f starts with a, and G says how it goes on.
Follows(f, a, n, G) == f[0] = a /\ \A i \in 1 .. n : f[i] = G[i][f[i - 1]]
StaysIn(T, n, G) == \A i \in 1 .. n, v \in T : G[i][v] \in T

\* A function may be defined from each number to the next.
LEMMA Recursion ==
    ASSUME NEW T, NEW a \in T, NEW n \in Nat, NEW G, StaysIn(T, n, G)
    PROVE  \E f \in [0 .. n -> T] : Follows(f, a, n, G)
<1> USE DEF StaysIn, Follows
<1> DEFINE Reaches(m) == \E f \in [0 .. m -> T] : Follows(f, a, m, G)
           Bad == {m \in 0 .. n : ~Reaches(m)}
<1>1. Reaches(0)
    <2> DEFINE f == [i \in 0 .. 0 |-> a]
    <2>1. f \in [0 .. 0 -> T] /\ f[0] = a
        OBVIOUS
    <2>2. \A i \in 1 .. 0 : f[i] = G[i][f[i - 1]]
        OBVIOUS
    <2> HIDE DEF f
    <2> QED
        BY <2>1, <2>2
<1>2. ASSUME NEW m \in 1 .. n, Reaches(m - 1) PROVE Reaches(m)
    <2>1. PICK f \in [0 .. m - 1 -> T] : f[0] = a /\ \A i \in 1 .. m - 1 : f[i] = G[i][f[i - 1]]
        BY <1>2
    <2> DEFINE g == [i \in 0 .. m |-> IF i = m THEN G[m][f[m - 1]] ELSE f[i]]
    <2>2. G[m][f[m - 1]] \in T
        OBVIOUS
    <2>3. g \in [0 .. m -> T]
        BY <2>2
    <2>4. g[0] = a
        BY <2>1
    <2>5. ASSUME NEW i \in 1 .. m PROVE g[i] = G[i][g[i - 1]]
        BY <2>1
    <2> HIDE DEF g
    <2> QED
        BY <2>3, <2>4, <2>5
<1> HIDE DEF Reaches
<1>3. ASSUME Bad # {} PROVE FALSE
    <2>1. Bad \in SUBSET Nat /\ \A i \in 0 .. n : i \in Bad <=> ~Reaches(i)
        OBVIOUS
    <2>2. Bad \subseteq 0 .. n
        OBVIOUS
    <2> HIDE DEF Bad
    <2>3. PICK m \in Bad : \A k \in Bad : m <= k
        BY <1>3, <2>1, LeastNumber
    <2>4. m \in 1 .. n
        BY <1>1, <2>1, <2>2, <2>3
    <2>5. Reaches(m - 1)
        BY <2>1, <2>3, <2>4
    <2> QED
        BY <1>2, <2>1, <2>4, <2>5
<1>4. Reaches(n)
    BY <1>3
<1> QED
    BY <1>4 DEF Reaches

----------------------------------------------------------------------------
(***************************************************************************)
(* project.godot: what the edits make of lines are lines.                  *)
(***************************************************************************)
LEMMA UnassignedTyped ==
    ASSUME NEW S, NEW lines \in Seq(S), NEW key
    PROVE  Unassigned(lines, key) \in Seq(S)
<1> DEFINE n == Len(lines)
           T == Seq(S)
           One(i, v) == IF Assigns(lines[i], key) THEN v ELSE Append(v, lines[i])
           F(k) == [i \in 0 .. n |-> IF i = 0 THEN <<>>
                                     ELSE IF Assigns(lines[i], key) THEN k[i - 1]
                                     ELSE Append(k[i - 1], lines[i])]
           kept == CHOOSE k : k = F(k)
           G == [i \in 1 .. n |-> [v \in T |-> One(i, v)]]
<1>0. n \in Nat /\ \A i \in 1 .. n : lines[i] \in S
    OBVIOUS
<1>1. Unassigned(lines, key) = kept[n]
    BY DEF Unassigned
<1>2. ASSUME NEW i \in 1 .. n, NEW v \in T PROVE One(i, v) \in T
    BY <1>0
<1>3. \A i \in 1 .. n, v \in T : G[i][v] = One(i, v)
    OBVIOUS
<1>4. <<>> \in T
    OBVIOUS
<1>5. \A k, i : i \in 0 .. n => F(k)[i] = IF i = 0 THEN <<>> ELSE One(i, k[i - 1])
    OBVIOUS
<1>6. \A k : F(k) = [i \in 0 .. n |-> F(k)[i]]
    OBVIOUS
<1> HIDE DEF G, One, F, n, T
<1>7. PICK f \in [0 .. n -> T] : Follows(f, <<>>, n, G)
    <2>1. StaysIn(T, n, G)
        BY <1>2, <1>3 DEF StaysIn
    <2> QED
        BY <1>0, <1>4, <2>1, Recursion
<1>8. f = F(f)
    <2>1. ASSUME NEW i \in 0 .. n PROVE f[i] = F(f)[i]
        <3>1. CASE i = 0
            BY <1>5, <1>7, <3>1 DEF Follows
        <3>2. CASE i # 0
            <4>1. i \in 1 .. n /\ i - 1 \in 0 .. n
                BY <1>0, <3>2
            <4>2. f[i] = G[i][f[i - 1]] /\ f[i - 1] \in T
                BY <1>7, <4>1 DEF Follows
            <4>3. f[i] = One(i, f[i - 1])
                BY <1>3, <4>1, <4>2
            <4> QED
                BY <1>5, <3>2, <4>3
        <3> QED
            BY <3>1, <3>2
    <2>2. f = [i \in 0 .. n |-> f[i]]
        OBVIOUS
    <2> QED
        BY <1>6, <2>1, <2>2
<1>9. kept = F(kept)
    BY <1>8
<1> HIDE DEF kept
<1>10. ASSUME NEW i \in 0 .. n PROVE kept[i] = IF i = 0 THEN <<>> ELSE One(i, kept[i - 1])
    BY <1>5, <1>9
<1> DEFINE Bad == {i \in 0 .. n : kept[i] \notin T}
<1>11. ASSUME Bad # {} PROVE FALSE
    <2>1. Bad \in SUBSET Nat /\ \A i \in 0 .. n : i \in Bad <=> kept[i] \notin T
        BY <1>0
    <2>2. Bad \subseteq 0 .. n
        OBVIOUS
    <2> HIDE DEF Bad
    <2>3. PICK i \in Bad : \A k \in Bad : i <= k
        BY <1>11, <2>1, LeastNumber
    <2>4. i # 0
        BY <1>0, <1>4, <1>10, <2>1, <2>2
    <2>5. i \in 1 .. n /\ i - 1 \in 0 .. n /\ kept[i - 1] \in T
        BY <1>0, <2>1, <2>2, <2>3, <2>4
    <2>6. kept[i] = One(i, kept[i - 1])
        BY <1>10, <2>2, <2>4
    <2> QED
        BY <1>2, <2>1, <2>2, <2>5, <2>6
<1>12. n \in 0 .. n
    BY <1>0
<1> QED
    BY <1>1, <1>11, <1>12 DEF T

\* The blank lines at the end are cut off.
LEMMA TrimmedTyped ==
    ASSUME NEW S, NEW s \in Seq(S) PROVE Trimmed(s) \in Seq(S)
<1> DEFINE I == {i \in 1 .. Len(s) : s[i] # Blank}
           last == IF I # {} THEN Max(I) ELSE 0
<1>1. Trimmed(s) = SubSeq(s, 1, last)
    BY DEF Trimmed, SelectLastInSeq
<1>2. I \in SUBSET (0 .. Len(s)) /\ Len(s) \in Nat
    OBVIOUS
<1> HIDE DEF I
<1>3. last \in 0 .. Len(s)
    <2>1. CASE I # {}
        <3>1. Max(I) \in I
            BY <1>2, <2>1, MaxOf
        <3> QED
            BY <1>2, <3>1
    <2>2. CASE I = {}
        BY <1>2, <2>2
    <2> QED
        BY <2>1, <2>2
<1> HIDE DEF last
<1> QED
    BY <1>1, <1>2, <1>3, PartTyped

\* The bounds of a section lie in the file.
LEMMA BoundsInFile ==
    ASSUME NEW S, NEW lines \in Seq(S), NEW section
    PROVE  /\ SectionBounds(lines, section).start \in 0 .. Len(lines)
           /\ SectionBounds(lines, section).end \in 1 .. Len(lines) + 1
<1> DEFINE Headers == {i \in 1 .. Len(lines) : lines[i] = Header(section)}
           first == IF Headers # {} THEN Min(Headers) ELSE 0
           others == {i \in first + 1 .. Len(lines) :
                         IsHeader(lines[i]) /\ lines[i] # Header(section)}
           end == IF others = {} THEN Len(lines) + 1 ELSE Min(others)
           run == {i \in 1 .. end - 1 : lines[i] = Header(section)}
           start == IF run # {} THEN Max(run) ELSE 0
<1>1. SectionBounds(lines, section) =
          IF first = 0 THEN [start |-> 0, end |-> Len(lines) + 1]
          ELSE [start |-> start, end |-> end]
    BY DEF SectionBounds, SelectInSeq, SelectLastInSubSeq
<1>2. Len(lines) \in Nat
    OBVIOUS
<1>3. Headers \in SUBSET Nat /\ Headers \subseteq 1 .. Len(lines)
    BY <1>2
<1>4. first \in 0 .. Len(lines)
    <2> HIDE DEF Headers
    <2>1. CASE Headers # {}
        <3>1. Min(Headers) \in Headers
            BY <1>3, <2>1, MinOf
        <3>2. Min(Headers) \in 1 .. Len(lines)
            BY <1>3, <3>1
        <3> QED
            BY <1>2, <2>1, <3>2
    <2>2. CASE Headers = {}
        BY <1>2, <2>2
    <2> QED
        BY <2>1, <2>2
<1> HIDE DEF first
<1>5. others \in SUBSET Nat /\ others \subseteq first + 1 .. Len(lines)
    BY <1>2, <1>4
<1>6. end \in 1 .. Len(lines) + 1
    <2> HIDE DEF others
    <2>1. CASE others # {}
        <3>1. Min(others) \in others
            BY <1>5, <2>1, MinOf
        <3>2. Min(others) \in first + 1 .. Len(lines) /\ end = Min(others)
            BY <1>5, <2>1, <3>1
        <3> HIDE DEF end
        <3> QED
            BY <1>2, <1>4, <3>2
    <2>2. CASE others = {}
        BY <1>2, <2>2
    <2> QED
        BY <2>1, <2>2
<1> HIDE DEF end
<1>7. run \in SUBSET (0 .. end - 1) /\ end - 1 \in Nat
    BY <1>2, <1>6
<1>8. start \in 0 .. end - 1
    <2> HIDE DEF run
    <2>1. CASE run # {}
        <3>1. Max(run) \in run
            BY <1>7, <2>1, MaxOf
        <3> QED
            BY <1>7, <2>1, <3>1
    <2>2. CASE run = {}
        BY <1>7, <2>2
    <2> QED
        BY <2>1, <2>2
<1> HIDE DEF start
<1> QED
    BY <1>1, <1>2, <1>6, <1>8

\* A setting assigned.
LEMMA WithSettingTyped ==
    ASSUME NEW data \in Seq(Texts), NEW path, NEW value,
           Header(SectionOf(path)) \in Texts, Assignment(KeyOf(path), value) \in Texts
    PROVE  WithSetting(data, path, value) \in Seq(Texts)
<1> DEFINE lines == Split(data)
           bounds == SectionBounds(lines, SectionOf(path))
           new == Assignment(KeyOf(path), value)
           body == Body(lines, bounds)
           changed == BodyWith(body, KeyOf(path), value)
           added == lines \o <<Header(SectionOf(path)), new>>
           joined == Upto(lines, bounds) \o changed \o After(lines, bounds)
<1>1. WithSetting(data, path, value) = Trimmed(IF bounds.start = 0 THEN added ELSE joined)
    BY DEF WithSetting
<1>2. lines \in Seq(Texts) /\ Len(lines) \in Nat
    BY EngineProposals DEF Split
<1> HIDE DEF lines
<1>3. bounds.start \in 0 .. Len(lines) /\ bounds.end \in 1 .. Len(lines) + 1
    BY <1>2, BoundsInFile
<1> HIDE DEF bounds
<1>4. /\ Upto(lines, bounds) \in Seq(Texts) /\ body \in Seq(Texts)
      /\ After(lines, bounds) \in Seq(Texts)
    <2>1. /\ bounds.start \in Int /\ bounds.start <= Len(lines)
          /\ bounds.start + 1 \in Nat \ {0} /\ bounds.end - 1 \in Int
          /\ bounds.end - 1 <= Len(lines) /\ bounds.end \in Nat \ {0}
          /\ 1 \in Nat \ {0} /\ Len(lines) \in Int /\ Len(lines) <= Len(lines)
        BY <1>2, <1>3
    <2> QED
        BY <1>2, <2>1, PartTyped DEF Upto, Body, After
<1>5. ASSUME NEW b \in Seq(Texts) PROVE BodyWith(b, KeyOf(path), value) \in Seq(Texts)
    <2> DEFINE other == [i \in DOMAIN b |-> IF Assigns(b[i], KeyOf(path)) THEN new ELSE b[i]]
    <2>1. Append(b, new) \in Seq(Texts)
        OBVIOUS
    <2>2. other \in Seq(Texts)
        <3>1. \A i \in 1 .. Len(b) : b[i] \in Texts
            OBVIOUS
        <3>2. other \in [1 .. Len(b) -> Texts] /\ Len(b) \in Nat
            BY <3>1
        <3> HIDE DEF other
        <3> QED
            BY <3>2
    <2>3. BodyWith(b, KeyOf(path), value) \in {other, Append(b, new)}
        BY DEF BodyWith
    <2> QED
        BY <2>1, <2>2, <2>3
<1>6. changed \in Seq(Texts)
    BY <1>4, <1>5
<1> HIDE DEF changed, body
<1>7. added \in Seq(Texts) /\ joined \in Seq(Texts)
    BY <1>2, <1>4, <1>6
<1> HIDE DEF added, joined
<1> QED
    BY <1>1, <1>7, TrimmedTyped

\* A setting removed.
LEMMA WithoutSettingTyped ==
    ASSUME NEW data \in Seq(Texts), NEW path
    PROVE  WithoutSetting(data, path) \in Seq(Texts)
<1> DEFINE lines == Split(data)
           bounds == SectionBounds(lines, SectionOf(path))
           body == Body(lines, bounds)
           kept == Unassigned(body, KeyOf(path))
           joined == Upto(lines, bounds) \o kept \o After(lines, bounds)
<1>1. WithoutSetting(data, path) = IF bounds.start = 0 \/ kept = body THEN data ELSE Trimmed(joined)
    BY DEF WithoutSetting
<1>2. lines \in Seq(Texts) /\ Len(lines) \in Nat
    BY EngineProposals DEF Split
<1> HIDE DEF lines
<1>3. bounds.start \in 0 .. Len(lines) /\ bounds.end \in 1 .. Len(lines) + 1
    BY <1>2, BoundsInFile
<1> HIDE DEF bounds
<1>4. /\ Upto(lines, bounds) \in Seq(Texts) /\ body \in Seq(Texts)
      /\ After(lines, bounds) \in Seq(Texts)
    <2>1. /\ bounds.start \in Int /\ bounds.start <= Len(lines)
          /\ bounds.start + 1 \in Nat \ {0} /\ bounds.end - 1 \in Int
          /\ bounds.end - 1 <= Len(lines) /\ bounds.end \in Nat \ {0}
          /\ 1 \in Nat \ {0} /\ Len(lines) \in Int /\ Len(lines) <= Len(lines)
        BY <1>2, <1>3
    <2> QED
        BY <1>2, <2>1, PartTyped DEF Upto, Body, After
<1> HIDE DEF body
<1>5. kept \in Seq(Texts)
    BY <1>4, UnassignedTyped
<1> HIDE DEF kept
<1>6. joined \in Seq(Texts)
    BY <1>4, <1>5
<1> HIDE DEF joined
<1> QED
    BY <1>1, <1>6, TrimmedTyped

----------------------------------------------------------------------------
(***************************************************************************)
(* What CheckWritablePath, a rename of a file and a diff do to the tree.   *)
(***************************************************************************)

\* The directory of a path, and those above it.
LEMMA AboveFront ==
    ASSUME NEW p \in TreePaths
    PROVE  /\ Len(p) = 1 => Above(p) = {}
           /\ Len(p) # 1 => /\ Front(p) \in Above(p)
                            /\ \A q \in Above(p) : q = Front(p) \/ q \in Above(Front(p))
<1>1. p \in Seq(STRING) /\ Len(p) \in Nat /\ Len(p) >= 1
    BY PathForm
<1>2. Len(p) = 1 => Above(p) = {}
    BY <1>1 DEF Above
<1>3. ASSUME Len(p) # 1 PROVE Front(p) \in Above(p)
    <2>0. ASSUME NEW k \in Nat, k >= 1, k # 1 PROVE k >= 2
        BY <2>0
    <2>1. Len(p) >= 2
        BY <1>1, <1>3, <2>0
    <2>2. Len(p) - 1 \in 1 .. Len(p) - 1
        BY <1>1, <2>1
    <2> QED
        BY <2>2 DEF Front, Above
<1>4. ASSUME Len(p) # 1, NEW q \in Above(p) PROVE q = Front(p) \/ q \in Above(Front(p))
    <2>1. PICK m \in 1 .. Len(p) - 1 : q = SubSeq(p, 1, m)
        BY <1>4 DEF Above
    <2>2. Len(p) - 1 \in 1 .. Len(p)
        BY <1>1, <1>4
    <2>3. Len(Front(p)) = Len(p) - 1
        BY <1>1, <2>2, Beginning DEF Front
    <2>4. q = SubSeq(Front(p), 1, m)
        BY <1>1, <2>1, <2>2, BeginningOfBeginning DEF Front
    <2>5. CASE m = Len(p) - 1
        BY <2>1, <2>5 DEF Front
    <2>6. CASE m # Len(p) - 1
        <3>1. m \in 1 .. Len(Front(p)) - 1
            BY <1>1, <2>1, <2>3, <2>6
        <3> QED
            BY <2>4, <3>1 DEF Above
    <2> QED
        BY <2>5, <2>6
<1> QED
    BY <1>2, <1>3, <1>4

\* A file or directory can be reached, and so can what may be written.
LEMMA CanBeReached ==
    ASSUME NEW t \in Tree, WellFormed(t), NEW p \in TreePaths
    PROVE  /\ Exists(t, p) => Reachable(t, p)
           /\ CheckWritablePath(t, p, FALSE) => Reachable(t, p)
           /\ CheckWritablePath(t, p, FALSE) /\ ~Exists(t, p) =>
                    \A q \in Above(p) : IsDirectory(t, q)
<1>1. ASSUME NEW q \in Above(p), IsDirectory(t, q) PROVE ~IsFile(t, q)
    BY <1>1 DEF IsDirectory, IsFile
<1>2. Exists(t, p) => Reachable(t, p)
    BY <1>1 DEF WellFormed, Reachable
<1>3. ASSUME CheckWritablePath(t, p, FALSE), ~Exists(t, p), NEW q \in Above(p)
      PROVE  IsDirectory(t, q)
    <2>1. Len(p) = 1 \/ IsDirectory(t, Front(p))
        BY <1>3 DEF CheckWritablePath
    <2>2. Len(p) # 1
        BY <1>3, AboveFront
    <2>3. Front(p) \in Above(p) /\ (q = Front(p) \/ q \in Above(Front(p)))
        BY <2>2, AboveFront
    <2>4. Front(p) \in TreePaths
        BY <2>3, PathForm
    <2>5. Exists(t, Front(p))
        BY <2>1, <2>2 DEF IsDirectory, Exists
    <2> QED
        BY <2>1, <2>2, <2>3, <2>4, <2>5 DEF WellFormed
<1> QED
    BY <1>1, <1>2, <1>3 DEF Reachable

\* A file moved.
LEMMA FileMoved ==
    ASSUME NEW t \in Tree, WellFormed(t), NEW from \in TreePaths, NEW to \in TreePaths,
           CanMove(t, from, to), ~IsDirectory(t, from)
    PROVE  Effect(t, Moved(WithDirectories(t, Above(to)), from, to), {from, to})
<1> DEFINE d == WithDirectories(t, Above(to))
           m == Moved(d, from, to)
           Source(q) == Rebased(q, to, from)
           New(q) == IF IsPrefix(from, q) THEN Absent
                     ELSE IF IsPrefix(to, q) THEN IF Source(q) \in TreePaths THEN d[Source(q)]
                                                  ELSE Absent
                     ELSE d[q]
<1>1. /\ Exists(t, from) /\ Reachable(t, to) /\ ~IsPrefix(from, to)
      /\ Exists(t, to) => IsFile(t, to)
    BY DEF CanMove
<1>2. /\ d \in Tree /\ WellFormed(d) /\ Changes(t, d, {to})
      /\ \A q \in Above(to) : d[q] = Directory /\ t[q] \in {Absent, Directory}
      /\ \A q \in TreePaths \ Above(to) : d[q] = t[q]
    BY <1>1, WayMade DEF Effect
<1>3. from # to /\ from \notin Above(to)
    BY <1>1, PrefixCases
<1>4. m = [q \in TreePaths |-> New(q)]
    BY DEF Moved
<1>5. ASSUME NEW q \in TreePaths PROVE New(q) \in Node
    <2> HIDE DEF Source, d
    <2> QED
        BY <1>2 DEF Tree, Node
<1> HIDE DEF d, m
<1>6. m \in Tree
    <2> HIDE DEF New
    <2> QED
        BY <1>4, <1>5 DEF Tree
<1>7. ~IsDirectory(t, to)
    BY <1>1 DEF Exists, IsFile, IsDirectory
<1>8. ASSUME NEW q \in TreePaths, from \in Above(q) PROVE m[q] = Absent /\ t[q] = Absent
    <2>1. IsPrefix(from, q)
        BY <1>8, PrefixCases
    <2> QED
        BY <1>4, <1>8, <2>1, WhereItLies
<1>9. ASSUME NEW q \in TreePaths, from \notin Above(q), to \in Above(q)
      PROVE  m[q] = Absent /\ t[q] = Absent
    <2>1. t[q] = Absent
        BY <1>7, <1>9, WhereItLies
    <2>2. ASSUME Source(q) \in TreePaths PROVE d[Source(q)] = Absent
        <3>1. from \in Above(Source(q))
            BY <1>9, <2>2, SourceBelow
        <3> HIDE DEF Source
        <3>2. t[Source(q)] = Absent
            BY <2>2, <3>1, WhereItLies
        <3>3. Source(q) \notin Above(to)
            BY <1>3, <2>2, <3>1, AboveOrder
        <3> QED
            BY <1>2, <2>2, <3>2, <3>3
    <2>3. IsPrefix(to, q)
        BY <1>9, PrefixCases
    <2> HIDE DEF Source
    <2>4. New(q) = Absent
        BY <2>2, <2>3
    <2> QED
        BY <1>4, <2>1, <2>4
<1>10. m[from] = Absent
    <2>1. IsPrefix(from, from)
        BY PrefixCases
    <2> QED
        BY <1>4, <2>1
<1>11. ASSUME NEW q \in TreePaths, from \notin Above(q), to \notin Above(q), q # from, q # to
       PROVE  m[q] = d[q]
    <2>1. ~IsPrefix(from, q) /\ ~IsPrefix(to, q)
        BY <1>11, PrefixCases
    <2> QED
        BY <1>4, <2>1
<1> HIDE DEF New
<1>12. ASSUME NEW q \in TreePaths PROVE ChangedAt(t, m, {from, to}, q)
    <2>1. CASE from \in Above(q)
        BY <1>8, <2>1 DEF ChangedAt
    <2>2. CASE from \notin Above(q) /\ to \in Above(q)
        BY <1>9, <2>2 DEF ChangedAt
    <2>3. CASE q = from \/ q = to
        BY <2>3 DEF ChangedAt
    <2>4. CASE from \notin Above(q) /\ to \notin Above(q) /\ q # from /\ q # to
        <3>1. m[q] = d[q] /\ ChangedAt(t, d, {to}, q)
            BY <1>2, <1>11, <2>4 DEF Changes
        <3> QED
            BY <3>1 DEF ChangedAt
    <2> QED
        BY <2>1, <2>2, <2>3, <2>4
<1>13. ASSUME NEW q \in TreePaths, Exists(m, q), NEW r \in Above(q) PROVE IsDirectory(m, r)
    <2>0. m[q] # Absent
        BY <1>6, <1>13, NodeKinds
    <2>1. q # from /\ from \notin Above(q) /\ to \notin Above(q)
        BY <1>8, <1>9, <1>10, <2>0
    <2>2. /\ r \in TreePaths /\ r # q /\ q \notin Above(r) /\ Above(r) \subseteq Above(q)
        BY AboveOrder
    <2>3. r # from /\ r # to /\ from \notin Above(r) /\ to \notin Above(r)
        BY <2>1, <2>2
    <2>4. m[r] = d[r]
        BY <1>11, <2>2, <2>3
    <2>5. d[r] = Directory
        <3>1. CASE q = to
            BY <1>2, <3>1
        <3>2. CASE q # to
            <4>1. m[q] = d[q]
                BY <1>11, <2>1, <3>2
            <4>2. Exists(d, q)
                BY <1>13, <4>1 DEF Exists
            <4> QED
                BY <1>2, <2>2, <4>2, NodeKinds DEF WellFormed
        <3> QED
            BY <3>1, <3>2
    <2> QED
        BY <1>6, <2>2, <2>4, <2>5, NodeKinds
<1>14. WellFormed(m)
    BY <1>13 DEF WellFormed
<1>15. Changes(t, m, {from, to})
    BY <1>12 DEF Changes
<1> QED
    BY <1>6, <1>14, <1>15 DEF Effect, m, d

\* The files a diff, or the part of it git came to, makes and removes.
LEMMA DiffApplied ==
    ASSUME NEW t \in Tree, WellFormed(t), NEW op \in Operation, IsDiff(op.edits),
           DiffApplies(t, op), NEW part \in SUBSET op.edits
    PROVE  Effect(t, WithEdits(t, part), {e.path : e \in op.edits})
<1> DEFINE paths == {e.path : e \in op.edits}
           kept == {c \in part : c.to # Absent}
           made == UNION {Above(e.path) : e \in kept}
           dropped == {c \in part : c.to = Absent}
           gone == {e.path : e \in dropped}
           ways == UNION {Above(p) : p \in gone}
           emptied == Emptied(t, part)
           d == WithDirectories([q \in TreePaths |-> IF q \in emptied THEN Absent ELSE t[q]], made)
           w == WithEdits(t, part)
           Changed(p) == \E e \in part : e.path = p
           Brought(p) == (CHOOSE e \in part : e.path = p).to
<1>1. \A e \in op.edits : e \in FileChange
    BY DEF Operation
<1>2. \A e \in op.edits : e.path \in TreePaths /\ e.to \in Node /\ e.to # Directory
    BY <1>1 DEF FileChange
<1>3. \A e \in op.edits : t[e.path] = e.from /\ Reachable(t, e.path) /\ ~IsDirectory(t, e.path)
    BY DEF DiffApplies
<1>4. \A e, f \in op.edits :
          /\ e.from # e.to
          /\ e.path = f.path => e = f
          /\ e.to # Absent /\ f.to # Absent => e.path \notin Above(f.path)
    BY DEF IsDiff
<1>5. /\ \A e \in kept : e \in op.edits /\ e \in part /\ e.to # Absent
      /\ \A e \in part : e \in op.edits /\ (e.to # Absent => e \in kept)
    OBVIOUS
<1>6. /\ \A e \in kept : Above(e.path) \subseteq made
      /\ \A q \in made : \E e \in kept : q \in Above(e.path)
    OBVIOUS
<1>7. (\A e \in op.edits : e.path \in paths)
    OBVIOUS
<1>8. w = [p \in TreePaths |-> IF Changed(p) THEN Brought(p) ELSE d[p]]
    BY DEF WithEdits
<1>19. \A q \in emptied : /\ \E e \in part : q \in Above(e.path)
                          /\ \A r \in TreePaths : IsStrictPrefix(q, r) /\ Exists(t, r) => r \in gone \cup ways
    BY DEF Emptied
<1>20. \A q \in ways : /\ \E e \in part : q \in Above(e.path)
                       /\ (\A r \in TreePaths : IsStrictPrefix(q, r) /\ Exists(t, r) => r \in gone \cup ways)
                              => q \in emptied
    BY DEF Emptied
<1>21. \A q \in gone : \E e \in part : q = e.path
    OBVIOUS
<1>22. \A q \in TreePaths : d[q] = IF q \in made THEN Directory ELSE IF q \in emptied THEN Absent ELSE t[q]
    BY DEF WithDirectories
<1> HIDE DEF paths, made, kept, dropped, gone, ways, emptied
<1>9. \A q \in made : q \in TreePaths /\ Above(q) \subseteq made /\ ~IsFile(t, q)
    <2>1. ASSUME NEW q \in made PROVE q \in TreePaths /\ Above(q) \subseteq made /\ ~IsFile(t, q)
        <3>1. PICK e \in kept : q \in Above(e.path)
            BY <1>6
        <3>2. e.path \in TreePaths /\ Reachable(t, e.path)
            BY <1>2, <1>3, <1>5
        <3> QED
            BY <1>6, <3>1, <3>2, AboveOrder DEF Reachable
    <2> QED
        BY <2>1
<1>10. /\ \A q \in made : d[q] = Directory /\ t[q] \in {Absent, Directory}
       /\ \A q \in TreePaths \ made : d[q] = t[q] \/ (q \in emptied /\ d[q] = Absent)
    BY <1>9, <1>22, NodeKinds
<1> HIDE DEF d, w
\* What exists below a directory that goes is a deleted file or goes too.
<1>23. ASSUME NEW p \in TreePaths, p \notin gone, p \notin emptied, Exists(t, p), NEW r \in Above(p)
       PROVE  r \notin emptied
    <2>1. SUFFICES ASSUME r \in emptied PROVE FALSE
        OBVIOUS
    <2>2. r \in TreePaths /\ r # p /\ IsPrefix(r, p)
        BY AboveOrder, PrefixCases
    <2>3. p \in ways
        BY <1>19, <1>23, <2>1, <2>2 DEF IsStrictPrefix
    <2>4. ASSUME NEW s \in TreePaths, IsStrictPrefix(p, s), Exists(t, s) PROVE s \in gone \cup ways
        <3>1. p \in Above(s)
            BY <2>4, AboveIsPrefix DEF IsStrictPrefix
        <3>2. r \in Above(s) /\ r # s
            BY <3>1, AboveOrder
        <3>3. IsStrictPrefix(r, s)
            BY <2>2, <3>2, AboveIsPrefix DEF IsStrictPrefix
        <3> QED
            BY <1>19, <2>1, <2>4, <3>3
    <2> QED
        BY <1>20, <1>23, <2>3, <2>4
<1>11. ASSUME NEW e \in part PROVE w[e.path] = e.to
    <2>1. Changed(e.path) /\ e.path \in TreePaths
        BY <1>2, <1>5
    <2>2. ASSUME NEW f \in part, f.path = e.path PROVE f = e
        BY <1>4, <1>5, <2>2
    <2>3. (CHOOSE f \in part : f.path = e.path) = e
        BY <2>2
    <2> QED
        BY <1>8, <2>1, <2>3
<1>12. ASSUME NEW p \in TreePaths, ~Changed(p) PROVE w[p] = d[p]
    BY <1>8, <1>12
<1>13. w \in Tree
    <2>1. ASSUME NEW p \in TreePaths PROVE w[p] \in Node
        <3>1. CASE Changed(p)
            BY <1>2, <1>5, <1>11, <3>1
        <3>2. CASE ~Changed(p)
            BY <1>10, <1>12, <3>2, NodeKinds DEF Node
        <3> QED
            BY <3>1, <3>2
    <2>2. w = [p \in TreePaths |-> w[p]]
        BY <1>8
    <2> QED
        BY <2>1, <2>2 DEF Tree
<1>14. ASSUME NEW p \in TreePaths PROVE ChangedAt(t, w, paths, p)
    <2>1. CASE Changed(p)
        BY <1>5, <1>7, <2>1 DEF ChangedAt
    <2>2. CASE ~Changed(p) /\ p \notin made
        <3>1. CASE d[p] = t[p]
            BY <1>12, <2>2, <3>1 DEF ChangedAt
        <3>2. CASE p \in emptied /\ d[p] = Absent
            <4>1. PICK e \in part : p \in Above(e.path)
                BY <1>19, <3>2
            <4>2. e.path \in paths /\ ~IsFile(t, p)
                BY <1>3, <1>5, <1>7, <4>1 DEF Reachable
            <4>3. t[p] \in {Absent, Directory} /\ w[p] = Absent
                BY <1>12, <2>2, <3>2, <4>2, NodeKinds
            <4> QED
                BY <4>1, <4>2, <4>3 DEF ChangedAt
        <3> QED
            BY <1>10, <2>2, <3>1, <3>2
    <2>3. CASE ~Changed(p) /\ p \in made
        <3>1. PICK e \in kept : p \in Above(e.path)
            BY <1>6, <2>3
        <3>2. e.path \in paths
            BY <1>5, <1>7
        <3>3. w[p] = Directory /\ t[p] \in {Absent, Directory}
            BY <1>10, <1>12, <2>3
        <3> QED
            BY <3>1, <3>2, <3>3 DEF ChangedAt
    <2> QED
        BY <2>1, <2>2, <2>3
\* A directory on the way to a file made is no path of the diff.
<1>15. ASSUME NEW e \in kept, NEW f \in part, f.path \in Above(e.path) PROVE FALSE
    <2>1. e \in op.edits /\ f \in op.edits /\ e.to # Absent
        BY <1>5
    <2>2. f.to = Absent
        BY <1>4, <1>15, <2>1
    <2>3. f.path \in TreePaths /\ e.path \in TreePaths
        BY <1>2, <2>1
    <2>4. ~IsFile(t, f.path) /\ ~IsDirectory(t, f.path) /\ t[f.path] = f.from
        BY <1>3, <1>15, <2>1 DEF Reachable
    <2>5. f.from = Absent
        BY <2>3, <2>4, NodeKinds
    <2> QED
        BY <1>4, <2>1, <2>2, <2>5
<1>16. ASSUME NEW p \in TreePaths, Exists(w, p), NEW r \in Above(p) PROVE w[r] = Directory
    <2>1. r \in TreePaths
        BY PathForm
    <2>2. CASE Changed(p)
        <3>1. PICK e \in part : e.path = p
            BY <2>2
        <3>2. w[p] # Absent
            BY <1>13, <1>16, NodeKinds
        <3>3. e \in kept
            BY <1>5, <1>11, <3>1, <3>2
        <3>4. r \in made /\ ~Changed(r)
            BY <1>6, <1>15, <3>1, <3>3
        <3> QED
            BY <1>10, <1>12, <2>1, <3>4
    <2>3. CASE ~Changed(p)
        <3>1. Exists(d, p)
            BY <1>12, <1>16, <2>3 DEF Exists
        <3>2. d[r] = Directory
            <4>1. CASE p \in made
                BY <1>9, <1>10, <4>1
            <4>2. CASE p \notin made
                <5>1. d[p] # Absent
                    BY <3>1 DEF Exists, Absent
                <5>2. d[p] = t[p] /\ p \notin emptied
                    BY <1>22, <4>2, <5>1
                <5>3. p \notin gone
                    BY <1>21, <2>3
                <5>4. Exists(t, p)
                    BY <3>1, <5>2 DEF Exists
                <5>5. r \notin emptied
                    BY <1>23, <5>2, <5>3, <5>4
                <5>6. t[r] = Directory
                    BY <2>1, <5>4, NodeKinds DEF WellFormed
                <5> QED
                    BY <1>22, <2>1, <5>5, <5>6
            <4> QED
                BY <4>1, <4>2
        <3>3. ASSUME Changed(r) PROVE FALSE
            <4>1. PICK f \in part : f.path = r
                BY <3>3
            <4>2. ~IsDirectory(t, r)
                BY <1>3, <1>5, <4>1
            <4>3. r \in made
                <5>1. t[r] # Directory
                    BY <2>1, <4>2, NodeKinds
                <5>2. Directory # Absent
                    BY DEF Directory, Absent
                <5> QED
                    BY <1>22, <2>1, <3>2, <5>1, <5>2
            <4>4. PICK e \in kept : r \in Above(e.path)
                BY <1>6, <4>3
            <4> QED
                BY <1>15, <4>1, <4>4
        <3> QED
            BY <1>12, <2>1, <3>2, <3>3
    <2> QED
        BY <2>2, <2>3
<1>17. WellFormed(w)
    <2>1. ASSUME NEW p \in TreePaths, Exists(w, p), NEW r \in Above(p) PROVE IsDirectory(w, r)
        <3>1. r \in TreePaths
            BY PathForm
        <3> QED
            BY <1>13, <1>16, <2>1, <3>1, NodeKinds
    <2> QED
        BY <2>1 DEF WellFormed
<1>18. Changes(t, w, paths)
    BY <1>14 DEF Changes
<1> QED
    BY <1>13, <1>17, <1>18 DEF Effect, w, paths

----------------------------------------------------------------------------
(***************************************************************************)
(* What an operation means, and what it does to the tree.                  *)
(***************************************************************************)

\* Whether an operation renames does not depend on the tree, and so the
\* path its result has does not either.
Renames(op) ==
    \/ op.action \in {"move", "rename"}
    \/ op.action = "" /\ ~IsSettingOp(op) /\ op.target # NoPath

ResultPath(op) == IF Renames(op) THEN op.target ELSE PrePath(op)

\* Preflight lets the operation pass, for some tree.
Passes(op) == \E t \in Tree : PreflightOperation(t, op)

\* The actions of an operation that passed.
ActionsOf(op) == IF IsSettingOp(op) THEN {"set", "remove"} ELSE FileActions \cup {"apply_patch"}

\* What an action may change, apart from directories.
Reach(op, action) ==
    IF action = "apply_patch" THEN {e.path : e \in op.edits} ELSE {PrePath(op), ResultPath(op)}

Named(op) == IF op.action \in DOMAIN Synonym THEN Synonym[op.action] ELSE op.action

\* The synonyms by cases.
LEMMA NamedCases ==
    ASSUME NEW op \in Operation
    PROVE  /\ op.action = "remove" => Named(op) = "delete"
           /\ op.action = "move" => Named(op) = "rename"
           /\ op.action = "update" => Named(op) = "modify"
           /\ op.action \notin {"remove", "move", "update"} => Named(op) = op.action
<1>1. DOMAIN Synonym = {"remove", "move", "update"}
    BY DEF Synonym
<1>2. Synonym["remove"] = "delete" /\ Synonym["move"] = "rename" /\ Synonym["update"] = "modify"
    BY DEF Synonym
<1>3. op.action \notin {"remove", "move", "update"} => Named(op) = op.action
    BY <1>1 DEF Named
<1>4. op.action = "remove" => Named(op) = "delete"
    BY <1>1, <1>2 DEF Named
<1>5. op.action = "move" => Named(op) = "rename"
    BY <1>1, <1>2 DEF Named
<1>6. op.action = "update" => Named(op) = "modify"
    BY <1>1, <1>2 DEF Named
<1> QED
    BY <1>3, <1>4, <1>5, <1>6

\* normalizeAction by cases.
LEMMA ActionCases ==
    ASSUME NEW op \in Operation, NEW t
    PROVE  LET action == ActionOf(t, op)
           IN /\ Named(op) # "" => action = IF IsSettingOp(op) /\ Named(op) = "delete"
                                            THEN "remove" ELSE Named(op)
              /\ Named(op) = "" /\ IsSettingOp(op) => action = "set"
              /\ Named(op) = "" /\ ~IsSettingOp(op) /\ op.target # NoPath => action = "rename"
              /\ Named(op) = "" /\ ~IsSettingOp(op) /\ op.target = NoPath =>
                    action = IF op.content = NoText /\ ~HasFindReplace(op) THEN "delete"
                             ELSE IF Exists(t, op.path) THEN "modify" ELSE "create"
<1> DEFINE named == Named(op)
<1>1. ActionOf(t, op) =
          IF named # "" THEN IF IsSettingOp(op) /\ named = "delete" THEN "remove" ELSE named
          ELSE IF IsSettingOp(op) THEN "set"
          ELSE IF op.target # NoPath THEN "rename"
          ELSE IF op.content = NoText /\ ~HasFindReplace(op) THEN "delete"
          ELSE IF Exists(t, op.path) THEN "modify" ELSE "create"
    BY DEF ActionOf, Named
<1> HIDE DEF named
<1>2. named # "" => ActionOf(t, op) = IF IsSettingOp(op) /\ named = "delete" THEN "remove"
                                       ELSE named
    BY <1>1
<1>3. named = "" /\ IsSettingOp(op) => ActionOf(t, op) = "set"
    BY <1>1
<1>4. named = "" /\ ~IsSettingOp(op) /\ op.target # NoPath => ActionOf(t, op) = "rename"
    BY <1>1
<1>5. named = "" /\ ~IsSettingOp(op) /\ op.target = NoPath =>
          ActionOf(t, op) = IF op.content = NoText /\ ~HasFindReplace(op) THEN "delete"
                            ELSE IF Exists(t, op.path) THEN "modify" ELSE "create"
    BY <1>1
<1> QED
    BY <1>2, <1>3, <1>4, <1>5 DEF named

\* The path of the result is the same on every tree.
LEMMA RenamesOnAnyTree ==
    ASSUME NEW op \in Operation, NEW t
    PROVE  /\ ActionOf(t, op) = "rename" <=> Renames(op)
           /\ PostPath(t, op) = ResultPath(op)
<1>1. Named(op) = "rename" <=> op.action \in {"move", "rename"}
    BY NamedCases
<1>2. Named(op) = "" <=> op.action = ""
    BY NamedCases
<1>3. ActionOf(t, op) = "rename" <=> Renames(op)
    <2>1. CASE Named(op) # ""
        BY <1>1, <1>2, <2>1, ActionCases DEF Renames
    <2>2. CASE Named(op) = "" /\ (IsSettingOp(op) \/ op.target # NoPath)
        BY <1>2, <2>2, ActionCases DEF Renames
    <2>3. CASE Named(op) = "" /\ ~IsSettingOp(op) /\ op.target = NoPath
        <3>1. ActionOf(t, op) \in {"delete", "modify", "create"}
            BY <2>3, ActionCases
        <3> QED
            BY <1>2, <2>3, <3>1 DEF Renames
    <2> QED
        BY <2>1, <2>2, <2>3
<1> QED
    BY <1>3 DEF PostPath, ResultPath

\* The tree decides only between the making of a file and the change of one.
LEMMA ActionOnAnyTree ==
    ASSUME NEW op \in Operation, NEW t, NEW t2
    PROVE  \/ ActionOf(t2, op) = ActionOf(t, op)
           \/ /\ ~IsSettingOp(op)
              /\ ActionOf(t, op) \in {"modify", "create"}
              /\ ActionOf(t2, op) \in {"modify", "create"}
<1>1. CASE Named(op) # ""
    BY <1>1, ActionCases
<1>2. CASE Named(op) = "" /\ IsSettingOp(op)
    BY <1>2, ActionCases
<1>3. CASE Named(op) = "" /\ ~IsSettingOp(op) /\ op.target # NoPath
    BY <1>3, ActionCases
<1>4. CASE Named(op) = "" /\ ~IsSettingOp(op) /\ op.target = NoPath
    <2>1. \/ ActionOf(t, op) = "delete" /\ ActionOf(t2, op) = "delete"
          \/ ActionOf(t, op) \in {"modify", "create"} /\ ActionOf(t2, op) \in {"modify", "create"}
        BY <1>4, ActionCases
    <2> QED
        BY <1>4, <2>1
<1> QED
    BY <1>1, <1>2, <1>3, <1>4

\* What Preflight says of an operation.
LEMMA PassedForm ==
    ASSUME NEW op \in Operation, NEW t, PreflightOperation(t, op)
    PROVE  /\ ActionOf(t, op) \in ActionsOf(op)
           /\ IsSettingOp(op) => IsSetting(op.path) /\ ~Renames(op)
           /\ ~IsSettingOp(op) => /\ PreflightFile(t, op, ActionOf(t, op))
                                  /\ NamedPaths(op) \subseteq TreePaths /\ FitsType(op)
                                  /\ Renames(op) => op.target # NoPath
           /\ CheckWritableForAction(t, op, ActionOf(t, op))
<1> DEFINE action == ActionOf(t, op)
<1>1. /\ action \in AllowedActions(op.type)
      /\ IF IsSettingOp(op) THEN IsSetting(op.path) ELSE PreflightFile(t, op, action)
      /\ CheckWritableForAction(t, op, action)
    BY DEF PreflightOperation
<1>2. action \in ActionsOf(op)
    <2>1. IsSettingOp(op) => AllowedActions(op.type) = {"set", "remove"}
        BY DEF IsSettingOp, AllowedActions
    <2>2. ~IsSettingOp(op) => AllowedActions(op.type) \subseteq FileActions \cup {"apply_patch"}
        BY DEF IsSettingOp, AllowedActions
    <2> QED
        BY <1>1, <2>1, <2>2 DEF ActionsOf
<1>3. action = "rename" <=> Renames(op)
    BY RenamesOnAnyTree
<1>4. IsSettingOp(op) => ~Renames(op)
    BY <1>2, <1>3 DEF ActionsOf
<1>5. ~IsSettingOp(op) => /\ NamedPaths(op) \subseteq TreePaths /\ FitsType(op)
                          /\ Renames(op) => op.target # NoPath
    BY <1>1, <1>3 DEF PreflightFile
<1> QED
    BY <1>1, <1>2, <1>4, <1>5

\* The paths and the action of an operation that passed, on any tree.
LEMMA PassedPaths ==
    ASSUME NEW op \in Operation, Passes(op), NEW t2
    PROVE  /\ ActionOf(t2, op) \in ActionsOf(op)
           /\ PrePath(op) \in TreePaths /\ ResultPath(op) \in TreePaths
           /\ Touches(op) \subseteq TreePaths
           /\ PrePath(op) \in Touches(op) /\ ResultPath(op) \in Touches(op)
           /\ IsSettingOp(op) => IsSetting(op.path)
           /\ \A action \in ActionsOf(op) : Reach(op, action) \subseteq Touches(op)
           /\ ~IsSettingOp(op) => PrePath(op) = op.path
<1>1. PICK t \in Tree : PreflightOperation(t, op)
    BY DEF Passes
<1>2. ActionOf(t2, op) \in ActionsOf(op)
    BY <1>1, ActionOnAnyTree, PassedForm DEF ActionsOf, FileActions
<1>3. IsSettingOp(op) => ~Renames(op) /\ IsSetting(op.path)
    BY <1>1, PassedForm
<1>4. ~IsSettingOp(op) => NamedPaths(op) \subseteq TreePaths /\ (Renames(op) => op.target # NoPath)
    BY <1>1, PassedForm
<1>5. \A e \in op.edits : e.path \in TreePaths
    BY DEF Operation, FileChange
<1>6. ASSUME IsSettingOp(op)
      PROVE  /\ PrePath(op) = ProjectFile /\ ResultPath(op) = ProjectFile
             /\ Touches(op) = {ProjectFile} /\ ProjectFile \in TreePaths
    BY <1>3, <1>6, EngineTrees DEF PrePath, ResultPath, Touches
<1>7. ASSUME ~IsSettingOp(op)
      PROVE  /\ PrePath(op) = op.path /\ op.path \in TreePaths /\ op.path \in Touches(op)
             /\ ResultPath(op) \in TreePaths /\ ResultPath(op) \in Touches(op)
             /\ Touches(op) \subseteq TreePaths
             /\ {e.path : e \in op.edits} \subseteq Touches(op)
    <2>1. op.path \in NamedPaths(op) /\ (op.target # NoPath => op.target \in NamedPaths(op))
        BY DEF NamedPaths
    <2>2. PrePath(op) = op.path
        BY <1>7 DEF PrePath
    <2>3. ResultPath(op) \in NamedPaths(op)
        BY <1>4, <1>7, <2>1, <2>2 DEF ResultPath
    <2>4. Touches(op) = NamedPaths(op) \cup {e.path : e \in op.edits}
        BY <1>7 DEF Touches
    <2>5. {e.path : e \in op.edits} \subseteq TreePaths
        BY <1>5
    <2> QED
        BY <1>4, <1>7, <2>1, <2>2, <2>3, <2>4, <2>5
<1>8. ASSUME NEW action \in ActionsOf(op) PROVE Reach(op, action) \subseteq Touches(op)
    <2>1. CASE action = "apply_patch"
        <3>1. ~IsSettingOp(op)
            BY <2>1 DEF ActionsOf
        <3> QED
            BY <1>7, <2>1, <3>1 DEF Reach
    <2>2. CASE action # "apply_patch"
        BY <1>6, <1>7, <2>2 DEF Reach
    <2> QED
        BY <2>1, <2>2
<1> QED
    BY <1>2, <1>3, <1>6, <1>7, <1>8

\* What is written is texts.
LEMMA TransformedTyped ==
    ASSUME NEW op \in Operation, Passes(op), HasTexts(op), NEW action \in ActionsOf(op),
           NEW data \in Seq(Texts), ContentFits(op, action, data)
    PROVE  Transformed(op, action, data) \in Seq(Texts)
<1>1. /\ op.content \in Texts \cup {NoText} /\ op.to \in Texts \cup {NoText}
    BY DEF Operation
<1>2. TextData(op.content) \in Seq(Texts) /\ data \o TextData(op.content) \in Seq(Texts)
    BY <1>1 DEF TextData
<1>3. CASE IsSettingOp(op)
    <2>1. action \in {"set", "remove"} /\ IsSetting(op.path)
        BY <1>3, PassedPaths DEF ActionsOf
    <2>2. CASE action = "remove"
        BY <1>3, <2>2, WithoutSettingTyped DEF Transformed
    <2>3. CASE action = "set"
        <3>1. op.content # NoText
            BY <1>3, <2>3 DEF ContentFits, LacksContent
        <3>2. /\ Header(SectionOf(op.path)) \in Texts
              /\ Assignment(KeyOf(op.path), op.content) \in Texts
            BY <1>3, <2>1, <3>1 DEF HasTexts
        <3>3. Transformed(op, action, data) = WithSetting(data, op.path, op.content)
            BY <1>3, <2>3 DEF Transformed
        <3> QED
            BY <3>2, <3>3, WithSettingTyped
    <2> QED
        BY <2>1, <2>2, <2>3
<1>4. CASE ~IsSettingOp(op) /\ action = "append"
    BY <1>2, <1>4 DEF Transformed
<1>5. CASE ~IsSettingOp(op) /\ action # "append" /\ ReadsFirst(op, action)
    <2>1. op.to \in Texts
        BY <1>5 DEF ReadsFirst, Searches, HasTexts
    <2> DEFINE all == ReplaceAll(data, op.find, op.to)
               first == ReplacedFirst(data, op)
    <2>2. Transformed(op, action, data) \in {all, first}
        <3>1. Transformed(op, action, data) = IF op.all THEN all ELSE first
            BY <1>5, Zenon DEF Transformed
        <3> QED
            BY <3>1, Zenon
    <2>3. \A i \in 1 .. Len(data) : data[i] \in Texts
        OBVIOUS
    <2>4. Len(data) \in Nat /\ DOMAIN data = 1 .. Len(data)
        OBVIOUS
    <2>5. all \in [1 .. Len(data) -> Texts]
        BY <2>1, <2>3 DEF ReplaceAll
    <2>6. first \in [1 .. Len(data) -> Texts]
        <3> DEFINE I == {j \in 1 .. Len(data) : data[j] = op.find}
                   i == IF I # {} THEN Min(I) ELSE 0
        <3>1. first = [data EXCEPT ![i] = op.to]
            BY DEF ReplacedFirst, SelectInSeq
        <3> HIDE DEF i
        <3> QED
            BY <2>1, <2>3, <2>4, <3>1
    <2> HIDE DEF all, first
    <2> QED
        BY <2>2, <2>4, <2>5, <2>6
<1>6. CASE ~IsSettingOp(op) /\ action # "append" /\ ~ReadsFirst(op, action)
    <2>1. Transformed(op, action, data) = TextData(op.content)
        BY <1>6, Zenon DEF Transformed
    <2> QED
        BY <1>2, <2>1
<1> QED
    BY <1>3, <1>4, <1>5, <1>6

\* A file written, whatever action wrote it.
LEMMA FileApplied ==
    ASSUME NEW t \in Tree, WellFormed(t), NEW op \in Operation, Passes(op), HasTexts(op),
           NEW action \in ActionsOf(op) \ {"delete", "rename", "apply_patch"},
           NEW data \in Seq(Texts), ContentFits(op, action, data), CanCopyTo(t, PrePath(op))
    PROVE  Effect(t, Applied(t, op, action, data), Reach(op, action))
<1> DEFINE new == Transformed(op, action, data)
           f == WithFile(t, PrePath(op), new)
<1>1. Applied(t, op, action, data) \in {t, f}
    <2>1. /\ action # "delete" /\ action # "rename" /\ action # "apply_patch"
        OBVIOUS
    <2> QED
        BY <2>1 DEF Applied
<1>2. PrePath(op) \in TreePaths
    BY PassedPaths
<1>3. new \in Seq(Texts)
    BY TransformedTyped
<1> HIDE DEF new
<1>4. Effect(t, f, {PrePath(op)})
    BY <1>2, <1>3, FileWritten
<1>5. {PrePath(op)} \subseteq Reach(op, action)
    BY DEF Reach
<1> HIDE DEF f
<1>6. Effect(t, f, Reach(op, action)) /\ Effect(t, t, Reach(op, action))
    BY <1>4, <1>5, WiderEffect, NoEffect
<1> QED
    BY <1>1, <1>6

\* What the system calls of an action need.
LEMMA CallsNeed ==
    ASSUME NEW t, NEW op \in Operation, Passes(op),
           NEW action \in ActionsOf(op), CanApply(t, op, action)
    PROVE  /\ action = "delete" => Removable(t, op.path)
           /\ action = "rename" => CanMove(t, op.path, op.target)
           /\ action = "apply_patch" => DiffApplies(t, op)
           /\ action \notin {"delete", "rename", "apply_patch"} => CanCopyTo(t, PrePath(op))
           /\ ReadsFirst(op, action) => IsFile(t, PrePath(op))
           /\ action \in {"create", "delete", "rename", "apply_patch"} => PrePath(op) = op.path
<1>1. action \in {"create", "delete", "rename", "apply_patch"} =>
          PrePath(op) = op.path /\ ~ReadsFirst(op, action)
    <2>1. action \in {"create", "delete", "rename", "apply_patch"} => ~IsSettingOp(op)
        BY DEF ActionsOf
    <2> QED
        BY <2>1, PassedPaths DEF ReadsFirst, Searches, IsTransformed
<1>2. action = "create" => CanCopyTo(t, op.path)
    BY DEF CanApply
<1>3. action = "delete" => Removable(t, op.path)
    BY DEF CanApply
<1>4. action = "rename" => CanMove(t, op.path, op.target)
    BY DEF CanApply
<1>5. action = "apply_patch" => DiffApplies(t, op)
    BY DEF CanApply
<1>6. action \notin {"create", "delete", "rename", "apply_patch"} =>
          (ReadsFirst(op, action) => IsFile(t, PrePath(op))) /\ CanCopyTo(t, PrePath(op))
    BY DEF CanApply
<1> QED
    BY <1>1, <1>2, <1>3, <1>4, <1>5, <1>6

\* An operation performed.
LEMMA OperationApplied ==
    ASSUME NEW t \in Tree, WellFormed(t), NEW op \in Operation, Passes(op), HasTexts(op),
           IsDiff(op.edits), ~IsDirectory(t, PrePath(op)),
           NEW action \in ActionsOf(op), action = "rename" <=> Renames(op),
           NEW data \in Seq(Texts), ContentFits(op, action, data), CanApply(t, op, action)
    PROVE  Effect(t, Applied(t, op, action, data), Reach(op, action))
<1>1. PrePath(op) \in TreePaths /\ ResultPath(op) \in TreePaths
    BY PassedPaths
<1>2. CASE action = "delete"
    <2>1. Applied(t, op, action, data) = Without(t, op.path)
        BY <1>2 DEF Applied
    <2>2. PrePath(op) = op.path /\ Removable(t, op.path)
        BY <1>2, CallsNeed
    <2>3. Effect(t, Without(t, op.path), {op.path})
        BY <1>1, <2>2, PathRemoved
    <2>4. {op.path} \subseteq Reach(op, action)
        BY <1>2, <2>2 DEF Reach
    <2> QED
        BY <2>1, <2>3, <2>4, WiderEffect
<1>3. CASE action = "rename"
    <2> DEFINE m == Moved(WithDirectories(t, Above(op.target)), op.path, op.target)
    <2>1. Applied(t, op, action, data) = m
        BY <1>3 DEF Applied
    <2>2. PrePath(op) = op.path /\ CanMove(t, op.path, op.target) /\ ResultPath(op) = op.target
        BY <1>3, CallsNeed DEF ResultPath
    <2>3. Effect(t, m, {op.path, op.target})
        BY <1>1, <2>2, FileMoved
    <2>4. {op.path, op.target} = Reach(op, action)
        BY <1>3, <2>2 DEF Reach
    <2> HIDE DEF m
    <2> QED
        BY <2>1, <2>3, <2>4
<1>4. CASE action = "apply_patch"
    <2>1. Applied(t, op, action, data) = WithEdits(t, op.edits)
        BY <1>4 DEF Applied
    <2>2. DiffApplies(t, op) /\ Reach(op, action) = {e.path : e \in op.edits}
        BY <1>4, CallsNeed DEF Reach
    <2>3. op.edits \in SUBSET op.edits
        OBVIOUS
    <2>4. Effect(t, WithEdits(t, op.edits), {e.path : e \in op.edits})
        BY <2>2, <2>3, DiffApplied
    <2> QED
        BY <2>1, <2>2, <2>4
<1>5. CASE action \notin {"delete", "rename", "apply_patch"}
    BY <1>5, CallsNeed, FileApplied
<1> QED
    BY <1>2, <1>3, <1>4, <1>5

\* An operation refused, and one cut short.
LEMMA OperationRefused ==
    ASSUME NEW t \in Tree, WellFormed(t), NEW op \in Operation, Passes(op),
           NEW action \in ActionsOf(op), action = "rename" <=> Renames(op)
    PROVE  Effect(t, NotRenamed(t, op, action), Reach(op, action))
<1>1. CASE action = "rename" /\ Reachable(t, op.target)
    <2>1. op.target \in TreePaths /\ op.target \in Reach(op, action)
        BY <1>1, PassedPaths DEF ResultPath, Reach
    <2>2. NotRenamed(t, op, action) = WithDirectories(t, Above(op.target))
        BY <1>1 DEF NotRenamed
    <2>3. Effect(t, WithDirectories(t, Above(op.target)), {op.target})
        BY <1>1, <2>1, WayMade
    <2>4. {op.target} \subseteq Reach(op, action)
        BY <2>1
    <2> QED
        BY <2>2, <2>3, <2>4, WiderEffect
<1>2. CASE ~(action = "rename" /\ Reachable(t, op.target))
    BY <1>2, NoEffect DEF NotRenamed
<1> QED
    BY <1>1, <1>2

\* An operation cut short leaves directories, or a part of a diff.
LEMMA OperationCutShort ==
    ASSUME NEW t \in Tree, WellFormed(t), NEW op \in Operation, Passes(op), IsDiff(op.edits),
           NEW action \in ActionsOf(op),
           action # "apply_patch" => (action = "rename" <=> Renames(op)),
           \/ CanApply(t, op, action)
           \/ action \notin {"delete", "rename", "apply_patch"} /\ CanCopyTo(t, PrePath(op)),
           NEW t2 \in CutShort(t, op, action)
    PROVE  Effect(t, t2, Reach(op, action))
<1>1. CASE action = "apply_patch"
    <2>1. PICK part \in SUBSET op.edits : t2 = WithEdits(t, part)
        BY <1>1 DEF CutShort
    <2>2. DiffApplies(t, op) /\ Reach(op, action) = {e.path : e \in op.edits}
        BY <1>1, CallsNeed DEF Reach
    <2> QED
        BY <2>1, <2>2, DiffApplied
<1>2. CASE action # "apply_patch"
    <2>1. t2 \in {t, WithDirectories(t, Above(ResultPath(op)))} /\ (action = "delete" => t2 = t)
        BY <1>2, RenamesOnAnyTree DEF CutShort
    <2>2. CASE t2 = t
        BY <2>2, NoEffect
    <2>3. CASE t2 = WithDirectories(t, Above(ResultPath(op))) /\ action # "delete"
        <3>1. ResultPath(op) \in TreePaths /\ {ResultPath(op)} \subseteq Reach(op, action)
            BY <1>2, PassedPaths DEF Reach
        <3>2. Reachable(t, ResultPath(op))
            <4>1. CASE action = "rename"
                BY <1>2, <4>1, CallsNeed DEF ResultPath, CanMove
            <4>2. CASE action # "rename"
                BY <1>2, <2>3, <4>2, CallsNeed DEF ResultPath, CanCopyTo
            <4> QED
                BY <4>1, <4>2
        <3>3. Effect(t, t2, {ResultPath(op)})
            BY <2>3, <3>1, <3>2, WayMade
        <3> QED
            BY <3>1, <3>3, WiderEffect
    <2> QED
        BY <2>1, <2>2, <2>3
<1> QED
    BY <1>1, <1>2

----------------------------------------------------------------------------
(***************************************************************************)
(* The inductive invariant.  Beside the properties it holds what ties the  *)
(* journal, the tree and the call together: which file Apply has come to,  *)
(* what of that the journal knows at each step, and that the tree differs  *)
(* from the history only where an operation could have reached.            *)
(***************************************************************************)
Pcs == {"idle", "refused", "begin", "next", "preimage", "perform", "write",
        "postimage", "fail", "failed", "completed", "crashed"}

\* Apply is about an operation; every write of the journal has succeeded.
InOperation == call.pc \in {"preimage", "perform", "write", "postimage"}
Busy == At("next") \/ InOperation
Settled == At("completed") \/ At("failed")

CallActions == {""} \cup {"set", "remove"} \cup FileActions \cup {"apply_patch"}

CallRecord ==
    [pc: Pcs, cs: ChangeSets \cup {NoEntry}, ops: Proposals \cup {<<>>}, idx: Nat,
     action: CallActions, read: Seq(Texts)]

HistoryRecord == [before: Tree, late: SUBSET TreePaths, patched: SUBSET TreePaths]

Types ==
    /\ JournalTypeOK
    /\ tree \in Tree
    /\ call \in CallRecord
    /\ faults \in 0 .. MaxFaults
    /\ edits \in 0 .. MaxEdits
    /\ history \in HistoryRecord

CallFits ==
    /\ call.idx <= Len(call.ops) + 1
    /\ Busy \/ At("fail") \/ At("completed") => call.cs \in ChangeSets /\ call.idx >= 1
    /\ InOperation => call.idx <= Len(call.ops)
    /\ call.pc \notin {"idle", "refused"} => \A i \in DOMAIN call.ops : Passes(call.ops[i])
    /\ At("idle") \/ At("refused") \/ At("begin") => call.cs = NoEntry /\ call.idx = 0
    /\ call.cs = NoEntry => tree = history.before

\* What reads a file and then writes it.
WritesBack(op, action) ==
    action \in ActionsOf(op) \ {"delete", "rename", "apply_patch"} /\ ~Renames(op)

TreeFits ==
    /\ WellFormed(tree)
    /\ At("perform") \/ At("write") => ~IsDirectory(tree, PrePath(Op))
    /\ At("write") => WritesBack(Op, call.action)

\* The file is memory, or behind it.
Behind == \A cs \in ChangeSets : file[cs] # NoEntry =>
    entries[cs] # NoEntry /\ Journalled(file[cs]) \subseteq Journalled(entries[cs])

OnlyOne == \A cs \in ChangeSets : entries[cs] # NoEntry \/ file[cs] # NoEntry => cs = call.cs

\* The first operations of the proposal are logged under their results.
Logged(log, ops, n) ==
    Len(log) = n /\ \A i \in 1 .. n : log[i].path = ResultPath(ops[i])

JournalFits ==
    /\ OnlyOne
    /\ Behind
    /\ Busy => /\ file = entries
               /\ entries[call.cs] # NoEntry
               /\ Logged(entries[call.cs].operations, call.ops,
                         IF At("next") THEN call.idx - 1 ELSE call.idx)
    /\ At("perform") \/ At("write") => entries[call.cs].preimages[PrePath(Op)] # NoHash

\* Apply, and not the editor, made a difference to a file.
Differs(p) == /\ tree[p] # history.before[p]
              /\ IsFile(tree, p) \/ IsFile(history.before, p)

DiffersWhereCome == \A p \in TreePaths \ history.late : Differs(p) => ComeTo(p)

Alone(p) == \A i, j \in TouchedBy(p) : i = j

PreimageFits(hash, p) ==
    hash # NoHash =>
        /\ ComeTo(p)
        /\ p \notin history.late /\ Alone(p) => hash = HashOf(history.before, p)

PreimagesFit ==
    \A cs \in ChangeSets, p \in TreePaths :
        /\ entries[cs] # NoEntry => PreimageFits(entries[cs].preimages[p], p)
        /\ file[cs] # NoEntry => PreimageFits(file[cs].preimages[p], p)

\* Operation i is done, and none Apply has come to since touches its result.
LastSoFar(i) ==
    /\ i < call.idx
    /\ \A j \in DOMAIN call.ops :
          j > i /\ (j < call.idx \/ (j = call.idx /\ call.pc \in {"perform", "write", "postimage"}))
              => ResultPath(call.ops[i]) \notin Touches(call.ops[j])

PostimagesFit ==
    Busy => \A i \in DOMAIN call.ops : LastSoFar(i) =>
        LET p == ResultPath(call.ops[i])
        IN p \notin history.late => entries[call.cs].postimages[p] = HashOf(tree, p)

CompletedAtEnd ==
    \A cs \in ChangeSets :
        /\ entries[cs] # NoEntry /\ entries[cs].status = "completed" => Settled
        /\ file[cs] # NoEntry /\ file[cs].status = "completed" => Settled

TouchedTo(ops, n) == UNION {Touches(ops[i]) : i \in {j \in DOMAIN ops : j <= n}}

OnlyOperations ==
    edits = 0 =>
        /\ WellFormed(history.before)
        /\ call.pc \notin {"idle", "refused"} => PreflightOK(history.before, call.ops)
        /\ Busy => Changes(history.before, tree,
                           TouchedTo(call.ops, IF At("postimage") THEN call.idx ELSE call.idx - 1))

Before ==
    /\ Types /\ CallFits /\ TreeFits /\ JournalFits
    /\ EffectsAreJournalled
    /\ DiffersWhereCome
    /\ PreimagesFit
    /\ PostimagesFit
    /\ OnlyOperations

IInv == Before /\ CompletedAtEnd /\ CompletedMatchesTree

----------------------------------------------------------------------------
(***************************************************************************)
(* What the invariant says of the operation at work and of the proposal.   *)
(***************************************************************************)
LEMMA OpsForm ==
    ASSUME Types
    PROVE  /\ call.ops \in Seq(Operation) /\ Len(call.ops) \in Nat
           /\ DOMAIN call.ops = 1 .. Len(call.ops)
           /\ \A i \in DOMAIN call.ops : /\ call.ops[i] \in Operation
                                         /\ HasTexts(call.ops[i]) /\ IsDiff(call.ops[i].edits)
<1>1. call.ops \in Proposals \cup {<<>>}
    BY DEF Types, CallRecord
<1>2. CASE call.ops \in Proposals
    BY <1>2, EngineProposals
<1>3. CASE call.ops = <<>>
    BY <1>3
<1> QED
    BY <1>1, <1>2, <1>3

\* The operation at work is one of the proposal and passed preflight.
LEMMA OpForm ==
    ASSUME Types, CallFits, InOperation
    PROVE  /\ Op \in Operation /\ Passes(Op) /\ HasTexts(Op) /\ IsDiff(Op.edits)
           /\ call.idx \in DOMAIN call.ops /\ call.idx \in Nat /\ call.cs \in ChangeSets
           /\ Op = call.ops[call.idx]
<1>1. call.idx \in DOMAIN call.ops /\ call.idx \in Nat
    BY OpsForm DEF Types, CallRecord, CallFits, InOperation, Busy
<1>2. call.pc \notin {"idle", "refused"}
    BY DEF InOperation
<1>3. Passes(Op)
    BY <1>1, <1>2 DEF CallFits, Op
<1>4. call.cs \in ChangeSets
    BY DEF CallFits, Busy
<1> QED
    BY <1>1, <1>3, <1>4, OpsForm DEF Op

\* What the history remembers are trees and paths.
LEMMA HistoryForm ==
    ASSUME Types
    PROVE  /\ history.before \in Tree /\ history.late \subseteq TreePaths
           /\ history.patched \subseteq TreePaths
BY DEF Types, HistoryRecord

\* What the journal keeps of a change set it has is an entry.
LEMMA EntriesForm ==
    ASSUME Types, NEW cs \in ChangeSets
    PROVE  /\ entries[cs] # NoEntry => entries[cs] \in ChangeSetEntry
           /\ file[cs] # NoEntry => file[cs] \in ChangeSetEntry
           /\ NoEntry \notin ChangeSetEntry
BY EngineNulls DEF Types, JournalTypeOK

----------------------------------------------------------------------------
(***************************************************************************)
(* An entry of the journal, changed.                                       *)
(***************************************************************************)
LEMMA HashForm ==
    ASSUME NEW t \in Tree, NEW p \in TreePaths
    PROVE  HashOf(t, p) \in Seq(Texts) \cup {Missing} /\ HashOf(t, p) # NoHash
BY NodeKinds, EngineNulls DEF HashOf

\* The parts of an entry.
LEMMA EntryParts ==
    ASSUME NEW e \in ChangeSetEntry
    PROVE  /\ e.operations \in Seq(OperationEntry) /\ Len(e.operations) \in Nat
           /\ DOMAIN e.operations = 1 .. Len(e.operations)
           /\ e.preimages \in Images /\ e.postimages \in Images /\ e.status \in Status
BY DEF ChangeSetEntry

\* The entry of a change set just begun names nothing.
LEMMA NewEntryForm ==
    /\ NewEntry \in ChangeSetEntry
    /\ NewEntry.operations = <<>> /\ NewEntry.status = "in_progress"
    /\ \A p \in TreePaths : NewEntry.preimages[p] = NoHash
<1> DEFINE images == [p \in TreePaths |-> NoHash]
<1>1. images \in Images /\ \A p \in TreePaths : images[p] = NoHash
    BY DEF Images
<1>2. NewEntry = [status |-> "in_progress", operations |-> <<>>, preimages |-> images,
                  postimages |-> images]
    BY DEF NewEntry
<1> HIDE DEF images
<1>3. <<>> \in Seq(OperationEntry)
    OBVIOUS
<1>4. "in_progress" \in Status
    BY DEF Status
<1>5. NewEntry \in ChangeSetEntry
    BY <1>1, <1>2, <1>3, <1>4 DEF ChangeSetEntry
<1> QED
    BY <1>1, <1>2, <1>5

\* A preimage stored.
PreimageStored(e, p, hash) == [e EXCEPT !.preimages[p] = hash]
PostimageStored(e, p, hash) == [e EXCEPT !.postimages[p] = hash]

\* The entry with a preimage differs in that preimage.
LEMMA WithPreimage ==
    ASSUME NEW e \in ChangeSetEntry, NEW p \in TreePaths, NEW hash \in Seq(Texts) \cup {Missing},
           NEW e2, e2 = PreimageStored(e, p, hash)
    PROVE  /\ e2 \in ChangeSetEntry
           /\ e2.operations = e.operations /\ e2.status = e.status
           /\ e2.postimages = e.postimages
           /\ e2.preimages[p] = hash
           /\ \A q \in TreePaths \ {p} : e2.preimages[q] = e.preimages[q]
<1> DEFINE pre == [e.preimages EXCEPT ![p] = hash]
<1>1. pre \in Images /\ pre[p] = hash /\ \A q \in TreePaths \ {p} : pre[q] = e.preimages[q]
    BY DEF ChangeSetEntry, Images
<1>2. e2 = [e EXCEPT !.preimages = pre]
    BY DEF PreimageStored
<1> HIDE DEF pre
<1>3. /\ e2 \in ChangeSetEntry /\ e2.operations = e.operations /\ e2.status = e.status
      /\ e2.postimages = e.postimages /\ e2.preimages = pre
    BY <1>1, <1>2 DEF ChangeSetEntry
<1> QED
    BY <1>1, <1>3

\* A postimage stored.
LEMMA WithPostimage ==
    ASSUME NEW e \in ChangeSetEntry, NEW p \in TreePaths, NEW hash \in Seq(Texts) \cup {Missing},
           NEW e2, e2 = PostimageStored(e, p, hash)
    PROVE  /\ e2 \in ChangeSetEntry
           /\ e2.operations = e.operations /\ e2.status = e.status
           /\ e2.preimages = e.preimages
           /\ e2.postimages[p] = hash
           /\ \A q \in TreePaths \ {p} : e2.postimages[q] = e.postimages[q]
<1> DEFINE post == [e.postimages EXCEPT ![p] = hash]
<1>1. post \in Images /\ post[p] = hash /\ \A q \in TreePaths \ {p} : post[q] = e.postimages[q]
    BY DEF ChangeSetEntry, Images
<1>2. e2 = [e EXCEPT !.postimages = post]
    BY DEF PostimageStored
<1> HIDE DEF post
<1>3. /\ e2 \in ChangeSetEntry /\ e2.operations = e.operations /\ e2.status = e.status
      /\ e2.preimages = e.preimages /\ e2.postimages = post
    BY <1>1, <1>2 DEF ChangeSetEntry
<1> QED
    BY <1>1, <1>3

\* An operation logged.
LEMMA WithOperation ==
    ASSUME NEW e \in ChangeSetEntry, NEW op \in OperationEntry,
           NEW e2, e2 = [e EXCEPT !.operations = Append(@, op)]
    PROVE  /\ e2 \in ChangeSetEntry
           /\ e2.operations = Append(e.operations, op) /\ e2.status = e.status
           /\ e2.preimages = e.preimages /\ e2.postimages = e.postimages
<1> DEFINE ops == Append(e.operations, op)
<1>1. ops \in Seq(OperationEntry)
    BY DEF ChangeSetEntry
<1>2. e2 = [e EXCEPT !.operations = ops]
    OBVIOUS
<1> HIDE DEF ops
<1>3. /\ e2 \in ChangeSetEntry /\ e2.operations = ops /\ e2.status = e.status
      /\ e2.preimages = e.preimages /\ e2.postimages = e.postimages
    BY <1>1, <1>2 DEF ChangeSetEntry
<1> QED
    BY <1>3 DEF ops

\* A status set.
LEMMA WithStatus ==
    ASSUME NEW e \in ChangeSetEntry, NEW st \in Status, NEW e2, e2 = [e EXCEPT !.status = st]
    PROVE  /\ e2 \in ChangeSetEntry
           /\ e2.operations = e.operations /\ e2.status = st
           /\ e2.preimages = e.preimages /\ e2.postimages = e.postimages
BY DEF ChangeSetEntry

\* What was named stays named when the log and the preimages only grow.
LEMMA NamesStay ==
    ASSUME NEW e \in ChangeSetEntry, NEW e2 \in ChangeSetEntry,
           Len(e2.operations) >= Len(e.operations),
           \A i \in DOMAIN e.operations : e2.operations[i] = e.operations[i],
           \A p \in TreePaths : e.preimages[p] # NoHash => e2.preimages[p] # NoHash
    PROVE  Journalled(e) \subseteq Journalled(e2)
<1>1. /\ DOMAIN e.operations = 1 .. Len(e.operations) /\ Len(e.operations) \in Nat
      /\ DOMAIN e2.operations = 1 .. Len(e2.operations) /\ Len(e2.operations) \in Nat
    BY EntryParts
<1>2. ASSUME NEW i \in DOMAIN e.operations
      PROVE  e.operations[i].path \in {e2.operations[j].path : j \in DOMAIN e2.operations}
    <2>1. i \in DOMAIN e2.operations /\ e2.operations[i] = e.operations[i]
        BY <1>1
    <2> QED
        BY <2>1
<1> QED
    BY <1>2 DEF Journalled

----------------------------------------------------------------------------
(***************************************************************************)
(* What a step keeps, part by part.                                        *)
(***************************************************************************)
Early(pc) == pc \in {"begin", "next", "preimage"}

\* The call goes on in the same proposal.
ComesOn ==
    /\ call'.ops = call.ops
    /\ call.idx \in Nat /\ call'.idx \in Nat
    /\ \/ call'.idx > call.idx
       \/ call'.idx = call.idx /\ (Early(call.pc) \/ ~Early(call'.pc))

\* Apply does not come away from a path.
LEMMA ComeToStays ==
    ASSUME Types, ComesOn, NEW p, ComeTo(p) PROVE ComeTo(p)'
<1>1. PICK i \in 1 .. Len(call.ops) : /\ i < call.idx \/ (i = call.idx /\ ~Early(call.pc))
                                      /\ p \in Touches(call.ops[i])
    BY DEF ComeTo, Early
<1>2. i < call'.idx \/ (i = call'.idx /\ ~Early(call'.pc))
    BY <1>1, OpsForm DEF ComesOn
<1> QED
    BY <1>1, <1>2 DEF ComesOn, ComeTo, Early

\* Which operations touch a path is a matter of the proposal.
LEMMA AloneStays ==
    ASSUME ComesOn, NEW p PROVE Alone(p)' <=> Alone(p)
BY DEF ComesOn, Alone, TouchedBy

\* A step that changes neither tree nor history keeps the differences.
LEMMA DifferencesStay ==
    ASSUME Types, DiffersWhereCome, ComesOn, UNCHANGED <<tree, history>>
    PROVE  DiffersWhereCome'
<1>1. ASSUME NEW p \in TreePaths \ history.late, Differs(p)' PROVE ComeTo(p)'
    <2>1. Differs(p)
        BY <1>1 DEF Differs
    <2>2. ComeTo(p)
        BY <2>1 DEF DiffersWhereCome
    <2> QED
        BY <2>2, ComeToStays
<1> QED
    BY <1>1 DEF DiffersWhereCome

\* The names in the file stay there.
LEMMA EffectsStay ==
    ASSUME Types, CallFits, EffectsAreJournalled, UNCHANGED <<tree, history>>,
           call.cs # NoEntry => call'.cs = call.cs,
           call.cs \in ChangeSets /\ file[call.cs] # NoEntry =>
               /\ file'[call.cs] # NoEntry
               /\ Journalled(file[call.cs]) \subseteq Journalled(file'[call.cs])
    PROVE  EffectsAreJournalled'
<1>1. call.cs \in ChangeSets \cup {NoEntry}
    BY DEF Types, CallRecord
<1>2. ASSUME NEW p \in TreePaths \ (history.late \cup history.patched),
             tree[p] # history.before[p], IsFile(tree, p) \/ IsFile(history.before, p)
      PROVE  file'[call'.cs] # NoEntry /\ p \in Journalled(file'[call'.cs])
    <2>1. call.cs # NoEntry
        BY <1>2 DEF CallFits
    <2>2. file[call.cs] # NoEntry /\ p \in Journalled(file[call.cs])
        BY <1>2 DEF EffectsAreJournalled
    <2> QED
        BY <1>1, <2>1, <2>2
<1> QED
    BY <1>2 DEF EffectsAreJournalled

\* The preimages that were stored fit as long as what is without Apply at
\* their paths stays.
LEMMA PreimagesStay ==
    ASSUME Types, PreimagesFit, ComesOn,
           \A p \in TreePaths : p \notin history'.late /\ ComeTo(p) =>
               p \notin history.late /\ HashOf(history'.before, p) = HashOf(history.before, p),
           \A cs \in ChangeSets, p \in TreePaths :
               /\ entries'[cs] # NoEntry =>
                    \/ entries[cs] # NoEntry /\ entries'[cs].preimages[p] = entries[cs].preimages[p]
                    \/ file[cs] # NoEntry /\ entries'[cs].preimages[p] = file[cs].preimages[p]
                    \/ PreimageFits(entries[cs].preimages[p], p)'
               /\ file'[cs] # NoEntry =>
                    \/ file[cs] # NoEntry /\ file'[cs].preimages[p] = file[cs].preimages[p]
                    \/ entries'[cs] # NoEntry /\ file'[cs] = entries'[cs]
    PROVE  PreimagesFit'
<1>1. ASSUME NEW p \in TreePaths, NEW hash, PreimageFits(hash, p)
      PROVE  /\ hash # NoHash => ComeTo(p)'
             /\ hash # NoHash /\ p \notin history'.late /\ Alone(p)' =>
                    hash = HashOf(history'.before, p)
    <2>1. hash # NoHash => ComeTo(p)
        BY <1>1 DEF PreimageFits
    <2>2. ComeTo(p) => ComeTo(p)'
        BY ComeToStays
    <2>3. Alone(p)' => Alone(p)
        BY AloneStays
    <2>4. hash # NoHash /\ p \notin history.late /\ Alone(p) => hash = HashOf(history.before, p)
        BY <1>1 DEF PreimageFits
    <2> QED
        BY <2>1, <2>2, <2>3, <2>4
<1>2. ASSUME NEW cs \in ChangeSets, NEW p \in TreePaths, entries'[cs] # NoEntry
      PROVE  PreimageFits(entries[cs].preimages[p], p)'
    <2>1. CASE entries[cs] # NoEntry /\ entries'[cs].preimages[p] = entries[cs].preimages[p]
        BY <1>1, <2>1 DEF PreimagesFit, PreimageFits
    <2>2. CASE file[cs] # NoEntry /\ entries'[cs].preimages[p] = file[cs].preimages[p]
        BY <1>1, <2>2 DEF PreimagesFit, PreimageFits
    <2> QED
        BY <1>2, <2>1, <2>2
<1>3. ASSUME NEW cs \in ChangeSets, NEW p \in TreePaths, file'[cs] # NoEntry
      PROVE  PreimageFits(file[cs].preimages[p], p)'
    <2>1. CASE file[cs] # NoEntry /\ file'[cs].preimages[p] = file[cs].preimages[p]
        BY <1>1, <2>1 DEF PreimagesFit, PreimageFits
    <2>2. CASE entries'[cs] # NoEntry /\ file'[cs] = entries'[cs]
        BY <1>2, <2>2 DEF PreimageFits
    <2> QED
        BY <1>3, <2>1, <2>2
<1> QED
    BY <1>2, <1>3 DEF PreimagesFit

\* Only the end of a call completes its change set.
LEMMA NothingCompleted ==
    ASSUME CompletedAtEnd, ~Settled, NEW cs \in ChangeSets
    PROVE  /\ entries[cs] # NoEntry => entries[cs].status # "completed"
           /\ file[cs] # NoEntry => file[cs].status # "completed"
BY DEF CompletedAtEnd

\* While no change set is completed there is nothing to account for.
LEMMA StillNotCompleted ==
    ASSUME \A cs \in ChangeSets : /\ entries'[cs] # NoEntry => entries'[cs].status # "completed"
                                  /\ file'[cs] # NoEntry => file'[cs].status # "completed"
    PROVE  CompletedAtEnd' /\ CompletedMatchesTree'
<1>1. CompletedAtEnd'
    BY DEF CompletedAtEnd
<1>2. ASSUME NEW image \in {entries', file'}, NEW cs \in ChangeSets, image[cs] # NoEntry
      PROVE  image[cs].status # "completed"
    BY <1>2
<1> QED
    BY <1>1, <1>2 DEF CompletedMatchesTree

----------------------------------------------------------------------------
(***************************************************************************)
(* A write of the journal about the change set of the call.                *)
(***************************************************************************)
JournalStep(e) ==
    /\ call.cs \in ChangeSets /\ entries[call.cs] # NoEntry /\ e \in ChangeSetEntry
    /\ entries' = [entries EXCEPT ![call.cs] = e]
    /\ file' = entries' \/ file' = file
    /\ Journalled(entries[call.cs]) \subseteq Journalled(e)
    /\ call'.cs = call.cs /\ ComesOn
    /\ UNCHANGED <<tree, edits, history>>

\* Only the entry of the call changes, in memory and then on disk.
LEMMA JournalStepEntries ==
    ASSUME Types, JournalFits, NEW e, JournalStep(e)
    PROVE  /\ JournalTypeOK'
           /\ entries'[call.cs] = e
           /\ \A cs \in ChangeSets : cs # call.cs => entries'[cs] = entries[cs]
           /\ \A cs \in ChangeSets : file'[cs] = entries'[cs] \/ file'[cs] = file[cs]
           /\ OnlyOne' /\ Behind'
<1>1. /\ entries \in [ChangeSets -> ChangeSetEntry \cup {NoEntry}]
      /\ file \in [ChangeSets -> ChangeSetEntry \cup {NoEntry}]
    BY DEF Types, JournalTypeOK
<1>2. /\ entries'[call.cs] = e
      /\ \A cs \in ChangeSets : cs # call.cs => entries'[cs] = entries[cs]
      /\ entries' \in [ChangeSets -> ChangeSetEntry \cup {NoEntry}]
      /\ file' \in [ChangeSets -> ChangeSetEntry \cup {NoEntry}]
    BY <1>1 DEF JournalStep
<1>3. \A cs \in ChangeSets : file'[cs] = entries'[cs] \/ file'[cs] = file[cs]
    BY DEF JournalStep
<1>4. OnlyOne'
    BY <1>2, <1>3 DEF OnlyOne, JournalFits, JournalStep
<1>5. e # NoEntry
    BY EngineNulls DEF JournalStep
<1>6. ASSUME NEW cs \in ChangeSets, file'[cs] # NoEntry
      PROVE  entries'[cs] # NoEntry /\ Journalled(file'[cs]) \subseteq Journalled(entries'[cs])
    <2>1. CASE file'[cs] = entries'[cs]
        BY <1>6, <2>1
    <2>2. CASE file'[cs] = file[cs]
        <3>1. entries[cs] # NoEntry /\ Journalled(file[cs]) \subseteq Journalled(entries[cs])
            BY <1>6, <2>2 DEF JournalFits, Behind
        <3>2. CASE cs = call.cs
            BY <1>2, <1>5, <2>2, <3>1, <3>2 DEF JournalStep
        <3>3. CASE cs # call.cs
            BY <1>2, <2>2, <3>1, <3>3
        <3> QED
            BY <3>2, <3>3
    <2> QED
        BY <1>3, <2>1, <2>2
<1>7. Behind'
    BY <1>6 DEF Behind
<1> QED
    BY <1>2, <1>3, <1>4, <1>7 DEF JournalTypeOK

\* The parts every such step keeps.
LEMMA JournalStepKeeps ==
    ASSUME Before, NEW e, JournalStep(e)
    PROVE  EffectsAreJournalled' /\ DiffersWhereCome'
<1>1. Types /\ CallFits /\ JournalFits /\ EffectsAreJournalled /\ DiffersWhereCome
    BY DEF Before
<1>2. file[call.cs] # NoEntry =>
          file'[call.cs] # NoEntry /\ Journalled(file[call.cs]) \subseteq Journalled(file'[call.cs])
    <2>1. ASSUME file[call.cs] # NoEntry
          PROVE  Journalled(file[call.cs]) \subseteq Journalled(entries[call.cs])
        BY <1>1, <2>1 DEF JournalFits, Behind, JournalStep
    <2>2. file'[call.cs] = e \/ file'[call.cs] = file[call.cs]
        BY <1>1, JournalStepEntries DEF JournalStep
    <2>3. e # NoEntry
        BY EngineNulls DEF JournalStep
    <2> QED
        BY <2>1, <2>2, <2>3 DEF JournalStep
<1>3. EffectsAreJournalled'
    BY <1>1, <1>2, EffectsStay DEF JournalStep
<1>4. DiffersWhereCome'
    BY <1>1, DifferencesStay DEF JournalStep
<1> QED
    BY <1>3, <1>4

\* The preimages, if one was stored or none.
LEMMA JournalStepPreimages ==
    ASSUME Before, NEW e, JournalStep(e),
           \A p \in TreePaths : \/ e.preimages[p] = entries[call.cs].preimages[p]
                                \/ PreimageFits(entries[call.cs].preimages[p], p)'
    PROVE  PreimagesFit'
<1>1. Types /\ JournalFits /\ PreimagesFit
    BY DEF Before
<1>2. /\ entries'[call.cs] = e
      /\ \A cs \in ChangeSets : cs # call.cs => entries'[cs] = entries[cs]
      /\ \A cs \in ChangeSets : file'[cs] = entries'[cs] \/ file'[cs] = file[cs]
    BY <1>1, JournalStepEntries
<1>3. history' = history /\ ComesOn /\ call'.cs = call.cs /\ call.cs \in ChangeSets
      /\ entries[call.cs] # NoEntry
    BY DEF JournalStep
<1>4. ASSUME NEW cs \in ChangeSets, NEW p \in TreePaths, entries'[cs] # NoEntry
      PROVE  \/ entries[cs] # NoEntry /\ entries'[cs].preimages[p] = entries[cs].preimages[p]
             \/ PreimageFits(entries[cs].preimages[p], p)'
    <2>1. CASE cs # call.cs
        BY <1>2, <1>4, <2>1
    <2>2. CASE cs = call.cs
        <3>1. CASE e.preimages[p] = entries[call.cs].preimages[p]
            BY <1>2, <1>3, <2>2, <3>1
        <3>2. CASE PreimageFits(entries[call.cs].preimages[p], p)'
            BY <1>3, <2>2, <3>2 DEF PreimageFits
        <3> QED
            BY <3>1, <3>2
    <2> QED
        BY <2>1, <2>2
<1>5. ASSUME NEW cs \in ChangeSets, file'[cs] # NoEntry
      PROVE  \/ file[cs] # NoEntry /\ file'[cs] = file[cs]
             \/ entries'[cs] # NoEntry /\ file'[cs] = entries'[cs]
    BY <1>2, <1>5
<1> QED
    BY <1>1, <1>3, <1>4, <1>5, PreimagesStay

\* A write that does not complete the change set.
LEMMA JournalStepStatus ==
    ASSUME Before, CompletedAtEnd, ~Settled, NEW e, JournalStep(e), e.status # "completed"
    PROVE  CompletedAtEnd' /\ CompletedMatchesTree'
<1>1. Types /\ JournalFits
    BY DEF Before
<1>2. /\ entries'[call.cs] = e
      /\ \A cs \in ChangeSets : cs # call.cs => entries'[cs] = entries[cs]
      /\ \A cs \in ChangeSets : file'[cs] = entries'[cs] \/ file'[cs] = file[cs]
    BY <1>1, JournalStepEntries
<1>3. ASSUME NEW cs \in ChangeSets
      PROVE  /\ entries'[cs] # NoEntry => entries'[cs].status # "completed"
             /\ file'[cs] # NoEntry => file'[cs].status # "completed"
    BY <1>2, NothingCompleted
<1> QED
    BY <1>3, StillNotCompleted

----------------------------------------------------------------------------
(***************************************************************************)
(* The steps of Apply that write the journal.                              *)
(***************************************************************************)
LEMMA GotoForm ==
    ASSUME Types, NEW pc \in Pcs, Goto(pc)
    PROVE  /\ call' \in CallRecord /\ call'.pc = pc /\ call'.cs = call.cs
           /\ call'.ops = call.ops /\ call'.idx = call.idx
           /\ call'.action = call.action /\ call'.read = call.read
BY DEF Types, CallRecord, Goto

\* The faults stay within their bound.
LEMMA OutcomeForm ==
    ASSUME Types, NEW ok \in BOOLEAN, Outcome(ok) PROVE faults' \in 0 .. MaxFaults
BY EngineBounds DEF Types, Outcome, Fault

\* A method of the journal.
LEMMA UpdateStep ==
    ASSUME Types, call.cs \in ChangeSets, NEW e, NEW ok \in BOOLEAN, Update(call.cs, e, ok),
           entries[call.cs] \in ChangeSetEntry =>
               e \in ChangeSetEntry /\ Journalled(entries[call.cs]) \subseteq Journalled(e),
           call'.cs = call.cs, ComesOn, UNCHANGED <<tree, edits, history>>
    PROVE  JournalStep(e) /\ (ok => file' = entries')
<1>1. entries[call.cs] # NoEntry /\ entries[call.cs] \in ChangeSetEntry
    BY EntriesForm DEF Update, Known
<1>2. file' = IF ok THEN entries' ELSE file
    BY DEF Update, Persist
<1> QED
    BY <1>1, <1>2 DEF Update, JournalStep

\* What stays of the invariant's smaller parts when the step goes to a
\* state that is not about an operation.
LEMMA OutOfOperation ==
    ASSUME Types, CallFits, TreeFits, JournalFits, OnlyOperations,
           call' \in CallRecord, call'.ops = call.ops, call'.cs = call.cs, call'.idx = call.idx,
           call'.pc \in {"fail", "failed", "completed", "crashed"},
           call'.pc \in {"fail", "completed"} => call.cs \in ChangeSets /\ call.idx >= 1,
           call.pc \notin {"idle", "refused"},
           UNCHANGED <<tree, history, edits>>, OnlyOne', Behind'
    PROVE  CallFits' /\ TreeFits' /\ JournalFits' /\ PostimagesFit' /\ OnlyOperations'
<1>1. /\ ~Busy' /\ ~InOperation' /\ ~At("perform")' /\ ~At("write")'
      /\ ~At("idle")' /\ ~At("refused")' /\ ~At("begin")'
    BY DEF Busy, InOperation, At
<1>2. CallFits'
    BY <1>1 DEF CallFits, At
<1>3. TreeFits'
    BY <1>1 DEF TreeFits
<1>4. JournalFits'
    BY <1>1 DEF JournalFits
<1>5. PostimagesFit'
    BY <1>1 DEF PostimagesFit
<1>6. OnlyOperations'
    BY <1>1 DEF OnlyOperations
<1> QED
    BY <1>2, <1>3, <1>4, <1>5, <1>6

\* A log that grows keeps what it had.
LEMMA OneMore ==
    ASSUME NEW S, NEW log \in Seq(S), NEW x \in S
    PROVE  /\ Len(Append(log, x)) >= Len(log)
           /\ \A i \in DOMAIN log : Append(log, x)[i] = log[i]
OBVIOUS

\* AddOperation: the log grows by the operation, under the path of its result.
LEMMA JournalOperationStep ==
    ASSUME IInv, NEW ok \in BOOLEAN, JournalOperation(ok) PROVE IInv'
<1> DEFINE entry == [type |-> Op.type, path |-> PostPath(tree, Op)]
           pc == IF ok THEN "preimage" ELSE "fail"
<1>0. Types /\ CallFits /\ TreeFits /\ JournalFits /\ PostimagesFit /\ OnlyOperations /\ Before
    BY DEF IInv, Before
<1>1. /\ At("next") /\ call.idx <= Len(call.ops)
      /\ AddOperation(call.cs, entry, ok) /\ Outcome(ok) /\ Goto(pc)
      /\ UNCHANGED <<tree, edits, history>>
    BY DEF JournalOperation, GoOn
<1>2. Busy /\ call.cs \in ChangeSets /\ call.idx \in Nat /\ call.idx >= 1
      /\ call.idx \in DOMAIN call.ops /\ ~Settled /\ call.pc \notin {"idle", "refused"}
    BY <1>0, <1>1, OpsForm DEF Busy, CallFits, Types, CallRecord, At, Settled
<1>3. Op \in Operation /\ Passes(Op)
    BY <1>0, <1>2, OpsForm DEF CallFits, Op
<1>4. entry \in OperationEntry /\ entry.path = ResultPath(Op)
    <2>1. PostPath(tree, Op) = ResultPath(Op) /\ ResultPath(Op) \in TreePaths
        BY <1>3, PassedPaths, RenamesOnAnyTree
    <2>2. Op.type \in OpTypes
        BY <1>3 DEF Operation
    <2> QED
        BY <2>1, <2>2 DEF OperationEntry
<1> HIDE DEF entry
<1>5. pc \in Pcs /\ pc \in {"preimage", "fail"} /\ (pc = "preimage" <=> ok)
    BY DEF Pcs
<1> HIDE DEF pc
<1>6. /\ call' \in CallRecord /\ call'.pc = pc /\ call'.cs = call.cs
      /\ call'.ops = call.ops /\ call'.idx = call.idx
    BY <1>0, <1>1, <1>5, GotoForm
<1>7. ComesOn
    BY <1>1, <1>2, <1>6 DEF ComesOn, Early, At
<1>8. PICK e : e = [entries[call.cs] EXCEPT !.operations = Append(@, entry)]
    OBVIOUS
<1>9. /\ entries[call.cs] \in ChangeSetEntry
      /\ e \in ChangeSetEntry /\ e.operations = Append(entries[call.cs].operations, entry)
      /\ e.status = entries[call.cs].status /\ e.preimages = entries[call.cs].preimages
      /\ e.postimages = entries[call.cs].postimages
    <2>1. entries[call.cs] \in ChangeSetEntry
        BY <1>0, <1>2, EntriesForm DEF JournalFits
    <2> QED
        BY <1>4, <1>8, <2>1, WithOperation
<1>10. Journalled(entries[call.cs]) \subseteq Journalled(e)
    <2>1. /\ Len(e.operations) >= Len(entries[call.cs].operations)
          /\ \A i \in DOMAIN entries[call.cs].operations :
                e.operations[i] = entries[call.cs].operations[i]
        <3> DEFINE log == entries[call.cs].operations
        <3>1. log \in Seq(OperationEntry) /\ e.operations = Append(log, entry)
            BY <1>9, EntryParts
        <3> HIDE DEF log
        <3>2. Len(e.operations) >= Len(log) /\ \A i \in DOMAIN log : e.operations[i] = log[i]
            BY <1>4, <3>1, OneMore
        <3> QED
            BY <3>2 DEF log
    <2> QED
        BY <1>9, <2>1, NamesStay
<1>11. JournalStep(e) /\ (ok => file' = entries')
    BY <1>0, <1>1, <1>2, <1>6, <1>7, <1>8, <1>9, <1>10, UpdateStep DEF AddOperation
<1>12. JournalTypeOK' /\ entries'[call.cs] = e /\ OnlyOne' /\ Behind'
    BY <1>0, <1>11, JournalStepEntries
<1>13. EffectsAreJournalled' /\ DiffersWhereCome'
    BY <1>0, <1>11, JournalStepKeeps
<1>14. PreimagesFit'
    BY <1>0, <1>9, <1>11, JournalStepPreimages
<1>15. CompletedAtEnd' /\ CompletedMatchesTree'
    <2>1. entries[call.cs].status # "completed"
        BY <1>0, <1>2, NothingCompleted DEF IInv, JournalFits
    <2> QED
        BY <1>0, <1>2, <1>9, <1>11, <2>1, JournalStepStatus DEF IInv
<1>16. Types'
    BY <1>0, <1>1, <1>6, <1>12, OutcomeForm DEF Types
<1>17. CASE ~ok
    <2>1. CallFits' /\ TreeFits' /\ JournalFits' /\ PostimagesFit' /\ OnlyOperations'
        BY <1>0, <1>1, <1>2, <1>5, <1>6, <1>12, <1>17, OutOfOperation
    <2> QED
        BY <1>13, <1>14, <1>15, <1>16, <2>1 DEF IInv, Before
<1>18. CASE ok
    <2>1. /\ call'.pc = "preimage" /\ Busy' /\ InOperation' /\ ~At("next")' /\ ~At("perform")'
          /\ ~At("write")' /\ ~At("idle")' /\ ~At("refused")' /\ ~At("begin")'
          /\ ~At("fail")' /\ ~At("completed")' /\ ~At("postimage")'
        BY <1>5, <1>6, <1>18 DEF Busy, InOperation, At
    <2>2. CallFits'
        BY <1>0, <1>1, <1>2, <1>6, <2>1 DEF CallFits
    <2>3. TreeFits'
        BY <1>0, <1>1, <2>1 DEF TreeFits
    <2>4. Logged(e.operations, call.ops, call.idx)
        <3> DEFINE log == entries[call.cs].operations
        <3>1. /\ log \in Seq(OperationEntry) /\ Len(log) = call.idx - 1
              /\ \A i \in 1 .. call.idx - 1 : log[i].path = ResultPath(call.ops[i])
            BY <1>0, <1>1, <1>2, <1>9, EntryParts DEF JournalFits, Logged
        <3> HIDE DEF log
        <3>2. e.operations = Append(log, entry)
            BY <1>9 DEF log
        <3>3. Len(e.operations) = call.idx
            BY <1>2, <1>4, <3>1, <3>2
        <3>4. ASSUME NEW i \in 1 .. call.idx PROVE e.operations[i].path = ResultPath(call.ops[i])
            <4>1. CASE i = call.idx
                <5>1. e.operations[i] = entry
                    BY <1>2, <1>4, <3>1, <3>2, <4>1
                <5> QED
                    BY <1>4, <4>1, <5>1 DEF Op
            <4>2. CASE i # call.idx
                <5>1. i \in 1 .. call.idx - 1
                    BY <1>2, <4>2
                <5>2. e.operations[i] = log[i]
                    BY <1>2, <1>4, <3>1, <3>2, <5>1
                <5> QED
                    BY <3>1, <5>1, <5>2
            <4> QED
                BY <4>1, <4>2
        <3> QED
            BY <3>3, <3>4 DEF Logged
    <2>5. JournalFits'
        <3>1. e # NoEntry
            BY <1>9, EngineNulls
        <3> QED
            BY <1>6, <1>11, <1>12, <1>18, <2>1, <2>4, <3>1 DEF JournalFits
    <2>6. PostimagesFit'
        <3>1. ASSUME NEW i \in DOMAIN call.ops, LastSoFar(i)' PROVE LastSoFar(i)
            BY <1>1, <1>6, <2>1, <3>1 DEF LastSoFar, At
        <3> QED
            BY <1>0, <1>1, <1>2, <1>6, <1>9, <1>12, <3>1 DEF PostimagesFit
    <2>7. OnlyOperations'
        BY <1>0, <1>1, <1>2, <1>6, <2>1 DEF OnlyOperations, At
    <2> QED
        BY <1>13, <1>14, <1>15, <1>16, <2>2, <2>3, <2>5, <2>6, <2>7 DEF IInv, Before
<1> QED
    BY <1>17, <1>18

\* Without a difference the hash of the file is the hash without Apply.
LEMMA SameHash ==
    ASSUME NEW t \in Tree, NEW b \in Tree, NEW p \in TreePaths,
           t[p] # b[p] => ~IsFile(t, p) /\ ~IsFile(b, p)
    PROVE  HashOf(t, p) = HashOf(b, p)
BY DEF HashOf, IsFile

\* SetPreimage: Apply comes to the paths of the operation with the hash that
\* the file has in the tree, which nobody but the editor changed yet.
LEMMA JournalPreimageStep ==
    ASSUME IInv, NEW ok \in BOOLEAN, JournalPreimage(ok) PROVE IInv'
<1> DEFINE pc == IF ok THEN "perform" ELSE "fail"
<1>a. PICK at : at = PrePath(Op)
    OBVIOUS
<1>b. PICK hash : hash = HashOf(tree, at)
    OBVIOUS
<1>0. Types /\ CallFits /\ TreeFits /\ JournalFits /\ PostimagesFit /\ OnlyOperations /\ Before
    BY DEF IInv, Before
<1>1. /\ At("preimage") /\ Hashable(tree, at)
      /\ SetPreimage(call.cs, at, hash, ok) /\ Outcome(ok) /\ Goto(pc)
      /\ UNCHANGED <<tree, edits, history>>
    BY <1>a, <1>b DEF JournalPreimage, GoOn
<1>2. InOperation /\ Busy /\ ~Settled /\ call.pc \notin {"idle", "refused"}
    BY <1>1 DEF Busy, InOperation, At, Settled
<1>3. /\ Op \in Operation /\ Passes(Op) /\ Op = call.ops[call.idx] /\ call.cs \in ChangeSets
      /\ call.idx \in Nat /\ call.idx \in DOMAIN call.ops /\ call.idx >= 1
    BY <1>0, <1>2, OpForm DEF CallFits
<1>4. at \in TreePaths /\ at \in Touches(Op)
    BY <1>a, <1>3, PassedPaths
<1>5. tree \in Tree /\ hash \in Seq(Texts) \cup {Missing} /\ hash # NoHash
    BY <1>b, <1>0, <1>4, HashForm DEF Types
<1>6. pc \in Pcs /\ pc \in {"perform", "fail"} /\ (pc = "perform" <=> ok)
    BY DEF Pcs
<1> HIDE DEF pc
<1>7. /\ call' \in CallRecord /\ call'.pc = pc /\ call'.cs = call.cs
      /\ call'.ops = call.ops /\ call'.idx = call.idx
    BY <1>0, <1>1, <1>6, GotoForm
<1>8. ComesOn
    BY <1>1, <1>3, <1>7 DEF ComesOn, Early, At
<1>9. PICK e : e = [entries[call.cs] EXCEPT !.preimages[at] = hash]
    OBVIOUS
<1>10. entries[call.cs] # NoEntry /\ entries[call.cs] \in ChangeSetEntry
    BY <1>0, <1>2, <1>3, EntriesForm DEF JournalFits
<1>11. /\ e \in ChangeSetEntry /\ e.operations = entries[call.cs].operations
       /\ e.status = entries[call.cs].status /\ e.postimages = entries[call.cs].postimages
       /\ e.preimages[at] = hash
       /\ \A q \in TreePaths \ {at} : e.preimages[q] = entries[call.cs].preimages[q]
    <2>1. e = PreimageStored(entries[call.cs], at, hash)
        BY <1>9 DEF PreimageStored
    <2> QED
        BY <1>4, <1>5, <1>10, <2>1, WithPreimage
<1>12. Journalled(entries[call.cs]) \subseteq Journalled(e)
    <2>1. \A q \in TreePaths : entries[call.cs].preimages[q] # NoHash => e.preimages[q] # NoHash
        BY <1>5, <1>11
    <2>2. Len(e.operations) >= Len(entries[call.cs].operations)
        BY <1>10, <1>11, EntryParts
    <2> QED
        BY <1>10, <1>11, <2>1, <2>2, NamesStay
<1>13. JournalStep(e) /\ (ok => file' = entries')
    BY <1>0, <1>1, <1>3, <1>7, <1>8, <1>9, <1>11, <1>12, UpdateStep DEF SetPreimage
<1>14. JournalTypeOK' /\ entries'[call.cs] = e /\ OnlyOne' /\ Behind'
    BY <1>0, <1>13, JournalStepEntries
<1>15. EffectsAreJournalled' /\ DiffersWhereCome'
    BY <1>0, <1>13, JournalStepKeeps
\* If no other operation touches the path, Apply had not come to it.
<1>16. PreimageFits(hash, at)'
    <2>1. ComeTo(at)'
        <3>1. /\ call'.idx \in 1 .. Len(call'.ops) /\ ~Early(call'.pc)
              /\ at \in Touches(call'.ops[call'.idx])
            BY <1>0, <1>3, <1>4, <1>6, <1>7, OpsForm DEF Early
        <3> QED
            BY <1>4, <3>1 DEF ComeTo, Early
    <2>2. ASSUME at \notin history.late, Alone(at) PROVE hash = HashOf(history.before, at)
        <3>1. ~ComeTo(at)
            <4>1. ASSUME NEW i \in 1 .. Len(call.ops), i < call.idx, at \in Touches(call.ops[i])
                  PROVE  FALSE
                <5>1. i \in TouchedBy(at) /\ call.idx \in TouchedBy(at)
                    BY <1>0, <1>3, <1>4, <4>1, OpsForm DEF TouchedBy
                <5> QED
                    BY <1>3, <2>2, <4>1, <5>1 DEF Alone
            <4> QED
                BY <1>1, <4>1 DEF ComeTo, At
        <3>2. ~Differs(at)
            BY <1>0, <1>4, <2>2, <3>1 DEF Before, DiffersWhereCome
        <3> QED
            BY <1>b, <1>0, <1>4, <1>5, <3>2, SameHash, HistoryForm DEF Differs
    <2>3. Alone(at)' => Alone(at)
        BY <1>8, AloneStays
    <2>4. history' = history
        BY <1>1
    <2> QED
        BY <2>1, <2>2, <2>3, <2>4 DEF PreimageFits
<1>17. PreimagesFit'
    <2>1. ASSUME NEW q \in TreePaths
          PROVE  \/ e.preimages[q] = entries[call.cs].preimages[q]
                 \/ PreimageFits(entries[call.cs].preimages[q], q)'
        <3>1. CASE q = at
            BY <1>7, <1>11, <1>14, <1>16, <3>1 DEF PreimageFits
        <3>2. CASE q # at
            BY <1>11, <3>2
        <3> QED
            BY <3>1, <3>2
    <2> QED
        BY <1>0, <1>13, <2>1, JournalStepPreimages
<1>18. CompletedAtEnd' /\ CompletedMatchesTree'
    <2>1. entries[call.cs].status # "completed"
        BY <1>2, <1>3, <1>10, NothingCompleted DEF IInv
    <2> QED
        BY <1>0, <1>2, <1>11, <1>13, <2>1, JournalStepStatus DEF IInv
<1>19. Types'
    BY <1>0, <1>1, <1>7, <1>14, OutcomeForm DEF Types
<1>20. CASE ~ok
    <2>1. CallFits' /\ TreeFits' /\ JournalFits' /\ PostimagesFit' /\ OnlyOperations'
        BY <1>0, <1>1, <1>2, <1>3, <1>6, <1>7, <1>14, <1>20, OutOfOperation
    <2> QED
        BY <1>15, <1>17, <1>18, <1>19, <2>1 DEF IInv, Before
<1>21. CASE ok
    <2>1. /\ call'.pc = "perform" /\ Busy' /\ InOperation' /\ ~At("next")' /\ At("perform")'
          /\ ~At("write")' /\ ~At("idle")' /\ ~At("refused")' /\ ~At("begin")'
          /\ ~At("fail")' /\ ~At("completed")' /\ ~At("postimage")'
        BY <1>6, <1>7, <1>21 DEF Busy, InOperation, At
    <2>2. CallFits'
        BY <1>0, <1>1, <1>2, <1>3, <1>7, <2>1 DEF CallFits
    <2>3. Op' = Op
        BY <1>7 DEF Op
    <2>4. TreeFits'
        BY <1>a, <1>0, <1>1, <2>1, <2>3 DEF TreeFits, Hashable
    <2>5. JournalFits'
        <3>1. e # NoEntry
            BY <1>11, EngineNulls
        <3>2. Logged(e.operations, call.ops, call.idx)
            BY <1>0, <1>1, <1>2, <1>11 DEF JournalFits, At
        <3>3. e.preimages[PrePath(Op)] # NoHash
            BY <1>a, <1>5, <1>11
        <3> QED
            BY <1>7, <1>13, <1>14, <1>21, <2>1, <2>3, <3>1, <3>2, <3>3 DEF JournalFits
    <2>6. PostimagesFit'
        <3>1. ASSUME NEW i \in DOMAIN call.ops, LastSoFar(i)' PROVE LastSoFar(i)
            BY <1>1, <1>7, <2>1, <3>1 DEF LastSoFar, At
        <3> QED
            BY <1>0, <1>1, <1>2, <1>7, <1>11, <1>14, <3>1 DEF PostimagesFit
    <2>7. OnlyOperations'
        BY <1>0, <1>1, <1>2, <1>7, <2>1 DEF OnlyOperations, At
    <2> QED
        BY <1>15, <1>17, <1>18, <1>19, <2>2, <2>4, <2>5, <2>6, <2>7 DEF IInv, Before
<1> QED
    BY <1>20, <1>21

\* SetPostimage: the operation is done, and its result is in the tree.
LEMMA JournalPostimageStep ==
    ASSUME IInv, NEW ok \in BOOLEAN, JournalPostimage(ok) PROVE IInv'
<1>a. PICK at : at = PostHashPath
    OBVIOUS
<1>b. PICK hash : hash = HashOf(tree, at)
    OBVIOUS
<1>0. Types /\ CallFits /\ TreeFits /\ JournalFits /\ PostimagesFit /\ OnlyOperations /\ Before
    BY DEF IInv, Before
<1>1. /\ At("postimage")
      /\ SetPostimage(call.cs, at, hash, ok) /\ Outcome(ok)
      /\ call' = [call EXCEPT !.pc = IF ok THEN "next" ELSE "fail",
                              !.idx = IF ok THEN @ + 1 ELSE @]
      /\ UNCHANGED <<tree, edits, history>>
    BY <1>a, <1>b DEF JournalPostimage
<1>2. InOperation /\ Busy /\ ~Settled /\ call.pc \notin {"idle", "refused"}
    BY <1>1 DEF Busy, InOperation, At, Settled
<1>3. /\ Op \in Operation /\ Passes(Op) /\ Op = call.ops[call.idx] /\ call.cs \in ChangeSets
      /\ call.idx \in Nat /\ call.idx \in DOMAIN call.ops /\ call.idx >= 1
    BY <1>0, <1>2, OpForm DEF CallFits
<1>4. at \in TreePaths /\ at \in Touches(Op) /\ at = ResultPath(Op)
    BY <1>a, <1>3, PassedPaths, RenamesOnAnyTree DEF PostHashPath
<1>5. tree \in Tree /\ hash \in Seq(Texts) \cup {Missing}
    BY <1>b, <1>0, <1>4, HashForm DEF Types
<1>6. /\ call' \in CallRecord /\ call'.cs = call.cs /\ call'.ops = call.ops
      /\ ok => call'.pc = "next" /\ call'.idx = call.idx + 1
      /\ ~ok => call'.pc = "fail" /\ call'.idx = call.idx
    <2>1. call \in CallRecord
        BY <1>0 DEF Types
    <2>2. call.idx + 1 \in Nat
        BY <1>3
    <2>3. CASE ok
        <3>1. call' = [call EXCEPT !.pc = "next", !.idx = call.idx + 1]
            BY <1>1, <2>3
        <3> QED
            BY <2>1, <2>2, <2>3, <3>1 DEF CallRecord, Pcs
    <2>4. CASE ~ok
        <3>1. call' = [call EXCEPT !.pc = "fail", !.idx = call.idx]
            BY <1>1, <2>4
        <3> QED
            BY <2>1, <2>4, <3>1 DEF CallRecord, Pcs
    <2> QED
        BY <2>3, <2>4
<1>7. call'.pc \in {"next", "fail"} /\ (call'.pc = "next" => call'.idx > call.idx)
      /\ (call'.pc = "fail" => call'.idx = call.idx) /\ call'.idx \in Nat
    BY <1>3, <1>6
<1>8. ComesOn
    BY <1>3, <1>6, <1>7 DEF ComesOn, Early
<1>9. PICK e : e = [entries[call.cs] EXCEPT !.postimages[at] = hash]
    OBVIOUS
<1>10. entries[call.cs] # NoEntry /\ entries[call.cs] \in ChangeSetEntry
    BY <1>0, <1>2, <1>3, EntriesForm DEF JournalFits
<1>11. /\ e \in ChangeSetEntry /\ e.operations = entries[call.cs].operations
       /\ e.status = entries[call.cs].status /\ e.preimages = entries[call.cs].preimages
       /\ e.postimages[at] = hash
       /\ \A q \in TreePaths \ {at} : e.postimages[q] = entries[call.cs].postimages[q]
    <2>1. e = PostimageStored(entries[call.cs], at, hash)
        BY <1>9 DEF PostimageStored
    <2> QED
        BY <1>4, <1>5, <1>10, <2>1, WithPostimage
<1>12. Journalled(entries[call.cs]) \subseteq Journalled(e)
    BY <1>11 DEF Journalled
<1>13. JournalStep(e) /\ (ok => file' = entries')
    BY <1>0, <1>1, <1>3, <1>6, <1>8, <1>9, <1>11, <1>12, UpdateStep DEF SetPostimage
<1>14. JournalTypeOK' /\ entries'[call.cs] = e /\ OnlyOne' /\ Behind'
    BY <1>0, <1>13, JournalStepEntries
<1>15. EffectsAreJournalled' /\ DiffersWhereCome'
    BY <1>0, <1>13, JournalStepKeeps
<1>16. PreimagesFit'
    BY <1>0, <1>11, <1>13, JournalStepPreimages
<1>17. CompletedAtEnd' /\ CompletedMatchesTree'
    <2>1. entries[call.cs].status # "completed"
        BY <1>2, <1>3, <1>10, NothingCompleted DEF IInv
    <2> QED
        BY <1>0, <1>2, <1>11, <1>13, <2>1, JournalStepStatus DEF IInv
<1>18. Types'
    BY <1>0, <1>1, <1>6, <1>14, OutcomeForm DEF Types
<1>19. CASE ~ok
    <2>1. CallFits' /\ TreeFits' /\ JournalFits' /\ PostimagesFit' /\ OnlyOperations'
        BY <1>0, <1>1, <1>2, <1>3, <1>6, <1>14, <1>19, OutOfOperation
    <2> QED
        BY <1>15, <1>16, <1>17, <1>18, <2>1 DEF IInv, Before
<1>20. CASE ok
    <2>1. /\ call'.pc = "next" /\ Busy' /\ ~InOperation' /\ At("next")' /\ ~At("perform")'
          /\ ~At("write")' /\ ~At("idle")' /\ ~At("refused")' /\ ~At("begin")'
          /\ ~At("fail")' /\ ~At("completed")' /\ ~At("postimage")'
          /\ call'.idx = call.idx + 1
        BY <1>6, <1>20 DEF Busy, InOperation, At
    <2>2. CallFits'
        <3>1. call'.idx <= Len(call.ops) + 1 /\ call'.idx >= 1
            BY <1>0, <1>3, <2>1, OpsForm
        <3>2. call.cs # NoEntry
            BY <1>3, EngineNulls
        <3> QED
            BY <1>0, <1>2, <1>3, <1>6, <2>1, <3>1, <3>2 DEF CallFits
    <2>3. TreeFits'
        BY <1>0, <1>1, <2>1 DEF TreeFits
    <2>4. JournalFits'
        <3>1. e # NoEntry
            BY <1>11, EngineNulls
        <3>2. Logged(e.operations, call.ops, call.idx)
            BY <1>0, <1>1, <1>2, <1>11 DEF JournalFits, At
        <3>3. call'.idx - 1 = call.idx
            BY <1>3, <2>1
        <3> QED
            BY <1>6, <1>13, <1>14, <1>20, <2>1, <3>1, <3>2, <3>3 DEF JournalFits
    <2>5. PostimagesFit'
        <3>1. ASSUME NEW i \in DOMAIN call.ops, LastSoFar(i)',
                     ResultPath(call.ops[i]) \notin history.late
              PROVE  e.postimages[ResultPath(call.ops[i])] = HashOf(tree, ResultPath(call.ops[i]))
            <4>1. i \in Nat /\ i < call.idx + 1
                BY <1>0, <2>1, <3>1, OpsForm DEF LastSoFar
            <4>2. CASE i = call.idx
                BY <1>b, <1>3, <1>4, <1>11, <4>2
            <4>3. CASE i < call.idx
                <5>1. ASSUME NEW j \in DOMAIN call.ops, j > i, j < call.idx \/ j = call.idx
                      PROVE  ResultPath(call.ops[i]) \notin Touches(call.ops[j])
                    <6>1. j < call'.idx
                        BY <1>0, <1>3, <2>1, <5>1, OpsForm
                    <6> QED
                        BY <1>6, <3>1, <5>1, <6>1 DEF LastSoFar
                <5>2. LastSoFar(i)
                    BY <4>3, <5>1 DEF LastSoFar
                <5>3. ResultPath(call.ops[i]) # at
                    BY <1>3, <1>4, <4>3, <5>1
                <5>4. call.ops[i] \in Operation /\ Passes(call.ops[i])
                    BY <1>0, <1>2, OpsForm DEF CallFits
                <5>5. ResultPath(call.ops[i]) \in TreePaths
                    BY <5>4, PassedPaths
                <5> QED
                    BY <1>0, <1>2, <1>11, <3>1, <5>2, <5>3, <5>5 DEF PostimagesFit
            <4> QED
                BY <1>3, <4>1, <4>2, <4>3
        <3> QED
            BY <1>1, <1>6, <1>14, <3>1 DEF PostimagesFit
    <2>6. OnlyOperations'
        <3>1. call'.idx - 1 = call.idx
            BY <1>3, <2>1
        <3> QED
            BY <1>0, <1>1, <1>2, <1>6, <2>1, <3>1 DEF OnlyOperations
    <2> QED
        BY <1>15, <1>16, <1>17, <1>18, <2>2, <2>3, <2>4, <2>5, <2>6 DEF IInv, Before
<1> QED
    BY <1>19, <1>20

\* MarkFailed.
LEMMA FailApplyStep ==
    ASSUME IInv, NEW ok \in BOOLEAN, FailApply(ok) PROVE IInv'
<1>0. Types /\ CallFits /\ TreeFits /\ JournalFits /\ PostimagesFit /\ OnlyOperations /\ Before
    BY DEF IInv, Before
<1>1. /\ At("fail") /\ Settle(call.cs, "failed", ok) /\ Outcome(ok) /\ Goto("failed")
      /\ UNCHANGED <<tree, edits, history>>
    BY DEF FailApply, MarkFailed
<1>2. /\ ~Settled /\ call.pc \notin {"idle", "refused"} /\ call.cs \in ChangeSets
      /\ call.idx \in Nat
    BY <1>0, <1>1 DEF At, Settled, CallFits, Types, CallRecord
<1>3. /\ call' \in CallRecord /\ call'.pc = "failed" /\ call'.cs = call.cs
      /\ call'.ops = call.ops /\ call'.idx = call.idx
    BY <1>0, <1>1, GotoForm DEF Pcs
<1>4. ComesOn
    BY <1>2, <1>3 DEF ComesOn, Early
<1>5. PICK e : e = [entries[call.cs] EXCEPT !.status = "failed"]
    OBVIOUS
<1>6. "failed" \in Status
    BY DEF Status
<1>7. entries[call.cs] \in ChangeSetEntry
      => /\ e \in ChangeSetEntry /\ e.operations = entries[call.cs].operations
         /\ e.status = "failed" /\ e.preimages = entries[call.cs].preimages
    BY <1>5, <1>6, WithStatus
<1>8. entries[call.cs] \in ChangeSetEntry => Journalled(entries[call.cs]) \subseteq Journalled(e)
    BY <1>7 DEF Journalled
<1>9. JournalStep(e)
    BY <1>0, <1>1, <1>2, <1>3, <1>4, <1>5, <1>7, <1>8, UpdateStep DEF Settle
<1>10. entries[call.cs] \in ChangeSetEntry
    BY <1>0, <1>9, EntriesForm DEF JournalStep
<1>11. JournalTypeOK' /\ OnlyOne' /\ Behind'
    BY <1>0, <1>9, JournalStepEntries
<1>12. EffectsAreJournalled' /\ DiffersWhereCome'
    BY <1>0, <1>9, JournalStepKeeps
<1>13. PreimagesFit'
    BY <1>0, <1>7, <1>9, <1>10, JournalStepPreimages
<1>14. CompletedAtEnd' /\ CompletedMatchesTree'
    BY <1>0, <1>2, <1>7, <1>9, <1>10, JournalStepStatus DEF IInv
<1>15. Types'
    BY <1>0, <1>1, <1>3, <1>11, OutcomeForm DEF Types
<1>16. CallFits' /\ TreeFits' /\ JournalFits' /\ PostimagesFit' /\ OnlyOperations'
    BY <1>0, <1>1, <1>2, <1>3, <1>11, OutOfOperation
<1> QED
    BY <1>12, <1>13, <1>14, <1>15, <1>16 DEF IInv, Before

\* Complete, and what it completes.
LEMMA CompleteApplyStep ==
    ASSUME IInv, NEW ok \in BOOLEAN, CompleteApply(ok) PROVE IInv'
<1> DEFINE pc == IF ok THEN "completed" ELSE "failed"
<1>0. Types /\ CallFits /\ TreeFits /\ JournalFits /\ PostimagesFit /\ OnlyOperations /\ Before
    BY DEF IInv, Before
<1>1. /\ At("next") /\ call.idx > Len(call.ops)
      /\ Settle(call.cs, "completed", ok) /\ Outcome(ok) /\ Goto(pc)
      /\ UNCHANGED <<tree, edits, history>>
    BY DEF CompleteApply, Complete
<1>2. /\ ~Settled /\ Busy /\ call.pc \notin {"idle", "refused"} /\ call.cs \in ChangeSets
      /\ call.idx \in Nat /\ call.idx >= 1 /\ call.idx - 1 = Len(call.ops)
    BY <1>0, <1>1, OpsForm DEF At, Settled, Busy, CallFits, Types, CallRecord
<1>3. pc \in Pcs /\ pc \in {"completed", "failed"} /\ (pc = "completed" <=> ok)
    BY DEF Pcs
<1> HIDE DEF pc
<1>4. /\ call' \in CallRecord /\ call'.pc = pc /\ call'.cs = call.cs
      /\ call'.ops = call.ops /\ call'.idx = call.idx
    BY <1>0, <1>1, <1>3, GotoForm
<1>5. ComesOn
    BY <1>2, <1>3, <1>4 DEF ComesOn, Early
<1>6. PICK e : e = [entries[call.cs] EXCEPT !.status = "completed"]
    OBVIOUS
<1>7. entries[call.cs] # NoEntry /\ entries[call.cs] \in ChangeSetEntry
    BY <1>0, <1>2, EntriesForm DEF JournalFits
<1>8. /\ e \in ChangeSetEntry /\ e.operations = entries[call.cs].operations
      /\ e.preimages = entries[call.cs].preimages /\ e.postimages = entries[call.cs].postimages
    <2>1. "completed" \in Status
        BY DEF Status
    <2> QED
        BY <1>6, <1>7, <2>1, WithStatus
<1>9. Journalled(entries[call.cs]) \subseteq Journalled(e)
    BY <1>8 DEF Journalled
<1>10. JournalStep(e)
    BY <1>0, <1>1, <1>2, <1>4, <1>5, <1>6, <1>8, <1>9, UpdateStep DEF Settle
<1>11. /\ JournalTypeOK' /\ entries'[call.cs] = e /\ OnlyOne' /\ Behind'
       /\ \A cs \in ChangeSets : file'[cs] = entries'[cs] \/ file'[cs] = file[cs]
    BY <1>0, <1>10, JournalStepEntries
<1>12. EffectsAreJournalled' /\ DiffersWhereCome'
    BY <1>0, <1>10, JournalStepKeeps
<1>13. PreimagesFit'
    BY <1>0, <1>8, <1>10, JournalStepPreimages
<1>14. Types'
    BY <1>0, <1>1, <1>4, <1>11, OutcomeForm DEF Types
<1>15. CallFits' /\ TreeFits' /\ JournalFits' /\ PostimagesFit' /\ OnlyOperations'
    BY <1>0, <1>1, <1>2, <1>3, <1>4, <1>11, OutOfOperation
<1>16. CompletedAtEnd'
    BY <1>3, <1>4 DEF CompletedAtEnd, Settled, At
<1>17. Logged(e.operations, call.ops, Len(call.ops))
    BY <1>0, <1>1, <1>2, <1>8 DEF JournalFits
<1>18. ASSUME NEW i \in DOMAIN call.ops
       PROVE  /\ call.ops[i] \in Operation /\ Passes(call.ops[i])
              /\ e.operations[i].path = ResultPath(call.ops[i])
              /\ i \in DOMAIN e.operations
              /\ ResultPath(call.ops[i]) \in Touches(call.ops[i])
    <2>1. call.ops[i] \in Operation /\ Passes(call.ops[i]) /\ i \in 1 .. Len(call.ops)
        BY <1>0, <1>2, OpsForm DEF CallFits
    <2>2. DOMAIN e.operations = 1 .. Len(e.operations)
        BY <1>8, EntryParts
    <2> QED
        BY <1>17, <2>1, <2>2, PassedPaths DEF Logged
<1>19. ASSUME NEW p \in TreePaths \ history.late, Result(p)'
       PROVE  e.postimages[p] = HashOf(tree, p) /\ p \in Journalled(e)
    <2>1. TouchedBy(p)' = TouchedBy(p)
        BY <1>4 DEF TouchedBy
    <2>2. TouchedBy(p) \in SUBSET (0 .. Len(call.ops)) /\ Len(call.ops) \in Nat
          /\ TouchedBy(p) \subseteq DOMAIN call.ops
        BY <1>0, OpsForm DEF TouchedBy
    <2>3. TouchedBy(p) # {}
        BY <1>19, <2>1 DEF Result
    <2>4. PICK m \in TouchedBy(p) : m = Max(TouchedBy(p)) /\ \A k \in TouchedBy(p) : k <= m
        BY <2>2, <2>3, MaxOf
    <2>5. m \in DOMAIN call.ops /\ m \in Nat /\ m <= Len(call.ops)
        BY <2>2, <2>4
    <2>6. p = ResultPath(call.ops[m])
        <3>1. p = PostPath(tree', call'.ops[Max(TouchedBy(p)')])
            BY <1>19 DEF Result
        <3>2. p = PostPath(tree, call.ops[m])
            BY <1>1, <1>4, <2>1, <2>4, <3>1
        <3> QED
            BY <1>18, <2>5, <3>2, RenamesOnAnyTree
    <2>7. LastSoFar(m)
        <3>1. m < call.idx
            BY <1>2, <2>2, <2>5
        <3>2. ASSUME NEW j \in DOMAIN call.ops, j > m, p \in Touches(call.ops[j]) PROVE FALSE
            <4>1. j \in TouchedBy(p) /\ j \in Nat
                BY <1>0, <3>2, OpsForm DEF TouchedBy
            <4> QED
                BY <2>4, <2>5, <3>2, <4>1
        <3> QED
            BY <2>6, <3>1, <3>2 DEF LastSoFar
    <2>8. entries[call.cs].postimages[p] = HashOf(tree, p)
        BY <1>0, <1>2, <2>5, <2>6, <2>7 DEF PostimagesFit
    <2>9. p \in Journalled(e)
        <3>1. p = e.operations[m].path /\ m \in DOMAIN e.operations
            BY <1>18, <2>5, <2>6
        <3> QED
            BY <3>1 DEF Journalled
    <2> QED
        BY <1>8, <2>8, <2>9
<1>20. ASSUME NEW image \in {entries', file'}, NEW cs \in ChangeSets, image[cs] # NoEntry,
              image[cs].status = "completed"
       PROVE  image[cs] = e
    <2>1. cs = call.cs
        BY <1>4, <1>11, <1>20 DEF OnlyOne
    <2>2. file[cs] # NoEntry => file[cs].status # "completed"
        BY <1>2, NothingCompleted DEF IInv
    <2> QED
        BY <1>11, <1>20, <2>1, <2>2
<1>21. CompletedMatchesTree'
    <2>1. Len(e.operations) = Len(call.ops)
        BY <1>17 DEF Logged
    <2>2. ASSUME NEW image \in {entries', file'}, NEW cs \in ChangeSets, image[cs] # NoEntry,
                 image[cs].status = "completed"
          PROVE  /\ Len(image[cs].operations) = Len(call'.ops)
                 /\ \A i \in DOMAIN call'.ops :
                        image[cs].operations[i].path = PostPath(tree', call'.ops[i])
                 /\ \A p \in TreePaths \ history'.late :
                        Result(p)' => /\ image[cs].postimages[p] = HashOf(tree', p)
                                      /\ p \in Journalled(image[cs])
        <3>1. image[cs] = e
            BY <1>20, <2>2
        <3>2. call'.ops = call.ops /\ tree' = tree /\ history' = history
            BY <1>1, <1>4
        <3>3. \A i \in DOMAIN call.ops : e.operations[i].path = PostPath(tree, call.ops[i])
            BY <1>18, RenamesOnAnyTree
        <3> QED
            BY <1>19, <2>1, <3>1, <3>2, <3>3
    <2> QED
        BY <2>2 DEF CompletedMatchesTree
<1> QED
    BY <1>12, <1>13, <1>14, <1>15, <1>16, <1>21 DEF IInv, Before

----------------------------------------------------------------------------
(***************************************************************************)
(* Before the change set there is nothing in the journal and no difference *)
(* in the tree.                                                            *)
(***************************************************************************)
LEMMA NothingYet ==
    ASSUME IInv, call.cs = NoEntry
    PROVE  /\ \A cs \in ChangeSets : entries[cs] = NoEntry /\ file[cs] = NoEntry
           /\ tree = history.before
BY EngineNulls DEF IInv, Before, JournalFits, OnlyOne, CallFits

\* Without a difference the properties about differences hold.
LEMMA NoDifference ==
    ASSUME tree' = history'.before
    PROVE  EffectsAreJournalled' /\ DiffersWhereCome'
BY DEF EffectsAreJournalled, DiffersWhereCome, Differs

\* Apply before it is called.
LEMMA NotCalledForm ==
    NotCalled \in CallRecord /\ NotCalled.cs = NoEntry /\ NotCalled.idx = 0 /\ NotCalled.pc = "idle"
<1>1. <<>> \in Seq(Texts) /\ "" \in CallActions
    BY DEF CallActions
<1>2. "idle" \in Pcs
    BY DEF Pcs
<1> QED
    BY <1>1, <1>2 DEF NotCalled, CallRecord

\* Apply starts with a proposal that passes preflight.
LEMMA SubmitStep ==
    ASSUME IInv, NEW ops \in Proposals, Submit(ops) PROVE IInv'
<1> DEFINE pc == IF PreflightOK(tree, ops) THEN "begin" ELSE "refused"
<1>0. Types /\ CallFits /\ TreeFits /\ JournalFits /\ PostimagesFit /\ OnlyOperations /\ Before
    BY DEF IInv, Before
<1>1. /\ At("idle") /\ call' = [NotCalled EXCEPT !.pc = pc, !.ops = ops]
      /\ UNCHANGED <<entries, file, tree, faults, edits, history>>
    BY DEF Submit
<1>2. call.cs = NoEntry /\ call.idx = 0
    BY <1>0, <1>1 DEF CallFits
<1>3. /\ \A cs \in ChangeSets : entries[cs] = NoEntry /\ file[cs] = NoEntry
      /\ tree = history.before
    BY <1>2, NothingYet
<1>4. pc \in Pcs /\ pc \in {"begin", "refused"} /\ (pc = "begin" => PreflightOK(tree, ops))
    BY DEF Pcs
<1> HIDE DEF pc
<1>5. /\ call' \in CallRecord /\ call'.pc = pc /\ call'.ops = ops /\ call'.cs = NoEntry
      /\ call'.idx = 0
    BY <1>1, <1>4, NotCalledForm DEF CallRecord
<1>6. /\ ~Busy' /\ ~InOperation' /\ ~At("perform")' /\ ~At("write")' /\ ~At("fail")'
      /\ ~At("completed")'
    BY <1>4, <1>5 DEF Busy, InOperation, At
<1>7. Types'
    BY <1>0, <1>1, <1>5 DEF Types, JournalTypeOK
<1>8. ops \in Seq(Operation) /\ Len(ops) \in Nat
    BY EngineProposals
<1>9. CallFits'
    <2>1. ASSUME call'.pc \notin {"idle", "refused"}, NEW i \in DOMAIN ops PROVE Passes(ops[i])
        <3>1. PreflightOperation(tree, ops[i])
            BY <1>4, <1>5, <2>1 DEF PreflightOK
        <3> QED
            BY <1>0, <3>1 DEF Passes, Types
    <2>2. 0 <= Len(ops) + 1
        BY <1>8
    <2> QED
        BY <1>1, <1>3, <1>5, <1>6, <2>1, <2>2 DEF CallFits
<1>10. TreeFits'
    BY <1>0, <1>1, <1>6 DEF TreeFits
<1>11. JournalFits'
    BY <1>1, <1>3, <1>6 DEF JournalFits, OnlyOne, Behind
<1>12. EffectsAreJournalled' /\ DiffersWhereCome'
    BY <1>1, <1>3, NoDifference
<1>13. PreimagesFit' /\ PostimagesFit'
    BY <1>1, <1>3, <1>6 DEF PreimagesFit, PostimagesFit
<1>14. CompletedAtEnd' /\ CompletedMatchesTree'
    BY <1>1, <1>3, StillNotCompleted
<1>15. OnlyOperations'
    BY <1>0, <1>1, <1>3, <1>4, <1>5, <1>6 DEF OnlyOperations
<1> QED
    BY <1>7, <1>9, <1>10, <1>11, <1>12, <1>13, <1>14, <1>15 DEF IInv, Before

\* Begin: the change set is the only one, in memory and on disk.
LEMMA BeginChangeSetStep ==
    ASSUME IInv, NEW cs \in ChangeSets, NEW ok \in BOOLEAN, BeginChangeSet(cs, ok) PROVE IInv'
<1>0. Types /\ CallFits /\ TreeFits /\ JournalFits /\ PostimagesFit /\ OnlyOperations /\ Before
    BY DEF IInv, Before
<1>1. /\ At("begin") /\ Begin(cs, ok) /\ Outcome(ok)
      /\ call' = [call EXCEPT !.pc = IF ok THEN "next" ELSE "failed",
                              !.cs = IF ok THEN cs ELSE NoEntry, !.idx = 1]
      /\ UNCHANGED <<tree, edits, history>>
    BY DEF BeginChangeSet
<1>2. call.cs = NoEntry /\ call.pc \notin {"idle", "refused"}
    BY <1>0, <1>1 DEF CallFits, At
<1>3. /\ \A c \in ChangeSets : entries[c] = NoEntry /\ file[c] = NoEntry
      /\ tree = history.before
    BY <1>2, NothingYet
<1>4. /\ call' \in CallRecord /\ call'.ops = call.ops /\ call'.idx = 1
      /\ ok => call'.pc = "next" /\ call'.cs = cs
      /\ ~ok => call'.pc = "failed" /\ call'.cs = NoEntry
    <2>1. call \in CallRecord
        BY <1>0 DEF Types
    <2>2. CASE ok
        <3>1. call' = [call EXCEPT !.pc = "next", !.cs = cs, !.idx = 1]
            BY <1>1, <2>2
        <3> QED
            BY <2>1, <2>2, <3>1 DEF CallRecord, Pcs
    <2>3. CASE ~ok
        <3>1. call' = [call EXCEPT !.pc = "failed", !.cs = NoEntry, !.idx = 1]
            BY <1>1, <2>3
        <3> QED
            BY <2>1, <2>3, <3>1 DEF CallRecord, Pcs
    <2> QED
        BY <2>2, <2>3
<1>5. /\ JournalTypeOK'
      /\ \A c \in ChangeSets : /\ entries'[c] = IF ok /\ c = cs THEN NewEntry ELSE NoEntry
                               /\ file'[c] = entries'[c]
      /\ ok => file' = entries'
    <2>1. /\ entries \in [ChangeSets -> ChangeSetEntry \cup {NoEntry}]
          /\ file \in [ChangeSets -> ChangeSetEntry \cup {NoEntry}]
        BY <1>0 DEF Types, JournalTypeOK
    <2>2. /\ entries' = IF ok THEN [entries EXCEPT ![cs] = NewEntry] ELSE entries
          /\ file' = IF ok THEN entries' ELSE file
        BY <1>1 DEF Begin, Persist
    <2>3. CASE ok
        <3>1. entries' = [entries EXCEPT ![cs] = NewEntry] /\ file' = entries'
            BY <2>2, <2>3
        <3> QED
            BY <1>3, <2>1, <2>3, <3>1, NewEntryForm DEF JournalTypeOK
    <2>4. CASE ~ok
        BY <1>3, <2>1, <2>2, <2>4 DEF JournalTypeOK
    <2> QED
        BY <2>3, <2>4
<1>6. NewEntry # NoEntry
    BY NewEntryForm, EngineNulls
<1>7. /\ ~InOperation' /\ ~At("perform")' /\ ~At("write")' /\ ~At("postimage")' /\ ~At("fail")'
      /\ ~At("completed")' /\ ~At("idle")' /\ ~At("refused")' /\ ~At("begin")'
      /\ (Busy' <=> ok) /\ (At("next")' <=> ok)
    BY <1>4 DEF Busy, InOperation, At
<1>8. Types'
    BY <1>0, <1>1, <1>4, <1>5, OutcomeForm DEF Types
<1>9. CallFits'
    <2>1. 1 <= Len(call.ops) + 1
        BY <1>0, OpsForm
    <2> QED
        BY <1>0, <1>1, <1>2, <1>3, <1>4, <1>7, <2>1 DEF CallFits
<1>10. TreeFits'
    BY <1>0, <1>1, <1>7 DEF TreeFits
<1>11. JournalFits'
    <2>1. OnlyOne'
        BY <1>4, <1>5 DEF OnlyOne
    <2>2. Behind'
        BY <1>5 DEF Behind
    <2>3. ok => Logged(entries'[call'.cs].operations, call'.ops, call'.idx - 1)
        BY <1>4, <1>5, NewEntryForm DEF Logged
    <2> QED
        BY <1>4, <1>5, <1>6, <1>7, <2>1, <2>2, <2>3 DEF JournalFits
<1>12. EffectsAreJournalled' /\ DiffersWhereCome'
    BY <1>1, <1>3, NoDifference
<1>13. PreimagesFit'
    BY <1>5, NewEntryForm DEF PreimagesFit, PreimageFits
<1>14. PostimagesFit'
    <2>1. ASSUME NEW i \in DOMAIN call.ops, LastSoFar(i)' PROVE FALSE
        <3>1. i < 1 /\ i \in Nat /\ i >= 1
            BY <1>0, <1>4, <2>1, OpsForm DEF LastSoFar
        <3> QED
            BY <3>1
    <2> QED
        BY <1>4, <2>1 DEF PostimagesFit
<1>15. CompletedAtEnd' /\ CompletedMatchesTree'
    BY <1>5, NewEntryForm, StillNotCompleted
<1>16. OnlyOperations'
    <2>1. Changes(history.before, tree, TouchedTo(call.ops, 0))
        BY <1>3 DEF Changes, ChangedAt
    <2>2. call'.idx - 1 = 0
        BY <1>4
    <2> QED
        BY <1>0, <1>1, <1>2, <1>4, <1>7, <2>1, <2>2 DEF OnlyOperations
<1> QED
    BY <1>8, <1>9, <1>10, <1>11, <1>12, <1>13, <1>14, <1>15, <1>16 DEF IInv, Before

----------------------------------------------------------------------------
(***************************************************************************)
(* The steps of Apply that change only its own progress.                   *)
(***************************************************************************)
LEMMA ToFail ==
    ASSUME IInv, Busy, Goto("fail"), UNCHANGED <<entries, file, tree, faults, edits, history>>
    PROVE  IInv'
<1>0. Types /\ CallFits /\ TreeFits /\ JournalFits /\ PostimagesFit /\ OnlyOperations /\ Before
    BY DEF IInv, Before
<1>1. /\ ~Settled /\ call.pc \notin {"idle", "refused"} /\ call.cs \in ChangeSets
      /\ call.idx \in Nat /\ call.idx >= 1
    BY <1>0 DEF At, Busy, InOperation, Settled, CallFits, Types, CallRecord
<1>2. /\ call' \in CallRecord /\ call'.pc = "fail" /\ call'.cs = call.cs
      /\ call'.ops = call.ops /\ call'.idx = call.idx
    BY <1>0, GotoForm DEF Pcs
<1>3. ComesOn
    BY <1>1, <1>2 DEF ComesOn, Early
<1>4. OnlyOne' /\ Behind'
    BY <1>0, <1>2 DEF JournalFits, OnlyOne, Behind, Journalled
<1>5. Types'
    BY <1>0, <1>2 DEF Types, JournalTypeOK
<1>6. CallFits' /\ TreeFits' /\ JournalFits' /\ PostimagesFit' /\ OnlyOperations'
    BY <1>0, <1>1, <1>2, <1>4, OutOfOperation
<1>7. EffectsAreJournalled' /\ DiffersWhereCome' /\ PreimagesFit'
    <2>1. EffectsAreJournalled'
        BY <1>0, <1>2, EffectsStay DEF Before
    <2>2. DiffersWhereCome'
        BY <1>0, <1>3, DifferencesStay DEF Before
    <2>3. PreimagesFit'
        BY <1>0, <1>3, PreimagesStay DEF Before
    <2> QED
        BY <2>1, <2>2, <2>3
<1>8. CompletedAtEnd' /\ CompletedMatchesTree'
    BY <1>1, NothingCompleted, StillNotCompleted DEF IInv
<1> QED
    BY <1>5, <1>6, <1>7, <1>8 DEF IInv, Before

\* The deadline of the call.
LEMMA ContextExpiresStep ==
    ASSUME IInv, ContextExpires PROVE IInv'
BY ToFail DEF ContextExpires, Busy, InOperation, At

\* A hash that cannot be taken.
LEMMA HashFailsStep ==
    ASSUME IInv, HashFails PROVE IInv'
BY ToFail DEF HashFails, Busy, InOperation, At

\* What reads a file writes it back.
LEMMA ReadsToWriteBack ==
    ASSUME NEW op \in Operation, Passes(op), NEW t, ReadsFirst(op, ActionOf(t, op))
    PROVE  WritesBack(op, ActionOf(t, op))
<1>1. ActionOf(t, op) \in ActionsOf(op) /\ (ActionOf(t, op) = "rename" <=> Renames(op))
    BY PassedPaths, RenamesOnAnyTree
<1>2. ActionOf(t, op) \notin {"delete", "rename", "apply_patch"}
    BY <1>1 DEF ReadsFirst, Searches, IsTransformed, ActionsOf
<1> QED
    BY <1>1, <1>2 DEF WritesBack

\* The file is read; the tree and the journal stay as they are.
LEMMA ReadFileStep ==
    ASSUME IInv, ReadFile PROVE IInv'
<1>a. PICK action : action = ActionOf(tree, Op)
    OBVIOUS
<1>0. Types /\ CallFits /\ TreeFits /\ JournalFits /\ PostimagesFit /\ OnlyOperations /\ Before
    BY DEF IInv, Before
<1>1. /\ At("perform") /\ ReadsFirst(Op, action)
      /\ IF CanApply(tree, Op, action)
         THEN call' = [call EXCEPT !.pc = "write", !.action = action,
                                   !.read = tree[PrePath(Op)].data]
         ELSE Goto("fail")
      /\ UNCHANGED <<entries, file, tree, faults, edits, history>>
    BY <1>a DEF ReadFile
<1>2. Busy /\ InOperation /\ ~Settled /\ call.pc \notin {"idle", "refused"}
    BY <1>1 DEF Busy, InOperation, At, Settled
<1>3. CASE ~CanApply(tree, Op, action)
    BY <1>1, <1>2, <1>3, ToFail
<1>4. CASE CanApply(tree, Op, action)
    <2>1. /\ Op \in Operation /\ Passes(Op) /\ call.cs \in ChangeSets
          /\ call.idx \in Nat /\ call.idx \in DOMAIN call.ops
          /\ Op = call.ops[call.idx]
        BY <1>0, <1>2, OpForm
    <2>2. action \in ActionsOf(Op) /\ WritesBack(Op, action)
        BY <1>a, <1>1, <2>1, PassedPaths, ReadsToWriteBack
    <2>3. PICK data : data = tree[PrePath(Op)].data
        OBVIOUS
    <2>4. data \in Seq(Texts)
        <3>1. IsFile(tree, PrePath(Op)) /\ PrePath(Op) \in TreePaths
            BY <1>1, <1>4, <2>1, <2>2, CallsNeed, PassedPaths
        <3>2. tree \in Tree
            BY <1>0 DEF Types
        <3> QED
            BY <2>3, <3>1, <3>2, NodeKinds
    <2>5. action \in CallActions
        BY <2>2 DEF CallActions, ActionsOf
    <2>6. /\ call' \in CallRecord /\ call'.pc = "write" /\ call'.action = action
          /\ call'.cs = call.cs /\ call'.ops = call.ops /\ call'.idx = call.idx
        <3>1. call \in CallRecord
            BY <1>0 DEF Types
        <3>2. call' = [call EXCEPT !.pc = "write", !.action = action, !.read = data]
            BY <1>1, <1>4, <2>3
        <3> QED
            BY <2>4, <2>5, <3>1, <3>2 DEF CallRecord, Pcs
    <2>7. /\ Busy' /\ InOperation' /\ At("write")' /\ ~At("next")' /\ ~At("perform")'
          /\ ~At("idle")' /\ ~At("refused")' /\ ~At("begin")' /\ ~At("postimage")'
          /\ ~At("fail")' /\ ~At("completed")'
        BY <2>6 DEF Busy, InOperation, At
    <2>8. Op' = Op
        BY <2>6 DEF Op
    <2>9. Types'
        BY <1>0, <1>1, <2>6 DEF Types, JournalTypeOK
    <2>10. CallFits'
        BY <1>0, <1>1, <1>2, <2>6, <2>7 DEF CallFits
    <2>11. TreeFits'
        BY <1>0, <1>1, <2>2, <2>6, <2>7, <2>8 DEF TreeFits
    <2>12. JournalFits'
        <3>1. OnlyOne' /\ Behind'
            BY <1>0, <1>1, <2>6 DEF JournalFits, OnlyOne, Behind, Journalled
        <3>2. ~At("next")
            BY <1>1 DEF At
        <3> QED
            BY <1>0, <1>1, <1>2, <2>6, <2>7, <2>8, <3>1, <3>2 DEF JournalFits
    <2>13. ComesOn
        BY <1>1, <2>1, <2>6 DEF ComesOn, Early, At
    <2>14. EffectsAreJournalled' /\ DiffersWhereCome' /\ PreimagesFit'
        <3>1. EffectsAreJournalled'
            BY <1>0, <1>1, <2>6, EffectsStay DEF Before
        <3>2. DiffersWhereCome'
            BY <1>0, <1>1, <2>13, DifferencesStay DEF Before
        <3>3. PreimagesFit'
            BY <1>0, <1>1, <2>13, PreimagesStay DEF Before
        <3> QED
            BY <3>1, <3>2, <3>3
    <2>15. PostimagesFit'
        <3>1. ASSUME NEW i \in DOMAIN call.ops, LastSoFar(i)' PROVE LastSoFar(i)
            BY <1>1, <2>6, <3>1 DEF LastSoFar, At
        <3> QED
            BY <1>0, <1>1, <1>2, <2>6, <3>1 DEF PostimagesFit
    <2>16. OnlyOperations'
        <3>1. ~At("postimage")
            BY <1>1 DEF At
        <3> QED
            BY <1>0, <1>1, <1>2, <2>6, <2>7, <3>1 DEF OnlyOperations
    <2>17. CompletedAtEnd' /\ CompletedMatchesTree'
        BY <1>1, <1>2, NothingCompleted, StillNotCompleted DEF IInv
    <2> QED
        BY <2>9, <2>10, <2>11, <2>12, <2>14, <2>15, <2>16, <2>17 DEF IInv, Before
<1> QED
    BY <1>3, <1>4

----------------------------------------------------------------------------
(***************************************************************************)
(* The steps of Apply that change the tree.                                *)
(***************************************************************************)

\* One change after another.
LEMMA ChangesTogether ==
    ASSUME NEW t, NEW t2, NEW t3, NEW some, NEW more, NEW paths,
           Changes(t, t2, some), Changes(t2, t3, more), some \subseteq paths, more \subseteq paths
    PROVE  Changes(t, t3, paths)
<1>1. ASSUME NEW p \in TreePaths PROVE ChangedAt(t, t3, paths, p)
    <2>1. ChangedAt(t, t2, some, p) /\ ChangedAt(t2, t3, more, p)
        BY DEF Changes
    <2>2. CASE t2[p] = t[p]
        BY <2>1, <2>2 DEF ChangedAt
    <2>3. CASE p \in some
        BY <2>3 DEF ChangedAt
    <2>4. CASE {t[p], t2[p]} \subseteq {Absent, Directory} /\ \E q \in some : p \in Above(q)
        BY <2>1, <2>4 DEF ChangedAt
    <2> QED
        BY <2>1, <2>2, <2>3, <2>4 DEF ChangedAt
<1> QED
    BY <1>1 DEF Changes

\* A difference that was not there comes from the paths of the change.
LEMMA NewDifference ==
    ASSUME NEW t \in Tree, NEW t2 \in Tree, NEW before \in Tree, NEW paths, Changes(t, t2, paths),
           NEW p \in TreePaths \ paths,
           t2[p] # before[p], IsFile(t2, p) \/ IsFile(before, p)
    PROVE  t[p] # before[p] /\ (IsFile(t, p) \/ IsFile(before, p))
<1>1. ChangedAt(t, t2, paths, p)
    BY DEF Changes
<1>2. CASE t2[p] = t[p]
    BY <1>2 DEF IsFile
<1>3. CASE {t[p], t2[p]} \subseteq {Absent, Directory}
    <2>1. ~IsFile(t2, p) /\ ~IsFile(t, p)
        BY <1>3, NodeKinds
    <2> QED
        BY <1>3, <2>1, NodeKinds
<1> QED
    BY <1>1, <1>2, <1>3 DEF ChangedAt

\* A path out of the reach of a change keeps its hash.
LEMMA HashKept ==
    ASSUME NEW t \in Tree, NEW t2 \in Tree, NEW paths, Changes(t, t2, paths),
           NEW p \in TreePaths \ paths
    PROVE  HashOf(t2, p) = HashOf(t, p)
<1>1. ChangedAt(t, t2, paths, p)
    BY DEF Changes
<1>2. CASE t2[p] = t[p]
    BY <1>2 DEF HashOf, IsFile
<1>3. CASE {t[p], t2[p]} \subseteq {Absent, Directory}
    BY <1>3, NodeKinds DEF HashOf
<1> QED
    BY <1>1, <1>2, <1>3 DEF ChangedAt

\* The operation at work changes the tree at the paths, and is then done or
\* gives up.
TreeStep(paths) ==
    /\ At("perform") \/ At("write")
    /\ Effect(tree, tree', paths)
    /\ paths \subseteq Touches(Op)
    /\ paths \subseteq {PrePath(Op), ResultPath(Op)} \cup history'.patched
    /\ history' \in HistoryRecord
    /\ history'.before = history.before /\ history'.late = history.late
    /\ history.patched \subseteq history'.patched
    /\ entries' = entries /\ file' = file
    /\ faults' \in 0 .. MaxFaults /\ edits' = edits
    /\ call' \in CallRecord /\ call'.ops = call.ops /\ call'.cs = call.cs /\ call'.idx = call.idx
    /\ call'.pc \in {"postimage", "fail", "crashed"}

\* The operation at work, before such a step.
LEMMA TreeStepForm ==
    ASSUME IInv, NEW paths, TreeStep(paths)
    PROVE  /\ Busy /\ InOperation /\ ~Settled /\ call.pc \notin {"idle", "refused"}
           /\ ~At("next") /\ ~At("postimage")
           /\ Op \in Operation /\ Passes(Op) /\ call.cs \in ChangeSets
           /\ call.idx \in Nat /\ call.idx \in DOMAIN call.ops
           /\ Op = call.ops[call.idx] /\ call.idx >= 1
           /\ ComesOn
           /\ tree \in Tree /\ tree' \in Tree /\ history.before \in Tree
<1>0. Types /\ CallFits
    BY DEF IInv, Before
<1>1. /\ Busy /\ InOperation /\ ~Settled /\ call.pc \notin {"idle", "refused"}
      /\ ~At("next") /\ ~At("postimage")
    BY DEF TreeStep, Busy, InOperation, At, Settled
<1>2. /\ Op \in Operation /\ Passes(Op) /\ call.cs \in ChangeSets
      /\ call.idx \in Nat /\ call.idx \in DOMAIN call.ops
      /\ Op = call.ops[call.idx]
    BY <1>0, <1>1, OpForm
<1>3. call.idx >= 1
    BY <1>0, <1>1 DEF CallFits
<1>4. ComesOn
    BY <1>2 DEF TreeStep, ComesOn, Early, At
<1>5. tree \in Tree /\ tree' \in Tree /\ history.before \in Tree
    BY <1>0, HistoryForm DEF TreeStep, Effect, Types
<1> QED
    BY <1>1, <1>2, <1>3, <1>4, <1>5

\* What such a step changes is named in the journal already.
LEMMA TreeStepEffects ==
    ASSUME IInv, NEW paths, TreeStep(paths)
    PROVE  EffectsAreJournalled' /\ DiffersWhereCome'
<1>0. Types /\ CallFits /\ JournalFits /\ EffectsAreJournalled /\ DiffersWhereCome
    BY DEF IInv, Before
<1>1. /\ Busy /\ ~At("next") /\ Op \in Operation /\ Passes(Op) /\ call.cs \in ChangeSets
      /\ call.idx \in Nat /\ call.idx \in DOMAIN call.ops /\ call.idx >= 1
      /\ Op = call.ops[call.idx]
      /\ ComesOn
      /\ tree \in Tree /\ tree' \in Tree /\ history.before \in Tree
    BY TreeStepForm
<1>2. /\ Changes(tree, tree', paths) /\ paths \subseteq Touches(Op)
      /\ paths \subseteq {PrePath(Op), ResultPath(Op)} \cup history'.patched
      /\ history'.before = history.before /\ history'.late = history.late
      /\ history.patched \subseteq history'.patched
      /\ file' = file /\ call'.ops = call.ops /\ call'.cs = call.cs /\ call'.idx = call.idx
      /\ call'.pc \in {"postimage", "fail", "crashed"}
      /\ At("perform") \/ At("write")
    BY DEF TreeStep, Effect
<1>3. ASSUME NEW p \in TreePaths \ (history'.late \cup history'.patched),
             tree'[p] # history'.before[p], IsFile(tree', p) \/ IsFile(history'.before, p)
      PROVE  file'[call'.cs] # NoEntry /\ p \in Journalled(file'[call'.cs])
    <2>1. CASE p \in paths
        <3>1. p \in {PrePath(Op), ResultPath(Op)}
            BY <1>2, <1>3, <2>1
        <3>2. /\ file[call.cs] # NoEntry /\ file = entries
              /\ Logged(file[call.cs].operations, call.ops, call.idx)
              /\ file[call.cs].preimages[PrePath(Op)] # NoHash
            BY <1>0, <1>1, <1>2 DEF JournalFits
        <3>3. PrePath(Op) \in Journalled(file[call.cs])
            BY <1>1, <3>2, PassedPaths DEF Journalled
        <3>4. ResultPath(Op) \in Journalled(file[call.cs])
            <4>1. /\ file[call.cs].operations[call.idx].path = ResultPath(Op)
                  /\ call.idx \in 1 .. Len(file[call.cs].operations)
                BY <1>1, <3>2 DEF Logged
            <4>2. call.idx \in DOMAIN file[call.cs].operations
                BY <1>0, <1>1, <3>2, <4>1, EntriesForm, EntryParts
            <4> QED
                BY <4>1, <4>2 DEF Journalled
        <3> QED
            BY <1>2, <3>1, <3>2, <3>3, <3>4
    <2>2. CASE p \notin paths
        <3>1. tree[p] # history.before[p] /\ (IsFile(tree, p) \/ IsFile(history.before, p))
            BY <1>1, <1>2, <1>3, <2>2, NewDifference
        <3> QED
            BY <1>0, <1>2, <1>3, <3>1 DEF EffectsAreJournalled
    <2> QED
        BY <2>1, <2>2
<1>4. ASSUME NEW p \in TreePaths \ history'.late,
             tree'[p] # history'.before[p], IsFile(tree', p) \/ IsFile(history'.before, p)
      PROVE  ComeTo(p)'
    <2>1. CASE p \in paths
        <3>1. p \in Touches(call'.ops[call'.idx]) /\ call'.idx \in 1 .. Len(call'.ops)
            BY <1>0, <1>1, <1>2, <2>1, OpsForm
        <3> QED
            BY <1>2, <3>1 DEF ComeTo
    <2>2. CASE p \notin paths
        <3>1. tree[p] # history.before[p] /\ (IsFile(tree, p) \/ IsFile(history.before, p))
            BY <1>1, <1>2, <1>4, <2>2, NewDifference
        <3>2. ComeTo(p)
            BY <1>0, <1>2, <1>4, <3>1 DEF DiffersWhereCome, Differs
        <3> QED
            BY <1>0, <1>1, <3>2, ComeToStays
    <2> QED
        BY <2>1, <2>2
<1>5. EffectsAreJournalled'
    BY <1>3 DEF EffectsAreJournalled
<1>6. DiffersWhereCome'
    BY <1>4 DEF DiffersWhereCome, Differs
<1> QED
    BY <1>5, <1>6

\* Such a step keeps the invariant.
LEMMA TreeStepKeeps ==
    ASSUME IInv, NEW paths, TreeStep(paths) PROVE IInv'
<1>0. Types /\ CallFits /\ TreeFits /\ JournalFits /\ PostimagesFit /\ OnlyOperations /\ Before
    BY DEF IInv, Before
<1>1. /\ Busy /\ InOperation /\ ~Settled /\ ~At("next") /\ ~At("postimage")
      /\ call.pc \notin {"idle", "refused"}
      /\ Op \in Operation /\ Passes(Op) /\ call.cs \in ChangeSets
      /\ call.idx \in Nat /\ call.idx \in DOMAIN call.ops /\ call.idx >= 1
      /\ Op = call.ops[call.idx] /\ ComesOn
      /\ tree \in Tree /\ tree' \in Tree /\ history.before \in Tree
    BY TreeStepForm
<1>2. /\ Changes(tree, tree', paths) /\ paths \subseteq Touches(Op) /\ WellFormed(tree')
      /\ history' \in HistoryRecord
      /\ history'.before = history.before /\ history'.late = history.late
      /\ entries' = entries /\ file' = file
      /\ faults' \in 0 .. MaxFaults /\ edits' = edits
      /\ call' \in CallRecord /\ call'.ops = call.ops /\ call'.cs = call.cs /\ call'.idx = call.idx
      /\ call'.pc \in {"postimage", "fail", "crashed"}
      /\ At("perform") \/ At("write")
    BY DEF TreeStep, Effect
<1>3. /\ ~At("next")' /\ ~At("perform")' /\ ~At("write")' /\ ~At("idle")' /\ ~At("refused")'
      /\ ~At("begin")' /\ ~At("completed")'
      /\ (Busy' <=> At("postimage")') /\ (InOperation' <=> At("postimage")')
    BY <1>2 DEF Busy, InOperation, At
<1>4. Types'
    BY <1>0, <1>1, <1>2 DEF Types, JournalTypeOK
<1>5. CallFits'
    <2>1. call.cs # NoEntry
        BY <1>1, EngineNulls
    <2> QED
        BY <1>0, <1>1, <1>2, <1>3, <2>1 DEF CallFits
<1>6. TreeFits'
    BY <1>2, <1>3 DEF TreeFits
<1>7. JournalFits'
    <2>1. OnlyOne' /\ Behind'
        BY <1>0, <1>2 DEF JournalFits, OnlyOne, Behind, Journalled
    <2> QED
        BY <1>0, <1>1, <1>2, <1>3, <2>1 DEF JournalFits
<1>8. EffectsAreJournalled' /\ DiffersWhereCome'
    BY TreeStepEffects
<1>9. PreimagesFit'
    BY <1>0, <1>1, <1>2, PreimagesStay DEF Before
<1>10. PostimagesFit'
    <2>1. ASSUME NEW i \in DOMAIN call.ops, LastSoFar(i)', Busy'
          PROVE  LastSoFar(i) /\ ResultPath(call.ops[i]) \in TreePaths \ paths
        <3>1. call'.pc = "postimage"
            BY <1>3, <2>1 DEF At
        <3>2. LastSoFar(i)
            BY <1>2, <2>1, <3>1 DEF LastSoFar
        <3>3. ResultPath(call.ops[i]) \notin Touches(Op)
            <4>1. i < call.idx /\ i \in Nat
                BY <1>0, <3>2, OpsForm DEF LastSoFar
            <4>2. call.idx > i
                BY <1>1, <4>1
            <4> QED
                BY <1>1, <1>2, <2>1, <3>1, <4>2 DEF LastSoFar
        <3>4. ResultPath(call.ops[i]) \in TreePaths
            BY <1>0, <1>1, OpsForm, PassedPaths DEF CallFits
        <3> QED
            BY <1>2, <3>2, <3>3, <3>4
    <2>2. ASSUME NEW i \in DOMAIN call.ops, LastSoFar(i)',
                 ResultPath(call.ops[i]) \notin history.late,
                 Busy'
          PROVE  entries[call.cs].postimages[ResultPath(call.ops[i])]
                    = HashOf(tree', ResultPath(call.ops[i]))
        <3>1. HashOf(tree', ResultPath(call.ops[i])) = HashOf(tree, ResultPath(call.ops[i]))
            BY <1>1, <1>2, <2>1, <2>2, HashKept
        <3> QED
            BY <1>0, <1>1, <2>1, <2>2, <3>1 DEF PostimagesFit
    <2> QED
        BY <1>1, <1>2, <2>2 DEF PostimagesFit
<1>11. CompletedAtEnd' /\ CompletedMatchesTree'
    BY <1>1, <1>2, NothingCompleted, StillNotCompleted DEF IInv
<1>12. OnlyOperations'
    <2>1. ASSUME edits = 0, At("postimage")'
          PROVE  Changes(history.before, tree', TouchedTo(call.ops, call.idx))
        <3>1. Changes(history.before, tree, TouchedTo(call.ops, call.idx - 1))
            BY <1>0, <1>1, <2>1 DEF OnlyOperations
        <3>2. TouchedTo(call.ops, call.idx - 1) \subseteq TouchedTo(call.ops, call.idx)
            BY <1>0, <1>1, OpsForm DEF TouchedTo
        <3>3. paths \subseteq TouchedTo(call.ops, call.idx)
            BY <1>1, <1>2 DEF TouchedTo
        <3> QED
            BY <1>2, <3>1, <3>2, <3>3, ChangesTogether
    <2> QED
        BY <1>0, <1>1, <1>2, <1>3, <2>1 DEF OnlyOperations
<1> QED
    BY <1>4, <1>5, <1>6, <1>7, <1>8, <1>9, <1>10, <1>11, <1>12 DEF IInv, Before

\* What the history remembers of an operation.
LEMMA RememberForm ==
    ASSUME Types, Op \in Operation, Passes(Op), NEW action \in ActionsOf(Op), RememberDiff(action)
    PROVE  /\ history' \in HistoryRecord
           /\ history'.before = history.before /\ history'.late = history.late
           /\ history.patched \subseteq history'.patched
           /\ Reach(Op, action) \subseteq {PrePath(Op), ResultPath(Op)} \cup history'.patched
<1>1. history \in HistoryRecord
    BY DEF Types
<1>2. CASE action = "apply_patch"
    <2>1. PICK more : more = {e.path : e \in Op.edits} \ {Op.path}
        OBVIOUS
    <2>2. history' = [history EXCEPT !.patched = @ \cup more]
        BY <1>2, <2>1 DEF RememberDiff
    <2>3. more \subseteq TreePaths
        <3>1. Op.edits \subseteq FileChange
            BY DEF Operation
        <3> QED
            BY <2>1, <3>1 DEF FileChange
    <2>4. /\ history' \in HistoryRecord
          /\ history'.before = history.before /\ history'.late = history.late
          /\ history'.patched = history.patched \cup more
        BY <1>1, <2>2, <2>3 DEF HistoryRecord
    <2>5. ~IsSettingOp(Op)
        BY <1>2 DEF ActionsOf
    <2>6. PrePath(Op) = Op.path
        BY <2>5, PassedPaths
    <2>7. Reach(Op, action) \subseteq {Op.path} \cup more
        BY <1>2, <2>1 DEF Reach
    <2> QED
        BY <2>4, <2>6, <2>7
<1>3. CASE action # "apply_patch"
    BY <1>1, <1>3 DEF RememberDiff, Reach
<1> QED
    BY <1>2, <1>3

\* The operation at work.
LEMMA AtWork ==
    ASSUME IInv, At("perform") \/ At("write")
    PROVE  /\ Types /\ CallFits /\ InOperation /\ Busy
           /\ Op \in Operation /\ Passes(Op) /\ HasTexts(Op) /\ IsDiff(Op.edits)
           /\ tree \in Tree /\ WellFormed(tree) /\ ~IsDirectory(tree, PrePath(Op))
           /\ call.read \in Seq(Texts) /\ call \in CallRecord /\ history \in HistoryRecord
           /\ ActionOf(tree, Op) \in ActionsOf(Op)
           /\ (ActionOf(tree, Op) = "rename" <=> Renames(Op))
           /\ (At("write") => WritesBack(Op, call.action))
<1>0. Types /\ CallFits /\ TreeFits
    BY DEF IInv, Before
<1>1. InOperation /\ Busy
    BY DEF InOperation, Busy, At
<1>2. Op \in Operation /\ Passes(Op) /\ HasTexts(Op) /\ IsDiff(Op.edits)
    BY <1>0, <1>1, OpForm
<1>3. tree \in Tree /\ call \in CallRecord /\ history \in HistoryRecord
    BY <1>0 DEF Types
<1>4. call.read \in Seq(Texts)
    BY <1>3 DEF CallRecord
<1>5. /\ WellFormed(tree) /\ ~IsDirectory(tree, PrePath(Op))
      /\ At("write") => WritesBack(Op, call.action)
    BY <1>0 DEF TreeFits
<1>6. ActionOf(tree, Op) \in ActionsOf(Op) /\ (ActionOf(tree, Op) = "rename" <=> Renames(Op))
    BY <1>2, PassedPaths, RenamesOnAnyTree
<1> QED
    BY <1>0, <1>1, <1>2, <1>3, <1>4, <1>5, <1>6

\* What an action reaches the operation touches.
LEMMA ReachTouches ==
    ASSUME IInv, At("perform") \/ At("write"), NEW action \in ActionsOf(Op)
    PROVE  Reach(Op, action) \subseteq Touches(Op)
BY AtWork, PassedPaths

\* What was read is written back.
LEMMA WriteFileStep ==
    ASSUME IInv, WriteFile PROVE IInv'
<1>a. PICK action : action = call.action
    OBVIOUS
<1>b. PICK data : data = call.read
    OBVIOUS
<1>1. /\ At("write")
      /\ IF ContentFits(Op, action, data) /\ CanCopyTo(tree, PrePath(Op))
         THEN /\ tree' = Applied(tree, Op, action, data)
              /\ call' = [call EXCEPT !.pc = "postimage", !.action = "", !.read = <<>>]
         ELSE UNCHANGED tree /\ Goto("fail")
      /\ UNCHANGED <<entries, file, faults, edits, history>>
    BY <1>a, <1>b DEF WriteFile
<1>2. /\ Types /\ Busy /\ Op \in Operation /\ Passes(Op) /\ HasTexts(Op)
      /\ tree \in Tree /\ WellFormed(tree)
      /\ data \in Seq(Texts) /\ call \in CallRecord /\ history \in HistoryRecord
      /\ WritesBack(Op, action)
    BY <1>a, <1>b, <1>1, AtWork
<1>3. CASE ~(ContentFits(Op, action, data) /\ CanCopyTo(tree, PrePath(Op)))
    BY <1>1, <1>2, <1>3, ToFail
<1>4. CASE ContentFits(Op, action, data) /\ CanCopyTo(tree, PrePath(Op))
    <2>1. action \in ActionsOf(Op) \ {"delete", "rename", "apply_patch"}
        BY <1>2 DEF WritesBack
    <2>2. Effect(tree, tree', Reach(Op, action))
        BY <1>1, <1>2, <1>4, <2>1, FileApplied
    <2>3. Reach(Op, action) = {PrePath(Op), ResultPath(Op)}
        BY <2>1 DEF Reach
    <2>4. Reach(Op, action) \subseteq Touches(Op)
        BY <1>1, <2>1, ReachTouches
    <2>5. /\ call' \in CallRecord /\ call'.ops = call.ops /\ call'.cs = call.cs
          /\ call'.idx = call.idx /\ call'.pc = "postimage"
        <3>1. <<>> \in Seq(Texts) /\ "" \in CallActions
            BY DEF CallActions
        <3>2. call' = [call EXCEPT !.pc = "postimage", !.action = "", !.read = <<>>]
            BY <1>1, <1>4
        <3> QED
            BY <1>2, <3>1, <3>2 DEF CallRecord, Pcs
    <2>6. TreeStep(Reach(Op, action))
        BY <1>1, <1>2, <2>2, <2>3, <2>4, <2>5 DEF TreeStep, Types
    <2> QED
        BY <2>6, TreeStepKeeps
<1> QED
    BY <1>3, <1>4

\* An operation that reads nothing is performed, or refused.
LEMMA PerformStep ==
    ASSUME IInv, Perform PROVE IInv'
<1>a. PICK action : action = ActionOf(tree, Op)
    OBVIOUS
<1>1. /\ At("perform")
      /\ IF ContentFits(Op, action, <<>>) /\ CanApply(tree, Op, action)
         THEN /\ tree' = Applied(tree, Op, action, <<>>)
              /\ Goto("postimage")
              /\ RememberDiff(action)
         ELSE /\ tree' = NotRenamed(tree, Op, action)
              /\ Goto("fail")
              /\ UNCHANGED history
      /\ UNCHANGED <<entries, file, faults, edits>>
    BY <1>a DEF Perform
<1>2. /\ Types /\ Busy /\ Op \in Operation /\ Passes(Op) /\ HasTexts(Op) /\ IsDiff(Op.edits)
      /\ tree \in Tree /\ WellFormed(tree) /\ ~IsDirectory(tree, PrePath(Op))
      /\ history \in HistoryRecord
      /\ action \in ActionsOf(Op) /\ (action = "rename" <=> Renames(Op))
    BY <1>a, <1>1, AtWork
<1>3. <<>> \in Seq(Texts)
    OBVIOUS
<1>4. Reach(Op, action) \subseteq Touches(Op)
    BY <1>1, <1>2, ReachTouches
<1>5. CASE ContentFits(Op, action, <<>>) /\ CanApply(tree, Op, action)
    <2>1. Effect(tree, tree', Reach(Op, action))
        <3>1. PICK data \in Seq(Texts) : data = <<>>
            BY <1>3
        <3>2. tree' = Applied(tree, Op, action, data) /\ ContentFits(Op, action, data)
            BY <1>1, <1>5, <3>1
        <3> QED
            BY <1>2, <1>5, <3>2, OperationApplied
    <2>2. /\ history' \in HistoryRecord
          /\ history'.before = history.before /\ history'.late = history.late
          /\ history.patched \subseteq history'.patched
          /\ Reach(Op, action) \subseteq {PrePath(Op), ResultPath(Op)} \cup history'.patched
        BY <1>1, <1>2, <1>5, RememberForm
    <2>3. /\ call' \in CallRecord /\ call'.ops = call.ops /\ call'.cs = call.cs
          /\ call'.idx = call.idx /\ call'.pc = "postimage"
        BY <1>1, <1>2, <1>5, GotoForm DEF Pcs
    <2>4. TreeStep(Reach(Op, action))
        BY <1>1, <1>2, <1>4, <2>1, <2>2, <2>3 DEF TreeStep, Types
    <2> QED
        BY <2>4, TreeStepKeeps
<1>6. CASE ~(ContentFits(Op, action, <<>>) /\ CanApply(tree, Op, action))
    <2>1. CASE action = "apply_patch"
        <3>1. tree' = tree
            BY <1>1, <1>6, <2>1 DEF NotRenamed
        <3> QED
            BY <1>1, <1>2, <1>6, <3>1, ToFail
    <2>2. CASE action # "apply_patch"
        <3>1. Effect(tree, tree', Reach(Op, action))
            BY <1>1, <1>2, <1>6, OperationRefused
        <3>2. Reach(Op, action) = {PrePath(Op), ResultPath(Op)}
            BY <2>2 DEF Reach
        <3>3. /\ call' \in CallRecord /\ call'.ops = call.ops /\ call'.cs = call.cs
              /\ call'.idx = call.idx /\ call'.pc = "fail"
            BY <1>1, <1>2, <1>6, GotoForm DEF Pcs
        <3>4. TreeStep(Reach(Op, action))
            BY <1>1, <1>2, <1>4, <1>6, <3>1, <3>2, <3>3 DEF TreeStep, Types
        <3> QED
            BY <3>4, TreeStepKeeps
    <2> QED
        BY <2>1, <2>2
<1> QED
    BY <1>5, <1>6

\* An error in the middle of an operation.
LEMMA PerformFailsStep ==
    ASSUME IInv, PerformFails PROVE IInv'
<1>a. PICK action : action = IF At("write") THEN call.action ELSE ActionOf(tree, Op)
    OBVIOUS
<1>1. /\ \/ At("perform") /\ CanApply(tree, Op, action)
         \/ At("write") /\ CanCopyTo(tree, PrePath(Op))
      /\ tree' \in CutShort(tree, Op, action)
      /\ RememberDiff(action)
      /\ Fault /\ Goto("fail")
      /\ UNCHANGED <<entries, file, edits>>
    BY <1>a DEF PerformFails
<1>2. /\ Types /\ Op \in Operation /\ Passes(Op) /\ IsDiff(Op.edits)
      /\ tree \in Tree /\ WellFormed(tree)
      /\ ActionOf(tree, Op) \in ActionsOf(Op)
      /\ (ActionOf(tree, Op) = "rename" <=> Renames(Op))
      /\ (At("write") => WritesBack(Op, call.action))
    BY <1>1, AtWork
<1>3. /\ action \in ActionsOf(Op) /\ (action = "rename" <=> Renames(Op))
      /\ At("write") => action \notin {"delete", "rename", "apply_patch"}
    BY <1>a, <1>2 DEF WritesBack
<1>4. Effect(tree, tree', Reach(Op, action))
    BY <1>1, <1>2, <1>3, OperationCutShort
<1>5. Reach(Op, action) \subseteq Touches(Op)
    BY <1>1, <1>3, ReachTouches
<1>6. /\ history' \in HistoryRecord
      /\ history'.before = history.before /\ history'.late = history.late
      /\ history.patched \subseteq history'.patched
      /\ Reach(Op, action) \subseteq {PrePath(Op), ResultPath(Op)} \cup history'.patched
    BY <1>1, <1>2, <1>3, RememberForm
<1>7. /\ call' \in CallRecord /\ call'.ops = call.ops /\ call'.cs = call.cs
      /\ call'.idx = call.idx /\ call'.pc = "fail"
    BY <1>1, <1>2, GotoForm DEF Pcs
<1>8. faults' \in 0 .. MaxFaults
    BY <1>1, <1>2, OutcomeForm DEF Outcome
<1>9. TreeStep(Reach(Op, action))
    BY <1>1, <1>4, <1>5, <1>6, <1>7, <1>8 DEF TreeStep
<1> QED
    BY <1>9, TreeStepKeeps

----------------------------------------------------------------------------
(***************************************************************************)
(* The end of the process: what is in memory is lost.                      *)
(***************************************************************************)
LEMMA CrashStep ==
    ASSUME IInv, Crash PROVE IInv'
<1> DEFINE cut == At("perform") /\ Op.action = "apply_patch" /\ CanApply(tree, Op, "apply_patch")
<1>0. Types /\ CallFits /\ TreeFits /\ JournalFits /\ PostimagesFit /\ OnlyOperations /\ Before
    BY DEF IInv, Before
<1>1. /\ Running /\ Fault /\ Goto("crashed")
      /\ entries' = file /\ file' = file /\ edits' = edits
      /\ IF cut THEN tree' \in CutShort(tree, Op, "apply_patch") /\ RememberDiff("apply_patch")
         ELSE UNCHANGED <<tree, history>>
    BY DEF Crash, Reopen
<1> HIDE DEF cut
<1>2. /\ call' \in CallRecord /\ call'.pc = "crashed" /\ call'.cs = call.cs
      /\ call'.ops = call.ops /\ call'.idx = call.idx
    BY <1>0, <1>1, GotoForm DEF Pcs
<1>3. faults' \in 0 .. MaxFaults
    BY <1>0, <1>1, OutcomeForm DEF Outcome
<1>4. CASE cut
    <2>1. At("perform") /\ Op.action = "apply_patch" /\ CanApply(tree, Op, "apply_patch")
        BY <1>4 DEF cut
    <2>2. /\ Busy /\ Op \in Operation /\ Passes(Op) /\ IsDiff(Op.edits)
          /\ tree \in Tree /\ WellFormed(tree)
          /\ ActionOf(tree, Op) \in ActionsOf(Op)
        BY <2>1, AtWork
    <2>3. "apply_patch" \in ActionsOf(Op)
        <3>1. Named(Op) = "apply_patch"
            BY <2>1, <2>2, NamedCases
        <3>2. ActionOf(tree, Op) = "apply_patch"
            BY <2>2, <3>1, ActionCases
        <3> QED
            BY <2>2, <3>2
    <2>4. Effect(tree, tree', Reach(Op, "apply_patch"))
        BY <1>1, <1>4, <2>1, <2>2, <2>3, OperationCutShort
    <2>5. Reach(Op, "apply_patch") \subseteq Touches(Op)
        BY <2>1, <2>3, ReachTouches
    <2>6. /\ history' \in HistoryRecord
          /\ history'.before = history.before /\ history'.late = history.late
          /\ history.patched \subseteq history'.patched
          /\ Reach(Op, "apply_patch") \subseteq {PrePath(Op), ResultPath(Op)} \cup history'.patched
        BY <1>0, <1>1, <1>4, <2>2, <2>3, RememberForm
    <2>7. entries' = entries
        BY <1>0, <1>1, <2>2 DEF JournalFits
    <2>8. TreeStep(Reach(Op, "apply_patch"))
        BY <1>1, <1>2, <1>3, <2>1, <2>4, <2>5, <2>6, <2>7 DEF TreeStep
    <2> QED
        BY <2>8, TreeStepKeeps
<1>5. CASE ~cut
    <2>1. UNCHANGED <<tree, history>>
        BY <1>1, <1>5
    <2>2. /\ ~Settled /\ call.pc \notin {"idle", "refused"} /\ call.idx \in Nat
        BY <1>0, <1>1 DEF At, Running, Settled, Types, CallRecord
    <2>3. ComesOn
        BY <1>2, <2>2 DEF ComesOn, Early
    <2>4. OnlyOne' /\ Behind'
        BY <1>0, <1>1, <1>2 DEF JournalFits, OnlyOne, Behind, Journalled
    <2>5. Types'
        BY <1>0, <1>1, <1>2, <1>3, <2>1 DEF Types, JournalTypeOK
    <2>6. CallFits' /\ TreeFits' /\ JournalFits' /\ PostimagesFit' /\ OnlyOperations'
        BY <1>0, <1>1, <1>2, <2>1, <2>2, <2>4, OutOfOperation
    <2>7. EffectsAreJournalled' /\ DiffersWhereCome' /\ PreimagesFit'
        <3>1. EffectsAreJournalled'
            BY <1>0, <1>1, <1>2, <2>1, EffectsStay DEF Before
        <3>2. DiffersWhereCome'
            BY <1>0, <2>1, <2>3, DifferencesStay DEF Before
        <3>3. PreimagesFit'
            BY <1>0, <1>1, <2>1, <2>3, PreimagesStay DEF Before
        <3> QED
            BY <3>1, <3>2, <3>3
    <2>8. CompletedAtEnd' /\ CompletedMatchesTree'
        BY <1>1, <2>2, NothingCompleted, StillNotCompleted DEF IInv
    <2> QED
        BY <2>5, <2>6, <2>7, <2>8 DEF IInv, Before
<1> QED
    BY <1>4, <1>5

----------------------------------------------------------------------------
(***************************************************************************)
(* The editor.  A path Apply has come to becomes late; an edit of another  *)
(* path changes the tree and what is without Apply in the same way.        *)
(***************************************************************************)
Saved(t, p, node) == [t EXCEPT ![p] = node]

\* A file saved or removed leaves a tree.
LEMMA FileSaved ==
    ASSUME NEW t \in Tree, WellFormed(t), NEW e \in Edits, CanEdit(t, e),
           NEW q, q = e.path, NEW node, node = e.node, NEW t2, t2 = Saved(t, q, node)
    PROVE  /\ t2 \in Tree /\ WellFormed(t2) /\ t2[q] = node
           /\ \A p \in TreePaths \ {q} : t2[p] = t[p]
<1>0. q \in TreePaths /\ node \in Node \ {Directory}
    BY EngineTrees
<1>1. t2 \in Tree /\ t2[q] = node /\ \A p \in TreePaths \ {q} : t2[p] = t[p]
    BY <1>0 DEF Tree, Saved
<1>2. CASE node = Absent
    <2>1. Removable(t, q) /\ t2 = Without(t, q)
        BY <1>2 DEF CanEdit, Without, Saved
    <2> QED
        BY <1>0, <1>1, <2>1, PathRemoved DEF Effect
<1>3. CASE node # Absent
    <2>1. ~IsDirectory(t, q) /\ (Len(q) > 1 => IsDirectory(t, Front(q)))
        BY <1>3 DEF CanEdit
    <2>2. ASSUME NEW p \in TreePaths, Exists(t2, p), NEW r \in Above(p) PROVE IsDirectory(t2, r)
        <3>1. r \in TreePaths /\ r # p
            BY AboveOrder
        <3>2. IsDirectory(t, r)
            <4>1. CASE p # q
                BY <1>1, <2>2, <4>1 DEF WellFormed, Exists
            <4>2. CASE p = q
                <5>1. Len(q) # 1
                    BY <1>0, <2>2, <4>2, AboveFront
                <5>2. Len(q) > 1
                    <6>1. PICK k : k = Len(q)
                        OBVIOUS
                    <6>2. k \in Nat /\ k >= 1 /\ k # 1
                        BY <1>0, <5>1, <6>1, PathForm
                    <6>3. k > 1
                        BY <6>2
                    <6> QED
                        BY <6>1, <6>3
                <5>3. Front(q) \in TreePaths /\ IsDirectory(t, Front(q))
                    BY <1>0, <2>1, <5>1, <5>2, AboveFront, PathForm
                <5>4. r = Front(q) \/ r \in Above(Front(q))
                    BY <1>0, <2>2, <4>2, <5>1, AboveFront
                <5> QED
                    BY <5>3, <5>4 DEF WellFormed, IsDirectory, Exists
            <4> QED
                BY <4>1, <4>2
        <3>3. r # q
            BY <2>1, <3>2
        <3> QED
            BY <1>1, <3>1, <3>2, <3>3 DEF IsDirectory
    <2> QED
        BY <1>1, <2>2 DEF WellFormed
<1> QED
    BY <1>2, <1>3

\* The editor keeps the invariant.
LEMMA EditStep ==
    ASSUME IInv, NEW e \in Edits, Edit(e) PROVE IInv'
<1>a. PICK q : q = e.path
    OBVIOUS
<1>b. PICK new : new = e.node
    OBVIOUS
<1>0. Types /\ CallFits /\ TreeFits /\ JournalFits /\ PostimagesFit /\ OnlyOperations /\ Before
    BY DEF IInv, Before
<1>1. /\ Running /\ edits < MaxEdits /\ edits' = edits + 1 /\ CanEdit(tree, e)
      /\ tree' = [tree EXCEPT ![q] = new]
      /\ history' = IF ComeTo(q) THEN [history EXCEPT !.late = @ \cup {q}]
                    ELSE [history EXCEPT !.before[q] = new]
      /\ entries' = entries /\ file' = file /\ call' = call /\ faults' = faults
    BY <1>a, <1>b DEF Edit
<1>2. q \in TreePaths /\ new \in Node \ {Directory}
    BY <1>a, <1>b, EngineTrees
<1>3. /\ tree \in Tree /\ WellFormed(tree) /\ history \in HistoryRecord
      /\ history.before \in Tree /\ history.late \subseteq TreePaths
      /\ edits \in 0 .. MaxEdits /\ call.idx \in Nat
    BY <1>0, HistoryForm DEF Types, TreeFits, CallRecord
<1>4. /\ tree' \in Tree /\ WellFormed(tree') /\ tree'[q] = new
      /\ \A p \in TreePaths \ {q} : tree'[p] = tree[p]
    <2>1. tree' = Saved(tree, q, new)
        BY <1>1 DEF Saved
    <2>2. CanEdit(tree, e) /\ tree \in Tree /\ WellFormed(tree)
        BY <1>1, <1>3
    <2> QED
        BY <1>a, <1>b, <2>1, <2>2, FileSaved
<1>5. /\ history' \in HistoryRecord /\ history.late \subseteq history'.late
      /\ history'.patched = history.patched
      /\ \A p \in TreePaths \ {q} : history'.before[p] = history.before[p]
      /\ ComeTo(q) => q \in history'.late
      /\ ~ComeTo(q) => /\ history'.late = history.late
                       /\ history'.before = [history.before EXCEPT ![q] = new]
                       /\ history'.before[q] = new
    <2>1. CASE ComeTo(q)
        <3>1. history' = [history EXCEPT !.late = history.late \cup {q}]
            BY <1>1, <2>1
        <3> QED
            BY <1>2, <1>3, <2>1, <3>1 DEF HistoryRecord
    <2>2. CASE ~ComeTo(q)
        <3>1. PICK before : before = [history.before EXCEPT ![q] = new]
            OBVIOUS
        <3>2. history' = [history EXCEPT !.before = before]
            BY <1>1, <2>2, <3>1
        <3>3. /\ before \in Tree /\ before[q] = new
              /\ \A p \in TreePaths \ {q} : before[p] = history.before[p]
            BY <1>2, <1>3, <3>1 DEF Tree
        <3> QED
            BY <1>3, <2>2, <3>1, <3>2, <3>3 DEF HistoryRecord
    <2> QED
        BY <2>1, <2>2
<1>6. ComesOn
    BY <1>1, <1>3 DEF ComesOn
<1>7. /\ ~Settled /\ call.pc \notin {"idle", "refused"}
    BY <1>1 DEF Running, Settled, At
<1>8. Types'
    <2>1. edits' \in 0 .. MaxEdits
        BY <1>1, <1>3, EngineBounds
    <2> QED
        BY <1>0, <1>1, <1>4, <1>5, <2>1 DEF Types, JournalTypeOK
<1>9. CallFits'
    <2>1. ASSUME call.cs = NoEntry PROVE tree' = history'.before
        <3>1. call.pc = "begin"
            <4>1. ~Busy /\ ~At("fail") /\ ~At("completed")
                BY <1>0, <2>1, EngineNulls DEF CallFits
            <4>2. call.pc \in Pcs
                BY <1>0 DEF Types, CallRecord
            <4> QED
                BY <1>1, <4>1, <4>2 DEF Pcs, Running, Busy, InOperation, At
        <3>2. call.idx = 0 /\ tree = history.before
            BY <1>0, <2>1, <3>1 DEF CallFits, At
        <3>3. ~ComeTo(q)
            BY <1>0, <3>2, OpsForm DEF ComeTo
        <3> QED
            BY <1>1, <1>5, <3>2, <3>3
    <2>2. /\ Busy' = Busy /\ InOperation' = InOperation
          /\ \A pc \in {"fail", "completed", "idle", "refused", "begin"} : At(pc)' = At(pc)
        BY <1>1 DEF Busy, InOperation, At
    <2> QED
        BY <1>0, <1>1, <2>1, <2>2 DEF CallFits
<1>10. TreeFits'
    <2>1. ASSUME At("perform") \/ At("write") PROVE ~IsDirectory(tree', PrePath(Op))
        <3>1. ~IsDirectory(tree, PrePath(Op)) /\ PrePath(Op) \in TreePaths
            BY <1>0, <2>1, OpForm, PassedPaths DEF TreeFits, InOperation, At
        <3>2. CASE PrePath(Op) = q
            BY <1>2, <1>4, <3>1, <3>2, NodeKinds
        <3>3. CASE PrePath(Op) # q
            BY <1>4, <3>1, <3>3 DEF IsDirectory
        <3> QED
            BY <3>2, <3>3
    <2>2. At("perform")' = At("perform") /\ At("write")' = At("write") /\ Op' = Op
        BY <1>1 DEF At, Op
    <2> QED
        BY <1>0, <1>1, <1>4, <2>1, <2>2 DEF TreeFits
<1>11. JournalFits'
    <2>1. /\ Busy' = Busy /\ Op' = Op
          /\ \A pc \in {"next", "perform", "write"} : At(pc)' = At(pc)
        BY <1>1 DEF Busy, InOperation, At, Op
    <2>2. OnlyOne' /\ Behind'
        BY <1>0, <1>1 DEF JournalFits, OnlyOne, Behind, Journalled
    <2> QED
        BY <1>0, <1>1, <2>1, <2>2 DEF JournalFits
<1>12. ASSUME NEW p \in TreePaths \ history'.late,
              tree'[p] # history'.before[p], IsFile(tree', p) \/ IsFile(history'.before, p)
       PROVE  /\ p \notin history.late /\ tree[p] # history.before[p]
              /\ IsFile(tree, p) \/ IsFile(history.before, p)
    <2>1. p # q
        BY <1>4, <1>5, <1>12
    <2> QED
        BY <1>4, <1>5, <1>12, <2>1 DEF IsFile
<1>13. EffectsAreJournalled'
    BY <1>0, <1>1, <1>5, <1>12 DEF EffectsAreJournalled, Before, Journalled
<1>14. DiffersWhereCome'
    <2>1. ASSUME NEW p \in TreePaths \ history'.late, Differs(p)' PROVE ComeTo(p)'
        <3>1. p \notin history.late /\ Differs(p)
            BY <1>12, <2>1 DEF Differs
        <3>2. ComeTo(p)
            BY <1>0, <3>1 DEF DiffersWhereCome, Before
        <3> QED
            BY <1>0, <1>6, <3>2, ComeToStays
    <2> QED
        BY <2>1 DEF DiffersWhereCome
<1>15. PreimagesFit'
    <2>1. ASSUME NEW p \in TreePaths, p \notin history'.late, ComeTo(p)
          PROVE  p \notin history.late /\ HashOf(history'.before, p) = HashOf(history.before, p)
        <3>1. p # q
            BY <1>5, <2>1
        <3> QED
            BY <1>5, <2>1, <3>1 DEF HashOf, IsFile
    <2> QED
        BY <1>0, <1>1, <1>6, <2>1, PreimagesStay DEF Before
<1>16. PostimagesFit'
    <2>1. ASSUME NEW i \in DOMAIN call.ops, LastSoFar(i), Busy,
                 ResultPath(call.ops[i]) \notin history'.late
          PROVE  entries[call.cs].postimages[ResultPath(call.ops[i])]
                    = HashOf(tree', ResultPath(call.ops[i]))
        <3>1. PICK p : p = ResultPath(call.ops[i])
            OBVIOUS
        <3>2. p \in TreePaths /\ p \in Touches(call.ops[i])
            BY <1>0, <1>7, <3>1, OpsForm, PassedPaths DEF CallFits
        <3>3. ComeTo(p)
            BY <1>0, <2>1, <3>2, OpsForm DEF LastSoFar, ComeTo
        <3>4. p # q
            BY <1>5, <2>1, <3>1, <3>3
        <3>5. HashOf(tree', p) = HashOf(tree, p)
            BY <1>4, <3>2, <3>4 DEF HashOf, IsFile
        <3>6. p \notin history.late
            BY <1>5, <2>1, <3>1
        <3> QED
            BY <1>0, <2>1, <3>1, <3>5, <3>6 DEF PostimagesFit
    <2>2. Busy' = Busy /\ \A i \in DOMAIN call.ops : LastSoFar(i)' = LastSoFar(i)
        BY <1>1 DEF Busy, InOperation, At, LastSoFar
    <2> QED
        BY <1>1, <2>1, <2>2 DEF PostimagesFit
<1>17. CompletedAtEnd' /\ CompletedMatchesTree'
    BY <1>1, <1>7, NothingCompleted, StillNotCompleted DEF IInv
<1>18. OnlyOperations'
    <2>1. edits' # 0
        BY <1>1, <1>3
    <2> QED
        BY <2>1 DEF OnlyOperations
<1> QED
    BY <1>8, <1>9, <1>10, <1>11, <1>13, <1>14, <1>15, <1>16, <1>17, <1>18 DEF IInv, Before

----------------------------------------------------------------------------
(***************************************************************************)
(* The invariant holds.                                                    *)
(***************************************************************************)
LEMMA InitHolds == Init => IInv
<1> SUFFICES ASSUME Init PROVE IInv
    OBVIOUS
<1>1. /\ entries = [cs \in ChangeSets |-> NoEntry] /\ file = entries
      /\ tree \in Trees /\ call = NotCalled /\ faults = 0 /\ edits = 0
      /\ history = [before |-> tree, late |-> {}, patched |-> {}]
    BY DEF Init, JournalInit
<1>2. tree \in Tree /\ WellFormed(tree)
    BY <1>1, EngineTrees
<1>3. /\ call \in CallRecord /\ call.pc = "idle" /\ call.cs = NoEntry /\ call.idx = 0
      /\ call.ops = <<>>
    BY <1>1, NotCalledForm DEF NotCalled
<1>4. history \in HistoryRecord /\ history.before = tree
    BY <1>1, <1>2 DEF HistoryRecord
<1>5. Types
    BY <1>1, <1>2, <1>3, <1>4, EngineBounds DEF Types, JournalTypeOK
<1>6. /\ ~Busy /\ ~InOperation /\ ~At("perform") /\ ~At("write") /\ ~At("fail") /\ ~At("completed")
    BY <1>3 DEF Busy, InOperation, At
<1>7. CallFits
    <2>1. 0 <= Len(call.ops) + 1
        BY <1>5, OpsForm
    <2> QED
        BY <1>3, <1>4, <1>6, <2>1 DEF CallFits
<1>8. TreeFits /\ JournalFits /\ PostimagesFit /\ OnlyOperations
    <2>1. TreeFits
        BY <1>2, <1>6 DEF TreeFits
    <2>2. JournalFits
        BY <1>1, <1>6 DEF JournalFits, OnlyOne, Behind
    <2>3. PostimagesFit
        BY <1>6 DEF PostimagesFit
    <2>4. OnlyOperations
        BY <1>2, <1>3, <1>4, <1>6 DEF OnlyOperations
    <2> QED
        BY <2>1, <2>2, <2>3, <2>4
<1>9. EffectsAreJournalled /\ DiffersWhereCome
    BY <1>4 DEF EffectsAreJournalled, DiffersWhereCome, Differs
<1>10. PreimagesFit
    BY <1>1 DEF PreimagesFit
<1>11. CompletedAtEnd /\ CompletedMatchesTree
    BY <1>1 DEF CompletedAtEnd, CompletedMatchesTree
<1> QED
    BY <1>5, <1>7, <1>8, <1>9, <1>10, <1>11 DEF IInv, Before

\* Nothing changes: the invariant is about the variables alone.
LEMMA StutterKeeps ==
    ASSUME IInv, UNCHANGED vars PROVE IInv'
<1>1. /\ entries' = entries /\ file' = file /\ tree' = tree /\ call' = call /\ faults' = faults
      /\ edits' = edits /\ history' = history
    BY DEF vars, engineVars
<1>2. /\ \A pc \in Pcs : At(pc)' = At(pc)
      /\ Busy' = Busy /\ InOperation' = InOperation /\ Settled' = Settled /\ Op' = Op
      /\ \A p : ComeTo(p)' = ComeTo(p) /\ Alone(p)' = Alone(p)
    BY <1>1 DEF At, Busy, InOperation, Settled, Op, ComeTo, Alone, TouchedBy
<1>3. (Types /\ CallFits /\ TreeFits)' = (Types /\ CallFits /\ TreeFits)
    BY <1>1 DEF Types, JournalTypeOK, CallFits, TreeFits, Busy, InOperation, At, Op
<1>4. JournalFits' = JournalFits
    BY <1>1 DEF JournalFits, OnlyOne, Behind, Journalled, Busy, InOperation, At, Op
<1>5. EffectsAreJournalled' = EffectsAreJournalled /\ DiffersWhereCome' = DiffersWhereCome
    BY <1>1 DEF EffectsAreJournalled, DiffersWhereCome, Differs, Journalled, ComeTo
<1>6. PreimagesFit' = PreimagesFit
    BY <1>1 DEF PreimagesFit, PreimageFits, ComeTo, Alone, TouchedBy
<1>7. PostimagesFit' = PostimagesFit
    BY <1>1 DEF PostimagesFit, LastSoFar, Busy, InOperation, At
<1>8. OnlyOperations' = OnlyOperations
    BY <1>1 DEF OnlyOperations, Busy, InOperation, At
<1>9. CompletedAtEnd' = CompletedAtEnd /\ CompletedMatchesTree' = CompletedMatchesTree
    BY <1>1 DEF CompletedAtEnd, CompletedMatchesTree, Settled, At, Journalled, Result, TouchedBy
<1> QED
    BY <1>3, <1>4, <1>5, <1>6, <1>7, <1>8, <1>9 DEF IInv, Before

\* Every step keeps the invariant.
LEMMA NextKeeps ==
    ASSUME IInv, [Next]_vars PROVE IInv'
<1>1. CASE ApplyStep
    BY <1>1, SubmitStep, BeginChangeSetStep, JournalOperationStep, JournalPreimageStep,
       JournalPostimageStep, FailApplyStep, CompleteApplyStep, ContextExpiresStep,
       HashFailsStep, ReadFileStep, WriteFileStep, PerformStep, PerformFailsStep DEF ApplyStep
<1>2. CASE Crash
    BY <1>2, CrashStep
<1>3. CASE \E e \in Edits : Edit(e)
    BY <1>3, EditStep
<1>4. CASE UNCHANGED vars
    BY <1>4, StutterKeeps
<1> QED
    BY <1>1, <1>2, <1>3, <1>4 DEF Next

\* Every reachable state of the engine satisfies the inductive invariant.
THEOREM Invariant == Spec => []IInv
<1>1. Init => IInv
    BY InitHolds
<1>2. IInv /\ [Next]_vars => IInv'
    BY NextKeeps
<1> QED
    BY <1>1, <1>2, PTL DEF Spec

----------------------------------------------------------------------------
(***************************************************************************)
(* What the invariant says.                                                *)
(***************************************************************************)
LEMMA TypesFollow == IInv => EngineTypeOK
<1> SUFFICES ASSUME IInv PROVE EngineTypeOK
    OBVIOUS
<1>1. Types /\ CallFits
    BY DEF IInv, Before
<1>2. call.pc \in Pcs /\ call.idx \in Nat /\ call.read \in Seq(Texts)
    BY <1>1 DEF Types, CallRecord
<1>3. ASSUME call.pc \notin {"idle", "refused", "begin", "failed", "crashed"}
      PROVE  call.cs \in ChangeSets /\ call.idx \in 1 .. Len(call.ops) + 1
    <2>1. Busy \/ At("fail") \/ At("completed")
        BY <1>2, <1>3 DEF Pcs, Busy, InOperation, At
    <2> QED
        BY <1>1, <1>2, <2>1, OpsForm DEF CallFits
<1> QED
    BY <1>1, <1>2, <1>3 DEF EngineTypeOK, Types, Pcs

\* One operation that touches a path is alone there.
LEMMA OneIsAlone ==
    ASSUME Types, NEW p, Cardinality(TouchedBy(p)) = 1 PROVE Alone(p)
<1>1. TouchedBy(p) \subseteq 1 .. Len(call.ops) /\ Len(call.ops) \in Nat
    BY OpsForm DEF TouchedBy
<1>2. IsFiniteSet(TouchedBy(p))
    <2>1. PICK len \in Nat : TouchedBy(p) \subseteq 1 .. len
        BY <1>1
    <2>2. 1 \in Int /\ len \in Int
        OBVIOUS
    <2>3. IsFiniteSet(1 .. len)
        BY <2>2, FS_Interval
    <2> QED
        BY <2>1, <2>3, FS_Subset
<1>3. PICK i : TouchedBy(p) = {i}
    BY <1>2, FS_Singleton
<1> QED
    BY <1>3 DEF Alone

\* What fits alone is the original where one operation touches the path.
LEMMA PreimageFollows == IInv => PreimageIsOriginal
<1> SUFFICES ASSUME IInv PROVE PreimageIsOriginal
    OBVIOUS
<1>1. Types /\ PreimagesFit
    BY DEF IInv, Before
<1>2. ASSUME NEW image \in {entries, file}, NEW cs \in ChangeSets, image[cs] # NoEntry,
             NEW p \in TreePaths \ history.late,
             image[cs].preimages[p] # NoHash, Cardinality(TouchedBy(p)) = 1
      PROVE  image[cs].preimages[p] = HashOf(history.before, p)
    <2>1. Alone(p)
        BY <1>1, <1>2, OneIsAlone
    <2>2. PreimageFits(image[cs].preimages[p], p)
        BY <1>1, <1>2 DEF PreimagesFit
    <2> QED
        BY <1>2, <2>1, <2>2 DEF PreimageFits
<1> QED
    BY <1>2 DEF PreimageIsOriginal

\* Where the operations before it have changed nothing the tree is as
\* preflight saw it.
LEMMA AsPreflightSaw ==
    ASSUME NEW b \in Tree, NEW t \in Tree, NEW changed \in SUBSET TreePaths,
           Changes(b, t, changed), NEW p \in TreePaths,
           \A q \in changed : ~IsPrefix(p, q) /\ ~IsPrefix(q, p)
    PROVE  /\ t[p] = b[p]
           /\ Reachable(b, p) => Reachable(t, p)
<1>1. \A q \in changed : p # q /\ p \notin Above(q) /\ q \notin Above(p)
    BY PrefixCases
<1>2. t[p] = b[p]
    BY <1>1 DEF Changes, ChangedAt
<1>3. ASSUME Reachable(b, p), NEW r \in Above(p) PROVE ~IsFile(t, r)
    <2>1. r \in TreePaths /\ r \notin changed
        BY <1>1, PathForm
    <2>2. ~IsFile(b, r)
        BY <1>3 DEF Reachable
    <2>3. t[r] = b[r] \/ t[r] \in {Absent, Directory}
        BY <2>1 DEF Changes, ChangedAt
    <2> QED
        BY <2>1, <2>2, <2>3, NodeKinds DEF IsFile
<1> QED
    BY <1>2, <1>3 DEF Reachable

\* What preflight saw can be done later, and its content fits, if what it saw
\* is still there and it is not one of the failures it does not look for.
LEMMA SeenIsPossible ==
    ASSUME NEW b \in Tree, WellFormed(b), NEW t \in Tree, WellFormed(t), NEW op \in Operation,
           PreflightOperation(b, op), Passes(op),
           \A p \in Touches(op) : t[p] = b[p] /\ (Reachable(b, p) => Reachable(t, p))
    PROVE  LET action == ActionOf(t, op)
           IN \/ action = "apply_patch"
              \/ LacksContent(op, action)
              \/ Searches(op, action) /\ ~Finds(op, DataAt(b, op.path))
              \/ CanApply(t, op, action) /\ ContentFits(op, action, DataAt(t, PrePath(op)))
<1>a. PICK action : action = ActionOf(b, op)
    OBVIOUS
<1>b. PICK pre : pre = PrePath(op)
    OBVIOUS
<1>1. /\ pre \in TreePaths /\ pre \in Touches(op)
      /\ action \in ActionsOf(op)
      /\ ResultPath(op) \in TreePaths /\ ResultPath(op) \in Touches(op)
      /\ ~IsSettingOp(op) => pre = op.path
    BY <1>a, <1>b, PassedPaths
<1>2. /\ ~IsSettingOp(op) => PreflightFile(b, op, action) /\ FitsType(op)
      /\ CheckWritableForAction(b, op, action)
    BY <1>a, PassedForm
<1>3. t[pre] = b[pre] /\ (Reachable(b, pre) => Reachable(t, pre))
    BY <1>1
<1>4. ActionOf(t, op) = action
    <2>1. CASE Named(op) = "" /\ ~IsSettingOp(op) /\ op.target = NoPath
        <3>1. Exists(t, op.path) <=> Exists(b, op.path)
            BY <1>1, <1>3, <2>1 DEF Exists
        <3> QED
            BY <1>a, <2>1, <3>1, ActionCases
    <2>2. CASE Named(op) # ""
        <3>1. ActionOf(t, op) = IF IsSettingOp(op) /\ Named(op) = "delete" THEN "remove"
                                ELSE Named(op)
            BY <2>2, ActionCases
        <3>2. ActionOf(b, op) = IF IsSettingOp(op) /\ Named(op) = "delete" THEN "remove"
                                ELSE Named(op)
            BY <2>2, ActionCases
        <3> QED
            BY <1>a, <3>1, <3>2
    <2>3. CASE Named(op) = "" /\ IsSettingOp(op)
        BY <1>a, <2>3, ActionCases
    <2>4. CASE Named(op) = "" /\ ~IsSettingOp(op) /\ op.target # NoPath
        BY <1>a, <2>4, ActionCases
    <2> QED
        BY <2>1, <2>2, <2>3, <2>4
\* The text that was in the file is there.
<1>14. \/ LacksContent(op, action)
       \/ Searches(op, action) /\ ~Finds(op, DataAt(b, op.path))
       \/ ContentFits(op, action, DataAt(t, PrePath(op)))
    <2>1. DataAt(t, pre) = DataAt(b, pre)
        BY <1>3 DEF DataAt, IsFile
    <2> QED
        BY <1>b, <1>1, <2>1 DEF ContentFits
<1>5. FitsType(op)
    <2>1. CASE IsSettingOp(op)
        BY <2>1 DEF IsSettingOp, FitsType
    <2> QED
        BY <1>2, <2>1
\* A file that must be there can be written, read and removed.
<1>6. ASSUME CheckWritablePath(b, pre, TRUE)
      PROVE  /\ IsFile(b, pre) /\ IsFile(t, pre) /\ CanCopyTo(t, pre) /\ Removable(t, pre)
             /\ Exists(t, pre) /\ ~IsDirectory(t, pre)
    <2>1. IsFile(b, pre)
        BY <1>6 DEF CheckWritablePath
    <2>2. IsFile(t, pre) /\ Exists(t, pre) /\ ~IsDirectory(t, pre)
        BY <1>3, <2>1 DEF IsFile, Exists, IsDirectory
    <2>3. Reachable(t, pre)
        BY <1>1, <2>2, CanBeReached
    <2> QED
        BY <2>1, <2>2, <2>3 DEF CanCopyTo, Removable
<1>7. ASSUME CheckWritablePath(b, pre, FALSE)
      PROVE  /\ CanCopyTo(t, pre)
             /\ Exists(b, pre) => IsFile(t, pre)
    <2>1. Reachable(t, pre)
        BY <1>1, <1>3, <1>7, CanBeReached
    <2>2. Exists(b, pre) => IsFile(b, pre)
        BY <1>7 DEF CheckWritablePath
    <2>3. ~IsDirectory(t, pre) /\ (Exists(b, pre) => IsFile(t, pre))
        BY <1>3, <2>2 DEF Exists, IsFile, IsDirectory
    <2> QED
        BY <2>1, <2>3 DEF CanCopyTo
<1>8. CASE action \in {"set", "remove"}
    <2>1. IsSettingOp(op)
        BY <1>1, <1>8 DEF ActionsOf, FileActions
    <2>2. pre = ProjectFile
        BY <1>b, <2>1 DEF PrePath
    <2>3. CheckWritablePath(b, pre, TRUE)
        BY <1>2, <1>8, <2>2 DEF CheckWritableForAction
    <2>4. CanApply(t, op, action)
        BY <1>b, <1>5, <1>6, <1>8, <2>3 DEF CanApply
    <2> QED
        BY <1>4, <1>14, <2>4
<1>9. CASE action \in {"delete", "modify", "replace", "append"}
    <2>1. pre = op.path
        BY <1>1, <1>9 DEF ActionsOf
    <2>2. CheckWritablePath(b, pre, TRUE)
        BY <1>2, <1>9, <2>1 DEF CheckWritableForAction
    <2>3. CanApply(t, op, action)
        BY <1>b, <1>5, <1>6, <1>9, <2>1, <2>2 DEF CanApply
    <2> QED
        BY <1>4, <1>14, <2>3
<1>10. CASE action = "create"
    <2>1. ~IsSettingOp(op) /\ pre = op.path
        BY <1>1, <1>10 DEF ActionsOf
    <2>2. CheckWritablePath(b, pre, FALSE) /\ ~Exists(b, pre)
        BY <1>2, <1>10, <2>1 DEF CheckWritableForAction, PreflightFile
    <2>3. CanCopyTo(t, op.path) /\ ~Exists(t, op.path)
        BY <1>3, <1>7, <2>1, <2>2 DEF Exists
    <2>4. CanApply(t, op, action)
        BY <1>5, <1>10, <2>3 DEF CanApply
    <2> QED
        BY <1>4, <1>14, <2>4
<1>11. CASE action = "write"
    <2>1. ~IsSettingOp(op) /\ pre = op.path
        BY <1>1, <1>11 DEF ActionsOf
    <2>2. CheckWritablePath(b, pre, FALSE)
        BY <1>2, <1>11, <2>1 DEF CheckWritableForAction
    <2>3. CASE ~Exists(b, op.path) /\ Searches(op, action)
        <3>1. DataAt(b, op.path) = <<>>
            BY <2>3 DEF DataAt, Exists, IsFile
        <3>2. ~Finds(op, DataAt(b, op.path))
            BY <3>1 DEF Finds
        <3> QED
            BY <1>4, <2>3, <3>2
    <2>4. CASE Exists(b, op.path) \/ ~Searches(op, action)
        <3>1. CanCopyTo(t, pre) /\ (ReadsFirst(op, action) => IsFile(t, pre))
            BY <1>7, <1>11, <2>1, <2>2, <2>4 DEF ReadsFirst
        <3>2. CanApply(t, op, action)
            BY <1>b, <1>5, <1>11, <3>1 DEF CanApply
        <3> QED
            BY <1>4, <1>14, <3>2
    <2> QED
        BY <2>3, <2>4
<1>12. CASE action = "rename"
    <2>1. ~IsSettingOp(op) /\ pre = op.path
        BY <1>1, <1>12 DEF ActionsOf
    <2>2. Renames(op)
        BY <1>a, <1>12, RenamesOnAnyTree
    <2>3. PICK to : to = op.target
        OBVIOUS
    <2>4. to \in TreePaths /\ t[to] = b[to] /\ (Reachable(b, to) => Reachable(t, to))
        BY <1>1, <2>2, <2>3 DEF ResultPath
    <2>5. /\ CheckWritablePath(b, pre, TRUE) /\ CheckWritablePath(b, to, FALSE)
          /\ ~Exists(b, to)
        BY <1>2, <1>12, <2>1, <2>3 DEF CheckWritableForAction, PreflightFile
    <2>6. Reachable(b, to) /\ Reachable(t, to) /\ ~Exists(t, to)
        BY <2>4, <2>5, CanBeReached DEF Exists
    <2>7. ~IsPrefix(pre, to)
        <3>1. IsFile(b, pre)
            BY <1>6, <2>5
        <3>2. pre # to
            BY <2>5, <3>1 DEF Exists, IsFile
        <3>3. pre \notin Above(to)
            BY <2>6, <3>1 DEF Reachable
        <3> QED
            BY <1>1, <2>4, <3>2, <3>3, PrefixCases
    <2>8. CanMove(t, pre, to)
        BY <1>6, <2>5, <2>6, <2>7 DEF CanMove
    <2>9. CanApply(t, op, action)
        BY <1>5, <1>12, <2>1, <2>3, <2>8 DEF CanApply
    <2> QED
        BY <1>4, <1>14, <2>9
<1>13. action = "apply_patch" \/ action \in {"set", "remove"} \/ action = "create"
       \/ action \in {"delete", "modify", "replace", "append"} \/ action = "write"
       \/ action = "rename"
    BY <1>1 DEF ActionsOf, FileActions
<1> QED
    BY <1>4, <1>8, <1>9, <1>10, <1>11, <1>12, <1>13

\* At the time of the operation the tree is as preflight saw it on its paths.
LEMMA PreflightFollows == IInv => PreflightIsEnough
<1> SUFFICES ASSUME IInv, At("perform"), edits = 0, Independent(call.ops)
             PROVE  LET action == ActionOf(tree, Op)
                    IN \/ action = "apply_patch"
                       \/ LacksContent(Op, action)
                       \/ Searches(Op, action) /\ ~Finds(Op, DataAt(history.before, Op.path))
                       \/ /\ CanApply(tree, Op, action)
                          /\ ContentFits(Op, action, DataAt(tree, PrePath(Op)))
    BY DEF PreflightIsEnough, Unforeseen
<1>1. /\ Types /\ CallFits /\ OnlyOperations
    BY DEF IInv, Before
<1>2. /\ InOperation /\ Busy /\ Op \in Operation /\ Passes(Op)
      /\ tree \in Tree /\ WellFormed(tree)
    BY AtWork
<1>3. /\ call.idx \in DOMAIN call.ops /\ call.idx \in Nat /\ Op = call.ops[call.idx]
      /\ call.pc \notin {"idle", "refused"} /\ ~At("postimage")
    BY <1>1, <1>2, OpForm DEF At
<1>4. history.before \in Tree
    BY <1>1, HistoryForm
<1>5. PICK changed : changed = TouchedTo(call.ops, call.idx - 1)
    OBVIOUS
<1>6. /\ WellFormed(history.before) /\ PreflightOperation(history.before, Op)
      /\ Changes(history.before, tree, changed)
    BY <1>1, <1>2, <1>3, <1>5 DEF OnlyOperations, PreflightOK
<1>7. ASSUME NEW q \in changed
      PROVE  /\ q \in TreePaths
             /\ \A p \in Touches(Op) : ~IsPrefix(p, q) /\ ~IsPrefix(q, p)
    <2>1. PICK i \in DOMAIN call.ops : i <= call.idx - 1 /\ q \in Touches(call.ops[i])
        BY <1>5, <1>7 DEF TouchedTo
    <2>2. i # call.idx
        BY <1>1, <1>3, <2>1, OpsForm
    <2>3. call.ops[i] \in Operation /\ Passes(call.ops[i])
        BY <1>1, <1>3, OpsForm DEF CallFits
    <2>4. q \in TreePaths
        BY <2>1, <2>3, PassedPaths
    <2> QED
        BY <1>3, <2>1, <2>2, <2>4 DEF Independent
<1>8. ASSUME NEW p \in Touches(Op)
      PROVE  /\ tree[p] = history.before[p]
             /\ Reachable(history.before, p) => Reachable(tree, p)
    <2>1. p \in TreePaths
        BY <1>2, PassedPaths
    <2>2. changed \in SUBSET TreePaths /\ \A q \in changed : ~IsPrefix(p, q) /\ ~IsPrefix(q, p)
        BY <1>7
    <2> QED
        BY <1>2, <1>4, <1>6, <2>1, <2>2, AsPreflightSaw
<1> QED
    BY <1>2, <1>4, <1>6, <1>8, SeenIsPossible

----------------------------------------------------------------------------
(***************************************************************************)
(* The properties of the engine, for every proposal, tree and editor.      *)
(***************************************************************************)

\* The variables of the engine have their types.
THEOREM EngineTypeCorrect == Spec => []EngineTypeOK
<1>1. IInv => EngineTypeOK
    BY TypesFollow
<1> QED
    BY <1>1, Invariant, PTL

\* Write ahead: a file that Apply changed, made or removed is named in the
\* journal on disk, whatever failed and whenever the process ended.
THEOREM WriteAhead == Spec => []EffectsAreJournalled
<1>1. IInv => EffectsAreJournalled
    BY DEF IInv, Before
<1> QED
    BY <1>1, Invariant, PTL

\* The preimage of a path that one operation touches is the hash of the file
\* as it would be without Apply.
THEOREM OriginalPreimage == Spec => []PreimageIsOriginal
<1>1. IInv => PreimageIsOriginal
    BY PreimageFollows
<1> QED
    BY <1>1, Invariant, PTL

\* A completed change set accounts for the proposal and for the tree.
THEOREM CompletedAccounts == Spec => []CompletedMatchesTree
<1>1. IInv => CompletedMatchesTree
    BY DEF IInv
<1> QED
    BY <1>1, Invariant, PTL

\* What passed preflight is possible when its turn comes and its content
\* fits, if nobody edits the project and no two operations meet on a path,
\* but for the three failures preflight does not look for: a diff that does
\* not apply, no content, and a search whose text was not in the file.
THEOREM PreflightSuffices == Spec => []PreflightIsEnough
<1>1. IInv => PreflightIsEnough
    BY PreflightFollows
<1> QED
    BY <1>1, Invariant, PTL

=============================================================================
