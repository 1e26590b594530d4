----------------------------- MODULE TreeProofs -----------------------------
(***************************************************************************)
(* Paths and trees of the project directory: what lies above a path, and   *)
(* that every call of the file system leaves a tree whose files lie in     *)
(* directories (WellFormed).  The proofs of the patch engine and of the    *)
(* patch handlers rest on these lemmas.                                    *)
(***************************************************************************)
EXTENDS ProjectTree, TLAPS

----------------------------------------------------------------------------
\* A part of a sequence.
LEMMA PartTyped ==
    ASSUME NEW S, NEW s \in Seq(S), NEW m \in Nat \ {0}, NEW k \in Int, k <= Len(s)
    PROVE  SubSeq(s, m, k) \in Seq(S)
<1>1. CASE m <= k
    BY <1>1
<1>2. CASE ~ (m <= k)
    BY <1>2
<1> QED
    BY <1>1, <1>2

(***************************************************************************)
(* Paths: a directory above a path is a shorter beginning of it.           *)
(***************************************************************************)
LEMMA Beginning ==
    ASSUME NEW S, NEW p \in Seq(S), NEW m \in 1 .. Len(p)
    PROVE  /\ SubSeq(p, 1, m) \in Seq(S)
           /\ Len(SubSeq(p, 1, m)) = m
           /\ \A i \in 1 .. m : SubSeq(p, 1, m)[i] = p[i]
OBVIOUS

\* A beginning of a beginning is one.
LEMMA BeginningOfBeginning ==
    ASSUME NEW S, NEW p \in Seq(S), NEW m \in 1 .. Len(p), NEW k \in 1 .. m
    PROVE  SubSeq(SubSeq(p, 1, m), 1, k) = SubSeq(p, 1, k)
<1> DEFINE q == SubSeq(p, 1, m)
<1>1. q \in Seq(S) /\ Len(q) = m /\ \A i \in 1 .. m : q[i] = p[i]
    BY Beginning
<1> HIDE DEF q
<1>2. /\ SubSeq(q, 1, k) \in Seq(S) /\ Len(SubSeq(q, 1, k)) = k
      /\ \A i \in 1 .. k : SubSeq(q, 1, k)[i] = q[i]
    BY <1>1, Beginning
<1>3. k \in 1 .. Len(p)
    OBVIOUS
<1>4. /\ SubSeq(p, 1, k) \in Seq(S) /\ Len(SubSeq(p, 1, k)) = k
      /\ \A i \in 1 .. k : SubSeq(p, 1, k)[i] = p[i]
    BY <1>3, Beginning
<1>5. \A i \in 1 .. k : SubSeq(q, 1, k)[i] = SubSeq(p, 1, k)[i]
    BY <1>1, <1>2, <1>4
<1> HIDE <1>1
<1>6. SubSeq(q, 1, k) = SubSeq(p, 1, k)
    BY <1>2, <1>4, <1>5
<1> QED
    BY <1>6 DEF q

\* A path is a sequence of names, and so is a directory above it.
LEMMA PathForm ==
    ASSUME NEW p \in TreePaths
    PROVE  /\ p \in Seq(STRING) /\ Len(p) \in Nat /\ Len(p) >= 1
           /\ Above(p) \subseteq TreePaths
<1>1. p \in Seq(STRING) /\ p # <<>> /\ Above(p) \subseteq TreePaths
    BY ParentsArePaths
<1> QED
    BY <1>1

\* q is above p if it is a beginning of p and not p.
LEMMA AboveIsPrefix ==
    ASSUME NEW p \in TreePaths, NEW q \in TreePaths
    PROVE  q \in Above(p) <=> IsPrefix(q, p) /\ q # p
<1>1. p \in Seq(STRING) /\ Len(p) \in Nat /\ q \in Seq(STRING) /\ Len(q) \in Nat /\ Len(q) >= 1
      /\ Len(p) >= 1
    BY PathForm
<1>2. ASSUME q \in Above(p) PROVE IsPrefix(q, p) /\ q # p
    <2>1. PICK m \in 1 .. Len(p) - 1 : q = SubSeq(p, 1, m)
        BY <1>2 DEF Above
    <2>2. m \in 1 .. Len(p)
        BY <1>1, <2>1
    <2>3. Len(q) = m
        BY <1>1, <2>1, <2>2, Beginning
    <2>4. m \in 1 .. m
        BY <2>2
    <2>5. SubSeq(q, 1, Len(q)) = SubSeq(p, 1, Len(q))
        BY <1>1, <2>1, <2>2, <2>3, <2>4, BeginningOfBeginning
    <2> QED
        BY <1>1, <2>1, <2>3, <2>5 DEF IsPrefix
<1>3. ASSUME IsPrefix(q, p), q # p PROVE q \in Above(p)
    <2>1. Len(q) <= Len(p) /\ SubSeq(q, 1, Len(q)) = SubSeq(p, 1, Len(q))
        BY <1>3 DEF IsPrefix
    <2>2. SubSeq(q, 1, Len(q)) = q /\ SubSeq(p, 1, Len(p)) = p
        BY <1>1
    <2>3. Len(q) # Len(p)
        BY <1>3, <2>1, <2>2
    <2>4. Len(q) \in 1 .. Len(p) - 1
        BY <1>1, <2>1, <2>3
    <2> QED
        BY <2>1, <2>2, <2>4 DEF Above
<1> QED
    BY <1>2, <1>3

\* Above is an order, and what is above one path is in line.
LEMMA AboveOrder ==
    ASSUME NEW p \in TreePaths, NEW q \in Above(p)
    PROVE  /\ q \in TreePaths /\ q # p /\ p \notin Above(q)
           /\ Above(q) \subseteq Above(p)
           /\ \A r \in Above(p) : r = q \/ r \in Above(q) \/ q \in Above(r)
<1>1. p \in Seq(STRING) /\ Len(p) \in Nat /\ Len(p) >= 1 /\ q \in TreePaths
    BY PathForm
<1>2. PICK m \in 1 .. Len(p) - 1 : q = SubSeq(p, 1, m)
    BY DEF Above
<1>3. m \in 1 .. Len(p) /\ m # Len(p)
    BY <1>1, <1>2
<1>4. q \in Seq(STRING) /\ Len(q) = m
    BY <1>1, <1>2, <1>3, Beginning
<1>5. ASSUME NEW r \in Above(q) PROVE r \in Above(p) /\ r # p
    <2>1. PICK k \in 1 .. m - 1 : r = SubSeq(q, 1, k)
        BY <1>4 DEF Above
    <2>2. k \in 1 .. m /\ k \in 1 .. Len(p) - 1 /\ k \in 1 .. Len(p) /\ k # Len(p)
        BY <1>1, <1>3, <2>1
    <2>3. r = SubSeq(p, 1, k)
        BY <1>1, <1>2, <1>3, <2>1, <2>2, BeginningOfBeginning
    <2>4. Len(r) = k
        BY <1>1, <2>2, <2>3, Beginning
    <2> QED
        BY <2>2, <2>3, <2>4 DEF Above
<1>6. ASSUME NEW r \in Above(p) PROVE r = q \/ r \in Above(q) \/ q \in Above(r)
    <2>1. PICK k \in 1 .. Len(p) - 1 : r = SubSeq(p, 1, k)
        BY DEF Above
    <2>2. k \in 1 .. Len(p)
        BY <1>1, <2>1
    <2>3. Len(r) = k
        BY <1>1, <2>1, <2>2, Beginning
    <2>4. CASE k = m
        BY <1>2, <2>1, <2>4
    <2>5. CASE k < m
        <3>1. k \in 1 .. m /\ k \in 1 .. m - 1
            BY <1>3, <2>2, <2>5
        <3>2. r = SubSeq(q, 1, k)
            BY <1>1, <1>2, <1>3, <2>1, <3>1, BeginningOfBeginning
        <3> QED
            BY <1>4, <3>1, <3>2 DEF Above
    <2>6. CASE k > m
        <3>1. m \in 1 .. k /\ m \in 1 .. k - 1
            BY <1>3, <2>2, <2>6
        <3>2. q = SubSeq(r, 1, m)
            BY <1>1, <1>2, <2>1, <2>2, <3>1, BeginningOfBeginning
        <3> QED
            BY <2>3, <3>1, <3>2 DEF Above
    <2> QED
        BY <1>3, <2>2, <2>4, <2>5, <2>6
<1> QED
    BY <1>1, <1>3, <1>4, <1>5, <1>6

----------------------------------------------------------------------------
(***************************************************************************)
(* The tree: what each call of the file system changes, and that a file or *)
(* a directory lies in directories afterwards.                             *)
(***************************************************************************)

\* Where t2 is not t: at the paths, and in directories above them, made or
\* removed.
ChangedAt(t, t2, paths, p) ==
    \/ t2[p] = t[p]
    \/ p \in paths
    \/ {t[p], t2[p]} \subseteq {Absent, Directory} /\ \E q \in paths : p \in Above(q)

Changes(t, t2, paths) == \A p \in TreePaths : ChangedAt(t, t2, paths, p)

Effect(t, t2, paths) == t2 \in Tree /\ WellFormed(t2) /\ Changes(t, t2, paths)

\* What is at a path is absent, a directory or a file.
LEMMA NodeKinds ==
    ASSUME NEW t \in Tree, NEW p \in TreePaths
    PROVE  /\ t[p] \in Node
           /\ ~Exists(t, p) <=> t[p] = Absent
           /\ IsDirectory(t, p) <=> t[p] = Directory
           /\ IsFile(t, p) <=> t[p] # Absent /\ t[p] # Directory
           /\ IsFile(t, p) => t[p].data \in Seq(Texts)
<1>1. t[p] \in Node
    BY DEF Tree
<1> QED
    BY <1>1 DEF Exists, IsDirectory, IsFile, Node, Absent, Directory

\* Nothing lies below what is no directory.
LEMMA WhereItLies ==
    ASSUME NEW t \in Tree, WellFormed(t), NEW p \in TreePaths, NEW q \in Above(p)
    PROVE  ~IsDirectory(t, q) => t[p] = Absent
BY NodeKinds DEF WellFormed

\* To do nothing is a change of no path.
LEMMA NoEffect ==
    ASSUME NEW t \in Tree, WellFormed(t), NEW paths PROVE Effect(t, t, paths)
BY DEF Effect, Changes, ChangedAt

\* More paths may be named.
LEMMA WiderEffect ==
    ASSUME NEW t, NEW t2, NEW some, NEW paths, some \subseteq paths, Effect(t, t2, some)
    PROVE  Effect(t, t2, paths)
BY DEF Effect, Changes, ChangedAt

\* Directories are made with those above them, and over no file.
LEMMA DirectoriesMade ==
    ASSUME NEW t \in Tree, WellFormed(t), NEW dirs,
           \A q \in dirs : q \in TreePaths /\ Above(q) \subseteq dirs /\ ~IsFile(t, q)
    PROVE  /\ WithDirectories(t, dirs) \in Tree /\ WellFormed(WithDirectories(t, dirs))
           /\ \A q \in dirs : WithDirectories(t, dirs)[q] = Directory
           /\ \A q \in TreePaths \ dirs : WithDirectories(t, dirs)[q] = t[q]
           /\ \A q \in dirs : t[q] \in {Absent, Directory}
<1> DEFINE d == WithDirectories(t, dirs)
<1>1. d \in Tree
    BY DEF WithDirectories, Tree, Node
<1>2. \A q \in dirs : d[q] = Directory
    BY DEF WithDirectories
<1>3. \A q \in TreePaths \ dirs : d[q] = t[q]
    BY DEF WithDirectories
<1> HIDE DEF d
<1>4. ASSUME NEW p \in TreePaths, Exists(d, p), NEW q \in Above(p) PROVE IsDirectory(d, q)
    <2>1. q \in TreePaths
        BY PathForm
    <2>2. CASE p \in dirs
        BY <1>1, <1>2, <2>1, <2>2, NodeKinds
    <2>3. CASE p \notin dirs
        <3>1. Exists(t, p)
            BY <1>3, <1>4, <2>3 DEF Exists
        <3>2. t[q] = Directory
            BY <2>1, <3>1, NodeKinds DEF WellFormed
        <3>3. d[q] = Directory
            BY <1>2, <1>3, <2>1, <3>2
        <3> QED
            BY <1>1, <2>1, <3>3, NodeKinds
    <2> QED
        BY <2>2, <2>3
<1>5. WellFormed(d)
    BY <1>4 DEF WellFormed
<1>6. \A q \in dirs : t[q] \in {Absent, Directory}
    BY NodeKinds
<1> QED
    BY <1>1, <1>2, <1>3, <1>5, <1>6 DEF d

\* The directories on the way to a path.
LEMMA WayMade ==
    ASSUME NEW t \in Tree, WellFormed(t), NEW p \in TreePaths, Reachable(t, p)
    PROVE  /\ Effect(t, WithDirectories(t, Above(p)), {p})
           /\ \A q \in Above(p) : /\ WithDirectories(t, Above(p))[q] = Directory
                                  /\ t[q] \in {Absent, Directory}
           /\ \A q \in TreePaths \ Above(p) : WithDirectories(t, Above(p))[q] = t[q]
<1>1. \A q \in Above(p) : q \in TreePaths /\ Above(q) \subseteq Above(p) /\ ~IsFile(t, q)
    BY AboveOrder DEF Reachable
<1> DEFINE d == WithDirectories(t, Above(p))
<1>2. /\ d \in Tree /\ WellFormed(d)
      /\ \A q \in Above(p) : d[q] = Directory
      /\ \A q \in TreePaths \ Above(p) : d[q] = t[q]
      /\ \A q \in Above(p) : t[q] \in {Absent, Directory}
    BY <1>1, DirectoriesMade
<1> HIDE DEF d
<1>3. Changes(t, d, {p})
    BY <1>2 DEF Changes, ChangedAt
<1> QED
    BY <1>2, <1>3 DEF Effect, d

\* A file written.
LEMMA FileWritten ==
    ASSUME NEW t \in Tree, WellFormed(t), NEW p \in TreePaths, CanCopyTo(t, p),
           NEW data \in Seq(Texts)
    PROVE  Effect(t, WithFile(t, p, data), {p})
<1> DEFINE d == WithDirectories(t, Above(p))
           f == WithFile(t, p, data)
<1>1. Reachable(t, p) /\ ~IsDirectory(t, p)
    BY DEF CanCopyTo
<1>2. /\ d \in Tree /\ WellFormed(d) /\ Changes(t, d, {p})
      /\ \A q \in Above(p) : d[q] = Directory
      /\ \A q \in TreePaths \ Above(p) : d[q] = t[q]
    BY <1>1, WayMade DEF Effect
<1>3. File(data) \in Node
    BY DEF File, Node
<1>4. f = [d EXCEPT ![p] = File(data)]
    BY DEF WithFile
<1> HIDE DEF d, f
<1>5. f \in Tree /\ f[p] = File(data) /\ \A q \in TreePaths \ {p} : f[q] = d[q]
    BY <1>2, <1>3, <1>4 DEF Tree
<1>6. ASSUME NEW q \in TreePaths, Exists(f, q), NEW r \in Above(q) PROVE IsDirectory(f, r)
    <2>1. r \in TreePaths /\ r # q
        BY AboveOrder
    <2>2. CASE q = p
        <3>1. f[r] = Directory
            BY <1>2, <1>5, <2>1, <2>2
        <3> QED
            BY <1>5, <2>1, <3>1, NodeKinds
    <2>3. CASE q # p
        <3>1. Exists(d, q)
            BY <1>5, <1>6, <2>3 DEF Exists
        <3>2. d[r] = Directory
            BY <1>2, <2>1, <3>1, NodeKinds DEF WellFormed
        <3>3. d[p] # Directory
            <4>1. p \notin Above(p)
                BY AboveOrder
            <4>2. d[p] = t[p]
                BY <1>2, <4>1
            <4> QED
                BY <1>1, <4>2, NodeKinds
        <3>4. f[r] = Directory
            BY <1>5, <2>1, <3>2, <3>3
        <3> QED
            BY <1>5, <2>1, <3>4, NodeKinds
    <2> QED
        BY <2>2, <2>3
<1>7. WellFormed(f)
    BY <1>6 DEF WellFormed
<1>8. Changes(t, f, {p})
    BY <1>2, <1>5 DEF Changes, ChangedAt
<1> QED
    BY <1>5, <1>7, <1>8 DEF Effect, f

\* A file or an empty directory removed.
LEMMA PathRemoved ==
    ASSUME NEW t \in Tree, WellFormed(t), NEW p \in TreePaths, Removable(t, p)
    PROVE  Effect(t, Without(t, p), {p})
<1> DEFINE w == Without(t, p)
<1>1. w \in Tree /\ w[p] = Absent /\ \A q \in TreePaths \ {p} : w[q] = t[q]
    BY DEF Without, Tree, Node
<1> HIDE DEF w
<1>2. ASSUME NEW q \in TreePaths, Exists(w, q), NEW r \in Above(q) PROVE IsDirectory(w, r)
    <2>1. r \in TreePaths /\ q # p
        BY <1>1, <1>2, AboveOrder, NodeKinds
    <2>2. Exists(t, q)
        BY <1>1, <1>2, <2>1 DEF Exists
    <2>3. IsDirectory(t, r)
        BY <2>2 DEF WellFormed
    <2>4. ASSUME r = p PROVE FALSE
        <3>1. IsStrictPrefix(p, q)
            BY <2>1, <2>4, AboveIsPrefix DEF IsStrictPrefix
        <3> QED
            BY <2>2, <2>3, <2>4, <3>1 DEF Removable
    <2> QED
        BY <1>1, <2>1, <2>3, <2>4 DEF IsDirectory
<1>3. WellFormed(w)
    BY <1>2 DEF WellFormed
<1>4. Changes(t, w, {p})
    BY <1>1 DEF Changes, ChangedAt
<1> QED
    BY <1>1, <1>3, <1>4 DEF Effect, w

\* What follows from beginning with a path: the path, or something below.
LEMMA PrefixCases ==
    ASSUME NEW p \in TreePaths, NEW q \in TreePaths
    PROVE  IsPrefix(p, q) <=> p = q \/ p \in Above(q)
<1>1. q \in Seq(STRING) /\ Len(q) \in Nat
    BY PathForm
<1>2. IsPrefix(q, q)
    BY <1>1 DEF IsPrefix
<1> QED
    BY <1>2, AboveIsPrefix

\* What comes from below a path.
LEMMA SourceBelow ==
    ASSUME NEW from \in TreePaths, NEW to \in TreePaths, NEW q \in TreePaths, to \in Above(q),
           Rebased(q, to, from) \in TreePaths
    PROVE  from \in Above(Rebased(q, to, from))
<1> DEFINE rest == SubSeq(q, Len(to) + 1, Len(q))
           source == from \o rest
<1>1. /\ from \in Seq(STRING) /\ Len(from) \in Nat /\ Len(from) >= 1
      /\ to \in Seq(STRING) /\ Len(to) \in Nat /\ Len(to) >= 1
      /\ q \in Seq(STRING) /\ Len(q) \in Nat
    BY PathForm
<1>2. IsPrefix(to, q) /\ to # q
    BY AboveIsPrefix
<1>3. Len(to) <= Len(q) /\ SubSeq(to, 1, Len(to)) = SubSeq(q, 1, Len(to))
    BY <1>2 DEF IsPrefix
<1>4. Len(to) # Len(q)
    <2>1. SubSeq(to, 1, Len(to)) = to /\ SubSeq(q, 1, Len(q)) = q
        BY <1>1
    <2> QED
        BY <1>2, <1>3, <2>1
<1>5. Len(to) + 1 \in Nat \ {0} /\ Len(q) \in Int /\ Len(q) <= Len(q)
    BY <1>1
<1>6. rest \in Seq(STRING)
    BY <1>1, <1>5, PartTyped
<1>7. Len(rest) = Len(q) - Len(to)
    <2>1. Len(to) + 1 <= Len(q)
        BY <1>1, <1>3, <1>4
    <2> QED
        BY <1>1, <2>1
<1> HIDE DEF rest
<1>8. Len(source) = Len(from) + Len(rest) /\ SubSeq(source, 1, Len(from)) = from
    BY <1>1, <1>6
<1>9. Len(from) \in 1 .. Len(source) - 1
    BY <1>1, <1>3, <1>4, <1>7, <1>8
<1> QED
    BY <1>8, <1>9 DEF Above, rest, Rebased

----------------------------------------------------------------------------
(***************************************************************************)
(* A move takes what is below one path to the same place below another.    *)
(***************************************************************************)

\* The members of two sequences joined, and of a part.
LEMMA Joined ==
    ASSUME NEW S, NEW s \in Seq(S), NEW u \in Seq(S), NEW w, w = s \o u
    PROVE  /\ w \in Seq(S) /\ Len(w) = Len(s) + Len(u)
           /\ \A i \in 1 .. Len(s) : w[i] = s[i]
           /\ \A i \in 1 .. Len(u) : w[i + Len(s)] = u[i]
OBVIOUS

\* What is left of a sequence without its first n members.
LEMMA RestOf ==
    ASSUME NEW S, NEW s \in Seq(S), NEW n \in Nat, n <= Len(s)
    PROVE  /\ SubSeq(s, n + 1, Len(s)) \in Seq(S) /\ Len(SubSeq(s, n + 1, Len(s))) = Len(s) - n
           /\ \A i \in 1 .. Len(s) - n : SubSeq(s, n + 1, Len(s))[i] = s[i + n]
OBVIOUS

\* Sequences with the same members are the same.
LEMMA SameMembers ==
    ASSUME NEW S, NEW s \in Seq(S), NEW u \in Seq(S), Len(s) = Len(u),
           \A i \in 1 .. Len(s) : s[i] = u[i]
    PROVE  s = u
OBVIOUS

\* What a move takes lies below its target, and the way back is the inverse.
LEMMA MovedBelow ==
    ASSUME NEW from \in TreePaths, NEW to \in TreePaths, NEW q \in TreePaths, IsPrefix(from, q),
           Rebased(q, from, to) \in TreePaths
    PROVE  /\ IsPrefix(to, Rebased(q, from, to))
           /\ Rebased(Rebased(q, from, to), to, from) = q
<1> DEFINE rest == SubSeq(q, Len(from) + 1, Len(q))
           there == to \o rest
<1>1. /\ from \in Seq(STRING) /\ Len(from) \in Nat /\ Len(from) >= 1
      /\ to \in Seq(STRING) /\ Len(to) \in Nat /\ Len(to) >= 1
      /\ q \in Seq(STRING) /\ Len(q) \in Nat
    BY PathForm
<1>2. Len(from) <= Len(q) /\ SubSeq(from, 1, Len(from)) = SubSeq(q, 1, Len(from))
    BY DEF IsPrefix
<1>3. rest \in Seq(STRING) /\ Len(rest) = Len(q) - Len(from)
      /\ \A i \in 1 .. Len(q) - Len(from) : rest[i] = q[i + Len(from)]
    BY <1>1, <1>2
<1>4. \A i \in 1 .. Len(from) : from[i] = q[i]
    <2>1. SubSeq(from, 1, Len(from)) = from
        BY <1>1
    <2>2. Len(from) \in 1 .. Len(q)
        BY <1>1, <1>2
    <2>3. \A i \in 1 .. Len(from) : SubSeq(q, 1, Len(from))[i] = q[i]
        BY <1>1, <2>2, Beginning
    <2> QED
        BY <1>2, <2>1, <2>3
<1> HIDE DEF rest
<1>5. /\ there \in Seq(STRING) /\ Len(there) = Len(to) + Len(rest)
      /\ \A i \in 1 .. Len(to) : there[i] = to[i]
      /\ \A i \in 1 .. Len(rest) : there[i + Len(to)] = rest[i]
    <2>1. to \in Seq(STRING) /\ rest \in Seq(STRING) /\ there = to \o rest
        BY <1>1, <1>3
    <2> HIDE DEF there
    <2> QED
        BY <2>1, Joined
<1> HIDE DEF there
<1>6. IsPrefix(to, there)
    <2>1. Len(to) <= Len(there) /\ Len(to) \in 1 .. Len(there)
        BY <1>1, <1>2, <1>3, <1>5
    <2>2. /\ SubSeq(there, 1, Len(to)) \in Seq(STRING) /\ Len(SubSeq(there, 1, Len(to))) = Len(to)
          /\ \A i \in 1 .. Len(to) : SubSeq(there, 1, Len(to))[i] = there[i]
        BY <1>5, <2>1, Beginning
    <2>3. SubSeq(to, 1, Len(to)) = to
        BY <1>1
    <2>4. \A i \in 1 .. Len(to) : to[i] = SubSeq(there, 1, Len(to))[i]
        BY <1>5, <2>2
    <2>5. to = SubSeq(there, 1, Len(to))
        BY <1>1, <2>2, <2>4, SameMembers
    <2> QED
        BY <2>1, <2>3, <2>5 DEF IsPrefix
<1>7. SubSeq(there, Len(to) + 1, Len(there)) = rest
    <2> DEFINE back == SubSeq(there, Len(to) + 1, Len(there))
    <2>1. Len(to) <= Len(there) /\ Len(there) - Len(to) = Len(rest)
        BY <1>1, <1>2, <1>3, <1>5
    <2>2. /\ back \in Seq(STRING) /\ Len(back) = Len(rest)
          /\ \A i \in 1 .. Len(rest) : back[i] = there[i + Len(to)]
        BY <1>1, <1>5, <2>1, RestOf
    <2> HIDE DEF back
    <2>3. \A i \in 1 .. Len(back) : back[i] = rest[i]
        BY <1>5, <2>2
    <2>4. back = rest
        BY <1>3, <2>2, <2>3, SameMembers
    <2> QED
        BY <2>4 DEF back
<1>8. from \o rest = q
    <2> DEFINE w == from \o rest
    <2>1. /\ w \in Seq(STRING) /\ Len(w) = Len(from) + Len(rest)
          /\ \A i \in 1 .. Len(from) : w[i] = from[i]
          /\ \A i \in 1 .. Len(rest) : w[i + Len(from)] = rest[i]
        BY <1>1, <1>3, Joined
    <2> HIDE DEF w
    <2>2. Len(w) = Len(q)
        BY <1>1, <1>2, <1>3, <2>1
    <2>3. ASSUME NEW i \in 1 .. Len(w) PROVE w[i] = q[i]
        <3>1. CASE i <= Len(from)
            <4>1. i \in 1 .. Len(from)
                BY <1>1, <3>1
            <4> QED
                BY <1>4, <2>1, <4>1
        <3>2. CASE i > Len(from)
            <4>1. /\ i - Len(from) \in 1 .. Len(rest)
                  /\ i - Len(from) \in 1 .. Len(q) - Len(from)
                  /\ (i - Len(from)) + Len(from) = i
                BY <1>1, <1>3, <2>2, <3>2
            <4>2. w[(i - Len(from)) + Len(from)] = rest[i - Len(from)]
                BY <2>1, <4>1
            <4>3. rest[i - Len(from)] = q[(i - Len(from)) + Len(from)]
                BY <1>3, <4>1
            <4> QED
                BY <4>1, <4>2, <4>3
        <3> QED
            BY <1>1, <3>1, <3>2
    <2>4. w = q
        BY <1>1, <2>1, <2>2, <2>3, SameMembers
    <2> QED
        BY <2>4 DEF w
<1> QED
    BY <1>6, <1>7, <1>8 DEF Rebased, rest, there

\* What lies above keeps its place.
LEMMA MovedInOrder ==
    ASSUME NEW from \in TreePaths, NEW to \in TreePaths, NEW q \in TreePaths, NEW r \in Above(q),
           IsPrefix(from, r), Rebased(q, from, to) \in TreePaths
    PROVE  Rebased(r, from, to) \in Above(Rebased(q, from, to))
<1> DEFINE rest == SubSeq(q, Len(from) + 1, Len(q))
           there == to \o rest
<1>1. /\ from \in Seq(STRING) /\ Len(from) \in Nat /\ Len(from) >= 1
      /\ to \in Seq(STRING) /\ Len(to) \in Nat /\ Len(to) >= 1
      /\ q \in Seq(STRING) /\ Len(q) \in Nat /\ Len(q) >= 1
    BY PathForm
<1>2. PICK m \in 1 .. Len(q) - 1 : r = SubSeq(q, 1, m)
    BY DEF Above
<1>3. r \in Seq(STRING) /\ Len(r) = m /\ \A i \in 1 .. m : r[i] = q[i]
    <2>1. m \in 1 .. Len(q)
        BY <1>1, <1>2
    <2> QED
        BY <1>1, <1>2, <2>1, Beginning
<1>4. Len(from) <= m
    BY <1>3 DEF IsPrefix
<1> DEFINE short == SubSeq(r, Len(from) + 1, Len(r))
           n == m - Len(from)
<1>5. /\ rest \in Seq(STRING) /\ Len(rest) = Len(q) - Len(from)
      /\ \A i \in 1 .. Len(q) - Len(from) : rest[i] = q[i + Len(from)]
    BY <1>1, <1>2, <1>4
<1>6. /\ short \in Seq(STRING) /\ Len(short) = n
      /\ \A i \in 1 .. n : short[i] = r[i + Len(from)]
    BY <1>1, <1>3, <1>4
<1> HIDE DEF rest, short
<1>7. n \in Nat /\ n < Len(rest) /\ n = m - Len(from)
    BY <1>1, <1>2, <1>4, <1>5
<1>8. \A i \in 1 .. n : short[i] = rest[i]
    <2> SUFFICES ASSUME NEW i \in 1 .. n PROVE short[i] = rest[i]
        OBVIOUS
    <2>1. i + Len(from) \in 1 .. m /\ i \in 1 .. Len(q) - Len(from)
        BY <1>1, <1>2, <1>5, <1>7
    <2> QED
        BY <1>3, <1>5, <1>6, <2>1
<1> HIDE DEF n
<1>9. /\ there \in Seq(STRING) /\ Len(there) = Len(to) + Len(rest)
      /\ \A i \in 1 .. Len(to) : there[i] = to[i]
      /\ \A i \in 1 .. Len(rest) : there[i + Len(to)] = rest[i]
    <2>1. to \in Seq(STRING) /\ rest \in Seq(STRING) /\ there = to \o rest
        BY <1>1, <1>5
    <2> HIDE DEF there
    <2> QED
        BY <2>1, Joined
<1> DEFINE k == Len(to) + n
<1>10. k \in 1 .. Len(there) - 1 /\ k \in 1 .. Len(there)
    BY <1>1, <1>5, <1>7, <1>9
<1>11. /\ SubSeq(there, 1, k) \in Seq(STRING) /\ Len(SubSeq(there, 1, k)) = k
       /\ \A i \in 1 .. k : SubSeq(there, 1, k)[i] = there[i]
    BY <1>9, <1>10, Beginning
<1>12. /\ to \o short \in Seq(STRING) /\ Len(to \o short) = k
       /\ \A i \in 1 .. Len(to) : (to \o short)[i] = to[i]
       /\ \A i \in 1 .. n : (to \o short)[i + Len(to)] = short[i]
    <2> DEFINE w == to \o short
    <2>1. to \in Seq(STRING) /\ short \in Seq(STRING) /\ w = to \o short
        BY <1>1, <1>6
    <2> HIDE DEF w
    <2>2. /\ w \in Seq(STRING) /\ Len(w) = Len(to) + Len(short)
          /\ \A i \in 1 .. Len(to) : w[i] = to[i]
          /\ \A i \in 1 .. Len(short) : w[i + Len(to)] = short[i]
        BY <2>1, Joined
    <2> QED
        BY <1>6, <2>2 DEF w
<1> HIDE DEF there
<1>13. ASSUME NEW i \in 1 .. k PROVE SubSeq(there, 1, k)[i] = (to \o short)[i]
    <2>1. SubSeq(there, 1, k)[i] = there[i]
        BY <1>11
    <2>2. CASE i <= Len(to)
        <3>1. i \in 1 .. Len(to)
            BY <1>1, <1>7, <2>2
        <3> QED
            BY <1>9, <1>12, <2>1, <3>1
    <2>3. CASE i > Len(to)
        <3>1. PICK j \in 1 .. n : i = j + Len(to)
            <4>1. i - Len(to) \in 1 .. n /\ i = (i - Len(to)) + Len(to)
                BY <1>1, <1>7, <2>3
            <4> QED
                BY <4>1
        <3>2. j \in 1 .. Len(rest)
            BY <1>1, <1>5, <1>7
        <3>3. there[j + Len(to)] = rest[j] /\ (to \o short)[j + Len(to)] = short[j]
            BY <1>9, <1>12, <3>2
        <3> QED
            BY <1>8, <2>1, <3>1, <3>3
    <2>4. i <= Len(to) \/ i > Len(to)
        BY <1>1, <1>7
    <2> QED
        BY <2>2, <2>3, <2>4
<1>14. SubSeq(there, 1, k) = to \o short
    <2> DEFINE u == SubSeq(there, 1, k)
               v == to \o short
    <2>1. u \in Seq(STRING) /\ v \in Seq(STRING) /\ Len(u) = Len(v)
          /\ \A i \in 1 .. Len(u) : u[i] = v[i]
        BY <1>11, <1>12, <1>13
    <2> HIDE DEF u, v
    <2>2. u = v
        BY <2>1, SameMembers
    <2> QED
        BY <2>2 DEF u, v
<1>15. to \o short \in {SubSeq(there, 1, x) : x \in 1 .. Len(there) - 1}
    BY <1>10, <1>14
<1> QED
    BY <1>15 DEF Rebased, Above, rest, short, there

\* Nothing lies below two paths of which neither is above the other.
LEMMA NotBelowBoth ==
    ASSUME NEW p \in TreePaths, NEW q \in TreePaths, NEW r \in TreePaths,
           IsPrefix(p, r), IsPrefix(q, r)
    PROVE  IsPrefix(p, q) \/ IsPrefix(q, p)
<1>1. p = r \/ p \in Above(r)
    BY PrefixCases
<1>2. q = r \/ q \in Above(r)
    BY PrefixCases
<1>3. CASE p = r \/ q = r
    BY <1>3
<1>4. CASE p \in Above(r) /\ q \in Above(r)
    <2>1. p = q \/ p \in Above(q) \/ q \in Above(p)
        BY <1>4, AboveOrder
    <2> QED
        BY <2>1, PrefixCases
<1> QED
    BY <1>1, <1>2, <1>3, <1>4

\* What a possible move leaves at each path, and that it leaves files and
\* directories in directories.
LEMMA MoveMade ==
    ASSUME NEW t \in Tree, WellFormed(t), NEW from \in TreePaths, NEW to \in TreePaths,
           CanMove(t, from, to)
    PROVE  /\ Moved(WithDirectories(t, Above(to)), from, to) \in Tree
           /\ WellFormed(Moved(WithDirectories(t, Above(to)), from, to))
           /\ ~IsPrefix(to, from)
<1> DEFINE d == WithDirectories(t, Above(to))
           m == Moved(d, from, to)
           Source(q) == Rebased(q, to, from)
           New(q) == IF IsPrefix(from, q) THEN Absent
                     ELSE IF IsPrefix(to, q) THEN IF Source(q) \in TreePaths THEN d[Source(q)]
                                                  ELSE Absent
                     ELSE d[q]
<1>1. /\ Exists(t, from) /\ Reachable(t, to) /\ ~IsPrefix(from, to)
      /\ Exists(t, to) => IsFile(t, to)
    BY DEF CanMove
<1>2. /\ d \in Tree /\ WellFormed(d)
      /\ \A q \in Above(to) : d[q] = Directory
      /\ \A q \in TreePaths \ Above(to) : d[q] = t[q]
    BY <1>1, WayMade DEF Effect
<1>3. ~IsPrefix(to, from)
    <2>1. ~IsDirectory(t, to)
        BY <1>1 DEF Exists, IsFile, IsDirectory
    <2>2. to \notin Above(from)
        BY <1>1, <2>1 DEF WellFormed
    <2>3. from # to
        BY <1>1, PrefixCases
    <2> QED
        BY <2>2, <2>3, PrefixCases
<1>4. m = [q \in TreePaths |-> New(q)]
    BY DEF Moved
<1> HIDE DEF d, m
<1>5. ASSUME NEW q \in TreePaths PROVE New(q) \in Node
    <2> HIDE DEF Source
    <2> QED
        BY <1>2 DEF Tree, Node
<1>6. m \in Tree
    <2> HIDE DEF New
    <2> QED
        BY <1>4, <1>5 DEF Tree
<1>7. \A q \in TreePaths : m[q] = New(q)
    <2> HIDE DEF New
    <2> QED
        BY <1>4
<1> HIDE DEF Source
<1>8. ASSUME NEW q \in TreePaths, NEW r \in Above(q), m[q] # Absent PROVE m[r] = Directory
    <2>1. r \in TreePaths /\ IsPrefix(r, q)
        BY AboveOrder, PrefixCases
    <2>2. ~IsPrefix(from, q)
        BY <1>7, <1>8
    <2>3. ~IsPrefix(from, r)
        <3>1. CASE from = r
            BY <2>1, <2>2, <3>1
        <3>2. CASE from \in Above(r)
            BY <2>1, <2>2, <3>2, AboveOrder, PrefixCases
        <3> QED
            BY <2>1, <3>1, <3>2, PrefixCases
    <2>4. CASE ~IsPrefix(to, q)
        <3>1. d[q] # Absent
            BY <1>7, <1>8, <2>2, <2>4
        <3>2. d[r] = Directory
            BY <1>2, <2>1, <3>1, NodeKinds DEF WellFormed
        <3>3. ~IsPrefix(to, r)
            <4>1. CASE to = r
                BY <2>1, <2>4, <4>1
            <4>2. CASE to \in Above(r)
                BY <2>1, <2>4, <4>2, AboveOrder, PrefixCases
            <4> QED
                BY <2>1, <4>1, <4>2, PrefixCases
        <3> QED
            BY <1>7, <2>1, <2>3, <3>2, <3>3
    <2>5. CASE IsPrefix(to, q) /\ ~IsPrefix(to, r)
        <3>1. r \in Above(to)
            <4>1. to = q \/ to \in Above(q)
                BY <2>5, PrefixCases
            <4>2. to = q \/ r = to \/ r \in Above(to) \/ to \in Above(r)
                BY <4>1, AboveOrder
            <4> QED
                BY <2>1, <2>5, <4>2, PrefixCases
        <3>2. d[r] = Directory
            BY <1>2, <3>1
        <3> QED
            BY <1>7, <2>1, <2>3, <2>5, <3>2
    <2>6. CASE IsPrefix(to, r)
        <3>1. IsPrefix(to, q)
            <4>1. CASE to = r
                BY <2>1, <4>1
            <4>2. CASE to \in Above(r)
                BY <2>1, <4>2, AboveOrder, PrefixCases
            <4> QED
                BY <2>1, <2>6, <4>1, <4>2, PrefixCases
        <3>2. Source(q) \in TreePaths /\ d[Source(q)] # Absent
            BY <1>7, <1>8, <2>2, <3>1
        <3>3. Source(r) \in Above(Source(q))
            BY <2>6, <3>2, MovedInOrder DEF Source
        <3>4. Source(r) \in TreePaths
            BY <3>2, <3>3, AboveOrder
        <3>5. d[Source(r)] = Directory
            BY <1>2, <3>2, <3>3, <3>4, NodeKinds DEF WellFormed
        <3> QED
            BY <1>7, <2>1, <2>3, <2>6, <3>4, <3>5
    <2> QED
        BY <2>4, <2>5, <2>6
<1>9. WellFormed(m)
    <2>1. ASSUME NEW q \in TreePaths, Exists(m, q), NEW r \in Above(q) PROVE IsDirectory(m, r)
        <3>1. m[q] # Absent /\ r \in TreePaths
            BY <1>6, <2>1, NodeKinds, AboveOrder
        <3>2. m[r] = Directory
            BY <1>8, <3>1
        <3> QED
            BY <1>6, <3>1, <3>2, NodeKinds
    <2> QED
        BY <2>1 DEF WellFormed
<1> QED
    BY <1>3, <1>6, <1>9 DEF m, d

----------------------------------------------------------------------------
(***************************************************************************)
(* The files alone.  Undoing a record depends on nothing else.             *)
(***************************************************************************)
UndoneFiles(f, r, saved) ==
    IF r.type = "rename" THEN Moved(f, r.path, r.old)
    ELSE IF Restores(r) THEN [f EXCEPT ![r.path] = File(saved)]
    ELSE IF Removes(r) THEN Without(f, r.path)
    ELSE f

\* The files of a tree are a tree.
LEMMA FilesAt ==
    ASSUME NEW t \in Tree
    PROVE  /\ Files(t) \in Tree
           /\ \A p \in TreePaths : /\ Files(t)[p] = IF IsFile(t, p) THEN t[p] ELSE Absent
                                   /\ IsFile(t, p) <=> Files(t)[p] # Absent
                                   /\ Files(t)[p] # Absent => Files(t)[p] = t[p]
<1>1. \A p \in TreePaths : Files(t)[p] = IF IsFile(t, p) THEN t[p] ELSE Absent
    BY DEF Files
<1>2. Files(t) \in Tree
    BY NodeKinds DEF Files, Tree, Node
<1> QED
    BY <1>1, <1>2, NodeKinds

\* Two trees with the same files.
LEMMA SameFiles ==
    ASSUME NEW t, NEW u, \A p \in TreePaths : (IsFile(t, p) \/ IsFile(u, p)) => t[p] = u[p]
    PROVE  Files(t) = Files(u)
<1>1. \A p \in TreePaths : (IF IsFile(t, p) THEN t[p] ELSE Absent)
                          = (IF IsFile(u, p) THEN u[p] ELSE Absent)
    BY DEF IsFile
<1> QED
    BY <1>1 DEF Files

\* Directories made where no file is.
LEMMA FilesWithDirectories ==
    ASSUME NEW t \in Tree, NEW dirs, \A q \in dirs \cap TreePaths : ~IsFile(t, q)
    PROVE  Files(WithDirectories(t, dirs)) = Files(t)
<1>1. ASSUME NEW p \in TreePaths, IsFile(t, p) \/ IsFile(WithDirectories(t, dirs), p)
      PROVE  t[p] = WithDirectories(t, dirs)[p]
    BY <1>1 DEF WithDirectories, IsFile, Directory
<1> QED
    BY <1>1, SameFiles

\* A file written, a path removed, and a move.
LEMMA FilesWithFile ==
    ASSUME NEW t \in Tree, NEW p \in TreePaths, Reachable(t, p), NEW data
    PROVE  Files(WithFile(t, p, data)) = [Files(t) EXCEPT ![p] = File(data)]
<1> DEFINE d == WithDirectories(t, Above(p))
           w == WithFile(t, p, data)
           f == [Files(d) EXCEPT ![p] = File(data)]
<1>1. Files(d) = Files(t)
    BY FilesWithDirectories DEF Reachable
<1>2. \A q \in TreePaths : w[q] = IF q = p THEN File(data) ELSE d[q]
    BY DEF WithFile, WithDirectories
<1>3. IsFile(w, p)
    BY <1>2 DEF IsFile, File
<1> HIDE DEF d, w
<1>4. \A q \in TreePaths : (IF IsFile(w, q) THEN w[q] ELSE Absent)
                         = IF q = p THEN File(data) ELSE IF IsFile(d, q) THEN d[q] ELSE Absent
    BY <1>2, <1>3 DEF IsFile
<1>5. Files(w) = [Files(d) EXCEPT ![p] = File(data)]
    BY <1>4 DEF Files
<1> QED
    BY <1>1, <1>5 DEF w

\* Removing a path does to the files what it does to the tree.
LEMMA FilesWithout ==
    ASSUME NEW t \in Tree, NEW p \in TreePaths PROVE Files(Without(t, p)) = Without(Files(t), p)
<1> DEFINE w == Without(t, p)
<1>1. \A q \in TreePaths : w[q] = IF q = p THEN Absent ELSE t[q]
    BY DEF Without, Tree
<1> HIDE DEF w
<1>2. ~IsFile(w, p)
    BY <1>1 DEF IsFile, Absent
<1>3. \A q \in TreePaths : (IF IsFile(w, q) THEN w[q] ELSE Absent)
                         = IF q = p THEN Absent ELSE IF IsFile(t, q) THEN t[q] ELSE Absent
    BY <1>1, <1>2 DEF IsFile
<1>4. Files(w) = [Files(t) EXCEPT ![p] = Absent]
    BY <1>3 DEF Files
<1> QED
    BY <1>4 DEF Without, w

\* A move does to the files what it does to the tree.
LEMMA FilesMoved ==
    ASSUME NEW t \in Tree, NEW from, NEW to
    PROVE  Files(Moved(t, from, to)) = Moved(Files(t), from, to)
<1> DEFINE Source(q) == Rebased(q, to, from)
           f == Files(t)
           m == Moved(t, from, to)
           New(q) == IF IsPrefix(from, q) THEN Absent
                     ELSE IF IsPrefix(to, q) THEN IF Source(q) \in TreePaths THEN t[Source(q)]
                                                  ELSE Absent
                     ELSE t[q]
           NewFile(q) == IF IsPrefix(from, q) THEN Absent
                         ELSE IF IsPrefix(to, q) THEN IF Source(q) \in TreePaths THEN f[Source(q)]
                                                      ELSE Absent
                         ELSE f[q]
<1>1. m = [q \in TreePaths |-> New(q)] /\ Moved(f, from, to) = [q \in TreePaths |-> NewFile(q)]
    BY DEF Moved
<1>2. \A p \in TreePaths : f[p] = IF t[p].kind = "file" THEN t[p] ELSE Absent
    BY DEF Files, IsFile
<1>3. Absent.kind # "file"
    BY DEF Absent
<1> HIDE DEF f, m, Source
<1>4. ASSUME NEW q \in TreePaths PROVE NewFile(q) = IF New(q).kind = "file" THEN New(q) ELSE Absent
    BY <1>2, <1>3
<1> HIDE DEF New, NewFile
<1>5. \A q \in TreePaths : (IF IsFile(m, q) THEN m[q] ELSE Absent) = NewFile(q)
    BY <1>1, <1>4 DEF IsFile
<1>6. Files(m) = [q \in TreePaths |-> NewFile(q)]
    BY <1>5 DEF Files
<1> QED
    BY <1>1, <1>6 DEF m, f

----------------------------------------------------------------------------
(***************************************************************************)
(* What an operation and its undoing do to the files, whole or not.        *)
(***************************************************************************)

\* The paths an operation or a record names.
Names(x) == x.path \in TreePaths /\ (x.type = "rename" => x.old \in TreePaths)

\* A move with the directories on its way.
LEMMA FilesOfMove ==
    ASSUME NEW t \in Tree, NEW from, NEW to \in TreePaths, Reachable(t, to)
    PROVE  Files(Moved(WithDirectories(t, Above(to)), from, to)) = Moved(Files(t), from, to)
<1>1. WithDirectories(t, Above(to)) \in Tree
    BY DEF WithDirectories, Tree, Node
<1>2. Files(WithDirectories(t, Above(to))) = Files(t)
    BY FilesWithDirectories DEF Reachable
<1> QED
    BY <1>1, <1>2, FilesMoved

\* An operation changes the files at its path, or moves them.
LEMMA FilesPerformed ==
    ASSUME NEW t \in Tree, NEW op, Names(op), CanPerform(t, op)
    PROVE  /\ op.type = "write" => Files(Performed(t, op)) = [Files(t) EXCEPT ![op.path] = File(<<op.text>>)]
           /\ op.type = "append" => Files(Performed(t, op))
                    = [Files(t) EXCEPT ![op.path] = File(Append(DataAt(t, op.path), op.text))]
           /\ op.type = "delete" => Files(Performed(t, op)) = Without(Files(t), op.path)
           /\ op.type = "rename" => Files(Performed(t, op)) = Moved(Files(t), op.old, op.path)
           /\ op.type = "mkdir" => Files(Performed(t, op)) = Files(t)
           /\ op.type \in {"write", "append", "delete", "rename", "mkdir"}
<1>1. Reachable(t, op.path) /\ op.path \in TreePaths
    BY DEF CanPerform, Names
<1>2. op.type \in {"write", "append", "delete", "rename", "mkdir"}
    BY DEF CanPerform
<1>3. CASE op.type = "write"
    BY <1>1, <1>3, FilesWithFile DEF Performed
<1>4. CASE op.type = "append"
    BY <1>1, <1>4, FilesWithFile DEF Performed
<1>5. CASE op.type = "delete"
    BY <1>1, <1>5, FilesWithout DEF Performed
<1>6. CASE op.type = "rename"
    BY <1>1, <1>6, FilesOfMove DEF Performed
<1>7. CASE op.type = "mkdir"
    <2>1. ~IsFile(t, op.path)
        BY <1>7 DEF CanPerform
    <2>2. \A q \in (Above(op.path) \cup {op.path}) \cap TreePaths : ~IsFile(t, q)
        BY <1>1, <2>1 DEF Reachable
    <2>3. Files(WithDirectories(t, Above(op.path) \cup {op.path})) = Files(t)
        BY <2>2, FilesWithDirectories
    <2> QED
        BY <1>7, <2>3 DEF Performed
<1> QED
    BY <1>2, <1>3, <1>4, <1>5, <1>6, <1>7

\* An operation refused changes no file; cut short, it may have emptied or
\* rewritten the file at its path.
LEMMA FilesRefused ==
    ASSUME NEW t \in Tree, NEW op, op.path \in TreePaths
    PROVE  Files(Refused(t, op)) = Files(t)
<1>1. ASSUME Reachable(t, op.path) PROVE Files(WithDirectories(t, Above(op.path))) = Files(t)
    BY <1>1, FilesWithDirectories DEF Reachable
<1> QED
    BY <1>1 DEF Refused

\* An operation cut short leaves the files, or changes the one at its path.
LEMMA FilesInterrupted ==
    ASSUME NEW t \in Tree, NEW op, op.path \in TreePaths, CanPerform(t, op),
           NEW u \in Interrupted(t, op)
    PROVE  \/ Files(u) = Files(t)
           \/ /\ op.type \in {"write", "append"}
              /\ \E data : Files(u) = [Files(t) EXCEPT ![op.path] = File(data)]
<1>1. Reachable(t, op.path)
    BY DEF CanPerform
<1>2. Files(WithDirectories(t, Above(op.path))) = Files(t)
    BY <1>1, FilesWithDirectories DEF Reachable
<1>3. \A data : Files(WithFile(t, op.path, data)) = [Files(t) EXCEPT ![op.path] = File(data)]
    BY <1>1, FilesWithFile
<1>4. \/ u = t \/ u = WithDirectories(t, Above(op.path))
      \/ op.type \in {"write", "append"} /\ \E data : u = WithFile(t, op.path, data)
    BY DEF Interrupted
<1> QED
    BY <1>2, <1>3, <1>4

\* The same of a record undone.
LEMMA FilesUndone ==
    ASSUME NEW t \in Tree, NEW r, Names(r), CanUndo(t, r), NEW saved
    PROVE  Files(Undone(t, r, saved)) = UndoneFiles(Files(t), r, saved)
<1>1. r.path \in TreePaths
    BY DEF Names
<1>2. CASE r.type = "rename"
    <2>1. r.old \in TreePaths /\ Reachable(t, r.old)
        BY <1>2 DEF Names, CanUndo, CanMove
    <2> QED
        BY <1>2, <2>1, FilesOfMove DEF Undone, UndoneFiles
<1>3. CASE r.type # "rename" /\ Restores(r)
    <2>1. Reachable(t, r.path)
        BY <1>3 DEF CanUndo, CanCopyTo
    <2> QED
        BY <1>1, <1>3, <2>1, FilesWithFile DEF Undone, UndoneFiles
<1>4. CASE r.type # "rename" /\ ~Restores(r) /\ Removes(r)
    BY <1>1, <1>4, FilesWithout DEF Undone, UndoneFiles
<1>5. CASE r.type # "rename" /\ ~Restores(r) /\ ~Removes(r)
    BY <1>5 DEF Undone, UndoneFiles
<1> QED
    BY <1>2, <1>3, <1>4, <1>5

\* A refused undo may make directories, no more.
LEMMA FilesUndoRefused ==
    ASSUME NEW t \in Tree, NEW r PROVE Files(UndoRefused(t, r)) = Files(t)
<1>1. ASSUME Reachable(t, r.old) PROVE Files(WithDirectories(t, Above(r.old))) = Files(t)
    BY <1>1, FilesWithDirectories DEF Reachable
<1> QED
    BY <1>1 DEF UndoRefused

\* An undo cut short leaves the files, or changes the one it restores.
LEMMA FilesUndoInterrupted ==
    ASSUME NEW t \in Tree, NEW r, Names(r), CanUndo(t, r), NEW saved,
           NEW u \in UndoInterrupted(t, r, saved)
    PROVE  \/ Files(u) = Files(t)
           \/ /\ Restores(r)
              /\ \E data : Files(u) = [Files(t) EXCEPT ![r.path] = File(data)]
<1>1. CASE u = t \/ u = UndoRefused(t, r)
    BY <1>1, FilesUndoRefused
<1>2. ASSUME Restores(r)
      PROVE  /\ Files(WithDirectories(t, Above(r.path))) = Files(t)
             /\ \A data : Files(WithFile(t, r.path, data))
                               = [Files(t) EXCEPT ![r.path] = File(data)]
    <2>1. Reachable(t, r.path) /\ r.path \in TreePaths
        BY <1>2 DEF CanUndo, CanCopyTo, Names
    <2>2. Files(WithDirectories(t, Above(r.path))) = Files(t)
        BY <2>1, FilesWithDirectories DEF Reachable
    <2> QED
        BY <2>1, <2>2, FilesWithFile
<1>3. \/ u = t \/ u = UndoRefused(t, r)
      \/ /\ Restores(r)
         /\ \/ u = WithDirectories(t, Above(r.path))
            \/ \E data : u = WithFile(t, r.path, data)
    BY DEF UndoInterrupted
<1> QED
    BY <1>1, <1>2, <1>3

\* A move to where nothing is loses no file, and the move back restores them.
LEMMA MoveKeepsFiles ==
    ASSUME NEW t \in Tree, WellFormed(t), NEW from \in TreePaths, NEW to \in TreePaths,
           CanMove(t, from, to), ~Exists(t, to)
    PROVE  /\ \A p \in TreePaths : Files(t)[p] # Absent =>
                \E q \in TreePaths : Moved(Files(t), from, to)[q] = Files(t)[p]
           /\ Moved(Moved(Files(t), from, to), to, from) = Files(t)
<1> DEFINE f == Files(t)
           m == Moved(f, from, to)
           back == Moved(m, to, from)
           There(q) == Rebased(q, from, to)
           Here(q) == Rebased(q, to, from)
<1>1. ~IsPrefix(from, to) /\ ~IsPrefix(to, from)
    BY MoveMade DEF CanMove
<1>2. f \in Tree /\ \A p \in TreePaths : f[p] # Absent => t[p] # Absent
    BY FilesAt DEF IsFile, Absent
<1>3. ASSUME NEW q \in TreePaths, IsPrefix(to, q) PROVE f[q] = Absent
    <2>1. ~IsDirectory(t, to) /\ t[to] = Absent
        BY NodeKinds DEF Exists, IsDirectory
    <2>2. q = to \/ to \in Above(q)
        BY <1>3, PrefixCases
    <2>3. t[q] = Absent
        BY <2>1, <2>2, WhereItLies
    <2> QED
        BY <1>2, <2>3
<1>4. ASSUME NEW q \in TreePaths, IsPrefix(from, q), f[q] # Absent
      PROVE  There(q) \in TreePaths /\ IsPrefix(to, There(q)) /\ Here(There(q)) = q
    <2>1. There(q) \in TreePaths
        <3>1. CASE IsDirectory(t, from)
            BY <1>2, <1>4, <3>1, NodeKinds DEF CanMove, StaysInBounds
        <3>2. CASE ~IsDirectory(t, from)
            <4>1. from \notin Above(q)
                BY <1>2, <1>4, <3>2, WhereItLies
            <4>2. q = from
                BY <1>4, <4>1, PrefixCases
            <4>3. /\ from \in Seq(STRING) /\ Len(from) \in Nat /\ Len(from) >= 1
                  /\ to \in Seq(STRING)
                BY PathForm
            <4>4. to \o SubSeq(from, Len(from) + 1, Len(from)) = to
                BY <4>3
            <4> QED
                BY <4>2, <4>4 DEF Rebased
        <3> QED
            BY <3>1, <3>2
    <2> QED
        BY <1>4, <2>1, MovedBelow
<1> DEFINE NewFile(q) == IF IsPrefix(from, q) THEN Absent
                         ELSE IF IsPrefix(to, q) THEN IF Here(q) \in TreePaths THEN f[Here(q)]
                                                      ELSE Absent
                         ELSE f[q]
           BackFile(q) == IF IsPrefix(to, q) THEN Absent
                          ELSE IF IsPrefix(from, q) THEN IF There(q) \in TreePaths THEN m[There(q)]
                                                         ELSE Absent
                          ELSE m[q]
<1>5. m = [q \in TreePaths |-> NewFile(q)]
    BY DEF Moved
<1>6. back = [q \in TreePaths |-> BackFile(q)]
    BY DEF Moved
<1> HIDE DEF f, m, There, Here
<1>7. \A q \in TreePaths : m[q] = NewFile(q)
    <2> HIDE DEF NewFile
    <2> QED
        BY <1>5
<1>8. ASSUME NEW q \in TreePaths, IsPrefix(from, q), f[q] # Absent PROVE m[There(q)] = f[q]
    <2>1. There(q) \in TreePaths /\ IsPrefix(to, There(q)) /\ Here(There(q)) = q
        BY <1>4, <1>8
    <2>2. ~IsPrefix(from, There(q))
        BY <1>1, <2>1, NotBelowBoth
    <2> QED
        BY <1>7, <2>1, <2>2
<1>9. ASSUME NEW p \in TreePaths, f[p] # Absent PROVE \E q \in TreePaths : m[q] = f[p]
    <2>1. CASE IsPrefix(from, p)
        BY <1>4, <1>8, <1>9, <2>1
    <2>2. CASE ~IsPrefix(from, p)
        <3>1. ~IsPrefix(to, p)
            BY <1>3, <1>9
        <3>2. m[p] = f[p]
            BY <1>7, <2>2, <3>1
        <3> QED
            BY <3>2
    <2> QED
        BY <2>1, <2>2
<1>10. ASSUME NEW q \in TreePaths PROVE BackFile(q) = f[q]
    <2>1. CASE IsPrefix(to, q)
        BY <1>3, <2>1
    <2>2. CASE ~IsPrefix(to, q) /\ IsPrefix(from, q) /\ f[q] # Absent
        BY <1>4, <1>8, <2>2
    <2>3. CASE ~IsPrefix(to, q) /\ IsPrefix(from, q) /\ f[q] = Absent
        <3>1. SUFFICES ASSUME There(q) \in TreePaths PROVE m[There(q)] = Absent
            BY <2>3
        <3>2. IsPrefix(to, There(q)) /\ Here(There(q)) = q
            BY <2>3, <3>1, MovedBelow DEF There, Here
        <3>3. ~IsPrefix(from, There(q))
            BY <1>1, <3>1, <3>2, NotBelowBoth
        <3> QED
            BY <1>7, <2>3, <3>1, <3>2, <3>3
    <2>4. CASE ~IsPrefix(to, q) /\ ~IsPrefix(from, q)
        BY <1>7, <2>4
    <2> QED
        BY <2>1, <2>2, <2>3, <2>4
<1>11. back = f
    <2> HIDE DEF BackFile, back
    <2> QED
        BY <1>2, <1>6, <1>10 DEF Tree
<1> QED
    BY <1>9, <1>11 DEF f, m

\* The record an operation gets before it is performed, where there is
\* nothing to copy but a file.
RecordOf(r, op, t) ==
    /\ r.type = op.type /\ r.path = op.path /\ r.old = op.old
    /\ r.created <=> op.type \in {"write", "append", "mkdir"} /\ ~Exists(t, op.path)
    /\ r.backup # 0 <=> IsFile(t, op.path)

\* Undoing its record restores the files as they were before an operation.
LEMMA UndoInverts ==
    ASSUME NEW t \in Tree, WellFormed(t), NEW op, Names(op), CanPerform(t, op),
           NEW r, RecordOf(r, op, t), NEW saved, IsFile(t, op.path) => saved = t[op.path].data
    PROVE  UndoneFiles(Files(Performed(t, op)), r, saved) = Files(t)
<1> DEFINE f == Files(t)
           p == op.path
           g == Files(Performed(t, op))
<1>1. p \in TreePaths /\ r.path = p /\ r.type = op.type /\ r.old = op.old
    BY DEF Names, RecordOf
<1>2. f \in Tree /\ (IsFile(t, p) <=> f[p] # Absent) /\ (IsFile(t, p) => f[p] = t[p])
    BY <1>1, FilesAt
<1>3. ASSUME NEW x PROVE [[f EXCEPT ![p] = x] EXCEPT ![p] = f[p]] = f
    <2>1. f = [q \in TreePaths |-> f[q]]
        BY <1>2 DEF Tree
    <2> HIDE DEF f, p
    <2> QED
        BY <1>1, <2>1
<1>4. IsFile(t, p) => f[p] = File(saved)
    <2>1. ASSUME IsFile(t, p) PROVE t[p] = File(t[p].data)
        <3>1. t[p] \in Node /\ t[p].kind = "file"
            BY <1>1, <2>1, NodeKinds DEF IsFile
        <3> QED
            BY <3>1 DEF Node, Absent, Directory, File
    <2> QED
        BY <1>2, <2>1
<1>5. CASE op.type \in {"write", "append", "delete"}
    <2>1. PICK x : g = [f EXCEPT ![p] = x]
        <3>1. \/ g = [f EXCEPT ![p] = File(<<op.text>>)]
              \/ g = [f EXCEPT ![p] = File(Append(DataAt(t, op.path), op.text))]
              \/ g = [f EXCEPT ![p] = Absent]
            BY <1>5, FilesPerformed DEF Without
        <3> QED
            BY <3>1
    <2>2. CASE IsFile(t, p)
        <3>1. Restores(r)
            BY <1>1, <1>5, <2>2 DEF Restores, RecordOf
        <3>2. UndoneFiles(g, r, saved) = [g EXCEPT ![p] = File(saved)]
            BY <1>1, <1>5, <3>1 DEF UndoneFiles
        <3>3. File(saved) = f[p]
            BY <1>4, <2>2
        <3> HIDE DEF f, g, p
        <3> QED
            BY <1>3, <2>1, <3>2, <3>3 DEF f, g
    <2>3. CASE ~IsFile(t, p)
        <3>1. ~Restores(r) /\ f[p] = Absent
            BY <1>2, <2>3 DEF Restores, RecordOf
        <3>2. CASE Removes(r)
            <4>1. UndoneFiles(g, r, saved) = [g EXCEPT ![p] = f[p]]
                BY <1>1, <1>5, <3>1, <3>2 DEF UndoneFiles, Without
            <4> HIDE DEF f, g, p
            <4> QED
                BY <1>3, <2>1, <4>1 DEF f, g
        <3>3. CASE ~Removes(r)
            <4>1. op.type = "delete"
                <5>1. op.type \in {"write", "append"} => ~Exists(t, p)
                    BY <1>1, <2>3, NodeKinds DEF CanPerform
                <5> QED
                    BY <1>5, <3>1, <3>3, <5>1 DEF Removes, RecordOf
            <4>2. g = [f EXCEPT ![p] = f[p]]
                BY <3>1, <4>1, FilesPerformed DEF Without
            <4>3. UndoneFiles(g, r, saved) = g
                BY <1>1, <1>5, <3>1, <3>3 DEF UndoneFiles
            <4>4. f = [q \in TreePaths |-> f[q]]
                BY <1>2 DEF Tree
            <4>5. [f EXCEPT ![p] = f[p]] = f
                <5> HIDE DEF f, p
                <5> QED
                    BY <1>1, <4>4
            <4> QED
                BY <4>2, <4>3, <4>5
        <3> QED
            BY <3>2, <3>3
    <2> QED
        BY <2>2, <2>3
<1>6. CASE op.type = "rename"
    <2>1. g = Moved(f, op.old, p)
        BY <1>6, FilesPerformed
    <2>2. op.old \in TreePaths /\ CanMove(t, op.old, p) /\ ~Exists(t, p)
        BY <1>6 DEF CanPerform, Names
    <2>3. Moved(Moved(f, op.old, p), p, op.old) = f
        BY <1>1, <2>2, MoveKeepsFiles
    <2>4. UndoneFiles(g, r, saved) = Moved(g, p, op.old)
        BY <1>1, <1>6 DEF UndoneFiles
    <2> QED
        BY <2>1, <2>3, <2>4
<1>7. CASE op.type = "mkdir"
    <2>1. g = f /\ ~IsFile(t, p)
        BY <1>7, FilesPerformed DEF CanPerform
    <2>2. ~Restores(r) /\ f[p] = Absent
        BY <1>2, <2>1 DEF Restores, RecordOf
    <2>3. Without(f, p) = f
        <3>1. f = [q \in TreePaths |-> f[q]]
            BY <1>2 DEF Tree
        <3> HIDE DEF f, p
        <3> QED
            BY <1>1, <2>2, <3>1 DEF Without
    <2> QED
        BY <1>1, <1>7, <2>1, <2>2, <2>3 DEF UndoneFiles
<1> QED
    BY <1>5, <1>6, <1>7, FilesPerformed

\* A part of a text written, or added to a file, makes data.
LEMMA PartsTyped ==
    ASSUME NEW data \in Seq(Texts), NEW part \in Parts
    PROVE  part \in Seq(Texts) /\ data \o part \in Seq(Texts)
<1>1. <<>> \in Seq(Texts)
    OBVIOUS
<1>2. ASSUME NEW text \in Texts PROVE <<text>> \in Seq(Texts)
    OBVIOUS
<1>3. part = <<>> \/ \E text \in Texts : part = <<text>>
    BY DEF Parts
<1>4. part \in Seq(Texts)
    BY <1>1, <1>2, <1>3
<1> QED
    BY <1>4

\* Files and directories stay in directories, whatever is done.
LEMMA WellPerformed ==
    ASSUME NEW t \in Tree, WellFormed(t), NEW op, Names(op), op.text \in Texts
    PROVE  /\ CanPerform(t, op) => WellFormed(Performed(t, op))
           /\ WellFormed(Refused(t, op))
           /\ CanPerform(t, op) => \A u \in Interrupted(t, op) : WellFormed(u)
<1>1. op.path \in TreePaths
    BY DEF Names
<1>2. ASSUME Reachable(t, op.path) PROVE WellFormed(WithDirectories(t, Above(op.path)))
    BY <1>1, <1>2, WayMade DEF Effect
<1>3. DataAt(t, op.path) \in Seq(Texts) /\ <<>> \in Seq(Texts)
    BY <1>1, NodeKinds DEF DataAt
<1>4. ASSUME Reachable(t, op.path), ~IsDirectory(t, op.path), NEW data \in Seq(Texts)
      PROVE  WellFormed(WithFile(t, op.path, data))
    BY <1>1, <1>4, FileWritten DEF Effect, CanCopyTo
<1>5. ASSUME CanPerform(t, op) PROVE WellFormed(Performed(t, op))
    <2>1. Reachable(t, op.path)
        BY <1>5 DEF CanPerform
    <2>2. CASE op.type \in {"write", "append"}
        <3>1. ~IsDirectory(t, op.path)
            BY <1>5, <2>2 DEF CanPerform
        <3>2. <<op.text>> \in Seq(Texts) /\ Append(DataAt(t, op.path), op.text) \in Seq(Texts)
            BY <1>3
        <3>3. /\ WellFormed(WithFile(t, op.path, <<op.text>>))
              /\ WellFormed(WithFile(t, op.path, Append(DataAt(t, op.path), op.text)))
            BY <1>4, <2>1, <3>1, <3>2
        <3> QED
            BY <2>2, <3>3 DEF Performed
    <2>3. CASE op.type = "delete"
        <3>1. Exists(t, op.path) => Removable(t, op.path)
            BY <1>5, <2>3 DEF CanPerform
        <3>2. CASE Exists(t, op.path)
            BY <1>1, <2>3, <3>1, <3>2, PathRemoved DEF Effect, Performed
        <3>3. CASE ~Exists(t, op.path)
            <4>1. t[op.path] = Absent
                BY <1>1, <3>3, NodeKinds
            <4>2. Without(t, op.path) = t
                BY <1>1, <4>1 DEF Without, Tree
            <4> QED
                BY <2>3, <4>2 DEF Performed
        <3> QED
            BY <3>2, <3>3
    <2>4. CASE op.type = "rename"
        <3>1. op.old \in TreePaths /\ CanMove(t, op.old, op.path)
            BY <1>5, <2>4 DEF CanPerform, Names
        <3> QED
            BY <1>1, <2>4, <3>1, MoveMade DEF Performed
    <2>5. CASE op.type = "mkdir"
        <3>1. ~IsFile(t, op.path)
            BY <1>5, <2>5 DEF CanPerform
        <3>2. \A q \in Above(op.path) \cup {op.path} :
                /\ q \in TreePaths /\ Above(q) \subseteq Above(op.path) \cup {op.path}
                /\ ~IsFile(t, q)
            BY <1>1, <2>1, <3>1, AboveOrder DEF Reachable
        <3>3. WellFormed(WithDirectories(t, Above(op.path) \cup {op.path}))
            BY <3>2, DirectoriesMade
        <3> QED
            BY <2>5, <3>3 DEF Performed
    <2> QED
        BY <1>5, <2>2, <2>3, <2>4, <2>5 DEF CanPerform
<1>6. WellFormed(Refused(t, op))
    BY <1>2 DEF Refused
<1>7. ASSUME CanPerform(t, op), NEW u \in Interrupted(t, op) PROVE WellFormed(u)
    <2>1. Reachable(t, op.path)
        BY <1>7 DEF CanPerform
    <2>2. op.type \in {"write", "append"} => ~IsDirectory(t, op.path)
        BY <1>7 DEF CanPerform
    <2>3. \/ u = t \/ u = WithDirectories(t, Above(op.path))
          \/ op.type = "write" /\ \E part \in Parts : u = WithFile(t, op.path, part)
          \/ /\ op.type = "append"
             /\ \E part \in Parts : u = WithFile(t, op.path, DataAt(t, op.path) \o part)
        BY <1>7 DEF Interrupted
    <2>4. \A part \in Parts : part \in Seq(Texts) /\ DataAt(t, op.path) \o part \in Seq(Texts)
        BY <1>3, PartsTyped
    <2> QED
        BY <1>2, <1>4, <2>1, <2>2, <2>3, <2>4
<1> QED
    BY <1>5, <1>6, <1>7

\* Undoing, refused, cut short or not, leaves files in directories.
LEMMA WellUndone ==
    ASSUME NEW t \in Tree, WellFormed(t), NEW r, Names(r), NEW saved \in Seq(Texts)
    PROVE  /\ CanUndo(t, r) => WellFormed(Undone(t, r, saved))
           /\ WellFormed(UndoRefused(t, r))
           /\ CanUndo(t, r) => \A u \in UndoInterrupted(t, r, saved) : WellFormed(u)
<1>1. r.path \in TreePaths
    BY DEF Names
<1>2. WellFormed(UndoRefused(t, r))
    <2>1. ASSUME r.type = "rename", Reachable(t, r.old)
          PROVE  WellFormed(WithDirectories(t, Above(r.old)))
        BY <2>1, WayMade DEF Effect, Names
    <2> QED
        BY <2>1 DEF UndoRefused
<1>3. ASSUME CanUndo(t, r), Restores(r), NEW data \in Seq(Texts)
      PROVE  WellFormed(WithFile(t, r.path, data))
    BY <1>1, <1>3, FileWritten DEF CanUndo, Effect
<1>4. ASSUME CanUndo(t, r) PROVE WellFormed(Undone(t, r, saved))
    <2>1. CASE r.type = "rename"
        BY <1>1, <1>4, <2>1, MoveMade DEF CanUndo, Undone, Names
    <2>2. CASE r.type # "rename" /\ Restores(r)
        BY <1>3, <1>4, <2>2 DEF Undone
    <2>3. CASE r.type # "rename" /\ ~Restores(r) /\ Removes(r)
        <3>1. Exists(t, r.path) => Removable(t, r.path)
            BY <1>4, <2>3 DEF CanUndo
        <3>2. CASE Exists(t, r.path)
            BY <1>1, <2>3, <3>1, <3>2, PathRemoved DEF Effect, Undone
        <3>3. CASE ~Exists(t, r.path)
            <4>1. t[r.path] = Absent
                BY <1>1, <3>3, NodeKinds
            <4>2. Without(t, r.path) = t
                BY <1>1, <4>1 DEF Without, Tree
            <4> QED
                BY <2>3, <4>2 DEF Undone
        <3> QED
            BY <3>2, <3>3
    <2>4. CASE r.type # "rename" /\ ~Restores(r) /\ ~Removes(r)
        BY <2>4 DEF Undone
    <2> QED
        BY <2>1, <2>2, <2>3, <2>4
<1>5. ASSUME CanUndo(t, r), NEW u \in UndoInterrupted(t, r, saved) PROVE WellFormed(u)
    <2>1. \A n \in 0 .. Len(saved) : SubSeq(saved, 1, n) \in Seq(Texts)
        OBVIOUS
    <2>2. Restores(r) => WellFormed(WithDirectories(t, Above(r.path)))
        BY <1>1, <1>5, WayMade DEF Effect, CanUndo, CanCopyTo
    <2> QED
        BY <1>2, <1>3, <1>5, <2>1, <2>2 DEF UndoInterrupted
<1> QED
    BY <1>2, <1>4, <1>5

============================================================================
