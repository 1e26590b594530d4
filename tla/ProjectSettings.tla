-------------------------- MODULE ProjectSettings --------------------------
(***************************************************************************)
(* project.godot as applyProjectSetting of                                 *)
(* local-bridge/internal/patch/patch.go edits it, and as Godot reads it.   *)
(*                                                                         *)
(* The file is a sequence of lines: section headers, assignments, blanks.  *)
(* A setting is named by a path: its section, then its key, which may have *)
(* several names.  The edit works on lines and knows nothing of values     *)
(* that go on over several lines; those are left out here.                 *)
(***************************************************************************)
EXTENDS Naturals, Sequences, SequencesExt, FiniteSetsExt

Header(section) == <<"section", section>>
Assignment(key, value) == <<"key", key, value>>
Blank == <<"blank">>

IsHeader(line) == line[1] = "section"
Assigns(line, key) == line[1] = "key" /\ line[2] = key

\* splitProjectSetting
IsSetting(path) == Len(path) >= 2
SectionOf(path) == Head(path)
KeyOf(path) == Tail(path)

\* strings.Split of a text that ends with a newline leaves an empty line.
Split(data) == Append(data, Blank)

Trimmed(lines) ==
    SubSeq(lines, 1, SelectLastInSeq(lines, LAMBDA line : line # Blank))

\* A plausible slip: the section ends with the file.
SectionToTheEnd(lines, section) ==
    [start |-> SelectInSeq(lines, LAMBDA line : line = Header(section)),
     end   |-> Len(lines) + 1]

\* The first run of the section's headers with no other header between
\* them: from the last of the run to the next header of another section.
SectionBounds(lines, section) ==
    LET first  == SelectInSeq(lines, LAMBDA line : line = Header(section))
        others == {i \in first + 1 .. Len(lines) :
                      IsHeader(lines[i]) /\ lines[i] # Header(section)}
        end    == IF others = {} THEN Len(lines) + 1 ELSE Min(others)
    IN IF first = 0 THEN [start |-> 0, end |-> Len(lines) + 1]
       ELSE [start |-> SelectLastInSubSeq(lines, 1, end - 1,
                                          LAMBDA line : line = Header(section)),
             end   |-> end]

Upto(lines, bounds) == SubSeq(lines, 1, bounds.start)
Body(lines, bounds) == SubSeq(lines, bounds.start + 1, bounds.end - 1)
After(lines, bounds) == SubSeq(lines, bounds.end, Len(lines))

\* Every assignment of the key in the section is replaced; without one the
\* new assignment comes last, also behind the blank lines of the section.
BodyWith(body, key, value) ==
    IF \E i \in DOMAIN body : Assigns(body[i], key)
    THEN [i \in DOMAIN body |->
             IF Assigns(body[i], key) THEN Assignment(key, value) ELSE body[i]]
    ELSE Append(body, Assignment(key, value))

WithSetting(data, path, value) ==
    LET lines  == Split(data)
        bounds == SectionBounds(lines, SectionOf(path))
    IN Trimmed(IF bounds.start = 0
               THEN lines \o <<Header(SectionOf(path)), Assignment(KeyOf(path), value)>>
               ELSE Upto(lines, bounds)
                        \o BodyWith(Body(lines, bounds), KeyOf(path), value)
                        \o After(lines, bounds))

\* The lines that do not assign the key.
Unassigned(lines, key) ==
    LET kept[i \in 0 .. Len(lines)] ==
            IF i = 0 THEN <<>>
            ELSE IF Assigns(lines[i], key) THEN kept[i - 1] ELSE Append(kept[i - 1], lines[i])
    IN kept[Len(lines)]

\* Without an assignment to remove the file is not written.
WithoutSetting(data, path) ==
    LET lines  == Split(data)
        bounds == SectionBounds(lines, SectionOf(path))
        body   == Body(lines, bounds)
        kept   == Unassigned(body, KeyOf(path))
    IN IF bounds.start = 0 \/ kept = body THEN data
       ELSE Trimmed(Upto(lines, bounds) \o kept \o After(lines, bounds))

----------------------------------------------------------------------------
\* What Godot reads: sections of one name are one section, and the last
\* assignment of a key in them counts.

HeaderOver(data, i) ==
    LET above == {j \in 1 .. i : IsHeader(data[j])}
    IN IF above = {} THEN Blank ELSE data[Max(above)]

Assigned(data, path) ==
    {i \in DOMAIN data : Assigns(data[i], KeyOf(path)) /\ HeaderOver(data, i) = Header(SectionOf(path))}

ReadSetting(data, path, unset) ==
    IF Assigned(data, path) = {} THEN unset ELSE data[Max(Assigned(data, path))][3]

SectionsOnce(data) ==
    \A i, j \in DOMAIN data : IsHeader(data[i]) /\ data[i] = data[j] => i = j

============================================================================
