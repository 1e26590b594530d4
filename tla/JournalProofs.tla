--------------------------- MODULE JournalProofs ---------------------------
(***************************************************************************)
(* What JournalCalls promises, proved for any sets of change sets, paths,  *)
(* operation types and hashes, any number of operations and any number of  *)
(* failed writes.                                                          *)
(*                                                                         *)
(* Every call but Begin is a Mutation: it replaces the entry of one change *)
(* set by one whose operation log extends the old one.  NextCases reduces  *)
(* a step to a Begin, a Mutation or a restart, and each invariant is then  *)
(* shown for these three.  AcknowledgedSurvives is not inductive by itself:*)
(* a write for one change set publishes the memory of every other one, so  *)
(* memory must be known to hold only what the callers know of, which is    *)
(* FileBehindMemory.                                                       *)
(***************************************************************************)
EXTENDS JournalCalls, TLAPS

Mutation(cs, entry, ok) ==
    /\ Update(cs, entry, ok)
    /\ Acknowledge(cs, ok)
    /\ entry \in ChangeSetEntry
    /\ IsExtension(entries[cs].operations, entry.operations)

Inv == TypeOK /\ FileBehindMemory /\ AcknowledgedSurvives

----------------------------------------------------------------------------
\* A sequence extends itself (the log of a change set nobody touched).
LEMMA ExtensionReflexive ==
    ASSUME NEW S, NEW s \in Seq(S)
    PROVE  IsExtension(s, s)
BY DEF IsExtension

\* Extensions compose: file to memory, memory to memory after a call.
LEMMA ExtensionTransitive ==
    ASSUME NEW S, NEW s \in Seq(S), NEW t \in Seq(S), NEW u \in Seq(S),
           IsExtension(s, t), IsExtension(t, u)
    PROVE  IsExtension(s, u)
BY DEF IsExtension

\* AddOperation extends the log.
LEMMA AppendExtends ==
    ASSUME NEW S, NEW s \in Seq(S), NEW e \in S
    PROVE  Append(s, e) \in Seq(S) /\ IsExtension(s, Append(s, e))
BY DEF IsExtension

\* The empty log is extended by any (a change set that just began).
LEMMA EmptyExtends ==
    ASSUME NEW S, NEW s \in Seq(S)
    PROVE  IsExtension(<<>>, s)
BY DEF IsExtension

LEMMA NewEntryType == NewEntry \in ChangeSetEntry
BY DEF NewEntry, ChangeSetEntry, Images, Status

\* A log is a sequence of operations in either image.
LEMMA LogType ==
    ASSUME NEW image \in [ChangeSets -> ChangeSetEntry \cup {NoEntry}],
           NEW cs \in ChangeSets
    PROVE  LogOf(image, cs) \in Seq(OperationEntry)
BY DEF LogOf, ChangeSetEntry

\* Every call on a known change set yields an entry again, with the old log
\* as a prefix of its log.
LEMMA ChangedEntry ==
    ASSUME NEW e \in ChangeSetEntry
    PROVE  /\ \A op \in OperationEntry :
                LET f == [e EXCEPT !.operations = Append(@, op)]
                IN f \in ChangeSetEntry /\ IsExtension(e.operations, f.operations)
           /\ \A p \in Paths, hash \in Hashes :
                LET f == [e EXCEPT !.preimages[p] = hash]
                IN f \in ChangeSetEntry /\ IsExtension(e.operations, f.operations)
           /\ \A p \in Paths, hash \in Hashes :
                LET f == [e EXCEPT !.postimages[p] = hash]
                IN f \in ChangeSetEntry /\ IsExtension(e.operations, f.operations)
           /\ \A s \in Status :
                LET f == [e EXCEPT !.status = s]
                IN f \in ChangeSetEntry /\ IsExtension(e.operations, f.operations)
<1>0. e.operations \in Seq(OperationEntry)
  BY DEF ChangeSetEntry
<1>1. IsExtension(e.operations, e.operations)
  BY <1>0, ExtensionReflexive
<1>2. ASSUME NEW op \in OperationEntry
      PROVE  LET f == [e EXCEPT !.operations = Append(@, op)]
             IN f \in ChangeSetEntry /\ IsExtension(e.operations, f.operations)
  <2>1. /\ Append(e.operations, op) \in Seq(OperationEntry)
        /\ IsExtension(e.operations, Append(e.operations, op))
    BY <1>0, AppendExtends
  <2> QED BY <2>1 DEF ChangeSetEntry
<1>3. ASSUME NEW p \in Paths, NEW hash \in Hashes
      PROVE  LET f == [e EXCEPT !.preimages[p] = hash]
             IN f \in ChangeSetEntry /\ IsExtension(e.operations, f.operations)
  BY <1>1 DEF ChangeSetEntry, Images
<1>4. ASSUME NEW p \in Paths, NEW hash \in Hashes
      PROVE  LET f == [e EXCEPT !.postimages[p] = hash]
             IN f \in ChangeSetEntry /\ IsExtension(e.operations, f.operations)
  BY <1>1 DEF ChangeSetEntry, Images
<1>5. ASSUME NEW s \in Status
      PROVE  LET f == [e EXCEPT !.status = s]
             IN f \in ChangeSetEntry /\ IsExtension(e.operations, f.operations)
  BY <1>1 DEF ChangeSetEntry
<1> QED BY <1>2, <1>3, <1>4, <1>5

\* A step is a Begin, a Mutation or a restart.
LEMMA NextCases ==
    ASSUME TypeOK, Next
    PROVE  \/ \E cs \in ChangeSets, ok \in BOOLEAN : CallBegin(cs, ok)
           \/ \E cs \in ChangeSets, ok \in BOOLEAN : \E entry : Mutation(cs, entry, ok)
           \/ Restart
<1>1. CASE Restart
  BY <1>1
<1>2. CASE ~Restart
  <2>1. PICK cs \in ChangeSets, ok \in BOOLEAN :
            \/ CallBegin(cs, ok)
            \/ \E op \in OperationEntry : CallAddOperation(cs, op, ok)
            \/ \E path \in Paths, hash \in Hashes :
                \/ CallSetPreimage(cs, path, hash, ok)
                \/ CallSetPostimage(cs, path, hash, ok)
            \/ CallComplete(cs, ok)
            \/ CallMarkFailed(cs, ok)
            \/ CallMarkRolledBack(cs, ok)
    BY <1>2 DEF Next
  <2>2. Known(cs) => entries[cs] \in ChangeSetEntry
    BY DEF TypeOK, JournalTypeOK, Known
  <2>3. CASE CallBegin(cs, ok)
    BY <2>3
  <2>4. ASSUME NEW op \in OperationEntry, CallAddOperation(cs, op, ok)
        PROVE  \E entry : Mutation(cs, entry, ok)
    <3>1. Known(cs)
      BY <2>4 DEF CallAddOperation
    <3>2. Mutation(cs, [entries[cs] EXCEPT !.operations = Append(@, op)], ok)
      BY <2>2, <2>4, <3>1, ChangedEntry DEF CallAddOperation, AddOperation, Mutation
    <3> QED BY <3>2
  <2>5. ASSUME NEW p \in Paths, NEW hash \in Hashes, CallSetPreimage(cs, p, hash, ok)
        PROVE  \E entry : Mutation(cs, entry, ok)
    <3>1. Known(cs)
      BY <2>5 DEF CallSetPreimage, SetPreimage, Update
    <3>2. Mutation(cs, [entries[cs] EXCEPT !.preimages[p] = hash], ok)
      BY <2>2, <2>5, <3>1, ChangedEntry DEF CallSetPreimage, SetPreimage, Mutation
    <3> QED BY <3>2
  <2>6. ASSUME NEW p \in Paths, NEW hash \in Hashes, CallSetPostimage(cs, p, hash, ok)
        PROVE  \E entry : Mutation(cs, entry, ok)
    <3>1. Known(cs)
      BY <2>6 DEF CallSetPostimage, SetPostimage, Update
    <3>2. Mutation(cs, [entries[cs] EXCEPT !.postimages[p] = hash], ok)
      BY <2>2, <2>6, <3>1, ChangedEntry DEF CallSetPostimage, SetPostimage, Mutation
    <3> QED BY <3>2
  <2>7. ASSUME NEW s \in Status, Settle(cs, s, ok), Acknowledge(cs, ok)
        PROVE  \E entry : Mutation(cs, entry, ok)
    <3>1. Known(cs)
      BY <2>7 DEF Settle, Update
    <3>2. Mutation(cs, [entries[cs] EXCEPT !.status = s], ok)
      BY <2>2, <2>7, <3>1, ChangedEntry DEF Settle, Mutation
    <3> QED BY <3>2
  <2>8. CASE CallComplete(cs, ok)
    BY <2>7, <2>8 DEF CallComplete, Complete, Status
  <2>9. CASE CallMarkFailed(cs, ok)
    BY <2>7, <2>9 DEF CallMarkFailed, MarkFailed, Status
  <2>10. CASE CallMarkRolledBack(cs, ok)
    BY <2>7, <2>10 DEF CallMarkRolledBack, MarkRolledBack, Status
  <2> QED BY <2>1, <2>3, <2>4, <2>5, <2>6, <2>8, <2>9, <2>10
<1> QED BY <1>1, <1>2

----------------------------------------------------------------------------
LEMMA InitInv == Init => Inv
<1> SUFFICES ASSUME Init PROVE Inv
  OBVIOUS
<1>1. TypeOK
  BY BoundsAssumption DEF Init, JournalInit, TypeOK, JournalTypeOK
<1>2. FileBehindMemory
  <2> SUFFICES ASSUME NEW cs \in ChangeSets
               PROVE  /\ entries[cs] \in sinceAck[cs]
                      /\ IsExtension(LogOf(file, cs), LogOf(entries, cs))
    BY DEF FileBehindMemory
  <2>1. LogOf(file, cs) \in Seq(OperationEntry) /\ LogOf(entries, cs) = LogOf(file, cs)
    BY <1>1, LogType DEF Init, JournalInit, TypeOK, JournalTypeOK, LogOf
  <2>2. IsExtension(LogOf(file, cs), LogOf(entries, cs))
    BY <2>1, ExtensionReflexive
  <2> QED BY <2>2 DEF Init, JournalInit
<1>3. AcknowledgedSurvives
  BY DEF Init, JournalInit, AcknowledgedSurvives
<1> QED BY <1>1, <1>2, <1>3 DEF Inv

LEMMA TypeStep == TypeOK /\ [Next]_vars => TypeOK'
<1> SUFFICES ASSUME TypeOK, [Next]_vars PROVE TypeOK'
  OBVIOUS
<1> USE DEF TypeOK, JournalTypeOK
<1>1. ASSUME NEW cs \in ChangeSets, NEW ok \in BOOLEAN, CallBegin(cs, ok)
      PROVE  TypeOK'
  <2>1. JournalTypeOK'
    BY <1>1, NewEntryType DEF CallBegin, Begin, Persist
  <2>2. sinceAck' \in [ChangeSets -> SUBSET (ChangeSetEntry \cup {NoEntry})]
    BY <1>1, <2>1 DEF CallBegin
  <2>3. errors' \in 0 .. MaxErrors
    BY <1>1, BoundsAssumption DEF CallBegin, CountError
  <2> QED BY <2>1, <2>2, <2>3
<1>2. ASSUME NEW cs \in ChangeSets, NEW ok \in BOOLEAN, NEW entry, Mutation(cs, entry, ok)
      PROVE  TypeOK'
  <2>1. JournalTypeOK'
    BY <1>2 DEF Mutation, Update, Persist
  <2>2. sinceAck' \in [ChangeSets -> SUBSET (ChangeSetEntry \cup {NoEntry})]
    BY <1>2, <2>1 DEF Mutation, Acknowledge
  <2>3. errors' \in 0 .. MaxErrors
    BY <1>2, BoundsAssumption DEF Mutation, Acknowledge, CountError
  <2> QED BY <2>1, <2>2, <2>3
<1>3. CASE Restart
  BY <1>3 DEF Restart, Reopen
<1>4. CASE UNCHANGED vars
  BY <1>4 DEF vars
<1> QED BY <1>1, <1>2, <1>3, <1>4, NextCases

\* How one step moves the two images: memory keeps or extends every log, or
\* takes the file's; the file keeps its image or takes memory's.
LEMMA ImageStep ==
    ASSUME TypeOK, TypeOK', [Next]_vars
    PROVE  /\ \/ entries' = file /\ file' = file
              \/ \A cs \in ChangeSets : IsExtension(LogOf(entries, cs), LogOf(entries', cs))
           /\ file' = entries' \/ file' = file
<1> USE DEF TypeOK, JournalTypeOK
<1>0. \A cs \in ChangeSets : /\ LogOf(entries, cs) \in Seq(OperationEntry)
                             /\ LogOf(entries', cs) \in Seq(OperationEntry)
                             /\ IsExtension(LogOf(entries, cs), LogOf(entries, cs))
  BY LogType, ExtensionReflexive
<1>1. ASSUME NEW cs \in ChangeSets, NEW ok \in BOOLEAN, CallBegin(cs, ok)
      PROVE  /\ \A c \in ChangeSets : IsExtension(LogOf(entries, c), LogOf(entries', c))
             /\ file' = entries' \/ file' = file
  <2>1. \A c \in ChangeSets : c # cs => LogOf(entries', c) = LogOf(entries, c)
    BY <1>1 DEF CallBegin, Begin, LogOf
  <2>2. LogOf(entries, cs) = <<>>
    BY <1>1 DEF CallBegin, Begin, Known, LogOf
  <2>3. IsExtension(LogOf(entries, cs), LogOf(entries', cs))
    BY <2>2, <1>0, EmptyExtends
  <2> QED BY <1>0, <1>1, <2>1, <2>3 DEF CallBegin, Begin, Persist
<1>2. ASSUME NEW cs \in ChangeSets, NEW ok \in BOOLEAN, NEW entry, Mutation(cs, entry, ok)
      PROVE  /\ \A c \in ChangeSets : IsExtension(LogOf(entries, c), LogOf(entries', c))
             /\ file' = entries' \/ file' = file
  <2>1. \A c \in ChangeSets : c # cs => LogOf(entries', c) = LogOf(entries, c)
    BY <1>2 DEF Mutation, Update, LogOf
  <2>2. LogOf(entries, cs) = entries[cs].operations /\ LogOf(entries', cs) = entry.operations
    BY <1>2, NullsAreFresh DEF Mutation, Update, Known, LogOf
  <2> QED BY <1>0, <1>2, <2>1, <2>2 DEF Mutation, Update, Persist
<1>3. CASE Restart
  BY <1>3 DEF Restart, Reopen
<1>4. CASE UNCHANGED vars
  BY <1>0, <1>4 DEF vars
<1> QED BY <1>1, <1>2, <1>3, <1>4, NextCases

\* What the callers know of keeps up with memory.
LEMMA KnowledgeStep ==
    ASSUME TypeOK, TypeOK', FileBehindMemory, AcknowledgedSurvives, [Next]_vars
    PROVE  \A cs \in ChangeSets : /\ entries'[cs] \in sinceAck'[cs]
                                  /\ file'[cs] \in sinceAck'[cs]
<1> USE DEF TypeOK, JournalTypeOK, FileBehindMemory, AcknowledgedSurvives
<1> DEFINE Goal == \A c \in ChangeSets : /\ entries'[c] \in sinceAck'[c]
                                         /\ file'[c] \in sinceAck'[c]
<1>1. ASSUME NEW cs \in ChangeSets, NEW ok \in BOOLEAN, CallBegin(cs, ok)
      PROVE  Goal
  <2>1. CASE ok
    BY <1>1, <2>1 DEF CallBegin, Begin, Persist
  <2>2. CASE ~ok
    BY <1>1, <2>2 DEF CallBegin, Begin, Persist
  <2> QED BY <2>1, <2>2
<1>2. ASSUME NEW cs \in ChangeSets, NEW ok \in BOOLEAN, NEW entry, Mutation(cs, entry, ok)
      PROVE  Goal
  <2>1. CASE ok
    BY <1>2, <2>1 DEF Mutation, Update, Persist, Acknowledge
  <2>2. CASE ~ok
    BY <1>2, <2>2 DEF Mutation, Update, Persist, Acknowledge
  <2> QED BY <2>1, <2>2
<1>3. CASE Restart
  BY <1>3 DEF Restart, Reopen
<1>4. CASE UNCHANGED vars
  BY <1>4 DEF vars
<1> QED BY <1>1, <1>2, <1>3, <1>4, NextCases

LEMMA InvStep == Inv /\ [Next]_vars => Inv'
<1> SUFFICES ASSUME Inv, [Next]_vars PROVE Inv'
  OBVIOUS
<1>1. TypeOK /\ TypeOK'
  BY TypeStep DEF Inv
<1>2. \A cs \in ChangeSets : entries'[cs] \in sinceAck'[cs] /\ file'[cs] \in sinceAck'[cs]
  BY <1>1, KnowledgeStep DEF Inv
<1>3. ASSUME NEW cs \in ChangeSets
      PROVE  IsExtension(LogOf(file', cs), LogOf(entries', cs))
  <2>1. /\ LogOf(file, cs) \in Seq(OperationEntry)
        /\ LogOf(entries, cs) \in Seq(OperationEntry)
        /\ LogOf(file', cs) \in Seq(OperationEntry)
        /\ LogOf(entries', cs) \in Seq(OperationEntry)
    BY <1>1, LogType DEF TypeOK, JournalTypeOK
  <2>2. CASE file' = entries'
    BY <2>1, <2>2, ExtensionReflexive
  <2>3. CASE file' = file /\ IsExtension(LogOf(entries, cs), LogOf(entries', cs))
    <3>1. IsExtension(LogOf(file, cs), LogOf(entries, cs))
      BY DEF Inv, FileBehindMemory
    <3>2. IsExtension(LogOf(file, cs), LogOf(entries', cs))
      BY <2>1, <2>3, <3>1, ExtensionTransitive
    <3> QED BY <2>3, <3>2
  <2> QED BY <1>1, <2>2, <2>3, ImageStep
<1> QED BY <1>1, <1>2, <1>3 DEF Inv, FileBehindMemory, AcknowledgedSurvives

\* A write of journal.json keeps or extends every log in it.
LEMMA DurableStep ==
    Inv /\ [Next]_vars => [\A cs \in ChangeSets : IsExtension(LogOf(file, cs), LogOf(file', cs))]_vars
<1> SUFFICES ASSUME Inv, [Next]_vars, NEW cs \in ChangeSets
             PROVE  IsExtension(LogOf(file, cs), LogOf(file', cs))
  OBVIOUS
<1>1. TypeOK /\ TypeOK'
  BY TypeStep DEF Inv
<1>2. /\ LogOf(file, cs) \in Seq(OperationEntry)
      /\ LogOf(entries, cs) \in Seq(OperationEntry)
      /\ LogOf(entries', cs) \in Seq(OperationEntry)
  BY <1>1, LogType DEF TypeOK, JournalTypeOK
<1>3. CASE file' = file
  BY <1>2, <1>3, ExtensionReflexive
<1>4. CASE file' = entries' /\ IsExtension(LogOf(entries, cs), LogOf(entries', cs))
  <2>1. IsExtension(LogOf(file, cs), LogOf(entries, cs))
    BY DEF Inv, FileBehindMemory
  <2> QED BY <1>2, <1>4, <2>1, ExtensionTransitive
<1> QED BY <1>1, <1>3, <1>4, ImageStep

----------------------------------------------------------------------------
\* All three facts hold in every state of every behaviour.
THEOREM InvariantHolds == Spec => []Inv
BY InitInv, InvStep, PTL DEF Spec

(***************************************************************************)
(* The journal in memory and journal.json always hold change-set entries,  *)
(* whatever fails and whenever the bridge restarts.                        *)
(***************************************************************************)
THEOREM TypeCorrect == Spec => []TypeOK
<1>1. Inv => TypeOK
  BY DEF Inv
<1> QED BY <1>1, InvariantHolds, PTL

(***************************************************************************)
(* Memory is never behind journal.json, and holds only what the callers    *)
(* know of.                                                                *)
(***************************************************************************)
THEOREM MemoryLeads == Spec => []FileBehindMemory
<1>1. Inv => FileBehindMemory
  BY DEF Inv
<1> QED BY <1>1, InvariantHolds, PTL

(***************************************************************************)
(* What a call of the journal acknowledged is what a restart finds, up to  *)
(* later calls on the same change set that returned an error.              *)
(***************************************************************************)
THEOREM AcknowledgedCallsSurvive == Spec => []AcknowledgedSurvives
<1>1. Inv => AcknowledgedSurvives
  BY DEF Inv
<1> QED BY <1>1, InvariantHolds, PTL

(***************************************************************************)
(* No write of journal.json drops or replaces a stored operation.          *)
(***************************************************************************)
THEOREM DurableLogOnlyGrows == Spec => DurableLogGrows
BY InvariantHolds, DurableStep, PTL DEF Spec, DurableLogGrows

============================================================================
