---------------------------- MODULE JournalCalls ----------------------------
(***************************************************************************)
(* The journal under arbitrary callers: any call on any change set, any    *)
(* outcome of the write to disk, a restart of the bridge at any point.     *)
(*                                                                         *)
(* sinceAck is a history variable.  For each change set it holds the       *)
(* values the entry took since a caller last got a success for it: one     *)
(* value when every call since succeeded, more after calls that returned   *)
(* an error.                                                               *)
(***************************************************************************)
EXTENDS Journal

CONSTANTS
    MaxOps,      \* bound on the operations of one change set
    MaxErrors    \* bound on the failed writes of journal.json

VARIABLES sinceAck, errors

vars == <<entries, file, sinceAck, errors>>

ASSUME BoundsAssumption == MaxOps \in Nat /\ MaxErrors \in Nat

Init ==
    /\ JournalInit
    /\ sinceAck = [cs \in ChangeSets |-> {NoEntry}]
    /\ errors = 0

\* At most MaxErrors writes fail.
CountError(ok) ==
    /\ ok \/ errors < MaxErrors
    /\ errors' = IF ok THEN errors ELSE errors + 1

\* What the caller of cs may expect to find after a restart.
Acknowledge(cs, ok) ==
    /\ CountError(ok)
    /\ sinceAck' = [sinceAck EXCEPT ![cs] =
                        IF ok THEN {entries'[cs]} ELSE @ \cup {entries'[cs]}]

\* A refused Begin hands out no id: its caller expects nothing.
CallBegin(cs, ok) ==
    /\ Begin(cs, ok)
    /\ CountError(ok)
    /\ sinceAck' = IF ok THEN [sinceAck EXCEPT ![cs] = {entries'[cs]}] ELSE sinceAck

CallAddOperation(cs, op, ok) ==
    /\ Known(cs)
    /\ Len(entries[cs].operations) < MaxOps
    /\ AddOperation(cs, op, ok)
    /\ Acknowledge(cs, ok)

CallSetPreimage(cs, path, hash, ok) ==
    SetPreimage(cs, path, hash, ok) /\ Acknowledge(cs, ok)

CallSetPostimage(cs, path, hash, ok) ==
    SetPostimage(cs, path, hash, ok) /\ Acknowledge(cs, ok)

CallComplete(cs, ok) == Complete(cs, ok) /\ Acknowledge(cs, ok)
CallMarkFailed(cs, ok) == MarkFailed(cs, ok) /\ Acknowledge(cs, ok)
CallMarkRolledBack(cs, ok) == MarkRolledBack(cs, ok) /\ Acknowledge(cs, ok)

\* After a restart every reader sees the file: uncertainty ends there.
Restart ==
    /\ Reopen
    /\ sinceAck' = [cs \in ChangeSets |-> {file[cs]}]
    /\ UNCHANGED errors

Next ==
    \/ \E cs \in ChangeSets, ok \in BOOLEAN :
        \/ CallBegin(cs, ok)
        \/ \E op \in OperationEntry : CallAddOperation(cs, op, ok)
        \/ \E path \in Paths, hash \in Hashes :
            \/ CallSetPreimage(cs, path, hash, ok)
            \/ CallSetPostimage(cs, path, hash, ok)
        \/ CallComplete(cs, ok)
        \/ CallMarkFailed(cs, ok)
        \/ CallMarkRolledBack(cs, ok)
    \/ Restart

Spec == Init /\ [][Next]_vars

----------------------------------------------------------------------------
TypeOK ==
    /\ JournalTypeOK
    /\ sinceAck \in [ChangeSets -> SUBSET (ChangeSetEntry \cup {NoEntry})]
    /\ errors \in 0 .. MaxErrors

(***************************************************************************)
(* A call that returned success survives a restart, and nothing else       *)
(* slips in: for every change set the file holds the value acknowledged    *)
(* last or one that a later call, which returned an error, put in memory.  *)
(* This is what persistLocked before every return of journal.go is for;    *)
(* in particular a change set whose Begin was refused never becomes        *)
(* durable through the next write for another change set.                  *)
(***************************************************************************)
AcknowledgedSurvives ==
    \A cs \in ChangeSets : file[cs] \in sinceAck[cs]

LogOf(image, cs) == IF image[cs] = NoEntry THEN <<>> ELSE image[cs].operations

IsExtension(s, t) ==
    /\ Len(s) <= Len(t)
    /\ \A i \in 1 .. Len(s) : s[i] = t[i]

(***************************************************************************)
(* The operation log on disk only grows: whatever errors and restarts      *)
(* happen between, no write of journal.json drops, replaces or reorders an *)
(* operation that an earlier one stored (AddOperation, load and            *)
(* persistLocked of journal.go).                                           *)
(***************************************************************************)
DurableLogGrows ==
    [][\A cs \in ChangeSets : IsExtension(LogOf(file, cs), LogOf(file', cs))]_vars

(***************************************************************************)
(* The strengthening both properties rest on: memory is never behind the   *)
(* file, and holds for each change set a value its callers know of.        *)
(***************************************************************************)
FileBehindMemory ==
    \A cs \in ChangeSets :
        /\ entries[cs] \in sinceAck[cs]
        /\ IsExtension(LogOf(file, cs), LogOf(entries, cs))

============================================================================
