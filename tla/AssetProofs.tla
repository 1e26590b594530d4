---------------------------- MODULE AssetProofs ----------------------------
(***************************************************************************)
(* Proofs about AssetSync: its types, and that the lock file lists only    *)
(* what was pulled, for any connections, assets, contents and bounds.      *)
(*                                                                         *)
(* LockedWasPulled is not inductive: the lock a call saves is the one it   *)
(* loaded, perhaps long ago.  The invariant adds that what the calls in    *)
(* progress carry was pulled as well.                                      *)
(***************************************************************************)
EXTENDS AssetSync, TLAPS

Locks == {lock \in [Assets -> Refs \cup {None}] :
             \A a \in Assets : lock[a] # None => lock[a].asset = a}

Steps == {"download", "replace", "mark", "clean", "save"}

Calls == [pc : Steps, ref : Refs, lock : Locks,
          content : Contents \cup {None}, expected : Contents \cup {None}]

Types ==
    /\ file \in [Targets -> Contents \cup {None}]
    /\ marker \in [Assets -> Contents \cup {None}]
    /\ lockFile \in Locks
    /\ calls \in [Callers -> Calls \cup {Idle}]
    /\ \A c \in Callers :
        At(c, "replace") \/ At(c, "mark") \/ At(c, "save") => calls[c].content \in Contents
    /\ kept \subseteq Refs

\* Every reference of a lock is one a file was put in place for.
Pulled(lock) == \A a \in Assets : lock[a] # None => lock[a] \in kept

CarriedWasPulled ==
    \A c \in Callers : ~At(c, "idle") =>
        /\ Pulled(calls[c].lock)
        /\ At(c, "save") => calls[c].ref \in kept

Inv == Types /\ Pulled(lockFile) /\ CarriedWasPulled

----------------------------------------------------------------------------
\* A call that is not idle has all fields of a call.
LEMMA Working ==
    ASSUME Types, NEW c \in Callers, ~At(c, "idle")
    PROVE  calls[c] \in Calls
BY DEF Types, At, Idle

\* The file names an asset by its own entry, never None.
LEMMA RefsAreNotNone == ASSUME NEW ref \in Refs PROVE ref.asset \in Assets /\ ref.target \in Targets
BY DEF Refs

\* A complete request merged with the lock file is a reference.
LEMMA MergedType ==
    ASSUME NEW request \in Requests, NEW lock \in Locks,
           Complete(Merged(request, lock[request.asset]))
    PROVE  /\ Merged(request, lock[request.asset]) \in Refs
           /\ Merged(request, lock[request.asset]).asset = request.asset
<1> DEFINE existing == lock[request.asset]
<1>1. request.asset \in Assets BY DEF Requests
<1>2. CASE existing = None
  BY <1>1, <1>2, AssetAssumption DEF Requests, Refs, Merged, Complete
<1>3. CASE existing # None
  <2>1. existing \in Refs BY <1>1, <1>3 DEF Locks
  <2>2. /\ FirstOf(request.target, existing.target) \in Targets
        /\ FirstOf(request.pin, existing.pin) \in Pins \cup {None}
    BY <2>1 DEF Requests, Refs, FirstOf
  <2> QED BY <1>1, <1>3, <2>2 DEF Merged, Refs
<1> QED BY <1>2, <1>3

\* An entry put into a lock leaves it one.
LEMMA WithEntryType ==
    ASSUME NEW lock \in Locks, NEW ref \in Refs
    PROVE  WithEntry(lock, ref) \in Locks
BY DEF WithEntry, Locks, Refs

----------------------------------------------------------------------------
LEMMA InitInv == Init => Inv
BY DEF Init, Inv, Types, Locks, Pulled, CarriedWasPulled, At, Idle

\* The call of one connection moves on: what has to be shown of it alone.
LEMMA CallStep ==
    ASSUME Inv, NEW c \in Callers, NEW call \in Calls \cup {Idle},
           calls' = [calls EXCEPT ![c] = call],
           call.pc \in {"replace", "mark", "save"} => call.content \in Contents,
           kept \subseteq kept', kept' \subseteq Refs,
           file' \in [Targets -> Contents \cup {None}],
           marker' \in [Assets -> Contents \cup {None}],
           lockFile' \in Locks,
           \A a \in Assets : lockFile'[a] # None => lockFile'[a] \in kept',
           call.pc # "idle" =>
               /\ \A a \in Assets : call.lock[a] # None => call.lock[a] \in kept'
               /\ call.pc = "save" => call.ref \in kept'
    PROVE  Inv'
<1>1. calls' \in [Callers -> Calls \cup {Idle}] BY DEF Inv, Types
<1>2. \A d \in Callers : calls'[d] = IF d = c THEN call ELSE calls[d] BY DEF Inv, Types
<1>3. Types' BY <1>1, <1>2 DEF Inv, Types, At
<1>4. Pulled(lockFile)' BY DEF Pulled
<1>5. CarriedWasPulled'
  <2> SUFFICES ASSUME NEW d \in Callers, ~At(d, "idle")'
               PROVE  /\ \A a \in Assets : calls'[d].lock[a] # None => calls'[d].lock[a] \in kept'
                      /\ calls'[d].pc = "save" => calls'[d].ref \in kept'
    BY DEF CarriedWasPulled, Pulled, At
  <2>1. CASE d = c BY <1>2, <2>1 DEF At
  <2>2. CASE d # c BY <1>2, <2>2 DEF At, Inv, CarriedWasPulled, Pulled
  <2> QED BY <2>1, <2>2
<1> QED BY <1>3, <1>4, <1>5 DEF Inv

\* Each action of a pull preserves the invariant.
LEMMA PullStep == ASSUME Inv, NEW c \in Callers, Pull(c) PROVE Inv'
<1>1. PICK request \in Requests :
        LET ref == Merged(request, lockFile[request.asset])
        IN /\ Complete(ref)
           /\ GoTo(c, [pc |-> "download", ref |-> ref, lock |-> lockFile,
                       content |-> None, expected |-> None])
  BY DEF Pull
<1> DEFINE ref == Merged(request, lockFile[request.asset])
           call == [pc |-> "download", ref |-> ref, lock |-> lockFile,
                    content |-> None, expected |-> None]
<1>2. lockFile \in Locks BY DEF Inv, Types
<1>3. ref \in Refs BY <1>1, <1>2, MergedType
<1>4. call \in Calls BY <1>2, <1>3 DEF Calls, Steps
<1>5. UNCHANGED <<diskVars, kept>> /\ calls' = [calls EXCEPT ![c] = call]
  BY <1>1 DEF Pull, GoTo
<1>6. /\ call.pc = "download" /\ call.lock = lockFile
  OBVIOUS
<1> HIDE DEF call
<1> QED BY <1>4, <1>5, <1>6, CallStep DEF diskVars, Inv, Types, Pulled
LEMMA DownloadStep == ASSUME Inv, NEW c \in Callers, Download(c) PROVE Inv'
<1>1. calls[c] \in Calls BY Working DEF Download, At, Inv
<1>2. PICK content \in Contents, expected \in Contents \cup {None} :
        calls' = [calls EXCEPT ![c] = [calls[c] EXCEPT !.pc = "replace", !.content = content,
                                                       !.expected = expected]]
  <2>1. \A metadata, header \in Contents \cup {None} :
          Expected(metadata, calls[c].ref.pin, header) \in Contents \cup {None}
    BY <1>1, AssetAssumption DEF Expected, FirstOf, Calls, Refs
  <2> QED BY <2>1 DEF Download, GoTo
<1> DEFINE call == [calls[c] EXCEPT !.pc = "replace", !.content = content, !.expected = expected]
<1>3. call \in Calls BY <1>1 DEF Calls, Steps
<1>4. call.pc = "replace" /\ call.content \in Contents /\ call.lock = calls[c].lock
  BY <1>1 DEF Calls
<1>5. Pulled(calls[c].lock) BY DEF Inv, CarriedWasPulled, Download, At
<1>6. calls' = [calls EXCEPT ![c] = call] BY <1>2
<1>7. UNCHANGED <<file, marker, lockFile, kept>> BY DEF Download, diskVars
<1> HIDE DEF call
<1> QED BY <1>3, <1>4, <1>5, <1>6, <1>7, CallStep DEF Inv, Types, Pulled

\* The call ends, and the file, the marker and the lock are none the worse.
LEMMA EndStep ==
    ASSUME Inv, NEW c \in Callers, GoTo(c, Idle), UNCHANGED <<marker, lockFile, kept>>,
           file' \in [Targets -> Contents \cup {None}]
    PROVE  Inv'
BY CallStep DEF GoTo, Idle, Inv, Types, Pulled

\* The call goes on to the next step with what it carries.
LEMMA MoveStep ==
    ASSUME Inv, NEW c \in Callers, ~At(c, "idle"), NEW pc \in Steps, Moved(c, pc),
           pc \in {"replace", "mark", "save"} => calls[c].content \in Contents,
           kept \subseteq kept', kept' \subseteq Refs, pc = "save" => calls[c].ref \in kept',
           file' \in [Targets -> Contents \cup {None}],
           marker' \in [Assets -> Contents \cup {None}],
           UNCHANGED lockFile
    PROVE  Inv'
<1> DEFINE call == [calls[c] EXCEPT !.pc = pc]
<1>1. calls[c] \in Calls BY Working DEF Inv
<1>2. /\ call \in Calls /\ call.pc = pc
      /\ call.lock = calls[c].lock /\ call.ref = calls[c].ref /\ call.content = calls[c].content
  BY <1>1 DEF Calls
<1>3. calls' = [calls EXCEPT ![c] = call] BY DEF Moved, GoTo
<1>4. Pulled(calls[c].lock) /\ Pulled(lockFile) BY DEF Inv, CarriedWasPulled
<1> HIDE DEF call
<1> QED BY <1>2, <1>3, <1>4, CallStep DEF Inv, Types, Pulled

LEMMA ReplaceStep == ASSUME Inv, NEW c \in Callers, Replace(c) PROVE Inv'
<1>1. calls[c] \in Calls BY Working DEF Replace, At, Inv
<1>2. calls[c].content \in Contents BY DEF Inv, Types, Replace, At
<1>3. file' \in [Targets -> Contents \cup {None}] BY <1>2 DEF Replace, Inv, Types
<1>4. ~At(c, "idle") /\ UNCHANGED <<marker, lockFile, kept>> BY DEF Replace, At
<1>5. CASE Moved(c, "mark") BY <1>2, <1>3, <1>4, <1>5, MoveStep DEF Steps, Inv, Types
<1>6. CASE Moved(c, "clean") BY <1>3, <1>4, <1>6, MoveStep DEF Steps, Inv, Types
<1> QED BY <1>5, <1>6 DEF Replace

LEMMA MarkStep == ASSUME Inv, NEW c \in Callers, Mark(c) PROVE Inv'
<1>1. calls[c] \in Calls BY Working DEF Mark, At, Inv
<1>2. calls[c].content \in Contents BY DEF Inv, Types, Mark, At
<1>3. marker' \in [Assets -> Contents \cup {None}]
  BY <1>1 DEF Mark, NewMarker, FirstOf, Calls, Inv, Types
<1>4. kept' = kept \cup {calls[c].ref} /\ calls[c].ref \in Refs BY <1>1 DEF Mark, Calls
<1>5. ~At(c, "idle") /\ UNCHANGED <<file, lockFile>> /\ Moved(c, "save") BY DEF Mark, At
<1> QED BY <1>2, <1>3, <1>4, <1>5, MoveStep DEF Steps, Inv, Types

LEMMA MarkFailsStep == ASSUME Inv, NEW c \in Callers, MarkFails(c) PROVE Inv'
<1>1. marker' \in [Assets -> Contents \cup {None}] BY DEF MarkFails, Inv, Types
<1>2. ~At(c, "idle") /\ UNCHANGED <<file, lockFile, kept>> /\ Moved(c, "clean")
  BY DEF MarkFails, At, AfterBadMark
<1> QED BY <1>1, <1>2, MoveStep DEF Steps, Inv, Types

LEMMA SaveLockStep == ASSUME Inv, NEW c \in Callers, SaveLock(c) PROVE Inv'
<1> DEFINE lock == calls[c].lock
           ref == calls[c].ref
<1>1. lock \in Locks /\ ref \in Refs BY Working DEF SaveLock, At, Inv, Calls
<1>2. lockFile' = WithEntry(lock, ref) /\ UNCHANGED <<file, marker, kept>> BY DEF SaveLock
<1>3. WithEntry(lock, ref) \in Locks BY <1>1, WithEntryType
<1>4. Pulled(lock) /\ ref \in kept BY DEF Inv, CarriedWasPulled, SaveLock, At
<1>5. \A a \in Assets : lockFile'[a] # None => lockFile'[a] \in kept'
  BY <1>1, <1>2, <1>4 DEF WithEntry, Pulled, Locks
<1>6. calls' = [calls EXCEPT ![c] = Idle] BY DEF SaveLock, GoTo
<1> QED BY <1>2, <1>3, <1>5, <1>6, CallStep DEF Idle, Inv, Types

LEMMA CrashStep == ASSUME Inv, Crash PROVE Inv'
<1>1. marker' \in [Assets -> Contents \cup {None}] BY DEF Crash, Inv, Types
<1>2. calls' = [c \in Callers |-> Idle] /\ UNCHANGED <<file, lockFile, kept>> BY DEF Crash
<1> QED BY <1>1, <1>2 DEF Inv, Types, Pulled, CarriedWasPulled, At, Idle

LEMMA InvStep == Inv /\ [Next]_vars => Inv'
<1> SUFFICES ASSUME Inv, [Next]_vars PROVE Inv' OBVIOUS
<1>1. ASSUME NEW c \in Callers, Pull(c) PROVE Inv' BY <1>1, PullStep
<1>2. ASSUME NEW c \in Callers, Download(c) PROVE Inv' BY <1>2, DownloadStep
<1>3. ASSUME NEW c \in Callers, DownloadFails(c) PROVE Inv'
  BY <1>3, EndStep DEF DownloadFails, diskVars, Inv, Types
<1>4. ASSUME NEW c \in Callers, Replace(c) PROVE Inv' BY <1>4, ReplaceStep
<1>5. ASSUME NEW c \in Callers, ReplaceFails(c) PROVE Inv'
  BY <1>5, EndStep DEF ReplaceFails, diskVars, Inv, Types
<1>6. ASSUME NEW c \in Callers, Mark(c) PROVE Inv' BY <1>6, MarkStep
<1>7. ASSUME NEW c \in Callers, MarkFails(c) PROVE Inv' BY <1>7, MarkFailsStep
<1>8. ASSUME NEW c \in Callers, Clean(c) PROVE Inv'
  <2>1. file' \in [Targets -> Contents \cup {None}] BY <1>8 DEF Clean, Inv, Types
  <2> QED BY <1>8, <2>1, EndStep DEF Clean
<1>9. ASSUME NEW c \in Callers, SaveLock(c) PROVE Inv' BY <1>9, SaveLockStep
<1>10. ASSUME NEW c \in Callers, SaveLockFails(c) PROVE Inv'
  BY <1>10, EndStep DEF SaveLockFails, diskVars, Inv, Types
<1>11. CASE Crash BY <1>11, CrashStep
<1>12. CASE UNCHANGED vars
  BY <1>12 DEF vars, diskVars, Inv, Types, Pulled, CarriedWasPulled, At
<1> QED BY <1>1, <1>2, <1>3, <1>4, <1>5, <1>6, <1>7, <1>8, <1>9, <1>10, <1>11, <1>12 DEF Next

----------------------------------------------------------------------------
\* The inductive invariant: types, and every reference in the lock file or
\* carried by a call was pulled (asset.pull).
THEOREM AssetInvariant == Spec => []Inv
BY InitInv, InvStep, PTL DEF Spec

\* The files, the markers, the lock file and the calls keep their types.
THEOREM AssetTypes == Spec => []AssetsTypeOK
<1>1. Inv => AssetsTypeOK
  <2> SUFFICES ASSUME Inv PROVE AssetsTypeOK OBVIOUS
  <2>1. \A c \in Callers : ~At(c, "idle") => calls[c] \in Calls BY Working DEF Inv
  <2> QED BY <2>1 DEF AssetsTypeOK, Inv, Types, Locks, Calls, Steps
<1> QED BY <1>1, AssetInvariant, PTL

\* The lock file lists only references some pull put a file and its marker
\* in place for: SaveLockFile comes last in asset.pull, and the lock it
\* saves was loaded from an earlier one.
THEOREM LockListsPulled == Spec => []LockedWasPulled
<1>1. Inv => LockedWasPulled BY DEF Inv, Pulled, LockedWasPulled
<1> QED BY <1>1, AssetInvariant, PTL

----------------------------------------------------------------------------
(***************************************************************************)
(* What an acknowledged pull leaves behind, as long as calls do not        *)
(* overlap.  The invariant says what the one call in progress has already  *)
(* written, and that it keeps clear of every pull still called intact.     *)
(***************************************************************************)
Acks == [ref : Refs, checked : BOOLEAN, intact : BOOLEAN]

\* Of a call: its lock is the lock file, its checksum that of its content,
\* and its file and marker are in place when its step says so.
InPlace(call, files, markers, lock) ==
    /\ call.lock = lock
    /\ call.pc \in {"replace", "mark", "save"} => call.expected \in {None, call.content}
    /\ call.pc \in {"mark", "save"} => files[call.ref.target] = call.content
    /\ call.pc = "save" /\ call.expected # None => markers[call.ref.asset] = call.expected

\* Of an acknowledged pull of a: its entry is in the lock file, and while it
\* is intact nobody is at its asset or target and its file is what its marker
\* says.
Stands(a) ==
    /\ lockFile[a] = acked[a].ref /\ acked[a].ref.asset = a
    /\ acked[a].intact =>
        /\ \A c \in Callers : ~At(c, "idle") =>
            calls[c].ref.asset # a /\ calls[c].ref.target # acked[a].ref.target
        /\ acked[a].checked =>
            /\ file[acked[a].ref.target] \in Contents
            /\ marker[a] = file[acked[a].ref.target]

AloneInv ==
    /\ acked \in [Assets -> Acks \cup {None}]
    /\ ~overlap =>
        /\ \A c, d \in Callers : ~At(c, "idle") /\ ~At(d, "idle") => c = d
        /\ \A c \in Callers : ~At(c, "idle") => InPlace(calls[c], file, marker, lockFile)
        /\ \A a \in Assets : acked[a] # None => Stands(a)

\* Acknowledgements that keep what they say and are intact at most where they
\* were.
Weaker(new) ==
    /\ new \in [Assets -> Acks \cup {None}]
    /\ \A a \in Assets : new[a] # None =>
        /\ acked[a] # None /\ new[a].ref = acked[a].ref
        /\ new[a].checked = acked[a].checked
        /\ new[a].intact => acked[a].intact

\* Those that are intact keep clear of an asset and a target.
Clear(new, asset, target) ==
    \A a \in Assets : new[a] # None /\ new[a].intact => a # asset /\ new[a].ref.target # target

LEMMA DisturbedAcks ==
    ASSUME acked \in [Assets -> Acks \cup {None}], NEW asset, NEW target
    PROVE  Weaker(Disturbed(asset, target)) /\ Clear(Disturbed(asset, target), asset, target)
BY DEF Disturbed, Acks, Weaker, Clear

LEMMA AloneInit == Init => AloneInv
BY DEF Init, AloneInv, At, Idle

LEMMA AlonePull ==
    ASSUME Inv, AloneInv, NEW c \in Callers, Pull(c)
    PROVE  AloneInv'
<1>1. PICK request \in Requests :
        LET ref == Merged(request, lockFile[request.asset])
        IN /\ Complete(ref)
           /\ GoTo(c, [pc |-> "download", ref |-> ref, lock |-> lockFile,
                       content |-> None, expected |-> None])
           /\ acked' = Disturbed(ref.asset, ref.target)
  BY DEF Pull
<1> DEFINE ref == Merged(request, lockFile[request.asset])
           call == [pc |-> "download", ref |-> ref, lock |-> lockFile,
                    content |-> None, expected |-> None]
<1>2. Weaker(acked') /\ Clear(acked', ref.asset, ref.target)
  <2>1. acked' = Disturbed(ref.asset, ref.target) BY <1>1
  <2> HIDE DEF ref
  <2> QED BY <2>1, DisturbedAcks DEF AloneInv
<1>3. \A d \in Callers : calls'[d] = IF d = c THEN call ELSE calls[d]
  BY <1>1 DEF GoTo, Inv, Types
<1>4. /\ UNCHANGED <<file, marker, lockFile>> /\ At(c, "idle")
      /\ ~overlap' => ~overlap /\ \A d \in Callers : At(d, "idle")
  BY DEF Pull, diskVars
<1>5. /\ call.pc = "download" /\ call.lock = lockFile /\ call.ref = ref
  OBVIOUS
<1> HIDE DEF call, ref
<1>6. ~overlap' => \A d, e \in Callers : ~At(d, "idle")' /\ ~At(e, "idle")' => d = e
  BY <1>3, <1>4 DEF At
<1>7. ~overlap' => \A d \in Callers : ~At(d, "idle")' => InPlace(calls[d], file, marker, lockFile)'
  BY <1>3, <1>4, <1>5 DEF At, InPlace
<1>8. ~overlap' => \A a \in Assets : acked'[a] # None => Stands(a)'
  <2> SUFFICES ASSUME ~overlap', NEW a \in Assets, acked'[a] # None PROVE Stands(a)' OBVIOUS
  <2>1. Stands(a) BY <1>2, <1>4 DEF AloneInv, Weaker
  <2>2. \A d \in Callers : ~At(d, "idle")' => calls'[d].ref = ref BY <1>3, <1>4, <1>5 DEF At
  <2> QED BY <2>1, <2>2, <1>2, <1>4 DEF Stands, Weaker, Clear
<1> QED BY <1>2, <1>6, <1>7, <1>8 DEF AloneInv, Weaker

\* The one call moves on or ends, and writes at its own asset and target at
\* most.
LEMMA AloneMove ==
    ASSUME Inv, AloneInv, NEW c \in Callers, ~At(c, "idle"),
           NEW call \in Calls \cup {Idle},
           calls' = [calls EXCEPT ![c] = call],
           call.pc # "idle" => /\ call.ref = calls[c].ref
                               /\ ~overlap => InPlace(call, file', marker', lockFile'),
           UNCHANGED <<lockFile, overlap>>,
           \A t \in Targets : t # calls[c].ref.target => file'[t] = file[t],
           \A a \in Assets : a # calls[c].ref.asset => marker'[a] = marker[a],
           Weaker(acked')
    PROVE  AloneInv'
<1>1. \A d \in Callers : calls'[d] = IF d = c THEN call ELSE calls[d] BY DEF Inv, Types
<1>2. ~overlap => \A d \in Callers : d # c => At(d, "idle") BY DEF AloneInv
<1>3. ~overlap' => \A d \in Callers : ~At(d, "idle")' =>
        d = c /\ InPlace(calls[d], file, marker, lockFile)'
  BY <1>1, <1>2 DEF At, InPlace
<1>4. ~overlap' => \A a \in Assets : acked'[a] # None => Stands(a)'
  <2> SUFFICES ASSUME ~overlap', NEW a \in Assets, acked'[a] # None PROVE Stands(a)' OBVIOUS
  <2>1. Stands(a) /\ acked[a] \in Acks BY DEF AloneInv, Weaker
  <2>2. acked[a].ref.target \in Targets BY <2>1 DEF Acks, Refs
  <2>3. acked[a].intact => calls[c].ref.asset # a /\ calls[c].ref.target # acked[a].ref.target
    BY <2>1 DEF Stands
  <2>4. \A d \in Callers : ~At(d, "idle")' => calls'[d].ref = calls[c].ref
    BY <1>1, <1>2 DEF At
  <2> QED BY <2>1, <2>2, <2>3, <2>4 DEF Stands, Weaker
<1> QED BY <1>3, <1>4 DEF AloneInv, Weaker

\* The same, when nothing is written and nothing disturbed.
LEMMA AloneEnd ==
    ASSUME Inv, AloneInv, NEW c \in Callers, ~At(c, "idle"), GoTo(c, Idle),
           UNCHANGED <<diskVars, acked, overlap>>
    PROVE  AloneInv'
BY AloneMove DEF GoTo, Idle, diskVars, AloneInv, Weaker

LEMMA AloneDownload ==
    ASSUME Inv, AloneInv, NEW c \in Callers, Download(c)
    PROVE  AloneInv'
<1>1. calls[c] \in Calls /\ ~At(c, "idle") BY Working DEF Download, At, Inv
<1>2. PICK content \in Contents, expected \in Contents \cup {None} :
        /\ expected \in {None, content}
        /\ calls' = [calls EXCEPT ![c] = [calls[c] EXCEPT !.pc = "replace", !.content = content,
                                                          !.expected = expected]]
  <2>1. \A metadata, header \in Contents \cup {None} :
          Expected(metadata, calls[c].ref.pin, header) \in Contents \cup {None}
    BY <1>1, AssetAssumption DEF Expected, FirstOf, Calls, Refs
  <2> QED BY <2>1 DEF Download, GoTo, Accepts
<1> DEFINE call == [calls[c] EXCEPT !.pc = "replace", !.content = content, !.expected = expected]
<1>3. call \in Calls BY <1>1 DEF Calls, Steps
<1>4. /\ call.pc = "replace" /\ call.expected \in {None, call.content}
      /\ call.lock = calls[c].lock /\ call.ref = calls[c].ref
  BY <1>1, <1>2 DEF Calls
<1>5. calls' = [calls EXCEPT ![c] = call] BY <1>2
<1>6. UNCHANGED <<file, marker, lockFile, acked, overlap>> BY DEF Download, diskVars
<1>7. ~overlap => calls[c].lock = lockFile BY <1>1 DEF AloneInv, InPlace
<1> HIDE DEF call
<1>8. ~overlap => InPlace(call, file', marker', lockFile') BY <1>4, <1>6, <1>7 DEF InPlace
<1> QED BY <1>1, <1>3, <1>4, <1>5, <1>6, <1>8, AloneMove DEF AloneInv, Weaker

LEMMA AloneReplace ==
    ASSUME Inv, AloneInv, NEW c \in Callers, Replace(c)
    PROVE  AloneInv'
<1>1. calls[c] \in Calls /\ At(c, "replace") /\ ~At(c, "idle")
  BY Working DEF Replace, At, Inv
<1> DEFINE ref == calls[c].ref
<1>2. ref.asset \in Assets /\ ref.target \in Targets BY <1>1 DEF Calls, Refs
<1>3. PICK pc \in {"mark", "clean"} : Moved(c, pc) BY DEF Replace
<1> DEFINE call == [calls[c] EXCEPT !.pc = pc]
<1>4. /\ call \in Calls /\ call.pc = pc /\ call.ref = ref /\ call.lock = calls[c].lock
      /\ call.content = calls[c].content /\ call.expected = calls[c].expected
  BY <1>1 DEF Calls, Steps
<1>5. calls' = [calls EXCEPT ![c] = call] BY <1>3 DEF Moved, GoTo
<1>6. /\ file' = [file EXCEPT ![ref.target] = calls[c].content]
      /\ UNCHANGED <<marker, lockFile, overlap>> /\ acked' = Disturbed(ref.asset, ref.target)
  BY DEF Replace
<1>7. file'[ref.target] = calls[c].content
      /\ \A t \in Targets : t # ref.target => file'[t] = file[t]
  BY <1>2, <1>6 DEF Inv, Types
<1>8. ~overlap => InPlace(calls[c], file, marker, lockFile) BY <1>1 DEF AloneInv
<1> HIDE DEF call
<1>9. ~overlap => InPlace(call, file', marker', lockFile')
  BY <1>1, <1>3, <1>4, <1>6, <1>7, <1>8 DEF InPlace, At
<1>10. Weaker(acked') BY <1>6, DisturbedAcks DEF AloneInv
<1> QED BY <1>1, <1>4, <1>5, <1>6, <1>7, <1>9, <1>10, AloneMove

LEMMA AloneMark ==
    ASSUME Inv, AloneInv, NEW c \in Callers, Mark(c)
    PROVE  AloneInv'
<1>1. calls[c] \in Calls /\ At(c, "mark") /\ ~At(c, "idle") BY Working DEF Mark, At, Inv
<1> DEFINE ref == calls[c].ref
           call == [calls[c] EXCEPT !.pc = "save"]
<1>2. ref.asset \in Assets BY <1>1 DEF Calls, Refs
<1>3. /\ call \in Calls /\ call.pc = "save" /\ call.ref = ref /\ call.lock = calls[c].lock
      /\ call.content = calls[c].content /\ call.expected = calls[c].expected
  BY <1>1 DEF Calls, Steps
<1>4. calls' = [calls EXCEPT ![c] = call] BY DEF Mark, Moved, GoTo
<1>5. /\ marker' = [marker EXCEPT ![ref.asset] = NewMarker(@, calls[c].expected)]
      /\ UNCHANGED <<file, lockFile, acked, overlap>>
  BY DEF Mark
<1>6. /\ calls[c].expected # None => marker'[ref.asset] = calls[c].expected
      /\ \A a \in Assets : a # ref.asset => marker'[a] = marker[a]
  BY <1>2, <1>5 DEF Inv, Types, NewMarker, FirstOf
<1>7. ~overlap => InPlace(calls[c], file, marker, lockFile) BY <1>1 DEF AloneInv
<1> HIDE DEF call
<1>8. ~overlap => InPlace(call, file', marker', lockFile')
  BY <1>1, <1>3, <1>5, <1>6, <1>7 DEF InPlace, At
<1> QED BY <1>1, <1>3, <1>4, <1>5, <1>6, <1>8, AloneMove DEF AloneInv, Weaker

LEMMA AloneMarkFails ==
    ASSUME Inv, AloneInv, NEW c \in Callers, MarkFails(c)
    PROVE  AloneInv'
<1>1. calls[c] \in Calls /\ ~At(c, "idle") BY Working DEF MarkFails, At, Inv
<1> DEFINE call == [calls[c] EXCEPT !.pc = "clean"]
<1>2. /\ call \in Calls /\ call.pc = "clean"
      /\ call.ref = calls[c].ref /\ call.lock = calls[c].lock
  BY <1>1 DEF Calls, Steps
<1>3. calls' = [calls EXCEPT ![c] = call] BY DEF MarkFails, Moved, GoTo, AfterBadMark
<1>4. /\ \A a \in Assets : a # calls[c].ref.asset => marker'[a] = marker[a]
      /\ UNCHANGED <<file, lockFile, acked, overlap>>
  BY DEF MarkFails, Inv, Types
<1>5. ~overlap => calls[c].lock = lockFile BY <1>1 DEF AloneInv, InPlace
<1> HIDE DEF call
<1>6. ~overlap => InPlace(call, file', marker', lockFile') BY <1>2, <1>4, <1>5 DEF InPlace
<1> QED BY <1>1, <1>2, <1>3, <1>4, <1>6, AloneMove DEF AloneInv, Weaker

LEMMA AloneClean ==
    ASSUME Inv, AloneInv, NEW c \in Callers, Clean(c)
    PROVE  AloneInv'
<1>1. calls[c] \in Calls /\ ~At(c, "idle") BY Working DEF Clean, At, Inv
<1> DEFINE ref == calls[c].ref
<1>2. ref.asset \in Assets /\ ref.target \in Targets BY <1>1 DEF Calls, Refs
<1>3. /\ \A t \in Targets : t # ref.target => file'[t] = file[t]
      /\ UNCHANGED <<marker, lockFile, overlap>> /\ acked' = Disturbed(ref.asset, ref.target)
      /\ calls' = [calls EXCEPT ![c] = Idle]
  BY DEF Clean, GoTo, Inv, Types
<1>4. Weaker(acked') BY <1>3, DisturbedAcks DEF AloneInv
<1>5. Idle.pc = "idle" BY DEF Idle
<1> QED BY <1>1, <1>3, <1>4, <1>5, AloneMove

LEMMA AloneSaveLock ==
    ASSUME Inv, AloneInv, NEW c \in Callers, SaveLock(c)
    PROVE  AloneInv'
<1> DEFINE call == calls[c]
           ref == call.ref
           ack == [ref |-> ref, checked |-> call.expected # None, intact |-> TRUE]
<1>1. call \in Calls /\ At(c, "save") /\ ~At(c, "idle") /\ call.content \in Contents
  BY Working DEF SaveLock, At, Inv, Types
<1>2. ref \in Refs /\ ref.asset \in Assets BY <1>1 DEF Calls, Refs
<1>3. /\ lockFile' = WithEntry(call.lock, ref)
      /\ acked' = [acked EXCEPT ![ref.asset] = ack]
      /\ calls' = [calls EXCEPT ![c] = Idle]
      /\ UNCHANGED <<file, marker, overlap>>
  BY DEF SaveLock, GoTo
<1>4. ack \in Acks /\ acked' \in [Assets -> Acks \cup {None}]
  BY <1>2, <1>3 DEF Acks, AloneInv
<1> SUFFICES ASSUME ~overlap' 
             PROVE  /\ \A d \in Callers : At(d, "idle")'
                    /\ \A a \in Assets : acked'[a] # None => Stands(a)'
  BY <1>4 DEF AloneInv
<1>5. ~overlap BY <1>3
<1>6. InPlace(call, file, marker, lockFile) BY <1>1, <1>5 DEF AloneInv
<1>7. \A d \in Callers : At(d, "idle")'
  <2>1. \A d \in Callers : d # c => At(d, "idle") BY <1>1, <1>5 DEF AloneInv
  <2> QED BY <1>3, <2>1 DEF At, Idle, Inv, Types
<1>8. ASSUME NEW a \in Assets, acked'[a] # None PROVE Stands(a)'
  <2>1. lockFile' = [lockFile EXCEPT ![ref.asset] = ref] BY <1>3, <1>6 DEF InPlace, WithEntry
  <2>2. CASE a = ref.asset
    <3>1. acked'[a] = ack /\ lockFile'[a] = ref
      BY <1>2, <1>3, <2>1, <2>2 DEF AloneInv, Inv, Types, Locks
    <3>2. file[ref.target] = call.content BY <1>1, <1>6 DEF InPlace, At
    <3>3. call.expected # None => marker[a] = call.content
      BY <1>1, <1>6, <2>2 DEF InPlace, At
    <3>4. ack.ref = ref OBVIOUS
    <3>5. ack.checked = (call.expected # None) OBVIOUS
    <3> HIDE DEF ack
    <3>6. acked'[a].checked => file[ref.target] \in Contents /\ marker[a] = file[ref.target]
      BY <1>1, <3>1, <3>2, <3>3, <3>5
    <3> QED BY <1>3, <1>7, <2>2, <3>1, <3>4, <3>6 DEF Stands
  <2>3. CASE a # ref.asset
    <3>1. acked'[a] = acked[a] /\ lockFile'[a] = lockFile[a]
      BY <1>3, <2>1, <2>3 DEF AloneInv, Inv, Types, Locks
    <3>2. Stands(a) BY <1>5, <1>8, <3>1 DEF AloneInv
    <3> QED BY <1>3, <1>7, <3>1, <3>2 DEF Stands
  <2> QED BY <2>2, <2>3
<1> QED BY <1>7, <1>8

LEMMA AloneCrash ==
    ASSUME Inv, AloneInv, Crash
    PROVE  AloneInv'
<1>1. PICK torn \in SUBSET {calls[c].ref.asset : c \in {d \in Callers :
                                At(d, "mark") /\ calls[d].expected # None}} :
        marker' = [a \in Assets |-> IF a \in torn THEN None ELSE marker[a]]
  BY DEF Crash
<1>2. /\ \A d \in Callers : At(d, "idle")'
      /\ UNCHANGED <<file, lockFile, acked, overlap>>
  BY DEF Crash, At, Idle
<1>3. ASSUME ~overlap', NEW a \in Assets, acked'[a] # None PROVE Stands(a)'
  <2>1. Stands(a) BY <1>2, <1>3 DEF AloneInv
  <2>2. acked[a].intact => a \notin torn BY <2>1 DEF Stands, At
  <2> QED BY <1>1, <1>2, <2>1, <2>2 DEF Stands
<1> QED BY <1>2, <1>3 DEF AloneInv

LEMMA AloneStep == Inv /\ AloneInv /\ [Next]_vars => AloneInv'
<1> SUFFICES ASSUME Inv, AloneInv, [Next]_vars PROVE AloneInv' OBVIOUS
<1>1. ASSUME NEW c \in Callers, Pull(c) PROVE AloneInv' BY <1>1, AlonePull
<1>2. ASSUME NEW c \in Callers, Download(c) PROVE AloneInv' BY <1>2, AloneDownload
<1>3. ASSUME NEW c \in Callers, DownloadFails(c) PROVE AloneInv'
  BY <1>3, AloneEnd DEF DownloadFails, At
<1>4. ASSUME NEW c \in Callers, Replace(c) PROVE AloneInv' BY <1>4, AloneReplace
<1>5. ASSUME NEW c \in Callers, ReplaceFails(c) PROVE AloneInv'
  BY <1>5, AloneEnd DEF ReplaceFails, At
<1>6. ASSUME NEW c \in Callers, Mark(c) PROVE AloneInv' BY <1>6, AloneMark
<1>7. ASSUME NEW c \in Callers, MarkFails(c) PROVE AloneInv' BY <1>7, AloneMarkFails
<1>8. ASSUME NEW c \in Callers, Clean(c) PROVE AloneInv' BY <1>8, AloneClean
<1>9. ASSUME NEW c \in Callers, SaveLock(c) PROVE AloneInv' BY <1>9, AloneSaveLock
<1>10. ASSUME NEW c \in Callers, SaveLockFails(c) PROVE AloneInv'
  BY <1>10, AloneEnd DEF SaveLockFails, At
<1>11. CASE Crash BY <1>11, AloneCrash
<1>12. CASE UNCHANGED vars
  BY <1>12 DEF vars, diskVars, AloneInv, InPlace, Stands, At
<1> QED BY <1>1, <1>2, <1>3, <1>4, <1>5, <1>6, <1>7, <1>8, <1>9, <1>10, <1>11, <1>12 DEF Next

\* As long as calls do not overlap, the one in progress has written what its
\* step says and every acknowledged pull stands.
THEOREM AloneInvariant == Spec => [](Inv /\ AloneInv)
<1>1. Init => Inv /\ AloneInv BY InitInv, AloneInit
<1>2. Inv /\ AloneInv /\ [Next]_vars => (Inv /\ AloneInv)' BY InvStep, AloneStep
<1> QED BY <1>1, <1>2, PTL DEF Spec

\* As long as calls do not overlap, the lock file holds the reference of the
\* last acknowledged pull of each asset (asset.pull, SaveLockFile).
THEOREM AcknowledgedStaysLocked == Spec => []AcknowledgedIsLocked
<1>1. AloneInv => AcknowledgedIsLocked BY DEF AloneInv, Stands, AcknowledgedIsLocked
<1> QED BY <1>1, AloneInvariant, PTL

\* As long as calls do not overlap, an acknowledged pull that compared a
\* checksum validates until the next pull of its asset or target begins
\* (PullAsset, ValidateImport).
THEOREM AcknowledgedPullValidates == Spec => []AcknowledgedValidates
<1>1. ASSUME AloneInv, ~overlap, NEW a \in Assets, acked[a] # None,
             acked[a].intact, acked[a].checked, acked[a].ref.pin \in {None, marker[a]}
      PROVE  Validates(acked[a].ref)
  <2>1. Stands(a) /\ acked[a].ref \in Refs BY <1>1 DEF AloneInv, Acks
  <2>2. file[acked[a].ref.target] # None /\ marker[a] = file[acked[a].ref.target]
    BY <1>1, <2>1, AssetAssumption DEF Stands
  <2> QED BY <1>1, <2>1, <2>2 DEF Stands, Validates, FirstOf
<1>2. AloneInv => AcknowledgedValidates BY <1>1 DEF AcknowledgedValidates
<1> QED BY <1>2, AloneInvariant, PTL

============================================================================
