----------------------------- MODULE AssetSync -----------------------------
(***************************************************************************)
(* asset.pull and asset.validate of the bridge (adapters/ipc_handlers.go,  *)
(* internal/assets/sync.go) over the three things a pull changes in the    *)
(* project: the asset's file, the marker with its checksum, and the lock   *)
(* file, which is read when a call begins and written whole when it ends.  *)
(*                                                                         *)
(* A content stands for its own SHA-256.  A reference is what the lock     *)
(* file stores of an asset: the target it is imported to and, as pin, a    *)
(* tag or commit of the form of a checksum; other names only select what   *)
(* the gateway serves.  The gateway may serve any content, with or without *)
(* a checksum.  Temporary files are private to a call; the lock the        *)
(* gateway is sent at the end changes nothing here.                        *)
(***************************************************************************)
EXTENDS Naturals, FiniteSets, Functions

CONSTANTS
    Callers,      \* connections, one call at a time each
    Assets,
    Targets,      \* import targets
    Contents,     \* what the gateway serves of any asset
    Pins,         \* tags and commits that look like a checksum
    None,
    MaxPulls,     \* bound on the calls
    MaxFaults     \* bound on failed writes and crashes

VARIABLES
    file,         \* what each target holds
    marker,       \* the checksum marker of each asset
    lockFile,     \* .echothink/assets.lock
    calls,        \* the call of each connection
    acked,        \* the last pull of each asset reported as a success
    kept,         \* the references some pull put a file and marker in place for
    overlap,      \* whether two calls ever ran at once
    pulls, faults

diskVars == <<file, marker, lockFile>>
vars == <<diskVars, calls, acked, kept, overlap, pulls, faults>>

ASSUME AssetAssumption ==
    /\ None \notin Callers \cup Assets \cup Targets \cup Contents \cup Pins
    /\ Pins \subseteq Contents
    /\ MaxPulls \in Nat /\ MaxFaults \in Nat

Refs == [asset : Assets, target : Targets, pin : Pins \cup {None}]

Idle == [pc |-> "idle"]

Init ==
    /\ file = [t \in Targets |-> None]
    /\ marker = [a \in Assets |-> None]
    /\ lockFile = [a \in Assets |-> None]
    /\ calls = [c \in Callers |-> Idle]
    /\ acked = [a \in Assets |-> None]
    /\ kept = {}
    /\ overlap = FALSE
    /\ pulls = 0 /\ faults = 0

At(c, pc) == calls[c].pc = pc
GoTo(c, call) == calls' = [calls EXCEPT ![c] = call]
Moved(c, pc) == GoTo(c, [calls[c] EXCEPT !.pc = pc])
Fault == faults < MaxFaults /\ faults' = faults + 1

\* Pulls of other calls write behind the back of an acknowledged one.
Disturbed(asset, target) ==
    [a \in Assets |->
        IF acked[a] # None /\ (a = asset \/ acked[a].ref.target = target)
        THEN [acked[a] EXCEPT !.intact = FALSE] ELSE acked[a]]

----------------------------------------------------------------------------
\* resolveAssetRequest

FirstOf(value, default) == IF value # None THEN value ELSE default

\* What the request leaves out comes from the lock file.
Merged(request, existing) ==
    IF existing = None THEN request
    ELSE [asset  |-> request.asset,
          target |-> FirstOf(request.target, existing.target),
          pin    |-> FirstOf(request.pin, existing.pin)]

Requests == [asset : Assets, target : Targets \cup {None}, pin : Pins \cup {None}]

\* A plausible slip: the target may be missing.
AnyReference(ref) == TRUE

Complete(ref) == ref.target # None

Pull(c) ==
    /\ At(c, "idle") /\ pulls < MaxPulls
    /\ \E request \in Requests :
        LET ref == Merged(request, lockFile[request.asset])
        IN /\ Complete(ref)
           /\ GoTo(c, [pc |-> "download", ref |-> ref, lock |-> lockFile,
                       content |-> None, expected |-> None])
           /\ acked' = Disturbed(ref.asset, ref.target)
    /\ overlap' = (overlap \/ \E d \in Callers : ~At(d, "idle"))
    /\ pulls' = pulls + 1
    /\ UNCHANGED <<diskVars, kept, faults>>

----------------------------------------------------------------------------
\* PullAsset

\* The checksum of the metadata, of the reference, of the response.
Expected(metadata, pin, header) == FirstOf(metadata, FirstOf(pin, header))

Accepts(content, metadata, pin, header) ==
    Expected(metadata, pin, header) \in {None, content}

Download(c) ==
    /\ At(c, "download")
    /\ \E content \in Contents, metadata, header \in Contents \cup {None} :
        LET pin == calls[c].ref.pin
        IN /\ Accepts(content, metadata, pin, header)
           /\ GoTo(c, [calls[c] EXCEPT !.pc = "replace", !.content = content,
                                       !.expected = Expected(metadata, pin, header)])
    /\ UNCHANGED <<diskVars, acked, kept, overlap, pulls, faults>>

\* Refused, cut short, timed out, or of another size or checksum: the
\* temporary file goes.
DownloadFails(c) ==
    /\ At(c, "download")
    /\ GoTo(c, Idle)
    /\ UNCHANGED <<diskVars, acked, kept, overlap, pulls, faults>>

Replace(c) ==
    LET call == calls[c]
    IN /\ At(c, "replace")
       /\ file' = [file EXCEPT ![call.ref.target] = call.content]
       /\ \/ Moved(c, "mark") /\ UNCHANGED faults
          \/ Moved(c, "clean") /\ Fault        \* the permissions cannot be set
       /\ acked' = Disturbed(call.ref.asset, call.ref.target)
       /\ UNCHANGED <<marker, lockFile, kept, overlap, pulls>>

ReplaceFails(c) ==
    /\ At(c, "replace") /\ Fault
    /\ GoTo(c, Idle)
    /\ UNCHANGED <<diskVars, acked, kept, overlap, pulls>>

\* A plausible slip: the marker is kept if there is one.
FirstMarker(old, expected) == FirstOf(old, expected)

NewMarker(old, expected) == FirstOf(expected, old)

Mark(c) ==
    LET call == calls[c]
    IN /\ At(c, "mark")
       /\ marker' = [marker EXCEPT ![call.ref.asset] = NewMarker(@, call.expected)]
       /\ kept' = kept \cup {call.ref}
       /\ Moved(c, "save")
       /\ UNCHANGED <<file, lockFile, acked, overlap, pulls, faults>>

\* A plausible slip: the failure is only logged.
GoOn == "save"

AfterBadMark == "clean"

\* The directory cannot be made, or os.WriteFile fails after it truncated
\* the marker, which then counts as none.
MarkFails(c) ==
    LET call == calls[c]
    IN /\ At(c, "mark") /\ call.expected # None /\ Fault
       /\ \E left \in {marker[call.ref.asset], None} :
            marker' = [marker EXCEPT ![call.ref.asset] = left]
       /\ Moved(c, AfterBadMark)
       /\ UNCHANGED <<file, lockFile, acked, kept, overlap, pulls>>

\* cleanup after the replacement: the target goes, whoever wrote it last.
Clean(c) ==
    LET target == calls[c].ref.target
    IN /\ At(c, "clean")
       /\ \/ file' = [file EXCEPT ![target] = None] /\ UNCHANGED faults
          \/ Fault /\ UNCHANGED file
       /\ acked' = Disturbed(calls[c].ref.asset, target)
       /\ GoTo(c, Idle)
       /\ UNCHANGED <<marker, lockFile, kept, overlap, pulls>>

----------------------------------------------------------------------------
\* UpdateLockEntry and SaveLockFile

\* A plausible slip: the file is written anew for the one asset.
OnlyEntry(lock, ref) == [a \in Assets |-> IF a = ref.asset THEN ref ELSE None]

WithEntry(lock, ref) == [lock EXCEPT ![ref.asset] = ref]

SaveLock(c) ==
    LET call == calls[c]
        ref == call.ref
    IN /\ At(c, "save")
       /\ lockFile' = WithEntry(call.lock, ref)
       /\ acked' = [acked EXCEPT ![ref.asset] =
                       [ref |-> ref, checked |-> call.expected # None, intact |-> TRUE]]
       /\ GoTo(c, Idle)
       /\ UNCHANGED <<file, marker, kept, overlap, pulls, faults>>

SaveLockFails(c) ==
    /\ At(c, "save") /\ Fault
    /\ GoTo(c, Idle)
    /\ UNCHANGED <<diskVars, acked, kept, overlap, pulls>>

----------------------------------------------------------------------------
\* The bridge ends anywhere, also between the truncation of a marker and its
\* data.
Crash ==
    /\ \E c \in Callers : ~At(c, "idle")
    /\ Fault
    /\ \E torn \in SUBSET {calls[c].ref.asset : c \in {d \in Callers :
                              At(d, "mark") /\ calls[d].expected # None}} :
        marker' = [a \in Assets |-> IF a \in torn THEN None ELSE marker[a]]
    /\ calls' = [c \in Callers |-> Idle]
    /\ UNCHANGED <<file, lockFile, acked, kept, overlap, pulls>>

Next ==
    \/ \E c \in Callers :
        \/ Pull(c) \/ Download(c) \/ DownloadFails(c)
        \/ Replace(c) \/ ReplaceFails(c) \/ Mark(c) \/ MarkFails(c) \/ Clean(c)
        \/ SaveLock(c) \/ SaveLockFails(c)
    \/ Crash

Spec == Init /\ [][Next]_vars

----------------------------------------------------------------------------
\* ValidateImport: the pin of the reference comes before the marker.
Validates(ref) ==
    /\ file[ref.target] # None
    /\ FirstOf(ref.pin, marker[ref.asset]) \in {None, file[ref.target]}

AssetsTypeOK ==
    /\ file \in [Targets -> Contents \cup {None}]
    /\ marker \in [Assets -> Contents \cup {None}]
    /\ lockFile \in [Assets -> Refs \cup {None}]
    /\ \A a \in Assets : lockFile[a] # None => lockFile[a].asset = a
    /\ \A c \in Callers : ~At(c, "idle") =>
        /\ calls[c].pc \in {"download", "replace", "mark", "clean", "save"}
        /\ calls[c].ref \in Refs /\ calls[c].lock \in [Assets -> Refs \cup {None}]
        /\ At(c, "replace") \/ At(c, "mark") \/ At(c, "save") => calls[c].content \in Contents
    /\ kept \subseteq Refs

(***************************************************************************)
(* The lock file lists a reference only after some pull put a file and its *)
(* marker in place for it, whatever fails, crashes or runs beside it: the  *)
(* lock is saved last (asset.pull).                                        *)
(***************************************************************************)
LockedWasPulled ==
    \A a \in Assets : lockFile[a] # None => lockFile[a] \in kept

(***************************************************************************)
(* As long as calls do not overlap, the lock file holds the reference of   *)
(* the last pull of each asset that was reported as a success; later pulls *)
(* that fail or are cut off by a crash, and pulls of other assets, leave   *)
(* it (asset.pull, SaveLockFile).                                          *)
(***************************************************************************)
AcknowledgedIsLocked ==
    ~overlap => \A a \in Assets : acked[a] # None => lockFile[a] = acked[a].ref

(***************************************************************************)
(* A pull that was reported as a success and had a checksum to compare     *)
(* validates until another pull of its asset or target begins, unless      *)
(* calls overlap.  A pin that is not the checksum of what was pulled, as   *)
(* the metadata may say, is set apart: ValidateImport prefers the pin,     *)
(* PullAsset the metadata.                                                 *)
(***************************************************************************)
AcknowledgedValidates ==
    ~overlap => \A a \in Assets :
        LET pull == acked[a]
        IN pull # None =>
            (pull.intact /\ pull.checked /\ pull.ref.pin \in {None, marker[a]}
                => Validates(pull.ref))

(***************************************************************************)
(* An asset of the lock file has a file at its target: the pull that put   *)
(* it there was a success, and a later one replaces it at once or leaves   *)
(* it (os.Rename in PullAsset).                                            *)
(***************************************************************************)
LockedFileExists ==
    \A a \in Assets : lockFile[a] # None => file[lockFile[a].target] # None

============================================================================
