# TLA+ models of the EchoThink Godot plugin and its local bridge

The repository holds a Godot editor plugin (`addons/echothink`, GDScript), a
local bridge process (`local-bridge`, Go) the plugin talks to over a local
socket, and an optional runtime probe. The bridge carries most of the state that
is hard to get right: it changes the project directory, keeps a journal of what
it changed, serves several connections at once, pulls assets and holds a
connection to the cloud gateway. On the plugin's side it is the bridge client,
which has to come back after every disconnect. This directory models that state,
checks it with TLC and proves part of it with TLAPS. `PROJECT.json` lists, for
every definition that models code, the lines it stands for; the runs; for each
property a plausible bug that the property catches; the hazards; the theorems.

## 1. Inventory

| component | state | operations | what makes it correct |
|---|---|---|---|
| change-set journal, `internal/journal` | a map of change sets in memory, one mutex, `journal.json` replaced by rename | Begin, AddOperation, SetPreimage, SetPostimage, Complete, MarkFailed, MarkRolledBack, load, GetPending | what was acknowledged is on disk; the log on disk only grows |
| patch handlers, `adapters/ipc_handlers.go` | project files, `manifest.json` and backups of each change set, the journal | patch.preflight, patch.apply, patch.rollback | rollback restores; nothing is lost; the journal promises only what can be undone; an interrupted apply is found |
| patch engine, `internal/patch`, with `git apply` of `internal/git` | project files, `project.godot`, the journal | Preflight, Apply | effects are journalled first; preimages are originals; preflight is enough; a setting changes alone |
| IPC server, `internal/ipc` | listener, map of clients, login of each, a bounded queue of each, stopped flag | accept, read and dispatch, write, broadcast, Stop | nothing before the login; answers in order; Stop waits and returns; slow clients hold nobody up |
| bridge process, `cmd/echothink-bridge` | the socket path, the health port, the context | start, signals, shutdown, being killed | a bridge that is up can be reached; the server is stopped before the process ends |
| session, `internal/session` | identity and nonce, written once | Bootstrap, ValidateNonce | the plugin knows the nonce the bridge accepts |
| gateway client, `internal/gateway` | closed, wsConnected, the connection, the channel of events | ConnectWebSocket, readEvents, Events, Close; REST calls | one reader at a time; events are whole messages in order; Close leaves nothing; the end is seen |
| asset synchronisation, `internal/assets` | asset files, checksum markers, `assets.lock` | asset.pull, asset.validate, asset.diff | the lock lists what was pulled; an acknowledged pull is locked and validates |
| plugin bridge client, `services/bridge_client.gd` | the stream, pending requests, `_auth_pending`, the reconnect timer | connect_to_bridge, send_request, _process, timeouts, disconnects | a request completes once and truthfully; nobody is forgotten; the login comes first; the plugin comes back |
| plugin core, `echothink_plugin.gd` | the connection state it shows | reactions to connects and disconnects | connected means logged in |
| plugin change sets, `core/change_set_manager.gd`, `services/patch_service.gd` | change sets in memory | create, add operation, apply, roll back | see section 6 |
| test runner, logs, configuration, other handlers, plugin services, user interface, models, probe | none that outlives a call, or written once | | |

How they interact. The plugin's requests go over one connection at a time; in
the IPC server a connection is one goroutine that runs one handler at a time,
and connections run side by side. Handlers share the journal (locked), the
project directory, the manifests and the lock file (not locked). A handler has
60 s; the plugin gives up after 15 s, so an answer may come late and a call may
be repeated. The bridge may end between any two writes; the journal, the
manifests and the lock file are what the next one finds, and it may find the
socket of the last one, or of one that still runs, at its path. Shutdown has two
callers of `Stop`: `run` itself and a goroutine `Start` leaves behind for the
end of the context.

Hard behaviours, in the order they matter: writes that fail or are cut off
halfway through a patch; two connections, or an editor, on the same files;
stopping while messages, handlers and broadcasts are under way; full queues and
clients that do not read; requests whose connection, bridge or patience ends
before their answer comes; a stream that ends, is closed or is opened again while
its reader works; several files (asset, marker, lock) that must agree after a
failure; two bridges on one path.

## 2. The modules

```
Journal            the journal's operations, each atomic under its mutex
  JournalCalls     any calls, failing writes and restarts; what callers know
    JournalProofs
  PatchHandlers    patch.apply and patch.rollback, step by step
    (with ProjectTree: the project directory and the operations on it)
    PatchProofs    (with TreeProofs: lemmas on paths, moves and undoing)
  PatchEngine      Preflight and Apply of internal/patch beside an editor
    (with ProjectTree, and ProjectSettings: project.godot line by line)
    EngineProofs   (with TreeProofs)
IpcServer          accept loop, readers, writers, broadcaster, callers of Stop
  IpcProofs
BridgeSocket       bridge processes on one socket path and health port
  BridgeLink       the plugin's client, its connections, the bridges' readers
    (implements Calls: what a caller of send_request may rely on)
    LinkProofs     the sockets, the client, and that it implements Calls
GatewayStream      connecting, readers, the channel of events, Close
  GatewayProofs
AssetSync          asset.pull over files, markers and the lock file
  AssetProofs
MC*                the instances TLC checks
```

**Journal** has one operator per method of `journal.go`. `entries` is the map,
`file` the image in `journal.json`. A method holds the mutex from its first to
its last step, so it is one step here; its parameter `ok` is the outcome of
`persistLocked`. `Update` keeps the mutation in memory when the write fails, as
the code does; `Begin` takes its entry back. `Reopen` is `load`. Identifiers,
timestamps and error texts are left out. **JournalCalls** calls them in any
order and adds the ghost `sinceAck`: the value a caller was last told of and
those of later calls that returned an error.

**ProjectTree** maps paths to nodes and defines what `executePatchOperation` and
`rollbackRecordEntry` do to it: success, refusal and interruption of each
operation and of its undoing. `os` calls are modelled as the code uses them.

**PatchHandlers** composes both. `handler[h]` is the progress of the call on one
connection; each write another connection or a restart can observe is an action:
Begin, the backup, the operation, truncating and filling the manifest
(`os.WriteFile` in place), the journal entry, the images, Complete, and the same
for rollback. `faults` counts failed writes and crashes. `history` holds what
the properties compare with: the tree before a change set, the requests, which
effects never got a record, which rollbacks were tried, and which change sets lie
undisturbed on top of each other; a rollback uncovers what lies below only if it
undid its change set as a whole.

**PatchEngine** is one call of `Apply`. `call` is its place: preflight, Begin,
and for each operation AddOperation, the preimage, reading the file, writing it,
the postimage; an operation that reads before it writes (append, find and
replace, settings) is two actions, for the editor may save in between (`Edit`).
The action of an operation is found anew at each use (`ActionOf`, as
`normalizeAction` looks at the tree). The context may expire where the code
asks; a write error leaves what the code may have done by then (`CutShort`),
which for a diff is any part of it. **ProjectSettings** is what
`applyProjectSetting` and `findSectionBounds` do to the lines of
`project.godot`, and what Godot reads in them.

**IpcServer** has a record for the reader and the writer of each connection, the
accept loop, the broadcaster and both callers of Stop. `queuePayload` is a choice
between room in the queue, a closed connection and the end of `writeQueueWait`.
Closing a connection makes reads and writes fail when they are next tried.
Accepting may fail for good at any time, which ends the loop. Sockets and their
clients are external: they connect, send, stall and hang up.

**BridgeSocket** is `run` with `Start`, `Stop` and `prepareSocketPath`: probe,
removal of a stale name, bind, listen, chmod, health port, and the way back. The
path is a name that outlives its process (`Stale`) and that every removal takes
whoever it belongs to, as `os.Remove` does. `raced` marks bridges whose start
met a race the code leaves open.

**BridgeLink** adds the plugin and the reading side of the bridges. The editor
runs one thing at a time, so a call up to its first `await`, a frame and a timer
are one action each, written as chains of operators on the plugin's state (`Connect`,
`BeginLogin`, `Handle`, `Disconnect`, `Welcome`), in the order of the code. A
link keeps both directions of a stream; an end that closes forgets what it has
not read. Requests stand for their ids. **Calls** is the abstract specification:
a call returns once, an answer means exactly one execution, a refused call never
runs, any other failure leaves open whether it ran. `caller` maps to `outcome`
("awaiting" is "open"), `executions` to itself; `CallsAreKept` is the refinement.

**GatewayStream** has one record for each connection and each `readEvents`. A
reader fetches the current connection under the mutex and reads outside of it;
frames, continuation, ping and close are handled as in `readFrame` and
`readEvents`; control frames come anywhere, also between the fragments of a
message, where `readFrame` takes them for its end (`split` remembers which
message that was). A send on the closed channel sets `panicked`. The dial with
its handshake is one step. Any number of goroutines call `ConnectWebSocket`
(`Dialers`): each looks, dials, stores its connection and starts a reader in
steps of its own, as the code does without a second look. `crossed` marks that
one call stored its connection during the dial of another; then two readers may
share a `bufio.Reader`, and what they make of it is any outcome (`ReadTorn`,
`ReadPanics`). `late` are the connections stored behind Close.

**AssetSync** has one action for each write of `asset.pull`: the rename onto the
target, the marker, the lock file, and the cleanup. The lock is loaded when the
call begins and written whole at its end, as in the code. A content stands for
its own checksum; the gateway may serve anything, with or without checksums. The
ghosts are `acked` (what callers were told), `kept` (what was put in place) and
`overlap`.

## 3. The runs

Every run finishes within four minutes on two cores.

| run | instance | shows |
|---|---|---|
| `journal` | 2 change sets, 1 path, 1 hash, 2 operations each, 2 failed writes, restarts anywhere | `AcknowledgedSurvives`: the file holds what was acknowledged last or what a later failed call put in memory, never a refused Begin. `DurableLogGrows`: no write drops or reorders a stored operation. `FileBehindMemory`: the strengthening of both |
| `patch` | three cuts, see below | `RolledBackMeansRestored`, `NothingLost`, `ReversibleIsUndoable`, `CompletedIsRecorded`, `InterruptedApplyIsPending` |
| `patch_half_applied` | every pair of 14 operations on 4 trees, 1 fault | violated: see findings |
| `patch_engine` | 17 operations, alone and in pairs, 13 that must be refused or read other settings; 7 trees, 2 faults, 1 edit | `EffectsAreJournalled`, `PreimageIsOriginal`, `CompletedMatchesTree`, `PreflightIsEnough`, `OnlyThatSetting` |
| `ipc_server` | 1 connection, 2 messages of all 11 kinds, queue of 1, 1 broadcast, both callers of Stop | `NothingBeforeLogin`, `AnswersInOrder`, `StopWaitsForHandlers` |
| `ipc_liveness` | the same with logins and calls only | `StopReturnsUnlessLate`, `RequestsAreAnswered`, `BroadcastEnds` |
| `link` | 2 bridges, one of which accepts the plugin's nonce, 2 requests, 2 connections at a time; starts, stops and kills | `UpIsReachable`, `LoginFirst`, `NobodyForgotten`, `OnlineMeansLoggedIn`, the refinement `CallsAreKept`, and `ComesBack` under fairness |
| `pairing` | 1 bridge as `main.go` builds it, 1 request | violated: see findings |
| `gateway` | 2 dialing goroutines, 2 connections, channel of 1, three cuts, see below | `OneReader`, `EventsAreMessages`, `CloseLeavesNothing`, and under fairness `CloseEnds` and `EndIsSeen` |
| `gateway_reconnect` | 1 dialing goroutine, 2 connections, 2 frames, nobody calls Close | violated: see findings |
| `assets` | 2 connections, 2 assets, 2 targets, 2 contents, 1 pin, 3 pulls, 2 faults | `LockedWasPulled`, `AcknowledgedIsLocked`, `AcknowledgedValidates` |
| `asset_replace` | the same, 1 fault | violated: see findings |

For each module one passing run also checks the type invariant.

Bounds, and why they are enough. Journal: the interesting case is one change set
writing the file while another has unsaved changes, which takes two change sets
and one failed write; the second shows a failure after a failure, and the proofs
cover every size. Patch: the hazards of undoing are between two operations on
meeting paths; the paths `a`, `d`, `d/a` give files replaced by directories,
directories that appear on the way, and chains of renames. `MCPatch` takes three
cuts: one change set, one call at a time, any pair of operations on any tree,
two faults anywhere (an error in the middle of an apply and another in its
rollback); two connections with a change set each that meet on a path, all
interleavings, no fault; or one such change set on top of the other, one call at a
time and one fault, so that an effect without a record lies between them. The
path `a/a` is there for a directory `d` moved to `a`: `TreePaths` bounds the paths
there are, and a directory is not moved where a path below it would be too long
(`StaysInBounds`). Patch engine: pairs as before; one edit separates a read
from its write, or a check from its use; the three forms of `project.godot` put
the section first, last or absent and the key twice. IPC: a queue of one
is full after one payload, two messages give an order, one broadcast competes
with an answer, and every select has each branch ready somewhere. Gateway: two
connections are one reconnect, or two calls that cross; two frames are a
fragmented message, two messages, or a message and a control frame; four are a
message with a control frame inside and one behind it; a channel of one is full
after one event. Dialing goroutines and frames multiply, so `MCGatewayStream`
takes three cuts: one call at a time with two frames, while contexts end, the
gateway leaves, the consumer stops and Close is called anywhere; the looks and dials of two
goroutines in any order, with Close or with one frame, while contexts go on and
the consumer reads; and four frames on one connection that nobody ends or
closes. The proofs cover every number.
Assets: two assets give the lost entry, two targets the file under another name,
three pulls a success, a failure and a pull by another connection.

Link: `MCBridgeLink` cuts the product of two parts that hardly meet. The two
bridges race at the path as long as the plugin has done nothing; from then on one
follows the other, with every start, stop and kill. One request already crosses
every disconnect, reconnect, timeout and change of bridge; the second is made
while an answer to the first may still come and `b1` is up, which is where two
requests can be confused, and from then on no bridge starts and no connection is
given up for another. Two links are an old connection whose bridge has not
noticed and the present one. The races of any number of bridges are proved.

The deadlock check is on for the journal and for `link` and `pairing`, which
never stop. The other systems rest: all change sets used, everybody gone, the
stream closed, no pulls left.

Fairness. In the bridge it is the Go scheduler running every goroutine that can
run, and nothing else: weak fairness for each reader and writer, the accept loop,
the callers of Stop, the broadcaster at each client, the reader of a gateway
stream, and the rest of a Close that began. In IpcServer a handler ends, for it
has a deadline, and a client that did not stall reads what is delivered; in
GatewayStream a consumer reads until it stops. In BridgeLink the editor draws
frames (`Frame(TRUE)`: `_process` polls a Unix stream, which is open at once),
fires the reconnect timer (`Reconnect(TRUE)`) and ends the health request, which
has a timeout (`ProbeEnds`); the bridges' readers run. No fairness makes a
client, the gateway or a dial do anything, nor anybody begin a Close, start a
bridge or a request. `ComesBack` asks in its premise for a bridge that in the end
stays reachable, for a client that was used once, and that the user does not for
ever give up one connection for another.

What the properties set apart. `RolledBackMeansRestored` leaves out effects that
never got a record and rollbacks started again; `ReversibleIsUndoable` torn
manifests; `NothingLost` those rollbacks, and a rollback of such an effect;
`EffectsAreJournalled`, `PreimageIsOriginal` and `CompletedMatchesTree` files the
editor wrote after Apply came to them, the first also the files of a diff beside
the operation's own; `PreflightIsEnough` what Preflight does not look at
(`Unforeseen`): whether a diff applies, an operation that must write something and
carries nothing, and a text to find that the file did not have before Apply;
`OneReader`, `EventsAreMessages` and `CloseEnds` calls of `ConnectWebSocket` that
crossed; `EventsAreMessages` the event of a message with a control frame between
its fragments; `CloseLeavesNothing` and `CloseEnds` a connection stored after
Close took its own; `CloseEnds` a reader at a full channel nobody reads;
`AcknowledgedIsLocked` and `AcknowledgedValidates` overlapping calls, the latter
also pulls without a checksum and pins that are not the content's; `UpIsReachable`
bridges that raced; `OnlineMeansLoggedIn` the answer of a health request begun on
an earlier connection (`misled`); `ComesBack` a connection whose bridge has left
without the stream showing it. Each is something the code does not protect
against; the hazards name the line.

## 4. Findings

1. `patch_half_applied`: an operation is performed before its record is written;
   a crash between the two leaves an effect that the rollback after the restart
   does not undo, though it reports success. The design (§12.2) has half-applied
   patches rolled back.
2. `gateway_reconnect`: the channel of events is closed with the first stream;
   the first event after a reconnect is sent on the closed channel and panics. The
   design (§7.2.1) gives the bridge the duty to reconnect.
3. `asset_replace`: when the mode or the marker cannot be written after the
   rename, the cleanup removes the target: neither the old nor the new file is
   left, and the lock file still lists the asset. The design (§8.2.4) has a pull
   end with an atomic replacement.
4. `pairing`: the bridge accepts only the nonce it drew at random and tells nobody
   before a login; the plugin sends one of its own. Every login is refused and the
   plugin reconnects for ever. The design (§7.2.3) has the bridge support logins
   with a session nonce.

Known besides, and visible in the models: the second caller of Stop returns at
once, so the process may exit while the first still waits for handlers (`Exit` in
BridgeSocket, and why `StopWaitsForHandlers` speaks of the call that works).
Undoing a write removes the file, not the directories made for it, so a change
set that deletes `d` and writes `d/a` completes and cannot be rolled back. An
assignment that `applyProjectSetting` changes in the first of two sections of one
name may not be the one Godot reads, which is why `OnlyThatSetting` asks for
sections that occur once.

## 5. What is proved

Each proof is of `Spec => []P` for every value of the constants under the
`ASSUME`s named, from an inductive invariant that says what `P` leaves unsaid.

**JournalProofs**, for any sets of change sets, paths, types and hashes, any
number of operations and of failed writes. Assumptions: `NullsAreFresh` (the
null values differ from real ones) and `BoundsAssumption`. `AcknowledgedSurvives`
is not inductive: a write for one change set publishes the memory of all others,
so memory must be known to hold only values the callers know of, and never fewer
operations than the file. `Inv` is therefore `TypeOK`, `FileBehindMemory` and
`AcknowledgedSurvives`. `NextCases` reduces a step to a Begin, a mutation of one
entry that extends its log, or a restart; `TypeStep`, `ImageStep` and
`KnowledgeStep` show one part of `Inv` for each. Theorems: `InvariantHolds`,
`TypeCorrect`, `MemoryLeads`, `AcknowledgedCallsSurvive`, and from the same
invariant the action property `DurableLogOnlyGrows`.

**TreeProofs** holds lemmas only, for any set of paths closed under `Above`:
what lies above a path, where a move takes a path and that the way back is the
inverse, what each call of the file system does to the files alone (`Files...`),
and that none leaves a file outside a directory. `UndoInverts`: undoing the record
of an operation that was just performed gives back the files, whatever directories
were made for it. `WellPerformed` and `WellUndone`: performed, refused, cut short
or undone, files lie in directories.

**PatchProofs**, for any connections, change sets, requests, trees and faults.
Assumptions: `RequestForm` (requests are those `validatePatchRequest` lets
through, one of them the longest; projects start as trees), `TreesAreWellFormed`
(in which files lie in directories), `HashesAreData`, `FaultBound`,
`ParentsArePaths`, `NullsAreFresh` and `NoChangeSet` (`NoEntry` is no change set).
`Types` says where each call may be and that its records describe the operations
of its request in order. None of the properties is inductive, and there are four
layers, each proved with those before it:
- `Accounts`, for `ReversibleIsUndoable` and `CompletedIsRecorded`: while an apply
  runs, its progress is what makes the next record true. `Sound` relates entry,
  file, manifest and backups of a change set to its request, `Tracks` says where
  these are at each place of the one apply that has the change set, and `OneApply`
  that there is one. Steps of rollbacks and of calls that give up change at most a
  status (`StatusLocal`), a write for one change set at most publishes the memory
  of the others (`OtherChangeSets`), and each step of an apply is a lemma.
- `Stacked`, for `InterruptedApplyIsPending`: the change sets in the stack of the
  history are distinct and begun, a call at work has the last of them and is
  alone, and a change set the journal calls rolled back had its rollback tried.
- `Grounded`: files lie in directories, and the backup an apply is about to take
  was not taken before.
- `Restorable`, for `RolledBackMeansRestored` and `NothingLost`: at each level of
  the stack the records of the manifest, undone from the last, lead from the files
  above back to the files found, and in each tree on the way every file found is in
  the tree or in a whole backup (`Undoable`). The trees on the way are a sequence
  that exists, so no recursion is needed. `InHand` says the same of the call at
  work, with the record it is about to write. Performing an operation adds a tree
  in front (`UndoablePush`, by `UndoInverts`), undoing a record takes one off
  (`UndoablePop`), a crash or an error in between leaves effects without a record
  (`RememberResidue`), which the properties set apart, and so does the invariant.

Theorems: `TypesHold`, `PatchTypes`, `AccountsHold`, `ReversibleStaysUndoable`,
`CompletedStaysRecorded`, `StackedHolds`, `InterruptedStaysPending`,
`RestorableHolds`, `RolledBackIsRestored`, `NothingIsLost`.

**EngineProofs**, for any trees, proposals and edits, any number of operations,
faults and change sets. Assumptions: `EngineBounds`; `EngineNulls` (the null
values differ from real ones); `EngineTrees` (projects start as trees in which
files lie in directories, and the editor saves files); `EngineProposals`
(proposals carry texts, and a diff changes each path once and leaves no file above
another); `ParentsArePaths`. Its first half is about the operators: each call of
the file system and each kind of operation, performed, refused or cut short,
leaves files in directories and changes nothing but what the operation may reach
(`Effect`; `OperationApplied`, `OperationRefused`, `OperationCutShort`), and
setting or removing a project setting leaves lines of text (`WithSettingTyped`,
`WithoutSettingTyped`; the recursion by a least counterexample, `Recursion`). None
of the properties is inductive. `EffectsAreJournalled` does not say that Apply
comes to a path, and the journal has it, before it can differ: `DiffersWhereCome`,
`PreimagesFit` and `JournalFits` (memory is the file while Apply is at work) do.
`CompletedMatchesTree` speaks only of the end: `PostimagesFit` says of every
operation done so far that its postimage is the hash of its result until another
touches it. `PreflightIsEnough` needs that the tree differs from the one preflight
saw only where operations before this one reach: `OnlyOperations`. Steps that
change the tree share `TreeStepKeeps`, those that write the journal `JournalStep*`.
Theorems: `Invariant`, `EngineTypeCorrect`, `WriteAhead`, `OriginalPreimage`,
`CompletedAccounts`, `PreflightSuffices`.

**AssetProofs**, for any connections, assets, targets, contents and pins, any
number of pulls and faults. Assumption: `AssetAssumption` (`None` is no asset,
target or content, and a pin has the form of a checksum). `LockedWasPulled` is
not inductive: a call saves the lock it loaded, perhaps long before. `Inv` adds
that the locks carried by calls in progress list only what was pulled, and that
a call at its last step has its own reference in place; `CallStep` and `MoveStep`
reduce the actions to what one call changes. Without overlapping calls,
`AloneInv` says what the one call in progress has written at each step
(`InPlace`), and of each acknowledged pull that its entry is in the lock file
and, while nobody is at its asset or target, its file is what its marker says
(`Stands`); `AloneMove` carries it through the steps that write. Theorems:
`AssetInvariant`, `AssetTypes`, `LockListsPulled`, `AloneInvariant`,
`AcknowledgedStaysLocked`, `AcknowledgedPullValidates`.

**LinkProofs**, for any number of bridges, accepting or not, of requests and of
links. Assumptions: `LinkBounds` (there is a link, and the login is no request) and
`SocketNames`. `UpIsReachable`, which holds whatever the plugin does, is not
inductive: another bridge may be about to remove the name. `Secured` adds that a
bridge that did not race has the name from its bind on, and that no other one is
then where it would remove it. None of BridgeLink's properties is inductive: `LoginFirst` does not
say why a request is never written to a connection without a login before it,
`OnlineMeansLoggedIn` not whose probe is running, `CallsAreKept` not what is still
in the streams. `LinkInv` adds, for each link, that only an accepting bridge
answers a login with success and logs the connection in (`LinkHolds`); for each
request, that it is in one queue at most, once, before it ran, while its caller
waits or has given up (`Requested`), and that a success under way, in the table or
returned is one of a request that ran (`Answered`); and what the client relies on
when it writes: an open stream has its login written, another has it pending
(`Opened`). A step of the plugin is a chain of operators, so there is a lemma for
each operator (`DisconnectKeeps`, `BeginLoginKeeps`, `ConnectKeeps`, `HandleKeeps`,
`WelcomeKeeps`), and a step follows them one by one. Within a frame a connection
may be lost, but not exchanged (`SameLogin`). Any number of answers in a frame is a
recursion along the sequence, settled by a least counterexample (`Recursion`,
`HandledKeeps`). What a bridge does to a link is `Moves`, from which the rest
follows once (`MovesKeep`). Theorems:
`SocketInvariant`, `UpStaysReachable`, `LinkInvariant`, `LinkTypes`,
`LoginComesFirst`, `NobodyIsForgotten`, `OnlineIsLoggedIn`, and the refinement
`ClientImplementsCalls`: to the callers a step is nothing, a call that begins or is
refused, a return, or the one run of a request (`WhatIsSeen`).

**IpcProofs**, for any number of clients, messages and broadcasts and any depth of
the queues. Assumption: `IpcAssumption`. `Types` says besides the types that a
reader has taken no more than was sent. For `StopWaitsForHandlers`, `StopInv`:
once somebody called Stop, some call is at work until the accept loop and the
handlers are done; done they stay (`ServingStep`); only those being served are in
the map of clients. For `NothingBeforeLogin`, `LoginInv`: a client is
authenticated only after a login among the messages taken, and each payload in
one of the four places on its way (the reader's answer, the queue, the writer,
the client) was earned; `OnceInv` makes a connection served once, so that what a
reader has taken only grows. For `AnswersInOrder`, `AnswerInv`: what a client reads
next depends on what is under way, so it speaks of that too, the payload its writer
holds and then its queue (`Coming`). While the writer works all of it is in order,
and it answers every request the reader is done with and no other; a lost answer
makes the reader leave, and nothing follows a payload the writer lost. An answer or
a notification at the end keeps that (`AnswerInOrder`, `NoticeInOrder`). Theorems:
`TypesInvariant`, `IpcTypes`, `StopWaits`, `LoginFirstOfAll`, `AnswersComeInOrder`.

**GatewayProofs**, for any number of dialing goroutines, connections and frames and
any depth of the channel. Assumption: `StreamAssumption`. `OneReader` is not
inductive, for it does not say why a call that looked finds no reader left.
`OneActive` says, until two calls cross: only the last connection has a reader at
work or one about to be started, by one call at most; such a reader goes with
`wsConnected`, until Close or the reader itself clears it; and while a call that
looked at as many connections as there are dials, there is no reader. For `CloseLeavesNothing`, `CloseInv`: Close took the last
connection, unless a dial stored one behind its back, and cut it; with no
connection to fetch nobody starts reading again. For `EventsAreMessages`,
`OnItsWay`: the wire is a path of places, each the number of a message and whether
the path is outside of it, inside, or inside behind a control frame that cut it
(`Leads`, `WireOf`); it leads from where the reader is to where the gateway is. What
the gateway sends makes the path longer at its end (`FrameSent`, `GatewayFrames`),
what the reader takes makes it shorter at its beginning (`FrameTaken`), and which
message the reader waits for is the number of events of the connection delivered so
far, plus one. Theorems:
`StreamTypesHold`, `StreamTypesOfSpec`, `OneReaderAlways`, `CloseIsFinal`,
`EventsAlwaysMessages`.

Only model-checked. Liveness (`StopReturnsUnlessLate`, `RequestsAreAnswered`,
`BroadcastEnds`, `CloseEnds`, `EndIsSeen`, `ComesBack`): fairness and ENABLED are
out of reach of the prover. Not proved yet: `OnlyThatSetting` of the patch
engine, which reads `project.godot` as Godot does before and after a step; it
needs lemmas on what a section is after lines were inserted or removed, with
recursion by a least counterexample as for `WithSettingTyped`. The violated properties of section 4 are refuted,
not open.

## 6. Not modelled, and why

- `internal/patch` and the git adapter are modelled as a library: no handler of
  the bridge calls them, and `RegisterAllHandlers` of `adapters` has no caller
  either: `main.go` registers `system.ping` and `session.info` only. PatchHandlers
  and AssetSync model the handlers as that function would register them.
- Plugin change sets: `patch_service.gd` calls `_track_changeset` and
  `_update_changeset_status` on methods `EchoThinkChangeSetManager` does not have,
  and sends `changeset.rollback`, which no bridge registers. The two sides do not
  meet, and what is left is one thread writing a dictionary.
- The TCP endpoint of the bridge client, which reaches no Go bridge, and the check
  whether the engine has `StreamPeerUnix` at all, which stock Godot lacks: the
  model is of an engine that has it. The entry of a login in `_pending_requests`,
  which nobody removes, is left out.
- REST calls, other handlers, test runner, configuration, health endpoint: no
  state that outlives a call, or written once. The log collector only reads; a file
  removed while it walks counts as a missing one.
- Parsing and formatting of the lock file, JSON and log lines, and the order
  `ListAll` gives (RFC3339Nano strings drop trailing zeros, so entries of one
  second may come in another order): no property here is about them; a hazard
  names the one place where a lock file is written that cannot be read.
- The overwriting of a file the editor saves between read and rename (`patch.go`,
  hazards): the code compares nothing, so there is nothing to check.
- User interface, data classes, services and probe: presentation, conversions,
  forwarding, counters.

## 7. What could follow

1. An abstract patch transaction (applied, undone, or listed as pending) that
   PatchHandlers implements without overlaps and crashes between an operation and
   its record.
2. If the handlers come to use `internal/patch`: PatchEngine with two connections,
   and a rollback from its journal.
3. If the plugin's change sets come to use the journal of the bridge: both sides
   over BridgeLink.
