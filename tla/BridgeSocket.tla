---------------------------- MODULE BridgeSocket ----------------------------
(***************************************************************************)
(* Bridge processes that share a socket path and a health port: the start  *)
(* and the end of run (cmd/echothink-bridge/main.go) with Start, Stop and  *)
(* prepareSocketPath of internal/ipc/server.go.                            *)
(*                                                                         *)
(* The path is a name in a directory.  Binding makes it, but a bridge can  *)
(* be dialled only once it listens; a bridge that is killed leaves the     *)
(* name behind; closing the listener and the end of Stop both remove       *)
(* whatever has the name by then.  A bridge that starts asks by a dial     *)
(* whether the name is stale.  Nothing but the health port, which is taken *)
(* last, keeps two bridges of one configuration apart.                     *)
(*                                                                         *)
(* Configuration, the session and the placeholder gateway client come      *)
(* before or between these steps and touch neither.  Of the clients Stop   *)
(* waits for only the waiting is here; IpcServer has the rest.             *)
(***************************************************************************)
CONSTANTS
    Bridges,
    Nobody, Stale   \* no socket at the path; one that nobody listens on

ASSUME SocketNames == Nobody \notin Bridges /\ Stale \notin Bridges /\ Nobody # Stale

VARIABLES
    bridge,     \* where each bridge is in run
    path,       \* whose socket is at the socket path
    health,     \* who listens on the health port
    raced       \* bridges whose start met a race the code leaves open; the
                \* code has no such variable

socketVars == <<bridge, path, health, raced>>

SocketInit ==
    /\ bridge = [b \in Bridges |-> "off"]
    /\ path \in {Nobody, Stale}
    /\ health = Nobody
    /\ raced = {}

\* The socket accepts connections, from listen to the close in Stop.
Listening(b) == bridge[b] \in {"chmod", "health", "up", "closing"}

InStop(b) == bridge[b] \in {"closing", "waiting", "removing", "stopped"}

Goto(b, pc) == bridge' = [bridge EXCEPT ![b] = pc]

\* A bridge that is on, and that will remove the name at the path however
\* it got there.
WillRemove(b) == bridge[b] \notin {"off", "bind", "stopped"}

----------------------------------------------------------------------------
\* prepareSocketPath and ListenUnix

\* A plausible slip: whatever is at the path is taken for stale.
StaleUnasked == path # Nobody

LooksStale == path # Nobody /\ (path \in Bridges => ~Listening(path))

Probe(b) ==
    /\ bridge[b] = "off"
    /\ \/ path = Nobody /\ Goto(b, "bind")
       \/ path # Nobody /\ LooksStale /\ Goto(b, "remove")
    /\ raced' = (raced \ {b}) \cup {o \in Bridges \cap {path} : bridge[o] = "listen"}
    /\ UNCHANGED <<path, health>>

\* os.Remove does not forgive that the name is gone by now.
RemoveStale(b) ==
    /\ bridge[b] = "remove"
    /\ Goto(b, IF path = Nobody THEN "off" ELSE "bind")
    /\ path' = Nobody
    /\ UNCHANGED <<health, raced>>

Bind(b) ==
    /\ bridge[b] = "bind"
    /\ IF path = Nobody
       THEN /\ Goto(b, "listen")
            /\ path' = b
            /\ raced' = IF \E o \in Bridges \ {b} : WillRemove(o) THEN raced \cup {b} ELSE raced
       ELSE Goto(b, "off") /\ UNCHANGED <<path, raced>>
    /\ UNCHANGED health

Listen(b) ==
    /\ bridge[b] = "listen"
    /\ Goto(b, "chmod")
    /\ UNCHANGED <<path, health, raced>>

\* os.Chmod goes by name, too; without a name Start closes the listener and
\* removes the path, as Stop does.
Chmod(b) ==
    /\ bridge[b] = "chmod"
    /\ Goto(b, IF path = Nobody THEN "closing" ELSE "health")
    /\ UNCHANGED <<path, health, raced>>

\* newHealthServer: whoever finds the port taken stops again.
OpenHealth(b) ==
    /\ bridge[b] = "health"
    /\ Goto(b, IF health = Nobody THEN "up" ELSE "closing")
    /\ health' = IF health = Nobody THEN b ELSE health
    /\ UNCHANGED <<path, raced>>

----------------------------------------------------------------------------
\* The end of run.  Cancelling the context makes a goroutine call Stop while
\* run closes the health server and then calls Stop itself.

Signal(b) ==
    /\ bridge[b] = "up"
    /\ Goto(b, "closing")
    /\ UNCHANGED <<path, health, raced>>

CloseHealth(b) ==
    /\ InStop(b)
    /\ health = b
    /\ health' = Nobody
    /\ UNCHANGED <<bridge, path, raced>>

\* A listener of package net removes its name before it closes.
CloseListener(b) ==
    /\ bridge[b] = "closing"
    /\ Goto(b, "waiting")
    /\ path' = Nobody
    /\ UNCHANGED <<health, raced>>

HandlersEnd(b) ==
    /\ bridge[b] = "waiting"
    /\ Goto(b, "removing")
    /\ UNCHANGED <<path, health, raced>>

RemovePath(b) ==
    /\ bridge[b] = "removing"
    /\ Goto(b, "stopped")
    /\ path' = Nobody
    /\ UNCHANGED <<health, raced>>

\* The process ends: its socket, if it still has the name, is stale.
Gone(b) ==
    /\ Goto(b, "off")
    /\ path' = IF path = b THEN Stale ELSE path
    /\ health' = IF health = b THEN Nobody ELSE health
    /\ UNCHANGED raced

\* run returns once its own call of Stop does: at once if the goroutine's
\* call came first, wherever that one is.
Exit(b) ==
    /\ InStop(b)
    /\ health # b
    /\ Gone(b)

Kill(b) == bridge[b] # "off" /\ Gone(b)

SocketStep(b) ==
    \/ Probe(b)
    \/ RemoveStale(b)
    \/ Bind(b)
    \/ Listen(b)
    \/ Chmod(b)
    \/ OpenHealth(b)
    \/ Signal(b)
    \/ CloseHealth(b)
    \/ CloseListener(b)
    \/ HandlersEnd(b)
    \/ RemovePath(b)
    \/ Exit(b)
    \/ Kill(b)

SocketNext == \E b \in Bridges : SocketStep(b)

SocketSpec == SocketInit /\ [][SocketNext]_socketVars

----------------------------------------------------------------------------
SocketTypeOK ==
    /\ bridge \in [Bridges -> {"off", "remove", "bind", "listen", "chmod", "health", "up",
                               "closing", "waiting", "removing", "stopped"}]
    /\ path \in Bridges \cup {Nobody, Stale}
    /\ health \in Bridges \cup {Nobody}
    /\ raced \subseteq Bridges

(***************************************************************************)
(* A bridge that is up can be reached at the socket path: no start, stop   *)
(* or end of another bridge takes its socket away.  Set apart are the      *)
(* bridges that raced, which the code leaves open: another one asked       *)
(* between bind and listen, or had judged the path stale, or was stopping, *)
(* when this one bound it (Start, Stop, prepareSocketPath).                *)
(***************************************************************************)
UpIsReachable == \A b \in Bridges \ raced : bridge[b] = "up" => path = b

============================================================================
