----------------------------- MODULE BridgeLink -----------------------------
(***************************************************************************)
(* The plugin's bridge client (addons/echothink/services/bridge_client.gd) *)
(* and the connection state of the plugin (echothink_plugin.gd), over the  *)
(* bridges of BridgeSocket and the reading side of their connections       *)
(* (handleRequest and handleAuthentication of internal/ipc/server.go).     *)
(*                                                                         *)
(* The editor runs one thing at a time: a call up to its first await, a    *)
(* frame (_process, then what it deferred), a timer.  Such a piece is one  *)
(* action, written as a chain of operators on the plugin's state           *)
(*   [client, pending, online, links, probe, misled].                      *)
(* A request stands for its id: ids count up and never repeat.  The entry  *)
(* of a login, which nobody awaits and nobody removes, is left out of      *)
(* pending.                                                                *)
(*                                                                         *)
(* The stream is a Unix socket: a connection the bridge closed shows in a  *)
(* failing write, seldom by itself (StreamFails).  MaxLinks bounds the     *)
(* connections that exist at one time.                                     *)
(***************************************************************************)
EXTENDS BridgeSocket, Naturals, Sequences, SequencesExt, FiniteSetsExt

CONSTANTS
    Requests,
    Accepting,  \* bridges whose nonce validator knows the plugin's nonce; the
                \* one of main.go knows only a nonce the plugin never learns
    MaxLinks,
    Login       \* the request session.authenticate

ASSUME LinkBounds == MaxLinks \in Nat \ {0} /\ Accepting \subseteq Bridges /\ Login \notin Requests

VARIABLES
    client,     \* the bridge client
    pending,    \* _pending_requests
    online,     \* the session manager's state
    links,      \* connections that are open on either side
    probe,      \* the health request of _on_bridge_connected: none, for the
                \* present connection ("own"), or an earlier one ("stray")
    caller,     \* what send_request has returned for each request
    executions, \* how often a bridge ran the handler of each request
    misled      \* a stray probe set online; the code has no such variable

linkVars == <<client, pending, online, links, probe, misled, caller, executions>>
vars == <<socketVars, linkVars>>

LinkIds == 1 .. MaxLinks
NoLink == 0

Unused == [bridge |-> Nobody, up |-> FALSE, held |-> FALSE, authed |-> FALSE,
           toBridge |-> <<>>, toPlugin |-> <<>>]

\* up and held: the bridge's and the plugin's end are open.
NewLink(b) == [Unused EXCEPT !.bridge = b, !.up = TRUE, !.held = TRUE]

Offline == [link |-> NoLink, open |-> FALSE, authPending |-> FALSE, timer |-> FALSE]

LinkInit ==
    /\ client = Offline
    /\ pending = [r \in Requests |-> "absent"]
    /\ online = FALSE
    /\ links = [n \in LinkIds |-> Unused]
    /\ probe = "none"
    /\ misled = FALSE
    /\ caller = [r \in Requests |-> "none"]
    /\ executions = [r \in Requests |-> 0]

Init == SocketInit /\ LinkInit

----------------------------------------------------------------------------
\* Pieces of the bridge client.

S == [client |-> client, pending |-> pending, online |-> online, links |-> links,
      probe |-> probe, misled |-> misled]

Become(s) ==
    /\ client' = s.client
    /\ pending' = s.pending
    /\ online' = s.online
    /\ links' = s.links
    /\ probe' = s.probe
    /\ misled' = s.misled

Connected(s) == s.client.link # NoLink
Mine(s) == s.links[s.client.link]

\* A plausible slip: the link stays as it is when an end closes.
TidyNothing(l) == l

\* An end that closes forgets what it has not read; with both ends closed
\* the link is free.
Tidy(l) ==
    IF ~l.up /\ ~l.held THEN Unused
    ELSE IF ~l.up THEN [l EXCEPT !.toBridge = <<>>]
    ELSE IF ~l.held THEN [l EXCEPT !.toPlugin = <<>>]
    ELSE l

\* The plugin closes its end.
LetGo(all, n) == [all EXCEPT ![n] = Tidy([all[n] EXCEPT !.held = FALSE])]

\* A plausible slip: nobody tells the plugin's session manager.
DropQuietly(s, again) ==
    [s EXCEPT !.client = [Offline EXCEPT !.timer = again],
              !.probe = IF @ = "own" THEN "stray" ELSE @,
              !.links = IF Connected(s) THEN LetGo(@, s.client.link) ELSE @]

\* The connection and what goes with it.
Drop(s, again) ==
    [s EXCEPT !.client = [Offline EXCEPT !.timer = again],
              !.online = FALSE,
              !.misled = FALSE,
              !.probe = IF @ = "own" THEN "stray" ELSE @,
              !.links = IF Connected(s) THEN LetGo(@, s.client.link) ELSE @]

\* A plausible slip: requests in flight are left to their callers.
DisconnectSilently(s, again) == Drop(s, again)

\* _set_disconnected: every entry is completed with an error, also one that
\* had its answer.
Disconnect(s, again) ==
    [Drop(s, again) EXCEPT !.pending =
        [r \in Requests |-> IF @[r] = "absent" THEN "absent" ELSE "failed"]]

\* _write_bytes
Writes(s) == Connected(s) /\ s.client.open /\ Mine(s).up
Sent(s, message) == [s EXCEPT !.links[s.client.link].toBridge = Append(@, message)]

\* _begin_authenticated_session; the _auth_pending it leaves when it fails
\* means nothing to a client that is not connected.
BeginLogin(s) ==
    IF Writes(s) THEN Sent([s EXCEPT !.client.authPending = FALSE], Login)
    ELSE Disconnect(s, TRUE)

CanDial == path \in Bridges /\ Listening(path)

FreeLinks == {n \in LinkIds : links[n] = Unused}
MayConnect == CanDial => FreeLinks # {}

\* A plausible slip: the login is left to the next frame.
ConnectAndWait(s, open) ==
    IF ~CanDial THEN [s EXCEPT !.client.timer = TRUE]
    ELSE LET n == Min(FreeLinks)
         IN [s EXCEPT !.client = [link |-> n, open |-> open, authPending |-> TRUE,
                                  timer |-> FALSE],
                      !.links[n] = NewLink(path)]

\* A plausible slip: a dial that fails is not tried again.
ConnectOnce(s, open) ==
    LET n    == Min(FreeLinks)
        made == [s EXCEPT !.client = [link |-> n, open |-> open, authPending |-> TRUE,
                                      timer |-> FALSE],
                          !.links[n] = NewLink(path)]
    IN IF ~CanDial THEN s
       ELSE IF open THEN BeginLogin(made) ELSE made

\* connect_to_bridge of a client that is not connected; open is whether the
\* stream can exchange data at once.
Connect(s, open) ==
    LET n    == Min(FreeLinks)
        made == [s EXCEPT !.client = [link |-> n, open |-> open, authPending |-> TRUE,
                                      timer |-> FALSE],
                          !.links[n] = NewLink(path)]
    IN IF ~CanDial THEN [s EXCEPT !.client.timer = TRUE]
       ELSE IF open THEN BeginLogin(made) ELSE made

\* _handle_response, which asks neither whether the entry is still there nor
\* whether the client is still connected.
Handle(s, answer) ==
    IF answer.to \in Requests
    THEN [s EXCEPT !.pending[answer.to] = IF answer.ok THEN "answered" ELSE "failed"]
    ELSE IF answer.ok THEN s ELSE Disconnect(s, TRUE)

\* _process_incoming: one answer after the other.
Handled(s, answers) ==
    LET after[i \in 0 .. Len(answers)] ==
            IF i = 0 THEN s ELSE Handle(after[i - 1], answers[i])
    IN after[Len(answers)]

----------------------------------------------------------------------------
\* What the editor runs.

\* send_request up to its first await.  A request that cannot be written is
\* taken out of pending before the others fail.
Call(r, open) ==
    /\ caller[r] = "none"
    /\ Connected(S) \/ MayConnect
    /\ LET s == IF Connected(S) THEN S ELSE Connect(S, open)
       IN IF Writes(s)
          THEN /\ Become(Sent([s EXCEPT !.pending[r] = "waiting"], r))
               /\ caller' = [caller EXCEPT ![r] = "awaiting"]
          ELSE /\ Become(IF Connected(s) THEN Disconnect(s, TRUE) ELSE s)
               /\ caller' = [caller EXCEPT ![r] = "refused"]
    /\ UNCHANGED <<socketVars, executions>>

\* A plausible slip: whatever completes an entry is its answer.
CollectAny(r) ==
    /\ caller[r] = "awaiting"
    /\ pending[r] \in {"answered", "failed"}
    /\ caller' = [caller EXCEPT ![r] = "answered"]
    /\ pending' = [pending EXCEPT ![r] = "absent"]
    /\ UNCHANGED <<socketVars, client, online, links, probe, misled, executions>>

\* _await_request finds its entry completed.
Collect(r) ==
    /\ caller[r] = "awaiting"
    /\ pending[r] \in {"answered", "failed"}
    /\ caller' = [caller EXCEPT ![r] = pending[r]]
    /\ pending' = [pending EXCEPT ![r] = "absent"]
    /\ UNCHANGED <<socketVars, client, online, links, probe, misled, executions>>

\* REQUEST_TIMEOUT_MS have passed; the entry is not looked at once more.
TimeOut(r) ==
    /\ caller[r] = "awaiting"
    /\ caller' = [caller EXCEPT ![r] = "failed"]
    /\ pending' = [pending EXCEPT ![r] = "absent"]
    /\ UNCHANGED <<socketVars, client, online, links, probe, misled, executions>>

\* _on_bridge_connected up to its await.  While a probe is running a new one
\* is refused, which counts as its answer.
Welcome(s) ==
    IF ~Connected(s) THEN s
    ELSE IF s.probe = "none" THEN [s EXCEPT !.probe = "own"]
    ELSE [s EXCEPT !.online = TRUE, !.misled = FALSE]

Accepted(answers) == \E i \in DOMAIN answers : answers[i] = [to |-> Login, ok |-> TRUE]

\* _process: poll the stream, log in, handle all that has arrived; a login
\* that was accepted defers _on_bridge_connected to the end of the frame.
Frame(open) ==
    /\ Connected(S)
    /\ client.open => open
    /\ LET polled  == [S EXCEPT !.client.open = open]
           begun   == IF client.authPending /\ open THEN BeginLogin(polled) ELSE polled
           arrived == links[client.link].toPlugin
           read    == Handled([begun EXCEPT !.links[client.link].toPlugin = <<>>], arrived)
       IN /\ IF ~Connected(begun) THEN Become(begun)
             ELSE Become(IF Accepted(arrived) THEN Welcome(read) ELSE read)
          /\ begun # S \/ arrived # <<>>
    /\ UNCHANGED <<socketVars, caller, executions>>

\* A read error, or a stream that knows its state.
StreamFails ==
    /\ client.link # NoLink
    /\ ~links[client.link].up
    /\ links[client.link].toPlugin = <<>>
    /\ Become(Disconnect(S, TRUE))
    /\ UNCHANGED <<socketVars, caller, executions>>

\* The health request of _on_bridge_connected ends, with or without an
\* answer; all it takes then is that some connection is open.
ProbeEnds ==
    /\ probe # "none"
    /\ probe' = "none"
    /\ online' = (online \/ Connected(S))
    /\ misled' = (misled \/ (~online /\ Connected(S) /\ probe = "stray"))
    /\ UNCHANGED <<socketVars, client, pending, links, caller, executions>>

\* _on_reconnect_timeout
Reconnect(open) ==
    /\ client.timer
    /\ MayConnect
    /\ LET s == [S EXCEPT !.client.timer = FALSE]
       IN Become(IF Connected(s) THEN s ELSE Connect(s, open))
    /\ UNCHANGED <<socketVars, caller, executions>>

\* The plugin is enabled, or its user asks for a new connection.
Attempt(open) ==
    /\ MayConnect
    /\ Become(Connect(Disconnect(S, FALSE), open))
    /\ UNCHANGED <<socketVars, caller, executions>>

----------------------------------------------------------------------------
\* The bridge's end of a link.

Reads(l) == l.up /\ bridge[l.bridge] \in {"health", "up", "closing", "waiting"}

\* An answer to a plugin that has left fails, and with it the link.
Answer(l, message, ok) ==
    LET rest == [l EXCEPT !.toBridge = Tail(@)]
    IN IF l.held THEN [rest EXCEPT !.toPlugin = Append(@, [to |-> message, ok |-> ok])]
       ELSE Tidy([rest EXCEPT !.up = FALSE])

\* The bridge closes the link; writer and close race for what is queued.
Closed(l) == {Tidy([l EXCEPT !.up = FALSE, !.toPlugin = SubSeq(@, 1, k)]) :
                  k \in 0 .. Len(l.toPlugin)}

\* ValidateNonce of the nonce the plugin sends.
Validates(b) == b \in Accepting

LogIn(n) ==
    LET l  == links[n]
        ok == Validates(l.bridge)
    IN /\ Reads(l) /\ l.toBridge # <<>> /\ Head(l.toBridge) = Login
       /\ links' = [links EXCEPT ![n] = Answer([l EXCEPT !.authed = ok], Login, ok)]
       /\ UNCHANGED <<socketVars, client, pending, online, probe, misled, caller, executions>>

\* The handler of a request runs also when the plugin has given it up.
Execute(n) ==
    LET l == links[n]
        r == Head(l.toBridge)
    IN /\ Reads(l) /\ l.toBridge # <<>> /\ r # Login
       /\ IF l.authed
          THEN /\ executions' = [executions EXCEPT ![r] = @ + 1]
               /\ links' = [links EXCEPT ![n] = Answer(l, r, TRUE)]
          ELSE /\ \E cut \in Closed(Answer(l, r, FALSE)) : links' = [links EXCEPT ![n] = cut]
               /\ UNCHANGED executions
       /\ UNCHANGED <<socketVars, client, pending, online, probe, misled, caller>>

EndOfInput(n) ==
    LET l == links[n]
    IN /\ Reads(l) /\ ~l.held /\ l.toBridge = <<>>
       /\ links' = [links EXCEPT ![n] = Unused]
       /\ UNCHANGED <<socketVars, client, pending, online, probe, misled, caller, executions>>

ReaderStep(n) == LogIn(n) \/ Execute(n) \/ EndOfInput(n)

\* A step of a bridge: behind CloseClients, and when its process has ended,
\* its links are closed.
Severed(n) ==
    links[n].up /\ bridge'[links[n].bridge] \in {"off", "removing", "stopped"}

BridgeStep(b) ==
    /\ SocketStep(b)
    /\ \E kept \in BOOLEAN :
          links' = [n \in LinkIds |->
              IF ~Severed(n) THEN links[n]
              ELSE Tidy([links[n] EXCEPT !.up = FALSE,
                                         !.toPlugin = IF kept THEN @ ELSE <<>>])]
    /\ UNCHANGED <<client, pending, online, probe, misled, caller, executions>>

----------------------------------------------------------------------------
PluginStep ==
    \/ \E open \in BOOLEAN :
          \/ \E r \in Requests : Call(r, open)
          \/ Reconnect(open)
          \/ Attempt(open)
          \/ Frame(open)
    \/ \E r \in Requests : Collect(r) \/ TimeOut(r)
    \/ StreamFails
    \/ ProbeEnds

Next ==
    \/ PluginStep
    \/ \E n \in LinkIds : ReaderStep(n)
    \/ \E b \in Bridges : BridgeStep(b)

\* The editor runs its frames and timers, and a bridge its readers, as long
\* as they exist; nobody has to start, stop or ask for anything.
Fairness ==
    /\ WF_vars(Frame(TRUE))
    /\ WF_vars(Reconnect(TRUE))
    /\ WF_vars(ProbeEnds)
    /\ WF_vars(\E n \in LinkIds : ReaderStep(n))

Spec == Init /\ [][Next]_vars /\ Fairness

----------------------------------------------------------------------------
LinkTypeOK ==
    /\ SocketTypeOK
    /\ client \in [link : LinkIds \cup {NoLink}, open : BOOLEAN, authPending : BOOLEAN,
                   timer : BOOLEAN]
    /\ pending \in [Requests -> {"absent", "waiting", "answered", "failed"}]
    /\ online \in BOOLEAN /\ misled \in BOOLEAN
    /\ probe \in {"none", "own", "stray"}
    /\ \A n \in LinkIds :
          /\ links[n].bridge \in Bridges \cup {Nobody}
          /\ links[n].toBridge \in Seq(Requests \cup {Login})
          /\ links[n].toPlugin \in Seq([to : Requests \cup {Login}, ok : BOOLEAN])
          /\ links[n].held <=> client.link = n
          /\ ~links[n].up /\ ~links[n].held => links[n] = Unused
    /\ executions \in [Requests -> Nat]

(***************************************************************************)
(* The client and the bridges together keep what Calls promises: at most   *)
(* one execution of a request over any reconnects, timeouts and restarts,  *)
(* an answer only for a request that was executed, and no execution of a   *)
(* request the client said it could not send (send_request, _send_rpc,     *)
(* _set_disconnected, handleRequest).                                      *)
(***************************************************************************)
Promised == INSTANCE Calls WITH
    outcome <- [r \in Requests |-> IF caller[r] = "awaiting" THEN "open" ELSE caller[r]]

CallsAreKept == Promised!Spec

(***************************************************************************)
(* The login comes first: on every connection, whatever the callers do and *)
(* however often it is made again, the bridge reads session.authenticate   *)
(* before any request, so that an accepting bridge refuses none            *)
(* (connect_to_bridge, _begin_authenticated_session).                      *)
(***************************************************************************)
LoginFirst ==
    \A n \in LinkIds :
        LET l == links[n]
        IN l.up /\ l.bridge \in Accepting /\ ~l.authed /\ l.toBridge # <<>>
               => Head(l.toBridge) = Login

(***************************************************************************)
(* Whoever awaits an answer still has an entry in _pending_requests, and   *)
(* none waits on a connection that is gone: what one caller's timeout, a   *)
(* late answer or a disconnect does to the table leaves no caller to its   *)
(* own timeout (_await_request, _handle_response, _set_disconnected).      *)
(***************************************************************************)
NobodyForgotten ==
    \A r \in Requests : caller[r] = "awaiting" =>
        /\ pending[r] # "absent"
        /\ pending[r] = "waiting" => Connected(S)

(***************************************************************************)
(* The plugin shows itself connected only on a connection that was logged  *)
(* in.  Set apart is the answer of a health probe begun on an earlier      *)
(* connection, which is taken for this one (_on_bridge_connected).         *)
(***************************************************************************)
OnlineMeansLoggedIn ==
    online /\ ~misled => Connected(S) /\ Mine(S).authed

\* With b reachable, in the end for good, and nobody who for ever gives up
\* one connection for another, a client that was used once shows itself
\* connected again and again, or holds a connection whose bridge has left
\* unnoticed.
GetsThrough(b) ==
    /\ <>[](bridge[b] = "up" /\ path = b)
    /\ <>[][client.link # NoLink => client'.link \in {NoLink, client.link}]_client
    /\ <>(client # Offline)
    => []<>(online \/ (Connected(S) /\ ~Mine(S).up))

(***************************************************************************)
(* With an accepting bridge that stays reachable the client does not stay  *)
(* away, whatever timed out, failed or was refused before: some timer or   *)
(* frame always leads back to a connection that is logged in               *)
(* (_schedule_reconnect, _on_reconnect_timeout, _on_bridge_connected).     *)
(***************************************************************************)
ComesBack == \A b \in Accepting : GetsThrough(b)

(***************************************************************************)
(* The same of any bridge, as the design has it: plugin and bridge share a *)
(* session nonce.  main.go's bridge makes its own at random, tells nobody, *)
(* and accepts no other (Bootstrap, ValidateNonce of the session manager). *)
(***************************************************************************)
ReachedMeansPaired == \A b \in Bridges : GetsThrough(b)

============================================================================
