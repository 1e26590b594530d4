----------------------------- MODULE IpcServer -----------------------------
(***************************************************************************)
(* The JSON-RPC server of the local bridge                                 *)
(* (local-bridge/internal/ipc/server.go) from a successful Start to the    *)
(* end of Stop, with the callers main.go gives it.                         *)
(*                                                                         *)
(* Goroutines: the accept loop; for each client a reader (handleClient,    *)
(* which also runs the method handlers) and a writer (writeLoop); one that *)
(* broadcasts notifications; and two callers of Stop, main (run, after its *)
(* cancel) and the watcher Start leaves behind for the end of the context. *)
(* What the mutexes make indivisible is one action; the select statements  *)
(* of queuePayload and writeLoop take any branch that is ready.            *)
(*                                                                         *)
(* A message is what handleRawMessage tells apart: a login with a right or *)
(* a wrong nonce, any other method, no method and no result, each with an  *)
(* id (request) or without; a wrong version and what does not decode,      *)
(* answered without an id too; and a response.  A payload keeps the number of the message it *)
(* answers, 0 for a notification; its text and the stream mode are left    *)
(* out.  The five seconds of writeQueueWait may be over whenever the queue *)
(* is full.                                                                *)
(***************************************************************************)
EXTENDS Naturals, Sequences

CONSTANTS
    Clients,       \* connections; each is used once
    Messages,      \* what clients send, a subset of Message
    Depth,         \* writeQueueDepth
    MaxSent,       \* bound on the messages of one client
    MaxNotices,    \* bound on the broadcasts
    NoClient

VARIABLES
    peer,          \* the client's end: "away", "connected", "stalled", "gone"
    sent,          \* the messages each client wrote
    received,      \* the payloads each client read
    listening,     \* the listening socket is open
    backlog,       \* connections not yet accepted
    accepting,     \* the accept loop
    registered,    \* s.clients
    closed,        \* closeOnce of the connection has run
    authenticated,
    reader,        \* handleClient of each connection
    writer,        \* writeLoop of each connection
    outbound,      \* its queue
    broadcast,     \* clients BroadcastNotification still has to reach
    notices,       \* broadcasts so far
    ctxDone,       \* the context of Start is cancelled
    stopped,       \* s.stopped
    stop           \* each call of Stop

clientVars == <<peer, sent, received>>
acceptVars == <<listening, backlog, accepting>>
connVars == <<registered, closed, authenticated, reader, writer, outbound>>
stopVars == <<ctxDone, stopped, stop>>
vars == <<clientVars, acceptVars, connVars, broadcast, notices, stopVars>>

Stoppers == {"main", "watcher"}

\* request says that the message gets an answer.
Message == [kind: {"login", "badLogin", "call", "empty"}, request: BOOLEAN] \cup
           [kind: {"badVersion", "garbage"}, request: {TRUE}] \cup
           {[kind |-> "response", request |-> FALSE]}

ASSUME IpcAssumption ==
    /\ Messages \subseteq Message /\ NoClient \notin Clients
    /\ Depth \in Nat \ {0} /\ MaxSent \in Nat /\ MaxNotices \in Nat

Payload(kind, n) == [kind |-> kind, to |-> n]
NoPayload == Payload("none", 0)

\* taken counts the messages decoded; leave says that the reader returns
\* once its answer is queued.
Reader(pc) == [pc |-> pc, taken |-> 0, answer |-> NoPayload, leave |-> FALSE]
\* list is what snapshotClients returned, left what is still to be closed.
StopCall(pc, list) == [pc |-> pc, list |-> list, left |-> list]
Writer(pc, payload) == [pc |-> pc, payload |-> payload]

Init ==
    /\ peer = [c \in Clients |-> "away"]
    /\ sent = [c \in Clients |-> <<>>]
    /\ received = [c \in Clients |-> <<>>]
    /\ listening = TRUE
    /\ backlog = {}
    /\ accepting = [pc |-> "accept", client |-> NoClient]
    /\ registered = {}
    /\ closed = [c \in Clients |-> FALSE]
    /\ authenticated = [c \in Clients |-> FALSE]
    /\ reader = [c \in Clients |-> Reader("none")]
    /\ writer = [c \in Clients |-> Writer("none", NoPayload)]
    /\ outbound = [c \in Clients |-> <<>>]
    /\ broadcast = {}
    /\ notices = 0
    /\ ctxDone = FALSE
    /\ stopped = FALSE
    /\ stop = [p \in Stoppers |-> StopCall("idle", {})]

----------------------------------------------------------------------------
\* The clients.

Connect(c) ==
    /\ peer[c] = "away" /\ listening
    /\ peer' = [peer EXCEPT ![c] = "connected"]
    /\ backlog' = backlog \cup {c}
    /\ UNCHANGED <<sent, received, listening, accepting, connVars, broadcast, notices, stopVars>>

Send(c, m) ==
    /\ peer[c] = "connected" /\ ~closed[c]
    /\ Len(sent[c]) < MaxSent
    /\ sent' = [sent EXCEPT ![c] = Append(@, m)]
    /\ UNCHANGED <<peer, received, acceptVars, connVars, broadcast, notices, stopVars>>

\* It keeps the connection and reads no more.
Stall(c) ==
    /\ peer[c] = "connected"
    /\ peer' = [peer EXCEPT ![c] = "stalled"]
    /\ UNCHANGED <<sent, received, acceptVars, connVars, broadcast, notices, stopVars>>

HangUp(c) ==
    /\ peer[c] \in {"connected", "stalled"}
    /\ peer' = [peer EXCEPT ![c] = "gone"]
    /\ UNCHANGED <<sent, received, acceptVars, connVars, broadcast, notices, stopVars>>

----------------------------------------------------------------------------
\* acceptLoop

Accept(c) ==
    /\ accepting.pc = "accept" /\ listening /\ c \in backlog
    /\ backlog' = backlog \ {c}
    /\ accepting' = [pc |-> "register", client |-> c]
    /\ UNCHANGED <<clientVars, listening, connVars, broadcast, notices, stopVars>>

\* Into the map, into the wait group, and its goroutines started.
Register(c) ==
    /\ accepting = [pc |-> "register", client |-> c]
    /\ accepting' = [pc |-> "accept", client |-> NoClient]
    /\ registered' = registered \cup {c}
    /\ reader' = [reader EXCEPT ![c] = Reader("decode")]
    /\ writer' = [writer EXCEPT ![c] = Writer("select", NoPayload)]
    /\ UNCHANGED <<clientVars, listening, backlog, closed, authenticated, outbound,
                   broadcast, notices, stopVars>>

\* Accept may fail for good at any time; after a temporary error it is tried
\* again.
AcceptEnds ==
    /\ accepting.pc = "accept"
    /\ accepting' = [pc |-> "done", client |-> NoClient]
    /\ UNCHANGED <<clientVars, listening, backlog, connVars, broadcast, notices, stopVars>>

----------------------------------------------------------------------------
\* queuePayload, for a reader and for the broadcaster.

\* A plausible slip: the bound is off by one.
HasRoomOffByOne(c) == Len(outbound[c]) <= Depth

HasRoom(c) == Len(outbound[c]) < Depth

Enqueued(c, payload) ==
    /\ HasRoom(c)
    /\ outbound' = [outbound EXCEPT ![c] = Append(@, payload)]
    /\ UNCHANGED closed

\* A plausible slip: no timeout.
WaitsForever(c) == FALSE

TimesOut(c) == ~HasRoom(c)

\* The connection is closed or the context cancelled; or nothing was read
\* for five seconds, and the client is dropped.
QueueError(c) ==
    /\ \/ (closed[c] \/ ctxDone) /\ UNCHANGED closed
       \/ TimesOut(c) /\ closed' = [closed EXCEPT ![c] = TRUE]
    /\ UNCHANGED outbound

----------------------------------------------------------------------------
\* handleClient

\* The writer's error is looked at after every message.
AfterMessage(c, leave) ==
    IF leave \/ writer[c].pc = "failed" THEN "leave" ELSE "decode"

Answer(c, kind, leave) ==
    reader' = [reader EXCEPT ![c].pc = "queue", ![c].leave = leave,
                             ![c].answer = Payload(kind, reader[c].taken)]

NoAnswer(c, leave) ==
    reader' = [reader EXCEPT ![c].pc = AfterMessage(c, leave)]

\* An error is the answer to a request and the end of the connection for a
\* message without an id.
RefuseMessage(c, m, leave) ==
    IF m.request THEN Answer(c, "error", leave) ELSE NoAnswer(c, TRUE)

Decode(c) ==
    /\ reader[c].pc = "decode"
    /\ reader[c].taken < Len(sent[c])
    /\ reader' = [reader EXCEPT ![c].pc = "handle", ![c].taken = @ + 1]
    /\ UNCHANGED <<clientVars, acceptVars, registered, closed, authenticated, writer, outbound,
                   broadcast, notices, stopVars>>

EndOfInput(c) == peer[c] = "gone" /\ reader[c].taken = Len(sent[c])

ReadError(c) == closed[c] \/ EndOfInput(c)

ReadFails(c) ==
    /\ reader[c].pc = "decode"
    /\ ReadError(c)
    /\ reader' = [reader EXCEPT ![c].pc = "leave"]
    /\ UNCHANGED <<clientVars, acceptVars, registered, closed, authenticated, writer, outbound,
                   broadcast, notices, stopVars>>

\* A plausible slip: the login is not asked for.
MayCallUnasked(c) == TRUE

MayCall(c) == authenticated[c]

\* handleRawMessage, handleRequest and handleNotification; the handler runs
\* here, and may fail.
Handle(c) ==
    /\ reader[c].pc = "handle"
    /\ LET m == sent[c][reader[c].taken]
       IN \/ /\ m.kind = "garbage"
             /\ Answer(c, "error", TRUE)
             /\ UNCHANGED authenticated
          \/ /\ m.kind = "badVersion"
             /\ Answer(c, "error", FALSE)
             /\ UNCHANGED authenticated
          \/ /\ m.kind = "response"
             /\ NoAnswer(c, FALSE)
             /\ UNCHANGED authenticated
          \/ /\ m.kind = "login" /\ ~authenticated[c]
             /\ authenticated' = [authenticated EXCEPT ![c] = TRUE]
             /\ IF m.request THEN Answer(c, "result", FALSE) ELSE NoAnswer(c, FALSE)
          \/ /\ m.kind \in {"badLogin", "empty"} \/ (m.kind = "login" /\ authenticated[c])
             /\ RefuseMessage(c, m, FALSE)
             /\ UNCHANGED authenticated
          \/ /\ m.kind = "call" /\ ~MayCall(c)
             /\ RefuseMessage(c, m, TRUE)
             /\ UNCHANGED authenticated
          \/ /\ m.kind = "call" /\ MayCall(c)
             /\ \/ IF m.request THEN Answer(c, "result", FALSE) ELSE NoAnswer(c, FALSE)
                \/ RefuseMessage(c, m, FALSE)
             /\ UNCHANGED authenticated
    /\ UNCHANGED <<clientVars, acceptVars, registered, closed, writer, outbound,
                   broadcast, notices, stopVars>>

Resume(c, pc) ==
    reader' = [reader EXCEPT ![c].pc = pc, ![c].answer = NoPayload, ![c].leave = FALSE]

\* A plausible slip: the reader goes on without the answer.
ReadOn(c) == "decode"

AfterQueueError(c) == "leave"

QueueAnswer(c) ==
    /\ reader[c].pc = "queue"
    /\ \/ /\ Enqueued(c, reader[c].answer)
          /\ Resume(c, AfterMessage(c, reader[c].leave))
       \/ /\ QueueError(c)
          /\ Resume(c, AfterQueueError(c))
    /\ UNCHANGED <<clientVars, acceptVars, registered, authenticated, writer,
                   broadcast, notices, stopVars>>

\* The deferred calls: close, unregister, wg.Done.
Leave(c) ==
    /\ reader[c].pc = "leave"
    /\ reader' = [reader EXCEPT ![c].pc = "gone"]
    /\ closed' = [closed EXCEPT ![c] = TRUE]
    /\ registered' = registered \ {c}
    /\ UNCHANGED <<clientVars, acceptVars, authenticated, writer, outbound,
                   broadcast, notices, stopVars>>

----------------------------------------------------------------------------
\* writeLoop

TakePayload(c) ==
    /\ writer[c].pc = "select"
    /\ outbound[c] # <<>>
    /\ writer' = [writer EXCEPT ![c] = Writer("write", Head(outbound[c]))]
    /\ outbound' = [outbound EXCEPT ![c] = Tail(@)]
    /\ UNCHANGED <<clientVars, acceptVars, registered, closed, authenticated, reader,
                   broadcast, notices, stopVars>>

\* A plausible slip: the loop is left after one payload.
WriteOnce(c) == "gone"

AfterWrite(c) == "select"

\* The client reads what is written.
Deliver(c) ==
    /\ writer[c].pc = "write"
    /\ peer[c] = "connected" /\ ~closed[c]
    /\ received' = [received EXCEPT ![c] = Append(@, writer[c].payload)]
    /\ writer' = [writer EXCEPT ![c] = Writer(AfterWrite(c), NoPayload)]
    /\ UNCHANGED <<peer, sent, acceptVars, registered, closed, authenticated, reader, outbound,
                   broadcast, notices, stopVars>>

WriteFails(c) ==
    /\ writer[c].pc = "write"
    /\ closed[c] \/ peer[c] = "gone"
    /\ writer' = [writer EXCEPT ![c] = Writer("failed", NoPayload)]
    /\ closed' = [closed EXCEPT ![c] = TRUE]
    /\ UNCHANGED <<clientVars, acceptVars, registered, authenticated, reader, outbound,
                   broadcast, notices, stopVars>>

WriterEnds(c) ==
    /\ writer[c].pc = "select"
    /\ closed[c] \/ ctxDone
    /\ writer' = [writer EXCEPT ![c] = Writer("gone", NoPayload)]
    /\ UNCHANGED <<clientVars, acceptVars, registered, closed, authenticated, reader, outbound,
                   broadcast, notices, stopVars>>

----------------------------------------------------------------------------
\* BroadcastNotification: the clients of this moment, one after the other.

Broadcast ==
    /\ broadcast = {} /\ notices < MaxNotices
    /\ notices' = notices + 1
    /\ broadcast' = registered
    /\ UNCHANGED <<clientVars, acceptVars, connVars, stopVars>>

Notify(c) ==
    /\ c \in broadcast
    /\ broadcast' = broadcast \ {c}
    /\ \/ ~authenticated[c] /\ UNCHANGED <<outbound, closed>>
       \/ authenticated[c] /\ Enqueued(c, Payload("notice", 0))
       \/ authenticated[c] /\ QueueError(c)
    /\ UNCHANGED <<clientVars, acceptVars, registered, authenticated, reader, writer,
                   notices, stopVars>>

----------------------------------------------------------------------------
\* Stop

\* A signal or a fatal error: run cancels the context of Start.
Cancel ==
    /\ ~ctxDone
    /\ ctxDone' = TRUE
    /\ UNCHANGED <<clientVars, acceptVars, connVars, broadcast, notices, stopped, stop>>

\* The second call finds the first one at work and returns.
StopCalled(p) ==
    /\ ctxDone /\ stop[p].pc = "idle"
    /\ stop' = [stop EXCEPT ![p] = IF stopped THEN StopCall("returned", {})
                                   ELSE StopCall("listener", registered)]
    /\ stopped' = TRUE
    /\ UNCHANGED <<clientVars, acceptVars, connVars, broadcast, notices, ctxDone>>

\* The connections nobody accepted are reset.
CloseListener(p) ==
    /\ stop[p].pc = "listener"
    /\ stop' = [stop EXCEPT ![p].pc = "clients"]
    /\ listening' = FALSE
    /\ backlog' = {}
    /\ peer' = [c \in Clients |-> IF c \in backlog THEN "gone" ELSE peer[c]]
    /\ UNCHANGED <<sent, received, accepting, connVars, broadcast, notices, ctxDone, stopped>>

CloseClient(p, c) ==
    /\ stop[p].pc = "clients" /\ c \in stop[p].left
    /\ stop' = [stop EXCEPT ![p].left = @ \ {c}]
    /\ closed' = [closed EXCEPT ![c] = TRUE]
    /\ UNCHANGED <<clientVars, acceptVars, registered, authenticated, reader, writer, outbound,
                   broadcast, notices, ctxDone, stopped>>

Serving(c) == reader[c].pc \notin {"none", "gone"}

\* A plausible slip: the handlers are not in the wait group.
OnlyAcceptLoop == accepting.pc = "done"

AllDone == accepting.pc = "done" /\ \A c \in Clients : ~Serving(c)

StopReturns(p) ==
    /\ stop[p].pc = "clients" /\ stop[p].left = {}
    /\ AllDone
    /\ stop' = [stop EXCEPT ![p].pc = "returned"]
    /\ UNCHANGED <<clientVars, acceptVars, connVars, broadcast, notices, ctxDone, stopped>>

----------------------------------------------------------------------------
AcceptStep == (\E c \in Clients : Accept(c) \/ Register(c)) \/ AcceptEnds
ReaderStep(c) == Decode(c) \/ ReadFails(c) \/ Handle(c) \/ QueueAnswer(c) \/ Leave(c)
WriterStep(c) == TakePayload(c) \/ WriteFails(c) \/ WriterEnds(c)
StopStep(p) ==
    \/ StopCalled(p) \/ CloseListener(p) \/ StopReturns(p)
    \/ \E c \in Clients : CloseClient(p, c)
ClientStep(c) == Connect(c) \/ Stall(c) \/ HangUp(c) \/ \E m \in Messages : Send(c, m)

Next ==
    \/ AcceptStep
    \/ \E c \in Clients : \/ ClientStep(c) \/ ReaderStep(c) \/ WriterStep(c)
                          \/ Deliver(c) \/ Notify(c)
    \/ Broadcast
    \/ Cancel
    \/ \E p \in Stoppers : StopStep(p)

\* Accept fails on a closed listener and on the nil Stop leaves in its place;
\* nothing makes it fail before.
AcceptRuns ==
    \/ \E c \in Clients : Accept(c) \/ Register(c)
    \/ AcceptEnds /\ (~listening \/ stopped)

\* The Go scheduler runs every goroutine that can run, and handlers end.
\* Nothing makes a client connect, send or leave; it reads until it stalls.
Fairness ==
    /\ WF_vars(AcceptRuns)
    /\ \A c \in Clients : /\ WF_vars(ReaderStep(c)) /\ WF_vars(Notify(c))
                          /\ WF_vars(WriterStep(c)) /\ WF_vars(Deliver(c))
    /\ \A p \in Stoppers : WF_vars(StopStep(p))

Spec == Init /\ [][Next]_vars /\ Fairness

----------------------------------------------------------------------------
IpcTypeOK ==
    /\ \A c \in Clients :
        /\ peer[c] \in {"away", "connected", "stalled", "gone"}
        /\ sent[c] \in Seq(Message)
        /\ reader[c].pc \in {"none", "decode", "handle", "queue", "leave", "gone"}
        /\ reader[c].taken \in 0 .. Len(sent[c])
        /\ writer[c].pc \in {"none", "select", "write", "failed", "gone"}
        /\ Len(outbound[c]) <= Depth
    /\ registered \subseteq Clients /\ broadcast \subseteq Clients /\ backlog \subseteq Clients
    /\ \A p \in Stoppers : /\ stop[p].pc \in {"idle", "listener", "clients", "returned"}
                           /\ stop[p].left \subseteq Clients

LoggedInBefore(c, n) == \E i \in 1 .. n : sent[c][i].kind = "login"

(***************************************************************************)
(* No result and no notification reaches a client that has not sent the    *)
(* right nonce, and none was queued for it: the result of a call comes     *)
(* after a login earlier in the same connection (handleRequest,            *)
(* handleNotification, BroadcastNotification).                             *)
(***************************************************************************)
NothingBeforeLogin ==
    \A c \in Clients :
        LET payloads == received[c] \o outbound[c]
        IN \A i \in 1 .. Len(payloads) :
            /\ payloads[i].kind = "result" => LoggedInBefore(c, payloads[i].to)
            /\ payloads[i].kind = "notice" => LoggedInBefore(c, reader[c].taken)

\* One of the first n payloads answers message k.
AnsweredAmong(payloads, n, k) ==
    \E i \in 1 .. n : payloads[i].kind # "notice" /\ payloads[i].to = k

\* An answer in its place: to a request, after the answers to earlier ones,
\* and no request before it is without.
InPlace(payloads, i, asked) ==
    /\ payloads[i].to \in 1 .. Len(asked) /\ asked[payloads[i].to].request
    /\ \A j \in 1 .. i - 1 : payloads[j].kind # "notice" => payloads[j].to < payloads[i].to
    /\ \A k \in 1 .. payloads[i].to : asked[k].request => AnsweredAmong(payloads, i, k)

InOrder(payloads, asked) ==
    \A i \in 1 .. Len(payloads) : payloads[i].kind # "notice" => InPlace(payloads, i, asked)

(***************************************************************************)
(* The answers a client reads are in the order of its requests, each       *)
(* request has at most one, and no request between two answered ones is    *)
(* left without: whatever notifications, timeouts, write errors and a stop *)
(* do between, only a tail of the answers can be missing.                  *)
(***************************************************************************)
AnswersInOrder == \A c \in Clients : InOrder(received[c], sent[c])

(***************************************************************************)
(* When the call of Stop that does the work returns, no handler runs, no   *)
(* client is left in the map and the accept loop has ended: nothing can    *)
(* start again (Stop and its wait group).                                  *)
(***************************************************************************)
StopWaitsForHandlers ==
    (\A p \in Stoppers : stop[p].pc = "returned") =>
        /\ registered = {}
        /\ accepting.pc = "done"
        /\ \A c \in Clients : ~Serving(c)

(***************************************************************************)
(* Stop returns, however clients and handlers stand, unless a client that  *)
(* the accept loop registered after Stop had taken its list stays.         *)
(***************************************************************************)
Late(c) == Serving(c) /\ \A p \in Stoppers : c \notin stop[p].list

StopReturnsUnlessLate ==
    \A p \in Stoppers :
        stop[p].pc # "idle" ~> (stop[p].pc = "returned" \/ [](\E c \in Clients : Late(c)))

(***************************************************************************)
(* A request of a client that keeps reading is answered, unless its        *)
(* connection is closed or the server stops; a broadcast that takes the    *)
(* last place of its queue does not stand in the way.                      *)
(***************************************************************************)
AnsweredTo(c, n) == \E i \in 1 .. Len(received[c]) : received[c][i].to = n

RequestsAreAnswered ==
    \A c \in Clients, n \in 1 .. MaxSent :
        (/\ reader[c].pc # "none"
         /\ Len(sent[c]) >= n /\ sent[c][n].request)
        ~> (AnsweredTo(c, n) \/ closed[c] \/ peer[c] # "connected" \/ ctxDone)

(***************************************************************************)
(* A broadcast ends although a client does not read: the client is dropped *)
(* after writeQueueWait.                                                   *)
(***************************************************************************)
BroadcastEnds == (broadcast # {}) ~> (broadcast = {})

============================================================================
