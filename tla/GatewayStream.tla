---------------------------- MODULE GatewayStream ----------------------------
(***************************************************************************)
(* The event stream of the gateway client                                  *)
(* (local-bridge/internal/gateway/client.go): ConnectWebSocket, the reader *)
(* it starts, the channel Events returns, and Close.                       *)
(*                                                                         *)
(* Goroutines: some that connect, again and again if they like; one reader *)
(* for each connection; one that calls Close; one that reads Events.  A    *)
(* call of ConnectWebSocket looks whether a stream is open, and stores its *)
(* connection after the dial without a second look.  A reader asks for the *)
(* current connection before every message, under the mutex, and reads     *)
(* outside of it.  wsConn and wsReader are always set together: current    *)
(* stands for both.                                                        *)
(*                                                                         *)
(* On the wire a message is one frame or two, a first fragment and the     *)
(* last one; control frames may come anywhere.  A send on a closed channel *)
(* ends the process: panicked.  The dial, its handshake and its three      *)
(* candidate paths are one step with two outcomes; the REST calls keep no  *)
(* state.                                                                  *)
(***************************************************************************)
EXTENDS Naturals, Sequences, SequencesExt, FiniteSets

CONSTANTS
    Dialers,       \* the goroutines that call ConnectWebSocket
    MaxConnects,   \* bound on the connections
    MaxFrames,     \* bound on the frames the gateway sends
    Depth,         \* defaultBufferEvents
    MayClose       \* whether somebody calls Close

VARIABLES
    closed,        \* c.closed
    connected,     \* c.wsConnected
    current,       \* c.wsConn and c.wsReader, None for nil
    dialer,        \* the call of ConnectWebSocket each dialer is in
    conns,         \* the connections, in the order of their making
    readers,       \* readEvents of each connection
    buffer,        \* the events channel
    eventsClosed,
    received,      \* what the reader of Events got
    consumer,      \* "reading", "stopped", or "done" with a closed channel
    closer,        \* the goroutine in Close
    late,          \* connections stored after Close took its own
    crossed,       \* one call stored its connection during the dial of another
    panicked

clientVars == <<closed, connected, current>>
channelVars == <<buffer, eventsClosed>>
setApart == <<late, crossed>>
vars == <<clientVars, dialer, conns, readers, channelVars, received, consumer, closer, setApart,
          panicked>>

ASSUME StreamAssumption ==
    /\ MaxConnects \in Nat \ {0} /\ MaxFrames \in Nat /\ Depth \in Nat \ {0}
    /\ MayClose \in BOOLEAN

None == 0
Connections == 1 .. Len(conns)

Frame(op, fin, data) == [op |-> op, fin |-> fin, data |-> data]

\* A connection: gone once the gateway ended it, cut once the client did,
\* open the message the gateway is in the middle of, sent its messages,
\* split the numbers of those it sent a control frame inside of.
NewConnection == [gone |-> FALSE, cut |-> FALSE, expired |-> FALSE, frames |-> 0,
                  wire |-> <<>>, open |-> <<>>, sent |-> <<>>, split |-> {}]

\* from is the connection this reading of a message goes to; op and parts
\* what has been read of it.
Reader(pc) == [pc |-> pc, from |-> None, op |-> "none", parts |-> <<>>]

\* looked is how many connections there were when the call looked, conn the
\* one it stored.
NoCall == [pc |-> "idle", looked |-> 0, conn |-> None]

Init ==
    /\ closed = FALSE /\ connected = FALSE /\ current = None
    /\ dialer = [d \in Dialers |-> NoCall]
    /\ conns = <<>>
    /\ readers = <<>>
    /\ buffer = <<>> /\ eventsClosed = FALSE
    /\ received = <<>> /\ consumer = "reading"
    /\ closer = [pc |-> "idle", conn |-> None]
    /\ late = {} /\ crossed = FALSE
    /\ panicked = FALSE

----------------------------------------------------------------------------
\* The gateway, and the context of a connection.

FramesSent == FoldSeq(LAMBDA conn, sum : conn.frames + sum, 0, conns)

GatewaySends(n, frame, conn) ==
    /\ ~conns[n].gone /\ ~conns[n].cut /\ FramesSent < MaxFrames
    /\ conns' = [conns EXCEPT ![n] = [conn EXCEPT !.wire = Append(@, frame), !.frames = @ + 1]]
    /\ UNCHANGED <<clientVars, dialer, readers, channelVars, received, consumer, closer, setApart>>

SendMessage(n) ==
    LET conn == conns[n]
        data == Len(conn.sent) + 1
        message == Append(conn.open, data)
        op == IF conn.open = <<>> THEN "text" ELSE "continuation"
    IN \/ GatewaySends(n, Frame(op, TRUE, data),
                       [conn EXCEPT !.open = <<>>, !.sent = Append(@, message)])
       \/ /\ conn.open = <<>>
          /\ GatewaySends(n, Frame(op, FALSE, data), [conn EXCEPT !.open = message])

\* A control frame is never split, and may come between two fragments.
SendControl(n, op) ==
    LET conn == conns[n]
        data == Len(conn.sent) + 1
    IN GatewaySends(n, Frame(op, TRUE, 0),
                    IF conn.open = <<>> THEN conn ELSE [conn EXCEPT !.split = @ \cup {data}])

GatewayEnds(n) ==
    /\ ~conns[n].gone
    /\ conns' = [conns EXCEPT ![n].gone = TRUE]
    /\ UNCHANGED <<clientVars, dialer, readers, channelVars, received, consumer, closer, setApart>>

\* The context ConnectWebSocket was given is cancelled.
ContextEnds(n) ==
    /\ ~conns[n].expired
    /\ conns' = [conns EXCEPT ![n].expired = TRUE]
    /\ UNCHANGED <<clientVars, dialer, readers, channelVars, received, consumer, closer, setApart>>

----------------------------------------------------------------------------
\* ConnectWebSocket

\* A plausible slip: an open stream is not looked for.
MayDialUnlessClosed == ~closed

MayDial == ~closed /\ ~connected

StartDial(d) ==
    /\ dialer[d].pc = "idle" /\ Len(conns) < MaxConnects
    /\ MayDial
    /\ dialer' = [dialer EXCEPT ![d] = [pc |-> "dial", looked |-> Len(conns), conn |-> None]]
    /\ UNCHANGED <<clientVars, conns, readers, channelVars, received, consumer, closer, setApart>>

DialFails(d) ==
    /\ dialer[d].pc = "dial"
    /\ dialer' = [dialer EXCEPT ![d] = NoCall]
    /\ UNCHANGED <<clientVars, conns, readers, channelVars, received, consumer, closer, setApart>>

\* Stored whatever happened since the look at closed and wsConnected.
DialSucceeds(d) ==
    /\ dialer[d].pc = "dial" /\ Len(conns) < MaxConnects
    /\ conns' = Append(conns, NewConnection)
    /\ readers' = Append(readers, Reader("none"))
    /\ dialer' = [dialer EXCEPT ![d] = [pc |-> "start", looked |-> 0, conn |-> Len(conns')]]
    /\ current' = Len(conns')
    /\ connected' = TRUE
    /\ late' = IF closed THEN late \cup {Len(conns')} ELSE late
    /\ crossed' = (crossed \/ dialer[d].looked # Len(conns))
    /\ UNCHANGED <<closed, channelVars, received, consumer, closer>>

StartReader(d) ==
    /\ dialer[d].pc = "start"
    /\ dialer' = [dialer EXCEPT ![d] = NoCall]
    /\ readers' = [readers EXCEPT ![dialer[d].conn] = Reader("fetch")]
    /\ UNCHANGED <<clientVars, conns, channelVars, received, consumer, closer, setApart>>

----------------------------------------------------------------------------
\* readEvents and readFrame

CloseEvents == eventsClosed' = TRUE

Fetch(n) ==
    /\ readers[n].pc = "fetch"
    /\ readers' = [readers EXCEPT ![n] =
                      IF current = None THEN Reader("end")
                      ELSE [Reader("read") EXCEPT !.from = current]]
    /\ UNCHANGED <<clientVars, dialer, conns, channelVars, received, consumer, closer, setApart>>

ReadFails(n) ==
    /\ readers[n].pc = "read"
    /\ LET conn == conns[readers[n].from] IN conn.cut \/ conn.gone
    /\ readers' = [readers EXCEPT ![n] = Reader("end")]
    /\ UNCHANGED <<clientVars, dialer, conns, channelVars, received, consumer, closer, setApart>>

\* The opcode of a message is that of its first frame.
FirstOpcode(r, frame) ==
    IF frame.op # "continuation" /\ r.op = "none" THEN frame.op ELSE r.op

\* A plausible slip: every frame is taken for a message.
EveryFrame(frame) == TRUE

EndsMessage(frame) == frame.fin

\* What readEvents does with a message.
After(op) ==
    CASE op = "text"  -> "send"
      [] op = "ping"  -> "pong"
      [] op = "close" -> "end"
      [] OTHER        -> "fetch"

ReadFrame(n) ==
    LET r == readers[n]
        frame == Head(conns[r.from].wire)
        read == [r EXCEPT !.op = FirstOpcode(r, frame), !.parts = Append(@, frame.data)]
    IN /\ r.pc = "read" /\ conns[r.from].wire # <<>>
       /\ conns' = [conns EXCEPT ![r.from].wire = Tail(@)]
       /\ readers' = [readers EXCEPT ![n] =
                         IF EndsMessage(frame) THEN [read EXCEPT !.pc = After(read.op)] ELSE read]
       /\ UNCHANGED <<clientVars, dialer, channelVars, received, consumer, closer, setApart>>

\* Two readers of one bufio.Reader: nothing guards it, and what either makes
\* of the bytes is anything, a length that cannot be allocated among it.
Racing(n) ==
    /\ readers[n].pc = "read" /\ conns[readers[n].from].wire # <<>>
    /\ \E m \in Connections \ {n} : readers[m].pc = "read" /\ readers[m].from = readers[n].from

ReadTorn(n) ==
    /\ Racing(n)
    /\ \E pc \in {"read", "fetch", "send", "pong", "end"} :
          readers' = [readers EXCEPT ![n].pc = pc, ![n].parts = <<0>>]
    /\ conns' = [conns EXCEPT ![readers[n].from].wire = Tail(@)]
    /\ UNCHANGED <<clientVars, dialer, channelVars, received, consumer, closer, setApart>>

ReadPanics(n) ==
    /\ Racing(n)
    /\ panicked' = TRUE
    /\ UNCHANGED <<clientVars, dialer, conns, readers, channelVars, received, consumer, closer,
                   setApart>>

\* The pong goes to the connection of this moment.
Pong(n) ==
    /\ readers[n].pc = "pong"
    /\ \/ /\ current # None /\ ~conns[current].cut
          /\ readers' = [readers EXCEPT ![n] = Reader("fetch")]
       \/ /\ current # None => conns[current].cut \/ conns[current].gone
          /\ readers' = [readers EXCEPT ![n] = Reader("end")]
    /\ UNCHANGED <<clientVars, dialer, conns, channelVars, received, consumer, closer, setApart>>

\* A plausible slip: off by one.
HasRoomForOneMore == Len(buffer) <= Depth

HasRoom == Len(buffer) < Depth

\* The select of readEvents: the channel has room, or is closed, or the
\* context is done.
SendEvent(n) ==
    /\ readers[n].pc = "send"
    /\ ~eventsClosed /\ HasRoom
    /\ buffer' = Append(buffer, [from |-> readers[n].from, parts |-> readers[n].parts])
    /\ readers' = [readers EXCEPT ![n] = Reader("fetch")]
    /\ UNCHANGED <<clientVars, dialer, conns, eventsClosed, received, consumer, closer, setApart>>

SendOnClosed(n) ==
    /\ readers[n].pc = "send" /\ eventsClosed
    /\ panicked' = TRUE
    /\ UNCHANGED <<clientVars, dialer, conns, readers, channelVars, received, consumer, closer,
                   setApart>>

SendGivenUp(n) ==
    /\ readers[n].pc = "send" /\ conns[n].expired
    /\ readers' = [readers EXCEPT ![n] = Reader("end")]
    /\ UNCHANGED <<clientVars, dialer, conns, channelVars, received, consumer, closer, setApart>>

Disconnect(n) ==
    /\ readers[n].pc = "end"
    /\ connected' = FALSE
    /\ readers' = [readers EXCEPT ![n] = Reader("close")]
    /\ UNCHANGED <<closed, current, dialer, conns, channelVars, received, consumer, closer, setApart>>

\* A plausible slip: only Close closes the channel.
LeaveEvents == UNCHANGED eventsClosed

EndEvents == CloseEvents

ReaderDone(n) ==
    /\ readers[n].pc = "close"
    /\ EndEvents
    /\ readers' = [readers EXCEPT ![n] = Reader("done")]
    /\ UNCHANGED <<clientVars, dialer, conns, buffer, received, consumer, closer, setApart>>

----------------------------------------------------------------------------
\* The reader of Events.

Receive ==
    /\ consumer = "reading" /\ buffer # <<>>
    /\ received' = Append(received, Head(buffer))
    /\ buffer' = Tail(buffer)
    /\ UNCHANGED <<clientVars, dialer, conns, readers, eventsClosed, consumer, closer, setApart>>

SeeEnd ==
    /\ consumer = "reading" /\ buffer = <<>> /\ eventsClosed
    /\ consumer' = "done"
    /\ UNCHANGED <<clientVars, dialer, conns, readers, channelVars, received, closer, setApart>>

StopReading ==
    /\ consumer = "reading"
    /\ consumer' = "stopped"
    /\ UNCHANGED <<clientVars, dialer, conns, readers, channelVars, received, closer, setApart>>

----------------------------------------------------------------------------
\* Close

TakeConnection ==
    /\ MayClose /\ closer.pc = "idle"
    /\ closer' = [pc |-> "cut", conn |-> current]
    /\ closed' = TRUE /\ connected' = FALSE /\ current' = None
    /\ UNCHANGED <<dialer, conns, readers, channelVars, received, consumer, setApart>>

\* A plausible slip: the connection is left to its reader.
LeaveConnection == conns

CutConnection ==
    IF closer.conn = None THEN conns ELSE [conns EXCEPT ![closer.conn].cut = TRUE]

CloseConnection ==
    /\ closer.pc = "cut"
    /\ conns' = CutConnection
    /\ closer' = [closer EXCEPT !.pc = "wait"]
    /\ UNCHANGED <<clientVars, dialer, readers, channelVars, received, consumer, setApart>>

\* readLoopWG counts the readers started and not done.
Running(n) == readers[n].pc \notin {"none", "done"}

\* A plausible slip: Close does not wait.
WaitsForNobody == TRUE

ReadersDone == \A n \in Connections : ~Running(n)

CloseReturns ==
    /\ closer.pc = "wait"
    /\ ReadersDone
    /\ CloseEvents
    /\ closer' = [closer EXCEPT !.pc = "returned"]
    /\ UNCHANGED <<clientVars, dialer, conns, readers, buffer, received, consumer, setApart>>

----------------------------------------------------------------------------
ReaderStep(n) ==
    \/ SendOnClosed(n) \/ ReadPanics(n)
    \/ /\ UNCHANGED panicked
       /\ \/ Fetch(n) \/ ReadFrame(n) \/ ReadTorn(n) \/ ReadFails(n) \/ Pong(n)
          \/ SendEvent(n) \/ SendGivenUp(n) \/ Disconnect(n) \/ ReaderDone(n)

ConsumerStep == Receive \/ SeeEnd
CloseStep == CloseConnection \/ CloseReturns

GatewayStep(n) ==
    \/ SendMessage(n)
    \/ \E op \in {"ping", "pong", "close"} : SendControl(n, op)
    \/ GatewayEnds(n) \/ ContextEnds(n)

Next ==
    /\ ~panicked
    /\ \/ \E n \in Connections : ReaderStep(n)
       \/ /\ UNCHANGED panicked
          /\ \/ \E n \in Connections : GatewayStep(n)
             \/ \E d \in Dialers :
                 StartDial(d) \/ DialFails(d) \/ DialSucceeds(d) \/ StartReader(d)
             \/ ConsumerStep \/ StopReading
             \/ TakeConnection \/ CloseStep

\* The scheduler runs what can run.  Nothing makes the gateway send or end,
\* a dial return, or anybody connect, close or go on reading.
Fairness ==
    /\ \A n \in 1 .. MaxConnects : WF_vars(n \in Connections /\ ~panicked /\ ReaderStep(n))
    /\ \A d \in Dialers : WF_vars(~panicked /\ UNCHANGED panicked /\ StartReader(d))
    /\ WF_vars(~panicked /\ UNCHANGED panicked /\ ConsumerStep)
    /\ WF_vars(~panicked /\ UNCHANGED panicked /\ CloseStep)

Spec == Init /\ [][Next]_vars /\ Fairness

----------------------------------------------------------------------------
StreamTypeOK ==
    /\ current \in 0 .. Len(conns) /\ Len(conns) <= MaxConnects
    /\ Len(readers) = Len(conns)
    /\ dialer \in [Dialers -> [pc: {"idle", "dial", "start"}, looked: 0 .. Len(conns),
                              conn: 0 .. Len(conns)]]
    /\ \A n \in Connections :
        /\ readers[n].pc \in {"none", "fetch", "read", "pong", "send", "end", "close", "done"}
        /\ readers[n].from \in 0 .. Len(conns)
        /\ Len(conns[n].wire) <= conns[n].frames
    /\ Len(buffer) <= Depth
    /\ closer.pc \in {"idle", "cut", "wait", "returned"}

Reading(n) == readers[n].pc \in {"fetch", "read", "pong", "send"}

(***************************************************************************)
(* No two readers are at work at once, which would read one bufio.Reader   *)
(* that nothing guards, unless two calls of ConnectWebSocket crossed: the  *)
(* reader of the connection before is past its last message when           *)
(* wsConnected lets the next call dial (ConnectWebSocket and the deferred  *)
(* call of readEvents).  Calls that both look before one of them stores    *)
(* its connection do start two readers, and are set apart.                 *)
(***************************************************************************)
OneReader ==
    ~crossed => Cardinality({n \in Connections : Reading(n)}) <= 1

Delivered == received \o buffer

\* How many events before event i are of the same connection.
EventsBefore(i) == Cardinality({j \in 1 .. i - 1 : Delivered[j].from = Delivered[i].from})

(***************************************************************************)
(* Event k of a connection is message k the gateway sent over it, whole:   *)
(* in order, none left out, whether it came in one frame or two, pings     *)
(* answered, the buffer full and the stream closed.  Set apart is the      *)
(* event of a message with a control frame between its fragments, which    *)
(* readFrame takes for its end; the events after it are messages again.    *)
(* Set apart are calls of ConnectWebSocket that crossed, too.              *)
(***************************************************************************)
EventsAreMessages ==
    ~crossed =>
        \A i \in 1 .. Len(Delivered) :
            LET conn == conns[Delivered[i].from]
                k == EventsBefore(i) + 1
            IN \/ k \in conn.split
               \/ k <= Len(conn.sent) /\ Delivered[i].parts = conn.sent[k]

(***************************************************************************)
(* When Close returns, no reader reads or delivers and the last connection *)
(* is cut, unless a dial that began before Close stored its connection     *)
(* after it.  A reader started behind Close, for a connection stored       *)
(* before, finds none to read.                                             *)
(***************************************************************************)
CloseLeavesNothing ==
    closer.pc = "returned" /\ late = {} =>
        /\ \A n \in Connections : readers[n].pc \notin {"read", "pong", "send"}
        /\ conns # <<>> => Last(conns).cut

(***************************************************************************)
(* No event is sent on the closed channel: a client whose stream ended can *)
(* connect again, as the bridge is meant to.                               *)
(***************************************************************************)
ReconnectIsSafe == ~panicked

(***************************************************************************)
(* Close returns, unless a reader waits at a full channel nobody reads     *)
(* with a context that goes on, or a connection was stored behind its      *)
(* back, or over another, which then nobody ends, by calls that crossed.   *)
(***************************************************************************)
Stuck == \E n \in Connections : readers[n].pc = "send" /\ ~HasRoom

CloseEnds ==
    closer.pc # "idle" ~> (closer.pc = "returned" \/ panicked \/ [](Stuck \/ late # {} \/ crossed))

(***************************************************************************)
(* A consumer that keeps reading learns of the end of the stream, after    *)
(* all events before it.                                                   *)
(***************************************************************************)
EndIsSeen ==
    (\E n \in Connections : readers[n].pc = "end") ~> (consumer # "reading" \/ panicked)

============================================================================
