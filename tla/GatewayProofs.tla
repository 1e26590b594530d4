---------------------------- MODULE GatewayProofs ----------------------------
(***************************************************************************)
(* The event stream with any number of connections, frames and places in   *)
(* the channel: types, OneReader, CloseLeavesNothing and, last and         *)
(* longest, EventsAreMessages.                                             *)
(***************************************************************************)
EXTENDS GatewayStream, FiniteSetTheorems, SequenceTheorems, TLAPS

Ops == {"none", "text", "continuation", "ping", "pong", "close"}

FrameRecord == [op: Ops, fin: BOOLEAN, data: Nat]
Message == Seq(Nat)

ConnectionRecord ==
    [gone: BOOLEAN, cut: BOOLEAN, expired: BOOLEAN, frames: Nat,
     wire: Seq(FrameRecord), open: Message, sent: Seq(Message), split: SUBSET Nat]

ReaderRecord ==
    [pc: {"none", "fetch", "read", "pong", "send", "end", "close", "done"},
     from: Nat, op: Ops, parts: Message]

\* A reader that reads has one of k connections to read from.
InRange(r, k) == r.from <= k /\ (r.pc = "read" => r.from \in 1 .. k)

\* A call that starts a reader has one of k connections to start it for.
CallRecord == [pc: {"idle", "dial", "start"}, looked: Nat, conn: Nat]
CallInRange(call, k) ==
    call.looked <= k /\ call.conn <= k /\ (call.pc = "start" => call.conn \in 1 .. k)

StreamTypes ==
    /\ closed \in BOOLEAN /\ connected \in BOOLEAN
    /\ conns \in Seq(ConnectionRecord)
    /\ readers \in Seq(ReaderRecord) /\ Len(readers) = Len(conns)
    /\ current \in 0 .. Len(conns)
    /\ \A n \in Connections : Len(conns[n].wire) <= conns[n].frames
    /\ \A n \in Connections : InRange(readers[n], Len(conns))
    /\ Len(conns) <= MaxConnects
    /\ dialer \in [Dialers -> CallRecord]
    /\ \A d \in Dialers : CallInRange(dialer[d], Len(conns))
    /\ crossed \in BOOLEAN
    /\ buffer \in Seq([from: Nat, parts: Message]) /\ Len(buffer) <= Depth
    /\ closer \in [pc: {"idle", "cut", "wait", "returned"}, conn: Nat]
    /\ closer.conn <= Len(conns)

\* The types imply the invariant the runs check.
LEMMA StreamTypesSuffice == StreamTypes => StreamTypeOK
<1> SUFFICES ASSUME StreamTypes PROVE StreamTypeOK
    OBVIOUS
<1>1. \A n \in Connections : /\ readers[n] \in ReaderRecord /\ readers[n].from <= Len(conns)
                              /\ Len(conns[n].wire) <= conns[n].frames
    BY DEF StreamTypes, Connections, InRange
<1>2. \A n \in Connections :
        /\ readers[n].pc \in {"none", "fetch", "read", "pong", "send", "end", "close", "done"}
        /\ readers[n].from \in 0 .. Len(conns)
    BY <1>1 DEF ReaderRecord, StreamTypes
<1>3. dialer \in [Dialers -> [pc: {"idle", "dial", "start"}, looked: 0 .. Len(conns),
                              conn: 0 .. Len(conns)]]
    <2>1. Len(conns) \in Nat
        BY DEF StreamTypes
    <2>2. \A d \in Dialers : dialer[d] \in CallRecord /\ CallInRange(dialer[d], Len(conns))
        BY DEF StreamTypes
    <2>3. \A call \in CallRecord : CallInRange(call, Len(conns)) =>
            call \in [pc: {"idle", "dial", "start"}, looked: 0 .. Len(conns), conn: 0 .. Len(conns)]
        BY <2>1 DEF CallRecord, CallInRange
    <2> QED
        BY <2>2, <2>3 DEF StreamTypes
<1> QED
    BY <1>1, <1>2, <1>3 DEF StreamTypes, StreamTypeOK

(***************************************************************************)
(* What the actions make of a record is a record.                          *)
(***************************************************************************)
LEMMA WireUpdate ==
    ASSUME NEW conn \in ConnectionRecord, NEW w \in Seq(FrameRecord), NEW k \in Nat
    PROVE  /\ [conn EXCEPT !.wire = w, !.frames = k] \in ConnectionRecord
           /\ [conn EXCEPT !.wire = w, !.frames = k].wire = w
           /\ [conn EXCEPT !.wire = w, !.frames = k].frames = k
           /\ [conn EXCEPT !.wire = w] \in ConnectionRecord
           /\ [conn EXCEPT !.wire = w].wire = w
           /\ [conn EXCEPT !.wire = w].frames = conn.frames
BY DEF ConnectionRecord

\* A frame sent or read changes the message of a connection and keeps its wire.
LEMMA MessageUpdate ==
    ASSUME NEW conn \in ConnectionRecord, NEW o \in Message, NEW s \in Seq(Message)
    PROVE  /\ [conn EXCEPT !.open = o, !.sent = s] \in ConnectionRecord
           /\ [conn EXCEPT !.open = o, !.sent = s].wire = conn.wire
           /\ [conn EXCEPT !.open = o, !.sent = s].frames = conn.frames
           /\ [conn EXCEPT !.open = o] \in ConnectionRecord
           /\ [conn EXCEPT !.open = o].wire = conn.wire
           /\ [conn EXCEPT !.open = o].frames = conn.frames
BY DEF ConnectionRecord

\* A control frame inside a message makes it a split one.
LEMMA SplitUpdate ==
    ASSUME NEW conn \in ConnectionRecord, NEW x \in SUBSET Nat
    PROVE  /\ [conn EXCEPT !.split = x] \in ConnectionRecord
           /\ [conn EXCEPT !.split = x].wire = conn.wire
           /\ [conn EXCEPT !.split = x].frames = conn.frames
           /\ [conn EXCEPT !.split = x].cut = conn.cut
BY DEF ConnectionRecord

\* A reader at its next step, or with a frame it has read, is a reader.
LEMMA ReaderUpdate ==
    ASSUME NEW r \in ReaderRecord, NEW o \in Ops, NEW p \in Message,
           NEW pc \in {"read", "fetch", "send", "pong", "end"}
    PROVE  /\ [r EXCEPT !.op = o, !.parts = p] \in ReaderRecord
           /\ [r EXCEPT !.op = o, !.parts = p].from = r.from
           /\ [r EXCEPT !.pc = pc] \in ReaderRecord
           /\ [r EXCEPT !.pc = pc].from = r.from
BY DEF ReaderRecord

\* So is one that has fetched connection n.
LEMMA ReadingFrom ==
    ASSUME NEW n \in Nat
    PROVE  /\ [Reader("read") EXCEPT !.from = n] \in ReaderRecord
           /\ [Reader("read") EXCEPT !.from = n].from = n
<1>1. \A r \in ReaderRecord : /\ [r EXCEPT !.from = n] \in ReaderRecord
                              /\ [r EXCEPT !.from = n].from = n
    BY DEF ReaderRecord
<1>2. Reader("read") \in ReaderRecord
    BY DEF Reader, ReaderRecord, Ops, None, Message
<1> QED
    BY <1>1, <1>2

(***************************************************************************)
(* A reader that moves.                                                    *)
(***************************************************************************)
LEMMA ReaderMoves ==
    ASSUME StreamTypes, NEW n \in Connections, NEW r \in ReaderRecord,
           readers' = [readers EXCEPT ![n] = r], InRange(r, Len(conns))
    PROVE  /\ readers' \in Seq(ReaderRecord) /\ Len(readers') = Len(conns)
           /\ \A m \in Connections : InRange(readers'[m], Len(conns))
BY DEF StreamTypes, Connections

\* And a connection something happens to.
LEMMA ConnectionChanges ==
    ASSUME StreamTypes, NEW n \in Connections, NEW conn \in ConnectionRecord,
           conns' = [conns EXCEPT ![n] = conn], Len(conn.wire) <= conn.frames
    PROVE  /\ conns' \in Seq(ConnectionRecord) /\ Len(conns') = Len(conns)
           /\ \A m \in Connections : Len(conns'[m].wire) <= conns'[m].frames
BY DEF StreamTypes, Connections

\* The readers that hold no connection and no message.
LEMMA SimpleReader ==
    ASSUME NEW pc \in {"none", "fetch", "end", "close", "done"}
    PROVE  /\ Reader(pc) \in ReaderRecord
           /\ Reader(pc).pc = pc /\ Reader(pc).from = 0
BY DEF Reader, ReaderRecord, None, Ops, Message

\* The gateway sends, tears or ends a connection: the types stand.
LEMMA TypesOfGateway ==
    ASSUME StreamTypes, NEW n \in Connections, GatewayStep(n) PROVE StreamTypes'
<1> DEFINE Others == UNCHANGED <<clientVars, dialer, readers, channelVars, received, consumer,
                                 closer, setApart>>
<1>0. conns[n] \in ConnectionRecord /\ Len(conns[n].wire) <= conns[n].frames
    BY DEF StreamTypes, Connections
<1>1. ASSUME NEW conn \in ConnectionRecord, conns' = [conns EXCEPT ![n] = conn],
             Len(conn.wire) <= conn.frames, Others
      PROVE  StreamTypes'
    BY <1>1, ConnectionChanges DEF StreamTypes, clientVars, channelVars, setApart, Connections
<1>2. ASSUME NEW frame \in FrameRecord, NEW conn \in ConnectionRecord,
             conn.wire = conns[n].wire, conn.frames = conns[n].frames,
             GatewaySends(n, frame, conn)
      PROVE  StreamTypes'
    <2> DEFINE w == Append(conn.wire, frame)
               k == conn.frames + 1
               new == [conn EXCEPT !.wire = w, !.frames = k]
    <2>1. conns' = [conns EXCEPT ![n] = new] /\ Others
        BY <1>2 DEF GatewaySends
    <2>2. conn.wire \in Seq(FrameRecord) /\ conn.frames \in Nat /\ Len(conn.wire) <= conn.frames
        BY <1>0, <1>2 DEF ConnectionRecord
    <2>4. w \in Seq(FrameRecord) /\ k \in Nat /\ Len(w) <= k
        BY <2>2
    <2> HIDE DEF w, k
    <2>3. new \in ConnectionRecord /\ new.wire = w /\ new.frames = k
        BY <2>4 DEF ConnectionRecord
    <2>5. Len(new.wire) <= new.frames
        BY <2>3, <2>4
    <2> HIDE DEF new
    <2> QED
        BY <1>1, <2>1, <2>3, <2>5
<1>3. CASE SendMessage(n)
    <2> DEFINE data == Len(conns[n].sent) + 1
               message == Append(conns[n].open, data)
               s == Append(conns[n].sent, message)
               op == IF conns[n].open = <<>> THEN "text" ELSE "continuation"
    <2>1. data \in Nat /\ conns[n].open \in Message /\ conns[n].sent \in Seq(Message)
        BY <1>0 DEF ConnectionRecord
    <2>2. message \in Message /\ <<>> \in Message
        BY <2>1 DEF Message
    <2>3. s \in Seq(Message)
        BY <2>1, <2>2
    <2>4. \A fin \in BOOLEAN : Frame(op, fin, data) \in FrameRecord
        BY <2>1 DEF Frame, FrameRecord, Ops
    <2>5. \/ GatewaySends(n, Frame(op, TRUE, data), [conns[n] EXCEPT !.open = <<>>, !.sent = s])
          \/ GatewaySends(n, Frame(op, FALSE, data), [conns[n] EXCEPT !.open = message])
        BY <1>3 DEF SendMessage
    <2> HIDE DEF data, message, s, op
    <2> QED
        BY <1>0, <1>2, <2>2, <2>3, <2>4, <2>5, MessageUpdate
<1>4. ASSUME NEW op \in {"ping", "pong", "close"}, SendControl(n, op) PROVE StreamTypes'
    <2>1. Frame(op, TRUE, 0) \in FrameRecord
        BY DEF Frame, FrameRecord, Ops
    <2> DEFINE x == conns[n].split \cup {Len(conns[n].sent) + 1}
    <2>2. x \in SUBSET Nat
        BY <1>0 DEF ConnectionRecord
    <2>3. GatewaySends(n, Frame(op, TRUE, 0),
                       IF conns[n].open = <<>> THEN conns[n] ELSE [conns[n] EXCEPT !.split = x])
        BY <1>4 DEF SendControl
    <2> HIDE DEF x
    <2>4. CASE conns[n].open = <<>>
        BY <1>0, <1>2, <2>1, <2>3, <2>4
    <2>5. CASE conns[n].open # <<>>
        <3>1. GatewaySends(n, Frame(op, TRUE, 0), [conns[n] EXCEPT !.split = x])
            BY <2>3, <2>5
        <3> QED
            BY <1>0, <1>2, <2>1, <2>2, <3>1, SplitUpdate
    <2> QED
        BY <2>4, <2>5
<1>5. CASE GatewayEnds(n) \/ ContextEnds(n)
    <2>1. CASE GatewayEnds(n)
        BY <1>0, <1>1, <2>1 DEF GatewayEnds, ConnectionRecord
    <2>2. CASE ContextEnds(n)
        BY <1>0, <1>1, <2>2 DEF ContextEnds, ConnectionRecord
    <2> QED
        BY <1>5, <2>1, <2>2
<1> QED
    BY <1>3, <1>4, <1>5 DEF GatewayStep

\* A reader fetches, reads, answers a ping, delivers, ends: the types stand.
LEMMA TypesOfReader ==
    ASSUME StreamTypes, NEW n \in Connections, ReaderStep(n) PROVE StreamTypes'
<1> DEFINE Others == UNCHANGED <<closed, current, dialer, closer, crossed>>
<1>0. readers[n] \in ReaderRecord /\ readers[n].from <= Len(conns)
    BY DEF StreamTypes, Connections, InRange
<1>1. ASSUME NEW r \in ReaderRecord, readers' = [readers EXCEPT ![n] = r], InRange(r, Len(conns)),
             Others, connected' \in BOOLEAN, UNCHANGED <<conns, buffer>>
      PROVE  StreamTypes'
    BY <1>1, ReaderMoves DEF StreamTypes, Connections
<1>2. ASSUME NEW pc \in {"fetch", "end", "close", "done"}, readers' = [readers EXCEPT ![n] = Reader(pc)],
             Others, connected' \in BOOLEAN, UNCHANGED <<conns, buffer>>
      PROVE  StreamTypes'
    <2>1. InRange(Reader(pc), Len(conns))
        BY SimpleReader DEF StreamTypes, InRange
    <2> QED
        BY <1>1, <1>2, <2>1, SimpleReader
<1>3. connected \in BOOLEAN
    BY DEF StreamTypes
<1>4. CASE Fetch(n)
    <2>1. CASE current = None
        BY <1>2, <1>3, <1>4, <2>1 DEF Fetch, clientVars, channelVars, setApart
    <2>2. CASE current # None
        <3> DEFINE r == [Reader("read") EXCEPT !.from = current]
        <3>1. r \in ReaderRecord /\ r.from = current
            BY ReadingFrom DEF StreamTypes
        <3>2. InRange(r, Len(conns))
            BY <2>2, <3>1 DEF StreamTypes, None, InRange
        <3>3. readers' = [readers EXCEPT ![n] = r]
            BY <1>4, <2>2 DEF Fetch
        <3> HIDE DEF r
        <3> QED
            BY <1>1, <1>3, <1>4, <3>1, <3>2, <3>3 DEF Fetch, clientVars, channelVars, setApart
    <2> QED
        BY <2>1, <2>2
<1>5. CASE ReadFails(n) \/ Pong(n) \/ SendGivenUp(n)
    <2>1. PICK pc \in {"fetch", "end"} : readers' = [readers EXCEPT ![n] = Reader(pc)]
        BY <1>5 DEF ReadFails, Pong, SendGivenUp
    <2> QED
        BY <1>2, <1>3, <1>5, <2>1 DEF ReadFails, Pong, SendGivenUp, clientVars, channelVars, setApart
<1>6. CASE Disconnect(n)
    BY <1>2, <1>6 DEF Disconnect, channelVars, setApart
<1>7. CASE ReaderDone(n)
    BY <1>2, <1>3, <1>7 DEF ReaderDone, clientVars, setApart
<1>8. CASE SendOnClosed(n) \/ ReadPanics(n)
    BY <1>8 DEF SendOnClosed, ReadPanics, StreamTypes, Connections, clientVars, channelVars, setApart
<1>9. CASE SendEvent(n)
    <2>1. readers' = [readers EXCEPT ![n] = Reader("fetch")] /\ InRange(Reader("fetch"), Len(conns))
        BY <1>9, SimpleReader DEF SendEvent, StreamTypes, InRange
    <2>2. buffer' \in Seq([from: Nat, parts: Message]) /\ Len(buffer') <= Depth
        BY <1>0, <1>9, StreamAssumption DEF SendEvent, HasRoom, StreamTypes, ReaderRecord
    <2> QED
        BY <1>9, <2>1, <2>2, SimpleReader, ReaderMoves DEF SendEvent, StreamTypes, Connections, clientVars,
                                                  setApart
<1>10. CASE ReadFrame(n)
    <2> DEFINE from == readers[n].from
               frame == Head(conns[from].wire)
               o == FirstOpcode(readers[n], frame)
               p == Append(readers[n].parts, frame.data)
               read == [readers[n] EXCEPT !.op = o, !.parts = p]
               w == Tail(conns[from].wire)
               conn == [conns[from] EXCEPT !.wire = w]
    <2>1. /\ from \in Connections /\ conns[from].wire # <<>> /\ conns[from] \in ConnectionRecord
          /\ Len(conns[from].wire) <= conns[from].frames
        BY <1>10 DEF ReadFrame, StreamTypes, Connections, InRange
    <2>2. conns[from].wire \in Seq(FrameRecord) /\ conns[from].frames \in Nat
        BY <2>1 DEF ConnectionRecord
    <2>3. frame \in FrameRecord /\ w \in Seq(FrameRecord) /\ Len(w) <= conns[from].frames
        BY <2>1, <2>2
    <2>4. o \in Ops /\ p \in Message
        BY <1>0, <2>3 DEF FirstOpcode, ReaderRecord, FrameRecord, Message
    <2>5. conns' = [conns EXCEPT ![from] = conn]
        BY <1>10, <2>1 DEF ReadFrame
    <2>6. \/ readers' = [readers EXCEPT ![n] = read]
          \/ readers' = [readers EXCEPT ![n] = [read EXCEPT !.pc = After(read.op)]]
        BY <1>10 DEF ReadFrame
    <2> HIDE DEF o, p, w
    <2>7. PICK r \in ReaderRecord : readers' = [readers EXCEPT ![n] = r] /\ r.from = from
        <3>1. read \in ReaderRecord /\ read.from = from
            BY <1>0, <2>4, ReaderUpdate, ZenonT(30)
        <3>2. After(read.op) \in {"read", "fetch", "send", "pong", "end"}
            BY DEF After
        <3>3. /\ [read EXCEPT !.pc = After(read.op)] \in ReaderRecord
              /\ [read EXCEPT !.pc = After(read.op)].from = from
            <4> HIDE DEF read, from
            <4> QED
                BY <2>4, <3>1, <3>2, ReaderUpdate
        <3> DEFINE q == [read EXCEPT !.pc = After(read.op)]
        <3>4. readers' = [readers EXCEPT ![n] = read] \/ readers' = [readers EXCEPT ![n] = q]
            BY <2>6
        <3>5. q \in ReaderRecord /\ q.from = from
            BY <3>3
        <3> HIDE DEF read, q, from
        <3> QED
            BY <3>1, <3>4, <3>5
    <2>8. UNCHANGED <<clientVars, dialer, channelVars, closer, setApart>>
        BY <1>10 DEF ReadFrame
    <2>9. /\ conns' \in Seq(ConnectionRecord) /\ Len(conns') = Len(conns)
          /\ \A m \in Connections : Len(conns'[m].wire) <= conns'[m].frames
        <3>1. conn \in ConnectionRecord /\ Len(conn.wire) <= conn.frames
            BY <2>1, <2>3, WireUpdate
        <3> HIDE DEF conn
        <3> QED
            BY <2>1, <2>5, <3>1, ConnectionChanges
    <2>10. /\ readers' \in Seq(ReaderRecord) /\ Len(readers') = Len(conns)
           /\ \A m \in Connections : InRange(readers'[m], Len(conns))
        <3>1. InRange(r, Len(conns))
            BY <1>0, <2>1, <2>7 DEF InRange, Connections
        <3> QED
            BY <2>7, <3>1, ReaderMoves
    <2> HIDE DEF conn, read
    <2> QED
        BY <2>8, <2>9, <2>10 DEF StreamTypes, Connections, clientVars, channelVars, setApart
<1>11. CASE ReadTorn(n)
    <2> DEFINE from == readers[n].from
               w == Tail(conns[from].wire)
               conn == [conns[from] EXCEPT !.wire = w]
    <2>1. /\ from \in Connections /\ conns[from].wire # <<>> /\ conns[from] \in ConnectionRecord
          /\ Len(conns[from].wire) <= conns[from].frames
        BY <1>11 DEF ReadTorn, Racing, StreamTypes, Connections, InRange
    <2>2. conns[from].wire \in Seq(FrameRecord) /\ conns[from].frames \in Nat
        BY <2>1 DEF ConnectionRecord
    <2>3. w \in Seq(FrameRecord) /\ Len(w) <= conns[from].frames
        BY <2>1, <2>2
    <2>4. PICK pc \in {"read", "fetch", "send", "pong", "end"} :
            readers' = [readers EXCEPT ![n] = [readers[n] EXCEPT !.pc = pc, !.parts = <<0>>]]
        <3>1. PICK pc \in {"read", "fetch", "send", "pong", "end"} :
                readers' = [readers EXCEPT ![n].pc = pc, ![n].parts = <<0>>]
            BY <1>11 DEF ReadTorn
        <3>2. readers' = [readers EXCEPT ![n] = [readers[n] EXCEPT !.pc = pc, !.parts = <<0>>]]
            BY <3>1 DEF StreamTypes
        <3> QED
            BY <3>2
    <2> DEFINE r == [readers[n] EXCEPT !.pc = pc, !.parts = <<0>>]
    <2>5. r \in ReaderRecord /\ r.from = from
        <3>1. <<0>> \in Message
            BY DEF Message
        <3> QED
            BY <1>0, <3>1 DEF ReaderRecord
    <2>6. InRange(r, Len(conns))
        BY <1>0, <2>1, <2>5 DEF InRange, Connections
    <2>7. conns' = [conns EXCEPT ![from] = conn]
        BY <1>11, <2>1 DEF ReadTorn
    <2>8. conn \in ConnectionRecord /\ Len(conn.wire) <= conn.frames
        <3> HIDE DEF w
        <3> QED
            BY <2>1, <2>3, WireUpdate
    <2> HIDE DEF r, conn
    <2>9. /\ conns' \in Seq(ConnectionRecord) /\ Len(conns') = Len(conns)
          /\ \A m \in Connections : Len(conns'[m].wire) <= conns'[m].frames
        BY <2>1, <2>7, <2>8, ConnectionChanges
    <2>10. readers' = [readers EXCEPT ![n] = r]
        BY <2>4 DEF r
    <2>11. /\ readers' \in Seq(ReaderRecord) /\ Len(readers') = Len(conns)
           /\ \A m \in Connections : InRange(readers'[m], Len(conns))
        BY <2>5, <2>6, <2>10, ReaderMoves
    <2>12. UNCHANGED <<clientVars, dialer, channelVars, closer, setApart>>
        BY <1>11 DEF ReadTorn
    <2> QED
        BY <2>9, <2>11, <2>12 DEF StreamTypes, Connections, clientVars, channelVars, setApart
<1> QED
    BY <1>4, <1>5, <1>6, <1>7, <1>8, <1>9, <1>10, <1>11 DEF ReaderStep

\* A reader in range stays so when a connection is added.
LEMMA StillInRange ==
    ASSUME NEW r \in ReaderRecord, NEW k \in Nat, InRange(r, k)
    PROVE  InRange(r, k + 1)
BY DEF InRange, ReaderRecord

\* And a call.
LEMMA CallStillInRange ==
    ASSUME NEW call \in CallRecord, NEW k \in Nat, CallInRange(call, k)
    PROVE  CallInRange(call, k + 1)
BY DEF CallInRange, CallRecord

\* A call that moves.
LEMMA CallMoves ==
    ASSUME NEW d \in Dialers, NEW call \in CallRecord, NEW k \in Nat, CallInRange(call, k),
           dialer \in [Dialers -> CallRecord],
           \A e \in Dialers : CallInRange(dialer[e], k),
           dialer' = [dialer EXCEPT ![d] = call]
    PROVE  /\ dialer' \in [Dialers -> CallRecord]
           /\ \A e \in Dialers : CallInRange(dialer'[e], k)
<1>1. dialer' \in [Dialers -> CallRecord]
    OBVIOUS
<1>2. \A e \in Dialers : dialer'[e] = IF e = d THEN call ELSE dialer[e]
    OBVIOUS
<1> QED
    BY <1>1, <1>2

\* ConnectWebSocket adds a connection and its reader: the types stand.
LEMMA TypesOfDialer ==
    ASSUME StreamTypes, NEW d \in Dialers,
           StartDial(d) \/ DialFails(d) \/ DialSucceeds(d) \/ StartReader(d)
    PROVE  StreamTypes'
<1>0. /\ Len(conns) \in Nat
      /\ dialer \in [Dialers -> CallRecord] /\ \A e \in Dialers : CallInRange(dialer[e], Len(conns))
    BY DEF StreamTypes
<1>1. CASE StartDial(d) \/ DialFails(d)
    <2> DEFINE call == IF StartDial(d) THEN [pc |-> "dial", looked |-> Len(conns), conn |-> None]
                       ELSE NoCall
    <2>1. call \in CallRecord /\ CallInRange(call, Len(conns))
        BY <1>0 DEF CallRecord, CallInRange, NoCall, None
    <2>2. dialer' = [dialer EXCEPT ![d] = call]
        BY <1>1 DEF StartDial, DialFails
    <2> HIDE DEF call
    <2>3. /\ dialer' \in [Dialers -> CallRecord]
          /\ \A e \in Dialers : CallInRange(dialer'[e], Len(conns))
        BY <1>0, <2>1, <2>2, CallMoves
    <2>4. UNCHANGED <<closed, connected, current, conns, readers, buffer, closer, crossed>>
        BY <1>1 DEF StartDial, DialFails, clientVars, channelVars, setApart
    <2> QED
        BY <2>3, <2>4 DEF StreamTypes, Connections
<1>2. CASE DialSucceeds(d)
    <2> DEFINE new == NewConnection
               k == Len(conns)
    <2>1. new \in ConnectionRecord /\ Len(new.wire) <= new.frames
        BY DEF NewConnection, ConnectionRecord, Message
    <2>2. Reader("none") \in ReaderRecord /\ Reader("none").from = 0 /\ Reader("none").pc # "read"
        BY SimpleReader
    <2>3. conns' = Append(conns, new) /\ readers' = Append(readers, Reader("none"))
        BY <1>2 DEF DialSucceeds
    <2> HIDE DEF new
    <2>4. k \in Nat /\ k < MaxConnects /\ MaxConnects \in Nat
        BY <1>2, StreamAssumption DEF DialSucceeds, StreamTypes
    <2>5. /\ conns' \in Seq(ConnectionRecord) /\ Len(conns') = k + 1
          /\ \A n \in 1 .. k : conns'[n] = conns[n]
          /\ conns'[k + 1] = new
        BY <2>1, <2>3 DEF StreamTypes
    <2>6. /\ readers' \in Seq(ReaderRecord) /\ Len(readers') = k + 1
          /\ \A n \in 1 .. k : readers'[n] = readers[n]
          /\ readers'[k + 1] = Reader("none")
        BY <2>2, <2>3 DEF StreamTypes
    <2>7. \A n \in 1 .. k + 1 : Len(conns'[n].wire) <= conns'[n].frames
        <3>1. \A n \in 1 .. k : Len(conns[n].wire) <= conns[n].frames
            BY DEF StreamTypes, Connections
        <3>2. \A n \in 1 .. k + 1 : n \in 1 .. k \/ n = k + 1
            BY <2>4
        <3> QED
            BY <2>1, <2>5, <3>1, <3>2
    <2>8. \A n \in 1 .. k + 1 : InRange(readers'[n], k + 1)
        <3>1. \A n \in 1 .. k : InRange(readers[n], k) /\ readers[n] \in ReaderRecord
            BY DEF StreamTypes, Connections
        <3>2. \A n \in 1 .. k + 1 : n \in 1 .. k \/ n = k + 1
            BY <2>4
        <3>3. InRange(Reader("none"), k + 1)
            BY <2>2, <2>4 DEF InRange
        <3>4. \A n \in 1 .. k : InRange(readers[n], k + 1)
            BY <2>4, <3>1, StillInRange
        <3> QED
            BY <2>6, <3>2, <3>3, <3>4
    <2>9. /\ current' = k + 1 /\ connected' = TRUE
          /\ UNCHANGED <<closed, buffer, closer>>
        BY <1>2, <2>4, <2>5 DEF DialSucceeds, channelVars
    <2>10. Connections' = 1 .. k + 1 /\ k + 1 <= MaxConnects /\ k + 1 \in 0 .. Len(conns')
        BY <2>4, <2>5 DEF Connections
    <2>11. closed' \in BOOLEAN /\ connected' \in BOOLEAN /\ current' \in 0 .. Len(conns')
        BY <2>9, <2>10 DEF StreamTypes
    <2>12. /\ buffer' \in Seq([from: Nat, parts: Message]) /\ Len(buffer') <= Depth
           /\ closer' \in [pc: {"idle", "cut", "wait", "returned"}, conn: Nat]
           /\ closer'.conn <= k + 1
        BY <2>4, <2>9 DEF StreamTypes
    <2>13. /\ dialer' \in [Dialers -> CallRecord]
           /\ \A e \in Dialers : CallInRange(dialer'[e], k + 1)
        <3> DEFINE call == [pc |-> "start", looked |-> 0, conn |-> k + 1]
        <3>1. call \in CallRecord /\ CallInRange(call, k + 1)
            BY <2>4 DEF CallRecord, CallInRange
        <3>2. dialer' = [dialer EXCEPT ![d] = call]
            BY <1>2, <2>5 DEF DialSucceeds
        <3> HIDE DEF call
        <3>3. \A e \in Dialers : dialer[e] \in CallRecord /\ CallInRange(dialer[e], k)
            BY <1>0
        <3>4. \A e \in Dialers : CallInRange(dialer[e], k + 1)
            <4> HIDE DEF k
            <4> QED
                BY <2>4, <3>3, CallStillInRange
        <3>5. k + 1 \in Nat
            BY <2>4
        <3> HIDE DEF k
        <3> QED
            BY <1>0, <3>1, <3>2, <3>4, <3>5, CallMoves
    <2>14. \A n \in Connections' : InRange(readers'[n], Len(conns'))
        BY <2>5, <2>8, <2>10
    <2>15. \A n \in Connections' : Len(conns'[n].wire) <= conns'[n].frames
        BY <2>7, <2>10
    <2>16. crossed' \in BOOLEAN
        BY <1>2 DEF DialSucceeds, StreamTypes
    <2>17. /\ Len(readers') = Len(conns') /\ Len(conns') <= MaxConnects
           /\ closer'.conn <= Len(conns')
        BY <2>5, <2>6, <2>10, <2>12
    <2>18. \A e \in Dialers : CallInRange(dialer'[e], Len(conns'))
        BY <2>5, <2>13
    <2> QED
        BY <2>5, <2>6, <2>11, <2>12, <2>13, <2>14, <2>15, <2>16, <2>17, <2>18 DEF StreamTypes
<1>3. CASE StartReader(d)
    <2> DEFINE n == dialer[d].conn
    <2>1. n \in Connections /\ InRange(Reader("fetch"), Len(conns))
        BY <1>0, <1>3, SimpleReader DEF StartReader, Connections, InRange, CallInRange
    <2>2. readers' = [readers EXCEPT ![n] = Reader("fetch")]
        BY <1>3 DEF StartReader
    <2>3. NoCall \in CallRecord /\ CallInRange(NoCall, Len(conns))
        BY <1>0 DEF CallRecord, CallInRange, NoCall, None
    <2>4. dialer' = [dialer EXCEPT ![d] = NoCall]
        BY <1>3 DEF StartReader
    <2>5. /\ dialer' \in [Dialers -> CallRecord]
          /\ \A e \in Dialers : CallInRange(dialer'[e], Len(conns))
        BY <1>0, <2>3, <2>4, CallMoves
    <2> HIDE DEF n
    <2>6. /\ readers' \in Seq(ReaderRecord) /\ Len(readers') = Len(conns)
          /\ \A m \in Connections : InRange(readers'[m], Len(conns))
        BY <2>1, <2>2, SimpleReader, ReaderMoves
    <2>7. UNCHANGED <<closed, connected, current, conns, buffer, closer, crossed>>
        BY <1>3 DEF StartReader, clientVars, channelVars, setApart
    <2> QED
        BY <2>5, <2>6, <2>7 DEF StreamTypes, Connections
<1> QED
    BY <1>1, <1>2, <1>3

\* The consumer and Close: the types stand.
LEMMA TypesOfEnds ==
    ASSUME StreamTypes, ConsumerStep \/ StopReading \/ TakeConnection \/ CloseStep
    PROVE  StreamTypes'
<1>1. CASE ConsumerStep \/ StopReading
    <2>1. buffer' \in Seq([from: Nat, parts: Message]) /\ Len(buffer') <= Depth
        <3>1. buffer \in Seq([from: Nat, parts: Message]) /\ Len(buffer) <= Depth
            BY DEF StreamTypes
        <3>2. UNCHANGED buffer \/ (buffer # <<>> /\ buffer' = Tail(buffer))
            BY <1>1 DEF ConsumerStep, Receive, SeeEnd, StopReading, channelVars
        <3> QED
            BY <3>1, <3>2, StreamAssumption, SMTT(30)
    <2> QED
        BY <1>1, <2>1 DEF ConsumerStep, Receive, SeeEnd, StopReading, StreamTypes, Connections,
                          clientVars, setApart
<1>2. CASE TakeConnection
    <2>1. /\ UNCHANGED <<conns, readers, dialer, buffer, crossed>>
          /\ closed' = TRUE /\ connected' = FALSE /\ current' = 0
          /\ closer' = [pc |-> "cut", conn |-> current]
        BY <1>2 DEF TakeConnection, channelVars, setApart, None
    <2>2. /\ closer' \in [pc: {"idle", "cut", "wait", "returned"}, conn: Nat]
          /\ closer'.conn <= Len(conns)
        BY <2>1 DEF StreamTypes
    <2>3. 0 \in 0 .. Len(conns)
        BY DEF StreamTypes
    <2> QED
        BY <2>1, <2>2, <2>3 DEF StreamTypes, Connections
<1>3. CASE CloseConnection
    <2>1. CASE closer.conn = None
        BY <1>3, <2>1 DEF CloseConnection, CutConnection, StreamTypes, Connections, clientVars,
                          channelVars, setApart
    <2>2. CASE closer.conn # None
        <3> DEFINE n == closer.conn
                   conn == [conns[n] EXCEPT !.cut = TRUE]
        <3>1. n \in Connections
            BY <2>2 DEF StreamTypes, Connections, None
        <3>2. conns[n] \in ConnectionRecord /\ Len(conns[n].wire) <= conns[n].frames
            BY <3>1 DEF StreamTypes, Connections
        <3>3. conn \in ConnectionRecord /\ Len(conn.wire) <= conn.frames
            BY <3>2 DEF ConnectionRecord
        <3>4. conns' = [conns EXCEPT ![n] = conn]
            BY <1>3, <2>2 DEF CloseConnection, CutConnection
        <3> HIDE DEF conn
        <3>5. /\ conns' \in Seq(ConnectionRecord) /\ Len(conns') = Len(conns)
              /\ \A m \in Connections : Len(conns'[m].wire) <= conns'[m].frames
            BY <3>1, <3>3, <3>4, ConnectionChanges
        <3>6. /\ UNCHANGED <<closed, connected, current, readers, dialer, buffer, crossed>>
              /\ closer' = [closer EXCEPT !.pc = "wait"]
            BY <1>3 DEF CloseConnection, clientVars, channelVars, setApart
        <3>7. /\ closer' \in [pc: {"idle", "cut", "wait", "returned"}, conn: Nat]
              /\ closer'.conn = closer.conn
            BY <3>6 DEF StreamTypes
        <3>9. Connections' = Connections
            BY <3>5 DEF Connections
        <3> QED
            BY <3>5, <3>6, <3>7, <3>9 DEF StreamTypes
    <2> QED
        BY <2>1, <2>2
<1>4. CASE CloseReturns
    BY <1>4 DEF CloseReturns, StreamTypes, Connections, clientVars, setApart
<1> QED
    BY <1>1, <1>2, <1>3, <1>4 DEF CloseStep

\* Every step keeps the types.
LEMMA StreamTypesStep == StreamTypes /\ [Next]_vars => StreamTypes'
<1> SUFFICES ASSUME StreamTypes, [Next]_vars PROVE StreamTypes'
    OBVIOUS
<1>1. CASE UNCHANGED vars
    BY <1>1 DEF vars, clientVars, channelVars, setApart, StreamTypes, Connections
<1> QED
    BY <1>1, TypesOfGateway, TypesOfReader, TypesOfDialer, TypesOfEnds DEF Next

(***************************************************************************)
(* The types of the stream, for all values of the constants.               *)
(***************************************************************************)
THEOREM StreamTypesHold == Spec => []StreamTypes
<1>1. Init => StreamTypes
    <2> SUFFICES ASSUME Init PROVE StreamTypes
        OBVIOUS
    <2>1. conns = <<>> /\ readers = <<>> /\ Len(conns) = 0 /\ Len(readers) = 0 /\ Connections = {}
        BY DEF Init, Connections
    <2>2. conns \in Seq(ConnectionRecord) /\ readers \in Seq(ReaderRecord)
        BY <2>1
    <2>3. buffer \in Seq([from: Nat, parts: Message]) /\ Len(buffer) <= Depth
        BY StreamAssumption DEF Init
    <2>4. /\ closer \in [pc: {"idle", "cut", "wait", "returned"}, conn: Nat]
          /\ closer.conn <= 0 /\ MaxConnects >= 0
        BY StreamAssumption DEF Init, None
    <2>5. closed \in BOOLEAN /\ connected \in BOOLEAN
        BY Zenon DEF Init
    <2>6. current \in 0 .. 0 /\ crossed = FALSE
        BY DEF Init, None
    <2>7. dialer \in [Dialers -> CallRecord] /\ \A d \in Dialers : CallInRange(dialer[d], 0)
        <3>1. NoCall \in CallRecord /\ CallInRange(NoCall, 0)
            BY DEF CallRecord, CallInRange, NoCall, None
        <3>2. dialer = [d \in Dialers |-> NoCall]
            BY DEF Init
        <3> QED
            BY <3>1, <3>2
    <2> QED
        BY <2>1, <2>2, <2>3, <2>4, <2>5, <2>6, <2>7, StreamAssumption DEF StreamTypes
<1> QED
    BY <1>1, StreamTypesStep, PTL DEF Spec

(***************************************************************************)
(* The channel never holds more than its places, no connection or reader   *)
(* is out of range: StreamTypeOK for all values of the constants.          *)
(***************************************************************************)
THEOREM StreamTypesOfSpec == Spec => []StreamTypeOK
BY StreamTypesHold, StreamTypesSuffice, PTL

----------------------------------------------------------------------------
(***************************************************************************)
(* What the steps leave alone.                                             *)
(***************************************************************************)
LEMMA GatewayKeeps ==
    ASSUME StreamTypes, NEW n \in Connections, GatewayStep(n)
    PROVE  /\ UNCHANGED <<closed, connected, current, dialer, readers, closer, setApart>>
           /\ Len(conns') = Len(conns)
           /\ \A m \in Connections : conns[m].cut => conns'[m].cut
<1>0. conns \in Seq(ConnectionRecord) /\ conns[n] \in ConnectionRecord
    BY DEF StreamTypes, Connections
<1>1. ASSUME NEW conn, conns' = [conns EXCEPT ![n] = conn], conns[n].cut => conn.cut
      PROVE  /\ Len(conns') = Len(conns)
             /\ \A m \in Connections : conns[m].cut => conns'[m].cut
    BY <1>0, <1>1 DEF Connections
<1>2. ASSUME NEW frame, NEW conn \in ConnectionRecord, conn.cut = conns[n].cut,
             GatewaySends(n, frame, conn)
      PROVE  /\ UNCHANGED <<closed, connected, current, dialer, readers, closer, setApart>>
             /\ Len(conns') = Len(conns)
             /\ \A m \in Connections : conns[m].cut => conns'[m].cut
    <2> DEFINE w == Append(conn.wire, frame)
               k == conn.frames + 1
               new == [conn EXCEPT !.wire = w, !.frames = k]
    <2>1. conns' = [conns EXCEPT ![n] = new]
        BY <1>2 DEF GatewaySends
    <2>2. new.cut = conns[n].cut
        BY <1>2 DEF ConnectionRecord
    <2> HIDE DEF new
    <2>3. /\ Len(conns') = Len(conns)
          /\ \A m \in Connections : conns[m].cut => conns'[m].cut
        BY <1>1, <2>1, <2>2
    <2>4. UNCHANGED <<closed, connected, current, dialer, readers, closer, setApart>>
        BY <1>2 DEF GatewaySends, clientVars
    <2> QED
        BY <2>3, <2>4
<1>3. CASE SendMessage(n)
    <2> DEFINE data == Len(conns[n].sent) + 1
               message == Append(conns[n].open, data)
               s == Append(conns[n].sent, message)
               op == IF conns[n].open = <<>> THEN "text" ELSE "continuation"
    <2>1. data \in Nat /\ conns[n].open \in Message /\ conns[n].sent \in Seq(Message)
        BY <1>0 DEF ConnectionRecord
    <2>2. message \in Message /\ <<>> \in Message
        BY <2>1 DEF Message
    <2>3. s \in Seq(Message)
        BY <2>1, <2>2
    <2>4. \/ GatewaySends(n, Frame(op, TRUE, data), [conns[n] EXCEPT !.open = <<>>, !.sent = s])
          \/ GatewaySends(n, Frame(op, FALSE, data), [conns[n] EXCEPT !.open = message])
        BY <1>3 DEF SendMessage
    <2> HIDE DEF data, message, s, op
    <2>5. /\ [conns[n] EXCEPT !.open = <<>>, !.sent = s].cut = conns[n].cut
          /\ [conns[n] EXCEPT !.open = message].cut = conns[n].cut
        BY <1>0, <2>2, <2>3 DEF ConnectionRecord
    <2> QED
        BY <1>0, <1>2, <2>2, <2>3, <2>4, <2>5, MessageUpdate
<1>4. ASSUME NEW op \in {"ping", "pong", "close"}, SendControl(n, op)
      PROVE  /\ UNCHANGED <<closed, connected, current, dialer, readers, closer, setApart>>
             /\ Len(conns') = Len(conns)
             /\ \A m \in Connections : conns[m].cut => conns'[m].cut
    <2> DEFINE x == conns[n].split \cup {Len(conns[n].sent) + 1}
    <2>1. x \in SUBSET Nat
        BY <1>0 DEF ConnectionRecord
    <2>2. GatewaySends(n, Frame(op, TRUE, 0),
                       IF conns[n].open = <<>> THEN conns[n] ELSE [conns[n] EXCEPT !.split = x])
        BY <1>4 DEF SendControl
    <2> HIDE DEF x
    <2>3. CASE conns[n].open = <<>>
        BY <1>0, <1>2, <2>2, <2>3
    <2>4. CASE conns[n].open # <<>>
        <3>1. GatewaySends(n, Frame(op, TRUE, 0), [conns[n] EXCEPT !.split = x])
            BY <2>2, <2>4
        <3> QED
            BY <1>0, <1>2, <2>1, <3>1, SplitUpdate
    <2> QED
        BY <2>3, <2>4
<1>5. ASSUME GatewayEnds(n) \/ ContextEnds(n)
      PROVE  /\ UNCHANGED <<closed, connected, current, dialer, readers, closer, setApart>>
             /\ Len(conns') = Len(conns)
             /\ \A m \in Connections : conns[m].cut => conns'[m].cut
    <2>1. \/ conns' = [conns EXCEPT ![n] = [conns[n] EXCEPT !.gone = TRUE]]
          \/ conns' = [conns EXCEPT ![n] = [conns[n] EXCEPT !.expired = TRUE]]
        BY <1>0, <1>5 DEF GatewayEnds, ContextEnds
    <2>2. /\ [conns[n] EXCEPT !.gone = TRUE].cut = conns[n].cut
          /\ [conns[n] EXCEPT !.expired = TRUE].cut = conns[n].cut
        BY <1>0 DEF ConnectionRecord
    <2>3. UNCHANGED <<closed, connected, current, dialer, readers, closer, setApart>>
        BY <1>5 DEF GatewayEnds, ContextEnds, clientVars
    <2> QED
        BY <1>1, <2>1, <2>2, <2>3
<1> QED
    BY <1>0, <1>2, <1>3, <1>4, <1>5 DEF GatewayStep

\* A reader that may come to the current connection before it is done.
Active(n) == Reading(n) \/ readers[n].pc = "end"

\* A reader changes itself only, and wsConnected when it ends.
LEMMA ReaderKeeps ==
    ASSUME StreamTypes, NEW n \in Connections, ReaderStep(n)
    PROVE  /\ UNCHANGED <<closed, current, dialer, closer, setApart>>
           /\ Len(conns') = Len(conns)
           /\ \A m \in Connections : conns[m].cut => conns'[m].cut
           /\ \A m \in Connections \ {n} : readers'[m] = readers[m]
           /\ readers'[n].pc # "none"
           /\ Active(n)' => Active(n) /\ UNCHANGED connected
           /\ connected' = connected \/ Active(n)
           /\ current = None /\ readers'[n].pc \in {"read", "pong", "send"} =>
                  readers[n].pc \in {"read", "pong", "send"}
<1>0. /\ conns \in Seq(ConnectionRecord) /\ readers \in Seq(ReaderRecord)
      /\ n \in 1 .. Len(readers) /\ Connections = 1 .. Len(readers)
    BY DEF StreamTypes, Connections
<1> USE DEF Active, Reading
<1>1. ASSUME NEW r, readers' = [readers EXCEPT ![n] = r]
      PROVE  readers'[n] = r /\ \A m \in Connections \ {n} : readers'[m] = readers[m]
    BY <1>0, <1>1
<1>2. CASE ReadFrame(n)
    <2> DEFINE from == readers[n].from
               frame == Head(conns[from].wire)
               read == [readers[n] EXCEPT !.op = FirstOpcode(readers[n], frame),
                                          !.parts = Append(@, frame.data)]
               w == Tail(conns[from].wire)
               conn == [conns[from] EXCEPT !.wire = w]
    <2>1. /\ readers[n] \in ReaderRecord /\ readers[n].pc = "read"
          /\ from \in Connections /\ conns[from] \in ConnectionRecord
        BY <1>0, <1>2 DEF ReadFrame, StreamTypes, InRange, Connections
    <2>2. conns' = [conns EXCEPT ![from] = conn]
        BY <1>2 DEF ReadFrame
    <2>3. conn.cut = conns[from].cut
        BY <2>1 DEF ConnectionRecord
    <2>4. \/ readers' = [readers EXCEPT ![n] = read]
          \/ readers' = [readers EXCEPT ![n] = [read EXCEPT !.pc = After(read.op)]]
        BY <1>2 DEF ReadFrame
    <2>5. /\ read.pc = "read"
          /\ [read EXCEPT !.pc = After(read.op)].pc \in {"fetch", "send", "pong", "end"}
        BY <2>1 DEF After, ReaderRecord
    <2>6. UNCHANGED <<closed, connected, current, dialer, closer, setApart>>
        BY <1>2 DEF ReadFrame, clientVars
    <2> HIDE DEF conn, read
    <2>7. Len(conns') = Len(conns) /\ \A m \in Connections : conns[m].cut => conns'[m].cut
        BY <1>0, <2>1, <2>2, <2>3
    <2>8. readers'[n].pc \in {"read", "fetch", "send", "pong", "end"}
        BY <1>1, <2>4, <2>5
    <2>9. \A m \in Connections \ {n} : readers'[m] = readers[m]
        BY <1>1, <2>4
    <2> QED
        BY <2>1, <2>6, <2>7, <2>8, <2>9
<1>3. CASE Fetch(n)
    <2>1. [Reader("read") EXCEPT !.from = current].pc = "read"
        BY DEF Reader
    <2>2. /\ current = None => readers' = [readers EXCEPT ![n] = Reader("end")]
          /\ current # None => readers' = [readers EXCEPT ![n] = [Reader("read") EXCEPT !.from = current]]
          /\ readers[n].pc = "fetch"
        BY <1>3 DEF Fetch
    <2>3. UNCHANGED <<closed, connected, current, dialer, conns, closer, setApart>>
        BY <1>3 DEF Fetch, clientVars
    <2> QED
        BY <1>1, <2>1, <2>2, <2>3, SimpleReader
<1>4. CASE SendOnClosed(n) \/ ReadPanics(n)
    <2>1. readers[n].pc \in {"send", "read"}
        BY <1>4 DEF SendOnClosed, ReadPanics, Racing
    <2>2. UNCHANGED <<closed, connected, current, dialer, conns, readers, closer, setApart>>
        BY <1>4 DEF SendOnClosed, ReadPanics, clientVars
    <2> QED
        BY <2>1, <2>2
<1>5. CASE ReadFails(n) \/ Pong(n) \/ SendEvent(n) \/ SendGivenUp(n)
    <2>1. PICK pc \in {"fetch", "end"} : readers' = [readers EXCEPT ![n] = Reader(pc)]
        BY <1>5 DEF ReadFails, Pong, SendEvent, SendGivenUp
    <2>2. /\ UNCHANGED <<closed, connected, current, dialer, conns, closer, setApart>>
          /\ readers[n].pc \in {"read", "pong", "send"}
        BY <1>5 DEF ReadFails, Pong, SendEvent, SendGivenUp, clientVars
    <2> QED
        BY <1>1, <2>1, <2>2, SimpleReader
<1>6. CASE Disconnect(n)
    BY <1>1, <1>6, SimpleReader DEF Disconnect
<1>7. CASE ReaderDone(n)
    BY <1>1, <1>7, SimpleReader DEF ReaderDone, clientVars
<1>8. CASE ReadTorn(n)
    <2> DEFINE from == readers[n].from
               conn == [conns[from] EXCEPT !.wire = Tail(@)]
    <2>1. /\ readers[n] \in ReaderRecord /\ readers[n].pc = "read"
          /\ from \in Connections /\ conns[from] \in ConnectionRecord
        BY <1>0, <1>8 DEF ReadTorn, Racing, StreamTypes, InRange, Connections
    <2>2. conns' = [conns EXCEPT ![from] = conn]
        BY <1>8 DEF ReadTorn
    <2>3. conn.cut = conns[from].cut
        BY <2>1 DEF ConnectionRecord
    <2>4. PICK pc \in {"read", "fetch", "send", "pong", "end"} :
            readers' = [readers EXCEPT ![n].pc = pc, ![n].parts = <<0>>]
        BY <1>8 DEF ReadTorn
    <2> DEFINE r == [readers[n] EXCEPT !.pc = pc, !.parts = <<0>>]
    <2>5. r.pc = pc
        BY <2>1 DEF ReaderRecord
    <2>6. readers' = [readers EXCEPT ![n] = r]
        BY <1>0, <2>4
    <2>7. UNCHANGED <<closed, connected, current, dialer, closer, setApart>>
        BY <1>8 DEF ReadTorn, clientVars
    <2> HIDE DEF conn, r
    <2>8. Len(conns') = Len(conns) /\ \A m \in Connections : conns[m].cut => conns'[m].cut
        BY <1>0, <2>1, <2>2, <2>3
    <2>9. readers'[n].pc \in {"read", "fetch", "send", "pong", "end"}
        BY <1>1, <2>5, <2>6
    <2>10. \A m \in Connections \ {n} : readers'[m] = readers[m]
        BY <1>1, <2>6
    <2> QED
        BY <2>1, <2>7, <2>8, <2>9, <2>10
<1> QED
    BY <1>2, <1>3, <1>4, <1>5, <1>6, <1>7, <1>8 DEF ReaderStep

\* What ConnectWebSocket may do: begin or give up, store a connection, start its reader.
LEMMA DialerKeeps ==
    ASSUME StreamTypes, NEW d \in Dialers,
           StartDial(d) \/ DialFails(d) \/ DialSucceeds(d) \/ StartReader(d)
    PROVE  /\ UNCHANGED <<closed, closer>>
           /\ \A e \in Dialers \ {d} : dialer'[e] = dialer[e]
           /\ \/ /\ UNCHANGED <<readers, conns, current, connected, late, crossed>>
                 /\ dialer'[d].pc # "start"
                 /\ dialer'[d].pc = "dial" => ~closed /\ ~connected
              \/ /\ dialer[d].pc = "dial" /\ connected'
                 /\ dialer'[d].pc = "start" /\ dialer'[d].conn = Len(conns')
                 /\ readers' = Append(readers, Reader("none"))
                 /\ conns' = Append(conns, NewConnection)
                 /\ current' = Len(conns')
                 /\ late' = IF closed THEN late \cup {Len(conns')} ELSE late
                 /\ ~crossed' => ~crossed /\ dialer[d].looked = Len(conns)
              \/ /\ dialer[d].pc = "start" /\ dialer'[d].pc = "idle"
                 /\ UNCHANGED <<conns, current, connected, late, crossed>>
                 /\ dialer[d].conn \in Connections
                 /\ readers' = [readers EXCEPT ![dialer[d].conn] = Reader("fetch")]
<1>0. dialer \in [Dialers -> CallRecord] /\ CallInRange(dialer[d], Len(conns))
    BY DEF StreamTypes
<1>1. ASSUME NEW call, dialer' = [dialer EXCEPT ![d] = call]
      PROVE  dialer'[d] = call /\ \A e \in Dialers \ {d} : dialer'[e] = dialer[e]
    BY <1>0, <1>1
<1>2. CASE StartDial(d)
    <2> DEFINE call == [pc |-> "dial", looked |-> Len(conns), conn |-> None]
    <2>1. dialer' = [dialer EXCEPT ![d] = call] /\ call.pc = "dial"
        BY <1>2 DEF StartDial
    <2>2. UNCHANGED <<closed, closer, readers, conns, current, connected, late, crossed>>
          /\ ~closed /\ ~connected
        BY <1>2 DEF StartDial, MayDial, clientVars, setApart
    <2> QED
        BY <1>1, <2>1, <2>2
<1>3. CASE DialFails(d)
    <2>1. dialer' = [dialer EXCEPT ![d] = NoCall] /\ NoCall.pc = "idle"
        BY <1>3 DEF DialFails, NoCall
    <2>2. UNCHANGED <<closed, closer, readers, conns, current, connected, late, crossed>>
        BY <1>3 DEF DialFails, clientVars, setApart
    <2>3. dialer'[d] = NoCall /\ \A e \in Dialers \ {d} : dialer'[e] = dialer[e]
        BY <1>1, <2>1
    <2> HIDE DEF NoCall
    <2> QED
        BY <2>1, <2>2, <2>3
<1>4. CASE DialSucceeds(d)
    <2> DEFINE call == [pc |-> "start", looked |-> 0, conn |-> Len(conns')]
    <2>1. dialer' = [dialer EXCEPT ![d] = call] /\ call.pc = "start" /\ call.conn = Len(conns')
        BY <1>4 DEF DialSucceeds
    <2>2. dialer'[d] = call /\ \A e \in Dialers \ {d} : dialer'[e] = dialer[e]
        BY <1>1, <2>1
    <2> HIDE DEF call
    <2> QED
        BY <1>4, <2>1, <2>2 DEF DialSucceeds
<1>5. CASE StartReader(d)
    BY <1>0, <1>1, <1>5 DEF StartReader, NoCall, clientVars, setApart, CallInRange, Connections
<1> QED
    BY <1>2, <1>3, <1>4, <1>5

\* The consumer and Close leave the readers and the dialers alone.
LEMMA EndsKeep ==
    ASSUME StreamTypes, ConsumerStep \/ StopReading \/ TakeConnection \/ CloseStep
    PROVE  UNCHANGED <<readers, dialer, late, crossed>> /\ Len(conns') = Len(conns)
<1>1. UNCHANGED <<readers, dialer, late, crossed>>
    BY DEF ConsumerStep, Receive, SeeEnd, StopReading, TakeConnection, CloseStep, CloseConnection,
           CloseReturns, setApart
<1>2. UNCHANGED conns \/ conns' = CutConnection
    BY DEF ConsumerStep, Receive, SeeEnd, StopReading, TakeConnection, CloseStep, CloseConnection,
           CloseReturns
<1> QED
    BY <1>1, <1>2 DEF CutConnection, StreamTypes

(***************************************************************************)
(* OneReader is not inductive: it does not say why a dial finds no reader  *)
(* left.  A reader at work shows in wsConnected until Close or the reader  *)
(* itself clears it, and it clears it after its last message; while a      *)
(* reader is about to start nobody is at work, nor while a call dials that *)
(* looked when the connections were those of now.  A call that looked      *)
(* before would cross another.                                             *)
(***************************************************************************)
Starting(d) == dialer[d].pc = "start"

Uncrossed ==
    /\ \A m, n \in Connections : Active(m) /\ Active(n) => m = n
    /\ \A n \in Connections : Active(n) => connected \/ closed
    /\ \A d \in Dialers : Starting(d) =>
        /\ connected \/ closed
        /\ dialer[d].conn = Len(conns)
        /\ \A n \in Connections : ~Active(n)
        /\ \A e \in Dialers : Starting(e) => e = d
    /\ \A d \in Dialers : dialer[d].pc = "dial" /\ dialer[d].looked = Len(conns) =>
        /\ \A n \in Connections : ~Active(n)
        /\ \A e \in Dialers : ~Starting(e)

OneActive == ~crossed => Uncrossed

\* One active reader at most is one reading at most.
LEMMA OneActiveSuffices == OneActive => OneReader
<1> SUFFICES ASSUME Uncrossed PROVE Cardinality({n \in Connections : Reading(n)}) <= 1
    BY DEF OneReader, OneActive
<1> DEFINE R == {n \in Connections : Reading(n)}
<1>1. CASE R = {}
    BY <1>1, FS_EmptySet
<1>2. ASSUME NEW n \in R PROVE Cardinality(R) <= 1
    <2>1. R = {n}
        BY <1>2 DEF Uncrossed, Active
    <2> HIDE DEF R
    <2>2. Cardinality({n}) = 1
        BY FS_Singleton
    <2> QED
        BY <2>1, <2>2
<1> QED
    BY <1>1, <1>2

\* No step makes a second reader active, unless calls cross.
LEMMA OneActiveStep == StreamTypes /\ OneActive /\ [Next]_vars => OneActive'
<1> SUFFICES ASSUME StreamTypes, OneActive, [Next]_vars, ~crossed' PROVE Uncrossed'
    BY DEF OneActive
<1>0. /\ readers \in Seq(ReaderRecord) /\ Len(readers) = Len(conns) /\ Len(conns) \in Nat
      /\ Connections = 1 .. Len(conns)
    BY DEF StreamTypes, Connections
<1>1. ASSUME Uncrossed, UNCHANGED <<readers, dialer>>, Len(conns') = Len(conns),
             UNCHANGED <<connected, closed>> \/ closed'
      PROVE  Uncrossed'
    BY <1>1 DEF Uncrossed, Active, Reading, Starting, Connections
<1>2. ASSUME NEW n \in Connections, GatewayStep(n) PROVE Uncrossed'
    BY <1>1, <1>2, GatewayKeeps DEF OneActive, setApart
<1>3. ASSUME NEW n \in Connections, ReaderStep(n) PROVE Uncrossed'
    <2>0. Uncrossed
        BY <1>3, ReaderKeeps DEF OneActive, setApart
    <2>1. /\ UNCHANGED <<closed, dialer>> /\ Connections' = Connections /\ Len(conns') = Len(conns)
          /\ connected' = connected \/ Active(n)
          /\ Active(n)' => Active(n) /\ UNCHANGED connected
        BY <1>3, ReaderKeeps DEF Connections
    <2>2. \A m \in Connections \ {n} : Active(m)' = Active(m)
        BY <1>3, ReaderKeeps DEF Active, Reading
    <2> HIDE DEF Active
    <2>3. \A m \in Connections : Active(m)' => Active(m)
        BY <2>1, <2>2
    <2>4. \A m \in Connections : Active(m)' => connected' \/ closed'
        <3> SUFFICES ASSUME NEW m \in Connections, Active(m)' PROVE connected' \/ closed'
            OBVIOUS
        <3>1. Active(m) /\ (m = n => UNCHANGED connected)
            BY <2>1, <2>3
        <3>2. m # n => ~Active(n)
            BY <2>0, <3>1 DEF Uncrossed
        <3>3. UNCHANGED connected
            BY <2>1, <3>1, <3>2
        <3> QED
            BY <2>0, <2>1, <3>1, <3>3 DEF Uncrossed
    <2>5. \A d \in Dialers : Starting(d)' = Starting(d)
        BY <2>1 DEF Starting
    <2>6. \A d \in Dialers : Starting(d) => connected' = connected
        BY <2>0, <2>1 DEF Uncrossed
    <2> HIDE DEF Starting
    <2> QED
        BY <2>0, <2>1, <2>3, <2>4, <2>5, <2>6 DEF Uncrossed
<1>4. ASSUME NEW d \in Dialers, StartDial(d) \/ DialFails(d) \/ DialSucceeds(d) \/ StartReader(d)
      PROVE  Uncrossed'
    <2>0. /\ Uncrossed /\ UNCHANGED closed
          /\ \A e \in Dialers \ {d} : dialer'[e] = dialer[e] /\ Starting(e)' = Starting(e)
        BY <1>4, DialerKeeps DEF OneActive, Starting
    <2>1. CASE /\ UNCHANGED <<readers, conns, connected>> /\ dialer'[d].pc # "start"
               /\ dialer'[d].pc = "dial" => ~closed /\ ~connected
        <3>1. Connections' = Connections /\ \A n \in Connections : Active(n)' = Active(n)
            BY <2>1 DEF Active, Reading, Connections
        <3>2. \A e \in Dialers : Starting(e)' => Starting(e) /\ dialer'[e] = dialer[e]
            BY <2>0, <2>1 DEF Starting
        <3>3. dialer'[d].pc = "dial" => /\ \A n \in Connections : ~Active(n)
                                        /\ \A e \in Dialers : ~Starting(e)
            BY <2>0, <2>1 DEF Uncrossed
        <3> HIDE DEF Active, Starting
        <3> QED
            BY <2>0, <2>1, <3>1, <3>2, <3>3 DEF Uncrossed
    <2>2. CASE /\ dialer[d].pc = "dial" /\ connected' /\ dialer'[d].pc = "start"
               /\ dialer'[d].conn = Len(conns') /\ dialer[d].looked = Len(conns)
               /\ readers' = Append(readers, Reader("none")) /\ conns' = Append(conns, NewConnection)
        <3>1. Connections' = 1 .. Len(conns) + 1 /\ Len(conns') = Len(conns) + 1
            BY <1>0, <2>2 DEF StreamTypes, Connections
        <3>2. \A n \in 1 .. Len(conns) : readers'[n] = readers[n]
            BY <1>0, <2>2
        <3>3. readers'[Len(conns) + 1].pc = "none"
            BY <1>0, <2>2, SimpleReader
        <3>4. \A n \in Connections' : ~Active(n)'
            BY <1>0, <2>0, <2>2, <3>1, <3>2, <3>3 DEF Uncrossed, Active, Reading
        <3>5. \A e \in Dialers \ {d} : ~Starting(e)' /\ dialer'[e].looked # Len(conns')
            <4>1. \A e \in Dialers : ~Starting(e)
                BY <2>0, <2>2 DEF Uncrossed
            <4>2. \A e \in Dialers : dialer[e] \in CallRecord /\ CallInRange(dialer[e], Len(conns))
                BY DEF StreamTypes
            <4>3. \A e \in Dialers : dialer[e].looked \in Nat /\ dialer[e].looked <= Len(conns)
                BY <4>2 DEF CallRecord, CallInRange
            <4> QED
                BY <1>0, <2>0, <3>1, <4>1, <4>3
        <3>6. Starting(d)'
            BY <2>2 DEF Starting
        <3> HIDE DEF Active, Starting
        <3> QED
            BY <2>0, <2>2, <3>4, <3>5, <3>6 DEF Uncrossed
    <2>3. CASE /\ dialer[d].pc = "start" /\ dialer'[d].pc = "idle" /\ UNCHANGED <<conns, connected>>
               /\ readers' = [readers EXCEPT ![dialer[d].conn] = Reader("fetch")]
        <3>1. /\ Starting(d) /\ ~Starting(d)' /\ dialer[d].conn = Len(conns)
              /\ connected \/ closed
              /\ \A n \in Connections : ~Active(n)
              /\ \A e \in Dialers : Starting(e) => e = d
            BY <2>0, <2>3 DEF Uncrossed, Starting
        <3>2. \A n \in Connections : n # Len(conns) => ~Active(n)'
            BY <1>0, <2>3, <3>1 DEF Active, Reading
        <3>3. Connections' = Connections /\ UNCHANGED closed /\ Len(conns') = Len(conns)
            BY <2>0, <2>3 DEF Connections
        <3>4. \A e \in Dialers : ~Starting(e)'
            BY <2>0, <3>1
        <3>5. \A e \in Dialers : ~(dialer'[e].pc = "dial" /\ dialer'[e].looked = Len(conns'))
            BY <2>0, <2>3, <3>1, <3>3 DEF Uncrossed
        <3> HIDE DEF Active, Starting
        <3> QED
            BY <2>3, <3>1, <3>2, <3>3, <3>4, <3>5 DEF Uncrossed
    <2> QED
        BY <1>4, <2>1, <2>2, <2>3, DialerKeeps
<1>5. CASE ConsumerStep \/ StopReading \/ TakeConnection \/ CloseStep
    <2>1. UNCHANGED <<connected, closed>> \/ closed'
        BY <1>5 DEF ConsumerStep, Receive, SeeEnd, StopReading, TakeConnection, CloseStep,
                    CloseConnection, CloseReturns, clientVars
    <2> QED
        BY <1>1, <1>5, <2>1, EndsKeep DEF OneActive
<1>6. CASE UNCHANGED vars
    BY <1>1, <1>6 DEF vars, clientVars, setApart, OneActive
<1> QED
    BY <1>2, <1>3, <1>4, <1>5, <1>6 DEF Next

(***************************************************************************)
(* At most one reader is at work, however often connections end and are    *)
(* made again, and whoever makes them: until one call of ConnectWebSocket  *)
(* stores its connection during the dial of another.                       *)
(***************************************************************************)
THEOREM OneReaderAlways == Spec => []OneReader
<1>1. Init => OneActive
    BY DEF Init, OneActive, Uncrossed, Starting, NoCall, Connections
<1> QED
    BY <1>1, OneActiveStep, StreamTypesHold, OneActiveSuffices, PTL DEF Spec

----------------------------------------------------------------------------
(***************************************************************************)
(* CloseLeavesNothing speaks of the end of Close.  Before it Close has the *)
(* last connection, unless a dial stores another behind its back, and cuts *)
(* it; and with no connection to fetch nobody starts reading again.        *)
(***************************************************************************)
CloseInv ==
    /\ closed <=> closer.pc # "idle"
    /\ ~closed => current = Len(conns)
    /\ closed /\ late = {} => current = None /\ closer.conn = Len(conns)
    /\ closer.pc \in {"wait", "returned"} /\ late = {} /\ conns # <<>> => conns[Len(conns)].cut
    /\ closer.pc = "returned" /\ late = {} =>
            \A n \in Connections : readers[n].pc \notin {"read", "pong", "send"}

\* The strengthening implies the property.
LEMMA CloseInvSuffices == StreamTypes /\ CloseInv => CloseLeavesNothing
BY DEF StreamTypes, CloseInv, CloseLeavesNothing, Last

\* Every step keeps the strengthening.
LEMMA CloseInvStep == StreamTypes /\ CloseInv /\ [Next]_vars => CloseInv'
<1> SUFFICES ASSUME StreamTypes, CloseInv, [Next]_vars PROVE CloseInv'
    OBVIOUS
<1>0. /\ readers \in Seq(ReaderRecord) /\ Len(readers) = Len(conns) /\ Len(conns) \in Nat
      /\ conns \in Seq(ConnectionRecord) /\ Connections = 1 .. Len(conns)
      /\ conns # <<>> => Len(conns) \in Connections
    BY DEF StreamTypes, Connections
<1>1. ASSUME UNCHANGED <<closed, current, closer, late>>, Len(conns') = Len(conns),
             \A m \in Connections : conns[m].cut => conns'[m].cut,
             closer.pc = "returned" /\ late = {} => \A m \in Connections :
                readers'[m].pc \in {"read", "pong", "send"} => readers[m].pc \in {"read", "pong", "send"}
      PROVE  CloseInv'
    <2>1. conns' # <<>> => conns # <<>>
        BY <1>0, <1>1
    <2>2. Connections' = Connections
        BY <1>1 DEF Connections
    <2> QED
        BY <1>0, <1>1, <2>1, <2>2 DEF CloseInv
<1>2. ASSUME NEW n \in Connections, GatewayStep(n) PROVE CloseInv'
    BY <1>1, <1>2, GatewayKeeps DEF setApart
<1>3. ASSUME NEW n \in Connections, ReaderStep(n) PROVE CloseInv'
    <2>1. closer.pc = "returned" /\ late = {} => \A m \in Connections :
             readers'[m].pc \in {"read", "pong", "send"} => readers[m].pc \in {"read", "pong", "send"}
        BY <1>3, ReaderKeeps DEF CloseInv, setApart
    <2> QED
        BY <1>1, <1>3, <2>1, ReaderKeeps DEF setApart
<1>4. ASSUME NEW d \in Dialers, StartDial(d) \/ DialFails(d) \/ DialSucceeds(d) \/ StartReader(d)
      PROVE  CloseInv'
    <2>1. CASE UNCHANGED <<readers, conns, current, late>>
        BY <1>1, <1>4, <2>1, DialerKeeps
    <2>2. CASE conns' = Append(conns, NewConnection) /\ current' = Len(conns') /\
               late' = IF closed THEN late \cup {Len(conns')} ELSE late
        <3>1. /\ UNCHANGED <<closed, closer>> /\ Len(conns') = Len(conns) + 1
              /\ conns' # <<>> /\ Len(conns') # None
            BY <1>0, <1>4, <2>2, DialerKeeps DEF None
        <3>2. CASE closed
            <4>1. late' # {}
                BY <2>2, <3>2
            <4> QED
                BY <3>1, <3>2, <4>1 DEF CloseInv
        <3>3. CASE ~closed
            <4>1. closer.pc = "idle" /\ closer'.pc = "idle" /\ ~closed'
                BY <3>1, <3>3 DEF CloseInv
            <4>2. current' = Len(conns')
                BY <2>2
            <4> QED
                BY <4>1, <4>2 DEF CloseInv
        <3> QED
            BY <3>2, <3>3
    <2>3. CASE /\ UNCHANGED <<conns, current, late>> /\ dialer[d].conn \in Connections
               /\ readers' = [readers EXCEPT ![dialer[d].conn] = Reader("fetch")]
        <3>1. Reader("fetch").pc = "fetch"
            BY SimpleReader
        <3>2. \A m \in Connections : readers'[m].pc \in {"read", "pong", "send"} =>
                                      readers[m].pc \in {"read", "pong", "send"}
            BY <1>0, <2>3, <3>1
        <3> QED
            BY <1>1, <1>4, <2>3, <3>2, DialerKeeps
    <2> QED
        BY <1>4, <2>1, <2>2, <2>3, DialerKeeps
<1>5. CASE ConsumerStep \/ StopReading \/ UNCHANGED vars
    BY <1>1, <1>5 DEF ConsumerStep, Receive, SeeEnd, StopReading, vars, clientVars,
                        setApart
<1>6. CASE TakeConnection
    BY <1>6 DEF TakeConnection, CloseInv, None, setApart
<1>7. CASE CloseConnection
    <2>1. /\ closer.pc = "cut" /\ closer' = [closer EXCEPT !.pc = "wait"]
          /\ UNCHANGED <<closed, current, readers, late>> /\ conns' = CutConnection
        BY <1>7 DEF CloseConnection, clientVars, setApart
    <2>2. closer'.pc = "wait" /\ closer'.conn = closer.conn
        BY <2>1 DEF StreamTypes
    <2>3. Len(conns') = Len(conns)
        BY <1>0, <2>1 DEF CutConnection
    <2>4. late = {} /\ conns' # <<>> => conns'[Len(conns')].cut
        <3> SUFFICES ASSUME late = {}, conns' # <<>> PROVE conns'[Len(conns)].cut
            BY <2>3
        <3>1. closer.conn = Len(conns) /\ Len(conns) \in Connections /\ Len(conns) # None
            BY <1>0, <2>1, <2>3 DEF CloseInv, None, StreamTypes
        <3>2. conns' = [conns EXCEPT ![Len(conns)] = [conns[Len(conns)] EXCEPT !.cut = TRUE]]
            BY <2>1, <3>1 DEF CutConnection
        <3>3. [conns[Len(conns)] EXCEPT !.cut = TRUE].cut
            BY <1>0, <3>1 DEF ConnectionRecord
        <3> QED
            BY <1>0, <3>1, <3>2, <3>3
    <2> QED
        BY <2>1, <2>2, <2>3, <2>4 DEF CloseInv
<1>8. CASE CloseReturns
    <2>1. /\ closer.pc = "wait" /\ closer' = [closer EXCEPT !.pc = "returned"]
          /\ UNCHANGED <<closed, current, readers, conns, late>>
        BY <1>8 DEF CloseReturns, clientVars, setApart
    <2>2. closer'.pc = "returned" /\ closer'.conn = closer.conn
        BY <2>1 DEF StreamTypes
    <2>3. \A n \in Connections : readers[n].pc \notin {"read", "pong", "send"}
        BY <1>8 DEF CloseReturns, ReadersDone, Running
    <2> QED
        BY <2>1, <2>2, <2>3 DEF CloseInv, Connections
<1> QED
    BY <1>2, <1>3, <1>4, <1>5, <1>6, <1>7, <1>8 DEF Next, CloseStep

(***************************************************************************)
(* When Close has returned nobody reads or delivers and the last           *)
(* connection is cut, unless a dial overtook Close.                        *)
(***************************************************************************)
THEOREM CloseIsFinal == Spec => []CloseLeavesNothing
<1>1. Init => CloseInv
    BY DEF Init, CloseInv, None
<1> QED
    BY <1>1, CloseInvStep, StreamTypesHold, CloseInvSuffices, PTL DEF Spec

----------------------------------------------------------------------------
(***************************************************************************)
(* EventsAreMessages speaks of what has been delivered; the strengthening  *)
(* says what is on its way.  A place is a point in the stream of frames:   *)
(* between messages, with message the next one ("out"), behind the first   *)
(* part of message ("in"), or behind a control frame after it ("cut"), at  *)
(* which the reader takes the message to be over and counts on with the    *)
(* next.  The frames on the wire lead from the place of the reader to that *)
(* of the gateway.                                                         *)
(***************************************************************************)
Control(f) == f \in {Frame(op, TRUE, 0) : op \in {"ping", "pong", "close"}}
Whole(m) == Frame("text", TRUE, m)
FirstPart(m) == Frame("text", FALSE, m)
LastPart(m) == Frame("continuation", TRUE, m)

Place == [message: Nat, at: {"out", "in", "cut"}]
At(m, at) == [message |-> m, at |-> at]

\* Frame f leads from place a to place b.
Leads(a, f, b, sent, split) ==
    \/ a.at = "out" /\ Control(f) /\ b = a
    \/ /\ a.at = "out" /\ f = Whole(a.message) /\ b = At(a.message + 1, "out")
       /\ a.message \in 1 .. Len(sent) /\ sent[a.message] = <<a.message>>
    \/ a.at = "out" /\ f = FirstPart(a.message) /\ b = At(a.message, "in")
    \/ a.at # "out" /\ Control(f) /\ b = At(a.message, "cut") /\ a.message \in split
    \/ /\ a.at # "out" /\ f = LastPart(a.message) /\ b = At(a.message + 1, "out")
       /\ a.message \in 1 .. Len(sent) /\ sent[a.message] = <<a.message, a.message>>

WireOf(w, from, to, sent, split) ==
    \E path \in Seq(Place) :
        /\ Len(path) = Len(w) + 1
        /\ path[1] \in from /\ path[Len(w) + 1] \in to
        /\ \A i \in 1 .. Len(w) : Leads(path[i], w[i], path[i + 1], sent, split)

\* Where the gateway is with connection conn.
GatewayAt(conn) ==
    LET s == Len(conn.sent) + 1
    IN IF conn.open = <<>> THEN {At(s, "out")} ELSE {At(s, "in"), At(s, "cut")}

Carries(conn, from) ==
    /\ conn.open \in {<<>>, <<Len(conn.sent) + 1>>}
    /\ WireOf(conn.wire, from, GatewayAt(conn), conn.sent, conn.split)

\* The events of connection n; the message its reader waits for.
Events(n) == {i \in 1 .. Len(Delivered) : Delivered[i].from = n}
Count(n) == Cardinality(Events(n))
Awaited(n) == IF readers[n].pc = "send" THEN Count(n) + 2 ELSE Count(n) + 1
Mid(n) == readers[n].pc = "read" /\ readers[n].op = "text"

\* Where the reader is: behind its first part, or else between messages or
\* before the rest of one it took to be over.
ReaderAt(n) ==
    IF Mid(n) THEN {At(Awaited(n), "in")} ELSE {At(Awaited(n), "out"), At(Awaited(n) - 1, "cut")}

\* parts is message k of conn, or k had a control frame inside.
IsMessage(conn, k, parts) ==
    k \in conn.split \/ (k <= Len(conn.sent) /\ parts = conn.sent[k])

EachIsMessage ==
    \A i \in 1 .. Len(Delivered) :
        IsMessage(conns[Delivered[i].from], EventsBefore(i) + 1, Delivered[i].parts)

\* What the reader of connection n holds.
Holds(n) ==
    /\ readers[n].pc \in {"read", "send"} => readers[n].from = n
    /\ readers[n].pc = "read" =>
        \/ readers[n].op = "none" /\ readers[n].parts = <<>>
        \/ readers[n].op = "text" /\ readers[n].parts = <<Awaited(n)>>
    /\ readers[n].pc = "send" => IsMessage(conns[n], Count(n) + 1, readers[n].parts)

Event == [from: Nat, parts: Message]

\* A reader that may still read.
Waiting(n) == Reading(n) \/ readers[n].pc = "none"

InWire(n) == Carries(conns[n], ReaderAt(n))

OnItsWay ==
    /\ received \in Seq(Event)
    /\ \A i \in 1 .. Len(Delivered) : Delivered[i].from \in Connections
    /\ current \in {None, Len(conns)}
    /\ (\E d \in Dialers : Starting(d)) => readers[Len(conns)].pc = "none"
    /\ \A n \in Connections :
        /\ Active(n) => n = Len(conns)
        /\ Holds(n)
        /\ Waiting(n) => InWire(n)

\* The property is about calls that do not cross.
LEMMA UnlessCrossed == EventsAreMessages <=> (~crossed => EachIsMessage)
BY DEF EventsAreMessages, EachIsMessage, IsMessage

\* The forms of a frame are told apart, and each tells its message.
LEMMA FrameForms ==
    ASSUME NEW m \in Nat, NEW p \in Nat
    PROVE  /\ Whole(m) \in FrameRecord /\ FirstPart(m) \in FrameRecord /\ LastPart(m) \in FrameRecord
           /\ Whole(m) = Whole(p) => m = p
           /\ FirstPart(m) = FirstPart(p) => m = p
           /\ LastPart(m) = LastPart(p) => m = p
           /\ Whole(m) # FirstPart(p) /\ Whole(m) # LastPart(p) /\ FirstPart(m) # LastPart(p)
           /\ ~Control(Whole(m)) /\ ~Control(FirstPart(m)) /\ ~Control(LastPart(m))
BY DEF Whole, FirstPart, LastPart, Frame, Control, FrameRecord, Ops

\* A message is one part or two.
LEMMA TwoParts ==
    ASSUME NEW k \in Nat
    PROVE  Append(<<>>, k) = <<k>> /\ Append(<<k>>, k) = <<k, k>>
<1>1. Append(<<>>, k) = <<k>>
    OBVIOUS
<1>2. /\ Append(<<k>>, k) \in Seq(Nat) /\ <<k, k>> \in Seq(Nat)
      /\ Len(Append(<<k>>, k)) = 2 /\ Len(<<k, k>>) = 2
    OBVIOUS
<1>3. \A i \in 1 .. 2 : Append(<<k>>, k)[i] = <<k, k>>[i]
    <2>1. \A i \in 1 .. 2 : i = 1 \/ i = 2
        OBVIOUS
    <2>2. <<k>> \in Seq(Nat) /\ Len(<<k>>) = 1 /\ <<k>>[1] = k
        OBVIOUS
    <2>3. Append(<<k>>, k)[1] = k /\ Append(<<k>>, k)[2] = k
        BY <2>2
    <2>4. <<k, k>>[1] = k /\ <<k, k>>[2] = k
        OBVIOUS
    <2> QED
        BY <2>1, <2>3, <2>4
<1>4. Append(<<k>>, k) = <<k, k>>
    BY <1>2, <1>3, SeqEqual
<1> QED
    BY <1>1, <1>4

\* Frames lead where they led when more is sent and more messages are split.
LEMMA LeadsStill ==
    ASSUME NEW a \in Place, NEW f, NEW b, NEW sent \in Seq(Message), NEW more \in Seq(Message),
           NEW split, NEW parted, Leads(a, f, b, sent, split),
           Len(sent) <= Len(more), \A m \in 1 .. Len(sent) : more[m] = sent[m],
           split \subseteq parted
    PROVE  Leads(a, f, b, more, parted)
<1>1. a.message \in 1 .. Len(sent) => /\ a.message \in 1 .. Len(more)
                                      /\ more[a.message] = sent[a.message]
    OBVIOUS
<1> QED
    BY <1>1 DEF Leads

\* The gateway sends a frame that leads on from where it was.
LEMMA FrameSent ==
    ASSUME NEW w \in Seq(FrameRecord), NEW f \in FrameRecord, NEW from, NEW to, NEW upto,
           NEW sent \in Seq(Message), NEW more \in Seq(Message), NEW split, NEW parted,
           WireOf(w, from, to, sent, split),
           Len(sent) <= Len(more), \A m \in 1 .. Len(sent) : more[m] = sent[m],
           split \subseteq parted,
           \A a \in to \cap Place : \E b \in upto \cap Place : Leads(a, f, b, more, parted)
    PROVE  WireOf(Append(w, f), from, upto, more, parted)
<1> DEFINE v == Append(w, f)
<1>1. PICK path \in Seq(Place) :
        /\ Len(path) = Len(w) + 1
        /\ path[1] \in from /\ path[Len(w) + 1] \in to
        /\ \A i \in 1 .. Len(w) : Leads(path[i], w[i], path[i + 1], sent, split)
    BY DEF WireOf
<1>2. Len(w) \in Nat /\ Len(w) + 1 \in 1 .. Len(path) /\ path[Len(w) + 1] \in Place
    BY <1>1
<1>3. PICK b \in upto \cap Place : Leads(path[Len(w) + 1], f, b, more, parted)
    BY <1>1, <1>2
<1> DEFINE q == Append(path, b)
<1>4. /\ q \in Seq(Place) /\ Len(q) = Len(w) + 2 /\ q[Len(w) + 2] = b
      /\ \A i \in 1 .. Len(w) + 1 : q[i] = path[i]
    BY <1>1, <1>2, <1>3
<1>5. /\ Len(v) = Len(w) + 1 /\ v[Len(w) + 1] = f
      /\ \A i \in 1 .. Len(w) : v[i] = w[i]
    BY <1>2
<1> HIDE DEF v, q
<1>6. ASSUME NEW i \in 1 .. Len(v) PROVE Leads(q[i], v[i], q[i + 1], more, parted)
    <2>1. CASE i \in 1 .. Len(w)
        <3>1. i \in 1 .. Len(w) + 1 /\ i + 1 \in 1 .. Len(w) + 1 /\ i \in 1 .. Len(path)
            BY <1>1, <1>2, <2>1
        <3>2. q[i] = path[i] /\ q[i + 1] = path[i + 1] /\ v[i] = w[i] /\ path[i] \in Place
            BY <1>4, <1>5, <2>1, <3>1
        <3>3. Leads(path[i], w[i], path[i + 1], sent, split)
            BY <1>1, <2>1
        <3> QED
            BY <3>2, <3>3, LeadsStill
    <2>2. CASE i = Len(w) + 1
        <3>1. q[i] = path[Len(w) + 1] /\ v[i] = f /\ i + 1 = Len(w) + 2
            BY <1>2, <1>4, <1>5, <2>2
        <3> QED
            BY <1>3, <1>4, <3>1
    <2> QED
        BY <1>2, <1>5, <2>1, <2>2
<1>7. Len(q) = Len(v) + 1 /\ q[1] \in from /\ q[Len(v) + 1] \in upto
    <2>1. 1 \in 1 .. Len(w) + 1 /\ Len(v) + 1 = Len(w) + 2
        BY <1>2, <1>5
    <2> QED
        BY <1>1, <1>3, <1>4, <2>1
<1>8. WireOf(v, from, upto, more, parted)
    BY <1>4, <1>6, <1>7 DEF WireOf
<1> QED
    BY <1>8 DEF v

\* The reader takes the frame at the head, which leads it on.
LEMMA FrameTaken ==
    ASSUME NEW w \in Seq(FrameRecord), w # <<>>, NEW from, NEW to, NEW sent, NEW split,
           WireOf(w, from, to, sent, split)
    PROVE  \E a \in from \cap Place, b \in Place : /\ Leads(a, w[1], b, sent, split)
                                                   /\ WireOf(Tail(w), {b}, to, sent, split)
<1> DEFINE v == Tail(w)
<1>1. PICK path \in Seq(Place) :
        /\ Len(path) = Len(w) + 1
        /\ path[1] \in from /\ path[Len(w) + 1] \in to
        /\ \A i \in 1 .. Len(w) : Leads(path[i], w[i], path[i + 1], sent, split)
    BY DEF WireOf
<1> DEFINE q == Tail(path)
<1>2. Len(w) \in Nat /\ Len(w) >= 1 /\ path # <<>>
    BY <1>1, EmptySeq
<1>3. /\ q \in Seq(Place) /\ Len(q) = Len(w) /\ \A i \in 1 .. Len(w) : q[i] = path[i + 1]
    BY <1>1, <1>2
<1>4. /\ Len(v) = Len(w) - 1 /\ \A i \in 1 .. Len(w) - 1 : v[i] = w[i + 1]
    BY <1>2
<1>5. path[1] \in Place /\ path[2] \in Place
    BY <1>1, <1>2
<1> HIDE DEF v, q
<1>6. Leads(path[1], w[1], path[2], sent, split)
    <2>1. 1 \in 1 .. Len(w) /\ 1 + 1 = 2
        BY <1>2
    <2> QED
        BY <1>1, <2>1
<1>7. WireOf(v, {path[2]}, to, sent, split)
    <2>1. Len(q) = Len(v) + 1
        BY <1>2, <1>3, <1>4
    <2>2. q[1] = path[2] /\ q[Len(v) + 1] \in to
        <3>1. 1 \in 1 .. Len(w) /\ Len(w) \in 1 .. Len(w) /\ Len(v) + 1 = Len(w) /\ 1 + 1 = 2
            BY <1>2, <1>4
        <3>2. q[Len(w)] = path[Len(w) + 1] /\ q[1] = path[1 + 1]
            BY <1>3, <3>1
        <3> QED
            BY <1>1, <3>1, <3>2
    <2>3. ASSUME NEW i \in 1 .. Len(v) PROVE Leads(q[i], v[i], q[i + 1], sent, split)
        <3>1. i \in 1 .. Len(w) /\ i + 1 \in 1 .. Len(w) /\ i \in 1 .. Len(w) - 1
            BY <1>2, <1>4
        <3>2. q[i] = path[i + 1] /\ q[i + 1] = path[i + 1 + 1] /\ v[i] = w[i + 1]
            BY <1>3, <1>4, <3>1
        <3>3. Leads(path[i + 1], w[i + 1], path[i + 1 + 1], sent, split)
            BY <1>1, <3>1
        <3> QED
            BY <3>2, <3>3
    <2> QED
        BY <1>3, <2>1, <2>2, <2>3 DEF WireOf
<1> QED
    BY <1>1, <1>5, <1>6, <1>7 DEF v

\* A wire from one place is a wire from a set with it.
LEMMA WireFrom ==
    ASSUME NEW w, NEW from, NEW b \in from, NEW to, NEW sent, NEW split,
           WireOf(w, {b}, to, sent, split)
    PROVE  WireOf(w, from, to, sent, split)
BY DEF WireOf

\* What the gateway may send: a message in one frame, a first part, a last part, or a control
\* frame, which splits the message it comes into.
LEMMA GatewayFrames ==
    ASSUME NEW conn \in ConnectionRecord, NEW from, Carries(conn, from),
           NEW s, s = Len(conn.sent) + 1
    PROVE  /\ s \in Nat /\ conn.open \in {<<>>, <<s>>}
           /\ \A new \in ConnectionRecord :
                /\ conn.open = <<>> /\ new.open = <<>> /\ new.sent = Append(conn.sent, <<s>>) /\
                   new.split = conn.split /\ new.wire = Append(conn.wire, Whole(s))
                     => Carries(new, from)
                /\ conn.open = <<>> /\ new.open = <<s>> /\ new.sent = conn.sent /\
                   new.split = conn.split /\ new.wire = Append(conn.wire, FirstPart(s))
                     => Carries(new, from)
                /\ conn.open # <<>> /\ new.open = <<>> /\ new.sent = Append(conn.sent, <<s, s>>) /\
                   new.split = conn.split /\ new.wire = Append(conn.wire, LastPart(s))
                     => Carries(new, from)
                /\ \A f \in FrameRecord :
                     Control(f) /\ new.open = conn.open /\ new.sent = conn.sent /\
                     new.wire = Append(conn.wire, f) /\
                     new.split = (IF conn.open = <<>> THEN conn.split ELSE conn.split \cup {s})
                       => Carries(new, from)
<1>0. /\ conn.sent \in Seq(Message) /\ conn.wire \in Seq(FrameRecord) /\ conn.split \in SUBSET Nat
      /\ Len(conn.sent) \in Nat /\ s \in Nat /\ <<s>> \in Message /\ <<s, s>> \in Message
      /\ <<s>> # <<>>
    BY DEF ConnectionRecord, Message
<1>1. /\ conn.open \in {<<>>, <<s>>}
      /\ WireOf(conn.wire, from, GatewayAt(conn), conn.sent, conn.split)
    BY DEF Carries
<1>2. /\ Whole(s) \in FrameRecord /\ FirstPart(s) \in FrameRecord /\ LastPart(s) \in FrameRecord
    BY <1>0, FrameForms
<1>3. \A msg \in Message : /\ Append(conn.sent, msg) \in Seq(Message)
                           /\ Len(Append(conn.sent, msg)) = s /\ Append(conn.sent, msg)[s] = msg
                           /\ \A m \in 1 .. Len(conn.sent) : Append(conn.sent, msg)[m] = conn.sent[m]
    BY <1>0
<1>4. \A m \in Nat : \A at \in {"out", "in", "cut"} : At(m, at) \in Place
    BY DEF At, Place
<1>5. ASSUME NEW new \in ConnectionRecord, NEW f \in FrameRecord, NEW msg \in Message,
             new.wire = Append(conn.wire, f), new.sent \in {conn.sent, Append(conn.sent, msg)},
             conn.split \subseteq new.split, new.open \in {<<>>, <<Len(new.sent) + 1>>},
             \A a \in GatewayAt(conn) :
                \E b \in GatewayAt(new) \cap Place : Leads(a, f, b, new.sent, new.split)
      PROVE  Carries(new, from)
    <2>1. /\ new.sent \in Seq(Message) /\ Len(conn.sent) <= Len(new.sent)
          /\ \A m \in 1 .. Len(conn.sent) : new.sent[m] = conn.sent[m]
        <3>1. CASE new.sent = conn.sent
            BY <1>0, <3>1
        <3>2. CASE new.sent = Append(conn.sent, msg)
            <4>1. Len(conn.sent) <= s
                BY <1>0
            <4> QED
                BY <1>3, <3>2, <4>1
        <3> QED
            BY <1>5, <3>1, <3>2
    <2>2. WireOf(Append(conn.wire, f), from, GatewayAt(new), new.sent, new.split)
        BY <1>0, <1>1, <1>5, <2>1, FrameSent
    <2> QED
        BY <1>5, <2>2 DEF Carries
<1>6. ASSUME NEW new \in ConnectionRecord,
             conn.open = <<>>, new.open = <<>>, new.sent = Append(conn.sent, <<s>>),
             new.split = conn.split, new.wire = Append(conn.wire, Whole(s))
      PROVE  Carries(new, from)
    <2>1. GatewayAt(conn) = {At(s, "out")} /\ GatewayAt(new) = {At(s + 1, "out")}
        BY <1>0, <1>3, <1>6 DEF GatewayAt
    <2>2. Leads(At(s, "out"), Whole(s), At(s + 1, "out"), new.sent, new.split)
        BY <1>0, <1>3, <1>6 DEF Leads, At
    <2>3. \A a \in GatewayAt(conn) :
            \E b \in GatewayAt(new) \cap Place : Leads(a, Whole(s), b, new.sent, new.split)
        <3>1. At(s + 1, "out") \in GatewayAt(new) \cap Place
            BY <1>0, <1>4, <2>1
        <3> QED
            BY <2>1, <2>2, <3>1
    <2>4. new.open \in {<<>>, <<Len(new.sent) + 1>>} /\ conn.split \subseteq new.split
        BY <1>6
    <2>5. new.sent \in {conn.sent, Append(conn.sent, <<s>>)} /\ <<s>> \in Message
        BY <1>0, <1>6
    <2>6. new.wire = Append(conn.wire, Whole(s)) /\ Whole(s) \in FrameRecord
        BY <1>2, <1>6
    <2> QED
        BY <1>5, <2>3, <2>4, <2>5, <2>6
<1>7. ASSUME NEW new \in ConnectionRecord,
             conn.open = <<>>, new.open = <<s>>, new.sent = conn.sent,
             new.split = conn.split, new.wire = Append(conn.wire, FirstPart(s))
      PROVE  Carries(new, from)
    <2>1. GatewayAt(conn) = {At(s, "out")} /\ At(s, "in") \in GatewayAt(new)
        BY <1>0, <1>7 DEF GatewayAt
    <2>2. Leads(At(s, "out"), FirstPart(s), At(s, "in"), new.sent, new.split)
        BY DEF Leads, At
    <2>3. \A a \in GatewayAt(conn) :
            \E b \in GatewayAt(new) \cap Place : Leads(a, FirstPart(s), b, new.sent, new.split)
        <3>1. At(s, "in") \in GatewayAt(new) \cap Place
            BY <1>0, <1>4, <2>1
        <3> QED
            BY <2>1, <2>2, <3>1
    <2>4. new.open \in {<<>>, <<Len(new.sent) + 1>>} /\ conn.split \subseteq new.split
        BY <1>7
    <2>5. new.sent \in {conn.sent, Append(conn.sent, <<s>>)} /\ <<s>> \in Message
        BY <1>0, <1>7
    <2>6. new.wire = Append(conn.wire, FirstPart(s)) /\ FirstPart(s) \in FrameRecord
        BY <1>2, <1>7
    <2> QED
        BY <1>5, <2>3, <2>4, <2>5, <2>6
<1>8. ASSUME NEW new \in ConnectionRecord,
             conn.open # <<>>, new.open = <<>>, new.sent = Append(conn.sent, <<s, s>>),
             new.split = conn.split, new.wire = Append(conn.wire, LastPart(s))
      PROVE  Carries(new, from)
    <2>1. GatewayAt(conn) = {At(s, "in"), At(s, "cut")} /\ GatewayAt(new) = {At(s + 1, "out")}
        BY <1>0, <1>3, <1>8 DEF GatewayAt
    <2>2. \A at \in {"in", "cut"} :
            Leads(At(s, at), LastPart(s), At(s + 1, "out"), new.sent, new.split)
        BY <1>0, <1>3, <1>8 DEF Leads, At
    <2>3. \A a \in GatewayAt(conn) :
            \E b \in GatewayAt(new) \cap Place : Leads(a, LastPart(s), b, new.sent, new.split)
        <3>1. At(s + 1, "out") \in GatewayAt(new) \cap Place
            BY <1>0, <1>4, <2>1
        <3> QED
            BY <2>1, <2>2, <3>1
    <2>4. new.open \in {<<>>, <<Len(new.sent) + 1>>} /\ conn.split \subseteq new.split
        BY <1>8
    <2>5. new.sent \in {conn.sent, Append(conn.sent, <<s, s>>)} /\ <<s, s>> \in Message
        BY <1>0, <1>8
    <2>6. new.wire = Append(conn.wire, LastPart(s)) /\ LastPart(s) \in FrameRecord
        BY <1>2, <1>8
    <2> QED
        BY <1>5, <2>3, <2>4, <2>5, <2>6
<1>9. ASSUME NEW new \in ConnectionRecord, NEW f \in FrameRecord, Control(f),
             new.open = conn.open, new.sent = conn.sent, new.wire = Append(conn.wire, f),
             new.split = (IF conn.open = <<>> THEN conn.split ELSE conn.split \cup {s})
      PROVE  Carries(new, from)
    <2>1. GatewayAt(new) = GatewayAt(conn)
        BY <1>9 DEF GatewayAt
    <2>2. CASE conn.open = <<>>
        <3>1. GatewayAt(conn) = {At(s, "out")}
            BY <2>2 DEF GatewayAt
        <3>2. Leads(At(s, "out"), f, At(s, "out"), new.sent, new.split)
            BY <1>9 DEF Leads, At
        <3> QED
            BY <1>0, <1>1, <1>4, <1>5, <1>9, <2>1, <2>2, <3>1, <3>2
    <2>3. CASE conn.open # <<>>
        <3>1. GatewayAt(conn) = {At(s, "in"), At(s, "cut")}
            BY <2>3 DEF GatewayAt
        <3>2. \A at \in {"in", "cut"} : Leads(At(s, at), f, At(s, "cut"), new.sent, new.split)
            BY <1>9, <2>3 DEF Leads, At
        <3> QED
            BY <1>0, <1>1, <1>4, <1>5, <1>9, <2>1, <2>3, <3>1, <3>2
    <2> QED
        BY <2>2, <2>3
<1> QED
    BY <1>0, <1>1, <1>6, <1>7, <1>8, <1>9

----------------------------------------------------------------------------
\* The types the parts of OnItsWay rest on.
LEMMA WireTypes ==
    ASSUME StreamTypes
    PROVE  /\ conns \in Seq(ConnectionRecord) /\ readers \in Seq(ReaderRecord)
           /\ Len(readers) = Len(conns) /\ Len(conns) \in Nat /\ Connections = 1 .. Len(conns)
           /\ \A n \in Connections :
                /\ conns[n] \in ConnectionRecord /\ readers[n] \in ReaderRecord
                /\ conns[n].wire \in Seq(FrameRecord) /\ conns[n].open \in Message
                /\ conns[n].sent \in Seq(Message) /\ conns[n].split \in SUBSET Nat
           /\ received \in Seq(Event) => Delivered \in Seq(Event)
<1>1. /\ conns \in Seq(ConnectionRecord) /\ readers \in Seq(ReaderRecord)
      /\ Len(readers) = Len(conns) /\ Len(conns) \in Nat /\ Connections = 1 .. Len(conns)
    BY DEF StreamTypes, Connections
<1>2. \A n \in Connections : conns[n] \in ConnectionRecord /\ readers[n] \in ReaderRecord
    BY <1>1
<1>3. buffer \in Seq(Event)
    BY DEF StreamTypes, Event
<1>4. received \in Seq(Event) => Delivered \in Seq(Event)
    BY <1>3 DEF Delivered
<1> QED
    BY <1>1, <1>2, <1>4 DEF ConnectionRecord

\* With the events that are delivered stand the counts.
LEMMA CountsStand ==
    ASSUME UNCHANGED Delivered
    PROVE  /\ \A n : Count(n)' = Count(n)
           /\ \A i : EventsBefore(i)' = EventsBefore(i)
BY DEF Count, Events, EventsBefore

\* Two parts of the invariant at one connection, of what they are made.
LEMMA SameConnection ==
    ASSUME NEW n, readers'[n] = readers[n], Count(n)' = Count(n), conns'[n] = conns[n],
           Holds(n), Waiting(n) => InWire(n)
    PROVE  Holds(n)' /\ (Waiting(n)' => InWire(n)')
BY DEF Holds, Waiting, InWire, Reading, Mid, Awaited, ReaderAt, IsMessage

\* A message stays one when more is sent.
LEMMA MessageStands ==
    ASSUME NEW c \in ConnectionRecord, NEW new \in ConnectionRecord, NEW k \in Nat \ {0}, NEW parts,
           IsMessage(c, k, parts), c.split \subseteq new.split,
           Len(c.sent) <= Len(new.sent), \A m \in 1 .. Len(c.sent) : new.sent[m] = c.sent[m]
    PROVE  IsMessage(new, k, parts)
<1>1. CASE k \in c.split
    BY <1>1 DEF IsMessage
<1>2. CASE k <= Len(c.sent) /\ parts = c.sent[k]
    <2>1. Len(c.sent) \in Nat /\ Len(new.sent) \in Nat
        BY DEF ConnectionRecord
    <2>2. k \in 1 .. Len(c.sent) /\ k <= Len(new.sent)
        BY <1>2, <2>1
    <2>3. parts = new.sent[k]
        BY <1>2, <2>2
    <2> QED
        BY <2>2, <2>3 DEF IsMessage
<1> QED
    BY <1>1, <1>2 DEF IsMessage

\* How many events are before another is a number.
LEMMA EventsCounted == ASSUME NEW i \in 1 .. Len(Delivered) PROVE EventsBefore(i) \in Nat
<1>1. /\ IsFiniteSet(1 .. i - 1)
      /\ {j \in 1 .. i - 1 : Delivered[j].from = Delivered[i].from} \in SUBSET (1 .. i - 1)
    BY FS_Interval
<1>2. IsFiniteSet({j \in 1 .. i - 1 : Delivered[j].from = Delivered[i].from})
    BY <1>1, FS_Subset
<1> QED
    BY <1>2, FS_CardinalityType DEF EventsBefore

\* What the gateway sends later leaves what was delivered a message.
Later(c, new) ==
    /\ c \in ConnectionRecord /\ new \in ConnectionRecord /\ c.split \subseteq new.split
    /\ Len(c.sent) <= Len(new.sent) /\ \A m \in 1 .. Len(c.sent) : new.sent[m] = c.sent[m]

LEMMA EventsStand ==
    ASSUME EachIsMessage, UNCHANGED Delivered,
           \A i \in 1 .. Len(Delivered) : Delivered[i].from \in Connections,
           \A n \in Connections : Later(conns[n], conns'[n])
    PROVE  EachIsMessage'
<1> SUFFICES ASSUME NEW i \in 1 .. Len(Delivered)
             PROVE  IsMessage(conns'[Delivered[i].from], EventsBefore(i) + 1, Delivered[i].parts)
    BY CountsStand DEF EachIsMessage, IsMessage
<1>1. EventsBefore(i) + 1 \in Nat \ {0}
    BY EventsCounted
<1>2. Later(conns[Delivered[i].from], conns'[Delivered[i].from])
    OBVIOUS
<1>3. IsMessage(conns[Delivered[i].from], EventsBefore(i) + 1, Delivered[i].parts)
    BY DEF EachIsMessage
<1> QED
    BY <1>1, <1>2, <1>3, MessageStands DEF Later

\* What one connection has counted is a number.
LEMMA CountTyped == ASSUME Delivered \in Seq(Event), NEW n PROVE Count(n) \in Nat /\ IsFiniteSet(Events(n))
<1>1. IsFiniteSet(1 .. Len(Delivered)) /\ Events(n) \in SUBSET (1 .. Len(Delivered))
    BY FS_Interval DEF Events
<1>2. IsFiniteSet(Events(n))
    BY <1>1, FS_Subset
<1> QED
    BY <1>2, FS_CardinalityType DEF Count

(***************************************************************************)
(* Something happens to connection n, and the readers do not move.         *)
(***************************************************************************)
LEMMA ConnectionStep ==
    ASSUME StreamTypes, OnItsWay, EachIsMessage,
           NEW n \in Connections, NEW c \in ConnectionRecord, conns' = [conns EXCEPT ![n] = c],
           UNCHANGED <<readers, dialer, received, buffer>>, current' \in {current, None},
           Waiting(n) => Carries(c, ReaderAt(n)), Later(conns[n], c)
    PROVE  OnItsWay' /\ EachIsMessage'
<1>0. /\ conns'[n] = c /\ \A m \in Connections \ {n} : conns'[m] = conns[m]
      /\ Len(conns') = Len(conns) /\ Connections' = Connections /\ Delivered \in Seq(Event)
    <2>1. /\ conns'[n] = c /\ \A m \in Connections \ {n} : conns'[m] = conns[m]
          /\ Len(conns') = Len(conns)
        BY WireTypes
    <2> QED
        BY <2>1, WireTypes DEF OnItsWay, Connections
<1>1. UNCHANGED Delivered
    BY DEF Delivered
<1>2. EachIsMessage'
    <2>1. \A m \in Connections : conns[m] \in ConnectionRecord
        BY WireTypes
    <2>2. \A m \in Connections : Later(conns[m], conns'[m])
        BY <1>0, <2>1 DEF Later, ConnectionRecord
    <2> QED
        BY <1>0, <1>1, <2>2, EventsStand DEF OnItsWay
<1>3. Holds(n)' /\ (Waiting(n)' => InWire(n)')
    <2>1. Count(n)' = Count(n) /\ Count(n) + 1 \in Nat \ {0}
        BY <1>0, <1>1, CountsStand, CountTyped
    <2>2. /\ Mid(n)' = Mid(n) /\ Awaited(n)' = Awaited(n) /\ Waiting(n)' = Waiting(n)
          /\ ReaderAt(n)' = ReaderAt(n)
        BY <2>1 DEF Mid, Awaited, Waiting, Reading, ReaderAt
    <2>3. Holds(n)
        BY DEF OnItsWay
    <2>4. readers[n].pc = "send" => IsMessage(c, Count(n) + 1, readers[n].parts)
        BY <2>1, <2>3, MessageStands DEF Holds, Later
    <2>5. readers[n].pc = "send" => IsMessage(conns[n], Count(n) + 1, readers[n].parts)'
        BY <1>0, <2>1, <2>4 DEF IsMessage
    <2>6. Holds(n)'
        BY <2>1, <2>2, <2>3, <2>5 DEF Holds
    <2> QED
        BY <1>0, <2>2, <2>6 DEF InWire
<1>4. \A m \in Connections \ {n} : Holds(m)' /\ (Waiting(m)' => InWire(m)')
    BY <1>0, <1>1, CountsStand, SameConnection DEF OnItsWay
<1>5. \A m \in Connections : Active(m)' => m = Len(conns)
    BY DEF Active, Reading, OnItsWay
<1>6. (\E d \in Dialers : Starting(d)') => readers'[Len(conns')].pc = "none"
    BY <1>0 DEF OnItsWay, Starting
<1> QED
    BY <1>0, <1>1, <1>2, <1>3, <1>4, <1>5, <1>6 DEF OnItsWay

(***************************************************************************)
(* The gateway sends, ends or the context expires.                         *)
(***************************************************************************)
LEMMA GatewayOnItsWay ==
    ASSUME StreamTypes, OnItsWay, EachIsMessage, NEW n \in Connections, GatewayStep(n)
    PROVE  OnItsWay' /\ EachIsMessage'
<1> DEFINE conn == conns[n]
           s == Len(conn.sent) + 1
<1>0. /\ conn \in ConnectionRecord /\ conn.wire \in Seq(FrameRecord) /\ conn.open \in Message
      /\ conn.sent \in Seq(Message) /\ Len(conn.sent) \in Nat /\ conn.split \in SUBSET Nat
      /\ <<>> \in Message /\ <<s>> \in Message /\ <<s, s>> \in Message /\ s \in Nat
    BY WireTypes DEF Message
<1>1. ASSUME NEW frame \in FrameRecord, NEW base \in ConnectionRecord,
             base.wire = conn.wire, GatewaySends(n, frame, base),
             \A c \in ConnectionRecord :
                c.wire = Append(conn.wire, frame) /\ c.open = base.open /\ c.sent = base.sent /\
                c.split = base.split /\ Carries(conn, ReaderAt(n))
                    => Carries(c, ReaderAt(n)),
             conn.split \subseteq base.split,
             \/ base.sent = conn.sent
             \/ \E msg \in Message : base.sent = Append(conn.sent, msg)
      PROVE  OnItsWay' /\ EachIsMessage'
    <2> DEFINE w == Append(base.wire, frame)
               k == base.frames + 1
               c == [base EXCEPT !.wire = w, !.frames = k]
    <2>1. conns' = [conns EXCEPT ![n] = c] /\ UNCHANGED <<readers, dialer, received, buffer, current>>
        BY <1>1 DEF GatewaySends, clientVars, channelVars
    <2>2. w \in Seq(FrameRecord) /\ k \in Nat
        BY <1>0, <1>1 DEF ConnectionRecord
    <2>3. /\ c \in ConnectionRecord /\ c.wire = w /\ c.open = base.open /\ c.sent = base.sent
          /\ c.split = base.split
        BY <2>2 DEF ConnectionRecord
    <2>4. /\ Len(conn.sent) <= Len(base.sent)
          /\ \A m \in 1 .. Len(conn.sent) : base.sent[m] = conn.sent[m]
        BY <1>0, <1>1
    <2>5. w = Append(conn.wire, frame)
        BY <1>1
    <2> HIDE DEF c, w, conn
    <2>6. Waiting(n) => Carries(c, ReaderAt(n))
        BY <1>1, <2>3, <2>5 DEF OnItsWay, InWire, conn
    <2>7. Later(conn, c)
        BY <1>0, <1>1, <2>3, <2>4 DEF Later
    <2> QED
        BY <2>1, <2>3, <2>6, <2>7, ConnectionStep DEF conn
<1>2. CASE SendMessage(n)
    <2> DEFINE message == Append(conn.open, s)
               op == IF conn.open = <<>> THEN "text" ELSE "continuation"
               f == Frame(op, TRUE, s)
               more == Append(conn.sent, message)
               ended == [conn EXCEPT !.open = <<>>, !.sent = more]
               begun == [conn EXCEPT !.open = message]
    <2>1. message \in Message /\ more \in Seq(Message)
        BY <1>0 DEF Message
    <2>2. f \in FrameRecord
        BY <1>0 DEF FrameRecord, Frame, Ops
    <2>3. \/ GatewaySends(n, f, ended)
          \/ conn.open = <<>> /\ GatewaySends(n, Frame(op, FALSE, s), begun)
        BY <1>2 DEF SendMessage
    <2>4. conn.open = <<>> => message = <<s>> /\ f = Whole(s) /\ Frame(op, FALSE, s) = FirstPart(s)
        BY <1>0 DEF Whole, FirstPart
    <2>5. conn.open = <<s>> => message = <<s, s>> /\ f = LastPart(s)
        <3> SUFFICES ASSUME conn.open = <<s>> PROVE message = <<s, s>> /\ f = LastPart(s)
            OBVIOUS
        <3>1. conn.open # <<>>
            BY <1>0
        <3>2. Append(<<s>>, s) = <<s, s>>
            BY <1>0, TwoParts
        <3> QED
            BY <3>1, <3>2 DEF LastPart
    <2> HIDE DEF message, op, f
    <2>6. /\ ended \in ConnectionRecord /\ ended.wire = conn.wire /\ ended.open = <<>> /\ ended.sent = more
          /\ ended.split = conn.split
          /\ begun \in ConnectionRecord /\ begun.wire = conn.wire /\ begun.open = message
          /\ begun.sent = conn.sent /\ begun.split = conn.split
        <3> HIDE DEF more
        <3> QED
            BY <1>0, <2>1, MessageUpdate DEF ConnectionRecord
    <2>7. ASSUME NEW c \in ConnectionRecord, Carries(conn, ReaderAt(n)),
                 c.wire = Append(conn.wire, f), c.open = <<>>, c.sent = more, c.split = conn.split
          PROVE  Carries(c, ReaderAt(n))
        <3> HIDE DEF ended, begun
        <3>1. conn.open \in {<<>>, <<s>>}
            BY <2>7 DEF Carries
        <3>2. CASE conn.open = <<>>
            <4>1. c.wire = Append(conn.wire, Whole(s)) /\ c.sent = Append(conn.sent, <<s>>)
                BY <2>4, <2>7, <3>2
            <4> HIDE DEF conn
            <4> QED
                BY <1>0, <2>7, <3>2, <4>1, GatewayFrames
        <3>3. CASE conn.open # <<>>
            <4>1. c.wire = Append(conn.wire, LastPart(s)) /\ c.sent = Append(conn.sent, <<s, s>>)
                BY <2>5, <2>7, <3>1, <3>3
            <4> HIDE DEF conn
            <4> QED
                BY <1>0, <2>7, <3>3, <4>1, GatewayFrames
        <3> QED
            BY <3>2, <3>3
    <2>8. ASSUME NEW c \in ConnectionRecord, Carries(conn, ReaderAt(n)), conn.open = <<>>,
                 c.wire = Append(conn.wire, FirstPart(s)), c.open = <<s>>, c.sent = conn.sent,
                 c.split = conn.split
          PROVE  Carries(c, ReaderAt(n))
        <3> HIDE DEF ended, begun, conn
        <3> QED
            BY <1>0, <2>8, GatewayFrames
    <2> HIDE DEF ended, begun, conn
    <2>9. ASSUME GatewaySends(n, f, ended) PROVE OnItsWay' /\ EachIsMessage'
        BY <1>1, <2>1, <2>2, <2>6, <2>7, <2>9
    <2>10. ASSUME conn.open = <<>>, GatewaySends(n, FirstPart(s), begun) PROVE OnItsWay' /\ EachIsMessage'
        <3>1. FirstPart(s) \in FrameRecord
            BY <1>0, FrameForms
        <3>2. begun.open = <<s>> /\ begun.sent = conn.sent /\ begun.split = conn.split
            BY <2>4, <2>6, <2>10
        <3>3. \A c \in ConnectionRecord :
                c.wire = Append(conn.wire, FirstPart(s)) /\ c.open = begun.open /\
                c.sent = begun.sent /\ c.split = begun.split /\ Carries(conn, ReaderAt(n))
                    => Carries(c, ReaderAt(n))
            BY <2>8, <2>10, <3>2
        <3> QED
            BY <1>1, <2>6, <2>10, <3>1, <3>2, <3>3
    <2> QED
        BY <2>3, <2>4, <2>9, <2>10
<1>3. ASSUME NEW op \in {"ping", "pong", "close"}, SendControl(n, op)
      PROVE  OnItsWay' /\ EachIsMessage'
    <2> DEFINE f == Frame(op, TRUE, 0)
               x == IF conn.open = <<>> THEN conn.split ELSE conn.split \cup {s}
               base == [conn EXCEPT !.split = x]
    <2>1. f \in FrameRecord /\ Control(f)
        BY DEF Frame, FrameRecord, Ops, Control
    <2>2. x \in SUBSET Nat /\ conn.split \subseteq x
        BY <1>0
    <2>3. /\ base \in ConnectionRecord /\ base.wire = conn.wire /\ base.open = conn.open
          /\ base.sent = conn.sent /\ base.split = x
        <3> HIDE DEF x, conn
        <3> QED
            BY <1>0, <2>2 DEF ConnectionRecord
    <2>4. GatewaySends(n, f, base)
        <3>1. CASE conn.open = <<>>
            <4>1. base = conn
                BY <1>0, <3>1 DEF ConnectionRecord
            <4> QED
                BY <1>3, <3>1, <4>1 DEF SendControl
        <3>2. CASE conn.open # <<>>
            BY <1>3, <3>2 DEF SendControl
        <3> QED
            BY <3>1, <3>2
    <2>5. ASSUME NEW c \in ConnectionRecord, Carries(conn, ReaderAt(n)),
                 c.wire = Append(conn.wire, f), c.open = conn.open, c.sent = conn.sent, c.split = x
          PROVE  Carries(c, ReaderAt(n))
        <3>1. c.split = (IF conn.open = <<>> THEN conn.split ELSE conn.split \cup {s})
            BY <2>5
        <3> HIDE DEF base, conn, f, x
        <3> QED
            BY <1>0, <2>1, <2>5, <3>1, GatewayFrames
    <2> HIDE DEF base, conn, f, x
    <2> QED
        BY <1>1, <2>1, <2>2, <2>3, <2>4, <2>5
<1>4. CASE GatewayEnds(n) \/ ContextEnds(n)
    <2>1. PICK c \in {[conn EXCEPT !.gone = TRUE], [conn EXCEPT !.expired = TRUE]} :
              conns' = [conns EXCEPT ![n] = c]
        BY <1>0, <1>4 DEF GatewayEnds, ContextEnds
    <2>2. /\ c \in ConnectionRecord /\ c.wire = conn.wire /\ c.open = conn.open /\ c.sent = conn.sent
          /\ c.split = conn.split
        BY <1>0, <2>1 DEF ConnectionRecord
    <2>3. UNCHANGED <<readers, dialer, received, buffer, current>>
        BY <1>4 DEF GatewayEnds, ContextEnds, clientVars, channelVars
    <2>4. Waiting(n) => Carries(c, ReaderAt(n))
        BY <2>2 DEF OnItsWay, InWire, Carries, GatewayAt
    <2>5. Later(conn, c)
        BY <1>0, <2>2 DEF Later
    <2> HIDE DEF conn
    <2> QED
        BY <2>1, <2>2, <2>3, <2>4, <2>5, ConnectionStep DEF conn
<1> QED
    BY <1>2, <1>3, <1>4 DEF GatewayStep

----------------------------------------------------------------------------
(***************************************************************************)
(* A reader moves: what stands of the others, and what has to be said of   *)
(* itself.                                                                 *)
(***************************************************************************)
LEMMA ReaderStands ==
    ASSUME StreamTypes, OnItsWay, NEW n \in Connections, readers[n].pc # "none",
           NEW r \in ReaderRecord, readers' = [readers EXCEPT ![n] = r], r.pc # "none",
           r.pc \in {"fetch", "read", "pong", "send", "end"} => Active(n),
           UNCHANGED <<dialer, current, received>>, Len(conns') = Len(conns),
           \A m \in Connections \ {n} : conns'[m] = conns[m] /\ Count(m)' = Count(m),
           \A i \in 1 .. Len(Delivered)' : Delivered'[i].from \in Connections,
           Holds(n)', Waiting(n)' => InWire(n)'
    PROVE  OnItsWay'
<1>0. /\ readers'[n] = r /\ \A m \in Connections \ {n} : readers'[m] = readers[m]
      /\ Connections' = Connections /\ Connections = 1 .. Len(conns) /\ Len(conns) \in Nat
    BY WireTypes DEF Connections
<1>1. \A m \in Connections \ {n} : Holds(m)' /\ (Waiting(m)' => InWire(m)')
    BY <1>0, SameConnection DEF OnItsWay
<1>2. (\E d \in Dialers : Starting(d)') => readers'[Len(conns')].pc = "none"
    <2> SUFFICES ASSUME \E d \in Dialers : Starting(d) PROVE readers'[Len(conns)].pc = "none"
        BY DEF Starting
    <2>1. readers[Len(conns)].pc = "none" /\ Len(conns) # n /\ Len(conns) \in Connections
        BY <1>0 DEF OnItsWay
    <2> QED
        BY <1>0, <2>1
<1>3. \A m \in Connections : Active(m)' => m = Len(conns)
    <2> SUFFICES ASSUME NEW m \in Connections, Active(m)' PROVE Active(m)
        BY DEF OnItsWay
    <2> QED
        BY <1>0 DEF Active, Reading
<1> QED
    BY <1>0, <1>1, <1>2, <1>3 DEF OnItsWay

\* A reader that moves on with nothing in its hands, the events as they are.
LEMMA ReaderLetsGo ==
    ASSUME StreamTypes, OnItsWay, EachIsMessage, NEW n \in Connections,
           NEW pc \in {"fetch", "end", "close", "done"}, readers' = [readers EXCEPT ![n] = Reader(pc)],
           readers[n].pc # "none", pc \in {"fetch", "end"} => Active(n),
           pc = "fetch" => readers[n].pc = "pong",
           UNCHANGED <<dialer, current, conns, received, buffer>>
    PROVE  OnItsWay' /\ EachIsMessage'
<1>1. Delivered \in Seq(Event) /\ UNCHANGED Delivered
    BY WireTypes DEF OnItsWay, Delivered
<1>2. readers'[n] = Reader(pc) /\ Reader(pc).pc = pc /\ Reader(pc) \in ReaderRecord
    BY SimpleReader, WireTypes
<1>3. Holds(n)'
    BY <1>2 DEF Holds
<1>4. Waiting(n)' => InWire(n)'
    <2> SUFFICES ASSUME Waiting(n)' PROVE InWire(n)'
        OBVIOUS
    <2>1. pc = "fetch" /\ readers[n].pc = "pong" /\ Count(n)' = Count(n)
        BY <1>1, <1>2, CountsStand DEF Waiting, Reading
    <2>2. ~Mid(n)' /\ ~Mid(n) /\ Awaited(n)' = Awaited(n)
        BY <1>2, <2>1 DEF Mid, Awaited
    <2>3. ReaderAt(n)' = ReaderAt(n)
        BY <2>2 DEF ReaderAt
    <2>4. InWire(n)
        BY <2>1 DEF OnItsWay, Waiting, Reading
    <2> QED
        BY <2>2, <2>3, <2>4 DEF InWire
<1>5. OnItsWay'
    <2>1. \A i \in 1 .. Len(Delivered)' : Delivered'[i].from \in Connections
        BY <1>1 DEF OnItsWay
    <2>2. \A m \in Connections \ {n} : conns'[m] = conns[m] /\ Count(m)' = Count(m)
        BY <1>1, CountsStand
    <2> QED
        BY <1>2, <1>3, <1>4, <2>1, <2>2, ReaderStands
<1>6. EachIsMessage'
    BY <1>1, CountsStand DEF EachIsMessage, IsMessage
<1> QED
    BY <1>5, <1>6

\* The reader asks for the connection: it gets its own, or none after Close.
LEMMA FetchOnItsWay ==
    ASSUME StreamTypes, OnItsWay, EachIsMessage, NEW n \in Connections, Fetch(n)
    PROVE  OnItsWay' /\ EachIsMessage'
<1>1. /\ readers[n].pc = "fetch" /\ UNCHANGED <<dialer, current, conns, received, buffer>>
      /\ readers' = [readers EXCEPT ![n] = IF current = None THEN Reader("end")
                                           ELSE [Reader("read") EXCEPT !.from = current]]
    BY DEF Fetch, clientVars, channelVars
<1>2. Active(n) /\ n = Len(conns)
    BY <1>1 DEF Active, Reading, OnItsWay
<1>3. CASE current = None
    BY <1>1, <1>2, <1>3, ReaderLetsGo
<1>4. CASE current # None
    <2> DEFINE r == [Reader("read") EXCEPT !.from = n]
    <2>1. current = n
        BY <1>2, <1>4 DEF OnItsWay
    <2>2. /\ readers' = [readers EXCEPT ![n] = r] /\ r \in ReaderRecord
          /\ r.pc = "read" /\ r.from = n /\ r.op = "none" /\ r.parts = <<>>
        <3>1. n \in Nat
            BY WireTypes
        <3> QED
            BY <1>1, <1>4, <2>1, <3>1, ReadingFrom DEF Reader
    <2>3. readers'[n] = r
        BY <2>2, WireTypes
    <2> HIDE DEF r
    <2>4. Delivered \in Seq(Event) /\ UNCHANGED Delivered
        BY <1>1, WireTypes DEF OnItsWay, Delivered
    <2>5. Holds(n)'
        BY <2>2, <2>3 DEF Holds
    <2>6. InWire(n)'
        <3>1. Count(n)' = Count(n) /\ InWire(n)
            BY <1>1, <2>4, CountsStand DEF OnItsWay, Waiting, Reading
        <3>2. ReaderAt(n)' = ReaderAt(n)
            BY <1>1, <2>2, <2>3, <3>1 DEF Awaited, Mid, ReaderAt
        <3> QED
            BY <1>1, <3>1, <3>2 DEF InWire
    <2>7. OnItsWay'
        <3>1. \A i \in 1 .. Len(Delivered)' : Delivered'[i].from \in Connections
            BY <2>4 DEF OnItsWay
        <3>2. \A m \in Connections \ {n} : conns'[m] = conns[m] /\ Count(m)' = Count(m)
            BY <1>1, <2>4, CountsStand
        <3> QED
            BY <1>1, <1>2, <2>2, <2>5, <2>6, <3>1, <3>2, ReaderStands
    <2>8. EachIsMessage'
        BY <1>1, <2>4, CountsStand DEF EachIsMessage, IsMessage
    <2> QED
        BY <2>7, <2>8
<1> QED
    BY <1>3, <1>4

\* The reader hands its message over: the events of its connection are one more.
LEMMA SendOnItsWay ==
    ASSUME StreamTypes, OnItsWay, EachIsMessage, NEW n \in Connections, SendEvent(n)
    PROVE  OnItsWay' /\ EachIsMessage'
<1> DEFINE e == [from |-> n, parts |-> readers[n].parts]
           L == Len(Delivered)
<1>1. /\ readers[n].pc = "send" /\ UNCHANGED <<dialer, current, conns, received>>
      /\ readers' = [readers EXCEPT ![n] = Reader("fetch")]
      /\ buffer' = Append(buffer, [from |-> readers[n].from, parts |-> readers[n].parts])
    BY DEF SendEvent, clientVars
<1>2. /\ Holds(n) /\ InWire(n) /\ Active(n)
    BY <1>1 DEF OnItsWay, Waiting, Reading, Active
<1>3. readers[n].from = n /\ IsMessage(conns[n], Count(n) + 1, readers[n].parts)
    BY <1>1, <1>2 DEF Holds
<1>4. Delivered \in Seq(Event) /\ received \in Seq(Event) /\ buffer \in Seq(Event) /\ L \in Nat
    BY WireTypes DEF OnItsWay, StreamTypes, Event
<1>5. e \in Event /\ e.from = n /\ e.parts = readers[n].parts
    BY WireTypes DEF Event, ReaderRecord
<1>6. buffer' = Append(buffer, e)
    BY <1>1, <1>3
<1> HIDE DEF e
<1>7. Delivered' = Append(Delivered, e)
    BY <1>1, <1>4, <1>5, <1>6 DEF Delivered
<1>8. /\ Len(Delivered') = L + 1 /\ Delivered'[L + 1] = e
      /\ \A i \in 1 .. L : Delivered'[i] = Delivered[i]
    BY <1>4, <1>5, <1>7
<1> HIDE DEF L
<1>9. \A i \in 1 .. Len(Delivered') : i \in 1 .. L \/ i = L + 1
    BY <1>4, <1>8
<1>10. \A m \in Connections \ {n} : Count(m)' = Count(m)
    <2> SUFFICES ASSUME NEW m \in Connections \ {n} PROVE Events(m)' = Events(m)
        BY DEF Count
    <2>1. Events(m)' = {i \in 1 .. Len(Delivered') : Delivered'[i].from = m}
        BY DEF Events
    <2>2. L + 1 \notin Events(m)' /\ \A i \in 1 .. L : i \in Events(m)' <=> Delivered[i].from = m
        BY <1>4, <1>5, <1>8, <2>1
    <2>3. Events(m) = {i \in 1 .. L : Delivered[i].from = m}
        BY DEF Events, L
    <2>4. \A i \in Events(m)' : i \in 1 .. L
        BY <1>9, <2>1, <2>2
    <2> QED
        BY <2>2, <2>3, <2>4
<1>11. Count(n)' = Count(n) + 1 /\ Count(n) \in Nat
    <2>1. Events(n)' = Events(n) \cup {L + 1}
        <3>1. Events(n)' = {i \in 1 .. Len(Delivered') : Delivered'[i].from = n}
            BY DEF Events
        <3>2. Events(n) = {i \in 1 .. L : Delivered[i].from = n}
            BY DEF Events, L
        <3>3. L + 1 \in 1 .. Len(Delivered') /\ \A i \in 1 .. L : i \in 1 .. Len(Delivered')
            BY <1>4, <1>8
        <3> QED
            BY <1>5, <1>8, <1>9, <3>1, <3>2, <3>3
    <2>2. L + 1 \notin Events(n)
        BY <1>4 DEF Events, L
    <2>3. IsFiniteSet(Events(n)) /\ Count(n) \in Nat
        BY <1>4, CountTyped
    <2> QED
        BY <2>1, <2>2, <2>3, FS_AddElement DEF Count
<1>12. readers'[n] = Reader("fetch") /\ Reader("fetch").pc = "fetch" /\ Reader("fetch") \in ReaderRecord
    BY <1>1, SimpleReader, WireTypes
<1>13. Holds(n)'
    BY <1>12 DEF Holds
<1>14. InWire(n)'
    <2>1. Awaited(n)' = Awaited(n)
        BY <1>1, <1>11, <1>12 DEF Awaited
    <2>2. Mid(n)' = Mid(n)
        BY <1>1, <1>12 DEF Mid
    <2>3. ReaderAt(n)' = ReaderAt(n)
        BY <2>1, <2>2 DEF ReaderAt
    <2> QED
        BY <1>1, <1>2, <2>3 DEF InWire
<1>15. \A i \in 1 .. Len(Delivered)' : Delivered'[i].from \in Connections
    BY <1>5, <1>8, <1>9 DEF OnItsWay, L
<1>16. OnItsWay'
    BY <1>1, <1>2, <1>10, <1>12, <1>13, <1>14, <1>15, ReaderStands
<1>17. ASSUME NEW i \in 1 .. L
       PROVE  IsMessage(conns[Delivered'[i].from], EventsBefore(i)' + 1, Delivered'[i].parts)
    <2>1. EventsBefore(i)' = EventsBefore(i)
        <3>1. \A j \in 1 .. i - 1 : Delivered'[j] = Delivered[j] /\ Delivered'[i] = Delivered[i]
            BY <1>4, <1>8
        <3>2. {j \in 1 .. i - 1 : Delivered'[j].from = Delivered'[i].from}
              = {j \in 1 .. i - 1 : Delivered[j].from = Delivered[i].from}
            BY <3>1
        <3> QED
            BY <3>2 DEF EventsBefore
    <2>2. Delivered'[i] = Delivered[i]
        BY <1>8
    <2> QED
        BY <2>1, <2>2 DEF EachIsMessage, L
<1>18. ASSUME NEW i \in Nat, i = L + 1
       PROVE  IsMessage(conns[Delivered'[i].from], EventsBefore(i)' + 1, Delivered'[i].parts)
    <2>1. EventsBefore(i)' = Count(n)
        <3>1. i - 1 = L /\ \A j \in 1 .. L : Delivered'[j] = Delivered[j]
            BY <1>4, <1>8, <1>18
        <3>2. Delivered'[i].from = n
            BY <1>5, <1>8, <1>18
        <3>3. {j \in 1 .. i - 1 : Delivered'[j].from = Delivered'[i].from}
              = {j \in 1 .. L : Delivered[j].from = n}
            BY <3>1, <3>2
        <3> QED
            BY <3>3 DEF EventsBefore, Count, Events, L
    <2>2. Delivered'[i].from = n /\ Delivered'[i].parts = readers[n].parts
        BY <1>5, <1>8, <1>18
    <2> QED
        BY <1>3, <2>1, <2>2
<1>19. EachIsMessage'
    <2>1. \A i \in 1 .. Len(Delivered') :
            IsMessage(conns[Delivered'[i].from], EventsBefore(i)' + 1, Delivered'[i].parts)
        <3> SUFFICES ASSUME NEW i \in 1 .. Len(Delivered')
                     PROVE  IsMessage(conns[Delivered'[i].from], EventsBefore(i)' + 1, Delivered'[i].parts)
            OBVIOUS
        <3>1. i \in Nat
            BY <1>4, <1>8
        <3> QED
            BY <1>9, <1>17, <1>18, <3>1
    <2> QED
        BY <1>1, <2>1 DEF EachIsMessage, IsMessage
<1> QED
    BY <1>16, <1>19

\* The reader takes a frame: it waits for the rest of the message, holds the whole message, or
\* has seen a control frame.
LEMMA ReadOnItsWay ==
    ASSUME StreamTypes, OnItsWay, EachIsMessage, NEW n \in Connections, ReadFrame(n)
    PROVE  OnItsWay' /\ EachIsMessage'
<1> DEFINE conn == conns[n]
           frame == Head(conn.wire)
           op == FirstOpcode(readers[n], frame)
           parts == Append(readers[n].parts, frame.data)
           read == [readers[n] EXCEPT !.op = op, !.parts = parts]
           r == IF EndsMessage(frame) THEN [read EXCEPT !.pc = After(read.op)] ELSE read
           w == Tail(conn.wire)
           c == [conn EXCEPT !.wire = w]
           k == Awaited(n)
<1>1. /\ readers[n].pc = "read" /\ Holds(n) /\ InWire(n) /\ Active(n)
    BY DEF ReadFrame, OnItsWay, Waiting, Reading, Active
<1>2. readers[n].from = n
    BY <1>1 DEF Holds
<1>3. /\ conns' = [conns EXCEPT ![n] = c] /\ readers' = [readers EXCEPT ![n] = r]
      /\ conn.wire # <<>> /\ UNCHANGED <<dialer, current, received, buffer>>
    BY <1>2 DEF ReadFrame, clientVars, channelVars
<1>4. /\ conn \in ConnectionRecord /\ readers[n] \in ReaderRecord
      /\ conn.wire \in Seq(FrameRecord) /\ conn.open \in Message /\ conn.sent \in Seq(Message)
      /\ Mid(n) \in BOOLEAN /\ n \in 1 .. Len(conns) /\ n \in 1 .. Len(readers)
    BY WireTypes DEF Mid
<1>5. Delivered \in Seq(Event) /\ UNCHANGED Delivered /\ Count(n) \in Nat /\ k = Count(n) + 1 /\ k \in Nat
    BY <1>1, <1>3, WireTypes, CountTyped DEF OnItsWay, Delivered, Awaited
<1>6. frame \in FrameRecord /\ frame = conn.wire[1] /\ w \in Seq(FrameRecord)
    BY <1>3, <1>4
<1>7. op \in Ops /\ parts \in Message /\ readers[n].parts \in Message
    <2>1. readers[n].parts \in Seq(Nat) /\ readers[n].op \in Ops
        BY <1>4 DEF ReaderRecord, Message
    <2>2. frame.op \in Ops /\ frame.data \in Nat
        BY <1>6 DEF FrameRecord
    <2> HIDE DEF frame
    <2> QED
        BY <2>1, <2>2 DEF FirstOpcode, Message
<1>8. c \in ConnectionRecord /\ c.wire = w /\ c.open = conn.open /\ c.sent = conn.sent
    BY <1>4, <1>6 DEF ConnectionRecord
<1>9. /\ read \in ReaderRecord /\ read.pc = "read" /\ read.from = n /\ read.op = op
      /\ read.parts = parts
    BY <1>1, <1>2, <1>4, <1>7 DEF ReaderRecord
<1>10. After(op) \in {"fetch", "send", "pong", "end"}
    BY DEF After
<1>11. /\ r.from = n /\ r.op = op /\ r.parts = parts /\ r \in ReaderRecord
       /\ r.pc = IF frame.fin THEN After(op) ELSE "read"
    <2> HIDE DEF read, op, parts, frame
    <2>1. CASE frame.fin
        BY <1>9, <1>10, <2>1 DEF EndsMessage, ReaderRecord
    <2>2. CASE ~frame.fin
        BY <1>9, <2>2 DEF EndsMessage
    <2> QED
        BY <2>1, <2>2
<1>12. /\ \/ readers[n].op = "none" /\ readers[n].parts = <<>> /\ ~Mid(n)
          \/ readers[n].op = "text" /\ readers[n].parts = <<k>> /\ Mid(n)
    BY <1>1 DEF Holds, Mid
<1>13. /\ readers'[n] = r /\ conns'[n] = c /\ Len(conns') = Len(conns)
       /\ \A m \in Connections \ {n} : conns'[m] = conns[m]
    <2> HIDE DEF r, c
    <2> QED
        BY <1>3, <1>4, WireTypes
<1>14. PICK a \in ReaderAt(n) \cap Place, b \in Place :
            /\ Leads(a, frame, b, conn.sent, conn.split)
            /\ WireOf(w, {b}, GatewayAt(conn), conn.sent, conn.split)
    <2>1. WireOf(conn.wire, ReaderAt(n), GatewayAt(conn), conn.sent, conn.split)
        BY <1>1 DEF InWire, Carries
    <2>2. conn.wire \in Seq(FrameRecord) /\ conn.wire # <<>> /\ frame = conn.wire[1]
        BY <1>3, <1>4, <1>6
    <2> HIDE DEF conn, frame
    <2> QED
        BY <2>1, <2>2, FrameTaken DEF w
<1>15. /\ readers'[n].pc = r.pc /\ readers'[n].op = op /\ readers'[n].parts = parts
       /\ readers'[n].from = n
       /\ conns'[n].wire = w /\ conns'[n].open = conn.open /\ conns'[n].sent = conn.sent
       /\ conns'[n].split = conn.split /\ Count(n)' = Count(n)
    BY <1>5, <1>8, <1>11, <1>13, CountsStand
<1> HIDE DEF w
<1>16. InWire(n)' <=> WireOf(w, ReaderAt(n)', GatewayAt(conn), conn.sent, conn.split)
    <2>1. conn.open \in {<<>>, <<Len(conn.sent) + 1>>}
        BY <1>1 DEF InWire, Carries
    <2>2. GatewayAt(conns'[n]) = GatewayAt(conn)
        BY <1>15 DEF GatewayAt
    <2>3. InWire(n)' <=> WireOf(conns'[n].wire, ReaderAt(n)', GatewayAt(conns'[n]), conns'[n].sent,
                                conns'[n].split)
        BY <1>15, <2>1 DEF InWire, Carries, GatewayAt
    <2> QED
        BY <1>15, <2>2, <2>3
<1>17. ASSUME b \in ReaderAt(n)' PROVE InWire(n)'
    BY <1>14, <1>16, <1>17, WireFrom
<1>18. frame.op \in Ops /\ frame.data \in Nat /\ frame.fin \in BOOLEAN
    BY <1>6 DEF FrameRecord
<1> HIDE DEF frame, r, read
<1>19. ASSUME ~Mid(n) PROVE Holds(n)' /\ InWire(n)'
    <2>1. /\ readers[n].op = "none" /\ readers[n].parts = <<>> /\ a \in {At(k, "out"), At(k - 1, "cut")}
          /\ (op = frame.op \/ (frame.op = "continuation" /\ op = "none"))
        BY <1>12, <1>14, <1>19 DEF ReaderAt, FirstOpcode
    <2>2. CASE Control(frame)
        <3>1. frame.fin /\ frame.op \in {"ping", "pong", "close"}
            BY <2>2 DEF Control, Frame
        <3>2. r.pc \in {"pong", "end", "fetch"}
            BY <1>11, <2>1, <3>1 DEF After
        <3>3. ~Mid(n)' /\ Awaited(n)' = k
            BY <1>5, <1>15, <3>2 DEF Mid, Awaited
        <3>4. b \in {At(k, "out"), At(k - 1, "cut")}
            BY <1>5, <1>14, <2>1, <2>2, FrameForms DEF Leads, At
        <3>5. b \in ReaderAt(n)'
            BY <3>3, <3>4 DEF ReaderAt
        <3> QED
            BY <1>15, <1>17, <3>2, <3>5 DEF Holds
    <2>3. CASE frame = Whole(k) /\ b = At(k + 1, "out") /\ k <= Len(conn.sent) /\ conn.sent[k] = <<k>>
        <3>1. frame.fin /\ frame.op = "text" /\ frame.data = k
            BY <2>3 DEF Whole, Frame
        <3>2. op = "text" /\ parts = <<k>>
            BY <1>5, <2>1, <3>1, TwoParts
        <3>3. r.pc = "send"
            BY <1>11, <3>1, <3>2 DEF After
        <3>4. Awaited(n)' = k + 1 /\ ~Mid(n)'
            BY <1>5, <1>15, <3>3 DEF Mid, Awaited
        <3>5. b \in ReaderAt(n)'
            BY <2>3, <3>4 DEF ReaderAt
        <3>6. IsMessage(conns'[n], Count(n)' + 1, readers'[n].parts)
            BY <1>5, <1>15, <2>3, <3>2 DEF IsMessage
        <3>7. Holds(n)'
            BY <1>15, <3>3, <3>6 DEF Holds, IsMessage
        <3> QED
            BY <1>17, <3>5, <3>7
    <2>4. CASE frame = FirstPart(k) /\ b = At(k, "in")
        <3>1. ~frame.fin /\ frame.op = "text" /\ frame.data = k
            BY <2>4 DEF FirstPart, Frame
        <3>2. op = "text" /\ parts = <<k>>
            BY <1>5, <2>1, <3>1, TwoParts
        <3>3. r.pc = "read"
            BY <1>11, <3>1
        <3>4. Awaited(n)' = k /\ Mid(n)'
            BY <1>5, <1>15, <3>2, <3>3 DEF Mid, Awaited
        <3>5. b \in ReaderAt(n)'
            BY <2>4, <3>4 DEF ReaderAt
        <3>6. Holds(n)'
            BY <1>15, <3>2, <3>3, <3>4 DEF Holds
        <3> QED
            BY <1>17, <3>5, <3>6
    <2>5. CASE frame = LastPart(k - 1) /\ b = At(k, "out")
        <3>1. frame.fin /\ frame.op = "continuation"
            BY <2>5 DEF LastPart, Frame
        <3>2. r.pc = "fetch"
            BY <1>11, <2>1, <3>1 DEF After
        <3>3. ~Mid(n)' /\ Awaited(n)' = k
            BY <1>5, <1>15, <3>2 DEF Mid, Awaited
        <3>4. b \in ReaderAt(n)'
            BY <2>5, <3>3 DEF ReaderAt
        <3> QED
            BY <1>15, <1>17, <3>2, <3>4 DEF Holds
    <2>6. CASE a = At(k, "out")
        BY <1>14, <2>2, <2>3, <2>4, <2>6 DEF Leads, At
    <2>7. CASE a = At(k - 1, "cut")
        <3>1. k - 1 + 1 = k
            BY <1>5
        <3> QED
            BY <1>14, <2>2, <2>5, <2>7, <3>1 DEF Leads, At
    <2> QED
        BY <2>1, <2>6, <2>7
<1>20. ASSUME Mid(n) PROVE Holds(n)' /\ InWire(n)'
    <2>1. /\ readers[n].op = "text" /\ readers[n].parts = <<k>> /\ a = At(k, "in") /\ op = "text"
        BY <1>12, <1>14, <1>20 DEF ReaderAt, FirstOpcode
    <2>2. ASSUME frame.fin, b \in {At(k, "cut"), At(k + 1, "out")}, IsMessage(conn, k, parts)
          PROVE  Holds(n)' /\ InWire(n)'
        <3>1. r.pc = "send"
            BY <1>11, <2>1, <2>2 DEF After
        <3>2. Awaited(n)' = k + 1 /\ ~Mid(n)' /\ Awaited(n)' - 1 = k
            BY <1>5, <1>15, <3>1 DEF Mid, Awaited
        <3>3. b \in ReaderAt(n)'
            BY <2>2, <3>2 DEF ReaderAt
        <3>4. IsMessage(conns'[n], Count(n)' + 1, readers'[n].parts)
            BY <1>5, <1>15, <2>2 DEF IsMessage
        <3>5. Holds(n)'
            BY <1>15, <3>1, <3>4 DEF Holds, IsMessage
        <3> QED
            BY <1>17, <3>3, <3>5
    <2>3. CASE Control(frame) /\ b = At(k, "cut") /\ k \in conn.split
        <3>1. frame.fin
            BY <2>3 DEF Control, Frame
        <3> QED
            BY <2>2, <2>3, <3>1 DEF IsMessage
    <2>4. CASE frame = LastPart(k) /\ b = At(k + 1, "out") /\ k <= Len(conn.sent) /\ conn.sent[k] = <<k, k>>
        <3>1. frame.fin /\ frame.data = k
            BY <2>4 DEF LastPart, Frame
        <3>2. parts = <<k, k>>
            BY <1>5, <2>1, <3>1, TwoParts
        <3> QED
            BY <2>2, <2>4, <3>1, <3>2 DEF IsMessage
    <2> QED
        BY <1>14, <2>1, <2>3, <2>4 DEF Leads, At
<1>21. Holds(n)' /\ InWire(n)'
    BY <1>19, <1>20
<1>22. OnItsWay'
    <2>1. \A i \in 1 .. Len(Delivered)' : Delivered'[i].from \in Connections
        BY <1>5 DEF OnItsWay
    <2>2. \A m \in Connections \ {n} : conns'[m] = conns[m] /\ Count(m)' = Count(m)
        BY <1>5, <1>13, CountsStand
    <2>3. r.pc # "none"
        BY <1>10, <1>11
    <2> QED
        BY <1>1, <1>3, <1>11, <1>13, <1>21, <2>1, <2>2, <2>3, ReaderStands
<1>23. EachIsMessage'
    <2>1. \A m \in Connections : conns[m] \in ConnectionRecord
        BY WireTypes
    <2>2. \A m \in Connections \ {n} : Later(conns[m], conns'[m])
        BY <1>13, <2>1 DEF Later, ConnectionRecord
    <2>3. Later(conn, c)
        BY <1>4, <1>8 DEF Later
    <2>4. \A m \in Connections : Later(conns[m], conns'[m])
        BY <1>13, <2>2, <2>3
    <2> QED
        BY <1>5, <2>4, EventsStand DEF OnItsWay
<1> QED
    BY <1>22, <1>23

\* A reader's step.
LEMMA ReaderOnItsWay ==
    ASSUME StreamTypes, Uncrossed, OnItsWay, EachIsMessage, NEW n \in Connections, ReaderStep(n)
    PROVE  OnItsWay' /\ EachIsMessage'
<1>1. ASSUME NEW pc \in {"fetch", "end", "close", "done"}, readers' = [readers EXCEPT ![n] = Reader(pc)],
             readers[n].pc \notin {"none", "close"} \/ (readers[n].pc = "close" /\ pc = "done"),
             pc = "end" => Active(n), pc = "fetch" => readers[n].pc = "pong",
             UNCHANGED <<dialer, current, conns, received, buffer>>
      PROVE  OnItsWay' /\ EachIsMessage'
    <2>1. readers[n].pc # "none" /\ (pc \in {"fetch", "end"} => Active(n))
        BY <1>1 DEF Active, Reading
    <2> QED
        BY <1>1, <2>1, ReaderLetsGo
<1>2. CASE SendOnClosed(n)
    <2>1. UNCHANGED <<dialer, current, conns, received, buffer, readers>>
        BY <1>2 DEF SendOnClosed, clientVars, channelVars
    <2>2. UNCHANGED Delivered
        BY <2>1 DEF Delivered
    <2>3. \A m \in Connections : Holds(m)' /\ (Waiting(m)' => InWire(m)')
        BY <2>1, <2>2, CountsStand, SameConnection DEF OnItsWay
    <2>4. \A m \in Connections : Active(m)' <=> Active(m)
        BY <2>1 DEF Active, Reading
    <2> QED
        BY <2>1, <2>2, <2>3, <2>4, CountsStand
        DEF OnItsWay, EachIsMessage, IsMessage, Connections, Starting
<1>3. CASE ReadFails(n) \/ SendGivenUp(n)
    BY <1>1, <1>3 DEF ReadFails, SendGivenUp, clientVars, channelVars, Active, Reading
<1>4. CASE Pong(n)
    BY <1>1, <1>4 DEF Pong, clientVars, channelVars, Active, Reading
<1>5. CASE Disconnect(n)
    BY <1>1, <1>5 DEF Disconnect, channelVars
<1>6. CASE ReaderDone(n)
    BY <1>1, <1>6 DEF ReaderDone, clientVars
<1>7. ~Racing(n)
    BY DEF Racing, Uncrossed, Active, Reading
<1>8. ~ReadTorn(n) /\ ~ReadPanics(n)
    BY <1>7 DEF ReadTorn, ReadPanics
<1> QED
    BY <1>2, <1>3, <1>4, <1>5, <1>6, <1>8, FetchOnItsWay, ReadOnItsWay, SendOnItsWay DEF ReaderStep

\* A new connection has sent nothing, and nothing of it was delivered.
LEMMA NewOnItsWay ==
    ASSUME StreamTypes, Uncrossed, OnItsWay, EachIsMessage, NEW d \in Dialers, DialSucceeds(d),
           dialer[d].looked = Len(conns)
    PROVE  OnItsWay' /\ EachIsMessage'
<1>1. /\ dialer[d].pc = "dial" /\ conns' = Append(conns, NewConnection)
      /\ readers' = Append(readers, Reader("none")) /\ current' = Len(conns')
      /\ UNCHANGED <<received, buffer>>
    BY DEF DialSucceeds, channelVars
<1>2. Delivered \in Seq(Event) /\ UNCHANGED Delivered
    BY <1>1, WireTypes DEF OnItsWay, Delivered
<1>0. PICK new \in Nat : new = Len(conns) + 1
    BY WireTypes
<1>3. /\ Len(conns') = new /\ conns'[new] = NewConnection /\ readers'[new] = Reader("none")
      /\ \A m \in Connections : conns'[m] = conns[m] /\ readers'[m] = readers[m]
      /\ Connections' = 1 .. new /\ Connections = 1 .. Len(conns) /\ new \notin Connections
      /\ \A m \in 1 .. new : m \in Connections \/ m = new
    BY <1>0, <1>1, WireTypes DEF Connections
<1>4. Reader("none").pc = "none"
    BY SimpleReader
<1>5. Count(new)' = 0
    <2>1. \A i \in 1 .. Len(Delivered) : Delivered[i].from # new
        BY <1>3 DEF OnItsWay
    <2>2. {i \in 1 .. Len(Delivered) : Delivered[i].from = new} = {}
        BY <2>1
    <2>3. Count(new)' = Cardinality({i \in 1 .. Len(Delivered) : Delivered[i].from = new})
        BY <1>2 DEF Count, Events
    <2> QED
        BY <2>2, <2>3, FS_EmptySet
<1>6. Holds(new)'
    BY <1>3, <1>4 DEF Holds
<1>7. InWire(new)'
    <2>1. Awaited(new)' = 1 /\ Mid(new)' = FALSE
        BY <1>3, <1>4, <1>5 DEF Awaited, Mid
    <2>2. /\ conns'[new].wire = <<>> /\ conns'[new].open = <<>> /\ conns'[new].sent = <<>>
        BY <1>3 DEF NewConnection
    <2>3. At(1, "out") \in ReaderAt(new)' /\ At(1, "out") \in Place
        BY <2>1 DEF ReaderAt, At, Place
    <2>4. GatewayAt(conns'[new]) = {At(1, "out")}
        BY <2>2 DEF GatewayAt
    <2>5. WireOf(<<>>, ReaderAt(new)', {At(1, "out")}, <<>>, conns'[new].split)
        <3> DEFINE path == <<At(1, "out")>>
        <3>1. path \in Seq(Place) /\ Len(path) = 1 /\ path[1] = At(1, "out") /\ Len(<<>>) = 0
            BY <2>3
        <3> HIDE DEF path
        <3> QED
            BY <2>3, <3>1 DEF WireOf
    <2>6. Carries(conns'[new], ReaderAt(new)')
        BY <2>2, <2>4, <2>5 DEF Carries
    <2> QED
        BY <2>6 DEF InWire, Carries, GatewayAt
<1>8. \A m \in Connections : Holds(m)' /\ (Waiting(m)' => InWire(m)')
    BY <1>2, <1>3, CountsStand, SameConnection DEF OnItsWay
<1>9. \A m \in Connections' : ~Active(m)'
    <2>1. \A m \in Connections : ~Active(m)
        BY <1>1 DEF Uncrossed
    <2>2. \A m \in Connections : ~Active(m)'
        BY <1>3, <2>1 DEF Active, Reading
    <2>3. ~Active(new)'
        BY <1>3, <1>4 DEF Active, Reading
    <2> QED
        BY <1>3, <2>2, <2>3
<1>10. OnItsWay'
    <2>1. received' \in Seq(Event) /\ current' \in {None, Len(conns')}
        BY <1>1 DEF OnItsWay
    <2>2. \A i \in 1 .. Len(Delivered') : Delivered'[i].from \in Connections'
        <3>1. \A m \in Connections : m \in Connections'
            BY <1>0, <1>3, WireTypes
        <3> QED
            BY <1>2, <3>1 DEF OnItsWay
    <2>3. readers'[Len(conns')].pc = "none"
        BY <1>3, <1>4
    <2> QED
        BY <1>3, <1>6, <1>7, <1>8, <1>9, <2>1, <2>2, <2>3 DEF OnItsWay
<1>11. EachIsMessage'
    <2>1. \A m \in Connections : conns[m] \in ConnectionRecord
        BY WireTypes
    <2>2. \A m \in Connections : Later(conns[m], conns'[m])
        BY <1>3, <2>1 DEF Later, ConnectionRecord
    <2> QED
        BY <1>2, <2>2, EventsStand DEF OnItsWay
<1> QED
    BY <1>10, <1>11

\* The reader of the new connection starts.
LEMMA StartOnItsWay ==
    ASSUME StreamTypes, Uncrossed, OnItsWay, EachIsMessage, NEW d \in Dialers, StartReader(d)
    PROVE  OnItsWay' /\ EachIsMessage'
<1>1. /\ Starting(d) /\ UNCHANGED <<conns, current, received, buffer>>
      /\ dialer' = [dialer EXCEPT ![d] = NoCall]
      /\ readers' = [readers EXCEPT ![Len(conns)] = Reader("fetch")]
    BY DEF StartReader, Starting, Uncrossed, clientVars, channelVars
<1>2. Delivered \in Seq(Event) /\ UNCHANGED Delivered
    BY <1>1, WireTypes DEF OnItsWay, Delivered
<1>3. PICK n \in Connections : n = Len(conns)
    <2>1. dialer[d].conn = Len(conns) /\ dialer[d].conn \in 1 .. Len(conns)
        BY <1>1 DEF Uncrossed, Starting, StreamTypes, CallInRange
    <2> QED
        BY <2>1 DEF Connections
<1>4. /\ readers'[n] = Reader("fetch") /\ readers[n].pc = "none" /\ Reader("fetch").pc = "fetch"
      /\ \A m \in Connections \ {n} : readers'[m] = readers[m]
    BY <1>1, <1>3, SimpleReader, WireTypes DEF OnItsWay
<1>5. Holds(n)' /\ InWire(n)'
    <2>1. ReaderAt(n)' = ReaderAt(n)
        BY <1>2, <1>4, CountsStand DEF Awaited, Mid, ReaderAt
    <2>2. InWire(n)
        BY <1>4 DEF OnItsWay, Waiting
    <2> QED
        BY <1>1, <1>4, <2>1, <2>2 DEF Holds, InWire
<1>6. \A m \in Connections \ {n} : Holds(m)' /\ (Waiting(m)' => InWire(m)')
    BY <1>1, <1>2, <1>4, CountsStand, SameConnection DEF OnItsWay
<1>7. \A m \in Connections : Active(m)' => m = Len(conns)
    <2>1. \A m \in Connections : ~Active(m)
        BY <1>1 DEF Uncrossed
    <2> QED
        BY <1>3, <1>4, <2>1 DEF Active, Reading
<1>8. EachIsMessage'
    BY <1>1, <1>2, CountsStand DEF EachIsMessage, IsMessage
<1>9. Connections' = Connections /\ \A e \in Dialers : ~Starting(e)'
    <2>1. \A e \in Dialers : dialer'[e] = IF e = d THEN NoCall ELSE dialer[e]
        BY <1>1 DEF StreamTypes
    <2>2. \A e \in Dialers : Starting(e) => e = d
        BY <1>1 DEF Uncrossed
    <2>3. \A e \in Dialers : ~Starting(e)'
        BY <2>1, <2>2 DEF Starting, NoCall
    <2> QED
        BY <1>1, <2>3 DEF Connections
<1> QED
    BY <1>1, <1>2, <1>5, <1>6, <1>7, <1>8, <1>9 DEF OnItsWay

\* Steps that move no reader and no frame, and the consumer's, which moves an event.
LEMMA QuietOnItsWay ==
    ASSUME StreamTypes, OnItsWay, EachIsMessage, UNCHANGED <<readers, conns, Delivered>>,
           received' \in Seq(Event), current' \in {current, None},
           \A d \in Dialers : Starting(d)' => Starting(d)
    PROVE  OnItsWay' /\ EachIsMessage'
<1>1. \A m \in Connections : Holds(m)' /\ (Waiting(m)' => InWire(m)')
    BY CountsStand, SameConnection DEF OnItsWay
<1>2. \A m \in Connections : Active(m)' <=> Active(m)
    BY DEF Active, Reading
<1> QED
    BY <1>1, <1>2, CountsStand DEF OnItsWay, EachIsMessage, IsMessage, Connections

\* Every step of calls that do not cross keeps what is on its way, and delivers messages.
LEMMA OnItsWayStep ==
    ASSUME StreamTypes, Uncrossed, OnItsWay, EachIsMessage, [Next]_vars, ~crossed'
    PROVE  OnItsWay' /\ EachIsMessage'
<1>0. received \in Seq(Event) /\ buffer \in Seq(Event)
    BY DEF OnItsWay, StreamTypes, Event
<1>1. ASSUME NEW d \in Dialers, StartDial(d) \/ DialFails(d) PROVE OnItsWay' /\ EachIsMessage'
    <2>1. UNCHANGED <<readers, conns, received, buffer, current>>
        BY <1>1 DEF StartDial, DialFails, clientVars, channelVars
    <2>2. UNCHANGED Delivered
        BY <2>1 DEF Delivered
    <2>3. \A e \in Dialers : Starting(e)' => Starting(e)
        <3>1. PICK call \in {NoCall, [pc |-> "dial", looked |-> Len(conns), conn |-> None]} :
                dialer' = [dialer EXCEPT ![d] = call]
            BY <1>1 DEF StartDial, DialFails
        <3>2. call.pc # "start"
            BY <3>1 DEF NoCall
        <3>3. \A e \in Dialers : dialer'[e] = IF e = d THEN call ELSE dialer[e]
            BY <3>1 DEF StreamTypes
        <3> QED
            BY <3>2, <3>3 DEF Starting
    <2> QED
        BY <1>0, <2>1, <2>2, <2>3, QuietOnItsWay
<1>2. CASE Receive
    <2>1. /\ UNCHANGED <<readers, conns, current, dialer>> /\ buffer # <<>>
          /\ received' = Append(received, Head(buffer)) /\ buffer' = Tail(buffer)
        BY <1>2 DEF Receive, clientVars
    <2>2. received' \in Seq(Event) /\ UNCHANGED Delivered
        BY <1>0, <2>1 DEF Delivered
    <2> QED
        BY <2>1, <2>2, QuietOnItsWay DEF Starting
<1>3. CASE SeeEnd \/ StopReading \/ TakeConnection \/ CloseReturns \/ UNCHANGED vars
    <2>1. UNCHANGED <<readers, conns, received, buffer, dialer>> /\ current' \in {current, None}
        BY <1>3 DEF SeeEnd, StopReading, TakeConnection, CloseReturns, vars, clientVars, channelVars
    <2>2. UNCHANGED Delivered
        BY <2>1 DEF Delivered
    <2> QED
        BY <1>0, <2>1, <2>2, QuietOnItsWay DEF Starting
<1>4. CASE CloseConnection
    <2>1. UNCHANGED <<readers, received, buffer, dialer, current>> /\ conns' = CutConnection
        BY <1>4 DEF CloseConnection, clientVars, channelVars
    <2>2. CASE closer.conn = None
        <3>1. UNCHANGED conns /\ UNCHANGED Delivered
            BY <2>1, <2>2 DEF CutConnection, Delivered
        <3> QED
            BY <1>0, <2>1, <3>1, QuietOnItsWay DEF Starting
    <2>3. CASE closer.conn # None
        <3>1. PICK n \in Connections : n = closer.conn
            BY <2>3 DEF StreamTypes, Connections, None
        <3> DEFINE c == [conns[n] EXCEPT !.cut = TRUE]
        <3>2. conns' = [conns EXCEPT ![n] = c]
            BY <2>1, <2>3, <3>1 DEF CutConnection
        <3>3. /\ c \in ConnectionRecord /\ conns[n] \in ConnectionRecord
              /\ c.wire = conns[n].wire /\ c.open = conns[n].open
              /\ c.sent = conns[n].sent /\ c.split = conns[n].split
            BY WireTypes DEF ConnectionRecord
        <3> HIDE DEF c
        <3>4. Waiting(n) => Carries(c, ReaderAt(n))
            BY <3>3 DEF OnItsWay, InWire, Carries, GatewayAt
        <3>5. Later(conns[n], c)
            BY <3>3 DEF Later, ConnectionRecord
        <3> QED
            BY <2>1, <3>2, <3>3, <3>4, <3>5, ConnectionStep
    <2> QED
        BY <2>2, <2>3
<1>5. ASSUME NEW d \in Dialers, DialSucceeds(d) PROVE OnItsWay' /\ EachIsMessage'
    <2>1. dialer[d].looked = Len(conns)
        BY <1>5 DEF DialSucceeds
    <2> QED
        BY <1>5, <2>1, NewOnItsWay
<1> QED
    BY <1>1, <1>2, <1>3, <1>4, <1>5, GatewayOnItsWay, ReaderOnItsWay, StartOnItsWay
    DEF Next, ConsumerStep, CloseStep

\* The invariant: until calls cross, what is on its way and what was delivered are messages.
Deliveries == ~crossed => OnItsWay /\ EachIsMessage

LEMMA DeliveriesStep == StreamTypes /\ OneActive /\ Deliveries /\ [Next]_vars => Deliveries'
<1> SUFFICES ASSUME StreamTypes, OneActive, Deliveries, [Next]_vars, ~crossed'
             PROVE  OnItsWay' /\ EachIsMessage'
    BY DEF Deliveries
<1>1. ~crossed
    <2>1. ASSUME NEW n \in Connections, GatewayStep(n) PROVE UNCHANGED crossed
        BY <2>1, GatewayKeeps DEF setApart
    <2>2. ASSUME NEW n \in Connections, ReaderStep(n) PROVE UNCHANGED crossed
        BY <2>2, ReaderKeeps DEF setApart
    <2>3. ASSUME NEW d \in Dialers, StartDial(d) \/ DialFails(d) \/ DialSucceeds(d) \/ StartReader(d)
          PROVE  ~crossed
        BY <2>3, DialerKeeps
    <2>4. CASE UNCHANGED vars
        BY <2>4 DEF vars, setApart
    <2> QED
        BY <2>1, <2>2, <2>3, <2>4, EndsKeep DEF Next
<1> QED
    BY <1>1, OnItsWayStep DEF OneActive, Deliveries

(***************************************************************************)
(* Event k of a connection is message k the gateway sent over it, whole,   *)
(* or a message with a control frame inside, cut short there: for any      *)
(* number of connections, frames, goroutines that connect and places in    *)
(* the channel, until two calls of ConnectWebSocket cross.                 *)
(***************************************************************************)
THEOREM EventsAlwaysMessages == Spec => []EventsAreMessages
<1>1. Init => OneActive /\ Deliveries
    <2> SUFFICES ASSUME Init PROVE Uncrossed /\ OnItsWay /\ EachIsMessage
        BY DEF OneActive, Deliveries
    <2>1. /\ conns = <<>> /\ Connections = {} /\ received = <<>> /\ buffer = <<>> /\ current = None
          /\ \A d \in Dialers : dialer[d].pc = "idle"
        BY DEF Init, Connections, NoCall
    <2>2. Delivered = <<>> /\ Len(Delivered) = 0
        BY <2>1 DEF Delivered
    <2> QED
        BY <2>1, <2>2 DEF Uncrossed, OnItsWay, EachIsMessage, Starting
<1>2. Deliveries => EventsAreMessages
    BY UnlessCrossed DEF Deliveries
<1> QED
    BY <1>1, <1>2, OneActiveStep, DeliveriesStep, StreamTypesHold, PTL DEF Spec

=============================================================================
