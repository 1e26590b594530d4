------------------------------ MODULE IpcProofs ------------------------------
(***************************************************************************)
(* The IPC server with any number of clients, messages and broadcasts, and *)
(* any depth of the queues: types, NothingBeforeLogin, AnswersInOrder and  *)
(* StopWaitsForHandlers.                                                   *)
(***************************************************************************)
EXTENDS IpcServer, SequenceTheorems, TLAPS

Payloads == [kind: {"none", "result", "error", "notice"}, to: Nat]

ReaderRecord == [pc: {"none", "decode", "handle", "queue", "leave", "gone"},
                 taken: Nat, answer: Payloads, leave: BOOLEAN]

WriterRecord == [pc: {"none", "select", "write", "failed", "gone"}, payload: Payloads]

\* The types by the variables a step changes together.
PeerTypes ==
    /\ peer \in [Clients -> {"away", "connected", "stalled", "gone"}]
    /\ backlog \subseteq Clients

\* The reader has taken no more than was sent, and one message at least when
\* it handles one.
ReaderTypes ==
    /\ reader \in [Clients -> ReaderRecord]
    /\ sent \in [Clients -> Seq(Message)]
    /\ \A c \in Clients : /\ reader[c].taken <= Len(sent[c])
                          /\ reader[c].pc = "handle" => reader[c].taken > 0

QueueTypes ==
    /\ outbound \in [Clients -> Seq(Payloads)]
    /\ \A c \in Clients : Len(outbound[c]) <= Depth

WriterTypes ==
    /\ writer \in [Clients -> WriterRecord]
    /\ received \in [Clients -> Seq(Payloads)]

SetTypes ==
    /\ registered \subseteq Clients
    /\ broadcast \subseteq Clients
    /\ authenticated \in [Clients -> BOOLEAN]

StopTypes ==
    /\ accepting.pc = "register" => accepting.client \in Clients
    /\ stopped \in BOOLEAN
    /\ stop \in [Stoppers -> [pc: {"idle", "listener", "clients", "returned"},
                              list: SUBSET Clients, left: SUBSET Clients]]

Types == PeerTypes /\ ReaderTypes /\ QueueTypes /\ WriterTypes /\ SetTypes /\ StopTypes

\* The types imply the invariant the runs check.
LEMMA TypesSuffice == Types => IpcTypeOK
BY DEF Types, PeerTypes, ReaderTypes, QueueTypes, WriterTypes, SetTypes, StopTypes, ReaderRecord,
       WriterRecord, IpcTypeOK

\* The placeholder is a payload.
LEMMA NoPayloadType == NoPayload \in Payloads
BY DEF NoPayload, Payload, Payloads

\* The initial state has the types.
LEMMA InitTypes == Init => Types
<1> SUFFICES ASSUME Init PROVE Types
    OBVIOUS
<1>1. PeerTypes /\ SetTypes /\ StopTypes
    BY DEF Init, PeerTypes, SetTypes, StopTypes, StopCall
<1>2. ReaderTypes
    <2>1. Reader("none") \in ReaderRecord
        BY NoPayloadType DEF Reader, ReaderRecord
    <2>2. <<>> \in Seq(Message) /\ Reader("none").taken <= Len(<<>>) /\ Reader("none").pc # "handle"
        BY DEF Reader
    <2> QED
        BY <2>1, <2>2 DEF Init, ReaderTypes
<1>3. QueueTypes
    BY IpcAssumption DEF Init, QueueTypes
<1>4. WriterTypes
    <2>1. Writer("none", NoPayload) \in WriterRecord
        BY NoPayloadType DEF Writer, WriterRecord
    <2> QED
        BY <2>1 DEF Init, WriterTypes
<1> QED
    BY <1>1, <1>2, <1>3, <1>4 DEF Types

(***************************************************************************)
(* The client's end and the backlog: clients connect, send, stall and hang *)
(* up, the accept loop takes one, and Stop resets those nobody accepted.   *)
(***************************************************************************)
LEMMA PeerTypesStep == PeerTypes /\ [Next]_vars => PeerTypes'
<1> SUFFICES ASSUME PeerTypes, [Next]_vars PROVE PeerTypes'
    OBVIOUS
<1> USE DEF PeerTypes
<1>1. CASE UNCHANGED vars
    BY <1>1 DEF vars, clientVars, acceptVars
<1>2. ASSUME NEW c \in Clients, ClientStep(c) PROVE PeerTypes'
    BY <1>2 DEF ClientStep, Connect, Stall, HangUp, Send, acceptVars
<1>3. CASE AcceptStep
    BY <1>3 DEF AcceptStep, Accept, Register, AcceptEnds, clientVars
<1>4. ASSUME NEW c \in Clients, ReaderStep(c) PROVE PeerTypes'
    BY <1>4 DEF ReaderStep, Decode, ReadFails, Handle, QueueAnswer, Leave, clientVars, acceptVars
<1>5. ASSUME NEW c \in Clients, WriterStep(c) \/ Deliver(c) \/ Notify(c) PROVE PeerTypes'
    BY <1>5 DEF WriterStep, TakePayload, WriteFails, WriterEnds, Deliver, Notify, clientVars,
                acceptVars
<1>6. CASE Broadcast \/ Cancel
    BY <1>6 DEF Broadcast, Cancel, clientVars, acceptVars
<1>7. ASSUME NEW p \in Stoppers, StopStep(p) PROVE PeerTypes'
    BY <1>7 DEF StopStep, StopCalled, CloseListener, CloseClient, StopReturns, clientVars,
                acceptVars
<1> QED
    BY <1>1, <1>2, <1>3, <1>4, <1>5, <1>6, <1>7 DEF Next

(***************************************************************************)
(* What a step does to a reader is one new record, of a client whose       *)
(* connection it reads.                                                    *)
(***************************************************************************)
LEMMA ReaderUpdate ==
    ASSUME ReaderTypes, NEW c \in Clients, NEW r \in ReaderRecord,
           reader' = [reader EXCEPT ![c] = r], sent' = sent,
           r.taken <= Len(sent[c]), r.pc = "handle" => r.taken > 0
    PROVE  ReaderTypes'
BY DEF ReaderTypes

\* A reader that takes message n is a reader.
LEMMA RecordTaken ==
    ASSUME NEW r \in ReaderRecord, NEW n \in Nat
    PROVE  [r EXCEPT !.pc = "handle", !.taken = n] \in ReaderRecord
BY DEF ReaderRecord

(***************************************************************************)
(* A handled message leaves an answer to queue, or none.                   *)
(***************************************************************************)
LEMMA HandleAnswers ==
    ASSUME ReaderTypes, NEW c \in Clients, Handle(c)
    PROVE  \E pc \in {"queue", "leave", "decode"}, a \in Payloads, l \in BOOLEAN :
                reader' = [reader EXCEPT ![c] = [reader[c] EXCEPT !.pc = pc, !.answer = a,
                                                                  !.leave = l]]
<1> DEFINE New(pc, a, l) == [reader EXCEPT ![c] = [reader[c] EXCEPT !.pc = pc, !.answer = a,
                                                                    !.leave = l]]
           Ok == \E pc \in {"queue", "leave", "decode"}, a \in Payloads, l \in BOOLEAN :
                    reader' = New(pc, a, l)
<1>1. reader[c] \in ReaderRecord
    BY DEF ReaderTypes
<1>2. ASSUME NEW l \in BOOLEAN, NEW kind \in {"result", "error"}, Answer(c, kind, l) PROVE Ok
    <2>1. Payload(kind, reader[c].taken) \in Payloads
        BY <1>1 DEF Payload, Payloads, ReaderRecord
    <2>2. reader' = New("queue", Payload(kind, reader[c].taken), l)
        BY <1>1, <1>2 DEF Answer, ReaderTypes, ReaderRecord
    <2> QED
        BY <2>1, <2>2
<1>3. ASSUME NEW l \in BOOLEAN, NoAnswer(c, l) PROVE Ok
    <2>1. reader' = New(AfterMessage(c, l), reader[c].answer, reader[c].leave)
        BY <1>1, <1>3 DEF NoAnswer, ReaderTypes, ReaderRecord
    <2>2. AfterMessage(c, l) \in {"leave", "decode"}
        BY DEF AfterMessage
    <2>3. reader[c].answer \in Payloads /\ reader[c].leave \in BOOLEAN
        BY <1>1 DEF ReaderRecord
    <2> QED
        BY <2>1, <2>2, <2>3
<1>4. \/ \E l \in BOOLEAN, kind \in {"result", "error"} : Answer(c, kind, l)
      \/ \E l \in BOOLEAN : NoAnswer(c, l)
    <2> DEFINE A(kind, l) == Answer(c, kind, l)
               N(l) == NoAnswer(c, l)
    <2>1. \/ A("error", TRUE) \/ A("error", FALSE) \/ A("result", FALSE)
          \/ N(TRUE) \/ N(FALSE)
        BY DEF Handle, RefuseMessage
    <2> HIDE DEF A, N
    <2>2. \/ \E l \in BOOLEAN, kind \in {"result", "error"} : A(kind, l)
          \/ \E l \in BOOLEAN : N(l)
        BY <2>1
    <2> QED
        BY <2>2 DEF A, N
<1> QED
    BY <1>2, <1>3, <1>4

\* Every step keeps the types of the readers.
LEMMA ReaderTypesStep == ReaderTypes /\ [Next]_vars => ReaderTypes'
<1> SUFFICES ASSUME ReaderTypes, [Next]_vars PROVE ReaderTypes'
    OBVIOUS
<1> USE NoPayloadType
<1>1. CASE UNCHANGED vars
    BY <1>1 DEF vars, clientVars, connVars, ReaderTypes
<1>2. ASSUME NEW c \in Clients, ClientStep(c) PROVE ReaderTypes'
    <2>1. CASE Connect(c) \/ Stall(c) \/ HangUp(c)
        BY <2>1 DEF Connect, Stall, HangUp, connVars, ReaderTypes
    <2>2. ASSUME NEW m \in Messages, Send(c, m) PROVE ReaderTypes'
        <3>1. m \in Message
            BY IpcAssumption
        <3> QED
            BY <2>2, <3>1 DEF Send, connVars, ReaderTypes, ReaderRecord
    <2> QED
        BY <1>2, <2>1, <2>2 DEF ClientStep
<1>3. CASE AcceptStep
    <2>1. ASSUME NEW c \in Clients, Register(c) PROVE ReaderTypes'
        <3>1. Reader("decode") \in ReaderRecord
            BY DEF Reader, ReaderRecord
        <3>2. Reader("decode").taken <= Len(sent[c]) /\ Reader("decode").pc # "handle"
            BY DEF Reader, ReaderTypes
        <3> QED
            BY <2>1, <3>1, <3>2, ReaderUpdate DEF Register, clientVars
    <2>2. ASSUME NEW c \in Clients, Accept(c) PROVE ReaderTypes'
        BY <2>2 DEF Accept, clientVars, connVars, ReaderTypes
    <2>3. CASE AcceptEnds
        BY <2>3 DEF AcceptEnds, clientVars, connVars, ReaderTypes
    <2> QED
        BY <1>3, <2>1, <2>2, <2>3 DEF AcceptStep
<1>4. ASSUME NEW c \in Clients, ReaderStep(c) PROVE ReaderTypes'
    <2> DEFINE r == reader[c]
    <2>1. r \in ReaderRecord /\ r.taken <= Len(sent[c])
        BY DEF ReaderTypes
    <2>2. CASE Decode(c)
        <3>1. r.taken + 1 \in Nat /\ r.taken + 1 <= Len(sent[c]) /\ r.taken + 1 > 0
            BY <2>1, <2>2 DEF Decode, ReaderTypes, ReaderRecord
        <3>2. [r EXCEPT !.pc = "handle", !.taken = r.taken + 1] \in ReaderRecord
            BY <2>1, <3>1, RecordTaken
        <3>3. reader' = [reader EXCEPT ![c] = [r EXCEPT !.pc = "handle", !.taken = r.taken + 1]]
            BY <2>2 DEF Decode, ReaderTypes
        <3> QED
            BY <2>1, <2>2, <3>1, <3>2, <3>3, ReaderUpdate DEF Decode, clientVars, ReaderRecord
    <2>3. CASE ReadFails(c) \/ Leave(c)
        <3>1. PICK pc \in {"leave", "gone"} : reader' = [reader EXCEPT ![c] = [r EXCEPT !.pc = pc]]
            BY <2>3 DEF ReadFails, Leave, ReaderTypes
        <3>2. [r EXCEPT !.pc = pc] \in ReaderRecord
            BY <2>1 DEF ReaderRecord
        <3> QED
            BY <2>1, <2>3, <3>1, <3>2, ReaderUpdate DEF ReadFails, Leave, clientVars, ReaderRecord
    <2>4. CASE Handle(c)
        <3>1. PICK pc \in {"queue", "leave", "decode"}, a \in Payloads, l \in BOOLEAN :
                reader' = [reader EXCEPT ![c] = [r EXCEPT !.pc = pc, !.answer = a, !.leave = l]]
            BY <2>1, <2>4, HandleAnswers
        <3>2. [r EXCEPT !.pc = pc, !.answer = a, !.leave = l] \in ReaderRecord
            BY <2>1 DEF ReaderRecord
        <3> QED
            BY <2>1, <2>4, <3>1, <3>2, ReaderUpdate DEF Handle, clientVars, ReaderRecord
    <2>5. CASE QueueAnswer(c)
        <3>1. PICK pc \in {"leave", "decode"} :
                reader' = [reader EXCEPT ![c] = [r EXCEPT !.pc = pc, !.answer = NoPayload,
                                                          !.leave = FALSE]]
            BY <2>5 DEF QueueAnswer, Resume, AfterMessage, AfterQueueError
        <3>2. [r EXCEPT !.pc = pc, !.answer = NoPayload, !.leave = FALSE] \in ReaderRecord
            BY <2>1 DEF ReaderRecord
        <3> QED
            BY <2>1, <2>5, <3>1, <3>2, ReaderUpdate DEF QueueAnswer, clientVars, ReaderRecord
    <2> QED
        BY <1>4, <2>2, <2>3, <2>4, <2>5 DEF ReaderStep
<1>5. ASSUME NEW c \in Clients, WriterStep(c) \/ Deliver(c) \/ Notify(c) PROVE ReaderTypes'
    BY <1>5 DEF WriterStep, TakePayload, WriteFails, WriterEnds, Deliver, Notify, clientVars,
                ReaderTypes
<1>6. CASE Broadcast \/ Cancel
    BY <1>6 DEF Broadcast, Cancel, clientVars, connVars, ReaderTypes
<1>7. ASSUME NEW p \in Stoppers, StopStep(p) PROVE ReaderTypes'
    BY <1>7 DEF StopStep, StopCalled, CloseListener, CloseClient, StopReturns, clientVars,
                connVars, ReaderTypes
<1> QED
    BY <1>1, <1>2, <1>3, <1>4, <1>5, <1>6, <1>7 DEF Next

(***************************************************************************)
(* The steps that touch a queue, and those that touch a writer or what its *)
(* client has read.                                                        *)
(***************************************************************************)
LEMMA OutboundSteps ==
    ASSUME [Next]_vars
    PROVE  \/ UNCHANGED outbound
           \/ \E c \in Clients : QueueAnswer(c) \/ Notify(c) \/ TakePayload(c)
<1>1. ASSUME NEW c \in Clients, ClientStep(c) PROVE UNCHANGED outbound
    BY <1>1 DEF ClientStep, Connect, Stall, HangUp, Send, connVars
<1>2. CASE AcceptStep \/ Broadcast \/ Cancel \/ UNCHANGED vars
    BY <1>2 DEF AcceptStep, Accept, Register, AcceptEnds, Broadcast, Cancel, vars, connVars
<1>3. ASSUME NEW c \in Clients, Decode(c) \/ ReadFails(c) \/ Handle(c) \/ Leave(c)
      PROVE  UNCHANGED outbound
    BY <1>3 DEF Decode, ReadFails, Handle, Leave
<1>4. ASSUME NEW c \in Clients, WriteFails(c) \/ WriterEnds(c) \/ Deliver(c)
      PROVE  UNCHANGED outbound
    BY <1>4 DEF WriteFails, WriterEnds, Deliver
<1>5. ASSUME NEW p \in Stoppers, StopStep(p) PROVE UNCHANGED outbound
    BY <1>5 DEF StopStep, StopCalled, CloseListener, CloseClient, StopReturns, connVars
<1> QED
    BY <1>1, <1>2, <1>3, <1>4, <1>5 DEF Next, ReaderStep, WriterStep

\* Which steps touch a writer or what its client received.
LEMMA WriterSteps ==
    ASSUME [Next]_vars
    PROVE  \/ UNCHANGED <<writer, received>>
           \/ \E c \in Clients : \/ TakePayload(c) \/ WriteFails(c) \/ WriterEnds(c)
                                 \/ Deliver(c) \/ Register(c)
<1> DEFINE Same == UNCHANGED <<writer, received>>
<1>1. ASSUME NEW c \in Clients, ClientStep(c) PROVE Same
    BY <1>1 DEF ClientStep, Connect, Stall, HangUp, Send, connVars, clientVars
<1>2. ASSUME NEW c \in Clients, Accept(c) PROVE Same
    BY <1>2 DEF Accept, connVars, clientVars
<1>3. CASE AcceptEnds \/ Broadcast \/ Cancel \/ UNCHANGED vars
    BY <1>3 DEF AcceptEnds, Broadcast, Cancel, vars, connVars, clientVars
<1>4. ASSUME NEW c \in Clients, ReaderStep(c) \/ Notify(c) PROVE Same
    BY <1>4 DEF ReaderStep, Decode, ReadFails, Handle, QueueAnswer, Leave, Notify, clientVars
<1>5. ASSUME NEW p \in Stoppers, StopStep(p) PROVE Same
    BY <1>5 DEF StopStep, StopCalled, CloseListener, CloseClient, StopReturns, connVars, clientVars
<1>6. CASE AcceptStep
    BY <1>2, <1>3, <1>6 DEF AcceptStep
<1>7. ASSUME NEW c \in Clients, WriterStep(c) \/ Deliver(c)
      PROVE  TakePayload(c) \/ WriteFails(c) \/ WriterEnds(c) \/ Deliver(c)
    BY <1>7 DEF WriterStep
<1> QED
    BY <1>1, <1>3, <1>4, <1>5, <1>6, <1>7 DEF Next

\* Which steps touch a reader.
LEMMA ReaderSteps ==
    ASSUME [Next]_vars
    PROVE  UNCHANGED reader \/ \E c \in Clients : Register(c) \/ ReaderStep(c)
<1>1. ASSUME NEW c \in Clients, ClientStep(c) \/ WriterStep(c) \/ Deliver(c) \/ Notify(c)
      PROVE  UNCHANGED reader
    BY <1>1 DEF ClientStep, Connect, Stall, HangUp, Send, WriterStep, TakePayload, WriteFails,
                WriterEnds, Deliver, Notify, connVars
<1>2. ASSUME NEW c \in Clients, Accept(c) PROVE UNCHANGED reader
    BY <1>2 DEF Accept, connVars
<1>3. CASE AcceptEnds \/ Broadcast \/ Cancel \/ UNCHANGED vars
    BY <1>3 DEF AcceptEnds, Broadcast, Cancel, vars, connVars
<1>4. ASSUME NEW p \in Stoppers, StopStep(p) PROVE UNCHANGED reader
    BY <1>4 DEF StopStep, StopCalled, CloseListener, CloseClient, StopReturns, connVars
<1>5. CASE AcceptStep
    BY <1>2, <1>3, <1>5 DEF AcceptStep
<1> QED
    BY <1>1, <1>3, <1>4, <1>5 DEF Next

\* Which steps touch the logins.
LEMMA AuthenticatedSteps ==
    ASSUME [Next]_vars
    PROVE  UNCHANGED authenticated \/ \E c \in Clients : Register(c) \/ ReaderStep(c)
<1>1. ASSUME NEW c \in Clients, ClientStep(c) \/ WriterStep(c) \/ Deliver(c) \/ Notify(c)
      PROVE  UNCHANGED authenticated
    BY <1>1 DEF ClientStep, Connect, Stall, HangUp, Send, WriterStep, TakePayload, WriteFails,
                WriterEnds, Deliver, Notify, connVars
<1>2. ASSUME NEW c \in Clients, Accept(c) PROVE UNCHANGED authenticated
    BY <1>2 DEF Accept, connVars
<1>3. CASE AcceptEnds \/ Broadcast \/ Cancel \/ UNCHANGED vars
    BY <1>3 DEF AcceptEnds, Broadcast, Cancel, vars, connVars
<1>4. ASSUME NEW p \in Stoppers, StopStep(p) PROVE UNCHANGED authenticated
    BY <1>4 DEF StopStep, StopCalled, CloseListener, CloseClient, StopReturns, connVars
<1>5. CASE AcceptStep
    BY <1>2, <1>3, <1>5 DEF AcceptStep
<1> QED
    BY <1>1, <1>3, <1>4, <1>5 DEF Next

(***************************************************************************)
(* Queues: room is asked for before a payload is appended, and nothing is  *)
(* when the client is given up.                                            *)
(***************************************************************************)
LEMMA EnqueuedTypes ==
    ASSUME QueueTypes, NEW c \in Clients, NEW p \in Payloads, Enqueued(c, p)
    PROVE  QueueTypes'
<1>1. outbound' = [outbound EXCEPT ![c] = Append(@, p)] /\ Len(outbound[c]) < Depth
    BY DEF Enqueued, HasRoom
<1>2. Append(outbound[c], p) \in Seq(Payloads) /\ Len(Append(outbound[c], p)) = Len(outbound[c]) + 1
    BY DEF QueueTypes
<1> QED
    BY <1>1, <1>2, IpcAssumption DEF QueueTypes

\* Every step keeps the queues within their bound.
LEMMA QueueTypesStep == ReaderTypes /\ QueueTypes /\ [Next]_vars => QueueTypes'
<1> SUFFICES ASSUME ReaderTypes, QueueTypes, [Next]_vars PROVE QueueTypes'
    OBVIOUS
<1>1. CASE UNCHANGED outbound
    BY <1>1 DEF QueueTypes
<1>2. ASSUME NEW c \in Clients, QueueAnswer(c) PROVE QueueTypes'
    <2>1. reader[c].answer \in Payloads
        BY DEF ReaderTypes, ReaderRecord
    <2>2. Enqueued(c, reader[c].answer) \/ UNCHANGED outbound
        BY <1>2 DEF QueueAnswer, QueueError
    <2> QED
        BY <2>1, <2>2, <1>1, EnqueuedTypes
<1>3. ASSUME NEW c \in Clients, Notify(c) PROVE QueueTypes'
    <2>1. Payload("notice", 0) \in Payloads
        BY DEF Payload, Payloads
    <2>2. Enqueued(c, Payload("notice", 0)) \/ UNCHANGED outbound
        BY <1>3 DEF Notify, QueueError
    <2> QED
        BY <2>1, <2>2, <1>1, EnqueuedTypes
<1>4. ASSUME NEW c \in Clients, TakePayload(c) PROVE QueueTypes'
    BY <1>4, IpcAssumption DEF TakePayload, QueueTypes
<1> HIDE DEF QueueTypes
<1>5. \/ UNCHANGED outbound
      \/ \E c \in Clients : QueueAnswer(c) \/ Notify(c) \/ TakePayload(c)
    BY OutboundSteps
<1> QED
    BY <1>1, <1>2, <1>3, <1>4, <1>5

(***************************************************************************)
(* Writers: the payload a writer takes was queued, and what the client     *)
(* reads is the payload of the writer.                                     *)
(***************************************************************************)
LEMMA WriterTypesStep == QueueTypes /\ WriterTypes /\ [Next]_vars => WriterTypes'
<1> SUFFICES ASSUME QueueTypes, WriterTypes, [Next]_vars PROVE WriterTypes'
    OBVIOUS
<1>1. ASSUME NEW c \in Clients, NEW pc \in {"select", "failed", "gone"},
             writer' = [writer EXCEPT ![c] = Writer(pc, NoPayload)],
             received' = received \/ received' = [received EXCEPT ![c] = Append(@, writer[c].payload)]
      PROVE  WriterTypes'
    <2>1. Writer(pc, NoPayload) \in WriterRecord
        BY NoPayloadType DEF Writer, WriterRecord
    <2>2. Append(received[c], writer[c].payload) \in Seq(Payloads)
        BY DEF WriterTypes, WriterRecord
    <2>3. writer' \in [Clients -> WriterRecord]
        BY <1>1, <2>1 DEF WriterTypes
    <2>4. received' \in [Clients -> Seq(Payloads)]
        BY <1>1, <2>2 DEF WriterTypes
    <2> QED
        BY <2>3, <2>4 DEF WriterTypes
<1>2. ASSUME NEW c \in Clients, TakePayload(c) PROVE WriterTypes'
    <2>1. Head(outbound[c]) \in Payloads
        BY <1>2 DEF TakePayload, QueueTypes
    <2>2. Writer("write", Head(outbound[c])) \in WriterRecord
        BY <2>1 DEF Writer, WriterRecord
    <2> QED
        BY <1>2, <2>2 DEF TakePayload, WriterTypes, clientVars
<1>3. ASSUME NEW c \in Clients, WriteFails(c) \/ WriterEnds(c) \/ Deliver(c) \/ Register(c)
      PROVE  WriterTypes'
    BY <1>1, <1>3 DEF WriteFails, WriterEnds, Deliver, AfterWrite, Register, clientVars
<1>4. CASE UNCHANGED <<writer, received>>
    BY <1>4 DEF WriterTypes
<1>5. \/ UNCHANGED <<writer, received>>
      \/ \E c \in Clients : \/ TakePayload(c) \/ WriteFails(c) \/ WriterEnds(c) \/ Deliver(c)
                            \/ Register(c)
    BY WriterSteps
<1> QED
    BY <1>2, <1>3, <1>4, <1>5

\* Every step keeps the types of the map of clients and the logins.
LEMMA SetTypesStep == PeerTypes /\ SetTypes /\ StopTypes /\ [Next]_vars => SetTypes'
<1> SUFFICES ASSUME SetTypes, [Next]_vars PROVE SetTypes'
    OBVIOUS
<1> USE DEF SetTypes
<1>1. CASE UNCHANGED vars
    BY <1>1 DEF vars, connVars
<1>2. ASSUME NEW c \in Clients, ClientStep(c) PROVE SetTypes'
    BY <1>2 DEF ClientStep, Connect, Stall, HangUp, Send, connVars
<1>3. CASE AcceptStep
    BY <1>3 DEF AcceptStep, Accept, Register, AcceptEnds, connVars
<1>4. ASSUME NEW c \in Clients, ReaderStep(c) PROVE SetTypes'
    BY <1>4 DEF ReaderStep, Decode, ReadFails, Handle, QueueAnswer, Leave
<1>5. ASSUME NEW c \in Clients, WriterStep(c) \/ Deliver(c) \/ Notify(c) PROVE SetTypes'
    BY <1>5 DEF WriterStep, TakePayload, WriteFails, WriterEnds, Deliver, Notify
<1>6. CASE Broadcast \/ Cancel
    BY <1>6 DEF Broadcast, Cancel, connVars
<1>7. ASSUME NEW p \in Stoppers, StopStep(p) PROVE SetTypes'
    BY <1>7 DEF StopStep, StopCalled, CloseListener, CloseClient, StopReturns, connVars
<1> QED
    BY <1>1, <1>2, <1>3, <1>4, <1>5, <1>6, <1>7 DEF Next

\* Every step keeps the types of the calls of Stop.
LEMMA StopTypesStep == PeerTypes /\ SetTypes /\ StopTypes /\ [Next]_vars => StopTypes'
<1> SUFFICES ASSUME PeerTypes, SetTypes, StopTypes, [Next]_vars PROVE StopTypes'
    OBVIOUS
<1> USE DEF StopTypes
<1>1. CASE UNCHANGED vars
    BY <1>1 DEF vars, acceptVars, stopVars
<1>2. ASSUME NEW c \in Clients, ClientStep(c) PROVE StopTypes'
    BY <1>2 DEF ClientStep, Connect, Stall, HangUp, Send, acceptVars, stopVars
<1>3. CASE AcceptStep
    BY <1>3 DEF AcceptStep, Accept, Register, AcceptEnds, stopVars
<1>4. ASSUME NEW c \in Clients, ReaderStep(c) PROVE StopTypes'
    BY <1>4 DEF ReaderStep, Decode, ReadFails, Handle, QueueAnswer, Leave, acceptVars, stopVars
<1>5. ASSUME NEW c \in Clients, WriterStep(c) \/ Deliver(c) \/ Notify(c) PROVE StopTypes'
    BY <1>5 DEF WriterStep, TakePayload, WriteFails, WriterEnds, Deliver, Notify, acceptVars, stopVars
<1>6. CASE Broadcast \/ Cancel
    BY <1>6 DEF Broadcast, Cancel, acceptVars, stopVars
<1>7. ASSUME NEW p \in Stoppers, StopStep(p) PROVE StopTypes'
    <2>1. CASE StopCalled(p)
        BY <2>1 DEF StopCalled, StopCall, SetTypes, acceptVars
    <2>2. CASE CloseListener(p)
        BY <2>2 DEF CloseListener
    <2>3. ASSUME NEW c \in Clients, CloseClient(p, c) PROVE StopTypes'
        BY <2>3 DEF CloseClient, acceptVars
    <2>4. CASE StopReturns(p)
        BY <2>4 DEF StopReturns, acceptVars
    <2> QED
        BY <1>7, <2>1, <2>2, <2>3, <2>4 DEF StopStep
<1> QED
    BY <1>1, <1>2, <1>3, <1>4, <1>5, <1>6, <1>7 DEF Next

(***************************************************************************)
(* The types of the server's state, for all values of the constants.       *)
(***************************************************************************)
THEOREM TypesInvariant == Spec => []Types
<1>1. Types /\ [Next]_vars => Types'
    BY PeerTypesStep, ReaderTypesStep, QueueTypesStep, WriterTypesStep, SetTypesStep, StopTypesStep
    DEF Types
<1> QED
    BY <1>1, InitTypes, PTL DEF Spec

\* The type invariant of the server, from the types above.
THEOREM IpcTypes == Spec => []IpcTypeOK
BY TypesInvariant, TypesSuffice, PTL

----------------------------------------------------------------------------
(***************************************************************************)
(* StopWaitsForHandlers is not inductive: nothing in it says that the call *)
(* which returned at once left another at work.  Once somebody called      *)
(* Stop, some call is at work until the accept loop and the handlers are   *)
(* done; done they stay; and only those being served are in the map.       *)
(***************************************************************************)
StopInv ==
    /\ registered \subseteq {c \in Clients : Serving(c)}
    /\ ~stopped => \A p \in Stoppers : stop[p].pc = "idle"
    /\ stopped => AllDone \/ \E p \in Stoppers : stop[p].pc \in {"listener", "clients"}

\* The strengthening implies the property.
LEMMA StopInvSuffices == Types /\ StopInv => StopWaitsForHandlers
BY DEF StopInv, StopWaitsForHandlers, AllDone, Serving, Types, SetTypes, StopTypes, Stoppers

\* The accept loop, the handlers and the map.
LEMMA ServingStep ==
    ASSUME Types, StopInv, [Next]_vars
    PROVE  /\ registered' \subseteq {c \in Clients : Serving(c)'}
           /\ AllDone => AllDone'
<1> USE DEF StopInv, AllDone, Serving
<1>0. reader \in [Clients -> ReaderRecord] /\ registered \subseteq Clients
    BY DEF Types, ReaderTypes, SetTypes
<1>1. CASE UNCHANGED <<reader, registered, accepting>>
    BY <1>1
<1>2. ASSUME NEW c \in Clients, Accept(c) PROVE AllDone' = AllDone /\ UNCHANGED <<reader, registered>>
    BY <1>2 DEF Accept, connVars
<1>3. ASSUME NEW c \in Clients, Register(c)
      PROVE  /\ registered' \subseteq {d \in Clients : Serving(d)'}
             /\ AllDone => AllDone'
    BY <1>0, <1>3 DEF Register, Reader
<1>4. CASE AcceptEnds
    BY <1>4 DEF AcceptEnds, connVars
<1>5. ASSUME NEW c \in Clients, ReaderStep(c)
      PROVE  /\ registered' \subseteq {d \in Clients : Serving(d)'}
             /\ AllDone => AllDone'
    <2>1. Serving(c)
        BY <1>5 DEF ReaderStep, Decode, ReadFails, Handle, QueueAnswer, Leave
    <2>2. \A d \in Clients \ {c} : reader'[d] = reader[d]
        BY <1>0, <1>5 DEF ReaderStep, Decode, ReadFails, Handle, Answer, NoAnswer, RefuseMessage,
                          QueueAnswer, Resume, Leave
    <2>3. CASE Leave(c)
        BY <1>0, <2>1, <2>2, <2>3 DEF Leave
    <2>4. CASE Decode(c) \/ ReadFails(c) \/ Handle(c) \/ QueueAnswer(c)
        <3>1. reader'[c].pc \in {"decode", "handle", "queue", "leave"} /\ UNCHANGED registered
            <4>1. CASE Decode(c) \/ ReadFails(c)
                BY <1>0, <4>1 DEF Decode, ReadFails, ReaderRecord
            <4>2. CASE Handle(c)
                <5>1. UNCHANGED registered
                    BY <4>2 DEF Handle
                <5>2. PICK pc \in {"queue", "leave", "decode"}, a \in Payloads, l \in BOOLEAN :
                        reader' = [reader EXCEPT ![c] = [reader[c] EXCEPT !.pc = pc, !.answer = a,
                                                                          !.leave = l]]
                    BY <4>2, HandleAnswers DEF Types
                <5>3. reader'[c].pc = pc
                    BY <1>0, <5>2 DEF ReaderRecord
                <5> QED
                    BY <5>1, <5>3
            <4>3. CASE QueueAnswer(c)
                BY <1>0, <4>3 DEF QueueAnswer, Resume, AfterMessage, AfterQueueError, ReaderRecord
            <4> QED
                BY <2>4, <4>1, <4>2, <4>3
        <3> QED
            BY <1>0, <2>1, <2>2, <3>1
    <2> QED
        BY <1>5, <2>3, <2>4 DEF ReaderStep
<1>6. ASSUME NEW c \in Clients, ClientStep(c) \/ WriterStep(c) \/ Deliver(c) \/ Notify(c)
      PROVE  UNCHANGED <<reader, registered, accepting>>
    BY <1>6 DEF ClientStep, Connect, Stall, HangUp, Send, WriterStep, TakePayload, WriteFails,
                WriterEnds, Deliver, Notify, connVars, acceptVars
<1>7. CASE Broadcast \/ Cancel \/ UNCHANGED vars
    BY <1>7, <1>1 DEF Broadcast, Cancel, vars, connVars, acceptVars
<1>8. ASSUME NEW p \in Stoppers, StopStep(p) PROVE UNCHANGED <<reader, registered, accepting>>
    BY <1>8 DEF StopStep, StopCalled, CloseListener, CloseClient, StopReturns, connVars, acceptVars
<1> QED
    BY <1>1, <1>2, <1>3, <1>4, <1>5, <1>6, <1>7, <1>8 DEF Next, AcceptStep

\* Every step keeps the strengthening.
LEMMA StopInvStep == Types /\ StopInv /\ [Next]_vars => StopInv'
<1> SUFFICES ASSUME Types, StopInv, [Next]_vars PROVE StopInv'
    OBVIOUS
<1>1. CASE UNCHANGED <<stopped, stop>>
    BY <1>1, ServingStep DEF StopInv
<1>2. ASSUME NEW p \in Stoppers, StopStep(p) PROVE StopInv'
    <2>0. stop \in [Stoppers -> [pc: {"idle", "listener", "clients", "returned"},
                                list: SUBSET Clients, left: SUBSET Clients]]
        BY DEF Types, StopTypes
    <2>1. CASE StopCalled(p)
        BY <2>0, <2>1, ServingStep DEF StopInv, StopCalled, StopCall
    <2>2. CASE CloseListener(p)
        BY <2>0, <2>2, ServingStep DEF StopInv, CloseListener
    <2>3. ASSUME NEW c \in Clients, CloseClient(p, c) PROVE StopInv'
        BY <2>0, <2>3, ServingStep DEF StopInv, CloseClient
    <2>4. CASE StopReturns(p)
        BY <2>0, <2>4, ServingStep DEF StopInv, StopReturns
    <2> QED
        BY <1>2, <2>1, <2>2, <2>3, <2>4 DEF StopStep
<1>3. UNCHANGED <<stopped, stop>> \/ \E p \in Stoppers : StopStep(p)
    <2>1. ASSUME NEW c \in Clients, ClientStep(c) \/ ReaderStep(c) \/ WriterStep(c) \/ Deliver(c)
                                  \/ Notify(c)
          PROVE  UNCHANGED <<stopped, stop>>
        BY <2>1 DEF ClientStep, Connect, Stall, HangUp, Send, ReaderStep, Decode, ReadFails, Handle,
                    QueueAnswer, Leave, WriterStep, TakePayload, WriteFails, WriterEnds, Deliver,
                    Notify, stopVars
    <2>2. CASE AcceptStep \/ Broadcast \/ Cancel \/ UNCHANGED vars
        BY <2>2 DEF AcceptStep, Accept, Register, AcceptEnds, Broadcast, Cancel, vars, stopVars
    <2> QED
        BY <2>1, <2>2 DEF Next
<1> QED
    BY <1>1, <1>2, <1>3

(***************************************************************************)
(* When Stop has returned to everybody who called it no handler runs and   *)
(* none can start, for any number of clients in any state.                 *)
(***************************************************************************)
THEOREM StopWaits == Spec => []StopWaitsForHandlers
<1>1. Init => StopInv
    BY DEF Init, StopInv, StopCall
<1>2. Types /\ Types' /\ StopInv /\ [Next]_vars => StopInv'
    BY StopInvStep
<1> QED
    BY <1>1, <1>2, TypesInvariant, StopInvSuffices, PTL DEF Spec

----------------------------------------------------------------------------
(***************************************************************************)
(* A connection is used once: before the accept loop registers it nothing  *)
(* is known of its client.                                                 *)
(***************************************************************************)
Fresh(c) == reader[c] = Reader("none") /\ ~authenticated[c]

Waiting(c) == c \in backlog \/ (accepting.pc = "register" /\ accepting.client = c)

OnceInv ==
    /\ \A c \in Clients : reader[c].pc = "none" => Fresh(c)
    /\ \A c \in Clients : Waiting(c) => reader[c].pc = "none"
    /\ \A c \in Clients : peer[c] = "away" => reader[c].pc = "none" /\ ~Waiting(c)
    /\ accepting.pc = "register" => accepting.client \notin backlog

\* A connection is accepted and served once: every step keeps it.
LEMMA OnceStep == Types /\ OnceInv /\ [Next]_vars => OnceInv'
<1> SUFFICES ASSUME Types, OnceInv, [Next]_vars PROVE OnceInv'
    OBVIOUS
<1> USE DEF OnceInv, Fresh, Waiting
<1>0. /\ reader \in [Clients -> ReaderRecord] /\ PeerTypes
      /\ authenticated \in [Clients -> BOOLEAN]
    BY DEF Types, ReaderTypes, SetTypes
<1>1. CASE UNCHANGED <<peer, backlog, accepting, reader, authenticated>>
    BY <1>1
<1>2. ASSUME NEW c \in Clients, ClientStep(c) PROVE OnceInv'
    BY <1>0, <1>2 DEF ClientStep, Connect, Stall, HangUp, Send, connVars, acceptVars, PeerTypes
<1>3. ASSUME NEW c \in Clients, Accept(c) PROVE OnceInv'
    BY <1>3 DEF Accept, connVars, clientVars
<1>4. ASSUME NEW c \in Clients, Register(c) PROVE OnceInv'
    BY <1>0, <1>4 DEF Register, Reader, clientVars
<1>5. CASE AcceptEnds
    BY <1>5 DEF AcceptEnds, connVars, clientVars
<1>6. ASSUME NEW c \in Clients, ReaderStep(c) PROVE OnceInv'
    <2>1. reader[c].pc # "none" /\ UNCHANGED <<peer, backlog, accepting>>
        BY <1>6 DEF ReaderStep, Decode, ReadFails, Handle, QueueAnswer, Leave, clientVars, acceptVars
    <2>2. \A d \in Clients \ {c} : reader'[d] = reader[d] /\ authenticated'[d] = authenticated[d]
        BY <1>0, <1>6 DEF ReaderStep, Decode, ReadFails, Handle, Answer, NoAnswer, RefuseMessage,
                          QueueAnswer, Resume, Leave
    <2>3. reader'[c].pc # "none"
        <3>1. CASE Decode(c) \/ ReadFails(c) \/ Leave(c)
            BY <1>0, <3>1 DEF Decode, ReadFails, Leave, ReaderRecord
        <3>2. CASE Handle(c)
            <4>1. PICK pc \in {"queue", "leave", "decode"}, a \in Payloads, l \in BOOLEAN :
                    reader' = [reader EXCEPT ![c] = [reader[c] EXCEPT !.pc = pc, !.answer = a,
                                                                      !.leave = l]]
                BY <3>2, HandleAnswers DEF Types
            <4> QED
                BY <1>0, <4>1 DEF ReaderRecord
        <3>3. CASE QueueAnswer(c)
            BY <1>0, <3>3 DEF QueueAnswer, Resume, AfterMessage, AfterQueueError, ReaderRecord
        <3> QED
            BY <1>6, <3>1, <3>2, <3>3 DEF ReaderStep
    <2> QED
        BY <2>1, <2>2, <2>3
<1>7. ASSUME NEW c \in Clients, WriterStep(c) \/ Deliver(c) \/ Notify(c)
      PROVE  UNCHANGED <<peer, backlog, accepting, reader, authenticated>>
    BY <1>7 DEF WriterStep, TakePayload, WriteFails, WriterEnds, Deliver, Notify, connVars,
                acceptVars, clientVars
<1>8. CASE Broadcast \/ Cancel \/ UNCHANGED vars
    BY <1>1, <1>8 DEF Broadcast, Cancel, vars, connVars, acceptVars, clientVars
<1>9. ASSUME NEW p \in Stoppers, StopStep(p) PROVE OnceInv'
    <2>1. CASE CloseListener(p)
        BY <1>0, <2>1 DEF CloseListener, connVars, PeerTypes
    <2>2. CASE StopCalled(p) \/ StopReturns(p) \/ \E c \in Clients : CloseClient(p, c)
        BY <1>1, <2>2 DEF StopCalled, CloseClient, StopReturns, connVars, acceptVars, clientVars
    <2> QED
        BY <1>9, <2>1, <2>2 DEF StopStep
<1> QED
    BY <1>1, <1>2, <1>3, <1>4, <1>5, <1>6, <1>7, <1>8, <1>9 DEF Next, AcceptStep

(***************************************************************************)
(* What a client has sent stays, and its reader goes on in it.             *)
(***************************************************************************)
LEMMA HistoryKept ==
    ASSUME Types, OnceInv, [Next]_vars, NEW c \in Clients
    PROVE  /\ \A i \in 1 .. Len(sent[c]) : sent'[c][i] = sent[c][i]
           /\ reader[c].taken <= reader'[c].taken
<1>0. /\ reader \in [Clients -> ReaderRecord] /\ sent \in [Clients -> Seq(Message)]
      /\ reader[c].taken \in Nat
    BY DEF Types, ReaderTypes, ReaderRecord
<1>1. CASE UNCHANGED sent /\ reader'[c].taken = reader[c].taken
    BY <1>0, <1>1
<1>2. ASSUME NEW d \in Clients, ClientStep(d)
      PROVE  /\ \A i \in 1 .. Len(sent[c]) : sent'[c][i] = sent[c][i]
             /\ UNCHANGED reader
    <2>1. CASE Connect(d) \/ Stall(d) \/ HangUp(d)
        BY <2>1 DEF Connect, Stall, HangUp, connVars
    <2>2. ASSUME NEW m \in Messages, Send(d, m)
          PROVE  \A i \in 1 .. Len(sent[c]) : sent'[c][i] = sent[c][i]
        BY <1>0, <2>2, IpcAssumption DEF Send
    <2>3. ASSUME NEW m \in Messages, Send(d, m) PROVE UNCHANGED reader
        BY <2>3 DEF Send, connVars
    <2> QED
        BY <1>2, <2>1, <2>2, <2>3 DEF ClientStep
<1>3. ASSUME NEW d \in Clients, Register(d)
      PROVE  UNCHANGED sent /\ reader[c].taken <= reader'[c].taken
    <2>1. Waiting(d) /\ reader[d].taken = 0
        BY <1>3 DEF Register, Waiting, OnceInv, Fresh, Reader
    <2>2. UNCHANGED sent /\ reader' = [reader EXCEPT ![d] = Reader("decode")]
        BY <1>3 DEF Register, clientVars
    <2>3. reader'[c] = IF c = d THEN Reader("decode") ELSE reader[c]
        BY <1>0, <2>2
    <2>4. Reader("decode").taken = 0
        BY DEF Reader
    <2> QED
        BY <1>0, <2>1, <2>2, <2>3, <2>4
<1>4. ASSUME NEW d \in Clients, Accept(d) PROVE UNCHANGED <<sent, reader>>
    BY <1>4 DEF Accept, clientVars, connVars
<1>5. CASE AcceptEnds \/ Broadcast \/ Cancel \/ UNCHANGED vars
    BY <1>1, <1>5 DEF AcceptEnds, Broadcast, Cancel, vars, clientVars, connVars
<1>6. ASSUME NEW d \in Clients, ReaderStep(d)
      PROVE  UNCHANGED sent /\ reader[c].taken <= reader'[c].taken
    <2>1. UNCHANGED sent
        BY <1>6 DEF ReaderStep, Decode, ReadFails, Handle, QueueAnswer, Leave, clientVars
    <2>2. CASE Decode(d)
        BY <1>0, <2>1, <2>2 DEF Decode, ReaderRecord
    <2>4. CASE ReadFails(d) \/ Leave(d)
        <3>1. PICK pc \in {"leave", "gone"} :
                reader' = [reader EXCEPT ![d] = [reader[d] EXCEPT !.pc = pc]]
            BY <1>0, <2>4 DEF ReadFails, Leave
        <3> QED
            BY <1>0, <2>1, <3>1 DEF ReaderRecord
    <2>5. CASE QueueAnswer(d)
        <3>1. PICK pc \in {"leave", "decode"} :
                reader' = [reader EXCEPT ![d] = [reader[d] EXCEPT !.pc = pc, !.answer = NoPayload,
                                                                  !.leave = FALSE]]
            BY <2>5 DEF QueueAnswer, Resume, AfterMessage, AfterQueueError
        <3> QED
            BY <1>0, <2>1, <3>1 DEF ReaderRecord
    <2>3. CASE Handle(d)
        <3>1. PICK pc \in {"queue", "leave", "decode"}, a \in Payloads, l \in BOOLEAN :
                reader' = [reader EXCEPT ![d] = [reader[d] EXCEPT !.pc = pc, !.answer = a,
                                                                  !.leave = l]]
            BY <2>3, HandleAnswers DEF Types
        <3> QED
            BY <1>0, <2>1, <3>1 DEF ReaderRecord
    <2> QED
        BY <1>6, <2>1, <2>2, <2>3, <2>4, <2>5 DEF ReaderStep
<1>7. ASSUME NEW d \in Clients, WriterStep(d) \/ Deliver(d) \/ Notify(d)
      PROVE  UNCHANGED <<sent, reader>>
    BY <1>7 DEF WriterStep, TakePayload, WriteFails, WriterEnds, Deliver, Notify, clientVars
<1>8. ASSUME NEW p \in Stoppers, StopStep(p) PROVE UNCHANGED <<sent, reader>>
    BY <1>8 DEF StopStep, StopCalled, CloseListener, CloseClient, StopReturns, clientVars, connVars
<1> QED
    BY <1>0, <1>1, <1>2, <1>3, <1>4, <1>5, <1>6, <1>7, <1>8 DEF Next, AcceptStep

\* A login that was taken stays among the messages taken.
LEMMA LoginsKept ==
    ASSUME Types, OnceInv, [Next]_vars, NEW c \in Clients, NEW n \in Nat, n <= Len(sent[c]),
           LoggedInBefore(c, n), NEW k \in Nat, n <= k
    PROVE  LoggedInBefore(c, k)'
BY HistoryKept, SMTT(30) DEF LoggedInBefore, Types, ReaderTypes

\* Every payload on its way to the client, and those it has read.
OnTheWay(c) ==
    {reader[c].answer, writer[c].payload} \cup
    {outbound[c][i] : i \in 1 .. Len(outbound[c])} \cup
    {received[c][i] : i \in 1 .. Len(received[c])}

Earned(c, p) ==
    /\ p.kind = "result" => p.to <= reader[c].taken /\ LoggedInBefore(c, p.to)
    /\ p.kind = "notice" => LoggedInBefore(c, reader[c].taken)

(***************************************************************************)
(* NothingBeforeLogin speaks of two places; a payload gets there through   *)
(* the reader and the writer, and what makes a client authenticated is in  *)
(* what it sent.                                                           *)
(***************************************************************************)
LoginInv ==
    \A c \in Clients :
        /\ authenticated[c] => LoggedInBefore(c, reader[c].taken)
        /\ \A p \in OnTheWay(c) : Earned(c, p)

Among(p, s) == \E j \in 1 .. Len(s) : p = s[j]

\* A member of a concatenation is a member of one of the parts.
LEMMA ConcatMembers ==
    ASSUME NEW s \in Seq(Payloads), NEW u \in Seq(Payloads), NEW w, w = s \o u, NEW i \in 1 .. Len(w)
    PROVE  Among(w[i], s) \/ Among(w[i], u)
<1> USE DEF Among
<1>1. /\ Len(s) \in Nat /\ Len(u) \in Nat /\ Len(w) = Len(s) + Len(u)
      /\ i \in 1 .. Len(s) + Len(u)
    OBVIOUS
<1>2. CASE i <= Len(s)
    BY <1>1, <1>2
<1>3. CASE i > Len(s)
    <2>1. i - Len(s) \in 1 .. Len(u)
        BY <1>1, <1>3
    <2>2. w[i] = u[i - Len(s)]
        BY <1>3
    <2> QED
        BY <2>1, <2>2
<1> QED
    BY <1>1, <1>2, <1>3

\* The strengthening implies the property.
LEMMA LoginInvSuffices == Types /\ LoginInv => NothingBeforeLogin
<1> SUFFICES ASSUME Types, LoginInv, NEW c \in Clients,
                    NEW w, w = received[c] \o outbound[c], NEW i \in 1 .. Len(w)
             PROVE  /\ w[i].kind = "result" => LoggedInBefore(c, w[i].to)
                    /\ w[i].kind = "notice" => LoggedInBefore(c, reader[c].taken)
    BY DEF NothingBeforeLogin
<1>1. received[c] \in Seq(Payloads) /\ outbound[c] \in Seq(Payloads)
    BY DEF Types, QueueTypes, WriterTypes
<1>2. Among(w[i], received[c]) \/ Among(w[i], outbound[c])
    BY <1>1, ConcatMembers
<1>3. w[i] \in OnTheWay(c)
    BY <1>2 DEF OnTheWay, Among
<1> QED
    BY <1>3 DEF LoginInv, Earned

\* A payload made in this step.
Made(c, p) ==
    \/ p.kind \notin {"result", "notice"}
    \/ authenticated'[c] /\ (p.kind = "result" => p.to = reader'[c].taken)

(***************************************************************************)
(* The four places a payload may be in: what is new in one is made in this *)
(* step or was in the place before it.                                     *)
(***************************************************************************)
LEMMA AnswerStep ==
    ASSUME Types, [Next]_vars, NEW c \in Clients
    PROVE  reader'[c].answer = reader[c].answer \/ Made(c, reader'[c].answer)
<1>0. reader \in [Clients -> ReaderRecord] /\ authenticated \in [Clients -> BOOLEAN]
    BY DEF Types, ReaderTypes, SetTypes
<1> DEFINE Kept == reader'[c].answer = reader[c].answer
           Ok == Kept \/ Made(c, reader'[c].answer)
<1>1. Made(c, NoPayload)
    BY DEF Made, NoPayload, Payload
<1>2. CASE UNCHANGED reader
    BY <1>2
<1>3. ASSUME NEW d \in Clients, Register(d) PROVE Ok
    BY <1>0, <1>1, <1>3 DEF Register, Reader
<1>4. ASSUME NEW d \in Clients, Decode(d) PROVE Kept
    BY <1>0, <1>4 DEF Decode, ReaderRecord
<1>5. ASSUME NEW d \in Clients, ReadFails(d) \/ Leave(d) PROVE Kept
    BY <1>0, <1>5 DEF ReadFails, Leave, ReaderRecord
<1>6. ASSUME NEW d \in Clients, QueueAnswer(d) PROVE Ok
    BY <1>0, <1>1, <1>6 DEF QueueAnswer, Resume, ReaderRecord
<1>7. ASSUME NEW d \in Clients, Handle(d) PROVE Ok
    <2>1. ASSUME NEW l \in BOOLEAN, NEW kind \in {"result", "error"}, Answer(d, kind, l),
                 kind = "result" => authenticated'[d]
          PROVE  Ok
        <3>1. reader' = [reader EXCEPT ![d] = [reader[d] EXCEPT !.pc = "queue", !.leave = l,
                                                   !.answer = Payload(kind, reader[d].taken)]]
            BY <1>0, <2>1 DEF Answer
        <3>2. reader'[d].answer = Payload(kind, reader[d].taken) /\ reader'[d].taken = reader[d].taken
            BY <1>0, <3>1 DEF ReaderRecord
        <3>3. Made(d, reader'[d].answer)
            BY <2>1, <3>2 DEF Made, Payload
        <3>4. c # d => Kept
            BY <1>0, <3>1
        <3> QED
            BY <3>3, <3>4
    <2>2. ASSUME NEW l \in BOOLEAN, NoAnswer(d, l) PROVE Kept
        BY <1>0, <2>2 DEF NoAnswer, ReaderRecord
    <2>3. \/ \E l \in BOOLEAN, kind \in {"result", "error"} :
                Answer(d, kind, l) /\ (kind = "result" => authenticated'[d])
          \/ \E l \in BOOLEAN : NoAnswer(d, l)
        <3> DEFINE A(kind, l) == Answer(d, kind, l)
                   N(l) == NoAnswer(d, l)
        <3>1. \/ A("error", TRUE) \/ A("error", FALSE) \/ (A("result", FALSE) /\ authenticated'[d])
              \/ N(TRUE) \/ N(FALSE)
            BY <1>0, <1>7 DEF Handle, RefuseMessage, MayCall
        <3> HIDE DEF A, N
        <3>2. \/ \E l \in BOOLEAN, kind \in {"result", "error"} :
                    A(kind, l) /\ (kind = "result" => authenticated'[d])
              \/ \E l \in BOOLEAN : N(l)
            BY <3>1
        <3> QED
            BY <3>2 DEF A, N
    <2> QED
        BY <2>1, <2>2, <2>3
<1>8. UNCHANGED reader \/ \E d \in Clients : Register(d) \/ ReaderStep(d)
    BY ReaderSteps
<1> QED
    BY <1>2, <1>3, <1>4, <1>5, <1>6, <1>7, <1>8 DEF ReaderStep

\* A writer holds what it held, nothing, or a member of its queue.
LEMMA PayloadStep ==
    ASSUME Types, [Next]_vars, NEW c \in Clients
    PROVE  \/ writer'[c].payload \in {writer[c].payload, NoPayload}
           \/ \E i \in 1 .. Len(outbound[c]) : writer'[c].payload = outbound[c][i]
<1>0. /\ writer \in [Clients -> WriterRecord] /\ outbound \in [Clients -> Seq(Payloads)]
    BY DEF Types, WriterTypes, QueueTypes
<1>1. CASE UNCHANGED writer
    BY <1>1
<1>2. ASSUME NEW d \in Clients, TakePayload(d)
      PROVE  \/ writer'[c].payload = writer[c].payload
             \/ \E i \in 1 .. Len(outbound[c]) : writer'[c].payload = outbound[c][i]
    <2>1. outbound[d] # <<>> /\ writer' = [writer EXCEPT ![d] = Writer("write", Head(outbound[d]))]
        BY <1>2 DEF TakePayload
    <2>2. Head(outbound[d]) = outbound[d][1] /\ 1 \in 1 .. Len(outbound[d])
        BY <1>0, <2>1
    <2> QED
        BY <1>0, <2>1, <2>2 DEF Writer
<1>3. ASSUME NEW d \in Clients, WriteFails(d) \/ WriterEnds(d) \/ Deliver(d) \/ Register(d)
      PROVE  writer'[c].payload \in {writer[c].payload, NoPayload}
    <2>1. PICK pc \in {"failed", "gone", "select"} :
            writer' = [writer EXCEPT ![d] = Writer(pc, NoPayload)]
        BY <1>3 DEF WriteFails, WriterEnds, Deliver, AfterWrite, Register
    <2> QED
        BY <1>0, <2>1 DEF Writer
<1> QED
    BY <1>1, <1>2, <1>3, WriterSteps

\* A client receives only what its writer held.
LEMMA ReceivedStep ==
    ASSUME Types, [Next]_vars, NEW c \in Clients, NEW i \in 1 .. Len(received'[c])
    PROVE  \/ received'[c][i] = writer[c].payload
           \/ i \in 1 .. Len(received[c]) /\ received'[c][i] = received[c][i]
<1>0. received \in [Clients -> Seq(Payloads)] /\ writer[c].payload \in Payloads
    BY DEF Types, WriterTypes, WriterRecord
<1>1. CASE UNCHANGED received
    BY <1>1
<1>2. ASSUME NEW d \in Clients, Deliver(d)
      PROVE  \/ received'[c][i] = writer[c].payload
             \/ i \in 1 .. Len(received[c]) /\ received'[c][i] = received[c][i]
    BY <1>0, <1>2 DEF Deliver
<1>3. ASSUME NEW d \in Clients, TakePayload(d) \/ WriteFails(d) \/ WriterEnds(d) \/ Register(d)
      PROVE  UNCHANGED received
    BY <1>3 DEF TakePayload, WriteFails, WriterEnds, Register, clientVars
<1> QED
    BY <1>1, <1>2, <1>3, WriterSteps

\* A queue grows by the answer of the reader or by a notice or error made now.
LEMMA OutboundStep ==
    ASSUME Types, [Next]_vars, NEW c \in Clients, NEW i \in 1 .. Len(outbound'[c])
    PROVE  \/ Made(c, outbound'[c][i]) \/ outbound'[c][i] = reader[c].answer
           \/ \E j \in 1 .. Len(outbound[c]) : outbound'[c][i] = outbound[c][j]
<1>0. /\ outbound \in [Clients -> Seq(Payloads)] /\ reader[c].answer \in Payloads
      /\ Payload("notice", 0) \in Payloads
    BY DEF Types, QueueTypes, ReaderTypes, ReaderRecord, Payload, Payloads
<1> DEFINE Old == \E j \in 1 .. Len(outbound[c]) : outbound'[c][i] = outbound[c][j]
<1>1. CASE UNCHANGED outbound
    BY <1>1
<1>2. ASSUME NEW d \in Clients, TakePayload(d) PROVE Old
    <2>1. outbound[d] # <<>> /\ outbound' = [outbound EXCEPT ![d] = Tail(@)]
        BY <1>2 DEF TakePayload
    <2>2. CASE c = d
        <3>1. outbound'[c] = Tail(outbound[c])
            BY <1>0, <2>1, <2>2
        <3>2. outbound'[c][i] = outbound[c][i + 1] /\ i + 1 \in 1 .. Len(outbound[c])
            BY <1>0, <2>1, <2>2, <3>1
        <3> QED
            BY <3>2
    <2>3. CASE c # d
        BY <1>0, <2>1, <2>3
    <2> QED
        BY <2>2, <2>3
<1>3. ASSUME NEW d \in Clients, NEW p \in Payloads, Enqueued(d, p)
      PROVE  Old \/ (c = d /\ outbound'[c][i] = p)
    <2>1. outbound' = [outbound EXCEPT ![d] = Append(@, p)]
        BY <1>3 DEF Enqueued
    <2>2. CASE c = d
        <3>1. outbound'[c] = Append(outbound[c], p)
            BY <1>0, <2>1, <2>2
        <3>2. outbound'[c][i] = p \/ (i \in 1 .. Len(outbound[c]) /\ outbound'[c][i] = outbound[c][i])
            BY <1>0, <3>1
        <3> QED
            BY <2>2, <3>2
    <2>3. CASE c # d
        BY <1>0, <2>1, <2>3
    <2> QED
        BY <2>2, <2>3
<1>4. ASSUME NEW d \in Clients, QueueAnswer(d)
      PROVE  Old \/ outbound'[c][i] = reader[c].answer
    <2>1. reader[d].answer \in Payloads
        BY DEF Types, ReaderTypes, ReaderRecord
    <2>2. Enqueued(d, reader[d].answer) \/ UNCHANGED outbound
        BY <1>4 DEF QueueAnswer, QueueError
    <2> QED
        BY <1>1, <1>3, <2>1, <2>2
<1>5. ASSUME NEW d \in Clients, Notify(d)
      PROVE  Old \/ Made(c, outbound'[c][i])
    <2>1. \/ Enqueued(d, Payload("notice", 0)) /\ authenticated[d] /\ UNCHANGED authenticated
          \/ UNCHANGED outbound
        BY <1>5 DEF Notify, QueueError
    <2>2. authenticated[c] /\ UNCHANGED authenticated => Made(c, Payload("notice", 0))
        BY DEF Made, Payload
    <2> QED
        BY <1>0, <1>1, <1>3, <2>1, <2>2
<1> QED
    BY <1>1, <1>2, <1>4, <1>5, OutboundSteps

\* Only a login that was taken sets the flag.
LEMMA AuthenticatedStep ==
    ASSUME Types, [Next]_vars, NEW c \in Clients, authenticated'[c], ~authenticated[c]
    PROVE  LoggedInBefore(c, reader[c].taken)'
<1>0. /\ authenticated \in [Clients -> BOOLEAN] /\ reader \in [Clients -> ReaderRecord]
      /\ \A d \in Clients : /\ reader[d].taken \in Nat
                            /\ reader[d].pc = "handle" => reader[d].taken > 0
    BY DEF Types, SetTypes, ReaderTypes, ReaderRecord
<1>1. PICK d \in Clients : Register(d) \/ ReaderStep(d)
    BY AuthenticatedSteps
<1>2. Handle(d)
    BY <1>1 DEF ReaderStep, Decode, ReadFails, QueueAnswer, Leave, Register
<1>3. d = c /\ sent[c][reader[c].taken].kind = "login"
    BY <1>0, <1>2 DEF Handle
<1>4. reader'[c].taken = reader[c].taken
    <2>1. PICK pc \in {"queue", "leave", "decode"}, a \in Payloads, l \in BOOLEAN :
            reader' = [reader EXCEPT ![c] = [reader[c] EXCEPT !.pc = pc, !.answer = a,
                                                              !.leave = l]]
        BY <1>2, <1>3, HandleAnswers DEF Types
    <2> QED
        BY <1>0, <2>1 DEF ReaderRecord
<1>5. reader[c].taken \in 1 .. reader'[c].taken /\ UNCHANGED sent
    BY <1>0, <1>2, <1>3, <1>4 DEF Handle, clientVars
<1> QED
    BY <1>3, <1>5 DEF LoggedInBefore

(***************************************************************************)
(* The login is kept before the answers.                                   *)
(***************************************************************************)
LEMMA LoginStep == Types /\ Types' /\ OnceInv /\ LoginInv /\ [Next]_vars => LoginInv'
<1> SUFFICES ASSUME Types, Types', OnceInv, LoginInv, [Next]_vars, NEW c \in Clients
             PROVE  /\ authenticated'[c] => LoggedInBefore(c, reader[c].taken)'
                    /\ \A p \in OnTheWay(c)' : Earned(c, p)'
    BY DEF LoginInv
<1>0. /\ reader[c].taken \in Nat /\ reader[c].taken <= Len(sent[c])
      /\ reader'[c].taken \in Nat /\ reader[c].taken <= reader'[c].taken
    BY HistoryKept DEF Types, ReaderTypes, ReaderRecord
<1>1. authenticated'[c] => LoggedInBefore(c, reader[c].taken)'
    BY <1>0, AuthenticatedStep, LoginsKept DEF LoginInv
<1>2. ASSUME NEW p \in OnTheWay(c), p.kind = "result" => p.to \in Nat PROVE Earned(c, p)'
    BY <1>0, <1>2, LoginsKept DEF LoginInv, Earned
<1>3. ASSUME NEW p, Made(c, p) PROVE Earned(c, p)'
    BY <1>0, <1>1, <1>3 DEF Made, Earned
<1>4. \A p \in OnTheWay(c) : p \in Payloads
    BY DEF OnTheWay, Types, ReaderTypes, ReaderRecord, QueueTypes, WriterTypes, WriterRecord
<1>5. ASSUME NEW p \in OnTheWay(c)' PROVE p \in OnTheWay(c) \/ Made(c, p)
    <2>1. Made(c, NoPayload)
        BY DEF Made, NoPayload, Payload
    <2>2. CASE p = reader'[c].answer
        BY <2>2, AnswerStep DEF OnTheWay
    <2>3. CASE p = writer'[c].payload
        BY <2>1, <2>3, PayloadStep DEF OnTheWay
    <2>4. ASSUME NEW i \in 1 .. Len(outbound'[c]), p = outbound'[c][i]
          PROVE  p \in OnTheWay(c) \/ Made(c, p)
        BY <2>4, OutboundStep DEF OnTheWay
    <2>5. ASSUME NEW i \in 1 .. Len(received'[c]), p = received'[c][i] PROVE p \in OnTheWay(c)
        BY <2>5, ReceivedStep DEF OnTheWay
    <2> QED
        BY <2>2, <2>3, <2>4, <2>5 DEF OnTheWay
<1> QED
    BY <1>1, <1>2, <1>3, <1>4, <1>5 DEF Payloads

\* The initial state has both strengthenings.
LEMMA InitLogin == Init => OnceInv /\ LoginInv
<1> SUFFICES ASSUME Init PROVE OnceInv /\ LoginInv
    OBVIOUS
<1>1. OnceInv
    BY DEF Init, OnceInv, Fresh, Waiting, Reader
<1>2. ASSUME NEW c \in Clients
      PROVE  ~authenticated[c] /\ OnTheWay(c) = {NoPayload} /\ Earned(c, NoPayload)
    BY DEF Init, OnTheWay, Reader, Writer, Earned, NoPayload, Payload
<1> QED
    BY <1>1, <1>2 DEF LoginInv

(***************************************************************************)
(* Nothing is said to a client before it has logged in, for any number of  *)
(* clients, messages and broadcasts in any order.                          *)
(***************************************************************************)
THEOREM LoginFirstOfAll == Spec => []NothingBeforeLogin
<1>1. Types /\ Types' /\ OnceInv /\ LoginInv /\ [Next]_vars => OnceInv' /\ LoginInv'
    BY OnceStep, LoginStep
<1> QED
    BY <1>1, InitLogin, TypesInvariant, LoginInvSuffices, PTL DEF Spec

----------------------------------------------------------------------------
(***************************************************************************)
(* AnswersInOrder speaks of what a client has read, and what it reads next *)
(* depends on what is under way: the payload its writer holds, then the    *)
(* queue.  While the writer works all of it is in order, it answers every  *)
(* request the reader is done with, and no other; after that it is read no *)
(* more, and a reader that lost an answer leaves.                          *)
(***************************************************************************)
Held(c) == IF writer[c].pc = "write" THEN <<writer[c].payload>> ELSE <<>>

Coming(c) == received[c] \o (Held(c) \o outbound[c])

DoneWith(c) ==
    IF reader[c].pc \in {"handle", "queue"} THEN reader[c].taken - 1 ELSE reader[c].taken

UpTo(payloads, n) ==
    \A i \in 1 .. Len(payloads) : payloads[i].kind # "notice" => payloads[i].to <= n

AllAnswered(payloads, asked, n) ==
    \A k \in 1 .. n : asked[k].request => AnsweredAmong(payloads, Len(payloads), k)

Writes(c) == writer[c].pc \notin {"failed", "gone"}

Reads(c) == reader[c].pc \in {"none", "decode", "handle", "queue"}

AnswerInv ==
    \A c \in Clients :
        /\ InOrder(received[c], sent[c])
        /\ Writes(c) => /\ InOrder(Coming(c), sent[c])
                        /\ UpTo(Coming(c), DoneWith(c))
                        /\ Reads(c) => AllAnswered(Coming(c), sent[c], DoneWith(c))
        /\ reader[c].pc = "queue" => /\ reader[c].taken > 0
                                     /\ reader[c].answer.kind # "notice"
                                     /\ reader[c].answer.to = reader[c].taken
                                     /\ sent[c][reader[c].taken].request
        /\ reader[c].pc = "none" => writer[c].pc = "none"

\* An answer is in its place whatever follows.
LEMMA PlaceKept ==
    ASSUME NEW s, NEW w, NEW asked, NEW i \in Nat, i > 0, \A j \in 1 .. i : w[j] = s[j],
           InPlace(s, i, asked)
    PROVE  InPlace(w, i, asked)
<1>1. /\ s[i].to \in 1 .. Len(asked) /\ asked[s[i].to].request
      /\ \A j \in 1 .. i - 1 : s[j].kind # "notice" => s[j].to < s[i].to
      /\ \A k \in 1 .. s[i].to : asked[k].request => AnsweredAmong(s, i, k)
    BY DEF InPlace
<1>2. w[i] = s[i] /\ \A j \in 1 .. i - 1 : w[j] = s[j]
    OBVIOUS
<1>3. \A k : AnsweredAmong(s, i, k) => AnsweredAmong(w, i, k)
    BY DEF AnsweredAmong
<1> QED
    BY <1>1, <1>2, <1>3 DEF InPlace

\* A beginning of what is in order is in order.
LEMMA BeginningInOrder ==
    ASSUME NEW s \in Seq(Payloads), NEW u \in Seq(Payloads), NEW asked \in Seq(Message),
           InOrder(s \o u, asked)
    PROVE  InOrder(s, asked)
<1>1. PICK w : w = s \o u
    OBVIOUS
<1>2. /\ Len(s) \in Nat /\ Len(w) = Len(s) + Len(u) /\ Len(u) \in Nat
      /\ \A i \in 1 .. Len(s) : w[i] = s[i]
    BY <1>1
<1> SUFFICES ASSUME NEW i \in 1 .. Len(s), s[i].kind # "notice" PROVE InPlace(s, i, asked)
    BY DEF InOrder
<1>3. i \in Nat /\ i > 0 /\ i \in 1 .. Len(w) /\ w[i] = s[i] /\ \A j \in 1 .. i : s[j] = w[j]
    BY <1>2
<1>4. InPlace(w, i, asked)
    BY <1>1, <1>3 DEF InOrder
<1> QED
    BY <1>3, <1>4, PlaceKept

\* What a client sends later changes nothing for what is in order.
LEMMA MoreAsked ==
    ASSUME NEW s \in Seq(Payloads), NEW asked \in Seq(Message), NEW more \in Seq(Message),
           Len(asked) <= Len(more), \A i \in 1 .. Len(asked) : more[i] = asked[i]
    PROVE  /\ InOrder(s, asked) => InOrder(s, more)
           /\ \A n \in 0 .. Len(asked) : AllAnswered(s, asked, n) => AllAnswered(s, more, n)
<1>1. ASSUME InOrder(s, asked), NEW i \in 1 .. Len(s), s[i].kind # "notice"
      PROVE  InPlace(s, i, more)
    <2>1. InPlace(s, i, asked)
        BY <1>1 DEF InOrder
    <2>2. /\ s[i].to \in 1 .. Len(more) /\ more[s[i].to] = asked[s[i].to]
          /\ \A k \in 1 .. s[i].to : more[k] = asked[k]
        BY <2>1 DEF InPlace
    <2> QED
        BY <2>1, <2>2 DEF InPlace
<1>2. ASSUME NEW n \in 0 .. Len(asked), AllAnswered(s, asked, n) PROVE AllAnswered(s, more, n)
    BY <1>2 DEF AllAnswered
<1> QED
    BY <1>1, <1>2 DEF InOrder

\* One payload more: those before it stand, and answer what they answered.
OneMore(w, s, p, asked) ==
    /\ Len(s) \in Nat /\ Len(w) = Len(s) + 1 /\ w[Len(w)] = p
    /\ \A i \in 1 .. Len(s) : w[i] = s[i]
    /\ \A i \in 1 .. Len(w) : i \in 1 .. Len(s) \/ i = Len(w)
    /\ \A k : AnsweredAmong(s, Len(s), k) => AnsweredAmong(w, Len(w), k)
    /\ \A i \in 1 .. Len(s) : w[i].kind # "notice" => InPlace(w, i, asked)

LEMMA OnePayloadMore ==
    ASSUME NEW s \in Seq(Payloads), NEW p \in Payloads, NEW asked, InOrder(s, asked)
    PROVE  OneMore(Append(s, p), s, p, asked)
<1> SUFFICES ASSUME NEW w, w = Append(s, p) PROVE OneMore(w, s, p, asked)
    OBVIOUS
<1>1. /\ Len(s) \in Nat /\ Len(w) = Len(s) + 1 /\ w[Len(w)] = p
      /\ \A i \in 1 .. Len(s) : w[i] = s[i]
      /\ \A i \in 1 .. Len(w) : i \in 1 .. Len(s) \/ i = Len(w)
    OBVIOUS
<1>2. ASSUME NEW k, AnsweredAmong(s, Len(s), k) PROVE AnsweredAmong(w, Len(w), k)
    BY <1>1, <1>2 DEF AnsweredAmong
<1>3. ASSUME NEW i \in 1 .. Len(s), w[i].kind # "notice" PROVE InPlace(w, i, asked)
    <2>1. InPlace(s, i, asked) /\ i \in Nat /\ i > 0 /\ \A j \in 1 .. i : w[j] = s[j]
        BY <1>1, <1>3 DEF InOrder
    <2> QED
        BY <2>1, PlaceKept
<1> QED
    BY <1>1, <1>2, <1>3 DEF OneMore

\* A notification at the end disturbs no order.
LEMMA NoticeInOrder ==
    ASSUME NEW s \in Seq(Payloads), NEW asked \in Seq(Message), NEW n \in Nat,
           InOrder(s, asked), UpTo(s, n), NEW w, w = Append(s, Payload("notice", 0))
    PROVE  /\ InOrder(w, asked) /\ UpTo(w, n)
           /\ AllAnswered(s, asked, n) => AllAnswered(w, asked, n)
<1>0. Payload("notice", 0) \in Payloads /\ Payload("notice", 0).kind = "notice"
    BY DEF Payload, Payloads
<1>1. OneMore(w, s, Payload("notice", 0), asked)
    BY <1>0, OnePayloadMore
<1>2. w[Len(w)].kind = "notice"
    BY <1>0, <1>1 DEF OneMore
<1>3. InOrder(w, asked)
    BY <1>1, <1>2 DEF OneMore, InOrder
<1>4. UpTo(w, n)
    BY <1>1, <1>2 DEF OneMore, UpTo
<1>5. AllAnswered(s, asked, n) => AllAnswered(w, asked, n)
    BY <1>1, <1>2 DEF OneMore, AllAnswered
<1> QED
    BY <1>3, <1>4, <1>5

\* The answer to the next request, when all before it are answered.
LEMMA AnswerInOrder ==
    ASSUME NEW s \in Seq(Payloads), NEW asked \in Seq(Message), NEW n \in Nat,
           n + 1 <= Len(asked), asked[n + 1].request,
           InOrder(s, asked), UpTo(s, n), AllAnswered(s, asked, n),
           NEW p \in Payloads, p.kind # "notice", p.to = n + 1,
           NEW w, w = Append(s, p)
    PROVE  InOrder(w, asked) /\ UpTo(w, n + 1) /\ AllAnswered(w, asked, n + 1)
<1>0. OneMore(w, s, p, asked)
    BY OnePayloadMore
<1>1. /\ Len(s) \in Nat /\ Len(w) = Len(s) + 1 /\ w[Len(w)] = p
      /\ \A i \in 1 .. Len(s) : w[i] = s[i]
      /\ \A i \in 1 .. Len(w) : i \in 1 .. Len(s) \/ i = Len(w)
      /\ \A k : AnsweredAmong(s, Len(s), k) => AnsweredAmong(w, Len(w), k)
      /\ \A i \in 1 .. Len(s) : w[i].kind # "notice" => InPlace(w, i, asked)
    BY <1>0 DEF OneMore
<1>2. AllAnswered(w, asked, n + 1)
    <2>1. AnsweredAmong(w, Len(w), n + 1)
        BY <1>1 DEF AnsweredAmong
    <2>2. \A k \in 1 .. n + 1 : k \in 1 .. n \/ k = n + 1
        OBVIOUS
    <2> QED
        BY <1>1, <2>1, <2>2 DEF AllAnswered
<1>3. ASSUME NEW i \in 1 .. Len(s), w[i].kind # "notice" PROVE w[i].to < n + 1
    <2>1. s[i] \in Payloads /\ s[i].to <= n /\ w[i] = s[i]
        BY <1>1, <1>3 DEF UpTo
    <2> QED
        BY <2>1 DEF Payloads
<1>4. UpTo(w, n + 1)
    <2> SUFFICES ASSUME NEW i \in 1 .. Len(w), w[i].kind # "notice" PROVE w[i].to <= n + 1
        BY DEF UpTo
    <2>1. CASE i = Len(w)
        BY <1>1, <2>1
    <2>2. CASE i \in 1 .. Len(s)
        <3>1. s[i] \in Payloads /\ s[i].to <= n /\ w[i] = s[i]
            BY <1>1, <2>2 DEF UpTo
        <3> QED
            BY <3>1 DEF Payloads
    <2> QED
        BY <1>1, <2>1, <2>2
<1>5. InPlace(w, Len(w), asked)
    <2>1. w[Len(w)].to = n + 1
        BY <1>1
    <2>2. \A j \in 1 .. Len(w) - 1 : w[j].kind # "notice" => w[j].to < n + 1
        BY <1>1, <1>3
    <2>3. \A k \in 1 .. n + 1 : asked[k].request => AnsweredAmong(w, Len(w), k)
        BY <1>2 DEF AllAnswered
    <2>4. n + 1 \in 1 .. Len(asked)
        OBVIOUS
    <2> QED
        BY <2>1, <2>2, <2>3, <2>4 DEF InPlace
<1>6. InOrder(w, asked)
    BY <1>1, <1>5 DEF InOrder
<1> QED
    BY <1>2, <1>4, <1>6

\* What answers no request after n answers none after n + 1.
LEMMA OneFurther ==
    ASSUME NEW s \in Seq(Payloads), NEW n \in Nat, UpTo(s, n)
    PROVE  UpTo(s, n + 1)
<1> SUFFICES ASSUME NEW i \in 1 .. Len(s), s[i].kind # "notice" PROVE s[i].to <= n + 1
    BY DEF UpTo
<1>1. s[i] \in Payloads /\ s[i].to <= n
    BY DEF UpTo
<1> QED
    BY <1>1 DEF Payloads

(***************************************************************************)
(* What is under way to a client changes only by its own reader, writer    *)
(* and notifications.                                                      *)
(***************************************************************************)
LEMMA PipeSteps ==
    ASSUME Types, [Next]_vars, NEW c \in Clients
    PROVE  \/ /\ outbound'[c] = outbound[c] /\ writer'[c] = writer[c] /\ received'[c] = received[c]
           \/ QueueAnswer(c) \/ Notify(c) \/ WriterStep(c) \/ Deliver(c) \/ Register(c)
<1> DEFINE Same == outbound'[c] = outbound[c] /\ writer'[c] = writer[c] /\ received'[c] = received[c]
<1>0. /\ outbound \in [Clients -> Seq(Payloads)] /\ writer \in [Clients -> WriterRecord]
      /\ received \in [Clients -> Seq(Payloads)]
    BY DEF Types, QueueTypes, WriterTypes
<1>1. CASE UNCHANGED <<outbound, writer, received>>
    BY <1>1
<1>2. ASSUME NEW d \in Clients \ {c}, QueueAnswer(d) \/ Notify(d) PROVE Same
    BY <1>0, <1>2 DEF QueueAnswer, Notify, Enqueued, QueueError, clientVars
<1>3. ASSUME NEW d \in Clients \ {c}, WriterStep(d) \/ Deliver(d) PROVE Same
    BY <1>0, <1>3 DEF WriterStep, TakePayload, WriteFails, WriterEnds, Deliver, clientVars
<1>4. ASSUME NEW d \in Clients \ {c}, Register(d) PROVE Same
    BY <1>0, <1>4 DEF Register, clientVars
<1>5. \/ UNCHANGED outbound
      \/ \E d \in Clients : QueueAnswer(d) \/ Notify(d) \/ TakePayload(d)
    BY OutboundSteps
<1>6. \/ UNCHANGED <<writer, received>>
      \/ \E d \in Clients : \/ TakePayload(d) \/ WriteFails(d) \/ WriterEnds(d)
                            \/ Deliver(d) \/ Register(d)
    BY WriterSteps
<1> QED
    BY <1>1, <1>2, <1>3, <1>4, <1>5, <1>6 DEF WriterStep

\* What is under way is a sequence of payloads.
LEMMA ComingType ==
    ASSUME Types, NEW c \in Clients
    PROVE  /\ received[c] \in Seq(Payloads) /\ outbound[c] \in Seq(Payloads)
           /\ Held(c) \in Seq(Payloads) /\ Coming(c) \in Seq(Payloads)
<1>1. /\ received[c] \in Seq(Payloads) /\ outbound[c] \in Seq(Payloads)
      /\ writer[c].payload \in Payloads
    BY DEF Types, QueueTypes, WriterTypes, WriterRecord
<1>2. Held(c) \in Seq(Payloads)
    BY <1>1 DEF Held
<1> QED
    BY <1>1, <1>2 DEF Coming

\* The first of a queue, moved from it to the end of what came before.
LEMMA HeadMoves ==
    ASSUME NEW q \in Seq(Payloads), q # <<>>
    PROVE  <<>> \o q = <<Head(q)>> \o Tail(q)
<1>1. /\ <<>> \o q \in Seq(Payloads) /\ <<Head(q)>> \o Tail(q) \in Seq(Payloads)
      /\ Len(<<>> \o q) = Len(q) /\ Len(<<Head(q)>> \o Tail(q)) = Len(q)
      /\ \A i \in 1 .. Len(q) : (<<>> \o q)[i] = (<<Head(q)>> \o Tail(q))[i]
    OBVIOUS
<1> QED
    BY <1>1, SeqEqual

\* What is written is read next.
LEMMA PayloadMoves ==
    ASSUME NEW s \in Seq(Payloads), NEW q \in Seq(Payloads), NEW p \in Payloads
    PROVE  Append(s, p) \o (<<>> \o q) = s \o (<<p>> \o q)
<1> DEFINE a == Append(s, p) \o (<<>> \o q)
           b == s \o (<<p>> \o q)
<1>1. /\ a \in Seq(Payloads) /\ b \in Seq(Payloads)
      /\ Len(a) = Len(s) + 1 + Len(q) /\ Len(b) = Len(a)
    OBVIOUS
<1>2. ASSUME NEW i \in 1 .. Len(a) PROVE a[i] = b[i]
    <2>1. CASE i <= Len(s)
        BY <2>1
    <2>2. CASE i = Len(s) + 1
        BY <2>2
    <2>3. CASE i > Len(s) + 1
        BY <1>1, <2>3
    <2> QED
        BY <1>1, <2>1, <2>2, <2>3
<1> HIDE DEF a, b
<1>3. a = b
    BY <1>1, <1>2, SeqEqual
<1> QED
    BY <1>3 DEF a, b

\* What is queued comes last.
LEMMA QueuedLast ==
    ASSUME NEW s \in Seq(Payloads), NEW h \in Seq(Payloads), NEW q \in Seq(Payloads),
           NEW p \in Payloads
    PROVE  s \o (h \o Append(q, p)) = Append(s \o (h \o q), p)
<1> DEFINE a == s \o (h \o Append(q, p))
           b == Append(s \o (h \o q), p)
<1>1. /\ a \in Seq(Payloads) /\ b \in Seq(Payloads)
      /\ Len(a) = Len(s) + Len(h) + Len(q) + 1 /\ Len(b) = Len(a)
    OBVIOUS
<1>2. ASSUME NEW i \in 1 .. Len(a) PROVE a[i] = b[i]
    <2>1. CASE i <= Len(s)
        BY <2>1
    <2>2. CASE i > Len(s) /\ i <= Len(s) + Len(h)
        BY <2>2
    <2>3. CASE i > Len(s) + Len(h) /\ i <= Len(s) + Len(h) + Len(q)
        BY <2>3
    <2>4. CASE i = Len(s) + Len(h) + Len(q) + 1
        BY <2>4
    <2> QED
        BY <1>1, <2>1, <2>2, <2>3, <2>4
<1> HIDE DEF a, b
<1>3. a = b
    BY <1>1, <1>2, SeqEqual
<1> QED
    BY <1>3 DEF a, b

\* What a client has sent only grows.
LEMMA SentGrows ==
    ASSUME Types, Types', [Next]_vars, NEW c \in Clients
    PROVE  /\ sent[c] \in Seq(Message) /\ sent'[c] \in Seq(Message)
           /\ Len(sent[c]) <= Len(sent'[c])
           /\ \A i \in 1 .. Len(sent[c]) : sent'[c][i] = sent[c][i]
<1>0. sent \in [Clients -> Seq(Message)] /\ sent' \in [Clients -> Seq(Message)]
    BY DEF Types, ReaderTypes
<1>1. CASE UNCHANGED sent
    BY <1>0, <1>1
<1>2. ASSUME NEW d \in Clients, NEW m \in Messages, Send(d, m)
      PROVE  /\ Len(sent[c]) <= Len(sent'[c])
             /\ \A i \in 1 .. Len(sent[c]) : sent'[c][i] = sent[c][i]
    BY <1>0, <1>2, IpcAssumption DEF Send
<1>3. UNCHANGED sent \/ \E d \in Clients, m \in Messages : Send(d, m)
    <2>1. ASSUME NEW d \in Clients, \/ ReaderStep(d) \/ WriterStep(d) \/ Deliver(d) \/ Notify(d)
                                    \/ Connect(d) \/ Stall(d) \/ HangUp(d)
          PROVE  UNCHANGED sent
        BY <2>1 DEF ReaderStep, Decode, ReadFails, Handle, QueueAnswer, Leave, WriterStep,
                    TakePayload, WriteFails, WriterEnds, Deliver, Notify, Connect, Stall, HangUp,
                    clientVars
    <2>2. CASE AcceptStep \/ Broadcast \/ Cancel \/ UNCHANGED vars
        BY <2>2 DEF AcceptStep, Accept, Register, AcceptEnds, Broadcast, Cancel, vars, clientVars
    <2>3. ASSUME NEW p \in Stoppers, StopStep(p) PROVE UNCHANGED sent
        BY <2>3 DEF StopStep, StopCalled, CloseListener, CloseClient, StopReturns, clientVars
    <2> QED
        BY <2>1, <2>2, <2>3 DEF Next, ClientStep
<1> QED
    BY <1>0, <1>1, <1>2, <1>3

(***************************************************************************)
(* A reader that handles a message has its answer to queue, ends the       *)
(* connection, or goes on after one that asks for no answer.               *)
(***************************************************************************)
LEMMA HandleOutcome ==
    ASSUME Types, NEW c \in Clients, Handle(c)
    PROVE  /\ reader'[c].taken = reader[c].taken
           /\ \/ /\ reader'[c].pc = "queue" /\ sent[c][reader[c].taken].request
                 /\ reader'[c].answer.kind # "notice" /\ reader'[c].answer.to = reader[c].taken
              \/ reader'[c].pc = "leave"
              \/ reader'[c].pc = "decode" /\ ~sent[c][reader[c].taken].request
<1> DEFINE m == sent[c][reader[c].taken]
<1>0. /\ reader \in [Clients -> ReaderRecord] /\ reader[c] \in ReaderRecord
      /\ m \in Message
    BY DEF Types, ReaderTypes, ReaderRecord, Handle
<1>1. \/ \E l \in BOOLEAN, kind \in {"result", "error"} : m.request /\ Answer(c, kind, l)
      \/ \E l \in BOOLEAN : NoAnswer(c, l) /\ (l \/ ~m.request)
    <2> DEFINE A(kind, l) == Answer(c, kind, l)
               N(l) == NoAnswer(c, l)
    <2>1. /\ m.kind \in {"garbage", "badVersion"} => m.request
          /\ m.kind = "response" => ~m.request
        <3>1. ASSUME NEW said \in Message
              PROVE  /\ said.kind \in {"garbage", "badVersion"} => said.request = TRUE
                     /\ said.kind = "response" => said.request = FALSE
            <4>1. CASE said \in [kind: {"login", "badLogin", "call", "empty"}, request: BOOLEAN]
                BY <4>1
            <4>2. CASE said \in [kind: {"badVersion", "garbage"}, request: {TRUE}]
                BY <4>2
            <4>3. CASE said = [kind |-> "response", request |-> FALSE]
                BY <4>3
            <4> QED
                BY <4>1, <4>2, <4>3 DEF Message
        <3> HIDE DEF m
        <3> QED
            BY <1>0, <3>1
    <2>2. \/ m.request /\ (A("error", TRUE) \/ A("error", FALSE) \/ A("result", FALSE))
          \/ N(TRUE) \/ (N(FALSE) /\ ~m.request)
        BY <2>1 DEF Handle, RefuseMessage
    <2> HIDE DEF A, N, m
    <2>3. \/ \E l \in BOOLEAN, kind \in {"result", "error"} : m.request /\ A(kind, l)
          \/ \E l \in BOOLEAN : N(l) /\ (l \/ ~m.request)
        BY <2>2
    <2> QED
        BY <2>3 DEF A, N
<1> HIDE DEF m
<1>2. ASSUME NEW l \in BOOLEAN, NEW kind \in {"result", "error"}, Answer(c, kind, l)
      PROVE  /\ reader'[c].taken = reader[c].taken /\ reader'[c].pc = "queue"
             /\ reader'[c].answer.kind # "notice" /\ reader'[c].answer.to = reader[c].taken
    BY <1>0, <1>2 DEF Answer, Payload, ReaderRecord
<1>3. ASSUME NEW l \in BOOLEAN, NoAnswer(c, l), l \/ ~m.request
      PROVE  /\ reader'[c].taken = reader[c].taken
             /\ reader'[c].pc = "leave" \/ (reader'[c].pc = "decode" /\ ~m.request)
    BY <1>0, <1>3 DEF NoAnswer, AfterMessage, ReaderRecord
<1> QED
    BY <1>1, <1>2, <1>3 DEF m

\* A writer that has stopped stays so, for a connection is served once.
LEMMA WritesBefore ==
    ASSUME Types, OnceInv, AnswerInv, [Next]_vars, NEW c \in Clients, Writes(c)'
    PROVE  Writes(c)
<1>1. SUFFICES ASSUME writer[c].pc \in {"failed", "gone"} PROVE writer'[c] = writer[c]
    BY DEF Writes
<1>2. ~WriterStep(c) /\ ~Deliver(c)
    BY <1>1 DEF WriterStep, TakePayload, WriteFails, WriterEnds, Deliver
<1>3. ~Register(c)
    BY <1>1 DEF Register, OnceInv, Waiting, AnswerInv
<1>4. QueueAnswer(c) \/ Notify(c) => writer'[c] = writer[c]
    BY DEF QueueAnswer, Notify
<1> QED
    BY <1>2, <1>3, <1>4, PipeSteps

(***************************************************************************)
(* What is under way grows at its end by the answer of the reader or by a  *)
(* notification, while the writer passes it on.                            *)
(***************************************************************************)
LEMMA ComingStep ==
    ASSUME Types, OnceInv, AnswerInv, [Next]_vars, NEW c \in Clients, Writes(c)'
    PROVE  /\ QueueAnswer(c) => \/ Coming(c)' = Coming(c) /\ reader'[c].pc = "leave"
                                \/ Coming(c)' = Append(Coming(c), reader[c].answer)
           /\ ~QueueAnswer(c) => Coming(c)' \in {Coming(c), Append(Coming(c), Payload("notice", 0))}
<1>0. /\ outbound \in [Clients -> Seq(Payloads)] /\ writer \in [Clients -> WriterRecord]
      /\ received \in [Clients -> Seq(Payloads)] /\ reader \in [Clients -> ReaderRecord]
      /\ received[c] \in Seq(Payloads) /\ outbound[c] \in Seq(Payloads)
      /\ Held(c) \in Seq(Payloads) /\ writer[c].payload \in Payloads
      /\ reader[c].answer \in Payloads /\ Payload("notice", 0) \in Payloads
    BY ComingType DEF Types, QueueTypes, WriterTypes, WriterRecord, ReaderTypes, ReaderRecord,
                      Payload, Payloads
<1>1. CASE /\ outbound'[c] = outbound[c] /\ writer'[c] = writer[c] /\ received'[c] = received[c]
           /\ ~QueueAnswer(c)
    BY <1>1 DEF Coming, Held
<1>2. ASSUME NEW p \in Payloads, Enqueued(c, p), UNCHANGED <<writer, received>>
      PROVE  Coming(c)' = Append(Coming(c), p)
    <2>1. outbound'[c] = Append(outbound[c], p) /\ Held(c)' = Held(c) /\ received'[c] = received[c]
        BY <1>0, <1>2 DEF Enqueued, Held
    <2>2. Coming(c)' = received[c] \o (Held(c) \o Append(outbound[c], p))
        BY <2>1 DEF Coming
    <2>3. received[c] \o (Held(c) \o Append(outbound[c], p))
            = Append(received[c] \o (Held(c) \o outbound[c]), p)
        <3>1. /\ received[c] \in Seq(Payloads) /\ Held(c) \in Seq(Payloads)
              /\ outbound[c] \in Seq(Payloads)
            BY <1>0
        <3> QED
            BY <3>1, QueuedLast, Zenon
    <2> QED
        BY <2>2, <2>3, Zenon DEF Coming
<1>3. CASE QueueAnswer(c)
    <2>1. UNCHANGED <<writer, received>>
        BY <1>3 DEF QueueAnswer, clientVars
    <2>2. \/ Enqueued(c, reader[c].answer)
          \/ UNCHANGED outbound /\ reader'[c].pc = "leave"
        BY <1>0, <1>3 DEF QueueAnswer, QueueError, Resume, AfterQueueError, ReaderRecord
    <2>3. UNCHANGED outbound => Coming(c)' = Coming(c)
        BY <2>1 DEF Coming, Held
    <2> QED
        BY <1>0, <1>2, <1>3, <2>1, <2>2, <2>3
<1>4. CASE Notify(c) /\ ~QueueAnswer(c)
    <2>1. UNCHANGED <<writer, received>>
        BY <1>4 DEF Notify, clientVars
    <2>2. Enqueued(c, Payload("notice", 0)) \/ UNCHANGED outbound
        BY <1>4 DEF Notify, QueueError
    <2>3. UNCHANGED outbound => Coming(c)' = Coming(c)
        BY <2>1 DEF Coming, Held
    <2> QED
        BY <1>0, <1>2, <1>4, <2>1, <2>2, <2>3
<1>5. ASSUME TakePayload(c) \/ Deliver(c) \/ Register(c) PROVE Coming(c)' = Coming(c)
    <2>1. CASE TakePayload(c)
        <3>1. /\ outbound[c] # <<>> /\ writer[c].pc = "select"
              /\ Held(c)' = <<Head(outbound[c])>> /\ outbound'[c] = Tail(outbound[c])
              /\ received'[c] = received[c]
            BY <1>0, <2>1 DEF TakePayload, Held, Writer, clientVars
        <3>2. Held(c) = <<>>
            BY <3>1 DEF Held
        <3>3. Held(c) \o outbound[c] = Held(c)' \o outbound'[c]
            BY <1>0, <3>1, <3>2, HeadMoves
        <3> QED
            BY <3>1, <3>3 DEF Coming
    <2>2. CASE Deliver(c)
        <3>1. /\ Held(c) = <<writer[c].payload>> /\ Held(c)' = <<>> /\ outbound'[c] = outbound[c]
              /\ received'[c] = Append(received[c], writer[c].payload)
            BY <1>0, <2>2 DEF Deliver, AfterWrite, Held, Writer
        <3> QED
            BY <1>0, <3>1, PayloadMoves DEF Coming
    <2>3. CASE Register(c)
        <3>1. writer[c].pc = "none"
            BY <2>3 DEF Register, OnceInv, Waiting, AnswerInv
        <3>2. Held(c) = <<>> /\ Held(c)' = <<>> /\ UNCHANGED <<outbound, received>>
            BY <1>0, <2>3, <3>1 DEF Register, Held, Writer, clientVars
        <3> QED
            BY <3>2 DEF Coming
    <2> QED
        BY <1>5, <2>1, <2>2, <2>3
<1>6. ~WriteFails(c) /\ ~WriterEnds(c)
    BY <1>0 DEF WriteFails, WriterEnds, Writes, Writer
<1> QED
    BY <1>1, <1>3, <1>4, <1>5, <1>6, PipeSteps DEF WriterStep

(***************************************************************************)
(* The reader is done with one message more when it handled one that asks  *)
(* for no answer, and when it has queued or given up an answer.            *)
(***************************************************************************)
LEMMA DoneStep ==
    ASSUME Types, Types', OnceInv, AnswerInv, [Next]_vars, NEW c \in Clients
    PROVE  /\ DoneWith(c) \in Nat /\ DoneWith(c)' \in Nat /\ DoneWith(c) <= Len(sent[c])
           /\ QueueAnswer(c) => /\ DoneWith(c)' = DoneWith(c) + 1
                                /\ reader[c].taken = DoneWith(c) + 1
           /\ ~QueueAnswer(c) =>
                \/ DoneWith(c)' = DoneWith(c) /\ (Reads(c)' => Reads(c))
                \/ /\ DoneWith(c)' = DoneWith(c) + 1 /\ DoneWith(c) + 1 <= Len(sent[c])
                   /\ Reads(c)' => Reads(c) /\ ~sent[c][DoneWith(c) + 1].request
<1>0. /\ reader \in [Clients -> ReaderRecord] /\ reader[c] \in ReaderRecord
      /\ reader'[c] \in ReaderRecord
      /\ reader[c].taken \in Nat /\ reader'[c].taken \in Nat /\ reader[c].taken <= Len(sent[c])
      /\ Len(sent[c]) \in Nat
      /\ reader[c].pc = "handle" => reader[c].taken > 0
      /\ reader'[c].pc = "handle" => reader'[c].taken > 0
      /\ reader[c].pc = "queue" => reader[c].taken > 0
    BY DEF Types, ReaderTypes, ReaderRecord, AnswerInv
<1> DEFINE Ok == \/ DoneWith(c)' = DoneWith(c) /\ (Reads(c)' => Reads(c))
                 \/ /\ DoneWith(c)' = DoneWith(c) + 1 /\ DoneWith(c) + 1 <= Len(sent[c])
                    /\ Reads(c)' => Reads(c) /\ ~sent[c][DoneWith(c) + 1].request
<1>1. DoneWith(c) \in Nat /\ DoneWith(c) <= Len(sent[c])
    BY <1>0 DEF DoneWith
<1>2. ASSUME QueueAnswer(c)
      PROVE  DoneWith(c)' = DoneWith(c) + 1 /\ reader[c].taken = DoneWith(c) + 1
    <2>1. /\ reader[c].pc = "queue" /\ reader'[c].pc \in {"decode", "leave"}
          /\ reader'[c].taken = reader[c].taken
        BY <1>0, <1>2 DEF QueueAnswer, Resume, AfterMessage, AfterQueueError, ReaderRecord
    <2> QED
        BY <1>0, <2>1 DEF DoneWith
<1>3. ASSUME reader'[c] = reader[c] PROVE Ok
    BY <1>3 DEF DoneWith, Reads
<1>4. ASSUME NEW d \in Clients \ {c}, Register(d) \/ ReaderStep(d) PROVE reader'[c] = reader[c]
    BY <1>0, <1>4 DEF Register, ReaderStep, Decode, ReadFails, Handle, Answer, NoAnswer,
                      RefuseMessage, QueueAnswer, Resume, Leave
<1>5. ASSUME Register(c) PROVE Ok
    <2>1. reader[c] = Reader("none") /\ reader'[c] = Reader("decode")
        BY <1>0, <1>5 DEF Register, OnceInv, Waiting, Fresh
    <2> QED
        BY <2>1 DEF Reader, DoneWith, Reads
<1>6. ASSUME Decode(c) PROVE Ok
    <2>1. /\ reader[c].pc = "decode" /\ reader'[c].pc = "handle"
          /\ reader'[c].taken = reader[c].taken + 1
        BY <1>0, <1>6 DEF Decode, ReaderRecord
    <2> QED
        BY <1>0, <2>1 DEF DoneWith, Reads
<1>7. ASSUME ReadFails(c) \/ Leave(c) PROVE Ok
    <2>1. /\ reader[c].pc \in {"decode", "leave"} /\ reader'[c].pc \in {"leave", "gone"}
          /\ reader'[c].taken = reader[c].taken
        BY <1>0, <1>7 DEF ReadFails, Leave, ReaderRecord
    <2> QED
        BY <2>1 DEF DoneWith, Reads
<1>8. ASSUME Handle(c) PROVE Ok
    <2>1. reader[c].pc = "handle" /\ reader'[c].taken = reader[c].taken
        BY <1>8, HandleOutcome DEF Handle
    <2>2. \/ reader'[c].pc = "queue" \/ reader'[c].pc = "leave"
          \/ reader'[c].pc = "decode" /\ ~sent[c][reader[c].taken].request
        BY <1>8, HandleOutcome
    <2>3. /\ reader[c].taken = DoneWith(c) + 1 /\ DoneWith(c) + 1 <= Len(sent[c])
          /\ Reads(c)
        BY <1>0, <2>1 DEF DoneWith, Reads
    <2>4. reader'[c].pc = "queue" => DoneWith(c)' = DoneWith(c) /\ (Reads(c)' => Reads(c))
        BY <1>0, <2>1, <2>3 DEF DoneWith
    <2>5. reader'[c].pc # "queue" /\ reader'[c].pc # "handle" => DoneWith(c)' = DoneWith(c) + 1
        BY <2>1, <2>3 DEF DoneWith
    <2>6. reader'[c].pc = "leave" => ~Reads(c)'
        BY DEF Reads
    <2> QED
        BY <2>2, <2>3, <2>4, <2>5, <2>6
<1>9. ~QueueAnswer(c) => Ok
    BY <1>3, <1>4, <1>5, <1>6, <1>7, <1>8, ReaderSteps DEF ReaderStep
<1>10. DoneWith(c)' \in Nat
    BY <1>0, <1>1, <1>2, <1>9
<1> QED
    BY <1>1, <1>2, <1>9, <1>10

\* The answer a reader holds is the one to the request it handled.
LEMMA HeldAnswer ==
    ASSUME Types, Types', AnswerInv, [Next]_vars, NEW c \in Clients, reader'[c].pc = "queue"
    PROVE  /\ reader'[c].taken > 0
           /\ reader'[c].answer.kind # "notice"
           /\ reader'[c].answer.to = reader'[c].taken
           /\ sent'[c][reader'[c].taken].request
<1>0. /\ reader \in [Clients -> ReaderRecord] /\ reader[c] \in ReaderRecord
      /\ reader[c].taken \in Nat /\ reader[c].taken <= Len(sent[c])
      /\ reader[c].pc = "handle" => reader[c].taken > 0
    BY DEF Types, ReaderTypes, ReaderRecord
<1>1. reader[c].taken > 0 => sent'[c][reader[c].taken] = sent[c][reader[c].taken]
    BY <1>0, SentGrows
<1>2. CASE reader'[c] = reader[c]
    BY <1>1, <1>2 DEF AnswerInv
<1>3. CASE Handle(c)
    BY <1>0, <1>1, <1>3, HandleOutcome DEF Handle
<1>4. ASSUME NEW d \in Clients \ {c}, Register(d) \/ ReaderStep(d) PROVE reader'[c] = reader[c]
    BY <1>0, <1>4 DEF Register, ReaderStep, Decode, ReadFails, Handle, Answer, NoAnswer,
                      RefuseMessage, QueueAnswer, Resume, Leave
<1>5. ~Register(c) /\ ~Decode(c) /\ ~ReadFails(c) /\ ~Leave(c) /\ ~QueueAnswer(c)
    BY <1>0 DEF Register, Reader, Decode, ReadFails, Leave, QueueAnswer, Resume, AfterMessage,
                AfterQueueError, ReaderRecord
<1> QED
    BY <1>2, <1>3, <1>4, <1>5, ReaderSteps DEF ReaderStep

\* Nobody writes to a client that nobody serves.
LEMMA WriterWaits ==
    ASSUME Types, AnswerInv, [Next]_vars, NEW c \in Clients, reader'[c].pc = "none"
    PROVE  writer'[c].pc = "none"
<1>0. reader \in [Clients -> ReaderRecord] /\ reader[c] \in ReaderRecord
    BY DEF Types, ReaderTypes
<1>1. ~Register(c) /\ ~ReaderStep(c)
    <2>1. ~Register(c) /\ ~Decode(c) /\ ~ReadFails(c) /\ ~Leave(c) /\ ~QueueAnswer(c)
        BY <1>0 DEF Register, Reader, Decode, ReadFails, Leave, QueueAnswer, Resume, AfterMessage,
                    AfterQueueError, ReaderRecord
    <2>2. ~Handle(c)
        BY HandleOutcome
    <2> QED
        BY <2>1, <2>2 DEF ReaderStep
<1>2. ASSUME NEW d \in Clients \ {c}, Register(d) \/ ReaderStep(d) PROVE reader'[c] = reader[c]
    BY <1>0, <1>2 DEF Register, ReaderStep, Decode, ReadFails, Handle, Answer, NoAnswer,
                      RefuseMessage, QueueAnswer, Resume, Leave
<1>3. reader'[c] = reader[c]
    BY <1>1, <1>2, ReaderSteps
<1>4. writer[c].pc = "none"
    BY <1>3 DEF AnswerInv
<1>5. ~WriterStep(c) /\ ~Deliver(c) /\ (Notify(c) => writer'[c] = writer[c])
    BY <1>4 DEF WriterStep, TakePayload, WriteFails, WriterEnds, Deliver, Notify
<1> QED
    BY <1>1, <1>4, <1>5, PipeSteps DEF ReaderStep

(***************************************************************************)
(* While the writer works, what is under way stays in order and complete.  *)
(***************************************************************************)
LEMMA ComingInOrder ==
    ASSUME Types, Types', OnceInv, AnswerInv, [Next]_vars, NEW c \in Clients, Writes(c)'
    PROVE  /\ InOrder(Coming(c), sent[c])'
           /\ UpTo(Coming(c), DoneWith(c))'
           /\ Reads(c)' => AllAnswered(Coming(c), sent[c], DoneWith(c))'
<1> DEFINE n == DoneWith(c)
<1>1. /\ n \in Nat /\ n <= Len(sent[c])
      /\ QueueAnswer(c) => DoneWith(c)' = n + 1 /\ reader[c].taken = n + 1
      /\ ~QueueAnswer(c) =>
            \/ DoneWith(c)' = n /\ (Reads(c)' => Reads(c))
            \/ /\ DoneWith(c)' = n + 1 /\ n + 1 <= Len(sent[c])
               /\ Reads(c)' => Reads(c) /\ ~sent[c][n + 1].request
    BY DoneStep
<1>2. /\ InOrder(Coming(c), sent[c]) /\ UpTo(Coming(c), n)
      /\ Reads(c) => AllAnswered(Coming(c), sent[c], n)
    BY WritesBefore DEF AnswerInv
<1>3. /\ Coming(c) \in Seq(Payloads) /\ Coming(c)' \in Seq(Payloads)
      /\ sent[c] \in Seq(Message) /\ sent'[c] \in Seq(Message)
      /\ Len(sent[c]) <= Len(sent'[c])
      /\ \A i \in 1 .. Len(sent[c]) : sent'[c][i] = sent[c][i]
    BY ComingType, SentGrows DEF Types, QueueTypes, WriterTypes, WriterRecord, Coming, Held
<1>4. DoneWith(c)' <= Len(sent[c]) /\ DoneWith(c)' \in Nat
    BY <1>1, DoneStep DEF QueueAnswer, Types, ReaderTypes
<1> HIDE DEF n
<1>5. /\ InOrder(Coming(c)', sent[c]) /\ UpTo(Coming(c)', DoneWith(c)')
      /\ Reads(c)' => AllAnswered(Coming(c)', sent[c], DoneWith(c)')
    <2>1. CASE QueueAnswer(c)
        <3>1. /\ reader[c].pc = "queue" /\ reader[c].answer \in Payloads
              /\ reader[c].answer.kind # "notice" /\ reader[c].answer.to = n + 1
              /\ sent[c][n + 1].request /\ n + 1 <= Len(sent[c]) /\ Reads(c)
            BY <1>1, <2>1 DEF QueueAnswer, AnswerInv, Types, ReaderTypes, ReaderRecord, Reads
        <3>2. CASE Coming(c)' = Append(Coming(c), reader[c].answer)
            BY <1>1, <1>2, <1>3, <2>1, <3>1, <3>2, AnswerInOrder
        <3>3. CASE Coming(c)' = Coming(c) /\ reader'[c].pc = "leave"
            <4>1. UpTo(Coming(c), n + 1)
                BY <1>1, <1>2, <1>3, OneFurther
            <4> QED
                BY <1>1, <1>2, <2>1, <3>3, <4>1 DEF Reads
        <3> QED
            BY <2>1, <3>2, <3>3, ComingStep
    <2>2. CASE ~QueueAnswer(c)
        <3>1. /\ InOrder(Coming(c)', sent[c]) /\ UpTo(Coming(c)', n)
              /\ Reads(c) => AllAnswered(Coming(c)', sent[c], n)
            BY <1>1, <1>2, <1>3, <2>2, ComingStep, NoticeInOrder
        <3>2. CASE DoneWith(c)' = n /\ (Reads(c)' => Reads(c))
            BY <3>1, <3>2
        <3>3. CASE DoneWith(c)' = n + 1 /\ (Reads(c)' => Reads(c) /\ ~sent[c][n + 1].request)
            <4>1. UpTo(Coming(c)', n + 1)
                BY <1>1, <1>3, <3>1, OneFurther
            <4>2. AllAnswered(Coming(c)', sent[c], n) /\ ~sent[c][n + 1].request
                    => AllAnswered(Coming(c)', sent[c], n + 1)
                <5>1. \A k \in 1 .. n + 1 : k \in 1 .. n \/ k = n + 1
                    BY <1>1
                <5> QED
                    BY <5>1 DEF AllAnswered
            <4> QED
                BY <3>1, <3>3, <4>1, <4>2
        <3> QED
            BY <1>1, <2>2, <3>2, <3>3
    <2> QED
        BY <2>1, <2>2
<1>6. /\ InOrder(Coming(c)', sent'[c])
      /\ Reads(c)' => AllAnswered(Coming(c)', sent'[c], DoneWith(c)')
    <2>1. DoneWith(c)' \in 0 .. Len(sent[c])
        BY <1>3, <1>4
    <2> QED
        BY <1>3, <1>5, <2>1, MoreAsked
<1> QED
    BY <1>5, <1>6

\* Every step keeps the strengthening.
LEMMA AnswersStep == Types /\ Types' /\ OnceInv /\ AnswerInv /\ [Next]_vars => AnswerInv'
<1> SUFFICES ASSUME Types, Types', OnceInv, AnswerInv, [Next]_vars, NEW c \in Clients
             PROVE  /\ InOrder(received[c], sent[c])'
                    /\ Writes(c)' => /\ InOrder(Coming(c), sent[c])'
                                     /\ UpTo(Coming(c), DoneWith(c))'
                                     /\ Reads(c)' => AllAnswered(Coming(c), sent[c], DoneWith(c))'
                    /\ reader'[c].pc = "queue" => /\ reader'[c].taken > 0
                                                  /\ reader'[c].answer.kind # "notice"
                                                  /\ reader'[c].answer.to = reader'[c].taken
                                                  /\ sent'[c][reader'[c].taken].request
                    /\ reader'[c].pc = "none" => writer'[c].pc = "none"
    BY DEF AnswerInv
<1>1. Writes(c)' => /\ InOrder(Coming(c), sent[c])'
                    /\ UpTo(Coming(c), DoneWith(c))'
                    /\ Reads(c)' => AllAnswered(Coming(c), sent[c], DoneWith(c))'
    BY ComingInOrder
<1>2. CASE Writes(c)'
    <2>1. /\ InOrder(Coming(c)', sent'[c]) /\ sent'[c] \in Seq(Message)
          /\ received'[c] \in Seq(Payloads) /\ (Held(c) \o outbound[c])' \in Seq(Payloads)
        BY <1>1, <1>2, SentGrows, ComingType DEF Types, QueueTypes, WriterTypes, WriterRecord, Held
    <2>2. InOrder(received'[c] \o (Held(c) \o outbound[c])', sent'[c])
        BY <2>1 DEF Coming
    <2>3. InOrder(received[c], sent[c])'
        BY <2>1, <2>2, BeginningInOrder
    <2> QED
        BY <1>1, <2>3, HeldAnswer, WriterWaits
<1>3. CASE ~Writes(c)'
    <2>1. ~Deliver(c)
        BY <1>3 DEF Deliver, Types, WriterTypes, AfterWrite, Writer, Writes
    <2>2. QueueAnswer(c) \/ Notify(c) \/ WriterStep(c) \/ Register(c) => received'[c] = received[c]
        BY DEF QueueAnswer, Notify, WriterStep, TakePayload, WriteFails, WriterEnds, Register,
               clientVars
    <2>3. received'[c] = received[c]
        BY <2>1, <2>2, PipeSteps
    <2>4. InOrder(received[c], sent'[c])
        BY SentGrows, MoreAsked, ComingType DEF AnswerInv
    <2> QED
        BY <1>3, <2>3, <2>4, HeldAnswer, WriterWaits
<1> QED
    BY <1>2, <1>3

\* At first nothing is under way.
LEMMA InitAnswers == Init => AnswerInv
<1> SUFFICES ASSUME Init, NEW c \in Clients
             PROVE  /\ InOrder(received[c], sent[c]) /\ InOrder(Coming(c), sent[c])
                    /\ UpTo(Coming(c), DoneWith(c))
                    /\ AllAnswered(Coming(c), sent[c], DoneWith(c))
                    /\ reader[c].pc = "none" /\ writer[c].pc = "none"
    BY DEF AnswerInv
<1>1. /\ received[c] = <<>> /\ outbound[c] = <<>> /\ reader[c] = Reader("none")
      /\ writer[c] = Writer("none", NoPayload)
    BY DEF Init
<1>2. reader[c].pc = "none" /\ writer[c].pc = "none" /\ DoneWith(c) = 0
    BY <1>1 DEF Reader, Writer, DoneWith
<1>3. Coming(c) = <<>>
    BY <1>1, <1>2 DEF Coming, Held
<1>4. /\ InOrder(<<>>, sent[c]) /\ UpTo(<<>>, 0) /\ AllAnswered(<<>>, sent[c], 0)
    BY DEF InOrder, UpTo, AllAnswered
<1> QED
    BY <1>1, <1>2, <1>3, <1>4

(***************************************************************************)
(* Whatever is lost, the answers a client reads are those to its first     *)
(* requests, one each and in their order, for any number of clients,       *)
(* messages and notifications and any depth of the queues.                 *)
(***************************************************************************)
THEOREM AnswersComeInOrder == Spec => []AnswersInOrder
<1>1. Types /\ Types' /\ OnceInv /\ AnswerInv /\ [Next]_vars => OnceInv' /\ AnswerInv'
    BY OnceStep, AnswersStep
<1>2. AnswerInv => AnswersInOrder
    BY DEF AnswerInv, AnswersInOrder
<1> QED
    BY <1>1, <1>2, InitLogin, InitAnswers, TypesInvariant, PTL DEF Spec

=============================================================================
