----------------------------- MODULE LinkProofs -----------------------------
(***************************************************************************)
(* The bridges at the socket path and the plugin's bridge client, for any  *)
(* number of bridges, requests and connections.                            *)
(*                                                                         *)
(* First UpIsReachable for bridges of one configuration, starting,         *)
(* stopping and being killed at any time, whatever the plugin does.  Then  *)
(* LinkInv, which relates the queues of every link to what the callers     *)
(* know and the bridges ran; a step of the plugin is a chain of operators  *)
(* on its state, so what each operator keeps is a lemma of its own, and a  *)
(* step follows them one by one.  The properties of BridgeLink and the     *)
(* refinement of Calls are consequences.                                   *)
(***************************************************************************)
EXTENDS BridgeLink, WellFoundedInduction, TLAPS

\* A bridge between bind and the end.
Owns(b) == bridge[b] \in {"listen", "chmod", "health", "up"}

(***************************************************************************)
(* UpIsReachable is not inductive: another bridge may be about to remove   *)
(* the name.  A bridge that did not race has the name from bind on, and    *)
(* nobody else is where he would remove it.                                *)
(***************************************************************************)
Secured ==
    \A b \in Bridges \ raced : Owns(b) =>
        /\ path = b
        /\ \A o \in Bridges \ {b} : ~WillRemove(o)

SocketInv == SocketTypeOK /\ Secured

(***************************************************************************)
(* Types: no step leaves the places of run, or puts anything at the path   *)
(* or the health port but a bridge's socket, a stale one or none.          *)
(***************************************************************************)
LEMMA TypeStep ==
    ASSUME SocketTypeOK, NEW b \in Bridges, SocketStep(b)
    PROVE  SocketTypeOK'
<1> USE DEF SocketTypeOK, Goto
<1>1. CASE Probe(b) \/ RemoveStale(b) \/ Bind(b)
    BY <1>1 DEF Probe, RemoveStale, Bind
<1>2. CASE Listen(b) \/ Chmod(b) \/ OpenHealth(b)
    BY <1>2 DEF Listen, Chmod, OpenHealth
<1>3. CASE Signal(b) \/ CloseHealth(b) \/ CloseListener(b) \/ HandlersEnd(b) \/ RemovePath(b)
    BY <1>3 DEF Signal, CloseHealth, CloseListener, HandlersEnd, RemovePath
<1>4. CASE Exit(b) \/ Kill(b)
    BY <1>4 DEF Exit, Kill, Gone
<1> QED
    BY <1>1, <1>2, <1>3, <1>4 DEF SocketStep

(***************************************************************************)
(* A bridge that has the name keeps it: of the others none is where it     *)
(* could take the name away, and none that starts gets there without       *)
(* making this one raced.                                                  *)
(***************************************************************************)
LEMMA SecuredStep ==
    ASSUME SocketTypeOK, Secured, NEW o \in Bridges, SocketStep(o)
    PROVE  Secured'
<1> USE DEF Secured, Owns, WillRemove, Goto, SocketTypeOK
<1> SUFFICES ASSUME NEW b \in Bridges, b \notin raced', Owns(b)'
             PROVE  /\ path' = b
                    /\ \A other \in Bridges \ {b} : ~WillRemove(other)'
    OBVIOUS
<1>1. CASE Probe(o)
    <2>1. b # o /\ Owns(b) /\ b \notin raced
        BY <1>1 DEF Probe
    <2>2. path = b /\ b \notin {Nobody, Stale}
        BY <2>1, SocketNames
    <2>3. LooksStale
        BY <1>1, <2>2 DEF Probe
    <2>4. bridge[b] = "listen"
        BY <2>1, <2>2, <2>3 DEF LooksStale, Listening
    <2> QED
        BY <1>1, <2>2, <2>4 DEF Probe
<1>2. CASE Bind(o)
    BY <1>2, SocketNames DEF Bind
<1>3. CASE RemoveStale(o) \/ Listen(o)
    BY <1>3 DEF RemoveStale, Listen
<1>4. CASE Chmod(o) \/ OpenHealth(o) \/ Signal(o)
    BY <1>4, SocketNames DEF Chmod, OpenHealth, Signal
<1>5. CASE CloseHealth(o)
    BY <1>5 DEF CloseHealth
<1>6. CASE CloseListener(o) \/ HandlersEnd(o) \/ RemovePath(o)
    BY <1>6 DEF CloseListener, HandlersEnd, RemovePath
<1>7. CASE Exit(o) \/ Kill(o)
    BY <1>7 DEF Exit, Kill, Gone
<1> QED
    BY <1>1, <1>2, <1>3, <1>4, <1>5, <1>6, <1>7 DEF SocketStep

(***************************************************************************)
(* The plugin and the reading side of the connections change nothing of    *)
(* the path: to the bridges' sockets every step of the link is a step of   *)
(* a bridge or none.                                                       *)
(***************************************************************************)
LEMMA LinkStep == [Next]_vars => [SocketNext]_socketVars
<1> SUFFICES ASSUME [Next]_vars PROVE [SocketNext]_socketVars
    OBVIOUS
<1>1. CASE UNCHANGED vars
    BY <1>1 DEF vars
<1>2. CASE PluginStep
    BY <1>2 DEF PluginStep, Call, Reconnect, Attempt, Frame, Collect, TimeOut, StreamFails, ProbeEnds
<1>3. CASE \E n \in LinkIds : ReaderStep(n)
    BY <1>3 DEF ReaderStep, LogIn, Execute, EndOfInput
<1>4. CASE \E b \in Bridges : BridgeStep(b)
    BY <1>4 DEF BridgeStep, SocketNext
<1> QED
    BY <1>1, <1>2, <1>3, <1>4 DEF Next

(***************************************************************************)
(* The inductive invariant: types, and a bridge that did not race has the  *)
(* name and no rival that would remove it.                                 *)
(***************************************************************************)
THEOREM SocketInvariant == Spec => []SocketInv
<1>1. Init => SocketInv
    BY DEF Init, SocketInit, SocketInv, SocketTypeOK, Secured, Owns
<1>2. SocketInv /\ [Next]_vars => SocketInv'
    <2> SUFFICES ASSUME SocketInv, [SocketNext]_socketVars
                 PROVE  SocketInv'
        BY LinkStep
    <2>1. CASE UNCHANGED socketVars
        BY <2>1 DEF SocketInv, socketVars, SocketTypeOK, Secured, Owns, WillRemove
    <2>2. CASE SocketNext
        BY <2>2, TypeStep, SecuredStep DEF SocketInv, SocketNext
    <2> QED
        BY <2>1, <2>2
<1> QED
    BY <1>1, <1>2, PTL DEF Spec

(***************************************************************************)
(* A bridge that is up, and met none of the races the code leaves open,    *)
(* has the socket path, whatever any number of other bridges do (Start,    *)
(* Stop, prepareSocketPath).                                               *)
(***************************************************************************)
THEOREM UpStaysReachable == Spec => []UpIsReachable
<1>1. SocketInv => UpIsReachable
    BY DEF SocketInv, Secured, Owns, UpIsReachable
<1> QED
    BY <1>1, SocketInvariant, PTL

----------------------------------------------------------------------------
(***************************************************************************)
(* The client: what its state is made of.                                  *)
(***************************************************************************)
Messages == Requests \cup {Login}
AnswerRecord == [to: Messages, ok: BOOLEAN]

ClientRecord ==
    [link: LinkIds \cup {NoLink}, open: BOOLEAN, authPending: BOOLEAN, timer: BOOLEAN]

LinkRecord ==
    [bridge: Bridges \cup {Nobody}, up: BOOLEAN, held: BOOLEAN, authed: BOOLEAN,
     toBridge: Seq(Messages), toPlugin: Seq(AnswerRecord)]

Entries == {"absent", "waiting", "answered", "failed"}

PluginState ==
    [client: ClientRecord, pending: [Requests -> Entries], online: BOOLEAN,
     links: [LinkIds -> LinkRecord], probe: {"none", "own", "stray"}, misled: BOOLEAN]

\* What the callers know and the bridges ran.
CallerRecord == [Requests -> {"none", "awaiting", "answered", "failed", "refused"}]
Executed == [Requests -> {0, 1}]

----------------------------------------------------------------------------
\* An answer that is not an error.
Ok(message) == [to |-> message, ok |-> TRUE]

Asks(l, r) == \E i \in DOMAIN l.toBridge : l.toBridge[i] = r
Carries(l, a) == \E i \in DOMAIN l.toPlugin : l.toPlugin[i] = a

\* No request is twice in the queue.
AskedOnce(l) ==
    \A i, j \in DOMAIN l.toBridge : l.toBridge[i] = l.toBridge[j] /\ l.toBridge[i] # Login => i = j

\* The bridge has yet to read a login that it will accept.
Fresh(l) == l.up /\ l.bridge \in Accepting /\ ~l.authed

\* A link by itself: a login is accepted by an accepting bridge only, and as long
\* as it can be, a login is what the bridge reads first.
LinkHolds(l) ==
    /\ l \in LinkRecord
    /\ l.authed => l.bridge \in Accepting
    /\ Carries(l, Ok(Login)) => l.authed
    /\ Fresh(l) /\ l.toBridge # <<>> => Head(l.toBridge) = Login

\* With both ends closed it is free.
LinkFits(l) == LinkHolds(l) /\ (l.up \/ l.held \/ l = Unused)

\* What may become of a link on which nothing new is asked or answered.
Shrinks(l, m) ==
    /\ LinkHolds(m)
    /\ AskedOnce(l) => AskedOnce(m)
    /\ \A r \in Requests : Asks(m, r) => Asks(l, r)
    /\ \A r \in Requests : Carries(m, Ok(r)) => Carries(l, Ok(r))
    /\ l.authed /\ m.held => m.authed
    /\ Fresh(m) /\ m.toBridge = <<>> => Fresh(l) /\ l.toBridge = <<>>

----------------------------------------------------------------------------
\* The plugin's state s, with what its callers know (called) and what ran (ran).

\* The plugin holds its end of the client's link, and of no other.
Links(s) ==
    \A n \in LinkIds : LinkFits(s.links[n]) /\ (s.links[n].held <=> s.client.link = n)

\* A request a bridge has yet to read is in one queue only, once; its caller waits
\* or gave up; it did not run.
Requested(s, called, ran) ==
    /\ \A n \in LinkIds : AskedOnce(s.links[n])
    /\ \A r \in Requests, n \in LinkIds : Asks(s.links[n], r) =>
          /\ \A m \in LinkIds : Asks(s.links[m], r) => m = n
          /\ called[r] \in {"awaiting", "failed"}
          /\ ran[r] = 0

\* An answer under way, in the table or returned is one of a request that ran; what
\* nobody sent did not run; whoever waits has an entry.
Answered(s, called, ran) ==
    /\ \A r \in Requests, n \in LinkIds : Carries(s.links[n], Ok(r)) => ran[r] = 1
    /\ \A r \in Requests :
          /\ s.pending[r] = "answered" \/ called[r] = "answered" => ran[r] = 1
          /\ called[r] \in {"none", "refused"} => ran[r] = 0
          /\ called[r] = "awaiting" => s.pending[r] # "absent"

\* The accounts, true after each piece of a step.
Base(s, called, ran) ==
    /\ s \in PluginState
    /\ called \in CallerRecord
    /\ ran \in Executed
    /\ Links(s)
    /\ Requested(s, called, ran)
    /\ Answered(s, called, ran)

LoggedIn(s) == Connected(s) /\ Mine(s).authed

NobodyWaits(s) == \A r \in Requests : s.pending[r] # "waiting"

\* What shows the connection: the state, the probe, the entries that wait.
Shows(s) ==
    /\ s.online => Connected(s)
    /\ s.online /\ ~s.misled => LoggedIn(s)
    /\ s.probe = "own" => LoggedIn(s)
    /\ Connected(s) \/ NobodyWaits(s)

\* What Call relies on when it writes: a client whose stream is open wrote its login,
\* and a client whose stream is not will.
Opened(s) ==
    /\ Connected(s) /\ ~s.client.open => s.client.authPending
    /\ Connected(s) /\ s.client.open /\ Fresh(Mine(s)) => Mine(s).toBridge # <<>>

Good(s, called, ran) == Base(s, called, ran) /\ Shows(s) /\ Opened(s)

\* The inductive invariant.
LinkInv == Good(S, caller, executions)

----------------------------------------------------------------------------
\* A set of numbers that is not empty has a least one.
LEMMA LeastNumber ==
    ASSUME NEW N \in SUBSET Nat, N # {}
    PROVE  \E m \in N : \A k \in N : m <= k
<1> DEFINE R == OpToRel(<, Nat)
<1>1. \E m \in N : \A k \in N : ~ (<<k, m>> \in R)
    BY WFMin, NatLessThanWellFounded
<1>2. R = {ss \in Nat \X Nat : ss[1] < ss[2]}
    BY Zenon DEF OpToRel
<1> HIDE DEF R
<1>3. ASSUME NEW k \in Nat, NEW m \in Nat, k < m PROVE <<k, m>> \in R
    BY <1>2, <1>3
<1>4. \A k, m \in N : k < m => <<k, m>> \in R
    BY <1>3
<1>5. PICK m \in N : \A k \in N : <<k, m>> \notin R
    BY <1>1, Zenon
<1>6. ASSUME NEW k \in N PROVE m <= k
    <2>1. ~(k < m)
        BY <1>4, <1>5, Zenon
    <2> QED
        BY <2>1
<1> QED
    BY <1>6

\* f starts with a, and G says how it goes on.
Follows(f, a, n, G) == f[0] = a /\ \A i \in 1 .. n : f[i] = G[i][f[i - 1]]
StaysIn(T, n, G) == \A i \in 1 .. n, v \in T : G[i][v] \in T

\* A function may be defined from each number to the next.
LEMMA Recursion ==
    ASSUME NEW T, NEW a \in T, NEW n \in Nat, NEW G, StaysIn(T, n, G)
    PROVE  \E f \in [0 .. n -> T] : Follows(f, a, n, G)
<1> USE DEF StaysIn, Follows
<1> DEFINE Reaches(m) == \E f \in [0 .. m -> T] : Follows(f, a, m, G)
           Bad == {m \in 0 .. n : ~Reaches(m)}
<1>1. Reaches(0)
    <2> DEFINE f == [i \in 0 .. 0 |-> a]
    <2>1. f \in [0 .. 0 -> T] /\ f[0] = a
        OBVIOUS
    <2>2. \A i \in 1 .. 0 : f[i] = G[i][f[i - 1]]
        OBVIOUS
    <2> HIDE DEF f
    <2> QED
        BY <2>1, <2>2
<1>2. ASSUME NEW m \in 1 .. n, Reaches(m - 1) PROVE Reaches(m)
    <2>1. PICK f \in [0 .. m - 1 -> T] : f[0] = a /\ \A i \in 1 .. m - 1 : f[i] = G[i][f[i - 1]]
        BY <1>2
    <2> DEFINE g == [i \in 0 .. m |-> IF i = m THEN G[m][f[m - 1]] ELSE f[i]]
    <2>2. G[m][f[m - 1]] \in T
        OBVIOUS
    <2>3. g \in [0 .. m -> T]
        BY <2>2
    <2>4. g[0] = a
        BY <2>1
    <2>5. ASSUME NEW i \in 1 .. m PROVE g[i] = G[i][g[i - 1]]
        BY <2>1
    <2> HIDE DEF g
    <2> QED
        BY <2>3, <2>4, <2>5
<1> HIDE DEF Reaches
<1>3. ASSUME Bad # {} PROVE FALSE
    <2>1. Bad \in SUBSET Nat /\ \A i \in 0 .. n : i \in Bad <=> ~Reaches(i)
        OBVIOUS
    <2>2. Bad \subseteq 0 .. n
        OBVIOUS
    <2> HIDE DEF Bad
    <2>3. PICK m \in Bad : \A k \in Bad : m <= k
        BY <1>3, <2>1, LeastNumber
    <2>4. m \in 1 .. n
        BY <1>1, <2>1, <2>2, <2>3
    <2>5. Reaches(m - 1)
        BY <2>1, <2>3, <2>4
    <2> QED
        BY <1>2, <2>1, <2>4, <2>5
<1>4. Reaches(n)
    BY <1>3
<1> QED
    BY <1>4 DEF Reaches

\* One field of a link, and what stays of it.
LEMMA LinkFields ==
    ASSUME NEW l \in LinkRecord
    PROVE  /\ \A f \in BOOLEAN : [l EXCEPT !.up = f] \in LinkRecord
           /\ \A f \in BOOLEAN : [l EXCEPT !.held = f] \in LinkRecord
           /\ \A f \in BOOLEAN : [l EXCEPT !.authed = f] \in LinkRecord
           /\ \A b \in Bridges : [l EXCEPT !.bridge = b] \in LinkRecord
           /\ \A p \in Seq(Messages) : [l EXCEPT !.toBridge = p] \in LinkRecord
           /\ \A q \in Seq(AnswerRecord) : [l EXCEPT !.toPlugin = q] \in LinkRecord
<1>1. ASSUME NEW f \in BOOLEAN PROVE [l EXCEPT !.up = f] \in LinkRecord
    BY DEF LinkRecord
<1>2. ASSUME NEW f \in BOOLEAN PROVE [l EXCEPT !.held = f] \in LinkRecord
    BY DEF LinkRecord
<1>3. ASSUME NEW f \in BOOLEAN PROVE [l EXCEPT !.authed = f] \in LinkRecord
    BY DEF LinkRecord
<1>4. ASSUME NEW b \in Bridges PROVE [l EXCEPT !.bridge = b] \in LinkRecord
    BY DEF LinkRecord
<1>5. ASSUME NEW p \in Seq(Messages) PROVE [l EXCEPT !.toBridge = p] \in LinkRecord
    BY DEF LinkRecord
<1>6. ASSUME NEW q \in Seq(AnswerRecord) PROVE [l EXCEPT !.toPlugin = q] \in LinkRecord
    BY DEF LinkRecord
<1> QED
    BY <1>1, <1>2, <1>3, <1>4, <1>5, <1>6, Zenon

\* The fields of a link that is free.
LEMMA UnusedForm ==
    /\ Unused \in LinkRecord /\ Unused.bridge = Nobody
    /\ ~Unused.up /\ ~Unused.held /\ ~Unused.authed
    /\ Unused.toBridge = <<>> /\ Unused.toPlugin = <<>>
BY DEF Unused, LinkRecord

\* The fields of a link that was just made.
LEMMA NewLinkForm ==
    ASSUME NEW b \in Bridges
    PROVE  /\ NewLink(b) \in LinkRecord /\ NewLink(b).bridge = b
           /\ NewLink(b).up /\ NewLink(b).held /\ ~NewLink(b).authed
           /\ NewLink(b).toBridge = <<>> /\ NewLink(b).toPlugin = <<>>
<1>1. PICK l \in LinkRecord : l = Unused
    BY UnusedForm
<1>2. ~l.authed /\ l.toBridge = <<>> /\ l.toPlugin = <<>>
    BY <1>1, UnusedForm
<1>3. PICK m : m = [l EXCEPT !.bridge = b, !.up = TRUE, !.held = TRUE]
    OBVIOUS
<1>4. NewLink(b) = m
    BY <1>1, <1>3, Zenon DEF NewLink
<1>5. m \in LinkRecord
    <2>1. PICK k : k = [l EXCEPT !.bridge = b]
        OBVIOUS
    <2>2. PICK j : j = [k EXCEPT !.up = TRUE]
        OBVIOUS
    <2>3. m = [j EXCEPT !.held = TRUE]
        BY <1>3, <2>1, <2>2, Zenon
    <2>4. k \in LinkRecord
        BY <2>1, LinkFields, Zenon
    <2>5. j \in LinkRecord
        BY <2>2, <2>4, LinkFields, Zenon
    <2> QED
        BY <2>3, <2>5, LinkFields, Zenon
<1>6. m.bridge = b /\ m.up /\ m.held /\ m.authed = l.authed /\ m.toBridge = l.toBridge
      /\ m.toPlugin = l.toPlugin
    BY <1>3 DEF LinkRecord
<1> QED
    BY <1>2, <1>4, <1>5, <1>6

\* Links are numbered, and no number stands for having none.
LEMMA IdsForm == LinkIds \in SUBSET Nat /\ NoLink \notin LinkIds
BY LinkBounds DEF LinkIds, NoLink

\* Nothing is asked or answered on a link whose queues are empty.
LEMMA NothingAsked ==
    ASSUME NEW l \in LinkRecord, l.toBridge = <<>>, l.toPlugin = <<>>
    PROVE  AskedOnce(l) /\ \A r : ~Asks(l, r) /\ ~Carries(l, r)
BY DEF AskedOnce, Asks, Carries

\* A free link is in order.
LEMMA UnusedHolds == LinkFits(Unused)
<1>1. \A r : ~Carries(Unused, r)
    BY UnusedForm, NothingAsked
<1> QED
    BY <1>1, UnusedForm DEF LinkFits, LinkHolds, Fresh

\* So is a new one: its bridge has yet to read the login.
LEMMA NewLinkFits ==
    ASSUME NEW b \in Bridges
    PROVE  LinkFits(NewLink(b))
<1>1. \A r : ~Carries(NewLink(b), r)
    BY NewLinkForm, NothingAsked
<1> QED
    BY <1>1, NewLinkForm, Zenon DEF LinkFits, LinkHolds, Fresh

CarriesLess(m, l) == \A a : Carries(m, a) => Carries(l, a)

\* What shrinks twice, shrinks.
LEMMA ShrinksOn ==
    ASSUME NEW l, NEW m, NEW k, Shrinks(l, m), Shrinks(m, k), m.held \/ ~k.held
    PROVE  Shrinks(l, k)
BY Zenon DEF Shrinks

\* A link may stay as it is.
LEMMA ShrinksNot ==
    ASSUME NEW l, LinkHolds(l)
    PROVE  Shrinks(l, l)
BY Zenon DEF Shrinks

\* A link with an end that is closed.
LEMMA ClosedEnd ==
    ASSUME NEW l, LinkHolds(l), NEW m \in LinkRecord,
           m.bridge = l.bridge, m.authed = l.authed, m.up => l.up, m.held => l.held,
           m.toBridge = l.toBridge \/ (m.toBridge = <<>> /\ ~m.up),
           CarriesLess(m, l)
    PROVE  Shrinks(l, m)
<1>2. \A a : Carries(m, a) => Carries(l, a)
    BY DEF CarriesLess
<1>3. \A r : Asks(m, r) => Asks(l, r)
    BY DEF Asks
<1>4. AskedOnce(l) => AskedOnce(m)
    BY DEF AskedOnce
<1>5. Fresh(m) => Fresh(l) /\ m.toBridge = l.toBridge
    BY DEF Fresh
<1> QED
    BY <1>2, <1>3, <1>4, <1>5 DEF Shrinks, LinkHolds

\* Forgetting what a closed end cannot read only shrinks a link.
LEMMA TidyFits ==
    ASSUME NEW l, LinkHolds(l)
    PROVE  Shrinks(l, Tidy(l)) /\ LinkFits(Tidy(l)) /\ (Tidy(l).held <=> l.held)
<1>0. l \in LinkRecord
    BY DEF LinkHolds
<1>1. CASE ~l.up /\ ~l.held
    <2>1. Tidy(l) = Unused
        BY <1>1 DEF Tidy
    <2>2. \A r : ~Asks(Unused, r) /\ ~Carries(Unused, r)
        BY UnusedForm, NothingAsked
    <2>3. Shrinks(l, Unused)
        BY <2>2, UnusedHolds, UnusedForm, NothingAsked DEF Shrinks, LinkFits, Fresh
    <2> QED
        BY <1>1, <2>1, <2>3, UnusedHolds, UnusedForm
<1>2. CASE ~l.up /\ l.held
    <2>1. PICK m : m = [l EXCEPT !.toBridge = <<>>]
        OBVIOUS
    <2>2. Tidy(l) = m
        BY <1>2, <2>1, Zenon DEF Tidy
    <2>3. <<>> \in Seq(Messages)
        OBVIOUS
    <2>4. m \in LinkRecord
        BY <1>0, <2>1, <2>3, LinkFields, Zenon
    <2>5. /\ m.bridge = l.bridge /\ m.up = l.up /\ m.held = l.held
          /\ m.authed = l.authed /\ m.toBridge = <<>> /\ m.toPlugin = l.toPlugin
        BY <1>0, <2>1 DEF LinkRecord
    <2>6. CarriesLess(m, l)
        BY <2>5 DEF CarriesLess, Carries
    <2>7. Shrinks(l, m)
        BY <1>2, <2>4, <2>5, <2>6, ClosedEnd
    <2>8. LinkFits(m)
        BY <1>2, <2>5, <2>7, Zenon DEF Shrinks, LinkFits
    <2> QED
        BY <2>2, <2>5, <2>7, <2>8
<1>3. CASE l.up /\ ~l.held
    <2>1. PICK m : m = [l EXCEPT !.toPlugin = <<>>]
        OBVIOUS
    <2>2. Tidy(l) = m
        BY <1>3, <2>1, Zenon DEF Tidy
    <2>3. <<>> \in Seq(AnswerRecord)
        OBVIOUS
    <2>4. m \in LinkRecord
        BY <1>0, <2>1, <2>3, LinkFields, Zenon
    <2>5. /\ m.bridge = l.bridge /\ m.up = l.up /\ m.held = l.held
          /\ m.authed = l.authed /\ m.toBridge = l.toBridge /\ m.toPlugin = <<>>
        BY <1>0, <2>1 DEF LinkRecord
    <2>6. CarriesLess(m, l)
        BY <2>5 DEF CarriesLess, Carries
    <2>7. Shrinks(l, m)
        BY <1>3, <2>4, <2>5, <2>6, ClosedEnd
    <2>8. LinkFits(m)
        BY <1>3, <2>5, <2>7, Zenon DEF Shrinks, LinkFits
    <2> QED
        BY <2>2, <2>5, <2>7, <2>8
<1>4. CASE l.up /\ l.held
    BY <1>4, ShrinksNot DEF Tidy, LinkFits
<1> QED
    BY <1>1, <1>2, <1>3, <1>4

----------------------------------------------------------------------------
\* The plugin's state, field by field.
LEMMA StateFields ==
    ASSUME NEW s \in PluginState
    PROVE  /\ \A c \in ClientRecord : [s EXCEPT !.client = c] \in PluginState
           /\ \A p \in [Requests -> Entries] : [s EXCEPT !.pending = p] \in PluginState
           /\ \A f \in BOOLEAN : [s EXCEPT !.online = f] \in PluginState
           /\ \A ls \in [LinkIds -> LinkRecord] : [s EXCEPT !.links = ls] \in PluginState
           /\ \A p \in {"none", "own", "stray"} : [s EXCEPT !.probe = p] \in PluginState
           /\ \A f \in BOOLEAN : [s EXCEPT !.misled = f] \in PluginState
<1>1. ASSUME NEW c \in ClientRecord PROVE [s EXCEPT !.client = c] \in PluginState
    BY DEF PluginState
<1>2. ASSUME NEW p \in [Requests -> Entries] PROVE [s EXCEPT !.pending = p] \in PluginState
    BY DEF PluginState
<1>3. ASSUME NEW f \in BOOLEAN PROVE [s EXCEPT !.online = f] \in PluginState
    BY DEF PluginState
<1>4. ASSUME NEW ls \in [LinkIds -> LinkRecord] PROVE [s EXCEPT !.links = ls] \in PluginState
    BY DEF PluginState
<1>5. ASSUME NEW p \in {"none", "own", "stray"} PROVE [s EXCEPT !.probe = p] \in PluginState
    BY DEF PluginState
<1>6. ASSUME NEW f \in BOOLEAN PROVE [s EXCEPT !.misled = f] \in PluginState
    BY DEF PluginState
<1> QED
    BY <1>1, <1>2, <1>3, <1>4, <1>5, <1>6, Zenon

\* The fields of the plugin's state.
LEMMA StateForm ==
    ASSUME NEW s \in PluginState
    PROVE  /\ s.client \in ClientRecord /\ s.pending \in [Requests -> Entries]
           /\ s.links \in [LinkIds -> LinkRecord] /\ s.probe \in {"none", "own", "stray"}
BY DEF PluginState

\* A client without a connection, with or without the timer.
LEMMA OfflineForm ==
    ASSUME NEW again \in BOOLEAN, NEW c, c = [Offline EXCEPT !.timer = again]
    PROVE  c \in ClientRecord /\ c.link = NoLink /\ ~c.open
<1>1. Offline \in ClientRecord /\ Offline.link = NoLink /\ ~Offline.open
    BY DEF Offline, ClientRecord
<1>2. PICK o \in ClientRecord : o = Offline
    BY <1>1
<1>3. c = [o EXCEPT !.timer = again]
    BY <1>2
<1>4. c \in ClientRecord /\ c.link = o.link /\ c.open = o.open
    BY <1>3 DEF ClientRecord
<1> QED
    BY <1>1, <1>2, <1>4

\* The links when the plugin has closed its end.
LEMMA LinksLeft ==
    ASSUME NEW s \in PluginState, Links(s), Connected(s), NEW ls,
           ls = LetGo(s.links, s.client.link)
    PROVE  /\ ls \in [LinkIds -> LinkRecord]
           /\ \A n \in LinkIds : Shrinks(s.links[n], ls[n]) /\ LinkFits(ls[n]) /\ ~ls[n].held
           /\ \A n \in LinkIds : ~s.links[n].held => ls[n] = s.links[n]
<1>1. PICK c : c = s.client.link
    OBVIOUS
<1>2. c \in LinkIds
    BY <1>1 DEF PluginState, ClientRecord, Connected
<1>3. PICK l : l = s.links[c]
    OBVIOUS
<1>4. LinkFits(l) /\ l \in LinkRecord
    BY <1>2, <1>3 DEF Links, LinkFits, LinkHolds
<1>5. PICK m : m = [l EXCEPT !.held = FALSE]
    OBVIOUS
<1>6. m \in LinkRecord
    BY <1>4, <1>5, LinkFields, Zenon
<1>7. /\ m.bridge = l.bridge /\ m.authed = l.authed /\ m.up = l.up /\ ~m.held
      /\ m.toBridge = l.toBridge /\ m.toPlugin = l.toPlugin
    BY <1>4, <1>5 DEF LinkRecord
<1>8. Shrinks(l, m)
    <2>1. CarriesLess(m, l)
        BY <1>7 DEF CarriesLess, Carries
    <2>2. LinkHolds(l)
        BY <1>4 DEF LinkFits
    <2> QED
        BY <1>6, <1>7, <2>1, <2>2, ClosedEnd
<1>9. LinkHolds(m)
    BY <1>8 DEF Shrinks
<1>10. Shrinks(m, Tidy(m)) /\ LinkFits(Tidy(m)) /\ ~Tidy(m).held
    BY <1>7, <1>9, TidyFits
<1>11. Shrinks(l, Tidy(m))
    BY <1>8, <1>10, ShrinksOn
<1>12. ls = [s.links EXCEPT ![c] = Tidy(m)]
    BY <1>1, <1>3, <1>5, Zenon DEF LetGo
<1>13. s.links \in [LinkIds -> LinkRecord] /\ Tidy(m) \in LinkRecord
    BY <1>10, StateForm DEF LinkFits, LinkHolds
<1>14. ls \in [LinkIds -> LinkRecord] /\ ls[c] = Tidy(m)
    BY <1>2, <1>12, <1>13
<1>15. ASSUME NEW n \in LinkIds PROVE Shrinks(s.links[n], ls[n]) /\ LinkFits(ls[n]) /\ ~ls[n].held
    <2>1. CASE n = c
        BY <1>3, <1>10, <1>11, <1>14, <2>1
    <2>2. CASE n # c
        <3>1. ls[n] = s.links[n]
            BY <1>12, <1>13, <2>2
        <3>2. LinkFits(s.links[n]) /\ ~s.links[n].held
            BY <1>1, <2>2 DEF Links
        <3> QED
            BY <3>1, <3>2, ShrinksNot DEF LinkFits
    <2> QED
        BY <2>1, <2>2
<1>16. ASSUME NEW n \in LinkIds, ~s.links[n].held PROVE ls[n] = s.links[n]
    <2>1. n # c
        BY <1>1, <1>2, <1>16 DEF Links
    <2> QED
        BY <1>12, <1>13, <2>1
<1> QED
    BY <1>14, <1>15, <1>16

\* _set_disconnected: the connection is let go, nothing shows it any more, and
\* every entry fails.
LEMMA DisconnectForm ==
    ASSUME NEW s \in PluginState, Links(s), NEW again \in BOOLEAN, NEW t, t = Disconnect(s, again)
    PROVE  /\ t \in PluginState /\ ~Connected(t) /\ ~t.online /\ ~t.misled /\ t.probe # "own"
           /\ \A n \in LinkIds : /\ Shrinks(s.links[n], t.links[n]) /\ LinkFits(t.links[n])
                                 /\ ~t.links[n].held
           /\ \A n \in LinkIds : ~s.links[n].held => t.links[n] = s.links[n]
           /\ \A r \in Requests :
                 t.pending[r] = IF s.pending[r] = "absent" THEN "absent" ELSE "failed"
<1>1. PICK c : c = [Offline EXCEPT !.timer = again]
    OBVIOUS
<1>2. PICK ls : ls = IF Connected(s) THEN LetGo(s.links, s.client.link) ELSE s.links
    OBVIOUS
<1>3. PICK p : p = IF s.probe = "own" THEN "stray" ELSE s.probe
    OBVIOUS
<1>4. PICK pe : pe = [r \in Requests |-> IF s.pending[r] = "absent" THEN "absent" ELSE "failed"]
    OBVIOUS
<1>5. c \in ClientRecord /\ c.link = NoLink
    BY <1>1, OfflineForm
<1>6. /\ ls \in [LinkIds -> LinkRecord]
      /\ \A n \in LinkIds : Shrinks(s.links[n], ls[n]) /\ LinkFits(ls[n]) /\ ~ls[n].held
      /\ \A n \in LinkIds : ~s.links[n].held => ls[n] = s.links[n]
    <2>1. CASE Connected(s)
        BY <1>2, <2>1, LinksLeft
    <2>2. CASE ~Connected(s)
        <3>1. ls = s.links
            BY <1>2, <2>2
        <3>2. ASSUME NEW n \in LinkIds PROVE LinkFits(s.links[n]) /\ ~s.links[n].held
            BY <2>2, IdsForm DEF Links, Connected
        <3> QED
            BY <3>1, <3>2, ShrinksNot, StateForm DEF LinkFits
    <2> QED
        BY <2>1, <2>2
<1>7. p \in {"none", "own", "stray"} /\ p # "own"
    BY <1>3, StateForm
<1>8. pe \in [Requests -> Entries]
    BY <1>4 DEF Entries
<1>9. PICK d : d = [s EXCEPT !.client = c, !.online = FALSE, !.misled = FALSE, !.probe = p,
                             !.links = ls]
    OBVIOUS
<1>10. Drop(s, again) = d
    <2>1. Drop(s, again) =
            [s EXCEPT !.client = [Offline EXCEPT !.timer = again], !.online = FALSE,
                      !.misled = FALSE, !.probe = IF s.probe = "own" THEN "stray" ELSE s.probe,
                      !.links = IF Connected(s) THEN LetGo(s.links, s.client.link) ELSE s.links]
        BY Zenon DEF Drop
    <2> QED
        BY <1>1, <1>2, <1>3, <1>9, <2>1
<1>11. d \in PluginState
    <2>1. PICK d1 : d1 = [s EXCEPT !.client = c]
        OBVIOUS
    <2>2. PICK d2 : d2 = [d1 EXCEPT !.online = FALSE]
        OBVIOUS
    <2>3. PICK d3 : d3 = [d2 EXCEPT !.misled = FALSE]
        OBVIOUS
    <2>4. PICK d4 : d4 = [d3 EXCEPT !.probe = p]
        OBVIOUS
    <2>5. d = [d4 EXCEPT !.links = ls]
        BY <1>9, <2>1, <2>2, <2>3, <2>4, Zenon
    <2>6. d1 \in PluginState
        BY <1>5, <2>1, StateFields, ZenonT(30)
    <2>7. d2 \in PluginState
        BY <2>2, <2>6, StateFields, ZenonT(30)
    <2>8. d3 \in PluginState
        BY <2>3, <2>7, StateFields, ZenonT(30)
    <2>9. d4 \in PluginState
        BY <1>7, <2>4, <2>8, StateFields, ZenonT(30)
    <2> QED
        BY <1>6, <2>5, <2>9, StateFields, ZenonT(30)
<1>12. /\ d.client = c /\ ~d.online /\ ~d.misled /\ d.probe = p /\ d.links = ls
       /\ d.pending = s.pending
    BY <1>9 DEF PluginState
<1>13. t = [d EXCEPT !.pending = pe]
    BY <1>4, <1>10, <1>12, Zenon DEF Disconnect
<1>14. t \in PluginState
    BY <1>8, <1>11, <1>13, StateFields, ZenonT(30)
<1>15. /\ t.client = c /\ ~t.online /\ ~t.misled /\ t.probe = p /\ t.links = ls
       /\ t.pending = pe
    BY <1>11, <1>12, <1>13 DEF PluginState
<1> QED
    BY <1>4, <1>5, <1>6, <1>7, <1>14, <1>15 DEF Connected

----------------------------------------------------------------------------
\* What the plugin forgets or gives up leaves the accounts in order.
LEMMA BaseShrinks ==
    ASSUME NEW s, NEW called, NEW ran, Base(s, called, ran), NEW t \in PluginState,
           \A n \in LinkIds : /\ Shrinks(s.links[n], t.links[n]) /\ LinkFits(t.links[n])
                              /\ t.links[n].held <=> t.client.link = n,
           \A r \in Requests : /\ t.pending[r] = "answered" => s.pending[r] = "answered"
                               /\ t.pending[r] = "absent" => s.pending[r] = "absent"
    PROVE  Base(t, called, ran)
<1>1. Links(t)
    BY DEF Links
<1>2. Requested(t, called, ran)
    <2>1. \A n \in LinkIds : AskedOnce(t.links[n])
        BY DEF Base, Requested, Shrinks
    <2>2. \A r \in Requests, n \in LinkIds : Asks(t.links[n], r) => Asks(s.links[n], r)
        BY DEF Shrinks
    <2> QED
        BY <2>1, <2>2 DEF Base, Requested
<1>3. Answered(t, called, ran)
    <2>1. \A r \in Requests, n \in LinkIds :
              Carries(t.links[n], Ok(r)) => Carries(s.links[n], Ok(r))
        BY DEF Shrinks
    <2> QED
        BY <2>1 DEF Base, Answered
<1> QED
    BY <1>1, <1>2, <1>3 DEF Base

\* _set_disconnected keeps everything in order, whatever it finds.
LEMMA DisconnectKeeps ==
    ASSUME NEW s, NEW called, NEW ran, Base(s, called, ran), NEW again \in BOOLEAN,
           NEW t, t = Disconnect(s, again)
    PROVE  Good(t, called, ran) /\ ~Connected(t)
<1>1. s \in PluginState /\ Links(s)
    BY DEF Base
<1>2. /\ t \in PluginState /\ ~Connected(t) /\ ~t.online /\ ~t.misled /\ t.probe # "own"
      /\ \A n \in LinkIds : /\ Shrinks(s.links[n], t.links[n]) /\ LinkFits(t.links[n])
                            /\ ~t.links[n].held
      /\ \A r \in Requests : t.pending[r] = IF s.pending[r] = "absent" THEN "absent" ELSE "failed"
    BY <1>1, DisconnectForm
<1>3. \A n \in LinkIds : t.client.link # n
    BY <1>2, IdsForm DEF Connected
<1>4. Base(t, called, ran)
    BY <1>2, <1>3, BaseShrinks
<1>5. Shows(t) /\ Opened(t)
    BY <1>2 DEF Shows, Opened, NobodyWaits
<1> QED
    BY <1>2, <1>4, <1>5 DEF Good

\* A message is written to the connection.
Asked(l, message) == [l EXCEPT !.toBridge = Append(@, message)]

MayAsk(l, message) == l.toBridge = <<>> /\ Fresh(l) => message = Login

\* A message at the end of the queue: what is asked and answered on the link then.
LEMMA AskedForm ==
    ASSUME NEW l, LinkFits(l), l.up, NEW message \in Messages,
           MayAsk(l, message),
           NEW m, m = Asked(l, message)
    PROVE  /\ LinkFits(m) /\ m.bridge = l.bridge /\ m.up = l.up /\ m.held = l.held
           /\ m.authed = l.authed /\ m.toPlugin = l.toPlugin /\ m.toBridge # <<>>
           /\ AskedOnce(l) /\ (message = Login \/ ~Asks(l, message)) => AskedOnce(m)
           /\ \A r : Asks(m, r) <=> Asks(l, r) \/ r = message
           /\ \A a : Carries(m, a) <=> Carries(l, a)
<1>0. l \in LinkRecord
    BY DEF LinkFits, LinkHolds
<1>1. PICK q : q = l.toBridge
    OBVIOUS
<1>2. q \in Seq(Messages)
    BY <1>0, <1>1 DEF LinkRecord
<1>3. PICK p : p = Append(q, message)
    OBVIOUS
<1>4. /\ p \in Seq(Messages) /\ p # <<>> /\ Len(q) \in Nat /\ Len(p) = Len(q) + 1
      /\ DOMAIN q = 1 .. Len(q) /\ DOMAIN p = 1 .. Len(p)
      /\ \A i \in DOMAIN q : p[i] = q[i]
      /\ p[Len(q) + 1] = message
    BY <1>2, <1>3
<1>5. m = [l EXCEPT !.toBridge = p]
    BY <1>1, <1>3, Zenon DEF Asked
<1>6. m \in LinkRecord
    BY <1>0, <1>4, <1>5, LinkFields, Zenon
<1>7. /\ m.bridge = l.bridge /\ m.up = l.up /\ m.held = l.held
      /\ m.authed = l.authed /\ m.toPlugin = l.toPlugin /\ m.toBridge = p
    BY <1>0, <1>5 DEF LinkRecord
<1>8. \A a : Carries(m, a) <=> Carries(l, a)
    BY <1>7 DEF Carries
<1>9. ASSUME NEW r PROVE Asks(m, r) <=> Asks(l, r) \/ r = message
    BY <1>1, <1>4, <1>7 DEF Asks
<1>10. ASSUME AskedOnce(l), message = Login \/ ~Asks(l, message) PROVE AskedOnce(m)
    <2>1. ASSUME NEW i \in DOMAIN p, NEW j \in DOMAIN p, p[i] = p[j], p[i] # Login
          PROVE  i = j
        <3>1. CASE i \in DOMAIN q /\ j \in DOMAIN q
            BY <1>1, <1>4, <1>10, <2>1, <3>1 DEF AskedOnce
        <3>2. CASE i \notin DOMAIN q \/ j \notin DOMAIN q
            <4>1. message # Login
                BY <1>4, <2>1, <3>2
            <4>2. \A k \in DOMAIN q : q[k] # message
                BY <1>1, <1>10, <4>1 DEF Asks
            <4> QED
                BY <1>4, <2>1, <3>2, <4>2
        <3> QED
            BY <3>1, <3>2
    <2> QED
        BY <1>7, <2>1 DEF AskedOnce
<1>11. Fresh(m) => Head(m.toBridge) = Login
    <2>1. CASE q = <<>>
        <3>1. Head(p) = message
            BY <1>2, <1>3, <2>1
        <3> QED
            BY <1>1, <1>7, <2>1, <3>1 DEF Fresh, MayAsk
    <2>2. CASE q # <<>>
        <3>1. Head(p) = Head(q)
            BY <1>2, <1>4, <2>2
        <3>2. Fresh(m) => Fresh(l)
            BY <1>7 DEF Fresh
        <3> QED
            BY <1>1, <1>7, <2>2, <3>1, <3>2 DEF LinkFits, LinkHolds
    <2> QED
        BY <2>1, <2>2
<1>12. LinkFits(m)
    BY <1>6, <1>7, <1>8, <1>11 DEF LinkFits, LinkHolds
<1> QED
    BY <1>4, <1>7, <1>8, <1>9, <1>10, <1>12

\* A message the client could write.
LEMMA SentForm ==
    ASSUME NEW s, NEW called, NEW ran, Base(s, called, ran), Writes(s), NEW message \in Messages,
           MayAsk(Mine(s), message),
           NEW t, t = Sent(s, message)
    PROVE  /\ t \in PluginState /\ t.client = s.client /\ t.online = s.online
           /\ t.misled = s.misled /\ t.probe = s.probe /\ t.pending = s.pending
           /\ Links(t) /\ t.links[s.client.link] = Asked(Mine(s), message)
           /\ \A n \in LinkIds : n # s.client.link => t.links[n] = s.links[n]
           /\ Mine(s).authed = Mine(t).authed /\ Mine(t).toBridge # <<>>
           /\ Connected(s) /\ Connected(t)
<1>1. PICK c : c = s.client.link
    OBVIOUS
<1>2. s \in PluginState /\ c \in LinkIds /\ Connected(s) /\ s.links[c].up
    BY <1>1 DEF Base, PluginState, ClientRecord, Connected, Writes, Mine
<1>3. PICK m : m = Asked(s.links[c], message)
    OBVIOUS
<1>4. PICK ls : ls = [s.links EXCEPT ![c] = m]
    OBVIOUS
<1>5. t = [s EXCEPT !.links = ls]
    <2>1. t = [s EXCEPT !.links = [s.links EXCEPT ![s.client.link] =
                 [s.links[s.client.link] EXCEPT
                    !.toBridge = Append(s.links[s.client.link].toBridge, message)]]]
        BY DEF Sent
    <2> QED
        BY <1>1, <1>3, <1>4, <2>1, Zenon DEF Asked
<1>6. /\ LinkFits(m) /\ m.held = s.links[c].held /\ m.authed = s.links[c].authed
      /\ m.toBridge # <<>>
    <2>1. LinkFits(s.links[c])
        BY <1>2 DEF Base, Links
    <2>2. Mine(s) = s.links[c]
        BY <1>1 DEF Mine
    <2> QED
        BY <1>2, <1>3, <2>1, <2>2, AskedForm
<1>7. s.links \in [LinkIds -> LinkRecord] /\ m \in LinkRecord
    BY <1>2, <1>6, StateForm DEF LinkFits, LinkHolds
<1>8. ls \in [LinkIds -> LinkRecord] /\ ls[c] = m /\ \A n \in LinkIds : n # c => ls[n] = s.links[n]
    BY <1>2, <1>4, <1>7
<1>9. t \in PluginState
    BY <1>2, <1>5, <1>8, StateFields, ZenonT(30)
<1>10. /\ t.client = s.client /\ t.online = s.online /\ t.links = ls
       /\ t.misled = s.misled /\ t.probe = s.probe /\ t.pending = s.pending
    BY <1>2, <1>5 DEF PluginState
<1>11. Links(t)
    <2>1. ASSUME NEW n \in LinkIds
          PROVE  LinkFits(t.links[n]) /\ (t.links[n].held <=> t.client.link = n)
        BY <1>6, <1>8, <1>10 DEF Base, Links
    <2> QED
        BY <2>1 DEF Links
<1> QED
    BY <1>1, <1>2, <1>3, <1>6, <1>8, <1>9, <1>10, <1>11 DEF Mine, Connected

\* The login, which asks for no request.
LEMMA SentLogin ==
    ASSUME NEW s, NEW called, NEW ran, Base(s, called, ran), Writes(s), NEW t, t = Sent(s, Login)
    PROVE  Base(t, called, ran)
<1>1. PICK c : c = s.client.link
    OBVIOUS
<1>2. /\ t \in PluginState /\ Links(t) /\ t.pending = s.pending
      /\ t.links[c] = Asked(s.links[c], Login)
      /\ \A n \in LinkIds : n # c => t.links[n] = s.links[n]
    BY <1>1, SentForm DEF Messages, Mine, MayAsk
<1>3. c \in LinkIds /\ s.links[c].up /\ LinkFits(s.links[c])
    BY <1>1 DEF Base, PluginState, ClientRecord, Connected, Writes, Mine, Links
<1>4. PICK l : l = s.links[c]
    OBVIOUS
<1>5. /\ AskedOnce(l) => AskedOnce(t.links[c])
      /\ \A r \in Requests : Asks(t.links[c], r) => Asks(l, r)
      /\ \A r \in Requests : Carries(t.links[c], Ok(r)) => Carries(l, Ok(r))
    BY <1>2, <1>3, <1>4, AskedForm, LinkBounds DEF Messages, MayAsk
<1>6. ASSUME NEW n \in LinkIds
      PROVE  /\ AskedOnce(s.links[n]) => AskedOnce(t.links[n])
             /\ \A r \in Requests : Asks(t.links[n], r) => Asks(s.links[n], r)
             /\ \A r \in Requests : Carries(t.links[n], Ok(r)) => Carries(s.links[n], Ok(r))
    BY <1>2, <1>4, <1>5
<1>7. Requested(t, called, ran)
    BY <1>6 DEF Base, Requested
<1>8. Answered(t, called, ran)
    BY <1>2, <1>6 DEF Base, Answered
<1> QED
    BY <1>2, <1>7, <1>8 DEF Base

\* A request, whose caller begins to wait.
Waiting(s, r) == [s EXCEPT !.pending[r] = "waiting"]
Returns(called, r, how) == [called EXCEPT ![r] = how]

\* The request is on no other link, did not run, and is behind a login unless the
\* bridge has taken or will never take one.
LEMMA SentRequest ==
    ASSUME NEW s, NEW called, NEW ran, Good(s, called, ran), Writes(s),
           NEW r \in Requests, called[r] = "none",
           NEW w, w = Waiting(s, r), NEW t, t = Sent(w, r),
           NEW c2, c2 = Returns(called, r, "awaiting")
    PROVE  Good(t, c2, ran)
<1>0. Base(s, called, ran)
    BY DEF Good
<1>1. s \in PluginState
    BY <1>0 DEF Base
<1>2. PICK p : p = [s.pending EXCEPT ![r] = "waiting"]
    OBVIOUS
<1>3. p \in [Requests -> Entries] /\ p[r] = "waiting"
      /\ \A q \in Requests : q # r => p[q] = s.pending[q]
    BY <1>1, <1>2, StateForm DEF Entries
<1>4. w = [s EXCEPT !.pending = p]
    BY <1>2, Zenon DEF Waiting
<1>5. w \in PluginState
    BY <1>1, <1>3, <1>4, StateFields, ZenonT(30)
<1>6. /\ w.client = s.client /\ w.online = s.online /\ w.misled = s.misled
      /\ w.probe = s.probe /\ w.links = s.links /\ w.pending = p
    BY <1>1, <1>4 DEF PluginState
<1>7. Base(w, called, ran)
    <2>1. Links(w) /\ Requested(w, called, ran)
        BY <1>0, <1>6 DEF Base, Links, Requested
    <2>2. Answered(w, called, ran)
        BY <1>0, <1>3, <1>6 DEF Base, Answered
    <2> QED
        BY <1>0, <1>5, <2>1, <2>2 DEF Base
<1>8. Writes(w) /\ Mine(w) = Mine(s) /\ Connected(s)
    BY <1>6 DEF Writes, Mine, Connected
<1>9. MayAsk(Mine(w), r)
    BY <1>8 DEF Good, Opened, Writes, MayAsk
<1>10. PICK c : c = s.client.link
    OBVIOUS
<1>11. /\ t \in PluginState /\ t.client = s.client /\ t.online = s.online
       /\ t.misled = s.misled /\ t.probe = s.probe /\ t.pending = p
       /\ Links(t) /\ t.links[c] = Asked(s.links[c], r)
       /\ \A n \in LinkIds : n # c => t.links[n] = s.links[n]
       /\ Mine(s).authed = Mine(t).authed /\ Mine(t).toBridge # <<>>
       /\ Connected(t)
    <2>1. r \in Messages
        BY DEF Messages
    <2>2. PICK message : message = r
        OBVIOUS
    <2>3. /\ t \in PluginState /\ t.client = w.client /\ t.online = w.online
          /\ t.misled = w.misled /\ t.probe = w.probe /\ t.pending = w.pending
          /\ Links(t) /\ t.links[w.client.link] = Asked(Mine(w), r)
          /\ \A n \in LinkIds : n # w.client.link => t.links[n] = w.links[n]
          /\ Mine(w).authed = Mine(t).authed /\ Mine(t).toBridge # <<>>
          /\ Connected(t)
        BY <1>7, <1>8, <1>9, <2>1, SentForm
    <2> QED
        BY <1>6, <1>8, <1>10, <2>3 DEF Mine
<1>12. c \in LinkIds /\ s.links[c].up /\ LinkFits(s.links[c])
    BY <1>0, <1>10 DEF Base, PluginState, ClientRecord, Connected, Writes, Mine, Links
<1>13. called \in CallerRecord /\ c2 \in CallerRecord /\ c2[r] = "awaiting"
       /\ \A q \in Requests : q # r => c2[q] = called[q]
    BY <1>0 DEF Base, CallerRecord, Returns
<1>14. \A n \in LinkIds : ~Asks(s.links[n], r)
    BY <1>0 DEF Base, Requested
<1>15. ran[r] = 0
    BY <1>0 DEF Base, Answered
<1>16. /\ AskedOnce(s.links[c]) => AskedOnce(t.links[c])
       /\ \A q : Asks(t.links[c], q) <=> Asks(s.links[c], q) \/ q = r
       /\ \A a : Carries(t.links[c], a) <=> Carries(s.links[c], a)
    <2>1. PICK l : l = s.links[c]
        OBVIOUS
    <2>2. PICK m : m = t.links[c]
        OBVIOUS
    <2>3. LinkFits(l) /\ l.up
        BY <1>12, <2>1
    <2>4. MayAsk(l, r) /\ m = Asked(l, r)
        BY <1>8, <1>9, <1>10, <1>11, <2>1, <2>2 DEF Mine
    <2>5. r \in Messages
        BY DEF Messages
    <2>6. ~Asks(l, r)
        BY <1>12, <1>14, <2>1
    <2>7. AskedOnce(l) => AskedOnce(m)
        BY <2>3, <2>4, <2>5, <2>6, AskedForm
    <2>8. \A q : Asks(m, q) <=> Asks(l, q) \/ q = r
        BY <2>3, <2>4, <2>5, AskedForm
    <2>9. \A a : Carries(m, a) <=> Carries(l, a)
        BY <2>3, <2>4, <2>5, AskedForm
    <2> QED
        BY <2>1, <2>2, <2>7, <2>8, <2>9
<1>17. Requested(t, c2, ran)
    <2>1. \A n \in LinkIds : AskedOnce(t.links[n])
        BY <1>0, <1>11, <1>16 DEF Base, Requested
    <2>2. \A n \in LinkIds : Asks(t.links[n], r) => n = c
        BY <1>11, <1>14
    <2>3. \A q \in Requests, n \in LinkIds : q # r => (Asks(t.links[n], q) <=> Asks(s.links[n], q))
        BY <1>11, <1>16
    <2>4. ASSUME NEW q \in Requests, NEW n \in LinkIds, Asks(t.links[n], q)
          PROVE  /\ \A m \in LinkIds : Asks(t.links[m], q) => m = n
                 /\ c2[q] \in {"awaiting", "failed"}
                 /\ ran[q] = 0
        <3>1. CASE q = r
            BY <1>13, <1>15, <2>2, <2>4, <3>1
        <3>2. CASE q # r
            BY <1>0, <1>13, <2>3, <2>4, <3>2 DEF Base, Requested
        <3> QED
            BY <3>1, <3>2
    <2> QED
        BY <2>1, <2>4 DEF Requested
<1>18. Answered(t, c2, ran)
    <2>1. \A q \in Requests, n \in LinkIds :
              Carries(t.links[n], Ok(q)) => Carries(s.links[n], Ok(q))
        BY <1>11, <1>16
    <2>2. \A q \in Requests, n \in LinkIds : Carries(t.links[n], Ok(q)) => ran[q] = 1
        BY <1>0, <2>1 DEF Base, Answered
    <2>3. ASSUME NEW q \in Requests
          PROVE  /\ t.pending[q] = "answered" \/ c2[q] = "answered" => ran[q] = 1
                 /\ c2[q] \in {"none", "refused"} => ran[q] = 0
                 /\ c2[q] = "awaiting" => t.pending[q] # "absent"
        BY <1>0, <1>3, <1>11, <1>13 DEF Base, Answered
    <2> QED
        BY <2>2, <2>3 DEF Answered
<1>19. Base(t, c2, ran)
    BY <1>0, <1>11, <1>13, <1>17, <1>18 DEF Base
<1>20. Shows(t)
    BY <1>8, <1>11 DEF Good, Shows, LoggedIn
<1>21. Opened(t)
    BY <1>8, <1>11 DEF Good, Opened, Connected
<1> QED
    BY <1>19, <1>20, <1>21 DEF Good

----------------------------------------------------------------------------
\* The pieces of the bridge client.
LEMMA BaseSame ==
    ASSUME NEW s, NEW called, NEW ran, Base(s, called, ran), NEW t \in PluginState,
           t.links = s.links, t.client.link = s.client.link, t.pending = s.pending
    PROVE  Base(t, called, ran)
<1>1. Links(t)
    BY DEF Base, Links
<1>2. Requested(t, called, ran)
    BY DEF Base, Requested
<1>3. Answered(t, called, ran)
    BY DEF Base, Answered
<1> QED
    BY <1>1, <1>2, <1>3 DEF Base

\* One field of the client.
LEMMA ClientFields ==
    ASSUME NEW c \in ClientRecord
    PROVE  /\ \A f \in BOOLEAN : [c EXCEPT !.authPending = f] \in ClientRecord
           /\ \A f \in BOOLEAN : [c EXCEPT !.open = f] \in ClientRecord
           /\ \A f \in BOOLEAN : [c EXCEPT !.timer = f] \in ClientRecord
<1>1. ASSUME NEW f \in BOOLEAN PROVE [c EXCEPT !.authPending = f] \in ClientRecord
    BY DEF ClientRecord
<1>2. ASSUME NEW f \in BOOLEAN PROVE [c EXCEPT !.open = f] \in ClientRecord
    BY DEF ClientRecord
<1>3. ASSUME NEW f \in BOOLEAN PROVE [c EXCEPT !.timer = f] \in ClientRecord
    BY DEF ClientRecord
<1> QED
    BY <1>1, <1>2, <1>3, Zenon

\* On the connection of s, if t still has it, t is as far as s.
SameLogin(s, t) ==
    Connected(t) => /\ Connected(s) /\ t.client.link = s.client.link
                    /\ Mine(t).authed = Mine(s).authed

\* _begin_authenticated_session, written or not.
LEMMA BeginLoginKeeps ==
    ASSUME NEW s, NEW called, NEW ran, Base(s, called, ran), Shows(s),
           NEW t, t = BeginLogin(s)
    PROVE  Good(t, called, ran) /\ SameLogin(s, t)
<1>1. CASE Writes(s)
    <2>1. s \in PluginState
        BY DEF Base
    <2>2. PICK c : c = [s.client EXCEPT !.authPending = FALSE]
        OBVIOUS
    <2>3. PICK u : u = [s EXCEPT !.client = c]
        OBVIOUS
    <2>4. c \in ClientRecord
        BY <2>1, <2>2, StateForm, ClientFields, Zenon
    <2>5. c.link = s.client.link /\ c.open = s.client.open
        BY <2>1, <2>2, StateForm DEF ClientRecord
    <2>6. u \in PluginState
        BY <2>1, <2>3, <2>4, StateFields, ZenonT(30)
    <2>7. /\ u.client = c /\ u.pending = s.pending /\ u.online = s.online /\ u.links = s.links
          /\ u.probe = s.probe /\ u.misled = s.misled
        BY <2>1, <2>3 DEF PluginState
    <2>8. t = Sent(u, Login)
        <3>1. t = Sent([s EXCEPT !.client.authPending = FALSE], Login)
            BY <1>1 DEF BeginLogin
        <3>2. [s EXCEPT !.client.authPending = FALSE] = u
            BY <2>2, <2>3, Zenon
        <3> QED
            BY <3>1, <3>2
    <2>9. Base(u, called, ran)
        BY <2>5, <2>6, <2>7, BaseSame
    <2>10. Writes(u) /\ Mine(u) = Mine(s) /\ Connected(s)
        BY <1>1, <2>5, <2>7 DEF Writes, Mine, Connected
    <2>11. Base(t, called, ran)
        BY <2>8, <2>9, <2>10, SentLogin
    <2>12. /\ t.client = c /\ t.online = s.online
           /\ t.misled = s.misled /\ t.probe = s.probe
           /\ Mine(s).authed = Mine(t).authed /\ Mine(t).toBridge # <<>>
           /\ Connected(t)
        <3>1. MayAsk(Mine(u), Login) /\ Login \in Messages
            BY DEF MayAsk, Messages
        <3>2. /\ t.client = u.client /\ t.online = u.online
              /\ t.misled = u.misled /\ t.probe = u.probe
              /\ Mine(u).authed = Mine(t).authed /\ Mine(t).toBridge # <<>>
              /\ Connected(t)
            BY <2>8, <2>9, <2>10, <3>1, SentForm
        <3> QED
            BY <2>7, <2>10, <3>2
    <2>13. Shows(t)
        BY <2>10, <2>12 DEF Shows, LoggedIn
    <2>14. Opened(t)
        BY <1>1, <2>5, <2>12 DEF Opened, Writes
    <2>15. SameLogin(s, t)
        BY <2>5, <2>10, <2>12 DEF SameLogin
    <2> QED
        BY <2>11, <2>13, <2>14, <2>15 DEF Good
<1>2. CASE ~Writes(s)
    <2>1. t = Disconnect(s, TRUE)
        BY <1>2 DEF BeginLogin
    <2> QED
        BY <2>1, DisconnectKeeps DEF SameLogin
<1> QED
    BY <1>1, <1>2

\* The new connection is on a link that is free.
LEMMA FreeLink ==
    ASSUME CanDial, MayConnect
    PROVE  Min(FreeLinks) \in LinkIds /\ links[Min(FreeLinks)] = Unused /\ path \in Bridges
<1>1. FreeLinks # {} /\ path \in Bridges
    BY DEF CanDial, MayConnect
<1>2. FreeLinks \in SUBSET Nat
    BY IdsForm DEF FreeLinks
<1>3. \A n \in FreeLinks : n \in LinkIds /\ links[n] = Unused
    BY DEF FreeLinks
<1> HIDE DEF FreeLinks
<1>4. \E m \in FreeLinks : \A k \in FreeLinks : m <= k
    BY <1>1, <1>2, LeastNumber
<1>5. Min(FreeLinks) \in FreeLinks
    BY <1>4 DEF Min
<1> QED
    BY <1>1, <1>3, <1>5

\* connect_to_bridge of a client that is not connected.
LEMMA ConnectKeeps ==
    ASSUME NEW s, NEW called, NEW ran, Good(s, called, ran), ~Connected(s), MayConnect,
           \A n \in LinkIds : links[n] = Unused => s.links[n] = Unused,
           NEW open \in BOOLEAN, NEW t, t = Connect(s, open)
    PROVE  Good(t, called, ran)
<1>0. Base(s, called, ran) /\ s \in PluginState
    BY DEF Good, Base
<1>1. CASE ~CanDial
    <2>1. PICK c : c = [s.client EXCEPT !.timer = TRUE]
        OBVIOUS
    <2>2. t = [s EXCEPT !.client = c]
        <3>1. t = [s EXCEPT !.client.timer = TRUE]
            BY <1>1 DEF Connect
        <3> QED
            BY <2>1, <3>1, Zenon
    <2>3. c \in ClientRecord
        BY <1>0, <2>1, StateForm, ClientFields, Zenon
    <2>4. c.link = s.client.link
        BY <1>0, <2>1, StateForm DEF ClientRecord
    <2>5. t \in PluginState
        BY <1>0, <2>2, <2>3, StateFields, ZenonT(30)
    <2>6. /\ t.client = c /\ t.pending = s.pending /\ t.online = s.online /\ t.links = s.links
          /\ t.probe = s.probe /\ t.misled = s.misled
        BY <1>0, <2>2 DEF PluginState
    <2>7. Base(t, called, ran)
        BY <1>0, <2>4, <2>5, <2>6, BaseSame
    <2>8. ~Connected(t)
        BY <2>4, <2>6 DEF Connected
    <2> QED
        BY <2>6, <2>7, <2>8 DEF Good, Shows, Opened, LoggedIn, NobodyWaits
<1>2. CASE CanDial
    <2>1. PICK n : n = Min(FreeLinks)
        OBVIOUS
    <2>2. n \in LinkIds /\ s.links[n] = Unused /\ path \in Bridges
        BY <1>2, <2>1, FreeLink
    <2>3. PICK c : c = [link |-> n, open |-> open, authPending |-> TRUE, timer |-> FALSE]
        OBVIOUS
    <2>4. PICK m : m = NewLink(path)
        OBVIOUS
    <2>5. PICK ls : ls = [s.links EXCEPT ![n] = m]
        OBVIOUS
    <2>6. PICK made : made = [s EXCEPT !.client = c, !.links = ls]
        OBVIOUS
    <2>7. t = IF open THEN BeginLogin(made) ELSE made
        <3>1. PICK u : u = [s EXCEPT !.client = [link |-> n, open |-> open, authPending |-> TRUE,
                                                 timer |-> FALSE],
                                     !.links[n] = NewLink(path)]
            OBVIOUS
        <3>2. t = IF open THEN BeginLogin(u) ELSE u
            BY <1>2, <2>1, <3>1 DEF Connect
        <3>3. u = made
            BY <2>3, <2>4, <2>5, <2>6, <3>1, Zenon
        <3> QED
            BY <3>2, <3>3
    <2>8. /\ LinkFits(m) /\ AskedOnce(m) /\ m.held /\ m \in LinkRecord
          /\ \A r : ~Asks(m, r) /\ ~Carries(m, r)
        BY <2>2, <2>4, NewLinkForm, NewLinkFits, NothingAsked
    <2>9. ls \in [LinkIds -> LinkRecord] /\ ls[n] = m
          /\ \A k \in LinkIds : k # n => ls[k] = s.links[k]
        BY <1>0, <2>2, <2>5, <2>8, StateForm
    <2>10. c \in ClientRecord /\ c.link = n /\ (c.open <=> open) /\ c.authPending
        BY <2>2, <2>3 DEF ClientRecord
    <2>11. made \in PluginState
        <3>1. PICK d : d = [s EXCEPT !.client = c]
            OBVIOUS
        <3>2. made = [d EXCEPT !.links = ls]
            BY <2>6, <3>1, Zenon
        <3>3. d \in PluginState
            BY <1>0, <2>10, <3>1, StateFields, ZenonT(30)
        <3> QED
            BY <2>9, <3>2, <3>3, StateFields, ZenonT(30)
    <2>12. /\ made.client = c /\ made.pending = s.pending /\ made.online = s.online
           /\ made.links = ls /\ made.probe = s.probe /\ made.misled = s.misled
        BY <1>0, <2>6 DEF PluginState
    <2>13. Links(made)
        <3>1. ASSUME NEW k \in LinkIds
              PROVE  LinkFits(ls[k]) /\ (ls[k].held <=> k = n)
            <4>1. CASE k = n
                BY <2>8, <2>9, <4>1
            <4>2. CASE k # n
                <5>1. ~s.links[k].held /\ LinkFits(s.links[k])
                    BY <1>0, IdsForm DEF Base, Links, Connected
                <5> QED
                    BY <2>9, <4>2, <5>1
            <4> QED
                BY <4>1, <4>2
        <3> QED
            BY <2>10, <2>12, <3>1 DEF Links
    <2>14. Requested(made, called, ran)
        <3>1. \A k \in LinkIds : AskedOnce(ls[k])
            BY <1>0, <2>8, <2>9 DEF Base, Requested
        <3>2. \A r \in Requests, k \in LinkIds : Asks(ls[k], r) => k # n /\ Asks(s.links[k], r)
            BY <2>8, <2>9
        <3> QED
            BY <1>0, <2>12, <3>1, <3>2 DEF Base, Requested
    <2>15. Answered(made, called, ran)
        <3>1. \A r \in Requests, k \in LinkIds : Carries(ls[k], Ok(r)) => Carries(s.links[k], Ok(r))
            BY <2>8, <2>9
        <3> QED
            BY <1>0, <2>12, <3>1 DEF Base, Answered
    <2>16. Base(made, called, ran)
        BY <1>0, <2>11, <2>13, <2>14, <2>15 DEF Base
    <2>17. Connected(made)
        BY <2>2, <2>10, <2>12, IdsForm DEF Connected
    <2>18. Shows(made)
        BY <2>12, <2>17 DEF Good, Shows, LoggedIn
    <2>19. CASE open
        BY <2>7, <2>16, <2>18, <2>19, BeginLoginKeeps
    <2>20. CASE ~open
        <3>1. Opened(made)
            BY <2>10, <2>12, <2>20 DEF Opened
        <3> QED
            BY <2>7, <2>16, <2>18, <2>20, <3>1 DEF Good
    <2> QED
        BY <2>19, <2>20
<1> QED
    BY <1>1, <1>2

\* What the client makes of one answer.
Earned(a, ran) == a \in AnswerRecord /\ (a.to \in Requests /\ a.ok => ran[a.to] = 1)

\* _handle_response: an answer, late or not, completes an entry only as it was
\* earned; a refused login ends the connection.
LEMMA HandleKeeps ==
    ASSUME NEW s, NEW called, NEW ran, Good(s, called, ran), NEW a, Earned(a, ran),
           NEW t, t = Handle(s, a)
    PROVE  Good(t, called, ran) /\ SameLogin(s, t)
<1>0. Base(s, called, ran) /\ s \in PluginState
    BY DEF Good, Base
<1>1. CASE a.to \in Requests
    <2>1. PICK how : how = IF a.ok THEN "answered" ELSE "failed"
        OBVIOUS
    <2>2. PICK p : p = [s.pending EXCEPT ![a.to] = how]
        OBVIOUS
    <2>3. t = [s EXCEPT !.pending = p]
        <3>1. t = [s EXCEPT !.pending[a.to] = IF a.ok THEN "answered" ELSE "failed"]
            BY <1>1 DEF Handle
        <3> QED
            BY <2>1, <2>2, <3>1, Zenon
    <2>4. /\ p \in [Requests -> Entries]
          /\ \A r \in Requests : p[r] = IF r = a.to THEN how ELSE s.pending[r]
        BY <1>0, <1>1, <2>1, <2>2, StateForm DEF Entries
    <2>5. t \in PluginState
        BY <1>0, <2>3, <2>4, StateFields, ZenonT(30)
    <2>6. /\ t.client = s.client /\ t.pending = p /\ t.online = s.online /\ t.links = s.links
          /\ t.probe = s.probe /\ t.misled = s.misled
        BY <1>0, <2>3 DEF PluginState
    <2>7. how = "answered" => ran[a.to] = 1
        BY <1>1, <2>1 DEF Earned
    <2>8. Links(t) /\ Requested(t, called, ran)
        BY <1>0, <2>6 DEF Base, Links, Requested
    <2>9. Answered(t, called, ran)
        BY <1>0, <2>1, <2>4, <2>6, <2>7 DEF Base, Answered
    <2>10. Base(t, called, ran)
        BY <1>0, <2>5, <2>8, <2>9 DEF Base
    <2>11. Connected(t) = Connected(s) /\ Mine(t) = Mine(s)
        BY <2>6 DEF Connected, Mine
    <2>12. Shows(t) /\ Opened(t)
        BY <2>1, <2>4, <2>6, <2>11 DEF Good, Shows, Opened, LoggedIn, NobodyWaits
    <2> QED
        BY <2>6, <2>10, <2>11, <2>12 DEF Good, SameLogin
<1>2. CASE a.to \notin Requests /\ a.ok
    BY <1>2 DEF Handle, SameLogin
<1>3. CASE a.to \notin Requests /\ ~a.ok
    <2>1. t = Disconnect(s, TRUE)
        BY <1>3 DEF Handle
    <2> QED
        BY <1>0, <2>1, DisconnectKeeps DEF SameLogin
<1> QED
    BY <1>1, <1>2, <1>3

\* Two pieces, one after the other.
LEMMA SameLoginOn ==
    ASSUME NEW s, NEW t, NEW u, SameLogin(s, t), SameLogin(t, u)
    PROVE  SameLogin(s, u)
BY DEF SameLogin

\* One answer after the other keeps what each one keeps.
LEMMA HandledKeeps ==
    ASSUME NEW s, NEW called, NEW ran, Good(s, called, ran), NEW answers \in Seq(AnswerRecord),
           \A i \in DOMAIN answers : Earned(answers[i], ran),
           NEW t, t = Handled(s, answers)
    PROVE  Good(t, called, ran) /\ SameLogin(s, t)
<1> DEFINE n == Len(answers)
           T == {v \in PluginState : Good(v, called, ran) /\ SameLogin(s, v)}
           One(i, v) == Handle(v, answers[i])
           F(k) == [i \in 0 .. n |-> IF i = 0 THEN s ELSE Handle(k[i - 1], answers[i])]
           after == CHOOSE k : k = F(k)
           G == [i \in 1 .. n |-> [v \in T |-> One(i, v)]]
<1>0. n \in Nat /\ \A i \in 1 .. n : Earned(answers[i], ran)
    OBVIOUS
<1>1. t = after[n]
    BY DEF Handled
<1>2. \A v : v \in T <=> Good(v, called, ran) /\ SameLogin(s, v)
    BY DEF Good, Base
<1> HIDE DEF T
<1>3. ASSUME NEW i \in 1 .. n, NEW v \in T PROVE One(i, v) \in T
    <2>1. Good(v, called, ran) /\ SameLogin(s, v)
        BY <1>2
    <2>2. PICK u : u = Handle(v, answers[i])
        OBVIOUS
    <2>3. Good(u, called, ran) /\ SameLogin(v, u)
        BY <1>0, <2>1, <2>2, HandleKeeps
    <2>4. SameLogin(s, u)
        BY <2>1, <2>3, SameLoginOn
    <2> QED
        BY <1>2, <2>2, <2>3, <2>4
<1>4. \A i \in 1 .. n, v \in T : G[i][v] = One(i, v)
    OBVIOUS
<1>5. s \in T
    BY <1>2 DEF SameLogin
<1>6. \A k, i : i \in 0 .. n => F(k)[i] = IF i = 0 THEN s ELSE One(i, k[i - 1])
    OBVIOUS
<1>7. \A k : F(k) = [i \in 0 .. n |-> F(k)[i]]
    OBVIOUS
<1> HIDE DEF G, One, F, n
<1>8. PICK f \in [0 .. n -> T] : Follows(f, s, n, G)
    <2>1. StaysIn(T, n, G)
        BY <1>3, <1>4 DEF StaysIn
    <2> QED
        BY <1>0, <1>5, <2>1, Recursion
<1>9. f = F(f)
    <2>1. ASSUME NEW i \in 0 .. n PROVE f[i] = F(f)[i]
        <3>1. CASE i = 0
            BY <1>6, <1>8, <3>1 DEF Follows
        <3>2. CASE i # 0
            <4>1. i \in 1 .. n /\ i - 1 \in 0 .. n
                BY <1>0, <3>2
            <4>2. f[i] = G[i][f[i - 1]] /\ f[i - 1] \in T
                BY <1>8, <4>1 DEF Follows
            <4>3. f[i] = One(i, f[i - 1])
                BY <1>4, <4>1, <4>2
            <4> QED
                BY <1>6, <3>2, <4>3
        <3> QED
            BY <3>1, <3>2
    <2>2. f = [i \in 0 .. n |-> f[i]]
        OBVIOUS
    <2> QED
        BY <1>7, <2>1, <2>2
<1>10. after = F(after)
    BY <1>9
<1> HIDE DEF after
<1>11. ASSUME NEW i \in 0 .. n PROVE after[i] = IF i = 0 THEN s ELSE One(i, after[i - 1])
    BY <1>6, <1>10
<1> DEFINE Bad == {i \in 0 .. n : after[i] \notin T}
<1>12. ASSUME Bad # {} PROVE FALSE
    <2>1. Bad \in SUBSET Nat /\ \A i \in 0 .. n : i \in Bad <=> after[i] \notin T
        BY <1>0
    <2>2. Bad \subseteq 0 .. n
        OBVIOUS
    <2> HIDE DEF Bad
    <2>3. PICK i \in Bad : \A k \in Bad : i <= k
        BY <1>12, <2>1, LeastNumber
    <2>4. i # 0
        BY <1>0, <1>5, <1>11, <2>1, <2>2
    <2>5. i \in 1 .. n /\ i - 1 \in 0 .. n /\ after[i - 1] \in T
        BY <1>0, <2>1, <2>2, <2>3, <2>4
    <2>6. after[i] = One(i, after[i - 1])
        BY <1>11, <2>2, <2>4
    <2> QED
        BY <1>3, <2>1, <2>2, <2>5, <2>6
<1>13. n \in 0 .. n
    BY <1>0
<1>14. t \in T
    BY <1>1, <1>12, <1>13
<1> QED
    BY <1>2, <1>14

\* The plugin has read what arrived on its connection.
TakenIn(s, c) == [s EXCEPT !.links[c].toPlugin = <<>>]

\* Reading all that has arrived.
LEMMA TakenInKeeps ==
    ASSUME NEW s, NEW called, NEW ran, Good(s, called, ran), Connected(s),
           NEW t, t = TakenIn(s, s.client.link)
    PROVE  Good(t, called, ran) /\ SameLogin(s, t)
<1>0. Base(s, called, ran) /\ s \in PluginState
    BY DEF Good, Base
<1>1. PICK c : c = s.client.link
    OBVIOUS
<1>2. c \in LinkIds
    BY <1>0, <1>1 DEF PluginState, ClientRecord, Connected
<1>3. PICK l : l = s.links[c]
    OBVIOUS
<1>4. LinkFits(l) /\ LinkHolds(l) /\ l \in LinkRecord /\ l.held
    BY <1>0, <1>1, <1>2, <1>3 DEF Base, Links, LinkFits, LinkHolds
<1>5. PICK m : m = [l EXCEPT !.toPlugin = <<>>]
    OBVIOUS
<1>6. m \in LinkRecord
    <2>1. <<>> \in Seq(AnswerRecord)
        OBVIOUS
    <2> QED
        BY <1>4, <1>5, <2>1, LinkFields, Zenon
<1>7. /\ m.bridge = l.bridge /\ m.authed = l.authed /\ m.up = l.up /\ m.held = l.held
      /\ m.toBridge = l.toBridge /\ m.toPlugin = <<>>
    BY <1>4, <1>5 DEF LinkRecord
<1>8. Shrinks(l, m)
    <2>1. CarriesLess(m, l)
        BY <1>7 DEF CarriesLess, Carries
    <2> QED
        BY <1>4, <1>6, <1>7, <2>1, ClosedEnd
<1>9. LinkFits(m) /\ m.held
    BY <1>4, <1>7, <1>8 DEF LinkFits, Shrinks
<1>10. PICK ls : ls = [s.links EXCEPT ![c] = m]
    OBVIOUS
<1>11. t = [s EXCEPT !.links = ls]
    BY <1>1, <1>3, <1>5, <1>10, Zenon DEF TakenIn
<1>12. /\ ls \in [LinkIds -> LinkRecord] /\ ls[c] = m
       /\ \A n \in LinkIds : n # c => ls[n] = s.links[n]
    BY <1>0, <1>2, <1>6, <1>10, StateForm
<1>13. t \in PluginState
    BY <1>0, <1>11, <1>12, StateFields, ZenonT(30)
<1>14. /\ t.client = s.client /\ t.pending = s.pending /\ t.online = s.online /\ t.links = ls
       /\ t.probe = s.probe /\ t.misled = s.misled
    BY <1>0, <1>11 DEF PluginState
<1>15. ASSUME NEW n \in LinkIds
       PROVE  /\ Shrinks(s.links[n], ls[n]) /\ LinkFits(ls[n])
              /\ ls[n].held <=> s.client.link = n
    <2>1. CASE n = c
        BY <1>1, <1>3, <1>8, <1>9, <1>12, <2>1
    <2>2. CASE n # c
        BY <1>0, <1>12, <2>2, ShrinksNot DEF Base, Links, LinkFits
    <2> QED
        BY <2>1, <2>2
<1>16. Base(t, called, ran)
    BY <1>0, <1>13, <1>14, <1>15, BaseShrinks
<1>17. /\ Mine(s) = l /\ Mine(t) = m /\ Connected(t)
       /\ (Fresh(m) <=> Fresh(l))
    BY <1>1, <1>3, <1>7, <1>12, <1>14 DEF Mine, Connected, Fresh
<1>18. Shows(t) /\ Opened(t)
    BY <1>7, <1>14, <1>17 DEF Good, Shows, Opened, LoggedIn, NobodyWaits
<1> QED
    BY <1>7, <1>14, <1>16, <1>17, <1>18 DEF Good, SameLogin

\* _on_bridge_connected on a connection that is logged in.
LEMMA WelcomeKeeps ==
    ASSUME NEW s, NEW called, NEW ran, Good(s, called, ran), Connected(s) => Mine(s).authed,
           NEW t, t = Welcome(s)
    PROVE  Good(t, called, ran)
<1>0. Base(s, called, ran) /\ s \in PluginState
    BY DEF Good, Base
<1>1. CASE ~Connected(s)
    BY <1>1 DEF Welcome
<1>2. CASE Connected(s) /\ s.probe = "none"
    <2>1. t = [s EXCEPT !.probe = "own"]
        BY <1>2 DEF Welcome
    <2>2. t \in PluginState
        BY <1>0, <2>1, StateFields, ZenonT(30)
    <2>3. /\ t.client = s.client /\ t.pending = s.pending /\ t.online = s.online
          /\ t.links = s.links /\ t.probe = "own" /\ t.misled = s.misled
        BY <1>0, <2>1 DEF PluginState
    <2>4. Base(t, called, ran)
        BY <1>0, <2>2, <2>3, BaseSame
    <2>5. Connected(t) /\ Mine(t) = Mine(s)
        BY <1>2, <2>3 DEF Connected, Mine
    <2>6. Shows(t) /\ Opened(t)
        BY <1>2, <2>3, <2>5 DEF Good, Shows, Opened, LoggedIn, NobodyWaits
    <2> QED
        BY <2>4, <2>6 DEF Good
<1>3. CASE Connected(s) /\ s.probe # "none"
    <2>1. PICK u : u = [s EXCEPT !.online = TRUE]
        OBVIOUS
    <2>2. t = [u EXCEPT !.misled = FALSE]
        <3>1. t = [s EXCEPT !.online = TRUE, !.misled = FALSE]
            BY <1>3 DEF Welcome
        <3> QED
            BY <2>1, <3>1, Zenon
    <2>3. u \in PluginState
        BY <1>0, <2>1, StateFields, ZenonT(30)
    <2>4. t \in PluginState
        BY <2>2, <2>3, StateFields, ZenonT(30)
    <2>5. /\ u.client = s.client /\ u.pending = s.pending /\ u.online
          /\ u.links = s.links /\ u.probe = s.probe
        BY <1>0, <2>1 DEF PluginState
    <2>6. /\ t.client = s.client /\ t.pending = s.pending /\ t.online
          /\ t.links = s.links /\ t.probe = s.probe /\ ~t.misled
        BY <2>2, <2>3, <2>5 DEF PluginState
    <2>7. Base(t, called, ran)
        BY <1>0, <2>4, <2>6, BaseSame
    <2>8. Connected(t) /\ Mine(t) = Mine(s)
        BY <1>3, <2>6 DEF Connected, Mine
    <2>9. Shows(t) /\ Opened(t)
        BY <1>3, <2>6, <2>8 DEF Good, Shows, Opened, LoggedIn, NobodyWaits
    <2> QED
        BY <2>7, <2>9 DEF Good
<1> QED
    BY <1>1, <1>2, <1>3

----------------------------------------------------------------------------
\* The steps of the plugin.
LEMMA Became ==
    ASSUME NEW s \in PluginState, Become(s)
    PROVE  S' = s
<1>1. s = [client |-> s.client, pending |-> s.pending, online |-> s.online, links |-> s.links,
           probe |-> s.probe, misled |-> s.misled]
    BY DEF PluginState
<1>2. S' = [client |-> s.client, pending |-> s.pending, online |-> s.online, links |-> s.links,
            probe |-> s.probe, misled |-> s.misled]
    BY DEF Become, S
<1> QED
    BY <1>1, <1>2

\* S is the variables.
LEMMA PresentState ==
    /\ S.client = client /\ S.pending = pending /\ S.online = online /\ S.links = links
    /\ S.probe = probe /\ S.misled = misled
BY DEF S

\* A step that makes the state s has LinkInv if s is good.
LEMMA BecameGood ==
    ASSUME NEW s, NEW called, NEW ran, Good(s, called, ran), Become(s),
           caller' = called, executions' = ran
    PROVE  LinkInv'
<1>1. S' = s
    BY Became DEF Good, Base
<1> QED
    BY <1>1 DEF LinkInv

\* A caller returns, or is told at once.
LEMMA Returned ==
    ASSUME NEW s, NEW called, NEW ran, Good(s, called, ran), NEW r \in Requests,
           NEW how \in {"answered", "failed", "refused"}, called[r] \in {"none", "awaiting"},
           how = "answered" => ran[r] = 1, how = "refused" => called[r] = "none",
           called[r] = "none" => how = "refused",
           NEW c2, c2 = Returns(called, r, how)
    PROVE  Good(s, c2, ran)
<1>0. Base(s, called, ran)
    BY DEF Good
<1>1. called \in CallerRecord /\ c2 \in CallerRecord /\ c2[r] = how
      /\ \A q \in Requests : q # r => c2[q] = called[q]
    BY <1>0 DEF Base, CallerRecord, Returns
<1>2. Requested(s, c2, ran)
    <2>1. \A n \in LinkIds : Asks(s.links[n], r) => how = "failed"
        BY <1>0 DEF Base, Requested
    <2> QED
        BY <1>0, <1>1, <2>1 DEF Base, Requested
<1>3. Answered(s, c2, ran)
    BY <1>0, <1>1 DEF Base, Answered
<1> QED
    BY <1>0, <1>1, <1>2, <1>3 DEF Good, Base

\* send_request, with the connection it may make first.
LEMMA CallKeeps ==
    ASSUME LinkInv, NEW r \in Requests, NEW open \in BOOLEAN, Call(r, open)
    PROVE  LinkInv'
<1>1. PICK s : s = IF Connected(S) THEN S ELSE Connect(S, open)
    OBVIOUS
<1>2. PICK called : called = caller
    OBVIOUS
<1>3. PICK ran : ran = executions
    OBVIOUS
<1>4. Good(s, called, ran)
    <2>1. Good(S, called, ran)
        BY <1>2, <1>3 DEF LinkInv
    <2>2. CASE Connected(S)
        BY <1>1, <2>1, <2>2
    <2>3. CASE ~Connected(S)
        <3>1. MayConnect /\ s = Connect(S, open)
            BY <1>1, <2>3 DEF Call
        <3>2. \A n \in LinkIds : links[n] = Unused => S.links[n] = Unused
            BY PresentState
        <3> QED
            BY <2>1, <2>3, <3>1, <3>2, ConnectKeeps
    <2> QED
        BY <2>2, <2>3
<1>5. called[r] = "none" /\ executions' = ran
    BY <1>2, <1>3 DEF Call
<1>6. CASE Writes(s)
    <2>1. PICK w : w = Waiting(s, r)
        OBVIOUS
    <2>2. PICK t : t = Sent(w, r)
        OBVIOUS
    <2>3. PICK c2 : c2 = Returns(called, r, "awaiting")
        OBVIOUS
    <2>4. Become(t) /\ caller' = c2
        BY <1>1, <1>2, <1>6, <2>1, <2>2, <2>3, Zenon DEF Call, Waiting, Returns
    <2>5. Good(t, c2, ran)
        BY <1>4, <1>5, <1>6, <2>1, <2>2, <2>3, SentRequest
    <2> QED
        BY <1>5, <2>4, <2>5, BecameGood
<1>7. CASE ~Writes(s)
    <2>1. PICK t : t = IF Connected(s) THEN Disconnect(s, TRUE) ELSE s
        OBVIOUS
    <2>2. PICK c2 : c2 = Returns(called, r, "refused")
        OBVIOUS
    <2>3. Become(t) /\ caller' = c2
        BY <1>1, <1>2, <1>7, <2>1, <2>2, Zenon DEF Call, Returns
    <2>4. Good(t, called, ran)
        <3>1. CASE Connected(s)
            BY <1>4, <2>1, <3>1, DisconnectKeeps DEF Good
        <3> QED
            BY <1>4, <2>1, <3>1
    <2>5. Good(t, c2, ran)
        BY <1>5, <2>2, <2>4, Returned
    <2> QED
        BY <1>5, <2>3, <2>5, BecameGood
<1> QED
    BY <1>6, <1>7

\* An entry is taken out of the table when its caller returns.
Forgotten(s, r) == [s EXCEPT !.pending[r] = "absent"]

\* An entry nobody awaits may go.
LEMMA ForgottenKeeps ==
    ASSUME NEW s, NEW called, NEW ran, Good(s, called, ran),
           NEW r \in Requests, called[r] # "awaiting",
           NEW t, t = Forgotten(s, r)
    PROVE  Good(t, called, ran)
<1>0. Base(s, called, ran) /\ s \in PluginState
    BY DEF Good, Base
<1>1. PICK p : p = [s.pending EXCEPT ![r] = "absent"]
    OBVIOUS
<1>2. t = [s EXCEPT !.pending = p]
    BY <1>1, Zenon DEF Forgotten
<1>3. /\ p \in [Requests -> Entries]
      /\ \A q \in Requests : p[q] = IF q = r THEN "absent" ELSE s.pending[q]
    BY <1>0, <1>1, StateForm DEF Entries
<1>4. t \in PluginState
    BY <1>0, <1>2, <1>3, StateFields, ZenonT(30)
<1>5. /\ t.client = s.client /\ t.pending = p /\ t.online = s.online /\ t.links = s.links
      /\ t.probe = s.probe /\ t.misled = s.misled
    BY <1>0, <1>2 DEF PluginState
<1>6. Links(t) /\ Requested(t, called, ran)
    BY <1>0, <1>5 DEF Base, Links, Requested
<1>7. Answered(t, called, ran)
    BY <1>0, <1>3, <1>5 DEF Base, Answered
<1>8. Connected(t) = Connected(s) /\ Mine(t) = Mine(s)
    BY <1>5 DEF Connected, Mine
<1>9. Shows(t) /\ Opened(t)
    BY <1>3, <1>5, <1>8 DEF Good, Shows, Opened, LoggedIn, NobodyWaits
<1> QED
    BY <1>0, <1>4, <1>6, <1>7, <1>9 DEF Good, Base

\* _await_request returns, with the entry or without.
LEMMA ReturnKeeps ==
    ASSUME LinkInv, NEW r \in Requests, Collect(r) \/ TimeOut(r)
    PROVE  LinkInv'
<1>1. PICK called : called = caller
    OBVIOUS
<1>2. PICK ran : ran = executions
    OBVIOUS
<1>3. PICK s : s = S
    OBVIOUS
<1>4. Good(s, called, ran)
    BY <1>1, <1>2, <1>3 DEF LinkInv
<1>5. PICK how : how = IF Collect(r) THEN pending[r] ELSE "failed"
    OBVIOUS
<1>6. PICK c2 : c2 = Returns(called, r, how)
    OBVIOUS
<1>7. PICK t : t = Forgotten(s, r)
    OBVIOUS
<1>8. /\ called[r] = "awaiting" /\ how \in {"answered", "failed"} /\ caller' = c2
      /\ executions' = ran
      /\ how = "answered" => pending[r] = "answered"
    <2>1. CASE Collect(r)
        BY <1>1, <1>2, <1>5, <1>6, <2>1 DEF Collect, Returns
    <2>2. CASE ~Collect(r)
        BY <1>1, <1>2, <1>5, <1>6, <2>2 DEF TimeOut, Returns
    <2> QED
        BY <2>1, <2>2
<1>9. how = "answered" => ran[r] = 1
    BY <1>3, <1>4, <1>8, PresentState DEF Good, Base, Answered
<1>10. Good(s, c2, ran)
    BY <1>4, <1>6, <1>8, <1>9, Returned
<1>11. c2[r] # "awaiting"
    BY <1>4, <1>6, <1>8 DEF Good, Base, CallerRecord, Returns
<1>12. Good(t, c2, ran)
    BY <1>7, <1>10, <1>11, ForgottenKeeps
<1>13. Become(t)
    <2>1. pending' = [pending EXCEPT ![r] = "absent"]
        BY DEF Collect, TimeOut
    <2>2. UNCHANGED <<client, online, links, probe, misled>>
        BY DEF Collect, TimeOut
    <2>3. s \in PluginState
        BY <1>4 DEF Good, Base
    <2>4. PICK p : p = [s.pending EXCEPT ![r] = "absent"]
        OBVIOUS
    <2>5. t = [s EXCEPT !.pending = p]
        BY <1>7, <2>4, Zenon DEF Forgotten
    <2>6. /\ t.client = s.client /\ t.pending = p /\ t.online = s.online /\ t.links = s.links
          /\ t.probe = s.probe /\ t.misled = s.misled
        BY <2>3, <2>5 DEF PluginState
    <2> QED
        BY <1>3, <2>1, <2>2, <2>4, <2>6, PresentState DEF Become
<1> QED
    BY <1>8, <1>12, <1>13, BecameGood

\* The stream fails.
LEMMA FailureKeeps ==
    ASSUME LinkInv, StreamFails
    PROVE  LinkInv'
<1>1. PICK t : t = Disconnect(S, TRUE)
    OBVIOUS
<1>2. PICK called : called = caller
    OBVIOUS
<1>3. PICK ran : ran = executions
    OBVIOUS
<1>4. Become(t) /\ caller' = called /\ executions' = ran
    BY <1>1, <1>2, <1>3 DEF StreamFails
<1>5. Good(t, called, ran)
    BY <1>1, <1>2, <1>3, DisconnectKeeps DEF LinkInv, Good
<1> QED
    BY <1>4, <1>5, BecameGood

\* What a probe's end shows is marked as misled unless it is the connection's.
LEMMA ProbeKeeps ==
    ASSUME LinkInv, ProbeEnds
    PROVE  LinkInv'
<1>1. PICK called : called = caller
    OBVIOUS
<1>2. PICK ran : ran = executions
    OBVIOUS
<1>3. PICK s : s = S
    OBVIOUS
<1>4. Good(s, called, ran)
    BY <1>1, <1>2, <1>3 DEF LinkInv
<1>5. s \in PluginState
    BY <1>4 DEF Good, Base
<1>6. PICK on : on = (s.online \/ Connected(s))
    OBVIOUS
<1>7. PICK mis : mis = (s.misled \/ (~s.online /\ Connected(s) /\ s.probe = "stray"))
    OBVIOUS
<1>8. on \in BOOLEAN /\ mis \in BOOLEAN
    <2>1. s.online \in BOOLEAN /\ s.misled \in BOOLEAN
        BY <1>5 DEF PluginState
    <2> QED
        BY <1>6, <1>7, <2>1, Zenon
<1>9. PICK t1 : t1 = [s EXCEPT !.online = on]
    OBVIOUS
<1>10. PICK t2 : t2 = [t1 EXCEPT !.misled = mis]
    OBVIOUS
<1>11. PICK t : t = [t2 EXCEPT !.probe = "none"]
    OBVIOUS
<1>12. t1 \in PluginState
    BY <1>5, <1>8, <1>9, StateFields, ZenonT(30)
<1>13. t2 \in PluginState
    BY <1>8, <1>10, <1>12, StateFields, ZenonT(30)
<1>14. t \in PluginState
    BY <1>11, <1>13, StateFields, ZenonT(30)
<1>15. /\ t.client = s.client /\ t.pending = s.pending /\ t.links = s.links
       /\ t.probe = "none" /\ t.online = on /\ t.misled = mis
    <2>1. /\ t1.client = s.client /\ t1.pending = s.pending /\ t1.links = s.links
          /\ t1.probe = s.probe /\ t1.online = on
        BY <1>5, <1>9 DEF PluginState
    <2>2. /\ t2.client = s.client /\ t2.pending = s.pending /\ t2.links = s.links
          /\ t2.online = on /\ t2.misled = mis
        BY <1>10, <1>12, <2>1 DEF PluginState
    <2> QED
        BY <1>11, <1>13, <2>2 DEF PluginState
<1>16. Become(t)
    <2>1. /\ client' = s.client /\ pending' = s.pending /\ links' = s.links /\ probe' = "none"
        BY <1>3, PresentState DEF ProbeEnds
    <2>2. online' = on
        BY <1>3, <1>6, PresentState DEF ProbeEnds
    <2>3. misled' = mis
        BY <1>3, <1>7, PresentState DEF ProbeEnds
    <2> QED
        BY <1>15, <2>1, <2>2, <2>3 DEF Become
<1>17. Base(t, called, ran)
    BY <1>4, <1>14, <1>15, BaseSame DEF Good
<1>18. Connected(t) = Connected(s) /\ Mine(t) = Mine(s)
    BY <1>15 DEF Connected, Mine
<1>19. Shows(t)
    <2>1. s.probe \in {"own", "stray"}
        BY <1>3, <1>5, PresentState, StateForm DEF ProbeEnds
    <2>2. Shows(s)
        BY <1>4 DEF Good
    <2>3. t.online => Connected(t)
        BY <1>6, <1>15, <1>18, <2>2 DEF Shows
    <2>4. t.online /\ ~t.misled => LoggedIn(t)
        BY <1>6, <1>7, <1>15, <1>18, <2>1, <2>2 DEF Shows, LoggedIn
    <2> QED
        BY <1>15, <1>18, <2>2, <2>3, <2>4 DEF Shows, NobodyWaits
<1>20. Opened(t)
    BY <1>4, <1>15, <1>18 DEF Good, Opened
<1>21. caller' = called /\ executions' = ran
    BY <1>1, <1>2 DEF ProbeEnds
<1> QED
    BY <1>16, <1>17, <1>19, <1>20, <1>21, BecameGood DEF Good

\* The client is told something that does not touch its connection.
LEMMA ClientKeeps ==
    ASSUME NEW s, NEW called, NEW ran, Good(s, called, ran),
           NEW c \in ClientRecord, c.link = s.client.link,
           NEW t, t = [s EXCEPT !.client = c]
    PROVE  /\ Base(t, called, ran) /\ Shows(t) /\ t.client = c /\ t.links = s.links
           /\ Connected(t) = Connected(s) /\ Mine(t) = Mine(s)
<1>0. Base(s, called, ran) /\ s \in PluginState
    BY DEF Good, Base
<1>1. t \in PluginState
    BY <1>0, StateFields, ZenonT(30)
<1>2. /\ t.client = c /\ t.pending = s.pending /\ t.online = s.online /\ t.links = s.links
      /\ t.probe = s.probe /\ t.misled = s.misled
    BY <1>0 DEF PluginState
<1>3. Base(t, called, ran)
    BY <1>0, <1>1, <1>2, BaseSame
<1>4. Connected(t) = Connected(s) /\ Mine(t) = Mine(s)
    BY <1>2 DEF Connected, Mine
<1>5. Shows(t)
    BY <1>2, <1>4 DEF Good, Shows, LoggedIn, NobodyWaits
<1> QED
    BY <1>2, <1>3, <1>4, <1>5

\* _on_reconnect_timeout: the connection is made on a link that was free before.
LEMMA ReconnectKeeps ==
    ASSUME LinkInv, NEW open \in BOOLEAN, Reconnect(open)
    PROVE  LinkInv'
<1>1. PICK called : called = caller
    OBVIOUS
<1>2. PICK ran : ran = executions
    OBVIOUS
<1>3. PICK s : s = S
    OBVIOUS
<1>4. Good(s, called, ran)
    BY <1>1, <1>2, <1>3 DEF LinkInv
<1>5. s \in PluginState
    BY <1>4 DEF Good, Base
<1>6. PICK c : c = [s.client EXCEPT !.timer = FALSE]
    OBVIOUS
<1>7. c \in ClientRecord
    BY <1>5, <1>6, StateForm, ClientFields, Zenon
<1>8. c.link = s.client.link /\ c.open = s.client.open /\ c.authPending = s.client.authPending
    BY <1>5, <1>6, StateForm DEF ClientRecord
<1>9. PICK u : u = [s EXCEPT !.client = c]
    OBVIOUS
<1>10. /\ Base(u, called, ran) /\ Shows(u) /\ u.client = c /\ u.links = s.links
       /\ Connected(u) = Connected(s) /\ Mine(u) = Mine(s)
    BY <1>4, <1>7, <1>8, <1>9, ClientKeeps
<1>11. Good(u, called, ran)
    BY <1>4, <1>8, <1>10 DEF Good, Opened
<1>12. PICK t : t = IF Connected(u) THEN u ELSE Connect(u, open)
    OBVIOUS
<1>13. Become(t) /\ caller' = called /\ executions' = ran /\ MayConnect
    <2>1. u = [S EXCEPT !.client.timer = FALSE]
        BY <1>3, <1>6, <1>9, Zenon
    <2> QED
        BY <1>1, <1>2, <1>12, <2>1 DEF Reconnect
<1>14. Good(t, called, ran)
    <2>1. CASE Connected(u)
        BY <1>11, <1>12, <2>1
    <2>2. CASE ~Connected(u)
        <3>1. \A n \in LinkIds : links[n] = Unused => u.links[n] = Unused
            BY <1>3, <1>10, PresentState
        <3> QED
            BY <1>11, <1>12, <1>13, <2>2, <3>1, ConnectKeeps
    <2> QED
        BY <2>1, <2>2
<1> QED
    BY <1>13, <1>14, BecameGood

\* A new connection in place of the old one, whose link may not be the new one.
LEMMA AttemptKeeps ==
    ASSUME LinkInv, NEW open \in BOOLEAN, Attempt(open)
    PROVE  LinkInv'
<1>1. PICK called : called = caller
    OBVIOUS
<1>2. PICK ran : ran = executions
    OBVIOUS
<1>3. PICK s : s = S
    OBVIOUS
<1>4. Good(s, called, ran)
    BY <1>1, <1>2, <1>3 DEF LinkInv
<1>5. PICK d : d = Disconnect(s, FALSE)
    OBVIOUS
<1>6. PICK t : t = Connect(d, open)
    OBVIOUS
<1>7. Become(t) /\ caller' = called /\ executions' = ran /\ MayConnect
    BY <1>1, <1>2, <1>3, <1>5, <1>6 DEF Attempt
<1>8. Good(d, called, ran) /\ ~Connected(d)
    BY <1>4, <1>5, DisconnectKeeps DEF Good
<1>9. \A n \in LinkIds : links[n] = Unused => d.links[n] = Unused
    <2>1. s \in PluginState /\ Links(s)
        BY <1>4 DEF Good, Base
    <2>2. \A n \in LinkIds : ~s.links[n].held => d.links[n] = s.links[n]
        <3>1. PICK again \in BOOLEAN : again = FALSE
            OBVIOUS
        <3>2. d = Disconnect(s, again)
            BY <1>5, <3>1
        <3> QED
            BY <2>1, <3>2, DisconnectForm
    <2>3. ~Unused.held /\ s.links = links
        BY <1>3, UnusedForm, PresentState
    <2> QED
        BY <2>2, <2>3
<1>10. Good(t, called, ran)
    BY <1>6, <1>7, <1>8, <1>9, ConnectKeeps
<1> QED
    BY <1>7, <1>10, BecameGood

\* What has arrived on the connection was earned, and a login that was
\* accepted has made it one that is logged in.
LEMMA ArrivedEarned ==
    ASSUME NEW s, NEW called, NEW ran, Base(s, called, ran), Connected(s),
           NEW answers, answers = Mine(s).toPlugin
    PROVE  /\ answers \in Seq(AnswerRecord)
           /\ \A i \in DOMAIN answers : Earned(answers[i], ran)
           /\ Accepted(answers) => Mine(s).authed
<1>1. PICK c : c = s.client.link
    OBVIOUS
<1>2. c \in LinkIds
    BY <1>1 DEF Base, PluginState, ClientRecord, Connected
<1>3. PICK l : l = s.links[c]
    OBVIOUS
<1>4. LinkHolds(l) /\ l \in LinkRecord /\ answers = l.toPlugin /\ Mine(s) = l
    BY <1>1, <1>2, <1>3 DEF Base, Links, LinkFits, LinkHolds, Mine
<1>5. answers \in Seq(AnswerRecord)
    BY <1>4 DEF LinkRecord
<1>6. \A i \in DOMAIN answers : answers[i] \in AnswerRecord /\ Carries(l, answers[i])
    <2>1. \A i \in DOMAIN answers : answers[i] \in AnswerRecord
        BY <1>5
    <2>2. \A i \in DOMAIN answers : Carries(l, answers[i])
        BY <1>4 DEF Carries
    <2> QED
        BY <2>1, <2>2
<1>7. ASSUME NEW i \in DOMAIN answers PROVE Earned(answers[i], ran)
    <2>1. PICK a : a = answers[i]
        OBVIOUS
    <2>2. a \in AnswerRecord /\ Carries(l, a)
        BY <1>6, <2>1
    <2>3. ASSUME a.to \in Requests, a.ok PROVE ran[a.to] = 1
        <3>1. a = Ok(a.to)
            BY <2>2, <2>3 DEF AnswerRecord, Ok
        <3>2. PICK r \in Requests : r = a.to
            BY <2>3
        <3>3. Carries(s.links[c], Ok(r))
            BY <1>3, <2>2, <3>1, <3>2
        <3>4. ran[r] = 1
            BY <1>2, <3>3 DEF Base, Answered
        <3> QED
            BY <3>2, <3>4
    <2> QED
        BY <2>1, <2>2, <2>3 DEF Earned
<1>8. ASSUME Accepted(answers) PROVE l.authed
    <2>1. PICK i \in DOMAIN answers : answers[i] = Ok(Login)
        BY <1>8 DEF Accepted, Ok
    <2>2. Carries(l, Ok(Login))
        BY <1>6, <2>1
    <2> QED
        BY <1>4, <2>2 DEF LinkHolds
<1> QED
    BY <1>4, <1>5, <1>7, <1>8

\* _process: whichever way the login and the answers go, a connection that is
\* left at the end is the one of the beginning, and as far.
LEMMA FrameKeeps ==
    ASSUME LinkInv, NEW open \in BOOLEAN, Frame(open)
    PROVE  LinkInv'
<1>1. PICK called : called = caller
    OBVIOUS
<1>2. PICK ran : ran = executions
    OBVIOUS
<1>3. PICK s : s = S
    OBVIOUS
<1>4. Good(s, called, ran)
    BY <1>1, <1>2, <1>3 DEF LinkInv
<1>5. s \in PluginState /\ Base(s, called, ran)
    BY <1>4 DEF Good, Base
<1>6. Connected(s) /\ (s.client.open => open) /\ s.client = client /\ s.links = links
    BY <1>3, PresentState DEF Frame
<1>7. PICK c : c = [s.client EXCEPT !.open = open]
    OBVIOUS
<1>8. c \in ClientRecord
    BY <1>5, <1>7, StateForm, ClientFields, Zenon
<1>9. c.link = s.client.link /\ c.open = open /\ c.authPending = s.client.authPending
    BY <1>5, <1>7, StateForm DEF ClientRecord
<1>10. PICK polled : polled = [s EXCEPT !.client = c]
    OBVIOUS
<1>11. /\ Base(polled, called, ran) /\ Shows(polled) /\ polled.client = c
       /\ Connected(polled) /\ Mine(polled) = Mine(s)
    BY <1>4, <1>6, <1>8, <1>9, <1>10, ClientKeeps
<1>12. PICK begun :
            begun = IF s.client.authPending /\ open THEN BeginLogin(polled) ELSE polled
    OBVIOUS
<1>13. Good(begun, called, ran) /\ SameLogin(polled, begun)
    <2>1. CASE s.client.authPending /\ open
        BY <1>11, <1>12, <2>1, BeginLoginKeeps
    <2>2. CASE ~(s.client.authPending /\ open)
        <3>1. begun = polled
            BY <1>12, <2>2
        <3>2. Opened(polled)
            BY <1>4, <1>6, <1>9, <1>11, <2>2 DEF Good, Opened
        <3> QED
            BY <1>11, <3>1, <3>2 DEF Good, SameLogin
    <2> QED
        BY <2>1, <2>2
<1>14. PICK arrived : arrived = Mine(s).toPlugin
    OBVIOUS
<1>15. /\ arrived \in Seq(AnswerRecord)
       /\ \A i \in DOMAIN arrived : Earned(arrived[i], ran)
       /\ Accepted(arrived) => Mine(s).authed
    BY <1>5, <1>6, <1>14, ArrivedEarned
<1>16. PICK u : u = TakenIn(begun, s.client.link)
    OBVIOUS
<1>17. PICK read : read = Handled(u, arrived)
    OBVIOUS
<1>18. PICK t : t = IF ~Connected(begun) THEN begun
                    ELSE IF Accepted(arrived) THEN Welcome(read) ELSE read
    OBVIOUS
<1>19. Become(t) /\ caller' = called /\ executions' = ran
    <2>1. polled = [S EXCEPT !.client.open = open]
        BY <1>3, <1>7, <1>10, Zenon
    <2>2. arrived = links[client.link].toPlugin
        BY <1>6, <1>14 DEF Mine
    <2>3. begun = IF client.authPending /\ open THEN BeginLogin([S EXCEPT !.client.open = open])
                  ELSE [S EXCEPT !.client.open = open]
        BY <1>6, <1>12, <2>1
    <2>4. u = [begun EXCEPT !.links[client.link].toPlugin = <<>>]
        BY <1>6, <1>16 DEF TakenIn
    <2>5. read = Handled([begun EXCEPT !.links[client.link].toPlugin = <<>>],
                         links[client.link].toPlugin)
        BY <1>17, <2>2, <2>4
    <2>6. IF ~Connected(begun) THEN Become(begun)
          ELSE Become(IF Accepted(arrived) THEN Welcome(read) ELSE read)
        BY <2>2, <2>3, <2>5, Zenon DEF Frame
    <2>7. Become(t)
        BY <1>18, <2>6, Zenon
    <2> QED
        BY <1>1, <1>2, <2>7 DEF Frame
<1>20. CASE ~Connected(begun)
    BY <1>13, <1>18, <1>19, <1>20, BecameGood
<1>21. CASE Connected(begun)
    <2>1. begun.client.link = s.client.link /\ Mine(begun).authed = Mine(s).authed
        BY <1>9, <1>11, <1>13, <1>21 DEF SameLogin
    <2>2. Good(u, called, ran) /\ SameLogin(begun, u)
        BY <1>13, <1>16, <1>21, <2>1, TakenInKeeps
    <2>3. Good(read, called, ran) /\ SameLogin(u, read)
        BY <1>15, <1>17, <2>2, HandledKeeps
    <2>4. SameLogin(begun, read)
        BY <2>2, <2>3, SameLoginOn
    <2>5. Good(t, called, ran)
        <3>1. CASE Accepted(arrived)
            <4>1. Connected(read) => Mine(read).authed
                BY <1>15, <2>1, <2>4, <3>1 DEF SameLogin
            <4>2. t = Welcome(read)
                BY <1>18, <1>21, <3>1
            <4> QED
                BY <2>3, <4>1, <4>2, WelcomeKeeps
        <3>2. CASE ~Accepted(arrived)
            BY <1>18, <1>21, <2>3, <3>2
        <3> QED
            BY <3>1, <3>2
    <2> QED
        BY <1>19, <2>5, BecameGood
<1> QED
    BY <1>20, <1>21

\* The plugin keeps LinkInv.
LEMMA PluginKeeps ==
    ASSUME LinkInv, PluginStep
    PROVE  LinkInv'
<1>1. CASE \E open \in BOOLEAN, r \in Requests : Call(r, open)
    BY <1>1, CallKeeps
<1>2. CASE \E open \in BOOLEAN : Reconnect(open)
    BY <1>2, ReconnectKeeps
<1>3. CASE \E open \in BOOLEAN : Attempt(open)
    BY <1>3, AttemptKeeps
<1>4. CASE \E open \in BOOLEAN : Frame(open)
    BY <1>4, FrameKeeps
<1>5. CASE \E r \in Requests : Collect(r) \/ TimeOut(r)
    BY <1>5, ReturnKeeps
<1>6. CASE StreamFails \/ ProbeEnds
    BY <1>6, FailureKeeps, ProbeKeeps
<1> QED
    BY <1>1, <1>2, <1>3, <1>4, <1>5, <1>6 DEF PluginStep

----------------------------------------------------------------------------
\* The bridge's end of a link.

\* What a bridge may make of a link, with what ran by then.
Moves(l, m, ran) ==
    /\ LinkFits(m)
    /\ m.held <=> l.held
    /\ AskedOnce(l) => AskedOnce(m)
    /\ \A r \in Requests : Asks(m, r) => Asks(l, r)
    /\ \A r \in Requests : Carries(m, Ok(r)) => Carries(l, Ok(r)) \/ ran[r] = 1
    /\ l.authed /\ m.held => m.authed
    /\ Fresh(m) /\ m.toBridge = <<>> => Fresh(l) /\ l.toBridge = <<>>

\* A bridge may shrink a link whose end it leaves to the plugin.
LEMMA ShrinksMoves ==
    ASSUME NEW l, NEW m, NEW ran, Shrinks(l, m), LinkFits(m), m.held <=> l.held
    PROVE  Moves(l, m, ran)
BY Zenon DEF Shrinks, Moves

\* It may shrink what it made of a link.
LEMMA MovesOn ==
    ASSUME NEW l, NEW m, NEW k, NEW ran, Moves(l, m, ran), Shrinks(m, k), LinkFits(k),
           k.held <=> m.held
    PROVE  Moves(l, k, ran)
BY Zenon DEF Shrinks, Moves

\* What runs was asked for, and is asked for no longer.
MayRun(s, called, ran, ran2) ==
    \A r \in Requests : ran2[r] # ran[r] =>
        /\ ran2[r] = 1
        /\ \A n \in LinkIds : ~Asks(s.links[n], r)
        /\ called[r] \notin {"none", "refused"}

\* Steps of bridges on any links, with at most one run of what they were asked.
LEMMA MovesKeep ==
    ASSUME NEW s, NEW called, NEW ran, Good(s, called, ran),
           NEW ls \in [LinkIds -> LinkRecord], NEW ran2 \in Executed,
           \A n \in LinkIds : Moves(s.links[n], ls[n], ran2),
           NEW t, t = [s EXCEPT !.links = ls],
           MayRun(t, called, ran, ran2)
    PROVE  Good(t, called, ran2)
<1>0. Base(s, called, ran) /\ s \in PluginState
    BY DEF Good, Base
<1>1. t \in PluginState
    BY <1>0, StateFields, ZenonT(30)
<1>2. /\ t.client = s.client /\ t.pending = s.pending /\ t.online = s.online /\ t.links = ls
      /\ t.probe = s.probe /\ t.misled = s.misled
    BY <1>0 DEF PluginState
<1>3. Links(t)
    BY <1>0, <1>2 DEF Base, Links, Moves
<1>4. \A r \in Requests : ran2[r] = ran[r] \/ ran2[r] = 1
    BY DEF MayRun
<1>5. Requested(t, called, ran2)
    <2>1. \A n \in LinkIds : AskedOnce(ls[n])
        BY <1>0 DEF Base, Requested, Moves
    <2>2. \A r \in Requests, n \in LinkIds : Asks(ls[n], r) => Asks(s.links[n], r)
        BY DEF Moves
    <2>3. \A r \in Requests, n \in LinkIds : Asks(ls[n], r) => ran2[r] = ran[r]
        BY <1>2 DEF MayRun
    <2> QED
        BY <1>0, <1>2, <2>1, <2>2, <2>3 DEF Base, Requested
<1>6. Answered(t, called, ran2)
    <2>1. \A r \in Requests, n \in LinkIds : Carries(ls[n], Ok(r)) => ran2[r] = 1
        <3>1. ASSUME NEW r \in Requests, NEW n \in LinkIds, Carries(ls[n], Ok(r))
              PROVE  Carries(s.links[n], Ok(r)) \/ ran2[r] = 1
            BY <3>1 DEF Moves
        <3> QED
            BY <1>0, <1>4, <3>1 DEF Base, Answered
    <2>2. \A r \in Requests : called[r] \in {"none", "refused"} => ran2[r] = ran[r]
        BY DEF MayRun
    <2>3. ASSUME NEW r \in Requests
          PROVE  /\ s.pending[r] = "answered" \/ called[r] = "answered" => ran2[r] = 1
                 /\ called[r] \in {"none", "refused"} => ran2[r] = 0
                 /\ called[r] = "awaiting" => s.pending[r] # "absent"
        BY <1>0, <1>4, <2>2 DEF Base, Answered
    <2> QED
        BY <1>2, <2>1, <2>3 DEF Answered
<1>7. Base(t, called, ran2)
    BY <1>0, <1>1, <1>3, <1>5, <1>6 DEF Base
<1>8. CASE ~Connected(s)
    <2>1. ~Connected(t)
        BY <1>2, <1>8 DEF Connected
    <2> QED
        BY <1>2, <1>7, <1>8, <2>1 DEF Good, Shows, Opened, LoggedIn, NobodyWaits
<1>9. CASE Connected(s)
    <2>1. PICK c : c = s.client.link
        OBVIOUS
    <2>2. c \in LinkIds
        BY <1>0, <1>9, <2>1 DEF PluginState, ClientRecord, Connected
    <2>3. Moves(s.links[c], ls[c], ran2) /\ s.links[c].held
        BY <1>0, <2>1, <2>2 DEF Base, Links
    <2>4. Connected(t) /\ Mine(t) = ls[c] /\ Mine(s) = s.links[c]
        BY <1>2, <1>9, <2>1 DEF Connected, Mine
    <2>5. LoggedIn(s) => LoggedIn(t)
        BY <2>3, <2>4 DEF LoggedIn, Moves
    <2>6. Fresh(Mine(t)) /\ Mine(t).toBridge = <<>> => Fresh(Mine(s)) /\ Mine(s).toBridge = <<>>
        BY <2>3, <2>4 DEF Moves
    <2>7. Shows(t)
        BY <1>2, <1>9, <2>4, <2>5 DEF Good, Shows, NobodyWaits
    <2>8. Opened(t)
        BY <1>2, <1>9, <2>4, <2>6 DEF Good, Opened
    <2> QED
        BY <1>7, <2>7, <2>8 DEF Good
<1> QED
    BY <1>8, <1>9

\* The links after a step of a bridge are the next state's.
LEMMA LinksMoved ==
    ASSUME LinkInv, NEW ls, links' = ls, NEW t, t = [S EXCEPT !.links = ls],
           UNCHANGED <<client, pending, online, probe, misled>>
    PROVE  Become(t)
<1>1. PICK s \in PluginState : s = S
    BY DEF LinkInv, Good, Base
<1>2. t = [s EXCEPT !.links = ls]
    BY <1>1
<1>3. /\ t.client = s.client /\ t.pending = s.pending /\ t.online = s.online /\ t.links = ls
      /\ t.probe = s.probe /\ t.misled = s.misled
    BY <1>2 DEF PluginState
<1> QED
    BY <1>1, <1>3, PresentState DEF Become

\* The bridge closes its end and forgets some of what it had to say.
Cut(l, p) == [l EXCEPT !.up = FALSE, !.toPlugin = p]

\* A link cut by its bridge has only shrunk.
LEMMA CutForm ==
    ASSUME NEW l, LinkFits(l), NEW p \in Seq(AnswerRecord),
           \A i \in DOMAIN p : Carries(l, p[i]),
           NEW m, m = Tidy(Cut(l, p))
    PROVE  Shrinks(l, m) /\ LinkFits(m) /\ (m.held <=> l.held)
<1>0. l \in LinkRecord /\ LinkHolds(l)
    BY DEF LinkFits, LinkHolds
<1>1. PICK k : k = [l EXCEPT !.up = FALSE]
    OBVIOUS
<1>2. PICK x : x = [k EXCEPT !.toPlugin = p]
    OBVIOUS
<1>3. m = Tidy(x)
    BY <1>1, <1>2, Zenon DEF Cut
<1>4. k \in LinkRecord
    BY <1>0, <1>1, LinkFields, Zenon
<1>5. x \in LinkRecord
    BY <1>2, <1>4, LinkFields, Zenon
<1>6. /\ x.bridge = l.bridge /\ x.authed = l.authed /\ ~x.up /\ x.held = l.held
      /\ x.toBridge = l.toBridge /\ x.toPlugin = p
    BY <1>0, <1>1, <1>2, <1>4 DEF LinkRecord
<1>7. CarriesLess(x, l)
    BY <1>6 DEF CarriesLess, Carries
<1>8. Shrinks(l, x)
    BY <1>0, <1>5, <1>6, <1>7, ClosedEnd
<1>9. LinkHolds(x)
    BY <1>8 DEF Shrinks
<1>10. Shrinks(x, m) /\ LinkFits(m) /\ (m.held <=> x.held)
    BY <1>3, <1>9, TidyFits
<1>11. Shrinks(l, m)
    BY <1>8, <1>10, ShrinksOn
<1> QED
    BY <1>6, <1>10, <1>11

\* The bridge answers what it read.
LEMMA AnswerForm ==
    ASSUME NEW l, LinkFits(l), l.up, l.toBridge # <<>>, NEW message, message = Head(l.toBridge),
           NEW ok \in BOOLEAN, ~Fresh(l), message = Login /\ ok => l.authed,
           NEW m, m = Answer(l, message, ok)
    PROVE  /\ LinkFits(m) /\ (m.held <=> l.held) /\ ~Fresh(m)
           /\ AskedOnce(l) => AskedOnce(m)
           /\ \A r : Asks(m, r) => Asks(l, r)
           /\ AskedOnce(l) /\ message # Login => ~Asks(m, message)
           /\ Asks(l, message) /\ message \in Messages
           /\ m.held => m.authed = l.authed
           /\ \A a : Carries(m, a) => Carries(l, a) \/ a = [to |-> message, ok |-> ok]
<1>0. l \in LinkRecord /\ LinkHolds(l)
    BY DEF LinkFits, LinkHolds
<1>1. PICK q : q = l.toBridge
    OBVIOUS
<1>2. q \in Seq(Messages) /\ q # <<>>
    BY <1>0, <1>1 DEF LinkRecord
<1>3. PICK tail : tail = Tail(q)
    OBVIOUS
<1>4. /\ tail \in Seq(Messages) /\ Len(q) \in Nat \ {0} /\ Len(tail) = Len(q) - 1
      /\ DOMAIN q = 1 .. Len(q) /\ DOMAIN tail = 1 .. Len(tail)
      /\ \A i \in DOMAIN tail : tail[i] = q[i + 1]
      /\ q[1] = message
    BY <1>1, <1>2, <1>3
<1>5. message \in Messages /\ Asks(l, message)
    BY <1>1, <1>2, <1>4 DEF Asks
<1>6. PICK rest : rest = [l EXCEPT !.toBridge = tail]
    OBVIOUS
<1>7. rest \in LinkRecord
    BY <1>0, <1>4, <1>6, LinkFields, Zenon
<1>8. /\ rest.bridge = l.bridge /\ rest.up = l.up /\ rest.held = l.held
      /\ rest.authed = l.authed /\ rest.toPlugin = l.toPlugin /\ rest.toBridge = tail
    BY <1>0, <1>6 DEF LinkRecord
<1>9. PICK a : a = [to |-> message, ok |-> ok]
    OBVIOUS
<1>10. a \in AnswerRecord
    BY <1>5, <1>9 DEF AnswerRecord
<1>11. CASE l.held
    <2>1. PICK p : p = Append(l.toPlugin, a)
        OBVIOUS
    <2>2. l.toPlugin \in Seq(AnswerRecord)
        BY <1>0 DEF LinkRecord
    <2>3. /\ p \in Seq(AnswerRecord) /\ Len(l.toPlugin) \in Nat
          /\ DOMAIN p = 1 .. Len(l.toPlugin) + 1 /\ DOMAIN l.toPlugin = 1 .. Len(l.toPlugin)
          /\ \A i \in DOMAIN l.toPlugin : p[i] = l.toPlugin[i]
          /\ p[Len(l.toPlugin) + 1] = a
        BY <1>10, <2>1, <2>2
    <2>4. m = [rest EXCEPT !.toPlugin = p]
        <3>1. m = [rest EXCEPT !.toPlugin = Append(rest.toPlugin, [to |-> message, ok |-> ok])]
            BY <1>1, <1>3, <1>6, <1>11, Zenon DEF Answer
        <3> QED
            BY <1>8, <1>9, <2>1, <3>1, Zenon
    <2>5. m \in LinkRecord
        BY <1>7, <2>3, <2>4, LinkFields, Zenon
    <2>6. /\ m.bridge = l.bridge /\ m.up = l.up /\ m.held = l.held
          /\ m.authed = l.authed /\ m.toPlugin = p /\ m.toBridge = tail
        BY <1>7, <1>8, <2>4 DEF LinkRecord
    <2>7. ASSUME NEW r, Asks(m, r) PROVE Asks(l, r)
        <3>1. PICK i \in DOMAIN tail : tail[i] = r
            BY <2>6, <2>7 DEF Asks
        <3>2. i + 1 \in DOMAIN q /\ q[i + 1] = r
            BY <1>4, <3>1
        <3> QED
            BY <1>1, <3>2 DEF Asks
    <2>8. ASSUME AskedOnce(l) PROVE AskedOnce(m)
        <3>1. ASSUME NEW i \in DOMAIN tail, NEW j \in DOMAIN tail, tail[i] = tail[j],
                     tail[i] # Login
              PROVE  i = j
            <4>1. i + 1 \in DOMAIN q /\ j + 1 \in DOMAIN q /\ i \in Nat /\ j \in Nat
                BY <1>4
            <4>2. q[i + 1] = q[j + 1] /\ q[i + 1] # Login
                BY <1>4, <3>1
            <4>3. i + 1 = j + 1
                BY <1>1, <2>8, <4>1, <4>2 DEF AskedOnce
            <4> QED
                BY <4>1, <4>3
        <3> QED
            BY <2>6, <3>1 DEF AskedOnce
    <2>9. ASSUME AskedOnce(l), message # Login, Asks(m, message) PROVE FALSE
        <3>1. PICK i \in DOMAIN tail : tail[i] = message
            BY <2>6, <2>9 DEF Asks
        <3>2. i + 1 \in DOMAIN q /\ 1 \in DOMAIN q /\ q[i + 1] = q[1] /\ i \in Nat \ {0}
            BY <1>4, <3>1
        <3>3. i + 1 = 1
            BY <1>1, <1>4, <2>9, <3>2 DEF AskedOnce
        <3> QED
            BY <3>2, <3>3
    <2>10. ASSUME NEW b, Carries(m, b) PROVE Carries(l, b) \/ b = a
        <3>1. PICK i \in DOMAIN p : p[i] = b
            BY <2>6, <2>10 DEF Carries
        <3> QED
            BY <2>3, <3>1 DEF Carries
    <2>11. ~Fresh(m)
        BY <2>6 DEF Fresh
    <2>12. Carries(m, Ok(Login)) => m.authed
        <3>1. ASSUME a = Ok(Login) PROVE l.authed
            BY <1>9, <3>1 DEF Ok
        <3> QED
            BY <1>0, <2>6, <2>10, <3>1 DEF LinkHolds
    <2>13. LinkFits(m)
        BY <1>0, <1>11, <2>5, <2>6, <2>11, <2>12 DEF LinkFits, LinkHolds
    <2> QED
        BY <1>5, <1>9, <2>6, <2>7, <2>8, <2>9, <2>10, <2>11, <2>13
<1>12. CASE ~l.held
    <2>1. PICK gone : gone = [rest EXCEPT !.up = FALSE]
        OBVIOUS
    <2>2. m = Tidy(gone)
        BY <1>1, <1>3, <1>6, <1>12, <2>1, Zenon DEF Answer
    <2>3. ~gone.up /\ ~gone.held
        BY <1>7, <1>8, <1>12, <2>1 DEF LinkRecord
    <2>4. m = Unused
        BY <2>2, <2>3 DEF Tidy
    <2>5. /\ LinkFits(m) /\ ~m.held /\ ~Fresh(m) /\ AskedOnce(m)
          /\ \A r : ~Asks(m, r) /\ ~Carries(m, r)
        BY <2>4, UnusedHolds, UnusedForm, NothingAsked DEF Fresh
    <2> QED
        BY <1>5, <1>12, <2>5
<1> QED
    BY <1>11, <1>12

\* handleAuthentication: an accepting bridge is logged in to, and answers so; any
\* other answers with an error.
LEMMA LogInMoves ==
    ASSUME NEW l, LinkFits(l), l.up, l.toBridge # <<>>, Head(l.toBridge) = Login, NEW ok,
           ok = Validates(l.bridge), NEW m, m = Answer([l EXCEPT !.authed = ok], Login, ok),
           NEW ran
    PROVE  Moves(l, m, ran)
<1>0. l \in LinkRecord /\ LinkHolds(l)
    BY DEF LinkFits, LinkHolds
<1>1. ok \in BOOLEAN /\ (ok <=> l.bridge \in Accepting)
    <2>1. ok = (l.bridge \in Accepting)
        BY Zenon DEF Validates
    <2>2. (l.bridge \in Accepting) \in BOOLEAN
        OBVIOUS
    <2>3. ok \in BOOLEAN
        BY <2>1, <2>2, Zenon
    <2>4. ok <=> l.bridge \in Accepting
        BY <2>1
    <2> QED
        BY <2>3, <2>4
<1>2. PICK k : k = [l EXCEPT !.authed = ok]
    OBVIOUS
<1>3. k \in LinkRecord
    BY <1>0, <1>1, <1>2, LinkFields, Zenon
<1>4. /\ k.bridge = l.bridge /\ k.up = l.up /\ k.held = l.held /\ (k.authed <=> ok)
      /\ k.toBridge = l.toBridge /\ k.toPlugin = l.toPlugin
    <2>1. /\ k.bridge = l.bridge /\ k.up = l.up /\ k.held = l.held
          /\ k.toBridge = l.toBridge /\ k.toPlugin = l.toPlugin
        BY <1>0, <1>2 DEF LinkRecord
    <2>2. k.authed = ok
        BY <1>0, <1>2 DEF LinkRecord
    <2> QED
        BY <2>1, <2>2
<1>5. ~Fresh(k) /\ (Carries(k, Ok(Login)) => Carries(l, Ok(Login)))
    BY <1>1, <1>4 DEF Fresh, Carries
<1>6. LinkFits(k)
    <2>1. LinkHolds(k)
        BY <1>0, <1>1, <1>3, <1>4, <1>5 DEF LinkHolds
    <2> QED
        BY <1>4, <2>1 DEF LinkFits
<1>7. m = Answer(k, Login, ok)
    BY <1>2
<1>8. /\ LinkFits(m) /\ (m.held <=> k.held) /\ ~Fresh(m)
      /\ AskedOnce(k) => AskedOnce(m)
      /\ \A r : Asks(m, r) => Asks(k, r)
      /\ m.held => m.authed = k.authed
      /\ \A a : Carries(m, a) => Carries(k, a) \/ a = [to |-> Login, ok |-> ok]
    <2>1. PICK message : message = Login
        OBVIOUS
    <2>2. message = Head(k.toBridge) /\ m = Answer(k, message, ok)
        BY <1>4, <1>7, <2>1
    <2>3. /\ k.up /\ k.toBridge # <<>> /\ ~Fresh(k) /\ ok \in BOOLEAN
          /\ message = Login /\ ok => k.authed
        BY <1>1, <1>4, <1>5
    <2>4. /\ LinkFits(m) /\ (m.held <=> k.held) /\ ~Fresh(m)
          /\ AskedOnce(k) => AskedOnce(m)
          /\ \A r : Asks(m, r) => Asks(k, r)
          /\ m.held => m.authed = k.authed
          /\ \A a : Carries(m, a) => Carries(k, a) \/ a = [to |-> message, ok |-> ok]
        BY <1>6, <2>2, <2>3, AnswerForm
    <2> QED
        BY <2>1, <2>4
<1>9. \A r \in Requests : Carries(m, Ok(r)) => Carries(l, Ok(r))
    <2>1. \A r \in Requests : Ok(r) # [to |-> Login, ok |-> ok]
        BY LinkBounds DEF Ok
    <2>2. \A a : Carries(k, a) => Carries(l, a)
        BY <1>4 DEF Carries
    <2> QED
        BY <1>8, <2>1, <2>2
<1>10. AskedOnce(k) <=> AskedOnce(l)
    BY <1>4 DEF AskedOnce
<1>11. \A r : Asks(k, r) => Asks(l, r)
    BY <1>4 DEF Asks
<1>12. l.authed => k.authed
    BY <1>0, <1>1, <1>4 DEF LinkHolds
<1> QED
    BY <1>4, <1>8, <1>9, <1>10, <1>11, <1>12 DEF Moves

\* A bridge's step on one link.
LEMMA OneLink ==
    ASSUME NEW s, NEW called, NEW ran, Good(s, called, ran), NEW n \in LinkIds, NEW m,
           NEW ran2 \in Executed, Moves(s.links[n], m, ran2),
           NEW ls, ls = [s.links EXCEPT ![n] = m],
           NEW t, t = [s EXCEPT !.links = ls],
           MayRun(t, called, ran, ran2)
    PROVE  Good(t, called, ran2)
<1>0. s \in PluginState /\ Links(s)
    BY DEF Good, Base
<1>1. m \in LinkRecord
    BY DEF Moves, LinkFits, LinkHolds
<1>2. /\ ls \in [LinkIds -> LinkRecord] /\ ls[n] = m
      /\ \A k \in LinkIds : k # n => ls[k] = s.links[k]
    BY <1>0, <1>1, StateForm
<1>3. ASSUME NEW k \in LinkIds PROVE Moves(s.links[k], ls[k], ran2)
    <2>1. CASE k = n
        BY <1>2, <2>1
    <2>2. CASE k # n
        BY <1>0, <1>2, <2>2, ShrinksNot, ShrinksMoves DEF Links, LinkFits
    <2> QED
        BY <2>1, <2>2
<1> QED
    BY <1>2, <1>3, MovesKeep

\* A bridge answers the login.
LEMMA LogInKeeps ==
    ASSUME LinkInv, NEW n \in LinkIds, LogIn(n)
    PROVE  LinkInv'
<1>1. PICK called : called = caller
    OBVIOUS
<1>2. PICK ran : ran = executions
    OBVIOUS
<1>3. PICK s : s = S
    OBVIOUS
<1>4. Good(s, called, ran) /\ ran \in Executed
    BY <1>1, <1>2, <1>3 DEF LinkInv, Good, Base
<1>5. PICK l : l = s.links[n]
    OBVIOUS
<1>6. LinkFits(l) /\ l = links[n]
    BY <1>3, <1>4, <1>5, PresentState DEF Good, Base, Links
<1>7. PICK ok : ok = Validates(l.bridge)
    OBVIOUS
<1>8. PICK m : m = Answer([l EXCEPT !.authed = ok], Login, ok)
    OBVIOUS
<1>9. PICK ls : ls = [s.links EXCEPT ![n] = m]
    OBVIOUS
<1>10. PICK t : t = [s EXCEPT !.links = ls]
    OBVIOUS
<1>11. l.up /\ l.toBridge # <<>> /\ Head(l.toBridge) = Login
    BY <1>6 DEF LogIn, Reads
<1>12. /\ links' = ls /\ caller' = called /\ executions' = ran
       /\ UNCHANGED <<client, pending, online, probe, misled>>
    <2>1. links' = [links EXCEPT ![n] = Answer([links[n] EXCEPT !.authed =
                        Validates(links[n].bridge)], Login, Validates(links[n].bridge))]
        BY DEF LogIn
    <2>2. links' = ls
        BY <1>3, <1>6, <1>7, <1>8, <1>9, <2>1, PresentState
    <2> QED
        BY <1>1, <1>2, <2>2 DEF LogIn
<1>13. Moves(l, m, ran)
    BY <1>6, <1>7, <1>8, <1>11, LogInMoves
<1>14. MayRun(t, called, ran, ran)
    BY DEF MayRun
<1>15. Good(t, called, ran)
    BY <1>4, <1>5, <1>9, <1>10, <1>13, <1>14, OneLink
<1>16. Become(t)
    BY <1>3, <1>10, <1>12, LinksMoved
<1> QED
    BY <1>12, <1>15, <1>16, BecameGood

\* A request that is read on a connection was not run before.
LEMMA ExecuteForm ==
    ASSUME LinkInv, NEW n \in LinkIds, Execute(n), NEW r, r = Head(links[n].toBridge)
    PROVE  /\ r \in Requests /\ executions[r] = 0 /\ caller[r] \in {"awaiting", "failed"}
           /\ LinkFits(links[n]) /\ AskedOnce(links[n]) /\ ~Fresh(links[n])
           /\ Asks(links[n], r) /\ links[n].up
           /\ \A k \in LinkIds \ {n} : ~Asks(links[k], r)
<1>1. PICK l : l = links[n]
    OBVIOUS
<1>2. links = S.links
    BY PresentState
<1>3. LinkFits(l) /\ AskedOnce(l) /\ l \in LinkRecord
    BY <1>1, <1>2 DEF LinkInv, Good, Base, Links, Requested, LinkFits, LinkHolds
<1>4. PICK q : q = l.toBridge
    OBVIOUS
<1>5. q \in Seq(Messages) /\ q # <<>> /\ r = Head(q) /\ r # Login /\ l.up
    BY <1>1, <1>3, <1>4 DEF LinkRecord, Execute, Reads
<1>6. 1 \in DOMAIN q /\ q[1] = r /\ r \in Messages
    BY <1>5
<1>7. Asks(l, r) /\ r \in Requests
    BY <1>4, <1>5, <1>6 DEF Asks, Messages
<1>8. ~Fresh(l)
    BY <1>3, <1>4, <1>5 DEF LinkFits, LinkHolds
<1>9. Requested(S, caller, executions)
    BY DEF LinkInv, Good, Base
<1>10. /\ \A k \in LinkIds : Asks(links[k], r) => k = n
       /\ caller[r] \in {"awaiting", "failed"} /\ executions[r] = 0
    BY <1>1, <1>2, <1>7, <1>9 DEF Requested
<1> QED
    BY <1>1, <1>3, <1>5, <1>7, <1>8, <1>10

\* A bridge runs the request it was asked, or closes the link when nobody logged in.
LEMMA ExecuteKeeps ==
    ASSUME LinkInv, NEW n \in LinkIds, Execute(n)
    PROVE  LinkInv'
<1>1. PICK called : called = caller
    OBVIOUS
<1>2. PICK ran : ran = executions
    OBVIOUS
<1>3. PICK s : s = S
    OBVIOUS
<1>4. Good(s, called, ran) /\ ran \in Executed /\ s \in PluginState
    BY <1>1, <1>2, <1>3 DEF LinkInv, Good, Base
<1>5. PICK l : l = s.links[n]
    OBVIOUS
<1>6. l = links[n] /\ s.links = links
    BY <1>3, <1>5, PresentState
<1>7. PICK r : r = Head(l.toBridge)
    OBVIOUS
<1>8. /\ r \in Requests /\ ran[r] = 0 /\ called[r] \in {"awaiting", "failed"}
      /\ LinkFits(l) /\ AskedOnce(l) /\ ~Fresh(l) /\ Asks(l, r) /\ l.up
      /\ \A k \in LinkIds \ {n} : ~Asks(s.links[k], r)
    BY <1>1, <1>2, <1>6, <1>7, ExecuteForm
<1>9. l.toBridge # <<>> /\ r # Login /\ caller' = called
      /\ UNCHANGED <<client, pending, online, probe, misled>>
    BY <1>1, <1>6, <1>7 DEF Execute
<1>10. CASE l.authed
    <2>1. PICK m : m = Answer(l, r, TRUE)
        OBVIOUS
    <2>2. PICK ran2 : ran2 = [ran EXCEPT ![r] = @ + 1]
        OBVIOUS
    <2>3. PICK ls : ls = [s.links EXCEPT ![n] = m]
        OBVIOUS
    <2>4. PICK t : t = [s EXCEPT !.links = ls]
        OBVIOUS
    <2>5. links' = ls /\ executions' = ran2
        BY <1>2, <1>6, <1>7, <1>10, <2>1, <2>2, <2>3 DEF Execute
    <2>6. ran2 \in Executed /\ ran2[r] = 1 /\ \A o \in Requests : o # r => ran2[o] = ran[o]
        BY <1>4, <1>8, <2>2 DEF Executed
    <2>7. /\ LinkFits(m) /\ (m.held <=> l.held) /\ ~Fresh(m)
          /\ AskedOnce(m) /\ ~Asks(m, r)
          /\ \A o : Asks(m, o) => Asks(l, o)
          /\ m.held => m.authed = l.authed
          /\ \A a : Carries(m, a) => Carries(l, a) \/ a = [to |-> r, ok |-> TRUE]
        <3>1. PICK ok \in BOOLEAN : ok = TRUE
            OBVIOUS
        <3>2. m = Answer(l, r, ok) /\ (r = Login /\ ok => l.authed)
            BY <1>9, <2>1, <3>1
        <3>3. /\ LinkFits(m) /\ (m.held <=> l.held) /\ ~Fresh(m)
              /\ AskedOnce(m) /\ ~Asks(m, r)
              /\ \A o : Asks(m, o) => Asks(l, o)
              /\ m.held => m.authed = l.authed
              /\ \A a : Carries(m, a) => Carries(l, a) \/ a = [to |-> r, ok |-> ok]
            BY <1>7, <1>8, <1>9, <3>2, AnswerForm
        <3> QED
            BY <3>1, <3>3
    <2>8. Moves(l, m, ran2)
        <3>1. ASSUME NEW o \in Requests, Carries(m, Ok(o)) PROVE Carries(l, Ok(o)) \/ ran2[o] = 1
            <4>1. Ok(o) = [to |-> r, ok |-> TRUE] => o = r
                BY DEF Ok
            <4> QED
                BY <2>6, <2>7, <3>1, <4>1
        <3> QED
            BY <2>7, <3>1 DEF Moves
    <2>9. MayRun(t, called, ran, ran2)
        <3>1. t.links = ls
            BY <1>4, <2>4 DEF PluginState
        <3>2. ASSUME NEW k \in LinkIds PROVE ~Asks(ls[k], r)
            <4>1. s.links \in [LinkIds -> LinkRecord]
                BY <1>4, StateForm
            <4>2. ls[k] = IF k = n THEN m ELSE s.links[k]
                BY <2>3, <4>1
            <4> QED
                BY <1>8, <2>7, <4>2
        <3> QED
            BY <1>8, <2>6, <3>1, <3>2 DEF MayRun
    <2>10. Good(t, called, ran2)
        BY <1>4, <1>5, <2>3, <2>4, <2>6, <2>8, <2>9, OneLink
    <2>11. Become(t)
        BY <1>3, <1>9, <2>4, <2>5, LinksMoved
    <2> QED
        BY <1>9, <2>5, <2>10, <2>11, BecameGood
<1>11. CASE ~l.authed
    <2>1. PICK m : m = Answer(l, r, FALSE)
        OBVIOUS
    <2>2. PICK cut \in Closed(m) : links' = [links EXCEPT ![n] = cut]
        BY <1>6, <1>7, <1>11, <2>1 DEF Execute
    <2>3. PICK ls : ls = [s.links EXCEPT ![n] = cut]
        OBVIOUS
    <2>4. PICK t : t = [s EXCEPT !.links = ls]
        OBVIOUS
    <2>5. links' = ls /\ executions' = ran
        BY <1>2, <1>6, <1>7, <1>11, <2>2, <2>3 DEF Execute
    <2>6. /\ LinkFits(m) /\ (m.held <=> l.held) /\ ~Fresh(m)
          /\ AskedOnce(m)
          /\ \A o : Asks(m, o) => Asks(l, o)
          /\ m.held => m.authed = l.authed
          /\ \A a : Carries(m, a) => Carries(l, a) \/ a = [to |-> r, ok |-> FALSE]
        <3>1. PICK ok \in BOOLEAN : ok = FALSE
            OBVIOUS
        <3>2. m = Answer(l, r, ok) /\ (r = Login /\ ok => l.authed)
            BY <1>9, <2>1, <3>1
        <3>3. /\ LinkFits(m) /\ (m.held <=> l.held) /\ ~Fresh(m)
              /\ AskedOnce(m)
              /\ \A o : Asks(m, o) => Asks(l, o)
              /\ m.held => m.authed = l.authed
              /\ \A a : Carries(m, a) => Carries(l, a) \/ a = [to |-> r, ok |-> ok]
            BY <1>7, <1>8, <1>9, <3>2, AnswerForm
        <3> QED
            BY <3>1, <3>3
    <2>7. Moves(l, m, ran)
        <3>1. \A o \in Requests : Ok(o) # [to |-> r, ok |-> FALSE]
            BY DEF Ok
        <3> QED
            BY <1>11, <2>6, <3>1 DEF Moves
    <2>8. Shrinks(m, cut) /\ LinkFits(cut) /\ (cut.held <=> m.held)
        <3>1. PICK k \in 0 .. Len(m.toPlugin) :
                  cut = Tidy([m EXCEPT !.up = FALSE, !.toPlugin = SubSeq(m.toPlugin, 1, k)])
            BY <2>2 DEF Closed
        <3>2. PICK p : p = SubSeq(m.toPlugin, 1, k)
            OBVIOUS
        <3>3. PICK h \in Seq(AnswerRecord) : h = m.toPlugin
            BY <2>6 DEF LinkFits, LinkHolds, LinkRecord
        <3>4. Len(h) \in Nat /\ k \in Nat /\ k <= Len(h)
            BY <3>1, <3>3
        <3>5. p \in Seq(AnswerRecord) /\ \A i \in DOMAIN p : i \in DOMAIN h /\ p[i] = h[i]
            <4>1. p = [i \in 1 .. k |-> h[i]]
                BY <3>2, <3>3, <3>4
            <4>2. \A i \in 1 .. k : i \in DOMAIN h /\ h[i] \in AnswerRecord
                BY <3>4
            <4> QED
                BY <3>4, <4>1, <4>2
        <3>6. \A i \in DOMAIN p : Carries(m, p[i])
            BY <3>3, <3>5 DEF Carries
        <3>7. cut = Tidy(Cut(m, p))
            BY <3>1, <3>2, Zenon DEF Cut
        <3> QED
            BY <2>6, <3>5, <3>6, <3>7, CutForm
    <2>9. Moves(l, cut, ran)
        BY <2>7, <2>8, MovesOn
    <2>10. MayRun(t, called, ran, ran)
        BY DEF MayRun
    <2>11. Good(t, called, ran)
        BY <1>4, <1>5, <2>3, <2>4, <2>9, <2>10, OneLink
    <2>12. Become(t)
        BY <1>3, <1>9, <2>4, <2>5, LinksMoved
    <2> QED
        BY <1>9, <2>5, <2>11, <2>12, BecameGood
<1> QED
    BY <1>10, <1>11

\* A bridge finds that the plugin has left.
LEMMA EndOfInputKeeps ==
    ASSUME LinkInv, NEW n \in LinkIds, EndOfInput(n)
    PROVE  LinkInv'
<1>1. PICK called : called = caller
    OBVIOUS
<1>2. PICK ran : ran = executions
    OBVIOUS
<1>3. PICK s : s = S
    OBVIOUS
<1>4. Good(s, called, ran) /\ ran \in Executed
    BY <1>1, <1>2, <1>3 DEF LinkInv, Good, Base
<1>5. PICK l : l = s.links[n]
    OBVIOUS
<1>6. LinkFits(l) /\ l = links[n] /\ ~l.held
    BY <1>3, <1>4, <1>5, PresentState DEF Good, Base, Links, EndOfInput
<1>7. PICK ls : ls = [s.links EXCEPT ![n] = Unused]
    OBVIOUS
<1>8. PICK t : t = [s EXCEPT !.links = ls]
    OBVIOUS
<1>9. /\ links' = ls /\ caller' = called /\ executions' = ran
      /\ UNCHANGED <<client, pending, online, probe, misled>>
    BY <1>1, <1>2, <1>3, <1>7, PresentState DEF EndOfInput
<1>10. Moves(l, Unused, ran)
    <2>1. AskedOnce(Unused) /\ ~Fresh(Unused) /\ \A r : ~Asks(Unused, r) /\ ~Carries(Unused, r)
        BY UnusedForm, NothingAsked DEF Fresh
    <2> QED
        BY <1>6, <2>1, UnusedHolds, UnusedForm DEF Moves
<1>11. MayRun(t, called, ran, ran)
    BY DEF MayRun
<1>12. Good(t, called, ran)
    BY <1>4, <1>5, <1>7, <1>8, <1>10, <1>11, OneLink
<1>13. Become(t)
    BY <1>3, <1>8, <1>9, LinksMoved
<1> QED
    BY <1>9, <1>12, <1>13, BecameGood

\* What is left of a link behind CloseClients, or when the process has ended.
Remains(l, kept) == Tidy([l EXCEPT !.up = FALSE, !.toPlugin = IF kept THEN @ ELSE <<>>])

\* A bridge stops or ends: its links are cut.
LEMMA BridgeKeeps ==
    ASSUME LinkInv, NEW b \in Bridges, BridgeStep(b)
    PROVE  LinkInv'
<1>1. PICK called : called = caller
    OBVIOUS
<1>2. PICK ran : ran = executions
    OBVIOUS
<1>3. PICK s : s = S
    OBVIOUS
<1>4. Good(s, called, ran) /\ ran \in Executed /\ Links(s) /\ s.links = links
    BY <1>1, <1>2, <1>3, PresentState DEF LinkInv, Good, Base
<1>5. PICK kept \in BOOLEAN :
          links' = [n \in LinkIds |->
              IF ~Severed(n) THEN links[n]
              ELSE Tidy([links[n] EXCEPT !.up = FALSE,
                                         !.toPlugin = IF kept THEN @ ELSE <<>>])]
    BY DEF BridgeStep
<1>6. PICK ls : ls = links'
    OBVIOUS
<1>7. ASSUME NEW n \in LinkIds PROVE ls[n] = links[n] \/ ls[n] = Remains(links[n], kept)
    <2>1. CASE Severed(n)
        BY <1>5, <1>6, <2>1 DEF Remains
    <2>2. CASE ~Severed(n)
        BY <1>5, <1>6, <2>2
    <2> QED
        BY <2>1, <2>2
<1>8. ASSUME NEW l, LinkFits(l) PROVE Moves(l, Remains(l, kept), ran)
    <2>1. l.toPlugin \in Seq(AnswerRecord)
        BY <1>8 DEF LinkFits, LinkHolds, LinkRecord
    <2>2. PICK p : p = IF kept THEN l.toPlugin ELSE <<>>
        OBVIOUS
    <2>3. p \in Seq(AnswerRecord) /\ \A i \in DOMAIN p : Carries(l, p[i])
        <3>1. CASE kept
            BY <2>1, <2>2, <3>1 DEF Carries
        <3>2. CASE ~kept
            BY <2>2, <3>2
        <3> QED
            BY <3>1, <3>2
    <2>4. PICK m : m = Remains(l, kept)
        OBVIOUS
    <2>5. m = Tidy(Cut(l, p))
        <3>1. m = Tidy([l EXCEPT !.up = FALSE,
                                 !.toPlugin = IF kept THEN l.toPlugin ELSE <<>>])
            BY <2>4, Zenon DEF Remains
        <3> QED
            BY <2>2, <3>1, Zenon DEF Cut
    <2>6. Shrinks(l, m) /\ LinkFits(m) /\ (m.held <=> l.held)
        BY <1>8, <2>3, <2>5, CutForm
    <2> QED
        BY <2>4, <2>6, ShrinksMoves
<1>9. ASSUME NEW n \in LinkIds PROVE Moves(s.links[n], ls[n], ran)
    <2>1. PICK l : l = s.links[n]
        OBVIOUS
    <2>2. LinkFits(l) /\ LinkHolds(l)
        BY <1>4, <2>1 DEF Links, LinkFits
    <2>3. Moves(l, l, ran)
        BY <2>2, ShrinksNot, ShrinksMoves
    <2>4. Moves(l, Remains(l, kept), ran)
        BY <1>8, <2>2
    <2> QED
        BY <1>4, <1>7, <2>1, <2>3, <2>4
<1>10. ls \in [LinkIds -> LinkRecord]
    <2>1. \A n \in LinkIds : ls[n] \in LinkRecord
        BY <1>9 DEF Moves, LinkFits, LinkHolds
    <2>2. ls = [n \in LinkIds |-> ls[n]]
        BY <1>5, <1>6
    <2> QED
        BY <2>1, <2>2
<1>11. PICK t : t = [s EXCEPT !.links = ls]
    OBVIOUS
<1>12. MayRun(t, called, ran, ran)
    BY DEF MayRun
<1>13. Good(t, called, ran)
    BY <1>4, <1>9, <1>10, <1>11, <1>12, MovesKeep
<1>14. /\ caller' = called /\ executions' = ran
       /\ UNCHANGED <<client, pending, online, probe, misled>>
    BY <1>1, <1>2 DEF BridgeStep
<1>15. Become(t)
    BY <1>3, <1>6, <1>11, <1>14, LinksMoved
<1> QED
    BY <1>13, <1>14, <1>15, BecameGood

----------------------------------------------------------------------------
\* A bridge's end of a connection keeps LinkInv.
LEMMA ReaderKeeps ==
    ASSUME LinkInv, NEW n \in LinkIds, ReaderStep(n)
    PROVE  LinkInv'
BY LogInKeeps, ExecuteKeeps, EndOfInputKeeps DEF ReaderStep

\* LinkInv is inductive.
LEMMA NextKeeps == LinkInv /\ [Next]_vars => LinkInv'
<1> SUFFICES ASSUME LinkInv, [Next]_vars PROVE LinkInv'
    OBVIOUS
<1>1. CASE UNCHANGED vars
    <2>1. S' = S
        BY <1>1 DEF vars, linkVars, S
    <2>2. caller' = caller /\ executions' = executions
        BY <1>1 DEF vars, linkVars
    <2> QED
        BY <2>1, <2>2 DEF LinkInv
<1>2. CASE PluginStep
    BY <1>2, PluginKeeps
<1>3. CASE \E n \in LinkIds : ReaderStep(n)
    BY <1>3, ReaderKeeps
<1>4. CASE \E b \in Bridges : BridgeStep(b)
    BY <1>4, BridgeKeeps
<1> QED
    BY <1>1, <1>2, <1>3, <1>4 DEF Next

\* In the beginning nothing is connected, asked or run.
LEMMA InitHolds == LinkInit => LinkInv
<1> SUFFICES ASSUME LinkInit PROVE LinkInv
    OBVIOUS
<1>1. PICK s : s = S
    OBVIOUS
<1>2. PICK called : called = caller
    OBVIOUS
<1>3. PICK ran : ran = executions
    OBVIOUS
<1>4. /\ s.client = Offline /\ s.pending = [r \in Requests |-> "absent"] /\ s.online = FALSE
      /\ s.links = [n \in LinkIds |-> Unused] /\ s.probe = "none" /\ s.misled = FALSE
    BY <1>1, PresentState DEF LinkInit
<1>5. /\ called = [r \in Requests |-> "none"] /\ ran = [r \in Requests |-> 0]
    BY <1>2, <1>3 DEF LinkInit
<1>6. Offline \in ClientRecord /\ Offline.link = NoLink
    BY DEF Offline, ClientRecord
<1>7. s \in PluginState
    <2>1. s = [client |-> s.client, pending |-> s.pending, online |-> s.online,
               links |-> s.links, probe |-> s.probe, misled |-> s.misled]
        BY <1>1 DEF S
    <2>2. s.links \in [LinkIds -> LinkRecord]
        BY <1>4, UnusedForm
    <2>3. s.pending \in [Requests -> Entries]
        BY <1>4 DEF Entries
    <2>4. s.client \in ClientRecord
        BY <1>4, <1>6
    <2>5. s.online \in BOOLEAN /\ s.misled \in BOOLEAN /\ s.probe \in {"none", "own", "stray"}
        BY <1>4
    <2> QED
        BY <2>1, <2>2, <2>3, <2>4, <2>5 DEF PluginState
<1>8. ~Connected(s)
    BY <1>4, <1>6 DEF Connected
<1>9. \A n \in LinkIds : s.links[n] = Unused
    BY <1>4
<1>10. AskedOnce(Unused) /\ \A r : ~Asks(Unused, r) /\ ~Carries(Unused, r)
    BY UnusedForm, NothingAsked
<1>11. Links(s)
    <2>1. \A n \in LinkIds : s.client.link # n
        BY <1>8, IdsForm DEF Connected
    <2> QED
        BY <1>9, <2>1, UnusedHolds, UnusedForm DEF Links
<1>12. Requested(s, called, ran)
    BY <1>9, <1>10 DEF Requested
<1>13. Answered(s, called, ran)
    BY <1>4, <1>5, <1>9, <1>10 DEF Answered
<1>14. called \in CallerRecord /\ ran \in Executed
    BY <1>5 DEF CallerRecord, Executed
<1>15. Shows(s) /\ Opened(s)
    BY <1>4, <1>8 DEF Shows, Opened, NobodyWaits
<1> QED
    BY <1>1, <1>2, <1>3, <1>7, <1>11, <1>12, <1>13, <1>14, <1>15 DEF LinkInv, Good, Base

(***************************************************************************)
(* The inductive invariant: LinkInv holds under any number of bridges,     *)
(* requests and links, any order of calls, timeouts, frames, disconnects   *)
(* and new connections, and with bridges that stop or die at any time.     *)
(***************************************************************************)
THEOREM LinkInvariant == Spec => []LinkInv
<1>1. Init => LinkInv
    BY InitHolds DEF Init
<1> QED
    BY <1>1, NextKeeps, PTL DEF Spec

(***************************************************************************)
(* Type correctness of the plugin and its connections, and of the bridges' *)
(* sockets below them: a link has a plugin's end only if it is the         *)
(* client's, and with both ends closed it is free (connect_to_bridge,      *)
(* _set_disconnected).                                                     *)
(***************************************************************************)
THEOREM LinkTypes == Spec => []LinkTypeOK
<1>1. SocketInv /\ LinkInv => LinkTypeOK
    <2> SUFFICES ASSUME SocketInv, LinkInv PROVE LinkTypeOK
        OBVIOUS
    <2>1. SocketTypeOK
        BY DEF SocketInv
    <2>2. PICK s \in PluginState : s = S
        BY DEF LinkInv, Good, Base
    <2>3. /\ client \in ClientRecord /\ pending \in [Requests -> Entries]
          /\ online \in BOOLEAN /\ misled \in BOOLEAN /\ probe \in {"none", "own", "stray"}
        BY <2>2, PresentState DEF PluginState
    <2>4. ASSUME NEW n \in LinkIds
          PROVE  /\ links[n].bridge \in Bridges \cup {Nobody}
                 /\ links[n].toBridge \in Seq(Requests \cup {Login})
                 /\ links[n].toPlugin \in Seq([to : Requests \cup {Login}, ok : BOOLEAN])
                 /\ links[n].held <=> client.link = n
                 /\ ~links[n].up /\ ~links[n].held => links[n] = Unused
        <3>1. LinkFits(links[n]) /\ (links[n].held <=> client.link = n)
            BY PresentState DEF LinkInv, Good, Base, Links
        <3>2. links[n] \in LinkRecord
            BY <3>1 DEF LinkFits, LinkHolds
        <3>3. links[n].bridge \in Bridges \cup {Nobody}
            BY <3>2 DEF LinkRecord
        <3>4. links[n].toBridge \in Seq(Messages) /\ links[n].toPlugin \in Seq(AnswerRecord)
            BY <3>2 DEF LinkRecord
        <3> QED
            BY <3>1, <3>3, <3>4 DEF LinkFits, Messages, AnswerRecord
    <2>5. executions \in [Requests -> Nat]
        BY DEF LinkInv, Good, Base, Executed
    <2> QED
        BY <2>1, <2>3, <2>4, <2>5 DEF LinkTypeOK, ClientRecord, Entries
<1> QED
    BY <1>1, SocketInvariant, LinkInvariant, PTL

(***************************************************************************)
(* On every connection an accepting bridge reads the login before any      *)
(* request, so that it refuses none (connect_to_bridge,                    *)
(* _begin_authenticated_session).                                          *)
(***************************************************************************)
THEOREM LoginComesFirst == Spec => []LoginFirst
<1>1. LinkInv => LoginFirst
    <2> SUFFICES ASSUME LinkInv, NEW n \in LinkIds, Fresh(links[n]), links[n].toBridge # <<>>
                 PROVE  Head(links[n].toBridge) = Login
        BY DEF LoginFirst, Fresh
    <2>1. LinkHolds(links[n])
        BY PresentState DEF LinkInv, Good, Base, Links, LinkFits
    <2> QED
        BY <2>1 DEF LinkHolds
<1> QED
    BY <1>1, LinkInvariant, PTL

(***************************************************************************)
(* Whoever awaits an answer has an entry in the table, and none waits on a *)
(* connection that is gone (_await_request, _handle_response,              *)
(* _set_disconnected).                                                     *)
(***************************************************************************)
THEOREM NobodyIsForgotten == Spec => []NobodyForgotten
<1>1. LinkInv => NobodyForgotten
    <2> SUFFICES ASSUME LinkInv, NEW r \in Requests, caller[r] = "awaiting"
                 PROVE  pending[r] # "absent" /\ (pending[r] = "waiting" => Connected(S))
        BY DEF NobodyForgotten
    <2>1. pending[r] # "absent"
        BY PresentState DEF LinkInv, Good, Base, Answered
    <2>2. pending[r] = "waiting" => Connected(S)
        BY PresentState DEF LinkInv, Good, Shows, NobodyWaits
    <2> QED
        BY <2>1, <2>2
<1> QED
    BY <1>1, LinkInvariant, PTL

(***************************************************************************)
(* The plugin shows itself connected only on a connection that is logged   *)
(* in, unless a probe of an earlier connection misled it                   *)
(* (_on_bridge_connected).                                                 *)
(***************************************************************************)
THEOREM OnlineIsLoggedIn == Spec => []OnlineMeansLoggedIn
<1>1. LinkInv => OnlineMeansLoggedIn
    BY PresentState DEF LinkInv, Good, Shows, LoggedIn, OnlineMeansLoggedIn
<1> QED
    BY <1>1, LinkInvariant, PTL

----------------------------------------------------------------------------
\* The refinement of Calls.

Outcome(called) ==
    [r \in Requests |-> IF called[r] = "awaiting" THEN "open" ELSE called[r]]

\* What the caller of r learns is a step of its outcome.
LEMMA CallerMoves ==
    ASSUME NEW called \in CallerRecord, NEW r \in Requests,
           NEW how \in {"awaiting", "answered", "failed", "refused"},
           NEW c2, c2 = Returns(called, r, how)
    PROVE  Outcome(c2) = [Outcome(called) EXCEPT ![r] = IF how = "awaiting" THEN "open" ELSE how]
<1>1. c2[r] = how /\ \A q \in Requests : q # r => c2[q] = called[q]
    BY DEF CallerRecord, Returns
<1>2. PICK left : left = Outcome(c2)
    OBVIOUS
<1>3. PICK right : right = [Outcome(called) EXCEPT ![r] = IF how = "awaiting" THEN "open" ELSE how]
    OBVIOUS
<1>4. /\ left = [q \in Requests |-> left[q]]
      /\ \A q \in Requests : left[q] = IF c2[q] = "awaiting" THEN "open" ELSE c2[q]
    BY <1>2 DEF Outcome
<1>5. /\ right = [q \in Requests |-> right[q]]
      /\ \A q \in Requests : right[q] = IF q = r THEN IF how = "awaiting" THEN "open" ELSE how
                                        ELSE IF called[q] = "awaiting" THEN "open" ELSE called[q]
    BY <1>3 DEF Outcome
<1>6. \A q \in Requests : left[q] = right[q]
    BY <1>1, <1>4, <1>5
<1> QED
    BY <1>2, <1>3, <1>4, <1>5, <1>6

\* One caller gets from one place to the next, or one request runs, or neither.
Moved(r, from, how) == caller[r] = from /\ caller' = Returns(caller, r, how)

\* To the callers every step is one of four: nothing, a call that begins or is
\* refused, a return, or the one run of a request that waits or was given up.
LEMMA WhatIsSeen ==
    ASSUME LinkInv, [Next]_vars
    PROVE  \/ UNCHANGED <<caller, executions>>
           \/ \E r \in Requests :
                 /\ executions' = executions
                 /\ \/ Moved(r, "none", "awaiting")
                    \/ Moved(r, "none", "refused")
                    \/ Moved(r, "awaiting", "answered") /\ executions[r] = 1
                    \/ Moved(r, "awaiting", "failed")
           \/ \E r \in Requests :
                 /\ caller[r] \in {"awaiting", "failed"} /\ executions[r] = 0
                 /\ executions' = [executions EXCEPT ![r] = 1]
                 /\ caller' = caller
<1>1. CASE UNCHANGED vars
    BY <1>1 DEF vars, linkVars
<1>2. ASSUME NEW r \in Requests, NEW open \in BOOLEAN, Call(r, open)
      PROVE  /\ executions' = executions
             /\ Moved(r, "none", "awaiting") \/ Moved(r, "none", "refused")
    BY <1>2 DEF Call, Moved, Returns
<1>3. ASSUME NEW r \in Requests, Collect(r)
      PROVE  /\ executions' = executions
             /\ \/ Moved(r, "awaiting", "answered") /\ executions[r] = 1
                \/ Moved(r, "awaiting", "failed")
    <2>1. pending[r] = "answered" => executions[r] = 1
        BY PresentState DEF LinkInv, Good, Base, Answered
    <2> QED
        BY <1>3, <2>1 DEF Collect, Moved, Returns
<1>4. ASSUME NEW r \in Requests, TimeOut(r)
      PROVE  executions' = executions /\ Moved(r, "awaiting", "failed")
    BY <1>4 DEF TimeOut, Moved, Returns
<1>5. ASSUME NEW open \in BOOLEAN, Reconnect(open) \/ Attempt(open) \/ Frame(open)
      PROVE  UNCHANGED <<caller, executions>>
    BY <1>5 DEF Reconnect, Attempt, Frame
<1>6. CASE StreamFails \/ ProbeEnds
    BY <1>6 DEF StreamFails, ProbeEnds
<1>7. ASSUME NEW n \in LinkIds, LogIn(n) \/ EndOfInput(n)
      PROVE  UNCHANGED <<caller, executions>>
    BY <1>7 DEF LogIn, EndOfInput
<1>8. ASSUME NEW n \in LinkIds, Execute(n), NEW r, r = Head(links[n].toBridge)
      PROVE  \/ UNCHANGED <<caller, executions>>
             \/ /\ r \in Requests /\ caller[r] \in {"awaiting", "failed"} /\ executions[r] = 0
                /\ executions' = [executions EXCEPT ![r] = 1]
                /\ caller' = caller
    <2>1. r \in Requests /\ caller[r] \in {"awaiting", "failed"} /\ executions[r] = 0
        BY <1>8, ExecuteForm
    <2>2. caller' = caller
        BY <1>8 DEF Execute
    <2>3. executions' = [executions EXCEPT ![r] = executions[r] + 1] \/ executions' = executions
        BY <1>8 DEF Execute
    <2>4. executions[r] + 1 = 1
        BY <2>1
    <2> QED
        BY <2>1, <2>2, <2>3, <2>4
<1>9. ASSUME NEW b \in Bridges, BridgeStep(b) PROVE UNCHANGED <<caller, executions>>
    BY <1>9 DEF BridgeStep
<1>10. CASE PluginStep
    <2>1. CASE \E open \in BOOLEAN, r \in Requests : Call(r, open)
        BY <1>2, <2>1
    <2>2. CASE \E r \in Requests : Collect(r) \/ TimeOut(r)
        BY <1>3, <1>4, <2>2
    <2>3. CASE \E open \in BOOLEAN : Reconnect(open) \/ Attempt(open) \/ Frame(open)
        BY <1>5, <2>3
    <2> QED
        BY <1>6, <1>10, <2>1, <2>2, <2>3 DEF PluginStep
<1>11. CASE \E n \in LinkIds : ReaderStep(n)
    BY <1>7, <1>8, <1>11 DEF ReaderStep
<1> QED
    BY <1>1, <1>9, <1>10, <1>11 DEF Next

\* Every step of the client and the bridges is a step of Calls, or none.
LEMMA CallsStep == LinkInv /\ [Next]_vars => [Promised!Next]_(Promised!callVars)
<1> SUFFICES ASSUME LinkInv, [Next]_vars PROVE [Promised!Next]_(Promised!callVars)
    OBVIOUS
<1>0. caller \in CallerRecord
    BY DEF LinkInv, Good, Base
<1>1. CASE UNCHANGED <<caller, executions>>
    BY <1>1 DEF Promised!callVars
<1>2. ASSUME NEW r \in Requests, NEW from,
             NEW how \in {"awaiting", "answered", "failed", "refused"},
             Moved(r, from, how)
      PROVE  /\ Outcome(caller') =
                   [Outcome(caller) EXCEPT ![r] = IF how = "awaiting" THEN "open" ELSE how]
             /\ Outcome(caller)[r] = IF from = "awaiting" THEN "open" ELSE from
    <2>1. PICK c2 : c2 = caller'
        OBVIOUS
    <2>2. PICK called : called = caller
        OBVIOUS
    <2>3. Outcome(c2) = [Outcome(called) EXCEPT ![r] = IF how = "awaiting" THEN "open" ELSE how]
        BY <1>0, <1>2, <2>1, <2>2, CallerMoves DEF Moved
    <2>4. Outcome(caller)[r] = IF from = "awaiting" THEN "open" ELSE from
        BY <1>2 DEF Moved, Outcome
    <2> QED
        BY <2>1, <2>2, <2>3, <2>4
<1>3. ASSUME NEW r \in Requests, executions' = executions, Moved(r, "none", "awaiting")
      PROVE  Promised!Submit(r)
    BY <1>2, <1>3 DEF Promised!Submit, Outcome
<1>4. ASSUME NEW r \in Requests, executions' = executions, Moved(r, "none", "refused")
      PROVE  Promised!Refuse(r)
    BY <1>2, <1>4 DEF Promised!Refuse, Outcome
<1>5. ASSUME NEW r \in Requests, executions' = executions,
             \/ Moved(r, "awaiting", "answered") /\ executions[r] = 1
             \/ Moved(r, "awaiting", "failed")
      PROVE  Promised!Return(r)
    BY <1>2, <1>5 DEF Promised!Return, Outcome
<1>6. ASSUME NEW r \in Requests, caller[r] \in {"awaiting", "failed"}, executions[r] = 0,
             executions' = [executions EXCEPT ![r] = 1], caller' = caller
      PROVE  Promised!Execute(r)
    BY <1>6 DEF Promised!Execute
<1> QED
    BY <1>1, <1>3, <1>4, <1>5, <1>6, WhatIsSeen DEF Promised!Next

(***************************************************************************)
(* The client and the bridges together implement Calls: a request runs at  *)
(* most once over any reconnects, an answer is only returned for one that  *)
(* ran, and one the client refused never runs (send_request,               *)
(* _await_request, _handle_response, _set_disconnected, handleRequest).    *)
(***************************************************************************)
THEOREM ClientImplementsCalls == Spec => CallsAreKept
<1>1. Init => Promised!Init
    BY DEF Init, LinkInit, Promised!Init
<1> QED
    BY <1>1, CallsStep, LinkInvariant, PTL DEF Spec, CallsAreKept, Promised!Spec

=============================================================================
