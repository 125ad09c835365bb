------------------------------ MODULE MeshNode ------------------------------
(* The mesh: nodes of py/elo/node.py on top of their connection tables.      *)
(* Each action is a coroutine of TCPManager together with what the message   *)
(* handler of Node does in the same step: routing table, replies, dials and  *)
(* the reconnection loops it starts.                                         *)
EXTENDS TCPManager, InterestTable

CONSTANTS
  Cap,          \* names of agents and tools; each is an interest too
  Offers,       \* per node: what it passes to register()
  Configured,   \* per node: the keys <<node, address>> of Node(peers=...)
  Private,      \* the nodes that show their capabilities to some only
  Allowed       \* per node: its _allowlist

ASSUME OffersType == Offers \in [Node -> SUBSET Cap]
ASSUME ConfiguredType == Configured \in [Node -> SUBSET (Node \X Address)]
ASSUME VisibilityType == Private \subseteq Node /\ Allowed \in [Node -> SUBSET Node]
ASSUME HelloShape ==
  HelloMsg = [type : {"HELLO"}, caps : SUBSET Cap, interests : SUBSET Cap]
ASSUME AckShape ==
  AckMsg = [type : {"HELLO_ACK"}, caps : SUBSET Cap, interests : SUBSET Cap,
            known_peers : SUBSET PeerKey]
ASSUME AppShape == AppMsg = [type : {"INTEREST_UPDATE"}, interests : SUBSET Cap]

VARIABLES
  caps,          \* per node: LocalTracker._caps
  routing,       \* per node: its InterestTable
  todo,          \* per node: the initial peers connect() has not dialled yet
  intent,        \* per connection: the dial decided on, by whom, whither, why
  reconnecting,  \* per node: _reconnecting_peers
  reached,       \* per node (history): configured peers dialled with success, no
                 \* dial of which has raised since
  armed          \* per node: those whose loop found the peer unconnected, and
                 \* sleeps before it dials

nodeVars == <<caps, routing, todo, intent, reconnecting, reached, armed>>
allVars == <<vars, nodeVars>>

\* A dial decided on carries the HELLO built at that time: its interests are a
\* copy, its caps the dict that register() updates in place.
Intent == [by : Node, to : PeerKey, why : {"boot", "lan", "known", "again"},
           interests : SUBSET Cap]

ASSUME NoneIsNoIntent == None \notin Intent

NodeTypeOK ==
  /\ caps \in [Node -> SUBSET Cap]
  /\ routing \in [Node -> TableOver(PeerKey, Cap)]
  /\ todo \in [Node -> SUBSET PeerKey]
  /\ intent \in [Conn -> Intent \cup {None}]
  /\ reconnecting \in [Node -> SUBSET PeerKey]
  /\ reached \in [Node -> SUBSET PeerKey]
  /\ armed \in [Node -> SUBSET PeerKey]

NodeInit ==
  /\ Init
  /\ caps = [n \in Node |-> {}]
  /\ routing = [n \in Node |-> EmptyTable]
  /\ todo = Configured
  /\ intent = [c \in Conn |-> None]
  /\ reconnecting = [n \in Node |-> {}]
  /\ reached = [n \in Node |-> {}]
  /\ armed = [n \in Node |-> {}]

-----------------------------------------------------------------------------
\* Handlers: what a message does to the node that reads it

\* get_public_caps and get_caps_for_peer.  The interests, which are the names of the
\* same capabilities, are shown to everybody.
PublicCaps(n) == IF n \in Private THEN {} ELSE caps[n]
CapsForPeer(n, m) == IF n \in Private /\ m \notin Allowed[n] THEN {} ELSE caps[n]

Hello(i) == [type |-> "HELLO", caps |-> PublicCaps(i.by), interests |-> i.interests]
Update(n) == [type |-> "INTEREST_UPDATE", interests |-> Offers[n]]

\* _on_hello: the sender is registered, and a HELLO is answered with the peers
\* known from then on, but for the sender.
OnHello(n, k, msg) ==
  routing' = [routing EXCEPT ![n] = RegisterPeer(@, k, msg.caps, msg.interests)]

AckTo(n, k) ==
  [type |-> "HELLO_ACK", caps |-> CapsForPeer(n, k[1]), interests |-> caps[n],
   known_peers |-> routing[n].known \ {k}]

\* _on_interest_update
OnInterestUpdate(n, k, msg) ==
  routing' = [routing EXCEPT ![n] = RegisterPeer(@, k, PeerCaps(@, k), msg.interests)]

\* Two bugs: the routes stay; no loop is started.
OnByeKeepsRoutes(n, keys) ==
  /\ reconnecting' = IF up[n] = "up"
                     THEN [reconnecting EXCEPT ![n] = @ \cup (keys \cap Configured[n])]
                     ELSE reconnecting
  /\ UNCHANGED <<caps, routing, todo, intent, reached, armed>>

OnByeWithoutLoop(n, keys) ==
  /\ routing' = [routing EXCEPT ![n] = RemovePeers(@, keys)]
  /\ UNCHANGED <<caps, todo, intent, reconnecting, reached, armed>>

\* _on_bye for one or several peers: no routes to them any more, and a
\* reconnection loop for each configured one (once _shutdown is set, it ends
\* at once).
OnBye(n, keys) ==
  /\ routing' = [routing EXCEPT ![n] = RemovePeers(@, keys)]
  /\ reconnecting' = IF up[n] = "up"
                     THEN [reconnecting EXCEPT ![n] = @ \cup (keys \cap Configured[n])]
                     ELSE reconnecting
  /\ UNCHANGED <<caps, todo, intent, reached, armed>>

-----------------------------------------------------------------------------
\* Decisions to dial.  The checks come first; the connection is opened later.

Free(c) == dialer[c] = None /\ intent[c] = None

Decide(n, k, why, c) ==
  /\ up[n] = "up" /\ Free(c)
  /\ intent' = [intent EXCEPT ![c] =
                  [by |-> n, to |-> k, why |-> why, interests |-> caps[n]]]

Dialling(n, why) == {intent[c].to : c \in {d \in Conn :
  intent[d] # None /\ intent[d].by = n /\ intent[d].why = why}}

\* A bug: one failed dial ends the loop.
UndialledGivesUp(c) ==
  LET i == intent[c] IN
  /\ intent' = [intent EXCEPT ![c] = None]
  /\ reconnecting' = IF i # None /\ i.why = "again"
                     THEN [reconnecting EXCEPT ![i.by] = @ \ {i.to}]
                     ELSE reconnecting

\* The dial of c came to nothing.  A reconnection loop goes round again, unless
\* _shutdown_event is set.
Undialled(c) ==
  LET i == intent[c] IN
  /\ intent' = [intent EXCEPT ![c] = None]
  /\ reconnecting' = IF i # None /\ i.why = "again" /\ up[i.by] # "up"
                     THEN [reconnecting EXCEPT ![i.by] = @ \ {i.to}]
                     ELSE reconnecting

\* connect() dials the initial peers one after the other.
Boot(n, k, c) ==
  /\ k \in todo[n] /\ Dialling(n, "boot") = {}
  /\ Decide(n, k, "boot", c)
  /\ todo' = [todo EXCEPT ![n] = @ \ {k}]
  /\ UNCHANGED <<vars, caps, routing, reconnecting, reached, armed>>

\* _handle_multicast: an announcement of m, at any time; one's own are ignored.
Announced(n, m) == m # n

\* _on_discovered_peer: m is in no entry so far.
Discover(n, m, a, c) ==
  /\ Announced(n, m) /\ \A e \in peers[n] : Remote(e) # m
  /\ Decide(n, <<m, a>>, "lan", c)
  /\ UNCHANGED <<vars, caps, routing, todo, reconnecting, reached, armed>>

\* The top of the loop of _schedule_reconnect: connected by that address, or
\* else a sleep of 1 to 30 seconds.
ReconnectCheck(n, k) ==
  /\ k \in reconnecting[n] \ (armed[n] \cup Dialling(n, "again"))
  /\ IF \E e \in peers[n] : Key(e) = k
     THEN /\ reconnecting' = [reconnecting EXCEPT ![n] = @ \ {k}]
          /\ UNCHANGED armed
     ELSE /\ armed' = [armed EXCEPT ![n] = @ \cup {k}]
          /\ UNCHANGED reconnecting
  /\ UNCHANGED <<vars, caps, routing, todo, intent, reached>>

\* A bug: the loop forgets that it is dialling.
ReconnectDialAgain(n, k, c) ==
  /\ k \in armed[n]
  /\ Decide(n, k, "again", c)
  /\ UNCHANGED <<vars, caps, routing, todo, reconnecting, reached, armed>>

\* The sleep is over: dial, without looking again.
ReconnectDial(n, k, c) ==
  /\ k \in armed[n]
  /\ Decide(n, k, "again", c)
  /\ armed' = [armed EXCEPT ![n] = @ \ {k}]
  /\ UNCHANGED <<vars, caps, routing, todo, reconnecting, reached>>

\* connect_to_peer gets its connection, or is refused: nobody listens there.
OpenConnection(c) ==
  /\ intent[c] # None
  /\ LET i == intent[c] IN
       i.to[2] \in Address /\ Dial(i.by, i.to[1], i.to[2], c, Hello(i))
  /\ UNCHANGED nodeVars

OpenFails(c) ==
  /\ intent[c] # None /\ dialer[c] = None
  /\ LET i == intent[c] IN
       \/ i.to[2] \notin Address
       \/ (i.to[1] = i.by /\ i.to[2] \in Loopback)
       \/ up[i.to[1]] # "up"
       \/ "timeout" \in Faults
  /\ Undialled(c)
  /\ UNCHANGED <<vars, caps, routing, todo, reached, armed>>

-----------------------------------------------------------------------------
\* Connections

\* The handler raises on a HELLO or HELLO_ACK: before, inside or after register_peer.
MayHaveRegistered(n, k, msg) ==
  \/ UNCHANGED routing
  \/ routing' = [routing EXCEPT ![n] = RegisterPeerPartly(@, k, msg.caps)]
  \/ OnHello(n, k, msg)

Accept(c, stale, unsent, raised) ==
  LET n == acceptor[c]
      k == Key(In(c))
      msg == Head(inbox[In(c)])
  IN /\ phase[In(c)] = "handshake" /\ inbox[In(c)] # <<>>
     /\ AcceptHello(c, stale, IF unsent \/ raised THEN <<>> ELSE <<AckTo(n, k)>>, unsent, raised)
     /\ IF raised THEN MayHaveRegistered(n, k, msg) ELSE OnHello(n, k, msg)
     /\ UNCHANGED <<caps, todo, intent, reconnecting, reached, armed>>

\* The peers listed in a HELLO_ACK that get a connect task of their own; those
\* listed under an ephemeral port are refused and left out here.
ToDial(n, k, listed) ==
  {p \in listed : p # k /\ p[2] \in Address /\ \A e \in peers'[n] : Key(e) # p}

\* The dial of c is over; each of the wanted peers gets a connection to be dialled on.
StartDials(c, n, wanted) ==
  \E f \in [wanted -> {d \in Conn : Free(d)}] :
    /\ \A p, q \in wanted : f[p] = f[q] => p = q
    /\ intent' = [d \in Conn |->
         IF d = c THEN None
         ELSE IF \E p \in wanted : f[p] = d
              THEN [by |-> n, to |-> CHOOSE p \in wanted : f[p] = d,
                    why |-> "known", interests |-> caps[n]]
              ELSE intent[d]]

\* HELLO_ACK: the peer is registered, the listed peers are dialled (all of them,
\* or as many as Conn, the bound on dials, allows), and a reconnection loop that
\* waited for it ends.
Connected(c, stale) ==
  LET n == dialer[c]
      k == Key(Out(c))
      listed == ToDial(n, k, Head(inbox[Out(c)]).known_peers)
  IN /\ RecvAck(c, stale, FALSE)
     /\ OnHello(n, k, Head(inbox[Out(c)]))
     /\ \E wanted \in SUBSET listed :
          /\ StartDials(c, n, wanted)
          /\ wanted = listed \/ ~\E d \in Conn : Free(d) /\ intent'[d] = None
     /\ reconnecting' = IF intent[c].why = "again"
                        THEN [reconnecting EXCEPT ![n] = @ \ {k}]
                        ELSE reconnecting
     /\ reached' = [reached EXCEPT ![n] = @ \cup ({k} \cap Configured[n])]
     /\ UNCHANGED <<caps, todo, armed>>

\* connect_to_peer raises, and what called it ends: a reconnection loop for good,
\* connect() with the initial peers undialled that are left.  All others catch it.
DialRaised(c) ==
  LET n == dialer[c]
      k == Key(Out(c))
      why == intent[c].why
  IN /\ reconnecting' = IF why = "again" THEN [reconnecting EXCEPT ![n] = @ \ {k}]
                        ELSE reconnecting
     /\ \/ UNCHANGED todo
        \/ why = "boot" /\ todo' = [todo EXCEPT ![n] = {}]
     /\ reached' = [reached EXCEPT ![n] = @ \ {k}]
     /\ UNCHANGED <<caps, armed>>

\* The handler raised on the HELLO_ACK, with some of the listed peers dialled or none.
AckRaises(c, stale) ==
  LET n == dialer[c]
      k == Key(Out(c))
      msg == Head(inbox[Out(c)])
  IN /\ RecvAck(c, stale, TRUE)
     /\ MayHaveRegistered(n, k, msg)
     /\ \E wanted \in SUBSET ToDial(n, k, msg.known_peers) : StartDials(c, n, wanted)
     /\ DialRaised(c)

\* Its own send or recv raised.
ConnectRaises(c, sent, closes) ==
  /\ DialRaises(c, sent, closes)
  /\ intent' = [intent EXCEPT ![c] = None]
  /\ DialRaised(c)
  /\ UNCHANGED routing

\* No HELLO_ACK.  Only the bootstrap bounds connect_to_peer with a wait_for.
ConnectFails(c) ==
  /\ \/ DialFails(c)
     \/ /\ intent[c] # None /\ intent[c].why = "boot"
        /\ \E closes \in BOOLEAN : DialCancelled(c, closes)
  /\ Undialled(c)
  /\ UNCHANGED <<caps, routing, todo, reached, armed>>

\* _handle_message for a frame read from an established connection.
Receive(e) ==
  /\ Read(e)
  /\ LET n == Owner(e)
         msg == Head(inbox[e])
     IN \/ /\ msg.type = "BYE"
           /\ OnBye(n, {Key(e)})
        \/ /\ msg.type = "INTEREST_UPDATE"
           /\ OnInterestUpdate(n, Key(e), msg)
           /\ UNCHANGED <<caps, todo, intent, reconnecting, reached, armed>>

Lost(e) == (LoopDone(e) \/ LoopBreaks(e)) /\ OnBye(Owner(e), {Key(e)})

\* The heartbeat's round, and the BYE it makes of each entry found dead.
Purge(n, idle) == Heartbeat(n, idle) /\ OnBye(n, {Key(e) : e \in Dead(n, idle)})

-----------------------------------------------------------------------------
\* Life cycle

\* register(), once, after connect() has returned.
Register(n) ==
  /\ up[n] = "up" /\ todo[n] = {} /\ Dialling(n, "boot") = {}
  /\ caps[n] = {} /\ Offers[n] # {}
  /\ caps' = [caps EXCEPT ![n] = Offers[n]]
  /\ IF peers[n] = {} THEN UNCHANGED vars ELSE Broadcast(n, {}, Update(n))
  /\ UNCHANGED <<routing, todo, intent, reconnecting, reached, armed>>

\* disconnect(): the sleeping loops wake up and end.  The caller of connect() is
\* the one that calls it, so nothing is left of the bootstrap.
Disconnect(n) ==
  /\ todo[n] = {} /\ Dialling(n, "boot") = {}
  /\ Stop(n)
  /\ reconnecting' = [reconnecting EXCEPT ![n] = @ \cap Dialling(n, "again")]
  /\ armed' = [armed EXCEPT ![n] = {}]
  /\ UNCHANGED <<caps, routing, todo, intent, reached>>

ProcessEnds(n) ==
  /\ Exit(n)
  /\ caps' = [caps EXCEPT ![n] = {}]
  /\ routing' = [routing EXCEPT ![n] = EmptyTable]
  /\ todo' = [todo EXCEPT ![n] = Configured[n]]
  /\ intent' = [c \in Conn |-> IF intent[c] # None /\ intent[c].by = n
                               THEN None ELSE intent[c]]
  /\ reconnecting' = [reconnecting EXCEPT ![n] = {}]
  /\ reached' = [reached EXCEPT ![n] = {}]
  /\ armed' = [armed EXCEPT ![n] = {}]

ProcessStarts(n) == Start(n) /\ UNCHANGED nodeVars

-----------------------------------------------------------------------------
NodeAccepts(c) ==
  /\ acceptor[c] # None
  /\ \/ \E stale \in StaleSets(In(c)), unsent, raised \in BOOLEAN :
          Accept(c, stale, unsent, raised)
     \/ RejectIncoming(c) /\ UNCHANGED nodeVars

NodeConnects(c) ==
  /\ dialer[c] # None
  /\ \/ \E stale \in StaleSets(Out(c)) : Connected(c, stale) \/ AckRaises(c, stale)
     \/ \E sent, closes \in BOOLEAN : ConnectRaises(c, sent, closes)
     \/ ConnectFails(c)

NodeNext ==
  \/ \E n \in Node, c \in Conn :
       \/ \E k \in todo[n] : Boot(n, k, c)
       \/ \E m \in Node, a \in Address : Discover(n, m, a, c)
       \/ \E k \in armed[n] : ReconnectDial(n, k, c)
  \/ \E n \in Node : \E k \in reconnecting[n] : ReconnectCheck(n, k)
  \/ \E c \in Conn : OpenConnection(c) \/ OpenFails(c)
  \/ \E c \in Conn : NodeAccepts(c) \/ NodeConnects(c)
  \/ \E e \in End : Receive(e) \/ Lost(e)
  \/ \E n \in Node, e \in End : SendFails(n, e) /\ UNCHANGED nodeVars
  \/ \E n \in Node : \E idle \in SUBSET peers[n] : Purge(n, idle)
  \/ \E n \in Node : Register(n) \/ Disconnect(n) \/ ProcessEnds(n) \/ ProcessStarts(n)

NodeSpec == NodeInit /\ [][NodeNext]_allVars

\* The event loops of the nodes: connections, read loops and heartbeats.
NodeFairness ==
  /\ \A c \in Conn :
       /\ WF_allVars(OpenConnection(c) \/ OpenFails(c))
       /\ WF_allVars(NodeAccepts(c))
       /\ WF_allVars(NodeConnects(c))
  /\ \A e \in End : WF_allVars(Receive(e)) /\ WF_allVars(LoopDone(e) /\ OnBye(Owner(e), {Key(e)}))
  /\ \A n \in Node : WF_allVars(Purge(n, Silent(n)))

NodeFairSpec == NodeSpec /\ NodeFairness

-----------------------------------------------------------------------------
\* Properties

\* Every peer a node routes to, or lists to others, has a read loop left that
\* will take it out of the routing table, also a peer that an INTEREST_UPDATE, read
\* after the BYE of a purge, has brought back; or its handler raised on its HELLO, and
\* its entry is left to the purge.  Only the routes of leaked ends stay for good: the
\* handler may register a peer before it raises.
RoutedHasReader ==
  \A n \in Node : \A k \in routing[n].known :
    \E e \in End : /\ Owner(e) = n /\ Key(e) = k
                   /\ \/ phase[e] = "reading"
                      \/ phase[e] = "abandoned" /\ e \in peers[n]
                      \/ Leaked(e)

\* A configured peer that was reached once is never given up: as long as the
\* node runs, some read loop serves it or a reconnection loop looks for it, unless
\* a dial of it has raised since.
ReachedIsKept ==
  \A n \in Node : up[n] = "up" => \A k \in reached[n] :
    \/ k \in reconnecting[n]
    \/ \E e \in End : phase[e] = "reading" /\ Owner(e) = n /\ Key(e) = k

\* The dial of c was decided on by a reconnection loop of n.
Again(n, c) == intent[c] # None /\ intent[c].by = n /\ intent[c].why = "again"

\* Each reconnection loop dials one connection at a time, and a loop that is
\* not running neither sleeps nor dials.
OneDialPerLoop ==
  \A n \in Node :
    /\ armed[n] \cup Dialling(n, "again") \subseteq reconnecting[n]
    /\ armed[n] \cap Dialling(n, "again") = {}
    /\ \A c, d \in Conn : Again(n, c) /\ Again(n, d) /\ intent[c].to = intent[d].to
                          => c = d

\* This step raises out of the dial of n's reconnection loop for k.
LoopRaises(n, k) ==
  \E c \in Conn : /\ Again(n, c) /\ intent[c].to = k
                 /\ phase[Out(c)] = "handshake"
                 /\ phase'[Out(c)] \in {"cut", "abandoned"}

\* A reconnection loop of a running node only ends with the peer filed under the
\* configured address, or because its own dial raised: not on a dial that is refused,
\* unanswered or rejected, nor on what becomes of other connections to the peer.
LoopEndsConnected ==
  [][\A n \in Node : \A k \in reconnecting[n] :
       \/ k \in reconnecting'[n] \/ up'[n] # "up"
       \/ \E e \in peers'[n] : Key(e)' = k
       \/ LoopRaises(n, k)]_allVars

\* The routing table follows the connection table, but for the routes of leaked ends.
RoutesFollowTable ==
  \A n \in Node, k \in PeerKey :
    (k \in routing[n].known /\ \A e \in peers[n] : Key(e) # k)
      ~> \/ k \notin routing[n].known \/ \E e \in peers[n] : Key(e) = k
         \/ \E e \in End : Leaked(e) /\ Owner(e) = n /\ Key(e) = k
=============================================================================
