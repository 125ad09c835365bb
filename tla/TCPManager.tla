----------------------------- MODULE TCPManager -----------------------------
(* The connection tables of a mesh of nodes: TCPManager and PeerConnection   *)
(* of py/elo/transport/tcp.py, one TCPManager per node, and the TCP          *)
(* connections between them.                                                 *)
(*                                                                           *)
(* A step is what asyncio runs without suspending: from one await that       *)
(* really waits (a read, a connect, a timer) to the next.  Writes are taken  *)
(* not to suspend (no back-pressure on the small frames of the protocol).    *)
(* The message handler that the node installs is a parameter: it may answer  *)
(* a HELLO, it may raise, and `announced` records what it has been told.     *)
EXTENDS Naturals, Sequences

CONSTANTS
  Node,        \* node identities (the 12 characters of node_id that keys use)
  Conn,        \* connections; each one is dialled once: a bound on the dials,
               \* and the ephemeral port of the dialling side
  Address,     \* the addresses by which a listener is dialled ("host:port")
  Loopback,    \* those of them that name the local host (tcp.py:253)
  HelloMsg, AckMsg, AppMsg,  \* the HELLO, HELLO_ACK and other messages sent
  Faults,      \* which failures the environment may inject
  MaxInbox,    \* bound: application messages in flight on one connection side
  None

\* "error": write_frame or read_frame raises what is not the end of a connection.
FaultKinds == {"timeout", "cancel", "raise", "error", "reset", "idle", "stop", "crash"}

ASSUME KeysDisjoint == Address \cap Conn = {}
ASSUME NoneIsNoNode == None \notin Node
ASSUME FaultsAreKnown == Faults \subseteq FaultKinds
ASSUME InboxBound == MaxInbox \in Nat
ASSUME MessageTypes ==
  /\ \A m \in HelloMsg : m.type = "HELLO"
  /\ \A m \in AckMsg : m.type = "HELLO_ACK"
  /\ \A m \in AppMsg : m.type \notin {"HELLO", "HELLO_ACK"}

Bye == [type |-> "BYE"]
Message == HelloMsg \cup AckMsg \cup AppMsg \cup {Bye}

End == Conn \X {"out", "in"}   \* the two PeerConnection objects of a connection
Out(c) == <<c, "out">>         \* at the node that dialled
In(c) == <<c, "in">>           \* at the node that accepted
Other(e) == IF e[2] = "out" THEN In(e[1]) ELSE Out(e[1])

Phase == {"unused",     \* no such socket yet
          "handshake",  \* waiting for HELLO (in) or HELLO_ACK (out)
          "reading",    \* a read loop owns this end
          "abandoned",  \* filed, and its handler raised: no coroutine owns it
          "cut",        \* never filed, its dial was cut short: none owns it
          "done"}       \* its read loop or handshake is over

VARIABLES
  up,         \* per node: "up", "stopping" (_shutdown is set) or "down"
  dialer, acceptor, via,  \* per connection: who dialled whom, by which address
  phase,      \* per end
  open,       \* per end: close() has not been called
  failed,     \* open ends on which a send has raised: _alive is False, and they
              \* are read and filed as before
  inbox,      \* per end: frames sent to it and not read yet
  peers,      \* per node: the values of TCPManager._peers (keys: see Key)
  announced   \* per node: keys the handler saw a HELLO or HELLO_ACK for and no
              \* BYE since

vars == <<up, dialer, acceptor, via, phase, open, failed, inbox, peers, announced>>
wiring == <<dialer, acceptor, via>>

Owner(e) == IF e[2] = "out" THEN dialer[e[1]] ELSE acceptor[e[1]]
Remote(e) == IF e[2] = "out" THEN acceptor[e[1]] ELSE dialer[e[1]]

\* A bug: the key is the identity, whatever the connection.
KeyOfIdentity(e) == <<Remote(e), CHOOSE a \in Address : TRUE>>

\* The key of an end in _peers: "<remote id>@<dialled address>" at the dialling
\* node, "<remote id>@<host:ephemeral port>" at the accepting one.
Key(e) == <<Remote(e), IF e[2] = "out" THEN via[e[1]] ELSE e[1]>>
PeerKey == Node \X (Address \cup Conn)

TypeOK ==
  /\ up \in [Node -> {"up", "stopping", "down"}]
  /\ dialer \in [Conn -> Node \cup {None}]
  /\ acceptor \in [Conn -> Node \cup {None}]
  /\ via \in [Conn -> Address \cup {None}]
  /\ phase \in [End -> Phase]
  /\ open \in [End -> BOOLEAN]
  /\ failed \in SUBSET End
  /\ inbox \in [End -> Seq(Message)]
  /\ peers \in [Node -> SUBSET End]
  /\ announced \in [Node -> SUBSET PeerKey]

Init ==
  /\ up = [n \in Node |-> "up"]
  /\ dialer = [c \in Conn |-> None]
  /\ acceptor = [c \in Conn |-> None]
  /\ via = [c \in Conn |-> None]
  /\ phase = [e \in End |-> "unused"]
  /\ open = [e \in End |-> FALSE]
  /\ failed = {}
  /\ inbox = [e \in End |-> <<>>]
  /\ peers = [n \in Node |-> {}]
  /\ announced = [n \in Node |-> {}]

-----------------------------------------------------------------------------
\* PeerConnection

\* send() on each end of `from`: the frame reaches the other side unless one
\* of the two has closed or a send has failed here before (send raises, or the
\* frame is lost on the wire).
Deliver(box, from, msgs) ==
  [f \in End |-> IF Other(f) \in from \ failed /\ open[f] /\ open[Other(f)]
                 THEN box[f] \o msgs ELSE box[f]]

Closed(ends) == [e \in End |-> IF e \in ends THEN FALSE ELSE open[e]]
Closes(ends) == open' = Closed(ends) /\ failed' = failed \ ends

\* recv() returns None: close() was called here (what is already buffered may
\* still be read first), or the other side closed and all it sent was read.
EofSeen(e) == ~open[e] \/ (inbox[e] = <<>> /\ ~open[Other(e)])

-----------------------------------------------------------------------------
\* Handshakes

\* connect_to_peer up to the wait for HELLO_ACK.  The test `canonical in
\* self._peers` never succeeds: the keys of _peers all carry an "id@" prefix.
Dial(n, m, a, c, hello) ==
  /\ up[n] # "down" /\ up[m] = "up"
  /\ dialer[c] = None
  /\ ~(m = n /\ a \in Loopback)
  /\ dialer' = [dialer EXCEPT ![c] = n]
  /\ acceptor' = [acceptor EXCEPT ![c] = m]
  /\ via' = [via EXCEPT ![c] = a]
  /\ phase' = [phase EXCEPT ![Out(c)] = "handshake", ![In(c)] = "handshake"]
  /\ open' = [open EXCEPT ![Out(c)] = TRUE, ![In(c)] = TRUE]
  /\ inbox' = [inbox EXCEPT ![In(c)] = <<hello>>]
  /\ UNCHANGED <<up, failed, peers, announced>>

\* The test that a HELLO comes from this very node, and a bug: it is missing.
SelfUnnoticed(c) == FALSE
SelfDialled(c) == dialer[c] = acceptor[c]

\* A bug: the stale entry is never found.
NoStaleFound(n, m, stale) == stale = {}

\* _remove_stale_peer picks the first entry of the same identity, if any.
IsStaleChoice(n, m, stale) ==
  LET same == {f \in peers[n] : Remote(f) = m}
  IN IF same = {} THEN stale = {} ELSE \E f \in same : stale = {f}

\* Replace the stale entry, file the new one, call the handler and, unless the
\* handler raised, hand the end to a read loop.
Enrol(e, stale, raised) ==
  /\ peers' = [peers EXCEPT ![Owner(e)] =
                 {f \in @ \ stale : Key(f) # Key(e)} \cup {e}]
  /\ announced' = [announced EXCEPT ![Owner(e)] = @ \cup {Key(e)}]
  /\ phase' = [phase EXCEPT ![e] = IF raised THEN "abandoned" ELSE "reading"]

\* _handle_incoming with a HELLO of another node; `reply` is what the handler
\* sends back, `unsent` that this send raised, which the handler passes over.  When
\* the handler itself raises, the end is closed but stays filed.
AcceptHello(c, stale, reply, unsent, raised) ==
  LET e == In(c) IN
  /\ phase[e] = "handshake" /\ inbox[e] # <<>>
  /\ Head(inbox[e]).type = "HELLO"
  /\ ~SelfDialled(c)
  /\ raised => "raise" \in Faults /\ reply = <<>>
  /\ unsent => "error" \in Faults /\ reply = <<>> /\ ~raised
  /\ IsStaleChoice(Owner(e), Remote(e), stale)
  /\ Enrol(e, stale, raised)
  /\ LET closed == IF raised THEN stale \cup {e} ELSE stale
     IN  /\ open' = Closed(closed)
         /\ failed' = (failed \ closed) \cup (IF unsent THEN {e} ELSE {})
  /\ inbox' = Deliver([inbox EXCEPT ![e] = Tail(@)], {e}, reply)
  /\ UNCHANGED <<up, wiring>>

HandshakeOver(e) ==
  /\ phase' = [phase EXCEPT ![e] = "done"]
  /\ Closes({e})
  /\ inbox' = [inbox EXCEPT ![e] = <<>>]
  /\ UNCHANGED <<up, wiring, peers, announced>>

\* _handle_incoming: the dialler is this very node, or it left without HELLO.
RejectIncoming(c) ==
  LET e == In(c) IN
  /\ phase[e] = "handshake"
  /\ \/ inbox[e] # <<>> /\ Head(inbox[e]).type = "HELLO" /\ SelfDialled(c)
     \/ inbox[e] # <<>> /\ Head(inbox[e]).type # "HELLO"
     \/ EofSeen(e)
  /\ HandshakeOver(e)

\* connect_to_peer when HELLO_ACK arrives.  When the handler raises, the read
\* loop is never spawned: the end stays filed and open.
RecvAck(c, stale, raised) ==
  LET e == Out(c) IN
  /\ phase[e] = "handshake" /\ inbox[e] # <<>>
  /\ Head(inbox[e]).type = "HELLO_ACK"
  /\ raised => "raise" \in Faults
  /\ IsStaleChoice(Owner(e), Remote(e), stale)
  /\ Enrol(e, stale, raised)
  /\ Closes(stale)
  /\ inbox' = [inbox EXCEPT ![e] = Tail(@)]
  /\ UNCHANGED <<up, wiring>>

\* connect_to_peer gives up: another frame came first, EOF, or five seconds.
DialFails(c) ==
  LET e == Out(c) IN
  /\ phase[e] = "handshake"
  /\ \/ inbox[e] # <<>> /\ Head(inbox[e]).type # "HELLO_ACK"
     \/ EofSeen(e)
     \/ "timeout" \in Faults
  /\ HandshakeOver(e)

\* connect_to_peer ends otherwise than by returning: nothing closes the socket (a
\* recent Python does, when the writer is freed).
DialCut(c, closes) ==
  LET e == Out(c) IN
  /\ phase[e] = "handshake"
  /\ phase' = [phase EXCEPT ![e] = "cut"]
  /\ Closes(IF closes THEN {e} ELSE {})
  /\ UNCHANGED <<up, wiring, peers, announced>>

\* A caller's wait_for cancels it while it waits for HELLO_ACK.
DialCancelled(c, closes) ==
  /\ "cancel" \in Faults
  /\ DialCut(c, closes) /\ UNCHANGED inbox

\* It raises: the send of the HELLO did, which is then not on its way, or recv did.
DialRaises(c, sent, closes) ==
  /\ "error" \in Faults
  /\ DialCut(c, closes)
  /\ inbox' = IF sent THEN inbox ELSE [inbox EXCEPT ![In(c)] = <<>>]

-----------------------------------------------------------------------------
\* Read loops

\* A bug: the handler is not told.
EndLoopSilently(e) ==
  /\ phase' = [phase EXCEPT ![e] = "done"]
  /\ Closes({e})
  /\ inbox' = [inbox EXCEPT ![e] = <<>>]
  /\ peers' = [peers EXCEPT ![Owner(e)] = {f \in @ : Key(f) # Key(e)}]
  /\ UNCHANGED <<up, wiring, announced>>

\* The `finally` of _read_loop: the entry is popped by key, whichever
\* connection is filed under that key by now, and the handler is told BYE.
EndLoop(e) ==
  LET n == Owner(e) IN
  /\ phase' = [phase EXCEPT ![e] = "done"]
  /\ Closes({e})
  /\ inbox' = [inbox EXCEPT ![e] = <<>>]
  /\ peers' = [peers EXCEPT ![n] = {f \in @ : Key(f) # Key(e)}]
  /\ announced' = [announced EXCEPT ![n] = @ \ {Key(e)}]
  /\ UNCHANGED <<up, wiring>>

\* One turn of _read_loop: a frame is read and handled.
Read(e) ==
  /\ phase[e] = "reading" /\ inbox[e] # <<>>
  /\ up[Owner(e)] = "up"
  /\ inbox' = [inbox EXCEPT ![e] = Tail(@)]
  /\ announced' = IF Head(inbox[e]).type = "BYE"
                  THEN [announced EXCEPT ![Owner(e)] = @ \ {Key(e)}]
                  ELSE announced
  /\ UNCHANGED <<up, wiring, phase, open, failed, peers>>

\* The last turn: end of stream, or _shutdown is found set: before the first
\* frame, or after one more.
LoopDone(e) ==
  /\ phase[e] = "reading"
  /\ \/ EofSeen(e)
     \/ up[Owner(e)] = "stopping" /\ (inbox[e] # <<>> \/ e \in peers[Owner(e)])
  /\ EndLoop(e)

\* The handler raised on a frame, or the connection was reset.
LoopBreaks(e) ==
  /\ phase[e] = "reading"
  /\ \/ "raise" \in Faults /\ inbox[e] # <<>>
     \/ {"reset", "error"} \cap Faults # {}
  /\ EndLoop(e)

-----------------------------------------------------------------------------
\* Sending

HasRoom(ends) == \A e \in ends : Len(inbox[Other(e)]) < MaxInbox

SendTo(n, e, msg) ==
  /\ e \in peers[n] /\ open[e] /\ e \notin failed /\ HasRoom({e})
  /\ inbox' = Deliver(inbox, {e}, <<msg>>)
  /\ UNCHANGED <<up, wiring, phase, open, failed, peers, announced>>

\* A send on a filed end raises: on this end all later ones do.  A broadcast that
\* fails for some entries is this step for each of them, and then Broadcast.
SendFails(n, e) ==
  /\ "error" \in Faults
  /\ e \in peers[n] /\ open[e]
  /\ failed' = failed \cup {e}
  /\ UNCHANGED <<up, wiring, phase, open, inbox, peers, announced>>

Broadcast(n, exclude, msg) ==
  LET to == {e \in peers[n] : Key(e) \notin exclude} IN
  /\ to # {} /\ HasRoom(to)
  /\ inbox' = Deliver(inbox, to, <<msg>>)
  /\ UNCHANGED <<up, wiring, phase, open, failed, peers, announced>>

\* Entries whose far side is in no table: nothing is sent to them any more,
\* heartbeats included, unless the far side is about to file the connection.
HalfLinked(n) == {e \in peers[n] : Other(e) \notin peers[Remote(e)]}

\* Entries on which nothing will be read again: they do become idle.
Silent(n) ==
  {e \in HalfLinked(n) : inbox[e] = <<>> /\ phase[Other(e)] # "handshake"}
    \cup {e \in peers[n] : phase[e] = "abandoned"}

\* The entries that a round takes out: the send of the HEARTBEAT raised, or nothing
\* was read for too long.  And a bug: idle time is not looked at.
DeadIfClosed(n, idle) == {e \in peers[n] : ~open[e] \/ e \in failed}
Dead(n, idle) == idle \cup {e \in peers[n] : ~open[e] \/ e \in failed}

MayBeIdle(n) == IF {"idle", "error"} \cap Faults # {} THEN peers[n] ELSE Silent(n)

\* Bugs: idle entries are taken out, their connections stay open; dead connections
\* are closed, their entries stay.
HeartbeatLeavesOpen(n, idle) ==
  LET dead == Dead(n, idle) IN
  /\ up[n] = "up" /\ dead # {} /\ idle \subseteq MayBeIdle(n)
  /\ peers' = [peers EXCEPT ![n] = @ \ dead]
  /\ announced' = [announced EXCEPT ![n] = @ \ {Key(e) : e \in dead}]
  /\ phase' = [e \in End |-> IF e \in dead /\ phase[e] = "abandoned" THEN "done"
                             ELSE phase[e]]
  /\ UNCHANGED <<up, wiring, open, failed, inbox>>

HeartbeatLeavesFiled(n, idle) ==
  LET dead == Dead(n, idle) IN
  /\ up[n] = "up" /\ dead # {} /\ idle \subseteq MayBeIdle(n)
  /\ Closes(dead)
  /\ announced' = [announced EXCEPT ![n] = @ \ {Key(e) : e \in dead}]
  /\ phase' = [e \in End |-> IF e \in dead /\ phase[e] = "abandoned" THEN "done"
                             ELSE phase[e]]
  /\ UNCHANGED <<up, wiring, inbox, peers>>

\* One round of start_heartbeat.  Its HEARTBEAT frames only refresh the idle
\* clocks, which `idle` stands for, as it does for those just found unsendable:
\* they are not put in the inboxes.
Heartbeat(n, idle) ==
  LET dead == Dead(n, idle) IN
  /\ up[n] = "up" /\ dead # {} /\ idle \subseteq MayBeIdle(n)
  /\ peers' = [peers EXCEPT ![n] = @ \ dead]
  /\ Closes(dead)
  /\ announced' = [announced EXCEPT ![n] = @ \ {Key(e) : e \in dead}]
  /\ phase' = [e \in End |-> IF e \in dead /\ phase[e] = "abandoned" THEN "done"
                             ELSE phase[e]]
  /\ UNCHANGED <<up, wiring, inbox>>

-----------------------------------------------------------------------------
\* Life cycle

\* stop(): BYE to every entry, close them, clear the table.  Connections that
\* are in no table, and handshakes under way, are left as they are.
Stop(n) ==
  /\ "stop" \in Faults /\ up[n] = "up"
  /\ up' = [up EXCEPT ![n] = "stopping"]
  /\ inbox' = Deliver(inbox, peers[n], <<Bye>>)
  /\ Closes(peers[n])
  /\ peers' = [peers EXCEPT ![n] = {}]
  /\ UNCHANGED <<wiring, phase, announced>>

\* The process ends, by itself after stop() or by a crash: the operating
\* system closes its sockets, its memory is gone.
Exit(n) ==
  LET mine == {e \in End : phase[e] # "unused" /\ Owner(e) = n} IN
  /\ up[n] = "stopping" \/ (up[n] = "up" /\ "crash" \in Faults)
  /\ up' = [up EXCEPT ![n] = "down"]
  /\ phase' = [e \in End |-> IF e \in mine THEN "done" ELSE phase[e]]
  /\ Closes(mine)
  /\ inbox' = [e \in End |-> IF e \in mine THEN <<>> ELSE inbox[e]]
  /\ peers' = [peers EXCEPT ![n] = {}]
  /\ announced' = [announced EXCEPT ![n] = {}]
  /\ UNCHANGED wiring

\* A new process with the same identity.
Start(n) ==
  /\ up[n] = "down"
  /\ up' = [up EXCEPT ![n] = "up"]
  /\ UNCHANGED <<wiring, phase, open, failed, inbox, peers, announced>>

-----------------------------------------------------------------------------
Replies == {<<>>} \cup {<<m>> : m \in AckMsg}
StaleSets(e) == {{}} \cup {{f} : f \in peers[Owner(e)]}

Accepts(c) ==
  /\ acceptor[c] # None
  /\ \/ \E stale \in StaleSets(In(c)), reply \in Replies, unsent, raised \in BOOLEAN :
          AcceptHello(c, stale, reply, unsent, raised)
     \/ RejectIncoming(c)

Connects(c) ==
  /\ dialer[c] # None
  /\ \/ \E stale \in StaleSets(Out(c)), raised \in BOOLEAN : RecvAck(c, stale, raised)
     \/ DialFails(c)
     \/ \E closes \in BOOLEAN :
          DialCancelled(c, closes) \/ \E sent \in BOOLEAN : DialRaises(c, sent, closes)

Next ==
  \/ \E n, m \in Node, a \in Address, c \in Conn, hello \in HelloMsg :
       Dial(n, m, a, c, hello)
  \/ \E c \in Conn : Accepts(c) \/ Connects(c)
  \/ \E e \in End : Read(e) \/ LoopDone(e) \/ LoopBreaks(e)
  \/ \E n \in Node, e \in End : SendFails(n, e) \/ \E msg \in AppMsg : SendTo(n, e, msg)
  \/ \E n \in Node, msg \in AppMsg :
       \E exclude \in SUBSET {Key(e) : e \in peers[n]} : Broadcast(n, exclude, msg)
  \/ \E n \in Node : \E idle \in SUBSET peers[n] : Heartbeat(n, idle)
  \/ \E n \in Node : Stop(n) \/ Exit(n) \/ Start(n)

Spec == Init /\ [][Next]_vars

-----------------------------------------------------------------------------
\* Properties

\* However many connections two nodes open, in both directions and at once, a
\* table never holds two entries of one identity: _remove_stale_peer looks at
\* one entry only, and that is enough.
OneEntryPerIdentity ==
  \A n \in Node : \A e, f \in peers[n] : Remote(e) = Remote(f) => e = f

\* Whatever closes a connection also takes it out of the table: an entry belongs to
\* this node and is open with a read loop on it, so that its end will be noticed,
\* except where a raising handler cut its set-up short.  (Sends on it may raise all
\* the same, after one has: send_to and broadcast pick it until the heartbeat does.)
RegisteredIsServed ==
  \A n \in Node : \A e \in peers[n] :
    /\ Owner(e) = n
    /\ (phase[e] = "reading" /\ open[e]) \/ phase[e] = "abandoned"

\* A node never files itself as a peer, whichever address it dials itself by:
\* the accepting side is the only one to notice, the dialling side relies on it.
NeverOwnPeer ==
  \A n \in Node : \A e \in peers[n] : Remote(e) # n

\* An end whose handler raised and whose entry another connection has replaced, or
\* stop() cleared: no read loop and no purge will ever retract its key.
Leaked(e) == phase[e] = "abandoned" /\ e \notin peers[Owner(e)]

\* What the handler was told of is retracted: for each key announced and not yet
\* retracted there is a read loop left to send the BYE, though the entry itself may
\* have been replaced, purged or popped by another connection's clean-up, or an
\* abandoned entry, left to the purge.  It stays for good, until the process ends,
\* only where the end that announced it is leaked.
AnnouncedHasReader ==
  \A n \in Node : \A k \in announced[n] :
    \E e \in End : /\ Owner(e) = n /\ Key(e) = k
                   /\ \/ phase[e] = "reading"
                      \/ phase[e] = "abandoned" /\ e \in peers[n]
                      \/ Leaked(e)

\* An open connection with a read loop, that its own node does not know of.
Orphan(e) == phase[e] = "reading" /\ open[e] /\ e \notin peers[Owner(e)]

\* The accepting side files a connection under its unique ephemeral port, so no
\* clean-up of another connection, no replacement and no purge leaves it served
\* by a read loop and out of the table.
InboundStaysFiled == \A c \in Conn : ~Orphan(In(c))

\* The inductive invariant.  What the named parts above need besides themselves:
\* an end in use has two nodes and an address, a connection nobody dialled has
\* no end in use, a handshake is on an open socket, and a node that dialled
\* itself is never answered.
UsedIsWired ==
  \A e \in End : phase[e] # "unused" =>
    dialer[e[1]] \in Node /\ acceptor[e[1]] \in Node /\ via[e[1]] \in Address

UndialledIsUnused ==
  \A c \in Conn : dialer[c] = None =>
    acceptor[c] = None /\ phase[Out(c)] = "unused" /\ phase[In(c)] = "unused"

HandshakeIsOpen == \A e \in End : phase[e] = "handshake" => open[e]

SelfDialUnanswered ==
  \A c \in Conn : dialer[c] = acceptor[c] => inbox[Out(c)] = <<>>

IInv ==
  /\ TypeOK
  /\ UsedIsWired /\ UndialledIsUnused /\ HandshakeIsOpen /\ SelfDialUnanswered
  /\ OneEntryPerIdentity /\ RegisteredIsServed /\ NeverOwnPeer
  /\ InboundStaysFiled /\ AnnouncedHasReader

\* tcp.py:139-141: once an identity has connected again, the table holds the
\* live connection.  No read loop serves an open connection that is not filed.
NoOrphanReader == \A e \in End : ~Orphan(e)

\* Nobody is waiting for anything: no handshake, no frame, no end of stream.
Quiescent ==
  \A e \in End : /\ phase[e] # "handshake"
                 /\ phase[e] = "reading" => inbox[e] = <<>> /\ ~EofSeen(e)

\* tcp.py:139-141 again: two nodes that dialled each other at the same time,
\* with nothing failing, are left with a connection.
SimultaneousOpenLinks ==
  Quiescent => \A c, d \in Conn :
    /\ dialer[c] = acceptor[d] /\ dialer[d] = acceptor[c]
    /\ dialer[c] # acceptor[c]
    => \E e \in peers[dialer[c]] : Remote(e) = acceptor[c]

\* An entry whose far side is in no table (the other node replaced, purged or
\* never filed the connection) does not stay while its node runs: it is dropped,
\* or the far side files it.
HalfLinkResolved ==
  \A n \in Node, e \in End :
    e \in HalfLinked(n) ~> (e \notin HalfLinked(n) \/ up[n] # "up")

\* A connection orphaned at the dialling side is closed in the end: nothing but
\* the idle time-out of the accepting side, if that keeps running, sees to it.
OrphanResolved ==
  \A c \in Conn : Orphan(Out(c)) ~> (~Orphan(Out(c)) \/ up[acceptor[c]] # "up")
=============================================================================
