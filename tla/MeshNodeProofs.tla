--------------------------- MODULE MeshNodeProofs ---------------------------
(* Proofs about TCPManager and MeshNode, for all nodes, connections,         *)
(* addresses and messages and every combination of faults.  First the        *)
(* connection tables alone, whose steps are those of TCPManager; then the    *)
(* node: whatever is routed to has a reader, or leaked, and reconnection     *)
(* loops dial one connection at a time and end at the peer, or by a raise.   *)
EXTENDS MeshNode, TLAPS

-----------------------------------------------------------------------------
\* The connection tables: ends and messages

\* Every end is one of the two ends of a connection, and they are distinct.
LEMMA EndCases ==
  ASSUME NEW e \in End
  PROVE  /\ e[1] \in Conn
         /\ (e = Out(e[1]) /\ e[2] = "out") \/ (e = In(e[1]) /\ e[2] = "in")
         /\ Other(e) \in End /\ Other(Other(e)) = e /\ Other(e)[1] = e[1]
BY DEF End, Out, In, Other

\* The two ends of a connection, by name.
LEMMA ConnEnds ==
  ASSUME NEW c \in Conn
  PROVE  /\ Out(c) \in End /\ In(c) \in End /\ Out(c) # In(c)
         /\ Other(Out(c)) = In(c) /\ Other(In(c)) = Out(c)
         /\ Out(c)[1] = c /\ In(c)[1] = c /\ Out(c)[2] = "out" /\ In(c)[2] = "in"
         /\ Owner(Out(c)) = dialer[c] /\ Remote(Out(c)) = acceptor[c]
         /\ Owner(In(c)) = acceptor[c] /\ Remote(In(c)) = dialer[c]
BY DEF End, Out, In, Other, Owner, Remote

\* An end in use belongs to a node and has a key.
LEMMA UsedEnd ==
  ASSUME UsedIsWired, NEW e \in End, phase[e] # "unused"
  PROVE  Owner(e) \in Node /\ Remote(e) \in Node /\ Key(e) \in PeerKey
BY EndCases DEF UsedIsWired, Owner, Remote, Key, PeerKey

\* The key of an accepting end is its own: no other end in use has it.
LEMMA InboundKeyIsUnique ==
  ASSUME UsedIsWired, NEW c \in Conn, NEW e \in End, phase[e] # "unused",
         Key(e) = Key(In(c))
  PROVE  e = In(c)
BY KeysDisjoint, EndCases, ConnEnds DEF UsedIsWired, Key

\* What send() delivers is a message, in the inbox of the far side.
LEMMA DeliverType ==
  ASSUME NEW box \in [End -> Seq(Message)], NEW from, NEW msgs \in Seq(Message)
  PROVE  Deliver(box, from, msgs) \in [End -> Seq(Message)]
BY DEF Deliver

\* A frame taken from an inbox leaves an inbox.
LEMMA TailType ==
  ASSUME NEW box \in [End -> Seq(Message)], NEW e \in End, box[e] # <<>>
  PROVE  [box EXCEPT ![e] = Tail(@)] \in [End -> Seq(Message)]
<1>1. Tail(box[e]) \in Seq(Message)
  OBVIOUS
<1> QED BY <1>1

\* The messages of the protocol are messages.
LEMMA MessageSeqs ==
  /\ \A m \in HelloMsg \cup AckMsg \cup AppMsg : <<m>> \in Seq(Message)
  /\ <<Bye>> \in Seq(Message)
  /\ <<>> \in Seq(Message)
  /\ \A r \in Replies : r \in Seq(Message)
<1>1. \A m \in Message : <<m>> \in Seq(Message)
  OBVIOUS
<1>2. Bye \in Message /\ HelloMsg \cup AckMsg \cup AppMsg \subseteq Message
  BY DEF Message
<1>3. <<>> \in Seq(Message)
  OBVIOUS
<1>4. \A r \in Replies : r \in Seq(Message)
  BY <1>1, <1>2, <1>3 DEF Replies
<1> QED BY <1>1, <1>2, <1>3, <1>4

\* AnnouncedHasReader in fewer words: an abandoned end is either filed or leaked.
HasKeeper ==
  \A n \in Node : \A k \in announced[n] :
    \E e \in End : phase[e] \in {"reading", "abandoned"} /\ Owner(e) = n /\ Key(e) = k

LEMMA Keepers ==
  (AnnouncedHasReader <=> HasKeeper) /\ (AnnouncedHasReader' <=> HasKeeper')
BY DEF AnnouncedHasReader, HasKeeper, Leaked

-----------------------------------------------------------------------------
\* The initial states

\* No connection, no entry: the invariant holds.
LEMMA InitIInv == Init => IInv
<1> SUFFICES ASSUME Init PROVE IInv
  OBVIOUS
<1>1. \A c \in Conn : Out(c) \in End /\ In(c) \in End
  BY ConnEnds
<1>2. TypeOK
  BY DEF Init, TypeOK, Phase
<1>3. UsedIsWired /\ UndialledIsUnused
  BY <1>1 DEF Init, UsedIsWired, UndialledIsUnused
<1>6. HandshakeIsOpen /\ SelfDialUnanswered
  BY <1>1 DEF Init, HandshakeIsOpen, SelfDialUnanswered
<1>4. OneEntryPerIdentity /\ RegisteredIsServed /\ NeverOwnPeer
  BY DEF Init, OneEntryPerIdentity, RegisteredIsServed, NeverOwnPeer
<1>5. InboundStaysFiled /\ AnnouncedHasReader
  BY <1>1, Keepers DEF Init, InboundStaysFiled, Orphan, HasKeeper
<1> QED BY <1>2, <1>3, <1>4, <1>5, <1>6 DEF IInv

-----------------------------------------------------------------------------
\* Steps that change no wiring and file nothing

\* Who owns an end, and its key, depend on the wiring only.
LEMMA SameWiring ==
  ASSUME UNCHANGED wiring, NEW e
  PROVE  Owner(e)' = Owner(e) /\ Remote(e)' = Remote(e) /\ Key(e)' = Key(e)
BY DEF wiring, Owner, Remote, Key

\* A step that only moves frames, between ends of different nodes, or fails to, and
\* lets the handler be told of BYEs, keeps the invariant.
LEMMA FramesStep ==
  ASSUME IInv, UNCHANGED <<up, wiring, phase, open, peers>>, failed' \in SUBSET End,
         inbox' \in [End -> Seq(Message)], SelfDialUnanswered',
         announced' \in [Node -> SUBSET PeerKey],
         \A n \in Node : announced'[n] \subseteq announced[n]
  PROVE  IInv'
<1> USE DEF IInv
<1>1. \A e : Owner(e)' = Owner(e) /\ Remote(e)' = Remote(e) /\ Key(e)' = Key(e)
  BY SameWiring
<1>2. TypeOK'
  BY DEF TypeOK, wiring
<1>3. UsedIsWired' /\ UndialledIsUnused' /\ HandshakeIsOpen'
  BY DEF UsedIsWired, UndialledIsUnused, HandshakeIsOpen, wiring
<1>4. OneEntryPerIdentity' /\ RegisteredIsServed' /\ NeverOwnPeer'
  BY <1>1 DEF OneEntryPerIdentity, RegisteredIsServed, NeverOwnPeer
<1>5. InboundStaysFiled'
  BY <1>1, Keepers DEF InboundStaysFiled, Orphan
<1>6. AnnouncedHasReader'
  BY <1>1, Keepers DEF HasKeeper
<1> QED BY <1>2, <1>3, <1>4, <1>5, <1>6

\* A node's own table never holds an end of a connection it dialled to itself.
LEMMA SelfDialNotFiled ==
  ASSUME RegisteredIsServed, NeverOwnPeer, NEW n \in Node, NEW c \in Conn,
         dialer[c] = acceptor[c]
  PROVE  Out(c) \notin peers[n] /\ In(c) \notin peers[n]
BY ConnEnds DEF RegisteredIsServed, NeverOwnPeer

\* Sending to filed ends answers no connection of a node with itself.
LEMMA SendKeepsSelfDial ==
  ASSUME RegisteredIsServed, NeverOwnPeer, SelfDialUnanswered, UNCHANGED wiring,
         NEW n \in Node, NEW from \in SUBSET peers[n], NEW msgs,
         inbox' = Deliver(inbox, from, msgs)
  PROVE  SelfDialUnanswered'
<1> SUFFICES ASSUME NEW c \in Conn, dialer[c] = acceptor[c]
             PROVE  inbox'[Out(c)] = <<>>
  BY DEF SelfDialUnanswered, wiring
<1>1. In(c) \notin from /\ Other(Out(c)) = In(c) /\ Out(c) \in End
  BY SelfDialNotFiled, ConnEnds
<1> QED BY <1>1 DEF Deliver, SelfDialUnanswered

\* SendTo and Broadcast keep the invariant.
LEMMA SendStep ==
  ASSUME IInv, NEW n \in Node, NEW e \in End, NEW msg \in AppMsg, NEW exclude,
         SendTo(n, e, msg) \/ Broadcast(n, exclude, msg)
  PROVE  IInv'
<1>1. PICK from \in SUBSET peers[n] : inbox' = Deliver(inbox, from, <<msg>>)
  BY DEF SendTo, Broadcast
<1>2. UNCHANGED <<up, wiring, phase, open, peers, announced>>
  BY DEF SendTo, Broadcast
<1>5. failed' \in SUBSET End
  BY DEF SendTo, Broadcast, IInv, TypeOK
<1>3. inbox' \in [End -> Seq(Message)]
  BY <1>1, DeliverType, MessageSeqs DEF IInv, TypeOK
<1>4. SelfDialUnanswered'
  BY <1>1, <1>2, SendKeepsSelfDial DEF IInv
<1> QED BY <1>2, <1>3, <1>4, <1>5, FramesStep DEF IInv, TypeOK

\* A send that raises keeps the invariant.
LEMMA SendFailsStep ==
  ASSUME IInv, NEW n \in Node, NEW e \in End, SendFails(n, e)
  PROVE  IInv'
<1>1. UNCHANGED <<up, wiring, phase, open, peers, announced, inbox>>
  BY DEF SendFails
<1>2. failed' \in SUBSET End
  BY DEF SendFails, IInv, TypeOK
<1>3. inbox' \in [End -> Seq(Message)] /\ SelfDialUnanswered'
  BY <1>1 DEF IInv, TypeOK, SelfDialUnanswered, wiring
<1> QED BY <1>1, <1>2, <1>3, FramesStep DEF IInv, TypeOK

\* Read keeps the invariant: the key a BYE retracts is no longer announced.
LEMMA ReadStep ==
  ASSUME IInv, NEW e \in End, Read(e)
  PROVE  IInv'
<1>1. inbox' \in [End -> Seq(Message)]
  BY TailType DEF Read, IInv, TypeOK
<1>2. SelfDialUnanswered'
  BY ConnEnds DEF Read, IInv, TypeOK, SelfDialUnanswered, wiring
<1>3. /\ announced' \in [Node -> SUBSET PeerKey]
      /\ \A n \in Node : announced'[n] \subseteq announced[n]
  BY DEF Read, IInv, TypeOK
<1>4. failed' \in SUBSET End
  BY DEF Read, IInv, TypeOK
<1> QED BY <1>1, <1>2, <1>3, <1>4, FramesStep DEF Read

-----------------------------------------------------------------------------
\* Handshakes

\* Dial keeps the invariant: it touches no end in use.
LEMMA DialStep ==
  ASSUME IInv, NEW n \in Node, NEW m \in Node, NEW a \in Address, NEW c \in Conn,
         NEW hello \in HelloMsg, Dial(n, m, a, c, hello)
  PROVE  IInv'
<1> USE DEF IInv
<1>1. \A e \in End : phase[e] # "unused" =>
        /\ e # Out(c) /\ e # In(c) /\ phase'[e] = phase[e]
        /\ open'[e] = open[e] /\ inbox'[e] = inbox[e]
        /\ Owner(e)' = Owner(e) /\ Remote(e)' = Remote(e) /\ Key(e)' = Key(e)
  <2> SUFFICES ASSUME NEW e \in End, phase[e] # "unused"
               PROVE  /\ e # Out(c) /\ e # In(c) /\ phase'[e] = phase[e]
                      /\ open'[e] = open[e] /\ inbox'[e] = inbox[e]
                      /\ Owner(e)' = Owner(e) /\ Remote(e)' = Remote(e)
                      /\ Key(e)' = Key(e)
    OBVIOUS
  <2>1. e[1] \in Conn /\ e[1] # c /\ e # Out(c) /\ e # In(c)
    BY EndCases, ConnEnds DEF Dial, UndialledIsUnused
  <2>2. phase'[e] = phase[e] /\ open'[e] = open[e] /\ inbox'[e] = inbox[e]
    BY <2>1 DEF Dial, TypeOK
  <2>3. /\ dialer'[e[1]] = dialer[e[1]] /\ acceptor'[e[1]] = acceptor[e[1]]
        /\ via'[e[1]] = via[e[1]]
    BY <2>1 DEF Dial, TypeOK
  <2> QED BY <2>1, <2>2, <2>3 DEF Owner, Remote, Key
<1>2. \A d \in Conn : d # c =>
        /\ dialer'[d] = dialer[d] /\ acceptor'[d] = acceptor[d]
        /\ phase'[Out(d)] = phase[Out(d)] /\ phase'[In(d)] = phase[In(d)]
        /\ inbox'[Out(d)] = inbox[Out(d)]
  <2> SUFFICES ASSUME NEW d \in Conn, d # c
               PROVE  /\ dialer'[d] = dialer[d] /\ acceptor'[d] = acceptor[d]
                      /\ phase'[Out(d)] = phase[Out(d)]
                      /\ phase'[In(d)] = phase[In(d)]
                      /\ inbox'[Out(d)] = inbox[Out(d)]
    OBVIOUS
  <2>1. {Out(d), In(d)} \subseteq End /\ {Out(d), In(d)} \cap {Out(c), In(c)} = {}
    BY ConnEnds
  <2> QED BY <2>1 DEF Dial, TypeOK
<1>3. TypeOK'
  <2>1. <<hello>> \in Seq(Message)
    BY MessageSeqs
  <2> QED BY <2>1 DEF Dial, TypeOK, Phase
<1>4. UsedIsWired'
  BY EndCases, ConnEnds DEF Dial, TypeOK, UsedIsWired
<1>5. UndialledIsUnused'
  <2>1. dialer'[c] = n
    BY DEF Dial, TypeOK
  <2> QED BY <1>2, <2>1, NoneIsNoNode DEF UndialledIsUnused
<1>6. HandshakeIsOpen'
  BY ConnEnds DEF Dial, TypeOK, HandshakeIsOpen
<1>7. SelfDialUnanswered'
  <2>1. inbox'[Out(c)] = inbox[Out(c)]
    BY ConnEnds DEF Dial, TypeOK
  <2>2. inbox[Out(c)] = <<>>
    BY DEF UndialledIsUnused, SelfDialUnanswered, Dial
  <2> QED BY <1>2, <2>1, <2>2 DEF SelfDialUnanswered
<1>8. OneEntryPerIdentity' /\ RegisteredIsServed' /\ NeverOwnPeer'
  <2>1. \A p \in Node : peers'[p] = peers[p] /\ peers[p] \subseteq End
    BY DEF Dial, TypeOK
  <2>2. \A p \in Node : \A e \in peers[p] : phase[e] # "unused"
    BY DEF RegisteredIsServed
  <2> QED BY <1>1, <2>1, <2>2
          DEF OneEntryPerIdentity, RegisteredIsServed, NeverOwnPeer
<1>9. InboundStaysFiled'
  BY <1>1, ConnEnds DEF Dial, TypeOK, InboundStaysFiled, Orphan
<1>10. AnnouncedHasReader'
  <2>1. announced' = announced
    BY DEF Dial
  <2> QED BY <1>1, <2>1, Keepers DEF HasKeeper
<1> QED BY <1>3, <1>4, <1>5, <1>6, <1>7, <1>8, <1>9, <1>10

\* An end whose handshake fails was in no table.
LEMMA HandshakeOverStep ==
  ASSUME IInv, NEW e \in End, phase[e] = "handshake", HandshakeOver(e)
  PROVE  IInv'
<1> USE DEF IInv
<1>1. \A f : Owner(f)' = Owner(f) /\ Remote(f)' = Remote(f) /\ Key(f)' = Key(f)
  BY SameWiring DEF HandshakeOver
<1>2. /\ \A f \in End : f # e => phase'[f] = phase[f] /\ open'[f] = open[f]
      /\ phase'[e] = "done" /\ ~open'[e]
      /\ UNCHANGED <<up, wiring, peers, announced>>
  BY DEF HandshakeOver, TypeOK, Closes, Closed
<1>3. TypeOK'
  BY MessageSeqs DEF HandshakeOver, TypeOK, Phase, Closes, Closed, wiring
<1>4. UsedIsWired' /\ UndialledIsUnused' /\ HandshakeIsOpen'
  BY <1>2, ConnEnds DEF UsedIsWired, UndialledIsUnused, HandshakeIsOpen, wiring
<1>5. SelfDialUnanswered'
  BY ConnEnds DEF HandshakeOver, TypeOK, SelfDialUnanswered, wiring
<1>6. OneEntryPerIdentity' /\ RegisteredIsServed' /\ NeverOwnPeer'
  BY <1>1, <1>2 DEF TypeOK, OneEntryPerIdentity, RegisteredIsServed, NeverOwnPeer
<1>7. InboundStaysFiled'
  BY <1>1, <1>2, ConnEnds DEF InboundStaysFiled, Orphan
<1>8. AnnouncedHasReader'
  BY <1>1, <1>2, Keepers DEF HasKeeper
<1> QED BY <1>3, <1>4, <1>5, <1>6, <1>7, <1>8

\* A dial cut short leaves an end nobody serves, but none in a table.
LEMMA DialCutStep ==
  ASSUME IInv, NEW c \in Conn, NEW closes \in BOOLEAN, DialCut(c, closes),
         inbox' = inbox \/ inbox' = [inbox EXCEPT ![In(c)] = <<>>]
  PROVE  IInv'
<1> USE DEF IInv
<1> DEFINE e == Out(c)
<1>1. \A f : Owner(f)' = Owner(f) /\ Remote(f)' = Remote(f) /\ Key(f)' = Key(f)
  BY SameWiring DEF DialCut
<1>2. /\ e \in End /\ phase[e] = "handshake"
      /\ \A f \in End : f # e => phase'[f] = phase[f] /\ open'[f] = open[f]
      /\ phase'[e] = "cut"
      /\ UNCHANGED <<up, wiring, peers, announced>>
  BY ConnEnds DEF DialCut, TypeOK, Closes, Closed
<1>3. TypeOK'
  BY MessageSeqs DEF DialCut, TypeOK, Phase, Closes, Closed, wiring
<1>4. UsedIsWired' /\ UndialledIsUnused' /\ HandshakeIsOpen'
  BY <1>2, ConnEnds DEF UsedIsWired, UndialledIsUnused, HandshakeIsOpen, wiring
<1>5. SelfDialUnanswered'
  BY <1>2, ConnEnds DEF SelfDialUnanswered, TypeOK, wiring
<1>6. OneEntryPerIdentity' /\ RegisteredIsServed' /\ NeverOwnPeer'
  BY <1>1, <1>2 DEF TypeOK, OneEntryPerIdentity, RegisteredIsServed, NeverOwnPeer
<1>7. InboundStaysFiled'
  BY <1>1, <1>2, ConnEnds DEF InboundStaysFiled, Orphan
<1>8. AnnouncedHasReader'
  BY <1>1, <1>2, Keepers DEF HasKeeper
<1> QED BY <1>3, <1>4, <1>5, <1>6, <1>7, <1>8

\* Filing an end whose handshake is complete keeps the invariant: the one stale
\* entry of that identity is closed and replaced, and no accepting end loses
\* its place.
LEMMA EnrolStep ==
  ASSUME IInv, NEW e \in End, NEW stale, NEW raised \in BOOLEAN, NEW closing,
         phase[e] = "handshake", Owner(e) # Remote(e),
         IsStaleChoice(Owner(e), Remote(e), stale), Enrol(e, stale, raised),
         open' = Closed(closing), failed' \in SUBSET End, UNCHANGED <<up, wiring>>,
         closing = stale \/ (raised /\ closing = stale \cup {e}),
         inbox' \in [End -> Seq(Message)], SelfDialUnanswered'
  PROVE  IInv'
<1> USE DEF IInv
<1> DEFINE n == Owner(e)
<1>1. \A f : Owner(f)' = Owner(f) /\ Remote(f)' = Remote(f) /\ Key(f)' = Key(f)
  BY SameWiring
<1>2. n \in Node /\ Remote(e) \in Node /\ Key(e) \in PeerKey
  BY UsedEnd
<1>3. \A p \in Node : e \notin peers[p]
  BY DEF RegisteredIsServed
<1>4. stale = {f \in peers[n] : Remote(f) = Remote(e)}
  BY <1>2 DEF IsStaleChoice, OneEntryPerIdentity
<1>5. stale \subseteq peers[n] /\ e \notin stale
  BY <1>2, <1>3, <1>4
<1>6. /\ peers'[n] = {f \in peers[n] \ stale : Key(f) # Key(e)} \cup {e}
      /\ \A p \in Node : p # n => peers'[p] = peers[p]
      /\ announced'[n] = announced[n] \cup {Key(e)}
      /\ \A p \in Node : p # n => announced'[p] = announced[p]
  BY <1>2 DEF Enrol, TypeOK
<1>7. /\ \A f \in End : f # e => phase'[f] = phase[f]
      /\ phase'[e] = IF raised THEN "abandoned" ELSE "reading"
  BY DEF Enrol, TypeOK
<1>8. /\ \A f \in End : f \notin stale /\ f # e => open'[f] = open[f]
      /\ \A f \in stale : f \in End => ~open'[f]
      /\ ~raised => open'[e]
  BY <1>5 DEF Closed, HandshakeIsOpen
<1>9. \A p \in Node : p # n => peers[p] \cap stale = {}
  BY <1>2, <1>5 DEF RegisteredIsServed
<1>10. TypeOK'
  BY <1>2 DEF Enrol, TypeOK, Phase, Closed, wiring
<1>11. UsedIsWired' /\ UndialledIsUnused' /\ HandshakeIsOpen'
  <2>1. UsedIsWired'
    BY <1>7 DEF UsedIsWired, wiring
  <2>2. UndialledIsUnused'
    <3> SUFFICES ASSUME NEW c \in Conn, dialer[c] = None
                 PROVE  /\ acceptor[c] = None
                        /\ phase'[Out(c)] = "unused" /\ phase'[In(c)] = "unused"
      BY DEF UndialledIsUnused, wiring
    <3>1. /\ Out(c) \in End /\ In(c) \in End /\ acceptor[c] = None
          /\ phase[Out(c)] = "unused" /\ phase[In(c)] = "unused"
      BY ConnEnds DEF UndialledIsUnused
    <3> QED BY <1>7, <3>1
  <2>3. \A f \in End : phase[f] = "handshake" => f \notin stale
    BY <1>2, <1>5 DEF RegisteredIsServed
  <2>4. HandshakeIsOpen'
    BY <1>7, <1>8, <2>3 DEF HandshakeIsOpen
  <2> QED BY <2>1, <2>2, <2>4
<1>12. OneEntryPerIdentity'
  BY <1>1, <1>4, <1>6 DEF OneEntryPerIdentity
<1>13. RegisteredIsServed'
  <2> SUFFICES ASSUME NEW p \in Node, NEW f \in peers'[p]
               PROVE  /\ Owner(f) = p
                      /\ (phase'[f] = "reading" /\ open'[f]) \/ phase'[f] = "abandoned"
    BY <1>1 DEF RegisteredIsServed
  <2>1. CASE f = e
    <3>1. p = n
      BY <1>3, <1>6, <2>1
    <3> QED BY <3>1, <1>7, <1>8, <2>1
  <2>2. CASE f # e
    <3>1. f \in peers[p] /\ f \notin stale
      BY <1>6, <1>9, <2>2
    <3>2. f \in End
      BY <3>1 DEF TypeOK
    <3> QED BY <3>1, <3>2, <1>7, <1>8, <2>2 DEF RegisteredIsServed
  <2> QED BY <2>1, <2>2
<1>14. NeverOwnPeer'
  BY <1>1, <1>2, <1>6 DEF NeverOwnPeer
<1>15. InboundStaysFiled'
  <2> SUFFICES ASSUME NEW c \in Conn, phase'[In(c)] = "reading", open'[In(c)]
               PROVE  In(c) \in peers'[Owner(In(c))]
    BY <1>1 DEF InboundStaysFiled, Orphan
  <2>1. In(c) \in End
    BY ConnEnds
  <2>2. CASE In(c) = e
    BY <1>6, <2>2
  <2>3. CASE In(c) # e
    <3>1. In(c) \notin stale /\ phase[In(c)] = "reading" /\ open[In(c)]
      BY <1>7, <1>8, <2>1, <2>3
    <3>2. In(c) \in peers[Owner(In(c))] /\ Owner(In(c)) \in Node
      BY <2>1, <3>1, UsedEnd DEF InboundStaysFiled, Orphan
    <3>3. Key(In(c)) # Key(e)
      BY <2>3, InboundKeyIsUnique
    <3> QED BY <1>6, <3>1, <3>2, <3>3
  <2> QED BY <2>2, <2>3
<1>16. AnnouncedHasReader'
  <2> SUFFICES ASSUME NEW p \in Node, NEW k \in announced'[p]
               PROVE  \E f \in End : /\ phase'[f] \in {"reading", "abandoned"}
                                     /\ Owner(f) = p /\ Key(f) = k
    BY <1>1, Keepers DEF HasKeeper
  <2>1. CASE p = n /\ k = Key(e)
    BY <1>7, <2>1
  <2>2. CASE k \in announced[p]
    <3>1. PICK f \in End : /\ phase[f] \in {"reading", "abandoned"}
                           /\ Owner(f) = p /\ Key(f) = k
      BY <2>2, Keepers DEF HasKeeper
    <3> QED BY <3>1, <1>7
  <2> QED BY <1>6, <2>1, <2>2
<1> QED BY <1>10, <1>11, <1>12, <1>13, <1>14, <1>15, <1>16

\* AcceptHello keeps the invariant.
LEMMA AcceptHelloStep ==
  ASSUME IInv, NEW c \in Conn, NEW stale, NEW reply \in Replies,
         NEW unsent \in BOOLEAN, NEW raised \in BOOLEAN,
         AcceptHello(c, stale, reply, unsent, raised)
  PROVE  IInv'
<1> DEFINE e == In(c)
           box == [inbox EXCEPT ![e] = Tail(@)]
           closing == IF raised THEN stale \cup {e} ELSE stale
<1>1. /\ e \in End /\ Out(c) \in End /\ Out(c) # e
      /\ phase[e] = "handshake" /\ inbox[e] # <<>> /\ Owner(e) # Remote(e)
  BY ConnEnds DEF AcceptHello, SelfDialled
<1>2. /\ IsStaleChoice(Owner(e), Remote(e), stale) /\ Enrol(e, stale, raised)
      /\ open' = Closed(closing) /\ UNCHANGED <<up, wiring>>
      /\ inbox' = Deliver(box, {e}, reply)
  BY DEF AcceptHello, SelfDialled
<1>7. failed' \in SUBSET End
  BY <1>1 DEF AcceptHello, IInv, TypeOK
<1>3. box \in [End -> Seq(Message)]
  BY <1>1, TailType DEF IInv, TypeOK
<1>4. inbox' \in [End -> Seq(Message)]
  BY <1>2, <1>3, DeliverType, MessageSeqs
<1>5. SelfDialUnanswered'
  <2> SUFFICES ASSUME NEW d \in Conn, dialer[d] = acceptor[d]
               PROVE  inbox'[Out(d)] = <<>>
    BY <1>2 DEF SelfDialUnanswered, wiring
  <2>1. Out(d) \in End /\ Out(d) # e /\ Other(Out(d)) = In(d) /\ In(d) # e
    BY <1>1, ConnEnds
  <2>2. box[Out(d)] = <<>>
    BY <2>1 DEF IInv, TypeOK, SelfDialUnanswered
  <2> QED BY <1>2, <2>1, <2>2 DEF Deliver
<1> HIDE DEF e, box, closing
<1>6. closing = stale \/ (raised /\ closing = stale \cup {e})
  BY DEF closing
<1> QED BY <1>1, <1>2, <1>4, <1>5, <1>6, <1>7, EnrolStep

\* RecvAck keeps the invariant: an answered dial is not one of the node itself.
LEMMA RecvAckStep ==
  ASSUME IInv, NEW c \in Conn, NEW stale, NEW raised \in BOOLEAN,
         RecvAck(c, stale, raised)
  PROVE  IInv'
<1> DEFINE e == Out(c)
<1>1. e \in End /\ phase[e] = "handshake" /\ inbox[e] # <<>>
  BY ConnEnds DEF RecvAck
<1>2. Owner(e) # Remote(e)
  BY <1>1, ConnEnds DEF IInv, SelfDialUnanswered
<1>3. /\ IsStaleChoice(Owner(e), Remote(e), stale) /\ Enrol(e, stale, raised)
      /\ open' = Closed(stale) /\ UNCHANGED <<up, wiring>>
      /\ inbox' = [inbox EXCEPT ![e] = Tail(@)]
      /\ failed' \in SUBSET End
  BY DEF RecvAck, Closes, IInv, TypeOK
<1>4. inbox' \in [End -> Seq(Message)]
  BY <1>1, <1>3, TailType DEF IInv, TypeOK
<1>5. SelfDialUnanswered'
  <2> SUFFICES ASSUME NEW d \in Conn, dialer[d] = acceptor[d]
               PROVE  inbox'[Out(d)] = <<>>
    BY <1>3 DEF SelfDialUnanswered, wiring
  <2>1. inbox[Out(d)] = <<>> /\ Out(d) \in End
    BY ConnEnds DEF IInv, SelfDialUnanswered
  <2> QED BY <1>1, <1>3, <2>1 DEF IInv, TypeOK
<1> HIDE DEF e
<1> QED BY <1>1, <1>2, <1>3, <1>4, <1>5, EnrolStep

-----------------------------------------------------------------------------
\* Clean-ups

\* The end of a read loop keeps the invariant, although it pops by key: the
\* entry it pops is that of the same dialled address, never an accepting end
\* other than its own.
LEMMA EndLoopStep ==
  ASSUME IInv, NEW e \in End, phase[e] = "reading", EndLoop(e)
  PROVE  IInv'
<1> USE DEF IInv
<1> DEFINE n == Owner(e)
<1>1. \A f : Owner(f)' = Owner(f) /\ Remote(f)' = Remote(f) /\ Key(f)' = Key(f)
  BY SameWiring DEF EndLoop
<1>2. n \in Node
  BY UsedEnd
<1>3. /\ \A f \in End : f # e => phase'[f] = phase[f] /\ open'[f] = open[f]
      /\ phase'[e] = "done" /\ ~open'[e] /\ UNCHANGED <<up, wiring>>
  BY DEF EndLoop, TypeOK, Closes, Closed
<1>4. /\ peers'[n] = {f \in peers[n] : Key(f) # Key(e)}
      /\ \A p \in Node : p # n => peers'[p] = peers[p]
      /\ announced'[n] = announced[n] \ {Key(e)}
      /\ \A p \in Node : p # n => announced'[p] = announced[p]
  BY <1>2 DEF EndLoop, TypeOK
<1>5. \A p \in Node : peers'[p] \subseteq peers[p] \ {e}
  BY <1>4 DEF RegisteredIsServed
<1>6. TypeOK'
  BY MessageSeqs DEF EndLoop, TypeOK, Phase, Closes, Closed, wiring
<1>7. UsedIsWired' /\ UndialledIsUnused' /\ HandshakeIsOpen'
  BY <1>3, ConnEnds DEF UsedIsWired, UndialledIsUnused, HandshakeIsOpen, wiring
<1>8. SelfDialUnanswered'
  BY ConnEnds DEF EndLoop, TypeOK, SelfDialUnanswered, wiring
<1>9. OneEntryPerIdentity' /\ NeverOwnPeer'
  BY <1>1, <1>5 DEF OneEntryPerIdentity, NeverOwnPeer
<1>10. RegisteredIsServed'
  BY <1>1, <1>3, <1>5 DEF TypeOK, RegisteredIsServed
<1>11. InboundStaysFiled'
  <2> SUFFICES ASSUME NEW c \in Conn, phase'[In(c)] = "reading", open'[In(c)]
               PROVE  In(c) \in peers'[Owner(In(c))]
    BY <1>1 DEF InboundStaysFiled, Orphan
  <2>1. /\ In(c) \in End /\ In(c) # e
        /\ phase[In(c)] = "reading" /\ open[In(c)]
    BY <1>3, ConnEnds
  <2>2. In(c) \in peers[Owner(In(c))] /\ Owner(In(c)) \in Node
    BY <2>1, UsedEnd DEF InboundStaysFiled, Orphan
  <2>3. Key(In(c)) # Key(e)
    BY <2>1, InboundKeyIsUnique
  <2> QED BY <1>4, <2>2, <2>3
<1>12. AnnouncedHasReader'
  <2> SUFFICES ASSUME NEW p \in Node, NEW k \in announced'[p]
               PROVE  \E f \in End : /\ phase'[f] \in {"reading", "abandoned"}
                                     /\ Owner(f) = p /\ Key(f) = k
    BY <1>1, Keepers DEF HasKeeper
  <2>1. k \in announced[p] /\ ~(p = n /\ k = Key(e))
    BY <1>4
  <2>2. PICK f \in End : /\ phase[f] \in {"reading", "abandoned"}
                         /\ Owner(f) = p /\ Key(f) = k
    BY <2>1, Keepers DEF HasKeeper
  <2> QED BY <1>3, <2>1, <2>2
<1> QED BY <1>6, <1>7, <1>8, <1>9, <1>10, <1>11, <1>12

\* A round of heartbeats keeps the invariant: what it purges, it closes.
LEMMA HeartbeatStep ==
  ASSUME IInv, NEW n \in Node, NEW idle \in SUBSET peers[n], Heartbeat(n, idle)
  PROVE  IInv'
<1> USE DEF IInv
<1> DEFINE dead == Dead(n, idle)
<1>1. \A f : Owner(f)' = Owner(f) /\ Remote(f)' = Remote(f) /\ Key(f)' = Key(f)
  BY SameWiring DEF Heartbeat
<1>2. dead \subseteq peers[n] /\ dead \subseteq End
  BY DEF TypeOK, Dead
<1>3. /\ UNCHANGED <<up, wiring, inbox>> /\ open' = Closed(dead)
      /\ \A f \in End : phase'[f] = IF f \in dead /\ phase[f] = "abandoned"
                                   THEN "done" ELSE phase[f]
  BY DEF Heartbeat, Closes
<1>4. /\ peers'[n] = peers[n] \ dead
      /\ \A p \in Node : p # n => peers'[p] = peers[p]
      /\ \A p \in Node : announced'[p] \subseteq announced[p]
  BY DEF Heartbeat, TypeOK
<1>5. TypeOK'
  BY DEF Heartbeat, TypeOK, Phase, Closes, Closed, wiring
<1>11. \A k : k \in announced'[n] => k \in announced[n] /\ \A f \in dead : Key(f) # k
  BY DEF Heartbeat, TypeOK
<1> HIDE DEF dead
<1>6. UsedIsWired' /\ UndialledIsUnused' /\ HandshakeIsOpen' /\ SelfDialUnanswered'
  <2>1. HandshakeIsOpen'
    BY <1>2, <1>3 DEF HandshakeIsOpen, RegisteredIsServed, Closed
  <2>2. UsedIsWired' /\ SelfDialUnanswered'
    BY <1>3 DEF UsedIsWired, SelfDialUnanswered, wiring
  <2>3. UndialledIsUnused'
    BY <1>3, ConnEnds DEF UndialledIsUnused, wiring
  <2> QED BY <2>1, <2>2, <2>3
<1>7. OneEntryPerIdentity' /\ NeverOwnPeer'
  BY <1>1, <1>4 DEF OneEntryPerIdentity, NeverOwnPeer
<1>8. RegisteredIsServed'
  <2> SUFFICES ASSUME NEW p \in Node, NEW f \in peers'[p]
               PROVE  /\ Owner(f) = p
                      /\ (phase'[f] = "reading" /\ open'[f]) \/ phase'[f] = "abandoned"
    BY <1>1 DEF RegisteredIsServed
  <2>1. f \in peers[p] /\ f \in End /\ f \notin dead
    BY <1>2, <1>4 DEF TypeOK, RegisteredIsServed
  <2>2. phase'[f] = phase[f] /\ open'[f] = open[f]
    BY <1>3, <2>1 DEF Closed
  <2> QED BY <2>1, <2>2 DEF RegisteredIsServed
<1>9. InboundStaysFiled'
  <2> SUFFICES ASSUME NEW c \in Conn, phase'[In(c)] = "reading", open'[In(c)]
               PROVE  In(c) \in peers'[Owner(In(c))]
    BY <1>1 DEF InboundStaysFiled, Orphan
  <2>1. In(c) \in End /\ phase[In(c)] = "reading" /\ open[In(c)] /\ In(c) \notin dead
    BY <1>3, ConnEnds DEF Closed
  <2>2. In(c) \in peers[Owner(In(c))] /\ Owner(In(c)) \in Node
    BY <2>1, UsedEnd DEF InboundStaysFiled, Orphan
  <2> QED BY <1>4, <2>1, <2>2
<1>10. AnnouncedHasReader'
  <2> SUFFICES ASSUME NEW p \in Node, NEW k \in announced'[p]
               PROVE  \E f \in End : /\ phase'[f] \in {"reading", "abandoned"}
                                     /\ Owner(f) = p /\ Key(f) = k
    BY <1>1, Keepers DEF HasKeeper
  <2>1. k \in announced[p]
    BY <1>4
  <2>2. PICK f \in End : /\ phase[f] \in {"reading", "abandoned"}
                         /\ Owner(f) = p /\ Key(f) = k
    BY <2>1, Keepers DEF HasKeeper
  <2>3. f \notin dead
    BY <1>2, <1>11, <2>2 DEF RegisteredIsServed
  <2> QED BY <1>3, <2>2, <2>3
<1> QED BY <1>5, <1>6, <1>7, <1>8, <1>9, <1>10

-----------------------------------------------------------------------------
\* Life cycle

\* stop() keeps the invariant: it closes all that it takes out of the table.
LEMMA StopStep ==
  ASSUME IInv, NEW n \in Node, Stop(n)
  PROVE  IInv'
<1> USE DEF IInv
<1>1. \A f : Owner(f)' = Owner(f) /\ Remote(f)' = Remote(f) /\ Key(f)' = Key(f)
  BY SameWiring DEF Stop
<1>2. /\ UNCHANGED <<wiring, phase, announced>> /\ open' = Closed(peers[n])
      /\ peers'[n] = {} /\ \A p \in Node : p # n => peers'[p] = peers[p]
      /\ inbox' = Deliver(inbox, peers[n], <<Bye>>)
  BY DEF Stop, TypeOK, Closes
<1>3. TypeOK'
  <2>1. inbox' \in [End -> Seq(Message)]
    BY <1>2, DeliverType, MessageSeqs DEF TypeOK
  <2> QED BY <2>1 DEF Stop, TypeOK, Closes, Closed, wiring
<1>4. UsedIsWired' /\ UndialledIsUnused' /\ HandshakeIsOpen'
  <2>1. HandshakeIsOpen'
    BY <1>2 DEF HandshakeIsOpen, RegisteredIsServed, Closed
  <2> QED BY <1>2, <2>1 DEF UsedIsWired, UndialledIsUnused, wiring
<1>5. SelfDialUnanswered'
  BY <1>2, SendKeepsSelfDial
<1>6. OneEntryPerIdentity' /\ NeverOwnPeer'
  BY <1>1, <1>2 DEF OneEntryPerIdentity, NeverOwnPeer
<1>7. RegisteredIsServed'
  BY <1>1, <1>2 DEF TypeOK, RegisteredIsServed, Closed
<1>8. InboundStaysFiled'
  <2> SUFFICES ASSUME NEW c \in Conn, phase'[In(c)] = "reading", open'[In(c)]
               PROVE  In(c) \in peers'[Owner(In(c))]
    BY <1>1 DEF InboundStaysFiled, Orphan
  <2>1. /\ In(c) \in End /\ phase[In(c)] = "reading" /\ open[In(c)]
        /\ In(c) \notin peers[n]
    BY <1>2, ConnEnds DEF Closed
  <2>2. In(c) \in peers[Owner(In(c))] /\ Owner(In(c)) \in Node
    BY <2>1, UsedEnd DEF InboundStaysFiled, Orphan
  <2> QED BY <1>2, <2>1, <2>2
<1>9. AnnouncedHasReader'
  BY <1>1, <1>2, Keepers DEF HasKeeper
<1> QED BY <1>3, <1>4, <1>5, <1>6, <1>7, <1>8, <1>9

\* The end of a process keeps the invariant: it takes all its ends with it.
LEMMA ExitStep ==
  ASSUME IInv, NEW n \in Node, Exit(n)
  PROVE  IInv'
<1> USE DEF IInv
<1> DEFINE mine == {e \in End : phase[e] # "unused" /\ Owner(e) = n}
<1>1. \A f : Owner(f)' = Owner(f) /\ Remote(f)' = Remote(f) /\ Key(f)' = Key(f)
  BY SameWiring DEF Exit
<1>2. UNCHANGED wiring /\ open' = Closed(mine)
  BY DEF Exit, Closes
<1>3. /\ \A f \in End : phase'[f] = IF f \in mine THEN "done" ELSE phase[f]
      /\ \A f \in End : inbox'[f] = IF f \in mine THEN <<>> ELSE inbox[f]
      /\ \A f \in End : open'[f] = IF f \in mine THEN FALSE ELSE open[f]
  BY DEF Exit, Closes, Closed
<1>4. /\ peers'[n] = {} /\ \A p \in Node : p # n => peers'[p] = peers[p]
      /\ announced'[n] = {} /\ \A p \in Node : p # n => announced'[p] = announced[p]
  BY DEF Exit, TypeOK
<1>5. TypeOK'
  BY MessageSeqs DEF Exit, TypeOK, Phase, Closes, Closed, wiring
<1>6. UsedIsWired' /\ UndialledIsUnused' /\ HandshakeIsOpen' /\ SelfDialUnanswered'
  <2>1. UsedIsWired' /\ HandshakeIsOpen'
    BY <1>2, <1>3 DEF UsedIsWired, HandshakeIsOpen, wiring
  <2>2. UndialledIsUnused' /\ SelfDialUnanswered'
    BY <1>2, <1>3, ConnEnds DEF UndialledIsUnused, SelfDialUnanswered, wiring
  <2> QED BY <2>1, <2>2
<1>7. OneEntryPerIdentity' /\ NeverOwnPeer'
  BY <1>1, <1>4 DEF OneEntryPerIdentity, NeverOwnPeer
<1>8. RegisteredIsServed'
  <2> SUFFICES ASSUME NEW p \in Node, NEW e \in peers'[p]
               PROVE  /\ Owner(e) = p
                      /\ (phase'[e] = "reading" /\ open'[e]) \/ phase'[e] = "abandoned"
    BY <1>1 DEF RegisteredIsServed
  <2>1. p # n /\ e \in peers[p] /\ Owner(e) = p
    BY <1>4 DEF RegisteredIsServed
  <2>2. e \in End /\ e \notin mine
    BY <2>1 DEF TypeOK
  <2> QED BY <1>3, <2>1, <2>2 DEF RegisteredIsServed
<1>9. InboundStaysFiled'
  <2> SUFFICES ASSUME NEW c \in Conn, phase'[In(c)] = "reading", open'[In(c)]
               PROVE  In(c) \in peers'[Owner(In(c))]
    BY <1>1 DEF InboundStaysFiled, Orphan
  <2>1. /\ In(c) \in End /\ phase[In(c)] = "reading" /\ open[In(c)]
        /\ In(c) \notin mine
    BY <1>3, ConnEnds
  <2>2. In(c) \in peers[Owner(In(c))] /\ Owner(In(c)) \in Node
    BY <2>1, UsedEnd DEF InboundStaysFiled, Orphan
  <2> QED BY <1>4, <2>1, <2>2
<1>10. AnnouncedHasReader'
  BY <1>1, <1>3, <1>4, Keepers DEF HasKeeper
<1> QED BY <1>5, <1>6, <1>7, <1>8, <1>9, <1>10

\* A new process starts with nothing.
LEMMA StartStep ==
  ASSUME IInv, NEW n \in Node, Start(n)
  PROVE  IInv'
<1> USE DEF IInv
<1>1. \A f : Owner(f)' = Owner(f) /\ Remote(f)' = Remote(f) /\ Key(f)' = Key(f)
  BY SameWiring DEF Start
<1>2. UNCHANGED <<wiring, phase, open, inbox, peers, announced>>
  BY DEF Start
<1>3. TypeOK'
  BY DEF Start, TypeOK, wiring
<1>4. UsedIsWired' /\ UndialledIsUnused' /\ HandshakeIsOpen' /\ SelfDialUnanswered'
  BY <1>2 DEF UsedIsWired, UndialledIsUnused, HandshakeIsOpen, SelfDialUnanswered, wiring
<1>5. OneEntryPerIdentity' /\ RegisteredIsServed' /\ NeverOwnPeer'
  BY <1>1, <1>2, Keepers DEF OneEntryPerIdentity, RegisteredIsServed, NeverOwnPeer
<1>6. InboundStaysFiled' /\ AnnouncedHasReader'
  BY <1>1, <1>2, Keepers DEF InboundStaysFiled, Orphan, HasKeeper
<1> QED BY <1>3, <1>4, <1>5, <1>6

-----------------------------------------------------------------------------
\* The theorems about the connection tables

\* Every step of the mesh keeps the inductive invariant.
LEMMA NextIInv == IInv /\ [Next]_vars => IInv'
<1> SUFFICES ASSUME IInv, [Next]_vars PROVE IInv'
  OBVIOUS
<1>1. CASE \E n, m \in Node, a \in Address, c \in Conn, hello \in HelloMsg :
             Dial(n, m, a, c, hello)
  BY <1>1, DialStep
<1>2. CASE \E c \in Conn : Accepts(c)
  <2>1. PICK c \in Conn : Accepts(c)
    BY <1>2
  <2>2. CASE \E stale \in StaleSets(In(c)), reply \in Replies, unsent, raised \in BOOLEAN :
               AcceptHello(c, stale, reply, unsent, raised)
    BY <2>2, AcceptHelloStep
  <2>3. CASE RejectIncoming(c)
    BY <2>3, HandshakeOverStep, ConnEnds DEF RejectIncoming, SelfDialled
  <2> QED BY <2>1, <2>2, <2>3 DEF Accepts
<1>3. CASE \E c \in Conn : Connects(c)
  <2>1. PICK c \in Conn : Connects(c)
    BY <1>3
  <2>2. CASE \E stale \in StaleSets(Out(c)), raised \in BOOLEAN :
               RecvAck(c, stale, raised)
    BY <2>2, RecvAckStep
  <2>3. CASE DialFails(c)
    BY <2>3, HandshakeOverStep, ConnEnds DEF DialFails
  <2>4. CASE \E closes \in BOOLEAN :
               DialCancelled(c, closes) \/ \E sent \in BOOLEAN : DialRaises(c, sent, closes)
    <3>1. PICK closes \in BOOLEAN :
            /\ DialCut(c, closes)
            /\ inbox' = inbox \/ inbox' = [inbox EXCEPT ![In(c)] = <<>>]
      BY <2>4, Zenon DEF DialCancelled, DialRaises
    <3> QED BY <3>1, DialCutStep
  <2> QED BY <2>1, <2>2, <2>3, <2>4 DEF Connects
<1>4. CASE \E e \in End : Read(e) \/ LoopDone(e) \/ LoopBreaks(e)
  BY <1>4, ReadStep, EndLoopStep DEF LoopDone, LoopBreaks
<1>5. CASE \E n \in Node, e \in End :
             SendFails(n, e) \/ \E msg \in AppMsg : SendTo(n, e, msg)
  BY <1>5, SendStep, SendFailsStep
<1>6. CASE \E n \in Node, msg \in AppMsg :
             \E exclude \in SUBSET {Key(e) : e \in peers[n]} : Broadcast(n, exclude, msg)
  <2>1. CASE End = {}
    BY <1>6, <2>1 DEF Broadcast, IInv, TypeOK
  <2>2. CASE End # {}
    BY <1>6, <2>2, SendStep
  <2> QED BY <2>1, <2>2
<1>7. CASE \E n \in Node : \E idle \in SUBSET peers[n] : Heartbeat(n, idle)
  BY <1>7, HeartbeatStep
<1>8. CASE \E n \in Node : Stop(n) \/ Exit(n) \/ Start(n)
  BY <1>8, StopStep, ExitStep, StartStep
<1>9. CASE UNCHANGED vars
  <2>1. UNCHANGED <<up, wiring, phase, open, peers, announced, inbox>>
    BY <1>9 DEF vars, wiring
  <2>2. /\ inbox' \in [End -> Seq(Message)] /\ SelfDialUnanswered'
        /\ failed' \in SUBSET End
    BY <1>9, <2>1 DEF vars, IInv, TypeOK, SelfDialUnanswered, wiring
  <2> QED BY <2>1, <2>2, FramesStep DEF IInv, TypeOK
<1> QED BY <1>1, <1>2, <1>3, <1>4, <1>5, <1>6, <1>7, <1>8, <1>9 DEF Next

\* The invariant holds in every reachable state of every mesh.
THEOREM Invariance == Spec => []IInv
<1>1. Init => IInv
  BY InitIInv
<1>2. IInv /\ [Next]_vars => IInv'
  BY NextIInv
<1> QED BY <1>1, <1>2, PTL DEF Spec

\* The variables of TCPManager keep their types.
THEOREM TypeCorrect == Spec => []TypeOK
<1>1. IInv => TypeOK
  BY DEF IInv
<1> QED BY <1>1, Invariance, PTL

\* However connections race and whatever raises, a table holds one entry per
\* identity, never of the node itself, and each is of an open connection that is
\* read, or of one whose handler raised, which only the purge takes out again.
THEOREM TableIsSound ==
  Spec => [](OneEntryPerIdentity /\ RegisteredIsServed /\ NeverOwnPeer)
<1>1. IInv => OneEntryPerIdentity /\ RegisteredIsServed /\ NeverOwnPeer
  BY DEF IInv
<1> QED BY <1>1, Invariance, PTL

\* An accepted connection that is read is filed: only dialled ones get orphaned.
THEOREM InboundNeverOrphaned == Spec => []InboundStaysFiled
<1>1. IInv => InboundStaysFiled
  BY DEF IInv
<1> QED BY <1>1, Invariance, PTL

\* Each announcement to the handler has a read loop left to retract it, or an
\* abandoned entry left to the purge; or the end that made it is leaked, and then
\* nothing retracts it.
THEOREM AnnouncementsAreServed == Spec => []AnnouncedHasReader
<1>1. IInv => AnnouncedHasReader
  BY DEF IInv
<1> QED BY <1>1, Invariance, PTL

-----------------------------------------------------------------------------
\* The node: its inductive invariant

\* A connection that waits for its HELLO_ACK is a dial that was decided on, by
\* the node that dials and for the peer that it dials.
HandshakeIsDialled ==
  \A c \in Conn : phase[Out(c)] = "handshake" =>
    intent[c] # None /\ intent[c].by = dialer[c] /\ intent[c].to = Key(Out(c))

\* OneDialPerLoop, dial by dial.
LoopDials ==
  \A n \in Node :
    /\ armed[n] \subseteq reconnecting[n]
    /\ \A c \in Conn : Again(n, c) =>
         /\ intent[c].to \in reconnecting[n] \ armed[n]
         /\ \A d \in Conn : Again(n, d) /\ intent[c].to = intent[d].to => c = d

NodeInv == NodeTypeOK /\ HandshakeIsDialled /\ RoutedHasReader /\ LoopDials
MeshInv == IInv /\ NodeInv

\* RoutedHasReader in fewer words, as with HasKeeper.
RouteHasKeeper ==
  \A n \in Node : \A k \in routing[n].known :
    \E e \in End : phase[e] \in {"reading", "abandoned"} /\ Owner(e) = n /\ Key(e) = k

LEMMA RouteKeepers ==
  (RoutedHasReader <=> RouteHasKeeper) /\ (RoutedHasReader' <=> RouteHasKeeper')
BY DEF RoutedHasReader, RouteHasKeeper, Leaked

-----------------------------------------------------------------------------
\* Types

\* A frame of one type is one of the messages of that type.
LEMMA MessageOfType ==
  ASSUME NEW msg \in Message
  PROVE  /\ msg.type = "HELLO" => msg \in HelloMsg
         /\ msg.type = "HELLO_ACK" => msg \in AckMsg
         /\ msg.type = "INTEREST_UPDATE" => msg \in AppMsg
BY MessageTypes, HelloShape, AckShape, AppShape DEF Message, Bye

\* The first frame of an inbox is a message.
LEMMA HeadType ==
  ASSUME TypeOK, NEW e \in End, inbox[e] # <<>>
  PROVE  Head(inbox[e]) \in Message
BY DEF TypeOK

\* The routing table stays one when a peer is registered or removed.
LEMMA TableTypes ==
  ASSUME NEW t \in TableOver(PeerKey, Cap), NEW k \in PeerKey, NEW ks,
         NEW cs \in SUBSET Cap, NEW is \in SUBSET Cap
  PROVE  /\ RegisterPeer(t, k, cs, is) \in TableOver(PeerKey, Cap)
         /\ RegisterPeerPartly(t, k, cs) \in TableOver(PeerKey, Cap)
         /\ RemovePeers(t, ks) \in TableOver(PeerKey, Cap)
         /\ PeerCaps(t, k) \in SUBSET Cap
         /\ EmptyTable \in TableOver(PeerKey, Cap)
BY DEF TableOver, RegisterPeer, RegisterPeerPartly, RemovePeers, PeerCaps, EmptyTable

\* What a registration and a removal do to the known peers.
LEMMA KnownAfter ==
  ASSUME NEW t \in TableOver(PeerKey, Cap), NEW k, NEW ks, NEW cs, NEW is
  PROVE  /\ RegisterPeer(t, k, cs, is).known = t.known \cup {k}
         /\ RegisterPeerPartly(t, k, cs).known = t.known \cup {k}
         /\ RemovePeers(t, ks).known = t.known \ ks
         /\ EmptyTable.known = {}
BY DEF TableOver, RegisterPeer, RegisterPeerPartly, RemovePeers, EmptyTable

\* HELLO, HELLO_ACK and INTEREST_UPDATE are built as messages.
LEMMA BuiltTypes ==
  ASSUME NodeTypeOK
  PROVE  /\ \A i \in Intent : Hello(i) \in HelloMsg
         /\ \A n \in Node : \A k : AckTo(n, k) \in AckMsg
         /\ \A n \in Node : Update(n) \in AppMsg
<1>1. \A i \in Intent : Hello(i) \in HelloMsg
  BY HelloShape DEF Hello, PublicCaps, Intent, NodeTypeOK
<1>2. \A n \in Node : \A k : AckTo(n, k) \in AckMsg
  BY AckShape DEF AckTo, CapsForPeer, NodeTypeOK, TableOver
<1>3. \A n \in Node : Update(n) \in AppMsg
  BY AppShape, OffersType DEF Update
<1> QED BY <1>1, <1>2, <1>3

-----------------------------------------------------------------------------
\* Each step is one of TCPManager

\* The connection tables see a step of their own, or none.
LEMMA StepRefines ==
  ASSUME IInv, NodeTypeOK, NodeNext
  PROVE  [Next]_vars
<1>1. CASE \E n \in Node, c \in Conn :
             \/ \E k \in todo[n] : Boot(n, k, c)
             \/ \E m \in Node, a \in Address : Discover(n, m, a, c)
             \/ \E k \in armed[n] : ReconnectDial(n, k, c)
  BY <1>1 DEF Boot, Discover, ReconnectDial
<1>2. CASE \E n \in Node : \E k \in reconnecting[n] : ReconnectCheck(n, k)
  BY <1>2 DEF ReconnectCheck
<1>3. CASE \E c \in Conn : OpenConnection(c) \/ OpenFails(c)
  <2>1. PICK c \in Conn : OpenConnection(c) \/ OpenFails(c)
    BY <1>3
  <2>2. CASE OpenFails(c)
    BY <2>2 DEF OpenFails
  <2>3. CASE OpenConnection(c)
    <3> DEFINE i == intent[c]
    <3>1. i \in Intent /\ i.to[2] \in Address /\ Dial(i.by, i.to[1], i.to[2], c, Hello(i))
      BY <2>3 DEF OpenConnection, NodeTypeOK
    <3>2. i.by \in Node /\ i.to[1] \in Node /\ Hello(i) \in HelloMsg
      BY <3>1, BuiltTypes DEF Intent, PeerKey
    <3> QED BY <3>1, <3>2 DEF Next
  <2> QED BY <2>1, <2>2, <2>3
<1>4. CASE \E c \in Conn : NodeAccepts(c)
  <2>1. PICK c \in Conn : NodeAccepts(c)
    BY <1>4
  <2>2. acceptor[c] \in Node
    BY <2>1 DEF NodeAccepts, IInv, TypeOK
  <2>3. ASSUME NEW stale \in StaleSets(In(c)), NEW unsent \in BOOLEAN,
               NEW raised \in BOOLEAN, Accept(c, stale, unsent, raised)
        PROVE  Accepts(c)
    <3>1. AckTo(acceptor[c], Key(In(c))) \in AckMsg
      BY <2>2, BuiltTypes
    <3>3. (IF unsent \/ raised THEN <<>> ELSE <<AckTo(acceptor[c], Key(In(c)))>>) \in Replies
      BY <3>1 DEF Replies
    <3>2. PICK reply \in Replies : AcceptHello(c, stale, reply, unsent, raised)
      BY <2>3, <3>3, Zenon DEF Accept
    <3> QED BY <2>1, <3>2, Zenon DEF Accepts, NodeAccepts
  <2>4. ASSUME RejectIncoming(c) PROVE Accepts(c)
    BY <2>1, <2>4, Zenon DEF Accepts, NodeAccepts
  <2>5. Accepts(c)
    BY <2>1, <2>3, <2>4, Zenon DEF NodeAccepts
  <2> QED BY <2>5 DEF Next
<1>5. CASE \E c \in Conn : NodeConnects(c)
  <2>1. PICK c \in Conn : NodeConnects(c)
    BY <1>5
  <2>2. ASSUME NEW stale \in StaleSets(Out(c)),
               Connected(c, stale) \/ AckRaises(c, stale)
        PROVE  \E raised \in BOOLEAN : RecvAck(c, stale, raised)
    BY <2>2, Zenon DEF Connected, AckRaises
  <2>5. ASSUME NEW sent \in BOOLEAN, NEW closes \in BOOLEAN, ConnectRaises(c, sent, closes)
        PROVE  DialRaises(c, sent, closes)
    BY <2>5 DEF ConnectRaises
  <2>3. ASSUME ConnectFails(c)
        PROVE  DialFails(c) \/ \E closes \in BOOLEAN : DialCancelled(c, closes)
    BY <2>3, Zenon DEF ConnectFails
  <2>4. Connects(c)
    BY <2>1, <2>2, <2>3, <2>5, Zenon DEF NodeConnects, Connects
  <2> QED BY <2>4 DEF Next
<1>6. CASE \E e \in End : Receive(e) \/ Lost(e)
  <2>1. PICK e \in End : Read(e) \/ LoopDone(e) \/ LoopBreaks(e)
    BY <1>6, Zenon DEF Receive, Lost
  <2> QED BY <2>1 DEF Next
<1>7. CASE \E n \in Node : \E idle \in SUBSET peers[n] : Purge(n, idle)
  <2>1. \E n \in Node : \E idle \in SUBSET peers[n] : Heartbeat(n, idle)
    BY <1>7, Zenon DEF Purge
  <2> QED BY <2>1 DEF Next
<1>10. CASE \E n \in Node, e \in End : SendFails(n, e) /\ UNCHANGED nodeVars
  BY <1>10 DEF Next
<1>8. CASE \E n \in Node : Register(n)
  <2>1. PICK n \in Node : UNCHANGED vars \/ Broadcast(n, {}, Update(n))
    BY <1>8 DEF Register
  <2>2. {} \in SUBSET {Key(e) : e \in peers[n]} /\ Update(n) \in AppMsg
    BY BuiltTypes
  <2> QED BY <2>1, <2>2 DEF Next
<1>9. CASE \E n \in Node : Disconnect(n) \/ ProcessEnds(n) \/ ProcessStarts(n)
  <2>1. PICK n \in Node : Stop(n) \/ Exit(n) \/ Start(n)
    BY <1>9, Zenon DEF Disconnect, ProcessEnds, ProcessStarts
  <2> QED BY <2>1 DEF Next
<1> QED BY <1>1, <1>2, <1>3, <1>4, <1>5, <1>6, <1>7, <1>8, <1>9, <1>10 DEF NodeNext

-----------------------------------------------------------------------------
\* What a step leaves alone

\* Intents and the wiring stay, and no further end waits for a HELLO_ACK.
LEMMA DialsUntouched ==
  ASSUME MeshInv, UNCHANGED <<wiring, intent>>,
         \A c \in Conn : phase'[Out(c)] = "handshake" => phase[Out(c)] = "handshake"
  PROVE  HandshakeIsDialled'
BY SameWiring DEF MeshInv, NodeInv, HandshakeIsDialled, wiring

\* Intents and sleeping loops stay, and no loop ends.
LEMMA LoopsUntouched ==
  ASSUME MeshInv, UNCHANGED <<intent, armed>>,
         \A n \in Node : reconnecting[n] \subseteq reconnecting'[n]
  PROVE  LoopDials'
BY DEF MeshInv, NodeInv, LoopDials, Again

\* No peer is added to those routed to, and ends keep their read loops.
LEMMA ReadersUntouched ==
  ASSUME MeshInv, UNCHANGED wiring,
         \A n \in Node : routing'[n].known \subseteq routing[n].known,
         \A e \in End : phase[e] \in {"reading", "abandoned"} =>
           phase'[e] \in {"reading", "abandoned"}
  PROVE  RoutedHasReader'
<1>1. \A e : Owner(e)' = Owner(e) /\ Key(e)' = Key(e)
  BY SameWiring
<1> QED BY <1>1, RouteKeepers DEF MeshInv, NodeInv, RouteHasKeeper

-----------------------------------------------------------------------------
\* Decisions to dial

\* A dial is decided on: of a loop that has slept, or for another reason.
LEMMA DecideStep ==
  ASSUME MeshInv, NEW n \in Node, NEW k \in PeerKey, NEW c \in Conn,
         NEW why \in {"boot", "lan", "known", "again"}, Decide(n, k, why, c),
         UNCHANGED <<vars, caps, routing, reconnecting, reached>>,
         todo' \in [Node -> SUBSET PeerKey],
         \/ why = "again" /\ k \in armed[n] /\ armed' = [armed EXCEPT ![n] = @ \ {k}]
         \/ why # "again" /\ UNCHANGED armed
  PROVE  NodeInv'
<1> USE DEF MeshInv, NodeInv
<1>1. UNCHANGED vars /\ UNCHANGED wiring
  BY DEF vars, wiring
<1>3. /\ dialer[c] = None /\ intent[c] = None
      /\ intent' = [intent EXCEPT ![c] = [by |-> n, to |-> k, why |-> why,
                                         interests |-> caps[n]]]
  BY DEF Decide, Free
<1>4. [by |-> n, to |-> k, why |-> why, interests |-> caps[n]] \in Intent
  BY DEF Intent, NodeTypeOK
<1>5. NodeTypeOK'
  BY <1>3, <1>4 DEF NodeTypeOK
<1>6. HandshakeIsDialled'
  <2> SUFFICES ASSUME NEW d \in Conn, phase[Out(d)] = "handshake"
               PROVE  /\ intent'[d] # None /\ intent'[d].by = dialer[d]
                      /\ intent'[d].to = Key(Out(d))
    BY <1>1, SameWiring DEF HandshakeIsDialled, vars, wiring
  <2>1. d # c
    BY <1>3 DEF IInv, UndialledIsUnused
  <2> QED BY <1>3, <2>1 DEF HandshakeIsDialled, NodeTypeOK
<1>7. RoutedHasReader'
  BY <1>1, ReadersUntouched DEF vars
<1>8. LoopDials'
  <2>1. \A m \in Node, d \in Conn :
          d # c => (Again(m, d)' <=> Again(m, d)) /\ intent'[d] = intent[d]
    BY <1>3 DEF Again, NodeTypeOK
  <2>2. \A m \in Node : Again(m, c)' <=> m = n /\ why = "again"
    BY <1>3, <1>4, NoneIsNoIntent DEF Again, NodeTypeOK
  <2>3. intent'[c].to = k /\ \A m \in Node : ~Again(m, c)
    BY <1>3 DEF Again, NodeTypeOK
  <2>4. CASE why = "again"
    <3>1. /\ k \in armed[n] /\ armed \in [Node -> SUBSET PeerKey]
          /\ armed' = [armed EXCEPT ![n] = @ \ {k}]
      BY <2>4 DEF NodeTypeOK
    <3>2. \A m \in Node : armed'[m] \subseteq armed[m] /\ (m = n => k \notin armed'[m])
      BY <3>1
    <3> QED BY <2>1, <2>2, <2>3, <3>1, <3>2 DEF LoopDials
  <2>5. CASE why # "again"
    BY <2>1, <2>2, <2>5 DEF LoopDials
  <2> QED BY <2>4, <2>5
<1> QED BY <1>5, <1>6, <1>7, <1>8

\* A loop of n looks at its peer: it ends, or it sleeps before it dials.
LEMMA CheckStep ==
  ASSUME MeshInv, NEW n \in Node, NEW k \in reconnecting[n], ReconnectCheck(n, k)
  PROVE  NodeInv'
<1> USE DEF MeshInv, NodeInv
<1>1. UNCHANGED vars /\ UNCHANGED wiring /\ UNCHANGED <<intent, routing>>
  BY DEF ReconnectCheck, vars, wiring
<1>2. k \in PeerKey /\ reconnecting \in [Node -> SUBSET PeerKey]
      /\ armed \in [Node -> SUBSET PeerKey]
  BY DEF NodeTypeOK
<1>3. k \notin armed[n] /\ \A c \in Conn : Again(n, c) => intent[c].to # k
  BY DEF ReconnectCheck, Dialling, Again
<1>4. \/ reconnecting' = [reconnecting EXCEPT ![n] = @ \ {k}] /\ armed' = armed
      \/ reconnecting' = reconnecting /\ armed' = [armed EXCEPT ![n] = @ \cup {k}]
  BY DEF ReconnectCheck
<1>5. NodeTypeOK'
  BY <1>1, <1>2, <1>4 DEF NodeTypeOK, ReconnectCheck
<1>6. HandshakeIsDialled' /\ RoutedHasReader'
  BY <1>1, DialsUntouched, ReadersUntouched DEF vars
<1>7. LoopDials'
  <2>1. \A m \in Node, c \in Conn : Again(m, c)' <=> Again(m, c)
    BY <1>1 DEF Again
  <2>2. CASE reconnecting' = [reconnecting EXCEPT ![n] = @ \ {k}] /\ armed' = armed
    <3>1. \A m \in Node : reconnecting'[m] = IF m = n THEN reconnecting[n] \ {k}
                                             ELSE reconnecting[m]
      BY <1>2, <2>2
    <3> QED BY <1>1, <1>3, <2>1, <2>2, <3>1 DEF LoopDials
  <2>3. CASE reconnecting' = reconnecting /\ armed' = [armed EXCEPT ![n] = @ \cup {k}]
    <3>1. \A m \in Node : armed'[m] = IF m = n THEN armed[n] \cup {k} ELSE armed[m]
      BY <1>2, <2>3
    <3> QED BY <1>1, <1>3, <2>1, <2>3, <3>1 DEF LoopDials
  <2> QED BY <1>4, <2>2, <2>3
<1> QED BY <1>5, <1>6, <1>7

-----------------------------------------------------------------------------
\* The end of a dial

\* A dial that ends, and with it its loop or not, leaves the other dials of
\* loops as they are.
LEMMA IntentOver ==
  ASSUME MeshInv, NEW c \in Conn, UNCHANGED armed,
         \A d \in Conn : intent'[d] = intent[d]
           \/ intent'[d] = None \/ intent'[d].why = "known",
         intent'[c] = None \/ intent'[c].why = "known",
         \/ UNCHANGED reconnecting
         \/ \E n \in Node : /\ Again(n, c)
                            /\ reconnecting' = [reconnecting EXCEPT ![n] = @ \ {intent[c].to}]
  PROVE  LoopDials'
<1> USE DEF MeshInv, NodeInv
<1>1. \A m \in Node, d \in Conn : Again(m, d)' => Again(m, d) /\ d # c /\ intent'[d] = intent[d]
  BY DEF Again
<1>2. CASE UNCHANGED reconnecting
  BY <1>1, <1>2 DEF LoopDials
<1>3. ASSUME NEW n \in Node, Again(n, c),
             reconnecting' = [reconnecting EXCEPT ![n] = @ \ {intent[c].to}]
      PROVE  LoopDials'
  <2>1. \A m \in Node : reconnecting'[m] = IF m = n THEN reconnecting[n] \ {intent[c].to}
                                           ELSE reconnecting[m]
    BY <1>3 DEF NodeTypeOK
  <2>2. intent[c].to \notin armed[n]
        /\ \A d \in Conn : Again(n, d) /\ d # c => intent[d].to # intent[c].to
    BY <1>3 DEF LoopDials
  <2> QED BY <1>1, <2>1, <2>2 DEF LoopDials
<1> QED BY <1>2, <1>3

\* What Undialled does to intents and loops.
LEMMA UndialledStep ==
  ASSUME MeshInv, NEW c \in Conn, Undialled(c), UNCHANGED armed
  PROVE  /\ LoopDials'
         /\ intent' = [intent EXCEPT ![c] = None]
         /\ intent' \in [Conn -> Intent \cup {None}]
         /\ reconnecting' \in [Node -> SUBSET PeerKey]
<1> USE DEF MeshInv, NodeInv
<1>1. intent' = [intent EXCEPT ![c] = None]
  BY DEF Undialled
<1>2. \/ UNCHANGED reconnecting
      \/ /\ Again(intent[c].by, c)
         /\ reconnecting' = [reconnecting EXCEPT ![intent[c].by] = @ \ {intent[c].to}]
  BY DEF Undialled, Again
<1>3. Again(intent[c].by, c) => intent[c].by \in Node
  BY DEF Again, NodeTypeOK, Intent
<1>4. intent'[c] = None /\ \A d \in Conn : d # c => intent'[d] = intent[d]
  BY <1>1 DEF NodeTypeOK
<1>5. LoopDials'
  BY <1>2, <1>3, <1>4, IntentOver
<1> QED BY <1>1, <1>2, <1>5 DEF NodeTypeOK

\* A connection is opened for a dial decided on; other connections stay as they are.
LEMMA Opened ==
  ASSUME MeshInv, NEW c \in Conn, OpenConnection(c)
  PROVE  LET i == intent[c] IN
         /\ intent[c] # None /\ i.by \in Node /\ i.to = <<i.to[1], i.to[2]>>
         /\ UNCHANGED <<caps, routing, todo, intent, reconnecting, reached, armed>>
         /\ UNCHANGED <<up, peers>> /\ up[i.by] # "down"
         /\ dialer'[c] = i.by /\ acceptor'[c] = i.to[1] /\ via'[c] = i.to[2]
         /\ \A e \in End : e[1] # c =>
              /\ phase'[e] = phase[e] /\ Owner(e)' = Owner(e) /\ Key(e)' = Key(e)
              /\ dialer'[e[1]] = dialer[e[1]]
         /\ \A e \in End : e[1] = c => phase[e] = "unused"
<1> USE DEF MeshInv, NodeInv
<1> DEFINE i == intent[c]
<1>1. /\ intent[c] # None /\ i \in Intent /\ i.by \in Node /\ i.to \in PeerKey
      /\ i.to[2] \in Address /\ Dial(i.by, i.to[1], i.to[2], c, Hello(i))
      /\ UNCHANGED nodeVars
  BY DEF OpenConnection, NodeTypeOK, Intent
<1>2. UNCHANGED <<caps, routing, todo, intent, reconnecting, reached, armed>>
  BY <1>1 DEF nodeVars
<1>3. /\ dialer[c] = None /\ up[i.by] # "down" /\ UNCHANGED <<up, peers>>
      /\ dialer' = [dialer EXCEPT ![c] = i.by] /\ acceptor' = [acceptor EXCEPT ![c] = i.to[1]]
      /\ via' = [via EXCEPT ![c] = i.to[2]]
      /\ phase' = [phase EXCEPT ![Out(c)] = "handshake", ![In(c)] = "handshake"]
  BY <1>1 DEF Dial
<1>4. phase[Out(c)] = "unused" /\ phase[In(c)] = "unused"
  BY <1>3 DEF IInv, UndialledIsUnused
<1>5. \A e \in End : e[1] # c =>
        /\ phase'[e] = phase[e] /\ Owner(e)' = Owner(e) /\ Key(e)' = Key(e)
        /\ dialer'[e[1]] = dialer[e[1]]
  <2> SUFFICES ASSUME NEW e \in End, e[1] # c
               PROVE  /\ phase'[e] = phase[e] /\ Owner(e)' = Owner(e) /\ Key(e)' = Key(e)
                      /\ dialer'[e[1]] = dialer[e[1]]
    OBVIOUS
  <2>1. e[1] \in Conn /\ e # Out(c) /\ e # In(c)
    BY EndCases, ConnEnds
  <2>2. /\ phase'[e] = phase[e] /\ dialer'[e[1]] = dialer[e[1]]
        /\ acceptor'[e[1]] = acceptor[e[1]] /\ via'[e[1]] = via[e[1]]
    BY <1>3, <2>1 DEF IInv, TypeOK
  <2> QED BY <2>2 DEF Owner, Key, Remote
<1>6. \A e \in End : e[1] = c => phase[e] = "unused"
  BY <1>4, EndCases
<1>7. dialer'[c] = i.by /\ acceptor'[c] = i.to[1] /\ via'[c] = i.to[2]
  BY <1>3 DEF IInv, TypeOK
<1>8. i.to = <<i.to[1], i.to[2]>>
  BY <1>1 DEF PeerKey
<1> HIDE DEF i
<1> QED BY <1>1, <1>2, <1>3, <1>5, <1>6, <1>7, <1>8 DEF i

\* The mesh invariant, after a connection is opened.
LEMMA OpenStep ==
  ASSUME MeshInv, NEW c \in Conn, OpenConnection(c)
  PROVE  NodeInv'
<1> USE DEF MeshInv, NodeInv
<1> DEFINE i == intent[c]
<1>1. intent[c] # None /\ i.to = <<i.to[1], i.to[2]>>
  BY Opened
<1>2. UNCHANGED <<caps, routing, todo, intent, reconnecting, reached, armed>>
  BY Opened
<1>3. dialer'[c] = i.by /\ acceptor'[c] = i.to[1] /\ via'[c] = i.to[2]
  BY Opened
<1>5. \A e \in End : e[1] # c =>
        /\ phase'[e] = phase[e] /\ Owner(e)' = Owner(e) /\ Key(e)' = Key(e)
        /\ dialer'[e[1]] = dialer[e[1]]
  BY Opened
<1>6. \A e \in End : e[1] = c => phase[e] = "unused"
  BY Opened
<1>7. NodeTypeOK'
  BY <1>2 DEF NodeTypeOK
<1>8. HandshakeIsDialled'
  <2> SUFFICES ASSUME NEW d \in Conn, phase'[Out(d)] = "handshake"
               PROVE  /\ intent[d] # None /\ intent[d].by = dialer'[d]
                      /\ intent[d].to = Key(Out(d))'
    BY <1>2 DEF HandshakeIsDialled
  <2>1. CASE d = c
    <3>1. Key(Out(c))' = <<i.to[1], i.to[2]>>
      BY <1>3 DEF Key, Remote, Out
    <3> QED BY <1>1, <1>3, <2>1, <3>1
  <2>2. CASE d # c
    <3>1. Out(d) \in End /\ Out(d)[1] = d
      BY ConnEnds
    <3> QED BY <1>5, <2>2, <3>1 DEF HandshakeIsDialled
  <2> QED BY <2>1, <2>2
<1>9. RoutedHasReader'
  <2> SUFFICES ASSUME NEW n \in Node, NEW k \in routing[n].known
               PROVE  \E e \in End : /\ phase'[e] \in {"reading", "abandoned"}
                                     /\ Owner(e)' = n /\ Key(e)' = k
    BY <1>2, RouteKeepers DEF RouteHasKeeper
  <2>1. PICK e \in End : /\ phase[e] \in {"reading", "abandoned"}
                         /\ Owner(e) = n /\ Key(e) = k
    BY RouteKeepers DEF RouteHasKeeper
  <2> QED BY <1>5, <1>6, <2>1
<1>10. LoopDials'
  BY <1>2, LoopsUntouched
<1> QED BY <1>7, <1>8, <1>9, <1>10

\* No connection, or no HELLO_ACK on it: the dial is over, its end is not read.
LEMMA DialFailsStep ==
  ASSUME MeshInv, NEW c \in Conn, OpenFails(c) \/ ConnectFails(c)
  PROVE  NodeInv'
<1> USE DEF MeshInv, NodeInv
<1>1. Undialled(c) /\ UNCHANGED <<wiring, caps, routing, todo, reached, armed>>
  BY DEF OpenFails, ConnectFails, DialFails, HandshakeOver, DialCancelled, DialCut, vars, wiring
<1>2. \A e \in End :
        \/ phase'[e] = phase[e]
        \/ /\ e = Out(c) /\ phase[e] = "handshake"
           /\ phase'[e] \in {"done", "cut"}
  <2>1. \/ UNCHANGED phase
        \/ \E to \in {"done", "cut"} :
             /\ phase[Out(c)] = "handshake"
             /\ phase' = [phase EXCEPT ![Out(c)] = to]
    BY DEF OpenFails, ConnectFails, DialFails, HandshakeOver, DialCancelled, DialCut, vars
  <2> QED BY <2>1 DEF IInv, TypeOK
<1>3. phase'[Out(c)] # "handshake"
  <2>1. CASE OpenFails(c)
    BY <2>1, ConnEnds DEF OpenFails, vars, IInv, UndialledIsUnused
  <2>2. CASE ConnectFails(c)
    BY <2>2, ConnEnds DEF ConnectFails, DialFails, HandshakeOver, DialCancelled, DialCut, IInv, TypeOK
  <2> QED BY <2>1, <2>2
<1>4. NodeTypeOK' /\ LoopDials' /\ intent' = [intent EXCEPT ![c] = None]
  BY <1>1, UndialledStep DEF NodeTypeOK
<1>5. RoutedHasReader'
  BY <1>1, <1>2, ReadersUntouched
<1>6. HandshakeIsDialled'
  <2> SUFFICES ASSUME NEW d \in Conn, phase'[Out(d)] = "handshake"
               PROVE  /\ intent'[d] # None /\ intent'[d].by = dialer[d]
                      /\ intent'[d].to = Key(Out(d))
    BY <1>1, SameWiring DEF HandshakeIsDialled, wiring
  <2>1. d # c /\ Out(d) \in End /\ phase[Out(d)] = "handshake"
    BY <1>2, <1>3, ConnEnds
  <2> QED BY <1>4, <2>1 DEF HandshakeIsDialled, NodeTypeOK
<1> QED BY <1>4, <1>5, <1>6

-----------------------------------------------------------------------------
\* Connections filed, and frames handled

\* One peer is added to those routed to, that of an end with a read loop.
LEMMA ReadersAdded ==
  ASSUME MeshInv, UNCHANGED wiring, NEW e \in End,
         phase'[e] \in {"reading", "abandoned"},
         \A f \in End : phase[f] \in {"reading", "abandoned"} =>
           phase'[f] \in {"reading", "abandoned"},
         \A m \in Node : routing'[m].known \subseteq
           routing[m].known \cup (IF m = Owner(e) THEN {Key(e)} ELSE {})
  PROVE  RoutedHasReader'
<1>1. \A f : Owner(f)' = Owner(f) /\ Key(f)' = Key(f)
  BY SameWiring
<1> SUFFICES ASSUME NEW m \in Node, NEW k \in routing'[m].known
             PROVE  \E f \in End : /\ phase'[f] \in {"reading", "abandoned"}
                                   /\ Owner(f) = m /\ Key(f) = k
  BY <1>1, RouteKeepers DEF RouteHasKeeper
<1>2. CASE k \in routing[m].known
  BY <1>2, RouteKeepers DEF MeshInv, NodeInv, RouteHasKeeper
<1>3. CASE m = Owner(e) /\ k = Key(e)
  BY <1>3
<1> QED BY <1>2, <1>3

\* A HELLO or HELLO_ACK, read at e, registers its sender.
LEMMA OnHelloStep ==
  ASSUME MeshInv, NEW e \in End, phase[e] # "unused", inbox[e] # <<>>,
         Head(inbox[e]).type \in {"HELLO", "HELLO_ACK"},
         OnHello(Owner(e), Key(e), Head(inbox[e]))
  PROVE  /\ routing' \in [Node -> TableOver(PeerKey, Cap)]
         /\ \A m \in Node : routing'[m].known \subseteq
              routing[m].known \cup (IF m = Owner(e) THEN {Key(e)} ELSE {})
<1> USE DEF MeshInv, NodeInv
<1> DEFINE n == Owner(e)
           msg == Head(inbox[e])
<1>1. n \in Node /\ Key(e) \in PeerKey
  BY UsedEnd DEF IInv
<1>2. msg \in HelloMsg \cup AckMsg
  BY HeadType, MessageOfType DEF IInv
<1>3. msg.caps \in SUBSET Cap /\ msg.interests \in SUBSET Cap
  BY <1>2, HelloShape, AckShape
<1> HIDE DEF msg, n
<1>4. routing' = [routing EXCEPT ![n] = RegisterPeer(@, Key(e), msg.caps, msg.interests)]
  BY DEF OnHello, msg, n
<1>5. routing \in [Node -> TableOver(PeerKey, Cap)]
  BY DEF NodeTypeOK
<1>6. RegisterPeer(routing[n], Key(e), msg.caps, msg.interests) \in TableOver(PeerKey, Cap)
  BY <1>1, <1>3, <1>5, TableTypes
<1>7. routing'[n].known = routing[n].known \cup {Key(e)}
  BY <1>1, <1>4, <1>5, KnownAfter
<1>8. \A m \in Node : m # n => routing'[m] = routing[m]
  BY <1>4, <1>5
<1>9. routing' \in [Node -> TableOver(PeerKey, Cap)]
  BY <1>1, <1>4, <1>5, <1>6
<1>10. \A m \in Node : routing'[m].known \subseteq
         routing[m].known \cup (IF m = n THEN {Key(e)} ELSE {})
  BY <1>7, <1>8
<1> QED BY <1>9, <1>10 DEF n

\* The same, where the handler raises.
LEMMA MayHaveRegisteredStep ==
  ASSUME MeshInv, NEW e \in End, phase[e] # "unused", inbox[e] # <<>>,
         Head(inbox[e]).type \in {"HELLO", "HELLO_ACK"},
         MayHaveRegistered(Owner(e), Key(e), Head(inbox[e]))
  PROVE  /\ routing' \in [Node -> TableOver(PeerKey, Cap)]
         /\ \A m \in Node : routing'[m].known \subseteq
              routing[m].known \cup (IF m = Owner(e) THEN {Key(e)} ELSE {})
<1> USE DEF MeshInv, NodeInv
<1> DEFINE n == Owner(e)
           msg == Head(inbox[e])
<1>1. n \in Node /\ Key(e) \in PeerKey
  BY UsedEnd DEF IInv
<1>2. msg.caps \in SUBSET Cap
  BY HeadType, MessageOfType, HelloShape, AckShape DEF IInv
<1>3. routing \in [Node -> TableOver(PeerKey, Cap)]
  BY DEF NodeTypeOK
<1>4. CASE UNCHANGED routing
  BY <1>3, <1>4
<1>5. CASE routing' = [routing EXCEPT ![n] = RegisterPeerPartly(@, Key(e), msg.caps)]
  <2> HIDE DEF msg, n
  <2>1. RegisterPeerPartly(routing[n], Key(e), msg.caps) \in TableOver(PeerKey, Cap)
    BY <1>1, <1>2, <1>3, TableTypes
  <2>2. routing'[n].known = routing[n].known \cup {Key(e)}
    <3>1. routing'[n] = RegisterPeerPartly(routing[n], Key(e), msg.caps)
      BY <1>1, <1>3, <1>5
    <3>2. routing[n] \in TableOver(PeerKey, Cap)
      BY <1>1, <1>3
    <3> QED BY <3>1, <3>2 DEF RegisterPeerPartly, TableOver
  <2>3. routing' \in [Node -> TableOver(PeerKey, Cap)]
        /\ \A m \in Node : m # n => routing'[m] = routing[m]
    BY <1>1, <1>3, <1>5, <2>1
  <2>4. \A m \in Node : routing'[m].known \subseteq
          routing[m].known \cup (IF m = n THEN {Key(e)} ELSE {})
    BY <2>2, <2>3
  <2> QED BY <2>3, <2>4 DEF n
<1>6. CASE OnHello(n, Key(e), msg)
  BY <1>6, OnHelloStep
<1> QED BY <1>4, <1>5, <1>6 DEF MayHaveRegistered

\* A HELLO is accepted or refused.
LEMMA AcceptsStep ==
  ASSUME MeshInv, NEW c \in Conn, NodeAccepts(c)
  PROVE  NodeInv'
<1> USE DEF MeshInv, NodeInv
<1> DEFINE e == In(c)
<1>1. e \in End /\ \A d \in Conn : Out(d) # e /\ Out(d) \in End
  BY ConnEnds DEF End, Out, In
<1>2. phase \in [End -> Phase]
  BY DEF IInv, TypeOK
<1>3. CASE RejectIncoming(c) /\ UNCHANGED nodeVars
  <2>1. /\ UNCHANGED <<wiring, caps, routing, todo, intent, reconnecting, reached, armed>>
        /\ phase[e] = "handshake" /\ phase' = [phase EXCEPT ![e] = "done"]
    BY <1>3 DEF RejectIncoming, HandshakeOver, nodeVars
  <2>2. NodeTypeOK'
    BY <2>1 DEF NodeTypeOK
  <2>3. HandshakeIsDialled'
    BY <1>1, <1>2, <2>1, DialsUntouched
  <2>4. RoutedHasReader'
    BY <1>1, <1>2, <2>1, ReadersUntouched
  <2>5. LoopDials'
    BY <2>1, LoopsUntouched
  <2> QED BY <2>2, <2>3, <2>4, <2>5
<1>4. ASSUME NEW stale, NEW unsent \in BOOLEAN, NEW raised \in BOOLEAN,
             Accept(c, stale, unsent, raised)
      PROVE  NodeInv'
  <2>1. /\ phase[e] = "handshake" /\ inbox[e] # <<>>
        /\ UNCHANGED <<caps, todo, intent, reconnecting, reached, armed>>
    BY <1>4 DEF Accept
  <2>2. \/ MayHaveRegistered(acceptor[c], Key(e), Head(inbox[e]))
        \/ OnHello(acceptor[c], Key(e), Head(inbox[e]))
    BY <1>4, Zenon DEF Accept
  <2>3. \E reply, u, r : AcceptHello(c, stale, reply, u, r)
    BY <1>4, Zenon DEF Accept
  <2>4. /\ UNCHANGED wiring /\ Head(inbox[e]).type = "HELLO"
        /\ \E to \in {"reading", "abandoned"} : phase' = [phase EXCEPT ![e] = to]
    <3>1. PICK reply, u, r : AcceptHello(c, stale, reply, u, r)
      BY <2>3
    <3>2. UNCHANGED wiring /\ Head(inbox[e]).type = "HELLO" /\ Enrol(e, stale, r)
      BY <3>1 DEF AcceptHello
    <3>3. phase' = [phase EXCEPT ![e] = IF r THEN "abandoned" ELSE "reading"]
      BY <3>2 DEF Enrol
    <3> QED BY <3>2, <3>3
  <2>5. /\ phase'[e] \in {"reading", "abandoned"}
        /\ \A f \in End : f # e => phase'[f] = phase[f]
    BY <1>1, <1>2, <2>4
  <2>6. /\ routing' \in [Node -> TableOver(PeerKey, Cap)]
        /\ \A m \in Node : routing'[m].known \subseteq
             routing[m].known \cup (IF m = Owner(e) THEN {Key(e)} ELSE {})
    <3>1. CASE MayHaveRegistered(acceptor[c], Key(e), Head(inbox[e]))
      <4>1. Owner(e) = acceptor[c]
        BY ConnEnds
      <4> HIDE DEF e
      <4> QED BY <1>1, <2>1, <2>4, <3>1, <4>1, MayHaveRegisteredStep
    <3>2. CASE OnHello(acceptor[c], Key(e), Head(inbox[e]))
      <4>1. Owner(e) = acceptor[c]
        BY ConnEnds
      <4> HIDE DEF e
      <4> QED BY <1>1, <2>1, <2>4, <3>2, <4>1, OnHelloStep
    <3> QED BY <2>2, <3>1, <3>2
  <2>7. NodeTypeOK'
    BY <2>1, <2>6 DEF NodeTypeOK
  <2>8. HandshakeIsDialled'
    BY <1>1, <2>1, <2>4, <2>5, DialsUntouched
  <2>9. RoutedHasReader'
    <3> HIDE DEF e
    <3> QED BY <1>1, <2>1, <2>4, <2>5, <2>6, ReadersAdded
  <2>10. LoopDials'
    BY <2>1, LoopsUntouched
  <2> QED BY <2>7, <2>8, <2>9, <2>10
<1> QED BY <1>3, <1>4, Zenon DEF NodeAccepts

\* RecvAck files the end that waited for a HELLO_ACK, and no other.
LEMMA RecvAckFiles ==
  ASSUME IInv, NEW c \in Conn, NEW stale, NEW raised \in BOOLEAN, RecvAck(c, stale, raised)
  PROVE  /\ UNCHANGED wiring /\ Out(c) \in End
         /\ phase[Out(c)] = "handshake" /\ inbox[Out(c)] # <<>>
         /\ Head(inbox[Out(c)]).type = "HELLO_ACK"
         /\ phase'[Out(c)] = IF raised THEN "abandoned" ELSE "reading"
         /\ \A f \in End : f # Out(c) => phase'[f] = phase[f]
<1>1. /\ UNCHANGED wiring /\ phase[Out(c)] = "handshake" /\ inbox[Out(c)] # <<>>
      /\ Head(inbox[Out(c)]).type = "HELLO_ACK" /\ Enrol(Out(c), stale, raised)
  BY DEF RecvAck
<1>2. phase' = [phase EXCEPT ![Out(c)] = IF raised THEN "abandoned" ELSE "reading"]
  BY <1>1 DEF Enrol
<1>3. Out(c) \in End /\ phase \in [End -> Phase]
  BY ConnEnds DEF IInv, TypeOK
<1> QED BY <1>1, <1>2, <1>3

\* A dial that waited for its HELLO_ACK is over, its loop with it or not; free
\* connections may be given to dials of listed peers.
LEMMA DialOver ==
  ASSUME MeshInv, NEW c \in Conn, UNCHANGED wiring,
         phase[Out(c)] = "handshake", phase'[Out(c)] # "handshake",
         \A f \in End : f # Out(c) => phase'[f] = phase[f],
         UNCHANGED armed, intent'[c] = None,
         \A d \in Conn : \/ intent'[d] = intent[d]
                         \/ intent'[d] = None /\ d = c
                         \/ intent'[d].why = "known" /\ Free(d),
         reconnecting' = IF intent[c].why = "again"
                         THEN [reconnecting EXCEPT ![dialer[c]] = @ \ {Key(Out(c))}]
                         ELSE reconnecting
  PROVE  HandshakeIsDialled' /\ LoopDials'
<1> USE DEF MeshInv, NodeInv
<1>1. Out(c) \in End
  BY ConnEnds
<1>2. intent[c] # None /\ intent[c].by = dialer[c] /\ intent[c].to = Key(Out(c))
  BY <1>1 DEF HandshakeIsDialled
<1>3. HandshakeIsDialled'
  <2> SUFFICES ASSUME NEW d \in Conn, phase'[Out(d)] = "handshake"
               PROVE  /\ intent'[d] # None /\ intent'[d].by = dialer[d]
                      /\ intent'[d].to = Key(Out(d))
    BY <1>1, SameWiring DEF HandshakeIsDialled, wiring
  <2>1. d # c /\ Out(d) \in End /\ phase[Out(d)] = "handshake"
    BY <1>1, ConnEnds
  <2>2. dialer[d] # None
    BY <2>1 DEF IInv, UndialledIsUnused
  <2>3. intent'[d] = intent[d]
    BY <2>1, <2>2 DEF Free
  <2> QED BY <2>1, <2>3 DEF HandshakeIsDialled
<1>4. \/ UNCHANGED reconnecting
      \/ /\ Again(dialer[c], c)
         /\ reconnecting' = [reconnecting EXCEPT ![dialer[c]] = @ \ {intent[c].to}]
  BY <1>2 DEF Again
<1>5. dialer[c] \in Node
  BY <1>1, UsedEnd, ConnEnds DEF IInv
<1>6. LoopDials'
  BY <1>4, <1>5, IntentOver
<1> QED BY <1>3, <1>6

\* The dials that a HELLO_ACK starts.
LEMMA StartedDials ==
  ASSUME NodeTypeOK, NEW c \in Conn, NEW n \in Node, NEW wanted \in SUBSET PeerKey,
         StartDials(c, n, wanted)
  PROVE  /\ intent' \in [Conn -> Intent \cup {None}] /\ intent'[c] = None
         /\ \A d \in Conn : \/ intent'[d] = intent[d]
                            \/ intent'[d] = None /\ d = c
                            \/ intent'[d].why = "known" /\ Free(d)
<1> DEFINE free == {d \in Conn : Free(d)}
<1>1. PICK f \in [wanted -> free] :
        intent' = [d \in Conn |->
          IF d = c THEN None
          ELSE IF \E p \in wanted : f[p] = d
               THEN [by |-> n, to |-> CHOOSE p \in wanted : f[p] = d,
                     why |-> "known", interests |-> caps[n]]
               ELSE intent[d]]
  BY DEF StartDials
<1>2. ASSUME NEW d \in Conn
      PROVE  \/ intent'[d] = intent[d]
             \/ intent'[d] = None /\ d = c
             \/ intent'[d] \in Intent /\ intent'[d].why = "known" /\ Free(d)
  <2>1. CASE d = c
    BY <1>1, <2>1
  <2>2. CASE d # c /\ \E p \in wanted : f[p] = d
    <3> DEFINE to == CHOOSE p \in wanted : f[p] = d
    <3>1. to \in wanted /\ f[to] = d
      BY <2>2
    <3>2. to \in PeerKey /\ d \in free
      BY <1>1, <3>1
    <3>3. intent'[d] = [by |-> n, to |-> to, why |-> "known", interests |-> caps[n]]
      BY <1>1, <2>2
    <3> HIDE DEF to
    <3>4. intent'[d] \in Intent /\ intent'[d].why = "known"
      BY <3>2, <3>3 DEF Intent, NodeTypeOK
    <3> QED BY <3>2, <3>4
  <2>3. CASE d # c /\ ~\E p \in wanted : f[p] = d
    BY <1>1, <2>3
  <2> QED BY <2>1, <2>2, <2>3
<1>3. \A d \in Conn : intent'[d] \in Intent \cup {None}
  BY <1>2 DEF NodeTypeOK
<1>4. DOMAIN intent' = Conn /\ intent' = [d \in Conn |-> intent'[d]] /\ intent'[c] = None
  BY <1>1
<1> QED BY <1>2, <1>3, <1>4

\* The peers of a HELLO_ACK are keys.
LEMMA ListedTypes ==
  ASSUME MeshInv, NEW c \in Conn, inbox[Out(c)] # <<>>, Head(inbox[Out(c)]).type = "HELLO_ACK",
         NEW n, NEW k
  PROVE  ToDial(n, k, Head(inbox[Out(c)]).known_peers) \subseteq PeerKey
<1>1. Head(inbox[Out(c)]) \in AckMsg
  BY HeadType, MessageOfType, ConnEnds DEF MeshInv, IInv
<1> QED BY <1>1, AckShape DEF ToDial

\* A HELLO_ACK is handled.
LEMMA ConnectedStep ==
  ASSUME MeshInv, NEW c \in Conn, NEW stale, Connected(c, stale)
  PROVE  NodeInv'
<1> USE DEF MeshInv, NodeInv
<1> DEFINE n == dialer[c]
           k == Key(Out(c))
           listed == ToDial(n, k, Head(inbox[Out(c)]).known_peers)
<1>1. /\ RecvAck(c, stale, FALSE) /\ OnHello(n, k, Head(inbox[Out(c)]))
      /\ reconnecting' = IF intent[c].why = "again"
                         THEN [reconnecting EXCEPT ![n] = @ \ {k}]
                         ELSE reconnecting
      /\ reached' = [reached EXCEPT ![n] = @ \cup ({k} \cap Configured[n])]
      /\ UNCHANGED <<caps, todo, armed>>
  BY DEF Connected
<1>2. /\ UNCHANGED wiring /\ Out(c) \in End
      /\ phase[Out(c)] = "handshake" /\ inbox[Out(c)] # <<>>
      /\ Head(inbox[Out(c)]).type = "HELLO_ACK"
      /\ phase'[Out(c)] = "reading"
      /\ \A f \in End : f # Out(c) => phase'[f] = phase[f]
  BY <1>1, RecvAckFiles
<1>3. n \in Node /\ k \in PeerKey /\ n = Owner(Out(c))
  BY <1>2, UsedEnd, ConnEnds DEF IInv
<1>4. listed \subseteq PeerKey
  BY <1>2, ListedTypes
<1>5. PICK wanted \in SUBSET listed : StartDials(c, n, wanted)
  BY DEF Connected
<1> HIDE DEF listed, k, n
<1>6. /\ intent' \in [Conn -> Intent \cup {None}] /\ intent'[c] = None
      /\ \A d \in Conn : \/ intent'[d] = intent[d]
                         \/ intent'[d] = None /\ d = c
                         \/ intent'[d].why = "known" /\ Free(d)
  BY <1>3, <1>4, <1>5, StartedDials
<1>9. /\ routing' \in [Node -> TableOver(PeerKey, Cap)]
      /\ \A m \in Node : routing'[m].known \subseteq
           routing[m].known \cup (IF m = Owner(Out(c)) THEN {Key(Out(c))} ELSE {})
  BY <1>1, <1>2, <1>3, OnHelloStep DEF n, k
<1>10. NodeTypeOK'
  <2>1. reconnecting' \in [Node -> SUBSET PeerKey] /\ reached' \in [Node -> SUBSET PeerKey]
    BY <1>1, <1>3 DEF NodeTypeOK
  <2> QED BY <1>1, <1>6, <1>9, <2>1 DEF NodeTypeOK
<1>11. RoutedHasReader'
  BY <1>2, <1>9, ReadersAdded
<1>12. HandshakeIsDialled' /\ LoopDials'
  BY <1>1, <1>2, <1>6, DialOver DEF n, k
<1> QED BY <1>10, <1>11, <1>12

\* What DialRaised keeps.
LEMMA DialRaisedTypes ==
  ASSUME NodeTypeOK, NEW c \in Conn, DialRaised(c)
  PROVE  /\ reconnecting' \in [Node -> SUBSET PeerKey] /\ reached' \in [Node -> SUBSET PeerKey]
         /\ todo' \in [Node -> SUBSET PeerKey] /\ UNCHANGED <<caps, armed>>
         /\ reconnecting' = IF intent[c].why = "again"
                            THEN [reconnecting EXCEPT ![dialer[c]] = @ \ {Key(Out(c))}]
                            ELSE reconnecting
         /\ reached' = [reached EXCEPT ![dialer[c]] = @ \ {Key(Out(c))}]
BY DEF DialRaised, NodeTypeOK

\* The handler raises on a HELLO_ACK.
LEMMA AckRaisesStep ==
  ASSUME MeshInv, NEW c \in Conn, NEW stale, AckRaises(c, stale)
  PROVE  NodeInv'
<1> USE DEF MeshInv, NodeInv
<1> DEFINE n == dialer[c]
           k == Key(Out(c))
           listed == ToDial(n, k, Head(inbox[Out(c)]).known_peers)
<1>1. /\ RecvAck(c, stale, TRUE) /\ MayHaveRegistered(n, k, Head(inbox[Out(c)]))
      /\ DialRaised(c)
  BY DEF AckRaises
<1>2. /\ UNCHANGED wiring /\ Out(c) \in End
      /\ phase[Out(c)] = "handshake" /\ inbox[Out(c)] # <<>>
      /\ Head(inbox[Out(c)]).type = "HELLO_ACK"
      /\ phase'[Out(c)] = "abandoned"
      /\ \A f \in End : f # Out(c) => phase'[f] = phase[f]
  BY <1>1, RecvAckFiles
<1>3. n \in Node /\ n = Owner(Out(c))
  BY <1>2, UsedEnd, ConnEnds DEF IInv
<1>4. listed \subseteq PeerKey
  BY <1>2, ListedTypes
<1>5. PICK wanted \in SUBSET listed : StartDials(c, n, wanted)
  BY DEF AckRaises
<1> HIDE DEF listed, k, n
<1>6. /\ intent' \in [Conn -> Intent \cup {None}] /\ intent'[c] = None
      /\ \A d \in Conn : \/ intent'[d] = intent[d]
                         \/ intent'[d] = None /\ d = c
                         \/ intent'[d].why = "known" /\ Free(d)
  BY <1>3, <1>4, <1>5, StartedDials
<1>7. /\ routing' \in [Node -> TableOver(PeerKey, Cap)]
      /\ \A m \in Node : routing'[m].known \subseteq
           routing[m].known \cup (IF m = Owner(Out(c)) THEN {Key(Out(c))} ELSE {})
  BY <1>1, <1>2, <1>3, MayHaveRegisteredStep DEF n, k
<1>8. NodeTypeOK'
  BY <1>1, <1>6, <1>7, DialRaisedTypes DEF NodeTypeOK
<1>9. RoutedHasReader'
  BY <1>2, <1>7, ReadersAdded
<1>10. HandshakeIsDialled' /\ LoopDials'
  BY <1>1, <1>2, <1>6, DialRaisedTypes, DialOver
<1> QED BY <1>8, <1>9, <1>10

\* The end of a dial whose send or recv raises.
LEMMA DialRaisesCuts ==
  ASSUME IInv, NEW c \in Conn, NEW sent, NEW closes, DialRaises(c, sent, closes)
  PROVE  /\ UNCHANGED <<wiring, up, peers>> /\ Out(c) \in End
         /\ phase[Out(c)] = "handshake" /\ phase'[Out(c)] = "cut"
         /\ \A f \in End : f # Out(c) => phase'[f] = phase[f]
<1>1. /\ UNCHANGED <<wiring, up, peers>> /\ phase[Out(c)] = "handshake"
      /\ phase' = [phase EXCEPT ![Out(c)] = "cut"]
  BY DEF DialRaises, DialCut
<1>2. Out(c) \in End /\ phase \in [End -> Phase]
  BY ConnEnds DEF IInv, TypeOK
<1> QED BY <1>1, <1>2

\* The send of a HELLO raises, or the wait for its HELLO_ACK.
LEMMA ConnectRaisesStep ==
  ASSUME MeshInv, NEW c \in Conn, NEW sent, NEW closes, ConnectRaises(c, sent, closes)
  PROVE  NodeInv'
<1> USE DEF MeshInv, NodeInv
<1>1. /\ DialRaises(c, sent, closes) /\ DialRaised(c) /\ UNCHANGED routing
      /\ intent' = [intent EXCEPT ![c] = None]
  BY DEF ConnectRaises
<1>2. /\ UNCHANGED wiring /\ Out(c) \in End
      /\ phase[Out(c)] = "handshake" /\ phase'[Out(c)] = "cut"
      /\ \A f \in End : f # Out(c) => phase'[f] = phase[f]
  BY <1>1, DialRaisesCuts
<1>3. intent'[c] = None /\ \A d \in Conn : d # c => intent'[d] = intent[d]
  BY <1>1 DEF NodeTypeOK
<1>4. NodeTypeOK'
  BY <1>1, DialRaisedTypes DEF NodeTypeOK
<1>5. RoutedHasReader'
  BY <1>1, <1>2, ReadersUntouched
<1>6. HandshakeIsDialled' /\ LoopDials'
  BY <1>1, <1>2, <1>3, DialRaisedTypes, DialOver
<1> QED BY <1>4, <1>5, <1>6

\* What OnBye does: the routes go, loops are started, dials stay.
LEMMA OnByeStep ==
  ASSUME MeshInv, NEW n \in Node, NEW keys, OnBye(n, keys)
  PROVE  /\ NodeTypeOK' /\ LoopDials' /\ UNCHANGED intent
         /\ \A m \in Node : routing'[m].known =
              IF m = n THEN routing[n].known \ keys ELSE routing[m].known
<1> USE DEF MeshInv, NodeInv
<1>1. /\ routing' = [routing EXCEPT ![n] = RemovePeers(@, keys)]
      /\ UNCHANGED <<caps, todo, intent, reached, armed>>
  BY DEF OnBye
<1>2. routing \in [Node -> TableOver(PeerKey, Cap)]
  BY DEF NodeTypeOK
<1>3. RemovePeers(routing[n], keys) \in TableOver(PeerKey, Cap)
  BY <1>2 DEF TableOver, RemovePeers
<1>4. routing' \in [Node -> TableOver(PeerKey, Cap)]
  BY <1>1, <1>2, <1>3
<1>5. \A m \in Node : routing'[m].known =
        IF m = n THEN routing[n].known \ keys ELSE routing[m].known
  BY <1>1, <1>2, KnownAfter
<1>6. Configured[n] \subseteq PeerKey
  BY ConfiguredType DEF PeerKey
<1>7. /\ reconnecting' \in [Node -> SUBSET PeerKey]
      /\ \A m \in Node : reconnecting[m] \subseteq reconnecting'[m]
  <2>1. \/ reconnecting' = reconnecting
        \/ reconnecting' = [reconnecting EXCEPT ![n] = @ \cup (keys \cap Configured[n])]
    BY DEF OnBye
  <2>2. reconnecting \in [Node -> SUBSET PeerKey]
    BY DEF NodeTypeOK
  <2> QED BY <1>6, <2>1, <2>2
<1>8. NodeTypeOK'
  BY <1>1, <1>4, <1>7 DEF NodeTypeOK
<1> QED BY <1>1, <1>5, <1>7, <1>8, LoopsUntouched

\* A frame of an established connection is handled.  The peer of an
\* INTEREST_UPDATE is registered, whether it was known or not: its end is read.
LEMMA ReceiveStep ==
  ASSUME MeshInv, NEW e \in End, Receive(e)
  PROVE  NodeInv'
<1> USE DEF MeshInv, NodeInv
<1> DEFINE n == Owner(e)
           msg == Head(inbox[e])
<1>1. /\ UNCHANGED <<wiring, phase>> /\ phase[e] = "reading" /\ inbox[e] # <<>>
  BY DEF Receive, Read
<1>2. n \in Node /\ Key(e) \in PeerKey
  BY <1>1, UsedEnd DEF IInv
<1>3. CASE msg.type = "BYE" /\ OnBye(n, {Key(e)})
  <2>1. /\ NodeTypeOK' /\ LoopDials' /\ UNCHANGED intent
        /\ \A m \in Node : routing'[m].known \subseteq routing[m].known
    BY <1>2, <1>3, OnByeStep
  <2> QED BY <1>1, <2>1, DialsUntouched, ReadersUntouched
<1>4. CASE /\ msg.type = "INTEREST_UPDATE" /\ OnInterestUpdate(n, Key(e), msg)
           /\ UNCHANGED <<caps, todo, intent, reconnecting, reached, armed>>
  <2>1. msg.interests \in SUBSET Cap
    <3>1. msg \in AppMsg
      BY <1>1, <1>4, HeadType, MessageOfType DEF IInv
    <3> QED BY <3>1, AppShape
  <2> HIDE DEF msg, n
  <2>2. routing \in [Node -> TableOver(PeerKey, Cap)]
    BY DEF NodeTypeOK
  <2> DEFINE cs == PeerCaps(routing[n], Key(e))
             table == RegisterPeer(routing[n], Key(e), cs, msg.interests)
  <2>3. cs \in SUBSET Cap
    BY <1>2, <2>1, <2>2, TableTypes
  <2>4. table \in TableOver(PeerKey, Cap) /\ table.known = routing[n].known \cup {Key(e)}
    BY <1>2, <2>1, <2>2, <2>3, TableTypes, KnownAfter
  <2>5. routing' = [routing EXCEPT ![n] = table]
    BY <1>4 DEF OnInterestUpdate
  <2> HIDE DEF table, cs
  <2>6. /\ routing' \in [Node -> TableOver(PeerKey, Cap)]
        /\ \A m \in Node : routing'[m].known \subseteq
             routing[m].known \cup (IF m = n THEN {Key(e)} ELSE {})
    BY <1>2, <2>2, <2>4, <2>5
  <2>7. NodeTypeOK'
    BY <1>4, <2>6 DEF NodeTypeOK
  <2>8. RoutedHasReader'
    BY <1>1, <2>6, ReadersAdded DEF n
  <2> QED BY <1>1, <1>4, <2>7, <2>8, DialsUntouched, LoopsUntouched
<1> QED BY <1>3, <1>4 DEF Receive

\* A read loop ends: what it read for is no longer routed to.
LEMMA LostStep ==
  ASSUME MeshInv, NEW e \in End, Lost(e)
  PROVE  NodeInv'
<1> USE DEF MeshInv, NodeInv
<1> DEFINE n == Owner(e)
<1>1. phase[e] = "reading" /\ EndLoop(e) /\ OnBye(n, {Key(e)})
  BY DEF Lost, LoopDone, LoopBreaks
<1>2. UNCHANGED wiring /\ phase' = [phase EXCEPT ![e] = "done"]
  BY <1>1 DEF EndLoop
<1>3. \A f \in End : phase'[f] = IF f = e THEN "done" ELSE phase[f]
  BY <1>2 DEF IInv, TypeOK
<1>4. n \in Node
  BY <1>1, UsedEnd DEF IInv
<1>5. /\ NodeTypeOK' /\ LoopDials' /\ UNCHANGED intent
      /\ \A m \in Node : routing'[m].known =
           IF m = n THEN routing[n].known \ {Key(e)} ELSE routing[m].known
  BY <1>1, <1>4, OnByeStep
<1>6. HandshakeIsDialled'
  BY <1>2, <1>3, <1>5, ConnEnds, DialsUntouched
<1>7. RoutedHasReader'
  <2>1. \A f : Owner(f)' = Owner(f) /\ Key(f)' = Key(f)
    BY <1>2, SameWiring
  <2> SUFFICES ASSUME NEW m \in Node, NEW k \in routing'[m].known
               PROVE  \E f \in End : /\ phase'[f] \in {"reading", "abandoned"}
                                     /\ Owner(f) = m /\ Key(f) = k
    BY <2>1, RouteKeepers DEF RouteHasKeeper
  <2>2. k \in routing[m].known /\ ~(m = n /\ k = Key(e))
    BY <1>5
  <2>3. PICK f \in End : /\ phase[f] \in {"reading", "abandoned"}
                         /\ Owner(f) = m /\ Key(f) = k
    BY <2>2, RouteKeepers DEF RouteHasKeeper
  <2> QED BY <1>3, <2>2, <2>3
<1> QED BY <1>5, <1>6, <1>7

\* A round of heartbeats takes entries out.
LEMMA PurgeStep ==
  ASSUME MeshInv, NEW n \in Node, NEW idle \in SUBSET peers[n], Purge(n, idle)
  PROVE  NodeInv'
<1> USE DEF MeshInv, NodeInv
<1> DEFINE dead == Dead(n, idle)
<1>1. /\ UNCHANGED wiring /\ OnBye(n, {Key(e) : e \in dead})
      /\ \A f \in End : phase'[f] = IF f \in dead /\ phase[f] = "abandoned"
                                   THEN "done" ELSE phase[f]
  BY DEF Purge, Heartbeat
<1>2. \A f \in dead : Owner(f) = n
  BY DEF Dead, IInv, RegisteredIsServed
<1>3. /\ NodeTypeOK' /\ LoopDials' /\ UNCHANGED intent
      /\ \A m \in Node : routing'[m].known =
           IF m = n THEN routing[n].known \ {Key(e) : e \in dead} ELSE routing[m].known
  BY <1>1, OnByeStep
<1> HIDE DEF dead
<1>4. HandshakeIsDialled'
  BY <1>1, <1>3, ConnEnds, DialsUntouched
<1>5. RoutedHasReader'
  <2>1. \A f : Owner(f)' = Owner(f) /\ Key(f)' = Key(f)
    BY <1>1, SameWiring
  <2> SUFFICES ASSUME NEW m \in Node, NEW k \in routing'[m].known
               PROVE  \E f \in End : /\ phase'[f] \in {"reading", "abandoned"}
                                     /\ Owner(f) = m /\ Key(f) = k
    BY <2>1, RouteKeepers DEF RouteHasKeeper
  <2>2. k \in routing[m].known /\ (m = n => \A f \in dead : Key(f) # k)
    BY <1>3
  <2>3. PICK f \in End : /\ phase[f] \in {"reading", "abandoned"}
                         /\ Owner(f) = m /\ Key(f) = k
    BY <2>2, RouteKeepers DEF RouteHasKeeper
  <2>4. f \notin dead
    BY <1>2, <2>2, <2>3
  <2> QED BY <1>1, <2>3, <2>4
<1> QED BY <1>3, <1>4, <1>5

-----------------------------------------------------------------------------
\* The life cycle of a node

\* register() touches neither table.
LEMMA RegisterStep ==
  ASSUME MeshInv, NEW n \in Node, Register(n)
  PROVE  NodeInv'
<1> USE DEF MeshInv, NodeInv
<1>1. /\ caps' = [caps EXCEPT ![n] = Offers[n]]
      /\ UNCHANGED <<routing, todo, intent, reconnecting, reached, armed>>
      /\ UNCHANGED <<wiring, phase>>
  BY DEF Register, Broadcast, vars, wiring
<1>2. NodeTypeOK'
  BY <1>1, OffersType DEF NodeTypeOK
<1> QED BY <1>1, <1>2, DialsUntouched, ReadersUntouched, LoopsUntouched

\* disconnect() ends the loops that sleep; those that dial stay.
LEMMA DisconnectStep ==
  ASSUME MeshInv, NEW n \in Node, Disconnect(n)
  PROVE  NodeInv'
<1> USE DEF MeshInv, NodeInv
<1>1. /\ UNCHANGED <<wiring, phase, caps, routing, todo, intent, reached>>
      /\ reconnecting' = [reconnecting EXCEPT ![n] = @ \cap Dialling(n, "again")]
      /\ armed' = [armed EXCEPT ![n] = {}]
  BY DEF Disconnect, Stop
<1>2. NodeTypeOK'
  BY <1>1 DEF NodeTypeOK
<1>3. HandshakeIsDialled' /\ RoutedHasReader'
  BY <1>1, DialsUntouched, ReadersUntouched
<1>4. LoopDials'
  <2>1. \A m \in Node, c \in Conn : Again(m, c)' <=> Again(m, c)
    BY <1>1 DEF Again
  <2>2. \A m \in Node : /\ armed'[m] = IF m = n THEN {} ELSE armed[m]
                        /\ reconnecting'[m] = IF m = n THEN reconnecting[n] \cap Dialling(n, "again")
                                                       ELSE reconnecting[m]
    BY <1>1 DEF NodeTypeOK
  <2>3. \A c \in Conn : Again(n, c) => intent[c].to \in Dialling(n, "again")
    BY DEF Again, Dialling
  <2> QED BY <1>1, <2>1, <2>2, <2>3 DEF LoopDials
<1> QED BY <1>2, <1>3, <1>4

\* A process takes its dials, loops and routes with it.
LEMMA ProcessEndsStep ==
  ASSUME MeshInv, NEW n \in Node, ProcessEnds(n)
  PROVE  NodeInv'
<1> USE DEF MeshInv, NodeInv
<1>1. /\ UNCHANGED wiring
      /\ \A e \in End : phase'[e] = IF phase[e] # "unused" /\ Owner(e) = n
                                    THEN "done" ELSE phase[e]
  BY DEF ProcessEnds, Exit
<1>2. /\ caps' = [caps EXCEPT ![n] = {}]
      /\ routing' = [routing EXCEPT ![n] = EmptyTable]
      /\ todo' = [todo EXCEPT ![n] = Configured[n]]
      /\ intent' = [c \in Conn |-> IF intent[c] # None /\ intent[c].by = n
                                   THEN None ELSE intent[c]]
      /\ reconnecting' = [reconnecting EXCEPT ![n] = {}]
      /\ reached' = [reached EXCEPT ![n] = {}]
      /\ armed' = [armed EXCEPT ![n] = {}]
  BY DEF ProcessEnds
<1>3. NodeTypeOK'
  <2>1. EmptyTable \in TableOver(PeerKey, Cap)
    BY DEF EmptyTable, TableOver
  <2>2. Configured[n] \subseteq PeerKey
    BY ConfiguredType DEF PeerKey
  <2>3. intent' \in [Conn -> Intent \cup {None}]
    BY <1>2 DEF NodeTypeOK
  <2> QED BY <1>2, <2>1, <2>2, <2>3 DEF NodeTypeOK
<1>4. HandshakeIsDialled'
  <2> SUFFICES ASSUME NEW c \in Conn, phase'[Out(c)] = "handshake"
               PROVE  /\ intent'[c] # None /\ intent'[c].by = dialer[c]
                      /\ intent'[c].to = Key(Out(c))
    BY <1>1, SameWiring DEF HandshakeIsDialled, wiring
  <2>1. phase[Out(c)] = "handshake" /\ dialer[c] # n
    BY <1>1, ConnEnds
  <2>2. intent[c] # None /\ intent[c].by = dialer[c] /\ intent[c].to = Key(Out(c))
    BY <2>1 DEF HandshakeIsDialled
  <2>3. intent'[c] = intent[c]
    BY <1>2, <2>1, <2>2
  <2> QED BY <2>2, <2>3
<1>5. RoutedHasReader'
  <2>1. \A e : Owner(e)' = Owner(e) /\ Key(e)' = Key(e)
    BY <1>1, SameWiring
  <2>2. \A m \in Node : routing'[m].known = IF m = n THEN {} ELSE routing[m].known
    BY <1>2, KnownAfter DEF NodeTypeOK
  <2> SUFFICES ASSUME NEW m \in Node, NEW k \in routing'[m].known
               PROVE  \E e \in End : /\ phase'[e] \in {"reading", "abandoned"}
                                     /\ Owner(e) = m /\ Key(e) = k
    BY <2>1, RouteKeepers DEF RouteHasKeeper
  <2>3. m # n /\ k \in routing[m].known
    BY <2>2
  <2>4. PICK e \in End : /\ phase[e] \in {"reading", "abandoned"}
                         /\ Owner(e) = m /\ Key(e) = k
    BY <2>3, RouteKeepers DEF RouteHasKeeper
  <2> QED BY <1>1, <2>3, <2>4
<1>6. LoopDials'
  <2>1. \A m \in Node, c \in Conn : Again(m, c)' => m # n /\ Again(m, c) /\ intent'[c] = intent[c]
    BY <1>2 DEF Again
  <2>2. \A m \in Node : /\ armed'[m] = IF m = n THEN {} ELSE armed[m]
                        /\ reconnecting'[m] = IF m = n THEN {} ELSE reconnecting[m]
    BY <1>2 DEF NodeTypeOK
  <2> QED BY <2>1, <2>2 DEF LoopDials
<1> QED BY <1>3, <1>4, <1>5, <1>6

\* A step that leaves the nodes, the wiring and the phases as they are.
LEMMA NothingStep ==
  ASSUME MeshInv, UNCHANGED <<wiring, phase, nodeVars>>
  PROVE  NodeInv'
<1> USE DEF MeshInv, NodeInv
<1>1. UNCHANGED <<caps, routing, todo, intent, reconnecting, reached, armed>>
  BY DEF nodeVars
<1>2. NodeTypeOK'
  BY <1>1 DEF NodeTypeOK
<1> QED BY <1>1, <1>2, DialsUntouched, ReadersUntouched, LoopsUntouched

-----------------------------------------------------------------------------
\* The theorems

\* The mesh starts with the invariant.
LEMMA InitMeshInv == NodeInit => MeshInv
<1> SUFFICES ASSUME NodeInit PROVE MeshInv
  OBVIOUS
<1>1. IInv
  BY InitIInv DEF NodeInit
<1>2. NodeTypeOK
  <2>1. EmptyTable \in TableOver(PeerKey, Cap)
    BY DEF EmptyTable, TableOver
  <2>2. Configured \in [Node -> SUBSET PeerKey]
    BY ConfiguredType DEF PeerKey
  <2> QED BY <2>1, <2>2 DEF NodeInit, NodeTypeOK
<1>3. HandshakeIsDialled
  BY ConnEnds DEF NodeInit, Init, HandshakeIsDialled
<1>4. RoutedHasReader
  BY DEF NodeInit, RoutedHasReader, EmptyTable
<1>5. LoopDials
  BY DEF NodeInit, LoopDials, Again
<1> QED BY <1>1, <1>2, <1>3, <1>4, <1>5 DEF MeshInv, NodeInv

\* Every step of the mesh keeps it.
LEMMA NextMeshInv == MeshInv /\ [NodeNext]_allVars => MeshInv'
<1> SUFFICES ASSUME MeshInv, [NodeNext]_allVars PROVE MeshInv'
  OBVIOUS
<1>1. [Next]_vars
  BY StepRefines DEF MeshInv, NodeInv, allVars
<1>2. IInv'
  BY <1>1, NextIInv DEF MeshInv
<1>3. NodeInv'
  <2>1. CASE \E n \in Node, c \in Conn :
               \/ \E k \in todo[n] : Boot(n, k, c)
               \/ \E m \in Node, a \in Address : Discover(n, m, a, c)
               \/ \E k \in armed[n] : ReconnectDial(n, k, c)
    <3>1. PICK n \in Node, c \in Conn :
               \/ \E k \in todo[n] : Boot(n, k, c)
               \/ \E m \in Node, a \in Address : Discover(n, m, a, c)
               \/ \E k \in armed[n] : ReconnectDial(n, k, c)
      BY <2>1
    <3>2. NodeTypeOK
      BY DEF MeshInv, NodeInv
    <3>3. ASSUME NEW k \in todo[n], Boot(n, k, c) PROVE NodeInv'
      <4>1. k \in PeerKey /\ todo' \in [Node -> SUBSET PeerKey]
        BY <3>2, <3>3 DEF Boot, NodeTypeOK
      <4>2. /\ Decide(n, k, "boot", c) /\ UNCHANGED armed
            /\ UNCHANGED <<vars, caps, routing, reconnecting, reached>>
        BY <3>3 DEF Boot
      <4> QED BY <4>1, <4>2, DecideStep
    <3>4. ASSUME NEW m \in Node, NEW a \in Address, Discover(n, m, a, c) PROVE NodeInv'
      <4>1. <<m, a>> \in PeerKey /\ todo' \in [Node -> SUBSET PeerKey]
        BY <3>2, <3>4 DEF Discover, NodeTypeOK, PeerKey
      <4>2. /\ Decide(n, <<m, a>>, "lan", c) /\ UNCHANGED armed
            /\ UNCHANGED <<vars, caps, routing, reconnecting, reached>>
        BY <3>4 DEF Discover
      <4> QED BY <4>1, <4>2, DecideStep
    <3>5. ASSUME NEW k \in armed[n], ReconnectDial(n, k, c) PROVE NodeInv'
      <4>1. k \in PeerKey /\ todo' \in [Node -> SUBSET PeerKey]
        BY <3>2, <3>5 DEF ReconnectDial, NodeTypeOK
      <4>2. /\ Decide(n, k, "again", c) /\ armed' = [armed EXCEPT ![n] = @ \ {k}]
            /\ UNCHANGED <<vars, caps, routing, reconnecting, reached>>
        BY <3>5 DEF ReconnectDial
      <4> QED BY <4>1, <4>2, DecideStep
    <3> QED BY <3>1, <3>3, <3>4, <3>5
  <2>2. CASE \E n \in Node : \E k \in reconnecting[n] : ReconnectCheck(n, k)
    BY <2>2, CheckStep
  <2>3. CASE \E c \in Conn : OpenConnection(c) \/ OpenFails(c)
    BY <2>3, OpenStep, DialFailsStep
  <2>4. CASE \E c \in Conn : NodeAccepts(c)
    BY <2>4, AcceptsStep
  <2>5. CASE \E c \in Conn : NodeConnects(c)
    <3>1. PICK c \in Conn : NodeConnects(c)
      BY <2>5
    <3>2. CASE \E stale \in StaleSets(Out(c)) : Connected(c, stale)
      BY <3>2, ConnectedStep
    <3>3. CASE \E stale \in StaleSets(Out(c)) : AckRaises(c, stale)
      BY <3>3, AckRaisesStep
    <3>5. CASE \E sent, closes \in BOOLEAN : ConnectRaises(c, sent, closes)
      BY <3>5, ConnectRaisesStep
    <3>4. CASE ConnectFails(c)
      BY <3>4, DialFailsStep
    <3> QED BY <3>1, <3>2, <3>3, <3>4, <3>5, Zenon DEF NodeConnects
  <2>6. CASE \E e \in End : Receive(e) \/ Lost(e)
    BY <2>6, ReceiveStep, LostStep
  <2>7. CASE \E n \in Node : \E idle \in SUBSET peers[n] : Purge(n, idle)
    BY <2>7, PurgeStep
  <2>8. CASE \E n \in Node : Register(n) \/ Disconnect(n) \/ ProcessEnds(n)
    BY <2>8, RegisterStep, DisconnectStep, ProcessEndsStep
  <2>9. CASE \E n \in Node : ProcessStarts(n)
    BY <2>9, NothingStep DEF ProcessStarts, Start
  <2>11. CASE \E n \in Node, e \in End : SendFails(n, e) /\ UNCHANGED nodeVars
    BY <2>11, NothingStep DEF SendFails
  <2>10. CASE UNCHANGED allVars
    BY <2>10, NothingStep DEF allVars, vars, wiring
  <2> QED BY <2>1, <2>2, <2>3, <2>4, <2>5, <2>6, <2>7, <2>8, <2>9, <2>10, <2>11
         DEF NodeNext
<1> QED BY <1>2, <1>3 DEF MeshInv

\* The invariant of a mesh of nodes.
THEOREM MeshInvariant == NodeSpec => []MeshInv
<1> QED BY InitMeshInv, NextMeshInv, PTL DEF NodeSpec

\* Types.
THEOREM NodeTypes == NodeSpec => []NodeTypeOK
<1>1. MeshInv => NodeTypeOK
  BY DEF MeshInv, NodeInv
<1> QED BY <1>1, MeshInvariant, PTL

\* Every peer that is routed to or listed to others has a read loop left that
\* will take it out of the routing table, or an abandoned entry left to the purge,
\* or is that of a leaked end.
THEOREM RoutedPeersHaveReaders == NodeSpec => []RoutedHasReader
<1>1. MeshInv => RoutedHasReader
  BY DEF MeshInv, NodeInv
<1> QED BY <1>1, MeshInvariant, PTL

\* Each reconnection loop dials one connection at a time.
THEOREM LoopsDialOneAtATime == NodeSpec => []OneDialPerLoop
<1>1. MeshInv => OneDialPerLoop
  <2> SUFFICES ASSUME LoopDials PROVE OneDialPerLoop
    BY DEF MeshInv, NodeInv
  <2>1. \A n \in Node : Dialling(n, "again") = {intent[c].to : c \in {d \in Conn : Again(n, d)}}
    BY DEF Dialling, Again
  <2> SUFFICES ASSUME NEW n \in Node
               PROVE  /\ armed[n] \cup Dialling(n, "again") \subseteq reconnecting[n]
                      /\ armed[n] \cap Dialling(n, "again") = {}
                      /\ \A c, d \in Conn :
                           (Again(n, c) /\ Again(n, d) /\ intent[c].to = intent[d].to)
                             => c = d
    BY DEF OneDialPerLoop
  <2> QED BY <2>1 DEF LoopDials
<1> QED BY <1>1, MeshInvariant, PTL
-----------------------------------------------------------------------------
\* Reconnection

\* Why the loop of n for k may end: the node shuts down, the peer is filed by now,
\* or the loop's own dial raises.
Served(n, k) ==
  up'[n] # "up" \/ (\E e \in peers'[n] : Key(e)' = k) \/ LoopRaises(n, k)

\* A dial that came to nothing ends no loop of a running node.
LEMMA UndialledKeepsLoops ==
  ASSUME MeshInv, NEW c \in Conn, Undialled(c), UNCHANGED up,
         NEW n \in Node, NEW k \in reconnecting[n]
  PROVE  k \in reconnecting'[n] \/ up'[n] # "up"
<1>1. reconnecting \in [Node -> SUBSET PeerKey]
  BY DEF MeshInv, NodeInv, NodeTypeOK
<1>2. \/ reconnecting' = reconnecting
      \/ /\ up[intent[c].by] # "up"
         /\ reconnecting' = [reconnecting EXCEPT ![intent[c].by] = @ \ {intent[c].to}]
  BY DEF Undialled
<1>3. CASE n = intent[c].by
  BY <1>2, <1>3
<1>4. CASE n # intent[c].by
  BY <1>1, <1>2, <1>4
<1> QED BY <1>3, <1>4

\* OnBye ends none.
LEMMA OnByeKeepsLoops ==
  ASSUME MeshInv, NEW m \in Node, NEW keys, OnBye(m, keys), NEW n \in Node
  PROVE  /\ reconnecting[n] \subseteq reconnecting'[n]
         /\ up[m] = "up" => keys \cap Configured[m] \subseteq reconnecting'[m]
<1>1. reconnecting \in [Node -> SUBSET PeerKey]
  BY DEF MeshInv, NodeInv, NodeTypeOK
<1>2. CASE up[m] = "up"
  <2>1. reconnecting' = [reconnecting EXCEPT ![m] = @ \cup (keys \cap Configured[m])]
    BY <1>2 DEF OnBye
  <2> QED BY <1>1, <2>1
<1>3. CASE up[m] # "up"
  BY <1>3 DEF OnBye
<1> QED BY <1>2, <1>3

\* RecvAck files its end.
LEMMA RecvAckEnrols ==
  ASSUME MeshInv, NEW c \in Conn, NEW stale, NEW raised \in BOOLEAN, RecvAck(c, stale, raised)
  PROVE  /\ dialer[c] \in Node /\ Out(c) \in peers'[dialer[c]]
         /\ peers'[dialer[c]] \subseteq
              {f \in peers[dialer[c]] : Key(f) # Key(Out(c))} \cup {Out(c)}
         /\ \A n \in Node : n # dialer[c] => peers'[n] = peers[n]
         /\ Key(Out(c))' = Key(Out(c)) /\ UNCHANGED up
<1>1. /\ UNCHANGED wiring /\ Out(c) \in End /\ phase[Out(c)] = "handshake"
  BY RecvAckFiles DEF MeshInv
<1>2. dialer[c] = Owner(Out(c)) /\ dialer[c] \in Node
  BY <1>1, UsedEnd, ConnEnds DEF MeshInv, IInv
<1>3. peers \in [Node -> SUBSET End]
  BY DEF MeshInv, IInv, TypeOK
<1>4. peers' = [peers EXCEPT ![dialer[c]] =
                  {f \in @ \ stale : Key(f) # Key(Out(c))} \cup {Out(c)}]
  BY <1>2 DEF RecvAck, Enrol
<1>5. Key(Out(c))' = Key(Out(c)) /\ UNCHANGED up
  BY <1>1, SameWiring DEF RecvAck
<1> QED BY <1>2, <1>3, <1>4, <1>5

\* The loop whose dial got its HELLO_ACK is the only one to end then.
LEMMA AckEndsItsLoop ==
  ASSUME MeshInv, NEW c \in Conn, NEW n \in Node, NEW k \in reconnecting[n],
         \/ UNCHANGED reconnecting
         \/ reconnecting' = [reconnecting EXCEPT ![dialer[c]] = @ \ {Key(Out(c))}]
  PROVE  k \in reconnecting'[n] \/ (n = dialer[c] /\ k = Key(Out(c)))
<1>1. reconnecting \in [Node -> SUBSET PeerKey]
  BY DEF MeshInv, NodeInv, NodeTypeOK
<1> QED BY <1>1

\* A dial whose send or recv raises ends the loop that made it, and no other.
LEMMA RaiseEndsItsLoop ==
  ASSUME MeshInv, NEW c \in Conn, NEW sent, NEW closes, ConnectRaises(c, sent, closes),
         NEW n \in Node, NEW k \in reconnecting[n]
  PROVE  k \in reconnecting'[n] \/ Served(n, k)
<1>1. DialRaises(c, sent, closes) /\ DialRaised(c)
  BY DEF ConnectRaises
<1>2. /\ Out(c) \in End /\ phase[Out(c)] = "handshake" /\ phase'[Out(c)] = "cut"
  BY <1>1, DialRaisesCuts DEF MeshInv
<1>3. intent[c] # None /\ intent[c].by = dialer[c] /\ intent[c].to = Key(Out(c))
  BY <1>2 DEF MeshInv, NodeInv, HandshakeIsDialled
<1>4. reconnecting' = IF intent[c].why = "again"
                      THEN [reconnecting EXCEPT ![dialer[c]] = @ \ {Key(Out(c))}]
                      ELSE reconnecting
  BY <1>1 DEF DialRaised
<1>5. CASE intent[c].why = "again"
  <2>1. k \in reconnecting'[n] \/ (n = dialer[c] /\ k = Key(Out(c)))
    BY <1>4, <1>5, AckEndsItsLoop
  <2>2. CASE n = dialer[c] /\ k = Key(Out(c))
    BY <1>2, <1>3, <1>5, <2>2 DEF Served, LoopRaises, Again
  <2> QED BY <2>1, <2>2
<1>6. CASE intent[c].why # "again"
  BY <1>4, <1>6
<1> QED BY <1>5, <1>6

\* No step ends a loop otherwise.
LEMMA LoopsEndServed ==
  ASSUME MeshInv, [NodeNext]_allVars, NEW n \in Node, NEW k \in reconnecting[n]
  PROVE  k \in reconnecting'[n] \/ Served(n, k)
<1>1. CASE \E m \in Node, c \in Conn :
             \/ \E j \in todo[m] : Boot(m, j, c)
             \/ \E j \in Node, a \in Address : Discover(m, j, a, c)
             \/ \E j \in armed[m] : ReconnectDial(m, j, c)
  BY <1>1 DEF Boot, Discover, ReconnectDial
<1>2. CASE \E m \in Node : \E j \in reconnecting[m] : ReconnectCheck(m, j)
  <2>0. PICK m \in Node : \E j \in reconnecting[m] : ReconnectCheck(m, j)
    BY <1>2
  <2>1. PICK j \in reconnecting[m] : ReconnectCheck(m, j)
    BY <2>0
  <2>2. UNCHANGED peers /\ UNCHANGED wiring
    BY <2>1 DEF ReconnectCheck, vars, wiring
  <2>3. reconnecting \in [Node -> SUBSET PeerKey]
    BY DEF MeshInv, NodeInv, NodeTypeOK
  <2>4. CASE \E e \in peers[m] : Key(e) = j
    <3>1. reconnecting' = [reconnecting EXCEPT ![m] = @ \ {j}]
      BY <2>1, <2>4 DEF ReconnectCheck
    <3>2. k \in reconnecting'[n] \/ (n = m /\ k = j)
      BY <2>3, <3>1
    <3>3. n = m /\ k = j => \E e \in peers'[n] : Key(e)' = k
      BY <2>2, <2>4, SameWiring
    <3> QED BY <3>2, <3>3 DEF Served
  <2>5. CASE ~\E e \in peers[m] : Key(e) = j
    BY <2>1, <2>5 DEF ReconnectCheck
  <2> QED BY <2>4, <2>5
<1>3. CASE \E c \in Conn : OpenConnection(c) \/ OpenFails(c) \/ ConnectFails(c)
  <2>1. PICK c \in Conn : OpenConnection(c) \/ OpenFails(c) \/ ConnectFails(c)
    BY <1>3
  <2>2. CASE OpenConnection(c)
    BY <2>2 DEF OpenConnection, nodeVars
  <2>3. CASE OpenFails(c) \/ ConnectFails(c)
    <3>1. Undialled(c) /\ UNCHANGED up
      BY <2>3 DEF OpenFails, ConnectFails, DialFails, HandshakeOver, DialCancelled, DialCut, vars
    <3> QED BY <3>1, UndialledKeepsLoops DEF Served
  <2> QED BY <2>1, <2>2, <2>3
<1>4. CASE \E c \in Conn : NodeAccepts(c)
  BY <1>4 DEF NodeAccepts, Accept, nodeVars
<1>5. CASE \E c \in Conn : \E stale \in StaleSets(Out(c)) :
             Connected(c, stale) \/ AckRaises(c, stale)
  <2>0. PICK c \in Conn : \E stale \in StaleSets(Out(c)) :
               Connected(c, stale) \/ AckRaises(c, stale)
    BY <1>5
  <2>1. PICK stale \in StaleSets(Out(c)) : Connected(c, stale) \/ AckRaises(c, stale)
    BY <2>0
  <2>2. /\ \E raised \in BOOLEAN : RecvAck(c, stale, raised)
        /\ \/ UNCHANGED reconnecting
           \/ reconnecting' = [reconnecting EXCEPT ![dialer[c]] = @ \ {Key(Out(c))}]
    BY <2>1, Zenon DEF Connected, AckRaises, DialRaised
  <2>3. dialer[c] \in Node /\ Out(c) \in peers'[dialer[c]] /\ Key(Out(c))' = Key(Out(c))
    BY <2>2, RecvAckEnrols
  <2>4. k \in reconnecting'[n] \/ (n = dialer[c] /\ k = Key(Out(c)))
    BY <2>2, AckEndsItsLoop
  <2> QED BY <2>3, <2>4 DEF Served
<1>11. CASE \E c \in Conn : \E sent, closes \in BOOLEAN : ConnectRaises(c, sent, closes)
  BY <1>11, RaiseEndsItsLoop
<1>12. CASE \E m \in Node, e \in End : SendFails(m, e) /\ UNCHANGED nodeVars
  BY <1>12 DEF nodeVars
<1>6. CASE \E e \in End : Receive(e) \/ Lost(e)
  <2>1. PICK e \in End : Receive(e) \/ Lost(e)
    BY <1>6
  <2>2. Owner(e) \in Node
    BY <2>1, UsedEnd DEF Receive, Read, Lost, LoopDone, LoopBreaks, MeshInv, IInv
  <2>3. OnBye(Owner(e), {Key(e)}) \/ UNCHANGED reconnecting
    BY <2>1 DEF Receive, Lost
  <2> QED BY <2>2, <2>3, OnByeKeepsLoops
<1>7. CASE \E m \in Node : \E idle \in SUBSET peers[m] : Purge(m, idle)
  BY <1>7, OnByeKeepsLoops DEF Purge
<1>8. CASE \E m \in Node : Register(m) \/ ProcessStarts(m)
  BY <1>8 DEF Register, ProcessStarts, nodeVars
<1>9. CASE \E m \in Node : Disconnect(m) \/ ProcessEnds(m)
  <2>1. PICK m \in Node : Disconnect(m) \/ ProcessEnds(m)
    BY <1>9
  <2>2. up \in [Node -> {"up", "stopping", "down"}]
        /\ reconnecting \in [Node -> SUBSET PeerKey]
    BY DEF MeshInv, IInv, TypeOK, NodeInv, NodeTypeOK
  <2>3. up'[m] # "up"
    BY <2>1, <2>2 DEF Disconnect, Stop, ProcessEnds, Exit
  <2>4. n # m => reconnecting'[n] = reconnecting[n]
    BY <2>1, <2>2 DEF Disconnect, ProcessEnds
  <2> QED BY <2>3, <2>4 DEF Served
<1>10. CASE UNCHANGED allVars
  BY <1>10 DEF allVars, nodeVars
<1> QED BY <1>1, <1>2, <1>3, <1>4, <1>5, <1>6, <1>7, <1>8, <1>9, <1>10, <1>11, <1>12,
           Zenon DEF NodeNext, NodeConnects

\* A reconnection loop of a running node only ends with the peer filed under the
\* configured address, or because its own dial raises, however connections to the
\* peer, of this loop or of others, fail or are replaced.
THEOREM LoopsEndConnected == NodeSpec => LoopEndsConnected
<1>1. MeshInv /\ [NodeNext]_allVars =>
        [\A n \in Node : \A k \in reconnecting[n] :
           \/ k \in reconnecting'[n] \/ up'[n] # "up"
           \/ \E e \in peers'[n] : Key(e)' = k
           \/ LoopRaises(n, k)]_allVars
  BY LoopsEndServed DEF Served
<1> QED BY <1>1, MeshInvariant, PTL DEF NodeSpec, LoopEndsConnected

-----------------------------------------------------------------------------
\* Configured peers are never given up

\* What ReachedIsKept needs besides itself: only configured peers are reached, and
\* by a process that runs; the dialled entry of a reached peer has its read loop.
ReachedConfigured ==
  \A n \in Node : reached[n] \subseteq Configured[n] /\ (up[n] = "down" => reached[n] = {})
DiallersRun == \A c \in Conn : phase[Out(c)] = "handshake" => up[dialer[c]] # "down"
ReachedAreRead ==
  \A n \in Node, c \in Conn :
    Out(c) \in peers[n] /\ Key(Out(c)) \in reached[n] => phase[Out(c)] = "reading"

ReachedInv == ReachedConfigured /\ DiallersRun /\ ReachedAreRead /\ ReachedIsKept

\* An end keeps its read loop, or hands its key to a reconnection loop.
LEMMA KeptByOthers ==
  ASSUME ReachedInv, UNCHANGED wiring,
         \A n \in Node : up'[n] = "up" => up[n] = "up" \/ reached'[n] = {},
         \A n \in Node : reached'[n] \subseteq reached[n],
         \A n \in Node : up'[n] = "up" /\ up[n] = "up" =>
           \A k \in reached'[n] :
             /\ k \in reconnecting[n] =>
                  \/ k \in reconnecting'[n]
                  \/ \E e \in End : phase'[e] = "reading" /\ Owner(e) = n /\ Key(e) = k
             /\ \A e \in End : phase[e] = "reading" /\ Owner(e) = n /\ Key(e) = k =>
                  phase'[e] = "reading" \/ k \in reconnecting'[n]
  PROVE  ReachedIsKept'
<1>1. \A e : Owner(e)' = Owner(e) /\ Key(e)' = Key(e)
  BY SameWiring
<1> SUFFICES ASSUME NEW n \in Node, up'[n] = "up", NEW k \in reached'[n]
             PROVE  \/ k \in reconnecting'[n]
                    \/ \E e \in End : phase'[e] = "reading" /\ Owner(e) = n /\ Key(e) = k
  BY <1>1 DEF ReachedIsKept
<1>2. up[n] = "up" /\ k \in reached[n]
  OBVIOUS
<1>3. CASE k \in reconnecting[n]
  BY <1>2, <1>3
<1>4. CASE \E e \in End : phase[e] = "reading" /\ Owner(e) = n /\ Key(e) = k
  <2>1. PICK e \in End : phase[e] = "reading" /\ Owner(e) = n /\ Key(e) = k
    BY <1>4
  <2>2. phase'[e] = "reading" \/ k \in reconnecting'[n]
    BY <1>2, <2>1
  <2> QED BY <2>1, <2>2
<1> QED BY <1>2, <1>3, <1>4 DEF ReachedInv, ReachedIsKept

\* The first three parts, where processes, dials and dialled entries only go.
LEMMA KeptTables ==
  ASSUME ReachedInv, UNCHANGED wiring,
         \A n \in Node : reached'[n] \subseteq reached[n],
         \A n \in Node : up'[n] = "down" => up[n] = "down" \/ reached'[n] = {},
         \A c \in Conn : phase'[Out(c)] = "handshake" =>
           phase[Out(c)] = "handshake" /\ (up'[dialer[c]] # "down" \/ UNCHANGED up),
         \A n \in Node, c \in Conn :
           Out(c) \in peers'[n] /\ Key(Out(c)) \in reached'[n] =>
             /\ Out(c) \in peers[n]
             /\ phase[Out(c)] = "reading" => phase'[Out(c)] = "reading"
  PROVE  ReachedConfigured' /\ DiallersRun' /\ ReachedAreRead'
<1>1. dialer' = dialer
  BY DEF wiring
<1>2. ReachedConfigured'
  BY DEF ReachedInv, ReachedConfigured
<1>3. DiallersRun'
  BY <1>1 DEF ReachedInv, DiallersRun
<1>4. ReachedAreRead'
  <2>1. \A c : Key(Out(c))' = Key(Out(c))
    BY SameWiring
  <2> QED BY <2>1 DEF ReachedInv, ReachedAreRead
<1> QED BY <1>2, <1>3, <1>4

\* Handshakes may end; processes, dials, dialled entries, read loops and loops of
\* running nodes stay.
LEMMA ReachedUntouched ==
  ASSUME MeshInv, ReachedInv, UNCHANGED <<wiring, up, reached>>,
         \A e \in End : phase'[e] = phase[e] \/
           (phase[e] \in {"handshake", "abandoned"} /\ phase'[e] # "handshake"),
         \A n \in Node, c \in Conn : Out(c) \in peers'[n] => Out(c) \in peers[n],
         \A n \in Node : up[n] = "up" => reconnecting[n] \subseteq reconnecting'[n]
  PROVE  ReachedInv'
<1>1. \A c \in Conn : Out(c) \in End
  BY ConnEnds
<1>3. ReachedConfigured' /\ DiallersRun' /\ ReachedAreRead'
  BY <1>1, KeptTables
<1>4. ReachedIsKept'
  BY KeptByOthers
<1> QED BY <1>3, <1>4 DEF ReachedInv

\* A loop finds its peer connected: then it is read.
LEMMA CheckKeepsReached ==
  ASSUME MeshInv, ReachedInv, NEW m \in Node, NEW j \in reconnecting[m], ReconnectCheck(m, j)
  PROVE  ReachedInv'
<1>1. /\ UNCHANGED <<wiring, up, reached, phase, peers>>
  BY DEF ReconnectCheck, vars, wiring
<1>2. reconnecting \in [Node -> SUBSET PeerKey]
  BY DEF MeshInv, NodeInv, NodeTypeOK
<1>3. CASE UNCHANGED reconnecting
  BY <1>1, <1>3, ReachedUntouched
<1>4. CASE /\ \E e \in peers[m] : Key(e) = j
           /\ reconnecting' = [reconnecting EXCEPT ![m] = @ \ {j}]
  <2>1. ReachedConfigured' /\ DiallersRun' /\ ReachedAreRead'
    BY <1>1, KeptTables
  <2>2. \A n \in Node : \A k \in reconnecting[n] : k \in reconnecting'[n] \/ (n = m /\ k = j)
    BY <1>2, <1>4
  <2>3. ASSUME j \in reached[m]
        PROVE  \E e \in End : phase[e] = "reading" /\ Owner(e) = m /\ Key(e) = j
    <3>1. PICK e \in peers[m] : Key(e) = j
      BY <1>4
    <3>2. e \in End /\ Owner(e) = m
      BY <3>1 DEF MeshInv, IInv, TypeOK, RegisteredIsServed
    <3>3. j[2] \in Address
      BY <2>3, ConfiguredType DEF ReachedInv, ReachedConfigured
    <3>4. e = Out(e[1]) /\ e[1] \in Conn
      BY <3>1, <3>2, <3>3, KeysDisjoint, EndCases DEF Key
    <3>5. phase[e] = "reading"
      BY <2>3, <3>1, <3>4 DEF ReachedInv, ReachedAreRead
    <3> QED BY <3>1, <3>2, <3>5
  <2>4. ReachedIsKept'
    BY <1>1, <2>2, <2>3, KeptByOthers
  <2> QED BY <2>1, <2>4 DEF ReachedInv
<1> QED BY <1>3, <1>4 DEF ReconnectCheck

\* A dial comes to nothing: loops of running nodes go on.
LEMMA DialFailsKeepsReached ==
  ASSUME MeshInv, ReachedInv, NEW c \in Conn, OpenFails(c) \/ ConnectFails(c)
  PROVE  ReachedInv'
<1>1. Undialled(c) /\ UNCHANGED <<wiring, up, reached, peers>>
  BY DEF OpenFails, ConnectFails, DialFails, HandshakeOver, DialCancelled, DialCut, vars, wiring
<1>2. \A e \in End : phase'[e] = phase[e] \/
        (phase[e] = "handshake" /\ phase'[e] # "handshake")
  <2>1. \/ UNCHANGED phase
        \/ \E to \in {"done", "cut"} :
             phase[Out(c)] = "handshake" /\ phase' = [phase EXCEPT ![Out(c)] = to]
    BY DEF OpenFails, ConnectFails, DialFails, HandshakeOver, DialCancelled, DialCut, vars
  <2> QED BY <2>1 DEF MeshInv, IInv, TypeOK
<1>3. \A n \in Node : up[n] = "up" => reconnecting[n] \subseteq reconnecting'[n]
  BY <1>1, UndialledKeepsLoops
<1> QED BY <1>1, <1>2, <1>3, ReachedUntouched

\* A connection is opened, by a node that runs.
LEMMA OpenKeepsReached ==
  ASSUME MeshInv, ReachedInv, NEW c \in Conn, OpenConnection(c)
  PROVE  ReachedInv'
<1> DEFINE i == intent[c]
<1>2. /\ UNCHANGED <<reconnecting, reached, up, peers>> /\ up[i.by] # "down"
      /\ dialer'[c] = i.by
  BY Opened
<1>3. phase[Out(c)] = "unused" /\ \A e \in End : e[1] = c => phase[e] = "unused"
  BY Opened, ConnEnds
<1>4. ASSUME NEW e \in End, e[1] # c
      PROVE  /\ phase'[e] = phase[e] /\ Owner(e)' = Owner(e) /\ Key(e)' = Key(e)
             /\ dialer'[e[1]] = dialer[e[1]]
  BY <1>4, Opened
<1>5. ReachedConfigured'
  BY <1>2 DEF ReachedInv, ReachedConfigured
<1>6. DiallersRun'
  <2> SUFFICES ASSUME NEW d \in Conn, phase'[Out(d)] = "handshake"
               PROVE  up[dialer'[d]] # "down"
    BY <1>2 DEF DiallersRun
  <2>1. CASE d = c
    BY <1>2, <2>1
  <2>2. CASE d # c
    <3>1. Out(d) \in End /\ Out(d)[1] = d
      BY ConnEnds
    <3> QED BY <1>4, <2>2, <3>1 DEF ReachedInv, DiallersRun
  <2> QED BY <2>1, <2>2
<1>7. ReachedAreRead'
  <2> SUFFICES ASSUME NEW n \in Node, NEW d \in Conn, Out(d) \in peers[n],
                      Key(Out(d))' \in reached[n]
               PROVE  phase'[Out(d)] = "reading"
    BY <1>2 DEF ReachedAreRead
  <2>1. Out(d) \in End /\ Out(d)[1] = d
    BY ConnEnds
  <2>2. phase[Out(d)] # "unused"
    BY DEF MeshInv, IInv, RegisteredIsServed
  <2>3. d # c
    BY <1>3, <2>2
  <2>4. Key(Out(d))' = Key(Out(d)) /\ phase'[Out(d)] = phase[Out(d)]
    BY <1>4, <2>1, <2>3
  <2> QED BY <2>4 DEF ReachedInv, ReachedAreRead
<1>8. ReachedIsKept'
  <2> SUFFICES ASSUME NEW n \in Node, up[n] = "up", NEW k \in reached[n]
               PROVE  \/ k \in reconnecting[n]
                      \/ \E e \in End : phase'[e] = "reading" /\ Owner(e)' = n /\ Key(e)' = k
    BY <1>2 DEF ReachedIsKept
  <2>1. CASE \E e \in End : phase[e] = "reading" /\ Owner(e) = n /\ Key(e) = k
    <3>1. PICK e \in End : phase[e] = "reading" /\ Owner(e) = n /\ Key(e) = k
      BY <2>1
    <3>2. e[1] # c
      BY <1>3, <3>1
    <3> QED BY <1>4, <3>1, <3>2
  <2> QED BY <2>1 DEF ReachedInv, ReachedIsKept
<1> QED BY <1>5, <1>6, <1>7, <1>8 DEF ReachedInv

\* A HELLO is accepted, its handler raising or not, or refused.
LEMMA AcceptsKeepsReached ==
  ASSUME MeshInv, ReachedInv, NEW c \in Conn, NodeAccepts(c)
  PROVE  ReachedInv'
<1> DEFINE e == In(c)
<1>1. e \in End /\ \A d \in Conn : Out(d) # e
  BY ConnEnds DEF Out, In
<1>2. phase \in [End -> Phase] /\ peers \in [Node -> SUBSET End]
  BY DEF MeshInv, IInv, TypeOK
<1>3. CASE RejectIncoming(c) /\ UNCHANGED nodeVars
  <2>1. /\ UNCHANGED <<wiring, up, reached, reconnecting, peers>>
        /\ phase[e] = "handshake" /\ phase' = [phase EXCEPT ![e] = "done"]
    BY <1>3 DEF RejectIncoming, HandshakeOver, nodeVars
  <2>2. \A f \in End : phase'[f] = phase[f] \/
          (phase[f] = "handshake" /\ phase'[f] # "handshake")
    BY <1>1, <1>2, <2>1
  <2> QED BY <2>1, <2>2, ReachedUntouched
<1>4. ASSUME NEW stale, NEW unsent \in BOOLEAN, NEW raised \in BOOLEAN,
             Accept(c, stale, unsent, raised)
      PROVE  ReachedInv'
  <2>1. PICK reply, u, r : AcceptHello(c, stale, reply, u, r)
    BY <1>4, Zenon DEF Accept
  <2>2. UNCHANGED <<wiring, up, reached, reconnecting>> /\ phase[e] = "handshake"
    BY <1>4, <2>1 DEF Accept, AcceptHello
  <2>3. Enrol(e, stale, r)
    BY <2>1 DEF AcceptHello
  <2>4. phase' = [phase EXCEPT ![e] = IF r THEN "abandoned" ELSE "reading"]
    BY <2>3 DEF Enrol
  <2>5. \A f \in End : phase'[f] = phase[f] \/
          (phase[f] = "handshake" /\ phase'[f] # "handshake")
    BY <1>1, <1>2, <2>2, <2>4
  <2>6. peers' = [peers EXCEPT ![Owner(e)] = {f \in @ \ stale : Key(f) # Key(e)} \cup {e}]
    BY <2>3 DEF Enrol
  <2>7. \A n \in Node : peers'[n] \subseteq peers[n] \cup {e}
    BY <1>2, <2>6
  <2>8. \A n \in Node, d \in Conn : Out(d) \in peers'[n] => Out(d) \in peers[n]
    BY <1>1, <2>7
  <2> QED BY <2>2, <2>5, <2>8, ReachedUntouched
<1> QED BY <1>3, <1>4, Zenon DEF NodeAccepts

\* A HELLO_ACK is handled: a configured peer is reached, and its connection is read.
LEMMA ConnectedKeepsReached ==
  ASSUME MeshInv, ReachedInv, NEW c \in Conn, NEW stale, Connected(c, stale)
  PROVE  ReachedInv'
<1> DEFINE m == dialer[c]
           j == Key(Out(c))
<1>1. /\ RecvAck(c, stale, FALSE)
      /\ reached' = [reached EXCEPT ![m] = @ \cup ({j} \cap Configured[m])]
      /\ \/ UNCHANGED reconnecting
         \/ reconnecting' = [reconnecting EXCEPT ![m] = @ \ {j}]
  BY Zenon DEF Connected
<1>2. /\ UNCHANGED wiring /\ Out(c) \in End
      /\ phase[Out(c)] = "handshake" /\ phase'[Out(c)] = "reading"
      /\ \A f \in End : f # Out(c) => phase'[f] = phase[f]
  BY <1>1, RecvAckFiles DEF MeshInv
<1>3. /\ m \in Node /\ UNCHANGED up /\ Owner(Out(c)) = m
      /\ peers'[m] \subseteq {f \in peers[m] : Key(f) # j} \cup {Out(c)}
      /\ \A n \in Node : n # m => peers'[n] = peers[n]
  BY <1>1, RecvAckEnrols, ConnEnds
<1>4. reached \in [Node -> SUBSET PeerKey] /\ reconnecting \in [Node -> SUBSET PeerKey]
  BY DEF MeshInv, NodeInv, NodeTypeOK
<1>5. up[m] # "down"
  BY <1>2 DEF ReachedInv, DiallersRun
<1>6. \A f : Owner(f)' = Owner(f) /\ Key(f)' = Key(f)
  BY <1>2, SameWiring
<1> HIDE DEF m, j
<1>7. \A n \in Node : reached'[n] = reached[n] \cup (IF n = m THEN {j} \cap Configured[m] ELSE {})
  BY <1>1, <1>3, <1>4
<1>8. ReachedConfigured'
  BY <1>3, <1>5, <1>7 DEF ReachedInv, ReachedConfigured
<1>9. DiallersRun'
  <2>1. \A d \in Conn : phase'[Out(d)] = "handshake" => phase[Out(d)] = "handshake"
    BY <1>2, ConnEnds
  <2> QED BY <1>2, <1>3, <2>1 DEF ReachedInv, DiallersRun, wiring
<1>10. ReachedAreRead'
  <2> SUFFICES ASSUME NEW n \in Node, NEW d \in Conn, Out(d) \in peers'[n],
                      Key(Out(d)) \in reached'[n]
               PROVE  phase'[Out(d)] = "reading"
    BY <1>6 DEF ReachedAreRead
  <2>1. CASE Out(d) = Out(c)
    BY <1>2, <2>1
  <2>2. CASE Out(d) # Out(c)
    <3>1. Out(d) \in peers[n] /\ (n = m => Key(Out(d)) # j)
      BY <1>3, <2>2
    <3>2. Key(Out(d)) \in reached[n]
      BY <1>7, <3>1
    <3>3. phase[Out(d)] = "reading"
      BY <3>1, <3>2 DEF ReachedInv, ReachedAreRead
    <3> QED BY <1>2, <2>2, <3>3, ConnEnds
  <2> QED BY <2>1, <2>2
<1>11. ReachedIsKept'
  <2> SUFFICES ASSUME NEW n \in Node, up[n] = "up", NEW k \in reached'[n]
               PROVE  \/ k \in reconnecting'[n]
                      \/ \E e \in End : phase'[e] = "reading" /\ Owner(e) = n /\ Key(e) = k
    BY <1>3, <1>6 DEF ReachedIsKept
  <2>1. CASE n = m /\ k = j
    BY <1>2, <1>3, <2>1 DEF j
  <2>2. CASE ~(n = m /\ k = j)
    <3>1. k \in reached[n]
      BY <1>7, <2>2
    <3>2. k \in reconnecting[n] => k \in reconnecting'[n]
      BY <1>1, <1>4, <2>2 DEF m, j
    <3>3. \A e \in End : phase[e] = "reading" => phase'[e] = "reading"
      BY <1>2
    <3> QED BY <3>1, <3>2, <3>3 DEF ReachedInv, ReachedIsKept
  <2> QED BY <2>1, <2>2
<1> QED BY <1>8, <1>9, <1>10, <1>11 DEF ReachedInv

\* A dial raises: its peer counts as reached no more.
LEMMA RaiseKeepsReached ==
  ASSUME MeshInv, ReachedInv, NEW c \in Conn, DialRaised(c), UNCHANGED <<wiring, up>>,
         Out(c) \in End, dialer[c] \in Node,
         phase[Out(c)] = "handshake", phase'[Out(c)] # "handshake",
         \A f \in End : f # Out(c) => phase'[f] = phase[f],
         \A n \in Node : peers'[n] \subseteq
           peers[n] \cup (IF n = dialer[c] THEN {Out(c)} ELSE {})
  PROVE  ReachedInv'
<1> DEFINE m == dialer[c]
           j == Key(Out(c))
<1>1. /\ reached' = [reached EXCEPT ![m] = @ \ {j}]
      /\ \/ UNCHANGED reconnecting
         \/ reconnecting' = [reconnecting EXCEPT ![m] = @ \ {j}]
  BY DEF DialRaised
<1>2. reached \in [Node -> SUBSET PeerKey] /\ reconnecting \in [Node -> SUBSET PeerKey]
  BY DEF MeshInv, NodeInv, NodeTypeOK
<1> HIDE DEF m, j
<1>3. \A n \in Node : reached'[n] = reached[n] \ (IF n = m THEN {j} ELSE {})
  BY <1>1, <1>2
<1>4. \A n \in Node : \A k \in reconnecting[n] : k \in reconnecting'[n] \/ (n = m /\ k = j)
  BY <1>1, <1>2
<1>5. ASSUME NEW n \in Node, NEW d \in Conn, Out(d) \in peers'[n], Key(Out(d)) \in reached'[n]
      PROVE  /\ Out(d) \in peers[n]
             /\ phase[Out(d)] = "reading" => phase'[Out(d)] = "reading"
  <2>1. CASE Out(d) = Out(c)
    <3>1. n # m
      BY <1>3, <1>5, <2>1 DEF j
    <3> QED BY <1>5, <2>1, <3>1 DEF m
  <2>2. CASE Out(d) # Out(c)
    BY <1>5, <2>2, ConnEnds DEF m
  <2> QED BY <2>1, <2>2
<1>6. \A d \in Conn : phase'[Out(d)] = "handshake" => phase[Out(d)] = "handshake"
  BY ConnEnds
<1>7. ReachedConfigured' /\ DiallersRun' /\ ReachedAreRead'
  <2>1. \A n \in Node : reached'[n] \subseteq reached[n]
    BY <1>3
  <2> QED BY <1>5, <1>6, <2>1, KeptTables
<1>8. ReachedIsKept'
  <2>1. \A n \in Node : reached'[n] \subseteq reached[n]
    BY <1>3
  <2>2. \A n \in Node : \A k \in reached'[n] : k \in reconnecting[n] => k \in reconnecting'[n]
    BY <1>3, <1>4
  <2>3. \A e \in End : phase[e] = "reading" => phase'[e] = "reading"
    OBVIOUS
  <2> QED BY <2>1, <2>2, <2>3, KeptByOthers
<1> QED BY <1>7, <1>8 DEF ReachedInv

\* So the handler may raise on a HELLO_ACK.
LEMMA AckRaisesKeepsReached ==
  ASSUME MeshInv, ReachedInv, NEW c \in Conn, NEW stale, AckRaises(c, stale)
  PROVE  ReachedInv'
<1>1. RecvAck(c, stale, TRUE) /\ DialRaised(c)
  BY DEF AckRaises
<1>2. /\ UNCHANGED wiring /\ Out(c) \in End
      /\ phase[Out(c)] = "handshake" /\ phase'[Out(c)] = "abandoned"
      /\ \A f \in End : f # Out(c) => phase'[f] = phase[f]
  BY <1>1, RecvAckFiles DEF MeshInv
<1>3. /\ dialer[c] \in Node /\ UNCHANGED up
      /\ \A n \in Node : peers'[n] \subseteq
           peers[n] \cup (IF n = dialer[c] THEN {Out(c)} ELSE {})
  BY <1>1, RecvAckEnrols
<1> QED BY <1>1, <1>2, <1>3, RaiseKeepsReached

\* And so may the send of a HELLO, or the wait for its HELLO_ACK.
LEMMA ConnectRaisesKeepsReached ==
  ASSUME MeshInv, ReachedInv, NEW c \in Conn, NEW sent, NEW closes,
         ConnectRaises(c, sent, closes)
  PROVE  ReachedInv'
<1>1. DialRaises(c, sent, closes) /\ DialRaised(c)
  BY DEF ConnectRaises
<1>2. /\ UNCHANGED <<wiring, up, peers>> /\ Out(c) \in End
      /\ phase[Out(c)] = "handshake" /\ phase'[Out(c)] = "cut"
      /\ \A f \in End : f # Out(c) => phase'[f] = phase[f]
  BY <1>1, DialRaisesCuts DEF MeshInv
<1>3. dialer[c] \in Node
  BY <1>2, UsedEnd, ConnEnds DEF MeshInv, IInv
<1> QED BY <1>1, <1>2, <1>3, RaiseKeepsReached

\* A read loop ends: a reconnection loop takes over, if its peer was reached.
LEMMA LostKeepsReached ==
  ASSUME MeshInv, ReachedInv, NEW e \in End, Lost(e)
  PROVE  ReachedInv'
<1> DEFINE m == Owner(e)
<1>1. phase[e] = "reading" /\ EndLoop(e) /\ OnBye(m, {Key(e)})
  BY DEF Lost, LoopDone, LoopBreaks
<1>2. m \in Node
  BY <1>1, UsedEnd DEF MeshInv, IInv
<1>3. /\ UNCHANGED <<wiring, up, reached>>
      /\ phase' = [phase EXCEPT ![e] = "done"]
      /\ peers' = [peers EXCEPT ![m] = {f \in @ : Key(f) # Key(e)}]
  BY <1>1 DEF EndLoop, OnBye
<1>4. phase \in [End -> Phase] /\ peers \in [Node -> SUBSET End]
  BY DEF MeshInv, IInv, TypeOK
<1>5. \A f \in End : phase'[f] = IF f = e THEN "done" ELSE phase[f]
  BY <1>3, <1>4
<1>6. \A n \in Node : /\ peers'[n] \subseteq peers[n]
                      /\ e \notin peers'[n]
  <2>1. \A n \in Node : \A f \in peers[n] : Owner(f) = n
    BY DEF MeshInv, IInv, RegisteredIsServed
  <2>2. \A n \in Node : peers'[n] = IF n = m THEN {f \in peers[m] : Key(f) # Key(e)} ELSE peers[n]
    BY <1>2, <1>3, <1>4
  <2> QED BY <2>1, <2>2
<1>7. ReachedConfigured' /\ DiallersRun' /\ ReachedAreRead'
  <2>1. \A c \in Conn : Out(c) \in End
    BY ConnEnds
  <2>2. \A c \in Conn : phase'[Out(c)] = "handshake" => phase[Out(c)] = "handshake"
    BY <1>5, <2>1
  <2>3. \A n \in Node, c \in Conn : Out(c) \in peers'[n] =>
          Out(c) \in peers[n] /\ phase'[Out(c)] = phase[Out(c)]
    BY <1>5, <1>6, <2>1
  <2> QED BY <1>3, <2>2, <2>3, KeptTables
<1>8. /\ \A n \in Node : reconnecting[n] \subseteq reconnecting'[n]
      /\ up[m] = "up" => {Key(e)} \cap Configured[m] \subseteq reconnecting'[m]
  BY <1>1, <1>2, OnByeKeepsLoops
<1>9. ASSUME NEW n \in Node, up[n] = "up", NEW k \in reached[n], NEW f \in End,
             phase[f] = "reading", Owner(f) = n, Key(f) = k
      PROVE  phase'[f] = "reading" \/ k \in reconnecting'[n]
  <2>1. k \in Configured[n]
    BY DEF ReachedInv, ReachedConfigured
  <2> QED BY <1>5, <1>8, <1>9, <2>1
<1>10. ReachedIsKept'
  BY <1>3, <1>8, <1>9, KeptByOthers
<1> QED BY <1>7, <1>10 DEF ReachedInv

\* disconnect(): the node no longer runs as far as its loops are concerned.
LEMMA DisconnectKeepsReached ==
  ASSUME MeshInv, ReachedInv, NEW m \in Node, Disconnect(m)
  PROVE  ReachedInv'
<1>1. /\ UNCHANGED <<wiring, phase, reached>>
      /\ up' = [up EXCEPT ![m] = "stopping"] /\ peers' = [peers EXCEPT ![m] = {}]
      /\ reconnecting' = [reconnecting EXCEPT ![m] = @ \cap Dialling(m, "again")]
  BY DEF Disconnect, Stop
<1>2. \A n \in Node : /\ up'[n] = IF n = m THEN "stopping" ELSE up[n]
                      /\ peers'[n] = IF n = m THEN {} ELSE peers[n]
                      /\ n # m => reconnecting'[n] = reconnecting[n]
  BY <1>1 DEF MeshInv, IInv, TypeOK, NodeInv, NodeTypeOK
<1>3. ReachedConfigured' /\ ReachedAreRead'
  <2>1. \A c : Key(Out(c))' = Key(Out(c))
    BY <1>1, SameWiring
  <2> QED BY <1>1, <1>2, <2>1 DEF ReachedInv, ReachedConfigured, ReachedAreRead
<1>4. DiallersRun'
  <2>1. up \in [Node -> {"up", "stopping", "down"}]
    BY DEF MeshInv, IInv, TypeOK
  <2>2. \A n : up'[n] = "down" => up[n] = "down"
    BY <1>1, <2>1
  <2> QED BY <1>1, <2>2 DEF ReachedInv, DiallersRun, wiring
<1>5. ReachedIsKept'
  BY <1>1, <1>2, KeptByOthers
<1> QED BY <1>3, <1>4, <1>5 DEF ReachedInv

\* A process that ends forgets whom it reached.
LEMMA EndsKeepsReached ==
  ASSUME MeshInv, ReachedInv, NEW m \in Node, ProcessEnds(m)
  PROVE  ReachedInv'
<1>1. /\ UNCHANGED wiring /\ up' = [up EXCEPT ![m] = "down"]
      /\ peers' = [peers EXCEPT ![m] = {}]
      /\ \A e \in End : phase'[e] = IF phase[e] # "unused" /\ Owner(e) = m
                                    THEN "done" ELSE phase[e]
      /\ reconnecting' = [reconnecting EXCEPT ![m] = {}]
      /\ reached' = [reached EXCEPT ![m] = {}]
  BY DEF ProcessEnds, Exit
<1>2. \A n \in Node : /\ up'[n] = IF n = m THEN "down" ELSE up[n]
                      /\ peers'[n] = IF n = m THEN {} ELSE peers[n]
                      /\ reached'[n] = IF n = m THEN {} ELSE reached[n]
                      /\ n # m => reconnecting'[n] = reconnecting[n]
  BY <1>1 DEF MeshInv, IInv, TypeOK, NodeInv, NodeTypeOK
<1>3. ReachedConfigured'
  BY <1>2 DEF ReachedInv, ReachedConfigured
<1>4. ReachedAreRead'
  <2> SUFFICES ASSUME NEW n \in Node, NEW c \in Conn, Out(c) \in peers'[n],
                      Key(Out(c)) \in reached'[n]
               PROVE  phase'[Out(c)] = "reading"
    BY <1>1, SameWiring DEF ReachedAreRead
  <2>1. n # m /\ Out(c) \in peers[n] /\ Out(c) \in End /\ Key(Out(c)) \in reached[n]
    BY <1>2, ConnEnds
  <2>2. Owner(Out(c)) = n
    BY <2>1 DEF MeshInv, IInv, RegisteredIsServed
  <2>3. phase[Out(c)] = "reading"
    BY <2>1 DEF ReachedInv, ReachedAreRead
  <2> QED BY <1>1, <2>1, <2>2, <2>3
<1>5. DiallersRun'
  <2> SUFFICES ASSUME NEW c \in Conn, phase'[Out(c)] = "handshake"
               PROVE  up'[dialer[c]] # "down"
    BY <1>1 DEF DiallersRun, wiring
  <2>1. phase[Out(c)] = "handshake" /\ dialer[c] # m
    BY <1>1, ConnEnds
  <2>2. dialer[c] \in Node
    BY <2>1, UsedEnd, ConnEnds DEF MeshInv, IInv
  <2> QED BY <1>2, <2>1, <2>2 DEF ReachedInv, DiallersRun
<1>6. ASSUME NEW n \in Node, up'[n] = "up", NEW e \in End, phase[e] = "reading", Owner(e) = n
      PROVE  phase'[e] = "reading"
  BY <1>1, <1>2, <1>6
<1>7. ReachedIsKept'
  BY <1>1, <1>2, <1>6, KeptByOthers
<1> QED BY <1>3, <1>4, <1>5, <1>7 DEF ReachedInv

\* A new process has reached nobody yet.
LEMMA StartsKeepsReached ==
  ASSUME MeshInv, ReachedInv, NEW m \in Node, ProcessStarts(m)
  PROVE  ReachedInv'
<1>1. /\ UNCHANGED <<wiring, phase, peers, reached, reconnecting>>
      /\ up[m] = "down" /\ up' = [up EXCEPT ![m] = "up"]
  BY DEF ProcessStarts, Start, nodeVars
<1>2. \A n : up'[n] = "down" => up[n] = "down"
  <2>1. up \in [Node -> {"up", "stopping", "down"}]
    BY DEF MeshInv, IInv, TypeOK
  <2> QED BY <1>1, <2>1
<1>3. \A n \in Node : up'[n] = "up" => up[n] = "up" \/ reached'[n] = {}
  BY <1>1 DEF ReachedInv, ReachedConfigured, MeshInv, IInv, TypeOK
<1>4. ReachedConfigured' /\ ReachedAreRead'
  <2>1. \A c : Key(Out(c))' = Key(Out(c))
    BY <1>1, SameWiring
  <2> QED BY <1>1, <1>2, <2>1 DEF ReachedInv, ReachedConfigured, ReachedAreRead
<1>5. DiallersRun'
  BY <1>1, <1>2 DEF ReachedInv, DiallersRun, wiring
<1>6. ReachedIsKept'
  BY <1>1, <1>3, KeptByOthers
<1> QED BY <1>4, <1>5, <1>6 DEF ReachedInv

\* Every step keeps what was reached.
LEMMA NextReachedInv ==
  ASSUME MeshInv, ReachedInv, [NodeNext]_allVars
  PROVE  ReachedInv'
<1>1. CASE \E n \in Node, c \in Conn :
             \/ \E k \in todo[n] : Boot(n, k, c)
             \/ \E m \in Node, a \in Address : Discover(n, m, a, c)
             \/ \E k \in armed[n] : ReconnectDial(n, k, c)
  <2>1. UNCHANGED <<vars, reached, reconnecting>>
    BY <1>1 DEF Boot, Discover, ReconnectDial
  <2> QED BY <2>1, ReachedUntouched DEF vars, wiring
<1>2. CASE \E n \in Node : \E k \in reconnecting[n] : ReconnectCheck(n, k)
  BY <1>2, CheckKeepsReached
<1>3. CASE \E c \in Conn : OpenConnection(c)
  BY <1>3, OpenKeepsReached
<1>4. CASE \E c \in Conn : OpenFails(c) \/ ConnectFails(c)
  BY <1>4, DialFailsKeepsReached
<1>5. CASE \E c \in Conn : NodeAccepts(c)
  BY <1>5, AcceptsKeepsReached
<1>6. CASE \E c \in Conn : \E stale \in StaleSets(Out(c)) : Connected(c, stale)
  BY <1>6, ConnectedKeepsReached
<1>13. CASE \E c \in Conn : \E stale \in StaleSets(Out(c)) : AckRaises(c, stale)
  BY <1>13, AckRaisesKeepsReached
<1>14. CASE \E c \in Conn : \E sent, closes \in BOOLEAN : ConnectRaises(c, sent, closes)
  BY <1>14, ConnectRaisesKeepsReached
<1>15. CASE \E n \in Node, e \in End : SendFails(n, e) /\ UNCHANGED nodeVars
  <2>1. UNCHANGED <<wiring, up, reached, phase, peers, reconnecting>>
    BY <1>15 DEF SendFails, nodeVars
  <2> QED BY <2>1, ReachedUntouched
<1>7. CASE \E e \in End : Receive(e)
  <2>1. PICK e \in End : Receive(e)
    BY <1>7
  <2>2. UNCHANGED <<wiring, up, reached, phase, peers>> /\ phase[e] = "reading"
    BY <2>1 DEF Receive, Read, OnBye
  <2>3. Owner(e) \in Node
    BY <2>2, UsedEnd DEF MeshInv, IInv
  <2>4. OnBye(Owner(e), {Key(e)}) \/ UNCHANGED reconnecting
    BY <2>1 DEF Receive
  <2>5. \A n \in Node : reconnecting[n] \subseteq reconnecting'[n]
    BY <2>3, <2>4, OnByeKeepsLoops
  <2> QED BY <2>2, <2>5, ReachedUntouched
<1>8. CASE \E e \in End : Lost(e)
  BY <1>8, LostKeepsReached
<1>9. CASE \E n \in Node : \E idle \in SUBSET peers[n] : Purge(n, idle)
  <2>1. PICK m \in Node : \E idle \in SUBSET peers[m] : Purge(m, idle)
    BY <1>9
  <2>2. PICK idle \in SUBSET peers[m] : Purge(m, idle)
    BY <2>1
  <2>3. UNCHANGED <<wiring, up, reached>>
        /\ peers' = [peers EXCEPT ![m] = @ \ Dead(m, idle)]
        /\ \A e \in End : phase'[e] = phase[e] \/
             (phase[e] = "abandoned" /\ phase'[e] = "done")
    BY <2>2 DEF Purge, Heartbeat, OnBye
  <2>4. \A n \in Node : peers'[n] \subseteq peers[n]
    BY <2>3 DEF MeshInv, IInv, TypeOK
  <2>5. \A n \in Node : reconnecting[n] \subseteq reconnecting'[n]
    BY <2>2, OnByeKeepsLoops DEF Purge
  <2> QED BY <2>3, <2>4, <2>5, ReachedUntouched
<1>10. CASE \E n \in Node : Register(n)
  <2>1. UNCHANGED <<wiring, up, reached, phase, peers, reconnecting>>
    BY <1>10 DEF Register, Broadcast, vars, wiring
  <2> QED BY <2>1, ReachedUntouched
<1>11. CASE \E n \in Node : Disconnect(n) \/ ProcessEnds(n) \/ ProcessStarts(n)
  BY <1>11, DisconnectKeepsReached, EndsKeepsReached, StartsKeepsReached
<1>12. CASE UNCHANGED allVars
  <2>1. UNCHANGED <<wiring, up, reached, phase, peers, reconnecting>>
    BY <1>12 DEF allVars, vars, nodeVars, wiring
  <2> QED BY <2>1, ReachedUntouched
<1> QED BY <1>1, <1>2, <1>3, <1>4, <1>5, <1>6, <1>7, <1>8, <1>9, <1>10, <1>11, <1>12,
           <1>13, <1>14, <1>15, Zenon DEF NodeNext, NodeConnects

LEMMA InitReachedInv == NodeInit => ReachedInv
BY ConnEnds DEF NodeInit, Init, ReachedInv, ReachedConfigured, DiallersRun, ReachedAreRead,
                ReachedIsKept

\* A configured peer that was reached, and no dial of which has raised since, is
\* never given up, whatever else fails: handlers that raise on HELLOs, sends that
\* raise, resets, cancelled dials, time-outs, crashes and restarts included.
THEOREM ReachedPeersAreKept == NodeSpec => []ReachedIsKept
<1>1. NodeInit => ReachedInv
  BY InitReachedInv
<1>2. MeshInv /\ ReachedInv /\ [NodeNext]_allVars => ReachedInv'
  BY NextReachedInv
<1>3. ReachedInv => ReachedIsKept
  BY DEF ReachedInv
<1> QED BY <1>1, <1>2, <1>3, MeshInvariant, PTL DEF NodeSpec
=============================================================================
