-------------------------- MODULE GoTransportProofs --------------------------
(* Proofs about GoTransport, for any connections and addresses.              *)
EXTENDS GoTransport, TLAPS

LEMMA InitIInv == Init => IInv
<1> SUFFICES ASSUME Init PROVE IInv
  OBVIOUS
<1>1. TypeOK
  BY DEF Init, TypeOK, NotSending, NotCasting
<1>2. EntriesAreServed /\ BusyIsOpen /\ OneForAnAddress
  BY DEF Init, EntriesAreServed, BusyIsOpen, OneForAnAddress, Busy
<1>3. NamedUnlessRaced /\ StopClosesTheRest
  BY DEF Init, NamedUnlessRaced, StopClosesTheRest, Serving
<1>4. QED
  BY <1>1, <1>2, <1>3 DEF IInv

\* What a goroutine does for its connection.
LEMMA ConnTypes ==
  ASSUME TypeOK, NEW c \in Conn,
         \/ Connect(c) \/ Accept(c) \/ Handshake(c) \/ File(c)
         \/ RecvFails(c) \/ Delete(c) \/ Close(c) \/ PeerCloses(c) \/ PeerStalls(c)
  PROVE  TypeOK'
<1> USE KeysOfConns, NoneIsNoConn DEF TypeOK
<1>1. CASE Connect(c)
  BY <1>1 DEF Connect, Reuse, Begin, Goto
<1>2. CASE Accept(c)
  BY <1>2 DEF Accept, Begin, Goto
<1>3. CASE Handshake(c)
  BY <1>3 DEF Handshake, HandshakeDone, HandshakeFails, Goto, Ended
<1>4. CASE File(c)
  BY <1>4 DEF File, Goto
<1>5. CASE RecvFails(c) \/ Delete(c) \/ Close(c)
  BY <1>5 DEF RecvFails, Delete, Close, Goto, Ended
<1>6. CASE PeerCloses(c) \/ PeerStalls(c)
  BY <1>6 DEF PeerCloses, PeerStalls
<1>7. QED
  BY <1>1, <1>2, <1>3, <1>4, <1>5, <1>6

LEMMA FiledAreConns == TypeOK => Filed \subseteq Conn
  BY DEF TypeOK, Filed

LEMMA CallerTypes ==
  ASSUME TypeOK,
         \/ \E k \in Key : SendTo(k)
         \/ Send \/ Sent \/ Broadcast \/ CastSent \/ CastEnds \/ Stop \/ Sweep
         \/ \E c \in Conn : CastSend(c)
  PROVE  TypeOK'
<1> USE DEF TypeOK
<1>1. CASE \E k \in Key : SendTo(k)
  BY <1>1 DEF SendTo
<1>2. CASE Send \/ Sent
  BY <1>2 DEF Send, Sent, NotSending
<1>3. CASE Broadcast
  BY <1>3, FiledAreConns DEF Broadcast
<1>4. CASE CastSent \/ CastEnds
  BY <1>4 DEF CastSent, CastEnds, NotCasting
<1>5. CASE Stop
  BY <1>5 DEF Stop
<1>6. CASE Sweep
  BY <1>6 DEF Sweep
<1>7. CASE \E c \in Conn : CastSend(c)
  BY <1>7 DEF CastSend
<1>8. QED
  BY <1>1, <1>2, <1>3, <1>4, <1>5, <1>6, <1>7

-----------------------------------------------------------------------------
ConnInv ==
  /\ EntriesAreServed
  /\ BusyIsOpen
  /\ OneForAnAddress
  /\ NamedUnlessRaced
  /\ StopClosesTheRest

\* Neither the callers, up to Stop, nor the peers touch what the invariant is about.
LEMMA Untouched ==
  ASSUME ConnInv, UNCHANGED <<pc, table, open, stop, raced, late>>
  PROVE  ConnInv'
BY DEF ConnInv, EntriesAreServed, BusyIsOpen, OneForAnAddress, NamedUnlessRaced,
       StopClosesTheRest, Busy, Serving

\* A connection that is neither busy before nor after a step disturbs nothing, and
\* one that only goes on is as busy as it was.
LEMMA StepBegin ==
  ASSUME IInv, NEW c \in Conn, pc[c] = "new", Begin(c),
         UNCHANGED <<table, stop, late>>, raced \subseteq raced',
         stop # "swept" => \A d \in Conn \ {c} :
           Busy(d) /\ KeyOf[d] = KeyOf[c] => KeyOf[c] \in raced'
  PROVE  ConnInv'
<1> USE KeysOfConns DEF IInv, TypeOK, Begin, Goto
<1>1. EntriesAreServed'
  BY DEF EntriesAreServed
<1>2. \A d \in Conn \ {c} : Busy(d)' = Busy(d) /\ Serving(d)' = Serving(d)
  BY DEF Busy, Serving
<1>3. ~Serving(c)'
  BY DEF Serving
<1>4. BusyIsOpen'
  BY <1>2 DEF BusyIsOpen
<1>5. OneForAnAddress'
  BY <1>2 DEF OneForAnAddress
<1>6. NamedUnlessRaced' /\ StopClosesTheRest'
  BY <1>2, <1>3 DEF NamedUnlessRaced, StopClosesTheRest
<1>7. QED
  BY <1>1, <1>4, <1>5, <1>6 DEF ConnInv

LEMMA StepConnect ==
  ASSUME IInv, NEW c \in Conn, Connect(c)
  PROVE  ConnInv'
<1> USE KeysOfConns DEF IInv, TypeOK, Connect
<1>1. CASE Known(c) /\ Reuse(c) /\ Goto(c, "done") /\ UNCHANGED <<open, theirs, raced>>
  <2>1. \A d \in Conn : Busy(d)' = Busy(d) /\ Serving(d)' = Serving(d)
    BY <1>1 DEF Busy, Serving, Goto
  <2>2. EntriesAreServed'
    BY <1>1 DEF EntriesAreServed, Goto
  <2>3. BusyIsOpen' /\ OneForAnAddress' /\ NamedUnlessRaced' /\ StopClosesTheRest'
    BY <1>1, <2>1 DEF BusyIsOpen, OneForAnAddress, NamedUnlessRaced, StopClosesTheRest
  <2>4. QED
    BY <2>2, <2>3 DEF ConnInv
<1>2. CASE ~Known(c) /\ Begin(c)
  <2>1. \/ raced' = raced \cup {k \in {KeyOf[c]} :
                        \E d \in Conn \ {c} : KeyOf[d] = k /\ pc[d] = "handshake"}
    BY <1>2 DEF Begin, Goto
  <2>2. ASSUME stop # "swept", NEW d \in Conn \ {c}, Busy(d), KeyOf[d] = KeyOf[c]
        PROVE  KeyOf[c] \in raced'
    <3>1. CASE pc[d] = "handshake"
      BY <2>1, <2>2, <3>1
    <3>2. CASE pc[d] = "read"
      <4>1. Serving(d)
        BY <2>2, <3>2 DEF Serving, BusyIsOpen
      <4>2. d # None /\ table[KeyOf[d]] = None
        BY <1>2, <2>2, NoneIsNoConn DEF Known
      <4>3. QED
        BY <2>1, <2>2, <4>1, <4>2 DEF NamedUnlessRaced
    <3>3. QED
      BY <2>2, <3>1, <3>2 DEF Busy, CanRead, WriterWaits
  <2>3. QED
    BY <1>2, <2>1, <2>2, StepBegin
<1>3. QED
  BY <1>1, <1>2

LEMMA StepAccept ==
  ASSUME IInv, NEW c \in Conn, Accept(c)
  PROVE  ConnInv'
BY AcceptedKeysAreFresh, StepBegin DEF Accept

\* A goroutine goes on; its connection is as busy and as much served as before.
LEMMA StepOn ==
  ASSUME IInv, NEW c \in Conn, UNCHANGED <<table, open, stop, raced, late>>,
         \/ pc[c] = "handshake" /\ Goto(c, "file")
         \/ pc[c] = "read" /\ Goto(c, "delete")
  PROVE  ConnInv'
<1> USE KeysOfConns DEF IInv, TypeOK, Goto
<1>1. \A d \in Conn : Busy(d)' = Busy(d) /\ Serving(d)' = Serving(d)
  BY DEF Busy, Serving
<1>2. EntriesAreServed'
  BY DEF EntriesAreServed
<1>3. BusyIsOpen' /\ OneForAnAddress' /\ NamedUnlessRaced' /\ StopClosesTheRest'
  BY <1>1 DEF BusyIsOpen, OneForAnAddress, NamedUnlessRaced, StopClosesTheRest
<1>4. QED
  BY <1>2, <1>3 DEF ConnInv

\* A goroutine ends that has no entry in the table.
LEMMA StepEnds ==
  ASSUME IInv, NEW c \in Conn, pc[c] \in {"handshake", "close"},
         Goto(c, "done"), Ended(c), UNCHANGED <<table, stop, raced, late>>
  PROVE  ConnInv'
<1> USE KeysOfConns DEF IInv, TypeOK, Goto, Ended
<1>1. ~Busy(c)' /\ ~Serving(c)'
  BY DEF Busy, Serving
<1>2. \A d \in Conn \ {c} : /\ Busy(d)' = Busy(d) /\ Serving(d)' = Serving(d)
                            /\ d \in open' <=> d \in open
  BY DEF Busy, Serving
<1>3. EntriesAreServed'
  BY DEF EntriesAreServed
<1>4. BusyIsOpen' /\ OneForAnAddress' /\ NamedUnlessRaced' /\ StopClosesTheRest'
  BY <1>1, <1>2 DEF BusyIsOpen, OneForAnAddress, NamedUnlessRaced, StopClosesTheRest
<1>5. QED
  BY <1>3, <1>4 DEF ConnInv

LEMMA StepFile ==
  ASSUME IInv, NEW c \in Conn, File(c)
  PROVE  ConnInv'
<1> USE KeysOfConns, NoneIsNoConn DEF IInv, TypeOK, File, Goto
<1>1. \A d \in Conn : Busy(d)' = Busy(d)
  BY DEF Busy
<1>2. \A d \in Conn \ {c} : Serving(d)' = Serving(d) /\ (Serving(d) => Busy(d))
  BY DEF Busy, Serving
<1>3. EntriesAreServed'
  BY DEF EntriesAreServed
<1>4. BusyIsOpen' /\ OneForAnAddress'
  BY <1>1 DEF BusyIsOpen, OneForAnAddress
<1>5. NamedUnlessRaced'
  <2> SUFFICES ASSUME NEW d \in Conn, Serving(d)', stop # "swept", KeyOf[d] \notin raced
               PROVE  table'[KeyOf[d]] = d
    BY DEF NamedUnlessRaced
  <2>1. CASE d = c
    BY <2>1
  <2>2. CASE d # c
    <3>1. Busy(c) /\ Busy(d)
      BY <1>2, <2>2 DEF Busy
    <3>2. KeyOf[d] # KeyOf[c]
      BY <2>2, <3>1 DEF OneForAnAddress
    <3>3. QED
      BY <1>2, <2>2, <3>2 DEF NamedUnlessRaced
  <2>3. QED
    BY <2>1, <2>2
<1>6. StopClosesTheRest'
  BY <1>2 DEF StopClosesTheRest
<1>7. QED
  BY <1>3, <1>4, <1>5, <1>6 DEF ConnInv

LEMMA StepDelete ==
  ASSUME IInv, NEW c \in Conn, Delete(c)
  PROVE  ConnInv'
<1> USE KeysOfConns, NoneIsNoConn DEF IInv, TypeOK, Delete, Goto
<1>1. ~Busy(c)' /\ ~Serving(c)' /\ Busy(c)
  BY DEF Busy, Serving
<1>2. \A d \in Conn \ {c} : /\ Busy(d)' = Busy(d) /\ Serving(d)' = Serving(d)
                            /\ Serving(d) => Busy(d)
  BY DEF Busy, Serving
<1>3. EntriesAreServed'
  BY DEF EntriesAreServed
<1>4. BusyIsOpen' /\ OneForAnAddress'
  BY <1>1, <1>2 DEF BusyIsOpen, OneForAnAddress
<1>5. NamedUnlessRaced'
  <2> SUFFICES ASSUME NEW d \in Conn, Serving(d)', stop # "swept", KeyOf[d] \notin raced
               PROVE  table'[KeyOf[d]] = d
    BY DEF NamedUnlessRaced
  <2>1. d # c /\ KeyOf[d] # KeyOf[c]
    BY <1>1, <1>2 DEF OneForAnAddress
  <2>2. QED
    BY <1>2, <2>1 DEF NamedUnlessRaced
<1>6. StopClosesTheRest'
  BY <1>1, <1>2 DEF StopClosesTheRest
<1>7. QED
  BY <1>3, <1>4, <1>5, <1>6 DEF ConnInv

LEMMA StepStop ==
  ASSUME IInv, Stop
  PROVE  ConnInv'
<1> USE DEF IInv, Stop
<1>1. \A d \in Conn : Busy(d)' = Busy(d) /\ Serving(d)' = Serving(d)
  BY DEF Busy, Serving
<1>2. EntriesAreServed'
  BY DEF EntriesAreServed
<1>3. BusyIsOpen' /\ OneForAnAddress' /\ NamedUnlessRaced' /\ StopClosesTheRest'
  BY <1>1 DEF BusyIsOpen, OneForAnAddress, NamedUnlessRaced, StopClosesTheRest
<1>4. QED
  BY <1>2, <1>3 DEF ConnInv

\* What Stop closes is in the table; what is served and not there was displaced.
LEMMA StepSweep ==
  ASSUME IInv, Sweep
  PROVE  ConnInv'
<1> USE DEF IInv, TypeOK, Sweep
<1>1. EntriesAreServed'
  BY DEF EntriesAreServed
<1>2. BusyIsOpen' /\ OneForAnAddress' /\ NamedUnlessRaced'
  BY DEF BusyIsOpen, OneForAnAddress, NamedUnlessRaced
<1>3. StopClosesTheRest'
  <2> SUFFICES ASSUME NEW d \in Conn, Serving(d)' PROVE KeyOf[d] \in raced
    BY DEF StopClosesTheRest
  <2>1. Serving(d) /\ d \notin Filed
    BY DEF Serving, Swept
  <2>2. table[KeyOf[d]] # d
    BY <2>1, KeysOfConns, NoneIsNoConn DEF Filed
  <2>3. QED
    BY <2>1, <2>2 DEF NamedUnlessRaced
<1>4. QED
  BY <1>1, <1>2, <1>3 DEF ConnInv

LEMMA StepIInv == IInv /\ [Next]_vars => IInv'
<1> SUFFICES ASSUME IInv, [Next]_vars PROVE IInv'
  OBVIOUS
<1>1. ASSUME NEW c \in Conn, Connect(c) PROVE IInv'
  BY <1>1, ConnTypes, StepConnect DEF IInv, ConnInv
<1>2. ASSUME NEW c \in Conn, Accept(c) PROVE IInv'
  BY <1>2, ConnTypes, StepAccept DEF IInv, ConnInv
<1>3. ASSUME NEW c \in Conn, Handshake(c) PROVE IInv'
  <2>1. TypeOK'
    BY <1>3, ConnTypes DEF IInv
  <2>2. CASE HandshakeDone(c)
    BY <2>1, <2>2, StepOn DEF HandshakeDone, IInv, ConnInv
  <2>3. CASE HandshakeFails(c)
    BY <2>1, <2>3, StepEnds DEF HandshakeFails, IInv, ConnInv
  <2>4. QED
    BY <1>3, <2>2, <2>3 DEF Handshake
<1>4. ASSUME NEW c \in Conn, File(c) PROVE IInv'
  BY <1>4, ConnTypes, StepFile DEF IInv, ConnInv
<1>5. ASSUME NEW c \in Conn, RecvFails(c) PROVE IInv'
  <2>1. TypeOK'
    BY <1>5, ConnTypes DEF IInv
  <2>2. QED
    BY <1>5, <2>1, StepOn DEF RecvFails, IInv, ConnInv
<1>6. ASSUME NEW c \in Conn, Delete(c) PROVE IInv'
  BY <1>6, ConnTypes, StepDelete DEF IInv, ConnInv
<1>7. ASSUME NEW c \in Conn, Close(c) PROVE IInv'
  <2>1. TypeOK'
    BY <1>7, ConnTypes DEF IInv
  <2>2. QED
    BY <1>7, <2>1, StepEnds DEF Close, IInv, ConnInv
<1>8. ASSUME NEW c \in Conn, PeerCloses(c) \/ PeerStalls(c) PROVE IInv'
  <2>1. TypeOK'
    BY <1>8, ConnTypes DEF IInv
  <2>2. UNCHANGED <<pc, table, open, stop, raced, late>>
    BY <1>8 DEF PeerCloses, PeerStalls
  <2>3. QED
    BY <2>1, <2>2, Untouched DEF IInv, ConnInv
<1>9. ASSUME \/ \E k \in Key : SendTo(k)
             \/ Send \/ Sent \/ Broadcast \/ CastSent \/ CastEnds
             \/ \E c \in Conn : CastSend(c)
      PROVE IInv'
  <2>1. TypeOK'
    BY <1>9, CallerTypes DEF IInv
  <2>2. UNCHANGED <<pc, table, open, stop, raced, late>>
    BY <1>9 DEF SendTo, Send, Sent, Broadcast, CastSent, CastEnds, CastSend
  <2>3. QED
    BY <2>1, <2>2, Untouched DEF IInv, ConnInv
<1>10. ASSUME Stop PROVE IInv'
  BY <1>10, CallerTypes, StepStop DEF IInv, ConnInv
<1>11. ASSUME Sweep PROVE IInv'
  BY <1>11, CallerTypes, StepSweep DEF IInv, ConnInv
<1>12. ASSUME UNCHANGED vars PROVE IInv'
  <2>1. TypeOK'
    BY <1>12 DEF vars, IInv, TypeOK
  <2>2. QED
    BY <1>12, <2>1, Untouched DEF vars, IInv, ConnInv
<1>13. (\E k \in Called : SendTo(k)) => \E k \in Key : SendTo(k)
  BY CalledAreKeys
<1>14. QED
  BY <1>1, <1>2, <1>3, <1>4, <1>5, <1>6, <1>7, <1>8, <1>9, <1>10, <1>11, <1>12, <1>13
  DEF Next

-----------------------------------------------------------------------------
\* The theorems

\* Type correctness of the Go transport.
THEOREM TransportTypes == Spec => []TypeOK
<1>1. IInv => TypeOK
  BY DEF IInv
<1>2. QED
  BY InitIInv, StepIInv, <1>1, PTL DEF Spec

\* A connection that is read is in the table, up to Stop, unless dials to its
\* address overlapped.
THEOREM ReadIsNamed == Spec => []NamedUnlessRaced
<1>1. IInv => NamedUnlessRaced
  BY DEF IInv
<1>2. QED
  BY InitIInv, StepIInv, <1>1, PTL DEF Spec

\* Stop closes every connection that was filed before, unless it was displaced.
THEOREM StopCloses == Spec => []StopClosesTheRest
<1>1. IInv => StopClosesTheRest
  BY DEF IInv
<1>2. QED
  BY InitIInv, StepIInv, <1>1, PTL DEF Spec
=============================================================================
