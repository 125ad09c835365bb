----------------------------- MODULE GoTransport -----------------------------
(* The connection table of the Go transport, go/transport/tcp.go: one        *)
(* goroutine per connection, the callers of SendTo and Broadcast, and Stop,  *)
(* over a table behind a sync.RWMutex and a mutex per connection.            *)
(*                                                                           *)
(* A critical section that cannot block is one step; a goroutine that is     *)
(* ready for Lock has called it.  Only Broadcast holds the lock over several *)
(* steps: it writes to the connections while it has the read lock.           *)
EXTENDS FiniteSets

CONSTANTS
  Conn,     \* connections; each one is made once: a bound
  Dialled,  \* those that ConnectToPeer makes; the others are accepted
  Key,      \* the addresses under which connections are filed
  KeyOf,    \* the remote address of each connection
  MayStall, \* bound: the connections whose peer may stop reading
  Called,   \* bound: the addresses that SendTo is called for
  None

ASSUME DialledAreConns == Dialled \subseteq Conn
ASSUME KeysOfConns == KeyOf \in [Conn -> Key]
ASSUME AcceptedKeysAreFresh ==
  \A c \in Conn \ Dialled, d \in Conn : KeyOf[c] = KeyOf[d] => c = d
ASSUME StallingAreConns == MayStall \subseteq Conn
ASSUME CalledAreKeys == Called \subseteq Key
ASSUME NoneIsNoConn == None \notin Conn

VARIABLES
  pc,       \* where the goroutine of a connection is
  table,    \* m.peers: per key, the connection filed under it
  open,     \* the connections that are not closed at this end
  theirs,   \* the connections that are not closed at the other end, nor over here
  stalled,  \* the connections whose peer has stopped reading, for good
  readers,  \* those that hold the read lock
  sendTo,   \* the caller of SendTo, and the connection it has looked up
  cast,     \* the caller of Broadcast, and the connections it has still to visit
  stop,     \* the caller of Stop: "no", "asked" (waits for the lock), "swept"
  raced,    \* (history) the keys dialled while another dial to them was under way
  late      \* (history) the connections filed after Stop had closed all it found

vars == <<pc, table, open, theirs, stalled, readers, sendTo, cast, stop, raced, late>>

TypeOK ==
  /\ pc \in [Conn -> {"new", "handshake", "file", "read", "delete", "close", "done"}]
  /\ table \in [Key -> Conn \cup {None}]
  /\ open \in SUBSET Conn /\ theirs \in SUBSET Conn /\ stalled \in SUBSET Conn
  /\ readers \in SUBSET (Conn \cup {"cast"})
  /\ sendTo \in [at : {"idle", "found", "write"}, conn : Conn \cup {None}]
  /\ cast \in [at : {"idle", "next", "write"}, conn : Conn \cup {None},
               left : SUBSET Conn]
  /\ stop \in {"no", "asked", "swept"}
  /\ raced \in SUBSET Key /\ late \in SUBSET Conn

NotSending == [at |-> "idle", conn |-> None]
NotCasting == [at |-> "idle", conn |-> None, left |-> {}]

Init ==
  /\ pc = [c \in Conn |-> "new"]
  /\ table = [k \in Key |-> None]
  /\ open = {} /\ theirs = {} /\ stalled = {}
  /\ readers = {} /\ sendTo = NotSending /\ cast = NotCasting
  /\ stop = "no"
  /\ raced = {} /\ late = {}

-----------------------------------------------------------------------------
\* The locks

\* A writer that waits keeps new readers out.
WriterWaits == stop = "asked" \/ \E c \in Conn : pc[c] \in {"file", "delete"}
CanRead == ~WriterWaits

Goto(c, label) == pc' = [pc EXCEPT ![c] = label]
Filed == {table[k] : k \in Key} \ {None}

\* Bugs: the check is left out; the early return keeps the read lock; SendTo keeps
\* it while it sends; the table is replaced before its connections are closed.
KnownNever(c) == FALSE
ReuseKeepsLock(c) == readers' = readers \cup {c}
CanWriteUnlessSending == readers = {} /\ sendTo.at = "idle"
SweptNothing == {}

CanWrite == readers = {}

-----------------------------------------------------------------------------
\* A connection

Known(c) == table[KeyOf[c]] # None
Reuse(c) == UNCHANGED readers

Begin(c) ==
  /\ Goto(c, "handshake")
  /\ open' = open \cup {c} /\ theirs' = theirs \cup {c}

Ended(c) ==
  /\ open' = open \ {c} /\ theirs' = theirs \ {c} /\ stalled' = stalled \ {c}

\* ConnectToPeer, up to the dial: a known address is used as it is.  Nothing asks
\* whether Stop has been called.
Connect(c) ==
  /\ c \in Dialled /\ pc[c] = "new" /\ CanRead
  /\ \/ /\ Known(c) /\ Reuse(c) /\ Goto(c, "done")
        /\ UNCHANGED <<open, theirs, raced>>
     \/ /\ ~Known(c) /\ Begin(c)
        /\ raced' = raced \cup {k \in {KeyOf[c]} :
                                  \E d \in Conn \ {c} : KeyOf[d] = k /\ pc[d] = "handshake"}
        /\ UNCHANGED readers
  /\ UNCHANGED <<table, stalled, sendTo, cast, stop, late>>

\* acceptLoop, which ends when the listener is closed.
Accept(c) ==
  /\ c \notin Dialled /\ pc[c] = "new" /\ stop = "no"
  /\ Begin(c)
  /\ UNCHANGED <<table, stalled, readers, sendTo, cast, stop, raced, late>>

\* The peer sends its HELLO or HELLO_ACK in time.
HandshakeDone(c) ==
  /\ pc[c] = "handshake" /\ Goto(c, "file")
  /\ UNCHANGED <<table, open, theirs, stalled, readers, sendTo, cast, stop, raced, late>>

HandshakeFails(c) ==
  /\ pc[c] = "handshake" /\ Goto(c, "done")
  /\ Ended(c)
  /\ UNCHANGED <<table, readers, sendTo, cast, stop, raced, late>>

\* Filed in any case, over whatever is filed there; then the read loop starts.
File(c) ==
  /\ pc[c] = "file" /\ CanWrite
  /\ table' = [table EXCEPT ![KeyOf[c]] = c]
  /\ Goto(c, "read")
  /\ late' = IF stop = "swept" THEN late \cup {c} ELSE late
  /\ UNCHANGED <<open, theirs, stalled, readers, sendTo, cast, stop, raced>>

\* Recv fails: the stream has ended, is malformed, or was silent for 90 seconds.
\* Recv has set alive to FALSE, so that the loop ends, whatever the error is.
RecvFails(c) ==
  /\ pc[c] = "read" /\ Goto(c, "delete")
  /\ UNCHANGED <<table, open, theirs, stalled, readers, sendTo, cast, stop, raced, late>>

\* delete(m.peers, addr): the entry under the key, whose connection ever it is of.
Delete(c) ==
  /\ pc[c] = "delete" /\ CanWrite
  /\ table' = [table EXCEPT ![KeyOf[c]] = None]
  /\ Goto(c, "close")
  /\ UNCHANGED <<open, theirs, stalled, readers, sendTo, cast, stop, raced, late>>

\* The connection is closed only now; then the handler gets a BYE.
Close(c) ==
  /\ pc[c] = "close" /\ Goto(c, "done")
  /\ Ended(c)
  /\ UNCHANGED <<table, readers, sendTo, cast, stop, raced, late>>

\* Before a connection is filed it makes no difference what its peer does.
WasFiled(c) == pc[c] \in {"read", "delete", "close"}

PeerCloses(c) ==
  /\ WasFiled(c) /\ c \in theirs
  /\ theirs' = theirs \ {c}
  /\ UNCHANGED <<pc, table, open, stalled, readers, sendTo, cast, stop, raced, late>>

PeerStalls(c) ==
  /\ WasFiled(c) /\ c \in (theirs \cap MayStall) \ stalled
  /\ stalled' = stalled \cup {c}
  /\ UNCHANGED <<pc, table, open, theirs, readers, sendTo, cast, stop, raced, late>>

-----------------------------------------------------------------------------
\* The callers

\* Under the mutex of the connection.
Writing(c) ==
  \/ sendTo.at = "write" /\ sendTo.conn = c
  \/ cast.at = "write" /\ cast.conn = c

\* Write returns when the peer takes the bytes or the connection is closed; it
\* has no deadline.
WriteReturns(c) == c \notin stalled \cap open \cap theirs

\* A connection that is not alive is not written to, but alive is set without the
\* mutex and may be read stale.
Alive(c) == pc[c] = "read" /\ c \in open

SendTo(k) ==
  /\ sendTo.at = "idle" /\ table[k] # None /\ CanRead
  /\ sendTo' = [at |-> "found", conn |-> table[k]]
  /\ UNCHANGED <<pc, table, open, theirs, stalled, readers, cast, stop, raced, late>>

Send ==
  /\ sendTo.at = "found" /\ ~Writing(sendTo.conn)
  /\ \/ sendTo' = [sendTo EXCEPT !.at = "write"]
     \/ ~Alive(sendTo.conn) /\ sendTo' = NotSending
  /\ UNCHANGED <<pc, table, open, theirs, stalled, readers, cast, stop, raced, late>>

Sent ==
  /\ sendTo.at = "write" /\ WriteReturns(sendTo.conn)
  /\ sendTo' = NotSending
  /\ UNCHANGED <<pc, table, open, theirs, stalled, readers, cast, stop, raced, late>>

\* Broadcast to the connections of the table but those that are to be left out.
Broadcast ==
  /\ cast.at = "idle" /\ CanRead
  /\ \E to \in SUBSET Filed : cast' = [at |-> "next", conn |-> None, left |-> to]
  /\ readers' = readers \cup {"cast"}
  /\ UNCHANGED <<pc, table, open, theirs, stalled, sendTo, stop, raced, late>>

CastSend(c) ==
  /\ cast.at = "next" /\ c \in cast.left /\ ~Writing(c)
  /\ \/ cast' = [at |-> "write", conn |-> c, left |-> cast.left \ {c}]
     \/ ~Alive(c) /\ cast' = [cast EXCEPT !.left = @ \ {c}]
  /\ UNCHANGED <<pc, table, open, theirs, stalled, readers, sendTo, stop, raced, late>>

CastSent ==
  /\ cast.at = "write" /\ WriteReturns(cast.conn)
  /\ cast' = [at |-> "next", conn |-> None, left |-> cast.left]
  /\ UNCHANGED <<pc, table, open, theirs, stalled, readers, sendTo, stop, raced, late>>

CastEnds ==
  /\ cast.at = "next" /\ cast.left = {}
  /\ cast' = NotCasting
  /\ readers' = readers \ {"cast"}
  /\ UNCHANGED <<pc, table, open, theirs, stalled, sendTo, stop, raced, late>>

\* Stop ends the accept loop, and waits for the lock.  A second Stop would panic.
Stop ==
  /\ stop = "no" /\ stop' = "asked"
  /\ UNCHANGED <<pc, table, open, theirs, stalled, readers, sendTo, cast, raced, late>>

\* The connections that Stop closes: those in the table.
Swept == Filed

Sweep ==
  /\ stop = "asked" /\ CanWrite
  /\ open' = open \ Swept
  /\ table' = [k \in Key |-> None]
  /\ stop' = "swept"
  /\ UNCHANGED <<pc, theirs, stalled, readers, sendTo, cast, raced, late>>

-----------------------------------------------------------------------------
Handshake(c) == HandshakeDone(c) \/ HandshakeFails(c)

Next ==
  \/ \E c \in Conn :
       \/ Connect(c) \/ Accept(c) \/ Handshake(c) \/ File(c)
       \/ RecvFails(c) \/ Delete(c) \/ Close(c)
       \/ PeerCloses(c) \/ PeerStalls(c) \/ CastSend(c)
  \/ \E k \in Called : SendTo(k)
  \/ Send \/ Sent \/ Broadcast \/ CastSent \/ CastEnds
  \/ Stop \/ Sweep

Spec == Init /\ [][Next]_vars

\* Goroutines run on; a handshake ends by its deadline; a read ends when either
\* end of its connection is closed, and nothing is assumed of silent peers.
StreamEnds(c) == RecvFails(c) /\ c \notin open \cap theirs

Fairness ==
  /\ \A c \in Conn : /\ WF_vars(Handshake(c)) /\ WF_vars(File(c))
                     /\ WF_vars(StreamEnds(c)) /\ WF_vars(Delete(c)) /\ WF_vars(Close(c))
                     /\ WF_vars(CastSend(c))
  /\ WF_vars(Send) /\ WF_vars(Sent) /\ WF_vars(CastSent) /\ WF_vars(CastEnds)
  /\ WF_vars(Sweep)

FairSpec == Spec /\ Fairness

-----------------------------------------------------------------------------
\* Properties

Serving(c) == pc[c] \in {"read", "delete"} /\ c \in open

\* A connection that is read can be found in the table, unless two dials to its
\* address overlapped, or Stop has emptied the table.
NamedUnlessRaced ==
  \A c \in Conn : Serving(c) =>
    table[KeyOf[c]] = c \/ KeyOf[c] \in raced \/ stop = "swept"

\* What is still open and read after Stop was filed after Stop had closed the
\* others, or had been displaced from the table by another dial to its address.
StopClosesTheRest ==
  stop = "swept" =>
    \A c \in Conn : Serving(c) => c \in late \/ KeyOf[c] \in raced

\* What these rest on: an entry is of a connection whose goroutine will remove it;
\* up to Stop the goroutines have their connections open, and there is one for an
\* address, unless dials to it overlapped.
Busy(c) == pc[c] \in {"handshake", "file", "read", "delete"}

EntriesAreServed ==
  \A k \in Key : table[k] # None =>
    KeyOf[table[k]] = k /\ pc[table[k]] \in {"read", "delete"}

BusyIsOpen == stop # "swept" => \A c \in Conn : Busy(c) => c \in open

OneForAnAddress ==
  stop # "swept" =>
    \A c, d \in Conn : Busy(c) /\ Busy(d) /\ KeyOf[c] = KeyOf[d] =>
      c = d \/ KeyOf[c] \in raced

IInv ==
  /\ TypeOK
  /\ EntriesAreServed
  /\ BusyIsOpen
  /\ OneForAnAddress
  /\ NamedUnlessRaced
  /\ StopClosesTheRest

\* A broadcast writes, or waits to write, to a peer that does not read.
Hangs == cast.at # "idle" /\ \E c \in Conn : Writing(c) /\ ~WriteReturns(c)

\* A connection that the peer has closed is taken out of the table, unless a
\* broadcast hangs for ever, which keeps every writer from the table.
GoneAreForgotten ==
  \A c \in Conn :
    \/ <>[]Hangs
    \/ (c \in Filed /\ c \notin theirs) ~> (c \notin Filed)

\* Stop returns, unless a broadcast hangs for ever.
StopReturns == <>[]Hangs \/ (stop = "asked" ~> stop = "swept")
=============================================================================
