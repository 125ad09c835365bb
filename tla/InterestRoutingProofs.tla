------------------------ MODULE InterestRoutingProofs ------------------------
(* Proofs about InterestRouting, for every set of addresses and capabilities *)
(* and every sequence of calls.                                              *)
EXTENDS InterestRouting, TLAPS

\* What is registered is registered of known peers.
CapsOfKnown == table.caps \subseteq table.known \X Cap

\* The inductive invariant: with CapsOfKnown, a stale route of a peer that is
\* gone can only be one of a dropped capability.
IInv == TypeOK /\ CapsAreForwarded /\ CapsOfKnown /\ StaleRoutesAreDropped

-----------------------------------------------------------------------------
\* The operators

\* What register_peer leaves: the new capabilities of the address, those of the
\* others, and a forwarding table that only grew.
LEMMA RegisterPeerFacts ==
  ASSUME NEW t, NEW a, NEW caps, NEW interests
  PROVE  LET u == RegisterPeer(t, a, caps, interests) IN
         /\ u.known = t.known \cup {a}
         /\ \A b, c : <<b, c>> \in u.caps <=>
              (b = a /\ c \in caps) \/ (b # a /\ <<b, c>> \in t.caps)
         /\ \A b, i : <<b, i>> \in u.interests <=>
              (b = a /\ i \in interests) \/ (b # a /\ <<b, i>> \in t.interests)
         /\ \A b, c : <<c, b>> \in u.forwarding <=>
              <<c, b>> \in t.forwarding \/ (b = a /\ c \in caps)
BY DEF RegisterPeer

\* What remove_peer leaves: nothing of the address but forwarding entries of
\* capabilities it had not registered last.
LEMMA RemovePeerFacts ==
  ASSUME NEW Addrs, NEW Caps, NEW t \in TableOver(Addrs, Caps), NEW a
  PROVE  LET u == RemovePeer(t, a) IN
         /\ u.known = t.known \ {a}
         /\ \A b, c : <<b, c>> \in u.caps <=> b # a /\ <<b, c>> \in t.caps
         /\ \A b, i : <<b, i>> \in u.interests <=> b # a /\ <<b, i>> \in t.interests
         /\ \A b, c : <<c, b>> \in u.forwarding <=>
              <<c, b>> \in t.forwarding /\ ~(b = a /\ <<b, c>> \in t.caps)
BY DEF RemovePeer, RemovePeers

\* The relations, seen from one address or one capability.
LEMMA Projections ==
  ASSUME NEW Addrs, NEW Caps, NEW t \in TableOver(Addrs, Caps)
  PROVE  /\ \A a, c : c \in PeerCaps(t, a) <=> <<a, c>> \in t.caps
         /\ \A a, i : i \in PeerInterests(t, a) <=> <<a, i>> \in t.interests
         /\ \A a, c : a \in FindAllPeersFor(t, c) <=> <<c, a>> \in t.forwarding
<1>1. /\ t.caps \subseteq Addrs \X Caps /\ t.interests \subseteq Addrs \X Caps
      /\ t.forwarding \subseteq Caps \X Addrs
  BY DEF TableOver
<1>2. ASSUME NEW A, NEW B, NEW r \in SUBSET (A \X B), NEW x, NEW y
      PROVE  y \in {p[2] : p \in {q \in r : q[1] = x}} <=> <<x, y>> \in r
  <2>1. \A p \in r : p = <<p[1], p[2]>>
    OBVIOUS
  <2>2. ASSUME y \in {p[2] : p \in {q \in r : q[1] = x}} PROVE <<x, y>> \in r
    BY <2>1, <2>2
  <2>3. ASSUME <<x, y>> \in r PROVE y \in {p[2] : p \in {q \in r : q[1] = x}}
    <3>1. <<x, y>>[1] = x /\ <<x, y>>[2] = y
      OBVIOUS
    <3>2. <<x, y>> \in {q \in r : q[1] = x}
      BY <2>3, <3>1
    <3> QED BY <3>1, <3>2
  <2> QED BY <2>2, <2>3
<1>3. \A a, c : c \in PeerCaps(t, a) <=> <<a, c>> \in t.caps
  BY <1>1, <1>2 DEF PeerCaps
<1>4. \A a, i : i \in PeerInterests(t, a) <=> <<a, i>> \in t.interests
  BY <1>1, <1>2 DEF PeerInterests
<1>5. \A a, c : a \in FindAllPeersFor(t, c) <=> <<c, a>> \in t.forwarding
  BY <1>1, <1>2 DEF FindAllPeersFor
<1> QED BY <1>3, <1>4, <1>5

\* register_peer and remove_peer return tables.
LEMMA TableTypes ==
  ASSUME TypeOK, NEW a \in Addr
  PROVE  /\ \A caps, interests \in SUBSET Cap :
              RegisterPeer(table, a, caps, interests) \in TableOver(Addr, Cap)
         /\ RemovePeer(table, a) \in TableOver(Addr, Cap)
         /\ PeerCaps(table, a) \in SUBSET Cap
BY DEF TypeOK, TableOver, RegisterPeer, RemovePeer, RemovePeers, PeerCaps

\* What a query finds: peers that are forwarded the capability, or known ones,
\* and somebody if a known peer is not excluded.
LEMMA QueryFinds ==
  ASSUME NEW t, NEW c, NEW exclude, NEW related
  PROVE  LET found == QueryPeers(t, c, exclude, related)
         IN /\ found \cap exclude = {}
            /\ found \subseteq FindAllPeersFor(t, c) \/ found \subseteq t.known
            /\ t.known \ exclude # {} => found # {}
BY DEF QueryPeers

-----------------------------------------------------------------------------
\* Steps

\* A registration keeps the invariant, if what it leaves out is recorded.
LEMMA RegisterStep ==
  ASSUME IInv, NEW a \in Addr, NEW caps \in SUBSET Cap, NEW interests \in SUBSET Cap,
         table' = RegisterPeer(table, a, caps, interests),
         dropped' \subseteq Addr \X Cap,
         \A b, c : <<b, c>> \in dropped => <<b, c>> \in dropped' \/ (b = a /\ c \in caps),
         \A c : <<a, c>> \in table.caps => <<a, c>> \in dropped' \/ c \in caps
  PROVE  IInv'
<1>1. TypeOK'
  BY TableTypes DEF IInv, TypeOK
<1>2. CapsAreForwarded'
  <2> SUFFICES ASSUME NEW b \in Addr, NEW c \in Cap, <<b, c>> \in table'.caps
               PROVE  b \in FindAllPeersFor(table', c)
    BY DEF CapsAreForwarded
  <2>1. (b = a /\ c \in caps) \/ <<b, c>> \in table.caps
    BY RegisterPeerFacts
  <2>2. <<b, c>> \in table.caps => <<c, b>> \in table.forwarding
    BY Projections DEF IInv, TypeOK, CapsAreForwarded
  <2>3. <<c, b>> \in table'.forwarding
    BY <2>1, <2>2, RegisterPeerFacts
  <2> QED BY <1>1, <2>3, Projections DEF TypeOK
<1>3. CapsOfKnown'
  <2>1. table'.known = table.known \cup {a}
    BY RegisterPeerFacts
  <2>2. table'.caps = {p \in table.caps : p[1] # a} \cup ({a} \X caps)
    BY DEF RegisterPeer
  <2> QED BY <2>1, <2>2 DEF IInv, CapsOfKnown
<1>4. StaleRoutesAreDropped'
  <2> SUFFICES ASSUME NEW b \in Addr, NEW c \in Cap, b \in FindAllPeersFor(table', c)
               PROVE  <<b, c>> \in table'.caps \cup dropped'
    BY DEF StaleRoutesAreDropped
  <2>1. <<c, b>> \in table'.forwarding
    BY <1>1, Projections DEF TypeOK
  <2>2. <<c, b>> \in table.forwarding \/ (b = a /\ c \in caps)
    BY <2>1, RegisterPeerFacts
  <2>3. <<c, b>> \in table.forwarding => <<b, c>> \in table.caps \cup dropped
    BY Projections DEF IInv, TypeOK, StaleRoutesAreDropped
  <2>4. <<b, c>> \in table'.caps <=>
          (b = a /\ c \in caps) \/ (b # a /\ <<b, c>> \in table.caps)
    BY RegisterPeerFacts
  <2> QED BY <2>2, <2>3, <2>4
<1> QED BY <1>1, <1>2, <1>3, <1>4 DEF IInv

\* A removal keeps the invariant.
LEMMA RemoveStep ==
  ASSUME IInv, NEW a \in Addr, Goodbye(a)
  PROVE  IInv'
<1> USE DEF Goodbye
<1>1. TypeOK'
  BY TableTypes DEF IInv, TypeOK
<1>2. CapsAreForwarded'
  BY <1>1, RemovePeerFacts, Projections DEF IInv, TypeOK, CapsAreForwarded
<1>3. CapsOfKnown'
  <2>1. table'.known = table.known \ {a}
    BY RemovePeerFacts DEF IInv, TypeOK
  <2>2. table'.caps = {p \in table.caps : p[1] \notin {a}}
    BY DEF RemovePeer, RemovePeers
  <2> QED BY <2>1, <2>2 DEF IInv, CapsOfKnown
<1>4. StaleRoutesAreDropped'
  <2> SUFFICES ASSUME NEW b \in Addr, NEW c \in Cap, b \in FindAllPeersFor(table', c)
               PROVE  <<b, c>> \in table'.caps \cup dropped'
    BY DEF StaleRoutesAreDropped
  <2>1. <<c, b>> \in table'.forwarding
    BY <1>1, Projections DEF TypeOK
  <2>2. <<c, b>> \in table.forwarding /\ ~(b = a /\ <<b, c>> \in table.caps)
    BY <2>1, RemovePeerFacts DEF IInv, TypeOK
  <2>3. <<b, c>> \in table.caps \cup dropped
    BY <2>2, Projections DEF IInv, TypeOK, StaleRoutesAreDropped
  <2>4. <<b, c>> \in table'.caps <=> b # a /\ <<b, c>> \in table.caps
    BY RemovePeerFacts DEF IInv, TypeOK
  <2> QED BY <2>2, <2>3, <2>4
<1> QED BY <1>1, <1>2, <1>3, <1>4 DEF IInv

\* The inductive invariant holds in every reachable table.
THEOREM RoutingInvariance == Spec => []IInv
<1>1. Init => IInv
  BY DEF Init, EmptyTable, IInv, TypeOK, TableOver, CapsAreForwarded, CapsOfKnown,
         StaleRoutesAreDropped, FindAllPeersFor
<1>2. IInv /\ [Next]_vars => IInv'
  <2> SUFFICES ASSUME IInv, [Next]_vars PROVE IInv'
    OBVIOUS
  <2>1. ASSUME NEW a \in Addr, NEW caps \in SUBSET Cap, NEW interests \in SUBSET Cap,
               Hello(a, caps, interests)
        PROVE  IInv'
    <3>1. \A c : c \in PeerCaps(table, a) <=> <<a, c>> \in table.caps
      BY Projections DEF IInv, TypeOK
    <3>2. PeerCaps(table, a) \in SUBSET Cap
      BY TableTypes DEF IInv
    <3>3. dropped' \subseteq Addr \X Cap
      BY <2>1, <3>2 DEF Hello, IInv, TypeOK
    <3>4. \A b, c : <<b, c>> \in dropped => <<b, c>> \in dropped' \/ (b = a /\ c \in caps)
      BY <2>1 DEF Hello
    <3>5. \A c : <<a, c>> \in table.caps => <<a, c>> \in dropped' \/ c \in caps
      BY <2>1, <3>1 DEF Hello
    <3> QED BY <2>1, <3>3, <3>4, <3>5, RegisterStep DEF Hello
  <2>2. ASSUME NEW a \in Addr, NEW interests \in SUBSET Cap, InterestUpdate(a, interests)
        PROVE  IInv'
    <3>1. PeerCaps(table, a) \in SUBSET Cap
      BY TableTypes DEF IInv
    <3>2. \A c : <<a, c>> \in table.caps => c \in PeerCaps(table, a)
      BY Projections DEF IInv, TypeOK
    <3> HIDE DEF IInv
    <3>3. dropped' \subseteq Addr \X Cap
      BY <2>2 DEF InterestUpdate, IInv, TypeOK
    <3>4. dropped' = dropped /\ table' = RegisterPeer(table, a, PeerCaps(table, a), interests)
      BY <2>2 DEF InterestUpdate
    <3> QED BY <3>1, <3>2, <3>3, <3>4, RegisterStep
  <2>3. ASSUME NEW a \in Addr, Goodbye(a) PROVE IInv'
    BY <2>3, RemoveStep
  <2>4. CASE UNCHANGED vars
    BY <2>4 DEF vars, IInv, TypeOK, CapsAreForwarded, CapsOfKnown, StaleRoutesAreDropped
  <2> QED BY <2>1, <2>2, <2>3, <2>4 DEF Next
<1> QED BY <1>1, <1>2, PTL DEF Spec

\* Every query reaches a known peer that is not excluded, if there is one, or is
\* answered with stale routes alone.
THEOREM QueriesFind == Spec => []QueryReachesSomebody
<1>1. IInv => QueryReachesSomebody
  <2> SUFFICES ASSUME IInv, NEW c \in Cap, NEW exclude \in SUBSET Addr
               PROVE  LET found == QueryPeers(table, c, exclude, Related)
                      IN /\ found \cap exclude = {}
                         /\ \/ table.known \ exclude = {}
                            \/ found \cap table.known # {}
                            \/ found # {} /\ found \X {c} \subseteq dropped
    BY DEF QueryReachesSomebody
  <2> DEFINE found == QueryPeers(table, c, exclude, Related)
  <2> HIDE DEF found
  <2>1. /\ found \cap exclude = {}
        /\ found \subseteq FindAllPeersFor(table, c) \/ found \subseteq table.known
        /\ table.known \ exclude # {} => found # {}
    BY QueryFinds DEF found
  <2>2. ASSUME NEW p \in found, found \cap table.known = {}, found # {}
        PROVE  <<p, c>> \in dropped
    <3>1. p \in FindAllPeersFor(table, c) /\ p \notin table.known
      BY <2>1, <2>2
    <3>2. <<c, p>> \in table.forwarding
      BY <3>1, Projections DEF IInv, TypeOK
    <3>3. p \in Addr
      BY <3>2 DEF IInv, TypeOK, TableOver
    <3>4. <<p, c>> \in table.caps \cup dropped
      BY <3>1, <3>3 DEF IInv, StaleRoutesAreDropped
    <3> QED BY <3>1, <3>4 DEF IInv, CapsOfKnown
  <2>3. found \cap table.known = {} /\ found # {} => found \X {c} \subseteq dropped
    BY <2>2
  <2> QED BY <2>1, <2>3 DEF found
<1> QED BY <1>1, RoutingInvariance, PTL

\* A route leads to a peer that has the capability or has dropped it.
THEOREM RoutesAreCurrentOrDropped == Spec => []StaleRoutesAreDropped
<1>1. IInv => StaleRoutesAreDropped
  BY DEF IInv
<1> QED BY <1>1, RoutingInvariance, PTL

\* A peer is found for every capability it registered last, always.
THEOREM RoutesAreComplete == Spec => []CapsAreForwarded
<1>1. IInv => CapsAreForwarded
  BY DEF IInv
<1> QED BY <1>1, RoutingInvariance, PTL

\* An update of interests changes no route, whatever happened before.
THEOREM UpdatesKeepRoutes == Spec => UpdateKeepsRoutes
<1> DEFINE Keeps ==
      \A a \in Addr : (\E i \in SUBSET Cap : InterestUpdate(a, i)) =>
        \A c \in Cap : FindAllPeersFor(table', c) = FindAllPeersFor(table, c)
<1>1. IInv /\ [Next]_vars => [Keeps]_vars
  <2> SUFFICES ASSUME IInv, NEW a \in Addr, NEW i \in SUBSET Cap, InterestUpdate(a, i),
                      NEW c \in Cap
               PROVE  FindAllPeersFor(table', c) = FindAllPeersFor(table, c)
    OBVIOUS
  <2>1. table' = RegisterPeer(table, a, PeerCaps(table, a), i)
    BY DEF InterestUpdate
  <2>2. TypeOK /\ TypeOK' /\ PeerCaps(table, a) \in SUBSET Cap
    BY <2>1, TableTypes DEF IInv, TypeOK, InterestUpdate
  <2>3. \A x \in PeerCaps(table, a) : <<x, a>> \in table.forwarding
    BY <2>2, Projections DEF IInv, TypeOK, CapsAreForwarded
  <2>4. \A b, x : <<x, b>> \in table'.forwarding <=> <<x, b>> \in table.forwarding
    <3> SUFFICES ASSUME NEW b, NEW x
                 PROVE  <<x, b>> \in table'.forwarding <=> <<x, b>> \in table.forwarding
      OBVIOUS
    <3> DEFINE caps == PeerCaps(table, a)
    <3> HIDE DEF caps
    <3>1. <<x, b>> \in RegisterPeer(table, a, caps, i).forwarding <=>
            <<x, b>> \in table.forwarding \/ (b = a /\ x \in caps)
      BY RegisterPeerFacts
    <3>2. b = a /\ x \in caps => <<x, b>> \in table.forwarding
      BY <2>3 DEF caps
    <3> QED BY <2>1, <3>1, <3>2 DEF caps
  <2>5. \A b : b \in FindAllPeersFor(table', c) <=> b \in FindAllPeersFor(table, c)
    BY <2>2, <2>4, Projections DEF TypeOK
  <2> QED BY <2>5
<1> QED BY <1>1, RoutingInvariance, PTL DEF Spec, UpdateKeepsRoutes
=============================================================================
