---------------------------- MODULE InterestTable ----------------------------
(* The routing table of a node (InterestTable of transport/routing.py) as a  *)
(* record of relations, and its methods as operators on that record.         *)
(*   known       the keys of _peer_caps, which are those of _peer_interests  *)
(*   caps        peer address -> capability        (_peer_caps)              *)
(*   interests   peer address -> capability        (_peer_interests)         *)
(*   forwarding  capability -> peer address        (_forwarding)             *)

TableOver(Addrs, Caps) ==
  [known : SUBSET Addrs,
   caps : SUBSET (Addrs \X Caps),
   interests : SUBSET (Addrs \X Caps),
   forwarding : SUBSET (Caps \X Addrs)]

EmptyTable == [known |-> {}, caps |-> {}, interests |-> {}, forwarding |-> {}]

PeerCaps(t, a) == {p[2] : p \in {q \in t.caps : q[1] = a}}
PeerInterests(t, a) == {p[2] : p \in {q \in t.interests : q[1] = a}}

\* A bug: a capability is forwarded to the last peer that registered it only.
RegisterPeerAlone(t, a, caps, interests) ==
  [known |-> t.known \cup {a},
   caps |-> {p \in t.caps : p[1] # a} \cup ({a} \X caps),
   interests |-> {p \in t.interests : p[1] # a} \cup ({a} \X interests),
   forwarding |-> {p \in t.forwarding : p[1] \notin caps} \cup (caps \X {a})]

\* register_peer: what was registered for the address is replaced, except in
\* the forwarding table, to which the new capabilities are added.
RegisterPeer(t, a, caps, interests) ==
  [known |-> t.known \cup {a},
   caps |-> {p \in t.caps : p[1] # a} \cup ({a} \X caps),
   interests |-> {p \in t.interests : p[1] # a} \cup ({a} \X interests),
   forwarding |-> t.forwarding \cup (caps \X {a})]

\* register_peer raises on what is no list of interests.
RegisterPeerPartly(t, a, caps) ==
  [t EXCEPT !.known = @ \cup {a},
            !.caps = {p \in @ : p[1] # a} \cup ({a} \X caps)]

\* A bug: a removed peer stays in the forwarding table.
RemovePeersKeepRoutes(t, addrs) ==
  [known |-> t.known \ addrs,
   caps |-> {p \in t.caps : p[1] \notin addrs},
   interests |-> {p \in t.interests : p[1] \notin addrs},
   forwarding |-> t.forwarding]

\* remove_peer for each of some addresses: the forwarding entries of the
\* capabilities registered last go.
RemovePeers(t, addrs) ==
  [known |-> t.known \ addrs,
   caps |-> {p \in t.caps : p[1] \notin addrs},
   interests |-> {p \in t.interests : p[1] \notin addrs},
   forwarding |-> {p \in t.forwarding : p[2] \in addrs => <<p[2], p[1]>> \notin t.caps}]

RemovePeer(t, a) == RemovePeers(t, {a})

\* find_all_peers_for; find_peer_for returns any one of them, or None.
FindAllPeersFor(t, cap) == {p[2] : p \in {q \in t.forwarding : q[1] = cap}}

\* A bug: the excluded peers are taken out of the answer at the end only.
QueryPeersFilterLate(t, cap, exclude, related) ==
  LET direct == FindAllPeersFor(t, cap)
  IN (IF direct # {} THEN direct ELSE t.known) \ exclude

\* query_peers: direct matches, else the peers with an interest that is related
\* (same prefix), else every known peer; the excluded ones never.
QueryPeers(t, cap, exclude, related) ==
  LET direct == FindAllPeersFor(t, cap) \ exclude
      similar == {a \in t.known \ exclude :
                    \E i \in PeerInterests(t, a) : <<cap, i>> \in related}
  IN IF direct # {} THEN direct
     ELSE IF similar # {} THEN similar
     ELSE t.known \ exclude
=============================================================================
