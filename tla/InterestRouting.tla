--------------------------- MODULE InterestRouting ---------------------------
(* The life of one InterestTable: its methods called in any order a node may *)
(* call them, that is with a HELLO, HELLO_ACK or INTEREST_UPDATE of any peer *)
(* address and with the BYE of any of them.                                  *)
EXTENDS InterestTable

CONSTANTS
  Addr,     \* peer addresses
  Cap,      \* names of agents, models and tools
  Related   \* <<capability, interest>> pairs with a common prefix

ASSUME RelatedType == Related \subseteq Cap \X Cap

VARIABLES
  table,    \* the InterestTable
  dropped   \* history: <<address, capability>> where the address has left a
            \* capability out of a later HELLO, and not registered it since

vars == <<table, dropped>>

TypeOK == table \in TableOver(Addr, Cap) /\ dropped \subseteq Addr \X Cap

Init == table = EmptyTable /\ dropped = {}

\* _on_hello: a HELLO or a HELLO_ACK with the peer's capabilities.
Hello(a, caps, interests) ==
  /\ table' = RegisterPeer(table, a, caps, interests)
  /\ dropped' = (dropped \cup ({a} \X PeerCaps(table, a))) \ ({a} \X caps)

\* _on_interest_update: the capabilities known so far are registered again.
InterestUpdate(a, interests) ==
  /\ table' = RegisterPeer(table, a, PeerCaps(table, a), interests)
  /\ dropped' = dropped

\* _on_bye
Goodbye(a) == table' = RemovePeer(table, a) /\ dropped' = dropped

Next ==
  \E a \in Addr :
    \/ \E caps, interests \in SUBSET Cap : Hello(a, caps, interests)
    \/ \E interests \in SUBSET Cap : InterestUpdate(a, interests)
    \/ Goodbye(a)

Spec == Init /\ [][Next]_vars

-----------------------------------------------------------------------------
\* Properties

\* A peer is found for every capability it has registered last: no sequence of
\* registrations, updates and removals of it or of others hides it.
CapsAreForwarded ==
  \A a \in Addr, c \in Cap : <<a, c>> \in table.caps => a \in FindAllPeersFor(table, c)

\* A route leads to a peer that has the capability, or that had it and dropped
\* it: remove_peer cleans the forwarding entries of the capabilities registered
\* last only (routing.py:79-81), so a route that a later HELLO left behind
\* outlives the peer, and nothing else does.
StaleRoutesAreDropped ==
  \A a \in Addr, c \in Cap :
    a \in FindAllPeersFor(table, c) => <<a, c>> \in table.caps \cup dropped

\* A query never goes back to an excluded peer, and it reaches a known one if
\* one is not excluded, unless it is answered with stale routes alone: those of
\* peers that dropped the capability and are gone. (No code of the repository
\* calls query_peers yet.)
QueryReachesSomebody ==
  \A c \in Cap, exclude \in SUBSET Addr :
    LET found == QueryPeers(table, c, exclude, Related)
    IN /\ found \cap exclude = {}
       /\ \/ table.known \ exclude = {}
          \/ found \cap table.known # {}
          \/ found # {} /\ found \X {c} \subseteq dropped

\* An update of the interests of a peer says nothing of its capabilities: it
\* changes no answer of find_all_peers_for.
UpdateKeepsRoutes ==
  [][\A a \in Addr : (\E i \in SUBSET Cap : InterestUpdate(a, i)) =>
       \A c \in Cap : FindAllPeersFor(table', c) = FindAllPeersFor(table, c)]_vars
=============================================================================
