----------------------------- MODULE QueryFlood -----------------------------
(* QUERY and QUERY_RESP between the nodes of py/elo/node.py: the calls       *)
(* discover_peers_network and _query_capability, the handlers _on_query and  *)
(* _on_query_resp, and the ids of queries that a node remembers.             *)
(*                                                                           *)
(* A node may be connected to a peer that its routing table does not list:   *)
(* one whose HELLO or HELLO_ACK the rate limit dropped or that has not come. *)
EXTENDS Naturals, Sequences, FiniteSets

CONSTANTS
  Node,
  Links,        \* the connections at the start, a symmetric relation
  Changing,     \* bound: the ends of connections that are registered or lost on
                \* the way, instead of before the first query or never
  Dials,        \* bound: how often two nodes are connected, anew each time
  Callers,      \* bound: the nodes that ask
  Query,        \* ids; each one is asked once: a bound on the calls
  Offering,     \* the nodes that offer the capability that is asked for
  DiscoverTTL,  \* 3 (node.py:432)
  FindTTL,      \* 5 (node.py:819)
  None

ASSUME LinksAreSymmetric ==
  Links \subseteq Node \X Node /\ \A l \in Links : <<l[2], l[1]>> \in Links
\* No node files itself as a peer: TCPManager's NeverOwnPeer.
ASSUME NotLinkedToItself == \A n \in Node : <<n, n>> \notin Links
ASSUME ChangingAreLinks == Changing \subseteq Links
ASSUME SomeDials == Dials \in Nat \ {0}
ASSUME AllAreNodes == Offering \cup Callers \subseteq Node
ASSUME TTLs == DiscoverTTL \in Nat \ {0} /\ FindTTL \in Nat \ {0}

Call == [by : Node, find : BOOLEAN]

ASSUME NoneIsNoNode == None \notin Node \cup Call

Key == Node \X (1 .. Dials)         \* <<m, d>>: a node's key for its d-th connection with m
Loop ==                             \* <<n, k>>: the read loop of n on connection k
  {l \in Node \X Key : <<l[1], l[2][1]>> \in Links}
Entry == Node \X Node \X Key        \* <<m, n, k>>: n offers m, under n's key k

Frame ==
  [type : {"QUERY"}, id : Query, ttl : Nat, origin : Node \cup {None}, find : BOOLEAN]
    \cup [type : {"QUERY_RESP"}, id : Query, nodes : SUBSET Entry]

VARIABLES
  dial,    \* <<n, m>>: which connection n has filed for m, if its loop still runs
  link,    \* the read loops that run, also on connections no longer filed
  known,   \* per node: the keys in its routing table
  wire,    \* per read loop: the frames sent to it and not read yet
  seen,    \* per node: the ids in _seen_queries that are not 60 seconds old
  call,    \* per query: who asked it and what for
  stage,   \* per query: "new", "pending" (in _pending_queries) or "done"
  got,     \* per query: the answers collected, in their order
  result,  \* per query: what the call has returned
  served   \* (history) how often a node has answered or forwarded a query, up to 2

vars == <<dial, link, known, wire, seen, call, stage, got, result, served>>

TypeOK ==
  /\ dial \in [Node \X Node -> 1 .. Dials]
  /\ link \in SUBSET Loop
  /\ known \in [Node -> SUBSET Key]
  /\ wire \in [Loop -> Seq(Frame)]
  /\ seen \in [Node -> SUBSET Query]
  /\ call \in [Query -> Call \cup {None}]
  /\ stage \in [Query -> {"new", "pending", "done"}]
  /\ got \in [Query -> Seq(SUBSET Entry)]
  /\ result \in [Query -> SUBSET Entry]
  /\ served \in [Node \X Query -> 0 .. 2]

\* Any of the connections may still be unknown to the routing table of an end.
Init ==
  /\ dial = [p \in Node \X Node |-> 1]
  /\ link = {<<p[1], <<p[2], 1>>>> : p \in Links}
  /\ \E listed \in SUBSET link : known = [n \in Node |-> {k \in Key : <<n, k>> \in listed}]
  /\ wire = [l \in Loop |-> <<>>]
  /\ seen = [n \in Node |-> {}]
  /\ call = [q \in Query |-> None]
  /\ stage = [q \in Query |-> "new"]
  /\ got = [q \in Query |-> <<>>]
  /\ result = [q \in Query |-> {}]
  /\ served = [h \in Node \X Query |-> 0]

-----------------------------------------------------------------------------
\* The key of n for m, and the keys in the table of the transport.
KeyOf(n, m) == <<m, dial[<<n, m>>]>>
Filed(n) == {k \in Key : <<n, k>> \in link /\ k = KeyOf(n, k[1])}

\* send_to or broadcast of one frame to some of the keys that n has filed: lost
\* where the reader is gone.
Sent(w, n, to, frame) ==
  [l \in Loop |-> IF /\ l \in link /\ l[2] = KeyOf(l[1], n)
                     /\ KeyOf(n, l[1]) \in to \cap Filed(n)
                  THEN Append(w[l], frame) ELSE w[l]]

QueryMsg(q, ttl, origin, find) ==
  [type |-> "QUERY", id |-> q, ttl |-> ttl, origin |-> origin, find |-> find]

\* discover_peers_network (find = FALSE) or _query_capability.
Ask(n, q, find) ==
  /\ stage[q] = "new"
  /\ stage' = [stage EXCEPT ![q] = "pending"]
  /\ call' = [call EXCEPT ![q] = [by |-> n, find |-> find]]
  /\ wire' = Sent(wire, n, Key, IF find THEN QueryMsg(q, FindTTL, None, TRUE)
                                 ELSE QueryMsg(q, DiscoverTTL, n, FALSE))
  /\ UNCHANGED <<dial, link, known, seen, got, result, served>>

\* What a discovery returns: the entries collected, and the node's own peers.
\* What a search returns: the first entry of the first answer; an answerer lists
\* its peers before the entry for itself, which has the key it has for the asker.
LocalPeers(n) == Filed(n) \cup known[n]
Offers(n, keys) == {<<k[1], n, k>> : k \in keys}

Discovered(q) ==
  (UNION {got[q][i] : i \in DOMAIN got[q]}) \cup Offers(call[q].by, LocalPeers(call[q].by))

Found(q) ==
  LET first == IF got[q] = <<>> THEN {} ELSE got[q][1]
      others == {e \in first : e[1] # e[2]}
  IN  IF others # {} THEN {{e} : e \in others} ELSE {first}

\* The event is set and the caller resumes, or 5 seconds are over.  Answers
\* that come later are ignored.
Returns(q) ==
  /\ stage[q] = "pending"
  /\ stage' = [stage EXCEPT ![q] = "done"]
  /\ \E r \in IF call[q].find THEN Found(q) ELSE {Discovered(q)} :
       result' = [result EXCEPT ![q] = r]
  /\ UNCHANGED <<dial, link, known, wire, seen, call, got, served>>

-----------------------------------------------------------------------------
\* The handlers, in the read loop of n on its connection k; f is the frame

Rest(n, k) == [wire EXCEPT ![<<n, k>>] = Tail(@)]

\* Bugs: the asker is listed as well; only a node with the capability lists its
\* peers; the ttl is passed on as it is; only an answer is remembered.
PeersWithAsker(n, k, f) == Offers(n, known[n])
PeersIfOffering(n, k, f) == Offers(n, IF n \in Offering THEN known[n] \ {k} ELSE {})
SameTTL(f) == f.ttl
RememberAnswer(n, k, f) ==
  IF known[n] \subseteq {k} THEN seen ELSE [seen EXCEPT ![n] = @ \cup {f.id}]

\* The peers that n lists in its answer, whatever was asked: all but the key that
\* the question came from.
Peers(n, k, f) == Offers(n, known[n] \ {k})
NextTTL(f) == f.ttl - 1
Remember(n, k, f) == [seen EXCEPT ![n] = @ \cup {f.id}]

\* The answer: the peers, and an entry for n itself under the key it has for
\* the asker.
Answer(n, k, f) ==
  Peers(n, k, f) \cup (IF f.find /\ n \in Offering THEN {<<n, n, k>>} ELSE {})

Response(q, nodes) == [type |-> "QUERY_RESP", id |-> q, nodes |-> nodes]

Forwarded(n, f) ==
  QueryMsg(f.id, NextTTL(f), IF f.origin = None THEN n ELSE f.origin, f.find)

\* A node answers if it has anything to say, and forwards only if not.
Serve(n, k, f) ==
  /\ seen' = Remember(n, k, f)
  /\ served' = [served EXCEPT ![<<n, f.id>>] = IF @ = 2 THEN 2 ELSE @ + 1]
  /\ wire' = LET answer == Answer(n, k, f)
             IN  CASE answer # {} -> Sent(Rest(n, k), n, {k}, Response(f.id, answer))
                   [] answer = {} /\ f.ttl > 1 ->
                        Sent(Rest(n, k), n, Key \ {k}, Forwarded(n, f))
                   [] OTHER -> Rest(n, k)

OnQuery(n, k, f) ==
  /\ f.type = "QUERY"
  /\ \/ /\ f.origin = n \/ f.id \in seen[n]
        /\ wire' = Rest(n, k) /\ UNCHANGED <<seen, served>>
     \/ /\ f.origin # n /\ f.id \notin seen[n]
        /\ Serve(n, k, f)
  /\ UNCHANGED <<dial, link, known, call, stage, got, result>>

\* An answer counts for the node that has the query pending, and for no other:
\* what comes back to a node that forwarded is dropped there.
OnQueryResp(n, k, f) ==
  /\ f.type = "QUERY_RESP"
  /\ wire' = Rest(n, k)
  /\ got' = IF stage[f.id] = "pending" /\ call[f.id].by = n /\ f.nodes # {}
            THEN [got EXCEPT ![f.id] = Append(@, f.nodes)] ELSE got
  /\ UNCHANGED <<dial, link, known, seen, call, stage, result, served>>

Read(n, k) ==
  /\ wire[<<n, k>>] # <<>>
  /\ LET f == Head(wire[<<n, k>>]) IN OnQuery(n, k, f) \/ OnQueryResp(n, k, f)

-----------------------------------------------------------------------------
\* The rest of the node

\* A HELLO, HELLO_ACK or INTEREST_UPDATE is handled, in a loop that runs: it may
\* have been held up while the connection was replaced.
Register(n, k) ==
  /\ <<n, k>> \in link /\ <<n, k[1]>> \in Changing /\ k \notin known[n]
  /\ known' = [known EXCEPT ![n] = @ \cup {k}]
  /\ UNCHANGED <<dial, link, wire, seen, call, stage, got, result, served>>

\* The read loop ends, and the BYE handler then forgets its key.
Unlink(n, k) ==
  /\ <<n, k>> \in link /\ <<n, k[1]>> \in Changing
  /\ link' = link \ {<<n, k>>}
  /\ known' = [known EXCEPT ![n] = @ \ {k}]
  /\ wire' = [wire EXCEPT ![<<n, k>>] = <<>>]
  /\ UNCHANGED <<dial, seen, call, stage, got, result, served>>

\* The loop of m on n ends, with what it has not read, and m is connected to n anew.
\* n files the connection under another key; the loop on the old one may still run
\* and its key be listed.  m has forgotten n in its BYE handler and may list it again.
Reconnect(n, m) ==
  /\ <<n, m>> \in Changing /\ dial[<<n, m>>] < Dials
  /\ dial' = [dial EXCEPT ![<<n, m>>] = @ + 1]
  /\ link' = link \cup {<<m, KeyOf(m, n)>>, <<n, <<m, dial[<<n, m>>] + 1>>>>}
  /\ known' \in {known, [known EXCEPT ![m] = @ \ {KeyOf(m, n)}]}
  /\ wire' = [wire EXCEPT ![<<m, KeyOf(m, n)>>] = <<>>]
  /\ UNCHANGED <<seen, call, stage, got, result, served>>

\* 60 seconds since n saw the query: longer than any call waits, not longer than
\* a read loop may be held up with a copy of it unread.
Forget(n, q) ==
  /\ q \in seen[n] /\ stage[q] = "done"
  /\ seen' = [seen EXCEPT ![n] = @ \ {q}]
  /\ UNCHANGED <<dial, link, known, wire, call, stage, got, result, served>>

Next ==
  \/ \E n \in Callers, q \in Query : Ask(n, q, TRUE) \/ Ask(n, q, FALSE)
  \/ \E n \in Node, q \in Query : Forget(n, q)
  \/ \E q \in Query : Returns(q)
  \/ \E l \in Loop : Read(l[1], l[2]) \/ Register(l[1], l[2]) \/ Unlink(l[1], l[2])
  \/ \E n, m \in Node : Reconnect(n, m)

Spec == Init /\ [][Next]_vars

\* Read loops read on; the waiting caller resumes by its time-out at the latest.
Fairness ==
  /\ \A l \in Loop : WF_vars(Read(l[1], l[2]))
  /\ \A q \in Query : WF_vars(Returns(q))

FairSpec == Spec /\ Fairness

-----------------------------------------------------------------------------
\* Properties

\* As long as its caller waits, a query is answered or forwarded at most once by a
\* node, along however many ways it comes, and a discovery never by its caller.
ServedOnce ==
  \A n \in Node, q \in Query :
    stage[q] = "pending" =>
      served[<<n, q>>] <= (IF call[q].by = n /\ ~call[q].find THEN 0 ELSE 1)

\* The only addresses of its caller that a discovery hands out, for the caller to
\* dial, are those of connections that have been replaced: an answerer leaves out
\* the key that it is asked by, and not what it still lists of the same peer.
OffersAskerOnlyStale ==
  \A q \in Query : call[q] # None /\ ~call[q].find =>
    \A e \in result[q] : e[1] = call[q].by => e[3][2] < dial[<<e[2], e[1]>>]

\* A node that forwards a query sends it only on connections that its routing table
\* does not list: had it known one of them, it would have answered instead.
Relays(n, m, q) ==
  LET l == <<m, KeyOf(m, n)>>
      f == wire'[l][Len(wire'[l])]
  IN  Len(wire'[l]) > Len(wire[l]) /\ f.type = "QUERY" /\ f.id = q /\ stage[q] # "new"

ForwardedBlindly ==
  [][\A n, m \in Node, q \in Query : <<n, m>> \in Links /\ Relays(n, m, q)
       => KeyOf(n, m) \notin known[n]]_vars

\* Every query and every answer dies out, also when the nodes have forgotten the
\* query while copies of it were under way.
FloodEnds == \A q \in Query :
  <>[](\A l \in Loop : \A i \in DOMAIN wire[l] : wire[l][i].id # q)
=============================================================================
