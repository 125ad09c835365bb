-------------------------- MODULE QueryFloodProofs ---------------------------
(* Proofs about QueryFlood, for any nodes, connections, queries and TTLs.    *)
EXTENDS QueryFlood, TLAPS

\* What an append leaves of a sequence of frames.
LEMMA AppendFrame ==
  ASSUME NEW s \in Seq(Frame), NEW f \in Frame
  PROVE  /\ Append(s, f) \in Seq(Frame)
         /\ Len(Append(s, f)) = Len(s) + 1
         /\ Append(s, f)[Len(s) + 1] = f
         /\ \A i \in DOMAIN Append(s, f) :
              Append(s, f)[i] = f \/ (i \in DOMAIN s /\ Append(s, f)[i] = s[i])
OBVIOUS

LEMMA TailFrames ==
  ASSUME NEW s \in Seq(Frame), s # <<>>
  PROVE  /\ Tail(s) \in Seq(Frame) /\ Head(s) \in Frame
         /\ Len(Tail(s)) < Len(s)
         /\ 1 \in DOMAIN s /\ Head(s) = s[1]
         /\ \A i \in DOMAIN Tail(s) : i + 1 \in DOMAIN s /\ Tail(s)[i] = s[i + 1]
OBVIOUS

\* The frames that a read loop has not read.
Unread(w, l) == {w[l][i] : i \in DOMAIN w[l]}

\* Read loop l is on the connection that n has filed, under one of the keys to.
Reaches(n, to, l) == l[2] = KeyOf(l[1], n) /\ KeyOf(n, l[1]) \in to

\* Where a frame is sent, it is the last one; elsewhere nothing happens.
LEMMA SentFrames ==
  ASSUME NEW w \in [Loop -> Seq(Frame)], NEW n \in Node, NEW to, NEW f \in Frame,
         NEW v, v = Sent(w, n, to, f)
  PROVE  /\ v \in [Loop -> Seq(Frame)]
         /\ \A l \in Loop :
              \/ v[l] = w[l]
              \/ /\ Reaches(n, to, l)
                 /\ Len(v[l]) = Len(w[l]) + 1 /\ v[l][Len(w[l]) + 1] = f
                 /\ Unread(v, l) \subseteq Unread(w, l) \cup {f}
<1>1. v = [l \in Loop |-> IF /\ l \in link /\ l[2] = KeyOf(l[1], n)
                             /\ KeyOf(n, l[1]) \in to \cap Filed(n)
                          THEN Append(w[l], f) ELSE w[l]]
  BY DEF Sent
<1>2. ASSUME NEW l \in Loop
      PROVE  /\ v[l] \in Seq(Frame)
             /\ v[l] = w[l] \/ (v[l] = Append(w[l], f) /\ Reaches(n, to, l))
  BY <1>1, AppendFrame DEF Reaches
<1>3. ASSUME NEW l \in Loop, v[l] = Append(w[l], f)
      PROVE  /\ Len(v[l]) = Len(w[l]) + 1 /\ v[l][Len(w[l]) + 1] = f
             /\ Unread(v, l) \subseteq Unread(w, l) \cup {f}
  <2>1. \A i \in DOMAIN v[l] : v[l][i] = f \/ (i \in DOMAIN w[l] /\ v[l][i] = w[l][i])
    BY <1>3, AppendFrame
  <2>2. Unread(v, l) \subseteq Unread(w, l) \cup {f}
    BY <2>1 DEF Unread
  <2>3. QED
    BY <1>3, <2>2, AppendFrame
<1>4. v \in [Loop -> Seq(Frame)]
  BY <1>1, <1>2
<1>5. QED
  BY <1>2, <1>3, <1>4

\* The frame that is read is taken away, and no other.
LEMMA RestFrames ==
  ASSUME wire \in [Loop -> Seq(Frame)], NEW n, NEW k, <<n, k>> \in Loop,
         wire[<<n, k>>] # <<>>
  PROVE  /\ Rest(n, k) \in [Loop -> Seq(Frame)]
         /\ Head(wire[<<n, k>>]) \in Frame
         /\ Head(wire[<<n, k>>]) \in Unread(wire, <<n, k>>)
         /\ \A l \in Loop : /\ Len(Rest(n, k)[l]) <= Len(wire[l])
                            /\ Unread(Rest(n, k), l) \subseteq Unread(wire, l)
<1> DEFINE h == <<n, k>>
<1>1. h \in Loop /\ wire[h] \in Seq(Frame)
  OBVIOUS
<1>2. Rest(n, k) = [wire EXCEPT ![h] = Tail(wire[h])]
  BY <1>1 DEF Rest
<1>3. Tail(wire[h]) \in Seq(Frame) /\ Head(wire[h]) \in Frame
  BY <1>1, TailFrames
<1>4. Head(wire[h]) \in Unread(wire, h)
  BY <1>1, TailFrames DEF Unread
<1>5. ASSUME NEW l \in Loop
      PROVE  /\ Len(Rest(n, k)[l]) <= Len(wire[l])
             /\ Unread(Rest(n, k), l) \subseteq Unread(wire, l)
  <2>1. CASE l # h
    <3>1. Rest(n, k)[l] = wire[l] /\ wire[l] \in Seq(Frame)
      BY <1>1, <1>2, <2>1
    <3>2. QED
      BY <3>1 DEF Unread
  <2>2. CASE l = h
    <3>1. Rest(n, k)[l] = Tail(wire[h])
      BY <1>1, <1>2, <2>2
    <3>2. Len(Tail(wire[h])) <= Len(wire[h])
      BY <1>1, TailFrames
    <3>3. \A i \in DOMAIN Tail(wire[h]) :
            i + 1 \in DOMAIN wire[h] /\ Tail(wire[h])[i] = wire[h][i + 1]
      BY <1>1, TailFrames
    <3> DEFINE t == Tail(wire[h])
    <3> HIDE DEF t
    <3>4. {t[i] : i \in DOMAIN t} \subseteq {wire[h][i] : i \in DOMAIN wire[h]}
      BY <3>3 DEF t
    <3>5. Unread(Rest(n, k), l) \subseteq Unread(wire, l)
      BY <2>2, <3>1, <3>4 DEF Unread, t
    <3>6. QED
      BY <2>2, <3>1, <3>2, <3>5
  <2>3. QED
    BY <2>1, <2>2
<1>6. QED
  BY <1>1, <1>2, <1>3, <1>4, <1>5
-----------------------------------------------------------------------------
\* Types, and what a step does to the frames

\* A key is of another node, and of no connection that is still to come.
KeyOK(n, k) == k[1] # n /\ k[2] <= dial[<<n, k[1]>>]
KnownInv ==
  /\ \A l \in link : KeyOK(l[1], l[2])
  /\ \A n \in Node : \A k \in known[n] : KeyOK(n, k)

\* A call has begun when its query is no more new.
CallInv == \A q \in Query : stage[q] = "new" <=> call[q] = None

FloodTypes == TypeOK /\ KnownInv /\ CallInv

LEMMA LinksAreOfNodes ==
  FloodTypes => \A n \in Node : /\ LocalPeers(n) \subseteq Key /\ known[n] \subseteq Key
                                /\ \A k \in LocalPeers(n) : KeyOK(n, k)
BY DEF FloodTypes, KnownInv, TypeOK, LocalPeers, Filed

LEMMA KeysArePairs == \A k \in Key : k[1] \in Node /\ k[2] \in Nat /\ k = <<k[1], k[2]>>
BY SomeDials DEF Key

LEMMA OffersAreEntries ==
  ASSUME NEW n \in Node, NEW keys \in SUBSET Key
  PROVE  /\ Offers(n, keys) \in SUBSET Entry
         /\ \A e \in Offers(n, keys) : e[1] = e[3][1] /\ e[2] = n /\ e[3] \in keys
<1>1. ASSUME NEW k \in keys
      PROVE  <<k[1], n, k>> \in Entry /\ <<k[1], n, k>>[3] \in keys
  BY DEF Key, Entry
<1>2. QED
  BY <1>1 DEF Offers

LEMMA LoopsAreOfNodes ==
  \A l \in Loop : /\ l[1] \in Node /\ l[2] \in Key /\ <<l[1], l[2]>> \in Loop
                  /\ l[2][1] \in Node /\ l = <<l[1], l[2]>>
BY DEF Loop, Key

LEMMA CallersAreNodes == Callers \subseteq Node
BY AllAreNodes

LEMMA QueryIsFrame ==
  ASSUME NEW q \in Query, NEW ttl \in Nat, NEW o \in Node \cup {None},
         NEW find \in BOOLEAN
  PROVE  QueryMsg(q, ttl, o, find) \in Frame
BY DEF QueryMsg, Frame

LEMMA QueryFields ==
  ASSUME NEW f \in Frame, f.type = "QUERY"
  PROVE  /\ f.id \in Query /\ f.ttl \in Nat /\ f.origin \in Node \cup {None}
         /\ f.find \in BOOLEAN
BY DEF Frame

LEMMA ResponseFields ==
  ASSUME NEW f \in Frame, f.type = "QUERY_RESP"
  PROVE  f.id \in Query /\ f.nodes \in SUBSET Entry
BY DEF Frame

\* The entry is not of the reader m, or under a key of a connection replaced since.
Stale(m, e) == e[1] = m => e[3][2] < dial[<<e[2], m>>]

\* An answer is a frame of entries, and one to a discovery by the peer that is
\* connected under key k lists it under stale keys only.
LEMMA AnswerIsFrame ==
  ASSUME FloodTypes, NEW n \in Node, NEW k \in Key, <<n, k>> \in Loop, NEW f \in Frame, f.type = "QUERY"
  PROVE  /\ Answer(n, k, f) \in SUBSET Entry
         /\ Response(f.id, Answer(n, k, f)) \in Frame
         /\ ~f.find /\ k = KeyOf(n, k[1]) => \A e \in Answer(n, k, f) : Stale(k[1], e)
<1>1. known[n] \subseteq Key /\ \A h \in known[n] : KeyOK(n, h)
  BY LinksAreOfNodes DEF LocalPeers
<1>2. Answer(n, k, f) \in SUBSET Entry
  <2>1. Peers(n, k, f) \in SUBSET Entry
    BY <1>1, OffersAreEntries DEF Peers
  <2>2. QED
    BY <2>1 DEF Answer, Entry
<1>3. Response(f.id, Answer(n, k, f)) \in Frame
  BY <1>2, QueryFields DEF Response, Frame
<1>4. ASSUME ~f.find, k = KeyOf(n, k[1]), NEW e \in Answer(n, k, f)
      PROVE  Stale(k[1], e)
  <2>1. e \in Offers(n, known[n] \ {k})
    BY <1>4 DEF Answer, Peers
  <2>2. e[1] = e[3][1] /\ e[2] = n /\ e[3] \in known[n] \ {k}
    BY <1>1, <2>1, OffersAreEntries
  <2>3. SUFFICES ASSUME e[1] = k[1] PROVE e[3][2] < dial[<<n, k[1]>>]
    BY <2>2 DEF Stale
  <2>4. e[3][2] <= dial[<<n, k[1]>>]
    BY <1>1, <2>2, <2>3 DEF KeyOK
  <2>5. e[3] \in Key /\ k[1] \in Node
    BY <1>1, <2>2 DEF Key
  <2>6. e[3] = <<k[1], e[3][2]>>
    BY <2>2, <2>3, <2>5, KeysArePairs
  <2>7. e[3][2] # dial[<<n, k[1]>>]
    BY <1>4, <2>2, <2>6 DEF KeyOf
  <2>8. e[3][2] \in Nat /\ dial[<<n, k[1]>>] \in Nat
    BY <2>5, SomeDials DEF Key, FloodTypes, TypeOK
  <2>9. QED
    BY <2>4, <2>7, <2>8
<1>5. QED
  BY <1>2, <1>3, <1>4

LEMMA ForwardIsFrame ==
  ASSUME NEW n \in Node, NEW f \in Frame, f.type = "QUERY", f.ttl > 1
  PROVE  Forwarded(n, f) \in Frame
<1>1. /\ f.id \in Query /\ f.ttl \in Nat /\ f.origin \in Node \cup {None}
      /\ f.find \in BOOLEAN
  BY QueryFields
<1>2. NextTTL(f) \in Nat
  BY <1>1 DEF NextTTL
<1>3. QED
  BY <1>1, <1>2, QueryIsFrame DEF Forwarded

\* What a step of the handlers, or a new query, does to the unread frames: they are
\* the old ones, and the frame f where it is sent.
Adds(n, to, f) ==
  /\ wire' \in [Loop -> Seq(Frame)]
  /\ \A l \in Loop :
       \/ Len(wire'[l]) <= Len(wire[l]) /\ Unread(wire', l) \subseteq Unread(wire, l)
       \/ /\ Reaches(n, to, l)
          /\ Len(wire'[l]) > Len(wire[l]) => wire'[l][Len(wire'[l])] = f
          /\ Unread(wire', l) \subseteq Unread(wire, l) \cup {f}

Removes ==
  /\ wire' \in [Loop -> Seq(Frame)]
  /\ \A l \in Loop : /\ Len(wire'[l]) <= Len(wire[l])
                     /\ Unread(wire', l) \subseteq Unread(wire, l)

LEMMA SentFromWire ==
  ASSUME NEW w \in [Loop -> Seq(Frame)], wire \in [Loop -> Seq(Frame)],
         \A l \in Loop : Len(w[l]) <= Len(wire[l]) /\ Unread(w, l) \subseteq Unread(wire, l),
         NEW n \in Node, NEW to, NEW f \in Frame, wire' = Sent(w, n, to, f)
  PROVE  Adds(n, to, f)
<1>1. /\ wire' \in [Loop -> Seq(Frame)]
      /\ \A l \in Loop :
           \/ wire'[l] = w[l]
           \/ /\ Reaches(n, to, l)
              /\ Len(wire'[l]) = Len(w[l]) + 1 /\ wire'[l][Len(w[l]) + 1] = f
              /\ Unread(wire', l) \subseteq Unread(w, l) \cup {f}
  <2> DEFINE v == Sent(w, n, to, f)
  <2> HIDE DEF v
  <2>1. /\ v \in [Loop -> Seq(Frame)]
        /\ \A l \in Loop :
             \/ v[l] = w[l]
             \/ /\ Reaches(n, to, l)
                /\ Len(v[l]) = Len(w[l]) + 1 /\ v[l][Len(w[l]) + 1] = f
                /\ Unread(v, l) \subseteq Unread(w, l) \cup {f}
    BY SentFrames DEF v
  <2>2. wire' = v
    BY DEF v
  <2>3. QED
    BY <2>1, <2>2
<1>2. ASSUME NEW l \in Loop
      PROVE  \/ Len(wire'[l]) <= Len(wire[l]) /\ Unread(wire', l) \subseteq Unread(wire, l)
             \/ /\ Reaches(n, to, l)
                /\ Len(wire'[l]) > Len(wire[l]) => wire'[l][Len(wire'[l])] = f
                /\ Unread(wire', l) \subseteq Unread(wire, l) \cup {f}
  <2>1. Len(w[l]) <= Len(wire[l]) /\ Unread(w, l) \subseteq Unread(wire, l)
    OBVIOUS
  <2>2. CASE wire'[l] = w[l]
    BY <2>1, <2>2 DEF Unread
  <2>3. CASE wire'[l] # w[l]
    <3>1. /\ Reaches(n, to, l)
          /\ wire'[l][Len(w[l]) + 1] = f /\ Len(wire'[l]) = Len(w[l]) + 1
          /\ Unread(wire', l) \subseteq Unread(w, l) \cup {f}
      BY <1>1, <2>3
    <3>2. QED
      BY <2>1, <3>1
  <2>4. QED
    BY <2>2, <2>3
<1>3. QED
  BY <1>1, <1>2 DEF Adds

LEMMA AskAdds ==
  ASSUME FloodTypes, NEW n \in Node, NEW q \in Query, NEW find \in BOOLEAN, Ask(n, q, find)
  PROVE  \E ttl \in Nat, o \in Node \cup {None} :
           /\ ~find => o = n
           /\ QueryMsg(q, ttl, o, find) \in Frame
           /\ Adds(n, Key, QueryMsg(q, ttl, o, find))
<1>1. /\ wire \in [Loop -> Seq(Frame)]
      /\ \A l \in Loop : /\ Len(wire[l]) <= Len(wire[l])
                         /\ Unread(wire, l) \subseteq Unread(wire, l)
  BY DEF FloodTypes, TypeOK
<1>2. CASE find
  <2>1. QueryMsg(q, FindTTL, None, find) \in Frame
    BY QueryIsFrame, TTLs
  <2>2. Adds(n, Key, QueryMsg(q, FindTTL, None, find))
    BY <1>1, <1>2, <2>1, SentFromWire DEF Ask
  <2>3. QED
    BY <1>2, <2>1, <2>2, TTLs
<1>3. CASE ~find
  <2>1. QueryMsg(q, DiscoverTTL, n, find) \in Frame
    BY QueryIsFrame, TTLs
  <2>2. Adds(n, Key, QueryMsg(q, DiscoverTTL, n, find))
    BY <1>1, <1>3, <2>1, SentFromWire DEF Ask
  <2>3. QED
    BY <1>3, <2>1, <2>2, TTLs
<1>4. QED
  BY <1>2, <1>3

\* What reading a QUERY does to the frames.
LEMMA QueryRead ==
  ASSUME FloodTypes, NEW n \in Node, NEW k \in Key, <<n, k>> \in Loop, wire[<<n, k>>] # <<>>,
         OnQuery(n, k, Head(wire[<<n, k>>]))
  PROVE  LET f == Head(wire[<<n, k>>])
         IN  \/ Removes
             \/ Adds(n, {k}, Response(f.id, Answer(n, k, f)))
             \/ /\ Adds(n, Key \ {k}, Forwarded(n, f)) /\ Forwarded(n, f) \in Frame
                /\ Answer(n, k, f) = {} /\ f.ttl > 1
<1> DEFINE f == Head(wire[<<n, k>>])
<1> DEFINE w == Rest(n, k)
<1>1. wire \in [Loop -> Seq(Frame)]
  BY DEF FloodTypes, TypeOK
<1>2. /\ w \in [Loop -> Seq(Frame)] /\ f \in Frame
      /\ \A l \in Loop : Len(w[l]) <= Len(wire[l]) /\ Unread(w, l) \subseteq Unread(wire, l)
  BY <1>1, RestFrames
<1>3. f.type = "QUERY"
  BY DEF OnQuery
<1>4. \/ wire' = w
      \/ Answer(n, k, f) # {} /\ wire' = Sent(w, n, {k}, Response(f.id, Answer(n, k, f)))
      \/ /\ Answer(n, k, f) = {} /\ f.ttl > 1
         /\ wire' = Sent(w, n, Key \ {k}, Forwarded(n, f))
  BY DEF OnQuery, Serve
<1> HIDE DEF f, w
<1>5. CASE wire' = w
  BY <1>2, <1>5 DEF Removes
<1>6. CASE wire' = Sent(w, n, {k}, Response(f.id, Answer(n, k, f)))
  <2>1. Response(f.id, Answer(n, k, f)) \in Frame
    BY <1>2, <1>3, AnswerIsFrame
  <2>2. Adds(n, {k}, Response(f.id, Answer(n, k, f)))
    BY <1>1, <1>2, <1>6, <2>1, SentFromWire
  <2>3. QED
    BY <2>2 DEF f
<1>7. CASE /\ Answer(n, k, f) = {} /\ f.ttl > 1
           /\ wire' = Sent(w, n, Key \ {k}, Forwarded(n, f))
  <2>1. Forwarded(n, f) \in Frame
    BY <1>2, <1>3, <1>7, ForwardIsFrame
  <2>2. Adds(n, Key \ {k}, Forwarded(n, f))
    BY <1>1, <1>2, <1>7, <2>1, SentFromWire
  <2>3. QED
    BY <1>7, <2>1, <2>2 DEF f
<1>8. QED
  BY <1>4, <1>5, <1>6, <1>7

LEMMA ResponseRead ==
  ASSUME FloodTypes, NEW n \in Node, NEW k \in Key, <<n, k>> \in Loop, wire[<<n, k>>] # <<>>,
         OnQueryResp(n, k, Head(wire[<<n, k>>]))
  PROVE  Removes
<1>1. wire \in [Loop -> Seq(Frame)]
  BY DEF FloodTypes, TypeOK
<1>2. QED
  BY <1>1, RestFrames DEF OnQueryResp, Removes

LEMMA UnlinkRemoves ==
  ASSUME FloodTypes, NEW n \in Node, NEW k \in Key, <<n, k>> \in Loop, Unlink(n, k)
  PROVE  Removes
<1>1. wire \in [Loop -> Seq(Frame)] /\ <<>> \in Seq(Frame) /\ Len(<<>>) = 0
  BY DEF FloodTypes, TypeOK
<1>2. wire' = [wire EXCEPT ![<<n, k>>] = <<>>]
  BY DEF Unlink
<1>3. ASSUME NEW l \in Loop
      PROVE  Len(wire'[l]) <= Len(wire[l]) /\ Unread(wire', l) \subseteq Unread(wire, l)
  <2>1. wire'[l] = wire[l] \/ wire'[l] = <<>>
    BY <1>1, <1>2
  <2>2. wire[l] \in Seq(Frame)
    BY <1>1
  <2>3. QED
    BY <1>1, <2>1, <2>2 DEF Unread
<1>4. QED
  BY <1>1, <1>2, <1>3 DEF Removes

LEMMA ReconnectRemoves ==
  ASSUME FloodTypes, NEW n \in Node, NEW m \in Node, Reconnect(n, m)
  PROVE  Removes
<1>1. wire \in [Loop -> Seq(Frame)] /\ <<>> \in Seq(Frame) /\ Len(<<>>) = 0
  BY DEF FloodTypes, TypeOK
<1>2. wire' = [wire EXCEPT ![<<m, KeyOf(m, n)>>] = <<>>]
  BY DEF Reconnect
<1>3. ASSUME NEW l \in Loop
      PROVE  Len(wire'[l]) <= Len(wire[l]) /\ Unread(wire', l) \subseteq Unread(wire, l)
  <2>1. wire'[l] = wire[l] \/ wire'[l] = <<>>
    BY <1>1, <1>2
  <2>2. wire[l] \in Seq(Frame)
    BY <1>1
  <2>3. QED
    BY <1>1, <2>1, <2>2 DEF Unread
<1>4. QED
  BY <1>1, <1>2, <1>3 DEF Removes

LEMMA TypesInit == Init => FloodTypes
<1> SUFFICES ASSUME Init PROVE FloodTypes
  OBVIOUS
<1>1. TypeOK
  <2>1. link \in SUBSET Loop
    <3>1. ASSUME NEW p \in Links PROVE <<p[1], <<p[2], 1>>>> \in Loop
      <4>1. p = <<p[1], p[2]>> /\ p[1] \in Node /\ p[2] \in Node
        BY LinksAreSymmetric
      <4>2. <<p[2], 1>> \in Key
        BY <4>1, SomeDials DEF Key
      <4>3. QED
        BY <4>1, <4>2 DEF Loop
    <3>2. QED
      BY <3>1 DEF Init
  <2>2. known \in [Node -> SUBSET Key]
    BY DEF Init
  <2>3. dial \in [Node \X Node -> 1 .. Dials]
    BY SomeDials DEF Init
  <2>4. QED
    BY <2>1, <2>2, <2>3 DEF Init, TypeOK
<1>2. KnownInv
  <2>1. \A l \in link : KeyOK(l[1], l[2])
    BY NotLinkedToItself, LinksAreSymmetric, SomeDials DEF Init, KeyOK
  <2>2. \A n \in Node : \A k \in known[n] : <<n, k>> \in link
    BY DEF Init
  <2>3. QED
    BY <2>1, <2>2 DEF KnownInv
<1>3. CallInv
  BY DEF Init, CallInv
<1>4. QED
  BY <1>1, <1>2, <1>3 DEF FloodTypes

LEMMA AppendAnswer ==
  ASSUME NEW s \in Seq(SUBSET Entry), NEW a \in SUBSET Entry
  PROVE  /\ Append(s, a) \in Seq(SUBSET Entry)
         /\ \A i \in DOMAIN Append(s, a) :
              Append(s, a)[i] = a \/ (i \in DOMAIN s /\ Append(s, a)[i] = s[i])
OBVIOUS

LEMMA AnswerTypes ==
  ASSUME FloodTypes, NEW n \in Node, NEW k \in Key, <<n, k>> \in Loop, NEW f \in Frame, OnQueryResp(n, k, f)
  PROVE  /\ got' \in [Query -> Seq(SUBSET Entry)]
         /\ \A q \in Query :
              \/ got'[q] = got[q]
              \/ /\ q = f.id /\ stage[q] = "pending" /\ call[q].by = n
                 /\ got'[q] = Append(got[q], f.nodes)
<1>1. f.id \in Query /\ f.nodes \in SUBSET Entry
  BY ResponseFields DEF OnQueryResp
<1>2. got \in [Query -> Seq(SUBSET Entry)]
  BY DEF FloodTypes, TypeOK
<1>3. got[f.id] \in Seq(SUBSET Entry) /\ Append(got[f.id], f.nodes) \in Seq(SUBSET Entry)
  BY <1>1, <1>2, AppendAnswer
<1>4. \/ got' = got
      \/ /\ stage[f.id] = "pending" /\ call[f.id].by = n
         /\ got' = [got EXCEPT ![f.id] = Append(got[f.id], f.nodes)]
  BY DEF OnQueryResp
<1>5. QED
  BY <1>1, <1>2, <1>3, <1>4

\* What a call returns are entries it has collected, and a discovery's own peers.
LEMMA ReturnTypes ==
  ASSUME FloodTypes, NEW q \in Query, call[q] # None,
         NEW r \in IF call[q].find THEN Found(q) ELSE {Discovered(q)}
  PROVE  r \in SUBSET Entry
<1>1. \A i \in DOMAIN got[q] : got[q][i] \in SUBSET Entry
  BY DEF FloodTypes, TypeOK
<1>2. call[q].by \in Node
  BY DEF FloodTypes, TypeOK, Call
<1>3. CASE call[q].find
  <2> DEFINE first == IF got[q] = <<>> THEN {} ELSE got[q][1]
  <2>1. first \in SUBSET Entry
    <3>1. got[q] \in Seq(SUBSET Entry)
      BY DEF FloodTypes, TypeOK
    <3>2. got[q] # <<>> => 1 \in DOMAIN got[q]
      BY <3>1
    <3>3. QED
      BY <1>1, <3>2
  <2>2. r = first \/ \E e \in first : r = {e}
    BY <1>3 DEF Found
  <2>3. QED
    BY <2>1, <2>2
<1>4. CASE ~call[q].find
  <2>1. Offers(call[q].by, LocalPeers(call[q].by)) \in SUBSET Entry
    BY <1>2, LinksAreOfNodes, OffersAreEntries
  <2>2. r = Discovered(q)
    BY <1>4
  <2>3. QED
    BY <1>1, <2>1, <2>2 DEF Discovered
<1>5. QED
  BY <1>3, <1>4

LEMMA TypesStep == FloodTypes /\ [Next]_vars => FloodTypes'
<1> SUFFICES ASSUME FloodTypes, [Next]_vars PROVE FloodTypes'
  OBVIOUS
<1>1. ASSUME NEW n \in Node, NEW q \in Query, NEW find \in BOOLEAN, Ask(n, q, find)
      PROVE  FloodTypes'
  <2>1. \E f : Adds(n, Key, f)
    BY <1>1, AskAdds
  <2>2. wire' \in [Loop -> Seq(Frame)]
    BY <2>1 DEF Adds
  <2>3. [by |-> n, find |-> find] \in Call
    BY DEF Call
  <2>4. QED
    BY <1>1, <2>2, <2>3, NoneIsNoNode DEF Ask, FloodTypes, KnownInv, KeyOK, CallInv, TypeOK
<1>2. ASSUME NEW n \in Node, NEW q \in Query, Forget(n, q) PROVE FloodTypes'
  BY <1>2 DEF Forget, FloodTypes, KnownInv, KeyOK, CallInv, TypeOK
<1>3. ASSUME NEW q \in Query, Returns(q) PROVE FloodTypes'
  <2>1. call[q] # None
    BY <1>3 DEF Returns, FloodTypes, CallInv
  <2>2. result' \in [Query -> SUBSET Entry]
    <3>1. PICK r \in IF call[q].find THEN Found(q) ELSE {Discovered(q)} :
            result' = [result EXCEPT ![q] = r]
      BY <1>3 DEF Returns
    <3>2. r \in SUBSET Entry
      BY <2>1, ReturnTypes
    <3>3. QED
      BY <3>1, <3>2 DEF FloodTypes, TypeOK
  <2>3. QED
    BY <1>3, <2>2 DEF Returns, FloodTypes, KnownInv, KeyOK, CallInv, TypeOK
<1>4. ASSUME NEW n \in Node, NEW k \in Key, <<n, k>> \in Loop, Register(n, k)
      PROVE  FloodTypes'
  <2>1. KeyOK(n, k)
    BY <1>4 DEF Register, FloodTypes, KnownInv
  <2>2. KnownInv'
    BY <1>4, <2>1 DEF Register, FloodTypes, KnownInv, KeyOK, TypeOK
  <2>3. QED
    BY <1>4, <2>2 DEF Register, FloodTypes, CallInv, TypeOK
<1>5. ASSUME NEW n \in Node, NEW k \in Key, <<n, k>> \in Loop, Unlink(n, k)
      PROVE  FloodTypes'
  <2>1. wire' \in [Loop -> Seq(Frame)]
    BY <1>5, UnlinkRemoves DEF Removes
  <2>2. KnownInv'
    BY <1>5 DEF Unlink, FloodTypes, KnownInv, KeyOK, TypeOK
  <2>3. QED
    BY <1>5, <2>1, <2>2 DEF Unlink, FloodTypes, CallInv, TypeOK
<1>9. ASSUME NEW n \in Node, NEW m \in Node, Reconnect(n, m) PROVE FloodTypes'
  <2>0. PICK d : d = dial[<<n, m>>]
    OBVIOUS
  <2>1. d \in 1 .. Dials /\ d + 1 \in 1 .. Dials /\ dial[<<m, n>>] \in 1 .. Dials
    BY <1>9, <2>0, SomeDials DEF Reconnect, FloodTypes, TypeOK
  <2>2. <<n, m>> \in Links /\ <<m, n>> \in Links
    BY <1>9, ChangingAreLinks, LinksAreSymmetric DEF Reconnect
  <2>3. dial' = [dial EXCEPT ![<<n, m>>] = d + 1]
    BY <1>9, <2>0 DEF Reconnect
  <2>4. link' = link \cup {<<m, KeyOf(m, n)>>, <<n, <<m, d + 1>>>>}
    BY <1>9, <2>0 DEF Reconnect
  <2>5. /\ known' \in [Node -> SUBSET Key]
        /\ \A i \in Node : known'[i] \subseteq known[i]
    BY <1>9 DEF Reconnect, FloodTypes, TypeOK
  <2>6. wire' \in [Loop -> Seq(Frame)]
    BY <1>9, ReconnectRemoves DEF Removes
  <2>7. dial' \in [Node \X Node -> 1 .. Dials]
    BY <2>1, <2>3 DEF FloodTypes, TypeOK
  <2>8. link' \in SUBSET Loop
    <3>1. <<n, d + 1>> \in Key /\ <<m, d + 1>> \in Key /\ KeyOf(m, n) \in Key
      BY <2>1 DEF Key, KeyOf
    <3>2. <<m, KeyOf(m, n)>> \in Loop
      BY <2>2, <3>1 DEF Loop, KeyOf
    <3>3. <<n, <<m, d + 1>>>> \in Loop
      BY <2>2, <3>1 DEF Loop
    <3>4. QED
      BY <2>4, <3>2, <3>3 DEF FloodTypes, TypeOK
  <2>9. \A p \in Node \X Node : dial[p] <= dial'[p]
    <3>1. dial \in [Node \X Node -> 1 .. Dials] /\ d \in Nat /\ dial[<<n, m>>] = d
      BY <2>0, <2>1 DEF FloodTypes, TypeOK
    <3>2. ASSUME NEW p \in Node \X Node PROVE dial[p] <= dial'[p]
      <4>1. dial[p] \in Nat
        BY <3>1, SomeDials
      <4>2. dial'[p] = IF p = <<n, m>> THEN d + 1 ELSE dial[p]
        BY <2>3, <3>1
      <4>3. QED
        BY <3>1, <4>1, <4>2
    <3>3. QED
      BY <3>2
  <2>10. ASSUME NEW i \in Node, NEW k \in Key, KeyOK(i, k) PROVE KeyOK(i, k)'
    <3>1. k[1] \in Node /\ k[2] \in Nat
      BY SomeDials DEF Key
    <3>2. dial[<<i, k[1]>>] \in Nat /\ dial'[<<i, k[1]>>] \in Nat
      BY <2>7, <3>1 DEF FloodTypes, TypeOK
    <3>3. QED
      BY <2>9, <2>10, <3>1, <3>2 DEF KeyOK
  <2>11. KeyOK(m, KeyOf(m, n))' /\ KeyOK(n, <<m, d + 1>>)'
    <3>1. n # m /\ dial'[<<n, m>>] = d + 1
      BY <2>2, <2>3, NotLinkedToItself DEF FloodTypes, TypeOK
    <3>2. dial'[<<m, n>>] \in Nat
      BY <2>7, SomeDials
    <3>3. KeyOf(m, n)' = <<n, dial'[<<m, n>>]>>
      BY DEF KeyOf
    <3>4. KeyOK(m, KeyOf(m, n))'
      BY <3>1, <3>2, <3>3 DEF KeyOK
    <3>5. KeyOK(n, <<m, d + 1>>)'
      BY <2>1, <3>1 DEF KeyOK
    <3>6. QED
      BY <3>4, <3>5
  <2>12. \A l \in link' : KeyOK(l[1], l[2])'
    <3>1. ASSUME NEW l \in link PROVE KeyOK(l[1], l[2])'
      <4>1. l[1] \in Node /\ l[2] \in Key /\ KeyOK(l[1], l[2])
        BY DEF FloodTypes, TypeOK, KnownInv, Loop
      <4>2. QED
        BY <2>10, <4>1
    <3>2. dial'[<<m, n>>] = dial[<<m, n>>]
      BY <2>2, <2>3, NotLinkedToItself DEF FloodTypes, TypeOK
    <3>3. KeyOf(m, n)' = KeyOf(m, n)
      BY <3>2 DEF KeyOf
    <3>4. KeyOK(m, KeyOf(m, n))'
      BY <2>11, <3>3
    <3>5. ASSUME NEW l \in link' PROVE KeyOK(l[1], l[2])'
      <4>1. CASE l = <<m, KeyOf(m, n)>>
        BY <3>3, <3>4, <4>1
      <4>2. CASE l = <<n, <<m, d + 1>>>>
        BY <2>11, <4>2
      <4>3. QED
        BY <2>4, <3>1, <4>1, <4>2
    <3>6. QED
      BY <3>5
  <2>13. KnownInv'
    BY <2>5, <2>10, <2>12 DEF KnownInv, FloodTypes, TypeOK
  <2>14. QED
    BY <1>9, <2>5, <2>6, <2>7, <2>8, <2>13 DEF Reconnect, FloodTypes, CallInv, TypeOK
<1>6. ASSUME NEW n \in Node, NEW k \in Key, <<n, k>> \in Loop, Read(n, k) PROVE FloodTypes'
  <2> DEFINE f == Head(wire[<<n, k>>])
  <2>1. wire[<<n, k>>] # <<>> /\ (OnQuery(n, k, f) \/ OnQueryResp(n, k, f))
    BY <1>6 DEF Read
  <2>2. f \in Frame
    BY <1>6, <2>1, RestFrames DEF FloodTypes, TypeOK
  <2>3. CASE OnQuery(n, k, f)
    <3>1. wire' \in [Loop -> Seq(Frame)]
      BY <1>6, <2>1, <2>3, QueryRead DEF Adds, Removes
    <3>2. f.id \in Query
      BY <2>2, <2>3, QueryFields DEF OnQuery
    <3>3. \/ UNCHANGED <<seen, served>>
          \/ /\ seen' = [seen EXCEPT ![n] = @ \cup {f.id}]
             /\ served' = [served EXCEPT ![<<n, f.id>>] = IF @ = 2 THEN 2 ELSE @ + 1]
      BY <2>3 DEF OnQuery, Serve, Remember
    <3>4. UNCHANGED <<dial, link, known, call, stage, got, result>>
      BY <2>3 DEF OnQuery
    <3> HIDE DEF f
    <3>5. seen' \in [Node -> SUBSET Query] /\ served' \in [Node \X Query -> 0 .. 2]
      <4>1. seen \in [Node -> SUBSET Query] /\ served \in [Node \X Query -> 0 .. 2]
        BY DEF FloodTypes, TypeOK
      <4> DEFINE s == served[<<n, f.id>>]
      <4> DEFINE t == IF s = 2 THEN 2 ELSE s + 1
      <4>2. s \in 0 .. 2
        BY <3>2, <4>1
      <4> HIDE DEF s
      <4>3. t \in 0 .. 2
        BY <4>2
      <4>4. served' = served \/ served' = [served EXCEPT ![<<n, f.id>>] = t]
        BY <3>3 DEF s
      <4> HIDE DEF t
      <4>5. served' \in [Node \X Query -> 0 .. 2]
        BY <4>1, <4>3, <4>4
      <4>6. QED
        BY <3>2, <3>3, <4>1, <4>5
    <3>6. QED
      BY <3>1, <3>4, <3>5 DEF FloodTypes, KnownInv, KeyOK, CallInv, TypeOK
  <2>4. CASE OnQueryResp(n, k, f)
    <3>1. wire' \in [Loop -> Seq(Frame)]
      BY <1>6, <2>1, <2>4, ResponseRead DEF Removes
    <3>2. got' \in [Query -> Seq(SUBSET Entry)]
      BY <1>6, <2>2, <2>4, AnswerTypes
    <3>3. QED
      BY <2>4, <3>1, <3>2 DEF OnQueryResp, FloodTypes, KnownInv, KeyOK, CallInv, TypeOK
  <2>5. QED
    BY <2>1, <2>3, <2>4
<1>7. CASE UNCHANGED vars
  BY <1>7 DEF vars, FloodTypes, KnownInv, KeyOK, CallInv, TypeOK
<1>8. QED
  BY <1>1, <1>2, <1>3, <1>4, <1>5, <1>6, <1>7, <1>9, LoopsAreOfNodes, CallersAreNodes
     DEF Next

\* Every variable keeps its type.
THEOREM QueryTypes == Spec => []TypeOK
<1>1. FloodTypes => TypeOK
  BY DEF FloodTypes
<1>2. QED
  BY <1>1, TypesInit, TypesStep, PTL DEF Spec

-----------------------------------------------------------------------------
\* What the frames under way say: a QUERY is one that has been asked, and that of
\* a discovery names its caller; an answer to it lists its reader under stale keys only.
FrameOK(l, f) ==
  /\ call[f.id] # None
  /\ f.type = "QUERY" => /\ f.find = call[f.id].find
                         /\ f.find \/ f.origin = call[f.id].by
  /\ f.type = "QUERY_RESP" => call[f.id].find \/ \A e \in f.nodes : Stale(l[1], e)

FrameInv == \A l \in Loop : \A f \in Unread(wire, l) : FrameOK(l, f)

\* A call is not taken back.
LEMMA CallsAreKept ==
  ASSUME FloodTypes, [Next]_vars, NEW q \in Query, call[q] # None
  PROVE  call'[q] = call[q] /\ (stage'[q] = "pending" => stage[q] = "pending")
<1>1. stage[q] # "new"
  BY DEF FloodTypes, CallInv
<1>2. ASSUME NEW n \in Node, NEW p \in Query, NEW find \in BOOLEAN, Ask(n, p, find)
      PROVE  call'[q] = call[q] /\ stage'[q] = stage[q]
  <2>1. p # q
    BY <1>1, <1>2 DEF Ask
  <2>2. QED
    BY <1>2, <2>1 DEF Ask, FloodTypes, TypeOK
<1>3. ASSUME NEW p \in Query, Returns(p)
      PROVE  call'[q] = call[q] /\ (stage'[q] = "pending" => stage[q] = "pending")
  BY <1>3 DEF Returns, FloodTypes, TypeOK
<1>4. ASSUME NEW n \in Node, NEW p \in Query, Forget(n, p) PROVE UNCHANGED <<call, stage>>
  BY <1>4 DEF Forget
<1>5. ASSUME NEW n \in Node, NEW m \in Node, Reconnect(n, m)
      PROVE  UNCHANGED <<call, stage>>
  BY <1>5 DEF Reconnect
<1>8. ASSUME NEW l \in Loop, \/ Read(l[1], l[2]) \/ Register(l[1], l[2])
                             \/ Unlink(l[1], l[2])
      PROVE  UNCHANGED <<call, stage>>
  BY <1>8 DEF Read, OnQuery, OnQueryResp, Register, Unlink
<1>6. CASE UNCHANGED vars
  BY <1>6 DEF vars
<1>7. QED
  BY <1>2, <1>3, <1>4, <1>5, <1>6, <1>8, CallersAreNodes DEF Next

\* Connections are counted up, so that a stale key remains stale.
LEMMA StaleKeysStay ==
  ASSUME FloodTypes, [Next]_vars, NEW m \in Node, NEW e \in Entry, Stale(m, e)
  PROVE  Stale(m, e)'
<1>1. dial' = dial \/ \E n, h \in Node : Reconnect(n, h)
  BY DEF Next, vars, Ask, Forget, Returns, Read, OnQuery, OnQueryResp, Register, Unlink
<1>2. \A p \in Node \X Node : dial[p] \in Nat /\ dial[p] <= dial'[p] /\ dial'[p] \in Nat
  <2>1. dial \in [Node \X Node -> 1 .. Dials] /\ dial' \in [Node \X Node -> 1 .. Dials]
    BY TypesStep DEF FloodTypes, TypeOK
  <2>2. ASSUME NEW p \in Node \X Node, NEW n \in Node, NEW h \in Node, Reconnect(n, h)
        PROVE  dial'[p] = dial[p] \/ dial'[p] = dial[p] + 1
    BY <2>1, <2>2 DEF Reconnect
  <2>3. ASSUME NEW p \in Node \X Node
        PROVE  dial[p] \in Nat /\ dial'[p] \in Nat /\ (dial'[p] = dial[p] \/ dial'[p] = dial[p] + 1)
    BY <1>1, <2>1, <2>2, SomeDials
  <2>4. QED
    BY <2>3
<1>3. e[2] \in Node /\ e[3][2] \in Nat
  BY SomeDials DEF Entry, Key
<1>4. QED
  BY <1>2, <1>3 DEF Stale

LEMMA UnreadAreFrames ==
  ASSUME FloodTypes, NEW l \in Loop, NEW f \in Unread(wire, l)
  PROVE  f \in Frame /\ f.id \in Query
<1>1. f \in Frame
  BY DEF Unread, FloodTypes, TypeOK
<1>2. QED
  BY <1>1 DEF Frame

LEMMA FramesAreKept ==
  ASSUME FloodTypes, FrameInv, [Next]_vars, NEW l \in Loop, NEW f \in Unread(wire, l)
  PROVE  FrameOK(l, f)'
<1>1. FrameOK(l, f) /\ f.id \in Query
  BY UnreadAreFrames DEF FrameInv
<1>2. call'[f.id] = call[f.id]
  BY <1>1, CallsAreKept DEF FrameOK
<1>3. f.type = "QUERY_RESP" => \A e \in f.nodes : Stale(l[1], e) => Stale(l[1], e)'
  BY UnreadAreFrames, ResponseFields, StaleKeysStay, LoopsAreOfNodes
<1>4. QED
  BY <1>1, <1>2, <1>3 DEF FrameOK

\* Nothing need be shown but for the frame that is sent.
LEMMA FramesAdded ==
  ASSUME FloodTypes, FrameInv, [Next]_vars, NEW n, NEW to, NEW f, Adds(n, to, f),
         \A l \in Loop : Reaches(n, to, l) => FrameOK(l, f)'
  PROVE  FrameInv'
<1> SUFFICES ASSUME NEW l \in Loop, NEW g \in Unread(wire', l) PROVE FrameOK(l, g)'
  BY DEF FrameInv
<1>1. CASE g \in Unread(wire, l)
  BY <1>1, FramesAreKept
<1>2. CASE g \notin Unread(wire, l)
  BY <1>2 DEF Adds
<1>3. QED
  BY <1>1, <1>2

LEMMA FramesRemoved ==
  ASSUME FloodTypes, FrameInv, [Next]_vars, Removes
  PROVE  FrameInv'
<1> SUFFICES ASSUME NEW l \in Loop, NEW g \in Unread(wire', l) PROVE FrameOK(l, g)'
  BY DEF FrameInv
<1>1. g \in Unread(wire, l)
  BY DEF Removes
<1>2. QED
  BY <1>1, FramesAreKept

LEMMA FrameStep == FloodTypes /\ FrameInv /\ [Next]_vars => FrameInv'
<1> SUFFICES ASSUME FloodTypes, FrameInv, [Next]_vars PROVE FrameInv'
  OBVIOUS
<1>1. ASSUME NEW n \in Node, NEW q \in Query, NEW find \in BOOLEAN, Ask(n, q, find)
      PROVE  FrameInv'
  <2>1. PICK ttl \in Nat, o \in Node \cup {None} :
          (~find => o = n) /\ Adds(n, Key, QueryMsg(q, ttl, o, find))
    BY <1>1, AskAdds
  <2>2. call'[q] = [by |-> n, find |-> find] /\ call'[q] # None
    BY <1>1, NoneIsNoNode DEF Ask, FloodTypes, TypeOK, Call
  <2>3. \A l \in Loop : FrameOK(l, QueryMsg(q, ttl, o, find))'
    BY <2>1, <2>2 DEF FrameOK, QueryMsg
  <2>4. QED
    BY <2>1, <2>3, FramesAdded
<1>2. ASSUME NEW n \in Node, NEW k \in Key, <<n, k>> \in Loop, Read(n, k) PROVE FrameInv'
  <2>0. PICK f : f = Head(wire[<<n, k>>])
    OBVIOUS
  <2>1. wire[<<n, k>>] # <<>> /\ (OnQuery(n, k, f) \/ OnQueryResp(n, k, f))
    BY <1>2, <2>0 DEF Read
  <2>2. <<n, k>> \in Loop /\ f \in Frame /\ f \in Unread(wire, <<n, k>>)
    BY <1>2, <2>0, <2>1, RestFrames DEF FloodTypes, TypeOK
  <2>3. FrameOK(<<n, k>>, f)'
    BY <2>2, FramesAreKept
  <2>4. CASE OnQueryResp(n, k, f)
    BY <1>2, <2>0, <2>1, <2>4, ResponseRead, FramesRemoved
  <2>5. CASE OnQuery(n, k, f)
    <3>1. PICK a : a = Answer(n, k, f)
      OBVIOUS
    <3>2. \/ Removes
          \/ Adds(n, {k}, Response(f.id, a))
          \/ Adds(n, Key \ {k}, Forwarded(n, f))
      BY <1>2, <2>0, <2>1, <2>5, <3>1, QueryRead
    <3>3. f.type = "QUERY"
      BY <2>5 DEF OnQuery
    <3>4. f.find \/ k # KeyOf(n, k[1]) \/ \A e \in a : Stale(k[1], e)
      BY <1>2, <2>2, <3>1, <3>3, AnswerIsFrame
    <3>5. call'[f.id] # None /\ f.find = call'[f.id].find /\ f.id \in Query
          /\ (f.find \/ f.origin = call'[f.id].by)
      BY <2>2, <2>3, <3>3, UnreadAreFrames DEF FrameOK
    <3>6. ASSUME NEW l \in Loop, Reaches(n, {k}, l) PROVE FrameOK(l, Response(f.id, a))'
      <4>1. l[1] = k[1] /\ k = KeyOf(n, k[1])
        BY <3>6 DEF Reaches, KeyOf
      <4>2. f.find \/ \A e \in a : Stale(l[1], e)'
        <5>1. a \in SUBSET Entry /\ l[1] \in Node
          BY <1>2, <2>2, <3>1, <3>3, AnswerIsFrame, LoopsAreOfNodes
        <5>2. QED
          BY <3>4, <4>1, <5>1, StaleKeysStay
      <4>3. QED
        BY <3>5, <4>2 DEF FrameOK, Response
    <3>7. call'[f.id].by \in Node
      BY <3>5, TypesStep DEF FloodTypes, TypeOK, Call
    <3>8. \A l \in Loop :
            Reaches(n, Key \ {k}, l) => FrameOK(l, Forwarded(n, f))'
      BY <3>5, <3>7, NoneIsNoNode DEF FrameOK, Forwarded, QueryMsg
    <3>9. QED
      BY <3>2, <3>6, <3>8, FramesAdded, FramesRemoved
  <2>6. QED
    BY <2>1, <2>4, <2>5
<1>3. ASSUME NEW n \in Node, NEW k \in Key, <<n, k>> \in Loop, Unlink(n, k)
      PROVE  FrameInv'
  BY <1>3, UnlinkRemoves, FramesRemoved
<1>6. ASSUME NEW n \in Node, NEW m \in Node, Reconnect(n, m) PROVE FrameInv'
  BY <1>6, ReconnectRemoves, FramesRemoved
<1>4. CASE UNCHANGED wire
  <2>1. Removes
    BY <1>4 DEF Removes, FloodTypes, TypeOK
  <2>2. QED
    BY <2>1, FramesRemoved
<1>5. QED
  <2>1. ASSUME NEW n \in Node, NEW q \in Query, Forget(n, q) PROVE UNCHANGED wire
    BY <2>1 DEF Forget
  <2>2. ASSUME NEW q \in Query, Returns(q) PROVE UNCHANGED wire
    BY <2>2 DEF Returns
  <2>3. ASSUME NEW n, NEW k, Register(n, k) PROVE UNCHANGED wire
    BY <2>3 DEF Register
  <2>4. CASE UNCHANGED vars
    BY <1>4, <2>4 DEF vars
  <2>5. QED
    BY <1>1, <1>2, <1>3, <1>4, <1>6, <2>1, <2>2, <2>3, <2>4, LoopsAreOfNodes,
       CallersAreNodes DEF Next

-----------------------------------------------------------------------------
\* No caller is offered itself, but under stale keys

CollectedInv ==
  \A q \in Query :
    /\ call[q] = None => got[q] = <<>> /\ result[q] = {}
    /\ call[q] # None /\ ~call[q].find =>
         \A i \in DOMAIN got[q] : \A e \in got[q][i] : Stale(call[q].by, e)

OfferInv == CollectedInv /\ OffersAskerOnlyStale

\* The keys of the caller are of other nodes.
LEMMA DiscoveredOthers ==
  ASSUME FloodTypes, CollectedInv, NEW q \in Query, call[q] # None, ~call[q].find,
         NEW e \in Discovered(q)
  PROVE  Stale(call[q].by, e)
<1>1. call[q].by \in Node
  BY DEF FloodTypes, TypeOK, Call
<1>2. \A h \in LocalPeers(call[q].by) : KeyOK(call[q].by, h)
  BY <1>1, LinksAreOfNodes
<1>3. CASE e \in UNION {got[q][i] : i \in DOMAIN got[q]}
  BY <1>3 DEF CollectedInv
<1>4. CASE e \in Offers(call[q].by, LocalPeers(call[q].by))
  BY <1>2, <1>4 DEF Offers, KeyOK, Stale
<1>5. QED
  BY <1>3, <1>4 DEF Discovered

\* What has been handed out stays stale.
LEMMA OffersStayStale ==
  ASSUME FloodTypes, OfferInv, [Next]_vars, UNCHANGED call
  PROVE  /\ \A q \in Query : call[q] # None /\ ~call[q].find =>
              \A i \in DOMAIN got[q] : \A e \in got[q][i] : Stale(call[q].by, e)'
         /\ \A q \in Query : call[q] # None /\ ~call[q].find =>
              \A e \in result[q] : Stale(call[q].by, e)'
<1> SUFFICES ASSUME NEW q \in Query, call[q] # None, ~call[q].find
             PROVE  /\ \A i \in DOMAIN got[q] :
                         \A e \in got[q][i] : Stale(call[q].by, e)'
                    /\ \A e \in result[q] : Stale(call[q].by, e)'
  OBVIOUS
<1>1. call[q].by \in Node
  BY DEF FloodTypes, TypeOK, Call
<1>2. \A e \in Entry : Stale(call[q].by, e) => Stale(call[q].by, e)'
  BY <1>1, StaleKeysStay
<1>3. result[q] \in SUBSET Entry /\ \A i \in DOMAIN got[q] : got[q][i] \in SUBSET Entry
  BY DEF FloodTypes, TypeOK
<1>4. \A e \in result[q] : Stale(call[q].by, e)
  BY DEF OfferInv, OffersAskerOnlyStale, Stale
<1>5. QED
  BY <1>2, <1>3, <1>4 DEF OfferInv, CollectedInv

LEMMA OfferStep == FloodTypes /\ FrameInv /\ OfferInv /\ [Next]_vars => OfferInv'
<1> SUFFICES ASSUME FloodTypes, FrameInv, OfferInv, [Next]_vars PROVE OfferInv'
  OBVIOUS
<1>1. ASSUME NEW n \in Node, NEW q \in Query, NEW find \in BOOLEAN, Ask(n, q, find)
      PROVE  OfferInv'
  <2>1. call[q] = None
    BY <1>1 DEF Ask, FloodTypes, CallInv
  <2>2. got[q] = <<>> /\ result[q] = {}
    BY <2>1 DEF OfferInv, CollectedInv
  <2>3. UNCHANGED <<dial, got, result>> /\ \A p \in Query : p # q => call'[p] = call[p]
    BY <1>1 DEF Ask, FloodTypes, TypeOK
  <2>4. call'[q] # None
    BY <1>1, NoneIsNoNode DEF Ask, FloodTypes, TypeOK, Call
  <2>5. QED
    <3>1. CollectedInv'
      BY <2>2, <2>3, <2>4 DEF OfferInv, CollectedInv, Stale
    <3>2. OffersAskerOnlyStale'
      BY <2>1, <2>2, <2>3 DEF OfferInv, OffersAskerOnlyStale
    <3>3. QED
      BY <3>1, <3>2 DEF OfferInv
<1>2. ASSUME NEW q \in Query, Returns(q) PROVE OfferInv'
  <2>1. UNCHANGED <<dial, call, got>> /\ \A p \in Query : p # q => result'[p] = result[p]
    BY <1>2 DEF Returns, FloodTypes, TypeOK
  <2>2. call[q] # None
    BY <1>2 DEF Returns, FloodTypes, CallInv
  <2>3. ~call[q].find => result'[q] = Discovered(q)
    BY <1>2 DEF Returns, FloodTypes, TypeOK
  <2>4. ~call[q].find => \A e \in result'[q] : Stale(call[q].by, e)
    BY <2>2, <2>3, DiscoveredOthers DEF OfferInv
  <2>5. QED
    BY <2>1, <2>2, <2>4 DEF OfferInv, CollectedInv, OffersAskerOnlyStale, Stale
<1>3. ASSUME NEW n \in Node, NEW k \in Key, <<n, k>> \in Loop, Read(n, k) PROVE OfferInv'
  <2>0. PICK f : f = Head(wire[<<n, k>>])
    OBVIOUS
  <2>1. wire[<<n, k>>] # <<>> /\ (OnQuery(n, k, f) \/ OnQueryResp(n, k, f))
    BY <1>3, <2>0 DEF Read
  <2>2. <<n, k>> \in Loop /\ f \in Frame /\ f \in Unread(wire, <<n, k>>)
    BY <1>3, <2>0, <2>1, RestFrames DEF FloodTypes, TypeOK
  <2>3. CASE OnQuery(n, k, f)
    <3>1. UNCHANGED <<dial, call, got, result>>
      BY <2>3 DEF OnQuery
    <3>2. QED
      BY <3>1 DEF OfferInv, CollectedInv, OffersAskerOnlyStale, Stale
  <2>4. CASE OnQueryResp(n, k, f)
    <3>1. UNCHANGED <<dial, call, result>>
      BY <2>4 DEF OnQueryResp
    <3>2. f.type = "QUERY_RESP" /\ f.id \in Query /\ f.nodes \in SUBSET Entry
      BY <2>2, <2>4, ResponseFields DEF OnQueryResp
    <3>3. FrameOK(<<n, k>>, f)
      BY <2>2 DEF FrameInv
    <3>4. call[f.id] # None /\ (call[f.id].find \/ \A e \in f.nodes : Stale(n, e))
      BY <3>2, <3>3 DEF FrameOK
    <3>5. ASSUME NEW q \in Query, call[q] # None, ~call[q].find,
                 NEW i \in DOMAIN got'[q], NEW e \in got'[q][i]
          PROVE  Stale(call[q].by, e)
      <4>1. CASE got'[q] = got[q]
        BY <3>5, <4>1 DEF OfferInv, CollectedInv
      <4>2. CASE got'[q] # got[q]
        <5>1. q = f.id /\ call[q].by = n /\ got'[q] = Append(got[q], f.nodes)
          BY <1>3, <2>2, <2>4, <4>2, AnswerTypes
        <5>2. got[q] \in Seq(SUBSET Entry)
          BY DEF FloodTypes, TypeOK
        <5>3. got'[q][i] = f.nodes \/ (i \in DOMAIN got[q] /\ got'[q][i] = got[q][i])
          BY <3>2, <5>1, <5>2, AppendAnswer
        <5>4. QED
          BY <3>4, <3>5, <5>1, <5>3 DEF OfferInv, CollectedInv
      <4>3. QED
        BY <4>1, <4>2
    <3>6. \A q \in Query : call[q] = None => got'[q] = got[q]
      BY <1>3, <2>2, <2>4, <3>4, AnswerTypes
    <3>7. QED
      BY <3>1, <3>5, <3>6 DEF OfferInv, CollectedInv, OffersAskerOnlyStale, Stale
  <2>5. QED
    BY <2>1, <2>3, <2>4
<1>4. CASE UNCHANGED <<call, got, result>>
  <2>1. /\ \A q \in Query : call[q] # None /\ ~call[q].find =>
              \A i \in DOMAIN got[q] : \A e \in got[q][i] : Stale(call[q].by, e)'
        /\ \A q \in Query : call[q] # None /\ ~call[q].find =>
              \A e \in result[q] : Stale(call[q].by, e)'
    BY <1>4, OffersStayStale
  <2>2. CollectedInv'
    <3>1. \A q \in Query : call[q] = None => got[q] = <<>> /\ result[q] = {}
      BY DEF OfferInv, CollectedInv
    <3>2. QED
      BY <1>4, <2>1, <3>1 DEF CollectedInv, Stale
  <2>3. OffersAskerOnlyStale'
    BY <1>4, <2>1 DEF OffersAskerOnlyStale, Stale
  <2>4. QED
    BY <2>2, <2>3 DEF OfferInv
<1>5. QED
  <2>1. ASSUME NEW n \in Node, NEW q \in Query, Forget(n, q)
        PROVE  UNCHANGED <<call, got, result>>
    BY <2>1 DEF Forget
  <2>2. ASSUME NEW n, NEW k, Register(n, k) \/ Unlink(n, k) \/ Reconnect(n, k)
        PROVE  UNCHANGED <<call, got, result>>
    BY <2>2 DEF Register, Unlink, Reconnect
  <2>3. CASE UNCHANGED vars
    BY <1>4, <2>3 DEF vars
  <2>4. QED
    BY <1>1, <1>2, <1>3, <1>4, <2>1, <2>2, <2>3, LoopsAreOfNodes, CallersAreNodes
       DEF Next

-----------------------------------------------------------------------------
\* A query is served once

\* A node remembers what it has served, for as long as the caller waits.
ServedInv ==
  \A n \in Node, q \in Query :
    /\ call[q] = None => served[<<n, q>>] = 0
    /\ stage[q] = "pending" =>
         /\ served[<<n, q>>] <= 1
         /\ served[<<n, q>>] # 0 => q \in seen[n]
         /\ call[q].by = n /\ ~call[q].find => served[<<n, q>>] = 0

LEMMA ServedStep == FloodTypes /\ FrameInv /\ ServedInv /\ [Next]_vars => ServedInv'
<1> SUFFICES ASSUME FloodTypes, FrameInv, ServedInv, [Next]_vars PROVE ServedInv'
  OBVIOUS
<1>t. /\ served \in [Node \X Query -> 0 .. 2] /\ seen \in [Node -> SUBSET Query]
      /\ stage \in [Query -> {"new", "pending", "done"}]
      /\ call \in [Query -> Call \cup {None}]
  BY DEF FloodTypes, TypeOK
<1>1. ASSUME NEW n \in Node, NEW q \in Query, NEW find \in BOOLEAN, Ask(n, q, find)
      PROVE  ServedInv'
  <2>1. call[q] = None
    BY <1>1 DEF Ask, FloodTypes, CallInv
  <2>2. \A h \in Node : served[<<h, q>>] = 0
    BY <2>1 DEF ServedInv
  <2>3. /\ UNCHANGED <<served, seen>>
        /\ \A p \in Query : p # q => call'[p] = call[p] /\ stage'[p] = stage[p]
    BY <1>1, <1>t DEF Ask
  <2>4. ASSUME NEW h \in Node, NEW p \in Query
        PROVE  /\ call'[p] = None => served'[<<h, p>>] = 0
               /\ stage'[p] = "pending" =>
                    /\ served'[<<h, p>>] <= 1
                    /\ served'[<<h, p>>] # 0 => p \in seen'[h]
                    /\ call'[p].by = h /\ ~call'[p].find => served'[<<h, p>>] = 0
    <3>1. CASE p = q
      BY <2>2, <2>3, <3>1
    <3>2. CASE p # q
      BY <2>3, <3>2 DEF ServedInv
    <3>3. QED
      BY <3>1, <3>2
  <2>5. QED
    BY <2>4 DEF ServedInv
<1>2. ASSUME NEW q \in Query, Returns(q) PROVE ServedInv'
  <2>1. UNCHANGED <<served, seen, call>>
    BY <1>2 DEF Returns
  <2>2. \A p \in Query : stage'[p] = "pending" => stage[p] = "pending"
    BY <1>2, <1>t DEF Returns
  <2>3. QED
    BY <2>1, <2>2 DEF ServedInv
<1>3. ASSUME NEW n \in Node, NEW q \in Query, Forget(n, q) PROVE ServedInv'
  <2>1. stage[q] = "done" /\ UNCHANGED <<served, stage, call>>
    BY <1>3 DEF Forget
  <2>2. \A h \in Node, p \in Query : p # q /\ p \in seen[h] => p \in seen'[h]
    BY <1>3, <1>t DEF Forget
  <2>3. QED
    BY <2>1, <2>2 DEF ServedInv
<1>4. ASSUME NEW n \in Node, NEW k \in Key, <<n, k>> \in Loop, Read(n, k) PROVE ServedInv'
  <2>0. PICK f : f = Head(wire[<<n, k>>])
    OBVIOUS
  <2>1. wire[<<n, k>>] # <<>> /\ (OnQuery(n, k, f) \/ OnQueryResp(n, k, f))
    BY <1>4, <2>0 DEF Read
  <2>2. <<n, k>> \in Loop /\ f \in Frame /\ f \in Unread(wire, <<n, k>>)
    BY <1>4, <2>0, <2>1, RestFrames DEF FloodTypes, TypeOK
  <2>3. UNCHANGED <<call, stage>>
    BY <2>1 DEF OnQuery, OnQueryResp
  <2>4. CASE UNCHANGED <<seen, served>>
    BY <2>3, <2>4 DEF ServedInv
  <2>5. CASE f.type = "QUERY" /\ f.origin # n /\ f.id \notin seen[n] /\ Serve(n, k, f)
    <3>1. /\ f.id \in Query /\ call[f.id] # None
          /\ call[f.id].find \/ f.origin = call[f.id].by
      BY <2>2, <2>5, UnreadAreFrames DEF FrameInv, FrameOK
    <3>0. /\ seen' = [seen EXCEPT ![n] = @ \cup {f.id}]
          /\ served' = [served EXCEPT ![<<n, f.id>>] = IF @ = 2 THEN 2 ELSE @ + 1]
      BY <2>5 DEF Serve, Remember
    <3>2. /\ \A h \in Node, q \in Query : q \in seen[h] => q \in seen'[h]
          /\ f.id \in seen'[n]
      BY <1>t, <3>0, <3>1
    <3>3. ASSUME NEW h \in Node, NEW q \in Query, <<h, q>> # <<n, f.id>>
          PROVE  served'[<<h, q>>] = served[<<h, q>>]
      BY <1>t, <3>0, <3>1, <3>3
    <3>4. served[<<n, f.id>>] = 0 => served'[<<n, f.id>>] = 1
      BY <1>t, <3>0, <3>1
    <3>5. stage[f.id] = "pending" =>
            served[<<n, f.id>>] = 0 /\ ~(call[f.id].by = n /\ ~call[f.id].find)
      BY <2>5, <3>1 DEF ServedInv
    <3>6. ASSUME NEW h \in Node, NEW q \in Query
          PROVE  /\ call[q] = None => served'[<<h, q>>] = 0
                 /\ stage[q] = "pending" =>
                      /\ served'[<<h, q>>] <= 1
                      /\ served'[<<h, q>>] # 0 => q \in seen'[h]
                      /\ call[q].by = h /\ ~call[q].find => served'[<<h, q>>] = 0
      <4>1. CASE <<h, q>> = <<n, f.id>>
        BY <3>1, <3>2, <3>4, <3>5, <4>1
      <4>2. CASE <<h, q>> # <<n, f.id>>
        BY <3>2, <3>3, <4>2 DEF ServedInv
      <4>3. QED
        BY <4>1, <4>2
    <3>7. QED
      BY <2>3, <3>6 DEF ServedInv
  <2>6. QED
    BY <2>1, <2>4, <2>5 DEF OnQuery, OnQueryResp
<1>5. CASE UNCHANGED <<served, seen, stage, call>>
  BY <1>5 DEF ServedInv
<1>6. QED
  <2>1. ASSUME NEW n, NEW k, Register(n, k) \/ Unlink(n, k) \/ Reconnect(n, k)
        PROVE  UNCHANGED <<served, seen, stage, call>>
    BY <2>1 DEF Register, Unlink, Reconnect
  <2>2. CASE UNCHANGED vars
    BY <1>5, <2>2 DEF vars
  <2>3. QED
    BY <1>1, <1>2, <1>3, <1>4, <1>5, <2>1, <2>2, LoopsAreOfNodes, CallersAreNodes
       DEF Next

-----------------------------------------------------------------------------
\* The theorems

FloodInv == FloodTypes /\ FrameInv /\ OfferInv /\ ServedInv

LEMMA FloodInit == Init => FloodInv
<1> SUFFICES ASSUME Init PROVE FloodInv
  OBVIOUS
<1>1. FrameInv
  BY DEF Init, FrameInv, Unread
<1>2. OfferInv
  BY DEF Init, OfferInv, CollectedInv, OffersAskerOnlyStale
<1>3. ServedInv
  BY DEF Init, ServedInv
<1>4. QED
  BY <1>1, <1>2, <1>3, TypesInit DEF FloodInv

LEMMA FloodInvariant == Spec => []FloodInv
<1>1. FloodInv /\ [Next]_vars => FloodInv'
  BY TypesStep, FrameStep, OfferStep, ServedStep DEF FloodInv
<1>2. QED
  BY <1>1, FloodInit, PTL DEF Spec

\* While its caller waits, a query is answered or forwarded at most once by a node,
\* along however many ways it comes, and a discovery never by its caller.
THEOREM QueriesServedOnce == Spec => []ServedOnce
<1>1. FloodInv => ServedOnce
  <2> SUFFICES ASSUME FloodInv, NEW n \in Node, NEW q \in Query, stage[q] = "pending"
               PROVE  served[<<n, q>>] <= (IF call[q].by = n /\ ~call[q].find THEN 0 ELSE 1)
    BY DEF ServedOnce
  <2>1. /\ served[<<n, q>>] <= 1
        /\ call[q].by = n /\ ~call[q].find => served[<<n, q>>] = 0
    BY DEF FloodInv, ServedInv
  <2>2. QED
    BY <2>1
<1>2. QED
  BY <1>1, FloodInvariant, PTL

\* The only addresses of its caller that a discovery hands out are those of
\* connections that have been replaced.
THEOREM AskersAreOfferedStaleOnly == Spec => []OffersAskerOnlyStale
<1>1. FloodInv => OffersAskerOnlyStale
  BY DEF FloodInv, OfferInv
<1>2. QED
  BY <1>1, FloodInvariant, PTL

\* What is sent last after a step that adds frames.
LEMMA ForwardStep ==
  ASSUME FloodTypes, [Next]_vars, NEW n \in Node, NEW m \in Node, NEW q \in Query,
         <<n, m>> \in Links, Relays(n, m, q)
  PROVE  KeyOf(n, m) \notin known[n]
<1> DEFINE k == <<m, KeyOf(m, n)>>
<1>1. k \in Loop /\ Len(wire'[k]) > Len(wire[k])
  BY LinksAreSymmetric DEF Relays, Loop, KeyOf, Key, FloodTypes, TypeOK
<1>2. PICK g : g = wire'[k][Len(wire'[k])]
  OBVIOUS
<1>3. g.type = "QUERY" /\ g.id = q /\ stage[q] # "new"
  BY <1>2 DEF Relays
<1>4. wire \in [Loop -> Seq(Frame)] /\ Len(wire[k]) \in Nat
  BY <1>1 DEF FloodTypes, TypeOK
<1> HIDE DEF k
<1>0. k[1] = m /\ k[2][1] = n
  BY DEF k, KeyOf
<1>5. ~Removes /\ wire' # wire
  BY <1>1, <1>4 DEF Removes
<1>6. ASSUME NEW i \in Node, NEW p \in Query, NEW find \in BOOLEAN, Ask(i, p, find)
      PROVE  FALSE
  <2>1. PICK ttl \in Nat, o \in Node \cup {None} : Adds(i, Key, QueryMsg(p, ttl, o, find))
    BY <1>6, AskAdds
  <2>2. g = QueryMsg(p, ttl, o, find)
    BY <1>1, <1>2, <1>4, <2>1 DEF Adds
  <2>3. p = q
    BY <1>3, <2>2 DEF QueryMsg
  <2>4. QED
    BY <1>3, <1>6, <2>3 DEF Ask
<1>7. ASSUME NEW i \in Node, NEW j \in Key, <<i, j>> \in Loop, Read(i, j)
      PROVE  KeyOf(n, m) \notin known[n]
  <2>0. PICK f : f = Head(wire[<<i, j>>])
    OBVIOUS
  <2>1. wire[<<i, j>>] # <<>> /\ (OnQuery(i, j, f) \/ OnQueryResp(i, j, f))
    BY <1>7, <2>0 DEF Read
  <2>2. ~OnQueryResp(i, j, f)
    BY <1>5, <1>7, <2>0, <2>1, ResponseRead
  <2>3. PICK a : a = Answer(i, j, f)
    OBVIOUS
  <2>4. \/ Adds(i, {j}, Response(f.id, a))
        \/ Adds(i, Key \ {j}, Forwarded(i, f)) /\ a = {}
    BY <1>5, <1>7, <2>0, <2>1, <2>2, <2>3, QueryRead
  <2>5. ~Adds(i, {j}, Response(f.id, a))
    <3>1. SUFFICES ASSUME Adds(i, {j}, Response(f.id, a)) PROVE FALSE
      OBVIOUS
    <3>2. g = Response(f.id, a)
      BY <1>1, <1>2, <1>4, <3>1 DEF Adds
    <3>3. QED
      BY <1>3, <3>2 DEF Response
  <2>6. Reaches(i, Key \ {j}, k) /\ a = {}
    <3>1. Adds(i, Key \ {j}, Forwarded(i, f)) /\ a = {}
      BY <2>4, <2>5
    <3>2. ~(Len(wire'[k]) <= Len(wire[k]))
      BY <1>1, <1>4, <3>1 DEF Adds
    <3>3. QED
      BY <1>1, <3>1, <3>2 DEF Adds
  <2>7. i = n /\ KeyOf(n, m) # j
    BY <1>0, <2>6 DEF Reaches, KeyOf
  <2>8. Offers(n, known[n] \ {j}) = {}
    BY <2>3, <2>6, <2>7 DEF Answer, Peers
  <2>9. KeyOf(n, m) \in known[n] => Offers(n, known[n] \ {j}) # {}
    BY <2>7 DEF Offers
  <2>10. QED
    BY <2>8, <2>9
<1>8. ASSUME NEW i \in Node, NEW p \in Query, Forget(i, p) PROVE FALSE
  BY <1>5, <1>8 DEF Forget
<1>9. ASSUME NEW p \in Query, Returns(p) PROVE FALSE
  BY <1>5, <1>9 DEF Returns
<1>10. ASSUME NEW i \in Node, NEW j \in Key, <<i, j>> \in Loop,
              Register(i, j) \/ Unlink(i, j)
       PROVE  FALSE
  BY <1>5, <1>10, UnlinkRemoves DEF Register
<1>13. ASSUME NEW i \in Node, NEW j \in Node, Reconnect(i, j) PROVE FALSE
  BY <1>5, <1>13, ReconnectRemoves
<1>11. CASE UNCHANGED vars
  BY <1>5, <1>11 DEF vars
<1>12. QED
  BY <1>6, <1>7, <1>8, <1>9, <1>10, <1>11, <1>13, LoopsAreOfNodes,
     CallersAreNodes DEF Next

\* A query is forwarded only on connections that the routing table of the node
\* that forwards it does not list.
THEOREM ForwardsAreBlind == Spec => ForwardedBlindly
<1>1. FloodTypes /\ [Next]_vars =>
        [\A n, m \in Node, q \in Query : <<n, m>> \in Links /\ Relays(n, m, q)
           => KeyOf(n, m) \notin known[n]]_vars
  BY ForwardStep
<1>2. QED
  BY <1>1, TypesInit, TypesStep, PTL DEF Spec, ForwardedBlindly
=============================================================================
