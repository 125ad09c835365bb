------------------------- MODULE TaskExchangeProofs -------------------------
(* Proofs about TaskExchange, for any nodes, connections, calls and faults:  *)
(* types, that it implements RemoteCall, and that read loops do not wait for *)
(* each other in a circle.                                                   *)
EXTENDS TaskExchange, WellFoundedInduction, TLAPS

-----------------------------------------------------------------------------
\* The inductive invariant

TaskMsg(t) == [type |-> "TASK", id |-> t]
Success(t) == [type |-> "RESULT", id |-> t, ok |-> TRUE]

\* The places of a TASK among the frames that a read loop has not read, and all
\* these frames.
Copies(w, l, t) == {i \in DOMAIN w[l] : w[l][i] = TaskMsg(t)}
Unread(w, l) == {w[l][i] : i \in DOMAIN w[l]}
Single(w, l, t) == \A i, j \in Copies(w, l, t) : i = j
\* Where tasks were executed or met a node without a handler.
Done == ran \cup unrun
Executed(t) == \E n \in Node : <<t, n>> \in Done

\* A call that has begun has been made by somebody.
CalledInv == \A t \in Task : stage[t] # "new" => call[t] \in Call

\* A TASK is only at the read loops of its caller's connections, and that of a
\* call only at that of the peer it was sent to.
SenderInv ==
  \A l \in Loop, t \in Task : Copies(wire, l, t) # {} \/ busy[l] = t =>
    /\ stage[t] # "new" /\ l[2] = call[t].by
    /\ stage[t] # "cast" => l[1] = call[t].to

\* So is who has executed it.
ExecutorInv ==
  \A t \in Task, n \in Node : <<t, n>> \in Done =>
    stage[t] # "new" /\ (stage[t] # "cast" => n = call[t].to)

\* A node has a TASK once at most, and neither once more when it handles it nor
\* when it has executed it.
OnceInv ==
  \A l \in Loop, t \in Task :
    /\ Single(wire, l, t)
    /\ Copies(wire, l, t) # {} => busy[l] # t /\ <<t, l[1]>> \notin Done
    /\ busy[l] = t => <<t, l[1]>> \notin Done

\* A RESULT reports success, and a future is resolved with one, when the task
\* was executed or met a node without a handler.
ResultInv ==
  \A t \in Task :
    stage[t] \in {"succeeding", "success"} \/ (\E l \in Loop : Success(t) \in Unread(wire, l))
      => Executed(t)

ExchangeInv ==
  TypeOK /\ CalledInv /\ SenderInv /\ ExecutorInv /\ OnceInv /\ ResultInv

-----------------------------------------------------------------------------
\* Frames

LEMMA FrameTypes ==
  /\ \A t \in Task : TaskMsg(t) \in Frame /\ Success(t) \in Frame
  /\ \A t \in Task, b \in BOOLEAN : [type |-> "RESULT", id |-> t, ok |-> b] \in Frame
  /\ \A f \in Frame : f.id \in Task
  /\ \A f \in Frame : f.type = "TASK" => f = TaskMsg(f.id)
  /\ \A f \in Frame : f.type = "RESULT" =>
       /\ \A t \in Task : f # TaskMsg(t)
       /\ f.ok \in BOOLEAN
       /\ f.ok => f = Success(f.id)
  /\ \A s, t \in Task : TaskMsg(s) # Success(t) /\ (TaskMsg(s) = TaskMsg(t) => s = t)
BY DEF Frame, TaskMsg, Success

\* A frame that is appended is the last one, the others stay where they are.
LEMMA AppendFrame ==
  ASSUME NEW s \in Seq(Frame), NEW f \in Frame
  PROVE  /\ Append(s, f) \in Seq(Frame)
         /\ \A i \in DOMAIN Append(s, f) :
              \/ i \in DOMAIN s /\ Append(s, f)[i] = s[i]
              \/ i = Len(s) + 1 /\ Append(s, f)[i] = f
OBVIOUS

\* The frames behind the first one move up by one place.
LEMMA TailFrames ==
  ASSUME NEW s \in Seq(Frame), s # <<>>
  PROVE  /\ Tail(s) \in Seq(Frame) /\ Head(s) \in Frame
         /\ 1 \in DOMAIN s /\ Head(s) = s[1]
         /\ \A i \in DOMAIN Tail(s) :
              i \in Nat \ {0} /\ i + 1 \in DOMAIN s /\ Tail(s)[i] = s[i + 1]
OBVIOUS

LEMMA SuccInjective == \A i, j \in Nat : i + 1 = j + 1 => i = j
OBVIOUS

\* Where send_to finds a connection, the frame is appended.
LEMMA SentFrames ==
  ASSUME wire \in [Loop -> Seq(Frame)],
         NEW n \in Node, NEW to, NEW f \in Frame, wire' = Sent(n, to, f)
  PROVE  /\ wire' \in [Loop -> Seq(Frame)]
         /\ \A l \in Loop :
              \/ wire'[l] = wire[l]
              \/ l[2] = n /\ l[1] \in to /\ wire'[l] = Append(wire[l], f)
<1>1. wire' = [l \in Loop |-> IF l[2] = n /\ l[1] \in to /\ l \in link
                              THEN Append(wire[l], f) ELSE wire[l]]
  BY DEF Sent
<1>2. ASSUME NEW l \in Loop
      PROVE  /\ wire'[l] \in Seq(Frame)
             /\ \/ wire'[l] = wire[l]
                \/ l[2] = n /\ l[1] \in to /\ wire'[l] = Append(wire[l], f)
  BY <1>1, AppendFrame
<1> QED BY <1>1, <1>2

\* Frames are only taken away.
Shrinks ==
  /\ wire' \in [Loop -> Seq(Frame)]
  /\ \A l \in Loop :
       /\ Unread(wire', l) \subseteq Unread(wire, l)
       /\ \A t \in Task :
            /\ Copies(wire', l, t) # {} => Copies(wire, l, t) # {}
            /\ Single(wire, l, t) => Single(wire', l, t)

\* Taking copies away leaves none where there was none, and no second one.
LEMMA FewerCopies ==
  ASSUME NEW v, NEW w, NEW l, NEW t, Copies(v, l, t) \subseteq Copies(w, l, t)
  PROVE  /\ Copies(v, l, t) # {} => Copies(w, l, t) # {}
         /\ Single(w, l, t) => Single(v, l, t)
BY DEF Single

LEMMA SameFrames ==
  ASSUME NEW v, NEW w, NEW l, v[l] = w[l]
  PROVE  /\ Unread(v, l) = Unread(w, l)
         /\ \A t : Copies(v, l, t) = Copies(w, l, t)
BY DEF Unread, Copies

\* A frame that is read is taken away; if it was a TASK, there is no other of it.
LEMMA ReadShrinks ==
  ASSUME wire \in [Loop -> Seq(Frame)], NEW k \in Loop, wire[k] # <<>>,
         wire' = [wire EXCEPT ![k] = Tail(@)]
  PROVE  /\ Shrinks
         /\ Head(wire[k]) \in Frame /\ Head(wire[k]) \in Unread(wire, k)
         /\ \A t \in Task : /\ Head(wire[k]) = TaskMsg(t)
                            /\ Single(wire, k, t)
                            => Copies(wire', k, t) = {}
<1>1. wire[k] \in Seq(Frame)
  OBVIOUS
<1>2. /\ Tail(wire[k]) \in Seq(Frame) /\ Head(wire[k]) \in Frame
      /\ 1 \in DOMAIN wire[k] /\ Head(wire[k]) = wire[k][1]
  BY <1>1, TailFrames
<1>3. wire' \in [Loop -> Seq(Frame)] /\ wire'[k] = Tail(wire[k])
      /\ \A l \in Loop : l # k => wire'[l] = wire[l]
  BY <1>2
<1>4. \A i \in DOMAIN wire'[k] :
        i \in Nat \ {0} /\ i + 1 \in DOMAIN wire[k] /\ wire'[k][i] = wire[k][i + 1]
  BY <1>1, <1>3, TailFrames
<1>5. Head(wire[k]) \in Unread(wire, k)
  BY <1>2 DEF Unread
<1>6. Unread(wire', k) \subseteq Unread(wire, k)
  BY <1>4 DEF Unread
<1>7. \A t : \A i \in Copies(wire', k, t) : i \in Nat \ {0} /\ i + 1 \in Copies(wire, k, t)
  BY <1>4 DEF Copies
<1>8. ASSUME NEW t \in Task
      PROVE  /\ Copies(wire', k, t) # {} => Copies(wire, k, t) # {}
             /\ Single(wire, k, t) => Single(wire', k, t)
             /\ Head(wire[k]) = TaskMsg(t) /\ Single(wire, k, t)
                  => Copies(wire', k, t) = {}
  <2>1. Copies(wire', k, t) # {} => Copies(wire, k, t) # {}
    BY <1>7
  <2>2. Single(wire, k, t) => Single(wire', k, t)
    BY <1>7, SuccInjective DEF Single
  <2>3. ASSUME Head(wire[k]) = TaskMsg(t), Single(wire, k, t),
               NEW i \in Copies(wire', k, t)
        PROVE  FALSE
    <3>1. 1 \in Copies(wire, k, t)
      BY <1>2, <2>3 DEF Copies
    <3>2. i + 1 \in Copies(wire, k, t) /\ i \in Nat \ {0}
      BY <1>7
    <3>3. i + 1 = 1
      BY <2>3, <3>1, <3>2 DEF Single
    <3> QED BY <3>2, <3>3
  <2> QED BY <2>1, <2>2, <2>3
<1>9. ASSUME NEW l \in Loop, l # k
      PROVE  Unread(wire', l) = Unread(wire, l) /\ \A t : Copies(wire', l, t) = Copies(wire, l, t)
  <2>1. wire'[l] = wire[l]
    BY <1>3, <1>9
  <2> QED BY <2>1 DEF Unread, Copies
<1>10. Shrinks
  <2>1. ASSUME NEW l \in Loop
        PROVE  /\ Unread(wire', l) \subseteq Unread(wire, l)
               /\ \A t \in Task :
                    /\ Copies(wire', l, t) # {} => Copies(wire, l, t) # {}
                    /\ Single(wire, l, t) => Single(wire', l, t)
    <3>1. CASE l = k
      BY <1>6, <1>8, <3>1
    <3>2. CASE l # k
      BY <1>9, <3>2, FewerCopies
    <3> QED BY <3>1, <3>2
  <2> QED BY <1>3, <2>1 DEF Shrinks
<1> QED BY <1>2, <1>5, <1>8, <1>10

LEMMA UnchangedShrinks ==
  ASSUME wire \in [Loop -> Seq(Frame)], UNCHANGED wire
  PROVE  Shrinks
BY DEF Shrinks

\* A lost connection takes its frames with it.
LEMMA LoseShrinks ==
  ASSUME wire \in [Loop -> Seq(Frame)], NEW l \in Loop, Lose(l)
  PROVE  Shrinks
<1>1. wire' = [k \in Loop |-> IF k \in {l, <<l[2], l[1]>>} THEN <<>> ELSE wire[k]]
  BY DEF Lose
<1>2. wire' \in [Loop -> Seq(Frame)]
  BY <1>1
<1>3. ASSUME NEW k \in Loop
      PROVE  /\ Unread(wire', k) \subseteq Unread(wire, k)
             /\ \A t : Copies(wire', k, t) \subseteq Copies(wire, k, t)
  <2>1. wire'[k] = <<>> \/ wire'[k] = wire[k]
    BY <1>1
  <2>2. DOMAIN <<>> = {}
    OBVIOUS
  <2> QED BY <2>1, <2>2, SameFrames DEF Unread, Copies
<1>4. ASSUME NEW k \in Loop, NEW t \in Task
      PROVE  /\ Copies(wire', k, t) # {} => Copies(wire, k, t) # {}
             /\ Single(wire, k, t) => Single(wire', k, t)
  BY <1>3, FewerCopies
<1> QED BY <1>2, <1>3, <1>4 DEF Shrinks

-----------------------------------------------------------------------------
\* What steps do

\* A call goes on, or frames are lost, and nobody executes anything.
LEMMA ProgressStep ==
  ASSUME ExchangeInv, Shrinks, UNCHANGED <<call, busy, ran, unrun>>,
         replying' \in SUBSET Loop, link' \in SUBSET Loop,
         stage' \in [Task -> Stage],
         \A t \in Task : \/ stage'[t] = stage[t]
                         \/ /\ stage[t] \notin {"new", "cast"} /\ stage'[t] \notin {"new", "cast"}
                            /\ stage'[t] \in {"succeeding", "success"} => Executed(t)
  PROVE  ExchangeInv'
<1> USE DEF ExchangeInv
<1>0. UNCHANGED Done
  BY DEF Done
<1>1. \A t \in Task : /\ stage'[t] # "new" <=> stage[t] # "new"
                      /\ stage'[t] # "cast" <=> stage[t] # "cast"
  OBVIOUS
<1>2. TypeOK'
  BY DEF TypeOK, Shrinks
<1>3. CalledInv'
  BY <1>1 DEF CalledInv
<1>4. SenderInv'
  BY <1>1 DEF SenderInv, Shrinks
<1>5. ExecutorInv'
  BY <1>0, <1>1 DEF ExecutorInv
<1>6. OnceInv'
  BY <1>0 DEF OnceInv, Shrinks
<1>7. ResultInv'
  <2>1. \A t : Executed(t)' <=> Executed(t)
    BY <1>0 DEF Executed
  <2>2. \A t \in Task, l \in Loop : Success(t) \in Unread(wire', l) => Success(t) \in Unread(wire, l)
    BY DEF Shrinks
  <2> QED BY <2>1, <2>2 DEF ResultInv
<1> QED BY <1>2, <1>3, <1>4, <1>5, <1>6, <1>7

\* The TASK at the head of a queue is handled.
LEMMA TakeTaskStep ==
  ASSUME ExchangeInv, NEW l \in Loop, TakeTask(l)
  PROVE  ExchangeInv'
<1> USE DEF ExchangeInv
<1>1. wire \in [Loop -> Seq(Frame)] /\ busy \in [Loop -> Task \cup {None}]
  BY DEF TypeOK
<1>2. /\ busy[l] = None /\ wire[l] # <<>> /\ Head(wire[l]).type = "TASK"
      /\ wire' = [wire EXCEPT ![l] = Tail(@)]
      /\ busy' = [busy EXCEPT ![l] = Head(wire[l]).id]
      /\ UNCHANGED <<link, stage, call, replying, ran, unrun, Done>>
  BY DEF TakeTask, Read, HeldUp, Done
<1>3. Shrinks /\ Head(wire[l]) \in Frame
  BY <1>1, <1>2, ReadShrinks
<1>4. PICK t \in Task : t = Head(wire[l]).id
  BY <1>3, FrameTypes
<1>5. Head(wire[l]) = TaskMsg(t)
  BY <1>2, <1>3, <1>4, FrameTypes
<1>6. Copies(wire, l, t) # {} /\ Copies(wire', l, t) = {}
  <2>1. Head(wire[l]) = wire[l][1] /\ 1 \in DOMAIN wire[l]
    BY <1>1, <1>2, TailFrames
  <2>2. Copies(wire, l, t) # {}
    BY <1>5, <2>1 DEF Copies
  <2>3. Single(wire, l, t)
    BY DEF OnceInv
  <2> QED BY <1>1, <1>2, <1>5, <2>2, <2>3, ReadShrinks
<1>7. \A k \in Loop : busy'[k] = IF k = l THEN t ELSE busy[k]
  BY <1>1, <1>2, <1>4
<1>8. <<t, l[1]>> \notin Done
  BY <1>6 DEF OnceInv
<1>9. TypeOK'
  BY <1>1, <1>2, <1>3, <1>4 DEF TypeOK, Shrinks
<1>10. CalledInv' /\ ExecutorInv'
  BY <1>2 DEF CalledInv, ExecutorInv
<1>11. SenderInv'
  <2> SUFFICES ASSUME NEW k \in Loop, NEW s \in Task,
                      Copies(wire', k, s) # {} \/ busy'[k] = s
               PROVE  /\ stage[s] # "new" /\ k[2] = call[s].by
                      /\ stage[s] # "cast" => k[1] = call[s].to
    BY <1>2 DEF SenderInv
  <2>1. Copies(wire, k, s) # {} \/ busy[k] = s
    BY <1>3, <1>6, <1>7 DEF Shrinks
  <2> QED BY <2>1 DEF SenderInv
<1>12. OnceInv'
  <2> SUFFICES ASSUME NEW k \in Loop, NEW s \in Task
               PROVE  /\ Single(wire', k, s)
                      /\ Copies(wire', k, s) # {} => busy'[k] # s /\ <<s, k[1]>> \notin Done
                      /\ busy'[k] = s => <<s, k[1]>> \notin Done
    BY <1>2 DEF OnceInv
  <2>1. Single(wire', k, s)
    BY <1>3 DEF OnceInv, Shrinks
  <2>2. Copies(wire', k, s) # {} => Copies(wire, k, s) # {}
    BY <1>3 DEF Shrinks
  <2>3. CASE k = l
    BY <1>6, <1>7, <1>8, <2>1, <2>2, <2>3 DEF OnceInv
  <2>4. CASE k # l
    BY <1>7, <2>1, <2>2, <2>4 DEF OnceInv
  <2> QED BY <2>3, <2>4
<1>13. ResultInv'
  <2>1. \A s : Executed(s)' <=> Executed(s)
    BY <1>2 DEF Executed
  <2>2. \A s \in Task, k \in Loop : Success(s) \in Unread(wire', k) => Success(s) \in Unread(wire, k)
    BY <1>3 DEF Shrinks
  <2> QED BY <1>2, <2>1, <2>2 DEF ResultInv
<1> QED BY <1>9, <1>10, <1>11, <1>12, <1>13

\* What an appended frame does to the copies of a TASK, and to the unread frames.
LEMMA AppendCopies ==
  ASSUME NEW v, NEW w \in [Loop -> Seq(Frame)], NEW l \in Loop, NEW f \in Frame,
         v[l] = Append(w[l], f)
  PROVE  /\ Unread(v, l) \subseteq Unread(w, l) \cup {f}
         /\ \A t \in Task : f # TaskMsg(t) => Copies(v, l, t) \subseteq Copies(w, l, t)
         /\ \A t \in Task : \A i \in Copies(v, l, t) :
              i \in Copies(w, l, t) \/ i = Len(w[l]) + 1
<1>1. w[l] \in Seq(Frame)
  OBVIOUS
<1>2. \A i \in DOMAIN v[l] :
        \/ i \in DOMAIN w[l] /\ v[l][i] = w[l][i]
        \/ i = Len(w[l]) + 1 /\ v[l][i] = f
  BY <1>1, AppendFrame
<1>3. Unread(v, l) \subseteq Unread(w, l) \cup {f}
  BY <1>2 DEF Unread
<1>4. \A t \in Task : f # TaskMsg(t) => Copies(v, l, t) \subseteq Copies(w, l, t)
  BY <1>2 DEF Copies
<1>5. \A t \in Task : \A i \in Copies(v, l, t) : i \in Copies(w, l, t) \/ i = Len(w[l]) + 1
  BY <1>2 DEF Copies
<1> QED BY <1>3, <1>4, <1>5

\* A handler is over: its RESULT is sent, what it was asked is executed or not.
LEMMA AnswerStep ==
  ASSUME ExchangeInv, NEW l \in Loop, NEW t \in Task, busy[l] = t, NEW ok \in BOOLEAN,
         Answered(l, ok), UNCHANGED <<link, stage, call>>,
         ran' \in {ran, ran \cup {<<t, l[1]>>}}, unrun' \in {unrun, unrun \cup {<<t, l[1]>>}},
         \/ Done' = Done \cup {<<t, l[1]>>}
         \/ Done' = Done /\ ~ok
  PROVE  ExchangeInv'
<1> USE DEF ExchangeInv
<1> DEFINE f == [type |-> "RESULT", id |-> t, ok |-> ok]
<1>1. wire \in [Loop -> Seq(Frame)] /\ busy \in [Loop -> Task \cup {None}]
      /\ None \notin Task /\ l[1] \in Node /\ l[2] \in Node /\ l = <<l[1], l[2]>>
  BY NoneIsNoNode DEF TypeOK, Task, Loop
<1>2. /\ wire' = Sent(l[1], {l[2]}, f) /\ busy' = [busy EXCEPT ![l] = None]
  BY DEF Answered
<1>3. f \in Frame /\ f.type = "RESULT" /\ f.id = t /\ f.ok = ok
  BY FrameTypes
<1> HIDE DEF f
<1>4. \A s \in Task : f # TaskMsg(s) /\ (f = Success(s) => s = t /\ ok)
  BY <1>3, FrameTypes DEF TaskMsg, Success
<1>5. /\ wire' \in [Loop -> Seq(Frame)]
      /\ \A k \in Loop : wire'[k] = wire[k] \/ wire'[k] = Append(wire[k], f)
  <2> DEFINE there == {l[2]}
  <2>1. wire' = Sent(l[1], there, f)
    BY <1>2
  <2> HIDE DEF there
  <2> QED BY <1>1, <1>3, <2>1, SentFrames
<1>6. ASSUME NEW k \in Loop
      PROVE  /\ Unread(wire', k) \subseteq Unread(wire, k) \cup {f}
             /\ \A s \in Task : /\ Copies(wire', k, s) # {} => Copies(wire, k, s) # {}
                                /\ Single(wire, k, s) => Single(wire', k, s)
  <2>1. /\ Unread(wire', k) \subseteq Unread(wire, k) \cup {f}
        /\ \A s \in Task : Copies(wire', k, s) \subseteq Copies(wire, k, s)
    <3>1. CASE wire'[k] = wire[k]
      BY <3>1 DEF Unread, Copies
    <3>2. CASE wire'[k] = Append(wire[k], f)
      BY <1>1, <1>3, <1>4, <3>2, AppendCopies
    <3> QED BY <1>5, <3>1, <3>2
  <2> QED BY <2>1, FewerCopies
<1>7. \A k \in Loop : busy'[k] = IF k = l THEN None ELSE busy[k]
  BY <1>1, <1>2
<1>8. /\ stage[t] # "new" /\ l[2] = call[t].by
      /\ stage[t] # "cast" => l[1] = call[t].to
  BY DEF SenderInv
<1>9. TypeOK'
  <2>1. busy' \in [Loop -> Task \cup {None}]
    BY <1>1, <1>2
  <2>2. ran' \in SUBSET (Task \X Node) /\ unrun' \in SUBSET (Task \X Node)
    BY <1>1 DEF TypeOK
  <2>3. replying' \in SUBSET Loop
    BY DEF Answered, TypeOK
  <2> QED BY <1>5, <2>1, <2>2, <2>3 DEF TypeOK
<1>10. CalledInv'
  BY DEF CalledInv
<1>11. SenderInv'
  BY <1>1, <1>6, <1>7 DEF SenderInv
<1>12. ExecutorInv'
  BY <1>8 DEF ExecutorInv
<1>13. OnceInv'
  <2> SUFFICES ASSUME NEW k \in Loop, NEW s \in Task
               PROVE  /\ Single(wire', k, s)
                      /\ Copies(wire', k, s) # {} => busy'[k] # s /\ <<s, k[1]>> \notin Done'
                      /\ busy'[k] = s => <<s, k[1]>> \notin Done'
    BY DEF OnceInv
  <2>1. Single(wire', k, s)
    BY <1>6 DEF OnceInv
  <2>2. ASSUME Copies(wire', k, s) # {} \/ busy'[k] = s
        PROVE  ~(s = t /\ k[1] = l[1])
    <3>1. CASE k = l
      BY <1>1, <1>6, <1>7, <2>2, <3>1 DEF OnceInv
    <3>2. CASE k # l
      <4>1. Copies(wire, k, s) # {} \/ busy[k] = s
        BY <1>6, <1>7, <2>2, <3>2
      <4>2. s = t => k[2] = l[2]
        BY <1>8, <4>1 DEF SenderInv
      <4>3. k = <<k[1], k[2]>>
        BY DEF Loop
      <4> QED BY <1>1, <3>2, <4>2, <4>3
    <3> QED BY <3>1, <3>2
  <2>3. Copies(wire', k, s) # {} => busy'[k] # s /\ <<s, k[1]>> \notin Done
    BY <1>1, <1>6, <1>7 DEF OnceInv
  <2>4. busy'[k] = s => <<s, k[1]>> \notin Done
    BY <1>1, <1>7 DEF OnceInv
  <2>5. <<s, k[1]>> \in Done' => <<s, k[1]>> \in Done \/ (s = t /\ k[1] = l[1])
    OBVIOUS
  <2> QED BY <2>1, <2>2, <2>3, <2>4, <2>5
<1>14. ResultInv'
  <2>1. \A s : Executed(s) => Executed(s)'
    BY DEF Executed
  <2>2. ok => Executed(t)'
    BY <1>1 DEF Executed
  <2>3. \A s \in Task, k \in Loop : Success(s) \in Unread(wire', k) =>
          Success(s) \in Unread(wire, k) \/ (s = t /\ ok)
    BY <1>4, <1>6
  <2> QED BY <2>1, <2>2, <2>3 DEF ResultInv
<1> QED BY <1>9, <1>10, <1>11, <1>12, <1>13, <1>14

\* A call begins: there is nothing of its task yet.
LEMMA BeginStep ==
  ASSUME ExchangeInv, NEW n \in Node, NEW t \in Task, Fresh(t), NEW c \in Call, c.by = n,
         NEW s \in Stage \ {"new", "succeeding", "success"}, NEW to,
         call' = [call EXCEPT ![t] = c], stage' = [stage EXCEPT ![t] = s],
         \/ UNCHANGED wire
         \/ wire' = Sent(n, to, TaskMsg(t)) /\ (s # "cast" => to = {c.to}),
         UNCHANGED <<link, busy, replying, ran, unrun>>
  PROVE  ExchangeInv'
<1> USE DEF ExchangeInv
<1>1. /\ wire \in [Loop -> Seq(Frame)] /\ stage \in [Task -> Stage]
      /\ call \in [Task -> Call \cup {None}]
  BY DEF TypeOK
<1>2. /\ stage'[t] = s /\ call'[t] = c
      /\ \A r \in Task : r # t => stage'[r] = stage[r] /\ call'[r] = call[r]
  BY <1>1
<1>3. /\ \A l \in Loop : Copies(wire, l, t) = {} /\ busy[l] # t
      /\ \A m \in Node : <<t, m>> \notin Done
  BY DEF Fresh, SenderInv, ExecutorInv
<1>4. TaskMsg(t) \in Frame
  BY FrameTypes
<1>5. /\ wire' \in [Loop -> Seq(Frame)]
      /\ \A l \in Loop :
           \/ wire'[l] = wire[l]
           \/ /\ l[2] = n /\ (s # "cast" => l[1] = c.to)
              /\ wire'[l] = Append(wire[l], TaskMsg(t))
  <2>1. CASE UNCHANGED wire
    BY <1>1, <2>1
  <2>2. CASE wire' = Sent(n, to, TaskMsg(t)) /\ (s # "cast" => to = {c.to})
    BY <1>1, <1>4, <2>2, SentFrames
  <2> QED BY <2>1, <2>2
<1>6. ASSUME NEW l \in Loop
      PROVE  /\ \A r \in Task : Success(r) \in Unread(wire', l) => Success(r) \in Unread(wire, l)
             /\ \A r \in Task \ {t} : /\ Copies(wire', l, r) # {} => Copies(wire, l, r) # {}
                                      /\ Single(wire, l, r) => Single(wire', l, r)
             /\ Single(wire', l, t)
             /\ Copies(wire', l, t) # {} => l[2] = n /\ (s # "cast" => l[1] = c.to)
  <2>1. CASE wire'[l] = wire[l]
    <3>1. Unread(wire', l) = Unread(wire, l) /\ \A r : Copies(wire', l, r) = Copies(wire, l, r)
      BY <2>1 DEF Unread, Copies
    <3>2. Copies(wire', l, t) = {} /\ Single(wire', l, t)
      BY <1>3, <3>1 DEF Single
    <3> QED BY <3>1, <3>2, FewerCopies
  <2>2. CASE wire'[l] = Append(wire[l], TaskMsg(t)) /\ l[2] = n /\ (s # "cast" => l[1] = c.to)
    <3>1. /\ Unread(wire', l) \subseteq Unread(wire, l) \cup {TaskMsg(t)}
          /\ \A r \in Task : TaskMsg(t) # TaskMsg(r) => Copies(wire', l, r) \subseteq Copies(wire, l, r)
          /\ \A i \in Copies(wire', l, t) : i \in Copies(wire, l, t) \/ i = Len(wire[l]) + 1
      BY <1>1, <1>4, <2>2, AppendCopies
    <3>2. /\ \A r \in Task : TaskMsg(t) # Success(r)
          /\ \A r \in Task \ {t} : TaskMsg(t) # TaskMsg(r)
      BY FrameTypes
    <3>3. \A r \in Task : Success(r) \in Unread(wire', l) => Success(r) \in Unread(wire, l)
      BY <3>1, <3>2
    <3>4. \A r \in Task \ {t} : Copies(wire', l, r) \subseteq Copies(wire, l, r)
      BY <3>1, <3>2
    <3>5. Single(wire', l, t)
      BY <1>3, <3>1 DEF Single
    <3> QED BY <2>2, <3>3, <3>4, <3>5, FewerCopies
  <2> QED BY <1>5, <2>1, <2>2
<1>7. TypeOK'
  BY <1>1, <1>5 DEF TypeOK
<1>0. UNCHANGED Done
  BY DEF Done
<1>8. CalledInv'
  BY <1>2 DEF CalledInv
<1>9. SenderInv'
  <2> SUFFICES ASSUME NEW l \in Loop, NEW r \in Task,
                      Copies(wire', l, r) # {} \/ busy[l] = r
               PROVE  /\ stage'[r] # "new" /\ l[2] = call'[r].by
                      /\ stage'[r] # "cast" => l[1] = call'[r].to
    BY DEF SenderInv
  <2>1. CASE r = t
    BY <1>2, <1>3, <1>6, <2>1
  <2>2. CASE r # t
    BY <1>2, <1>6, <2>2 DEF SenderInv
  <2> QED BY <2>1, <2>2
<1>10. ExecutorInv'
  BY <1>0, <1>2, <1>3 DEF ExecutorInv
<1>11. OnceInv'
  <2> SUFFICES ASSUME NEW l \in Loop, NEW r \in Task
               PROVE  /\ Single(wire', l, r)
                      /\ Copies(wire', l, r) # {} => busy[l] # r /\ <<r, l[1]>> \notin Done
                      /\ busy[l] = r => <<r, l[1]>> \notin Done
    BY <1>0 DEF OnceInv
  <2>1. CASE r = t
    <3>1. l[1] \in Node
      BY DEF Loop
    <3> QED BY <1>3, <1>6, <2>1, <3>1
  <2>2. CASE r # t
    BY <1>6, <2>2 DEF OnceInv
  <2> QED BY <2>1, <2>2
<1>12. ResultInv'
  <2>1. \A r : Executed(r)' <=> Executed(r)
    BY <1>0 DEF Executed
  <2>2. \A r \in Task : stage'[r] \in {"succeeding", "success"} => stage[r] \in {"succeeding", "success"}
    BY <1>2
  <2> QED BY <1>6, <2>1, <2>2 DEF ResultInv
<1> QED BY <1>7, <1>8, <1>9, <1>10, <1>11, <1>12

\* A call begins, of the application or, for a task at hand, of a handler.
Begins(t) ==
  /\ Fresh(t) /\ UNCHANGED <<ran, unrun>>
  /\ \E s \in {"waiting", "sending", "error", "cast"}, c \in Call :
       /\ stage' = [stage EXCEPT ![t] = s] /\ call' = [call EXCEPT ![t] = c]
       /\ c.for # None => stage[c.for] # "new"
       /\ s = "cast" => c.inside = None

LEMMA SendTaskStep ==
  ASSUME ExchangeInv, NEW n \in Node, NEW t \in Task, NEW target \in Node \cup {None},
         NEW peer \in Node \cup {None}, NEW inside \in Loop \cup {None},
         NEW for \in Task \cup {None}, SendTask(n, t, target, peer, inside, for),
         for # None => stage[for] # "new"
  PROVE  ExchangeInv' /\ Begins(t)
<1> DEFINE c == [by |-> n, target |-> target, to |-> peer, inside |-> inside, for |-> for]
<1>1. c \in Call /\ c.by = n /\ c.to = peer
  BY DEF Call
<1>2. /\ Fresh(t) /\ call' = [call EXCEPT ![t] = c] /\ UNCHANGED <<link, busy, replying, ran, unrun>>
      /\ UNCHANGED wire \/ wire' = Sent(n, {peer}, TaskMsg(t))
  BY DEF SendTask, TaskMsg
<1>3. PICK s \in {"waiting", "sending", "error"} : stage' = [stage EXCEPT ![t] = s]
  BY DEF SendTask
<1>4. s \in Stage \ {"new", "succeeding", "success"}
  BY DEF Stage
<1> HIDE DEF c
<1>5. ExchangeInv'
  BY <1>1, <1>2, <1>3, <1>4, BeginStep
<1>6. c.for # None => stage[c.for] # "new"
  BY DEF c
<1> QED BY <1>1, <1>2, <1>3, <1>5, <1>6 DEF Begins

LEMMA CastStep ==
  ASSUME ExchangeInv, NEW n \in Node, NEW t \in Task, NEW to, Cast(n, t, to)
  PROVE  ExchangeInv' /\ Begins(t)
<1> DEFINE c == [by |-> n, target |-> None, to |-> None, inside |-> None, for |-> None]
<1>1. c \in Call /\ c.by = n /\ c.inside = None /\ c.for = None
  BY DEF Call
<1>2. /\ Fresh(t) /\ call' = [call EXCEPT ![t] = c] /\ UNCHANGED <<link, busy, replying, ran, unrun>>
      /\ stage' = [stage EXCEPT ![t] = "cast"] /\ wire' = Sent(n, to, TaskMsg(t))
  BY DEF Cast, TaskMsg
<1>3. "cast" \in Stage \ {"new", "succeeding", "success"}
  BY DEF Stage
<1> HIDE DEF c
<1>4. ExchangeInv'
  BY <1>1, <1>2, <1>3, BeginStep
<1> QED BY <1>1, <1>2, <1>4 DEF Begins

\* Every call of a node is a SendTask to one of its peers, or to nobody.
LEMMA CallsAreSendTask ==
  ASSUME ExchangeInv, NEW t \in Task,
         \/ \E n \in Node, target \in Node \cup {None} : AppCall(n, t, target)
         \/ \E l \in Loop : \/ \E target \in Node \cup {None} : HandlerCall(l, t, target)
                            \/ Forward(l, t)
  PROVE  \E n \in Node, target \in Node \cup {None}, peer \in Node \cup {None},
            inside \in Loop \cup {None}, for \in Task \cup {None} :
           SendTask(n, t, target, peer, inside, for) /\ (for # None => stage[for] # "new")
<1>1. \A n \in Node, target \in Node \cup {None} : PeersFor(n, target) \subseteq Node \cup {None}
  BY DEF PeersFor, Linked
<1>2. \A l \in Loop : /\ l[1] \in Node /\ busy[l] \in Task \cup {None}
                      /\ busy[l] # None => stage[busy[l]] # "new"
  BY DEF Loop, ExchangeInv, TypeOK, SenderInv
<1>3. ASSUME NEW n \in Node, NEW target \in Node \cup {None}, AppCall(n, t, target)
      PROVE  \E peer \in Node \cup {None} : SendTask(n, t, target, peer, None, None)
  BY <1>1, <1>3 DEF AppCall
<1>4. ASSUME NEW l \in Loop, NEW target \in Node \cup {None}, HandlerCall(l, t, target)
      PROVE  \E peer \in Node \cup {None} : SendTask(l[1], t, target, peer, l, busy[l])
  BY <1>1, <1>2, <1>4 DEF HandlerCall
<1>5. ASSUME NEW l \in Loop, Forward(l, t)
      PROVE  \E peer \in Node : SendTask(l[1], t, peer, peer, l, busy[l])
  <2>1. PICK peer \in IF call[busy[l]].target \in Linked(l[1])
                      THEN {call[busy[l]].target} ELSE Linked(l[1]) :
          SendTask(l[1], t, peer, peer, l, busy[l])
    BY <1>5 DEF Forward
  <2>2. Linked(l[1]) \subseteq Node
    BY DEF Linked
  <2> QED BY <2>1, <2>2
<1>6. CASE \E n \in Node, target \in Node \cup {None} : AppCall(n, t, target)
  BY <1>3, <1>6
<1>7. CASE \E l \in Loop, target \in Node \cup {None} : HandlerCall(l, t, target)
  <2>1. PICK l \in Loop, target \in Node \cup {None} : HandlerCall(l, t, target)
    BY <1>7
  <2>2. PICK for \in Task \cup {None} : for = busy[l]
    BY <1>2
  <2>3. for # None => stage[for] # "new"
    BY <1>2, <2>2
  <2>4. PICK peer \in Node \cup {None} : SendTask(l[1], t, target, peer, l, for)
    BY <1>4, <2>1, <2>2
  <2>5. l[1] \in Node /\ l \in Loop \cup {None}
    BY <1>2
  <2> QED BY <2>3, <2>4, <2>5
<1>8. CASE \E l \in Loop : Forward(l, t)
  <2>1. PICK l \in Loop : Forward(l, t)
    BY <1>8
  <2>2. PICK for \in Task \cup {None} : for = busy[l]
    BY <1>2
  <2>3. PICK peer \in Node : SendTask(l[1], t, peer, peer, l, for)
    BY <1>5, <2>1, <2>2
  <2>4. for # None => stage[for] # "new"
    BY <1>2, <2>2
  <2>5. l[1] \in Node /\ l \in Loop \cup {None} /\ peer \in Node \cup {None}
    BY <1>2
  <2> QED BY <2>3, <2>4, <2>5
<1> QED BY <1>6, <1>7, <1>8

-----------------------------------------------------------------------------
\* Every step

\* A handler comes to its end.
Handled(l) ==
  \E t \in Task, ok \in BOOLEAN :
    /\ busy[l] = t /\ Answered(l, ok) /\ UNCHANGED <<link, stage, call>>
    /\ \/ ran' = ran \cup {<<t, l[1]>>} /\ UNCHANGED unrun
       \/ unrun' = unrun \cup {<<t, l[1]>>} /\ UNCHANGED ran
       \/ UNCHANGED <<ran, unrun>> /\ ~ok

\* The call of a task goes on.
Continues(t) ==
  /\ UNCHANGED <<call, ran, unrun>>
  /\ stage[t] \notin {"new", "cast"} /\ stage[t] \notin {"success", "error"}
  /\ \E s \in {"waiting", "succeeding", "failing", "success", "error"} :
       /\ stage' = [stage EXCEPT ![t] = s]
       /\ s \in {"succeeding", "success"} => Executed(t)

LEMMA HandledAnswers ==
  ASSUME TypeOK, NEW l \in Loop, Answer(l) \/ AnswerUnregistered(l) \/ AnswerRelay(l)
  PROVE  Handled(l)
<1>1. busy[l] \in Task
  BY DEF TypeOK, Answer, AnswerUnregistered, AnswerRelay
<1>2. PICK t \in Task : t = busy[l]
  BY <1>1
<1>3. CASE AnswerRelay(l)
  BY <1>2, <1>3 DEF AnswerRelay, Handled
<1>5. CASE AnswerUnregistered(l)
  BY <1>2, <1>5 DEF AnswerUnregistered, Handled
<1>4. CASE Answer(l)
  <2>1. PICK fails \in BOOLEAN :
          /\ ran' \in {ran \cup {<<busy[l], l[1]>>}} \cup (IF fails THEN {ran} ELSE {})
          /\ Answered(l, ~fails)
    BY <1>4 DEF Answer
  <2>2. ran' = ran \cup {<<t, l[1]>>} \/ (ran' = ran /\ fails)
    BY <1>2, <2>1
  <2>3. PICK ok \in BOOLEAN : ok = ~fails
    OBVIOUS
  <2>4. Answered(l, ok) /\ (ran' = ran \cup {<<t, l[1]>>} \/ (ran' = ran /\ ~ok))
    BY <2>1, <2>2, <2>3
  <2>5. UNCHANGED <<link, stage, call, unrun>>
    BY <1>4 DEF Answer
  <2> QED BY <1>2, <2>4, <2>5 DEF Handled
<1> QED BY <1>3, <1>4, <1>5

\* What a step is to the calls.
CallStep ==
  \/ \E t \in Task : Begins(t) \/ Continues(t)
  \/ \E l \in Loop : Handled(l)
  \/ UNCHANGED <<stage, call, ran, unrun>>

LEMMA Steps ==
  ASSUME ExchangeInv, [Next]_vars
  PROVE  ExchangeInv' /\ CallStep
<1>1. /\ TypeOK /\ wire \in [Loop -> Seq(Frame)] /\ stage \in [Task -> Stage]
      /\ link \in SUBSET Loop /\ replying \in SUBSET Loop
  BY DEF ExchangeInv, TypeOK
<1>2. ASSUME NEW t \in Task, NEW n \in Node, NEW target \in Node \cup {None},
             NEW peer \in Node \cup {None}, NEW inside \in Loop \cup {None},
             NEW for \in Task \cup {None}, SendTask(n, t, target, peer, inside, for),
             for # None => stage[for] # "new"
      PROVE  ExchangeInv' /\ CallStep
  BY <1>2, SendTaskStep DEF CallStep
<1>3. ASSUME NEW n \in Node, NEW t \in Task, NEW to, Cast(n, t, to)
      PROVE  ExchangeInv' /\ CallStep
  BY <1>3, CastStep DEF CallStep
<1>4. ASSUME NEW t \in Task, Continues(t), UNCHANGED <<link, call, busy, replying>>, Shrinks
      PROVE  ExchangeInv' /\ CallStep
  <2>1. PICK s \in {"waiting", "succeeding", "failing", "success", "error"} :
          stage' = [stage EXCEPT ![t] = s] /\ (s \in {"succeeding", "success"} => Executed(t))
    BY <1>4 DEF Continues
  <2>2. s \in Stage /\ UNCHANGED <<ran, unrun>> /\ stage[t] \notin {"new", "cast"}
    BY <1>4 DEF Continues, Stage
  <2>3. /\ stage' \in [Task -> Stage]
        /\ \A r \in Task : \/ stage'[r] = stage[r]
                           \/ /\ stage[r] \notin {"new", "cast"} /\ stage'[r] \notin {"new", "cast"}
                              /\ stage'[r] \in {"succeeding", "success"} => Executed(r)
    BY <1>1, <2>1, <2>2
  <2>4. ExchangeInv'
    BY <1>1, <1>4, <2>2, <2>3, ProgressStep
  <2> QED BY <1>4, <2>4 DEF CallStep
<1>5. ASSUME UNCHANGED <<stage, call, busy, ran, unrun>>, link' \in SUBSET Loop,
             replying' \in SUBSET Loop, Shrinks
      PROVE  ExchangeInv' /\ CallStep
  BY <1>1, <1>5, ProgressStep DEF CallStep
<1>6. ASSUME NEW t \in Task, Drained(t) \/ SendRaises(t) \/ Resume(t) \/ Timeout(t)
      PROVE  ExchangeInv' /\ CallStep
  <2>1. UNCHANGED <<link, wire, call, busy, replying, ran, unrun>>
    BY <1>6 DEF Drained, SendRaises, Resume, Timeout
  <2>2. stage[t] = "succeeding" => Executed(t)
    BY DEF ExchangeInv, ResultInv
  <2>3. Continues(t)
    BY <1>1, <1>6, <2>1, <2>2 DEF Drained, SendRaises, Resume, Timeout, Due, Continues
  <2> QED BY <1>1, <1>4, <2>1, <2>3, UnchangedShrinks
<1>7. ASSUME NEW l \in Loop, Handled(l)
      PROVE  ExchangeInv' /\ CallStep
  <2>1. PICK t \in Task, ok \in BOOLEAN :
          /\ busy[l] = t /\ Answered(l, ok) /\ UNCHANGED <<link, stage, call>>
          /\ \/ ran' = ran \cup {<<t, l[1]>>} /\ UNCHANGED unrun
             \/ unrun' = unrun \cup {<<t, l[1]>>} /\ UNCHANGED ran
             \/ UNCHANGED <<ran, unrun>> /\ ~ok
    BY <1>7 DEF Handled
  <2>2. /\ ran' \in {ran, ran \cup {<<t, l[1]>>}} /\ unrun' \in {unrun, unrun \cup {<<t, l[1]>>}}
        /\ Done' = Done \cup {<<t, l[1]>>} \/ (Done' = Done /\ ~ok)
    BY <2>1 DEF Done
  <2>3. ExchangeInv'
    BY <2>1, <2>2, AnswerStep
  <2> QED BY <1>7, <2>3 DEF CallStep
<1>8. ASSUME NEW l \in Loop, TakeTask(l)
      PROVE  ExchangeInv' /\ CallStep
  BY <1>8, TakeTaskStep DEF TakeTask, CallStep
<1>9. ASSUME NEW l \in Loop, OnResult(l)
      PROVE  ExchangeInv' /\ CallStep
  <2> DEFINE f == Head(wire[l])
  <2>1. /\ wire[l] # <<>> /\ wire' = [wire EXCEPT ![l] = Tail(@)] /\ f.type = "RESULT"
        /\ UNCHANGED <<link, call, busy, replying, ran, unrun>>
    BY <1>9 DEF OnResult, Read
  <2>2. Shrinks /\ f \in Frame /\ f \in Unread(wire, l)
    BY <1>1, <2>1, ReadShrinks
  <2>3. PICK t \in Task : t = f.id
    BY <2>2, FrameTypes
  <2>4. f.ok \in BOOLEAN /\ (f.ok => f = Success(t))
    BY <2>1, <2>2, <2>3, FrameTypes
  <2>5. f.ok => Executed(t)
    BY <2>2, <2>4 DEF ExchangeInv, ResultInv
  <2>6. CASE stage[t] = "waiting"
    <3>1. stage' = [stage EXCEPT ![t] = IF f.ok THEN "succeeding" ELSE "failing"]
      BY <1>9, <2>3, <2>6 DEF OnResult
    <3>2. Continues(t)
      BY <2>1, <2>5, <2>6, <3>1 DEF Continues
    <3> QED BY <1>4, <2>1, <2>2, <3>2
  <2>7. CASE stage[t] # "waiting"
    <3>1. UNCHANGED stage
      BY <1>9, <2>3, <2>7 DEF OnResult
    <3> QED BY <1>1, <1>5, <2>1, <2>2, <3>1
  <2> QED BY <2>6, <2>7
<1>10. ASSUME NEW l \in Loop, Drop(l) \/ Lose(l)
       PROVE  ExchangeInv' /\ CallStep
  <2>1. UNCHANGED <<stage, call, busy, replying, ran, unrun>> /\ link' \in SUBSET Loop
    BY <1>1, <1>10 DEF Drop, Lose
  <2>2. Shrinks
    BY <1>1, <1>10, ReadShrinks, LoseShrinks DEF Drop
  <2> QED BY <1>1, <1>5, <2>1, <2>2
<1>13. ASSUME NEW l \in Loop, Replied(l)
       PROVE  ExchangeInv' /\ CallStep
  BY <1>1, <1>5, <1>13, UnchangedShrinks DEF Replied
<1>11. CASE UNCHANGED vars
  BY <1>1, <1>5, <1>11, UnchangedShrinks DEF vars
<1>12. CASE Next
  <2>1. CASE \E t \in Task :
               \/ \E n \in Node, target \in Node \cup {None} : AppCall(n, t, target)
               \/ \E l \in Loop : \/ \E target \in Node \cup {None} : HandlerCall(l, t, target)
                                  \/ Forward(l, t)
    BY <1>1, <1>2, <2>1, CallsAreSendTask
  <2>2. CASE \E n \in Node, t \in Task, to \in SUBSET Node : Cast(n, t, to)
    BY <1>3, <2>2
  <2>3. CASE \E l \in Loop : Answer(l) \/ AnswerUnregistered(l) \/ AnswerRelay(l)
    BY <1>1, <1>7, <2>3, HandledAnswers
  <2>4. CASE \E l \in Loop : TakeTask(l) \/ OnResult(l) \/ Replied(l) \/ Drop(l) \/ Lose(l)
    BY <1>8, <1>9, <1>10, <1>13, <2>4
  <2>5. CASE \E t \in Task : Drained(t) \/ SendRaises(t) \/ Resume(t) \/ Timeout(t)
    BY <1>6, <2>5
  <2> QED BY <1>12, <2>1, <2>2, <2>3, <2>4, <2>5 DEF Next
<1> QED BY <1>11, <1>12

LEMMA InitExchangeInv == Init => ExchangeInv
<1> SUFFICES ASSUME Init PROVE ExchangeInv
  OBVIOUS
<1> USE DEF Init
<1>1. None \notin Task
  BY NoneIsNoNode DEF Task
<1>2. TypeOK
  BY LinksAreSymmetric DEF TypeOK, Stage, Loop
<1>3. \A l \in Loop : /\ Unread(wire, l) = {}
                      /\ \A t \in Task : Copies(wire, l, t) = {}
  <2>1. \A l \in Loop : wire[l] = <<>>
    OBVIOUS
  <2>2. DOMAIN <<>> = {}
    OBVIOUS
  <2> QED BY <2>1, <2>2 DEF Unread, Copies
<1>4. \A l \in Loop, t \in Task : Single(wire, l, t) /\ busy[l] # t
  BY <1>1, <1>3 DEF Single
<1>5. CalledInv /\ ExecutorInv
  BY DEF CalledInv, ExecutorInv, Done
<1>6. SenderInv
  BY <1>3, <1>4 DEF SenderInv
<1>7. OnceInv
  BY <1>3, <1>4 DEF OnceInv
<1>8. ResultInv
  BY <1>3 DEF ResultInv
<1> QED BY <1>2, <1>5, <1>6, <1>7, <1>8 DEF ExchangeInv

\* Whatever is lost, late or repeated, a task is only where it was sent, there once,
\* and a success that is under way was executed.
THEOREM ExchangeInvariant == Spec => []ExchangeInv
<1>1. ExchangeInv /\ [Next]_vars => ExchangeInv'
  BY Steps
<1> QED BY <1>1, InitExchangeInv, PTL DEF Spec

\* The variables of the exchange keep their types.
THEOREM TaskTypes == Spec => []TypeOK
<1>1. ExchangeInv => TypeOK
  BY DEF ExchangeInv
<1> QED BY <1>1, ExchangeInvariant, PTL

\* A TASK is only with the peer that its call was sent to, and a node has it once at
\* most, unread, with the handler, or executed (HeldOnce).
THEOREM TasksAreHeldOnce == Spec => []HeldOnce
<1>1. ExchangeInv => HeldOnce
  <2> SUFFICES ASSUME ExchangeInv, NEW l \in Loop, NEW t \in Task
               PROVE  /\ Single(wire, l, t)
                      /\ Copies(wire, l, t) # {} => busy[l] # t
                      /\ Copies(wire, l, t) # {} \/ busy[l] = t =>
                           /\ <<t, l[1]>> \notin Done
                           /\ l[2] = call[t].by /\ (stage[t] # "cast" => l[1] = call[t].to)
    BY DEF HeldOnce, Single, Copies, TaskMsg, Done
  <2> QED BY DEF ExchangeInv, SenderInv, OnceInv
<1> QED BY <1>1, ExchangeInvariant, PTL

-----------------------------------------------------------------------------
\* Refinement

Abstract(s) == IF s \in {"sending", "waiting", "succeeding", "failing"} THEN "open" ELSE s

\* A step that gives one task a stage gives its call the state that stage is of.
LEMMA StateOfStage ==
  ASSUME stage \in [Task -> Stage], NEW t \in Task, NEW s \in Stage,
         stage' = [stage EXCEPT ![t] = s]
  PROVE  State' = [State EXCEPT ![t] = Abstract(s)]
<1>1. State = [r \in Task |-> Abstract(stage[r])] /\ State' = [r \in Task |-> Abstract(stage'[r])]
  BY DEF State, Abstract
<1>2. \A r \in Task : stage'[r] = IF r = t THEN s ELSE stage[r]
  OBVIOUS
<1> QED BY <1>1, <1>2

LEMMA BeginsIsBegin ==
  ASSUME TypeOK, NEW t \in Task, Begins(t)
  PROVE  Calls!Begin(t)
<1>1. PICK s \in {"waiting", "sending", "error", "cast"} : stage' = [stage EXCEPT ![t] = s]
  BY DEF Begins
<1>2. s \in Stage /\ Abstract(s) \in {"open", "error", "cast"}
  BY DEF Stage, Abstract
<1>3. State[t] = "new"
  BY DEF Begins, Fresh, State
<1>4. State' = [State EXCEPT ![t] = Abstract(s)]
  BY <1>1, <1>2, StateOfStage DEF TypeOK
<1> QED BY <1>2, <1>3, <1>4 DEF Begins, Calls!Begin

LEMMA ContinuesIsEnd ==
  ASSUME TypeOK, NEW t \in Task, Continues(t)
  PROVE  Calls!Succeed(t) \/ Calls!Fail(t) \/ UNCHANGED <<State, ran, unrun>>
<1>1. PICK s \in {"waiting", "succeeding", "failing", "success", "error"} :
        stage' = [stage EXCEPT ![t] = s] /\ (s \in {"succeeding", "success"} => Executed(t))
  BY DEF Continues
<1>2. s \in Stage
  BY DEF Stage
<1>3. State[t] = "open" /\ UNCHANGED <<ran, unrun>>
  BY DEF Continues, State, TypeOK, Stage
<1>4. State' = [State EXCEPT ![t] = Abstract(s)]
  BY <1>1, <1>2, StateOfStage DEF TypeOK
<1>5. CASE s = "success"
  <2>1. Abstract(s) = "success"
    BY <1>5 DEF Abstract
  <2> QED BY <1>1, <1>3, <1>4, <1>5, <2>1 DEF Calls!Succeed, Executed, Done
<1>6. CASE s = "error"
  <2>1. Abstract(s) = "error"
    BY <1>6 DEF Abstract
  <2> QED BY <1>3, <1>4, <2>1 DEF Calls!Fail
<1>7. CASE s \in {"waiting", "succeeding", "failing"}
  <2>1. Abstract(s) = State[t]
    BY <1>3, <1>7 DEF Abstract
  <2>2. State = [r \in Task |-> State[r]]
    BY DEF State
  <2> QED BY <1>3, <1>4, <2>1, <2>2
<1> QED BY <1>5, <1>6, <1>7

LEMMA HandledIsHandle ==
  ASSUME ExchangeInv, NEW l \in Loop, Handled(l)
  PROVE  (\E t \in Task : Calls!Handle(t, l[1])) \/ UNCHANGED <<State, ran, unrun>>
<1>1. PICK t \in Task : /\ busy[l] = t /\ UNCHANGED <<link, stage, call>>
                        /\ \/ ran' = ran \cup {<<t, l[1]>>} /\ UNCHANGED unrun
                           \/ unrun' = unrun \cup {<<t, l[1]>>} /\ UNCHANGED ran
                           \/ UNCHANGED <<ran, unrun>>
  BY DEF Handled
<1>2. UNCHANGED State
  BY <1>1 DEF State
<1>3. CASE UNCHANGED <<ran, unrun>>
  BY <1>2, <1>3
<1>4. CASE \/ ran' = ran \cup {<<t, l[1]>>} /\ UNCHANGED unrun
           \/ unrun' = unrun \cup {<<t, l[1]>>} /\ UNCHANGED ran
  <2>1. l[1] \in Node
    BY DEF Loop
  <2>2. stage[t] # "new" /\ (stage[t] # "cast" => l[1] = call[t].to)
    BY <1>1 DEF ExchangeInv, SenderInv
  <2>3. <<t, l[1]>> \notin Done
    BY <1>1 DEF ExchangeInv, OnceInv
  <2>4. \A m \in Node : <<t, m>> \in Done /\ stage[t] # "cast" => m = call[t].to
    BY DEF ExchangeInv, ExecutorInv
  <2>5. stage[t] # "cast" => \A m \in Node : <<t, m>> \notin Done
    BY <2>2, <2>3, <2>4
  <2>6. State[t] # "new" /\ (State[t] # "cast" => stage[t] # "cast")
    BY <2>2 DEF State
  <2> QED BY <1>2, <1>4, <2>3, <2>5, <2>6 DEF Calls!Handle, Done
<1> QED BY <1>1, <1>3, <1>4

\* The exchange of tasks and results implements the remote call: a node executes a
\* task at most once, a call is executed by one node only and ends once, and only
\* one that was executed, or met a node without a handler, ends in success
\* (ImplementsRemoteCall).  Nothing in a TASK
\* tells a second copy from the first, so this needs OnceInv: a node has it once at
\* most, unread, handled or executed.  SenderInv and ExecutorInv tie a call to the
\* peer it was sent to, and ResultInv a reported success to an execution.
THEOREM ImplementsCalls == Spec => ImplementsRemoteCall
<1>1. Init => Calls!Init
  BY DEF Init, State, Calls!Init
<1>2. ExchangeInv /\ [Next]_vars => [Calls!Next]_(Calls!vars)
  <2> SUFFICES ASSUME ExchangeInv, [Next]_vars
               PROVE  Calls!Next \/ UNCHANGED <<State, ran, unrun>>
    BY DEF Calls!vars
  <2>1. CallStep /\ TypeOK
    BY Steps DEF ExchangeInv
  <2>2. CASE \E t \in Task : Begins(t) \/ Continues(t)
    BY <2>1, <2>2, BeginsIsBegin, ContinuesIsEnd DEF Calls!Next
  <2>3. CASE \E l \in Loop : Handled(l)
    <3>1. \A l \in Loop : l[1] \in Node
      BY DEF Loop
    <3> QED BY <2>3, <3>1, HandledIsHandle DEF Calls!Next
  <2>4. CASE UNCHANGED <<stage, call, ran, unrun>>
    BY <2>4 DEF State
  <2> QED BY <2>1, <2>2, <2>3, <2>4 DEF CallStep
<1> QED BY <1>1, <1>2, ExchangeInvariant, PTL DEF Spec, ImplementsRemoteCall, Calls!Spec

-----------------------------------------------------------------------------
\* Nobody waits in a circle

\* Ids are taken in their order; a call that a handler makes has a later id than
\* the task at hand, and waits for its result.
OrderInv ==
  /\ \A s, t \in Task : s < t /\ stage[t] # "new" => stage[s] # "new"
  /\ \A t \in Task : call[t] # None =>
       /\ stage[t] # "new"
       /\ call[t].for # None => call[t].for < t
       /\ call[t].inside # None => stage[t] # "cast"

LEMMA NextOrderInv ==
  ASSUME ExchangeInv, OrderInv, CallStep
  PROVE  OrderInv'
<1>1. /\ stage \in [Task -> Stage] /\ call \in [Task -> Call \cup {None}]
      /\ Task \subseteq Nat /\ None \notin Task
  BY TaskBound, NoneIsNoNode DEF ExchangeInv, TypeOK, Task
<1>2. CASE \E t \in Task : Begins(t)
  <2>1. PICK t \in Task : Begins(t)
    BY <1>2
  <2>2. PICK s \in {"waiting", "sending", "error", "cast"}, c \in Call :
          /\ stage' = [stage EXCEPT ![t] = s] /\ call' = [call EXCEPT ![t] = c]
          /\ c.for # None => stage[c.for] # "new"
          /\ s = "cast" => c.inside = None
    BY <2>1 DEF Begins
  <2>3. /\ stage'[t] = s /\ s # "new" /\ call'[t] = c
        /\ \A r \in Task : r # t => stage'[r] = stage[r] /\ call'[r] = call[r]
    BY <1>1, <2>2
  <2>4. stage[t] = "new" /\ \A r \in Task : stage[r] = "new" => t <= r
    BY <2>1 DEF Begins, Fresh
  <2>5. ASSUME NEW r \in Task, NEW u \in Task, r < u, stage'[u] # "new"
        PROVE  stage'[r] # "new"
    <3>1. CASE r = t
      BY <2>3, <3>1
    <3>2. CASE r # t /\ u = t
      BY <1>1, <2>3, <2>4, <2>5, <3>2
    <3>3. CASE r # t /\ u # t
      BY <2>3, <2>5, <3>3 DEF OrderInv
    <3> QED BY <3>1, <3>2, <3>3
  <2>6. c.for # None => c.for < t
    <3>1. c.for \in Task \cup {None}
      BY DEF Call
    <3>2. ASSUME NEW r \in Task, stage[r] # "new" PROVE r < t
      BY <1>1, <2>4, <3>2 DEF OrderInv
    <3> QED BY <2>2, <3>1, <3>2
  <2>7. ASSUME NEW r \in Task, call'[r] # None
        PROVE  /\ stage'[r] # "new"
               /\ call'[r].for # None => call'[r].for < r
               /\ call'[r].inside # None => stage'[r] # "cast"
    <3>1. CASE r = t
      BY <2>2, <2>3, <2>6, <3>1
    <3>2. CASE r # t
      BY <2>3, <2>7, <3>2 DEF OrderInv
    <3> QED BY <3>1, <3>2
  <2> QED BY <2>5, <2>7 DEF OrderInv
<1>3. CASE \E t \in Task : Continues(t)
  <2>1. PICK t \in Task : Continues(t)
    BY <1>3
  <2>2. PICK s \in {"waiting", "succeeding", "failing", "success", "error"} :
          stage' = [stage EXCEPT ![t] = s]
    BY <2>1 DEF Continues
  <2>3. \A r \in Task : /\ stage'[r] # "new" <=> stage[r] # "new"
                        /\ stage'[r] # "cast" <=> stage[r] # "cast"
    BY <1>1, <2>1, <2>2 DEF Continues
  <2>4. UNCHANGED call
    BY <2>1 DEF Continues
  <2> QED BY <2>3, <2>4 DEF OrderInv
<1>4. CASE UNCHANGED <<stage, call>>
  BY <1>4 DEF OrderInv
<1> QED BY <1>2, <1>3, <1>4 DEF CallStep, Handled

\* A set of naturals that is not empty has a least element.
LEMMA LeastTask ==
  ASSUME NEW S \in SUBSET Nat, S # {}
  PROVE  \E m \in S : \A k \in S : m <= k
<1>1. PICK R : R = {p \in Nat \X Nat : p[1] < p[2]}
  OBVIOUS
<1>2. R = OpToRel(<, Nat)
  BY <1>1 DEF OpToRel
<1>3. IsWellFoundedOn(R, Nat)
  BY <1>2, NatLessThanWellFounded
<1>4. PICK m \in S : \A k \in S : <<k, m>> \notin R
  BY <1>3, WFMin
<1>5. \A k \in S : ~(k < m)
  BY <1>1, <1>4
<1> QED BY <1>5

\* The write of t's TASK waits for a read loop that awaits a handler.
Jammed(t) == stage[t] = "sending" /\ HeldUp(<<call[t].to, call[t].by>>)

\* The call of t needs no handler's end to go on: its write waits for a read loop
\* that reads, its caller resumes, or its time-out is due.
GoesOn(t) ==
  \/ stage[t] = "sending" /\ ~HeldUp(<<call[t].to, call[t].by>>)
  \/ stage[t] \in {"succeeding", "failing"} \/ Due(t)

\* A call that is open goes on, or one that was made before it does; or its write
\* waits for a read loop that is held up.
LEMMA OpenCallsGoOn ==
  ASSUME ExchangeInv, OrderInv, NEW t \in Task,
         stage[t] \in {"sending", "waiting", "succeeding", "failing"}
  PROVE  Jammed(t) \/ \E s \in 1 .. t : s \in Task /\ GoesOn(s)
<1> DEFINE S == {s \in Task : s <= t /\ stage[s] = "waiting"}
<1>1. Task \subseteq Nat /\ (\A s \in Task : s \in 1 .. s) /\ None \notin Task
  BY TaskBound, NoneIsNoNode DEF Task
<1>2. CASE stage[t] # "waiting"
  BY <1>1, <1>2 DEF GoesOn, Jammed
<1>3. CASE stage[t] = "waiting"
  <2>1. S \in SUBSET Nat /\ t \in S
    <3>1. t <= t
      BY <1>1
    <3> QED BY <1>1, <1>3, <3>1
  <2>2. PICK s \in S : \A r \in S : s <= r
    BY <2>1, LeastTask
  <2>3. s \in Task /\ s \in 1 .. t /\ stage[s] = "waiting"
    BY <1>1 DEF Task
  <2>4. call[s] \in Call
    BY <2>3 DEF ExchangeInv, CalledInv
  <2>5. call[s] # None /\ call[s].for # None => call[s].for \in Task /\ call[s].for < s
    <3>1. call[s].for \in Task \cup {None}
      BY <2>4 DEF Call
    <3> QED BY <2>3, <3>1 DEF OrderInv
  <2>6. call[s] # None /\ call[s].for # None => stage[call[s].for] # "waiting"
    <3> SUFFICES ASSUME call[s] # None, call[s].for # None, stage[call[s].for] = "waiting"
                 PROVE  FALSE
      OBVIOUS
    <3> DEFINE r == call[s].for
    <3>1. r \in Task /\ r < s /\ stage[r] = "waiting"
      BY <2>5
    <3> HIDE DEF r
    <3>2. r \in S
      BY <1>1, <2>2, <3>1
    <3> QED BY <1>1, <2>2, <3>1, <3>2
  <2> QED BY <2>3, <2>6 DEF GoesOn, Due
<1> QED BY <1>2, <1>3

LEMMA InitOrderInv == Init => OrderInv
BY DEF Init, OrderInv

\* Read loops never wait for each other's results in a circle: where a handler waits
\* for a call of its own, that call, or one made before it, goes on without a reply
\* from anyone; all that can keep it is a write that waits for a read loop which is
\* held up itself, which nothing bounds.  It is the order of the ids that rules a
\* circle of results out: the oldest of the calls that wait was made for no call
\* that waits, so its time-out is the next to be due.
THEOREM ResultsAreAwaitedInNoCircle ==
  Spec => [](\A l \in Loop : Awaiting(l) =>
               \E t \in Made(l) : Jammed(t) \/ \E s \in 1 .. t : s \in Task /\ GoesOn(s))
<1> DEFINE Inv == ExchangeInv /\ OrderInv
<1>1. Init => Inv
  BY InitExchangeInv, InitOrderInv
<1>2. Inv /\ [Next]_vars => Inv'
  BY Steps, NextOrderInv
<1>3. ASSUME Inv, NEW l \in Loop, Awaiting(l)
      PROVE  \E t \in Made(l) : Jammed(t) \/ \E s \in 1 .. t : s \in Task /\ GoesOn(s)
  <2>1. PICK t \in Made(l) : stage[t] \notin {"success", "error"}
    BY <1>3 DEF Awaiting
  <2>2. t \in Task /\ call[t] # None /\ call[t].inside = l
    BY DEF Made
  <2>3. l # None
    BY NoneIsNoNode DEF Loop
  <2>4. stage[t] \notin {"new", "cast"}
    BY <1>3, <2>2, <2>3 DEF OrderInv
  <2>5. stage[t] \in {"sending", "waiting", "succeeding", "failing"}
    BY <1>3, <2>1, <2>2, <2>4 DEF ExchangeInv, TypeOK, Stage
  <2> QED BY <1>3, <2>2, <2>5, OpenCallsGoOn
<1> HIDE DEF Inv
<1>4. Inv => \A l \in Loop : Awaiting(l) =>
               \E t \in Made(l) : Jammed(t) \/ \E s \in 1 .. t : s \in Task /\ GoesOn(s)
  BY <1>3
<1> QED BY <1>1, <1>2, <1>4, PTL DEF Spec
=============================================================================
