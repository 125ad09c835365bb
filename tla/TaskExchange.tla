---------------------------- MODULE TaskExchange ----------------------------
(* Tasks and results between the nodes of py/elo/node.py: send_task up to    *)
(* its queue, the handler of a TASK, the relay of examples/python/tracker.py *)
(* and the futures that RESULTs resolve.                                     *)
(*                                                                           *)
(* Each node has one read loop per connection.  It awaits the handler of a   *)
(* TASK before it reads on, and that handler may make calls of its own.      *)
EXTENDS Naturals, Sequences, FiniteSets

CONSTANTS
  Node,
  Late,      \* the nodes whose application may not have called on_task yet
  Relay,     \* the nodes that run tracker.py and offer "relay"
  Links,     \* the connections at the start, a symmetric relation
  Asks,      \* <<caller, target>> of the calls that applications and handlers
             \* make; the target may be None, the empty string
  MaxTask,   \* bound: the TASK messages ever made
  Faults,    \* which failures the environment may inject
  None

ASSUME RelaysAreNodes == Relay \subseteq Node
ASSUME LateAreNodes == Late \subseteq Node
ASSUME LinksAreSymmetric ==
  Links \subseteq Node \X Node /\ \A l \in Links : <<l[2], l[1]>> \in Links
ASSUME AsksType == Asks \subseteq Node \X (Node \cup {None})
ASSUME TaskBound == MaxTask \in Nat
ASSUME FaultsAreKnown == Faults \subseteq {"raise", "pressure", "limit", "lost"}
ASSUME NoneIsNoNode == None \notin Node \cup Node \X Node \cup 1 .. MaxTask

Task == 1 .. MaxTask   \* task ids, in the order in which they are made
Loop == Node \X Node   \* <<n, m>>: the read loop of n on its connection with m

Stage == {"new",
          "sending",     \* written, but send_to waits for the socket to drain
          "waiting",     \* its future is registered in _pending_results
          "succeeding", "failing",  \* the future is done, the caller not resumed
          "success", "error",
          "cast"}        \* sent by send_task_async

Call == [by : Node, target : Node \cup {None}, to : Node \cup {None},
         inside : Loop \cup {None}, for : Task \cup {None}]
Frame == [type : {"TASK"}, id : Task] \cup [type : {"RESULT"}, id : Task, ok : BOOLEAN]

VARIABLES
  link,    \* the connections, both directions
  wire,    \* per read loop: the frames sent to it and not read yet
  stage,   \* per task: how far its call has come
  call,    \* per task made: who made it, for whom, to whom it was sent, and the
           \* read loop and the task whose handler made it
  busy,    \* per read loop: the task whose handler it awaits
  replying,\* the read loops whose handler waits for its RESULT to drain
  ran,     \* (history) <<task, node>>: who has executed what
  unrun    \* (history) <<task, node>>: who had no handler to execute what

vars == <<link, wire, stage, call, busy, replying, ran, unrun>>

TypeOK ==
  /\ link \in SUBSET Loop
  /\ wire \in [Loop -> Seq(Frame)]
  /\ stage \in [Task -> Stage]
  /\ call \in [Task -> Call \cup {None}]
  /\ busy \in [Loop -> Task \cup {None}]
  /\ replying \in SUBSET Loop
  /\ ran \in SUBSET (Task \X Node) /\ unrun \in SUBSET (Task \X Node)

Init ==
  /\ link = Links
  /\ wire = [l \in Loop |-> <<>>]
  /\ stage = [t \in Task |-> "new"]
  /\ call = [t \in Task |-> None]
  /\ busy = [l \in Loop |-> None]
  /\ replying = {}
  /\ ran = {} /\ unrun = {}

-----------------------------------------------------------------------------
Linked(n) == {m \in Node : <<n, m>> \in link}
Fresh(t) == stage[t] = "new" /\ \A s \in Task : stage[s] = "new" => t <= s

\* send_to, or broadcast, of one frame: lost where there is no connection.
Sent(n, to, frame) ==
  [l \in Loop |-> IF l[2] = n /\ l[1] \in to /\ l \in link
                  THEN Append(wire[l], frame) ELSE wire[l]]

\* Whom send_task sends to.  A named target that is not connected is left to a
\* relay; for an empty one it is whoever find_peer_for or the QUERY names, if
\* this node has a connection under that very address.
PeersFor(n, target) ==
  IF target = None THEN Linked(n) \cup {None}
  ELSE IF target \in Linked(n) THEN {target}
  ELSE IF Linked(n) \cap Relay = {} THEN {None}
  ELSE Linked(n) \cap Relay

\* The payload of this TASK asks the receiver to relay it to the target.
Relayed(t) ==
  call[t] # None /\ None \notin {call[t].target, call[t].to} /\ call[t].target # call[t].to

\* The bound MaxTask never keeps a relay from passing a task on: ids are left for
\* those that have not.
Room(ids) ==
  Cardinality({t \in Task : stage[t] = "new"}) >=
    ids + Cardinality({t \in Task : Relayed(t) /\
                         \A s \in Task : call[s] # None => call[s].for # t})

\* The TASK is written; the future is registered at once, or later when the
\* write has to wait.
SendTask(n, t, target, peer, inside, for) ==
  /\ Fresh(t)
  /\ call' = [call EXCEPT ![t] = [by |-> n, target |-> target, to |-> peer,
                                  inside |-> inside, for |-> for]]
  /\ \/ /\ peer = None
        /\ stage' = [stage EXCEPT ![t] = "error"]
        /\ UNCHANGED wire
     \/ /\ peer # None
        /\ wire' = Sent(n, {peer}, [type |-> "TASK", id |-> t])
        /\ \E s \in {"waiting"} \cup (IF "pressure" \in Faults THEN {"sending"} ELSE {}) :
             stage' = [stage EXCEPT ![t] = s]
  /\ UNCHANGED <<link, busy, replying, ran, unrun>>

\* send_task, and send_task_via_tracker, called by the application.
AppCall(n, t, target) ==
  /\ <<n, target>> \in Asks /\ Room(IF target \in Linked(n) \cup {None} THEN 1 ELSE 2)
  /\ \E peer \in PeersFor(n, target) : SendTask(n, t, target, peer, None, None)

\* send_task_async: to one peer, or to all of them.
Cast(n, t, to) ==
  /\ Fresh(t) /\ <<n, None>> \in Asks /\ Room(1)
  /\ to = Linked(n) \/ \E m \in Linked(n) : to = {m}
  /\ call' = [call EXCEPT ![t] = [by |-> n, target |-> None, to |-> None,
                                  inside |-> None, for |-> None]]
  /\ stage' = [stage EXCEPT ![t] = "cast"]
  /\ wire' = Sent(n, to, [type |-> "TASK", id |-> t])
  /\ UNCHANGED <<link, busy, replying, ran, unrun>>

\* A bug: a write that had to wait is made once more.
DrainedWritesAgain(t) ==
  /\ stage[t] = "sending"
  /\ stage' = [stage EXCEPT ![t] = "waiting"]
  /\ wire' = Sent(call[t].by, {call[t].to}, [type |-> "TASK", id |-> t])
  /\ UNCHANGED <<link, call, busy, replying, ran, unrun>>

\* send_to returns, and the future is registered.  No time-out bounds it: it is
\* sure to return only when the peer has read what there is.
Drained(t) ==
  /\ stage[t] = "sending"
  /\ stage' = [stage EXCEPT ![t] = "waiting"]
  /\ UNCHANGED <<link, wire, call, busy, replying, ran, unrun>>

\* send_to raises: the connection was lost meanwhile.
SendRaises(t) ==
  /\ stage[t] = "sending" /\ <<call[t].by, call[t].to>> \notin link
  /\ stage' = [stage EXCEPT ![t] = "error"]
  /\ UNCHANGED <<link, wire, call, busy, replying, ran, unrun>>

-----------------------------------------------------------------------------
\* A TASK is handled

\* The read loop awaits a handler, at work or about to have its RESULT written.
HeldUp(l) == busy[l] # None \/ l \in replying

Read(l, type) ==
  /\ ~HeldUp(l) /\ wire[l] # <<>> /\ Head(wire[l]).type = type
  /\ wire' = [wire EXCEPT ![l] = Tail(@)]

TakeTask(l) ==
  /\ Read(l, "TASK")
  /\ busy' = [busy EXCEPT ![l] = Head(wire[l]).id]
  /\ UNCHANGED <<link, stage, call, replying, ran, unrun>>

\* The calls that the handler of l has made for the task at hand.
Made(l) == {t \in Task : call[t] # None /\ call[t].inside = l /\ call[t].for = busy[l]}
Awaiting(l) == \E t \in Made(l) : stage[t] \notin {"success", "error"}
Relaying(l) == l[1] \in Relay /\ Relayed(busy[l])

\* The handler of an application calls send_task, one call at a time.
HandlerCall(l, t, target) ==
  /\ busy[l] # None /\ ~Relaying(l) /\ ~Awaiting(l)
  /\ <<l[1], target>> \in Asks
  /\ Room(IF target \in Linked(l[1]) \cup {None} THEN 1 ELSE 2)
  /\ \E peer \in PeersFor(l[1], target) : SendTask(l[1], t, target, peer, l, busy[l])

\* The handler of the tracker passes the task on: to the target if it knows it,
\* or else to some other peer, which may be the caller.
Forward(l, t) ==
  LET target == call[busy[l]].target
      known == Linked(l[1])
  IN /\ busy[l] # None /\ Relaying(l) /\ Made(l) = {}
     /\ \E peer \in IF target \in known THEN {target} ELSE known :
          SendTask(l[1], t, peer, peer, l, busy[l])

\* The RESULT is written; that write may have to wait as well.
Answered(l, ok) ==
  /\ wire' = Sent(l[1], {l[2]}, [type |-> "RESULT", id |-> busy[l], ok |-> ok])
  /\ busy' = [busy EXCEPT ![l] = None]
  /\ replying' \in {replying} \cup
       (IF "pressure" \in Faults /\ l \in link THEN {replying \cup {l}} ELSE {})

\* A bug: a handler that raised is reported as a success.
AnswerAlwaysOk(l) ==
  /\ busy[l] # None /\ ~Relaying(l) /\ ~Awaiting(l)
  /\ \E fails \in {FALSE} \cup (IF "raise" \in Faults THEN {TRUE} ELSE {}) :
       /\ ran' \in {ran \cup {<<busy[l], l[1]>>}} \cup (IF fails THEN {ran} ELSE {})
       /\ Answered(l, TRUE)
  /\ UNCHANGED <<link, stage, call, unrun>>

\* The handler returns; or something raised on the way, the execution done, half
\* done or not begun (a bad signature).
Answer(l) ==
  /\ busy[l] # None /\ ~Relaying(l) /\ ~Awaiting(l)
  /\ \E fails \in {FALSE} \cup (IF "raise" \in Faults THEN {TRUE} ELSE {}) :
       /\ ran' \in {ran \cup {<<busy[l], l[1]>>}} \cup (IF fails THEN {ran} ELSE {})
       /\ Answered(l, ~fails)
  /\ UNCHANGED <<link, stage, call, unrun>>

\* Nobody has called on_task: the answer is a success, and nothing was executed.
AnswerUnregistered(l) ==
  /\ busy[l] # None /\ l[1] \in Late /\ ~Relaying(l) /\ Made(l) = {}
  /\ unrun' = unrun \cup {<<busy[l], l[1]>>}
  /\ Answered(l, TRUE)
  /\ UNCHANGED <<link, stage, call, ran>>

\* The tracker answers with what became of the task it passed on.  Whatever that
\* is, also a time-out or that there was nobody to pass it to, is a success.
AnswerRelay(l) ==
  /\ busy[l] # None /\ Relaying(l) /\ ~Awaiting(l)
  /\ Made(l) # {} \/ Linked(l[1]) = {}
  /\ ran' = ran \cup {<<busy[l], l[1]>>}
  /\ Answered(l, TRUE)
  /\ UNCHANGED <<link, stage, call, unrun>>

\* The write of the RESULT returns, or raises, which is ignored; the read loop
\* goes on.
Replied(l) ==
  /\ l \in replying
  /\ replying' = replying \ {l}
  /\ UNCHANGED <<link, wire, stage, call, busy, ran, unrun>>

-----------------------------------------------------------------------------
\* A RESULT resolves a future

\* _on_result: a RESULT whose future is not registered yet, done or gone has no
\* effect.
OnResult(l) ==
  /\ Read(l, "RESULT")
  /\ LET f == Head(wire[l]) IN
       stage' = IF stage[f.id] = "waiting"
                THEN [stage EXCEPT ![f.id] = IF f.ok THEN "succeeding" ELSE "failing"]
                ELSE stage
  /\ UNCHANGED <<link, call, busy, replying, ran, unrun>>

Resume(t) ==
  /\ stage[t] \in {"succeeding", "failing"}
  /\ stage' = [stage EXCEPT ![t] = IF @ = "succeeding" THEN "success" ELSE "error"]
  /\ UNCHANGED <<link, wire, call, busy, replying, ran, unrun>>

\* A bug: only the calls of the application are limited to 30 seconds.
TimeoutOfAppCall(t) ==
  /\ stage[t] \in {"waiting", "succeeding", "failing"} /\ call[t].inside = None
  /\ stage' = [stage EXCEPT ![t] = "error"]
  /\ UNCHANGED <<link, wire, call, busy, replying, ran, unrun>>

\* A call that a handler makes for a task begins to wait later than the caller of
\* that task, unless the write of that one was held up.
Due(t) ==
  /\ stage[t] \in {"waiting", "succeeding", "failing"}
  /\ call[t] # None /\ call[t].for # None /\ stage[call[t].for] = "waiting"
       => "pressure" \in Faults

\* 30 seconds are over.  A future that was resolved just before may still lose.
Timeout(t) ==
  /\ Due(t)
  /\ stage' = [stage EXCEPT ![t] = "error"]
  /\ UNCHANGED <<link, wire, call, busy, replying, ran, unrun>>

-----------------------------------------------------------------------------
\* Failures

\* The rate limit of the receiver drops a frame.
Drop(l) ==
  /\ "limit" \in Faults
  /\ ~HeldUp(l) /\ wire[l] # <<>>
  /\ wire' = [wire EXCEPT ![l] = Tail(@)]
  /\ UNCHANGED <<link, stage, call, busy, replying, ran, unrun>>

\* A connection is lost, and all that was under way.  Handlers go on.
Lose(l) ==
  LET both == {l, <<l[2], l[1]>>} IN
  /\ "lost" \in Faults /\ l \in link
  /\ link' = link \ both
  /\ wire' = [k \in Loop |-> IF k \in both THEN <<>> ELSE wire[k]]
  /\ UNCHANGED <<stage, call, busy, replying, ran, unrun>>

-----------------------------------------------------------------------------
Next ==
  \/ \E n \in Node, t \in Task :
       \/ \E target \in Node \cup {None} : AppCall(n, t, target)
       \/ \E to \in SUBSET Node : Cast(n, t, to)
  \/ \E t \in Task : Drained(t) \/ SendRaises(t) \/ Resume(t) \/ Timeout(t)
  \/ \E l \in Loop, t \in Task :
       \/ \E target \in Node \cup {None} : HandlerCall(l, t, target)
       \/ Forward(l, t)
  \/ \E l \in Loop : \/ TakeTask(l) \/ OnResult(l) \/ Replied(l)
                    \/ Answer(l) \/ AnswerUnregistered(l) \/ AnswerRelay(l)
  \/ \E l \in Loop : Drop(l) \/ Lose(l)

Spec == Init /\ [][Next]_vars

\* A write is sure to drain when the peer has read all there is or the connection
\* is lost, but not before.
DrainedForSure(t) == Drained(t) /\ wire[<<call[t].to, call[t].by>>] = <<>>
RepliedForSure(l) == Replied(l) /\ wire[<<l[2], l[1]>>] = <<>>

\* A future resumes its caller, a timer expires, read loops read, and a handler
\* that waits for no call comes to its end.
Fairness ==
  /\ \A t \in Task : WF_vars(DrainedForSure(t) \/ Resume(t) \/ Timeout(t))
  /\ \A l \in Links :
       WF_vars(\/ TakeTask(l) \/ OnResult(l) \/ RepliedForSure(l)
               \/ Answer(l) \/ AnswerRelay(l) \/ \E t \in Task : Forward(l, t))

FairSpec == Spec /\ Fairness

-----------------------------------------------------------------------------
\* Properties

State == [t \in Task |->
  IF stage[t] \in {"sending", "waiting", "succeeding", "failing"} THEN "open" ELSE stage[t]]

Calls == INSTANCE RemoteCall WITH state <- State

\* Through late and dropped results, nested and relayed calls, lost connections:
\* a task is executed at most once per TASK sent, a call ends once, and only one
\* whose TASK was executed, or met a node without a handler, ends in success.
ImplementsRemoteCall == Calls!Spec

\* A TASK is only with the peer that its call was sent to, and a node has it once
\* at most: unread, with the handler, or executed (or left so).  Nothing in a TASK
\* would tell a second copy from the first, and no node remembers what it has
\* executed.
HeldOnce ==
  \A l \in Loop, t \in Task :
    LET unread == {i \in DOMAIN wire[l] : wire[l][i] = [type |-> "TASK", id |-> t]}
    IN /\ \A i, j \in unread : i = j
       /\ unread # {} => busy[l] # t
       /\ unread # {} \/ busy[l] = t =>
            /\ <<t, l[1]>> \notin ran \cup unrun
            /\ l[2] = call[t].by /\ (stage[t] # "cast" => l[1] = call[t].to)

\* The read loops that have to read on before a write of this one's handler is
\* sure to return; and handlers whose writes wait for each other's read loops.
WritesTo(l) ==
  (IF l \in replying THEN {<<l[2], l[1]>>} ELSE {})
    \cup {<<call[t].to, l[1]>> : t \in {u \in Made(l) : stage[u] = "sending"}}
WritesInACircle ==
  \E S \in SUBSET link \ {{}} : \A l \in S : \E k \in S : k \in WritesTo(l)

\* Read loops that wait for each other's results, as two relayed calls in opposite
\* directions do, get going again: each call of a handler is bounded by its own
\* time-out, so the handler ends and its read loop reads on.  Only a circle of
\* writes, which nothing bounds, holds read loops up for good.
ReadersRecover ==
  (\A l \in Links : HeldUp(l) ~> ~HeldUp(l)) \/ <>[]WritesInACircle
=============================================================================
