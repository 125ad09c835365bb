------------------------------ MODULE RateLimit ------------------------------
(* The rate limit of a node, the first lines of _handle_message in           *)
(* py/elo/node.py: what it lets through to the handlers, per key of a peer.  *)
(* The counters outlive the connections, and nothing ever removes them.      *)
EXTENDS Naturals, Sequences

CONSTANTS
  Key,      \* the keys under which peers are filed
  Limit,    \* 100: messages of one key in a window
  Window,   \* 60 seconds: the length of a window, and the pause between HELLOs
  MaxTime, MaxMessages  \* bounds: the clock, and the messages of one key

ASSUME LimitIsPositive == Limit \in Nat \ {0}
ASSUME WindowIsPositive == Window \in Nat \ {0}
ASSUME Bounds == MaxTime \in Nat /\ MaxMessages \in Nat

VARIABLES
  now,      \* time.monotonic(), which is small right after boot
  hello,    \* per key: when a HELLO last came after the pause; 0 if never
  count,    \* per key: messages counted in its window; 0 if it has no counter
  start,    \* per key: when its window began
  arrived,  \* (history) per key: when its messages came that were counted
  dropped,  \* (history) per key: which of them were dropped
  passed,   \* (history) per key: when a message that is no BYE was let through
  heard,    \* (history) per key: when its HELLOs reached the handler
  lost      \* (history) per key: when they did not

counters == <<hello, count, start>>
history == <<arrived, dropped, passed, heard, lost>>
vars == <<now, counters, history>>

Time == Nat

TypeOK ==
  /\ now \in Time
  /\ hello \in [Key -> Time]
  /\ count \in [Key -> Nat]
  /\ start \in [Key -> Time]
  /\ arrived \in [Key -> Seq(Time)]
  /\ dropped \in [Key -> SUBSET Nat]
  /\ passed \in [Key -> Seq(Time)]
  /\ heard \in [Key -> SUBSET Time]
  /\ lost \in [Key -> SUBSET Time]

\* The node starts in the first Window after the machine booted, or later.
Init ==
  /\ now \in 0 .. Window
  /\ hello = [k \in Key |-> 0]
  /\ count = [k \in Key |-> 0]
  /\ start = [k \in Key |-> 0]
  /\ arrived = [k \in Key |-> <<>>]
  /\ dropped = [k \in Key |-> {}]
  /\ passed = [k \in Key |-> <<>>]
  /\ heard = [k \in Key |-> {}]
  /\ lost = [k \in Key |-> {}]

-----------------------------------------------------------------------------
Log(h, k) == [h EXCEPT ![k] = Append(@, now)]

\* Bugs: a HELLO that is refused extends the pause; the count is kept when the
\* window is over; one message too many is let through.
ExtendPause(k) == hello' = [hello EXCEPT ![k] = now]
CountOn(k) == count[k] + 1
OverTheLimitLate(n) == n > Limit + 1

TooEarly(k) == now < hello[k] + Window
Refuse(k) == UNCHANGED hello
RecordHello(k) == hello' = [hello EXCEPT ![k] = now]

\* There is no window yet, or it is over.
WindowIsOver(k) == count[k] = 0 \/ now > start[k] + Window
NextCount(k) == IF WindowIsOver(k) THEN 1 ELSE count[k] + 1
NextStart(k) == IF WindowIsOver(k) THEN now ELSE start[k]
OverTheLimit(n) == n > Limit

\* A HELLO too soon after the last one is dropped, and not counted.
RefuseHello(k) ==
  /\ TooEarly(k) /\ Refuse(k)
  /\ lost' = [lost EXCEPT ![k] = @ \cup {now}]
  /\ UNCHANGED <<now, count, start, arrived, dropped, passed, heard>>

\* Any other message is counted.  A BYE then passes, whatever the count is.
Count(k, bye) ==
  /\ count' = [count EXCEPT ![k] = NextCount(k)]
  /\ start' = [start EXCEPT ![k] = NextStart(k)]
  /\ arrived' = Log(arrived, k)
  /\ IF bye THEN UNCHANGED <<dropped, passed>>
     ELSE IF OverTheLimit(NextCount(k))
     THEN /\ dropped' = [dropped EXCEPT ![k] = @ \cup {Len(arrived[k]) + 1}]
          /\ UNCHANGED passed
     ELSE passed' = Log(passed, k) /\ UNCHANGED dropped
  /\ now' = now

\* The time of a HELLO is recorded before the limit may drop it, so that also a
\* dropped one starts a pause.
CountHello(k) ==
  /\ ~TooEarly(k) /\ RecordHello(k)
  /\ IF OverTheLimit(NextCount(k))
     THEN lost' = [lost EXCEPT ![k] = @ \cup {now}] /\ UNCHANGED heard
     ELSE heard' = [heard EXCEPT ![k] = @ \cup {now}] /\ UNCHANGED lost
  /\ Count(k, FALSE)

CountOther(k, bye) == Count(k, bye) /\ UNCHANGED <<hello, heard, lost>>

Receive(k) ==
  /\ Len(arrived[k]) < MaxMessages
  /\ \/ RefuseHello(k) \/ CountHello(k)
     \/ \E bye \in BOOLEAN : CountOther(k, bye)

Tick ==
  /\ now < MaxTime
  /\ now' = now + 1
  /\ UNCHANGED <<counters, history>>

Next == Tick \/ \E k \in Key : Receive(k)

Spec == Init /\ [][Next]_vars

-----------------------------------------------------------------------------
\* Properties

\* A message is dropped only if its key has sent more than Limit messages within
\* a Window: nobody is punished for what it sent before, or for what others send.
NoFalseDrop ==
  \A k \in Key : \A i \in dropped[k] :
    i > Limit /\ arrived[k][i] <= arrived[k][i - Limit] + Window

\* Windows do not slide, so that Limit messages at the end of one and Limit at the
\* beginning of the next pass; but never more than these within a Window.
AtMostTwice ==
  \A k \in Key : \A i \in DOMAIN passed[k] :
    i > 2 * Limit => passed[k][i] > passed[k][i - 2 * Limit] + Window

\* A HELLO gets lost only for what its key did shortly before: a HELLO of its own
\* that was handled less than a Window ago, or more than Limit messages within a
\* Window of which the last is less than a Window old, as a HELLO that the limit
\* drops starts a pause like any other; a lost HELLO that came in the pause does
\* not extend it.  The first Window after boot is excepted, where the code takes
\* a HELLO that never was for one at time 0.
LostForCause ==
  \A k \in Key : \A t \in lost[k] :
    \/ t < Window
    \/ \E h \in heard[k] : h <= t /\ t < h + Window
    \/ \E i \in DOMAIN arrived[k] :
         /\ i > Limit /\ arrived[k][i] <= arrived[k][i - Limit] + Window
         /\ arrived[k][i] <= t /\ t < arrived[k][i] + Window
=============================================================================
