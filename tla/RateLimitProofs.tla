--------------------------- MODULE RateLimitProofs ---------------------------
(* Proofs about RateLimit, for any limit, any window and any keys.           *)
EXTENDS RateLimit, TLAPS

-----------------------------------------------------------------------------
\* Types

LEMMA AppendTime ==
  ASSUME NEW s \in Seq(Time), NEW t \in Time
  PROVE  /\ Append(s, t) \in Seq(Time)
         /\ Len(Append(s, t)) = Len(s) + 1
         /\ DOMAIN Append(s, t) = 1 .. Len(s) + 1
         /\ DOMAIN s = 1 .. Len(s) /\ Len(s) \in Nat
         /\ \A i \in 1 .. Len(s) : Append(s, t)[i] = s[i]
         /\ Append(s, t)[Len(s) + 1] = t
OBVIOUS

LEMMA TypeInit == Init => TypeOK
<1> SUFFICES ASSUME Init PROVE TypeOK
  OBVIOUS
<1>1. now \in Time
  BY WindowIsPositive DEF Init, Time
<1>2. /\ hello \in [Key -> Time] /\ count \in [Key -> Nat] /\ start \in [Key -> Time]
      /\ arrived \in [Key -> Seq(Time)] /\ passed \in [Key -> Seq(Time)]
      /\ dropped \in [Key -> SUBSET Nat]
      /\ heard \in [Key -> SUBSET Time] /\ lost \in [Key -> SUBSET Time]
  BY DEF Init, Time
<1>3. QED
  BY <1>1, <1>2 DEF TypeOK

LEMMA CountTypes ==
  ASSUME TypeOK, NEW k \in Key, NEW bye \in BOOLEAN, Count(k, bye)
  PROVE  /\ now' \in Time /\ count' \in [Key -> Nat] /\ start' \in [Key -> Time]
         /\ arrived' \in [Key -> Seq(Time)] /\ passed' \in [Key -> Seq(Time)]
         /\ dropped' \in [Key -> SUBSET Nat]
<1> USE DEF TypeOK
<1>1. NextCount(k) \in Nat /\ NextStart(k) \in Time
  BY DEF NextCount, NextStart, Time
<1>2. count' \in [Key -> Nat] /\ start' \in [Key -> Time]
  BY <1>1 DEF Count
<1>3. Append(arrived[k], now) \in Seq(Time) /\ Append(passed[k], now) \in Seq(Time)
  BY AppendTime
<1>4. arrived' \in [Key -> Seq(Time)]
  BY <1>3 DEF Count, Log
<1>5. passed' \in [Key -> Seq(Time)]
  BY <1>3 DEF Count, Log
<1>6. dropped' \in [Key -> SUBSET Nat]
  <2>1. Len(arrived[k]) + 1 \in Nat
    OBVIOUS
  <2>2. \/ dropped' = dropped
        \/ dropped' = [dropped EXCEPT ![k] = @ \cup {Len(arrived[k]) + 1}]
    BY DEF Count
  <2>3. QED
    BY <2>1, <2>2
<1>7. QED
  BY <1>2, <1>4, <1>5, <1>6 DEF Count

LEMMA TypeStep == TypeOK /\ [Next]_vars => TypeOK'
<1> SUFFICES ASSUME TypeOK, [Next]_vars PROVE TypeOK'
  OBVIOUS
<1>1. CASE Tick
  BY <1>1 DEF Tick, TypeOK, counters, history, Time
<1>2. ASSUME NEW k \in Key, RefuseHello(k) PROVE TypeOK'
  BY <1>2 DEF RefuseHello, Refuse, TypeOK, Time
<1>3. ASSUME NEW k \in Key, CountHello(k) PROVE TypeOK'
  <2>1. Count(k, FALSE) /\ hello' = [hello EXCEPT ![k] = now]
    BY <1>3 DEF CountHello, RecordHello
  <2>2. /\ hello' \in [Key -> Time]
        /\ heard' \in [Key -> SUBSET Time] /\ lost' \in [Key -> SUBSET Time]
    <3>1. \/ heard' = [heard EXCEPT ![k] = @ \cup {now}] /\ lost' = lost
          \/ lost' = [lost EXCEPT ![k] = @ \cup {now}] /\ heard' = heard
      BY <1>3 DEF CountHello
    <3>2. QED
      BY <2>1, <3>1 DEF TypeOK
  <2>3. QED
    BY <2>1, <2>2, CountTypes DEF TypeOK
<1>4. ASSUME NEW k \in Key, NEW bye \in BOOLEAN, CountOther(k, bye) PROVE TypeOK'
  BY <1>4, CountTypes DEF CountOther, TypeOK
<1>5. CASE UNCHANGED vars
  BY <1>5 DEF vars, counters, history, TypeOK
<1>6. QED
  BY <1>1, <1>2, <1>3, <1>4, <1>5 DEF Next, Receive

\* Every variable keeps its type.
THEOREM RateLimitTypes == Spec => []TypeOK
<1>1. QED
  BY TypeInit, TypeStep, PTL DEF Spec

-----------------------------------------------------------------------------
\* The inductive invariant, key by key.  The messages counted in the window are
\* the last ones that arrived.

ArrivalInv(k) ==
  /\ start[k] <= now
  /\ count[k] <= Len(arrived[k])
  /\ \A i \in DOMAIN arrived[k] :
       i + count[k] > Len(arrived[k]) => start[k] <= arrived[k][i]
  /\ \A i \in dropped[k] :
       /\ i \in DOMAIN arrived[k] /\ i > Limit
       /\ arrived[k][i] <= arrived[k][i - Limit] + Window

\* Of the messages let through, all but the last Limit ones, and all but as many
\* as are counted, came before the window; and of those before the window, all but
\* the last Limit ones came more than a Window before it.
PassInv(k) ==
  /\ start[k] <= now
  /\ count[k] = 0 => passed[k] = <<>>
  /\ \A i \in DOMAIN passed[k] :
       /\ passed[k][i] <= now /\ passed[k][i] <= start[k] + Window
       /\ i + count[k] <= Len(passed[k]) => passed[k][i] < start[k]
       /\ i + Limit <= Len(passed[k]) => passed[k][i] < start[k]
  /\ \A i, j \in DOMAIN passed[k] :
       i + Limit <= j /\ passed[k][j] < start[k] => passed[k][i] + Window < start[k]
  /\ \A i \in DOMAIN passed[k] :
       i > 2 * Limit => passed[k][i] > passed[k][i - 2 * Limit] + Window

\* What LostForCause says of a HELLO lost at time t.
HeardBefore(k, t) == \E h \in heard[k] : h <= t /\ t < h + Window

FloodBefore(k, t) ==
  \E i \in DOMAIN arrived[k] :
    /\ i > Limit /\ arrived[k][i] <= arrived[k][i - Limit] + Window
    /\ arrived[k][i] <= t /\ t < arrived[k][i] + Window

\* The pause began with a HELLO that was handled or dropped by the limit.
HelloInv(k) ==
  /\ hello[k] <= now
  /\ \/ hello[k] = 0
     \/ hello[k] \in heard[k]
     \/ \E i \in dropped[k] : i \in DOMAIN arrived[k] /\ arrived[k][i] = hello[k]
  /\ \A t \in lost[k] : t < Window \/ HeardBefore(k, t) \/ FloodBefore(k, t)

KeyInv(k) == ArrivalInv(k) /\ PassInv(k) /\ HelloInv(k)

RateInv == TypeOK /\ \A k \in Key : KeyInv(k)

\* A step that leaves a key alone keeps its invariant as time goes by.
LEMMA KeyUntouched ==
  ASSUME RateInv, TypeOK', NEW k \in Key, now <= now',
         hello'[k] = hello[k], count'[k] = count[k], start'[k] = start[k],
         arrived'[k] = arrived[k], dropped'[k] = dropped[k], passed'[k] = passed[k],
         heard'[k] = heard[k], lost'[k] = lost[k]
  PROVE  KeyInv(k)'
<1> KeyInv(k) /\ now \in Nat /\ now' \in Nat /\ start[k] \in Nat /\ hello[k] \in Nat
  BY DEF RateInv, TypeOK, Time
<1>1. ArrivalInv(k)'
  BY DEF KeyInv, ArrivalInv
<1>2. PassInv(k)'
  <2>1. \A i \in DOMAIN passed[k] : passed[k][i] \in Nat
    BY DEF RateInv, TypeOK, Time
  <2>2. QED
    BY <2>1 DEF KeyInv, PassInv
<1>3. HelloInv(k)'
  BY DEF KeyInv, HelloInv, HeardBefore, FloodBefore
<1>4. QED
  BY <1>1, <1>2, <1>3 DEF KeyInv

\* The counters after a message was counted.
LEMMA Counted ==
  ASSUME RateInv, NEW k \in Key, NEW bye \in BOOLEAN, Count(k, bye)
  PROVE  /\ now' = now /\ now \in Nat
         /\ count[k] \in Nat /\ start[k] \in Nat /\ start[k] <= now
         /\ count'[k] = NextCount(k) /\ start'[k] = NextStart(k)
         /\ \/ WindowIsOver(k) /\ count'[k] = 1 /\ start'[k] = now
            \/ ~WindowIsOver(k) /\ count'[k] = count[k] + 1 /\ start'[k] = start[k]
<1> KeyInv(k) /\ count \in [Key -> Nat] /\ start \in [Key -> Nat] /\ now \in Nat
  BY DEF RateInv, TypeOK, Time
<1>1. now' = now /\ count'[k] = NextCount(k) /\ start'[k] = NextStart(k)
  BY DEF Count
<1>2. start[k] <= now
  BY DEF KeyInv, ArrivalInv
<1>3. QED
  BY <1>1, <1>2 DEF NextCount, NextStart

\* The message that exceeds the limit comes Limit messages after one of its window.
LEMMA LimitBack ==
  ASSUME NEW n \in Nat, NEW c \in Nat, c <= n, c + 1 > Limit
  PROVE  n + 1 > Limit /\ (n + 1) - Limit \in 1 .. n /\ ((n + 1) - Limit) + c > n
BY LimitIsPositive

\* A window that is within the limit does not reach back Limit messages.
LEMMA LimitAhead ==
  ASSUME NEW n \in Nat, NEW c \in Nat, NEW g \in Nat, g + Limit = n + 1, c <= Limit
  PROVE  g + c <= n + 1
BY LimitIsPositive

LEMMA ArrivalStep ==
  ASSUME RateInv, TypeOK', NEW k \in Key, NEW bye \in BOOLEAN, Count(k, bye)
  PROVE  ArrivalInv(k)'
<1> DEFINE s == arrived[k]
<1> DEFINE u == arrived'[k]
<1> ArrivalInv(k) /\ s \in Seq(Nat) /\ u \in Seq(Nat)
  BY DEF RateInv, KeyInv, TypeOK, Time
<1>1. u = Append(s, now)
  BY DEF Count, Log, RateInv, TypeOK
<1>2. /\ Len(u) = Len(s) + 1 /\ DOMAIN u = 1 .. Len(s) + 1
      /\ DOMAIN s = 1 .. Len(s) /\ Len(s) \in Nat
      /\ \A i \in 1 .. Len(s) : u[i] = s[i] /\ u[i] \in Nat
      /\ u[Len(s) + 1] = now
  BY <1>1, AppendTime, Counted DEF Time
<1>a. Limit \in Nat /\ Limit > 0 /\ Window \in Nat /\ Window > 0
  BY LimitIsPositive, WindowIsPositive
<1>b. /\ count[k] <= Len(s)
      /\ \A i \in 1 .. Len(s) : i + count[k] > Len(s) => start[k] <= s[i]
      /\ \A i \in dropped[k] :
           i \in 1 .. Len(s) /\ i > Limit /\ s[i] <= s[i - Limit] + Window
  BY <1>2 DEF ArrivalInv
<1>c. /\ now' = now /\ now \in Nat /\ count[k] \in Nat /\ start[k] \in Nat /\ start[k] <= now
      /\ \/ WindowIsOver(k) /\ count'[k] = 1 /\ start'[k] = now
         \/ /\ ~WindowIsOver(k) /\ now <= start[k] + Window
            /\ count'[k] = count[k] + 1 /\ start'[k] = start[k]
  BY <1>a, Counted DEF WindowIsOver
<1>d. \A i \in dropped'[k] : i \in dropped[k] \/ (i = Len(s) + 1 /\ count'[k] > Limit)
  BY Counted DEF Count, RateInv, TypeOK, OverTheLimit
<1> HIDE DEF s, u
<1>3. start'[k] <= now' /\ count'[k] <= Len(u)
  BY <1>2, <1>b, <1>c
<1>4. ASSUME NEW i \in 1 .. Len(u), i + count'[k] > Len(u) PROVE start'[k] <= u[i]
  <2>1. CASE i = Len(s) + 1
    BY <1>2, <1>3, <1>c, <2>1
  <2>2. CASE i # Len(s) + 1
    <3>1. i \in 1 .. Len(s)
      BY <1>2, <2>2
    <3>2. start'[k] = start[k] /\ count'[k] = count[k] + 1
      BY <1>2, <1>4, <1>c, <3>1
    <3>3. start[k] <= s[i]
      BY <1>2, <1>4, <1>b, <1>c, <3>1, <3>2
    <3>4. QED
      BY <1>2, <3>1, <3>2, <3>3
  <2>3. QED
    BY <2>1, <2>2
<1>5. ASSUME NEW i \in dropped'[k]
      PROVE  i \in 1 .. Len(u) /\ i > Limit /\ u[i] <= u[i - Limit] + Window
  <2>1. CASE i \in dropped[k]
    <3>1. i \in 1 .. Len(s) /\ i > Limit /\ s[i] <= s[i - Limit] + Window
      BY <1>b, <2>1
    <3>2. i - Limit \in 1 .. Len(s)
      BY <1>2, <1>a, <3>1
    <3>3. QED
      BY <1>2, <3>1, <3>2
  <2>2. CASE i \notin dropped[k]
    <3>1. i = Len(s) + 1 /\ count'[k] > Limit
      BY <1>5, <1>d, <2>2
    <3>2. start'[k] = start[k] /\ count[k] + 1 > Limit /\ now <= start[k] + Window
      BY <1>a, <1>c, <3>1
    <3>a. Len(s) \in Nat /\ count[k] \in Nat /\ count[k] <= Len(s)
      BY <1>2, <1>b, <1>c
    <3>b. i > Limit /\ i - Limit \in 1 .. Len(s) /\ (i - Limit) + count[k] > Len(s)
      BY LimitBack, <3>1, <3>2, <3>a
    <3>3. i > Limit /\ i - Limit \in 1 .. Len(s)
      BY <3>b
    <3>4. start[k] <= s[i - Limit]
      BY <1>b, <3>b
    <3>5. u[i] = now /\ u[i - Limit] = s[i - Limit] /\ s[i - Limit] \in Nat
      BY <1>2, <3>1, <3>3
    <3>6. now <= s[i - Limit] + Window
      BY <1>a, <1>c, <3>2, <3>4, <3>5
    <3>7. QED
      BY <1>2, <3>1, <3>3, <3>5, <3>6
  <2>3. QED
    BY <2>1, <2>2
<1>6. DOMAIN u = 1 .. Len(u)
  BY <1>2
<1> USE DEF u
<1>7. QED
  BY <1>3, <1>4, <1>5, <1>6 DEF ArrivalInv

LEMMA PassStep ==
  ASSUME RateInv, TypeOK', NEW k \in Key, NEW bye \in BOOLEAN, Count(k, bye)
  PROVE  PassInv(k)'
<1> DEFINE s == passed[k]
<1> DEFINE u == passed'[k]
<1> PassInv(k) /\ ArrivalInv(k) /\ s \in Seq(Nat) /\ u \in Seq(Nat)
  BY DEF RateInv, KeyInv, TypeOK, Time
<1>1. u = s \/ (u = Append(s, now) /\ count'[k] <= Limit)
  BY Counted, LimitIsPositive DEF Count, Log, RateInv, TypeOK, OverTheLimit
<1>2. DOMAIN s = 1 .. Len(s) /\ Len(s) \in Nat /\ \A i \in 1 .. Len(s) : s[i] \in Nat
  OBVIOUS
<1>3. \/ u = s
      \/ /\ count'[k] <= Limit
         /\ Len(u) = Len(s) + 1 /\ DOMAIN u = 1 .. Len(s) + 1
         /\ \A i \in 1 .. Len(s) : u[i] = s[i]
         /\ u[Len(s) + 1] = now
  BY <1>1, AppendTime, Counted DEF Time
<1>a. Limit \in Nat /\ Limit > 0 /\ Window \in Nat /\ Window > 0
  BY LimitIsPositive, WindowIsPositive
<1>b. /\ \A i \in 1 .. Len(s) :
           /\ s[i] <= now /\ s[i] <= start[k] + Window
           /\ i + count[k] <= Len(s) => s[i] < start[k]
           /\ i + Limit <= Len(s) => s[i] < start[k]
      /\ \A i, j \in 1 .. Len(s) :
           i + Limit <= j /\ s[j] < start[k] => s[i] + Window < start[k]
      /\ \A i \in 1 .. Len(s) : i > 2 * Limit => s[i] > s[i - 2 * Limit] + Window
  BY <1>2 DEF PassInv
<1>c. /\ now' = now /\ now \in Nat /\ count[k] \in Nat /\ start[k] \in Nat /\ start[k] <= now
      /\ count'[k] \in Nat /\ count'[k] > 0
      /\ \/ /\ count'[k] = 1 /\ start'[k] = now
            /\ count[k] = 0 \/ now > start[k] + Window
         \/ /\ now <= start[k] + Window
            /\ count'[k] = count[k] + 1 /\ start'[k] = start[k]
  BY <1>a, Counted DEF WindowIsOver
<1>d. count[k] = 0 => Len(s) = 0
  BY DEF PassInv
<1> HIDE DEF s, u
\* What came before the step came before the window that it leaves.
<1>4. ASSUME NEW i \in 1 .. Len(s), i + count'[k] <= Len(s) + 1 \/ i + Limit <= Len(s)
      PROVE  s[i] < start'[k]
  <2>1. CASE start'[k] = now /\ (count[k] = 0 \/ now > start[k] + Window)
    BY <1>2, <1>a, <1>b, <1>c, <1>d, <2>1
  <2>2. CASE count'[k] = count[k] + 1 /\ start'[k] = start[k]
    BY <1>2, <1>4, <1>a, <1>b, <1>c, <2>2
  <2>3. QED
    BY <1>c, <2>1, <2>2
<1>5. ASSUME NEW i \in 1 .. Len(s), NEW j \in 1 .. Len(s), i + Limit <= j, s[j] < start'[k]
      PROVE  s[i] + Window < start'[k]
  <2>1. CASE start'[k] = now /\ (count[k] = 0 \/ now > start[k] + Window)
    <3>1. s[i] < start[k]
      BY <1>2, <1>5, <1>a, <1>b
    <3>2. now > start[k] + Window
      BY <1>2, <1>d, <2>1
    <3>3. QED
      BY <1>2, <1>a, <1>c, <2>1, <3>1, <3>2
  <2>2. CASE start'[k] = start[k]
    BY <1>5, <1>b, <2>2
  <2>3. QED
    BY <1>c, <2>1, <2>2
<1>6. \A i \in 1 .. Len(s) : s[i] <= now' /\ s[i] <= start'[k] + Window
  BY <1>2, <1>a, <1>b, <1>c
<1>e. start'[k] \in Nat /\ start'[k] <= now
  BY <1>c
<1>7. ASSUME NEW i \in 1 .. Len(u)
      PROVE  /\ u[i] <= now' /\ u[i] <= start'[k] + Window
             /\ i + count'[k] <= Len(u) => u[i] < start'[k]
             /\ i + Limit <= Len(u) => u[i] < start'[k]
  <2>1. CASE u = s
    BY <1>2, <1>4, <1>6, <1>c, <2>1
  <2>2. CASE u # s /\ i \in 1 .. Len(s)
    <3>1. u[i] = s[i] /\ Len(u) = Len(s) + 1 /\ count'[k] <= Limit
      BY <1>3, <2>2
    <3>2. i + Limit <= Len(s) + 1 => i + count'[k] <= Len(s) + 1
      BY <1>2, <1>a, <1>c, <3>1
    <3>3. QED
      BY <1>4, <1>6, <2>2, <3>1, <3>2
  <2>3. CASE u # s /\ i \notin 1 .. Len(s)
    <3>1. u[i] = now /\ Len(u) = Len(s) + 1 /\ i = Len(s) + 1
      BY <1>2, <1>3, <2>3
    <3>2. now <= start'[k] + Window
      BY <1>a, <1>c
    <3>3. QED
      BY <1>2, <1>a, <1>c, <3>1, <3>2
  <2>4. QED
    BY <2>1, <2>2, <2>3
<1>8. ASSUME NEW i \in 1 .. Len(u), NEW j \in 1 .. Len(u), i + Limit <= j, u[j] < start'[k]
      PROVE  u[i] + Window < start'[k]
  <2>1. CASE u = s
    BY <1>5, <1>8, <2>1
  <2>2. CASE u # s
    <3>1. j # Len(s) + 1
      BY <1>3, <1>8, <1>c, <1>e, <2>2
    <3>2. i \in 1 .. Len(s) /\ j \in 1 .. Len(s)
      BY <1>2, <1>3, <1>8, <1>a, <2>2, <3>1
    <3>3. QED
      BY <1>3, <1>5, <1>8, <2>2, <3>2
  <2>3. QED
    BY <2>1, <2>2
<1>9. ASSUME NEW i \in 1 .. Len(u), i > 2 * Limit
      PROVE  u[i] > u[i - 2 * Limit] + Window
  <2>1. CASE u = s \/ i \in 1 .. Len(s)
    <3>1. i \in 1 .. Len(s) /\ i - 2 * Limit \in 1 .. Len(s)
      BY <1>2, <1>9, <1>a, <2>1
    <3>2. u[i] = s[i] /\ u[i - 2 * Limit] = s[i - 2 * Limit]
      BY <1>3, <3>1
    <3>3. QED
      BY <1>9, <1>b, <3>1, <3>2
  <2>2. CASE u # s /\ i \notin 1 .. Len(s)
    <3>1. u[i] = now /\ i = Len(s) + 1 /\ count'[k] <= Limit
      BY <1>2, <1>3, <2>2
    <3> DEFINE f == i - 2 * Limit
    <3> DEFINE g == i - Limit
    <3>2. f \in 1 .. Len(s) /\ g \in 1 .. Len(s) /\ f + Limit <= g /\ g + Limit = Len(s) + 1
      BY <1>2, <1>9, <1>a, <3>1
    <3> HIDE DEF f, g
    <3>a. Len(s) \in Nat /\ count'[k] \in Nat /\ g \in Nat
      BY <1>2, <1>c, <3>2
    <3>3. g + count'[k] <= Len(s) + 1
      BY LimitAhead, <3>1, <3>2, <3>a
    <3>4. s[g] < start'[k]
      BY <1>4, <3>2, <3>3
    <3>5. s[f] + Window < start'[k]
      BY <1>5, <3>2, <3>4
    <3>6. u[f] = s[f] /\ s[f] \in Nat
      BY <1>2, <1>3, <3>2
    <3>7. s[f] + Window < now
      BY <1>a, <1>c, <1>e, <3>5, <3>6
    <3> USE DEF f
    <3>8. QED
      BY <3>1, <3>6, <3>7, <1>a, <1>c
  <2>3. QED
    BY <2>1, <2>2
<1>10. DOMAIN u = 1 .. Len(u) /\ (count'[k] = 0 => u = <<>>) /\ start'[k] <= now'
  <2>1. DOMAIN u = 1 .. Len(u)
    BY <1>2, <1>3
  <2>2. QED
    BY <2>1, <1>c, <1>e
<1> USE DEF u
<1>11. QED
  BY <1>7, <1>8, <1>9, <1>10 DEF PassInv

-----------------------------------------------------------------------------
\* The HELLOs

\* One more message keeps the causes, and what dropped the last HELLO.
LEMMA CausesStay ==
  ASSUME RateInv, TypeOK', NEW k \in Key, NEW bye \in BOOLEAN, Count(k, bye),
         heard[k] \subseteq heard'[k]
  PROVE  /\ now' = now
         /\ Append(arrived[k], now) = arrived'[k] /\ dropped[k] \subseteq dropped'[k]
         /\ DOMAIN arrived[k] \subseteq DOMAIN arrived'[k]
         /\ \A i \in DOMAIN arrived[k] : arrived'[k][i] = arrived[k][i]
         /\ \A t : HeardBefore(k, t) => HeardBefore(k, t)'
         /\ \A t : FloodBefore(k, t) => FloodBefore(k, t)'
<1>1. /\ now' = now /\ arrived'[k] = Append(arrived[k], now)
      /\ dropped[k] \subseteq dropped'[k] /\ now \in Time /\ arrived[k] \in Seq(Time)
  BY DEF Count, Log, RateInv, TypeOK
<1>2. /\ DOMAIN arrived[k] = 1 .. Len(arrived[k]) /\ Len(arrived[k]) \in Nat
      /\ DOMAIN arrived'[k] = 1 .. Len(arrived[k]) + 1
      /\ \A i \in DOMAIN arrived[k] : arrived'[k][i] = arrived[k][i]
  BY <1>1, AppendTime
<1>3. ASSUME NEW t, HeardBefore(k, t) PROVE HeardBefore(k, t)'
  BY <1>3 DEF HeardBefore
<1>4. ASSUME NEW t, FloodBefore(k, t) PROVE FloodBefore(k, t)'
  <2>1. PICK i \in DOMAIN arrived[k] :
          /\ i > Limit /\ arrived[k][i] <= arrived[k][i - Limit] + Window
          /\ arrived[k][i] <= t /\ t < arrived[k][i] + Window
    BY <1>4 DEF FloodBefore
  <2>2. i - Limit \in DOMAIN arrived[k]
    BY <1>2, <2>1, LimitIsPositive
  <2>3. i \in DOMAIN arrived'[k]
    BY <1>2
  <2>4. QED
    BY <1>2, <2>1, <2>2, <2>3 DEF FloodBefore
<1>5. DOMAIN arrived[k] \subseteq DOMAIN arrived'[k]
  BY <1>2
<1>6. QED
  BY <1>1, <1>2, <1>3, <1>4, <1>5

\* What the limit drops at a time is a flood at that time, and for a Window more.
LEMMA DroppedIsFlood ==
  ASSUME TypeOK, NEW k \in Key, ArrivalInv(k), NEW i \in dropped[k], NEW t \in Nat,
         arrived[k][i] <= t, t < arrived[k][i] + Window
  PROVE  FloodBefore(k, t)
BY DEF ArrivalInv, FloodBefore

LEMMA HelloCounted ==
  ASSUME RateInv, TypeOK', NEW k \in Key, CountHello(k)
  PROVE  HelloInv(k)'
<1> HelloInv(k) /\ now \in Nat /\ Window \in Nat /\ Window > 0
  BY WindowIsPositive DEF RateInv, KeyInv, TypeOK, Time
<1>1. Count(k, FALSE) /\ hello'[k] = now
  BY DEF CountHello, RecordHello, RateInv, TypeOK
<1>2. heard[k] \subseteq heard'[k]
  BY DEF CountHello, RateInv, TypeOK
<1>3. now' = now /\ arrived'[k] = Append(arrived[k], now)
  BY <1>1, <1>2, CausesStay
<1>4. ASSUME NEW t \in lost[k]
      PROVE  t < Window \/ HeardBefore(k, t)' \/ FloodBefore(k, t)'
  BY <1>1, <1>2, <1>4, CausesStay DEF HelloInv
<1>5. CASE ~OverTheLimit(NextCount(k))
  <2>1. now \in heard'[k] /\ lost'[k] = lost[k]
    BY <1>5 DEF CountHello, RateInv, TypeOK
  <2>2. QED
    BY <1>1, <1>3, <1>4, <2>1 DEF HelloInv
<1>6. CASE OverTheLimit(NextCount(k))
  <2> DEFINE n == Len(arrived[k]) + 1
  <2>1. n \in dropped'[k] /\ lost'[k] = lost[k] \cup {now}
    BY <1>1, <1>6 DEF CountHello, Count, RateInv, TypeOK
  <2>2. n \in DOMAIN arrived'[k] /\ arrived'[k][n] = now
    <3>1. arrived[k] \in Seq(Time) /\ now \in Time
      BY DEF RateInv, TypeOK
    <3>2. DOMAIN Append(arrived[k], now) = 1 .. n /\ n \in 1 .. n
          /\ Append(arrived[k], now)[n] = now
      BY <3>1, AppendTime
    <3>3. QED
      BY <1>3, <3>2
  <2> HIDE DEF n
  <2>3. ArrivalInv(k)'
    BY <1>1, ArrivalStep
  <2>4. FloodBefore(k, now)'
    <3>1. n > Limit /\ arrived'[k][n] <= arrived'[k][n - Limit] + Window
      BY <2>1, <2>3 DEF ArrivalInv
    <3>2. now < now + Window
      OBVIOUS
    <3>3. /\ arrived'[k][n] <= now /\ now < arrived'[k][n] + Window
      BY <2>2, <3>2
    <3>4. \E i \in DOMAIN arrived'[k] :
            /\ i > Limit /\ arrived'[k][i] <= arrived'[k][i - Limit] + Window
            /\ arrived'[k][i] <= now /\ now < arrived'[k][i] + Window
      BY <2>2, <3>1, <3>3
    <3>5. QED
      BY <1>3, <3>4 DEF FloodBefore
  <2>5. \A t \in lost'[k] : t < Window \/ HeardBefore(k, t)' \/ FloodBefore(k, t)'
    BY <1>3, <1>4, <2>1, <2>4
  <2>6. QED
    BY <1>1, <1>3, <2>1, <2>2, <2>5 DEF HelloInv
<1>7. QED
  BY <1>5, <1>6

LEMMA HelloRefused ==
  ASSUME RateInv, NEW k \in Key, RefuseHello(k)
  PROVE  KeyInv(k)'
<1> KeyInv(k) /\ now \in Nat /\ hello[k] \in Nat /\ Window \in Nat
  BY WindowIsPositive DEF RateInv, TypeOK, Time
<1>1. UNCHANGED <<now, hello, count, start, arrived, dropped, passed, heard>>
  BY DEF RefuseHello, Refuse
<1>2. lost'[k] = lost[k] \cup {now}
  BY DEF RefuseHello, RateInv, TypeOK
<1>3. now < hello[k] + Window /\ hello[k] <= now
  BY DEF RefuseHello, TooEarly, KeyInv, HelloInv
<1>4. now < Window \/ HeardBefore(k, now) \/ FloodBefore(k, now)
  <2>1. CASE hello[k] = 0
    BY <1>3, <2>1
  <2>2. CASE hello[k] \in heard[k]
    BY <1>3, <2>2 DEF HeardBefore
  <2>3. CASE \E i \in dropped[k] : i \in DOMAIN arrived[k] /\ arrived[k][i] = hello[k]
    BY <1>3, <2>3, DroppedIsFlood DEF KeyInv, RateInv
  <2>4. QED
    BY <2>1, <2>2, <2>3 DEF KeyInv, HelloInv
<1>5. ArrivalInv(k)' /\ PassInv(k)'
  BY <1>1 DEF KeyInv, ArrivalInv, PassInv
<1>6. HelloInv(k)'
  BY <1>1, <1>2, <1>4 DEF KeyInv, HelloInv, HeardBefore, FloodBefore
<1>7. QED
  BY <1>5, <1>6 DEF KeyInv

LEMMA HelloLeft ==
  ASSUME RateInv, TypeOK', NEW k \in Key, NEW bye \in BOOLEAN, CountOther(k, bye)
  PROVE  HelloInv(k)'
<1>1. Count(k, bye) /\ hello' = hello /\ heard' = heard /\ lost' = lost
  BY DEF CountOther
<1>2. HelloInv(k) /\ ArrivalInv(k)
  BY DEF RateInv, KeyInv
<1>3. QED
  BY <1>1, <1>2, CausesStay DEF HelloInv

-----------------------------------------------------------------------------

LEMMA RateStep == RateInv /\ [Next]_vars => RateInv'
<1> SUFFICES ASSUME RateInv, [Next]_vars PROVE RateInv'
  OBVIOUS
<1> TypeOK /\ TypeOK'
  BY TypeStep DEF RateInv
<1> SUFFICES ASSUME NEW j \in Key PROVE KeyInv(j)'
  BY DEF RateInv
<1> now \in Nat
  BY DEF TypeOK, Time
<1>1. CASE Tick
  BY <1>1, KeyUntouched DEF Tick, counters, history
<1>2. ASSUME NEW k \in Key, RefuseHello(k) PROVE KeyInv(j)'
  <2>1. CASE j = k
    BY <1>2, <2>1, HelloRefused
  <2>2. CASE j # k
    BY <1>2, <2>2, KeyUntouched DEF RefuseHello, Refuse, TypeOK
  <2>3. QED
    BY <2>1, <2>2
<1>3. ASSUME NEW k \in Key, NEW bye \in BOOLEAN, Count(k, bye), j # k
      PROVE  /\ now' = now /\ count'[j] = count[j] /\ start'[j] = start[j]
             /\ arrived'[j] = arrived[j] /\ dropped'[j] = dropped[j]
             /\ passed'[j] = passed[j]
  BY <1>3 DEF Count, Log, TypeOK
<1>4. ASSUME NEW k \in Key, CountHello(k) PROVE KeyInv(j)'
  <2>0. Count(k, FALSE)
    BY <1>4 DEF CountHello
  <2>1. CASE j = k
    BY <1>4, <2>0, <2>1, ArrivalStep, PassStep, HelloCounted DEF KeyInv
  <2>2. CASE j # k
    <3>1. hello'[j] = hello[j] /\ heard'[j] = heard[j] /\ lost'[j] = lost[j]
      BY <1>4, <2>2 DEF CountHello, RecordHello, TypeOK
    <3>2. /\ now' = now /\ count'[j] = count[j] /\ start'[j] = start[j]
          /\ arrived'[j] = arrived[j] /\ dropped'[j] = dropped[j]
          /\ passed'[j] = passed[j]
      BY <1>3, <2>0, <2>2
    <3>3. QED
      BY <3>1, <3>2, KeyUntouched
  <2>3. QED
    BY <2>1, <2>2
<1>5. ASSUME NEW k \in Key, NEW bye \in BOOLEAN, CountOther(k, bye) PROVE KeyInv(j)'
  <2>0. Count(k, bye) /\ hello' = hello /\ heard' = heard /\ lost' = lost
    BY <1>5 DEF CountOther
  <2>1. CASE j = k
    BY <1>5, <2>0, <2>1, ArrivalStep, PassStep, HelloLeft DEF KeyInv
  <2>2. CASE j # k
    BY <1>3, <2>0, <2>2, KeyUntouched
  <2>3. QED
    BY <2>1, <2>2
<1>6. CASE UNCHANGED vars
  BY <1>6, KeyUntouched DEF vars, counters, history
<1>7. QED
  BY <1>1, <1>2, <1>4, <1>5, <1>6 DEF Next, Receive

LEMMA RateInit == Init => RateInv
<1> SUFFICES ASSUME Init PROVE RateInv
  OBVIOUS
<1> SUFFICES ASSUME NEW k \in Key PROVE KeyInv(k)
  BY TypeInit DEF RateInv
<1>1. /\ now \in Nat /\ hello[k] = 0 /\ count[k] = 0 /\ start[k] = 0
      /\ arrived[k] = <<>> /\ passed[k] = <<>>
      /\ dropped[k] = {} /\ heard[k] = {} /\ lost[k] = {}
  BY WindowIsPositive DEF Init
<1>2. Len(<<>>) = 0 /\ DOMAIN <<>> = {}
  OBVIOUS
<1>3. QED
  BY <1>1, <1>2 DEF KeyInv, ArrivalInv, PassInv, HelloInv

\* A message is dropped only when its key has sent more than the limit within a
\* window's time.
THEOREM DropsAreDue == Spec => []NoFalseDrop
<1>1. RateInv => NoFalseDrop
  BY DEF RateInv, KeyInv, ArrivalInv, NoFalseDrop
<1>2. QED
  BY RateInit, RateStep, <1>1, PTL DEF Spec

\* Within a window's time at most twice the limit gets through.
THEOREM TwiceTheLimitAtMost == Spec => []AtMostTwice
<1>1. RateInv => AtMostTwice
  BY DEF RateInv, KeyInv, PassInv, AtMostTwice
<1>2. QED
  BY RateInit, RateStep, <1>1, PTL DEF Spec

\* A HELLO gets lost for a HELLO handled or for a flood shortly before, or right
\* after boot.
THEOREM LossesHaveCause == Spec => []LostForCause
<1>1. RateInv => LostForCause
  BY DEF RateInv, KeyInv, HelloInv, HeardBefore, FloodBefore, LostForCause
<1>2. QED
  BY RateInit, RateStep, <1>1, PTL DEF Spec
=============================================================================
