---------------------------- MODULE GoNodeProofs ----------------------------
(* Proofs about GoNode, for all capabilities, times and numbers of failed    *)
(* writes that satisfy its assumptions.                                      *)
EXTENDS GoNode, TLAPS

-----------------------------------------------------------------------------
\* The inductive invariant

Round == Interval + Jitter + 2 * PutTime

\* The longest time since heartbeatLoop last began to write a key, the write under
\* way not counted before it has stored.
SinceTurn(k) ==
  spent + IF k = "node"
          THEN CASE loop = "nodeStored"              -> 0
                 [] loop \in {"caps", "capsStored"}  -> PutTime
                 [] loop = "sleep"                   -> 2 * PutTime
                 [] loop = "select"                  -> 2 * PutTime + Jitter
                 [] OTHER                            -> 2 * PutTime + Jitter + Interval
          ELSE CASE loop = "capsStored"              -> 0
                 [] loop \in {"sleep"}               -> PutTime
                 [] loop = "select"                  -> PutTime + Jitter
                 [] loop \in {"node", "nodeStored"}  -> PutTime + Jitter + Interval
                 [] OTHER                            -> 2 * PutTime + Jitter + Interval

\* A key that the loop keeps is at most so old as its failed writes allow.
KeptIsYoung ==
  loop \in Phases => \A k \in kept :
    registry[k] # None /\ age[k] <= missed[k] * Round + SinceTurn(k)

\* heartbeatLoop stays nowhere longer than it may.
InTime ==
  /\ spent \in Nat
  /\ loop = "select" => spent <= Interval
  /\ loop \in {"node", "nodeStored", "caps", "capsStored"} => spent <= PutTime
  /\ loop = "sleep" => spent <= Jitter

\* What the inductive argument needs to know of types.
Types ==
  /\ age \in [Key -> Nat] /\ missed \in [Key -> 0 .. MaxMisses]
  /\ DOMAIN registry = Key /\ kept \in SUBSET Key
  /\ loop \in Phases \cup {"none", "over"}
  /\ loop = "none" => kept = {}
  /\ run \in {"idle", "failed"} => loop = "none"
  /\ alive \/ loop = "none"
  /\ caps \in Capabilities /\ want \in Capabilities /\ carry \in Capabilities

\* Disconnect unregisters when nobody registers, nor will.
Unregistering ==
  /\ disconnect # "idle" => register = "idle"
  /\ disconnect \in {"node", "caps", "done"} => loop = "over"
  /\ disconnect \in {"caps", "done"} => registry["node"] = None \/ "node" \in undeleted
  /\ disconnect = "done" => registry["caps"] = None \/ "caps" \in undeleted

GoInv == Types /\ InTime /\ KeptIsYoung /\ Unregistering

-----------------------------------------------------------------------------
\* Numbers

\* The times are natural numbers.
LEMMA Times ==
  /\ Interval \in Nat /\ Jitter \in Nat /\ PutTime \in Nat /\ TTL \in Nat
  /\ MaxMisses \in Nat /\ Round \in Nat
BY TimesAreNaturals DEF Round

\* As many failed writes as there may be do not use up the TTL.
LEMMA Budget ==
  ASSUME NEW m \in 0 .. MaxMisses
  PROVE  /\ m * Round \in Nat /\ (m + 1) * Round = m * Round + Round
         /\ m * Round + Round + PutTime <= TTL
<1> DEFINE R == Round
<1>1. /\ R \in Nat /\ MaxMisses \in Nat /\ TTL \in Nat /\ PutTime \in Nat
      /\ (MaxMisses + 1) * R + PutTime <= TTL
  BY Times, RoundsFitTTL DEF Round
<1> HIDE DEF R
<1>2. PICK d \in Nat : MaxMisses = m + d
  <2>1. MaxMisses - m \in Nat /\ MaxMisses = m + (MaxMisses - m)
    BY <1>1
  <2> QED BY <2>1
<1>3. (MaxMisses + 1) * R = m * R + R + d * R /\ d * R \in Nat /\ m * R \in Nat
  BY <1>1, <1>2
<1>4. (m + 1) * R = m * R + R
  BY <1>1
<1> QED BY <1>1, <1>3, <1>4 DEF R

\* How long a turn is away, by phase.
LEMMA Turns ==
  ASSUME InTime, loop \in Phases, NEW k \in Key
  PROVE  /\ SinceTurn(k) \in Nat /\ SinceTurn(k) <= Round + PutTime
         /\ spent < Limit => SinceTurn(k) < Round + PutTime
<1>1. k \in {"node", "caps"}
  BY DEF Key
<1>2. CASE loop = "select"
  BY <1>1, <1>2, Times DEF SinceTurn, InTime, Round, Limit
<1>3. CASE loop \in {"node", "nodeStored"}
  BY <1>1, <1>3, Times DEF SinceTurn, InTime, Round, Limit
<1>4. CASE loop \in {"caps", "capsStored"}
  BY <1>1, <1>4, Times DEF SinceTurn, InTime, Round, Limit
<1>5. CASE loop = "sleep"
  BY <1>1, <1>5, Times DEF SinceTurn, InTime, Round, Limit
<1> QED BY <1>2, <1>3, <1>4, <1>5 DEF Phases

-----------------------------------------------------------------------------
\* Steps of the bucket

\* A key is written or not: it is young, or has failed once more.
LEMMA WriteStep ==
  ASSUME Types, NEW k \in Key, NEW v \in Value, Put(k, v) \/ Miss(k)
  PROVE  /\ age' \in [Key -> Nat] /\ missed' \in [Key -> 0 .. MaxMisses]
         /\ DOMAIN registry' = Key /\ UNCHANGED undeleted
         /\ \A x \in Key : x # k => /\ registry'[x] = registry[x]
                                    /\ age'[x] = age[x] /\ missed'[x] = missed[x]
         /\ \/ Put(k, v) /\ registry'[k] # None /\ age'[k] = 0 /\ missed'[k] = 0
            \/ /\ Miss(k) /\ registry'[k] = registry[k] /\ age'[k] = age[k]
               /\ missed[k] < MaxMisses /\ missed'[k] = missed[k] + 1
<1>1. CASE Put(k, v)
  BY <1>1, Times, NoneIsNoValue DEF Put, Types
<1>2. CASE Miss(k)
  BY <1>2, Times DEF Miss, Types
<1> QED BY <1>1, <1>2

\* A write by Register leaves young what is kept.
LEMMA RegisterWrites ==
  ASSUME GoInv, NEW k \in Key, NEW v \in Value, Put(k, v) \/ Miss(k),
         UNCHANGED <<loop, spent, kept>>
  PROVE  KeptIsYoung'
<1> SUFFICES ASSUME loop \in Phases, NEW x \in kept
             PROVE  registry'[x] # None /\ age'[x] <= missed'[x] * Round + SinceTurn(x)
  BY DEF KeptIsYoung, SinceTurn
<1> USE DEF GoInv
<1>1. x \in Key /\ registry[x] # None /\ age[x] <= missed[x] * Round + SinceTurn(x)
  BY DEF KeptIsYoung, Types
<1>2. SinceTurn(x) \in Nat /\ Round \in Nat
  BY <1>1, Turns, Times
<1>3. CASE x # k
  BY <1>1, <1>3, WriteStep
<1>4. CASE x = k /\ Put(k, v)
  <2>1. registry'[x] # None /\ age'[x] = 0 /\ missed'[x] = 0
    BY <1>4, NoneIsNoValue DEF Put, Types
  <2>2. 0 * Round = 0
    BY <1>2
  <2> QED BY <1>2, <2>1, <2>2
<1>5. CASE x = k /\ Miss(k)
  <2>1. /\ registry'[x] = registry[x] /\ age'[x] = age[x]
        /\ missed[x] \in 0 .. MaxMisses /\ missed'[x] = missed[x] + 1
    BY <1>5 DEF Miss, Types
  <2>2. missed[x] * Round \in Nat /\ (missed[x] + 1) * Round = missed[x] * Round + Round
    BY <2>1, Budget
  <2>3. age[x] \in Nat
    BY <1>1 DEF Types
  <2> QED BY <1>1, <1>2, <2>1, <2>2, <2>3
<1> QED BY <1>3, <1>4, <1>5

-----------------------------------------------------------------------------
\* Steps of heartbeatLoop

\* What happens to the age of a kept key that has no turn, when the loop goes on
\* to where its last turn is not longer away.
LEMMA YoungStays ==
  ASSUME GoInv, NEW x \in kept, loop \in Phases,
         registry'[x] = registry[x], age'[x] = age[x], missed'[x] = missed[x],
         SinceTurn(x)' \in Nat, SinceTurn(x) <= SinceTurn(x)'
  PROVE  registry'[x] # None /\ age'[x] <= missed'[x] * Round + SinceTurn(x)'
<1> USE DEF GoInv
<1>1. /\ x \in Key /\ registry[x] # None /\ age[x] \in Nat /\ missed[x] \in 0 .. MaxMisses
      /\ age[x] <= missed[x] * Round + SinceTurn(x)
  BY DEF KeptIsYoung, Types
<1>2. SinceTurn(x) \in Nat /\ missed[x] * Round \in Nat
  BY <1>1, Turns, Budget
<1> QED BY <1>1, <1>2

\* A key that is stored is young again.
LEMMA YoungAgain ==
  ASSUME GoInv, NEW k \in Key, NEW v \in Value, Put(k, v), SinceTurn(k)' \in Nat
  PROVE  registry'[k] # None /\ age'[k] <= missed'[k] * Round + SinceTurn(k)'
<1>1. registry'[k] # None /\ age'[k] = 0 /\ missed'[k] = 0
  BY NoneIsNoValue DEF Put, GoInv, Types
<1>2. Round \in Nat
  BY Times
<1>3. 0 * Round = 0
  BY <1>2
<1> QED BY <1>1, <1>3

\* A key whose write fails gets another round.
LEMMA AnotherRound ==
  ASSUME GoInv, NEW k \in kept, Miss(k), loop \in Phases, SinceTurn(k)' = PutTime
  PROVE  registry'[k] # None /\ age'[k] <= missed'[k] * Round + SinceTurn(k)'
<1> USE DEF GoInv
<1>1. k \in Key /\ Round \in Nat /\ PutTime \in Nat
  BY Times DEF Types
<1>2. /\ registry'[k] = registry[k] /\ age'[k] = age[k] /\ age[k] \in Nat
      /\ missed[k] \in 0 .. MaxMisses /\ missed'[k] = missed[k] + 1
  BY <1>1 DEF Miss, Types
<1>3. registry[k] # None /\ age[k] <= missed[k] * Round + SinceTurn(k)
  BY DEF KeptIsYoung
<1>4. SinceTurn(k) \in Nat /\ SinceTurn(k) <= Round + PutTime
  BY <1>1, Turns
<1>5. missed[k] * Round \in Nat /\ (missed[k] + 1) * Round = missed[k] * Round + Round
  BY <1>2, Budget
<1> QED BY <1>1, <1>2, <1>3, <1>4, <1>5

-----------------------------------------------------------------------------
\* The steps of Next

\* The first state has no heartbeat.
LEMMA InitInv == Init => GoInv
<1> SUFFICES ASSUME Init PROVE GoInv
  OBVIOUS
<1>1. Nothing \in Capabilities
  BY DEF Nothing, Capabilities
<1>2. Types
  BY <1>1, Times DEF Init, Types, Key
<1>3. InTime /\ KeptIsYoung /\ Unregistering
  BY DEF Init, InTime, KeptIsYoung, Unregistering
<1> QED BY <1>2, <1>3 DEF GoInv

\* So has the state after the end of the process.
LEMMA DiesInv ==
  ASSUME GoInv, Dies
  PROVE  GoInv'
<1>1. Nothing \in Capabilities
  BY DEF Nothing, Capabilities
<1>2. Types'
  BY <1>1, Times DEF GoInv, Dies, Types, Key
<1>3. InTime' /\ KeptIsYoung' /\ Unregistering'
  BY DEF Dies, InTime, KeptIsYoung, Unregistering
<1> QED BY <1>2, <1>3 DEF GoInv

\* Steps that touch neither the loop nor the bucket leave its keys young.
LEMMA YoungElsewhere ==
  ASSUME GoInv, UNCHANGED <<loop, carry, spent, kept, registry, age, missed>>
  PROVE  InTime' /\ KeptIsYoung'
BY DEF GoInv, InTime, KeptIsYoung, SinceTurn

\* The application: Connect, Register, the store in Register, Run, Disconnect.
LEMMA AppInv ==
  ASSUME GoInv,
         \/ Connect \/ Run \/ RunFails \/ RunReturns \/ Stored \/ Disconnect
         \/ \E offer \in Offers : Register(offer)
  PROVE  GoInv'
<1> USE DEF GoInv
<1>1. CASE Run
  <2>1. Types'
    BY <1>1 DEF Run, Types, bucketVars, Phases
  <2>2. loop = "none" /\ kept = {}
    BY <1>1 DEF Run, Types
  <2>3. InTime' /\ KeptIsYoung'
    BY <1>1, <2>2, Times DEF Run, InTime, KeptIsYoung
  <2>4. Unregistering'
    BY <1>1, <2>2 DEF Run, Unregistering, bucketVars
  <2> QED BY <2>1, <2>3, <2>4
<1>2. CASE Connect
  BY <1>2, YoungElsewhere DEF Connect, Types, Unregistering, loopVars, bucketVars
<1>3. CASE RunReturns
  BY <1>3, YoungElsewhere DEF RunReturns, Types, Unregistering, loopVars, bucketVars
<1>4. CASE Stored
  BY <1>4, YoungElsewhere DEF Stored, Types, Unregistering, loopVars, bucketVars
<1>5. CASE Disconnect
  BY <1>5, YoungElsewhere DEF Disconnect, Types, Unregistering, loopVars, bucketVars
<1>6. ASSUME NEW offer \in Offers, Register(offer) PROVE GoInv'
  <2>1. offer \in Capabilities
    BY OffersType
  <2> QED
    BY <1>6, <2>1, YoungElsewhere DEF Register, Types, Unregistering, loopVars, bucketVars
<1>7. CASE RunFails
  BY <1>7, YoungElsewhere DEF RunFails, Types, Unregistering, loopVars, bucketVars
<1> QED BY <1>1, <1>2, <1>3, <1>4, <1>5, <1>6, <1>7

\* The two writes of Register.
LEMMA RegisterInv ==
  ASSUME GoInv, RegisterNode \/ RegisterCapabilities
  PROVE  GoInv'
<1> USE DEF GoInv
<1>1. CASE RegisterNode
  <2>1. "node" \in Key /\ Online \in Value
    BY DEF Key, Value
  <2>2. Put("node", Online) \/ Miss("node")
    BY <1>1 DEF RegisterNode
  <2>3. KeptIsYoung' /\ InTime'
    BY <1>1, <2>1, <2>2, RegisterWrites DEF RegisterNode, loopVars, InTime
  <2>4. Types'
    BY <1>1, <2>1, <2>2, WriteStep DEF RegisterNode, Types, loopVars
  <2>5. disconnect = "idle" /\ disconnect' = disconnect
    BY <1>1 DEF RegisterNode, Unregistering
  <2> QED BY <2>3, <2>4, <2>5 DEF Unregistering
<1>2. CASE RegisterCapabilities
  <2>1. "caps" \in Key /\ caps \in Value
    BY DEF Key, Value, Types
  <2>2. Put("caps", caps) \/ Miss("caps")
    BY <1>2 DEF RegisterCapabilities
  <2>3. KeptIsYoung' /\ InTime'
    BY <1>2, <2>1, <2>2, RegisterWrites DEF RegisterCapabilities, loopVars, InTime
  <2>4. Types'
    BY <1>2, <2>1, <2>2, WriteStep DEF RegisterCapabilities, Types, loopVars
  <2>5. disconnect = "idle" /\ disconnect' = disconnect
    BY <1>2 DEF RegisterCapabilities, Unregistering
  <2> QED BY <2>3, <2>4, <2>5 DEF Unregistering
<1> QED BY <1>1, <1>2

\* heartbeatLoop, where it writes nothing.
LEMMA LoopInv ==
  ASSUME GoInv, Stopped \/ Fire \/ Wake
  PROVE  GoInv'
<1> USE DEF GoInv
<1>1. CASE Stopped
  <2>1. loop' = "over" /\ spent' = spent /\ run' = run /\ loop = "select"
    BY <1>1 DEF Stopped, appVars
  <2>2. InTime' /\ KeptIsYoung'
    BY <2>1 DEF InTime, KeptIsYoung, Phases
  <2>3. Types' /\ Unregistering'
    BY <1>1 DEF Stopped, Types, Unregistering, appVars, bucketVars
  <2> QED BY <2>2, <2>3
<1>2. CASE Fire
  <2>1. loop = "select" /\ spent = Interval /\ loop' = "node" /\ spent' = 0
    BY <1>2 DEF Fire
  <2>2. UNCHANGED <<kept, registry, age, missed>>
    BY <1>2 DEF Fire, bucketVars
  <2>3. InTime'
    BY <2>1, Times DEF InTime
  <2>4. ASSUME NEW x \in kept PROVE registry'[x] # None /\ age'[x] <= missed'[x] * Round + SinceTurn(x)'
    <3>1. SinceTurn(x)' \in Nat /\ SinceTurn(x) <= SinceTurn(x)'
      BY <2>1, Times DEF SinceTurn
    <3> QED BY <2>1, <2>2, <3>1, YoungStays DEF Phases
  <2>5. KeptIsYoung'
    BY <2>2, <2>4 DEF KeptIsYoung
  <2>6. Types' /\ Unregistering'
    BY <1>2 DEF Fire, Types, Unregistering, appVars, bucketVars, Phases
  <2> QED BY <2>3, <2>5, <2>6
<1>3. CASE Wake
  <2>1. loop = "sleep" /\ spent \in Nat /\ spent <= Jitter /\ loop' = "select" /\ spent' = 0
    BY <1>3 DEF Wake, InTime
  <2>2. UNCHANGED <<kept, registry, age, missed>>
    BY <1>3 DEF Wake, bucketVars
  <2>3. InTime'
    BY <2>1, Times DEF InTime
  <2>4. ASSUME NEW x \in kept PROVE registry'[x] # None /\ age'[x] <= missed'[x] * Round + SinceTurn(x)'
    <3>1. SinceTurn(x)' \in Nat /\ SinceTurn(x) <= SinceTurn(x)'
      BY <2>1, Times DEF SinceTurn
    <3> QED BY <2>1, <2>2, <3>1, YoungStays DEF Phases
  <2>5. KeptIsYoung'
    BY <2>2, <2>4 DEF KeptIsYoung
  <2>6. Types' /\ Unregistering'
    BY <1>3 DEF Wake, Types, Unregistering, appVars, bucketVars, Phases
  <2> QED BY <2>3, <2>5, <2>6
<1> QED BY <1>1, <1>2, <1>3

\* heartbeatLoop, where the bucket stores a key.
LEMMA StoreInv ==
  ASSUME GoInv, StoreNode \/ StoreCaps
  PROVE  GoInv'
<1> USE DEF GoInv
<1>1. PICK k \in Key, v \in Value : Store(k, v)
  BY DEF StoreNode, StoreCaps, Key, Value, Types
<1>2. /\ alive /\ alive' = alive /\ loop = k /\ k \in {"node", "caps"} /\ loop' = AfterStore[k] /\ spent' = spent
      /\ kept' = kept \cup {k} /\ Put(k, v) /\ UNCHANGED appVars /\ carry' = carry
      /\ spent \in Nat /\ spent <= PutTime
  BY <1>1 DEF Store, Key, InTime
<1>3. /\ loop' \in {"nodeStored", "capsStored"} /\ loop \in Phases
      /\ k = "node" => loop' = "nodeStored"
      /\ k = "caps" => loop' = "capsStored"
  BY <1>2 DEF AfterStore, Key, Phases
<1>4. InTime'
  BY <1>2, <1>3 DEF InTime
<1>5. ASSUME NEW x \in kept'
      PROVE  registry'[x] # None /\ age'[x] <= missed'[x] * Round + SinceTurn(x)'
  <2>1. CASE x = k
    <3>1. SinceTurn(x)' \in Nat
      BY <1>2, <1>3, <2>1, Times DEF SinceTurn
    <3> QED BY <1>2, <2>1, <3>1, YoungAgain
  <2>2. CASE x # k
    <3>1. x \in kept /\ x \in Key /\ x \in {"node", "caps"}
      BY <1>2, <2>2 DEF Types, Key
    <3>2. registry'[x] = registry[x] /\ age'[x] = age[x] /\ missed'[x] = missed[x]
      BY <1>2, <2>2, <3>1, WriteStep
    <3>3. SinceTurn(x)' \in Nat /\ SinceTurn(x) <= SinceTurn(x)'
      BY <1>2, <1>3, <2>2, <3>1, Times DEF SinceTurn
    <3> QED BY <1>3, <3>1, <3>2, <3>3, YoungStays
  <2> QED BY <2>1, <2>2
<1>6. KeptIsYoung'
  BY <1>5 DEF KeptIsYoung
<1>7. Types'
  <2>1. /\ age' \in [Key -> Nat] /\ missed' \in [Key -> 0 .. MaxMisses]
        /\ DOMAIN registry' = Key
    BY <1>2, WriteStep
  <2> QED BY <1>2, <1>3, <2>1 DEF Types, appVars, Phases
<1>8. Unregistering'
  BY <1>2, <1>3 DEF Unregistering, appVars
<1> QED BY <1>4, <1>6, <1>7, <1>8

\* heartbeatLoop, where the write of the first key returns.
LEMMA BeatNodeInv ==
  ASSUME GoInv, BeatNode
  PROVE  GoInv'
<1> USE DEF GoInv
<1>1. /\ alive /\ alive' = alive /\ loop' = "caps" /\ spent' = 0 /\ kept' = kept /\ UNCHANGED appVars
      /\ carry' \in CapsSeen /\ "node" \in Key
      /\ \/ loop = "node" /\ Miss("node")
         \/ loop = "nodeStored" /\ UNCHANGED bucketVars
  BY DEF BeatNode, WriteReturns, AfterStore, Key
<1>2. loop \in Phases /\ spent \in Nat /\ spent <= PutTime
  BY <1>1 DEF Phases, InTime
<1>3. InTime'
  BY <1>1, Times DEF InTime
<1>4. ASSUME NEW x \in kept
      PROVE  registry'[x] # None /\ age'[x] <= missed'[x] * Round + SinceTurn(x)'
  <2>1. x \in Key /\ x \in {"node", "caps"}
    BY DEF Types, Key
  <2>2. CASE x = "node" /\ Miss("node")
    <3>1. SinceTurn(x)' = PutTime
      BY <1>1, <2>2, Times DEF SinceTurn
    <3> QED BY <1>2, <2>2, <3>1, AnotherRound
  <2>3. CASE ~(x = "node" /\ Miss("node"))
    <3>1. registry'[x] = registry[x] /\ age'[x] = age[x] /\ missed'[x] = missed[x]
      BY <1>1, <2>1, <2>3 DEF Miss, bucketVars, Types
    <3>2. SinceTurn(x)' \in Nat /\ SinceTurn(x) <= SinceTurn(x)'
      <4>1. CASE x = "node"
        BY <1>1, <1>2, <2>3, <4>1, Times DEF SinceTurn
      <4>2. CASE x = "caps"
        <5>1. SinceTurn("caps")' = spent' + (2 * PutTime + Jitter + Interval)
          BY <1>1 DEF SinceTurn
        <5>2. SinceTurn("caps") = spent + PutTime + Jitter + Interval
          BY <1>1, <1>2, Times DEF SinceTurn
        <5> QED BY <1>1, <1>2, <4>2, <5>1, <5>2, Times
      <4> QED BY <2>1, <4>1, <4>2
    <3> QED BY <1>2, <3>1, <3>2, YoungStays
  <2> QED BY <2>2, <2>3
<1>5. KeptIsYoung'
  BY <1>1, <1>4 DEF KeptIsYoung
<1>6. CapsSeen \subseteq Capabilities
  BY DEF CapsSeen, Types
<1>7. Types'
  <2>1. /\ age' \in [Key -> Nat] /\ missed' \in [Key -> 0 .. MaxMisses]
        /\ DOMAIN registry' = Key
    <3>1. CASE UNCHANGED bucketVars
      BY <3>1 DEF bucketVars, Types
    <3>2. ASSUME NEW k \in Key, Miss(k)
          PROVE  age' = age /\ missed' \in [Key -> 0 .. MaxMisses] /\ registry' = registry
      BY <3>2, Times DEF Miss, Types
    <3> QED BY <1>1, <3>1, <3>2 DEF Types
  <2> QED BY <1>1, <1>2, <1>6, <2>1 DEF Types, appVars, Phases
<1>8. Unregistering'
  BY <1>1, <1>2 DEF Unregistering, appVars, Phases
<1> QED BY <1>3, <1>5, <1>7, <1>8

\* heartbeatLoop, where the write of the second key returns.
LEMMA BeatCapsInv ==
  ASSUME GoInv, BeatCaps
  PROVE  GoInv'
<1> USE DEF GoInv
<1>1. /\ alive /\ alive' = alive /\ loop' = "sleep" /\ spent' = 0 /\ kept' = kept /\ UNCHANGED appVars
      /\ carry' = Nothing /\ "caps" \in Key
      /\ \/ loop = "caps" /\ Miss("caps")
         \/ loop = "capsStored" /\ UNCHANGED bucketVars
  BY DEF BeatCaps, WriteReturns, AfterStore, Key
<1>2. loop \in Phases /\ spent \in Nat /\ spent <= PutTime
  BY <1>1 DEF Phases, InTime
<1>3. InTime'
  BY <1>1, Times DEF InTime
<1>4. ASSUME NEW x \in kept
      PROVE  registry'[x] # None /\ age'[x] <= missed'[x] * Round + SinceTurn(x)'
  <2>1. x \in Key /\ x \in {"node", "caps"}
    BY DEF Types, Key
  <2>2. CASE x = "caps" /\ Miss("caps")
    <3>1. SinceTurn("caps")' = spent' + PutTime
      BY <1>1 DEF SinceTurn
    <3>2. SinceTurn("caps")' = PutTime
      BY <1>1, <3>1, Times
    <3> QED BY <1>2, <2>2, <3>2, AnotherRound
  <2>3. CASE ~(x = "caps" /\ Miss("caps"))
    <3>1. registry'[x] = registry[x] /\ age'[x] = age[x] /\ missed'[x] = missed[x]
      BY <1>1, <2>1, <2>3 DEF Miss, bucketVars, Types
    <3>2. SinceTurn(x)' \in Nat /\ SinceTurn(x) <= SinceTurn(x)'
      <4>1. CASE x = "node"
        BY <1>1, <1>2, <2>3, <4>1, Times DEF SinceTurn
      <4>2. CASE x = "caps"
        BY <1>1, <1>2, <2>3, <4>2, Times DEF SinceTurn
      <4> QED BY <2>1, <4>1, <4>2
    <3> QED BY <1>2, <3>1, <3>2, YoungStays
  <2> QED BY <2>2, <2>3
<1>5. KeptIsYoung'
  BY <1>1, <1>4 DEF KeptIsYoung
<1>6. Nothing \in Capabilities
  BY DEF Nothing, Capabilities
<1>7. Types'
  <2>1. /\ age' \in [Key -> Nat] /\ missed' \in [Key -> 0 .. MaxMisses]
        /\ DOMAIN registry' = Key
    <3>1. CASE UNCHANGED bucketVars
      BY <3>1 DEF bucketVars, Types
    <3>2. ASSUME NEW k \in Key, Miss(k)
          PROVE  age' = age /\ missed' \in [Key -> 0 .. MaxMisses] /\ registry' = registry
      BY <3>2, Times DEF Miss, Types
    <3> QED BY <1>1, <3>1, <3>2 DEF Types
  <2> QED BY <1>1, <1>2, <1>6, <2>1 DEF Types, appVars, Phases
<1>8. Unregistering'
  BY <1>1, <1>2 DEF Unregistering, appVars, Phases
<1> QED BY <1>3, <1>5, <1>7, <1>8

\* Disconnect, from the wait to its end.
LEMMA DisconnectInv ==
  ASSUME GoInv, Disconnecting
  PROVE  GoInv'
<1> USE DEF GoInv
<1>1. CASE HeartbeatDone
  BY <1>1, YoungElsewhere DEF HeartbeatDone, Types, Unregistering, loopVars, bucketVars
<1>2. CASE UnregisterNode \/ UnregisterCaps
  <2>1. loop = "over" /\ UNCHANGED loopVars
    BY <1>2 DEF UnregisterNode, UnregisterCaps, Unregistering
  <2>2. InTime' /\ KeptIsYoung'
    BY <2>1 DEF InTime, KeptIsYoung, loopVars, Phases
  <2>3. Types'
    BY <1>2 DEF UnregisterNode, UnregisterCaps, Delete, Types, loopVars
  <2>4. Unregistering'
    BY <1>2, <2>1 DEF UnregisterNode, UnregisterCaps, Delete, Types, Unregistering, loopVars, Key
  <2> QED BY <2>2, <2>3, <2>4
<1> QED BY <1>1, <1>2 DEF Disconnecting

\* Time: a turn that is still to come is less than a round away.
LEMMA TickInv ==
  ASSUME GoInv, Tick
  PROVE  GoInv'
<1> USE DEF GoInv
<1>1. Types'
  <2>1. ASSUME NEW k \in Key PROVE age'[k] \in Nat
    BY DEF Tick, Types
  <2> QED BY <2>1 DEF Tick, Types, appVars
<1>2. Unregistering'
  BY DEF Tick, Unregistering, Types, appVars, Key
<1>3. CASE loop \in Phases
  <2>1. Timed
    BY <1>3, Zenon DEF Timed, Types, Phases
  <2>2. spent < Limit /\ spent' = spent + 1
    BY <2>1 DEF Tick
  <2>3. loop' = loop /\ kept' = kept /\ missed' = missed
    BY DEF Tick
  <2>4. InTime'
    BY <1>3, <2>2, <2>3, Times DEF InTime, Limit
  <2>5. ASSUME NEW x \in kept
        PROVE  registry'[x] # None /\ age'[x] <= missed'[x] * Round + SinceTurn(x)'
    <3>1. /\ x \in Key /\ registry[x] # None /\ age[x] \in Nat /\ missed[x] \in 0 .. MaxMisses
          /\ age[x] <= missed[x] * Round + SinceTurn(x)
      BY <1>3 DEF Types, KeptIsYoung
    <3>2. SinceTurn(x) \in Nat /\ SinceTurn(x) < Round + PutTime
      BY <1>3, <2>2, <3>1, Turns
    <3>3. missed[x] * Round \in Nat /\ missed[x] * Round + Round + PutTime <= TTL
      BY <3>1, Budget
    <3>4. age[x] < TTL
      BY <3>1, <3>2, <3>3, Times
    <3>5. registry'[x] = registry[x]
      BY <3>1, <3>4, Times DEF Tick
    <3>6. age'[x] = age[x] + 1
      BY <3>1, <3>5 DEF Tick
    <3>7. SinceTurn(x)' = SinceTurn(x) + 1
      BY <1>3, <2>2, <2>3, <3>1, Times DEF SinceTurn, InTime, Key, Phases
    <3> QED BY <2>3, <3>1, <3>2, <3>3, <3>5, <3>6, <3>7
  <2>6. KeptIsYoung'
    BY <2>3, <2>5 DEF KeptIsYoung
  <2> QED BY <1>1, <1>2, <2>4, <2>6
<1>4. CASE loop \notin Phases
  <2>1. loop' = loop /\ spent' = spent
    BY <1>4 DEF Tick, Timed
  <2>2. InTime' /\ KeptIsYoung'
    BY <1>4, <2>1 DEF InTime, KeptIsYoung
  <2> QED BY <1>1, <1>2, <2>2
<1> QED BY <1>3, <1>4

-----------------------------------------------------------------------------
\* The invariant, and what follows from it

\* The inductive invariant of a node of the Go SDK.
THEOREM GoInvariant == Spec => []GoInv
<1>1. Init => GoInv
  BY InitInv
<1>2. GoInv /\ [Next]_vars => GoInv'
  <2> SUFFICES ASSUME GoInv, [Next]_vars PROVE GoInv'
    OBVIOUS
  <2>1. CASE App
    BY <2>1, AppInv, DiesInv DEF App, DisconnectAgain, Exit
  <2>2. CASE Registering
    BY <2>2, AppInv, RegisterInv DEF Registering
  <2>3. CASE RunReturns
    BY <2>3, AppInv
  <2>4. CASE Beating
    BY <2>4, LoopInv, StoreInv, BeatNodeInv, BeatCapsInv DEF Beating
  <2>5. CASE Disconnecting
    BY <2>5, DisconnectInv
  <2>6. CASE Tick
    BY <2>6, TickInv
  <2>7. CASE UNCHANGED vars
    BY <2>7, YoungElsewhere
       DEF vars, appVars, loopVars, bucketVars, GoInv, Types, Unregistering
  <2> QED BY <2>1, <2>2, <2>3, <2>4, <2>5, <2>6, <2>7 DEF Next
<1> QED BY <1>1, <1>2, PTL DEF Spec

\* For all times within the TTL's budget: what heartbeatLoop has written does not
\* expire while the node runs, however its writes fail, and however slow they are.
THEOREM KeysDoNotExpire == Spec => []ListedWhileRunning
<1>1. GoInv => ListedWhileRunning
  BY DEF GoInv, Types, KeptIsYoung, ListedWhileRunning
<1> QED BY <1>1, GoInvariant, PTL

\* A node that Disconnect has returned for is gone, but for what could not be
\* deleted: no heartbeat and no call of Register is left to write its keys again.
THEOREM DisconnectedIsGone == Spec => []GoneAfterDisconnect
<1>1. GoInv => GoneAfterDisconnect
  BY DEF GoInv, Unregistering, GoneAfterDisconnect, Key
<1> QED BY <1>1, GoInvariant, PTL

\* The parts of TypeOK that are not in GoInv.
BucketTypes ==
  /\ registry["node"] \in {Online, None} /\ registry["caps"] \in Capabilities \cup {None}
  /\ age \in [Key -> 0 .. TTL] /\ undeleted \in SUBSET Key

NodeTypes ==
  /\ conn \in {"none", "open", "drained"}
  /\ register \in {"idle", "storing", "node", "caps"} /\ registers \in 0 .. MaxRegister
  /\ run \in {"idle", "failed", "running", "over"}
  /\ spent \in 0 .. Interval + Jitter + PutTime
  /\ disconnect \in {"idle", "waiting", "node", "caps", "done"}

\* A write leaves the bucket well typed.
LEMMA WriteTypes ==
  ASSUME Types, BucketTypes, NEW k \in Key, NEW v,
         \/ k = "node" /\ v = Online
         \/ k = "caps" /\ v \in Capabilities,
         Put(k, v) \/ Miss(k)
  PROVE  BucketTypes'
<1>1. CASE Put(k, v)
  BY <1>1, Times DEF Put, Types, BucketTypes, Key
<1>2. CASE Miss(k)
  BY <1>2 DEF Miss, BucketTypes
<1> QED BY <1>1, <1>2

\* The bucket, step by step.
LEMMA BucketTyped ==
  ASSUME GoInv, BucketTypes, [Next]_vars
  PROVE  BucketTypes'
<1> USE DEF GoInv
<1> "node" \in Key /\ "caps" \in Key
  BY DEF Key
<1>1. CASE App \/ RunReturns \/ HeartbeatDone \/ Stored \/ Stopped \/ Fire \/ Wake
  <2>1. UNCHANGED <<registry, age>> /\ (undeleted' = undeleted \/ undeleted' = {})
    BY <1>1 DEF App, Connect, Run, RunFails, Disconnect, DisconnectAgain, Exit, Dies, Register, RunReturns,
                HeartbeatDone, Stored, Stopped, Fire, Wake, bucketVars
  <2> QED BY <2>1 DEF BucketTypes
<1>2. CASE RegisterNode \/ StoreNode
  BY <1>2, WriteTypes DEF RegisterNode, StoreNode, Store, Value
<1>3. CASE RegisterCapabilities
  BY <1>3, WriteTypes DEF RegisterCapabilities, Types
<1>4. CASE StoreCaps
  BY <1>4, WriteTypes DEF StoreCaps, Store, Types, Value
<1>8. CASE BeatNode \/ BeatCaps
  BY <1>8 DEF BeatNode, BeatCaps, WriteReturns, Miss, bucketVars, BucketTypes
<1>5. CASE UnregisterNode \/ UnregisterCaps
  BY <1>5 DEF UnregisterNode, UnregisterCaps, Delete, Types, BucketTypes, Key
<1>6. CASE Tick
  <2>1. ASSUME NEW k \in Key PROVE age'[k] \in 0 .. TTL
    <3>1. registry'[k] = None \/ age[k] # TTL
      BY <1>6 DEF Tick
    <3>2. age'[k] = 0 \/ (age[k] # TTL /\ age'[k] = age[k] + 1)
      BY <1>6, <3>1 DEF Tick
    <3>3. age[k] \in 0 .. TTL
      BY DEF BucketTypes
    <3> QED BY <3>2, <3>3, Times
  <2>2. age' \in [Key -> 0 .. TTL]
    BY <1>6, <2>1 DEF Tick
  <2>3. \A k \in Key : registry'[k] \in {registry[k], None}
    BY <1>6 DEF Tick
  <2> QED BY <1>6, <2>2, <2>3 DEF Tick, BucketTypes
<1>7. CASE UNCHANGED vars
  BY <1>7 DEF vars, bucketVars, BucketTypes
<1> QED
  BY <1>1, <1>2, <1>3, <1>4, <1>5, <1>6, <1>7, <1>8
     DEF Next, Registering, Beating, Disconnecting

\* The variables hold what Node and the bucket may hold, and no key gets older
\* than the TTL.
THEOREM GoTypes == Spec => []TypeOK
<1>1. Init => BucketTypes /\ NodeTypes
  BY Times, TimesAreNaturals DEF Init, BucketTypes, NodeTypes, Key
<1>2. GoInv /\ NodeTypes /\ [Next]_vars => NodeTypes'
  <2> SUFFICES ASSUME GoInv, NodeTypes, [Next]_vars PROVE NodeTypes'
    OBVIOUS
  <2> USE Times DEF NodeTypes
  <2>1. CASE App
    BY <2>1, TimesAreNaturals
       DEF App, Connect, Run, RunFails, Disconnect, DisconnectAgain, Exit, Dies, Register, loopVars
  <2>2. CASE Registering \/ RunReturns
    BY <2>2 DEF Registering, Stored, RegisterNode, RegisterCapabilities, RunReturns, loopVars
  <2>3. CASE Beating
    BY <2>3 DEF Beating, Stopped, Fire, StoreNode, StoreCaps, Store, BeatNode, BeatCaps,
                WriteReturns, Wake, appVars
  <2>4. CASE Disconnecting
    BY <2>4 DEF Disconnecting, HeartbeatDone, UnregisterNode, UnregisterCaps, loopVars
  <2>5. CASE Tick
    <3>1. spent' = spent \/ (spent < Limit /\ spent' = spent + 1)
      BY <2>5 DEF Tick
    <3>2. Limit \in 0 .. Interval + Jitter + PutTime
      BY DEF Limit
    <3>3. spent' \in 0 .. Interval + Jitter + PutTime
      BY <3>1, <3>2
    <3> QED BY <2>5, <3>3 DEF Tick, appVars
  <2>6. CASE UNCHANGED vars
    BY <2>6 DEF vars, appVars, loopVars
  <2> QED BY <2>1, <2>2, <2>3, <2>4, <2>5, <2>6 DEF Next
<1>3. Init => alive \in BOOLEAN
  BY Zenon DEF Init
<1>4. alive \in BOOLEAN /\ [Next]_vars => (alive \in BOOLEAN)'
  <2>1. [Next]_vars => alive' = alive \/ alive' = FALSE
    BY DEF Next, App, Connect, Run, RunFails, Disconnect, DisconnectAgain, Exit, Dies, Register,
           Registering, Stored, RegisterNode, RegisterCapabilities, RunReturns, Beating,
           Stopped, Fire, StoreNode, StoreCaps, Store, BeatNode, BeatCaps, WriteReturns,
           Wake, Disconnecting, HeartbeatDone,
           UnregisterNode, UnregisterCaps, Tick, vars
  <2> QED BY <2>1, Zenon
<1>5. GoInv /\ BucketTypes /\ NodeTypes /\ alive \in BOOLEAN => TypeOK
  BY DEF GoInv, Types, BucketTypes, NodeTypes, TypeOK
<1>6. GoInv /\ BucketTypes /\ [Next]_vars => BucketTypes'
  BY BucketTyped
<1> QED BY <1>1, <1>2, <1>3, <1>4, <1>5, <1>6, GoInvariant, PTL DEF Spec
=============================================================================
