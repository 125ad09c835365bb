------------------------------- MODULE GoNode -------------------------------
(* A node of the Go SDK: go/node.go and the registry of go/discovery.go.  It *)
(* keeps no connections to peers; it is found through a bucket of NATS, whose*)
(* keys expire, and a heartbeat goroutine writes its two keys again and      *)
(* again.  A step is what a goroutine does between two waits or round trips. *)
EXTENDS Naturals

CONSTANTS
  Cap,          \* names of agents, models and tools
  Offers,       \* what the application may pass to Register
  MaxRegister,  \* bound: calls of Register
  Interval,     \* Node.heartbeatInterval, in ticks
  Jitter,       \* the longest sleep at the end of a round
  PutTime,      \* external: how long a write to the bucket takes at most
  TTL,          \* age at which the bucket drops a key
  MaxMisses,    \* external: writes of one key that may fail in a row
  Faults,       \* which other failures the environment may inject
  None

Category == {"agents", "models", "tools"}
Capabilities == [Category -> SUBSET Cap]
Key == {"node", "caps"}   \* node:<id> and caps:<id>
Online == "online"        \* the NodeInfo, of which nothing else matters here
Value == Capabilities \cup {Online}

ASSUME OffersType == Offers \subseteq Capabilities
ASSUME TimesAreNaturals ==
  {MaxRegister, Interval, Jitter, PutTime, TTL, MaxMisses} \subseteq Nat
\* The bucket ages a key from its store, which may come at the beginning of one
\* write and at the end of the next.
ASSUME RoundsFitTTL ==
  (MaxMisses + 1) * (Interval + Jitter + 2 * PutTime) + PutTime <= TTL
ASSUME FaultsAreKnown == Faults \subseteq {"crash", "delete", "subscribe"}
ASSUME NoneIsNoValue == None \notin Value

VARIABLES
  alive,       \* the process
  conn,        \* Node.nc and .discovery: "none", "open", "drained"
  caps,        \* Node.caps
  register,    \* the call of Register: "idle", "storing", "node", "caps"
  want,        \* the capabilities it was called with
  registers,   \* how many calls there were
  run,         \* the call of Run: "idle", "failed", "running", "over"
  loop,        \* heartbeatLoop: "none", "select", "node", "nodeStored", "caps",
               \* "capsStored", "sleep", "over"
  carry,       \* the capabilities it is about to write
  spent,       \* ticks since it reached that point
  disconnect,  \* Disconnect: "idle", "waiting" for hbDone, "node", "caps", "done"
  registry,    \* per key: the value in the bucket
  age,         \* per key: ticks since it was written
  missed,      \* per key: writes that failed since one succeeded
  kept,        \* (history) the keys that heartbeatLoop has written
  undeleted    \* (history) the keys that Unregister failed to delete

appVars == <<conn, caps, register, want, registers, run, disconnect>>
loopVars == <<loop, carry, spent, kept>>
bucketVars == <<registry, age, missed, undeleted>>
Phases == {"select", "node", "nodeStored", "caps", "capsStored", "sleep"}

vars == <<alive, appVars, loopVars, bucketVars>>

TypeOK ==
  /\ alive \in BOOLEAN
  /\ conn \in {"none", "open", "drained"}
  /\ caps \in Capabilities /\ want \in Capabilities /\ carry \in Capabilities
  /\ register \in {"idle", "storing", "node", "caps"}
  /\ registers \in 0 .. MaxRegister
  /\ run \in {"idle", "failed", "running", "over"}
  /\ loop \in Phases \cup {"none", "over"}
  /\ spent \in 0 .. Interval + Jitter + PutTime
  /\ disconnect \in {"idle", "waiting", "node", "caps", "done"}
  /\ registry["node"] \in {Online, None} /\ registry["caps"] \in Capabilities \cup {None}
  /\ age \in [Key -> 0 .. TTL]
  /\ missed \in [Key -> 0 .. MaxMisses]
  /\ kept \in SUBSET Key /\ undeleted \in SUBSET Key

Nothing == [x \in Category |-> {}]

Init ==
  /\ alive = TRUE /\ conn = "none"
  /\ caps = Nothing /\ want = Nothing /\ carry = Nothing
  /\ register = "idle" /\ registers = 0 /\ run = "idle" /\ loop = "none"
  /\ spent = 0 /\ disconnect = "idle"
  /\ registry = [k \in Key |-> None] /\ age = [k \in Key |-> 0]
  /\ missed = [k \in Key |-> 0] /\ kept = {} /\ undeleted = {}

\* The process ends, and its memory is gone.
Dies ==
  /\ alive' = FALSE /\ conn' = "none"
  /\ caps' = Nothing /\ want' = Nothing /\ carry' = Nothing
  /\ register' = "idle" /\ registers' = 0 /\ run' = "idle" /\ loop' = "none"
  /\ spent' = 0 /\ disconnect' = "idle"
  /\ missed' = [k \in Key |-> 0] /\ kept' = {} /\ undeleted' = {}
  /\ UNCHANGED <<registry, age>>

-----------------------------------------------------------------------------
\* The bucket

Put(k, v) ==
  /\ registry' = [registry EXCEPT ![k] = v]
  /\ age' = [age EXCEPT ![k] = 0]
  /\ missed' = [missed EXCEPT ![k] = 0]
  /\ UNCHANGED undeleted

Miss(k) ==
  /\ missed[k] < MaxMisses
  /\ missed' = [missed EXCEPT ![k] = @ + 1]
  /\ UNCHANGED <<registry, age, undeleted>>

\* Unregister ignores that a key could not be deleted.
Delete(k) ==
  /\ \/ registry' = [registry EXCEPT ![k] = None] /\ UNCHANGED undeleted
     \/ "delete" \in Faults /\ undeleted' = undeleted \cup {k} /\ UNCHANGED registry
  /\ UNCHANGED <<age, missed>>

-----------------------------------------------------------------------------
\* The application: Connect, Register, Run

Connect ==
  /\ alive /\ conn = "none" /\ disconnect = "idle"
  /\ conn' = "open"
  /\ UNCHANGED <<alive, caps, register, want, registers, run, disconnect, loopVars, bucketVars>>

\* Register stores the capabilities, without a lock, and writes both keys; it
\* returns at the first error: nothing was stored, or the answer was lost.  An
\* application that disconnects does not register meanwhile or later.
Register(offer) ==
  /\ alive /\ conn # "none" /\ register = "idle" /\ disconnect = "idle"
  /\ registers < MaxRegister
  /\ register' = "storing" /\ want' = offer /\ registers' = registers + 1
  /\ UNCHANGED <<alive, conn, caps, run, disconnect, loopVars, bucketVars>>

Stored ==
  /\ alive /\ register = "storing"
  /\ register' = "node" /\ caps' = want
  /\ UNCHANGED <<alive, conn, want, registers, run, disconnect, loopVars, bucketVars>>

RegisterNode ==
  /\ alive /\ register = "node"
  /\ \/ Put("node", Online) /\ register' \in {"caps", "idle"}
     \/ Miss("node") /\ register' = "idle"
  /\ UNCHANGED <<alive, conn, caps, want, registers, run, disconnect, loopVars>>

RegisterCapabilities ==
  /\ alive /\ register = "caps"
  /\ Put("caps", caps) \/ Miss("caps")
  /\ register' = "idle"
  /\ UNCHANGED <<alive, conn, caps, want, registers, run, disconnect, loopVars>>

\* Run: it subscribes, starts heartbeatLoop and waits for the shutdown.
Run ==
  /\ alive /\ conn = "open" /\ run \in {"idle", "failed"}
  /\ run' = "running" /\ loop' = "select" /\ spent' = 0
  /\ UNCHANGED <<alive, conn, caps, register, want, registers, disconnect, carry, kept, bucketVars>>

\* It returns an error, before it has started heartbeatLoop: the node is not
\* connected, or one of the subscriptions fails.
RunFails ==
  /\ alive /\ (conn # "open" \/ "subscribe" \in Faults) /\ run \in {"idle", "failed"}
  /\ run' = "failed"
  /\ UNCHANGED <<alive, conn, caps, register, want, registers, disconnect, loopVars, bucketVars>>

Shutdown == disconnect # "idle"   \* shutdownCh is closed

RunReturns ==
  /\ alive /\ run = "running" /\ Shutdown
  /\ run' = "over"
  /\ UNCHANGED <<alive, conn, caps, register, want, registers, disconnect, loopVars, bucketVars>>

\* Run or Disconnect returned, and main exits; or the process crashes.
Exit ==
  /\ alive /\ (run \in {"failed", "over"} \/ disconnect = "done" \/ "crash" \in Faults)
  /\ Dies

-----------------------------------------------------------------------------
\* heartbeatLoop

\* A bug: the loop ends when the connection is gone, not at the shutdown.
StoppedByDrain ==
  /\ alive /\ loop = "select" /\ conn = "drained"
  /\ loop' = "over"
  /\ UNCHANGED <<alive, appVars, carry, spent, kept, bucketVars>>

Stopped ==
  /\ alive /\ loop = "select" /\ Shutdown
  /\ loop' = "over"
  /\ UNCHANGED <<alive, appVars, carry, spent, kept, bucketVars>>

\* The timer: with shutdownCh closed as well, select may still pick it.
Fire ==
  /\ alive /\ loop = "select" /\ spent = Interval /\ conn = "open"
  /\ loop' = "node" /\ spent' = 0
  /\ UNCHANGED <<alive, appVars, carry, kept, bucketVars>>

\* What a read of Node.caps may see: while Register stores, some of both.
CapsSeen ==
  IF register # "storing" THEN {caps}
  ELSE {c \in Capabilities : \A x \in Category : c[x] \in {caps[x], want[x]}}

\* The bucket stores what heartbeatLoop writes, while it waits for the answer.
AfterStore == [k \in Key |-> IF k = "node" THEN "nodeStored" ELSE "capsStored"]

Store(k, v) ==
  /\ alive /\ loop = k
  /\ Put(k, v) /\ kept' = kept \cup {k}
  /\ loop' = AfterStore[k]
  /\ UNCHANGED <<alive, appVars, carry, spent>>

\* A bug: capabilities that did not change are not written again.
StoreCapsIfChanged ==
  IF registry["caps"] # carry THEN Store("caps", carry)
  ELSE /\ alive /\ loop = "caps" /\ loop' = "capsStored"
       /\ UNCHANGED <<alive, appVars, carry, spent, kept, bucketVars>>

StoreNode == Store("node", Online)
StoreCaps == Store("caps", carry)

\* The write of a key returns, with the answer of the bucket or, nothing being
\* stored, with an error, which is ignored.
WriteReturns(k) ==
  /\ alive /\ kept' = kept /\ spent' = 0
  /\ \/ loop = k /\ Miss(k)
     \/ loop = AfterStore[k] /\ UNCHANGED bucketVars

\* A bug: the capabilities are read in the first round only.
BeatNodeReadsOnce ==
  /\ WriteReturns("node")
  /\ IF "caps" \notin kept THEN carry' \in CapsSeen ELSE UNCHANGED carry
  /\ loop' = "caps"
  /\ UNCHANGED <<alive, appVars>>

\* RegisterNode returns; then Node.caps is read.
BeatNode ==
  /\ WriteReturns("node")
  /\ carry' \in CapsSeen
  /\ loop' = "caps"
  /\ UNCHANGED <<alive, appVars>>

\* RegisterCapabilities returns, with what was read, maybe of before a call of
\* Register.
BeatCaps ==
  /\ WriteReturns("caps")
  /\ loop' = "sleep" /\ carry' = Nothing
  /\ UNCHANGED <<alive, appVars>>

\* The jitter, which may be none, is over.
Wake ==
  /\ alive /\ loop = "sleep"
  /\ loop' = "select" /\ spent' = 0
  /\ UNCHANGED <<alive, appVars, carry, kept, bucketVars>>

-----------------------------------------------------------------------------
\* Disconnect

Disconnect ==
  /\ alive /\ disconnect = "idle" /\ register = "idle"
  /\ disconnect' = "waiting"
  /\ UNCHANGED <<alive, conn, caps, register, want, registers, run, loopVars, bucketVars>>

\* A second call closes the closed channel and panics.
DisconnectAgain ==
  /\ alive /\ Shutdown
  /\ Dies

\* A bug: the heartbeat goroutine is not waited for.
NotWaiting ==
  /\ alive /\ disconnect = "waiting" /\ loop # "none"
  /\ disconnect' = "node"
  /\ UNCHANGED <<alive, conn, caps, register, want, registers, run, loopVars, bucketVars>>

HeartbeatDone ==
  /\ alive /\ disconnect = "waiting" /\ loop = "over"
  /\ disconnect' = "node"
  /\ UNCHANGED <<alive, conn, caps, register, want, registers, run, loopVars, bucketVars>>

UnregisterNode ==
  /\ alive /\ disconnect = "node"
  /\ Delete("node")
  /\ disconnect' = "caps"
  /\ UNCHANGED <<alive, conn, caps, register, want, registers, run, loopVars>>

\* The second key, and Drain.
UnregisterCaps ==
  /\ alive /\ disconnect = "caps"
  /\ Delete("caps")
  /\ disconnect' = "done" /\ conn' = "drained"
  /\ UNCHANGED <<alive, caps, register, want, registers, run, loopVars>>

-----------------------------------------------------------------------------
\* Time

\* How long heartbeatLoop may stay where it is: a closed shutdownCh ends its
\* wait at once.
Limit == CASE loop = "select" -> IF Shutdown THEN 0 ELSE Interval
           [] loop \in {"node", "nodeStored", "caps", "capsStored"} -> PutTime
           [] loop = "sleep" -> Jitter
           [] OTHER -> 0
Timed == alive /\ loop \in Phases

\* A bug: the bucket has no TTL.
TickForever ==
  /\ Timed => spent < Limit
  /\ Timed \/ \E k \in Key : registry[k] # None
  /\ spent' = IF Timed THEN spent + 1 ELSE spent
  /\ UNCHANGED <<alive, appVars, loop, carry, kept, bucketVars>>

Tick ==
  /\ Timed => spent < Limit
  /\ Timed \/ \E k \in Key : registry[k] # None
  /\ spent' = IF Timed THEN spent + 1 ELSE spent
  /\ registry' = [k \in Key |-> IF age[k] = TTL THEN None ELSE registry[k]]
  /\ age' = [k \in Key |-> IF registry'[k] = None THEN 0 ELSE age[k] + 1]
  /\ UNCHANGED <<alive, appVars, loop, carry, kept, missed, undeleted>>

-----------------------------------------------------------------------------
App == Connect \/ Run \/ RunFails \/ Disconnect \/ DisconnectAgain \/ Exit
         \/ \E offer \in Offers : Register(offer)
Registering == Stored \/ RegisterNode \/ RegisterCapabilities
Beating == Stopped \/ Fire \/ StoreNode \/ BeatNode \/ StoreCaps \/ BeatCaps \/ Wake
Disconnecting == HeartbeatDone \/ UnregisterNode \/ UnregisterCaps

Next == App \/ Registering \/ RunReturns \/ Beating \/ Disconnecting \/ Tick

Spec == Init /\ [][Next]_vars

\* Goroutines go on, and so does time.
Fairness ==
  /\ WF_vars(Registering) /\ WF_vars(RunReturns) /\ WF_vars(Beating)
  /\ WF_vars(Disconnecting) /\ WF_vars(Tick)

FairSpec == Spec /\ Fairness

-----------------------------------------------------------------------------
\* Properties

\* What heartbeatLoop has written once stays in the bucket until it ends: jitter,
\* the time that writes take, a store early in one write and late in the next, and
\* failed writes do not add up to the TTL.
ListedWhileRunning ==
  disconnect \in {"idle", "waiting"} => \A k \in kept : registry[k] # None \/ loop = "over"

\* When Disconnect has returned, the node is in the registry no more, but for
\* keys that could not be deleted: no heartbeat under way writes them again.
GoneAfterDisconnect ==
  disconnect = "done" => \A k \in Key \ undeleted : registry[k] = None

\* Whatever heartbeatLoop read, half stored or overtaken by a call of Register,
\* the registry comes to hold the capabilities that the node has.
RegistryCatchesUp ==
  (alive /\ run = "running" /\ registry["caps"] # caps)
    ~> (registry["caps"] = caps \/ ~alive \/ run # "running")

\* Disconnect returns, but for a node whose Run was never called or has returned
\* an error: nothing but the goroutine that it did not start closes hbDone.
DisconnectReturns ==
  disconnect = "waiting" ~> (disconnect = "done" \/ ~alive \/ loop = "none")

\* A node that crashed, panicked or exited before it had unregistered is
\* forgotten.
DeadAreForgotten == ~alive ~> \A k \in Key : registry[k] = None
=============================================================================
