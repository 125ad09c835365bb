----------------------------- MODULE TaskOutbox -----------------------------
(* What send_task and the fallback queue promise for a task, without files,  *)
(* retries and flushes: a call is answered with the result or with QUEUED,   *)
(* or refused, and a queued task waits until it is delivered or ten minutes  *)
(* old, unless an attempt to deliver it breaks off or the storage is damaged.*)
CONSTANTS
  Task,       \* calls of send_task
  MayCrash    \* a Boolean: the process may end at any time

VARIABLES
  status,
  old,
  damaged,    \* some access to the storage has failed
  cut         \* tasks of which an attempt to deliver them broke off

vars == <<status, old, damaged, cut>>

TypeOK ==
  /\ status \in [Task -> {"new", "sending", "waiting", "delivered", "refused", "dropped"}]
  /\ old \in SUBSET Task
  /\ damaged \in BOOLEAN
  /\ cut \in SUBSET Task

Init == status = [t \in Task |-> "new"] /\ old = {} /\ damaged = FALSE /\ cut = {}

Submit(t) ==
  /\ status[t] = "new"
  /\ status' = [status EXCEPT ![t] = "sending"]
  /\ UNCHANGED <<old, damaged, cut>>

MayBeDamaged == damaged => damaged'

\* The first attempt ends.  Damaged storage may lose the task.
Answer(t) ==
  /\ status[t] = "sending"
  /\ \E s \in {"delivered", "waiting", "refused", "dropped"} :
       /\ s = "dropped" => damaged'
       /\ status' = [status EXCEPT ![t] = s]
  /\ MayBeDamaged /\ UNCHANGED <<old, cut>>

Deliver(t) ==
  /\ status[t] = "waiting"
  /\ status' = [status EXCEPT ![t] = "delivered"]
  /\ UNCHANGED <<old, damaged, cut>>

Age(t) ==
  /\ status[t] \in {"waiting", "delivered", "dropped"}
  /\ old' = old \cup {t}
  /\ UNCHANGED <<status, damaged, cut>>

\* Tasks are dropped: they are too old, or the storage is damaged.
Drop(ts) ==
  /\ \A t \in ts : status[t] = "waiting" /\ (t \in old \/ damaged')
  /\ status' = [t \in Task |-> IF t \in ts THEN "dropped" ELSE status[t]]
  /\ MayBeDamaged /\ UNCHANGED <<old, cut>>

\* An attempt to deliver a waiting task breaks off, and the task may be dropped.
BreakOff(t) ==
  /\ status[t] \in {"waiting", "delivered", "dropped"}
  /\ cut' = cut \cup {t}
  /\ \/ status[t] = "waiting" /\ status' = [status EXCEPT ![t] = "dropped"]
     \/ UNCHANGED status
  /\ UNCHANGED <<old, damaged>>

\* The process ends: a call under way is never answered, the attempts under way
\* break off, and of the tasks they were for some may be dropped.
Crash(ts) ==
  /\ MayCrash
  /\ \A t \in ts : status[t] = "waiting" /\ t \in cut'
  /\ status' = [t \in Task |-> IF t \in ts \/ status[t] = "sending"
                               THEN "dropped" ELSE status[t]]
  /\ cut \subseteq cut' /\ cut' \subseteq Task
  /\ \A t \in cut' \ cut : status[t] \in {"waiting", "delivered", "dropped"}
  /\ MayBeDamaged /\ UNCHANGED old

Next ==
  \/ \E t \in Task : Submit(t) \/ Answer(t) \/ Deliver(t) \/ Age(t) \/ BreakOff(t)
  \/ \E ts \in SUBSET Task : Drop(ts) \/ Crash(ts)

Spec == Init /\ [][Next]_vars
=============================================================================
