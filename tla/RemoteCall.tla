----------------------------- MODULE RemoteCall -----------------------------
(* What send_task promises without its queue, whatever carries the call: the *)
(* task is executed at most once, and a call that succeeds was executed, or  *)
(* met a node that had nothing to execute it with.  A call that fails may    *)
(* have been executed, or may still be.                                      *)
CONSTANTS Node, Task

VARIABLES
  state,   \* per task: its call has not begun, is open, or has ended; or it was
           \* sent without waiting for a result
  ran,     \* who has executed what
  unrun    \* who had no handler to execute what

vars == <<state, ran, unrun>>

Init == state = [t \in Task |-> "new"] /\ ran = {} /\ unrun = {}

Begin(t) ==
  /\ state[t] = "new"
  /\ \E s \in {"open", "error", "cast"} : state' = [state EXCEPT ![t] = s]
  /\ UNCHANGED <<ran, unrun>>

\* Where a task goes it is executed, or there is nothing to execute it, and once
\* only.  One that was sent to many may go to each of them.
Handle(t, n) ==
  /\ state[t] # "new" /\ <<t, n>> \notin ran \cup unrun
  /\ state[t] # "cast" => \A m \in Node : <<t, m>> \notin ran \cup unrun
  /\ \/ ran' = ran \cup {<<t, n>>} /\ UNCHANGED unrun
     \/ unrun' = unrun \cup {<<t, n>>} /\ UNCHANGED ran
  /\ UNCHANGED state

Succeed(t) ==
  /\ state[t] = "open" /\ \E n \in Node : <<t, n>> \in ran \cup unrun
  /\ state' = [state EXCEPT ![t] = "success"]
  /\ UNCHANGED <<ran, unrun>>

Fail(t) ==
  /\ state[t] = "open"
  /\ state' = [state EXCEPT ![t] = "error"]
  /\ UNCHANGED <<ran, unrun>>

Next ==
  \E t \in Task :
    \/ Begin(t) \/ Succeed(t) \/ Fail(t)
    \/ \E n \in Node : Handle(t, n)

Spec == Init /\ [][Next]_vars
=============================================================================
