---------------------------- MODULE PendingQueue ----------------------------
(* The fallback queue of one node: send_task, _flush_pending and             *)
(* _retry_single_task of py/elo/node.py over py/elo/pending_queue.py.        *)
(*                                                                           *)
(* The queue is a file with a line per task; nothing reads the order of the  *)
(* lines, so it is a bag.  Every load and save is complete within a step     *)
(* (there is no await between them); an attempt to deliver takes many steps. *)
EXTENDS Naturals, FiniteSets

CONSTANTS
  Task,         \* the calls of send_task, each with its task_id
  Faults,       \* which failures the environment may inject
  MaxFailures   \* bound: no file operation fails after this many failures

ASSUME FaultsAreKnown == Faults \subseteq {"write", "read", "crash", "raise"}
ASSUME TasksAreFinite == IsFiniteSet(Task)
ASSUME FailureBound == MaxFailures \in Nat

VARIABLES
  running,    \* the process that owns the queue is alive
  call,       \* per task: how far its send_task has come
  file,       \* per task: readable lines of the file that hold it
  torn,       \* the last line of the file is cut short, without a newline
  flying,     \* per task: retries under way (_retry_single_task)
  old,        \* tasks created more than 600 seconds ago
  delivered,  \* (history) tasks whose success some attempt was told of
  failures,   \* (history) writes that failed and lines that a read missed
  cut         \* (history) tasks of which a retry broke off: it raised, or its
              \* process ended

vars == <<running, call, file, torn, flying, old, delivered, failures, cut>>

Stages == {"none", "first",   \* not called yet; the first attempt is under way
           "success",         \* returned the result
           "queued",          \* returned the error QUEUED
           "raised",          \* raised an exception
           "gone"}            \* its process ended before it returned

TypeOK ==
  /\ running \in BOOLEAN
  /\ call \in [Task -> Stages]
  /\ file \in [Task -> Nat]
  /\ torn \in BOOLEAN
  /\ flying \in [Task -> Nat]
  /\ old \in SUBSET Task
  /\ delivered \in SUBSET Task
  /\ failures \in Nat
  /\ cut \in SUBSET Task

Init ==
  /\ running = TRUE
  /\ call = [t \in Task |-> "none"]
  /\ file = [t \in Task |-> 0]
  /\ torn = FALSE
  /\ flying = [t \in Task |-> 0]
  /\ old = {} /\ delivered = {} /\ cut = {}
  /\ failures = 0

-----------------------------------------------------------------------------
\* pending_queue.py: each operation swallows its errors

Only(bag, ts) == [t \in Task |-> IF t \in ts THEN bag[t] ELSE 0]

MayFail(kind) == kind \in Faults /\ failures < MaxFailures

\* enqueue: a line is appended; to a line cut short by an earlier failure, it
\* makes a single unreadable one.
Append(t) ==
  \/ /\ file' = IF torn THEN file ELSE [file EXCEPT ![t] = @ + 1]
     /\ torn' = FALSE
     /\ UNCHANGED failures
  \/ /\ MayFail("write")
     /\ failures' = failures + 1
     /\ torn' \in {torn, TRUE}
     /\ UNCHANGED file

\* load_all: what it may return, all of the file or, after an error, some of it.
Loads == {file} \cup {Only(file, ts) : ts \in IF MayFail("read") THEN SUBSET Task ELSE {}}
Misread(seen) == Cardinality({t \in Task : seen[t] # file[t]})

\* A bug: the file is rewritten in place.
SaveInPlace(seen, bag) ==
  \/ /\ file' = bag /\ torn' = FALSE
     /\ failures' = failures + Misread(seen)
  \/ /\ MayFail("write")
     /\ failures' = failures + Misread(seen) + 1
     /\ file' = Only(file, {}) /\ torn' = TRUE

\* save_all(bag) after load_all returned `seen`: a new file replaces the old
\* one, or nothing changes.
Save(seen, bag) ==
  \/ /\ file' = bag /\ torn' = FALSE
     /\ failures' = failures + Misread(seen)
  \/ /\ MayFail("write")
     /\ failures' = failures + Misread(seen) + 1
     /\ UNCHANGED <<file, torn>>

-----------------------------------------------------------------------------
\* send_task, called by the application

Send(t) ==
  /\ running /\ call[t] = "none"
  /\ call' = [call EXCEPT ![t] = "first"]
  /\ UNCHANGED <<running, file, torn, flying, old, delivered, failures, cut>>

Succeeds(t) ==
  /\ call[t] = "first"
  /\ call' = [call EXCEPT ![t] = "success"]
  /\ delivered' = delivered \cup {t}
  /\ UNCHANGED <<running, file, torn, flying, old, failures, cut>>

\* Any error: no peer, no relay, the send failed, no RESULT in 30 seconds, or
\* the target executed the task and answered with an error.  All are queued.
Fails(t) ==
  /\ call[t] = "first"
  /\ call' = [call EXCEPT ![t] = "queued"]
  /\ Append(t)
  /\ UNCHANGED <<running, flying, old, delivered, cut>>

\* send_task itself raises, for instance on a QUERY_RESP whose first entry is no
\* record: the exception goes to the caller, and nothing is queued.
Raises(t) ==
  /\ "raise" \in Faults /\ call[t] = "first"
  /\ call' = [call EXCEPT ![t] = "raised"]
  /\ UNCHANGED <<running, file, torn, flying, old, delivered, failures, cut>>

-----------------------------------------------------------------------------
\* What a flush leaves in the file, `reach` being the tasks that have their
\* target, or a relay, connected; and two bugs: what is sent stays as well, what
\* is too old stays.
RemainingWithSent(seen, reach) == {t \in Task : seen[t] > 0} \ old
RemainingWithOld(seen, reach) == {t \in Task : seen[t] > 0} \ (reach \ old)
Remaining(seen, reach) == {t \in Task : seen[t] > 0} \ (old \cup reach)

\* _flush_pending.  Nothing is saved when every task stays where it is.
Flush(reach) ==
  /\ running
  /\ \E seen \in Loads :
       /\ \E t \in Task : seen[t] > 0 /\ t \notin Remaining(seen, reach)
       /\ flying' = [t \in Task |-> IF t \in reach \ old
                                    THEN flying[t] + seen[t] ELSE flying[t]]
       /\ Save(seen, Only(seen, Remaining(seen, reach)))
  /\ UNCHANGED <<running, call, old, delivered, cut>>

Landed(t) == flying' = [flying EXCEPT ![t] = @ - 1]

RetrySucceeds(t) ==
  /\ flying[t] > 0 /\ Landed(t)
  /\ delivered' = delivered \cup {t}
  /\ UNCHANGED <<running, call, file, torn, old, failures, cut>>

\* Two bugs: the task is dropped; the lines of the file are not looked at.
RetryFailsForGood(t) ==
  /\ flying[t] > 0 /\ Landed(t)
  /\ UNCHANGED <<running, call, file, torn, old, delivered, failures, cut>>

RetryFailsAppends(t) ==
  /\ flying[t] > 0 /\ Landed(t)
  /\ IF t \in old THEN UNCHANGED <<file, torn, failures>> ELSE Append(t)
  /\ UNCHANGED <<running, call, old, delivered, cut>>

\* The task goes back to the file unless it is too old or a line holds it.
RetryFails(t) ==
  /\ flying[t] > 0 /\ Landed(t)
  /\ IF t \in old
     THEN UNCHANGED <<file, torn, failures>>
     ELSE \E seen \in Loads :
            IF seen[t] = 0
            THEN Save(seen, [seen EXCEPT ![t] = 1])
            ELSE /\ failures' = failures + Misread(seen)
                 /\ UNCHANGED <<file, torn>>
  /\ UNCHANGED <<running, call, old, delivered, cut>>

\* The send_task of a retry raises: the task is not put back, and so dropped.
RetryRaises(t) ==
  /\ "raise" \in Faults /\ flying[t] > 0 /\ Landed(t)
  /\ cut' = cut \cup {t}
  /\ UNCHANGED <<running, call, file, torn, old, delivered, failures>>

-----------------------------------------------------------------------------
\* Ten minutes since the task was queued.
Ages(t) ==
  /\ call[t] = "queued" /\ t \notin old
  /\ old' = old \cup {t}
  /\ UNCHANGED <<running, call, file, torn, flying, delivered, failures, cut>>

\* The process ends, maybe while it appends a line, which counts as a failure.
Exit ==
  /\ "crash" \in Faults /\ running
  /\ running' = FALSE
  /\ call' = [t \in Task |-> IF call[t] = "first" THEN "gone" ELSE call[t]]
  /\ \/ UNCHANGED <<torn, failures>>
     \/ /\ \E t \in Task : call[t] = "first"
        /\ torn' = TRUE /\ failures' = failures + 1
  /\ flying' = [t \in Task |-> 0]
  /\ cut' = cut \cup {t \in Task : flying[t] > 0}
  /\ UNCHANGED <<file, old, delivered>>

\* A new process with the same identity, and so with the same file.
Restart ==
  /\ ~running
  /\ running' = TRUE
  /\ UNCHANGED <<call, file, torn, flying, old, delivered, failures, cut>>

Flushes == \E reach \in SUBSET Task : Flush(reach)
Ends(t) == RetrySucceeds(t) \/ RetryFails(t) \/ RetryRaises(t)

Next ==
  \/ \E t \in Task : \/ Send(t) \/ Succeeds(t) \/ Fails(t) \/ Raises(t)
                     \/ RetrySucceeds(t) \/ RetryFails(t) \/ RetryRaises(t)
                     \/ Ages(t)
  \/ Flushes
  \/ Exit \/ Restart

Spec == Init /\ [][Next]_vars

\* run() flushes every 30 seconds, an attempt ends by its time-out at the
\* latest, and time passes.
Fairness ==
  /\ WF_vars(Flushes)
  /\ \A t \in Task : WF_vars(Ends(t)) /\ WF_vars(Ages(t))

FairSpec == Spec /\ Fairness

-----------------------------------------------------------------------------
\* What the queue promises: TaskOutbox

Places(t) == file[t] + flying[t]

Status == [t \in Task |->
  CASE call[t] = "none" -> "new"
    [] call[t] = "first" -> "sending"
    [] call[t] = "raised" -> "refused"
    [] call[t] = "gone" -> "dropped"
    [] call[t] = "success" \/ (call[t] = "queued" /\ t \in delivered) -> "delivered"
    [] call[t] = "queued" /\ t \notin delivered /\ Places(t) > 0 -> "waiting"
    [] OTHER -> "dropped"]

Outbox == INSTANCE TaskOutbox
  WITH status <- Status, damaged <- failures > 0, MayCrash <- "crash" \in Faults

-----------------------------------------------------------------------------
\* Properties

\* The queue is an outbox: a task that is waiting is delivered, or dropped when
\* ten minutes old, after the file could not be read or written, or because a
\* retry of that very task broke off, in an exception or in a crash.
ImplementsOutbox == Outbox!Spec

\* No two lines of the file hold the same task, whatever fails and whenever the
\* process ends: a retry puts back only what no line holds.
OneLinePerTask == \A t \in Task : file[t] <= 1

\* As long as no access to the file has failed, a task is in one place: it waits
\* for a flush, or one attempt to deliver it is under way, and never a second.
InOnePlace ==
  failures = 0 =>
    \A t \in Task : Places(t) <= (IF call[t] = "queued" THEN 1 ELSE 0)

\* ANALISE_IMPACTO_CORE.md:346, persistence: a task that send_task reported as
\* queued is not forgotten before it is delivered or ten minutes old, unless the
\* file fails or a retry of it breaks off.
Kept(t) == call[t] = "queued" /\ t \notin old \cup delivered => Places(t) > 0
NothingLost == failures = 0 => \A t \in Task \ cut : Kept(t)

\* A line that a read misses costs at most the task in it; a failed write at most
\* two: its own, and the one that the next enqueue appends to the line cut short.
LossIsBounded == Cardinality({t \in Task \ cut : ~Kept(t)}) <= 2 * failures

\* A task leaves the queue if the process stays up at last: every flush that finds
\* no peer keeps it and every failed retry puts it back, but ten minutes bound them.
QueuedIsSettled ==
  <>[]running =>
    \A t \in Task : call[t] = "queued" ~> (t \in delivered \/ Places(t) = 0)
=============================================================================
