------------------------- MODULE PendingQueueProofs -------------------------
(* Proofs about PendingQueue, for any set of tasks and any number of         *)
(* failures.                                                                 *)
EXTENDS PendingQueue, FiniteSetTheorems, TLAPS

-----------------------------------------------------------------------------
\* What the operations on the file may leave in it

\* The lines that survive are among those there were.
LEMMA OnlyIsBag ==
  ASSUME NEW bag \in [Task -> Nat], NEW ts
  PROVE  /\ Only(bag, ts) \in [Task -> Nat]
         /\ \A t \in Task : Only(bag, ts)[t] = IF t \in ts THEN bag[t] ELSE 0
BY DEF Only

LEMMA LoadsBelowFile ==
  ASSUME TypeOK, NEW seen \in Loads
  PROVE  /\ seen \in [Task -> Nat]
         /\ \A t \in Task : seen[t] = file[t] \/ seen[t] = 0
         /\ Misread(seen) \in Nat
         /\ Misread(seen) = 0 => seen = file
<1>1. file \in [Task -> Nat]
  BY DEF TypeOK
<1> DEFINE Missed == {t \in Task : seen[t] # file[t]}
<1>2. IsFiniteSet(Missed)
  BY TasksAreFinite, FS_Subset
<1>3. Misread(seen) \in Nat /\ (Misread(seen) = 0 <=> Missed = {})
  BY <1>2, FS_CardinalityType, FS_EmptySet DEF Misread
<1>4. /\ seen \in [Task -> Nat]
      /\ \A t \in Task : seen[t] = file[t] \/ seen[t] = 0
  <2>1. CASE seen = file
    BY <1>1, <2>1
  <2>2. CASE seen # file
    <3>1. PICK ts : seen = Only(file, ts)
      BY <2>2 DEF Loads
    <3>2. QED
      BY <1>1, <3>1, OnlyIsBag
  <2>3. QED
    BY <2>1, <2>2
<1>5. Missed = {} => seen = file
  BY <1>1, <1>4
<1>6. QED
  BY <1>3, <1>4, <1>5

\* A save after which no failure is counted wrote all of the file.
LEMMA CleanSave ==
  ASSUME TypeOK, NEW seen \in Loads, NEW bag, Save(seen, bag), failures' = 0
  PROVE  failures = 0 /\ seen = file /\ file' = bag /\ ~torn'
<1>1. Misread(seen) \in Nat /\ failures \in Nat /\ (Misread(seen) = 0 => seen = file)
  BY LoadsBelowFile DEF TypeOK
<1>2. file' = bag /\ torn' = FALSE /\ failures' = failures + Misread(seen)
  BY <1>1 DEF Save
<1>3. QED
  BY <1>1, <1>2

-----------------------------------------------------------------------------
\* Types

LEMMA TypeInit == Init => TypeOK
<1> SUFFICES ASSUME Init PROVE TypeOK
  OBVIOUS
<1>1. running \in BOOLEAN /\ torn \in BOOLEAN
  BY Zenon DEF Init
<1>2. /\ call \in [Task -> Stages]
      /\ file \in [Task -> Nat] /\ flying \in [Task -> Nat]
      /\ old \in SUBSET Task /\ delivered \in SUBSET Task
      /\ failures \in Nat /\ cut \in SUBSET Task
  BY DEF Init, Stages
<1>3. QED
  BY <1>1, <1>2 DEF TypeOK

LEMMA TypeStep == TypeOK /\ [Next]_vars => TypeOK'
<1> SUFFICES ASSUME TypeOK, [Next]_vars PROVE TypeOK'
  OBVIOUS
<1> USE DEF TypeOK, Stages
<1>1. ASSUME NEW t \in Task, Send(t) PROVE TypeOK'
  BY <1>1 DEF Send
<1>2. ASSUME NEW t \in Task, Succeeds(t) PROVE TypeOK'
  BY <1>2 DEF Succeeds
<1>3. ASSUME NEW t \in Task, Fails(t) PROVE TypeOK'
  <2>1. Append(t)
    BY <1>3 DEF Fails
  <2>a. file' = file \/ file' = [file EXCEPT ![t] = @ + 1]
    BY <2>1 DEF Append
  <2>b. failures' = failures \/ failures' = failures + 1
    BY <2>1 DEF Append
  <2>2. file' \in [Task -> Nat] /\ failures' \in Nat
    BY <2>a, <2>b
  <2> torn' \in BOOLEAN
    BY <2>1, Zenon DEF Append
  <2>3. call' \in [Task -> Stages]
    BY <1>3 DEF Fails
  <2>4. QED
    BY <1>3, <2>2, <2>3 DEF Fails
<1>4. ASSUME NEW reach \in SUBSET Task, Flush(reach) PROVE TypeOK'
  <2>1. PICK seen \in Loads :
          /\ flying' = [t \in Task |-> IF t \in reach \ old
                                       THEN flying[t] + seen[t] ELSE flying[t]]
          /\ Save(seen, Only(seen, Remaining(seen, reach)))
    BY <1>4 DEF Flush
  <2>2. seen \in [Task -> Nat] /\ Misread(seen) \in Nat
    BY LoadsBelowFile
  <2>3. flying' \in [Task -> Nat]
    BY <2>1, <2>2
  <2>4. file' \in [Task -> Nat] /\ failures' \in Nat
    BY <2>1, <2>2, OnlyIsBag DEF Save
  <2> torn' \in BOOLEAN
    BY <2>1, Zenon DEF Save
  <2>5. QED
    BY <1>4, <2>3, <2>4 DEF Flush
<1>5. ASSUME NEW t \in Task, RetrySucceeds(t) PROVE TypeOK'
  BY <1>5 DEF RetrySucceeds, Landed
<1>6. ASSUME NEW t \in Task, RetryFails(t) PROVE TypeOK'
  <2>1. flying' \in [Task -> Nat]
    BY <1>6 DEF RetryFails, Landed
  <2>2. file' \in [Task -> Nat] /\ failures' \in Nat /\ torn' \in BOOLEAN
    <3>1. CASE t \in old
      BY <1>6, <3>1 DEF RetryFails
    <3>2. CASE t \notin old
      <4>1. PICK seen \in Loads :
              IF seen[t] = 0
              THEN Save(seen, [seen EXCEPT ![t] = 1])
              ELSE failures' = failures + Misread(seen) /\ UNCHANGED <<file, torn>>
        BY <1>6, <3>2 DEF RetryFails
      <4>2. seen \in [Task -> Nat] /\ Misread(seen) \in Nat
        BY LoadsBelowFile
      <4>3. file' \in [Task -> Nat] /\ failures' \in Nat
        BY <4>1, <4>2 DEF Save
      <4>4. torn' \in BOOLEAN
        BY <4>1, Zenon DEF Save
      <4>5. QED
        BY <4>3, <4>4
    <3>3. QED
      BY <3>1, <3>2
  <2>3. QED
    BY <1>6, <2>1, <2>2 DEF RetryFails
<1>7. ASSUME NEW t \in Task, Ages(t) PROVE TypeOK'
  BY <1>7 DEF Ages
<1>8. CASE Exit
  <2>1. running' \in BOOLEAN /\ torn' \in BOOLEAN
    BY <1>8, Zenon DEF Exit
  <2>2. /\ call' \in [Task -> Stages] /\ file' \in [Task -> Nat]
        /\ flying' \in [Task -> Nat] /\ failures' \in Nat
        /\ old' \in SUBSET Task /\ delivered' \in SUBSET Task /\ cut' \in SUBSET Task
    BY <1>8 DEF Exit
  <2>3. QED
    BY <2>1, <2>2
<1>9. CASE Restart
  BY <1>9 DEF Restart
<1>10. CASE UNCHANGED vars
  BY <1>10 DEF vars
<1>11. ASSUME NEW t \in Task, Raises(t) PROVE TypeOK'
  BY <1>11 DEF Raises
<1>12. ASSUME NEW t \in Task, RetryRaises(t) PROVE TypeOK'
  BY <1>12 DEF RetryRaises, Landed
<1>13. QED
  BY <1>1, <1>2, <1>3, <1>4, <1>5, <1>6, <1>7, <1>8, <1>9, <1>10, <1>11, <1>12
  DEF Next, Flushes

\* Every variable keeps its type.
THEOREM QueueTypes == Spec => []TypeOK
<1>1. QED
  BY TypeInit, TypeStep, PTL DEF Spec

\* Failures are counted and never forgotten.
LEMMA FailuresGrow == ASSUME TypeOK, [Next]_vars PROVE failures <= failures'
<1> failures \in Nat
  BY DEF TypeOK
<1>1. ASSUME NEW t \in Task, Append(t) PROVE failures <= failures'
  <2>1. failures' = failures \/ failures' = failures + 1
    BY <1>1, Zenon DEF Append
  <2>2. QED
    BY <2>1
<1>2. ASSUME NEW seen \in Loads, NEW bag, Save(seen, bag) PROVE failures <= failures'
  BY <1>2, LoadsBelowFile DEF Save
<1>3. ASSUME NEW t \in Task, Fails(t) PROVE failures <= failures'
  BY <1>1, <1>3 DEF Fails
<1>4. ASSUME NEW reach \in SUBSET Task, Flush(reach) PROVE failures <= failures'
  BY <1>2, <1>4 DEF Flush
<1>5. ASSUME NEW t \in Task, RetryFails(t) PROVE failures <= failures'
  <2>1. CASE failures' = failures
    BY <2>1
  <2>2. ASSUME NEW seen \in Loads, failures' = failures + Misread(seen)
        PROVE  failures <= failures'
    BY <2>2, LoadsBelowFile
  <2>3. \/ failures' = failures
        \/ \E seen \in Loads : \/ Save(seen, [seen EXCEPT ![t] = 1])
                               \/ failures' = failures + Misread(seen)
    BY <1>5, Zenon DEF RetryFails
  <2>4. QED
    BY <1>2, <2>1, <2>2, <2>3
<1>6. CASE Exit
  BY <1>6 DEF Exit
<1>7. CASE failures' = failures
  BY <1>7
<1>8. QED
  BY <1>3, <1>4, <1>5, <1>6, <1>7
  DEF Next, Flushes, Send, Succeeds, Raises, RetrySucceeds, RetryRaises, Ages, Restart, vars

-----------------------------------------------------------------------------
\* One line per task, whatever fails.  A task gets its first line when its call
\* returns QUEUED, so until then no line may hold it.

LineInv ==
  /\ TypeOK
  /\ OneLinePerTask
  /\ \A t \in Task : call[t] # "queued" => file[t] = 0 /\ flying[t] = 0

\* What a failed retry may do to the lines of the file, whatever fails.
LEMMA RetryLines ==
  ASSUME TypeOK, NEW t \in Task, RetryFails(t)
  PROVE  \A s \in Task : file'[s] = file[s] \/ file'[s] = 0 \/ (s = t /\ file'[s] = 1)
<1>1. CASE t \in old
  BY <1>1 DEF RetryFails
<1>2. CASE t \notin old
  <2>1. PICK seen \in Loads :
          IF seen[t] = 0
          THEN Save(seen, [seen EXCEPT ![t] = 1])
          ELSE failures' = failures + Misread(seen) /\ UNCHANGED <<file, torn>>
    BY <1>2 DEF RetryFails
  <2>2. /\ seen \in [Task -> Nat]
        /\ \A s \in Task : seen[s] = file[s] \/ seen[s] = 0
    BY LoadsBelowFile
  <2>3. QED
    BY <2>1, <2>2 DEF Save
<1>3. QED
  BY <1>1, <1>2

LEMMA LineStep == LineInv /\ [Next]_vars => LineInv'
<1> SUFFICES ASSUME LineInv, [Next]_vars PROVE LineInv'
  OBVIOUS
<1> TypeOK /\ TypeOK'
  BY TypeStep DEF LineInv
<1> DEFINE Unqueued == \A t \in Task : call[t] # "queued" => file[t] = 0 /\ flying[t] = 0
<1> SUFFICES OneLinePerTask' /\ Unqueued'
  BY DEF LineInv
<1> OneLinePerTask /\ Unqueued
  BY DEF LineInv
<1> USE DEF OneLinePerTask
<1>1. ASSUME NEW t \in Task, Send(t) PROVE OneLinePerTask' /\ Unqueued'
  BY <1>1 DEF Send, TypeOK
<1>2. ASSUME NEW t \in Task, Succeeds(t) PROVE OneLinePerTask' /\ Unqueued'
  BY <1>2 DEF Succeeds, TypeOK
<1>3. ASSUME NEW t \in Task, Fails(t) PROVE OneLinePerTask' /\ Unqueued'
  <2>1. file' = file \/ file' = [file EXCEPT ![t] = @ + 1]
    BY <1>3 DEF Fails, Append
  <2>2. file[t] = 0
    BY <1>3 DEF Fails
  <2>3. OneLinePerTask'
    BY <2>1, <2>2 DEF TypeOK
  <2>4. call' = [call EXCEPT ![t] = "queued"] /\ UNCHANGED flying
    BY <1>3 DEF Fails
  <2>5. Unqueued'
    BY <2>1, <2>4 DEF TypeOK
  <2>6. QED
    BY <2>3, <2>5
<1>4. ASSUME NEW reach \in SUBSET Task, Flush(reach) PROVE OneLinePerTask' /\ Unqueued'
  <2>1. PICK seen \in Loads :
          /\ flying' = [t \in Task |-> IF t \in reach \ old
                                       THEN flying[t] + seen[t] ELSE flying[t]]
          /\ Save(seen, Only(seen, Remaining(seen, reach)))
    BY <1>4 DEF Flush
  <2>2. /\ seen \in [Task -> Nat]
        /\ \A t \in Task : seen[t] = file[t] \/ seen[t] = 0
    BY LoadsBelowFile
  <2>3. \A t \in Task : file'[t] = file[t] \/ file'[t] = 0
    BY <2>1, <2>2, OnlyIsBag DEF Save
  <2>4. OneLinePerTask'
    BY <2>3 DEF TypeOK
  <2>5. UNCHANGED call
    BY <1>4 DEF Flush
  <2>6. Unqueued'
    BY <2>1, <2>2, <2>3, <2>5 DEF TypeOK
  <2>7. QED
    BY <2>4, <2>6
<1>5. ASSUME NEW t \in Task, RetrySucceeds(t) PROVE OneLinePerTask' /\ Unqueued'
  BY <1>5 DEF RetrySucceeds, Landed, TypeOK
<1>6. ASSUME NEW t \in Task, RetryFails(t) PROVE OneLinePerTask' /\ Unqueued'
  <2>1. call[t] = "queued"
    BY <1>6 DEF RetryFails, TypeOK
  <2>2. \A s \in Task : file'[s] = file[s] \/ file'[s] = 0 \/ (s = t /\ file'[s] = 1)
    BY <1>6, RetryLines
  <2>3. OneLinePerTask'
    BY <2>2 DEF TypeOK
  <2>4. Unqueued'
    BY <1>6, <2>1, <2>2 DEF RetryFails, Landed, TypeOK
  <2>5. QED
    BY <2>3, <2>4
<1>7. ASSUME NEW t \in Task, Ages(t) PROVE OneLinePerTask' /\ Unqueued'
  BY <1>7 DEF Ages
<1>8. CASE Exit
  BY <1>8 DEF Exit, TypeOK
<1>9. CASE Restart
  BY <1>9 DEF Restart
<1>10. CASE UNCHANGED vars
  BY <1>10 DEF vars
<1>11. ASSUME NEW t \in Task, Raises(t) PROVE OneLinePerTask' /\ Unqueued'
  BY <1>11 DEF Raises, TypeOK
<1>12. ASSUME NEW t \in Task, RetryRaises(t) PROVE OneLinePerTask' /\ Unqueued'
  BY <1>12 DEF RetryRaises, Landed, TypeOK
<1>13. QED
  BY <1>1, <1>2, <1>3, <1>4, <1>5, <1>6, <1>7, <1>8, <1>9, <1>10, <1>11, <1>12
  DEF Next, Flushes

\* The file never holds a task twice, for any failures of the disk and any
\* crashes.
THEOREM FileHasNoTwins == Spec => []OneLinePerTask
<1>1. Init => LineInv
  BY TypeInit DEF Init, LineInv, OneLinePerTask
<1>2. LineInv => OneLinePerTask
  BY DEF LineInv
<1>3. QED
  BY <1>1, <1>2, LineStep, PTL DEF Spec
-----------------------------------------------------------------------------
\* One place per task.  While no failure is counted each load returns the whole
\* file and each save writes it, so a flush moves a line into a retry, and a retry
\* that fails moves it back.

\* What a flush that counts no failure does to the two places of a task.
LEMMA FlushMoves ==
  ASSUME failures' = 0, TypeOK, NEW reach \in SUBSET Task, Flush(reach)
  PROVE  \A t \in Task :
           \/ file'[t] = file[t] /\ flying'[t] = flying[t]
           \/ file'[t] = 0 /\ flying'[t] = flying[t] + file[t]
           \/ t \in old /\ file'[t] = 0 /\ flying'[t] = flying[t]
<1>1. PICK seen \in Loads :
        /\ flying' = [t \in Task |-> IF t \in reach \ old
                                     THEN flying[t] + seen[t] ELSE flying[t]]
        /\ Save(seen, Only(seen, Remaining(seen, reach)))
  BY DEF Flush
<1>2. seen = file /\ file \in [Task -> Nat] /\ flying \in [Task -> Nat]
  BY <1>1, CleanSave DEF TypeOK
<1>3. file' = Only(file, Remaining(file, reach))
  BY <1>1, <1>2, CleanSave
<1>4. ASSUME NEW t \in Task
      PROVE  \/ file'[t] = file[t] /\ flying'[t] = flying[t]
             \/ file'[t] = 0 /\ flying'[t] = flying[t] + file[t]
             \/ t \in old /\ file'[t] = 0 /\ flying'[t] = flying[t]
  <2>1. file'[t] = IF file[t] > 0 /\ t \notin old \cup reach THEN file[t] ELSE 0
    BY <1>2, <1>3, OnlyIsBag DEF Remaining
  <2>2. flying'[t] = IF t \in reach \ old THEN flying[t] + file[t] ELSE flying[t]
    BY <1>1, <1>2
  <2>3. file[t] > 0 \/ file[t] = 0
    BY <1>2
  <2>4. QED
    BY <2>1, <2>2, <2>3, <1>2
<1>5. QED
  BY <1>4

\* What a failed retry does when no access to the file fails.
LEMMA RetryMoves ==
  ASSUME failures' = 0, TypeOK, NEW t \in Task, RetryFails(t)
  PROVE  /\ flying[t] > 0 /\ flying' = [flying EXCEPT ![t] = @ - 1]
         /\ t \in old => file' = file
         /\ t \notin old => file' = [file EXCEPT ![t] = IF @ = 0 THEN 1 ELSE @]
<1>1. flying[t] > 0 /\ flying' = [flying EXCEPT ![t] = @ - 1]
  BY DEF RetryFails, Landed
<1>2. CASE t \in old
  BY <1>1, <1>2 DEF RetryFails
<1>3. CASE t \notin old
  <2>1. PICK seen \in Loads :
          IF seen[t] = 0
          THEN Save(seen, [seen EXCEPT ![t] = 1])
          ELSE failures' = failures + Misread(seen) /\ UNCHANGED <<file, torn>>
    BY <1>3 DEF RetryFails
  <2>2. /\ file \in [Task -> Nat] /\ failures \in Nat
        /\ Misread(seen) \in Nat /\ (Misread(seen) = 0 => seen = file)
    BY LoadsBelowFile DEF TypeOK
  <2>3. seen = file
    BY <2>1, <2>2, CleanSave
  <2>4. seen[t] = 0 => file' = [seen EXCEPT ![t] = 1]
    BY <2>1, CleanSave
  <2>5. seen[t] # 0 => file' = file
    BY <2>1
  <2>6. file' = [file EXCEPT ![t] = IF @ = 0 THEN 1 ELSE @]
    BY <2>2, <2>3, <2>4, <2>5
  <2>7. QED
    BY <1>1, <1>3, <2>6
<1>4. QED
  BY <1>2, <1>3

PlaceInv == TypeOK /\ InOnePlace

OnePlaceEach ==
  \A t \in Task : Places(t) <= (IF call[t] = "queued" THEN 1 ELSE 0)

LEMMA PlaceStep ==
  ASSUME PlaceInv, [Next]_vars PROVE PlaceInv'
<1> TypeOK /\ TypeOK'
  BY TypeStep DEF PlaceInv
<1> SUFFICES ASSUME failures' = 0 PROVE OnePlaceEach'
  BY DEF PlaceInv, InOnePlace, OnePlaceEach
<1> OnePlaceEach
  BY FailuresGrow DEF PlaceInv, InOnePlace, OnePlaceEach, TypeOK
<1> /\ call \in [Task -> Stages]
    /\ file \in [Task -> Nat] /\ file' \in [Task -> Nat]
    /\ flying \in [Task -> Nat] /\ flying' \in [Task -> Nat]
  BY DEF TypeOK
<1> USE DEF OnePlaceEach, Places
<1>1. ASSUME NEW t \in Task, Send(t) PROVE OnePlaceEach'
  BY <1>1 DEF Send
<1>2. ASSUME NEW t \in Task, Succeeds(t) PROVE OnePlaceEach'
  BY <1>2 DEF Succeeds
<1>3. ASSUME NEW t \in Task, Fails(t) PROVE OnePlaceEach'
  <2>1. file' = file \/ file' = [file EXCEPT ![t] = @ + 1]
    BY <1>3 DEF Fails, Append
  <2>2. /\ call[t] = "first" /\ call' = [call EXCEPT ![t] = "queued"]
        /\ flying' = flying
    BY <1>3 DEF Fails
  <2>3. QED
    BY <2>1, <2>2
<1>4. ASSUME NEW reach \in SUBSET Task, Flush(reach) PROVE OnePlaceEach'
  <2>1. call' = call
    BY <1>4 DEF Flush
  <2>2. \A t \in Task : file'[t] + flying'[t] <= file[t] + flying[t]
    BY <1>4, FlushMoves
  <2>3. QED
    BY <2>1, <2>2
<1>5. ASSUME NEW t \in Task, RetrySucceeds(t) PROVE OnePlaceEach'
  BY <1>5 DEF RetrySucceeds, Landed
<1>6. ASSUME NEW t \in Task, RetryFails(t) PROVE OnePlaceEach'
  <2>1. call' = call
    BY <1>6 DEF RetryFails
  <2>2. flying[t] > 0 /\ flying' = [flying EXCEPT ![t] = @ - 1]
    BY <1>6, RetryMoves
  <2>3. file[t] = 0 /\ flying[t] = 1
    BY <2>2
  <2>4. file' = file \/ file' = [file EXCEPT ![t] = 1]
    BY <1>6, <2>3, RetryMoves
  <2>5. QED
    BY <2>1, <2>2, <2>3, <2>4
<1>7. ASSUME NEW t \in Task, Ages(t) PROVE OnePlaceEach'
  BY <1>7 DEF Ages
<1>8. CASE Exit
  BY <1>8 DEF Exit
<1>9. CASE Restart
  BY <1>9 DEF Restart
<1>10. CASE UNCHANGED vars
  BY <1>10 DEF vars
<1>11. ASSUME NEW t \in Task, Raises(t) PROVE OnePlaceEach'
  BY <1>11 DEF Raises
<1>12. ASSUME NEW t \in Task, RetryRaises(t) PROVE OnePlaceEach'
  BY <1>12 DEF RetryRaises, Landed
<1>13. QED
  BY <1>1, <1>2, <1>3, <1>4, <1>5, <1>6, <1>7, <1>8, <1>9, <1>10, <1>11, <1>12
  DEF Next, Flushes

\* Until an access to the file fails, a task is in the file once, or in one
\* retry, or in neither, also across crashes.
THEOREM TaskInOnePlace == Spec => []InOnePlace
<1>1. Init => PlaceInv
  BY TypeInit DEF Init, PlaceInv, InOnePlace, Places
<1>2. PlaceInv => InOnePlace
  BY DEF PlaceInv
<1>3. QED
  BY <1>1, <1>2, PlaceStep, PTL DEF Spec

-----------------------------------------------------------------------------
\* Nothing is lost as long as nothing fails, but for what a crash cuts short.

KeptInv == TypeOK /\ NothingLost /\ (failures = 0 => ~torn)

LEMMA KeptStep == ASSUME KeptInv, [Next]_vars PROVE KeptInv'
<1> TypeOK /\ TypeOK'
  BY TypeStep DEF KeptInv
<1> DEFINE AllKept == \A t \in Task \ cut : Kept(t)
<1> SUFFICES ASSUME failures' = 0 PROVE AllKept' /\ ~torn'
  BY DEF KeptInv, NothingLost
<1>0. failures = 0 /\ AllKept /\ ~torn
  BY FailuresGrow DEF KeptInv, NothingLost, TypeOK
<1> AllKept
  BY <1>0
<1> /\ call \in [Task -> Stages] /\ old \in SUBSET Task /\ delivered \in SUBSET Task
    /\ file \in [Task -> Nat] /\ file' \in [Task -> Nat]
    /\ flying \in [Task -> Nat] /\ flying' \in [Task -> Nat]
  BY DEF TypeOK
<1> USE DEF Kept, Places
<1>1. ASSUME NEW t \in Task, Send(t) PROVE AllKept' /\ ~torn'
  BY <1>1, <1>0 DEF Send
<1>2. ASSUME NEW t \in Task, Succeeds(t) PROVE AllKept' /\ ~torn'
  BY <1>2, <1>0 DEF Succeeds
<1>3. ASSUME NEW t \in Task, Fails(t) PROVE AllKept' /\ ~torn'
  <2>1. Append(t)
    BY <1>3 DEF Fails
  <2>2. file' = [file EXCEPT ![t] = @ + 1] /\ ~torn'
    BY <2>1, <1>0 DEF Append
  <2>3. /\ call' = [call EXCEPT ![t] = "queued"]
        /\ flying' = flying /\ old' = old /\ delivered' = delivered /\ cut' = cut
    BY <1>3 DEF Fails
  <2>4. QED
    BY <2>2, <2>3
<1>4. ASSUME NEW reach \in SUBSET Task, Flush(reach) PROVE AllKept' /\ ~torn'
  <2>1. call' = call /\ old' = old /\ delivered' = delivered /\ cut' = cut
    BY <1>4 DEF Flush
  <2>2. AllKept'
    BY <1>4, <2>1, FlushMoves
  <2>3. ~torn'
    BY <1>4, CleanSave DEF Flush
  <2>4. QED
    BY <2>2, <2>3
<1>5. ASSUME NEW t \in Task, RetrySucceeds(t) PROVE AllKept' /\ ~torn'
  BY <1>5, <1>0 DEF RetrySucceeds, Landed
<1>6. ASSUME NEW t \in Task, RetryFails(t) PROVE AllKept' /\ ~torn'
  <2>1. call' = call /\ old' = old /\ delivered' = delivered /\ cut' = cut
    BY <1>6 DEF RetryFails
  <2>2. AllKept'
    BY <1>6, <2>1, RetryMoves
  <2>3. torn' = torn \/ \E seen \in Loads : \E bag : Save(seen, bag)
    BY <1>6 DEF RetryFails
  <2>4. ~torn'
    BY <2>3, <1>0, CleanSave
  <2>5. QED
    BY <2>2, <2>4
<1>7. ASSUME NEW t \in Task, Ages(t) PROVE AllKept' /\ ~torn'
  BY <1>7, <1>0 DEF Ages
<1>8. CASE Exit
  <2>1. ~torn'
    BY <1>0, <1>8 DEF Exit
  <2>2. /\ call' = [t \in Task |-> IF call[t] = "first" THEN "gone" ELSE call[t]]
        /\ cut' = cut \cup {t \in Task : flying[t] > 0}
        /\ file' = file /\ old' = old /\ delivered' = delivered
    BY <1>8 DEF Exit
  <2>3. QED
    BY <2>1, <2>2
<1>9. CASE Restart
  BY <1>9, <1>0 DEF Restart
<1>10. CASE UNCHANGED vars
  BY <1>10, <1>0 DEF vars
<1>11. ASSUME NEW t \in Task, Raises(t) PROVE AllKept' /\ ~torn'
  BY <1>11, <1>0 DEF Raises
<1>12. ASSUME NEW t \in Task, RetryRaises(t) PROVE AllKept' /\ ~torn'
  BY <1>12, <1>0 DEF RetryRaises, Landed
<1>13. QED
  BY <1>1, <1>2, <1>3, <1>4, <1>5, <1>6, <1>7, <1>8, <1>9, <1>10, <1>11, <1>12
  DEF Next, Flushes

\* Until an access to the file fails, a task that was queued is in the file or
\* being retried until it is delivered or ten minutes old, also across crashes,
\* unless a retry of it broke off.
THEOREM NothingForgotten == Spec => []NothingLost
<1>1. Init => KeptInv
  <2> SUFFICES ASSUME Init PROVE KeptInv
    OBVIOUS
  <2>1. ~torn
    BY Zenon DEF Init
  <2>2. NothingLost
    BY DEF Init, NothingLost, Kept
  <2>3. QED
    BY <2>1, <2>2, TypeInit DEF KeptInv
<1>2. KeptInv => NothingLost
  BY DEF KeptInv
<1>3. QED
  BY <1>1, <1>2, KeptStep, PTL DEF Spec

-----------------------------------------------------------------------------
\* The queue implements TaskOutbox.  A retry is always of a queued task, and no
\* line comes back to the file but by a failed retry of its task.

StatusFacts ==
  /\ Status \in [Task -> {"new", "sending", "waiting", "delivered", "refused", "dropped"}]
  /\ \A t \in Task :
       /\ call[t] = "none" => Status[t] = "new"
       /\ call[t] = "first" => Status[t] = "sending"
       /\ call[t] = "raised" => Status[t] = "refused"
       /\ call[t] = "gone" => Status[t] = "dropped"
       /\ call[t] = "success" => Status[t] = "delivered"
       /\ call[t] = "queued" /\ t \in delivered => Status[t] = "delivered"
       /\ call[t] = "queued" /\ t \notin delivered /\ Places(t) > 0 => Status[t] = "waiting"
       /\ call[t] = "queued" /\ t \notin delivered /\ ~(Places(t) > 0) => Status[t] = "dropped"

LEMMA StatusCases == TypeOK => StatusFacts
BY DEF TypeOK, Stages, Status, StatusFacts

LEMMA StatusCasesNext == TypeOK' => StatusFacts'
BY DEF TypeOK, Stages, Status, StatusFacts

Waits(t) == call[t] = "queued" /\ t \notin delivered /\ Places(t) > 0

\* Tasks that stop waiting in a step are dropped by the outbox, if they are old
\* or the step leaves a failure behind.
LEMMA DropStep ==
  ASSUME TypeOK, TypeOK', [Next]_vars, call' = call, delivered' = delivered, old' = old,
         cut' = cut, \A t \in Task : Waits(t)' => Waits(t),
         \A t \in Task : Waits(t) /\ ~Waits(t)' => t \in old \/ failures' > 0
  PROVE  Outbox!Next
<1> StatusFacts /\ StatusFacts'
  BY StatusCases, StatusCasesNext
<1> DEFINE ts == {t \in Task : Waits(t) /\ ~Waits(t)'}
<1>1. \A t \in Task : Waits(t) <=> Status[t] = "waiting"
  BY DEF Waits, StatusFacts, TypeOK, Stages
<1>2. \A t \in Task : Status'[t] = IF t \in ts THEN "dropped" ELSE Status[t]
  BY DEF Waits, StatusFacts, TypeOK, Stages
<1>3. Status' = [t \in Task |-> IF t \in ts THEN "dropped" ELSE Status[t]]
  BY <1>2 DEF StatusFacts
<1>4. failures > 0 => failures' > 0
  BY FailuresGrow DEF TypeOK
<1>5. \A t \in ts : Status[t] = "waiting" /\ (t \in old \/ failures' > 0)
  BY <1>1
<1>6. Outbox!Drop(ts)
  BY <1>3, <1>4, <1>5 DEF Outbox!Drop, Outbox!MayBeDamaged
<1>7. QED
  BY <1>6 DEF Outbox!Next

LEMMA OutboxNextStep ==
  ASSUME LineInv, PlaceInv, KeptInv, TypeOK', [Next]_vars
  PROVE  Outbox!Next \/ UNCHANGED Outbox!vars
<1> TypeOK
  BY DEF LineInv
<1> StatusFacts /\ StatusFacts'
  BY StatusCases, StatusCasesNext
<1> /\ call \in [Task -> Stages] /\ call' \in [Task -> Stages]
    /\ file \in [Task -> Nat] /\ file' \in [Task -> Nat]
    /\ flying \in [Task -> Nat] /\ flying' \in [Task -> Nat]
    /\ delivered \in SUBSET Task /\ failures \in Nat /\ failures' \in Nat
  BY DEF TypeOK
<1> \A t \in Task : call[t] # "queued" => file[t] = 0 /\ flying[t] = 0
  BY DEF LineInv
<1>0. failures > 0 => failures' > 0
  BY FailuresGrow
<1> USE DEF StatusFacts, Stages
<1> DEFINE Goal == Outbox!Next \/ UNCHANGED Outbox!vars
<1>1. ASSUME NEW t \in Task, Send(t) PROVE Goal
  <2>1. /\ call[t] = "none" /\ call' = [call EXCEPT ![t] = "first"]
        /\ file' = file /\ flying' = flying /\ old' = old /\ delivered' = delivered
        /\ failures' = failures /\ cut' = cut
    BY <1>1 DEF Send
  <2>2. Status' = [Status EXCEPT ![t] = "sending"]
    BY <2>1 DEF Places
  <2>3. Outbox!Submit(t)
    BY <2>1, <2>2 DEF Outbox!Submit
  <2>4. QED
    BY <2>3 DEF Outbox!Next
<1>2. ASSUME NEW t \in Task, Succeeds(t) PROVE Goal
  <2>1. /\ call[t] = "first" /\ call' = [call EXCEPT ![t] = "success"]
        /\ delivered' = delivered \cup {t}
        /\ file' = file /\ flying' = flying /\ old' = old /\ cut' = cut
    BY <1>2 DEF Succeeds
  <2>2. Status' = [Status EXCEPT ![t] = "delivered"]
    BY <2>1 DEF Places
  <2>3. Outbox!Answer(t)
    BY <1>0, <2>1, <2>2 DEF Outbox!Answer, Outbox!MayBeDamaged
  <2>4. QED
    BY <2>3 DEF Outbox!Next
<1>3. ASSUME NEW t \in Task, Fails(t) PROVE Goal
  <2>1. /\ call[t] = "first" /\ call' = [call EXCEPT ![t] = "queued"]
        /\ flying' = flying /\ old' = old /\ delivered' = delivered /\ cut' = cut
        /\ Append(t)
    BY <1>3 DEF Fails
  <2>2. file' = file \/ file' = [file EXCEPT ![t] = @ + 1]
    BY <2>1 DEF Append
  <2>a. failures' = 0 => file' = [file EXCEPT ![t] = @ + 1]
    <3>1. SUFFICES ASSUME failures' = 0 PROVE file' = [file EXCEPT ![t] = @ + 1]
      OBVIOUS
    <3>2. failures = 0
      BY <1>0, <3>1
    <3>3. ~torn
      BY <3>2 DEF KeptInv
    <3>4. QED
      BY <2>1, <3>1, <3>2, <3>3 DEF Append
  <2>3. Status' = [Status EXCEPT ![t] = Status'[t]]
    BY <2>1, <2>2 DEF Places
  <2>4. /\ Status[t] = "sending"
        /\ Status'[t] \in {"delivered", "waiting", "dropped"}
        /\ Status'[t] = "dropped" => failures' > 0
    BY <2>1, <2>2, <2>a DEF Places
  <2>5. Outbox!Answer(t)
    BY <1>0, <2>1, <2>3, <2>4 DEF Outbox!Answer, Outbox!MayBeDamaged
  <2>6. QED
    BY <2>5 DEF Outbox!Next
<1>4. ASSUME NEW reach \in SUBSET Task, Flush(reach) PROVE Goal
  <2>1. call' = call /\ old' = old /\ delivered' = delivered /\ cut' = cut
    BY <1>4 DEF Flush
  <2>2. ASSUME failures' = 0, NEW t \in Task, Waits(t), ~Waits(t)' PROVE t \in old
    BY <1>4, <2>1, <2>2, FlushMoves DEF Waits, Places
  <2>3. \A t \in Task : Waits(t)' => Waits(t)
    <3>1. PICK seen \in Loads :
            /\ flying' = [t \in Task |-> IF t \in reach \ old
                                         THEN flying[t] + seen[t] ELSE flying[t]]
            /\ Save(seen, Only(seen, Remaining(seen, reach)))
      BY <1>4 DEF Flush
    <3>2. /\ seen \in [Task -> Nat]
          /\ \A t \in Task : seen[t] = file[t] \/ seen[t] = 0
      BY LoadsBelowFile
    <3>3. \A t \in Task : file'[t] = file[t] \/ file'[t] = 0
      BY <3>1, <3>2, OnlyIsBag DEF Save
    <3>4. \A t \in Task : flying'[t] > 0 => flying[t] > 0 \/ file[t] > 0
      BY <3>1, <3>2
    <3>5. QED
      BY <2>1, <3>3, <3>4 DEF Waits, Places
  <2>4. QED
    BY <2>1, <2>2, <2>3, DropStep
<1>5. ASSUME NEW t \in Task, RetrySucceeds(t) PROVE Goal
  <2>1. /\ flying[t] > 0 /\ flying' = [flying EXCEPT ![t] = @ - 1]
        /\ delivered' = delivered \cup {t}
        /\ call' = call /\ file' = file /\ old' = old /\ failures' = failures
        /\ cut' = cut
    BY <1>5 DEF RetrySucceeds, Landed
  <2>2. call[t] = "queued" /\ Places(t) > 0
    BY <2>1 DEF Places
  <2>3. Status' = [Status EXCEPT ![t] = "delivered"]
    BY <2>1, <2>2 DEF Places
  <2>4. CASE t \in delivered
    <3>1. Status' = Status
      BY <2>2, <2>3, <2>4
    <3>2. QED
      BY <2>1, <3>1 DEF Outbox!vars
  <2>5. CASE t \notin delivered
    <3>1. Outbox!Deliver(t)
      BY <2>1, <2>2, <2>3, <2>5 DEF Outbox!Deliver
    <3>2. QED
      BY <3>1 DEF Outbox!Next
  <2>6. QED
    BY <2>4, <2>5
<1>6. ASSUME NEW t \in Task, RetryFails(t) PROVE Goal
  <2>1. call' = call /\ old' = old /\ delivered' = delivered /\ cut' = cut
    BY <1>6 DEF RetryFails
  <2>2. flying[t] > 0 /\ flying' = [flying EXCEPT ![t] = @ - 1]
    BY <1>6 DEF RetryFails, Landed
  <2>3. \A s \in Task : file'[s] = file[s] \/ file'[s] = 0 \/ (s = t /\ file'[s] = 1)
    BY <1>6, RetryLines
  <2>4. ASSUME NEW s \in Task, Waits(s)' PROVE Waits(s)
    <3>1. CASE s = t
      BY <2>1, <2>2, <2>4, <3>1 DEF Waits, Places
    <3>2. CASE s # t
      <4>1. flying'[s] = flying[s] /\ (file'[s] = file[s] \/ file'[s] = 0)
        BY <2>2, <2>3, <3>2
      <4>2. QED
        BY <2>1, <2>4, <4>1 DEF Waits, Places
    <3>3. QED
      BY <3>1, <3>2
  <2>5. ASSUME failures' = 0, NEW s \in Task, Waits(s), ~Waits(s)' PROVE s \in old
    <3>1. /\ t \in old => file' = file
          /\ t \notin old => file' = [file EXCEPT ![t] = IF @ = 0 THEN 1 ELSE @]
      BY <1>6, <2>5, RetryMoves
    <3>2. file[s] + flying[s] > 0 /\ ~(file'[s] + flying'[s] > 0)
      BY <2>1, <2>5 DEF Waits, Places
    <3>3. CASE t \in old
      BY <2>2, <3>1, <3>2, <3>3
    <3>4. CASE t \notin old
      BY <2>2, <3>1, <3>2, <3>4
    <3>5. QED
      BY <3>3, <3>4
  <2>6. QED
    BY <2>1, <2>4, <2>5, DropStep
<1>7. ASSUME NEW t \in Task, Ages(t) PROVE Goal
  <2>1. /\ call[t] = "queued" /\ old' = old \cup {t}
        /\ call' = call /\ file' = file /\ flying' = flying /\ delivered' = delivered
        /\ failures' = failures /\ cut' = cut
    BY <1>7 DEF Ages
  <2>2. Status' = Status
    BY <2>1 DEF Places
  <2>3. Status[t] \in {"waiting", "delivered", "dropped"}
    BY <2>1
  <2>4. Outbox!Age(t)
    BY <2>1, <2>2, <2>3 DEF Outbox!Age
  <2>5. QED
    BY <2>4 DEF Outbox!Next
<1>8. CASE Exit
  <2>1. /\ "crash" \in Faults
        /\ call' = [t \in Task |-> IF call[t] = "first" THEN "gone" ELSE call[t]]
        /\ flying' = [t \in Task |-> 0]
        /\ file' = file /\ old' = old /\ delivered' = delivered
        /\ cut' = cut \cup {t \in Task : flying[t] > 0}
    BY <1>8 DEF Exit
  <2> DEFINE ts == {t \in Task : Status[t] = "waiting" /\ Status'[t] = "dropped"}
  <2>2. Status' = [t \in Task |-> IF t \in ts \/ Status[t] = "sending"
                                  THEN "dropped" ELSE Status[t]]
    BY <2>1 DEF Places
  <2>a. \A t \in ts : Status[t] = "waiting" /\ t \in cut'
    BY <2>1 DEF Places
  <2>b. \A t \in cut' \ cut : Status[t] \in {"waiting", "delivered", "dropped"}
    BY <2>1
  <2>c. cut \subseteq cut' /\ cut' \subseteq Task
    BY <2>1 DEF TypeOK
  <2>3. Outbox!Crash(ts)
    BY <1>0, <2>1, <2>2, <2>a, <2>b, <2>c DEF Outbox!Crash, Outbox!MayBeDamaged
  <2>4. QED
    BY <2>3 DEF Outbox!Next
<1>9. CASE Restart
  BY <1>9 DEF Restart, Status, Places, Outbox!vars
<1>10. CASE UNCHANGED vars
  BY <1>10 DEF vars, Status, Places, Outbox!vars
<1>11. ASSUME NEW t \in Task, Raises(t) PROVE Goal
  <2>1. /\ call[t] = "first" /\ call' = [call EXCEPT ![t] = "raised"]
        /\ file' = file /\ flying' = flying /\ old' = old /\ delivered' = delivered
        /\ cut' = cut
    BY <1>11 DEF Raises
  <2>2. Status' = [Status EXCEPT ![t] = "refused"]
    BY <2>1 DEF Places
  <2>3. Outbox!Answer(t)
    BY <1>0, <2>1, <2>2 DEF Outbox!Answer, Outbox!MayBeDamaged
  <2>4. QED
    BY <2>3 DEF Outbox!Next
<1>12. ASSUME NEW t \in Task, RetryRaises(t) PROVE Goal
  <2>1. /\ flying[t] > 0 /\ flying' = [flying EXCEPT ![t] = @ - 1]
        /\ cut' = cut \cup {t}
        /\ call' = call /\ file' = file /\ old' = old /\ delivered' = delivered
        /\ failures' = failures
    BY <1>12 DEF RetryRaises, Landed
  <2>2. call[t] = "queued" /\ Places(t) > 0
    BY <2>1 DEF Places
  <2>3. \A s \in Task \ {t} : Status'[s] = Status[s]
    BY <2>1 DEF Places
  <2>4. \/ Status[t] = "waiting" /\ Status'[t] = "dropped"
        \/ Status'[t] = Status[t]
    BY <2>1, <2>2 DEF Places
  <2>5. \/ Status[t] = "waiting" /\ Status' = [Status EXCEPT ![t] = "dropped"]
        \/ Status' = Status
    BY <2>3, <2>4
  <2>6. Status[t] \in {"waiting", "delivered", "dropped"}
    BY <2>2
  <2>7. Outbox!BreakOff(t)
    BY <2>1, <2>5, <2>6 DEF Outbox!BreakOff
  <2>8. QED
    BY <2>7 DEF Outbox!Next
<1>13. QED
  BY <1>1, <1>2, <1>3, <1>4, <1>5, <1>6, <1>7, <1>8, <1>9, <1>10, <1>11, <1>12
  DEF Next, Flushes

\* send_task with its fallback queue is an outbox, whatever fails: what waits is
\* delivered, or dropped when ten minutes old, when a retry of it breaks off, or
\* after an access to the file failed, and nothing else happens to it.
THEOREM QueueIsOutbox == Spec => ImplementsOutbox
<1> DEFINE Inv == LineInv /\ PlaceInv /\ KeptInv
<1>1. Init => Inv /\ Outbox!Init
  <2> SUFFICES ASSUME Init PROVE Inv /\ Outbox!Init
    OBVIOUS
  <2>1. TypeOK
    BY TypeInit
  <2>2. ~torn
    BY Zenon DEF Init
  <2>3. LineInv /\ PlaceInv
    BY <2>1 DEF Init, LineInv, OneLinePerTask, PlaceInv, InOnePlace, Places
  <2>4. KeptInv
    BY <2>1, <2>2 DEF Init, KeptInv, NothingLost, Kept
  <2>5. Status = [t \in Task |-> "new"]
    BY <2>1, StatusCases DEF Init, StatusFacts
  <2>6. QED
    BY <2>3, <2>4, <2>5 DEF Init, Outbox!Init
<1>2. Inv /\ [Next]_vars => Inv'
  BY LineStep, PlaceStep, KeptStep
<1>3. Inv /\ Inv' /\ [Next]_vars => [Outbox!Next]_(Outbox!vars)
  <2> SUFFICES ASSUME Inv, Inv', [Next]_vars PROVE [Outbox!Next]_(Outbox!vars)
    OBVIOUS
  <2>1. TypeOK'
    BY DEF LineInv
  <2>2. QED
    BY <2>1, OutboxNextStep
<1>4. QED
  BY <1>1, <1>2, <1>3, PTL DEF Spec, ImplementsOutbox, Outbox!Spec

-----------------------------------------------------------------------------
\* The loss is bounded.  A line cut short stands for the task that the next
\* enqueue will lose, so it is counted with the tasks lost already.

Lost == {t \in Task \ cut : ~Kept(t)}
Cut == IF torn THEN 1 ELSE 0
Missed(seen) == {t \in Task : seen[t] # file[t]}

LossInv ==
  /\ TypeOK
  /\ Cardinality(Lost) + Cut <= 2 * failures

LEMMA LostIsFinite == IsFiniteSet(Lost) /\ Cardinality(Lost) \in Nat
BY TasksAreFinite, FS_Subset, FS_CardinalityType DEF Lost

LEMMA LostIsFiniteNext == IsFiniteSet(Lost') /\ Cardinality(Lost') \in Nat
BY TasksAreFinite, FS_Subset, FS_CardinalityType DEF Lost

\* A step that loses at most the tasks of X adds at most their number.
LEMMA LossGrows ==
  ASSUME NEW X \in SUBSET Task, Lost' \subseteq Lost \cup X
  PROVE  /\ Cardinality(X) \in Nat
         /\ Cardinality(Lost') <= Cardinality(Lost) + Cardinality(X)
<1>1. IsFiniteSet(X) /\ Cardinality(X) \in Nat
  BY TasksAreFinite, FS_Subset, FS_CardinalityType
<1>2. /\ IsFiniteSet(Lost \cup X)
      /\ Cardinality(Lost \cup X) = Cardinality(Lost) + Cardinality(X) - Cardinality(Lost \cap X)
  BY <1>1, LostIsFinite, FS_Union
<1>3. Cardinality(Lost \cap X) \in Nat
  BY <1>1, FS_Subset, FS_CardinalityType
<1>4. Cardinality(Lost') <= Cardinality(Lost \cup X)
  BY <1>2, FS_Subset
<1>5. QED
  BY <1>1, <1>2, <1>3, <1>4, LostIsFinite, LostIsFiniteNext

\* A step that loses at most the tasks of X keeps the bound if it counts enough
\* failures.
LEMMA LossStep ==
  ASSUME LossInv, TypeOK', NEW X \in SUBSET Task, Lost' \subseteq Lost \cup X,
         Cardinality(X) + Cut' + 2 * failures <= Cut + 2 * failures'
  PROVE  LossInv'
<1>1. /\ Cardinality(X) \in Nat
      /\ Cardinality(Lost') <= Cardinality(Lost) + Cardinality(X)
  BY LossGrows
<1>2. Cut \in Nat /\ Cut' \in Nat
  BY DEF Cut
<1>3. failures \in Nat /\ failures' \in Nat
  BY DEF LossInv, TypeOK
<1>4. Cardinality(Lost) + Cut <= 2 * failures
  BY DEF LossInv
<1>5. Cardinality(Lost') + Cut' <= 2 * failures'
  BY <1>1, <1>2, <1>3, <1>4, LostIsFinite, LostIsFiniteNext
<1>6. QED
  BY <1>5 DEF LossInv

\* The two ways a save may end, as far as the bound is concerned.
LEMMA SaveLoss ==
  ASSUME LossInv, TypeOK', NEW t \in Task, NEW seen \in Loads, NEW bag, Save(seen, bag),
         file' = bag => Lost' \subseteq Lost \cup Missed(seen),
         file' = file => Lost' \subseteq Lost \cup {t}
  PROVE  LossInv'
<1> /\ failures \in Nat /\ failures' \in Nat /\ torn \in BOOLEAN
    /\ Misread(seen) \in Nat /\ Misread(seen) = Cardinality(Missed(seen))
  BY LoadsBelowFile DEF LossInv, TypeOK, Misread, Missed
<1>1. CASE file' = bag /\ torn' = FALSE /\ failures' = failures + Misread(seen)
  <2>1. Missed(seen) \in SUBSET Task
    BY DEF Missed
  <2>2. Cut' = 0 /\ Cut \in Nat
    BY <1>1 DEF Cut
  <2>3. QED
    BY <1>1, <2>1, <2>2, LossStep
<1>2. CASE failures' = failures + Misread(seen) + 1 /\ UNCHANGED <<file, torn>>
  <2>1. Cardinality({t}) = 1
    BY FS_Singleton
  <2>2. Cut' = Cut /\ Cut \in Nat
    BY <1>2 DEF Cut
  <2>3. QED
    BY <1>2, <2>1, <2>2, LossStep
<1>3. QED
  BY <1>1, <1>2, Zenon DEF Save

\* Nothing is lost, or no longer counted as kept, by a step that leaves the file
\* and the retries alone.
LEMMA LosslessStep ==
  ASSUME LossInv, TypeOK', Lost' \subseteq Lost, torn' = torn, failures <= failures'
  PROVE  LossInv'
<1>1. Lost' \subseteq Lost \cup {} /\ Cardinality({}) = 0
  BY FS_EmptySet
<1>2. Cut' = Cut /\ Cut \in Nat
  BY DEF Cut
<1>3. failures \in Nat /\ failures' \in Nat
  BY DEF LossInv, TypeOK
<1>4. QED
  BY <1>1, <1>2, <1>3, LossStep

LEMMA LossInvStep == ASSUME LineInv, LossInv, [Next]_vars PROVE LossInv'
<1> TypeOK /\ TypeOK' /\ failures <= failures'
  BY TypeStep, FailuresGrow DEF LossInv
<1> /\ call \in [Task -> Stages] /\ old \in SUBSET Task /\ delivered \in SUBSET Task
    /\ file \in [Task -> Nat] /\ file' \in [Task -> Nat]
    /\ flying \in [Task -> Nat] /\ flying' \in [Task -> Nat]
    /\ failures \in Nat /\ failures' \in Nat /\ torn \in BOOLEAN
  BY DEF TypeOK
<1> USE DEF Lost, Kept, Places
<1>1. ASSUME NEW t \in Task, Send(t) PROVE LossInv'
  <2>1. Lost' \subseteq Lost /\ torn' = torn
    BY <1>1 DEF Send
  <2>2. QED
    BY <2>1, LosslessStep
<1>2. ASSUME NEW t \in Task, Succeeds(t) PROVE LossInv'
  <2>1. Lost' \subseteq Lost /\ torn' = torn
    BY <1>2 DEF Succeeds
  <2>2. QED
    BY <2>1, LosslessStep
<1>3. ASSUME NEW t \in Task, Fails(t) PROVE LossInv'
  <2>1. /\ call[t] = "first" /\ call' = [call EXCEPT ![t] = "queued"]
        /\ flying' = flying /\ old' = old /\ delivered' = delivered /\ cut' = cut
        /\ Append(t)
    BY <1>3 DEF Fails
  <2>2. Cardinality({t}) = 1 /\ Cardinality({}) = 0
    BY FS_Singleton, FS_EmptySet
  <2>3. CASE ~torn /\ file' = [file EXCEPT ![t] = @ + 1] /\ torn' = FALSE /\ failures' = failures
    <3>1. Lost' \subseteq Lost
      BY <2>1, <2>3
    <3>2. torn' = torn
      BY <2>3
    <3>3. QED
      BY <3>1, <3>2, LosslessStep
  <2>4. CASE torn /\ file' = file /\ torn' = FALSE /\ failures' = failures
    <3>1. Lost' \subseteq Lost \cup {t}
      BY <2>1, <2>4
    <3>2. Cut = 1 /\ Cut' = 0
      BY <2>4 DEF Cut
    <3>3. QED
      BY <2>2, <2>4, <3>1, <3>2, LossStep
  <2>5. CASE file' = file /\ failures' = failures + 1 /\ torn' \in {torn, TRUE}
    <3>1. Lost' \subseteq Lost \cup {t}
      BY <2>1, <2>5
    <3>2. (Cut = 0 \/ Cut = 1) /\ (Cut' = 0 \/ Cut' = 1)
      BY DEF Cut
    <3>3. Cardinality({t}) + Cut' + 2 * failures <= Cut + 2 * failures'
      <4>1. failures' = failures + 1 /\ Cardinality({t}) = 1
        BY <2>2, <2>5
      <4>2. QED
        BY <3>2, <4>1
    <3>4. QED
      BY <3>1, <3>3, LossStep
  <2>6. \/ torn' = FALSE /\ failures' = failures /\ file' = IF torn THEN file ELSE [file EXCEPT ![t] = @ + 1]
        \/ file' = file /\ failures' = failures + 1 /\ torn' \in {torn, TRUE}
    BY <2>1, Zenon DEF Append
  <2>7. QED
    BY <2>3, <2>4, <2>5, <2>6
<1>4. ASSUME NEW reach \in SUBSET Task, Flush(reach) PROVE LossInv'
  <2>1. PICK seen \in Loads :
          /\ \E t \in Task : seen[t] > 0 /\ t \notin Remaining(seen, reach)
          /\ flying' = [t \in Task |-> IF t \in reach \ old
                                       THEN flying[t] + seen[t] ELSE flying[t]]
          /\ Save(seen, Only(seen, Remaining(seen, reach)))
    BY <1>4 DEF Flush
  <2>2. /\ seen \in [Task -> Nat]
        /\ \A t \in Task : seen[t] = file[t] \/ seen[t] = 0
    BY LoadsBelowFile
  <2>3. call' = call /\ old' = old /\ delivered' = delivered /\ cut' = cut
    BY <1>4 DEF Flush
  <2>4. PICK t \in Task : TRUE
    BY <2>1
  <2>5. file' = file => Lost' \subseteq Lost \cup {t}
    BY <2>1, <2>2, <2>3
  <2>6. ASSUME file' = Only(seen, Remaining(seen, reach)), NEW s \in Lost', s \notin Missed(seen)
        PROVE  s \in Lost
    <3>1. seen[s] = file[s] /\ s \notin old
      BY <2>3, <2>6 DEF Missed
    <3>2. file'[s] = IF seen[s] > 0 /\ s \notin reach THEN seen[s] ELSE 0
      BY <2>2, <2>6, <3>1, OnlyIsBag DEF Remaining
    <3>3. flying'[s] = IF s \in reach THEN flying[s] + seen[s] ELSE flying[s]
      BY <2>1, <3>1
    <3>4. QED
      BY <2>2, <2>3, <3>1, <3>2, <3>3
  <2>7. QED
    BY <2>1, <2>5, <2>6, SaveLoss
<1>5. ASSUME NEW t \in Task, RetrySucceeds(t) PROVE LossInv'
  <2>1. Lost' \subseteq Lost /\ torn' = torn
    BY <1>5 DEF RetrySucceeds, Landed
  <2>2. QED
    BY <2>1, LosslessStep
<1>6. ASSUME NEW t \in Task, RetryFails(t) PROVE LossInv'
  <2>1. /\ call' = call /\ old' = old /\ delivered' = delivered /\ cut' = cut
        /\ flying[t] > 0 /\ flying' = [flying EXCEPT ![t] = @ - 1]
    BY <1>6 DEF RetryFails, Landed
  <2>2. CASE t \in old
    <3>1. Lost' \subseteq Lost /\ torn' = torn
      BY <1>6, <2>1, <2>2 DEF RetryFails
    <3>2. QED
      BY <3>1, LosslessStep
  <2>3. CASE t \notin old
    <3>1. PICK seen \in Loads :
            IF seen[t] = 0
            THEN Save(seen, [seen EXCEPT ![t] = 1])
            ELSE failures' = failures + Misread(seen) /\ UNCHANGED <<file, torn>>
      BY <1>6, <2>3 DEF RetryFails
    <3>2. /\ seen \in [Task -> Nat]
          /\ \A s \in Task : seen[s] = file[s] \/ seen[s] = 0
      BY LoadsBelowFile
    <3>3. CASE seen[t] = 0
      <4>1. file' = file => Lost' \subseteq Lost \cup {t}
        BY <2>1
      <4>2. file' = [seen EXCEPT ![t] = 1] => Lost' \subseteq Lost \cup Missed(seen)
        BY <2>1, <3>2 DEF Missed
      <4>3. QED
        BY <3>1, <3>3, <4>1, <4>2, SaveLoss
    <3>4. CASE seen[t] # 0
      <4>1. file' = file /\ torn' = torn /\ file[t] > 0
        BY <3>1, <3>2, <3>4
      <4>2. Lost' \subseteq Lost
        BY <2>1, <4>1
      <4>3. QED
        BY <4>1, <4>2, LosslessStep
    <3>5. QED
      BY <3>3, <3>4
  <2>4. QED
    BY <2>2, <2>3
<1>7. ASSUME NEW t \in Task, Ages(t) PROVE LossInv'
  <2>1. Lost' \subseteq Lost /\ torn' = torn
    BY <1>7 DEF Ages
  <2>2. QED
    BY <2>1, LosslessStep
<1>8. CASE Exit
  <2>1. /\ call' = [t \in Task |-> IF call[t] = "first" THEN "gone" ELSE call[t]]
        /\ cut' = cut \cup {t \in Task : flying[t] > 0}
        /\ flying' = [t \in Task |-> 0]
        /\ file' = file /\ old' = old /\ delivered' = delivered
    BY <1>8 DEF Exit
  <2>2. Lost' \subseteq Lost
    BY <2>1
  <2>3. torn' = torn \/ failures' = failures + 1
    BY <1>8, Zenon DEF Exit
  <2>4. CASE failures' = failures + 1
    <3>1. Lost' \subseteq Lost \cup {} /\ Cardinality({}) = 0
      BY <2>2, FS_EmptySet
    <3>2. Cut \in 0..1 /\ Cut' \in 0..1
      BY DEF Cut
    <3>3. QED
      BY <2>4, <3>1, <3>2, LossStep
  <2>5. QED
    BY <2>2, <2>3, <2>4, LosslessStep
<1>9. CASE Restart
  <2>1. Lost' \subseteq Lost /\ torn' = torn
    BY <1>9 DEF Restart
  <2>2. QED
    BY <2>1, LosslessStep
<1>10. CASE UNCHANGED vars
  <2>1. Lost' \subseteq Lost /\ torn' = torn
    BY <1>10 DEF vars
  <2>2. QED
    BY <2>1, LosslessStep
<1>11. ASSUME NEW t \in Task, Raises(t) PROVE LossInv'
  <2>1. Lost' \subseteq Lost /\ torn' = torn
    BY <1>11 DEF Raises
  <2>2. QED
    BY <2>1, LosslessStep
<1>12. ASSUME NEW t \in Task, RetryRaises(t) PROVE LossInv'
  <2>1. Lost' \subseteq Lost /\ torn' = torn
    BY <1>12 DEF RetryRaises, Landed
  <2>2. QED
    BY <2>1, LosslessStep
<1>13. QED
  BY <1>1, <1>2, <1>3, <1>4, <1>5, <1>6, <1>7, <1>8, <1>9, <1>10, <1>11, <1>12
  DEF Next, Flushes

\* However many accesses to the file fail, and whenever the process ends, at most
\* two queued tasks are forgotten per failure, besides those of which a retry
\* broke off.
THEOREM LossStaysBounded == Spec => []LossIsBounded
<1>1. Init => LineInv /\ LossInv
  <2> SUFFICES ASSUME Init PROVE LineInv /\ LossInv
    OBVIOUS
  <2>1. LineInv
    BY TypeInit DEF Init, LineInv, OneLinePerTask
  <2>2. Lost = {} /\ failures = 0
    BY DEF Init, Lost, Kept
  <2>3. Cut = 0
    BY Zenon DEF Init, Cut
  <2>4. QED
    BY <2>1, <2>2, <2>3, TypeInit, FS_EmptySet DEF LossInv
<1>2. LineInv /\ LossInv /\ [Next]_vars => (LineInv /\ LossInv)'
  BY LineStep, LossInvStep
<1>3. LossInv => LossIsBounded
  <2> SUFFICES ASSUME LossInv PROVE Cardinality(Lost) <= 2 * failures
    BY DEF LossIsBounded, Lost
  <2>1. Cut \in Nat /\ failures \in Nat
    BY DEF Cut, LossInv, TypeOK
  <2>2. QED
    BY <2>1, LostIsFinite DEF LossInv
<1>4. QED
  BY <1>1, <1>2, <1>3, PTL DEF Spec
=============================================================================
