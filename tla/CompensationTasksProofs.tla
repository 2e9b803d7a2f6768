---------------------- MODULE CompensationTasksProofs -----------------------
(***************************************************************************)
(* Proofs about CompensationTasks for any number of tasks, workers and     *)
(* retries.  A claim turns a row RUNNING and nothing but its owner turns   *)
(* it back, so what a run has claimed is its own, with the counters the    *)
(* claim found, until the run marks it.                                    *)
(***************************************************************************)
EXTENDS CompensationTasks, TLAPS

Ended == {"executed", "failed", "retry"}

(* The run has executed the task and not marked it yet.                    *)
Working(w, t) == pc[w] \in Ended /\ item[w] = t

(* What a run has claimed is RUNNING, and claimed by it alone.             *)
HoldInv == \A w \in Workers : \A t \in picked[w] : status[t] = "RUNNING"

(* The task a run executes is one it claimed, MarkFailed has read its      *)
(* current counter, and a task about to be archived is dead.               *)
PlaceInv ==
  \A w \in Workers :
    /\ pc[w] \in Ended => item[w] \in picked[w]
    /\ pc[w] = "retry" => seen[w] = retries[item[w]]
    /\ pc[w] = "archive" => item[w] \in Tasks /\ status[item[w]] = "DEAD"

(* Every execution so far was a failure that has been counted.             *)
Counted(t) == attempts[t] = retries[t] /\ effects[t] = 0

(* The last execution is not counted yet.                                  *)
OneAhead(w, t) ==
  /\ attempts[t] = retries[t] + 1
  /\ effects[t] = IF pc[w] = "executed" THEN 1 ELSE 0

CountInv ==
  /\ \A t \in Tasks : Claimable(t) => Counted(t)
  /\ \A w \in Workers : \A t \in picked[w] : IF Working(w, t) THEN OneAhead(w, t) ELSE Counted(t)

IInv ==
  /\ TypeOK
  /\ HoldInv
  /\ ExclusiveExecution
  /\ PlaceInv
  /\ CountInv
  /\ AttemptsBounded
  /\ FinishedIsTrue
  /\ StrandedByFault

-----------------------------------------------------------------------------
(* Every step keeps the variables in their types.                          *)
LEMMA TypeStep ==
  ASSUME TypeOK, HoldInv, PlaceInv, Next
  PROVE  TypeOK'
PROOF
<1> USE DEF TypeOK, Goto, table, counts
<1>1. ASSUME NEW w \in Workers, TryLock(w) PROVE TypeOK'
  BY <1>1, RetryAssumption, KeyOfAssumption DEF TryLock, Fault, NoFault
<1>2. ASSUME NEW w \in Workers, Scan(w) PROVE TypeOK'
  BY <1>2 DEF Scan, Batch, Candidates
<1>3. ASSUME NEW w \in Workers, NEW t \in Tasks, Claim(w, t) PROVE TypeOK'
  BY <1>3 DEF Claim, PickedWith, Claimable
<1>4. ASSUME NEW w \in Workers, StartWork(w) PROVE TypeOK'
  BY <1>4 DEF StartWork
<1>5. ASSUME NEW w \in Workers, ScanFails(w) PROVE TypeOK'
  BY <1>5, RetryAssumption DEF ScanFails, Fault, Claimable
<1>6. ASSUME NEW w \in Workers, NEW t \in Tasks, Execute(w, t) PROVE TypeOK'
  BY <1>6 DEF Execute, Executor
<1>7. ASSUME NEW w \in Workers, MarkDone(w) PROVE TypeOK'
  BY <1>7, RetryAssumption DEF MarkDone, Fault, NoFault, NextTask, MarkedDone, Open
<1>8. ASSUME NEW w \in Workers, ReadRetries(w) PROVE TypeOK'
  <2>1. item[w] \in Tasks
    BY <1>8 DEF ReadRetries, PlaceInv, Ended
  <2> QED
    BY <1>8, <2>1, RetryAssumption DEF ReadRetries, Fault, NoFault, NextTask
<1>9. ASSUME NEW w \in Workers, UpdateRetries(w) PROVE TypeOK'
  <2>1. status' \in [Tasks -> {"PENDING", "RUNNING", "FAILED", "DONE", "DEAD"}]
    BY <1>9 DEF UpdateRetries, Retry, Bury
  <2>2. retries' \in [Tasks -> 0 .. MaxRetry]
    BY <1>9, RetryAssumption DEF UpdateRetries, Retry, Bury, Exhausted
  <2>3. due' \in [Tasks -> BOOLEAN]
    BY <1>9 DEF UpdateRetries, Retry, Bury
  <2>4. /\ pc' \in [Workers -> {"idle", "scan", "claim", "work", "executed", "failed", "retry", "archive", "unlock"}]
        /\ faults' \in 0 .. MaxFaults
    BY <1>9, RetryAssumption DEF UpdateRetries, Fault, NoFault
  <2>5. picked' \in [Workers -> SUBSET Tasks]
    BY <1>9 DEF UpdateRetries
  <2> QED
    BY <1>9, <2>1, <2>2, <2>3, <2>4, <2>5 DEF UpdateRetries
<1>10. ASSUME NEW w \in Workers, Archive(w) PROVE TypeOK'
  BY <1>10, RetryAssumption DEF Archive, Fault, NoFault, PlaceInv
<1>11. ASSUME NEW w \in Workers, FinishRun(w) PROVE TypeOK'
  BY <1>11 DEF FinishRun
<1>12. ASSUME NEW w \in Workers, Unlock(w) PROVE TypeOK'
  BY <1>12, RetryAssumption, KeyOfAssumption DEF Unlock, Fault, NoFault
<1>13. ASSUME NEW w \in Workers, Crash(w) PROVE TypeOK'
  BY <1>13, RetryAssumption DEF Crash, Fault
<1>14. ASSUME NEW k \in Jobs \cup {ReplayFailed}, LockExpires(k) PROVE TypeOK'
  BY <1>14 DEF LockExpires
<1>15. ASSUME NEW t \in Tasks, BackoffElapses(t) PROVE TypeOK'
  BY <1>15 DEF BackoffElapses
<1> QED
  BY <1>1, <1>2, <1>3, <1>4, <1>5, <1>6, <1>7, <1>8, <1>9, <1>10, <1>11, <1>12, <1>13, <1>14, <1>15 DEF Next, Step

(* Claiming is exclusive: a row that is claimed is not claimable again.    *)
LEMMA HoldStep ==
  ASSUME TypeOK, HoldInv, ExclusiveExecution, PlaceInv, Next
  PROVE  HoldInv' /\ ExclusiveExecution'
PROOF
<1> USE DEF TypeOK, Goto, table, counts, HoldInv, ExclusiveExecution
<1>1. ASSUME NEW w \in Workers, TryLock(w) PROVE HoldInv' /\ ExclusiveExecution'
  BY <1>1 DEF TryLock, Fault, NoFault
<1>2. ASSUME NEW w \in Workers, Scan(w) PROVE HoldInv' /\ ExclusiveExecution'
  BY <1>2 DEF Scan, Batch, Candidates
<1>3. ASSUME NEW w \in Workers, NEW t \in Tasks, Claim(w, t) PROVE HoldInv' /\ ExclusiveExecution'
  BY <1>3 DEF Claim, PickedWith, Claimable
<1>4. ASSUME NEW w \in Workers, StartWork(w) PROVE HoldInv' /\ ExclusiveExecution'
  BY <1>4 DEF StartWork
<1>5. ASSUME NEW w \in Workers, ScanFails(w) PROVE HoldInv' /\ ExclusiveExecution'
  BY <1>5 DEF ScanFails, Fault, Claimable
<1>6. ASSUME NEW w \in Workers, NEW t \in Tasks, Execute(w, t) PROVE HoldInv' /\ ExclusiveExecution'
  BY <1>6 DEF Execute, Executor
<1>7. ASSUME NEW w \in Workers, MarkDone(w) PROVE HoldInv' /\ ExclusiveExecution'
  BY <1>7 DEF MarkDone, Fault, NoFault, NextTask, MarkedDone, Open, PlaceInv, Ended
<1>8. ASSUME NEW w \in Workers, ReadRetries(w) PROVE HoldInv' /\ ExclusiveExecution'
  BY <1>8 DEF ReadRetries, Fault, NoFault, NextTask
<1>9. ASSUME NEW w \in Workers, UpdateRetries(w) PROVE HoldInv' /\ ExclusiveExecution'
  BY <1>9 DEF UpdateRetries, Fault, NoFault, Retry, Bury, Exhausted, Unchanged, Open, PlaceInv, Ended
<1>10. ASSUME NEW w \in Workers, Archive(w) PROVE HoldInv' /\ ExclusiveExecution'
  BY <1>10 DEF Archive, Fault, NoFault
<1>11. ASSUME NEW w \in Workers, FinishRun(w) PROVE HoldInv' /\ ExclusiveExecution'
  BY <1>11 DEF FinishRun
<1>12. ASSUME NEW w \in Workers, Unlock(w) PROVE HoldInv' /\ ExclusiveExecution'
  BY <1>12 DEF Unlock, Fault, NoFault
<1>13. ASSUME NEW w \in Workers, Crash(w) PROVE HoldInv' /\ ExclusiveExecution'
  BY <1>13 DEF Crash, Fault
<1>14. ASSUME NEW k \in Jobs \cup {ReplayFailed}, LockExpires(k) PROVE HoldInv' /\ ExclusiveExecution'
  BY <1>14 DEF LockExpires
<1>15. ASSUME NEW t \in Tasks, BackoffElapses(t) PROVE HoldInv' /\ ExclusiveExecution'
  BY <1>15 DEF BackoffElapses
<1> QED
  BY <1>1, <1>2, <1>3, <1>4, <1>5, <1>6, <1>7, <1>8, <1>9, <1>10, <1>11, <1>12, <1>13, <1>14, <1>15 DEF Next, Step

(* A task between its execution and its mark is left alone by the others.  *)
LEMMA PlaceStep ==
  ASSUME TypeOK, HoldInv, ExclusiveExecution, PlaceInv, Next
  PROVE  PlaceInv'
PROOF
<1> USE DEF TypeOK, Goto, table, counts, HoldInv, ExclusiveExecution, PlaceInv, Ended
<1>1. ASSUME NEW w \in Workers, TryLock(w) PROVE PlaceInv'
  BY <1>1 DEF TryLock, Fault, NoFault
<1>2. ASSUME NEW w \in Workers, Scan(w) PROVE PlaceInv'
  BY <1>2 DEF Scan, Batch, Candidates
<1>3. ASSUME NEW w \in Workers, NEW t \in Tasks, Claim(w, t) PROVE PlaceInv'
  BY <1>3 DEF Claim, PickedWith, Claimable
<1>4. ASSUME NEW w \in Workers, StartWork(w) PROVE PlaceInv'
  BY <1>4 DEF StartWork
<1>5. ASSUME NEW w \in Workers, ScanFails(w) PROVE PlaceInv'
  BY <1>5 DEF ScanFails, Fault, Claimable
<1>6. ASSUME NEW w \in Workers, NEW t \in Tasks, Execute(w, t) PROVE PlaceInv'
  BY <1>6 DEF Execute, Executor
<1>7. ASSUME NEW w \in Workers, MarkDone(w) PROVE PlaceInv'
  BY <1>7 DEF MarkDone, Fault, NoFault, NextTask, MarkedDone, Open
<1>8. ASSUME NEW w \in Workers, ReadRetries(w) PROVE PlaceInv'
  BY <1>8 DEF ReadRetries, Fault, NoFault, NextTask
<1>9. ASSUME NEW w \in Workers, UpdateRetries(w) PROVE PlaceInv'
  BY <1>9 DEF UpdateRetries, Fault, NoFault, Retry, Bury, Exhausted, Unchanged, Open
<1>10. ASSUME NEW w \in Workers, Archive(w) PROVE PlaceInv'
  BY <1>10 DEF Archive, Fault, NoFault
<1>11. ASSUME NEW w \in Workers, FinishRun(w) PROVE PlaceInv'
  BY <1>11 DEF FinishRun
<1>12. ASSUME NEW w \in Workers, Unlock(w) PROVE PlaceInv'
  BY <1>12 DEF Unlock, Fault, NoFault
<1>13. ASSUME NEW w \in Workers, Crash(w) PROVE PlaceInv'
  BY <1>13 DEF Crash, Fault
<1>14. ASSUME NEW k \in Jobs \cup {ReplayFailed}, LockExpires(k) PROVE PlaceInv'
  BY <1>14 DEF LockExpires
<1>15. ASSUME NEW t \in Tasks, BackoffElapses(t) PROVE PlaceInv'
  BY <1>15 DEF BackoffElapses
<1> QED
  BY <1>1, <1>2, <1>3, <1>4, <1>5, <1>6, <1>7, <1>8, <1>9, <1>10, <1>11, <1>12, <1>13, <1>14, <1>15 DEF Next, Step

(* The counters a claim finds stay true until the mark.                    *)
LEMMA CountStep ==
  ASSUME TypeOK, HoldInv, ExclusiveExecution, PlaceInv, CountInv, Next
  PROVE  CountInv'
PROOF
<1> USE DEF TypeOK, Goto, table, counts, HoldInv, ExclusiveExecution, PlaceInv, Ended, CountInv, Counted, OneAhead, Working, Claimable
<1>1. ASSUME NEW w \in Workers, TryLock(w) PROVE CountInv'
  BY <1>1 DEF TryLock, Fault, NoFault
<1>2. ASSUME NEW w \in Workers, Scan(w) PROVE CountInv'
  BY <1>2 DEF Scan, Batch, Candidates
<1>3. ASSUME NEW w \in Workers, NEW t \in Tasks, Claim(w, t) PROVE CountInv'
  BY <1>3 DEF Claim, PickedWith, Claimable
<1>4. ASSUME NEW w \in Workers, StartWork(w) PROVE CountInv'
  BY <1>4 DEF StartWork
<1>5. ASSUME NEW w \in Workers, ScanFails(w) PROVE CountInv'
  BY <1>5 DEF ScanFails, Fault, Claimable
<1>6. ASSUME NEW w \in Workers, NEW t \in Tasks, Execute(w, t) PROVE CountInv'
  BY <1>6 DEF Execute, Executor
<1>7. ASSUME NEW w \in Workers, MarkDone(w) PROVE CountInv'
  BY <1>7 DEF MarkDone, Fault, NoFault, NextTask, MarkedDone, Open
<1>8. ASSUME NEW w \in Workers, ReadRetries(w) PROVE CountInv'
  BY <1>8 DEF ReadRetries, Fault, NoFault, NextTask
<1>9. ASSUME NEW w \in Workers, UpdateRetries(w) PROVE CountInv'
  BY <1>9 DEF UpdateRetries, Fault, NoFault, Retry, Bury, Exhausted, Unchanged, Open
<1>10. ASSUME NEW w \in Workers, Archive(w) PROVE CountInv'
  BY <1>10 DEF Archive, Fault, NoFault
<1>11. ASSUME NEW w \in Workers, FinishRun(w) PROVE CountInv'
  BY <1>11 DEF FinishRun
<1>12. ASSUME NEW w \in Workers, Unlock(w) PROVE CountInv'
  BY <1>12 DEF Unlock, Fault, NoFault
<1>13. ASSUME NEW w \in Workers, Crash(w) PROVE CountInv'
  BY <1>13 DEF Crash, Fault
<1>14. ASSUME NEW k \in Jobs \cup {ReplayFailed}, LockExpires(k) PROVE CountInv'
  BY <1>14 DEF LockExpires
<1>15. ASSUME NEW t \in Tasks, BackoffElapses(t) PROVE CountInv'
  BY <1>15 DEF BackoffElapses
<1> QED
  BY <1>1, <1>2, <1>3, <1>4, <1>5, <1>6, <1>7, <1>8, <1>9, <1>10, <1>11, <1>12, <1>13, <1>14, <1>15 DEF Next, Step

(* An execution is one more than the counted ones, of which there are at   *)
(* most max_retry, and none of them succeeded.                             *)
LEMMA BoundStep ==
  ASSUME TypeOK, HoldInv, PlaceInv, CountInv, AttemptsBounded, Next
  PROVE  AttemptsBounded'
PROOF
<1> USE DEF TypeOK, Goto, table, counts, AttemptsBounded
<1>1. ASSUME NEW w \in Workers, TryLock(w) PROVE AttemptsBounded'
  BY <1>1 DEF TryLock
<1>2. ASSUME NEW w \in Workers, Scan(w) PROVE AttemptsBounded'
  BY <1>2 DEF Scan
<1>3. ASSUME NEW w \in Workers, NEW t \in Tasks, Claim(w, t) PROVE AttemptsBounded'
  BY <1>3 DEF Claim
<1>4. ASSUME NEW w \in Workers, StartWork(w) PROVE AttemptsBounded'
  BY <1>4 DEF StartWork
<1>5. ASSUME NEW w \in Workers, ScanFails(w) PROVE AttemptsBounded'
  BY <1>5 DEF ScanFails
<1>6. ASSUME NEW w \in Workers, NEW t \in Tasks, Execute(w, t) PROVE AttemptsBounded'
  BY <1>6, RetryAssumption DEF Execute, Executor, HoldInv, CountInv, Counted, Working, Ended
<1>7. ASSUME NEW w \in Workers, MarkDone(w) PROVE AttemptsBounded'
  BY <1>7 DEF MarkDone
<1>8. ASSUME NEW w \in Workers, ReadRetries(w) PROVE AttemptsBounded'
  BY <1>8 DEF ReadRetries
<1>9. ASSUME NEW w \in Workers, UpdateRetries(w) PROVE AttemptsBounded'
  BY <1>9 DEF UpdateRetries
<1>10. ASSUME NEW w \in Workers, Archive(w) PROVE AttemptsBounded'
  BY <1>10 DEF Archive
<1>11. ASSUME NEW w \in Workers, FinishRun(w) PROVE AttemptsBounded'
  BY <1>11 DEF FinishRun
<1>12. ASSUME NEW w \in Workers, Unlock(w) PROVE AttemptsBounded'
  BY <1>12 DEF Unlock
<1>13. ASSUME NEW w \in Workers, Crash(w) PROVE AttemptsBounded'
  BY <1>13 DEF Crash
<1>14. ASSUME NEW k \in Jobs \cup {ReplayFailed}, LockExpires(k) PROVE AttemptsBounded'
  BY <1>14 DEF LockExpires
<1>15. ASSUME NEW t \in Tasks, BackoffElapses(t) PROVE AttemptsBounded'
  BY <1>15 DEF BackoffElapses
<1> QED
  BY <1>1, <1>2, <1>3, <1>4, <1>5, <1>6, <1>7, <1>8, <1>9, <1>10, <1>11, <1>12, <1>13, <1>14, <1>15 DEF Next, Step

(* A row is marked DONE or DEAD by the run that executed it.               *)
LEMMA FinishedStep ==
  ASSUME TypeOK, HoldInv, ExclusiveExecution, PlaceInv, CountInv, FinishedIsTrue, Next
  PROVE  FinishedIsTrue'
PROOF
<1> USE DEF TypeOK, Goto, table, counts, FinishedIsTrue
<1>1. ASSUME NEW w \in Workers, TryLock(w) PROVE FinishedIsTrue'
  BY <1>1 DEF TryLock, Fault, NoFault
<1>2. ASSUME NEW w \in Workers, Scan(w) PROVE FinishedIsTrue'
  BY <1>2 DEF Scan, Batch, Candidates
<1>3. ASSUME NEW w \in Workers, NEW t \in Tasks, Claim(w, t) PROVE FinishedIsTrue'
  BY <1>3 DEF Claim, PickedWith, Claimable
<1>4. ASSUME NEW w \in Workers, StartWork(w) PROVE FinishedIsTrue'
  BY <1>4 DEF StartWork
<1>5. ASSUME NEW w \in Workers, ScanFails(w) PROVE FinishedIsTrue'
  BY <1>5 DEF ScanFails, Fault, Claimable
<1>6. ASSUME NEW w \in Workers, NEW t \in Tasks, Execute(w, t) PROVE FinishedIsTrue'
  BY <1>6 DEF Execute, Executor, HoldInv
<1>7. ASSUME NEW w \in Workers, MarkDone(w) PROVE FinishedIsTrue'
  BY <1>7 DEF MarkDone, Fault, NoFault, NextTask, MarkedDone, Open, HoldInv, PlaceInv, Ended, CountInv, Working, OneAhead
<1>8. ASSUME NEW w \in Workers, ReadRetries(w) PROVE FinishedIsTrue'
  BY <1>8 DEF ReadRetries, Fault, NoFault, NextTask
<1>9. ASSUME NEW w \in Workers, UpdateRetries(w) PROVE FinishedIsTrue'
  <2>1. /\ item[w] \in Tasks /\ status[item[w]] = "RUNNING"
        /\ attempts[item[w]] = retries[item[w]] + 1 /\ effects[item[w]] = 0
    BY <1>9 DEF UpdateRetries, HoldInv, PlaceInv, Ended, CountInv, Working, OneAhead
  <2>2. CASE Unchanged(w) /\ Retry(w)
    BY <1>9, <2>1, <2>2 DEF UpdateRetries, Retry
  <2>3. CASE Unchanged(w) /\ Bury(w)
    <3>1. attempts[item[w]] = MaxRetry + 1
      BY <2>1, <2>3, RetryAssumption DEF Unchanged, Bury, Exhausted
    <3> QED
      BY <1>9, <2>1, <2>3, <3>1 DEF UpdateRetries, Bury
  <2>4. CASE UNCHANGED status
    BY <1>9, <2>4 DEF UpdateRetries
  <2> QED
    BY <1>9, <2>2, <2>3, <2>4 DEF UpdateRetries
<1>10. ASSUME NEW w \in Workers, Archive(w) PROVE FinishedIsTrue'
  BY <1>10 DEF Archive, Fault, NoFault, PlaceInv
<1>11. ASSUME NEW w \in Workers, FinishRun(w) PROVE FinishedIsTrue'
  BY <1>11 DEF FinishRun
<1>12. ASSUME NEW w \in Workers, Unlock(w) PROVE FinishedIsTrue'
  BY <1>12 DEF Unlock, Fault, NoFault
<1>13. ASSUME NEW w \in Workers, Crash(w) PROVE FinishedIsTrue'
  BY <1>13 DEF Crash, Fault
<1>14. ASSUME NEW k \in Jobs \cup {ReplayFailed}, LockExpires(k) PROVE FinishedIsTrue'
  BY <1>14 DEF LockExpires
<1>15. ASSUME NEW t \in Tasks, BackoffElapses(t) PROVE FinishedIsTrue'
  BY <1>15 DEF BackoffElapses
<1> QED
  BY <1>1, <1>2, <1>3, <1>4, <1>5, <1>6, <1>7, <1>8, <1>9, <1>10, <1>11, <1>12, <1>13, <1>14, <1>15 DEF Next, Step

(* Without a fault a run drops no task before it has marked it.            *)
LEMMA StrandedStep ==
  ASSUME TypeOK, HoldInv, PlaceInv, StrandedByFault, Next
  PROVE  StrandedByFault'
PROOF
<1> USE DEF TypeOK, Goto, table, counts, StrandedByFault, Stranded
<1>1. ASSUME NEW w \in Workers, TryLock(w) PROVE StrandedByFault'
  BY <1>1 DEF TryLock, Fault, NoFault
<1>2. ASSUME NEW w \in Workers, Scan(w) PROVE StrandedByFault'
  BY <1>2 DEF Scan, Batch, Candidates
<1>3. ASSUME NEW w \in Workers, NEW t \in Tasks, Claim(w, t) PROVE StrandedByFault'
  BY <1>3 DEF Claim, PickedWith, Claimable
<1>4. ASSUME NEW w \in Workers, StartWork(w) PROVE StrandedByFault'
  BY <1>4 DEF StartWork
<1>5. ASSUME NEW w \in Workers, ScanFails(w) PROVE StrandedByFault'
  BY <1>5 DEF ScanFails, Fault, Claimable
<1>6. ASSUME NEW w \in Workers, NEW t \in Tasks, Execute(w, t) PROVE StrandedByFault'
  BY <1>6 DEF Execute, Executor
<1>7. ASSUME NEW w \in Workers, MarkDone(w) PROVE StrandedByFault'
  BY <1>7 DEF MarkDone, Fault, NoFault, NextTask, MarkedDone, Open, HoldInv, PlaceInv, Ended
<1>8. ASSUME NEW w \in Workers, ReadRetries(w) PROVE StrandedByFault'
  BY <1>8 DEF ReadRetries, Fault, NoFault, NextTask
<1>9. ASSUME NEW w \in Workers, UpdateRetries(w) PROVE StrandedByFault'
  BY <1>9 DEF UpdateRetries, Fault, NoFault, Retry, Bury, Exhausted, Unchanged, Open, HoldInv, PlaceInv, Ended
<1>10. ASSUME NEW w \in Workers, Archive(w) PROVE StrandedByFault'
  BY <1>10 DEF Archive, Fault, NoFault
<1>11. ASSUME NEW w \in Workers, FinishRun(w) PROVE StrandedByFault'
  BY <1>11 DEF FinishRun
<1>12. ASSUME NEW w \in Workers, Unlock(w) PROVE StrandedByFault'
  BY <1>12 DEF Unlock, Fault, NoFault
<1>13. ASSUME NEW w \in Workers, Crash(w) PROVE StrandedByFault'
  BY <1>13 DEF Crash, Fault
<1>14. ASSUME NEW k \in Jobs \cup {ReplayFailed}, LockExpires(k) PROVE StrandedByFault'
  BY <1>14 DEF LockExpires
<1>15. ASSUME NEW t \in Tasks, BackoffElapses(t) PROVE StrandedByFault'
  BY <1>15 DEF BackoffElapses
<1> QED
  BY <1>1, <1>2, <1>3, <1>4, <1>5, <1>6, <1>7, <1>8, <1>9, <1>10, <1>11, <1>12, <1>13, <1>14, <1>15 DEF Next, Step

(* The invariant holds in the initial states.                              *)
LEMMA InitIInv ==
  ASSUME Init
  PROVE  IInv
PROOF
<1> USE DEF Init
<1>1. TypeOK
  BY RetryAssumption DEF TypeOK
<1>2. HoldInv /\ ExclusiveExecution /\ PlaceInv
  BY DEF HoldInv, ExclusiveExecution, PlaceInv, Ended
<1>3. CountInv /\ AttemptsBounded
  BY RetryAssumption DEF CountInv, Counted, AttemptsBounded
<1>4. FinishedIsTrue /\ StrandedByFault
  BY DEF FinishedIsTrue, StrandedByFault, Stranded
<1> QED
  BY <1>1, <1>2, <1>3, <1>4 DEF IInv

(* Every step keeps it, and a step that leaves everything alone does too.  *)
LEMMA StepIInv ==
  ASSUME IInv, [Next]_vars
  PROVE  IInv'
PROOF
<1> USE DEF IInv
<1>1. CASE Next
  BY <1>1, TypeStep, HoldStep, PlaceStep, CountStep, BoundStep, FinishedStep, StrandedStep
<1>2. CASE UNCHANGED vars
  <2>1. TypeOK' /\ HoldInv' /\ ExclusiveExecution' /\ PlaceInv'
    BY <1>2 DEF vars, TypeOK, HoldInv, ExclusiveExecution, PlaceInv
  <2>2. CountInv'
    BY <1>2 DEF vars, CountInv, Counted, OneAhead, Working, Claimable
  <2>3. AttemptsBounded' /\ FinishedIsTrue' /\ StrandedByFault'
    BY <1>2 DEF vars, AttemptsBounded, FinishedIsTrue, StrandedByFault, Stranded
  <2> QED
    BY <2>1, <2>2, <2>3
<1> QED
  BY <1>1, <1>2

(* The invariant of RunOnce and ReplayFailed.                              *)
LEMMA Invariance == Spec => []IInv
PROOF
<1> QED
  BY InitIInv, StepIInv, PTL DEF Spec

(* Type correctness; retry_count never exceeds max_retry.                  *)
THEOREM CompensationTypes == Spec => []TypeOK
PROOF
<1>1. IInv => TypeOK
  BY DEF IInv
<1> QED
  BY <1>1, Invariance, PTL

(* However many runs of a job and of the replay overlap, with their locks  *)
(* held or expired, the claim gives a task to one of them (TryMarkRunning).*)
THEOREM RunsExcludeEachOther == Spec => []ExclusiveExecution
PROOF
<1>1. IInv => ExclusiveExecution
  BY DEF IInv
<1> QED
  BY <1>1, Invariance, PTL

(* RunOnce executes a task max_retry + 1 times at most, and not again      *)
(* after a success, also when crashes and lost marks come in between.      *)
THEOREM ExecutionsAreBounded == Spec => []AttemptsBounded
PROOF
<1>1. IInv => AttemptsBounded
  BY DEF IInv
<1> QED
  BY <1>1, Invariance, PTL

(* MarkDone and MarkFailed write DONE and DEAD only where that happened,   *)
(* and only a dead task reaches the dead-letter table.                     *)
THEOREM TableTellsTheTruth == Spec => []FinishedIsTrue
PROOF
<1>1. IInv => FinishedIsTrue
  BY DEF IInv
<1> QED
  BY <1>1, Invariance, PTL

(* Overlapping runs and expired locks alone leave no task RUNNING behind.  *)
THEOREM FaultsStrand == Spec => []StrandedByFault
PROOF
<1>1. IInv => StrandedByFault
  BY DEF IInv
<1> QED
  BY <1>1, Invariance, PTL
=============================================================================
