------------------------- MODULE CompensationTasks --------------------------
(***************************************************************************)
(* RunOnce and ReplayFailed (compensation/app) over the compensation_task  *)
(* table (infra/repo/task_repo_mysql.go) and the Redis lock of each run    *)
(* (infra/lock/redis_lock.go).                                             *)
(*                                                                         *)
(* A worker is one node's runner of one job, or the replay endpoint: it    *)
(* takes the lock of its job, scans, claims the rows one UPDATE at a time, *)
(* executes what it claimed, and marks each task.  The lock expires under  *)
(* a slow run and the replay has a lock of its own, so runs do overlap:    *)
(* only the claim keeps them apart.  A fault is a crash, or a statement    *)
(* that returns an error, whether it took effect or not.                   *)
(***************************************************************************)
EXTENDS Naturals, FiniteSets

CONSTANTS
  Tasks,
  Workers,
  Jobs,        \* job types, each with its lock
  JobOf,       \* the job type of each task
  KeyOf,       \* what each worker runs: a job type, or ReplayFailed
  ReplayFailed,
  MaxRetry,    \* max_retry of every task
  BatchSize,
  MaxFaults,   \* bound: faults in one behaviour
  NoTask, NoWorker

ASSUME JobOfAssumption == JobOf \in [Tasks -> Jobs]
ASSUME KeyOfAssumption == KeyOf \in [Workers -> Jobs \cup {ReplayFailed}] /\ ReplayFailed \notin Jobs
ASSUME RetryAssumption == MaxRetry \in Nat /\ BatchSize \in Nat \ {0} /\ MaxFaults \in Nat
ASSUME NullAssumption == NoTask \notin Tasks /\ NoWorker \notin Workers

VARIABLES
  status,      \* compensation_task.status
  retries,     \* compensation_task.retry_count
  due,         \* next_execute_at has passed
  dlq,         \* compensation_task_dlq
  lock,        \* the worker whose token each lock holds
  pc,          \* where each worker stands
  rows,        \* rows of its scan it has not tried to claim yet
  picked,      \* tasks it claimed and has not marked yet
  item,        \* the task it executes
  seen,        \* the retry_count MarkFailed read
  attempts,    \* executions of each task, counted when they end
  effects,     \* those that succeeded
  faults

vars == <<status, retries, due, dlq, lock, pc, rows, picked, item, seen, attempts, effects, faults>>
table == <<status, retries, due, dlq>>
counts == <<attempts, effects>>

TypeOK ==
  /\ status \in [Tasks -> {"PENDING", "RUNNING", "FAILED", "DONE", "DEAD"}]
  /\ retries \in [Tasks -> 0 .. MaxRetry]
  /\ due \in [Tasks -> BOOLEAN]
  /\ dlq \subseteq Tasks
  /\ lock \in [Jobs \cup {ReplayFailed} -> Workers \cup {NoWorker}]
  /\ pc \in [Workers -> {"idle", "scan", "claim", "work", "executed", "failed", "retry", "archive", "unlock"}]
  /\ rows \in [Workers -> SUBSET Tasks]
  /\ picked \in [Workers -> SUBSET Tasks]
  /\ item \in [Workers -> Tasks \cup {NoTask}]
  /\ seen \in [Workers -> Nat]
  /\ attempts \in [Tasks -> Nat]
  /\ effects \in [Tasks -> Nat]
  /\ faults \in 0 .. MaxFaults

Init ==
  /\ status = [t \in Tasks |-> "PENDING"]
  /\ retries = [t \in Tasks |-> 0]
  /\ due = [t \in Tasks |-> FALSE]
  /\ dlq = {}
  /\ lock = [k \in Jobs \cup {ReplayFailed} |-> NoWorker]
  /\ pc = [w \in Workers |-> "idle"]
  /\ rows = [w \in Workers |-> {}]
  /\ picked = [w \in Workers |-> {}]
  /\ item = [w \in Workers |-> NoTask]
  /\ seen = [w \in Workers |-> 0]
  /\ attempts = [t \in Tasks |-> 0]
  /\ effects = [t \in Tasks |-> 0]
  /\ faults = 0

-----------------------------------------------------------------------------
Goto(w, place) == pc' = [pc EXCEPT ![w] = place]

Fault == faults < MaxFaults /\ faults' = faults + 1
NoFault == UNCHANGED faults

(* SET NX: a run that finds the lock taken ends at once, and one that gets *)
(* no reply leaves the lock behind.                                        *)
TryLock(w) ==
  /\ pc[w] = "idle"
  /\ lock[KeyOf[w]] = NoWorker
  /\ lock' = [lock EXCEPT ![KeyOf[w]] = w]
  /\ \/ NoFault /\ Goto(w, "scan")
     \/ Fault /\ UNCHANGED pc
  /\ UNCHANGED <<table, rows, picked, item, seen, counts>>

(* The WHERE of the claim; the scan also asks for the job and the time.    *)
PendingOnly(t) == status[t] = "PENDING"                   \* mutant: FAILED left out
RunningToo(t) == status[t] \notin {"DONE", "DEAD"}        \* mutant: reclaims RUNNING
DeadToo(t) == status[t] \notin {"RUNNING", "DONE"}        \* mutant: reclaims DEAD
Claimable(t) == status[t] \in {"PENDING", "FAILED"}

Candidates(w) ==
  {t \in Tasks :
     /\ Claimable(t)
     /\ due[t]
     /\ IF KeyOf[w] = ReplayFailed THEN status[t] = "FAILED" ELSE JobOf[t] = KeyOf[w]}

(* ORDER BY next_execute_at LIMIT n: any n of them.                        *)
Batch(w) ==
  {b \in SUBSET Candidates(w) :
     IF Cardinality(Candidates(w)) <= BatchSize THEN b = Candidates(w) ELSE Cardinality(b) = BatchSize}

Scan(w) ==
  /\ pc[w] = "scan"
  /\ \E b \in Batch(w) : rows' = [rows EXCEPT ![w] = b]
  /\ Goto(w, "claim")
  /\ UNCHANGED <<table, lock, picked, item, seen, counts, faults>>

(* UPDATE ... SET status='RUNNING' WHERE task_id AND status IN (...): the  *)
(* status is tested again, the due time is not.                            *)
NoneLeft(w, t) == IF Claimable(t) THEN picked[w] \cup {t} ELSE {}   \* mutant: a lost race ends the scan
PickedWith(w, t) == IF Claimable(t) THEN picked[w] \cup {t} ELSE picked[w]

Claim(w, t) ==
  /\ pc[w] = "claim"
  /\ t \in rows[w]
  /\ rows' = [rows EXCEPT ![w] = @ \ {t}]
  /\ status' = IF Claimable(t) THEN [status EXCEPT ![t] = "RUNNING"] ELSE status
  /\ picked' = [picked EXCEPT ![w] = PickedWith(w, t)]
  /\ UNCHANGED <<retries, due, dlq, lock, pc, item, seen, counts, faults>>

StartWork(w) ==
  /\ pc[w] = "claim"
  /\ rows[w] = {}
  /\ Goto(w, "work")
  /\ UNCHANGED <<table, lock, rows, picked, item, seen, counts, faults>>

(* The query or a claim returns an error: the run returns without the      *)
(* tasks it has claimed, and an UPDATE that failed may have been applied.  *)
ScanFails(w) ==
  /\ pc[w] \in {"scan", "claim"}
  /\ Fault
  /\ \/ UNCHANGED status
     \/ \E t \in rows[w] : Claimable(t) /\ status' = [status EXCEPT ![t] = "RUNNING"]
  /\ rows' = [rows EXCEPT ![w] = {}]
  /\ picked' = [picked EXCEPT ![w] = {}]
  /\ Goto(w, "unlock")
  /\ UNCHANGED <<retries, due, dlq, lock, item, seen, counts>>

(* CompositeExecutor: it cancels the order, moves it to PAID or flushes    *)
(* the outbox, which is done, or fails: as it reports.  What took effect   *)
(* although its answer was an error counts as failed here, and effects has *)
(* the reported successes.                                                 *)
Executor(w, t) ==
  \/ effects' = [effects EXCEPT ![t] = @ + 1] /\ Goto(w, "executed")
  \/ UNCHANGED effects /\ Goto(w, "failed")

(* runOne.                                                                 *)
Execute(w, t) ==
  /\ pc[w] = "work"
  /\ t \in picked[w]
  /\ item' = [item EXCEPT ![w] = t]
  /\ attempts' = [attempts EXCEPT ![t] = @ + 1]
  /\ Executor(w, t)
  /\ UNCHANGED <<table, lock, rows, picked, seen, faults>>

-----------------------------------------------------------------------------
(* runOne drops the errors of both marks and goes on with the next task.   *)
NextTask(w) ==
  /\ Goto(w, "work")
  /\ picked' = [picked EXCEPT ![w] = @ \ {item[w]}]

Open(t) == status[t] \in {"PENDING", "FAILED", "RUNNING"}

MarkedDone(t) == IF Open(t) THEN [status EXCEPT ![t] = "DONE"] ELSE status

MarkDone(w) ==
  /\ pc[w] = "executed"
  /\ \/ NoFault /\ status' = MarkedDone(item[w])
     \/ Fault /\ status' \in {status, MarkedDone(item[w])}
  /\ NextTask(w)
  /\ UNCHANGED <<retries, due, dlq, lock, rows, item, seen, counts>>

(* MarkFailed: SELECT retry_count, UPDATE ... WHERE retry_count, and for a *)
(* task that is out of retries the INSERT into the dead-letter table.      *)
ReadRetries(w) ==
  /\ pc[w] = "failed"
  /\ \/ /\ NoFault
        /\ seen' = [seen EXCEPT ![w] = retries[item[w]]]
        /\ Goto(w, "retry")
        /\ UNCHANGED picked
     \/ /\ Fault
        /\ NextTask(w)
        /\ UNCHANGED seen
  /\ UNCHANGED <<table, lock, rows, item, counts>>

Exhausted(count) == count > MaxRetry

Unchanged(w) == Open(item[w]) /\ retries[item[w]] = seen[w]

Retry(w) ==
  /\ ~Exhausted(seen[w] + 1)
  /\ status' = [status EXCEPT ![item[w]] = "FAILED"]
  /\ retries' = [retries EXCEPT ![item[w]] = seen[w] + 1]
  /\ due' = [due EXCEPT ![item[w]] = FALSE]

Bury(w) ==
  /\ Exhausted(seen[w] + 1)
  /\ status' = [status EXCEPT ![item[w]] = "DEAD"]
  /\ UNCHANGED <<retries, due>>

UpdateRetries(w) ==
  /\ pc[w] = "retry"
  /\ \/ /\ Unchanged(w)
        /\ Retry(w) \/ Bury(w)
        /\ \/ NoFault /\ Goto(w, IF Exhausted(seen[w] + 1) THEN "archive" ELSE "work")
           \/ Fault /\ Goto(w, "work")
     \/ /\ Fault \/ (NoFault /\ ~Unchanged(w))
        /\ UNCHANGED <<status, retries, due>>
        /\ Goto(w, "work")
  /\ picked' = [picked EXCEPT ![w] = @ \ {item[w]}]
  /\ UNCHANGED <<dlq, lock, rows, item, seen, counts>>

Archive(w) ==
  /\ pc[w] = "archive"
  /\ \/ NoFault /\ dlq' = dlq \cup {item[w]}
     \/ Fault /\ UNCHANGED dlq
  /\ Goto(w, "work")
  /\ UNCHANGED <<status, retries, due, lock, rows, picked, item, seen, counts>>

FinishRun(w) ==
  /\ pc[w] = "work"
  /\ picked[w] = {}
  /\ Goto(w, "unlock")
  /\ UNCHANGED <<table, lock, rows, picked, item, seen, counts, faults>>

(* The script deletes the lock only when it holds the token of this run.   *)
Unlock(w) ==
  /\ pc[w] = "unlock"
  /\ \/ NoFault /\ lock' = IF lock[KeyOf[w]] = w THEN [lock EXCEPT ![KeyOf[w]] = NoWorker] ELSE lock
     \/ Fault /\ UNCHANGED lock
  /\ Goto(w, "idle")
  /\ UNCHANGED <<table, rows, picked, item, seen, counts>>

Crash(w) ==
  /\ pc[w] # "idle"
  /\ Fault
  /\ Goto(w, "idle")
  /\ rows' = [rows EXCEPT ![w] = {}]
  /\ picked' = [picked EXCEPT ![w] = {}]
  /\ UNCHANGED <<table, lock, item, seen, counts>>

LockExpires(k) ==
  /\ lock[k] # NoWorker
  /\ lock' = [lock EXCEPT ![k] = NoWorker]
  /\ UNCHANGED <<table, pc, rows, picked, item, seen, counts, faults>>

BackoffElapses(t) ==
  /\ ~due[t]
  /\ due' = [due EXCEPT ![t] = TRUE]
  /\ UNCHANGED <<status, retries, dlq, lock, pc, rows, picked, item, seen, counts, faults>>

-----------------------------------------------------------------------------
Step(w) ==
  \/ Scan(w)
  \/ \E t \in Tasks : Claim(w, t)
  \/ StartWork(w)
  \/ ScanFails(w)
  \/ \E t \in Tasks : Execute(w, t)
  \/ MarkDone(w)
  \/ ReadRetries(w)
  \/ UpdateRetries(w)
  \/ Archive(w)
  \/ FinishRun(w)
  \/ Unlock(w)

Next ==
  \/ \E w \in Workers : TryLock(w) \/ Step(w) \/ Crash(w)
  \/ \E k \in Jobs \cup {ReplayFailed} : LockExpires(k)
  \/ \E t \in Tasks : BackoffElapses(t)

Spec == Init /\ [][Next]_vars

(* A run goes on until it ends; cron_runner.go starts the runs of the jobs *)
(* again and again, nobody has to call the replay; time passes.            *)
Fairness ==
  /\ \A w \in Workers : WF_vars(Step(w))
  /\ \A w \in Workers : KeyOf[w] # ReplayFailed => WF_vars(TryLock(w))
  /\ \A k \in Jobs \cup {ReplayFailed} : WF_vars(LockExpires(k))
  /\ \A t \in Tasks : WF_vars(BackoffElapses(t))

FairSpec == Spec /\ Fairness

-----------------------------------------------------------------------------
(* Two runs never work on one task, although their locks may both be held  *)
(* (the replay) or expired.                                                *)
ExclusiveExecution == \A v, w \in Workers : v # w => picked[v] \cap picked[w] = {}

(* A task is executed once and max_retry times more at most, and never     *)
(* again after an execution that succeeded, even when the mark that should *)
(* say so was lost.                                                        *)
AttemptsBounded == \A t \in Tasks : attempts[t] <= MaxRetry + 1 /\ effects[t] <= 1

(* What the table says of a finished task is what happened: DONE after one *)
(* success, DEAD after max_retry + 1 failures, and only those are archived.*)
FinishedIsTrue ==
  \A t \in Tasks :
    /\ status[t] = "DONE" => effects[t] = 1
    /\ status[t] = "DEAD" => attempts[t] = MaxRetry + 1 /\ effects[t] = 0
    /\ t \in dlq => status[t] = "DEAD"

(* A RUNNING task that no run works on is never scanned again: its         *)
(* lock_expire_at is written and never read.  Overlapping runs, expired    *)
(* locks and lost races do not produce one: only a fault does.             *)
Stranded(t) == status[t] = "RUNNING" /\ \A w \in Workers : t \notin picked[w]

StrandedByFault == \A t \in Tasks : Stranded(t) => faults > 0

(* Every task is done or dead in the end, unless a fault stranded it.      *)
Settles == \A t \in Tasks : <>(status[t] \in {"DONE", "DEAD"} \/ Stranded(t))
=============================================================================
