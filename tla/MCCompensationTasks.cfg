\* A node runs the job beside the replay; the locks expire.
SPECIFICATION FairSpec
CONSTANTS
  Tasks = {t1, t2}
  Workers = {w1, w3}
  Replayer = w3
  Job = job
  Jobs = {job}
  JobOf <- OneJob
  KeyOf <- Runs
  ReplayFailed = ReplayFailed
  MaxRetry = 1
  BatchSize = 2
  MaxFaults = 1
  NoTask = NoTask
  NoWorker = NoWorker
INVARIANTS ExclusiveExecution AttemptsBounded FinishedIsTrue StrandedByFault
PROPERTIES Settles
