------------------------ MODULE MCCompensationTasks -------------------------
(* Constants of the TLC runs over CompensationTasks: every worker but the  *)
(* replayer runs the one job, each on a node of its own.                   *)
EXTENDS CompensationTasks

CONSTANTS Replayer, Job

OneJob == [t \in Tasks |-> Job]
Runs == [w \in Workers |-> IF w = Replayer THEN ReplayFailed ELSE Job]
=============================================================================
