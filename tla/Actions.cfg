\* A run of a DAG of two tasks under two ticks at once; a workflow of three jobs on two
\* workers, with one duplicate and one crash in all; four requests to the triggers. Requests end.
SPECIFICATION ActionsSpec
CONSTANTS
  Parts = {"dag", "workflow", "triggers", "job"}
  DagRuns = {r1}
  Ticks = {t1, t2}
  Workers = {w1, w2}
  MaxDeliveries = 1
  TickCrashes = 0
  MaxInstances = 2
  TaskSeq <- TwoTasks
  Deps <- BuildFirst
  Rule <- RollBack
  MaxActiveRuns = 1
  MaxCrashes = 1
  JobSeq <- ThreeJobs
  Needs <- BothNeeded
  Steps <- TwoSteps
  Gated = {"deploy"}
  Queued = TRUE
INVARIANTS RunsAgree StartedOnce
PROPERTIES AskedIsDone ClosedOnce
CHECK_DEADLOCK FALSE
