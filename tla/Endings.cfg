\* One client of the store; a DAG run under two ticks of which one may be cut off; the
\* workflow without duplicates, and without crashes, which RunsEnd excuses.
SPECIFICATION EndSpec
CONSTANTS
  Parts = {"store", "dag", "workflow"}
  DagRuns = {r1}
  Ticks = {t1, t2}
  Workers = {w1, w2}
  MaxDeliveries = 0
  TickCrashes = 1
  MaxInstances = 1
  TaskSeq <- OneTask
  Deps <- BuildFirst
  Rule <- RollBack
  MaxActiveRuns = 1
  MaxCrashes = 0
  JobSeq <- ThreeJobs
  Needs <- BothNeeded
  Steps <- TwoSteps
  Gated = {"deploy"}
  Queued = TRUE
PROPERTIES RunsEnd ExpiredReaped
CHECK_DEADLOCK FALSE
