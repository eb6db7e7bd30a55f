\* Workers of a production deployment: requests and the alarm object trigger the ticks.
SPECIFICATION Spec
CONSTANTS
  Isolates = {i1, i2}
  Pulls = {p1}
  Others = {o1}
  Health = health
  MaxQueueSize = 2
  BatchSize = 0
  Timer = FALSE
  MaxRestarts = 1
INVARIANTS OneHealthCheck NoDuplicates PersistedSurvive OneBatch
