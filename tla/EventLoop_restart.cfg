\* Two restarts with nothing in between that handles what the first one recovered.
SPECIFICATION Spec
CONSTANTS
  Isolates = {i1, i2}
  Pulls = {p1}
  Others = {o1}
  Health = health
  MaxQueueSize = 2
  BatchSize = 0
  Timer = FALSE
  MaxRestarts = 2
INVARIANT PersistedSurvive
