\* The setInterval backend, with ticks that take one event each.
SPECIFICATION FairSpec
CONSTANTS
  Isolates = {i1}
  Pulls = {p1}
  Others = {o1}
  Health = health
  MaxQueueSize = 2
  BatchSize = 1
  Timer = TRUE
  MaxRestarts = 0
PROPERTIES HealthCheckRecurs AdmittedHandled
