SPECIFICATION Spec
CONSTANTS
  Workers = {w1, w2}
  Requests = {r1, r2}
  Host <- EveryWorkerBusy
  MaxVersions = 2
INVARIANT ReadYourWrites
