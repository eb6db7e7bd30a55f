\* A request and the collectors on one pod; one of them may be cut off. It stops when
\* the index is empty.
SPECIFICATION FairSpec
CONSTANTS
  Pods = {p1}
  WithInstance = {p1}
  Users = {u1}
  Collectors = {c1}
  Quota = 0
  MaxFails = 1
  ProviderFails = FALSE
  MaxCalls = 3
  MaxCrashes = 1
PROPERTIES PodSteps TerminatedCollected
CHECK_DEADLOCK FALSE
