\* Two concurrent requests on two pods, three in all; it stops when the calls are used up.
SPECIFICATION Spec
CONSTANTS
  Pods = {p1, p2}
  WithInstance = {p1, p2}
  Users = {u1, u2}
  Collectors = {}
  Quota = 1
  MaxFails = 1
  ProviderFails = TRUE
  MaxCalls = 3
  MaxCrashes = 1
SYMMETRY Symmetry
INVARIANTS IndexedExist UsageBounded
PROPERTY FollowsTable
CHECK_DEADLOCK FALSE
