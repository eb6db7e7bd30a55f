\* Two callers, two resources or three nodes of each part; it stops when the calls are
\* used up or an algorithm has its result.
SPECIFICATION PlatformSpec
CONSTANTS
  Parts = {"ring", "files", "walks", "collections", "list", "providers",
           "placement", "firsts", "requests", "pulls", "trail", "readers", "timer", "notices", "logs"}
  Element = {a, b}
  Undefined = Undefined
  Capacities = {1, 2, 3}
  MaxCapacity = 6
  Clients = {"a", "b"}
  Keys = {"x", "y"}
  Writes = {"v", "w"}
  Txns <- CounterMoveCopy
  Gets = 1
  Serialised = TRUE
  Crashes = 1
  Torn = FALSE
  Isolates = {1, 2}
  HasCallback = FALSE
  Interval = 2
  MaxEvictions = 1
  MaxStarts = 2
  MaxTime = 7
INVARIANTS AlgorithmsSound TimerSound ReportsSound
PROPERTIES ImplementsDeque FilesSerial NothingUndone
CHECK_DEADLOCK FALSE
