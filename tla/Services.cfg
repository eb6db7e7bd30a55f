\* Two calls at a time, two to four in all, on one or two entities; it stops
\* when the calls are used up.
SPECIFICATION ServicesSpec
CONSTANTS
  Parts = {"users", "sessions", "entities", "templates", "secrets", "grants", "checks", "acls", "seed",
           "gate", "subnets"}
  Texts = {"p", "q"}
  Ids = {"s", "t"}
  Isolates = {1}
  MaxKeys = 2
  MaxChanges = 3
  Starters = {"v", "w"}
  Starts <- OnceEach
  Clients = {"a", "b"}
  UserIds = {"u1", "u2", "u3"}
  Emails = {"e", "f"}
  Menu <- UserMenu
  Calls <- OnceAndTwice
  Workers = {"v", "w"}
  Rules = {"r"}
  Callers = {"a", "b", "d"}
  Home <- TwoAtOne
  Requests <- Asked
  Visitors = {"a", "b"}
  Accounts = {"u"}
  Tokens = {"t1", "t2", "t3"}
  KeyTexts = {"k"}
  KeyOf <- Signed
  KeyTime <- SignedAt
  KeyWindow = 1
  NonceTtl = 3
  SessionTtl = 2
  Offers <- VisitorMenu
  Visits <- OnceAndTwice
  MaxClock = 3
  Arrivals = {1, 2, 3}
  Hosts = {"g", "h"}
  Ips = {"x"}
  Enabled = TRUE
  BypassIps = {}
  HasBypassToken = TRUE
  IdempotencyKeys = {"k"}
  NoKey = "-"
  Burst = 1
  Interval = 2
  MaxTime = 2
  Tenants = {"a", "b"}
  Width = 3
  SuperBits = 1
  PrefixLen = 2
  MaxCalls = 4
INVARIANTS DirectorySound RulesCurrent LoginsSound  SeedComplete GateSound OneTenant DerivedAgree
PROPERTIES LosesNoUpdate NothingOverwritten
CHECK_DEADLOCK FALSE
