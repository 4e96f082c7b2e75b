\* The components behind the license API, each with its own concurrent
\* requests and faults.
SPECIFICATION Spec
CONSTANTS
  \* Idempotency
  Callers = {"w1", "w2", "w3"}
  Bodies = {"x", "y"}
  NoBody = "none"
  MaxPrunes = 1
  MaxIdemFaults = 1
  \* Activation
  Devices = {"m1", "m2"}
  Requests = {"r1", "r2"}
  NoRequest = "none"
  MaxActivations = 1
  GraceDays = 1
  TokenDays = 2
  Terms = {1}
  LastDay = 2
  MaxIds = 2
  MaxChanges = 1
  \* Floating
  Machines = {"m1", "m2", "m3"}
  Checkouts = {"r1", "r2"}
  NoCheckout = "none"
  MaxSessions = 1
  MaxExpiries = 2
  \* Seats
  People = {"ann", "bob"}
  Inviters = {"i1", "i2"}
  Acceptors = {"a1", "a2"}
  NoInviter = "none"
  MaxSeats = 1
  MaxTokens = 2
  MaxTurns = 2
  \* Metering
  Clients = {"c1", "c2"}
  Drainers = {"d1", "d2"}
  Asked = {0, 5}
  Limits = {3}
  Threshold = 60
  MaxInt = 5
  Periods = {1}
  MaxAttempts = 1
  Batch = 2
  MaxRequests = 2
  MaxResets = 1
  MaxForgets = 1
  MaxMeteringFaults = 2
  \* Throttle
  Rate = 2
  Window = 5
  Linger = 1
  LastTick = 7
  MaxRestarts = 1
INVARIANTS TypesAndLocks LimitsKept OnceOnly OfflineAgrees 
CHECK_DEADLOCK FALSE
