\* What must happen in the end (Background): loops, retries and refinement
\* of the bill.
SPECIFICATION BackgroundSpec
CONSTANTS
  \* Webhooks: one loop, and attempts that end while their row is held
  Hooks = {1, 2}
  Deliveries = {1, 2}
  Loops = {1}
  Slots = {1, 2}
  MaxRetries = 2
  HookBatch = 2
  Saturated = FALSE
  MaxTurns = 2
  MaxHookFaults = 1
  \* EmailQueue
  Mails = {1, 2}
  MailBatch = 2
  MaxMailAttempts = 2
  HasUser = TRUE
  MaxMailFaults = 1
  \* Idempotency
  Callers = {"w1", "w2"}
  Bodies = {"x", "y"}
  NoBody = "none"
  MaxPrunes = 1
  MaxIdemFaults = 2
  \* Metering
  Clients = {"c1"}
  Drainers = {"d1"}
  Asked = {2}
  Limits = {0}
  Threshold = 80
  MaxInt = 7
  Periods = {1}
  MaxAttempts = 2
  Batch = 1
  MaxRequests = 3
  MaxResets = 0
  MaxForgets = 0
  MaxMeteringFaults = 2
  \* Activation
  Devices = {"m1"}
  Requests = {"r1", "r2"}
  NoRequest = "none"
  MaxActivations = 1
  GraceDays = 1
  TokenDays = 2
  Terms = {1}
  LastDay = 0
  MaxIds = 2
  MaxChanges = 1
  \* EventClaim: faults that interrupt neither a claimant nor a release
  Workers = {"w1", "w2", "w3"}
  HasRecord = FALSE
  FailAt = {"reserve", "look", "expire", "complete"}
  CrashAt = {"reserve", "look", "expire", "complete"}
  HandlerFails = FALSE
  SlowHandlers = FALSE
  MaxTakeovers = 2
  MaxFaults = 2
INVARIANTS OutboxSafe EventsAreTaken
PROPERTIES DeliveredIsFinal EverythingSettles RepeatersAreServed ImplementsBilling
CHECK_DEADLOCK FALSE
