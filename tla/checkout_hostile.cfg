SPECIFICATION Spec
CONSTANTS
  Workers = {w1, w2}
  Losable = {"completed_unpaid", "completed_paid", "async_succeeded", "async_failed"}
  LookupFails = TRUE
  NoPlan = TRUE
  InsertFails = TRUE
  SlowHandlers = TRUE
  FailAt <- AllLabels
  CrashAt <- AllLabels
  MaxTakeovers = 1
  MaxFaults = 1
SYMMETRY Symmetry
INVARIANTS TypeOK MailedOnce OnlyPaidIsLicensed
CHECK_DEADLOCK FALSE
