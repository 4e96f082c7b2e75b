\* Two concurrent callers, where lookups and statements fail; and one caller at
\* a time, with failing inserts and crashes (the settings of CheckoutCallers).
SPECIFICATION CallersSpec
CONSTANTS
  Workers = {w1, w2}
  Losable = {"async_succeeded", "async_failed"}
  LookupFails = TRUE
  NoPlan = TRUE
  InsertFails = TRUE
  SlowHandlers = FALSE
  FailAt <- CleanFail
  CrashAt <- CleanCrash
  MaxTakeovers = 1
  MaxFaults = 1
INVARIANTS OkMeansTaken NeverForgotten
PROPERTIES PendingDroppedLate PaidIsLicensed LicensedSettles
CHECK_DEADLOCK FALSE
