\* One caller that may die between the two inserts of its claim.
SPECIFICATION FairSpec
CONSTANTS
  Workers = {w1}
  Losable = {}
  LookupFails = FALSE
  NoPlan = FALSE
  InsertFails = FALSE
  SlowHandlers = FALSE
  FailAt = {}
  CrashAt = {"mark"}
  MaxTakeovers = 1
  MaxFaults = 1
PROPERTY PaidIsLicensed
CHECK_DEADLOCK FALSE
