\* Deliveries one at a time, as after a restart of a single process: clean
\* crashes, failing statements and failing handlers.
SPECIFICATION FairSpec
CONSTANTS
  Workers = {w1}
  HasRecord = FALSE
  FailAt <- CleanFail
  CrashAt <- CleanCrash
  HandlerFails = TRUE
  SlowHandlers = FALSE
  MaxTakeovers = 3
  MaxFaults = 2

PROPERTIES ImplementsDelivery
