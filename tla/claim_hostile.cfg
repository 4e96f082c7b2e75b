\* Everything may go wrong: three deliveries, failing statements, crashes
\* anywhere, handlers slower than staleClaimAge.
SPECIFICATION Spec
CONSTANTS
  Workers = {w1, w2, w3}
  HasRecord = FALSE
  FailAt <- AllLabels
  CrashAt <- AllLabels
  HandlerFails = TRUE
  SlowHandlers = TRUE
  MaxTakeovers = 2
  MaxFaults = 3
SYMMETRY Symmetry
INVARIANTS TypeOK OverlapBounded AppliedBounded NoRepeatWithoutTakeover
