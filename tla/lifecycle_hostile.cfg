\* Any two events or requests at once, next to an expiry pass, with a crash or
\* a failed write.
SPECIFICATION Spec
CONSTANTS
  Handlers = {h1, h2}
  Checkers = {c1}
  Inputs <- Everything
  Ends = {0}
  GraceDays = 0
  First = 1
  Second = 2
  Final = 3
  PastDueTimeout = 4
  HandlersSpanDays = TRUE
  LastEventDay = 0
  LastDay = 1
  MayCrash = TRUE
  MaxFaults = 1
SYMMETRY HandlerSymmetry
INVARIANTS TypeOK PastDueHasClock
CHECK_DEADLOCK FALSE
