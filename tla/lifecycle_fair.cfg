\* Payments and cancellations, one at a time next to an expiry pass, with
\* crashes and failing writes.
SPECIFICATION FairSpec
CONSTANTS
  Handlers = {h1}
  Checkers = {c1}
  Inputs <- PaymentsAndEnds
  Ends = {4}
  GraceDays = 0
  First = 1
  Second = 2
  Final = 3
  PastDueTimeout = 4
  HandlersSpanDays = FALSE
  LastEventDay = 1
  LastDay = 5
  MayCrash = TRUE
  MaxFaults = 1
INVARIANTS ClockIsFresh MailsOnce SubscriptionFollows
PROPERTIES LadderClimbs CancellationSettles DebtorsAreWarned
CHECK_DEADLOCK FALSE
