SPECIFICATION FairSpec
CONSTANTS
  a = a
  b = b
  a1 = a1
  a2 = a2
  b1 = b1
  NoJob = NoJob
  GlobalAccount = GlobalAccount
  Customers = {a, b}
  Jobs = {a1, b1}
  CustomerOf <- Owners
  Estimate <- Estimates
  Budget <- Budgets
  HighJobs = {b1}
  TokenLimit = 3
  RequestLimit = 2
  Workers = {w1, w2}
  BatchLimit = 2
  LastMinute = 1
  MaxFailures = 1
  MaxCrashes = 1
  MaxOverruns = 1
INVARIANTS ReservedWithinLimits EveryGrantCharged CallsReserved UsageMatchesSuccesses OverflowIsForHigh LocksInOrder
PROPERTIES ReservationsOnlyGrow TransactionsEnd
CHECK_DEADLOCK FALSE
