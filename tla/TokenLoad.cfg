SPECIFICATION Spec
CONSTANTS
  a = a
  b = b
  a1 = a1
  a2 = a2
  b1 = b1
  NoJob = NoJob
  GlobalAccount = GlobalAccount
  Customers = {a, b}
  Jobs = {a1, a2}
  CustomerOf <- Owners
  Estimate <- Estimates
  Budget <- Budgets
  HighJobs = {}
  TokenLimit = 3
  RequestLimit = 1
  Workers = {w1}
  BatchLimit = 2
  LastMinute = 1
  MaxFailures = 0
  MaxCrashes = 0
  MaxOverruns = 0
INVARIANTS LoadWithinLimits
CHECK_DEADLOCK FALSE
