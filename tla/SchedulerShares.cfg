SPECIFICATION FairSpec
CONSTANTS
  noisy = noisy
  quiet = quiet
  high1 = high1
  high2 = high2
  low1 = low1
  medium1 = medium1
  bad1 = bad1
  w1 = w1
  w2 = w2
  Nobody = Nobody
  GlobalAccount = GlobalAccount
  Workers = {w1, w2}
  Customers = {noisy, quiet}
  Jobs = {high1, high2, low1, bad1}
  CustomerOf <- Owners
  Estimate <- Estimates
  Budget <- Budgets
  HighJobs <- Highs
  Text <- Texts
  Recurring = {high1, high2}
  Unreadable = {bad1}
  TokenLimit = 4
  RequestLimit = 5
  BatchLimit = 2
  MaxFailures = 1
  TicksPerMinute = 1
INVARIANTS TypeOK RefusalsStand
PROPERTIES NoOvertaking UrgentFirst OthersContinueIfNotCrowded
