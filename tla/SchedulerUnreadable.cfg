SPECIFICATION FairSpec
CONSTANTS
  noisy = noisy
  quiet = quiet
  high1 = high1
  high2 = high2
  low1 = low1
  medium1 = medium1
  bad1 = bad1
  w1 = w1
  w2 = w2
  Nobody = Nobody
  GlobalAccount = GlobalAccount
  Workers = {w1}
  Customers = {noisy, quiet}
  Jobs = {bad1, low1, medium1}
  CustomerOf <- Owners
  Estimate <- Estimates
  Budget <- Budgets
  HighJobs <- Highs
  Text <- Texts
  Recurring = {}
  Unreadable = {bad1}
  TokenLimit = 4
  RequestLimit = 5
  BatchLimit = 2
  MaxFailures = 0
  TicksPerMinute = 2
PROPERTIES OthersContinue
