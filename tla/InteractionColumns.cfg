SPECIFICATION Spec
CONSTANTS
  d1 = d1
  Deliveries = {d1}
  Stages = {"interested"}
  MaxAttempts = 2
  MaxCrashes = 1
INVARIANTS TypeOK DashboardAgrees ErrorLogHonest
