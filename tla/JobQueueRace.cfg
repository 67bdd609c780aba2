SPECIFICATION FairSpec
CONSTANTS
  Jobs = {j1}
  Workers = {w1, w2}
  Recoverers = {w1, w2}
  NoJob = NoJob
  Nobody = Nobody
  Takes <- TakesAll
  MaxAttempts = 2
  BatchLimit = 1
  Deniable = {j1}
  MaxCrashes = 1
  MaxOverruns = 2
  MaxDenials = 1
INVARIANTS TypeOK OutcomeRecorded
PROPERTIES EveryJobEnds
