SPECIFICATION Spec
CONSTANTS
  Jobs = {j1}
  Workers = {w1, w2, w3}
  Recoverers = {w1, w2, w3}
  NoJob = NoJob
  Nobody = Nobody
  Takes <- TakesAll
  MaxAttempts = 2
  BatchLimit = 1
  Deniable = {}
  MaxCrashes = 0
  MaxOverruns = 1
  MaxDenials = 0
INVARIANTS NoJobStranded
