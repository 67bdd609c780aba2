SPECIFICATION Spec
CONSTANTS
  Jobs = {j1, j2}
  Workers = {w1, w2, w3}
  Recoverers = {w1}
  NoJob = NoJob
  Nobody = Nobody
  Takes <- TakesAll
  MaxAttempts = 2
  BatchLimit = 2
  Deniable = {j1}
  MaxCrashes = 2
  MaxOverruns = 0
  MaxDenials = 1
INVARIANTS SafeInv Exclusive EveryCallPaidFor CallsBounded
PROPERTIES TerminalIsFinal RetriesSpent ImplementsLifecycle
