SPECIFICATION FairSpec
CONSTANTS
  sound1 = sound1
  sound2 = sound2
  early1 = early1
  late1 = late1
  Interactions = {sound1, sound2, early1, late1}
  Orchestrators = {o1, o2}
  Raises <- Payloads
  BatchLimit = 2
  MaxAttempts = 2
  MaxRollbacks = 2
INVARIANTS AttemptsAreOwn DeadForOwnErrors ChildrenWithOutcome
PROPERTIES EveryJobEnds
