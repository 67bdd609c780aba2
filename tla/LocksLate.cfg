SPECIFICATION Spec
CONSTANTS
  llm1 = llm1
  orch1 = orch1
  rec1 = rec1
  res1 = res1
  Nobody = Nobody
  i1 = i1
  i2 = i2
  Interactions = {i1}
  Workers = {llm1, orch1, rec1, res1}
  Kind <- KindsByName
  Recoverers = {llm1, orch1}
  Id <- SomeIds
  BatchLimit = 1
  MaxCrashes = 1
  MaxOverruns = 1
INVARIANTS TypeOK DeadlockIsOverOneJob
