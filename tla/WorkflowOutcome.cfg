SPECIFICATION FairSpec
CONSTANTS
  Webhooks = {}
  LegacyTasks = {t1}
  Stages = {"booked", "callback"}
  Payloads <- AllPayloads
  MaxAttempts = 2
  Limits <- CrashAndRepeat
  Nobody = Nobody
INVARIANTS OneOutcome
PROPERTIES AnalysisPathEnds ImplementsOutcome
