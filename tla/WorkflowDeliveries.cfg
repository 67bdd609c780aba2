SPECIFICATION Spec
CONSTANTS
  Webhooks = {h1, h2}
  LegacyTasks = {t1}
  Stages = {"booked"}
  Payloads <- Unrecorded
  MaxAttempts = 1
  Limits <- OneOfEach
  Nobody = Nobody
INVARIANTS TypeOK EndedIsQueued WebhooksTakeTurns EffectsPrecedeSuccess
PROPERTIES AnalysisMovesOn
