SPECIFICATION AttemptsSpec
CONSTANTS
  Msgs = {m1}
  Handlers = {h1}
  Workers = {w1, w2}
  Jobs = {j1, j2}
  NoMsg = NoMsg
  NoJob = NoJob
  Errors <- MCErrors
  Kind <- StickerKind
  ProviderConfigured = TRUE
  Deletable = {m1}
  MaxAttempts = 3
  MaxRequeue = 1
  BatchLimit = 2
  MaxStalls = 1
  MaxAccepts = 2
  MaxReprocess = 1
  MaxFaults = 1
SYMMETRY Symmetry
INVARIANTS TypeOK PendingIsCarried DeliveredOnce FailedWasNotDelivered SettledIsAudited SentWasAccepted
CHECK_DEADLOCK FALSE
