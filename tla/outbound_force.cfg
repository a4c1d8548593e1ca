SPECIFICATION Spec
CONSTANTS
  Msgs = {m1}
  Handlers = {h1}
  Workers = {w1}
  Jobs = {j1, j2}
  NoMsg = NoMsg
  NoJob = NoJob
  Errors <- MCErrors
  Kind <- PlainKind
  ProviderConfigured = TRUE
  Deletable = {}
  MaxAttempts = 1
  MaxRequeue = 1
  BatchLimit = 2
  MaxStalls = 0
  MaxAccepts = 1
  MaxReprocess = 1
  MaxFaults = 0
PROPERTIES ResendNeedsForce
CHECK_DEADLOCK FALSE
