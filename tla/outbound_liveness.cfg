SPECIFICATION LivenessSpec
CONSTANTS
  m1 = m1
  Msgs = {m1, m2}
  Handlers = {h1}
  Workers = {w1}
  Jobs = {j1, j2}
  NoMsg = NoMsg
  NoJob = NoJob
  Errors <- MCErrors
  Kind <- PlainKind
  ProviderConfigured = FALSE
  Deletable = {}
  MaxAttempts = 1
  MaxRequeue = 1
  BatchLimit = 2
  MaxStalls = 0
  MaxAccepts = 0
  MaxReprocess = 0
  MaxFaults = 1
PROPERTIES NoInfinitePending
CHECK_DEADLOCK FALSE
