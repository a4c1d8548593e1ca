SPECIFICATION RequestsSpec
CONSTANTS
  Consultants = {ana, bia}
  Requests = {r1, r2}
  Commands = {"queue", "start"}
  Rosters <- Everybody
  NoRequest = NoRequest
  MaxServices = 1
  MaxTime = 3
  MaxIds = 3
INVARIANTS OpenServicesStay
CHECK_DEADLOCK FALSE
