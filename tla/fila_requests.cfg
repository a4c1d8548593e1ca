SPECIFICATION BothSpec
CONSTANTS
  Consultants = {ana, bia}
  Requests = {r1}
  Both = {r1, r2}
  NoRequest = NoRequest
  Commands = {"queue", "pause", "resume", "start", "finish"}
  Rosters <- AnyOneLeft
  MaxServices = 1
  MaxTime = 4
  MaxIds = 3
PROPERTIES ImplementsOperations OverlappingEnd
CHECK_DEADLOCK FALSE
