SPECIFICATION ServicesSpec
CONSTANTS
  c1 = c1
  c2 = c2
  c3 = c3
  a1 = a1
  a2 = a2
  Consultants = {c1, c2, c3}
  MaxServices = 1
  MaxTime = 5
  MaxIds = 2
  Screens = {a1, a2}
  Sockets = {b1, b2}
  NoSocket = none
  BufferSize = 1
  MaxCommits = 2
  MaxLost = 1
  Rows = {1, 2, 3}
  NoRow = none
  Calls = {c1, c2, c3}
  Old = old
  Operators = {ana}
  Nobody = none
  Users = {u1}
  Limit = 1
  Admins = {b1, b2}
  Sheets = {a1, a2}
  NoSheet = none
  MaxActs = 3
  Marks = {b1, b2}
  Fetches = {b1, b2}
SYMMETRY Symmetry
INVARIANTS TypeOK OnePlace CapRespected StatusSummarizes ServicesAccounted SessionsAreDisjoint
           ComponentsTyped ScreensFollow StoredIsVisible AssignmentStays SeatsAreEarned AccountsFollowMembers
           SavedAsEdited LinesAreNotWiped
PROPERTIES ImplementsBoard
CHECK_DEADLOCK FALSE
