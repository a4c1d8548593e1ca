SPECIFICATION ReadingSpec
CONSTANTS
  ca = ca
  cb = cb
  m1 = m1
  Conversations = {ca}
  Messages = {m1}
  Of <- AllInOne
  MaxAsked = 1
  MaxSwitches = 0
  MaxBreaks = 1
PROPERTIES NeverOutdated
CHECK_DEADLOCK FALSE
