SPECIFICATION ScreenFairSpec
CONSTANTS
  ca = ca
  cb = cb
  m1 = m1
  Conversations = {ca, cb}
  Messages = {m1}
  Of <- AllInOne
  MaxAsked = 1
  MaxSwitches = 1
  MaxBreaks = 1
INVARIANTS ScreenTypeOK OwnMessagesOnly PendingIsOnItsWay
PROPERTIES ScreenCatchesUp
CHECK_DEADLOCK FALSE
