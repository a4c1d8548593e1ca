SPECIFICATION SeatsOnlySpec
CONSTANTS
  Users = {u1, u2}
  Limit = 1
  Admins = {r1, r2}
INVARIANTS LimitIsRespected
CHECK_DEADLOCK FALSE
