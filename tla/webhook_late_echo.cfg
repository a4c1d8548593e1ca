SPECIFICATION Spec
CONSTANTS
  Customer = {c1}
  Panel = {p1}
  Phone = {}
  Text <- EachItsOwn
  Fits <- EachLikeItself
  Bare = {}
  Requests = {r1, r2, r3}
  NoOne = NoOne
  MaxCopies = 2
  MaxFaults = 0
  MaxLapses = 1
SYMMETRY Symmetry
INVARIANTS EchoNeverDuplicates
CHECK_DEADLOCK FALSE
