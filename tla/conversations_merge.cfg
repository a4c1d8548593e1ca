SPECIFICATION ConvSpec
CONSTANTS
  Rows = {x1, x2}
  NoRow = norow
  Calls = {r1, r2, r3}
  Old = old
  Operators = {}
  Nobody = nobody
INVARIANTS DuplicatesAreConsolidated
CHECK_DEADLOCK FALSE
