SPECIFICATION FairSpec
CONSTANTS
  r1 = r1
  r2 = r2
  r3 = r3
  stray = stray
  Reqs = {r1, r2}
  Stray = stray
  Kinds = {"result", "error"}
  NumericIds = TRUE
  MaxExecutions = 2
  MaxEntries = 2
INVARIANTS NoneLeftOpen
PROPERTIES ExecutionsEnd
CHECK_DEADLOCK FALSE
