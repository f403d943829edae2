SPECIFICATION Spec
CONSTANTS
  c1 = c1
  c2 = c2
  c3 = c3
  Clients = {c1, c2, c3}
  Limits <- OneTokenASecond
  Costs = {1}
  Second = 1
  Ttl = 4
  MaxTries = 1
  MaxTime = 3
CHECK_DEADLOCK FALSE
SYMMETRY Symmetry
INVARIANTS
  RateIsBounded
