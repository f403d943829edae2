SPECIFICATION MCSpec
CONSTANTS
  c1 = c1
  c2 = c2
  k1 = k1
  k2 = k2
  NoKey = NoKey
  Clients = {c1, c2}
  Keys = {k1, k2}
  Limits <- Tiers
  Costs = {1}
  Second = 3
  Ttl = 2
  MaxTries = 2
  MaxTime = 3
CHECK_DEADLOCK FALSE
SYMMETRY Symmetry
INVARIANTS
  BucketIsExact
  RetryIsExact
  RetryIsHonest
PROPERTIES
  ExpiryIsInvisible
  RevokedKeyStaysOut
