SPECIFICATION Spec
CONSTANTS
  g1 = g1
  g2 = g2
  p1 = p1
  p2 = p2
  s1 = s1
  NoPublisher = NoPublisher
  Gifts = {g1, g2}
  Evergreen = {g1}
  PublisherOf <- PublishedByOne
  Scans = {s1}
  Inventories <- SomeInventories
  MaxTicks = 2
CHECK_DEADLOCK FALSE
INVARIANTS
  NoFalseFlag
  CatalogIsSerial
PROPERTIES
  CatalogOnlyGains
  LatestTickCompletes
  EveryTickEnds
