SPECIFICATION Spec
CONSTANTS
  e1 = e1
  e2 = e2
  o1 = o1
  o2 = o2
  c1 = c1
  c2 = c2
  Entities = {e1}
  Observers = {o1, o2}
  Contents = {c1}
  EntityKinds = {"user", "unknown"}
  Cooldowns = {2}
  Retention = 2
  MaxRows = 1
  MaxTime = 4
  MaxId = 2
INVARIANTS
  LastSeenCovers
PROPERTIES
  NoDoubleInsert
  PruneIsOldestFirst
  OldRowsGo
