SPECIFICATION Spec
CONSTANTS
  c1 = c1
  c2 = c2
  page = page
  manifest = manifest
  site = site
  http = http
  Null = Null
  Callers = {c1, c2}
  Urls = {page, manifest, site, http}
  Insecure = {http}
  TimeoutMs = 1
  MaxRedirects = 1
  TtlMs = 1
  MaxSize = 2
  MaxTime = 4
INVARIANTS
  OneSource
  FreshAnswers
PROPERTIES
  EvictsOldest
  EveryCallEnds
CHECK_DEADLOCK FALSE
