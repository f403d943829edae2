SPECIFICATION Spec
CONSTANTS
  c1 = c1
  c2 = c2
  page = page
  manifest = manifest
  site = site
  http = http
  Null = Null
  Callers = {c1}
  Urls = {page}
  Insecure = {}
  TimeoutMs = 1
  MaxRedirects = 1
  TtlMs = 1
  MaxSize = 2
  MaxTime = 1
INVARIANT FailuresAreResults
CHECK_DEADLOCK FALSE
