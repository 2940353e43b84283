SPECIFICATION Spec
CONSTANTS
  v1 = v1
  t1 = t1
  Voices = {v1}
  Threads = {t1}
  MaxCached = 1
  MaxEngines = 1
  MaxPublications = 2
  MaxFailures = 0
INVARIANTS
  RefetchForced
