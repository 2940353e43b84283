SPECIFICATION Spec
CONSTANTS
  v1 = v1
  v2 = v2
  t1 = t1
  t2 = t2
  Voices = {v1, v2}
  Threads = {t1, t2}
  MaxCached = 1
  MaxEngines = 1
  MaxPublications = 2
  MaxFailures = 1
SYMMETRY CacheSymmetry
INVARIANTS
  SingleFlight
  DiskIsListed
  CacheCoherent
  AnswersAreTrue
