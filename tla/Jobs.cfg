SPECIFICATION Spec
CONSTANTS
  c1 = c1
  c2 = c2
  ConvJobs = {c1, c2}
  g1 = g1
  Gpus = {g1}
  MaxKills = 1
  d1 = d1
  d2 = d2
  DubJobs = {d1, d2}
  MaxWorkers = 1
  MaxRestarts = 1
  w1 = w1
  w2 = w2
  Webs = {w1, w2}
  r1 = r1
  r2 = r2
  Runs = {r1, r2}
  MaxRequests = 4
  MaxCrashes = 1
  e1 = e1
  e2 = e2
  Designs = {e1, e2}
  u1 = u1
  u2 = u2
  DesignWebs = {u1, u2}
  Limit = 1
  MaxHours = 1
  MaxDeaths = 1
  x1 = x1
  x2 = x2
  XttsIds = {x1, x2}
  Usable = {x1}
  q1 = q1
  q2 = q2
  XttsGpus = {q1, q2}
  MaxXttsCalls = 4
  f1 = f1
  f2 = f2
  References = {f1, f2}
  FishGpus = {q1, q2}
  MaxAdds = 2
INVARIANTS
  DoneHasResult
  CleanedUp
  SettledAndServed
  RevokedIsGone
  TrainingIsOwned
  DraftsHold
PROPERTIES
  JobsKeepPromise
  EverythingSettles
CHECK_DEADLOCK FALSE
