SPECIFICATION Spec
CONSTANTS
  c1 = c1
  c2 = c2
  ConvJobs = {c1, c2}
  g1 = g1
  Gpus = {g1}
  MaxKills = 1
  d1 = d1
  d2 = d2
  DubJobs = {d1, d2}
  MaxWorkers = 1
  MaxRestarts = 1
  w1 = w1
  Webs = {w1}
  r1 = r1
  Runs = {r1}
  MaxRequests = 0
  MaxCrashes = 0
  e1 = e1
  e2 = e2
  Designs = {e1, e2}
  u1 = u1
  u2 = u2
  DesignWebs = {u1, u2}
  Limit = 1
  MaxHours = 0
  MaxDeaths = 1
  x1 = x1
  x2 = x2
  XttsIds = {x1, x2}
  Usable = {x1}
  q1 = q1
  q2 = q2
  XttsGpus = {q1, q2}
  MaxXttsCalls = 0
  f1 = f1
  f2 = f2
  References = {f1, f2}
  FishGpus = {q1, q2}
  MaxAdds = 0
PROPERTY
  ReportNeverFails
CHECK_DEADLOCK FALSE
