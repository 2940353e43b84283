SPECIFICATION Spec
CONSTANTS
  a1 = a1
  j1 = j1
  j2 = j2
  Api = {a1}
  Jobs = {j1, j2}
  MaxFaults = 0
  Races = {"early"}
PROPERTIES
  NotServedAfterDelete
