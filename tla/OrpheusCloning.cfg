SPECIFICATION FairSpec
CONSTANTS
  a1 = a1
  a2 = a2
  j1 = j1
  j2 = j2
  Api = {a1, a2}
  Jobs = {j1, j2}
  MaxFaults = 2
  Races = {}
INVARIANTS
  EngineIsCurrent
  NoPoisonedEngine
  OneRunAtATime
PROPERTIES
  NotServedAfterDelete
  ImplementsLifecycle
  DeleteCompletes
  TrainingSettles
