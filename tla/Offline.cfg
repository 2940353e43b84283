SPECIFICATION Spec
CONSTANTS
  MaxChars = 9
  FirstMax = 5
  PlainMin = 7
  MinHead = 2
  MinTail = 2
  MinWords = 2
  MinHalf = 1
  Codebook = 2
  AudioStart = 9
  MinClips = 20
  MinTotal = 5
  MaxTotal = 8
  MeasureEvery = 2
  MaxMeasured = 1
  MaxLines = 4
  Secret = "ours"
  Ttl = 3000
  Milli = 1000
  Laws = {"mulaw", "alaw"}
  MaxPieces = 5
  MaxSounds = 7
  Stride = 5
  Variants <- MCVariants
  Estimate <- MCEstimate
  Groups <- MCGroups
  MaxCycles = 3
  MaxKills = 1
  Budget = 5
  Overrun = 1
  g1 = g1
  g2 = g2
  Containers = {g1, g2}
  Whole = 2
  MaxLaunches = 3
  MaxFaults = 1
  Voices = {"a", "b", "c"}
  Mislabelled = {"b"}
  TierB = {"c"}
  MaxAttempts = 2
  MaxHouseRuns = 2
INVARIANTS
  AudioIsKept
  DecisionsHold
  CycleAccounts
  ArtifactsHold
PROPERTIES
  CheckpointKept
  OfflineEnds
CHECK_DEADLOCK FALSE
