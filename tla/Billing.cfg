SPECIFICATION Spec
CONSTANTS
  Keys = {k1}
  Requests = {r1,r2}
  Sizes = {1,2}
  Surfaces = {"relay","oneshot","direct"}
  FreeTier = 3
  CharsPerSecond = 2
  MaxTries = 2
SYMMETRY RequestSymmetry
INVARIANTS
  FlagAgrees
  LedgerMatches
  ChargedOnce
  FreeNotInvoiced
  NothingSlips
