\* Two ranks reaching their first epoch at different times.
CONSTANTS
  A = A
  I = I
  G = G
  EPOCH = EPOCH
  UNMARKED = UNMARKED
  NoTime = NoTime
  NaN = NaN
  Bases <- MCBases
  NumPackage = 1
  NumDram = 1
  StrayExits = {}
  AppRegions <- MCAppRegionsAI
  MpiNestingIn <- MCMpiNestingIn
  NumRank = 2
  MaxTime = 3
  MaxCount = 0
  MaxEpoch = 1
SPECIFICATION Spec
PROPERTY EpochEnergyMonotone
VIEW ViewWithoutRegionInfo
CHECK_DEADLOCK FALSE
