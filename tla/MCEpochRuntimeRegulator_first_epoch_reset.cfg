\* Two ranks: a rank's first epoch() zeroes the buckets of every rank.
CONSTANTS
  A = A
  I = I
  G = G
  EPOCH = EPOCH
  UNMARKED = UNMARKED
  NoTime = NoTime
  NaN = NaN
  Bases <- MCBases
  NumPackage = 1
  NumDram = 1
  StrayExits = {}
  AppRegions <- MCAppRegionsAI
  MpiNestingIn <- MCMpiNestingIn
  NumRank = 2
  MaxTime = 2
  MaxCount = 1
  MaxEpoch = 1
SPECIFICATION Spec
PROPERTY AccountingSpec
VIEW ViewWithoutRegionInfo
CHECK_DEADLOCK FALSE
