\* One rank; region A is registered both without a hint and with IGNORE.
CONSTANTS
  A = A
  I = I
  G = G
  EPOCH = EPOCH
  UNMARKED = UNMARKED
  NoTime = NoTime
  NaN = NaN
  Bases <- MCBases
  NumPackage = 1
  NumDram = 1
  StrayExits = {}
  AppRegions <- MCAppRegionsTwoHints
  MpiNestingIn <- MCMpiNestingIn
  NumRank = 1
  MaxTime = 3
  MaxCount = 2
  MaxEpoch = 1
SPECIFICATION Spec
PROPERTY AccountingSpec
VIEW ViewWithoutRegionInfo
CHECK_DEADLOCK FALSE
