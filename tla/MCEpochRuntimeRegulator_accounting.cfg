\* One rank, all three regions; the caller may exit G before entering it.
CONSTANTS
  A = A
  I = I
  G = G
  EPOCH = EPOCH
  UNMARKED = UNMARKED
  NoTime = NoTime
  NaN = NaN
  Bases <- MCBases
  AppRegions <- MCAppRegions
  MpiNestingIn <- MCMpiNestingIn
  StrayExits <- MCStrayExits
  NumRank = 1
  NumPackage = 1
  NumDram = 1
  MaxTime = 2
  MaxCount = 2
  MaxEpoch = 2
SPECIFICATION Spec
INVARIANT TypeOK
INVARIANT EpochMpiWithinAppMpi
INVARIANT RegionMpiWithinRegion
PROPERTY AccountingSpec
VIEW ViewWithoutRegionInfo
CHECK_DEADLOCK FALSE
