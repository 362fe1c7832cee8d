\* One rank whose ignore-hinted region makes MPI calls.
CONSTANTS
  A = A
  I = I
  G = G
  EPOCH = EPOCH
  UNMARKED = UNMARKED
  NoTime = NoTime
  NaN = NaN
  Bases <- MCBases
  NumPackage = 1
  NumDram = 1
  StrayExits = {}
  AppRegions <- MCAppRegionsAI
  MpiNestingIn <- MCMpiNestingInIgnore
  NumRank = 1
  MaxTime = 2
  MaxCount = 1
  MaxEpoch = 1
SPECIFICATION Spec
INVARIANT EpochComputeNonNegative
VIEW ViewWithoutRegionInfo
CHECK_DEADLOCK FALSE
