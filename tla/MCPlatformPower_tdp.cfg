\* tdp_limit at 100, 50 and 25 percent of a 215 W and an 8 W package
\* (1/8 W units) and of a package whose TDP field uses bit 14.
CONSTANTS
  Packages = {1}
  CoresPerPackage = {1}
  Hyperthreads = {1}
  Frequencies = {1300}
  ScatterRemainder = FALSE
  Percentages = {100, 50, 25}
  PowerUnits = {3}
  ThermalSpecPowers = {1720, 64, 16448}
  XfSockets = {1}
  XfCpus = {2}
  XfHyperthreads = {1}
  XfControls = {"GEOPM_DOMAIN_PACKAGE"}
  RankIds = {0}
  NUM_DOMAIN = 2
  NUM_COUNTER = 1
  NUM_SIGNAL_TYPE = 5
  Scale = 12
  NULL = NULL
  Imps = {I1}
  Regions = {R1}
  MaxModels = 1
SPECIFICATION Spec
INVARIANT TdpLimitProgramsTdp
CHECK_DEADLOCK FALSE
