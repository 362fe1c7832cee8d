\* One or two packages of up to three cores with up to two hyperthreads;
\* scatter only with num_cpu_max_perf a multiple of the package count.
CONSTANTS
  Packages = {1, 2}
  CoresPerPackage = {1, 2, 3}
  Hyperthreads = {1, 2}
  Frequencies = {1300, 1400}
  ScatterRemainder = FALSE
  Percentages = {100}
  PowerUnits = {3}
  ThermalSpecPowers = {1720}
  XfSockets = {1, 2}
  XfCpus = {4}
  XfHyperthreads = {1, 2}
  XfControls = {"GEOPM_DOMAIN_PACKAGE", "GEOPM_DOMAIN_TILE", "GEOPM_DOMAIN_CPU"}
  RankIds = {0, 1, 2}
  NUM_DOMAIN = 2
  NUM_COUNTER = 1
  NUM_SIGNAL_TYPE = 5
  Scale = 12
  NULL = NULL
  Imps = {I1}
  Regions = {R1}
  MaxModels = 2
SPECIFICATION Spec
INVARIANT ManualFrequencyPlacement
INVARIANT WritesDecodeUniquely
INVARIANT TransformMatchesReference
CHECK_DEADLOCK FALSE
