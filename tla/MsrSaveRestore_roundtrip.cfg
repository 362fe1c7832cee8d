\* One package, one CPU; registers hold small words below the sign bit.
CONSTANTS
  NumPackage = 1
  NumCpu = 1
  Width = 8
  HwValues = {5, 40}
  ControlValues = {9}
  SaveOpenFails = FALSE
  TornValues = FALSE
  RecoverFirst = TRUE
SPECIFICATION Spec
PROPERTY RestoreRoundTrip
CHECK_DEADLOCK FALSE
