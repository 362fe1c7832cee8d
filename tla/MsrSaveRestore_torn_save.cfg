\* The save is killed inside the value field of a line.
CONSTANTS
  NumPackage = 1
  NumCpu = 1
  Width = 8
  HwValues = {25}
  ControlValues = {9}
  SaveOpenFails = FALSE
  TornValues = TRUE
  RecoverFirst = TRUE
SPECIFICATION Spec
PROPERTY RestoreRoundTrip
CHECK_DEADLOCK FALSE
