\* A register with its top bit set (bit 63 of the 64-bit word, the top bit of Width) is saved.
CONSTANTS
  NumPackage = 1
  NumCpu = 1
  Width = 8
  HwValues = {5, 200}
  ControlValues = {9}
  SaveOpenFails = FALSE
  TornValues = FALSE
  RecoverFirst = TRUE
SPECIFICATION Spec
PROPERTY RestoreRoundTrip
CHECK_DEADLOCK FALSE
