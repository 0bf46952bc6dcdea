SPECIFICATION Spec
CONSTANTS
  Days <- MCDays
  Files <- MCFiles
  Locates <- MCLocates
  MaxPackets = 4
INVARIANT LossIsLoud
CHECK_DEADLOCK FALSE
