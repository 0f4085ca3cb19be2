SPECIFICATION Spec
CONSTANTS
  IntMax = 6
  BackoffSteps = 2
  OffsetOfMinStep = 1
  OffsetOfMaxStep = 1
  StallThreshold = 3
  MaxRecoveries = 1
  Depth = 2
  DropThreshold = 2
  Percents = {}
  Inputs = {"HOMING_REACHED", "STALL_DETECTED"}
  HwFailures = {}
PROPERTY BackoffMovesAway
CHECK_DEADLOCK FALSE
