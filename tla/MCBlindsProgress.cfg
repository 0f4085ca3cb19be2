SPECIFICATION FairSpec
CONSTANTS
  IntMax = 4
  BackoffSteps = 2
  OffsetOfMinStep = 1
  OffsetOfMaxStep = 1
  StallThreshold = 2
  MaxRecoveries = 1
  Depth = 2
  DropThreshold = 2
  Percents = {}
  Inputs = {"UP", "HOMING_REACHED", "STALL_DETECTED"}
  HwFailures = {}
PROPERTIES MovementEnds RecoveryEnds EscalationLands
CHECK_DEADLOCK FALSE
