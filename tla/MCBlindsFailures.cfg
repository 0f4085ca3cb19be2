SPECIFICATION Spec
CONSTANTS
  IntMax = 4
  BackoffSteps = 2
  OffsetOfMinStep = 1
  OffsetOfMaxStep = 1
  StallThreshold = 2
  MaxRecoveries = 1
  Depth = 2
  DropThreshold = 2
  Percents = {}
  Inputs = {"DOWN", "HOMING_REACHED", "STALL_DETECTED"}
  HwFailures = {"stop", "start", "refill", "isr"}
INVARIANTS IdleMeansStopped FaultRecorded RecoveryHasTarget
CHECK_DEADLOCK FALSE
