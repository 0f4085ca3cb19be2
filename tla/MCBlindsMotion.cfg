SPECIFICATION Spec
CONSTANTS
  IntMax = 6
  BackoffSteps = 2
  OffsetOfMinStep = 1
  OffsetOfMaxStep = 1
  StallThreshold = 3
  MaxRecoveries = 2
  Depth = 2
  DropThreshold = 2
  Percents = {33}
  Inputs = {"UP", "HOMING_REACHED", "STALL_DETECTED"}
  HwFailures = {}
INVARIANTS TypeOK RangeOK IdleMeansStopped FaultRecorded RecoveryHasTarget
PROPERTIES FaultLatched BackoffTurnsBack RetryKeepsGoal PercentLands
CHECK_DEADLOCK FALSE
