SPECIFICATION Spec
CONSTANTS
  Buffers = 2
  Symbols = 1
  MaxStep = 3
  MaxMoves = 2
  Failures = {"disable", "count", "send", "start"}
CONSTRAINT OneTrouble
INVARIANTS TypeOK RingOK StopMeansStill NoOverrun
CHECK_DEADLOCK FALSE
