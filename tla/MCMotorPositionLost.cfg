SPECIFICATION Spec
CONSTANTS
  Buffers = 2
  Symbols = 1
  MaxStep = 3
  MaxMoves = 2
  Failures = {}
INVARIANT PositionTrue
CHECK_DEADLOCK FALSE
