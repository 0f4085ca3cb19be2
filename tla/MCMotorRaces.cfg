SPECIFICATION FairSpec
CONSTANTS
  Buffers = 2
  Symbols = 2
  MaxStep = 5
  MaxMoves = 2
  Failures = {"transmit", "send", "start"}
CONSTRAINT BeforeOverlap
INVARIANTS NoOverrun PositionKept LimitMeansArrived
PROPERTIES MovementSpec MovementEnds
CHECK_DEADLOCK FALSE
