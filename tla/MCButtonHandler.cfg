SPECIFICATION FairSpec
CONSTANTS
  Buttons = {"UP", "DOWN"}
  QueueDepth = 6
  Debounce = 3
  BounceTicks = 2
  PressGap = 4
INVARIANT OneCommandPerPress
PROPERTY FirstPressHeard
