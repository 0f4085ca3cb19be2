SPECIFICATION FairSpec
CONSTANTS
  InitialCounts <- AllCounts
  Version = 33
  MaxFaults = 2
  MaxResets = 1
INVARIANTS AcceptedMeansConfigured RejectedMeansFault
PROPERTY BootCompletes
CHECK_DEADLOCK FALSE
