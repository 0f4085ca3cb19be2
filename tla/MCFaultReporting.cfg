SPECIFICATION FairSpec
CONSTANTS
  WifiFailures = {"nvs", "setup", "connect"}
  MqttFailures = {"init", "task", "start", "subscribe"}
  MaxBreaks = 2
  MaxRestarts = 1
  Messages <- SomeMessages
  Causes <- TwoCauses
INVARIANTS BitsTrue SettledMeansTold CommandsMeant
PROPERTIES NoRetraction FaultTold
