SPECIFICATION MCSpec
CONSTANTS
  Task = {"a", "b"}
  Batch = {{"a", "b"}}
  Options <- MCOptions
  ServerVersion = 3
  MinSdkVersion = 2
  ValidName = {"q"}
  MaxSessions = 2
  MaxLeases = 2
  MaxBeats = 1
  MaxFaults = 1
CHECK_DEADLOCK FALSE
INVARIANTS
  SharesProportional PayloadsProtected
PROPERTIES
  SessionConforms DeliveriesAccounted
