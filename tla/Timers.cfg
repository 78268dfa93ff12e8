CONSTANTS
  Period = 10
  Interval = 61
  Challenge = 900
  Dead = 960
  Poll = 55
  Timeout = 15
  Restarts = FALSE
  MaxAlone = 40
SPECIFICATION Spec
INVARIANTS NeverSilent SilentIsClosed WaitsEnd
PROPERTIES TimeToAnswer TimeToReturn
