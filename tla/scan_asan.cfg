SPECIFICATION Spec
CONSTANTS
  MaxSessions = 2
  MaxFaults = 0
  Stops = {"none"}
INVARIANTS
  StaticNotRepeated
CHECK_DEADLOCK FALSE
