SPECIFICATION Spec
CONSTANTS
  MaxSessions = 3
  MaxFaults = 0
  Stops = {"none"}
INVARIANTS
  OverlayOfThisScan
CHECK_DEADLOCK FALSE
