SPECIFICATION Spec
CONSTANTS
  MaxSessions = 3
  MaxFaults = 1
  Stops = {"s4", "s5", "s6", "none"}
INVARIANTS
  TypeOK
  CoherentReport
  OnlyThisScan
  StopHonoured
  NothingRedone
CHECK_DEADLOCK FALSE
