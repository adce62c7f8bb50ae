SPECIFICATION FairSpec
CONSTANTS
  w1 = w1
  w2 = w2
  Workers <- MCWorkers
  Plan <- MCPlan
  Replies <- MCReplies
  Gate = 1
  MaxTransients = 1
  MaxTimeouts = 1
  Via = {"sdk", "openai"}
  NoTemperature = FALSE
  Attempts = 3
  MostAttempts = 6
  MaxRetries = 2
  MaxShrinks = 2
  MaxTurns = 3
  MaxCalls = 2
  Verified <- MCVerified
  Eligible = {"a", "c"}
  Complexity <- MCComplexity
  Limit = 0
  BuildTime = 4
  BuildStep = 2
  PlanTime = 3
  PlanSlack = 1
  RunStep = 2
  Reserve = 2
  Least = 3
  Most = 5
  MaxCommands = 2
  Configs <- MCConfigs
  Packaged = "packaged"
  InTarget = {"planted"}
  Machines <- MCMachines
  Commands <- MCCommands
  Overlay = {"Bash"}
  MaxLaunches = 2
INVARIANTS
  TypeOK
  AbortReaches
  UnitsApart
  NoSpuriousAbort
  CleanedRequestSent
  CrashConfirmed
  ProbeForetells
PROPERTIES
  AbortEnds
  
  WorkEnds
CHECK_DEADLOCK FALSE
