SPECIFICATION Spec
CONSTANTS
  Disk <- MCDisk
  Outside = {}
  Marks <- MCMarks
  Kb <- MCKb
  Lines <- MCLines
  Shape <- MCShape
  Signals <- MCSignals
  Top <- MCTop
  Dir <- MCDir
  Production <- MCProduction
  Settings0 <- MCSettings
  Overlays <- MCOverlays
  MapAnswers <- MCMapAnswers
  PlanAnswers <- MCPlanAnswers
  ThreatAnswers <- MCThreatAnswers
  Source <- MCSources
  Native <- MCSources
  Eligible <- MCSources
  Defs <- MCDefs
  CallSites <- MCCallSites
  Nearness <- MCNearness
  Suffix <- MCSuffix
  MaxTargets = 1
  Rounds = 3
  MaxHops = 3
  MaxTaint = 3
  MaxThreats = 1
  Cap = 4
  MostFiles = 3
  CatchCap = 4
  CatchFiles = 2
  SpecialCap = 3
  Specialists = {"logic-bug"}
  NoFile = "no file"
  NoThreat = "none"
  Detections = {1, 2, 3, 4, 5}
  SiteOf <- MCSiteOf
  ClassOf <- MCClassOf
  Confidence <- MCConfidence
  Allowed = {1, 2, 3, 4}
  SeverityOf <- MCSeverityOf
  TextOf <- MCTextOf
  Chunks <- MCChunks
  VoteRuns = 2
  VoteThreshold = 2
  LineBucket = 10
  LineTolerance = 10
  PreVerify = 3
  MaxRanked = 2
  Files = {"src", "ci", "new"}
  Original = {"src", "ci"}
  Tracked = {"src", "ci"}
  Binary = {}
  Git = TRUE
  Policy <- MCPolicy
  Lists <- MCLists
  FileOf <- MCFileOf
  CweOf <- MCCweOf
  NoCwe = "unmapped"
  MaxRuns = 2
  MaxFailures = 1
  MaxReported = 1
  Gate <- MCGate
  Weight <- MCWeight
  Critical = {"security"}
  Unit = 10000
  FixedFrom = 8000
  PartialFrom = 5000
  Floor = 5000
  Dtos = {1, 2}
  IdOf <- MCIdOf
  Lists0 <- MCLists0
  Root = {"manifest.json"}
  MaxSessions = 2
  MaxPatches = 1
  MaxFaults = 1
  Reports <- MCReports
  Titles <- MCTitles
  Contained <- MCBegins
  Begins <- MCBegins
  TitleRank <- MCTitleRank
  Caps = {{}, {1}}
  ProfileTop = 0
  Outcomes = {"awaiting_validation", "deny"}
  Tailed = {1}
  MaxCommands = 3
INVARIANT RightHeading
CHECK_DEADLOCK FALSE
