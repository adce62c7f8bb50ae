SPECIFICATION Spec
CONSTANTS
  a1 = a1
  a2 = a2
  svc = svc
  lib = lib
  org1_svc = org1_svc
  org2_svc = org2_svc
  r1 = r1
  r2 = r2
  l1 = l1
  Apart = Apart
  Clean = Clean
  NoRepo = NoRepo
  Repos = {r1, r2, l1}
  Remote = {r1, r2}
  NameOf <- MCNameOf
  TailOf <- MCTailOf
  AppOf <- MCAppOf
  Lists <- MCLists
  MaxBatches = 3
  MaxFaults = 1
INVARIANT TypeOK
INVARIANT RightRepository
INVARIANT SourceGone
INVARIANT ReportsSurvive
 
 
CHECK_DEADLOCK FALSE
