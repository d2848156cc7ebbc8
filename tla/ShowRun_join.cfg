SPECIFICATION FairSpec
CONSTANTS
  r1 = r1
  r2 = r2
  c1 = c1
  c2 = c2
  c3 = c3
  None = None
  Runtimes = {r1, r2}
  Cues = {c1, c2, c3}
  RuntimeOf <- JoinRuntime
  DependsOn <- JoinDepends
  AbortCues = {c2}
  Ends = {"SUCCEEDED"}
  MaxRuns = 1
  MaxArms = 1
  MaxAborts = 2
  MaxSessions = 1
  MaxBreaks = 1
INVARIANTS
  DependenciesFirst
PROPERTIES
  ShowEnds
CHECK_DEADLOCK FALSE
