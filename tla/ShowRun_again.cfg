SPECIFICATION Spec
CONSTANTS
  r1 = r1
  r2 = r2
  c1 = c1
  c2 = c2
  c3 = c3
  None = None
  Runtimes = {r1}
  Cues = {c1, c2}
  RuntimeOf <- ChainRuntime
  DependsOn <- ChainDepends
  AbortCues = {c1}
  Ends = {"SUCCEEDED", "FAILED"}
  MaxRuns = 2
  MaxArms = 1
  MaxAborts = 2
  MaxSessions = 2
  MaxBreaks = 1
INVARIANTS
  ShowInv
  OutcomeIsTrue
  QuietAfterRun
PROPERTIES
  SuccessMeansDone
  KeepsProtocol
CHECK_DEADLOCK FALSE
