SPECIFICATION Spec
CONSTANTS
  Runtimes <- MCRuntimes
  Managed = "motor"
  MaxRevisions = 2
  MaxDeploys = 2
  MaxRequests = 1
  MaxBreaks = 1
  None = None
INVARIANTS
  DeploymentInv
PROPERTIES
  ExpectedIsReplaced
  AppliesEnd
  StatusConverges
CHECK_DEADLOCK FALSE
