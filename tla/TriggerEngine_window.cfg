\* The window's hold() comes after the run has ended.
SPECIFICATION SpecWithWindow
CONSTANTS
  None = None
  AnySource = AnySource
  Triggers <- MCTriggers
  Events <- MCEvents
  MaxTime = 2
  MaxInputs = 3
  MaxArms = 2
  MaxHands = 1
INVARIANTS
  RunningIsDriven
CHECK_DEADLOCK FALSE
