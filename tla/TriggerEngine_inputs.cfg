\* Inputs, windows of time and coroutines that wait, without the window's thread.
SPECIFICATION Spec
CONSTANTS
  None = None
  AnySource = AnySource
  Triggers <- MCTriggers
  Events <- MCEvents
  MaxTime = 3
  MaxInputs = 4
  MaxArms = 2
  MaxHands = 1
INVARIANTS
  TriggerInv
PROPERTIES
  DebounceIsQuiet
  CooldownHolds
  KeepsProtocol
  AbortInputEndsRun
CHECK_DEADLOCK FALSE
