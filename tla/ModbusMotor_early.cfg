\* A move is reported as observed before the motor has got there.
SPECIFICATION Spec
CONSTANTS
  m1 = m1
  stop = stop
  None = None
  Moves = {m1}
  Controls = {stop}
  ActionOf <- MCActionOf
  GoalOf <- MCGoalOf
  MaxFaults = 0
PROPERTIES
  ObservedHasArrived
CHECK_DEADLOCK FALSE
