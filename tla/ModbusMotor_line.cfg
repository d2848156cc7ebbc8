\* Every way a transaction of the motor can go wrong, twice.
SPECIFICATION Spec
CONSTANTS
  m1 = m1
  stop = stop
  None = None
  Moves = {m1}
  Controls = {stop}
  ActionOf <- MCActionOf
  GoalOf <- MCGoalOf
  MaxFaults = 2
INVARIANTS
  WriteInv
PROPERTIES
  PreemptedStaysPreempted
  EveryWaiterAnswered
  ShownConverges
CHECK_DEADLOCK FALSE
