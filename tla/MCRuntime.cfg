SPECIFICATION Spec
CONSTANTS
  Supervisors = {1, 2}
  MaxGen = 2
  Settings <- MCSettings
INVARIANTS ChildrenAreContained ShutdownIsOrdered
PROPERTIES RuntimeSettles
CHECK_DEADLOCK FALSE
