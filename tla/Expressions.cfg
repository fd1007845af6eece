SPECIFICATION Spec
CONSTANTS
  x = x
  y = y
  Variable <- MCVariable
  Tree <- MCTree
  Height <- MCHeight
  Setting <- MCSetting
  Temporary <- MCTemporary
  Fixed = {1, 2}
  Unbound = Unbound
  Nothing = Nothing
  MaxCalls = 2
INVARIANTS
  SettingsAreBound
  EvaluationIsLocal
PROPERTIES
  ImplementsAssignments
CHECK_DEADLOCK FALSE
