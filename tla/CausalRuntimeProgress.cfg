SPECIFICATION Spec
CONSTANTS
  Delegate = {d1}
  Input = {i1}
  MaxEpoch = 2
  BatchLimit = 1
  d1 = d1
  i1 = i1
PROPERTIES ClearEnds InputsSettle DispatchSettles
CHECK_DEADLOCK FALSE
