SPECIFICATION Spec
CONSTANTS
  Delegate = {d1, d2}
  Input = {i1}
  MaxEpoch = 1
  BatchLimit = 1
  d1 = d1
  d2 = d2
  i1 = i1
SYMMETRY Symmetry
INVARIANTS TypeOK LaunchFollowsAnswer WithdrawnNeverStarts ClearLeavesNothing OrderlyStopLosesNothing
PROPERTIES DurableBeforeLaunch ShownIsDurable
CHECK_DEADLOCK FALSE
