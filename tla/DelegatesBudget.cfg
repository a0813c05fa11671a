SPECIFICATION Spec
CONSTANTS
  Request = {"run", "search"}
  ReadOnly = {"search"}
  Untimed = {}
  Budget = 1
  Outcome = {"ok", "unknown"}
  MaxDelegates = 2
  MaxEvents = 4
  MaxTime = 2
  MaxEpoch = 1
PROPERTIES BudgetHonoured
CHECK_DEADLOCK FALSE
