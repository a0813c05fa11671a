SPECIFICATION Spec
CONSTANTS
  Request = {"run", "search"}
  ReadOnly = {"search"}
  Untimed = {"search"}
  Budget = 1
  Outcome = {"ok", "unknown"}
  MaxDelegates = 2
  MaxEvents = 4
  MaxTime = 2
  MaxEpoch = 1
INVARIANTS TypeOK NoDuplicateWork ClaimsGetMoreCertain VerifiedBeforeRetry RoutingIsTight RowsAreCurrent
CHECK_DEADLOCK FALSE
PROPERTIES TimelyHandoffWins TimedRunsEnd ImplementsContract
