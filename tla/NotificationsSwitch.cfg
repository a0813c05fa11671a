SPECIFICATION Spec
CONSTANTS
  Revisions = 1
  Parts = 1
  MaxRoutes = 1
  MaxAccounts = 0
  MaxConfirms = 0
  MaxFaults = 0
INVARIANTS NothingGivenUp
