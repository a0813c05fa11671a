SPECIFICATION Spec
CONSTANTS
  Revisions = 2
  Parts = 2
  MaxRoutes = 1
  MaxAccounts = 1
  MaxConfirms = 1
  MaxFaults = 2
INVARIANTS TypeOK NeverSentBlindly IntentKept
PROPERTIES NothingAfterDismissal
