SPECIFICATION Spec
CONSTANTS
  Routes = {"executor", "nova"}
  CorrectionLimit = 1
  MaxWorks = 2
  MaxInputs = 1
  MaxControl = 2
  MaxGoals = 1
  MaxFaults = 1
INVARIANTS TypeOK CompletedIsProven InputsHeeded NobodyStranded
PROPERTIES NoOverlap AttestedIsVerified OnlyForward
CHECK_DEADLOCK FALSE
