\* A correctly signed update is rejected where a period ends.
CONSTANTS
  Count = 2
  FinPeriod <- MCFinPeriod
  SigPeriod <- MCSigPeriod
  MaxFails = 0
SPECIFICATION Spec
INVARIANTS RejectedIsInvalid
CHECK_DEADLOCK FALSE
