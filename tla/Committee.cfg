\* Overlapping handlers across two period boundaries, with failing requests.
CONSTANTS
  Count = 5
  FinPeriod <- MCFinPeriod
  SigPeriod <- MCSigPeriod
  MaxFails = 1
SPECIFICATION FairSpec
INVARIANTS TypeOK
PROPERTIES RefusedOnlyAtBoundary CommitteeStepsByOne StoredOrReplaced
CHECK_DEADLOCK FALSE
