\* Concurrent requests, re-saved rows, refusals and a restart; every request is answered.
CONSTANTS
  r1 = r1  r2 = r2  r3 = r3
  Requests = {r1, r2, r3}
  McBlocks = {1, 2}
  s1 = s1
  ShardBlocks = {s1}
  McParent <- MCParent
  MaxRescans = 1
  MaxCrashes = 1
  None = None
SPECIFICATION FairSpec
INVARIANTS   EvidenceKept
PROPERTIES EveryRequestEnds LockRefined
CHECK_DEADLOCK FALSE
