\* A shard row is checked under an unchecked masterchain row.
CONSTANTS
  r1 = r1  r2 = r2  r3 = r3
  Requests = {r1, r2}
  McBlocks = {1, 2}
  s1 = s1
  ShardBlocks = {s1}
  McParent <- MCParent
  MaxRescans = 0
  MaxCrashes = 0
  None = None
SPECIFICATION Spec
PROPERTIES McBlockFirst
CHECK_DEADLOCK FALSE
