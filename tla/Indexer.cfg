\* The tick loop with one concurrent request, a lagging API, a faulty answer and a restart.
CONSTANTS
  MaxSeqno = 2
  KeySeqnos = {0, 1}
  sa = sa  sb = sb  t1 = t1  t2 = t2
  Shards <- MCShards
  ShardSeqno <- MCShardSeqno
  Txs <- MCTxs
  Tick = tick
  f1 = f1  f2 = f2
  Finders = {f1}
  MaxLag = 1
  MaxCrashes = 1
  MaxFaults = 1
SPECIFICATION FairSpec
INVARIANTS NoGap CursorBehind ParentsRight DuplicatesBounded
PROPERTIES  IndexPromised
CHECK_DEADLOCK FALSE
