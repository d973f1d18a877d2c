\* One request next to the tick loop stores a block twice.
CONSTANTS
  MaxSeqno = 3
  KeySeqnos = {0, 2}
  sa = sa  sb = sb  t1 = t1  t2 = t2
  Shards <- MCShards
  ShardSeqno <- MCShardSeqno
  Txs <- MCTxs
  Tick = tick
  f1 = f1  f2 = f2
  Finders = {f1}
  MaxLag = 0
  MaxCrashes = 0
  MaxFaults = 0
SPECIFICATION Spec
INVARIANTS NoDuplicates
CHECK_DEADLOCK FALSE
