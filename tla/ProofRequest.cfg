\* A request on a chain of three headers with a fork, whose second branch ends the process.
CONSTANTS
  a = a  b = b  c = c  d = d
  Headers = {a, b, c, d}
  Slot <- ForkSlot
  ParentOf <- ForkParent
  Genesis = Genesis
  None = None
  r1 = r1
  Requests = {r1}
  Txs <- BlockTxs
  Prepared = {a, b, d}
  PartLength = 2
  MayCrash = FALSE
  MayFail = FALSE
SPECIFICATION ReqFairSpec
INVARIANTS ReceiptSent ReceiptProven AnswerIsChain 
 
CHECK_DEADLOCK FALSE
