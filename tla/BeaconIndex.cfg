\* A fork, restarts at any point, watchers that die.
CONSTANTS
  a = a  b = b  c = c  d = d
  Headers = {a, b, c}
  Slot <- ForkSlot
  ParentOf <- ForkParent
  Genesis = Genesis
  None = None
  MayCrash = TRUE
  MayFail = TRUE
SPECIFICATION FairSpec
INVARIANTS OneRowPerHeader   
PROPERTIES FinalityKept  UpdateStored
CHECK_DEADLOCK FALSE
