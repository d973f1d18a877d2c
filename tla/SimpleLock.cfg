\* Undisciplined callers: safety and service with stray releases and restarts.
CONSTANTS
  c1 = c1  c2 = c2  c3 = c3  c4 = c4
  Clients = {c1, c2, c3, c4}
  MaxStrays = 3
SPECIFICATION FairSpec
INVARIANTS QueueExact HoldersBound TakenIsHeld
PROPERTIES WaiterServed FifoOrder
