\* Every cell a block, a state, an account, a message or the configuration is made of.
CONSTANTS Roots <- AllRoots
SPECIFICATION Spec
INVARIANTS FieldsInPlace 
CHECK_DEADLOCK FALSE
