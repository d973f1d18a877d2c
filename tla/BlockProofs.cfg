CONSTANTS
  Cases <- MCCases
  SignatureCounts = {0, 5, 7}
  ChainBlocks <- MCChainBlocks
  MaxSteps = 3
  ValidatorsData <- ValidatorsCells
  TransactionData <- TransactionCells
  StateData <- StateCells
  TransactionHash <- HashOfTransaction
  Broken <- Unreadable
  CheckValidators <- checkValidators
  CheckTransaction <- checkTransaction
  CheckStateHash <- checkStateHash
SPECIFICATION Spec
INVARIANTS PartsProve TransactionProven  ReplayAgrees
\* A request ends, answered or not.
CHECK_DEADLOCK FALSE
