SPECIFICATION Spec
CONSTANTS
  c1 = c1
  x = x
  y = y
  Top = 5
  KeyBlocks <- MCKeyBlocks
  SplitAt = 3
  Addresses <- MCAddresses
  History <- MCHistory
  Clients = {c1}
  Calls = {x, y}
  Asks <- MCAsks
  First <- MCFirst
  Page = 2
  MaxRounds = 8
  MaxFaults = 1
INVARIANT AnswersMatch
 
CHECK_DEADLOCK FALSE
