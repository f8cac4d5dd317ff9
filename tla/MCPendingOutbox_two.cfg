SPECIFICATION FairSpec
CONSTANTS
  l1 = l1
  l2 = l2
  Loops = {l1, l2}
  MaxMessages = 2
  MaxFaults = 1
INVARIANTS
  NothingForgotten
  OneCopy
  ResentOnlyAfterFault
PROPERTIES
  InOrder
  Settles
