SPECIFICATION Spec
CONSTANTS
  l1 = l1
  l2 = l2
  Loops = {l1}
  MaxMessages = 1
  MaxFaults = 1
INVARIANTS
  PendingIsQueued
