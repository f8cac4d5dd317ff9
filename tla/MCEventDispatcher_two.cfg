SPECIFICATION Spec
CONSTANTS
  l1 = l1
  l2 = l2
  p1 = p1
  p2 = p2
  Loops = {l1, l2}
  Periodic = {p1}
  ErrorEvent = ErrorEvent
  Worker = Worker
  Interval = 1
  MaxTime = 2
  MaxSends = 2
  MaxFaults = 0
INVARIANTS
  SendsInOrder
CHECK_DEADLOCK FALSE
