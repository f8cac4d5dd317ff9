SPECIFICATION FairSpec
CONSTANTS
  l1 = l1
  l2 = l2
  p1 = p1
  p2 = p2
  Loops = {l1}
  Periodic = {p1}
  ErrorEvent = ErrorEvent
  Worker = Worker
  Interval = 1
  MaxTime = 3
  MaxSends = 2
  MaxFaults = 1
INVARIANTS
  Coalesced
PROPERTIES
  EventuallyRuns
CHECK_DEADLOCK FALSE
