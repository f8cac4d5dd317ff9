SPECIFICATION FairSpec
CONSTANTS
  app = app
  helper = helper
  Consumers = {app}
  Once = {}
  BatchLimit <- MCBatchLimit
  DefaultLimit = 1
  LimitCap = 2
  Poison <- NoPoison
  OnChange <- EvenOnes
  MaxEvents = 4
  MaxFaults = 2
INVARIANTS
  NoStaleDispatch
  ShownBeforeForgotten
PROPERTIES
  CursorMonotone
  EventuallyForgotten
