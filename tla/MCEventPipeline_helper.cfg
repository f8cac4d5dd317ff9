SPECIFICATION FairSpec
CONSTANTS
  app = app
  helper = helper
  Consumers = {app, helper}
  Once = {helper}
  BatchLimit <- MCBatchLimit
  DefaultLimit = 1
  LimitCap = 2
  Poison <- ThirdIsPoison
  OnChange <- EvenOnes
  MaxEvents = 4
  MaxFaults = 1
INVARIANTS
  NoLoss
  BlockedBehindPoison
  NothingHidden
  FirstDeliveryInOrder
PROPERTIES
  ImplementsLog
  EventuallyDelivered
