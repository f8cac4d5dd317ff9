SPECIFICATION Spec
CONSTANTS
  Msgs = {1, 2, 3}
  Own = {3}
  Stubs = {}
  ContentOf <- Texts
  Batches <- Events
  MaxBatches = 2
  MaxLive = 1
  MaxCalls = 1
  MaxCrashes = 1
INVARIANTS
  TypeOK
  OneRecord
  EditsKept
  NewestShown
  CountsAgree
CHECK_DEADLOCK FALSE
