SPECIFICATION Spec
CONSTANTS
  friend = friend
  Me = Me
  Msgs = {1, 2}
  Own = {1}
  Media = {2}
  Stickers = {2}
  Others = {friend}
  MaxEvents = 3
  MaxCalls = 1
  MaxCrashes = 1
INVARIANTS
  TypeOK
  Findable
  ShowsLastChange
  ReactionsShown
  PreviewIsNewest
CHECK_DEADLOCK FALSE
