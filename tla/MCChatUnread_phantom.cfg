SPECIFICATION Spec
CONSTANTS
  loop = loop
  ui = ui
  c1 = c1
  c2 = c2
  Actors = {loop, ui}
  Dispatchers = {loop}
  Chats = {c1, c2}
  Msgs = {1, 2, 3}
  ChatOf <- MCChatOf
  MaxOps = 4
  MaxCrashes = 0
INVARIANTS
  NoPhantomUnread
CHECK_DEADLOCK FALSE
