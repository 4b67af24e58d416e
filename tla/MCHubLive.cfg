SPECIFICATION FairSpec
CONSTANTS
  c1 = c1
  c2 = c2
  None = None
  All = All
  Client = {c1, c2}
  RoomName = {r1}
  Requests = {"reply"}
  ClientBuffer = 1
  BroadcastBuffer = 1
  RoomMessageBuffer = 1
  MaxMessages = 2
  MaxGeneration = 0
CHECK_DEADLOCK FALSE
PROPERTIES
  PumpsEnd
