SPECIFICATION FairSpec
CONSTANTS
  c1 = c1
  c2 = c2
  None = None
  All = All
  Client = {c1}
  RoomName = {r1}
  Requests = {"join_room"}
  ClientBuffer = 1
  BroadcastBuffer = 1
  RoomMessageBuffer = 1
  MaxMessages = 0
  MaxGeneration = 1
CHECK_DEADLOCK FALSE
PROPERTIES
  ShutdownFinishes
