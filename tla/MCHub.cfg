SPECIFICATION Spec
CONSTANTS
  c1 = c1
  c2 = c2
  None = None
  All = All
  Client = {c1, c2}
  RoomName = {r1}
  Requests = {"join_room", "leave_room"}
  ClientBuffer = 1
  BroadcastBuffer = 1
  RoomMessageBuffer = 1
  MaxMessages = 2
  MaxGeneration = 2
CHECK_DEADLOCK FALSE
SYMMETRY Symmetry
INVARIANTS
  TypeOK
  RegisteredIsOpen
  RoomsAgree
  NoGap
