SPECIFICATION FairSpec
CONSTANTS
  a = a
  b = b
  c = c
  r1 = r1
  r2 = r2
  Conn = {a, b, c}
  Room = {r1, r2}
  RoomOf <- TwoRooms
  Messages <- ThreeSenders
  MayQuit = {b}
  Capacity = 1
  None = None
PROPERTIES
  Delivered
  ImplementsRoomLog
CHECK_DEADLOCK FALSE
