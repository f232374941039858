SPECIFICATION Spec
CONSTANTS
  PageUnits = 4
  FirstBreak = {2}
  LastBreak = 16
  Requests = {100, 260, 740, 800}
  MaxLive = 3
  LastEnd = 20
CHECK_DEADLOCK FALSE
INVARIANT RoomForHeader
