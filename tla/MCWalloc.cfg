SPECIFICATION MCSpec
CONSTANTS
  PageUnits = 7
  FirstBreak <- Breaks
  LastBreak = 28
  Requests = {100, 250, 260, 1290, 1508, 1568}
  MaxLive = 3
  LastEnd = 35
CHECK_DEADLOCK FALSE
INVARIANTS
  ObjectsApart
  BigEnough
  FreeListsSound
  AssertsHold
  FreeObjectsMerged
