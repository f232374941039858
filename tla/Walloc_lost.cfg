SPECIFICATION Spec
CONSTANTS
  PageUnits = 4
  FirstBreak = {2}
  LastBreak = 24
  Requests = {250, 300}
  MaxLive = 2
  LastEnd = 28
CHECK_DEADLOCK FALSE
INVARIANT WholeChunksKept
