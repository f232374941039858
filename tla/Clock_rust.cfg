SPECIFICATION ClockSpec
CONSTANTS
  NSEC = 8
  USEC = 2
  HalfWord = 64
  Backends = {"rust"}
  Delays = {0, 1, 5, 9}
  Starts = {0, 5}
  MaxTime = 14
CHECK_DEADLOCK FALSE
INVARIANTS
  SleepsNanoseconds
