SPECIFICATION MCSpec
CONSTANTS
  PageUnits = 4
  FirstBreak <- Breaks
  LastBreak = 41
  MaxPages = 3
  Borrowers = {t1, t2, t3}
  Buffers = {4, 5, 7}
  BufferUnits = 22
  Mappings = {4, 8, 13, 30, 31}
  MaxBorrowed = 2
  MaxBorrows = 4
  NSEC = 8
  USEC = 2
  HalfWord = 64
  Backends = {"x86_64"}
  Delays = {0, 1, 5, 9, 62}
  Starts = {0, 5}
  MaxTime = 14
  t1 = t1
  t2 = t2
  t3 = t3
  t4 = t4
  Threads = {t1, t2, t3, t4}
  Interruptible = {t1}
  Readers = {t1, t2}
  InSize = 3
  SourceLength = 6
  Newlines = {2, 6}
  Trailing = {4}
  Requests = {0, 1, 4}
  LineRequest = 3
  ReadFails = TRUE
  MaxReads = 3
  Powers <- FiveBits
  TopBit = 16
  MINUTE = 2
  HOUR = 4
  DAY = 12
  INT_MAX = 40000
  Times <- SomeTimes
  NtoaSize = 8
  FtoaSize = 10
  DefaultPrec = 2
  MaxPrec = 2
  MaxFloat = 1000
  AdaptLow = 2
  AdaptHigh = 2
  PowersAbove <- HighPowers
  PowersBelow <- LowPowers
  IntBits <- Bits
  Calls <- SomeCalls
  MaxDigits = 4
  HalfDigits = 2
  PowerBits = 4
  MaxPower = 8
  Texts <- SomeTexts
  Addresses = {1, 2, 3, 4, 5}
  CharValues <- SomeChars
  CharCodes <- SomeCodes
  MantBits = 2
  ExpBits = 5
  LongBits = 6
  LowBits = 1
  AtanGap = 6
  PowTiny = 6
  PowHuge = 22
  Shifts <- SomeShifts
  Corners <- SomeCorners
CHECK_DEADLOCK FALSE
INVARIANTS
  GrantsDisjoint
  GrantsUsable
  BorrowsSound
  TimedWaitsKeepTime
  NothingLost
  CallsTakeLines
  EmptyMeansEmpty
  DividesTruncating
  LoopInvariant
  DateIsTrue
  PutsOutAsInC
  NumbersAsInC
  StringsAsInC
  MathAsInC
  RunsOnce
  ReturnsInitialized
  NoLostWakeup
PROPERTIES
  EveryCallReturns
