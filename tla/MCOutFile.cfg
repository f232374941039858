SPECIFICATION FairSpec
CONSTANTS
  t1 = t1
  t2 = t2
  Threads = {t1, t2}
  Size = 3
  Jobs <- AllJobs
  WriteFails = TRUE
  MaxCalls = 3
CHECK_DEADLOCK FALSE
INVARIANTS
  NothingLost
  CallsContiguous
  ResultsAreTrue
  LinesAreOut
PROPERTIES
  EveryCallReturns
