SPECIFICATION MCSpec
CONSTANTS
  t1 = t1
  t2 = t2
  t3 = t3
  Threads <- ThreeThreads
  WordSize = 8
  Timeouts = TRUE
  Interrupts = TRUE
  WeakCASFails = TRUE
  Notifications = {"signal", "broadcast"}
  Notifier = t1
  ExitThreads <- ThreeThreads
  Main = t1
  Handlers = {"h1", "h2"}
  InitTable <- Constructors
  FiniTable <- Destructors
  UserCalls <- Everywhere
  MaxAtExit = 3
CHECK_DEADLOCK FALSE
INVARIANTS
  TypeOK
  MutualExclusion
  WordTellsOwner
  NoLostWakeup
  LatchReachesSleepers
  CallsInOrder
  OutputFlushed
PROPERTIES
  ImplementsLock
  EveryCallReturns
  LatchOpens
  ExitEnds
