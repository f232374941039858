SPECIFICATION CondSpec
CONSTANTS
  t1 = t1
  t2 = t2
  t3 = t3
  Threads <- ThreeThreads
  WordSize = 8
  Timeouts = TRUE
  Interrupts = TRUE
  WeakCASFails = FALSE
  Notifications = {"broadcast"}
SYMMETRY Symmetry
INVARIANTS
  BroadcastReachesAll
