SPECIFICATION CondSpec
CONSTANTS
  t1 = t1
  t2 = t2
  t3 = t3
  Threads <- TwoThreads
  WordSize = 8
  Timeouts = FALSE
  Interrupts = FALSE
  WeakCASFails = FALSE
  Notifications = {"broadcast"}
PROPERTY SleepsUnnotified
