SPECIFICATION FairSpec
CONSTANTS
  a1 = a1
  i1 = i1
  i2 = i2
  Calls <- MCCalls
  Waiters <- MCWaiters
  None = None
  MayClose = TRUE
  MayCancel = TRUE
INVARIANTS OneTask OpenWhileRunning FailsOnlyAtShutdown
PROPERTIES AcceptedIsReported ShutdownEnds
