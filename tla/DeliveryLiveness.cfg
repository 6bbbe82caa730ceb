SPECIFICATION FairSpec
CONSTANTS
  w1 = w1  w2 = w2
  c1 = c1  c2 = c2  c3 = c3
  NoCallback = NoCallback
  Missing = Missing
  MsgExit = MsgExit
  Idle = Idle
  Gone = Gone
  Callback <- TwoCallbacks
  Worker <- OneWorker
  Retries = 1
  RetryPeriod = 1
  Backdate = 1
  MaxAge = 1
  MaxLen = 3
  QueueSize = 2
  DbMayFail = TRUE
  MaxRestarts = 0
PROPERTIES
  ReissuedUntilResolved
  ExitEnds
CHECK_DEADLOCK FALSE
