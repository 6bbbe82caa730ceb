SPECIFICATION Spec
CONSTANTS
  w1 = w1  w2 = w2
  c1 = c1  c2 = c2  c3 = c3
  NoCallback = NoCallback
  Missing = Missing
  MsgExit = MsgExit
  Idle = Idle
  Gone = Gone
  Callback <- TwoCallbacks
  Worker <- TwoWorkers
  Retries = 2
  RetryPeriod = 2
  Backdate = 2
  MaxAge = 2
  MaxLen = 1
  QueueSize = 2
  DbMayFail = TRUE
  MaxRestarts = 1
SYMMETRY Symmetry
INVARIANTS
  OnePlace
  LiveIsSomewhere
  AckIsOnItsWay
  RowFollowsRecord
  AttemptBound
  DueFirst
PROPERTIES
  DroppedForGood
  ImplementsDelivery
CHECK_DEADLOCK FALSE
