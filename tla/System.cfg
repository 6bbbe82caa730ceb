CONSTANTS
  s1 = s1
  a1 = a1
  Offline = Offline
  NoCommand = NoCommand
  NoBlock = NoBlock
  NoCallback = NoCallback
  Sub <- OneSub
  Addr <- OneAddress
  AddrOf <- SameAddress
  Contents <- Always
  Confirmations = 1
  FirstTip = 1
  MaxTip = 2
  MaxReorg = 1
  MaxForks = 1
  QueueSize = 1
  FromLast = TRUE
  ReloadSubs = TRUE
  RpcMayFail = TRUE
  CallbackQueueSize = 1
  MinTries = 1
  MaxTries = 1
  MaxCallbacks = 2
  MaxRestarts = 1
SPECIFICATION FairSpec
PROPERTIES
  HandedOnIsKept
  RepeatedOnlyUnsaved
  CleanUpReturns
  RequestsReturn
  PaymentsReachRows
CHECK_DEADLOCK FALSE
