CONSTANTS
  s1 = s1
  s2 = s2
  a1 = a1
  Offline = Offline
  NoCommand = NoCommand
  NoBlock = NoBlock
  Sub <- OneSub
  Addr <- OneAddress
  AddrOf <- SameAddress
  Contents <- Always
  Confirmations = 1
  FirstTip = 1
  MaxTip = 3
  MaxReorg = 1
  MaxForks = 0
  QueueSize = 2
  FromLast = TRUE
  ReloadSubs = TRUE
  RpcMayFail = FALSE
  MaxRestarts = 0
SPECIFICATION FairSpec
PROPERTIES PostedIsServed
CHECK_DEADLOCK FALSE
