CONSTANTS
  Confirmations = 2
  Contents <- Blocks
  Offline = Offline
  FirstTip = 1
  MaxTip = 7
  MaxReorg = 2
  MaxForks = 2
SPECIFICATION FairSpec
INVARIANTS AcceptedIsFinal OneAfterAnother
CHECK_DEADLOCK FALSE
PROPERTY CatchesUp
