CONSTANTS
  s1 = s1
  s2 = s2
  s3 = s3
  a1 = a1
  a2 = a2
  Sub <- Three
  Addr <- TwoAddresses
  AddrOf <- Shared
  MaxEntries = 2
SPECIFICATION Spec
SYMMETRY Symmetry
INVARIANTS TablesAgree SubscribersNotified EverySubExpires
PROPERTY MarkedAfterExpiration
CHECK_DEADLOCK FALSE
