CONSTANTS
  a1 = a1
  a2 = a2
  s1 = s1
  s2 = s2
  t1 = t1
  t2 = t2
  t3 = t3
  NonStandard = NonStandard
  NoTx = NoTx
  Addr <- TwoAddresses
  Sub <- TwoSubs
  Funding <- ThreeFundings
  Transactions <- SmallTransactions
  MaxSize = 2
SPECIFICATION Spec
INVARIANTS OncePerSubscription SpentInFull ChangesAreNotified KeepsMostRecent
