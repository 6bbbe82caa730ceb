CONSTANTS
  k1 = k1
  k2 = k2
  Key <- TwoKeys
  TestKeys <- TestAddresses
  Filters <- SomeFilters
  PerPage = {1, 2}
  DefaultPerPage = 1
  MaxRows = 4
SPECIFICATION Spec
INVARIANTS NothingSkipped NothingTwice NoDeadLink
PROPERTIES OnlyWanted
CHECK_DEADLOCK FALSE
