\* Deposits, refunds, adjustments and check-ins race over one booking and the
\* two slots it can move between.
SPECIFICATION FairSpec
CONSTANTS
  d1 = d1
  d2 = d2
  Desks <- TwoDesks
  NumSlots = 2
  MaxId = 1
  MaxTime = 2
  MaxReceived = 2
  Prices <- TwoPrices
  StartOf <- StartTimes
  Hold = 1
  Policy = 1
  RedisLocks = TRUE
INVARIANTS
  TypeOK
  HoldsCarryNoMoney
  LedgerBacksDeposit
  DueIsOutstanding
PROPERTIES
  OnlyStaleCheckInRevives
  HoldsEnd
