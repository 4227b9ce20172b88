\* A check-in that read the booking before it was canceled.
SPECIFICATION Spec
CONSTANTS
  d1 = d1
  d2 = d2
  Desks <- TwoDesks
  NumSlots = 2
  MaxId = 1
  MaxTime = 2
  MaxReceived = 2
  Prices <- TwoPrices
  StartOf <- StartTimes
  Hold = 1
  Policy = 1
  RedisLocks = TRUE
INVARIANT
  NeverRefundsMoreThanReceived
