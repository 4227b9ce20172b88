\* Up to two bookings, in groups, are paid, re-priced, moved, shrunk and refunded.
SPECIFICATION Spec
CONSTANTS
  NumSlots = 2
  MaxId = 2
  MaxTime = 2
  MaxReceived = 2
  Prices <- TwoPrices
  StartOf <- StartTimes
  Hold = 1
  Policy = 1
INVARIANTS
  TypeOK
  GroupLedger
  DueIsOutstanding
