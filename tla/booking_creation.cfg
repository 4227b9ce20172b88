\* Creations, moves, cancellations and check-ins race over a day of three
\* slots; no money changes hands.
SPECIFICATION Spec
CONSTANTS
  d1 = d1
  d2 = d2
  Desks <- TwoDesks
  NumSlots = 3
  MaxId = 2
  MaxTime = 2
  MaxReceived = 0
  Prices <- OnePrice
  StartOf <- StartTimes
  Hold = 1
  Policy = 1
  RedisLocks = FALSE
INVARIANTS
  NoDoubleBooking
PROPERTIES
  ImplementsCalendar
SYMMETRY DeskSymmetry
