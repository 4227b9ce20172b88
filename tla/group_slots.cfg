\* Up to three bookings, in groups, are created, moved, grown, shrunk and
\* canceled on a day of three slots; no money changes hands.
SPECIFICATION Spec
CONSTANTS
  NumSlots = 3
  MaxId = 3
  MaxTime = 2
  MaxReceived = 0
  Prices <- OnePrice
  StartOf <- StartTimes
  Hold = 1
  Policy = 1
INVARIANTS
  NoDoubleBooking
PROPERTIES
  ImplementsCalendar
