\* A range is booked on a day of two slots.
SPECIFICATION Spec
CONSTANTS
  Requests = {r1, r2}
  Interval = 2
  Hours <- TwoSlotHours
  BasePrices = {1, 2}
  RuleTables <- NoOrOneRule
  Day = 0
  MaxCopies = 2
  MaxBooked = 2
  MaxRequests = 3
PROPERTIES
  BookingsCostTheCurrentPrice
CHECK_DEADLOCK FALSE
