\* Two requests view a day for which there are no slots yet.
SPECIFICATION Spec
CONSTANTS
  Requests = {r1, r2}
  Interval = 2
  Hours <- TwoHours
  BasePrices = {1, 2}
  RuleTables <- NoOrOneRule
  Day = 0
  MaxCopies = 2
  MaxBooked = 2
  MaxRequests = 3
INVARIANTS
  CourtBookedOnce
CHECK_DEADLOCK FALSE
