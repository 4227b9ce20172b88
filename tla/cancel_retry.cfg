SPECIFICATION DeskSpec
CONSTANTS
  None = None
  Days = {1, 2}
  SlotsOf <- SlotsOfDays
  AtFirst = {11, 12}
  Bookings = {1, 2, 3}
  Desks = {"staff", "admin"}
  Jobs = {1, 2}
  MaxPicks = 1
  MaxSubmits = 2
  MaxOthers = 1
INVARIANTS
  RetryCanSucceed
CHECK_DEADLOCK FALSE
