\* Two administrators create, change and delete up to three rules; or two requests
\* view a day, change its hours and prices, while slots are booked.
SPECIFICATION CourtsSpec
SYMMETRY CourtsSymmetry
CONSTANTS
  Admins = {a1, a2}
  Forms <- SmallForms
  MaxRules = 3
  Dates <- SmallDates
  Clocks <- SmallClocks
  BasePrice = 1
  DefaultPriority = 1
  Requests = {r1, r2}
  Interval = 2
  Hours <- TwoHours
  BasePrices = {1, 2}
  RuleTables <- NoOrOneRule
  Day = 0
  MaxCopies = 2
  MaxBooked = 2
  MaxRequests = 3
INVARIANTS
  RulesTypeOK
  RulesDoNotContradict
  BestRuleSetsPrice
  TypeOK
  BookingsKeepTheirSlot
  DuplicatesNeedRacingViews
PROPERTIES
  UndisturbedRepricingIsRight
CHECK_DEADLOCK FALSE
