SPECIFICATION PagesSpec
CONSTANTS
  None = None
  Tabs = {t1, t2}
  Requests = {1, 2}
  Accounts = {"cus", "dan"}
  Portals = {"customer"}
  RoleOf <- Roles
  Boards <- DialogBoards
  PageDay = 1
  Amounts = {1, 2}
  Days = {1, 2}
  SlotsOf <- DeskSlots
  AtFirst = {11, 12}
  Bookings = {1, 2, 3}
  Desks = {"staff", "admin"}
  Jobs = {1, 2}
  MaxPicks = 1
  MaxSubmits = 2
  MaxOthers = 1
  Calls = {1, 2}
  Quantities = {1}
  Stocks = {0}
  Labels = {"a", "b"}
  FirstStock = 1
  MaxCalls = 2
  MaxLoads = 1
  MaxStock = 0
  Forms = {"sale"}
  Entries = {1}
  FirstTime = 6
  LastTime = 10
  MaxPolling = 2
  Courts = {1, 2}
  Rules = {1}
  Prices = {1}
  MaxSaves = 2
  MaxListings = 1
  Views = {"schedule", "activity", "report", "overview", "accounts", "history", "shift"}
  Asks = {1, 2}
  FirstAsk = 1
  Words = {"w"}
  RangeOf <- PresetRanges
  Cells <- DayCells
  Catalog = {1, 2}
  MaxWrites = 2
  MaxWaiting = 2
  Years = {2027, 2028}
  Todays <- SomeDays
  FirstDate <- FirstDay
  LastDate <- LastDay
INVARIANTS
  PagesTypeOK
  WaitersAreAnswered
  AccountsMixOnlyByOvertaking
  ClickOpensItsGroup
  SavesWholeChoices
  ReopeningChangesNothing
  
  StaffSubmitsOnce
  CancelNoticeMeansGone
  BoardFollowsOwnWrites
  DeskComesBack
  StockIsTheLedger
  PageFollowsItsCalls
  EntriesStayInSight
  PanelIsOfItsCourt
  ViewShowsItsQuery
PROPERTIES
  EditorShowsLatest
  SavesKeepTheRest
  SummaryCatchesUp
  EveryDayCanBeChosen
CHECK_DEADLOCK FALSE
