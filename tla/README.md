# Verification of the badminton court booking platform

TLA+ models of the booking core of this repository, of the inventory and shift book of its counter
and of the web pages that use them, the TLC runs that check them on small instances, and proofs,
checked by TLAPS, that the main results hold for every instance. Line numbers below refer to
`src/backend/internal/` or, for `.js` and `.jsx` files, `src/frontend/src/`, unless another path
is given.

## 1. The system

The backend is one Go process (gin, GORM, PostgreSQL or SQLite, optionally Redis) that serves
staff and administrators at the counter; the frontend is a React client.

| Component | State it keeps | Operations that change it | Source |
|---|---|---|---|
| Booking desk | `bookings` rows, `payments` ledger, slot locks (Redis keys or an in-process map) | create (one slot or a range), confirm, deposit, cancel, update/move, check in, expire | `service/booking_create.go`, `booking_lifecycle.go`, `booking_update.go`, `booking_service.go`, `repository/booking_repository.go`, `handler/booking_handler.go` |
| Booking groups | `booking_group_id` of the rows | reschedule a group: move, grow, shrink, re-price, pay | `service/booking_group_update.go` |
| Courts, slots, prices | `courts`, `time_slots`, `court_price_rules` | create/update court, create/update/delete rule, generate the slots of a day, reprice | `service/court_service.go`, `pricing/rules.go`, `repository/slot_repository.go` |
| Beverages | `beverages.stock`, audit log | sell, restock, adjust, edit, delete | `repository/beverage_repository.go` |
| Counter ledger | `transactions` | record sale, refund, withdrawal; shift summary (reads) | `service/transaction_service.go` |
| Accounts | `users` | register, update, delete staff, login, refresh | `service/auth_service.go` |
| Customer directory | `users` with role customer | find or create by phone | `service/booking_customer.go` |
| Rate limiter | one window per address | count a request, clean up | `middleware/rate_limit.go` |
| Activity feed, dashboard | none (reads) | | `service/activity_service.go`, `dashboard_service.go` |
| Wiring | connection pool, schema, routes | | `cmd/api/main.go`, `db/`, `server/router.go` |
| Browser session | four keys of localStorage, shared by the tabs; per tab the one refresh in flight | log in, register, log out, request, refresh, retry, redirect | `services/api/httpClient.js`, `pages/LoginPage.jsx`, `components/auth/ProtectedRoute.jsx`, `components/layout/TopNav.jsx` |
| Booking desks | the board of a day, the loading flag, the selected group, the submissions under way | change the day, click a slot, create, update, cancel (one call per booking), reload | `pages/StaffPage.jsx`, `pages/AdminBookingDeskPage.jsx` |
| Booking dialog | the fields, the schedule of the day chosen in it | open, choose day, court, start, end, payment | `components/booking/BookingModal.jsx`, `BookingScheduleEditor.jsx`, `utils/bookingForm.js`, `utils/bookingGrid.js` |
| Counter pages | list of beverages, form, shift summaries | sell, restock, edit, delete, book an entry, poll | `pages/BeverageCounterPage.jsx`, `BeverageManagementPage.jsx`, `StaffTransactionPage.jsx`, `utils/shift.js` |
| Court and price panel | courts, rules of the chosen court, two forms | choose, edit, save, remove | `pages/CourtManagementPage.jsx`, `components/pricing/CourtPricingRulesPanel.jsx` |
| Lists and reports | what was listed last, filters | filter, search, refresh | `pages/CustomerPage.jsx`, `AdminActivityPage.jsx`, `DashboardRevenuePage.jsx`, `AdminPage.jsx`, `StaffManagementPage.jsx` |
| Choice of a day | the day, the open calendar, its month | week days, arrows, today | `components/ui/AppDatePicker.jsx`, `components/schedule/ScheduleDateNavigator.jsx`, `utils/dateTime.js` |

How they interact. A handler calls a service; a service reads outside a transaction, takes slot
locks, runs a transaction in which the repositories lock rows with `FOR UPDATE`, and deletes the
locks after the commit. Creation is *two* transactions: one inserts pending bookings (holds) with
a deadline, the next confirms them (`handler/booking_handler.go` 36-83). A worker started by
`main.go` cancels holds past their deadline once a minute, and every creation sweeps the slots it
wants first. The partial unique index on `bookings(time_slot_id)` (`db/migration.go` 37-44) is the
last line of defence against double booking: locks have a TTL and are deleted by key without
regard to who holds them, and the check inside a transaction does not see what others have not
committed.

A page of the client keeps its state in React hooks. A handler awaits its calls one by one and
goes on with the state of the render that made it, whatever was rendered since; effects load again
when the day, the court or a filter changes. axios gives a call up after 20 seconds
(`services/api/httpClient.js`), and the server may have done what a failed call asked for. Most
loads carry no number, so that the last answer is shown, not the answer to the last question; only
the dialog's editor drops answers it no longer wants. Pages share no state but localStorage.

What is hard here: requests that interleave between lock, check, insert and confirm; holds that
lapse but are not swept yet (the check ignores them, the index does not); a check-in that reads
without a row lock and writes every column back; money kept twice (a deposit on the booking,
signed rows in the ledger); groups that are moved row by row under an index that is checked row by
row; day views and administrators' requests that read and write courts, slots and rules statement
by statement with no transaction around them; a process that stops between two transactions; in
the browser, answers that arrive out of order, a flag that several loads and submissions raise and
lower, a chain of calls that fails half way, a retry after it, handlers that go on with a court or
a day no longer shown, requests of several tabs that meet an expired token at once, and clocks at
the ends of shifts, months and years. `PROJECT.json` lists the hazards at their lines with the
properties that cover them.

What would make each component correct:

- booking desk: no slot kept twice; booking and ledger agree; expiry never takes a paid booking; a
  canceled booking stays canceled; every hold ends;
- booking groups: a reschedule is all or nothing, takes only free or own slots, neither loses nor
  invents money, and is possible whenever its validation says so;
- courts and slots: one slot per court and start time; a free future slot carries the current
  price; a booked one keeps its price; changed hours take effect completely or not at all;
- price rules: the highest priority matching rule wins, independent of order; two active rules of
  one priority never overlap;
- beverages and counter: stock equals what was stocked less what was sold, never negative; a save
  of the row takes nothing back; every entry is in a summary the page shows, and the page catches
  up with the server;
- accounts: at least one administrator remains;
- browser session: one refresh at a time in a tab, nobody waits for ever, requests stay with the
  account that sent them;
- desks and dialog: a click opens the group that was clicked, a save asks for what is shown, the
  total is that of the slots that will be booked, one submission at a time, notices are true, the buttons come back,
  the board follows what the desk itself has written;
- panel and lists: what is shown belongs to what is chosen; choice of a day: every day can be
  reached.

## 2. The modules

| Module | Role |
|---|---|
| `BookingTables` | the `bookings` and `payments` tables, the unique index, the row operations and the transactions; what the tables promise |
| `BookingDesk` | the requests in flight that race over the tables, the slot locks, the expiry worker, restarts |
| `BookingGroups` | booking groups and `UpdateBookingGroup` over the same tables |
| `SlotCalendar` | the abstract specification: what a court's day promises, whatever is behind it |
| `Pricing` | price rules as operators: which match, which wins, which overlap |
| `PriceRules` | administrators who validate a rule and then write it |
| `CourtSchedule` | the slots of a court's day: generated by views, repriced, deleted for new hours, booked |
| `Web` | what all pages use: no value, and the choice of the first free number |
| `WebSession` | tabs, requests and refreshes over one localStorage |
| `DeskForms` | operators: how a board is grouped, what the forms compute from it |
| `BookingDialog` | the dialog of the desks and the editor in it, with late answers |
| `LatestAnswer` | the abstract specification of a view that shows what was asked for last |
| `DeskPages` | the two desks: loads, submissions of several calls, the server they write to, others |
| `BeverageStock` | one beverage: transactions under its row lock, and the two pages |
| `ShiftBook` | entries, summaries and the clock of a staff member's shift |
| `CourtPanel` | the page of the courts and the price panel |
| `ListViews` | seven views that list what their controls ask for |
| `DateNavigator` | the week, the calendar and the arithmetic of dates |
| `MCBookingDesk`, `MCBookingGroups`, `MCPriceRules`, `MCCourtSchedule`, `MCDeskPages` | the values of the constants for TLC |
| `MCCourts` | `PriceRules` and `CourtSchedule` in one instance, one of which runs |
| `MCWebPages` | the modules of the web application in one instance, one of which runs |
| `DataLemmas` | what the proofs need of numbers, finite sets, sums, folds, sorting and sequences |
| `BookingTablesProofs` | lemmas about rows, the index and the transactions, for desk and groups |
| `BookingDeskProofs` | the inductive invariant of `BookingDesk`, that it implements `SlotCalendar`, who can be refunded too much |
| `BookingGroupsProofs` | the same for `BookingGroups`, with the books of whole groups, and which reschedules are saved |
| `PriceRulesProofs` | which rules may contradict each other, and that the loop finds the best one |
| `CourtScheduleProofs` | bookings keep their slots, what doubles a slot, what a repricing achieves, when a court is booked once |
| `FrontDeskProofs` | `WebSession`, `DeskPages` and `BookingDialog`, one after the other |
| `BackOfficeProofs` | `BeverageStock`, `CourtPanel`, `ListViews`, `ShiftBook`, `DateNavigator`, and the instance of all web modules (it extends `FrontDeskProofs` and `MCWebPages`) |

**Tables.** A row keeps the slot, status, total price, deposit (`paid`), what is due and
`expires_at` (0 is NULL). The ledger is kept as two sums per booking, `received` and `returned`.
Slots are the consecutive slots of one court on one day, in order of start time. A slot may cost
any price of `Prices`: prices are the business of the court component, and every value it could
come up with is allowed. Ids are given out in order; the database also skips ids on a rollback,
which nothing here can tell apart.

**Steps.** PostgreSQL runs READ COMMITTED. A transaction that locks its row with `FOR UPDATE`,
reads it after the lock and writes it before the commit is one step. The unique index is evaluated
in the step that writes (`IndexRejects`). `CheckIn` is two steps (`CheckInRead`, `CheckInSave`)
because `FindByCodeOrPhone` takes no lock and `Save` writes every column. `HoldSlot` is one turn
of the lock loop. Deleting the locks of a request is one step (`ReleaseLocks`); each key may be
lost if Redis keeps it, as a DEL runs on the request's context. A request that is refused without
having written anything is no step. Database errors are `InsertFails` and `ConfirmFails`;
elsewhere a failed transaction changes nothing. `Restart` loses the requests in flight, and the
locks where they are kept in memory.

**What `BookingDesk` maps to.** `pc` follows a handler: `hold` (lock loop), `insert` (creating
transaction), `release` (deleting locks), `confirm` (`ConfirmManagedBookings`), `checkin` (between
read and Save). `want`, `held` and `made` are the local variables of the creation functions;
`snap` is the row `CheckIn` has read. `clobbered` is a history variable: the bookings whose row a
check-in overwrote with something else than what it had read.

**What `BookingGroups` maps to.** `group` is `booking_group_id`, named by the first booking of the
group. `UpdateBookingGroup` is one step, since anchor, members and target slots are locked;
`Target` and `Rank` say where the sequential loop puts each booking, `SavesCollide` whether one of
its Saves meets the index, `Allocated` how the amount received is spread. Creation, confirmation,
deposit, cancellation, single moves, check-in and expiry act on the same rows as whole
transactions; how requests interleave inside them is the subject of `BookingDesk`.

**`SlotCalendar`** has one variable, the holders of each slot, and three steps: `Grant` free
slots, `GiveBack`, and `Reschedule` of one party in which it takes slots that are free or its own
and gives others back. It says that double booking never happens, and also that a slot never
passes directly from one party to another. Parties are bookings for `BookingDesk` and groups for
`BookingGroups`.

**What `PriceRules` maps to.** `table` holds the rows of `court_price_rules` of one court. A
creation or an update is two steps: `Validate` is `validatePriceRule` with the table it reads, the
second is the INSERT or the Save; `work` is the rule a request carries in between. `Inserted` is
what gorm does with a false `is_active` whose column has the default true: it takes the field for
unset. A Save of a rule that is gone inserts it again. `stale` and `unchecked` are history
variables: the requests after whose validation another rule was written, and the rules stored
without a valid check. Clock times are numbers; the code compares texts, which is the same for
zero-padded `HH:MM`, the only form the editor sends. A date's weekday is the date modulo 7.

**What `CourtSchedule` maps to.** One court and one day that lies ahead. A slot is named by its
start and a copy number, since nothing keeps the database from having two slots of one start; a
copy number is never given twice. `slots` holds their prices, `kept` those with an active booking,
`referred` those a canceled booking still points to. Every statement of a request is a step: a
view goes `ViewDay` (courts), `ReadRules`, `ReadExisting`, `BulkCreate`, then the repricing
`RepriceReadsCourt`, `RepriceLists`, `RepriceReadsRules`, and `RepriceWrites` once for each price
that changes; an update of the court goes `UpdateCourt`, `SaveCourt`, and by what has changed
`DeleteFutureUnbooked` and the repricing; a change of the rules is `WriteRules`, which may bring
any table of `RuleTables` (how one gets there is the subject of `PriceRules`), and the repricing.
A booking, a release and a move are whole transactions here; what happens inside is the subject of
`BookingDesk`. `Abandon` is an error or a crash at any point, among them the DELETE that fails on
a canceled booking's foreign key. `calm` and `twice` are history variables: the requests since
whose start nothing else has changed slots, hours, prices or rules or released a slot; and the
slots that views not calm have inserted. `bookable` stands for active and not under maintenance.
An expired hold is released at once, as the statements that list slots read it so.

**Loads and calls of the web modules.** A load reads the server in the step that asks for it and
may arrive any time later, in any order, or fail; the loads under way are a sequence in the order
they were asked for (`flights`, `drinkLoads`, `shiftLoads`, `listings`, `asked`). Reading at the
earliest moment gives the stalest answer there can be, which is the case the properties are about;
`ShiftBook`, whose summary is several queries, reads the transactions then and the payments in a
later step. A call takes effect in the step that answers it, or in one that fails although it has
taken effect (the lost answer), or fails without. In `BeverageStock`, where calls race on one row,
the request, the lock, the commit and the answer are steps of their own. A button that is
disabled, a handler's early return and a dialog that covers the page are guards. What a handler
took from its closure is kept in the call (`job`, `call`, `saves`, `writing`). History variables
(`calm`, `smooth`, `tidy`, `unhurried`, `mixed`) say whether something happened after which the
code promises nothing. What a property says is therefore limited: `BoardFollowsOwnWrites`,
`PageFollowsItsCalls`, `PanelIsOfItsCourt` and `ViewShowsItsQuery` hold up to the first overtaken
answer, failed load or change of court during a call, and not beyond; section 3 says what is shown then.

**What `WebSession` maps to.** `session` is localStorage: whose values the four keys hold. A token
is named by its account, a refresh by the request that started it. `JoinRefresh`, `StartRefresh`
and `NothingToRefresh` (each guarded by `FirstUnauthorized`) are the response interceptor;
`Refreshed` retries all that waited, `RefreshFails` and `redirectToLogin` clear the session and
unload the tab, whose requests are lost. The server may find any token expired at any time.
`Visit` is `ProtectedRoute`, `Submit`, `LoggedIn` and `Registered` the login page.

**What `BookingDialog` and `DeskForms` map to.** A board is a set of slots; `groupBookedSlots`
folds over it in the order of the code's sort. `form` has the fields of the dialog that something
depends on. The editor's effect is `Synced`; its loads are `awaiting` (the day of the effect that
is active) and `outdated` (days whose effect was cleaned up). `MayCreate` and `MayUpdate` are the
guards of the pages' handlers, so that what a save would ask for is a function of the state.
Without a group id two bookings of single slots of one customer at most an hour apart are *shown*
as one group (`JoinsGroup`), but the server moves only the one that is the anchor of the call: for
such pairs the last conjunct of `SavesWholeChoices` is not stated. The loop compares a booking with
the last one of the group before it only, in the order of court, customer and time. If a booking of
the same customer on the same court lies between two bookings of one group, the group is listed
twice under one key, and the page opens the first of the two, whichever was clicked (`Split`).
Split groups are excepted where groups are spoken of, and `ReopeningChangesNothing` excepts groups
paid for beyond their price too: the form's amount is capped at the total. Without either exception
TLC finds a counterexample among the boards of `web_pages`; no document speaks about these cases.

**What `DeskPages` maps to.** `desk` says which page; they differ in what raises and lowers
`loading`, in what a failed load shows, and in when the selected group is forgotten. A
submission is a `job` that goes from call to call: creation and then one payment call per booking;
one update; one cancellation per booking; then, in stage `reload`, the load it awaits. The server
is `slotOf`, `keyOf` and `gone` here; its inside is the subject of `BookingDesk` and
`BookingGroups`, and `OthersChange` is everybody else.

**What `BeverageStock` maps to.** `Lock` is the SELECT ... FOR UPDATE of
`repository/beverage_repository.go`, `Commit` the Save of all columns with the ledger rows,
`Rollback` a refusal or an error, `Create` a row of another beverage. `handleSell`,
`handleRestock`, `handleSubmit` and `handleDelete` are the pages; `OtherCall` is a terminal
elsewhere.

**What `ShiftBook` maps to.** Time counts quarters of a day. `getShiftName`, `getPreviousShift`
and `previousShiftBusinessDay` are `utils/shift.js`; the business day is given by the server when
it books (`CreateTransaction`), the shift by the client at its last render. `Poll` is the interval
of 30 seconds, and `ShiftLoadStep` the second query of a summary, its arrival or its failure.

**What `CourtPanel` and `ListViews` map to.** A court is its base price, a rule its court and
price: enough to see whose they are. What the server would list is a number that grows with every
write. In `ListViews`, `looked` says which of the seven views it is; each action names the views
whose control it is.

**What `DateNavigator` maps to.** A Date object at local midnight is a day number; months out of
range carry as they do in JavaScript. Time zones and daylight saving are left out (Vietnam has
none), and arrows leave the shown month where it is when a day is chosen and the calendar opened
again, as in the code.

Left out of the booking models: customers, notes, colours, audit rows and messages; the statuses
`completed` and `no_show`, which no code sets; courts under maintenance other than as a refusal
(`CreateOne` may sweep and stop); authorization, which always passes for the staff and
administrators the routes admit; several courts, since no operation relates slots of different
courts other than by slot id.

## 3. The runs

Every bound is a constant: `NumSlots`, `MaxId` (rows ever inserted), `MaxTime` (last tick),
`MaxReceived` (money ever taken for a booking); a creation needs room on the clock for its hold to
run out. Slot `s` starts at `s - 1`, a hold and the cancellation notice last one tick, so that
past slots, holds that lapse and late cancellations all occur within two ticks.

| Run | Question | Instance | Result |
|---|---|---|---|
| `booking_creation` | Do racing creations, moves, cancellations and check-ins ever keep a slot twice or hand it over directly? `NoDoubleBooking`, `ImplementsCalendar` | 2 requests, 3 slots, 2 bookings, memory locks, no money | holds, about 1.9 million states |
| `booking_payments` | Do booking and ledger stay in step, and do holds end? `TypeOK`, `HoldsCarryNoMoney`, `LedgerBacksDeposit`, `DueIsOutstanding`, `OnlyStaleCheckInRevives`, `HoldsEnd` | 2 requests, 2 slots, 1 booking, prices 1 and 2, Redis locks | holds, about 1 million states |
| `group_slots` | Is a reschedule an atomic exchange of slots? `NoDoubleBooking`, `ImplementsCalendar` with groups as parties | 3 slots, 3 bookings in up to 3 groups, no money | holds, about 220 000 states |
| `group_payments` | Is group money conserved? `TypeOK`, `GroupLedger`, `DueIsOutstanding` | 2 slots, 2 bookings, prices 1 and 2 | holds, about 130 000 states |
| `courts` | Do rules of one priority stay apart, and does the loop find the right price? Do slots survive under their bookings, what doubles a slot, what does a repricing achieve? `RulesTypeOK`, `RulesDoNotContradict`, `BestRuleSetsPrice`, `TypeOK`, `BookingsKeepTheirSlot`, `DuplicatesNeedRacingViews`, `UndisturbedRepricingIsRight` | 2 administrators, 4 forms, 3 rules ever inserted, 2 dates, 3 clock times; 2 requests at a time, 3 in all, 2 settings of hours and of the base price, no or one rule, 2 booked slots, 2 copies of a slot | holds, about 600 000 states |
| `stale_checkin` | `NeverRefundsMoreThanReceived` | as `booking_payments` | violated |
| `group_shift` | `ValidMovesSucceed` | as `group_slots` | violated |
| `inactive_rule` | `RulesNeverContradict` | `PriceRules` as in `courts`, 1 administrator, 2 rules | violated |
| `racing_views` | `CourtBookedOnce` | `CourtSchedule` as in `courts` | violated |
| `range_price` | `BookingsCostTheCurrentPrice` | `CourtSchedule` as in `courts`, with one setting of hours that has two slots | violated |
| `web_pages` | What do the web pages get right, whatever order answers arrive in? Twenty properties, below | 2 of everything that races | holds, about 340 000 states |
| `cancel_retry` | `RetryCanSucceed` | a desk as in `web_pages` | violated |

`courts` is one run of two modules and `web_pages` one of eight. The modules of a run share no state, so a behaviour of `MCCourts` or
`MCWebPages` chooses one of them at the start and lets the others rest in one initial state: the run is the sum
of the instances, not their product, and each module's properties are checked over all of that
module's states.

| Module (states) | Properties | Question |
|---|---|---|
| `WebSession` (66 860) | `WaitersAreAnswered`, `AccountsMixOnlyByOvertaking` | Does every request that met a 401 wait for a refresh under way in its tab? Can a request carry another account's token without a login or logout beside it? |
| `BookingDialog` (48 500) | `ClickOpensItsGroup`, `SavesWholeChoices`, `ReopeningChangesNothing`, `QuoteIsOfTheRange`, `EditorShowsLatest` | Does a save ask for what was clicked and chosen, and does the total add up the slots that will be booked? The editor implements `LatestAnswer` |
| `DeskPages` (54 270) | `StaffSubmitsOnce`, `CancelNoticeMeansGone`, `BoardFollowsOwnWrites`, `DeskComesBack` | Do flag, notices and board stay true while loads and calls of a chain end in any order? |
| `BeverageStock` (83 506) | `StockIsTheLedger`, `SavesKeepTheRest`, `PageFollowsItsCalls` | Do stock, ledger and audit log agree, and is a label or a deletion ever taken back? Does the page follow? |
| `ShiftBook` (50 402) | `EntriesStayInSight`, `SummaryCatchesUp` | Is an entry in a shift that is shown, and does the page catch up? |
| `CourtPanel` (20 829) | `PanelIsOfItsCourt` | Are rules and form those of the chosen court, and the prices shown those of the server after a call of the panel? |
| `ListViews` (11 000) | `ViewShowsItsQuery` | Is what is listed what the controls ask for? |
| `DateNavigator` (514) | `EveryDayCanBeChosen` | Are week and calendar whole at the ends of months and years? |

`PagesTypeOK` has the type invariants of all. The bounds: two tabs, two requests and two customers
(one portal: which role opens which page is checked on entry by `ProtectedRoute` and not exercised
here); two days of two slots and of one slot with a group of two bookings at first, two
submissions, one change of the date and one change by others; two calls on a beverage with one in
stock, so that the second sale must be refused; one entry over five quarters from an afternoon to
the next one, with two loads; two courts, one rule and two saves; two things to ask for, two
writes and two loads; seven boards for the dialog, five of the page's day and two of another, with
groups made together, single bookings side by side, an overpaid one between two bookings of a
group, a gap and empty days, two amounts; days from 29 December 2027 to 2 March 2028, a leap year.
Deadlock is not checked in `web_pages` and `cancel_retry`, since the bounds end behaviours.

Two is enough where a property relates an actor to another: two loads show every overtaking, two
calls every race on a row, two submissions at a desk every confusion of the flag, two requests a
shared and a joined refresh. The chain of a cancellation needs a second booking to stop half way.
The proofs of section 4 remove the bounds for every module of the web.

Why the other bounds are enough. Two requests are the least that interleave at every point of each
other; the third party of most races (the worker, the clock, a restart) is there as well. Two
bookings compete for a slot while one of them moves to a third. Money concerns one booking at a
time in `BookingDesk`, so one booking and two slots of different price show every order of
deposit, adjustment, refund and move; two prices and deposits up to 2 include an odd amount to
halve; `group_payments` keeps groups of up to two on two slots, where a group is paid, shrunk,
moved and refunded in every order. A group of two with a third slot can shift, grow and shrink;
three bookings allow a foreign one in its way. Two rules already overlap or not, and the third is
there while the table changes under a validation; the forms share a weekday, an hour or a range of
dates only, so that each conjunct of the overlap check decides somewhere. In `courts` the two
settings of hours have slots that overlap, so that slots of former hours remain; two requests
interleave at every statement and the third follows one of them; two booked slots allow one active
and one canceled booking side by side. The proofs of section 4 remove the bounds for
`BookingDesk`, `BookingGroups`, `PriceRules` and `CourtSchedule`.

Symmetry of the requests is used in `booking_creation` and `courts`, where no liveness property is
checked. Besides the runs of the web, deadlock is checked except in `courts`, `racing_views` and
`range_price`: with `MaxRequests` requests done and no slot to book, nothing more arrives, and the
model stops.

**Fairness.** `FairSpec` of `BookingDesk` asks for weak fairness of the clock and of the expiry
worker, whose goroutine (`StartExpiryWorker`, `booking_service.go` 84-101) is started with the
process and fires on a ticker. No request is obliged to arrive or to finish, and the process may
restart at any time. `HoldsEnd` therefore says that the worker alone brings every hold to an end,
also one whose creation died before its confirmation.

`ShiftFairness` asks for weak fairness of `Poll` and `ShiftLoadStep`: the interval of the page
fires as long as the page is open, and axios ends every load after 20 seconds at the latest.
`SummaryCatchesUp` then says that once shift and entries stay as they are, the page ends up
showing them or an error. The other things that must eventually happen (a waiting request is
answered, disabled buttons come back) are stated as invariants, "something is under way that will
do it", as every call and load ends by that timeout; that is stronger than the liveness property
and is proved.

**What the six violations show.**

- `stale_checkin`: a check-in reads a paid booking; a cancellation refunds the deposit and
  commits; the check-in saves its old row over it, so that the booking is checked in with its old
  deposit; canceling it again refunds the deposit a second time. `booking_lifecycle.go` 228 reads
  without `FOR UPDATE`, where `docs/PROFESSIONAL_AUDIT.md` 10 speaks of row locking for booking
  and payment updates. `OnlyStaleCheckInRevives` and the exemption of `clobbered` in
  `LedgerBacksDeposit` say that nothing *else* goes wrong, and `OnlyOverwrittenRefundTooMuch` is
  proved: what is not overwritten is never refunded more than was received.
- `group_shift`: a group of two on slots 1 and 2 moves to slots 2 and 3. The first Save puts
  booking 1 on slot 2, which booking 2 has not left, and the index rejects it
  (`booking_group_update.go` 161-183). The editor offers the group's own slots as targets
  (`src/frontend/src/components/booking/BookingScheduleEditor.jsx` 15-17) and `docs/API.md` 66
  names no such restriction. The transaction rolls back, so nothing is lost but the move.
  `EarlierMovesSucceed` is proved: a move to earlier slots, or to slots of which the group has
  none, is always saved; only moves later into the group's own slots are refused.
- `inactive_rule`: an administrator creates a rule, then one at the same priority and hours with
  `is_active` false. `validatePriceRule` skips inactive rules (`court_service.go` 182), and the
  insert stores the column default, true (`models/price_rule.go` 20): two active rules overlap,
  which the comment at `models/price_rule.go` 7-8 excludes. `RulesDoNotContradict` says that this
  and two validations that race are the only ways to get there, and `OneRequestAtATimeIsEnough`
  puts it the other way round: one request at a time and active rules only, and the comment holds.
- `racing_views`: two first views of a day both list no slots and both insert all of them
  (`court_service.go` 306-324). The unique index on bookings is per slot id, so the two copies of
  one slot can be booked at once, where `db/migration.go` 37-38 calls the database-level
  protection against double booking authoritative for concurrent requests. `BookingDesk` takes
  slots as given, one to a start time; `DuplicatesNeedRacingViews` says when that is so.
  `OneGridBooksOnce` is proved: while no views have raced the promise holds, provided that hours
  change by whole intervals; hours moved by half of one leave booked slots across the new ones.
- `range_price`: a view generates the slots of a day and somebody books a range of them. The
  booking computes each slot's price anew (`booking_create.go` 216, `currentSlotPrice` in
  `booking_service.go` 145-150), but the slots of a range are listed without their court
  (`booking_create.go` 175, `repository/slot_repository.go` 151-158), so that where no rule matches
  the base price is that of an empty court and the range costs 0. By
  `docs/ARCHITECTURE.md` 61-63 slots are priced from the court's base price and a booking copies
  its slot's price, and the comment at `booking_create.go` 127-129 says that the
  price is computed under the lock so that it is the current one: for a single slot it is. The
  dialog adds up the prices of the board, so what is announced and what is charged differ;
  `QuoteIsOfTheRange` therefore compares the *slots* of the two, at the prices listed, and says
  nothing of the charge.
- `cancel_retry`: a desk cancels a group of two. The first call succeeds, the second fails; the
  dialog stays open with the group as it was, and the retry starts with the booking that is
  canceled already, which the server refuses (`StaffPage.jsx` 271-273, `AdminBookingDeskPage.jsx`
  245-247): the second booking can never be reached this way. `BookingModal.jsx` 428 keeps the
  dialog open "so the operator can review/retry safely". `CancelNoticeMeansGone` says that at
  least no notice is wrong, and `RetriesFailOnlyAfterFailures` that it takes a failure, an overtaken
  load or somebody else to get there.

Two more things `CourtSchedule` shows that no document speaks about, so that no property is
stated: new hours with another offset leave a
booked slot that the new slots overlap; and when the DELETE of an update of the hours fails, the
new hours stay saved and the slots of the old ones stay free to book, also when the request is
sent again.

A further reading of `BookingGroups`: a reschedule posts the payment of the group to one of its
bookings, so the ledger of a single booking may show less, or more, than its deposit;
`LedgerBacksDeposit` holds for `BookingDesk` only, and `GroupLedger` is what remains true.

Of the web pages, too, the models show things no document speaks about. What was paid at a
creation is allocated over the created bookings by a price they do not carry, so each share is 0
(`bookingForm.js` 82). After a move to another day and after a failed load a desk may show the
board of one day under the date of another until something is loaded again; `calm` in
`BoardFollowsOwnWrites` lists when not. The staff page keeps its old board when a load fails, the
administrator's page empties it. A load that ends lowers the flag of the administrator's desk
although a submission is under way, so that `StaffSubmitsOnce` is about the staff desk. The panel
goes on with the court of its closure: its rules can appear under a court chosen meanwhile
(`tidy`). A form of the management page opened before a sale sets the stock back to what it was,
which the audit log records as an adjustment, so that `StockIsTheLedger` holds. A sale is booked
under the shift at mount. From midnight to six the current evening is that of the new day, so that
entries from before midnight are out of sight (the exception in `EntriesStayInSight`). Two tabs
refresh each on their own, and whoever logs in beside requests under way mixes accounts until they
have settled (`mixed`).

Every property is also run against a wrong version of one of the definitions (the operators
introduced by "Wrong:"), which breaks it.

## 4. The proofs

The theorems hold for any values of the constants that meet the assumptions named below. Each
invariant `IInv` is proved by `Init => IInv`, then `IInv /\ [Next]_vars => IInv'` with one lemma per
handler and one step per conjunct, then `IInv => Inv`.

**Data.** Several results are about data of any size: the members of a group, the rules of a table,
the slots of a board. The induction theorems of the library take an operator as a parameter, which
no backend can instantiate, so `DataLemmas` does its inductions by hand: the set of numbers, or of
cardinalities, for which the claim fails is a set, and a set of naturals that is not empty has a
least element (`LeastNatural`). On this rest the lemmas about `SumFunctionOnSet`, about folds over
sets and sequences, which say that a fold is its start on nothing and one more step on one more
element, about what is left of a sequence that loses an element, and about sorting. The code's
sorts are modelled by CHOOSE of a sequence that lists a set in order; the lemmas say that there is
one, and only one where no two elements rank alike.

### The booking desk

Assumptions: `SizesAssumption`, `PricesAssumption`, `TimesAssumption` and `LocksAssumption`: sizes
and times are natural numbers, there is a slot and a price, a hold lasts at least one tick.

`NoDoubleBooking` is inductive only with types: a creation needs that the index was clear, a move
and a check-in's Save that the index accepts the new row. The statements about money are not: a
deposit is added to a row a request has seen, and a check-in brings back a row read earlier. The
inductive invariant is

    IInv == TypeOK /\ NoDoubleBooking /\ BooksOK /\ SnapsOK

- `BooksOK` has, for each booking, its ledger equation (unless clobbered), what it owes, that a
  hold carries no money, and that an id not given out yet has neither row nor money. The last part
  is what a creation needs for the rows it adds.
- `SnapsOK` says what a check-in may be carrying: a row of an id already given out, pending or
  confirmed when it was read, with its due amount right. A Save that finds the row as it was read
  keeps the ledger equation; any other adds the booking to `clobbered`, and what it writes still
  owes the right amount.

The lemmas about the row operations (`ConfirmedRowType`, `BookFrame`, ...) are in
`BookingTablesProofs` and serve the groups too.

| Theorem of `BookingDeskProofs` | Says |
|---|---|
| `TypeCorrect` | `Spec => []TypeOK` |
| `InvariantHolds` | `Spec => []IInv` |
| `SlotsAreNeverDoubleBooked` | `Spec => []NoDoubleBooking` |
| `HoldsNeverCarryMoney` | `Spec => []HoldsCarryNoMoney` |
| `LedgerAgrees` | `Spec => []LedgerBacksDeposit` |
| `DueIsRight` | `Spec => []DueIsOutstanding` |
| `NothingElseRevives` | `Spec => OnlyStaleCheckInRevives`: the step lemma compares a canceled row with every handler's guard |
| `DeskImplementsCalendar` | `Spec => ImplementsCalendar`: insertion is a `Grant`, cancellation, sweep and expiry a `GiveBack`, moves and check-ins a `Reschedule`, the rest stutters |
| `OnlyOverwrittenRefundTooMuch` | `Spec => [](\A b \in Ids \ clobbered : returned[b] <= received[b])`, from the ledger equations of `BooksOK` |

### Booking groups

The same assumptions. The inductive invariant is

    IInv == TypeOK /\ NoDoubleBooking /\ BooksOK /\ Balanced

A reschedule spreads the money of a group anew and posts its payment to one booking, so that the
books of a single booking balance hardly ever. What is kept is the sum over a group, and not even
that by itself: a canceled booking has forfeited half of its deposit or got it back whole, and its
row does not say which. `Balanced` therefore says that *there is* a set of late cancellations with
which every group's excess (received less returned, less what the rows account for) is zero. A
cancellation extends the witness, a reschedule moves members into the group and keeps the total.
For a reschedule the proof needs that the loop allocates exactly what was received (`Allocated`
sums to it, by induction over the ranks), that ranks are one to one with the bookings that stay,
and that the targets are free or the group's own; that it saves row by row under an index checked
row by row then follows, since `SavesCollide` refuses the rest. `GroupLedger` follows because a
group's members are what its sums run over.

| Theorem of `BookingGroupsProofs` | Says |
|---|---|
| `InvariantHolds` | `Spec => []IInv` |
| `GroupsTypeOK` | `Spec => []TypeOK` |
| `GroupsNoDoubleBooking` | `Spec => []NoDoubleBooking` |
| `GroupsDueIsOutstanding` | `Spec => []DueIsOutstanding` |
| `GroupsLedgerExact` | `Spec => []GroupLedger` |
| `GroupsImplementCalendar` | `Spec => ImplementsCalendar`, with groups as parties: a reschedule of many rows is one `Reschedule` |
| `EarlierMovesSucceed` | a reschedule that is `Reschedulable`, with lapsed holds swept, to earlier or other slots meets no collision |

The last is the code's order of Saves turned into arithmetic. The members go to consecutive slots
from `lo` in the order of their slots. If none of them lies before `lo`, the first n of them occupy
n different slots from `lo` on, so each stands at its target or beyond it (`PositionsAreReached`);
then whoever still has the target of another is behind it in the order, or has left already. The
hypothesis `Swept` leaves out holds that have run out but are still in the index: the validation
does not see them, and `UpdateBookingGroup`, unlike a creation, does not sweep them first, so that
such a move is refused until the worker has run.

### Price rules

Assumptions: forms are well-typed rules without an id, dates, clock times and prices are natural
numbers, the default priority is positive. The invariant is

    IInv == RulesTypeOK /\ Pending /\ Separated /\ ValidationHolds

`RulesDoNotContradict` speaks of dates and times; `Separated` is its cause, that two rules of the
table do not overlap unless one is `unchecked`. To be preserved by a write it needs
`ValidationHolds`: what a request not `stale` has validated still overlaps no other rule of the
table; and `Pending`, the ids and priorities of rules about to be written. A lemma shows that
rules which do not overlap never apply together, on any date and at any time, not only those TLC
looks at.

`BestRuleSetsPrice` compares the loop of `ResolveRulePrice` with a definition that has no loop. Its
proof goes along the list: after each rule the loop carries the best of those seen so far, or
nothing if none applies; that the table can be listed at all needs that it is finite (`Finite`,
a second invariant).

| Theorem of `PriceRulesProofs` | Says |
|---|---|
| `TypeCorrect` | `RulesSpec => []RulesTypeOK` |
| `InvariantHolds` | `RulesSpec => []IInv` |
| `ValidatedRulesDoNotContradict` | `RulesSpec => []RulesDoNotContradict` |
| `LoopFindsBestPrice` | `RulesSpec => []BestRuleSetsPrice` |
| `OneRequestAtATimeIsEnough` | `RulesSpec => []RulesNeverContradict` if there is one administrator at most and every form is active |

The last adds to the invariant that nothing becomes `stale` or `unchecked`: whoever writes is the
only one who could have validated, and an active rule is stored as it was checked.

### The day of a court

Assumptions: times and bounds are natural numbers, the interval is positive, there are hours and
prices to choose from, rule tables are sets of rules. The invariant is

    IInv == Shape /\ BookingsKeepTheirSlot /\ DuplicatesNeedRacingViews /\ CalmIsUpToDate

`Shape` is the little these steps need of types. `CalmIsUpToDate` says what a calm request knows at
each stage: the starts it is about to insert have no slot, which is what
`DuplicatesNeedRacingViews` needs at `BulkCreate`; the base price it has read is the court's, the
free slots it has listed are all there are and still have the listed price; and of the free slots
only those it still has to write lack their price, which gives the action property at the last
write. `TypeOK` is inductive with it; that a price is a natural number is a fold over the rules.

| Theorem of `CourtScheduleProofs` | Says |
|---|---|
| `TypeCorrect` | `Spec => []TypeOK` |
| `InvariantHolds` | `Spec => []IInv` |
| `SlotsOutliveTheirBookings` | `Spec => []BookingsKeepTheirSlot` |
| `OnlyRacingViewsDouble` | `Spec => []DuplicatesNeedRacingViews` |
| `RepricingIsRight` | `Spec => UndisturbedRepricingIsRight` |
| `OneGridBooksOnce` | `Spec => [](twice = {} => CourtBookedOnce)` if all hours open on one grid (`OneGrid`) |

For `OneGridBooksOnce` every slot there is starts a whole number of intervals after some opening
time, and by `OneGrid` after all of them. Two booked slots are slots (`BookingsKeepTheirSlot`) of
different starts (`DuplicatesNeedRacingViews`), so they are an interval apart.

### The browser session

Assumptions (`WebSessionAssumption`): requests are numbers, portals are among the three, every
account has a role, and no value is none of them. The invariant is

    SessionIInv == SessionShape /\ WaitersAreAnswered /\ SessionIsOne /\ OneAccount

`SessionShape` adds to types that whoever started a refresh waits for itself: without it
`Refreshed` might answer somebody whose own refresh is still under way.
`AccountsMixOnlyByOvertaking` compares requests pairwise, which a step does not preserve; its cause
is `OneAccount`: unless mixed there is one account that all that is stored, carried and presented
belongs to. A login makes it the new account when nothing is pending, and `mixed` otherwise.

| Theorem of `FrontDeskProofs` | Says |
|---|---|
| `SessionInvariantHolds` | `WebSpec => []SessionIInv` |
| `SessionTypeCorrect` | `WebSpec => []WebTypeOK` |
| `WaitersHaveTheirRefresh` | `WebSpec => []WaitersAreAnswered` |
| `AccountsStayApart` | `WebSpec => []AccountsMixOnlyByOvertaking` |

### The booking desks

Assumption (`DeskAssumption`): submissions and bookings are numbered from 1, as 0 stands for a load
that belongs to none and for a booking without a group; a slot belongs to one day, and a day has
finitely many; the group there is at first is among the bookings. The invariant is

    DeskIInv == DeskShape /\ LoadsAreAwaited /\ OneAtATime /\ CanceledSoFar
                /\ CancelNoticeMeansGone /\ DeskComesBack

A load that ends lowers the flag and ends the submission that waited for it. That this is the
submission meant needs `LoadsAreAwaited`: a load with a number belongs to a submission in stage
`reload`, and no two loads to one. With `DeskComesBack` (who reloads has a load) it makes a one to
one relation, which is why the flag of the staff desk is down only if nothing is under way
(`OneAtATime`). `CanceledSoFar` is the loop invariant of a cancellation: what it no longer has to
do is gone. Lemmas say which loads are left when one is removed from the sequence, in whatever
place.

What the board shows needs a second invariant over this one,

    BoardInv == DeskIInv /\ Targets /\ (calm => Tidy)

`BoardFollowsOwnWrites` speaks of settled moments only. `Tidy` says what holds on the way there:
a call is made from an open dialog and blocks the next, a dialog stands over a board on which
nothing is loading, and the *last* load under way, if there is one, carries the schedule as it is
now. `Targets` has what a move may ask for, so that a call adds to one day only.

The type invariant is inductive over both (`DeskTyped`): that a group moved to other slots keeps a
slot each needs that the sort of the members lists all of them (`InOrder`), and that a cancellation
under way has bookings left to cancel comes from the guard of the button.

The third invariant is about retries,

    RetryInv == DeskTyped /\ CanceledForGood /\ (calm => CancelsTheLive)

A booking keeps its group for good, and what this desk has canceled never gets a slot again
(`CanceledForGood`). While calm the dialog is opened over a board as the server has it, so a new
cancellation selects live bookings only, and the one submission under way strikes off its list
what it cancels.

| Theorem of `FrontDeskProofs` | Says |
|---|---|
| `DeskInvariantHolds` | `DeskSpec => []DeskIInv` |
| `StaffDeskSubmitsOnce` | `DeskSpec => []StaffSubmitsOnce` |
| `CancelNoticesAreTrue` | `DeskSpec => []CancelNoticeMeansGone` |
| `ButtonsComeBack` | `DeskSpec => []DeskComesBack` |
| `DeskShowsItsWrites` | `DeskSpec => []BoardFollowsOwnWrites` |
| `DeskTypeCorrect` | `DeskSpec => []DeskTypeOK` |
| `RetriesFailOnlyAfterFailures` | `DeskSpec => [](calm => RetryCanSucceed)` |

### The dialog

Assumption (`BoardsAssumption`), about the answers a day's schedule may bring: they are finite sets
of slots of that day, told apart by id; an id keeps its court and start from one answer to the
next; and no two slots of one answer have the same court and start. The last is what
`CourtSchedule` guarantees unless two first views of a day race (`DuplicatesNeedRacingViews`,
`racing_views`); the one before it holds because no handler writes a slot's court or time.

The fold that makes groups of a board is followed booking by booking, in the order of the sort:
what has been made so far consists of runs of the list, each group is of one kind, and two groups
of one key are two runs, between which a booking of another key stands. That gives
`ClickOpensItsGroup` with the exception of `Split`. Four invariants lead from there to a save:

- `DialogInv`: a new booking starts at a free slot of the board and ends at an offered end; the
  editor awaits the day of the form or nothing;
- `OfClicked`: the group that is edited is the one the key of the clicked booking finds;
- `ChoiceInv`: the editor shows an answer for the chosen day, or still an older one while it waits;
  the form asks for nothing, for the clicked group at its price, or, when nothing is awaited, for a
  run of selectable slots of the answer shown. `SavesWholeChoices` is this at the moments at which
  the save button works; it is preserved because each change of day, court or start clears the
  choice, and because the editor's effect writes only runs (`ChosenRun`);
- `AsOpened`: until a field is touched, the form is what the opening made of the group and the
  effect made of that. With the board as the answer, the effect chooses the same group again.

| Theorem of `FrontDeskProofs` | Says |
|---|---|
| `DialogInvariant` | `DialogSpec => []DialogInv` |
| `NewBookingQuotesItsRange` | `DialogSpec => []QuoteIsOfTheRange`: the end offered, the slots added up in the page and the slots the server selects for the range are the same run, at the prices listed |
| `EditorImplementsLatest` | `DialogSpec => EditorShowsLatest`, the refinement of `LatestAnswer` |
| `ClickFindsItsGroup` | `DialogSpec => []ClickOpensItsGroup` |
| `SavesAskForWholes` | `DialogSpec => []SavesWholeChoices` |
| `ReopeningKeepsTheBooking` | `DialogSpec => []ReopeningChangesNothing` |
| `DialogTypeCorrect` | `DialogSpec => []DialogTypeOK` |

### The stock of a beverage

Assumptions (`BeverageAssumption`): quantities are positive, stocks and bounds natural numbers,
there is a label, call numbers are numbers. The invariants are

    StockIInv == ServerTypes /\ RowIsLocked /\ PageTypes /\ StockIsTheLedger
    PageInv   == Follows /\ AnswersAreOwn /\ OneSave

A transaction writes the row it has read, not the row there is. `RowIsLocked` says these are the
same: it holds the lock, and the row is as it read it. `PageTypes` has the one fact about pages
the ledger needs: they never show, nor send back, a negative stock. `PageInv` is about the page:
while smooth, the *last* load under way carries the row as it is, or a call that has succeeded will
still ask for one (`Follows`); and there is one save at a time, whose button stays disabled until
the load it asked for has ended (`OneSave`), without which the end of one load could enable the
button while another save is under way.

| Theorem of `BackOfficeProofs` | Says |
|---|---|
| `StockInvariantHolds` | `StockSpec => []StockIInv` |
| `StockTypeCorrect` | `StockSpec => []StockTypeOK` |
| `StockAgreesWithLedger` | `StockSpec => []StockIsTheLedger` |
| `OnlyEditsChangeTheRest` | `StockSpec => SavesKeepTheRest` |
| `PageShowsItsCalls` | `StockSpec => []PageFollowsItsCalls` |

### Panel, views and shift

Assumptions: `PanelAssumption` (there is a court, no value is neither court nor rule),
`ViewsAssumption` (the views are the seven, a range asks for what there is, a cell is a court and a
start) and `ShiftAssumption` (the clock starts a day after zero, so that the day before has a
number).

- `PanelInv` says of everything under way whose it is: the loads, the saves, the rule in the form
  and the rules on the list belong to the chosen court, as long as `tidy`. That a rule on the list
  may be gone, and its number in use again for another court, is why `RulesOnList` speaks of rules
  that are of the court *or not of the list's*.
- `ViewsInv` is the pattern of the board and of the beverage page once more: what will be listed
  when the loads under way have arrived in order is the answer to the present query.
- `ShiftInv` bounds the distance of the clocks: the page's clock is at most a quarter behind, so an
  entry has the shift of the sender's clock, at most one quarter before the day and time at which
  the server booked it. `EntriesStayInSight` then is arithmetic on quarters and days.

| Theorem of `BackOfficeProofs` | Says |
|---|---|
| `PanelInvariant` | `PanelSpec => []PanelInv` |
| `PanelShowsItsCourt` | `PanelSpec => []PanelIsOfItsCourt` |
| `ViewsInvariant` | `ViewsSpec => []ViewsInv` |
| `ViewsListTheirQuery` | `ViewsSpec => []ViewShowsItsQuery` |
| `ShiftInvariant` | `ShiftSpec => []ShiftInv` |
| `ShiftKeepsItsEntries` | `ShiftSpec => []EntriesStayInSight` |

### The choice of a day

Assumption (`NavAssumption`): the years follow one another, the bounds and every today are dates,
and the years reach six weeks beyond the bounds on both sides, so that a calendar page of six weeks
that shows a day within the bounds lies within the years. The calendar has no last year; the
constant `Years` is only where `getFullYear` looks. The invariant is

    NavInv == NavTypeOK /\ InBounds(parseDateValue(value)) /\ visibleMonth \in Int

Everything rests on the arithmetic of years and months. A year is 365 or 366 days longer than the
one before, by cases on division by 4, 100 and 400; the months of a year follow one another without
a gap; so each day within the years has exactly one year, month and day (`getFullYear`, `getMonth`
and `getDate` are each a CHOOSE with one answer), and adding one to its number is `DayAfter` of its
date, also across months and years. A week is then seven days in a row that begin on a Monday, and
a page of the calendar all days of its month in weeks. `changeMonth` goes to the first of a month,
which every month has: an arrow changes the month by exactly one.

| Theorem of `BackOfficeProofs` | Says |
|---|---|
| `NavInvariant` | `NavSpec => []NavInv` |
| `EveryDayIsFound` | `NavSpec => EveryDayCanBeChosen` |

### All pages together

`web_pages` runs the modules of the web in one instance. That this runs *them*, and not something
weaker, is itself a theorem: a behaviour of `MCWebPages` is a behaviour of each module, which steps
or rests (without the fairness of `ShiftBook`, as the instance may run another module for ever).
All type invariants follow for the instance.

| Theorem of `BackOfficeProofs` | Says |
|---|---|
| `PagesRunTheModules` | `PagesSpec` implies the specification of each module |
| `PagesTypeCorrect` | `PagesSpec => []PagesTypeOK` |

### Only model-checked

`HoldsEnd` and `SummaryCatchesUp`: liveness under fairness, and `ENABLED`, are outside what is
proved here. Every other property of the passing runs is a theorem. The six violations are
counterexamples; what is proved of each but `range_price` is under which conditions the property it
violates holds.

## 5. What is not modelled, and what could come next

Not modelled, and why:

- accounts: the rules are checks on one row in one step. The race of two administrators who delete
  each other is listed as a hazard (`CHANGELOG_REFACTOR.md` 13 says the last one is protected); so is the customer directory's read inside a transaction that
  has failed;
- the connection pool and the row locks of two reschedules of one group taken in different orders:
  both are behaviours of libraries (`database/sql`, PostgreSQL) that the models take as atomic
  transactions; listed as hazards;
- the rate limiter (one mutex, every step atomic), the activity feed and the dashboard's queries
  (read-only aggregation), password hashing and token formats (library code), logging and
  configuration;
- rendering: layout, wording, colours, toasts, the confirm dialog, selects and scanners. To the
  models an operator who confirms is one click;
- customer search, notes and the read-only preview of customers.

What could come next, in order: an abstract specification of the court's day, which
`CourtSchedule` implements as long as views do not race; `StaffAccounts` with the last
administrator; an order of row locks for `BookingGroups`.
