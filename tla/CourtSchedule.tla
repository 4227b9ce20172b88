--------------------------- MODULE CourtSchedule ---------------------------
(***************************************************************************)
(* The time slots of one court on one day that lies ahead                  *)
(* (service/court_service.go, repository/slot_repository.go): views of the *)
(* day generate them, administrators change hours and prices, bookings     *)
(* protect them.  Every statement of a request is a step of its own: none  *)
(* of these operations runs in a transaction.                              *)
(*                                                                         *)
(* A slot is named by its start and a number: the database gives the       *)
(* copies of a slot different ids and never gives an id twice.             *)
(***************************************************************************)
EXTENDS Pricing

CONSTANTS
  Requests,     \* day views and administrators' requests in flight
  Interval,     \* length of a slot (30 minutes)
  Hours,        \* opening hours an administrator may choose
  BasePrices,   \* base prices an administrator may choose
  RuleTables,   \* contents the price rule table may be given (see PriceRules)
  Day,          \* the date of the day
  MaxCopies,    \* bound: how often a slot of one start is ever inserted
  MaxBooked,    \* bound: slots with a booking, active or canceled
  MaxRequests   \* bound: requests ever started

ASSUME IntervalAssumption == Interval \in Nat \ {0} /\ Day \in Nat /\ MaxCopies \in Nat
                             /\ MaxBooked \in Nat /\ MaxRequests \in Nat
ASSUME HoursAssumption    == /\ Hours # {}
                             /\ Hours \subseteq {h \in [open: Nat, close: Nat] : h.open < h.close}
ASSUME PricesAssumption   == BasePrices \subseteq Nat /\ BasePrices # {}
ASSUME TablesAssumption   == /\ RuleTables \subseteq SUBSET Rule /\ {} \in RuleTables
                             /\ \A T \in RuleTables : /\ IsFiniteSet(T)
                                                      /\ \A p, q \in T : p.id = q.id => p = q

VARIABLES
  court,     \* the row of the court: its hours, base price, and whether it may be booked
  rules,     \* its price rules
  slots,     \* time_slots: the price of each slot there is
  copies,    \* how many slots of each start were ever inserted
  kept,      \* slots with an active booking
  referred,  \* slots of canceled bookings: the foreign key forbids to delete them
  started,   \* how many requests were ever started
  job,       \* what each request is doing
  calm,      \* history: requests since whose start nothing else has changed
  twice      \* history: slots inserted by a view that was not calm

tables == <<court, rules, slots, copies, kept, referred>>
vars == <<court, rules, slots, copies, kept, referred, started, job, calm, twice>>

Court == [hours: Hours, base: BasePrices, bookable: BOOLEAN]

\* Wrong: the last slot may run past closing time.
StartsUpTo(h) == {t \in h.open..(h.close - 1) : (t - h.open) % Interval = 0}

\* courtScheduleForDay and the loop over the day: where slots start.
StartsOf(h) == {t \in h.open..h.close : t + Interval <= h.close /\ (t - h.open) % Interval = 0}

Starts == UNION {StartsOf(h) : h \in Hours}

PriceAt(base, table, start) == ResolveRulePrice(base, Day, start, ListActive(table, Day))

StartOf(s) == s[1]
Slots == DOMAIN slots
Free == Slots \ kept

\* Wrong: a canceled booking protects its slot.
NeverBooked == Slots \ (kept \cup referred)

\* ListFutureUnbookedByCourt and the condition of DeleteFutureUnbookedByCourt.
FutureUnbooked == Slots \ kept

\* Stages: a view goes rules, existing, insert; an update of the court goes save,
\* and delete if the hours change; both, and a change of the rules, may end with
\* the repricing stages court, list, prices, write.
Idle == [stage |-> "idle"]

Init ==
  /\ court \in [hours: Hours, base: BasePrices, bookable: {TRUE}]
  /\ rules = {}
  /\ slots = <<>>
  /\ copies = [t \in Starts |-> 0]
  /\ kept = {} /\ referred = {}
  /\ started = 0
  /\ job = [r \in Requests |-> Idle]
  /\ calm = {} /\ twice = {}

Goto(r, j) == job' = [job EXCEPT ![r] = j]
Starting(r) == job[r] = Idle /\ started < MaxRequests /\ started' = started + 1
At(r, stage) == job[r].stage = stage

\* What a request reads stays what it was; what it writes disturbs the others.
Reads == UNCHANGED <<tables, started, calm, twice>>
Disturbs(r) == calm' = calm \cap {r}

-----------------------------------------------------------------------------
(* EnsureDaySlots, run by every view of the day.                           *)

ViewDay(r) ==
  /\ Starting(r)
  /\ court.bookable
  /\ Goto(r, [stage |-> "rules", court |-> court])
  /\ calm' = calm \cup {r}
  /\ UNCHANGED <<tables, twice>>

ReadRules(r) ==
  /\ At(r, "rules")
  /\ Goto(r, [stage |-> "existing", court |-> job[r].court, rules |-> rules])
  /\ Reads

\* Wrong: booked slots are taken to be missing.
AbsentOrBooked(h) == StartsOf(h) \ {StartOf(s) : s \in Free}

Absent(h) == StartsOf(h) \ {StartOf(s) : s \in Slots}

ReadExisting(r) ==
  /\ At(r, "existing")
  /\ LET absent == Absent(job[r].court.hours)
     IN  Goto(r, [stage |-> "insert",
                  missing |-> [t \in absent |-> PriceAt(job[r].court.base, job[r].rules, t)]])
  /\ Reads

BulkCreate(r) ==
  /\ At(r, "insert")
  /\ LET missing == job[r].missing
         new == {<<t, copies[t] + 1>> : t \in DOMAIN missing}
     IN  /\ \A t \in DOMAIN missing : copies[t] < MaxCopies
         /\ slots' = [s \in Slots \cup new |-> IF s \in new THEN missing[StartOf(s)] ELSE slots[s]]
         /\ copies' = [t \in Starts |-> IF t \in DOMAIN missing THEN copies[t] + 1 ELSE copies[t]]
         /\ twice' = IF r \in calm THEN twice ELSE twice \cup new
         /\ IF new = {} THEN UNCHANGED calm ELSE Disturbs(r)
  /\ Goto(r, [stage |-> "court"])
  /\ UNCHANGED <<court, rules, kept, referred, started>>

-----------------------------------------------------------------------------
(* repriceFutureUnbooked.                                                  *)

RepriceReadsCourt(r) ==
  /\ At(r, "court")
  /\ Goto(r, [stage |-> "list", base |-> court.base])
  /\ Reads

RepriceLists(r) ==
  /\ At(r, "list")
  /\ Goto(r, IF FutureUnbooked = {} THEN Idle
             ELSE [stage |-> "prices", base |-> job[r].base,
                   listed |-> [s \in FutureUnbooked |-> slots[s]]])
  /\ Reads

\* The rules of the day are read once, at its first slot.
RepriceReadsRules(r) ==
  /\ At(r, "prices")
  /\ LET listed   == job[r].listed
         price(s) == PriceAt(job[r].base, rules, StartOf(s))
         changed  == {s \in DOMAIN listed : listed[s] # price(s)}
     IN  Goto(r, IF changed = {} THEN Idle
                 ELSE [stage |-> "write", prices |-> [s \in changed |-> price(s)]])
  /\ Reads

\* UpdatePrice by id, in order of start: a slot that is gone is no error.
RepriceWrites(r) ==
  /\ At(r, "write")
  /\ LET prices == job[r].prices
     IN  \E s \in DOMAIN prices :
           /\ \A u \in DOMAIN prices : StartOf(s) <= StartOf(u)
           /\ slots' = [u \in Slots |-> IF u = s THEN prices[s] ELSE slots[u]]
           /\ Goto(r, IF DOMAIN prices = {s} THEN Idle
                      ELSE [stage |-> "write", prices |-> [u \in DOMAIN prices \ {s} |-> prices[u]]])
  /\ Disturbs(r)
  /\ UNCHANGED <<court, rules, copies, kept, referred, started, twice>>

-----------------------------------------------------------------------------
(* Administrators.                                                         *)

\* UpdateCourt up to its Save: the row is read, the fields asked for are set.
UpdateCourt(r) ==
  /\ Starting(r)
  /\ \E next \in Court : Goto(r, [stage |-> "save", court |-> next,
                                  hoursChanged |-> next.hours # court.hours,
                                  priceChanged |-> next.base # court.base])
  /\ calm' = calm \cup {r}
  /\ UNCHANGED <<tables, twice>>

SaveCourt(r) ==
  /\ At(r, "save")
  /\ court' = job[r].court
  /\ Goto(r, CASE job[r].hoursChanged -> [stage |-> "delete", priceChanged |-> job[r].priceChanged]
               [] ~job[r].hoursChanged /\ job[r].priceChanged -> [stage |-> "court"]
               [] OTHER -> Idle)
  /\ Disturbs(r)
  /\ UNCHANGED <<rules, slots, copies, kept, referred, started, twice>>

\* Wrong: the slots of canceled bookings are deleted as well.
RefusedNever(deleted) == FALSE

\* bookings.time_slot_id references time_slots: one slot that a canceled booking
\* still refers to fails the whole DELETE, and with it the request.
Refused(deleted) == deleted \cap referred # {}

DeleteFutureUnbooked(r) ==
  /\ At(r, "delete")
  /\ ~Refused(FutureUnbooked)
  /\ slots' = [s \in Slots \ FutureUnbooked |-> slots[s]]
  /\ Goto(r, IF job[r].priceChanged THEN [stage |-> "court"] ELSE Idle)
  /\ Disturbs(r)
  /\ UNCHANGED <<court, rules, copies, kept, referred, started, twice>>

\* CreatePriceRule, UpdatePriceRule and DeletePriceRule write the table and reprice.
WriteRules(r) ==
  /\ Starting(r)
  /\ rules' \in RuleTables \ {rules}
  /\ calm' = {r}
  /\ Goto(r, [stage |-> "court"])
  /\ UNCHANGED <<court, slots, copies, kept, referred, twice>>

\* A statement fails, by the foreign key or otherwise, or the process stops: what
\* was done stays done.
Abandon(r) ==
  /\ job[r] # Idle
  /\ Goto(r, Idle)
  /\ calm' = calm \ {r}
  /\ UNCHANGED <<tables, started, twice>>

-----------------------------------------------------------------------------
(* Bookings, as whole transactions (BookingDesk has what happens in them). *)

WithinBounds == Cardinality(kept' \cup referred') <= MaxBooked

\* CreatePendingBooking stores the current price with the slot.
BookSlot(s) ==
  /\ s \in Free /\ court.bookable
  /\ kept' = kept \cup {s}
  /\ slots' = [slots EXCEPT ![s] = PriceAt(court.base, rules, StartOf(s))]
  /\ UNCHANGED <<court, rules, copies, referred, started, job, calm, twice>>
  /\ WithinBounds

\* CreatePendingBookingRange takes every slot from one start to before another.
\* ListByCourtAndDate does not load the court of a slot, so its base price reads 0.
BookRange(s, e) ==
  LET range == {u \in Slots : StartOf(s) <= StartOf(u) /\ StartOf(u) < StartOf(e)}
  IN  /\ {s, e} \subseteq Slots /\ StartOf(s) < StartOf(e)
      /\ court.bookable
      /\ range \cap kept = {}
      /\ kept' = kept \cup range
      /\ slots' = [u \in Slots |-> IF u \in range THEN PriceAt(0, rules, StartOf(u)) ELSE slots[u]]
      /\ UNCHANGED <<court, rules, copies, referred, started, job, calm, twice>>
      /\ WithinBounds

\* The booking is canceled, or its hold runs out.
Release(s) ==
  /\ s \in kept
  /\ kept' = kept \ {s}
  /\ referred' = referred \cup {s}
  /\ calm' = {}
  /\ UNCHANGED <<court, rules, slots, copies, started, job, twice>>

\* UpdateBooking leaves the price of the slot it moves to alone, UpdateBookingGroup
\* brings it up to date; the booking no longer refers to the slot it leaves.
Move(s, t) ==
  /\ s \in kept /\ t \in Free /\ court.bookable
  /\ kept' = (kept \ {s}) \cup {t}
  /\ slots' \in {slots, [slots EXCEPT ![t] = PriceAt(court.base, rules, StartOf(t))]}
  /\ calm' = {}
  /\ UNCHANGED <<court, rules, copies, referred, started, job, twice>>
  /\ WithinBounds

-----------------------------------------------------------------------------

Next ==
  \/ \E r \in Requests :
       \/ ViewDay(r) \/ ReadRules(r) \/ ReadExisting(r) \/ BulkCreate(r)
       \/ RepriceReadsCourt(r) \/ RepriceLists(r) \/ RepriceReadsRules(r) \/ RepriceWrites(r)
       \/ UpdateCourt(r) \/ SaveCourt(r) \/ DeleteFutureUnbooked(r) \/ WriteRules(r)
       \/ Abandon(r)
  \/ \E s \in Slots : BookSlot(s) \/ Release(s)
  \/ \E s, t \in Slots : BookRange(s, t) \/ Move(s, t)

Spec == Init /\ [][Next]_vars

-----------------------------------------------------------------------------

\* A slot lies within opening hours that were once chosen, and has a price.
SlotIds == {s \in Starts \X (1..MaxCopies) :
              \E h \in Hours : h.open <= StartOf(s) /\ StartOf(s) + Interval <= h.close}

\* f gives some of the members of S a price.
Prices(f, S) == DOMAIN f \subseteq S /\ f \in [DOMAIN f -> Nat]

\* What a request at each stage carries.
Jobs ==
  {Idle} \cup [stage: {"rules"}, court: Court]
  \cup [stage: {"existing"}, court: Court, rules: RuleTables]
  \cup [stage: {"court"}] \cup [stage: {"list"}, base: BasePrices]
  \cup [stage: {"save"}, court: Court, hoursChanged: BOOLEAN, priceChanged: BOOLEAN]
  \cup [stage: {"delete"}, priceChanged: BOOLEAN]

IsJob(j) ==
  CASE j.stage = "insert" -> /\ j = [stage |-> "insert", missing |-> j.missing]
                             /\ Prices(j.missing, Starts)
    [] j.stage = "prices" -> /\ j = [stage |-> "prices", base |-> j.base, listed |-> j.listed]
                             /\ j.base \in BasePrices /\ Prices(j.listed, SlotIds)
    [] j.stage = "write"  -> /\ j = [stage |-> "write", prices |-> j.prices]
                             /\ Prices(j.prices, SlotIds)
    [] OTHER              -> j \in Jobs

\* Every variable keeps its type; in particular no slot runs past closing time
\* (the bound of the loop in EnsureDaySlots, court_service.go 316).
TypeOK ==
  /\ court \in Court
  /\ rules \in RuleTables
  /\ Prices(slots, SlotIds)
  /\ copies \in [Starts -> 0..MaxCopies]
  /\ \A r \in Requests : IsJob(job[r])
  /\ started \in 0..MaxRequests
  /\ calm \subseteq Requests /\ twice \subseteq SlotIds

\* No booking ever loses its slot: whatever requests delete slots for new opening
\* hours while bookings are made, moved and canceled (slot_repository.go 166-178),
\* the slot of an active or a canceled booking stays.
BookingsKeepTheirSlot == kept \cup referred \subseteq Slots

\* Two slots of one start exist only where a view inserted one without seeing what
\* another request did since it began (court_service.go 306-324); views one after
\* the other never do that, however hours, prices and bookings change in between.
DuplicatesNeedRacingViews ==
  \A s, u \in Slots : s # u /\ StartOf(s) = StartOf(u) => s \in twice \/ u \in twice

\* A repricing (court_service.go 213-242) that nothing has disturbed since its
\* request began leaves every free slot at the price its court and its rules give
\* it now, also slots of former hours and slots released by earlier bookings.
UndisturbedRepricingIsRight ==
  [][\A r \in Requests :
       /\ job[r].stage \in {"list", "prices", "write"} /\ job'[r] = Idle
       /\ r \in calm'
       => \A s \in Free' : slots'[s] = PriceAt(court.base, rules, StartOf(s))']_vars

\* db/migration.go 37-38: the unique index is to be "authoritative even when several
\* API requests arrive at the same time".  No two bookings have the court at once.
CourtBookedOnce ==
  \A s, u \in kept : s # u =>
    StartOf(s) + Interval <= StartOf(u) \/ StartOf(u) + Interval <= StartOf(s)

\* docs/ARCHITECTURE.md 61-63: the base price is "the current commercial price configured
\* by an administrator", available slots follow it, and a booking takes the price of its
\* slot; booking_create.go 127-129 refreshes that price before booking.  Whoever books new
\* slots, one or a range, pays what the court and its rules ask for them now.
BookingsCostTheCurrentPrice ==
  [][kept \subseteq kept' =>
       \A s \in kept' \ kept : slots'[s] = PriceAt(court.base, rules, StartOf(s))]_vars
=============================================================================
