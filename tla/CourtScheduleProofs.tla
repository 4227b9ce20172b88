------------------------ MODULE CourtScheduleProofs ------------------------
(***************************************************************************)
(* For any opening hours, prices, rules, bookings and number of requests:  *)
(* no booking loses its slot, slots are doubled by racing views only, a    *)
(* repricing that nothing disturbs is right, every variable keeps its type, *)
(* and without racing views no booking overlaps another on one grid.       *)
(*                                                                         *)
(* What a price is plays no part in the first three: PriceAt is expanded   *)
(* only to show that a price is a natural number.                          *)
(***************************************************************************)
EXTENDS CourtSchedule, DataLemmas

Shape == job = [r \in Requests |-> job[r]] /\ calm \subseteq Requests

CurrentPrice(s) == PriceAt(court.base, rules, StartOf(s))

\* What a request carries is up to date.
UpToDate(r) ==
  /\ At(r, "insert") => \A s \in Slots : StartOf(s) \notin DOMAIN job[r].missing
  /\ At(r, "list")   => job[r].base = court.base
  /\ At(r, "prices") => /\ job[r].base = court.base
                        /\ \A s \in Free : s \in DOMAIN job[r].listed /\ job[r].listed[s] = slots[s]
  /\ At(r, "write")  => \A s \in Free :
                          IF s \in DOMAIN job[r].prices THEN job[r].prices[s] = CurrentPrice(s)
                                                        ELSE slots[s] = CurrentPrice(s)

CalmIsUpToDate == \A r \in calm : UpToDate(r)

IInv == Shape /\ BookingsKeepTheirSlot /\ DuplicatesNeedRacingViews /\ CalmIsUpToDate

-----------------------------------------------------------------------------

\* A request stays up to date while others read, and while slots are booked: that
\* changes the price of no slot that stays free.
LEMMA StaysUpToDate ==
  ASSUME NEW q \in Requests, UpToDate(q), job'[q] = job[q],
         court' = court, rules' = rules,
         Slots' = Slots, kept \subseteq kept',
         \A s \in Slots \ kept' : slots'[s] = slots[s]
  PROVE  UpToDate(q)'
<1>1. \A s \in Free' : s \in Free /\ slots'[s] = slots[s]
  BY DEF Free
<1>2. \A s : CurrentPrice(s)' = CurrentPrice(s)
  BY DEF CurrentPrice
<1>3. (At(q, "insert") => \A s \in Slots : StartOf(s) \notin DOMAIN job[q].missing)'
  BY DEF UpToDate, At
<1>4. (At(q, "list") => job[q].base = court.base)'
  BY DEF UpToDate, At
<1>5. (At(q, "prices") =>
         /\ job[q].base = court.base
         /\ \A s \in Free : s \in DOMAIN job[q].listed /\ job[q].listed[s] = slots[s])'
  BY <1>1 DEF UpToDate, At
<1>6. (At(q, "write") => \A s \in Free :
         IF s \in DOMAIN job[q].prices THEN job[q].prices[s] = CurrentPrice(s)
                                       ELSE slots[s] = CurrentPrice(s))'
  BY <1>1, <1>2 DEF UpToDate, At
<1> QED
  BY <1>3, <1>4, <1>5, <1>6 DEF UpToDate

\* A request that goes to a stage at which it carries nothing is up to date.
LEMMA CarriesNothing ==
  ASSUME NEW r \in Requests,
         job'[r].stage \notin {"insert", "list", "prices", "write"}
  PROVE  UpToDate(r)'
BY DEF UpToDate, At

\* A step of one request changes its own stage only.
LEMMA OneJob ==
  ASSUME Shape, NEW r \in Requests, NEW j, Goto(r, j)
  PROVE  /\ job' = [q \in Requests |-> job'[q]]
         /\ job'[r] = j
         /\ \A q \in Requests \ {r} : job'[q] = job[q]
BY DEF Shape, Goto

\* A step that only reads keeps the invariant, if the request itself is up to date
\* afterwards.
LEMMA ReadKeeps ==
  ASSUME IInv, NEW r \in Requests, NEW j, Goto(r, j), UNCHANGED <<tables, twice>>,
         calm' \subseteq calm \cup {r},
         r \in calm' => UpToDate(r)'
  PROVE  IInv'
<1> USE DEF IInv
<1>1. Shape'
  BY OneJob DEF Shape
<1>2. BookingsKeepTheirSlot' /\ DuplicatesNeedRacingViews'
  BY DEF tables, BookingsKeepTheirSlot, DuplicatesNeedRacingViews, Slots
<1>3. ASSUME NEW q \in calm', q # r
      PROVE  UpToDate(q)'
  <2>1. q \in Requests /\ UpToDate(q)
    BY <1>3 DEF Shape, CalmIsUpToDate
  <2>2. job'[q] = job[q]
    BY <1>3, <2>1, OneJob
  <2> QED
    BY <2>1, <2>2, StaysUpToDate DEF tables, Slots
<1> QED
  BY <1>1, <1>2, <1>3 DEF CalmIsUpToDate

\* A step after which only the request itself can be calm, and that leaves no slot
\* doubled and no booking without its slot, keeps the invariant.
LEMMA WriteKeeps ==
  ASSUME IInv, NEW r \in Requests, NEW j, Goto(r, j), calm' \subseteq {r},
         BookingsKeepTheirSlot', DuplicatesNeedRacingViews',
         r \in calm' => UpToDate(r)'
  PROVE  IInv'
<1>1. Shape'
  BY OneJob DEF Shape, IInv
<1> QED
  BY <1>1 DEF IInv, CalmIsUpToDate

\* Slots that stay or go keep the rest of the invariant.
LEMMA FewerSlots ==
  ASSUME IInv, Slots' \subseteq Slots, twice' = twice
  PROVE  DuplicatesNeedRacingViews'
BY DEF IInv, DuplicatesNeedRacingViews

-----------------------------------------------------------------------------

\* The steps of EnsureDaySlots.
LEMMA ViewKeeps ==
  ASSUME IInv, NEW r \in Requests,
         ViewDay(r) \/ ReadRules(r) \/ ReadExisting(r) \/ BulkCreate(r)
  PROVE  IInv'
<1>1. CASE ViewDay(r)
  <2> DEFINE j == [stage |-> "rules", court |-> court]
  <2>1. Goto(r, j) /\ UNCHANGED <<tables, twice>> /\ calm' = calm \cup {r}
    BY <1>1 DEF ViewDay
  <2>2. job'[r].stage = "rules"
    BY <2>1, OneJob DEF IInv
  <2> QED
    BY <2>1, <2>2, CarriesNothing, ReadKeeps
<1>2. CASE ReadRules(r)
  <2> DEFINE j == [stage |-> "existing", court |-> job[r].court, rules |-> rules]
  <2>1. Goto(r, j) /\ UNCHANGED <<tables, twice>> /\ calm' = calm
    BY <1>2 DEF ReadRules, Reads
  <2>2. job'[r].stage = "existing"
    BY <2>1, OneJob DEF IInv
  <2> QED
    BY <2>1, <2>2, CarriesNothing, ReadKeeps
<1>3. CASE ReadExisting(r)
  <2> DEFINE absent == Absent(job[r].court.hours)
             missing == [t \in absent |-> PriceAt(job[r].court.base, job[r].rules, t)]
             j == [stage |-> "insert", missing |-> missing]
  <2>1. Goto(r, j) /\ UNCHANGED <<tables, twice>> /\ calm' = calm
    BY <1>3 DEF ReadExisting, Reads
  <2>2. job'[r] = j
    BY <2>1, OneJob DEF IInv
  <2>3. \A s \in Slots : StartOf(s) \notin absent
    BY DEF Absent
  <2>4. Slots' = Slots
    BY <2>1 DEF tables, Slots
  <2>5. DOMAIN missing = absent
    OBVIOUS
  <2> HIDE DEF missing, absent
  <2>6. UpToDate(r)'
    BY <2>2, <2>3, <2>4, <2>5 DEF UpToDate, At
  <2> HIDE DEF j
  <2> QED
    BY <2>1, <2>6, ReadKeeps
<1>4. CASE BulkCreate(r)
  <2> DEFINE missing == job[r].missing
             new == {<<t, copies[t] + 1>> : t \in DOMAIN missing}
             j == [stage |-> "court"]
  <2>1. /\ Slots' = Slots \cup new
        /\ twice' = IF r \in calm THEN twice ELSE twice \cup new
        /\ kept' = kept /\ referred' = referred
        /\ Goto(r, j)
        /\ At(r, "insert")
    BY <1>4 DEF BulkCreate, Slots
  <2>2. \A s \in new : StartOf(s) \in DOMAIN missing
    BY DEF StartOf
  <2>3. \A s, u \in new : StartOf(s) = StartOf(u) => s = u
    BY DEF StartOf
  <2>4. BookingsKeepTheirSlot'
    BY <2>1 DEF IInv, BookingsKeepTheirSlot
  <2>5. r \in calm => \A s \in Slots : StartOf(s) \notin DOMAIN missing
    BY <2>1 DEF IInv, CalmIsUpToDate, UpToDate
  <2>6. job'[r].stage = "court"
    BY <2>1, OneJob DEF IInv
  <2>7. CASE new = {}
    <3>1. DuplicatesNeedRacingViews'
      BY <2>1, <2>7, FewerSlots
    <3>2. calm' = calm /\ court' = court /\ rules' = rules
      BY <1>4, <2>7 DEF BulkCreate
    <3>3. \A s \in Slots : slots'[s] = slots[s]
      BY <1>4, <2>7 DEF BulkCreate
    <3>4. ASSUME NEW q \in calm', q # r
          PROVE  UpToDate(q)'
      <4>1. q \in Requests /\ UpToDate(q)
        BY <3>2, <3>4 DEF IInv, Shape, CalmIsUpToDate
      <4>2. job'[q] = job[q]
        BY <2>1, <3>4, <4>1, OneJob DEF IInv
      <4> QED
        BY <2>1, <2>7, <3>2, <3>3, <4>1, <4>2, StaysUpToDate
    <3>5. UpToDate(r)'
      BY <2>6, CarriesNothing
    <3>6. Shape'
      BY <2>1, <3>2, OneJob DEF IInv, Shape
    <3> QED
      BY <2>4, <3>1, <3>4, <3>5, <3>6 DEF IInv, CalmIsUpToDate
  <2>8. CASE new # {}
    <3>1. calm' \subseteq {r}
      BY <1>4, <2>8 DEF BulkCreate, Disturbs
    <3>2. DuplicatesNeedRacingViews'
      <4> SUFFICES ASSUME NEW s \in Slots', NEW u \in Slots', s # u, StartOf(s) = StartOf(u),
                          s \notin twice', u \notin twice'
                   PROVE  FALSE
        BY DEF DuplicatesNeedRacingViews
      <4>1. s \notin twice /\ u \notin twice
        BY <2>1
      <4>2. CASE s \in Slots /\ u \in Slots
        BY <4>1, <4>2 DEF IInv, DuplicatesNeedRacingViews
      <4>3. CASE s \in new \/ u \in new
        <5>1. r \in calm
          BY <2>1, <4>3
        <5>2. s \in new /\ u \in new
          BY <2>1, <2>2, <2>5, <4>3, <5>1
        <5> QED
          BY <2>3, <5>2
      <4> QED
        BY <2>1, <4>2, <4>3
    <3>3. UpToDate(r)'
      BY <2>6, CarriesNothing
    <3> HIDE DEF j
    <3> QED
      BY <2>1, <2>4, <3>1, <3>2, <3>3, WriteKeeps
  <2> QED
    BY <2>7, <2>8
<1> QED
  BY <1>1, <1>2, <1>3, <1>4

\* The steps of repriceFutureUnbooked.
LEMMA RepriceKeeps ==
  ASSUME IInv, NEW r \in Requests,
         \/ RepriceReadsCourt(r) \/ RepriceLists(r)
         \/ RepriceReadsRules(r) \/ RepriceWrites(r)
  PROVE  IInv'
<1>1. CASE RepriceReadsCourt(r)
  <2> DEFINE j == [stage |-> "list", base |-> court.base]
  <2>1. Goto(r, j) /\ UNCHANGED <<tables, twice>> /\ calm' = calm
    BY <1>1 DEF RepriceReadsCourt, Reads
  <2>2. job'[r] = j /\ court' = court
    BY <2>1, OneJob DEF IInv, tables
  <2>3. UpToDate(r)'
    BY <2>2 DEF UpToDate, At
  <2> HIDE DEF j
  <2> QED
    BY <2>1, <2>3, ReadKeeps
<1>2. CASE RepriceLists(r)
  <2> DEFINE listed == [s \in FutureUnbooked |-> slots[s]]
             list == [stage |-> "prices", base |-> job[r].base, listed |-> listed]
             j == IF FutureUnbooked = {} THEN Idle ELSE list
  <2>1. Goto(r, j) /\ UNCHANGED <<tables, twice>> /\ calm' = calm /\ At(r, "list")
    BY <1>2 DEF RepriceLists, Reads
  <2>2. job'[r] = j
    BY <2>1, OneJob DEF IInv
  <2>3. CASE FutureUnbooked = {}
    <3>1. job'[r].stage = "idle"
      BY <2>2, <2>3 DEF Idle
    <3> HIDE DEF j
    <3> QED
      BY <2>1, <3>1, CarriesNothing, ReadKeeps
  <2>4. CASE FutureUnbooked # {}
    <3>1. job'[r] = list
      BY <2>2, <2>4
    <3>2. DOMAIN listed = FutureUnbooked /\ \A s \in FutureUnbooked : listed[s] = slots[s]
      OBVIOUS
    <3>3. Free' = FutureUnbooked /\ slots' = slots /\ court' = court
      BY <2>1 DEF tables, Free, FutureUnbooked, Slots
    <3> HIDE DEF listed
    <3>4. r \in calm => UpToDate(r)'
      BY <2>1, <3>1, <3>2, <3>3 DEF IInv, CalmIsUpToDate, UpToDate, At
    <3> HIDE DEF j
    <3> QED
      BY <2>1, <3>4, ReadKeeps
  <2> QED
    BY <2>3, <2>4
<1>3. CASE RepriceReadsRules(r)
  <2> DEFINE listed   == job[r].listed
             price(s) == PriceAt(job[r].base, rules, StartOf(s))
             changed  == {s \in DOMAIN listed : listed[s] # price(s)}
             prices   == [s \in changed |-> price(s)]
             j == IF changed = {} THEN Idle ELSE [stage |-> "write", prices |-> prices]
  <2>1. Goto(r, j) /\ UNCHANGED <<tables, twice>> /\ calm' = calm /\ At(r, "prices")
    BY <1>3 DEF RepriceReadsRules, Reads
  <2>2. job'[r] = j
    BY <2>1, OneJob DEF IInv
  <2>3. CASE changed = {}
    <3>1. job'[r].stage = "idle"
      BY <2>2, <2>3 DEF Idle
    <3> HIDE DEF j
    <3> QED
      BY <2>1, <3>1, CarriesNothing, ReadKeeps
  <2>4. CASE changed # {}
    <3>1. job'[r] = [stage |-> "write", prices |-> prices]
      BY <2>2, <2>4
    <3>2. DOMAIN prices = changed /\ \A s \in changed : prices[s] = price(s)
      OBVIOUS
    <3>3. Free' = Free /\ slots' = slots /\ court' = court /\ rules' = rules
      BY <2>1 DEF tables, Free, Slots
    <3>4. ASSUME r \in calm
          PROVE  \A s \in Free : /\ s \in DOMAIN listed /\ listed[s] = slots[s]
                                 /\ price(s) = CurrentPrice(s)
      BY <2>1, <3>4 DEF IInv, CalmIsUpToDate, UpToDate, CurrentPrice
    <3>5. ASSUME r \in calm
          PROVE  \A s \in Free : IF s \in changed THEN prices[s] = CurrentPrice(s)
                                                  ELSE slots[s] = CurrentPrice(s)
      BY <3>2, <3>4, <3>5
    <3>6. \A s : CurrentPrice(s)' = CurrentPrice(s)
      BY <3>3 DEF CurrentPrice
    <3> HIDE DEF prices, changed
    <3>7. r \in calm => UpToDate(r)'
      BY <3>1, <3>2, <3>3, <3>5, <3>6 DEF UpToDate, At
    <3> HIDE DEF j
    <3> QED
      BY <2>1, <3>7, ReadKeeps
  <2> QED
    BY <2>3, <2>4
<1>4. CASE RepriceWrites(r)
  <2> DEFINE prices == job[r].prices
  <2>1. PICK s \in DOMAIN prices :
          /\ slots' = [u \in Slots |-> IF u = s THEN prices[s] ELSE slots[u]]
          /\ Goto(r, IF DOMAIN prices = {s} THEN Idle
                     ELSE [stage |-> "write", prices |-> [u \in DOMAIN prices \ {s} |-> prices[u]]])
    BY <1>4 DEF RepriceWrites
  <2> DEFINE rest == [u \in DOMAIN prices \ {s} |-> prices[u]]
             j == IF DOMAIN prices = {s} THEN Idle ELSE [stage |-> "write", prices |-> rest]
  <2>2. /\ At(r, "write") /\ calm' = calm \cap {r}
        /\ UNCHANGED <<court, rules, copies, kept, referred, started, twice>>
    BY <1>4 DEF RepriceWrites, Disturbs
  <2>3. Goto(r, j) /\ Slots' = Slots
    BY <2>1 DEF Slots
  <2>4. job'[r] = j
    BY <2>3, OneJob DEF IInv
  <2>5. BookingsKeepTheirSlot' /\ DuplicatesNeedRacingViews'
    BY <2>2, <2>3, FewerSlots DEF IInv, BookingsKeepTheirSlot
  <2>6. CASE DOMAIN prices = {s}
    <3>1. job'[r].stage = "idle"
      BY <2>4, <2>6 DEF Idle
    <3> HIDE DEF j
    <3> QED
      BY <2>2, <2>3, <2>5, <3>1, CarriesNothing, WriteKeeps
  <2>7. CASE DOMAIN prices # {s}
    <3>1. job'[r] = [stage |-> "write", prices |-> rest]
      BY <2>4, <2>7
    <3>2. DOMAIN rest = DOMAIN prices \ {s} /\ \A u \in DOMAIN prices \ {s} : rest[u] = prices[u]
      OBVIOUS
    <3>3. \A u \in Slots : slots'[u] = IF u = s THEN prices[s] ELSE slots[u]
      BY <2>1
    <3>4. Free' = Free /\ Free \subseteq Slots
      BY <2>2, <2>3 DEF Free
    <3>5. \A u : CurrentPrice(u)' = CurrentPrice(u)
      BY <2>2 DEF CurrentPrice
    <3> HIDE DEF rest
    <3>6. ASSUME r \in calm
          PROVE  \A u \in Free : IF u \in DOMAIN rest THEN rest[u] = CurrentPrice(u)
                                                      ELSE slots'[u] = CurrentPrice(u)
      <4>1. \A u \in Free : IF u \in DOMAIN prices THEN prices[u] = CurrentPrice(u)
                                                    ELSE slots[u] = CurrentPrice(u)
        BY <2>2, <3>6 DEF IInv, CalmIsUpToDate, UpToDate
      <4> QED
        BY <3>2, <3>3, <3>4, <4>1
    <3>7. r \in calm => UpToDate(r)'
      BY <3>1, <3>4, <3>5, <3>6 DEF UpToDate, At
    <3> HIDE DEF j
    <3> QED
      BY <2>2, <2>3, <2>5, <3>7, WriteKeeps
  <2> QED
    BY <2>6, <2>7
<1> QED
  BY <1>1, <1>2, <1>3, <1>4

\* The steps of administrators.
LEMMA AdministrationKeeps ==
  ASSUME IInv, NEW r \in Requests,
         \/ UpdateCourt(r) \/ SaveCourt(r) \/ DeleteFutureUnbooked(r)
         \/ WriteRules(r) \/ Abandon(r)
  PROVE  IInv'
<1>1. CASE UpdateCourt(r)
  <2>1. PICK next \in Court : Goto(r, [stage |-> "save", court |-> next,
                                       hoursChanged |-> next.hours # court.hours,
                                       priceChanged |-> next.base # court.base])
    BY <1>1 DEF UpdateCourt
  <2>2. UNCHANGED <<tables, twice>> /\ calm' = calm \cup {r}
    BY <1>1 DEF UpdateCourt
  <2>3. job'[r].stage = "save"
    BY <2>1, OneJob DEF IInv
  <2> QED
    BY <2>1, <2>2, <2>3, CarriesNothing, ReadKeeps
<1>2. CASE SaveCourt(r)
  <2>1. PICK j \in {[stage |-> "delete", priceChanged |-> job[r].priceChanged],
                    [stage |-> "court"], Idle} : Goto(r, j)
    BY <1>2 DEF SaveCourt
  <2>2. job'[r].stage \in {"delete", "court", "idle"}
    BY <2>1, OneJob DEF IInv, Idle
  <2>3. calm' \subseteq {r} /\ UNCHANGED <<slots, kept, referred, twice>>
    BY <1>2 DEF SaveCourt, Disturbs
  <2>4. BookingsKeepTheirSlot' /\ DuplicatesNeedRacingViews'
    BY <2>3, FewerSlots DEF IInv, BookingsKeepTheirSlot, Slots
  <2> QED
    BY <2>1, <2>2, <2>3, <2>4, CarriesNothing, WriteKeeps
<1>3. CASE DeleteFutureUnbooked(r)
  <2>1. PICK j \in {[stage |-> "court"], Idle} : Goto(r, j)
    BY <1>3 DEF DeleteFutureUnbooked
  <2>2. job'[r].stage \in {"court", "idle"}
    BY <2>1, OneJob DEF IInv, Idle
  <2>3. /\ calm' \subseteq {r} /\ UNCHANGED <<kept, referred, twice>>
        /\ Slots' = Slots \ FutureUnbooked /\ FutureUnbooked \cap referred = {}
    BY <1>3 DEF DeleteFutureUnbooked, Disturbs, Refused, Slots
  <2>4. BookingsKeepTheirSlot' /\ DuplicatesNeedRacingViews'
    BY <2>3, FewerSlots DEF IInv, BookingsKeepTheirSlot, FutureUnbooked
  <2> QED
    BY <2>1, <2>2, <2>3, <2>4, CarriesNothing, WriteKeeps
<1>4. CASE WriteRules(r)
  <2>1. /\ Goto(r, [stage |-> "court"])
        /\ calm' \subseteq {r} /\ UNCHANGED <<slots, kept, referred, twice>>
    BY <1>4 DEF WriteRules
  <2>2. job'[r].stage = "court"
    BY <2>1, OneJob DEF IInv
  <2>3. BookingsKeepTheirSlot' /\ DuplicatesNeedRacingViews'
    BY <2>1, FewerSlots DEF IInv, BookingsKeepTheirSlot, Slots
  <2> QED
    BY <2>1, <2>2, <2>3, CarriesNothing, WriteKeeps
<1>5. CASE Abandon(r)
  <2>1. Goto(r, Idle) /\ UNCHANGED <<tables, twice>> /\ calm' = calm \ {r}
    BY <1>5 DEF Abandon
  <2> QED
    BY <2>1, ReadKeeps
<1> QED
  BY <1>1, <1>2, <1>3, <1>4, <1>5

\* Bookings: one that takes free slots disturbs nobody, a released slot everybody.
LEMMA BookingKeeps ==
  ASSUME IInv,
         \/ \E s \in Slots : BookSlot(s) \/ Release(s)
         \/ \E s, t \in Slots : BookRange(s, t) \/ Move(s, t)
  PROVE  IInv'
<1>1. ASSUME UNCHANGED <<court, rules, job, calm, twice, referred>>, Slots' = Slots,
             kept \subseteq kept', kept' \subseteq Slots,
             \A s \in Slots \ kept' : slots'[s] = slots[s]
      PROVE  IInv'
  <2>1. BookingsKeepTheirSlot' /\ DuplicatesNeedRacingViews'
    BY <1>1, FewerSlots DEF IInv, BookingsKeepTheirSlot
  <2>2. \A q \in calm : q \in Requests /\ UpToDate(q) /\ job'[q] = job[q]
    BY <1>1 DEF IInv, Shape, CalmIsUpToDate
  <2>3. CalmIsUpToDate'
    BY <1>1, <2>2, StaysUpToDate DEF CalmIsUpToDate
  <2> QED
    BY <1>1, <2>1, <2>3 DEF IInv, Shape
<1>2. ASSUME calm' = {}, UNCHANGED <<job, twice>>, Slots' = Slots,
             kept' \cup referred' \subseteq Slots
      PROVE  IInv'
  <2>1. BookingsKeepTheirSlot' /\ DuplicatesNeedRacingViews'
    BY <1>2, FewerSlots DEF BookingsKeepTheirSlot
  <2> QED
    BY <1>2, <2>1 DEF IInv, Shape, CalmIsUpToDate
<1>3. kept \subseteq Slots /\ referred \subseteq Slots
  BY DEF IInv, BookingsKeepTheirSlot
<1>4. ASSUME NEW s \in Slots, BookSlot(s)
      PROVE  IInv'
  <2>1. /\ kept' = kept \cup {s} /\ UNCHANGED <<court, rules, job, calm, twice, referred>>
        /\ slots' = [slots EXCEPT ![s] = PriceAt(court.base, rules, StartOf(s))]
    BY <1>4 DEF BookSlot
  <2>2. Slots' = Slots /\ \A u \in Slots \ kept' : slots'[u] = slots[u]
    BY <2>1 DEF Slots
  <2> QED
    BY <1>1, <1>3, <2>1, <2>2
<1>5. ASSUME NEW s \in Slots, NEW t \in Slots, BookRange(s, t)
      PROVE  IInv'
  <2> DEFINE range == {u \in Slots : StartOf(s) <= StartOf(u) /\ StartOf(u) < StartOf(t)}
  <2>1. /\ kept' = kept \cup range /\ UNCHANGED <<court, rules, job, calm, twice, referred>>
        /\ slots' = [u \in Slots |-> IF u \in range THEN PriceAt(0, rules, StartOf(u))
                                                     ELSE slots[u]]
    BY <1>5 DEF BookRange
  <2>2. range \subseteq Slots
    OBVIOUS
  <2> HIDE DEF range
  <2>3. Slots' = Slots /\ \A u \in Slots \ kept' : slots'[u] = slots[u]
    BY <2>1 DEF Slots
  <2> QED
    BY <1>1, <1>3, <2>1, <2>2, <2>3
<1>6. ASSUME NEW s \in Slots, Release(s)
      PROVE  IInv'
  <2>1. /\ kept' = kept \ {s} /\ referred' = referred \cup {s} /\ calm' = {}
        /\ UNCHANGED <<slots, job, twice>>
    BY <1>6 DEF Release
  <2>2. Slots' = Slots
    BY <2>1 DEF Slots
  <2> QED
    BY <1>2, <1>3, <2>1, <2>2
<1>7. ASSUME NEW s \in Slots, NEW t \in Slots, Move(s, t)
      PROVE  IInv'
  <2>1. /\ kept' = (kept \ {s}) \cup {t} /\ calm' = {}
        /\ slots' \in {slots, [slots EXCEPT ![t] = PriceAt(court.base, rules, StartOf(t))]}
        /\ UNCHANGED <<referred, job, twice>>
    BY <1>7 DEF Move
  <2>2. Slots' = Slots
    BY <2>1 DEF Slots
  <2> QED
    BY <1>2, <1>3, <2>1, <2>2
<1> QED
  BY <1>4, <1>5, <1>6, <1>7

\* Every step keeps the invariant.
LEMMA StepKeeps == IInv /\ [Next]_vars => IInv'
<1> SUFFICES ASSUME IInv, [Next]_vars
             PROVE  IInv'
  OBVIOUS
<1>1. CASE UNCHANGED vars
  <2>1. UNCHANGED <<court, rules, slots, kept, referred, job, calm, twice>>
    BY <1>1 DEF vars
  <2>2. Slots' = Slots
    BY <2>1 DEF Slots
  <2>3. BookingsKeepTheirSlot' /\ DuplicatesNeedRacingViews'
    BY <2>1, <2>2, FewerSlots DEF IInv, BookingsKeepTheirSlot
  <2>4. \A q \in calm : q \in Requests /\ UpToDate(q)
    BY DEF IInv, Shape, CalmIsUpToDate
  <2>5. CalmIsUpToDate'
    BY <2>1, <2>2, <2>4, StaysUpToDate DEF CalmIsUpToDate
  <2> QED
    BY <2>1, <2>3, <2>5 DEF IInv, Shape
<1> QED
  BY <1>1, ViewKeeps, RepriceKeeps, AdministrationKeeps, BookingKeeps DEF Next

-----------------------------------------------------------------------------

\* The invariant holds for any constants.
THEOREM InvariantHolds == Spec => []IInv
<1>1. Init => IInv
  BY DEF Init, IInv, Shape, BookingsKeepTheirSlot, DuplicatesNeedRacingViews,
         CalmIsUpToDate, Slots
<1> QED
  BY <1>1, StepKeeps, PTL DEF Spec

\* BookingsKeepTheirSlot: new opening hours never take the slot of a booking, be it
\* active or canceled, whatever else is going on.
THEOREM SlotsOutliveTheirBookings == Spec => []BookingsKeepTheirSlot
<1>1. IInv => BookingsKeepTheirSlot
  BY DEF IInv
<1> QED
  BY <1>1, InvariantHolds, PTL

\* DuplicatesNeedRacingViews: views that follow each other never double a slot.
THEOREM OnlyRacingViewsDouble == Spec => []DuplicatesNeedRacingViews
<1>1. IInv => DuplicatesNeedRacingViews
  BY DEF IInv
<1> QED
  BY <1>1, InvariantHolds, PTL

\* The repricing of a request that nothing has disturbed ends right.
LEMMA StepEndsRight ==
  ASSUME IInv, [Next]_vars, NEW r \in Requests,
         job[r].stage \in {"list", "prices", "write"}, job'[r] = Idle, r \in calm',
         NEW s \in Free'
  PROVE  slots'[s] = PriceAt(court.base, rules, StartOf(s))'
<1>1. job[r] # Idle
  BY DEF Idle
<1>2. PICK q \in Requests :
        \/ ViewDay(q) \/ ReadRules(q) \/ ReadExisting(q) \/ BulkCreate(q)
        \/ RepriceReadsCourt(q) \/ RepriceLists(q) \/ RepriceReadsRules(q) \/ RepriceWrites(q)
        \/ UpdateCourt(q) \/ SaveCourt(q) \/ DeleteFutureUnbooked(q) \/ WriteRules(q)
        \/ Abandon(q)
  BY <1>1 DEF Next, vars, BookSlot, BookRange, Release, Move
<1>3. PICK j : Goto(q, j)
  BY <1>2 DEF ViewDay, ReadRules, ReadExisting, BulkCreate, RepriceReadsCourt, RepriceLists,
              RepriceReadsRules, RepriceWrites, UpdateCourt, SaveCourt, DeleteFutureUnbooked,
              WriteRules, Abandon
<1>4. q = r
  BY <1>1, <1>3, OneJob DEF IInv
<1>5. job[r].stage \notin {"idle", "rules", "existing", "insert", "court", "save", "delete"}
  OBVIOUS
<1>6. ~Abandon(r)
  BY DEF Abandon
<1>7. RepriceLists(r) \/ RepriceReadsRules(r) \/ RepriceWrites(r)
  BY <1>2, <1>4, <1>5, <1>6 DEF ViewDay, UpdateCourt, WriteRules, Starting, Idle, At,
     ReadRules, ReadExisting, BulkCreate, RepriceReadsCourt, SaveCourt, DeleteFutureUnbooked
<1>8. job'[r].stage = "idle"
  BY DEF Idle
<1>9. CASE RepriceLists(r)
  <2>1. FutureUnbooked = {}
    BY <1>3, <1>4, <1>8, <1>9, OneJob DEF RepriceLists, IInv
  <2>2. Free' = {}
    BY <1>9, <2>1 DEF RepriceLists, Reads, tables, Free, FutureUnbooked, Slots
  <2> QED
    BY <2>2
<1>10. CASE RepriceReadsRules(r)
  <2> DEFINE listed   == job[r].listed
             price(u) == PriceAt(job[r].base, rules, StartOf(u))
             changed  == {u \in DOMAIN listed : listed[u] # price(u)}
             k == IF changed = {} THEN Idle
                  ELSE [stage |-> "write", prices |-> [u \in changed |-> price(u)]]
  <2>1. Goto(r, k) /\ UNCHANGED <<tables, calm>> /\ At(r, "prices")
    BY <1>10 DEF RepriceReadsRules, Reads
  <2>2. job'[r] = k
    BY <2>1, OneJob DEF IInv
  <2>3. changed = {}
    BY <1>8, <2>2
  <2>4. UNCHANGED <<court, rules, slots, kept>> /\ s \in Free /\ r \in calm
    BY <2>1 DEF tables, Free, Slots
  <2>5. s \in DOMAIN listed /\ listed[s] = slots[s] /\ job[r].base = court.base
    BY <2>1, <2>4 DEF IInv, CalmIsUpToDate, UpToDate
  <2> QED
    BY <2>3, <2>4, <2>5
<1>11. CASE RepriceWrites(r)
  <2> DEFINE prices == job[r].prices
  <2>1. PICK w \in DOMAIN prices :
          /\ slots' = [u \in Slots |-> IF u = w THEN prices[w] ELSE slots[u]]
          /\ Goto(r, IF DOMAIN prices = {w} THEN Idle
                     ELSE [stage |-> "write", prices |-> [u \in DOMAIN prices \ {w} |-> prices[u]]])
    BY <1>11 DEF RepriceWrites
  <2>2. DOMAIN prices = {w}
    BY <1>8, <2>1, OneJob DEF IInv
  <2>3. At(r, "write") /\ r \in calm /\ UNCHANGED <<court, rules, kept>>
    BY <1>11 DEF RepriceWrites, Disturbs
  <2>4. s \in Free /\ s \in Slots /\ slots'[s] = IF s = w THEN prices[w] ELSE slots[s]
    BY <2>1, <2>3 DEF Free, Slots
  <2>5. IF s \in DOMAIN prices THEN prices[s] = CurrentPrice(s) ELSE slots[s] = CurrentPrice(s)
    BY <2>3, <2>4 DEF IInv, CalmIsUpToDate, UpToDate
  <2> QED
    BY <2>2, <2>3, <2>4, <2>5 DEF CurrentPrice
<1> QED
  BY <1>7, <1>9, <1>10, <1>11

\* UndisturbedRepricingIsRight for any opening hours, prices and rules.
THEOREM RepricingIsRight == Spec => UndisturbedRepricingIsRight
<1>1. IInv /\ [Next]_vars =>
        [\A r \in Requests :
           /\ job[r].stage \in {"list", "prices", "write"} /\ job'[r] = Idle
           /\ r \in calm'
           => \A s \in Free' : slots'[s] = PriceAt(court.base, rules, StartOf(s))']_vars
  BY StepEndsRight
<1> QED
  BY <1>1, InvariantHolds, PTL DEF Spec, UndisturbedRepricingIsRight
-----------------------------------------------------------------------------
(* Prices are natural numbers.                                             *)

Best == [priority: Int, id: Int, price: Nat]

First(base) == [priority |-> -1, id |-> 0, price |-> base]

Better(best, r, date, clock) ==
  IF Applies(r, date, clock) /\ Supersedes(r, best)
  THEN [priority |-> r.priority, id |-> r.id, price |-> r.price]
  ELSE best

IsLoop(base, list, date, clock, g) ==
  g = [T \in SUBSET (DOMAIN list) |->
         IF T = {} THEN First(base) ELSE Better(g[T \ {Max(T)}], list[Max(T)], date, clock)]

LEMMA ResolveIsLoop ==
  ASSUME NEW base, NEW list, NEW date, NEW clock, \E g : IsLoop(base, list, date, clock, g)
  PROVE  \E g : /\ IsLoop(base, list, date, clock, g)
                /\ ResolveRulePrice(base, date, clock, list) = g[DOMAIN list].price
<1> DEFINE g == CHOOSE h : IsLoop(base, list, date, clock, h)
<1>1. IsLoop(base, list, date, clock, g)
  OBVIOUS
<1>2. ResolveRulePrice(base, date, clock, list) = g[DOMAIN list].price
  BY DEF ResolveRulePrice, FoldLeft, MapThenFoldSet, IsLoop, Better, First
<1> QED BY <1>1, <1>2

LEMMA RuleNumbers ==
  ASSUME NEW r \in Rule
  PROVE  r.priority \in Int /\ r.id \in Int /\ r.price \in Nat
BY DEF Rule

\* A function that the loop is stays within its type.
LEMMA LoopIsTyped ==
  ASSUME NEW base \in Nat, NEW list \in Seq(Rule), NEW date, NEW clock
  PROVE  /\ \E g : IsLoop(base, list, date, clock, g)
         /\ \A g : IsLoop(base, list, date, clock, g) => g[DOMAIN list].price \in Nat
<1>1. PICK n \in Nat : n = Len(list) /\ DOMAIN list = 1..n
  OBVIOUS
<1>2. PICK S, A, first, c, G : /\ S = 1..n /\ A = Best /\ first = First(base)
                               /\ c = [T \in SUBSET S |-> Max(T)]
                               /\ G = [p \in S \X A |-> Better(p[2], list[p[1]], date, clock)]
  OBVIOUS
<1>3. IsFiniteSet(S)
  BY <1>2, FS_Interval
<1>4. \A T \in SUBSET S : T # {} => c[T] \in T
  BY <1>2, MaxIn
<1>5. \A k \in S, a \in A : G[<<k, a>>] = Better(a, list[k], date, clock)
  BY <1>2
<1>6. \A k \in S, a \in A : G[<<k, a>>] \in A
  <2> TAKE k \in S, a \in A
  <2>1. list[k] \in Rule
    BY <1>1, <1>2
  <2>2. list[k].priority \in Int /\ list[k].id \in Int /\ list[k].price \in Nat
    BY <2>1, RuleNumbers
  <2>3. Better(a, list[k], date, clock) \in Best
    BY <1>2, <2>2 DEF Better, Best
  <2> QED BY <1>2, <1>5, <2>3
<1>7. first \in A
  BY <1>2 DEF First, Best
<1>8. ASSUME NEW g, g \in [SUBSET S -> A]
      PROVE  IsFold(first, c, G, S, g) <=> IsLoop(base, list, date, clock, g)
  <2>1. ASSUME NEW T \in SUBSET S, T # {}
        PROVE  G[<<c[T], g[T \ {c[T]}]>>] = Better(g[T \ {Max(T)}], list[Max(T)], date, clock)
    <3>1. c[T] = Max(T) /\ c[T] \in S
      BY <1>2, <1>4, <2>1
    <3>2. g[T \ {c[T]}] \in A
      BY <1>8
    <3> QED BY <1>5, <3>1, <3>2
  <2>2. [T \in SUBSET S |-> IF T = {} THEN first ELSE G[<<c[T], g[T \ {c[T]}]>>]]
        = [T \in SUBSET S |-> IF T = {} THEN First(base)
                              ELSE Better(g[T \ {Max(T)}], list[Max(T)], date, clock)]
    BY <1>2, <2>1
  <2>3. DOMAIN list = S
    BY <1>1, <1>2
  <2> QED BY <2>2, <2>3, Zenon DEF IsFold, IsLoop
<1>9. PICK g : IsFold(first, c, G, S, g)
  BY <1>3, <1>4, FoldExists
<1>10. g \in [SUBSET S -> A]
  BY <1>3, <1>4, <1>6, <1>7, <1>9, FoldTyped
<1>11. IsLoop(base, list, date, clock, g)
  BY <1>8, <1>9, <1>10
<1>12. ASSUME NEW h, IsLoop(base, list, date, clock, h) PROVE h[DOMAIN list].price \in Nat
  <2>1. \A T \in SUBSET S : h[T] = IF T = {} THEN First(base)
                                   ELSE Better(h[T \ {Max(T)}], list[Max(T)], date, clock)
    BY <1>1, <1>2, <1>12 DEF IsLoop
  <2>2. PICK F : F = {T \in SUBSET S : h[T] \in A}
    OBVIOUS
  <2>3. ASSUME NEW T \in SUBSET S, \A U \in SUBSET T : U # T => U \in F PROVE T \in F
    <3>1. CASE T = {}
      BY <1>2, <1>7, <2>1, <2>2, <3>1
    <3>2. CASE T # {}
      <4>1. Max(T) \in T /\ Max(T) \in S
        BY <1>2, <1>4, <3>2
      <4>2. T \ {Max(T)} \in F
        BY <2>3, <4>1
      <4>3. h[T \ {Max(T)}] \in A
        BY <2>2, <4>2
      <4>4. h[T] = G[<<Max(T), h[T \ {Max(T)}]>>]
        BY <1>5, <2>1, <3>2, <4>1, <4>3
      <4>5. h[T] \in A
        BY <1>6, <4>1, <4>3, <4>4
      <4> QED BY <2>2, <4>5
    <3> QED BY <3>1, <3>2
  <2>4. F \subseteq SUBSET S
    BY <2>2
  <2>5. F = SUBSET S
    BY <1>3, <2>3, <2>4, FiniteSubsetInduction
  <2>6. h[DOMAIN list] \in Best
    BY <1>1, <1>2, <2>2, <2>5
  <2> QED BY <2>6 DEF Best
<1> QED BY <1>11, <1>12

\* The rules in effect can be listed.
LEMMA ListIsTyped ==
  ASSUME NEW table \in RuleTables, NEW date
  PROVE  ListActive(table, date) \in Seq(Rule)
<1>1. PICK S : S = InEffect(table, date)
  OBVIOUS
<1>2. S \subseteq table /\ IsFiniteSet(S)
  <2>1. S \subseteq table
    BY <1>1 DEF InEffect
  <2> QED BY <2>1, TablesAssumption, FS_Subset
<1>3. /\ \A x \in S : x \in Rule
      /\ \A x, y \in S : x.id = y.id => x = y
  BY <1>2, TablesAssumption
<1>4. \A x \in S : x.priority \in Int /\ x.id \in Int
  BY <1>3, RuleNumbers
<1>5. PICK R : R = {p \in S \X S : Ahead(p[1], p[2])}
  OBVIOUS
<1>6. \A x, y \in S : <<x, y>> \in R <=> Ahead(x, y)
  BY <1>5
<1>7. /\ \A x \in S : <<x, x>> \notin R
      /\ \A x, y \in S : x = y \/ <<x, y>> \in R \/ <<y, x>> \in R
      /\ \A x, y, z \in S : <<x, y>> \in R /\ <<y, z>> \in R => <<x, z>> \in R
  <2>1. \A x \in S : ~Ahead(x, x)
    BY <1>4 DEF Ahead
  <2>2. \A x, y \in S : x = y \/ Ahead(x, y) \/ Ahead(y, x)
    BY <1>3, <1>4 DEF Ahead
  <2>3. \A x, y, z \in S : Ahead(x, y) /\ Ahead(y, z) => Ahead(x, z)
    BY <1>4 DEF Ahead
  <2> QED BY <1>6, <2>1, <2>2, <2>3
<1>8. PICK list \in SetToSeqs(S) : \A i, j \in DOMAIN list : i < j => <<list[i], list[j]>> \in R
  BY <1>2, <1>7, SortedExists
<1>9. \A i, j \in DOMAIN list : i < j => Ahead(list[i], list[j])
  <2>1. \A i \in DOMAIN list : list[i] \in S
    BY <1>2, SeqOfSet
  <2> QED BY <1>6, <1>8, <2>1
<1>10. ListActive(table, date) \in SetToSeqs(S)
  <2>1. ListActive(table, date)
          = CHOOSE l \in SetToSeqs(S) : \A i, j \in DOMAIN l : i < j => Ahead(l[i], l[j])
    BY <1>1, Zenon DEF ListActive
  <2> QED BY <1>9, <2>1
<1>11. PICK chosen : chosen = ListActive(table, date)
  OBVIOUS
<1>12. chosen \in Seq(S)
  BY <1>2, <1>10, <1>11, SeqOfSet
<1>13. \A i \in DOMAIN chosen : chosen[i] \in Rule
  BY <1>3, <1>12
<1> QED BY <1>11, <1>12, <1>13

LEMMA PriceIsTyped ==
  ASSUME NEW base \in Nat, NEW table \in RuleTables, NEW start
  PROVE  PriceAt(base, table, start) \in Nat
<1>1. PICK list \in Seq(Rule) : list = ListActive(table, Day)
  BY ListIsTyped
<1>2. \E g : IsLoop(base, list, Day, start, g)
  BY LoopIsTyped
<1>3. PICK g : /\ IsLoop(base, list, Day, start, g)
               /\ ResolveRulePrice(base, Day, start, list) = g[DOMAIN list].price
  BY <1>2, ResolveIsLoop
<1>4. g[DOMAIN list].price \in Nat
  BY <1>3, LoopIsTyped
<1> QED BY <1>1, <1>3, <1>4 DEF PriceAt

-----------------------------------------------------------------------------
(* Types.                                                                  *)

\* A step of a request is of the right type if what the request goes on to carry is.
LEMMA JobsTyped ==
  ASSUME Shape, \A q \in Requests : IsJob(job[q]), NEW r \in Requests, NEW j, IsJob(j), Goto(r, j)
  PROVE  \A q \in Requests : IsJob(job'[q])
<1>1. job'[r] = j /\ \A q \in Requests \ {r} : job'[q] = job[q]
  BY OneJob
<1> QED BY <1>1

\* The stages at which a request carries no slots.
LEMMA PlainJob ==
  ASSUME NEW j \in Jobs
  PROVE  IsJob(j)
<1>1. j.stage \notin {"insert", "prices", "write"}
  BY DEF Jobs, Idle
<1> QED BY <1>1 DEF IsJob

LEMMA JobIsPlain ==
  ASSUME NEW j, IsJob(j), j.stage \notin {"insert", "prices", "write"}
  PROVE  j \in Jobs
BY DEF IsJob

\* A price for each member of a set.
LEMMA PricesGiven ==
  ASSUME NEW S, NEW T \in SUBSET S, NEW f, f = [x \in T |-> f[x]], \A x \in T : f[x] \in Nat
  PROVE  Prices(f, S)
BY DEF Prices

LEMMA StartsAreSlots ==
  ASSUME NEW t \in Starts, NEW n \in 1..MaxCopies
  PROVE  <<t, n>> \in SlotIds
<1>1. PICK h \in Hours : t \in StartsOf(h)
  BY DEF Starts
<1>2. h.open \in Nat /\ h.close \in Nat
  BY HoursAssumption
<1>3. h.open <= t /\ t + Interval <= h.close
  BY <1>1, <1>2 DEF StartsOf
<1> QED BY <1>3 DEF SlotIds, StartOf

\* The prices of a repricing and of a view are natural numbers.
LEMMA CourtBase ==
  ASSUME NEW c \in Court
  PROVE  c.hours \in Hours /\ c.base \in Nat /\ c.base \in BasePrices
BY PricesAssumption DEF Court

LEMMA TypeInit == Init => TypeOK
<1> SUFFICES ASSUME Init PROVE TypeOK
  OBVIOUS
<1>1. court \in Court
  BY DEF Init, Court
<1>2. rules \in RuleTables
  BY TablesAssumption DEF Init
<1>3. Prices(slots, SlotIds)
  BY DEF Init, Prices
<1>4. copies \in [Starts -> 0..MaxCopies] /\ started \in 0..MaxRequests
  BY IntervalAssumption DEF Init
<1>5. \A r \in Requests : IsJob(job[r])
  BY PlainJob DEF Init, Jobs
<1> QED BY <1>1, <1>2, <1>3, <1>4, <1>5 DEF Init, TypeOK

\* The steps of a view, of a repricing, and of an administrator.
LEMMA ReadsTyped ==
  ASSUME TypeOK, Shape, NEW r \in Requests, NEW j, IsJob(j), Goto(r, j), UNCHANGED tables,
         started' \in {started, started + 1}, started' <= MaxRequests,
         calm' \subseteq calm \cup {r}, twice' = twice
  PROVE  TypeOK'
<1>1. \A q \in Requests : IsJob(job'[q])
  BY JobsTyped DEF TypeOK
<1>2. started' \in 0..MaxRequests
  BY IntervalAssumption DEF TypeOK
<1>3. (court \in Court /\ rules \in RuleTables /\ Prices(slots, SlotIds)
       /\ copies \in [Starts -> 0..MaxCopies])'
  BY DEF TypeOK, tables
<1> QED BY <1>1, <1>2, <1>3 DEF TypeOK

LEMMA StartedTyped ==
  ASSUME TypeOK
  PROVE  /\ started <= MaxRequests /\ started \in Nat
         /\ \A r : Starting(r) => started' = started + 1 /\ started' <= MaxRequests
BY IntervalAssumption DEF TypeOK, Starting

LEMMA ViewTyped ==
  ASSUME TypeOK, Shape, NEW r \in Requests, ViewDay(r) \/ ReadRules(r) \/ ReadExisting(r)
  PROVE  TypeOK'
<1>1. CASE ViewDay(r)
  <2>1. PICK j : j = [stage |-> "rules", court |-> court]
    OBVIOUS
  <2>2. j \in Jobs
    BY <2>1 DEF Jobs, TypeOK
  <2>3. Goto(r, j) /\ calm' = calm \cup {r} /\ UNCHANGED <<tables, twice>>
        /\ started' = started + 1 /\ started' <= MaxRequests
    BY <1>1, <2>1, StartedTyped DEF ViewDay
  <2> QED BY <2>2, <2>3, PlainJob, ReadsTyped
<1>2. CASE ReadRules(r)
  <2>1. PICK j : j = [stage |-> "existing", court |-> job[r].court, rules |-> rules]
    OBVIOUS
  <2>2. job[r] \in Jobs /\ job[r].stage = "rules"
    BY <1>2, JobIsPlain DEF ReadRules, At, TypeOK
  <2>3. job[r].court \in Court
    BY <2>2 DEF Jobs, Idle
  <2>4. j \in Jobs
    BY <2>1, <2>3 DEF Jobs, TypeOK
  <2>5. Goto(r, j) /\ UNCHANGED <<tables, started, calm, twice>>
    BY <1>2, <2>1 DEF ReadRules, Reads
  <2> QED BY <2>4, <2>5, PlainJob, StartedTyped, ReadsTyped
<1>3. CASE ReadExisting(r)
  <2>1. job[r] \in Jobs /\ job[r].stage = "existing"
    BY <1>3, JobIsPlain DEF ReadExisting, At, TypeOK
  <2>2. job[r].court \in Court /\ job[r].rules \in RuleTables
    BY <2>1 DEF Jobs, Idle
  <2>3. PICK T : T = Absent(job[r].court.hours)
    OBVIOUS
  <2>4. T \subseteq Starts
    BY <2>2, <2>3, CourtBase DEF Absent, Starts
  <2>5. PICK f : f = [t \in T |-> PriceAt(job[r].court.base, job[r].rules, t)]
    OBVIOUS
  <2>6. \A t \in T : f[t] \in Nat
    BY <2>2, <2>5, CourtBase, PriceIsTyped
  <2>7. Prices(f, Starts)
    BY <2>4, <2>5, <2>6, PricesGiven
  <2>8. PICK j : j = [stage |-> "insert", missing |-> f]
    OBVIOUS
  <2>9. IsJob(j)
    BY <2>7, <2>8 DEF IsJob
  <2>10. Goto(r, j) /\ UNCHANGED <<tables, started, calm, twice>>
    BY <1>3, <2>3, <2>5, <2>8 DEF ReadExisting, Reads
  <2> QED BY <2>9, <2>10, StartedTyped, ReadsTyped
<1> QED BY <1>1, <1>2, <1>3

LEMMA BulkCreateTyped ==
  ASSUME TypeOK, Shape, NEW r \in Requests, BulkCreate(r)
  PROVE  TypeOK'
<1>1. PICK missing : missing = job[r].missing
  OBVIOUS
<1>2. Prices(missing, Starts)
  BY <1>1 DEF BulkCreate, At, TypeOK, IsJob
<1>3. PICK new : new = {<<t, copies[t] + 1>> : t \in DOMAIN missing}
  OBVIOUS
<1>4. /\ \A t \in DOMAIN missing : copies[t] < MaxCopies
      /\ slots' = [s \in Slots \cup new |-> IF s \in new THEN missing[StartOf(s)] ELSE slots[s]]
      /\ copies' = [t \in Starts |-> IF t \in DOMAIN missing THEN copies[t] + 1 ELSE copies[t]]
      /\ twice' = IF r \in calm THEN twice ELSE twice \cup new
      /\ calm' \subseteq calm \cup {r}
      /\ Goto(r, [stage |-> "court"])
      /\ UNCHANGED <<court, rules, started>>
  BY <1>1, <1>3 DEF BulkCreate, Disturbs
<1>5. /\ DOMAIN missing \subseteq Starts /\ \A t \in DOMAIN missing : missing[t] \in Nat
      /\ \A t \in Starts : copies[t] \in 0..MaxCopies
  BY <1>2 DEF Prices, TypeOK
<1>6. ASSUME NEW t \in DOMAIN missing
      PROVE  copies[t] + 1 \in 1..MaxCopies
  <2>1. copies[t] \in 0..MaxCopies /\ copies[t] < MaxCopies
    BY <1>4, <1>5
  <2> QED BY <2>1, IntervalAssumption
<1>7. new \subseteq SlotIds
  BY <1>3, <1>5, <1>6, StartsAreSlots
<1>8. \A s \in new : StartOf(s) \in DOMAIN missing
  BY <1>3 DEF StartOf
<1>9. Slots \subseteq SlotIds /\ \A s \in Slots : slots[s] \in Nat
  BY DEF TypeOK, Prices, Slots
<1>10. Prices(slots', SlotIds)
  <2>1. PICK T \in SUBSET SlotIds : T = Slots \cup new
    BY <1>7, <1>9
  <2>2. slots' = [s \in T |-> slots'[s]] /\ \A s \in T : slots'[s] \in Nat
    BY <1>4, <1>5, <1>8, <1>9, <2>1
  <2>3. PICK f : f = slots'
    OBVIOUS
  <2>4. Prices(f, SlotIds)
    BY <2>2, <2>3, PricesGiven
  <2> QED BY <2>3, <2>4
<1>11. copies' \in [Starts -> 0..MaxCopies]
  <2>1. \A t \in Starts : (IF t \in DOMAIN missing THEN copies[t] + 1 ELSE copies[t]) \in 0..MaxCopies
    BY <1>5, <1>6
  <2> QED BY <1>4, <2>1
<1>12. \A q \in Requests : IsJob(job'[q])
  <2>1. PICK j : j = [stage |-> "court"]
    OBVIOUS
  <2>2. j \in Jobs
    BY <2>1 DEF Jobs
  <2> QED BY <1>4, <2>1, <2>2, PlainJob, JobsTyped DEF TypeOK
<1>13. twice' \subseteq SlotIds
  BY <1>4, <1>7 DEF TypeOK
<1> QED BY <1>4, <1>10, <1>11, <1>12, <1>13 DEF TypeOK

LEMMA RepricesTyped ==
  ASSUME TypeOK, Shape, NEW r \in Requests,
         RepriceReadsCourt(r) \/ RepriceLists(r) \/ RepriceReadsRules(r)
  PROVE  TypeOK'
<1>0. Idle \in Jobs
  BY DEF Jobs
<1>1. CASE RepriceReadsCourt(r)
  <2>1. PICK j : j = [stage |-> "list", base |-> court.base]
    OBVIOUS
  <2>2. j \in Jobs
    BY <2>1, CourtBase DEF Jobs, TypeOK
  <2>3. Goto(r, j) /\ UNCHANGED <<tables, started, calm, twice>>
    BY <1>1, <2>1 DEF RepriceReadsCourt, Reads
  <2> QED BY <2>2, <2>3, PlainJob, StartedTyped, ReadsTyped
<1>2. CASE RepriceLists(r)
  <2>1. job[r] \in Jobs /\ job[r].stage = "list"
    BY <1>2, JobIsPlain DEF RepriceLists, At, TypeOK
  <2>2. job[r].base \in BasePrices
    BY <2>1 DEF Jobs, Idle
  <2>3. PICK f : f = [s \in FutureUnbooked |-> slots[s]]
    OBVIOUS
  <2>4. FutureUnbooked \subseteq SlotIds /\ \A s \in FutureUnbooked : f[s] \in Nat
    BY <2>3 DEF TypeOK, Prices, FutureUnbooked, Slots
  <2>5. Prices(f, SlotIds)
    BY <2>3, <2>4, PricesGiven
  <2>6. PICK j : j = IF FutureUnbooked = {} THEN Idle
                     ELSE [stage |-> "prices", base |-> job[r].base, listed |-> f]
    OBVIOUS
  <2>7. IsJob(j)
    BY <1>0, <2>2, <2>5, <2>6, PlainJob DEF IsJob
  <2>8. Goto(r, j) /\ UNCHANGED <<tables, started, calm, twice>>
    BY <1>2, <2>3, <2>6 DEF RepriceLists, Reads
  <2> QED BY <2>7, <2>8, StartedTyped, ReadsTyped
<1>3. CASE RepriceReadsRules(r)
  <2>1. /\ job[r].base \in BasePrices /\ Prices(job[r].listed, SlotIds)
    BY <1>3 DEF RepriceReadsRules, At, TypeOK, IsJob
  <2>2. PICK T : T = {s \in DOMAIN job[r].listed :
                        job[r].listed[s] # PriceAt(job[r].base, rules, StartOf(s))}
    OBVIOUS
  <2>3. T \subseteq SlotIds
    BY <2>1, <2>2 DEF Prices
  <2>4. PICK f : f = [s \in T |-> PriceAt(job[r].base, rules, StartOf(s))]
    OBVIOUS
  <2>5. \A s \in T : f[s] \in Nat
    BY <2>1, <2>4, PricesAssumption, PriceIsTyped DEF TypeOK
  <2>6. Prices(f, SlotIds)
    BY <2>3, <2>4, <2>5, PricesGiven
  <2>7. PICK j : j = IF T = {} THEN Idle ELSE [stage |-> "write", prices |-> f]
    OBVIOUS
  <2>8. IsJob(j)
    BY <1>0, <2>6, <2>7, PlainJob DEF IsJob
  <2>9. Goto(r, j) /\ UNCHANGED <<tables, started, calm, twice>>
    BY <1>3, <2>2, <2>4, <2>7 DEF RepriceReadsRules, Reads
  <2> QED BY <2>8, <2>9, StartedTyped, ReadsTyped
<1> QED BY <1>1, <1>2, <1>3

LEMMA RepriceWritesTyped ==
  ASSUME TypeOK, Shape, NEW r \in Requests, RepriceWrites(r)
  PROVE  TypeOK'
<1>1. PICK prices : prices = job[r].prices
  OBVIOUS
<1>2. Prices(prices, SlotIds)
  BY <1>1 DEF RepriceWrites, At, TypeOK, IsJob
<1>3. PICK s \in DOMAIN prices :
        /\ slots' = [u \in Slots |-> IF u = s THEN prices[s] ELSE slots[u]]
        /\ Goto(r, IF DOMAIN prices = {s} THEN Idle
                   ELSE [stage |-> "write", prices |-> [u \in DOMAIN prices \ {s} |-> prices[u]]])
  BY <1>1 DEF RepriceWrites
<1>4. calm' \subseteq calm /\ UNCHANGED <<court, rules, copies, started, twice>>
  BY DEF RepriceWrites, Disturbs
<1>5. Slots \subseteq SlotIds /\ (\A u \in Slots : slots[u] \in Nat) /\ prices[s] \in Nat
  BY <1>2 DEF TypeOK, Prices, Slots
<1>6. Prices(slots', SlotIds)
  <2>1. PICK f, T : f = slots' /\ T = Slots
    OBVIOUS
  <2>2. f = [u \in T |-> f[u]] /\ \A u \in T : f[u] \in Nat
    BY <1>3, <1>5, <2>1
  <2>3. Prices(f, SlotIds)
    BY <1>5, <2>1, <2>2, PricesGiven
  <2> QED BY <2>1, <2>3
<1>7. \A q \in Requests : IsJob(job'[q])
  <2>1. PICK f : f = [u \in DOMAIN prices \ {s} |-> prices[u]]
    OBVIOUS
  <2>2. Prices(f, SlotIds)
    <3>1. PICK T \in SUBSET SlotIds : T = DOMAIN prices \ {s}
      BY <1>2 DEF Prices
    <3>2. f = [u \in T |-> f[u]] /\ \A u \in T : f[u] \in Nat
      BY <1>2, <2>1, <3>1 DEF Prices
    <3> QED BY <3>2, PricesGiven
  <2>3. PICK j : j = IF DOMAIN prices = {s} THEN Idle ELSE [stage |-> "write", prices |-> f]
    OBVIOUS
  <2>4. Idle \in Jobs
    BY DEF Jobs
  <2>5. IsJob(j)
    BY <2>2, <2>3, <2>4, PlainJob DEF IsJob
  <2>6. Goto(r, j)
    BY <1>3, <2>1, <2>3
  <2> QED BY <2>5, <2>6, JobsTyped DEF TypeOK
<1> QED BY <1>4, <1>6, <1>7 DEF TypeOK

LEMMA AdministrationTyped ==
  ASSUME TypeOK, Shape, NEW r \in Requests,
         UpdateCourt(r) \/ SaveCourt(r) \/ DeleteFutureUnbooked(r) \/ WriteRules(r) \/ Abandon(r)
  PROVE  TypeOK'
<1>0. PICK idle, reprice : idle = Idle /\ reprice = [stage |-> "court"]
  OBVIOUS
<1>00. idle \in Jobs /\ reprice \in Jobs
  BY <1>0 DEF Jobs
<1>1. CASE UpdateCourt(r)
  <2>1. PICK next \in Court : Goto(r, [stage |-> "save", court |-> next,
                                  hoursChanged |-> next.hours # court.hours,
                                  priceChanged |-> next.base # court.base])
    BY <1>1 DEF UpdateCourt
  <2>2. PICK j : j = [stage |-> "save", court |-> next, hoursChanged |-> next.hours # court.hours,
                      priceChanged |-> next.base # court.base]
    OBVIOUS
  <2>3. j \in Jobs
    BY <2>2 DEF Jobs
  <2>4. Goto(r, j) /\ calm' = calm \cup {r} /\ UNCHANGED <<tables, twice>>
        /\ started' = started + 1 /\ started' <= MaxRequests
    BY <1>1, <2>1, <2>2, StartedTyped DEF UpdateCourt
  <2> QED BY <2>3, <2>4, PlainJob, ReadsTyped
<1>2. CASE SaveCourt(r)
  <2>1. job[r] \in Jobs /\ job[r].stage = "save"
    BY <1>2, JobIsPlain DEF SaveCourt, At, TypeOK
  <2>2. job[r].court \in Court /\ job[r].priceChanged \in BOOLEAN
    BY <2>1 DEF Jobs, Idle
  <2>3. PICK j : j = [stage |-> "delete", priceChanged |-> job[r].priceChanged]
    OBVIOUS
  <2>4. j \in Jobs
    BY <2>2, <2>3 DEF Jobs
  <2>5. Goto(r, j) \/ Goto(r, reprice) \/ Goto(r, idle)
    BY <1>0, <1>2, <2>3 DEF SaveCourt
  <2>6. \A q \in Requests : IsJob(job'[q])
    BY <1>00, <2>4, <2>5, PlainJob, JobsTyped DEF TypeOK
  <2>7. court' \in Court /\ UNCHANGED <<rules, slots, copies, started, twice>> /\ calm' \subseteq calm
    BY <1>2, <2>2 DEF SaveCourt, Disturbs
  <2> QED BY <2>6, <2>7 DEF TypeOK, Prices
<1>3. CASE DeleteFutureUnbooked(r)
  <2>1. Goto(r, reprice) \/ Goto(r, idle)
    BY <1>0, <1>3 DEF DeleteFutureUnbooked
  <2>2. \A q \in Requests : IsJob(job'[q])
    BY <1>00, <2>1, PlainJob, JobsTyped DEF TypeOK
  <2>3. UNCHANGED <<court, rules, copies, started, twice>> /\ calm' \subseteq calm
        /\ slots' = [s \in Slots \ FutureUnbooked |-> slots[s]]
    BY <1>3 DEF DeleteFutureUnbooked, Disturbs
  <2>4. PICK f, T : f = slots' /\ T = Slots \ FutureUnbooked
    OBVIOUS
  <2>5. T \in SUBSET SlotIds /\ f = [s \in T |-> f[s]] /\ \A s \in T : f[s] \in Nat
    BY <2>3, <2>4 DEF TypeOK, Prices, Slots
  <2>6. Prices(f, SlotIds)
    BY <2>5, PricesGiven
  <2>7. Prices(slots', SlotIds)
    BY <2>4, <2>6
  <2> QED BY <2>2, <2>3, <2>7 DEF TypeOK
<1>4. CASE WriteRules(r)
  <2>1. Goto(r, reprice) /\ rules' \in RuleTables /\ UNCHANGED <<court, slots, copies, twice>>
        /\ calm' = {r} /\ started' = started + 1 /\ started' <= MaxRequests
    BY <1>0, <1>4, StartedTyped DEF WriteRules
  <2>2. \A q \in Requests : IsJob(job'[q])
    BY <1>00, <2>1, PlainJob, JobsTyped DEF TypeOK
  <2>3. started' \in 0..MaxRequests
    BY <2>1, StartedTyped, IntervalAssumption
  <2> QED BY <2>1, <2>2, <2>3 DEF TypeOK, Prices
<1>5. CASE Abandon(r)
  <2>1. Goto(r, idle) /\ UNCHANGED <<tables, started, twice>> /\ calm' \subseteq calm
    BY <1>0, <1>5 DEF Abandon
  <2> QED BY <1>00, <2>1, PlainJob, StartedTyped, ReadsTyped
<1> QED BY <1>1, <1>2, <1>3, <1>4, <1>5

\* A booking changes the prices of slots only.
LEMMA BookingTyped ==
  ASSUME TypeOK, NEW s \in Slots, NEW t \in Slots,
         BookSlot(s) \/ Release(s) \/ BookRange(s, t) \/ Move(s, t)
  PROVE  TypeOK'
<1>1. /\ Slots \subseteq SlotIds /\ (\A u \in Slots : slots[u] \in Nat)
      /\ slots = [u \in Slots |-> slots[u]]
  BY DEF TypeOK, Prices, Slots
<1>2. \A u : PriceAt(court.base, rules, StartOf(u)) \in Nat /\ PriceAt(0, rules, StartOf(u)) \in Nat
  BY CourtBase, PriceIsTyped DEF TypeOK
<1>3. slots' = [u \in Slots |-> slots'[u]] /\ \A u \in Slots : slots'[u] \in Nat
  <2>1. CASE BookSlot(s)
    BY <1>1, <1>2, <2>1 DEF BookSlot
  <2>2. CASE Release(s)
    BY <1>1, <2>2 DEF Release
  <2>3. CASE BookRange(s, t)
    BY <1>1, <1>2, <2>3 DEF BookRange
  <2>4. CASE Move(s, t)
    <3>1. slots' = slots \/ slots' = [slots EXCEPT ![t] = PriceAt(court.base, rules, StartOf(t))]
      BY <2>4 DEF Move
    <3> QED BY <1>1, <1>2, <3>1
  <2> QED BY <2>1, <2>2, <2>3, <2>4
<1>4. Prices(slots', SlotIds)
  <2>1. PICK f, T : f = slots' /\ T = Slots
    OBVIOUS
  <2>2. Prices(f, SlotIds)
    BY <1>1, <1>3, <2>1, PricesGiven
  <2> QED BY <2>1, <2>2
<1>5. UNCHANGED <<court, rules, copies, started, job, twice>> /\ calm' \subseteq calm
  BY DEF BookSlot, Release, BookRange, Move
<1> QED BY <1>4, <1>5 DEF TypeOK

\* TypeOK for any hours, prices, rules and bookings: no slot runs past closing time, no row of
\* the schedule is priced below zero, and what a request carries from one statement to the next
\* is of the type the next expects.
THEOREM TypeCorrect == Spec => []TypeOK
<1>1. ASSUME IInv, TypeOK, [Next]_vars PROVE TypeOK'
  <2>1. Shape
    BY <1>1 DEF IInv
  <2>2. ASSUME UNCHANGED vars PROVE TypeOK'
    BY <1>1, <2>2 DEF TypeOK, Prices, vars
  <2>3. ASSUME NEW s \in Slots, BookSlot(s) \/ Release(s) PROVE TypeOK'
    BY <1>1, <2>3, BookingTyped
  <2>4. ASSUME NEW s \in Slots, NEW t \in Slots, BookRange(s, t) \/ Move(s, t) PROVE TypeOK'
    BY <1>1, <2>4, BookingTyped
  <2> QED BY <1>1, <2>1, <2>2, <2>3, <2>4, ViewTyped, BulkCreateTyped, RepricesTyped, RepriceWritesTyped,
             AdministrationTyped DEF Next
<1> QED BY <1>1, TypeInit, InvariantHolds, PTL DEF Spec

-----------------------------------------------------------------------------
(* What remains true of bookings that overlap.                             *)

\* All opening hours begin on one grid of intervals.
OneGrid == \A h, k \in Hours : (h.open - k.open) % Interval = 0

LEMMA Multiples ==
  ASSUME NEW n \in Int, n % Interval = 0
  PROVE  \E q \in Int : n = q * Interval
<1>1. Interval \in Nat \ {0}
  BY IntervalAssumption
<1>2. n % Interval = n - Interval * (n \div Interval)
  BY <1>1
<1>3. n \div Interval \in Int
  BY <1>1
<1>4. PICK q \in Int : q = n \div Interval
  BY <1>3
<1>5. n = q * Interval
  BY <1>1, <1>2, <1>4
<1> QED BY <1>5

\* Slots on one grid that start at different times do not overlap.
LEMMA StartsApart ==
  ASSUME OneGrid, NEW t \in Starts, NEW u \in Starts, t # u
  PROVE  t + Interval <= u \/ u + Interval <= t
<1>1. PICK h, k \in Hours : t \in StartsOf(h) /\ u \in StartsOf(k)
  BY DEF Starts
<1>2. /\ h.open \in Nat /\ k.open \in Nat /\ t \in Nat /\ u \in Nat /\ Interval \in Nat \ {0}
      /\ (t - h.open) % Interval = 0 /\ (u - k.open) % Interval = 0 /\ (h.open - k.open) % Interval = 0
  <2>1. h \in [open: Nat, close: Nat] /\ k \in [open: Nat, close: Nat]
    BY HoursAssumption
  <2> QED BY <1>1, <2>1, IntervalAssumption DEF StartsOf, OneGrid
<1>3. \A n \in Int : n % Interval = 0 => \E q \in Int : n = q * Interval
  BY Multiples
<1>4. PICK p, q, r \in Int : t - h.open = p * Interval /\ u - k.open = q * Interval /\ h.open - k.open = r * Interval
  <2>1. t - h.open \in Int /\ u - k.open \in Int /\ h.open - k.open \in Int
    BY <1>2
  <2>2. PICK p \in Int : t - h.open = p * Interval
    BY <1>2, <1>3, <2>1
  <2>3. PICK q \in Int : u - k.open = q * Interval
    BY <1>2, <1>3, <2>1
  <2>4. PICK r \in Int : h.open - k.open = r * Interval
    BY <1>2, <1>3, <2>1
  <2> QED BY <2>2, <2>3, <2>4
<1>5. t - u = (p + r - q) * Interval /\ p + r - q \in Int
  BY <1>2, <1>4
<1>6. \A n \in Int : n * Interval \in Int /\ (n >= 1 => n * Interval >= Interval) /\ (n <= -1 => n * Interval <= 0 - Interval)
  BY <1>2
<1>7. p + r - q >= 1 \/ p + r - q <= -1
  <2>1. p + r - q # 0
    BY <1>2, <1>5
  <2> QED BY <1>5, <2>1
<1> QED BY <1>2, <1>5, <1>6, <1>7

\* CourtBookedOnce, which the code promises and racing views break, holds as long as no view has
\* inserted slots without seeing what another did, and opening hours only change by whole
\* intervals: hours moved by half an interval would leave the booked slots of the former hours
\* across the new ones.
THEOREM OneGridBooksOnce == OneGrid => (Spec => [](twice = {} => CourtBookedOnce))
<1> SUFFICES ASSUME OneGrid PROVE Spec => [](twice = {} => CourtBookedOnce)
  OBVIOUS
<1>1. ASSUME TypeOK, BookingsKeepTheirSlot, DuplicatesNeedRacingViews, twice = {} PROVE CourtBookedOnce
  <2> SUFFICES ASSUME NEW s \in kept, NEW u \in kept, s # u
               PROVE  StartOf(s) + Interval <= StartOf(u) \/ StartOf(u) + Interval <= StartOf(s)
    BY DEF CourtBookedOnce
  <2>1. s \in Slots /\ u \in Slots
    BY <1>1 DEF BookingsKeepTheirSlot
  <2>2. StartOf(s) # StartOf(u)
    BY <1>1, <2>1 DEF DuplicatesNeedRacingViews
  <2>3. StartOf(s) \in Starts /\ StartOf(u) \in Starts
    BY <1>1, <2>1 DEF TypeOK, Prices, Slots, SlotIds, StartOf
  <2> QED BY <2>2, <2>3, StartsApart
<1>2. (Spec => []TypeOK) /\ (Spec => []BookingsKeepTheirSlot) /\ (Spec => []DuplicatesNeedRacingViews)
  BY TypeCorrect, SlotsOutliveTheirBookings, OnlyRacingViewsDouble
<1>3. TypeOK /\ BookingsKeepTheirSlot /\ DuplicatesNeedRacingViews => (twice = {} => CourtBookedOnce)
  BY <1>1
<1> QED BY <1>2, <1>3, PTL
=============================================================================
