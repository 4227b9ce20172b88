------------------------- MODULE BookingDeskProofs -------------------------
(***************************************************************************)
(* Proofs about BookingDesk, for every number of desks, slots and rows and *)
(* for every price, hold and policy.                                       *)
(***************************************************************************)
EXTENDS BookingDesk, BookingTablesProofs

-----------------------------------------------------------------------------
LEMMA NoSnapType == NoSnap \in [id: Ids, row: Row]
BY NoRowType, SizesAssumption DEF NoSnap, Ids

-----------------------------------------------------------------------------
(* Type correctness, by itself inductive: one step per action.             *)

LEMMA InitTypeOK == Init => TypeOK
BY NoRowType, NoSnapType, SizesAssumption DEF Init, TablesInit, TypeOK, TablesTypeOK, PcValues, Ids

LEMMA CreationTypeOK ==
  ASSUME TypeOK, NEW d \in Desks
  PROVE  /\ \A s \in Slots : CreateOne(d, s) => TypeOK'
         /\ \A lo, hi \in Slots : CreateRange(d, lo, hi) => TypeOK'
         /\ HoldSlot(d) => TypeOK'
         /\ InsertBookings(d) => TypeOK'
         /\ InsertFails(d) => TypeOK'
         /\ ReleaseLocks(d) => TypeOK'
         /\ ConfirmManagedBookings(d) => TypeOK'
         /\ ConfirmFails(d) => TypeOK'
<1>1. ASSUME NEW s \in Slots, CreateOne(d, s)
      PROVE  TypeOK'
  <2>1. rows' \in [Ids -> Row]
    BY <1>1, SweepType DEF CreateOne, TypeOK, TablesTypeOK, money
  <2>2. CASE UNCHANGED desk
    BY <1>1, <2>1, <2>2 DEF CreateOne, TypeOK, TablesTypeOK, desk, money
  <2>3. CASE Begin(d, {s}, FALSE)
    BY <1>1, <2>1, <2>3 DEF CreateOne, Begin, TypeOK, TablesTypeOK, PcValues, money
  <2> QED
    BY <1>1, <2>2, <2>3 DEF CreateOne, money
<1>2. ASSUME NEW lo \in Slots, NEW hi \in Slots, CreateRange(d, lo, hi)
      PROVE  TypeOK'
  <2>1. lo..(hi - 1) \in SUBSET Slots
    BY SizesAssumption DEF Slots
  <2> QED
    BY <1>2, <2>1 DEF CreateRange, Begin, TypeOK, TablesTypeOK, PcValues, money
<1>3. ASSUME HoldSlot(d)
      PROVE  TypeOK'
  <2>1. PICK s \in want[d] \ held[d] :
               /\ rows' = IF ranged[d] THEN ExpirePendingByTimeSlot(s) ELSE rows
               /\ \/ pc' = [pc EXCEPT ![d] = "release"] /\ UNCHANGED <<locks, held>>
                  \/ /\ locks' = [locks EXCEPT ![s] = now + Hold]
                     /\ held' = [held EXCEPT ![d] = @ \cup {s}]
                     /\ pc' = [pc EXCEPT ![d] = IF want[d] \ held[d] = {s}
                                                THEN "insert" ELSE "hold"]
    BY <1>3 DEF HoldSlot, money
  <2>2. s \in Slots
    BY DEF TypeOK, TablesTypeOK
  <2>3. rows' \in [Ids -> Row]
    BY <2>1, <2>2, SweepType DEF TypeOK, TablesTypeOK
  <2>4. now + Hold \in Nat
    BY TimesAssumption, SizesAssumption DEF TypeOK, TablesTypeOK
  <2>5. locks' \in [Slots -> Nat] /\ held' \in [Desks -> SUBSET Slots]
    BY <2>1, <2>2, <2>4 DEF TypeOK, TablesTypeOK
  <2>6. pc' \in [Desks -> PcValues]
    BY <2>1 DEF TypeOK, TablesTypeOK, PcValues
  <2> QED
    BY <1>3, <2>3, <2>5, <2>6 DEF HoldSlot, TypeOK, TablesTypeOK, money
<1>4. ASSUME InsertBookings(d)
      PROVE  TypeOK'
  <2> PICK new \in SUBSET Ids :
          /\ InsertTx(new, want[d])
          /\ made' = [made EXCEPT ![d] = new]
    BY <1>4 DEF InsertBookings
  <2>1. Cardinality(want[d]) \in Nat
    BY WantedAreFinite DEF TypeOK, TablesTypeOK
  <2>2. PICK at \in [new -> want[d]], price \in [new -> Prices] :
          rows' = [b \in Ids |-> IF b \in new THEN NewPendingRow(at[b], price[b]) ELSE rows[b]]
    BY DEF InsertTx
  <2>3. ASSUME NEW b \in new
        PROVE  NewPendingRow(at[b], price[b]) \in Row
    BY NewPendingRowType DEF TypeOK, TablesTypeOK
  <2>4. rows' \in [Ids -> Row]
    BY <2>2, <2>3 DEF TypeOK, TablesTypeOK
  <2>5. nextId' \in Nat \ {0}
    BY <1>4, <2>1 DEF InsertBookings, InsertTx, TypeOK, TablesTypeOK, money
  <2>6. made' \in [Desks -> SUBSET Ids] /\ pc' \in [Desks -> PcValues]
    BY <1>4 DEF InsertBookings, InsertTx, TypeOK, TablesTypeOK, PcValues, money
  <2> QED
    BY <1>4, <2>4, <2>5, <2>6 DEF InsertBookings, InsertTx, TypeOK, TablesTypeOK, money
<1>5. InsertFails(d) => TypeOK'
  BY DEF InsertFails, TypeOK, TablesTypeOK, PcValues, money
<1>6. ReleaseLocks(d) => TypeOK'
  BY DEF ReleaseLocks, TypeOK, TablesTypeOK, PcValues, money
<1>7. ASSUME ConfirmManagedBookings(d)
      PROVE  TypeOK'
  <2>1. rows' \in [Ids -> Row]
    BY <1>7, ConfirmedRowType DEF ConfirmManagedBookings, ConfirmTx, TypeOK, TablesTypeOK, money
  <2>2. {rows[b].slot : b \in made[d]} \in SUBSET Slots
    BY DEF TypeOK, TablesTypeOK, Row
  <2> QED
    BY <1>7, <2>1, <2>2 DEF ConfirmManagedBookings, ConfirmTx, TypeOK, TablesTypeOK, PcValues, money
<1>8. ConfirmFails(d) => TypeOK'
  BY DEF ConfirmFails, TypeOK, TablesTypeOK, PcValues, money
<1> QED
  BY <1>1, <1>2, <1>3, <1>4, <1>5, <1>6, <1>7, <1>8

LEMMA DeskTypeOK ==
  ASSUME TypeOK, NEW d \in Desks
  PROVE  /\ \A b \in Ids : \A amount \in 1..rows[b].due : ConfirmDeposit(d, b, amount) => TypeOK'
         /\ \A b \in Ids : CancelBooking(d, b) => TypeOK'
         /\ \A b \in Ids, s \in Slots, p \in 0..MaxReceived : UpdateBooking(d, b, s, p) => TypeOK'
         /\ \A b \in Ids : CheckInRead(d, b) => TypeOK'
         /\ CheckInSave(d) => TypeOK'
<1>0. ASSUME NEW s \in Slots, ThenRelease(d, s)
      PROVE  /\ pc' \in [Desks -> PcValues] /\ held' \in [Desks -> SUBSET Slots]
             /\ UNCHANGED <<want, ranged, made, snap>>
  BY <1>0 DEF ThenRelease, TypeOK, TablesTypeOK, PcValues
<1>1. ASSUME NEW b \in Ids, NEW amount \in 1..rows[b].due, ConfirmDeposit(d, b, amount)
      PROVE  TypeOK'
  <2>1. rows[b] \in Row /\ rows[b].slot \in Slots /\ amount \in Nat
    BY DEF TypeOK, TablesTypeOK, Row
  <2>2. /\ Post(b, amount) /\ ThenRelease(d, rows[b].slot)
        /\ rows' = [rows EXCEPT ![b] = DepositedRow(rows[b], amount)]
    BY <1>1 DEF ConfirmDeposit, DepositTx
  <2>3. received' \in [Ids -> Nat] /\ returned' \in [Ids -> Nat]
    BY <2>1, <2>2, PostType DEF TypeOK, TablesTypeOK
  <2>4. rows' \in [Ids -> Row]
    BY <2>1, <2>2, DepositedRowType DEF TypeOK, TablesTypeOK
  <2> QED
    BY <1>0, <1>1, <2>1, <2>2, <2>3, <2>4 DEF ConfirmDeposit, DepositTx, TypeOK, TablesTypeOK
<1>2. ASSUME NEW b \in Ids, CancelBooking(d, b)
      PROVE  TypeOK'
  <2>1. rows[b] \in Row /\ rows[b].slot \in Slots /\ -Refund(rows[b]) \in Int
    BY RefundType DEF TypeOK, TablesTypeOK, Row
  <2>2. /\ Post(b, -Refund(rows[b])) /\ ThenRelease(d, rows[b].slot)
        /\ rows' = [rows EXCEPT ![b] = CanceledRow(rows[b])]
    BY <1>2 DEF CancelBooking, CancelTx
  <2>3. received' \in [Ids -> Nat] /\ returned' \in [Ids -> Nat]
    BY <2>1, <2>2, PostType DEF TypeOK, TablesTypeOK
  <2>4. rows' \in [Ids -> Row]
    BY <2>1, <2>2, CanceledRowType DEF TypeOK, TablesTypeOK
  <2> QED
    BY <1>0, <1>2, <2>1, <2>2, <2>3, <2>4 DEF CancelBooking, CancelTx, TypeOK, TablesTypeOK
<1>3. ASSUME NEW b \in Ids, NEW s \in Slots, NEW p \in 0..MaxReceived, UpdateBooking(d, b, s, p)
      PROVE  TypeOK'
  <2>1. rows[b] \in Row /\ rows[b].paid \in Nat /\ rows[b].total \in Prices
    BY DEF TypeOK, TablesTypeOK, Row
  <2>2. p \in Nat /\ p - rows[b].paid \in Int
    BY <2>1, SizesAssumption
  <2>3. PICK total \in (IF s # rows[b].slot THEN Prices ELSE {rows[b].total}) :
          rows' = [rows EXCEPT ![b] = UpdatedRow(rows[b], s, total, p)]
    BY <1>3 DEF UpdateBooking, UpdateTx
  <2>4. rows' \in [Ids -> Row]
    BY <2>1, <2>2, <2>3, UpdatedRowType DEF TypeOK, TablesTypeOK
  <2>5. Post(b, p - rows[b].paid)
    BY <1>3 DEF UpdateBooking, UpdateTx
  <2>6. received' \in [Ids -> Nat] /\ returned' \in [Ids -> Nat]
    BY <2>2, <2>5, PostType DEF TypeOK, TablesTypeOK
  <2> QED
    BY <1>3, <2>4, <2>6 DEF UpdateBooking, UpdateTx, TypeOK, TablesTypeOK, desk
<1>4. ASSUME NEW b \in Ids, CheckInRead(d, b)
      PROVE  TypeOK'
  BY <1>4 DEF CheckInRead, TypeOK, TablesTypeOK, PcValues, money
<1>5. ASSUME CheckInSave(d)
      PROVE  TypeOK'
  <2>1. snap[d].id \in Ids /\ snap[d].row \in Row
    BY DEF TypeOK, TablesTypeOK
  <2>2. CheckedInRow(snap[d].row) \in Row
    BY <2>1, CheckedInRowType
  <2>3. rows' \in [Ids -> Row] /\ clobbered' \subseteq Ids
    BY <1>5, <2>1, <2>2 DEF CheckInSave, TypeOK, TablesTypeOK, money
  <2>4. pc' \in [Desks -> PcValues] /\ snap' \in [Desks -> [id: Ids, row: Row]]
    BY <1>5, NoRowType, NoSnapType DEF CheckInSave, TypeOK, TablesTypeOK, PcValues, money
  <2> QED
    BY <1>5, <2>3, <2>4 DEF CheckInSave, TypeOK, TablesTypeOK, money
<1> QED
  BY <1>1, <1>2, <1>3, <1>4, <1>5

LEMMA HouseTypeOK ==
  ASSUME TypeOK
  PROVE  (ExpirePending => TypeOK') /\ (Tick => TypeOK') /\ (Restart => TypeOK')
<1>1. ASSUME ExpirePending
      PROVE  TypeOK'
  <2>1. rows' \in [Ids -> Row]
    BY <1>1, ExpireType DEF ExpirePending, ExpireTx, TypeOK, TablesTypeOK, money
  <2> QED
    BY <1>1, <2>1 DEF ExpirePending, ExpireTx, TypeOK, TablesTypeOK, desk, money
<1>2. ASSUME Tick
      PROVE  TypeOK'
  <2>1. now' \in 0..MaxTime
    BY <1>2, SizesAssumption DEF Tick, TypeOK, TablesTypeOK, money
  <2> QED
    BY <1>2, <2>1 DEF Tick, TypeOK, TablesTypeOK, desk, money
<1>3. Restart => TypeOK'
  BY NoRowType, NoSnapType DEF Restart, TypeOK, TablesTypeOK, PcValues, money
<1> QED
  BY <1>1, <1>2, <1>3

LEMMA TypeStep == TypeOK /\ [Next]_vars => TypeOK'
<1> SUFFICES ASSUME TypeOK, [Next]_vars
             PROVE  TypeOK'
  OBVIOUS
<1>1. ASSUME NEW d \in Desks, Handler(d)
      PROVE  TypeOK'
  BY <1>1, CreationTypeOK, DeskTypeOK DEF Handler
<1>2. CASE ExpirePending \/ Tick \/ Restart
  BY <1>2, HouseTypeOK
<1>3. CASE UNCHANGED vars
  BY <1>3 DEF vars, desk, TypeOK, TablesTypeOK, money
<1> QED
  BY <1>1, <1>2, <1>3 DEF Next

\* Every reachable state of the booking desk is well typed: each handler writes
\* rows, money, locks and its own state only with values of their types.
THEOREM TypeCorrect == Spec => []TypeOK
BY InitTypeOK, TypeStep, PTL DEF Spec

-----------------------------------------------------------------------------
(***************************************************************************)
(* The inductive invariant.  A row that is not there yet has no money, so  *)
(* a fresh hold starts with none; and what a check-in has read was a live  *)
(* row with the right amount due, so saving it late cannot break the       *)
(* amount due, whatever has happened to the booking since.                 *)
(***************************************************************************)

BookOK(b) ==
  LET r   == rows[b]
      net == received[b] - returned[b]
  IN  /\ b >= nextId => r.status = "none" /\ net = 0
      /\ r.status = "pending" => r.paid = 0 /\ net = 0
      /\ b \notin clobbered => IF r.status = "canceled" THEN net \in {0, r.paid - r.paid \div 2}
                                                       ELSE net = r.paid
      /\ r.status \in Live => r.due = Outstanding(r.total, r.paid)

BooksOK == \A b \in Ids : BookOK(b)

SnapOK(d) ==
  LET r == snap[d].row
  IN  pc[d] = "checkin" => /\ snap[d].id < nextId
                          /\ r.status \in {"pending", "confirmed"}
                          /\ r.due = Outstanding(r.total, r.paid)

SnapsOK == \A d \in Desks : SnapOK(d)

IInv == TypeOK /\ NoDoubleBooking /\ BooksOK /\ SnapsOK

LEMMA InitIInv == Init => IInv
<1> SUFFICES ASSUME Init PROVE IInv
  OBVIOUS
<1>1. TypeOK
  BY InitTypeOK
<1>2. \A b \in Ids : rows[b] = NoRow /\ received[b] = 0 /\ returned[b] = 0
  BY DEF Init, TablesInit
<1>3. NoDoubleBooking
  BY <1>2, NoRowFields DEF NoDoubleBooking, Live
<1>4. BooksOK
  BY <1>2, NoRowFields DEF BooksOK, BookOK, Live
<1>5. SnapsOK
  BY DEF Init, TablesInit, SnapsOK, SnapOK
<1> QED
  BY <1>1, <1>3, <1>4, <1>5 DEF IInv

-----------------------------------------------------------------------------
(* Frames: what keeps the invariant of a booking that is left alone.       *)

LEMMA BookFrame ==
  ASSUME NEW b \in Ids, BookOK(b), nextId \in Nat, nextId' \in Nat, nextId' >= nextId,
         rows'[b] = rows[b], received'[b] = received[b], returned'[b] = returned[b],
         clobbered \subseteq clobbered'
  PROVE  BookOK(b)'
BY DEF BookOK, Outstanding, Ids

LEMMA SnapFrame ==
  ASSUME TypeOK, TypeOK', SnapsOK, nextId' >= nextId,
         \A d \in Desks : pc'[d] = "checkin" => pc[d] = "checkin" /\ snap'[d] = snap[d]
  PROVE  SnapsOK'
<1> SUFFICES ASSUME NEW d \in Desks, pc'[d] = "checkin"
             PROVE  SnapOK(d)'
  BY DEF SnapsOK, SnapOK
<1>1. SnapOK(d) /\ pc[d] = "checkin" /\ snap'[d] = snap[d]
  BY DEF SnapsOK
<1>2. snap[d].id \in Int /\ nextId \in Int /\ nextId' \in Int
  BY DEF TypeOK, TablesTypeOK, Ids
<1> QED
  BY <1>1, <1>2 DEF SnapOK, Outstanding

\* The sweeps and the confirmation of holds change statuses and nothing else.
LEMMA StatusStep ==
  ASSUME TypeOK, TypeOK', NoDoubleBooking, BooksOK,
         \A b \in Ids : rows'[b] \in {rows[b], Expire(rows[b]), ConfirmedRow(rows[b])},
         UNCHANGED <<nextId, received, returned, clobbered>>
  PROVE  NoDoubleBooking' /\ BooksOK'
<1>1. ASSUME NEW b \in Ids
      PROVE  /\ rows'[b].slot = rows[b].slot
             /\ rows'[b].status \in Live => rows[b].status \in Live
  <2>1. rows[b] \in Row
    BY DEF TypeOK, TablesTypeOK
  <2>2. CASE rows'[b] = rows[b]
    BY <2>2
  <2>3. CASE rows'[b] = Expire(rows[b])
    BY <2>1, <2>3, ExpireType DEF Live
  <2>4. CASE rows'[b] = ConfirmedRow(rows[b])
    BY <2>1, <2>4, ConfirmedRowType DEF Live
  <2> QED
    BY <2>2, <2>3, <2>4
<1>2. NoDoubleBooking'
  BY <1>1 DEF NoDoubleBooking, Live
<1>3. ASSUME NEW b \in Ids
      PROVE  BookOK(b)'
  <2>1. BookOK(b) /\ rows[b] \in Row
    BY DEF BooksOK, TypeOK, TablesTypeOK
  <2>2. CASE rows'[b] = rows[b]
    BY <2>1, <2>2 DEF BookOK, Outstanding
  <2>3. CASE rows'[b] = Expire(rows[b])
    BY <2>1, <2>3, ExpireType DEF BookOK, Outstanding, Live
  <2>4. CASE rows'[b] = ConfirmedRow(rows[b])
    BY <2>1, <2>4, ConfirmedRowType DEF BookOK, Outstanding, Live
  <2> QED
    BY <2>2, <2>3, <2>4
<1> QED
  BY <1>2, <1>3 DEF BooksOK

\* The money of one booking moves: the others keep what they had.
LEMMA OneBookStep ==
  ASSUME TypeOK, TypeOK', BooksOK, NEW b \in Ids, NEW n \in Row, NEW amount \in Int,
         rows' = [rows EXCEPT ![b] = n], Post(b, amount), BookOK(b)',
         UNCHANGED <<nextId, clobbered>>
  PROVE  BooksOK'
<1> SUFFICES ASSUME NEW c \in Ids \ {b} PROVE BookOK(c)'
  BY DEF BooksOK
<1>1. rows'[c] = rows[c]
  BY DEF TypeOK, TablesTypeOK
<1>2. received'[c] = received[c] /\ returned'[c] = returned[c]
  BY PostType DEF TypeOK, TablesTypeOK
<1>3. BookOK(c) /\ nextId \in Nat
  BY DEF BooksOK, TypeOK, TablesTypeOK
<1> QED
  BY <1>1, <1>2, <1>3, BookFrame

-----------------------------------------------------------------------------
(* One lemma per action that touches a row or a snapshot.                  *)

LEMMA ConfirmDepositIInv ==
  ASSUME IInv, TypeOK', NEW d \in Desks, NEW b \in Ids, NEW amount \in 1..rows[b].due,
         ConfirmDeposit(d, b, amount)
  PROVE  IInv'
<1> DEFINE r == rows[b]
           n == DepositedRow(r, amount)
<1>1. r \in Row /\ r.paid \in Nat /\ r.total \in Prices /\ r.due \in Int /\ amount \in Nat \ {0}
  BY DEF IInv, TypeOK, TablesTypeOK, Row
<1>2. r.total \in Nat
  BY <1>1, PricesAssumption
<1>3. /\ r.status \in Live /\ amount <= r.due /\ Post(b, amount)
      /\ rows' = [rows EXCEPT ![b] = n] /\ UNCHANGED <<nextId, clobbered>>
      /\ ThenRelease(d, r.slot)
  BY DEF ConfirmDeposit, DepositTx
<1>4. /\ n \in Row /\ n.slot = r.slot /\ n.total = r.total /\ n.paid = r.paid + amount
      /\ n.due = r.total - (r.paid + amount)
      /\ n.status = IF r.status = "pending" THEN "confirmed" ELSE r.status
  BY <1>1, DepositedRowType
<1>5. NoDoubleBooking'
  BY <1>3, <1>4, OneRowStep DEF IInv, TypeOK
<1>6. BookOK(b)'
  <2>1. BookOK(b) /\ received[b] \in Nat /\ returned[b] \in Nat /\ nextId \in Nat
    BY DEF IInv, BooksOK, TypeOK, TablesTypeOK
  <2>2. rows'[b] = n /\ nextId' = nextId /\ clobbered' = clobbered
    BY <1>3 DEF IInv, TypeOK, TablesTypeOK
  <2>3. received'[b] - returned'[b] = received[b] - returned[b] + amount
    BY <1>1, <1>3, PostType DEF IInv, TypeOK, TablesTypeOK
  <2>4. r.due = Outstanding(r.total, r.paid) /\ ~(b >= nextId)
    BY <1>3, <2>1 DEF BookOK, Live
  <2>5. n.due = Outstanding(n.total, n.paid)
    BY <1>1, <1>2, <1>3, <1>4, <2>4 DEF Outstanding
  <2>6. b \notin clobbered => received[b] - returned[b] = r.paid
    BY <1>3, <2>1 DEF BookOK, Live
  <2>7. n.status \in Live /\ n.status # "pending" /\ n.status # "canceled"
    BY <1>3, <1>4 DEF Live
  <2> QED
    BY <1>1, <1>4, <2>1, <2>2, <2>3, <2>4, <2>5, <2>6, <2>7 DEF BookOK, Outstanding
<1>7. BooksOK'
  <2>1. amount \in Int
    BY <1>1
  <2> QED
    BY <1>3, <1>4, <1>6, <2>1, OneBookStep DEF IInv
<1>8. SnapsOK'
  <2>1. \A e \in Desks : pc'[e] = "checkin" => pc[e] = "checkin" /\ snap'[e] = snap[e]
    BY <1>3 DEF ThenRelease, IInv, TypeOK, TablesTypeOK
  <2> QED
    BY <1>3, <2>1, SnapFrame DEF IInv, TypeOK, TablesTypeOK
<1> QED
  BY <1>5, <1>7, <1>8 DEF IInv

LEMMA CancelBookingIInv ==
  ASSUME IInv, TypeOK', NEW d \in Desks, NEW b \in Ids, CancelBooking(d, b)
  PROVE  IInv'
<1> DEFINE r == rows[b]
           n == CanceledRow(r)
<1>1. r \in Row /\ r.paid \in Nat /\ Refund(r) \in {r.paid, r.paid \div 2} /\ -Refund(r) \in Int
  BY RefundType DEF IInv, TypeOK, TablesTypeOK, Row
<1>2. /\ r.status \in Live /\ Post(b, -Refund(r)) /\ ThenRelease(d, r.slot)
      /\ rows' = [rows EXCEPT ![b] = n] /\ UNCHANGED <<nextId, clobbered>>
  BY DEF CancelBooking, CancelTx
<1>3. n \in Row /\ n.status = "canceled" /\ n.slot = r.slot /\ n.paid = r.paid
  BY <1>1, CanceledRowType
<1>4. NoDoubleBooking'
  BY <1>2, <1>3, OneRowStep DEF IInv, TypeOK, Live
<1>5. BookOK(b)'
  <2>1. BookOK(b) /\ received[b] \in Nat /\ returned[b] \in Nat /\ nextId \in Nat
    BY DEF IInv, BooksOK, TypeOK, TablesTypeOK
  <2>2. rows'[b] = n /\ nextId' = nextId /\ clobbered' = clobbered
    BY <1>2 DEF IInv, TypeOK, TablesTypeOK
  <2>3. received'[b] - returned'[b] = received[b] - returned[b] + (-Refund(r))
    BY <1>1, <1>2, PostType DEF IInv, TypeOK, TablesTypeOK
  <2>4. ~(b >= nextId) /\ (b \notin clobbered => received[b] - returned[b] = r.paid)
    BY <1>2, <2>1 DEF BookOK, Live
  <2>5. r.paid \div 2 \in Nat
    BY <1>1
  <2>6. b \notin clobbered => received'[b] - returned'[b] \in {0, r.paid - r.paid \div 2}
    BY <1>1, <2>1, <2>3, <2>4, <2>5
  <2> QED
    BY <1>3, <2>2, <2>4, <2>6 DEF BookOK, Live
<1>6. BooksOK'
  BY <1>1, <1>2, <1>3, <1>5, OneBookStep DEF IInv
<1>7. SnapsOK'
  <2>1. \A e \in Desks : pc'[e] = "checkin" => pc[e] = "checkin" /\ snap'[e] = snap[e]
    BY <1>2 DEF ThenRelease, IInv, TypeOK, TablesTypeOK
  <2> QED
    BY <1>2, <2>1, SnapFrame DEF IInv, TypeOK, TablesTypeOK
<1> QED
  BY <1>4, <1>6, <1>7 DEF IInv

LEMMA UpdateBookingIInv ==
  ASSUME IInv, TypeOK', NEW d \in Desks, NEW b \in Ids, NEW s \in Slots, NEW p \in 0..MaxReceived,
         UpdateBooking(d, b, s, p)
  PROVE  IInv'
<1> DEFINE r == rows[b]
<1>1. r \in Row /\ r.paid \in Nat /\ r.total \in Prices /\ p \in Nat /\ p - r.paid \in Int
  BY SizesAssumption DEF IInv, TypeOK, TablesTypeOK, Row
<1>2. PICK total \in (IF s # r.slot THEN Prices ELSE {r.total}) :
        rows' = [rows EXCEPT ![b] = UpdatedRow(r, s, total, p)]
  BY DEF UpdateBooking, UpdateTx
<1> DEFINE n == UpdatedRow(r, s, total, p)
<1>3. /\ r.status \in Live /\ Post(b, p - r.paid) /\ UNCHANGED <<nextId, clobbered, desk>>
      /\ s # r.slot => ~IndexRejects(s, b)
  BY DEF UpdateBooking, UpdateTx
<1>4. total \in Prices
  BY <1>1, <1>2
<1>5. /\ n \in Row /\ n.slot = s /\ n.total = total /\ n.paid = p /\ n.due = Outstanding(total, p)
      /\ n.status = IF p > 0 /\ r.status = "pending" THEN "confirmed" ELSE r.status
  BY <1>1, <1>4, UpdatedRowType
<1>6. rows' = [rows EXCEPT ![b] = n]
  BY <1>2
<1> HIDE DEF n
<1>7. NoDoubleBooking'
  BY <1>3, <1>5, <1>6, OneRowStep DEF IInv, TypeOK
<1>8. BookOK(b)'
  <2>1. BookOK(b) /\ received[b] \in Nat /\ returned[b] \in Nat /\ nextId \in Nat
    BY DEF IInv, BooksOK, TypeOK, TablesTypeOK
  <2>2. rows'[b] = n /\ nextId' = nextId /\ clobbered' = clobbered
    BY <1>3, <1>6 DEF IInv, TypeOK, TablesTypeOK
  <2>3. received'[b] - returned'[b] = received[b] - returned[b] + (p - r.paid)
    BY <1>1, <1>3, PostType DEF IInv, TypeOK, TablesTypeOK
  <2>4. ~(b >= nextId) /\ (b \notin clobbered => received[b] - returned[b] = r.paid)
    BY <1>3, <2>1 DEF BookOK, Live
  <2>5. b \notin clobbered => received'[b] - returned'[b] = p
    BY <1>1, <2>1, <2>3, <2>4
  <2>6. n.status # "canceled"
    BY <1>3, <1>5 DEF Live
  <2>7. n.status = "pending" => p = 0 /\ received'[b] - returned'[b] = 0
    <3> SUFFICES ASSUME n.status = "pending"
                 PROVE  p = 0 /\ received'[b] - returned'[b] = 0
      OBVIOUS
    <3>1. r.status = "pending" /\ p = 0
      BY <1>1, <1>5
    <3>2. r.paid = 0 /\ received[b] - returned[b] = 0
      BY <2>1, <3>1 DEF BookOK
    <3> QED
      BY <2>3, <3>1, <3>2
  <2> QED
    BY <1>5, <2>2, <2>4, <2>5, <2>6, <2>7 DEF BookOK, Outstanding
<1>9. BooksOK'
  BY <1>1, <1>3, <1>5, <1>6, <1>8, OneBookStep DEF IInv
<1>10. SnapsOK'
  <2>1. \A e \in Desks : pc'[e] = "checkin" => pc[e] = "checkin" /\ snap'[e] = snap[e]
    BY <1>3 DEF desk
  <2> QED
    BY <1>3, <2>1, SnapFrame DEF IInv, TypeOK, TablesTypeOK
<1> QED
  BY <1>7, <1>9, <1>10 DEF IInv

LEMMA CheckInReadIInv ==
  ASSUME IInv, TypeOK', NEW d \in Desks, NEW b \in Ids, CheckInRead(d, b)
  PROVE  IInv'
<1>1. NoDoubleBooking'
  BY DEF IInv, CheckInRead, NoDoubleBooking, money
<1>2. BooksOK'
  BY BookFrame DEF IInv, CheckInRead, BooksOK, TypeOK, TablesTypeOK, money
<1>3. SnapsOK'
  <2>1. rows[b].status \in {"pending", "confirmed"}
    BY DEF CheckInRead, Arrives, money
  <2>2. BookOK(b) /\ b \in Int /\ nextId \in Int
    BY DEF IInv, BooksOK, TypeOK, TablesTypeOK, Ids
  <2>3. b < nextId /\ rows[b].due = Outstanding(rows[b].total, rows[b].paid)
    BY <2>1, <2>2 DEF BookOK, Live
  <2>4. pc'[d] = "checkin" /\ snap'[d] = [id |-> b, row |-> rows[b]] /\ nextId' = nextId
    BY DEF CheckInRead, IInv, TypeOK, TablesTypeOK, money
  <2>5. SnapOK(d)'
    BY <2>1, <2>3, <2>4 DEF SnapOK, Outstanding
  <2>6. ASSUME NEW e \in Desks \ {d}
        PROVE  SnapOK(e)'
    BY DEF CheckInRead, IInv, SnapsOK, SnapOK, TypeOK, TablesTypeOK, Outstanding, money
  <2> QED
    BY <2>5, <2>6 DEF SnapsOK
<1> QED
  BY <1>1, <1>2, <1>3 DEF IInv

\* The late Save: the index keeps the slot single, the amount due is the one
\* that was read, and the ledger is excused when the row was no longer that.
LEMMA CheckInSaveIInv ==
  ASSUME IInv, TypeOK', NEW d \in Desks, CheckInSave(d)
  PROVE  IInv'
<1>0. PICK b \in Ids, r \in Row : b = snap[d].id /\ r = snap[d].row
  BY DEF IInv, TypeOK, TablesTypeOK
<1> DEFINE n == CheckedInRow(r)
<1>1. b \in Int /\ nextId \in Nat
  BY DEF IInv, TypeOK, TablesTypeOK, Ids
<1>2. b < nextId /\ r.status \in {"pending", "confirmed"} /\ r.due = Outstanding(r.total, r.paid)
  BY <1>0 DEF IInv, SnapsOK, SnapOK, CheckInSave, money
<1>3. /\ n \in Row /\ n.status = "checked_in" /\ n.slot = r.slot /\ n.paid = r.paid
      /\ n.due = r.due /\ n.total = r.total
  BY CheckedInRowType
<1>4. UNCHANGED <<nextId, received, returned>>
  BY DEF CheckInSave, money
<1>5. SnapsOK'
  <2>1. \A e \in Desks : pc'[e] = "checkin" => pc[e] = "checkin" /\ snap'[e] = snap[e]
    BY DEF CheckInSave, IInv, TypeOK, TablesTypeOK, money
  <2> QED
    BY <1>1, <1>4, <2>1, SnapFrame DEF IInv
<1>6. CASE UNCHANGED <<rows, clobbered>>
  <2>1. NoDoubleBooking'
    BY <1>6 DEF IInv, NoDoubleBooking
  <2>2. BooksOK'
    BY <1>1, <1>4, <1>6, BookFrame DEF IInv, BooksOK
  <2> QED
    BY <1>5, <2>1, <2>2 DEF IInv
<1>7. CASE /\ ~IndexRejects(r.slot, b)
           /\ rows' = [rows EXCEPT ![b] = n]
           /\ clobbered' = IF rows[b] = r THEN clobbered ELSE clobbered \cup {b}
  <2>1. NoDoubleBooking'
    BY <1>1, <1>3, <1>7, OneRowStep DEF IInv, TypeOK
  <2>2. rows'[b] = n /\ nextId' = nextId /\ received' = received /\ returned' = returned
    BY <1>1, <1>4, <1>7 DEF IInv, TypeOK, TablesTypeOK
  <2>3. ASSUME b \notin clobbered'
        PROVE  received[b] - returned[b] = r.paid
    <3>1. rows[b] = r /\ b \notin clobbered
      BY <1>7, <2>3
    <3>2. BookOK(b)
      BY <1>1 DEF IInv, BooksOK
    <3> QED
      BY <1>2, <3>1, <3>2 DEF BookOK
  <2>4. BookOK(b)'
    BY <1>1, <1>2, <1>3, <2>2, <2>3 DEF BookOK, Outstanding, Live
  <2>5. ASSUME NEW c \in Ids \ {b}
        PROVE  BookOK(c)'
    <3>1. rows'[c] = rows[c] /\ clobbered \subseteq clobbered'
      BY <1>7 DEF IInv, TypeOK, TablesTypeOK
    <3>2. BookOK(c)
      BY DEF IInv, BooksOK
    <3> QED
      BY <1>1, <1>4, <3>1, <3>2, BookFrame
  <2>6. BooksOK'
    BY <2>4, <2>5 DEF BooksOK
  <2> QED
    BY <1>5, <2>1, <2>6 DEF IInv
<1> QED
  BY <1>0, <1>6, <1>7 DEF CheckInSave, money

\* New holds go to slots on which the index finds nothing, one to each slot.
LEMMA InsertBookingsIInv ==
  ASSUME IInv, TypeOK', NEW d \in Desks, InsertBookings(d)
  PROVE  IInv'
<1> DEFINE k == Cardinality(want[d])
<1>0. PICK new \in SUBSET Ids : InsertTx(new, want[d])
  BY DEF InsertBookings
<1>1. /\ k \in Nat /\ nextId \in Nat /\ nextId' = nextId + k
      /\ new = nextId..(nextId + k - 1)
      /\ UNCHANGED <<received, returned, clobbered>>
  BY <1>0, WantedAreFinite DEF IInv, TypeOK, TablesTypeOK, InsertBookings, InsertTx, money
<1>2. PICK at \in [new -> want[d]], price \in [new -> Prices] :
        /\ \A b, c \in new : b < c => at[b] < at[c]
        /\ rows' = [b \in Ids |-> IF b \in new THEN NewPendingRow(at[b], price[b]) ELSE rows[b]]
  BY <1>0 DEF InsertTx
<1>3. now \in Nat /\ want[d] \in SUBSET Slots
  BY SizesAssumption DEF IInv, TypeOK, TablesTypeOK
<1>4. ASSUME NEW b \in new
      PROVE  /\ b \in Ids /\ b \in Int /\ at[b] \in Slots /\ at[b] \in Int /\ price[b] \in Prices
             /\ rows'[b] = NewPendingRow(at[b], price[b])
             /\ rows'[b].slot = at[b] /\ rows'[b].status = "pending"
             /\ rows'[b].total = price[b] /\ rows'[b].due = price[b] /\ rows'[b].paid = 0
             /\ \A c \in Ids : rows[c].slot = at[b] => rows[c].status \notin Live
  <2>1. b \in Ids /\ at[b] \in want[d] /\ price[b] \in Prices
    BY <1>3
  <2>2. b \in Int /\ at[b] \in Slots /\ at[b] \in Int
    BY <1>3, <2>1 DEF Ids, Slots
  <2>3. rows'[b] = NewPendingRow(at[b], price[b])
    BY <1>2, <2>1
  <2>4. ~IndexRejects(at[b], 0)
    BY <1>0, <2>1 DEF InsertTx, InsertRejected
  <2>5. \A c \in Ids : rows[c].slot = at[b] => rows[c].status \notin Live
    BY <2>4 DEF IndexRejects, Indexed, Live, Ids
  <2> QED
    BY <1>3, <2>1, <2>2, <2>3, <2>5, NewPendingRowType
<1>5. ASSUME NEW b \in Ids \ new
      PROVE  rows'[b] = rows[b]
  BY <1>2
<1>6. NoDoubleBooking'
  <2> SUFFICES ASSUME NEW b \in Ids, NEW c \in Ids,
                      rows'[b].status \in Live, rows'[c].status \in Live,
                      rows'[b].slot = rows'[c].slot
               PROVE  b = c
    BY DEF NoDoubleBooking, Live
  <2>1. CASE b \in new /\ c \in new
    <3>1. at[b] = at[c] /\ at[b] \in Int /\ b \in Int /\ c \in Int
      BY <1>4, <2>1
    <3>2. ~(b < c) /\ ~(c < b)
      BY <1>2, <2>1, <3>1
    <3> QED
      BY <3>1, <3>2
  <2>2. CASE b \in new /\ c \notin new
    BY <1>4, <1>5, <2>2
  <2>3. CASE b \notin new /\ c \in new
    BY <1>4, <1>5, <2>3
  <2>4. CASE b \notin new /\ c \notin new
    BY <1>5, <2>4 DEF IInv, NoDoubleBooking
  <2> QED
    BY <2>1, <2>2, <2>3, <2>4
<1>7. ASSUME NEW b \in Ids
      PROVE  BookOK(b)'
  <2>1. BookOK(b) /\ b \in Int
    BY DEF IInv, BooksOK, Ids
  <2>2. CASE b \in new
    <3>1. b >= nextId /\ ~(b >= nextId')
      BY <1>1, <2>1, <2>2
    <3>2. received'[b] - returned'[b] = 0
      BY <1>1, <2>1, <3>1 DEF BookOK
    <3>3. price[b] \in Nat
      BY <1>4, <2>2, PricesAssumption
    <3>4. rows'[b].due = Outstanding(rows'[b].total, rows'[b].paid)
      BY <1>4, <2>2, <3>3 DEF Outstanding
    <3> QED
      BY <1>4, <2>2, <3>1, <3>2, <3>4 DEF BookOK, Outstanding
  <2>3. CASE b \notin new
    BY <1>1, <1>5, <2>1, <2>3, BookFrame
  <2> QED
    BY <2>2, <2>3
<1>8. SnapsOK'
  <2>1. \A e \in Desks : pc'[e] = "checkin" => pc[e] = "checkin" /\ snap'[e] = snap[e]
    BY DEF InsertBookings, InsertTx, IInv, TypeOK, TablesTypeOK, money
  <2> QED
    BY <1>1, <2>1, SnapFrame DEF IInv
<1> QED
  BY <1>6, <1>7, <1>8 DEF IInv, BooksOK

\* Steps that at most sweep or confirm holds and read nothing for a check-in.
LEMMA QuietStepIInv ==
  ASSUME IInv, TypeOK',
         \A b \in Ids : rows'[b] \in {rows[b], Expire(rows[b]), ConfirmedRow(rows[b])},
         UNCHANGED <<nextId, received, returned, clobbered>>,
         \A d \in Desks : pc'[d] = "checkin" => pc[d] = "checkin" /\ snap'[d] = snap[d]
  PROVE  IInv'
<1>1. NoDoubleBooking' /\ BooksOK'
  BY StatusStep DEF IInv
<1>2. SnapsOK'
  BY SnapFrame DEF IInv, TypeOK, TablesTypeOK
<1> QED
  BY <1>1, <1>2 DEF IInv

LEMMA QuietHandlersIInv ==
  ASSUME IInv, TypeOK', NEW d \in Desks,
         \/ \E s \in Slots : CreateOne(d, s)
         \/ \E lo, hi \in Slots : CreateRange(d, lo, hi)
         \/ HoldSlot(d) \/ InsertFails(d) \/ ReleaseLocks(d)
         \/ ConfirmManagedBookings(d) \/ ConfirmFails(d)
  PROVE  IInv'
<1> USE DEF IInv
<1>1. CASE \E s \in Slots : CreateOne(d, s)
  <2>1. PICK s \in Slots : CreateOne(d, s)
    BY <1>1
  <2>2. \A b \in Ids : rows'[b] \in {rows[b], Expire(rows[b])}
    BY <2>1 DEF CreateOne, ExpirePendingByTimeSlot, money
  <2>3. \A e \in Desks : pc'[e] = "checkin" => pc[e] = "checkin" /\ snap'[e] = snap[e]
    BY <2>1 DEF CreateOne, Begin, desk, TypeOK, TablesTypeOK, money
  <2> QED
    BY <2>1, <2>2, <2>3, QuietStepIInv DEF CreateOne, money
<1>2. CASE \E lo, hi \in Slots : CreateRange(d, lo, hi)
  <2>1. \A e \in Desks : pc'[e] = "checkin" => pc[e] = "checkin" /\ snap'[e] = snap[e]
    BY <1>2 DEF CreateRange, Begin, TypeOK, TablesTypeOK, money
  <2> QED
    BY <1>2, <2>1, QuietStepIInv DEF CreateRange, money
<1>3. CASE HoldSlot(d)
  <2>1. \A b \in Ids : rows'[b] \in {rows[b], Expire(rows[b])}
    BY <1>3 DEF HoldSlot, ExpirePendingByTimeSlot, money
  <2>2. \A e \in Desks : pc'[e] = "checkin" => pc[e] = "checkin" /\ snap'[e] = snap[e]
    BY <1>3 DEF HoldSlot, TypeOK, TablesTypeOK, money
  <2> QED
    BY <1>3, <2>1, <2>2, QuietStepIInv DEF HoldSlot, money
<1>4. CASE InsertFails(d) \/ ReleaseLocks(d) \/ ConfirmFails(d)
  <2>1. \A e \in Desks : pc'[e] = "checkin" => pc[e] = "checkin" /\ snap'[e] = snap[e]
    BY <1>4 DEF InsertFails, ReleaseLocks, ConfirmFails, TypeOK, TablesTypeOK, money
  <2>2. UNCHANGED <<rows, nextId, received, returned, clobbered>>
    BY <1>4 DEF InsertFails, ReleaseLocks, ConfirmFails, money
  <2> QED
    BY <2>1, <2>2, QuietStepIInv
<1>5. CASE ConfirmManagedBookings(d)
  <2>1. \A b \in Ids : rows'[b] \in {rows[b], ConfirmedRow(rows[b])}
    BY <1>5 DEF ConfirmManagedBookings, ConfirmTx, money
  <2>2. \A e \in Desks : pc'[e] = "checkin" => pc[e] = "checkin" /\ snap'[e] = snap[e]
    BY <1>5 DEF ConfirmManagedBookings, ConfirmTx, TypeOK, TablesTypeOK, money
  <2> QED
    BY <1>5, <2>1, <2>2, QuietStepIInv DEF ConfirmManagedBookings, ConfirmTx, money
<1> QED
  BY <1>1, <1>2, <1>3, <1>4, <1>5

LEMMA HouseIInv ==
  ASSUME IInv, TypeOK', ExpirePending \/ Tick \/ Restart \/ UNCHANGED vars
  PROVE  IInv'
<1> USE DEF IInv
<1>1. CASE ExpirePending
  <2>1. \A b \in Ids : rows'[b] = Expire(rows[b])
    BY <1>1 DEF ExpirePending, ExpireTx, money
  <2> QED
    BY <1>1, <2>1, QuietStepIInv DEF ExpirePending, ExpireTx, desk, money
<1>2. CASE Tick
  BY <1>2, QuietStepIInv DEF Tick, desk, money
<1>3. CASE Restart
  <2>1. \A e \in Desks : pc'[e] # "checkin"
    BY <1>3 DEF Restart, money
  <2> QED
    BY <1>3, <2>1, QuietStepIInv DEF Restart, money
<1>4. CASE UNCHANGED vars
  BY <1>4, QuietStepIInv DEF vars, desk, money
<1> QED
  BY <1>1, <1>2, <1>3, <1>4

LEMMA NextIInv == IInv /\ [Next]_vars => IInv'
<1> SUFFICES ASSUME IInv, [Next]_vars
             PROVE  IInv'
  OBVIOUS
<1>1. TypeOK'
  BY TypeStep DEF IInv
<1>2. ASSUME NEW d \in Desks, Handler(d)
      PROVE  IInv'
  BY <1>1, <1>2, ConfirmDepositIInv, CancelBookingIInv, UpdateBookingIInv, CheckInReadIInv,
     CheckInSaveIInv, InsertBookingsIInv, QuietHandlersIInv DEF Handler
<1>3. CASE ExpirePending \/ Tick \/ Restart \/ UNCHANGED vars
  BY <1>1, <1>3, HouseIInv
<1> QED
  BY <1>2, <1>3 DEF Next

\* The inductive invariant of the desk holds in every state.
THEOREM InvariantHolds == Spec => []IInv
BY InitIInv, NextIInv, PTL DEF Spec

-----------------------------------------------------------------------------
(* What follows from the invariant.                                        *)

\* No slot is ever kept by two live bookings, for every number of requests in
\* flight, whichever locks are lost and whichever check-in saves late.
THEOREM SlotsAreNeverDoubleBooked == Spec => []NoDoubleBooking
<1>1. IInv => NoDoubleBooking
  BY DEF IInv
<1> QED
  BY <1>1, InvariantHolds, PTL

\* A hold never carries money, so what the expiry worker and the sweeps cancel
\* nobody has paid for.
THEOREM HoldsNeverCarryMoney == Spec => []HoldsCarryNoMoney
<1>1. IInv => HoldsCarryNoMoney
  <2> SUFFICES ASSUME IInv, NEW b \in Ids, rows[b].status = "pending"
               PROVE  rows[b].paid = 0 /\ received[b] = returned[b]
    BY DEF HoldsCarryNoMoney
  <2>1. BookOK(b) /\ received[b] \in Nat /\ returned[b] \in Nat
    BY DEF IInv, BooksOK, TypeOK, TablesTypeOK
  <2>2. rows[b].paid = 0 /\ received[b] - returned[b] = 0
    BY <2>1 DEF BookOK
  <2> QED
    BY <2>1, <2>2
<1> QED
  BY <1>1, InvariantHolds, PTL

\* The ledger of payments and the deposit on the booking agree for every
\* booking that no check-in has overwritten with a stale row.
THEOREM LedgerAgrees == Spec => []LedgerBacksDeposit
<1>1. IInv => LedgerBacksDeposit
  BY DEF IInv, BooksOK, BookOK, LedgerBacksDeposit
<1> QED
  BY <1>1, InvariantHolds, PTL

\* A booking for which more is paid back than was received is one that a check-in
\* has overwritten: the refund of CancelBooking follows the deposit on the booking,
\* and only a stale Save parts that from the ledger.
THEOREM OnlyOverwrittenRefundTooMuch ==
  Spec => [](\A b \in Ids \ clobbered : returned[b] <= received[b])
<1>1. IInv => \A b \in Ids \ clobbered : returned[b] <= received[b]
  <2> SUFFICES ASSUME IInv, NEW b \in Ids \ clobbered PROVE returned[b] <= received[b]
    OBVIOUS
  <2>1. BookOK(b) /\ rows[b].paid \in Nat /\ received[b] \in Nat /\ returned[b] \in Nat
    BY DEF IInv, BooksOK, TypeOK, TablesTypeOK, Row
  <2>2. received[b] - returned[b] \in {0, rows[b].paid, rows[b].paid - rows[b].paid \div 2}
    BY <2>1 DEF BookOK
  <2>3. rows[b].paid - rows[b].paid \div 2 >= 0
    BY <2>1
  <2> QED
    BY <2>1, <2>2, <2>3
<1> QED
  BY <1>1, InvariantHolds, PTL

\* What is due on a live booking is always its price less its deposit.
THEOREM DueIsRight == Spec => []DueIsOutstanding
<1>1. IInv => DueIsOutstanding
  <2> SUFFICES ASSUME IInv, NEW b \in Ids, rows[b].status \in Live
               PROVE  rows[b].due = IF rows[b].paid > rows[b].total THEN 0
                                                                    ELSE rows[b].total - rows[b].paid
    BY DEF DueIsOutstanding
  <2>1. BookOK(b) /\ rows[b].paid \in Nat /\ rows[b].total \in Prices
    BY DEF IInv, BooksOK, TypeOK, TablesTypeOK, Row
  <2>2. rows[b].total \in Nat
    BY <2>1, PricesAssumption
  <2> QED
    BY <2>1, <2>2 DEF BookOK, Outstanding
<1> QED
  BY <1>1, InvariantHolds, PTL

\* A canceled booking comes back only in the Save of a check-in that had read
\* it before: no sweep, confirmation, deposit, update or insertion revives it.
THEOREM NothingElseRevives == Spec => OnlyStaleCheckInRevives
<1> DEFINE Revived(b) == rows[b].status = "canceled" /\ rows'[b].status # "canceled"
           Stale(b)   == \E d \in Desks : pc[d] = "checkin" /\ snap[d].id = b /\ snap[d].row # rows[b]
           Good       == \A b \in Ids : Revived(b) => Stale(b)
<1>1. ASSUME IInv, Next
      PROVE  Good
  <2> SUFFICES ASSUME NEW b \in Ids, Revived(b)
               PROVE  Stale(b)
    OBVIOUS
  <2>1. rows[b] \in Row /\ rows[b].status \notin Live /\ rows[b].status # "pending"
    BY <1>1 DEF IInv, TypeOK, TablesTypeOK, Live
  <2>2. Expire(rows[b]) = rows[b] /\ ConfirmedRow(rows[b]) = rows[b]
    BY <2>1 DEF Expire, Lapsed, ConfirmedRow
  <2>3. ASSUME NEW c \in Ids, NEW n, rows' = [rows EXCEPT ![c] = n]
        PROVE  b = c
    BY <1>1, <2>3 DEF IInv, TypeOK, TablesTypeOK
  <2>4. ASSUME ExpirePending \/ Tick \/ Restart
        PROVE  FALSE
    BY <2>2, <2>4 DEF ExpirePending, ExpireTx, Tick, Restart, money
  <2>5. ASSUME NEW d \in Desks,
               \/ \E s \in Slots : CreateOne(d, s)
               \/ \E lo, hi \in Slots : CreateRange(d, lo, hi)
               \/ HoldSlot(d) \/ InsertFails(d) \/ ReleaseLocks(d)
               \/ ConfirmManagedBookings(d) \/ ConfirmFails(d)
        PROVE  FALSE
    <3>1. rows'[b] \in {rows[b], Expire(rows[b]), ConfirmedRow(rows[b])}
      BY <2>5 DEF CreateOne, CreateRange, HoldSlot, InsertFails, ReleaseLocks, ConfirmFails,
                  ConfirmManagedBookings, ConfirmTx, ExpirePendingByTimeSlot, money
    <3> QED
      BY <2>2, <3>1
  <2>6. ASSUME NEW d \in Desks, InsertBookings(d)
        PROVE  FALSE
    <3>1. ~(b >= nextId)
      BY <1>1 DEF IInv, BooksOK, BookOK
    <3>2. rows'[b] = rows[b]
      BY <2>6, <3>1, WantedAreFinite, <1>1 DEF InsertBookings, InsertTx, IInv, TypeOK, TablesTypeOK, Ids, money
    <3> QED
      BY <3>2
  <2>7. ASSUME NEW d \in Desks, NEW c \in Ids,
               \/ \E amount \in 1..rows[c].due : ConfirmDeposit(d, c, amount)
               \/ CancelBooking(d, c)
               \/ \E s \in Slots, p \in 0..MaxReceived : UpdateBooking(d, c, s, p)
               \/ CheckInRead(d, c)
        PROVE  FALSE
    <3>1. CASE CheckInRead(d, c)
      BY <3>1 DEF CheckInRead, money
    <3>2. CASE ~CheckInRead(d, c)
      <4>1. rows[c].status \in Live
        BY <2>7, <3>2 DEF ConfirmDeposit, DepositTx, CancelBooking, CancelTx, UpdateBooking, UpdateTx
      <4>2. \E n : rows' = [rows EXCEPT ![c] = n]
        BY <2>7, <3>2 DEF ConfirmDeposit, DepositTx, CancelBooking, CancelTx, UpdateBooking, UpdateTx
      <4> QED
        BY <2>1, <2>3, <4>1, <4>2
    <3> QED
      BY <3>1, <3>2
  <2>8. ASSUME NEW d \in Desks, CheckInSave(d)
        PROVE  Stale(b)
    <3>1. rows' = [rows EXCEPT ![snap[d].id] = CheckedInRow(snap[d].row)] /\ pc[d] = "checkin"
      BY <2>8 DEF CheckInSave, money
    <3>2. snap[d].id = b
      BY <1>1, <2>3, <3>1 DEF IInv, TypeOK, TablesTypeOK
    <3>3. snap[d].row.status \in {"pending", "confirmed"}
      BY <1>1, <3>1 DEF IInv, SnapsOK, SnapOK
    <3> QED
      BY <3>1, <3>2, <3>3
  <2> QED
    BY <1>1, <2>4, <2>5, <2>6, <2>7, <2>8 DEF Next, Handler
<1>2. IInv /\ [Next]_vars => [Good]_vars
  BY <1>1
<1> QED
  BY <1>2, InvariantHolds, PTL DEF Spec, OnlyStaleCheckInRevives

-----------------------------------------------------------------------------
(***************************************************************************)
(* BookingDesk implements SlotCalendar with bookings as the parties: every *)
(* handler gives slots out, takes slots back, moves one booking, or leaves *)
(* the calendar as it is.  The argument needs the invariant above: only    *)
(* because a slot has at most one holder does taking that holder away      *)
(* leave the slot free.                                                    *)
(***************************************************************************)

Keeps(b, s) == rows[b].slot = s /\ rows[b].status \in Live

\* The refinement mapping.
Holders == [s \in Slots |-> {b \in Ids : Keeps(b, s)}]

LEMMA HoldersAreBookings ==
  /\ Holders \in [Slots -> SUBSET Ids]
  /\ \A s \in Slots : Holders[s] = {b \in Ids : Keeps(b, s)}
BY DEF Holders

LEMMA HoldersMap == Holders = [s \in Slots |-> {b \in Ids : rows[b].slot = s /\ rows[b].status \in Live}]
BY DEF Holders, Keeps

\* A slot has at most one holder.
LEMMA OneHolder ==
  ASSUME IInv, NEW s \in Slots, NEW b \in Holders[s]
  PROVE  Holders[s] = {b}
BY HoldersAreBookings DEF IInv, NoDoubleBooking, Keeps, Live

\* Bookings that stay where they are or end give their slots back.
LEMMA EndingGivesBack ==
  ASSUME IInv,
         \A b \in Ids : /\ rows'[b].slot = rows[b].slot
                        /\ rows'[b].status \in Live => rows[b].status \in Live
  PROVE  Calendar!GiveBack
<1>1. ASSUME NEW s \in Slots
      PROVE  Holders'[s] \in {Holders[s], {}}
  <2>1. Holders'[s] \subseteq Holders[s]
    BY HoldersAreBookings DEF Holders, Keeps, Live
  <2>2. CASE Holders[s] = {}
    BY <2>1, <2>2
  <2>3. CASE Holders[s] # {}
    <3>1. PICK b \in Holders[s] : TRUE
      BY <2>3
    <3>2. Holders[s] = {b}
      BY OneHolder
    <3> QED
      BY <2>1, <3>2
  <2> QED
    BY <2>2, <2>3
<1>2. Holders' \in [Slots -> SUBSET Ids]
  BY DEF Holders
<1> QED
  BY <1>1, <1>2, HoldersMap DEF Calendar!GiveBack, Holders, Keeps

\* A booking that is live afterwards moves: it leaves its slot, and takes one
\* that was free or its own.
LEMMA MovingReschedules ==
  ASSUME IInv, NEW b \in Ids, NEW n \in Row, rows' = [rows EXCEPT ![b] = n], n.status \in Live,
         \/ rows[b].status \in Live /\ n.slot = rows[b].slot
         \/ ~IndexRejects(n.slot, b)
  PROVE  Calendar!Reschedule(b)
<1>1. \A c \in Ids : rows'[c] = IF c = b THEN n ELSE rows[c]
  BY DEF IInv, TypeOK, TablesTypeOK
<1>2. n.slot \in Slots
  BY DEF Row
<1>3. Holders[n.slot] \subseteq {b}
  <2>1. CASE rows[b].status \in Live /\ n.slot = rows[b].slot
    BY <1>2, <2>1, OneHolder DEF Holders, Keeps
  <2>2. CASE ~IndexRejects(n.slot, b)
    BY <1>2, <2>2 DEF Holders, Keeps, IndexRejects, Indexed, Live
  <2> QED
    BY <2>1, <2>2
<1>4. Holders'[n.slot] = {b}
  <2>1. b \in Holders'[n.slot]
    BY <1>1, <1>2 DEF Holders, Keeps, Live
  <2>2. ASSUME NEW c \in Ids \ {b}
        PROVE  c \notin Holders'[n.slot]
    BY <1>1, <1>2, <1>3 DEF Holders, Keeps, Live
  <2>3. Holders'[n.slot] \subseteq Ids
    BY <1>2 DEF Holders
  <2> QED
    BY <2>1, <2>2, <2>3
<1>5. ASSUME NEW s \in Slots \ {n.slot}
      PROVE  Holders'[s] = Holders[s] \ {b}
  BY <1>1, <1>5 DEF Holders, Keeps
<1>6. Holders' \in [Slots -> SUBSET Ids]
  BY DEF Holders
<1> QED
  BY <1>3, <1>4, <1>5, <1>6, HoldersMap DEF Calendar!Reschedule, Holders, Keeps

\* A creation grants the slots it wanted, which the index found free.
LEMMA InsertionGrants ==
  ASSUME IInv, NEW d \in Desks, InsertBookings(d)
  PROVE  Calendar!Grant
<1>0. PICK new \in SUBSET Ids : InsertTx(new, want[d])
  BY DEF InsertBookings
<1>1. PICK at \in [new -> want[d]], price \in [new -> Prices] :
        /\ \A b, c \in new : b < c => at[b] < at[c]
        /\ rows' = [b \in Ids |-> IF b \in new THEN NewPendingRow(at[b], price[b]) ELSE rows[b]]
  BY <1>0 DEF InsertTx
<1>2. /\ now \in Nat /\ want[d] \in SUBSET Slots
      /\ new = nextId..(nextId + Cardinality(want[d]) - 1)
  BY <1>0, SizesAssumption DEF IInv, TypeOK, TablesTypeOK, InsertTx
<1>3. ASSUME NEW b \in new
      PROVE  /\ b \in Ids /\ at[b] \in want[d] /\ at[b] \in Slots
             /\ rows'[b].slot = at[b] /\ rows'[b].status \in Live
             /\ rows[b].status = "none"
  <2>1. b \in Ids /\ at[b] \in want[d] /\ at[b] \in Slots /\ price[b] \in Prices
    BY <1>2
  <2>2. rows'[b] = NewPendingRow(at[b], price[b])
    BY <1>1, <2>1
  <2>3. b >= nextId
    BY WantedAreFinite, <1>2 DEF IInv, TypeOK, TablesTypeOK
  <2>4. rows[b].status = "none"
    BY <2>1, <2>3 DEF IInv, BooksOK, BookOK
  <2> QED
    BY <1>2, <2>1, <2>2, <2>4, NewPendingRowType DEF Live
<1>4. ASSUME NEW b \in Ids \ new
      PROVE  rows'[b] = rows[b]
  BY <1>1
<1>5. ASSUME NEW s \in Slots
      PROVE  \/ Holders'[s] = Holders[s]
             \/ Holders[s] = {} /\ \E b \in Ids : Holders'[s] = {b}
  <2>1. CASE \E b \in new : at[b] = s
    <3>1. PICK b \in new : at[b] = s
      BY <2>1
    <3>2. ~IndexRejects(s, 0)
      BY <1>0, <1>3, <3>1 DEF InsertTx, InsertRejected
    <3>3. Holders[s] = {}
      BY <3>2 DEF Holders, Keeps, IndexRejects, Indexed, Live, Ids
    <3>4. ASSUME NEW c \in Holders'[s]
          PROVE  c = b
      <4>1. c \in Ids /\ rows'[c].slot = s /\ rows'[c].status \in Live
        BY <3>4 DEF Holders, Keeps, Live
      <4>2. c \in new
        BY <1>4, <3>3, <4>1 DEF Holders, Keeps
      <4>3. at[c] = s
        BY <1>3, <4>1, <4>2
      <4>4. b \in Int /\ c \in Int /\ s \in Int
        BY <4>1, <1>3, <3>1 DEF Ids, Slots
      <4> QED
        BY <1>1, <3>1, <4>2, <4>3, <4>4
    <3>5. b \in Holders'[s]
      BY <1>3, <3>1 DEF Holders, Keeps, Live
    <3> QED
      BY <1>3, <3>1, <3>3, <3>4, <3>5
  <2>2. CASE ~\E b \in new : at[b] = s
    <3>1. ASSUME NEW b \in Ids
          PROVE  Keeps(b, s)' <=> Keeps(b, s)
      <4>1. CASE b \in new
        BY <1>3, <2>2, <4>1 DEF Keeps, Live
      <4>2. CASE b \notin new
        BY <1>4, <4>2 DEF Keeps, Live
      <4> QED
        BY <4>1, <4>2
    <3> QED
      BY <3>1 DEF Holders
  <2> QED
    BY <2>1, <2>2
<1>6. Holders' \in [Slots -> SUBSET Ids]
  BY DEF Holders
<1> QED
  BY <1>5, <1>6, HoldersMap DEF Calendar!Grant, Holders, Keeps

LEMMA StepRefines ==
  ASSUME IInv, [Next]_vars
  PROVE  Calendar!Next \/ UNCHANGED Holders
<1>1. ASSUME \A b \in Ids : rows'[b] \in {rows[b], Expire(rows[b]), ConfirmedRow(rows[b])}
      PROVE  Calendar!GiveBack
  <2>1. ASSUME NEW b \in Ids
        PROVE  rows'[b].slot = rows[b].slot /\ (rows'[b].status \in Live => rows[b].status \in Live)
    <3>1. rows[b] \in Row
      BY DEF IInv, TypeOK, TablesTypeOK
    <3>2. CASE rows'[b] = rows[b]
      BY <3>2
    <3>3. CASE rows'[b] = Expire(rows[b])
      BY <3>1, <3>3, ExpireType DEF Live
    <3>4. CASE rows'[b] = ConfirmedRow(rows[b])
      BY <3>1, <3>4, ConfirmedRowType DEF Live
    <3> QED
      BY <1>1, <3>2, <3>3, <3>4
  <2> QED
    BY <2>1, EndingGivesBack
<1>2. ASSUME NEW d \in Desks,
             \/ \E s \in Slots : CreateOne(d, s)
             \/ \E lo, hi \in Slots : CreateRange(d, lo, hi)
             \/ HoldSlot(d) \/ InsertFails(d) \/ ReleaseLocks(d)
             \/ ConfirmManagedBookings(d) \/ ConfirmFails(d)
             \/ \E b \in Ids : CheckInRead(d, b)
      PROVE  Calendar!GiveBack
  <2>1. \A b \in Ids : rows'[b] \in {rows[b], Expire(rows[b]), ConfirmedRow(rows[b])}
    BY <1>2 DEF CreateOne, CreateRange, HoldSlot, InsertFails, ReleaseLocks, ConfirmFails,
                ConfirmManagedBookings, ConfirmTx, CheckInRead, ExpirePendingByTimeSlot, money
  <2> QED
    BY <1>1, <2>1
<1>3. ASSUME NEW d \in Desks, NEW b \in Ids, NEW amount \in 1..rows[b].due, ConfirmDeposit(d, b, amount)
      PROVE  Calendar!Reschedule(b)
  <2>1. rows[b] \in Row /\ amount \in Nat
    BY DEF IInv, TypeOK, TablesTypeOK, Row
  <2>2. rows[b].status \in Live /\ rows' = [rows EXCEPT ![b] = DepositedRow(rows[b], amount)]
    BY <1>3 DEF ConfirmDeposit, DepositTx
  <2>3. DepositedRow(rows[b], amount).status \in Live
    BY <2>1, <2>2, DepositedRowType DEF Live
  <2> QED
    BY <2>1, <2>2, <2>3, DepositedRowType, MovingReschedules
<1>4. ASSUME NEW d \in Desks, NEW b \in Ids, CancelBooking(d, b)
      PROVE  Calendar!GiveBack
  <2>1. rows' = [rows EXCEPT ![b] = CanceledRow(rows[b])] /\ rows[b] \in Row
    BY <1>4 DEF CancelBooking, CancelTx, IInv, TypeOK, TablesTypeOK
  <2>2. ASSUME NEW c \in Ids
        PROVE  rows'[c].slot = rows[c].slot /\ (rows'[c].status \in Live => rows[c].status \in Live)
    BY <2>1, CanceledRowType DEF IInv, TypeOK, TablesTypeOK, Live
  <2> QED
    BY <2>2, EndingGivesBack
<1>5. ASSUME NEW d \in Desks, NEW b \in Ids, NEW s \in Slots, NEW p \in 0..MaxReceived,
             UpdateBooking(d, b, s, p)
      PROVE  Calendar!Reschedule(b)
  <2>1. rows[b] \in Row /\ rows[b].total \in Prices /\ p \in Nat
    BY SizesAssumption DEF IInv, TypeOK, TablesTypeOK, Row
  <2>2. PICK total \in (IF s # rows[b].slot THEN Prices ELSE {rows[b].total}) :
          rows' = [rows EXCEPT ![b] = UpdatedRow(rows[b], s, total, p)]
    BY <1>5 DEF UpdateBooking, UpdateTx
  <2>3. rows[b].status \in Live /\ (s # rows[b].slot => ~IndexRejects(s, b))
    BY <1>5 DEF UpdateBooking, UpdateTx
  <2>4. total \in Prices
    BY <2>1, <2>2
  <2>5. /\ UpdatedRow(rows[b], s, total, p) \in Row
        /\ UpdatedRow(rows[b], s, total, p).slot = s
        /\ UpdatedRow(rows[b], s, total, p).status \in Live
    BY <2>1, <2>3, <2>4, UpdatedRowType DEF Live
  <2> QED
    BY <2>2, <2>3, <2>5, MovingReschedules
<1>6. ASSUME NEW d \in Desks, CheckInSave(d)
      PROVE  UNCHANGED Holders \/ \E b \in Ids : Calendar!Reschedule(b)
  <2>0. PICK b \in Ids, r \in Row : b = snap[d].id /\ r = snap[d].row
    BY DEF IInv, TypeOK, TablesTypeOK
  <2>1. CASE rows' = rows
    BY <2>1 DEF Holders, Keeps
  <2>2. CASE rows' # rows
    <3>1. ~IndexRejects(r.slot, b) /\ rows' = [rows EXCEPT ![b] = CheckedInRow(r)]
      BY <1>6, <2>0, <2>2 DEF CheckInSave, money
    <3> QED
      BY <3>1, CheckedInRowType, MovingReschedules DEF Live
  <2> QED
    BY <2>1, <2>2
<1>7. ASSUME ExpirePending \/ Tick \/ Restart \/ UNCHANGED vars
      PROVE  Calendar!GiveBack
  <2>1. \A b \in Ids : rows'[b] \in {rows[b], Expire(rows[b])}
    BY <1>7 DEF ExpirePending, ExpireTx, Tick, Restart, vars, money
  <2> QED
    BY <1>1, <2>1
<1>8. ASSUME NEW d \in Desks, Handler(d)
      PROVE  Calendar!Next \/ UNCHANGED Holders
  BY <1>2, <1>3, <1>4, <1>5, <1>6, <1>8, InsertionGrants DEF Handler, Calendar!Next
<1> QED
  BY <1>7, <1>8 DEF Next, Calendar!Next

\* The booking desk implements the slot calendar: whatever requests race, and
\* whatever check-in saves late, a slot passes from one booking to another only
\* by being free in between, and a move takes only a free slot or its own.
THEOREM DeskImplementsCalendar == Spec => ImplementsCalendar
<1>1. Init => Calendar!Init
  BY NoRowFields DEF Init, TablesInit, Calendar!Init, TablesInit, Live
<1>2. IInv /\ [Next]_vars =>
        [Calendar!Next]_[s \in Slots |-> {b \in Ids : rows[b].slot = s /\ rows[b].status \in Live}]
  BY StepRefines DEF Holders, Keeps
<1> QED
  BY <1>1, <1>2, InvariantHolds, PTL DEF Spec, ImplementsCalendar, Calendar!Spec
=============================================================================
