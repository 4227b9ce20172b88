------------------------ MODULE BookingTablesProofs ------------------------
(***************************************************************************)
(* Lemmas about the rows and transactions of BookingTables, for the proofs *)
(* about the two modules that work on the tables.                          *)
(***************************************************************************)
EXTENDS BookingTables, FiniteSetTheorems, TLAPS

-----------------------------------------------------------------------------
(* Rows: what the operators of a row keep.                                 *)

LEMMA NoRowType == NoRow \in Row
BY SizesAssumption, PricesAssumption DEF NoRow, Row, Statuses, Live, Slots, Ids

LEMMA NoRowFields == NoRow.status = "none" /\ NoRow.paid = 0
BY DEF NoRow

LEMMA NewPendingRowType ==
  ASSUME NEW s \in Slots, NEW p \in Prices, now \in Nat
  PROVE  /\ NewPendingRow(s, p) \in Row
         /\ NewPendingRow(s, p).slot = s
         /\ NewPendingRow(s, p).status = "pending"
         /\ NewPendingRow(s, p).total = p
         /\ NewPendingRow(s, p).due = p
         /\ NewPendingRow(s, p).paid = 0
BY PricesAssumption, TimesAssumption DEF NewPendingRow, Row, Statuses, Live

LEMMA ExpireType ==
  ASSUME NEW r \in Row
  PROVE  /\ Expire(r) \in Row
         /\ Expire(r).slot = r.slot /\ Expire(r).paid = r.paid
         /\ Expire(r).due = r.due /\ Expire(r).total = r.total
         /\ Expire(r).status \in {r.status, "canceled"}
         /\ Expire(r).status # r.status => r.status = "pending"
BY DEF Expire, Lapsed, Row, Statuses, Live

LEMMA ConfirmedRowType ==
  ASSUME NEW r \in Row
  PROVE  /\ ConfirmedRow(r) \in Row
         /\ ConfirmedRow(r).slot = r.slot /\ ConfirmedRow(r).paid = r.paid
         /\ ConfirmedRow(r).due = r.due /\ ConfirmedRow(r).total = r.total
         /\ ConfirmedRow(r).status = IF r.status = "pending" THEN "confirmed" ELSE r.status
BY DEF ConfirmedRow, Row, Statuses, Live

LEMMA RefundType ==
  ASSUME NEW r \in Row
  PROVE  Refund(r) \in Nat /\ Refund(r) \in {r.paid, r.paid \div 2}
<1>1. r.paid \in Nat
  BY DEF Row
<1>2. r.paid \div 2 \in Nat
  BY <1>1
<1> QED
  BY <1>1, <1>2 DEF Refund

LEMMA OutstandingType ==
  ASSUME NEW total \in Nat, NEW paid \in Nat
  PROVE  Outstanding(total, paid) \in Nat
BY DEF Outstanding

LEMMA DepositedRowType ==
  ASSUME NEW r \in Row, NEW amount \in Nat
  PROVE  /\ DepositedRow(r, amount) \in Row
         /\ DepositedRow(r, amount).slot = r.slot
         /\ DepositedRow(r, amount).total = r.total
         /\ DepositedRow(r, amount).paid = r.paid + amount
         /\ DepositedRow(r, amount).due = r.total - (r.paid + amount)
         /\ DepositedRow(r, amount).status = IF r.status = "pending" THEN "confirmed" ELSE r.status
<1>1. ConfirmedRow(r) \in Row /\ ConfirmedRow(r).paid = r.paid
  BY ConfirmedRowType
<1>2. r.total \in Prices /\ r.paid \in Nat
  BY DEF Row
<1>3. r.total \in Nat
  BY <1>2, PricesAssumption
<1>4. r.paid + amount \in Nat /\ r.total - (r.paid + amount) \in Int
  BY <1>2, <1>3
<1> QED
  BY <1>1, <1>4, ConfirmedRowType DEF DepositedRow, Row

LEMMA CanceledRowType ==
  ASSUME NEW r \in Row
  PROVE  /\ CanceledRow(r) \in Row
         /\ CanceledRow(r).status = "canceled"
         /\ CanceledRow(r).slot = r.slot /\ CanceledRow(r).paid = r.paid
BY DEF CanceledRow, Row, Statuses

LEMMA UpdatedRowType ==
  ASSUME NEW r \in Row, NEW s \in Slots, NEW total \in Prices, NEW p \in Nat
  PROVE  /\ UpdatedRow(r, s, total, p) \in Row
         /\ UpdatedRow(r, s, total, p).slot = s
         /\ UpdatedRow(r, s, total, p).total = total
         /\ UpdatedRow(r, s, total, p).paid = p
         /\ UpdatedRow(r, s, total, p).due = Outstanding(total, p)
         /\ UpdatedRow(r, s, total, p).status =
              IF p > 0 /\ r.status = "pending" THEN "confirmed" ELSE r.status
<1> DEFINE base == IF p > 0 THEN ConfirmedRow(r) ELSE r
<1>1. base \in Row /\ base.status = IF p > 0 /\ r.status = "pending" THEN "confirmed" ELSE r.status
  BY ConfirmedRowType
<1>2. Outstanding(total, p) \in Int
  BY PricesAssumption, OutstandingType
<1> QED
  BY <1>1, <1>2 DEF UpdatedRow, Row

LEMMA CheckedInRowType ==
  ASSUME NEW r \in Row
  PROVE  /\ CheckedInRow(r) \in Row
         /\ CheckedInRow(r).status = "checked_in"
         /\ CheckedInRow(r).slot = r.slot /\ CheckedInRow(r).paid = r.paid
         /\ CheckedInRow(r).due = r.due /\ CheckedInRow(r).total = r.total
BY DEF CheckedInRow, Row, Statuses, Live

LEMMA SweepType ==
  ASSUME rows \in [Ids -> Row], NEW s \in Slots
  PROVE  ExpirePendingByTimeSlot(s) \in [Ids -> Row]
BY ExpireType DEF ExpirePendingByTimeSlot

LEMMA PostType ==
  ASSUME received \in [Ids -> Nat], returned \in [Ids -> Nat],
         NEW b \in Ids, NEW amount \in Int, Post(b, amount)
  PROVE  /\ received' \in [Ids -> Nat] /\ returned' \in [Ids -> Nat]
         /\ received'[b] - returned'[b] = received[b] - returned[b] + amount
         /\ \A c \in Ids \ {b} : received'[c] = received[c] /\ returned'[c] = returned[c]
BY DEF Post

LEMMA WantedAreFinite ==
  ASSUME NEW S \in SUBSET Slots
  PROVE  Cardinality(S) \in Nat
<1>1. IsFiniteSet(Slots)
  BY SizesAssumption, FS_Interval DEF Slots
<1> QED
  BY <1>1, FS_Subset, FS_CardinalityType

-----------------------------------------------------------------------------
(* Transactions: what they leave in the tables.                            *)

\* One row is replaced: two bookings do not meet on a slot when the row stays
\* on the slot of a live booking, or the index has let it in.
LEMMA OneRowStep ==
  ASSUME TablesTypeOK, NoDoubleBooking, NEW b \in Ids, NEW n \in Row,
         rows' = [rows EXCEPT ![b] = n],
         \/ n.status \notin Live
         \/ rows[b].status \in Live /\ n.slot = rows[b].slot
         \/ ~IndexRejects(n.slot, b)
  PROVE  NoDoubleBooking'
<1>1. \A c \in Ids : rows'[c] = IF c = b THEN n ELSE rows[c]
  BY DEF TablesTypeOK
<1>2. ASSUME NEW c \in Ids \ {b}, rows[c].status \in Live, n.status \in Live, rows[c].slot = n.slot
      PROVE  FALSE
  BY <1>2 DEF NoDoubleBooking, IndexRejects, Indexed, Live
<1> QED
  BY <1>1, <1>2 DEF NoDoubleBooking, Live

\* The sweeps and the confirmation of holds change statuses and nothing else.
LEMMA StatusOnly ==
  ASSUME NEW r \in Row, NEW n \in {r, Expire(r), ConfirmedRow(r)}
  PROVE  /\ n \in Row
         /\ n.slot = r.slot /\ n.paid = r.paid /\ n.due = r.due /\ n.total = r.total
         /\ n.status \in Live => r.status \in Live
         /\ n.status = "pending" => r.status = "pending"
         /\ n.status # r.status => r.status = "pending"
         /\ n.status = "none" <=> r.status = "none"
<1>1. CASE n = r
  BY <1>1
<1>2. CASE n = Expire(r)
  BY <1>2, ExpireType DEF Live
<1>3. CASE n = ConfirmedRow(r)
  BY <1>3, ConfirmedRowType DEF Live
<1> QED
  BY <1>1, <1>2, <1>3

\* An insertion: one hold on each slot of S, on which the index found nothing.
Inserts(S, new) ==
  /\ Cardinality(S) \in Nat
  /\ nextId' = nextId + Cardinality(S)
  /\ new = nextId..(nextId' - 1)
  /\ UNCHANGED <<now, received, returned>>
  /\ rows' \in [Ids -> Row]
  /\ \A b \in new : /\ rows'[b].slot \in S
                    /\ rows'[b].status = "pending"
                    /\ rows'[b].paid = 0
                    /\ rows'[b].due = rows'[b].total
                    /\ \A c \in Ids : rows[c].slot = rows'[b].slot => rows[c].status \notin Live
  /\ \A b, c \in new : rows'[b].slot = rows'[c].slot => b = c
  /\ \A b \in Ids \ new : rows'[b] = rows[b]

LEMMA InsertedRows ==
  ASSUME TablesTypeOK, NEW S \in SUBSET Slots, NEW new \in SUBSET Ids, InsertTx(new, S)
  PROVE  Inserts(S, new)
<1>1. PICK at \in [new -> S], price \in [new -> Prices] :
        /\ \A b, c \in new : b < c => at[b] < at[c]
        /\ rows' = [b \in Ids |-> IF b \in new THEN NewPendingRow(at[b], price[b]) ELSE rows[b]]
  BY DEF InsertTx
<1>2. now \in Nat /\ nextId \in Nat /\ Cardinality(S) \in Nat
  BY SizesAssumption, WantedAreFinite DEF TablesTypeOK
<1>3. /\ nextId' = nextId + Cardinality(S)
      /\ new = nextId..(nextId' - 1)
      /\ UNCHANGED <<now, received, returned>>
  BY <1>2 DEF InsertTx, money
<1>4. ASSUME NEW b \in new
      PROVE  /\ rows'[b] = NewPendingRow(at[b], price[b]) /\ rows'[b] \in Row
             /\ at[b] \in Slots /\ at[b] \in S
             /\ rows'[b].slot = at[b] /\ rows'[b].status = "pending" /\ rows'[b].paid = 0
             /\ rows'[b].due = rows'[b].total
             /\ \A c \in Ids : rows[c].slot = at[b] => rows[c].status \notin Live
  <2>1. at[b] \in S /\ at[b] \in Slots /\ price[b] \in Prices /\ b \in Ids
    OBVIOUS
  <2>2. rows'[b] = NewPendingRow(at[b], price[b])
    BY <1>1, <2>1
  <2>3. ~IndexRejects(at[b], 0)
    BY <2>1 DEF InsertTx, InsertRejected
  <2>4. \A c \in Ids : rows[c].slot = at[b] => rows[c].status \notin Live
    BY <2>3 DEF IndexRejects, Indexed, Live, Ids
  <2> QED
    BY <1>2, <2>1, <2>2, <2>4, NewPendingRowType
<1>5. ASSUME NEW b \in new, NEW c \in new, rows'[b].slot = rows'[c].slot
      PROVE  b = c
  <2>1. b \in Int /\ c \in Int /\ at[b] \in Int /\ at[c] \in Int
    BY <1>4 DEF Ids, Slots
  <2>2. at[b] = at[c]
    BY <1>4, <1>5
  <2>3. ~(b < c) /\ ~(c < b)
    BY <1>1, <2>1, <2>2
  <2> QED
    BY <2>1, <2>3
<1>6. \A b \in Ids \ new : rows'[b] = rows[b]
  BY <1>1
<1>7. rows' \in [Ids -> Row]
  <2>1. \A b \in Ids : rows'[b] \in Row
    BY <1>4, <1>6 DEF TablesTypeOK
  <2>2. rows' = [b \in Ids |-> rows'[b]]
    BY <1>1
  <2> QED
    BY <2>1, <2>2
<1> QED
  BY <1>2, <1>3, <1>4, <1>5, <1>6, <1>7 DEF Inserts

\* The new holds meet nobody, and each other on no slot.
LEMMA InsertionMeetsNobody ==
  ASSUME TablesTypeOK, NoDoubleBooking,
         NEW S \in SUBSET Slots, NEW new \in SUBSET Ids, InsertTx(new, S)
  PROVE  NoDoubleBooking'
<1> SUFFICES ASSUME NEW b \in Ids, NEW c \in Ids,
                    rows'[b].status \in Live, rows'[c].status \in Live,
                    rows'[b].slot = rows'[c].slot
             PROVE  b = c
  BY DEF NoDoubleBooking, Live
<1>0. /\ \A d \in Ids \ new : rows'[d] = rows[d]
      /\ \A d, e \in new : rows'[d].slot = rows'[e].slot => d = e
      /\ \A d \in new : \A e \in Ids : rows[e].slot = rows'[d].slot => rows[e].status \notin Live
  BY InsertedRows DEF Inserts
<1>1. CASE b \in new /\ c \in new
  BY <1>0, <1>1
<1>2. CASE b \in new /\ c \notin new
  BY <1>0, <1>2
<1>3. CASE b \notin new /\ c \in new
  BY <1>0, <1>3
<1>4. CASE b \notin new /\ c \notin new
  BY <1>0, <1>4 DEF NoDoubleBooking
<1> QED
  BY <1>1, <1>2, <1>3, <1>4

\* Where bookings keep their slots and none becomes live, none meet.
LEMMA EndingMeetsNobody ==
  ASSUME NoDoubleBooking,
         \A b \in Ids : /\ rows'[b].slot = rows[b].slot
                        /\ rows'[b].status \in Live => rows[b].status \in Live
  PROVE  NoDoubleBooking'
BY DEF NoDoubleBooking, Live
=============================================================================
