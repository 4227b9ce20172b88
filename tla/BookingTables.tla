--------------------------- MODULE BookingTables ---------------------------
(***************************************************************************)
(* The tables of the booking service and what its transactions do to them: *)
(* bookings (models/booking.go) with the partial unique index of           *)
(* db/migration.go, and the payments ledger, kept here as two sums per     *)
(* booking.  BookingDesk adds the requests that race over the tables;      *)
(* BookingGroups adds booking groups.                                      *)
(*                                                                         *)
(* Slots are the consecutive time slots of one court on one day.  Slot     *)
(* prices are decided elsewhere: a booking takes any price of Prices.      *)
(***************************************************************************)
EXTENDS Integers, FiniteSets

CONSTANTS
  NumSlots,     \* slots of the court's day
  MaxId,        \* bound: booking rows ever inserted
  MaxTime,      \* bound: last tick of the clock
  MaxReceived,  \* bound: money ever taken for one booking
  Prices,       \* what a slot may cost
  StartOf,      \* start time of each slot
  Hold,         \* cfg.BookingHoldMinutes
  Policy        \* cfg.CancelPolicyHours

Slots == 1..NumSlots
Ids   == 1..MaxId

ASSUME SizesAssumption  == NumSlots \in Nat \ {0} /\ MaxId \in Nat \ {0}
                           /\ MaxTime \in Nat /\ MaxReceived \in Nat
ASSUME PricesAssumption == Prices \subseteq Nat /\ Prices # {}
ASSUME TimesAssumption  == StartOf \in [Slots -> Nat] /\ Hold \in Nat \ {0} /\ Policy \in Nat

VARIABLES
  now,         \* the clock
  rows,        \* the bookings table
  nextId,      \* next id the bookings table gives out
  received,    \* per booking: sum of its positive payments
  returned     \* per booking: sum of its negative payments, as a positive number

money == <<received, returned>>

-----------------------------------------------------------------------------
(* Rows.  An expires_at of 0 is SQL NULL; "none" is a row not yet there.   *)

Live == {"pending", "confirmed", "checked_in"}
Statuses == Live \cup {"canceled", "none"}
Row == [slot: Slots, status: Statuses, total: Prices, paid: Nat, due: Int, expires: Nat]

NoRow == [slot |-> 1, status |-> "none", total |-> CHOOSE p \in Prices : TRUE,
          paid |-> 0, due |-> 0, expires |-> 0]

\* Wrong: expires_at is left NULL.
NewPendingRowForever(s, p) ==
  [slot |-> s, status |-> "pending", total |-> p, paid |-> 0, due |-> p, expires |-> 0]

NewPendingRow(s, p) ==
  [slot |-> s, status |-> "pending", total |-> p, paid |-> 0, due |-> p,
   expires |-> now + Hold]

\* A hold that has run out, whether or not it was swept.
Lapsed(r) == r.status = "pending" /\ r.expires # 0 /\ r.expires <= now

\* What FindActiveByTimeSlotIDExcludeBooking looks for.
FindActive(s, b) ==
  \E o \in Ids \ {b} : /\ rows[o].slot = s
                       /\ rows[o].status \in Live
                       /\ ~Lapsed(rows[o])

\* Statuses covered by idx_bookings_unique_slot_active.
Indexed == {"pending", "confirmed", "checked_in"}

\* Wrong: the index is missing.
IndexRejectsNothing(s, b) == FALSE

\* The partial unique index would reject row b on slot s.
IndexRejects(s, b) == \E o \in Ids \ {b} : rows[o].slot = s /\ rows[o].status \in Indexed

Expire(r) == IF Lapsed(r) THEN [r EXCEPT !.status = "canceled"] ELSE r

ExpirePendingByTimeSlot(s) ==
  [b \in Ids |-> IF rows[b].slot = s THEN Expire(rows[b]) ELSE rows[b]]

\* Wrong: the status is left at pending.
ConfirmedRowStillPending(r) == IF r.status = "pending" THEN [r EXCEPT !.expires = 0] ELSE r

\* A hold becomes a confirmed booking; any other booking stays what it is.
ConfirmedRow(r) == IF r.status = "pending" THEN [r EXCEPT !.status = "confirmed", !.expires = 0]
                                           ELSE r

\* A deposit also confirms the booking and ends its hold.
DepositedRow(r, amount) ==
  [ConfirmedRow(r) EXCEPT !.paid = @ + amount, !.due = r.total - (r.paid + amount),
                          !.expires = 0]

\* Wrong: late notice forfeits the whole deposit.
RefundNothingLate(r) == IF StartOf[r.slot] - now >= Policy THEN r.paid ELSE 0

\* All of the deposit when there is notice enough, half of it otherwise.
Refund(r) == IF StartOf[r.slot] - now >= Policy THEN r.paid ELSE r.paid \div 2

\* The deposit stays written on a canceled booking.
CanceledRow(r) == [r EXCEPT !.status = "canceled", !.expires = 0]

\* Wrong: no clamp at zero.
OutstandingUnclamped(total, paid) == total - paid

\* What is due once an update has set the price and the amount received.
Outstanding(total, paid) == IF total - paid < 0 THEN 0 ELSE total - paid

\* Money confirms a hold; a hold without money stays one and keeps its deadline.
UpdatedRow(r, s, total, p) ==
  [(IF p > 0 THEN ConfirmedRow(r) ELSE r)
     EXCEPT !.slot = s, !.total = total, !.paid = p, !.due = Outstanding(total, p)]

\* Wrong: the status filter only excludes bookings already checked in.
ArrivesWithAnyStatus(r) == r.status # "checked_in" /\ ~Lapsed(r)

\* The bookings FindByCodeOrPhone returns and CheckIn lets through.
Arrives(r) == r.status \in {"pending", "confirmed"} /\ ~Lapsed(r)

CheckedInRow(r) == [r EXCEPT !.status = "checked_in", !.expires = 0]

\* Bound: a hold made now runs out before the clock stops.
RoomOnTheClock == now + Hold <= MaxTime

-----------------------------------------------------------------------------
(* Transactions.  Each locks the booking's row from read to commit.  *)

TablesInit ==
  /\ now = 0
  /\ rows = [b \in Ids |-> NoRow]
  /\ nextId = 1
  /\ received = [b \in Ids |-> 0]
  /\ returned = [b \in Ids |-> 0]

\* Wrong: only the check that ignores lapsed holds, and no index.
InsertRejectedByCheckOnly(S) == \E s \in S : FindActive(s, 0)

\* The check inside the transaction refuses, or else the index does.
InsertRejected(S) == \E s \in S : FindActive(s, 0) \/ IndexRejects(s, 0)

\* Every slot of S is checked and gets a pending row, or none does; the new rows
\* have the next ids, in the order of the slots.
InsertTx(new, S) ==
  /\ ~InsertRejected(S)
  /\ new = nextId..(nextId + Cardinality(S) - 1)
  /\ RoomOnTheClock
  /\ \E at \in [new -> S], price \in [new -> Prices] :
       /\ \A b, c \in new : b < c => at[b] < at[c]
       /\ rows' = [b \in Ids |-> IF b \in new THEN NewPendingRow(at[b], price[b]) ELSE rows[b]]
  /\ nextId' = nextId + Cardinality(S)
  /\ UNCHANGED <<now, money>>

\* Wrong: a negative amount is added as it stands.
PostSigned(b, amount) ==
  /\ received' = [received EXCEPT ![b] = @ + (IF amount > 0 THEN amount ELSE 0)]
  /\ returned' = [returned EXCEPT ![b] = @ + (IF amount < 0 THEN amount ELSE 0)]
  /\ received'[b] <= MaxReceived

\* A payment row of the given amount, added to the ledger of b.
Post(b, amount) ==
  /\ received' = [received EXCEPT ![b] = @ + (IF amount > 0 THEN amount ELSE 0)]
  /\ returned' = [returned EXCEPT ![b] = @ + (IF amount < 0 THEN -amount ELSE 0)]
  /\ received'[b] <= MaxReceived

DepositTx(b, amount) ==
  LET r == rows[b] IN
  /\ r.status \in Live
  /\ ~Lapsed(r)
  /\ amount > 0 /\ amount <= r.due
  /\ Post(b, amount)
  /\ rows' = [rows EXCEPT ![b] = DepositedRow(r, amount)]
  /\ UNCHANGED <<now, nextId>>

CancelTx(b) ==
  LET r == rows[b] IN
  /\ r.status \in Live
  /\ Post(b, -Refund(r))
  /\ rows' = [rows EXCEPT ![b] = CanceledRow(r)]
  /\ UNCHANGED <<now, nextId>>

\* s = rows[b].slot leaves the slot alone, and p = rows[b].paid leaves the
\* payment total alone.  A hold may have lapsed.
UpdateTx(b, s, p) ==
  LET r == rows[b]
      moved == s # r.slot
  IN  /\ r.status \in Live
      /\ moved => ~FindActive(s, b) /\ ~IndexRejects(s, b)
      /\ \E total \in IF moved THEN Prices ELSE {r.total} :
           /\ p \in 0..total \cup {r.paid}
           /\ rows' = [rows EXCEPT ![b] = UpdatedRow(r, s, total, p)]
      /\ Post(b, p - r.paid)
      /\ UNCHANGED <<now, nextId>>

\* ConfirmManagedBookings, which looks at the status and not at expires_at.
ConfirmTx(B) ==
  /\ \A b \in B : rows[b].status \in Live
  /\ rows' = [b \in Ids |-> IF b \in B THEN ConfirmedRow(rows[b]) ELSE rows[b]]
  /\ UNCHANGED <<now, nextId, money>>

ExpireTx ==
  /\ \E b \in Ids : Lapsed(rows[b])
  /\ rows' = [b \in Ids |-> Expire(rows[b])]
  /\ UNCHANGED <<now, nextId, money>>

-----------------------------------------------------------------------------
(* What the tables promise, whoever works on them.                         *)

TablesTypeOK ==
  /\ now \in 0..MaxTime
  /\ rows \in [Ids -> Row]
  /\ nextId \in Nat \ {0}
  /\ received \in [Ids -> Nat]
  /\ returned \in [Ids -> Nat]

\* Two bookings never keep the same slot, whatever requests race for it: the
\* creators' lock, checks and index, the mover's and the stale check-in's Save.
NoDoubleBooking ==
  \A b, c \in Ids :
    /\ rows[b].status \in Live
    /\ rows[c].status \in Live
    /\ rows[b].slot = rows[c].slot
    => b = c

\* A hold carries no money, so neither the expiry worker nor the sweep before
\* a creation can cancel a booking that somebody has paid for.
HoldsCarryNoMoney ==
  \A b \in Ids : rows[b].status = "pending" =>
    rows[b].paid = 0 /\ received[b] = returned[b]

\* What a live booking still owes is its price less its deposit, and nothing
\* once it is paid off, also after a move to a cheaper or dearer slot and after
\* a check-in that saved what it had read earlier.
DueIsOutstanding ==
  \A b \in Ids : rows[b].status \in Live =>
    rows[b].due = IF rows[b].paid > rows[b].total THEN 0 ELSE rows[b].total - rows[b].paid
=============================================================================
