--------------------------- MODULE BookingGroups ---------------------------
(***************************************************************************)
(* Booking groups: the bookings of one creation, one to a slot, which      *)
(* UpdateBookingGroup of internal/service/booking_group_update.go moves,   *)
(* grows, shrinks and re-prices together, over the tables that the         *)
(* handlers of single bookings change as well.                             *)
(*                                                                         *)
(* Every step is one transaction (BookingDesk splits the handlers).        *)
(***************************************************************************)
EXTENDS BookingTables, FiniteSetsExt

VARIABLES
  group,      \* booking_group_id: the first booking of the group, 0 for no row
  toConfirm   \* bookings inserted whose confirming transaction is still to come

vars == <<now, rows, nextId, money, group, toConfirm>>

GroupIds == 0..MaxId

Init ==
  /\ TablesInit
  /\ group = [b \in Ids |-> 0]
  /\ toConfirm = {}

-----------------------------------------------------------------------------
(* Creation, and the handlers of one booking of the group.                 *)

\* The sweep a creation begins with, whatever becomes of the creation.
SweepSlot(s) ==
  /\ rows' = ExpirePendingByTimeSlot(s)
  /\ UNCHANGED <<now, nextId, money, group, toConfirm>>

CreatePendingBookingRange(lo, hi) ==
  /\ lo <= hi
  /\ StartOf[lo] >= now
  /\ \E new \in SUBSET Ids :
       /\ InsertTx(new, lo..hi)
       /\ group' = [b \in Ids |-> IF b \in new THEN nextId ELSE group[b]]
       /\ toConfirm' = toConfirm \cup new

\* The second transaction of a creation commits, or fails or is never reached.
ConfirmCreated(g) ==
  LET B == {b \in toConfirm : group[b] = g} IN
  /\ B # {}
  /\ ConfirmTx(B) \/ UNCHANGED <<now, rows, nextId, money>>
  /\ toConfirm' = toConfirm \ B
  /\ UNCHANGED group

ConfirmDeposit(b, amount) ==
  /\ DepositTx(b, amount)
  /\ UNCHANGED <<group, toConfirm>>

CancelBooking(b) ==
  /\ CancelTx(b)
  /\ UNCHANGED <<group, toConfirm>>

UpdateBooking(b, s, p) ==
  /\ UpdateTx(b, s, p)
  /\ UNCHANGED <<group, toConfirm>>

CheckIn(b) ==
  /\ Arrives(rows[b])
  /\ rows' = [rows EXCEPT ![b] = CheckedInRow(rows[b])]
  /\ UNCHANGED <<now, nextId, money, group, toConfirm>>

-----------------------------------------------------------------------------
(* Rescheduling a group to the slots lo..hi.                               *)

\* ListActiveGroupForUpdate.
ActiveGroup(g) == {b \in Ids : group[b] = g /\ rows[b].status \in Live}

\* Position of member b when the members A are sorted by start time.
Rank(A, b) == Cardinality({c \in A : rows[c].slot <= rows[b].slot})

\* Where the booking goes: members first, in their order, then the new ones.
Target(A, lo, b) == IF b \in A THEN lo + Rank(A, b) - 1
                               ELSE lo + Cardinality(A) + (b - nextId)

NewMembers(A, lo, hi) == nextId..(nextId + (hi - lo) - Cardinality(A))

\* FindActiveByTimeSlotIDExcludeBookingIDs.
FindActiveOutside(A, s) ==
  \E o \in Ids \ A : /\ rows[o].slot = s
                     /\ rows[o].status \in Live
                     /\ ~Lapsed(rows[o])

\* What UpdateBookingGroup validates before it saves anything.
Reschedulable(b, lo, hi) ==
  LET A == ActiveGroup(group[b]) IN
  /\ rows[b].status \in {"pending", "confirmed"}
  /\ \A c \in A : rows[c].status # "checked_in"
  /\ lo <= hi
  /\ \A s \in lo..hi : StartOf[s] >= now /\ ~FindActiveOutside(A, s)

\* Wrong: the index is missing.
NothingCollides(A, lo, hi) == FALSE

\* Members are saved one by one, in order, each to its target: the index rejects
\* the one whose target still holds a row outside the group (a hold that has run
\* out and was not swept) or a member that comes later in the order.
SavesCollide(A, lo, hi) ==
  \E s \in lo..hi, o \in Ids :
    /\ rows[o].slot = s
    /\ rows[o].status \in Indexed
    /\ o \in A => Target(A, lo, o) > s

\* Wrong: the deposit of one booking stands for the group's.
PaidByOne(A) == Max({rows[b].paid : b \in A})

\* What the group has paid before the reschedule.
PaidBy(A) == SumFunctionOnSet([b \in Ids |-> rows[b].paid], A)

\* Wrong: a booking that is left nothing is given what is missing.
AllocatedUnclamped(p, price, lo, s) ==
  Min({p - SumFunctionOnSet(price, lo..(s - 1)), price[s]})

\* The amount received goes to the bookings in order, each up to its price.
Allocated(p, price, lo, s) ==
  Max({0, Min({p - SumFunctionOnSet(price, lo..(s - 1)), price[s]})})

\* A member the group has no slot left for.
SurplusRow(r) == [r EXCEPT !.status = "canceled", !.paid = 0, !.due = 0]

\* New members take the anchor's status and deadline.  Only the first of the
\* new slots carries the payment row, and p = PaidBy(A) leaves the total alone.
UpdateBookingGroup(b, lo, hi, p) ==
  LET A      == ActiveGroup(group[b])
      new    == NewMembers(A, lo, hi)
      active == {c \in A \cup new : Target(A, lo, c) <= hi}
  IN  /\ Reschedulable(b, lo, hi)
      /\ ~SavesCollide(A, lo, hi)
      /\ new \subseteq Ids
      /\ \E price \in [lo..hi -> Prices] :
           /\ p <= SumFunctionOnSet(price, lo..hi)
           /\ rows' = [c \in Ids |->
                IF c \in active
                THEN LET s == Target(A, lo, c)
                     IN  UpdatedRow(IF c \in A THEN rows[c] ELSE rows[b],
                                    s, price[s], Allocated(p, price, lo, s))
                ELSE IF c \in A THEN SurplusRow(rows[c]) ELSE rows[c]]
      /\ \E first \in active : Target(A, lo, first) = lo /\ Post(first, p - PaidBy(A))
      /\ nextId' = nextId + Cardinality(new)
      /\ group' = [c \in Ids |-> IF c \in new THEN group[b] ELSE group[c]]
      /\ UNCHANGED <<now, toConfirm>>

-----------------------------------------------------------------------------
ExpirePending ==
  /\ ExpireTx
  /\ UNCHANGED <<group, toConfirm>>

Tick ==
  /\ now < MaxTime
  /\ now' = now + 1
  /\ UNCHANGED <<rows, nextId, money, group, toConfirm>>

Next ==
  \/ \E s \in Slots : SweepSlot(s)
  \/ \E lo, hi \in Slots : CreatePendingBookingRange(lo, hi)
  \/ \E g \in Ids : ConfirmCreated(g)
  \/ \E b \in Ids :
       \/ \E amount \in 1..rows[b].due : ConfirmDeposit(b, amount)
       \/ CancelBooking(b)
       \/ \E s \in Slots, p \in 0..MaxReceived : UpdateBooking(b, s, p)
       \/ CheckIn(b)
       \/ \E lo, hi \in Slots, p \in 0..(MaxReceived * MaxId) : UpdateBookingGroup(b, lo, hi, p)
  \/ ExpirePending
  \/ Tick

Spec == Init /\ [][Next]_vars

-----------------------------------------------------------------------------
(* What booking groups promise.                                            *)

\* Every variable keeps its type.
TypeOK ==
  /\ TablesTypeOK
  /\ group \in [Ids -> GroupIds]
  /\ toConfirm \subseteq Ids

\* Seen from outside a group is one party: it holds each of its slots alone, and
\* a reschedule takes only slots that are free or its own and gives up the rest
\* in the same step.
Calendar == INSTANCE SlotCalendar WITH
  Parties <- Ids,
  holders <- [s \in Slots |->
                {group[b] : b \in {c \in Ids : rows[c].slot = s /\ rows[c].status \in Live}}]
ImplementsCalendar == Calendar!Spec

\* A reschedule posts the money of the whole group to one booking and spreads the
\* deposits over all of them, so a single booking's ledger says little; that of
\* the group is exact: what came in less what went out is what its live bookings
\* have as deposits, and what canceled ones forfeited.
GroupLedger ==
  \A g \in Ids :
    LET members == {b \in Ids : group[b] = g}
        gone    == {b \in members : rows[b].status = "canceled"}
        net     == SumFunctionOnSet([b \in Ids |-> received[b] - returned[b]], members)
        kept    == SumFunctionOnSet([b \in Ids |-> rows[b].paid], members \ gone)
        half    == [b \in Ids |-> rows[b].paid - rows[b].paid \div 2]
    IN  \E late \in SUBSET gone :
          net = kept + SumFunctionOnSet(half, late)

\* A reschedule that passes the validation can be saved.
ValidMovesSucceed ==
  \A b \in Ids, lo, hi \in Slots :
    Reschedulable(b, lo, hi) => ~SavesCollide(ActiveGroup(group[b]), lo, hi)
=============================================================================
