------------------------------ MODULE DeskForms ------------------------------
(***************************************************************************)
(* What the booking desk of the web application computes from a day of the *)
(* schedule (utils/bookingGrid.js, utils/bookingForm.js, the totals of     *)
(* BookingModal and the choices of BookingScheduleEditor).                 *)
(*                                                                         *)
(* A slot is a record as the schedule endpoint lists it; times count half  *)
(* hours.  A board is a set of slots.  Bookings of a range carry the group *)
(* they were made in; a booking of a single slot carries none.             *)
(***************************************************************************)
EXTENDS Integers, Sequences, SequencesExt, FiniteSetsExt

NoGroup == 0
Nobody  == 0

Slot == [id: Nat, day: Nat, court: Nat, start: Nat, price: Nat, booking: Nat, group: Nat,
         customer: Nat, paid: Nat]

Booked(s) == s.booking # 0
EndOf(s)  == s.start + 1
PriceOf(S) == SumFunctionOnSet([s \in S |-> s.price], S)
PaidOf(S)  == SumFunctionOnSet([s \in S |-> s.paid], S)
IdsOf(seq) == [i \in DOMAIN seq |-> seq[i].id]

\* The elements of S in order.
Sorted(S, Before(_, _)) ==
  CHOOSE list \in SetToSeqs(S) : \A i, j \in DOMAIN list : i < j => Before(list[i], list[j])

-----------------------------------------------------------------------------
(* Groups of booked slots: bookings made together, or bookings of single    *)
(* slots of one customer on one court that are at most an hour apart.       *)

SortedBefore(a, b) == \/ a.court < b.court
                      \/ a.court = b.court /\ a.customer < b.customer
                      \/ a.court = b.court /\ a.customer = b.customer /\ a.start < b.start

makeBookingGroupKey(s) == IF s.group # NoGroup THEN <<s.group>> ELSE <<s.court, s.customer>>

JoinsGroup(s, g) == LET last == Last(g) IN
  IF s.group # NoGroup
  THEN last.group = s.group
  ELSE /\ makeBookingGroupKey(s) = makeBookingGroupKey(g[1])
       /\ s.start - EndOf(last) \in 0..2

AddToGroups(groups, s) == IF groups # <<>> /\ JoinsGroup(s, Last(groups))
                          THEN Append(Front(groups), Append(Last(groups), s))
                          ELSE Append(groups, <<s>>)

\* The sort is stable: groups that start together stay as they were.
ByStart(groups) ==
  LET start == [i \in DOMAIN groups |-> groups[i][1].start]
      order == Sorted(DOMAIN groups,
                      LAMBDA g, h : start[g] < start[h] \/ (start[g] = start[h] /\ g < h))
  IN  [i \in DOMAIN groups |-> groups[order[i]]]

groupBookedSlots(board) ==
  ByStart(FoldLeft(AddToGroups, <<>>, Sorted({s \in board : Booked(s)}, SortedBefore)))

\* Wrong: groups are known by their customer.
groupKeyOfCustomer(g) == <<g[1].customer>>

\* The key a page remembers of the group it has selected.
groupKey(g) == IF g[1].group # NoGroup THEN <<g[1].group>>
               ELSE <<g[1].court, g[1].customer, g[1].start>>

NoBooking == <<>>
FirstFound(groups, hits) == IF hits = {} THEN NoBooking ELSE groups[Min(hits)]

findBookingGroupForSlot(groups, s) ==
  FirstFound(groups, {i \in DOMAIN groups : s.id \in ToSet(IdsOf(groups[i]))})
selectedBooking(groups, key) == FirstFound(groups, {i \in DOMAIN groups : groupKey(groups[i]) = key})

-----------------------------------------------------------------------------
(* The range of a new booking.  The end is named by the slot it ends before. *)

OfCourt(board, court) == {s \in board : s.court = court}

\* The free slots that follow the clicked one without a gap.
getAvailableRangeEndSlots(board, first) ==
  {s \in OfCourt(board, first.court) : /\ s.start > first.start
     /\ \A t \in (first.start + 1)..s.start : \E u \in OfCourt(board, first.court) :
          u.start = t /\ ~Booked(u)}

Single == 0
endTimeOptions(board, first) ==
  {Single} \cup {s.id : s \in {e \in getAvailableRangeEndSlots(board, first) : e.start > EndOf(first)}}

\* Wrong: the slot the range ends before is paid too.
estimateWithEnd(board, first, endId) ==
  LET endSlots == getAvailableRangeEndSlots(board, first)
      ends     == {s \in endSlots : s.id = endId}
  IN  IF endId = Single \/ ends = {}
      THEN first.price
      ELSE PriceOf({s \in {first} \cup endSlots : \A e \in ends : s.start <= e.start})

estimateCreateTotal(board, first, endId) ==
  LET endSlots == getAvailableRangeEndSlots(board, first)
      ends     == {s \in endSlots : s.id = endId}
  IN  IF endId = Single \/ ends = {}
      THEN first.price
      ELSE PriceOf({s \in {first} \cup endSlots : \A e \in ends : s.start < e.start})

-----------------------------------------------------------------------------
(* Payment.  *)

LesserOf(a, b)  == IF a < b THEN a ELSE b
paymentStatusFromTotals(paid, total) == IF paid = 0 THEN "unpaid"
                                        ELSE IF total > 0 /\ paid >= total THEN "paid"
                                        ELSE "partial"
resolvePaymentTotal(status, amount, total) ==
  CASE status = "paid" -> total [] status = "unpaid" -> 0 [] status = "partial" -> LesserOf(amount, total)

\* How much of a payment each booking is given: capped by a price the answer of the creation
\* does not carry, which leaves nothing to any.
allocatePaymentAcrossSlots(bookings, payment) == [i \in DOMAIN bookings |-> LesserOf(payment, 0)]

-----------------------------------------------------------------------------
(* The editor of a booking: which slots of a day may be its new ones.  *)

sameBookingGroup(s, g) == /\ Booked(s) /\ g # NoBooking
                          /\ IF g[1].group # NoGroup /\ s.group # NoGroup
                             THEN s.group = g[1].group
                             ELSE \E i \in DOMAIN g : g[i].booking = s.booking
slotIsSelectable(s, g) == ~Booked(s) \/ sameBookingGroup(s, g)

uniqueCourtOptions(board) == {s.court : s \in board}
startOptions(board, court, g) == {s.id : s \in {u \in OfCourt(board, court) : slotIsSelectable(u, g)}}

\* The selectable slots from the chosen start on, up to the first that is missing or taken.
contiguousSlots(board, startId, g) ==
  UNION {{s \in OfCourt(board, first.court) :
            /\ s.start >= first.start
            /\ \A t \in first.start..s.start : \E u \in OfCourt(board, first.court) :
                 u.start = t /\ slotIsSelectable(u, g)}
         : first \in {s \in board : s.id = startId}}

StartsBefore(a, b) == a.start < b.start

\* The slots a save would ask for: up to the chosen end, or just the first.
selectedSlots(board, startId, endId, g) ==
  LET run  == contiguousSlots(board, startId, g)
      ends == {s \in run : s.id = endId}
      upTo == IF ends = {} THEN {s \in run : s.id = startId}
                           ELSE {s \in run : \E e \in ends : s.start <= e.start}
  IN  Sorted(upTo, StartsBefore)
=============================================================================
