---------------------------- MODULE BookingDialog ----------------------------
(***************************************************************************)
(* The dialog of the booking desk (components/booking/BookingModal.jsx,    *)
(* BookingScheduleEditor.jsx): it is opened on a slot of the board the     *)
(* page shows, makes a booking or edits one, and hands the page what a     *)
(* submission asks the server for.  While a booking is edited, the editor  *)
(* loads the day chosen in it; an answer for a day left meanwhile may      *)
(* still arrive.                                                           *)
(***************************************************************************)
EXTENDS DeskForms, Web

CONSTANTS
  Boards,    \* per day of the schedule, the answers the schedule endpoint may give
  PageDay,   \* the day the page shows
  Amounts    \* amounts an operator may type

VARIABLES
  board,     \* what the page shows of PageDay
  mode,      \* closed, create or edit
  slot,      \* the slot that was clicked
  group,     \* the group of bookings that is edited
  form,      \* the fields of the dialog
  slots,     \* what the editor shows: the answer for a day
  awaiting,  \* the day whose answer the editor waits for
  outdated,  \* days it asked for before and that are not answered yet
  touched    \* history: a field was changed since the dialog was opened

dialogVars == <<board, mode, slot, group, form, slots, awaiting, outdated, touched>>

BoardDays == DOMAIN Boards

\* A day's answers list slots of that day by their ids; a slot keeps its court and time.  That no
\* two slots of one court start together is the schedule's doing (DuplicatesNeedRacingViews of
\* CourtSchedule).
ASSUME BoardsAssumption ==
  /\ PageDay \in BoardDays /\ BoardDays \subseteq Nat /\ None \notin BoardDays
  /\ \A d \in BoardDays : \A S \in Boards[d] :
       /\ IsFiniteSet(S) /\ S \subseteq {s \in Slot : s.day = d /\ s.id > 0}
       /\ \A s, t \in S : s.id = t.id \/ (s.court = t.court /\ s.start = t.start) => s = t
       /\ \A T \in Boards[d] : \A s \in S, t \in T :
            s.id = t.id => s.court = t.court /\ s.start = t.start
  /\ Amounts \subseteq Nat
NoSlots == [day |-> None, of |-> {}]

createBookingForm == [day |-> PageDay, court |-> 0, start |-> 0, end |-> 0, ids |-> <<>>, total |-> 0,
                      status |-> "unpaid", amount |-> 0, reason |-> FALSE, createEnd |-> Single]

\* Wrong: a group ends with its first slot.
bookingGroupToShortForm(g) ==
  LET total == PriceOf(ToSet(g))  paid == PaidOf(ToSet(g)) IN
  [createBookingForm EXCEPT !.day = g[1].day, !.court = g[1].court, !.start = g[1].id,
     !.end = g[1].id, !.ids = IdsOf(g), !.total = total,
     !.status = paymentStatusFromTotals(paid, total), !.amount = paid]

bookingGroupToForm(g) ==
  LET total == PriceOf(ToSet(g))  paid == PaidOf(ToSet(g)) IN
  [createBookingForm EXCEPT !.day = g[1].day, !.court = g[1].court, !.start = g[1].id,
     !.end = Last(g).id, !.ids = IdsOf(g), !.total = total,
     !.status = paymentStatusFromTotals(paid, total), !.amount = paid]

\* The effect of the editor: a choice that selects slots is written to the form.
Synced(f, S) == LET chosen == selectedSlots(S, f.start, f.end, group) IN
  IF chosen = <<>> THEN f ELSE [f EXCEPT !.ids = IdsOf(chosen), !.total = PriceOf(ToSet(chosen))]

DialogInit == /\ board \in Boards[PageDay]
              /\ mode = "closed" /\ slot = <<>> /\ group = NoBooking
              /\ form = createBookingForm
              /\ slots = NoSlots /\ awaiting = None /\ outdated = {}
              /\ touched = FALSE

-----------------------------------------------------------------------------
\* A free slot is clicked: handleDeskCellClick, handleCellClick.
OpenCreate(s) == /\ mode = "closed" /\ ~Booked(s)
                 /\ mode' = "create" /\ slot' = s /\ touched' = FALSE
                 /\ form' = [createBookingForm EXCEPT !.start = s.id]
                 /\ UNCHANGED <<board, group, slots, awaiting, outdated>>

\* A booked slot is clicked: the page remembers the key of its group and finds the group by it.
\* The editor is mounted and asks for the day of the form.
OpenEdit(s) ==
  LET groups == groupBookedSlots(board) IN
  /\ mode = "closed" /\ Booked(s)
  /\ group' = selectedBooking(groups, groupKey(findBookingGroupForSlot(groups, s)))
  /\ mode' = "edit" /\ slot' = s /\ touched' = FALSE
  /\ form' = bookingGroupToForm(findBookingGroupForSlot(groups, s))
  /\ awaiting' = form'.day
  /\ UNCHANGED <<board, slots, outdated>>

\* The dialog is closed, by its buttons or after a submission; the editor is unmounted.
Close == /\ mode # "closed"
         /\ mode' = "closed" /\ slot' = <<>> /\ group' = NoBooking /\ form' = createBookingForm
         /\ slots' = NoSlots /\ awaiting' = None
         /\ outdated' = (outdated \cup {awaiting}) \ {None}
         /\ UNCHANGED <<board, touched>>

-----------------------------------------------------------------------------
(* The editor.  *)

editorLoading == awaiting # None

\* An answer for the day that is chosen is shown ...
DayAnswered == /\ awaiting # None
               /\ \E S \in Boards[awaiting] : /\ slots' = [day |-> awaiting, of |-> S]
                                              /\ form' = Synced(form, S)
               /\ awaiting' = None
               /\ UNCHANGED <<board, mode, slot, group, outdated, touched>>

\* ... its failure empties the editor ...
DayFailed == /\ awaiting # None
             /\ slots' = NoSlots /\ awaiting' = None
             /\ UNCHANGED <<board, mode, slot, group, form, outdated, touched>>

\* Wrong: the effect has no active flag.
OutdatedAnswerShown(d) == /\ d \in outdated
                          /\ outdated' = outdated \ {d}
                          /\ \E S \in Boards[d] : slots' = [day |-> d, of |-> S]
                          /\ UNCHANGED <<board, mode, slot, group, form, awaiting, touched>>

\* ... and an answer for a day that was left is dropped.
OutdatedAnswer(d) == /\ d \in outdated
                     /\ outdated' = outdated \ {d}
                     /\ UNCHANGED <<board, mode, slot, group, form, slots, awaiting, touched>>

\* Wrong: the slots of the earlier choice are kept.
ClearedButIds(f) == [f EXCEPT !.start = 0, !.end = 0, !.total = 0]

Cleared(f) == [f EXCEPT !.start = 0, !.end = 0, !.ids = <<>>, !.total = 0]

\* The date picker is never disabled; only another day is asked for anew.
changeDay(d) == /\ mode = "edit"
                /\ form' = [Cleared(form) EXCEPT !.day = d]
                /\ touched' = TRUE
                /\ IF d = form.day
                   THEN UNCHANGED <<awaiting, outdated>>
                   ELSE /\ awaiting' = d
                        /\ outdated' = (outdated \cup {awaiting}) \ {None}
                /\ UNCHANGED <<board, mode, slot, group, slots>>

Edited(f) == /\ mode = "edit" /\ ~editorLoading
             /\ form' = Synced(f, slots.of)
             /\ touched' = TRUE
             /\ UNCHANGED <<board, mode, slot, group, slots, awaiting, outdated>>

changeCourt(c) == c \in uniqueCourtOptions(slots.of) /\ Edited([Cleared(form) EXCEPT !.court = c])
changeStart(id) == /\ id \in startOptions(slots.of, form.court, group)
                   /\ Edited([form EXCEPT !.start = id, !.end = id, !.ids = <<id>>])
changeEnd(id) == /\ id \in {s.id : s \in contiguousSlots(slots.of, form.start, group)}
                 /\ Edited([form EXCEPT !.end = id])

-----------------------------------------------------------------------------
(* The other fields.  *)

Fields(f) == /\ form' = f /\ touched' = TRUE
             /\ UNCHANGED <<board, mode, slot, group, slots, awaiting, outdated>>

changeCreateEnd(id) == /\ mode = "create" /\ id \in endTimeOptions(board, slot)
                       /\ Fields([form EXCEPT !.createEnd = id])

totalPrice == IF mode = "edit"
              THEN IF form.total # 0 THEN form.total ELSE PriceOf(ToSet(group))
              ELSE estimateCreateTotal(board, slot, form.createEnd)
currentPaid == IF mode = "edit" THEN PaidOf(ToSet(group)) ELSE 0
targetPaid  == resolvePaymentTotal(form.status, form.amount, totalPrice)
paymentReduced == mode = "edit" /\ targetPaid < currentPaid

\* A status chosen fills in the amount that goes with it.
changeStatus(status) ==
  /\ mode # "closed"
  /\ Fields([form EXCEPT !.status = status,
       !.amount = CASE status = "unpaid" -> 0 [] status = "paid" -> totalPrice
                    [] status = "partial" -> IF @ # 0 THEN @ ELSE currentPaid])
changeAmount(amount) == mode # "closed" /\ form.status = "partial" /\ Fields([form EXCEPT !.amount = amount])
giveReason == paymentReduced /\ Fields([form EXCEPT !.reason = TRUE])

\* What the handlers of the page require before they send anything.
MayUpdate == mode = "edit" /\ group # NoBooking /\ form.ids # <<>> /\ (paymentReduced => form.reason)
MayCreate == mode = "create"

DialogNext == \/ \E s \in board : OpenCreate(s) \/ OpenEdit(s)
              \/ Close \/ DayAnswered \/ DayFailed \/ giveReason
              \/ \E d \in BoardDays : OutdatedAnswer(d) \/ changeDay(d)
              \/ \E c \in uniqueCourtOptions(slots.of) : changeCourt(c)
              \/ \E id \in {s.id : s \in slots.of \cup board} : changeStart(id) \/ changeEnd(id)
              \/ \E id \in {Single} \cup {s.id : s \in board} : changeCreateEnd(id)
              \/ \E status \in {"unpaid", "partial", "paid"} : changeStatus(status)
              \/ \E amount \in Amounts : changeAmount(amount)

DialogSpec == DialogInit /\ [][DialogNext]_dialogVars

-----------------------------------------------------------------------------
(* Properties.  *)

DialogForm == [day: BoardDays, court: Nat, start: Nat, end: Nat, ids: Seq(Nat), total: Nat,
         status: {"unpaid", "partial", "paid"}, amount: Nat, reason: BOOLEAN, createEnd: Nat]
DialogTypeOK == /\ board \in Boards[PageDay]
                /\ mode \in {"closed", "create", "edit"}
                /\ slot = <<>> \/ slot \in board
                /\ group \in Seq(board)
                /\ form \in DialogForm
                /\ slots = NoSlots \/ \E d \in BoardDays : slots.day = d /\ slots.of \in Boards[d]
                /\ awaiting \in BoardDays \cup {None} /\ outdated \subseteq BoardDays

\* A run of slots of one court without a gap.
IsRun(S) == /\ \A s, t \in S : s.court = t.court
            /\ \A s, t \in S : \A u \in s.start..t.start : \E v \in S : v.start = u

\* Another booking stands between bookings made together in the order of court, customer and
\* time: they are listed as several groups of one key, and the page opens the first of them.
Split(B, g) ==
  g # NoGroup /\ \E s, t, u \in {v \in B : Booked(v)} :
    /\ s.group = g /\ t.group = g /\ u.group # g
    /\ SortedBefore(s, u) /\ SortedBefore(u, t)

\* The dialog edits the group that was clicked, and that group is of bookings made together, all
\* of them, or of bookings of one customer on one court: the key the page remembers finds no
\* other group, unless the group is split (makeBookingGroupKey, groupBookedSlots, and the find
\* by key of the pages).
ClickOpensItsGroup ==
  mode = "edit" /\ ~Split(board, slot.group) =>
    /\ slot \in ToSet(group)
    /\ \A s, t \in ToSet(group) :
         s.group = t.group /\ (s.group = NoGroup => s.court = t.court /\ s.customer = t.customer)
    /\ slot.group # NoGroup => \A s \in board : Booked(s) /\ s.group = slot.group => s \in ToSet(group)

\* What a save asks for is a whole: the slots of the group as it was opened, or a run of slots of
\* the chosen day and court that the last answer of the editor offers; and the total beside it is
\* the price of just these slots.  Changing day, court or start leaves nothing of an earlier
\* choice or of an earlier day behind, whenever answers arrive.  And it does not ask for slots
\* known to be taken by bookings the server will not move along: of a group made together it
\* moves all, else only the booking that is its anchor.  (Two bookings of single slots shown as
\* one group are excepted: see the README.)
WholeGroup == form.ids = IdsOf(group) /\ form.total = PriceOf(ToSet(group))
WholeRun ==
  \E S \in SUBSET slots.of :
    /\ IsRun(S)
    /\ IdsOf(Sorted(S, StartsBefore)) = form.ids
    /\ \A s \in S : s.day = form.day /\ s.court = form.court /\ slotIsSelectable(s, group)
    /\ form.total = PriceOf(S)
MovesAlong(s) == \/ ~Booked(s)
                 \/ s.booking = group[1].booking
                 \/ group[1].group # NoGroup /\ \E i \in DOMAIN group :
                      s.group = group[1].group \/ s.booking = group[i].booking
SavesWholeChoices ==
  MayUpdate /\ ~Split(board, slot.group) =>
    /\ WholeGroup \/ WholeRun
    /\ (group[1].group # NoGroup \/ Len(group) = 1) /\ form.ids # IdsOf(group) =>
         \A s \in slots.of : s.id \in ToSet(form.ids) => MovesAlong(s)

\* Opening a group and saving it as it is changes neither its slots nor what was paid, before
\* and after the editor has loaded the day, as long as the day has not changed, the group is a
\* run of one customer and no more was paid for it than it costs (bookingGroupToForm, the effect
\* of the editor, resolvePaymentTotal).
ReopeningChangesNothing ==
  /\ mode = "edit" /\ ~touched /\ slots.of \in {{}, board}
  /\ ~Split(board, slot.group) /\ PaidOf(ToSet(group)) <= PriceOf(ToSet(group))
  /\ IsRun(ToSet(group)) /\ \A s, t \in ToSet(group) : s.customer = t.customer
  =>
    /\ form.ids = IdsOf(group)
    /\ totalPrice = PriceOf(ToSet(group))
    /\ targetPaid = currentPaid

\* The slots CreatePendingBookingRange selects for the range that is asked for: those of the
\* court from the clicked start to before the start of the chosen end.  At what price it books
\* them the board does not say, for it prices each of them anew (CourtSchedule has how).
ServerRange(first, endId) == IF endId = Single THEN {first}
  ELSE {s \in OfCourt(board, first.court) : \E e \in board :
          e.id = endId /\ e.court = first.court /\ s.start >= first.start /\ s.start < e.start}

\* The total shown for a new booking is of the right slots.  The page adds up what the board
\* lists for the free slots it walks over, up to the offered end that was chosen
\* (estimateCreateTotal, endTimeOptions); the server selects slots by their start times.  Both
\* are the same slots, a run without a gap, all of them free on the board, and no payment is
\* above their total.  That the server charges this total is not said: it does not always
\* (BookingsCostTheCurrentPrice of CourtSchedule).
QuoteIsOfTheRange ==
  MayCreate => LET booked == ServerRange(slot, form.createEnd) IN
    /\ totalPrice = PriceOf(booked)
    /\ IsRun(booked) /\ \A s \in booked : ~Booked(s)
    /\ targetPaid <= totalPrice

\* The editor shows the answer for the day that was chosen last, or nothing, or what it showed:
\* it implements LatestAnswer (the active flag of its effect).
Latest == INSTANCE LatestAnswer WITH Queries <- BoardDays, Nothing <- None,
            wanted <- IF mode = "edit" THEN form.day ELSE None, shown <- slots.day
EditorShowsLatest == Latest!Spec
=============================================================================
