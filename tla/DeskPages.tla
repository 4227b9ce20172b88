------------------------------ MODULE DeskPages ------------------------------
(***************************************************************************)
(* The two booking desks of the web application, pages/StaffPage.jsx and   *)
(* pages/AdminBookingDeskPage.jsx: the board of a day, the loads that      *)
(* bring it, the dialog (see BookingDialog for its fields) and the         *)
(* submissions, each a chain of calls that the page awaits one by one.     *)
(* Beside the desk, others use the server.                                 *)
(*                                                                         *)
(* A load reads the schedule when it is asked for and may arrive any time  *)
(* later; a call takes effect when it is answered, or its answer is lost.  *)
(***************************************************************************)
EXTENDS Naturals, Sequences, FiniteSets, SequencesExt, Web

CONSTANTS
  Days,        \* days a page may show
  SlotsOf,     \* the slots of each day
  AtFirst,     \* the slots of the group of bookings there is at first
  Bookings,    \* bound: names of the bookings ever made (1..n)
  Desks,       \* the desks to look at: "staff", "admin"
  Jobs,        \* submissions that may be under way at a time
  MaxPicks,    \* bound: how often the date is changed on the page
  MaxSubmits,  \* bound: submissions ever made
  MaxOthers    \* bound: changes made by others

ASSUME DeskAssumption ==
  /\ Jobs \subseteq Nat \ {0}
  /\ \A d, e \in Days : d # e => SlotsOf[d] \cap SlotsOf[e] = {}
  /\ \A d \in Days : IsFiniteSet(SlotsOf[d]) /\ SlotsOf[d] \subseteq Nat /\ None \notin SlotsOf[d]
  /\ IsFiniteSet(Bookings) /\ Bookings \subseteq Nat \ {0} /\ None \notin Bookings
  /\ 1..Cardinality(AtFirst) \subseteq Bookings

VARIABLES
  desk,      \* which of the two pages
  slotOf,    \* server: the slot of each active booking
  keyOf,     \* server: the group each booking was made in
  gone,      \* server: canceled bookings
  day,       \* viewDay, day: the day the page shows
  shown,     \* daySlots, slots: the booking of each slot as last answered
  flights,   \* loads under way, in the order they were asked for
  loading,   \* the flag that disables the dialog
  dialog,    \* the dialog: whether it is open, its mode, key and slot
  job,       \* the submissions under way
  told,      \* bookings the desk was told are canceled
  counts,    \* how often there were changes of the date, submissions and changes by others
  mine,      \* history: bookings that calls of this desk canceled
  calm       \* history: no load failed or was overtaken, no call failed, nobody else changed
             \* anything, and slots were only clicked while nothing was loading

server   == <<slotOf, keyOf, gone>>
deskVars == <<desk, server, day, shown, flights, loading, dialog, job, told, counts, mine, calm>>

Slots == UNION {SlotsOf[d] : d \in Days}
DayOf(s) == CHOOSE d \in Days : s \in SlotsOf[d]

Live(b) == slotOf[b] # None
Keeper(s, at) == CHOOSE b \in Bookings \cup {None} : IF b = None THEN \A c \in Bookings : at[c] # s ELSE at[b] = s
Board(d, at) == [s \in SlotsOf[d] |-> Keeper(s, at)]

\* Bookings are worked off in the order of the board, which is that of their names.
FirstIn(S) == CHOOSE b \in S : \A c \in S : b <= c

Idle == [kind |-> "none", stage |-> "call", slots |-> {}, ids |-> {}, todo |-> {}, day |-> None]
Closed == [open |-> FALSE, mode |-> "create", key |-> None, slot |-> None]
ShownBookings == {shown[s] : s \in DOMAIN shown} \ {None}

\* selectedBooking: the bookings of the selected group among those shown.
Selected == {b \in ShownBookings : keyOf[b] = dialog.key}

\* A dialog without a start slot is not rendered (BookingModal), though it stays open.
StartIsKnown == IF desk = "staff" THEN dialog.slot \in DOMAIN shown ELSE dialog.slot # None
Visible == dialog.open /\ (StartIsKnown \/ Selected # {})

FirstBookings == 1..Cardinality(AtFirst)

DeskInit == /\ desk \in Desks
            /\ \E place \in [FirstBookings -> AtFirst] :
                 /\ \A b, c \in FirstBookings : b < c => place[b] < place[c]
                 /\ slotOf = [b \in Bookings |-> IF b \in FirstBookings THEN place[b] ELSE None]
            /\ keyOf = [b \in Bookings |-> IF b \in FirstBookings THEN 1 ELSE 0]
            /\ gone = {}
            /\ day \in {d \in Days : AtFirst \subseteq SlotsOf[d]}
            /\ shown = Board(day, slotOf)
            /\ flights = <<>> /\ loading = FALSE
            /\ dialog = Closed
            /\ job = [j \in Jobs |-> Idle]
            /\ told = {} /\ mine = {}
            /\ counts = [picks |-> 0, submits |-> 0, others |-> 0]
            /\ calm = TRUE

-----------------------------------------------------------------------------
(* Loads.  *)

\* loadSlots(d) or loadData is called for a submission, or by the effect on the day (job 0).
Asked(d, j) == /\ flights' = Append(flights, [day |-> d, board |-> Board(d, slotOf'), job |-> j])

\* StaffPage: the flag is for submissions.  AdminBookingDeskPage: loads raise it too, ...
LoadingWhenAsked == IF desk = "admin" THEN TRUE ELSE loading

\* Wrong: any load lowers the flag, on both pages.
LoadingWhenAnyLoaded(f) == FALSE

\* ... and lower it when they end, like every submission that was waiting for the load.
LoadingWhenLoaded(f) == IF desk = "admin" \/ f.job # 0 THEN FALSE ELSE loading

\* The date is changed on the page itself.
PickDay(d) == /\ ~Visible /\ d # day
              /\ counts.picks < MaxPicks
              /\ counts' = [counts EXCEPT !.picks = @ + 1]
              /\ day' = d
              /\ UNCHANGED server
              /\ Asked(d, 0)
              /\ loading' = LoadingWhenAsked
              /\ UNCHANGED <<desk, shown, dialog, job, told, mine, calm>>

\* What a submission does once its load has ended, well or not.
JobEnds(f) == /\ job' = [j \in Jobs |-> IF j = f.job THEN Idle ELSE job[j]]
              /\ told' = IF f.job # 0 /\ job[f.job].kind = "cancel"
                         THEN told \cup job[f.job].ids ELSE told

\* StaffPage forgets the selected group when it is not on the board that arrives.
staffKey(b) == IF \E s \in DOMAIN b : b[s] # None /\ keyOf[b[s]] = dialog.key THEN dialog.key ELSE None

loadArrives(i) == LET f == flights[i] IN
  /\ shown' = f.board
  /\ flights' = RemoveAt(flights, i)
  /\ loading' = LoadingWhenLoaded(f)
  /\ dialog' = IF desk = "staff" THEN [dialog EXCEPT !.key = staffKey(f.board)] ELSE dialog
  /\ JobEnds(f)
  /\ calm' = (calm /\ i = 1)
  /\ UNCHANGED <<desk, server, day, counts, mine>>

\* StaffPage keeps the board it has, AdminBookingDeskPage empties it.
loadFails(i) == LET f == flights[i] IN
  /\ shown' = IF desk = "staff" THEN shown ELSE <<>>
  /\ flights' = RemoveAt(flights, i)
  /\ loading' = LoadingWhenLoaded(f)
  /\ JobEnds(f)
  /\ calm' = FALSE
  /\ UNCHANGED <<desk, server, day, dialog, counts, mine>>

-----------------------------------------------------------------------------
(* The dialog.  *)

\* handleDeskCellClick, handleCellClick: slots may be clicked at any time.
ClickCell(s) ==
  /\ ~Visible /\ s \in DOMAIN shown
  /\ dialog' = IF shown[s] = None
               THEN [open |-> TRUE, mode |-> "create", key |-> None, slot |-> s]
               ELSE [open |-> TRUE, mode |-> "edit", key |-> keyOf[shown[s]], slot |-> s]
  /\ calm' = (calm /\ flights = <<>>)
  /\ UNCHANGED <<desk, server, day, shown, flights, loading, job, told, counts, mine>>

CloseDialog == /\ Visible /\ ~loading
               /\ dialog' = [dialog EXCEPT !.open = FALSE]
               /\ UNCHANGED <<desk, server, day, shown, flights, loading, job, told, counts, mine, calm>>

\* The buttons of the dialog are disabled while loading; a submission keeps the day and the
\* bookings it was made with.
Submitted(j, new) == /\ Visible /\ ~loading /\ FirstOf(j, {i \in Jobs : job[i] = Idle})
                     /\ counts.submits < MaxSubmits
                     /\ counts' = [counts EXCEPT !.submits = @ + 1]
                     /\ job' = [job EXCEPT ![j] = new]
                     /\ loading' = TRUE
                     /\ UNCHANGED <<desk, server, day, shown, flights, dialog, told, mine, calm>>

SubmitCreate(j, range) ==
  /\ dialog.mode = "create" /\ dialog.slot \in range
  /\ \E d \in Days : range \subseteq SlotsOf[d]
  /\ \A s \in range : s \in DOMAIN shown => shown[s] = None
  /\ Submitted(j, [Idle EXCEPT !.kind = "create", !.slots = range, !.day = day])

SubmitUpdate(j, target) ==
  /\ dialog.mode = "edit" /\ Selected # {}
  /\ target # {} /\ \E d \in Days : target \subseteq SlotsOf[d]
  /\ Submitted(j, [Idle EXCEPT !.kind = "update", !.slots = target, !.day = day,
                     !.ids = Selected])

SubmitCancel(j) ==
  /\ dialog.mode = "edit" /\ Selected # {}
  /\ Submitted(j, [Idle EXCEPT !.kind = "cancel", !.day = day, !.ids = Selected, !.todo = Selected])

-----------------------------------------------------------------------------
(* The calls of a submission.  *)

\* Wrong: no finally lowers the flag.
CallFailsLoading(j) == /\ job' = [job EXCEPT ![j] = Idle]
                       /\ calm' = FALSE
                       /\ UNCHANGED <<desk, day, shown, flights, loading, dialog, told, counts>>

\* A call is refused, fails or is not answered: an error is shown, the dialog stays as it is.
CallFails(j) == /\ loading' = FALSE
                /\ job' = [job EXCEPT ![j] = Idle]
                /\ calm' = FALSE
                /\ UNCHANGED <<desk, day, shown, flights, dialog, told, counts>>

\* The last call succeeded: the dialog is closed and the day of the submission loaded again.
ReloadFor(j) == /\ Asked(job[j].day, j)
                /\ loading' = TRUE
                /\ job' = [job EXCEPT ![j].stage = "reload", ![j].todo = {}]
                /\ UNCHANGED <<desk, day, shown, told, counts, calm>>

AllFree(S) == \A b \in Bookings : slotOf[b] \notin S
Unused == {b \in Bookings : keyOf[b] = 0}

\* The server makes a booking for each slot of the range; they share a new group.
MadeFor(S, new) ==
  /\ new \subseteq Unused /\ Cardinality(new) = Cardinality(S)
  /\ \A b \in new, c \in Unused \ new : b < c
  /\ \E place \in [new -> S] :
       /\ \A b, c \in new : b < c => place[b] < place[c]
       /\ slotOf' = [b \in Bookings |-> IF b \in new THEN place[b] ELSE slotOf[b]]
  /\ keyOf' = [b \in Bookings |-> IF b \in new THEN FirstIn(new) ELSE keyOf[b]]
  /\ UNCHANGED <<gone, mine>>

Calling(j, kind) == job[j].kind = kind /\ job[j].stage = "call"

\* createBooking, createBookingForCustomer: then each booking is given payment and colour.
CreateAnswered(j) == /\ Calling(j, "create") /\ job[j].todo = {} /\ AllFree(job[j].slots)
                     /\ \E new \in SUBSET Unused :
                          /\ MadeFor(job[j].slots, new)
                          /\ job' = [job EXCEPT ![j].ids = new, ![j].todo = new]
                     /\ UNCHANGED <<desk, day, shown, flights, loading, dialog, told, counts, calm>>

CreateFails(j) == /\ Calling(j, "create") /\ job[j].todo = {}
                  /\ \/ UNCHANGED <<server, mine>>
                     \/ AllFree(job[j].slots) /\ \E new \in SUBSET Unused : MadeFor(job[j].slots, new)
                  /\ CallFails(j)

PaymentSaved(j) ==
  /\ Calling(j, "create") /\ job[j].todo # {} /\ Live(FirstIn(job[j].todo))
  /\ UNCHANGED <<server, mine>>
  /\ IF job[j].todo # {FirstIn(job[j].todo)}
     THEN /\ job' = [job EXCEPT ![j].todo = @ \ {FirstIn(@)}]
          /\ UNCHANGED <<desk, day, shown, flights, loading, dialog, told, counts, calm>>
     ELSE dialog' = Closed /\ ReloadFor(j)

PaymentFails(j) == /\ Calling(j, "create") /\ job[j].todo # {}
                   /\ UNCHANGED <<server, mine>> /\ CallFails(j)

\* updateBookingGroup with the first booking as anchor: the active ones of its group move to
\* the slots asked for, surplus ones are canceled (see BookingGroups, also for growth).
Members(j) == {b \in Bookings : Live(b) /\ keyOf[b] = keyOf[FirstIn(job[j].ids)]}
Reschedulable(j) == /\ Live(FirstIn(job[j].ids))
                    /\ Cardinality(job[j].slots) <= Cardinality(Members(j))
                    /\ \A b \in Bookings : slotOf[b] \in job[j].slots => b \in Members(j)
InOrder(S) == CHOOSE list \in SetToSeqs(S) : \A i, k \in DOMAIN list : i < k => list[i] < list[k]
Rescheduled(j) ==
  LET from == InOrder(Members(j))  to == InOrder(job[j].slots) IN
  /\ slotOf' = [b \in Bookings |-> IF b \notin Members(j) THEN slotOf[b]
                                   ELSE IF \E i \in DOMAIN to : from[i] = b
                                   THEN to[CHOOSE i \in DOMAIN to : from[i] = b] ELSE None]
  /\ gone' = gone \cup {from[i] : i \in (Len(to) + 1)..Len(from)}
  /\ UNCHANGED <<keyOf, mine>>

\* Wrong: another day is shown, but not loaded.
UpdateAnsweredUnloaded(j) ==
  LET target == DayOf(CHOOSE s \in job[j].slots : TRUE) IN
  /\ Calling(j, "update") /\ Reschedulable(j) /\ Rescheduled(j)
  /\ dialog' = [dialog EXCEPT !.open = FALSE, !.key = None, !.slot = IF desk = "admin" THEN None ELSE @]
  /\ IF target = job[j].day
     THEN ReloadFor(j)
     ELSE /\ day' = target /\ loading' = FALSE
          /\ job' = [job EXCEPT ![j] = Idle]
          /\ UNCHANGED <<desk, shown, flights, told, counts, calm>>

\* A move to another day shows that day; the submission does not wait for its load.
UpdateAnswered(j) ==
  LET target == DayOf(CHOOSE s \in job[j].slots : TRUE) IN
  /\ Calling(j, "update") /\ Reschedulable(j) /\ Rescheduled(j)
  /\ dialog' = [dialog EXCEPT !.open = FALSE, !.key = None, !.slot = IF desk = "admin" THEN None ELSE @]
  /\ IF target = job[j].day
     THEN ReloadFor(j)
     ELSE /\ day' = target
          /\ job' = [job EXCEPT ![j] = Idle]
          /\ IF target # day
             THEN Asked(target, 0) /\ loading' = (desk = "admin")
             ELSE loading' = FALSE /\ UNCHANGED flights
          /\ UNCHANGED <<desk, shown, told, counts, calm>>

UpdateFails(j) == /\ Calling(j, "update")
                  /\ \/ UNCHANGED <<server, mine>>
                     \/ Reschedulable(j) /\ Rescheduled(j)
                  /\ CallFails(j)

\* cancelBooking, deleteBooking of one booking after the other.
Canceled(b) == /\ slotOf' = [slotOf EXCEPT ![b] = None]
               /\ gone' = gone \cup {b} /\ mine' = mine \cup {b}
               /\ UNCHANGED keyOf

CancelAnswered(j) ==
  /\ Calling(j, "cancel") /\ Live(FirstIn(job[j].todo))
  /\ Canceled(FirstIn(job[j].todo))
  /\ IF job[j].todo # {FirstIn(job[j].todo)}
     THEN /\ job' = [job EXCEPT ![j].todo = @ \ {FirstIn(@)}]
          /\ UNCHANGED <<desk, day, shown, flights, loading, dialog, told, counts, calm>>
     ELSE /\ dialog' = [dialog EXCEPT !.open = FALSE, !.key = None]
          /\ ReloadFor(j)

\* Wrong: a failure is swallowed.
CancelFailsQuietly(j) == /\ Calling(j, "cancel")
                         /\ dialog' = [dialog EXCEPT !.open = FALSE, !.key = None]
                         /\ UNCHANGED <<server, mine>>
                         /\ ReloadFor(j)

CancelFails(j) == /\ Calling(j, "cancel")
                  /\ \/ UNCHANGED <<server, mine>>
                     \/ Live(FirstIn(job[j].todo)) /\ Canceled(FirstIn(job[j].todo))
                  /\ CallFails(j)

CallEnds(j) == \/ CreateAnswered(j) \/ CreateFails(j) \/ PaymentSaved(j) \/ PaymentFails(j)
               \/ UpdateAnswered(j) \/ UpdateFails(j) \/ CancelAnswered(j) \/ CancelFails(j)

-----------------------------------------------------------------------------
\* Somebody else cancels a booking or books a slot.
OthersChange == /\ counts.others < MaxOthers
                /\ counts' = [counts EXCEPT !.others = @ + 1]
                /\ \/ \E b \in Bookings : /\ Live(b)
                                          /\ slotOf' = [slotOf EXCEPT ![b] = None]
                                          /\ gone' = gone \cup {b}
                                          /\ UNCHANGED <<keyOf, mine>>
                   \/ \E s \in Slots, new \in SUBSET Unused : AllFree({s}) /\ MadeFor({s}, new)
                /\ calm' = FALSE
                /\ UNCHANGED <<desk, day, shown, flights, loading, dialog, job, told>>

LoadEnds == \E i \in DOMAIN flights : loadArrives(i) \/ loadFails(i)

DeskNext == \/ \E d \in Days : PickDay(d)
            \/ LoadEnds
            \/ \E s \in Slots : ClickCell(s)
            \/ CloseDialog
            \/ \E j \in Jobs : \/ \E S \in SUBSET Slots : SubmitCreate(j, S) \/ SubmitUpdate(j, S)
                               \/ SubmitCancel(j) \/ CallEnds(j)
            \/ OthersChange

DeskSpec == DeskInit /\ [][DeskNext]_deskVars

-----------------------------------------------------------------------------
(* Properties.  *)

Job == [kind: {"none", "create", "update", "cancel"}, stage: {"call", "reload"}, slots: SUBSET Slots,
        ids: SUBSET Bookings, todo: SUBSET Bookings, day: Days \cup {None}]
DeskTypeOK == /\ slotOf \in [Bookings -> Slots \cup {None}]
              /\ keyOf \in [Bookings -> Bookings \cup {0}] /\ gone \subseteq Bookings
              /\ day \in Days /\ loading \in BOOLEAN /\ calm \in BOOLEAN
              /\ shown = <<>> \/ \E d \in Days : shown \in [SlotsOf[d] -> Bookings \cup {None}]
              /\ dialog.mode \in {"create", "edit"} /\ dialog.open \in BOOLEAN
              /\ job \in [Jobs -> Job]
              /\ \A i \in DOMAIN flights : flights[i].day \in Days /\ flights[i].job \in Jobs \cup {0}
              /\ told \cup mine \subseteq Bookings

Busy == {j \in Jobs : job[j] # Idle}

\* The staff desk never has two submissions under way, not while it reloads either, whatever is
\* clicked and whichever loads arrive: its flag is raised and lowered by submissions alone.
StaffSubmitsOnce == desk = "staff" => Cardinality(Busy) <= 1

\* The notice that a booking was canceled and its slots are free is true of every slot of the
\* group, although the calls are made one by one and others cancel too.
CancelNoticeMeansGone == told \subseteq gone

\* Nothing of another day gets mixed in: when all is settled the board is the schedule of the day
\* in the header, with everything the desk itself has changed, for each handler loads again what
\* it should, also after a move to another day; and a new booking, whose dialog shows the day of
\* the page, is of slots of that day; as long as no load was overtaken or failed, no call failed,
\* nobody else changed anything, and nobody clicked a slot while the board was being loaded.
BoardFollowsOwnWrites ==
  calm => /\ flights = <<>> /\ Busy = {} => shown = Board(day, slotOf)
          /\ dialog.open /\ dialog.mode = "create" => dialog.slot \in SlotsOf[day]
          /\ \A j \in Jobs : job[j].kind = "create" => job[j].slots \subseteq SlotsOf[job[j].day]

\* The buttons of the dialog come back: the flag that disables them is never up unless a
\* submission, or a load of the administrator's page, is under way to lower it, also when calls
\* fail; and a submission that waits for a load waits for one under way.  (Calls and loads end:
\* axios gives up after 20 seconds.)
DeskComesBack ==
  /\ loading => Busy # {} \/ (desk = "admin" /\ flights # <<>>)
  /\ \A j \in Jobs : job[j].stage = "reload" => \E i \in DOMAIN flights : flights[i].job = j

\* "Keep the dialog open so the operator can review/retry safely": a retried cancellation does
\* not meet a booking that an earlier attempt of this desk canceled, which the server refuses.
RetryCanSucceed == \A j \in Jobs : Calling(j, "cancel") => FirstIn(job[j].todo) \notin mine
=============================================================================
