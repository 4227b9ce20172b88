----------------------------- MODULE MCWebPages -----------------------------
(***************************************************************************)
(* The modules of the web application in one instance.  They share no      *)
(* state, so a behaviour is one of a single module, chosen at the start,   *)
(* while the others rest in an initial state of theirs.                    *)
(***************************************************************************)
EXTENDS WebSession, BookingDialog, DeskPages, BeverageStock, ShiftBook, CourtPanel, ListViews,
        DateNavigator

VARIABLE runs   \* the module that runs

Parts == {"session", "dialog", "desk", "stock", "shift", "panel", "views", "navigator"}
OnlyInitially(part, resting) == runs = part \/ resting

Roles == [a \in Accounts |-> "customer"]

\* The boards of a dialog: a day with a court of three slots and one of a single slot, empty, with
\* two single bookings of one customer side by side, with a group made together and a single
\* booking of the same customer beside it, with such a booking, overpaid, between two of a group,
\* and without its second slot; and another day, empty and with a group.
Free(id, d, court, start, price) == [id |-> id, day |-> d, court |-> court, start |-> start,
  price |-> price, booking |-> 0, group |-> 0, customer |-> 0, paid |-> 0]
Empty(d) == {Free(10 * d + 1, d, 1, 1, 1), Free(10 * d + 2, d, 1, 2, 2), Free(10 * d + 3, d, 1, 3, 1),
             Free(10 * d + 5, d, 2, 2, 1)}
Take(S, b, n, g, c, p) ==
  {IF s.id % 10 = n THEN [s EXCEPT !.booking = b, !.group = g, !.customer = c, !.paid = p] ELSE s : s \in S}
Singles(S)  == Take(Take(S, 1, 2, 0, 1, 1), 3, 3, 0, 1, 0)
Together(S) == Take(Take(Take(S, 1, 1, 7, 1, 1), 2, 2, 7, 1, 0), 3, 5, 0, 1, 1)
Between(S)  == Take(Take(Take(S, 1, 1, 7, 1, 1), 3, 2, 0, 1, 3), 2, 3, 7, 1, 0)
BoardsOf(d) == IF d = 1 THEN {Empty(1), Together(Empty(1)), Singles(Empty(1)), Between(Empty(1)),
                              {s \in Empty(1) : s.id # 12}}
               ELSE {Empty(2), Take(Take(Empty(2), 2, 1, 8, 2, 2), 3, 2, 8, 2, 1)}
DialogBoards == [d \in Days |-> BoardsOf(d)]

DeskSlots == [d \in Days |-> IF d = 1 THEN {11, 12} ELSE {21}]

PresetRanges == [p \in {"day", "week", "month", "year"} |-> IF p \in {"month", "year"} THEN 2 ELSE 1]
DayCells == [q \in Asks |-> IF q = 1 THEN {[court |-> 1, start |-> 8], [court |-> 2, start |-> 9]}
                                     ELSE {[court |-> 2, start |-> 8]}]

\* Days about the end of a year, and a leap February.
DateOn(y, m, d) == [y |-> y, m |-> m, d |-> d]
SomeDays == {DateOn(2027, 12, 31), DateOn(2028, 1, 31), DateOn(2028, 2, 29)}
FirstDay == DateOn(2027, 12, 29)
LastDay  == DateOn(2028, 3, 2)

PagesInit == /\ runs \in Parts
             /\ WebInit
             /\ DialogInit /\ OnlyInitially("dialog", board = Empty(PageDay))
             /\ DeskInit   /\ OnlyInitially("desk", desk = "staff")
             /\ StockInit  /\ OnlyInitially("stock", page = "counter")
             /\ ShiftInit
             /\ PanelInit  /\ OnlyInitially("panel", \A c, d \in Courts : base[c] <= base[d])
             /\ ViewsInit  /\ OnlyInitially("views", looked = "overview")
             /\ NavInit    /\ OnlyInitially("navigator", value = DateOn(2028, 1, 31))

PagesNext ==
  /\ UNCHANGED runs
  /\ \/ /\ runs = "session" /\ WebNext
        /\ UNCHANGED <<dialogVars, deskVars, stockVars, shiftVars, panelVars, viewVars, navVars>>
     \/ /\ runs = "dialog" /\ DialogNext
        /\ UNCHANGED <<webVars, deskVars, stockVars, shiftVars, panelVars, viewVars, navVars>>
     \/ /\ runs = "desk" /\ DeskNext
        /\ UNCHANGED <<webVars, dialogVars, stockVars, shiftVars, panelVars, viewVars, navVars>>
     \/ /\ runs = "stock" /\ StockNext
        /\ UNCHANGED <<webVars, dialogVars, deskVars, shiftVars, panelVars, viewVars, navVars>>
     \/ /\ runs = "shift" /\ ShiftNext
        /\ UNCHANGED <<webVars, dialogVars, deskVars, stockVars, panelVars, viewVars, navVars>>
     \/ /\ runs = "panel" /\ PanelNext
        /\ UNCHANGED <<webVars, dialogVars, deskVars, stockVars, shiftVars, viewVars, navVars>>
     \/ /\ runs = "views" /\ ViewsNext
        /\ UNCHANGED <<webVars, dialogVars, deskVars, stockVars, shiftVars, panelVars, navVars>>
     \/ /\ runs = "navigator" /\ NavNext
        /\ UNCHANGED <<webVars, dialogVars, deskVars, stockVars, shiftVars, panelVars, viewVars>>

\* ShiftFairness, of the module when it runs.
PagesFairness == WF_shiftVars(runs = "shift" /\ Poll) /\ WF_shiftVars(runs = "shift" /\ ShiftLoadStep)

PagesSpec == PagesInit /\ [][PagesNext]_<<runs, webVars, dialogVars, deskVars, stockVars, shiftVars, panelVars, viewVars, navVars>>
             /\ PagesFairness

\* The type invariants of the modules.
PagesTypeOK == /\ WebTypeOK /\ DialogTypeOK /\ DeskTypeOK /\ StockTypeOK /\ ShiftTypeOK
               /\ PanelTypeOK /\ ViewsTypeOK /\ NavTypeOK
=============================================================================
