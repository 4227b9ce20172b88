------------------------------ MODULE ListViews ------------------------------
(***************************************************************************)
(* The views that list what their controls ask for: the customer's         *)
(* schedule of a day (pages/CustomerPage.jsx), the activity log            *)
(* (AdminActivityPage.jsx), the report (DashboardRevenuePage.jsx), the     *)
(* overview (AdminPage.jsx), the accounts (StaffManagementPage.jsx), the   *)
(* history of a beverage (BeverageManagementPage.jsx) and the summary of   *)
(* the shift at the counter (BeverageCounterPage.jsx).  One of them is     *)
(* looked at.                                                              *)
(*                                                                         *)
(* Each asks again when a control changes and shows whatever answer comes  *)
(* last: nothing ties an answer to what was asked.  What the server would  *)
(* list is a number that grows with every write.                           *)
(***************************************************************************)
EXTENDS Naturals, Sequences, FiniteSets, SequencesExt, Web

CONSTANTS
  Views,       \* the views that are looked at, among those below
  Asks,        \* what the controls can ask for: days, filters, ranges, beverages
  FirstAsk,    \* what they ask for at first
  Words,       \* what is searched for in the activity log
  RangeOf,     \* what each preset of the report asks for today: on a Monday the week is the day
  Cells,       \* the slots of each day, [court, start]
  Catalog,     \* the courts
  MaxWrites,   \* bound: writes
  MaxWaiting   \* bound: a control is used only while fewer loads are under way

ASSUME ViewsAssumption ==
  /\ Views \subseteq {"schedule", "activity", "report", "overview", "accounts", "history", "shift"}
  /\ FirstAsk \in Asks /\ None \notin Asks /\ None \notin Words
  /\ \A p \in DOMAIN RangeOf : RangeOf[p] \in Asks
  /\ \A q \in Asks : \A s \in Cells[q] : s # None /\ s = [court |-> s.court, start |-> s.start]
  /\ MaxWrites \in Nat

VARIABLES
  looked,      \* the view
  query,       \* day, from and to, actorId, category, historyItem, and the applied search
  search,      \* the search as typed
  listed,      \* the answer that is shown and what it was asked for
  asked,       \* loads under way
  waiting,     \* loading
  writing,     \* calls of the page's own under way: what the controls asked for when they were sent
  world,       \* server: writes so far
  askedAt,     \* history: the writes there were when the view last asked
  courtCatalog, selectedCourtIds,  \* the customer's courts and filter
  unhurried    \* history: no load failed or was overtaken, and nothing else was asked for while a
               \* call of the page's own was under way

viewVars == <<looked, query, search, listed, asked, waiting, writing, world, askedAt, courtCatalog, selectedCourtIds, unhurried>>
customer == <<courtCatalog, selectedCourtIds>>

Query0  == [ask |-> FirstAsk, words |-> None]
NoQuery == [ask |-> None, words |-> None]
Nothing == [of |-> NoQuery, at |-> 0]

\* Mounting asks at once, but the history opens at a button.
ViewsInit ==
  /\ looked \in Views
  /\ query = (IF looked = "history" THEN NoQuery ELSE Query0)
  /\ search = None /\ listed = Nothing
  /\ asked = (IF looked = "history" THEN <<>> ELSE <<[of |-> Query0, at |-> 0]>>)
  /\ waiting = (looked # "history") /\ writing = <<>>
  /\ world = 0 /\ askedAt = 0 /\ courtCatalog = {} /\ selectedCourtIds = {} /\ unhurried = TRUE

-----------------------------------------------------------------------------
(* Asking.  *)

\* Wrong: the applied search is not among its dependencies.
EffectWithoutWords == IF query'.ask = query.ask THEN UNCHANGED <<asked, waiting, askedAt>>
  ELSE asked' = Append(asked, [of |-> query', at |-> world]) /\ waiting' = TRUE /\ askedAt' = world

\* The effect on what is asked for: it runs only when that changes.
Effect == IF query' = query THEN UNCHANGED <<asked, waiting, askedAt>>
          ELSE asked' = Append(asked, [of |-> query', at |-> world]) /\ waiting' = TRUE /\ askedAt' = world
MayAsk == Len(asked) + Len(writing) < MaxWaiting

setFilter(q) == /\ looked \in {"schedule", "activity", "report", "shift"} /\ MayAsk
                /\ query' = [query EXCEPT !.ask = q]
                /\ Effect
                /\ UNCHANGED <<looked, search, listed, writing, world, customer, unhurried>>
applyPreset(p) == /\ looked = "report" /\ MayAsk
                  /\ query' = [query EXCEPT !.ask = RangeOf[p]]
                  /\ Effect
                  /\ UNCHANGED <<looked, search, listed, writing, world, customer, unhurried>>

typeSearch(w) == /\ looked = "activity" /\ search' = w
                 /\ UNCHANGED <<looked, query, listed, asked, waiting, writing, world, askedAt, customer, unhurried>>
submitSearch  == /\ looked = "activity" /\ MayAsk
                 /\ query' = [query EXCEPT !.words = search]
                 /\ Effect
                 /\ UNCHANGED <<looked, search, listed, writing, world, customer, unhurried>>
resetFilters  == /\ looked = "activity" /\ MayAsk
                 /\ query' = Query0 /\ search' = None
                 /\ Effect
                 /\ UNCHANGED <<looked, listed, writing, world, customer, unhurried>>

\* The history is emptied and asked for whenever it is opened.
openHistory(q) == /\ looked = "history" /\ MayAsk
                  /\ query' = [NoQuery EXCEPT !.ask = q]
                  /\ listed' = Nothing
                  /\ asked' = Append(asked, [of |-> query', at |-> world])
                  /\ waiting' = TRUE /\ askedAt' = world
                  /\ UNCHANGED <<looked, search, writing, world, customer, unhurried>>
closeHistory   == /\ looked = "history" /\ query' = NoQuery
                  /\ UNCHANGED <<looked, search, listed, asked, waiting, writing, world, askedAt, customer, unhurried>>

\* The button that refreshes is disabled while the page says that it loads.
RefreshView == /\ looked \in {"activity", "report", "overview", "accounts"} /\ ~waiting /\ MayAsk
               /\ asked' = Append(asked, [of |-> query, at |-> world])
               /\ waiting' = TRUE /\ askedAt' = world
               /\ UNCHANGED <<looked, query, search, listed, writing, world, customer, unhurried>>

\* A call of the page's own.  When it is answered, its handler asks again, for what the controls
\* asked for when it was called; when it fails, or the answer is lost, it does not.
OwnWrite == /\ looked \in {"accounts", "shift"} /\ MayAsk
            /\ writing' = Append(writing, query)
            /\ UNCHANGED <<looked, query, search, listed, asked, waiting, world, askedAt, customer, unhurried>>
WriteAnswered(i) == /\ world < MaxWrites /\ world' = world + 1
                    /\ writing' = RemoveAt(writing, i)
                    /\ asked' = Append(asked, [of |-> writing[i], at |-> world'])
                    /\ waiting' = TRUE /\ askedAt' = world'
                    /\ unhurried' = (unhurried /\ writing[i] = query)
                    /\ UNCHANGED <<looked, query, search, listed, customer>>
WriteFails(i) == /\ world' \in {world, world + 1} /\ world' <= MaxWrites
                 /\ writing' = RemoveAt(writing, i)
                 /\ UNCHANGED <<looked, query, search, listed, asked, waiting, askedAt, customer, unhurried>>

-----------------------------------------------------------------------------
(* Answers.  *)

ViewAnswered(i) == asked' = RemoveAt(asked, i) /\ waiting' = FALSE

Arrives(i) == /\ ViewAnswered(i)
              /\ listed' = [of |-> asked[i].of, at |-> asked[i].at]
              /\ unhurried' = (unhurried /\ i = 1)
              /\ UNCHANGED <<looked, query, search, writing, world, askedAt, customer>>
\* Failing, the schedule and the summary of the shift are emptied; the others stay as they are.
ViewFails(i) == /\ ViewAnswered(i)
                /\ listed' = IF looked \in {"schedule", "shift"} THEN Nothing ELSE listed
                /\ unhurried' = FALSE
                /\ UNCHANGED <<looked, query, search, writing, world, askedAt, customer>>

\* Somebody writes.
SomeWrite == /\ world < MaxWrites /\ world' = world + 1
             /\ UNCHANGED <<looked, query, search, listed, asked, waiting, writing, askedAt, customer, unhurried>>

-----------------------------------------------------------------------------
(* The customer's grid: a column for each court of the filter, a row for   *)
(* each time at which a slot of the day starts.                            *)

OnSchedule == /\ looked = "schedule"
              /\ UNCHANGED <<looked, query, search, listed, asked, waiting, writing, world, askedAt, unhurried>>
Pruned(S, courts) == S \cap courts

\* The courts are asked for once; a failure leaves none.
loadCatalog == /\ OnSchedule /\ courtCatalog = {}
               /\ courtCatalog' = Catalog
               /\ selectedCourtIds' = Pruned(selectedCourtIds, Catalog)
selectCourts(S) == OnSchedule /\ S \subseteq courtCatalog /\ selectedCourtIds' = S /\ UNCHANGED courtCatalog

filteredCourts == IF selectedCourtIds = {} THEN courtCatalog ELSE courtCatalog \cap selectedCourtIds
daySlots  == IF listed.of.ask = None THEN {} ELSE Cells[listed.of.ask]
timeBands == {s.start : s \in daySlots}
heatmapGrid == [t \in timeBands |-> [c \in filteredCourts |->
                 LET here == {s \in daySlots : s.court = c /\ s.start = t}
                 IN IF here = {} THEN None ELSE CHOOSE s \in here : TRUE]]

ViewsNext == \/ \E q \in Asks : setFilter(q) \/ openHistory(q)
             \/ \E p \in DOMAIN RangeOf : applyPreset(p)
             \/ \E w \in Words : typeSearch(w)
             \/ submitSearch \/ resetFilters \/ closeHistory \/ RefreshView \/ OwnWrite \/ SomeWrite
             \/ \E i \in DOMAIN asked : Arrives(i) \/ ViewFails(i)
             \/ \E i \in DOMAIN writing : WriteAnswered(i) \/ WriteFails(i)
             \/ loadCatalog \/ \E S \in SUBSET Catalog : selectCourts(S)

ViewsSpec == ViewsInit /\ [][ViewsNext]_viewVars

-----------------------------------------------------------------------------
(* Properties.  *)

AnyQuery == [ask: Asks \cup {None}, words: Words \cup {None}]
ViewsTypeOK == /\ looked \in Views /\ query \in AnyQuery /\ search \in Words \cup {None}
               /\ listed \in [of: AnyQuery, at: 0..MaxWrites]
               /\ asked \in Seq([of: AnyQuery, at: 0..MaxWrites]) /\ writing \in Seq(AnyQuery)
               /\ waiting \in BOOLEAN /\ world \in 0..MaxWrites /\ askedAt \in 0..world
               /\ courtCatalog \in {{}, Catalog} /\ selectedCourtIds \subseteq courtCatalog /\ unhurried \in BOOLEAN

\* A view shows what its controls ask for: once nothing is under way it lists the answer to the
\* day, the filters and the applied search as they are now, as of the last time it asked, and the
\* customer's grid has every slot of the day at the courts of the filter in exactly one cell; as
\* long as no load failed or was overtaken, and no other shift was chosen while a sale was under way.
ViewShowsItsQuery ==
  /\ unhurried /\ asked = <<>> /\ query # NoQuery => listed = [of |-> query, at |-> askedAt]
  /\ \A s \in daySlots : s.court \in filteredCourts =>
       Cardinality({tc \in timeBands \X filteredCourts : heatmapGrid[tc[1]][tc[2]] = s}) = 1
=============================================================================
