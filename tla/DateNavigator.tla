--------------------------- MODULE DateNavigator ---------------------------
(***************************************************************************)
(* The choice of the day above a schedule: the seven days of the week and  *)
(* the steps by a week (components/schedule/ScheduleDateNavigator.jsx,     *)
(* utils/dateTime.js), and the calendar that opens beside them             *)
(* (components/ui/AppDatePicker.jsx).                                      *)
(*                                                                         *)
(* A day is chosen as year, month and day; in between, the code computes   *)
(* with Date objects at local midnight, here the number of the day from    *)
(* 1 January of the year 1, a Monday.  The time zone is left out: in       *)
(* Vietnam every day has 24 hours.                                         *)
(***************************************************************************)
EXTENDS Integers, FiniteSets

CONSTANTS
  Years,      \* the years a date may lie in
  Todays,     \* what today may be, [y, m, d]
  FirstDate, LastDate   \* bound: no control leaves the days between them

VARIABLES
  value,         \* the chosen day, [y, m, d]
  isOpen,        \* the calendar is open
  visibleMonth   \* a day of the month it shows

navVars == <<value, isOpen, visibleMonth>>

-----------------------------------------------------------------------------
(* Date: months out of range carry into the year, days into the month.     *)

IsLeap(y) == y % 4 = 0 /\ (y % 100 # 0 \/ y % 400 = 0)
MonthLength(y, m) == IF m = 2 THEN IF IsLeap(y) THEN 29 ELSE 28
                     ELSE IF m \in {4, 6, 9, 11} THEN 30 ELSE 31
BeforeYear(y) == 365 * (y - 1) + (y - 1) \div 4 - (y - 1) \div 100 + (y - 1) \div 400
BeforeMonth(y, m) == BeforeYear(y) + <<0, 31, 59, 90, 120, 151, 181, 212, 243, 273, 304, 334>>[m]
                     + (IF m > 2 /\ IsLeap(y) THEN 1 ELSE 0)
NewDate(y, m, d) == BeforeMonth(y + (m - 1) \div 12, ((m - 1) % 12) + 1) + d
getDay(n) == n % 7
getFullYear(n) == CHOOSE y \in Years : BeforeYear(y) < n /\ n <= BeforeYear(y + 1)
getMonth(n) == LET y == getFullYear(n)
               IN CHOOSE m \in 1..12 : BeforeMonth(y, m) < n /\ n <= BeforeMonth(y, m) + MonthLength(y, m)
getDate(n) == n - BeforeMonth(getFullYear(n), getMonth(n))

parseDateValue(v) == NewDate(v.y, v.m, v.d)
toDateValue(n) == LET m == getMonth(n) y == getFullYear(n)
                  IN [y |-> y, m |-> m, d |-> n - BeforeMonth(y, m)]
InBounds(n) == parseDateValue(FirstDate) <= n /\ n <= parseDateValue(LastDate)

IsDate(v) == v \in [y: Years, m: 1..12, d: 1..31] /\ v.d <= MonthLength(v.y, v.m)

\* The years follow one another, with room in them for six weeks before and after the bounds.
ASSUME NavAssumption ==
  /\ Years \subseteq Nat \ {0} /\ \A y, z \in Years : y..z \subseteq Years
  /\ IsDate(FirstDate) /\ IsDate(LastDate)
  /\ \E y \in Years : BeforeYear(y) + 42 <= parseDateValue(FirstDate)
  /\ \E y \in Years : parseDateValue(LastDate) + 42 <= BeforeYear(y + 1)
  /\ \A v \in Todays : IsDate(v) /\ InBounds(parseDateValue(v))

-----------------------------------------------------------------------------
(* The week and the calendar.                                              *)

addDays(v, days) == toDateValue(parseDateValue(v) + days)
startOfWeekMonday(v) == LET weekday == getDay(parseDateValue(v))
                        IN addDays(v, IF weekday = 0 THEN -6 ELSE 1 - weekday)
buildWeekDays(v) == [i \in 0..6 |-> addDays(startOfWeekMonday(v), i)]

\* Six weeks from the Monday on or before the first of the month.
buildCalendarDays(month) ==
  LET firstDay == NewDate(getFullYear(month), getMonth(month), 1)
      mondayOffset == (getDay(firstDay) + 6) % 7
  IN [i \in 0..41 |-> firstDay - mondayOffset + i]

-----------------------------------------------------------------------------
(* The controls.                                                           *)

NavInit == /\ value \in Todays /\ isOpen = FALSE
           /\ visibleMonth = parseDateValue(value)

\* The calendar turns to the chosen day, but only when it is another than before.
Chosen(v) == /\ InBounds(parseDateValue(v))
             /\ value' = v
             /\ visibleMonth' = IF v = value THEN visibleMonth ELSE parseDateValue(v)

chooseWeekDay(i) == Chosen(buildWeekDays(value)[i]) /\ UNCHANGED isOpen
stepWeek(weeks)  == Chosen(addDays(value, 7 * weeks)) /\ UNCHANGED isOpen

toggleCalendar == isOpen' = ~isOpen /\ UNCHANGED <<value, visibleMonth>>
closeCalendar  == isOpen /\ isOpen' = FALSE /\ UNCHANGED <<value, visibleMonth>>

\* Wrong: the day is kept, and a day the next month does not have carries on.
changeMonthKeepingDay(offset) ==
  /\ isOpen
  /\ visibleMonth' = NewDate(getFullYear(visibleMonth), getMonth(visibleMonth) + offset, getDate(visibleMonth))
  /\ InBounds(visibleMonth') /\ UNCHANGED <<value, isOpen>>

changeMonth(offset) ==
  /\ isOpen
  /\ visibleMonth' = NewDate(getFullYear(visibleMonth), getMonth(visibleMonth) + offset, 1)
  /\ InBounds(visibleMonth') /\ UNCHANGED <<value, isOpen>>
chooseDate(n) == isOpen /\ Chosen(toDateValue(n)) /\ isOpen' = FALSE
chooseToday   == \E v \in Todays : chooseDate(parseDateValue(v))

NavNext == \/ \E i \in 0..6 : chooseWeekDay(i)
           \/ \E step \in {-1, 1} : stepWeek(step) \/ changeMonth(step)
           \/ toggleCalendar \/ closeCalendar \/ chooseToday
           \/ \E i \in 0..41 : chooseDate(buildCalendarDays(visibleMonth)[i])

NavSpec == NavInit /\ [][NavNext]_navVars

-----------------------------------------------------------------------------
(* Properties.                                                             *)

NavTypeOK == IsDate(value) /\ isOpen \in BOOLEAN /\ InBounds(visibleMonth)

\* The day after, by the calendar alone.
DayAfter(v) == IF v.d < MonthLength(v.y, v.m) THEN [v EXCEPT !.d = v.d + 1]
               ELSE IF v.m < 12 THEN [y |-> v.y, m |-> v.m + 1, d |-> 1]
               ELSE [y |-> v.y + 1, m |-> 1, d |-> 1]
MonthOf(n) == 12 * getFullYear(n) + getMonth(n)

WeekIsWhole(v) ==
  LET week == buildWeekDays(v)
  IN /\ Cardinality({i \in 0..6 : week[i] = v}) = 1
     /\ getDay(parseDateValue(week[0])) = 1
     /\ \A i \in 0..5 : week[i + 1] = DayAfter(week[i])
CalendarIsWhole(n) ==
  LET cells == buildCalendarDays(n)
      month == toDateValue(n)
  IN /\ \A i \in 0..40 : toDateValue(cells[i + 1]) = DayAfter(toDateValue(cells[i]))
     /\ \E i \in 0..6 : /\ toDateValue(cells[i]) = [month EXCEPT !.d = 1]
                        /\ getDay(cells[i]) = (i + 1) % 7
                        /\ i + MonthLength(month.y, month.m) <= 42

\* Every day can be found and is what it says, over the ends of weeks, months and years and in leap
\* years.  Whenever the calendar is open, the week beside it has the chosen day among seven days in
\* a row from a Monday, and the calendar has days in a row with the first of its month in the first
\* row, in the column of its weekday, and the last of it before the end; and its arrows turn to the
\* month before and after, skipping none.
EveryDayCanBeChosen ==
  /\ [](isOpen => WeekIsWhole(value) /\ CalendarIsWhole(visibleMonth))
  /\ [][value' = value /\ visibleMonth' # visibleMonth
          => MonthOf(visibleMonth') - MonthOf(visibleMonth) \in {-1, 1}]_navVars
=============================================================================
