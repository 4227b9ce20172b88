------------------------------ MODULE ShiftBook ------------------------------
(***************************************************************************)
(* The book of a staff member's shifts: pages/StaffTransactionPage.jsx     *)
(* with utils/shift.js, and what the server keeps and answers for it       *)
(* (service/transaction_service.go).  The page knows the shift from the    *)
(* clock at its last render; it loads the summaries of that shift and of   *)
(* the one before when the shift changes, every 30 seconds, and after its  *)
(* own entries.  Payments the same person takes at the desk are entries    *)
(* too.                                                                    *)
(*                                                                         *)
(* Time counts quarters of a day.  Summaries are given by the entries they *)
(* sum up.  A load takes the transactions when it is asked for, then the   *)
(* payments, and may arrive any time later.                                *)
(***************************************************************************)
EXTENDS Naturals, Sequences, SequencesExt, Web

CONSTANTS
  Forms,      \* the forms of the page, each of which books one kind of transaction
  Entries,    \* bound: numbers of the entries ever made
  FirstTime,  \* bound: the quarters looked at
  LastTime,
  MaxPolling    \* bound: the page polls only while fewer loads are under way

ASSUME ShiftAssumption == FirstTime \in Nat /\ LastTime \in Nat /\ MaxPolling \in Nat \ {0} /\ 4 <= FirstTime /\ FirstTime <= LastTime

VARIABLES
  now,        \* the time of the day, for browser and server
  rendered,   \* when the page was rendered last
  typed,      \* which forms are filled in
  entry,      \* the entries
  summaries,  \* summary, previousSummary: the answer that is shown
  shiftLoads, \* loads under way
  error       \* whether an error is shown

shiftVars == <<now, rendered, typed, entry, summaries, shiftLoads, error>>

QuarterOf(t) == <<"night", "morning", "afternoon", "evening">>[(t % 4) + 1]
DayAt(t)     == t \div 4
getShiftName(t) == IF QuarterOf(t) = "night" THEN "evening" ELSE QuarterOf(t)
getPreviousShift(shift) ==
  CASE shift = "morning" -> "evening" [] shift = "afternoon" -> "morning" [] shift = "evening" -> "afternoon"
\* Wrong: the evening is always today's.
previousShiftToday(t) == DayAt(t)

previousShiftBusinessDay(t) == IF getShiftName(t) = "morning" THEN DayAt(t) - 1 ELSE DayAt(t)

Current(t)  == <<getShiftName(t), DayAt(t)>>
Previous(t) == <<getPreviousShift(getShiftName(t)), previousShiftBusinessDay(t)>>

NoEntry == [stage |-> "none", form |-> None, table |-> None, at |-> 0, made |-> 0, shift |-> None, day |-> 0]

\* The page has been opened: its first load is under way, of a book without entries.
ShiftInit == /\ now = FirstTime /\ rendered = now
             /\ typed = {}
             /\ entry = [e \in Entries |-> NoEntry]
             /\ summaries = [of |-> 0, entries |-> {}]
             /\ shiftLoads = <<[of |-> now, why |-> "effect", entries |-> {}, paid |-> FALSE]>>
             /\ error = FALSE

-----------------------------------------------------------------------------
(* The server.  *)

\* The client names the shift, the server the business day.
CreateTransaction(e) == entry' = [entry EXCEPT ![e].stage = "booked", ![e].made = now, ![e].day = DayAt(now)]

\* ShiftSummary of the current and the previous shift at time t: first the transactions, ...
BookedUnder(table, t) == {e \in Entries : /\ entry'[e].stage = "booked" /\ entry'[e].table = table
                                     /\ <<entry'[e].shift, entry'[e].day>> \in {Current(t), Previous(t)}}
Asking(t, why) == [of |-> t, why |-> why, entries |-> BookedUnder("transactions", t), paid |-> FALSE]

\* ... then the payments.
ThenPayments(i) == /\ ~shiftLoads[i].paid
                   /\ UNCHANGED entry
                   /\ shiftLoads' = [shiftLoads EXCEPT ![i].paid = TRUE,
                                       ![i].entries = @ \cup BookedUnder("payments", shiftLoads[i].of)]
                   /\ UNCHANGED <<now, rendered, typed, summaries, error>>

\* The same person takes a payment at the booking desk.
NextEntry(e) == FirstOf(e, {d \in Entries : entry[d] = NoEntry})
DeskPayment(e) ==
  /\ NextEntry(e)
  /\ entry' = [entry EXCEPT ![e] = [NoEntry EXCEPT !.stage = "booked", !.table = "payments", !.at = now,
                                      !.made = now, !.shift = getShiftName(now), !.day = DayAt(now)]]
  /\ UNCHANGED <<now, rendered, typed, summaries, shiftLoads, error>>

-----------------------------------------------------------------------------
(* The page.  *)

\* Whatever changes its state renders the page; when shift or day have changed, the effect
\* starts anew with a load.
Renders(loads) ==
  /\ rendered' = now
  /\ shiftLoads' = IF <<Current(now), Previous(now)>> # <<Current(rendered), Previous(rendered)>>
                   THEN Append(loads, Asking(now, "effect")) ELSE loads

\* The clock goes on.  Six hours are long: the page has been rendered (it polls), and what was
\* under way has ended (it is given up after 20 seconds).
Tick == /\ now < LastTime /\ rendered = now
        /\ \A i \in DOMAIN shiftLoads : shiftLoads[i].of = now
        /\ \A e \in Entries : entry[e].stage = "sent" => entry[e].at = now
        /\ now' = now + 1
        /\ UNCHANGED <<rendered, typed, entry, summaries, shiftLoads, error>>

\* The interval of 30 seconds: the poll before has ended.
Poll == /\ Len(shiftLoads) < MaxPolling
        /\ \A i \in DOMAIN shiftLoads : shiftLoads[i].why # "poll"
        /\ UNCHANGED entry
        /\ Renders(Append(shiftLoads, Asking(rendered, "poll")))
        /\ UNCHANGED <<now, typed, summaries, error>>

loadShiftData(i) == /\ shiftLoads[i].paid
                    /\ summaries' = [of |-> shiftLoads[i].of, entries |-> shiftLoads[i].entries]
                    /\ error' = FALSE
                    /\ UNCHANGED entry
                    /\ Renders(RemoveAt(shiftLoads, i))
                    /\ UNCHANGED <<now, typed>>
\* Wrong: the failure is swallowed.
ShiftLoadFailsQuietly(i) == /\ error' = FALSE
                            /\ UNCHANGED entry
                            /\ Renders(RemoveAt(shiftLoads, i))
                            /\ UNCHANGED <<now, typed, summaries>>

ShiftLoadFails(i) == /\ error' = TRUE
                /\ UNCHANGED entry
                /\ Renders(RemoveAt(shiftLoads, i))
                /\ UNCHANGED <<now, typed, summaries>>

Type(f) == /\ f \notin typed
           /\ typed' = typed \cup {f}
           /\ UNCHANGED entry
           /\ Renders(shiftLoads)
           /\ UNCHANGED <<now, summaries, error>>

\* handleSaleSubmit, handleRefundSubmit, handleOwnerWithdrawSubmit: the buttons are not disabled
\* while an entry is sent, and the form is filled in until it is booked.
SubmitEntry(f, e) == /\ f \in typed /\ NextEntry(e)
                /\ entry' = [entry EXCEPT ![e] = [NoEntry EXCEPT !.stage = "sent", !.form = f, !.table = "transactions",
                               !.at = rendered, !.shift = getShiftName(rendered)]]
                /\ UNCHANGED <<now, rendered, typed, summaries, shiftLoads, error>>
EntryAnswered(e) == /\ entry[e].stage = "sent"
                    /\ CreateTransaction(e)
                    /\ typed' = typed \ {entry[e].form}
                    /\ Renders(Append(shiftLoads, Asking(entry[e].at, "entry")))
                    /\ UNCHANGED <<now, summaries, error>>

\* It is refused, or it is booked and the answer is lost.
EntryFails(e) == /\ entry[e].stage = "sent"
                  /\ \/ CreateTransaction(e)
                     \/ entry' = [entry EXCEPT ![e] = NoEntry]
                  /\ error' = TRUE
                  /\ Renders(shiftLoads)
                  /\ UNCHANGED <<now, typed, summaries>>

ShiftLoadStep == \E i \in DOMAIN shiftLoads : ThenPayments(i) \/ loadShiftData(i) \/ ShiftLoadFails(i)

ShiftNext == \/ Tick \/ Poll \/ ShiftLoadStep
             \/ \E e \in Entries : DeskPayment(e) \/ EntryAnswered(e) \/ EntryFails(e)
             \/ \E f \in Forms : Type(f) \/ \E e \in Entries : SubmitEntry(f, e)

\* The interval fires and loads end.
ShiftFairness == WF_shiftVars(Poll) /\ WF_shiftVars(ShiftLoadStep)

ShiftSpec == ShiftInit /\ [][ShiftNext]_shiftVars /\ ShiftFairness

-----------------------------------------------------------------------------
(* Properties.  *)

ShiftTypeOK ==
  /\ now \in FirstTime..LastTime /\ rendered \in {now - 1, now} /\ typed \subseteq Forms
  /\ entry \in [Entries -> [stage: {"none", "sent", "booked"}, form: Forms \cup {None}, at: Nat, made: Nat, day: Nat,
                            table: {None, "transactions", "payments"},
                            shift: {None, "morning", "afternoon", "evening"}]]
  /\ summaries.entries \subseteq Entries /\ error \in BOOLEAN
  /\ \A i \in DOMAIN shiftLoads : shiftLoads[i].entries \subseteq Entries

\* An entry can be seen on the page in the quarter it is made, also when it was sent under the
\* shift that has just ended, and in the shift that follows, from the evening also the next
\* morning: browser and server agree on shifts and business days.  Except at night: the quarter
\* from midnight to six counts as evening of the new day, and as following its afternoon.
InSight(t, e) == <<entry[e].shift, entry[e].day>> \in {Current(t), Previous(t)}
EntriesStayInSight ==
  \A e \in Entries :
    /\ entry[e].stage = "booked"
    /\ "night" \notin {QuarterOf(now), QuarterOf(entry[e].at), QuarterOf(entry[e].made)}
    /\ \/ now = entry[e].made
       \/ entry[e].at = entry[e].made /\ now = entry[e].made + 1
       \/ entry[e].at = entry[e].made /\ now = entry[e].made + 2 /\ QuarterOf(now) = "morning"
    => InSight(now, e)

\* Once shift and entries no longer change, the page shows what the server has of the current
\* and the previous shift, or an error: whatever was read halfway between two entries, answered
\* late, or asked for under an earlier shift is replaced.
SummaryCatchesUp ==
  <>[](rendered = now /\ (error \/ summaries.entries =
         {e \in Entries : entry[e].stage = "booked" /\ InSight(now, e)}))
=============================================================================
