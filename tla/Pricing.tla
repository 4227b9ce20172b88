------------------------------ MODULE Pricing ------------------------------
(***************************************************************************)
(* Price rules of a court and the price they give a slot: pricing/rules.go *)
(* and the checks of service/court_service.go, as operators.               *)
(*                                                                         *)
(* Dates are day numbers; a date's weekday is the date modulo 7.  Clock    *)
(* times are numbers: for zero-padded HH:MM texts the order of the texts,  *)
(* which the code compares, is the order of the times.                     *)
(***************************************************************************)
EXTENDS Integers, SequencesExt

Weekdays == 0..6
Weekday(date) == date % 7

\* No effective_from, or no effective_to.
Unlimited == -1

\* A rule's id is 0 until the database gives it one.
Rule == [id: Nat, days: SUBSET Weekdays, start: Nat, end: Nat, price: Nat, priority: Nat,
         first: Int, last: Int, active: BOOLEAN]

\* ListActiveForCourtAndDate: the rules in effect on a date, highest priority first.
InEffect(table, date) ==
  {r \in table : /\ r.active
                 /\ r.first = Unlimited \/ r.first <= date
                 /\ r.last = Unlimited \/ r.last >= date}

Ahead(p, q) == p.priority > q.priority \/ (p.priority = q.priority /\ p.id > q.id)

ListActive(table, date) ==
  CHOOSE list \in SetToSeqs(InEffect(table, date)) :
    \A i, j \in DOMAIN list : i < j => Ahead(list[i], list[j])

Applies(r, date, clock) ==
  /\ r.active
  /\ Weekday(date) \in r.days
  /\ r.start <= clock
  /\ clock < r.end

\* Wrong: among rules of one priority the last of the list wins.
SupersedesByPriority(r, best) == r.priority >= best.priority

Supersedes(r, best) ==
  r.priority > best.priority \/ (r.priority = best.priority /\ r.id > best.id)

\* The loop of ResolveRulePrice; a priority is never negative.
ResolveRulePrice(base, date, clock, list) ==
  FoldLeft(LAMBDA best, r : IF Applies(r, date, clock) /\ Supersedes(r, best)
                            THEN [priority |-> r.priority, id |-> r.id, price |-> r.price]
                            ELSE best,
           [priority |-> -1, id |-> 0, price |-> base], list).price

\* validatePriceRule without its search for overlaps.
WellFormed(r) ==
  /\ r.days # {}
  /\ r.start < r.end
  /\ (r.first # Unlimited /\ r.last # Unlimited) => r.first <= r.last

ClockRangesOverlap(p, q) == p.start < q.end /\ q.start < p.end

DateRangesOverlap(p, q) ==
  /\ ~(p.last # Unlimited /\ q.first # Unlimited /\ p.last < q.first)
  /\ ~(q.last # Unlimited /\ p.first # Unlimited /\ q.last < p.first)

\* Wrong: rules that share a weekday only are taken to be apart.
OverlapsByDate(p, q) ==
  /\ p.active /\ q.active
  /\ p.priority = q.priority
  /\ p.days = q.days
  /\ ClockRangesOverlap(p, q)
  /\ DateRangesOverlap(p, q)

Overlaps(p, q) ==
  /\ p.active /\ q.active
  /\ p.priority = q.priority
  /\ p.days \cap q.days # {}
  /\ ClockRangesOverlap(p, q)
  /\ DateRangesOverlap(p, q)
=============================================================================
