----------------------------- MODULE PriceRules -----------------------------
(***************************************************************************)
(* The price rules of one court (service/court_service.go 109-193): an     *)
(* administrator's request validates a rule against the table it reads,    *)
(* then writes it in a separate statement.  Repricing the slots, which     *)
(* follows each write, belongs to CourtSchedule.                           *)
(***************************************************************************)
EXTENDS Pricing

CONSTANTS
  Admins,           \* requests of administrators in flight
  Forms,            \* what a request may ask a rule to be; its id is 0
  MaxRules,         \* bound: rules ever inserted
  Dates,            \* dates and clock times at which prices are looked at
  Clocks,
  BasePrice,        \* courts.base_price
  DefaultPriority   \* the priority of a request that names none

ASSUME FormsAssumption    == Forms \subseteq {r \in Rule : r.id = 0} /\ MaxRules \in Nat
ASSUME CalendarAssumption == Dates \subseteq Nat /\ Clocks \subseteq Nat
ASSUME PriceAssumption    == BasePrice \in Nat /\ DefaultPriority \in Nat \ {0}

VARIABLES
  table,    \* court_price_rules: a set of rules with different ids
  nextRule, \* the id the next rule gets
  work,     \* per request: the rule it has validated, still to be written
  stale,    \* history: requests after whose validation another rule was written
  unchecked \* history: ids of rules stored as nobody had validated them

ruleVars == <<table, nextRule, work, stale, unchecked>>

Nothing == [step |-> "idle"]
Work == {Nothing} \cup [step: {"create", "update"}, rule: Rule]

RulesInit ==
  /\ table = {}
  /\ nextRule = 1
  /\ work = [a \in Admins |-> Nothing]
  /\ stale = {}
  /\ unchecked = {}

-----------------------------------------------------------------------------

\* Wrong: a priority of 0 is stored.
WithGivenPriority(form) == form

\* priceRuleFromRequest: a priority of 0 stands for the default.
WithPriority(form) ==
  IF form.priority = 0 THEN [form EXCEPT !.priority = DefaultPriority] ELSE form

Accepted(r, exclude) ==
  /\ WellFormed(r)
  /\ \A q \in table : q.id = exclude \/ ~Overlaps(r, q)

Validate(a, step, r) ==
  /\ work[a] = Nothing
  /\ Accepted(r, r.id)
  /\ work' = [work EXCEPT ![a] = [step |-> step, rule |-> r]]
  /\ stale' = stale \ {a}
  /\ UNCHANGED <<table, nextRule, unchecked>>

ValidateNew(a) == \E f \in Forms : Validate(a, "create", WithPriority(f))

ValidateChange(a) ==
  \E f \in Forms, current \in table :
    Validate(a, "update", [WithPriority(f) EXCEPT !.id = current.id])

\* An INSERT by gorm: a false is_active is its zero value, for which it takes the
\* default of the column (models/price_rule.go 20), true.
Inserted(r) == [r EXCEPT !.active = TRUE]

\* A rule is written: what the others have validated may no longer hold.
Written(a, r) ==
  /\ table' = {q \in table : q.id # r.id} \cup {r}
  /\ work' = [work EXCEPT ![a] = Nothing]
  /\ stale' = (stale \cup {b \in Admins : work[b] # Nothing}) \ {a}
  /\ unchecked' = IF a \in stale \/ r.active # work[a].rule.active
                  THEN unchecked \cup {r.id} ELSE unchecked \ {r.id}

CreatePriceRule(a) ==
  /\ work[a].step = "create"
  /\ nextRule <= MaxRules
  /\ Written(a, Inserted([work[a].rule EXCEPT !.id = nextRule]))
  /\ nextRule' = nextRule + 1

\* Save updates every column, or inserts the row again if it is gone.
UpdatePriceRule(a) ==
  /\ work[a].step = "update"
  /\ LET r == work[a].rule
     IN  IF \E q \in table : q.id = r.id THEN Written(a, r) ELSE Written(a, Inserted(r))
  /\ UNCHANGED nextRule

DeletePriceRule(a) ==
  /\ work[a] = Nothing
  /\ \E current \in table : table' = table \ {current}
  /\ UNCHANGED <<nextRule, work, stale, unchecked>>

\* The statement fails, or the process stops.
WriteFails(a) ==
  /\ work[a] # Nothing
  /\ work' = [work EXCEPT ![a] = Nothing]
  /\ stale' = stale \ {a}
  /\ UNCHANGED <<table, nextRule, unchecked>>

RulesNext ==
  \E a \in Admins :
    \/ ValidateNew(a)
    \/ ValidateChange(a)
    \/ CreatePriceRule(a)
    \/ UpdatePriceRule(a)
    \/ DeletePriceRule(a)
    \/ WriteFails(a)

RulesSpec == RulesInit /\ [][RulesNext]_ruleVars

-----------------------------------------------------------------------------

\* Every variable keeps its type; a stored priority is never 0, which a request
\* uses for "the default" (handler/court_handler.go 187-190), and ids are unique.
RulesTypeOK ==
  /\ nextRule \in Nat \ {0}
  /\ table \subseteq {r \in Rule : r.priority > 0 /\ r.id \in 1..(nextRule - 1)}
  /\ \A p, q \in table : p.id = q.id => p = q
  /\ work \in [Admins -> Work]
  /\ stale \subseteq Admins
  /\ unchecked \subseteq 1..(nextRule - 1)

\* Two rules set the price of one slot with equal right.
Contradict(p, q, date, clock) ==
  /\ {p, q} \subseteq InEffect({p, q}, date)
  /\ Applies(p, date, clock) /\ Applies(q, date, clock)
  /\ p.priority = q.priority

\* The check before each write (court_service.go 177-191) keeps two rules of one
\* priority apart on any date and at any clock time, unless one of them was written
\* after its validation had become stale, or inserted as active although inactive
\* was asked for.
RulesDoNotContradict ==
  \A p, q \in table, date \in Dates, clock \in Clocks :
    p # q /\ Contradict(p, q, date, clock) => p.id \in unchecked \/ q.id \in unchecked

\* models/price_rule.go 7-8: "Rules at the same priority may not overlap in
\* day/time/effective-date coverage."
RulesNeverContradict ==
  \A p, q \in table, date \in Dates, clock \in Clocks :
    p # q => ~Contradict(p, q, date, clock)

\* The loop over the listed rules (pricing/rules.go 36-57) finds the price of the
\* rule that outranks all others in effect, also when rules contradict each other,
\* and the base price when there is none.
BestRuleSetsPrice ==
  \A date \in Dates, clock \in Clocks :
    LET matching == {r \in InEffect(table, date) : Applies(r, date, clock)}
        price    == ResolveRulePrice(BasePrice, date, clock, ListActive(table, date))
    IN  IF matching = {}
        THEN price = BasePrice
        ELSE \E best \in matching :
               /\ price = best.price
               /\ \A r \in matching \ {best} :
                    r.priority < best.priority
                    \/ (r.priority = best.priority /\ r.id < best.id)
=============================================================================
