-------------------------- MODULE PriceRulesProofs --------------------------
(***************************************************************************)
(* For any number of administrators, rules, dates and clock times: the     *)
(* check before a write keeps two rules of one priority apart unless a     *)
(* rule was stored as nobody had validated it, and the loop over the       *)
(* listed rules finds the price of the best of them.                       *)
(***************************************************************************)
EXTENDS PriceRules, DataLemmas

\* A rule waiting to be written has its priority, and its id if it is to change one.
Pending ==
  \A a \in Admins : work[a] # Nothing =>
    /\ work[a].rule.priority > 0
    /\ work[a].step = "create" => work[a].rule.id = 0
    /\ work[a].step = "update" => work[a].rule.id \in 1..(nextRule - 1)

\* Stored rules overlap only with one that nobody had validated.
Separated ==
  \A p, q \in table : p # q /\ Overlaps(p, q) => p.id \in unchecked \/ q.id \in unchecked

\* What a request has validated still holds unless another rule was written since.
ValidationHolds ==
  \A a \in Admins \ stale : work[a] # Nothing =>
    \A q \in table : q.id = work[a].rule.id \/ ~Overlaps(work[a].rule, q)

IInv == RulesTypeOK /\ Pending /\ Separated /\ ValidationHolds

\* The table is a finite set, whose rules can be listed.
Finite == IsFiniteSet(table)

USE FormsAssumption, CalendarAssumption, PriceAssumption

-----------------------------------------------------------------------------

\* Overlapping does not depend on which of two rules comes first.
LEMMA OverlapSymmetry ==
  ASSUME NEW p \in Rule, NEW q \in Rule
  PROVE  Overlaps(p, q) <=> Overlaps(q, p)
<1>1. p.days \cap q.days = q.days \cap p.days
  OBVIOUS
<1>2. p.priority \in Nat /\ q.priority \in Nat /\ p.start \in Nat /\ q.start \in Nat
      /\ p.end \in Nat /\ q.end \in Nat
  BY DEF Rule
<1> QED
  BY <1>1, <1>2 DEF Overlaps, ClockRangesOverlap, DateRangesOverlap

\* Two rules that set the price of one slot with equal right do overlap: the
\* comparison of ranges (court_service.go 185-188) misses no date and no clock time.
LEMMA ContradictionIsOverlap ==
  ASSUME NEW p \in Rule, NEW q \in Rule, NEW date \in Dates, NEW clock \in Clocks,
         Contradict(p, q, date, clock)
  PROVE  Overlaps(p, q)
<1>1. date \in Nat /\ clock \in Nat
  OBVIOUS
<1>2. /\ p.start \in Nat /\ p.end \in Nat /\ p.first \in Int /\ p.last \in Int
      /\ q.start \in Nat /\ q.end \in Nat /\ q.first \in Int /\ q.last \in Int
  BY DEF Rule
<1>3. /\ p \in InEffect({p, q}, date) /\ q \in InEffect({p, q}, date)
      /\ Applies(p, date, clock) /\ Applies(q, date, clock)
      /\ p.priority = q.priority
  BY DEF Contradict
<1>4. p.active /\ q.active /\ p.days \cap q.days # {}
  BY <1>3 DEF Applies
<1>5. ClockRangesOverlap(p, q)
  BY <1>1, <1>2, <1>3 DEF Applies, ClockRangesOverlap
<1>6. DateRangesOverlap(p, q)
  BY <1>1, <1>2, <1>3 DEF InEffect, DateRangesOverlap, Unlimited
<1> QED
  BY <1>3, <1>4, <1>5, <1>6 DEF Overlaps

\* More ids have been given out than before.
LEMMA LongerRange ==
  ASSUME NEW m \in Nat, NEW n \in Nat, m <= n
  PROVE  1..(m - 1) \subseteq 1..(n - 1)
OBVIOUS

\* The rule of a request, with its id and priority.
LEMMA RequestedRule ==
  ASSUME NEW f \in Forms, NEW i \in Nat
  PROVE  /\ WithPriority(f) \in Rule
         /\ WithPriority(f).priority > 0
         /\ WithPriority(f).id = 0
         /\ [WithPriority(f) EXCEPT !.id = i] \in Rule
         /\ [WithPriority(f) EXCEPT !.id = i].priority > 0
         /\ [WithPriority(f) EXCEPT !.id = i].id = i
<1>1. f \in Rule /\ f.id = 0
  OBVIOUS
<1>2. WithPriority(f) \in Rule /\ WithPriority(f).priority > 0 /\ WithPriority(f).id = 0
  BY <1>1 DEF WithPriority, Rule
<1> QED
  BY <1>2 DEF Rule

-----------------------------------------------------------------------------

\* A validation keeps the invariant: what it leaves behind has just been checked.
LEMMA ValidateKeeps ==
  ASSUME IInv, NEW a \in Admins, NEW step \in {"create", "update"}, NEW r \in Rule,
         r.priority > 0,
         step = "create" => r.id = 0,
         step = "update" => r.id \in 1..(nextRule - 1),
         Validate(a, step, r)
  PROVE  IInv'
<1> DEFINE job == [step |-> step, rule |-> r]
<1> USE DEF IInv, Validate
<1>1. job \in Work /\ job # Nothing
  BY DEF Work, Nothing
<1>2. /\ work' \in [Admins -> Work]
      /\ work'[a] = job
      /\ \A b \in Admins \ {a} : work'[b] = work[b]
  BY <1>1 DEF RulesTypeOK
<1>3. RulesTypeOK'
  BY <1>2 DEF RulesTypeOK
<1>4. Pending'
  BY <1>2 DEF Pending
<1>5. Separated'
  BY DEF Separated
<1>6. ValidationHolds'
  <2> SUFFICES ASSUME NEW b \in Admins \ stale', work'[b] # Nothing, NEW q \in table
               PROVE  q.id = work'[b].rule.id \/ ~Overlaps(work'[b].rule, q)
    BY DEF ValidationHolds
  <2>1. CASE b = a
    BY <2>1, <1>2 DEF Accepted
  <2>2. CASE b # a
    BY <2>2, <1>2 DEF ValidationHolds
  <2> QED
    BY <2>1, <2>2
<1> QED
  BY <1>3, <1>4, <1>5, <1>6

\* A write keeps the invariant, whether it adds the rule or replaces one: only the
\* request itself can still rely on its validation.
LEMMA WrittenKeeps ==
  ASSUME IInv, NEW a \in Admins, work[a] # Nothing, NEW r \in Rule,
         r.id \in 1..(nextRule' - 1), r.priority > 0,
         nextRule' \in {nextRule, nextRule + 1},
         r.active = work[a].rule.active =>
           /\ \A q \in Rule : Overlaps(r, q) <=> Overlaps(work[a].rule, q)
           /\ \A q \in table : q.id = work[a].rule.id => q.id = r.id,
         Written(a, r)
  PROVE  IInv'
<1> USE DEF IInv, Written
<1>1. nextRule \in Nat \ {0} /\ nextRule' \in Nat \ {0} /\ nextRule <= nextRule'
  BY DEF RulesTypeOK
<1>2. /\ work' \in [Admins -> Work]
      /\ work'[a] = Nothing
      /\ \A b \in Admins \ {a} : work'[b] = work[b]
  BY DEF RulesTypeOK, Work
<1>3. \A q \in table' : q = r \/ (q \in table /\ q.id # r.id)
  OBVIOUS
<1>4. \A q \in table : q \in Rule /\ q.priority > 0 /\ q.id \in 1..(nextRule - 1)
  BY DEF RulesTypeOK
<1>5. RulesTypeOK'
  <2>1. table' \subseteq {q \in Rule : q.priority > 0 /\ q.id \in 1..(nextRule' - 1)}
    BY <1>1, <1>3, <1>4
  <2>2. \A p, q \in table' : p.id = q.id => p = q
    BY <1>3 DEF RulesTypeOK
  <2>3. stale' \subseteq Admins
    BY DEF RulesTypeOK
  <2>4. unchecked' \subseteq 1..(nextRule' - 1)
    <3>1. unchecked \subseteq 1..(nextRule - 1)
      BY DEF RulesTypeOK
    <3>2. unchecked' = unchecked \cup {r.id} \/ unchecked' = unchecked \ {r.id}
      OBVIOUS
    <3>3. 1..(nextRule - 1) \subseteq 1..(nextRule' - 1)
      BY <1>1, LongerRange
    <3> QED
      BY <3>1, <3>2, <3>3
  <2> QED
    BY <1>1, <1>2, <2>1, <2>2, <2>3, <2>4 DEF RulesTypeOK
<1>6. Pending'
  BY <1>1, <1>2 DEF Pending
<1>7. Separated'
  <2> SUFFICES ASSUME NEW p \in table', NEW q \in table', p # q, Overlaps(p, q),
                      p.id \notin unchecked', q.id \notin unchecked'
               PROVE  FALSE
    BY DEF Separated
  <2>1. CASE p # r /\ q # r
    <3>1. p \in table /\ q \in table /\ p.id # r.id /\ q.id # r.id
      BY <2>1, <1>3
    <3> QED
      BY <3>1 DEF Separated
  <2>2. ASSUME NEW s \in table', s # r, Overlaps(r, s), r.id \notin unchecked'
        PROVE  FALSE
    <3>1. s \in table /\ s.id # r.id /\ s \in Rule
      BY <2>2, <1>3, <1>4
    <3>2. a \notin stale /\ r.active = work[a].rule.active
      BY <2>2
    <3>3. Overlaps(work[a].rule, s) /\ s.id # work[a].rule.id
      BY <2>2, <3>1, <3>2
    <3> QED
      BY <3>1, <3>2, <3>3 DEF ValidationHolds
  <2>3. CASE p = r
    BY <2>2, <2>3
  <2>4. CASE q = r
    <3>1. p \in Rule
      BY <1>3, <1>4
    <3>2. Overlaps(r, p)
      BY <2>4, <3>1, OverlapSymmetry
    <3> QED
      BY <2>2, <2>4, <3>2
  <2> QED
    BY <2>1, <2>3, <2>4
<1>8. ValidationHolds'
  BY <1>2 DEF ValidationHolds
<1> QED
  BY <1>5, <1>6, <1>7, <1>8

\* Every step keeps the invariant.
LEMMA StepKeeps == IInv /\ [RulesNext]_ruleVars => IInv'
<1> SUFFICES ASSUME IInv, [RulesNext]_ruleVars
             PROVE  IInv'
  OBVIOUS
<1> USE DEF IInv
<1>1. ASSUME NEW a \in Admins, ValidateNew(a)
      PROVE  IInv'
  <2>1. PICK f \in Forms : Validate(a, "create", WithPriority(f))
    BY <1>1 DEF ValidateNew
  <2> QED
    BY <2>1, RequestedRule, ValidateKeeps
<1>2. ASSUME NEW a \in Admins, ValidateChange(a)
      PROVE  IInv'
  <2>1. PICK f \in Forms, current \in table :
               Validate(a, "update", [WithPriority(f) EXCEPT !.id = current.id])
    BY <1>2 DEF ValidateChange
  <2>2. current.id \in Nat /\ current.id \in 1..(nextRule - 1)
    BY DEF RulesTypeOK
  <2> QED
    BY <2>1, <2>2, RequestedRule, ValidateKeeps
<1>3. ASSUME NEW a \in Admins, work[a] # Nothing
      PROVE  work[a].rule \in Rule /\ work[a].rule.priority > 0
  BY <1>3 DEF RulesTypeOK, Work, Pending
<1>4. ASSUME NEW a \in Admins, CreatePriceRule(a)
      PROVE  IInv'
  <2> DEFINE w == work[a].rule
             r == Inserted([w EXCEPT !.id = nextRule])
  <2>1. work[a] # Nothing /\ w.id = 0 /\ w \in Rule /\ nextRule \in Nat \ {0}
    BY <1>3, <1>4 DEF CreatePriceRule, Nothing, Pending, RulesTypeOK
  <2>2. r \in Rule /\ r.id = nextRule /\ r.priority = w.priority
    BY <2>1 DEF Inserted, Rule
  <2>3. r.id \in 1..(nextRule' - 1) /\ r.priority > 0
    BY <2>1, <2>2, <1>3, <1>4 DEF CreatePriceRule
  <2>4. ASSUME r.active = w.active
        PROVE  /\ \A q \in Rule : Overlaps(r, q) <=> Overlaps(w, q)
               /\ \A q \in table : q.id = w.id => q.id = r.id
    <3>1. /\ r.days = w.days /\ r.start = w.start /\ r.end = w.end
          /\ r.first = w.first /\ r.last = w.last
      BY <2>1 DEF Inserted, Rule
    <3>2. \A q \in Rule : Overlaps(r, q) <=> Overlaps(w, q)
      BY <2>2, <2>4, <3>1 DEF Overlaps, ClockRangesOverlap, DateRangesOverlap
    <3>3. \A q \in table : q.id # 0
      BY DEF RulesTypeOK
    <3> QED
      BY <3>2, <3>3, <2>1
  <2>5. Written(a, r) /\ nextRule' = nextRule + 1
    BY <1>4 DEF CreatePriceRule
  <2> HIDE DEF r
  <2> QED
    BY <2>1, <2>2, <2>3, <2>4, <2>5, WrittenKeeps
<1>5. ASSUME NEW a \in Admins, UpdatePriceRule(a)
      PROVE  IInv'
  <2> DEFINE w == work[a].rule
  <2>1. work[a] # Nothing /\ w \in Rule /\ w.id \in 1..(nextRule - 1) /\ w.priority > 0
    BY <1>3, <1>5 DEF UpdatePriceRule, Nothing, Pending
  <2>2. nextRule' = nextRule
    BY <1>5 DEF UpdatePriceRule
  <2>3. CASE Written(a, w)
    BY <2>1, <2>2, <2>3, WrittenKeeps
  <2>4. CASE Written(a, Inserted(w))
    <3> DEFINE r == Inserted(w)
    <3>1. r \in Rule /\ r.id = w.id /\ r.priority = w.priority
      BY <2>1 DEF Inserted, Rule
    <3>2. r.active = w.active => r = w
      BY <2>1 DEF Inserted, Rule
    <3>3. Written(a, r)
      BY <2>4
    <3> HIDE DEF r
    <3> QED
      BY <3>1, <3>2, <3>3, <2>1, <2>2, WrittenKeeps
  <2> QED
    BY <1>5, <2>3, <2>4 DEF UpdatePriceRule
<1>6. ASSUME NEW a \in Admins, DeletePriceRule(a)
      PROVE  IInv'
  <2>1. table' \subseteq table
    BY <1>6 DEF DeletePriceRule
  <2> QED
    BY <1>6, <2>1 DEF DeletePriceRule, RulesTypeOK, Pending, Separated, ValidationHolds
<1>7. ASSUME NEW a \in Admins, WriteFails(a)
      PROVE  IInv'
  <2>1. /\ work' \in [Admins -> Work]
        /\ work'[a] = Nothing
        /\ \A b \in Admins \ {a} : work'[b] = work[b]
    BY <1>7 DEF WriteFails, RulesTypeOK, Work
  <2>2. RulesTypeOK'
    BY <1>7, <2>1 DEF WriteFails, RulesTypeOK
  <2>3. Pending' /\ Separated'
    BY <1>7, <2>1 DEF WriteFails, Pending, Separated
  <2>4. ValidationHolds'
    BY <1>7, <2>1 DEF WriteFails, ValidationHolds
  <2> QED
    BY <2>2, <2>3, <2>4
<1>8. CASE UNCHANGED ruleVars
  BY <1>8 DEF ruleVars, RulesTypeOK, Pending, Separated, ValidationHolds
<1> QED
  BY <1>1, <1>2, <1>4, <1>5, <1>6, <1>7, <1>8 DEF RulesNext

\* The invariant holds for any number of administrators, rules and dates.
THEOREM InvariantHolds == RulesSpec => []IInv
<1>1. RulesInit => IInv
  BY DEF RulesInit, IInv, RulesTypeOK, Pending, Separated, ValidationHolds, Work, Nothing
<1> QED
  BY <1>1, StepKeeps, PTL DEF RulesSpec

\* RulesTypeOK holds for any constants: in particular ids stay unique and no rule is
\* stored with the priority 0 that stands for the default.
THEOREM TypeCorrect == RulesSpec => []RulesTypeOK
<1>1. IInv => RulesTypeOK
  BY DEF IInv
<1> QED
  BY <1>1, InvariantHolds, PTL

\* RulesDoNotContradict for all dates and clock times: the interval comparisons of
\* validatePriceRule are exact enough, and only a stale validation or a rule made
\* active against the request lets two rules contradict each other.
THEOREM ValidatedRulesDoNotContradict == RulesSpec => []RulesDoNotContradict
<1>1. IInv => RulesDoNotContradict
  <2> SUFFICES ASSUME IInv, NEW p \in table, NEW q \in table, NEW date \in Dates,
                      NEW clock \in Clocks, p # q, Contradict(p, q, date, clock)
               PROVE  p.id \in unchecked \/ q.id \in unchecked
    BY DEF RulesDoNotContradict
  <2>1. p \in Rule /\ q \in Rule
    BY DEF IInv, RulesTypeOK
  <2> QED
    BY <2>1, ContradictionIsOverlap DEF IInv, Separated
<1> QED
  BY <1>1, InvariantHolds, PTL

\* "Rules at the same priority may not overlap" (models/price_rule.go 7) is what
\* CreatePriceRule and UpdatePriceRule keep as long as each request is done before
\* the next begins and every rule sent is active: the two ways round the check are
\* the only ones.
THEOREM OneRequestAtATimeIsEnough ==
  ASSUME \A a, b \in Admins : a = b, \A f \in Forms : f.active
  PROVE  RulesSpec => []RulesNeverContradict
<1> DEFINE Alone == /\ unchecked = {} /\ stale = {}
                    /\ \A a \in Admins : work[a] # Nothing => work[a].rule.active
           Inv   == IInv /\ Alone
<1>1. RulesInit => Inv
  BY DEF RulesInit, IInv, RulesTypeOK, Pending, Separated, ValidationHolds, Work, Nothing
<1>2. ASSUME Inv, NEW a \in Admins, NEW step, NEW r, r.active, Validate(a, step, r)
      PROVE  Alone'
  BY <1>2 DEF Validate, IInv, RulesTypeOK
<1>3. ASSUME Inv, NEW a \in Admins, NEW r, r.active, Written(a, r), work[a].rule.active
      PROVE  Alone'
  BY <1>3 DEF Written, IInv, RulesTypeOK, Nothing
<1>4. ASSUME Inv, NEW a \in Admins, CreatePriceRule(a) \/ UpdatePriceRule(a)
      PROVE  Alone'
  <2>1. work[a] # Nothing /\ work[a].rule.active /\ work[a].rule \in Rule
    BY <1>4 DEF CreatePriceRule, UpdatePriceRule, Nothing, IInv, RulesTypeOK, Work
  <2>2. \A r \in Rule : Inserted(r).active
    BY DEF Inserted, Rule
  <2>3. [work[a].rule EXCEPT !.id = nextRule] \in Rule
    BY <1>4, <2>1 DEF IInv, RulesTypeOK, Rule
  <2>4. \E r : Written(a, r) /\ r.active
    BY <1>4, <2>1, <2>2, <2>3 DEF CreatePriceRule, UpdatePriceRule
  <2> QED
    BY <1>3, <1>4, <2>1, <2>4
<1>5. ASSUME Inv, [RulesNext]_ruleVars PROVE Alone'
  <2>1. ASSUME NEW a \in Admins, ValidateNew(a) \/ ValidateChange(a) PROVE Alone'
    <3>1. \A f \in Forms : WithPriority(f).active /\ WithPriority(f) \in Rule
      BY DEF WithPriority, Rule
    <3>2. \A f \in Forms, q \in table : [WithPriority(f) EXCEPT !.id = q.id].active
      BY <3>1 DEF Rule
    <3> QED
      BY <1>2, <1>5, <2>1, <3>1, <3>2 DEF ValidateNew, ValidateChange
  <2>2. ASSUME NEW a \in Admins, DeletePriceRule(a) \/ WriteFails(a) PROVE Alone'
    BY <1>5, <2>2 DEF DeletePriceRule, WriteFails, IInv, RulesTypeOK
  <2>3. CASE UNCHANGED ruleVars
    BY <1>5, <2>3 DEF ruleVars
  <2> QED
    BY <1>4, <1>5, <2>1, <2>2, <2>3 DEF RulesNext
<1>6. Inv /\ [RulesNext]_ruleVars => Inv'
  BY <1>5, StepKeeps
<1>7. Inv => RulesNeverContradict
  <2> SUFFICES ASSUME Inv, NEW p \in table, NEW q \in table, NEW date \in Dates,
                      NEW clock \in Clocks, p # q, Contradict(p, q, date, clock)
               PROVE  FALSE
    BY DEF RulesNeverContradict
  <2>1. p \in Rule /\ q \in Rule
    BY DEF IInv, RulesTypeOK
  <2> QED
    BY <2>1, ContradictionIsOverlap DEF IInv, Separated
<1> QED
  BY <1>1, <1>6, <1>7, PTL DEF RulesSpec

-----------------------------------------------------------------------------
(* The loop of ResolveRulePrice, over any list of rules.                   *)

Rank == [priority: Int, id: Int, price: Int]

Base == [priority |-> -1, id |-> 0, price |-> BasePrice]

Taken(best, r, date, clock) ==
  IF Applies(r, date, clock) /\ Supersedes(r, best)
  THEN [priority |-> r.priority, id |-> r.id, price |-> r.price]
  ELSE best

IsLoop(list, date, clock, g) ==
  g = [T \in SUBSET (DOMAIN list) |->
         IF T = {} THEN Base ELSE Taken(g[T \ {Max(T)}], list[Max(T)], date, clock)]

LEMMA ResolveIsLoop ==
  ASSUME NEW list, NEW date, NEW clock, \E g : IsLoop(list, date, clock, g)
  PROVE  \E g : /\ IsLoop(list, date, clock, g)
                /\ ResolveRulePrice(BasePrice, date, clock, list) = g[DOMAIN list].price
<1> DEFINE g == CHOOSE h : IsLoop(list, date, clock, h)
<1>1. IsLoop(list, date, clock, g)
  OBVIOUS
<1>2. ResolveRulePrice(BasePrice, date, clock, list) = g[DOMAIN list].price
  BY DEF ResolveRulePrice, FoldLeft, MapThenFoldSet, IsLoop, Taken, Base
<1> QED BY <1>1, <1>2

LEMMA RuleNumbers ==
  ASSUME NEW r \in Rule
  PROVE  r.priority \in Int /\ r.id \in Int /\ r.price \in Int
BY DEF Rule

LEMMA LoopExists ==
  ASSUME NEW list \in Seq(Rule), NEW date, NEW clock
  PROVE  \E g \in [SUBSET (DOMAIN list) -> Rank] : IsLoop(list, date, clock, g)
<1>1. PICK n \in Nat : n = Len(list) /\ DOMAIN list = 1..n
  OBVIOUS
<1>2. \A k \in 1..n : list[k] \in Rule
  BY <1>1
<1>3. \A k \in 1..n, a \in Rank : Taken(a, list[k], date, clock) \in Rank
  <2> TAKE k \in 1..n, a \in Rank
  <2>1. list[k].priority \in Int /\ list[k].id \in Int /\ list[k].price \in Int
    BY <1>2, RuleNumbers
  <2> QED BY <2>1 DEF Taken, Rank
<1>4. PICK G : G = [p \in (1..n) \X Rank |-> Taken(p[2], list[p[1]], date, clock)]
  OBVIOUS
<1>5. \A k \in 1..n, a \in Rank : G[<<k, a>>] = Taken(a, list[k], date, clock)
  BY <1>4
<1>6. Base \in Rank
  BY DEF Base, Rank
<1>7. \A k \in 1..n, a \in Rank : G[<<k, a>>] \in Rank
  BY <1>3, <1>5
<1>8. PICK g : IsLeftFold(Base, n, G, g) /\ g \in [SUBSET (1..n) -> Rank]
  <2>1. PICK A, b : A = Rank /\ b = Base
    OBVIOUS
  <2>2. b \in A
    BY <1>6, <2>1
  <2>4. \A k \in 1..n, a \in A : G[<<k, a>>] \in A
    BY <1>7, <2>1
  <2>3. \E g : IsLeftFold(b, n, G, g) /\ g \in [SUBSET (1..n) -> A]
    BY <2>2, <2>4, LeftFoldExists, Zenon
  <2>5. A = Rank /\ b = Base
    BY <2>1
  <2> QED BY <2>3, <2>5, Zenon
<1>9. ASSUME NEW T \in SUBSET (1..n), T # {}
      PROVE  G[<<Max(T), g[T \ {Max(T)}]>>] = Taken(g[T \ {Max(T)}], list[Max(T)], date, clock)
  <2>1. Max(T) \in 1..n
    BY <1>9, MaxIn
  <2>2. g[T \ {Max(T)}] \in Rank
    BY <1>8
  <2> QED BY <1>5, <2>1, <2>2
<1>10. [T \in SUBSET (1..n) |-> IF T = {} THEN Base ELSE G[<<Max(T), g[T \ {Max(T)}]>>]]
       = [T \in SUBSET (1..n) |->
            IF T = {} THEN Base ELSE Taken(g[T \ {Max(T)}], list[Max(T)], date, clock)]
  BY <1>9
<1>11. IsLoop(list, date, clock, g)
  BY <1>1, <1>8, <1>10 DEF IsLoop, IsLeftFold
<1> QED BY <1>1, <1>8, <1>11

\* What the loop holds after the first k rules: the base price, or the best of those that match.
Matching(list, k, date, clock) == {i \in 1..k : Applies(list[i], date, clock)}

IsBest(list, k, date, clock, best) ==
  IF Matching(list, k, date, clock) = {}
  THEN best = Base
  ELSE \E i \in Matching(list, k, date, clock) :
         /\ best = [priority |-> list[i].priority, id |-> list[i].id, price |-> list[i].price]
         /\ \A j \in Matching(list, k, date, clock) : j = i \/ Ahead(list[i], list[j])

LEMMA LoopFindsBest ==
  ASSUME NEW list \in Seq(Rule), NEW date, NEW clock, NEW g, IsLoop(list, date, clock, g),
         \A i, j \in DOMAIN list : list[i].id = list[j].id => i = j
  PROVE  IsBest(list, Len(list), date, clock, g[DOMAIN list])
<1> DEFINE N == {k \in 0..Len(list) : ~IsBest(list, k, date, clock, g[1..k])}
<1>0. Len(list) \in Nat /\ DOMAIN list = 1..Len(list)
  OBVIOUS
<1>1. ASSUME N # {} PROVE FALSE
  <2>1. PICK k \in N : \A m \in N : k <= m
    <3> N \subseteq Nat
      BY <1>0
    <3> HIDE DEF N
    <3> QED BY <1>1, LeastNatural
  <2>2. k \in 0..Len(list) /\ ~IsBest(list, k, date, clock, g[1..k])
    OBVIOUS
  <2>3. CASE k = 0
    <3>1. 1..k = {}
      BY <2>3
    <3>2. g[1..k] = Base
      BY <3>1 DEF IsLoop
    <3> QED BY <2>2, <3>1, <3>2 DEF IsBest, Matching
  <2>4. CASE k # 0
    <3>1. k \in Nat /\ k - 1 \in 0..Len(list) /\ k - 1 \notin N /\ k \in DOMAIN list
      BY <1>0, <2>1, <2>4
    <3>2. IsBest(list, k - 1, date, clock, g[1..(k - 1)])
      BY <3>1
    <3>3. Max(1..k) = k /\ (1..k) \ {k} = 1..(k - 1) /\ 1..k # {}
      BY <2>4, <3>1, InitialSegment
    <3>4. 1..k \in SUBSET (DOMAIN list)
      BY <1>0, <3>1
    <3> HIDE DEF N
    <3>5. g[1..k] = Taken(g[1..(k - 1)], list[k], date, clock)
      <4>1. PICK T \in SUBSET (DOMAIN list) : T = 1..k
        BY <3>4
      <4>2. T # {} /\ Max(T) = k /\ T \ {k} = 1..(k - 1)
        BY <3>3, <4>1
      <4>3. g[T] = Taken(g[T \ {Max(T)}], list[Max(T)], date, clock)
        BY <4>2 DEF IsLoop
      <4> QED BY <4>1, <4>2, <4>3
    <3>6. list[k] \in Rule /\ \A i \in 1..(k - 1) : list[i] \in Rule /\ i \in DOMAIN list /\ i # k
      BY <1>0, <3>1
    <3>8. \A i \in 1..k : list[i].priority \in Int /\ list[i].id \in Int
      <4> TAKE i \in 1..k
      <4>1. list[i] \in Rule
        BY <1>0, <3>1
      <4> QED BY <4>1, RuleNumbers
    <3>7. IsBest(list, k, date, clock, g[1..k])
      <4> DEFINE old == Matching(list, k - 1, date, clock)
                 new == Matching(list, k, date, clock)
      <4>1. CASE ~Applies(list[k], date, clock)
        <5>1. new = old
          BY <3>1, <3>3, <4>1 DEF Matching
        <5>2. g[1..k] = g[1..(k - 1)]
          BY <3>5, <4>1 DEF Taken
        <5> QED BY <3>2, <5>1, <5>2, Zenon DEF IsBest
      <4>2. CASE Applies(list[k], date, clock)
        <5>1. new = old \cup {k} /\ old \subseteq 1..(k - 1)
          BY <3>1, <3>3, <4>2 DEF Matching
        <5>2. CASE old = {}
          <6>1. g[1..(k - 1)] = Base
            BY <3>2, <5>2 DEF IsBest
          <6>2. Supersedes(list[k], Base)
            BY <3>6 DEF Supersedes, Base, Rule
          <6>3. g[1..k] = [priority |-> list[k].priority, id |-> list[k].id, price |-> list[k].price]
            BY <3>5, <4>2, <6>1, <6>2 DEF Taken
          <6> QED BY <5>1, <5>2, <6>3 DEF IsBest
        <5>3. CASE old # {}
          <6>1. PICK i \in old :
                  /\ g[1..(k - 1)] = [priority |-> list[i].priority, id |-> list[i].id,
                                      price |-> list[i].price]
                  /\ \A j \in old : j = i \/ Ahead(list[i], list[j])
            BY <3>2, <5>3 DEF IsBest
          <6>2. list[i] \in Rule /\ list[i].id # list[k].id /\ i # k
            BY <3>1, <3>6, <5>1
          <6>3. CASE Ahead(list[k], list[i])
            <7>1. Supersedes(list[k], g[1..(k - 1)])
              BY <6>1, <6>3 DEF Supersedes, Ahead
            <7>2. g[1..k] = [priority |-> list[k].priority, id |-> list[k].id, price |-> list[k].price]
              BY <3>5, <4>2, <7>1 DEF Taken
            <7>3. \A j \in old : Ahead(list[k], list[j])
              <8> TAKE j \in old
              <8>1. j \in 1..k /\ i \in 1..k /\ k \in 1..k
                BY <3>1, <5>1
              <8>2. j = i \/ Ahead(list[i], list[j])
                BY <6>1
              <8> QED BY <3>8, <6>3, <8>1, <8>2 DEF Ahead
            <7> QED BY <5>1, <7>2, <7>3 DEF IsBest
          <6>4. CASE ~Ahead(list[k], list[i])
            <7>1. ~Supersedes(list[k], g[1..(k - 1)])
              BY <6>1, <6>4 DEF Supersedes, Ahead
            <7>2. g[1..k] = g[1..(k - 1)]
              BY <3>5, <7>1 DEF Taken
            <7>3. Ahead(list[i], list[k])
              <8>1. i \in 1..k /\ k \in 1..k
                BY <3>1, <5>1
              <8> QED BY <3>8, <6>2, <6>4, <8>1 DEF Ahead
            <7> QED BY <5>1, <6>1, <7>2, <7>3 DEF IsBest
          <6> QED BY <6>3, <6>4
        <5> QED BY <5>2, <5>3
      <4> QED BY <4>1, <4>2
    <3> QED BY <2>2, <3>7
  <2> QED BY <2>3, <2>4
<1>2. Len(list) \notin N
  BY <1>1
<1> QED BY <1>0, <1>2

-----------------------------------------------------------------------------
(* The table can be listed, best rule first.                               *)

LEMMA ListedRules ==
  ASSUME RulesTypeOK, Finite, NEW date
  PROVE  /\ ListActive(table, date) \in Seq(Rule)
         /\ {ListActive(table, date)[i] : i \in DOMAIN ListActive(table, date)}
              = InEffect(table, date)
         /\ \A i, j \in DOMAIN ListActive(table, date) :
              ListActive(table, date)[i].id = ListActive(table, date)[j].id => i = j
<1>1. PICK S : S = InEffect(table, date)
  OBVIOUS
<1>2. /\ S \subseteq table
      /\ \A x \in S : x \in Rule /\ x.priority \in Int /\ x.id \in Int
      /\ \A x, y \in S : x.id = y.id => x = y
  <2>1. S \subseteq table
    BY <1>1 DEF InEffect
  <2>2. \A x \in S : x \in Rule
    BY <2>1 DEF RulesTypeOK
  <2>3. \A x \in S : x.priority \in Int /\ x.id \in Int
    BY <2>2 DEF Rule
  <2> QED BY <2>1, <2>2, <2>3 DEF RulesTypeOK
<1>3. IsFiniteSet(S)
  BY <1>2, FS_Subset DEF Finite
<1>4. PICK R : R = {p \in S \X S : Ahead(p[1], p[2])}
  OBVIOUS
<1>5. \A x, y \in S : <<x, y>> \in R <=> Ahead(x, y)
  BY <1>4
<1>6. /\ \A x \in S : <<x, x>> \notin R
      /\ \A x, y \in S : x = y \/ <<x, y>> \in R \/ <<y, x>> \in R
      /\ \A x, y, z \in S : <<x, y>> \in R /\ <<y, z>> \in R => <<x, z>> \in R
  <2>1. \A x \in S : ~Ahead(x, x)
    BY <1>2 DEF Ahead
  <2>2. \A x, y \in S : x = y \/ Ahead(x, y) \/ Ahead(y, x)
    BY <1>2 DEF Ahead
  <2>3. \A x, y, z \in S : Ahead(x, y) /\ Ahead(y, z) => Ahead(x, z)
    BY <1>2 DEF Ahead
  <2> QED BY <1>5, <2>1, <2>2, <2>3
<1>7. PICK list \in SetToSeqs(S) : \A i, j \in DOMAIN list : i < j => <<list[i], list[j]>> \in R
  BY <1>3, <1>6, SortedExists
<1>8. \A i, j \in DOMAIN list : i < j => Ahead(list[i], list[j])
  <2>1. \A i \in DOMAIN list : list[i] \in S
    BY <1>3, SeqOfSet
  <2> QED BY <1>5, <1>7, <2>1
<1>9. PICK chosen : chosen = ListActive(table, date)
  OBVIOUS
<1>10. chosen \in SetToSeqs(S)
  <2>1. chosen = CHOOSE l \in SetToSeqs(S) : \A i, j \in DOMAIN l : i < j => Ahead(l[i], l[j])
    BY <1>1, <1>9, Zenon DEF ListActive
  <2> QED BY <1>8, <2>1
<1>11. /\ chosen \in Seq(S) /\ {chosen[i] : i \in DOMAIN chosen} = S
       /\ \A i, j \in DOMAIN chosen : chosen[i] = chosen[j] => i = j
  BY <1>3, <1>10, SeqOfSet
<1>12. chosen \in Seq(Rule)
  <2>1. \A i \in DOMAIN chosen : chosen[i] \in Rule
    BY <1>2, <1>11
  <2> QED BY <1>11, <2>1
<1>13. \A i, j \in DOMAIN chosen : chosen[i].id = chosen[j].id => i = j
  <2>1. \A i \in DOMAIN chosen : chosen[i] \in S
    BY <1>11
  <2> QED BY <1>2, <1>11, <2>1
<1> QED BY <1>1, <1>9, <1>11, <1>12, <1>13

\* The price found is that of the rule that outranks the others.
LEMMA PriceOfBest ==
  ASSUME RulesTypeOK, Finite
  PROVE  BestRuleSetsPrice
<1> SUFFICES ASSUME NEW date \in Dates, NEW clock \in Clocks
             PROVE  LET matching == {r \in InEffect(table, date) : Applies(r, date, clock)}
                        price    == ResolveRulePrice(BasePrice, date, clock, ListActive(table, date))
                    IN  IF matching = {}
                        THEN price = BasePrice
                        ELSE \E best \in matching :
                               /\ price = best.price
                               /\ \A r \in matching \ {best} :
                                    r.priority < best.priority
                                    \/ (r.priority = best.priority /\ r.id < best.id)
  BY DEF BestRuleSetsPrice
<1> DEFINE matching == {r \in InEffect(table, date) : Applies(r, date, clock)}
<1>1. PICK list : list = ListActive(table, date)
  OBVIOUS
<1>2. /\ list \in Seq(Rule) /\ {list[i] : i \in DOMAIN list} = InEffect(table, date)
      /\ \A i, j \in DOMAIN list : list[i].id = list[j].id => i = j
  BY <1>1, ListedRules
<1>3. \E g : IsLoop(list, date, clock, g)
  BY <1>2, LoopExists
<1>4. PICK g : /\ IsLoop(list, date, clock, g)
               /\ ResolveRulePrice(BasePrice, date, clock, list) = g[DOMAIN list].price
  BY <1>3, ResolveIsLoop
<1>5. IsBest(list, Len(list), date, clock, g[DOMAIN list])
  BY <1>2, <1>4, LoopFindsBest
<1>6. PICK at : at = Matching(list, Len(list), date, clock)
  OBVIOUS
<1>7. at = {i \in DOMAIN list : Applies(list[i], date, clock)}
  BY <1>2, <1>6 DEF Matching
<1>8. matching = {list[i] : i \in at}
  BY <1>2, <1>7
<1>9. PICK price : price = ResolveRulePrice(BasePrice, date, clock, ListActive(table, date))
  OBVIOUS
<1>10. price = g[DOMAIN list].price
  BY <1>1, <1>4, <1>9
<1>11. CASE at = {}
  <2>1. g[DOMAIN list] = Base
    BY <1>5, <1>6, <1>11 DEF IsBest
  <2>2. price = BasePrice
    BY <1>10, <2>1 DEF Base
  <2>3. matching = {}
    BY <1>8, <1>11
  <2> QED BY <1>9, <2>2, <2>3
<1>12. CASE at # {}
  <2>1. PICK i \in at : /\ g[DOMAIN list] = [priority |-> list[i].priority, id |-> list[i].id,
                                             price |-> list[i].price]
                        /\ \A j \in at : j = i \/ Ahead(list[i], list[j])
    BY <1>5, <1>6, <1>12 DEF IsBest
  <2>2. price = list[i].price /\ list[i] \in matching
    BY <1>8, <1>10, <2>1
  <2>3. ASSUME NEW r \in matching \ {list[i]}
        PROVE  r.priority < list[i].priority \/ (r.priority = list[i].priority /\ r.id < list[i].id)
    <3>1. PICK j \in at : r = list[j]
      BY <1>8
    <3>2. Ahead(list[i], r)
      BY <2>1, <2>3, <3>1
    <3>3. list[i] \in Rule /\ r \in Rule
      BY <1>2, <1>7, <3>1
    <3>4. /\ list[i].priority \in Int /\ list[i].id \in Int /\ r.priority \in Int /\ r.id \in Int
      BY <3>3 DEF Rule
    <3> QED BY <3>2, <3>4 DEF Ahead
  <2>4. matching # {}
    BY <2>2
  <2> HIDE DEF matching
  <2>5. \E best \in matching :
          /\ price = best.price
          /\ \A r \in matching \ {best} :
               r.priority < best.priority \/ (r.priority = best.priority /\ r.id < best.id)
    BY <2>2, <2>3
  <2> QED BY <1>9, <2>4, <2>5 DEF matching
<1> QED BY <1>11, <1>12

\* The table stays finite: each step adds a rule at most.
LEMMA FiniteStep == Finite /\ [RulesNext]_ruleVars => Finite'
<1> SUFFICES ASSUME Finite, [RulesNext]_ruleVars PROVE Finite'
  OBVIOUS
<1>1. ASSUME NEW r, NEW a, Written(a, r) PROVE Finite'
  <2>1. IsFiniteSet({q \in table : q.id # r.id})
    BY FS_Subset DEF Finite
  <2> QED BY <1>1, <2>1, FS_AddElement DEF Finite, Written
<1>2. ASSUME UNCHANGED table PROVE Finite'
  BY <1>2 DEF Finite
<1>3. ASSUME NEW a \in Admins, DeletePriceRule(a) PROVE Finite'
  <2>1. table' \subseteq table
    BY <1>3 DEF DeletePriceRule
  <2> QED BY <2>1, FS_Subset DEF Finite
<1>4. ASSUME NEW a \in Admins,
             ValidateNew(a) \/ ValidateChange(a) \/ CreatePriceRule(a) \/ UpdatePriceRule(a) \/ WriteFails(a)
      PROVE  Finite'
  BY <1>1, <1>2, <1>4
     DEF ValidateNew, ValidateChange, Validate, CreatePriceRule, UpdatePriceRule, WriteFails
<1> QED BY <1>2, <1>3, <1>4 DEF RulesNext, ruleVars

\* BestRuleSetsPrice for any table that can come about: the loop of
\* pricing/rules.go 36-57 over the listed rules, its start value and its
\* comparisons find the price of the one rule that outranks all that apply.
THEOREM LoopFindsBestPrice == RulesSpec => []BestRuleSetsPrice
<1>1. RulesInit => Finite
  BY FS_EmptySet DEF RulesInit, Finite
<1>2. RulesSpec => []Finite
  BY <1>1, FiniteStep, PTL DEF RulesSpec
<1>3. RulesTypeOK /\ Finite => BestRuleSetsPrice
  BY PriceOfBest
<1> QED BY <1>2, <1>3, TypeCorrect, PTL
=============================================================================
