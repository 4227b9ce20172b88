------------------------ MODULE BookingGroupsProofs ------------------------
(***************************************************************************)
(* Proofs about BookingGroups, for every number of slots and rows and for  *)
(* every price, hold and policy: a reschedule puts the bookings of a group *)
(* one to a slot and spreads its money over them without losing any.       *)
(***************************************************************************)
EXTENDS BookingGroups, BookingTablesProofs, DataLemmas

-----------------------------------------------------------------------------
(* Numbers.                                                                *)

LEMMA IdsAreFinite == IsFiniteSet(Ids)
BY SizesAssumption, FS_Interval DEF Ids

LEMMA IntervalSize ==
  ASSUME NEW m \in Int, NEW n \in Int, m <= n + 1
  PROVE  IsFiniteSet(m..n) /\ Cardinality(m..n) = n - m + 1
BY FS_Interval

LEMMA MinOfTwo ==
  ASSUME NEW m \in Int, NEW n \in Int
  PROVE  Min({m, n}) = IF m <= n THEN m ELSE n
<1>1. \E x \in {m, n} : \A y \in {m, n} : x <= y
  OBVIOUS
<1>2. Min({m, n}) \in {m, n} /\ \A y \in {m, n} : Min({m, n}) <= y
  BY <1>1 DEF Min
<1> QED
  BY <1>2

LEMMA MaxOfTwo ==
  ASSUME NEW m \in Int, NEW n \in Int
  PROVE  Max({m, n}) = IF m >= n THEN m ELSE n
<1>1. \E x \in {m, n} : \A y \in {m, n} : x >= y
  OBVIOUS
<1>2. Max({m, n}) \in {m, n} /\ \A y \in {m, n} : Max({m, n}) >= y
  BY <1>1 DEF Max
<1> QED
  BY <1>2

-----------------------------------------------------------------------------
(* The members of a group and where a reschedule puts them.                *)

Apart(A) == \A b, c \in A : rows[b].slot = rows[c].slot => b = c

\* The positions of the members are 1, 2, ..., up to their number.
LEMMA RanksArePositions ==
  ASSUME rows \in [Ids -> Row], NEW A \in SUBSET Ids, Apart(A)
  PROVE  /\ IsFiniteSet(A) /\ Cardinality(A) \in Nat
         /\ \A b \in A : Rank(A, b) \in 1..Cardinality(A)
         /\ \A b, c \in A : Rank(A, b) = Rank(A, c) => b = c
         /\ {Rank(A, b) : b \in A} = 1..Cardinality(A)
<1> DEFINE Upto(b) == {c \in A : rows[c].slot <= rows[b].slot}
<1>1. IsFiniteSet(A) /\ Cardinality(A) \in Nat
  BY IdsAreFinite, FS_Subset, FS_CardinalityType
<1>2. \A b \in A : rows[b].slot \in Int
  BY DEF Row, Slots
<1>3. ASSUME NEW b \in A
      PROVE  IsFiniteSet(Upto(b)) /\ Rank(A, b) = Cardinality(Upto(b)) /\ Rank(A, b) \in 1..Cardinality(A)
  <2>1. IsFiniteSet(Upto(b)) /\ Cardinality(Upto(b)) \in Nat /\ Cardinality(Upto(b)) <= Cardinality(A)
    BY <1>1, FS_Subset, FS_CardinalityType
  <2>2. b \in Upto(b)
    BY <1>2
  <2>3. Cardinality(Upto(b)) # 0
    BY <2>1, <2>2, FS_EmptySet
  <2> QED
    BY <1>1, <2>1, <2>3 DEF Rank
<1>4. ASSUME NEW b \in A, NEW c \in A, rows[b].slot < rows[c].slot
      PROVE  Rank(A, b) < Rank(A, c)
  <2>1. Upto(b) \subseteq Upto(c) /\ c \in Upto(c) /\ c \notin Upto(b)
    BY <1>2, <1>4
  <2>2. Cardinality(Upto(b)) < Cardinality(Upto(c))
    <3>1. IsFiniteSet(Upto(b)) /\ IsFiniteSet(Upto(c))
      BY <1>3
    <3> HIDE DEF Upto
    <3>2. Upto(b) \in SUBSET Upto(c) /\ Upto(b) # Upto(c)
      BY <2>1
    <3>3. Cardinality(Upto(b)) \in Nat /\ Cardinality(Upto(c)) \in Nat
      BY <3>1, FS_CardinalityType
    <3>4. Cardinality(Upto(b)) <= Cardinality(Upto(c)) /\ Cardinality(Upto(b)) # Cardinality(Upto(c))
      BY <3>1, <3>2, FS_Subset
    <3> QED
      BY <3>3, <3>4
  <2> QED
    BY <1>3, <2>2
<1>5. ASSUME NEW b \in A, NEW c \in A, Rank(A, b) = Rank(A, c)
      PROVE  b = c
  <2>0. Rank(A, b) \in Int /\ Rank(A, c) \in Int
    <3>1. Rank(A, b) \in 1..Cardinality(A) /\ Rank(A, c) \in 1..Cardinality(A)
      BY <1>3
    <3> QED
      BY <1>1, <3>1
  <2>1. ~(rows[b].slot < rows[c].slot) /\ ~(rows[c].slot < rows[b].slot)
    BY <1>4, <1>5, <2>0
  <2> QED
    BY <1>2, <2>1 DEF Apart
<1>6. {Rank(A, b) : b \in A} = 1..Cardinality(A)
  <2> DEFINE h == [b \in A |-> Rank(A, b)]
             T == 1..Cardinality(A)
  <2>1. IsFiniteSet(T) /\ Cardinality(A) = Cardinality(T)
    BY <1>1, IntervalSize
  <2>2. /\ \A b \in A : h[b] \in T
        /\ \A b, c \in A : h[b] = h[c] => b = c
    BY <1>3, <1>5
  <2>3. {h[b] : b \in A} = T
    <3> HIDE DEF h, T
    <3> QED
      BY <2>1, <2>2, InjectionCovers
  <2>4. {h[b] : b \in A} = {Rank(A, b) : b \in A}
    OBVIOUS
  <2> QED
    BY <2>3, <2>4
<1> QED
  BY <1>1, <1>3, <1>5, <1>6

Active(A, lo, hi) == {c \in A \cup NewMembers(A, lo, hi) : Target(A, lo, c) <= hi}

\* One booking to a slot: the active members fill the range they are moved to.
LEMMA TargetsFillRange ==
  ASSUME rows \in [Ids -> Row], NEW A \in SUBSET Ids, Apart(A), nextId \in Nat,
         \A b \in A : b < nextId,
         NEW lo \in Int, NEW hi \in Int, lo <= hi
  PROVE  /\ \A c \in Active(A, lo, hi) : Target(A, lo, c) \in lo..hi
         /\ \A c, d \in Active(A, lo, hi) : Target(A, lo, c) = Target(A, lo, d) => c = d
         /\ \A s \in lo..hi : \E c \in Active(A, lo, hi) : Target(A, lo, c) = s
         /\ NewMembers(A, lo, hi) \subseteq Active(A, lo, hi)
         /\ A \cap NewMembers(A, lo, hi) = {}
<1> DEFINE k   == Cardinality(A)
           new == NewMembers(A, lo, hi)
<1>1. /\ k \in Nat
      /\ \A b \in A : Rank(A, b) \in 1..k
      /\ \A b, c \in A : Rank(A, b) = Rank(A, c) => b = c
      /\ {Rank(A, b) : b \in A} = 1..k
  BY RanksArePositions
<1>2. new = nextId..(nextId + (hi - lo) - k) /\ A \cap new = {}
  BY DEF NewMembers
<1> HIDE DEF new
<1>3. ASSUME NEW c \in A
      PROVE  Target(A, lo, c) = lo + Rank(A, c) - 1 /\ Target(A, lo, c) \in lo..(lo + k - 1)
  BY <1>1 DEF Target
<1>4. ASSUME NEW c \in new
      PROVE  Target(A, lo, c) = lo + k + (c - nextId) /\ Target(A, lo, c) \in (lo + k)..hi /\ c \in Int
  BY <1>1, <1>2 DEF Target
<1>5. Active(A, lo, hi) = {c \in A \cup new : Target(A, lo, c) <= hi}
  BY DEF Active, new
<1>6. ASSUME NEW c \in Active(A, lo, hi)
      PROVE  Target(A, lo, c) \in lo..hi
  BY <1>1, <1>3, <1>4, <1>5
<1>7. ASSUME NEW c \in Active(A, lo, hi), NEW d \in Active(A, lo, hi),
             Target(A, lo, c) = Target(A, lo, d)
      PROVE  c = d
  <2>1. CASE c \in A /\ d \in A
    BY <1>1, <1>3, <1>7, <2>1
  <2>2. CASE c \in new /\ d \in new
    BY <1>1, <1>2, <1>4, <1>7, <2>2
  <2>3. CASE c \in A /\ d \in new
    BY <1>1, <1>3, <1>4, <1>7, <2>3
  <2>4. CASE c \in new /\ d \in A
    BY <1>1, <1>3, <1>4, <1>7, <2>4
  <2> QED
    BY <1>5, <2>1, <2>2, <2>3, <2>4
<1>8. ASSUME NEW s \in lo..hi
      PROVE  \E c \in Active(A, lo, hi) : Target(A, lo, c) = s
  <2>1. CASE s < lo + k
    <3>1. s - lo + 1 \in 1..k
      BY <1>1, <2>1
    <3>2. PICK c \in A : Rank(A, c) = s - lo + 1
      BY <1>1, <3>1
    <3> QED
      BY <1>1, <1>3, <1>5, <3>2
  <2>2. CASE s >= lo + k
    <3>1. nextId + (s - lo - k) \in new
      BY <1>1, <1>2, <2>2
    <3> QED
      BY <1>1, <1>4, <1>5, <3>1
  <2> QED
    BY <1>1, <2>1, <2>2
<1>9. new \subseteq Active(A, lo, hi)
  BY <1>4, <1>5
<1> QED
  BY <1>2, <1>6, <1>7, <1>8, <1>9 DEF new

-----------------------------------------------------------------------------
(* The allocation of what a group has paid.                                *)

LEMMA RangeSum ==
  ASSUME NEW f, NEW lo \in Int, NEW s \in Int, lo <= s, \A t \in lo..s : f[t] \in Nat
  PROVE  /\ SumFunctionOnSet(f, lo..(s - 1)) \in Nat
         /\ SumFunctionOnSet(f, lo..s) \in Nat
         /\ SumFunctionOnSet(f, lo..s) = f[s] + SumFunctionOnSet(f, lo..(s - 1))
<1>1. IsFiniteSet(lo..s) /\ IsFiniteSet(lo..(s - 1))
  BY FS_Interval
<1>2. s \in lo..s /\ (lo..s) \ {s} = lo..(s - 1) /\ lo..(s - 1) \subseteq lo..s
  OBVIOUS
<1>3. SumFunctionOnSet(f, lo..s) \in Nat /\ SumFunctionOnSet(f, lo..(s - 1)) \in Nat
  BY <1>1, <1>2, SumNat
<1>4. SumFunctionOnSet(f, lo..s) = f[s] + SumFunctionOnSet(f, (lo..s) \ {s})
  BY <1>1, <1>2, SumTakeOut
<1> QED
  BY <1>2, <1>3, <1>4

LEMMA AllocatedValue ==
  ASSUME NEW lo \in Int, NEW hi \in Int, NEW price \in [lo..hi -> Nat], NEW p \in Nat, NEW s \in lo..hi
  PROVE  /\ Allocated(p, price, lo, s) \in Nat
         /\ Allocated(p, price, lo, s) =
              IF p <= SumFunctionOnSet(price, lo..(s - 1)) THEN 0
              ELSE IF p <= SumFunctionOnSet(price, lo..s) THEN p - SumFunctionOnSet(price, lo..(s - 1))
              ELSE price[s]
<1> DEFINE before == SumFunctionOnSet(price, lo..(s - 1))
<1>1. before \in Nat /\ SumFunctionOnSet(price, lo..s) = price[s] + before /\ price[s] \in Nat
  <2>1. s \in Int /\ lo <= s /\ \A t \in lo..s : price[t] \in Nat
    OBVIOUS
  <2> QED
    BY <2>1, RangeSum
<1>2. Min({p - before, price[s]}) = IF p - before <= price[s] THEN p - before ELSE price[s]
  BY <1>1, MinOfTwo
<1>3. Min({p - before, price[s]}) \in Int
  BY <1>1, <1>2
<1>4. Allocated(p, price, lo, s) = Max({0, Min({p - before, price[s]})})
  BY DEF Allocated
<1> HIDE DEF before
<1> DEFINE m == Min({p - before, price[s]})
<1>5. Max({0, m}) = IF 0 >= m THEN 0 ELSE m
  <2> HIDE DEF m
  <2>1. m \in Int
    BY <1>3 DEF m
  <2> QED
    BY <2>1, MaxOfTwo
<1>6. Allocated(p, price, lo, s) = IF 0 >= m THEN 0 ELSE m
  BY <1>4, <1>5
<1>7. Allocated(p, price, lo, s) = IF p <= before THEN 0 ELSE IF p <= price[s] + before THEN p - before ELSE price[s]
  BY <1>1, <1>2, <1>6
<1> QED
  BY <1>1, <1>7 DEF before

\* What is received is allocated without remainder as long as the prices allow.
LEMMA AllocatedSum ==
  ASSUME NEW lo \in Int, NEW hi \in Int, lo <= hi, NEW price \in [lo..hi -> Nat], NEW p \in Nat,
         p <= SumFunctionOnSet(price, lo..hi)
  PROVE  SumFunctionOnSet([s \in lo..hi |-> Allocated(p, price, lo, s)], lo..hi) = p
<1> DEFINE f        == [s \in lo..hi |-> Allocated(p, price, lo, s)]
           S(g, k)  == SumFunctionOnSet(g, lo..(lo + k - 1))
           Right(k) == S(f, k) = IF p <= S(price, k) THEN p ELSE S(price, k)
           N        == {k \in Nat : lo + k - 1 <= hi /\ ~Right(k)}
<1>1. \A s \in lo..hi : f[s] = Allocated(p, price, lo, s) /\ f[s] \in Nat /\ price[s] \in Nat
  BY AllocatedValue
<1> HIDE DEF f
<1>2. Right(0)
  <2>1. lo..(lo + 0 - 1) = {}
    OBVIOUS
  <2>2. S(f, 0) = 0 /\ S(price, 0) = 0
    BY <2>1, SumEmpty
  <2> QED
    BY <2>2
<1>3. ASSUME NEW k \in Nat, lo + k <= hi, Right(k)
      PROVE  Right(k + 1)
  <2> DEFINE s == lo + k
  <2>1. s \in lo..hi /\ s \in Int /\ lo <= s /\ lo + k - 1 = s - 1 /\ lo + (k + 1) - 1 = s
    BY <1>3
  <2>2. /\ S(f, k) \in Nat /\ S(f, k + 1) = f[s] + S(f, k)
    <3>1. s \in Int /\ lo <= s /\ \A t \in lo..s : f[t] \in Nat
      BY <1>1, <2>1
    <3> HIDE DEF s
    <3>2. /\ SumFunctionOnSet(f, lo..(s - 1)) \in Nat
          /\ SumFunctionOnSet(f, lo..s) = f[s] + SumFunctionOnSet(f, lo..(s - 1))
      BY <3>1, RangeSum
    <3> QED
      BY <2>1, <3>2
  <2>3. /\ S(price, k) \in Nat /\ S(price, k + 1) = price[s] + S(price, k)
    <3>1. s \in Int /\ lo <= s /\ \A t \in lo..s : price[t] \in Nat
      BY <1>1, <2>1
    <3> HIDE DEF s
    <3>2. /\ SumFunctionOnSet(price, lo..(s - 1)) \in Nat
          /\ SumFunctionOnSet(price, lo..s) = price[s] + SumFunctionOnSet(price, lo..(s - 1))
      BY <3>1, RangeSum
    <3> QED
      BY <2>1, <3>2
  <2>4. f[s] = IF p <= S(price, k) THEN 0 ELSE IF p <= S(price, k + 1) THEN p - S(price, k) ELSE price[s]
    BY <1>1, <2>1, AllocatedValue
  <2>5. price[s] \in Nat
    BY <1>1, <2>1
  <2> HIDE DEF s, S
  <2> QED
    BY <1>3, <2>2, <2>3, <2>4, <2>5
<1>4. N = {}
  <2> SUFFICES ASSUME N # {}
               PROVE  FALSE
    OBVIOUS
  <2>1. PICK k \in N : \A m \in N : k <= m
    <3>1. N \subseteq Nat
      OBVIOUS
    <3> HIDE DEF N
    <3> QED
      BY <3>1, LeastNatural
  <2> HIDE DEF Right
  <2>2. k \in Nat /\ lo + k - 1 <= hi /\ ~Right(k) /\ k # 0
    BY <1>2, <2>1
  <2>3. k - 1 \in Nat /\ k - 1 \notin N
    BY <2>1, <2>2
  <2>4. Right(k - 1)
    BY <2>2, <2>3
  <2>5. Right((k - 1) + 1)
    BY <1>3, <2>2, <2>3, <2>4
  <2> QED
    BY <2>2, <2>5
<1>5. Right(hi - lo + 1)
  <2>1. hi - lo + 1 \in Nat /\ lo + (hi - lo + 1) - 1 <= hi
    OBVIOUS
  <2> HIDE DEF Right
  <2> QED
    BY <1>4, <2>1
<1>6. lo + (hi - lo + 1) - 1 = hi
  OBVIOUS
<1>7. SumFunctionOnSet(f, lo..hi) = p
  BY <1>5, <1>6
<1> QED
  BY <1>7 DEF f
-----------------------------------------------------------------------------
(***************************************************************************)
(* The inductive invariant.  A row that is not there yet belongs to no     *)
(* group and has no money; a hold has none either.  And there is a set of  *)
(* canceled bookings, those that forfeited half of their deposit, with     *)
(* which the books of every group balance: Excess is what a booking's      *)
(* payments leave beyond what its row accounts for, and over the members   *)
(* of a group it is zero, though hardly ever for one booking alone.        *)
(***************************************************************************)

BookOK(b) ==
  LET r == rows[b]
  IN  /\ b >= nextId => r.status = "none" /\ r.paid = 0 /\ received[b] = returned[b] /\ group[b] = 0
      /\ b < nextId => r.status # "none" /\ group[b] \in 1..(nextId - 1)
      /\ r.status = "pending" => r.paid = 0
      /\ r.status \in Live => r.due = Outstanding(r.total, r.paid)

BooksOK == \A b \in Ids : BookOK(b)

Accounted(r, forfeited) ==
  IF r.status # "canceled" THEN r.paid ELSE IF forfeited THEN r.paid - r.paid \div 2 ELSE 0

Excess(late) == [b \in Ids |-> received[b] - returned[b] - Accounted(rows[b], b \in late)]

Members(g) == {b \in Ids : group[b] = g}

Balanced ==
  \E late \in SUBSET {b \in Ids : rows[b].status = "canceled"} :
    \A g \in Ids : SumFunctionOnSet(Excess(late), Members(g)) = 0

IInv == TypeOK /\ NoDoubleBooking /\ BooksOK /\ Balanced
LEMMA AccountedType ==
  ASSUME NEW r \in Row, NEW forfeited \in BOOLEAN
  PROVE  Accounted(r, forfeited) \in Int
<1>1. r.paid \in Nat
  BY DEF Row
<1>2. r.paid \div 2 \in Int
  BY <1>1
<1> QED
  BY <1>1, <1>2 DEF Accounted

LEMMA ExcessType ==
  ASSUME TypeOK, NEW late
  PROVE  \A b \in Ids : Excess(late)[b] \in Int
<1> SUFFICES ASSUME NEW b \in Ids
             PROVE  Excess(late)[b] \in Int
  OBVIOUS
<1>1. rows[b] \in Row /\ received[b] \in Int /\ returned[b] \in Int
  BY DEF TypeOK, TablesTypeOK
<1>2. Accounted(rows[b], b \in late) \in Int
  <2>1. (b \in late) \in BOOLEAN
    OBVIOUS
  <2> QED
    BY <1>1, <2>1, AccountedType
<1> QED
  BY <1>1, <1>2 DEF Excess

LEMMA InitIInv == Init => IInv
<1> SUFFICES ASSUME Init PROVE IInv
  OBVIOUS
<1>1. TypeOK
  BY NoRowType, SizesAssumption DEF Init, TablesInit, TypeOK, TablesTypeOK, GroupIds, Ids
<1>2. \A b \in Ids : rows[b] = NoRow /\ received[b] = 0 /\ returned[b] = 0 /\ group[b] = 0
  BY DEF Init, TablesInit
<1>3. NoDoubleBooking
  BY <1>2, NoRowFields DEF NoDoubleBooking, Live
<1>4. BooksOK
  BY <1>2, NoRowFields DEF Init, TablesInit, BooksOK, BookOK, Live, Ids
<1>5. Balanced
  <2>1. \A b \in Ids : Excess({})[b] = 0
    BY <1>2, NoRowFields DEF Excess, Accounted
  <2>2. ASSUME NEW g \in Ids
        PROVE  SumFunctionOnSet(Excess({}), Members(g)) = 0
    <3>1. IsFiniteSet(Members(g)) /\ Members(g) \subseteq Ids
      BY IdsAreFinite, FS_Subset DEF Members
    <3> QED
      BY <2>1, <3>1, SumZero
  <2> QED
    BY <2>2 DEF Balanced
<1> QED
  BY <1>1, <1>3, <1>4, <1>5 DEF IInv

-----------------------------------------------------------------------------
(* Steps that leave the groups as they are.                                *)

\* The books stay balanced when no booking's excess changes, once the bookings
\* that forfeited half are named anew.
LEMMA ExcessStep ==
  ASSUME NEW late, NEW late2, late2 \subseteq {b \in Ids : rows'[b].status = "canceled"},
         \A g \in Ids : SumFunctionOnSet(Excess(late), Members(g)) = 0,
         UNCHANGED group,
         \A b \in Ids : Excess(late2)'[b] = Excess(late)[b]
  PROVE  Balanced'
<1>1. Excess(late2)' = Excess(late)
  BY DEF Excess
<1>2. \A g \in Ids : Members(g)' = Members(g)
  BY DEF Members
<1>3. \A g \in Ids : SumFunctionOnSet(Excess(late2)', Members(g)') = 0
  BY <1>1, <1>2
<1> QED
  BY <1>3 DEF Balanced

\* Sweeps, expiry and confirmation, and steps that touch no booking.
LEMMA StatusStep ==
  ASSUME IInv,
         \A b \in Ids : rows'[b] \in {rows[b], Expire(rows[b]), ConfirmedRow(rows[b])},
         rows' \in [Ids -> Row], now' \in 0..MaxTime, toConfirm' \subseteq Ids,
         UNCHANGED <<nextId, received, returned, group>>
  PROVE  IInv'
<1>0. TypeOK /\ TypeOK'
  BY DEF IInv, TypeOK, TablesTypeOK
<1>1. ASSUME NEW b \in Ids
      PROVE  /\ rows'[b].slot = rows[b].slot /\ rows'[b].paid = rows[b].paid
             /\ rows'[b].due = rows[b].due /\ rows'[b].total = rows[b].total
             /\ rows'[b].status \in Live => rows[b].status \in Live
             /\ rows'[b].status = "pending" => rows[b].status = "pending"
             /\ rows'[b].status # rows[b].status => rows[b].status = "pending"
             /\ rows'[b].status = "none" <=> rows[b].status = "none"
  <2>1. rows[b] \in Row
    BY <1>0 DEF TypeOK, TablesTypeOK
  <2> QED
    BY <2>1, StatusOnly
<1>2. NoDoubleBooking'
  BY <1>1, EndingMeetsNobody DEF IInv
<1>3. BooksOK'
  BY <1>1 DEF IInv, BooksOK, BookOK, Outstanding, Live
<1>4. Balanced'
  <2>1. PICK late \in SUBSET {b \in Ids : rows[b].status = "canceled"} :
          \A g \in Ids : SumFunctionOnSet(Excess(late), Members(g)) = 0
    BY DEF IInv, Balanced
  <2>2. late \subseteq {b \in Ids : rows'[b].status = "canceled"}
    BY <1>1, <2>1
  <2>3. ASSUME NEW b \in Ids
        PROVE  Excess(late)'[b] = Excess(late)[b]
    <3>1. BookOK(b)
      BY DEF IInv, BooksOK
    <3>2. Accounted(rows'[b], b \in late) = Accounted(rows[b], b \in late)
      <4>1. CASE rows'[b].status = rows[b].status
        BY <1>1, <4>1 DEF Accounted
      <4>2. CASE rows'[b].status # rows[b].status
        <5>1. rows[b].status = "pending" /\ rows[b].paid = 0 /\ rows'[b].paid = 0 /\ b \notin late
          BY <1>1, <2>1, <3>1, <4>2 DEF BookOK
        <5> QED
          BY <5>1 DEF Accounted
      <4> QED
        BY <4>1, <4>2
    <3> QED
      BY <3>2 DEF Excess
  <2> QED
    BY <2>1, <2>2, <2>3, ExcessStep
<1> QED
  BY <1>0, <1>2, <1>3, <1>4 DEF IInv

\* One live booking is written, and its payments account for what was written:
\* for its deposit, or for what is forfeited of it.
LEMMA OneBookingStep ==
  ASSUME IInv, NEW b \in Ids, NEW n \in Row, NEW amount \in Int,
         rows' = [rows EXCEPT ![b] = n],
         rows[b].status \in Live, n.status \in Live \cup {"canceled"},
         received' \in [Ids -> Nat], returned' \in [Ids -> Nat],
         received'[b] - returned'[b] = received[b] - returned[b] + amount,
         \A c \in Ids \ {b} : received'[c] = received[c] /\ returned'[c] = returned[c],
         UNCHANGED <<now, nextId, group, toConfirm>>,
         \/ n.slot = rows[b].slot \/ ~IndexRejects(n.slot, b),
         n.status = "pending" => n.paid = 0,
         n.status \in Live => n.due = Outstanding(n.total, n.paid) /\ amount = n.paid - rows[b].paid,
         n.status = "canceled" => n.paid = rows[b].paid /\ amount \in {-n.paid, -(n.paid \div 2)}
  PROVE  IInv'
<1>0. TypeOK /\ TypeOK' /\ TablesTypeOK
  BY DEF IInv, TypeOK, TablesTypeOK
<1>1. \A c \in Ids : rows'[c] = IF c = b THEN n ELSE rows[c]
  BY <1>0 DEF TablesTypeOK
<1>2. NoDoubleBooking'
  BY <1>0, OneRowStep DEF IInv
<1>3. ASSUME NEW c \in Ids
      PROVE  BookOK(c)'
  <2>1. BookOK(c) /\ nextId \in Nat /\ c \in Int
    BY <1>0 DEF IInv, BooksOK, TablesTypeOK, Ids
  <2>2. CASE c = b
    <3>1. b < nextId /\ group[b] \in 1..(nextId - 1)
      BY <2>1, <2>2 DEF BookOK, Live
    <3>2. rows'[b] = n /\ nextId' = nextId /\ group' = group
      BY <1>1
    <3> QED
      BY <2>1, <2>2, <3>1, <3>2 DEF BookOK, Outstanding, Live
  <2>3. CASE c # b
    <3>1. rows'[c] = rows[c] /\ nextId' = nextId /\ group' = group
      BY <1>1, <2>3
    <3>2. received'[c] = received[c] /\ returned'[c] = returned[c]
      BY <2>3
    <3> QED
      BY <2>1, <3>1, <3>2 DEF BookOK, Outstanding
  <2> QED
    BY <2>2, <2>3
<1>4. Balanced'
  <2>1. PICK late \in SUBSET {c \in Ids : rows[c].status = "canceled"} :
          \A g \in Ids : SumFunctionOnSet(Excess(late), Members(g)) = 0
    BY DEF IInv, Balanced
  <2> DEFINE late2 == IF n.status = "canceled" /\ amount # -n.paid THEN late \cup {b} ELSE late
  <2>2. b \notin late
    BY <2>1 DEF Live
  <2>3. late2 \subseteq {c \in Ids : rows'[c].status = "canceled"}
    BY <1>1, <2>1, <2>2
  <2>4. ASSUME NEW c \in Ids
        PROVE  Excess(late2)'[c] = Excess(late)[c]
    <3>1. CASE c = b
      <4>1. /\ Excess(late)[b] = received[b] - returned[b] - rows[b].paid
            /\ Excess(late2)'[b] = received'[b] - returned'[b] - Accounted(n, b \in late2)
        BY <1>1 DEF Excess, Accounted, Live
      <4>2. /\ received[b] \in Int /\ returned[b] \in Int
            /\ received'[b] \in Int /\ returned'[b] \in Int
            /\ rows[b].paid \in Int /\ n.paid \in Nat
        BY <1>0 DEF TablesTypeOK, Row
      <4>3. n.paid \div 2 \in Int
        BY <4>2
      <4>4. Accounted(n, b \in late2) = rows[b].paid + amount
        <5>1. CASE n.status # "canceled"
          BY <4>2, <5>1 DEF Accounted
        <5>2. CASE n.status = "canceled" /\ amount = -n.paid
          BY <2>2, <4>2, <5>2 DEF Accounted
        <5>3. CASE n.status = "canceled" /\ amount # -n.paid
          BY <2>2, <4>2, <4>3, <5>3 DEF Accounted
        <5> QED
          BY <5>1, <5>2, <5>3
      <4> QED
        BY <3>1, <4>1, <4>2, <4>4
    <3>2. CASE c # b
      <4>1. c \in late2 <=> c \in late
        BY <3>2
      <4>2. rows'[c] = rows[c] /\ received'[c] = received[c] /\ returned'[c] = returned[c]
        BY <1>1, <3>2
      <4> HIDE DEF late2
      <4> QED
        BY <4>1, <4>2 DEF Excess, Accounted
    <3> QED
      BY <3>1, <3>2
  <2> HIDE DEF late2
  <2> QED
    BY <2>1, <2>3, <2>4, ExcessStep
<1> QED
  BY <1>0, <1>2, <1>3, <1>4 DEF IInv, BooksOK

-----------------------------------------------------------------------------
(* One lemma per action.                                                   *)

LEMMA HouseIInv ==
  ASSUME IInv, \/ \E s \in Slots : SweepSlot(s)
               \/ \E g \in Ids : ConfirmCreated(g)
               \/ ExpirePending \/ Tick \/ UNCHANGED vars
  PROVE  IInv'
<1>0. TablesTypeOK /\ toConfirm \subseteq Ids /\ now + 1 \in Int
  BY SizesAssumption DEF IInv, TypeOK, TablesTypeOK
<1>1. \A b \in Ids : Expire(rows[b]) \in Row /\ ConfirmedRow(rows[b]) \in Row
  BY <1>0, ExpireType, ConfirmedRowType DEF TablesTypeOK
<1>2. CASE \E s \in Slots : SweepSlot(s)
  <2>1. PICK s \in Slots : SweepSlot(s)
    BY <1>2
  <2>2. rows' \in [Ids -> Row]
    BY <1>0, <2>1, SweepType DEF SweepSlot, TablesTypeOK
  <2>3. \A b \in Ids : rows'[b] \in {rows[b], Expire(rows[b])}
    BY <2>1 DEF SweepSlot, ExpirePendingByTimeSlot
  <2> QED
    BY <1>0, <2>1, <2>2, <2>3, StatusStep DEF SweepSlot, TablesTypeOK, money
<1>3. CASE \E g \in Ids : ConfirmCreated(g)
  <2>1. PICK g \in Ids : ConfirmCreated(g)
    BY <1>3
  <2>2. /\ rows' \in [Ids -> Row]
        /\ \A b \in Ids : rows'[b] \in {rows[b], ConfirmedRow(rows[b])}
        /\ UNCHANGED <<now, nextId, received, returned>>
    BY <1>0, <1>1, <2>1 DEF ConfirmCreated, ConfirmTx, TablesTypeOK, money
  <2>3. toConfirm' \subseteq Ids /\ group' = group
    BY <1>0, <2>1 DEF ConfirmCreated
  <2> QED
    BY <1>0, <2>2, <2>3, StatusStep DEF TablesTypeOK
<1>4. CASE ExpirePending
  <2>1. rows' \in [Ids -> Row] /\ \A b \in Ids : rows'[b] = Expire(rows[b])
    BY <1>1, <1>4 DEF ExpirePending, ExpireTx
  <2> QED
    BY <1>0, <1>4, <2>1, StatusStep DEF ExpirePending, ExpireTx, TablesTypeOK, money
<1>5. CASE Tick
  BY <1>0, <1>5, SizesAssumption, StatusStep DEF Tick, TablesTypeOK, money
<1>6. CASE UNCHANGED vars
  BY <1>0, <1>6, StatusStep DEF vars, TablesTypeOK, money
<1> QED
  BY <1>2, <1>3, <1>4, <1>5, <1>6

LEMMA ConfirmDepositIInv ==
  ASSUME IInv, NEW b \in Ids, NEW amount \in 1..rows[b].due, ConfirmDeposit(b, amount)
  PROVE  IInv'
<1> DEFINE r == rows[b]
           n == DepositedRow(r, amount)
<1>1. /\ r \in Row /\ r.paid \in Nat /\ r.total \in Prices /\ r.due \in Int /\ amount \in Nat \ {0}
      /\ received \in [Ids -> Nat] /\ returned \in [Ids -> Nat]
  BY DEF IInv, TypeOK, TablesTypeOK, Row
<1>2. r.total \in Nat
  BY <1>1, PricesAssumption
<1>3. /\ r.status \in Live /\ amount <= r.due /\ Post(b, amount)
      /\ rows' = [rows EXCEPT ![b] = n] /\ UNCHANGED <<now, nextId, group, toConfirm>>
  BY DEF ConfirmDeposit, DepositTx
<1>4. /\ n \in Row /\ n.slot = r.slot /\ n.total = r.total /\ n.paid = r.paid + amount
      /\ n.due = r.total - (r.paid + amount)
      /\ n.status = IF r.status = "pending" THEN "confirmed" ELSE r.status
  BY <1>1, DepositedRowType
<1>5. n.status \in Live /\ n.status # "pending"
  BY <1>3, <1>4 DEF Live
<1>6. r.due = Outstanding(r.total, r.paid)
  BY <1>3 DEF IInv, BooksOK, BookOK
<1>7. n.due = Outstanding(n.total, n.paid) /\ amount = n.paid - r.paid
  BY <1>1, <1>2, <1>3, <1>4, <1>6 DEF Outstanding
<1>8. /\ received' \in [Ids -> Nat] /\ returned' \in [Ids -> Nat]
      /\ received'[b] - returned'[b] = received[b] - returned[b] + amount
      /\ \A c \in Ids \ {b} : received'[c] = received[c] /\ returned'[c] = returned[c]
  BY <1>1, <1>3, PostType
<1>9. n.status # "canceled"
  BY <1>5 DEF Live
<1>10. amount \in Int
  BY <1>1
<1> HIDE DEF n
<1> QED
  BY <1>3, <1>4, <1>5, <1>7, <1>8, <1>9, <1>10, OneBookingStep

LEMMA CancelBookingIInv ==
  ASSUME IInv, NEW b \in Ids, CancelBooking(b)
  PROVE  IInv'
<1> DEFINE r == rows[b]
           n == CanceledRow(r)
           amount == -Refund(r)
<1>1. /\ r \in Row /\ r.paid \in Nat
      /\ received \in [Ids -> Nat] /\ returned \in [Ids -> Nat]
  BY DEF IInv, TypeOK, TablesTypeOK, Row
<1>2. amount \in Int /\ amount \in {-r.paid, -(r.paid \div 2)}
  BY <1>1, RefundType
<1>3. /\ r.status \in Live /\ Post(b, amount)
      /\ rows' = [rows EXCEPT ![b] = n] /\ UNCHANGED <<now, nextId, group, toConfirm>>
  BY DEF CancelBooking, CancelTx
<1>4. n \in Row /\ n.status = "canceled" /\ n.slot = r.slot /\ n.paid = r.paid
  BY <1>1, CanceledRowType
<1>5. n.status \notin Live /\ n.status # "pending"
  BY <1>4 DEF Live
<1> HIDE DEF n, amount
<1>6. /\ received' \in [Ids -> Nat] /\ returned' \in [Ids -> Nat]
      /\ received'[b] - returned'[b] = received[b] - returned[b] + amount
      /\ \A c \in Ids \ {b} : received'[c] = received[c] /\ returned'[c] = returned[c]
  BY <1>1, <1>2, <1>3, PostType
<1> QED
  BY <1>2, <1>3, <1>4, <1>5, <1>6, OneBookingStep

LEMMA UpdateBookingIInv ==
  ASSUME IInv, NEW b \in Ids, NEW s \in Slots, NEW p \in 0..MaxReceived, UpdateBooking(b, s, p)
  PROVE  IInv'
<1> DEFINE r == rows[b]
           amount == p - r.paid
<1>1. /\ r \in Row /\ r.paid \in Nat /\ r.total \in Prices /\ p \in Nat /\ amount \in Int
      /\ received \in [Ids -> Nat] /\ returned \in [Ids -> Nat]
  BY SizesAssumption DEF IInv, TypeOK, TablesTypeOK, Row
<1>2. PICK total \in (IF s # r.slot THEN Prices ELSE {r.total}) :
        rows' = [rows EXCEPT ![b] = UpdatedRow(r, s, total, p)]
  BY DEF UpdateBooking, UpdateTx
<1> DEFINE n == UpdatedRow(r, s, total, p)
<1>3. /\ r.status \in Live /\ Post(b, amount) /\ UNCHANGED <<now, nextId, group, toConfirm>>
      /\ s # r.slot => ~IndexRejects(s, b)
  BY DEF UpdateBooking, UpdateTx
<1>4. total \in Prices
  BY <1>1, <1>2
<1>5. /\ n \in Row /\ n.slot = s /\ n.total = total /\ n.paid = p /\ n.due = Outstanding(total, p)
      /\ n.status = IF p > 0 /\ r.status = "pending" THEN "confirmed" ELSE r.status
  <2> HIDE DEF r, amount
  <2> QED
    BY <1>1, <1>4, UpdatedRowType
<1>6. rows' = [rows EXCEPT ![b] = n]
  BY <1>2
<1> HIDE DEF n, amount
<1>7. n.status \in Live /\ n.status # "canceled" /\ (n.status = "pending" => n.paid = 0)
  BY <1>1, <1>3, <1>5 DEF Live
<1>8. /\ received' \in [Ids -> Nat] /\ returned' \in [Ids -> Nat]
      /\ received'[b] - returned'[b] = received[b] - returned[b] + amount
      /\ \A c \in Ids \ {b} : received'[c] = received[c] /\ returned'[c] = returned[c]
  BY <1>1, <1>3, PostType
<1>9. amount = n.paid - rows[b].paid
  BY <1>5 DEF amount
<1> QED
  BY <1>1, <1>3, <1>5, <1>6, <1>7, <1>8, <1>9, OneBookingStep

LEMMA CheckInIInv ==
  ASSUME IInv, NEW b \in Ids, CheckIn(b)
  PROVE  IInv'
<1> DEFINE r == rows[b]
           n == CheckedInRow(r)
           amount == 0
<1>1. /\ r \in Row /\ r.paid \in Nat
      /\ received \in [Ids -> Nat] /\ returned \in [Ids -> Nat]
  BY DEF IInv, TypeOK, TablesTypeOK, Row
<1>2. /\ r.status \in Live /\ rows' = [rows EXCEPT ![b] = n]
      /\ UNCHANGED <<now, nextId, received, returned, group, toConfirm>>
  BY DEF CheckIn, Arrives, Live, money
<1>3. /\ n \in Row /\ n.status = "checked_in" /\ n.slot = r.slot /\ n.paid = r.paid
      /\ n.due = r.due /\ n.total = r.total
  BY <1>1, CheckedInRowType
<1>4. n.due = Outstanding(n.total, n.paid)
  BY <1>2, <1>3 DEF IInv, BooksOK, BookOK
<1>5. /\ received'[b] - returned'[b] = received[b] - returned[b] + amount
      /\ amount = n.paid - r.paid /\ amount \in Int
  BY <1>1, <1>2, <1>3
<1>6. n.status \in Live
  BY <1>3 DEF Live
<1>7. n.status # "canceled" /\ n.status # "pending"
  BY <1>3
<1>8. received' \in [Ids -> Nat] /\ returned' \in [Ids -> Nat]
  BY <1>1, <1>2
<1>9. UNCHANGED <<now, nextId, group, toConfirm>>
  BY <1>2
<1>10. \A c \in Ids \ {b} : received'[c] = received[c] /\ returned'[c] = returned[c]
  BY <1>2
<1> HIDE DEF n, amount
<1> QED
  BY <1>2, <1>3, <1>4, <1>5, <1>6, <1>7, <1>8, <1>9, <1>10, OneBookingStep

\* A new group has only its new bookings, without money; the others are as they were.
LEMMA CreateIInv ==
  ASSUME IInv, NEW lo \in Slots, NEW hi \in Slots, CreatePendingBookingRange(lo, hi)
  PROVE  IInv'
<1>0. TablesTypeOK /\ nextId \in Nat \ {0} /\ lo \in Int /\ hi \in Int /\ lo <= hi
  BY DEF IInv, TypeOK, TablesTypeOK, CreatePendingBookingRange, Slots
<1>1. PICK new \in SUBSET Ids :
        /\ InsertTx(new, lo..hi)
        /\ group' = [b \in Ids |-> IF b \in new THEN nextId ELSE group[b]]
        /\ toConfirm' = toConfirm \cup new
  BY DEF CreatePendingBookingRange
<1>2. Inserts(lo..hi, new)
  <2>1. lo..hi \in SUBSET Slots
    BY SizesAssumption DEF Slots
  <2> QED
    BY <1>0, <1>1, <2>1, InsertedRows
<1>3. /\ nextId' = nextId + (hi - lo + 1) /\ nextId' \in Nat \ {0} /\ nextId < nextId'
      /\ new = nextId..(nextId' - 1) /\ nextId \in new /\ nextId \in Ids
  <2>1. Cardinality(lo..hi) = hi - lo + 1
    BY <1>0, IntervalSize
  <2> QED
    BY <1>0, <1>2, <2>1 DEF Inserts
<1>4. TypeOK'
  <2>1. group' \in [Ids -> GroupIds]
    BY <1>1, <1>3 DEF IInv, TypeOK, GroupIds, Ids
  <2> QED
    BY <1>0, <1>1, <1>2, <1>3, <2>1 DEF IInv, TypeOK, TablesTypeOK, Inserts
<1>5. NoDoubleBooking'
  <2>1. lo..hi \in SUBSET Slots
    BY SizesAssumption DEF Slots
  <2> QED
    BY <1>0, <1>1, <2>1, InsertionMeetsNobody DEF IInv
<1>6. ASSUME NEW b \in new
      PROVE  /\ b \in Ids /\ rows'[b].status = "pending" /\ rows'[b].paid = 0
             /\ rows'[b].due = rows'[b].total /\ rows'[b].total \in Nat
             /\ received[b] = returned[b] /\ group[b] = 0
             /\ received'[b] = received[b] /\ returned'[b] = returned[b]
             /\ rows[b].status = "none"
  <2>1. b \in Ids /\ b >= nextId
    BY <1>0, <1>3
  <2>5. rows'[b] \in Row
    BY <1>2, <2>1 DEF Inserts
  <2>2. rows'[b].total \in Nat
    BY <2>5, PricesAssumption DEF Row
  <2>3. received[b] = returned[b] /\ group[b] = 0 /\ rows[b].status = "none"
    BY <2>1 DEF IInv, BooksOK, BookOK
  <2> QED
    BY <1>2, <2>1, <2>2, <2>3 DEF Inserts
<1>7. ASSUME NEW b \in Ids \ new
      PROVE  /\ rows'[b] = rows[b] /\ received'[b] = received[b] /\ returned'[b] = returned[b]
             /\ group'[b] = group[b] /\ (b < nextId <=> b < nextId') /\ b \in Int
             /\ group[b] # nextId
  <2>1. b \in Int /\ (b < nextId <=> b < nextId')
    BY <1>0, <1>3 DEF Ids
  <2>2. group[b] # nextId
    BY <1>0, <2>1 DEF IInv, BooksOK, BookOK
  <2> QED
    BY <1>1, <1>2, <2>1, <2>2 DEF Inserts
<1>8. ASSUME NEW b \in Ids
      PROVE  BookOK(b)'
  <2>1. CASE b \in new
    <3>1. ~(b >= nextId') /\ group'[b] = nextId /\ nextId \in 1..(nextId' - 1)
      BY <1>0, <1>1, <1>3, <2>1
    <3>2. rows'[b].due = Outstanding(rows'[b].total, rows'[b].paid)
      BY <1>6, <2>1 DEF Outstanding
    <3> QED
      BY <1>6, <2>1, <3>1, <3>2 DEF BookOK, Outstanding
  <2>2. CASE b \notin new
    <3>1. BookOK(b)
      BY DEF IInv, BooksOK
    <3>2. b < nextId => group[b] \in 1..(nextId' - 1)
      BY <1>0, <1>3, <3>1 DEF BookOK
    <3> QED
      BY <1>0, <1>3, <1>7, <2>2, <3>1, <3>2 DEF BookOK, Outstanding
  <2> QED
    BY <2>1, <2>2
<1>9. Balanced'
  <2>1. PICK late \in SUBSET {b \in Ids : rows[b].status = "canceled"} :
          \A g \in Ids : SumFunctionOnSet(Excess(late), Members(g)) = 0
    BY DEF IInv, Balanced
  <2>2. \A b \in late : b \in Ids \ new
    BY <1>6, <2>1
  <2>3. late \subseteq {b \in Ids : rows'[b].status = "canceled"}
    BY <1>7, <2>1, <2>2
  <2>4. ASSUME NEW b \in new
        PROVE  Excess(late)'[b] = 0
    <3>1. Accounted(rows'[b], b \in late) = 0
      BY <1>6 DEF Accounted
    <3>2. received'[b] = returned'[b] /\ received'[b] \in Int
      BY <1>6, <1>4 DEF TypeOK, TablesTypeOK
    <3>3. Excess(late)'[b] = received'[b] - returned'[b] - Accounted(rows'[b], b \in late)
      BY <1>6 DEF Excess
    <3> QED
      BY <3>1, <3>2, <3>3
  <2>5. \A b \in Ids \ new : Excess(late)'[b] = Excess(late)[b]
    BY <1>7 DEF Excess, Accounted
  <2>6. ASSUME NEW g \in Ids
        PROVE  SumFunctionOnSet(Excess(late)', Members(g)') = 0
    <3>1. CASE g = nextId
      <4>1. Members(g)' = new
        BY <1>1, <1>7, <3>1 DEF Members
      <4>2. IsFiniteSet(new)
        BY IdsAreFinite, FS_Subset
      <4> QED
        BY <2>4, <4>1, <4>2, SumZero
    <3>2. CASE g # nextId
      <4>1. \A b \in Members(g) : b \notin new
        BY <1>6 DEF Members, Ids
      <4>2. Members(g)' = Members(g)
        BY <1>1, <1>6, <1>7, <3>2, <4>1 DEF Members, Ids
      <4>3. IsFiniteSet(Members(g)) /\ Members(g) \subseteq Ids
        BY IdsAreFinite, FS_Subset DEF Members
      <4>4. \A b \in Members(g) : Excess(late)[b] \in Int /\ Excess(late)[b] = Excess(late)'[b]
        <5>1. TypeOK
          BY DEF IInv
        <5> QED
          BY <2>5, <4>1, <4>3, <5>1, ExcessType
      <4>5. SumFunctionOnSet(Excess(late), Members(g)) = SumFunctionOnSet(Excess(late)', Members(g))
        BY <4>3, <4>4, SumAgree
      <4> QED
        BY <2>1, <4>2, <4>5
    <3> QED
      BY <3>1, <3>2
  <2> QED
    BY <2>3, <2>6 DEF Balanced
<1> QED
  BY <1>4, <1>5, <1>8, <1>9 DEF IInv, BooksOK

-----------------------------------------------------------------------------
(* The reschedule of a group.                                              *)

\* What UpdateBookingGroup does to the group g of the live members A: the active
\* members, one to each slot of lo..hi, take the new prices and their part of p,
\* the others are canceled without money, and p less what was paid is posted to
\* the first.
Rescheduled(g, A, lo, hi, p, price, first) ==
  LET new == NewMembers(A, lo, hi)
      act == Active(A, lo, hi)
  IN  /\ g \in Ids /\ g < nextId
      /\ A = ActiveGroup(g)
      /\ \A c \in A : c < nextId
      /\ new \subseteq Ids /\ new = nextId..(nextId' - 1) /\ nextId' \in Nat \ {0} /\ nextId <= nextId'
      /\ A \cap new = {} /\ act \subseteq A \cup new /\ new \subseteq act
      /\ \A c \in act : Target(A, lo, c) \in lo..hi
      /\ \A c, d \in act : Target(A, lo, c) = Target(A, lo, d) => c = d
      /\ \A s \in lo..hi : \E c \in act : Target(A, lo, c) = s
      /\ price \in [lo..hi -> Nat]
      /\ p \in Nat /\ p <= SumFunctionOnSet(price, lo..hi)
      /\ rows' \in [Ids -> Row]
      /\ \A c \in act : /\ rows'[c].slot = Target(A, lo, c)
                        /\ rows'[c].paid = Allocated(p, price, lo, Target(A, lo, c))
                        /\ rows'[c].due = Outstanding(rows'[c].total, rows'[c].paid)
                        /\ rows'[c].status \in Live
                        /\ rows'[c].status = "pending" => rows'[c].paid = 0
      /\ \A c \in A \ act : rows'[c].status = "canceled" /\ rows'[c].paid = 0
      /\ \A c \in Ids \ (A \cup new) : rows'[c] = rows[c]
      /\ first \in act
      /\ PaidBy(A) \in Nat
      /\ received' \in [Ids -> Nat] /\ returned' \in [Ids -> Nat]
      /\ received'[first] - returned'[first] = received[first] - returned[first] + (p - PaidBy(A))
      /\ \A c \in Ids \ {first} : received'[c] = received[c] /\ returned'[c] = returned[c]
      /\ group' = [c \in Ids |-> IF c \in new THEN g ELSE group[c]]
      /\ UNCHANGED <<now, toConfirm>>
      /\ \A s \in lo..hi, o \in Ids : rows[o].slot = s /\ rows[o].status \in Live => o \in A

LEMMA SurplusRowType ==
  ASSUME NEW r \in Row
  PROVE  /\ SurplusRow(r) \in Row
         /\ SurplusRow(r).status = "canceled"
         /\ SurplusRow(r).paid = 0
<1>1. "canceled" \in Statuses /\ 0 \in Nat /\ 0 \in Int
  BY DEF Statuses
<1>2. SurplusRow(r) \in Row
  BY <1>1 DEF SurplusRow, Row
<1>3. SurplusRow(r).status = "canceled"
  BY DEF SurplusRow, Row
<1>4. SurplusRow(r).paid = 0
  BY DEF SurplusRow, Row
<1> QED
  BY <1>2, <1>3, <1>4

LEMMA RescheduleDoes ==
  ASSUME IInv, NEW b \in Ids, NEW lo \in Slots, NEW hi \in Slots,
         NEW p \in 0..(MaxReceived * MaxId), UpdateBookingGroup(b, lo, hi, p)
  PROVE  \E price, first : Rescheduled(group[b], ActiveGroup(group[b]), lo, hi, p, price, first)
<1> DEFINE g   == group[b]
           A   == ActiveGroup(g)
           new == NewMembers(A, lo, hi)
           act == Active(A, lo, hi)
<1>1. /\ TablesTypeOK /\ rows \in [Ids -> Row] /\ nextId \in Nat \ {0}
      /\ lo \in Int /\ hi \in Int /\ lo <= hi /\ lo..hi \subseteq Slots /\ p \in Nat
      /\ group \in [Ids -> GroupIds]
      /\ received \in [Ids -> Nat] /\ returned \in [Ids -> Nat]
  <2>1. MaxReceived * MaxId \in Nat
    BY SizesAssumption
  <2> QED
    BY <2>1, SizesAssumption DEF IInv, TypeOK, TablesTypeOK, UpdateBookingGroup, Reschedulable, Slots
<1>2. rows[b].status \in {"pending", "confirmed"} /\ ~SavesCollide(A, lo, hi) /\ new \subseteq Ids
  BY DEF UpdateBookingGroup, Reschedulable
<1>3. b \in Int /\ b < nextId /\ g \in Ids /\ g < nextId
  <2>1. BookOK(b) /\ b \in Int
    BY DEF IInv, BooksOK, Ids
  <2>2. b < nextId /\ g \in 1..(nextId - 1) /\ g \in GroupIds
    BY <1>1, <1>2, <2>1 DEF BookOK
  <2> QED
    BY <1>1, <2>1, <2>2, SizesAssumption DEF GroupIds, Ids
<1>4. /\ A \in SUBSET Ids /\ Apart(A)
      /\ \A c \in A : rows[c].status \in Live
      /\ \A c \in A : c \in Int /\ c < nextId
  <2>1. A \in SUBSET Ids /\ \A c \in A : rows[c].status \in Live
    BY DEF ActiveGroup
  <2>2. Apart(A)
    BY <2>1 DEF IInv, NoDoubleBooking, Apart
  <2>3. ASSUME NEW c \in A
        PROVE  c \in Int /\ c < nextId
    <3>1. BookOK(c) /\ c \in Int
      BY <2>1 DEF IInv, BooksOK, Ids
    <3> QED
      BY <1>1, <2>1, <3>1 DEF BookOK, Live
  <2> QED
    BY <2>1, <2>2, <2>3
<1>5. /\ \A c \in act : Target(A, lo, c) \in lo..hi
      /\ \A c, d \in act : Target(A, lo, c) = Target(A, lo, d) => c = d
      /\ \A s \in lo..hi : \E c \in act : Target(A, lo, c) = s
      /\ new \subseteq act /\ A \cap new = {}
  <2> HIDE DEF A
  <2> QED
    BY <1>1, <1>4, TargetsFillRange
<1>6. act = {c \in A \cup new : Target(A, lo, c) <= hi} /\ act \subseteq A \cup new /\ act \subseteq Ids
  BY <1>2, <1>4 DEF Active
<1>7. PICK price \in [lo..hi -> Prices] :
        /\ p <= SumFunctionOnSet(price, lo..hi)
        /\ rows' = [c \in Ids |->
             IF c \in act
             THEN UpdatedRow(IF c \in A THEN rows[c] ELSE rows[b], Target(A, lo, c),
                             price[Target(A, lo, c)], Allocated(p, price, lo, Target(A, lo, c)))
             ELSE IF c \in A THEN SurplusRow(rows[c]) ELSE rows[c]]
  BY DEF UpdateBookingGroup, Active
<1>8. price \in [lo..hi -> Nat]
  BY PricesAssumption
<1>9. PICK first \in act : Post(first, p - PaidBy(A))
  BY DEF UpdateBookingGroup, Active
<1>10. nextId' = nextId + Cardinality(new) /\ group' = [c \in Ids |-> IF c \in new THEN g ELSE group[c]]
       /\ UNCHANGED <<now, toConfirm>>
  BY DEF UpdateBookingGroup
<1> HIDE DEF A, new, act, g
<1>11. new = nextId..(nextId' - 1) /\ nextId' \in Nat \ {0} /\ nextId <= nextId'
  <2>1. Cardinality(A) \in Nat
    BY <1>4, IdsAreFinite, FS_Subset, FS_CardinalityType
  <2> DEFINE top == nextId + (hi - lo) - Cardinality(A)
  <2>2. new = nextId..top /\ top \in Int
    BY <1>1, <2>1 DEF new, NewMembers
  <2> HIDE DEF top
  <2>3. CASE nextId <= top + 1
    <3>1. Cardinality(new) = top - nextId + 1
      BY <1>1, <2>2, <2>3, IntervalSize
    <3>2. nextId' = top + 1
      BY <1>1, <1>10, <2>2, <3>1
    <3>3. nextId' - 1 = top
      BY <2>2, <3>2
    <3> QED
      BY <1>1, <2>2, <2>3, <3>2, <3>3
  <2>4. CASE ~(nextId <= top + 1)
    <3>1. new = {} /\ nextId..(nextId - 1) = {}
      BY <1>1, <2>2, <2>4
    <3>2. Cardinality(new) = 0
      BY <3>1, FS_EmptySet
    <3>3. nextId' = nextId
      BY <1>1, <1>10, <3>2
    <3> QED
      BY <1>1, <3>1, <3>3
  <2> QED
    BY <2>3, <2>4
<1>12. ASSUME NEW c \in act
       PROVE  /\ rows'[c] \in Row
              /\ rows'[c].slot = Target(A, lo, c)
              /\ rows'[c].paid = Allocated(p, price, lo, Target(A, lo, c))
              /\ rows'[c].due = Outstanding(rows'[c].total, rows'[c].paid)
              /\ rows'[c].status \in Live
              /\ rows'[c].status = "pending" => rows'[c].paid = 0
  <2> DEFINE r == IF c \in A THEN rows[c] ELSE rows[b]
             s == Target(A, lo, c)
             q == Allocated(p, price, lo, s)
  <2>1. c \in Ids /\ s \in lo..hi /\ s \in Slots /\ price[s] \in Prices
    BY <1>1, <1>5, <1>6
  <2>2. r \in Row /\ r.status \in Live
    BY <1>1, <1>2, <1>4, <2>1 DEF Live
  <2>3. q \in Nat
    <3> HIDE DEF s
    <3> QED
      BY <1>1, <1>8, <2>1, AllocatedValue
  <2>4. rows'[c] = UpdatedRow(r, s, price[s], q)
    BY <1>7, <2>1
  <2> HIDE DEF r, s, q
  <2>5. /\ rows'[c] \in Row /\ rows'[c].slot = s /\ rows'[c].total = price[s] /\ rows'[c].paid = q
        /\ rows'[c].due = Outstanding(price[s], q)
        /\ rows'[c].status = IF q > 0 /\ r.status = "pending" THEN "confirmed" ELSE r.status
    BY <2>1, <2>2, <2>3, <2>4, UpdatedRowType
  <2>6. rows'[c].status \in Live /\ (rows'[c].status = "pending" => q = 0)
    BY <2>2, <2>3, <2>5 DEF Live
  <2> QED
    BY <2>5, <2>6 DEF s, q
<1>13. ASSUME NEW c \in A \ act
       PROVE  rows'[c] \in Row /\ rows'[c].status = "canceled" /\ rows'[c].paid = 0
  <2>1. c \in Ids /\ rows[c] \in Row
    BY <1>1, <1>4
  <2>2. rows'[c] = SurplusRow(rows[c])
    BY <1>7, <2>1
  <2> QED
    BY <2>1, <2>2, SurplusRowType
<1>14. ASSUME NEW c \in Ids \ (A \cup new)
       PROVE  rows'[c] = rows[c]
  BY <1>6, <1>7
<1>15. rows' \in [Ids -> Row]
  <2>1. \A c \in Ids : rows'[c] \in Row
    BY <1>1, <1>5, <1>12, <1>13, <1>14
  <2>2. rows' = [c \in Ids |-> rows'[c]]
    BY <1>7
  <2> QED
    BY <2>1, <2>2
<1>16. PaidBy(A) \in Nat
  <2> DEFINE f == [c \in Ids |-> rows[c].paid]
  <2>1. \A c \in A : f[c] \in Nat
    BY <1>1, <1>4 DEF Row
  <2>2. IsFiniteSet(A)
    BY <1>4, IdsAreFinite, FS_Subset
  <2>3. SumFunctionOnSet(f, A) \in Nat
    <3> HIDE DEF f
    <3> QED
      BY <2>1, <2>2, SumNat
  <2> QED
    BY <2>3 DEF PaidBy
<1>17. /\ received' \in [Ids -> Nat] /\ returned' \in [Ids -> Nat]
       /\ received'[first] - returned'[first] = received[first] - returned[first] + (p - PaidBy(A))
       /\ \A c \in Ids \ {first} : received'[c] = received[c] /\ returned'[c] = returned[c]
  <2> DEFINE amount == p - PaidBy(A)
  <2>1. amount \in Int /\ first \in Ids /\ Post(first, amount)
    BY <1>1, <1>6, <1>9, <1>16
  <2> HIDE DEF amount
  <2>2. /\ received' \in [Ids -> Nat] /\ returned' \in [Ids -> Nat]
        /\ received'[first] - returned'[first] = received[first] - returned[first] + amount
        /\ \A c \in Ids \ {first} : received'[c] = received[c] /\ returned'[c] = returned[c]
    BY <1>1, <2>1, PostType
  <2> QED
    BY <2>2 DEF amount
<1>18. ASSUME NEW s \in lo..hi, NEW o \in Ids, rows[o].slot = s, rows[o].status \in Live
       PROVE  o \in A
  BY <1>2, <1>18 DEF SavesCollide, Indexed, Live
<1>19. Rescheduled(g, A, lo, hi, p, price, first)
  BY <1>1, <1>2, <1>3, <1>4, <1>5, <1>6, <1>7, <1>8, <1>9, <1>10, <1>11, <1>12, <1>13, <1>14,
     <1>15, <1>16, <1>17, <1>18 DEF Rescheduled, A, new, act
<1> QED
  BY <1>19 DEF g, A

\* Two bookings of the group never meet, and the others were not in its range.
LEMMA RescheduleMeetsNobody ==
  ASSUME IInv, NEW g, NEW A, NEW lo \in Slots, NEW hi \in Slots, NEW p, NEW price, NEW first,
         Rescheduled(g, A, lo, hi, p, price, first)
  PROVE  NoDoubleBooking'
<1> DEFINE new == NewMembers(A, lo, hi)
           act == Active(A, lo, hi)
<1>1. /\ act \subseteq A \cup new /\ new \subseteq act
      /\ \A c \in act : Target(A, lo, c) \in lo..hi /\ rows'[c].slot = Target(A, lo, c)
      /\ \A c, d \in act : Target(A, lo, c) = Target(A, lo, d) => c = d
      /\ \A c \in A \ act : rows'[c].status = "canceled"
      /\ \A c \in Ids \ (A \cup new) : rows'[c] = rows[c]
      /\ \A s \in lo..hi, o \in Ids : rows[o].slot = s /\ rows[o].status \in Live => o \in A
  BY DEF Rescheduled
<1> HIDE DEF new, act
<1> SUFFICES ASSUME NEW b \in Ids, NEW c \in Ids,
                    rows'[b].status \in Live, rows'[c].status \in Live,
                    rows'[b].slot = rows'[c].slot
             PROVE  b = c
  BY DEF NoDoubleBooking, Live
<1>2. \A d \in Ids : rows'[d].status \in Live => d \in act \/ (d \notin A /\ rows'[d] = rows[d])
  BY <1>1 DEF Live
<1>3. CASE b \in act /\ c \in act
  BY <1>1, <1>3
<1>4. CASE b \in act /\ c \notin act
  BY <1>1, <1>2, <1>4
<1>5. CASE b \notin act /\ c \in act
  BY <1>1, <1>2, <1>5
<1>6. CASE b \notin act /\ c \notin act
  BY <1>2, <1>6 DEF IInv, NoDoubleBooking
<1> QED
  BY <1>3, <1>4, <1>5, <1>6

LEMMA RescheduleKeepsBooks ==
  ASSUME IInv, NEW g, NEW A, NEW lo \in Slots, NEW hi \in Slots, NEW p, NEW price, NEW first,
         Rescheduled(g, A, lo, hi, p, price, first)
  PROVE  BooksOK'
<1> DEFINE new == NewMembers(A, lo, hi)
           act == Active(A, lo, hi)
<1>1. /\ g \in Ids /\ g < nextId /\ A \subseteq Ids /\ \A c \in A : c < nextId /\ group[c] = g
      /\ new \subseteq Ids /\ new = nextId..(nextId' - 1) /\ nextId' \in Nat \ {0} /\ nextId <= nextId'
      /\ act \subseteq A \cup new /\ new \subseteq act /\ first \in act
      /\ \A c \in act : /\ rows'[c].status \in Live
                        /\ rows'[c].status = "pending" => rows'[c].paid = 0
                        /\ rows'[c].due = Outstanding(rows'[c].total, rows'[c].paid)
      /\ \A c \in A \ act : rows'[c].status = "canceled"
      /\ \A c \in Ids \ (A \cup new) : rows'[c] = rows[c]
      /\ \A c \in Ids \ {first} : received'[c] = received[c] /\ returned'[c] = returned[c]
      /\ group' = [c \in Ids |-> IF c \in new THEN g ELSE group[c]]
  BY DEF Rescheduled, ActiveGroup
<1>2. nextId \in Nat \ {0}
  BY DEF IInv, TypeOK, TablesTypeOK
<1> HIDE DEF new, act
<1>3. \A c \in Ids : c \in Int /\ g \in Int /\ g >= 1
  BY <1>1 DEF Ids
<1>4. ASSUME NEW c \in Ids
      PROVE  BookOK(c)'
  <2>1. BookOK(c)
    BY DEF IInv, BooksOK
  <2>2. CASE c \in A \cup new
    <3>1. c < nextId' /\ group'[c] = g /\ g \in 1..(nextId' - 1) /\ ~(c >= nextId')
      <4>1. nextId' \in Nat /\ nextId <= nextId' /\ g < nextId
        BY <1>1
      <4>2. c < nextId \/ c \in nextId..(nextId' - 1)
        BY <1>1, <2>2
      <4>3. group'[c] = g
        BY <1>1, <2>2
      <4> QED
        BY <1>2, <1>3, <4>1, <4>2, <4>3
    <3>2. CASE c \in act
      BY <1>1, <3>1, <3>2 DEF BookOK, Outstanding, Live
    <3>3. CASE c \notin act
      <4>1. rows'[c].status = "canceled"
        BY <1>1, <2>2, <3>3
      <4> QED
        BY <3>1, <4>1 DEF BookOK, Outstanding, Live
    <3> QED
      BY <3>2, <3>3
  <2>3. CASE c \notin A \cup new
    <3>1. /\ rows'[c] = rows[c] /\ group'[c] = group[c]
          /\ received'[c] = received[c] /\ returned'[c] = returned[c]
      BY <1>1, <2>3
    <3>2. c < nextId' => c < nextId
      <4>1. nextId' \in Nat /\ c \notin nextId..(nextId' - 1)
        BY <1>1, <2>3
      <4> QED
        BY <1>2, <1>3, <4>1
    <3>3. c < nextId => group[c] \in 1..(nextId' - 1)
      BY <1>1, <1>2, <2>1 DEF BookOK
    <3>4. c >= nextId' => c >= nextId
      BY <1>1, <1>2, <1>3
    <3> QED
      BY <1>2, <1>3, <2>1, <3>1, <3>2, <3>3, <3>4 DEF BookOK, Outstanding
  <2> QED
    BY <2>2, <2>3
<1> QED
  BY <1>4 DEF BooksOK

\* What a reschedule does to the excess of each booking: it gains the deposit
\* that a member had, loses the part it is given, and the first the payment.
ExcessMoves(A, lo, hi, p, price, first, late, c) ==
  /\ Excess(late)[c] \in Int /\ Excess(late)'[c] \in Int /\ rows[c].paid \in Nat
  /\ c \in NewMembers(A, lo, hi) => Excess(late)[c] = 0
  /\ Excess(late)'[c]
       + (IF c \in Active(A, lo, hi) THEN Allocated(p, price, lo, Target(A, lo, c)) ELSE 0)
     = Excess(late)[c] + (IF c \in A THEN rows[c].paid ELSE 0)
       + (IF c = first THEN p - PaidBy(A) ELSE 0)

LEMMA RescheduleExcess ==
  ASSUME IInv, NEW g, NEW A, NEW lo \in Slots, NEW hi \in Slots, NEW p, NEW price, NEW first,
         Rescheduled(g, A, lo, hi, p, price, first),
         NEW late \in SUBSET {b \in Ids : rows[b].status = "canceled"},
         NEW c \in Ids
  PROVE  ExcessMoves(A, lo, hi, p, price, first, late, c)
<1> DEFINE new == NewMembers(A, lo, hi)
           act == Active(A, lo, hi)
           q   == Allocated(p, price, lo, Target(A, lo, c))
           pay == p - PaidBy(A)
<1>1. /\ A = ActiveGroup(g) /\ A \cap new = {} /\ act \subseteq A \cup new /\ new \subseteq act
      /\ new = nextId..(nextId' - 1)
      /\ first \in act /\ first \in Ids
      /\ rows' \in [Ids -> Row] /\ received' \in [Ids -> Nat] /\ returned' \in [Ids -> Nat]
      /\ p \in Nat /\ PaidBy(A) \in Nat
  BY DEF Rescheduled, ActiveGroup
<1>2. /\ c \in act => /\ rows'[c].paid = q /\ rows'[c].status \in Live
                      /\ q \in Nat
      /\ c \in A \ act => rows'[c].status = "canceled" /\ rows'[c].paid = 0
      /\ c \notin A \cup new => rows'[c] = rows[c]
  <2>1. /\ c \in act => /\ rows'[c].paid = q /\ rows'[c].status \in Live
        /\ c \in A \ act => rows'[c].status = "canceled" /\ rows'[c].paid = 0
        /\ c \notin A \cup new => rows'[c] = rows[c]
    BY DEF Rescheduled
  <2>2. rows'[c].paid \in Nat
    BY <1>1 DEF Row
  <2> QED
    BY <2>1, <2>2
<1>3. received'[c] - returned'[c] = received[c] - returned[c] + (IF c = first THEN pay ELSE 0)
  <2>1. /\ received'[first] - returned'[first] = received[first] - returned[first] + pay
        /\ \A d \in Ids \ {first} : received'[d] = received[d] /\ returned'[d] = returned[d]
    BY DEF Rescheduled
  <2>2. received[c] \in Int /\ returned[c] \in Int
    BY DEF IInv, TypeOK, TablesTypeOK
  <2> HIDE DEF pay
  <2>3. CASE c = first
    BY <2>1, <2>3
  <2>4. CASE c # first
    BY <2>1, <2>2, <2>4
  <2> QED
    BY <2>3, <2>4
<1>4. received[c] \in Int /\ returned[c] \in Int /\ received'[c] \in Int /\ returned'[c] \in Int
      /\ rows[c].paid \in Nat /\ rows'[c].paid \in Nat /\ pay \in Int /\ c \in Int
  <2>1. rows[c] \in Row /\ rows'[c] \in Row /\ received \in [Ids -> Nat] /\ returned \in [Ids -> Nat]
    BY <1>1 DEF IInv, TypeOK, TablesTypeOK
  <2>2. received[c] \in Int /\ returned[c] \in Int /\ received'[c] \in Int /\ returned'[c] \in Int
    BY <1>1, <2>1
  <2>3. rows[c].paid \in Nat /\ rows'[c].paid \in Nat
    BY <2>1 DEF Row
  <2>4. pay \in Int /\ c \in Int
    BY <1>1 DEF Ids
  <2> QED
    BY <2>2, <2>3, <2>4
<1>5. /\ Excess(late)[c] = received[c] - returned[c] - Accounted(rows[c], c \in late)
      /\ Excess(late)'[c] = received'[c] - returned'[c] - Accounted(rows'[c], c \in late)
  BY DEF Excess
<1>6. Accounted(rows[c], c \in late) \in Int /\ Accounted(rows'[c], c \in late) \in Int
  <2>1. rows[c] \in Row /\ rows'[c] \in Row /\ (c \in late) \in BOOLEAN
    BY <1>1 DEF IInv, TypeOK, TablesTypeOK
  <2> QED
    BY <2>1, AccountedType
<1>7. c \in A => rows[c].status \in Live /\ c \notin late /\ Accounted(rows[c], c \in late) = rows[c].paid
  BY <1>1 DEF ActiveGroup, Accounted, Live
<1>8. c \in new => /\ rows[c].paid = 0 /\ received[c] = returned[c]
                   /\ Accounted(rows[c], c \in late) = 0
  <2>1. BookOK(c) /\ (c \in new => c >= nextId)
    BY <1>1, <1>4 DEF IInv, BooksOK, TypeOK, TablesTypeOK
  <2> QED
    BY <2>1 DEF BookOK, Accounted
<1>9. c \in act => Accounted(rows'[c], c \in late) = q /\ q \in Int
  BY <1>2 DEF Accounted, Live
<1>10. c \in A \ act => Accounted(rows'[c], c \in late) = 0
  BY <1>2, <1>7 DEF Accounted
<1> HIDE DEF ExcessMoves, new, act, q, pay
<1>11. CASE c \in A /\ c \in act
  <2>1. c \notin new
    BY <1>1, <1>11
  <2>2. CASE c = first
    BY <1>3, <1>4, <1>5, <1>6, <1>7, <1>9, <1>11, <2>1, <2>2 DEF ExcessMoves, new, act, q, pay
  <2>3. CASE c # first
    BY <1>3, <1>4, <1>5, <1>6, <1>7, <1>9, <1>11, <2>1, <2>3 DEF ExcessMoves, new, act, q, pay
  <2> QED
    BY <2>2, <2>3
<1>12. CASE c \in A /\ c \notin act
  <2>1. c \notin new /\ c # first
    BY <1>1, <1>12
  <2> QED
    BY <1>3, <1>4, <1>5, <1>6, <1>7, <1>10, <1>12, <2>1 DEF ExcessMoves, new, act, q, pay
<1>13. CASE c \in new
  <2>1. c \notin A /\ c \in act
    BY <1>1, <1>13
  <2>2. CASE c = first
    BY <1>3, <1>4, <1>5, <1>6, <1>8, <1>9, <1>13, <2>1, <2>2 DEF ExcessMoves, new, act, q, pay
  <2>3. CASE c # first
    <3>1. Excess(late)[c] = 0 /\ Excess(late)'[c] = -q /\ q \in Int
      BY <1>3, <1>4, <1>5, <1>8, <1>9, <1>13, <2>1, <2>3
    <3>2. Excess(late)[c] \in Int /\ Excess(late)'[c] \in Int /\ Excess(late)'[c] + q = 0
      BY <3>1
    <3>3. c \in Active(A, lo, hi) /\ q = Allocated(p, price, lo, Target(A, lo, c))
      BY <2>1 DEF act, q
    <3> QED
      BY <1>4, <2>1, <2>3, <3>1, <3>2, <3>3 DEF ExcessMoves
  <2> QED
    BY <2>2, <2>3
<1>14. CASE c \notin A /\ c \notin new
  <2>1. c # first /\ c \notin act /\ rows'[c] = rows[c]
    BY <1>1, <1>2, <1>14
  <2>2. Excess(late)'[c] = Excess(late)[c] /\ Excess(late)[c] \in Int
    BY <1>3, <1>4, <1>5, <1>6, <2>1
  <2>3. c \notin Active(A, lo, hi) /\ c \notin NewMembers(A, lo, hi)
    BY <1>14, <2>1 DEF act, new
  <2> QED
    BY <1>4, <1>14, <2>1, <2>2, <2>3 DEF ExcessMoves
<1> QED
  BY <1>11, <1>12, <1>13, <1>14

LEMMA RescheduleBalances ==
  ASSUME IInv, NEW g, NEW A, NEW lo \in Slots, NEW hi \in Slots, NEW p, NEW price, NEW first,
         Rescheduled(g, A, lo, hi, p, price, first)
  PROVE  Balanced'
<1> DEFINE new == NewMembers(A, lo, hi)
           act == Active(A, lo, hi)
<1>1. /\ g \in Ids /\ A = ActiveGroup(g) /\ A \subseteq Ids /\ new \subseteq Ids
      /\ A \cap new = {} /\ act \subseteq A \cup new /\ new \subseteq act
      /\ new = nextId..(nextId' - 1) /\ first \in act
      /\ p \in Nat /\ PaidBy(A) \in Nat
      /\ group' = [c \in Ids |-> IF c \in new THEN g ELSE group[c]]
  BY DEF Rescheduled, ActiveGroup
<1>2. PICK late \in SUBSET {b \in Ids : rows[b].status = "canceled"} :
        \A h \in Ids : SumFunctionOnSet(Excess(late), Members(h)) = 0
  BY DEF IInv, Balanced
<1>3. late \subseteq {b \in Ids : rows'[b].status = "canceled"}
  <2>1. ASSUME NEW b \in late
        PROVE  rows'[b].status = "canceled"
    <3>1. b \in Ids /\ rows[b].status = "canceled" /\ b \notin A
      BY <1>1, <1>2 DEF ActiveGroup, Live
    <3>2. b \notin new
      <4>1. BookOK(b) /\ b \in Int /\ nextId \in Int
        BY <3>1 DEF IInv, BooksOK, TypeOK, TablesTypeOK, Ids
      <4> QED
        BY <1>1, <3>1, <4>1 DEF BookOK
    <3>3. rows'[b] = rows[b]
      BY <3>1, <3>2 DEF Rescheduled
    <3> QED
      BY <3>1, <3>3
  <2> QED
    BY <1>2, <2>1
<1>4. \A c \in new : group[c] = 0
  <2> SUFFICES ASSUME NEW c \in new
               PROVE  group[c] = 0
    OBVIOUS
  <2>1. c \in Ids /\ BookOK(c) /\ c >= nextId
    BY <1>1 DEF IInv, BooksOK, TypeOK, TablesTypeOK
  <2> QED
    BY <2>1 DEF BookOK
<1>5. \A c \in A : group[c] = g /\ c \in Ids
  BY <1>1 DEF ActiveGroup
<1>6. \A h \in Ids : IsFiniteSet(Members(h)) /\ Members(h) \subseteq Ids /\ 0 \notin Ids
  <2>1. \A h \in Ids : Members(h) \subseteq Ids
    BY DEF Members
  <2>2. 0 \notin Ids
    BY DEF Ids
  <2> QED
    BY <2>1, <2>2, IdsAreFinite, FS_Subset
<1> HIDE DEF new, act
<1>7. ASSUME NEW h \in Ids, h # g
      PROVE  SumFunctionOnSet(Excess(late)', Members(h)') = 0
  <2>1. Members(h)' = Members(h)
    BY <1>1, <1>4, <1>6, <1>7 DEF Members
  <2>2. \A c \in Members(h) : c \notin A \cup new
    BY <1>4, <1>5, <1>6, <1>7 DEF Members
  <2>3. \A c \in Members(h) : Excess(late)[c] \in Int /\ Excess(late)[c] = Excess(late)'[c]
    <3> SUFFICES ASSUME NEW c \in Members(h)
                 PROVE  Excess(late)[c] \in Int /\ Excess(late)[c] = Excess(late)'[c]
      OBVIOUS
    <3>1. c \in Ids /\ c \notin A /\ c \notin act /\ c # first
      BY <1>1, <1>6, <2>2
    <3>2. /\ Excess(late)[c] \in Int /\ Excess(late)'[c] \in Int
          /\ Excess(late)'[c] + 0 = Excess(late)[c] + 0 + 0
      <4>1. ExcessMoves(A, lo, hi, p, price, first, late, c)
        BY <1>2, <3>1, RescheduleExcess
      <4> QED
        BY <3>1, <4>1 DEF ExcessMoves, act
    <3> QED
      BY <3>2
  <2>4. SumFunctionOnSet(Excess(late), Members(h)) = SumFunctionOnSet(Excess(late)', Members(h))
    <3>1. IsFiniteSet(Members(h))
      BY <1>6
    <3> QED
      BY <2>3, <3>1, SumAgree
  <2> QED
    BY <1>2, <2>1, <2>4
<1>8. SumFunctionOnSet(Excess(late)', Members(g)') = 0
  <2> DEFINE M    == Members(g) \cup new
             E    == Excess(late)
             E2   == Excess(late)'
             old  == [c \in Ids |-> IF c \in A THEN rows[c].paid ELSE 0]
             pay  == [c \in Ids |-> IF c = first THEN p - PaidBy(A) ELSE 0]
             part == [c \in Ids |-> IF c \in act THEN Allocated(p, price, lo, Target(A, lo, c)) ELSE 0]
             both == [c \in Ids |-> E[c] + old[c]]
             all  == [c \in Ids |-> E[c] + old[c] + pay[c]]
  <2>1. Members(g)' = M
    BY <1>1 DEF Members
  <2>2. /\ IsFiniteSet(M) /\ M \subseteq Ids /\ A \subseteq M /\ act \subseteq M /\ first \in M
        /\ Members(g) \subseteq M /\ IsFiniteSet(A) /\ IsFiniteSet(act) /\ act \subseteq Ids
    <3>1. M \subseteq Ids /\ A \subseteq M
      BY <1>1, <1>5, <1>6 DEF Members
    <3>2. act \subseteq M /\ first \in M
      BY <1>1, <3>1
    <3>3. IsFiniteSet(M) /\ IsFiniteSet(A) /\ IsFiniteSet(act)
      <4> HIDE DEF M
      <4>1. act \subseteq Ids
        BY <3>1, <3>2
      <4> QED
        BY <1>1, <3>1, <4>1, IdsAreFinite, FS_Subset
    <3> QED
      BY <3>1, <3>2, <3>3
  <2>3. ASSUME NEW c \in Ids
        PROVE  /\ E[c] \in Int /\ E2[c] \in Int /\ old[c] \in Int /\ pay[c] \in Int /\ part[c] \in Int
               /\ both[c] = E[c] + old[c] /\ both[c] \in Int
               /\ all[c] = both[c] + pay[c] /\ all[c] = E2[c] + part[c] /\ all[c] \in Int
               /\ c \in new => E[c] = 0
    <3>1. /\ Excess(late)[c] \in Int /\ Excess(late)'[c] \in Int /\ rows[c].paid \in Nat
          /\ c \in new => Excess(late)[c] = 0
          /\ Excess(late)'[c] + part[c] = Excess(late)[c] + old[c] + pay[c]
      <4>1. ExcessMoves(A, lo, hi, p, price, first, late, c)
        BY <1>2, RescheduleExcess
      <4> QED
        BY <4>1 DEF ExcessMoves, act, new
    <3>2. old[c] \in Int /\ pay[c] \in Int
      BY <1>1, <3>1
    <3>3. part[c] \in Int
      <4>1. CASE c \in act
        <5>1. /\ Target(A, lo, c) \in lo..hi /\ price \in [lo..hi -> Nat] /\ p \in Nat
              /\ lo \in Int /\ hi \in Int
          BY <4>1 DEF Rescheduled, act, Slots
        <5>2. Allocated(p, price, lo, Target(A, lo, c)) \in Nat
          BY <5>1, AllocatedValue
        <5> QED
          BY <4>1, <5>2
      <4>2. CASE c \notin act
        BY <4>2
      <4> QED
        BY <4>1, <4>2
    <3>4. both[c] = E[c] + old[c] /\ all[c] = E[c] + old[c] + pay[c]
      OBVIOUS
    <3> HIDE DEF E, E2, old, pay, part, both, all
    <3>5. E[c] = Excess(late)[c] /\ E2[c] = Excess(late)'[c]
      BY DEF E, E2
    <3> QED
      BY <3>1, <3>2, <3>3, <3>4, <3>5
  <2>4. SumFunctionOnSet(E, Members(g)) = 0
    BY <1>1, <1>2
  <2>5. SumFunctionOnSet(part, act) = p
    <3> DEFINE f == [s \in lo..hi |-> Allocated(p, price, lo, s)]
               h == [c \in act |-> Target(A, lo, c)]
    <3>1. /\ \A c \in act : h[c] \in lo..hi
          /\ \A c, d \in act : h[c] = h[d] => c = d
          /\ \A s \in lo..hi : \E c \in act : h[c] = s
      BY DEF Rescheduled, act
    <3>2. {h[c] : c \in act} = lo..hi
      <4> HIDE DEF h
      <4> QED
        BY <3>1
    <3>3. \A c \in act : f[h[c]] = part[c] /\ part[c] \in Int
      BY <2>2, <2>3, <3>1
    <3>4. SumFunctionOnSet(part, act) = SumFunctionOnSet(f, {h[c] : c \in act})
      <4> HIDE DEF f, h, part
      <4> QED
        BY <2>2, <3>1, <3>3, SumRename
    <3>5. SumFunctionOnSet(f, lo..hi) = p
      <4>1. /\ lo \in Int /\ hi \in Int /\ lo <= hi /\ price \in [lo..hi -> Nat] /\ p \in Nat
            /\ p <= SumFunctionOnSet(price, lo..hi)
        <5>1. Target(A, lo, first) \in lo..hi
          BY <1>1 DEF Rescheduled, act
        <5> QED
          BY <5>1 DEF Rescheduled, Slots
      <4> QED
        BY <4>1, AllocatedSum
    <3> QED
      BY <3>2, <3>4, <3>5
  <2>6. SumFunctionOnSet(old, A) = PaidBy(A)
    <3> DEFINE f == [c \in Ids |-> rows[c].paid]
    <3>1. \A c \in A : old[c] \in Int /\ old[c] = f[c]
      BY <1>5, <2>3
    <3>2. SumFunctionOnSet(old, A) = SumFunctionOnSet(f, A)
      <4> HIDE DEF f, old
      <4> QED
        BY <2>2, <3>1, SumAgree
    <3> QED
      BY <3>2 DEF PaidBy
  <2>7. /\ \A c \in M \ A : old[c] = 0
        /\ \A c \in M \ act : part[c] = 0
        /\ \A c \in M \ {first} : pay[c] = 0
        /\ pay[first] = p - PaidBy(A) /\ pay[first] \in Int
    BY <1>1, <2>2
  <2> HIDE DEF E, E2, old, pay, part, both, all
  <2>8. SumFunctionOnSet(E, M) = 0
    <3>1. \A c \in M \ Members(g) : E[c] = 0
      BY <2>2, <2>3
    <3>2. \A c \in M : E[c] \in Int
      BY <2>2, <2>3
    <3> HIDE DEF M
    <3>3. SumFunctionOnSet(E, M) = SumFunctionOnSet(E, Members(g))
      BY <2>2, <3>1, <3>2, SumSupport
    <3> QED
      BY <2>4, <3>3
  <2> HIDE DEF M
  <2>9. \A c \in M : c \in Ids
    BY <2>2
  <2>10. SumFunctionOnSet(old, M) = PaidBy(A)
    <3>1. \A c \in M : old[c] \in Int
      BY <2>3, <2>9
    <3>2. SumFunctionOnSet(old, M) = SumFunctionOnSet(old, A)
      BY <2>2, <2>7, <3>1, SumSupport
    <3> QED
      BY <2>6, <3>2
  <2>11. SumFunctionOnSet(part, M) = p
    <3>1. \A c \in M : part[c] \in Int
      BY <2>3, <2>9
    <3>2. SumFunctionOnSet(part, M) = SumFunctionOnSet(part, act)
      BY <2>2, <2>7, <3>1, SumSupport
    <3> QED
      BY <2>5, <3>2
  <2>12. SumFunctionOnSet(pay, M) = p - PaidBy(A)
    <3>1. \A c \in M : pay[c] \in Int
      BY <2>3, <2>9
    <3>2. SumFunctionOnSet(pay, M) = pay[first] + SumFunctionOnSet(pay, M \ {first})
      BY <2>2, <3>1, SumTakeOut
    <3>3. IsFiniteSet(M \ {first})
      BY <2>2, FS_Subset
    <3>4. SumFunctionOnSet(pay, M \ {first}) = 0
      BY <2>7, <3>3, SumZero
    <3> QED
      BY <1>1, <2>7, <3>2, <3>4
  <2>13. SumFunctionOnSet(both, M) = SumFunctionOnSet(E, M) + SumFunctionOnSet(old, M)
    <3>1. \A c \in M : E[c] \in Int /\ old[c] \in Int /\ both[c] = E[c] + old[c]
      BY <2>3, <2>9
    <3> QED
      BY <2>2, <3>1, SumAdd
  <2>14. SumFunctionOnSet(all, M) = SumFunctionOnSet(both, M) + SumFunctionOnSet(pay, M)
    <3>1. \A c \in M : both[c] \in Int /\ pay[c] \in Int /\ all[c] = both[c] + pay[c]
      BY <2>3, <2>9
    <3> QED
      BY <2>2, <3>1, SumAdd
  <2>15. SumFunctionOnSet(all, M) = SumFunctionOnSet(E2, M) + SumFunctionOnSet(part, M)
    <3>1. \A c \in M : E2[c] \in Int /\ part[c] \in Int /\ all[c] = E2[c] + part[c]
      BY <2>3, <2>9
    <3> QED
      BY <2>2, <3>1, SumAdd
  <2>16. SumFunctionOnSet(E2, M) \in Int
    <3>1. \A c \in M : E2[c] \in Int
      BY <2>3, <2>9
    <3> QED
      BY <2>2, <3>1, SumInt
  <2>17. SumFunctionOnSet(E2, M) = 0
    BY <1>1, <2>8, <2>10, <2>11, <2>12, <2>13, <2>14, <2>15, <2>16
  <2> QED
    BY <2>1, <2>17 DEF E2
<1> QED
  BY <1>3, <1>7, <1>8 DEF Balanced

LEMMA RescheduleIInv ==
  ASSUME IInv, NEW b \in Ids, NEW lo \in Slots, NEW hi \in Slots,
         NEW p \in 0..(MaxReceived * MaxId), UpdateBookingGroup(b, lo, hi, p)
  PROVE  IInv'
<1> DEFINE g == group[b]
           A == ActiveGroup(g)
<1>1. PICK price, first : Rescheduled(g, A, lo, hi, p, price, first)
  BY RescheduleDoes
<1> HIDE DEF g, A
<1>2. TypeOK'
  <2>1. /\ rows' \in [Ids -> Row] /\ received' \in [Ids -> Nat] /\ returned' \in [Ids -> Nat]
        /\ nextId' \in Nat \ {0} /\ UNCHANGED <<now, toConfirm>>
        /\ g \in Ids /\ group' = [c \in Ids |-> IF c \in NewMembers(A, lo, hi) THEN g ELSE group[c]]
    BY <1>1 DEF Rescheduled
  <2>2. group \in [Ids -> GroupIds] /\ Ids \subseteq GroupIds
    BY SizesAssumption DEF IInv, TypeOK, Ids, GroupIds
  <2>3. group' \in [Ids -> GroupIds]
    BY <2>1, <2>2
  <2> QED
    BY <2>1, <2>3 DEF IInv, TypeOK, TablesTypeOK
<1> QED
  BY <1>1, <1>2, RescheduleMeetsNobody, RescheduleKeepsBooks, RescheduleBalances DEF IInv

LEMMA NextIInv == IInv /\ [Next]_vars => IInv'
<1> SUFFICES ASSUME IInv, [Next]_vars
             PROVE  IInv'
  OBVIOUS
<1>1. CASE \/ \E s \in Slots : SweepSlot(s)
           \/ \E g \in Ids : ConfirmCreated(g)
           \/ ExpirePending \/ Tick \/ UNCHANGED vars
  BY <1>1, HouseIInv
<1>2. CASE \E lo, hi \in Slots : CreatePendingBookingRange(lo, hi)
  BY <1>2, CreateIInv
<1>3. CASE \E b \in Ids : \E amount \in 1..rows[b].due : ConfirmDeposit(b, amount)
  BY <1>3, ConfirmDepositIInv
<1>4. CASE \E b \in Ids : CancelBooking(b)
  BY <1>4, CancelBookingIInv
<1>5. CASE \E b \in Ids, s \in Slots, p \in 0..MaxReceived : UpdateBooking(b, s, p)
  BY <1>5, UpdateBookingIInv
<1>6. CASE \E b \in Ids : CheckIn(b)
  BY <1>6, CheckInIInv
<1>7. CASE \E b \in Ids, lo, hi \in Slots, p \in 0..(MaxReceived * MaxId) : UpdateBookingGroup(b, lo, hi, p)
  BY <1>7, RescheduleIInv
<1> QED
  BY <1>1, <1>2, <1>3, <1>4, <1>5, <1>6, <1>7 DEF Next

-----------------------------------------------------------------------------
(* What follows for every run of the specification.                        *)

\* The inductive invariant holds in every reachable state.
THEOREM InvariantHolds == Spec => []IInv
<1>1. Init => IInv
  BY InitIInv
<1>2. IInv /\ [Next]_vars => IInv'
  BY NextIInv
<1> QED
  BY <1>1, <1>2, PTL DEF Spec

\* Creations, payments and reschedules of UpdateBookingGroup keep every variable
\* in its type, whatever number of members is added or canceled.
THEOREM GroupsTypeOK == Spec => []TypeOK
<1>1. IInv => TypeOK
  BY DEF IInv
<1> QED
  BY <1>1, InvariantHolds, PTL

\* No order of reschedules, creations and moves ever puts two live bookings on
\* one slot, although a reschedule saves many rows and checks only the outsiders.
THEOREM GroupsNoDoubleBooking == Spec => []NoDoubleBooking
<1>1. IInv => NoDoubleBooking
  BY DEF IInv
<1> QED
  BY <1>1, InvariantHolds, PTL

\* After any spreading of the group's deposits, each live booking owes exactly its
\* price less its part.
THEOREM GroupsDueIsOutstanding == Spec => []DueIsOutstanding
<1>1. IInv => DueIsOutstanding
  <2> SUFFICES ASSUME IInv, NEW b \in Ids, rows[b].status \in Live
               PROVE  rows[b].due = IF rows[b].paid > rows[b].total THEN 0
                                    ELSE rows[b].total - rows[b].paid
    BY DEF DueIsOutstanding
  <2>1. rows[b].due = Outstanding(rows[b].total, rows[b].paid)
    BY DEF IInv, BooksOK, BookOK
  <2>2. rows[b].paid \in Nat /\ rows[b].total \in Nat
    BY PricesAssumption DEF IInv, TypeOK, TablesTypeOK, Row
  <2> QED
    BY <2>1, <2>2 DEF Outstanding
<1> QED
  BY <1>1, InvariantHolds, PTL

\* Balanced books are the ledger of the group.
LEMMA BalanceIsLedger == IInv => GroupLedger
<1> SUFFICES ASSUME IInv, NEW g \in Ids
             PROVE  LET members == {b \in Ids : group[b] = g}
                        gone    == {b \in members : rows[b].status = "canceled"}
                        net     == SumFunctionOnSet([b \in Ids |-> received[b] - returned[b]], members)
                        kept    == SumFunctionOnSet([b \in Ids |-> rows[b].paid], members \ gone)
                        half    == [b \in Ids |-> rows[b].paid - rows[b].paid \div 2]
                    IN  \E late \in SUBSET gone : net = kept + SumFunctionOnSet(half, late)
  BY DEF GroupLedger
<1> DEFINE M    == Members(g)
           gone == {b \in M : rows[b].status = "canceled"}
           net  == [b \in Ids |-> received[b] - returned[b]]
           paid == [b \in Ids |-> rows[b].paid]
           half == [b \in Ids |-> rows[b].paid - rows[b].paid \div 2]
<1>1. PICK all \in SUBSET {b \in Ids : rows[b].status = "canceled"} :
        \A h \in Ids : SumFunctionOnSet(Excess(all), Members(h)) = 0
  BY DEF IInv, Balanced
<1> DEFINE late == all \cap M
           keptOf == [b \in Ids |-> IF b \in gone THEN 0 ELSE rows[b].paid]
           halfOf == [b \in Ids |-> IF b \in late THEN rows[b].paid - rows[b].paid \div 2 ELSE 0]
           acc    == [b \in Ids |-> Accounted(rows[b], b \in all)]
           E      == Excess(all)
<1>2. /\ M \subseteq Ids /\ late \subseteq gone /\ gone \subseteq M
      /\ IsFiniteSet(M) /\ IsFiniteSet(M \ gone) /\ IsFiniteSet(late)
  <2>1. M \subseteq Ids
    BY DEF Members
  <2>2. late \subseteq gone /\ gone \subseteq M
    BY <1>1
  <2> HIDE DEF M, gone, late
  <2>3. M \ gone \subseteq Ids /\ late \subseteq Ids
    BY <2>1, <2>2
  <2> QED
    BY <2>1, <2>2, <2>3, IdsAreFinite, FS_Subset
<1>3. ASSUME NEW b \in M
      PROVE  /\ net[b] \in Int /\ paid[b] \in Int /\ half[b] \in Int
             /\ keptOf[b] \in Int /\ halfOf[b] \in Int /\ acc[b] \in Int /\ E[b] \in Int
             /\ acc[b] = keptOf[b] + halfOf[b]
             /\ net[b] = E[b] + acc[b]
             /\ b \notin gone => keptOf[b] = paid[b]
             /\ b \in gone => keptOf[b] = 0
             /\ b \in late => halfOf[b] = half[b]
             /\ b \notin late => halfOf[b] = 0
  <2>1. b \in Ids /\ received[b] \in Int /\ returned[b] \in Int /\ rows[b] \in Row
    BY <1>2 DEF IInv, TypeOK, TablesTypeOK
  <2>2. rows[b].paid \in Int /\ rows[b].paid \div 2 \in Int
    BY <2>1 DEF Row
  <2>3. acc[b] = Accounted(rows[b], b \in all) /\ E[b] = received[b] - returned[b] - acc[b]
    BY <2>1 DEF Excess
  <2>4. net[b] = received[b] - returned[b] /\ paid[b] = rows[b].paid
        /\ half[b] = rows[b].paid - rows[b].paid \div 2
        /\ keptOf[b] = (IF b \in gone THEN 0 ELSE rows[b].paid)
        /\ halfOf[b] = (IF b \in late THEN rows[b].paid - rows[b].paid \div 2 ELSE 0)
    BY <2>1
  <2>5. acc[b] = keptOf[b] + halfOf[b]
    <3>1. CASE b \in late
      <4>1. b \in gone /\ rows[b].status = "canceled" /\ b \in all
        BY <1>1, <3>1
      <4> QED
        BY <2>2, <2>3, <2>4, <3>1, <4>1 DEF Accounted
    <3>2. CASE b \in gone /\ b \notin late
      <4>1. rows[b].status = "canceled" /\ b \notin all
        BY <3>2
      <4> QED
        BY <2>2, <2>3, <2>4, <3>2, <4>1 DEF Accounted
    <3>3. CASE b \notin gone
      <4>1. rows[b].status # "canceled" /\ b \notin late
        BY <1>1, <3>3
      <4> QED
        BY <2>2, <2>3, <2>4, <3>3, <4>1 DEF Accounted
    <3> QED
      BY <3>1, <3>2, <3>3
  <2>6. net[b] \in Int /\ paid[b] \in Int /\ half[b] \in Int /\ keptOf[b] \in Int /\ halfOf[b] \in Int
    BY <2>1, <2>2, <2>4
  <2> HIDE DEF net, paid, half, keptOf, halfOf, acc, E, late, gone, M
  <2>7. acc[b] \in Int /\ E[b] \in Int /\ net[b] = E[b] + acc[b]
    BY <2>1, <2>3, <2>4, <2>5, <2>6
  <2> QED
    BY <2>4, <2>5, <2>6, <2>7
<1>4. SumFunctionOnSet(E, M) = 0
  BY <1>1
<1> HIDE DEF net, paid, half, keptOf, halfOf, acc, E, late, gone, M
<1>5. SumFunctionOnSet(net, M) = SumFunctionOnSet(E, M) + SumFunctionOnSet(acc, M)
  BY <1>2, <1>3, SumAdd
<1>6. SumFunctionOnSet(acc, M) = SumFunctionOnSet(keptOf, M) + SumFunctionOnSet(halfOf, M)
  BY <1>2, <1>3, SumAdd
<1>7. SumFunctionOnSet(keptOf, M) = SumFunctionOnSet(paid, M \ gone)
  <2>1. \A b \in M : keptOf[b] \in Int
    BY <1>3
  <2>2. \A b \in M \ (M \ gone) : keptOf[b] = 0
    BY <1>3
  <2>3. SumFunctionOnSet(keptOf, M) = SumFunctionOnSet(keptOf, M \ gone)
    BY <1>2, <2>1, <2>2, SumSupport
  <2>4. \A b \in M \ gone : keptOf[b] \in Int /\ keptOf[b] = paid[b]
    BY <1>3
  <2>5. SumFunctionOnSet(keptOf, M \ gone) = SumFunctionOnSet(paid, M \ gone)
    BY <1>2, <2>4, SumAgree
  <2> QED
    BY <2>3, <2>5
<1>8. SumFunctionOnSet(halfOf, M) = SumFunctionOnSet(half, late)
  <2>1. \A b \in M : halfOf[b] \in Int
    BY <1>3
  <2>2. late \in SUBSET M /\ \A b \in M \ late : halfOf[b] = 0
    BY <1>2, <1>3
  <2>3. SumFunctionOnSet(halfOf, M) = SumFunctionOnSet(halfOf, late)
    BY <1>2, <2>1, <2>2, SumSupport
  <2>4. \A b \in late : halfOf[b] \in Int /\ halfOf[b] = half[b]
    BY <1>3, <2>2
  <2>5. SumFunctionOnSet(halfOf, late) = SumFunctionOnSet(half, late)
    BY <1>2, <2>4, SumAgree
  <2> QED
    BY <2>3, <2>5
<1>9. SumFunctionOnSet(net, M) = SumFunctionOnSet(paid, M \ gone) + SumFunctionOnSet(half, late)
  <2>1. SumFunctionOnSet(acc, M) \in Int
    BY <1>2, <1>3, SumInt
  <2> QED
    BY <1>4, <1>5, <1>6, <1>7, <1>8, <2>1
<1>10. late \in SUBSET gone
  BY <1>2
<1> QED
  BY <1>9, <1>10 DEF net, paid, half, gone, M, Members

\* The ledger of a group is exact whatever becomes of its bookings: what came in
\* less what went out is what its live bookings have as deposits and what late
\* cancellations forfeited, through any number of reschedules, although each
\* posts to one booking and spreads over all.
THEOREM GroupsLedgerExact == Spec => []GroupLedger
<1>1. IInv => GroupLedger
  BY BalanceIsLedger
<1> QED
  BY <1>1, InvariantHolds, PTL

-----------------------------------------------------------------------------
(* Which reschedules can be saved.  Not all that pass the validation can   *)
(* (ValidMovesSucceed): members are saved one by one, and a slot that a    *)
(* later one of them still has is refused.                                 *)

\* No hold that has run out is left where the group is to go.
Swept(A, lo, hi) == \A o \in Ids \ A : rows[o].slot \in lo..hi => ~Lapsed(rows[o])

\* The group goes to earlier slots, or to slots of which it has none.
Forward(A, lo)       == \A c \in A : lo <= rows[c].slot
Elsewhere(A, lo, hi) == \A c \in A : rows[c].slot \notin lo..hi

\* Counted from slot lo, a member is at least as far on as its position says.
LEMMA PositionsAreReached ==
  ASSUME rows \in [Ids -> Row], NEW A \in SUBSET Ids, Apart(A), NEW lo \in Slots,
         Forward(A, lo), NEW b \in A
  PROVE  Target(A, lo, b) <= rows[b].slot
<1> DEFINE s    == rows[b].slot
           upto == {c \in A : rows[c].slot <= s}
           at   == [c \in upto |-> rows[c].slot]
<1>1. lo \in Int /\ s \in Int /\ lo <= s /\ \A c \in A : rows[c].slot \in Int
  BY DEF Row, Slots, Forward
<1>2. IsFiniteSet(lo..s) /\ Cardinality(lo..s) = s - lo + 1
  BY <1>1, IntervalSize
<1>3. at \in Injection(upto, lo..s)
  BY <1>1 DEF Injection, IsInjective, Apart, Forward
<1>4. Cardinality(upto) <= Cardinality(lo..s) /\ IsFiniteSet(upto)
  <2> HIDE DEF upto, at, s
  <2> QED
    BY <1>2, <1>3, FS_Injection
<1>5. Cardinality(upto) \in Int
  <2> HIDE DEF upto
  <2> QED
    BY <1>4, FS_CardinalityType
<1>6. Target(A, lo, b) = lo + Cardinality(upto) - 1
  BY DEF Target, Rank
<1> QED
  BY <1>1, <1>2, <1>4, <1>5, <1>6

\* Once the holds that have run out are swept, a reschedule that UpdateBookingGroup
\* lets through can be saved if it moves the group to earlier slots or to slots of
\* which it has none: only a group that is moved later into its own slots is refused.
THEOREM EarlierMovesSucceed ==
  Spec => [](\A b \in Ids, lo, hi \in Slots :
               LET A == ActiveGroup(group[b])
               IN  /\ Reschedulable(b, lo, hi) /\ Swept(A, lo, hi)
                   /\ Forward(A, lo) \/ Elsewhere(A, lo, hi)
                   => ~SavesCollide(A, lo, hi))
<1> DEFINE Saved(b, lo, hi) ==
             LET A == ActiveGroup(group[b])
             IN  /\ Reschedulable(b, lo, hi) /\ Swept(A, lo, hi)
                 /\ Forward(A, lo) \/ Elsewhere(A, lo, hi)
                 => ~SavesCollide(A, lo, hi)
           Goal == \A b \in Ids, lo, hi \in Slots : Saved(b, lo, hi)
<1>1. ASSUME IInv, NEW b \in Ids, NEW lo \in Slots, NEW hi \in Slots, NEW A, A = ActiveGroup(group[b]),
             Reschedulable(b, lo, hi), Swept(A, lo, hi), Forward(A, lo) \/ Elsewhere(A, lo, hi),
             SavesCollide(A, lo, hi)
      PROVE  FALSE
  <2>1. PICK s \in lo..hi, o \in Ids : /\ rows[o].slot = s /\ rows[o].status \in Indexed
                                       /\ o \in A => Target(A, lo, o) > s
    BY <1>1 DEF SavesCollide
  <2>2. rows \in [Ids -> Row] /\ A \in SUBSET Ids /\ Apart(A)
    BY <1>1 DEF IInv, TypeOK, TablesTypeOK, ActiveGroup, NoDoubleBooking, Apart
  <2>3. CASE o \notin A
    <3>1. ~FindActiveOutside(A, s)
      BY <1>1, <2>1 DEF Reschedulable
    <3>2. ~Lapsed(rows[o])
      BY <1>1, <2>1, <2>3 DEF Swept
    <3> QED
      BY <2>1, <2>3, <3>1, <3>2 DEF FindActiveOutside, Indexed, Live
  <2>4. CASE o \in A
    <3>1. Forward(A, lo)
      BY <1>1, <2>1, <2>4 DEF Elsewhere
    <3>2. Target(A, lo, o) <= s
      BY <1>1, <2>1, <2>2, <2>4, <3>1, PositionsAreReached
    <3>3. Target(A, lo, o) \in Int /\ s \in Int
      <4>1. Rank(A, o) \in Int
        BY <2>2, <2>4, RanksArePositions
      <4> QED
        BY <2>4, <4>1 DEF Target, Slots
    <3> QED
      BY <2>1, <2>4, <3>2, <3>3
  <2> QED
    BY <2>3, <2>4
<1>2. IInv => Goal
  BY <1>1
<1> QED
  BY <1>2, InvariantHolds, PTL

-----------------------------------------------------------------------------
(***************************************************************************)
(* BookingGroups implements SlotCalendar with groups as the parties.  That *)
(* two bookings never meet makes the holder of a slot one group, so a slot *)
(* whose booking ends is free, and a slot a group moves to is its own.     *)
(***************************************************************************)

Keeps(b, s) == rows[b].slot = s /\ rows[b].status \in Live

\* The refinement mapping.
Holders == [s \in Slots |-> {group[b] : b \in {c \in Ids : Keeps(c, s)}}]

LEMMA HoldersMap ==
  Holders = [s \in Slots |->
               {group[b] : b \in {c \in Ids : rows[c].slot = s /\ rows[c].status \in Live}}]
BY DEF Holders, Keeps

\* A slot has at most one holder.
LEMMA OneHolder ==
  ASSUME IInv, NEW s \in Slots, NEW b \in Ids, Keeps(b, s)
  PROVE  Holders[s] = {group[b]}
<1>1. {c \in Ids : Keeps(c, s)} = {b}
  BY DEF IInv, NoDoubleBooking, Keeps, Live
<1> QED
  BY <1>1 DEF Holders

LEMMA NoHolder ==
  ASSUME NEW s \in Slots, \A b \in Ids : ~Keeps(b, s)
  PROVE  Holders[s] = {}
BY DEF Holders

LEMMA HoldersAreGroups == IInv => Holders \in [Slots -> SUBSET Ids]
<1> SUFFICES ASSUME IInv, NEW b \in Ids, rows[b].status \in Live
             PROVE  group[b] \in Ids
  BY DEF Holders, Keeps
<1>1. BookOK(b) /\ b \in Int /\ nextId \in Nat /\ group[b] \in 0..MaxId
  BY DEF IInv, BooksOK, TypeOK, TablesTypeOK, Ids, GroupIds
<1> QED
  BY <1>1, SizesAssumption DEF BookOK, Ids, Live

\* The same three facts of the state that a step leads to.
LEMMA LaterHolders ==
  ASSUME IInv'
  PROVE  /\ Holders' \in [Slots -> SUBSET Ids]
         /\ \A s \in Slots : \A b \in Ids : Keeps(b, s)' => Holders'[s] = {group'[b]}
         /\ \A s \in Slots : (\A b \in Ids : ~Keeps(b, s)') => Holders'[s] = {}
<1>1. Holders' \in [Slots -> SUBSET Ids]
  <2>1. IInv' => (Holders \in [Slots -> SUBSET Ids])'
    BY HoldersAreGroups, PTL
  <2> QED
    BY <2>1
<1>2. ASSUME NEW s \in Slots, NEW b \in Ids, Keeps(b, s)'
      PROVE  Holders'[s] = {group'[b]}
  <2>1. {c \in Ids : Keeps(c, s)'} = {b}
    BY <1>2 DEF IInv, NoDoubleBooking, Keeps, Live
  <2> QED
    BY <2>1 DEF Holders
<1>3. ASSUME NEW s \in Slots, \A b \in Ids : ~Keeps(b, s)'
      PROVE  Holders'[s] = {}
  BY <1>3 DEF Holders
<1> QED
  BY <1>1, <1>2, <1>3

\* Bookings that stay where they are or end give their slots back.
LEMMA EndingGivesBack ==
  ASSUME IInv, IInv', UNCHANGED group,
         \A b \in Ids : /\ rows'[b].slot = rows[b].slot
                        /\ rows'[b].status \in Live => rows[b].status \in Live
  PROVE  Calendar!GiveBack
<1>1. ASSUME NEW s \in Slots
      PROVE  Holders'[s] \in {Holders[s], {}}
  <2>1. CASE \E b \in Ids : Keeps(b, s)'
    <3>1. PICK b \in Ids : Keeps(b, s)'
      BY <2>1
    <3>2. Keeps(b, s)
      BY <3>1 DEF Keeps, Live
    <3>3. Holders[s] = {group[b]}
      BY <3>2, OneHolder
    <3>4. Holders'[s] = {group'[b]}
      BY <3>1, LaterHolders
    <3> QED
      BY <3>3, <3>4
  <2>2. CASE \A b \in Ids : ~Keeps(b, s)'
    BY <2>2, LaterHolders
  <2> QED
    BY <2>1, <2>2
<1>2. Holders' \in [Slots -> SUBSET Ids]
  BY LaterHolders
<1> QED
  BY <1>1, <1>2, HoldersMap DEF Calendar!GiveBack, Holders, Keeps

\* Bookings of one group take slots which were free or the group's own.
MovesWithin(g) ==
  /\ \A c \in Ids, s \in Slots : Keeps(c, s)' =>
       \/ Keeps(c, s) /\ group'[c] = group[c]
       \/ group'[c] = g /\ \A o \in Ids : Keeps(o, s) => group[o] = g
  /\ \A c \in Ids : rows[c].status \in Live /\ group[c] # g => rows'[c] = rows[c]

LEMMA MovingReschedules ==
  ASSUME IInv, IInv', NEW g \in Ids, MovesWithin(g)
  PROVE  Calendar!Reschedule(g)
<1>1. ASSUME NEW s \in Slots
      PROVE  \/ Holders'[s] = Holders[s] \ {g}
             \/ Holders[s] \subseteq {g} /\ Holders'[s] = {g}
  <2>1. CASE \E c \in Ids : Keeps(c, s)'
    <3>1. PICK c \in Ids : Keeps(c, s)'
      BY <2>1
    <3>2. Holders'[s] = {group'[c]}
      BY <3>1, LaterHolders
    <3>3. CASE Keeps(c, s) /\ group'[c] = group[c]
      BY <3>2, <3>3, OneHolder
    <3>4. CASE group'[c] = g /\ \A o \in Ids : Keeps(o, s) => group[o] = g
      BY <3>2, <3>4 DEF Holders
    <3> QED
      BY <3>1, <3>3, <3>4 DEF MovesWithin
  <2>2. CASE \A c \in Ids : ~Keeps(c, s)'
    <3>1. Holders'[s] = {}
      BY <2>2, LaterHolders
    <3>2. \A c \in Ids : Keeps(c, s) => group[c] = g
      BY <2>2 DEF MovesWithin, Keeps, Live
    <3> QED
      BY <3>1, <3>2 DEF Holders
  <2> QED
    BY <2>1, <2>2
<1>2. Holders' \in [Slots -> SUBSET Ids]
  BY LaterHolders
<1> QED
  BY <1>1, <1>2, HoldersMap DEF Calendar!Reschedule, Holders, Keeps

LEMMA InsertionGrants ==
  ASSUME IInv, IInv', NEW lo \in Slots, NEW hi \in Slots, CreatePendingBookingRange(lo, hi)
  PROVE  Calendar!Grant
<1>1. PICK new \in SUBSET Ids :
        /\ InsertTx(new, lo..hi)
        /\ group' = [b \in Ids |-> IF b \in new THEN nextId ELSE group[b]]
  BY DEF CreatePendingBookingRange
<1>2. Inserts(lo..hi, new)
  <2>1. lo..hi \in SUBSET Slots
    BY SizesAssumption DEF Slots
  <2> QED
    BY <1>1, <2>1, InsertedRows DEF IInv, TypeOK
<1>3. ASSUME NEW b \in new
      PROVE  rows[b].status = "none" /\ rows'[b].status \in Live
  <2>1. b \in Ids /\ b >= nextId
    BY <1>2 DEF Inserts, IInv, TypeOK, TablesTypeOK
  <2> QED
    BY <1>2, <2>1 DEF IInv, BooksOK, BookOK, Inserts, Live
<1>4. ASSUME NEW s \in Slots
      PROVE  \/ Holders'[s] = Holders[s]
             \/ Holders[s] = {} /\ \E g \in Ids : Holders'[s] = {g}
  <2>1. CASE \E b \in new : rows'[b].slot = s
    <3>1. PICK b \in new : rows'[b].slot = s
      BY <2>1
    <3>2. Holders[s] = {}
      BY <1>2, <3>1, NoHolder DEF Inserts, Keeps
    <3>3. b \in Ids /\ Keeps(b, s)'
      BY <1>3, <3>1 DEF Keeps, Live
    <3>4. Holders'[s] = {group'[b]} /\ Holders'[s] \in SUBSET Ids
      <4>1. Holders'[s] = {group'[b]}
        BY <3>3, LaterHolders
      <4>2. Holders' \in [Slots -> SUBSET Ids]
        BY LaterHolders
      <4> QED
        BY <4>1, <4>2
    <3> QED
      BY <3>2, <3>4
  <2>2. CASE ~\E b \in new : rows'[b].slot = s
    <3>1. ASSUME NEW b \in Ids
          PROVE  (Keeps(b, s)' <=> Keeps(b, s)) /\ (Keeps(b, s) => group'[b] = group[b])
      <4>1. CASE b \in new
        BY <1>3, <2>2, <4>1 DEF Keeps, Live
      <4>2. CASE b \notin new
        BY <1>1, <1>2, <4>2 DEF Inserts, Keeps, Live
      <4> QED
        BY <4>1, <4>2
    <3>2. CASE \E b \in Ids : Keeps(b, s)
      <4>1. PICK b \in Ids : Keeps(b, s)
        BY <3>2
      <4>2. Holders[s] = {group[b]}
        BY <4>1, OneHolder
      <4>3. Holders'[s] = {group'[b]}
        BY <3>1, <4>1, LaterHolders
      <4> QED
        BY <3>1, <4>1, <4>2, <4>3
    <3>3. CASE \A b \in Ids : ~Keeps(b, s)
      BY <3>1, <3>3, NoHolder, LaterHolders
    <3> QED
      BY <3>2, <3>3
  <2> QED
    BY <2>1, <2>2
<1>5. Holders' \in [Slots -> SUBSET Ids]
  BY LaterHolders
<1> QED
  BY <1>4, <1>5, HoldersMap DEF Calendar!Grant, Holders, Keeps

LEMMA StepRefines ==
  ASSUME IInv, [Next]_vars
  PROVE  Calendar!Next
<1>0. IInv'
  BY NextIInv
<1>1. ASSUME \A b \in Ids : rows'[b] \in {rows[b], Expire(rows[b]), ConfirmedRow(rows[b])},
             UNCHANGED group
      PROVE  Calendar!GiveBack
  <2>1. ASSUME NEW b \in Ids
        PROVE  rows'[b].slot = rows[b].slot /\ (rows'[b].status \in Live => rows[b].status \in Live)
    <3>1. rows[b] \in Row
      BY DEF IInv, TypeOK, TablesTypeOK
    <3> QED
      BY <1>1, <3>1, StatusOnly
  <2> QED
    BY <1>0, <1>1, <2>1, EndingGivesBack
<1>2. ASSUME NEW b \in Ids, NEW n \in Row, rows' = [rows EXCEPT ![b] = n], UNCHANGED group,
             n.slot = rows[b].slot, rows[b].status \in Live
      PROVE  Calendar!GiveBack
  <2>1. \A c \in Ids : rows'[c] = IF c = b THEN n ELSE rows[c]
    BY <1>2 DEF IInv, TypeOK, TablesTypeOK
  <2>2. \A c \in Ids : /\ rows'[c].slot = rows[c].slot
                       /\ rows'[c].status \in Live => rows[c].status \in Live
    BY <1>2, <2>1
  <2> QED
    BY <1>0, <1>2, <2>2, EndingGivesBack
<1>3. ASSUME \/ \E s \in Slots : SweepSlot(s)
             \/ \E g \in Ids : ConfirmCreated(g)
             \/ ExpirePending \/ Tick \/ UNCHANGED vars
      PROVE  Calendar!GiveBack
  <2>1. /\ \A b \in Ids : rows'[b] \in {rows[b], Expire(rows[b]), ConfirmedRow(rows[b])}
        /\ UNCHANGED group
    BY <1>3 DEF SweepSlot, ConfirmCreated, ConfirmTx, ExpirePending, ExpireTx, Tick, vars,
                ExpirePendingByTimeSlot
  <2> QED
    BY <1>1, <2>1
<1>4. ASSUME NEW b \in Ids, NEW amount \in 1..rows[b].due, ConfirmDeposit(b, amount)
      PROVE  Calendar!GiveBack
  <2>1. rows[b] \in Row /\ amount \in Nat
    BY DEF IInv, TypeOK, TablesTypeOK, Row
  <2>2. /\ rows[b].status \in Live /\ rows' = [rows EXCEPT ![b] = DepositedRow(rows[b], amount)]
        /\ UNCHANGED group
    BY <1>4 DEF ConfirmDeposit, DepositTx
  <2> QED
    BY <1>2, <2>1, <2>2, DepositedRowType
<1>5. ASSUME NEW b \in Ids, CancelBooking(b)
      PROVE  Calendar!GiveBack
  <2>1. rows[b] \in Row
    BY DEF IInv, TypeOK, TablesTypeOK
  <2>2. /\ rows[b].status \in Live /\ rows' = [rows EXCEPT ![b] = CanceledRow(rows[b])]
        /\ UNCHANGED group
    BY <1>5 DEF CancelBooking, CancelTx
  <2> QED
    BY <1>2, <2>1, <2>2, CanceledRowType
<1>6. ASSUME NEW b \in Ids, CheckIn(b)
      PROVE  Calendar!GiveBack
  <2>1. rows[b] \in Row
    BY DEF IInv, TypeOK, TablesTypeOK
  <2>2. /\ rows[b].status \in Live /\ rows' = [rows EXCEPT ![b] = CheckedInRow(rows[b])]
        /\ UNCHANGED group
    BY <1>6 DEF CheckIn, Arrives, Live
  <2> QED
    BY <1>2, <2>1, <2>2, CheckedInRowType
<1>9. ASSUME NEW b \in Ids, rows[b].status \in Live
      PROVE  group[b] \in Ids
  <2>1. rows[b].slot \in Slots /\ Keeps(b, rows[b].slot)
    BY <1>9 DEF IInv, TypeOK, TablesTypeOK, Row, Keeps
  <2> QED
    BY <2>1, OneHolder, HoldersAreGroups
<1>7. ASSUME NEW b \in Ids, NEW s \in Slots, NEW p \in 0..MaxReceived, UpdateBooking(b, s, p)
      PROVE  \E g \in Ids : Calendar!Reschedule(g)
  <2>1. rows[b] \in Row /\ rows[b].total \in Prices /\ p \in Nat
    BY SizesAssumption DEF IInv, TypeOK, TablesTypeOK, Row
  <2>2. PICK total \in (IF s # rows[b].slot THEN Prices ELSE {rows[b].total}) :
          rows' = [rows EXCEPT ![b] = UpdatedRow(rows[b], s, total, p)]
    BY <1>7 DEF UpdateBooking, UpdateTx
  <2> DEFINE n == UpdatedRow(rows[b], s, total, p)
  <2>3. rows[b].status \in Live /\ (s # rows[b].slot => ~IndexRejects(s, b)) /\ group' = group
    BY <1>7 DEF UpdateBooking, UpdateTx
  <2>4. total \in Prices
    BY <2>1, <2>2
  <2>5. n.slot = s
    BY <2>1, <2>4, UpdatedRowType
  <2>6. \A c \in Ids : rows'[c] = IF c = b THEN n ELSE rows[c]
    BY <2>2 DEF IInv, TypeOK, TablesTypeOK
  <2> HIDE DEF n
  <2>7. PICK g \in Ids : g = group[b]
    BY <1>9, <2>3
  <2>8. \A o \in Ids : Keeps(o, s) => group[o] = g
    BY <2>3, <2>7 DEF IInv, NoDoubleBooking, Keeps, IndexRejects, Indexed, Live
  <2>9. \A c \in Ids, t \in Slots : Keeps(c, t)' =>
          \/ Keeps(c, t) /\ group'[c] = group[c]
          \/ group'[c] = g /\ \A o \in Ids : Keeps(o, t) => group[o] = g
    BY <2>3, <2>5, <2>6, <2>7, <2>8 DEF Keeps, Live
  <2>10. \A c \in Ids : rows[c].status \in Live /\ group[c] # g => rows'[c] = rows[c]
    BY <2>6, <2>7
  <2>11. MovesWithin(g)
    BY <2>9, <2>10 DEF MovesWithin
  <2> QED
    BY <1>0, <2>7, <2>11, MovingReschedules
<1>8. ASSUME NEW b \in Ids, NEW lo \in Slots, NEW hi \in Slots,
             NEW p \in 0..(MaxReceived * MaxId), UpdateBookingGroup(b, lo, hi, p)
      PROVE  \E g \in Ids : Calendar!Reschedule(g)
  <2>1. PICK g \in Ids : g = group[b]
    BY <1>8, <1>9 DEF UpdateBookingGroup, Reschedulable, Live
  <2>2. PICK A \in SUBSET Ids : A = ActiveGroup(g)
    BY DEF ActiveGroup
  <2>3. PICK price, first : Rescheduled(g, A, lo, hi, p, price, first)
    BY <1>8, <2>1, <2>2, RescheduleDoes
  <2> DEFINE new == NewMembers(A, lo, hi)
             act == Active(A, lo, hi)
  <2>4. /\ g \in Ids /\ act \subseteq A \cup new
        /\ A = ActiveGroup(g)
        /\ group' = [c \in Ids |-> IF c \in new THEN g ELSE group[c]]
        /\ new \subseteq Ids /\ new \subseteq act /\ new = nextId..(nextId' - 1)
        /\ \A c \in A \ act : rows'[c].status = "canceled"
    BY <2>3 DEF Rescheduled
  <2>5. \A c \in Ids \ (A \cup new) : rows'[c] = rows[c]
    BY <2>3 DEF Rescheduled
  <2>6. \A s \in lo..hi, o \in Ids : rows[o].slot = s /\ rows[o].status \in Live => o \in A
    BY <2>3 DEF Rescheduled
  <2>7. \A c \in act : rows'[c].slot \in lo..hi
    <3>1. \A c \in act : Target(A, lo, c) \in lo..hi /\ rows'[c].slot = Target(A, lo, c)
      BY <2>3 DEF Rescheduled
    <3> QED
      BY <3>1
  <2> HIDE DEF new, act
  <2>8. /\ \A c \in A : c \in Ids /\ group[c] = g
        /\ \A c \in Ids : rows[c].status \in Live /\ group[c] = g => c \in A
    BY <2>2 DEF ActiveGroup
  <2>9. /\ \A c \in new : group'[c] = g
        /\ \A c \in Ids : c \notin new => group'[c] = group[c]
    BY <2>4
  <2>10. ASSUME NEW c \in new
        PROVE  rows[c].status \notin Live
    <3>1. BookOK(c) /\ c \in Int /\ nextId \in Nat
      BY <2>8, <2>4, <2>7, <2>9 DEF IInv, BooksOK, TypeOK, TablesTypeOK, Ids
    <3> QED
      BY <2>8, <2>4, <2>7, <2>9, <3>1 DEF BookOK, Live
  <2>11. ASSUME NEW c \in Ids, c \notin A, c \notin new
         PROVE  rows'[c] = rows[c] /\ group'[c] = group[c]
    <3>1. c \in Ids \ (A \cup new)
      BY <2>11
    <3>2. rows'[c] = rows[c]
      BY <2>5, <3>1
    <3>3. group'[c] = group[c]
      BY <2>9, <2>11
    <3> QED
      BY <3>2, <3>3
  <2>12. ASSUME NEW c \in Ids, NEW s \in Slots, Keeps(c, s)'
        PROVE  \/ Keeps(c, s) /\ group'[c] = group[c]
               \/ group'[c] = g /\ \A o \in Ids : Keeps(o, s) => group[o] = g
    <3>1. CASE c \in act
      <4>1. s \in lo..hi
        BY <2>7, <2>12, <3>1 DEF Keeps
      <4>2. group'[c] = g
        <5>1. c \in A \/ c \in new
          BY <2>4, <3>1
        <5> QED
          BY <2>8, <2>9, <5>1
      <4>3. \A o \in Ids : Keeps(o, s) => o \in A
        BY <2>6, <4>1 DEF Keeps
      <4> QED
        BY <2>8, <4>2, <4>3
    <3>2. CASE c \notin act
      <4>1. c \notin A /\ c \notin new
        <5>1. rows'[c].status # "canceled"
          BY <2>12 DEF Keeps, Live
        <5> QED
          BY <2>4, <3>2, <5>1
      <4>2. rows'[c] = rows[c] /\ group'[c] = group[c]
        BY <2>11, <4>1
      <4> QED
        BY <2>12, <4>2 DEF Keeps, Live
    <3> QED
      BY <3>1, <3>2
  <2>13. \A c \in Ids : rows[c].status \in Live /\ group[c] # g => rows'[c] = rows[c]
    BY <2>8, <2>10, <2>11
  <2>14. Calendar!Reschedule(g)
    <3>1. MovesWithin(g)
      BY <2>12, <2>13 DEF MovesWithin
    <3> QED
      BY <1>0, <2>8, <3>1, MovingReschedules
  <2> QED
    BY <2>14
<1>10. CASE \E lo, hi \in Slots : CreatePendingBookingRange(lo, hi)
  BY <1>0, <1>10, InsertionGrants DEF Calendar!Next
<1>11. CASE \E b \in Ids, s \in Slots, p \in 0..MaxReceived : UpdateBooking(b, s, p)
  BY <1>7, <1>11 DEF Calendar!Next
<1>12. CASE \E b \in Ids, lo, hi \in Slots, p \in 0..(MaxReceived * MaxId) : UpdateBookingGroup(b, lo, hi, p)
  <2>1. \E g \in Ids : Calendar!Reschedule(g)
    BY <1>8, <1>12
  <2> QED
    BY <2>1 DEF Calendar!Next
<1>13. CASE \E b \in Ids : \E amount \in 1..rows[b].due : ConfirmDeposit(b, amount)
  BY <1>4, <1>13 DEF Calendar!Next
<1>14. CASE \E b \in Ids : CancelBooking(b) \/ CheckIn(b)
  BY <1>5, <1>6, <1>14 DEF Calendar!Next
<1>15. CASE \/ \E s \in Slots : SweepSlot(s)
            \/ \E g \in Ids : ConfirmCreated(g)
            \/ ExpirePending \/ Tick \/ UNCHANGED vars
  BY <1>3, <1>15 DEF Calendar!Next
<1> QED
  BY <1>10, <1>11, <1>12, <1>13, <1>14, <1>15 DEF Next

\* Groups implement the slot calendar: a reschedule, which cancels, moves and adds
\* bookings, takes for its group only slots that were free or its own and gives
\* the others up in the same step; no other group notices it.
THEOREM GroupsImplementCalendar == Spec => ImplementsCalendar
<1>1. Init => Calendar!Init
  BY NoRowFields DEF Init, TablesInit, Calendar!Init, Live
<1>2. IInv /\ [Next]_vars =>
        [Calendar!Next]_[s \in Slots |->
          {group[b] : b \in {c \in Ids : rows[c].slot = s /\ rows[c].status \in Live}}]
  BY StepRefines
<1> QED
  BY <1>1, <1>2, InvariantHolds, PTL DEF Spec, ImplementsCalendar, Calendar!Spec
=============================================================================
