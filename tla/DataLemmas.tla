----------------------------- MODULE DataLemmas -----------------------------
(***************************************************************************)
(* Induction over natural numbers and finite sets without an operator as   *)
(* parameter (a set of counterexamples takes the place of the predicate),  *)
(* what the sums and folds of the community modules compute, how many ways *)
(* there are to sort a set, and what is left of a sequence that loses an   *)
(* element.                                                                *)
(***************************************************************************)
EXTENDS Integers, FiniteSets, Functions, SequencesExt, FiniteSetTheorems, SequenceTheorems,
        WellFoundedInduction, TLAPS

LEMMA LeastNatural ==
  ASSUME NEW N, N \subseteq Nat, N # {}
  PROVE  \E n \in N : \A m \in N : n <= m
<1> DEFINE R == {ss \in Nat \X Nat : ss[1] < ss[2]}
<1>1. IsWellFoundedOn(R, Nat)
  BY NatLessThanWellFounded, Zenon DEF OpToRel
<1>2. \E n \in N : \A m \in N : ~ <<m, n>> \in R
  <2> HIDE DEF R
  <2> QED
    BY <1>1, WFMin
<1>3. PICK n \in N : \A m \in N : ~ <<m, n>> \in R
  BY <1>2
<1>4. ASSUME NEW m \in N
      PROVE  n <= m
  <2>1. m \in Nat /\ n \in Nat /\ <<m, n>> \notin R
    BY <1>3
  <2>2. ~ (m < n)
    BY <2>1
  <2> QED
    BY <2>1, <2>2
<1> QED
  BY <1>4

LEMMA SmallestSet ==
  ASSUME NEW F, F # {}, \A S \in F : IsFiniteSet(S)
  PROVE  \E S \in F : \A T \in F : Cardinality(S) <= Cardinality(T)
<1> DEFINE N == {Cardinality(S) : S \in F}
<1>1. N \subseteq Nat
  BY FS_CardinalityType
<1>2. N # {}
  OBVIOUS
<1>3. PICK n \in N : \A m \in N : n <= m
  <2> HIDE DEF N
  <2> QED BY <1>1, <1>2, LeastNatural
<1> QED BY <1>3

LEMMA FiniteSubsetInduction ==
  ASSUME NEW S, IsFiniteSet(S), NEW F, F \subseteq SUBSET S,
         \A T \in SUBSET S : (\A U \in SUBSET T : U # T => U \in F) => T \in F
  PROVE  F = SUBSET S
<1> DEFINE G == (SUBSET S) \ F
<1> SUFFICES ASSUME G # {} PROVE FALSE
  OBVIOUS
<1>1. \A T \in G : IsFiniteSet(T)
  BY FS_Subset
<1>2. PICK T \in G : \A U \in G : Cardinality(T) <= Cardinality(U)
  <2> HIDE DEF G
  <2> QED BY <1>1, SmallestSet
<1>3. ASSUME NEW U \in SUBSET T, U # T PROVE U \in F
  <2>1. Cardinality(U) < Cardinality(T)
    BY <1>1, <1>3, FS_Subset, FS_CardinalityType
  <2>2. U \notin G
    BY <1>1, <1>2, <1>3, <2>1, FS_CardinalityType, FS_Subset
  <2> QED BY <2>2
<1> QED BY <1>3

-----------------------------------------------------------------------------
(* A fold takes the elements of a finite set out, one by one as c chooses  *)
(* them, and combines each with the fold of the rest, as the recursive     *)
(* function in the folds of the community modules does.                    *)

IsFold(base, c, G, S, g) ==
  g = [T \in SUBSET S |-> IF T = {} THEN base ELSE G[<<c[T], g[T \ {c[T]}]>>]]

LEMMA FoldUnique ==
  ASSUME NEW base, NEW c, NEW G, NEW S, NEW R \in SUBSET S, IsFiniteSet(S), NEW g, NEW h,
         \A T \in SUBSET S : T # {} => c[T] \in T,
         IsFold(base, c, G, S, g), IsFold(base, c, G, R, h)
  PROVE  g[R] = h[R]
<1> DEFINE F == {T \in SUBSET R : g[T] = h[T]}
<1>1. ASSUME NEW T \in SUBSET R, \A U \in SUBSET T : U # T => U \in F PROVE T \in F
  <2>1. g[T] = IF T = {} THEN base ELSE G[<<c[T], g[T \ {c[T]}]>>]
    BY DEF IsFold
  <2>2. h[T] = IF T = {} THEN base ELSE G[<<c[T], h[T \ {c[T]}]>>]
    BY DEF IsFold
  <2>3. CASE T = {}
    BY <2>1, <2>2, <2>3
  <2>4. CASE T # {}
    <3>1. c[T] \in T
      BY <2>4
    <3>2. T \ {c[T]} \in F
      BY <1>1, <3>1
    <3> QED BY <2>1, <2>2, <2>4, <3>2
  <2> QED BY <2>3, <2>4
<1>2. IsFiniteSet(R)
  BY FS_Subset
<1>3. F = SUBSET R
  <2> HIDE DEF F
  <2>1. F \subseteq SUBSET R
    BY DEF F
  <2> QED BY <1>1, <1>2, <2>1, FiniteSubsetInduction
<1> QED BY <1>3

LEMMA FoldExists ==
  ASSUME NEW base, NEW c, NEW G, NEW S, IsFiniteSet(S), \A T \in SUBSET S : T # {} => c[T] \in T
  PROVE  \E g : IsFold(base, c, G, S, g)
<1> DEFINE F == {T \in SUBSET S : \E g : IsFold(base, c, G, T, g)}
           fold(T) == CHOOSE h : IsFold(base, c, G, T, h)
           val(T) == IF T = {} THEN base ELSE G[<<c[T], fold(T \ {c[T]})[T \ {c[T]}]>>]
<1>1. ASSUME NEW T \in SUBSET S, \A U \in SUBSET T : U # T => U \in F PROVE T \in F
  <2> DEFINE g == [U \in SUBSET T |-> val(U)]
  <2>0. IsFiniteSet(T)
    BY FS_Subset
  <2>1. ASSUME NEW U \in SUBSET T, U # T PROVE g[U] = fold(U)[U]
    <3>1. IsFold(base, c, G, U, fold(U))
      BY <1>1, <2>1
    <3>2. CASE U = {}
      BY <3>1, <3>2 DEF IsFold
    <3>3. CASE U # {}
      <4>1. c[U] \in U
        BY <3>3
      <4>2. U \ {c[U]} \in SUBSET T /\ U \ {c[U]} # T
        BY <4>1
      <4>3. IsFold(base, c, G, U \ {c[U]}, fold(U \ {c[U]}))
        BY <4>2, <1>1
      <4>4. fold(U)[U \ {c[U]}] = fold(U \ {c[U]})[U \ {c[U]}]
        <5>1. IsFiniteSet(U) /\ U \ {c[U]} \in SUBSET U /\ \A V \in SUBSET U : V # {} => c[V] \in V
          BY <2>0, FS_Subset
        <5> HIDE DEF fold
        <5> QED BY <5>1, <3>1, <4>3, FoldUnique
      <4>5. fold(U)[U] = G[<<c[U], fold(U)[U \ {c[U]}]>>]
        BY <3>1, <3>3 DEF IsFold
      <4>6. g[U] = G[<<c[U], fold(U \ {c[U]})[U \ {c[U]}]>>]
        BY <3>3
      <4> QED BY <4>4, <4>5, <4>6
    <3> QED BY <3>2, <3>3
  <2>2. IsFold(base, c, G, T, g)
    <3>1. ASSUME NEW U \in SUBSET T
          PROVE  g[U] = IF U = {} THEN base ELSE G[<<c[U], g[U \ {c[U]}]>>]
      <4>1. CASE U = {}
        BY <4>1
      <4>2. CASE U # {}
        <5>1. c[U] \in U
          BY <4>2
        <5>2. U \ {c[U]} \in SUBSET T /\ U \ {c[U]} # T
          BY <5>1
        <5>3. g[U \ {c[U]}] = fold(U \ {c[U]})[U \ {c[U]}]
          <6> HIDE DEF g, fold
          <6> QED BY <5>2, <2>1
        <5>4. g[U] = G[<<c[U], fold(U \ {c[U]})[U \ {c[U]}]>>]
          BY <4>2
        <5> QED BY <4>2, <5>3, <5>4
      <4> QED BY <4>1, <4>2
    <3>2. g = [U \in SUBSET T |-> IF U = {} THEN base ELSE G[<<c[U], g[U \ {c[U]}]>>]]
      <4> HIDE DEF val
      <4> QED BY <3>1
    <3> QED BY <3>2 DEF IsFold
  <2> HIDE DEF g
  <2> QED BY <2>2
<1>2. F = SUBSET S
  <2>1. F \subseteq SUBSET S
    OBVIOUS
  <2> HIDE DEF F
  <2> QED BY <1>1, <2>1, FiniteSubsetInduction
<1> QED BY <1>2

LEMMA FoldTyped ==
  ASSUME NEW base, NEW c, NEW G, NEW S, IsFiniteSet(S), \A T \in SUBSET S : T # {} => c[T] \in T,
         NEW A, base \in A, \A x \in S, a \in A : G[<<x, a>>] \in A, NEW g, IsFold(base, c, G, S, g)
  PROVE  g \in [SUBSET S -> A]
<1> DEFINE F == {T \in SUBSET S : g[T] \in A}
<1>1. ASSUME NEW T \in SUBSET S, \A U \in SUBSET T : U # T => U \in F PROVE T \in F
  <2>1. g[T] = IF T = {} THEN base ELSE G[<<c[T], g[T \ {c[T]}]>>]
    BY DEF IsFold
  <2>2. ASSUME T # {} PROVE g[T \ {c[T]}] \in A /\ c[T] \in S
    <3>1. c[T] \in T
      BY <2>2
    <3>2. T \ {c[T]} \in F
      BY <1>1, <3>1
    <3> QED BY <3>1, <3>2
  <2> QED BY <2>1, <2>2
<1>2. F = SUBSET S
  <2>1. F \subseteq SUBSET S
    OBVIOUS
  <2> HIDE DEF F
  <2> QED BY <1>1, <2>1, FiniteSubsetInduction
<1>3. \A T \in SUBSET S : g[T] \in A
  BY <1>2
<1>4. g = [T \in SUBSET S |-> g[T]]
  BY DEF IsFold
<1> QED BY <1>3, <1>4

-----------------------------------------------------------------------------
(* Sums.                                                                   *)

IsIter(f, S, g) ==
  g = [T \in SUBSET S |-> IF T = {} THEN 0
                          ELSE f[CHOOSE x \in T : TRUE] + g[T \ {CHOOSE x \in T : TRUE}]]

LEMMA SumIsIter ==
  ASSUME NEW f, NEW S, \E g : IsIter(f, S, g)
  PROVE  \E g : IsIter(f, S, g) /\ SumFunctionOnSet(f, S) = g[S]
<1> DEFINE g == CHOOSE h : IsIter(f, S, h)
<1>1. IsIter(f, S, g)
  OBVIOUS
<1>2. SumFunctionOnSet(f, S) = g[S]
  BY DEF SumFunctionOnSet, FoldFunctionOnSet, MapThenFoldSet, IsIter
<1> QED BY <1>1, <1>2

\* A sum of integers is a fold.
LEMMA IterIsFold ==
  ASSUME NEW f, NEW S, NEW V, NEW c, NEW G, NEW g, NEW R \in SUBSET S,
         c = [T \in SUBSET S |-> CHOOSE x \in T : TRUE],
         G = [p \in S \X V |-> f[p[1]] + p[2]], g \in [SUBSET R -> V]
  PROVE  IsIter(f, R, g) <=> IsFold(0, c, G, R, g)
<1>1. ASSUME NEW T \in SUBSET R, T # {}
      PROVE  /\ c[T] = CHOOSE x \in T : TRUE
             /\ G[<<c[T], g[T \ {c[T]}]>>] = f[c[T]] + g[T \ {c[T]}]
  <2>1. c[T] = (CHOOSE x \in T : TRUE) /\ c[T] \in T /\ T \in SUBSET S
    BY <1>1
  <2>2. <<c[T], g[T \ {c[T]}]>> \in S \X V
    BY <2>1
  <2> QED BY <2>1, <2>2
<1>2. ASSUME NEW T \in SUBSET R
      PROVE  (IF T = {} THEN 0 ELSE f[CHOOSE x \in T : TRUE] + g[T \ {CHOOSE x \in T : TRUE}])
             = (IF T = {} THEN 0 ELSE G[<<c[T], g[T \ {c[T]}]>>])
  BY <1>1
<1>3. [T \in SUBSET R |-> IF T = {} THEN 0 ELSE f[CHOOSE x \in T : TRUE] + g[T \ {CHOOSE x \in T : TRUE}]]
      = [T \in SUBSET R |-> IF T = {} THEN 0 ELSE G[<<c[T], g[T \ {c[T]}]>>]]
  BY <1>2
<1> QED BY <1>3, Zenon DEF IsIter, IsFold

LEMMA IterUnique ==
  ASSUME NEW f, NEW S, NEW R \in SUBSET S, IsFiniteSet(S), NEW g, NEW h,
         IsIter(f, S, g), IsIter(f, R, h)
  PROVE  g[R] = h[R]
<1>1. PICK V : V = {g[T] : T \in SUBSET S} \cup {h[T] : T \in SUBSET R}
  OBVIOUS
<1>2. PICK c, G : c = [T \in SUBSET S |-> CHOOSE x \in T : TRUE] /\ G = [p \in S \X V |-> f[p[1]] + p[2]]
  OBVIOUS
<1>3. g \in [SUBSET S -> V] /\ h \in [SUBSET R -> V]
  <2>1. g = [T \in SUBSET S |-> g[T]] /\ h = [T \in SUBSET R |-> h[T]]
    BY DEF IsIter
  <2> QED BY <1>1, <2>1
<1>4. IsFold(0, c, G, S, g) /\ IsFold(0, c, G, R, h)
  <2>1. c = [T \in SUBSET S |-> CHOOSE x \in T : TRUE]
    BY <1>2
  <2>2. G = [p \in S \X V |-> f[p[1]] + p[2]]
    BY <1>2
  <2>3. IsIter(f, S, g) <=> IsFold(0, c, G, S, g)
    <3>1. S \in SUBSET S
      OBVIOUS
    <3>2. g \in [SUBSET S -> V]
      BY <1>3
    <3> QED BY <2>1, <2>2, <3>1, <3>2, IterIsFold, Zenon
  <2>4. IsIter(f, R, h) <=> IsFold(0, c, G, R, h)
    <3>1. h \in [SUBSET R -> V]
      BY <1>3
    <3> QED BY <2>1, <2>2, <3>1, IterIsFold, Zenon
  <2> QED BY <2>3, <2>4
<1>5. \A T \in SUBSET S : T # {} => c[T] \in T
  BY <1>2
<1> QED BY <1>4, <1>5, FoldUnique

LEMMA IterExists ==
  ASSUME NEW f, NEW S, IsFiniteSet(S), \A x \in S : f[x] \in Int
  PROVE  \E g : IsIter(f, S, g)
<1>1. PICK c, G : c = [T \in SUBSET S |-> CHOOSE x \in T : TRUE] /\ G = [p \in S \X Int |-> f[p[1]] + p[2]]
  OBVIOUS
<1>2. \A T \in SUBSET S : T # {} => c[T] \in T
  BY <1>1
<1>3. PICK g : IsFold(0, c, G, S, g)
  BY <1>2, FoldExists
<1>4. \A x \in S, a \in Int : G[<<x, a>>] \in Int
  BY <1>1
<1>5. PICK A, zero : A = Int /\ zero = 0
  OBVIOUS
<1>6. zero \in A /\ (\A x \in S, a \in A : G[<<x, a>>] \in A) /\ IsFold(zero, c, G, S, g)
  BY <1>3, <1>4, <1>5
<1>7. g \in [SUBSET S -> A]
  BY <1>2, <1>6, FoldTyped
<1>8. S \in SUBSET S /\ G = [p \in S \X A |-> f[p[1]] + p[2]]
  BY <1>1, <1>5
<1>9. IsFold(0, c, G, S, g)
  BY <1>3
<1>10. IsIter(f, S, g) <=> IsFold(0, c, G, S, g)
  BY <1>1, <1>7, <1>8, IterIsFold
<1> QED BY <1>9, <1>10

LEMMA SumEmpty ==
  ASSUME NEW f PROVE SumFunctionOnSet(f, {}) = 0
<1>1. IsFiniteSet({})
  BY FS_EmptySet
<1>2. PICK g : IsIter(f, {}, g) /\ SumFunctionOnSet(f, {}) = g[{}]
  BY <1>1, IterExists, SumIsIter
<1> QED BY <1>2 DEF IsIter

LEMMA SumStep ==
  ASSUME NEW f, NEW S, IsFiniteSet(S), S # {}, \A x \in S : f[x] \in Int
  PROVE  \E x \in S : SumFunctionOnSet(f, S) = f[x] + SumFunctionOnSet(f, S \ {x})
<1> DEFINE x == CHOOSE x \in S : TRUE
<1>1. x \in S
  OBVIOUS
<1>2. PICK g : IsIter(f, S, g) /\ SumFunctionOnSet(f, S) = g[S]
  BY IterExists, SumIsIter
<1>3. IsFiniteSet(S \ {x})
  BY FS_Subset
<1>4. PICK h : IsIter(f, S \ {x}, h) /\ SumFunctionOnSet(f, S \ {x}) = h[S \ {x}]
  <2> HIDE DEF x
  <2> QED BY <1>3, IterExists, SumIsIter
<1>5. g[S \ {x}] = h[S \ {x}]
  <2> HIDE DEF x
  <2> QED BY <1>2, <1>4, IterUnique
<1>6. g[S] = f[x] + g[S \ {x}]
  BY <1>2 DEF IsIter
<1> HIDE DEF x
<1> QED BY <1>1, <1>2, <1>4, <1>5, <1>6

LEMMA SumInt ==
  ASSUME NEW f, NEW S, IsFiniteSet(S), \A x \in S : f[x] \in Int
  PROVE  SumFunctionOnSet(f, S) \in Int
<1> DEFINE F == {T \in SUBSET S : SumFunctionOnSet(f, T) \in Int}
<1>1. ASSUME NEW T \in SUBSET S, \A U \in SUBSET T : U # T => U \in F
      PROVE  T \in F
  <2>1. CASE T = {}
    BY <2>1, SumEmpty
  <2>2. CASE T # {}
    <3>1. PICK x \in T : SumFunctionOnSet(f, T) = f[x] + SumFunctionOnSet(f, T \ {x})
      BY <2>2, FS_Subset, SumStep
    <3>2. T \ {x} \in F
      BY <1>1
    <3> QED
      BY <3>1, <3>2
  <2> QED
    BY <2>1, <2>2
<1>2. F = SUBSET S
  <2>1. F \subseteq SUBSET S
    OBVIOUS
  <2> HIDE DEF F
  <2> QED
    BY <1>1, <2>1, FiniteSubsetInduction
<1> QED
  BY <1>2

LEMMA SumNat ==
  ASSUME NEW f, NEW S, IsFiniteSet(S), \A x \in S : f[x] \in Nat
  PROVE  SumFunctionOnSet(f, S) \in Nat
<1> DEFINE F == {T \in SUBSET S : SumFunctionOnSet(f, T) \in Nat}
<1>1. ASSUME NEW T \in SUBSET S, \A U \in SUBSET T : U # T => U \in F
      PROVE  T \in F
  <2>1. CASE T = {}
    BY <2>1, SumEmpty
  <2>2. CASE T # {}
    <3>1. PICK x \in T : SumFunctionOnSet(f, T) = f[x] + SumFunctionOnSet(f, T \ {x})
      BY <2>2, FS_Subset, SumStep
    <3>2. T \ {x} \in F
      BY <1>1
    <3> QED
      BY <3>1, <3>2
  <2> QED
    BY <2>1, <2>2
<1>2. F = SUBSET S
  <2>1. F \subseteq SUBSET S
    OBVIOUS
  <2> HIDE DEF F
  <2> QED
    BY <1>1, <2>1, FiniteSubsetInduction
<1> QED
  BY <1>2

\* Any element can be taken out of a sum.
LEMMA SumTakeOut ==
  ASSUME NEW f, NEW S, IsFiniteSet(S), \A x \in S : f[x] \in Int, NEW y \in S
  PROVE  SumFunctionOnSet(f, S) = f[y] + SumFunctionOnSet(f, S \ {y})
<1> DEFINE F == {T \in SUBSET S : \A z \in T : SumFunctionOnSet(f, T) = f[z] + SumFunctionOnSet(f, T \ {z})}
<1>1. ASSUME NEW T \in SUBSET S, \A U \in SUBSET T : U # T => U \in F
      PROVE  T \in F
  <2> SUFFICES ASSUME NEW z \in T
               PROVE  SumFunctionOnSet(f, T) = f[z] + SumFunctionOnSet(f, T \ {z})
    OBVIOUS
  <2>1. PICK x \in T : SumFunctionOnSet(f, T) = f[x] + SumFunctionOnSet(f, T \ {x})
    BY FS_Subset, SumStep
  <2>2. CASE x = z
    BY <2>1, <2>2
  <2>3. CASE x # z
    <3>1. T \ {x} \in F /\ z \in T \ {x}
      BY <1>1, <2>3
    <3>2. T \ {z} \in F /\ x \in T \ {z}
      BY <1>1, <2>3
    <3>3. (T \ {x}) \ {z} = (T \ {z}) \ {x}
      OBVIOUS
    <3>4. SumFunctionOnSet(f, T \ {x}) = f[z] + SumFunctionOnSet(f, (T \ {z}) \ {x})
      BY <3>1, <3>3
    <3>5. SumFunctionOnSet(f, T \ {z}) = f[x] + SumFunctionOnSet(f, (T \ {z}) \ {x})
      BY <3>2
    <3>6. SumFunctionOnSet(f, (T \ {z}) \ {x}) \in Int
      BY FS_Subset, SumInt
    <3>7. f[x] \in Int /\ f[z] \in Int
      OBVIOUS
    <3> QED
      BY <2>1, <3>4, <3>5, <3>6, <3>7
  <2> QED
    BY <2>2, <2>3
<1>2. F = SUBSET S
  <2>1. F \subseteq SUBSET S
    OBVIOUS
  <2> HIDE DEF F
  <2> QED
    BY <1>1, <2>1, FiniteSubsetInduction
<1> QED
  BY <1>2

\* Functions that agree on a set have the same sum over it.
LEMMA SumAgree ==
  ASSUME NEW f, NEW g, NEW S, IsFiniteSet(S), \A x \in S : f[x] \in Int /\ f[x] = g[x]
  PROVE  SumFunctionOnSet(f, S) = SumFunctionOnSet(g, S)
<1> DEFINE F == {T \in SUBSET S : SumFunctionOnSet(f, T) = SumFunctionOnSet(g, T)}
<1>1. ASSUME NEW T \in SUBSET S, \A U \in SUBSET T : U # T => U \in F
      PROVE  T \in F
  <2>1. CASE T = {}
    BY <2>1, SumEmpty
  <2>2. CASE T # {}
    <3>1. PICK x \in T : SumFunctionOnSet(f, T) = f[x] + SumFunctionOnSet(f, T \ {x})
      BY <2>2, FS_Subset, SumStep
    <3>2. SumFunctionOnSet(g, T) = g[x] + SumFunctionOnSet(g, T \ {x})
      BY FS_Subset, SumTakeOut
    <3>3. T \ {x} \in F
      BY <1>1
    <3> QED
      BY <3>1, <3>2, <3>3
  <2> QED
    BY <2>1, <2>2
<1>2. F = SUBSET S
  <2>1. F \subseteq SUBSET S
    OBVIOUS
  <2> HIDE DEF F
  <2> QED
    BY <1>1, <2>1, FiniteSubsetInduction
<1> QED
  BY <1>2

LEMMA SumUnion ==
  ASSUME NEW f, NEW S, NEW R, IsFiniteSet(S), IsFiniteSet(R), S \cap R = {},
         \A x \in S \cup R : f[x] \in Int
  PROVE  SumFunctionOnSet(f, S \cup R) = SumFunctionOnSet(f, S) + SumFunctionOnSet(f, R)
<1> DEFINE F == {T \in SUBSET S : SumFunctionOnSet(f, T \cup R)
                                    = SumFunctionOnSet(f, T) + SumFunctionOnSet(f, R)}
<1>0. SumFunctionOnSet(f, R) \in Int
  BY SumInt
<1>1. ASSUME NEW T \in SUBSET S, \A U \in SUBSET T : U # T => U \in F
      PROVE  T \in F
  <2>1. CASE T = {}
    <3>1. T \cup R = R
      BY <2>1
    <3> QED
      BY <1>0, <2>1, <3>1, SumEmpty
  <2>2. CASE T # {}
    <3>1. PICK x \in T : TRUE
      BY <2>2
    <3>2. IsFiniteSet(T) /\ IsFiniteSet(T \ {x}) /\ IsFiniteSet(T \cup R)
      BY FS_Subset, FS_Union
    <3>3. SumFunctionOnSet(f, T) = f[x] + SumFunctionOnSet(f, T \ {x})
      BY <3>2, SumTakeOut
    <3>4. SumFunctionOnSet(f, T \cup R) = f[x] + SumFunctionOnSet(f, (T \cup R) \ {x})
      BY <3>2, SumTakeOut
    <3>5. (T \cup R) \ {x} = (T \ {x}) \cup R
      BY <3>1
    <3>6. T \ {x} \in F
      BY <1>1
    <3>7. SumFunctionOnSet(f, (T \cup R) \ {x}) = SumFunctionOnSet(f, T \ {x}) + SumFunctionOnSet(f, R)
      BY <3>5, <3>6
    <3>8. f[x] \in Int /\ SumFunctionOnSet(f, T \ {x}) \in Int
      BY <3>2, SumInt
    <3> QED
      BY <1>0, <3>3, <3>4, <3>7, <3>8
  <2> QED
    BY <2>1, <2>2
<1>2. F = SUBSET S
  <2>1. F \subseteq SUBSET S
    OBVIOUS
  <2> HIDE DEF F
  <2> QED
    BY <1>1, <2>1, FiniteSubsetInduction
<1> QED
  BY <1>2

\* A sum does not depend on the names of its summands.
LEMMA SumRename ==
  ASSUME NEW f, NEW g, NEW S, NEW h, IsFiniteSet(S),
         \A x \in S : f[x] \in Int /\ g[h[x]] = f[x],
         \A x, y \in S : h[x] = h[y] => x = y
  PROVE  SumFunctionOnSet(f, S) = SumFunctionOnSet(g, {h[x] : x \in S})
<1> DEFINE F == {T \in SUBSET S : SumFunctionOnSet(f, T) = SumFunctionOnSet(g, {h[x] : x \in T})}
<1>1. ASSUME NEW T \in SUBSET S, \A U \in SUBSET T : U # T => U \in F
      PROVE  T \in F
  <2>1. CASE T = {}
    <3>1. {h[x] : x \in T} = {}
      BY <2>1
    <3> QED
      BY <2>1, <3>1, SumEmpty
  <2>2. CASE T # {}
    <3> DEFINE I == {h[x] : x \in T}
    <3>1. PICK y \in T : SumFunctionOnSet(f, T) = f[y] + SumFunctionOnSet(f, T \ {y})
      BY <2>2, FS_Subset, SumStep
    <3>2. IsFiniteSet(I)
      <4>1. IsFiniteSet(T)
        BY FS_Subset
      <4> DEFINE k == [x \in T |-> h[x]]
      <4>2. k \in Surjection(T, I)
        BY DEF Surjection
      <4> HIDE DEF I, k
      <4> QED
        BY <4>1, <4>2, FS_Surjection
    <3>3. h[y] \in I /\ \A i \in I : g[i] \in Int
      OBVIOUS
    <3>4. SumFunctionOnSet(g, I) = g[h[y]] + SumFunctionOnSet(g, I \ {h[y]})
      <4> HIDE DEF I
      <4> QED
        BY <3>2, <3>3, SumTakeOut
    <3>5. I \ {h[y]} = {h[x] : x \in T \ {y}}
      OBVIOUS
    <3>6. T \ {y} \in F
      BY <1>1
    <3> QED
      BY <3>1, <3>4, <3>5, <3>6
  <2> QED
    BY <2>1, <2>2
<1>2. F = SUBSET S
  <2>1. F \subseteq SUBSET S
    OBVIOUS
  <2> HIDE DEF F
  <2> QED
    BY <1>1, <2>1, FiniteSubsetInduction
<1> QED
  BY <1>2

\* Summands that are zero may be left out.
LEMMA SumSupport ==
  ASSUME NEW f, NEW S, NEW T \in SUBSET S, IsFiniteSet(S), \A x \in S : f[x] \in Int,
         \A x \in S \ T : f[x] = 0
  PROVE  SumFunctionOnSet(f, S) = SumFunctionOnSet(f, T)
<1> DEFINE F == {U \in SUBSET (S \ T) : SumFunctionOnSet(f, U) = 0}
<1>0. IsFiniteSet(T) /\ IsFiniteSet(S \ T)
  BY FS_Subset
<1>1. ASSUME NEW U \in SUBSET (S \ T), \A V \in SUBSET U : V # U => V \in F
      PROVE  U \in F
  <2>1. CASE U = {}
    BY <2>1, SumEmpty
  <2>2. CASE U # {}
    <3>1. PICK x \in U : SumFunctionOnSet(f, U) = f[x] + SumFunctionOnSet(f, U \ {x})
      BY <1>0, <2>2, FS_Subset, SumStep
    <3>2. U \ {x} \in F /\ f[x] = 0
      BY <1>1
    <3> QED
      BY <3>1, <3>2
  <2> QED
    BY <2>1, <2>2
<1>2. F = SUBSET (S \ T)
  <2>1. F \subseteq SUBSET (S \ T)
    OBVIOUS
  <2> HIDE DEF F
  <2> QED
    BY <1>0, <1>1, <2>1, FiniteSubsetInduction
<1>3. SumFunctionOnSet(f, S \ T) = 0
  BY <1>2
<1>4. SumFunctionOnSet(f, T \cup (S \ T)) = SumFunctionOnSet(f, T) + SumFunctionOnSet(f, S \ T)
  BY <1>0, SumUnion
<1>5. SumFunctionOnSet(f, T) \in Int
  BY <1>0, SumInt
<1>6. T \cup (S \ T) = S
  OBVIOUS
<1>7. SumFunctionOnSet(f, S) = SumFunctionOnSet(f, T) + 0
  BY <1>3, <1>4, <1>6
<1> QED
  BY <1>5, <1>7

LEMMA SumZero ==
  ASSUME NEW f, NEW S, IsFiniteSet(S), \A x \in S : f[x] = 0
  PROVE  SumFunctionOnSet(f, S) = 0
BY SumSupport, SumEmpty

LEMMA SumAdd ==
  ASSUME NEW f, NEW g, NEW h, NEW S, IsFiniteSet(S),
         \A x \in S : f[x] \in Int /\ g[x] \in Int /\ h[x] = f[x] + g[x]
  PROVE  SumFunctionOnSet(h, S) = SumFunctionOnSet(f, S) + SumFunctionOnSet(g, S)
<1> DEFINE F == {T \in SUBSET S : SumFunctionOnSet(h, T)
                                    = SumFunctionOnSet(f, T) + SumFunctionOnSet(g, T)}
<1>1. ASSUME NEW T \in SUBSET S, \A U \in SUBSET T : U # T => U \in F
      PROVE  T \in F
  <2>1. CASE T = {}
    BY <2>1, SumEmpty
  <2>2. CASE T # {}
    <3>1. PICK x \in T : SumFunctionOnSet(h, T) = h[x] + SumFunctionOnSet(h, T \ {x})
      BY <2>2, FS_Subset, SumStep
    <3>2. IsFiniteSet(T) /\ IsFiniteSet(T \ {x})
      BY FS_Subset
    <3>3. SumFunctionOnSet(f, T) = f[x] + SumFunctionOnSet(f, T \ {x})
      BY <3>2, SumTakeOut
    <3>4. SumFunctionOnSet(g, T) = g[x] + SumFunctionOnSet(g, T \ {x})
      BY <3>2, SumTakeOut
    <3>5. T \ {x} \in F
      BY <1>1
    <3>6. SumFunctionOnSet(f, T \ {x}) \in Int /\ SumFunctionOnSet(g, T \ {x}) \in Int
      BY <3>2, SumInt
    <3>7. f[x] \in Int /\ g[x] \in Int /\ h[x] = f[x] + g[x]
      OBVIOUS
    <3> QED
      BY <3>1, <3>3, <3>4, <3>5, <3>6, <3>7
  <2> QED
    BY <2>1, <2>2
<1>2. F = SUBSET S
  <2>1. F \subseteq SUBSET S
    OBVIOUS
  <2> HIDE DEF F
  <2> QED
    BY <1>1, <2>1, FiniteSubsetInduction
<1> QED
  BY <1>2

-----------------------------------------------------------------------------
\* One-to-one into a set of the same size is onto.
LEMMA InjectionCovers ==
  ASSUME NEW S, NEW T, NEW h, IsFiniteSet(T), Cardinality(S) = Cardinality(T),
         \A x \in S : h[x] \in T,
         \A x, y \in S : h[x] = h[y] => x = y
  PROVE  {h[x] : x \in S} = T
<1> DEFINE k == [x \in S |-> h[x]]
<1>1. k \in Injection(S, T)
  BY DEF Injection, IsInjective
<1>2. k \in Surjection(S, T)
  <2> HIDE DEF k
  <2> QED
    BY <1>1, FS_Injection
<1>3. ASSUME NEW t \in T
      PROVE  \E x \in S : h[x] = t
  <2>1. \E x \in S : k[x] = t
    BY <1>2 DEF Surjection
  <2> QED
    BY <2>1
<1> QED
  BY <1>3

-----------------------------------------------------------------------------
(* Sequences.                                                              *)

\* What is left of a sequence, place by place.
LEMMA Removed ==
  ASSUME NEW S, NEW s \in Seq(S), NEW i \in DOMAIN s
  PROVE  /\ RemoveAt(s, i) \in Seq(S) /\ Len(RemoveAt(s, i)) = Len(s) - 1
         /\ \A k \in 1..(Len(s) - 1) : RemoveAt(s, i)[k] = IF k < i THEN s[k] ELSE s[k + 1]
<1> DEFINE a == SubSeq(s, 1, i - 1)  b == SubSeq(s, i + 1, Len(s))
<1>1. i \in 1..Len(s) /\ Len(s) \in Nat
  OBVIOUS
<1>2. a \in Seq(S) /\ Len(a) = i - 1 /\ \A k \in 1..(i - 1) : a[k] = s[k]
  <2>1. \A k \in 1..(i - 1) : s[k] \in S
    BY <1>1
  <2>2. /\ a \in Seq(S) /\ Len(a) = IF 1 <= i - 1 THEN (i - 1) - 1 + 1 ELSE 0
        /\ \A k \in 1..((i - 1) - 1 + 1) : a[k] = s[1 + k - 1]
    BY <1>1, <2>1, SubSeqProperties
  <2> QED BY <1>1, <2>2
<1>3. b \in Seq(S) /\ Len(b) = Len(s) - i /\ \A k \in 1..(Len(s) - i) : b[k] = s[i + k]
  <2>1. \A k \in (i + 1)..Len(s) : s[k] \in S
    BY <1>1
  <2>2. /\ b \in Seq(S) /\ Len(b) = IF i + 1 <= Len(s) THEN Len(s) - (i + 1) + 1 ELSE 0
        /\ \A k \in 1..(Len(s) - (i + 1) + 1) : b[k] = s[(i + 1) + k - 1]
    BY <1>1, <2>1, SubSeqProperties
  <2> QED BY <1>1, <2>2
<1> HIDE DEF a, b
<1>4. /\ a \o b \in Seq(S) /\ Len(a \o b) = Len(a) + Len(b)
      /\ \A k \in 1..(Len(a) + Len(b)) : (a \o b)[k] = IF k <= Len(a) THEN a[k] ELSE b[k - Len(a)]
  BY <1>2, <1>3, ConcatProperties
<1>5. RemoveAt(s, i) = a \o b
  BY DEF RemoveAt, a, b
<1>6. ASSUME NEW k \in 1..(Len(s) - 1) PROVE (a \o b)[k] = IF k < i THEN s[k] ELSE s[k + 1]
  <2>1. CASE k < i
    <3>1. k \in 1..(Len(a) + Len(b)) /\ k <= Len(a) /\ k \in 1..(i - 1)
      BY <1>1, <1>2, <1>3, <2>1
    <3>2. (a \o b)[k] = a[k] /\ a[k] = s[k]
      BY <1>2, <1>4, <3>1
    <3> QED BY <2>1, <3>2
  <2>2. CASE k >= i
    <3>1. k \in 1..(Len(a) + Len(b)) /\ ~(k <= Len(a)) /\ k - Len(a) \in 1..(Len(s) - i)
      BY <1>1, <1>2, <1>3, <2>2
    <3>2. (a \o b)[k] = b[k - Len(a)] /\ b[k - Len(a)] = s[i + (k - Len(a))]
      BY <1>3, <1>4, <3>1
    <3>3. i + (k - Len(a)) = k + 1
      BY <1>1, <1>2
    <3>4. ~(k < i)
      BY <1>1, <2>2
    <3> QED BY <3>2, <3>3, <3>4
  <2>3. k < i \/ k >= i
    BY <1>1
  <2> QED BY <2>1, <2>2, <2>3
<1>7. Len(a) + Len(b) = Len(s) - 1
  BY <1>1, <1>2, <1>3
<1>8. RemoveAt(s, i) \in Seq(S) /\ Len(RemoveAt(s, i)) = Len(s) - 1
  BY <1>4, <1>5, <1>7
<1> QED BY <1>5, <1>6, <1>8

\* Every element that is left, by where it was: the order is kept, and only element i is gone.
LeftFrom(from, s, i, t) ==
  /\ \A k \in DOMAIN t : from[k] \in DOMAIN s /\ from[k] # i /\ t[k] = s[from[k]]
  /\ \A k, l \in DOMAIN t : k < l <=> from[k] < from[l]
  /\ \A m \in DOMAIN s : m # i => \E k \in DOMAIN t : from[k] = m

LEMMA RemovedFrom ==
  ASSUME NEW S, NEW s \in Seq(S), NEW i \in DOMAIN s
  PROVE  RemoveAt(s, i) \in Seq(S) /\ \E from : LeftFrom(from, s, i, RemoveAt(s, i))
<1>1. PICK t : t = RemoveAt(s, i)
  OBVIOUS
<1>2. /\ t \in Seq(S) /\ Len(t) = Len(s) - 1
      /\ \A k \in 1..(Len(s) - 1) : t[k] = IF k < i THEN s[k] ELSE s[k + 1]
  BY <1>1, Removed
<1>3. /\ DOMAIN s = 1..Len(s) /\ DOMAIN t = 1..(Len(s) - 1) /\ Len(s) \in Nat /\ i \in 1..Len(s)
  BY <1>2
<1>4. PICK from : from = [k \in DOMAIN t |-> IF k < i THEN k ELSE k + 1]
  OBVIOUS
<1>5. \A k \in DOMAIN t : from[k] \in DOMAIN s /\ from[k] # i /\ t[k] = s[from[k]]
  BY <1>2, <1>3, <1>4
<1>6. \A k, l \in DOMAIN t : k < l <=> from[k] < from[l]
  BY <1>3, <1>4
<1>7. ASSUME NEW m \in DOMAIN s, m # i PROVE \E k \in DOMAIN t : from[k] = m
  <2>1. PICK k \in Int : k = IF m < i THEN m ELSE m - 1
    BY <1>3
  <2>2. k \in DOMAIN t /\ from[k] = m
    BY <1>3, <1>4, <1>7, <2>1
  <2> QED BY <2>2
<1>8. LeftFrom(from, s, i, t)
  BY <1>5, <1>6, <1>7 DEF LeftFrom
<1> QED BY <1>1, <1>2, <1>8

\* One element more, at the end.
AddedTo(s, x, t) == /\ DOMAIN s = 1..Len(s) /\ DOMAIN t = 1..(Len(s) + 1) /\ Len(s) \in Nat
                    /\ \A k \in DOMAIN s : t[k] = s[k]
                    /\ t[Len(s) + 1] = x

LEMMA Appended ==
  ASSUME NEW S, NEW s \in Seq(S), NEW x \in S
  PROVE  Append(s, x) \in Seq(S) /\ AddedTo(s, x, Append(s, x))
<1>1. /\ Append(s, x) \in Seq(S) /\ Len(Append(s, x)) = Len(s) + 1
      /\ \A k \in 1..Len(s) : Append(s, x)[k] = s[k]
      /\ Append(s, x)[Len(s) + 1] = x
  BY AppendProperties
<1>2. DOMAIN s = 1..Len(s) /\ DOMAIN Append(s, x) = 1..(Len(s) + 1) /\ Len(s) \in Nat
  BY <1>1
<1> QED BY <1>1, <1>2 DEF AddedTo

-----------------------------------------------------------------------------
(* Sorting, and folds of sequences.                                        *)

\* Elements before one another have smaller ranks: a set in a strict order can be listed.
LEMMA SortedExists ==
  ASSUME NEW S, IsFiniteSet(S), NEW R,
         \A x \in S : <<x, x>> \notin R,
         \A x, y \in S : x = y \/ <<x, y>> \in R \/ <<y, x>> \in R,
         \A x, y, z \in S : <<x, y>> \in R /\ <<y, z>> \in R => <<x, z>> \in R
  PROVE  \E list \in SetToSeqs(S) : \A i, j \in DOMAIN list : i < j => <<list[i], list[j]>> \in R
<1> DEFINE upTo(x) == {y \in S : y = x \/ <<y, x>> \in R}
<1>1. PICK rank : rank = [x \in S |-> Cardinality(upTo(x))]
  OBVIOUS
<1>2. PICK n \in Nat : n = Cardinality(S)
  BY FS_CardinalityType
<1>3. \A x \in S : rank[x] \in 1..n
  <2> TAKE x \in S
  <2>1. upTo(x) \subseteq S /\ x \in upTo(x) /\ rank[x] = Cardinality(upTo(x))
    BY <1>1
  <2> HIDE DEF upTo
  <2>2. IsFiniteSet(upTo(x)) /\ Cardinality(upTo(x)) <= n
    BY <1>2, <2>1, FS_Subset
  <2>3. Cardinality(upTo(x)) \in Nat /\ Cardinality(upTo(x)) # 0
    BY <2>1, <2>2, FS_CardinalityType, FS_EmptySet
  <2> QED BY <2>1, <2>2, <2>3
<1>4. ASSUME NEW x \in S, NEW y \in S, <<x, y>> \in R PROVE rank[x] < rank[y]
  <2>1. upTo(x) \subseteq upTo(y) /\ y \in upTo(y) /\ y \notin upTo(x) /\ upTo(y) \subseteq S
    BY <1>4
  <2>2. rank[x] = Cardinality(upTo(x)) /\ rank[y] = Cardinality(upTo(y))
    BY <1>1
  <2> HIDE DEF upTo
  <2>3. IsFiniteSet(upTo(y)) /\ upTo(x) # upTo(y)
    BY <2>1, FS_Subset
  <2>4. Cardinality(upTo(x)) < Cardinality(upTo(y))
    BY <2>1, <2>3, FS_Subset, FS_CardinalityType
  <2> QED BY <2>2, <2>4
<1>5. \A x, y \in S : rank[x] = rank[y] => x = y
  <2> HIDE DEF upTo
  <2> TAKE x \in S, y \in S
  <2>1. rank[x] \in Int /\ rank[y] \in Int
    BY <1>3
  <2>2. <<x, y>> \in R => rank[x] # rank[y]
    BY <1>4, <2>1
  <2>3. <<y, x>> \in R => rank[x] # rank[y]
    BY <1>4, <2>1
  <2> QED BY <2>2, <2>3
<1>6. {rank[x] : x \in S} = 1..n
  <2>1. IsFiniteSet(1..n) /\ Cardinality(1..n) = n
    BY FS_Interval
  <2>2. Cardinality(S) = Cardinality(1..n)
    BY <1>2, <2>1
  <2>3. PICK T : T = 1..n
    OBVIOUS
  <2>4. IsFiniteSet(T) /\ Cardinality(S) = Cardinality(T) /\ \A x \in S : rank[x] \in T
    BY <1>3, <2>1, <2>2, <2>3
  <2>5. {rank[x] : x \in S} = T
    BY <1>5, <2>4, InjectionCovers
  <2> QED BY <2>3, <2>5
<1>7. PICK list : list = [k \in 1..n |-> CHOOSE x \in S : rank[x] = k]
  OBVIOUS
<1>8. \A k \in 1..n : list[k] \in S /\ rank[list[k]] = k
  BY <1>6, <1>7
<1>9. list \in SetToSeqs(S)
  <2>1. list \in [1..n -> S] /\ \A i, j \in 1..n : i # j => list[i] # list[j]
    BY <1>7, <1>8
  <2> QED BY <1>2, <2>1 DEF SetToSeqs
<1>10. ASSUME NEW i \in DOMAIN list, NEW j \in DOMAIN list, i < j PROVE <<list[i], list[j]>> \in R
  <2>1. i \in 1..n /\ j \in 1..n
    BY <1>7
  <2>2. list[i] \in S /\ list[j] \in S /\ rank[list[i]] = i /\ rank[list[j]] = j
    BY <1>8, <2>1
  <2>3. ~(rank[list[j]] < rank[list[i]]) /\ list[i] # list[j]
    BY <1>10, <2>1, <2>2
  <2> QED BY <1>4, <2>2, <2>3
<1> QED BY <1>9, <1>10

\* A sequence of the elements of a set has each of them at one place.
LEMMA SeqOfSet ==
  ASSUME NEW S, IsFiniteSet(S), NEW list \in SetToSeqs(S)
  PROVE  /\ list \in Seq(S) /\ Len(list) = Cardinality(S)
         /\ {list[i] : i \in DOMAIN list} = S
         /\ \A i, j \in DOMAIN list : list[i] = list[j] => i = j
<1>1. PICK n \in Nat : n = Cardinality(S)
  BY FS_CardinalityType
<1>2. list \in [1..n -> S] /\ \A i, j \in 1..n : i # j => list[i] # list[j]
  BY <1>1 DEF SetToSeqs
<1>3. IsFiniteSet(1..n) /\ Cardinality(1..n) = Cardinality(S)
  BY <1>1, FS_Interval
<1>4. {list[i] : i \in 1..n} = S
  <2>1. PICK D : D = 1..n
    OBVIOUS
  <2>2. Cardinality(D) = Cardinality(S) /\ \A i \in D : list[i] \in S
    BY <1>2, <1>3, <2>1
  <2>3. \A i, j \in D : list[i] = list[j] => i = j
    BY <1>2, <2>1
  <2>4. {list[i] : i \in D} = S
    BY <2>2, <2>3, InjectionCovers
  <2> QED BY <2>1, <2>4
<1>5. list \in Seq(S) /\ Len(list) = n /\ DOMAIN list = 1..n
  BY <1>2
<1> QED BY <1>1, <1>2, <1>4, <1>5

\* A set has one enumeration in order.
LEMMA SortedIsUnique ==
  ASSUME NEW S, IsFiniteSet(S), NEW R, \A x, y \in S : <<x, y>> \in R => <<y, x>> \notin R,
         NEW a \in SetToSeqs(S), \A i, j \in DOMAIN a : i < j => <<a[i], a[j]>> \in R,
         NEW b \in SetToSeqs(S), \A i, j \in DOMAIN b : i < j => <<b[i], b[j]>> \in R
  PROVE  a = b
<1>1. PICK n \in Nat : n = Cardinality(S)
  BY FS_CardinalityType
<1>2. /\ a \in Seq(S) /\ Len(a) = n /\ {a[i] : i \in DOMAIN a} = S
      /\ \A i, j \in DOMAIN a : a[i] = a[j] => i = j
  BY <1>1, SeqOfSet
<1>3. /\ b \in Seq(S) /\ Len(b) = n /\ {b[i] : i \in DOMAIN b} = S
      /\ \A i, j \in DOMAIN b : b[i] = b[j] => i = j
  BY <1>1, SeqOfSet
<1>4. DOMAIN a = 1..n /\ DOMAIN b = 1..n
  BY <1>2, <1>3
<1> DEFINE N == {i \in 1..n : a[i] # b[i]}
<1>5. ASSUME N # {} PROVE FALSE
  <2>1. PICK i \in N : \A m \in N : i <= m
    <3>1. N \subseteq Nat
      OBVIOUS
    <3> HIDE DEF N
    <3> QED BY <1>5, <3>1, LeastNatural
  <2>2. i \in 1..n /\ a[i] # b[i] /\ \A m \in 1..n : m < i => a[m] = b[m]
    BY <2>1
  <2> HIDE DEF N
  <2>3. a[i] \in S /\ b[i] \in S
    BY <1>2, <1>3, <1>4, <2>2
  <2>4. PICK j \in 1..n : b[j] = a[i]
    BY <1>3, <1>4, <2>3
  <2>5. PICK k \in 1..n : a[k] = b[i]
    BY <1>2, <1>4, <2>3
  <2>6. j > i
    BY <1>2, <1>4, <2>2, <2>4
  <2>7. k > i
    BY <1>3, <1>4, <2>2, <2>5
  <2>8. <<b[i], a[i]>> \in R /\ <<a[i], b[i]>> \in R
    BY <1>4, <2>2, <2>4, <2>5, <2>6, <2>7
  <2> QED BY <2>3, <2>8
<1>6. \A i \in 1..n : a[i] = b[i]
  BY <1>5
<1> QED BY <1>2, <1>3, <1>4, <1>6

\* A sequence without repetition enumerates the set of its elements.
LEMMA EnumeratesItsSet ==
  ASSUME NEW S, NEW s \in Seq(S), \A i, j \in DOMAIN s : s[i] = s[j] => i = j
  PROVE  IsFiniteSet(ToSet(s)) /\ s \in SetToSeqs(ToSet(s))
<1>1. PICK n \in Nat : n = Len(s) /\ DOMAIN s = 1..n
  OBVIOUS
<1>2. PICK T : T = ToSet(s)
  OBVIOUS
<1>3. T = {s[i] : i \in 1..n}
  BY <1>1, <1>2 DEF ToSet
<1>4. s \in [1..n -> T]
  BY <1>1, <1>3
<1>5. ExistsBijection(1..n, T)
  <2>1. s \in Bijection(1..n, T)
    BY <1>1, <1>3, <1>4 DEF Bijection, Injection, Surjection, IsInjective
  <2> QED BY <2>1 DEF ExistsBijection
<1>6. IsFiniteSet(T) /\ Cardinality(T) = n
  BY <1>5, FS_CountingElements, FS_NatBijection
<1>7. s \in SetToSeqs(T)
  <2>1. SetToSeqs(T) = {f \in [1..n -> T] : \A i, j \in 1..n : i # j => f[i] # f[j]}
    BY <1>6 DEF SetToSeqs
  <2> QED BY <1>1, <1>4, <2>1
<1> QED BY <1>2, <1>6, <1>7

LEMMA MaxIn ==
  ASSUME NEW n \in Nat, NEW T \in SUBSET (1..n), T # {}
  PROVE  Max(T) \in T /\ \A y \in T : y <= Max(T)
<1>1. PICK N : N = {n - x : x \in T}
  OBVIOUS
<1>2. N \subseteq Nat /\ N # {}
  <2>1. \A x \in T : n - x \in Nat
    OBVIOUS
  <2> QED BY <1>1, <2>1
<1>3. PICK m \in N : \A k \in N : m <= k
  BY <1>2, LeastNatural
<1>4. PICK x \in T : m = n - x
  BY <1>1
<1>5. \A y \in T : x >= y
  BY <1>1, <1>3, <1>4
<1> QED BY <1>5 DEF Max

\* The first k places of a sequence, from the last of them on.
LEMMA InitialSegment ==
  ASSUME NEW k \in Nat, k # 0
  PROVE  Max(1..k) = k /\ (1..k) \ {k} = 1..(k - 1) /\ 1..k # {}
<1>1. k \in 1..k
  OBVIOUS
<1>2. PICK m : m = Max(1..k) /\ m \in 1..k /\ \A y \in 1..k : y <= m
  BY <1>1, MaxIn
<1>3. m = k
  BY <1>1, <1>2
<1> QED BY <1>1, <1>2, <1>3

IsLeftFold(base, n, G, g) ==
  g = [T \in SUBSET (1..n) |-> IF T = {} THEN base ELSE G[<<Max(T), g[T \ {Max(T)}]>>]]

\* The recursive function of FoldLeft exists, whatever function G stands for its operator.
LEMMA LeftFoldExists ==
  ASSUME NEW base, NEW n \in Nat, NEW A, base \in A, NEW G, \A k \in 1..n, a \in A : G[<<k, a>>] \in A
  PROVE  \E g : IsLeftFold(base, n, G, g) /\ g \in [SUBSET (1..n) -> A]
<1>1. PICK c : c = [T \in SUBSET (1..n) |-> Max(T)]
  OBVIOUS
<1>2. PICK S : S = 1..n
  OBVIOUS
<1>3. IsFiniteSet(S) /\ \A T \in SUBSET S : c[T] = Max(T)
  BY <1>1, <1>2, FS_Interval
<1>4. \A T \in SUBSET S : T # {} => c[T] \in T
  BY <1>2, <1>3, MaxIn
<1>5. PICK g : IsFold(base, c, G, S, g)
  BY <1>3, <1>4, FoldExists
<1>6. g \in [SUBSET S -> A]
  BY <1>2, <1>3, <1>4, <1>5, FoldTyped
<1>7. g = [T \in SUBSET S |-> IF T = {} THEN base ELSE G[<<c[T], g[T \ {c[T]}]>>]]
  BY <1>5 DEF IsFold
<1>8. [T \in SUBSET S |-> IF T = {} THEN base ELSE G[<<c[T], g[T \ {c[T]}]>>]]
      = [T \in SUBSET S |-> IF T = {} THEN base ELSE G[<<Max(T), g[T \ {Max(T)}]>>]]
  BY <1>3
<1>9. IsLeftFold(base, n, G, g)
  BY <1>2, <1>7, <1>8 DEF IsLeftFold
<1> QED BY <1>2, <1>6, <1>9
=============================================================================
