---- MODULE FoldLemmas ----
(***************************************************************************)
(* Induction over finite sets and over the natural numbers, stated for     *)
(* sets instead of predicates, and what follows from it for the folds of   *)
(* the community modules: a fold takes its steps, and what every step      *)
(* keeps holds of the result.  A module that proves something about a fold *)
(* instantiates this one with the operator it folds.                       *)
(***************************************************************************)
EXTENDS Naturals, FiniteSets, Folds, FiniteSetTheorems, NaturalsInduction, TLAPS

CONSTANTS
    Op(_, _, _),  \* Op(c, x, y): the step with element x after y, in context c
    Choice(_)     \* which element of a set goes last

\* The fold of Op over a finite set.
Fold(c, base, S) ==
    MapThenFoldSet(LAMBDA x, y : Op(c, x, y), base, LAMBDA x : x, LAMBDA s : Choice(s), S)

\* What holds of the empty set, and of a set with one element more, holds of every
\* finite set.
LEMMA FiniteSetInduction ==
    ASSUME NEW S, IsFiniteSet(S), NEW F, {} \in F,
           \A T \in SUBSET S : \A x \in S \ T : T \in F => T \cup {x} \in F
    PROVE  \A T \in SUBSET S : T \in F
<1> DEFINE Bad == {T \in SUBSET S : T \notin F}
<1>1. SUFFICES ASSUME Bad # {} PROVE FALSE
  OBVIOUS
<1>2. IsWellFoundedOn(StrictSubsetOrdering(S), SUBSET S)
  BY FS_StrictSubsetOrderingWellFounded, FS_FiniteSubsetsOfFinite
<1>3. PICK T \in Bad : \A U \in Bad : ~(<<U, T>> \in StrictSubsetOrdering(S))
  <2>1. Bad \subseteq SUBSET S
    OBVIOUS
  <2>q. QED BY ONLY <1>1, <1>2, <2>1, WFMin
<1>4. PICK x \in T : TRUE
  OBVIOUS
<1> DEFINE U == T \ {x}
<1>5. U \in SUBSET S /\ x \in S \ U /\ U \cup {x} = T /\ U # T
  OBVIOUS
<1>6. U \notin F
  BY <1>5
<1>7. <<U, T>> \in StrictSubsetOrdering(S)
  BY <1>5 DEF StrictSubsetOrdering
<1>q. QED
  BY <1>3, <1>5, <1>6, <1>7

\* What holds of zero and of the next number holds of every number.
LEMMA NatSetInduction ==
    ASSUME NEW T, 0 \in T, \A n \in Nat : n \in T => n + 1 \in T
    PROVE  \A n \in Nat : n \in T
<1> DEFINE S == {n \in Nat : n \notin T}
<1>1. SUFFICES ASSUME S # {} PROVE FALSE
  OBVIOUS
<1>2. S \subseteq Nat
  OBVIOUS
<1> DEFINE R == OpToRel(<,Nat)
<1>0. IsWellFoundedOn(R, Nat)
  BY NatLessThanWellFounded
<1>3. PICK n \in S : \A m \in S : ~(<<m, n>> \in R)
  <2> HIDE DEF R, S
  <2>q. QED BY <1>0, <1>1, <1>2, WFMin
<1>4. n # 0 /\ n \in Nat
  OBVIOUS
<1>5. n - 1 \in Nat /\ n = (n - 1) + 1 /\ n - 1 < n
  BY <1>4
<1>6. n - 1 \in T
  <2>1. <<n-1, n>> \in R
    BY <1>5, <1>4 DEF OpToRel
  <2> HIDE DEF R
  <2>q. QED BY <1>3, <1>5, <2>1
<1>q. QED
  BY <1>3, <1>5, <1>6

\* A set without what Choice takes from it is smaller.
LEMMA SizeStep ==
    ASSUME NEW S, IsFiniteSet(S), \A s \in SUBSET S : s # {} => Choice(s) \in s
    PROVE  /\ \A s \in SUBSET S : IsFiniteSet(s) /\ Cardinality(s) \in Nat
           /\ \A s \in SUBSET S : Cardinality(s) <= Cardinality(S)
           /\ \A s \in SUBSET S : Cardinality(s) <= 0 => s = {}
           /\ \A s \in SUBSET S : s # {} =>
                 s \ {Choice(s)} \in SUBSET S /\ Cardinality(s \ {Choice(s)}) = Cardinality(s) - 1
<1>1. \A s \in SUBSET S : IsFiniteSet(s) /\ Cardinality(s) \in Nat /\ Cardinality(s) <= Cardinality(S)
  BY FS_Subset, FS_CardinalityType
<1>2. ASSUME NEW s \in SUBSET S, Cardinality(s) <= 0 PROVE s = {}
  <2>1. Cardinality(s) = 0 /\ IsFiniteSet(s)
    BY <1>1, <1>2
  <2>q. QED
    BY <2>1, FS_EmptySet
<1>3. \A s \in SUBSET S : s # {} => s \ {Choice(s)} \in SUBSET S /\ Cardinality(s \ {Choice(s)}) = Cardinality(s) - 1
  BY <1>1, FS_RemoveElement
<1>q. QED
  BY <1>1, <1>2, <1>3

\* What holds of the empty set, and of a set once it holds of the set without what
\* Choice takes from it, holds of every finite set.
LEMMA ChoiceInduction ==
    ASSUME NEW S, IsFiniteSet(S), \A s \in SUBSET S : s # {} => Choice(s) \in s,
           NEW F, {} \in F,
           \A s \in SUBSET S : s # {} /\ s \ {Choice(s)} \in F => s \in F
    PROVE  \A s \in SUBSET S : s \in F
<1> DEFINE T == {n \in Nat : \A s \in SUBSET S : Cardinality(s) <= n => s \in F}
<1>1. 0 \in T
  BY SizeStep
<1>2. ASSUME NEW n \in Nat, n \in T PROVE n + 1 \in T
  <2>1. ASSUME NEW s \in SUBSET S, Cardinality(s) <= n + 1, s # {} PROVE s \in F
    <3>1. s \ {Choice(s)} \in SUBSET S /\ Cardinality(s \ {Choice(s)}) <= n
      BY <2>1, SizeStep
    <3>q. QED
      BY <1>2, <2>1, <3>1
  <2>2. n + 1 \in Nat
    OBVIOUS
  <2>q. QED
    BY <2>1, <2>2
<1>3. \A n \in Nat : n \in T
  <2> HIDE DEF T
  <2>q. QED
    BY <1>1, <1>2, NatSetInduction
<1>4. TAKE s \in SUBSET S
<1>5. Cardinality(s) \in T
  <2> HIDE DEF T
  <2>q. QED
    BY <1>3, SizeStep
<1>q. QED
  BY <1>5, SizeStep

\* g gives the fold of every set of D.
Folds(g, c, base, D) ==
    g = [s \in D |-> IF s = {} THEN base ELSE Op(c, Choice(s), g[s \ {Choice(s)}])]

\* g gives the fold of every subset of S.
AllFolds(g, c, base, S) == Folds(g, c, base, SUBSET S)

\* There is a function that gives the folds of all subsets.
LEMMA FoldExists ==
    ASSUME NEW S, IsFiniteSet(S), \A s \in SUBSET S : s # {} => Choice(s) \in s, NEW c, NEW base
    PROVE  \E g : AllFolds(g, c, base, S)
<1> DEFINE Small(n) == {s \in SUBSET S : Cardinality(s) <= n}
<1> DEFINE T == {n \in Nat : \E g : Folds(g, c, base, Small(n))}
<1>1. 0 \in T
  <2> DEFINE g == [s \in Small(0) |-> base]
  <2>1. \A s \in Small(0) : s = {}
    BY SizeStep
  <2>2. Folds(g, c, base, Small(0))
    BY <2>1 DEF Folds
  <2>3. \E k : Folds(k, c, base, Small(0))
    <3> HIDE DEF g, Small
    <3>q. QED
      BY <2>2
  <2>q. QED
    BY <2>3
<1>2. ASSUME NEW n \in Nat, n \in T PROVE n + 1 \in T
  <2>1. PICK g : Folds(g, c, base, Small(n))
    BY <1>2
  <2> DEFINE h == [s \in Small(n+1) |-> IF s = {} THEN base ELSE Op(c, Choice(s), g[s \ {Choice(s)}])]
  <2>2. \A s \in Small(n+1) : s # {} => s \ {Choice(s)} \in Small(n)
    BY SizeStep
  <2>3. \A s \in Small(n) : s \in Small(n+1)
    BY SizeStep
  <2>4. \A s \in Small(n) : h[s] = g[s]
    BY <2>1, <2>3 DEF Folds
  <2>5. Folds(h, c, base, Small(n+1))
    <3>1. \A s \in Small(n+1) : s # {} => h[s \ {Choice(s)}] = g[s \ {Choice(s)}]
      <4> HIDE DEF h, Small
      <4>q. QED
        BY <2>2, <2>4
    <3>q. QED
      BY <3>1 DEF Folds
  <2>6. \E k : Folds(k, c, base, Small(n+1))
    <3> HIDE DEF h, Small
    <3>q. QED
      BY <2>5
  <2>7. n + 1 \in Nat
    OBVIOUS
  <2> HIDE DEF h, Small
  <2>q. QED
    BY <2>6, <2>7
<1>3. Cardinality(S) \in T
  <2> HIDE DEF T
  <2>1. \A n \in Nat : n \in T
    BY <1>1, <1>2, NatSetInduction
  <2>q. QED
    BY <2>1, FS_CardinalityType
<1>4. Small(Cardinality(S)) = SUBSET S
  BY SizeStep
<1>5. \E g : Folds(g, c, base, Small(Cardinality(S)))
  <2> HIDE DEF Small
  <2>q. QED
    BY <1>3
<1>q. QED
  BY <1>4, <1>5 DEF AllFolds

\* The fold of a set is given by such a function.
LEMMA FoldIsOne ==
    ASSUME NEW S, IsFiniteSet(S), \A s \in SUBSET S : s # {} => Choice(s) \in s, NEW c, NEW base
    PROVE  \E g : AllFolds(g, c, base, S) /\ Fold(c, base, S) = g[S]
<1> DEFINE Eq(i) == i = [s \in SUBSET S |-> IF s = {} THEN base ELSE Op(c, Choice(s), i[s \ {Choice(s)}])]
<1> DEFINE k == CHOOSE i : Eq(i)
<1>1. Fold(c, base, S) = k[S]
  BY DEF Fold, MapThenFoldSet
<1>2. \E i : Eq(i)
  <2>1. PICK g : AllFolds(g, c, base, S)
    BY FoldExists
  <2>2. Eq(g)
    BY <2>1 DEF AllFolds, Folds
  <2> HIDE DEF Eq
  <2>q. QED
    BY <2>2
<1>3. Eq(k)
  <2> HIDE DEF Eq
  <2>q. QED
    BY <1>2
<1>4. AllFolds(k, c, base, S)
  <2> HIDE DEF k
  <2>q. QED
    BY <1>3 DEF AllFolds, Folds
<1> HIDE DEF k
<1>q. QED
  BY <1>1, <1>4

\* Two such functions agree where both are defined.
LEMMA FoldsAgree ==
    ASSUME NEW S, NEW R \in SUBSET S, IsFiniteSet(R),
           \A s \in SUBSET R : s # {} => Choice(s) \in s,
           NEW c, NEW base, NEW g, AllFolds(g, c, base, S), NEW h, AllFolds(h, c, base, R)
    PROVE  g[R] = h[R]
<1> DEFINE F == {s \in SUBSET R : g[s] = h[s]}
<1>1. \A s \in SUBSET R :
         /\ g[s] = IF s = {} THEN base ELSE Op(c, Choice(s), g[s \ {Choice(s)}])
         /\ h[s] = IF s = {} THEN base ELSE Op(c, Choice(s), h[s \ {Choice(s)}])
  <2>1. SUBSET R \subseteq SUBSET S
    OBVIOUS
  <2>2. \A s \in SUBSET S : g[s] = IF s = {} THEN base ELSE Op(c, Choice(s), g[s \ {Choice(s)}])
    BY DEF AllFolds, Folds
  <2>3. \A s \in SUBSET R : h[s] = IF s = {} THEN base ELSE Op(c, Choice(s), h[s \ {Choice(s)}])
    BY DEF AllFolds, Folds
  <2>q. QED
    BY <2>1, <2>2, <2>3
<1>2. {} \in F
  BY <1>1
<1>3. \A s \in SUBSET R : s # {} /\ s \ {Choice(s)} \in F => s \in F
  BY <1>1
<1>4. \A s \in SUBSET R : s \in F
  <2> HIDE DEF F
  <2>q. QED
    BY <1>2, <1>3, ChoiceInduction
<1>q. QED
  BY <1>4

\* A fold starts with its base and takes one step for each element.
LEMMA FoldStep ==
    ASSUME NEW S, IsFiniteSet(S), \A s \in SUBSET S : s # {} => Choice(s) \in s, NEW c, NEW base
    PROVE  Fold(c, base, S) = IF S = {} THEN base
                              ELSE Op(c, Choice(S), Fold(c, base, S \ {Choice(S)}))
<1>1. PICK g : AllFolds(g, c, base, S) /\ Fold(c, base, S) = g[S]
  BY FoldIsOne
<1>2. g[S] = IF S = {} THEN base ELSE Op(c, Choice(S), g[S \ {Choice(S)}])
  BY <1>1 DEF AllFolds, Folds
<1> DEFINE R == S \ {Choice(S)}
<1>3. R \in SUBSET S /\ IsFiniteSet(R) /\ \A s \in SUBSET R : s # {} => Choice(s) \in s
  BY FS_Subset
<1>4. g[R] = Fold(c, base, R)
  <2> HIDE DEF R
  <2>1. PICK h : AllFolds(h, c, base, R) /\ Fold(c, base, R) = h[R]
    BY <1>3, FoldIsOne
  <2>2. g[R] = h[R]
    BY <1>1, <1>3, <2>1, FoldsAgree
  <2>q. QED
    BY <2>1, <2>2
<1>q. QED
  BY <1>1, <1>2, <1>4

\* What the base has, and every step keeps, holds of the result.  W[s] is what holds
\* once the elements of s are done.
LEMMA FoldInvariant ==
    ASSUME NEW S, IsFiniteSet(S), \A s \in SUBSET S : s # {} => Choice(s) \in s, NEW c, NEW base,
           NEW W, base \in W[{}],
           \A s \in SUBSET S : \A x \in s : \A y \in W[s \ {x}] :
               x = Choice(s) => Op(c, x, y) \in W[s]
    PROVE  Fold(c, base, S) \in W[S]
<1> DEFINE F == {s \in SUBSET S : Fold(c, base, s) \in W[s]}
<1>1. \A s \in SUBSET S : /\ IsFiniteSet(s) 
                          /\ \A u \in SUBSET s : u # {} => Choice(u) \in u
  BY FS_Subset
<1>2. \A s \in SUBSET S : Fold(c, base, s) = IF s = {} THEN base
                              ELSE Op(c, Choice(s), Fold(c, base, s \ {Choice(s)}))
  BY <1>1, FoldStep
<1>3. {} \in F
  BY <1>2
<1>4. \A s \in SUBSET S : s # {} /\ s \ {Choice(s)} \in F => s \in F
  BY <1>2
<1>5. S \in F
  <2> HIDE DEF F
  <2>q. QED
    BY <1>3, <1>4, ChoiceInduction
<1>q. QED
  BY <1>5

\* h starts with base and takes a step from each number to the next.
Iterates(h, c, base, D) == h = [k \in D |-> IF k = 0 THEN base ELSE Op(c, k, h[k - 1])]

\* Such functions agree where both are defined.
LEMMA IterationsAgree ==
    ASSUME NEW c, NEW base, NEW m \in Nat, NEW n \in Nat, m <= n,
           NEW g, Iterates(g, c, base, 0..m), NEW h, Iterates(h, c, base, 0..n)
    PROVE  \A k \in 0..m : g[k] = h[k]
<1> DEFINE T == {k \in Nat : k <= m => g[k] = h[k]}
<1>1. \A k \in 0..m : g[k] = IF k = 0 THEN base ELSE Op(c, k, g[k - 1])
  BY DEF Iterates
<1>2. \A k \in 0..n : h[k] = IF k = 0 THEN base ELSE Op(c, k, h[k - 1])
  BY DEF Iterates
<1>3. 0 \in T
  BY <1>1, <1>2
<1>4. ASSUME NEW k \in Nat, k \in T PROVE k + 1 \in T
  <2>1. CASE k + 1 <= m
    <3>1. k + 1 \in 0..m /\ k + 1 \in 0..n /\ (k + 1) - 1 = k /\ k + 1 # 0
      BY <2>1
    <3>2. g[k] = h[k]
      BY <1>4, <2>1
    <3>3. g[k + 1] = Op(c, k + 1, g[k]) /\ h[k + 1] = Op(c, k + 1, h[k])
      BY <1>1, <1>2, <3>1
    <3>q. QED
      BY <3>2, <3>3
  <2>2. CASE ~(k + 1 <= m)
    BY <2>2
  <2>q. QED
    BY <2>1, <2>2
<1>5. \A k \in Nat : k \in T
  <2> HIDE DEF T
  <2>q. QED
    BY <1>3, <1>4, NatSetInduction
<1>q. QED
  BY <1>5

\* There is one up to every number.
LEMMA IterationReaches ==
    ASSUME NEW c, NEW base
    PROVE  \A n \in Nat : \E g : Iterates(g, c, base, 0..n)
<1> DEFINE T == {n \in Nat : \E g : Iterates(g, c, base, 0..n)}
<1>1. 0 \in T
  <2> DEFINE g == [k \in 0..0 |-> base]
  <2>1. Iterates(g, c, base, 0..0)
    BY DEF Iterates
  <2> HIDE DEF g
  <2>q. QED
    BY <2>1
<1>2. ASSUME NEW n \in Nat, n \in T PROVE n + 1 \in T
  <2>1. PICK g : Iterates(g, c, base, 0..n)
    BY <1>2
  <2> DEFINE h == [k \in 0..(n + 1) |-> IF k = 0 THEN base ELSE Op(c, k, g[k - 1])]
  <2>2. \A k \in 0..n : h[k] = g[k]
    BY <2>1 DEF Iterates
  <2>3. \A k \in 0..(n + 1) : k # 0 => k - 1 \in 0..n
    OBVIOUS
  <2>4. \A k \in 0..(n + 1) : k # 0 => h[k - 1] = g[k - 1]
    <3> HIDE DEF h
    <3>q. QED
      BY <2>2, <2>3
  <2>5. Iterates(h, c, base, 0..(n + 1))
    BY <2>4 DEF Iterates
  <2> HIDE DEF h
  <2>6. n + 1 \in Nat
    OBVIOUS
  <2>q. QED
    BY <2>5, <2>6
<1>q. QED
  <2>1. \A n \in Nat : n \in T
    <3> HIDE DEF T
    <3>q. QED
      BY <1>1, <1>2, NatSetInduction
  <2>q. QED
    BY <2>1

\* The recursive function that does it for ever.
Iteration(c, base) ==
    LET h[k \in Nat] == IF k = 0 THEN base ELSE Op(c, k, h[k - 1])
    IN  h

\* The recursive function takes its steps.
LEMMA IterationStep ==
    ASSUME NEW c, NEW base
    PROVE  /\ Iteration(c, base)[0] = base
           /\ \A k \in Nat : Iteration(c, base)[k + 1] = Op(c, k + 1, Iteration(c, base)[k])
<1> DEFINE Eq(g) == g = [k \in Nat |-> IF k = 0 THEN base ELSE Op(c, k, g[k - 1])]
<1> DEFINE upto(n) == CHOOSE g : Iterates(g, c, base, 0..n)
<1> DEFINE f == [k \in Nat |-> upto(k)[k]]
<1> DEFINE h == CHOOSE g : Eq(g)
<1>1. \A n \in Nat : Iterates(upto(n), c, base, 0..n)
  BY IterationReaches
<1>2. ASSUME NEW k \in Nat, k # 0 PROVE upto(k)[k] = Op(c, k, upto(k - 1)[k - 1])
  <2>0. k - 1 \in Nat /\ k - 1 <= k /\ k - 1 \in 0..(k - 1) /\ k \in 0..k
    BY <1>2
  <2>1. upto(k)[k] = Op(c, k, upto(k)[k - 1])
    <3> HIDE DEF upto
    <3>1. upto(k) = [j \in 0..k |-> IF j = 0 THEN base ELSE Op(c, j, upto(k)[j - 1])]
      BY <1>1 DEF Iterates
    <3>q. QED
      BY <1>2, <2>0, <3>1
  <2>2. upto(k - 1)[k - 1] = upto(k)[k - 1]
    <3>1. Iterates(upto(k - 1), c, base, 0..(k - 1)) /\ Iterates(upto(k), c, base, 0..k)
      BY <1>1, <2>0
    <3> HIDE DEF upto
    <3>q. QED
      BY <2>0, <3>1, IterationsAgree
  <2>q. QED
    BY <2>1, <2>2
<1>3. upto(0)[0] = base
  <2> HIDE DEF upto
  <2>1. upto(0) = [j \in 0..0 |-> IF j = 0 THEN base ELSE Op(c, j, upto(0)[j - 1])]
    BY <1>1 DEF Iterates
  <2>q. QED
    BY <2>1
<1>4. Eq(f)
  <2> HIDE DEF upto
  <2>1. \A k \in Nat : k # 0 => k - 1 \in Nat
    OBVIOUS
  <2>2. \A k \in Nat : f[k] = IF k = 0 THEN base ELSE Op(c, k, f[k - 1])
    BY <1>2, <1>3, <2>1
  <2>q. QED
    BY <2>2
<1>5. Eq(h)
  <2> HIDE DEF f, Eq
  <2>q. QED
    BY <1>4
<1>6. \A k \in Nat : h[k] = IF k = 0 THEN base ELSE Op(c, k, h[k - 1])
  <2> HIDE DEF h
  <2>q. QED
    BY <1>5
<1>7. h[0] = base /\ \A k \in Nat : h[k + 1] = Op(c, k + 1, h[k])
  <2> HIDE DEF h
  <2>1. \A k \in Nat : k + 1 \in Nat /\ k + 1 # 0 /\ (k + 1) - 1 = k
    OBVIOUS
  <2>q. QED
    BY <1>6, <2>1
<1>8. Iteration(c, base) = h
  BY DEF Iteration
<1> HIDE DEF h
<1>q. QED
  BY <1>7, <1>8
====
