---------------------------- MODULE BuilderProofs ----------------------------
(***************************************************************************)
(* What holds of every document that may be published and of every run of  *)
(* it: the back edges cut every loop and nothing else, the run keeps its   *)
(* types, and a derived run bills nothing that it replays.  A whole run    *)
(* serves every join, reaches an output and stays within its price, where  *)
(* its loops return and nest.                                              *)
(***************************************************************************)
EXTENDS BuilderFlow, FiniteSetTheorems, SequenceTheorems, TLAPS

\* A choice among the elements of a set.
AnyOf(s) == CHOOSE x \in s : TRUE

\* The depth-first search of d, one step after the other.
SearchOne(d, k, s) == SearchStep(d, s)

\* Induction, and the search as a sequence of steps.
Searches == INSTANCE FoldLemmas WITH Op <- SearchOne, Choice <- AnyOf

-----------------------------------------------------------------------------
(* Reachability.                                                            *)

\* Pairs lead out of a set to itself only.
Closed(C, pairs) == \A p \in pairs : p[1] \in C => p[2] \in C

\* A set with what its members lead to.
Grown(seen, pairs) == seen \union {p[2] : p \in {q \in pairs : q[1] \in seen}}

\* The members of the closed subsets of U around a set that are in all of them.
Closure(U, seen, pairs) ==
    {x \in U : \A C \in SUBSET U : seen \subseteq C /\ Closed(C, pairs) => x \in C}

\* The recursive function of Reachable.
Grows(g, U, pairs) ==
    g = [seen \in SUBSET U |-> IF Grown(seen, pairs) = seen THEN seen ELSE g[Grown(seen, pairs)]]

\* A set grows inside the universe, and what is closed does not grow.
LEMMA GrownFacts ==
    ASSUME NEW pairs, NEW U, \A p \in pairs : p[2] \in U, NEW seen \in SUBSET U
    PROVE  /\ Grown(seen, pairs) \in SUBSET U /\ seen \subseteq Grown(seen, pairs)
           /\ (Grown(seen, pairs) = seen) = Closed(seen, pairs)
           /\ \A C : seen \subseteq C /\ Closed(C, pairs) => Grown(seen, pairs) \subseteq C
           /\ Grown(seen, pairs) = seen => Closure(U, seen, pairs) = seen
           /\ Closure(U, Grown(seen, pairs), pairs) = Closure(U, seen, pairs)
<1>1. /\ Grown(seen, pairs) \in SUBSET U /\ seen \subseteq Grown(seen, pairs)
      /\ (Grown(seen, pairs) = seen) = Closed(seen, pairs)
      /\ \A C : seen \subseteq C /\ Closed(C, pairs) => Grown(seen, pairs) \subseteq C
  BY DEF Grown, Closed
<1>2. Grown(seen, pairs) = seen => Closure(U, seen, pairs) = seen
  BY <1>1 DEF Closure
<1>3. \A C \in SUBSET U : Closed(C, pairs) => (Grown(seen, pairs) \subseteq C) = (seen \subseteq C)
  BY <1>1
<1>4. Closure(U, Grown(seen, pairs), pairs) = Closure(U, seen, pairs)
  BY <1>3 DEF Closure
<1>q. QED
  BY <1>1, <1>2, <1>4

\* The closure solves the recursion.
LEMMA ClosureGrows ==
    ASSUME NEW pairs, NEW U, \A p \in pairs : p[2] \in U
    PROVE  Grows([seen \in SUBSET U |-> Closure(U, seen, pairs)], U, pairs)
<1> DEFINE g == [seen \in SUBSET U |-> Closure(U, seen, pairs)]
<1>1. \A seen \in SUBSET U :
         g[seen] = IF Grown(seen, pairs) = seen THEN seen ELSE g[Grown(seen, pairs)]
  BY GrownFacts
<1>q. QED
  BY <1>1 DEF Grows

\* No other function does.
LEMMA GrowsIsClosure ==
    ASSUME NEW pairs, NEW U, IsFiniteSet(U), \A p \in pairs : p[2] \in U, NEW g, Grows(g, U, pairs)
    PROVE  \A seen \in SUBSET U : g[seen] = Closure(U, seen, pairs)
<1> DEFINE T == {n \in Nat : \A seen \in SUBSET U :
                    Cardinality(U \ seen) <= n => g[seen] = Closure(U, seen, pairs)}
<1>1. \A seen \in SUBSET U :
         /\ g[seen] = IF Grown(seen, pairs) = seen THEN seen ELSE g[Grown(seen, pairs)]
         /\ Cardinality(U \ seen) \in Nat
         /\ Cardinality(U \ seen) <= 0 => Grown(seen, pairs) = seen
         /\ Grown(seen, pairs) # seen =>
               /\ Grown(seen, pairs) \in SUBSET U
               /\ Cardinality(U \ Grown(seen, pairs)) < Cardinality(U \ seen)
  <2>1. TAKE seen \in SUBSET U
  <2> DEFINE more == Grown(seen, pairs)
  <2>2. g[seen] = IF more = seen THEN seen ELSE g[more]
    BY DEF Grows
  <2>3. more \in SUBSET U /\ seen \subseteq more
    BY GrownFacts
  <2> HIDE DEF more
  <2>4. IsFiniteSet(U \ seen) /\ Cardinality(U \ seen) \in Nat
    BY FS_Difference, FS_CardinalityType
  <2>5. ASSUME Cardinality(U \ seen) <= 0 PROVE more = seen
    <3>1. U \ seen = {}
      BY <2>4, <2>5, FS_EmptySet
    <3>q. QED
      BY <2>3, <3>1
  <2>6. ASSUME more # seen PROVE Cardinality(U \ more) < Cardinality(U \ seen)
    <3>1. U \ more \subseteq U \ seen /\ U \ more # U \ seen
      BY <2>3, <2>6
    <3>q. QED
      BY <2>4, <3>1, FS_Subset, FS_CardinalityType
  <2>q. QED
    BY <2>2, <2>3, <2>4, <2>5, <2>6 DEF more
<1>2. 0 \in T
  BY <1>1, GrownFacts
<1>3. ASSUME NEW n \in Nat, n \in T PROVE n + 1 \in T
  <2>1. ASSUME NEW seen \in SUBSET U, Cardinality(U \ seen) <= n + 1
        PROVE  g[seen] = Closure(U, seen, pairs)
    <3>1. CASE Grown(seen, pairs) = seen
      BY <1>1, <3>1, GrownFacts
    <3>2. CASE Grown(seen, pairs) # seen
      <4> DEFINE more == Grown(seen, pairs)
      <4>1. /\ g[seen] = g[more] /\ more \in SUBSET U
            /\ Closure(U, more, pairs) = Closure(U, seen, pairs)
        BY <1>1, <3>2, GrownFacts
      <4>2. Cardinality(U \ more) < Cardinality(U \ seen)
            /\ Cardinality(U \ more) \in Nat /\ Cardinality(U \ seen) \in Nat
        BY <1>1, <3>2, <4>1
      <4> HIDE DEF more
      <4>3. Cardinality(U \ more) <= n
        BY <2>1, <4>2
      <4>q. QED
        BY <1>3, <4>1, <4>3
    <3>q. QED
      BY <3>1, <3>2
  <2>2. n + 1 \in Nat
    OBVIOUS
  <2>q. QED
    BY <2>1, <2>2
<1>4. \A n \in Nat : n \in T
  <2> HIDE DEF T
  <2>q. QED
    BY <1>2, <1>3, Searches!NatSetInduction
<1>5. TAKE seen \in SUBSET U
<1>6. Cardinality(U \ seen) \in T
  <2> HIDE DEF T
  <2>q. QED
    BY <1>1, <1>4
<1>7. Cardinality(U \ seen) \in Nat
  BY FS_Difference, FS_CardinalityType
<1>8. Cardinality(U \ seen) <= Cardinality(U \ seen)
  <2> HIDE DEF T
  <2>q. QED
    BY <1>7
<1>q. QED
  BY <1>6, <1>8

\* What is reachable from some nodes is the least closed set around them
\* (bounds.py _reachable).
LEMMA ReachableIsLeast ==
    ASSUME NEW starts, NEW pairs, IsFiniteSet(starts \union {p[2] : p \in pairs})
    PROVE  /\ starts \subseteq Reachable(starts, pairs)
           /\ Closed(Reachable(starts, pairs), pairs)
           /\ \A C : starts \subseteq C /\ Closed(C, pairs) => Reachable(starts, pairs) \subseteq C
<1> DEFINE U == starts \union {p[2] : p \in pairs}
<1> DEFINE g == CHOOSE f : Grows(f, U, pairs)
<1>1. Reachable(starts, pairs) = g[starts]
  BY DEF Reachable, Grows, Grown
<1>2. \A p \in pairs : p[2] \in U
  OBVIOUS
<1>3. starts \in SUBSET U /\ IsFiniteSet(U)
  OBVIOUS
<1> HIDE DEF U
<1>4. Grows(g, U, pairs)
  BY <1>2, ClosureGrows
<1> HIDE DEF g
<1>5. Reachable(starts, pairs) = Closure(U, starts, pairs)
  BY <1>1, <1>2, <1>3, <1>4, GrowsIsClosure
<1>6. \A C : starts \subseteq C /\ Closed(C, pairs) => Closed(C \intersect U, pairs)
  BY <1>2 DEF Closed
<1>7. Closed(Closure(U, starts, pairs), pairs)
  BY <1>2 DEF Closure, Closed
<1>8. starts \subseteq Closure(U, starts, pairs)
  BY <1>3 DEF Closure
<1>9. ASSUME NEW C, starts \subseteq C, Closed(C, pairs) PROVE Closure(U, starts, pairs) \subseteq C
  <2>1. C \intersect U \in SUBSET U /\ starts \subseteq C \intersect U
    BY <1>3, <1>9
  <2>q. QED
    BY <1>6, <1>9, <2>1 DEF Closure
<1>q. QED
  BY <1>5, <1>7, <1>8, <1>9

-----------------------------------------------------------------------------
(* The depth-first search.                                                  *)

\* A sequence has the members of another one and x.
LEMMA ToSetAdds ==
    ASSUME NEW s, NEW t, NEW x,
           \A p \in DOMAIN t : t[p] = x \/ \E q \in DOMAIN s : t[p] = s[q],
           \A q \in DOMAIN s : \E p \in DOMAIN t : s[q] = t[p],
           \E p \in DOMAIN t : t[p] = x
    PROVE  ToSet(t) = ToSet(s) \union {x}
  BY DEF ToSet

\* A sequence with one element more in front of it.
LEMMA PushFacts ==
    ASSUME NEW S, NEW s, s \in Seq(S), NEW x, x \in S, NEW t, t = <<x>> \o s
    PROVE  /\ t \in Seq(S) /\ Len(t) = Len(s) + 1 /\ t[1] = x
           /\ DOMAIN t = 1..(Len(s) + 1) /\ DOMAIN s = 1..Len(s) /\ Len(s) \in Nat
           /\ \A p \in 1..Len(s) : t[p + 1] = s[p]
           /\ \A p \in 2..(Len(s) + 1) : p - 1 \in 1..Len(s) /\ t[p] = s[p - 1]
           /\ ToSet(t) = ToSet(s) \union {x}
<1>1. /\ t \in Seq(S) /\ Len(t) = Len(s) + 1 /\ t[1] = x
      /\ DOMAIN t = 1..(Len(s) + 1) /\ DOMAIN s = 1..Len(s) /\ Len(s) \in Nat
  OBVIOUS
<1>2. \A p \in 1..Len(s) : t[p + 1] = s[p]
  OBVIOUS
<1>3. \A p \in 2..(Len(s) + 1) : p - 1 \in 1..Len(s) /\ t[p] = s[p - 1]
  OBVIOUS
<1>4. ToSet(t) = ToSet(s) \union {x}
  <2>1. \A p \in 1..(Len(s) + 1) : p = 1 \/ p \in 2..(Len(s) + 1)
    BY <1>1
  <2>2. \A p \in 1..Len(s) : p + 1 \in 1..(Len(s) + 1)
    BY <1>1
  <2>3. 1 \in 1..(Len(s) + 1)
    BY <1>1
  <2>4. \A p \in DOMAIN t : t[p] = x \/ \E q \in DOMAIN s : t[p] = s[q]
    BY <1>1, <1>3, <2>1
  <2>5. \A q \in DOMAIN s : \E p \in DOMAIN t : s[q] = t[p]
    BY <1>1, <1>2, <2>2
  <2>6. \E p \in DOMAIN t : t[p] = x
    BY <1>1, <2>3
  <2>q. QED
    BY ONLY <2>4, <2>5, <2>6, ToSetAdds
<1>q. QED
  BY <1>1, <1>2, <1>3, <1>4

\* A sequence without its first element.
LEMMA PopFacts ==
    ASSUME NEW S, NEW s, s \in Seq(S), s # <<>>, NEW t, t = Tail(s)
    PROVE  /\ t \in Seq(S) /\ Len(s) \in Nat \ {0} /\ Len(t) = Len(s) - 1 /\ Head(s) = s[1] /\ s[1] \in S
           /\ DOMAIN s = 1..Len(s) /\ DOMAIN t = 1..(Len(s) - 1)
           /\ \A p \in 1..(Len(s) - 1) : t[p] = s[p + 1]
           /\ \A p \in 2..Len(s) : p - 1 \in 1..(Len(s) - 1) /\ s[p] = t[p - 1]
           /\ ToSet(s) = ToSet(t) \union {s[1]}
<1>1. /\ t \in Seq(S) /\ Len(s) \in Nat \ {0} /\ Len(t) = Len(s) - 1 /\ Head(s) = s[1] /\ s[1] \in S
      /\ DOMAIN s = 1..Len(s) /\ DOMAIN t = 1..(Len(s) - 1)
  OBVIOUS
<1>2. \A p \in 1..(Len(s) - 1) : t[p] = s[p + 1]
  OBVIOUS
<1>3. \A p \in 2..Len(s) : p - 1 \in 1..(Len(s) - 1) /\ s[p] = t[p - 1]
  <2>1. TAKE p \in 2..Len(s)
  <2>2. p - 1 \in 1..(Len(s) - 1) /\ (p - 1) + 1 = p
    BY <1>1
  <2>q. QED
    BY <1>2, <2>2
<1>4. ToSet(s) = ToSet(t) \union {s[1]}
  <2>1. \A p \in 1..Len(s) : p = 1 \/ p \in 2..Len(s)
    BY <1>1
  <2>2. \A p \in 1..(Len(s) - 1) : p + 1 \in 1..Len(s)
    BY <1>1
  <2>3. 1 \in 1..Len(s)
    BY <1>1
  <2>4. \A p \in DOMAIN s : s[p] = s[1] \/ \E q \in DOMAIN t : s[p] = t[q]
    BY <1>1, <1>3, <2>1
  <2>5. \A q \in DOMAIN t : \E p \in DOMAIN s : t[q] = s[p]
    BY <1>1, <1>2, <2>2
  <2>6. \E p \in DOMAIN s : s[p] = s[1]
    BY <1>1, <2>3
  <2>q. QED
    BY ONLY <2>4, <2>5, <2>6, ToSetAdds
<1>q. QED
  BY <1>1, <1>2, <1>3, <1>4

\* A sequence with one element more at its end.
LEMMA AppendFacts ==
    ASSUME NEW S, NEW s, s \in Seq(S), NEW x, x \in S, NEW t, t = Append(s, x)
    PROVE  /\ t \in Seq(S) /\ Len(t) = Len(s) + 1 /\ t[Len(s) + 1] = x
           /\ DOMAIN t = 1..(Len(s) + 1) /\ DOMAIN s = 1..Len(s) /\ Len(s) \in Nat
           /\ \A p \in 1..Len(s) : t[p] = s[p]
           /\ ToSet(t) = ToSet(s) \union {x}
<1>1. /\ t \in Seq(S) /\ Len(t) = Len(s) + 1 /\ t[Len(s) + 1] = x
      /\ DOMAIN t = 1..(Len(s) + 1) /\ DOMAIN s = 1..Len(s) /\ Len(s) \in Nat
  OBVIOUS
<1>2. \A p \in 1..Len(s) : t[p] = s[p]
  OBVIOUS
<1>3. ToSet(t) = ToSet(s) \union {x}
  <2>1. \A p \in 1..(Len(s) + 1) : p = Len(s) + 1 \/ p \in 1..Len(s)
    BY <1>1
  <2>2. \A p \in 1..Len(s) : p \in 1..(Len(s) + 1)
    BY <1>1
  <2>3. Len(s) + 1 \in 1..(Len(s) + 1)
    BY <1>1
  <2>q. QED
    BY <1>1, <1>2, <2>1, <2>2, <2>3 DEF ToSet
<1>q. QED
  BY <1>1, <1>2, <1>3

\* The ends of an edge.
Src(d, i) == d.edges[i].src
Dst(d, i) == d.edges[i].dst

\* A document whose edges are drawn between its nodes.
Linked(d) ==
    /\ IsFiniteSet(Nodes(d)) /\ Nodes(d) \subseteq Nat
    /\ IsFiniteSet(EdgeIds(d)) /\ EdgeIds(d) \subseteq Nat
    /\ \A i \in EdgeIds(d) : Src(d, i) \in Nodes(d) /\ Dst(d, i) \in Nodes(d)

\* A document that may be published is one.
LEMMA PublishableIsLinked ==
    ASSUME NEW d, IsDocument(d), Publishable(d)
    PROVE  Linked(d)
<1>1. Nodes(d) = 1..Len(d.kind) /\ Len(d.kind) \in Nat
  BY DEF IsDocument, Nodes
<1>2. EdgeIds(d) = 1..Len(d.edges) /\ Len(d.edges) \in Nat
  BY DEF IsDocument, EdgeIds
<1>3. IsFiniteSet(Nodes(d)) /\ IsFiniteSet(EdgeIds(d))
  BY <1>1, <1>2, FS_Interval
<1>4. \A i \in EdgeIds(d) : Src(d, i) \in Nodes(d) /\ Dst(d, i) \in Nodes(d)
  BY DEF Publishable, EdgesOK, Src, Dst
<1>q. QED
  BY <1>1, <1>2, <1>3, <1>4 DEF Linked

\* The nodes that the search has reached.
SeenIn(s) == ToSet(s.stack) \union ToSet(s.finished)

\* Every node is on the stack once, or finished once.
StackOK(d, s) ==
    /\ s = [stack |-> s.stack, finished |-> s.finished, tried |-> s.tried, back |-> s.back]
    /\ s.stack \in Seq(Nodes(d)) /\ s.finished \in Seq(Nodes(d))
    /\ s.tried \subseteq FlowEdges(d) /\ s.back \subseteq s.tried
    /\ \A p, q \in 1..Len(s.stack) : s.stack[p] = s.stack[q] => p = q
    /\ \A p, q \in 1..Len(s.finished) : s.finished[p] = s.finished[q] => p = q
    /\ ToSet(s.stack) \intersect ToSet(s.finished) = {}

\* Edges are looked at from nodes that were reached, all of them from finished ones.
TriedOK(d, s) ==
    /\ \A i \in s.tried : Src(d, i) \in SeenIn(s)
    /\ \A i \in FlowEdges(d) : Src(d, i) \in ToSet(s.finished) => i \in s.tried

\* The target of an edge that closes no loop is finished before its source, or above it.
EndsAt(d, f, i, p, q) == f[p] = Src(d, i) /\ f[q] = Dst(d, i)
Above(d, a, f, i, p) ==
    a[p] = Src(d, i) /\ (Dst(d, i) \in ToSet(f) \/ (p > 1 /\ a[p - 1] = Dst(d, i)))
ForwardAt(d, a, f, i) ==
    \/ \E p \in 1..Len(f) : \E q \in 1..(p - 1) : EndsAt(d, f, i, p, q)
    \/ \E p \in 1..Len(a) : Above(d, a, f, i, p)
ForwardOK(d, s) == \A i \in s.tried \ s.back : ForwardAt(d, s.stack, s.finished, i)

\* The stack is a path over such edges.
PathAt(d, a, edges, p) == \E i \in edges : Src(d, i) = a[p] /\ Dst(d, i) = a[p - 1]
PathOK(d, s) == \A p \in 2..Len(s.stack) : PathAt(d, s.stack, s.tried \ s.back, p)

\* From the target of a back edge they lead to its source.
BackOK(d, s) ==
    \A i \in s.back : \A C :
        Dst(d, i) \in C /\ Closed(C, Ends(d, s.tried \ s.back)) => Src(d, i) \in C

SearchOK(d, s) == StackOK(d, s) /\ TriedOK(d, s) /\ ForwardOK(d, s) /\ PathOK(d, s) /\ BackOK(d, s)

\* The search starts right.
LEMMA SearchStartOK == ASSUME NEW d PROVE SearchOK(d, SearchStart)
<1>1. SearchStart.stack = <<>> /\ SearchStart.finished = <<>> /\ SearchStart.tried = {} /\ SearchStart.back = {}
  BY DEF SearchStart
<1>2. ToSet(<<>>) = {}
  BY DEF ToSet
<1>3. Len(<<>>) = 0 /\ 1..0 = {} /\ 2..0 = {}
  OBVIOUS
<1>4. StackOK(d, SearchStart)
  BY <1>1, <1>2, <1>3 DEF StackOK, SearchStart
<1>q. QED
  BY <1>1, <1>2, <1>3, <1>4 DEF SearchOK, TriedOK, ForwardOK, PathOK, BackOK, SeenIn

\* A search that starts from a new root.
LEMMA RootStep ==
    ASSUME NEW d, NEW s, SearchOK(d, s), s.stack = <<>>, NEW n, n \in Nodes(d), n \notin SeenIn(s),
           NEW t, t = [s EXCEPT !.stack = <<n>>]
    PROVE  SearchOK(d, t)
<1>1. /\ t.stack = <<n>> /\ t.finished = s.finished /\ t.tried = s.tried /\ t.back = s.back
      /\ t = [stack |-> t.stack, finished |-> t.finished, tried |-> t.tried, back |-> t.back]
  <2>1. s = [stack |-> s.stack, finished |-> s.finished, tried |-> s.tried, back |-> s.back]
    BY DEF SearchOK, StackOK
  <2>q. QED
    BY <2>1
<1>2. /\ <<n>> \in Seq(Nodes(d)) /\ Len(<<n>>) = 1 /\ ToSet(<<n>>) = {n} /\ <<n>>[1] = n
      /\ ToSet(s.stack) = {} /\ 1..Len(s.stack) = {} /\ 2..Len(<<n>>) = {} /\ 1..1 = {1}
  BY DEF ToSet
<1>3. StackOK(d, t)
  BY <1>1, <1>2 DEF SearchOK, StackOK, SeenIn
<1>4. TriedOK(d, t)
  BY <1>1, <1>2 DEF SearchOK, TriedOK, SeenIn
<1>5. ForwardOK(d, t)
  BY <1>1, <1>2 DEF SearchOK, ForwardOK, ForwardAt, EndsAt, Above
<1>6. PathOK(d, t)
  BY <1>1, <1>2 DEF PathOK
<1>7. BackOK(d, t)
  BY <1>1 DEF SearchOK, BackOK
<1>q. QED
  BY <1>3, <1>4, <1>5, <1>6, <1>7 DEF SearchOK

\* A search whose top is finished.
LEMMA PopStep ==
    ASSUME NEW d, NEW s, SearchOK(d, s), s.stack # <<>>,
           \A i \in FlowEdges(d) \ s.tried : Src(d, i) # Head(s.stack),
           NEW t, t = [s EXCEPT !.stack = Tail(s.stack), !.finished = Append(s.finished, Head(s.stack))]
    PROVE  SearchOK(d, t) /\ SeenIn(t) = SeenIn(s)
<1> DEFINE a == s.stack
<1> DEFINE f == s.finished
<1> DEFINE n == Head(s.stack)
<1> DEFINE b == Tail(s.stack)
<1> DEFINE g == Append(s.finished, Head(s.stack))
<1>1. /\ t.stack = b /\ t.finished = g /\ t.tried = s.tried /\ t.back = s.back
      /\ t = [stack |-> t.stack, finished |-> t.finished, tried |-> t.tried, back |-> t.back]
  <2>1. s = [stack |-> s.stack, finished |-> s.finished, tried |-> s.tried, back |-> s.back]
    BY DEF SearchOK, StackOK
  <2>q. QED
    BY <2>1
<1>2. /\ a \in Seq(Nodes(d)) /\ f \in Seq(Nodes(d)) /\ a # <<>>
      /\ \A p, q \in 1..Len(a) : a[p] = a[q] => p = q
      /\ \A p, q \in 1..Len(f) : f[p] = f[q] => p = q
      /\ ToSet(a) \intersect ToSet(f) = {}
  BY DEF SearchOK, StackOK
<1>0. b = Tail(a) /\ n = Head(a) /\ g = Append(f, n) /\ a = s.stack /\ f = s.finished
  OBVIOUS
<1> HIDE DEF a, b, f, g, n
<1>3. /\ b \in Seq(Nodes(d)) /\ Len(a) \in Nat \ {0} /\ Len(b) = Len(a) - 1 /\ n = a[1] /\ n \in Nodes(d)
      /\ DOMAIN a = 1..Len(a) /\ DOMAIN b = 1..(Len(a) - 1)
      /\ \A p \in 1..(Len(a) - 1) : b[p] = a[p + 1]
      /\ \A p \in 2..Len(a) : p - 1 \in 1..(Len(a) - 1) /\ a[p] = b[p - 1]
      /\ ToSet(a) = ToSet(b) \union {n}
  <2>1. a \in Seq(Nodes(d)) /\ a # <<>> /\ b = Tail(a) /\ n = Head(a)
    BY <1>0, <1>2
  <2>2. ToSet(a) = ToSet(b) \union {a[1]}
    BY ONLY <2>1, PopFacts
  <2>3. b \in Seq(Nodes(d)) /\ Len(a) \in Nat \ {0} /\ Len(b) = Len(a) - 1 /\ n = a[1] /\ n \in Nodes(d)
        /\ DOMAIN a = 1..Len(a) /\ DOMAIN b = 1..(Len(a) - 1)
    BY ONLY <2>1, PopFacts
  <2>4. /\ \A p \in 1..(Len(a) - 1) : b[p] = a[p + 1]
        /\ \A p \in 2..Len(a) : p - 1 \in 1..(Len(a) - 1) /\ a[p] = b[p - 1]
    BY ONLY <2>1, PopFacts
  <2>q. QED
    BY ONLY <2>2, <2>3, <2>4
<1>4. /\ g \in Seq(Nodes(d)) /\ Len(g) = Len(f) + 1 /\ g[Len(f) + 1] = n
      /\ DOMAIN f = 1..Len(f) /\ Len(f) \in Nat
      /\ \A p \in 1..Len(f) : g[p] = f[p]
      /\ ToSet(g) = ToSet(f) \union {n}
  <2>1. f \in Seq(Nodes(d)) /\ n \in Nodes(d) /\ g = Append(f, n)
    BY <1>0, <1>2, <1>3
  <2>3. /\ g \in Seq(Nodes(d)) /\ Len(g) = Len(f) + 1 /\ g[Len(f) + 1] = n
        /\ DOMAIN g = 1..(Len(f) + 1) /\ DOMAIN f = 1..Len(f) /\ Len(f) \in Nat
        /\ \A p \in 1..Len(f) : g[p] = f[p]
    BY ONLY <2>1, AppendFacts
  <2>2. ToSet(g) = ToSet(f) \union {n}
    <3>1. \A p \in 1..(Len(f) + 1) : p = Len(f) + 1 \/ p \in 1..Len(f)
      BY ONLY <2>3
    <3>2. \A p \in 1..Len(f) : p \in 1..(Len(f) + 1)
      BY ONLY <2>3
    <3>3. Len(f) + 1 \in 1..(Len(f) + 1)
      BY ONLY <2>3
    <3>4. \A p \in DOMAIN g : g[p] = n \/ \E q \in DOMAIN f : g[p] = f[q]
      BY ONLY <2>3, <3>1
    <3>5. \A q \in DOMAIN f : \E p \in DOMAIN g : f[q] = g[p]
      BY ONLY <2>3, <3>2
    <3>6. \E p \in DOMAIN g : g[p] = n
      BY ONLY <2>3, <3>3
    <3>q. QED
      BY ONLY <3>4, <3>5, <3>6 DEF ToSet
  <2>q. QED
    BY ONLY <2>2, <2>3
<1>5. n \notin ToSet(b) /\ n \notin ToSet(f)
  <2>1. \A p \in 1..(Len(a) - 1) : p + 1 \in 1..Len(a) /\ 1 \in 1..Len(a) /\ p + 1 # 1
    BY <1>3
  <2>2. \A p \in 1..(Len(a) - 1) : b[p] # n
    BY <1>2, <1>3, <2>1
  <2>3. n \notin ToSet(b)
    BY <1>3, <2>2 DEF ToSet
  <2>q. QED
    BY <1>2, <1>3, <2>3
<1>6. StackOK(d, t)
  <2>1. \A p, q \in 1..Len(b) : b[p] = b[q] => p = q
    <3>1. \A p \in 1..Len(b) : p + 1 \in 1..Len(a) /\ b[p] = a[p + 1] /\ p \in Int
      BY <1>3
    <3>2. ASSUME NEW p \in 1..Len(b), NEW q \in 1..Len(b), b[p] = b[q] PROVE p = q
      <4>1. p + 1 = q + 1
        BY <1>2, <3>1, <3>2
      <4>q. QED
        BY <3>1, <4>1
    <3>q. QED
      BY <3>2
  <2>2. \A p, q \in 1..Len(g) : g[p] = g[q] => p = q
    <3>1. \A p \in 1..Len(g) : p = Len(f) + 1 \/ p \in 1..Len(f)
      BY <1>4
    <3>2. \A p \in 1..Len(f) : f[p] # n
      BY <1>4, <1>5 DEF ToSet
    <3>q. QED
      BY <1>2, <1>4, <3>1, <3>2
  <2>3. ToSet(b) \intersect ToSet(g) = {}
    BY <1>2, <1>3, <1>4, <1>5
  <2>4. s.tried \subseteq FlowEdges(d) /\ s.back \subseteq s.tried
    BY DEF SearchOK, StackOK
  <2>5. b \in Seq(Nodes(d)) /\ g \in Seq(Nodes(d))
    BY <1>3, <1>4
  <2>q. QED
    BY ONLY <1>1, <2>1, <2>2, <2>3, <2>4, <2>5 DEF StackOK
<1>7. SeenIn(t) = SeenIn(s)
  BY <1>0, <1>1, <1>3, <1>4 DEF SeenIn
<1>8. TriedOK(d, t)
  <2>1. \A i \in FlowEdges(d) : Src(d, i) = n => i \in s.tried
    BY <1>0
  <2>q. QED
    BY <1>1, <1>4, <1>7, <1>0, <2>1 DEF SearchOK, TriedOK
<1>9. ForwardOK(d, t)
  <2>1. ASSUME NEW i, ForwardAt(d, a, f, i) PROVE ForwardAt(d, b, g, i)
    <3>1. CASE \E p \in 1..Len(f) : \E q \in 1..(p - 1) : EndsAt(d, f, i, p, q)
      <4>1. PICK p \in 1..Len(f) : \E q \in 1..(p - 1) : EndsAt(d, f, i, p, q)
        BY <3>1
      <4>2. PICK q \in 1..(p - 1) : EndsAt(d, f, i, p, q)
        BY <4>1
      <4>3. p \in 1..Len(g) /\ q \in 1..Len(f)
        BY <1>4
      <4>4. EndsAt(d, g, i, p, q)
        BY <1>4, <4>2, <4>3 DEF EndsAt
      <4>q. QED
        BY <4>3, <4>4 DEF ForwardAt
    <3>2. ASSUME NEW p \in 1..Len(a), Above(d, a, f, i, p), p = 1 PROVE ForwardAt(d, b, g, i)
      <4>1. Dst(d, i) \in ToSet(f) /\ Src(d, i) = n
        BY <1>3, <3>2 DEF Above
      <4>2. PICK q \in 1..Len(f) : f[q] = Dst(d, i)
        BY <1>4, <4>1 DEF ToSet
      <4>3. Len(f) + 1 \in 1..Len(g) /\ q \in 1..((Len(f) + 1) - 1)
        BY <1>4
      <4>4. EndsAt(d, g, i, Len(f) + 1, q)
        BY <1>4, <4>1, <4>2 DEF EndsAt
      <4>q. QED
        BY <4>3, <4>4 DEF ForwardAt
    <3>3. ASSUME NEW p \in 1..Len(a), Above(d, a, f, i, p), p > 1 PROVE ForwardAt(d, b, g, i)
      <4>1. p \in 2..Len(a) /\ p - 1 \in 1..Len(b) /\ b[p - 1] = Src(d, i)
        BY <1>3, <3>3 DEF Above
      <4>2. Dst(d, i) \in ToSet(g) \/ (p - 1 > 1 /\ b[(p - 1) - 1] = Dst(d, i))
        <5>1. CASE Dst(d, i) \in ToSet(f)
          BY <1>4, <5>1
        <5>2. CASE a[p - 1] = Dst(d, i) /\ p = 2
          BY <1>3, <1>4, <5>2
        <5>3. CASE a[p - 1] = Dst(d, i) /\ p > 2
          <6>1. p - 1 \in 2..Len(a) /\ p - 1 > 1
            BY <1>3, <4>1, <5>3
          <6>q. QED
            BY <1>3, <5>3, <6>1
        <5>4. p = 2 \/ p > 2
          BY <4>1
        <5>q. QED
          BY <3>3, <5>1, <5>2, <5>3, <5>4 DEF Above
      <4>3. Above(d, b, g, i, p - 1)
        BY <4>1, <4>2 DEF Above
      <4>q. QED
        BY <4>1, <4>3 DEF ForwardAt
    <3>4. \A p \in 1..Len(a) : p = 1 \/ p > 1
      BY <1>3
    <3>q. QED
      BY <2>1, <3>1, <3>2, <3>3, <3>4 DEF ForwardAt
  <2>2. \A i \in s.tried \ s.back : ForwardAt(d, a, f, i)
    BY <1>0 DEF SearchOK, ForwardOK
  <2>q. QED
    BY <1>1, <2>1, <2>2 DEF ForwardOK
<1>10. PathOK(d, t)
  <2>1. ASSUME NEW p \in 2..Len(b) PROVE PathAt(d, b, s.tried \ s.back, p)
    <3>1. p \in 1..(Len(a) - 1) /\ p - 1 \in 1..(Len(a) - 1) /\ (p - 1) + 1 = p
          /\ p + 1 \in 2..Len(a) /\ (p + 1) - 1 = p
      BY <1>3
    <3>2. b[p] = a[p + 1] /\ b[p - 1] = a[p]
      BY <1>3, <3>1
    <3>3. PathAt(d, a, s.tried \ s.back, p + 1)
      BY <1>0, <3>1 DEF SearchOK, PathOK
    <3>q. QED
      BY <3>1, <3>2, <3>3 DEF PathAt
  <2>q. QED
    BY <1>1, <2>1 DEF PathOK
<1>11. BackOK(d, t)
  BY <1>1 DEF SearchOK, BackOK
<1>q. QED
  BY <1>6, <1>7, <1>8, <1>9, <1>10, <1>11 DEF SearchOK

\* Edges that are looked at later do not come between those that were.
LEMMA BackStays ==
    ASSUME NEW d, NEW edges, NEW more, edges \subseteq more, NEW C, Closed(C, Ends(d, more))
    PROVE  Closed(C, Ends(d, edges))
  BY DEF Closed, Ends

\* The stack leads from each of its nodes to the top.
LEMMA StackLeads ==
    ASSUME NEW d, NEW a, NEW edges, Len(a) \in Nat,
           \A p \in 2..Len(a) : PathAt(d, a, edges, p), NEW C, Closed(C, Ends(d, edges))
    PROVE  \A p \in 1..Len(a) : a[p] \in C => a[1] \in C
<1> DEFINE T == {n \in Nat : n + 1 <= Len(a) /\ a[n + 1] \in C => a[1] \in C}
<1>1. 0 \in T
  OBVIOUS
<1>2. ASSUME NEW n \in Nat, n \in T PROVE n + 1 \in T
  <2>1. SUFFICES ASSUME (n + 1) + 1 <= Len(a), a[(n + 1) + 1] \in C PROVE a[1] \in C
    OBVIOUS
  <2>2. (n + 1) + 1 \in 2..Len(a) /\ ((n + 1) + 1) - 1 = n + 1 /\ n + 1 <= Len(a)
    BY <2>1
  <2>3. PICK i \in edges : Src(d, i) = a[(n + 1) + 1] /\ Dst(d, i) = a[n + 1]
    BY <2>2 DEF PathAt
  <2>4. a[n + 1] \in C
    <3>1. <<a[(n + 1) + 1], a[n + 1]>> \in Ends(d, edges)
      BY <2>3 DEF Ends, Src, Dst
    <3>q. QED
      BY <2>1, <3>1 DEF Closed
  <2>q. QED
    BY <1>2, <2>2, <2>4
<1>3. \A n \in Nat : n \in T
  <2> HIDE DEF T
  <2>q. QED
    BY <1>1, <1>2, Searches!NatSetInduction
<1>4. TAKE p \in 1..Len(a)
<1>5. p - 1 \in Nat /\ (p - 1) + 1 = p /\ p <= Len(a)
  OBVIOUS
<1>6. p - 1 \in T
  <2> HIDE DEF T
  <2>q. QED
    BY <1>3, <1>5
<1>q. QED
  BY <1>5, <1>6

\* A search that looks at an edge of its top.
LEMMA LookStep ==
    ASSUME NEW d, Linked(d), NEW s, SearchOK(d, s), s.stack # <<>>,
           NEW i, i \in FlowEdges(d) \ s.tried, Src(d, i) = Head(s.stack),
           NEW t, t = [s EXCEPT !.stack = IF Dst(d, i) \in SeenIn(s) THEN s.stack ELSE <<Dst(d, i)>> \o s.stack,
                                !.tried = s.tried \union {i},
                                !.back = s.back \union {j \in {i} : Dst(d, i) \in ToSet(s.stack)}]
    PROVE  SearchOK(d, t)
<1> DEFINE a == s.stack
<1> DEFINE f == s.finished
<1> DEFINE m == Dst(d, i)
<1> DEFINE b == t.stack
<1>0. /\ a = s.stack /\ f = s.finished /\ m = Dst(d, i) /\ b = t.stack
      /\ i \in FlowEdges(d) /\ i \notin s.tried /\ i \notin s.back
  BY DEF SearchOK, StackOK
<1>1. /\ b = IF m \in SeenIn(s) THEN a ELSE <<m>> \o a
      /\ t.finished = f /\ t.tried = s.tried \union {i}
      /\ t.back = IF m \in ToSet(a) THEN s.back \union {i} ELSE s.back
      /\ t = [stack |-> t.stack, finished |-> t.finished, tried |-> t.tried, back |-> t.back]
  <2>1. s = [stack |-> s.stack, finished |-> s.finished, tried |-> s.tried, back |-> s.back]
    BY DEF SearchOK, StackOK
  <2>q. QED
    BY <2>1
<1>2. /\ a \in Seq(Nodes(d)) /\ f \in Seq(Nodes(d)) /\ a # <<>> /\ Len(a) \in Nat \ {0} /\ Len(f) \in Nat
      /\ DOMAIN a = 1..Len(a) /\ DOMAIN f = 1..Len(f)
      /\ \A p, q \in 1..Len(a) : a[p] = a[q] => p = q
      /\ \A p, q \in 1..Len(f) : f[p] = f[q] => p = q
      /\ ToSet(a) \intersect ToSet(f) = {}
      /\ Src(d, i) = a[1] /\ a[1] \in ToSet(a) /\ 1 \in 1..Len(a)
      /\ s.tried \subseteq FlowEdges(d) /\ s.back \subseteq s.tried
  <2>1. StackOK(d, s)
    BY DEF SearchOK
  <2>2. /\ a \in Seq(Nodes(d)) /\ f \in Seq(Nodes(d)) /\ a # <<>>
        /\ s.tried \subseteq FlowEdges(d) /\ s.back \subseteq s.tried
        /\ \A p, q \in 1..Len(a) : a[p] = a[q] => p = q
        /\ \A p, q \in 1..Len(f) : f[p] = f[q] => p = q
        /\ ToSet(a) \intersect ToSet(f) = {} /\ Src(d, i) = Head(a)
    BY <2>1 DEF StackOK
  <2> HIDE DEF a, f
  <2>3. /\ Len(a) \in Nat \ {0} /\ Len(f) \in Nat
        /\ DOMAIN a = 1..Len(a) /\ DOMAIN f = 1..Len(f) /\ Head(a) = a[1]
    BY <2>2
  <2>4. 1 \in 1..Len(a) /\ 1 \in DOMAIN a
    BY <2>3
  <2>5. a[1] \in ToSet(a)
    BY <2>4, Zenon DEF ToSet
  <2>q. QED
    BY <2>2, <2>3, <2>4, <2>5
<1>3. m \in Nodes(d)
  BY <1>0 DEF Linked, FlowEdges, EdgesInto
<1> HIDE DEF a, b, f, m
<1>4. \/ b = a /\ m \in ToSet(a) /\ t.tried \ t.back = s.tried \ s.back /\ t.back = s.back \union {i}
      \/ /\ b = a /\ m \in ToSet(f) /\ m \notin ToSet(a)
         /\ t.tried \ t.back = (s.tried \ s.back) \union {i} /\ t.back = s.back
      \/ /\ b = <<m>> \o a /\ m \notin SeenIn(s)
         /\ t.tried \ t.back = (s.tried \ s.back) \union {i} /\ t.back = s.back
  BY <1>0, <1>1, <1>2 DEF SeenIn
<1>5. s.tried \ s.back \subseteq t.tried \ t.back
  BY <1>4
<1>6. BackOK(d, t)
  <2>1. ASSUME NEW j \in s.back, NEW C, Dst(d, j) \in C, Closed(C, Ends(d, t.tried \ t.back))
        PROVE  Src(d, j) \in C
    <3>1. Closed(C, Ends(d, s.tried \ s.back))
      BY <1>5, <2>1, BackStays
    <3>q. QED
      BY <2>1, <3>1 DEF SearchOK, BackOK
  <2>2. ASSUME m \in ToSet(a), NEW C, m \in C, Closed(C, Ends(d, t.tried \ t.back))
        PROVE  Src(d, i) \in C
    <3>1. Closed(C, Ends(d, s.tried \ s.back))
      BY <1>5, <2>2, BackStays
    <3>2. PICK p \in 1..Len(a) : a[p] = m
      BY <1>2, <2>2 DEF ToSet
    <3>3. \A q \in 2..Len(a) : PathAt(d, a, s.tried \ s.back, q)
      BY <1>0 DEF SearchOK, PathOK
    <3>q. QED
      <4>1. Len(a) \in Nat /\ a[p] \in C
        BY <1>2, <2>2, <3>2
      <4>2. a[1] \in C
        BY <3>1, <3>3, <4>1, StackLeads
      <4>q. QED
        BY <1>2, <4>2
  <2>3. \A j \in t.back : j \in s.back \/ (j = i /\ m \in ToSet(a))
    BY <1>1
  <2>q. QED
    BY <1>0, <2>1, <2>2, <2>3 DEF BackOK
<1>7. CASE b = a
  <2>1. SeenIn(t) = SeenIn(s) /\ t.stack = a
    BY <1>0, <1>1, <1>7 DEF SeenIn
  <2>2. StackOK(d, t)
    <3>1. t.tried \subseteq FlowEdges(d) /\ t.back \subseteq t.tried
      BY <1>0, <1>1, <1>2
    <3>2. t.stack = a /\ t.finished = f
      BY <1>1, <2>1
    <3>3. /\ a \in Seq(Nodes(d)) /\ f \in Seq(Nodes(d))
          /\ \A p, q \in 1..Len(a) : a[p] = a[q] => p = q
          /\ \A p, q \in 1..Len(f) : f[p] = f[q] => p = q
          /\ ToSet(a) \intersect ToSet(f) = {}
      BY <1>2
    <3>4. t = [stack |-> t.stack, finished |-> t.finished, tried |-> t.tried, back |-> t.back]
      BY <1>1
    <3>q. QED
      BY ONLY <3>1, <3>2, <3>3, <3>4 DEF StackOK
  <2>3. TriedOK(d, t)
    BY <1>0, <1>1, <1>2, <2>1 DEF SearchOK, TriedOK, SeenIn
  <2>4. ForwardOK(d, t)
    <3>1. \A j \in s.tried \ s.back : ForwardAt(d, a, f, j)
      BY <1>0 DEF SearchOK, ForwardOK
    <3>2. m \in ToSet(f) => Above(d, a, f, i, 1)
      BY <1>0, <1>2 DEF Above
    <3>3. m \in ToSet(f) => ForwardAt(d, a, f, i)
      BY <1>2, <3>2 DEF ForwardAt
    <3>4. \A j \in t.tried \ t.back : j \in s.tried \ s.back \/ (j = i /\ m \in ToSet(f))
      BY <1>4, <1>7, <1>0, <1>1, <1>2 DEF SeenIn
    <3>q. QED
      BY <1>1, <2>1, <3>1, <3>3, <3>4 DEF ForwardOK
  <2>5. PathOK(d, t)
    <3>1. \A q \in 2..Len(a) : PathAt(d, a, s.tried \ s.back, q)
      BY <1>0 DEF SearchOK, PathOK
    <3>q. QED
      BY <1>5, <2>1, <3>1 DEF PathOK, PathAt
  <2>q. QED
    BY <1>6, <2>2, <2>3, <2>4, <2>5 DEF SearchOK
<1>8. CASE b = <<m>> \o a /\ m \notin SeenIn(s)
  <2>1. /\ b \in Seq(Nodes(d)) /\ Len(b) = Len(a) + 1 /\ b[1] = m
        /\ DOMAIN b = 1..(Len(a) + 1)
        /\ \A p \in 1..Len(a) : b[p + 1] = a[p]
        /\ \A p \in 2..(Len(a) + 1) : p - 1 \in 1..Len(a) /\ b[p] = a[p - 1]
        /\ ToSet(b) = ToSet(a) \union {m}
    <3>1. a \in Seq(Nodes(d)) /\ m \in Nodes(d) /\ b = <<m>> \o a
      BY <1>2, <1>3, <1>8
    <3>3. /\ b \in Seq(Nodes(d)) /\ Len(b) = Len(a) + 1 /\ b[1] = m
          /\ DOMAIN b = 1..(Len(a) + 1) /\ DOMAIN a = 1..Len(a) /\ Len(a) \in Nat
          /\ \A p \in 1..Len(a) : b[p + 1] = a[p]
          /\ \A p \in 2..(Len(a) + 1) : p - 1 \in 1..Len(a) /\ b[p] = a[p - 1]
      BY ONLY <3>1, PushFacts
    <3>2. ToSet(b) = ToSet(a) \union {m}
      <4>1. \A p \in 1..(Len(a) + 1) : p = 1 \/ p \in 2..(Len(a) + 1)
        BY ONLY <3>3
      <4>2. \A p \in 1..Len(a) : p + 1 \in 1..(Len(a) + 1)
        BY ONLY <3>3
      <4>3. 1 \in 1..(Len(a) + 1)
        BY ONLY <3>3
      <4>4. \A p \in DOMAIN b : b[p] = m \/ \E q \in DOMAIN a : b[p] = a[q]
        BY ONLY <3>3, <4>1
      <4>5. \A q \in DOMAIN a : \E p \in DOMAIN b : a[q] = b[p]
        BY ONLY <3>3, <4>2
      <4>6. \E p \in DOMAIN b : b[p] = m
        BY ONLY <3>3, <4>3
      <4>q. QED
        BY ONLY <4>4, <4>5, <4>6 DEF ToSet
    <3>q. QED
      BY ONLY <3>2, <3>3
  <2>2. m \notin ToSet(a) /\ m \notin ToSet(f) /\ \A p \in 1..Len(a) : a[p] # m
    BY <1>0, <1>2, <1>8 DEF SeenIn, ToSet
  <2>3. t.tried \ t.back = (s.tried \ s.back) \union {i}
    BY <1>4, <2>2
  <2>4. StackOK(d, t)
    <3>1. \A p \in 1..Len(b) : p = 1 \/ p \in 2..(Len(a) + 1)
      BY <1>2, <2>1
    <3>2. ASSUME NEW p \in 1..Len(b), NEW q \in 1..Len(b), b[p] = b[q] PROVE p = q
      <4>1. CASE p \in 2..(Len(a) + 1) /\ q \in 2..(Len(a) + 1)
        <5>1. p - 1 = q - 1
          BY <1>2, <2>1, <3>2, <4>1
        <5>q. QED
          BY <4>1, <5>1
      <4>q. QED
        BY <2>1, <2>2, <3>1, <3>2, <4>1
    <3>3. ToSet(b) \intersect ToSet(f) = {}
      BY <1>2, <2>1, <2>2
    <3>q. QED
      BY <1>0, <1>1, <1>2, <2>1, <3>2, <3>3 DEF StackOK
  <2>5. TriedOK(d, t)
    BY <1>0, <1>1, <1>2, <2>1 DEF SearchOK, TriedOK, SeenIn
  <2>6. ForwardOK(d, t)
    <3>1. ASSUME NEW j, ForwardAt(d, a, f, j) PROVE ForwardAt(d, b, f, j)
      <4>1. ASSUME NEW p \in 1..Len(a), Above(d, a, f, j, p) PROVE ForwardAt(d, b, f, j)
        <5>1. p + 1 \in 1..Len(b) /\ p + 1 > 1 /\ (p + 1) - 1 = p /\ b[p + 1] = Src(d, j)
          BY <1>2, <2>1, <4>1 DEF Above
        <5>2. p > 1 => b[(p + 1) - 1] = a[p - 1]
          BY <1>2, <2>1
        <5>3. Above(d, b, f, j, p + 1)
          BY <4>1, <5>1, <5>2 DEF Above
        <5>q. QED
          BY <5>1, <5>3 DEF ForwardAt
      <4>q. QED
        BY <3>1, <4>1 DEF ForwardAt
    <3>2. ForwardAt(d, b, f, i)
      <4>1. 2 \in 1..Len(b) /\ 2 > 1 /\ b[2] = Src(d, i) /\ b[2 - 1] = m
        BY <1>2, <2>1
      <4>2. Above(d, b, f, i, 2)
        BY <1>0, <4>1 DEF Above
      <4>q. QED
        BY <4>1, <4>2 DEF ForwardAt
    <3>3. \A j \in s.tried \ s.back : ForwardAt(d, a, f, j)
      BY <1>0 DEF SearchOK, ForwardOK
    <3>q. QED
      BY <1>0, <1>1, <2>3, <3>1, <3>2, <3>3 DEF ForwardOK
  <2>7. PathOK(d, t)
    <3>1. ASSUME NEW p \in 2..Len(b) PROVE PathAt(d, b, t.tried \ t.back, p)
      <4>1. CASE p = 2
        <5>1. b[2] = Src(d, i) /\ b[2 - 1] = m
          BY <1>2, <2>1
        <5>q. QED
          BY <1>0, <2>3, <4>1, <5>1 DEF PathAt
      <4>2. CASE p > 2
        <5>1. p - 1 \in 2..Len(a) /\ b[p] = a[p - 1] /\ b[p - 1] = a[(p - 1) - 1]
          BY <1>2, <2>1, <4>2
        <5>2. PathAt(d, a, s.tried \ s.back, p - 1)
          BY <1>0, <5>1 DEF SearchOK, PathOK
        <5>q. QED
          BY <1>5, <5>1, <5>2 DEF PathAt
      <4>q. QED
        BY <4>1, <4>2
    <3>q. QED
      BY <1>0, <3>1 DEF PathOK
  <2>q. QED
    BY <1>6, <2>4, <2>5, <2>6, <2>7 DEF SearchOK
<1>q. QED
  BY <1>1, <1>7, <1>8

\* A set of numbers has a least one.
LEMMA LeastIsIn ==
    ASSUME NEW S, S \subseteq Nat, S # {}
    PROVE  Min(S) \in S
<1>1. SUFFICES ASSUME \A x \in S : \E y \in S : ~(x <= y) PROVE FALSE
  <2>1. (\E x \in S : \A y \in S : x <= y) => Min(S) \in S
    BY DEF Min
  <2>q. QED
    BY <2>1
<1> DEFINE T == {n \in Nat : \A x \in S : ~(x <= n)}
<1>2. 0 \in T
  <2>1. \A x \in S : x \in Nat /\ (x <= 0 => x = 0)
    OBVIOUS
  <2>2. \A y \in S : 0 <= y
    BY <2>1
  <2>q. QED
    BY <1>1, <2>1, <2>2
<1>3. ASSUME NEW n \in Nat, n \in T PROVE n + 1 \in T
  <2>1. \A x \in S : x \in Nat /\ ~(x <= n)
    BY <1>3
  <2>2. \A x \in S : x <= n + 1 => \A y \in S : x <= y
    BY <2>1
  <2>3. n + 1 \in Nat
    OBVIOUS
  <2>q. QED
    BY <1>1, <2>2, <2>3
<1>4. \A n \in Nat : n \in T
  <2> HIDE DEF T
  <2>q. QED
    BY <1>2, <1>3, Searches!NatSetInduction
<1>5. PICK x \in S : x \in Nat
  OBVIOUS
<1>q. QED
  BY <1>4, <1>5

\* The search is over when it reached every node and its stack is empty.
Over(d, s) == s.stack = <<>> /\ Nodes(d) \subseteq SeenIn(s)

\* How many steps are left at most.
Unseen(d, s) == Nodes(d) \ SeenIn(s)
Unfinished(d, s) == Nodes(d) \ ToSet(s.finished)
Untried(d, s) == FlowEdges(d) \ s.tried
Left(d, s) == Cardinality(Unseen(d, s)) + Cardinality(Unfinished(d, s)) + Cardinality(Untried(d, s))

\* A set that loses a member is smaller, and one that loses some is no larger.
LEMMA SmallerSets ==
    ASSUME NEW S, IsFiniteSet(S), NEW T, T \subseteq S
    PROVE  /\ Cardinality(S) \in Nat /\ Cardinality(T) \in Nat /\ Cardinality(T) <= Cardinality(S)
           /\ T # S => Cardinality(T) + 1 <= Cardinality(S)
<1>1. /\ IsFiniteSet(T) /\ Cardinality(S) \in Nat /\ Cardinality(T) \in Nat
      /\ Cardinality(T) <= Cardinality(S) /\ (Cardinality(S) = Cardinality(T) => S = T)
  BY FS_Subset, FS_CardinalityType
<1>q. QED
  BY <1>1

\* Three sets that only lose members, one of them at least one.
LEMMA LeftDrops ==
    ASSUME NEW d, Linked(d), NEW s, NEW t,
           Unseen(d, t) \subseteq Unseen(d, s), Unfinished(d, t) \subseteq Unfinished(d, s),
           Untried(d, t) \subseteq Untried(d, s),
           \/ Unseen(d, t) # Unseen(d, s) \/ Unfinished(d, t) # Unfinished(d, s)
           \/ Untried(d, t) # Untried(d, s)
    PROVE  Left(d, t) \in Nat /\ Left(d, s) \in Nat /\ Left(d, t) + 1 <= Left(d, s)
<1>1. IsFiniteSet(Unseen(d, s)) /\ IsFiniteSet(Unfinished(d, s)) /\ IsFiniteSet(Untried(d, s))
  <2>1. /\ Unseen(d, s) \subseteq Nodes(d) /\ Unfinished(d, s) \subseteq Nodes(d)
        /\ Untried(d, s) \subseteq EdgeIds(d)
    BY DEF Unseen, Unfinished, Untried, FlowEdges, EdgesInto
  <2>q. QED
    BY <2>1, FS_Subset DEF Linked
<1>2. /\ Cardinality(Unseen(d, s)) \in Nat /\ Cardinality(Unseen(d, t)) \in Nat
      /\ Cardinality(Unseen(d, t)) <= Cardinality(Unseen(d, s))
      /\ Unseen(d, t) # Unseen(d, s) => Cardinality(Unseen(d, t)) + 1 <= Cardinality(Unseen(d, s))
  BY <1>1, SmallerSets
<1>3. /\ Cardinality(Unfinished(d, s)) \in Nat /\ Cardinality(Unfinished(d, t)) \in Nat
      /\ Cardinality(Unfinished(d, t)) <= Cardinality(Unfinished(d, s))
      /\ Unfinished(d, t) # Unfinished(d, s) => Cardinality(Unfinished(d, t)) + 1 <= Cardinality(Unfinished(d, s))
  BY <1>1, SmallerSets
<1>4. /\ Cardinality(Untried(d, s)) \in Nat /\ Cardinality(Untried(d, t)) \in Nat
      /\ Cardinality(Untried(d, t)) <= Cardinality(Untried(d, s))
      /\ Untried(d, t) # Untried(d, s) => Cardinality(Untried(d, t)) + 1 <= Cardinality(Untried(d, s))
  BY <1>1, SmallerSets
<1>q. QED
  BY <1>2, <1>3, <1>4 DEF Left

\* A step that keeps the search right and loses something that was left.
Advances(d, s, t) == SearchOK(d, t) /\ Left(d, t) \in Nat /\ Left(d, s) \in Nat /\ Left(d, t) + 1 <= Left(d, s)

\* So does each step that is not the last: a new root,
LEMMA RootAdvances ==
    ASSUME NEW d, Linked(d), NEW s, SearchOK(d, s), s.stack = <<>>, NEW n, n \in Nodes(d), n \notin SeenIn(s),
           NEW t, t = [s EXCEPT !.stack = <<n>>]
    PROVE  Advances(d, s, t)
<1>1. SearchOK(d, t)
  BY RootStep
<1>2. t.stack = <<n>> /\ t.finished = s.finished /\ t.tried = s.tried
  <2>1. s = [stack |-> s.stack, finished |-> s.finished, tried |-> s.tried, back |-> s.back]
    BY DEF SearchOK, StackOK
  <2>q. QED
    BY <2>1
<1>3. ToSet(<<n>>) = {n} /\ ToSet(<<>>) = {}
  BY DEF ToSet
<1>4. SeenIn(t) = SeenIn(s) \union {n}
  BY <1>2, <1>3 DEF SeenIn
<1>5. Unfinished(d, t) = Unfinished(d, s) /\ Untried(d, t) = Untried(d, s)
  BY <1>2 DEF Unfinished, Untried
<1>6. Unseen(d, t) \subseteq Unseen(d, s) /\ Unseen(d, t) # Unseen(d, s)
  BY <1>4 DEF Unseen
<1>q. QED
  BY <1>1, <1>5, <1>6, LeftDrops DEF Advances

\* a finished top,
LEMMA PopAdvances ==
    ASSUME NEW d, Linked(d), NEW s, SearchOK(d, s), s.stack # <<>>,
           \A i \in FlowEdges(d) \ s.tried : Src(d, i) # Head(s.stack),
           NEW t, t = [s EXCEPT !.stack = Tail(s.stack), !.finished = Append(s.finished, Head(s.stack))]
    PROVE  Advances(d, s, t)
<1>1. SearchOK(d, t) /\ SeenIn(t) = SeenIn(s)
  BY PopStep
<1>2. t.finished = Append(s.finished, Head(s.stack)) /\ t.tried = s.tried
  <2>1. s = [stack |-> s.stack, finished |-> s.finished, tried |-> s.tried, back |-> s.back]
    BY DEF SearchOK, StackOK
  <2>q. QED
    BY <2>1
<1>3. s.stack \in Seq(Nodes(d)) /\ s.finished \in Seq(Nodes(d)) /\ Head(s.stack) \in Nodes(d)
      /\ Head(s.stack) \in ToSet(s.stack) /\ Head(s.stack) \notin ToSet(s.finished)
  BY DEF SearchOK, StackOK, ToSet
<1> DEFINE f == s.finished
<1> DEFINE g == t.finished
<1> DEFINE n == Head(s.stack)
<1>4. /\ DOMAIN g = 1..(Len(f) + 1) /\ DOMAIN f = 1..Len(f) /\ Len(f) \in Nat
      /\ \A p \in 1..Len(f) : g[p] = f[p] /\ p \in 1..(Len(f) + 1)
      /\ g[Len(f) + 1] = n /\ Len(f) + 1 \in 1..(Len(f) + 1)
  <2>1. f \in Seq(Nodes(d)) /\ n \in Nodes(d) /\ g = Append(f, n)
    BY <1>2, <1>3
  <2> HIDE DEF f, g, n
  <2>2. /\ DOMAIN g = 1..(Len(f) + 1) /\ DOMAIN f = 1..Len(f) /\ Len(f) \in Nat
        /\ \A p \in 1..Len(f) : g[p] = f[p]
        /\ g[Len(f) + 1] = n
    BY ONLY <2>1, AppendFacts
  <2>q. QED
    BY ONLY <2>2
<1>5. ToSet(f) \subseteq ToSet(g) /\ n \in ToSet(g)
  <2> HIDE DEF f, g, n
  <2>q. QED
    BY ONLY <1>4 DEF ToSet
<1>6. Unseen(d, t) = Unseen(d, s) /\ Untried(d, t) = Untried(d, s)
  BY <1>1, <1>2 DEF Unseen, Untried
<1>7. Unfinished(d, t) \subseteq Unfinished(d, s) /\ Unfinished(d, t) # Unfinished(d, s)
  <2>1. n \in Unfinished(d, s) /\ n \notin Unfinished(d, t)
    BY <1>3, <1>5 DEF Unfinished
  <2>q. QED
    BY <1>5, <2>1 DEF Unfinished
<1>q. QED
  BY <1>1, <1>6, <1>7, LeftDrops DEF Advances

\* or another edge.
LEMMA LookAdvances ==
    ASSUME NEW d, Linked(d), NEW s, SearchOK(d, s), s.stack # <<>>,
           NEW i, i \in FlowEdges(d) \ s.tried, Src(d, i) = Head(s.stack),
           NEW t, t = [s EXCEPT !.stack = IF Dst(d, i) \in SeenIn(s) THEN s.stack ELSE <<Dst(d, i)>> \o s.stack,
                                !.tried = s.tried \union {i},
                                !.back = s.back \union {j \in {i} : Dst(d, i) \in ToSet(s.stack)}]
    PROVE  Advances(d, s, t)
<1>1. SearchOK(d, t)
  BY LookStep
<1>2. /\ t.finished = s.finished /\ t.tried = s.tried \union {i}
      /\ t.stack = s.stack \/ t.stack = <<Dst(d, i)>> \o s.stack
  <2>1. s = [stack |-> s.stack, finished |-> s.finished, tried |-> s.tried, back |-> s.back]
    BY DEF SearchOK, StackOK
  <2>q. QED
    BY <2>1
<1> DEFINE a == s.stack
<1> DEFINE b == t.stack
<1> DEFINE m == Dst(d, i)
<1>3. ToSet(a) \subseteq ToSet(b)
  <2>1. a \in Seq(Nodes(d)) /\ m \in Nodes(d)
    BY DEF SearchOK, StackOK, Linked, FlowEdges, EdgesInto
  <2>2. CASE b = a
    BY <2>2
  <2>3. CASE b = <<m>> \o a
    <3> HIDE DEF a, b, m
    <3>1. /\ DOMAIN b = 1..(Len(a) + 1) /\ DOMAIN a = 1..Len(a) /\ Len(a) \in Nat
          /\ \A p \in 1..Len(a) : b[p + 1] = a[p]
      BY ONLY <2>1, <2>3, PushFacts
    <3>2. \A p \in 1..Len(a) : p + 1 \in DOMAIN b
      BY ONLY <3>1
    <3>q. QED
      BY ONLY <3>1, <3>2 DEF ToSet
  <2>q. QED
    BY <1>2, <2>2, <2>3
<1>4. Unseen(d, t) \subseteq Unseen(d, s) /\ Unfinished(d, t) = Unfinished(d, s)
  BY <1>2, <1>3 DEF Unseen, Unfinished, SeenIn
<1>5. Untried(d, t) \subseteq Untried(d, s) /\ Untried(d, t) # Untried(d, s)
  BY <1>2 DEF Untried
<1>q. QED
  BY <1>1, <1>4, <1>5, LeftDrops DEF Advances

\* A step advances unless the search is over, and then nothing changes.
LEMMA StepAdvances ==
    ASSUME NEW d, Linked(d), NEW s, SearchOK(d, s)
    PROVE  IF Over(d, s) THEN SearchStep(d, s) = s ELSE Advances(d, s, SearchStep(d, s))
<1> DEFINE seen == ToSet(s.stack) \union ToSet(s.finished)
<1> DEFINE inputs == OfKind(d, {"input"}) \ seen
<1> DEFINE pending == {i \in FlowEdges(d) \ s.tried : d.edges[i].src = Head(s.stack)}
<1> DEFINE t == SearchStep(d, s)
<1>0. seen = SeenIn(s)
  BY DEF SeenIn
<1>1. CASE s.stack = <<>> /\ Nodes(d) \subseteq seen
  BY <1>0, <1>1 DEF SearchStep, Over
<1>2. CASE s.stack = <<>> /\ ~(Nodes(d) \subseteq seen)
  <2> DEFINE roots == IF inputs # {} THEN inputs ELSE Nodes(d) \ seen
  <2>1. roots # {} /\ roots \subseteq Nat /\ roots \subseteq Nodes(d) \ seen
    BY <1>2 DEF OfKind, Linked
  <2>2. Min(roots) \in roots
    <3> HIDE DEF roots
    <3>q. QED
      BY <2>1, LeastIsIn
  <2>3. t = [s EXCEPT !.stack = <<Min(roots)>>]
    BY <1>2 DEF SearchStep
  <2>4. ~Over(d, s) /\ Min(roots) \in Nodes(d) /\ Min(roots) \notin SeenIn(s)
    <3> HIDE DEF roots
    <3>q. QED
      BY <1>0, <1>2, <2>1, <2>2 DEF Over
  <2> HIDE DEF roots, t
  <2>5. Advances(d, s, t)
    BY <1>2, <2>3, <2>4, RootAdvances
  <2>q. QED
    BY <2>4, <2>5 DEF t
<1>3. CASE s.stack # <<>> /\ pending = {}
  <2>1. t = [s EXCEPT !.stack = Tail(s.stack), !.finished = Append(s.finished, Head(s.stack))]
    BY <1>3 DEF SearchStep
  <2>2. \A i \in FlowEdges(d) \ s.tried : Src(d, i) # Head(s.stack)
    BY <1>3 DEF Src
  <2> HIDE DEF t
  <2>3. Advances(d, s, t)
    BY <1>3, <2>1, <2>2, PopAdvances
  <2>q. QED
    BY <1>3, <2>3 DEF t, Over
<1>4. CASE s.stack # <<>> /\ pending # {}
  <2> DEFINE i == Min(pending)
  <2>1. pending \subseteq Nat
    BY DEF FlowEdges, EdgesInto, Linked
  <2>2. i \in pending
    <3> HIDE DEF pending
    <3>q. QED
      BY <1>4, <2>1, LeastIsIn
  <2>3. i \in FlowEdges(d) \ s.tried /\ Src(d, i) = Head(s.stack)
    BY <2>2 DEF Src
  <2>4. Dst(d, i) \in Nodes(d)
    BY <2>3 DEF Linked, FlowEdges, EdgesInto
  <2>5. t = [s EXCEPT !.stack = IF d.edges[i].dst \in seen \/ d.edges[i].dst \notin Nodes(d) THEN s.stack
                                ELSE <<d.edges[i].dst>> \o s.stack,
                      !.tried = s.tried \union {i},
                      !.back = s.back \union {j \in {i} : d.edges[i].dst \in ToSet(s.stack)}]
    BY <1>4 DEF SearchStep
  <2> HIDE DEF i, t, pending
  <2>6. t = [s EXCEPT !.stack = IF Dst(d, i) \in SeenIn(s) THEN s.stack ELSE <<Dst(d, i)>> \o s.stack,
                      !.tried = s.tried \union {i},
                      !.back = s.back \union {j \in {i} : Dst(d, i) \in ToSet(s.stack)}]
    BY <1>0, <2>4, <2>5 DEF Dst
  <2>7. Advances(d, s, t)
    BY <1>4, <2>3, <2>6, LookAdvances
  <2>q. QED
    BY <1>4, <2>7 DEF t, Over
<1>q. QED
  BY <1>1, <1>2, <1>3, <1>4
\* The steps are enough: when they are taken the search is over, and its back edges
\* are BackEdges.
LEMMA SearchEnds ==
    ASSUME NEW d, Linked(d)
    PROVE  \E s : SearchOK(d, s) /\ Over(d, s) /\ BackEdges(d) = s.back
<1> DEFINE K == 2 * Cardinality(Nodes(d)) + Cardinality(EdgeIds(d))
<1> DEFINE h == Searches!Iteration(d, SearchStart)
<1> DEFINE T == {k \in Nat : SearchOK(d, h[k]) /\ (Over(d, h[k]) \/ (Left(d, h[k]) \in Nat /\ Left(d, h[k]) + k <= K))}
<1>1. BackEdges(d) = h[K].back
  BY DEF BackEdges, SearchOne, Searches!Iteration
<1>2. h[0] = SearchStart /\ \A k \in Nat : h[k + 1] = SearchStep(d, h[k])
  <2>1. h[0] = SearchStart /\ \A k \in Nat : h[k + 1] = SearchOne(d, k + 1, h[k])
    BY ONLY Searches!IterationStep
  <2> HIDE DEF h
  <2>q. QED
    BY <2>1 DEF SearchOne
<1> HIDE DEF h
<1>3. /\ IsFiniteSet(Nodes(d)) /\ IsFiniteSet(EdgeIds(d)) /\ FlowEdges(d) \subseteq EdgeIds(d)
      /\ Cardinality(Nodes(d)) \in Nat /\ Cardinality(EdgeIds(d)) \in Nat
  BY FS_CardinalityType DEF Linked, FlowEdges, EdgesInto
<1>4. K \in Nat
  BY <1>3
<1>5. 0 \in T
  <2>1. /\ Cardinality(Unseen(d, SearchStart)) \in Nat
        /\ Cardinality(Unseen(d, SearchStart)) <= Cardinality(Nodes(d))
    BY <1>3, SmallerSets DEF Unseen
  <2>2. /\ Cardinality(Unfinished(d, SearchStart)) \in Nat
        /\ Cardinality(Unfinished(d, SearchStart)) <= Cardinality(Nodes(d))
    BY <1>3, SmallerSets DEF Unfinished
  <2>3. /\ Cardinality(Untried(d, SearchStart)) \in Nat
        /\ Cardinality(Untried(d, SearchStart)) <= Cardinality(EdgeIds(d))
    <3>1. Untried(d, SearchStart) \subseteq EdgeIds(d)
      BY <1>3 DEF Untried
    <3>q. QED
      BY <1>3, <3>1, SmallerSets
  <2>4. Left(d, SearchStart) \in Nat /\ Left(d, SearchStart) + 0 <= K
    BY <1>3, <2>1, <2>2, <2>3 DEF Left
  <2>5. SearchOK(d, h[0]) /\ Left(d, h[0]) \in Nat /\ Left(d, h[0]) + 0 <= K
    BY <1>2, <2>4, SearchStartOK
  <2> HIDE DEF K
  <2>q. QED
    BY <2>5
<1>6. ASSUME NEW k \in Nat, k \in T PROVE k + 1 \in T
  <2> HIDE DEF K
  <2>1. h[k + 1] = SearchStep(d, h[k]) /\ SearchOK(d, h[k]) /\ k + 1 \in Nat
    BY <1>2, <1>6
  <2>2. CASE Over(d, h[k])
    <3>1. h[k + 1] = h[k]
      BY <2>1, <2>2, StepAdvances
    <3>q. QED
      BY <2>1, <2>2, <3>1
  <2>3. CASE ~Over(d, h[k])
    <3>1. Advances(d, h[k], h[k + 1])
      BY <2>1, <2>3, StepAdvances
    <3>2. /\ SearchOK(d, h[k + 1]) /\ Left(d, h[k + 1]) \in Nat /\ Left(d, h[k]) \in Nat
          /\ Left(d, h[k + 1]) + 1 <= Left(d, h[k]) /\ Left(d, h[k]) + k <= K
      BY <1>6, <2>3, <3>1 DEF Advances
    <3>3. Left(d, h[k + 1]) + (k + 1) <= K
      BY <1>4, <3>2
    <3>q. QED
      BY <2>1, <3>2, <3>3
  <2>q. QED
    BY <2>2, <2>3
<1>7. K \in T
  <2>1. \A k \in Nat : k \in T
    <3> HIDE DEF T
    <3>q. QED
      BY <1>5, <1>6, Searches!NatSetInduction
  <2> HIDE DEF K
  <2>q. QED
    BY <1>4, <2>1
<1> DEFINE s == h[K]
<1>8. SearchOK(d, s)
  BY <1>7
<1>9. Over(d, s)
  <2>1. SUFFICES ASSUME Left(d, s) \in Nat, Left(d, s) + K <= K PROVE Over(d, s)
    BY <1>7
  <2> HIDE DEF K, s
  <2>2. /\ Unseen(d, s) \subseteq Nodes(d) /\ Unfinished(d, s) \subseteq Nodes(d)
        /\ Untried(d, s) \subseteq EdgeIds(d)
    BY <1>3 DEF Unseen, Unfinished, Untried
  <2>3. /\ Cardinality(Unseen(d, s)) \in Nat /\ Cardinality(Unfinished(d, s)) \in Nat
        /\ Cardinality(Untried(d, s)) \in Nat
    BY <1>3, <2>2, SmallerSets
  <2>4. Cardinality(Unseen(d, s)) = 0 /\ Cardinality(Unfinished(d, s)) = 0
    BY <1>4, <2>1, <2>3 DEF Left
  <2>5. Unseen(d, s) = {} /\ Unfinished(d, s) = {}
    BY <1>3, <2>2, <2>4, FS_Subset, FS_EmptySet
  <2>6. s.stack = <<>>
    <3>1. s.stack \in Seq(Nodes(d)) /\ ToSet(s.stack) \intersect ToSet(s.finished) = {}
          /\ Nodes(d) \subseteq ToSet(s.finished)
      BY <1>8, <2>5 DEF SearchOK, StackOK, Unfinished
    <3>2. s.stack # <<>> => s.stack[1] \in ToSet(s.stack) /\ s.stack[1] \in Nodes(d)
      BY <3>1 DEF ToSet
    <3>q. QED
      BY <3>1, <3>2
  <2>q. QED
    BY <2>5, <2>6 DEF Over, Unseen
<1>q. QED
  BY <1>1, <1>8, <1>9

\* Without the back edges no node leads to itself.
LEMMA ForwardHasNoLoop ==
    ASSUME NEW d, Linked(d), NEW n \in Nodes(d)
    PROVE  LET forward == Ends(d, FlowEdges(d) \ BackEdges(d))
           IN  n \notin Reachable({p[2] : p \in {q \in forward : q[1] = n}}, forward)
<1>1. PICK s : SearchOK(d, s) /\ Over(d, s) /\ BackEdges(d) = s.back
  BY SearchEnds
<1> DEFINE f == s.finished
<1> DEFINE forward == Ends(d, FlowEdges(d) \ BackEdges(d))
<1> DEFINE starts == {p[2] : p \in {q \in forward : q[1] = n}}
<1>2. /\ s.stack = <<>> /\ Nodes(d) \subseteq ToSet(f) /\ f \in Seq(Nodes(d))
      /\ \A p, q \in 1..Len(f) : f[p] = f[q] => p = q
  BY <1>1 DEF Over, SeenIn, SearchOK, StackOK, ToSet
<1>3. s.tried = FlowEdges(d)
  <2>1. \A i \in FlowEdges(d) : Src(d, i) \in Nodes(d)
    BY DEF Linked, FlowEdges, EdgesInto
  <2>q. QED
    BY <1>1, <1>2, <2>1 DEF SearchOK, StackOK, TriedOK
<1>4. \A i \in FlowEdges(d) \ BackEdges(d) :
         \E p \in 1..Len(f) : \E q \in 1..(p - 1) : EndsAt(d, f, i, p, q)
  <2>1. \A i \in FlowEdges(d) \ BackEdges(d) : ForwardAt(d, s.stack, f, i)
    BY <1>1, <1>3 DEF SearchOK, ForwardOK
  <2>2. 1..Len(s.stack) = {}
    BY <1>2
  <2>q. QED
    BY <2>1, <2>2 DEF ForwardAt
<1>5. Len(f) \in Nat /\ DOMAIN f = 1..Len(f)
  BY <1>2
<1>6. PICK k \in 1..Len(f) : f[k] = n
  BY <1>2, <1>5 DEF ToSet
<1> DEFINE C == {f[j] : j \in 1..(k - 1)}
<1>7. \A pair \in forward : \E p \in 1..Len(f) : \E q \in 1..(p - 1) : f[p] = pair[1] /\ f[q] = pair[2]
  <2>1. ASSUME NEW pair \in forward
        PROVE  \E p \in 1..Len(f) : \E q \in 1..(p - 1) : f[p] = pair[1] /\ f[q] = pair[2]
    <3>1. PICK i \in FlowEdges(d) \ BackEdges(d) : pair = <<d.edges[i].src, d.edges[i].dst>>
      BY DEF Ends
    <3>2. pair[1] = Src(d, i) /\ pair[2] = Dst(d, i)
      BY <3>1 DEF Src, Dst
    <3>q. QED
      BY <1>4, <3>2 DEF EndsAt
  <2>q. QED
    BY <2>1
<1> HIDE DEF forward, f
<1>8. starts \subseteq C
  <2>1. ASSUME NEW pair \in forward, pair[1] = n PROVE pair[2] \in C
    <3>1. PICK p \in 1..Len(f) : \E q \in 1..(p - 1) : f[p] = pair[1] /\ f[q] = pair[2]
      BY <1>7
    <3>2. p = k
      BY <1>2, <1>6, <2>1, <3>1
    <3>q. QED
      BY <3>1, <3>2
  <2>q. QED
    BY <2>1
<1>9. Closed(C, forward)
  <2>1. ASSUME NEW pair \in forward, pair[1] \in C PROVE pair[2] \in C
    <3>1. PICK p \in 1..Len(f) : \E q \in 1..(p - 1) : f[p] = pair[1] /\ f[q] = pair[2]
      BY <1>7
    <3>2. PICK q \in 1..(p - 1) : f[p] = pair[1] /\ f[q] = pair[2]
      BY <3>1
    <3>3. PICK j \in 1..(k - 1) : pair[1] = f[j]
      BY <2>1
    <3>4. j \in 1..Len(f)
      BY <1>5
    <3>5. p = j
      BY <1>2, <3>2, <3>3, <3>4
    <3>6. q \in 1..(k - 1)
      BY <1>5, <3>5
    <3>q. QED
      BY <3>2, <3>6
  <2>q. QED
    BY <2>1 DEF Closed
<1>10. n \notin C
  <2>1. ASSUME NEW j \in 1..(k - 1), f[j] = n PROVE FALSE
    <3>1. j \in 1..Len(f) /\ j # k
      BY <1>5
    <3>q. QED
      BY <1>2, <1>6, <2>1, <3>1
  <2>q. QED
    BY <2>1
<1>11. IsFiniteSet(starts \union {p[2] : p \in forward})
  <2>1. \A pair \in forward : pair[2] \in Nodes(d)
    BY DEF forward, Ends, Linked, Src, Dst, FlowEdges, EdgesInto
  <2>2. starts \union {p[2] : p \in forward} \subseteq Nodes(d)
    BY <2>1
  <2>q. QED
    BY <2>2, FS_Subset DEF Linked
<1>12. Reachable(starts, forward) \subseteq C
  <2> HIDE DEF starts, C
  <2>q. QED
    BY <1>8, <1>9, <1>11, ReachableIsLeast
<1>q. QED
  BY <1>10, <1>12 DEF forward

\* Each back edge closes a loop.
LEMMA BackEdgesCloseLoops ==
    ASSUME NEW d, Linked(d), NEW i \in BackEdges(d)
    PROVE  LET forward == Ends(d, FlowEdges(d) \ BackEdges(d))
               After(n) == Reachable({p[2] : p \in {q \in forward : q[1] = n}}, forward)
           IN  d.edges[i].src \in After(d.edges[i].dst) \union {d.edges[i].dst}
<1>1. PICK s : SearchOK(d, s) /\ Over(d, s) /\ BackEdges(d) = s.back
  BY SearchEnds
<1> DEFINE forward == Ends(d, FlowEdges(d) \ BackEdges(d))
<1> DEFINE m == d.edges[i].dst
<1> DEFINE starts == {p[2] : p \in {q \in forward : q[1] = m}}
<1> DEFINE R == Reachable(starts, forward)
<1>2. s.tried \ s.back \subseteq FlowEdges(d) \ BackEdges(d)
  BY <1>1 DEF SearchOK, StackOK
<1>3. IsFiniteSet(starts \union {p[2] : p \in forward})
  <2>1. \A pair \in forward : pair[2] \in Nodes(d)
    BY DEF Ends, Linked, Src, Dst, FlowEdges, EdgesInto
  <2>2. starts \union {p[2] : p \in forward} \subseteq Nodes(d)
    BY <2>1
  <2>q. QED
    BY <2>2, FS_Subset DEF Linked
<1>4. starts \subseteq R /\ Closed(R, forward)
  <2> HIDE DEF starts, forward
  <2>q. QED
    BY <1>3, ReachableIsLeast
<1> HIDE DEF R
<1>5. Closed(R \union {m}, forward)
  <2> HIDE DEF forward
  <2>q. QED
    BY <1>4 DEF Closed
<1>6. Closed(R \union {m}, Ends(d, s.tried \ s.back))
  BY <1>2, <1>5, BackStays
<1>7. Src(d, i) \in R \union {m}
  BY <1>1, <1>6 DEF SearchOK, BackOK, Dst
<1>q. QED
  BY <1>7 DEF Src, R

\* A run never changes its document, and the flow is compiled from it: for the plan, or,
\* once a reply resumed it, whole.
FlowOK == doc \in Documents /\ (flow = Compile(doc, plan) \/ flow = Compile(doc, WholePlan))

\* The document stays, and the flow is compiled from it.
LEMMA FlowIsCompiled == Spec => []FlowOK
<1>1. Init => FlowOK
  BY DEF Init, FlowOK
<1>2. FlowOK /\ [Next]_vars => FlowOK'
  <2>1. SUFFICES ASSUME FlowOK, [Next]_vars PROVE FlowOK'
    OBVIOUS
  <2>2. CASE UNCHANGED <<doc, plan, flow>>
    BY <2>1, <2>2 DEF FlowOK
  <2>3. CASE doc' = doc /\ (flow' = Compile(doc, plan') \/ flow' = Compile(doc, WholePlan))
    BY <2>1, <2>3 DEF FlowOK
  <2>4. ASSUME NEW n \in StepNodes(doc), Entrypoints(n) PROVE UNCHANGED <<doc, plan, flow>>
    BY <2>4 DEF Entrypoints, SeedInput, Transform, RunAgent, RefuseAgent, RouteError, RouteBranch,
                EmitOutput, RenderGate, RouteGate, RouteReplayedGate, ReplayOutput, GoesOn, Decide
  <2>5. ASSUME NEW n \in StepNodes(doc), Answer(n)
        PROVE  doc' = doc /\ flow' = Compile(doc, WholePlan)
    BY <2>5 DEF Answer
  <2>6. ASSUME NEW n \in StepNodes(doc), ResumeFrom(n) \/ NodeTest(n)
        PROVE  doc' = doc /\ flow' = Compile(doc, plan')
    BY <2>6 DEF ResumeFrom, NodeTest, Derive
  <2>7. Kickoff \/ Return \/ Abandon \/ Rest \/ UNCHANGED vars => UNCHANGED <<doc, plan, flow>>
    BY DEF Kickoff, Return, Abandon, Rest, vars
  <2>q. QED
    BY <2>1, <2>2, <2>3, <2>4, <2>5, <2>6, <2>7 DEF Next
<1>q. QED
  BY <1>1, <1>2, PTL DEF Spec

\* In every published document the back edges cut every loop, and each of them closes
\* one: the depth-first search that classifies them finishes within its steps, an edge
\* that is not a back edge leads to a node finished earlier, and from the target of a
\* back edge its source is reached (bounds.py _back_edges_with_index).
THEOREM LoopsAlwaysCut == Spec => []LoopsAreCut
<1>1. FlowOK => LoopsAreCut
  <2>1. SUFFICES ASSUME FlowOK PROVE LoopsAreCut
    OBVIOUS
  <2>2. Linked(doc) /\ flow.back = BackEdges(doc)
    BY <2>1, DocumentsAssumption, PublishableIsLinked DEF FlowOK, Compile
  <2>q. QED
    BY <2>2, ForwardHasNoLoop, BackEdgesCloseLoops DEF LoopsAreCut
<1>q. QED
  BY <1>1, FlowIsCompiled, PTL
-----------------------------------------------------------------------------
(* The engine.                                                              *)

Halves(nodes) == nodes \X {"step", "route"}

\* What a flow compiled from d gives the engine.
FlowShape(d, fl) ==
    /\ fl.steps \subseteq StepNodes(d) /\ DOMAIN fl.listen = fl.steps /\ fl.once \subseteq fl.steps
    /\ fl.limit \in Nat \ {0}

Lanes(fl) == Seq([race : fl.races, of : fl.steps])

\* What the engine remembers of a flow object.
Memory == {"active", "calls", "fired", "arrived", "done", "over", "lost"}
IsEngine(eng) == eng = [x \in Memory |-> eng[x]]

\* The engine's memory names steps of the flow only, and a join holds events it waits for.
EngineOK(d, fl, eng) ==
    /\ IsEngine(eng)
    /\ \A e \in eng.active : e.method \in Halves(fl.steps) /\ e.lane \in Lanes(fl)
    /\ eng.done \subseteq Halves(fl.steps)
    /\ eng.calls \in [Halves(StepNodes(d)) -> Nat]
    /\ eng.fired \subseteq fl.once
    /\ eng.arrived = [n \in StepNodes(d) |-> eng.arrived[n]]
    /\ \A n \in fl.steps : eng.arrived[n] \subseteq fl.listen[n].all

\* No method was called more often than k times.
Fits(d, eng, k) == \A m \in Halves(StepNodes(d)) : eng.calls[m] <= k

\* What a call makes of an engine that was within its limit.
Moved(d, fl, eng) ==
    /\ EngineOK(d, fl, eng) /\ Fits(d, eng, fl.limit + 1)
    /\ ~eng.over => Fits(d, eng, fl.limit)

\* A new flow object, called at some methods.
LEMMA NewEngineOK ==
    ASSUME NEW fl, FlowShape(doc, fl), NEW methods, methods \subseteq Halves(fl.steps)
    PROVE  EngineOK(doc, fl, NewEngine(methods)) /\ Fits(doc, NewEngine(methods), fl.limit)
<1> DEFINE eng == NewEngine(methods)
<1>1. /\ eng.active = {[method |-> m, lane |-> <<>>, nth |-> 1] : m \in methods}
      /\ eng.calls = [m \in Halves(StepNodes(doc)) |-> IF m \in methods THEN 1 ELSE 0]
      /\ eng.fired = {} /\ eng.arrived = [n \in StepNodes(doc) |-> {}] /\ eng.done = {}
      /\ IsEngine(eng)
  BY DEF NewEngine, Methods, Halves, IsEngine, Memory
<1> HIDE DEF eng
<1>2. \A e \in eng.active : e.method \in Halves(fl.steps) /\ e.lane \in Lanes(fl)
  <2>1. <<>> \in Lanes(fl)
    BY DEF Lanes
  <2>2. ASSUME NEW e \in eng.active PROVE e.method \in methods /\ e.lane = <<>>
    BY <1>1
  <2>q. QED
    BY <2>1, <2>2
<1>3. eng.calls \in [Halves(StepNodes(doc)) -> Nat] /\ \A m \in Halves(StepNodes(doc)) : eng.calls[m] <= 1
  BY <1>1
<1>4. \A n \in fl.steps : eng.arrived[n] = {}
  BY <1>1 DEF FlowShape
<1>5. EngineOK(doc, fl, eng)
  BY <1>1, <1>2, <1>3, <1>4 DEF EngineOK
<1>6. Fits(doc, eng, fl.limit)
  BY <1>3 DEF Fits, FlowShape
<1>q. QED
  BY <1>5, <1>6 DEF eng

\* Methods that are called: a flag says so when one goes over the limit.
LEMMA CallOK ==
    ASSUME FlowShape(doc, flow), NEW eng, EngineOK(doc, flow, eng), Fits(doc, eng, flow.limit),
           NEW methods, methods \subseteq Halves(flow.steps), NEW lane, lane \in Lanes(flow)
    PROVE  Moved(doc, flow, Call(eng, methods, lane))
<1> DEFINE racing(n) == {g \in flow.races : n \in g /\ g \X {"step"} \subseteq methods}
<1> DEFINE Lane(m) == IF m[2] = "step" /\ racing(m[1]) # {}
                      THEN Append(lane, [race |-> CHOOSE g \in racing(m[1]) : TRUE, of |-> m[1]])
                      ELSE lane
<1> DEFINE called == {[method |-> m, lane |-> Lane(m), nth |-> eng.calls[m] + 1] : m \in methods}
<1> DEFINE t == Call(eng, methods, lane)
<1>1. t = [eng EXCEPT !.active = @ \union called,
                      !.calls = [m \in Halves(StepNodes(doc)) |-> @[m] + (IF m \in methods THEN 1 ELSE 0)],
                      !.fired = IF methods \intersect eng.done = {} THEN @ ELSE {},
                      !.done = @ \ methods,
                      !.over = \E m \in methods : eng.calls[m] >= flow.limit]
  BY DEF Call, Methods, Halves
<1>2. \A m \in methods : Lane(m) \in Lanes(flow)
  <2>1. ASSUME NEW m \in methods, m[2] = "step", racing(m[1]) # {}
        PROVE  Append(lane, [race |-> CHOOSE g \in racing(m[1]) : TRUE, of |-> m[1]]) \in Lanes(flow)
    <3>1. (CHOOSE g \in racing(m[1]) : TRUE) \in flow.races
      BY <2>1
    <3>2. m[1] \in flow.steps
      BY <2>1 DEF Halves
    <3> HIDE DEF racing
    <3>q. QED
      BY <3>1, <3>2 DEF Lanes
  <2> HIDE DEF racing
  <2>q. QED
    BY <2>1
<1> HIDE DEF Lane
<1>3. \A e \in called : e.method \in Halves(flow.steps) /\ e.lane \in Lanes(flow)
  BY <1>2
<1> HIDE DEF called, t
<1>4. /\ t.active = eng.active \union called
      /\ t.calls = [m \in Halves(StepNodes(doc)) |-> eng.calls[m] + (IF m \in methods THEN 1 ELSE 0)]
      /\ t.fired \subseteq eng.fired /\ t.done \subseteq eng.done /\ t.arrived = eng.arrived
      /\ t.over = \E m \in methods : eng.calls[m] >= flow.limit
      /\ IsEngine(t)
  BY <1>1 DEF EngineOK, IsEngine, Memory
<1>5. eng.calls \in [Halves(StepNodes(doc)) -> Nat] /\ flow.limit \in Nat
  BY DEF EngineOK, FlowShape
<1>6. t.calls \in [Halves(StepNodes(doc)) -> Nat]
  BY <1>4, <1>5
<1>7. EngineOK(doc, flow, t)
  BY <1>3, <1>4, <1>6 DEF EngineOK
<1>8. Fits(doc, t, flow.limit + 1)
  BY <1>4, <1>5 DEF Fits
<1>9. ~t.over => Fits(doc, t, flow.limit)
  <2>1. ASSUME \A m \in methods : ~(eng.calls[m] >= flow.limit), NEW m \in Halves(StepNodes(doc))
        PROVE  t.calls[m] <= flow.limit
    BY <1>4, <1>5, <2>1 DEF Fits
  <2>q. QED
    BY <1>4, <2>1 DEF Fits
<1>q. QED
  BY <1>7, <1>8, <1>9 DEF Moved, t

\* What the race of place i, from the innermost, leaves of some executions.
CloseRace(lane, i, y) ==
    LET Side(as, k) == {e \in as : IsPrefix(SubSeq(lane, 1, k), e.lane)}
        Racing(as, k) == {e \in Side(as, k - 1) :
                             Len(e.lane) >= k /\ e.lane[k].race = lane[k].race}
        Close(as, k) == IF Side(as, k) = {} THEN as \ Racing(as, k) ELSE as
    IN  Close(y, [j \in 1..Len(lane) |-> Len(lane) + 1 - j][i])

\* The races are closed one after the other.
Races == INSTANCE FoldLemmas WITH Op <- CloseRace, Choice <- Max

\* The fold over the places of a lane.
LEMMA SurvivorsIsFold ==
    ASSUME NEW active, NEW lane
    PROVE  Survivors(active, lane) = Races!Fold(lane, active, DOMAIN [j \in 1..Len(lane) |-> Len(lane) + 1 - j])
  BY DEF Survivors, FoldLeft, MapThenFoldSet, Races!MapThenFoldSet, Races!Fold, CloseRace

\* A set of numbers up to n has a largest one.
LEMMA LargestIsIn ==
    ASSUME NEW n \in Nat, NEW s \in SUBSET (1..n), s # {}
    PROVE  Max(s) \in s
<1> DEFINE F == {u \in SUBSET (1..n) : u # {} => \E i \in u : \A j \in u : i >= j}
<1>1. IsFiniteSet(1..n)
  BY FS_Interval
<1>2. {} \in F
  OBVIOUS
<1>3. ASSUME NEW u \in SUBSET (1..n), NEW i \in (1..n) \ u, u \in F PROVE u \union {i} \in F
  <2>1. CASE u = {}
    BY <2>1
  <2>2. CASE u # {}
    <3>1. PICK k \in u : \A j \in u : k >= j
      BY <1>3, <2>2
    <3>2. CASE i >= k
      <4>1. \A j \in u \union {i} : i >= j
        BY <3>1, <3>2
      <4>q. QED
        BY <4>1
    <3>3. CASE ~(i >= k)
      <4>1. \A j \in u \union {i} : k >= j
        BY <3>1, <3>3
      <4>q. QED
        BY <3>1, <4>1
    <3>q. QED
      BY <3>2, <3>3
  <2>q. QED
    BY <2>1, <2>2
<1>4. s \in F
  <2> HIDE DEF F
  <2>q. QED
    BY <1>1, <1>2, <1>3, Searches!FiniteSetInduction DEF IsFiniteSet, Searches!IsFiniteSet
<1>q. QED
  BY <1>4 DEF Max

\* Closing races cancels executions and starts none.
LEMMA SurvivorsAreActive ==
    ASSUME NEW active, NEW S, NEW lane, lane \in Seq(S)
    PROVE  Survivors(active, lane) \subseteq active
<1> DEFINE places == [j \in 1..Len(lane) |-> Len(lane) + 1 - j]
<1> DEFINE D == DOMAIN places
<1> DEFINE W == [s \in SUBSET D |-> SUBSET active]
<1>1. D = 1..Len(lane) /\ Len(lane) \in Nat
  OBVIOUS
<1>2. IsFiniteSet(D) /\ \A s \in SUBSET D : s # {} => Max(s) \in s
  <2> HIDE DEF D
  <2>1. IsFiniteSet(1..Len(lane))
    BY <1>1, FS_Interval
  <2>2. \A s \in SUBSET (1..Len(lane)) : s # {} => Max(s) \in s
    BY <1>1, LargestIsIn
  <2>q. QED
    BY ONLY <1>1, <2>1, <2>2
<1>3. Survivors(active, lane) = Races!Fold(lane, active, D)
  BY SurvivorsIsFold
<1>4. \A i, y : CloseRace(lane, i, y) \subseteq y
  BY DEF CloseRace
<1> HIDE DEF D
<1>5. active \in W[{}]
  OBVIOUS
<1>6. \A s \in SUBSET D : \A i \in s : \A y \in W[s \ {i}] : CloseRace(lane, i, y) \in W[s]
  <2>1. TAKE s \in SUBSET D
  <2>2. TAKE i \in s
  <2>3. TAKE y \in W[s \ {i}]
  <2>4. W[s \ {i}] = SUBSET active /\ W[s] = SUBSET active
    OBVIOUS
  <2>q. QED
    BY <1>4, <2>4
<1>7. W[D] = SUBSET active
  OBVIOUS
<1> HIDE DEF W
<1>8. Races!Fold(lane, active, D) \in W[D]
  BY <1>2, <1>5, <1>6, Races!FoldInvariant DEF IsFiniteSet, Races!IsFiniteSet
<1>q. QED
  BY <1>3, <1>7, <1>8

\* A race that is over.
LEMMA SettleOK ==
    ASSUME NEW eng, Moved(doc, flow, eng), NEW lane, lane \in Lanes(flow)
    PROVE  Moved(doc, flow, Settle(eng, lane))
<1> DEFINE t == Settle(eng, lane)
<1>1. Survivors(eng.active, lane) \subseteq eng.active
  BY SurvivorsAreActive DEF Lanes
<1>2. /\ t.active \subseteq eng.active /\ t.calls = eng.calls /\ t.fired = eng.fired
      /\ t.arrived = eng.arrived /\ t.done = eng.done /\ t.over = eng.over
      /\ IsEngine(t)
  <2>1. IsEngine(eng)
    BY DEF Moved, EngineOK
  <2>q. QED
    BY <1>1, <2>1 DEF Settle, IsEngine, Memory
<1> HIDE DEF t
<1>q. QED
  <2>1. Moved(doc, flow, t)
    BY <1>2 DEF Moved, EngineOK, Fits
  <2>q. QED
    BY <2>1 DEF t

\* A call that ends.
LEMMA EndedOK ==
    ASSUME NEW eng, EngineOK(doc, flow, eng), Fits(doc, eng, flow.limit), NEW e \in eng.active
    PROVE  EngineOK(doc, flow, Ended(eng, e)) /\ Fits(doc, Ended(eng, e), flow.limit)
<1> DEFINE t == Ended(eng, e)
<1>1. /\ t.active = eng.active \ {e} /\ t.calls = eng.calls /\ t.fired = eng.fired
      /\ t.arrived = eng.arrived /\ t.done = eng.done \union {e.method}
      /\ IsEngine(t)
  <2>1. IsEngine(eng)
    BY DEF EngineOK
  <2>q. QED
    BY <2>1 DEF Ended, IsEngine, Memory
<1> HIDE DEF t
<1>q. QED
  <2>1. EngineOK(doc, flow, t) /\ Fits(doc, t, flow.limit)
    BY <1>1 DEF EngineOK, Fits
  <2>q. QED
    BY <2>1 DEF t

\* A router that re-arms what it re-enters.
LEMMA RearmOK ==
    ASSUME NEW eng, EngineOK(doc, flow, eng), Fits(doc, eng, flow.limit), NEW n
    PROVE  /\ EngineOK(doc, flow, Rearm(eng, n)) /\ Fits(doc, Rearm(eng, n), flow.limit)
           /\ Rearm(eng, n).active = eng.active
<1> DEFINE t == Rearm(eng, n)
<1>1. /\ t.active = eng.active /\ t.calls = eng.calls /\ t.fired \subseteq eng.fired
      /\ t.arrived = eng.arrived /\ t.done = eng.done
      /\ IsEngine(t)
  <2>1. IsEngine(eng)
    BY DEF EngineOK
  <2>q. QED
    BY <2>1 DEF Rearm, IsEngine, Memory
<1> HIDE DEF t
<1>q. QED
  <2>1. EngineOK(doc, flow, t) /\ Fits(doc, t, flow.limit) /\ t.active = eng.active
    BY <1>1 DEF EngineOK, Fits
  <2>q. QED
    BY <2>1 DEF t

\* The two ways a call ends.
LEMMA EmitOK ==
    ASSUME FlowShape(doc, flow), NEW eng, EngineOK(doc, flow, eng), Fits(doc, eng, flow.limit),
           NEW e \in eng.active, NEW ev
    PROVE  Moved(doc, flow, Emit(eng, e, ev))
<1> DEFINE ended == Ended(eng, e)
<1> DEFINE armed == {n \in ended.fired : ev[2] = Ran \/ ~Names(n, ev)}
<1> DEFINE hearing == {n \in flow.steps : Names(n, ev) /\ ~(Once(n) /\ n \in armed)}
<1> DEFINE arrived == [n \in StepNodes(doc) |->
                          ended.arrived[n] \union (IF n \in hearing THEN {ev} \intersect flow.listen[n].all
                                                   ELSE {})]
<1> DEFINE complete == {n \in hearing : ev \in flow.listen[n].all /\ arrived[n] = flow.listen[n].all}
<1> DEFINE triggered == complete \union {n \in hearing : ev \in flow.listen[n].any}
<1> DEFINE heard == [ended EXCEPT
                        !.fired = armed \union {n \in triggered : Once(n)},
                        !.arrived = [n \in StepNodes(doc) |-> IF n \in complete THEN {} ELSE arrived[n]]]
<1>1. Emit(eng, e, ev) = Settle(Call(heard, triggered \X {"step"}, e.lane), e.lane)
  BY DEF Emit
<1>2. EngineOK(doc, flow, ended) /\ Fits(doc, ended, flow.limit)
  BY EndedOK
<1>3. e.lane \in Lanes(flow)
  BY DEF EngineOK
<1>4. armed \subseteq flow.once /\ triggered \subseteq flow.steps /\ {n \in triggered : Once(n)} \subseteq flow.once
  BY <1>2 DEF EngineOK, Once
<1>5. \A n \in flow.steps : arrived[n] \subseteq flow.listen[n].all
  BY <1>2 DEF EngineOK, FlowShape
<1>6. /\ heard.active = ended.active /\ heard.calls = ended.calls /\ heard.done = ended.done
      /\ heard.fired = armed \union {n \in triggered : Once(n)}
      /\ heard.arrived = [n \in StepNodes(doc) |-> IF n \in complete THEN {} ELSE arrived[n]]
      /\ IsEngine(heard)
  <2>1. IsEngine(ended)
    BY <1>2 DEF EngineOK
  <2> HIDE DEF ended, armed, hearing, arrived, complete, triggered
  <2>q. QED
    BY <2>1 DEF IsEngine, Memory
<1> HIDE DEF ended, armed, hearing, arrived, complete, triggered, heard
<1>7. \A n \in flow.steps : heard.arrived[n] \subseteq flow.listen[n].all
  BY <1>5, <1>6 DEF FlowShape
<1>8. EngineOK(doc, flow, heard) /\ Fits(doc, heard, flow.limit)
  BY <1>2, <1>4, <1>6, <1>7 DEF EngineOK, Fits
<1>9. triggered \X {"step"} \subseteq Halves(flow.steps)
  BY <1>4 DEF Halves
<1>10. Moved(doc, flow, Call(heard, triggered \X {"step"}, e.lane))
  BY <1>3, <1>8, <1>9, CallOK
<1>q. QED
  BY <1>1, <1>3, <1>10, SettleOK

\* A step half that calls its router half, and the choice between the two.
LEMMA PairOK ==
    ASSUME FlowShape(doc, flow), NEW eng, EngineOK(doc, flow, eng), Fits(doc, eng, flow.limit),
           NEW e \in eng.active
    PROVE  Moved(doc, flow, Pair(eng, e))
<1>1. EngineOK(doc, flow, Ended(eng, e)) /\ Fits(doc, Ended(eng, e), flow.limit)
  BY EndedOK
<1>2. e.lane \in Lanes(flow) /\ {<<e.method[1], "route">>} \subseteq Halves(flow.steps)
  BY DEF EngineOK, Halves
<1>q. QED
  BY <1>1, <1>2, CallOK DEF Pair

\* The end of a step half.
LEMMA OnwardsOK ==
    ASSUME FlowShape(doc, flow), EngineOK(doc, flow, engine), Fits(doc, engine, flow.limit),
           NEW e \in engine.active, NEW n
    PROVE  Moved(doc, flow, Onwards(e, n))
  BY EmitOK, PairOK DEF Onwards
-----------------------------------------------------------------------------
(* What is compiled.                                                        *)

\* One power more.
PowerOne(c, k, x) == (1 + MaxCycleIterations) * x

Powers == INSTANCE FoldLemmas WITH Op <- PowerOne, Choice <- AnyOf

\* The limit is never zero.
LEMMA CycleMultiplierIsPositive ==
    ASSUME NEW cycles \in Nat
    PROVE  CycleMultiplier(cycles) \in Nat \ {0}
<1> DEFINE h == Powers!Iteration(0, 1)
<1> DEFINE T == {k \in Nat : h[k] \in Nat \ {0}}
<1> DEFINE K == IF cycles = 0 THEN 1 ELSE cycles
<1>1. CycleMultiplier(cycles) = h[K]
  BY DEF CycleMultiplier, PowerOne, Powers!Iteration
<1>2. h[0] = 1 /\ \A k \in Nat : h[k + 1] = (1 + MaxCycleIterations) * h[k]
  <2>1. h[0] = 1 /\ \A k \in Nat : h[k + 1] = PowerOne(0, k + 1, h[k])
    BY ONLY Powers!IterationStep
  <2> HIDE DEF h
  <2>q. QED
    BY <2>1 DEF PowerOne
<1> HIDE DEF h
<1>3. MaxCycleIterations \in Nat
  BY GraphBoundsAssumption
<1>4. 0 \in T
  BY <1>2
<1>5. ASSUME NEW k \in Nat, k \in T PROVE k + 1 \in T
  <2>1. \A x \in Nat \ {0} : \A y \in Nat : (1 + y) * x \in Nat \ {0}
    OBVIOUS
  <2>q. QED
    BY <1>2, <1>3, <1>5, <2>1
<1>6. \A k \in Nat : k \in T
  <2> HIDE DEF T
  <2>q. QED
    BY <1>4, <1>5, Searches!NatSetInduction
<1>7. K \in T
  BY <1>6
<1>q. QED
  BY <1>1, <1>7

\* The facts of a published document that a run rests on.
LEMMA DocumentFacts ==
    ASSUME NEW d, IsDocument(d), Publishable(d)
    PROVE  /\ OfKind(d, {"input"}) \subseteq StepNodes(d) /\ StepNodes(d) \subseteq Nodes(d)
           /\ \A n \in Nodes(d) : n # 0
           /\ \A i \in FlowEdges(d) : Src(d, i) \in StepNodes(d)
           /\ \A n \in OfKind(d, {"gate"}) : d.turns[n] \in 0..MaxCycleIterations
           /\ \A n \in OfKind(d, BillableKinds) : d.retries[n] \in Nat /\ BillingUnits(d, n) \in Nat
<1>1. Linked(d)
  BY PublishableIsLinked
<1>2. \A n \in Nodes(d) : n # 0
  BY DEF IsDocument, Nodes
<1>3. \A m \in Members(d) : KindOf(d, m) = "agent"
  BY DEF Publishable, AttachmentsOK, Members, EdgesInto, KindOf
<1>4. OfKind(d, {"input"}) \subseteq StepNodes(d)
  BY <1>3 DEF OfKind, StepNodes, KindOf, AttachmentKinds
<1>5. \A i \in FlowEdges(d) : Src(d, i) \in StepNodes(d)
  <2>1. TAKE i \in FlowEdges(d)
  <2>2. Src(d, i) \in Nodes(d)
    BY <1>1 DEF Linked, FlowEdges, EdgesInto
  <2>3. Src(d, i) \notin Members(d)
    BY DEF Publishable, MembershipOK, Src
  <2>4. KindOf(d, Src(d, i)) \notin AttachmentKinds
    BY DEF Publishable, AttachmentsOK, FlowEdges, EdgesInto, Src
  <2>q. QED
    BY <2>2, <2>3, <2>4 DEF StepNodes, OfKind, KindOf
<1>6. \A n \in OfKind(d, {"gate"}) : d.turns[n] \in 0..MaxCycleIterations
  <2>1. TAKE n \in OfKind(d, {"gate"})
  <2>2. d.turns[n] \in Nat
    BY DEF IsDocument
  <2>3. d.turns[n] <= MaxCycleIterations
    BY DEF Publishable, CyclesOK
  <2>q. QED
    BY <2>2, <2>3, GraphBoundsAssumption
<1>7. \A n : BillingUnits(d, n) \in Nat
  <2>1. TAKE n
  <2>2. TeamOf(d, n) \subseteq Nodes(d)
    BY <1>1 DEF TeamOf, Linked, EdgesInto, Src
  <2>3. Cardinality(TeamOf(d, n)) \in Nat
    BY <1>1, <2>2, FS_Subset, FS_CardinalityType DEF Linked
  <2>q. QED
    BY <2>3 DEF BillingUnits
<1>8. \A n \in OfKind(d, BillableKinds) : d.retries[n] \in Nat
  BY DEF IsDocument
<1>q. QED
  BY <1>2, <1>4, <1>5, <1>6, <1>7, <1>8 DEF StepNodes

\* The ancestors of a node are steps, and no other node leads to it.
LEMMA AncestorsFacts ==
    ASSUME NEW d, IsDocument(d), Publishable(d), NEW n \in StepNodes(d)
    PROVE  /\ Ancestors(d, n) \subseteq StepNodes(d) /\ n \notin Ancestors(d, n)
           /\ \A m \in Nodes(d) \ (Ancestors(d, n) \union {n}) :
                 n \notin Reachable({m}, Ends(d, FlowEdges(d)))
<1> DEFINE steps == {i \in FlowEdges(d) : {d.edges[i].src, d.edges[i].dst} \subseteq StepNodes(d)}
<1> DEFINE into == {p \in Ends(d, steps) : p[1] # n}
<1> DEFINE direct == {p[1] : p \in {q \in into : q[2] = n}}
<1> DEFINE R == Reachable(direct, Flip(into))
<1> DEFINE A == Ancestors(d, n)
<1>0. Linked(d) /\ n \in Nodes(d) /\ StepNodes(d) \subseteq Nodes(d)
  BY PublishableIsLinked, DocumentFacts
<1>1. A = R \ {n}
  BY DEF Ancestors
<1>2. \A p \in into : p[1] \in StepNodes(d) /\ p[2] \in StepNodes(d)
  BY DEF Ends
<1>3. \A p \in Flip(into) : p[2] \in StepNodes(d) /\ p[1] \in StepNodes(d)
  <2> HIDE DEF into
  <2>1. ASSUME NEW p \in Flip(into) PROVE p[2] \in StepNodes(d) /\ p[1] \in StepNodes(d)
    <3>1. PICK q \in into : p = <<q[2], q[1]>>
      BY <2>1 DEF Flip
    <3>q. QED
      BY <1>2, <3>1
  <2>q. QED
    BY <2>1
<1>4. direct \subseteq StepNodes(d)
  BY <1>2
<1>5. IsFiniteSet(direct \union {p[2] : p \in Flip(into)})
  <2>1. direct \union {p[2] : p \in Flip(into)} \subseteq Nodes(d)
    BY <1>0, <1>3, <1>4
  <2>q. QED
    BY <1>0, <2>1, FS_Subset DEF Linked
<1>6. /\ direct \subseteq R /\ Closed(R, Flip(into))
      /\ \A C : direct \subseteq C /\ Closed(C, Flip(into)) => R \subseteq C
  <2> HIDE DEF direct, into
  <2>q. QED
    BY <1>5, ReachableIsLeast
<1>7. R \subseteq StepNodes(d)
  <2>1. Closed(StepNodes(d), Flip(into))
    BY <1>3 DEF Closed
  <2>q. QED
    BY <1>4, <1>6, <2>1
<1>8. ASSUME NEW x, NEW y, <<x, y>> \in Ends(d, FlowEdges(d)), y \in A \union {n}, x # n PROVE x \in A
  <2>1. PICK i \in FlowEdges(d) : d.edges[i].src = x /\ d.edges[i].dst = y
    BY <1>8 DEF Ends
  <2>2. x \in StepNodes(d) /\ y \in StepNodes(d)
    BY <1>1, <1>7, <1>8, <2>1, DocumentFacts DEF Src
  <2>3. <<x, y>> \in into
    BY <1>8, <2>1, <2>2 DEF Ends
  <2>4. <<y, x>> \in Flip(into)
    <3>1. <<x, y>>[1] = x /\ <<x, y>>[2] = y
      OBVIOUS
    <3> HIDE DEF into
    <3>q. QED
      BY <2>3, <3>1 DEF Flip
  <2>5. CASE y = n
    <3>1. x \in direct
      <4>1. <<x, y>>[1] = x /\ <<x, y>>[2] = n
        BY <2>5
      <4> HIDE DEF into
      <4>q. QED
        BY <2>3, <4>1
    <3>q. QED
      BY <1>1, <1>6, <1>8, <3>1
  <2>6. CASE y \in A
    <3>1. y \in R
      BY <1>1, <2>6
    <3>2. x \in R
      <4>1. <<y, x>>[1] = y /\ <<y, x>>[2] = x
        OBVIOUS
      <4> HIDE DEF R, into, A
      <4>q. QED
        BY <1>6, <2>4, <3>1, <4>1 DEF Closed
    <3>q. QED
      BY <1>1, <1>8, <3>2
  <2>q. QED
    BY <1>8, <2>5, <2>6
<1> HIDE DEF A
<1>9. ASSUME NEW m \in Nodes(d) \ (A \union {n}) PROVE n \notin Reachable({m}, Ends(d, FlowEdges(d)))
  <2> DEFINE C == Nodes(d) \ (A \union {n})
  <2> DEFINE pairs == Ends(d, FlowEdges(d))
  <2>1. \A p \in pairs : p = <<p[1], p[2]>> /\ p[2] \in Nodes(d)
    BY <1>0 DEF Ends, Linked, FlowEdges, EdgesInto, Dst
  <2>2. Closed(C, pairs)
    <3>1. ASSUME NEW p \in pairs, p[1] \in C PROVE p[2] \in C
      <4>1. <<p[1], p[2]>> \in pairs /\ p[2] \in Nodes(d)
        BY <2>1
      <4>2. p[1] \notin A /\ p[1] # n
        BY <3>1
      <4> HIDE DEF pairs
      <4>3. p[2] \notin A \union {n}
        BY <1>8, <4>1, <4>2 DEF pairs
      <4>q. QED
        BY <4>1, <4>3
    <3>q. QED
      BY <3>1 DEF Closed
  <2>3. IsFiniteSet({m} \union {p[2] : p \in pairs})
    <3>1. {m} \union {p[2] : p \in pairs} \subseteq Nodes(d)
      BY <2>1
    <3>q. QED
      BY <1>0, <3>1, FS_Subset DEF Linked
  <2>4. Reachable({m}, pairs) \subseteq C
    <3>1. {m} \subseteq C
      OBVIOUS
    <3> HIDE DEF C, pairs
    <3>q. QED
      BY <2>2, <2>3, <3>1, ReachableIsLeast
  <2>q. QED
    BY <2>4
<1>q. QED
  BY <1>1, <1>7, <1>9 DEF A

\* A compiled flow.
LEMMA CompileFacts ==
    ASSUME NEW d, IsDocument(d), Publishable(d), NEW p, NEW fl, fl = Compile(d, p)
    PROVE  /\ FlowShape(d, fl)
           /\ fl.steps = StepNodes(d) \ Dropped(d, p) /\ fl.replayed = Replayed(d, p)
           /\ fl.back = BackEdges(d)
<1> DEFINE kept == StepNodes(d) \ Dropped(d, p)
<1> DEFINE back == BackEdges(d)
<1> DEFINE listen == [n \in kept |-> ListenFor(d, p, back, n)]
<1> DEFINE some == {i \in back : {d.edges[i].src, d.edges[i].dst} \intersect Dropped(d, p) = {}}
<1>1. /\ fl.steps = kept /\ fl.replayed = Replayed(d, p) /\ fl.back = back /\ fl.listen = listen
      /\ fl.once = {n \in kept : IsMultiEventOr(listen[n]) /\ KindOf(d, n) # "router"}
      /\ fl.limit = MaxMethodCalls(d, p, back)
  BY DEF Compile
<1>2. Linked(d)
  BY PublishableIsLinked
<1>3. some \subseteq EdgeIds(d)
  <2>1. PICK s : SearchOK(d, s) /\ Over(d, s) /\ BackEdges(d) = s.back
    BY <1>2, SearchEnds
  <2>q. QED
    BY <2>1 DEF SearchOK, StackOK, FlowEdges, EdgesInto
<1>4. Cardinality(some) \in Nat
  <2> HIDE DEF some
  <2>q. QED
    BY <1>2, <1>3, FS_Subset, FS_CardinalityType DEF Linked
<1>5. fl.limit \in Nat \ {0}
  <2>1. fl.limit = CycleMultiplier(Cardinality(some))
    BY <1>1 DEF MaxMethodCalls
  <2> HIDE DEF some
  <2>q. QED
    BY <1>4, <2>1, CycleMultiplierIsPositive
<1>q. QED
  BY <1>1, <1>5 DEF FlowShape
-----------------------------------------------------------------------------
(* The run.                                                                 *)

Decisions == {"none", "approve", "revise", "honoured"}
Values(d) == {Blank, Empty, Other} \union UNION {d.branches[r] : r \in OfKind(d, {"router"})}

\* The flow's state.  A gate that honoured a revise had a turn.
StateFields == {"out", "err", "turns", "decision"}
StateOK(d, st) ==
    /\ st = [x \in StateFields |-> st[x]]
    /\ st.out \in [StepNodes(d) -> Values(d)] /\ st.err \subseteq d.routes
    /\ st.turns \in [StepNodes(d) -> 0..MaxCycleIterations]
    /\ st.decision \in [StepNodes(d) -> Decisions]
    /\ \A n \in StepNodes(d) : st.decision[n] = "honoured" => 1 <= MaxCycleIterations

\* What a derived run replays: there is a decision of every replayed node.
SavedOK(d, fl, sv) ==
    /\ \A n \in DOMAIN sv.out : sv.out[n] \in Values(d)
    /\ sv.err \subseteq d.routes
    /\ \A n \in fl.replayed :
          sv.decision[n] \in Decisions /\ (sv.decision[n] = "honoured" => 1 <= MaxCycleIterations)

\* The history: what is billed is a step of the flow that is not replayed.
LogFields == {"ran", "billed", "failed", "source", "lapped", "answers"}
LogOK(d, fl, lg) ==
    /\ lg = [x \in LogFields |-> lg[x]]
    /\ lg.ran = [n \in StepNodes(d) |-> lg.ran[n]]
    /\ lg.billed \in [StepNodes(d) -> Nat] /\ lg.answers \in 0..MaxAnswers
    /\ \A n \in StepNodes(d) : lg.billed[n] > 0 => n \in fl.steps /\ n \notin fl.replayed

PlanOK(d, p) ==
    \/ p = WholePlan
    \/ p \in [node : StepNodes(d), mode : {"resume_from", "node_test"}]

\* The engine is within its limit as long as the run is not over, and a run that has
\* not started has its inputs.
PhaseOK(d, fl, ph, eng) ==
    /\ ph \in {"published", "running", "paused"} \union Terminal
    /\ ph = "published" => OfKind(d, {"input"}) \subseteq fl.steps
    /\ EngineOK(d, fl, eng) /\ Fits(d, eng, fl.limit + 1)
    /\ ph \notin Terminal => Fits(d, eng, fl.limit)

RunOK ==
    /\ FlowOK /\ PlanOK(doc, plan) /\ PhaseOK(doc, flow, phase, engine)
    /\ StateOK(doc, state) /\ SavedOK(doc, flow, saved) /\ LogOK(doc, flow, log)

\* What holds of the document and the flow in every state.
LEMMA RunFacts ==
    ASSUME FlowOK
    PROVE  /\ IsDocument(doc) /\ Publishable(doc) /\ FlowShape(doc, flow)
           /\ flow.back = BackEdges(doc)
           /\ flow = Compile(doc, plan) => /\ flow.steps = StepNodes(doc) \ Dropped(doc, plan)
                                          /\ flow.replayed = Replayed(doc, plan)
<1>1. /\ IsDocument(doc) /\ Publishable(doc)
      /\ flow = Compile(doc, plan) \/ flow = Compile(doc, WholePlan)
  BY DocumentsAssumption DEF FlowOK
<1>2. ASSUME NEW p, flow = Compile(doc, p)
      PROVE  /\ FlowShape(doc, flow) /\ flow.back = BackEdges(doc)
             /\ flow.steps = StepNodes(doc) \ Dropped(doc, p) /\ flow.replayed = Replayed(doc, p)
  BY <1>1, <1>2, CompileFacts
<1>q. QED
  BY <1>1, <1>2

\* The state every run starts from.
LEMMA BlankStateOK == ASSUME FlowOK PROVE StateOK(doc, BlankState)
<1>1. 0 \in 0..MaxCycleIterations
  BY GraphBoundsAssumption
<1>2. BlankState = [x \in StateFields |-> BlankState[x]]
  BY DEF BlankState, StateFields
<1>3. /\ BlankState.out = [n \in StepNodes(doc) |-> Blank] /\ BlankState.err = {}
      /\ BlankState.turns = [n \in StepNodes(doc) |-> 0]
      /\ BlankState.decision = [n \in StepNodes(doc) |-> "none"]
  BY DEF BlankState
<1>q. QED
  BY <1>1, <1>2, <1>3 DEF StateOK, Values, Decisions

\* What a node records.
LEMMA RecordOK ==
    ASSUME StateOK(doc, state), NEW n, NEW v \in Values(doc)
    PROVE  StateOK(doc, Record(n, v))
<1> DEFINE t == Record(n, v)
<1>1. /\ t.out = [state.out EXCEPT ![n] = v] /\ t.err = state.err /\ t.turns = state.turns
      /\ t.decision = state.decision /\ t = [x \in StateFields |-> t[x]]
  BY DEF Record, StateOK, StateFields
<1> HIDE DEF t
<1>2. t.out \in [StepNodes(doc) -> Values(doc)]
  BY <1>1 DEF StateOK
<1>3. StateOK(doc, t)
  BY <1>1, <1>2 DEF StateOK
<1>q. QED
  BY <1>3 DEF t

\* The same with nodes that failed.
LEMMA FailureOK ==
    ASSUME NEW st, StateOK(doc, st), NEW s, s \subseteq doc.routes
    PROVE  StateOK(doc, [st EXCEPT !.err = @ \union s])
<1> DEFINE t == [st EXCEPT !.err = @ \union s]
<1>1. /\ t.out = st.out /\ t.err = st.err \union s /\ t.turns = st.turns
      /\ t.decision = st.decision /\ t = [x \in StateFields |-> t[x]]
  BY DEF StateOK, StateFields
<1> HIDE DEF t
<1>2. StateOK(doc, t)
  BY <1>1 DEF StateOK
<1>q. QED
  BY <1>2 DEF t

\* What flows into a node has been recorded.
LEMMA LatestOK ==
    ASSUME FlowOK, StateOK(doc, state), NEW n
    PROVE  Latest(n) \in Values(doc)
<1> DEFINE valued(edges) == {i \in InboundSource(n, edges) :
                                state.out[doc.edges[i].src] \notin {Blank, Empty}}
<1> DEFINE normal == valued(FlowEdges(doc) \ flow.back)
<1> DEFINE looped == valued(flow.back)
<1> DEFINE last == IF looped # {} THEN looped ELSE normal
<1>0. Linked(doc) /\ flow.steps \subseteq StepNodes(doc) /\ flow.back \subseteq FlowEdges(doc)
  <2>1. flow.back = BackEdges(doc) /\ Linked(doc)
    BY RunFacts, PublishableIsLinked
  <2>2. PICK s : SearchOK(doc, s) /\ Over(doc, s) /\ BackEdges(doc) = s.back
    BY <2>1, SearchEnds
  <2>q. QED
    BY <2>1, <2>2, RunFacts DEF FlowShape, SearchOK, StackOK
<1>1. Latest(n) = IF last = {} THEN Blank ELSE state.out[doc.edges[Max(last)].src]
  BY DEF Latest
<1>2. \A i \in last : i \in FlowEdges(doc) /\ doc.edges[i].src \in flow.steps
  BY <1>0 DEF InboundSource
<1>3. FlowEdges(doc) \subseteq 1..Len(doc.edges) /\ Len(doc.edges) \in Nat
  BY RunFacts DEF IsDocument, FlowEdges, EdgesInto, EdgeIds
<1> HIDE DEF last
<1>4. last # {} => Max(last) \in last
  <2>1. last \in SUBSET (1..Len(doc.edges))
    BY <1>2, <1>3
  <2>q. QED
    BY <1>3, <2>1, LargestIsIn
<1>5. last # {} => doc.edges[Max(last)].src \in StepNodes(doc)
  BY <1>0, <1>2, <1>4
<1>q. QED
  BY <1>1, <1>5 DEF StateOK, Values

\* Another run of a node, and what it is billed.
LEMMA LogGrows ==
    ASSUME LogOK(doc, flow, log), NEW n, NEW bills \in Nat, n \in flow.steps,
           bills > 0 => n \notin flow.replayed, NEW t,
           t.ran = [log.ran EXCEPT ![n] = @ + 1], t.billed = [log.billed EXCEPT ![n] = @ + bills],
           t.answers = log.answers, t = [x \in LogFields |-> t[x]]
    PROVE  LogOK(doc, flow, t)
<1>2. t.ran = [m \in StepNodes(doc) |-> t.ran[m]]
  BY DEF LogOK
<1>3. t.billed \in [StepNodes(doc) -> Nat]
  <2> DEFINE b == log.billed
  <2>1. b \in [StepNodes(doc) -> Nat] /\ t.billed = [b EXCEPT ![n] = b[n] + bills]
    BY DEF LogOK
  <2> HIDE DEF b
  <2>2. \A m \in StepNodes(doc) : t.billed[m] = b[m] \/ (m = n /\ t.billed[m] = b[m] + bills)
    BY <2>1
  <2>3. \A m \in StepNodes(doc) : t.billed[m] \in Nat
    BY <2>1, <2>2
  <2>4. t.billed = [m \in StepNodes(doc) |-> t.billed[m]]
    BY <2>1
  <2>q. QED
    BY <2>3, <2>4
<1>4. \A m \in StepNodes(doc) : t.billed[m] > 0 => m \in flow.steps /\ m \notin flow.replayed
  <2>1. TAKE m \in StepNodes(doc)
  <2>2. CASE m = n /\ bills > 0
    BY <2>2
  <2>3. CASE ~(m = n /\ bills > 0)
    <3>1. t.billed[m] = log.billed[m]
      BY <2>3 DEF LogOK
    <3>q. QED
      BY <3>1 DEF LogOK
  <2>q. QED
    BY <2>2, <2>3
<1>q. QED
  BY <1>2, <1>3, <1>4 DEF LogOK

\* A run of a node that is not billed.
LEMMA NotedOK ==
    ASSUME LogOK(doc, flow, log), NEW n, n \in flow.steps, NEW t, t = Noted(n, 0)
    PROVE  LogOK(doc, flow, t)
<1>1. /\ t.ran = [log.ran EXCEPT ![n] = @ + 1] /\ t.billed = [log.billed EXCEPT ![n] = @ + 0]
      /\ t.answers = log.answers /\ t = [x \in LogFields |-> t[x]]
  BY DEF Noted, LogOK, LogFields
<1>2. 0 \in Nat /\ ~(0 > 0)
  OBVIOUS
<1>q. QED
  BY <1>1, <1>2, LogGrows

\* A call that ended and what it set off.
LEMMA GoesOnOK ==
    ASSUME NEW eng, Moved(doc, flow, eng), GoesOn(eng)
    PROVE  PhaseOK(doc, flow, phase', engine') /\ UNCHANGED <<doc, plan, flow, saved>>
<1>1. engine' = eng /\ phase' = (IF eng.over THEN "failed" ELSE "running")
  BY DEF GoesOn
<1>2. phase' \in {"running", "failed"} /\ (phase' \notin Terminal => ~eng.over)
  BY <1>1 DEF Terminal
<1>q. QED
  BY <1>1, <1>2 DEF GoesOn, PhaseOK, Moved, Terminal

\* A run that goes on with its document and plan.
LEMMA SameFlow ==
    ASSUME RunOK, UNCHANGED <<doc, plan, flow, saved>>, PhaseOK(doc, flow, phase', engine'),
           StateOK(doc, state'), LogOK(doc, flow, log')
    PROVE  RunOK'
<1>1. doc' = doc /\ plan' = plan /\ flow' = flow /\ saved' = saved
  OBVIOUS
<1>2. FlowOK'
  BY <1>1 DEF RunOK, FlowOK
<1>q. QED
  BY <1>1, <1>2 DEF RunOK

\* One that fails where it stands.
LEMMA FailsHere ==
    ASSUME RunOK, UNCHANGED <<doc, plan, flow, engine, state, saved>>, phase' = "failed",
           LogOK(doc, flow, log')
    PROVE  RunOK'
<1>1. PhaseOK(doc, flow, phase', engine')
  BY DEF RunOK, PhaseOK, Terminal
<1>2. StateOK(doc, state')
  BY DEF RunOK
<1>q. QED
  BY <1>1, <1>2, SameFlow

\* What an active step half says.
LEMMA StepFacts ==
    ASSUME RunOK, NEW n, NEW e \in Steps(n) \union Routes(n)
    PROVE  /\ e \in engine.active /\ n \in flow.steps /\ n \in StepNodes(doc)
           /\ EngineOK(doc, flow, engine) /\ Fits(doc, engine, flow.limit) /\ FlowShape(doc, flow)
<1>1. e \in engine.active /\ phase = "running" /\ e.method \in {<<n, "step">>, <<n, "route">>}
  BY DEF Steps, Routes
<1>2. EngineOK(doc, flow, engine) /\ Fits(doc, engine, flow.limit) /\ FlowShape(doc, flow)
  BY <1>1, RunFacts DEF RunOK, PhaseOK, Terminal
<1>3. n \in flow.steps
  BY <1>1, <1>2 DEF EngineOK, Halves
<1>q. QED
  BY <1>1, <1>2, <1>3 DEF FlowShape

\* What an input, a transform and an agent that succeeded have in common.
LEMMA WorkedKeeps ==
    ASSUME RunOK, NEW n, NEW e \in Steps(n), NEW v \in Produces(n), state' = Record(n, v),
           GoesOn(Onwards(e, n)), LogOK(doc, flow, log')
    PROVE  RunOK'
<1>1. /\ e \in engine.active
      /\ EngineOK(doc, flow, engine) /\ Fits(doc, engine, flow.limit) /\ FlowShape(doc, flow)
  BY StepFacts
<1>2. PhaseOK(doc, flow, phase', engine') /\ UNCHANGED <<doc, plan, flow, saved>>
  BY <1>1, OnwardsOK, GoesOnOK
<1>3. v \in Values(doc)
  BY DEF Produces, Values
<1>4. StateOK(doc, state')
  BY <1>3, RecordOK DEF RunOK
<1>q. QED
  BY <1>2, <1>4, SameFlow

\* The same when nothing is billed.
LEMMA WorkKeeps ==
    ASSUME RunOK, NEW n, NEW e \in Steps(n), \E v \in Produces(n) : state' = Record(n, v),
           GoesOn(Onwards(e, n)), log' = Noted(n, 0)
    PROVE  RunOK'
<1>1. n \in flow.steps
  BY StepFacts
<1>2. LogOK(doc, flow, log')
  BY <1>1, NotedOK DEF RunOK
<1>q. QED
  BY <1>2, WorkedKeeps

\* The entrypoints: an input,
LEMMA SeedInputKeeps == ASSUME RunOK, NEW n, SeedInput(n) PROVE RunOK'
<1>1. PICK e \in Steps(n) :
         /\ \E v \in Produces(n) : state' = Record(n, v)
         /\ GoesOn(Onwards(e, n)) /\ log' = Noted(n, 0)
  BY DEF SeedInput
<1>q. QED
  BY <1>1, WorkKeeps

\* a transform,
LEMMA TransformKeeps == ASSUME RunOK, NEW n, Transform(n) PROVE RunOK'
<1>1. PICK e \in Steps(n) :
         /\ \E v \in Produces(n) : state' = Record(n, v)
         /\ GoesOn(Onwards(e, n)) /\ log' = Noted(n, 0)
  BY DEF Transform
<1>q. QED
  BY <1>1, WorkKeeps

\* An agent that produced something, or failed.
LEMMA RunAgentKeeps == ASSUME RunOK, NEW n, RunAgent(n) PROVE RunOK'
<1>1. PICK e \in Steps(n), attempts \in 1..(doc.retries[n] + 1) :
         LET noted == [Noted(n, attempts * BillingUnits(doc, n)) EXCEPT !.failed = @ \ {n}]
         IN  /\ KindOf(doc, n) \in BillableKinds /\ n \notin flow.replayed
             /\ \/ /\ \E v \in Produces(n) : state' = Record(n, v)
                   /\ GoesOn(Onwards(e, n))
                   /\ log' = noted
                \/ /\ RoutesErrors(doc, n)
                   /\ state' = [Record(n, Empty) EXCEPT !.err = @ \union {n}]
                   /\ GoesOn(Onwards(e, n))
                   /\ log' = [noted EXCEPT !.failed = @ \union {n}]
                \/ /\ ~RoutesErrors(doc, n)
                   /\ phase' = "failed"
                   /\ log' = [noted EXCEPT !.failed = @ \union {n}]
                   /\ UNCHANGED <<doc, plan, flow, engine, state, saved>>
  BY DEF RunAgent
<1> DEFINE bills == attempts * BillingUnits(doc, n)
<1> DEFINE noted == [Noted(n, bills) EXCEPT !.failed = @ \ {n}]
<1>2. /\ e \in engine.active /\ n \in flow.steps /\ n \in StepNodes(doc)
      /\ EngineOK(doc, flow, engine) /\ Fits(doc, engine, flow.limit) /\ FlowShape(doc, flow)
  BY StepFacts
<1>3. bills \in Nat
  <2>1. doc.retries[n] \in Nat /\ BillingUnits(doc, n) \in Nat
    <3>1. n \in OfKind(doc, BillableKinds)
      BY <1>1, <1>2 DEF KindOf, OfKind, StepNodes
    <3>q. QED
      BY <3>1, RunFacts, DocumentFacts DEF RunOK
  <2>2. attempts \in Nat
    BY <2>1
  <2>3. \A x, y \in Nat : x * y \in Nat
    OBVIOUS
  <2>q. QED
    BY <2>1, <2>2, <2>3
<1>4. LogOK(doc, flow, log')
  <2> DEFINE u == Noted(n, bills)
  <2> DEFINE t == log'
  <2>1. /\ u.ran = [log.ran EXCEPT ![n] = @ + 1] /\ u.billed = [log.billed EXCEPT ![n] = @ + bills]
        /\ u.answers = log.answers /\ u = [x \in LogFields |-> u[x]]
    <3> HIDE DEF bills
    <3>q. QED
      BY DEF RunOK, LogOK, LogFields, Noted
  <2>2. t = [u EXCEPT !.failed = @ \ {n}] \/ t = [[u EXCEPT !.failed = @ \ {n}] EXCEPT !.failed = @ \union {n}]
    BY <1>1
  <2> HIDE DEF u, t
  <2>3. t.ran = u.ran /\ t.billed = u.billed /\ t.answers = u.answers /\ t = [x \in LogFields |-> t[x]]
    BY <2>1, <2>2 DEF LogFields
  <2> HIDE DEF bills
  <2>4. LogOK(doc, flow, t)
    BY <1>1, <1>2, <1>3, <2>1, <2>3, LogGrows DEF RunOK
  <2>q. QED
    BY <2>4 DEF t
<1>5. CASE \E v \in Produces(n) : state' = Record(n, v) /\ GoesOn(Onwards(e, n))
  BY <1>2, <1>4, <1>5, WorkedKeeps
<1>6. CASE RoutesErrors(doc, n) /\ state' = [Record(n, Empty) EXCEPT !.err = @ \union {n}] /\ GoesOn(Onwards(e, n))
  <2>1. StateOK(doc, Record(n, Empty))
    BY RecordOK DEF RunOK, Values
  <2>2. StateOK(doc, state')
    BY <1>6, <2>1, FailureOK DEF RoutesErrors
  <2>3. PhaseOK(doc, flow, phase', engine') /\ UNCHANGED <<doc, plan, flow, saved>>
    BY <1>2, <1>6, OnwardsOK, GoesOnOK
  <2>q. QED
    BY <1>4, <2>2, <2>3, SameFlow
<1>7. CASE phase' = "failed" /\ UNCHANGED <<doc, plan, flow, engine, state, saved>>
  BY <1>4, <1>7, FailsHere
<1>q. QED
  BY <1>1, <1>5, <1>6, <1>7

\* One that fails before it attempts anything,
LEMMA RefuseAgentKeeps == ASSUME RunOK, NEW n, RefuseAgent(n) PROVE RunOK'
<1>1. PICK e \in Steps(n) :
         /\ phase' = "failed" /\ log' = [Noted(n, 0) EXCEPT !.failed = @ \union {n}]
         /\ UNCHANGED <<doc, plan, flow, engine, state, saved>>
  BY DEF RefuseAgent
<1> DEFINE u == Noted(n, 0)
<1>2. LogOK(doc, flow, u)
  BY StepFacts, NotedOK DEF RunOK
<1>3. log' = [u EXCEPT !.failed = @ \union {n}]
  BY <1>1
<1> HIDE DEF u
<1>4. /\ log'.ran = u.ran /\ log'.billed = u.billed /\ log'.answers = u.answers
      /\ log' = [x \in LogFields |-> log'[x]]
  BY <1>2, <1>3 DEF LogOK, LogFields
<1>5. LogOK(doc, flow, log')
  BY <1>2, <1>4 DEF LogOK
<1>q. QED
  BY <1>1, <1>5, FailsHere

\* The error router,
LEMMA RouteErrorKeeps == ASSUME RunOK, NEW n, RouteError(n) PROVE RunOK'
<1>1. PICK e \in Routes(n) :
         /\ GoesOn(Emit(Rearm(engine, n), e, <<n, IF n \in state.err THEN "error" ELSE "ok">>))
         /\ UNCHANGED <<state, log>>
  BY DEF RouteError
<1>2. /\ e \in engine.active
      /\ EngineOK(doc, flow, engine) /\ Fits(doc, engine, flow.limit) /\ FlowShape(doc, flow)
  BY StepFacts
<1>3. PhaseOK(doc, flow, phase', engine') /\ UNCHANGED <<doc, plan, flow, saved>>
  BY <1>1, <1>2, RearmOK, EmitOK, GoesOnOK
<1>q. QED
  BY <1>1, <1>3, SameFlow DEF RunOK

\* a router,
LEMMA RouteBranchKeeps == ASSUME RunOK, NEW n, RouteBranch(n) PROVE RunOK'
<1>1. PICK e \in Steps(n) :
         /\ \E label : GoesOn(Emit(Rearm(engine, n), e, <<n, label>>))
         /\ state' = Record(n, Latest(n)) /\ log' = Noted(n, 0)
  BY DEF RouteBranch
<1>2. /\ e \in engine.active /\ n \in flow.steps
      /\ EngineOK(doc, flow, engine) /\ Fits(doc, engine, flow.limit) /\ FlowShape(doc, flow)
  BY StepFacts
<1>3. PhaseOK(doc, flow, phase', engine') /\ UNCHANGED <<doc, plan, flow, saved>>
  BY <1>1, <1>2, RearmOK, EmitOK, GoesOnOK
<1>4. StateOK(doc, state')
  BY <1>1, LatestOK, RecordOK DEF RunOK
<1>5. LogOK(doc, flow, log')
  BY <1>1, <1>2, NotedOK DEF RunOK
<1>q. QED
  BY <1>3, <1>4, <1>5, SameFlow

\* an output,
LEMMA EmitOutputKeeps == ASSUME RunOK, NEW n, EmitOutput(n) PROVE RunOK'
<1>1. PICK e \in Steps(n) :
         /\ state' = Record(n, IF Latest(n) = Blank THEN Empty ELSE Latest(n))
         /\ GoesOn(Emit(engine, e, <<n, Ran>>)) /\ log' = Noted(n, 0)
  BY DEF EmitOutput
<1>2. /\ e \in engine.active /\ n \in flow.steps
      /\ EngineOK(doc, flow, engine) /\ Fits(doc, engine, flow.limit) /\ FlowShape(doc, flow)
  BY StepFacts
<1>3. PhaseOK(doc, flow, phase', engine') /\ UNCHANGED <<doc, plan, flow, saved>>
  BY <1>1, <1>2, EmitOK, GoesOnOK
<1>4. StateOK(doc, state')
  <2>1. (IF Latest(n) = Blank THEN Empty ELSE Latest(n)) \in Values(doc)
    BY LatestOK DEF RunOK, Values
  <2>q. QED
    BY <1>1, <2>1, RecordOK DEF RunOK
<1>5. LogOK(doc, flow, log')
  BY <1>1, <1>2, NotedOK DEF RunOK
<1>q. QED
  BY <1>3, <1>4, <1>5, SameFlow

\* What a pause leaves of the engine is the call it pauses.
LEMMA PausedEngine ==
    ASSUME EngineOK(doc, flow, engine), NEW e \in engine.active, NEW t,
           t = [engine EXCEPT !.active = {e}]
    PROVE  /\ EngineOK(doc, flow, t) /\ t.active = {e}
           /\ t.calls = engine.calls /\ t.fired = engine.fired /\ t.arrived = engine.arrived
           /\ t.done = engine.done /\ t.lost = engine.lost
<1>1. /\ t.active = {e} /\ IsEngine(t)
      /\ t.calls = engine.calls /\ t.fired = engine.fired /\ t.arrived = engine.arrived
      /\ t.done = engine.done /\ t.lost = engine.lost
  BY DEF EngineOK, IsEngine, Memory
<1>q. QED
  BY <1>1 DEF EngineOK

\* and a gate that pauses.
LEMMA RenderGateKeeps == ASSUME RunOK, NEW n, RenderGate(n) PROVE RunOK'
<1>1. PICK e \in Steps(n) :
         /\ state' = Record(n, Other) /\ phase' = "paused" /\ log' = Noted(n, 0)
         /\ engine' = [engine EXCEPT !.active = {e}]
         /\ UNCHANGED <<doc, plan, flow, saved>>
  BY DEF RenderGate
<1>2. /\ n \in flow.steps /\ Fits(doc, engine, flow.limit) /\ e \in engine.active
      /\ EngineOK(doc, flow, engine)
  BY StepFacts
<1>3. PhaseOK(doc, flow, phase', engine')
  <2>1. EngineOK(doc, flow, engine') /\ engine'.calls = engine.calls
    BY <1>1, <1>2, PausedEngine
  <2>2. Fits(doc, engine', flow.limit) /\ Fits(doc, engine', flow.limit + 1)
    BY <1>2, <2>1 DEF Fits, RunOK, PhaseOK
  <2>q. QED
    BY <1>1, <2>1, <2>2 DEF RunOK, PhaseOK, Terminal
<1>4. StateOK(doc, state')
  BY <1>1, RecordOK DEF RunOK, Values
<1>5. LogOK(doc, flow, log')
  BY <1>1, <1>2, NotedOK DEF RunOK
<1>q. QED
  BY <1>1, <1>3, <1>4, <1>5, SameFlow

\* A decision, whoever took it.
LEMMA DecideOK ==
    ASSUME RunOK, NEW n, NEW e \in Routes(n), NEW decision \in Decisions, NEW honoured \in BOOLEAN,
           honoured => state.turns[n] + 1 <= MaxCycleIterations,
           decision = "honoured" => 1 <= MaxCycleIterations,
           Decide(e, n, decision, honoured)
    PROVE  /\ StateOK(doc, state') /\ PhaseOK(doc, flow, phase', engine')
           /\ UNCHANGED <<doc, plan, flow, saved>>
<1>1. /\ state' = [state EXCEPT !.turns[n] = @ + (IF honoured THEN 1 ELSE 0),
                                !.decision[n] = IF honoured THEN "honoured" ELSE decision]
      /\ GoesOn(Emit(IF honoured THEN Rearm(engine, n) ELSE engine, e,
                     <<n, IF honoured THEN "revise" ELSE "approve">>))
  BY DEF Decide
<1>2. /\ FlowShape(doc, flow) /\ EngineOK(doc, flow, engine) /\ Fits(doc, engine, flow.limit)
      /\ e \in engine.active /\ n \in StepNodes(doc)
  BY StepFacts
<1>3. PhaseOK(doc, flow, phase', engine') /\ UNCHANGED <<doc, plan, flow, saved>>
  BY <1>1, <1>2, RearmOK, EmitOK, GoesOnOK
<1>4. /\ state.turns \in [StepNodes(doc) -> 0..MaxCycleIterations] /\ MaxCycleIterations \in Nat
      /\ state.decision \in [StepNodes(doc) -> Decisions]
      /\ \A m \in StepNodes(doc) : state.decision[m] = "honoured" => 1 <= MaxCycleIterations
  BY GraphBoundsAssumption DEF RunOK, StateOK
<1> DEFINE t == state'
<1>5. /\ t.out = state.out /\ t.err = state.err /\ t = [x \in StateFields |-> t[x]]
      /\ t.turns = [state.turns EXCEPT ![n] = @ + (IF honoured THEN 1 ELSE 0)]
      /\ t.decision = [state.decision EXCEPT ![n] = IF honoured THEN "honoured" ELSE decision]
  BY <1>1 DEF RunOK, StateOK, StateFields
<1> HIDE DEF t
<1>6. t.turns \in [StepNodes(doc) -> 0..MaxCycleIterations]
  <2>1. state.turns[n] + (IF honoured THEN 1 ELSE 0) \in 0..MaxCycleIterations
    BY <1>2, <1>4
  <2>q. QED
    BY <1>2, <1>4, <1>5, <2>1
<1>7. t.decision \in [StepNodes(doc) -> Decisions]
  BY <1>4, <1>5 DEF Decisions
<1>8. honoured => 1 <= MaxCycleIterations
  BY <1>2, <1>4
<1>9. \A m \in StepNodes(doc) : t.decision[m] = "honoured" => 1 <= MaxCycleIterations
  BY <1>4, <1>5, <1>8
<1>10. StateOK(doc, t)
  BY <1>5, <1>6, <1>7, <1>9 DEF RunOK, StateOK
<1>q. QED
  BY <1>3, <1>10 DEF t

\* The operator's reply: the whole flow takes every step, and replays none.
LEMMA AnswerKeeps == ASSUME RunOK, NEW n \in StepNodes(doc), Answer(n) PROVE RunOK'
<1>1. /\ log.answers < MaxAnswers /\ log' = [log EXCEPT !.answers = @ + 1] /\ phase' = "running"
      /\ flow' = Compile(doc, WholePlan) /\ engine' = NewEngine({<<n, "route">>})
      /\ doc' = doc /\ plan' = plan /\ state' = state /\ saved' = saved
  BY DEF Answer
<1>2. FlowOK'
  BY <1>1 DEF RunOK, FlowOK
<1>3. FlowShape(doc, flow') /\ flow'.steps = StepNodes(doc) /\ flow'.replayed = {}
  <2>1. Dropped(doc, WholePlan) = {} /\ Replayed(doc, WholePlan) = {}
    BY DEF Dropped, Replayed, WholePlan
  <2>q. QED
    BY <1>1, <2>1, RunFacts, CompileFacts DEF RunOK
<1>4. PhaseOK(doc, flow', phase', engine')
  <2>1. {<<n, "route">>} \subseteq Halves(flow'.steps)
    BY <1>3 DEF Halves
  <2>2. EngineOK(doc, flow', engine') /\ Fits(doc, engine', flow'.limit)
    BY <1>1, <1>3, <2>1, NewEngineOK
  <2>3. Fits(doc, engine', flow'.limit + 1)
    BY <1>3, <2>2 DEF Fits, FlowShape, EngineOK
  <2>q. QED
    BY <1>1, <2>2, <2>3 DEF PhaseOK
<1>5. SavedOK(doc, flow', saved')
  BY <1>1, <1>3 DEF RunOK, SavedOK
<1>6. LogOK(doc, flow', log')
  <2>1. /\ log'.ran = log.ran /\ log'.billed = log.billed /\ log'.answers = log.answers + 1
        /\ log' = [x \in LogFields |-> log'[x]]
    BY <1>1 DEF RunOK, LogOK, LogFields
  <2>2. log'.answers \in 0..MaxAnswers
    BY <1>1, <2>1, DocumentsAssumption DEF RunOK, LogOK
  <2>q. QED
    BY <1>3, <2>1, <2>2 DEF RunOK, LogOK
<1>q. QED
  BY <1>1, <1>2, <1>4, <1>5, <1>6 DEF RunOK

\* A gate reads the reply: a turn is left whenever a revise is honoured.
LEMMA RouteGateKeeps == ASSUME RunOK, NEW n, RouteGate(n) PROVE RunOK'
<1>1. PICK e \in Routes(n), decision \in {"approve", "revise"} :
         /\ KindOf(doc, n) = "gate" /\ log' = log
         /\ Decide(e, n, decision, decision = "revise" /\ state.turns[n] < doc.turns[n])
  BY DEF RouteGate
<1>2. n \in StepNodes(doc)
  BY StepFacts
<1> DEFINE honoured == decision = "revise" /\ state.turns[n] < doc.turns[n]
<1>3. honoured => state.turns[n] + 1 <= MaxCycleIterations
  <2>1. doc.turns[n] \in 0..MaxCycleIterations
    <3>1. n \in OfKind(doc, {"gate"})
      BY <1>1, <1>2 DEF KindOf, OfKind, StepNodes
    <3>q. QED
      BY <3>1, RunFacts, DocumentFacts DEF RunOK
  <2>2. state.turns[n] \in 0..MaxCycleIterations /\ MaxCycleIterations \in Nat
    BY <1>2, GraphBoundsAssumption DEF RunOK, StateOK
  <2>q. QED
    BY <2>1, <2>2
<1>4. honoured \in BOOLEAN /\ decision \in Decisions /\ decision # "honoured"
  BY DEF Decisions
<1>5. Decide(e, n, decision, honoured)
  BY <1>1
<1> HIDE DEF honoured
<1>6. /\ StateOK(doc, state') /\ PhaseOK(doc, flow, phase', engine')
      /\ UNCHANGED <<doc, plan, flow, saved>>
  BY <1>3, <1>4, <1>5, DecideOK
<1>q. QED
  BY <1>1, <1>6, SameFlow DEF RunOK

\* A replayed gate takes the recorded decision, a recorded revise once.
LEMMA RouteReplayedGateKeeps == ASSUME RunOK, NEW n, RouteReplayedGate(n) PROVE RunOK'
<1>1. PICK e \in Routes(n) :
         /\ KindOf(doc, n) = "gate" /\ n \in flow.replayed
         /\ UNCHANGED log
         /\ \/ /\ phase' = "failed"
               /\ UNCHANGED <<doc, plan, flow, engine, state, saved>>
            \/ Decide(e, n, IF saved.decision[n] = "honoured" THEN "revise" ELSE saved.decision[n],
                      saved.decision[n] = "honoured" /\ state.turns[n] < 1)
  BY DEF RouteReplayedGate
<1>2. n \in StepNodes(doc)
  BY StepFacts
<1>3. LogOK(doc, flow, log')
  BY <1>1 DEF RunOK
<1>4. CASE phase' = "failed" /\ UNCHANGED <<doc, plan, flow, engine, state, saved>>
  BY <1>3, <1>4, FailsHere
<1> DEFINE honoured == saved.decision[n] = "honoured" /\ state.turns[n] < 1
<1> DEFINE decision == IF saved.decision[n] = "honoured" THEN "revise" ELSE saved.decision[n]
<1>5. CASE Decide(e, n, decision, honoured)
  <2>1. saved.decision[n] \in Decisions /\ (saved.decision[n] = "honoured" => 1 <= MaxCycleIterations)
    BY <1>1 DEF RunOK, SavedOK
  <2>2. honoured => state.turns[n] + 1 <= MaxCycleIterations
    <3>1. state.turns[n] \in 0..MaxCycleIterations /\ MaxCycleIterations \in Nat
      BY <1>2, GraphBoundsAssumption DEF RunOK, StateOK
    <3>q. QED
      BY <2>1, <3>1
  <2>3. honoured \in BOOLEAN /\ decision \in Decisions /\ decision # "honoured"
    BY <2>1 DEF Decisions
  <2> HIDE DEF honoured, decision
  <2>4. /\ StateOK(doc, state') /\ PhaseOK(doc, flow, phase', engine')
        /\ UNCHANGED <<doc, plan, flow, saved>>
    BY <1>5, <2>2, <2>3, DecideOK
  <2>q. QED
    BY <1>3, <2>4, SameFlow
<1>q. QED
  BY <1>1, <1>4, <1>5

\* A replayed node.
LEMMA ReplayOutputKeeps == ASSUME RunOK, NEW n, ReplayOutput(n) PROVE RunOK'
<1>1. PICK e \in Steps(n) :
         /\ log' = Noted(n, 0)
         /\ \/ /\ phase' = "failed"
               /\ UNCHANGED <<doc, plan, flow, engine, state, saved>>
            \/ /\ n \in DOMAIN saved.out
               /\ state' = [Record(n, IF saved.out[n] = Blank THEN Empty ELSE saved.out[n])
                               EXCEPT !.err = @ \union ({n} \intersect saved.err)]
               /\ GoesOn(IF KindOf(doc, n) = "gate" THEN Pair(engine, e) ELSE Onwards(e, n))
  BY DEF ReplayOutput
<1>2. /\ e \in engine.active /\ n \in flow.steps
      /\ EngineOK(doc, flow, engine) /\ Fits(doc, engine, flow.limit) /\ FlowShape(doc, flow)
  BY StepFacts
<1>3. LogOK(doc, flow, log')
  BY <1>1, <1>2, NotedOK DEF RunOK
<1>4. CASE phase' = "failed" /\ UNCHANGED <<doc, plan, flow, engine, state, saved>>
  BY <1>3, <1>4, FailsHere
<1>5. CASE /\ n \in DOMAIN saved.out
           /\ state' = [Record(n, IF saved.out[n] = Blank THEN Empty ELSE saved.out[n])
                           EXCEPT !.err = @ \union ({n} \intersect saved.err)]
           /\ GoesOn(IF KindOf(doc, n) = "gate" THEN Pair(engine, e) ELSE Onwards(e, n))
  <2> DEFINE v == IF saved.out[n] = Blank THEN Empty ELSE saved.out[n]
  <2>1. v \in Values(doc)
    BY <1>5 DEF RunOK, SavedOK, Values
  <2> HIDE DEF v
  <2>2. StateOK(doc, Record(n, v))
    BY <2>1, RecordOK DEF RunOK
  <2>3. {n} \intersect saved.err \subseteq doc.routes
    BY DEF RunOK, SavedOK
  <2>4. StateOK(doc, state')
    BY <1>5, <2>2, <2>3, FailureOK DEF v
  <2>5. PhaseOK(doc, flow, phase', engine') /\ UNCHANGED <<doc, plan, flow, saved>>
    BY <1>2, <1>5, PairOK, OnwardsOK, GoesOnOK
  <2>q. QED
    BY <1>3, <2>4, <2>5, SameFlow
<1>q. QED
  BY <1>1, <1>4, <1>5

\* A run that is derived starts as every run does.
LEMMA DeriveKeeps ==
    ASSUME RunOK, NEW n \in StepNodes(doc), NEW mode \in {"resume_from", "node_test"},
           NEW slices, NEW source, Derive(n, mode, slices, source),
           \A m \in DOMAIN slices.out : slices.out[m] \in Values(doc), slices.err \subseteq doc.routes,
           \A m \in Ancestors(doc, n) :
              /\ slices.decision[m] \in Decisions
              /\ slices.decision[m] = "honoured" => 1 <= MaxCycleIterations
    PROVE  RunOK'
<1>1. /\ plan' = [node |-> n, mode |-> mode] /\ flow' = Compile(doc, plan') /\ phase' = "running"
      /\ engine' = NewEngine({m \in Starts : m[1] \notin Dropped(doc, plan')})
      /\ state' = BlankState /\ saved' = slices /\ doc' = doc
      /\ log' = [NoLog EXCEPT !.source = {m \in StepNodes(doc) : source.ran[m] > 0},
                              !.lapped = \E m \in StepNodes(doc) : source.ran[m] > 1]
  BY DEF Derive
<1>2. IsDocument(doc) /\ Publishable(doc)
  BY RunFacts DEF RunOK
<1>3. /\ FlowShape(doc, flow') /\ flow'.steps = StepNodes(doc) \ Dropped(doc, plan')
      /\ flow'.replayed = Ancestors(doc, n)
  <2>1. n # 0
    BY <1>2, DocumentFacts
  <2>q. QED
    BY <1>1, <1>2, <2>1, CompileFacts DEF Replayed
<1>4. FlowOK'
  BY <1>1 DEF RunOK, FlowOK
<1>5. PlanOK(doc, plan')
  BY <1>1 DEF PlanOK
<1>6. PhaseOK(doc, flow', phase', engine')
  <2>1. {m \in Starts : m[1] \notin Dropped(doc, plan')} \subseteq Halves(flow'.steps)
    BY <1>2, <1>3, DocumentFacts DEF Starts, Halves
  <2>2. EngineOK(doc, flow', engine') /\ Fits(doc, engine', flow'.limit)
    BY <1>1, <1>3, <2>1, NewEngineOK
  <2>3. Fits(doc, engine', flow'.limit + 1)
    BY <1>3, <2>2 DEF Fits, FlowShape, EngineOK
  <2>q. QED
    BY <1>1, <2>2, <2>3 DEF PhaseOK
<1>7. StateOK(doc, state')
  BY <1>1, BlankStateOK DEF RunOK
<1>8. SavedOK(doc, flow', saved')
  BY <1>1, <1>3 DEF SavedOK
<1>9. LogOK(doc, flow', log')
  <2>1. /\ log'.ran = [m \in StepNodes(doc) |-> 0] /\ log'.billed = [m \in StepNodes(doc) |-> 0]
        /\ log'.answers = 0 /\ log' = [x \in LogFields |-> log'[x]]
    BY <1>1 DEF NoLog, LogFields
  <2>q. QED
    BY <2>1, DocumentsAssumption DEF LogOK
<1>q. QED
  BY <1>1, <1>4, <1>5, <1>6, <1>7, <1>8, <1>9 DEF RunOK

\* A run resumed from a node replays its ancestors,
LEMMA ResumeFromKeeps == ASSUME RunOK, NEW n \in StepNodes(doc), ResumeFrom(n) PROVE RunOK'
<1> DEFINE slices == Slices(Ancestors(doc, n), state)
<1>1. Derive(n, "resume_from", slices, log)
  BY DEF ResumeFrom
<1>2. Ancestors(doc, n) \subseteq StepNodes(doc)
  BY RunFacts, AncestorsFacts DEF RunOK
<1>3. /\ slices.out = [m \in Ancestors(doc, n) |-> state.out[m]]
      /\ slices.err \subseteq state.err
      /\ slices.decision = [m \in Ancestors(doc, n) |-> state.decision[m]]
  BY DEF Slices
<1> HIDE DEF slices
<1>4. \A m \in DOMAIN slices.out : slices.out[m] \in Values(doc)
  BY <1>2, <1>3 DEF RunOK, StateOK
<1>5. slices.err \subseteq doc.routes
  BY <1>3 DEF RunOK, StateOK
<1>6. \A m \in Ancestors(doc, n) :
         /\ slices.decision[m] \in Decisions
         /\ slices.decision[m] = "honoured" => 1 <= MaxCycleIterations
  BY <1>2, <1>3 DEF RunOK, StateOK
<1>q. QED
  BY <1>1, <1>4, <1>5, <1>6, DeriveKeeps

\* and so does the test of one node, from test inputs.
LEMMA NodeTestKeeps == ASSUME RunOK, NEW n \in StepNodes(doc), NodeTest(n) PROVE RunOK'
<1>1. PICK missing \in StepNodes(doc), shapeless \in StepNodes(doc) :
         LET mocked == Ancestors(doc, n) \ {missing}
         IN  Derive(n, "node_test",
                    [out |-> [m \in mocked |-> Other], err |-> {},
                     decision |-> [m \in Ancestors(doc, n) |->
                                      IF m \in mocked \ {shapeless} THEN "approve" ELSE "none"]],
                    NoLog)
  BY DEF NodeTest
<1> DEFINE mocked == Ancestors(doc, n) \ {missing}
<1> DEFINE slices == [out |-> [m \in mocked |-> Other], err |-> {},
                      decision |-> [m \in Ancestors(doc, n) |->
                                       IF m \in mocked \ {shapeless} THEN "approve" ELSE "none"]]
<1>2. Derive(n, "node_test", slices, NoLog)
  BY <1>1
<1>3. /\ \A m \in DOMAIN slices.out : slices.out[m] = Other
      /\ slices.err = {}
      /\ \A m \in Ancestors(doc, n) : slices.decision[m] \in {"approve", "none"}
  OBVIOUS
<1> HIDE DEF slices
<1>4. \A m \in DOMAIN slices.out : slices.out[m] \in Values(doc)
  BY <1>3 DEF Values
<1>5. \A m \in Ancestors(doc, n) :
         /\ slices.decision[m] \in Decisions
         /\ slices.decision[m] = "honoured" => 1 <= MaxCycleIterations
  BY <1>3 DEF Decisions
<1>q. QED
  BY <1>2, <1>3, <1>4, <1>5, DeriveKeeps

\* A launch calls the inputs once.
LEMMA KickoffPhase ==
    ASSUME RunOK, Kickoff
    PROVE  PhaseOK(doc, flow, phase', engine')
<1>1. phase' = "running" /\ engine' = NewEngine(Starts) /\ OfKind(doc, {"input"}) \subseteq flow.steps
  BY DEF Kickoff, RunOK, PhaseOK
<1>2. IsDocument(doc) /\ Publishable(doc) /\ FlowShape(doc, flow)
  BY RunFacts DEF RunOK
<1>3. Starts \subseteq Halves(flow.steps)
  BY <1>1 DEF Starts, Halves
<1>4. EngineOK(doc, flow, engine') /\ Fits(doc, engine', flow.limit)
  BY <1>1, <1>2, <1>3, NewEngineOK
<1>5. Fits(doc, engine', flow.limit + 1)
  BY <1>2, <1>4 DEF Fits, FlowShape, EngineOK
<1>q. QED
  BY <1>1, <1>4, <1>5 DEF PhaseOK

\* The invariant holds at first,
LEMMA RunOKInit == Init => RunOK
<1>1. SUFFICES ASSUME Init PROVE RunOK
  OBVIOUS
<1>2. /\ doc \in Documents /\ plan = WholePlan /\ flow = Compile(doc, WholePlan) /\ phase = "published"
      /\ engine = NewEngine({}) /\ state = BlankState /\ saved = Slices({}, BlankState) /\ log = NoLog
  BY <1>1 DEF Init
<1>3. FlowOK
  BY <1>2 DEF FlowOK
<1>4. FlowShape(doc, flow) /\ flow.replayed = {}
  <2>1. flow = Compile(doc, plan)
    BY <1>2
  <2>2. FlowShape(doc, flow) /\ flow.replayed = Replayed(doc, plan)
    BY <1>3, <2>1, RunFacts
  <2>q. QED
    BY <1>2, <2>2 DEF Replayed, WholePlan
<1>5. PhaseOK(doc, flow, phase, engine)
  <2>1. {} \subseteq Halves(flow.steps)
    OBVIOUS
  <2>2. EngineOK(doc, flow, engine) /\ Fits(doc, engine, flow.limit)
    BY <1>2, <1>4, <2>1, NewEngineOK
  <2>3. Fits(doc, engine, flow.limit + 1)
    BY <1>4, <2>2 DEF Fits, FlowShape, EngineOK
  <2>4. OfKind(doc, {"input"}) \subseteq flow.steps
    <3>1. flow.steps = StepNodes(doc) \ Dropped(doc, plan) /\ OfKind(doc, {"input"}) \subseteq StepNodes(doc)
      BY <1>2, <1>3, RunFacts, DocumentFacts
    <3>q. QED
      BY <1>2, <3>1 DEF Dropped, WholePlan
  <2>q. QED
    BY <1>2, <2>2, <2>3, <2>4 DEF PhaseOK
<1>6. StateOK(doc, state)
  BY <1>2, <1>3, BlankStateOK
<1>7. SavedOK(doc, flow, saved)
  <2>1. saved.out = [n \in {} |-> BlankState.out[n]] /\ saved.err \subseteq BlankState.err
    BY <1>2 DEF Slices
  <2>2. BlankState.err = {}
    BY DEF BlankState
  <2>q. QED
    BY <1>4, <2>1, <2>2 DEF SavedOK
<1>8. LogOK(doc, flow, log)
  <2>1. /\ log.ran = [m \in StepNodes(doc) |-> 0] /\ log.billed = [m \in StepNodes(doc) |-> 0]
        /\ log.answers = 0 /\ log = [x \in LogFields |-> log[x]]
    BY <1>2 DEF NoLog, LogFields
  <2>q. QED
    BY <2>1, DocumentsAssumption DEF LogOK
<1>q. QED
  BY <1>2, <1>3, <1>5, <1>6, <1>7, <1>8 DEF RunOK, PlanOK

\* The start of a run, its ends, and nothing at all.
LEMMA LifeKeeps == ASSUME RunOK, Kickoff \/ Return \/ Abandon \/ Rest \/ UNCHANGED vars PROVE RunOK'
<1>1. CASE Kickoff
  <2>1. /\ phase' = "running" /\ engine' = NewEngine(Starts) /\ plan' = plan /\ phase = "published"
        /\ UNCHANGED <<doc, plan, flow, state, saved, log>>
    BY <1>1 DEF Kickoff
  <2>2. PhaseOK(doc, flow, phase', engine')
    BY <1>1, KickoffPhase
  <2>3. StateOK(doc, state') /\ LogOK(doc, flow, log')
    BY <2>1 DEF RunOK
  <2>q. QED
    BY <2>1, <2>2, <2>3, SameFlow
<1>2. CASE Return \/ Abandon
  <2>1. UNCHANGED <<doc, plan, flow, engine, state, saved, log>> /\ phase' \in Terminal
    BY <1>2 DEF Return, Abandon, Terminal
  <2>2. PhaseOK(doc, flow, phase', engine')
    BY <2>1 DEF RunOK, PhaseOK, Terminal
  <2>q. QED
    BY <2>1, <2>2, SameFlow DEF RunOK
<1>3. CASE Rest \/ UNCHANGED vars
  <2>1. UNCHANGED <<doc, plan, flow, phase, engine, state, saved, log>>
    BY <1>3 DEF Rest, vars
  <2>q. QED
    BY <2>1, SameFlow DEF RunOK
<1>q. QED
  BY <1>1, <1>2, <1>3

\* every step keeps it,
LEMMA RunOKNext == RunOK /\ [Next]_vars => RunOK'
<1>1. SUFFICES ASSUME RunOK, [Next]_vars PROVE RunOK'
  OBVIOUS
<1>2. ASSUME NEW n \in StepNodes(doc), Entrypoints(n) PROVE RunOK'
  BY <1>1, <1>2, SeedInputKeeps, TransformKeeps, RunAgentKeeps, RefuseAgentKeeps, RouteErrorKeeps,
     RouteBranchKeeps, EmitOutputKeeps, RenderGateKeeps, RouteGateKeeps, RouteReplayedGateKeeps,
     ReplayOutputKeeps DEF Entrypoints
<1>3. ASSUME NEW n \in StepNodes(doc), Answer(n) \/ ResumeFrom(n) \/ NodeTest(n) PROVE RunOK'
  BY <1>1, <1>3, AnswerKeeps, ResumeFromKeeps, NodeTestKeeps
<1>4. CASE Kickoff \/ Return \/ Abandon \/ Rest \/ UNCHANGED vars
  BY <1>1, <1>4, LifeKeeps
<1>q. QED
  BY <1>1, <1>2, <1>3, <1>4 DEF Next

\* and so it always holds.
LEMMA RunIsOK == Spec => []RunOK
  BY RunOKInit, RunOKNext, PTL DEF Spec

\* Every variable has its type in every run of every document that may be published:
\* only steps that were compiled are called, one call past the limit ends the run, a
\* join holds only events it waits for, and no gate honours more turns than a publish
\* allows (compiler.py, runtime.py route_gate).
THEOREM BuilderIsTyped == Spec => []TypeOK
<1>1. RunOK => TypeOK
  <2>1. SUFFICES ASSUME RunOK PROVE TypeOK
    OBVIOUS
  <2>2. IsDocument(doc) /\ Publishable(doc) /\ FlowShape(doc, flow) /\ StepNodes(doc) \subseteq Nodes(doc)
    BY <2>1, RunFacts, DocumentFacts DEF RunOK
  <2>3. plan \in [node : Nodes(doc) \union {0}, mode : {"run", "resume_from", "node_test"}]
    BY <2>1, <2>2 DEF RunOK, PlanOK, WholePlan
  <2>4. /\ phase \in {"published", "running", "paused"} \union Terminal
        /\ {e.method : e \in engine.active} \union engine.done \subseteq flow.steps \X {"step", "route"}
        /\ engine.fired \subseteq flow.once
        /\ \A n \in flow.steps : engine.arrived[n] \subseteq flow.listen[n].all
    BY <2>1 DEF RunOK, PhaseOK, EngineOK, Halves
  <2>5. \A m \in Methods : engine.calls[m] \in 0..(flow.limit + 1)
    <3>1. /\ engine.calls \in [Halves(StepNodes(doc)) -> Nat] /\ flow.limit \in Nat
          /\ \A m \in Halves(StepNodes(doc)) : engine.calls[m] <= flow.limit + 1
      BY <2>1, <2>2 DEF RunOK, PhaseOK, EngineOK, Fits, FlowShape
    <3>2. Methods = Halves(StepNodes(doc))
      BY DEF Methods, Halves
    <3>q. QED
      BY <3>1, <3>2
  <2>6. /\ state.err \subseteq doc.routes
        /\ \A n \in StepNodes(doc) :
              /\ state.out[n] \in {Blank, Empty, Other} \union UNION {doc.branches[r] : r \in OfKind(doc, {"router"})}
              /\ state.turns[n] \in 0..MaxCycleIterations
              /\ state.decision[n] \in {"none", "approve", "revise", "honoured"}
    BY <2>1 DEF RunOK, StateOK, Values, Decisions
  <2>7. log.answers \in 0..MaxAnswers
    BY <2>1 DEF RunOK, LogOK
  <2>q. QED
    BY <2>2, <2>3, <2>4, <2>5, <2>6, <2>7 DEF TypeOK, FlowShape
<1>q. QED
  BY <1>1, RunIsOK, PTL

-----------------------------------------------------------------------------
(* What leads where.                                                        *)

\* The pairs a run travels along, and those of them that close no loop.
Along(d) == Ends(d, FlowEdges(d))
Onward(d) == Ends(d, FlowEdges(d) \ BackEdges(d))

\* A step of a run goes along a pair.
LEMMA EdgeIsPair ==
    ASSUME NEW d, NEW edges, NEW i \in edges
    PROVE  <<Src(d, i), Dst(d, i)>> \in Ends(d, edges)
  BY DEF Ends, Src, Dst

\* Back edges are flow edges.
LEMMA BackEdgesAreFlow ==
    ASSUME NEW d, Linked(d)
    PROVE  BackEdges(d) \subseteq FlowEdges(d)
<1>1. PICK s : SearchOK(d, s) /\ Over(d, s) /\ BackEdges(d) = s.back
  BY SearchEnds
<1>q. QED
  BY <1>1 DEF SearchOK, StackOK

\* What some edges lead to from some nodes.
LEMMA ReachFacts ==
    ASSUME NEW d, Linked(d), NEW edges \in SUBSET FlowEdges(d), NEW pairs, pairs = Ends(d, edges),
           NEW starts \in SUBSET Nodes(d)
    PROVE  /\ starts \subseteq Reachable(starts, pairs) /\ Reachable(starts, pairs) \subseteq Nodes(d)
           /\ Closed(Reachable(starts, pairs), pairs)
           /\ \A C : starts \subseteq C /\ Closed(C, pairs) => Reachable(starts, pairs) \subseteq C
<1>1. \A p \in pairs : p[2] \in Nodes(d)
  BY DEF Ends, Linked, Src, Dst, FlowEdges, EdgesInto
<1>2. IsFiniteSet(starts \union {p[2] : p \in pairs})
  <2>1. starts \union {p[2] : p \in pairs} \subseteq Nodes(d)
    BY <1>1
  <2>q. QED
    BY <2>1, FS_Subset DEF Linked
<1>3. Closed(Nodes(d), pairs)
  BY <1>1 DEF Closed
<1>4. /\ starts \subseteq Reachable(starts, pairs)
      /\ Closed(Reachable(starts, pairs), pairs)
      /\ \A C : starts \subseteq C /\ Closed(C, pairs) => Reachable(starts, pairs) \subseteq C
  BY ONLY <1>2, ReachableIsLeast
<1>q. QED
  BY <1>3, <1>4

\* What is reachable from a node that is reachable.
LEMMA ReachComposes ==
    ASSUME NEW d, Linked(d), NEW edges \in SUBSET FlowEdges(d), NEW pairs, pairs = Ends(d, edges),
           NEW starts \in SUBSET Nodes(d), NEW more \in SUBSET Reachable(starts, pairs)
    PROVE  Reachable(more, pairs) \subseteq Reachable(starts, pairs)
<1>1. Reachable(starts, pairs) \subseteq Nodes(d) /\ Closed(Reachable(starts, pairs), pairs)
  BY ReachFacts
<1>2. more \in SUBSET Nodes(d)
  BY <1>1
<1>q. QED
  BY <1>1, <1>2, ReachFacts

\* The next node along a pair.
LEMMA ReachNext ==
    ASSUME NEW d, Linked(d), NEW edges \in SUBSET FlowEdges(d), NEW pairs, pairs = Ends(d, edges),
           NEW starts \in SUBSET Nodes(d), NEW x \in Reachable(starts, pairs), NEW y, <<x, y>> \in pairs
    PROVE  y \in Reachable(starts, pairs)
<1>1. Closed(Reachable(starts, pairs), pairs)
  BY ReachFacts
<1>2. <<x, y>>[1] = x /\ <<x, y>>[2] = y
  OBVIOUS
<1>q. QED
  BY <1>1, <1>2 DEF Closed

\* A node reaches itself.
LEMMA ReachSelf ==
    ASSUME NEW d, Linked(d), NEW edges \in SUBSET FlowEdges(d), NEW pairs, pairs = Ends(d, edges),
           NEW x \in Nodes(d)
    PROVE  x \in Reachable({x}, pairs) /\ Reachable({x}, pairs) \subseteq Nodes(d)
<1>1. {x} \in SUBSET Nodes(d)
  OBVIOUS
<1>q. QED
  BY <1>1, ReachFacts

\* More edges reach more.
LEMMA ReachGrows ==
    ASSUME NEW d, Linked(d), NEW more \in SUBSET FlowEdges(d), NEW edges \in SUBSET more,
           NEW starts \in SUBSET Nodes(d)
    PROVE  Reachable(starts, Ends(d, edges)) \subseteq Reachable(starts, Ends(d, more))
<1>1. /\ starts \subseteq Reachable(starts, Ends(d, more))
      /\ Closed(Reachable(starts, Ends(d, more)), Ends(d, more))
  BY ReachFacts
<1>2. Ends(d, edges) \subseteq Ends(d, more)
  BY DEF Ends
<1>3. Closed(Reachable(starts, Ends(d, more)), Ends(d, edges))
  BY <1>1, <1>2 DEF Closed
<1>4. edges \in SUBSET FlowEdges(d)
  OBVIOUS
<1>q. QED
  BY <1>1, <1>3, <1>4, ReachFacts

\* The order in which the search finishes its nodes: an edge that closes no loop leads
\* to one that was finished before.
LEMMA FinishOrder ==
    ASSUME NEW d, Linked(d)
    PROVE  \E rank \in [Nodes(d) -> Nat] :
              \A i \in FlowEdges(d) \ BackEdges(d) : rank[Dst(d, i)] < rank[Src(d, i)]
<1>1. PICK s : SearchOK(d, s) /\ Over(d, s) /\ BackEdges(d) = s.back
  BY SearchEnds
<1> DEFINE f == s.finished
<1>2. /\ s.stack = <<>> /\ Nodes(d) \subseteq ToSet(f) /\ f \in Seq(Nodes(d))
      /\ \A p, q \in 1..Len(f) : f[p] = f[q] => p = q
  BY <1>1 DEF Over, SeenIn, SearchOK, StackOK, ToSet
<1>3. s.tried = FlowEdges(d)
  <2>1. \A i \in FlowEdges(d) : Src(d, i) \in Nodes(d)
    BY DEF Linked, FlowEdges, EdgesInto
  <2>q. QED
    BY <1>1, <1>2, <2>1 DEF SearchOK, StackOK, TriedOK
<1>4. \A i \in FlowEdges(d) \ BackEdges(d) :
         \E p \in 1..Len(f) : \E q \in 1..(p - 1) : f[p] = Src(d, i) /\ f[q] = Dst(d, i)
  <2>1. \A i \in FlowEdges(d) \ BackEdges(d) : ForwardAt(d, s.stack, f, i)
    BY <1>1, <1>3 DEF SearchOK, ForwardOK
  <2>2. 1..Len(s.stack) = {}
    BY <1>2
  <2>q. QED
    BY <2>1, <2>2 DEF ForwardAt, EndsAt
<1>5. Len(f) \in Nat /\ DOMAIN f = 1..Len(f)
  BY <1>2
<1> DEFINE rank == [n \in Nodes(d) |-> CHOOSE p \in 1..Len(f) : f[p] = n]
<1> HIDE DEF f
<1>6. \A n \in Nodes(d) : rank[n] \in 1..Len(f) /\ f[rank[n]] = n
  <2>1. TAKE n \in Nodes(d)
  <2>2. \E p \in 1..Len(f) : f[p] = n
    BY <1>2, <1>5 DEF ToSet
  <2>q. QED
    BY <2>2
<1>7. rank \in [Nodes(d) -> Nat]
  BY <1>5, <1>6
<1>8. ASSUME NEW i \in FlowEdges(d) \ BackEdges(d) PROVE rank[Dst(d, i)] < rank[Src(d, i)]
  <2>0. PICK p \in 1..Len(f) : \E q \in 1..(p - 1) : f[p] = Src(d, i) /\ f[q] = Dst(d, i)
    BY <1>4
  <2>1. PICK q \in 1..(p - 1) : f[p] = Src(d, i) /\ f[q] = Dst(d, i)
    BY <2>0
  <2>2. q \in 1..Len(f) /\ q < p
    BY <1>5
  <2>3. Src(d, i) \in Nodes(d) /\ Dst(d, i) \in Nodes(d)
    BY DEF Linked, FlowEdges, EdgesInto
  <2> HIDE DEF rank
  <2>4. rank[Src(d, i)] = p /\ rank[Dst(d, i)] = q
    BY <1>2, <1>6, <2>1, <2>2, <2>3
  <2>q. QED
    BY <2>2, <2>4
<1>q. QED
  BY <1>7, <1>8

\* No edge that closes no loop leads back to where it came from.
LEMMA NoWayBack ==
    ASSUME NEW d, Linked(d), NEW m, NEW t, <<m, t>> \in Onward(d)
    PROVE  m \notin Reachable({t}, Onward(d))
<1>1. PICK rank \in [Nodes(d) -> Nat] :
         \A i \in FlowEdges(d) \ BackEdges(d) : rank[Dst(d, i)] < rank[Src(d, i)]
  BY FinishOrder
<1> DEFINE edges == FlowEdges(d) \ BackEdges(d)
<1>2. PICK i \in edges : m = Src(d, i) /\ t = Dst(d, i)
  BY DEF Onward, Ends, Src, Dst
<1>3. \A j \in edges : Src(d, j) \in Nodes(d) /\ Dst(d, j) \in Nodes(d)
  BY DEF Linked, FlowEdges, EdgesInto
<1> DEFINE C == {n \in Nodes(d) : rank[n] <= rank[t]}
<1>4. Closed(C, Onward(d))
  <2>1. ASSUME NEW p \in Onward(d), p[1] \in C PROVE p[2] \in C
    <3>1. PICK j \in edges : p[1] = Src(d, j) /\ p[2] = Dst(d, j)
      BY <2>1 DEF Onward, Ends, Src, Dst
    <3>2. rank[p[2]] < rank[p[1]] /\ p[2] \in Nodes(d)
      BY <1>1, <1>3, <3>1
    <3>q. QED
      BY <2>1, <3>2, <1>2, <1>3
  <2>q. QED
    BY <2>1 DEF Closed
<1>5. {t} \subseteq C /\ {t} \in SUBSET Nodes(d)
  BY <1>2, <1>3
<1>6. Reachable({t}, Onward(d)) \subseteq C
  <2> HIDE DEF C
  <2>q. QED
    BY <1>4, <1>5, ReachFacts DEF Onward
<1>7. m \notin C
  BY <1>1, <1>2, <1>3
<1>q. QED
  BY <1>6, <1>7

\* A node between the ends of a back edge is one that the loop carries round
\* (bounds.py nodes_on_cycles).
LEMMA BetweenIsOnCycle ==
    ASSUME NEW d, Linked(d), NEW i \in BackEdges(d), NEW n \in Nodes(d),
           n \in Reachable({Dst(d, i)}, Onward(d)), Src(d, i) \in Reachable({n}, Onward(d))
    PROVE  n \in NodesOnCycles(d, BackEdges(d))
<1> DEFINE s == Src(d, i)
<1> DEFINE R == Reachable({s}, Flip(Onward(d)))
<1>1. s \in Nodes(d)
  BY BackEdgesAreFlow DEF Linked, FlowEdges, EdgesInto
<1>2. \A p \in Onward(d) : p[1] \in Nodes(d) /\ p[2] \in Nodes(d) /\ <<p[2], p[1]>> \in Flip(Onward(d))
  <2>1. \A p \in Onward(d) : p[1] \in Nodes(d) /\ p[2] \in Nodes(d)
    BY DEF Onward, Ends, Linked, Src, Dst, FlowEdges, EdgesInto
  <2>q. QED
    BY <2>1 DEF Flip
<1>3. {s} \subseteq R /\ Closed(R, Flip(Onward(d)))
  <2>1. {s} \union {p[2] : p \in Flip(Onward(d))} \subseteq Nodes(d)
    BY <1>1, <1>2 DEF Flip
  <2>2. IsFiniteSet({s} \union {p[2] : p \in Flip(Onward(d))})
    BY <2>1, FS_Subset DEF Linked
  <2>q. QED
    BY ONLY <2>2, ReachableIsLeast
<1> DEFINE C == Nodes(d) \ R
<1> HIDE DEF R
<1>4. Closed(C, Onward(d))
  <2>1. ASSUME NEW p \in Onward(d), p[2] \in R PROVE p[1] \in R
    <3>1. <<p[2], p[1]>>[1] = p[2] /\ <<p[2], p[1]>>[2] = p[1]
      OBVIOUS
    <3>q. QED
      BY <1>2, <1>3, <2>1, <3>1 DEF Closed
  <2>q. QED
    BY <1>2, <2>1 DEF Closed
<1>5. n \in R
  <2>1. SUFFICES ASSUME n \notin R PROVE FALSE
    OBVIOUS
  <2>2. {n} \subseteq C /\ {n} \in SUBSET Nodes(d)
    BY <2>1
  <2>3. Reachable({n}, Onward(d)) \subseteq C
    <3> HIDE DEF C
    <3>q. QED
      BY <1>4, <2>2, ReachFacts DEF Onward
  <2>q. QED
    BY <1>3, <2>3
<1>6. PICK p \in Ends(d, BackEdges(d)) : p[1] = s /\ p[2] = Dst(d, i)
  <2>1. <<s, Dst(d, i)>>[1] = s /\ <<s, Dst(d, i)>>[2] = Dst(d, i)
    OBVIOUS
  <2>q. QED
    BY <2>1, EdgeIsPair
<1>7. n \in Reachable({p[2]}, Onward(d)) \intersect Reachable({p[1]}, Flip(Onward(d)))
  BY <1>5, <1>6 DEF R
<1> DEFINE Loop(q) ==
               {q[1], q[2]} \union (Reachable({q[2]}, Onward(d)) \intersect Reachable({q[1]}, Flip(Onward(d))))
<1>8. NodesOnCycles(d, BackEdges(d)) = UNION {Loop(q) : q \in Ends(d, BackEdges(d))}
  BY DEF NodesOnCycles, Onward
<1>9. n \in Loop(p)
  BY <1>7
<1> HIDE DEF Loop
<1>q. QED
  BY <1>6, <1>8, <1>9

-----------------------------------------------------------------------------
(* What a whole run listens to.                                             *)

\* The end of a step that chooses nothing is no label, and every label is one of a
\* step that chooses (compiler.py _event).
LEMMA EventFacts ==
    ASSUME NEW d, IsDocument(d), Publishable(d), NEW n \in StepNodes(d), NEW port \in OutPorts(d, n)
    PROVE  /\ Event(d, n, port)[1] = n
           /\ (Event(d, n, port)[2] = Ran) = ~IsRouted(d, n)
           /\ ~IsRouted(d, n) => port = "out" /\ Event(d, n, port) = <<n, Ran>>
           /\ RoutesErrors(d, n) => KindOf(d, n) \in BillableKinds
<1>1. n \in Nodes(d) /\ KindOf(d, n) \in Kinds /\ KindOf(d, n) # "tool"
  BY DEF StepNodes, KindOf, IsDocument, Nodes, OfKind, AttachmentKinds
<1>2. RoutesErrors(d, n) => KindOf(d, n) \in BillableKinds
  BY DEF RoutesErrors, IsDocument, OfKind, KindOf
<1>3. Event(d, n, port)[1] = n
  BY DEF Event
<1>4. ~IsRouted(d, n) => port = "out" /\ Event(d, n, port) = <<n, Ran>>
  BY <1>1 DEF IsRouted, Event, OutPorts, RoutingKinds
<1>5. IsRouted(d, n) => Event(d, n, port)[2] # Ran
  <2>1. CASE RoutesErrors(d, n)
    <3>1. port \in {"out", "error"}
      BY <1>1, <1>2, <2>1 DEF OutPorts, BillableKinds
    <3>q. QED
      BY <2>1, <3>1 DEF Event, Ran
  <2>2. CASE ~RoutesErrors(d, n) /\ KindOf(d, n) = "gate"
    <3>1. port \in {"approve", "revise"}
      BY <2>2 DEF OutPorts
    <3>q. QED
      BY <2>2, <3>1 DEF Event, IsRouted, RoutingKinds, Ran
  <2>3. CASE ~RoutesErrors(d, n) /\ KindOf(d, n) = "router"
    <3>1. port \in d.branches[n] \union {"otherwise"}
      BY <2>3 DEF OutPorts
    <3>2. n \in OfKind(d, {"router"})
      BY <1>1, <2>3 DEF OfKind, KindOf
    <3>3. port # Ran
      BY <3>1, <3>2 DEF IsDocument, Ran
    <3>q. QED
      BY <2>3, <3>3 DEF Event, IsRouted, RoutingKinds
  <2>q. QED
    BY <2>1, <2>2, <2>3 DEF IsRouted, RoutingKinds
<1>q. QED
  BY <1>2, <1>3, <1>4, <1>5 DEF Event

\* What is drawn of the flow of a published document.
LEMMA EdgeFacts ==
    ASSUME NEW d, IsDocument(d), Publishable(d), NEW i \in FlowEdges(d)
    PROVE  /\ Src(d, i) \in StepNodes(d) /\ Dst(d, i) \in StepNodes(d)
           /\ d.edges[i].port \in OutPorts(d, Src(d, i))
           /\ KindOf(d, Dst(d, i)) # "input" /\ KindOf(d, Src(d, i)) # "output"
           /\ i \in BackEdges(d) => KindOf(d, Src(d, i)) \in RoutingKinds
<1>1. Src(d, i) \in Nodes(d) /\ Dst(d, i) \in Nodes(d) /\ i \in EdgeIds(d)
  BY PublishableIsLinked DEF Linked, FlowEdges, EdgesInto
<1>2. Src(d, i) \in StepNodes(d)
  BY DocumentFacts
<1>3. TargetPorts(d, Dst(d, i)) # {} /\ d.edges[i].port \in OutPorts(d, Src(d, i))
  BY <1>1 DEF Publishable, EdgesOK, Src, Dst
<1>4. KindOf(d, Dst(d, i)) \notin {"input", "tool"}
  BY <1>3 DEF TargetPorts, AttachmentKinds
<1>5. Dst(d, i) \in StepNodes(d)
  <2>1. Dst(d, i) \notin Members(d)
    BY DEF Publishable, MembershipOK, Dst
  <2>q. QED
    BY <1>1, <1>4, <2>1 DEF StepNodes, OfKind, KindOf, AttachmentKinds
<1>6. KindOf(d, Src(d, i)) # "output"
  <2>1. KindOf(d, Src(d, i)) = "output" => ~RoutesErrors(d, Src(d, i))
    BY DEF RoutesErrors, IsDocument, OfKind, KindOf, BillableKinds
  <2>q. QED
    BY <1>3, <2>1 DEF OutPorts
<1>7. i \in BackEdges(d) => KindOf(d, Src(d, i)) \in RoutingKinds
  BY DEF Publishable, CyclesOK, Src
<1>q. QED
  BY <1>2, <1>3, <1>4, <1>5, <1>6, <1>7

\* The event that an edge carries.
Carried(d, i) == Event(d, Src(d, i), d.edges[i].port)

\* A node waits for events of edges into it, for all of those that close no loop or for
\* any of them, and for any of those that close one.
HearsEdges(d, n, l) ==
    /\ \A ev \in l.all : \E i \in FlowEdges(d) \ BackEdges(d) : Dst(d, i) = n /\ ev = Carried(d, i)
    /\ \A ev \in l.any : \E i \in FlowEdges(d) :
          Dst(d, i) = n /\ ev = Carried(d, i) /\ (l.all # {} => i \in BackEdges(d))
    /\ \A i \in FlowEdges(d) : Dst(d, i) = n => Carried(d, i) \in l.any \union l.all
    /\ \A i \in BackEdges(d) : Dst(d, i) = n => Carried(d, i) \in l.any
    /\ l.all # {} => \A i \in FlowEdges(d) \ BackEdges(d) : Dst(d, i) = n => Carried(d, i) \in l.all

\* That is what the compiler makes of it.
LEMMA ListenFacts ==
    ASSUME NEW d, Linked(d), NEW n
    PROVE  HearsEdges(d, n, ListenFor(d, WholePlan, BackEdges(d), n))
<1> DEFINE Into(edges) == EventsInto(d, WholePlan, n, edges)
<1> DEFINE normal == Into(FlowEdges(d) \ BackEdges(d))
<1> DEFINE loops == Into(BackEdges(d))
<1> DEFINE l == ListenFor(d, WholePlan, BackEdges(d), n)
<1>1. BackEdges(d) \subseteq FlowEdges(d)
  BY BackEdgesAreFlow
<1>2. Dropped(d, WholePlan) = {}
  BY DEF Dropped, WholePlan
<1>3. \A edges : /\ \A ev \in Into(edges) : \E i \in edges : Dst(d, i) = n /\ ev = Carried(d, i)
                 /\ \A i \in edges : Dst(d, i) = n => Carried(d, i) \in Into(edges)
  BY <1>2 DEF EventsInto, Src, Dst, Carried
<1>4. \/ normal # {} /\ l.all = normal /\ l.any = loops
      \/ l.all = {} /\ l.any = normal \union loops
  BY DEF ListenFor
<1>0. SUFFICES HearsEdges(d, n, l)
  OBVIOUS
<1> HIDE DEF Into, l
<1>5. CASE normal # {} /\ l.all = normal /\ l.any = loops
  BY <1>1, <1>3, <1>5 DEF HearsEdges
<1>6. CASE l.all = {} /\ l.any = normal \union loops
  <2>1. \A i \in FlowEdges(d) : i \in FlowEdges(d) \ BackEdges(d) \/ i \in BackEdges(d)
    OBVIOUS
  <2>q. QED
    BY <1>1, <1>3, <1>6, <2>1 DEF HearsEdges
<1>q. QED
  BY <1>4, <1>5, <1>6

\* The flow that is compiled whole: of a whole run, and of any that was resumed.
LEMMA WholeFlow ==
    ASSUME doc \in Documents, flow = Compile(doc, WholePlan)
    PROVE  /\ IsDocument(doc) /\ Publishable(doc) /\ Linked(doc) /\ FlowShape(doc, flow)
           /\ flow.steps = StepNodes(doc) /\ flow.replayed = {} /\ flow.back = BackEdges(doc)
           /\ \A n \in StepNodes(doc) :
                 /\ flow.listen[n] = ListenFor(doc, WholePlan, BackEdges(doc), n)
                 /\ HearsEdges(doc, n, flow.listen[n])
                 /\ Once(n) = (IsMultiEventOr(flow.listen[n]) /\ ~Router(n))
                 /\ flow.rearm[n] = Rearms(doc, BackEdges(doc), flow.listen, n)
<1>1. IsDocument(doc) /\ Publishable(doc) /\ FlowShape(doc, flow) /\ Linked(doc)
  BY RunFacts, PublishableIsLinked DEF FlowOK
<1>2. Dropped(doc, WholePlan) = {} /\ Replayed(doc, WholePlan) = {}
  BY DEF Dropped, Replayed, WholePlan
<1> DEFINE listen == [n \in StepNodes(doc) |-> ListenFor(doc, WholePlan, BackEdges(doc), n)]
<1>3. /\ flow.steps = StepNodes(doc) /\ flow.replayed = {} /\ flow.back = BackEdges(doc)
      /\ flow.listen = listen
      /\ flow.once = {n \in StepNodes(doc) : IsMultiEventOr(listen[n]) /\ KindOf(doc, n) # "router"}
      /\ flow.rearm = [n \in StepNodes(doc) |-> Rearms(doc, BackEdges(doc), listen, n)]
  <2>1. StepNodes(doc) \ Dropped(doc, WholePlan) = StepNodes(doc)
    BY <1>2
  <2>q. QED
    BY <1>1, <1>2, <2>1 DEF Compile
<1>4. \A n \in StepNodes(doc) : HearsEdges(doc, n, listen[n])
  BY <1>1, ListenFacts
<1>5. \A n \in StepNodes(doc) : Once(n) = (IsMultiEventOr(flow.listen[n]) /\ ~Router(n))
  BY <1>3 DEF Once, Router
<1>6. \A n \in StepNodes(doc) : flow.listen[n] = ListenFor(doc, WholePlan, BackEdges(doc), n)
  BY <1>3
<1>7. \A n \in StepNodes(doc) : flow.rearm[n] = Rearms(doc, BackEdges(doc), flow.listen, n)
  BY <1>3
<1>q. QED
  BY <1>1, <1>3, <1>4, <1>5, <1>6, <1>7

\* The flow of a whole run.
LEMMA WholeFacts ==
    ASSUME FlowOK, plan = WholePlan
    PROVE  /\ IsDocument(doc) /\ Publishable(doc) /\ Linked(doc) /\ FlowShape(doc, flow)
           /\ flow.steps = StepNodes(doc) /\ flow.replayed = {} /\ flow.back = BackEdges(doc)
           /\ \A n \in StepNodes(doc) :
                 /\ flow.listen[n] = ListenFor(doc, WholePlan, BackEdges(doc), n)
                 /\ HearsEdges(doc, n, flow.listen[n])
                 /\ Once(n) = (IsMultiEventOr(flow.listen[n]) /\ ~Router(n))
                 /\ flow.rearm[n] = Rearms(doc, BackEdges(doc), flow.listen, n)
<1>1. doc \in Documents /\ flow = Compile(doc, WholePlan)
  BY DEF FlowOK
<1>q. QED
  BY <1>1, WholeFlow

-----------------------------------------------------------------------------
(* What a step of the engine changes.                                       *)

\* The listeners that stay fired, those that hear an event, those whose join is complete
\* with it, and those it triggers.
Armed(eng, ev) == {n \in eng.fired : ev[2] = Ran \/ ~Names(n, ev)}
Hearing(eng, ev) == {n \in flow.steps : Names(n, ev) /\ ~(Once(n) /\ n \in Armed(eng, ev))}
Complete(eng, ev) ==
    {n \in Hearing(eng, ev) : /\ ev \in flow.listen[n].all
                              /\ eng.arrived[n] \union {ev} = flow.listen[n].all}
Triggered(eng, ev) == Complete(eng, ev) \union {n \in Hearing(eng, ev) : ev \in flow.listen[n].any}

\* New executions, one for each method of some.
Calling(new, methods) ==
    /\ \A f \in new : f.method \in methods
    /\ \A m \in methods : \E f \in new : f.method = m
    /\ \A f, g \in new : f.method = g.method => f = g

\* What is left of a call is one execution for each method.
LEMMA CallEffects ==
    ASSUME NEW eng, EngineOK(doc, flow, eng), NEW methods, NEW lane, NEW t, t = Call(eng, methods, lane)
    PROVE  /\ IsEngine(t)
           /\ \E new : Calling(new, methods) /\ t.active = eng.active \union new
           /\ t.calls = [m \in Methods |-> eng.calls[m] + (IF m \in methods THEN 1 ELSE 0)]
           /\ t.fired = (IF methods \intersect eng.done = {} THEN eng.fired ELSE {})
           /\ t.done = eng.done \ methods /\ t.arrived = eng.arrived /\ t.lost = eng.lost
<1> DEFINE racing(n) == {g \in flow.races : n \in g /\ g \X {"step"} \subseteq methods}
<1> DEFINE Lane(m) == IF m[2] = "step" /\ racing(m[1]) # {}
                      THEN Append(lane, [race |-> CHOOSE g \in racing(m[1]) : TRUE, of |-> m[1]])
                      ELSE lane
<1> DEFINE Exec(m) == [method |-> m, lane |-> Lane(m), nth |-> eng.calls[m] + 1]
<1> DEFINE called == {Exec(m) : m \in methods}
<1>1. t = [eng EXCEPT !.active = @ \union called,
                      !.calls = [m \in Methods |-> @[m] + (IF m \in methods THEN 1 ELSE 0)],
                      !.fired = IF methods \intersect eng.done = {} THEN @ ELSE {},
                      !.done = @ \ methods,
                      !.over = \E m \in methods : eng.calls[m] >= flow.limit]
  BY DEF Call
<1> HIDE DEF Lane
<1>2. Calling(called, methods)
  <2>1. \A m \in methods : Exec(m).method = m
    OBVIOUS
  <2> HIDE DEF Exec
  <2>q. QED
    BY <2>1 DEF Calling
<1> HIDE DEF called
<1>3. /\ t.active = eng.active \union called
      /\ t.calls = [m \in Methods |-> eng.calls[m] + (IF m \in methods THEN 1 ELSE 0)]
      /\ t.fired = (IF methods \intersect eng.done = {} THEN eng.fired ELSE {})
      /\ t.done = eng.done \ methods /\ t.arrived = eng.arrived /\ t.lost = eng.lost
      /\ IsEngine(t)
  BY <1>1 DEF EngineOK, IsEngine, Memory
<1>q. QED
  BY <1>2, <1>3

\* What an event makes of the engine.
Emission(eng, e, ev, t) ==
    /\ \E new : /\ Calling(new, Triggered(eng, ev) \X {"step"})
                /\ t.active \subseteq (eng.active \ {e}) \union new
                /\ ~t.lost => ~eng.lost /\ t.active = (eng.active \ {e}) \union new
    /\ t.calls = [m \in Methods |->
                     eng.calls[m] + (IF m \in Triggered(eng, ev) \X {"step"} THEN 1 ELSE 0)]
    /\ t.fired \subseteq Armed(eng, ev) \union {n \in Triggered(eng, ev) : Once(n)}
    /\ (Triggered(eng, ev) \X {"step"}) \intersect (eng.done \union {e.method}) = {} =>
           t.fired = Armed(eng, ev) \union {n \in Triggered(eng, ev) : Once(n)}
    /\ t.done = (eng.done \union {e.method}) \ (Triggered(eng, ev) \X {"step"})
    /\ \A n \in StepNodes(doc) :
          t.arrived[n] = IF n \in Complete(eng, ev) THEN {}
                         ELSE eng.arrived[n] \union
                                 (IF n \in Hearing(eng, ev) THEN {ev} \intersect flow.listen[n].all ELSE {})

\* That is what an event does to the engine.
LEMMA EmitEffects ==
    ASSUME FlowShape(doc, flow), NEW eng, EngineOK(doc, flow, eng), Fits(doc, eng, flow.limit),
           NEW e \in eng.active, NEW ev
    PROVE  Emission(eng, e, ev, Emit(eng, e, ev))
<1> DEFINE ended == Ended(eng, e)
<1> DEFINE armed == {n \in ended.fired : ev[2] = Ran \/ ~Names(n, ev)}
<1> DEFINE hearing == {n \in flow.steps : Names(n, ev) /\ ~(Once(n) /\ n \in armed)}
<1> DEFINE arrived == [n \in StepNodes(doc) |->
                          ended.arrived[n] \union (IF n \in hearing THEN {ev} \intersect flow.listen[n].all
                                                   ELSE {})]
<1> DEFINE complete == {n \in hearing : ev \in flow.listen[n].all /\ arrived[n] = flow.listen[n].all}
<1> DEFINE triggered == complete \union {n \in hearing : ev \in flow.listen[n].any}
<1> DEFINE heard == [ended EXCEPT
                        !.fired = armed \union {n \in triggered : Once(n)},
                        !.arrived = [n \in StepNodes(doc) |-> IF n \in complete THEN {} ELSE arrived[n]]]
<1> DEFINE methods == triggered \X {"step"}
<1> DEFINE c == Call(heard, methods, e.lane)
<1> DEFINE t == Settle(c, e.lane)
<1>1. Emit(eng, e, ev) = t
  BY DEF Emit
<1>2. /\ ended.active = eng.active \ {e} /\ ended.calls = eng.calls /\ ended.fired = eng.fired
      /\ ended.arrived = eng.arrived /\ ended.done = eng.done \union {e.method} /\ ended.lost = eng.lost
      /\ IsEngine(ended)
  BY DEF EngineOK, Ended, IsEngine, Memory
<1>3. EngineOK(doc, flow, ended) /\ e.lane \in Lanes(flow)
  BY EndedOK DEF EngineOK
<1> HIDE DEF ended
<1>4. armed = Armed(eng, ev) /\ hearing = Hearing(eng, ev)
  BY <1>2 DEF Armed, Hearing
<1>5. complete = Complete(eng, ev)
  <2>1. \A n \in hearing : ev \in flow.listen[n].all => arrived[n] = eng.arrived[n] \union {ev}
    <3>1. \A n \in hearing : n \in StepNodes(doc)
      BY DEF FlowShape
    <3> HIDE DEF hearing
    <3>2. TAKE n \in hearing
    <3>3. HAVE ev \in flow.listen[n].all
    <3>4. arrived[n] = ended.arrived[n] \union ({ev} \intersect flow.listen[n].all)
      BY <3>1
    <3>q. QED
      BY <1>2, <3>3, <3>4
  <2> HIDE DEF hearing, arrived
  <2>q. QED
    BY <1>4, <2>1 DEF Complete
<1>6. triggered = Triggered(eng, ev)
  <2> HIDE DEF complete, hearing
  <2>q. QED
    BY <1>4, <1>5 DEF Triggered
<1>7. /\ heard.active = ended.active /\ heard.calls = ended.calls /\ heard.done = ended.done
      /\ heard.fired = armed \union {n \in triggered : Once(n)} /\ heard.lost = ended.lost
      /\ heard.arrived = [n \in StepNodes(doc) |-> IF n \in complete THEN {} ELSE arrived[n]]
      /\ IsEngine(heard)
  <2> HIDE DEF armed, hearing, arrived, complete, triggered
  <2>q. QED
    BY <1>2 DEF IsEngine, Memory
<1>8. \A n \in StepNodes(doc) :
         heard.arrived[n] = IF n \in complete THEN {}
                            ELSE eng.arrived[n] \union
                                    (IF n \in hearing THEN {ev} \intersect flow.listen[n].all ELSE {})
  <2> HIDE DEF hearing, complete, heard
  <2>q. QED
    BY <1>2, <1>7
<1>9. EngineOK(doc, flow, heard)
  <2>1. armed \subseteq flow.once /\ {n \in triggered : Once(n)} \subseteq flow.once
    BY <1>3 DEF EngineOK, Once
  <2>2. \A n \in flow.steps : n \in StepNodes(doc) /\ eng.arrived[n] \subseteq flow.listen[n].all
    BY DEF EngineOK, FlowShape
  <2> HIDE DEF armed, hearing, arrived, complete, triggered, heard
  <2>3. \A n \in flow.steps : heard.arrived[n] \subseteq flow.listen[n].all
    BY <1>8, <2>2
  <2>4. heard.arrived = [n \in StepNodes(doc) |-> heard.arrived[n]]
    BY <1>7
  <2>q. QED
    BY <1>3, <1>7, <2>1, <2>3, <2>4 DEF EngineOK
<1> HIDE DEF armed, hearing, arrived, complete, triggered, heard
<1>10. /\ IsEngine(c)
       /\ \E new : Calling(new, methods) /\ c.active = heard.active \union new
       /\ c.calls = [m \in Methods |-> heard.calls[m] + (IF m \in methods THEN 1 ELSE 0)]
       /\ c.fired = (IF methods \intersect heard.done = {} THEN heard.fired ELSE {})
       /\ c.done = heard.done \ methods /\ c.arrived = heard.arrived /\ c.lost = heard.lost
  <2> HIDE DEF methods
  <2>q. QED
    BY <1>9, CallEffects
<1> HIDE DEF methods, c
<1>11. Survivors(c.active, e.lane) \subseteq c.active
  BY <1>3, SurvivorsAreActive DEF Lanes
<1>12. /\ t.active = Survivors(c.active, e.lane) /\ t.calls = c.calls /\ t.fired = c.fired
       /\ t.arrived = c.arrived /\ t.done = c.done
       /\ t.lost = (c.lost \/ Survivors(c.active, e.lane) # c.active)
  BY <1>10 DEF Settle, IsEngine, Memory
<1> HIDE DEF t
<1>13. PICK new : Calling(new, methods) /\ c.active = (eng.active \ {e}) \union new
  BY <1>2, <1>7, <1>10
<1>14. /\ Calling(new, methods)
       /\ t.active \subseteq (eng.active \ {e}) \union new
       /\ ~t.lost => ~eng.lost /\ t.active = (eng.active \ {e}) \union new
  BY <1>2, <1>7, <1>10, <1>11, <1>12, <1>13
<1>15. methods = Triggered(eng, ev) \X {"step"}
  BY <1>6 DEF methods
<1>16. t.calls = [m \in Methods |-> eng.calls[m] + (IF m \in methods THEN 1 ELSE 0)]
  BY <1>2, <1>7, <1>10, <1>12
<1>17. /\ t.fired = (IF methods \intersect (eng.done \union {e.method}) = {} THEN heard.fired ELSE {})
       /\ t.done = (eng.done \union {e.method}) \ methods
  BY <1>2, <1>7, <1>10, <1>12
<1>18. heard.fired = Armed(eng, ev) \union {n \in Triggered(eng, ev) : Once(n)}
  BY <1>4, <1>6, <1>7
<1>19. \A n \in StepNodes(doc) :
          t.arrived[n] = IF n \in Complete(eng, ev) THEN {}
                         ELSE eng.arrived[n] \union
                                 (IF n \in Hearing(eng, ev) THEN {ev} \intersect flow.listen[n].all ELSE {})
  BY <1>4, <1>5, <1>8, <1>10, <1>12
<1>20. Emission(eng, e, ev, t)
  BY <1>14, <1>15, <1>16, <1>17, <1>18, <1>19 DEF Emission
<1>q. QED
  BY <1>1, <1>20

\* What the engine is after a step half that calls its router half.
Pairing(n, e, eng, t) ==
    /\ \E f : f.method = <<n, "route">> /\ t.active = (eng.active \ {e}) \union {f}
    /\ t.calls = [m \in Methods |-> eng.calls[m] + (IF m = <<n, "route">> THEN 1 ELSE 0)]
    /\ t.fired \subseteq eng.fired /\ t.arrived = eng.arrived /\ t.lost = eng.lost
    /\ t.done = (eng.done \union {e.method}) \ {<<n, "route">>}

\* A step half that calls its router half.
LEMMA PairEffects ==
    ASSUME NEW eng, EngineOK(doc, flow, eng), Fits(doc, eng, flow.limit), NEW e \in eng.active,
           NEW t, t = Pair(eng, e)
    PROVE  Pairing(e.method[1], e, eng, t)
<1> DEFINE ended == Ended(eng, e)
<1> DEFINE m == <<e.method[1], "route">>
<1>1. /\ ended.active = eng.active \ {e} /\ ended.calls = eng.calls /\ ended.fired = eng.fired
      /\ ended.arrived = eng.arrived /\ ended.done = eng.done \union {e.method} /\ ended.lost = eng.lost
  BY DEF EngineOK, Ended, IsEngine, Memory
<1>2. EngineOK(doc, flow, ended)
  BY EndedOK
<1>3. t = Call(ended, {m}, e.lane)
  BY DEF Pair
<1> HIDE DEF ended, m
<1> DEFINE ms == {m}
<1>4. /\ \E new : Calling(new, ms) /\ t.active = ended.active \union new
      /\ t.calls = [k \in Methods |-> ended.calls[k] + (IF k \in ms THEN 1 ELSE 0)]
      /\ t.fired = (IF ms \intersect ended.done = {} THEN ended.fired ELSE {})
      /\ t.done = ended.done \ ms /\ t.arrived = ended.arrived /\ t.lost = ended.lost
  <2>1. t = Call(ended, ms, e.lane)
    BY <1>3
  <2> HIDE DEF ms
  <2>q. QED
    BY <1>2, <2>1, CallEffects
<1>5. PICK new : Calling(new, {m}) /\ t.active = ended.active \union new
  BY <1>4
<1>6. \E f : f.method = m /\ new = {f}
  BY <1>5 DEF Calling
<1>q. QED
  BY <1>1, <1>4, <1>5, <1>6 DEF m, Pairing

\* A router that re-arms.
LEMMA RearmEffects ==
    ASSUME NEW eng, EngineOK(doc, flow, eng), NEW n, NEW t, t = Rearm(eng, n)
    PROVE  /\ t.active = eng.active /\ t.calls = eng.calls /\ t.arrived = eng.arrived
           /\ t.done = eng.done /\ t.lost = eng.lost /\ t.fired = eng.fired \ flow.rearm[n]
  BY DEF EngineOK, Rearm, IsEngine, Memory

\* A new flow object.
LEMMA NewEngineEffects ==
    ASSUME NEW methods, NEW t, t = NewEngine(methods)
    PROVE  /\ Calling(t.active, methods)
           /\ t.calls = [m \in Methods |-> IF m \in methods THEN 1 ELSE 0]
           /\ t.fired = {} /\ t.arrived = [n \in StepNodes(doc) |-> {}] /\ t.done = {} /\ ~t.lost
<1> DEFINE Exec(m) == [method |-> m, lane |-> <<>>, nth |-> 1]
<1>1. /\ t.active = {Exec(m) : m \in methods}
      /\ t.calls = [m \in Methods |-> IF m \in methods THEN 1 ELSE 0]
      /\ t.fired = {} /\ t.arrived = [n \in StepNodes(doc) |-> {}] /\ t.done = {} /\ t.lost = FALSE
  BY DEF NewEngine
<1>2. \A m \in methods : Exec(m).method = m
  OBVIOUS
<1> HIDE DEF Exec
<1>3. Calling(t.active, methods)
  BY <1>1, <1>2 DEF Calling
<1>q. QED
  BY <1>1, <1>3

-----------------------------------------------------------------------------
(* The steps of a whole run.                                                *)

\* Nothing happens, or the run ends.
Rests ==
    /\ UNCHANGED <<doc, plan, flow, engine, state, log>>
    /\ phase' \in {"published", "running", "paused"} => phase' = phase
    /\ phase' = "completed" => phase = "completed" \/ (phase = "running" /\ engine.active = {})

\* It starts.
Sets ==
    /\ phase = "published" /\ phase' = "running" /\ engine' = NewEngine(Starts)
    /\ UNCHANGED <<doc, plan, flow, state, log>>

\* A node ran, and is billed at most its price of one run.
Notes(n) ==
    /\ log'.ran = [log.ran EXCEPT ![n] = @ + 1] /\ log'.answers = log.answers
    /\ \E b \in Nat :
          /\ log'.billed = [log.billed EXCEPT ![n] = @ + b]
          /\ n \in OfKind(doc, BillableKinds) => b <= (doc.retries[n] + 1) * BillingUnits(doc, n)

\* It fails at a step, or pauses at a gate and forgets the other branches.
Stops(n) ==
    /\ Steps(n) # {} /\ Notes(n)
    /\ \/ phase' = "failed" /\ engine' = engine
       \/ /\ phase' = "paused" /\ KindOf(doc, n) = "gate"
          /\ \E e \in Steps(n) : engine' = [engine EXCEPT !.active = {e}]
    /\ UNCHANGED <<doc, plan, flow>> /\ state'.turns = state.turns

\* What a node may end with.
Ends1(n, ev) ==
    \/ KindOf(doc, n) = "output" /\ ev = <<n, Ran>>
    \/ \E port \in OutPorts(doc, n) : ev = Event(doc, n, port)

\* An execution ends with an event.
EmitsAt(n, e, ev) ==
    /\ KindOf(doc, n) # "gate" /\ Ends1(n, ev) /\ state'.turns = state.turns
    /\ GoesOn(Emit(IF IsRouted(doc, n) THEN Rearm(engine, n) ELSE engine, e, ev))
    /\ \/ e \in Steps(n) /\ ~RoutesErrors(doc, n) /\ Notes(n)
       \/ e \in Routes(n) /\ RoutesErrors(doc, n) /\ log' = log
Emits(n) == \E e, ev : EmitsAt(n, e, ev)

\* A step half calls its router half.
Pairs(n) ==
    \E e \in Steps(n) :
        RoutesErrors(doc, n) /\ GoesOn(Pair(engine, e)) /\ Notes(n) /\ state'.turns = state.turns

\* The operator answers at a gate: a new engine reads the reply,
Resumes(n) ==
    /\ phase = "paused" /\ phase' = "running" /\ KindOf(doc, n) = "gate"
    /\ \E e \in engine.active : e.method = <<n, "step">>
    /\ engine' = NewEngine({<<n, "route">>})
    /\ log' = [log EXCEPT !.answers = @ + 1]
    /\ UNCHANGED <<doc, plan, flow, state>>

\* and goes on with it.
Replies(n) ==
    /\ phase = "running" /\ KindOf(doc, n) = "gate"
    /\ engine = NewEngine({<<n, "route">>}) /\ log.answers > 0 /\ log' = log
    /\ \E honoured \in BOOLEAN, e \in NewEngine({<<n, "route">>}).active :
          /\ honoured => state.turns[n] < doc.turns[n]
          /\ state'.turns = [state.turns EXCEPT ![n] = @ + (IF honoured THEN 1 ELSE 0)]
          /\ GoesOn(Emit(IF honoured THEN Rearm(NewEngine({<<n, "route">>}), n)
                                     ELSE NewEngine({<<n, "route">>}),
                         e, Event(doc, n, IF honoured THEN "revise" ELSE "approve")))

\* What a node notes.
LEMMA NotesFacts ==
    ASSUME RunOK, NEW n \in StepNodes(doc), NEW b \in Nat,
           n \in OfKind(doc, BillableKinds) => b <= (doc.retries[n] + 1) * BillingUnits(doc, n),
           \/ log' = Noted(n, b)
           \/ \E s : log' = [Noted(n, b) EXCEPT !.failed = s]
           \/ \E s, u : log' = [[Noted(n, b) EXCEPT !.failed = s] EXCEPT !.failed = u]
    PROVE  Notes(n)
<1> DEFINE u == Noted(n, b)
<1>1. /\ u.ran = [log.ran EXCEPT ![n] = @ + 1] /\ u.billed = [log.billed EXCEPT ![n] = @ + b]
      /\ u.answers = log.answers /\ u = [x \in LogFields |-> u[x]]
  BY DEF RunOK, LogOK, LogFields, Noted
<1> HIDE DEF u
<1>2. log'.ran = u.ran /\ log'.billed = u.billed /\ log'.answers = u.answers
  BY <1>1 DEF LogFields, u
<1>q. QED
  BY <1>1, <1>2 DEF Notes

\* A price is no less than nothing.
LEMMA BilledAtLeastNothing ==
    ASSUME RunOK, NEW n \in StepNodes(doc), n \in OfKind(doc, BillableKinds)
    PROVE  0 <= (doc.retries[n] + 1) * BillingUnits(doc, n)
<1>1. doc.retries[n] \in Nat /\ BillingUnits(doc, n) \in Nat
  BY RunFacts, DocumentFacts DEF RunOK
<1>2. \A x, y \in Nat : 0 <= (x + 1) * y
  OBVIOUS
<1>q. QED
  BY <1>1, <1>2

\* A node that is not billed.
LEMMA UnbilledNotes ==
    ASSUME RunOK, NEW n \in StepNodes(doc), log' = Noted(n, 0)
    PROVE  Notes(n)
<1>1. n \in OfKind(doc, BillableKinds) => 0 <= (doc.retries[n] + 1) * BillingUnits(doc, n)
  BY BilledAtLeastNothing
<1>2. 0 \in Nat
  OBVIOUS
<1>q. QED
  BY <1>1, <1>2, NotesFacts

\* What a step records leaves the turns.
LEMMA RecordTurns ==
    ASSUME RunOK, NEW n, NEW v
    PROVE  Record(n, v).turns = state.turns /\ \A s : [Record(n, v) EXCEPT !.err = s].turns = state.turns
  BY DEF RunOK, StateOK, StateFields, Record

\* The end of a step half.
LEMMA OnwardsEnds ==
    ASSUME RunOK, plan = WholePlan, NEW n \in StepNodes(doc), NEW e \in Steps(n),
           KindOf(doc, n) \notin RoutingKinds, GoesOn(Onwards(e, n)), Notes(n), state'.turns = state.turns
    PROVE  Emits(n) \/ Pairs(n)
<1>1. CASE RoutesErrors(doc, n)
  BY <1>1 DEF Onwards, Pairs
<1>2. CASE ~RoutesErrors(doc, n)
  <2>1. GoesOn(Emit(engine, e, <<n, Ran>>)) /\ ~IsRouted(doc, n)
    BY <1>2 DEF Onwards, IsRouted
  <2>2. e \notin Routes(n)
    BY DEF Steps, Routes
  <2>3. Ends1(n, <<n, Ran>>)
    <3>1. CASE KindOf(doc, n) = "output"
      BY <3>1 DEF Ends1
    <3>2. CASE KindOf(doc, n) # "output"
      <4>1. KindOf(doc, n) # "tool"
        BY DEF StepNodes, OfKind, KindOf, AttachmentKinds
      <4>2. OutPorts(doc, n) = {"out"}
        BY <1>2, <3>2, <4>1 DEF OutPorts, RoutingKinds
      <4>3. Event(doc, n, "out") = <<n, Ran>>
        BY <1>2, <2>1 DEF Event
      <4>q. QED
        BY <4>2, <4>3 DEF Ends1
    <3>q. QED
      BY <3>1, <3>2
  <2>4. KindOf(doc, n) # "gate"
    BY DEF RoutingKinds
  <2>q. QED
    BY <1>2, <2>1, <2>2, <2>3, <2>4 DEF Emits, EmitsAt
<1>q. QED
  BY <1>1, <1>2

\* What an agent or a crew does.
LEMMA AgentWorks ==
    ASSUME RunOK, plan = WholePlan, NEW n \in StepNodes(doc), RunAgent(n)
    PROVE  Stops(n) \/ Emits(n) \/ Pairs(n)
<1>1. PICK e \in Steps(n), attempts \in 1..(doc.retries[n] + 1) :
         LET noted == [Noted(n, attempts * BillingUnits(doc, n)) EXCEPT !.failed = @ \ {n}]
         IN  /\ KindOf(doc, n) \in BillableKinds /\ n \notin flow.replayed
             /\ \/ /\ \E v \in Produces(n) : state' = Record(n, v)
                   /\ GoesOn(Onwards(e, n))
                   /\ log' = noted
                \/ /\ RoutesErrors(doc, n)
                   /\ state' = [Record(n, Empty) EXCEPT !.err = @ \union {n}]
                   /\ GoesOn(Onwards(e, n))
                   /\ log' = [noted EXCEPT !.failed = @ \union {n}]
                \/ /\ ~RoutesErrors(doc, n)
                   /\ phase' = "failed"
                   /\ log' = [noted EXCEPT !.failed = @ \union {n}]
                   /\ UNCHANGED <<doc, plan, flow, engine, state, saved>>
  BY DEF RunAgent
<1> DEFINE b == attempts * BillingUnits(doc, n)
<1>2. doc.retries[n] \in Nat /\ BillingUnits(doc, n) \in Nat
  <2>1. n \in OfKind(doc, BillableKinds)
    BY <1>1 DEF KindOf, OfKind, StepNodes
  <2>q. QED
    BY <2>1, RunFacts, DocumentFacts DEF RunOK
<1>3. b \in Nat /\ b <= (doc.retries[n] + 1) * BillingUnits(doc, n)
  <2>1. attempts \in Nat /\ attempts <= doc.retries[n] + 1
    BY <1>2
  <2>2. \A x, y, z \in Nat : x <= y + 1 => x * z \in Nat /\ x * z <= (y + 1) * z
    <3>1. TAKE x, y, z \in Nat
    <3>2. HAVE x <= y + 1
    <3>3. PICK w \in Nat : y + 1 = x + w
      <4>1. y + 1 - x \in Nat /\ y + 1 = x + (y + 1 - x)
        BY <3>2
      <4>q. QED
        BY <4>1
    <3>4. (x + w) * z = x * z + w * z /\ x * z \in Nat /\ w * z \in Nat
      OBVIOUS
    <3>q. QED
      BY <3>3, <3>4
  <2>q. QED
    BY <1>2, <2>1, <2>2
<1> DEFINE noted == [Noted(n, b) EXCEPT !.failed = @ \ {n}]
<1>4. log' = noted \/ log' = [noted EXCEPT !.failed = @ \union {n}]
  BY <1>1
<1>5. Notes(n)
  <2> HIDE DEF b
  <2>q. QED
    BY <1>3, <1>4, NotesFacts
<1> HIDE DEF b
<1>6. KindOf(doc, n) \notin RoutingKinds
  BY <1>1 DEF BillableKinds, RoutingKinds
<1>7. CASE phase' = "failed" /\ UNCHANGED <<doc, plan, flow, engine, state, saved>>
  BY <1>5, <1>7 DEF Stops
<1>8. CASE GoesOn(Onwards(e, n)) /\ \E v \in Produces(n) : state' = Record(n, v)
  <2>1. state'.turns = state.turns
    BY <1>8, RecordTurns
  <2>q. QED
    BY <1>5, <1>6, <1>8, <2>1, OnwardsEnds
<1>9. CASE GoesOn(Onwards(e, n)) /\ state' = [Record(n, Empty) EXCEPT !.err = @ \union {n}]
  <2>1. state'.turns = state.turns
    BY <1>9, RecordTurns
  <2>q. QED
    BY <1>5, <1>6, <1>9, <2>1, OnwardsEnds
<1>q. QED
  BY <1>1, <1>7, <1>8, <1>9

\* What the two routers do.
LEMMA RoutersRoute ==
    ASSUME RunOK, plan = WholePlan, NEW n \in StepNodes(doc), RouteError(n) \/ RouteBranch(n)
    PROVE  Emits(n)
<1>1. CASE RouteError(n)
  <2>1. PICK e \in Routes(n) :
           /\ RoutesErrors(doc, n)
           /\ GoesOn(Emit(Rearm(engine, n), e, <<n, IF n \in state.err THEN "error" ELSE "ok">>))
           /\ UNCHANGED <<state, log>>
    BY <1>1 DEF RouteError
  <2> DEFINE port == IF n \in state.err THEN "error" ELSE "out"
  <2>2. KindOf(doc, n) \in BillableKinds
    BY <2>1, RunFacts DEF RunOK, RoutesErrors, IsDocument, OfKind, KindOf
  <2>3. OutPorts(doc, n) = {"out", "error"}
    BY <2>1, <2>2 DEF OutPorts, BillableKinds
  <2>4. Event(doc, n, port) = <<n, IF n \in state.err THEN "error" ELSE "ok">>
    BY <2>1 DEF Event, IsRouted
  <2>5. Ends1(n, Event(doc, n, port))
    BY <2>3 DEF Ends1
  <2>6. IsRouted(doc, n) /\ KindOf(doc, n) # "gate"
    BY <2>1, <2>2 DEF IsRouted, BillableKinds
  <2> HIDE DEF port
  <2>q. QED
    BY <2>1, <2>4, <2>5, <2>6 DEF Emits, EmitsAt
<1>2. CASE RouteBranch(n)
  <2>1. PICK e \in Steps(n) :
           /\ Router(n)
           /\ LET value == state.out[doc.reads[n]]
                  label == IF value \in doc.branches[n] THEN value ELSE "otherwise"
              IN  GoesOn(Emit(Rearm(engine, n), e, <<n, label>>))
           /\ state' = Record(n, Latest(n))
           /\ log' = Noted(n, 0)
    BY <1>2 DEF RouteBranch
  <2>2. PICK label \in doc.branches[n] \union {"otherwise"} : GoesOn(Emit(Rearm(engine, n), e, <<n, label>>))
    BY <2>1
  <2>3. KindOf(doc, n) = "router" /\ ~RoutesErrors(doc, n) /\ IsRouted(doc, n)
    BY <2>1, RunFacts DEF RunOK, Router, RoutesErrors, IsDocument, OfKind, KindOf, BillableKinds, IsRouted, RoutingKinds
  <2>4. label \in OutPorts(doc, n) /\ Event(doc, n, label) = <<n, label>>
    BY <2>3 DEF OutPorts, Event
  <2>5. Ends1(n, <<n, label>>)
    BY <2>4 DEF Ends1
  <2>6. e \notin Routes(n)
    BY DEF Steps, Routes
  <2>7. Notes(n) /\ state'.turns = state.turns
    BY <2>1, UnbilledNotes, RecordTurns
  <2>q. QED
    BY <2>2, <2>3, <2>5, <2>6, <2>7 DEF Emits, EmitsAt
<1>q. QED
  BY <1>1, <1>2

\* An agent that is refused.
LEMMA RefusedStops ==
    ASSUME RunOK, NEW n \in StepNodes(doc), RefuseAgent(n)
    PROVE  Stops(n)
<1>1. /\ Steps(n) # {} /\ phase' = "failed" /\ UNCHANGED <<doc, plan, flow, engine, state, saved>>
      /\ log' = [Noted(n, 0) EXCEPT !.failed = @ \union {n}]
  BY DEF RefuseAgent
<1>2. n \in OfKind(doc, BillableKinds) => 0 <= (doc.retries[n] + 1) * BillingUnits(doc, n)
  BY BilledAtLeastNothing
<1>3. 0 \in Nat
  OBVIOUS
<1>4. Notes(n)
  BY <1>1, <1>2, <1>3, NotesFacts
<1>q. QED
  BY <1>1, <1>4 DEF Stops

\* A pause is at gates only, and what reads a reply is all that a new engine does.
Reading ==
    /\ phase = "paused" => \A e \in engine.active : KindOf(doc, e.method[1]) = "gate"
    /\ phase = "running" =>
          \A e \in engine.active : e.method[2] = "route" /\ KindOf(doc, e.method[1]) = "gate" =>
              engine = NewEngine({e.method}) /\ log.answers > 0

\* A gate that reads the reply.
LEMMA GateReplies ==
    ASSUME RunOK, Reading, NEW n \in StepNodes(doc), RouteGate(n)
    PROVE  Replies(n)
<1>1. PICK e \in Routes(n), decision \in {"approve", "revise"} :
         /\ KindOf(doc, n) = "gate" /\ log' = log
         /\ Decide(e, n, decision, decision = "revise" /\ state.turns[n] < doc.turns[n])
  BY DEF RouteGate
<1> DEFINE honoured == decision = "revise" /\ state.turns[n] < doc.turns[n]
<1>2. honoured \in BOOLEAN /\ (honoured => state.turns[n] < doc.turns[n])
  OBVIOUS
<1>3. Decide(e, n, decision, honoured)
  BY <1>1
<1> HIDE DEF honoured
<1>4. /\ state' = [state EXCEPT !.turns[n] = @ + (IF honoured THEN 1 ELSE 0),
                                !.decision[n] = IF honoured THEN "honoured" ELSE decision]
      /\ GoesOn(Emit(IF honoured THEN Rearm(engine, n) ELSE engine, e,
                     <<n, IF honoured THEN "revise" ELSE "approve">>))
  BY <1>3 DEF Decide
<1>5. phase = "running" /\ e \in engine.active /\ e.method = <<n, "route">>
  BY DEF Routes
<1>6. e.method[1] = n /\ e.method[2] = "route"
  BY <1>5
<1>7. engine = NewEngine({<<n, "route">>}) /\ log.answers > 0
  BY <1>1, <1>5, <1>6 DEF Reading
<1>8. state'.turns = [state.turns EXCEPT ![n] = @ + (IF honoured THEN 1 ELSE 0)]
  BY <1>4 DEF RunOK, StateOK, StateFields
<1>9. Event(doc, n, IF honoured THEN "revise" ELSE "approve") = <<n, IF honoured THEN "revise" ELSE "approve">>
  <2>1. ~RoutesErrors(doc, n) /\ IsRouted(doc, n)
    BY <1>1, RunFacts DEF RunOK, RoutesErrors, IsDocument, OfKind, KindOf, BillableKinds, IsRouted, RoutingKinds
  <2>q. QED
    BY <2>1 DEF Event
<1>10. GoesOn(Emit(IF honoured THEN Rearm(engine, n) ELSE engine, e,
                   Event(doc, n, IF honoured THEN "revise" ELSE "approve")))
  BY <1>4, <1>9
<1> DEFINE fresh == NewEngine({<<n, "route">>})
<1> HIDE DEF fresh
<1>11. /\ e \in fresh.active
       /\ GoesOn(Emit(IF honoured THEN Rearm(fresh, n) ELSE fresh, e,
                      Event(doc, n, IF honoured THEN "revise" ELSE "approve")))
  BY <1>5, <1>7, <1>10 DEF fresh
<1>q. QED
  BY <1>1, <1>2, <1>5, <1>7, <1>8, <1>11 DEF Replies, fresh

\* What the other entrypoints do: nothing is replayed.
LEMMA StepsWork ==
    ASSUME RunOK, Reading, plan = WholePlan, NEW n \in StepNodes(doc), Entrypoints(n)
    PROVE  Stops(n) \/ Emits(n) \/ Pairs(n) \/ Replies(n)
<1>1. flow.replayed = {}
  BY WholeFacts DEF RunOK
<1>2. ~ReplayOutput(n) /\ ~RouteReplayedGate(n)
  BY <1>1 DEF ReplayOutput, RouteReplayedGate
<1>3. CASE SeedInput(n) \/ Transform(n)
  <2>1. PICK e \in Steps(n) :
           /\ KindOf(doc, n) \in {"input", "transform"}
           /\ \E v \in Produces(n) : state' = Record(n, v)
           /\ GoesOn(Onwards(e, n))
           /\ log' = Noted(n, 0)
    BY <1>3 DEF SeedInput, Transform
  <2>2. Notes(n) /\ state'.turns = state.turns
    BY <2>1, UnbilledNotes, RecordTurns
  <2>3. KindOf(doc, n) \notin RoutingKinds
    BY <2>1 DEF RoutingKinds
  <2>q. QED
    BY <2>1, <2>2, <2>3, OnwardsEnds
<1>4. CASE EmitOutput(n)
  <2>1. PICK e \in Steps(n) :
           /\ KindOf(doc, n) = "output"
           /\ state' = Record(n, IF Latest(n) = Blank THEN Empty ELSE Latest(n))
           /\ GoesOn(Emit(engine, e, <<n, Ran>>))
           /\ log' = Noted(n, 0)
    BY <1>4 DEF EmitOutput
  <2>2. Notes(n) /\ state'.turns = state.turns
    BY <2>1, UnbilledNotes, RecordTurns
  <2>3. ~RoutesErrors(doc, n)
    BY <2>1, RunFacts DEF RunOK, RoutesErrors, IsDocument, OfKind, KindOf, BillableKinds
  <2>4. ~IsRouted(doc, n) /\ Ends1(n, <<n, Ran>>) /\ e \notin Routes(n) /\ KindOf(doc, n) # "gate"
    BY <2>1, <2>3 DEF IsRouted, RoutingKinds, Ends1, Steps, Routes
  <2>q. QED
    BY <2>1, <2>2, <2>3, <2>4 DEF Emits, EmitsAt
<1>5. CASE RenderGate(n)
  <2>1. /\ Steps(n) # {} /\ KindOf(doc, n) = "gate" /\ state' = Record(n, Other) /\ phase' = "paused"
        /\ \E e \in Steps(n) : engine' = [engine EXCEPT !.active = {e}]
        /\ log' = Noted(n, 0) /\ UNCHANGED <<doc, plan, flow, saved>>
    BY <1>5 DEF RenderGate
  <2>2. Notes(n) /\ state'.turns = state.turns
    BY <2>1, UnbilledNotes, RecordTurns
  <2>q. QED
    BY <2>1, <2>2 DEF Stops
<1>q. QED
  BY <1>2, <1>3, <1>4, <1>5, AgentWorks, RoutersRoute, RefusedStops, GateReplies DEF Entrypoints

\* What the operator does.
LEMMA AnswerResumes ==
    ASSUME RunOK, Reading, plan = WholePlan, NEW n \in StepNodes(doc), Answer(n)
    PROVE  Resumes(n)
<1>1. PICK e \in engine.active : e.method = <<n, "step">>
  BY DEF Answer
<1>2. /\ phase = "paused" /\ phase' = "running" /\ flow' = Compile(doc, WholePlan)
      /\ engine' = NewEngine({<<n, "route">>}) /\ log' = [log EXCEPT !.answers = @ + 1]
      /\ UNCHANGED <<doc, plan, state>>
  BY DEF Answer
<1>3. e.method[1] = n
  BY <1>1
<1>4. KindOf(doc, n) = "gate"
  BY <1>1, <1>2, <1>3 DEF Reading
<1>5. flow' = flow
  BY <1>2 DEF RunOK, FlowOK
<1>q. QED
  BY <1>1, <1>2, <1>4, <1>5 DEF Resumes

\* A step of a whole run that stays one.
WholeStep ==
    \/ Rests \/ Sets
    \/ \E n \in StepNodes(doc) : Stops(n) \/ Emits(n) \/ Pairs(n) \/ Resumes(n) \/ Replies(n)

\* A run of the whole document makes no other steps.
LEMMA WholeSteps ==
    ASSUME RunOK, Reading, plan = WholePlan, [Next]_vars, plan' = WholePlan
    PROVE  WholeStep
<1>1. CASE UNCHANGED vars
  BY <1>1 DEF vars, WholeStep, Rests
<1>2. CASE Kickoff
  BY <1>2 DEF Kickoff, WholeStep, Sets
<1>3. CASE Return \/ Abandon \/ Rest
  BY <1>3 DEF Return, Abandon, Rest, vars, WholeStep, Rests
<1>4. ASSUME NEW n \in StepNodes(doc), Entrypoints(n) PROVE WholeStep
  BY <1>4, StepsWork DEF WholeStep
<1>5. ASSUME NEW n \in StepNodes(doc), Answer(n) PROVE WholeStep
  BY <1>5, AnswerResumes DEF WholeStep
<1>6. ASSUME NEW n \in StepNodes(doc), ResumeFrom(n) \/ NodeTest(n) PROVE FALSE
  <2>1. \E mode \in {"resume_from", "node_test"} : plan' = [node |-> n, mode |-> mode]
    BY <1>6 DEF ResumeFrom, NodeTest, Derive
  <2>q. QED
    BY <2>1 DEF WholePlan
<1>q. QED
  BY <1>1, <1>2, <1>3, <1>4, <1>5, <1>6 DEF Next

\* A run whose plan is the whole one had no other before.
LEMMA PlanStays ==
    ASSUME RunOK, [Next]_vars, plan' = WholePlan
    PROVE  plan = WholePlan
<1>1. ASSUME NEW n \in StepNodes(doc), ResumeFrom(n) \/ NodeTest(n) PROVE FALSE
  <2>1. \E mode \in {"resume_from", "node_test"} : plan' = [node |-> n, mode |-> mode]
    BY <1>1 DEF ResumeFrom, NodeTest, Derive
  <2>q. QED
    BY <2>1 DEF WholePlan
<1>2. Kickoff \/ Return \/ Abandon \/ Rest \/ UNCHANGED vars => plan' = plan
  BY DEF Kickoff, Return, Abandon, Rest, vars
<1>3. ASSUME NEW n \in StepNodes(doc), Entrypoints(n) \/ Answer(n) PROVE plan' = plan
  <2>1. CASE Entrypoints(n)
    BY <2>1 DEF Entrypoints, SeedInput, Transform, RunAgent, RefuseAgent, RouteError, RouteBranch, EmitOutput,
                RenderGate, RouteGate, RouteReplayedGate, ReplayOutput, GoesOn, Decide
  <2>2. CASE Answer(n)
    BY <2>2 DEF Answer
  <2>q. QED
    BY <1>3, <2>1, <2>2
<1>q. QED
  BY <1>1, <1>2, <1>3 DEF Next

\* What an engine that goes on leaves.
LEMMA GoesOnFacts ==
    ASSUME NEW eng, GoesOn(eng)
    PROVE  /\ engine' = eng /\ phase' \in {"failed", "running"} /\ UNCHANGED <<doc, plan, flow>>
  BY DEF GoesOn

\* Every step of a whole run leaves the document and the flow.
LEMMA WholeStepKeeps ==
    ASSUME WholeStep
    PROVE  UNCHANGED <<doc, plan, flow>>
<1>1. \A n \in StepNodes(doc) : Emits(n) \/ Pairs(n) \/ Resumes(n) \/ Replies(n) => UNCHANGED <<doc, plan, flow>>
  BY GoesOnFacts DEF Emits, EmitsAt, Pairs, Resumes, Replies
<1>q. QED
  BY <1>1 DEF WholeStep, Rests, Sets, Stops

\* A step that emits, in a running flow.
LEMMA EmitsFacts ==
    ASSUME RunOK, plan = WholePlan, NEW n \in StepNodes(doc), Emits(n)
    PROVE  /\ phase = "running" /\ log'.answers = log.answers
           /\ phase' # "failed" => phase' = "running"
           /\ \E e, ev, eng :
                 /\ e \in engine.active /\ eng.active = engine.active /\ eng.calls = engine.calls /\ eng.done = engine.done
                 /\ eng.arrived = engine.arrived /\ eng.lost = engine.lost
                 /\ eng.fired = (IF IsRouted(doc, n) THEN engine.fired \ flow.rearm[n] ELSE engine.fired)
                 /\ EngineOK(doc, flow, eng) /\ Fits(doc, eng, flow.limit)
                 /\ Emission(eng, e, ev, engine')
                 /\ KindOf(doc, n) # "gate" /\ Ends1(n, ev) /\ state'.turns = state.turns
                 /\ \/ e.method = <<n, "step">> /\ ~RoutesErrors(doc, n) /\ Notes(n)
                    \/ e.method = <<n, "route">> /\ RoutesErrors(doc, n) /\ log' = log
<1>1. PICK e, ev : EmitsAt(n, e, ev)
  BY DEF Emits
<1> DEFINE eng == IF IsRouted(doc, n) THEN Rearm(engine, n) ELSE engine
<1>2. e \in engine.active /\ phase = "running"
  BY <1>1 DEF EmitsAt, Steps, Routes
<1>3. EngineOK(doc, flow, engine) /\ Fits(doc, engine, flow.limit) /\ FlowShape(doc, flow)
  BY <1>2, RunFacts DEF RunOK, PhaseOK, Terminal
<1>4. /\ eng.active = engine.active /\ eng.calls = engine.calls /\ eng.done = engine.done
      /\ eng.arrived = engine.arrived /\ eng.lost = engine.lost
      /\ eng.fired = (IF IsRouted(doc, n) THEN engine.fired \ flow.rearm[n] ELSE engine.fired)
  <2>1. CASE IsRouted(doc, n)
    BY <1>3, <2>1, RearmEffects
  <2>2. CASE ~IsRouted(doc, n)
    BY <2>2
  <2>q. QED
    BY <2>1, <2>2
<1>5. EngineOK(doc, flow, eng) /\ Fits(doc, eng, flow.limit)
  BY <1>3, RearmOK
<1>6. engine' = Emit(eng, e, ev) /\ phase' \in {"failed", "running"}
  <2>1. GoesOn(Emit(eng, e, ev))
    BY <1>1 DEF EmitsAt
  <2> HIDE DEF eng
  <2>q. QED
    BY <2>1, GoesOnFacts
<1> HIDE DEF eng
<1>7. Emission(eng, e, ev, engine')
  BY <1>2, <1>3, <1>4, <1>5, <1>6, EmitEffects
<1>8. /\ KindOf(doc, n) # "gate" /\ Ends1(n, ev) /\ state'.turns = state.turns
      /\ \/ e.method = <<n, "step">> /\ ~RoutesErrors(doc, n) /\ Notes(n)
         \/ e.method = <<n, "route">> /\ RoutesErrors(doc, n) /\ log' = log
  BY <1>1 DEF EmitsAt, Steps, Routes
<1>9. log'.answers = log.answers
  BY <1>8 DEF Notes
<1>q. QED
  BY <1>2, <1>4, <1>5, <1>6, <1>7, <1>8, <1>9

\* A step half that calls its router half, in a running flow.
LEMMA PairsFacts ==
    ASSUME RunOK, plan = WholePlan, NEW n \in StepNodes(doc), Pairs(n)
    PROVE  /\ phase = "running" /\ log'.answers = log.answers
           /\ phase' # "failed" => phase' = "running"
           /\ RoutesErrors(doc, n) /\ Notes(n) /\ state'.turns = state.turns
           /\ \E e \in engine.active : e.method = <<n, "step">> /\ Pairing(n, e, engine, engine')
<1>1. PICK e \in Steps(n) :
         RoutesErrors(doc, n) /\ GoesOn(Pair(engine, e)) /\ Notes(n) /\ state'.turns = state.turns
  BY DEF Pairs
<1>2. e \in engine.active /\ e.method = <<n, "step">> /\ phase = "running" /\ e.method[1] = n
  BY <1>1 DEF Steps
<1>3. EngineOK(doc, flow, engine) /\ Fits(doc, engine, flow.limit)
  BY <1>2 DEF RunOK, PhaseOK, Terminal
<1>4. engine' = Pair(engine, e) /\ phase' \in {"failed", "running"}
  BY <1>1, GoesOnFacts
<1>5. Pairing(n, e, engine, Pair(engine, e))
  BY <1>2, <1>3, PairEffects
<1>6. log'.answers = log.answers
  BY <1>1 DEF Notes
<1>q. QED
  BY <1>1, <1>2, <1>4, <1>5, <1>6

\* A run that stops at a step: it failed, or what paused at the gate is all it remembers.
LEMMA StopsFacts ==
    ASSUME RunOK, NEW n \in StepNodes(doc), Stops(n)
    PROVE  /\ phase = "running" /\ phase' \in {"failed", "paused"} /\ Notes(n) /\ log'.answers = log.answers
           /\ state'.turns = state.turns /\ \E e \in engine.active : e.method = <<n, "step">>
           /\ engine'.active \subseteq engine.active /\ engine'.calls = engine.calls
           /\ engine'.fired = engine.fired /\ engine'.arrived = engine.arrived /\ engine'.done = engine.done
           /\ engine'.lost = engine.lost
           /\ phase' = "paused" => \A e \in engine'.active : e.method = <<n, "step">>
<1>1. /\ phase = "running" /\ Notes(n) /\ log'.answers = log.answers /\ state'.turns = state.turns
      /\ \E e \in engine.active : e.method = <<n, "step">>
  BY DEF Stops, Notes, Steps
<1>2. IsEngine(engine)
  BY DEF RunOK, PhaseOK, EngineOK
<1>3. CASE phase' = "failed" /\ engine' = engine
  BY <1>1, <1>3
<1>4. CASE phase' = "paused" /\ \E e \in Steps(n) : engine' = [engine EXCEPT !.active = {e}]
  <2>1. PICK e \in Steps(n) : engine' = [engine EXCEPT !.active = {e}]
    BY <1>4
  <2>2. e \in engine.active /\ e.method = <<n, "step">>
    BY DEF Steps
  <2>q. QED
    BY <1>1, <1>2, <1>4, <2>1, <2>2 DEF IsEngine, Memory
<1>q. QED
  BY <1>3, <1>4 DEF Stops

\* A turn of a gate that a revise uses, the event of a reply, and the new engine that
\* takes it.
Honours(n, honoured) ==
    /\ honoured => state.turns[n] < doc.turns[n]
    /\ state'.turns = [state.turns EXCEPT ![n] = @ + (IF honoured THEN 1 ELSE 0)]
Reply(n, honoured) == Event(doc, n, IF honoured THEN "revise" ELSE "approve")
Fresh(n, e, eng) ==
    /\ e.method = <<n, "route">> /\ eng.active = {e} /\ eng.fired = {} /\ eng.done = {} /\ ~eng.lost
    /\ eng.calls = [m \in Methods |-> IF m = <<n, "route">> THEN 1 ELSE 0]
    /\ eng.arrived = [m \in StepNodes(doc) |-> {}] /\ EngineOK(doc, flow, eng)

\* That is the engine which a reply makes.
LEMMA NewEngineFresh ==
    ASSUME FlowOK, plan = WholePlan, NEW n \in StepNodes(doc), NEW t, t = NewEngine({<<n, "route">>})
    PROVE  /\ Fits(doc, t, flow.limit) /\ \E e : Fresh(n, e, t)
           /\ \A e \in t.active : Fresh(n, e, t)
<1> DEFINE methods == {<<n, "route">>}
<1>1. FlowShape(doc, flow) /\ methods \subseteq Halves(flow.steps)
  <2>1. FlowShape(doc, flow) /\ n \in flow.steps
    BY WholeFacts
  <2>q. QED
    BY <2>1 DEF Halves
<1>2. t = NewEngine(methods)
  OBVIOUS
<1> HIDE DEF methods
<1>3. EngineOK(doc, flow, t) /\ Fits(doc, t, flow.limit)
  BY <1>1, <1>2, NewEngineOK
<1>4. /\ Calling(t.active, methods)
      /\ t.calls = [m \in Methods |-> IF m \in methods THEN 1 ELSE 0]
      /\ t.fired = {} /\ t.arrived = [m \in StepNodes(doc) |-> {}] /\ t.done = {} /\ ~t.lost
  BY <1>2, NewEngineEffects
<1>5. t.calls = [m \in Methods |-> IF m = <<n, "route">> THEN 1 ELSE 0]
  BY <1>4 DEF methods
<1>6. PICK e \in t.active : e.method = <<n, "route">>
  BY <1>4 DEF Calling, methods
<1>7. t.active = {e}
  BY <1>4, <1>6 DEF Calling, methods
<1>8. Fresh(n, e, t)
  BY <1>3, <1>4, <1>5, <1>6, <1>7 DEF Fresh
<1>q. QED
  BY <1>3, <1>7, <1>8

\* A gate that was answered gets a new engine,
LEMMA ResumesFacts ==
    ASSUME RunOK, plan = WholePlan, NEW n \in StepNodes(doc), Resumes(n)
    PROVE  /\ phase = "paused" /\ phase' = "running" /\ KindOf(doc, n) = "gate"
           /\ log'.answers = log.answers + 1 /\ log'.answers > 0
           /\ log'.ran = log.ran /\ log'.billed = log.billed /\ state' = state
           /\ \E f \in engine.active : f.method = <<n, "step">>
           /\ \E e : Fresh(n, e, engine')
<1>1. /\ phase = "paused" /\ phase' = "running" /\ KindOf(doc, n) = "gate" /\ state' = state
      /\ \E f \in engine.active : f.method = <<n, "step">>
      /\ engine' = NewEngine({<<n, "route">>}) /\ log' = [log EXCEPT !.answers = @ + 1]
  BY DEF Resumes
<1>2. log.answers \in Nat /\ log'.answers = log.answers + 1 /\ log'.ran = log.ran /\ log'.billed = log.billed
  BY <1>1, DocumentsAssumption DEF RunOK, LogOK, LogFields
<1>3. \E e : Fresh(n, e, engine')
  BY <1>1, NewEngineFresh DEF RunOK
<1>q. QED
  BY <1>1, <1>2, <1>3

\* and goes on in it.
LEMMA RepliesFacts ==
    ASSUME RunOK, plan = WholePlan, NEW n \in StepNodes(doc), Replies(n)
    PROVE  /\ phase = "running" /\ KindOf(doc, n) = "gate" /\ log' = log /\ log.answers > 0
           /\ phase' # "failed" => phase' = "running"
           /\ \E honoured \in BOOLEAN : Honours(n, honoured)
                 /\ \E e, eng : /\ Fresh(n, e, engine) /\ Fresh(n, e, eng)
                               /\ Emission(eng, e, Reply(n, honoured), engine')
<1> DEFINE fresh == NewEngine({<<n, "route">>})
<1>1. PICK honoured \in BOOLEAN, e \in fresh.active :
         /\ honoured => state.turns[n] < doc.turns[n]
         /\ state'.turns = [state.turns EXCEPT ![n] = @ + (IF honoured THEN 1 ELSE 0)]
         /\ GoesOn(Emit(IF honoured THEN Rearm(fresh, n) ELSE fresh,
                        e, Event(doc, n, IF honoured THEN "revise" ELSE "approve")))
  BY DEF Replies
<1>2. Fits(doc, fresh, flow.limit) /\ Fresh(n, e, fresh) /\ FlowShape(doc, flow)
  BY NewEngineFresh, RunFacts DEF RunOK
<1>3. engine = fresh
  BY DEF Replies
<1> HIDE DEF fresh
<1> DEFINE eng == IF honoured THEN Rearm(fresh, n) ELSE fresh
<1> DEFINE ev == Event(doc, n, IF honoured THEN "revise" ELSE "approve")
<1>4. EngineOK(doc, flow, fresh)
  BY <1>2 DEF Fresh
<1>5. /\ eng.active = fresh.active /\ eng.calls = fresh.calls /\ eng.fired = {} /\ eng.done = fresh.done
      /\ eng.arrived = fresh.arrived /\ eng.lost = fresh.lost
  BY <1>2, <1>4, RearmEffects DEF Fresh
<1>6. EngineOK(doc, flow, eng) /\ Fits(doc, eng, flow.limit)
  BY <1>2, <1>4, RearmOK
<1>7. engine' = Emit(eng, e, ev) /\ phase' \in {"failed", "running"}
  <2>1. GoesOn(Emit(eng, e, ev))
    BY <1>1
  <2> HIDE DEF eng, ev
  <2>q. QED
    BY <2>1, GoesOnFacts
<1> HIDE DEF eng, ev
<1>8. Emission(eng, e, ev, engine')
  BY <1>2, <1>5, <1>6, <1>7, EmitEffects
<1>9. Fresh(n, e, eng)
  BY <1>2, <1>5, <1>6 DEF Fresh
<1>10. Honours(n, honoured) /\ ev = Reply(n, honoured)
  BY <1>1 DEF Honours, Reply, ev
<1>11. phase = "running" /\ KindOf(doc, n) = "gate" /\ log' = log /\ log.answers > 0
  BY DEF Replies
<1>q. QED
  BY <1>2, <1>3, <1>7, <1>8, <1>9, <1>10, <1>11

\* A pause stays at gates, and what reads a reply stays alone.
LEMMA ReadingStays ==
    ASSUME RunOK, Reading, plan = WholePlan, WholeStep, UNCHANGED <<doc, plan, flow>>
    PROVE  Reading'
<1>1. \A n \in StepNodes(doc) : <<n, "step">>[1] = n /\ <<n, "step">>[2] = "step"
                               /\ <<n, "route">>[1] = n /\ <<n, "route">>[2] = "route"
  OBVIOUS
<1>2. CASE Rests
  <2>1. engine' = engine /\ log' = log /\ (phase' \in {"running", "paused"} => phase' = phase)
    BY <1>2 DEF Rests
  <2>2. \A methods : NewEngine(methods)' = NewEngine(methods)
    BY DEF NewEngine, Methods
  <2>q. QED
    BY <2>1, <2>2 DEF Reading
<1>3. CASE Sets
  <2>1. phase' = "running" /\ engine' = NewEngine(Starts)
    BY <1>3 DEF Sets
  <2>2. Calling(engine'.active, Starts)
    BY <2>1, NewEngineEffects
  <2>3. \A m \in Starts : m[2] # "route"
    BY DEF Starts
  <2>q. QED
    BY <2>1, <2>2, <2>3 DEF Reading, Calling
<1>4. ASSUME NEW n \in StepNodes(doc), Stops(n) PROVE Reading'
  <2>1. CASE phase' = "failed"
    BY <2>1 DEF Reading
  <2>2. CASE phase' = "paused" /\ KindOf(doc, n) = "gate"
    <3>1. PICK e \in Steps(n) : engine' = [engine EXCEPT !.active = {e}]
      BY <1>4, <2>2 DEF Stops
    <3>2. engine'.active = {e} /\ e.method[1] = n
      BY <1>1, <3>1 DEF RunOK, PhaseOK, EngineOK, IsEngine, Memory, Steps
    <3>q. QED
      BY <2>2, <3>2 DEF Reading
  <2>q. QED
    BY <1>4, <2>1, <2>2 DEF Stops
<1>5. ASSUME NEW n \in StepNodes(doc), Emits(n) PROVE Reading'
  <2>0. phase = "running" /\ (phase' # "failed" => phase' = "running")
    BY <1>5, EmitsFacts
  <2>1. PICK e, ev, eng :
           /\ e \in engine.active /\ eng.active = engine.active /\ Emission(eng, e, ev, engine')
           /\ KindOf(doc, n) # "gate"
           /\ e.method = <<n, "step">> \/ e.method = <<n, "route">>
    BY <1>5, EmitsFacts
  <2>2. PICK new : /\ Calling(new, Triggered(eng, ev) \X {"step"})
                   /\ engine'.active \subseteq (engine.active \ {e}) \union new
    BY <2>1 DEF Emission
  <2>3. ASSUME NEW f \in engine'.active, f.method[2] = "route", KindOf(doc, f.method[1]) = "gate" PROVE FALSE
    <3>1. f \notin new
      BY <2>2, <2>3 DEF Calling
    <3>2. f \in engine.active /\ f # e
      BY <2>2, <3>1
    <3>3. engine = NewEngine({f.method})
      BY <2>0, <2>3, <3>2 DEF Reading
    <3>4. Calling(engine.active, {f.method})
      BY <3>3, NewEngineEffects
    <3>q. QED
      BY <2>1, <3>2, <3>4 DEF Calling
  <2>q. QED
    BY <2>0, <2>3 DEF Reading
<1>6. ASSUME NEW n \in StepNodes(doc), Pairs(n) PROVE Reading'
  <2>0. /\ phase = "running" /\ (phase' # "failed" => phase' = "running") /\ RoutesErrors(doc, n)
        /\ IsDocument(doc)
    BY <1>6, PairsFacts, RunFacts DEF RunOK
  <2>1. PICK e \in engine.active : e.method = <<n, "step">> /\ Pairing(n, e, engine, engine')
    BY <1>6, PairsFacts
  <2>2. PICK f : f.method = <<n, "route">> /\ engine'.active = (engine.active \ {e}) \union {f}
    BY <2>1 DEF Pairing
  <2>3. KindOf(doc, n) # "gate"
    BY <2>0 DEF RoutesErrors, IsDocument, OfKind, KindOf, BillableKinds
  <2>4. ASSUME NEW g \in engine'.active, g.method[2] = "route", KindOf(doc, g.method[1]) = "gate" PROVE FALSE
    <3>1. g # f
      BY <1>1, <2>2, <2>3, <2>4
    <3>2. g \in engine.active /\ g # e
      BY <2>2, <3>1
    <3>3. engine = NewEngine({g.method})
      BY <2>0, <2>4, <3>2 DEF Reading
    <3>4. Calling(engine.active, {g.method})
      BY <3>3, NewEngineEffects
    <3>q. QED
      BY <2>1, <3>2, <3>4 DEF Calling
  <2>q. QED
    BY <2>0, <2>4 DEF Reading
<1>7. ASSUME NEW n \in StepNodes(doc), Resumes(n) PROVE Reading'
  <2>1. phase' = "running" /\ engine' = NewEngine({<<n, "route">>}) /\ log'.answers > 0
    BY <1>7, ResumesFacts DEF Resumes
  <2>2. Calling(engine'.active, {<<n, "route">>})
    BY <2>1, NewEngineEffects
  <2>3. \A f \in engine'.active : f.method = <<n, "route">>
    BY <2>2 DEF Calling
  <2>4. \A methods : NewEngine(methods)' = NewEngine(methods)
    BY DEF NewEngine, Methods
  <2>q. QED
    BY <2>1, <2>3, <2>4 DEF Reading
<1>8. ASSUME NEW n \in StepNodes(doc), Replies(n) PROVE Reading'
  <2>0. phase' # "failed" => phase' = "running"
    BY <1>8, RepliesFacts
  <2>1. PICK honoured \in BOOLEAN : \E e, eng : Fresh(n, e, eng) /\ Emission(eng, e, Reply(n, honoured), engine')
    BY <1>8, RepliesFacts
  <2>2. PICK e, eng : Fresh(n, e, eng) /\ Emission(eng, e, Reply(n, honoured), engine')
    BY <2>1
  <2>3. PICK new : /\ Calling(new, Triggered(eng, Reply(n, honoured)) \X {"step"})
                   /\ engine'.active \subseteq (eng.active \ {e}) \union new
    BY <2>2 DEF Emission
  <2>4. engine'.active \subseteq new
    BY <2>2, <2>3 DEF Fresh
  <2>5. \A f \in new : f.method[2] = "step"
    BY <2>3 DEF Calling
  <2>q. QED
    BY <2>0, <2>4, <2>5 DEF Reading
<1>q. QED
  BY <1>2, <1>3, <1>4, <1>5, <1>6, <1>7, <1>8 DEF WholeStep

-----------------------------------------------------------------------------
(* What a whole run counts.                                                 *)

\* What one run of a node is billed at most.
OneRun(n) == (doc.retries[n] + 1) * BillingUnits(doc, n)

\* A whole run counts how often its nodes ran, and bills them at most that often; it
\* pauses at gates, and goes on there with nothing else under way.
Counts ==
    plan = WholePlan =>
        /\ Reading /\ log.ran \in [StepNodes(doc) -> Nat]
        /\ phase = "published" => log = NoLog /\ state.turns = [n \in StepNodes(doc) |-> 0]
        /\ \A n \in StepNodes(doc) \intersect OfKind(doc, BillableKinds) : log.billed[n] <= log.ran[n] * OneRun(n)

\* Another run and what it is billed.
LEMMA NotesCount ==
    ASSUME RunOK, Counts, plan = WholePlan, NEW n \in StepNodes(doc), Notes(n), UNCHANGED <<doc, plan>>,
           phase' # "published", Reading'
    PROVE  Counts'
<1>1. PICK b \in Nat :
         /\ log'.billed = [log.billed EXCEPT ![n] = @ + b]
         /\ n \in OfKind(doc, BillableKinds) => b <= OneRun(n)
  BY DEF Notes, OneRun
<1>2. log'.ran = [log.ran EXCEPT ![n] = @ + 1] /\ log.ran \in [StepNodes(doc) -> Nat]
  BY DEF Notes, Counts
<1>3. log'.ran \in [StepNodes(doc) -> Nat]
  BY <1>2
<1>4. \A m \in StepNodes(doc) \intersect OfKind(doc, BillableKinds) : log'.billed[m] <= log'.ran[m] * OneRun(m)
  <2>1. TAKE m \in StepNodes(doc) \intersect OfKind(doc, BillableKinds)
  <2>2. OneRun(m) \in Nat
    <3>1. doc.retries[m] \in Nat /\ BillingUnits(doc, m) \in Nat
      BY RunFacts, DocumentFacts DEF RunOK
    <3>2. \A x, y \in Nat : (x + 1) * y \in Nat
      OBVIOUS
    <3>q. QED
      BY <3>1, <3>2 DEF OneRun
  <2>3. log.billed \in [StepNodes(doc) -> Nat] /\ log.billed[m] <= log.ran[m] * OneRun(m)
    BY DEF RunOK, LogOK, Counts
  <2>4. CASE m = n
    <3>1. log'.billed[m] = log.billed[m] + b /\ log'.ran[m] = log.ran[m] + 1
      BY <1>1, <1>2, <2>3, <2>4
    <3>2. \A x, y, r, z \in Nat : x <= r * z /\ y <= z => x + y <= (r + 1) * z
      <4>1. TAKE x, y, r, z \in Nat
      <4>2. (r + 1) * z = r * z + z /\ r * z \in Nat
        OBVIOUS
      <4>q. QED
        BY <4>2
    <3>3. log.billed[m] \in Nat /\ log.ran[m] \in Nat
      BY <1>2, <2>3
    <3>4. b <= OneRun(m)
      BY <1>1, <2>4
    <3>q. QED
      BY <2>2, <2>3, <3>1, <3>2, <3>3, <3>4
  <2>5. CASE m # n
    <3>1. log'.billed[m] = log.billed[m] /\ log'.ran[m] = log.ran[m]
      BY <1>1, <1>2, <2>3, <2>5
    <3>q. QED
      BY <2>3, <3>1
  <2>q. QED
    BY <2>4, <2>5
<1>q. QED
  BY <1>3, <1>4 DEF Counts, OneRun

\* The counts are kept.
LEMMA CountsNext == RunOK /\ Counts /\ [Next]_vars => Counts'
<1>1. SUFFICES ASSUME RunOK, Counts, [Next]_vars, plan' = WholePlan PROVE Counts'
  BY DEF Counts
<1>2. plan = WholePlan /\ WholeStep /\ UNCHANGED <<doc, plan, flow>>
  BY <1>1, PlanStays, WholeSteps, WholeStepKeeps DEF Counts
<1>0. Reading'
  BY <1>1, <1>2, ReadingStays DEF Counts
<1>3. CASE Rests
  BY <1>0, <1>1, <1>2, <1>3 DEF Rests, Counts, OneRun, NoLog
<1>4. CASE Sets
  BY <1>0, <1>1, <1>2, <1>4 DEF Sets, Counts, OneRun
<1>5. ASSUME NEW n \in StepNodes(doc), Stops(n) PROVE Counts'
  BY <1>0, <1>1, <1>2, <1>5, NotesCount DEF Stops
<1>6. ASSUME log'.ran = log.ran, log'.billed = log.billed, phase' # "published" PROVE Counts'
  BY <1>0, <1>1, <1>2, <1>6 DEF Counts, OneRun
<1>7. ASSUME NEW n \in StepNodes(doc), Emits(n) PROVE Counts'
  <2>1. PICK e, ev : EmitsAt(n, e, ev)
    BY <1>7 DEF Emits
  <2>2. phase' # "published"
    BY <2>1, GoesOnFacts DEF EmitsAt
  <2>q. QED
    BY <1>0, <1>1, <1>2, <1>6, <2>1, <2>2, NotesCount DEF EmitsAt
<1>8. ASSUME NEW n \in StepNodes(doc), Pairs(n) PROVE Counts'
  <2>1. phase' # "published" /\ Notes(n)
    BY <1>8, GoesOnFacts DEF Pairs
  <2>q. QED
    BY <1>0, <1>1, <1>2, <2>1, NotesCount
<1>9. ASSUME NEW n \in StepNodes(doc), Resumes(n) \/ Replies(n) PROVE Counts'
  <2>1. phase' # "published" /\ log'.ran = log.ran /\ log'.billed = log.billed
    BY <1>1, <1>2, <1>9, ResumesFacts, RepliesFacts
  <2>q. QED
    BY <1>6, <2>1
<1>q. QED
  BY <1>2, <1>3, <1>4, <1>5, <1>7, <1>8, <1>9 DEF WholeStep

\* Every run keeps its types and its counts.
LEMMA RunCounts == Spec => [](RunOK /\ Counts)
<1>1. Init => Counts
  <2>1. SUFFICES ASSUME Init PROVE Counts
    OBVIOUS
  <2>2. log = NoLog /\ state = BlankState /\ doc \in Documents
    BY <2>1 DEF Init
  <2>3. log.ran = [n \in StepNodes(doc) |-> 0] /\ log.billed = [n \in StepNodes(doc) |-> 0]
    BY <2>2 DEF NoLog
  <2>4. state.turns = [n \in StepNodes(doc) |-> 0]
    BY <2>2 DEF BlankState
  <2>5. \A n \in StepNodes(doc) \intersect OfKind(doc, BillableKinds) : log.billed[n] <= log.ran[n] * OneRun(n)
    <3>1. TAKE n \in StepNodes(doc) \intersect OfKind(doc, BillableKinds)
    <3>2. doc.retries[n] \in Nat /\ BillingUnits(doc, n) \in Nat
      BY <2>2, DocumentsAssumption, DocumentFacts
    <3>3. \A x, y \in Nat : 0 <= 0 * ((x + 1) * y)
      OBVIOUS
    <3>4. log.billed[n] = 0 /\ log.ran[n] = 0
      BY <2>3
    <3>q. QED
      BY <3>2, <3>3, <3>4 DEF OneRun
  <2>6. phase = "published"
    BY <2>1 DEF Init
  <2>q. QED
    BY <2>2, <2>3, <2>4, <2>5, <2>6 DEF Counts, Reading
<1>2. Init => RunOK
  BY RunOKInit
<1>3. RunOK /\ Counts /\ [Next]_vars => (RunOK /\ Counts)'
  BY RunOKNext, CountsNext
<1>q. QED
  BY <1>1, <1>2, <1>3, PTL DEF Spec

-----------------------------------------------------------------------------
(* Joins: what a join waits for always runs, and runs once.                 *)

\* The steps that choose what follows, and those that nothing decides about.
Choosers(d) == {n \in StepNodes(d) : IsRouted(d, n)}
Sure(d) == StepNodes(d) \ Reachable(Choosers(d), Along(d))

\* A published document, and its pairs.
LEMMA AlongFacts ==
    ASSUME NEW d, IsDocument(d), Publishable(d)
    PROVE  /\ Linked(d) /\ StepNodes(d) \subseteq Nodes(d) /\ IsFiniteSet(StepNodes(d))
           /\ Choosers(d) \in SUBSET Nodes(d) /\ OfKind(d, {"input"}) \in SUBSET Nodes(d)
           /\ \A p \in Along(d) : p = <<p[1], p[2]>> /\ p[1] \in StepNodes(d) /\ p[2] \in StepNodes(d)
           /\ \A i \in FlowEdges(d) : <<Src(d, i), Dst(d, i)>> \in Along(d)
           /\ \A p \in Along(d) : \E i \in FlowEdges(d) : Src(d, i) = p[1] /\ Dst(d, i) = p[2]
<1>1. Linked(d) /\ StepNodes(d) \subseteq Nodes(d)
  BY PublishableIsLinked, DocumentFacts
<1>2. \A p \in Along(d) : p = <<p[1], p[2]>> /\ \E i \in FlowEdges(d) : Src(d, i) = p[1] /\ Dst(d, i) = p[2]
  BY DEF Along, Ends, Src, Dst
<1>3. \A p \in Along(d) : p[1] \in StepNodes(d) /\ p[2] \in StepNodes(d)
  BY <1>2, EdgeFacts
<1>4. IsFiniteSet(StepNodes(d))
  BY <1>1, FS_Subset DEF Linked
<1>q. QED
  BY <1>1, <1>2, <1>3, <1>4, EdgeIsPair DEF Choosers, OfKind, Along

\* What leads to such a step is one too; no loop leads to one, and it chooses nothing.
LEMMA SureFacts ==
    ASSUME NEW d, IsDocument(d), Publishable(d)
    PROVE  /\ \A p \in Along(d) : p[2] \in Sure(d) => p[1] \in Sure(d)
           /\ \A i \in BackEdges(d) : Dst(d, i) \notin Sure(d)
           /\ \A n \in Sure(d) : n \in StepNodes(d) /\ ~IsRouted(d, n)
<1> DEFINE R == Reachable(Choosers(d), Along(d))
<1>1. Choosers(d) \subseteq R /\ Closed(R, Along(d))
  BY AlongFacts, ReachFacts DEF Along
<1>2. \A p \in Along(d) : p[2] \in Sure(d) => p[1] \in Sure(d)
  BY <1>1, AlongFacts DEF Closed, Sure
<1>3. \A i \in BackEdges(d) : Dst(d, i) \notin Sure(d)
  <2>1. TAKE i \in BackEdges(d)
  <2>2. i \in FlowEdges(d) /\ KindOf(d, Src(d, i)) \in RoutingKinds /\ Src(d, i) \in StepNodes(d)
    BY AlongFacts, BackEdgesAreFlow, EdgeFacts
  <2>3. Src(d, i) \in R
    BY <1>1, <2>2 DEF Choosers, IsRouted
  <2>4. Dst(d, i) \in R
    <3>1. <<Src(d, i), Dst(d, i)>> \in Along(d)
      BY <2>2, AlongFacts
    <3>q. QED
      BY <2>3, <3>1, ReachNext, AlongFacts DEF Along
  <2>q. QED
    BY <2>4 DEF Sure
<1>q. QED
  BY <1>1, <1>2, <1>3 DEF Sure, Choosers

\* A join the compiler chose waits for steps that nothing decides about
\* (compiler.py _is_concurrent_fan_in).
LEMMA JoinedAreSure ==
    ASSUME NEW d, IsDocument(d), Publishable(d), d.joins = <<>>, NEW n \in StepNodes(d),
           NEW ev \in ListenFor(d, WholePlan, BackEdges(d), n).all
    PROVE  ev[1] \in Sure(d) /\ ev = <<ev[1], Ran>> /\ <<ev[1], n>> \in Along(d)
<1> DEFINE l == ListenFor(d, WholePlan, BackEdges(d), n)
<1> DEFINE normal == EventsInto(d, WholePlan, n, FlowEdges(d) \ BackEdges(d))
<1>0. Linked(d)
  BY AlongFacts
<1>1. HearsEdges(d, n, l)
  BY <1>0, ListenFacts
<1>2. ev \in normal /\ IsConcurrentFanIn(d, n, normal)
  <2>1. n \notin DOMAIN d.joins
    OBVIOUS
  <2> HIDE DEF normal
  <2>q. QED
    BY <2>1 DEF ListenFor, normal
<1>3. ev[2] = Ran /\ \A a \in Ancestors(d, ev[1]) : ~IsRouted(d, a)
  <2> HIDE DEF normal
  <2>q. QED
    BY <1>2 DEF IsConcurrentFanIn
<1>4. PICK i \in FlowEdges(d) \ BackEdges(d) : Dst(d, i) = n /\ ev = Carried(d, i)
  <2> HIDE DEF l
  <2>q. QED
    BY <1>1 DEF HearsEdges, l
<1> DEFINE m == Src(d, i)
<1>5. m \in StepNodes(d) /\ d.edges[i].port \in OutPorts(d, m) /\ <<m, n>> \in Along(d)
  BY <1>4, EdgeFacts, AlongFacts
<1>6. ev[1] = m /\ ~IsRouted(d, m) /\ ev = <<m, Ran>>
  BY <1>3, <1>4, <1>5, EventFacts DEF Carried
<1> HIDE DEF m, l, normal
<1> DEFINE R == Reachable(Choosers(d), Along(d))
<1> DEFINE C == {x \in Nodes(d) : \E r \in Choosers(d) : x \in Reachable({r}, Along(d))}
<1>7. \A r \in Choosers(d) : {r} \in SUBSET Nodes(d) /\ {r} \subseteq Reachable({r}, Along(d))
  <2>1. TAKE r \in Choosers(d)
  <2>2. {r} \in SUBSET Nodes(d)
    BY AlongFacts
  <2>q. QED
    BY <1>0, <2>2, ReachFacts DEF Along
<1>8. Choosers(d) \subseteq C
  BY <1>7, AlongFacts
<1>9. Closed(C, Along(d))
  <2>1. ASSUME NEW p \in Along(d), p[1] \in C PROVE p[2] \in C
    <3>1. PICK r \in Choosers(d) : p[1] \in Reachable({r}, Along(d))
      BY <2>1
    <3>2. p = <<p[1], p[2]>> /\ p[2] \in Nodes(d)
      BY <2>1, AlongFacts
    <3>3. p[2] \in Reachable({r}, Along(d))
      BY <1>0, <1>7, <2>1, <3>1, <3>2, ReachNext DEF Along
    <3>q. QED
      BY <3>2, <3>3
  <2>q. QED
    BY <2>1 DEF Closed
<1>10. R \subseteq C
  <2> HIDE DEF C
  <2>q. QED
    BY <1>0, <1>8, <1>9, ReachFacts, AlongFacts DEF Along
<1>11. m \notin C
  <2>1. SUFFICES ASSUME NEW r \in Choosers(d), m \in Reachable({r}, Along(d)) PROVE FALSE
    OBVIOUS
  <2>2. r \in Nodes(d) /\ IsRouted(d, r)
    BY AlongFacts DEF Choosers
  <2>3. r \in Ancestors(d, m) \union {m}
    BY <1>5, <2>1, <2>2, AncestorsFacts DEF Along
  <2>q. QED
    BY <1>3, <1>6, <2>2, <2>3
<1>q. QED
  BY <1>5, <1>6, <1>10, <1>11 DEF Sure

\* What is upstream of such a step is too.
LEMMA AncestorsAreSure ==
    ASSUME NEW d, IsDocument(d), Publishable(d), NEW n \in Sure(d)
    PROVE  Ancestors(d, n) \subseteq Sure(d)
<1> DEFINE steps == {i \in FlowEdges(d) : {d.edges[i].src, d.edges[i].dst} \subseteq StepNodes(d)}
<1> DEFINE into == {p \in Ends(d, steps) : p[1] # n}
<1> DEFINE direct == {p[1] : p \in {q \in into : q[2] = n}}
<1>1. Ancestors(d, n) = Reachable(direct, Flip(into)) \ {n}
  BY DEF Ancestors
<1>2. into \subseteq Along(d)
  BY DEF Ends, Along
<1> HIDE DEF into
<1>3. direct \subseteq Sure(d)
  BY <1>2, SureFacts
<1>4. \A q \in Flip(into) : \E p \in into : q[1] = p[2] /\ q[2] = p[1]
  BY DEF Flip
<1>5. Closed(Sure(d), Flip(into))
  BY <1>2, <1>4, SureFacts DEF Closed
<1>6. IsFiniteSet(direct \union {p[2] : p \in Flip(into)})
  <2>1. direct \union {p[2] : p \in Flip(into)} \subseteq StepNodes(d)
    BY <1>2, <1>4, AlongFacts
  <2>q. QED
    BY <2>1, AlongFacts, FS_Subset
<1>7. Reachable(direct, Flip(into)) \subseteq Sure(d)
  <2> HIDE DEF direct
  <2>q. QED
    BY <1>3, <1>5, <1>6, ReachableIsLeast
<1>q. QED
  BY <1>1, <1>7

\* It has one step before it, or it is a join; and it never fires once.
LEMMA SureListens ==
    ASSUME NEW d, IsDocument(d), Publishable(d), d.joins = <<>>, NEW n \in Sure(d), NEW l,
           l = ListenFor(d, WholePlan, BackEdges(d), n)
    PROVE  /\ ~IsMultiEventOr(l)
           /\ l.all # {} => l.any = {}
           /\ l.all = {} => \A p, q \in Along(d) : p[2] = n /\ q[2] = n => p[1] = q[1]
<1> DEFINE normal == EventsInto(d, WholePlan, n, FlowEdges(d) \ BackEdges(d))
<1> DEFINE loops == EventsInto(d, WholePlan, n, BackEdges(d))
<1>0. Linked(d) /\ n \in StepNodes(d) /\ n \notin DOMAIN d.joins
  BY AlongFacts, SureFacts
<1>1. HearsEdges(d, n, l)
  BY <1>0, ListenFacts
<1>2. loops = {}
  BY SureFacts DEF EventsInto, Dst
<1>3. \/ l.all = normal /\ l.any = {} /\ normal # {}
      \/ l.all = {} /\ l.any = normal /\ ~IsConcurrentFanIn(d, n, normal)
  <2>1. normal = {} => ~IsConcurrentFanIn(d, n, normal)
    <3>1. normal = {} => Cardinality(normal) = 0
      BY FS_EmptySet
    <3> HIDE DEF normal
    <3>q. QED
      BY <3>1 DEF IsConcurrentFanIn
  <2> HIDE DEF normal, loops
  <2>q. QED
    BY <1>0, <1>2, <2>1 DEF ListenFor, normal, loops
<1>4. ASSUME NEW ev \in normal
      PROVE  ev[2] = Ran /\ ev = <<ev[1], Ran>> /\ \A a \in Ancestors(d, ev[1]) : ~IsRouted(d, a)
  <2>1. ev \in l.any \union l.all
    BY <1>3
  <2>2. PICK i \in FlowEdges(d) : Dst(d, i) = n /\ ev = Carried(d, i)
    <3> HIDE DEF normal
    <3>q. QED
      BY <1>1, <2>1 DEF HearsEdges
  <2>3. <<Src(d, i), n>> \in Along(d)
    BY <2>2, AlongFacts
  <2>4. Src(d, i) \in Sure(d)
    <3>1. <<Src(d, i), n>>[1] = Src(d, i) /\ <<Src(d, i), n>>[2] = n
      OBVIOUS
    <3>q. QED
      BY <2>3, <3>1, SureFacts
  <2>5. Src(d, i) \in StepNodes(d) /\ ~IsRouted(d, Src(d, i)) /\ d.edges[i].port \in OutPorts(d, Src(d, i))
    BY <2>2, <2>4, SureFacts, EdgeFacts
  <2>6. ev = <<Src(d, i), Ran>>
    BY <2>2, <2>5, EventFacts DEF Carried
  <2>7. \A a \in Ancestors(d, Src(d, i)) : ~IsRouted(d, a)
    BY <2>4, AncestorsAreSure, SureFacts
  <2> HIDE DEF normal
  <2>q. QED
    BY <2>6, <2>7
<1>5. IsFiniteSet(normal)
  <2> DEFINE into == {j \in FlowEdges(d) \ BackEdges(d) :
                         d.edges[j].dst = n /\ d.edges[j].src \notin Dropped(d, WholePlan)}
  <2> DEFINE F(i) == Event(d, d.edges[i].src, d.edges[i].port)
  <2>1. normal = {F(i) : i \in into}
    BY DEF EventsInto
  <2>2. into \subseteq EdgeIds(d)
    BY DEF FlowEdges, EdgesInto
  <2>3. IsFiniteSet(into)
    BY <1>0, <2>2, FS_Subset DEF Linked
  <2> DEFINE f == [i \in into |-> F(i)]
  <2> HIDE DEF into, F, normal
  <2>4. f \in Surjection(into, normal)
    BY <2>1 DEF Surjection
  <2>q. QED
    BY <2>3, <2>4, FS_Surjection DEF ExistsSurjection
<1>6. l.all = {} => ~(Cardinality(normal) >= 2)
  <2> HIDE DEF normal
  <2>q. QED
    BY <1>0, <1>3, <1>4 DEF IsConcurrentFanIn
<1>7. l.all = {} => \A v, w \in normal : v = w
  <2>1. SUFFICES ASSUME l.all = {}, NEW v \in normal, NEW w \in normal, v # w PROVE FALSE
    OBVIOUS
  <2>2. {v, w} \subseteq normal
    OBVIOUS
  <2> HIDE DEF normal
  <2>3. Cardinality({v}) = 1 /\ IsFiniteSet({v})
    BY FS_Singleton
  <2>4. Cardinality({v} \union {w}) = 2
    BY <2>1, <2>3, FS_AddElement
  <2>5. {v} \union {w} = {v, w}
    OBVIOUS
  <2>6. Cardinality({v, w}) <= Cardinality(normal) /\ Cardinality(normal) \in Nat
    BY <1>5, <2>2, FS_Subset, FS_CardinalityType
  <2>q. QED
    BY <1>6, <2>1, <2>4, <2>5, <2>6
<1>8. l.all = {} => \A p, q \in Along(d) : p[2] = n /\ q[2] = n => p[1] = q[1]
  <2>1. SUFFICES ASSUME l.all = {}, NEW p \in Along(d), NEW q \in Along(d), p[2] = n, q[2] = n
                 PROVE  p[1] = q[1]
    OBVIOUS
  <2>2. \A r \in Along(d) : r[2] = n => \E ev \in normal : ev[1] = r[1]
    <3>1. TAKE r \in Along(d)
    <3>2. HAVE r[2] = n
    <3>3. PICK i \in FlowEdges(d) : Src(d, i) = r[1] /\ Dst(d, i) = n
      BY <3>1, <3>2, AlongFacts
    <3>4. Carried(d, i) \in l.any
      <4> HIDE DEF normal
      <4>q. QED
        BY <1>1, <2>1, <3>3 DEF HearsEdges
    <3>5. Carried(d, i)[1] = r[1]
      BY <3>3 DEF Carried, Event
    <3>q. QED
      BY <1>3, <2>1, <3>4, <3>5
  <2> HIDE DEF normal
  <2>q. QED
    BY <1>7, <2>1, <2>2
<1>9. ~IsMultiEventOr(l)
  <2>1. CASE l.any = {}
    BY <2>1 DEF IsMultiEventOr
  <2>2. CASE l.any # {}
    <3>1. l.all = {} /\ l.any = normal
      BY <1>3, <2>2
    <3> HIDE DEF normal
    <3>2. Cardinality(l.any) \in Nat /\ ~(Cardinality(l.any) >= 2)
      BY <1>5, <1>6, <3>1, FS_CardinalityType
    <3>q. QED
      BY <3>1, <3>2 DEF IsMultiEventOr
  <2>q. QED
    BY <2>1, <2>2
<1>q. QED
  BY <1>3, <1>8, <1>9

\* The steps before a step, when they all ran once, and what is reached without leaving one.
Preds(d, n) == {p[1] : p \in {q \in Along(d) : q[2] = n}}
Ready(d, ran, n) == \A m \in Preds(d, n) : ran[m] = 1
Before(d, n) == Reachable(OfKind(d, {"input"}), {p \in Along(d) : p[1] # n})

\* A join that waits.
Waits(fl, ran, n) == \E ev \in fl.listen[n].all : ran[ev[1]] = 0

\* A step that nothing decides about runs once, after all that is before it, and is under
\* way in between.
SureNodes(d, eng, ran) ==
    \A n \in Sure(d) :
        /\ ran[n] \in {0, 1}
        /\ ran[n] = 1 => Ready(d, ran, n)
        /\ Ready(d, ran, n) /\ ran[n] = 0 <=> \E e \in eng.active : e.method[1] = n
        /\ \A e, f \in eng.active : e.method[1] = n /\ f.method[1] = n => e = f

\* A join holds the events of what ran, until all did, and so long nothing is under way
\* behind it.
JoinNodes(d, fl, eng, ran) ==
    \A n \in StepNodes(d) : fl.listen[n].all # {} =>
        /\ Waits(fl, ran, n) =>
              /\ eng.arrived[n] = {ev \in fl.listen[n].all : ran[ev[1]] # 0}
              /\ n \notin eng.fired
              /\ \A e \in eng.active : e.method[1] # n /\ e.method[1] \in Before(d, n)
        /\ ~Waits(fl, ran, n) => eng.arrived[n] = {}

\* After a pause no join holds anything, and none gets anything: what it waits for is
\* before every step that chooses, and the pause was at one.
Resumed(d, eng) ==
    /\ \A n \in StepNodes(d) : eng.arrived[n] = {}
    /\ \A e \in eng.active : e.method[1] \notin Sure(d)

\* Before the first pause the joins are where they should be, and after it they are empty.
JoinsOK ==
    plan = WholePlan /\ doc.joins = <<>> =>
        /\ phase = "completed" => engine.active = {}
        /\ phase \in {"running", "paused", "completed"} /\ log.answers > 0 => Resumed(doc, engine)
        /\ phase \in {"running", "completed"} /\ log.answers = 0 /\ LoopsReturn /\ ~engine.lost =>
              SureNodes(doc, engine, log.ran) /\ JoinNodes(doc, flow, engine, log.ran)

\* A finite set has a member with the largest of some numbers.
LEMMA TopOf ==
    ASSUME NEW S, IsFiniteSet(S), NEW f, \A x \in S : f[x] \in Nat, NEW T \in SUBSET S, T # {}
    PROVE  \E x \in T : \A y \in T : f[y] <= f[x]
<1> DEFINE F == {u \in SUBSET S : u # {} => \E x \in u : \A y \in u : f[y] <= f[x]}
<1>1. IsFiniteSet(T)
  BY FS_Subset
<1>2. {} \in F
  OBVIOUS
<1>3. ASSUME NEW u \in SUBSET T, NEW i \in T \ u, u \in F PROVE u \union {i} \in F
  <2>1. CASE u = {}
    BY <2>1
  <2>2. CASE u # {}
    <3>1. PICK k \in u : \A j \in u : f[j] <= f[k]
      BY <1>3, <2>2
    <3>2. CASE f[i] >= f[k]
      <4>1. \A j \in u \union {i} : f[j] <= f[i]
        BY <3>1, <3>2
      <4>q. QED
        BY <4>1
    <3>3. CASE ~(f[i] >= f[k])
      <4>1. \A j \in u \union {i} : f[j] <= f[k]
        BY <3>1, <3>3
      <4>q. QED
        BY <3>1, <4>1
    <3>q. QED
      BY <3>2, <3>3
  <2>q. QED
    BY <2>1, <2>2
<1>4. T \in F
  <2> HIDE DEF F
  <2>q. QED
    BY <1>1, <1>2, <1>3, Searches!FiniteSetInduction DEF IsFiniteSet, Searches!IsFiniteSet
<1>q. QED
  BY <1>4

\* What hears an event lies after what ended with it,
LEMMA HeardWhole ==
    ASSUME doc \in Documents, flow = Compile(doc, WholePlan), NEW n \in StepNodes(doc), NEW ev,
           ev \in flow.listen[n].any \union flow.listen[n].all
    PROVE  <<ev[1], n>> \in Along(doc)
<1>1. PICK i \in FlowEdges(doc) : Dst(doc, i) = n /\ ev = Carried(doc, i)
  BY WholeFlow DEF HearsEdges
<1>2. ev[1] = Src(doc, i)
  BY <1>1 DEF Carried, Event
<1>q. QED
  BY <1>1, <1>2, WholeFlow, AlongFacts

\* also in a whole run.
LEMMA HeardAlong ==
    ASSUME FlowOK, plan = WholePlan, NEW n \in StepNodes(doc), NEW ev,
           ev \in flow.listen[n].any \union flow.listen[n].all
    PROVE  <<ev[1], n>> \in Along(doc)
<1>1. doc \in Documents /\ flow = Compile(doc, WholePlan)
  BY DEF FlowOK
<1>q. QED
  BY <1>1, HeardWhole

\* What an event triggers hears it, and lies after what ended with it,
LEMMA TriggeredWhole ==
    ASSUME doc \in Documents, flow = Compile(doc, WholePlan), NEW eng, NEW ev, NEW n \in Triggered(eng, ev)
    PROVE  /\ n \in StepNodes(doc) /\ n \in Hearing(eng, ev) /\ <<ev[1], n>> \in Along(doc)
           /\ ev \in flow.listen[n].any \union flow.listen[n].all
<1>1. n \in StepNodes(doc) /\ n \in Hearing(eng, ev) /\ ev \in flow.listen[n].any \union flow.listen[n].all
  BY WholeFlow DEF Triggered, Complete, Hearing
<1>q. QED
  BY <1>1, HeardWhole

\* also in a whole run.
LEMMA TriggeredAlong ==
    ASSUME FlowOK, plan = WholePlan, NEW eng, NEW ev, NEW n \in Triggered(eng, ev)
    PROVE  /\ n \in StepNodes(doc) /\ n \in Hearing(eng, ev) /\ <<ev[1], n>> \in Along(doc)
           /\ ev \in flow.listen[n].any \union flow.listen[n].all
<1>1. doc \in Documents /\ flow = Compile(doc, WholePlan)
  BY DEF FlowOK
<1>q. QED
  BY <1>1, TriggeredWhole

\* What a join holds after an event.
LEMMA ArrivedFacts ==
    ASSUME NEW eng, NEW e, NEW ev, NEW t, Emission(eng, e, ev, t), NEW n \in StepNodes(doc)
    PROVE  /\ n \in Complete(eng, ev) => t.arrived[n] = {}
           /\ n \notin Complete(eng, ev) /\ n \in Hearing(eng, ev) /\ ev \in flow.listen[n].all =>
                 t.arrived[n] = eng.arrived[n] \union {ev}
           /\ ev \notin flow.listen[n].all \/ n \notin Hearing(eng, ev) => t.arrived[n] = eng.arrived[n]
<1>1. t.arrived[n] = IF n \in Complete(eng, ev) THEN {}
                     ELSE eng.arrived[n] \union
                             (IF n \in Hearing(eng, ev) THEN {ev} \intersect flow.listen[n].all ELSE {})
  BY DEF Emission
<1>2. n \in Complete(eng, ev) => ev \in flow.listen[n].all /\ n \in Hearing(eng, ev)
  BY DEF Complete
<1>q. QED
  BY <1>1, <1>2

\* The engine after a pause stays empty-handed.
LEMMA ResumedEmission ==
    ASSUME FlowOK, plan = WholePlan, doc.joins = <<>>, NEW eng, Resumed(doc, eng), NEW e, NEW ev,
           ev[1] \notin Sure(doc), NEW t, Emission(eng, e, ev, t)
    PROVE  Resumed(doc, t)
<1>0. IsDocument(doc) /\ Publishable(doc)
  BY WholeFacts
<1>1. ASSUME NEW f \in t.active PROVE f.method[1] \notin Sure(doc)
  <2>1. PICK new : Calling(new, Triggered(eng, ev) \X {"step"}) /\ t.active \subseteq (eng.active \ {e}) \union new
    BY DEF Emission
  <2>2. CASE f \in eng.active
    BY <2>2 DEF Resumed
  <2>3. CASE f \in new
    <3>1. f.method[1] \in Triggered(eng, ev)
      BY <2>1, <2>3 DEF Calling
    <3>2. <<ev[1], f.method[1]>> \in Along(doc)
      BY <3>1, TriggeredAlong
    <3>3. \A x, y : <<x, y>>[1] = x /\ <<x, y>>[2] = y
      OBVIOUS
    <3>q. QED
      BY <1>0, <3>2, <3>3, SureFacts
  <2>q. QED
    BY <2>1, <2>2, <2>3
<1>2. ASSUME NEW n \in StepNodes(doc) PROVE t.arrived[n] = {}
  <2>1. ev \notin flow.listen[n].all
    <3>1. flow.listen[n] = ListenFor(doc, WholePlan, BackEdges(doc), n)
      BY WholeFacts
    <3>q. QED
      BY <1>0, <3>1, JoinedAreSure
  <2>q. QED
    BY <2>1, ArrivedFacts DEF Resumed
<1>q. QED
  BY <1>1, <1>2 DEF Resumed

\* What is before a step that nothing decides about.
LEMMA PredsFacts ==
    ASSUME NEW d, IsDocument(d), Publishable(d)
    PROVE  /\ \A m, n : m \in Preds(d, n) <=> <<m, n>> \in Along(d)
           /\ \A n \in Sure(d) : Preds(d, n) \subseteq Sure(d)
<1>1. \A m, n : <<m, n>>[1] = m /\ <<m, n>>[2] = n
  OBVIOUS
<1>2. \A m, n : <<m, n>> \in Along(d) => m \in Preds(d, n)
  BY <1>1 DEF Preds
<1>3. \A m, n : m \in Preds(d, n) => <<m, n>> \in Along(d)
  BY AlongFacts DEF Preds
<1>4. \A n \in Sure(d) : \A m \in Preds(d, n) : m \in Sure(d)
  <2>1. TAKE n \in Sure(d)
  <2>2. TAKE m \in Preds(d, n)
  <2>3. <<m, n>> \in Along(d)
    BY <1>3, <2>2
  <2>q. QED
    BY <1>1, <2>1, <2>3, SureFacts
<1>q. QED
  BY <1>2, <1>3, <1>4

\* What follows a step that is reached without leaving some step is reached so too.
LEMMA BeforeFacts ==
    ASSUME NEW d, IsDocument(d), Publishable(d), NEW n
    PROVE  /\ OfKind(d, {"input"}) \subseteq Before(d, n)
           /\ \A m, t : m \in Before(d, n) /\ m # n /\ <<m, t>> \in Along(d) => t \in Before(d, n)
<1> DEFINE edges == {i \in FlowEdges(d) : Src(d, i) # n}
<1> DEFINE pairs == {p \in Along(d) : p[1] # n}
<1>1. pairs = Ends(d, edges)
  <2>1. ASSUME NEW p \in pairs PROVE p \in Ends(d, edges)
    <3>1. p = <<p[1], p[2]>> /\ p[1] # n
      BY AlongFacts
    <3>2. PICK i \in FlowEdges(d) : Src(d, i) = p[1] /\ Dst(d, i) = p[2]
      BY AlongFacts
    <3>3. i \in edges
      BY <3>1, <3>2
    <3>q. QED
      BY <3>1, <3>2, <3>3, EdgeIsPair
  <2>2. ASSUME NEW p \in Ends(d, edges) PROVE p \in pairs
    <3>1. PICK i \in edges : p = <<Src(d, i), Dst(d, i)>>
      BY DEF Ends, Src, Dst
    <3>2. p \in Along(d) /\ p[1] = Src(d, i)
      BY <3>1, AlongFacts
    <3>q. QED
      BY <3>1, <3>2
  <2>q. QED
    BY <2>1, <2>2
<1>2. edges \in SUBSET FlowEdges(d) /\ Linked(d) /\ OfKind(d, {"input"}) \in SUBSET Nodes(d)
  BY AlongFacts
<1>3. Before(d, n) = Reachable(OfKind(d, {"input"}), pairs)
  BY DEF Before
<1>4. ASSUME NEW m, NEW t, m \in Before(d, n), m # n, <<m, t>> \in Along(d) PROVE t \in Before(d, n)
  <2>1. <<m, t>> \in pairs
    BY <1>4
  <2> HIDE DEF pairs, edges
  <2>q. QED
    BY <1>1, <1>2, <1>3, <1>4, <2>1, ReachNext
<1>5. OfKind(d, {"input"}) \subseteq Before(d, n)
  <2> HIDE DEF pairs, edges
  <2>q. QED
    BY <1>1, <1>2, <1>3, ReachFacts
<1>q. QED
  BY <1>4, <1>5

\* A start has nothing before it, and only a start has.
LEMMA StartsFacts ==
    ASSUME NEW d, IsDocument(d), Publishable(d), NEW n \in StepNodes(d)
    PROVE  n \in OfKind(d, {"input"}) <=> Preds(d, n) = {}
<1> DEFINE inputs == OfKind(d, {"input"})
<1>1. ASSUME n \in inputs, NEW m \in Preds(d, n) PROVE FALSE
  <2>1. PICK i \in FlowEdges(d) : Dst(d, i) = n
    <3>1. <<m, n>> \in Along(d) /\ <<m, n>>[2] = n
      BY PredsFacts
    <3>q. QED
      BY <3>1, AlongFacts
  <2>q. QED
    BY <1>1, <2>1, EdgeFacts DEF OfKind, KindOf
<1>2. ASSUME n \notin inputs, Preds(d, n) = {} PROVE FALSE
  <2> DEFINE C == Nodes(d) \ {n}
  <2>1. Closed(C, Along(d))
    <3>1. ASSUME NEW p \in Along(d) PROVE p[2] \in C
      <4>1. p = <<p[1], p[2]>> /\ p[2] \in Nodes(d)
        BY AlongFacts
      <4>2. p[1] \notin Preds(d, n)
        BY <1>2
      <4>3. p[2] # n
        BY <4>1, <4>2 DEF Preds
      <4>q. QED
        BY <4>1, <4>3
    <3>q. QED
      BY <3>1 DEF Closed
  <2>2. inputs \in SUBSET Nodes(d) /\ inputs \subseteq C /\ Linked(d)
    BY <1>2, AlongFacts
  <2>3. Reachable(inputs, Along(d)) \subseteq C
    <3> HIDE DEF C, inputs
    <3>q. QED
      BY <2>1, <2>2, ReachFacts DEF Along
  <2>4. n \in Reachable(inputs, Along(d))
    BY DEF Publishable, InputsOK, Along
  <2>q. QED
    BY <2>3, <2>4
<1>q. QED
  BY <1>1, <1>2

\* Which of those steps an event triggers: those after the one that ran, once all before
\* them ran.
LEMMA SureTriggers ==
    ASSUME FlowOK, plan = WholePlan, doc.joins = <<>>, NEW n \in StepNodes(doc), NEW u \in Sure(doc),
           NEW eng, NEW e, NEW ev, ev[1] = n, n \in Sure(doc) => ev = <<n, Ran>>,
           NEW ran, NEW ran2,
           n \in Sure(doc) => ran[n] = 0 /\ \A m \in Sure(doc) : ran2[m] = (IF m = n THEN 1 ELSE ran[m]),
           SureNodes(doc, eng, ran), JoinNodes(doc, flow, eng, ran)
    PROVE  u \in Triggered(eng, ev) <=> <<n, u>> \in Along(doc) /\ Ready(doc, ran2, u)
<1> DEFINE l == flow.listen[u]
<1>0. IsDocument(doc) /\ Publishable(doc) /\ u \in StepNodes(doc)
  BY WholeFacts, SureFacts
<1>1. u \in Triggered(eng, ev) => <<n, u>> \in Along(doc)
  BY TriggeredAlong
<1>2. <<n, u>> \in Along(doc) => n \in Preds(doc, u) /\ n \in Sure(doc)
  BY <1>0, PredsFacts
<1>3. SUFFICES ASSUME <<n, u>> \in Along(doc), n \in Sure(doc), ev = <<n, Ran>>
               PROVE  u \in Triggered(eng, ev) <=> Ready(doc, ran2, u)
  BY <1>1, <1>2
<1>4. l = ListenFor(doc, WholePlan, BackEdges(doc), u) /\ HearsEdges(doc, u, l)
  BY <1>0, WholeFacts
<1>5. /\ ~IsMultiEventOr(l) /\ (l.all # {} => l.any = {})
      /\ l.all = {} => \A p, q \in Along(doc) : p[2] = u /\ q[2] = u => p[1] = q[1]
  BY <1>0, <1>4, SureListens
<1>6. ~Once(u)
  BY <1>0, <1>5, WholeFacts
<1>7. \A m \in Preds(doc, u) : m \in Sure(doc) /\ ~IsRouted(doc, m) /\ <<m, Ran>> \in l.any \union l.all
  <2>1. TAKE m \in Preds(doc, u)
  <2>2. m \in Sure(doc) /\ ~IsRouted(doc, m) /\ m \in StepNodes(doc)
    BY <1>0, PredsFacts, SureFacts
  <2>3. PICK i \in FlowEdges(doc) : Src(doc, i) = m /\ Dst(doc, i) = u
    <3>1. <<m, u>> \in Along(doc) /\ <<m, u>>[1] = m /\ <<m, u>>[2] = u
      BY <1>0, PredsFacts
    <3>q. QED
      BY <1>0, <3>1, AlongFacts
  <2>4. Carried(doc, i) = <<m, Ran>>
    BY <1>0, <2>2, <2>3, EdgeFacts, EventFacts DEF Carried
  <2>5. Carried(doc, i) \in l.any \union l.all
    BY <1>4, <2>3 DEF HearsEdges
  <2>q. QED
    BY <2>2, <2>4, <2>5
<1>8. ev \in l.any \union l.all
  BY <1>2, <1>3, <1>7
<1>9. u \in Hearing(eng, ev)
  BY <1>0, <1>6, <1>8, WholeFacts DEF Hearing, Names, Hears
<1> HIDE DEF l
<1>10. CASE l.all = {}
  <2>1. u \in Triggered(eng, ev)
    BY <1>8, <1>9, <1>10 DEF Triggered, l
  <2>2. \A m \in Preds(doc, u) : m = n
    <3>1. TAKE m \in Preds(doc, u)
    <3>2. <<m, u>> \in Along(doc) /\ <<m, u>>[1] = m /\ <<m, u>>[2] = u /\ <<n, u>>[1] = n /\ <<n, u>>[2] = u
      BY <1>0, PredsFacts
    <3>q. QED
      BY <1>3, <1>5, <1>10, <3>2
  <2>3. Ready(doc, ran2, u)
    BY <1>3, <2>2 DEF Ready
  <2>q. QED
    BY <2>1, <2>3
<1>11. CASE l.all # {}
  <2>1. ev \in l.all /\ l.any = {}
    BY <1>5, <1>8, <1>11
  <2>2. \A w \in l.all : w = <<w[1], Ran>> /\ w[1] \in Preds(doc, u) /\ w[1] \in Sure(doc)
    <3>1. TAKE w \in l.all
    <3>2. w[1] \in Sure(doc) /\ w = <<w[1], Ran>> /\ <<w[1], u>> \in Along(doc)
      BY <1>0, <1>4, <3>1, JoinedAreSure
    <3>q. QED
      BY <1>0, <3>2, PredsFacts
  <2>3. Waits(flow, ran, u)
    BY <1>3, <2>1 DEF Waits, l
  <2>4. eng.arrived[u] = {w \in l.all : ran[w[1]] # 0}
    BY <1>0, <1>11, <2>3 DEF JoinNodes, l
  <2>5. u \in Triggered(eng, ev) <=> eng.arrived[u] \union {ev} = l.all
    BY <1>9, <2>1 DEF Triggered, Complete, l
  <2>6. eng.arrived[u] \union {ev} = l.all <=> \A w \in l.all : ran[w[1]] # 0 \/ w = ev
    BY <2>1, <2>4
  <2>7. \A w \in l.all : (ran[w[1]] # 0 \/ w = ev) <=> ran2[w[1]] = 1
    <3>1. TAKE w \in l.all
    <3>2. w[1] = n <=> w = ev
      BY <1>3, <2>2
    <3>3. ran[w[1]] \in {0, 1}
      BY <2>2 DEF SureNodes
    <3>q. QED
      BY <1>3, <2>2, <3>2, <3>3
  <2>8. (\A w \in l.all : ran2[w[1]] = 1) <=> Ready(doc, ran2, u)
    <3>1. \A m \in Preds(doc, u) : \E w \in l.all : w[1] = m
      <4>1. TAKE m \in Preds(doc, u)
      <4>2. <<m, Ran>> \in l.all /\ <<m, Ran>>[1] = m
        BY <1>7, <2>1
      <4>q. QED
        BY <4>2
    <3>q. QED
      BY <2>2, <3>1 DEF Ready
  <2>q. QED
    BY <2>5, <2>6, <2>7, <2>8
<1>q. QED
  BY <1>10, <1>11

\* What an event makes of the engine before the first pause.
LEMMA FrontEmission ==
    ASSUME FlowOK, plan = WholePlan, doc.joins = <<>>, LoopsReturn,
           NEW n \in StepNodes(doc), NEW eng, NEW e \in eng.active, e.method[1] = n,
           NEW ev, ev[1] = n, n \in Sure(doc) => ev = <<n, Ran>>,
           NEW ran, NEW ran2,
           \A m \in Sure(doc) : ran2[m] = (IF m = n THEN ran[m] + 1 ELSE ran[m]),
           SureNodes(doc, eng, ran), JoinNodes(doc, flow, eng, ran),
           NEW t, Emission(eng, e, ev, t), ~t.lost
    PROVE  SureNodes(doc, t, ran2) /\ JoinNodes(doc, flow, t, ran2)
<1>0. IsDocument(doc) /\ Publishable(doc)
  BY WholeFacts
<1>1. n \in Sure(doc) => ran[n] = 0 /\ Ready(doc, ran, n) /\ \A f \in eng.active : f.method[1] = n => f = e
  BY DEF SureNodes
<1>2. n \in Sure(doc) => \A m \in Sure(doc) : ran2[m] = (IF m = n THEN 1 ELSE ran[m])
  BY <1>1
<1>3. n \notin Sure(doc) => \A m \in Sure(doc) : ran2[m] = ran[m]
  OBVIOUS
<1>4. PICK new : /\ Calling(new, Triggered(eng, ev) \X {"step"})
                 /\ t.active = (eng.active \ {e}) \union new
  BY DEF Emission
<1>5. \A f \in new : f.method[1] \in Triggered(eng, ev)
  BY <1>4 DEF Calling
<1>6. \A m \in Triggered(eng, ev) : \E f \in new : f.method[1] = m
  <2>1. TAKE m \in Triggered(eng, ev)
  <2>2. <<m, "step">> \in Triggered(eng, ev) \X {"step"} /\ <<m, "step">>[1] = m
    OBVIOUS
  <2>3. PICK f \in new : f.method = <<m, "step">>
    BY <1>4, <2>2 DEF Calling
  <2>q. QED
    BY <2>2, <2>3
<1>7. \A f, g \in new : f.method[1] = g.method[1] => f = g
  <2>1. \A f \in new : f.method = <<f.method[1], "step">>
    BY <1>4 DEF Calling
  <2>q. QED
    BY <1>4, <2>1 DEF Calling
<1>8. \A u \in Sure(doc) : u \in Triggered(eng, ev) <=> <<n, u>> \in Along(doc) /\ Ready(doc, ran2, u)
  BY <1>1, <1>2, SureTriggers
<1>9. ASSUME NEW u \in Sure(doc)
      PROVE  /\ ran2[u] \in {0, 1}
             /\ ran2[u] = 1 => Ready(doc, ran2, u)
             /\ Ready(doc, ran2, u) /\ ran2[u] = 0 <=> \E f \in t.active : f.method[1] = u
             /\ \A f, g \in t.active : f.method[1] = u /\ g.method[1] = u => f = g
  <2>0. /\ ran[u] \in {0, 1}
        /\ ran[u] = 1 => Ready(doc, ran, u)
        /\ Ready(doc, ran, u) /\ ran[u] = 0 <=> \E f \in eng.active : f.method[1] = u
        /\ \A f, g \in eng.active : f.method[1] = u /\ g.method[1] = u => f = g
    BY DEF SureNodes
  <2>1. n \notin Preds(doc, u) => (Ready(doc, ran2, u) <=> Ready(doc, ran, u))
    <3>1. HAVE n \notin Preds(doc, u)
    <3>2. \A m \in Preds(doc, u) : m \in Sure(doc) /\ m # n
      BY <1>0, <3>1, PredsFacts
    <3>3. \A m \in Preds(doc, u) : ran2[m] = ran[m]
      BY <3>2
    <3>q. QED
      BY <3>3 DEF Ready
  <2>2. n \in Preds(doc, u) <=> <<n, u>> \in Along(doc)
    BY <1>0, PredsFacts
  <2>3. CASE u = n
    <3>1. ran[n] = 0 /\ Ready(doc, ran, n) /\ ran2[n] = 1
      BY <1>1, <1>2, <2>3
    <3>2. n \notin Preds(doc, n)
      BY <3>1 DEF Ready
    <3>3. u \notin Triggered(eng, ev)
      BY <1>8, <2>2, <2>3, <3>2
    <3>4. \A f \in t.active : f.method[1] # u
      BY <1>1, <1>4, <1>5, <2>3, <3>3
    <3>q. QED
      BY <2>1, <2>3, <3>1, <3>2, <3>4
  <2>4. CASE u # n /\ n \notin Preds(doc, u)
    <3>1. ran2[u] = ran[u] /\ u \notin Triggered(eng, ev)
      BY <1>8, <2>2, <2>4
    <3>2. \A f : f.method[1] = u => (f \in t.active <=> f \in eng.active)
      BY <1>4, <1>5, <2>4, <3>1
    <3>q. QED
      BY <2>0, <2>1, <2>4, <3>1, <3>2
  <2>5. CASE u # n /\ n \in Preds(doc, u)
    <3>1. n \in Sure(doc) /\ ran[n] = 0
      BY <1>0, <1>1, <2>5, PredsFacts
    <3>2. ~Ready(doc, ran, u)
      BY <2>5, <3>1 DEF Ready
    <3>3. ran[u] = 0 /\ ran2[u] = 0 /\ \A f \in eng.active : f.method[1] # u
      BY <2>0, <2>5, <3>2
    <3>4. \A f \in t.active : f.method[1] = u => f \in new
      BY <1>4, <3>3
    <3>5. (\E f \in t.active : f.method[1] = u) <=> u \in Triggered(eng, ev)
      BY <1>4, <1>5, <1>6, <3>4
    <3>q. QED
      BY <1>7, <1>8, <2>2, <2>5, <3>3, <3>4, <3>5
  <2>q. QED
    BY <2>3, <2>4, <2>5
<1>10. ASSUME NEW m \in StepNodes(doc), flow.listen[m].all # {}
       PROVE  /\ Waits(flow, ran2, m) =>
                    /\ t.arrived[m] = {w \in flow.listen[m].all : ran2[w[1]] # 0}
                    /\ m \notin t.fired
                    /\ \A f \in t.active : f.method[1] # m /\ f.method[1] \in Before(doc, m)
              /\ ~Waits(flow, ran2, m) => t.arrived[m] = {}
  <2> DEFINE all == flow.listen[m].all
  <2>0. /\ Waits(flow, ran, m) =>
              /\ eng.arrived[m] = {w \in all : ran[w[1]] # 0}
              /\ m \notin eng.fired
              /\ \A f \in eng.active : f.method[1] # m /\ f.method[1] \in Before(doc, m)
        /\ ~Waits(flow, ran, m) => eng.arrived[m] = {}
    BY <1>10 DEF JoinNodes
  <2>1. flow.listen[m] = ListenFor(doc, WholePlan, BackEdges(doc), m) /\ HearsEdges(doc, m, flow.listen[m])
    BY WholeFacts
  <2>2. \A w \in all : w[1] \in Sure(doc) /\ w = <<w[1], Ran>>
    <3>1. TAKE w \in all
    <3>2. w \in ListenFor(doc, WholePlan, BackEdges(doc), m).all
      BY <2>1
    <3>q. QED
      BY <1>0, <3>2, JoinedAreSure
  <2>3. \A w \in all : w # ev => w[1] # n /\ ran2[w[1]] = ran[w[1]]
    BY <2>2
  <2>4. ev \in all => n \in Sure(doc) /\ ran[n] = 0 /\ ran2[n] = 1
    BY <1>1, <1>2, <2>2
  \* While the join waits, no loop hears it.
  <2>5. Waits(flow, ran, m) => ev \notin flow.listen[m].any
    <3>1. SUFFICES ASSUME Waits(flow, ran, m), ev \in flow.listen[m].any PROVE FALSE
      OBVIOUS
    <3>2. PICK i \in BackEdges(doc) : Dst(doc, i) = m /\ ev = Carried(doc, i)
      BY <1>10, <2>1, <3>1 DEF HearsEdges
    <3>3. Src(doc, i) = n
      BY <3>2 DEF Carried, Event
    <3>4. n # m /\ n \in Before(doc, m)
      BY <2>0, <3>1
    <3>5. m \in flow.steps /\ i \in flow.back
      BY <3>2, WholeFacts
    <3>q. QED
      BY <1>10, <3>2, <3>3, <3>4, <3>5 DEF LoopsReturn, Before, Along, Src, Dst
  \* What it triggers while the join waits is before the join too.
  <2>6. Waits(flow, ran, m) => \A f \in t.active : f.method[1] \in Before(doc, m)
    <3>1. SUFFICES ASSUME Waits(flow, ran, m), NEW f \in new PROVE f.method[1] \in Before(doc, m)
      BY <1>4, <2>0
    <3>2. <<n, f.method[1]>> \in Along(doc)
      BY <1>5, TriggeredAlong
    <3>q. QED
      BY <1>0, <2>0, <3>1, <3>2, BeforeFacts
  <2>7. Waits(flow, ran, m) /\ m \notin Complete(eng, ev) =>
           m \notin Triggered(eng, ev) /\ m \notin t.fired /\ \A f \in t.active : f.method[1] # m
    <3>1. HAVE Waits(flow, ran, m) /\ m \notin Complete(eng, ev)
    <3>2. m \notin Triggered(eng, ev)
      BY <2>5, <3>1 DEF Triggered
    <3>3. m \notin t.fired
      <4>1. t.fired \subseteq Armed(eng, ev) \union {x \in Triggered(eng, ev) : Once(x)}
        BY DEF Emission
      <4>2. m \notin Armed(eng, ev)
        BY <2>0, <3>1 DEF Armed
      <4>q. QED
        BY <3>2, <4>1, <4>2
    <3>q. QED
      BY <1>4, <1>5, <2>0, <3>1, <3>2, <3>3
  <2> HIDE DEF all
  <2>8. CASE ev \notin all
    <3>1. Waits(flow, ran2, m) <=> Waits(flow, ran, m)
      BY <2>3, <2>8 DEF Waits, all
    <3>2. t.arrived[m] = eng.arrived[m] /\ m \notin Complete(eng, ev)
      BY <2>8, ArrivedFacts DEF Complete, all
    <3>3. {w \in all : ran2[w[1]] # 0} = {w \in all : ran[w[1]] # 0}
      BY <2>3, <2>8
    <3>q. QED
      BY <2>0, <2>6, <2>7, <3>1, <3>2, <3>3 DEF all
  <2>9. CASE ev \in all
    <3>1. Waits(flow, ran, m)
      BY <2>4, <2>9 DEF Waits, all
    <3>2. m \in Hearing(eng, ev)
      BY <2>0, <2>9, <3>1, WholeFacts DEF Hearing, Armed, Names, Hears, all
    <3>3. {w \in all : ran2[w[1]] # 0} = eng.arrived[m] \union {ev}
      <4>1. \A w \in all : ran2[w[1]] # 0 <=> ran[w[1]] # 0 \/ w = ev
        BY <2>3, <2>4, <2>9
      <4>q. QED
        BY <2>0, <2>9, <3>1, <4>1
    <3>4. Waits(flow, ran2, m) <=> eng.arrived[m] \union {ev} # all
      BY <3>3 DEF Waits, all
    <3>5. m \in Complete(eng, ev) <=> eng.arrived[m] \union {ev} = all
      BY <2>9, <3>2 DEF Complete, all
    <3>q. QED
      BY <2>6, <2>7, <2>9, <3>1, <3>2, <3>3, <3>4, <3>5, ArrivedFacts DEF all
  <2>q. QED
    BY <2>8, <2>9
<1>q. QED
  BY <1>9, <1>10 DEF SureNodes, JoinNodes

\* Where a run starts.
LEMMA FrontStarts ==
    ASSUME FlowOK, plan = WholePlan, doc.joins = <<>>, NEW t, t = NewEngine(Starts),
           NEW ran, ran = [n \in StepNodes(doc) |-> 0]
    PROVE  SureNodes(doc, t, ran) /\ JoinNodes(doc, flow, t, ran)
<1> DEFINE inputs == OfKind(doc, {"input"})
<1>0. IsDocument(doc) /\ Publishable(doc)
  BY WholeFacts
<1>1. Calling(t.active, Starts) /\ t.fired = {} /\ t.arrived = [n \in StepNodes(doc) |-> {}]
  BY NewEngineEffects
<1>2. \A f \in t.active : f.method = <<f.method[1], "step">> /\ f.method[1] \in inputs
  <2>1. TAKE f \in t.active
  <2>2. f.method \in Starts
    BY <1>1 DEF Calling
  <2>3. \A S : \A m \in S \X {"step"} : m = <<m[1], "step">> /\ m[1] \in S
    OBVIOUS
  <2>q. QED
    BY <2>2, <2>3 DEF Starts
<1>3. \A n \in inputs : \E f \in t.active : f.method[1] = n
  <2>1. TAKE n \in inputs
  <2>2. <<n, "step">> \in Starts /\ <<n, "step">>[1] = n
    BY DEF Starts
  <2>3. PICK f \in t.active : f.method = <<n, "step">>
    BY <1>1, <2>2 DEF Calling
  <2>q. QED
    BY <2>2, <2>3
<1>4. \A f, g \in t.active : f.method[1] = g.method[1] => f = g
  BY <1>1, <1>2 DEF Calling
<1> HIDE DEF inputs
<1>5. ASSUME NEW u \in Sure(doc)
      PROVE  /\ ran[u] \in {0, 1}
             /\ ran[u] = 1 => Ready(doc, ran, u)
             /\ Ready(doc, ran, u) /\ ran[u] = 0 <=> \E f \in t.active : f.method[1] = u
             /\ \A f, g \in t.active : f.method[1] = u /\ g.method[1] = u => f = g
  <2>1. ran[u] = 0 /\ u \in StepNodes(doc)
    BY <1>0, SureFacts
  <2>2. Ready(doc, ran, u) <=> Preds(doc, u) = {}
    <3>1. \A m \in Preds(doc, u) : ran[m] = 0
      BY <1>0, PredsFacts, SureFacts
    <3>q. QED
      BY <3>1 DEF Ready
  <2>3. u \in inputs <=> Preds(doc, u) = {}
    BY <1>0, <2>1, StartsFacts DEF inputs
  <2>q. QED
    BY <1>2, <1>3, <1>4, <2>1, <2>2, <2>3
<1>6. ASSUME NEW m \in StepNodes(doc), flow.listen[m].all # {}
      PROVE  /\ Waits(flow, ran, m) /\ t.arrived[m] = {w \in flow.listen[m].all : ran[w[1]] # 0}
             /\ m \notin t.fired
             /\ \A f \in t.active : f.method[1] # m /\ f.method[1] \in Before(doc, m)
  <2>1. \A w \in flow.listen[m].all : <<w[1], m>> \in Along(doc)
    BY HeardAlong
  <2>2. \A w \in flow.listen[m].all : w[1] \in StepNodes(doc) /\ w[1] \in Preds(doc, m)
    BY <1>0, <2>1, PredsFacts, AlongFacts
  <2>3. m \notin inputs
    BY <1>0, <1>6, <2>2, StartsFacts DEF inputs
  <2>4. \A w \in flow.listen[m].all : ran[w[1]] = 0
    BY <2>2
  <2>5. Waits(flow, ran, m) /\ {w \in flow.listen[m].all : ran[w[1]] # 0} = {}
    BY <1>6, <2>4 DEF Waits
  <2>q. QED
    BY <1>0, <1>1, <1>2, <2>3, <2>5, BeforeFacts DEF inputs
<1>q. QED
  BY <1>5, <1>6 DEF SureNodes, JoinNodes

\* When nothing is under way any more, all of those steps ran, and no join waits.
LEMMA JoinsEnd ==
    ASSUME FlowOK, plan = WholePlan, doc.joins = <<>>, NEW eng, eng.active = {}, NEW ran,
           SureNodes(doc, eng, ran), JoinNodes(doc, flow, eng, ran),
           \A n \in StepNodes(doc) : eng.arrived[n] \subseteq flow.listen[n].all
    PROVE  \A n \in StepNodes(doc) : eng.arrived[n] = {}
<1>0. IsDocument(doc) /\ Publishable(doc) /\ Linked(doc)
  BY WholeFacts
<1>1. PICK rank \in [Nodes(doc) -> Nat] :
         \A i \in FlowEdges(doc) \ BackEdges(doc) : rank[Dst(doc, i)] < rank[Src(doc, i)]
  BY <1>0, FinishOrder
<1> DEFINE U == {u \in Sure(doc) : ran[u] # 1}
<1>2. U = {}
  <2>1. SUFFICES ASSUME U # {} PROVE FALSE
    OBVIOUS
  <2>2. U \in SUBSET Nodes(doc) /\ IsFiniteSet(Nodes(doc))
    BY <1>0, SureFacts, AlongFacts DEF Linked
  <2>3. PICK u \in U : \A v \in U : rank[v] <= rank[u]
    <3> HIDE DEF U
    <3>q. QED
      BY <1>1, <2>1, <2>2, TopOf
  <2>4. ASSUME NEW m \in Preds(doc, u) PROVE ran[m] = 1
    <3>1. <<m, u>> \in Along(doc) /\ m \in Sure(doc) /\ <<m, u>>[1] = m /\ <<m, u>>[2] = u
      BY <1>0, PredsFacts
    <3>2. PICK i \in FlowEdges(doc) : Src(doc, i) = m /\ Dst(doc, i) = u
      BY <1>0, <3>1, AlongFacts
    <3>3. i \notin BackEdges(doc)
      BY <1>0, <3>2, SureFacts
    <3>4. rank[u] < rank[m]
      BY <1>1, <3>2, <3>3
    <3>5. rank[u] \in Nat /\ rank[m] \in Nat
      BY <1>0, <2>2, <3>1, SureFacts, AlongFacts
    <3>q. QED
      BY <2>3, <3>1, <3>4, <3>5
  <2>5. Ready(doc, ran, u)
    BY <2>4 DEF Ready
  <2>q. QED
    BY <2>5 DEF SureNodes
<1>3. ASSUME NEW n \in StepNodes(doc), flow.listen[n].all # {} PROVE eng.arrived[n] = {}
  <2>1. flow.listen[n] = ListenFor(doc, WholePlan, BackEdges(doc), n)
    BY WholeFacts
  <2>2. \A w \in flow.listen[n].all : ran[w[1]] = 1
    BY <1>0, <1>2, <2>1, JoinedAreSure
  <2>3. ~Waits(flow, ran, n)
    BY <2>2 DEF Waits
  <2>q. QED
    BY <1>3, <2>3 DEF JoinNodes
<1>q. QED
  BY <1>3

\* The properties of the document are kept.
LEMMA LoopsReturnStays == ASSUME UNCHANGED <<doc, flow>> PROVE LoopsReturn' <=> LoopsReturn
  BY DEF LoopsReturn

\* An event that a node ends with is its own, and it is no label if nothing is chosen.
LEMMA EndsFacts ==
    ASSUME RunOK, plan = WholePlan, NEW n \in StepNodes(doc), NEW ev, Ends1(n, ev)
    PROVE  /\ ev[1] = n /\ (n \in Sure(doc) => ev = <<n, Ran>>)
           /\ (ev[2] = Ran) = ~IsRouted(doc, n)
           /\ KindOf(doc, n) # "output" => \E port \in OutPorts(doc, n) : ev = Event(doc, n, port)
<1>0. IsDocument(doc) /\ Publishable(doc)
  BY WholeFacts DEF RunOK
<1>1. CASE KindOf(doc, n) = "output" /\ ev = <<n, Ran>>
  <2>1. ~IsRouted(doc, n)
    BY <1>0, <1>1 DEF IsRouted, RoutingKinds, RoutesErrors, IsDocument, OfKind, KindOf, BillableKinds
  <2>q. QED
    BY <1>1, <2>1
<1>2. CASE \E port \in OutPorts(doc, n) : ev = Event(doc, n, port)
  BY <1>0, <1>2, EventFacts, SureFacts
<1>q. QED
  BY <1>1, <1>2 DEF Ends1

\* An error router chooses, so it and its step half are none of those steps.
LEMMA RoutedIsNotSure ==
    ASSUME RunOK, plan = WholePlan, NEW n \in StepNodes(doc), IsRouted(doc, n)
    PROVE  n \notin Sure(doc)
  BY WholeFacts, SureFacts DEF RunOK

\* What a step that was noted adds to the runs of those steps.
LEMMA NotedRuns ==
    ASSUME RunOK, Counts, plan = WholePlan, NEW n \in StepNodes(doc), Notes(n)
    PROVE  \A m \in StepNodes(doc) : log'.ran[m] = (IF m = n THEN log.ran[m] + 1 ELSE log.ran[m])
  BY DEF Notes, Counts

\* Every step of a whole run leaves the joins where they should be.
LEMMA JoinsNext ==
    ASSUME RunOK, Counts, JoinsOK, [Next]_vars
    PROVE  JoinsOK'
<1>1. SUFFICES ASSUME plan' = WholePlan, doc'.joins = <<>>
               PROVE  /\ phase' = "completed" => engine'.active = {}
                      /\ phase' \in {"running", "paused", "completed"} /\ log'.answers > 0 => Resumed(doc', engine')
                      /\ phase' \in {"running", "completed"} /\ log'.answers = 0 /\ LoopsReturn' /\ ~engine'.lost =>
                            SureNodes(doc', engine', log'.ran) /\ JoinNodes(doc', flow', engine', log'.ran)
  BY DEF JoinsOK
<1>2. plan = WholePlan /\ WholeStep /\ UNCHANGED <<doc, plan, flow>> /\ doc.joins = <<>>
  BY <1>1, PlanStays, WholeSteps, WholeStepKeeps DEF Counts
<1>3. LoopsReturn' <=> LoopsReturn
  BY <1>2, LoopsReturnStays
<1>4. FlowOK /\ IsDocument(doc) /\ Publishable(doc) /\ log.answers \in Nat
  BY <1>2, WholeFacts, DocumentsAssumption DEF RunOK, LogOK
<1>5. /\ phase = "completed" => engine.active = {}
      /\ phase \in {"running", "paused", "completed"} /\ log.answers > 0 => Resumed(doc, engine)
      /\ phase \in {"running", "completed"} /\ log.answers = 0 /\ LoopsReturn /\ ~engine.lost =>
            SureNodes(doc, engine, log.ran) /\ JoinNodes(doc, flow, engine, log.ran)
  BY <1>2 DEF JoinsOK
<1> DEFINE Kept ==
       /\ phase' = "completed" => engine'.active = {}
       /\ phase' \in {"running", "paused", "completed"} /\ log'.answers > 0 => Resumed(doc, engine')
       /\ phase' \in {"running", "completed"} /\ log'.answers = 0 /\ LoopsReturn /\ ~engine'.lost =>
             SureNodes(doc, engine', log'.ran) /\ JoinNodes(doc, flow, engine', log'.ran)
<1>6. CASE Rests
  <2>1. engine' = engine /\ log' = log
    BY <1>6 DEF Rests
  <2>2. phase' = "completed" => phase = "completed" \/ (phase = "running" /\ engine.active = {})
    BY <1>6 DEF Rests
  <2>3. phase' \in {"running", "paused"} => phase' = phase
    BY <1>6 DEF Rests
  <2>q. QED
    BY <1>2, <1>3, <1>5, <2>1, <2>2, <2>3
<1>7. CASE Sets
  <2>1. phase = "published" /\ phase' = "running" /\ engine' = NewEngine(Starts) /\ log' = log
    BY <1>7 DEF Sets
  <2>2. log.answers = 0 /\ log.ran = [n \in StepNodes(doc) |-> 0]
    BY <1>2, <2>1 DEF Counts, NoLog
  <2>3. SureNodes(doc, engine', log.ran) /\ JoinNodes(doc, flow, engine', log.ran)
    BY <1>2, <1>4, <2>1, <2>2, FrontStarts
  <2>q. QED
    BY <1>2, <2>1, <2>2, <2>3
<1>8. ASSUME NEW n \in StepNodes(doc), Stops(n) PROVE Kept
  <2>1. /\ phase = "running" /\ phase' \in {"failed", "paused"} /\ log'.answers = log.answers
        /\ engine'.active \subseteq engine.active /\ engine'.fired = engine.fired
        /\ engine'.arrived = engine.arrived
    BY <1>2, <1>8, StopsFacts
  <2>2. Resumed(doc, engine) => Resumed(doc, engine')
    BY <2>1 DEF Resumed
  <2>q. QED
    BY <1>5, <2>1, <2>2
<1>9. ASSUME NEW n \in StepNodes(doc), Emits(n) PROVE Kept
  <2>0. phase = "running" /\ log'.answers = log.answers /\ (phase' # "failed" => phase' = "running")
    BY <1>2, <1>9, EmitsFacts
  <2>1. PICK e, ev, eng :
           /\ e \in engine.active /\ eng.active = engine.active /\ eng.calls = engine.calls /\ eng.done = engine.done
           /\ eng.arrived = engine.arrived /\ eng.lost = engine.lost
           /\ eng.fired = (IF IsRouted(doc, n) THEN engine.fired \ flow.rearm[n] ELSE engine.fired)
           /\ Emission(eng, e, ev, engine') /\ Ends1(n, ev)
           /\ \/ e.method = <<n, "step">> /\ ~RoutesErrors(doc, n) /\ Notes(n)
              \/ e.method = <<n, "route">> /\ RoutesErrors(doc, n) /\ log' = log
    BY <1>2, <1>9, EmitsFacts
  <2>2. ev[1] = n /\ (n \in Sure(doc) => ev = <<n, Ran>>) /\ e.method[1] = n
    BY <1>2, <2>1, EndsFacts
  <2>3. log.answers > 0 /\ phase' # "failed" => Resumed(doc, engine')
    <3>1. HAVE log.answers > 0 /\ phase' # "failed"
    <3>2. Resumed(doc, engine)
      BY <1>5, <2>0, <3>1
    <3>3. Resumed(doc, eng) /\ n \notin Sure(doc)
      BY <2>1, <2>2, <3>2 DEF Resumed
    <3>q. QED
      BY <1>2, <1>4, <2>1, <2>2, <3>3, ResumedEmission
  <2>4. log.answers = 0 /\ LoopsReturn /\ ~engine'.lost =>
           SureNodes(doc, engine', log'.ran) /\ JoinNodes(doc, flow, engine', log'.ran)
    <3>1. HAVE log.answers = 0 /\ LoopsReturn /\ ~engine'.lost
    <3>2. ~eng.lost
      BY <2>1, <3>1 DEF Emission
    <3>3. SureNodes(doc, engine, log.ran) /\ JoinNodes(doc, flow, engine, log.ran)
      BY <1>5, <2>0, <2>1, <3>1, <3>2
    <3>4. SureNodes(doc, eng, log.ran)
      BY <2>1, <3>3 DEF SureNodes
    <3>5. JoinNodes(doc, flow, eng, log.ran)
      BY <2>1, <3>3 DEF JoinNodes
    <3>6. \A m \in Sure(doc) : log'.ran[m] = (IF m = n THEN log.ran[m] + 1 ELSE log.ran[m])
      <4>1. CASE RoutesErrors(doc, n) /\ log' = log
        <5>1. n \notin Sure(doc)
          BY <1>2, <4>1, RoutedIsNotSure DEF IsRouted
        <5>q. QED
          BY <4>1, <5>1
      <4>2. CASE Notes(n)
        BY <1>2, <1>4, <4>2, NotedRuns, SureFacts
      <4>q. QED
        BY <2>1, <4>1, <4>2
    <3>7. e \in eng.active
      BY <2>1
    <3>q. QED
      BY <1>2, <1>4, <2>1, <2>2, <3>1, <3>4, <3>5, <3>6, <3>7, FrontEmission
  <2>q. QED
    BY <1>4, <2>0, <2>3, <2>4
<1>10. ASSUME NEW n \in StepNodes(doc), Pairs(n) PROVE Kept
  <2>0. /\ phase = "running" /\ log'.answers = log.answers /\ (phase' # "failed" => phase' = "running")
        /\ RoutesErrors(doc, n) /\ Notes(n)
    BY <1>2, <1>10, PairsFacts
  <2>1. PICK e \in engine.active : e.method = <<n, "step">> /\ Pairing(n, e, engine, engine')
    BY <1>2, <1>10, PairsFacts
  <2>2. PICK f : f.method = <<n, "route">> /\ engine'.active = (engine.active \ {e}) \union {f}
    BY <2>1 DEF Pairing
  <2>3. engine'.fired \subseteq engine.fired /\ engine'.arrived = engine.arrived /\ engine'.lost = engine.lost
    BY <2>1 DEF Pairing
  <2>4. n \notin Sure(doc) /\ e.method[1] = n /\ f.method[1] = n
    BY <1>2, <2>0, <2>1, <2>2, RoutedIsNotSure DEF IsRouted
  <2>5. Resumed(doc, engine) => Resumed(doc, engine')
    BY <2>2, <2>3, <2>4 DEF Resumed
  <2>6. \A m \in Sure(doc) : log'.ran[m] = log.ran[m]
    BY <1>2, <1>4, <2>0, <2>4, NotedRuns, SureFacts
  <2>7. SureNodes(doc, engine, log.ran) => SureNodes(doc, engine', log'.ran)
    <3>1. HAVE SureNodes(doc, engine, log.ran)
    <3>2. \A u \in Sure(doc) : Ready(doc, log'.ran, u) <=> Ready(doc, log.ran, u)
      BY <1>4, <2>6, PredsFacts DEF Ready
    <3>3. \A u \in Sure(doc) : \A g : g.method[1] = u => (g \in engine'.active <=> g \in engine.active)
      BY <2>2, <2>4
    <3>q. QED
      BY <2>6, <3>1, <3>2, <3>3 DEF SureNodes
  <2>8. JoinNodes(doc, flow, engine, log.ran) => JoinNodes(doc, flow, engine', log'.ran)
    <3>1. HAVE JoinNodes(doc, flow, engine, log.ran)
    <3>2. \A m \in StepNodes(doc) : \A w \in flow.listen[m].all : log'.ran[w[1]] = log.ran[w[1]]
      <4>1. TAKE m \in StepNodes(doc)
      <4>2. flow.listen[m] = ListenFor(doc, WholePlan, BackEdges(doc), m)
        BY <1>2, <1>4, WholeFacts
      <4>3. \A w \in flow.listen[m].all : w[1] \in Sure(doc)
        BY <1>2, <1>4, <4>2, JoinedAreSure
      <4>q. QED
        BY <2>6, <4>3
    <3>3. \A m \in StepNodes(doc) :
             /\ Waits(flow, log'.ran, m) <=> Waits(flow, log.ran, m)
             /\ {w \in flow.listen[m].all : log'.ran[w[1]] # 0} = {w \in flow.listen[m].all : log.ran[w[1]] # 0}
      BY <3>2 DEF Waits
    <3>4. \A g \in engine'.active : \E h \in engine.active : g.method[1] = h.method[1]
      BY <2>2, <2>4
    <3>q. QED
      BY <2>3, <3>1, <3>3, <3>4 DEF JoinNodes
  <2>q. QED
    BY <1>5, <2>0, <2>3, <2>5, <2>7, <2>8
<1>11. ASSUME NEW n \in StepNodes(doc), Resumes(n) PROVE Kept
  <2>1. log'.answers > 0 /\ phase' = "running" /\ KindOf(doc, n) = "gate" /\ \E e : Fresh(n, e, engine')
    BY <1>2, <1>11, ResumesFacts
  <2>2. n \notin Sure(doc)
    BY <1>2, <2>1, RoutedIsNotSure DEF IsRouted, RoutingKinds
  <2>3. Resumed(doc, engine')
    BY <2>1, <2>2 DEF Fresh, Resumed
  <2>q. QED
    BY <2>1, <2>3
<1>13. ASSUME NEW n \in StepNodes(doc), Replies(n) PROVE Kept
  <2>1. log'.answers > 0 /\ (phase' # "failed" => phase' = "running") /\ KindOf(doc, n) = "gate"
    BY <1>2, <1>13, RepliesFacts
  <2>2. PICK honoured \in BOOLEAN : \E e, eng : Fresh(n, e, eng) /\ Emission(eng, e, Reply(n, honoured), engine')
    BY <1>2, <1>13, RepliesFacts
  <2>3. PICK e, eng : Fresh(n, e, eng) /\ Emission(eng, e, Reply(n, honoured), engine')
    BY <2>2
  <2>4. n \notin Sure(doc)
    BY <1>2, <2>1, RoutedIsNotSure DEF IsRouted, RoutingKinds
  <2>5. Resumed(doc, eng)
    BY <2>3, <2>4 DEF Fresh, Resumed
  <2>6. Reply(n, honoured)[1] = n
    BY DEF Reply, Event
  <2>7. Resumed(doc, engine')
    BY <1>2, <1>4, <2>3, <2>4, <2>5, <2>6, ResumedEmission
  <2>q. QED
    BY <2>1, <2>7
<1>12. Kept => /\ phase' = "completed" => engine'.active = {}
               /\ phase' \in {"running", "paused", "completed"} /\ log'.answers > 0 => Resumed(doc', engine')
               /\ phase' \in {"running", "completed"} /\ log'.answers = 0 /\ LoopsReturn' /\ ~engine'.lost =>
                     SureNodes(doc', engine', log'.ran) /\ JoinNodes(doc', flow', engine', log'.ran)
  BY <1>2, <1>3
<1> HIDE DEF Kept
<1>q. QED
  BY <1>2, <1>6, <1>7, <1>8, <1>9, <1>10, <1>11, <1>12, <1>13 DEF WholeStep

\* The joins are where they should be in every state.
LEMMA JoinsHold == Spec => [](RunOK /\ Counts /\ JoinsOK)
<1>1. Init => JoinsOK
  BY DEF Init, JoinsOK
<1>2. RunOK /\ Counts /\ JoinsOK /\ [Next]_vars => JoinsOK'
  BY JoinsNext
<1>q. QED
  BY <1>1, <1>2, RunCounts, PTL DEF Spec

\* In every published document whose loops come back to a join only through it, no join
\* the compiler chose is left waiting when a run returns: whatever was answered, routed,
\* retried or paused, it got all the events it waits for or none of them
\* (compiler.py _is_concurrent_fan_in, _listen_for).
THEOREM JoinsAreAlwaysServed == Spec => []JoinsDoNotStarve
<1>1. RunOK /\ Counts /\ JoinsOK => JoinsDoNotStarve
  <2>1. SUFFICES ASSUME RunOK, JoinsOK, Undeclared, LoopsReturn, NEW n \in StepNodes(doc)
                 PROVE  engine.arrived[n] = {}
    BY DEF JoinsDoNotStarve, JoinsAreServed
  <2>2. /\ phase = "completed" /\ plan = WholePlan /\ doc.joins = <<>> /\ ~engine.lost
        /\ FlowOK /\ log.answers \in Nat
    BY <2>1, DocumentsAssumption DEF Undeclared, RunOK, LogOK
  <2>3. CASE log.answers > 0
    BY <2>1, <2>2, <2>3 DEF JoinsOK, Resumed
  <2>4. CASE log.answers = 0
    <3>1. \A m \in StepNodes(doc) : engine.arrived[m] \subseteq flow.listen[m].all
      BY <2>1, <2>2, WholeFacts DEF RunOK, PhaseOK, EngineOK
    <3>q. QED
      BY <2>1, <2>2, <2>4, <3>1, JoinsEnd DEF JoinsOK
  <2>q. QED
    BY <2>2, <2>3, <2>4
<1>q. QED
  BY <1>1, JoinsHold, PTL

-----------------------------------------------------------------------------
(* Outputs: something always leads on to one.                               *)

\* What a step leads to while the loops it is on are not gone round again, and, behind
\* those loops, in any way.
Cycled(d) == NodesOnCycles(d, BackEdges(d))
LeadsTo(d, n) ==
    Reachable({n}, Onward(d))
        \union UNION {Reachable({m}, Along(d)) : m \in Reachable({n}, Onward(d)) \ Cycled(d)}

\* In some of the steps one is under way, an output ran, or a join got an event.
Shows(d, eng, ran, C) ==
    \/ \E e \in eng.active : e.method[1] \in C
    \/ \E n \in C \intersect OfKind(d, {"output"}) : ran[n] > 0
    \/ \E n \in C \intersect StepNodes(d) : eng.arrived[n] # {}

\* In every whole run that is not at a pause something shows, and behind every listener that fired once and would
\* be passed over.
Delivers ==
    plan = WholePlan /\ EveryPortIsDrawn /\ LoopsNest /\ ~engine.lost /\ phase \in {"running", "completed"} =>
        /\ Shows(doc, engine, log.ran, Nodes(doc))
        /\ \A n \in engine.fired : Shows(doc, engine, log.ran, LeadsTo(doc, n))

\* What a step leads to.
LEMMA LeadsFacts ==
    ASSUME NEW d, IsDocument(d), Publishable(d), NEW n \in Nodes(d)
    PROVE  /\ n \in LeadsTo(d, n) /\ LeadsTo(d, n) \subseteq Reachable({n}, Along(d))
           /\ Reachable({n}, Along(d)) \subseteq Nodes(d)
           /\ \A m, t : m \in LeadsTo(d, n) /\ <<m, t>> \in Onward(d) => t \in LeadsTo(d, n)
           /\ \A m, t : m \in Reachable({n}, Along(d)) /\ <<m, t>> \in Along(d) => t \in Reachable({n}, Along(d))
           /\ n \notin Cycled(d) => LeadsTo(d, n) = Reachable({n}, Along(d))
           /\ \A m \in LeadsTo(d, n) : LeadsTo(d, m) \subseteq LeadsTo(d, n)
<1> DEFINE F(m) == Reachable({m}, Onward(d))
<1> DEFINE A(m) == Reachable({m}, Along(d))
<1> DEFINE edges == FlowEdges(d) \ BackEdges(d)
<1>0. Linked(d) /\ edges \in SUBSET FlowEdges(d) /\ FlowEdges(d) \in SUBSET FlowEdges(d)
  BY AlongFacts
<1>1. \A m : LeadsTo(d, m) = F(m) \union UNION {A(t) : t \in F(m) \ Cycled(d)}
  BY DEF LeadsTo
<1>2. \A m \in Nodes(d) : m \in F(m) /\ F(m) \subseteq Nodes(d) /\ m \in A(m) /\ A(m) \subseteq Nodes(d)
  BY <1>0, ReachSelf DEF Onward, Along
<1>3. \A m \in Nodes(d) : \A t \in F(m) : F(t) \subseteq F(m)
  <2>1. TAKE m \in Nodes(d)
  <2>2. TAKE t \in F(m)
  <2>3. {t} \in SUBSET Reachable({m}, Onward(d)) /\ {m} \in SUBSET Nodes(d)
    OBVIOUS
  <2>q. QED
    BY <1>0, <2>3, ReachComposes DEF Onward
<1>4. \A m \in Nodes(d) : \A t \in A(m) : A(t) \subseteq A(m)
  <2>1. TAKE m \in Nodes(d)
  <2>2. TAKE t \in A(m)
  <2>3. {t} \in SUBSET Reachable({m}, Along(d)) /\ {m} \in SUBSET Nodes(d)
    OBVIOUS
  <2>q. QED
    BY <1>0, <2>3, ReachComposes DEF Along
<1>5. \A m \in Nodes(d) : F(m) \subseteq A(m)
  <2>1. TAKE m \in Nodes(d)
  <2>2. {m} \in SUBSET Nodes(d)
    OBVIOUS
  <2>q. QED
    BY <1>0, <2>2, ReachGrows DEF Onward, Along
<1>6. \A m \in Nodes(d) : \A s, t : s \in F(m) /\ <<s, t>> \in Onward(d) => t \in F(m)
  <2>1. TAKE m \in Nodes(d)
  <2>2. {m} \in SUBSET Nodes(d)
    OBVIOUS
  <2>q. QED
    BY <1>0, <2>2, ReachNext DEF Onward
<1>7. \A m \in Nodes(d) : \A s, t : s \in A(m) /\ <<s, t>> \in Along(d) => t \in A(m)
  <2>1. TAKE m \in Nodes(d)
  <2>2. {m} \in SUBSET Nodes(d)
    OBVIOUS
  <2>q. QED
    BY <1>0, <2>2, ReachNext DEF Along
<1>8. Onward(d) \subseteq Along(d)
  BY DEF Onward, Along, Ends
<1> HIDE DEF F, A
<1>9. \A m \in Nodes(d) : LeadsTo(d, m) \subseteq A(m)
  BY <1>1, <1>2, <1>4, <1>5
<1>10. \A s, t : s \in LeadsTo(d, n) /\ <<s, t>> \in Onward(d) => t \in LeadsTo(d, n)
  <2>1. SUFFICES ASSUME NEW s, NEW t, s \in LeadsTo(d, n), <<s, t>> \in Onward(d) PROVE t \in LeadsTo(d, n)
    OBVIOUS
  <2>2. CASE s \in F(n)
    BY <1>1, <1>6, <2>1, <2>2
  <2>3. ASSUME NEW x \in F(n) \ Cycled(d), s \in A(x) PROVE t \in LeadsTo(d, n)
    <3>1. t \in A(x)
      BY <1>2, <1>7, <1>8, <2>1, <2>3
    <3>q. QED
      BY <1>1, <2>3, <3>1
  <2>q. QED
    BY <1>1, <2>1, <2>2, <2>3
<1>11. n \notin Cycled(d) => LeadsTo(d, n) = A(n)
  BY <1>1, <1>2, <1>9
<1>12. ASSUME NEW m \in LeadsTo(d, n) PROVE LeadsTo(d, m) \subseteq LeadsTo(d, n)
  <2>1. CASE m \in F(n)
    <3>1. F(m) \subseteq F(n)
      BY <1>3, <2>1
    <3>q. QED
      BY <1>1, <3>1
  <2>2. ASSUME NEW x \in F(n) \ Cycled(d), m \in A(x) PROVE LeadsTo(d, m) \subseteq LeadsTo(d, n)
    <3>1. x \in Nodes(d) /\ m \in Nodes(d)
      BY <1>2, <2>2
    <3>2. LeadsTo(d, m) \subseteq A(x)
      BY <1>4, <1>9, <2>2, <3>1
    <3>q. QED
      BY <1>1, <2>2, <3>2
  <2>q. QED
    BY <1>1, <1>12, <2>1, <2>2
<1>13. A(n) = Reachable({n}, Along(d))
  BY DEF A
<1>14. \A m \in LeadsTo(d, n) : LeadsTo(d, m) \subseteq LeadsTo(d, n)
  BY <1>12
<1>15. n \in LeadsTo(d, n) /\ LeadsTo(d, n) \subseteq A(n) /\ A(n) \subseteq Nodes(d)
  BY <1>1, <1>2, <1>9
<1>16. \A m, t : m \in A(n) /\ <<m, t>> \in Along(d) => t \in A(n)
  BY <1>7
<1>q. QED
  BY ONLY <1>10, <1>11, <1>13, <1>14, <1>15, <1>16

\* A step that leads to itself is carried round by a loop, if the loops nest.
LEMMA LoopsAreCarried ==
    ASSUME FlowOK, plan = WholePlan, LoopsNest, NEW n \in StepNodes(doc), NEW m, <<n, m>> \in Along(doc),
           n \in Reachable({m}, Along(doc))
    PROVE  n \in Cycled(doc)
<1>0. IsDocument(doc) /\ Publishable(doc) /\ Linked(doc) /\ flow.back = BackEdges(doc) /\ n \in Nodes(doc)
  BY WholeFacts, AlongFacts
<1> DEFINE next == {p[2] : p \in {q \in Along(doc) : q[1] = n}}
<1>1. m \in next /\ next \in SUBSET Nodes(doc)
  <2>1. <<n, m>>[1] = n /\ <<n, m>>[2] = m
    OBVIOUS
  <2>2. \A p \in Along(doc) : p[2] \in Nodes(doc)
    BY <1>0, AlongFacts
  <2>q. QED
    BY <2>1, <2>2
<1>2. n \in Reachable(next, Along(doc))
  <2> HIDE DEF next
  <2>1. {m} \in SUBSET Reachable(next, Along(doc))
    BY <1>0, <1>1, ReachFacts DEF Along
  <2>2. Reachable({m}, Along(doc)) \subseteq Reachable(next, Along(doc))
    BY <1>0, <1>1, <2>1, ReachComposes DEF Along
  <2>q. QED
    BY <2>2
<1>3. PICK i \in BackEdges(doc) : /\ n \in Reachable({Dst(doc, i)}, Onward(doc))
                                  /\ Src(doc, i) \in Reachable({n}, Onward(doc))
  BY <1>0, <1>2 DEF LoopsNest, Along, Onward, Src, Dst
<1>q. QED
  BY <1>0, <1>3, BetweenIsOnCycle DEF Cycled

\* What a step that closes no loop leads to does not lead back to it.
LEMMA LeadsAway ==
    ASSUME FlowOK, plan = WholePlan, LoopsNest, NEW n, NEW m, <<n, m>> \in Onward(doc)
    PROVE  n \notin LeadsTo(doc, m)
<1>0. /\ IsDocument(doc) /\ Publishable(doc) /\ Linked(doc) /\ <<n, m>> \in Along(doc)
      /\ n \in StepNodes(doc) /\ m \in StepNodes(doc) /\ n \in Nodes(doc) /\ m \in Nodes(doc)
  <2>1. IsDocument(doc) /\ Publishable(doc) /\ <<n, m>> \in Along(doc)
    BY WholeFacts DEF Onward, Along, Ends
  <2>2. <<n, m>>[1] = n /\ <<n, m>>[2] = m
    OBVIOUS
  <2>q. QED
    BY <2>1, <2>2, AlongFacts
<1>1. n \notin Reachable({m}, Onward(doc))
  BY <1>0, NoWayBack
<1>2. ASSUME NEW x \in Reachable({m}, Onward(doc)) \ Cycled(doc), n \in Reachable({x}, Along(doc)) PROVE FALSE
  <2>1. m \in Reachable({x}, Along(doc)) /\ x \in Nodes(doc)
    <3>1. x \in Reachable({m}, Along(doc)) /\ Reachable({m}, Along(doc)) \subseteq Nodes(doc)
      BY <1>0, LeadsFacts DEF LeadsTo
    <3>q. QED
      BY <1>0, <1>2, <3>1, LeadsFacts
  \* x lies on a loop: what it goes on to leads back to it.
  <2>2. x \in Reachable({m}, Along(doc))
    BY <1>0, LeadsFacts DEF LeadsTo
  <2>3. \E t : <<x, t>> \in Along(doc) /\ m \in Reachable({t}, Along(doc))
    <3> DEFINE C == {x} \union UNION {Reachable({t}, Along(doc)) : t \in {s \in Nodes(doc) : <<x, s>> \in Along(doc)}}
    <3>1. \A s, t : <<s, t>> \in Along(doc) => s \in StepNodes(doc) /\ t \in Nodes(doc)
      <4>1. \A s, t : <<s, t>>[1] = s /\ <<s, t>>[2] = t
        OBVIOUS
      <4>q. QED
        BY <1>0, <4>1, AlongFacts
    <3>2. Closed(C, Along(doc))
      <4>1. ASSUME NEW p \in Along(doc), p[1] \in C PROVE p[2] \in C
        <5>1. p = <<p[1], p[2]>> /\ p[2] \in Nodes(doc)
          BY <1>0, AlongFacts
        <5>4. <<p[1], p[2]>> \in Along(doc)
          BY <4>1, <5>1
        <5>2. CASE p[1] = x
          <6>1. p[2] \in Reachable({p[2]}, Along(doc))
            BY <1>0, <5>1, ReachSelf DEF Along
          <6>q. QED
            BY <5>1, <5>2, <5>4, <6>1
        <5>3. ASSUME NEW t \in Nodes(doc), <<x, t>> \in Along(doc), p[1] \in Reachable({t}, Along(doc))
              PROVE  p[2] \in C
          <6>1. p[2] \in Reachable({t}, Along(doc))
            BY <1>0, <5>3, <5>4, LeadsFacts
          <6>q. QED
            BY <5>3, <6>1
        <5>q. QED
          BY <4>1, <5>2, <5>3
      <4>q. QED
        BY <4>1 DEF Closed
    <3>3. Reachable({x}, Along(doc)) \subseteq C
      <4>1. {x} \subseteq C /\ {x} \in SUBSET Nodes(doc)
        BY <2>1
      <4> HIDE DEF C
      <4>q. QED
        BY <1>0, <3>2, <4>1, ReachFacts DEF Along
    <3>4. CASE m = x
      <4>1. n \in C /\ n # x
        BY <1>1, <1>2, <3>3, <3>4, <1>0, ReachSelf DEF Onward
      <4>2. PICK t \in Nodes(doc) : <<x, t>> \in Along(doc) /\ n \in Reachable({t}, Along(doc))
        BY <4>1
      <4>3. m \in Reachable({t}, Along(doc))
        BY <1>0, <4>2, LeadsFacts
      <4>q. QED
        BY <4>2, <4>3
    <3>5. CASE m # x
      <4>1. m \in C
        BY <2>1, <3>3
      <4>q. QED
        BY <3>5, <4>1
    <3>q. QED
      BY <3>4, <3>5
  <2>4. PICK t : <<x, t>> \in Along(doc) /\ m \in Reachable({t}, Along(doc))
    BY <2>3
  <2>5. t \in Nodes(doc) /\ x \in StepNodes(doc)
    <3>1. <<x, t>>[1] = x /\ <<x, t>>[2] = t
      OBVIOUS
    <3>q. QED
      BY <1>0, <2>4, <3>1, AlongFacts
  <2>6. x \in Reachable({t}, Along(doc))
    <3>1. {m} \in SUBSET Reachable({t}, Along(doc)) /\ {t} \in SUBSET Nodes(doc)
      BY <2>4, <2>5
    <3>2. Reachable({m}, Along(doc)) \subseteq Reachable({t}, Along(doc))
      BY <1>0, <3>1, ReachComposes DEF Along
    <3>q. QED
      BY <2>2, <3>2
  <2>q. QED
    BY <1>2, <2>4, <2>5, <2>6, LoopsAreCarried
<1>q. QED
  BY <1>1, <1>2 DEF LeadsTo

\* An output is a step of the run.
LEMMA OutputsAreSteps ==
    ASSUME NEW d, IsDocument(d), Publishable(d)
    PROVE  OfKind(d, {"output"}) \subseteq StepNodes(d)
<1>1. \A m \in Members(d) : KindOf(d, m) = "agent"
  BY DEF Publishable, AttachmentsOK, Members, EdgesInto, KindOf
<1>q. QED
  BY <1>1 DEF StepNodes, OfKind, KindOf, AttachmentKinds

\* What shows stays when nothing happens there.
LEMMA ShowsStay ==
    ASSUME FlowOK, plan = WholePlan, NEW n \in StepNodes(doc), NEW eng, NEW e, e.method[1] = n, NEW ev,
           NEW t, Emission(eng, e, ev, t), ~t.lost, NEW ran, NEW ran2,
           \A m \in StepNodes(doc) : ran[m] \in Nat /\ ran2[m] \in Nat /\ ran[m] <= ran2[m],
           NEW C, Shows(doc, eng, ran, C), n \notin C
    PROVE  Shows(doc, t, ran2, C)
<1>0. IsDocument(doc) /\ Publishable(doc)
  BY WholeFacts
<1>1. PICK new : /\ Calling(new, Triggered(eng, ev) \X {"step"})
                 /\ t.active = (eng.active \ {e}) \union new
  BY DEF Emission
<1>2. CASE \E f \in eng.active : f.method[1] \in C
  BY <1>1, <1>2 DEF Shows
<1>3. CASE \E m \in C \intersect OfKind(doc, {"output"}) : ran[m] > 0
  <2>1. PICK m \in C \intersect OfKind(doc, {"output"}) : ran[m] > 0
    BY <1>3
  <2>2. m \in StepNodes(doc)
    BY <1>0, <2>1, OutputsAreSteps
  <2>q. QED
    BY <2>1, <2>2 DEF Shows
<1>4. CASE \E m \in C \intersect StepNodes(doc) : eng.arrived[m] # {}
  <2>1. PICK m \in C \intersect StepNodes(doc) : eng.arrived[m] # {}
    BY <1>4
  <2>2. CASE m \in Complete(eng, ev)
    <3>1. <<m, "step">> \in Triggered(eng, ev) \X {"step"} /\ <<m, "step">>[1] = m
      BY <2>2 DEF Triggered
    <3>2. PICK f \in new : f.method = <<m, "step">>
      BY <1>1, <3>1 DEF Calling
    <3>q. QED
      BY <1>1, <2>1, <3>1, <3>2 DEF Shows
  <2>3. CASE m \notin Complete(eng, ev)
    <3>1. t.arrived[m] # {}
      BY <2>1, <2>3, ArrivedFacts
    <3>q. QED
      BY <2>1, <3>1 DEF Shows
  <2>q. QED
    BY <2>2, <2>3
<1>q. QED
  BY <1>2, <1>3, <1>4 DEF Shows

\* What an event comes to: it triggers a step, or a join holds it, or a step that fired
\* once is passed over, by an edge that closes no loop.
LEMMA EventShows ==
    ASSUME FlowOK, plan = WholePlan, EveryPortIsDrawn, NEW n \in StepNodes(doc), NEW eng, NEW e,
           NEW port \in OutPorts(doc, n), NEW ev, ev = Event(doc, n, port),
           NEW t, Emission(eng, e, ev, t), ~t.lost, NEW ran
    PROVE  \E i \in FlowEdges(doc), m \in StepNodes(doc) :
              /\ Src(doc, i) = n /\ Dst(doc, i) = m
              /\ \/ \A C : m \in C => Shows(doc, t, ran, C)
                 \/ m \in Armed(eng, ev) /\ <<n, m>> \in Onward(doc)
<1>0. IsDocument(doc) /\ Publishable(doc)
  BY WholeFacts
<1>1. PICK i \in FlowEdges(doc) : doc.edges[i].src = n /\ doc.edges[i].port = port
  BY DEF EveryPortIsDrawn
<1> DEFINE m == Dst(doc, i)
<1>2. m \in StepNodes(doc) /\ Src(doc, i) = n /\ Carried(doc, i) = ev
  BY <1>0, <1>1, EdgeFacts DEF Carried, Src
<1> HIDE DEF m
<1>3. ev \in flow.listen[m].any \union flow.listen[m].all
  BY <1>2, WholeFacts DEF HearsEdges, m
<1>4. CASE m \in Hearing(eng, ev)
  <2>1. CASE m \in Triggered(eng, ev)
    <3>1. PICK new : /\ Calling(new, Triggered(eng, ev) \X {"step"})
                     /\ t.active = (eng.active \ {e}) \union new
      BY DEF Emission
    <3>2. <<m, "step">> \in Triggered(eng, ev) \X {"step"} /\ <<m, "step">>[1] = m
      BY <2>1
    <3>3. PICK f \in new : f.method = <<m, "step">>
      BY <3>1, <3>2 DEF Calling
    <3>4. \A C : m \in C => Shows(doc, t, ran, C)
      BY <3>1, <3>2, <3>3 DEF Shows
    <3>q. QED
      BY <1>2, <3>4 DEF m
  <2>2. CASE m \notin Triggered(eng, ev)
    <3>1. ev \in flow.listen[m].all /\ m \notin Complete(eng, ev)
      BY <1>3, <1>4, <2>2 DEF Triggered
    <3>2. t.arrived[m] # {}
      BY <1>2, <1>4, <3>1, ArrivedFacts
    <3>3. \A C : m \in C => Shows(doc, t, ran, C)
      BY <1>2, <3>2 DEF Shows
    <3>q. QED
      BY <1>2, <3>3 DEF m
  <2>q. QED
    BY <2>1, <2>2
<1>5. CASE m \notin Hearing(eng, ev)
  <2>1. m \in Armed(eng, ev)
    BY <1>2, <1>3, <1>5, WholeFacts DEF Hearing, Names, Hears
  <2>2. ev[2] = Ran
    BY <1>3, <2>1 DEF Armed, Names, Hears
  <2>3. ~IsRouted(doc, n)
    BY <1>0, <2>2, EventFacts
  <2>4. i \notin BackEdges(doc)
    BY <1>0, <1>2, <2>3, EdgeFacts DEF IsRouted
  <2>5. <<n, m>> \in Onward(doc)
    <3>1. i \in FlowEdges(doc) \ BackEdges(doc)
      BY <2>4
    <3>q. QED
      BY <1>2, <3>1, EdgeIsPair DEF Onward, m
  <2>q. QED
    BY <1>2, <2>1, <2>5 DEF m
<1>q. QED
  BY <1>4, <1>5

\* What shows in a closed set of steps still shows there after one of them ends.
LEMMA ShowsMoves ==
    ASSUME FlowOK, plan = WholePlan, EveryPortIsDrawn, LoopsNest, NEW n \in StepNodes(doc), NEW eng, NEW e,
           e.method[1] = n, NEW ev, Ends1(n, ev), NEW t, Emission(eng, e, ev, t), ~t.lost, NEW ran, NEW ran2,
           \A m \in StepNodes(doc) : ran[m] \in Nat /\ ran2[m] \in Nat /\ ran[m] <= ran2[m],
           KindOf(doc, n) = "output" => ran2[n] > 0,
           \A m \in eng.fired : m \in StepNodes(doc) /\ Shows(doc, eng, ran, LeadsTo(doc, m)),
           NEW C, n \in C,
           \A i \in FlowEdges(doc) : Src(doc, i) = n => Dst(doc, i) \in C /\ LeadsTo(doc, Dst(doc, i)) \subseteq C
    PROVE  Shows(doc, t, ran2, C)
<1>0. IsDocument(doc) /\ Publishable(doc) /\ n \in Nodes(doc)
  BY WholeFacts, AlongFacts
<1>1. CASE KindOf(doc, n) = "output"
  <2>1. n \in OfKind(doc, {"output"})
    BY <1>0, <1>1 DEF OfKind, KindOf
  <2>q. QED
    BY <1>1, <2>1 DEF Shows
<1>2. CASE KindOf(doc, n) # "output"
  <2>1. PICK port \in OutPorts(doc, n) : ev = Event(doc, n, port)
    BY <1>2 DEF Ends1
  <2>2. PICK i \in FlowEdges(doc), m \in StepNodes(doc) :
              /\ Src(doc, i) = n /\ Dst(doc, i) = m
              /\ \/ \A D : m \in D => Shows(doc, t, ran2, D)
                 \/ m \in Armed(eng, ev) /\ <<n, m>> \in Onward(doc)
    BY <2>1, EventShows
  <2>3. m \in C /\ LeadsTo(doc, m) \subseteq C
    BY <2>2
  <2>4. CASE m \in Armed(eng, ev) /\ <<n, m>> \in Onward(doc)
    <3>1. Shows(doc, eng, ran, LeadsTo(doc, m))
      BY <2>4 DEF Armed
    <3>2. n \notin LeadsTo(doc, m)
      BY <2>4, LeadsAway
    <3>3. Shows(doc, t, ran2, LeadsTo(doc, m))
      BY <3>1, <3>2, ShowsStay
    <3>q. QED
      BY <2>3, <3>3 DEF Shows
  <2>q. QED
    BY <2>2, <2>3, <2>4
<1>q. QED
  BY <1>1, <1>2

\* Every event leaves something to show, behind every listener that fired too.
LEMMA EmissionDelivers ==
    ASSUME FlowOK, plan = WholePlan, EveryPortIsDrawn, LoopsNest, NEW n \in StepNodes(doc), NEW eng, NEW e,
           e.method[1] = n, NEW ev, Ends1(n, ev), NEW t, Emission(eng, e, ev, t), ~t.lost, NEW ran, NEW ran2,
           \A m \in StepNodes(doc) : ran[m] \in Nat /\ ran2[m] \in Nat /\ ran[m] <= ran2[m],
           KindOf(doc, n) = "output" => ran2[n] > 0,
           \A m \in eng.fired : m \in StepNodes(doc) /\ Shows(doc, eng, ran, LeadsTo(doc, m)),
           (\E i \in BackEdges(doc) : Src(doc, i) = n) => eng.fired \intersect Cycled(doc) = {}
    PROVE  /\ Shows(doc, t, ran2, Nodes(doc))
           /\ \A m \in t.fired : Shows(doc, t, ran2, LeadsTo(doc, m))
<1>0. IsDocument(doc) /\ Publishable(doc) /\ n \in Nodes(doc) /\ StepNodes(doc) \subseteq Nodes(doc)
  BY WholeFacts, AlongFacts
<1>1. Shows(doc, t, ran2, Nodes(doc))
  <2>1. \A i \in FlowEdges(doc) : Dst(doc, i) \in Nodes(doc) /\ LeadsTo(doc, Dst(doc, i)) \subseteq Nodes(doc)
    <3>1. TAKE i \in FlowEdges(doc)
    <3>2. Dst(doc, i) \in Nodes(doc)
      BY <1>0, EdgeFacts
    <3>q. QED
      BY <1>0, <3>2, LeadsFacts
  <2>q. QED
    BY <1>0, <2>1, ShowsMoves
<1>2. ASSUME NEW m \in t.fired PROVE Shows(doc, t, ran2, LeadsTo(doc, m))
  <2>1. m \in eng.fired \/ m \in Triggered(eng, ev)
    BY DEF Emission, Armed
  <2>2. CASE m \in Triggered(eng, ev)
    <3>1. PICK new : /\ Calling(new, Triggered(eng, ev) \X {"step"})
                     /\ t.active = (eng.active \ {e}) \union new
      BY DEF Emission
    <3>2. <<m, "step">> \in Triggered(eng, ev) \X {"step"} /\ <<m, "step">>[1] = m
      BY <2>2
    <3>3. PICK f \in new : f.method = <<m, "step">>
      BY <3>1, <3>2 DEF Calling
    <3>4. m \in LeadsTo(doc, m)
      BY <1>0, <2>2, TriggeredAlong, LeadsFacts
    <3>q. QED
      BY <3>1, <3>2, <3>3, <3>4 DEF Shows
  <2>3. CASE m \in eng.fired
    <3>1. m \in Nodes(doc) /\ Shows(doc, eng, ran, LeadsTo(doc, m))
      BY <1>0, <2>3
    <3>2. CASE n \notin LeadsTo(doc, m)
      BY <3>1, <3>2, ShowsStay
    <3>3. CASE n \in LeadsTo(doc, m)
      <4>0. /\ \A v, w : v \in LeadsTo(doc, m) /\ <<v, w>> \in Onward(doc) => w \in LeadsTo(doc, m)
            /\ \A v, w : v \in Reachable({m}, Along(doc)) /\ <<v, w>> \in Along(doc) =>
                           w \in Reachable({m}, Along(doc))
            /\ m \notin Cycled(doc) => LeadsTo(doc, m) = Reachable({m}, Along(doc))
        BY <1>0, <3>1, LeadsFacts
      <4>1. ASSUME NEW i \in FlowEdges(doc), Src(doc, i) = n
            PROVE  Dst(doc, i) \in LeadsTo(doc, m) /\ LeadsTo(doc, Dst(doc, i)) \subseteq LeadsTo(doc, m)
        <5>1. Dst(doc, i) \in LeadsTo(doc, m)
          <6>1. CASE i \in BackEdges(doc)
            <7>1. m \notin Cycled(doc)
              BY <2>3, <4>1, <6>1
            <7>2. <<n, Dst(doc, i)>> \in Along(doc)
              BY <1>0, <4>1, AlongFacts
            <7>q. QED
              BY <3>3, <4>0, <7>1, <7>2
          <6>2. CASE i \notin BackEdges(doc)
            <7>1. i \in FlowEdges(doc) \ BackEdges(doc)
              BY <6>2
            <7>2. <<n, Dst(doc, i)>> \in Onward(doc)
              BY <4>1, <7>1, EdgeIsPair DEF Onward
            <7>q. QED
              BY <3>3, <4>0, <7>2
          <6>q. QED
            BY <6>1, <6>2
        <5>q. QED
          BY <1>0, <3>1, <5>1, LeadsFacts
      <4>q. QED
        BY <3>3, <4>1, ShowsMoves
    <3>q. QED
      BY <3>2, <3>3
  <2>q. QED
    BY <2>1, <2>2, <2>3
<1>q. QED
  BY <1>1, <1>2

\* A router with a loop discards every listener on a loop that fires once.
LEMMA RearmDiscards ==
    ASSUME FlowOK, plan = WholePlan, NEW n \in StepNodes(doc), NEW i \in BackEdges(doc), Src(doc, i) = n,
           NEW m \in Cycled(doc) \intersect flow.once
    PROVE  IsRouted(doc, n) /\ m \in flow.rearm[n]
<1>0. /\ IsDocument(doc) /\ Publishable(doc) /\ flow.once \subseteq StepNodes(doc)
      /\ DOMAIN flow.listen = StepNodes(doc)
  BY WholeFacts DEF FlowShape
<1>1. i \in FlowEdges(doc)
  BY <1>0, AlongFacts, BackEdgesAreFlow
<1>2. IsRouted(doc, n)
  BY <1>0, <1>1, EdgeFacts DEF IsRouted
<1>3. IsMultiEventOr(flow.listen[m])
  BY <1>0, WholeFacts DEF Once
<1>4. flow.rearm[n] = Rearms(doc, BackEdges(doc), flow.listen, n)
  BY WholeFacts
<1> DEFINE targets == {doc.edges[j].dst : j \in {k \in BackEdges(doc) : doc.edges[k].src = n}}
<1> DEFINE once == {x \in NodesOnCycles(doc, BackEdges(doc)) \intersect DOMAIN flow.listen :
                       IsMultiEventOr(flow.listen[x])}
<1>5. flow.rearm[n] = IF targets = {} THEN {} ELSE targets \union once
  BY <1>4 DEF Rearms
<1>6. targets # {}
  BY DEF Src
<1>7. m \in once
  BY <1>0, <1>3 DEF Cycled
<1> HIDE DEF targets, once
<1>q. QED
  BY <1>2, <1>5, <1>6, <1>7

\* The properties of the document are kept.
LEMMA ShapeStays ==
    ASSUME UNCHANGED <<doc, flow>>
    PROVE  (LoopsNest' <=> LoopsNest) /\ (EveryPortIsDrawn' <=> EveryPortIsDrawn)
  BY DEF LoopsNest, EveryPortIsDrawn

\* What shows for some runs shows for more.
LEMMA ShowsGrows ==
    ASSUME NEW d, IsDocument(d), Publishable(d), NEW eng, NEW t, t.arrived = eng.arrived,
           \A e \in eng.active : \E f \in t.active : f.method[1] = e.method[1],
           NEW ran, NEW ran2, \A m \in StepNodes(d) : ran[m] \in Nat /\ ran2[m] \in Nat /\ ran[m] <= ran2[m],
           NEW C, Shows(d, eng, ran, C)
    PROVE  Shows(d, t, ran2, C)
<1>1. \A m \in OfKind(d, {"output"}) : ran[m] > 0 => ran2[m] > 0
  BY OutputsAreSteps
<1>q. QED
  BY <1>1 DEF Shows

\* Runs only grow.
LEMMA RunsGrow ==
    ASSUME Counts, plan = WholePlan
    PROVE  /\ \A m \in StepNodes(doc) : log.ran[m] \in Nat /\ log.ran[m] <= log.ran[m]
           /\ \A n \in StepNodes(doc) : Notes(n) =>
                 /\ \A m \in StepNodes(doc) :
                       log.ran[m] \in Nat /\ log'.ran[m] \in Nat /\ log.ran[m] <= log'.ran[m]
                 /\ log'.ran[n] > 0
<1>1. log.ran \in [StepNodes(doc) -> Nat]
  BY DEF Counts
<1>2. ASSUME NEW n \in StepNodes(doc), Notes(n), NEW m \in StepNodes(doc)
      PROVE  log.ran[m] \in Nat /\ log'.ran[m] \in Nat /\ log.ran[m] <= log'.ran[m] /\ log'.ran[n] > 0
  <2>1. log'.ran = [log.ran EXCEPT ![n] = @ + 1]
    BY <1>2 DEF Notes
  <2>q. QED
    BY <1>1, <2>1
<1>q. QED
  BY <1>1, <1>2

\* Every step of a whole run leaves something to show.
LEMMA DeliversNext ==
    ASSUME RunOK, Counts, Delivers, [Next]_vars
    PROVE  Delivers'
<1>1. SUFFICES ASSUME plan' = WholePlan, EveryPortIsDrawn', LoopsNest', ~engine'.lost,
                      phase' \in {"running", "completed"}
               PROVE  /\ Shows(doc', engine', log'.ran, Nodes(doc'))
                      /\ \A n \in engine'.fired : Shows(doc', engine', log'.ran, LeadsTo(doc', n))
  BY DEF Delivers
<1>2. plan = WholePlan /\ WholeStep /\ UNCHANGED <<doc, plan, flow>>
  BY <1>1, PlanStays, WholeSteps, WholeStepKeeps DEF Counts
<1>3. LoopsNest /\ EveryPortIsDrawn /\ FlowOK
  BY <1>1, <1>2, ShapeStays DEF RunOK
<1>4. IsDocument(doc) /\ Publishable(doc) /\ flow.once \subseteq StepNodes(doc) /\ StepNodes(doc) \subseteq Nodes(doc)
  BY <1>2, <1>3, WholeFacts, AlongFacts DEF FlowShape
<1> DEFINE Kept == /\ Shows(doc, engine', log'.ran, Nodes(doc))
                   /\ \A n \in engine'.fired : Shows(doc, engine', log'.ran, LeadsTo(doc, n))
<1>5. SUFFICES Kept
  BY <1>2
<1>6. phase \in {"running", "completed"} /\ ~engine.lost =>
         /\ Shows(doc, engine, log.ran, Nodes(doc))
         /\ \A n \in engine.fired : Shows(doc, engine, log.ran, LeadsTo(doc, n))
  BY <1>2, <1>3 DEF Delivers
<1>7. CASE Rests
  <2>1. engine' = engine /\ log' = log /\ phase \in {"running", "completed"}
    BY <1>1, <1>7 DEF Rests
  <2>q. QED
    BY <1>1, <1>6, <2>1
<1>8. CASE Sets
  <2>1. engine' = NewEngine(Starts) /\ log' = log
    BY <1>8 DEF Sets
  <2>2. Calling(engine'.active, Starts) /\ engine'.fired = {}
    BY <2>1, NewEngineEffects
  <2>3. PICK n \in OfKind(doc, {"input"}) : TRUE
    BY <1>4 DEF Publishable, InputsOK
  <2>4. <<n, "step">> \in Starts /\ <<n, "step">>[1] = n /\ n \in Nodes(doc)
    BY <2>3 DEF Starts, OfKind
  <2>5. PICK f \in engine'.active : f.method = <<n, "step">>
    BY <2>2, <2>4 DEF Calling
  <2>6. Shows(doc, engine', log'.ran, Nodes(doc))
    BY <2>4, <2>5 DEF Shows
  <2>q. QED
    BY <2>2, <2>6
<1>9. ASSUME NEW n \in StepNodes(doc), Stops(n) PROVE Kept
  BY <1>1, <1>9, StopsFacts
<1>10. ASSUME NEW n \in StepNodes(doc), Emits(n) PROVE Kept
  <2>0. phase = "running"
    BY <1>2, <1>10, EmitsFacts
  <2>1. PICK e, ev, eng :
           /\ e \in engine.active /\ eng.active = engine.active /\ eng.calls = engine.calls /\ eng.done = engine.done
           /\ eng.arrived = engine.arrived /\ eng.lost = engine.lost
           /\ eng.fired = (IF IsRouted(doc, n) THEN engine.fired \ flow.rearm[n] ELSE engine.fired)
           /\ Emission(eng, e, ev, engine') /\ Ends1(n, ev)
           /\ \/ e.method = <<n, "step">> /\ ~RoutesErrors(doc, n) /\ Notes(n)
              \/ e.method = <<n, "route">> /\ RoutesErrors(doc, n) /\ log' = log
    BY <1>2, <1>10, EmitsFacts
  <2>2. e.method[1] = n /\ engine.fired \subseteq flow.once /\ eng.fired \subseteq engine.fired /\ ~engine.lost
    <3>1. engine.fired \subseteq flow.once
      BY DEF RunOK, PhaseOK, EngineOK
    <3>2. ~eng.lost
      BY <1>1, <2>1 DEF Emission
    <3>q. QED
      BY <2>1, <3>1, <3>2
  <2>3. /\ \A m \in StepNodes(doc) : log.ran[m] \in Nat /\ log'.ran[m] \in Nat /\ log.ran[m] <= log'.ran[m]
        /\ KindOf(doc, n) = "output" => log'.ran[n] > 0
    <3>1. CASE Notes(n)
      BY <1>2, <3>1, RunsGrow
    <3>2. CASE RoutesErrors(doc, n) /\ log' = log
      <4>1. KindOf(doc, n) # "output"
        BY <1>4, <3>2 DEF RoutesErrors, IsDocument, OfKind, KindOf, BillableKinds
      <4>q. QED
        BY <1>2, <3>2, <4>1, RunsGrow
    <3>q. QED
      BY <2>1, <3>1, <3>2
  <2>4. \A m \in eng.fired : m \in StepNodes(doc) /\ Shows(doc, eng, log.ran, LeadsTo(doc, m))
    <3>1. TAKE m \in eng.fired
    <3>2. m \in StepNodes(doc) /\ Shows(doc, engine, log.ran, LeadsTo(doc, m))
      BY <1>4, <1>6, <2>0, <2>2
    <3>q. QED
      BY <2>1, <3>2 DEF Shows
  <2>5. ASSUME NEW i \in BackEdges(doc), Src(doc, i) = n PROVE eng.fired \intersect Cycled(doc) = {}
    <3>1. SUFFICES ASSUME NEW m \in eng.fired, m \in Cycled(doc) PROVE FALSE
      OBVIOUS
    <3>2. IsRouted(doc, n) /\ m \in flow.rearm[n]
      BY <1>2, <1>3, <2>2, <2>5, <3>1, RearmDiscards
    <3>q. QED
      BY <2>1, <3>1, <3>2
  <2>q. QED
    BY <1>1, <1>2, <1>3, <2>1, <2>2, <2>3, <2>4, <2>5, EmissionDelivers
<1>11. ASSUME NEW n \in StepNodes(doc), Pairs(n) PROVE Kept
  <2>0. phase = "running" /\ Notes(n)
    BY <1>2, <1>11, PairsFacts
  <2>1. PICK e \in engine.active : e.method = <<n, "step">> /\ Pairing(n, e, engine, engine')
    BY <1>2, <1>11, PairsFacts
  <2>2. PICK f : f.method = <<n, "route">> /\ engine'.active = (engine.active \ {e}) \union {f}
    BY <2>1 DEF Pairing
  <2>3. engine'.fired \subseteq engine.fired /\ engine'.arrived = engine.arrived /\ engine'.lost = engine.lost
    BY <2>1 DEF Pairing
  <2>4. e.method[1] = f.method[1]
    BY <2>1, <2>2
  <2>5. \A g \in engine.active : \E h \in engine'.active : h.method[1] = g.method[1]
    BY <2>2, <2>4
  <2>6. \A C : Shows(doc, engine, log.ran, C) => Shows(doc, engine', log'.ran, C)
    <3>1. TAKE C
    <3>2. HAVE Shows(doc, engine, log.ran, C)
    <3>3. \A m \in StepNodes(doc) : log.ran[m] \in Nat /\ log'.ran[m] \in Nat /\ log.ran[m] <= log'.ran[m]
      BY <1>2, <2>0, RunsGrow
    <3>q. QED
      BY <1>4, <2>3, <2>5, <3>2, <3>3, ShowsGrows
  <2>q. QED
    BY <1>1, <1>6, <2>0, <2>3, <2>6
<1>12. ASSUME NEW n \in StepNodes(doc), Resumes(n) PROVE Kept
  <2>1. PICK e : Fresh(n, e, engine')
    BY <1>2, <1>12, ResumesFacts
  <2>2. e \in engine'.active /\ e.method[1] = n /\ n \in Nodes(doc) /\ engine'.fired = {}
    BY <1>4, <2>1 DEF Fresh
  <2>q. QED
    BY <2>2 DEF Shows
<1>13. ASSUME NEW n \in StepNodes(doc), Replies(n) PROVE Kept
  <2>1. KindOf(doc, n) = "gate" /\ log'.ran = log.ran
    BY <1>2, <1>13, RepliesFacts
  <2>2. PICK honoured \in BOOLEAN : \E e, eng : Fresh(n, e, eng) /\ Emission(eng, e, Reply(n, honoured), engine')
    BY <1>2, <1>13, RepliesFacts
  <2>3. PICK e, eng : Fresh(n, e, eng) /\ Emission(eng, e, Reply(n, honoured), engine')
    BY <2>2
  <2>4. e.method[1] = n /\ eng.fired = {}
    BY <2>3 DEF Fresh
  <2>5. Ends1(n, Reply(n, honoured))
    <3>0. ~RoutesErrors(doc, n)
      BY <1>4, <2>1 DEF RoutesErrors, IsDocument, OfKind, KindOf, BillableKinds
    <3>1. OutPorts(doc, n) = {"approve", "revise"}
      BY <2>1, <3>0 DEF OutPorts
    <3>q. QED
      BY <3>1 DEF Ends1, Reply
  <2>6. \A m \in StepNodes(doc) : log.ran[m] \in Nat /\ log'.ran[m] \in Nat /\ log.ran[m] <= log'.ran[m]
    BY <1>2, <2>1, RunsGrow
  <2>q. QED
    BY <1>1, <1>2, <1>3, <2>1, <2>3, <2>4, <2>5, <2>6, EmissionDelivers
<1> HIDE DEF Kept
<1>q. QED
  BY <1>2, <1>7, <1>8, <1>9, <1>10, <1>11, <1>12, <1>13 DEF WholeStep

\* In every published document whose ports are all drawn, whose loops nest and come back
\* to a join only through it, a run that returns has reached an output, whatever was
\* answered, routed or retried and however often it went round (compiler.py _listen_for,
\* the re-arm lists; runtime.py _rearm).
THEOREM RunsDeliver == Spec => []RunDelivers
<1>1. Init => Delivers
  BY DEF Init, Delivers
<1>2. RunOK /\ Counts /\ Delivers /\ [Next]_vars => Delivers'
  BY DeliversNext
<1>3. RunOK /\ JoinsOK /\ Delivers /\ JoinsDoNotStarve => RunDelivers
  <2>1. SUFFICES ASSUME RunOK, JoinsOK, Delivers, JoinsDoNotStarve, LoopsReturn, LoopsNest, Undeclared,
                        EveryPortIsDrawn
                 PROVE  \E n \in OfKind(doc, {"output"}) : log.ran[n] > 0
    BY DEF RunDelivers, OutputsAreReached
  <2>2. phase = "completed" /\ plan = WholePlan /\ doc.joins = <<>> /\ ~engine.lost
    BY <2>1 DEF Undeclared
  <2>3. engine.active = {}
    BY <2>1, <2>2 DEF JoinsOK
  <2>4. \A n \in StepNodes(doc) : engine.arrived[n] = {}
    BY <2>1 DEF JoinsDoNotStarve, JoinsAreServed
  <2>5. Shows(doc, engine, log.ran, Nodes(doc))
    BY <2>1, <2>2 DEF Delivers
  <2>q. QED
    BY <2>3, <2>4, <2>5 DEF Shows
<1>q. QED
  BY <1>1, <1>2, <1>3, JoinsHold, JoinsAreAlwaysServed, PTL DEF Spec

-----------------------------------------------------------------------------
(* The price: a loop that is a gate's revise goes round as often as it is    *)
(* priced, and no oftener.                                                   *)

\* What a step leads to, and what it leads to while no loop is closed.
Reaches(d, x, y) == y \in Reachable({x}, Along(d))
ReachesOn(d, x, y) == y \in Reachable({x}, Onward(d))

\* A step that leads back to itself, and one that leads to a step that chooses.
OnLoop(d, x) == \E y : <<x, y>> \in Along(d) /\ Reaches(d, y, x)
Chooses(d, x) == \E c \in Choosers(d) : Reaches(d, x, c)

\* What is reached from a node is reached from one that follows it.
LEMMA FirstStep ==
    ASSUME NEW d, Linked(d), NEW edges \in SUBSET FlowEdges(d), NEW pairs, pairs = Ends(d, edges),
           NEW x \in Nodes(d), NEW y \in Reachable({x}, pairs), y # x
    PROVE  \E t \in Nodes(d) : <<x, t>> \in pairs /\ y \in Reachable({t}, pairs)
<1> DEFINE C == {x} \union UNION {Reachable({t}, pairs) : t \in {s \in Nodes(d) : <<x, s>> \in pairs}}
<1>1. \A p \in pairs : p = <<p[1], p[2]>> /\ p[2] \in Nodes(d)
  BY DEF Ends, Linked, Src, Dst, FlowEdges, EdgesInto
<1>2. ASSUME NEW p \in pairs, p[1] \in C PROVE p[2] \in C
  <2>1. p = <<p[1], p[2]>> /\ p[2] \in Nodes(d) /\ <<p[1], p[2]>> \in pairs
    BY <1>1
  <2>2. CASE p[1] = x
    <3>1. p[2] \in Reachable({p[2]}, pairs)
      BY <2>1, ReachSelf
    <3>q. QED
      BY <2>1, <2>2, <3>1
  <2>3. ASSUME NEW t \in Nodes(d), <<x, t>> \in pairs, p[1] \in Reachable({t}, pairs) PROVE p[2] \in C
    <3>1. {t} \in SUBSET Nodes(d)
      OBVIOUS
    <3>2. p[2] \in Reachable({t}, pairs)
      BY <2>1, <2>3, <3>1, ReachNext
    <3>q. QED
      BY <2>3, <3>2
  <2>q. QED
    BY <1>2, <2>2, <2>3
<1>3. Closed(C, pairs)
  BY <1>2 DEF Closed
<1>4. {x} \subseteq C /\ {x} \in SUBSET Nodes(d)
  OBVIOUS
<1>5. Reachable({x}, pairs) \subseteq C
  <2> HIDE DEF C
  <2>q. QED
    BY <1>3, <1>4, ReachFacts
<1>q. QED
  BY <1>5

\* How the two relations order the steps.
LEMMA ReachOrder ==
    ASSUME NEW d, IsDocument(d), Publishable(d)
    PROVE  /\ \A x \in StepNodes(d) : Reaches(d, x, x) /\ ReachesOn(d, x, x)
           /\ \A x, y, z \in StepNodes(d) : Reaches(d, x, y) /\ Reaches(d, y, z) => Reaches(d, x, z)
           /\ \A x, y, z \in StepNodes(d) : ReachesOn(d, x, y) /\ ReachesOn(d, y, z) => ReachesOn(d, x, z)
           /\ \A x, y \in StepNodes(d) : ReachesOn(d, x, y) => Reaches(d, x, y)
           /\ \A x, y : <<x, y>> \in Along(d) => x \in StepNodes(d) /\ y \in StepNodes(d) /\ Reaches(d, x, y)
           /\ \A x, y : <<x, y>> \in Onward(d) =>
                 <<x, y>> \in Along(d) /\ ReachesOn(d, x, y) /\ ~ReachesOn(d, y, x)
           /\ \A x, y \in StepNodes(d) : x # y /\ ReachesOn(d, x, y) => ~ReachesOn(d, y, x)
           /\ \A x, y : <<x, y>> \in Along(d) /\ Reaches(d, y, x) => OnLoop(d, x)
           /\ \A x, y \in StepNodes(d) : x # y /\ Reaches(d, x, y) /\ Reaches(d, y, x) => OnLoop(d, x)
<1>0. Linked(d) /\ StepNodes(d) \subseteq Nodes(d) /\ FlowEdges(d) \ BackEdges(d) \in SUBSET FlowEdges(d)
  BY AlongFacts
<1>1. ASSUME NEW x \in StepNodes(d) PROVE Reaches(d, x, x) /\ ReachesOn(d, x, x)
  BY <1>0, ReachSelf DEF Reaches, ReachesOn, Along, Onward
<1>2. ASSUME NEW x \in StepNodes(d), NEW y \in StepNodes(d), NEW z \in StepNodes(d),
             NEW edges \in SUBSET FlowEdges(d), y \in Reachable({x}, Ends(d, edges)),
             z \in Reachable({y}, Ends(d, edges))
      PROVE  z \in Reachable({x}, Ends(d, edges))
  <2>1. {x} \in SUBSET Nodes(d) /\ {y} \in SUBSET Reachable({x}, Ends(d, edges))
    BY <1>0, <1>2
  <2>2. Reachable({y}, Ends(d, edges)) \subseteq Reachable({x}, Ends(d, edges))
    BY <1>0, <2>1, ReachComposes
  <2>q. QED
    BY <1>2, <2>2
<1>3. \A x, y, z \in StepNodes(d) : Reaches(d, x, y) /\ Reaches(d, y, z) => Reaches(d, x, z)
  BY <1>2 DEF Reaches, Along
<1>4. \A x, y, z \in StepNodes(d) : ReachesOn(d, x, y) /\ ReachesOn(d, y, z) => ReachesOn(d, x, z)
  BY <1>0, <1>2 DEF ReachesOn, Onward
<1>5. ASSUME NEW x \in StepNodes(d), NEW y \in StepNodes(d), ReachesOn(d, x, y) PROVE Reaches(d, x, y)
  <2>1. {x} \in SUBSET Nodes(d)
    BY <1>0
  <2>2. Reachable({x}, Onward(d)) \subseteq Reachable({x}, Along(d))
    BY <1>0, <2>1, ReachGrows DEF Onward, Along
  <2>q. QED
    BY <1>5, <2>2 DEF Reaches, ReachesOn
<1>6. ASSUME NEW x, NEW y, <<x, y>> \in Along(d)
      PROVE  x \in StepNodes(d) /\ y \in StepNodes(d) /\ Reaches(d, x, y)
  <2>1. x \in StepNodes(d) /\ y \in StepNodes(d)
    <3>1. <<x, y>>[1] = x /\ <<x, y>>[2] = y
      OBVIOUS
    <3>q. QED
      BY <1>6, <3>1, AlongFacts
  <2>2. x \in Reachable({x}, Along(d)) /\ {x} \in SUBSET Nodes(d)
    BY <1>0, <1>1, <2>1 DEF Reaches
  <2>q. QED
    BY <1>0, <1>6, <2>1, <2>2, ReachNext DEF Reaches, Along
<1>7. ASSUME NEW x, NEW y, <<x, y>> \in Onward(d)
      PROVE  <<x, y>> \in Along(d) /\ ReachesOn(d, x, y) /\ ~ReachesOn(d, y, x)
  <2>1. <<x, y>> \in Along(d)
    BY <1>7 DEF Onward, Along, Ends
  <2>2. x \in Reachable({x}, Onward(d)) /\ {x} \in SUBSET Nodes(d)
    BY <1>0, <1>1, <1>6, <2>1 DEF ReachesOn
  <2>3. ReachesOn(d, x, y)
    BY <1>0, <1>7, <2>2, ReachNext DEF ReachesOn, Onward
  <2>4. ~ReachesOn(d, y, x)
    BY <1>0, <1>7, NoWayBack DEF ReachesOn
  <2>q. QED
    BY <2>1, <2>3, <2>4
<1>8. ASSUME NEW x \in StepNodes(d), NEW y \in StepNodes(d), x # y, ReachesOn(d, x, y), ReachesOn(d, y, x)
      PROVE  FALSE
  <2>1. PICK t \in Nodes(d) : <<x, t>> \in Onward(d) /\ y \in Reachable({t}, Onward(d))
    BY <1>0, <1>8, FirstStep DEF ReachesOn, Onward
  <2>2. t \in StepNodes(d)
    BY <1>6, <1>7, <2>1
  <2>3. ReachesOn(d, t, x)
    BY <1>4, <1>8, <2>1, <2>2 DEF ReachesOn
  <2>q. QED
    BY <1>7, <2>1, <2>3
<1>9. \A x, y : <<x, y>> \in Along(d) /\ Reaches(d, y, x) => OnLoop(d, x)
  BY DEF OnLoop
<1>10. ASSUME NEW x \in StepNodes(d), NEW y \in StepNodes(d), x # y, Reaches(d, x, y), Reaches(d, y, x)
       PROVE  OnLoop(d, x)
  <2>1. PICK t \in Nodes(d) : <<x, t>> \in Along(d) /\ y \in Reachable({t}, Along(d))
    <3>1. FlowEdges(d) \in SUBSET FlowEdges(d)
      OBVIOUS
    <3>q. QED
      BY <1>0, <1>10, <3>1, FirstStep DEF Reaches, Along
  <2>2. t \in StepNodes(d)
    BY <1>6, <2>1
  <2>3. Reaches(d, t, x)
    BY <1>3, <1>10, <2>1, <2>2 DEF Reaches
  <2>q. QED
    BY <1>9, <2>1, <2>3
<1>q. QED
  BY <1>1, <1>3, <1>4, <1>5, <1>6, <1>7, <1>8, <1>9, <1>10

\* What leads to a step that chooses does so itself, on a loop too.
LEMMA ChoosesFacts ==
    ASSUME NEW d, IsDocument(d), Publishable(d)
    PROVE  /\ \A x \in StepNodes(d) : IsRouted(d, x) => Chooses(d, x)
           /\ \A x, y \in StepNodes(d) : Reaches(d, x, y) /\ Chooses(d, y) => Chooses(d, x)
           /\ \A x, y : <<x, y>> \in Along(d) /\ Chooses(d, y) => Chooses(d, x)
<1>1. ASSUME NEW x \in StepNodes(d), IsRouted(d, x) PROVE Chooses(d, x)
  BY <1>1, ReachOrder DEF Chooses, Choosers
<1>2. ASSUME NEW x \in StepNodes(d), NEW y \in StepNodes(d), Reaches(d, x, y), Chooses(d, y) PROVE Chooses(d, x)
  <2>1. PICK c \in Choosers(d) : Reaches(d, y, c)
    BY <1>2 DEF Chooses
  <2>2. c \in StepNodes(d)
    BY DEF Choosers
  <2>q. QED
    BY <1>2, <2>1, <2>2, ReachOrder DEF Chooses
<1>q. QED
  BY <1>1, <1>2, ReachOrder

\* A back edge comes back: its source is reached again from its target.
LEMMA BackEdgesLoop ==
    ASSUME NEW d, IsDocument(d), Publishable(d), NEW i \in BackEdges(d)
    PROVE  <<Src(d, i), Dst(d, i)>> \in Along(d) /\ ReachesOn(d, Dst(d, i), Src(d, i)) /\ OnLoop(d, Src(d, i))
<1>0. Linked(d) /\ StepNodes(d) \subseteq Nodes(d) /\ FlowEdges(d) \ BackEdges(d) \in SUBSET FlowEdges(d)
      /\ i \in FlowEdges(d)
  BY AlongFacts, BackEdgesAreFlow
<1>1. <<Src(d, i), Dst(d, i)>> \in Along(d)
  BY <1>0, AlongFacts
<1>2. Src(d, i) \in StepNodes(d) /\ Dst(d, i) \in StepNodes(d)
  BY <1>0, EdgeFacts
<1> DEFINE next == {p[2] : p \in {q \in Onward(d) : q[1] = Dst(d, i)}}
<1>3. Src(d, i) \in Reachable(next, Onward(d)) \/ Src(d, i) = Dst(d, i)
  BY <1>0, BackEdgesCloseLoops DEF Onward, Src, Dst
<1>4. ReachesOn(d, Dst(d, i), Src(d, i))
  <2>1. CASE Src(d, i) = Dst(d, i)
    BY <1>2, <2>1, ReachOrder
  <2>2. CASE Src(d, i) \in Reachable(next, Onward(d))
    <3>1. {Dst(d, i)} \in SUBSET Nodes(d)
      BY <1>0, <1>2
    <3>2. {Dst(d, i)} \subseteq Reachable({Dst(d, i)}, Onward(d))
          /\ Closed(Reachable({Dst(d, i)}, Onward(d)), Onward(d))
      BY <1>0, <3>1, ReachFacts DEF Onward
    <3>3. next \in SUBSET Reachable({Dst(d, i)}, Onward(d))
      BY <3>2 DEF Closed
    <3> HIDE DEF next
    <3>4. Reachable(next, Onward(d)) \subseteq Reachable({Dst(d, i)}, Onward(d))
      BY <1>0, <3>1, <3>3, ReachComposes DEF Onward
    <3>q. QED
      BY <2>2, <3>4 DEF ReachesOn
  <2>q. QED
    BY <1>3, <2>1, <2>2
<1>5. Reaches(d, Dst(d, i), Src(d, i))
  BY <1>2, <1>4, ReachOrder
<1>q. QED
  BY <1>1, <1>4, <1>5, ReachOrder

-----------------------------------------------------------------------------
(* A step that chooses is under way alone, and no method is called again     *)
(* before the flow pauses.                                                   *)

\* What the document has to be: every loop is a revise of a gate, and nothing is chosen
\* beside another branch.
Revises ==
    /\ plan = WholePlan /\ LoopsNest /\ ChoicesAlone
    /\ OfKind(doc, {"router"}) = {} /\ \A i \in flow.back : doc.edges[i].port = "revise"

\* The engine called the step half of a node, and that half has ended.
Called(eng, n) == eng.calls[<<n, "step">>] # 0
Emitted(eng, n) == Called(eng, n) /\ \A e \in eng.active : e.method # <<n, "step">>

\* What is under way at a step that leads to one that chooses is alone, and behind all that
\* was called.
Lone(d, eng) ==
    \A e \in eng.active : Chooses(d, e.method[1]) =>
        /\ \A f \in eng.active : f = e
        /\ \A n \in StepNodes(d) : Called(eng, n) => ReachesOn(d, n, e.method[1])

\* What keeps a step that leads to no choice from being called again: it fired, or all it
\* listens to has ended.
Spent(fl, eng, n) ==
    \/ n \in fl.once /\ n \in eng.fired
    \/ n \notin fl.once /\ \A ev \in fl.listen[n].any \union fl.listen[n].all : ev[2] = Ran => Emitted(eng, ev[1])

\* Each step is called once.
OnceEach(d, fl, eng) ==
    /\ \A e \in eng.active : e.method[2] = "step" => Called(eng, e.method[1])
    /\ \A e, f \in eng.active : e.method = f.method /\ e.method[2] = "step" => e = f
    /\ \A m \in eng.done : m[2] = "step" => Called(eng, m[1])
    /\ \A n \in StepNodes(d) : Called(eng, n) /\ ~Chooses(d, n) => Spent(fl, eng, n)
    /\ \A n \in StepNodes(d) : \A ev \in eng.arrived[n] : ev[2] = Ran => Emitted(eng, ev[1])

\* Such a document stays one.
LEMMA RevisesStay == ASSUME UNCHANGED <<doc, plan, flow>> PROVE Revises' <=> Revises
  BY DEF Revises, LoopsNest, ChoicesAlone

\* Its loops are those of gates.
LEMMA RevisesFacts ==
    ASSUME FlowOK, Revises
    PROVE  /\ \A i \in BackEdges(doc) : /\ Src(doc, i) \in StepNodes(doc) /\ KindOf(doc, Src(doc, i)) = "gate"
                                        /\ doc.edges[i].port = "revise"
           /\ \A n \in StepNodes(doc) : KindOf(doc, n) # "gate" =>
                 \A m : <<n, m>> \in Along(doc) => <<n, m>> \in Onward(doc)
<1>0. IsDocument(doc) /\ Publishable(doc) /\ Linked(doc) /\ flow.back = BackEdges(doc)
  BY WholeFacts DEF Revises
<1>1. ASSUME NEW i \in BackEdges(doc)
      PROVE  Src(doc, i) \in StepNodes(doc) /\ KindOf(doc, Src(doc, i)) = "gate" /\ doc.edges[i].port = "revise"
  <2>1. i \in FlowEdges(doc)
    BY <1>0, BackEdgesAreFlow
  <2>2. Src(doc, i) \in StepNodes(doc) /\ KindOf(doc, Src(doc, i)) \in RoutingKinds
    BY <1>0, <2>1, EdgeFacts
  <2>3. KindOf(doc, Src(doc, i)) # "router"
    BY <1>0, <2>2 DEF Revises, OfKind, KindOf, StepNodes
  <2>q. QED
    BY <1>0, <2>2, <2>3 DEF RoutingKinds, Revises
<1>2. ASSUME NEW n \in StepNodes(doc), KindOf(doc, n) # "gate", NEW m, <<n, m>> \in Along(doc)
      PROVE  <<n, m>> \in Onward(doc)
  <2>1. PICK i \in FlowEdges(doc) : Src(doc, i) = n /\ Dst(doc, i) = m
    <3>1. <<n, m>>[1] = n /\ <<n, m>>[2] = m
      OBVIOUS
    <3>q. QED
      BY <1>0, <1>2, <3>1, AlongFacts
  <2>2. i \notin BackEdges(doc)
    BY <1>1, <1>2, <2>1
  <2>3. <<Src(doc, i), Dst(doc, i)>> \in Onward(doc)
    BY <2>2, EdgeIsPair DEF Onward
  <2>q. QED
    BY <2>1, <2>3
<1>q. QED
  BY <1>1, <1>2

\* Different ports of a node carry different events.
LEMMA EventTellsPort ==
    ASSUME NEW d, IsDocument(d), Publishable(d), NEW n \in StepNodes(d), NEW p \in OutPorts(d, n),
           NEW q \in OutPorts(d, n), Event(d, n, p) = Event(d, n, q)
    PROVE  p = q
<1>1. CASE ~IsRouted(d, n)
  BY <1>1, EventFacts
<1>2. CASE RoutesErrors(d, n)
  <2>1. KindOf(d, n) \in BillableKinds
    BY <1>2, EventFacts
  <2>2. OutPorts(d, n) = {"out", "error"}
    BY <1>2, <2>1 DEF OutPorts, BillableKinds
  <2>q. QED
    BY <1>2, <2>2 DEF Event, IsRouted
<1>3. CASE IsRouted(d, n) /\ ~RoutesErrors(d, n)
  BY <1>3 DEF Event
<1>q. QED
  BY <1>1, <1>2, <1>3

\* What an event triggers is where an edge that carries it leads.
LEMMA TriggeredEdge ==
    ASSUME FlowOK, plan = WholePlan, NEW eng, NEW ev, NEW n \in Triggered(eng, ev)
    PROVE  \E i \in FlowEdges(doc) : Src(doc, i) = ev[1] /\ Dst(doc, i) = n /\ ev = Carried(doc, i)
<1>1. n \in StepNodes(doc) /\ ev \in flow.listen[n].any \union flow.listen[n].all
  BY TriggeredAlong
<1>2. HearsEdges(doc, n, flow.listen[n]) /\ IsDocument(doc) /\ Publishable(doc)
  BY <1>1, WholeFacts
<1>3. PICK i \in FlowEdges(doc) : Dst(doc, i) = n /\ ev = Carried(doc, i)
  BY <1>1, <1>2 DEF HearsEdges
<1>4. Src(doc, i) \in StepNodes(doc) /\ doc.edges[i].port \in OutPorts(doc, Src(doc, i))
  BY <1>2, EdgeFacts
<1>5. Carried(doc, i)[1] = Src(doc, i)
  BY <1>2, <1>4, EventFacts DEF Carried
<1>q. QED
  BY <1>3, <1>5

\* What leads to a choice is triggered alone.
LEMMA ChosenAlone ==
    ASSUME FlowOK, Revises, NEW eng, NEW ev, NEW n \in Triggered(eng, ev), NEW m \in Triggered(eng, ev),
           Chooses(doc, n)
    PROVE  m = n
<1>0. IsDocument(doc) /\ Publishable(doc) /\ plan = WholePlan /\ Linked(doc)
  BY WholeFacts DEF Revises
<1>1. PICK i \in FlowEdges(doc) : Src(doc, i) = ev[1] /\ Dst(doc, i) = n /\ ev = Carried(doc, i)
  BY <1>0, TriggeredEdge
<1>2. PICK j \in FlowEdges(doc) : Src(doc, j) = ev[1] /\ Dst(doc, j) = m /\ ev = Carried(doc, j)
  BY <1>0, TriggeredEdge
<1>3. ev[1] \in StepNodes(doc) /\ doc.edges[i].port \in OutPorts(doc, ev[1]) /\ doc.edges[j].port \in OutPorts(doc, ev[1])
  BY <1>0, <1>1, <1>2, EdgeFacts
<1>4. doc.edges[i].port = doc.edges[j].port
  BY <1>0, <1>1, <1>2, <1>3, EventTellsPort DEF Carried
<1>5. SUFFICES ASSUME i # j PROVE FALSE
  BY <1>1, <1>2
<1>6. \A x \in Reachable({Dst(doc, i), Dst(doc, j)}, Along(doc)) : ~IsRouted(doc, x)
  BY <1>1, <1>2, <1>4, <1>5 DEF Revises, ChoicesAlone, Src, Dst, Along
<1>7. PICK c \in Choosers(doc) : Reaches(doc, n, c)
  BY DEF Chooses
<1>8. n \in Nodes(doc) /\ m \in Nodes(doc)
  BY <1>0, <1>1, <1>2, EdgeFacts, AlongFacts
<1>9. {n} \in SUBSET Reachable({n, m}, Along(doc)) /\ {n, m} \in SUBSET Nodes(doc)
  BY <1>0, <1>8, ReachFacts DEF Along
<1>10. Reachable({n}, Along(doc)) \subseteq Reachable({n, m}, Along(doc))
  BY <1>0, <1>9, ReachComposes DEF Along
<1>q. QED
  BY <1>1, <1>2, <1>6, <1>7, <1>10 DEF Reaches, Choosers

\* An execution ends with an event of its own node, and with no label only as a step half.
EndsAs(eng, e, n, ev) ==
    /\ e \in eng.active /\ e.method[1] = n /\ ev[1] = n
    /\ ev[2] = Ran <=> ~IsRouted(doc, n)
    /\ ev[2] = Ran => e.method = <<n, "step">>

\* It leads on, or it is the first of a new engine.
LeadsOn(eng, ev) ==
    \/ \A m \in Triggered(eng, ev) : <<ev[1], m>> \in Onward(doc)
    \/ \A m \in StepNodes(doc) : ~Called(eng, m)

\* What an event triggers was not called before.
LEMMA TriggersNew ==
    ASSUME FlowOK, Revises, NEW eng, Lone(doc, eng), OnceEach(doc, flow, eng),
           NEW n \in StepNodes(doc), NEW e, NEW ev, EndsAs(eng, e, n, ev), LeadsOn(eng, ev),
           NEW m \in Triggered(eng, ev)
    PROVE  ~Called(eng, m)
<1>0. /\ IsDocument(doc) /\ Publishable(doc) /\ plan = WholePlan
      /\ m \in StepNodes(doc) /\ m \in Hearing(eng, ev) /\ <<n, m>> \in Along(doc)
      /\ ev \in flow.listen[m].any \union flow.listen[m].all
  BY WholeFacts, TriggeredAlong DEF Revises, EndsAs
<1>1. SUFFICES ASSUME Called(eng, m) PROVE FALSE
  OBVIOUS
<1>2. <<n, m>> \in Onward(doc)
  BY <1>0, <1>1 DEF LeadsOn, EndsAs
<1>3. CASE Chooses(doc, n)
  <2>1. ReachesOn(doc, m, n)
    BY <1>0, <1>1, <1>3 DEF Lone, EndsAs
  <2>q. QED
    BY <1>0, <1>2, <2>1, ReachOrder
<1>4. CASE ~Chooses(doc, n)
  <2>1. ~Chooses(doc, m) /\ ~IsRouted(doc, n)
    BY <1>0, <1>4, ChoosesFacts
  <2>2. ev[2] = Ran /\ e.method = <<n, "step">> /\ e \in eng.active
    BY <2>1 DEF EndsAs
  <2>3. Spent(flow, eng, m)
    BY <1>0, <1>1, <2>1 DEF OnceEach
  <2>4. CASE m \in flow.once /\ m \in eng.fired
    BY <1>0, <2>2, <2>4 DEF Hearing, Armed, Once
  <2>5. CASE \A x \in flow.listen[m].any \union flow.listen[m].all : x[2] = Ran => Emitted(eng, x[1])
    <3>1. Emitted(eng, n)
      BY <1>0, <2>2, <2>5 DEF EndsAs
    <3>q. QED
      BY <2>2, <3>1 DEF Emitted
  <2>q. QED
    BY <2>3, <2>4, <2>5 DEF Spent
<1>q. QED
  BY <1>3, <1>4

\* What was called after an event.
LEMMA CalledThen ==
    ASSUME FlowOK, plan = WholePlan, NEW eng, EngineOK(doc, flow, eng), NEW e, NEW ev, NEW t, Emission(eng, e, ev, t),
           NEW m \in StepNodes(doc)
    PROVE  Called(t, m) <=> Called(eng, m) \/ m \in Triggered(eng, ev)
<1>1. <<m, "step">> \in Methods /\ <<m, "step">> \in Halves(StepNodes(doc))
  BY DEF Methods, Halves
<1>2. t.calls[<<m, "step">>] = eng.calls[<<m, "step">>] + (IF m \in Triggered(eng, ev) THEN 1 ELSE 0)
  BY <1>1 DEF Emission
<1>3. eng.calls[<<m, "step">>] \in Nat
  BY <1>1 DEF EngineOK
<1>q. QED
  BY <1>2, <1>3 DEF Called

\* What is under way at a step that chooses stays alone.
LEMMA LoneStays ==
    ASSUME FlowOK, Revises, NEW eng, EngineOK(doc, flow, eng), Lone(doc, eng),
           NEW n \in StepNodes(doc), NEW e, NEW ev, EndsAs(eng, e, n, ev), LeadsOn(eng, ev),
           NEW t, Emission(eng, e, ev, t)
    PROVE  Lone(doc, t)
<1>0. IsDocument(doc) /\ Publishable(doc) /\ plan = WholePlan
  BY WholeFacts DEF Revises
<1>1. PICK new : /\ Calling(new, Triggered(eng, ev) \X {"step"})
                 /\ t.active \subseteq (eng.active \ {e}) \union new
  BY DEF Emission
<1>2. SUFFICES ASSUME NEW g \in t.active, Chooses(doc, g.method[1])
               PROVE  /\ \A f \in t.active : f = g
                      /\ \A m \in StepNodes(doc) : Called(t, m) => ReachesOn(doc, m, g.method[1])
  BY DEF Lone
<1>3. g \in new
  BY <1>1, <1>2 DEF Lone, EndsAs
<1>4. PICK u \in Triggered(eng, ev) : g.method = <<u, "step">>
  BY <1>1, <1>3 DEF Calling
<1>5. g.method[1] = u /\ Chooses(doc, u) /\ u \in StepNodes(doc) /\ <<n, u>> \in Along(doc)
  BY <1>0, <1>2, <1>4, TriggeredAlong DEF EndsAs
<1>6. Chooses(doc, n)
  BY <1>0, <1>5, ChoosesFacts
<1>7. eng.active = {e} /\ \A m \in StepNodes(doc) : Called(eng, m) => ReachesOn(doc, m, n)
  BY <1>6 DEF Lone, EndsAs
<1>8. \A m \in Triggered(eng, ev) : m = u
  BY <1>5, ChosenAlone
<1>9. ASSUME NEW f \in t.active PROVE f = g
  <2>1. f \in new
    BY <1>1, <1>7
  <2>2. PICK w \in Triggered(eng, ev) : f.method = <<w, "step">>
    BY <1>1, <2>1 DEF Calling
  <2>q. QED
    BY <1>1, <1>3, <1>4, <1>8, <2>1, <2>2 DEF Calling
<1>10. ASSUME NEW m \in StepNodes(doc), Called(t, m) PROVE ReachesOn(doc, m, u)
  <2>1. CASE m \in Triggered(eng, ev)
    BY <1>0, <1>5, <1>8, <2>1, ReachOrder
  <2>2. CASE Called(eng, m)
    <3>1. <<n, u>> \in Onward(doc)
      BY <2>2 DEF LeadsOn, EndsAs
    <3>2. ReachesOn(doc, n, u) /\ ReachesOn(doc, m, n)
      BY <1>0, <1>7, <2>2, <3>1, ReachOrder
    <3>q. QED
      BY <1>0, <1>5, <3>2, ReachOrder
  <2>q. QED
    BY <1>0, <1>10, <2>1, <2>2, CalledThen
<1>q. QED
  BY <1>5, <1>9, <1>10

\* What has ended stays so, and what just ended has.
LEMMA EmittedStays ==
    ASSUME FlowOK, Revises, NEW eng, EngineOK(doc, flow, eng), Lone(doc, eng), OnceEach(doc, flow, eng),
           NEW n \in StepNodes(doc), NEW e, NEW ev, EndsAs(eng, e, n, ev), LeadsOn(eng, ev),
           NEW t, Emission(eng, e, ev, t)
    PROVE  /\ \A m \in StepNodes(doc) : Emitted(eng, m) => Emitted(t, m)
           /\ ev[2] = Ran => Emitted(t, n)
<1>0. plan = WholePlan
  BY DEF Revises
<1>1. PICK new : /\ Calling(new, Triggered(eng, ev) \X {"step"})
                 /\ t.active \subseteq (eng.active \ {e}) \union new
  BY DEF Emission
<1>2. \A m \in Triggered(eng, ev) : ~Called(eng, m)
  BY TriggersNew
<1>3. ASSUME NEW m \in StepNodes(doc), Called(eng, m), \A f \in eng.active \ {e} : f.method # <<m, "step">>
      PROVE  Emitted(t, m)
  <2>1. Called(t, m)
    BY <1>0, <1>3, CalledThen
  <2>2. \A f \in new : f.method # <<m, "step">>
    <3>1. SUFFICES ASSUME NEW f \in new, f.method = <<m, "step">> PROVE FALSE
      OBVIOUS
    <3>2. m \in Triggered(eng, ev)
      BY <1>1, <3>1 DEF Calling
    <3>q. QED
      BY <1>2, <1>3, <3>2
  <2>q. QED
    BY <1>1, <1>3, <2>1, <2>2 DEF Emitted
<1>4. \A m \in StepNodes(doc) : Emitted(eng, m) => Emitted(t, m)
  BY <1>3 DEF Emitted
<1>5. ev[2] = Ran => Emitted(t, n)
  <2>1. SUFFICES ASSUME ev[2] = Ran PROVE Emitted(t, n)
    OBVIOUS
  <2>2. e \in eng.active /\ e.method = <<n, "step">> /\ e.method[2] = "step" /\ e.method[1] = n
    BY <2>1 DEF EndsAs
  <2>3. Called(eng, n) /\ \A f \in eng.active \ {e} : f.method # <<n, "step">>
    BY <2>2 DEF OnceEach
  <2>q. QED
    BY <1>3, <2>3
<1>q. QED
  BY <1>4, <1>5

\* A listener that does not fire once listens to one event, or to all of several.
LEMMA NotOnce ==
    ASSUME FlowOK, plan = WholePlan, NEW n \in StepNodes(doc), n \notin flow.once, ~IsRouted(doc, n)
    PROVE  /\ flow.listen[n].any = {} \/ flow.listen[n].all = {}
           /\ \A x, y \in flow.listen[n].any : x = y
<1> DEFINE any == flow.listen[n].any
<1> DEFINE all == flow.listen[n].all
<1>0. /\ IsDocument(doc) /\ Publishable(doc) /\ Linked(doc) /\ HearsEdges(doc, n, flow.listen[n])
      /\ Once(n) = (IsMultiEventOr(flow.listen[n]) /\ ~Router(n))
  BY WholeFacts
<1>1. ~IsMultiEventOr(flow.listen[n])
  BY <1>0 DEF Once, Router, IsRouted, RoutingKinds, KindOf
<1>2. IsFiniteSet(any)
  <2> DEFINE f == [i \in FlowEdges(doc) |-> Carried(doc, i)]
  <2> DEFINE image == {Carried(doc, i) : i \in FlowEdges(doc)}
  <2>1. any \subseteq image
    BY <1>0 DEF HearsEdges
  <2>2. IsFiniteSet(FlowEdges(doc))
    <3>1. FlowEdges(doc) \subseteq EdgeIds(doc)
      BY DEF FlowEdges, EdgesInto
    <3>q. QED
      BY <1>0, <3>1, FS_Subset DEF Linked
  <2>3. f \in Surjection(FlowEdges(doc), image)
    BY DEF Surjection
  <2> HIDE DEF f, image
  <2>4. IsFiniteSet(image)
    BY <2>2, <2>3, FS_Surjection DEF ExistsSurjection
  <2>q. QED
    BY <2>1, <2>4, FS_Subset
<1> HIDE DEF any, all
<1>3. Cardinality(any) \in Nat /\ (any # {} => Cardinality(any) # 0)
  BY <1>2, FS_CardinalityType, FS_EmptySet
<1>4. any = {} \/ (all = {} /\ Cardinality(any) < 2)
  BY <1>1, <1>3 DEF IsMultiEventOr, any, all
<1>5. \A x, y \in any : x = y
  <2>1. SUFFICES ASSUME NEW x \in any, NEW y \in any, x # y PROVE FALSE
    OBVIOUS
  <2>2. Cardinality({x}) = 1 /\ IsFiniteSet({x})
    BY FS_Singleton
  <2>3. Cardinality({x} \union {y}) = 2
    BY <2>1, <2>2, FS_AddElement
  <2>4. {x} \union {y} \subseteq any
    OBVIOUS
  <2>5. 2 <= Cardinality(any)
    BY <1>2, <2>3, <2>4, FS_Subset
  <2>q. QED
    BY <1>3, <1>4, <2>5
<1>q. QED
  BY <1>4, <1>5 DEF any, all

\* Every event leaves each step called once.
LEMMA OnceEachStays ==
    ASSUME FlowOK, Revises, NEW eng, EngineOK(doc, flow, eng), Lone(doc, eng), OnceEach(doc, flow, eng),
           NEW n \in StepNodes(doc), NEW e, NEW ev, EndsAs(eng, e, n, ev), LeadsOn(eng, ev),
           NEW t, Emission(eng, e, ev, t)
    PROVE  OnceEach(doc, flow, t)
<1>0. /\ IsDocument(doc) /\ Publishable(doc) /\ plan = WholePlan /\ flow.steps = StepNodes(doc)
      /\ \A m \in Triggered(eng, ev) : m \in StepNodes(doc) /\ ~Called(eng, m)
      /\ \A m \in StepNodes(doc) : Called(t, m) <=> Called(eng, m) \/ m \in Triggered(eng, ev)
      /\ \A m \in StepNodes(doc) : Emitted(eng, m) => Emitted(t, m)
      /\ ev[2] = Ran => Emitted(t, n)
  <2>1. \A m \in Triggered(eng, ev) : m \in StepNodes(doc) /\ ~Called(eng, m)
    BY TriggersNew, TriggeredAlong DEF Revises
  <2>2. \A m \in StepNodes(doc) : Called(t, m) <=> Called(eng, m) \/ m \in Triggered(eng, ev)
    BY CalledThen DEF Revises
  <2>q. QED
    BY <2>1, <2>2, EmittedStays, WholeFacts DEF Revises
<1>1. PICK new : /\ Calling(new, Triggered(eng, ev) \X {"step"})
                 /\ t.active \subseteq (eng.active \ {e}) \union new
  BY DEF Emission
<1>2. /\ \A f \in eng.active : f.method = <<f.method[1], f.method[2]>> /\ f.method[1] \in StepNodes(doc)
      /\ \A m \in eng.done : m = <<m[1], m[2]>> /\ m[1] \in StepNodes(doc)
  BY <1>0 DEF EngineOK, Halves
<1>3. \A f \in new : \E m \in Triggered(eng, ev) : f.method = <<m, "step">>
  BY <1>1 DEF Calling
<1>4. ASSUME NEW f \in t.active, f.method[2] = "step" PROVE Called(t, f.method[1])
  <2>1. CASE f \in eng.active
    BY <1>0, <1>2, <1>4, <2>1 DEF OnceEach
  <2>2. CASE f \in new
    BY <1>0, <1>3, <2>2
  <2>q. QED
    BY <1>1, <2>1, <2>2
<1>5. ASSUME NEW f \in t.active, NEW g \in t.active, f.method = g.method, f.method[2] = "step" PROVE f = g
  <2>1. CASE f \in eng.active /\ g \in eng.active
    BY <1>5, <2>1 DEF OnceEach
  <2>2. CASE f \in new /\ g \in new
    BY <1>1, <1>5, <2>2 DEF Calling
  <2>3. \A x \in eng.active, y \in new : x.method = y.method /\ x.method[2] = "step" => FALSE
    BY <1>0, <1>3 DEF OnceEach
  <2>q. QED
    BY <1>1, <1>5, <2>1, <2>2, <2>3
<1>6. \A m \in eng.done \union {e.method} : m[2] = "step" => m[1] \in StepNodes(doc) /\ Called(eng, m[1])
  BY <1>2 DEF OnceEach, EndsAs
<1>7. \A m \in t.done : m[2] = "step" => Called(t, m[1])
  BY <1>0, <1>6 DEF Emission
<1>8. t.fired = Armed(eng, ev) \union {m \in Triggered(eng, ev) : Once(m)}
  <2>1. (Triggered(eng, ev) \X {"step"}) \intersect (eng.done \union {e.method}) = {}
    BY <1>0, <1>6
  <2>q. QED
    BY <2>1 DEF Emission
<1>9. \A m \in StepNodes(doc) : \A x \in flow.listen[m].any \union flow.listen[m].all : x[1] \in StepNodes(doc)
  <2>1. TAKE m \in StepNodes(doc)
  <2>2. TAKE x \in flow.listen[m].any \union flow.listen[m].all
  <2>3. <<x[1], m>> \in Along(doc)
    BY <1>0, HeardAlong
  <2>q. QED
    BY <1>0, <2>3, ReachOrder
<1>10. \A m \in StepNodes(doc) : \A x \in eng.arrived[m] : x[2] = Ran => Emitted(t, x[1])
  <2>1. \A m \in StepNodes(doc) : \A x \in eng.arrived[m] : x[1] \in StepNodes(doc)
    BY <1>0, <1>9 DEF EngineOK
  <2>q. QED
    BY <1>0, <2>1 DEF OnceEach
<1>11. ev[1] = n
  BY DEF EndsAs
<1>12. ASSUME NEW m \in StepNodes(doc), ~Chooses(doc, m), m \in Triggered(eng, ev) PROVE Spent(flow, t, m)
  <2>1. CASE m \in flow.once
    BY <1>8, <1>12, <2>1 DEF Spent, Once
  <2>2. CASE m \notin flow.once
    <3>1. ~IsRouted(doc, m)
      BY <1>0, <1>12, ChoosesFacts
    <3>2. /\ flow.listen[m].any = {} \/ flow.listen[m].all = {}
          /\ \A x, y \in flow.listen[m].any : x = y
      BY <1>0, <2>2, <3>1, NotOnce
    <3>3. CASE m \in Complete(eng, ev)
      <4>1. ev \in flow.listen[m].all /\ eng.arrived[m] \union {ev} = flow.listen[m].all
        BY <3>3 DEF Complete
      <4>2. \A x \in flow.listen[m].any \union flow.listen[m].all : x = ev \/ x \in eng.arrived[m]
        BY <3>2, <4>1
      <4>q. QED
        BY <1>0, <1>10, <1>11, <2>2, <4>2 DEF Spent
    <3>4. CASE ev \in flow.listen[m].any
      <4>1. \A x \in flow.listen[m].any \union flow.listen[m].all : x = ev
        BY <3>2, <3>4
      <4>q. QED
        BY <1>0, <1>11, <2>2, <4>1 DEF Spent
    <3>q. QED
      BY <1>12, <3>3, <3>4 DEF Triggered
  <2>q. QED
    BY <2>1, <2>2
<1>13. ASSUME NEW m \in StepNodes(doc), ~Chooses(doc, m), Called(eng, m) PROVE Spent(flow, t, m)
  <2>1. ~Chooses(doc, n)
    <3>1. Chooses(doc, n) => ReachesOn(doc, m, n)
      BY <1>13 DEF Lone, EndsAs
    <3>q. QED
      BY <1>0, <1>13, <3>1, ReachOrder, ChoosesFacts
  <2>2. ev[2] = Ran
    BY <1>0, <2>1, ChoosesFacts DEF EndsAs
  <2>3. Spent(flow, eng, m)
    BY <1>13 DEF OnceEach
  <2>4. eng.fired \subseteq t.fired
    BY <1>8, <2>2 DEF Armed
  <2>q. QED
    BY <1>0, <1>9, <2>3, <2>4 DEF Spent
<1>14. \A m \in StepNodes(doc) : Called(t, m) /\ ~Chooses(doc, m) => Spent(flow, t, m)
  BY <1>0, <1>12, <1>13
<1>15. ASSUME NEW m \in StepNodes(doc), NEW x \in t.arrived[m], x[2] = Ran PROVE Emitted(t, x[1])
  <2>1. x \in eng.arrived[m] \/ x = ev
    BY <1>15, ArrivedFacts
  <2>q. QED
    BY <1>0, <1>10, <1>11, <1>15, <2>1
<1>q. QED
  BY <1>4, <1>5, <1>7, <1>14, <1>15 DEF OnceEach

\* A new engine after a reply, in which no step half was called.
LEMMA FreshAlone ==
    ASSUME NEW n, NEW e, NEW eng, Fresh(n, e, eng)
    PROVE  /\ Lone(doc, eng) /\ OnceEach(doc, flow, eng) /\ \A m \in StepNodes(doc) : ~Called(eng, m)
<1>1. ASSUME NEW m \in StepNodes(doc) PROVE ~Called(eng, m)
  <2>1. <<m, "step">> \in Methods /\ <<m, "step">> # <<n, "route">>
    BY DEF Methods
  <2>q. QED
    BY <2>1 DEF Fresh, Called
<1>2. \A f \in eng.active : f = e /\ f.method[2] # "step"
  BY DEF Fresh
<1>3. eng.done = {} /\ \A m \in StepNodes(doc) : eng.arrived[m] = {}
  BY DEF Fresh
<1>4. Lone(doc, eng)
  BY <1>1, <1>2 DEF Lone
<1>q. QED
  BY <1>1, <1>2, <1>3, <1>4 DEF OnceEach

\* A run that starts: at the one input, which listens to nothing.
LEMMA StartsAlone ==
    ASSUME FlowOK, Revises, NEW t, t = NewEngine(Starts)
    PROVE  Lone(doc, t) /\ OnceEach(doc, flow, t)
<1>0. IsDocument(doc) /\ Publishable(doc) /\ plan = WholePlan
  BY WholeFacts DEF Revises
<1>1. /\ Calling(t.active, Starts) /\ t.fired = {} /\ t.arrived = [n \in StepNodes(doc) |-> {}]
      /\ t.done = {}
  BY NewEngineEffects
<1>2. t.calls = [m \in Methods |-> IF m \in Starts THEN 1 ELSE 0]
  BY DEF NewEngine
<1>3. \A m, n \in OfKind(doc, {"input"}) : m = n
  <2>1. IsFiniteSet(OfKind(doc, {"input"}))
    BY <1>0, AlongFacts, FS_Subset DEF Linked
  <2>2. Cardinality(OfKind(doc, {"input"})) = 1
    BY DEF Revises, ChoicesAlone
  <2>q. QED
    BY <2>1, <2>2, FS_Singleton
<1>4. \A m \in StepNodes(doc) : Called(t, m) <=> m \in OfKind(doc, {"input"})
  <2>1. TAKE m \in StepNodes(doc)
  <2>2. <<m, "step">> \in Methods
    BY DEF Methods
  <2>3. <<m, "step">> \in Starts <=> m \in OfKind(doc, {"input"})
    BY DEF Starts
  <2>q. QED
    BY <1>2, <2>2, <2>3 DEF Called
<1>5. \A f \in t.active : \E n \in OfKind(doc, {"input"}) : f.method = <<n, "step">>
  <2>1. \A m \in Starts : \E n \in OfKind(doc, {"input"}) : m = <<n, "step">>
    BY DEF Starts
  <2>q. QED
    BY <1>1, <2>1 DEF Calling
<1>6. OfKind(doc, {"input"}) \subseteq StepNodes(doc)
  BY <1>0, DocumentFacts
<1>7. \A f \in t.active : f.method[2] = "step" /\ f.method[1] \in OfKind(doc, {"input"})
  BY <1>5
<1>8. \A f, g \in t.active : f = g
  <2>1. TAKE f, g \in t.active
  <2>2. f.method = g.method
    BY <1>3, <1>5
  <2>q. QED
    BY <1>1, <2>2 DEF Calling
<1>9. ASSUME NEW f \in t.active, NEW m \in StepNodes(doc), Called(t, m) PROVE ReachesOn(doc, m, f.method[1])
  <2>1. m = f.method[1]
    BY <1>3, <1>4, <1>7, <1>9
  <2>q. QED
    BY <1>0, <2>1, ReachOrder
<1>10. ASSUME NEW m \in StepNodes(doc), Called(t, m) PROVE Spent(flow, t, m)
  <2>1. m \in OfKind(doc, {"input"}) /\ HearsEdges(doc, m, flow.listen[m])
    BY <1>0, <1>4, <1>10, WholeFacts
  <2>2. \A i \in FlowEdges(doc) : Dst(doc, i) # m
    BY <1>0, <2>1, EdgeFacts DEF OfKind, KindOf
  <2>3. flow.listen[m].any = {} /\ flow.listen[m].all = {}
    BY <2>1, <2>2 DEF HearsEdges
  <2>4. m \notin flow.once
    <3>1. Once(m) = (IsMultiEventOr(flow.listen[m]) /\ ~Router(m))
      BY <1>0, WholeFacts
    <3>q. QED
      BY <2>3, <3>1 DEF Once, IsMultiEventOr
  <2>q. QED
    BY <2>3, <2>4 DEF Spent
<1>11. Lone(doc, t)
  BY <1>8, <1>9 DEF Lone
<1>12. \A m \in StepNodes(doc) : t.arrived[m] = {}
  BY <1>1
<1>q. QED
  BY <1>1, <1>4, <1>6, <1>7, <1>8, <1>10, <1>11, <1>12 DEF OnceEach

\* A step half that calls its router half: a node that chooses, alone.
LEMMA PairAlone ==
    ASSUME FlowOK, plan = WholePlan, NEW eng, EngineOK(doc, flow, eng), Lone(doc, eng), OnceEach(doc, flow, eng),
           NEW n \in StepNodes(doc), IsRouted(doc, n), NEW e \in eng.active, e.method = <<n, "step">>,
           NEW t, Pairing(n, e, eng, t)
    PROVE  /\ Lone(doc, t) /\ OnceEach(doc, flow, t)
           /\ \A m \in StepNodes(doc) : Called(t, m) <=> Called(eng, m)
           /\ \A f \in t.active : f.method = <<n, "route">>
<1>0. IsDocument(doc) /\ Publishable(doc)
  BY WholeFacts
<1>1. Chooses(doc, n) /\ e.method[1] = n /\ e.method[2] = "step"
  BY <1>0, ChoosesFacts
<1>2. eng.active = {e} /\ \A m \in StepNodes(doc) : Called(eng, m) => ReachesOn(doc, m, n)
  BY <1>1 DEF Lone
<1>3. PICK f : f.method = <<n, "route">> /\ t.active = {f}
  BY <1>2 DEF Pairing
<1>4. ASSUME NEW m \in StepNodes(doc) PROVE Called(t, m) <=> Called(eng, m)
  <2>1. <<m, "step">> \in Methods /\ <<m, "step">> \in Halves(StepNodes(doc)) /\ <<m, "step">> # <<n, "route">>
    BY DEF Methods, Halves
  <2>2. eng.calls[<<m, "step">>] \in Nat
    BY <2>1 DEF EngineOK
  <2>q. QED
    BY <2>1, <2>2 DEF Called, Pairing
<1>5. \A m \in StepNodes(doc) : Called(t, m) => Chooses(doc, m)
  BY <1>0, <1>1, <1>2, <1>4, ReachOrder, ChoosesFacts
<1>6. f.method[1] = n /\ f.method[2] # "step" /\ \A m : f.method # <<m, "step">>
  BY <1>3
<1>7. Lone(doc, t)
  BY <1>2, <1>3, <1>4, <1>6 DEF Lone
<1>8. \A m \in StepNodes(doc) : Emitted(eng, m) => Emitted(t, m)
  BY <1>3, <1>4, <1>6 DEF Emitted
<1>9. \A m \in StepNodes(doc) : \A x \in eng.arrived[m] : x[1] \in StepNodes(doc)
  <2>1. TAKE m \in StepNodes(doc)
  <2>2. TAKE x \in eng.arrived[m]
  <2>3. <<x[1], m>> \in Along(doc)
    BY HeardAlong, WholeFacts DEF EngineOK
  <2>q. QED
    BY <1>0, <2>3, ReachOrder
<1>10. \A m \in StepNodes(doc) : \A x \in t.arrived[m] : x[2] = Ran => Emitted(t, x[1])
  BY <1>8, <1>9 DEF OnceEach, Pairing
<1>11. ASSUME NEW m \in t.done, m[2] = "step" PROVE Called(t, m[1])
  <2>1. m \in eng.done \/ m = e.method
    BY <1>11 DEF Pairing
  <2>2. m[1] \in StepNodes(doc)
    BY <1>1, <2>1, WholeFacts DEF EngineOK, Halves
  <2>3. Called(eng, m[1])
    BY <1>11, <2>1 DEF OnceEach
  <2>q. QED
    BY <1>4, <2>2, <2>3
<1>q. QED
  BY <1>3, <1>5, <1>4, <1>6, <1>7, <1>10, <1>11 DEF OnceEach

\* A router that re-arms: nothing that chooses nothing was called.
LEMMA RearmAlone ==
    ASSUME FlowOK, plan = WholePlan, NEW eng, Lone(doc, eng), OnceEach(doc, flow, eng),
           NEW n \in StepNodes(doc), NEW e \in eng.active, e.method[1] = n, NEW t,
           t.active = eng.active, t.calls = eng.calls, t.done = eng.done, t.arrived = eng.arrived,
           ~IsRouted(doc, n) => t.fired = eng.fired
    PROVE  Lone(doc, t) /\ OnceEach(doc, flow, t)
<1>0. IsDocument(doc) /\ Publishable(doc)
  BY WholeFacts
<1>1. \A m : (Called(t, m) <=> Called(eng, m)) /\ (Emitted(t, m) <=> Emitted(eng, m))
  BY DEF Called, Emitted
<1>2. Lone(doc, t)
  BY <1>1 DEF Lone
<1>3. ASSUME NEW m \in StepNodes(doc), Called(t, m), ~Chooses(doc, m) PROVE Spent(flow, t, m)
  <2>1. Chooses(doc, n) => ReachesOn(doc, m, n)
    BY <1>1, <1>3 DEF Lone
  <2>2. ~IsRouted(doc, n)
    BY <1>0, <1>3, <2>1, ReachOrder, ChoosesFacts
  <2>3. Spent(flow, eng, m)
    BY <1>1, <1>3 DEF OnceEach
  <2>q. QED
    BY <1>1, <2>2, <2>3 DEF Spent
<1>q. QED
  BY <1>1, <1>2, <1>3 DEF OnceEach

-----------------------------------------------------------------------------
(* How often a step may still run.                                           *)

\* What lies ahead of a step until a loop is closed: what is on a loop only as far as no
\* back edge is taken.
Ahead(d, x, y) == IF OnLoop(d, y) THEN ReachesOn(d, x, y) ELSE Reaches(d, x, y)

\* What was not called yet, and lies ahead of what is under way, may run once more; so may
\* what is under way.
Room(d, eng, ran, bound) ==
    \A e \in eng.active : \A n \in StepNodes(d) :
        n # e.method[1] /\ Ahead(d, e.method[1], n) /\ ~Called(eng, n) => ran[n] <= bound[n]
Early(eng, ran, bound) ==
    \A e \in eng.active : e.method[2] = "step" => ran[e.method[1]] <= bound[e.method[1]]

\* What lies ahead of the next step lay ahead before.
LEMMA AheadFacts ==
    ASSUME NEW d, IsDocument(d), Publishable(d)
    PROVE  /\ \A x, y : <<x, y>> \in Onward(d) => x # y /\ Ahead(d, x, y)
           /\ \A x, y, n : <<x, y>> \in Onward(d) /\ n \in StepNodes(d) /\ Ahead(d, y, n) =>
                 n # x /\ Ahead(d, x, n)
           /\ \A x, n \in StepNodes(d) : Ahead(d, x, n) => Reaches(d, x, n)
           /\ \A x, n \in StepNodes(d) : x # n /\ Ahead(d, x, n) => ~ReachesOn(d, n, x)
<1>1. ASSUME NEW x, NEW y, <<x, y>> \in Onward(d) PROVE x # y /\ Ahead(d, x, y)
  <2>1. <<x, y>> \in Along(d) /\ x \in StepNodes(d) /\ y \in StepNodes(d) /\ Reaches(d, x, y)
    BY <1>1, ReachOrder
  <2>2. ReachesOn(d, x, y) /\ ~ReachesOn(d, y, x)
    BY <1>1, ReachOrder
  <2>q. QED
    BY <2>1, <2>2 DEF Ahead
<1>2. ASSUME NEW x, NEW y, <<x, y>> \in Onward(d), NEW n \in StepNodes(d), Ahead(d, y, n)
      PROVE  n # x /\ Ahead(d, x, n)
  <2>1. /\ <<x, y>> \in Along(d) /\ x \in StepNodes(d) /\ y \in StepNodes(d) /\ Reaches(d, x, y)
        /\ ReachesOn(d, x, y) /\ ~ReachesOn(d, y, x)
    BY <1>2, ReachOrder
  <2>2. CASE OnLoop(d, n)
    <3>1. ReachesOn(d, y, n)
      BY <1>2, <2>2 DEF Ahead
    <3>2. ReachesOn(d, x, n)
      BY <2>1, <3>1, ReachOrder
    <3>q. QED
      BY <2>1, <2>2, <3>1, <3>2 DEF Ahead
  <2>3. CASE ~OnLoop(d, n)
    <3>1. Reaches(d, y, n)
      BY <1>2, <2>3 DEF Ahead
    <3>2. Reaches(d, x, n)
      BY <2>1, <3>1, ReachOrder
    <3>3. n # x
      BY <2>1, <2>3, <3>1, ReachOrder
    <3>q. QED
      BY <2>3, <3>2, <3>3 DEF Ahead
  <2>q. QED
    BY <2>2, <2>3
<1>3. \A x, n \in StepNodes(d) : Ahead(d, x, n) => Reaches(d, x, n)
  BY ReachOrder DEF Ahead
<1>4. ASSUME NEW x \in StepNodes(d), NEW n \in StepNodes(d), x # n, Ahead(d, x, n), ReachesOn(d, n, x) PROVE FALSE
  <2>1. CASE OnLoop(d, n)
    <3>1. ReachesOn(d, x, n)
      BY <1>4, <2>1 DEF Ahead
    <3>q. QED
      BY <1>4, <3>1, ReachOrder
  <2>2. CASE ~OnLoop(d, n)
    <3>1. Reaches(d, x, n) /\ Reaches(d, n, x)
      BY <1>4, <2>2, ReachOrder DEF Ahead
    <3>q. QED
      BY <1>4, <2>2, <3>1, ReachOrder
  <2>q. QED
    BY <2>1, <2>2
<1>q. QED
  BY <1>1, <1>2, <1>3, <1>4

\* A step that ran and leads on leaves room for what it calls.
LEMMA RoomMoves ==
    ASSUME FlowOK, Revises, NEW eng, EngineOK(doc, flow, eng), Lone(doc, eng), OnceEach(doc, flow, eng),
           NEW n \in StepNodes(doc), NEW e, NEW ev, EndsAs(eng, e, n, ev),
           NEW t, Emission(eng, e, ev, t), \A m \in Triggered(eng, ev) : <<n, m>> \in Onward(doc),
           NEW ran, NEW ran2, NEW bound \in [StepNodes(doc) -> Nat], NEW bound2 \in [StepNodes(doc) -> Nat],
           \A m \in StepNodes(doc) : ran[m] \in Nat /\ ran2[m] \in Nat /\ bound[m] <= bound2[m],
           \A m \in StepNodes(doc) : ran2[m] = ran[m] \/ (m = n /\ e.method = <<n, "step">>),
           Room(doc, eng, ran, bound), Early(eng, ran, bound)
    PROVE  Room(doc, t, ran2, bound2) /\ Early(t, ran2, bound2)
<1>0. /\ IsDocument(doc) /\ Publishable(doc) /\ plan = WholePlan /\ flow.steps = StepNodes(doc)
      /\ LeadsOn(eng, ev) /\ e \in eng.active /\ e.method[1] = n
  BY WholeFacts DEF Revises, LeadsOn, EndsAs
<1>1. PICK new : /\ Calling(new, Triggered(eng, ev) \X {"step"})
                 /\ t.active \subseteq (eng.active \ {e}) \union new
  BY DEF Emission
<1>2. \A m \in Triggered(eng, ev) : m \in StepNodes(doc) /\ ~Called(eng, m)
  BY <1>0, TriggersNew, TriggeredAlong
<1>3. \A f \in eng.active : f.method = <<f.method[1], f.method[2]>> /\ f.method[1] \in StepNodes(doc)
  BY <1>0 DEF EngineOK, Halves
<1>4. \A f \in new : \E m \in Triggered(eng, ev) : f.method = <<m, "step">>
  BY <1>1 DEF Calling
<1>5. \A m \in StepNodes(doc) : ~Called(eng, m) => ran2[m] = ran[m]
  <2>1. e.method = <<n, "step">> => Called(eng, n)
    BY <1>0 DEF OnceEach
  <2>q. QED
    BY <2>1
<1>6. ASSUME NEW m \in StepNodes(doc), m # n, Ahead(doc, n, m), ~Called(eng, m) PROVE ran2[m] <= bound2[m]
  <2>1. ran[m] <= bound[m]
    BY <1>0, <1>6 DEF Room
  <2>q. QED
    BY <1>5, <1>6, <2>1
<1>7. ASSUME NEW f \in t.active, f.method[2] = "step" PROVE ran2[f.method[1]] <= bound2[f.method[1]]
  <2>1. CASE f \in eng.active \ {e}
    <3>1. ran[f.method[1]] <= bound[f.method[1]] /\ f.method[1] \in StepNodes(doc)
      BY <1>3, <1>7, <2>1 DEF Early
    <3>2. ~(f.method[1] = n /\ e.method = <<n, "step">>)
      BY <1>0, <1>3, <1>7, <2>1 DEF OnceEach
    <3>3. ran2[f.method[1]] = ran[f.method[1]]
      BY <3>1, <3>2
    <3>q. QED
      BY <3>1, <3>3
  <2>2. CASE f \in new
    <3>1. PICK u \in Triggered(eng, ev) : f.method = <<u, "step">>
      BY <1>4, <2>2
    <3>2. <<n, u>> \in Onward(doc) /\ u \in StepNodes(doc) /\ ~Called(eng, u)
      BY <1>2
    <3>3. u # n /\ Ahead(doc, n, u)
      BY <1>0, <3>2, AheadFacts
    <3>q. QED
      BY <1>6, <3>1, <3>2, <3>3
  <2>q. QED
    BY <1>1, <2>1, <2>2
<1>8. ASSUME NEW f \in t.active, NEW m \in StepNodes(doc), m # f.method[1], Ahead(doc, f.method[1], m), ~Called(t, m)
      PROVE  ran2[m] <= bound2[m]
  <2>0. ~Called(eng, m)
    BY <1>0, <1>8, CalledThen
  <2>1. CASE f \in eng.active \ {e}
    <3>1. ran[m] <= bound[m]
      BY <1>8, <2>0, <2>1 DEF Room
    <3>q. QED
      BY <1>5, <2>0, <3>1
  <2>2. CASE f \in new
    <3>1. PICK u \in Triggered(eng, ev) : f.method = <<u, "step">>
      BY <1>4, <2>2
    <3>2. m # n /\ Ahead(doc, n, m)
      <4>1. <<n, u>> \in Onward(doc) /\ Ahead(doc, u, m)
        BY <1>8, <3>1
      <4>q. QED
        BY <1>0, <4>1, AheadFacts
    <3>q. QED
      BY <1>6, <2>0, <3>2
  <2>q. QED
    BY <1>1, <2>1, <2>2
<1>q. QED
  BY <1>7, <1>8 DEF Room, Early

\* A turn leaves room for every step on a loop.
LEMMA RoomTurns ==
    ASSUME FlowOK, Revises, NEW n \in StepNodes(doc), NEW e, NEW eng, Fresh(n, e, eng),
           NEW ev, EndsAs(eng, e, n, ev), NEW t, Emission(eng, e, ev, t), OnLoop(doc, n),
           NEW ran, NEW bound \in [StepNodes(doc) -> Nat], NEW bound2 \in [StepNodes(doc) -> Nat],
           \A m \in StepNodes(doc) : ran[m] \in Nat /\ ran[m] <= bound[m] + 1 /\ bound[m] <= bound2[m],
           \A m \in StepNodes(doc) : OnLoop(doc, m) => bound2[m] = bound[m] + 1,
           Room(doc, eng, ran, bound)
    PROVE  Room(doc, t, ran, bound2) /\ Early(t, ran, bound2)
<1>0. IsDocument(doc) /\ Publishable(doc) /\ plan = WholePlan /\ eng.active = {e} /\ e.method[1] = n /\ ev[1] = n
  BY WholeFacts DEF Revises, EndsAs, Fresh
<1>1. PICK new : /\ Calling(new, Triggered(eng, ev) \X {"step"})
                 /\ t.active \subseteq (eng.active \ {e}) \union new
  BY DEF Emission
<1>2. ASSUME NEW m \in StepNodes(doc), Reaches(doc, n, m) PROVE ran[m] <= bound2[m]
  <2>1. CASE OnLoop(doc, m)
    BY <2>1
  <2>2. CASE ~OnLoop(doc, m)
    <3>1. m # n /\ Ahead(doc, n, m) /\ ~Called(eng, m)
      BY <1>2, <2>2, FreshAlone DEF Ahead
    <3>2. ran[m] <= bound[m]
      BY <1>0, <3>1 DEF Room
    <3>q. QED
      BY <3>2
  <2>q. QED
    BY <2>1, <2>2
<1>3. ASSUME NEW f \in t.active
      PROVE  f.method[1] \in StepNodes(doc) /\ Reaches(doc, n, f.method[1])
  <2>1. f \in new
    BY <1>0, <1>1
  <2>2. PICK u \in Triggered(eng, ev) : f.method = <<u, "step">>
    BY <1>1, <2>1 DEF Calling
  <2>3. <<n, u>> \in Along(doc)
    BY <1>0, TriggeredAlong
  <2>q. QED
    BY <1>0, <2>2, <2>3, ReachOrder
<1>4. ASSUME NEW f \in t.active, NEW m \in StepNodes(doc), Ahead(doc, f.method[1], m) PROVE ran[m] <= bound2[m]
  <2>1. Reaches(doc, f.method[1], m)
    BY <1>0, <1>3, <1>4, AheadFacts
  <2>2. Reaches(doc, n, m)
    BY <1>0, <1>3, <2>1, ReachOrder
  <2>q. QED
    BY <1>2, <2>2
<1>q. QED
  BY <1>2, <1>3, <1>4 DEF Room, Early

\* So does a pause at a gate: what lies ahead of it was not called.
LEMMA RoomFresh ==
    ASSUME FlowOK, Revises, NEW n \in StepNodes(doc), IsRouted(doc, n), NEW eng, Lone(doc, eng),
           NEW f \in eng.active, f.method[1] = n, NEW ran, NEW bound, Room(doc, eng, ran, bound),
           NEW e, NEW t, Fresh(n, e, t)
    PROVE  Room(doc, t, ran, bound) /\ Early(t, ran, bound)
<1>0. IsDocument(doc) /\ Publishable(doc) /\ t.active = {e} /\ e.method = <<n, "route">> /\ Chooses(doc, n)
  BY WholeFacts, ChoosesFacts DEF Revises, Fresh
<1>1. e.method[1] = n /\ e.method[2] # "step"
  BY <1>0
<1>2. ASSUME NEW m \in StepNodes(doc), m # n, Ahead(doc, n, m) PROVE ran[m] <= bound[m]
  <2>1. ~ReachesOn(doc, m, n)
    BY <1>0, <1>2, AheadFacts
  <2>2. ~Called(eng, m)
    BY <1>0, <2>1 DEF Lone
  <2>q. QED
    BY <1>2, <2>2 DEF Room
<1>q. QED
  BY <1>0, <1>1, <1>2 DEF Room, Early

\* The turns that were used, of the gates that close a loop, and how many more times what
\* is on a loop may have run for them.
Loopers(d) == {Src(d, i) : i \in BackEdges(d)}
Turns(d, turns) == {p \in Loopers(d) \X (1..MaxCycleIterations) : p[2] <= turns[p[1]]}
Laps(d, turns) == [n \in StepNodes(d) |-> IF OnLoop(d, n) THEN Cardinality(Turns(d, turns)) ELSE 0]

\* There are as many turns as the loops have together, at most.
LEMMA TurnsFacts ==
    ASSUME NEW d, IsDocument(d), Publishable(d), NEW turns
    PROVE  /\ IsFiniteSet(BackEdges(d)) /\ Cardinality(BackEdges(d)) \in Nat
           /\ IsFiniteSet(Turns(d, turns)) /\ Cardinality(Turns(d, turns)) \in Nat
           /\ Cardinality(Turns(d, turns)) <= Cardinality(BackEdges(d)) * MaxCycleIterations
           /\ Laps(d, turns) \in [StepNodes(d) -> Nat]
<1> DEFINE I == MaxCycleIterations
<1>0. Linked(d) /\ I \in Nat
  BY AlongFacts, GraphBoundsAssumption
<1>1. IsFiniteSet(BackEdges(d)) /\ Cardinality(BackEdges(d)) \in Nat
  <2>1. BackEdges(d) \subseteq EdgeIds(d)
    BY <1>0, BackEdgesAreFlow DEF FlowEdges, EdgesInto
  <2>q. QED
    BY <1>0, <2>1, FS_Subset, FS_CardinalityType DEF Linked
<1>2. IsFiniteSet(Loopers(d)) /\ Cardinality(Loopers(d)) <= Cardinality(BackEdges(d))
  <2> DEFINE f == [i \in BackEdges(d) |-> Src(d, i)]
  <2>1. f \in Surjection(BackEdges(d), Loopers(d))
    BY DEF Loopers, Surjection
  <2> HIDE DEF f
  <2>q. QED
    BY <1>1, <2>1, FS_Surjection
<1>3. IsFiniteSet(1..I) /\ Cardinality(1..I) = I
  BY <1>0, FS_Interval
<1>4. /\ IsFiniteSet(Loopers(d) \X (1..I))
      /\ Cardinality(Loopers(d) \X (1..I)) = Cardinality(Loopers(d)) * I
  BY <1>2, <1>3, FS_Product
<1>5. Turns(d, turns) \in SUBSET (Loopers(d) \X (1..I))
  BY DEF Turns
<1>6. /\ IsFiniteSet(Turns(d, turns)) /\ Cardinality(Turns(d, turns)) \in Nat
      /\ Cardinality(Turns(d, turns)) <= Cardinality(Loopers(d)) * I
  BY <1>4, <1>5, FS_Subset, FS_CardinalityType
<1>7. Cardinality(Loopers(d)) * I <= Cardinality(BackEdges(d)) * I
  <2>1. \A a, b, c \in Nat : a <= b => a * c <= b * c
    OBVIOUS
  <2>q. QED
    BY <1>0, <1>1, <1>2, <2>1, FS_CardinalityType
<1>8. Cardinality(Loopers(d)) * I \in Nat /\ Cardinality(BackEdges(d)) * I \in Nat
  BY <1>0, <1>1, <1>2, FS_CardinalityType
<1>9. Laps(d, turns) \in [StepNodes(d) -> Nat]
  BY <1>6 DEF Laps
<1>q. QED
  BY <1>1, <1>6, <1>7, <1>8, <1>9

\* One more turn is one more lap, if the gate closes a loop.
LEMMA TurnCounts ==
    ASSUME NEW d, IsDocument(d), Publishable(d), NEW turns \in [StepNodes(d) -> 0..MaxCycleIterations],
           NEW n \in StepNodes(d), turns[n] + 1 <= MaxCycleIterations,
           NEW turns2, turns2 = [turns EXCEPT ![n] = @ + 1]
    PROVE  /\ \A m \in StepNodes(d) : Laps(d, turns)[m] <= Laps(d, turns2)[m]
           /\ n \in Loopers(d) => \A m \in StepNodes(d) : OnLoop(d, m) => Laps(d, turns2)[m] = Laps(d, turns)[m] + 1
<1> DEFINE k == turns[n] + 1
<1> DEFINE before == Turns(d, turns)
<1> DEFINE after == Turns(d, turns2)
<1>0. MaxCycleIterations \in Nat /\ turns[n] \in Nat /\ k \in 1..MaxCycleIterations
  BY GraphBoundsAssumption
<1>1. Loopers(d) \subseteq StepNodes(d)
  <2>1. SUFFICES ASSUME NEW g \in Loopers(d) PROVE g \in StepNodes(d)
    OBVIOUS
  <2>2. PICK i \in BackEdges(d) : g = Src(d, i)
    BY DEF Loopers
  <2>3. i \in FlowEdges(d)
    BY AlongFacts, BackEdgesAreFlow
  <2>q. QED
    BY <2>2, <2>3, EdgeFacts
<1>2. \A m \in StepNodes(d) : turns[m] \in Nat /\ turns2[m] = (IF m = n THEN turns[m] + 1 ELSE turns[m])
  BY GraphBoundsAssumption
<1>3. IsFiniteSet(before) /\ Cardinality(before) \in Nat /\ IsFiniteSet(after) /\ Cardinality(after) \in Nat
  BY TurnsFacts
<1>4. before \subseteq after
  <2>1. SUFFICES ASSUME NEW p \in before PROVE p \in after
    OBVIOUS
  <2>2. p \in Loopers(d) \X (1..MaxCycleIterations) /\ p[2] <= turns[p[1]]
    BY DEF Turns
  <2>3. p[1] \in StepNodes(d) /\ p[2] \in Nat
    BY <1>1, <2>2
  <2>4. p[2] <= turns2[p[1]]
    BY <1>2, <2>2, <2>3
  <2>q. QED
    BY <2>2, <2>4 DEF Turns
<1>5. Cardinality(before) <= Cardinality(after)
  <2> HIDE DEF before, after
  <2>q. QED
    BY <1>3, <1>4, FS_Subset
<1>6. ASSUME n \in Loopers(d) PROVE Cardinality(after) = Cardinality(before) + 1
  <2>1. <<n, k>> \notin before
    <3>1. <<n, k>>[1] = n /\ <<n, k>>[2] = k
      OBVIOUS
    <3>q. QED
      BY <1>0, <3>1 DEF Turns
  <2>2. after = before \union {<<n, k>>}
    <3>1. <<n, k>> \in after
      <4>1. <<n, k>>[1] = n /\ <<n, k>>[2] = k /\ <<n, k>> \in Loopers(d) \X (1..MaxCycleIterations)
        BY <1>0, <1>6
      <4>q. QED
        BY <1>0, <1>2, <4>1 DEF Turns
    <3>2. ASSUME NEW p \in after, p # <<n, k>> PROVE p \in before
      <4>1. p \in Loopers(d) \X (1..MaxCycleIterations) /\ p[2] <= turns2[p[1]] /\ p = <<p[1], p[2]>>
        BY DEF Turns
      <4>2. p[1] \in StepNodes(d) /\ p[2] \in Nat
        BY <1>1, <4>1
      <4>3. p[2] <= turns[p[1]]
        <5>1. CASE p[1] # n
          BY <1>2, <4>1, <4>2, <5>1
        <5>2. CASE p[1] = n
          <6>1. p[2] # k /\ p[2] <= k
            BY <1>2, <3>2, <4>1, <4>2, <5>2
          <6>q. QED
            BY <1>0, <4>2, <5>2, <6>1
        <5>q. QED
          BY <5>1, <5>2
      <4>q. QED
        BY <4>1, <4>3 DEF Turns
    <3> HIDE DEF before, after
    <3>q. QED
      BY <1>4, <3>1, <3>2
  <2> HIDE DEF before, after, k
  <2>q. QED
    BY <1>3, <2>1, <2>2, FS_AddElement
<1>7. \A m \in StepNodes(d) :
         /\ Laps(d, turns)[m] = (IF OnLoop(d, m) THEN Cardinality(before) ELSE 0)
         /\ Laps(d, turns2)[m] = (IF OnLoop(d, m) THEN Cardinality(after) ELSE 0)
  BY DEF Laps
<1> HIDE DEF k, before, after
<1>8. \A m \in StepNodes(d) : Laps(d, turns)[m] <= Laps(d, turns2)[m]
  <2>1. TAKE m \in StepNodes(d)
  <2>2. CASE OnLoop(d, m)
    BY <1>5, <1>7, <2>2
  <2>3. CASE ~OnLoop(d, m)
    <3>1. Laps(d, turns)[m] = 0 /\ Laps(d, turns2)[m] = 0
      BY <1>7, <2>3
    <3>q. QED
      BY ONLY <3>1
  <2>q. QED
    BY <2>2, <2>3
<1>9. n \in Loopers(d) => \A m \in StepNodes(d) : OnLoop(d, m) => Laps(d, turns2)[m] = Laps(d, turns)[m] + 1
  BY <1>6, <1>7
<1>q. QED
  BY <1>8, <1>9

\* A loop is priced for all its laps.
LEMMA MultiplierCovers ==
    ASSUME NEW cycles \in Nat
    PROVE  CycleMultiplier(cycles) >= 1 + cycles * MaxCycleIterations
<1> DEFINE h == Powers!Iteration(0, 1)
<1> DEFINE I == MaxCycleIterations
<1> DEFINE T == {k \in Nat : h[k] \in Nat \ {0} /\ h[k] >= 1 + k * I}
<1> DEFINE K == IF cycles = 0 THEN 1 ELSE cycles
<1>1. CycleMultiplier(cycles) = h[K]
  BY DEF CycleMultiplier, PowerOne, Powers!Iteration
<1>2. h[0] = 1 /\ \A k \in Nat : h[k + 1] = (1 + I) * h[k]
  <2>1. h[0] = 1 /\ \A k \in Nat : h[k + 1] = PowerOne(0, k + 1, h[k])
    BY ONLY Powers!IterationStep
  <2> HIDE DEF h
  <2>q. QED
    BY <2>1 DEF PowerOne
<1>3. I \in Nat
  BY GraphBoundsAssumption
<1> HIDE DEF h, I
<1>4. 0 \in T
  BY <1>2, <1>3
<1>5. ASSUME NEW k \in Nat, k \in T PROVE k + 1 \in T
  <2>1. \A x \in Nat \ {0} : \A y \in Nat : (1 + y) * x = x + y * x /\ y * x >= y /\ y * x \in Nat
    OBVIOUS
  <2>2. (k + 1) * I = k * I + I /\ k * I \in Nat
    BY <1>3
  <2>3. h[k] \in Nat \ {0} /\ h[k] >= 1 + k * I
    BY <1>5
  <2>4. h[k + 1] = h[k] + I * h[k] /\ I * h[k] >= I /\ I * h[k] \in Nat
    BY <1>2, <1>3, <2>1, <2>3
  <2>5. h[k + 1] \in Nat \ {0} /\ h[k + 1] >= 1 + (k + 1) * I
    BY <1>3, <2>2, <2>3, <2>4
  <2>q. QED
    BY <2>5
<1>6. \A k \in Nat : k \in T
  <2> HIDE DEF T
  <2>q. QED
    BY <1>4, <1>5, Searches!NatSetInduction
<1>7. K \in Nat /\ h[K] >= 1 + K * I
  BY <1>6
<1>8. K * I >= cycles * I
  <2>1. CASE cycles = 0
    BY <1>3, <2>1
  <2>2. CASE cycles # 0
    BY <1>3, <2>2
  <2>q. QED
    BY <2>1, <2>2
<1>9. h[K] \in Nat /\ K * I \in Nat /\ cycles * I \in Nat
  BY <1>3, <1>6
<1>q. QED
  BY <1>1, <1>7, <1>8, <1>9 DEF I

-----------------------------------------------------------------------------
(* What a run comes to.                                                      *)

\* The laps that were turned so far.
Lapped == Laps(doc, state.turns)

\* No step ran more often than once and once for every turn, and what may still run has
\* room for it.
Priced ==
    Revises =>
        /\ \A n \in StepNodes(doc) : log.ran[n] <= Lapped[n] + 1
        /\ phase \in {"running", "paused"} =>
              Lone(doc, engine) /\ OnceEach(doc, flow, engine) /\ Room(doc, engine, log.ran, Lapped)
        /\ phase = "running" => Early(engine, log.ran, Lapped)

\* A step that ran kept the others' counts.
LEMMA RunsKept ==
    ASSUME RunOK, Counts, plan = WholePlan, NEW n \in StepNodes(doc), Notes(n)
    PROVE  /\ \A m \in StepNodes(doc) : log.ran[m] \in Nat /\ log'.ran[m] \in Nat
           /\ \A m \in StepNodes(doc) : m # n => log'.ran[m] = log.ran[m]
           /\ log'.ran[n] = log.ran[n] + 1
  BY NotedRuns DEF Counts

\* What is known of a run whose document has such loops.
LEMMA RunKnown ==
    ASSUME RunOK, Counts, Revises
    PROVE  /\ IsDocument(doc) /\ Publishable(doc) /\ plan = WholePlan /\ EngineOK(doc, flow, engine)
           /\ Lapped \in [StepNodes(doc) -> Nat]
           /\ \A m \in StepNodes(doc) : log.ran[m] \in Nat
           /\ state.turns \in [StepNodes(doc) -> 0..MaxCycleIterations]
  BY WholeFacts, TurnsFacts DEF RunOK, PhaseOK, StateOK, Counts, Revises, Lapped

\* It starts.
LEMMA SetsPriced ==
    ASSUME RunOK, Counts, Revises, Sets
    PROVE  Priced'
<1>0. /\ phase' = "running" /\ engine' = NewEngine(Starts) /\ state' = state /\ log' = log /\ doc' = doc /\ flow' = flow
      /\ log = NoLog
  BY DEF Sets, Counts, Revises
<1>1. Lone(doc, engine') /\ OnceEach(doc, flow, engine')
  BY <1>0, StartsAlone DEF RunOK
<1>2. \A m \in StepNodes(doc) : log.ran[m] = 0 /\ Lapped[m] \in Nat
  BY <1>0, RunKnown DEF NoLog
<1>3. \A e \in engine'.active : e.method[1] \in StepNodes(doc)
  <2>1. Calling(engine'.active, Starts)
    BY <1>0, NewEngineEffects
  <2>2. \A m \in Starts : m[1] \in StepNodes(doc)
    BY RunKnown, DocumentFacts DEF Starts
  <2>q. QED
    BY <2>1, <2>2 DEF Calling
<1>4. Room(doc, engine', log.ran, Lapped) /\ Early(engine', log.ran, Lapped)
  BY <1>2, <1>3 DEF Room, Early
<1>5. Lapped' = Lapped
  BY <1>0 DEF Lapped
<1>q. QED
  BY <1>0, <1>1, <1>2, <1>4, <1>5 DEF Priced

\* What is forgotten at a pause leaves the rest as it was.
LEMMA FewerAlone ==
    ASSUME NEW eng, Lone(doc, eng), OnceEach(doc, flow, eng), NEW t, t.active \subseteq eng.active,
           t.calls = eng.calls, t.fired = eng.fired, t.arrived = eng.arrived, t.done = eng.done
    PROVE  /\ Lone(doc, t) /\ OnceEach(doc, flow, t)
           /\ \A ran, bound : Room(doc, eng, ran, bound) => Room(doc, t, ran, bound)
<1>1. /\ \A m : Called(t, m) <=> Called(eng, m)
      /\ \A m : Emitted(eng, m) => Emitted(t, m)
  BY DEF Called, Emitted
<1>2. \A m : Spent(flow, eng, m) => Spent(flow, t, m)
  BY <1>1 DEF Spent
<1>3. Lone(doc, t)
  BY <1>1 DEF Lone
<1>4. OnceEach(doc, flow, t)
  BY <1>1, <1>2 DEF OnceEach
<1>5. \A ran, bound : Room(doc, eng, ran, bound) => Room(doc, t, ran, bound)
  BY <1>1 DEF Room
<1>q. QED
  BY <1>3, <1>4, <1>5

\* It stops at a step.
LEMMA StopsPriced ==
    ASSUME RunOK, Counts, Revises, Priced, NEW n \in StepNodes(doc), Stops(n)
    PROVE  Priced'
<1>0. /\ phase = "running" /\ phase' \in {"failed", "paused"} /\ Notes(n) /\ doc' = doc /\ flow' = flow
      /\ state'.turns = state.turns
      /\ engine'.active \subseteq engine.active /\ engine'.calls = engine.calls /\ engine'.fired = engine.fired
      /\ engine'.arrived = engine.arrived /\ engine'.done = engine.done
  BY StopsFacts DEF Stops
<1>1. PICK e \in engine.active : e.method = <<n, "step">>
  BY StopsFacts
<1>2. /\ \A m \in StepNodes(doc) : log.ran[m] \in Nat /\ log'.ran[m] \in Nat
      /\ \A m \in StepNodes(doc) : m # n => log'.ran[m] = log.ran[m]
      /\ log'.ran[n] = log.ran[n] + 1
  BY <1>0, RunKnown, RunsKept
<1>3. /\ \A m \in StepNodes(doc) : log.ran[m] <= Lapped[m] + 1 /\ Lapped[m] \in Nat
      /\ Lone(doc, engine) /\ OnceEach(doc, flow, engine) /\ Room(doc, engine, log.ran, Lapped)
      /\ Early(engine, log.ran, Lapped)
  BY <1>0, RunKnown DEF Priced
<1>4. e.method[1] = n /\ e.method[2] = "step"
  BY <1>1
<1>5. log.ran[n] <= Lapped[n] /\ Called(engine, n)
  BY <1>3, <1>4 DEF Early, OnceEach
<1>6. \A m \in StepNodes(doc) : log'.ran[m] <= Lapped[m] + 1
  BY <1>2, <1>3, <1>5
<1>7. Room(doc, engine, log'.ran, Lapped)
  BY <1>2, <1>3, <1>5 DEF Room
<1>9. Lone(doc, engine') /\ OnceEach(doc, flow, engine') /\ Room(doc, engine', log'.ran, Lapped)
  BY <1>0, <1>3, <1>7, FewerAlone
<1>8. Lapped' = Lapped
  BY <1>0 DEF Lapped
<1>q. QED
  BY <1>0, <1>6, <1>8, <1>9 DEF Priced

\* It goes on with an event.
LEMMA EmitsPriced ==
    ASSUME RunOK, Counts, Revises, Priced, NEW n \in StepNodes(doc), Emits(n), UNCHANGED <<doc, plan, flow>>
    PROVE  Priced'
<1>0. /\ IsDocument(doc) /\ Publishable(doc) /\ plan = WholePlan /\ FlowOK
      /\ Lapped \in [StepNodes(doc) -> Nat] /\ phase = "running"
  BY RunKnown, EmitsFacts DEF RunOK
<1>1. PICK e, ev, eng :
         /\ e \in engine.active /\ eng.active = engine.active /\ eng.calls = engine.calls /\ eng.done = engine.done
         /\ eng.arrived = engine.arrived
         /\ eng.fired = (IF IsRouted(doc, n) THEN engine.fired \ flow.rearm[n] ELSE engine.fired)
         /\ EngineOK(doc, flow, eng)
         /\ Emission(eng, e, ev, engine')
         /\ KindOf(doc, n) # "gate" /\ Ends1(n, ev) /\ state'.turns = state.turns
         /\ \/ e.method = <<n, "step">> /\ ~RoutesErrors(doc, n) /\ Notes(n)
            \/ e.method = <<n, "route">> /\ RoutesErrors(doc, n) /\ log' = log
  BY <1>0, EmitsFacts
<1>2. Lone(doc, engine) /\ OnceEach(doc, flow, engine) /\ Room(doc, engine, log.ran, Lapped)
      /\ Early(engine, log.ran, Lapped) /\ \A m \in StepNodes(doc) : log.ran[m] <= Lapped[m] + 1
  BY <1>0 DEF Priced
<1>3. e.method[1] = n /\ e \in eng.active /\ (~IsRouted(doc, n) => eng.fired = engine.fired)
  BY <1>1
<1>4. Lone(doc, eng) /\ OnceEach(doc, flow, eng)
  BY <1>0, <1>1, <1>2, <1>3, RearmAlone
<1>5. Room(doc, eng, log.ran, Lapped) /\ Early(eng, log.ran, Lapped)
  <2>1. \A m : Called(eng, m) <=> Called(engine, m)
    BY <1>1 DEF Called
  <2>q. QED
    BY <1>1, <1>2, <2>1 DEF Room, Early
<1>6. EndsAs(eng, e, n, ev)
  <2>1. ev[1] = n /\ (ev[2] = Ran) = ~IsRouted(doc, n)
    BY <1>0, <1>1, EndsFacts
  <2>2. RoutesErrors(doc, n) => IsRouted(doc, n)
    BY DEF IsRouted
  <2>q. QED
    BY <1>1, <2>1, <2>2 DEF EndsAs
<1>7. \A m \in Triggered(eng, ev) : <<n, m>> \in Onward(doc)
  <2>1. TAKE m \in Triggered(eng, ev)
  <2>2. <<n, m>> \in Along(doc)
    BY <1>0, <1>6, TriggeredAlong DEF EndsAs
  <2>q. QED
    BY <1>0, <1>1, <2>2, RevisesFacts
<1>8. LeadsOn(eng, ev)
  BY <1>6, <1>7 DEF LeadsOn, EndsAs
<1>9. Lone(doc, engine') /\ OnceEach(doc, flow, engine')
  BY <1>0, <1>1, <1>4, <1>6, <1>8, LoneStays, OnceEachStays
<1>10. /\ \A m \in StepNodes(doc) : log.ran[m] \in Nat /\ log'.ran[m] \in Nat /\ Lapped[m] <= Lapped[m]
       /\ \A m \in StepNodes(doc) :
             log'.ran[m] = log.ran[m] \/ (m = n /\ e.method = <<n, "step">> /\ log'.ran[m] = log.ran[m] + 1)
  <2>1. \A m \in StepNodes(doc) : log.ran[m] \in Nat /\ Lapped[m] \in Nat
    BY <1>0, RunKnown
  <2>2. CASE e.method = <<n, "step">> /\ Notes(n)
    BY <1>0, <2>1, <2>2, RunsKept
  <2>3. CASE log' = log
    BY <2>1, <2>3
  <2>q. QED
    BY <1>1, <2>2, <2>3
<1>11. Room(doc, engine', log'.ran, Lapped) /\ Early(engine', log'.ran, Lapped)
  BY <1>0, <1>1, <1>4, <1>5, <1>6, <1>7, <1>10, RoomMoves
<1>12. ASSUME NEW m \in StepNodes(doc) PROVE log'.ran[m] <= Lapped[m] + 1
  <2>1. log.ran[m] \in Nat /\ Lapped[m] \in Nat /\ log.ran[m] <= Lapped[m] + 1
    BY <1>0, <1>2, <1>10
  <2>2. CASE m = n /\ e.method = <<n, "step">> /\ log'.ran[m] = log.ran[m] + 1
    <3>1. e.method[2] = "step"
      BY <2>2
    <3>2. log.ran[n] <= Lapped[n]
      BY <1>1, <1>2, <1>3, <3>1 DEF Early
    <3>q. QED
      BY <2>1, <2>2, <3>2
  <2>q. QED
    BY <1>10, <2>1, <2>2
<1>13. Lapped' = Lapped
  BY <1>1 DEF Lapped
<1>q. QED
  BY <1>9, <1>11, <1>12, <1>13 DEF Priced

\* A step half calls its router half.
LEMMA PairsPriced ==
    ASSUME RunOK, Counts, Revises, Priced, NEW n \in StepNodes(doc), Pairs(n), UNCHANGED <<doc, plan, flow>>
    PROVE  Priced'
<1>0. /\ plan = WholePlan /\ FlowOK /\ phase = "running" /\ Notes(n) /\ state'.turns = state.turns
      /\ IsRouted(doc, n) /\ EngineOK(doc, flow, engine)
  BY RunKnown, PairsFacts DEF RunOK, IsRouted
<1>1. PICK e \in engine.active : e.method = <<n, "step">> /\ Pairing(n, e, engine, engine')
  BY <1>0, PairsFacts
<1>2. /\ Lone(doc, engine) /\ OnceEach(doc, flow, engine) /\ Room(doc, engine, log.ran, Lapped)
      /\ Early(engine, log.ran, Lapped)
      /\ \A m \in StepNodes(doc) : log.ran[m] <= Lapped[m] + 1 /\ Lapped[m] \in Nat
  BY <1>0, RunKnown DEF Priced
<1>3. /\ \A m \in StepNodes(doc) : log.ran[m] \in Nat /\ log'.ran[m] \in Nat
      /\ \A m \in StepNodes(doc) : m # n => log'.ran[m] = log.ran[m]
      /\ log'.ran[n] = log.ran[n] + 1
  BY <1>0, RunsKept
<1>4. /\ Lone(doc, engine') /\ OnceEach(doc, flow, engine')
      /\ \A m \in StepNodes(doc) : Called(engine', m) <=> Called(engine, m)
      /\ \A f \in engine'.active : f.method = <<n, "route">>
  BY <1>0, <1>1, <1>2, PairAlone
<1>5. e.method[1] = n /\ e.method[2] = "step"
  BY <1>1
<1>6. log.ran[n] <= Lapped[n]
  BY <1>2, <1>5 DEF Early
<1>7. \A f \in engine'.active : f.method[1] = n /\ f.method[2] # "step"
  BY <1>4
<1>8. Room(doc, engine', log'.ran, Lapped)
  BY <1>2, <1>3, <1>4, <1>5, <1>7 DEF Room
<1>9. Early(engine', log'.ran, Lapped)
  BY <1>7 DEF Early
<1>10. \A m \in StepNodes(doc) : log'.ran[m] <= Lapped[m] + 1
  BY <1>2, <1>3, <1>6
<1>11. Lapped' = Lapped
  BY <1>0 DEF Lapped
<1>q. QED
  BY <1>4, <1>8, <1>9, <1>10, <1>11 DEF Priced

\* A reply at a gate: a new engine takes it,
LEMMA ResumesPriced ==
    ASSUME RunOK, Counts, Revises, Priced, NEW n \in StepNodes(doc), Resumes(n), UNCHANGED <<doc, plan, flow>>
    PROVE  Priced'
<1>0. /\ plan = WholePlan /\ FlowOK /\ phase = "paused" /\ phase' = "running" /\ log'.ran = log.ran
      /\ state' = state /\ IsRouted(doc, n)
  BY RunKnown, ResumesFacts DEF RunOK, IsRouted, RoutingKinds
<1>1. PICK f \in engine.active : f.method = <<n, "step">>
  BY <1>0, ResumesFacts
<1>2. PICK e : Fresh(n, e, engine')
  BY <1>0, ResumesFacts
<1>3. /\ Lone(doc, engine) /\ Room(doc, engine, log.ran, Lapped)
      /\ \A m \in StepNodes(doc) : log.ran[m] <= Lapped[m] + 1
  BY <1>0 DEF Priced
<1>4. Lone(doc, engine') /\ OnceEach(doc, flow, engine')
  BY <1>2, FreshAlone
<1>5. Room(doc, engine', log.ran, Lapped) /\ Early(engine', log.ran, Lapped)
  <2>1. f.method[1] = n
    BY <1>1
  <2>q. QED
    BY <1>0, <1>2, <1>3, <2>1, RoomFresh
<1>6. Lapped' = Lapped
  BY <1>0 DEF Lapped
<1>q. QED
  BY <1>0, <1>3, <1>4, <1>5, <1>6 DEF Priced

\* and reads it: an honoured revise of a gate that closes a loop is one more lap of every
\* loop, and anything else goes on.
LEMMA RepliesPriced ==
    ASSUME RunOK, Counts, Revises, Priced, NEW n \in StepNodes(doc), Replies(n), UNCHANGED <<doc, plan, flow>>
    PROVE  Priced'
<1>0. /\ IsDocument(doc) /\ Publishable(doc) /\ plan = WholePlan /\ FlowOK /\ phase = "running"
      /\ log'.ran = log.ran /\ KindOf(doc, n) = "gate" /\ IsRouted(doc, n)
      /\ \A m \in StepNodes(doc) : log.ran[m] \in Nat
      /\ state.turns \in [StepNodes(doc) -> 0..MaxCycleIterations]
  BY RunKnown, RepliesFacts DEF RunOK, IsRouted, RoutingKinds
<1>2. PICK honoured \in BOOLEAN : /\ Honours(n, honoured)
                                  /\ \E e, eng : /\ Fresh(n, e, engine) /\ Fresh(n, e, eng)
                                                /\ Emission(eng, e, Reply(n, honoured), engine')
  BY <1>0, RepliesFacts
<1>3. PICK e, eng : /\ Fresh(n, e, engine) /\ Fresh(n, e, eng)
                    /\ Emission(eng, e, Reply(n, honoured), engine')
  BY <1>2
<1> DEFINE ev == Reply(n, honoured)
<1> DEFINE port == IF honoured THEN "revise" ELSE "approve"
<1>4. ev = Event(doc, n, port) /\ port \in OutPorts(doc, n)
  <2>1. ~RoutesErrors(doc, n)
    BY <1>0 DEF RoutesErrors, IsDocument, OfKind, KindOf, BillableKinds
  <2>2. OutPorts(doc, n) = {"approve", "revise"}
    BY <1>0, <2>1 DEF OutPorts
  <2>q. QED
    BY <2>2 DEF Reply
<1>5. EndsAs(eng, e, n, ev) /\ ev[1] = n
  <2>1. ev[1] = n /\ (ev[2] = Ran) = ~IsRouted(doc, n)
    BY <1>0, <1>4, EventFacts
  <2>2. e \in eng.active /\ e.method[1] = n
    BY <1>3 DEF Fresh
  <2> HIDE DEF ev
  <2>q. QED
    BY <1>0, <2>1, <2>2 DEF EndsAs
<1>6. /\ Room(doc, engine, log.ran, Lapped) /\ Early(engine, log.ran, Lapped)
      /\ \A m \in StepNodes(doc) : log.ran[m] <= Lapped[m] + 1
      /\ Lapped \in [StepNodes(doc) -> Nat]
  BY <1>0, RunKnown DEF Priced
<1>7. Lone(doc, eng) /\ OnceEach(doc, flow, eng) /\ \A m \in StepNodes(doc) : ~Called(eng, m)
  BY <1>3, FreshAlone
<1>8. Room(doc, eng, log.ran, Lapped) /\ Early(eng, log.ran, Lapped)
  <2>1. eng.active = engine.active /\ \A m : Called(eng, m) <=> Called(engine, m)
    BY <1>3 DEF Fresh, Called
  <2>q. QED
    BY <1>6, <2>1 DEF Room, Early
<1>9. EngineOK(doc, flow, eng)
  BY <1>3 DEF Fresh
<1> HIDE DEF ev
<1>10. LeadsOn(eng, ev)
  BY <1>7 DEF LeadsOn
<1>11. Lone(doc, engine') /\ OnceEach(doc, flow, engine')
  BY <1>0, <1>3, <1>5, <1>7, <1>9, <1>10, LoneStays, OnceEachStays DEF ev
<1>12. Lapped' \in [StepNodes(doc) -> Nat] /\ Lapped' = Laps(doc, state'.turns)
  BY <1>0, TurnsFacts DEF Lapped
<1>13. honoured => state.turns[n] + 1 <= MaxCycleIterations /\ state'.turns = [state.turns EXCEPT ![n] = @ + 1]
  <2>1. doc.turns[n] \in 0..MaxCycleIterations
    BY <1>0, DocumentFacts, AlongFacts DEF OfKind, KindOf
  <2>q. QED
    BY <1>0, <1>2, <2>1, GraphBoundsAssumption DEF Honours
<1>14. ~honoured => state'.turns = state.turns
  <2>1. state.turns[n] + 0 = state.turns[n]
    BY <1>0, GraphBoundsAssumption
  <2>q. QED
    BY <1>0, <1>2, <2>1 DEF Honours
<1>15. \A m \in StepNodes(doc) : Lapped[m] \in Nat /\ Lapped'[m] \in Nat /\ Lapped[m] <= Lapped'[m]
  <2>1. CASE honoured
    BY <1>0, <1>6, <1>12, <1>13, <2>1, TurnCounts DEF Lapped
  <2>2. CASE ~honoured
    BY <1>6, <1>12, <1>14, <2>2 DEF Lapped
  <2>q. QED
    BY <2>1, <2>2
<1>16. \A m \in StepNodes(doc) : log'.ran[m] <= Lapped'[m] + 1
  BY <1>0, <1>6, <1>15
<1>17. CASE honoured /\ n \in Loopers(doc)
  <2>1. \A m \in StepNodes(doc) : OnLoop(doc, m) => Lapped'[m] = Lapped[m] + 1
    BY <1>0, <1>12, <1>13, <1>17, TurnCounts DEF Lapped
  <2>2. OnLoop(doc, n)
    BY <1>0, <1>17, BackEdgesLoop DEF Loopers
  <2>3. Room(doc, engine', log.ran, Lapped') /\ Early(engine', log.ran, Lapped')
    BY <1>0, <1>3, <1>5, <1>6, <1>8, <1>12, <1>15, <2>1, <2>2, RoomTurns DEF ev
  <2>q. QED
    BY <1>0, <1>11, <1>16, <2>3 DEF Priced
<1>18. CASE ~(honoured /\ n \in Loopers(doc))
  <2>1. ASSUME NEW m \in Triggered(eng, ev) PROVE <<n, m>> \in Onward(doc)
    <3>1. PICK i \in FlowEdges(doc) : Src(doc, i) = n /\ Dst(doc, i) = m /\ ev = Carried(doc, i)
      BY <1>0, <1>5, TriggeredEdge
    <3>2. doc.edges[i].port = port
      <4>1. doc.edges[i].port \in OutPorts(doc, n)
        BY <1>0, <3>1, EdgeFacts
      <4>q. QED
        BY <1>0, <1>4, <3>1, <4>1, EventTellsPort DEF Carried
    <3>3. i \notin BackEdges(doc)
      BY <1>0, <1>18, <3>1, <3>2, RevisesFacts DEF Loopers
    <3>4. <<Src(doc, i), Dst(doc, i)>> \in Onward(doc)
      BY <3>3, EdgeIsPair DEF Onward
    <3>q. QED
      BY <3>1, <3>4
  <2>2. Room(doc, engine', log.ran, Lapped') /\ Early(engine', log.ran, Lapped')
    BY <1>0, <1>3, <1>5, <1>6, <1>7, <1>8, <1>9, <1>12, <1>15, <2>1, RoomMoves DEF ev
  <2>q. QED
    BY <1>0, <1>11, <1>16, <2>2 DEF Priced
<1>q. QED
  BY <1>17, <1>18

\* Every step of a whole run keeps its steps within their laps.
LEMMA PricedNext ==
    ASSUME RunOK, Counts, Priced, [Next]_vars
    PROVE  Priced'
<1>1. SUFFICES ASSUME Revises' PROVE Priced'
  BY DEF Priced
<1>2. plan = WholePlan /\ WholeStep /\ UNCHANGED <<doc, plan, flow>>
  <2>1. plan' = WholePlan
    BY <1>1 DEF Revises
  <2>q. QED
    BY <2>1, PlanStays, WholeSteps, WholeStepKeeps DEF Counts
<1>3. Revises
  BY <1>1, <1>2, RevisesStay
<1>4. CASE Rests
  <2>1. engine' = engine /\ state' = state /\ log' = log /\ Lapped' = Lapped
    BY <1>2, <1>4 DEF Rests, Lapped
  <2>2. phase' \in {"running", "paused"} => phase' = phase
    BY <1>4 DEF Rests
  <2>q. QED
    BY <1>2, <1>3, <2>1, <2>2 DEF Priced
<1>5. CASE Sets
  BY <1>3, <1>5, SetsPriced
<1>6. ASSUME NEW n \in StepNodes(doc), Stops(n) PROVE Priced'
  BY <1>3, <1>6, StopsPriced
<1>7. ASSUME NEW n \in StepNodes(doc), Emits(n) PROVE Priced'
  BY <1>2, <1>3, <1>7, EmitsPriced
<1>8. ASSUME NEW n \in StepNodes(doc), Pairs(n) PROVE Priced'
  BY <1>2, <1>3, <1>8, PairsPriced
<1>9. ASSUME NEW n \in StepNodes(doc), Resumes(n) PROVE Priced'
  BY <1>2, <1>3, <1>9, ResumesPriced
<1>10. ASSUME NEW n \in StepNodes(doc), Replies(n) PROVE Priced'
  BY <1>2, <1>3, <1>10, RepliesPriced
<1>q. QED
  BY <1>2, <1>4, <1>5, <1>6, <1>7, <1>8, <1>9, <1>10 DEF WholeStep

\* No lap was turned in a run that has not started.
LEMMA PricedInit == Init => Priced
<1>1. SUFFICES ASSUME Init, Revises PROVE Priced
  BY DEF Priced
<1>2. phase = "published" /\ log = NoLog
  BY <1>1 DEF Init
<1>3. IsDocument(doc) /\ Publishable(doc)
  BY <1>1, DocumentsAssumption DEF Init
<1>4. \A n \in StepNodes(doc) : log.ran[n] = 0
  BY <1>2 DEF NoLog
<1>5. \A n \in StepNodes(doc) : Lapped[n] \in Nat
  BY <1>3, TurnsFacts DEF Lapped
<1>q. QED
  BY <1>2, <1>4, <1>5 DEF Priced

\* What is within its laps is within its price: a step on a loop is priced for all the
\* laps of all the loops, and one that is on none ran once.
LEMMA LapsAreBilled ==
    ASSUME RunOK, Counts, Priced, Revises, NEW n \in StepNodes(doc) \intersect OfKind(doc, BillableKinds)
    PROVE  log.billed[n] <= CallsFor(doc, n)
<1> DEFINE back == BackEdges(doc)
<1> DEFINE laps == IF n \in NodesOnCycles(doc, back) THEN CycleMultiplier(Cardinality(back)) ELSE 1
<1>0. /\ FlowOK /\ IsDocument(doc) /\ Publishable(doc) /\ plan = WholePlan /\ LoopsNest
      /\ log.ran[n] \in Nat /\ log.ran[n] <= Lapped[n] + 1 /\ Lapped[n] \in Nat
      /\ log.billed[n] <= log.ran[n] * OneRun(n)
  BY RunKnown DEF RunOK, Revises, Priced, Counts
<1>1. doc.retries[n] \in Nat /\ BillingUnits(doc, n) \in Nat
  BY <1>0, DocumentFacts
<1>2. Cardinality(back) \in Nat /\ MaxCycleIterations \in Nat
  BY <1>0, TurnsFacts, GraphBoundsAssumption
<1>3. laps \in Nat /\ Lapped[n] + 1 <= laps
  <2>1. CASE OnLoop(doc, n)
    <3>1. n \in NodesOnCycles(doc, back)
      BY <1>0, <2>1, LoopsAreCarried DEF OnLoop, Reaches, Cycled
    <3>2. Lapped[n] <= Cardinality(back) * MaxCycleIterations
      BY <1>0, <2>1, TurnsFacts DEF Lapped, Laps
    <3>3. /\ CycleMultiplier(Cardinality(back)) >= 1 + Cardinality(back) * MaxCycleIterations
          /\ CycleMultiplier(Cardinality(back)) \in Nat /\ Cardinality(back) * MaxCycleIterations \in Nat
      BY <1>2, MultiplierCovers, CycleMultiplierIsPositive
    <3> HIDE DEF back
    <3>q. QED
      BY <1>0, <3>1, <3>2, <3>3
  <2>2. CASE ~OnLoop(doc, n)
    <3>1. Lapped[n] = 0
      BY <2>2 DEF Lapped, Laps
    <3>2. CycleMultiplier(Cardinality(back)) \in Nat \ {0}
      BY <1>2, CycleMultiplierIsPositive
    <3> HIDE DEF back
    <3>q. QED
      BY <3>1, <3>2
  <2>q. QED
    BY <2>1, <2>2
<1>4. CallsFor(doc, n) = BillingUnits(doc, n) * ((doc.retries[n] + 1) * laps)
  BY DEF CallsFor, NodeMultiplier
<1> HIDE DEF laps, back
<1>5. log.ran[n] <= laps
  BY <1>0, <1>3
<1>6. OneRun(n) \in Nat /\ OneRun(n) = (doc.retries[n] + 1) * BillingUnits(doc, n)
  BY <1>1 DEF OneRun
<1>7. log.ran[n] * OneRun(n) <= laps * OneRun(n)
  <2>1. \A a, b, c \in Nat : a <= b => a * c <= b * c
    OBVIOUS
  <2>q. QED
    BY <1>0, <1>3, <1>5, <1>6, <2>1
<1>8. laps * OneRun(n) = CallsFor(doc, n)
  <2>1. \A a, b, c \in Nat : a * ((b + 1) * c) = c * ((b + 1) * a)
    OBVIOUS
  <2>q. QED
    BY <1>1, <1>3, <1>4, <1>6, <2>1
<1>9. log.billed[n] \in Nat /\ log.ran[n] * OneRun(n) \in Nat /\ laps * OneRun(n) \in Nat
  <2>1. \A a, b \in Nat : a * b \in Nat
    OBVIOUS
  <2>2. log.billed[n] \in Nat
    BY DEF RunOK, LogOK, LogFields
  <2>q. QED
    BY <1>0, <1>3, <1>6, <2>1, <2>2
<1>q. QED
  BY ONLY <1>0, <1>7, <1>8, <1>9

\* In every published document whose loops nest and are all revises of gates, and in which
\* nothing is chosen beside another branch, no agent and no crew is billed more often than
\* the document was priced at, over all pauses, replies, retries and laps of the run
\* (budget.py _calls_for, bounds.py nodes_on_cycles, runtime.py route_gate).
THEOREM RevisesRunAsPriced == Spec => []ReviseLoopsRunAsPriced
<1>1. RunOK /\ Counts /\ Priced => ReviseLoopsRunAsPriced
  <2>1. SUFFICES ASSUME RunOK, Counts, Priced, LoopsNest, OfKind(doc, {"router"}) = {}, plan = WholePlan,
                        \A i \in flow.back : doc.edges[i].port = "revise", ChoicesAlone,
                        NEW n \in StepNodes(doc) \intersect OfKind(doc, BillableKinds)
                 PROVE  log.billed[n] <= CallsFor(doc, n)
    BY DEF ReviseLoopsRunAsPriced, LoopsRunAsPriced
  <2>2. Revises
    BY <2>1 DEF Revises
  <2>q. QED
    BY <2>1, <2>2, LapsAreBilled
<1>2. RunOK /\ Counts /\ Priced /\ [Next]_vars => Priced'
  BY PricedNext
<1>q. QED
  BY <1>1, <1>2, PricedInit, RunCounts, PTL DEF Spec

-----------------------------------------------------------------------------
(* What a derived run bills.                                                *)

\* The nodes behind one, the nodes a derived run may bill unasked, and the gates it does
\* not replay.
Behind(d, n) == Reachable({n}, Along(d))
Free(d, p, n) == n = p.node \/ (p.mode = "resume_from" /\ p.node \notin Behind(d, n))
Held(d, p) == OfKind(d, {"gate"}) \ Replayed(d, p)

\* A derived run is in the flow of its plan, where it pauses only at gates it does not
\* replay,
Scoped ==
    /\ flow = Compile(doc, plan)
    /\ phase = "paused" => \A e \in engine.active : e.method[1] \in Held(doc, plan)

\* or in the whole one, which a reply resumed: then there is a gate, the first that was
\* answered, behind which everything lies that is under way and that was billed since.
Beyond(g) ==
    /\ flow = Compile(doc, WholePlan)
    /\ \A e \in engine.active : e.method[1] \in Behind(doc, g)
    /\ \A n \in StepNodes(doc) : log.billed[n] > 0 =>
          Free(doc, plan, n) \/ (n \in Behind(doc, g) /\ state.decision[g] # "none")
    /\ state.decision[g] = "none" => \A e \in engine.active : e.method = <<g, "route">>

Derived ==
    plan # WholePlan => phase # "published" /\ (Scoped \/ \E g \in Held(doc, plan) : Beyond(g))

\* In the flow of its plan a derived run bills nothing that it replays, and a node test
\* nothing but its node.
LEMMA ScopedIsFree ==
    ASSUME RunOK, plan # WholePlan, flow = Compile(doc, plan), NEW n \in StepNodes(doc), log.billed[n] > 0
    PROVE  Free(doc, plan, n)
<1>1. /\ IsDocument(doc) /\ Publishable(doc) /\ flow.steps = StepNodes(doc) \ Dropped(doc, plan)
      /\ flow.replayed = Replayed(doc, plan)
  BY RunFacts DEF RunOK
<1>2. plan.node \in StepNodes(doc) /\ plan.mode \in {"resume_from", "node_test"}
  BY DEF RunOK, PlanOK
<1>3. plan.node # 0 /\ n \in Nodes(doc)
  BY <1>1, <1>2, DocumentFacts
<1>4. flow.replayed = Ancestors(doc, plan.node)
  BY <1>1, <1>3 DEF Replayed
<1>5. n \in flow.steps /\ n \notin Ancestors(doc, plan.node)
  BY <1>4 DEF RunOK, LogOK
<1>6. plan.mode = "node_test" => n = plan.node
  BY <1>1, <1>4, <1>5 DEF Dropped
<1>7. n # plan.node => plan.node \notin Reachable({n}, Ends(doc, FlowEdges(doc)))
  BY <1>1, <1>2, <1>3, <1>5, AncestorsFacts
<1>q. QED
  BY <1>2, <1>6, <1>7 DEF Free, Behind, Along

\* What is under way after a step of a node is what was, or its other half, or follows it.
Onto(eng, n, t) ==
    \A f \in t.active : f \in eng.active \/ f.method[1] = n \/ <<n, f.method[1]>> \in Along(doc)

\* So it is where a call ends with an event,
LEMMA EmitOnto ==
    ASSUME RunOK, flow = Compile(doc, WholePlan), NEW n, NEW e \in Steps(n) \union Routes(n), NEW label,
           NEW eng \in {engine, Rearm(engine, n)}
    PROVE  Onto(engine, n, Emit(eng, e, <<n, label>>))
<1> DEFINE ev == <<n, label>>
<1>1. /\ e \in engine.active /\ FlowShape(doc, flow)
      /\ EngineOK(doc, flow, engine) /\ Fits(doc, engine, flow.limit)
  BY StepFacts
<1>2. eng.active = engine.active
  BY <1>1, RearmEffects
<1>3. EngineOK(doc, flow, eng) /\ Fits(doc, eng, flow.limit)
  BY <1>1, RearmOK
<1>4. ev[1] = n
  OBVIOUS
<1> HIDE DEF ev
<1>5. Emission(eng, e, ev, Emit(eng, e, ev))
  BY <1>1, <1>2, <1>3, EmitEffects
<1>6. PICK new : /\ Calling(new, Triggered(eng, ev) \X {"step"})
                 /\ Emit(eng, e, ev).active \subseteq (eng.active \ {e}) \union new
  BY <1>5 DEF Emission
<1>7. \A f \in new : f.method[1] \in Triggered(eng, ev)
  BY <1>6 DEF Calling
<1>8. doc \in Documents
  BY DEF RunOK, FlowOK
<1>9. \A m \in Triggered(eng, ev) : <<n, m>> \in Along(doc)
  BY <1>4, <1>8, TriggeredWhole
<1>10. Onto(engine, n, Emit(eng, e, ev))
  BY <1>2, <1>6, <1>7, <1>9 DEF Onto
<1>q. QED
  BY <1>10 DEF ev

\* and where a step half is over.
LEMMA OnwardsOnto ==
    ASSUME RunOK, flow = Compile(doc, WholePlan), NEW n, NEW e \in Steps(n)
    PROVE  Onto(engine, n, Onwards(e, n)) /\ Onto(engine, n, Pair(engine, e))
<1>1. e \in engine.active /\ EngineOK(doc, flow, engine) /\ Fits(doc, engine, flow.limit)
  BY StepFacts
<1>2. e.method[1] = n
  BY DEF Steps
<1>3. Pairing(n, e, engine, Pair(engine, e))
  BY <1>1, <1>2, PairEffects
<1>4. Onto(engine, n, Pair(engine, e))
  <2>1. PICK f : f.method = <<n, "route">> /\ Pair(engine, e).active = (engine.active \ {e}) \union {f}
    BY <1>3 DEF Pairing
  <2>2. f.method[1] = n
    BY <2>1
  <2>q. QED
    BY <2>1, <2>2 DEF Onto
<1>5. Onto(engine, n, Emit(engine, e, <<n, Ran>>))
  BY EmitOnto
<1>q. QED
  BY <1>4, <1>5 DEF Onwards

\* What a step of a node records, and what it notes.
LEMMA RecordDecides ==
    ASSUME RunOK, NEW n, NEW v
    PROVE  /\ Record(n, v).decision = state.decision
           /\ \A s : [Record(n, v) EXCEPT !.err = s].decision = state.decision
  BY DEF RunOK, StateOK, StateFields, Record
LEMMA NotedBills ==
    ASSUME RunOK, NEW n, NEW b,
           \/ log' = Noted(n, b)
           \/ \E s : log' = [Noted(n, b) EXCEPT !.failed = s]
           \/ \E s, u : log' = [[Noted(n, b) EXCEPT !.failed = s] EXCEPT !.failed = u]
    PROVE  \A m \in StepNodes(doc) \ {n} : log'.billed[m] = log.billed[m]
<1> DEFINE t == Noted(n, b)
<1>1. t = [x \in LogFields |-> t[x]] /\ t.billed = [log.billed EXCEPT ![n] = @ + b]
  BY DEF RunOK, LogOK, LogFields, Noted
<1> HIDE DEF t
<1>2. log'.billed = t.billed
  BY <1>1 DEF LogFields, t
<1>q. QED
  BY <1>1, <1>2 DEF RunOK, LogOK

\* What every entrypoint of a node does.
Moves(n) ==
    /\ UNCHANGED <<doc, plan, flow>> /\ phase = "running" /\ phase' # "published"
    /\ phase' = "paused" =>
          \A f \in engine'.active : f.method[1] = n /\ n \in OfKind(doc, {"gate"}) \ flow.replayed
    /\ \A m \in StepNodes(doc) : /\ m # n => log'.billed[m] = log.billed[m]
                                 /\ state.decision[m] # "none" => state'.decision[m] # "none"
    /\ flow = Compile(doc, WholePlan) =>
          /\ Onto(engine, n, engine')
          /\ \E e \in engine.active :
                /\ e.method[1] = n
                /\ e.method = <<n, "route">> /\ KindOf(doc, n) = "gate" => state'.decision[n] # "none"

\* Those that go on to what follows,
LEMMA GoingOnMoves ==
    ASSUME RunOK, NEW n \in StepNodes(doc), NEW e \in Steps(n), state'.decision = state.decision,
           \A m \in StepNodes(doc) \ {n} : log'.billed[m] = log.billed[m],
           \/ GoesOn(Onwards(e, n)) \/ GoesOn(Pair(engine, e))
           \/ \E label, eng : eng \in {engine, Rearm(engine, n)} /\ GoesOn(Emit(eng, e, <<n, label>>))
           \/ phase' = "failed" /\ UNCHANGED <<doc, plan, flow, engine>>
    PROVE  Moves(n)
<1>1. e \in engine.active /\ phase = "running" /\ e.method = <<n, "step">>
  BY DEF Steps
<1>2. UNCHANGED <<doc, plan, flow>> /\ phase' \in {"running", "failed"}
  BY GoesOnFacts
<1>3. flow = Compile(doc, WholePlan) => Onto(engine, n, engine')
  <2>1. CASE GoesOn(Onwards(e, n)) \/ GoesOn(Pair(engine, e))
    BY <2>1, OnwardsOnto, GoesOnFacts
  <2>2. CASE \E label, eng : eng \in {engine, Rearm(engine, n)} /\ GoesOn(Emit(eng, e, <<n, label>>))
    <3>1. PICK label, eng : eng \in {engine, Rearm(engine, n)} /\ GoesOn(Emit(eng, e, <<n, label>>))
      BY <2>2
    <3>2. engine' = Emit(eng, e, <<n, label>>)
      BY <3>1, GoesOnFacts
    <3>q. QED
      BY <3>1, <3>2, EmitOnto
  <2>3. CASE engine' = engine
    BY <2>3 DEF Onto
  <2>q. QED
    BY <2>1, <2>2, <2>3
<1>q. QED
  BY <1>1, <1>2, <1>3 DEF Moves

\* and the decision at a gate.
LEMMA DecideMoves ==
    ASSUME RunOK, NEW n \in StepNodes(doc), NEW e \in Routes(n), NEW decision \in Decisions \ {"none"},
           NEW honoured \in BOOLEAN, Decide(e, n, decision, honoured), log' = log
    PROVE  Moves(n)
<1>1. e \in engine.active /\ phase = "running" /\ e.method[1] = n
  BY DEF Routes
<1>2. /\ state' = [state EXCEPT !.turns[n] = @ + (IF honoured THEN 1 ELSE 0),
                                !.decision[n] = IF honoured THEN "honoured" ELSE decision]
      /\ GoesOn(Emit(IF honoured THEN Rearm(engine, n) ELSE engine, e,
                     <<n, IF honoured THEN "revise" ELSE "approve">>))
  BY DEF Decide
<1>3. state'.decision = [state.decision EXCEPT ![n] = IF honoured THEN "honoured" ELSE decision]
  BY <1>2 DEF RunOK, StateOK, StateFields
<1>4. /\ state'.decision[n] # "none"
      /\ \A m \in StepNodes(doc) : state.decision[m] # "none" => state'.decision[m] # "none"
  BY <1>3 DEF RunOK, StateOK
<1>5. PICK label, eng : eng \in {engine, Rearm(engine, n)} /\ GoesOn(Emit(eng, e, <<n, label>>))
  <2>1. CASE honoured
    <3>1. GoesOn(Emit(Rearm(engine, n), e, <<n, "revise">>))
      BY <1>2, <2>1
    <3>q. QED
      BY <3>1
  <2>2. CASE ~honoured
    <3>1. GoesOn(Emit(engine, e, <<n, "approve">>))
      BY <1>2, <2>2
    <3>q. QED
      BY <3>1
  <2>q. QED
    BY <2>1, <2>2
<1>6. UNCHANGED <<doc, plan, flow>> /\ phase' \in {"running", "failed"} /\ engine' = Emit(eng, e, <<n, label>>)
  BY <1>5, GoesOnFacts
<1>7. flow = Compile(doc, WholePlan) => Onto(engine, n, engine')
  BY <1>5, <1>6, EmitOnto
<1>q. QED
  BY <1>1, <1>4, <1>6, <1>7 DEF Moves

\* Every entrypoint does.
LEMMA EntrypointsMove ==
    ASSUME RunOK, NEW n \in StepNodes(doc), Entrypoints(n)
    PROVE  Moves(n)
<1>1. CASE SeedInput(n) \/ Transform(n)
  <2>1. PICK e \in Steps(n) : /\ \E v \in Produces(n) : state' = Record(n, v)
                              /\ GoesOn(Onwards(e, n)) /\ log' = Noted(n, 0)
    BY <1>1 DEF SeedInput, Transform
  <2>2. state'.decision = state.decision
    BY <2>1, RecordDecides
  <2>3. \A m \in StepNodes(doc) \ {n} : log'.billed[m] = log.billed[m]
    BY <2>1, NotedBills
  <2>q. QED
    BY <2>1, <2>2, <2>3, GoingOnMoves
<1>2. CASE RunAgent(n)
  <2>1. PICK e \in Steps(n), attempts \in 1..(doc.retries[n] + 1) :
           LET noted == [Noted(n, attempts * BillingUnits(doc, n)) EXCEPT !.failed = @ \ {n}]
           IN  \/ /\ \E v \in Produces(n) : state' = Record(n, v)
                  /\ GoesOn(Onwards(e, n))
                  /\ log' = noted
               \/ /\ RoutesErrors(doc, n)
                  /\ state' = [Record(n, Empty) EXCEPT !.err = @ \union {n}]
                  /\ GoesOn(Onwards(e, n))
                  /\ log' = [noted EXCEPT !.failed = @ \union {n}]
               \/ /\ ~RoutesErrors(doc, n)
                  /\ phase' = "failed"
                  /\ log' = [noted EXCEPT !.failed = @ \union {n}]
                  /\ UNCHANGED <<doc, plan, flow, engine, state, saved>>
    BY <1>2 DEF RunAgent
  <2> DEFINE b == attempts * BillingUnits(doc, n)
  <2> DEFINE noted == [Noted(n, b) EXCEPT !.failed = @ \ {n}]
  <2>2. log' = noted \/ log' = [noted EXCEPT !.failed = @ \union {n}]
    BY <2>1
  <2>3. \A m \in StepNodes(doc) \ {n} : log'.billed[m] = log.billed[m]
    <3> HIDE DEF b
    <3>1. CASE log' = noted
      BY <3>1, NotedBills
    <3>2. CASE log' = [noted EXCEPT !.failed = @ \union {n}]
      BY <3>2, NotedBills
    <3>q. QED
      BY <2>2, <3>1, <3>2
  <2>4. state'.decision = state.decision
    <3>1. CASE \E v \in Produces(n) : state' = Record(n, v)
      BY <3>1, RecordDecides
    <3>2. CASE state' = [Record(n, Empty) EXCEPT !.err = @ \union {n}]
      BY <3>2, RecordDecides
    <3>q. QED
      BY <2>1, <3>1, <3>2
  <2>5. GoesOn(Onwards(e, n)) \/ (phase' = "failed" /\ UNCHANGED <<doc, plan, flow, engine>>)
    BY <2>1
  <2>q. QED
    BY <2>3, <2>4, <2>5, GoingOnMoves
<1>3. CASE RefuseAgent(n)
  <2>1. PICK e \in Steps(n) : /\ phase' = "failed" /\ log' = [Noted(n, 0) EXCEPT !.failed = @ \union {n}]
                              /\ UNCHANGED <<doc, plan, flow, engine, state, saved>>
    BY <1>3 DEF RefuseAgent
  <2>q. QED
    BY <2>1, NotedBills, GoingOnMoves
<1>4. CASE RouteError(n)
  <2>1. PICK e \in Routes(n) :
           /\ RoutesErrors(doc, n)
           /\ GoesOn(Emit(Rearm(engine, n), e, <<n, IF n \in state.err THEN "error" ELSE "ok">>))
           /\ UNCHANGED <<state, log>>
    BY <1>4 DEF RouteError
  <2>2. KindOf(doc, n) # "gate"
    BY <2>1, RunFacts DEF RunOK, RoutesErrors, IsDocument, OfKind, KindOf, BillableKinds
  <2>3. e \in engine.active /\ phase = "running" /\ e.method[1] = n
    BY DEF Routes
  <2>4. PICK label : GoesOn(Emit(Rearm(engine, n), e, <<n, label>>))
    BY <2>1
  <2>5. /\ UNCHANGED <<doc, plan, flow>> /\ phase' \in {"running", "failed"}
        /\ engine' = Emit(Rearm(engine, n), e, <<n, label>>)
    BY <2>4, GoesOnFacts
  <2>6. flow = Compile(doc, WholePlan) => Onto(engine, n, engine')
    BY <2>5, EmitOnto
  <2>q. QED
    BY <2>1, <2>2, <2>3, <2>5, <2>6 DEF Moves
<1>5. CASE RouteBranch(n)
  <2>1. PICK e \in Steps(n) :
           /\ LET value == state.out[doc.reads[n]]
                  label == IF value \in doc.branches[n] THEN value ELSE "otherwise"
              IN  GoesOn(Emit(Rearm(engine, n), e, <<n, label>>))
           /\ state' = Record(n, Latest(n))
           /\ log' = Noted(n, 0)
    BY <1>5 DEF RouteBranch
  <2>2. \E label, eng : eng \in {engine, Rearm(engine, n)} /\ GoesOn(Emit(eng, e, <<n, label>>))
    BY <2>1
  <2>3. state'.decision = state.decision
    BY <2>1, RecordDecides
  <2>4. \A m \in StepNodes(doc) \ {n} : log'.billed[m] = log.billed[m]
    BY <2>1, NotedBills
  <2>q. QED
    BY <2>2, <2>3, <2>4, GoingOnMoves
<1>6. CASE EmitOutput(n)
  <2>1. PICK e \in Steps(n) :
           /\ state' = Record(n, IF Latest(n) = Blank THEN Empty ELSE Latest(n))
           /\ GoesOn(Emit(engine, e, <<n, Ran>>))
           /\ log' = Noted(n, 0)
    BY <1>6 DEF EmitOutput
  <2>2. \E label, eng : eng \in {engine, Rearm(engine, n)} /\ GoesOn(Emit(eng, e, <<n, label>>))
    BY <2>1
  <2>3. state'.decision = state.decision
    BY <2>1, RecordDecides
  <2>4. \A m \in StepNodes(doc) \ {n} : log'.billed[m] = log.billed[m]
    BY <2>1, NotedBills
  <2>q. QED
    BY <2>2, <2>3, <2>4, GoingOnMoves
<1>7. CASE RenderGate(n)
  <2>1. PICK e \in Steps(n) :
           /\ KindOf(doc, n) = "gate" /\ n \notin flow.replayed /\ state' = Record(n, Other)
           /\ phase' = "paused" /\ engine' = [engine EXCEPT !.active = {e}] /\ log' = Noted(n, 0)
           /\ UNCHANGED <<doc, plan, flow, saved>>
    BY <1>7 DEF RenderGate
  <2>2. e \in engine.active /\ phase = "running" /\ e.method = <<n, "step">>
    BY DEF Steps
  <2>3. engine'.active = {e}
    BY <2>1 DEF RunOK, PhaseOK, EngineOK, IsEngine, Memory
  <2>4. n \in OfKind(doc, {"gate"}) \ flow.replayed
    BY <2>1 DEF StepNodes, OfKind, KindOf
  <2>5. /\ state'.decision = state.decision
        /\ \A m \in StepNodes(doc) \ {n} : log'.billed[m] = log.billed[m]
    BY <2>1, RecordDecides, NotedBills
  <2>6. Onto(engine, n, engine')
    BY <2>2, <2>3 DEF Onto
  <2>q. QED
    BY <2>1, <2>2, <2>3, <2>4, <2>5, <2>6 DEF Moves
<1>8. CASE RouteGate(n)
  <2>1. PICK e \in Routes(n), decision \in {"approve", "revise"}, honoured \in BOOLEAN :
           Decide(e, n, decision, honoured) /\ log' = log
    BY <1>8 DEF RouteGate
  <2>q. QED
    BY <2>1, DecideMoves DEF Decisions
<1>9. CASE RouteReplayedGate(n)
  <2>1. PICK e \in Routes(n) :
           /\ n \in flow.replayed /\ log' = log
           /\ \/ /\ saved.decision[n] = "none" /\ phase' = "failed"
                 /\ UNCHANGED <<doc, plan, flow, engine, state, saved>>
              \/ /\ saved.decision[n] # "none"
                 /\ \E honoured \in BOOLEAN :
                       Decide(e, n, IF saved.decision[n] = "honoured" THEN "revise" ELSE saved.decision[n],
                              honoured)
    BY <1>9 DEF RouteReplayedGate
  <2>2. saved.decision[n] \in Decisions
    BY <2>1 DEF RunOK, SavedOK
  <2>3. CASE saved.decision[n] # "none"
    <3>1. PICK honoured \in BOOLEAN, decision \in Decisions \ {"none"} : Decide(e, n, decision, honoured)
      BY <2>1, <2>2, <2>3 DEF Decisions
    <3>q. QED
      BY <2>1, <3>1, DecideMoves
  <2>4. CASE phase' = "failed" /\ UNCHANGED <<doc, plan, flow, engine, state, saved>>
    <3>1. e \in engine.active /\ phase = "running" /\ e.method[1] = n
      BY DEF Routes
    <3>2. flow.replayed # {}
      BY <2>1
    <3>3. flow # Compile(doc, WholePlan)
      BY <3>2, WholeFlow DEF RunOK, FlowOK
    <3>4. log' = log
      BY <2>1
    <3>q. QED
      BY <2>4, <3>1, <3>3, <3>4 DEF Moves
  <2>q. QED
    BY <2>1, <2>3, <2>4
<1>10. CASE ReplayOutput(n)
  <2>1. PICK e \in Steps(n) :
           /\ log' = Noted(n, 0)
           /\ \/ phase' = "failed" /\ UNCHANGED <<doc, plan, flow, engine, state, saved>>
              \/ /\ state' = [Record(n, IF saved.out[n] = Blank THEN Empty ELSE saved.out[n])
                                 EXCEPT !.err = @ \union ({n} \intersect saved.err)]
                 /\ GoesOn(IF KindOf(doc, n) = "gate" THEN Pair(engine, e) ELSE Onwards(e, n))
    BY <1>10 DEF ReplayOutput
  <2>2. state'.decision = state.decision
    <3> DEFINE v == IF saved.out[n] = Blank THEN Empty ELSE saved.out[n]
    <3>1. CASE state' = [Record(n, v) EXCEPT !.err = @ \union ({n} \intersect saved.err)]
      <4> HIDE DEF v
      <4>q. QED
        BY <3>1, RecordDecides
    <3>q. QED
      BY <2>1, <3>1
  <2>3. \A m \in StepNodes(doc) \ {n} : log'.billed[m] = log.billed[m]
    BY <2>1, NotedBills
  <2>q. QED
    BY <2>1, <2>2, <2>3, GoingOnMoves
<1>q. QED
  BY <1>1, <1>2, <1>3, <1>4, <1>5, <1>6, <1>7, <1>8, <1>9, <1>10 DEF Entrypoints

\* A derived run keeps to it: in its own flow until a reply, and behind a gate from then on.
LEMMA DerivedNext == RunOK /\ Derived /\ [Next]_vars => Derived'
<1>1. SUFFICES ASSUME RunOK, Derived, [Next]_vars, plan' # WholePlan PROVE Derived'
  BY DEF Derived
<1>0. doc \in Documents /\ IsDocument(doc) /\ Publishable(doc) /\ Linked(doc) /\ StepNodes(doc) \subseteq Nodes(doc)
  BY <1>1, RunFacts, PublishableIsLinked, DocumentFacts DEF RunOK, FlowOK
<1>2. ASSUME UNCHANGED <<doc, plan, flow, engine, state, log>>, phase' \in {phase, "completed", "failed"}
      PROVE  Derived'
  BY <1>1, <1>2 DEF Derived, Scoped, Beyond
<1>3. ASSUME NEW n \in StepNodes(doc), Entrypoints(n) PROVE Derived'
  <2>1. Moves(n)
    BY <1>1, <1>3, EntrypointsMove
  <2>2. UNCHANGED <<doc, plan, flow>> /\ phase' # "published"
    BY <2>1 DEF Moves
  <2>3. CASE Scoped
    <3>1. flow.replayed = Replayed(doc, plan)
      BY <1>1, <2>3, RunFacts DEF RunOK, Scoped
    <3>2. Scoped'
      BY <2>1, <2>2, <2>3, <3>1 DEF Scoped, Moves, Held
    <3>q. QED
      BY <2>2, <3>2 DEF Derived
  <2>4. ASSUME NEW g \in Held(doc, plan), Beyond(g) PROVE Derived'
    <3>1. PICK e \in engine.active :
             /\ e.method[1] = n
             /\ e.method = <<n, "route">> /\ KindOf(doc, n) = "gate" => state'.decision[n] # "none"
      BY <2>1, <2>4 DEF Moves, Beyond
    <3>2. n \in Behind(doc, g) /\ g \in Nodes(doc)
      BY <2>4, <3>1 DEF Beyond, Held, OfKind
    <3>3. \A m : <<n, m>> \in Along(doc) => m \in Behind(doc, g)
      <4>1. {g} \in SUBSET Nodes(doc) /\ FlowEdges(doc) \in SUBSET FlowEdges(doc)
        BY <3>2
      <4>q. QED
        BY <1>0, <3>2, <4>1, ReachNext DEF Behind, Along
    <3>4. state'.decision[g] # "none"
      <4>1. CASE state.decision[g] # "none"
        <5>1. g \in StepNodes(doc)
          <6>1. \A m \in Members(doc) : KindOf(doc, m) = "agent"
            BY <1>0 DEF Publishable, AttachmentsOK, Members, EdgesInto, KindOf
          <6>2. g \in Nodes(doc) /\ KindOf(doc, g) = "gate"
            BY <2>4 DEF Held, OfKind, KindOf
          <6>q. QED
            BY <6>1, <6>2 DEF StepNodes, OfKind, KindOf, AttachmentKinds
        <5>q. QED
          BY <2>1, <4>1, <5>1 DEF Moves
      <4>2. CASE state.decision[g] = "none"
        <5>1. e.method = <<g, "route">>
          BY <2>4, <4>2 DEF Beyond
        <5>2. n = g
          BY <3>1, <5>1
        <5>3. KindOf(doc, g) = "gate"
          BY <2>4 DEF Held, OfKind, KindOf
        <5>q. QED
          BY <3>1, <5>1, <5>2, <5>3
      <4>q. QED
        BY <4>1, <4>2
    <3>5. \A f \in engine'.active : f.method[1] \in Behind(doc, g)
      BY <2>1, <2>4, <3>2, <3>3 DEF Moves, Onto, Beyond
    <3>6. \A m \in StepNodes(doc) : log'.billed[m] > 0 => Free(doc, plan, m) \/ m \in Behind(doc, g)
      BY <2>1, <2>4, <3>2 DEF Moves, Beyond
    <3>7. Beyond(g)'
      BY <2>2, <2>4, <3>4, <3>5, <3>6 DEF Beyond
    <3>q. QED
      BY <2>2, <3>7 DEF Derived
  <2>q. QED
    BY <1>1, <2>2, <2>3, <2>4 DEF Derived
<1>4. ASSUME NEW n \in StepNodes(doc), Answer(n) PROVE Derived'
  <2>1. PICK e \in engine.active : e.method = <<n, "step">>
    BY <1>4 DEF Answer
  <2>2. /\ phase = "paused" /\ phase' = "running" /\ flow' = Compile(doc, WholePlan)
        /\ engine' = NewEngine({<<n, "route">>}) /\ log' = [log EXCEPT !.answers = @ + 1]
        /\ UNCHANGED <<doc, plan, state>>
    BY <1>4 DEF Answer
  <2>3. Calling(engine'.active, {<<n, "route">>})
    BY <2>2, NewEngineEffects
  <2>4. \A f \in engine'.active : f.method = <<n, "route">> /\ f.method[1] = n
    BY <2>3 DEF Calling
  <2>5. log'.billed = log.billed
    BY <1>1, <2>2 DEF RunOK, LogOK, LogFields
  <2>6. CASE Scoped
    <3>1. n \in Held(doc, plan)
      BY <2>1, <2>2, <2>6 DEF Scoped
    <3>2. n \in Behind(doc, n)
      BY <1>0, ReachSelf DEF Behind, Along
    <3>3. \A m \in StepNodes(doc) : log.billed[m] > 0 => Free(doc, plan, m)
      BY <1>1, <2>2, <2>6, ScopedIsFree DEF Scoped
    <3>4. Beyond(n)'
      BY <2>2, <2>4, <2>5, <3>2, <3>3 DEF Beyond
    <3>q. QED
      BY <2>2, <3>1, <3>4 DEF Derived
  <2>7. ASSUME NEW g \in Held(doc, plan), Beyond(g) PROVE Derived'
    <3>1. n \in Behind(doc, g) /\ state.decision[g] # "none"
      BY <2>1, <2>7 DEF Beyond
    <3>2. Beyond(g)'
      BY <2>2, <2>4, <2>5, <2>7, <3>1 DEF Beyond
    <3>q. QED
      BY <2>2, <3>2 DEF Derived
  <2>q. QED
    BY <1>1, <2>2, <2>6, <2>7 DEF Derived
<1>5. ASSUME NEW n \in StepNodes(doc), ResumeFrom(n) \/ NodeTest(n) PROVE Derived'
  <2>1. doc' = doc /\ flow' = Compile(doc, plan') /\ phase' = "running"
    BY <1>5 DEF ResumeFrom, NodeTest, Derive
  <2>q. QED
    BY <2>1 DEF Derived, Scoped
<1>6. CASE Kickoff
  <2>1. phase = "published" /\ plan' = plan
    BY <1>6 DEF Kickoff
  <2>q. QED
    BY <1>1, <2>1 DEF Derived
<1>7. CASE Return \/ Abandon \/ Rest \/ UNCHANGED vars
  BY <1>2, <1>7 DEF Return, Abandon, Rest, vars
<1>q. QED
  BY <1>1, <1>3, <1>4, <1>5, <1>6, <1>7 DEF Next

\* A derived run bills nothing that it replays: until a reply, neither what leads to its
\* point nor, in a node test, anything but the node; and from then on only what lies behind
\* a gate that was answered in it (compiler.py replay_ancestors, runtime.py replay_output,
\* builder_runner.py resume).
THEOREM ReplayedNodesAreFree == Spec => []NothingUpstreamIsBilled
<1>1. Init => Derived
  BY DEF Init, Derived
<1>2. RunOK /\ Derived => NothingUpstreamIsBilled
  <2>1. SUFFICES ASSUME RunOK, Derived, plan # WholePlan, NEW n \in StepNodes(doc), log.billed[n] > 0
                 PROVE  Free(doc, plan, n) \/ n \in Reachable(Answered, Along(doc))
    BY DEF NothingUpstreamIsBilled, Free, Behind, Along
  <2>2. CASE Scoped
    BY <2>1, <2>2, ScopedIsFree DEF Scoped
  <2>3. ASSUME NEW g \in Held(doc, plan), Beyond(g), ~Free(doc, plan, n)
        PROVE  n \in Reachable(Answered, Along(doc))
    <3>1. n \in Behind(doc, g) /\ g \in Answered
      BY <2>1, <2>3 DEF Beyond, Held, Answered
    <3>2. Linked(doc) /\ Answered \in SUBSET Nodes(doc) /\ FlowEdges(doc) \in SUBSET FlowEdges(doc)
      BY <2>1, RunFacts, PublishableIsLinked DEF RunOK, Answered, OfKind
    <3>3. {g} \in SUBSET Reachable(Answered, Along(doc))
      BY <3>1, <3>2, ReachFacts DEF Along
    <3>4. Reachable({g}, Along(doc)) \subseteq Reachable(Answered, Along(doc))
      BY <3>2, <3>3, ReachComposes DEF Along
    <3>q. QED
      BY <3>1, <3>4 DEF Behind
  <2>q. QED
    BY <2>1, <2>2, <2>3 DEF Derived
<1>q. QED
  BY <1>1, <1>2, DerivedNext, RunIsOK, PTL DEF Spec
=============================================================================
