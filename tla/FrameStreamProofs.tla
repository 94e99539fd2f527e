-------------------------- MODULE FrameStreamProofs --------------------------
(***************************************************************************)
(* What a browser sees of a run, for any number of runs and frames, any    *)
(* capacities and page sizes, and any drops of the connection: skipped     *)
(* frames are counted; and with a ring that keeps its frames, frames are   *)
(* shown in order and none is left out.                                    *)
(***************************************************************************)
EXTENDS FrameStream, FrameLogProofs, SequenceTheorems

-----------------------------------------------------------------------------
(* Ranks in a finite set. *)

\* How many elements of S have a smaller key than f.
Rank(S, key, f) == Cardinality({g \in S : key[g] < key[f]})

\* Ranks are told apart by keys, and run from zero without a gap.
LEMMA Ranks ==
    ASSUME NEW S, IsFiniteSet(S), NEW key \in [S -> Nat],
           \A f, g \in S : key[f] = key[g] => f = g
    PROVE  /\ Cardinality(S) \in Nat
           /\ \A f \in S : Rank(S, key, f) \in 0..(Cardinality(S) - 1)
           /\ \A f, g \in S : key[f] < key[g] => Rank(S, key, f) < Rank(S, key, g)
           /\ \A k \in 0..(Cardinality(S) - 1) : \E f \in S : Rank(S, key, f) = k
<1> DEFINE Below1(f) == {g \in S : key[g] < key[f]}
<1>1. Cardinality(S) \in Nat
  BY FS_CardinalityType
<1>2. \A f \in S : IsFiniteSet(Below1(f)) /\ Cardinality(Below1(f)) \in Nat
                   /\ Rank(S, key, f) = Cardinality(Below1(f))
  BY FS_Subset, FS_CardinalityType DEF Rank
<1>3. ASSUME NEW f \in S PROVE Rank(S, key, f) \in 0..(Cardinality(S) - 1)
  <2>1. Below1(f) \in SUBSET S /\ f \notin Below1(f) /\ Below1(f) # S
    BY <1>3
  <2>2. Cardinality(Below1(f)) <= Cardinality(S) /\ Cardinality(Below1(f)) # Cardinality(S)
    BY <2>1, FS_Subset
  <2>3. Cardinality(Below1(f)) \in Nat /\ Rank(S, key, f) = Cardinality(Below1(f))
    BY <1>2
  <2> HIDE DEF Below1
  <2>q. QED
    BY <1>1, <2>2, <2>3
<1>4. ASSUME NEW f \in S, NEW g \in S, key[f] < key[g]
      PROVE  Rank(S, key, f) < Rank(S, key, g)
  <2>1. Below1(f) \in SUBSET Below1(g) /\ f \in Below1(g) /\ f \notin Below1(f)
    BY <1>4
  <2>2. Cardinality(Below1(f)) <= Cardinality(Below1(g))
        /\ Cardinality(Below1(f)) # Cardinality(Below1(g))
    BY <1>2, <2>1, FS_Subset
  <2>3. /\ Cardinality(Below1(f)) \in Nat /\ Rank(S, key, f) = Cardinality(Below1(f))
        /\ Cardinality(Below1(g)) \in Nat /\ Rank(S, key, g) = Cardinality(Below1(g))
    BY <1>2
  <2> HIDE DEF Below1
  <2>q. QED
    BY <2>2, <2>3
<1> DEFINE T == 0..(Cardinality(S) - 1)
<1> DEFINE rank == [f \in S |-> Rank(S, key, f)]
<1>5. IsFiniteSet(T) /\ Cardinality(T) = Cardinality(S)
  BY <1>1, FS_Interval
<1>6. rank \in Injection(S, T)
  <2>1. rank \in [S -> T]
    BY <1>3
  <2>2. ASSUME NEW f \in S, NEW g \in S, f # g PROVE rank[f] # rank[g]
    <3>1. key[f] < key[g] \/ key[g] < key[f]
      BY <2>2
    <3>2. rank[f] \in Nat /\ rank[g] \in Nat
      BY <1>3
    <3>q. QED
      BY <1>4, <3>1, <3>2
  <2>q. QED
    BY <2>1, <2>2 DEF Injection, IsInjective
<1>7. rank \in Surjection(S, T)
  BY <1>5, <1>6, FS_Injection
<1>8. \A k \in T : \E f \in S : rank[f] = k
  BY <1>7 DEF Surjection
<1>q. QED
  BY <1>1, <1>3, <1>4, <1>8

\* A finite set of numbers has a greatest one.
LEMMA MaxIsGreatest ==
    ASSUME NEW S \in SUBSET Nat, IsFiniteSet(S), S # {}
    PROVE  Max(S) \in S /\ \A n \in S : n <= Max(S)
<1> DEFINE key == [n \in S |-> n]
<1>1. /\ Cardinality(S) \in Nat
      /\ \A f \in S : Rank(S, key, f) \in 0..(Cardinality(S) - 1)
      /\ \A f, g \in S : key[f] < key[g] => Rank(S, key, f) < Rank(S, key, g)
      /\ \A k \in 0..(Cardinality(S) - 1) : \E f \in S : Rank(S, key, f) = k
  <2>1. key \in [S -> Nat] /\ \A f, g \in S : key[f] = key[g] => f = g
    OBVIOUS
  <2> HIDE DEF key
  <2>q. QED
    BY <2>1, Ranks
<1>2. Cardinality(S) # 0
  BY FS_EmptySet
<1>3. PICK m \in S : Rank(S, key, m) = Cardinality(S) - 1
  BY <1>1, <1>2
<1>4. \A n \in S : m >= n
  <2>1. SUFFICES ASSUME NEW n \in S, m < n PROVE FALSE
    OBVIOUS
  <2>2. Rank(S, key, m) < Rank(S, key, n)
    BY <1>1, <2>1
  <2> HIDE DEF key
  <2>q. QED
    BY <1>1, <1>3, <2>2
<1>q. QED
  BY <1>3, <1>4 DEF Max

-----------------------------------------------------------------------------
(* Frames by their numbers. *)

\* No two frames have one number.
Distinct(fs) == \A f, g \in fs : f.number = g.number => f = g

\* There are finitely many frames.
LEMMA FramesFinite ==
    /\ MaxFrames \in Nat /\ Numbers = 1..MaxFrames /\ Frames = 1..MaxFrames
    /\ IsFiniteSet(Numbers) /\ IsFiniteSet(Numbered)
<1>1. MaxFrames \in Nat /\ IsFiniteSet(1..MaxFrames)
  BY FrameBounds, FS_Interval
<1>2. IsFiniteSet((1..MaxFrames) \X (1..MaxFrames))
  BY <1>1, FS_Product
<1> DEFINE pair == [p \in Numbers \X Frames |-> [number |-> p[1], frame |-> p[2]]]
<1>3. pair \in Surjection(Numbers \X Frames, Numbered)
  <2>1. pair \in [Numbers \X Frames -> Numbered]
    BY DEF Numbered
  <2>2. ASSUME NEW f \in Numbered PROVE \E p \in Numbers \X Frames : pair[p] = f
    <3>1. <<f.number, f.frame>> \in Numbers \X Frames
          /\ pair[<<f.number, f.frame>>] = f
      BY DEF Numbered
    <3>q. QED
      BY <3>1
  <2>q. QED
    BY <2>1, <2>2 DEF Surjection
<1>q. QED
  BY <1>1, <1>2, <1>3, FS_Surjection DEF Numbers, Frames

\* Frames are ranked by their numbers, from zero without a gap.
LEMMA FrameRanks ==
    ASSUME NEW fs \in SUBSET Numbered, Distinct(fs)
    PROVE  /\ IsFiniteSet(fs) /\ Cardinality(fs) \in Nat
           /\ \A f \in fs : Before(fs, f) \in 0..(Cardinality(fs) - 1)
           /\ \A f, g \in fs : f.number < g.number => Before(fs, f) < Before(fs, g)
           /\ \A k \in 0..(Cardinality(fs) - 1) : \E f \in fs : Before(fs, f) = k
<1> DEFINE key == [f \in fs |-> f.number]
<1>1. IsFiniteSet(fs)
  BY FramesFinite, FS_Subset
<1>2. key \in [fs -> Nat] /\ \A f, g \in fs : key[f] = key[g] => f = g
  BY FramesFinite DEF Numbered, Distinct
<1>3. \A f \in fs : Before(fs, f) = Rank(fs, key, f)
  BY DEF Before, Rank
<1>4. \A f, g \in fs : f.number < g.number <=> key[f] < key[g]
  OBVIOUS
<1> HIDE DEF key
<1>5. /\ Cardinality(fs) \in Nat
      /\ \A f \in fs : Rank(fs, key, f) \in 0..(Cardinality(fs) - 1)
      /\ \A f, g \in fs : key[f] < key[g] => Rank(fs, key, f) < Rank(fs, key, g)
      /\ \A k \in 0..(Cardinality(fs) - 1) : \E f \in fs : Rank(fs, key, f) = k
  BY <1>1, <1>2, Ranks
<1>q. QED
  BY <1>1, <1>3, <1>4, <1>5

\* Frames in order are the frames, the last number last.
LEMMA InOrderIsSeq ==
    ASSUME NEW fs \in SUBSET Numbered, Distinct(fs)
    PROVE  /\ InOrder(fs) \in Seq(fs) /\ InOrder(fs) \in Seq(Numbered)
           /\ Len(InOrder(fs)) = Cardinality(fs)
           /\ Cardinality(fs) \in Nat
           /\ \A f \in fs : \E i \in 1..Cardinality(fs) : InOrder(fs)[i] = f
           /\ \A f \in fs : f.number <= InOrder(fs)[Cardinality(fs)].number
<1> DEFINE n == Cardinality(fs)
<1> DEFINE s == [i \in 1..n |-> CHOOSE f \in fs : Before(fs, f) = i - 1]
<1>1. /\ IsFiniteSet(fs) /\ n \in Nat
      /\ \A f \in fs : Before(fs, f) \in 0..(n - 1)
      /\ \A f, g \in fs : f.number < g.number => Before(fs, f) < Before(fs, g)
      /\ \A k \in 0..(n - 1) : \E f \in fs : Before(fs, f) = k
  BY FrameRanks
<1>2. InOrder(fs) = s
  BY DEF InOrder
<1>3. \A f \in fs : f.number \in Nat
  BY FramesFinite DEF Numbered
<1> HIDE DEF n
<1>4. \A i \in 1..n : s[i] \in fs /\ Before(fs, s[i]) = i - 1
  <2>1. \A i \in 1..n : i - 1 \in 0..(n - 1)
    BY <1>1
  <2>q. QED
    BY <1>1, <2>1
<1>5. s \in Seq(fs) /\ s \in Seq(Numbered) /\ Len(s) = n
  BY <1>1, <1>4
<1> HIDE DEF s
<1>6. ASSUME NEW f \in fs PROVE \E i \in 1..n : s[i] = f
  <2>1. Before(fs, f) + 1 \in 1..n /\ Before(fs, f) \in Nat
    BY <1>1, <1>6
  <2>2. PICK i \in 1..n : i = Before(fs, f) + 1
    BY <2>1
  <2>3. Before(fs, s[i]) = Before(fs, f) /\ s[i] \in fs
    BY <1>4, <2>1, <2>2
  <2>4. s[i].number = f.number
    BY <1>1, <1>3, <2>3, <1>6
  <2>q. QED
    BY <2>3, <2>4, <1>6 DEF Distinct
<1>7. ASSUME NEW f \in fs PROVE f.number <= s[n].number
  <2>1. Before(fs, f) <= n - 1 /\ n \in 1..n
    BY <1>1, <1>7
  <2>2. s[n] \in fs /\ Before(fs, s[n]) = n - 1
    BY <1>4, <2>1
  <2>3. ~(s[n].number < f.number)
    BY <1>1, <1>7, <2>1, <2>2
  <2>q. QED
    BY <1>3, <1>7, <2>2, <2>3
<1>q. QED
  BY <1>1, <1>2, <1>5, <1>6, <1>7 DEF n

\* A page that is not full is all there is.
LEMMA PageOrAll ==
    ASSUME NEW fs \in SUBSET Numbered, Distinct(fs)
    PROVE  /\ Page(fs) \in SUBSET fs /\ Distinct(Page(fs)) /\ Cardinality(Page(fs)) \in Nat
           /\ Cardinality(Page(fs)) # PageLimit => Page(fs) = fs
<1> DEFINE n == Cardinality(fs)
<1>1. /\ IsFiniteSet(fs) /\ n \in Nat
      /\ \A f \in fs : Before(fs, f) \in 0..(n - 1)
      /\ \A f, g \in fs : f.number < g.number => Before(fs, f) < Before(fs, g)
      /\ \A k \in 0..(n - 1) : \E f \in fs : Before(fs, f) = k
  BY FrameRanks
<1>2. Page(fs) \in SUBSET fs /\ Distinct(Page(fs)) /\ IsFiniteSet(Page(fs))
      /\ Cardinality(Page(fs)) \in Nat
  BY <1>1, FS_Subset, FS_CardinalityType DEF Page, Distinct
<1>3. PageLimit \in Nat /\ PageLimit > 0
  BY StreamBounds
<1>4. ASSUME NEW f \in fs, f \notin Page(fs) PROVE Cardinality(Page(fs)) = PageLimit
  <2>1. Before(fs, f) >= PageLimit /\ n > PageLimit
    BY <1>1, <1>3, <1>4 DEF Page
  <2> DEFINE rank == [g \in Page(fs) |-> Before(fs, g)]
  <2> DEFINE T == 0..(PageLimit - 1)
  <2>2. rank \in [Page(fs) -> T]
    BY <1>1, <1>2, <1>3 DEF Page
  <2>3. ASSUME NEW k \in T PROVE \E g \in Page(fs) : rank[g] = k
    <3>1. k \in 0..(n - 1) /\ k < PageLimit
      BY <1>1, <1>3, <2>1, <2>3
    <3>2. PICK g \in fs : Before(fs, g) = k
      BY <1>1, <3>1
    <3>q. QED
      BY <3>1, <3>2 DEF Page
  <2>4. ASSUME NEW g \in Page(fs), NEW h \in Page(fs), g # h PROVE rank[g] # rank[h]
    <3>1. g \in fs /\ h \in fs /\ g.number # h.number /\ g.number \in Nat /\ h.number \in Nat
      BY <1>2, <2>4, FramesFinite DEF Distinct, Numbered
    <3>2. rank[g] = Before(fs, g) /\ rank[h] = Before(fs, h)
          /\ Before(fs, g) \in Nat /\ Before(fs, h) \in Nat
      BY <1>1, <2>4, <3>1
    <3>3. g.number < h.number \/ h.number < g.number
      BY <3>1
    <3>q. QED
      BY <1>1, <3>1, <3>2, <3>3
  <2>5. rank \in Surjection(Page(fs), T) /\ rank \in Injection(Page(fs), T)
    <3> HIDE DEF T
    <3>1. \A g \in Page(fs), h \in Page(fs) : rank[g] = rank[h] => g = h
      BY <2>4
    <3> HIDE DEF rank
    <3>q. QED
      BY <2>2, <2>3, <3>1 DEF Surjection, Injection, IsInjective
  <2>6. Cardinality(T) = PageLimit
    BY <1>3, FS_Interval
  <2>q. QED
    BY <1>2, <2>5, <2>6, FS_Surjection
<1>q. QED
  BY <1>2, <1>4

-----------------------------------------------------------------------------
(* The log below the stream. *)

\* A step of the stream is a step of the log, or none.
LEMMA StreamStepsLog == [StreamNext]_all => [Next]_vars
<1>1. SUFFICES ASSUME [StreamNext]_all PROVE [Next]_vars
  OBVIOUS
<1>2. CASE \E r \in Runs : PublishFrames(r)
  BY <1>2 DEF PublishFrames, Next, Handlers
<1>3. CASE LogSteps
  BY <1>3 DEF LogSteps, Next, Handlers, Closing
<1>4. CASE ServerEnds
  BY <1>4 DEF ServerEnds, Next
<1>5. CASE Server
  BY <1>5 DEF Server, Connect, ReplayRows, ReplayRing, Deliver, Forward
<1>6. CASE Disconnect \/ Browser
  BY <1>6 DEF Disconnect, Browser, Receive, FetchRows, FetchRing, FetchFails
<1>7. CASE UNCHANGED all
  BY <1>7 DEF all
<1>q. QED
  BY <1>1, <1>2, <1>3, <1>4, <1>5, <1>6, <1>7 DEF StreamNext

\* The stream only watches: whatever the browser does, the log behaves as FrameLog says
\* (RunRecord.subscribe, replay_frames).
THEOREM StreamRefinesLog == StreamSpec => Spec
<1>1. StreamInit => Init
  BY DEF StreamInit
<1>q. QED
  BY <1>1, StreamStepsLog, PTL DEF StreamSpec, Spec

\* The ring has a frame for every number it gave out, the restored ones included.
IssuedInv == \A n \in Numbers : n < next[Viewed] => issued[Viewed][n] # 0

\* A restart gives every place up to the number of rows a frame.
LEMMA PlacesAreTaken ==
    ASSUME TypeOK, NEW r \in Runs, NEW n \in Numbers, n <= Cardinality(Rows(r))
    PROVE  Renumbered(r)[n] \in Frames
<1> DEFINE S == Rows(r)
<1> DEFINE key == [m \in S |-> m]
<1>1. S \in SUBSET Numbers /\ IsFiniteSet(S) /\ \A m \in S : m \in Nat
  BY FramesFinite, FS_Subset DEF Rows
<1>2. /\ Cardinality(S) \in Nat
      /\ \A k \in 0..(Cardinality(S) - 1) : \E f \in S : Rank(S, key, f) = k
  <2>1. key \in [S -> Nat] /\ \A f, g \in S : key[f] = key[g] => f = g
    BY <1>1
  <2> HIDE DEF key, S
  <2>q. QED
    BY <1>1, <2>1, Ranks
<1>3. PICK m \in S : Rank(S, key, m) = n - 1
  <2>1. n - 1 \in 0..(Cardinality(S) - 1)
    BY <1>2, FramesFinite
  <2> HIDE DEF key, S
  <2>q. QED
    BY <1>2, <2>1
<1>4. Place(r, m) = n
  <2> DEFINE low == {k \in S : k < m}
  <2>1. low = {g \in S : key[g] < key[m]}
    OBVIOUS
  <2>2. {k \in S : k <= m} = low \union {m} /\ m \notin low /\ IsFiniteSet(low)
    BY <1>1, FS_Subset
  <2>3. Cardinality(low) = n - 1
    BY <1>3, <2>1 DEF Rank
  <2>4. Cardinality(low \union {m}) = n
    <3> HIDE DEF low
    <3>1. Cardinality(low \union {m}) = Cardinality(low) + 1
      BY <2>2, FS_AddElement
    <3>2. n \in Nat
      BY FramesFinite
    <3>q. QED
      BY <2>3, <3>1, <3>2
  <2>q. QED
    BY <2>2, <2>4 DEF Place
<1> DEFINE frame == {row[r][k] : k \in {j \in Rows(r) : Place(r, j) = n}}
<1>5. row[r][m] \in frame /\ frame \subseteq Frames
  BY <1>4 DEF TypeOK, Rows
<1>6. Renumbered(r)[n] = IF frame = {} THEN 0 ELSE CHOOSE f \in frame : TRUE
  BY DEF Renumbered
<1> HIDE DEF frame, S
<1>q. QED
  BY <1>5, <1>6

\* No step of the log numbers a frame without keeping it.
LEMMA IssuedStep ==
    ASSUME LogInv, LogInv', IssuedInv, [Next]_vars
    PROVE  IssuedInv'
<1>0. TypeOK /\ Viewed \in Runs /\ MaxFrames \in Nat
  BY StreamBounds, FrameBounds DEF LogInv
<1>1. CASE UNCHANGED <<next, issued>>
  BY <1>1 DEF IssuedInv
<1>2. ASSUME NEW r \in Runs, NEW k \in 1..MaxGroup, Capture(r, k) PROVE IssuedInv'
  <2>1. CASE r # Viewed
    <3>1. next'[Viewed] = next[Viewed] /\ issued'[Viewed] = issued[Viewed]
      BY <1>0, <1>2, <2>1 DEF Capture, TypeOK
    <3>q. QED
      BY <3>1 DEF IssuedInv
  <2>2. CASE r = Viewed
    <3>1. /\ next[r] \in Nat /\ captured[r] \in Nat /\ k \in Nat
          /\ next'[r] = next[r] + k
          /\ \A n \in Numbers : issued'[r][n] =
                IF n \in next[r]..(next[r] + k - 1) THEN captured[r] + 1 + n - next[r]
                                                    ELSE issued[r][n]
      BY <1>0, <1>2, FrameBounds DEF Capture, TypeOK
    <3>2. ASSUME NEW n \in Numbers, n < next'[r] PROVE issued'[r][n] # 0
      <4>1. n \in Nat
        BY FramesFinite
      <4>2. CASE n < next[r]
        BY <3>1, <2>2, <4>1, <4>2 DEF IssuedInv
      <4>3. CASE n >= next[r]
        BY <3>1, <3>2, <4>1, <4>3
      <4>q. QED
        BY <3>1, <4>1, <4>2, <4>3
    <3>q. QED
      BY <2>2, <3>2 DEF IssuedInv
  <2>q. QED
    BY <2>1, <2>2
<1>3. CASE Restart
  <2>1. next'[Viewed] = Cardinality(Rows(Viewed)) + 1 /\ issued'[Viewed] = Renumbered(Viewed)
    BY <1>0, <1>3 DEF Restart
  <2>2. Cardinality(Rows(Viewed)) \in Nat
    BY FramesFinite, FS_Subset, FS_CardinalityType DEF Rows
  <2>3. ASSUME NEW n \in Numbers, n < next'[Viewed] PROVE issued'[Viewed][n] # 0
    <3>1. n <= Cardinality(Rows(Viewed)) /\ 0 \notin Frames
      BY <2>1, <2>2, <2>3, FramesFinite
    <3>q. QED
      BY <1>0, <2>1, <3>1, PlacesAreTaken
  <2>q. QED
    BY <2>3 DEF IssuedInv
<1>4. CASE UNCHANGED vars
  BY <1>1, <1>4 DEF vars, memory
<1>5. CASE (\E r \in Runs : Publish(r) \/ Enqueue(r)) \/ Writer \/ AppendFails \/ Closing
  BY <1>1, <1>5
     DEF Publish, Enqueue, Writer, TakeFrames, BatchDue, TakeMarker, AppendFrames, WriteDone,
         Drain, AppendFails, Closing, CloseFlush, FlushTimeout, ClosePill, CloseJoin
<1>6. CASE ProcessEnds
  BY <1>1, <1>6 DEF ProcessEnds
<1>q. QED
  BY <1>2, <1>3, <1>4, <1>5, <1>6 DEF Next, Handlers

-----------------------------------------------------------------------------
(* What is read of the log. *)

\* The numbers that were given out.
Given == {n \in Numbers : n < next[Viewed]}

\* The frames the ring numbered: one for each number that was given out.
LEMMA IssuedFrames ==
    ASSUME TypeOK, IssuedInv, NEW ns \in SUBSET Given
    PROVE  /\ Issued(ns) \in SUBSET Numbered /\ Distinct(Issued(ns))
           /\ \A f \in Issued(ns) : f.number \in ns
           /\ \A n \in ns : \E f \in Issued(ns) : f.number = n /\ f.frame = issued[Viewed][n]
<1>1. \A n \in ns : issued[Viewed][n] \in Frames
  BY StreamBounds DEF TypeOK, IssuedInv, Given
<1>2. ns \subseteq Numbers
  BY DEF Given
<1>3. Issued(ns) \in SUBSET Numbered
  BY <1>1, <1>2 DEF Issued, Numbered
<1>4. \A f \in Issued(ns) : f.number \in ns /\ f = [number |-> f.number, frame |-> issued[Viewed][f.number]]
  BY DEF Issued
<1>5. ASSUME NEW n \in ns PROVE \E f \in Issued(ns) : f.number = n /\ f.frame = issued[Viewed][n]
  <2>1. [number |-> n, frame |-> issued[Viewed][n]] \in Issued(ns)
    BY <1>5 DEF Issued
  <2>q. QED
    BY <2>1
<1>6. Distinct(Issued(ns))
  BY <1>4 DEF Distinct
<1>q. QED
  BY <1>3, <1>4, <1>5, <1>6

\* The frames of rows: one for each number that has a row.
LEMMA StoredFrames ==
    ASSUME TypeOK, NEW ns \in SUBSET Rows(Viewed)
    PROVE  Stored(ns) \in SUBSET Numbered /\ Distinct(Stored(ns))
           /\ \A f \in Stored(ns) : f.number \in ns
<1>1. \A n \in ns : row[Viewed][n] \in Frames
  BY StreamBounds DEF TypeOK, Rows
<1>2. ns \subseteq Numbers
  BY DEF Rows
<1>q. QED
  BY <1>1, <1>2 DEF Stored, Numbered, Distinct

\* Frames after a cursor, each number once.
After(fs, a) == fs \in SUBSET Numbered /\ Distinct(fs) /\ \A f \in fs : f.number > a

\* A page of rows, and one of the ring, lies after its cursor.
LEMMA RowPageAfter ==
    ASSUME TypeOK, NEW a
    PROVE  After(RowPage(a), a)
<1> DEFINE fs == Stored({n \in Rows(Viewed) : n > a})
<1>1. fs \in SUBSET Numbered /\ Distinct(fs) /\ \A f \in fs : f.number > a
  BY StoredFrames
<1>2. RowPage(a) = Page(fs)
  BY DEF RowPage
<1> HIDE DEF fs
<1>q. QED
  BY <1>1, <1>2, PageOrAll DEF After

\* The ring gives what was numbered.
LEMMA RingPageAfter ==
    ASSUME TypeOK, IssuedInv, NEW a
    PROVE  After(RingPage(a), a) /\ \A f \in RingPage(a) : f.number \in Given
<1> DEFINE ns == {n \in Ring(Viewed) : n > a}
<1> DEFINE fs == Issued(ns)
<1>0. ns \in SUBSET Given
  BY DEF Ring, Given
<1>1. fs \in SUBSET Numbered /\ Distinct(fs) /\ \A f \in fs : f.number > a /\ f.number \in Given
  BY <1>0, IssuedFrames
<1>2. RingPage(a) = Page(fs)
  BY DEF RingPage
<1> HIDE DEF fs
<1>q. QED
  BY <1>1, <1>2, PageOrAll DEF After

\* What a replay makes of the two lies after the cursor, too.
LEMMA ReplayAfter ==
    ASSUME TypeOK, IssuedInv, NEW a, NEW rows, After(rows, a)
    PROVE  After(Replay(rows, a), a) /\ Cardinality(Replay(rows, a)) \in Nat
<1> DEFINE ring == RingPage(a)
<1> DEFINE fs == {f \in rows : \A g \in ring : g.number # f.number} \union ring
<1>1. After(ring, a)
  BY RingPageAfter
<1>2. Replay(rows, a) = Page(fs)
  BY DEF Replay
<1> HIDE DEF ring
<1>3. fs \in SUBSET Numbered /\ Distinct(fs) /\ \A f \in fs : f.number > a
  BY <1>1 DEF After, Distinct
<1> HIDE DEF fs
<1>q. QED
  BY <1>2, <1>3, PageOrAll DEF After

-----------------------------------------------------------------------------
(* The inductive invariant of the stream: what the server and the browser  *)
(* hold has its type, and what the browser fetches lies after what it has  *)
(* shown.                                                                  *)

\* The server's side: only a replay under way holds rows, which lie after what was sent.
ServerInv ==
    /\ ~up => handler = "off"
    /\ handler # "read" => read = {}
    /\ Distinct(read) /\ \A f \in read : f.number > sent

\* The browser's side: what it shows lies up to its cursor, what it fetches after it.
BrowserInv ==
    /\ \A n \in Numbers : shown[n] # 0 => n <= last
    /\ ingest # NoFrame => ingest.number > last + 1
    /\ ingest = NoFrame => fetched = {} /\ ~asking
    /\ asking => up
    /\ Distinct(fetched) /\ \A f \in fetched : f.number > last
    /\ Distinct(got) /\ \A f \in got : f.number > Cursor
    /\ ~asking => got = {}

\* The invariant for a ring that may lose frames, and a process that may end.
StreamInv == StreamTypeOK /\ ServerInv /\ BrowserInv /\ SkipsAreCounted

\* What the browser has not shown up to a number.
Unshown(l, s) == {n \in 1..l : s[n] = 0}

\* They can be counted.
LEMMA UnshownFinite ==
    ASSUME NEW l \in Nat, NEW s
    PROVE  IsFiniteSet(Unshown(l, s)) /\ Cardinality(Unshown(l, s)) \in Nat
<1>1. IsFiniteSet(1..l)
  BY FS_Interval
<1>2. Unshown(l, s) \in SUBSET (1..l)
  BY DEF Unshown
<1>q. QED
  BY <1>1, <1>2, FS_Subset, FS_CardinalityType

\* The browser and its count stay when it takes no step.
LEMMA BrowserStays ==
    ASSUME StreamInv, UNCHANGED client, up' = up
    PROVE  BrowserInv' /\ SkipsAreCounted'
  BY DEF StreamInv, BrowserInv, SkipsAreCounted, client, Cursor, Distinct

\* What a queue gives and keeps has the type of the queue.
LEMMA TailTyped ==
    ASSUME NEW S, NEW q \in Seq(S), q # <<>>
    PROVE  Head(q) \in S /\ Tail(q) \in Seq(S) /\ Len(Tail(q)) = Len(q) - 1 /\ Len(q) \in Nat
  BY HeadTailProperties

\* What is left of a connection that drops.
LEMMA HangupTyped ==
    ASSUME NEW S, received \in Seq(S), Hangup
    PROVE  /\ ServerInv'
           /\ handler' = "off" /\ sent' = 0 /\ read' = {} /\ calls' = <<>> /\ inbox' = <<>>
           /\ received' \in Seq(S)
<1>1. PICK n \in 0..Len(received) : received' = SubSeq(received, 1, n)
  BY DEF Hangup
<1>2. Len(received) \in Nat
  OBVIOUS
<1>3. n \in Nat /\ \A i \in 1..n : received[i] \in S
  BY <1>2
<1>4. SubSeq(received, 1, n) \in Seq(S)
  BY <1>3, SubSeqProperties
<1>q. QED
  BY <1>1, <1>4 DEF Hangup, ServerInv, Distinct

-----------------------------------------------------------------------------
(* The server. *)

\* Connect keeps StreamInv.
LEMMA ConnectStep ==
    ASSUME StreamInv, Connect
    PROVE  StreamInv'
<1>1. BrowserInv' /\ SkipsAreCounted'
  BY BrowserStays DEF Connect, vars
<1>2. ServerInv'
  BY DEF StreamInv, Connect, ServerInv, vars, Distinct
<1>3. StreamTypeOK'
  BY DEF StreamInv, StreamTypeOK, Connect, client
<1>q. QED
  BY <1>1, <1>2, <1>3 DEF StreamInv

\* ReplayRows keeps StreamInv.
LEMMA ReplayRowsStep ==
    ASSUME TypeOK, StreamInv, ReplayRows
    PROVE  StreamInv'
<1>1. BrowserInv' /\ SkipsAreCounted'
  BY BrowserStays DEF ReplayRows, vars
<1>2. After(read', sent)
  BY RowPageAfter DEF ReplayRows
<1>3. ServerInv'
  BY <1>2 DEF StreamInv, ReplayRows, ServerInv, vars, Distinct, After
<1>4. StreamTypeOK'
  BY <1>2 DEF StreamInv, StreamTypeOK, ReplayRows, client, After
<1>q. QED
  BY <1>1, <1>3, <1>4 DEF StreamInv

\* The greatest number of a set of frames and a number before them.
LEMMA MaxOfFrames ==
    ASSUME NEW n \in 0..MaxFrames, NEW fs \in SUBSET Numbered
    PROVE  LET m == Max({n} \union {f.number : f \in fs}) IN
           /\ m \in 0..MaxFrames /\ n <= m /\ \A f \in fs : f.number <= m
           /\ m = n \/ \E f \in fs : m = f.number
<1> DEFINE S == {n} \union {f.number : f \in fs}
<1>1. \A f \in fs : f.number \in 1..MaxFrames
  BY FramesFinite DEF Numbered
<1>2. S \in SUBSET (0..MaxFrames) /\ S # {} /\ MaxFrames \in Nat
  BY <1>1, FramesFinite
<1>3. IsFiniteSet(S) /\ S \in SUBSET Nat
  <2> DEFINE T == 0..MaxFrames
  <2>1. IsFiniteSet(T)
    BY <1>2, FS_Interval
  <2>2. T \subseteq Nat /\ S \in SUBSET T
    BY <1>2
  <2> HIDE DEF S, T
  <2>q. QED
    BY <2>1, <2>2, FS_Subset
<1>4. Max(S) \in S /\ \A k \in S : k <= Max(S)
  <2> HIDE DEF S
  <2>q. QED
    BY <1>2, <1>3, MaxIsGreatest
<1>5. \A f \in fs : f.number \in S
  OBVIOUS
<1>6. Max(S) = n \/ \E f \in fs : Max(S) = f.number
  BY <1>4
<1>7. n \in S
  OBVIOUS
<1>8. Max(S) \in 0..MaxFrames /\ n <= Max(S) /\ \A f \in fs : f.number <= Max(S)
  <2> HIDE DEF S
  <2>q. QED
    BY <1>2, <1>4, <1>5, <1>7
<1>q. QED
  BY <1>6, <1>8

\* ReplayRing keeps StreamInv.
LEMMA ReplayRingStep ==
    ASSUME TypeOK, IssuedInv, StreamInv, ReplayRing
    PROVE  StreamInv'
<1>1. BrowserInv' /\ SkipsAreCounted'
  BY BrowserStays DEF ReplayRing, vars
<1> DEFINE fs == Replay(read, sent)
<1>2. After(fs, sent)
  BY ReplayAfter DEF StreamInv, ServerInv, StreamTypeOK, After
<1>3. received' = received \o InOrder(fs) /\ sent' = Max({sent} \union {f.number : f \in fs})
  BY DEF ReplayRing
<1> HIDE DEF fs
<1>4. received' \in Seq(Numbered)
  BY <1>2, <1>3, InOrderIsSeq, ConcatProperties DEF After, StreamInv, StreamTypeOK
<1>5. sent' \in 0..MaxFrames
  BY <1>2, <1>3, MaxOfFrames DEF After, StreamInv, StreamTypeOK
<1>6. ServerInv'
  BY DEF StreamInv, ReplayRing, ServerInv, vars, Distinct
<1>7. StreamTypeOK'
  BY <1>4, <1>5 DEF StreamInv, StreamTypeOK, ReplayRing, client
<1>q. QED
  BY <1>1, <1>6, <1>7 DEF StreamInv

\* The newest frames stay in the subscription.
LEMMA Delivered ==
    ASSUME NEW S, inbox \in Seq(S), calls \in Seq(Seq(S)), Deliver
    PROVE  /\ inbox' \in Seq(S) /\ Len(inbox') <= SubCapacity
           /\ calls # <<>> /\ calls' = Tail(calls)
           /\ Head(calls) \in Seq(S) /\ calls' \in Seq(Seq(S))
           /\ Head(calls) # <<>> =>
                 inbox' # <<>> /\ inbox'[Len(inbox')] = Head(calls)[Len(Head(calls))]
<1> DEFINE s == inbox \o Head(calls)
<1> DEFINE over == Len(s) - SubCapacity
<1>1. /\ calls # <<>> /\ calls' = Tail(calls)
      /\ inbox' = IF over > 0 THEN SubSeq(s, over + 1, Len(s)) ELSE s
  BY DEF Deliver
<1>2. /\ inbox \in Seq(S) /\ calls \in Seq(Seq(S))
      /\ SubCapacity \in Nat /\ SubCapacity > 0
  BY StreamBounds
<1>3. Head(calls) \in Seq(S) /\ calls' \in Seq(Seq(S))
  BY <1>1, <1>2, TailTyped
<1>4. /\ s \in Seq(S) /\ Len(s) \in Nat /\ Len(s) = Len(inbox) + Len(Head(calls))
      /\ Len(inbox) \in Nat /\ Len(Head(calls)) \in Nat
      /\ Head(calls) # <<>> => Len(Head(calls)) > 0 /\ s[Len(s)] = Head(calls)[Len(Head(calls))]
  <2>1. /\ s \in Seq(S) /\ Len(s) = Len(inbox) + Len(Head(calls))
        /\ \A i \in 1 .. Len(inbox) + Len(Head(calls)) : s[i] =
              IF i <= Len(inbox) THEN inbox[i] ELSE Head(calls)[i - Len(inbox)]
    BY <1>2, <1>3, ConcatProperties
  <2>2. Len(inbox) \in Nat /\ Len(Head(calls)) \in Nat
    BY <1>2, <1>3
  <2>3. Head(calls) # <<>> => Len(Head(calls)) > 0
    BY <1>3
  <2> HIDE DEF s
  <2>4. ASSUME Len(Head(calls)) > 0 PROVE s[Len(s)] = Head(calls)[Len(Head(calls))]
    <3>1. Len(s) \in 1..Len(inbox) + Len(Head(calls)) /\ ~(Len(s) <= Len(inbox))
          /\ Len(s) - Len(inbox) = Len(Head(calls))
      BY <2>1, <2>2, <2>4
    <3>q. QED
      BY <2>1, <3>1
  <2>q. QED
    BY <2>1, <2>2, <2>3, <2>4
<1> HIDE DEF s
<1>5. CASE over > 0
  <2>1. over \in Nat /\ over + 1 <= Len(s) /\ Len(s) - (over + 1) + 1 = SubCapacity
    <3>1. Len(s) \in Nat /\ SubCapacity \in Nat /\ SubCapacity > 0
      BY <1>2, <1>4
    <3> DEFINE l == Len(s)
    <3> HIDE DEF l
    <3>2. l \in Nat
      BY <3>1 DEF l
    <3>3. l - SubCapacity > 0
      BY <1>5 DEF l
    <3>4. l - SubCapacity \in Nat /\ l - SubCapacity + 1 <= l
          /\ l - (l - SubCapacity + 1) + 1 = SubCapacity
      BY <3>1, <3>2, <3>3
    <3>q. QED
      BY <3>4 DEF l
  <2>2. \A i \in (over + 1)..Len(s) : s[i] \in S
    BY <1>4, <2>1
  <2>3. /\ inbox' \in Seq(S) /\ Len(inbox') = SubCapacity
        /\ \A i \in 1..SubCapacity : inbox'[i] = s[(over + 1) + i - 1]
    <3> HIDE DEF over
    <3>1. inbox' = SubSeq(s, over + 1, Len(s))
      BY <1>1, <1>5
    <3>2. over + 1 \in Int /\ Len(s) \in Int
      BY <1>4, <2>1
    <3>q. QED
      BY <2>1, <2>2, <3>1, <3>2, SubSeqProperties
  <2>4. inbox'[SubCapacity] = s[Len(s)]
    <3>1. (over + 1) + SubCapacity - 1 = Len(s) /\ SubCapacity \in 1..SubCapacity
      BY <1>2, <1>4, <2>1
    <3>q. QED
      BY <2>3, <3>1
  <2>5. inbox' # <<>>
    BY <1>2, <2>3
  <2>6. Head(calls) # <<>> => inbox'[Len(inbox')] = Head(calls)[Len(Head(calls))]
    BY <1>4, <2>3, <2>4
  <2>7. Len(inbox') <= SubCapacity
    BY <1>2, <2>3
  <2>q. QED
    BY <1>1, <1>3, <2>3, <2>5, <2>6, <2>7
<1>6. CASE ~(over > 0)
  <2>1. inbox' = s /\ Len(s) <= SubCapacity
    BY <1>1, <1>2, <1>4, <1>6
  <2>2. Head(calls) # <<>> => s # <<>>
    BY <1>4
  <2>q. QED
    BY <1>1, <1>3, <1>4, <2>1, <2>2
<1>q. QED
  BY <1>5, <1>6

\* Deliver keeps StreamInv.
LEMMA DeliverStep ==
    ASSUME StreamInv, Deliver
    PROVE  StreamInv'
<1>1. BrowserInv' /\ SkipsAreCounted'
  BY BrowserStays DEF Deliver, vars
<1>2. UNCHANGED <<vars, handler, sent, read, received, client>>
  BY DEF Deliver
<1>3. ServerInv'
  BY <1>2 DEF StreamInv, ServerInv, vars, Distinct
<1>4. StreamTypeOK'
  <2>1. inbox \in Seq(Numbered) /\ calls \in Seq(Seq(Numbered))
    BY DEF StreamInv, StreamTypeOK
  <2>2. inbox' \in Seq(Numbered) /\ Len(inbox') <= SubCapacity /\ calls' \in Seq(Seq(Numbered))
    BY <2>1, Delivered
  <2>q. QED
    BY <1>2, <2>2 DEF StreamInv, StreamTypeOK, client
<1>q. QED
  BY <1>1, <1>3, <1>4 DEF StreamInv

\* Forward keeps StreamInv.
LEMMA ForwardStep ==
    ASSUME StreamInv, Forward
    PROVE  StreamInv'
<1>1. BrowserInv' /\ SkipsAreCounted'
  BY BrowserStays DEF Forward, vars
<1>2. ServerInv'
  BY DEF StreamInv, Forward, ServerInv, vars, Distinct
<1>3. Head(inbox) \in Numbered /\ inbox' \in Seq(Numbered) /\ Len(inbox') <= SubCapacity
  <2>1. inbox \in Seq(Numbered) /\ inbox # <<>> /\ inbox' = Tail(inbox) /\ Len(inbox) <= SubCapacity
        /\ SubCapacity \in Nat
    BY StreamBounds DEF StreamInv, StreamTypeOK, Forward
  <2>2. Len(Tail(inbox)) = Len(inbox) - 1 /\ Len(inbox) \in Nat
        /\ Head(inbox) \in Numbered /\ Tail(inbox) \in Seq(Numbered)
    BY <2>1, TailTyped
  <2>q. QED
    BY <2>1, <2>2
<1>4. received' \in Seq(Numbered) /\ sent' \in 0..MaxFrames
  <2>1. received \in Seq(Numbered) /\ sent \in 0..MaxFrames
    BY DEF StreamInv, StreamTypeOK
  <2>2. Head(inbox).number \in 0..MaxFrames
    BY <1>3, FramesFinite DEF Numbered
  <2>3. Append(received, Head(inbox)) \in Seq(Numbered)
    BY <1>3, <2>1, AppendProperties
  <2>q. QED
    BY <2>1, <2>2, <2>3 DEF Forward
<1>5. StreamTypeOK'
  BY <1>3, <1>4 DEF StreamInv, StreamTypeOK, Forward, client
<1>q. QED
  BY <1>1, <1>2, <1>5 DEF StreamInv

\* Disconnect keeps StreamInv.
LEMMA DisconnectStep ==
    ASSUME StreamInv, Disconnect
    PROVE  StreamInv'
<1>1. BrowserInv' /\ SkipsAreCounted'
  BY BrowserStays DEF Disconnect, vars
<1>2. /\ ServerInv'
      /\ handler' = "off" /\ sent' = 0 /\ read' = {} /\ calls' = <<>> /\ inbox' = <<>>
      /\ received' \in Seq(Numbered)
  BY HangupTyped DEF Disconnect, StreamInv, StreamTypeOK
<1>3. StreamTypeOK'
  BY <1>2, StreamBounds, FramesFinite DEF StreamInv, StreamTypeOK, Disconnect, client
<1>q. QED
  BY <1>1, <1>2, <1>3 DEF StreamInv


-----------------------------------------------------------------------------
(* The browser. *)

\* The cursor of a fetch lies at or after that of the screen.
LEMMA CursorIs ==
    ASSUME StreamInv
    PROVE  /\ Cursor \in 0..MaxFrames /\ last <= Cursor /\ \A f \in fetched : f.number <= Cursor
           /\ Cursor = last \/ \E f \in fetched : Cursor = f.number
  BY MaxOfFrames DEF Cursor, StreamInv, StreamTypeOK

\* What showing frames does to the screen.
LEMMA ShowStep ==
    ASSUME StreamInv, NEW fs \in SUBSET Numbered, Distinct(fs), Show(fs)
    PROVE  /\ shown' \in [Numbers -> Frames \union {0}]
           /\ last' \in 0..MaxFrames /\ last <= last'
           /\ last' = last \/ \E f \in fs : last' = f.number
           /\ \A n \in Numbers : shown[n] # 0 => shown'[n] = shown[n]
           /\ \A n \in Numbers : shown'[n] # 0 => n <= last'
           /\ \A n \in Numbers : (shown'[n] # 0 /\ shown[n] = 0) =>
                 \E f \in fs : f.number = n /\ shown'[n] = f.frame
           /\ \A f \in fs : shown'[f.number] # 0 /\ f.number <= last'
<1> DEFINE new == {f \in fs : shown[f.number] = 0}
<1>1. /\ shown' = [n \in Numbers |-> IF \E f \in new : f.number = n
                       THEN (CHOOSE f \in new : f.number = n).frame ELSE shown[n]]
      /\ last' = Max({last} \union {f.number : f \in new})
  BY DEF Show
<1>2. /\ new \in SUBSET Numbered /\ new \subseteq fs
      /\ \A f \in fs : f \in new \/ shown[f.number] # 0
      /\ \A f \in new : shown[f.number] = 0
  OBVIOUS
<1>3. /\ shown \in [Numbers -> Frames \union {0}] /\ last \in 0..MaxFrames
      /\ \A n \in Numbers : shown[n] # 0 => n <= last
  BY DEF StreamInv, StreamTypeOK, BrowserInv
<1> HIDE DEF new
<1>4. /\ last' \in 0..MaxFrames /\ last <= last' /\ \A f \in new : f.number <= last'
      /\ last' = last \/ \E f \in new : last' = f.number
  BY <1>1, <1>2, <1>3, MaxOfFrames
<1>5. \A f \in Numbered : f.number \in Numbers /\ f.frame \in Frames
  BY DEF Numbered
<1>6. ASSUME NEW n \in Numbers
      PROVE  /\ shown'[n] \in Frames \union {0}
             /\ shown[n] # 0 => shown'[n] = shown[n]
             /\ (\E f \in new : f.number = n) =>
                   shown'[n] # 0 /\ \E f \in new : f.number = n /\ shown'[n] = f.frame
             /\ ~(\E f \in new : f.number = n) => shown'[n] = shown[n]
  <2>1. CASE \E f \in new : f.number = n
    <3>1. PICK g \in new : g = CHOOSE f \in new : f.number = n
      BY <2>1
    <3>2. g.number = n /\ shown'[n] = g.frame
      BY <1>1, <2>1, <3>1, <1>6
    <3>3. g.frame \in Frames /\ 0 \notin Frames /\ shown[n] = 0
      BY <1>2, <1>5, <3>2, FramesFinite
    <3>q. QED
      BY <2>1, <3>2, <3>3
  <2>2. CASE ~ \E f \in new : f.number = n
    BY <1>1, <1>3, <2>2, <1>6
  <2>q. QED
    BY <2>1, <2>2
<1>7. shown' \in [Numbers -> Frames \union {0}]
  <2>1. \A n \in Numbers : shown'[n] \in Frames \union {0}
    BY <1>6
  <2>2. DOMAIN shown' = Numbers /\ shown' = [n \in Numbers |-> shown'[n]]
    BY <1>1
  <2>q. QED
    BY <2>1, <2>2
<1>8. ASSUME NEW f \in fs PROVE shown'[f.number] # 0 /\ f.number <= last'
  <2>1. f.number \in Numbers /\ f.number \in Nat
    BY <1>5, FramesFinite
  <2>2. CASE f \in new
    BY <1>4, <1>6, <2>1, <2>2
  <2>3. CASE shown[f.number] # 0
    BY <1>3, <1>4, <1>6, <2>1, <2>3
  <2>q. QED
    BY <1>2, <1>8, <2>2, <2>3
<1>9. ASSUME NEW n \in Numbers, shown'[n] # 0
      PROVE  /\ n <= last'
             /\ shown[n] = 0 => \E f \in fs : f.number = n /\ shown'[n] = f.frame
  <2>1. CASE \E f \in new : f.number = n
    BY <1>2, <1>4, <1>6, <2>1
  <2>2. CASE ~ \E f \in new : f.number = n
    <3>1. shown[n] # 0 /\ n <= last /\ n \in Nat
      BY <1>3, <1>6, <1>9, <2>2, FramesFinite
    <3>q. QED
      BY <1>3, <1>4, <3>1
  <2>q. QED
    BY <2>1, <2>2
<1>q. QED
  BY <1>2, <1>4, <1>6, <1>7, <1>8, <1>9

\* A browser that fetches nothing.
Idle == ingest = NoFrame /\ fetched = {} /\ got = {} /\ asking = FALSE

\* Numbers are positive, so no frame is NoFrame.
LEMMA NumberedIs ==
    /\ \A f \in Numbered : /\ f.number \in Nat /\ f.number > 0 /\ f # NoFrame
                           /\ f.number \in Numbers
    /\ NoFrame \notin Numbered /\ NoFrame.number = 0 /\ 0..MaxFrames \subseteq Nat
  BY FramesFinite DEF Numbered, NoFrame

\* Receive keeps StreamInv: a frame that skips none brings the cursor up by one.
LEMMA ReceiveStep ==
    ASSUME StreamInv, Receive
    PROVE  StreamInv'
<1> DEFINE f == Head(received)
<1>1. /\ ingest = NoFrame /\ received # <<>> /\ received' = Tail(received)
      /\ UNCHANGED <<vars, server, dropped, got, asking>>
  BY DEF Receive
<1>2. f \in Numbered /\ received' \in Seq(Numbered)
  BY <1>1, TailTyped DEF StreamInv, StreamTypeOK
<1>3. Idle
  BY <1>1 DEF StreamInv, BrowserInv, StreamTypeOK, Idle
<1>4. UNCHANGED <<up, handler, sent, read, calls, inbox>>
  BY <1>1 DEF vars, server
<1>5. ServerInv'
  BY <1>4 DEF StreamInv, ServerInv, Distinct
<1>6. f.number \in Nat /\ f.number \in Numbers /\ f # NoFrame /\ last \in Nat /\ last \in 0..MaxFrames
  BY <1>2, NumberedIs DEF StreamInv, StreamTypeOK
<1>7. CASE shown[f.number] # 0 \/ f.number <= last + 1
  <2>1. Show({f}) /\ UNCHANGED <<ingest, fetched>>
    BY <1>7 DEF Receive
  <2>2. {f} \in SUBSET Numbered /\ Distinct({f})
    BY <1>2 DEF Distinct
  <2>3. /\ shown' \in [Numbers -> Frames \union {0}]
        /\ last' \in 0..MaxFrames /\ last <= last'
        /\ last' = last \/ last' = f.number
        /\ \A n \in Numbers : shown[n] # 0 => shown'[n] = shown[n]
        /\ \A n \in Numbers : shown'[n] # 0 => n <= last'
        /\ shown'[f.number] # 0
    <3> HIDE DEF f
    <3>q. QED
      BY <2>1, <2>2, ShowStep
  <2> HIDE DEF f
  <2>4. Idle'
    BY <1>1, <1>3, <2>1 DEF Idle
  <2>5. BrowserInv'
    BY <2>3, <2>4 DEF BrowserInv, Idle, Distinct
  <2>6. Unshown(last', shown') \in SUBSET Unshown(last, shown)
    <3>1. ASSUME NEW n \in 1..last', shown'[n] = 0 PROVE n <= last /\ shown[n] = 0
      <4>1. n \in Numbers /\ n \in Nat
        BY <2>3, <3>1, FramesFinite
      <4>2. shown[n] = 0
        BY <2>3, <3>1, <4>1
      <4>3. n # f.number
        BY <2>3, <3>1
      <4>4. shown[f.number] # 0 => f.number <= last
        BY <1>6 DEF StreamInv, BrowserInv
      <4>5. n <= last
        BY <1>6, <1>7, <2>3, <3>1, <4>1, <4>3, <4>4
      <4>q. QED
        BY <4>2, <4>5
    <3>q. QED
      BY <3>1, <1>6, <2>3 DEF Unshown
  <2>7. SkipsAreCounted'
    <3>1. Cardinality(Unshown(last', shown')) <= Cardinality(Unshown(last, shown))
      BY <1>6, <2>6, UnshownFinite, FS_Subset
    <3>2. Cardinality(Unshown(last', shown')) \in Nat /\ Cardinality(Unshown(last, shown)) \in Nat
      BY <1>6, <2>3, NumberedIs, UnshownFinite
    <3>3. dropped \in Nat /\ dropped >= Cardinality(Unshown(last, shown)) /\ dropped' = dropped
      BY <1>1 DEF StreamInv, StreamTypeOK, SkipsAreCounted, Unshown
    <3>4. dropped' >= Cardinality(Unshown(last', shown'))
      BY <3>1, <3>2, <3>3
    <3>q. QED
      BY <3>4 DEF SkipsAreCounted, Unshown
  <2>8. StreamTypeOK'
    BY <1>1, <1>2, <1>4, <2>1, <2>3 DEF StreamInv, StreamTypeOK
  <2>q. QED
    BY <1>5, <2>5, <2>7, <2>8 DEF StreamInv
<1>8. CASE ~(shown[f.number] # 0 \/ f.number <= last + 1)
  <2>1. ingest' = f /\ fetched' = {} /\ UNCHANGED <<shown, last>>
    BY <1>8 DEF Receive
  <2> HIDE DEF f
  <2>2. f.number > last + 1
    BY <1>6, <1>8
  <2>3. BrowserInv'
    BY <1>1, <1>3, <1>6, <2>1, <2>2 DEF BrowserInv, StreamInv, Idle, Distinct
  <2>4. SkipsAreCounted'
    BY <1>1, <2>1 DEF StreamInv, SkipsAreCounted
  <2>5. StreamTypeOK'
    BY <1>1, <1>2, <1>4, <2>1 DEF StreamInv, StreamTypeOK
  <2>q. QED
    BY <1>5, <2>3, <2>4, <2>5 DEF StreamInv
<1>q. QED
  BY <1>7, <1>8

\* FetchRows keeps StreamInv.
LEMMA FetchRowsStep ==
    ASSUME TypeOK, StreamInv, FetchRows
    PROVE  StreamInv'
<1>1. After(got', Cursor)
  BY RowPageAfter DEF FetchRows
<1>2. /\ up /\ ingest # NoFrame /\ asking' = TRUE
      /\ UNCHANGED <<vars, server, received, last, shown, dropped, ingest, fetched>>
  BY DEF FetchRows
<1>3. UNCHANGED <<up, handler, sent, read, calls, inbox>> /\ Cursor' = Cursor
  BY <1>2 DEF vars, server, Cursor
<1>4. ServerInv'
  BY <1>3 DEF StreamInv, ServerInv, Distinct
<1>5. BrowserInv'
  BY <1>1, <1>2, <1>3 DEF StreamInv, BrowserInv, Distinct, After
<1>6. SkipsAreCounted'
  BY <1>2 DEF StreamInv, SkipsAreCounted
<1>7. StreamTypeOK'
  BY <1>1, <1>2, <1>3 DEF StreamInv, StreamTypeOK, After
<1>q. QED
  BY <1>4, <1>5, <1>6, <1>7 DEF StreamInv

\* FetchFails keeps StreamInv.
LEMMA FetchFailsStep ==
    ASSUME StreamInv, FetchFails
    PROVE  StreamInv'
<1>1. Idle' /\ UNCHANGED <<vars, server, received, last, shown, dropped>>
  BY DEF FetchFails, Idle
<1>2. UNCHANGED <<up, handler, sent, read, calls, inbox>>
  BY <1>1 DEF vars, server
<1>3. ServerInv'
  BY <1>2 DEF StreamInv, ServerInv, Distinct
<1>4. BrowserInv'
  BY <1>1 DEF StreamInv, BrowserInv, Distinct, Idle
<1>5. SkipsAreCounted'
  BY <1>1 DEF StreamInv, SkipsAreCounted
<1>6. StreamTypeOK'
  BY <1>1, <1>2 DEF StreamInv, StreamTypeOK, Idle
<1>q. QED
  BY <1>3, <1>4, <1>5, <1>6 DEF StreamInv

\* The numbers of frames are as many as the frames.
LEMMA NumbersOfFrames ==
    ASSUME NEW fs \in SUBSET Numbered, Distinct(fs)
    PROVE  LET M == {f.number : f \in fs} IN
           IsFiniteSet(M) /\ Cardinality(M) = Cardinality(fs) /\ Cardinality(M) \in Nat
<1> DEFINE M == {f.number : f \in fs}
<1> DEFINE num == [f \in fs |-> f.number]
<1>1. IsFiniteSet(fs)
  BY FramesFinite, FS_Subset
<1>2. num \in Surjection(fs, M)
  BY DEF Surjection
<1>3. num \in Injection(fs, M)
  BY DEF Distinct, Injection, IsInjective
<1> HIDE DEF num, M
<1>4. IsFiniteSet(M) /\ Cardinality(M) = Cardinality(fs)
  BY <1>1, <1>2, <1>3, FS_Surjection
<1>5. Cardinality(M) \in Nat
  BY <1>4, FS_CardinalityType
<1>q. QED
  BY <1>4, <1>5 DEF M

\* What a fetch did not bring is what the count grows by.
LEMMA SkipsGrow ==
    ASSUME NEW l \in Nat, NEW m \in Nat, l < m, NEW M \in SUBSET ((l + 1)..(m - 1)),
           NEW s, NEW t, NEW d \in Nat, d >= Cardinality(Unshown(l, s)),
           \A n \in 1..m : t[n] = 0 => n # m /\ n \notin M /\ (n <= l => s[n] = 0)
    PROVE  /\ m - l - 1 - Cardinality(M) \in Nat
           /\ d + (m - l - 1 - Cardinality(M)) >= Cardinality(Unshown(m, t))
<1> DEFINE I == (l + 1)..(m - 1)
<1> DEFINE U == Unshown(l, s)
<1> DEFINE V == Unshown(m, t)
<1>1. IsFiniteSet(I) /\ Cardinality(I) = m - l - 1
  BY FS_Interval
<1>2. IsFiniteSet(U) /\ Cardinality(U) \in Nat /\ IsFiniteSet(V) /\ Cardinality(V) \in Nat
  BY UnshownFinite
<1>3. V \subseteq U \union (I \ M)
  <2>1. SUFFICES ASSUME NEW n \in V PROVE n \in U \union (I \ M)
    OBVIOUS
  <2>2. n \in 1..m /\ t[n] = 0 /\ n \in Int
    BY <2>1 DEF Unshown
  <2>3. n # m /\ n \notin M /\ (n <= l => s[n] = 0)
    BY <2>2
  <2>q. QED
    BY <2>2, <2>3 DEF Unshown
<1>4. M \subseteq I /\ I \cap M = M
  OBVIOUS
<1> HIDE DEF I, U, V
<1>5. IsFiniteSet(I \ M) /\ Cardinality(I \ M) = Cardinality(I) - Cardinality(M)
      /\ IsFiniteSet(M)
  <2>1. IsFiniteSet(I \ M) /\ Cardinality(I \ M) = Cardinality(I) - Cardinality(M)
    BY <1>1, <1>4, FS_Difference
  <2>2. IsFiniteSet(M)
    BY <1>1, <1>4, FS_Subset
  <2>q. QED
    BY <2>1, <2>2
<1>6. Cardinality(I \ M) \in Nat /\ Cardinality(M) \in Nat
  BY <1>5, FS_CardinalityType
<1>7. /\ IsFiniteSet(U \union (I \ M))
      /\ Cardinality(U \union (I \ M)) =
            Cardinality(U) + Cardinality(I \ M) - Cardinality(U \cap (I \ M))
  BY <1>2, <1>5, FS_Union
<1>8. Cardinality(U \cap (I \ M)) \in Nat /\ Cardinality(U \union (I \ M)) \in Nat
  <2>1. IsFiniteSet(U \cap (I \ M))
    BY <1>2, FS_Intersection
  <2>q. QED
    BY <2>1, <1>7, FS_CardinalityType
<1>9. Cardinality(V) <= Cardinality(U \union (I \ M))
  BY <1>3, <1>7, FS_Subset
<1>10. d >= Cardinality(U)
  BY DEF U
<1> DEFINE u == Cardinality(U)
<1> DEFINE c == Cardinality(I \ M)
<1> DEFINE k == Cardinality(U \cap (I \ M))
<1> DEFINE w == Cardinality(U \union (I \ M))
<1> DEFINE v == Cardinality(V)
<1>11. /\ u \in Nat /\ c \in Nat /\ k \in Nat /\ w \in Nat /\ v \in Nat /\ d >= u /\ v <= w
       /\ w = u + c - k
  BY <1>2, <1>6, <1>7, <1>8, <1>9, <1>10
<1>12. c = m - l - 1 - Cardinality(M)
  BY <1>1, <1>5
<1> HIDE DEF u, c, k, w, v
<1>13. d + c >= v
  BY <1>11
<1>q. QED
  BY <1>11, <1>12, <1>13 DEF v, V

\* FetchRing keeps StreamInv: what stays missing is added to the count.
LEMMA FetchRingStep ==
    ASSUME TypeOK, IssuedInv, StreamInv, FetchRing
    PROVE  StreamInv'
<1> DEFINE page == Replay(got, Cursor)
<1> DEFINE missing == {f \in fetched \union page : f.number < ingest.number}
<1>1. /\ up /\ asking /\ asking' = FALSE /\ got' = {}
      /\ UNCHANGED <<vars, server, received>>
  BY DEF FetchRing
<1>2. UNCHANGED <<up, handler, sent, read, calls, inbox>>
  BY <1>1 DEF vars, server
<1>3. ServerInv'
  BY <1>2 DEF StreamInv, ServerInv, Distinct
<1>4. After(got, Cursor)
  BY DEF StreamInv, StreamTypeOK, BrowserInv, After
<1>5. After(page, Cursor)
  BY <1>4, ReplayAfter
<1>6. IF Cardinality(page) = PageLimit
      THEN /\ fetched' = fetched \union page
           /\ UNCHANGED <<last, shown, dropped, ingest>>
      ELSE /\ dropped' = dropped + (ingest.number - last - 1 - Cardinality(missing))
           /\ Show(missing \union {ingest})
           /\ ingest' = NoFrame
           /\ fetched' = {}
  BY DEF FetchRing
<1>7. /\ Cursor \in Nat /\ last \in 0..MaxFrames /\ last \in Nat /\ last <= Cursor
      /\ \A f \in fetched : f.number <= Cursor
  BY CursorIs, NumberedIs DEF StreamInv, StreamTypeOK
<1>8. fetched \in SUBSET Numbered /\ Distinct(fetched) /\ \A f \in fetched : f.number > last
  BY DEF StreamInv, StreamTypeOK, BrowserInv
<1> HIDE DEF page
<1>9. /\ fetched \union page \in SUBSET Numbered /\ Distinct(fetched \union page)
      /\ \A f \in fetched \union page : f.number > last
  <2>1. page \in SUBSET Numbered /\ Distinct(page) /\ \A f \in page : f.number > Cursor
    BY <1>5 DEF After
  <2>2. \A f \in fetched \union page : f.number \in Nat
    BY <1>8, <2>1, NumberedIs
  <2>3. \A f \in fetched, g \in page : f.number # g.number
    BY <1>7, <1>8, <2>1, <2>2
  <2>4. \A f \in page : f.number > last
    BY <1>7, <2>1, <2>2
  <2>q. QED
    BY <1>8, <2>1, <2>3, <2>4 DEF Distinct
<1>10. /\ ingest \in Numbered /\ ingest # NoFrame /\ ingest.number > last + 1
       /\ ingest.number \in Nat /\ ingest.number <= MaxFrames
  <2>1. ingest # NoFrame /\ ingest \in Numbered
    BY <1>1 DEF StreamInv, BrowserInv, StreamTypeOK
  <2>2. ingest.number > last + 1
    BY <2>1 DEF StreamInv, BrowserInv
  <2>3. ingest.number \in 1..MaxFrames
    BY <2>1, FramesFinite DEF Numbered
  <2>q. QED
    BY <2>1, <2>2, <2>3
<1>11. CASE Cardinality(page) = PageLimit
  <2>1. fetched' = fetched \union page /\ UNCHANGED <<last, shown, dropped, ingest>>
    BY <1>6, <1>11
  <2>2. BrowserInv'
    BY <1>1, <1>9, <1>10, <2>1 DEF StreamInv, BrowserInv, Distinct
  <2>3. SkipsAreCounted'
    BY <2>1 DEF StreamInv, SkipsAreCounted
  <2>4. StreamTypeOK'
    BY <1>1, <1>2, <1>9, <2>1 DEF StreamInv, StreamTypeOK
  <2>q. QED
    BY <1>3, <2>2, <2>3, <2>4 DEF StreamInv
<1>12. CASE Cardinality(page) # PageLimit
  <2>1. /\ dropped' = dropped + (ingest.number - last - 1 - Cardinality(missing))
        /\ Show(missing \union {ingest})
        /\ ingest' = NoFrame
        /\ fetched' = {}
    BY <1>6, <1>12
  <2> DEFINE fs == missing \union {ingest}
  <2>2. /\ missing \in SUBSET Numbered /\ Distinct(missing)
        /\ \A f \in missing : f.number > last /\ f.number < ingest.number /\ f.number \in Nat
    BY <1>9, NumberedIs DEF Distinct
  <2> HIDE DEF missing
  <2>3. fs \in SUBSET Numbered /\ Distinct(fs)
    BY <1>10, <2>2 DEF Distinct
  <2>4. \A f \in fs : f.number <= ingest.number
    BY <1>10, <2>2
  <2>5. ingest \in fs /\ missing \subseteq fs
    OBVIOUS
  <2>6. Show(fs)
    BY <2>1
  <2> HIDE DEF fs
  <2>7. /\ shown' \in [Numbers -> Frames \union {0}]
        /\ last' \in 0..MaxFrames /\ last <= last'
        /\ last' = last \/ \E f \in fs : last' = f.number
        /\ \A n \in Numbers : shown[n] # 0 => shown'[n] = shown[n]
        /\ \A n \in Numbers : shown'[n] # 0 => n <= last'
        /\ \A f \in fs : shown'[f.number] # 0 /\ f.number <= last'
    BY <2>3, <2>6, ShowStep
  <2>8. last' = ingest.number
    <3>1. last' \in Nat /\ ingest.number <= last'
      BY <2>5, <2>7, NumberedIs
    <3>q. QED
      BY <1>7, <1>10, <2>4, <2>7, <3>1
  <2>9. Idle'
    BY <1>1, <2>1 DEF Idle
  <2>10. BrowserInv'
    BY <2>7, <2>9 DEF BrowserInv, Idle, Distinct
  <2> DEFINE M == {f.number : f \in missing}
  <2>11. Cardinality(M) = Cardinality(missing)
    BY <2>2, NumbersOfFrames
  <2>12. M \in SUBSET ((last + 1)..(ingest.number - 1))
    BY <1>7, <1>10, <2>2
  <2>13. ASSUME NEW n \in 1..ingest.number, shown'[n] = 0
         PROVE  n # ingest.number /\ n \notin M /\ (n <= last => shown[n] = 0)
    <3>1. n \in Numbers
      BY <1>10, <2>13, FramesFinite
    <3>q. QED
      BY <2>5, <2>7, <2>13, <3>1
  <2>14. dropped \in Nat /\ dropped >= Cardinality(Unshown(last, shown))
    BY DEF StreamInv, StreamTypeOK, SkipsAreCounted, Unshown
  <2> HIDE DEF M
  <2>15. /\ ingest.number - last - 1 - Cardinality(M) \in Nat
         /\ dropped + (ingest.number - last - 1 - Cardinality(M)) >=
                Cardinality(Unshown(ingest.number, shown'))
    <3>1. last < ingest.number
      BY <1>7, <1>10
    <3>q. QED
      BY <1>7, <1>10, <2>12, <2>13, <2>14, <3>1, SkipsGrow
  <2>16. dropped' \in Nat /\ dropped' >= Cardinality(Unshown(last', shown'))
    <3>1. dropped' = dropped + (ingest.number - last - 1 - Cardinality(M))
      BY <2>1, <2>11
    <3>2. dropped' \in Nat
      BY <2>14, <2>15, <3>1
    <3>3. Unshown(last', shown') = Unshown(ingest.number, shown')
      BY <2>8
    <3>q. QED
      BY <2>15, <3>1, <3>2, <3>3
  <2>17. SkipsAreCounted'
    BY <2>16 DEF SkipsAreCounted, Unshown
  <2>18. StreamTypeOK'
    BY <1>1, <1>2, <2>1, <2>7, <2>16 DEF StreamInv, StreamTypeOK
  <2>q. QED
    BY <1>3, <2>10, <2>17, <2>18 DEF StreamInv
<1>q. QED
  BY <1>11, <1>12

-----------------------------------------------------------------------------
(* The log. *)

\* A handler holds numbers that were given out.
LEMMA HandsAreGiven ==
    ASSUME LogInv, up
    PROVE  hand[Viewed] \in SUBSET Given
<1>1. hand[Viewed] \subseteq Fresh(Viewed) /\ hand[Viewed] \subseteq Numbers
      /\ next[Viewed] \in Nat /\ restored[Viewed] \in Nat
  <2>1. Viewed \in Runs /\ TypeOK /\ WayInv(Viewed)
    BY StreamBounds DEF LogInv
  <2>2. hand[Viewed] \subseteq Fresh(Viewed)
    BY <2>1 DEF WayInv, OnTheWay
  <2>3. hand[Viewed] \subseteq Numbers
    BY <2>1 DEF TypeOK
  <2>4. next[Viewed] \in Nat /\ restored[Viewed] \in Nat
    BY <2>1, FramesFinite DEF TypeOK
  <2>q. QED
    BY <2>2, <2>3, <2>4
<1>2. \A n \in hand[Viewed] : n < next[Viewed]
  BY <1>1, FramesFinite DEF Fresh
<1>q. QED
  BY <1>1, <1>2 DEF Given

\* PublishFrames keeps StreamInv.
LEMMA PublishFramesStep ==
    ASSUME LogInv, IssuedInv, StreamInv, NEW r \in Runs, PublishFrames(r)
    PROVE  StreamInv'
<1>0. up /\ TypeOK
  BY DEF PublishFrames, Publish, LogInv
<1>1. UNCHANGED <<up, handler, sent, read, inbox, received, client>>
  BY DEF PublishFrames, Publish
<1>2. BrowserInv' /\ SkipsAreCounted'
  BY <1>1, BrowserStays
<1>3. ServerInv'
  BY <1>1 DEF StreamInv, ServerInv, Distinct
<1>4. InOrder(Issued(hand[Viewed])) \in Seq(Numbered)
  BY <1>0, HandsAreGiven, IssuedFrames, InOrderIsSeq
<1>5. calls' \in Seq(Seq(Numbered))
  <2>1. calls \in Seq(Seq(Numbered))
    BY DEF StreamInv, StreamTypeOK
  <2>2. calls' = Append(calls, InOrder(Issued(hand[Viewed]))) \/ calls' = calls
    BY DEF PublishFrames
  <2> DEFINE group == InOrder(Issued(hand[Viewed]))
  <2> DEFINE Groups == Seq(Numbered)
  <2>3. group \in Groups /\ calls \in Seq(Groups)
    BY <1>4, <2>1
  <2> HIDE DEF group, Groups
  <2>4. Append(calls, group) \in Seq(Groups)
    BY <2>3, AppendProperties
  <2>5. calls' \in Seq(Groups)
    BY <2>2, <2>3, <2>4 DEF group
  <2>q. QED
    BY <2>5 DEF Groups
<1>6. StreamTypeOK'
  BY <1>1, <1>5 DEF StreamInv, StreamTypeOK, client
<1>q. QED
  BY <1>2, <1>3, <1>6 DEF StreamInv

\* What the subscription does not see keeps StreamInv.
LEMMA LogStepsStep ==
    ASSUME StreamInv, LogSteps \/ UNCHANGED all
    PROVE  StreamInv'
<1>1. UNCHANGED stream /\ (up => up')
  BY DEF LogSteps, all, vars, Capture, Enqueue, Writer, TakeFrames, BatchDue, TakeMarker,
         AppendFrames, WriteDone, Drain, AppendFails, CloseFlush, FlushTimeout, ClosePill,
         CloseJoin, Restart
<1>2. UNCHANGED <<handler, sent, read, calls, inbox, received, last, shown, dropped, ingest,
                  fetched, got, asking>>
  BY <1>1 DEF stream, server, client
<1>3. ServerInv'
  BY <1>1, <1>2 DEF StreamInv, ServerInv, Distinct
<1>4. BrowserInv' /\ SkipsAreCounted'
  BY <1>1, <1>2 DEF StreamInv, BrowserInv, SkipsAreCounted, Cursor, Distinct
<1>5. StreamTypeOK'
  BY <1>2 DEF StreamInv, StreamTypeOK
<1>q. QED
  BY <1>3, <1>4, <1>5 DEF StreamInv

\* The empty connection is typed.
LEMMA EmptyTyped ==
    /\ 0 \in 0..MaxFrames /\ 0 \in Nat
    /\ <<>> \in Seq(Numbered) /\ <<>> \in Seq(Seq(Numbered)) /\ Len(<<>>) <= SubCapacity
    /\ [n \in Numbers |-> 0] \in [Numbers -> Frames \union {0}]
<1>1. SubCapacity \in Nat /\ Len(<<>>) = 0
  BY StreamBounds
<1>q. QED
  BY <1>1, FramesFinite

\* ServerEnds keeps StreamInv: a request under way is given up.
LEMMA ServerEndsStep ==
    ASSUME StreamInv, ServerEnds
    PROVE  StreamInv'
<1>1. /\ ServerInv'
      /\ handler' = "off" /\ sent' = 0 /\ read' = {} /\ calls' = <<>> /\ inbox' = <<>>
      /\ received' \in Seq(Numbered)
  BY HangupTyped DEF ServerEnds, StreamInv, StreamTypeOK
<1>2. /\ got' = {} /\ asking' = FALSE /\ UNCHANGED <<last, shown, dropped>>
      /\ \/ ingest' = NoFrame /\ fetched' = {}
         \/ ~asking /\ UNCHANGED <<ingest, fetched>>
  BY DEF ServerEnds
<1>3. BrowserInv'
  BY <1>2 DEF StreamInv, BrowserInv, Distinct
<1>4. SkipsAreCounted'
  BY <1>2 DEF StreamInv, SkipsAreCounted
<1>5. StreamTypeOK'
  BY <1>1, <1>2, EmptyTyped DEF StreamInv, StreamTypeOK
<1>q. QED
  BY <1>1, <1>3, <1>4, <1>5 DEF StreamInv

\* The invariants hold at the start.
LEMMA StreamInvInit == StreamInit => IssuedInv /\ StreamInv
<1>1. SUFFICES ASSUME StreamInit PROVE IssuedInv /\ StreamInv
  OBVIOUS
<1>2. /\ handler = "off" /\ sent = 0 /\ read = {} /\ calls = <<>> /\ inbox = <<>>
      /\ received = <<>> /\ last = 0 /\ shown = [n \in Numbers |-> 0] /\ dropped = 0
      /\ ingest = NoFrame /\ fetched = {} /\ got = {} /\ asking = FALSE
  BY <1>1 DEF StreamInit
<1>3. IssuedInv
  BY <1>1, StreamBounds, FramesFinite DEF StreamInit, Init, IssuedInv
<1>4. ServerInv /\ BrowserInv
  BY <1>2 DEF ServerInv, BrowserInv, Distinct
<1>5. SkipsAreCounted
  <2>1. {n \in 1..last : shown[n] = 0} = {}
    BY <1>2
  <2>q. QED
    BY <1>2, <2>1, FS_EmptySet DEF SkipsAreCounted
<1>6. StreamTypeOK
  BY <1>2, EmptyTyped DEF StreamTypeOK
<1>q. QED
  BY <1>3, <1>4, <1>5, <1>6 DEF StreamInv

\* Every step keeps them, on top of a log that keeps its own.
LEMMA StreamInvStep ==
    LogInv /\ LogInv' /\ IssuedInv /\ StreamInv /\ [StreamNext]_all => IssuedInv' /\ StreamInv'
<1>1. SUFFICES ASSUME LogInv, LogInv', IssuedInv, StreamInv, [StreamNext]_all
               PROVE  IssuedInv' /\ StreamInv'
  OBVIOUS
<1>2. IssuedInv'
  BY <1>1, StreamStepsLog, IssuedStep
<1>3. TypeOK
  BY <1>1 DEF LogInv
<1>4. CASE \E r \in Runs : PublishFrames(r)
  BY <1>1, <1>2, <1>4, PublishFramesStep
<1>5. CASE LogSteps \/ UNCHANGED all
  BY <1>1, <1>2, <1>5, LogStepsStep
<1>6. CASE ServerEnds
  BY <1>1, <1>2, <1>6, ServerEndsStep
<1>7. CASE Server
  BY <1>1, <1>2, <1>3, <1>7, ConnectStep, ReplayRowsStep, ReplayRingStep, DeliverStep, ForwardStep
     DEF Server
<1>8. CASE Disconnect
  BY <1>1, <1>2, <1>8, DisconnectStep
<1>9. CASE Browser
  BY <1>1, <1>2, <1>3, <1>9, ReceiveStep, FetchRowsStep, FetchRingStep, FetchFailsStep DEF Browser
<1>10. StreamInv'
  BY <1>1, <1>2, <1>4, <1>5, <1>6, <1>7, <1>8, <1>9 DEF StreamNext
<1>q. QED
  BY <1>2, <1>10

\* StreamInv holds of every reachable state, on top of the log's invariant.
LEMMA StreamInvariance == StreamSpec => [](LogInv /\ IssuedInv /\ StreamInv)
<1>1. StreamInit => LogInv /\ IssuedInv /\ StreamInv
  BY StreamInvInit, InitInv DEF StreamInit
<1>2. LogInv /\ [StreamNext]_all => LogInv'
  BY StreamStepsLog, NextInv
<1>q. QED
  BY <1>1, <1>2, StreamInvStep, PTL DEF StreamSpec

\* The connection and the browser hold what their types say, whatever drops, restarts
\* or fails to be fetched (stream_frames, FrameSubscription, useValidatorRun).
THEOREM StreamIsTyped == StreamSpec => []StreamTypeOK
<1>1. StreamInv => StreamTypeOK
  BY DEF StreamInv
<1>q. QED
  BY <1>1, StreamInvariance, PTL

\* No frame is skipped in silence: what lies below the cursor was shown or is in the
\* count the status panel shows (ingestFrame, droppedFrames).
THEOREM SkippedFramesAreCounted == StreamSpec => []SkipsAreCounted
<1>1. StreamInv => SkipsAreCounted
  BY DEF StreamInv
<1>q. QED
  BY <1>1, StreamInvariance, PTL

-----------------------------------------------------------------------------
(* A ring that keeps its frames: then every number stands for one frame,   *)
(* and what is read of it is a stretch without a hole.                     *)

\* The ring evicts nothing and the process does not end.
Following == RingCapacity >= MaxFrames /\ MaxEnds = 0

\* The frames with a number below m, each under the number it was captured with.
Genuine(m) == {f \in Numbered : f.number < m /\ f.frame = f.number}

\* What the ring has after a.
Later(a) == {f \in Genuine(next[Viewed]) : f.number > a}

\* The ring numbers the frames as they were captured.
LogPart ==
    /\ up
    /\ next[Viewed] = captured[Viewed] + 1
    /\ restored[Viewed] = 0
    /\ \A n \in Given : issued[Viewed][n] = n

\* The frames on their way to the browser.
WirePart ==
    /\ read \in SUBSET Genuine(next[Viewed])
    /\ received \in Seq(Genuine(next[Viewed]))
    /\ inbox \in Seq(Genuine(next[Viewed]))
    /\ calls \in Seq(Seq(Genuine(next[Viewed])))

\* The screen shows the frames up to the cursor; a fetch has no hole so far.
ScreenPart ==
    /\ last < next[Viewed]
    /\ \A n \in Numbers : shown[n] = IF n <= last THEN n ELSE 0
    /\ {fetched, got} \subseteq SUBSET Genuine(next[Viewed])
    /\ ingest \in Genuine(next[Viewed]) \union {NoFrame}
    /\ \A k \in Numbers : (last < k /\ k <= Cursor) => \E f \in fetched : f.number = k
    /\ fetchFails \in Nat

\* The invariant for a ring that keeps its frames.
FollowInv == LogPart /\ WirePart /\ ScreenPart

\* A sequence over a set is one over a larger set.
LEMMA SeqGrows ==
    ASSUME NEW S, NEW T, S \subseteq T, NEW s \in Seq(S)
    PROVE  s \in Seq(T)
<1>1. s \in [1..Len(s) -> S] /\ Len(s) \in Nat
  OBVIOUS
<1>2. s \in [1..Len(s) -> T]
  BY <1>1
<1>q. QED
  BY <1>1, <1>2

\* Genuine frames stay so as numbers are given out.
LEMMA GenuineGrows ==
    ASSUME NEW m \in Nat, NEW k \in Nat, m <= k
    PROVE  Genuine(m) \subseteq Genuine(k)
  BY NumberedIs DEF Genuine

\* A page takes what comes before any of its frames.
LEMMA PageIsBelow ==
    ASSUME NEW fs \in SUBSET Numbered, Distinct(fs), NEW f \in Page(fs), NEW g \in fs,
           g.number <= f.number
    PROVE  g \in Page(fs)
<1>1. /\ \A h \in fs : Before(fs, h) \in Nat
      /\ \A h, i \in fs : h.number < i.number => Before(fs, h) < Before(fs, i)
  BY FrameRanks
<1>2. f \in fs /\ Before(fs, f) < PageLimit /\ PageLimit \in Nat
  BY StreamBounds DEF Page
<1>3. g.number \in Nat /\ f.number \in Nat
  BY <1>2, NumberedIs
<1>4. CASE g.number = f.number
  BY <1>2, <1>4 DEF Distinct
<1>5. CASE g.number < f.number
  <2>1. Before(fs, g) < PageLimit
    BY <1>1, <1>2, <1>5
  <2>q. QED
    BY <2>1 DEF Page
<1>q. QED
  BY <1>3, <1>4, <1>5

\* Frames left out that are on no page change no page.
LEMMA PageOfMore ==
    ASSUME NEW every \in SUBSET Numbered, Distinct(every), NEW fs \in SUBSET every,
           Page(every) \subseteq fs
    PROVE  Page(fs) = Page(every)
<1>1. fs \in SUBSET Numbered /\ Distinct(fs)
  BY DEF Distinct
<1>2. IsFiniteSet(fs) /\ IsFiniteSet(every)
  BY <1>1, FramesFinite, FS_Subset
<1>3. PageLimit \in Nat
  BY StreamBounds
<1>4. /\ \A h \in fs : Before(fs, h) \in Nat
      /\ \A h \in every : Before(every, h) \in Nat
  BY <1>1, FrameRanks
<1>5. ASSUME NEW f \in Page(fs), f \notin Page(every) PROVE FALSE
  <2>1. f \in fs /\ Before(fs, f) < PageLimit
    BY <1>5 DEF Page
  <2>2. Cardinality(Page(every)) = PageLimit
    BY <1>5, <2>1, PageOrAll
  <2>3. ASSUME NEW g \in Page(every) PROVE g \in {h \in fs : h.number < f.number}
    <3>1. ~(f.number <= g.number)
      BY <1>5, <2>1, <2>3, PageIsBelow
    <3>2. g \in fs /\ g.number \in Nat /\ f.number \in Nat
      BY <1>1, <2>1, <2>3, NumberedIs
    <3>q. QED
      BY <3>1, <3>2
  <2> DEFINE T == {h \in fs : h.number < f.number}
  <2>4. IsFiniteSet(T) /\ Page(every) \in SUBSET T /\ Before(fs, f) = Cardinality(T)
    BY <1>2, <2>3, FS_Subset DEF Before
  <2> HIDE DEF T
  <2>5. Cardinality(Page(every)) <= Cardinality(T)
    BY <2>4, FS_Subset
  <2>q. QED
    BY <1>3, <1>4, <2>1, <2>2, <2>4, <2>5
<1>6. ASSUME NEW f \in Page(every) PROVE f \in Page(fs)
  <2> DEFINE T == {h \in every : h.number < f.number}
  <2> DEFINE U == {h \in fs : h.number < f.number}
  <2>1. f \in fs /\ f \in every /\ Before(every, f) < PageLimit
    BY <1>6 DEF Page
  <2>2. /\ IsFiniteSet(T) /\ U \in SUBSET T
        /\ Before(fs, f) = Cardinality(U) /\ Before(every, f) = Cardinality(T)
    BY <1>2, FS_Subset DEF Before
  <2> HIDE DEF T, U
  <2>3. Cardinality(U) <= Cardinality(T)
    BY <2>2, FS_Subset
  <2>4. Before(fs, f) < PageLimit
    BY <1>3, <1>4, <2>1, <2>2, <2>3
  <2>q. QED
    BY <2>1, <2>4 DEF Page
<1>q. QED
  BY <1>5, <1>6

\* What the ring has after a: one frame for each number.
LEMMA LaterIs ==
    ASSUME NEW a
    PROVE  /\ Later(a) \in SUBSET Numbered /\ Distinct(Later(a))
           /\ \A f \in Later(a) : f.number > a /\ f.number \in Given
           /\ \A n \in Given : n > a => \E f \in Later(a) : f.number = n
           /\ Page(Later(a)) \in SUBSET Later(a)
<1>1. Later(a) \in SUBSET Numbered /\ \A f \in Later(a) : f.number > a /\ f.number \in Given
  BY NumberedIs DEF Later, Genuine, Given
<1>2. Distinct(Later(a))
  <2>1. ASSUME NEW f \in Later(a), NEW g \in Later(a), f.number = g.number PROVE f = g
    <3>1. f \in Numbered /\ g \in Numbered /\ f.frame = g.frame
      BY <2>1 DEF Later, Genuine
    <3>q. QED
      BY <2>1, <3>1 DEF Numbered
  <2>q. QED
    BY <2>1 DEF Distinct
<1>3. ASSUME NEW n \in Given, n > a PROVE \E f \in Later(a) : f.number = n
  <2>1. [number |-> n, frame |-> n] \in Later(a)
    BY <1>3 DEF Later, Genuine, Numbered, Given, Numbers, Frames
  <2>q. QED
    BY <2>1
<1>q. QED
  BY <1>1, <1>2, <1>3, PageOrAll

\* A ring that keeps its frames gives the first of what was numbered after a.
LEMMA RingPageIsLater ==
    ASSUME Following, TypeOK, LogPart, NEW a
    PROVE  RingPage(a) = Page(Later(a))
<1>1. /\ next[Viewed] \in 1..(MaxFrames + 1) /\ RingCapacity \in Nat /\ MaxFrames \in Nat
      /\ RingCapacity >= MaxFrames
  BY StreamBounds, FrameBounds DEF TypeOK, Following
<1>2. Ring(Viewed) = Given
  <2>1. ASSUME NEW n \in Numbers PROVE next[Viewed] <= n + RingCapacity
    BY <1>1, FramesFinite
  <2>q. QED
    BY <2>1 DEF Ring, Given
<1>3. Issued({n \in Given : n > a}) = Later(a)
  <2>1. ASSUME NEW f \in Issued({n \in Given : n > a}) PROVE f \in Later(a)
    <3>1. PICK n \in Given : n > a /\ f = [number |-> n, frame |-> issued[Viewed][n]]
      BY DEF Issued
    <3>2. issued[Viewed][n] = n /\ n \in Numbers /\ n \in Frames /\ n < next[Viewed]
      BY FramesFinite DEF LogPart, Given
    <3>q. QED
      BY <3>1, <3>2 DEF Later, Genuine, Numbered
  <2>2. ASSUME NEW f \in Later(a) PROVE f \in Issued({n \in Given : n > a})
    <3>1. f \in Numbered /\ f.number \in Given /\ f.number > a /\ f.frame = f.number
      BY LaterIs DEF Later, Genuine
    <3>2. f = [number |-> f.number, frame |-> issued[Viewed][f.number]]
      BY <3>1 DEF Numbered, LogPart
    <3>q. QED
      BY <3>1, <3>2 DEF Issued
  <2>q. QED
    BY <2>1, <2>2
<1>q. QED
  BY <1>2, <1>3 DEF RingPage

\* The rows a replay read add nothing to what the ring has.
LEMMA ReplayIsLater ==
    ASSUME Following, TypeOK, LogPart, NEW a, NEW rows \in SUBSET Later(a)
    PROVE  Replay(rows, a) = Page(Later(a))
<1> DEFINE ring == RingPage(a)
<1> DEFINE fs == {f \in rows : \A g \in ring : g.number # f.number} \union ring
<1>1. ring = Page(Later(a)) /\ Later(a) \in SUBSET Numbered /\ Distinct(Later(a))
      /\ Page(Later(a)) \in SUBSET Later(a)
  BY RingPageIsLater, LaterIs
<1>2. Replay(rows, a) = Page(fs)
  BY DEF Replay
<1>3. fs \in SUBSET Later(a) /\ Page(Later(a)) \subseteq fs
  BY <1>1
<1> HIDE DEF fs, ring
<1>q. QED
  BY <1>1, <1>2, <1>3, PageOfMore

\* Rows agree with the ring.
LEMMA RowPageIsLater ==
    ASSUME LogInv, LogPart, NEW a
    PROVE  RowPage(a) \in SUBSET Later(a)
<1> DEFINE ns == {n \in Rows(Viewed) : n > a}
<1>1. \A n \in Rows(Viewed) : n < next[Viewed] /\ row[Viewed][n] = issued[Viewed][n]
  <2>1. RowInv(Viewed)
    BY StreamBounds DEF LogInv, LogPart
  <2>2. Aligned(Viewed)
    BY DEF LogPart, Aligned
  <2>q. QED
    BY <2>1, <2>2 DEF RowInv
<1>2. Stored(ns) \in SUBSET Numbered /\ Distinct(Stored(ns)) /\ \A f \in Stored(ns) : f.number \in ns
  BY StoredFrames DEF LogInv
<1>3. Stored(ns) \in SUBSET Later(a)
  <2>1. SUFFICES ASSUME NEW f \in Stored(ns) PROVE f \in Later(a)
    OBVIOUS
  <2>2. f \in Numbered /\ f.number \in ns /\ f.frame = row[Viewed][f.number]
    BY <1>2 DEF Stored
  <2>3. f.number \in Given /\ f.frame = f.number /\ f.number > a
    BY <1>1, <2>2 DEF LogPart, Given, Rows
  <2>q. QED
    BY <2>2, <2>3 DEF Later, Genuine, Given
<1>4. RowPage(a) = Page(Stored(ns))
  BY DEF RowPage
<1> HIDE DEF ns
<1>q. QED
  BY <1>2, <1>3, <1>4, PageOrAll

-----------------------------------------------------------------------------
(* Each step keeps FollowInv. *)

\* The process goes on, and captures number their frames in order.
LEMMA LogPartStep ==
    ASSUME Following, LogInv, LogPart, [Next]_vars
    PROVE  LogPart' /\ next[Viewed] \in Nat /\ next'[Viewed] \in Nat
           /\ next[Viewed] <= next'[Viewed]
<1>0. /\ TypeOK /\ Viewed \in Runs /\ MaxFrames \in Nat
      /\ next[Viewed] \in Nat /\ captured[Viewed] \in Nat
  <2>1. TypeOK /\ Viewed \in Runs /\ MaxFrames \in Nat
    BY StreamBounds, FramesFinite DEF LogInv
  <2>2. next[Viewed] \in 1..(MaxFrames + 1) /\ captured[Viewed] \in 0..MaxFrames
    BY <2>1 DEF TypeOK
  <2>q. QED
    BY <2>1, <2>2
<1>1. CASE UNCHANGED <<next, issued, captured, restored, up>>
  BY <1>0, <1>1 DEF LogPart, Given
<1>2. ASSUME NEW r \in Runs, NEW k \in 1..MaxGroup, Capture(r, k)
      PROVE  LogPart' /\ next'[Viewed] \in Nat /\ next[Viewed] <= next'[Viewed]
  <2>0. restored' = restored /\ up'
    BY <1>2 DEF Capture
  <2>1. CASE r # Viewed
    <3>1. next'[Viewed] = next[Viewed] /\ issued'[Viewed] = issued[Viewed]
          /\ captured'[Viewed] = captured[Viewed]
      BY <1>0, <1>2, <2>1 DEF Capture, TypeOK
    <3>q. QED
      BY <1>0, <2>0, <3>1 DEF LogPart, Given
  <2>2. CASE r = Viewed
    <3>1. /\ k \in Nat /\ k > 0
          /\ next'[r] = next[r] + k
          /\ captured'[r] = captured[r] + k
          /\ \A n \in Numbers : issued'[r][n] =
                IF n \in next[r]..(next[r] + k - 1) THEN captured[r] + 1 + n - next[r]
                                                    ELSE issued[r][n]
      <4>1. MaxGroup \in Nat
        BY FrameBounds
      <4>2. next \in [Runs -> 1..(MaxFrames + 1)] /\ captured \in [Runs -> 0..MaxFrames]
            /\ issued \in [Runs -> [Numbers -> Frames \union {0}]]
        BY <1>0 DEF TypeOK
      <4>3. k \in Nat /\ k > 0
        BY <1>2, <4>1
      <4>q. QED
        BY <1>2, <4>2, <4>3 DEF Capture
    <3>2. ASSUME NEW n \in Numbers, n < next'[r] PROVE issued'[r][n] = n
      <4>1. n \in Nat
        BY FramesFinite
      <4>2. CASE n < next[r]
        <5>1. n \notin next[r]..(next[r] + k - 1)
          BY <1>0, <2>2, <4>1, <4>2
        <5>2. n \in Given
          BY <2>2, <4>2 DEF Given
        <5>q. QED
          BY <2>2, <3>1, <5>1, <5>2 DEF LogPart
      <4>3. CASE n >= next[r]
        <5>1. n \in next[r]..(next[r] + k - 1)
          BY <1>0, <2>2, <3>1, <3>2, <4>1, <4>3
        <5>2. issued'[r][n] = captured[r] + 1 + n - next[r] /\ next[r] = captured[r] + 1
          BY <2>2, <3>1, <5>1 DEF LogPart
        <5>q. QED
          BY <1>0, <2>2, <4>1, <5>2
      <4>q. QED
        BY <1>0, <2>2, <4>1, <4>2, <4>3
    <3>3. next'[Viewed] = captured'[Viewed] + 1 /\ next'[Viewed] \in Nat
          /\ next[Viewed] <= next'[Viewed]
      BY <1>0, <2>2, <3>1 DEF LogPart
    <3>q. QED
      BY <2>0, <2>2, <3>2, <3>3 DEF LogPart, Given
  <2>q. QED
    BY <2>1, <2>2
<1>3. ~Restart
  BY DEF Restart, LogPart
<1>4. CASE UNCHANGED vars
  BY <1>1, <1>4 DEF vars, memory
<1>5. CASE (\E r \in Runs : Publish(r) \/ Enqueue(r)) \/ Writer \/ AppendFails \/ Closing
  BY <1>1, <1>5
     DEF Publish, Enqueue, Writer, TakeFrames, BatchDue, TakeMarker, AppendFrames, WriteDone,
         Drain, AppendFails, Closing, CloseFlush, FlushTimeout, ClosePill, CloseJoin
<1>6. ~ProcessEnds
  <2>1. ends \in Nat /\ MaxEnds = 0
    BY <1>0 DEF TypeOK, Following
  <2>q. QED
    BY <2>1 DEF ProcessEnds
<1>q. QED
  BY <1>0, <1>2, <1>3, <1>4, <1>5, <1>6 DEF Next, Handlers

\* What is genuine stays genuine when more frames are captured.
LEMMA WireStays ==
    ASSUME WirePart, next[Viewed] \in Nat, next'[Viewed] \in Nat, next[Viewed] <= next'[Viewed],
           UNCHANGED <<read, received, inbox, calls>>
    PROVE  WirePart'
<1> DEFINE S == Genuine(next[Viewed])
<1> DEFINE T == Genuine(next'[Viewed])
<1>1. S \subseteq T
  BY GenuineGrows
<1>2. read \in SUBSET S /\ received \in Seq(S) /\ inbox \in Seq(S) /\ calls \in Seq(Seq(S))
  BY DEF WirePart
<1> HIDE DEF S, T
<1>3. Seq(S) \subseteq Seq(T)
  BY <1>1, SeqGrows
<1>4. read \in SUBSET T /\ received \in Seq(T) /\ inbox \in Seq(T)
  BY <1>1, <1>2, SeqGrows
<1>5. calls \in Seq(Seq(T))
  BY <1>2, <1>3, SeqGrows
<1>q. QED
  BY <1>4, <1>5 DEF WirePart, T

\* The screen stays when the browser takes no step.
LEMMA ScreenStays ==
    ASSUME ScreenPart, StreamInv, UNCHANGED <<client, fetchFails>>,
           next[Viewed] \in Nat, next'[Viewed] \in Nat, next[Viewed] <= next'[Viewed]
    PROVE  ScreenPart'
<1>1. UNCHANGED <<last, shown, ingest, fetched, got, fetchFails>> /\ Cursor' = Cursor
  BY DEF client, Cursor
<1>2. last \in Nat
  BY NumberedIs DEF StreamInv, StreamTypeOK
<1>3. Genuine(next[Viewed]) \subseteq Genuine(next'[Viewed])
  BY GenuineGrows
<1>4. last' < next'[Viewed]
  BY <1>1, <1>2 DEF ScreenPart
<1>q. QED
  BY <1>1, <1>3, <1>4 DEF ScreenPart

\* Showing frames that continue the screen keeps it without a hole.
LEMMA ShowFollows ==
    ASSUME StreamInv, ScreenPart, next[Viewed] \in Nat,
           NEW fs \in SUBSET Genuine(next[Viewed]), Distinct(fs), Show(fs),
           \A f \in fs : \A k \in Numbers : (last < k /\ k <= f.number) =>
               \E g \in fs : g.number = k
    PROVE  last' < next[Viewed] /\ \A n \in Numbers : shown'[n] = IF n <= last' THEN n ELSE 0
<1>1. fs \in SUBSET Numbered /\ \A f \in fs : f.number < next[Viewed] /\ f.frame = f.number
  BY DEF Genuine
<1>2. /\ last' \in 0..MaxFrames /\ last <= last'
      /\ last' = last \/ \E f \in fs : last' = f.number
      /\ \A n \in Numbers : shown[n] # 0 => shown'[n] = shown[n]
      /\ \A n \in Numbers : shown'[n] # 0 => n <= last'
      /\ \A n \in Numbers : (shown'[n] # 0 /\ shown[n] = 0) =>
            \E f \in fs : f.number = n /\ shown'[n] = f.frame
      /\ \A f \in fs : shown'[f.number] # 0 /\ f.number <= last'
  BY <1>1, ShowStep
<1>3. last' < next[Viewed]
  BY <1>1, <1>2 DEF ScreenPart
<1>4. ASSUME NEW n \in Numbers PROVE shown'[n] = IF n <= last' THEN n ELSE 0
  <2>1. n \in Nat /\ n > 0 /\ last \in Nat /\ last' \in Nat
    BY <1>2, FramesFinite, NumberedIs DEF StreamInv, StreamTypeOK
  <2>2. CASE n <= last
    <3>1. shown[n] = n
      BY <2>2 DEF ScreenPart
    <3>q. QED
      BY <1>2, <2>1, <2>2, <3>1
  <2>3. CASE n > last /\ n <= last'
    <3>1. PICK f \in fs : last' = f.number
      BY <1>2, <2>1, <2>3
    <3>2. PICK g \in fs : g.number = n
      BY <2>3, <3>1
    <3>3. shown'[n] # 0 /\ shown[n] = 0
      <4>1. shown[n] = 0
        BY <2>1, <2>3 DEF ScreenPart
      <4>q. QED
        BY <1>2, <3>2, <4>1
    <3>4. shown'[n] = n
      BY <1>1, <1>2, <3>3
    <3>q. QED
      BY <2>3, <3>4
  <2>4. CASE n > last'
    <3>1. ~(n <= last')
      BY <2>1, <2>4
    <3>q. QED
      BY <1>2, <3>1
  <2>q. QED
    BY <2>1, <2>2, <2>3, <2>4
<1>q. QED
  BY <1>3, <1>4

\* The log is typed, and its next number is positive.
LEMMA NextIsNat ==
    ASSUME LogInv
    PROVE  TypeOK /\ next[Viewed] \in Nat /\ next[Viewed] - 1 \in 0..MaxFrames
<1>1. TypeOK /\ Viewed \in Runs /\ MaxFrames \in Nat
  BY StreamBounds, FramesFinite DEF LogInv
<1>2. next[Viewed] \in 1..(MaxFrames + 1)
  BY <1>1 DEF TypeOK
<1>q. QED
  BY <1>1, <1>2

\* Steps of the server's side of the connection.
LEMMA ServerFollows ==
    ASSUME Following, LogInv, StreamInv, FollowInv, Server \/ Disconnect
    PROVE  FollowInv'
<1> DEFINE S == Genuine(next[Viewed])
<1>1. /\ next[Viewed] \in Nat /\ TypeOK /\ LogPart /\ WirePart /\ ScreenPart
  BY NextIsNat DEF FollowInv
<1>2. UNCHANGED <<vars, client, fetchFails>>
  BY DEF Server, Connect, ReplayRows, ReplayRing, Deliver, Forward, Disconnect
<1>3. UNCHANGED <<up, captured, next, issued, restored>>
  BY <1>2 DEF vars, memory
<1>4. LogPart' /\ ScreenPart'
  BY <1>1, <1>2, <1>3, ScreenStays DEF LogPart, Given
<1>5. S' = S
  BY <1>3 DEF Genuine
<1>6. read \in SUBSET S /\ received \in Seq(S) /\ inbox \in Seq(S) /\ calls \in Seq(Seq(S))
  BY <1>1 DEF WirePart
<1>7. read' \in SUBSET S /\ received' \in Seq(S) /\ inbox' \in Seq(S) /\ calls' \in Seq(Seq(S))
  <2>1. CASE Connect
    BY <1>6, <2>1 DEF Connect
  <2>2. CASE ReplayRows
    <3>1. read' \in SUBSET Later(sent)
      BY <1>1, <2>2, RowPageIsLater DEF ReplayRows
    <3>q. QED
      BY <1>6, <2>2, <3>1 DEF ReplayRows, Later
  <2>3. CASE ReplayRing
    <3> DEFINE page == Page(Later(sent))
    <3>1. read \in SUBSET Later(sent)
      BY <1>6 DEF StreamInv, ServerInv, Later
    <3>2. Replay(read, sent) = page
      BY <1>1, <3>1, ReplayIsLater
    <3>3. /\ page \in SUBSET Later(sent) /\ page \in SUBSET Numbered /\ Distinct(page)
          /\ page \in SUBSET S
      <4>1. Later(sent) \in SUBSET Numbered /\ Distinct(Later(sent)) /\ page \in SUBSET Later(sent)
        BY LaterIs
      <4>2. Later(sent) \in SUBSET S
        BY DEF Later
      <4> HIDE DEF page, S
      <4>q. QED
        BY <4>1, <4>2 DEF Distinct
    <3>4. received' = received \o InOrder(page) /\ read' = {} /\ UNCHANGED <<inbox, calls>>
      BY <2>3, <3>2 DEF ReplayRing
    <3> HIDE DEF page, S
    <3>5. InOrder(page) \in Seq(page)
      BY <3>3, InOrderIsSeq
    <3>6. InOrder(page) \in Seq(S)
      BY <3>3, <3>5, SeqGrows
    <3>7. received' \in Seq(S)
      BY <1>6, <3>4, <3>6, ConcatProperties
    <3>q. QED
      BY <1>6, <3>4, <3>7
  <2>4. CASE Deliver
    <3>1. UNCHANGED <<read, received>>
      BY <2>4 DEF Deliver
    <3> HIDE DEF S
    <3>q. QED
      BY <1>6, <2>4, <3>1, Delivered
  <2>5. CASE Forward
    <3>1. /\ inbox # <<>> /\ inbox' = Tail(inbox) /\ UNCHANGED <<read, calls>>
          /\ received' = received \/ received' = Append(received, Head(inbox))
      BY <2>5 DEF Forward
    <3> HIDE DEF S
    <3>2. Head(inbox) \in S /\ inbox' \in Seq(S)
      BY <1>6, <3>1, TailTyped
    <3>3. received' \in Seq(S)
      <4>1. received \in Seq(S) /\ Append(received, Head(inbox)) \in Seq(S)
        BY <1>6, <3>2, AppendProperties
      <4>q. QED
        BY <3>1, <4>1
    <3>q. QED
      BY <1>6, <3>1, <3>2, <3>3
  <2>6. CASE Disconnect
    <3> HIDE DEF S
    <3>1. read' = {} /\ calls' = <<>> /\ inbox' = <<>> /\ received' \in Seq(S)
      BY <1>6, <2>6, HangupTyped DEF Disconnect
    <3>q. QED
      BY <3>1
  <2>q. QED
    BY <2>1, <2>2, <2>3, <2>4, <2>5, <2>6 DEF Server
<1>8. WirePart'
  BY <1>5, <1>7 DEF WirePart
<1>q. QED
  BY <1>4, <1>8 DEF FollowInv

\* PublishFrames keeps FollowInv: a group is genuine.
LEMMA PublishFollows ==
    ASSUME Following, LogInv, IssuedInv, StreamInv, FollowInv, NEW r \in Runs, PublishFrames(r)
    PROVE  FollowInv'
<1> DEFINE S == Genuine(next[Viewed])
<1>1. /\ next[Viewed] \in Nat /\ TypeOK /\ LogPart /\ WirePart /\ ScreenPart
  BY NextIsNat DEF FollowInv
<1>2. UNCHANGED <<up, captured, next, issued, restored, client, fetchFails,
                  read, inbox, received>>
  BY DEF PublishFrames, Publish
<1>4. LogPart' /\ ScreenPart'
  BY <1>1, <1>2, ScreenStays DEF LogPart, Given
<1>5. S' = S
  BY <1>2 DEF Genuine
<1> DEFINE fs == Issued(hand[Viewed])
<1>6. fs \in SUBSET Numbered /\ Distinct(fs) /\ fs \in SUBSET S
  <2>1. hand[Viewed] \in SUBSET Given
    BY HandsAreGiven DEF PublishFrames, Publish
  <2>2. fs \in SUBSET Numbered /\ Distinct(fs) /\ \A f \in fs : f.number \in hand[Viewed]
    BY <1>1, <2>1, IssuedFrames
  <2>3. ASSUME NEW f \in fs PROVE f \in S
    <3>1. f.frame = issued[Viewed][f.number] /\ f.number \in Given
      BY <2>1, <2>2, <2>3 DEF Issued
    <3>q. QED
      BY <1>1, <2>2, <2>3, <3>1 DEF LogPart, Genuine, Given
  <2>q. QED
    BY <2>2, <2>3
<1>7. calls' = calls \/ calls' = Append(calls, InOrder(fs))
  BY DEF PublishFrames
<1>8. read \in SUBSET S /\ received \in Seq(S) /\ inbox \in Seq(S) /\ calls \in Seq(Seq(S))
  BY <1>1 DEF WirePart
<1> HIDE DEF S, fs
<1>9. InOrder(fs) \in Seq(S)
  <2>1. InOrder(fs) \in Seq(fs)
    BY <1>6, InOrderIsSeq
  <2>q. QED
    BY <1>6, <2>1, SeqGrows
<1>10. calls' \in Seq(Seq(S))
  <2> DEFINE group == InOrder(fs)
  <2> DEFINE Groups == Seq(S)
  <2>1. group \in Groups /\ calls \in Seq(Groups) /\ (calls' = calls \/ calls' = Append(calls, group))
    BY <1>7, <1>8, <1>9
  <2> HIDE DEF group, Groups
  <2>2. calls' \in Seq(Groups)
    BY <2>1, AppendProperties
  <2>q. QED
    BY <2>2 DEF Groups
<1>11. WirePart'
  BY <1>2, <1>5, <1>8, <1>10 DEF WirePart, S
<1>q. QED
  BY <1>4, <1>11 DEF FollowInv

\* The other steps of the log keep FollowInv.
LEMMA LogFollows ==
    ASSUME Following, LogInv, StreamInv, FollowInv, LogSteps \/ UNCHANGED all
    PROVE  FollowInv'
<1>1. [Next]_vars
  BY StreamStepsLog DEF StreamNext, LogSteps, all
<1>2. LogPart' /\ next[Viewed] \in Nat /\ next'[Viewed] \in Nat /\ next[Viewed] <= next'[Viewed]
  BY <1>1, LogPartStep DEF FollowInv
<1>3. UNCHANGED <<client, fetchFails, read, received, inbox, calls>>
  BY DEF LogSteps, all, stream, server
<1>q. QED
  BY <1>2, <1>3, WireStays, ScreenStays DEF FollowInv

\* The process does not end.
LEMMA NoEnd ==
    ASSUME Following, LogInv
    PROVE  ~ServerEnds
<1>1. ends \in 0..MaxEnds /\ MaxEnds = 0
  BY DEF LogInv, TypeOK, Following
<1>q. QED
  BY <1>1 DEF ServerEnds, ProcessEnds

\* What CursorIs says.
CursorFacts ==
    /\ Cursor \in 0..MaxFrames /\ last <= Cursor
    /\ \A f \in fetched : f.number <= Cursor
    /\ Cursor = last \/ \E f \in fetched : Cursor = f.number

\* CursorIs, of the state after a step.
LEMMA CursorNext == StreamInv' => CursorFacts'
<1>1. StreamInv => CursorFacts
  BY CursorIs DEF CursorFacts
<1>q. QED
  BY <1>1, PTL

\* Receive keeps FollowInv: it shows the next frame, or starts a fetch.
LEMMA ReceiveFollows ==
    ASSUME LogInv, StreamInv, StreamInv', FollowInv, Receive
    PROVE  FollowInv'
<1> DEFINE S == Genuine(next[Viewed])
<1> DEFINE f == Head(received)
<1>1. next[Viewed] \in Nat /\ LogPart /\ WirePart /\ ScreenPart
  BY NextIsNat DEF FollowInv
<1>2. /\ ingest = NoFrame /\ received # <<>> /\ received' = Tail(received)
      /\ UNCHANGED <<vars, server, got, fetchFails>>
  BY DEF Receive
<1>3. UNCHANGED <<up, captured, next, issued, restored, read, inbox, calls>>
  BY <1>2 DEF vars, memory, server
<1>4. S' = S /\ LogPart'
  BY <1>1, <1>3 DEF Genuine, LogPart, Given
<1>5. received \in Seq(S)
  BY <1>1 DEF WirePart
<1>6. f \in S /\ received' \in Seq(S)
  <2> HIDE DEF S
  <2>q. QED
    BY <1>2, <1>5, TailTyped
<1>7. WirePart'
  BY <1>1, <1>3, <1>4, <1>6 DEF WirePart
<1>8. /\ fetched = {} /\ last \in Nat /\ last \in 0..MaxFrames
      /\ f \in Numbered /\ f.number \in Nat /\ f.number \in Numbers
  BY <1>2, <1>6, NumberedIs DEF StreamInv, StreamTypeOK, BrowserInv, Genuine
<1>9. CASE shown[f.number] # 0 \/ f.number <= last + 1
  <2>1. Show({f}) /\ UNCHANGED <<ingest, fetched>>
    BY <1>9 DEF Receive
  <2>2. f.number <= last + 1
    <3>1. shown[f.number] # 0 => f.number <= last
      BY <1>8 DEF StreamInv, BrowserInv
    <3>q. QED
      BY <1>8, <1>9, <3>1
  <2>3. {f} \in SUBSET S /\ Distinct({f})
    BY <1>6 DEF Distinct
  <2>4. \A g \in {f} : \A k \in Numbers : (last < k /\ k <= g.number) =>
            \E h \in {f} : h.number = k
    <3>1. ASSUME NEW k \in Numbers, last < k, k <= f.number PROVE f.number = k
      BY <1>8, <2>2, <3>1, FramesFinite
    <3>q. QED
      BY <3>1
  <2> HIDE DEF f
  <2>5. last' < next[Viewed] /\ \A n \in Numbers : shown'[n] = IF n <= last' THEN n ELSE 0
    BY <1>1, <2>1, <2>3, <2>4, ShowFollows
  <2>6. \A k \in Numbers : ~(last' < k /\ k <= Cursor')
    <3>1. last' \in Nat /\ Cursor' = last'
      <4>1. fetched' = {}
        BY <1>8, <2>1
      <4>q. QED
        BY <4>1, CursorNext, NumberedIs DEF CursorFacts, StreamInv, StreamTypeOK
    <3>q. QED
      BY <3>1, FramesFinite
  <2>7. ScreenPart'
    BY <1>1, <1>2, <1>3, <1>4, <2>1, <2>5, <2>6 DEF ScreenPart
  <2>q. QED
    BY <1>4, <1>7, <2>7 DEF FollowInv
<1>10. CASE ~(shown[f.number] # 0 \/ f.number <= last + 1)
  <2>1. ingest' = f /\ fetched' = fetched /\ UNCHANGED <<shown, last>>
    BY <1>8, <1>10 DEF Receive
  <2>2. Cursor' = Cursor
    BY <2>1 DEF Cursor
  <2>3. ScreenPart'
    BY <1>1, <1>2, <1>3, <1>4, <1>6, <2>1, <2>2 DEF ScreenPart
  <2>q. QED
    BY <1>4, <1>7, <2>3 DEF FollowInv
<1>q. QED
  BY <1>9, <1>10

\* FetchRows keeps FollowInv.
LEMMA FetchRowsFollows ==
    ASSUME LogInv, StreamInv, FollowInv, FetchRows
    PROVE  FollowInv'
<1>1. next[Viewed] \in Nat /\ LogPart /\ WirePart /\ ScreenPart
  BY NextIsNat DEF FollowInv
<1>2. got' = RowPage(Cursor)
      /\ UNCHANGED <<vars, server, received, last, shown, ingest, fetched, fetchFails>>
  BY DEF FetchRows
<1>3. UNCHANGED <<up, captured, next, issued, restored, read, inbox, calls, received>>
  BY <1>2 DEF vars, memory, server
<1>4. LogPart' /\ WirePart'
  BY <1>1, <1>3, WireStays DEF LogPart, Given
<1>5. got' \in SUBSET Genuine(next[Viewed])
  <2>1. got' \in SUBSET Later(Cursor)
    BY <1>1, <1>2, RowPageIsLater
  <2>q. QED
    BY <2>1 DEF Later
<1>6. Cursor' = Cursor
  BY <1>2 DEF Cursor
<1>7. ScreenPart'
  BY <1>1, <1>2, <1>3, <1>5, <1>6 DEF ScreenPart, Genuine
<1>q. QED
  BY <1>4, <1>7 DEF FollowInv

\* FetchFails keeps FollowInv: the frame is given up, and the screen stays.
LEMMA FetchFailsFollows ==
    ASSUME LogInv, StreamInv, StreamInv', FollowInv, FetchFails
    PROVE  FollowInv'
<1>1. next[Viewed] \in Nat /\ LogPart /\ WirePart /\ ScreenPart
  BY NextIsNat DEF FollowInv
<1>2. ingest' = NoFrame /\ fetched' = {} /\ got' = {}
      /\ UNCHANGED <<vars, server, received, last, shown>>
  BY DEF FetchFails
<1>3. UNCHANGED <<up, captured, next, issued, restored, read, inbox, calls, received>>
  BY <1>2 DEF vars, memory, server
<1>4. LogPart' /\ WirePart'
  BY <1>1, <1>3, WireStays DEF LogPart, Given
<1>5. \A k \in Numbers : ~(last' < k /\ k <= Cursor')
  <2>1. last' \in Nat /\ Cursor' = last'
    BY <1>2, CursorNext, NumberedIs DEF CursorFacts, StreamInv, StreamTypeOK
  <2>q. QED
    BY <2>1, FramesFinite
<1>6. fetchFails' \in Nat
  BY <1>1 DEF FetchFails, ScreenPart
<1>7. ScreenPart'
  BY <1>1, <1>2, <1>3, <1>5, <1>6 DEF ScreenPart
<1>q. QED
  BY <1>4, <1>7 DEF FollowInv

\* FetchRing keeps FollowInv: the page goes on where the fetch was, and a page that is
\* not full reaches the frame that waits.
LEMMA FetchRingFollows ==
    ASSUME Following, LogInv, StreamInv, StreamInv', FollowInv, FetchRing
    PROVE  FollowInv'
<1> DEFINE page == Page(Later(Cursor))
<1> DEFINE S == Genuine(next[Viewed])
<1> DEFINE missing == {f \in fetched \union page : f.number < ingest.number}
<1>1. next[Viewed] \in Nat /\ TypeOK /\ LogPart /\ WirePart /\ ScreenPart
  BY NextIsNat DEF FollowInv
<1>2. /\ asking /\ got' = {}
      /\ UNCHANGED <<vars, server, received, fetchFails>>
  BY DEF FetchRing
<1>3. UNCHANGED <<up, captured, next, issued, restored, read, inbox, calls, received>>
  BY <1>2 DEF vars, memory, server
<1>4. LogPart' /\ WirePart'
  BY <1>1, <1>3, WireStays DEF LogPart, Given
<1>5. Replay(got, Cursor) = page
  <2>1. got \in SUBSET Later(Cursor)
    BY <1>1 DEF StreamInv, BrowserInv, ScreenPart, Later
  <2>q. QED
    BY <1>1, <2>1, ReplayIsLater
<1>6. IF Cardinality(page) = PageLimit
      THEN /\ fetched' = fetched \union page
           /\ UNCHANGED <<last, shown, ingest>>
      ELSE /\ Show(missing \union {ingest})
           /\ ingest' = NoFrame
           /\ fetched' = {}
  BY <1>5 DEF FetchRing
<1>7. /\ page \in SUBSET S /\ page \in SUBSET Later(Cursor) /\ Distinct(page)
      /\ Cardinality(page) # PageLimit => page = Later(Cursor)
      /\ \A f \in page : f.number > Cursor /\ f.number \in Given
  <2> DEFINE every == Later(Cursor)
  <2>1. /\ every \in SUBSET Numbered /\ Distinct(every) /\ Page(every) \in SUBSET every
        /\ \A f \in every : f.number > Cursor /\ f.number \in Given
    BY LaterIs
  <2>2. every \in SUBSET S
    BY DEF Later
  <2> HIDE DEF every, S
  <2>3. Cardinality(Page(every)) # PageLimit => Page(every) = every
    BY <2>1, PageOrAll
  <2>4. /\ Page(every) \in SUBSET S /\ Distinct(Page(every))
        /\ \A f \in Page(every) : f.number > Cursor /\ f.number \in Given
    BY <2>1, <2>2 DEF Distinct
  <2>q. QED
    BY <2>1, <2>3, <2>4 DEF every
\* The page goes on where the fetch was.
<1>8. ASSUME NEW f \in page, NEW k \in Numbers, k > Cursor, k <= f.number
      PROVE  \E g \in page : g.number = k
  <2>1. /\ Later(Cursor) \in SUBSET Numbered /\ Distinct(Later(Cursor))
        /\ \A n \in Given : n > Cursor => \E g \in Later(Cursor) : g.number = n
    BY LaterIs
  <2>2. k \in Given
    BY <1>1, <1>7, <1>8, FramesFinite DEF Given
  <2>3. PICK g \in Later(Cursor) : g.number = k
    BY <1>8, <2>1, <2>2
  <2>4. g \in page
    BY <1>8, <2>1, <2>3, PageIsBelow
  <2>q. QED
    BY <2>3, <2>4
<1>9. /\ Cursor \in Nat /\ last \in Nat /\ last <= Cursor
      /\ \A f \in fetched : f.number <= Cursor
      /\ fetched \in SUBSET S /\ Distinct(fetched)
      /\ ingest \in S /\ ingest.number \in Nat /\ ingest.number < next[Viewed]
      /\ \A k \in Numbers : (last < k /\ k <= Cursor) => \E f \in fetched : f.number = k
  <2>1. Cursor \in 0..MaxFrames /\ last <= Cursor /\ \A f \in fetched : f.number <= Cursor
    BY CursorIs
  <2>2. last \in Nat /\ Distinct(fetched) /\ ingest # NoFrame
    BY <1>2, NumberedIs DEF StreamInv, StreamTypeOK, BrowserInv
  <2>3. fetched \in SUBSET S /\ ingest \in S
    BY <1>1, <2>2 DEF ScreenPart
  <2>4. ingest.number \in Nat /\ ingest.number < next[Viewed]
    BY <2>3, NumberedIs DEF Genuine
  <2>q. QED
    BY <1>1, <2>1, <2>2, <2>3, <2>4, NumberedIs DEF ScreenPart
<1> HIDE DEF page
<1>10. CASE Cardinality(page) = PageLimit
  <2>1. fetched' = fetched \union page /\ UNCHANGED <<last, shown, ingest>>
    BY <1>6, <1>10
  <2>2. ASSUME NEW k \in Numbers, last < k, k <= Cursor'
        PROVE  \E f \in fetched' : f.number = k
    <3>0. k \in Nat
      BY FramesFinite
    <3>1. Cursor' \in 0..MaxFrames /\ (Cursor' = last' \/ \E f \in fetched' : Cursor' = f.number)
      BY CursorNext DEF CursorFacts
    <3>2. CASE k <= Cursor
      BY <1>9, <2>1, <2>2, <3>2
    <3>3. CASE k > Cursor
      <4>1. PICK f \in fetched' : Cursor' = f.number
        BY <1>9, <2>1, <2>2, <3>0, <3>1, <3>3
      <4>2. f \notin fetched
        BY <1>9, <2>2, <3>0, <3>1, <3>3, <4>1
      <4>3. f \in page
        BY <2>1, <4>1, <4>2
      <4>q. QED
        BY <1>8, <2>1, <2>2, <3>3, <4>1, <4>3
    <3>q. QED
      BY <1>9, <3>0, <3>2, <3>3
  <2>3. ScreenPart'
    BY <1>1, <1>2, <1>3, <1>7, <2>1, <2>2 DEF ScreenPart
  <2>q. QED
    BY <1>4, <2>3 DEF FollowInv
<1>11. CASE Cardinality(page) # PageLimit
  <2> DEFINE fs == missing \union {ingest}
  <2>1. Show(fs) /\ ingest' = NoFrame /\ fetched' = {}
    BY <1>6, <1>11
  <2>2. fs \in SUBSET S
    BY <1>7, <1>9
  <2>3. Distinct(fs)
    <3>1. Distinct(fetched \union page)
      <4>1. \A f \in fetched, g \in page : f.number # g.number
        <5>1. ASSUME NEW f \in fetched, NEW g \in page PROVE f.number # g.number
          <6>1. g.number \in Nat /\ f.number \in Nat
            BY <1>7, <1>9, NumberedIs DEF Genuine
          <6>q. QED
            BY <1>7, <1>9, <6>1
        <5>q. QED
          BY <5>1
      <4>q. QED
        BY <1>7, <1>9, <4>1 DEF Distinct
    <3>2. \A f \in missing : f \in fetched \union page /\ f.number # ingest.number
      <4>1. \A f \in fetched \union page : f.number \in Nat
        BY <1>7, <1>9, NumberedIs DEF Genuine
      <4>q. QED
        BY <1>9, <4>1
    <3>q. QED
      BY <3>1, <3>2 DEF Distinct
  <2>4. ASSUME NEW f \in fs, NEW k \in Numbers, last < k, k <= f.number
        PROVE  \E g \in fs : g.number = k
    <3>1. k \in Nat /\ f.number \in Nat /\ f.number <= ingest.number
      <4>1. f \in S /\ (f = ingest \/ f.number < ingest.number)
        BY <2>2, <2>4
      <4>2. f.number \in Nat
        BY <4>1, NumberedIs DEF Genuine
      <4>q. QED
        BY <1>9, <4>1, <4>2, FramesFinite
    <3>2. CASE k = ingest.number
      BY <3>2
    <3>3. CASE k < ingest.number
      <4>1. \E g \in fetched \union page : g.number = k
        <5>1. CASE k <= Cursor
          BY <1>9, <2>4, <5>1
        <5>2. CASE k > Cursor
          <6>1. k \in Given
            BY <1>1, <1>9, <3>1, <3>3 DEF Given
          <6>2. \E g \in Later(Cursor) : g.number = k
            BY <5>2, <6>1, LaterIs
          <6>q. QED
            BY <1>7, <1>11, <6>2
        <5>q. QED
          BY <1>9, <3>1, <5>1, <5>2
      <4>q. QED
        BY <3>3, <4>1
    <3>q. QED
      BY <1>9, <2>4, <3>1, <3>2, <3>3
  <2> HIDE DEF fs, missing
  <2>5. last' < next[Viewed] /\ \A n \in Numbers : shown'[n] = IF n <= last' THEN n ELSE 0
    BY <1>1, <2>1, <2>2, <2>3, <2>4, ShowFollows
  <2>6. \A k \in Numbers : ~(last' < k /\ k <= Cursor')
    <3>1. last' \in Nat /\ Cursor' = last'
      BY <2>1, CursorNext, NumberedIs DEF CursorFacts, StreamInv, StreamTypeOK
    <3>q. QED
      BY <3>1, FramesFinite
  <2>7. ScreenPart'
    BY <1>1, <1>2, <1>3, <2>1, <2>5, <2>6 DEF ScreenPart
  <2>q. QED
    BY <1>4, <2>7 DEF FollowInv
<1>q. QED
  BY <1>10, <1>11

\* FollowInv holds at the start.
LEMMA FollowInit == StreamInit => FollowInv
<1>1. SUFFICES ASSUME StreamInit PROVE FollowInv
  OBVIOUS
<1>2. /\ up /\ captured = [r \in Runs |-> 0] /\ next = [r \in Runs |-> 1]
      /\ restored = [r \in Runs |-> 0] /\ Viewed \in Runs
  BY <1>1, StreamBounds DEF StreamInit, Init
<1>3. LogPart
  BY <1>2, FramesFinite DEF LogPart, Given
<1>4. /\ read = {} /\ received = <<>> /\ inbox = <<>> /\ calls = <<>> /\ last = 0
      /\ shown = [n \in Numbers |-> 0] /\ fetched = {} /\ got = {} /\ ingest = NoFrame
      /\ fetchFails = 0
  BY <1>1 DEF StreamInit
<1>5. WirePart
  BY <1>4 DEF WirePart
<1>6. \A k \in Numbers : ~(last < k /\ k <= Cursor)
  <2>1. Cursor = 0
    BY <1>1, <1>4, CursorIs, StreamInvInit
  <2>q. QED
    BY <1>4, <2>1, FramesFinite
<1>7. ScreenPart
  BY <1>2, <1>4, <1>6, FramesFinite DEF ScreenPart
<1>q. QED
  BY <1>3, <1>5, <1>7 DEF FollowInv

\* Every step keeps FollowInv.
LEMMA FollowStep ==
    ASSUME Following, LogInv, IssuedInv, StreamInv, StreamInv', FollowInv, [StreamNext]_all
    PROVE  FollowInv'
<1>1. CASE \E r \in Runs : PublishFrames(r)
  BY <1>1, PublishFollows
<1>2. CASE LogSteps \/ UNCHANGED all
  BY <1>2, LogFollows
<1>3. CASE Server \/ Disconnect
  BY <1>3, ServerFollows
<1>4. CASE Browser
  BY <1>4, ReceiveFollows, FetchRowsFollows, FetchRingFollows, FetchFailsFollows DEF Browser
<1>q. QED
  BY <1>1, <1>2, <1>3, <1>4, NoEnd DEF StreamNext

\* FollowInv holds of every reachable state.
LEMMA FollowInvariance ==
    ASSUME Following
    PROVE  StreamSpec => [](LogInv /\ IssuedInv /\ StreamInv /\ FollowInv)
<1>1. StreamInit => FollowInv
  BY FollowInit
<1>2. LogInv /\ IssuedInv /\ StreamInv /\ StreamInv' /\ FollowInv /\ [StreamNext]_all
        => FollowInv'
  BY FollowStep
<1>q. QED
  BY <1>1, <1>2, StreamInvariance, PTL DEF StreamSpec

\* As long as the ring keeps the frames and the process lives, frames are shown in the
\* order they were captured in, each once, whatever connections drop, subscriptions
\* overflow, pages fill and fetches fail (stream_frames, ingestFrame, getFrames).
THEOREM FramesAreShownInOrder ==
    ASSUME Following
    PROVE  StreamSpec => ShownInOrder
<1>1. StreamInv /\ FollowInv /\ FollowInv' =>
        \A n \in Numbers : shown[n] = 0 /\ shown'[n] # 0 =>
            \A m \in Numbers : shown[m] # 0 => shown[m] < shown'[n]
  <2>1. SUFFICES ASSUME StreamInv, FollowInv, FollowInv', NEW n \in Numbers, shown[n] = 0, shown'[n] # 0,
                        NEW m \in Numbers, shown[m] # 0
                 PROVE  shown[m] < shown'[n]
    OBVIOUS
  <2>2. shown[m] = m /\ m <= last
    BY <2>1 DEF FollowInv, ScreenPart
  <2>3. ~(n <= last) /\ shown'[n] = n
    <3>1. n # 0
      BY FramesFinite
    <3>q. QED
      BY <2>1, <3>1 DEF FollowInv, ScreenPart
  <2>4. m < n
    <3>1. last \in Nat /\ n \in Nat /\ m \in Nat
      BY <2>1, NumberedIs, FramesFinite DEF StreamInv, StreamTypeOK
    <3>q. QED
      BY <2>2, <2>3, <3>1
  <2>q. QED
    BY <2>2, <2>3, <2>4
<1>q. QED
  BY <1>1, FollowInvariance, PTL DEF ShownInOrder

-----------------------------------------------------------------------------
(* With pages that take all there is and fetches that do not fail, what    *)
(* was published reaches the screen.                                       *)

\* A page takes all there is, and no fetch fails.
Untruncated == PageLimit >= MaxFrames /\ MaxFetchFails = 0

\* The last of a sequence.
Final(s) == s[Len(s)]

\* The numbers the subscribers were told of.
Out == {n \in Given : n \in hand[Viewed] => Viewed \in published}

\* A handler holds the newest numbers.
HandInv ==
    /\ Viewed \in published => hand[Viewed] # {}
    /\ hand[Viewed] # {} => next[Viewed] - 1 \in hand[Viewed]

\* The last frame on its way to the socket is the newest that was published; when
\* nothing is on its way, all of it was sent.
WaitInv ==
    /\ calls \in Seq(Seq(Numbered) \ {<<>>})
    /\ handler = "off" => calls = <<>>
    /\ handler # "stream" => inbox = <<>>
    /\ calls # <<>> => \A n \in Out : n <= Final(Final(calls)).number
    /\ (handler = "stream" /\ calls = <<>>) =>
          \A n \in Out : n <= IF inbox # <<>> THEN Final(inbox).number ELSE sent

\* What was sent is on the screen, being fetched, or on its way to the browser.
ReachInv ==
    handler # "off" => \/ sent <= last
                       \/ sent <= ingest.number
                       \/ \E i \in 1..Len(received) : sent <= received[i].number

\* The invariant for a browser that catches up.
CatchInv == HandInv /\ WaitInv /\ ReachInv

\* Only publishing adds to what the subscribers were told of.
LEMMA HandStep ==
    ASSUME Following, LogInv, LogPart, HandInv, [Next]_vars
    PROVE  HandInv' /\ (Out' \subseteq Out \/ Publish(Viewed))
<1>0. TypeOK /\ Viewed \in Runs /\ next[Viewed] \in Nat
  BY StreamBounds, NextIsNat DEF LogInv
<1>1. CASE UNCHANGED <<next, hand, published>>
  BY <1>1 DEF HandInv, Out, Given
<1>2. ASSUME NEW r \in Runs, NEW k \in 1..MaxGroup, Capture(r, k)
      PROVE  HandInv' /\ Out' \subseteq Out
  <2>1. CASE r # Viewed
    <3>1. next'[Viewed] = next[Viewed] /\ hand'[Viewed] = hand[Viewed] /\ published' = published
      BY <1>0, <1>2, <2>1 DEF Capture, TypeOK
    <3>q. QED
      BY <3>1 DEF HandInv, Out, Given
  <2>2. CASE r = Viewed
    <3>1. /\ next'[Viewed] = next[Viewed] + k
          /\ hand'[Viewed] = next[Viewed]..(next[Viewed] + k - 1)
          /\ published' = published /\ hand[Viewed] = {}
      BY <1>0, <1>2, <2>2 DEF Capture, TypeOK
    <3>2. k \in Nat /\ k > 0
      <4>1. MaxGroup \in Nat
        BY FrameBounds
      <4>q. QED
        BY <1>2, <4>1
    <3>3. Viewed \notin published
      BY <3>1 DEF HandInv
    <3>4. next'[Viewed] - 1 \in hand'[Viewed] /\ hand'[Viewed] # {}
      BY <1>0, <3>1, <3>2
    <3>5. ASSUME NEW n \in Out' PROVE n \in Out
      <4>1. n \in Numbers /\ n \in Nat /\ n < next'[Viewed] /\ n \notin hand'[Viewed]
        BY <3>1, <3>3, FramesFinite DEF Out, Given
      <4>2. n < next[Viewed]
        BY <1>0, <3>1, <3>2, <4>1
      <4>q. QED
        BY <3>1, <4>1, <4>2 DEF Out, Given
    <3>q. QED
      BY <3>1, <3>3, <3>4, <3>5 DEF HandInv
  <2>q. QED
    BY <2>1, <2>2
<1>3. ~Restart
  BY DEF Restart, LogPart
<1>4. ~ProcessEnds
  <2>1. ends \in Nat /\ MaxEnds = 0
    BY <1>0 DEF TypeOK, Following
  <2>q. QED
    BY <2>1 DEF ProcessEnds
<1>5. ASSUME NEW r \in Runs, Publish(r) PROVE HandInv' /\ (Out' \subseteq Out \/ Publish(Viewed))
  BY <1>5 DEF Publish, HandInv, Out, Given
<1>6. ASSUME NEW r \in Runs, Enqueue(r) PROVE HandInv' /\ Out' \subseteq Out
  <2>1. hand' = [hand EXCEPT ![r] = {}] /\ published' = published \ {r} /\ next' = next
        /\ r \in published
    BY <1>6 DEF Enqueue
  <2>2. CASE r = Viewed
    <3>1. hand'[Viewed] = {} /\ Viewed \notin published' /\ Viewed \in published
      BY <1>0, <2>1, <2>2 DEF TypeOK
    <3>q. QED
      BY <2>1, <3>1 DEF HandInv, Out, Given
  <2>3. CASE r # Viewed
    <3>1. hand'[Viewed] = hand[Viewed] /\ (Viewed \in published' <=> Viewed \in published)
      BY <1>0, <2>1, <2>3 DEF TypeOK
    <3>q. QED
      BY <2>1, <3>1 DEF HandInv, Out, Given
  <2>q. QED
    BY <2>2, <2>3
<1>7. CASE UNCHANGED vars
  BY <1>1, <1>7 DEF vars, memory
<1>8. CASE Writer \/ AppendFails \/ Closing
  BY <1>1, <1>8
     DEF Writer, TakeFrames, BatchDue, TakeMarker, AppendFrames, WriteDone,
         Drain, AppendFails, Closing, CloseFlush, FlushTimeout, ClosePill, CloseJoin
<1>q. QED
  BY <1>2, <1>3, <1>4, <1>5, <1>6, <1>7, <1>8 DEF Next, Handlers

\* A page takes all there is.
LEMMA WholePage ==
    ASSUME Untruncated, NEW fs \in SUBSET Numbered, Distinct(fs)
    PROVE  Page(fs) = fs
<1> DEFINE M == {f.number : f \in fs}
<1>1. Cardinality(M) = Cardinality(fs) /\ Cardinality(M) \in Nat
  BY NumbersOfFrames
<1>2. M \in SUBSET Numbers
  BY NumberedIs
<1> HIDE DEF M
<1>3. IsFiniteSet(Numbers) /\ Cardinality(Numbers) = MaxFrames /\ MaxFrames \in Nat
  BY FramesFinite, FS_Interval
<1>4. Cardinality(M) <= Cardinality(Numbers)
  BY <1>2, <1>3, FS_Subset
<1>5. PageLimit >= MaxFrames /\ PageLimit \in Nat
  BY StreamBounds DEF Untruncated
<1>6. \A f \in fs : Before(fs, f) \in 0..(Cardinality(fs) - 1)
  BY FrameRanks
<1>7. \A f \in fs : Before(fs, f) < PageLimit
  BY <1>1, <1>3, <1>4, <1>5, <1>6
<1>q. QED
  BY <1>7 DEF Page

\* Showing frames brings the cursor up to each of them.
LEMMA ShowReaches ==
    ASSUME StreamInv, NEW fs \in SUBSET Numbered, Show(fs)
    PROVE  last' \in Nat /\ last <= last' /\ \A f \in fs : f.number <= last'
<1> DEFINE new == {f \in fs : shown[f.number] = 0}
<1>1. last' = Max({last} \union {f.number : f \in new})
  BY DEF Show
<1>2. /\ new \in SUBSET Numbered
      /\ \A f \in fs : f \in new \/ shown[f.number] # 0
  OBVIOUS
<1>3. last \in 0..MaxFrames /\ \A n \in Numbers : shown[n] # 0 => n <= last
  BY DEF StreamInv, StreamTypeOK, BrowserInv
<1> HIDE DEF new
<1>4. last' \in 0..MaxFrames /\ last <= last' /\ \A f \in new : f.number <= last'
  BY <1>1, <1>2, <1>3, MaxOfFrames
<1>5. \A f \in fs : f.number \in Numbers /\ f.number \in Nat
  BY NumberedIs
<1>6. last \in Nat /\ last' \in Nat
  BY <1>3, <1>4, NumberedIs
<1>q. QED
  BY <1>2, <1>3, <1>4, <1>5, <1>6

\* The last of a queue stays the last when the head is taken.
LEMMA FinalIs ==
    ASSUME NEW S, NEW s \in Seq(S), s # <<>>
    PROVE  /\ Final(s) \in S /\ Len(s) \in Nat /\ Len(s) > 0
           /\ Tail(s) # <<>> => Final(Tail(s)) = Final(s)
           /\ Tail(s) = <<>> => Head(s) = Final(s)
<1>1. /\ Head(s) = s[1] /\ Tail(s) \in Seq(S) /\ Len(Tail(s)) = Len(s) - 1
      /\ \A i \in 1..Len(Tail(s)) : Tail(s)[i] = s[i + 1]
  BY HeadTailProperties
<1>2. Len(s) \in Nat /\ Len(s) > 0
  OBVIOUS
<1>3. Final(s) \in S
  BY <1>2 DEF Final
<1>4. ASSUME Tail(s) # <<>> PROVE Final(Tail(s)) = Final(s)
  <2>1. Len(Tail(s)) > 0
    BY <1>1, <1>4
  <2>2. Len(Tail(s)) \in 1..Len(Tail(s)) /\ Len(Tail(s)) + 1 = Len(s)
    BY <1>1, <1>2, <2>1
  <2>q. QED
    BY <1>1, <2>2 DEF Final
<1>5. ASSUME Tail(s) = <<>> PROVE Head(s) = Final(s)
  <2>1. Len(<<>>) = 0
    OBVIOUS
  <2>2. Len(Tail(s)) = 0
    BY <1>5, <2>1
  <2>3. Len(s) - 1 = 0
    BY <1>1, <2>2
  <2>4. Len(s) = 1
    BY <1>2, <2>3
  <2>q. QED
    BY <1>1, <2>4 DEF Final
<1>q. QED
  BY <1>2, <1>3, <1>4, <1>5

\* Steps of the log, and what a subscription gets of it.
LEMMA LogCatches ==
    ASSUME Following, LogInv, LogPart, IssuedInv, StreamInv, CatchInv,
           LogSteps \/ UNCHANGED all \/ \E r \in Runs : PublishFrames(r)
    PROVE  CatchInv'
<1>1. [Next]_vars
  BY StreamStepsLog DEF StreamNext, LogSteps, all
<1>2. HandInv' /\ (Out' \subseteq Out \/ Publish(Viewed))
  BY <1>1, HandStep DEF CatchInv
<1>3. UNCHANGED <<handler, sent, inbox, received, last, ingest>>
  BY DEF LogSteps, all, stream, server, client, PublishFrames
<1>4. ReachInv'
  BY <1>3 DEF CatchInv, ReachInv
<1>5. CASE Out' \subseteq Out /\ calls' = calls
  <2>1. WaitInv'
    BY <1>3, <1>5 DEF CatchInv, WaitInv
  <2>q. QED
    BY <1>2, <1>4, <2>1 DEF CatchInv
<1>6. CASE PublishFrames(Viewed)
  <2>1. /\ up /\ hand[Viewed] # {} /\ UNCHANGED <<next, issued, hand>>
        /\ calls' = IF handler # "off" THEN Append(calls, InOrder(Issued(hand[Viewed]))) ELSE calls
    BY <1>6 DEF PublishFrames, Publish
  <2> DEFINE fs == Issued(hand[Viewed])
  <2>2. /\ fs \in SUBSET Numbered /\ Distinct(fs)
        /\ \E f \in fs : f.number = next[Viewed] - 1
    <3>1. hand[Viewed] \in SUBSET Given /\ TypeOK
      BY <2>1, HandsAreGiven, NextIsNat
    <3>2. next[Viewed] - 1 \in hand[Viewed]
      BY <2>1 DEF CatchInv, HandInv
    <3>q. QED
      BY <3>1, <3>2, IssuedFrames
  <2>3. ASSUME NEW n \in Out' PROVE n \in Nat /\ n <= next[Viewed] - 1
    <3>1. n \in Numbers /\ n < next[Viewed]
      BY <2>1, <2>3 DEF Out, Given
    <3>q. QED
      BY <3>1, FramesFinite, NextIsNat
  <2> DEFINE group == InOrder(fs)
  <2>4. handler # "off" => calls' = Append(calls, group)
    BY <2>1
  <2>4a. handler = "off" => calls' = calls
    BY <2>1
  <2> HIDE DEF fs
  <2>5. /\ group \in Seq(Numbered) /\ group # <<>>
        /\ Final(group).number \in Nat /\ next[Viewed] - 1 <= Final(group).number
    <3>1. PICK f \in fs : f.number = next[Viewed] - 1
      BY <2>2
    <3>2. /\ group \in Seq(Numbered) /\ Len(group) = Cardinality(fs) /\ Cardinality(fs) \in Nat
          /\ f.number <= group[Cardinality(fs)].number
          /\ \E i \in 1..Cardinality(fs) : group[i] = f
      BY <2>2, InOrderIsSeq
    <3> HIDE DEF group
    <3>3. Len(group) > 0 /\ group # <<>>
      BY <3>2
    <3>4. Final(group) \in Numbered
      BY <3>2, <3>3, FinalIs
    <3>q. QED
      BY <3>1, <3>2, <3>3, <3>4, NumberedIs DEF Final
  <2> HIDE DEF group
  <2>6. CASE handler = "off"
    <3>1. WaitInv'
      BY <1>3, <2>4a, <2>6 DEF CatchInv, WaitInv
    <3>q. QED
      BY <1>2, <1>4, <3>1 DEF CatchInv
  <2>7. CASE handler # "off"
    <3> DEFINE Groups == Seq(Numbered) \ {<<>>}
    <3>1. group \in Groups /\ calls \in Seq(Groups) /\ calls' = Append(calls, group)
      BY <2>4, <2>5, <2>7 DEF CatchInv, WaitInv
    <3> HIDE DEF Groups
    <3>2. calls' \in Seq(Groups) /\ calls' # <<>> /\ Final(calls') = group
      <4>1. /\ calls' \in Seq(Groups) /\ Len(calls') = Len(calls) + 1
            /\ calls'[Len(calls) + 1] = group /\ Len(calls) \in Nat
        BY <3>1, AppendProperties
      <4>2. calls' # <<>>
        BY <4>1
      <4>q. QED
        BY <4>1, <4>2 DEF Final
    <3>3. \A n \in Out' : n <= Final(Final(calls')).number
      <4>1. next[Viewed] - 1 \in Nat
        BY NextIsNat, NumberedIs
      <4>q. QED
        BY <2>3, <2>5, <3>2, <4>1
    <3>4. calls' \in Seq(Seq(Numbered) \ {<<>>})
      BY <3>2 DEF Groups
    <3>5. WaitInv'
      BY <1>3, <2>7, <3>2, <3>3, <3>4 DEF CatchInv, WaitInv
    <3>q. QED
      BY <1>2, <1>4, <3>5 DEF CatchInv
  <2>q. QED
    BY <1>2, <1>4, <2>6, <2>7 DEF CatchInv
<1>7. CASE LogSteps \/ UNCHANGED all
  <2>1. published' \subseteq published /\ calls' = calls
    BY <1>7
       DEF LogSteps, all, vars, memory, stream, server, Capture, Enqueue, Writer, TakeFrames,
           BatchDue, TakeMarker, AppendFrames, WriteDone, Drain, AppendFails, CloseFlush,
           FlushTimeout, ClosePill, CloseJoin, Restart
  <2>2. ~Publish(Viewed)
    BY <2>1 DEF Publish
  <2>q. QED
    BY <1>2, <1>5, <2>1, <2>2
<1>8. ASSUME NEW r \in Runs, PublishFrames(r), r # Viewed PROVE CatchInv'
  <2>1. ~Publish(Viewed) /\ calls' = calls
    BY <1>8 DEF PublishFrames, Publish
  <2>q. QED
    BY <1>2, <1>5, <2>1
<1>q. QED
  BY <1>6, <1>7, <1>8

\* Steps of the server's side of the connection.
LEMMA ServerCatches ==
    ASSUME Following, Untruncated, LogInv, StreamInv, StreamInv', FollowInv, CatchInv,
           Server \/ Disconnect
    PROVE  CatchInv'
<1>1. UNCHANGED <<vars, client>>
  BY DEF Server, Connect, ReplayRows, ReplayRing, Deliver, Forward, Disconnect
<1>2. UNCHANGED <<next, hand, published, last, ingest>>
  BY <1>1 DEF vars, memory, client
<1>3. HandInv' /\ Out' = Out
  BY <1>2 DEF CatchInv, HandInv, Out, Given
<1>4. /\ received \in Seq(Numbered) /\ inbox \in Seq(Numbered) /\ sent \in Nat /\ last \in Nat
      /\ calls \in Seq(Seq(Numbered) \ {<<>>})
  BY NumberedIs DEF StreamInv, StreamTypeOK, CatchInv, WaitInv
<1>5. CASE Connect
  <2>1. handler = "off" /\ handler' = "subscribed" /\ sent' = last
        /\ UNCHANGED <<calls, inbox, received>>
    BY <1>5 DEF Connect
  <2>2. WaitInv'
    BY <1>3, <2>1 DEF CatchInv, WaitInv
  <2>3. ReachInv'
    BY <1>2, <1>4, <2>1 DEF ReachInv
  <2>q. QED
    BY <1>3, <2>2, <2>3 DEF CatchInv
<1>6. CASE ReplayRows
  <2>1. handler = "subscribed" /\ handler' = "read" /\ UNCHANGED <<sent, calls, inbox, received>>
    BY <1>6 DEF ReplayRows
  <2>2. WaitInv'
    BY <1>3, <2>1 DEF CatchInv, WaitInv
  <2>3. ReachInv'
    BY <1>2, <2>1 DEF CatchInv, ReachInv
  <2>q. QED
    BY <1>3, <2>2, <2>3 DEF CatchInv
<1>7. CASE ReplayRing
  <2> DEFINE page == Later(sent)
  <2>1. Replay(read, sent) = page
    <3>1. read \in SUBSET Later(sent)
      BY DEF StreamInv, ServerInv, FollowInv, WirePart, Later
    <3>2. TypeOK /\ LogPart
      BY NextIsNat DEF FollowInv
    <3>3. Replay(read, sent) = Page(Later(sent))
      BY <3>1, <3>2, ReplayIsLater
    <3>q. QED
      BY <3>3, LaterIs, WholePage
  <2>2. /\ handler = "read" /\ handler' = "stream" /\ UNCHANGED <<calls, inbox>>
        /\ received' = received \o InOrder(page)
        /\ sent' = Max({sent} \union {f.number : f \in page})
    BY <1>7, <2>1 DEF ReplayRing
  <2>3. /\ page \in SUBSET Numbered /\ Distinct(page)
        /\ \A n \in Given : n > sent => \E f \in page : f.number = n
    BY LaterIs
  <2> HIDE DEF page
  <2>4. /\ sent' \in 0..MaxFrames /\ sent <= sent' /\ \A f \in page : f.number <= sent'
        /\ sent' = sent \/ \E f \in page : sent' = f.number
    <3>1. sent \in 0..MaxFrames
      BY DEF StreamInv, StreamTypeOK
    <3>q. QED
      BY <2>2, <2>3, <3>1, MaxOfFrames
  <2>5. ASSUME NEW n \in Out PROVE n <= sent'
    <3>1. n \in Given /\ n \in Nat
      BY <2>5, FramesFinite DEF Out, Given
    <3>2. CASE n > sent
      BY <2>3, <2>4, <3>1, <3>2
    <3>3. CASE n <= sent
      BY <1>4, <2>4, <3>1, <3>3, NumberedIs
    <3>q. QED
      BY <1>4, <3>1, <3>2, <3>3
  <2>6. inbox = <<>>
    BY <2>2 DEF CatchInv, WaitInv
  <2>7. WaitInv'
    BY <1>3, <1>4, <2>2, <2>5, <2>6 DEF CatchInv, WaitInv
  <2>8. ReachInv'
    <3> DEFINE group == InOrder(page)
    <3>1. group \in Seq(Numbered) /\ \A f \in page : \E i \in 1..Len(group) : group[i] = f
      BY <2>3, InOrderIsSeq
    <3>2. received' = received \o group
      BY <2>2
    <3> HIDE DEF group
    <3>3. /\ Len(received') = Len(received) + Len(group)
          /\ \A i \in 1 .. Len(received) + Len(group) : received'[i] =
                IF i <= Len(received) THEN received[i] ELSE group[i - Len(received)]
          /\ Len(received) \in Nat /\ Len(group) \in Nat
      BY <1>4, <3>1, <3>2, ConcatProperties
    <3>4. CASE sent' = sent
      <4>1. \A i \in 1..Len(received) : i \in 1..Len(received') /\ received'[i] = received[i]
        BY <3>3
      <4>2. \/ sent <= last \/ sent <= ingest.number
            \/ \E i \in 1..Len(received) : sent <= received[i].number
        BY <2>2 DEF CatchInv, ReachInv
      <4>q. QED
        BY <1>2, <3>4, <4>1, <4>2 DEF ReachInv
    <3>5. ASSUME NEW f \in page, sent' = f.number PROVE ReachInv'
      <4>1. PICK i \in 1..Len(group) : group[i] = f
        BY <3>1
      <4>2. i + Len(received) \in 1..Len(received') /\ received'[i + Len(received)] = f
        <5>1. /\ i + Len(received) \in 1 .. Len(received) + Len(group)
              /\ ~(i + Len(received) <= Len(received)) /\ i + Len(received) - Len(received) = i
          BY <3>3
        <5>q. QED
          BY <3>3, <4>1, <5>1
      <4>3. sent' <= received'[i + Len(received)].number
        BY <2>4, <3>5, <4>2, NumberedIs
      <4>q. QED
        BY <4>2, <4>3 DEF ReachInv
    <3>q. QED
      BY <2>4, <3>4, <3>5
  <2>q. QED
    BY <1>3, <2>7, <2>8 DEF CatchInv
<1>8. CASE Deliver
  <2>1. handler = "stream" /\ handler' = "stream" /\ UNCHANGED <<sent, received>>
    BY <1>8 DEF Deliver
  <2>2. ReachInv'
    BY <1>2, <2>1 DEF CatchInv, ReachInv
  <2> DEFINE Groups == Seq(Numbered) \ {<<>>}
  <2>3. calls \in Seq(Groups)
    BY <1>4
  <2>4. /\ calls # <<>> /\ calls' = Tail(calls) /\ inbox' \in Seq(Numbered)
        /\ Head(calls) # <<>> =>
              inbox' # <<>> /\ inbox'[Len(inbox')] = Head(calls)[Len(Head(calls))]
    <3>1. calls \in Seq(Seq(Numbered))
      BY DEF StreamInv, StreamTypeOK
    <3>q. QED
      BY <1>4, <1>8, <3>1, Delivered
  <2> HIDE DEF Groups
  <2>5. /\ calls' \in Seq(Groups) /\ Head(calls) \in Groups
        /\ calls' # <<>> => Final(calls') = Final(calls)
        /\ calls' = <<>> => Head(calls) = Final(calls)
    BY <2>3, <2>4, TailTyped, FinalIs
  <2>6. Head(calls) # <<>> /\ calls' \in Seq(Seq(Numbered) \ {<<>>})
    BY <2>5 DEF Groups
  <2>7. \A n \in Out : n <= Final(Final(calls)).number
    BY <2>4 DEF CatchInv, WaitInv
  <2>8. CASE calls' # <<>>
    <3>1. WaitInv'
      BY <1>3, <2>1, <2>5, <2>6, <2>7, <2>8 DEF WaitInv
    <3>q. QED
      BY <1>3, <2>2, <3>1 DEF CatchInv
  <2>9. CASE calls' = <<>>
    <3>1. inbox' # <<>> /\ Final(inbox') = Final(Final(calls))
      BY <2>4, <2>5, <2>6, <2>9 DEF Final
    <3>2. WaitInv'
      BY <1>3, <2>1, <2>6, <2>7, <2>9, <3>1 DEF WaitInv
    <3>q. QED
      BY <1>3, <2>2, <3>2 DEF CatchInv
  <2>q. QED
    BY <2>8, <2>9
<1>9. CASE Forward
  <2>1. /\ handler = "stream" /\ handler' = "stream" /\ inbox # <<>> /\ inbox' = Tail(inbox)
        /\ calls' = calls
        /\ IF Head(inbox).number <= sent
           THEN UNCHANGED <<sent, received>>
           ELSE received' = Append(received, Head(inbox)) /\ sent' = Head(inbox).number
    BY <1>9 DEF Forward
  <2>2. /\ Head(inbox) \in Numbered /\ Head(inbox).number \in Nat
        /\ inbox' # <<>> => Final(inbox') = Final(inbox)
        /\ inbox' = <<>> => Head(inbox) = Final(inbox)
    BY <1>4, <2>1, TailTyped, FinalIs, NumberedIs
  <2>3. sent' \in Nat /\ Head(inbox).number <= sent' /\ sent <= sent'
    BY <1>4, <2>1, <2>2
  <2>4. WaitInv'
    <3>1. calls = <<>> => \A n \in Out : n <= Final(inbox).number
      BY <2>1 DEF CatchInv, WaitInv
    <3>2. \A n \in Out : n \in Nat
      BY FramesFinite DEF Out, Given
    <3>3. ASSUME calls = <<>>, inbox' = <<>>, NEW n \in Out PROVE n <= sent'
      BY <2>2, <2>3, <3>1, <3>2, <3>3
    <3>4. ASSUME calls = <<>>, inbox' # <<>>, NEW n \in Out PROVE n <= Final(inbox').number
      BY <2>2, <3>1, <3>4
    <3>q. QED
      BY <1>3, <2>1, <3>3, <3>4 DEF CatchInv, WaitInv
  <2>5. ReachInv'
    <3>1. CASE Head(inbox).number <= sent
      BY <1>2, <2>1, <3>1 DEF CatchInv, ReachInv
    <3>2. CASE ~(Head(inbox).number <= sent)
      <4>1. received' = Append(received, Head(inbox)) /\ sent' = Head(inbox).number
        BY <2>1, <3>2
      <4>2. /\ Len(received') = Len(received) + 1 /\ Len(received) \in Nat
            /\ received'[Len(received) + 1] = Head(inbox)
        BY <1>4, <2>2, <4>1, AppendProperties
      <4>3. Len(received) + 1 \in 1..Len(received')
        BY <4>2
      <4>4. sent' <= received'[Len(received) + 1].number
        BY <2>2, <4>1, <4>2
      <4>q. QED
        BY <4>3, <4>4 DEF ReachInv
    <3>q. QED
      BY <3>1, <3>2
  <2>q. QED
    BY <1>3, <2>4, <2>5 DEF CatchInv
<1>10. CASE Disconnect
  <2>1. handler' = "off" /\ calls' = <<>> /\ inbox' = <<>>
    BY <1>10 DEF Disconnect, Hangup
  <2>q. QED
    BY <1>3, <2>1 DEF CatchInv, WaitInv, ReachInv
<1>q. QED
  BY <1>5, <1>6, <1>7, <1>8, <1>9, <1>10 DEF Server

\* Steps of the browser.
LEMMA BrowserCatches ==
    ASSUME Untruncated, LogInv, IssuedInv, StreamInv, FollowInv, CatchInv, Browser
    PROVE  CatchInv'
<1>1. UNCHANGED <<vars, server>>
  BY DEF Browser, Receive, FetchRows, FetchRing, FetchFails
<1>2. UNCHANGED <<next, hand, published, handler, sent, calls, inbox>>
  BY <1>1 DEF vars, memory, server
<1>3. HandInv' /\ Out' = Out
  BY <1>2 DEF CatchInv, HandInv, Out, Given
<1>4. WaitInv'
  BY <1>2, <1>3 DEF CatchInv, WaitInv
<1>5. /\ received \in Seq(Numbered) /\ sent \in Nat /\ last \in Nat
      /\ ingest \in Numbered \union {NoFrame} /\ ingest.number \in Nat
  BY NumberedIs DEF StreamInv, StreamTypeOK
<1>6. SUFFICES ASSUME handler # "off" PROVE ReachInv'
  BY <1>2, <1>3, <1>4 DEF CatchInv, ReachInv
<1>7. \/ sent <= last \/ sent <= ingest.number
      \/ \E i \in 1..Len(received) : sent <= received[i].number
  BY <1>6 DEF CatchInv, ReachInv
<1>8. CASE Receive
  <2> DEFINE f == Head(received)
  <2>1. ingest = NoFrame /\ received # <<>> /\ received' = Tail(received)
    BY <1>8 DEF Receive
  <2>2. /\ f = received[1] /\ f \in Numbered /\ Len(received) \in Nat
        /\ Len(received') = Len(received) - 1
        /\ \A i \in 1..Len(received') : received'[i] = received[i + 1]
    BY <1>5, <2>1, HeadTailProperties
  <2>3. /\ last' \in Nat /\ last <= last'
        /\ f.number <= last' \/ ingest' = f
    <3>1. CASE Show({f})
      <4>1. {f} \in SUBSET Numbered
        BY <2>2
      <4> HIDE DEF f
      <4>q. QED
        BY <3>1, <4>1, ShowReaches
    <3>2. CASE ingest' = f /\ last' = last
      BY <1>5, <3>2
    <3>q. QED
      BY <1>8, <3>1, <3>2 DEF Receive
  <2> HIDE DEF f
  <2>4. CASE sent <= last \/ sent <= ingest.number
    <3>1. sent <= last
      BY <1>5, <2>1, <2>4, NumberedIs
    <3>q. QED
      BY <1>2, <1>5, <2>3, <3>1 DEF ReachInv
  <2>5. ASSUME NEW i \in 1..Len(received), sent <= received[i].number PROVE ReachInv'
    <3>1. CASE i = 1
      <4>1. sent <= f.number /\ f.number \in Nat
        BY <2>2, <2>5, <3>1, NumberedIs
      <4>2. sent <= last' \/ sent <= ingest'.number
        BY <1>5, <2>3, <4>1
      <4>q. QED
        BY <1>2, <4>2 DEF ReachInv
    <3>2. CASE i # 1
      <4>1. i - 1 \in 1..Len(received') /\ i - 1 + 1 = i
        BY <2>2, <2>5, <3>2
      <4>2. received'[i - 1] = received[i]
        BY <2>2, <4>1
      <4>q. QED
        BY <1>2, <2>5, <4>1, <4>2 DEF ReachInv
    <3>q. QED
      BY <3>1, <3>2
  <2>q. QED
    BY <1>7, <2>4, <2>5
<1>9. CASE FetchRows
  BY <1>2, <1>7, <1>9 DEF FetchRows, ReachInv
<1>10. CASE FetchRing
  <2> DEFINE page == Replay(got, Cursor)
  <2> DEFINE fs == {f \in fetched \union page : f.number < ingest.number} \union {ingest}
  <2>1. asking /\ received' = received
        /\ IF Cardinality(page) = PageLimit THEN UNCHANGED <<last, ingest>> ELSE Show(fs)
    BY <1>10 DEF FetchRing
  <2>2. CASE UNCHANGED <<last, ingest>>
    BY <1>2, <1>7, <2>1, <2>2 DEF ReachInv
  <2>3. CASE Show(fs)
    <3>1. ingest # NoFrame /\ ingest \in Numbered /\ fetched \in SUBSET Numbered
      BY <1>5, <2>1 DEF StreamInv, BrowserInv, StreamTypeOK
    <3>2. page \in SUBSET Numbered
      <4>1. After(got, Cursor) /\ TypeOK
        BY NextIsNat DEF StreamInv, StreamTypeOK, BrowserInv, After
      <4>q. QED
        BY <4>1, ReplayAfter DEF After
    <3> HIDE DEF page
    <3>3. fs \in SUBSET Numbered /\ ingest \in fs
      BY <3>1, <3>2
    <3> HIDE DEF fs
    <3>4. last' \in Nat /\ last <= last' /\ ingest.number <= last'
      BY <2>3, <3>3, ShowReaches
    <3>5. sent <= last' \/ \E i \in 1..Len(received) : sent <= received[i].number
      BY <1>5, <1>7, <3>4
    <3>q. QED
      BY <1>2, <2>1, <3>5 DEF ReachInv
  <2>q. QED
    BY <2>1, <2>2, <2>3
<1>11. ~FetchFails
  <2>1. fetchFails \in Nat /\ MaxFetchFails = 0 /\ up
    BY DEF FollowInv, ScreenPart, LogPart, Untruncated
  <2>q. QED
    BY <2>1 DEF FetchFails
<1>q. QED
  BY <1>8, <1>9, <1>10, <1>11 DEF Browser

\* CatchInv holds at the start.
LEMMA CatchInit == StreamInit => CatchInv
<1>1. SUFFICES ASSUME StreamInit PROVE CatchInv
  OBVIOUS
<1>2. /\ hand = [r \in Runs |-> {}] /\ published = {} /\ calls = <<>> /\ inbox = <<>>
      /\ handler = "off"
  BY <1>1 DEF StreamInit, Init, None
<1>3. HandInv
  BY <1>2, StreamBounds DEF HandInv
<1>q. QED
  BY <1>2, <1>3 DEF CatchInv, WaitInv, ReachInv

\* Every step keeps CatchInv.
LEMMA CatchStep ==
    ASSUME Following, Untruncated, LogInv, IssuedInv, StreamInv, StreamInv', FollowInv,
           CatchInv, [StreamNext]_all
    PROVE  CatchInv'
<1>0. LogPart
  BY DEF FollowInv
<1>1. CASE LogSteps \/ UNCHANGED all \/ \E r \in Runs : PublishFrames(r)
  BY <1>0, <1>1, LogCatches
<1>2. CASE Server \/ Disconnect
  BY <1>2, ServerCatches
<1>3. CASE Browser
  BY <1>3, BrowserCatches
<1>q. QED
  BY <1>1, <1>2, <1>3, NoEnd DEF StreamNext

\* As long as the ring keeps the frames, the process lives, a page takes all there is and
\* no fetch fails: when nothing is on its way, every frame the subscribers were told of
\* is on the screen, over drops of the connection and overflowing subscriptions
\* (stream_frames, FrameSubscription, ingestFrame).
THEOREM BrowserCatchesUp ==
    ASSUME Following, Untruncated
    PROVE  StreamSpec => []CaughtUp
<1>1. StreamInit => CatchInv
  BY CatchInit
<1>2. LogInv /\ IssuedInv /\ StreamInv /\ StreamInv' /\ FollowInv /\ CatchInv /\ [StreamNext]_all
        => CatchInv'
  BY CatchStep
<1>3. StreamInv /\ FollowInv /\ CatchInv => CaughtUp
  <2>1. SUFFICES ASSUME StreamInv, FollowInv, CatchInv, Quiescent,
                        NEW n \in Numbers, n < next[Viewed],
                        n \in hand[Viewed] => Viewed \in published
                 PROVE  \E m \in Numbers : shown[m] = issued[Viewed][n]
    BY DEF CaughtUp
  <2>2. n \in Out /\ n \in Given /\ issued[Viewed][n] = n
    BY <2>1 DEF Out, Given, FollowInv, LogPart
  <2>3. n <= sent
    BY <2>1, <2>2 DEF Quiescent, CatchInv, WaitInv
  <2>4. sent <= last
    <3>1. received = <<>> /\ ingest.number = 0 /\ handler # "off"
      BY <2>1, NumberedIs DEF Quiescent
    <3>2. \A i \in 1..Len(received) : FALSE
      BY <3>1
    <3>3. sent <= last \/ sent <= 0
      BY <2>1, <3>1, <3>2 DEF CatchInv, ReachInv
    <3>4. sent \in Nat /\ last \in Nat
      BY <2>1, NumberedIs DEF StreamInv, StreamTypeOK
    <3>q. QED
      BY <3>3, <3>4
  <2>5. n <= last
    <3>1. sent \in Nat /\ last \in Nat /\ n \in Nat
      BY <2>1, NumberedIs, FramesFinite DEF StreamInv, StreamTypeOK
    <3>q. QED
      BY <2>3, <2>4, <3>1
  <2>6. shown[n] = n
    BY <2>1, <2>5 DEF FollowInv, ScreenPart
  <2>q. QED
    BY <2>2, <2>6
<1>q. QED
  BY <1>1, <1>2, <1>3, FollowInvariance, PTL DEF StreamSpec
=============================================================================
