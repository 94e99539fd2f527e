---------------------------- MODULE FrameLogProofs ----------------------------
(***************************************************************************)
(* Proofs about FrameLog, for any runs, capacities and bounds.             *)
(***************************************************************************)
EXTENDS FrameLogInv, FiniteSetTheorems, TLAPS

-----------------------------------------------------------------------------
(* The queue.                                                              *)

\* What QueuedIn finds in a queue.
LEMMA QueuedMember ==
    ASSUME NEW q, NEW r, NEW n
    PROVE  n \in QueuedIn(q, r)
           <=> \E i \in 1..Len(q) : q[i].run = r /\ n \in q[i].numbers
BY DEF QueuedIn

\* What an Append adds to what is queued.
LEMMA QueuedAppend ==
    ASSUME NEW q \in Seq(Items), NEW x \in Items, NEW r
    PROVE  QueuedIn(Append(q, x), r)
           = QueuedIn(q, r) \union (IF x.run = r THEN x.numbers ELSE {})
<1>. DEFINE a == Append(q, x)
<1>1. /\ Len(q) \in Nat /\ Len(a) = Len(q) + 1
      /\ a[Len(q) + 1] = x /\ \A i \in 1..Len(q) : a[i] = q[i]
  OBVIOUS
<1>2. ASSUME NEW n
      PROVE  n \in QueuedIn(a, r)
             <=> n \in QueuedIn(q, r) \/ (x.run = r /\ n \in x.numbers)
  <2>. DEFINE In(i) == a[i].run = r /\ n \in a[i].numbers
  <2>1. (\E i \in 1..Len(a) : In(i)) <=> (\E i \in 1..Len(q) : In(i)) \/ In(Len(q) + 1)
    <3>1. \A i \in 1..Len(a) : i \in 1..Len(q) \/ i = Len(q) + 1
      BY <1>1
    <3>2. Len(q) + 1 \in 1..Len(a) /\ \A i \in 1..Len(q) : i \in 1..Len(a)
      BY <1>1
    <3>. HIDE DEF In
    <3>. QED BY <3>1, <3>2
  <2>2. (\E i \in 1..Len(q) : In(i)) <=> n \in QueuedIn(q, r)
    <3>1. \A i \in 1..Len(q) : In(i) <=> q[i].run = r /\ n \in q[i].numbers
      BY <1>1
    <3>. HIDE DEF In
    <3>. QED BY <3>1, QueuedMember
  <2>3. (\E i \in 1..Len(a) : In(i)) <=> n \in QueuedIn(a, r)
    BY QueuedMember
  <2>4. In(Len(q) + 1) <=> x.run = r /\ n \in x.numbers
    BY <1>1
  <2>. HIDE DEF In, a
  <2>. QED BY <2>1, <2>2, <2>3, <2>4
<1>. QED BY <1>2

\* What is queued is at the head or in the tail.
LEMMA QueuedTail ==
    ASSUME NEW q \in Seq(Items), q # <<>>, NEW r
    PROVE  QueuedIn(q, r)
           = QueuedIn(Tail(q), r) \union (IF Head(q).run = r THEN Head(q).numbers ELSE {})
<1>. DEFINE t == Tail(q)
<1>1. /\ Len(t) \in Nat /\ Len(q) = Len(t) + 1
      /\ q[1] = Head(q) /\ \A i \in 1..Len(t) : t[i] = q[i + 1]
  OBVIOUS
<1>2. ASSUME NEW n
      PROVE  n \in QueuedIn(q, r)
             <=> n \in QueuedIn(t, r) \/ (Head(q).run = r /\ n \in Head(q).numbers)
  <2>. DEFINE In(i) == q[i].run = r /\ n \in q[i].numbers
  <2>1. (\E i \in 1..Len(q) : In(i)) <=> In(1) \/ \E i \in 1..Len(t) : In(i + 1)
    <3>1. ASSUME NEW i \in 1..Len(q), In(i)
          PROVE  In(1) \/ \E j \in 1..Len(t) : In(j + 1)
      <4>. CASE i # 1
        <5>. i - 1 \in 1..Len(t) /\ i = (i - 1) + 1
          BY <1>1
        <5>. HIDE DEF In
        <5>. QED BY <3>1
      <4>. QED BY <3>1
    <3>2. 1 \in 1..Len(q) /\ \A j \in 1..Len(t) : j + 1 \in 1..Len(q)
      BY <1>1
    <3>. HIDE DEF In
    <3>. QED BY <3>1, <3>2
  <2>2. \A i \in 1..Len(t) : In(i + 1) <=> t[i].run = r /\ n \in t[i].numbers
    BY <1>1
  <2>3. (\E i \in 1..Len(t) : In(i + 1)) <=> n \in QueuedIn(t, r)
    <3>. HIDE DEF In
    <3>. QED BY <2>2, QueuedMember
  <2>4. (\E i \in 1..Len(q) : In(i)) <=> n \in QueuedIn(q, r)
    BY QueuedMember
  <2>5. In(1) <=> Head(q).run = r /\ n \in Head(q).numbers
    BY <1>1
  <2>. HIDE DEF In
  <2>. QED BY <2>1, <2>3, <2>4, <2>5
<1>. QED BY <1>2

\* A queue stays ordered when later frames are appended.
LEMMA OrderedAppend ==
    ASSUME NEW q \in Seq(Items), NEW x \in Items, NEW r, Ordered(q, r),
           x.run = r => Below(QueuedIn(q, r), x.numbers)
    PROVE  Ordered(Append(q, x), r)
<1>. DEFINE a == Append(q, x)
<1>1. /\ Len(q) \in Nat /\ Len(a) = Len(q) + 1
      /\ a[Len(q) + 1] = x /\ \A i \in 1..Len(q) : a[i] = q[i]
  OBVIOUS
<1>. HIDE DEF a
<1>2. SUFFICES ASSUME NEW i \in 1..Len(a), NEW j \in 1..Len(a),
                      i < j, a[i].run = r, a[j].run = r
               PROVE  Below(a[i].numbers, a[j].numbers)
  BY DEF Ordered, a
<1>3. CASE j \in 1..Len(q)
  <2>1. i \in 1..Len(q)
    BY <1>1, <1>2, <1>3
  <2>2. a[i] = q[i] /\ a[j] = q[j]
    BY <1>1, <1>3, <2>1
  <2>. QED BY <1>2, <1>3, <2>1, <2>2 DEF Ordered
<1>4. CASE j = Len(q) + 1
  <2>1. i \in 1..Len(q) /\ a[i] = q[i] /\ a[j] = x
    BY <1>1, <1>2, <1>4
  <2>2. \A n \in a[i].numbers : n \in QueuedIn(q, r)
    BY <1>2, <2>1, QueuedMember
  <2>. QED BY <1>2, <2>1, <2>2 DEF Below
<1>. QED BY <1>1, <1>3, <1>4

\* The tail of an ordered queue is ordered.
LEMMA OrderedTail ==
    ASSUME NEW q \in Seq(Items), q # <<>>, NEW r, Ordered(q, r)
    PROVE  /\ Ordered(Tail(q), r)
           /\ Head(q).run = r => Below(Head(q).numbers, QueuedIn(Tail(q), r))
<1>. DEFINE t == Tail(q)
<1>1. /\ Len(t) \in Nat /\ Len(q) = Len(t) + 1
      /\ q[1] = Head(q) /\ \A i \in 1..Len(t) : t[i] = q[i + 1]
  OBVIOUS
<1>2. \A i \in 1..Len(t) : i + 1 \in 1..Len(q) /\ 1 < i + 1
  BY <1>1
<1>3. 1 \in 1..Len(q)
  BY <1>1
<1>. HIDE DEF t
<1>4. ASSUME NEW i \in 1..Len(t), NEW j \in 1..Len(t), i < j, t[i].run = r, t[j].run = r
      PROVE  Below(t[i].numbers, t[j].numbers)
  <2>1. i + 1 < j + 1
    BY <1>4
  <2>. QED BY <1>1, <1>2, <1>4, <2>1 DEF Ordered
<1>5. ASSUME q[1].run = r, NEW n \in QueuedIn(t, r)
      PROVE  \A m \in q[1].numbers : m < n
  <2>1. PICK i \in 1..Len(t) : t[i].run = r /\ n \in t[i].numbers
    BY <1>5, QueuedMember
  <2>. QED BY <1>1, <1>2, <1>3, <1>5, <2>1 DEF Ordered, Below
<1>. QED BY <1>1, <1>4, <1>5 DEF Ordered, Below, t

\* Nothing is queued in an empty queue.
LEMMA QueuedEmpty ==
    ASSUME NEW r PROVE QueuedIn(<<>>, r) = {} /\ Ordered(<<>>, r)
BY DEF QueuedIn, Ordered

-----------------------------------------------------------------------------
(* The log.                                                                *)

\* The parts of the invariant for one run.
RunInv(r) == WayInv(r) /\ RingInv(r) /\ RowInv(r) /\ SettledInv(r)

\* A run that an action does not touch keeps its part of the invariant.  The writer
\* may take a run with an empty batch as written at any time.
LEMMA Untouched ==
    ASSUME NEW s, RunInv(s),
           row'[s] = row[s], captured'[s] = captured[s], next'[s] = next[s],
           issued'[s] = issued[s], restored'[s] = restored[s],
           batch'[s] = batch[s], hand'[s] = hand[s],
           QueuedIn(queue', s) = QueuedIn(queue, s), Ordered(queue', s),
           s \in lossy => s \in lossy',
           Unwritten(s)' => Unwritten(s),
           ~Unwritten(s)' => ~Unwritten(s) \/ batch[s] = {}
    PROVE  RunInv(s)'
<1>1. /\ OnTheWay(s)' = OnTheWay(s) /\ Fresh(s)' = Fresh(s) /\ Rows(s)' = Rows(s)
      /\ Aligned(s)' <=> Aligned(s)
  BY DEF OnTheWay, Fresh, Rows, Aligned
<1>2. WayInv(s)'
  BY <1>1 DEF RunInv, WayInv
<1>3. RingInv(s)'
  BY <1>1 DEF RunInv, RingInv
<1>4. RowInv(s)'
  BY <1>1 DEF RunInv, RowInv
<1>5. SettledInv(s)'
  BY <1>1 DEF RunInv, SettledInv
<1>. QED BY <1>2, <1>3, <1>4, <1>5 DEF RunInv

\* A marker that is appended is in the queue.
LEMMA MarkerQueued ==
    ASSUME NEW q \in Seq(Items), NEW m \in {"flush", "shutdown"}, NEW s \in Runs, Ordered(q, s)
    PROVE  /\ Append(q, Marker(m)) \in Seq(Items)
           /\ QueuedIn(Append(q, Marker(m)), s) = QueuedIn(q, s)
           /\ Ordered(Append(q, Marker(m)), s)
<1>1. Marker(m) \in Items /\ Marker(m).run # s
  BY MarkersAssumption DEF Items, Marker
<1>2. Append(q, Marker(m)) \in Seq(Items)
  BY <1>1
<1>. DEFINE x == Marker(m)
<1>3. x \in Items /\ x.run # s
  BY <1>1
<1>. HIDE DEF x
<1>4. QueuedIn(Append(q, x), s) = QueuedIn(q, s)
  <2>1. QueuedIn(Append(q, x), s)
        = QueuedIn(q, s) \union (IF x.run = s THEN x.numbers ELSE {})
    BY <1>3, QueuedAppend
  <2>2. (IF x.run = s THEN x.numbers ELSE {}) = {}
    BY <1>3
  <2>. QED BY <2>1, <2>2
<1>5. Ordered(Append(q, x), s)
  BY <1>3, OrderedAppend
<1>. QED BY <1>2, <1>4, <1>5 DEF x

\* The invariant holds at first.
LEMMA InitInv == Init => LogInv
<1>. SUFFICES ASSUME Init PROVE LogInv
  OBVIOUS
<1>1. TypeOK
  BY FrameBounds DEF Init, TypeOK, None, Numbers, Frames, Items, WriterStages, ClosingStages
<1>2. DownInv
  BY DEF Init, DownInv, Rows, Numbers
<1>3. ASSUME NEW r \in Runs PROVE RunInv(r)
  <2>1. QueuedIn(queue, r) = {} /\ Ordered(queue, r)
    BY QueuedEmpty DEF Init
  <2>2. Rows(r) = {} /\ Fresh(r) = {} /\ OnTheWay(r) = {} /\ hand[r] = {} /\ batch[r] = {}
    BY <2>1 DEF Init, Rows, Fresh, OnTheWay, None, Numbers
  <2>3. RingInv(r)
    BY <2>2 DEF Init, RingInv
  <2>. QED BY <2>1, <2>2, <2>3 DEF RunInv, WayInv, RowInv, SettledInv, Below
<1>. QED BY <1>1, <1>2, <1>3 DEF LogInv, RunInv

\* Capture keeps the invariant.
LEMMA CaptureInv ==
    ASSUME LogInv, NEW r \in Runs, NEW k \in 1..MaxGroup, Capture(r, k)
    PROVE  LogInv'
<1>. DEFINE ns == next[r]..(next[r] + k - 1)
<1>0. /\ TypeOK /\ DownInv /\ up /\ up' /\ \A s \in Runs : RunInv(s)
      /\ k \in Nat \ {0} /\ MaxFrames \in Nat
  BY FrameBounds DEF LogInv, Capture, RunInv
<1>1. /\ next[r] \in Nat /\ captured[r] \in Nat /\ restored[r] \in Nat
      /\ next[r] <= captured[r] + 1 /\ captured[r] + k <= MaxFrames
      /\ restored[r] < next[r] /\ next[r] >= 1
  BY <1>0 DEF TypeOK, RunInv, RingInv, Capture
<1>2. ns \subseteq Numbers
  BY <1>0, <1>1 DEF Numbers
<1>3. /\ next'[r] = next[r] + k /\ captured'[r] = captured[r] + k
      /\ hand'[r] = ns /\ hand[r] = {}
      /\ \A n \in Numbers : n \notin ns => issued'[r][n] = issued[r][n]
      /\ \A n \in ns : issued'[r][n] = captured[r] + 1 + n - next[r]
  BY <1>0, <1>2 DEF TypeOK, Capture
<1>4. TypeOK'
  <2>1. next' \in [Runs -> 1..(MaxFrames + 1)]
    BY <1>0, <1>1 DEF TypeOK, Capture
  <2>2. captured' \in [Runs -> 0..MaxFrames]
    BY <1>0, <1>1 DEF TypeOK, Capture
  <2>3. issued' \in [Runs -> [Numbers -> Frames \union {0}]]
    <3>1. \A n \in ns : captured[r] + 1 + n - next[r] \in Frames
      BY <1>0, <1>1 DEF Frames
    <3>2. [n \in Numbers |-> IF n \in ns THEN captured[r] + 1 + n - next[r]
                                         ELSE issued[r][n]] \in [Numbers -> Frames \union {0}]
      BY <3>1, <1>0 DEF TypeOK
    <3>. QED BY <3>2, <1>0 DEF TypeOK, Capture
  <2>4. hand' \in [Runs -> SUBSET Numbers]
    BY <1>0, <1>2 DEF TypeOK, Capture
  <2>. QED BY <2>1, <2>2, <2>3, <2>4, <1>0 DEF TypeOK, Capture
<1>5. DownInv'
  <2>. \A s \in Runs : captured[s] \in Nat /\ captured'[s] \in Nat /\ captured[s] <= captured'[s]
    BY <1>0, <1>1 DEF TypeOK, Capture
  <2>. QED BY <1>0 DEF DownInv, Capture, Rows
<1>6. ASSUME NEW s \in Runs, s # r PROVE RunInv(s)'
  BY <1>6, <1>0, Untouched DEF Capture, TypeOK, Unwritten, RunInv, WayInv
<1>7. RunInv(r)'
  <2>1. /\ batch'[r] = batch[r] /\ QueuedIn(queue, r)' = QueuedIn(queue, r)
        /\ OnTheWay(r) = batch[r] \union QueuedIn(queue, r)
        /\ OnTheWay(r)' = OnTheWay(r) \union ns
    BY <1>3 DEF Capture, OnTheWay
  <2>2. Fresh(r) \subseteq Nat /\ Fresh(r)' = Fresh(r) \union ns
        /\ \A n \in Fresh(r) : n < next[r] /\ n \in Numbers /\ n \notin ns
    <3>1. restored'[r] = restored[r]
      BY DEF Capture
    <3>2. Fresh(r) = (restored[r] + 1)..(next[r] - 1)
          /\ Fresh(r)' = (restored[r] + 1)..(next[r] + k - 1)
      <4>1. next'[r] - 1 = next[r] + k - 1
        BY <1>0, <1>1, <1>3
      <4>. QED BY <3>1, <4>1 DEF Fresh
    <3>3. ASSUME NEW n
          PROVE  n \in Fresh(r)' <=> n \in Fresh(r) \/ n \in ns
      BY <1>0, <1>1, <3>2
    <3>4. ASSUME NEW n \in Fresh(r)
          PROVE  n \in Nat /\ n < next[r] /\ n \in Numbers /\ n \notin ns
      BY <1>0, <1>1, <3>2 DEF Numbers
    <3>. HIDE DEF ns
    <3>. QED BY <3>3, <3>4
  <2>3. OnTheWay(r) \subseteq Fresh(r)
    BY <1>0 DEF RunInv, WayInv
  <2>4. WayInv(r)'
    <3>1. Below(OnTheWay(r), ns)
      BY <1>1, <2>2, <2>3 DEF Below
    <3>. QED BY <1>0, <1>3, <2>1, <2>2, <2>3, <3>1 DEF RunInv, WayInv, Capture
  <2>5. RingInv(r)'
    <3>1. ASSUME NEW n \in ns PROVE issued'[r][n] # 0
      <4>1. issued'[r][n] = captured[r] + 1 + n - next[r]
        BY <1>3
      <4>2. n \in Nat /\ next[r] <= n
        BY <1>0, <1>1
      <4>. QED BY <1>1, <4>1, <4>2
    <3>2. \A n \in Fresh(r) : issued'[r][n] # 0
      BY <1>0, <1>3, <2>2 DEF RunInv, RingInv
    <3>3. restored'[r] < next'[r] /\ next'[r] <= captured'[r] + 1
      BY <1>0, <1>1, <1>3 DEF Capture
    <3>. QED BY <2>2, <3>1, <3>2, <3>3 DEF RingInv
  <2>6. Rows(r)' = Rows(r) /\ row'[r] = row[r] /\ restored'[r] = restored[r]
    BY DEF Rows, Capture
  <2>7. Aligned(r)' => Aligned(r)
    <3>. \A n \in 1..restored[r] : n \in Rows(r) => issued'[r][n] = issued[r][n]
      BY <1>1, <1>3 DEF Rows
    <3>. QED BY <2>6 DEF Aligned
  <2>8. RowInv(r)'
    <3>. SUFFICES ASSUME Aligned(r)' PROVE RowInv(r)'
      BY DEF RowInv
    <3>1. \A n \in Rows(r) : n \in Numbers /\ n \in Nat /\ n < next[r] /\ row[r][n] = issued[r][n]
      <4>1. Rows(r) \subseteq Numbers /\ Numbers \subseteq Nat
        BY <1>0 DEF Rows, Numbers
      <4>. QED BY <1>0, <2>7, <4>1 DEF RunInv, RowInv
    <3>2. \A n \in Rows(r) : n \notin ns /\ n < next'[r]
      BY <1>1, <1>3, <3>1
    <3>3. Below(Rows(r), ns)
      BY <1>1, <3>1 DEF Below
    <3>4. Below(Rows(r), QueuedIn(queue, r)) /\ (Unwritten(r) => Below(Rows(r), batch[r]))
      BY <1>0, <2>7 DEF RunInv, RowInv, Below
    <3>5. Unwritten(r)' <=> Unwritten(r)
      BY DEF Unwritten, Capture
    <3>. QED BY <1>3, <2>1, <2>6, <3>1, <3>2, <3>3, <3>4, <3>5 DEF RowInv, Below
  <2>9. SettledInv(r)'
    <3>. SUFFICES ASSUME Aligned(r)', r \notin lossy' PROVE SettledInv(r)'
      BY DEF SettledInv
    <3>1. /\ \A n \in Fresh(r) : n \in OnTheWay(r) \/ row[r][n] = issued[r][n]
          /\ ~Unwritten(r) => \A n \in batch[r] : row[r][n] = issued[r][n]
      BY <1>0, <2>7 DEF RunInv, SettledInv, Capture
    <3>2. Unwritten(r)' <=> Unwritten(r)
      BY DEF Unwritten, Capture
    <3>3. \A n \in Fresh(r) : issued'[r][n] = issued[r][n]
      BY <1>3, <2>2
    <3>4. batch[r] \subseteq Fresh(r)
      BY <2>1, <2>3
    <3>. QED BY <2>1, <2>2, <2>6, <3>1, <3>2, <3>3, <3>4 DEF SettledInv
  <2>. QED BY <2>4, <2>5, <2>8, <2>9 DEF RunInv
<1>. QED BY <1>0, <1>4, <1>5, <1>6, <1>7 DEF LogInv, RunInv

\* Publish keeps the invariant.
LEMMA PublishInv ==
    ASSUME LogInv, NEW r \in Runs, Publish(r)
    PROVE  LogInv'
<1>0. TypeOK /\ DownInv /\ up /\ up' /\ \A s \in Runs : RunInv(s)
  BY DEF LogInv, Publish, RunInv
<1>1. TypeOK'
  BY <1>0 DEF TypeOK, Publish
<1>2. DownInv'
  BY <1>0 DEF DownInv, Publish, Rows
<1>3. ASSUME NEW s \in Runs PROVE RunInv(s)'
  BY <1>0, Untouched DEF Publish, Unwritten, RunInv, WayInv
<1>. QED BY <1>0, <1>1, <1>2, <1>3 DEF LogInv, RunInv

\* Enqueue keeps the invariant.
LEMMA EnqueueInv ==
    ASSUME LogInv, NEW r \in Runs, Enqueue(r)
    PROVE  LogInv'
<1>. DEFINE x == Item(r, hand[r])
<1>0. TypeOK /\ DownInv /\ up /\ up' /\ \A s \in Runs : RunInv(s)
  BY DEF LogInv, Enqueue, RunInv
<1>1. x \in Items /\ x.run = r /\ x.numbers = hand[r]
  BY <1>0 DEF Item, Items, TypeOK
<1>2. /\ queue \in Seq(Items) /\ hand'[r] = {}
      /\ \/ queue' = Append(queue, x) /\ lossy' = lossy
         \/ queue' = queue /\ lossy' = lossy \union {r}
  BY <1>0 DEF Enqueue, TypeOK
<1>3. TypeOK'
  <2>1. queue' \in Seq(Items)
    BY <1>1, <1>2
  <2>. QED BY <1>0, <2>1 DEF TypeOK, Enqueue
<1>4. DownInv'
  BY <1>0 DEF DownInv, Enqueue, Rows
<1>. HIDE DEF x
<1>5. ASSUME NEW s \in Runs, s # r PROVE RunInv(s)'
  <2>0. Ordered(queue, s)
    BY <1>0 DEF RunInv, WayInv
  <2>1. QueuedIn(queue', s) = QueuedIn(queue, s) /\ Ordered(queue', s)
    <3>1. CASE queue' = queue
      BY <2>0, <3>1
    <3>2. CASE queue' = Append(queue, x)
      <4>1. QueuedIn(Append(queue, x), s)
            = QueuedIn(queue, s) \union (IF x.run = s THEN x.numbers ELSE {})
        BY <1>1, <1>2, QueuedAppend
      <4>2. Ordered(Append(queue, x), s)
        BY <1>1, <1>2, <1>5, <2>0, OrderedAppend
      <4>. QED BY <1>1, <1>5, <3>2, <4>1, <4>2
    <3>. QED BY <1>2, <3>1, <3>2
  <2>2. hand'[s] = hand[s]
    BY <1>0, <1>5 DEF Enqueue, TypeOK
  <2>3. s \in lossy => s \in lossy'
    BY <1>2
  <2>. QED BY <1>0, <2>1, <2>2, <2>3, Untouched DEF Enqueue, Unwritten
<1>6. RunInv(r)'
  <2>1. /\ Fresh(r)' = Fresh(r) /\ Rows(r)' = Rows(r) /\ (Aligned(r)' <=> Aligned(r))
        /\ (Unwritten(r)' <=> Unwritten(r)) /\ batch' = batch
    BY DEF Enqueue, Fresh, Rows, Aligned, Unwritten
  <2>2. RingInv(r)'
    BY <1>0, <2>1 DEF RunInv, RingInv, Enqueue
  <2>3. WayInv(r) /\ RowInv(r) /\ SettledInv(r)
    BY <1>0 DEF RunInv
  <2>4. CASE queue' = queue /\ lossy' = lossy \union {r}
    <3>1. OnTheWay(r)' \subseteq OnTheWay(r) /\ QueuedIn(queue, r)' = QueuedIn(queue, r)
      BY <1>2, <2>1, <2>4 DEF OnTheWay
    <3>2. WayInv(r)'
      BY <1>2, <2>1, <2>3, <2>4, <3>1 DEF WayInv, Below
    <3>3. RowInv(r)'
      BY <1>2, <2>1, <2>3, <3>1 DEF RowInv, Below, Enqueue
    <3>4. SettledInv(r)'
      BY <2>4 DEF SettledInv
    <3>. QED BY <2>2, <3>2, <3>3, <3>4 DEF RunInv
  <2>5. CASE queue' = Append(queue, x) /\ lossy' = lossy
    <3>1. QueuedIn(queue', r) = QueuedIn(queue, r) \union hand[r]
      BY <1>1, <1>2, <2>5, QueuedAppend
    <3>2. Ordered(queue', r)
      <4>1. Ordered(queue, r) /\ Below(QueuedIn(queue, r), x.numbers)
        BY <1>1, <2>3 DEF WayInv, Below
      <4>. QED BY <1>1, <1>2, <2>5, <4>1, OrderedAppend
    <3>3. OnTheWay(r)' = OnTheWay(r)
      BY <1>2, <2>1, <3>1 DEF OnTheWay
    <3>4. WayInv(r)'
      BY <1>2, <2>1, <2>3, <3>1, <3>2, <3>3 DEF WayInv, Below
    <3>5. RowInv(r)'
      BY <1>2, <2>1, <2>3, <3>1 DEF RowInv, Below, Enqueue
    <3>6. SettledInv(r)'
      BY <2>1, <2>3, <2>5, <3>3 DEF SettledInv, Enqueue
    <3>. QED BY <2>2, <3>4, <3>5, <3>6 DEF RunInv
  <2>. QED BY <1>2, <2>4, <2>5
<1>. QED BY <1>0, <1>3, <1>4, <1>5, <1>6 DEF LogInv, RunInv

\* What taking the head of the queue does for a run it does not belong to.
LEMMA HeadOfOther ==
    ASSUME NEW q \in Seq(Items), q # <<>>, NEW s, Head(q).run # s, Ordered(q, s)
    PROVE  QueuedIn(Tail(q), s) = QueuedIn(q, s) /\ Ordered(Tail(q), s)
<1>1. QueuedIn(q, s)
      = QueuedIn(Tail(q), s) \union (IF Head(q).run = s THEN Head(q).numbers ELSE {})
  BY QueuedTail
<1>2. Ordered(Tail(q), s)
  BY OrderedTail
<1>. QED BY <1>1, <1>2

\* TakeFrames keeps the invariant.
LEMMA TakeFramesInv ==
    ASSUME LogInv, TakeFrames
    PROVE  LogInv'
<1>0. TypeOK /\ DownInv /\ up /\ up' /\ \A s \in Runs : RunInv(s)
  BY DEF LogInv, TakeFrames, RunInv
<1>1. PICK r \in Runs : /\ Head(queue).run = r
                        /\ batch' = [batch EXCEPT ![r] = @ \union Head(queue).numbers]
  BY DEF TakeFrames
<1>2. /\ queue \in Seq(Items) /\ queue # <<>> /\ queue' = Tail(queue)
      /\ Head(queue) \in Items /\ Tail(queue) \in Seq(Items)
  BY <1>0 DEF TakeFrames, TypeOK
<1>3. Head(queue).numbers \subseteq Numbers
  BY <1>1, <1>2 DEF Items, Marker
<1>4. /\ batch \in [Runs -> SUBSET Numbers] /\ batch' \in [Runs -> SUBSET Numbers]
      /\ batch'[r] = batch[r] \union Head(queue).numbers
      /\ \A s \in Runs : s # r => batch'[s] = batch[s]
  BY <1>0, <1>1, <1>3 DEF TypeOK
<1>5. /\ writer = "get"
      /\ \/ writer' = "write" /\ todo' = InBatch'
         \/ writer' = "get" /\ todo' = {}
      /\ todo' \subseteq Runs
  <2>1. /\ writer' = IF BatchFrames' >= BatchSize THEN "write" ELSE "get"
        /\ todo' = IF BatchFrames' >= BatchSize THEN InBatch' ELSE {}
    BY DEF TakeFrames
  <2>2. writer = "get" /\ InBatch' \subseteq Runs
    BY DEF TakeFrames, InBatch
  <2>3. CASE BatchFrames' >= BatchSize
    <3>1. writer' = "write" /\ todo' = InBatch'
      BY <2>1, <2>3, Zenon
    <3>. QED BY <2>2, <3>1
  <2>4. CASE ~(BatchFrames' >= BatchSize)
    <3>1. writer' = "get" /\ todo' = {}
      BY <2>1, <2>4, Zenon
    <3>. QED BY <2>2, <3>1
  <2>. QED BY <2>3, <2>4
<1>6. \A s \in Runs : Unwritten(s) /\ (~Unwritten(s)' => batch'[s] = {})
  BY <1>5 DEF Unwritten, InBatch
<1>7. TypeOK'
  BY <1>0, <1>2, <1>4, <1>5 DEF TypeOK, TakeFrames, WriterStages
<1>8. DownInv'
  BY <1>0 DEF DownInv, TakeFrames, Rows
<1>9. ASSUME NEW s \in Runs, s # r PROVE RunInv(s)'
  <2>1. QueuedIn(queue', s) = QueuedIn(queue, s) /\ Ordered(queue', s)
    BY <1>0, <1>1, <1>2, <1>9, HeadOfOther DEF RunInv, WayInv
  <2>. QED BY <1>0, <1>4, <1>6, <1>9, <2>1, Untouched DEF TakeFrames
<1>10. RunInv(r)'
  <2>1. /\ Fresh(r)' = Fresh(r) /\ Rows(r)' = Rows(r) /\ (Aligned(r)' <=> Aligned(r))
        /\ hand' = hand
    BY DEF TakeFrames, Fresh, Rows, Aligned
  <2>2. RingInv(r)'
    BY <1>0, <2>1 DEF RunInv, RingInv, TakeFrames
  <2>3. WayInv(r) /\ RowInv(r) /\ SettledInv(r)
    BY <1>0 DEF RunInv
  <2>4. QueuedIn(queue, r) = QueuedIn(queue', r) \union Head(queue).numbers
    BY <1>1, <1>2, QueuedTail
  <2>5. Ordered(queue', r) /\ Below(Head(queue).numbers, QueuedIn(queue', r))
    BY <1>1, <1>2, <2>3, OrderedTail DEF WayInv
  <2>6. OnTheWay(r)' = OnTheWay(r)
    BY <1>4, <2>1, <2>4 DEF OnTheWay
  <2>7. WayInv(r)'
    BY <1>4, <2>1, <2>3, <2>4, <2>5, <2>6 DEF WayInv, Below
  <2>8. RowInv(r)'
    BY <1>4, <1>6, <2>1, <2>3, <2>4 DEF RowInv, Below, TakeFrames
  <2>9. SettledInv(r)'
    BY <1>6, <2>1, <2>3, <2>6 DEF SettledInv, TakeFrames
  <2>. QED BY <2>2, <2>7, <2>8, <2>9 DEF RunInv
<1>. QED BY <1>0, <1>7, <1>8, <1>9, <1>10 DEF LogInv, RunInv

\* BatchDue keeps the invariant.
LEMMA BatchDueInv ==
    ASSUME LogInv, BatchDue
    PROVE  LogInv'
<1>0. TypeOK /\ DownInv /\ up /\ up' /\ \A s \in Runs : RunInv(s)
  BY DEF LogInv, BatchDue, RunInv
<1>1. TypeOK'
  BY <1>0 DEF TypeOK, BatchDue, WriterStages, InBatch
<1>2. DownInv'
  BY <1>0 DEF DownInv, BatchDue, Rows
<1>3. ASSUME NEW s \in Runs PROVE RunInv(s)'
  <2>1. Unwritten(s) /\ (~Unwritten(s)' => batch[s] = {})
    BY DEF BatchDue, Unwritten, InBatch
  <2>. QED BY <1>0, <2>1, Untouched DEF BatchDue, RunInv, WayInv
<1>. QED BY <1>0, <1>1, <1>2, <1>3 DEF LogInv, RunInv

\* TakeMarker keeps the invariant.
LEMMA TakeMarkerInv ==
    ASSUME LogInv, TakeMarker
    PROVE  LogInv'
<1>0. TypeOK /\ DownInv /\ up /\ up' /\ \A s \in Runs : RunInv(s)
  BY DEF LogInv, TakeMarker, RunInv
<1>1. queue \in Seq(Items) /\ queue # <<>> /\ queue' = Tail(queue) /\ Tail(queue) \in Seq(Items)
  BY <1>0 DEF TakeMarker, TypeOK
<1>2. TypeOK'
  BY <1>0, <1>1 DEF TypeOK, TakeMarker, WriterStages, InBatch
<1>3. DownInv'
  BY <1>0 DEF DownInv, TakeMarker, Rows
<1>4. ASSUME NEW s \in Runs PROVE RunInv(s)'
  <2>1. Unwritten(s) /\ (~Unwritten(s)' => batch[s] = {})
    BY DEF TakeMarker, Unwritten, InBatch
  <2>2. Head(queue).run # s
    BY MarkersAssumption DEF TakeMarker
  <2>3. QueuedIn(queue', s) = QueuedIn(queue, s) /\ Ordered(queue', s)
    BY <1>0, <1>1, <2>2, HeadOfOther DEF RunInv, WayInv
  <2>. QED BY <1>0, <2>1, <2>3, Untouched DEF TakeMarker
<1>. QED BY <1>0, <1>2, <1>3, <1>4 DEF LogInv, RunInv

\* AppendFrames keeps the invariant.
LEMMA AppendFramesInv ==
    ASSUME LogInv, NEW r \in Runs, AppendFrames(r)
    PROVE  LogInv'
<1>0. TypeOK /\ DownInv /\ up /\ up' /\ \A s \in Runs : RunInv(s)
  BY DEF LogInv, AppendFrames, Writing, RunInv
<1>1. /\ Numbers \subseteq Nat /\ MaxFrames \in Nat /\ batch[r] \subseteq Fresh(r) /\ batch[r] \subseteq Numbers
      /\ restored[r] \in Nat /\ next[r] \in Nat /\ captured[r] \in Nat
      /\ next[r] <= captured[r] + 1
  <2>1. MaxFrames \in Nat /\ Numbers \subseteq Nat
    BY FrameBounds DEF Numbers
  <2>2. batch[r] \subseteq Numbers /\ restored[r] \in Nat /\ next[r] \in Nat /\ captured[r] \in Nat
    BY <1>0, <2>1 DEF TypeOK
  <2>3. batch[r] \subseteq Fresh(r)
    BY <1>0 DEF RunInv, WayInv, OnTheWay
  <2>4. next[r] <= captured[r] + 1
    BY <1>0 DEF RunInv, RingInv
  <2>. QED BY <2>1, <2>2, <2>3, <2>4
<1>2. /\ \A s \in Runs : s # r => row'[s] = row[s]
      /\ \A n \in Numbers :
            row'[r][n] = IF n \in batch[r] /\ row[r][n] = 0 THEN issued[r][n] ELSE row[r][n]
  BY <1>0 DEF TypeOK, AppendFrames
<1>3. \A n \in batch[r] : restored[r] < n /\ n < next[r] /\ issued[r][n] # 0
  BY <1>0, <1>1 DEF Fresh, RunInv, RingInv
<1>4. Rows(r)' = Rows(r) \union batch[r]
  BY <1>1, <1>2, <1>3 DEF Rows
<1>5. TypeOK'
  <2>1. [n \in Numbers |-> IF n \in batch[r] /\ row[r][n] = 0 THEN issued[r][n] ELSE row[r][n]]
        \in [Numbers -> Frames \union {0}]
    BY <1>0 DEF TypeOK
  <2>2. row' \in [Runs -> [Numbers -> Frames \union {0}]]
    BY <1>0, <2>1 DEF TypeOK, AppendFrames
  <2>. QED BY <1>0, <2>2 DEF TypeOK, AppendFrames
<1>6. DownInv'
  <2>1. batch[r] \subseteq 1..captured[r]
    <3>. SUFFICES ASSUME NEW n \in batch[r] PROVE n \in 1..captured[r]
      OBVIOUS
    <3>1. n \in Nat /\ restored[r] < n /\ n < next[r]
      BY <1>1, <1>3
    <3>. QED BY <1>1, <3>1
  <2>2. Rows(r)' \subseteq 1..captured[r]
    BY <1>0, <1>4, <2>1 DEF DownInv
  <2>3. \A s \in Runs : s # r => Rows(s)' = Rows(s)
    BY <1>2 DEF Rows
  <2>. QED BY <1>0, <2>2, <2>3 DEF DownInv, AppendFrames
<1>7. ASSUME NEW s \in Runs, s # r PROVE RunInv(s)'
  <2>1. Unwritten(s)' <=> Unwritten(s)
    BY <1>7 DEF Unwritten, AppendFrames
  <2>. QED BY <1>0, <1>2, <1>7, <2>1, Untouched DEF AppendFrames, RunInv, WayInv
<1>8. RunInv(r)'
  <2>1. /\ Fresh(r)' = Fresh(r) /\ OnTheWay(r)' = OnTheWay(r)
        /\ QueuedIn(queue, r)' = QueuedIn(queue, r)
        /\ hand' = hand /\ batch' = batch /\ issued' = issued /\ next' = next
        /\ restored' = restored /\ lossy' = lossy /\ captured' = captured
    BY DEF AppendFrames, Fresh, OnTheWay
  <2>2. WayInv(r) /\ RingInv(r) /\ RowInv(r) /\ SettledInv(r) /\ Unwritten(r) /\ ~Unwritten(r)'
    BY <1>0 DEF RunInv, Unwritten, AppendFrames, Writing
  <2>3. WayInv(r)'
    BY <2>1, <2>2 DEF WayInv, AppendFrames
  <2>4. RingInv(r)'
    BY <2>1, <2>2 DEF RingInv
  <2>5. Aligned(r)' => Aligned(r)
    <3>1. \A n \in 1..restored[r] : n \notin batch[r]
      BY <1>1, <1>3
    <3>2. \A n \in 1..restored[r] : n \in Rows(r)' => n \in Rows(r) /\ row'[r][n] = row[r][n]
      BY <1>2, <1>4, <3>1 DEF Rows
    <3>. QED BY <2>1, <3>2 DEF Aligned
  <2>6. Aligned(r)' => \A n \in Rows(r)' : n < next[r] /\ row'[r][n] = issued[r][n]
    <3>. SUFFICES ASSUME Aligned(r)', NEW n \in Rows(r)'
                  PROVE  n < next[r] /\ row'[r][n] = issued[r][n]
      OBVIOUS
    <3>1. CASE n \in Rows(r)
      <4>1. n < next[r] /\ row[r][n] = issued[r][n]
        BY <2>2, <2>5, <3>1 DEF RowInv
      <4>. QED BY <1>2, <3>1, <4>1 DEF Rows
    <3>2. CASE n \notin Rows(r)
      BY <1>1, <1>2, <1>3, <1>4, <3>2 DEF Rows
    <3>. QED BY <3>1, <3>2
  <2>7. RowInv(r)'
    BY <1>4, <2>1, <2>2, <2>5, <2>6 DEF RowInv, WayInv, Below
  <2>8. SettledInv(r)'
    <3>1. Aligned(r)' => \A n \in batch[r] : row'[r][n] = issued[r][n]
      BY <1>4, <2>6
    <3>2. ASSUME NEW n \in Fresh(r), row[r][n] = issued[r][n]
          PROVE  row'[r][n] = issued[r][n]
      <4>1. n \in Numbers
        BY <1>0, <1>1, <2>2 DEF Fresh, TypeOK, Numbers
      <4>. QED BY <1>2, <3>2, <4>1
    <3>. QED BY <2>1, <2>2, <2>5, <3>1, <3>2 DEF SettledInv
  <2>. QED BY <2>3, <2>4, <2>7, <2>8 DEF RunInv
<1>. QED BY <1>0, <1>5, <1>6, <1>7, <1>8 DEF LogInv, RunInv

\* AppendFails keeps the invariant.
LEMMA AppendFailsInv ==
    ASSUME LogInv, AppendFails
    PROVE  LogInv'
<1>0. TypeOK /\ DownInv /\ up /\ up' /\ \A s \in Runs : RunInv(s)
  BY DEF LogInv, AppendFails, Writing, RunInv
<1>1. TypeOK'
  <2>1. faults' \in 0..MaxFaults
    BY <1>0, FrameBounds DEF TypeOK, AppendFails
  <2>2. lossy' \in SUBSET Runs
    BY <1>0 DEF TypeOK, AppendFails, InBatch
  <2>. QED BY <1>0, <2>1, <2>2 DEF TypeOK, AppendFails
<1>2. DownInv'
  BY <1>0 DEF DownInv, AppendFails, Rows
<1>3. ASSUME NEW s \in Runs PROVE RunInv(s)'
  <2>1. ~Unwritten(s)' /\ (s \in lossy => s \in lossy')
    BY DEF AppendFails, Writing, Unwritten
  <2>2. CASE batch[s] = {}
    BY <1>0, <2>1, <2>2, Untouched DEF AppendFails, RunInv, WayInv
  <2>3. CASE batch[s] # {}
    <3>1. s \in lossy'
      BY <2>3 DEF AppendFails, InBatch
    <3>2. /\ Fresh(s)' = Fresh(s) /\ OnTheWay(s)' = OnTheWay(s) /\ Rows(s)' = Rows(s)
          /\ (Aligned(s)' <=> Aligned(s)) /\ QueuedIn(queue, s)' = QueuedIn(queue, s)
      BY DEF AppendFails, Fresh, OnTheWay, Rows, Aligned
    <3>3. WayInv(s)' /\ RingInv(s)'
      BY <1>0, <3>2 DEF RunInv, WayInv, RingInv, AppendFails
    <3>4. RowInv(s)'
      BY <1>0, <2>1, <3>2 DEF RunInv, RowInv, AppendFails
    <3>5. SettledInv(s)'
      BY <3>1 DEF SettledInv
    <3>. QED BY <3>3, <3>4, <3>5 DEF RunInv
  <2>. QED BY <2>2, <2>3
<1>. QED BY <1>0, <1>1, <1>2, <1>3 DEF LogInv, RunInv

\* WriteDone keeps the invariant.
LEMMA WriteDoneInv ==
    ASSUME LogInv, WriteDone
    PROVE  LogInv'
<1>0. TypeOK /\ DownInv /\ up /\ up' /\ \A s \in Runs : RunInv(s)
  BY DEF LogInv, WriteDone, Writing, RunInv
<1>1. TypeOK'
  BY <1>0 DEF TypeOK, WriteDone, None, WriterStages, ClosingStages
<1>2. DownInv'
  BY <1>0 DEF DownInv, WriteDone, Rows
<1>3. ASSUME NEW s \in Runs PROVE RunInv(s)'
  <2>1. /\ Fresh(s)' = Fresh(s) /\ Rows(s)' = Rows(s) /\ (Aligned(s)' <=> Aligned(s))
        /\ QueuedIn(queue, s)' = QueuedIn(queue, s)
        /\ OnTheWay(s) = batch[s] \union OnTheWay(s)'
        /\ hand' = hand /\ batch'[s] = {}
    BY DEF WriteDone, Fresh, OnTheWay, Rows, Aligned, None
  <2>2. WayInv(s) /\ RingInv(s) /\ RowInv(s) /\ SettledInv(s)
    BY <1>0 DEF RunInv
  <2>3. ~Unwritten(s) /\ Unwritten(s)'
    BY DEF WriteDone, Writing, Unwritten
  <2>4. WayInv(s)'
    BY <2>1, <2>2 DEF WayInv, Below, WriteDone
  <2>5. RingInv(s)'
    BY <2>1, <2>2 DEF RingInv, WriteDone
  <2>6. RowInv(s)'
    BY <2>1, <2>2 DEF RowInv, Below, WriteDone
  <2>7. SettledInv(s)'
    BY <2>1, <2>2, <2>3 DEF SettledInv, WriteDone
  <2>. QED BY <2>4, <2>5, <2>6, <2>7 DEF RunInv
<1>. QED BY <1>0, <1>1, <1>2, <1>3 DEF LogInv, RunInv

\* Drain keeps the invariant.
LEMMA DrainInv ==
    ASSUME LogInv, Drain
    PROVE  LogInv'
<1>0. TypeOK /\ DownInv /\ up /\ up' /\ \A s \in Runs : RunInv(s)
  BY DEF LogInv, Drain, RunInv
<1>1. DownInv'
  BY <1>0 DEF DownInv, Drain, Rows
<1>2. ASSUME NEW s \in Runs PROVE Unwritten(s) /\ Unwritten(s)'
  BY DEF Drain, Unwritten
<1>3. CASE queue = <<>>
  <2>1. queue' = queue /\ lossy' = lossy /\ writer' = "gone"
    BY <1>3 DEF Drain
  <2>2. TypeOK'
    BY <1>0, <2>1 DEF TypeOK, Drain, WriterStages
  <2>3. ASSUME NEW s \in Runs PROVE RunInv(s)'
    BY <1>0, <1>2, <2>1, Untouched DEF Drain, RunInv, WayInv
  <2>. QED BY <1>0, <1>1, <2>2, <2>3 DEF LogInv, RunInv
<1>4. CASE queue # <<>>
  <2>1. /\ queue \in Seq(Items) /\ queue' = Tail(queue) /\ Tail(queue) \in Seq(Items)
        /\ lossy' = lossy \union ({Head(queue).run} \intersect Runs) /\ writer' = writer
    BY <1>0, <1>4 DEF TypeOK, Drain
  <2>2. TypeOK'
    BY <1>0, <2>1 DEF TypeOK, Drain
  <2>3. ASSUME NEW s \in Runs PROVE RunInv(s)'
    <3>0. Ordered(queue, s)
      BY <1>0 DEF RunInv, WayInv
    <3>1. CASE Head(queue).run # s
      <4>1. QueuedIn(queue', s) = QueuedIn(queue, s) /\ Ordered(queue', s)
        BY <1>4, <2>1, <3>0, <3>1, HeadOfOther
      <4>. QED BY <1>0, <1>2, <2>1, <4>1, Untouched DEF Drain
    <3>2. CASE Head(queue).run = s
      <4>1. s \in lossy'
        BY <2>1, <3>2
      <4>2. /\ Fresh(s)' = Fresh(s) /\ Rows(s)' = Rows(s) /\ (Aligned(s)' <=> Aligned(s))
            /\ batch' = batch /\ hand' = hand
        BY DEF Drain, Fresh, Rows, Aligned
      <4>3. QueuedIn(queue, s)' \subseteq QueuedIn(queue, s)
        <5>1. QueuedIn(queue, s) = QueuedIn(Tail(queue), s)
                \union (IF Head(queue).run = s THEN Head(queue).numbers ELSE {})
          BY <1>4, <2>1, QueuedTail
        <5>. QED BY <2>1, <5>1
      <4>4. Ordered(queue', s)
        BY <1>4, <2>1, <3>0, OrderedTail
      <4>5. OnTheWay(s)' \subseteq OnTheWay(s)
        BY <4>2, <4>3 DEF OnTheWay
      <4>6. WayInv(s)'
        BY <1>0, <4>2, <4>3, <4>4, <4>5 DEF RunInv, WayInv, Below
      <4>7. RingInv(s)'
        BY <1>0, <4>2 DEF RunInv, RingInv, Drain
      <4>8. RowInv(s)'
        BY <1>0, <1>2, <4>2, <4>3 DEF RunInv, RowInv, Below, Drain
      <4>9. SettledInv(s)'
        BY <4>1 DEF SettledInv
      <4>. QED BY <4>6, <4>7, <4>8, <4>9 DEF RunInv
    <3>. QED BY <3>1, <3>2
  <2>. QED BY <1>0, <1>1, <2>2, <2>3 DEF LogInv, RunInv
<1>. QED BY <1>3, <1>4

\* CloseFlush keeps the invariant.
LEMMA CloseFlushInv ==
    ASSUME LogInv, CloseFlush
    PROVE  LogInv'
<1>0. TypeOK /\ DownInv /\ up /\ up' /\ \A s \in Runs : RunInv(s)
  BY DEF LogInv, CloseFlush, RunInv
<1>1. queue \in Seq(Items) /\ queue' = Append(queue, Marker("flush"))
  BY <1>0 DEF TypeOK, CloseFlush
<1>2. TypeOK'
  <2>1. queue' \in Seq(Items)
    BY <1>1 DEF Items
  <2>. QED BY <1>0, <2>1 DEF TypeOK, CloseFlush, ClosingStages
<1>3. DownInv'
  BY <1>0 DEF DownInv, CloseFlush, Rows
<1>4. ASSUME NEW s \in Runs PROVE RunInv(s)'
  <2>1. QueuedIn(queue', s) = QueuedIn(queue, s) /\ Ordered(queue', s)
    BY <1>0, <1>1, MarkerQueued DEF RunInv, WayInv
  <2>. QED BY <1>0, <2>1, Untouched DEF CloseFlush, Unwritten
<1>. QED BY <1>0, <1>2, <1>3, <1>4 DEF LogInv, RunInv

\* ClosePill keeps the invariant.
LEMMA ClosePillInv ==
    ASSUME LogInv, ClosePill
    PROVE  LogInv'
<1>0. TypeOK /\ DownInv /\ up /\ up' /\ \A s \in Runs : RunInv(s)
  BY DEF LogInv, ClosePill, RunInv
<1>1. queue \in Seq(Items) /\ queue' = Append(queue, Marker("shutdown"))
  BY <1>0 DEF TypeOK, ClosePill
<1>2. TypeOK'
  <2>1. queue' \in Seq(Items)
    BY <1>1 DEF Items
  <2>. QED BY <1>0, <2>1 DEF TypeOK, ClosePill, ClosingStages
<1>3. DownInv'
  BY <1>0 DEF DownInv, ClosePill, Rows
<1>4. ASSUME NEW s \in Runs PROVE RunInv(s)'
  <2>1. QueuedIn(queue', s) = QueuedIn(queue, s) /\ Ordered(queue', s)
    BY <1>0, <1>1, MarkerQueued DEF RunInv, WayInv
  <2>. QED BY <1>0, <2>1, Untouched DEF ClosePill, Unwritten
<1>. QED BY <1>0, <1>2, <1>3, <1>4 DEF LogInv, RunInv

\* FlushTimeout and CloseJoin change only how far close is.
LEMMA ClosingInv ==
    ASSUME LogInv, FlushTimeout \/ CloseJoin
    PROVE  LogInv'
<1>0. TypeOK /\ DownInv /\ up /\ up' /\ \A s \in Runs : RunInv(s)
  BY DEF LogInv, FlushTimeout, CloseJoin, RunInv
<1>1. TypeOK'
  BY <1>0 DEF TypeOK, FlushTimeout, CloseJoin, ClosingStages
<1>2. DownInv'
  BY <1>0 DEF DownInv, FlushTimeout, CloseJoin, Rows
<1>3. ASSUME NEW s \in Runs PROVE RunInv(s)'
  BY <1>0, Untouched DEF FlushTimeout, CloseJoin, Unwritten, RunInv, WayInv
<1>. QED BY <1>0, <1>1, <1>2, <1>3 DEF LogInv, RunInv

\* ProcessEnds keeps the invariant.
LEMMA ProcessEndsInv ==
    ASSUME LogInv, ProcessEnds
    PROVE  LogInv'
<1>0. TypeOK /\ DownInv /\ ~up'
  BY DEF LogInv, ProcessEnds
<1>1. TypeOK'
  <2>1. <<>> \in Seq(Items) /\ ends' \in 0..MaxEnds
    BY <1>0, FrameBounds DEF TypeOK, ProcessEnds
  <2>. QED BY <1>0, <2>1 DEF TypeOK, ProcessEnds, None
<1>2. DownInv'
  BY <1>0 DEF DownInv, ProcessEnds, Rows
<1>. QED BY <1>0, <1>1, <1>2 DEF LogInv

\* The ring of a new process holds as many frames as there are rows.
LEMMA RestartInv ==
    ASSUME LogInv, Restart
    PROVE  LogInv'
<1>0. TypeOK /\ DownInv /\ ~up /\ up' /\ row' = row /\ captured' = captured
  BY DEF LogInv, Restart
<1>1. ASSUME NEW r \in Runs
      PROVE  /\ IsFiniteSet(Rows(r)) /\ Cardinality(Rows(r)) \in Nat
             /\ captured[r] \in 0..MaxFrames /\ Cardinality(Rows(r)) <= captured[r]
             /\ Rows(r) \subseteq 1..captured[r]
  <2>1. captured[r] \in 0..MaxFrames /\ captured[r] \in Nat /\ Rows(r) \subseteq 1..captured[r]
    BY <1>0, FrameBounds DEF TypeOK, DownInv
  <2>2. IsFiniteSet(1..captured[r]) /\ Cardinality(1..captured[r]) = captured[r]
    <3>1. 1 \in Int /\ captured[r] \in Int
      BY <2>1
    <3>2. IsFiniteSet(1..captured[r])
      BY <3>1, FS_Interval
    <3>3. Cardinality(1..captured[r]) = IF 1 > captured[r] THEN 0 ELSE captured[r] - 1 + 1
      BY <3>1, FS_Interval
    <3>. QED BY <2>1, <3>2, <3>3
  <2>3. IsFiniteSet(Rows(r)) /\ Cardinality(Rows(r)) <= Cardinality(1..captured[r])
    BY <2>1, <2>2, FS_Subset
  <2>4. Cardinality(Rows(r)) \in Nat
    BY <2>3, FS_CardinalityType
  <2>. QED BY <2>1, <2>2, <2>3, <2>4
<1>2. TypeOK'
  <2>1. ASSUME NEW r \in Runs PROVE Renumbered(r) \in [Numbers -> Frames \union {0}]
    <3>1. ASSUME NEW n \in Numbers
          PROVE  LET frame == {row[r][m] : m \in {k \in Rows(r) : Place(r, k) = n}}
                 IN (IF frame = {} THEN 0 ELSE CHOOSE f \in frame : TRUE) \in Frames \union {0}
      <4>. DEFINE frame == {row[r][m] : m \in {k \in Rows(r) : Place(r, k) = n}}
      <4>1. frame \subseteq Frames \union {0}
        BY <1>0 DEF Rows, TypeOK
      <4>2. frame # {} => (CHOOSE f \in frame : TRUE) \in frame
        <5>. HIDE DEF frame
        <5>. QED OBVIOUS
      <4>. HIDE DEF frame
      <4>3. (IF frame = {} THEN 0 ELSE CHOOSE f \in frame : TRUE) \in Frames \union {0}
        BY <4>1, <4>2
      <4>. QED BY <4>3 DEF frame
    <3>. QED BY <3>1 DEF Renumbered
  <2>2. issued' \in [Runs -> [Numbers -> Frames \union {0}]]
    BY <2>1 DEF Restart
  <2>3. restored' \in [Runs -> 0..MaxFrames] /\ next' \in [Runs -> 1..(MaxFrames + 1)]
    <3>1. ASSUME NEW r \in Runs
          PROVE  Cardinality(Rows(r)) \in 0..MaxFrames /\ Cardinality(Rows(r)) + 1 \in 1..(MaxFrames + 1)
      BY <1>1, FrameBounds
    <3>. QED BY <3>1 DEF Restart
  <2>. QED BY <1>0, <2>2, <2>3 DEF TypeOK, Restart, WriterStages, ClosingStages
<1>3. DownInv'
  BY <1>0 DEF DownInv, Rows
<1>4. ASSUME NEW r \in Runs PROVE RunInv(r)'
  <2>. DEFINE c == Cardinality(Rows(r))
  <2>1. c \in Nat /\ restored'[r] = c /\ next'[r] = c + 1 /\ Rows(r)' = Rows(r)
    BY <1>0, <1>1 DEF Restart, Rows
  <2>2. /\ queue' = <<>> /\ hand'[r] = {} /\ batch'[r] = {}
        /\ QueuedIn(queue', r) = {} /\ Ordered(queue', r)
    BY <1>0, QueuedEmpty DEF DownInv, Restart, None
  <2>. HIDE DEF c
  <2>3. Fresh(r)' = {} /\ OnTheWay(r)' = {}
    BY <2>1, <2>2 DEF Fresh, OnTheWay
  <2>4. WayInv(r)'
    BY <2>2, <2>3 DEF WayInv, Below
  <2>5. RingInv(r)'
    BY <1>0, <1>1, <2>1, <2>3 DEF RingInv, c
  <2>6. ASSUME Aligned(r)' PROVE Rows(r) = 1..c
    <3>1. 1..c \subseteq Rows(r)
      BY <2>1, <2>6 DEF Aligned
    <3>2. Cardinality(1..c) = c
      <4>1. 1 \in Int /\ c \in Int
        BY <2>1
      <4>2. Cardinality(1..c) = IF 1 > c THEN 0 ELSE c - 1 + 1
        BY <4>1, FS_Interval
      <4>. QED BY <2>1, <4>2
    <3>. QED BY <1>1, <3>1, <3>2, FS_Subset DEF c
  <2>7. RowInv(r)'
    <3>. SUFFICES ASSUME Aligned(r)' PROVE RowInv(r)'
      BY DEF RowInv
    <3>1. \A n \in Rows(r)' : n < next'[r] /\ row'[r][n] = issued'[r][n]
      BY <2>1, <2>6 DEF Aligned
    <3>. QED BY <2>2, <3>1 DEF RowInv, Below
  <2>8. SettledInv(r)'
    BY <2>2, <2>3 DEF SettledInv
  <2>. QED BY <2>4, <2>5, <2>7, <2>8 DEF RunInv
<1>. QED BY <1>0, <1>2, <1>3, <1>4 DEF LogInv, RunInv

\* A stuttering step keeps the invariant.
LEMMA StutterInv ==
    ASSUME LogInv, UNCHANGED vars
    PROVE  LogInv'
<1>0. TypeOK /\ DownInv /\ (up => \A s \in Runs : RunInv(s))
  BY DEF LogInv, RunInv
<1>1. TypeOK'
  BY <1>0 DEF TypeOK, vars, memory
<1>2. DownInv'
  BY <1>0 DEF DownInv, vars, memory, Rows
<1>3. ASSUME up', NEW s \in Runs PROVE RunInv(s)'
  BY <1>0, <1>3, Untouched DEF vars, memory, Unwritten, RunInv, WayInv
<1>. QED BY <1>1, <1>2, <1>3 DEF LogInv, RunInv

\* Every step keeps the invariant.
LEMMA NextInv == LogInv /\ [Next]_vars => LogInv'
<1>. SUFFICES ASSUME LogInv, [Next]_vars PROVE LogInv'
  OBVIOUS
<1>1. CASE Handlers
  BY <1>1, CaptureInv, PublishInv, EnqueueInv DEF Handlers
<1>2. CASE Writer
  BY <1>2, TakeFramesInv, BatchDueInv, TakeMarkerInv, AppendFramesInv, WriteDoneInv, DrainInv
  DEF Writer
<1>3. CASE AppendFails
  BY <1>3, AppendFailsInv
<1>4. CASE Closing
  BY <1>4, CloseFlushInv, ClosePillInv, ClosingInv DEF Closing
<1>5. CASE ProcessEnds
  BY <1>5, ProcessEndsInv
<1>6. CASE Restart
  BY <1>6, RestartInv
<1>7. CASE UNCHANGED vars
  BY <1>7, StutterInv
<1>. QED BY <1>1, <1>2, <1>3, <1>4, <1>5, <1>6, <1>7 DEF Next

\* The invariant holds for any runs, capacities and bounds, whatever overflows, raises
\* or dies (registry.py, _PersistenceWriter and _restore_record).
THEOREM LogInvariance == Spec => []LogInv
BY InitInv, NextInv, PTL DEF Spec

\* The model keeps its types.
THEOREM LogTypeCorrect == Spec => []TypeOK
<1>1. LogInv => TypeOK
  BY DEF LogInv
<1>. QED BY <1>1, LogInvariance, PTL

\* A frame of this process that gets no row was counted in emit_errors, or was queued
\* after the writer thread had ended (_PersistenceWriter.enqueue, _write and
\* _release_stragglers).
THEOREM LossesAreCounted == Spec => []LossIsCounted
<1>1. \A r \in Runs : OnTheWay(r) = Pending(r) \union Stranded(r)
  BY DEF OnTheWay, Pending, Stranded
<1>2. LogInv => LossIsCounted
  BY <1>1 DEF LogInv, SettledInv, LossIsCounted
<1>. QED BY <1>2, LogInvariance, PTL

\* Rows and ring answer alike for a number (RunRegistry.replay_frames).
THEOREM RowsAgreeWithRing == Spec => []OneFrameForANumber
<1>1. LogInv => OneFrameForANumber
  BY DEF LogInv, RowInv, OneFrameForANumber
<1>. QED BY <1>1, LogInvariance, PTL

\* The rows of a run that counted no loss have no hole: what is still on its way comes
\* after every row (_PersistenceWriter._run keeps the order of the captures).
THEOREM RowsKeepTheirOrder == Spec => []RowsHaveNoHole
<1>1. ASSUME LogInv, up, NEW r \in Runs, r \notin lossy, Aligned(r), NEW n \in Rows(r),
             NEW m \in 1..n
      PROVE  m \in Rows(r)
  <2>1. /\ WayInv(r) /\ RingInv(r) /\ RowInv(r) /\ SettledInv(r)
        /\ TypeOK /\ Numbers \subseteq Nat /\ MaxFrames \in Nat
    BY <1>1, FrameBounds DEF LogInv, Numbers
  <2>2. /\ n \in Numbers /\ n \in Nat /\ n < next[r] /\ m \in Nat /\ m <= n /\ 1 <= m
        /\ restored[r] \in Nat /\ next[r] \in Nat
    <3>1. n \in Numbers /\ n \in Nat
      BY <2>1 DEF Rows
    <3>2. n < next[r] /\ restored[r] \in Nat /\ next[r] \in Nat
      BY <1>1, <2>1 DEF RowInv, TypeOK
    <3>. QED BY <3>1, <3>2
  <2>3. CASE m <= restored[r]
    BY <1>1, <2>2, <2>3 DEF Aligned
  <2>4. CASE restored[r] < m
    <3>1. m \in Fresh(r) /\ m \in Numbers
      BY <2>1, <2>2, <2>4 DEF Fresh, Numbers
    <3>2. CASE row[r][m] = issued[r][m]
      BY <2>1, <3>1, <3>2 DEF RingInv, Rows
    <3>3. CASE m \in QueuedIn(queue, r) \union hand[r]
      <4>1. n < m
        BY <1>1, <2>1, <3>3 DEF RowInv, Below
      <4>. QED BY <2>2, <4>1
    <3>4. CASE m \in batch[r]
      <4>1. CASE Unwritten(r)
        <5>1. n < m
          BY <1>1, <2>1, <3>4, <4>1 DEF RowInv, Below
        <5>. QED BY <2>2, <5>1
      <4>2. CASE ~Unwritten(r)
        <5>1. row[r][m] = issued[r][m]
          BY <1>1, <2>1, <3>4, <4>2 DEF SettledInv
        <5>. QED BY <3>2, <5>1
      <4>. QED BY <4>1, <4>2
    <3>. QED BY <1>1, <2>1, <3>1, <3>2, <3>3, <3>4 DEF SettledInv, OnTheWay
  <2>. QED BY <2>2, <2>3, <2>4
<1>2. LogInv => RowsHaveNoHole
  BY <1>1 DEF RowsHaveNoHole
<1>. QED BY <1>2, LogInvariance, PTL

\* A row never changes once it is there (append_frames inserts only).
THEOREM RowsNeverChange == Spec => RowsAreFinal
<1>1. ASSUME LogInv, [Next]_vars, NEW r \in Runs, NEW n \in Rows(r)
      PROVE  row'[r][n] = row[r][n]
  <2>1. CASE \E s \in Runs : AppendFrames(s)
    <3>1. PICK s \in Runs : AppendFrames(s)
      BY <2>1
    <3>2. row \in [Runs -> [Numbers -> Frames \union {0}]] /\ n \in Numbers /\ row[r][n] # 0
      BY <1>1 DEF LogInv, TypeOK, Rows
    <3>. QED BY <3>1, <3>2 DEF AppendFrames
  <2>2. CASE ~\E s \in Runs : AppendFrames(s)
    <3>1. row' = row
      BY <1>1, <2>2
      DEF Next, Handlers, Writer, Closing, vars, Capture, Publish, Enqueue, TakeFrames, BatchDue,
          TakeMarker, WriteDone, Drain, AppendFails, CloseFlush, FlushTimeout, ClosePill,
          CloseJoin, ProcessEnds, Restart
    <3>. QED BY <3>1
  <2>. QED BY <2>1, <2>2
<1>2. LogInv /\ [Next]_vars
      => [\A r \in Runs : \A n \in Rows(r) : row'[r][n] = row[r][n]]_vars
  BY <1>1
<1>. QED BY <1>2, LogInvariance, PTL DEF Spec, RowsAreFinal

=============================================================================
