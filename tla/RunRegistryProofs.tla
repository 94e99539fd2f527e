------------------------- MODULE RunRegistryProofs -------------------------
(***************************************************************************)
(* Proofs about RunRegistry, for every number of gates, records and        *)
(* threads, every bound, and with the sweep on or off.                     *)
(*                                                                         *)
(* The inductive invariant is IInv of RunRegistryInv.  Most steps of the   *)
(* code move one thread from one stage to the next and touch no gate: a    *)
(* Hop.  TokenInv is shown once to survive every Hop, every Drop and every *)
(* opening or closing of a gate, and each action is shown to be one of     *)
(* these; only the steps that pass the continuation from one thread to     *)
(* another (Launch, SubmitResume) and the choice of a gate (TaskPauses)    *)
(* are looked at on their own.                                             *)
(***************************************************************************)
EXTENDS RunRegistryInv, TLAPS

\* Which threads there are.
LEMMA ThreadFacts ==
    /\ Http \in Callers /\ Callers \subseteq Threads /\ Sweeper \in Threads
    /\ Tasks \subseteq Threads
    /\ 0 \in Tasks /\ Gates \subseteq Tasks /\ NoTask \notin Tasks
    /\ Callers \intersect Tasks = {} /\ Sweeper \notin Tasks /\ Sweeper \notin Callers
BY BoundsAssumption, ThreadsAssumption
   DEF Callers, Threads, Tasks, Gates, NoTask

-----------------------------------------------------------------------------
(* Types.                                                                  *)

\* Leave keeps the type.
LEMMA LeaveType ==
    ASSUME ThreadsType, NEW t \in Threads, Leave(t)
    PROVE  ThreadsType'
<1>1. "done" \in Stages /\ "idle" \in Stages
  BY DEF Stages, Quiet
<1>2. "queued" \in Statuses
  BY DEF Statuses, Interruptible
<1>. QED
  BY <1>1, <1>2, BoundsAssumption DEF ThreadsType, Leave, Goto

\* Goto keeps the type.
LEMMA GotoType ==
    ASSUME ThreadsType, NEW t \in Threads, NEW s \in Stages, Goto(t, s),
           UNCHANGED <<ref, target, val>>
    PROVE  ThreadsType'
BY DEF ThreadsType, Goto

\* Outside Quiet a thread holds a record.
LEMMA RecordInHand ==
    ASSUME TypeOK, RefInv, NEW t \in Threads, pc[t] \notin Quiet
    PROVE  ref[t] \in Records /\ Record(t) \in RecordType
BY DEF TypeOK, ThreadsType, MemoryType, RefInv, Record, Records

\* An update of a record keeps its type.
LEMMA UpdateType ==
    ASSUME NEW r \in RecordType, NEW st \in Statuses, NEW g \in 0..NGates,
           NEW c \in BOOLEAN
    PROVE  /\ [r EXCEPT !.st = st, !.gate = g, !.ctx = c] \in RecordType
           /\ [r EXCEPT !.gate = g, !.st = st] \in RecordType
BY DEF RecordType

\* A new status keeps the type of a record.
LEMMA StatusType ==
    ASSUME NEW r \in RecordType, NEW st \in Statuses
    PROVE  /\ [r EXCEPT !.st = st] \in RecordType
           /\ [r EXCEPT !.st = st, !.cancel = TRUE] \in RecordType
BY DEF RecordType

\* SetRecord keeps the type.
LEMMA SetRecordType ==
    ASSUME MemoryType, NEW t \in Threads, NEW r \in RecordType, SetRecord(t, r),
           UNCHANGED <<up, current, reserved, future>>
    PROVE  MemoryType'
BY DEF MemoryType, SetRecord

\* At most one gate is open, so the newest open one is defined.
LEMMA PendingGateType ==
    ASSUME OneContinuation PROVE PendingGate \in 0..NGates
<1>1. CASE \E g \in Gates : gate[g] = "open"
  <2>1. PICK g \in Gates : gate[g] = "open" /\ \A h \in Gates : gate[h] = "open" => h <= g
    BY <1>1, BoundsAssumption DEF OneContinuation, Gates
  <2>. QED BY <1>1, <2>1, BoundsAssumption DEF PendingGate, Gates
<1>2. CASE ~\E g \in Gates : gate[g] = "open"
  BY <1>2, BoundsAssumption DEF PendingGate
<1>. QED BY <1>1, <1>2

\* A call that loads its record keeps the types of what it touches.
LEMMA RequireType ==
    ASSUME IInv, NEW t \in Threads, NEW stage \in Stages, NEW install \in Stages,
           NEW g \in 0..NGates, Require(t, stage, install, g)
    PROVE  TypeOK'
<1>1. RestoredRecord \in RecordType
  <2>1. OneContinuation /\ DbType
    BY DEF IInv, TypeOK, TokenInv
  <2>2. PendingGate \in 0..NGates
    BY <2>1, PendingGateType
  <2>. QED BY <2>1, <2>2, BoundsAssumption DEF RestoredRecord, RecordType, DbType
<1>2. DbType' /\ HistoryType'
  BY DEF IInv, TypeOK, DbType, HistoryType, Require, db, history
<1>3. MemoryType'
  BY <1>1 DEF IInv, TypeOK, MemoryType, Require
<1>4. ThreadsType'
  <2>1. pc' \in [Threads -> Stages]
    BY DEF IInv, TypeOK, ThreadsType, Require, Goto
  <2>2. ref' \in [Threads -> 0..NRecords]
    <3>1. CASE current # 0
      BY <3>1, BoundsAssumption DEF IInv, TypeOK, ThreadsType, MemoryType, Require
    <3>2. CASE current = 0
      BY <3>2, BoundsAssumption DEF IInv, TypeOK, ThreadsType, Require, Records
    <3>. QED BY <3>1, <3>2
  <2>. QED BY <2>1, <2>2 DEF IInv, TypeOK, ThreadsType, Require
<1>. QED BY <1>2, <1>3, <1>4 DEF TypeOK

-----------------------------------------------------------------------------
(* TypeOK is preserved, one part of the state at a time; the calls that load *)
(* the record are covered by RequireType.                                  *)

\* The calls that look the record up.
Calls ==
    \/ \E c \in Callers, g \in Gates : AnswerCall(c, g)
    \/ CancelCall
    \/ SweepCall

\* A call keeps the type.
LEMMA CallType == ASSUME IInv, Calls PROVE TypeOK'
<1>1. /\ {"answer_check", "answer_install"} \subseteq Stages
      /\ {"cancel_check", "cancel_install"} \subseteq Stages
      /\ {"sweep_check", "sweep_install"} \subseteq Stages
  BY DEF Stages, AnswerStages, CancelStages, SweepStages
<1>2. 0 \in 0..NGates /\ Gates \subseteq 0..NGates
  BY BoundsAssumption DEF Gates
<1>3. ASSUME NEW c \in Callers, NEW g \in Gates, AnswerCall(c, g) PROVE TypeOK'
  BY <1>1, <1>2, <1>3, RequireType, ThreadFacts DEF AnswerCall
<1>4. CASE CancelCall
  BY <1>1, <1>2, <1>4, RequireType, ThreadFacts DEF CancelCall
<1>5. CASE SweepCall
  BY <1>1, <1>2, <1>5, RequireType, ThreadFacts DEF SweepCall
<1>. QED BY <1>3, <1>4, <1>5 DEF Calls
\* What a thread's stage says about the gate it works on.
LEMMA TargetInHand ==
    ASSUME TypeOK, TargetInv, NEW t \in Threads, pc[t] \in GateStages
    PROVE  target[t] \in Gates
BY DEF TargetInv

\* Every step keeps the type of the store.
LEMMA DbTypeStep ==
    ASSUME IInv, Next, ~Calls
    PROVE  DbType'
<1>. DEFINE Same == row' = row /\ aged' = aged /\ gate' = gate /\ anchor' = anchor
<1>0. TypeOK /\ DbType /\ ThreadsType /\ TargetInv
  BY DEF IInv, TypeOK
<1>1. CASE Same
  BY <1>0, <1>1 DEF DbType
<1>2. ASSUME NEW c \in Callers, AnswerStep(c) PROVE DbType'
  <2>1. CASE AnswerAccepted(c)
    BY <1>0, <2>1 DEF DbType, AnswerAccepted, SetRow, Statuses, Interruptible, Answered
  <2>2. CASE ReopenRow(c)
    BY <1>0, <2>2 DEF DbType, ReopenRow, SetRow, Statuses
  <2>. QED
    BY <1>1, <1>2, <2>1, <2>2
       DEF AnswerStep, Install, AnswerCheck, AnswerConflict, AnswerApply, Settled,
           SettleTimeout, SubmitResume, SubmitBusy, ReopenRecord, db
<1>3. CASE CancelStep
  <2>1. CASE CancelGate
    BY <1>0, <2>1 DEF DbType, CancelGate, SetRow, Statuses, Interruptible, Answered
  <2>2. CASE CancelClear
    BY <1>0, <2>2, BoundsAssumption DEF DbType, CancelClear
  <2>. QED
    BY <1>1, <1>3, <2>1, <2>2
       DEF CancelStep, Install, CancelCheck, CancelMark, CancelRequest, db
<1>4. ASSUME NEW k \in Tasks, TaskBookkeeping(k) PROVE DbType'
  <2>1. CASE TaskClear(k)
    BY <1>0, <2>1, BoundsAssumption DEF DbType, TaskClear
  <2>2. CASE PendAnchor(k)
    BY <1>0, <2>2, ThreadFacts DEF DbType, ThreadsType, PendAnchor
  <2>3. CASE PendOpen(k)
    BY <1>0, <2>3 DEF DbType, PendOpen, SetRow, Statuses
  <2>. QED
    BY <1>1, <1>4, <2>1, <2>2, <2>3
       DEF TaskBookkeeping, TaskStart, TaskBoundary, TaskMark, PendRecord, db
<1>5. ASSUME NEW k \in Tasks, TaskStep(k) \/ TaskEnds(k) \/ BudgetStop(k)
      PROVE  DbType'
  BY <1>0, <1>5, BoundsAssumption
     DEF DbType, TaskStep, TaskEnds, TaskReturns, TaskPauses, BudgetStop, db
<1>6. CASE Age
  BY <1>0, <1>6 DEF DbType, Age
<1>7. CASE SweepStep
  <2>1. CASE SweepClaim
    BY <1>0, <2>1, ThreadFacts DEF DbType, ThreadsType, SweepClaim, SetRow
  <2>2. CASE SweepClose
    BY <1>0, <2>2 DEF DbType, SweepClose, SetRow, Statuses, Interruptible, Answered
  <2>3. CASE SweepClear
    BY <1>0, <2>3, BoundsAssumption DEF DbType, SweepClear
  <2>. QED
    BY <1>1, <1>7, <2>1, <2>2, <2>3
       DEF SweepStep, Install, SweepCheck, Judge, SweepLoad, SweepAdopt, SweepLost, SweepMark, db
<1>8. ASSUME NEW t \in Threads, Saves(t) \/ DatabaseFails(t) PROVE DbType'
  BY <1>0, <1>8
     DEF DbType, ThreadsType, Saves, PersistRead, PersistWrite, AnnounceGate,
         DatabaseFails, SetRow, db
<1>9. CASE Launch \/ Crash \/ Restart
  BY <1>1, <1>9 DEF Launch, Crash, Restart, db
<1>. QED
  BY <1>2, <1>3, <1>4, <1>5, <1>6, <1>7, <1>8, <1>9 DEF Next, Calls

\* Every step keeps the type of what is remembered.
LEMMA HistoryTypeStep ==
    ASSUME IInv, Next, ~Calls
    PROVE  HistoryType'
<1>0. TypeOK /\ HistoryType /\ TargetInv
  BY DEF IInv, TypeOK
<1>1. CASE UNCHANGED history
  BY <1>0, <1>1 DEF HistoryType, history
<1>2. ASSUME NEW kind \in Bounded, NEW limit, Spend(kind, limit),
             UNCHANGED <<starts, forgotten>>, announced' \in BOOLEAN
      PROVE  HistoryType'
  BY <1>0, <1>2 DEF HistoryType, Spend
<1>3. ASSUME NEW c \in Callers, AnswerStep(c) PROVE HistoryType'
  <2>1. CASE SettleTimeout(c)
    BY <1>0, <1>2, <2>1 DEF SettleTimeout, HistoryType, Bounded
  <2>2. CASE SubmitResume(c)
    <3>1. target[c] \in Gates
      BY <1>0, <2>2, TargetInHand, ThreadFacts DEF SubmitResume, GateStages, AnswerStages
    <3>. QED
      BY <1>0, <2>2, <3>1 DEF SubmitResume, HistoryType
  <2>. QED
    BY <1>1, <1>3, <2>1, <2>2
       DEF AnswerStep, Install, AnswerCheck, AnswerAccepted, AnswerConflict, AnswerApply,
           Settled, SubmitBusy, ReopenRow, ReopenRecord
<1>4. CASE CancelStep
  <2>1. CASE CancelCheck
    BY <1>0, <1>2, <2>1 DEF CancelCheck, HistoryType, Bounded
  <2>2. CASE CancelMark
    BY <1>0, <2>2 DEF CancelMark, HistoryType
  <2>. QED
    BY <1>1, <1>4, <2>1, <2>2 DEF CancelStep, Install, CancelGate, CancelClear, CancelRequest
<1>5. ASSUME NEW k \in Tasks, TaskBookkeeping(k) \/ TaskStep(k) \/ TaskEnds(k)
      PROVE  HistoryType'
  BY <1>1, <1>5
     DEF TaskBookkeeping, TaskStart, TaskBoundary, TaskMark, TaskClear, PendAnchor,
         PendOpen, PendRecord, TaskStep, TaskEnds, TaskReturns, TaskPauses
<1>6. ASSUME NEW k \in Tasks, BudgetStop(k) PROVE HistoryType'
  BY <1>0, <1>2, <1>6 DEF BudgetStop, HistoryType, Bounded
<1>7. CASE Age \/ SweepStep
  <2>1. CASE SweepLost
    BY <1>0, <2>1 DEF IInv, TypeOK, MemoryType, SweepLost, HistoryType, FutureLive, Live
  <2>. QED
    BY <1>1, <1>7, <2>1
       DEF Age, SweepStep, Install, SweepCheck, Judge, SweepLoad, SweepAdopt, SweepClaim,
           SweepClose, SweepClear, SweepMark
<1>8. ASSUME NEW t \in Threads, Saves(t) PROVE HistoryType'
  BY <1>1, <1>8 DEF Saves, PersistRead, PersistWrite, AnnounceGate
<1>9. ASSUME NEW t \in Threads, DatabaseFails(t) PROVE HistoryType'
  BY <1>0, <1>2, <1>9 DEF DatabaseFails, HistoryType, Bounded
<1>10. CASE Crash
  BY <1>0, <1>2, <1>10 DEF Crash, HistoryType, Bounded
<1>11. CASE Launch \/ Restart
  BY <1>1, <1>11 DEF Launch, Restart
<1>. QED
  BY <1>3, <1>4, <1>5, <1>6, <1>7, <1>8, <1>9, <1>10, <1>11 DEF Next, Calls

\* The actions that put something on the record in hand.

\* The steps that set a status in memory keep its type.
LEMMA SetterType ==
    ASSUME IInv
    PROVE  /\ \A c \in Callers : AnswerApply(c) \/ ReopenRecord(c) => MemoryType'
           /\ CancelMark \/ CancelRequest => MemoryType'
           /\ \A k \in Tasks : TaskStart(k) \/ BudgetStop(k) \/ PendRecord(k) => MemoryType'
           /\ \A t \in Threads : AnnounceGate(t) => MemoryType'
           /\ SweepAdopt \/ SweepMark => MemoryType'
<1>0. TypeOK /\ RefInv /\ DbType /\ MemoryType /\ ThreadsType
  BY DEF IInv, TypeOK
<1>1. ASSUME NEW c \in Callers, AnswerApply(c) PROVE MemoryType'
  <2>1. c \in Threads /\ pc[c] \notin Quiet
    BY <1>1, ThreadFacts DEF AnswerApply, Quiet
  <2>2. "running" \in Statuses /\ 0 \in 0..NGates
    BY <1>0, <2>1, BoundsAssumption DEF DbType, ThreadsType, Statuses, Terminal, Interruptible
  <2>3. [Record(c) EXCEPT !.gate = 0, !.st = "running"] \in RecordType
    BY <1>0, <2>1, <2>2, RecordInHand, UpdateType
  <2>. QED
    BY <1>0, <1>1, <2>1, <2>3, SetRecordType DEF AnswerApply
<1>2. ASSUME NEW c \in Callers, ReopenRecord(c) PROVE MemoryType'
  <2>1. c \in Threads /\ pc[c] \notin Quiet
    BY <1>2, ThreadFacts DEF ReopenRecord, Quiet
  <2>2. "waiting" \in Statuses /\ target[c] \in 0..NGates
    BY <1>0, <2>1, BoundsAssumption DEF DbType, ThreadsType, Statuses, Terminal, Interruptible
  <2>3. [Record(c) EXCEPT !.st = "waiting", !.gate = target[c], !.ctx = TRUE] \in RecordType
    BY <1>0, <2>1, <2>2, RecordInHand, UpdateType
  <2>. QED
    BY <1>0, <1>2, <2>1, <2>3, SetRecordType DEF ReopenRecord
<1>3. ASSUME CancelMark PROVE MemoryType'
  <2>1. Http \in Threads /\ pc[Http] \notin Quiet
    BY <1>3, ThreadFacts DEF CancelMark, Quiet
  <2>2. "cancelled" \in Statuses /\ 0 \in 0..NGates
    BY <1>0, <2>1, BoundsAssumption DEF DbType, ThreadsType, Statuses, Terminal, Interruptible
  <2>3. [Record(Http) EXCEPT !.st = "cancelled", !.gate = 0, !.ctx = FALSE] \in RecordType
    BY <1>0, <2>1, <2>2, RecordInHand, UpdateType
  <2>. QED
    BY <1>0, <1>3, <2>1, <2>3, SetRecordType DEF CancelMark
<1>4. ASSUME CancelRequest PROVE MemoryType'
  <2>1. Http \in Threads /\ pc[Http] \notin Quiet
    BY <1>4, ThreadFacts DEF CancelRequest, Quiet
  <2>2. "cancelling" \in Statuses
    BY <1>0, <2>1, BoundsAssumption DEF DbType, ThreadsType, Statuses, Terminal, Interruptible
  <2>3. [Record(Http) EXCEPT !.st = "cancelling", !.cancel = TRUE] \in RecordType
    BY <1>0, <2>1, <2>2, RecordInHand, StatusType
  <2>. QED
    BY <1>0, <1>4, <2>1, <2>3, SetRecordType DEF CancelRequest
<1>5. ASSUME NEW k \in Tasks, TaskStart(k) PROVE MemoryType'
  <2>1. k \in Threads /\ pc[k] \notin Quiet
    BY <1>5, ThreadFacts DEF TaskStart, Quiet
  <2>2. "running" \in Statuses
    BY <1>0, <2>1, BoundsAssumption DEF DbType, ThreadsType, Statuses, Terminal, Interruptible
  <2>3. [Record(k) EXCEPT !.st = "running"] \in RecordType
    BY <1>0, <2>1, <2>2, RecordInHand, StatusType
  <2>. QED
    BY <1>0, <1>5, <2>1, <2>3, SetRecordType DEF TaskStart
<1>6. ASSUME NEW k \in Tasks, BudgetStop(k) PROVE MemoryType'
  <2>1. k \in Threads /\ pc[k] \notin Quiet
    BY <1>6, ThreadFacts DEF BudgetStop, Quiet
  <2>2. "cancelling" \in Statuses
    BY <1>0, <2>1, BoundsAssumption DEF DbType, ThreadsType, Statuses, Terminal, Interruptible
  <2>3. [Record(k) EXCEPT !.st = "cancelling", !.cancel = TRUE] \in RecordType
    BY <1>0, <2>1, <2>2, RecordInHand, StatusType
  <2>. QED
    BY <1>0, <1>6, <2>1, <2>3, SetRecordType DEF BudgetStop
<1>7. ASSUME NEW k \in Tasks, PendRecord(k) PROVE MemoryType'
  <2>1. k \in Threads /\ pc[k] \notin Quiet
    BY <1>7, ThreadFacts DEF PendRecord, Quiet
  <2>2. "waiting" \in Statuses /\ target[k] \in 0..NGates
    BY <1>0, <2>1, BoundsAssumption DEF DbType, ThreadsType, Statuses, Terminal, Interruptible
  <2>3. [Record(k) EXCEPT !.st = "waiting", !.gate = target[k], !.ctx = TRUE] \in RecordType
    BY <1>0, <2>1, <2>2, RecordInHand, UpdateType
  <2>. QED
    BY <1>0, <1>7, <2>1, <2>3, SetRecordType DEF PendRecord
<1>8. ASSUME NEW t \in Threads, AnnounceGate(t) PROVE MemoryType'
  <2>1. t \in Threads /\ pc[t] \notin Quiet
    BY <1>8, ThreadFacts DEF AnnounceGate, Quiet
  <2>2. "waiting" \in Statuses /\ target[t] \in 0..NGates
    BY <1>0, <2>1, BoundsAssumption DEF DbType, ThreadsType, Statuses, Terminal, Interruptible
  <2>3. [Record(t) EXCEPT !.gate = target[t], !.st = "waiting"] \in RecordType
    BY <1>0, <2>1, <2>2, RecordInHand, UpdateType
  <2>. QED
    BY <1>0, <1>8, <2>1, <2>3, SetRecordType DEF AnnounceGate
<1>9. ASSUME SweepAdopt PROVE MemoryType'
  <2>1. Sweeper \in Threads /\ pc[Sweeper] \notin Quiet
    BY <1>9, ThreadFacts DEF SweepAdopt, Quiet
  <2>2. "waiting" \in Statuses /\ target[Sweeper] \in 0..NGates
    BY <1>0, <2>1, BoundsAssumption DEF DbType, ThreadsType, Statuses, Terminal, Interruptible
  <2>3. [Record(Sweeper) EXCEPT !.st = "waiting", !.gate = target[Sweeper], !.ctx = TRUE] \in RecordType
    BY <1>0, <2>1, <2>2, RecordInHand, UpdateType
  <2>. QED
    BY <1>0, <1>9, <2>1, <2>3, SetRecordType DEF SweepAdopt
<1>10. ASSUME SweepMark PROVE MemoryType'
  <2>1. Sweeper \in Threads /\ pc[Sweeper] \notin Quiet
    BY <1>10, ThreadFacts DEF SweepMark, Quiet
  <2>2. val[Sweeper] \in Statuses /\ 0 \in 0..NGates
    BY <1>0, <2>1, BoundsAssumption DEF DbType, ThreadsType, Statuses, Terminal, Interruptible
  <2>3. [Record(Sweeper) EXCEPT !.st = val[Sweeper], !.gate = 0, !.ctx = FALSE] \in RecordType
    BY <1>0, <2>1, <2>2, RecordInHand, UpdateType
  <2>. QED
    BY <1>0, <1>10, <2>1, <2>3, SetRecordType DEF SweepMark
<1>. QED BY <1>1, <1>2, <1>3, <1>4, <1>5, <1>6, <1>7, <1>8, <1>9, <1>10

\* A task that marks its run keeps the type.
LEMMA TaskMarkType ==
    ASSUME IInv, NEW k \in Tasks, TaskMark(k)
    PROVE  MemoryType'
<1>0. TypeOK /\ RefInv /\ MemoryType
  BY DEF IInv, TypeOK
<1>1. k \in Threads /\ pc[k] \notin Quiet
  BY ThreadFacts DEF TaskMark, Quiet
<1>2. PICK st \in Statuses : \/ SetRecord(k, Finished(Record(k), st))
                             \/ SetRecord(k, [Record(k) EXCEPT !.st = st])
  BY DEF TaskMark, Statuses, Terminal
<1>3. Record(k) \in RecordType /\ 0 \in 0..NGates
  BY <1>0, <1>1, RecordInHand, BoundsAssumption
<1>4. Finished(Record(k), st) \in RecordType
  BY <1>3, UpdateType DEF Finished
<1>5. [Record(k) EXCEPT !.st = st] \in RecordType
  BY <1>3, StatusType
<1>. QED
  BY <1>0, <1>1, <1>2, <1>4, <1>5, SetRecordType DEF TaskMark

\* Every step keeps the type of the memory.
LEMMA MemoryTypeStep ==
    ASSUME IInv, Next, ~Calls
    PROVE  MemoryType'
<1>0. TypeOK /\ MemoryType /\ TargetInv /\ ThreadsType
  BY DEF IInv, TypeOK
<1>1. CASE UNCHANGED memory
  BY <1>0, <1>1 DEF MemoryType, memory
<1>2. ASSUME NEW t \in Threads, NEW install, NEW stage, Install(t, install, stage)
      PROVE  MemoryType'
  BY <1>0, <1>2 DEF MemoryType, ThreadsType, Install
<1>3. ASSUME NEW c \in Callers, AnswerStep(c) PROVE MemoryType'
  <2>1. CASE SubmitResume(c)
    <3>1. target[c] \in Gates
      BY <1>0, <2>1, TargetInHand, ThreadFacts DEF SubmitResume, GateStages, AnswerStages
    <3>. QED
      BY <1>0, <2>1, <3>1, ThreadFacts DEF SubmitResume, MemoryType
  <2>2. CASE SubmitBusy(c)
    BY <1>0, <2>2 DEF SubmitBusy, MemoryType
  <2>. QED
    BY <1>1, <1>2, <1>3, <2>1, <2>2, SetterType, ThreadFacts
       DEF AnswerStep, AnswerCheck, AnswerAccepted, AnswerConflict, Settled,
           SettleTimeout, ReopenRow
<1>4. CASE CancelStep
  BY <1>1, <1>2, <1>4, SetterType, ThreadFacts
     DEF CancelStep, CancelCheck, CancelGate, CancelClear
<1>5. ASSUME NEW k \in Tasks,
             TaskBookkeeping(k) \/ TaskStep(k) \/ TaskEnds(k) \/ BudgetStop(k)
      PROVE  MemoryType'
  BY <1>1, <1>5, SetterType, TaskMarkType
     DEF TaskBookkeeping, TaskBoundary, TaskClear, PendAnchor, PendOpen, TaskStep,
         TaskEnds, TaskReturns, TaskPauses
<1>6. CASE Age
  BY <1>1, <1>6 DEF Age
<1>7. CASE SweepStep
  <2>1. CASE SweepLost
    BY <1>0, <2>1, BoundsAssumption DEF SweepLost, MemoryType
  <2>. QED
    BY <1>1, <1>2, <1>7, <2>1, SetterType, ThreadFacts
       DEF SweepStep, SweepCheck, SweepLoad, SweepClaim, SweepClose, SweepClear
<1>8. ASSUME NEW t \in Threads, Saves(t) \/ DatabaseFails(t) PROVE MemoryType'
  BY <1>1, <1>8, SetterType DEF Saves, PersistRead, PersistWrite, DatabaseFails
<1>9. CASE Crash
  <2>1. BlankRecord \in RecordType
    BY BoundsAssumption DEF BlankRecord, RecordType, Statuses, Interruptible
  <2>2. rec' \in [Records -> RecordType]
    BY <1>9, <2>1 DEF Crash
  <2>3. current' \in 0..NRecords
    BY <1>9, BoundsAssumption DEF Crash
  <2>. QED
    BY <1>9, <2>2, <2>3 DEF Crash, MemoryType
<1>10. CASE Launch \/ Restart
  BY <1>0, <1>10, ThreadFacts DEF Launch, Restart, MemoryType
<1>. QED
  BY <1>3, <1>4, <1>5, <1>6, <1>7, <1>8, <1>9, <1>10 DEF Next, Calls

\* Every step keeps the type of the threads.
LEMMA ThreadsTypeStep ==
    ASSUME IInv, Next, ~Calls
    PROVE  ThreadsType'
<1>. DEFINE Move(t) == \E s \in Stages : Goto(t, s) /\ UNCHANGED <<ref, target, val>>
<1>0. TypeOK /\ DbType /\ MemoryType /\ ThreadsType /\ RefInv /\ TargetInv
  BY DEF IInv, TypeOK
<1>1. ASSUME NEW t \in Threads, Move(t) \/ Leave(t) PROVE ThreadsType'
  BY <1>0, <1>1, GotoType, LeaveType
<1>2. CASE UNCHANGED threads
  BY <1>0, <1>2 DEF ThreadsType, threads
<1>3. /\ AnswerStages \subseteq Stages /\ CancelStages \subseteq Stages
      /\ TaskStages \subseteq Stages /\ SweepStages \subseteq Stages
      /\ Quiet \union {"save", "write"} \subseteq Stages
  BY DEF Stages
<1>4. ASSUME NEW c \in Callers, AnswerStep(c) PROVE ThreadsType'
  <2>0. c \in Threads
    BY ThreadFacts
  <2>1. CASE SubmitResume(c)
    <3>1. target[c] \in Gates /\ target[c] \in Threads /\ ref[c] \in 0..NRecords
      BY <1>0, <2>0, <2>1, TargetInHand, ThreadFacts
         DEF SubmitResume, GateStages, AnswerStages, ThreadsType
    <3>2. "idle" \in Stages /\ "queued" \in Stages
      BY DEF Stages, Quiet, TaskStages
    <3>. QED
      BY <1>0, <2>0, <2>1, <3>1, <3>2, BoundsAssumption DEF SubmitResume, ThreadsType
  <2>2. CASE AnswerCheck(c) \/ AnswerConflict(c)
    BY <1>1, <1>3, <2>0, <2>2 DEF AnswerCheck, AnswerConflict, AnswerStages
  <2>3. CASE Install(c, "answer_install", "answer_check") \/ AnswerAccepted(c)
             \/ AnswerApply(c) \/ Settled(c) \/ SettleTimeout(c)
    BY <1>1, <1>3, <2>0, <2>3
       DEF Install, AnswerAccepted, AnswerApply, Settled, SettleTimeout, AnswerStages
  <2>4. CASE SubmitBusy(c) \/ ReopenRow(c) \/ ReopenRecord(c)
    BY <1>1, <1>3, <2>0, <2>4 DEF SubmitBusy, ReopenRow, ReopenRecord, AnswerStages
  <2>. QED
    BY <1>4, <2>1, <2>2, <2>3, <2>4 DEF AnswerStep
<1>5. CASE CancelStep
  <2>0. Http \in Threads
    BY ThreadFacts
  <2>1. CASE CancelCheck
    <3>1. CASE \/ Leave(Http)
               \/ Goto(Http, "cancel_gate") /\ UNCHANGED <<ref, target, val>>
               \/ Goto(Http, "cancelling") /\ UNCHANGED <<ref, target, val>>
      BY <1>1, <1>3, <2>0, <3>1 DEF CancelStages
    <3>2. CASE /\ pc' = [pc EXCEPT ![Http] = "cancel_mark", ![future] = "done"]
               /\ ref' = [ref EXCEPT ![future] = 0]
               /\ UNCHANGED <<target, val>>
      <4>1. "cancel_mark" \in Stages /\ "done" \in Stages
        BY DEF Stages, Quiet, CancelStages
      <4>2. pc' \in [Threads -> Stages]
        BY <1>0, <3>2, <4>1 DEF ThreadsType
      <4>3. ref' \in [Threads -> 0..NRecords]
        <5>1. 0 \in 0..NRecords /\ ref' = [ref EXCEPT ![future] = 0]
          BY <3>2, BoundsAssumption
        <5>. QED
          BY <1>0, <5>1 DEF ThreadsType
      <4>. QED
        BY <1>0, <3>2, <4>2, <4>3 DEF ThreadsType
    <3>. QED
      BY <2>1, <3>1, <3>2 DEF CancelCheck
  <2>2. CASE Install(Http, "cancel_install", "cancel_check") \/ CancelGate \/ CancelClear
             \/ CancelMark \/ CancelRequest
    BY <1>1, <1>3, <2>0, <2>2
       DEF Install, CancelGate, CancelClear, CancelMark, CancelRequest, CancelStages
  <2>. QED
    BY <1>5, <2>1, <2>2 DEF CancelStep
<1>6. ASSUME NEW k \in Tasks, TaskBookkeeping(k) \/ TaskStep(k) \/ TaskReturns(k)
      PROVE  ThreadsType'
  <2>0. k \in Threads
    BY ThreadFacts
  <2>1. CASE TaskStart(k) \/ TaskBoundary(k) \/ TaskStep(k) \/ TaskClear(k)
    BY <1>1, <1>3, <2>0, <2>1
       DEF TaskStart, TaskBoundary, TaskStep, TaskClear, TaskStages
  <2>2. CASE TaskReturns(k) \/ TaskMark(k)
    BY <1>1, <1>3, <2>0, <2>2 DEF TaskReturns, TaskMark, TaskStages
  <2>3. CASE PendAnchor(k) \/ PendOpen(k) \/ PendRecord(k)
    BY <1>1, <1>3, <2>0, <2>3 DEF PendAnchor, PendOpen, PendRecord, TaskStages
  <2>. QED
    BY <1>6, <2>1, <2>2, <2>3 DEF TaskBookkeeping
<1>7. ASSUME NEW k \in Tasks, TaskPauses(k) PROVE ThreadsType'
  <2>1. PICK g \in Gates : target' = [target EXCEPT ![k] = g]
    BY <1>7 DEF TaskPauses
  <2>2. g \in 0..NGates
    BY BoundsAssumption DEF Gates
  <2>3. target' \in [Threads -> 0..NGates]
    BY <1>0, <2>1, <2>2 DEF ThreadsType
  <2>4. pc' \in [Threads -> Stages]
    BY <1>0, <1>3, <1>7 DEF TaskPauses, Goto, ThreadsType, TaskStages
  <2>. QED
    BY <1>0, <1>7, <2>3, <2>4 DEF TaskPauses, ThreadsType
<1>8. CASE SweepStep
  <2>0. Sweeper \in Threads
    BY ThreadFacts
  <2>1. CASE pc[Sweeper] = "sweep_check" /\ Judge
    <3>1. Verdict(Record(Sweeper).st) \in Statuses
      BY DEF Verdict, Statuses, Terminal
    <3>2. "sweep_load" \in Stages /\ "claim" \in Stages
      BY <1>3 DEF SweepStages
    <3>3. Record(Sweeper).gate \in 0..NGates
      BY <1>0, <2>0, <2>1, RecordInHand DEF Quiet, RecordType
    <3>. QED
      BY <1>0, <2>1, <3>1, <3>2, <3>3 DEF Judge, Goto, ThreadsType
  <2>2. CASE SweepCheck \/ SweepLost
    BY <1>1, <1>3, <2>0, <2>1, <2>2 DEF SweepCheck, SweepLost, SweepStages
  <2>3. CASE Install(Sweeper, "sweep_install", "sweep_check") \/ SweepLoad \/ SweepAdopt
             \/ SweepClaim \/ SweepClose \/ SweepClear \/ SweepMark
    BY <1>1, <1>3, <2>0, <2>3
       DEF Install, SweepLoad, SweepAdopt, SweepClaim, SweepClose, SweepClear, SweepMark,
           SweepStages
  <2>. QED
    BY <1>8, <2>1, <2>2, <2>3 DEF SweepStep
<1>9. ASSUME NEW t \in Threads, Saves(t) \/ DatabaseFails(t) PROVE ThreadsType'
  <2>1. CASE PersistRead(t)
    <3>1. Record(t).st \in Statuses
      BY <1>0, <2>1, RecordInHand DEF PersistRead, Quiet, RecordType
    <3>2. "write" \in Stages /\ "write_start" \in Stages
      BY <1>3 DEF TaskStages
    <3>. QED
      BY <1>0, <2>1, <3>1, <3>2 DEF PersistRead, Goto, ThreadsType
  <2>2. CASE PersistWrite(t)
    <3>1. CASE pc[t] = "write_start"
      <4>1. "boundary" \in Stages /\ "queued" \in Statuses
        BY <1>3 DEF TaskStages, Statuses, Interruptible
      <4>. QED
        BY <1>0, <2>2, <3>1, <4>1 DEF PersistWrite, Goto, ThreadsType
    <3>2. CASE pc[t] # "write_start"
      BY <1>1, <2>2, <3>2 DEF PersistWrite
    <3>. QED BY <3>1, <3>2
  <2>3. CASE AnnounceGate(t) \/ DatabaseFails(t)
    BY <1>1, <1>3, <2>3 DEF AnnounceGate, DatabaseFails, SweepStages
  <2>. QED
    BY <1>9, <2>1, <2>2, <2>3 DEF Saves
<1>10. CASE Crash
  <2>1. {"idle", "none", "done"} \subseteq Stages /\ "queued" \in Statuses
    BY DEF Stages, Quiet, Statuses, Interruptible
  <2>. QED
    BY <1>10, <2>1, BoundsAssumption DEF Crash, ThreadsType
<1>11. CASE Launch
  <2>1. "idle" \in Stages /\ "queued" \in Stages
    BY DEF Stages, Quiet, TaskStages
  <2>. QED
    BY <1>0, <1>11, <2>1, ThreadFacts, BoundsAssumption DEF Launch, ThreadsType
<1>12. CASE Restart \/ Age \/ \E k \in Tasks : BudgetStop(k)
  BY <1>2, <1>12 DEF Restart, Age, BudgetStop
<1>. QED
  BY <1>4, <1>5, <1>6, <1>7, <1>8, <1>9, <1>10, <1>11, <1>12 DEF Next, Calls, TaskEnds

\* Every step keeps the type.
LEMMA TypeStep ==
    ASSUME IInv, [Next]_vars
    PROVE  TypeOK'
<1>1. CASE Calls
  BY <1>1, CallType
<1>2. CASE Next /\ ~Calls
  BY <1>2, DbTypeStep, MemoryTypeStep, ThreadsTypeStep, HistoryTypeStep DEF TypeOK
<1>3. CASE UNCHANGED vars
  BY <1>3 DEF IInv, TypeOK, DbType, MemoryType, ThreadsType, HistoryType, vars, db, memory,
         threads, history
<1>. QED BY <1>1, <1>2, <1>3

-----------------------------------------------------------------------------
(* A thread in a call has a record, and a thread at a gate knows the gate. *)

\* A thread that got the record has it in hand.
LEMMA RequireRef ==
    ASSUME TypeOK, RefInv, NEW t \in Threads, NEW stage, NEW install, NEW g,
           Require(t, stage, install, g)
    PROVE  RefInv'
<1>1. \A u \in Threads : u # t => pc'[u] = pc[u] /\ ref'[u] = ref[u]
  BY DEF TypeOK, ThreadsType, Require, Goto
<1>2. ref'[t] # 0
  BY DEF TypeOK, ThreadsType, Require, Records
<1>. QED BY <1>1, <1>2 DEF RefInv

\* Every step keeps the references.
LEMMA RefStep ==
    ASSUME IInv, [Next]_vars
    PROVE  RefInv'
<1>0. TypeOK /\ ThreadsType /\ RefInv /\ TargetInv
  BY DEF IInv, TypeOK
<1>1. CASE Calls
  BY <1>0, <1>1, RequireRef, ThreadFacts DEF Calls, AnswerCall, CancelCall, SweepCall
<1>2. CASE Launch
  BY <1>0, <1>2, ThreadFacts DEF Launch, RefInv, ThreadsType, Quiet
<1>3. ASSUME NEW c \in Callers, SubmitResume(c) PROVE RefInv'
  <2>1. target[c] \in Threads
    BY <1>0, <1>3, TargetInHand, ThreadFacts DEF SubmitResume, GateStages, AnswerStages
  <2>. QED
    BY <1>0, <1>3, <2>1, ThreadFacts DEF SubmitResume, RefInv, ThreadsType, Quiet
<1>4. ASSUME NEW c \in Callers, AnswerStep(c), ~SubmitResume(c) PROVE RefInv'
  BY <1>0, <1>4, ThreadFacts
     DEF RefInv, ThreadsType, AnswerStep, Install, AnswerCheck, AnswerAccepted,
         AnswerConflict, AnswerApply, Settled, SettleTimeout, SubmitBusy, ReopenRow,
         ReopenRecord, Goto, Leave, Quiet
<1>5. CASE CancelStep
  BY <1>0, <1>5, ThreadFacts
     DEF RefInv, ThreadsType, CancelStep, Install, CancelCheck, CancelGate, CancelClear,
         CancelMark, CancelRequest, Goto, Leave, Quiet
<1>6. ASSUME NEW k \in Tasks,
             TaskBookkeeping(k) \/ TaskStep(k) \/ TaskEnds(k) \/ BudgetStop(k)
      PROVE  RefInv'
  BY <1>0, <1>6, ThreadFacts
     DEF RefInv, ThreadsType, TaskBookkeeping, TaskStart, TaskBoundary, TaskMark,
         TaskClear, PendAnchor, PendOpen, PendRecord, TaskStep, TaskEnds, TaskReturns,
         TaskPauses, BudgetStop, Goto, Quiet, threads
<1>7. CASE SweepStep
  BY <1>0, <1>7, ThreadFacts
     DEF RefInv, ThreadsType, SweepStep, Install, SweepCheck, Judge, SweepLoad, SweepAdopt, SweepClaim,
         SweepLost, SweepClose, SweepClear, SweepMark, Goto, Leave, Quiet
<1>8. ASSUME NEW t \in Threads, PersistRead(t) \/ AnnounceGate(t) PROVE RefInv'
  BY <1>0, <1>8 DEF RefInv, ThreadsType, PersistRead, AnnounceGate, Goto, Quiet
<1>9. ASSUME NEW t \in Threads, PersistWrite(t) \/ DatabaseFails(t) PROVE RefInv'
  BY <1>0, <1>9 DEF RefInv, ThreadsType, PersistWrite, DatabaseFails, Goto, Leave, Quiet
<1>10. CASE Crash
  BY <1>10 DEF Crash, RefInv, Quiet
<1>11. CASE Age \/ Restart \/ UNCHANGED vars
  BY <1>0, <1>11 DEF Age, Restart, RefInv, threads, vars
<1>. QED
  BY <1>1, <1>2, <1>3, <1>4, <1>5, <1>6, <1>7, <1>8, <1>9, <1>10, <1>11
     DEF Next, Calls, Saves

\* Every step keeps TargetInv.
LEMMA TargetStep ==
    ASSUME IInv, [Next]_vars
    PROVE  TargetInv'
<1>0. ThreadsType /\ TargetInv
  BY DEF IInv, TypeOK
<1>. USE DEF TargetInv, GateStages, AnswerStages, ThreadsType
<1>1. CASE Calls
  BY <1>0, <1>1, ThreadFacts DEF Calls, AnswerCall, CancelCall, SweepCall, Require, Goto
<1>2. CASE Launch
  BY <1>0, <1>2, ThreadFacts DEF Launch
<1>3. ASSUME NEW c \in Callers, SubmitResume(c) PROVE TargetInv'
  BY <1>0, <1>3, ThreadFacts DEF SubmitResume
<1>4. ASSUME NEW c \in Callers, AnswerStep(c), ~SubmitResume(c) PROVE TargetInv'
  BY <1>0, <1>4, ThreadFacts
     DEF AnswerStep, Install, AnswerCheck, AnswerAccepted, AnswerConflict, AnswerApply,
         Settled, SettleTimeout, SubmitBusy, ReopenRow, ReopenRecord, Goto, Leave
<1>5. CASE CancelStep
  BY <1>0, <1>5, ThreadFacts
     DEF CancelStep, Install, CancelCheck, CancelGate, CancelClear, CancelMark,
         CancelRequest, Goto, Leave
<1>6. ASSUME NEW k \in Tasks,
             TaskBookkeeping(k) \/ TaskStep(k) \/ TaskEnds(k) \/ BudgetStop(k)
      PROVE  TargetInv'
  BY <1>0, <1>6, ThreadFacts
     DEF TaskBookkeeping, TaskStart, TaskBoundary, TaskMark, TaskClear, PendAnchor,
         PendOpen, PendRecord, TaskStep, TaskEnds, TaskReturns, TaskPauses, BudgetStop,
         Goto, threads
<1>7. CASE SweepStep
  <2>1. CASE pc[Sweeper] = "sweep_check" /\ Judge
    <3>1. Record(Sweeper).gate \in 0..NGates
      BY <2>1, RecordInHand, ThreadFacts DEF IInv, Quiet, RecordType
    <3>2. Record(Sweeper).gate # 0 => Record(Sweeper).gate \in Gates
      BY <3>1, BoundsAssumption DEF Gates
    <3>. QED
      BY <1>0, <2>1, <3>2, ThreadFacts DEF Judge, Goto
  <2>. QED
    BY <1>0, <1>7, <2>1, ThreadFacts
       DEF SweepStep, Install, SweepCheck, SweepLoad, SweepAdopt, SweepClaim, SweepLost,
           SweepClose, SweepClear, SweepMark, Goto, Leave
<1>8. ASSUME NEW t \in Threads, Saves(t) \/ DatabaseFails(t) PROVE TargetInv'
  BY <1>0, <1>8
     DEF Saves, PersistRead, PersistWrite, AnnounceGate, DatabaseFails, Goto, Leave
<1>9. CASE Crash
  BY <1>0, <1>9 DEF Crash
<1>10. CASE Age \/ Restart \/ UNCHANGED vars
  BY <1>0, <1>10 DEF Age, Restart, threads, vars
<1>. QED
  BY <1>1, <1>2, <1>3, <1>4, <1>5, <1>6, <1>7, <1>8, <1>9, <1>10 DEF Next, Calls

-----------------------------------------------------------------------------
(* The moves of the continuation.                                          *)

\* Thread t goes to stage b; it may keep the continuation or drop it, and does
\* not take it.  The pending feedback changes only in the hands of its holder.
Hop(t, b) ==
    /\ pc' = [pc EXCEPT ![t] = b]
    /\ \A u \in Threads : u # t => target'[u] = target[u]
    /\ b \in HoldingStages => pc[t] \in HoldingStages
    /\ b \in ReplyStages => pc[t] \in ReplyStages /\ target'[t] = target[t]
    /\ b \in PauseStages => pc[t] \in PauseStages /\ target'[t] = target[t]
    /\ b \in FlowStages => pc[t] \in FlowStages
    /\ b = "open" => anchor' = target[t] /\ pc[t] = "anchor"
    /\ anchor' # anchor => pc[t] \in HoldingStages /\ b \notin ReplyStages
    /\ UNCHANGED <<gate, starts>>

\* Threads stop holding it.
Drop ==
    /\ \A u \in Threads : \/ pc'[u] = pc[u] /\ target'[u] = target[u]
                          \/ pc'[u] \notin HoldingStages
    /\ UNCHANGED <<gate, starts, anchor>>

\* Thread t gives it to thread u, which executes the flow.
Pass(t, u) ==
    /\ t # u /\ pc[t] \in HoldingStages
    /\ pc'[t] \notin HoldingStages /\ pc'[u] \in FlowStages
    /\ \A v \in Threads : v \notin {t, u} => pc'[v] = pc[v]
    /\ \A g \in Gates : gate'[g] = "none" \/ Consumed(g)'
    /\ UNCHANGED <<gate, anchor>>

\* Thread t opens gate g, for the first time or again.
GateOpens(t, g, b) ==
    /\ pc[t] \in HoldingStages /\ b \notin HoldingStages
    /\ starts[g] = 0 /\ Front(g) /\ anchor = g
    /\ gate' = [gate EXCEPT ![g] = "open"]
    /\ pc' = [pc EXCEPT ![t] = b]
    /\ UNCHANGED <<target, starts, anchor>>

\* Thread t answers gate g; an operator's reply is in its hands from now on.
GateCloses(t, g, answer, b) ==
    /\ gate[g] = "open" /\ answer \in Answered
    /\ gate' = [gate EXCEPT ![g] = answer]
    /\ pc' = [pc EXCEPT ![t] = b]
    /\ b \notin FlowStages \union PauseStages
    /\ b \in ReplyStages => answer = "reply" /\ target[t] = g
    /\ UNCHANGED <<target, starts, anchor>>

\* The stages of replies, pauses and flows differ.
LEMMA StageFacts ==
    /\ ReplyStages \subseteq HoldingStages
    /\ PauseStages \subseteq HoldingStages
    /\ FlowStages \subseteq HoldingStages
    /\ "open" \in PauseStages
    /\ ReplyStages \intersect PauseStages = {}
    /\ ReplyStages \intersect FlowStages = {}
    /\ PauseStages \intersect FlowStages = {}
BY DEF ReplyStages, PauseStages, FlowStages, HoldingStages

\* A thread that moves on in its own stages keeps TokenInv.
LEMMA HopKeepsToken ==
    ASSUME ThreadsType, TokenInv, NEW t \in Threads, NEW b, Hop(t, b)
    PROVE  TokenInv'
BY StageFacts
   DEF ThreadsType, TokenInv, ReplyConsumedOnce, OneContinuation, InOrder, OpenFront,
       ReplyFront, PauseFront, FlowInv, AnchorKept, OpenGateAnchored, Hop, Holding,
       Front, Consumed

\* A thread that drops the token keeps TokenInv.
LEMMA DropKeepsToken ==
    ASSUME TokenInv, Drop
    PROVE  TokenInv'
BY StageFacts
   DEF TokenInv, ReplyConsumedOnce, OneContinuation, InOrder, OpenFront, ReplyFront,
       PauseFront, FlowInv, AnchorKept, OpenGateAnchored, Drop, Holding, Front, Consumed

\* A gate that opens keeps TokenInv.
LEMMA GateOpensKeepsToken ==
    ASSUME ThreadsType, DbType, HistoryType, TokenInv, NEW t \in Threads,
           NEW g \in Gates, NEW b, GateOpens(t, g, b)
    PROVE  TokenInv'
<1>1. /\ pc'[t] = b /\ \A u \in Threads : u # t => pc'[u] = pc[u]
      /\ gate'[g] = "open" /\ \A h \in Gates : h # g => gate'[h] = gate[h]
      /\ \A h \in Gates : gate[h] # "open"
      /\ \A u \in Threads : Holding(u) => u = t
  BY DEF ThreadsType, DbType, GateOpens, TokenInv, OneContinuation, Holding
<1>2. \A u \in Threads : pc'[u] \notin HoldingStages
  BY <1>1 DEF GateOpens, Holding
<1>3. Front(g)'
  BY <1>1, BoundsAssumption DEF GateOpens, Front, Consumed, Gates
<1>4. ReplyConsumedOnce' /\ OneContinuation' /\ OpenFront' /\ OpenGateAnchored'
  BY <1>1, <1>2, <1>3
     DEF GateOpens, TokenInv, ReplyConsumedOnce, OneContinuation, OpenFront, Holding,
         OpenGateAnchored
<1>5. InOrder'
  BY <1>1, BoundsAssumption DEF GateOpens, Front, Consumed, TokenInv, InOrder, Gates
<1>6. ReplyFront' /\ PauseFront' /\ FlowInv' /\ AnchorKept'
  BY <1>2, StageFacts DEF ReplyFront, PauseFront, FlowInv, AnchorKept
<1>. QED BY <1>4, <1>5, <1>6 DEF TokenInv

\* A gate that closes keeps TokenInv.
LEMMA GateClosesKeepsToken ==
    ASSUME ThreadsType, DbType, HistoryType, TokenInv, NEW t \in Threads,
           NEW g \in Gates, NEW answer, NEW b, GateCloses(t, g, answer, b)
    PROVE  TokenInv'
<1>1. /\ pc'[t] = b /\ \A u \in Threads : u # t => pc'[u] = pc[u]
      /\ gate'[g] = answer /\ \A h \in Gates : h # g => gate'[h] = gate[h]
      /\ answer \notin {"none", "open"}
      /\ \A h \in Gates : gate'[h] # "open"
      /\ \A u \in Threads : pc[u] \notin HoldingStages
  BY DEF ThreadsType, DbType, GateCloses, TokenInv, OneContinuation, Holding, Answered
<1>2. starts[g] = 0 /\ Front(g) /\ anchor = g
  BY DEF GateCloses, TokenInv, ReplyConsumedOnce, HistoryType, OpenFront, OpenGateAnchored
<1>3. Front(g)'
  BY <1>1, <1>2, BoundsAssumption DEF GateCloses, Front, Consumed, Gates
<1>4. ReplyConsumedOnce' /\ OneContinuation' /\ OpenFront' /\ OpenGateAnchored'
  BY <1>1, <1>2
     DEF GateCloses, TokenInv, ReplyConsumedOnce, OneContinuation, OpenFront, Holding,
         OpenGateAnchored
<1>5. InOrder'
  BY <1>1 DEF GateCloses, TokenInv, InOrder
<1>6. ReplyFront' /\ PauseFront' /\ FlowInv' /\ AnchorKept'
  BY <1>1, <1>2, <1>3, StageFacts
     DEF GateCloses, ReplyFront, PauseFront, FlowInv, AnchorKept
<1>. QED BY <1>4, <1>5, <1>6 DEF TokenInv

\* A thread that hands the continuation to another one keeps TokenInv.
LEMMA PassKeepsToken ==
    ASSUME TokenInv, NEW t \in Threads, NEW u \in Threads, Pass(t, u),
           ReplyConsumedOnce'
    PROVE  TokenInv'
<1>1. /\ \A v \in Threads : Holding(v) => v = t
      /\ \A h \in Gates : gate[h] # "open"
  BY DEF Pass, TokenInv, OneContinuation, Holding
<1>2. \A v \in Threads : pc'[v] \in HoldingStages => v = u
  BY <1>1 DEF Pass, Holding
<1>3. OneContinuation' /\ InOrder' /\ OpenFront' /\ OpenGateAnchored'
  BY <1>1, <1>2 DEF Pass, TokenInv, OneContinuation, InOrder, OpenFront, Holding,
         OpenGateAnchored
<1>4. ReplyFront' /\ PauseFront' /\ FlowInv' /\ AnchorKept'
  BY <1>2, StageFacts DEF Pass, ReplyFront, PauseFront, FlowInv, AnchorKept, Consumed
<1>. QED BY <1>3, <1>4 DEF TokenInv

-----------------------------------------------------------------------------
(* Every action is one of the moves.                                       *)

\* A call is such a move.
LEMMA CallHops ==
    ASSUME TypeOK, Calls
    PROVE  \E t \in Threads, b \in Stages : Hop(t, b)
<1>1. /\ {"answer_check", "answer_install"} \subseteq Stages
      /\ {"cancel_check", "cancel_install"} \subseteq Stages
      /\ {"sweep_check", "sweep_install"} \subseteq Stages
  BY DEF Stages, AnswerStages, CancelStages, SweepStages
<1>. USE ThreadFacts
     DEF TypeOK, ThreadsType, Hop, Require, Goto, db, history, HoldingStages, ReplyStages,
         PauseStages, FlowStages
<1>2. ASSUME NEW c \in Callers, NEW g \in Gates, AnswerCall(c, g)
      PROVE  Hop(c, "answer_check") \/ Hop(c, "answer_install")
  BY <1>2 DEF AnswerCall
<1>3. CASE CancelCall
  <2>1. Hop(Http, "cancel_check") \/ Hop(Http, "cancel_install")
    BY <1>3 DEF CancelCall
  <2>. QED BY <1>1, <2>1
<1>4. CASE SweepCall
  <2>1. Hop(Sweeper, "sweep_check") \/ Hop(Sweeper, "sweep_install")
    BY <1>4 DEF SweepCall
  <2>. QED BY <1>1, <2>1
<1>. QED BY <1>1, <1>2, <1>3, <1>4 DEF Calls

\* An answer keeps TokenInv.
LEMMA AnswerKeepsToken ==
    ASSUME IInv, NEW c \in Callers, AnswerStep(c)
    PROVE  TokenInv'
<1>0. /\ c \in Threads /\ TypeOK /\ ThreadsType /\ DbType /\ HistoryType
      /\ TargetInv /\ TokenInv
  BY ThreadFacts DEF IInv, TypeOK
<1>1. CASE AnswerAccepted(c)
  <2>1. target[c] \in Gates
    BY <1>0, <1>1, TargetInHand DEF AnswerAccepted, GateStages, AnswerStages
  <2>2. GateCloses(c, target[c], "reply", "accepted")
    BY <1>1 DEF AnswerAccepted, GateCloses, Goto, FlowStages, PauseStages, Answered, history
  <2>. QED BY <1>0, <2>1, <2>2, GateClosesKeepsToken
<1>2. CASE SubmitResume(c)
  <2>1. target[c] \in Gates /\ target[c] \in Threads /\ target[c] # c
    BY <1>0, <1>2, TargetInHand, ThreadFacts DEF SubmitResume, GateStages, AnswerStages
  <2>2. Front(target[c]) /\ gate[target[c]] = "reply" /\ starts[target[c]] = 0
    BY <1>0, <1>2 DEF SubmitResume, TokenInv, ReplyFront, ReplyStages
  <2>3. starts' = [starts EXCEPT ![target[c]] = 1]
    BY <1>0, <1>2, <2>1, <2>2 DEF SubmitResume, HistoryType
  <2>4. ReplyConsumedOnce'
    BY <1>0, <1>2, <2>1, <2>2, <2>3
       DEF SubmitResume, TokenInv, ReplyConsumedOnce, HistoryType, db
  <2>5. \A g \in Gates : gate'[g] = "none" \/ Consumed(g)'
    BY <1>0, <1>2, <2>1, <2>2, <2>3, BoundsAssumption
       DEF SubmitResume, Front, Consumed, HistoryType, Gates, db
  <2>6. Pass(c, target[c])
    BY <1>0, <1>2, <2>1, <2>5
       DEF SubmitResume, Pass, ThreadsType, HoldingStages, FlowStages, db
  <2>. QED BY <1>0, <2>1, <2>4, <2>6, PassKeepsToken
<1>3. CASE ReopenRow(c)
  <2>1. target[c] \in Gates
    BY <1>0, <1>3, TargetInHand DEF ReopenRow, GateStages, AnswerStages
  <2>2. /\ Front(target[c]) /\ gate[target[c]] = "reply" /\ starts[target[c]] = 0
        /\ anchor = target[c]
    BY <1>0, <1>3 DEF ReopenRow, TokenInv, ReplyFront, AnchorKept, ReplyStages
  <2>3. GateOpens(c, target[c], "reopened")
    BY <1>3, <2>2 DEF ReopenRow, GateOpens, Goto, HoldingStages, Answered, history
  <2>. QED BY <1>0, <2>1, <2>3, GateOpensKeepsToken
<1>4. CASE \/ Install(c, "answer_install", "answer_check") \/ AnswerCheck(c)
           \/ AnswerConflict(c) \/ AnswerApply(c) \/ Settled(c) \/ SettleTimeout(c)
           \/ SubmitBusy(c) \/ ReopenRecord(c)
  <2>1. \/ Hop(c, "answer_check") \/ Hop(c, "answer_cas") \/ Hop(c, "idle")
        \/ Hop(c, "settle") \/ Hop(c, "submit") \/ Hop(c, "reopen")
        \/ Hop(c, "reannounce")
    BY <1>0, <1>4, ThreadFacts
       DEF ThreadsType, Hop, Install, AnswerCheck, AnswerConflict, AnswerApply, Settled,
           SettleTimeout, SubmitBusy, ReopenRecord, Goto, Leave, db, history,
           HoldingStages, ReplyStages, PauseStages, FlowStages
  <2>. QED BY <1>0, <2>1, HopKeepsToken
<1>. QED BY <1>1, <1>2, <1>3, <1>4 DEF AnswerStep

\* A cancellation keeps TokenInv.
LEMMA CancelKeepsToken ==
    ASSUME IInv, CancelStep
    PROVE  TokenInv'
<1>0. /\ Http \in Threads /\ TypeOK /\ ThreadsType /\ DbType /\ MemoryType
      /\ HistoryType /\ TokenInv
  BY ThreadFacts DEF IInv, TypeOK
<1>1. CASE CancelGate
  <2>. DEFINE g == Record(Http).gate
  <2>1. CASE g # 0 /\ gate[g] = "open"
    <3>1. g \in Gates
      <4>1. g \in 0..NGates
        BY <1>0, <1>1, RecordInHand DEF IInv, CancelGate, Quiet, RecordType
      <4>. QED BY <2>1, <4>1, BoundsAssumption DEF Gates
    <3>2. GateCloses(Http, g, "cancelled", "cancel_clear")
      BY <1>1, <2>1
         DEF CancelGate, GateCloses, Goto, FlowStages, PauseStages, ReplyStages, Answered,
             history
    <3>. QED BY <1>0, <3>1, <3>2, GateClosesKeepsToken
  <2>2. CASE ~(g # 0 /\ gate[g] = "open")
    <3>1. Hop(Http, "cancel_mark_waiting")
      BY <1>0, <1>1, <2>2
         DEF CancelGate, Hop, Goto, history, HoldingStages, ReplyStages, PauseStages,
             FlowStages
    <3>. QED BY <1>0, <3>1, HopKeepsToken
  <2>. QED BY <2>1, <2>2
<1>2. CASE CancelCheck
  <2>1. Drop
    BY <1>0, <1>2, ThreadFacts
       DEF CancelCheck, Drop, ThreadsType, Goto, Leave, HoldingStages, db
  <2>. QED BY <1>0, <2>1, DropKeepsToken
<1>3. CASE \/ Install(Http, "cancel_install", "cancel_check") \/ CancelClear
           \/ CancelMark \/ CancelRequest
  <2>1. \/ Hop(Http, "cancel_check") \/ Hop(Http, "cancel_mark_waiting")
        \/ Hop(Http, "save")
    BY <1>0, <1>3
       DEF ThreadsType, Hop, Install, CancelClear, CancelMark, CancelRequest, Goto, db,
           history, HoldingStages, ReplyStages, PauseStages, FlowStages
  <2>. QED BY <1>0, <2>1, HopKeepsToken
<1>. QED BY <1>1, <1>2, <1>3 DEF CancelStep

\* A task keeps TokenInv.
LEMMA TaskKeepsToken ==
    ASSUME IInv, NEW k \in Tasks,
           TaskBookkeeping(k) \/ TaskStep(k) \/ TaskEnds(k) \/ BudgetStop(k)
    PROVE  TokenInv'
<1>0. /\ k \in Threads /\ TypeOK /\ ThreadsType /\ DbType /\ HistoryType
      /\ TargetInv /\ TokenInv
  BY ThreadFacts DEF IInv, TypeOK
<1>1. CASE PendOpen(k)
  <2>1. target[k] \in Gates
    BY <1>0, <1>1, TargetInHand DEF PendOpen, GateStages
  <2>2. Front(target[k]) /\ gate[target[k]] = "none" /\ anchor = target[k]
    BY <1>0, <1>1 DEF PendOpen, TokenInv, PauseFront, AnchorKept, PauseStages
  <2>3. starts[target[k]] = 0
    BY <1>0, <2>1, <2>2 DEF TokenInv, ReplyConsumedOnce, HistoryType
  <2>4. GateOpens(k, target[k], "pend")
    BY <1>1, <2>2, <2>3 DEF PendOpen, GateOpens, Goto, HoldingStages, history
  <2>. QED BY <1>0, <2>1, <2>4, GateOpensKeepsToken
<1>2. CASE TaskPauses(k)
  <2>1. PICK g \in Gates : /\ gate[g] = "none"
                           /\ \A h \in Gates : gate[h] = "none" => g <= h
                           /\ target' = [target EXCEPT ![k] = g]
    BY <1>2 DEF TaskPauses
  <2>2. /\ pc[k] = "step" /\ pc' = [pc EXCEPT ![k] = "anchor"]
        /\ UNCHANGED <<gate, starts, anchor>>
    BY <1>2 DEF TaskPauses, Goto, db, history
  <2>3. Holding(k) /\ \A u \in Threads : Holding(u) => u = k
    BY <1>0, <2>2 DEF TokenInv, OneContinuation, Holding, HoldingStages
  <2>4. /\ \A u \in Threads : u # k => pc'[u] = pc[u] /\ pc[u] \notin HoldingStages
        /\ pc'[k] = "anchor" /\ target'[k] = g
    BY <1>0, <2>1, <2>2, <2>3 DEF ThreadsType, Holding
  <2>5. Front(g)
    <3>1. \A h \in Gates : gate[h] = "none" \/ Consumed(h)
      BY <1>0, <2>2 DEF TokenInv, FlowInv, FlowStages
    <3>2. ASSUME NEW h \in Gates, h < g PROVE Consumed(h)
      BY <2>1, <3>1, <3>2, BoundsAssumption DEF Gates
    <3>3. ASSUME NEW h \in Gates, h > g PROVE gate[h] = "none"
      BY <1>0, <2>1, <3>3, BoundsAssumption DEF TokenInv, InOrder, Gates
    <3>. QED BY <3>2, <3>3 DEF Front
  <2>6. \A h \in Gates : gate[h] # "open"
    BY <1>0, <2>3 DEF TokenInv, OneContinuation
  <2>7. ReplyConsumedOnce' /\ InOrder' /\ OpenFront' /\ OpenGateAnchored'
    BY <1>0, <2>2, <2>6
       DEF TokenInv, ReplyConsumedOnce, InOrder, OpenFront, OpenGateAnchored
  <2>8. OneContinuation'
    BY <2>2, <2>4, <2>6 DEF OneContinuation, Holding
  <2>9. PauseFront'
    BY <2>1, <2>2, <2>4, <2>5, StageFacts DEF PauseFront, Front, Consumed
  <2>10. ReplyFront' /\ FlowInv' /\ AnchorKept'
    BY <2>4, StageFacts DEF ReplyFront, FlowInv, AnchorKept, HoldingStages, ReplyStages,
         FlowStages
  <2>. QED BY <2>7, <2>8, <2>9, <2>10 DEF TokenInv
<1>3. CASE TaskStart(k) \/ TaskBoundary(k) \/ TaskMark(k) \/ TaskClear(k)
  <2>1. \/ Hop(k, "save_start") \/ Hop(k, "abort") \/ Hop(k, "step") \/ Hop(k, "clear")
        \/ Hop(k, "save")
    BY <1>0, <1>3
       DEF ThreadsType, Hop, TaskStart, TaskBoundary, TaskMark, TaskClear, Goto, db,
           history, HoldingStages, ReplyStages, PauseStages, FlowStages
  <2>. QED BY <1>0, <2>1, HopKeepsToken
<1>4. CASE PendAnchor(k) \/ PendRecord(k) \/ TaskStep(k) \/ TaskReturns(k)
  <2>1. \/ Hop(k, "open") \/ Hop(k, "announce") \/ Hop(k, "boundary")
        \/ Hop(k, "complete") \/ Hop(k, "fail")
    BY <1>0, <1>4
       DEF ThreadsType, Hop, PendAnchor, PendRecord, TaskStep, TaskReturns, Goto, db,
           history, HoldingStages, ReplyStages, PauseStages, FlowStages
  <2>. QED BY <1>0, <2>1, HopKeepsToken
<1>5. CASE BudgetStop(k)
  <2>1. Drop
    BY <1>5 DEF BudgetStop, Drop, db, threads
  <2>. QED BY <1>0, <2>1, DropKeepsToken
<1>. QED
  BY <1>1, <1>2, <1>3, <1>4, <1>5 DEF TaskBookkeeping, TaskEnds

\* A sweep keeps TokenInv.
LEMMA SweepKeepsToken ==
    ASSUME IInv, SweepStep
    PROVE  TokenInv'
<1>0. /\ Sweeper \in Threads /\ TypeOK /\ ThreadsType /\ DbType /\ MemoryType
      /\ HistoryType /\ TokenInv
  BY ThreadFacts DEF IInv, TypeOK
<1>1. CASE SweepClose
  <2>. DEFINE g == Record(Sweeper).gate
  <2>1. CASE g # 0 /\ gate[g] = "open"
    <3>1. g \in Gates
      <4>1. g \in 0..NGates
        BY <1>0, <1>1, RecordInHand DEF IInv, SweepClose, Quiet, RecordType
      <4>. QED BY <2>1, <4>1, BoundsAssumption DEF Gates
    <3>2. GateCloses(Sweeper, g, "restart", "close_clear")
      BY <1>1, <2>1
         DEF SweepClose, GateCloses, Goto, FlowStages, PauseStages, ReplyStages, Answered,
             history
    <3>. QED BY <1>0, <3>1, <3>2, GateClosesKeepsToken
  <2>2. CASE ~(g # 0 /\ gate[g] = "open")
    <3>1. Hop(Sweeper, "sweep_mark")
      BY <1>0, <1>1, <2>2
         DEF SweepClose, Hop, Goto, history, HoldingStages, ReplyStages, PauseStages,
             FlowStages
    <3>. QED BY <1>0, <3>1, HopKeepsToken
  <2>. QED BY <2>1, <2>2
<1>2. CASE \/ Install(Sweeper, "sweep_install", "sweep_check") \/ SweepCheck \/ SweepLoad
           \/ SweepAdopt \/ SweepClaim \/ SweepLost \/ SweepClear \/ SweepMark
  <2>1. \/ Hop(Sweeper, "sweep_check") \/ Hop(Sweeper, "sweep_load")
        \/ Hop(Sweeper, "adopt") \/ Hop(Sweeper, "claim") \/ Hop(Sweeper, "idle") \/ Hop(Sweeper, "close_gate")
        \/ Hop(Sweeper, "sweep_mark") \/ Hop(Sweeper, "save")
    BY <1>0, <1>2, ThreadFacts
       DEF ThreadsType, Hop, Install, SweepCheck, Judge, SweepLoad, SweepAdopt, SweepClaim, SweepLost,
           SweepClear, SweepMark, Goto, Leave, db, history, HoldingStages, ReplyStages,
           PauseStages, FlowStages
  <2>. QED BY <1>0, <2>1, HopKeepsToken
<1>. QED BY <1>1, <1>2 DEF SweepStep

\* Every step keeps TokenInv.
LEMMA TokenStep ==
    ASSUME IInv, [Next]_vars
    PROVE  TokenInv'
<1>0. TypeOK /\ ThreadsType /\ TokenInv
  BY DEF IInv, TypeOK
<1>1. CASE Launch
  <2>1. Http \in Threads /\ 0 \in Threads /\ Http # 0
    BY ThreadFacts
  <2>2. ReplyConsumedOnce'
    BY <1>0, <1>1 DEF Launch, TokenInv, ReplyConsumedOnce, db, history
  <2>3. \A g \in Gates : gate'[g] = "none" \/ Consumed(g)'
    BY <1>0, <1>1, <2>1 DEF Launch, TokenInv, FlowInv, FlowStages, Consumed, db, history
  <2>4. Pass(Http, 0)
    BY <1>0, <1>1, <2>1, <2>3
       DEF Launch, Pass, ThreadsType, HoldingStages, FlowStages, db
  <2>. QED BY <1>0, <2>1, <2>2, <2>4, PassKeepsToken
<1>2. CASE Calls
  BY <1>0, <1>2, CallHops, HopKeepsToken
<1>3. ASSUME NEW t \in Threads, Saves(t) \/ DatabaseFails(t) PROVE TokenInv'
  <2>1. \/ Hop(t, "write_start") \/ Hop(t, "write") \/ Hop(t, "boundary")
        \/ Hop(t, "idle") \/ Hop(t, "done") \/ Hop(t, "save") \/ Hop(t, "sweep_mark")
    BY <1>0, <1>3
       DEF ThreadsType, Hop, Saves, PersistRead, PersistWrite, AnnounceGate,
           DatabaseFails, Goto, Leave, db, history, HoldingStages, ReplyStages,
           PauseStages, FlowStages
  <2>. QED BY <1>0, <1>3, <2>1, HopKeepsToken
<1>4. CASE Crash \/ Restart \/ Age \/ UNCHANGED vars
  <2>1. Drop
    BY <1>0, <1>4
       DEF Crash, Restart, Age, Drop, vars, db, threads, history, ThreadsType,
           HoldingStages
  <2>. QED BY <1>0, <2>1, DropKeepsToken
<1>. QED
  BY <1>1, <1>2, <1>3, <1>4, AnswerKeepsToken, CancelKeepsToken, TaskKeepsToken,
     SweepKeepsToken
     DEF Next, Calls

\* The invariant holds at first.
LEMMA Initially == Init => IInv
<1>. SUFFICES ASSUME Init PROVE IInv
  OBVIOUS
<1>. USE ThreadFacts, BoundsAssumption DEF Init
<1>1. DbType /\ MemoryType /\ HistoryType
  <2>1. "queued" \in Statuses
    BY DEF Statuses, Interruptible
  <2>2. BlankRecord \in RecordType
    BY <2>1 DEF BlankRecord, RecordType
  <2>3. DbType
    <3>1. gate \in [Gates -> {"none", "open"} \union Answered] /\ anchor \in 0..NGates
      OBVIOUS
    <3>. QED BY <2>1, <3>1 DEF DbType
  <2>4. MemoryType
    BY <2>2 DEF MemoryType
  <2>5. HistoryType
    BY DEF HistoryType
  <2>. QED BY <2>3, <2>4, <2>5
<1>2. ThreadsType
  BY DEF ThreadsType, Stages, Quiet, Statuses, Interruptible
<1>3. RefInv /\ TargetInv
  BY DEF RefInv, TargetInv, Quiet, GateStages, AnswerStages
<1>4. \A t \in Threads : Holding(t) => t = Http
  BY DEF Holding, HoldingStages
<1>5. TokenInv
  BY <1>4 DEF TokenInv, ReplyConsumedOnce, OneContinuation, InOrder, OpenFront, ReplyFront,
     PauseFront, FlowInv, AnchorKept, OpenGateAnchored, ReplyStages, PauseStages, Gates
<1>. QED BY <1>1, <1>2, <1>3, <1>5 DEF IInv, TypeOK

\* The continuation of the run is a token, in every behaviour: the inductive
\* invariant the other theorems are read off from.
THEOREM Invariance == Spec => []IInv
<1>1. IInv /\ [Next]_vars => IInv'
  BY TypeStep, RefStep, TargetStep, TokenStep DEF IInv
<1>. QED BY <1>1, Initially, PTL DEF Spec

-----------------------------------------------------------------------------
(* Theorems.                                                               *)

\* Every variable keeps its type: in particular every thread in a call holds a
\* record, and the gate a restore reads back is a gate of the run.
THEOREM TypeCorrect == Spec => []TypeOK
BY Invariance, PTL DEF IInv

\* Whatever the threads do, a reply starts one resume at most, and a consumed gate
\* is never open again (answer_gate, _submit, _reopen_gate).
THEOREM RepliesConsumedOnce == Spec => []ReplyConsumedOnce
BY Invariance, PTL DEF IInv, TokenInv

\* There is never more than one thing that can carry the run on: one thread that
\* holds its continuation, or one open gate.
THEOREM OneCarriesOn == Spec => []OneContinuation
BY Invariance, PTL DEF IInv, TokenInv

\* An open gate always has the pending feedback a resume after a restart needs
\* (_mark_pending, cancel, _close_interrupted_gate).
THEOREM OpenGatesAnchored == Spec => []OpenGateAnchored
BY Invariance, PTL DEF IInv, TokenInv

-----------------------------------------------------------------------------
(* RunRegistry implements GateProtocol.                                    *)

\* The initial states map to initial states of the chain.
LEMMA ChainStart == Init => Chain!Init
BY DEF Init, Chain!Init, Gates, Chain!Gates

\* What the invariant says in the terms of the chain.
LEMMA ChainFacts ==
    /\ Chain!Gates = Gates
    /\ Chain!Answers = Answered
    /\ \A g \in Gates : Chain!Consumed(g) <=> Consumed(g)
BY DEF Chain!Gates, Gates, Chain!Answers, Answered, Chain!Consumed, Consumed

\* Every step maps to a step of the chain or to a stutter.
LEMMA ChainStep ==
    ASSUME IInv, [Next]_vars
    PROVE  [Chain!Next]_(Chain!vars)
<1>0. TypeOK /\ TargetInv /\ TokenInv /\ DbType /\ HistoryType
  BY DEF IInv, TypeOK
<1>. DEFINE Stutter == gate' = gate /\ starts' = starts
<1>1. CASE Stutter
  BY <1>1 DEF Chain!vars
<1>2. ASSUME NEW c \in Callers, AnswerStep(c) PROVE Chain!Next \/ Stutter
  <2>0. c \in Threads
    BY ThreadFacts
  <2>1. CASE AnswerAccepted(c)
    <3>1. target[c] \in Gates
      BY <1>0, <2>0, <2>1, TargetInHand DEF AnswerAccepted, GateStages, AnswerStages
    <3>2. Chain!Answer(target[c])
      BY <2>1, <3>1, ChainFacts DEF AnswerAccepted, Chain!Answer, Answered, history
    <3>. QED BY <3>1, <3>2, ChainFacts DEF Chain!Next
  <2>2. CASE SubmitResume(c)
    <3>1. target[c] \in Gates
      BY <1>0, <2>0, <2>2, TargetInHand DEF SubmitResume, GateStages, AnswerStages
    <3>2. gate[target[c]] = "reply" /\ starts[target[c]] = 0
      BY <1>0, <2>0, <2>2 DEF SubmitResume, TokenInv, ReplyFront, ReplyStages
    <3>3. Chain!Resume(target[c])
      BY <1>0, <2>2, <3>1, <3>2 DEF SubmitResume, Chain!Resume, HistoryType, db
    <3>. QED BY <3>1, <3>3, ChainFacts DEF Chain!Next
  <2>3. CASE ReopenRow(c)
    <3>1. target[c] \in Gates
      BY <1>0, <2>0, <2>3, TargetInHand DEF ReopenRow, GateStages, AnswerStages
    <3>2. /\ Front(target[c]) /\ gate[target[c]] = "reply" /\ starts[target[c]] = 0
      BY <1>0, <2>0, <2>3 DEF ReopenRow, TokenInv, ReplyFront, ReplyStages
    <3>3. Chain!Rollback(target[c])
      BY <2>3, <3>1, <3>2, ChainFacts
         DEF ReopenRow, Chain!Rollback, Front, Answered, history
    <3>. QED BY <3>1, <3>3, ChainFacts DEF Chain!Next
  <2>. QED
    BY <1>2, <2>1, <2>2, <2>3
       DEF AnswerStep, Install, AnswerCheck, AnswerConflict, AnswerApply, Settled,
           SettleTimeout, SubmitBusy, ReopenRecord, db, history
<1>3. CASE CancelStep
  <2>1. CASE CancelGate
    <3>. DEFINE g == Record(Http).gate
    <3>1. CASE g # 0 /\ gate[g] = "open"
      <4>1. g \in Gates
        <5>1. g \in 0..NGates
          BY <1>0, <2>1, RecordInHand, ThreadFacts DEF IInv, CancelGate, Quiet, RecordType
        <5>. QED BY <3>1, <5>1, BoundsAssumption DEF Gates
      <4>2. Chain!Answer(g)
        BY <2>1, <3>1, <4>1, ChainFacts DEF CancelGate, Chain!Answer, Answered, history
      <4>. QED BY <4>1, <4>2, ChainFacts DEF Chain!Next
    <3>2. CASE ~(g # 0 /\ gate[g] = "open")
      BY <1>1, <2>1, <3>2 DEF CancelGate, history
    <3>. QED BY <3>1, <3>2
  <2>. QED
    BY <1>1, <1>3, <2>1
       DEF CancelStep, Install, CancelCheck, CancelClear, CancelMark, CancelRequest, db,
           history
<1>4. ASSUME NEW k \in Tasks,
             TaskBookkeeping(k) \/ TaskStep(k) \/ TaskEnds(k) \/ BudgetStop(k)
      PROVE  Chain!Next \/ Stutter
  <2>1. CASE PendOpen(k)
    <3>1. target[k] \in Gates
      BY <1>0, <2>1, TargetInHand, ThreadFacts DEF PendOpen, GateStages
    <3>2. Front(target[k]) /\ gate[target[k]] = "none"
      BY <1>0, <2>1, ThreadFacts DEF PendOpen, TokenInv, PauseFront, PauseStages
    <3>3. Chain!Open(target[k])
      BY <2>1, <3>1, <3>2, ChainFacts DEF PendOpen, Chain!Open, Front, history
    <3>. QED BY <3>1, <3>3, ChainFacts DEF Chain!Next
  <2>. QED
    BY <1>4, <2>1
       DEF TaskBookkeeping, TaskStart, TaskBoundary, TaskMark, TaskClear, PendAnchor,
           PendRecord, TaskStep, TaskEnds, TaskReturns, TaskPauses, BudgetStop, db, history
<1>5. CASE SweepStep
  <2>1. CASE SweepClose
    <3>. DEFINE g == Record(Sweeper).gate
    <3>1. CASE g # 0 /\ gate[g] = "open"
      <4>1. g \in Gates
        <5>1. g \in 0..NGates
          BY <1>0, <2>1, RecordInHand, ThreadFacts DEF IInv, SweepClose, Quiet, RecordType
        <5>. QED BY <3>1, <5>1, BoundsAssumption DEF Gates
      <4>2. Chain!Answer(g)
        BY <2>1, <3>1, <4>1, ChainFacts DEF SweepClose, Chain!Answer, Answered, history
      <4>. QED BY <4>1, <4>2, ChainFacts DEF Chain!Next
    <3>2. CASE ~(g # 0 /\ gate[g] = "open")
      BY <1>1, <2>1, <3>2 DEF SweepClose, history
    <3>. QED BY <3>1, <3>2
  <2>. QED
    BY <1>1, <1>5, <2>1
       DEF SweepStep, Install, SweepCheck, Judge, SweepLoad, SweepAdopt, SweepClaim, SweepLost, SweepClear,
           SweepMark, db, history
<1>6. ASSUME NEW t \in Threads, Saves(t) \/ DatabaseFails(t) PROVE Stutter
  BY <1>6
     DEF Saves, PersistRead, PersistWrite, AnnounceGate, DatabaseFails, db, history
<1>7. CASE Launch \/ Calls \/ Age \/ Crash \/ Restart \/ UNCHANGED vars
  BY <1>1, <1>7
     DEF Launch, Calls, AnswerCall, CancelCall, SweepCall, Require, Age, Crash, Restart,
         vars, db, history
<1>. QED
  BY <1>1, <1>2, <1>3, <1>4, <1>5, <1>6, <1>7 DEF Next, Calls

\* However the run is executed, its gates follow the chain of GateProtocol: opened
\* in order, answered once at a time, rolled back only when nobody consumed the
\* reply, and never two replies ahead of the flow.
THEOREM RunImplementsGateProtocol == Spec => ImplementsGateProtocol
<1>1. Init => Chain!Init
  BY ChainStart
<1>2. IInv /\ [Next]_vars => [Chain!Next]_(Chain!vars)
  BY ChainStep
<1>. QED
  BY <1>1, <1>2, Invariance, PTL DEF Spec, ImplementsGateProtocol, Chain!Spec

-----------------------------------------------------------------------------
(* Two more invariants, on top of IInv.                                    *)

\* Every step keeps ReplyHeld.
LEMMA ReplyHeldStep ==
    ASSUME IInv, ReplyHeld, [Next]_vars
    PROVE  ReplyHeld'
<1>0. TypeOK /\ DbType /\ HistoryType /\ ThreadsType /\ MemoryType /\ TargetInv
  BY DEF IInv, TypeOK
<1>. USE ThreadFacts DEF ReplyHeld, ReplyStages, ThreadsType
<1>1. ASSUME NEW c \in Callers, AnswerStep(c), ~SubmitResume(c) PROVE ReplyHeld'
  BY <1>0, <1>1
     DEF DbType, HistoryType, Bounded, TargetInv, GateStages, AnswerStages, AnswerStep,
         Install, AnswerCheck, AnswerAccepted, AnswerConflict, AnswerApply, Settled,
         SettleTimeout, SubmitBusy, ReopenRow, ReopenRecord, Spend, Goto, Leave, db,
         history
<1>2. ASSUME NEW c \in Callers, SubmitResume(c) PROVE ReplyHeld'
  BY <1>0, <1>2
     DEF HistoryType, TargetInv, GateStages, AnswerStages, SubmitResume, db
<1>3. CASE CancelStep
  BY <1>0, <1>3
     DEF DbType, HistoryType, Bounded, CancelStep, Install, CancelCheck, CancelGate,
         CancelClear, CancelMark, CancelRequest, Spend, Goto, Leave, Cancellable,
         FutureLive, Live, db, history
<1>4. ASSUME NEW k \in Tasks,
             TaskBookkeeping(k) \/ TaskStep(k) \/ TaskEnds(k) \/ BudgetStop(k)
      PROVE  ReplyHeld'
  BY <1>0, <1>4
     DEF DbType, HistoryType, Bounded, TaskBookkeeping, TaskStart, TaskBoundary, TaskMark,
         TaskClear, PendAnchor, PendOpen, PendRecord, TaskStep, TaskEnds, TaskReturns,
         TaskPauses, BudgetStop, Spend, Goto, db, threads, history
<1>5. CASE SweepStep
  BY <1>0, <1>5
     DEF DbType, SweepStep, Install, SweepCheck, Judge, SweepLoad, SweepAdopt, SweepClaim, SweepLost,
         SweepClose, SweepClear, SweepMark, Goto, Leave, db, history
<1>6. ASSUME NEW t \in Threads, Saves(t) PROVE ReplyHeld'
  BY <1>0, <1>6 DEF Saves, PersistRead, PersistWrite, AnnounceGate, Goto, Leave, db, history
\* These two end the assumption that nothing failed.
<1>7. ASSUME NEW t \in Threads, DatabaseFails(t) PROVE ReplyHeld'
  BY <1>0, <1>7 DEF HistoryType, Bounded, DatabaseFails, Spend
<1>8. CASE Crash
  BY <1>0, <1>8 DEF HistoryType, Bounded, Crash, Spend
<1>9. CASE Calls
  BY <1>0, <1>9
     DEF Calls, AnswerCall, CancelCall, SweepCall, Require, Goto, db, history
<1>10. CASE Launch \/ Age \/ Restart \/ UNCHANGED vars
  BY <1>0, <1>10 DEF Launch, Age, Restart, vars, db, threads, history
<1>. QED
  BY <1>1, <1>2, <1>3, <1>4, <1>5, <1>6, <1>7, <1>8, <1>9, <1>10 DEF Next, Calls

\* Without a crash or a failed database call, an accepted reply has its resume, or
\* was rolled back, by the time its caller is answered: no interleaving wedges the
\* run (answer_gate's RunBusyError branch).
THEOREM NoReplyIsWedged == Spec => []NoWedgedReply
<1>1. Init => ReplyHeld
  BY DEF Init, ReplyHeld
<1>2. IInv /\ ReplyHeld /\ [Next]_vars => ReplyHeld'
  BY ReplyHeldStep
<1>3. IInv /\ ReplyHeld => NoWedgedReply
  <2>. SUFFICES ASSUME IInv, ReplyHeld, \A c \in Callers : pc[c] = "idle",
                       used["crash"] = 0, used["fault"] = 0,
                       NEW g \in Gates, gate[g] = "reply"
                PROVE  starts[g] = 1
    BY DEF NoWedgedReply
  <2>1. starts[g] # 0
    BY DEF ReplyHeld, ReplyStages
  <2>. QED
    BY <2>1 DEF IInv, TypeOK, HistoryType, TokenInv, ReplyConsumedOnce
<1>. QED BY <1>1, <1>2, <1>3, Invariance, PTL DEF Spec

\* Every step keeps FutureInv.
LEMMA FutureStep ==
    ASSUME IInv, FutureInv, [Next]_vars
    PROVE  FutureInv'
<1>0. TypeOK /\ ThreadsType /\ MemoryType /\ TargetInv /\ OneContinuation
  BY DEF IInv, TypeOK, TokenInv
<1>. USE ThreadFacts
     DEF FutureInv, Live, Idle, Quiet, ThreadsType, MemoryType, Holding, HoldingStages
<1>1. ASSUME NEW c \in Callers, AnswerStep(c) PROVE FutureInv'
  <2>1. CASE SubmitResume(c)
    <3>1. target[c] \in Tasks /\ pc[c] = "submit" /\ c \notin Tasks
      BY <1>0, <2>1 DEF SubmitResume, TargetInv, GateStages, AnswerStages
    <3>2. \A t \in Threads : t # c => ~Holding(t)
      BY <1>0, <3>1 DEF OneContinuation
    <3>3. \A k \in Tasks : Live(k) => k \in forgotten
      BY <1>0, <2>1 DEF SubmitResume, FutureLive
    <3>4. /\ pc' = [pc EXCEPT ![c] = "idle", ![target[c]] = "queued"]
          /\ future' = target[c] /\ forgotten' = forgotten
      BY <2>1 DEF SubmitResume
    <3>5. \A t \in Threads : t \notin {c, target[c]} => pc'[t] = pc[t]
      BY <1>0, <3>1, <3>4
    <3>6. pc'[Http] # "launch"
      BY <1>0, <3>1, <3>2, <3>4, <3>5
    <3>. QED
      BY <3>1, <3>2, <3>3, <3>4, <3>5, <3>6
  <2>. QED
    BY <1>0, <1>1, <2>1
       DEF AnswerStep, Install, AnswerCheck, AnswerAccepted, AnswerConflict, AnswerApply,
           Settled, SettleTimeout, SubmitBusy, ReopenRow, ReopenRecord, Goto, Leave, memory,
           history
<1>2. CASE CancelStep
  BY <1>0, <1>2
     DEF CancelStep, Install, CancelCheck, CancelGate, CancelClear, CancelMark,
         CancelRequest, Cancellable, FutureLive, Goto, Leave, memory, history
<1>3. ASSUME NEW k \in Tasks,
             TaskBookkeeping(k) \/ TaskStep(k) \/ TaskEnds(k) \/ BudgetStop(k)
      PROVE  FutureInv'
  BY <1>0, <1>3
     DEF TaskBookkeeping, TaskStart, TaskBoundary, TaskMark, TaskClear, PendAnchor,
         PendOpen, PendRecord, TaskStep, TaskEnds, TaskReturns, TaskPauses, BudgetStop,
         Goto, memory, threads, history
\* A sweep that lost its claim empties the table; it remembers what it dropped.
<1>4. CASE SweepStep
  <2>1. CASE SweepLost
    <3>1. \A k \in Tasks : Live(k) => k \in forgotten'
      BY <1>0, <2>1 DEF SweepLost, FutureLive
    <3>. QED
      BY <1>0, <2>1, <3>1 DEF SweepLost, Goto, Leave
  <2>. QED
    BY <1>0, <1>4, <2>1
       DEF SweepStep, Install, SweepCheck, Judge, SweepLoad, SweepAdopt, SweepClaim,
           SweepClose, SweepClear, SweepMark, Goto, Leave, memory, history
<1>5. ASSUME NEW t \in Threads, Saves(t) \/ DatabaseFails(t) PROVE FutureInv'
  BY <1>0, <1>5
     DEF Saves, PersistRead, PersistWrite, AnnounceGate, DatabaseFails, DatabaseStages,
         Goto, Leave, memory, history
<1>6. CASE Calls
  BY <1>0, <1>6 DEF Calls, AnswerCall, CancelCall, SweepCall, Require, Goto, history
<1>7. CASE Launch
  <2>1. \A t \in Threads : t # Http => ~Holding(t)
    BY <1>0, <1>7 DEF Launch, OneContinuation
  <2>. QED
    BY <1>0, <1>7, <2>1 DEF Launch, history
<1>8. CASE Crash \/ Age \/ Restart \/ UNCHANGED vars
  BY <1>0, <1>8 DEF Crash, Age, Restart, vars, memory, threads, history
<1>. QED
  BY <1>1, <1>2, <1>3, <1>4, <1>5, <1>6, <1>7, <1>8 DEF Next, Calls

\* Two executions of the run overlap only where a sweep that lost its claim emptied
\* the table of futures while the first was in its tail, its gate already open;
\* with the sweep off they never do.
THEOREM ExecutionsDoNotOverlap == Spec => []OneExecution
<1>1. Init => FutureInv
  BY ThreadFacts DEF Init, FutureInv, Live, Idle, Quiet, Holding, HoldingStages
<1>2. IInv /\ FutureInv /\ [Next]_vars => FutureInv'
  BY FutureStep
<1>3. IInv /\ FutureInv => OneExecution
  <2>. SUFFICES ASSUME IInv, FutureInv, NEW j \in Tasks, NEW k \in Tasks,
                       Live(j), Live(k), j # k
                PROVE  \E t \in {j, k} \intersect forgotten : ~Holding(t)
    BY DEF OneExecution
  <2>1. ~(Holding(j) /\ Holding(k))
    BY ThreadFacts DEF IInv, TokenInv, OneContinuation
  <2>. QED
    BY <2>1, ThreadFacts DEF FutureInv
<1>. QED BY <1>1, <1>2, <1>3, Invariance, PTL DEF Spec
=============================================================================
