---------------------------- MODULE RunRegistry ----------------------------
(***************************************************************************)
(* One run of the service, from POST /api/runs to a terminal status, and   *)
(* every thread that touches it (service/registry.py, with the runs,       *)
(* run_gates and pending_feedback rows of service/persistence.py).         *)
(*                                                                         *)
(*   - Http, the event loop: launches, answers a gate, cancels.  Its       *)
(*     routes are "async def" and call the registry inline, so there is    *)
(*     one such thread and its calls do not overlap.                       *)
(*   - Sockets, the worker threads asyncio.to_thread gives a WebSocket     *)
(*     gate reply: they overlap with everything.                           *)
(*   - Sweeper, the maintenance thread: recover_orphaned_runs.             *)
(*   - Tasks, the executions on the pool.  Task 0 is the kickoff, task g   *)
(*     the resume that consumes the reply to gate g.                       *)
(*                                                                         *)
(* A step is one database transaction, one critical section, or one block  *)
(* of in-memory statements that reads or writes shared state; threads      *)
(* interleave between steps.  A crash loses memory and keeps the rows.     *)
(***************************************************************************)
EXTENDS Naturals, FiniteSets

CONSTANTS
    Http,         \* the event-loop thread
    Sockets,      \* the threads carrying WebSocket gate replies
    Sweeper,      \* the maintenance thread
    NGates,       \* bound: gates the flow opens, one after another
    NRecords,     \* bound: RunRecord objects that exist at one moment
    RecoverOrphans, \* VALIDATOR_ORPHAN_RUN_RECOVERY: is the sweep on
    MaxStops,     \* bound: calls of cancel and budget stops
    MaxBusy,      \* bound: settle waits that run out of time
    MaxFaults,    \* bound: database calls that raise
    MaxCrashes    \* bound: process deaths

ASSUME BoundsAssumption ==
    /\ NGates \in Nat
    /\ NRecords \in Nat \ {0}
    /\ RecoverOrphans \in BOOLEAN
    /\ {MaxStops, MaxBusy, MaxFaults, MaxCrashes} \subseteq Nat

Gates == 1..NGates
Records == 1..NRecords
Tasks == 0..NGates
NoTask == NGates + 1
Callers == {Http} \union Sockets
Threads == Callers \union {Sweeper} \union Tasks

ASSUME ThreadsAssumption ==
    /\ Http \notin Sockets
    /\ Sweeper \notin Callers
    /\ (Callers \union {Sweeper}) \intersect Tasks = {}

Terminal == {"completed", "failed", "cancelled"}
Interruptible == {"queued", "running", "cancelling"}
Statuses == Terminal \union Interruptible \union {"waiting"}

Answered == {"reply", "cancelled", "restart"}

\* The next step of a thread, by the code it is in.
AnswerStages ==
    {"answer_install", "answer_check", "answer_cas", "accepted", "settle", "submit",
     "reopen", "reopened", "reannounce"}
CancelStages ==
    {"cancel_install", "cancel_check", "cancel_gate", "cancel_clear",
     "cancel_mark", "cancel_mark_waiting", "cancelling"}
TaskStages ==
    {"queued", "save_start", "write_start", "boundary", "step", "complete", "fail",
     "abort", "clear", "anchor", "open", "pend", "announce"}
SweepStages ==
    {"sweep_install", "sweep_check", "sweep_load", "adopt", "claim", "close_gate", "close_clear",
     "sweep_mark"}
Quiet == {"idle", "none", "done"}
Stages ==
    Quiet \union {"launch", "save", "write"}
    \union AnswerStages \union CancelStages \union TaskStages \union SweepStages

\* What the bounds count.
Bounded == {"stop", "busy", "fault", "crash"}

VARIABLES
    (* the database *)
    row,          \* runs.status
    aged,         \* runs.updated_at is older than the orphan grace
    gate,         \* run_gates: "none", "open", or the outcome it was answered with
    anchor,       \* pending_feedback: the gate its context belongs to, or 0
    (* the process *)
    up,           \* is the process running
    current,      \* _records[run]: the record every new call gets, or 0
    rec,          \* the RunRecord objects
    reserved,     \* run in _reserved: admitted, not yet submitted
    future,       \* _futures[run]: the task last submitted, or NoTask
    (* the threads *)
    pc,           \* the next step of each thread
    ref,          \* the record a thread holds, or 0
    target,       \* the gate a thread works on, or 0
    val,          \* the status a thread read and is about to write
    (* bounds and history *)
    starts,       \* starts[g]: resumes queued for the reply to gate g
    announced,    \* the frame "Run cancelled at the human gate boundary" was sent
    forgotten,    \* live tasks a sweep that lost its claim dropped from _futures
    used          \* how much of each bound was used

db == <<row, aged, gate, anchor>>
memory == <<up, current, rec, reserved, future>>
threads == <<pc, ref, target, val>>
history == <<starts, announced, forgotten, used>>
vars == <<db, memory, threads, history>>

BlankRecord ==
    [st |-> "queued", gate |-> 0, ctx |-> FALSE, cancel |-> FALSE]

DbType ==
    /\ row \in Statuses
    /\ aged \in BOOLEAN
    /\ gate \in [Gates -> {"none", "open"} \union Answered]
    /\ anchor \in 0..NGates

RecordType == [st : Statuses, gate : 0..NGates, ctx : BOOLEAN, cancel : BOOLEAN]

MemoryType ==
    /\ up \in BOOLEAN
    /\ current \in 0..NRecords
    /\ rec \in [Records -> RecordType]
    /\ reserved \in BOOLEAN
    /\ future \in Tasks \union {NoTask}

ThreadsType ==
    /\ pc \in [Threads -> Stages]
    /\ ref \in [Threads -> 0..NRecords]
    /\ target \in [Threads -> 0..NGates]
    /\ val \in [Threads -> Statuses]

HistoryType ==
    /\ starts \in [Gates -> Nat]
    /\ announced \in BOOLEAN
    /\ forgotten \in SUBSET Tasks
    /\ used \in [Bounded -> Nat]

TypeOK == DbType /\ MemoryType /\ ThreadsType /\ HistoryType

Idle(t) == pc[t] \in Quiet

\* A task the future of which is not done: queued on the pool or executing.
Live(t) == t \in Tasks /\ ~Idle(t)

\* Mutant: only a task still in the queue of the pool counts as live.
FutureLiveQueued == future # NoTask /\ pc[future] = "queued"

FutureLive == future # NoTask /\ Live(future)

\* _has_live_work: what "something is still executing it" means in one process.
HasLiveWork == reserved \/ FutureLive

\* get_pending_gate: the unanswered gate row, the newest first, or 0.
PendingGate ==
    IF \E g \in Gates : gate[g] = "open"
    THEN CHOOSE g \in Gates : gate[g] = "open" /\ \A h \in Gates : gate[h] = "open" => h <= g
    ELSE 0

Goto(t, stage) == pc' = [pc EXCEPT ![t] = stage]

\* The thread is through: a task's future is done, a caller is free again.
Leave(t) ==
    /\ Goto(t, IF t \in Tasks THEN "done" ELSE "idle")
    /\ ref' = [ref EXCEPT ![t] = 0]
    /\ target' = [target EXCEPT ![t] = 0]
    /\ val' = [val EXCEPT ![t] = "queued"]

Spend(kind, limit) ==
    /\ used[kind] < limit
    /\ used' = [used EXCEPT ![kind] = @ + 1]

\* Every write of the row bumps runs.updated_at.
SetRow(st) == row' = st /\ aged' = FALSE

Record(t) == rec[ref[t]]
SetRecord(t, r) == rec' = [rec EXCEPT ![ref[t]] = r]

-----------------------------------------------------------------------------
(* The state after create_run returned: the row is written, the record is  *)
(* registered, and the admission reservation is held.                      *)

Init ==
    /\ row = "queued"
    /\ aged = FALSE
    /\ gate = [g \in Gates |-> "none"]
    /\ anchor = 0
    /\ up = TRUE
    /\ current = 1
    /\ rec = [r \in Records |-> BlankRecord]
    /\ reserved = TRUE
    /\ future = NoTask
    /\ pc = [t \in Threads |-> IF t \in Tasks THEN "none" ELSE
                               IF t = Http THEN "launch" ELSE "idle"]
    /\ ref = [t \in Threads |-> IF t = Http THEN 1 ELSE 0]
    /\ target = [t \in Threads |-> 0]
    /\ val = [t \in Threads |-> "queued"]
    /\ starts = [g \in Gates |-> 0]
    /\ announced = FALSE
    /\ forgotten = {}
    /\ used = [k \in Bounded |-> 0]

\* _submit of a fresh run; create_run's reservation ends here.
Launch ==
    /\ pc[Http] = "launch"
    /\ reserved' = FALSE
    /\ future' = 0
    /\ pc' = [pc EXCEPT ![Http] = "idle", ![0] = "queued"]
    /\ ref' = [ref EXCEPT ![Http] = 0, ![0] = ref[Http]]
    /\ UNCHANGED <<db, up, current, rec, target, val, history>>

-----------------------------------------------------------------------------
(* require: the record a call works on.  Two threads that both find none   *)
(* both restore one, and the last to store its copy wins.                  *)

Free(r) == r # current /\ \A t \in Threads : ref[t] # r

\* _restore_record: memory rebuilt from the rows.  cancel_requested and the
\* answered set are not stored; the context is read back for a waiting run only.
RestoredRecord ==
    [st |-> row, gate |-> PendingGate,
     ctx |-> row = "waiting" /\ anchor # 0,
     cancel |-> FALSE]

Require(t, stage, install, g) ==
    /\ target' = [target EXCEPT ![t] = g]
    /\ UNCHANGED <<db, up, current, reserved, future, val, history>>
    /\ \/ /\ current # 0
          /\ ref' = [ref EXCEPT ![t] = current]
          /\ Goto(t, stage)
          /\ UNCHANGED rec
       \/ /\ current = 0
          /\ \E r \in Records :
                /\ Free(r) /\ \A s \in Records : s < r => ~Free(s)
                /\ ref' = [ref EXCEPT ![t] = r]
                /\ rec' = [rec EXCEPT ![r] = RestoredRecord]
          /\ Goto(t, install)

Install(t, install, stage) ==
    /\ pc[t] = install
    /\ current' = ref[t]
    /\ Goto(t, stage)
    /\ UNCHANGED <<db, up, rec, reserved, future, ref, target, val, history>>

-----------------------------------------------------------------------------
(* _persist_status reads the record's status and then writes it, guarded   *)
(* on the run id alone: what is written may be older than the row.         *)

PersistRead(t) ==
    /\ pc[t] \in {"save_start", "save"}
    /\ val' = [val EXCEPT ![t] = Record(t).st]
    /\ Goto(t, IF pc[t] = "save_start" THEN "write_start" ELSE "write")
    /\ UNCHANGED <<db, memory, ref, target, history>>

PersistWrite(t) ==
    /\ pc[t] \in {"write_start", "write"}
    /\ SetRow(val[t])
    /\ IF pc[t] = "write_start"
       THEN Goto(t, "boundary") /\ val' = [val EXCEPT ![t] = "queued"] /\ UNCHANGED <<ref, target>>
       ELSE Leave(t)
    /\ UNCHANGED <<gate, anchor, memory, history>>

-----------------------------------------------------------------------------
(* answer_gate, on the event loop or on a WebSocket worker thread.         *)

\* A client replies to a gate it was shown.
AnswerCall(c, g) ==
    /\ up /\ pc[c] = "idle" /\ gate[g] # "none"
    /\ Require(c, "answer_check", "answer_install", g)

\* The reply must name the gate the record is waiting at; otherwise it is a
\* duplicate (409) or unknown (404), and nothing changes.
AnswerCheck(c) ==
    /\ pc[c] = "answer_check"
    /\ IF Record(c).gate = target[c] /\ Record(c).ctx
       THEN Goto(c, "answer_cas") /\ UNCHANGED <<ref, target, val>>
       ELSE Leave(c)
    /\ UNCHANGED <<db, memory, history>>

\* Mutant: the row is written without looking at what it holds.
AnswerUnchecked(c) ==
    /\ pc[c] = "answer_cas"
    /\ gate' = [gate EXCEPT ![target[c]] = "reply"]
    /\ SetRow("running")
    /\ Goto(c, "accepted")
    /\ UNCHANGED <<anchor, memory, ref, target, val, history>>

\* persistence.answer_gate: the durable compare-and-set; the run goes back to
\* running in the same transaction.  A conflict is a duplicate (409).
AnswerAccepted(c) ==
    /\ pc[c] = "answer_cas" /\ gate[target[c]] = "open"
    /\ gate' = [gate EXCEPT ![target[c]] = "reply"]
    /\ SetRow("running")
    /\ Goto(c, "accepted")
    /\ UNCHANGED <<anchor, memory, ref, target, val, history>>

AnswerConflict(c) ==
    /\ pc[c] = "answer_cas" /\ gate[target[c]] # "open"
    /\ Leave(c)
    /\ UNCHANGED <<db, memory, history>>

\* pending_gate is cleared and GATE_CLOSED emitted, which makes the run running.
AnswerApply(c) ==
    /\ pc[c] = "accepted"
    /\ SetRecord(c, [Record(c) EXCEPT !.gate = 0, !.st = "running"])
    /\ Goto(c, "settle")
    /\ UNCHANGED <<db, up, current, reserved, future, ref, target, val, history>>

\* _submit waits for the execution that opened the gate to return ...
Settled(c) ==
    /\ pc[c] = "settle" /\ ~FutureLive
    /\ Goto(c, "submit")
    /\ UNCHANGED <<db, memory, ref, target, val, history>>

\* ... for at most submit_settle_timeout.
SettleTimeout(c) ==
    /\ pc[c] = "settle" /\ FutureLive
    /\ Spend("busy", MaxBusy)
    /\ Goto(c, "submit")
    /\ UNCHANGED <<db, memory, ref, target, val, starts, announced, forgotten>>

\* Mutant: the gate is reopened after a submit that succeeded, too.
SubmitAndReopen(c) ==
    /\ pc[c] = "submit" /\ ~FutureLive
    /\ reserved' = FALSE
    /\ future' = target[c]
    /\ starts' = [starts EXCEPT ![target[c]] = @ + 1]
    /\ pc' = [pc EXCEPT ![c] = "reopen", ![target[c]] = "queued"]
    /\ ref' = [ref EXCEPT ![target[c]] = ref[c]]
    /\ UNCHANGED <<db, up, current, rec, target, val, announced, forgotten, used>>

SubmitResume(c) ==
    /\ pc[c] = "submit" /\ ~FutureLive
    /\ reserved' = FALSE
    /\ future' = target[c]
    /\ starts' = [starts EXCEPT ![target[c]] = @ + 1]
    /\ pc' = [pc EXCEPT ![c] = "idle", ![target[c]] = "queued"]
    /\ ref' = [ref EXCEPT ![c] = 0, ![target[c]] = ref[c]]
    /\ target' = [target EXCEPT ![c] = 0]
    /\ UNCHANGED <<db, up, current, rec, val, announced, forgotten, used>>

\* Mutant: RunBusyError goes straight to the caller.
SubmitBusyUnrolled(c) ==
    /\ pc[c] = "submit" /\ FutureLive
    /\ reserved' = FALSE
    /\ Leave(c)
    /\ UNCHANGED <<db, up, current, rec, future, history>>

SubmitBusy(c) ==
    /\ pc[c] = "submit" /\ FutureLive
    /\ reserved' = FALSE
    /\ Goto(c, "reopen")
    /\ UNCHANGED <<db, up, current, rec, future, ref, target, val, history>>

\* _reopen_gate: the compensating write, a compare-and-set the other way ...
ReopenRow(c) ==
    /\ pc[c] = "reopen"
    /\ IF gate[target[c]] \in Answered
       THEN gate' = [gate EXCEPT ![target[c]] = "open"] /\ SetRow("waiting")
       ELSE UNCHANGED <<gate, row, aged>>
    /\ Goto(c, "reopened")
    /\ UNCHANGED <<anchor, memory, ref, target, val, history>>

\* ... then the record ...
ReopenRecord(c) ==
    /\ pc[c] = "reopened"
    /\ SetRecord(c, [Record(c) EXCEPT !.st = "waiting", !.gate = target[c],
                                      !.ctx = TRUE])
    /\ Goto(c, "reannounce")
    /\ UNCHANGED <<db, up, current, reserved, future, ref, target, val, history>>

\* GATE_OPEN is emitted (again): _on_frames puts the gate and WAITING on the
\* record whatever happened to it since mark_waiting.  The end of a task's
\* _mark_pending and of a reply's _reopen_gate.
AnnounceGate(t) ==
    /\ pc[t] \in {"announce", "reannounce"}
    /\ SetRecord(t, [Record(t) EXCEPT !.gate = target[t], !.st = "waiting"])
    /\ Goto(t, "save")
    /\ UNCHANGED <<db, up, current, reserved, future, ref, target, val, history>>

-----------------------------------------------------------------------------
(* cancel, on the event loop.                                              *)

CancelCall ==
    /\ up /\ pc[Http] = "idle"
    /\ used["stop"] < MaxStops
    /\ Require(Http, "cancel_check", "cancel_install", 0)

\* future.cancel() succeeds: the task is still in the pool's queue.
Cancellable == FutureLive /\ pc[future] = "queued"

\* The branch is chosen on the record's status; a terminal run is left alone.
CancelCheck ==
    /\ pc[Http] = "cancel_check"
    /\ Spend("stop", MaxStops)
    /\ UNCHANGED <<db, memory, starts, announced, forgotten>>
    /\ LET st == Record(Http).st IN
       \/ st \in Terminal /\ Leave(Http)
       \/ /\ st = "queued" /\ Cancellable
          /\ pc' = [pc EXCEPT ![Http] = "cancel_mark", ![future] = "done"]
          /\ ref' = [ref EXCEPT ![future] = 0]
          /\ UNCHANGED <<target, val>>
       \/ /\ st = "waiting"
          /\ Goto(Http, "cancel_gate")
          /\ UNCHANGED <<ref, target, val>>
       \/ /\ st \in Interruptible /\ ~(st = "queued" /\ Cancellable)
          /\ Goto(Http, "cancelling")
          /\ UNCHANGED <<ref, target, val>>

\* Mutant: the gate is closed without looking at what the row holds.
CancelGateUnchecked ==
    /\ pc[Http] = "cancel_gate"
    /\ LET g == Record(Http).gate IN
       IF g # 0
       THEN /\ gate' = [gate EXCEPT ![g] = "cancelled"]
            /\ SetRow("running")
            /\ Goto(Http, "cancel_clear")
       ELSE Goto(Http, "cancel_mark_waiting") /\ UNCHANGED <<gate, row, aged>>
    /\ UNCHANGED <<anchor, memory, ref, target, val, history>>

\* Mutant: the pending feedback is dropped whatever the answer was.
CancelGateClears ==
    /\ pc[Http] = "cancel_gate"
    /\ LET g == Record(Http).gate IN
       IF g # 0 /\ gate[g] = "open"
       THEN gate' = [gate EXCEPT ![g] = "cancelled"] /\ SetRow("running")
       ELSE UNCHANGED <<gate, row, aged>>
    /\ Goto(Http, "cancel_clear")
    /\ UNCHANGED <<anchor, memory, ref, target, val, history>>

\* A waiting run: its gate is answered with the outcome "cancelled".  A conflict
\* is not looked at: the run is marked cancelled either way.
CancelGate ==
    /\ pc[Http] = "cancel_gate"
    /\ LET g == Record(Http).gate IN
       IF g # 0 /\ gate[g] = "open"
       THEN /\ gate' = [gate EXCEPT ![g] = "cancelled"]
            /\ SetRow("running")
            /\ Goto(Http, "cancel_clear")
       ELSE Goto(Http, "cancel_mark_waiting") /\ UNCHANGED <<gate, row, aged>>
    /\ UNCHANGED <<anchor, memory, ref, target, val, history>>

\* clear_pending_feedback, after an accepted answer only.
CancelClear ==
    /\ pc[Http] = "cancel_clear"
    /\ anchor' = 0
    /\ Goto(Http, "cancel_mark_waiting")
    /\ UNCHANGED <<row, aged, gate, memory, ref, target, val, history>>

\* mark_cancelled; for a waiting run the frame "Run cancelled at the human gate
\* boundary" tells every client so.
CancelMark ==
    /\ pc[Http] \in {"cancel_mark", "cancel_mark_waiting"}
    /\ SetRecord(Http, [Record(Http) EXCEPT !.st = "cancelled", !.gate = 0, !.ctx = FALSE])
    /\ announced' = (announced \/ pc[Http] = "cancel_mark_waiting")
    /\ Goto(Http, "save")
    /\ UNCHANGED <<db, up, current, reserved, future, ref, target, val, starts, forgotten, used>>

\* mark_cancelling: the run stops at its next PRE_STEP boundary.
CancelRequest ==
    /\ pc[Http] = "cancelling"
    /\ SetRecord(Http, [Record(Http) EXCEPT !.st = "cancelling", !.cancel = TRUE])
    /\ Goto(Http, "save")
    /\ UNCHANGED <<db, up, current, reserved, future, ref, target, val, history>>

-----------------------------------------------------------------------------
(* _execute, on a pool thread.                                             *)

TaskStart(k) ==
    /\ pc[k] = "queued"
    /\ SetRecord(k, [Record(k) EXCEPT !.st = "running"])
    /\ Goto(k, "save_start")
    /\ UNCHANGED <<db, up, current, reserved, future, ref, target, val, history>>

\* The PRE_STEP guard: a requested cancel aborts before the next step.
TaskBoundary(k) ==
    /\ pc[k] = "boundary"
    /\ Goto(k, IF Record(k).cancel THEN "abort" ELSE "step")
    /\ UNCHANGED <<db, memory, ref, target, val, history>>

\* One flow method.  CrewAI's resume drops the pending feedback it consumed
\* somewhere before the flow goes on.
TaskStep(k) ==
    /\ pc[k] = "step"
    /\ anchor' \in (IF k = 0 THEN {anchor} ELSE {anchor, 0})
    /\ Goto(k, "boundary")
    /\ UNCHANGED <<row, aged, gate, memory, ref, target, val, history>>

\* _enforce_cost_ceiling, in a capture callback of the step: the run asks itself
\* to stop, with no write of the row.
BudgetStop(k) ==
    /\ pc[k] = "step" /\ ~Record(k).cancel
    /\ Spend("stop", MaxStops)
    /\ SetRecord(k, [Record(k) EXCEPT !.st = "cancelling", !.cancel = TRUE])
    /\ UNCHANGED <<db, up, current, reserved, future, threads, starts, announced, forgotten>>

\* The flow is over: it returned, or it raised.
TaskReturns(k) ==
    /\ pc[k] = "step"
    /\ \E stage \in {"complete", "fail"} : Goto(k, stage)
    /\ UNCHANGED <<db, memory, ref, target, val, history>>

\* The flow paused: HumanFeedbackPending, at a gate nobody has seen before.
TaskPauses(k) ==
    /\ pc[k] = "step"
    /\ \E g \in Gates :
          /\ gate[g] = "none" /\ \A h \in Gates : gate[h] = "none" => g <= h
          /\ target' = [target EXCEPT ![k] = g]
    /\ Goto(k, "anchor")
    /\ UNCHANGED <<db, memory, ref, val, history>>

\* mark_completed and mark_cancelled; mark_failed leaves the gate on the record.
Finished(r, st) == [r EXCEPT !.st = st, !.gate = 0, !.ctx = FALSE]

TaskMark(k) ==
    /\ UNCHANGED <<db, up, current, reserved, future, ref, target, val, history>>
    /\ \/ /\ pc[k] = "complete"
          /\ SetRecord(k, Finished(Record(k), "completed"))
          /\ Goto(k, "clear")
       \/ /\ pc[k] = "abort"
          /\ SetRecord(k, Finished(Record(k), "cancelled"))
          /\ Goto(k, "save")
       \/ /\ pc[k] = "fail"
          /\ SetRecord(k, [Record(k) EXCEPT !.st = "failed"])
          /\ Goto(k, "save")

TaskClear(k) ==
    /\ pc[k] = "clear"
    /\ anchor' = 0
    /\ Goto(k, "save")
    /\ UNCHANGED <<row, aged, gate, memory, ref, target, val, history>>

\* _mark_pending: the pending feedback first, ...
PendAnchor(k) ==
    /\ pc[k] = "anchor"
    /\ anchor' = target[k]
    /\ Goto(k, "open")
    /\ UNCHANGED <<row, aged, gate, memory, ref, target, val, history>>

\* ... then the gate row and runs.status in one transaction, ...
PendOpen(k) ==
    /\ pc[k] = "open"
    /\ gate' = [gate EXCEPT ![target[k]] = "open"]
    /\ SetRow("waiting")
    /\ Goto(k, "pend")
    /\ UNCHANGED <<anchor, memory, ref, target, val, history>>

\* ... then the record, then GATE_OPEN (AnnounceGate), then _persist_status.
PendRecord(k) ==
    /\ pc[k] = "pend"
    /\ SetRecord(k, [Record(k) EXCEPT !.st = "waiting", !.gate = target[k],
                                      !.ctx = TRUE])
    /\ Goto(k, "announce")
    /\ UNCHANGED <<db, up, current, reserved, future, ref, target, val, history>>

-----------------------------------------------------------------------------
(* recover_orphaned_runs, on the maintenance thread.                       *)

\* The grace on runs.updated_at (900 s) is far longer than any call: a settle wait
\* (5 s) and a few database calls.  So no call is in flight from before the last
\* write of a row until that row is stale; calls may start afterwards.
Age ==
    /\ ~aged
    /\ \A c \in Callers : pc[c] = "idle"
    /\ aged' = TRUE
    /\ UNCHANGED <<row, gate, anchor, memory, threads, history>>

SweepCall ==
    /\ RecoverOrphans
    /\ up /\ pc[Sweeper] = "idle"
    /\ row \in Interruptible /\ aged
    /\ ~HasLiveWork
    /\ Require(Sweeper, "sweep_check", "sweep_install", 0)

\* Mutant: a verdict that is no status of the table.
VerdictInterrupted(st) == IF st = "cancelling" THEN "cancelled" ELSE "interrupted"

\* _fail_interrupted: a cancelling run is cancelled, any other failed.
Verdict(st) == IF st = "cancelling" THEN "cancelled" ELSE "failed"

\* _adopt_interrupted_gate looks for a gate on the record; without one, and later
\* without the pending feedback, the run is failed.
Judge ==
    /\ Goto(Sweeper, IF Record(Sweeper).gate # 0 THEN "sweep_load" ELSE "claim")
    /\ target' = [target EXCEPT ![Sweeper] = Record(Sweeper).gate]
    /\ val' = [val EXCEPT ![Sweeper] = Verdict(Record(Sweeper).st)]
    /\ UNCHANGED ref

\* Mutant: the sweep looks at running records only.
SweepCheckRunning ==
    /\ pc[Sweeper] = "sweep_check"
    /\ IF ~HasLiveWork /\ Record(Sweeper).st = "running" THEN Judge ELSE Leave(Sweeper)
    /\ UNCHANGED <<db, memory, history>>

\* Re-checked with the record in hand, which may be an old one: one that the
\* row's status says nothing about.
SweepCheck ==
    /\ pc[Sweeper] = "sweep_check"
    /\ IF ~HasLiveWork /\ Record(Sweeper).st \in Interruptible THEN Judge ELSE Leave(Sweeper)
    /\ UNCHANGED <<db, memory, history>>

\* load_pending_feedback.
SweepLoad ==
    /\ pc[Sweeper] = "sweep_load"
    /\ Goto(Sweeper, IF anchor # 0 THEN "adopt" ELSE "claim")
    /\ UNCHANGED <<db, memory, ref, target, val, history>>

\* mark_waiting with the gate that was on the record, whatever has become of it.
SweepAdopt ==
    /\ pc[Sweeper] = "adopt"
    /\ SetRecord(Sweeper, [Record(Sweeper) EXCEPT !.st = "waiting", !.gate = target[Sweeper],
                                            !.ctx = TRUE])
    /\ Goto(Sweeper, "save")
    /\ UNCHANGED <<db, up, current, reserved, future, ref, target, val, history>>

\* _claim_interrupted: the compare-and-set on the status of the record.
SweepClaim ==
    /\ pc[Sweeper] = "claim" /\ row = Record(Sweeper).st
    /\ SetRow(val[Sweeper])
    /\ Goto(Sweeper, "close_gate")
    /\ UNCHANGED <<gate, anchor, memory, ref, target, val, history>>

\* The loser drops its copy, and with it the future, whether it is done or not.
SweepLost ==
    /\ pc[Sweeper] = "claim" /\ row # Record(Sweeper).st
    /\ current' = 0
    /\ future' = NoTask
    /\ forgotten' = forgotten \union (IF FutureLive THEN {future} ELSE {})
    /\ Leave(Sweeper)
    /\ UNCHANGED <<db, up, rec, reserved, starts, announced, used>>

\* _close_interrupted_gate: answer_gate again, which puts "running" on the row
\* when it accepts, until the status write below.
SweepClose ==
    /\ pc[Sweeper] = "close_gate"
    /\ LET g == Record(Sweeper).gate IN
       IF g # 0 /\ gate[g] = "open"
       THEN /\ gate' = [gate EXCEPT ![g] = "restart"]
            /\ SetRow("running")
            /\ Goto(Sweeper, "close_clear")
       ELSE Goto(Sweeper, "sweep_mark") /\ UNCHANGED <<gate, row, aged>>
    /\ UNCHANGED <<anchor, memory, ref, target, val, history>>

SweepClear ==
    /\ pc[Sweeper] = "close_clear"
    /\ anchor' = 0
    /\ Goto(Sweeper, "sweep_mark")
    /\ UNCHANGED <<row, aged, gate, memory, ref, target, val, history>>

SweepMark ==
    /\ pc[Sweeper] = "sweep_mark"
    /\ SetRecord(Sweeper, [Record(Sweeper) EXCEPT !.st = val[Sweeper], !.gate = 0, !.ctx = FALSE])
    /\ Goto(Sweeper, "save")
    /\ UNCHANGED <<db, up, current, reserved, future, ref, target, val, history>>

-----------------------------------------------------------------------------
(* Failures.                                                               *)

\* The stages whose step is a database call.
DatabaseStages ==
    {"answer_cas", "reopen", "cancel_gate", "cancel_clear", "write_start", "write",
     "clear", "anchor", "open", "sweep_load", "claim", "close_gate", "close_clear"}

\* The call raises.  A route answers 500, _reopen_gate and the sweeper log and
\* return, _execute ends and its future holds the exception; only
\* _close_interrupted_gate goes on without the answer it wanted.
DatabaseFails(t) ==
    /\ pc[t] \in DatabaseStages
    /\ Spend("fault", MaxFaults)
    /\ IF pc[t] = "close_gate"
       THEN Goto(t, "sweep_mark") /\ UNCHANGED <<ref, target, val>>
       ELSE Leave(t)
    /\ UNCHANGED <<db, memory, starts, announced, forgotten>>

Crash ==
    /\ up
    /\ Spend("crash", MaxCrashes)
    /\ up' = FALSE
    /\ current' = 0
    /\ rec' = [r \in Records |-> BlankRecord]
    /\ reserved' = FALSE
    /\ future' = NoTask
    /\ pc' = [t \in Threads |-> IF t \notin Tasks THEN "idle" ELSE
                                 IF pc[t] = "none" THEN "none" ELSE "done"]
    /\ ref' = [t \in Threads |-> 0]
    /\ target' = [t \in Threads |-> 0]
    /\ val' = [t \in Threads |-> "queued"]
    /\ UNCHANGED <<db, starts, announced, forgotten>>

Restart ==
    /\ ~up
    /\ up' = TRUE
    /\ UNCHANGED <<db, current, rec, reserved, future, threads, history>>

-----------------------------------------------------------------------------
AnswerStep(c) ==
    \/ Install(c, "answer_install", "answer_check")
    \/ AnswerCheck(c)
    \/ AnswerAccepted(c)
    \/ AnswerConflict(c)
    \/ AnswerApply(c)
    \/ Settled(c)
    \/ SettleTimeout(c)
    \/ SubmitResume(c)
    \/ SubmitBusy(c)
    \/ ReopenRow(c)
    \/ ReopenRecord(c)

CancelStep ==
    \/ Install(Http, "cancel_install", "cancel_check")
    \/ CancelCheck
    \/ CancelGate
    \/ CancelClear
    \/ CancelMark
    \/ CancelRequest

\* Where the flow goes next is not the service's to say.
TaskEnds(k) == TaskReturns(k) \/ TaskPauses(k)

TaskBookkeeping(k) ==
    \/ TaskStart(k)
    \/ TaskBoundary(k)
    \/ TaskMark(k)
    \/ TaskClear(k)
    \/ PendAnchor(k)
    \/ PendOpen(k)
    \/ PendRecord(k)

SweepStep ==
    \/ Install(Sweeper, "sweep_install", "sweep_check")
    \/ SweepCheck
    \/ SweepLoad
    \/ SweepAdopt
    \/ SweepClaim
    \/ SweepLost
    \/ SweepClose
    \/ SweepClear
    \/ SweepMark

Saves(t) == PersistRead(t) \/ PersistWrite(t) \/ AnnounceGate(t)

Next ==
    \/ Launch
    \/ \E c \in Callers : (\E g \in Gates : AnswerCall(c, g)) \/ AnswerStep(c)
    \/ CancelCall \/ CancelStep
    \/ \E k \in Tasks : TaskBookkeeping(k) \/ TaskStep(k) \/ TaskEnds(k) \/ BudgetStop(k)
    \/ Age \/ SweepCall \/ SweepStep
    \/ \E t \in Threads : Saves(t) \/ DatabaseFails(t)
    \/ Crash
    \/ Restart

Spec == Init /\ [][Next]_vars
-----------------------------------------------------------------------------
(* Fairness.  Threads are scheduled; the sweeper ticks for as long as the  *)
(* process lives; a flow has finitely many steps, so a task that keeps     *)
(* stepping ends; the platform restarts a dead process.  Nobody owes the   *)
(* run an answer or a cancel: the calls themselves are not fair.           *)

Fairness ==
    /\ WF_vars(Launch)
    /\ \A c \in Callers : WF_vars(AnswerStep(c))
    /\ WF_vars(CancelStep)
    /\ \A k \in Tasks : WF_vars(TaskBookkeeping(k) \/ TaskStep(k)) /\ SF_vars(TaskEnds(k))
    /\ SF_vars(Age) /\ WF_vars(SweepCall) /\ WF_vars(SweepStep)
    /\ \A t \in Threads : WF_vars(Saves(t))
    /\ WF_vars(Restart)

FairSpec == Spec /\ Fairness

-----------------------------------------------------------------------------
(* Properties.                                                             *)

\* A reply is consumed by at most one resume, and once it is consumed the gate
\* is never handed out again: however replies on both transports, rollbacks,
\* cancels, restores and the sweep interleave (answer_gate, _submit,
\* _reopen_gate, persistence.answer_gate and reopen_gate).
ReplyConsumedOnce ==
    \A g \in Gates : starts[g] <= 1 /\ (starts[g] = 1 => gate[g] = "reply")

\* What happens next to the run is in one place: a thread that holds its
\* continuation (a launch, a task before its gate is open, a reply before its
\* resume is queued or rolled back, a cancel or a sweep about to drop the pending
\* feedback of the gate it closed), or an open gate that hands it to whoever
\* answers first; never two threads, two gates, or a thread and a gate.
HoldingStages ==
    {"launch", "queued", "save_start", "write_start", "boundary", "step", "complete",
     "fail", "abort", "clear", "anchor", "open",
     "accepted", "settle", "submit", "reopen", "cancel_clear", "close_clear"}
Holding(t) == pc[t] \in HoldingStages
OneContinuation ==
    /\ \A s, t \in Threads : Holding(s) /\ Holding(t) => s = t
    /\ \A t \in Threads : Holding(t) => \A g \in Gates : gate[g] # "open"
    /\ \A g, h \in Gates : gate[g] = "open" /\ gate[h] = "open" => g = h

\* Two executions of one run overlap only in the tail of the first, after its gate
\* opened, and only where a sweep that lost its claim dropped the first one's future
\* from the table: _submit refuses every other resume.  So without the sweep they
\* never overlap (_submit, which reads the table outside the lock before a settle
\* wait; _claim_interrupted, which empties it).
OneExecution ==
    \A j, k \in Tasks :
        Live(j) /\ Live(k) /\ j # k => \E t \in {j, k} \intersect forgotten : ~Holding(t)

\* Whoever finds an open gate row finds the pending feedback a resume needs:
\* written before the gate, dropped only after it was answered.  This is what
\* makes a gate survive a restart (_mark_pending, cancel, _close_interrupted_gate).
OpenGateAnchored == \A g \in Gates : gate[g] = "open" => anchor = g

\* A reply that was accepted and could not start its resume was rolled back: with
\* no call in flight, no crash and no failed database call, an accepted reply
\* has its resume (answer_gate's RunBusyError branch).
NoWedgedReply ==
    /\ up /\ used["crash"] = 0 /\ used["fault"] = 0
    /\ \A c \in Callers : pc[c] = "idle"
    => \A g \in Gates : gate[g] = "reply" => starts[g] = 1

\* An interrupted run is not orphaned: a row that says queued, running or
\* cancelling with no gate to answer becomes terminal, waiting, or answerable
\* (recover_orphaned_runs, whatever step the process died at).
Answerable == \E g \in Gates : gate[g] = "open"
InterruptedRunSettles ==
    row \in Interruptible ~> row \in Terminal \union {"waiting"} \/ Answerable

\* The gates of a run follow the chain of GateProtocol.
Chain == INSTANCE GateProtocol WITH NGates <- NGates, gate <- gate, starts <- starts
ImplementsGateProtocol == Chain!Spec

-----------------------------------------------------------------------------
(* A statement of the repository that the code does not keep.              *)

\* Once clients were told "Run cancelled at the human gate boundary", no method of
\* the flow runs any more: cancelling is the lever that stops the spend.
AnnouncedCancelHolds == announced => \A k \in Tasks : pc[k] # "step"
=============================================================================
