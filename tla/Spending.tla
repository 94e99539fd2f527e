---- MODULE Spending ----
(***************************************************************************)
(* The money of ONE account: RunRegistry.create_run admits a launch under  *)
(* the account's cap and under the queue bound, _record_usage counts every *)
(* priced call and trips the ceiling, _execute / _mark_pending /           *)
(* _persist_status write what was spent, require() rebuilds a record from  *)
(* its rows, and the sweeps evict, purge and reconcile.                    *)
(*                                                                         *)
(* create_run is called by one `async def` handler and never awaits, so    *)
(* there is one launch at a time; its reads, its critical section and its  *)
(* writes still interleave with the worker threads and the sweeper, and    *)
(* each is an action.  Amounts are whole units.  An action of this module  *)
(* stands for what the handler does to the money: frames, prompts and the  *)
(* gate protocol are RunRegistry's.                                        *)
(***************************************************************************)
EXTENDS Naturals, FiniteSets, Functions

CONSTANTS
    Runs,         \* the runs the account may launch
    Cap,          \* account_cap_usd, the account's lifetime allowance
    RunCeiling,   \* MAX_RUN_COST_USD; 0 is "no per-run ceiling"
    MaxQueued,    \* max_queued_runs
    MaxCall,      \* the dearest model call
    Branches,     \* how many calls one run may have in flight
    MaxRestarts, MaxFaults, MaxPaid   \* bounds: restarts, failed writes, one run's bill

ASSUME SpendingAssumption ==
    /\ IsFiniteSet(Runs) /\ Runs # {}
    /\ Cap \in Nat \ {0} /\ RunCeiling \in Nat /\ MaxQueued \in Nat \ {0}
    /\ MaxCall \in Nat \ {0} /\ Branches \in Nat \ {0}
    /\ MaxRestarts \in Nat /\ MaxFaults \in Nat  /\ MaxPaid \in Nat

VARIABLES
    launch,    \* where create_run + start_run stand, and for which run
    seen,      \* account_spend's in_memory ids
    balance,   \* account_spend's spent + committed so far
    reserved,  \* _reserved
    promised,  \* _reserved_headroom: run -> headroom, 0 when absent
    ceiling,   \* max_cost_usd of the record and of its row
    record,    \* _records
    row,       \* runs, run_node_metrics and run_gates, the parts about money
    work,      \* _futures and how far the worker has come
    inflight,  \* calls started and not yet counted
    resumed,   \* runs whose execution is a resume: not admitted, not counted
    paid,      \* what the provider really billed each run (observed, never read)
    lost,      \* how much of it was on no row when its process died (observed)
    unstopped, \* runs restored after their ceiling tripped (observed)
    restarts, faults

memory == <<launch, seen, balance, reserved, promised, record, work, inflight, resumed>>
billed == <<lost, unstopped>>
vars == <<memory, ceiling, row, paid, billed, restarts, faults>>

LaunchSteps == {"idle", "rows", "admit", "register", "install", "start"}
Work == {"idle", "queued", "running", "parking", "ending"}
Unheld == [held |-> FALSE, status |-> "none", spent |-> 0, tripped |-> FALSE,
           stopping |-> FALSE, gate |-> FALSE]
NoRow == [status |-> "none", spent |-> 0, tripped |-> FALSE, gate |-> FALSE]

Idle == [at |-> "idle", run |-> CHOOSE r \in Runs : TRUE]
Launching(step) == launch.at = step
Held == {r \in Runs : record[r].held}
Live(r) == record[r].held /\ record[r].status # "ended"
Less(a, b) == IF a > b THEN a - b ELSE 0

Init ==
    /\ launch = Idle /\ seen = {} /\ balance = 0
    /\ reserved = {} /\ promised = [r \in Runs |-> 0] /\ ceiling = [r \in Runs |-> 0]
    /\ record = [r \in Runs |-> Unheld] /\ row = [r \in Runs |-> NoRow]
    /\ work = [r \in Runs |-> "idle"] /\ inflight = [r \in Runs |-> 0]
    /\ resumed = {} /\ paid = [r \in Runs |-> 0]
    /\ lost = [r \in Runs |-> 0] /\ unstopped = {} /\ restarts = 0 /\ faults = 0

\* A write either lands or raises; MaxFaults bounds how often it raises.
Writes(ok) ==
    /\ ok \/ faults < MaxFaults
    /\ faults' = IF ok THEN faults ELSE faults + 1

\* ---------------------------------------------------------------- admission


\* A bug: only promises the account cap was the tighter limit of.
Committed_AccountOnly(r) ==
    IF Live(r) /\ ceiling[r] # RunCeiling THEN Less(ceiling[r], record[r].spent) ELSE 0

\* A promise of a live capped run is what its ceiling leaves it to spend.
Committed(r) == IF Live(r) THEN Less(ceiling[r], record[r].spent) ELSE 0

\* The in-memory half of account_spend, under the lock.
ReadMemory(r) ==
    /\ Launching("idle") /\ ceiling[r] = 0
    /\ launch' = [at |-> "rows", run |-> r]
    /\ seen' = Held
    /\ balance' = SumFunctionOnSet([s \in Runs |-> record[s].spent + Committed(s)], Held)
                  + SumFunctionOnSet(promised, Runs)
    /\ UNCHANGED <<reserved, promised, ceiling, record, row, work, inflight, resumed, paid, billed, restarts, faults>>

\* user_spend_usd, outside the lock: the rows of every run not counted above.
ReadRows ==
    /\ Launching("rows")
    /\ launch' = [launch EXCEPT !.at = "admit"]
    /\ balance' = balance + SumFunctionOnSet([s \in Runs |-> row[s].spent], Runs \ seen)
    /\ seen' = {}
    /\ UNCHANGED <<reserved, promised, ceiling, record, row, work, inflight, resumed, paid, billed, restarts, faults>>


\* A bug: a queued execution takes no slot.
ActiveSlots_Executing == Cardinality({r \in Runs : work[r] = "running"}) + Cardinality(reserved)

\* _active_slots: executions not done plus admissions not submitted.
ActiveSlots == Cardinality({r \in Runs : work[r] # "idle"}) + Cardinality(reserved)

Tighter(headroom) ==
    IF RunCeiling = 0 \/ headroom < RunCeiling THEN headroom ELSE RunCeiling

\* create_run's critical section: the cap, the promise, the queue bound, the slot.
Admit ==
    /\ Launching("admit")
    /\ balance' = 0
    /\ \/ /\ balance < Cap
          /\ ActiveSlots < MaxQueued
          /\ \E headroom \in 1..Cap :
                /\ headroom = Cap - balance
                /\ promised' = [promised EXCEPT ![launch.run] = Tighter(headroom)]
                /\ ceiling' = [ceiling EXCEPT ![launch.run] = Tighter(headroom)]
          /\ reserved' = reserved \cup {launch.run}
          /\ launch' = [launch EXCEPT !.at = "register"]
       \/ /\ balance >= Cap \/ ActiveSlots >= MaxQueued
          /\ launch' = Idle
          /\ UNCHANGED <<reserved, promised, ceiling>>
    /\ UNCHANGED <<seen, record, row, work, inflight, resumed, paid, billed, restarts, faults>>


\* A bug: the failed write forgets the slot it holds.
WriteRow_Leaks(ok) ==
    /\ Launching("register") /\ Writes(ok)
    /\ IF ok
         THEN /\ row' = [row EXCEPT ![launch.run] = [NoRow EXCEPT !.status = "queued"]]
              /\ launch' = [launch EXCEPT !.at = "install"]
              /\ UNCHANGED <<promised, ceiling>>
         ELSE /\ launch' = Idle
              /\ promised' = [promised EXCEPT ![launch.run] = 0]
              /\ ceiling' = [ceiling EXCEPT ![launch.run] = 0]
              /\ UNCHANGED row
    /\ UNCHANGED <<seen, balance, reserved, record, work, inflight, resumed, paid, billed, restarts>>

\* _register_run's durable write; when it raises the reservation is undone.
WriteRow(ok) ==
    /\ Launching("register") /\ Writes(ok)
    /\ IF ok
         THEN /\ row' = [row EXCEPT ![launch.run] = [NoRow EXCEPT !.status = "queued"]]
              /\ launch' = [launch EXCEPT !.at = "install"]
              /\ UNCHANGED <<reserved, promised, ceiling>>
         ELSE /\ launch' = Idle
              /\ reserved' = reserved \ {launch.run}
              /\ promised' = [promised EXCEPT ![launch.run] = 0]
              /\ ceiling' = [ceiling EXCEPT ![launch.run] = 0]
              /\ UNCHANGED row
    /\ UNCHANGED <<seen, balance, record, work, inflight, resumed, paid, billed, restarts>>

\* The record enters _records and the promise moves onto it.
Install ==
    /\ Launching("install")
    /\ record' = [record EXCEPT ![launch.run] =
                     [Unheld EXCEPT !.held = TRUE, !.status = "queued"]]
    /\ promised' = [promised EXCEPT ![launch.run] = 0]
    /\ launch' = [launch EXCEPT !.at = "start"]
    /\ UNCHANGED <<seen, balance, reserved, ceiling, row, work, inflight, resumed, paid, billed, restarts, faults>>

\* start_run: _submit hands the slot over to the run's future.
StartRun ==
    /\ Launching("start")
    /\ reserved' = reserved \ {launch.run}
    /\ work' = [work EXCEPT ![launch.run] = "queued"]
    /\ launch' = Idle
    /\ UNCHANGED <<seen, balance, promised, ceiling, record, row, inflight, resumed, paid, billed, restarts, faults>>

\* ---------------------------------------------------------------- execution

\* A bug: what a run spent is written when it ends, and not when it pauses.
Persisted_AtEnd(r, status) ==
    [row[r] EXCEPT !.status = status, !.tripped = record[r].tripped,
                   !.spent = IF status = "waiting" THEN @ ELSE record[r].spent]

\* The columns _persist_status writes: status, error, usage and the node metrics.
Persisted(r, status) ==
    [row[r] EXCEPT !.status = status, !.spent = record[r].spent, !.tripped = record[r].tripped]

\* _execute: mark_running, then the status write, whose failure ends the worker.
Execute(r, ok) ==
    /\ work[r] = "queued" /\ Writes(ok)
    /\ record' = [record EXCEPT ![r].status = "running"]
    /\ row' = IF ok THEN [row EXCEPT ![r] = Persisted(r, "running")] ELSE row
    /\ work' = [work EXCEPT ![r] = IF ok THEN "running" ELSE "idle"]
    /\ UNCHANGED <<launch, seen, balance, reserved, promised, ceiling, inflight, resumed, paid, billed, restarts>>

\* A step passes _cancel_guard at PRE_STEP and asks the model.
StartCall(r) ==
    /\ work[r] = "running" /\ ~record[r].stopping
    /\ inflight[r] < Branches /\ paid[r] < MaxPaid
    /\ inflight' = [inflight EXCEPT ![r] = @ + 1]
    /\ UNCHANGED <<launch, seen, balance, reserved, promised, ceiling, record, row, work, resumed, paid, billed, restarts, faults>>

\* _record_usage adds the call and _enforce_cost_ceiling looks at the total,
\* unless stop_reason says the ceiling already tripped.
Trips(r, cost) == ~record[r].tripped /\ record[r].spent + cost >= ceiling[r]

Counted(r, cost) ==
    [record[r] EXCEPT !.spent = @ + cost,
                      !.tripped = IF Trips(r, cost) THEN TRUE ELSE @,
                      !.stopping = IF Trips(r, cost) THEN TRUE ELSE @]

FinishCall(r, cost) ==
    /\ inflight[r] > 0
    /\ inflight' = [inflight EXCEPT ![r] = @ - 1]
    /\ paid' = [paid EXCEPT ![r] = @ + cost]
    /\ record' = [record EXCEPT ![r] = Counted(r, cost)]
    /\ UNCHANGED <<launch, seen, balance, reserved, promised, ceiling, row, work, resumed, billed, restarts, faults>>

\* _mark_pending: the gate row, then mark_waiting.  A gate beside another branch
\* passed its PRE_STEP before that branch tripped the ceiling.
OpenGate(r, ok) ==
    /\ work[r] = "running" /\ inflight[r] = 0 /\ Writes(ok)
    /\ IF ok
         THEN /\ row' = [row EXCEPT ![r].gate = TRUE]
              /\ record' = [record EXCEPT ![r] = [@ EXCEPT !.status = "waiting", !.gate = TRUE]]
              /\ work' = [work EXCEPT ![r] = "parking"]
         ELSE /\ work' = [work EXCEPT ![r] = "idle"]
              /\ UNCHANGED <<row, record>>
    /\ UNCHANGED <<launch, seen, balance, reserved, promised, ceiling, inflight, resumed, paid, billed, restarts>>

\* Completed, failed, or aborted by the guard: terminal in memory first.
EndRun(r) ==
    /\ work[r] = "running" /\ inflight[r] = 0
    /\ record' = [record EXCEPT ![r] = [@ EXCEPT !.status = "ended", !.gate = FALSE]]
    /\ work' = [work EXCEPT ![r] = "ending"]
    /\ UNCHANGED <<launch, seen, balance, reserved, promised, ceiling, row, inflight, resumed, paid, billed, restarts, faults>>

\* The last write of an execution that paused or ended; the future is done after it.
\* One step for the two transactions, runs and then run_node_metrics: account_spend
\* reads the metrics only, so between them it reads what it would have read before.
PersistStatus(r, ok) ==
    /\ work[r] \in {"parking", "ending"} /\ Writes(ok)
    /\ row' = IF ok THEN [row EXCEPT ![r] = Persisted(r, record[r].status)] ELSE row
    /\ work' = [work EXCEPT ![r] = "idle"]
    /\ UNCHANGED <<launch, seen, balance, reserved, promised, ceiling, record, inflight, resumed, paid, billed, restarts>>

\* answer_gate on a waiting record: the durable answer, which makes row and record
\* running, and a resume, which no admission bound stands in front of.
Reply(r) ==
    /\ Live(r) /\ record[r].status = "waiting" /\ record[r].gate /\ work[r] = "idle"
    /\ row' = [row EXCEPT ![r] = [@ EXCEPT !.status = "running", !.gate = FALSE]]
    /\ record' = [record EXCEPT ![r] = [@ EXCEPT !.status = "running", !.gate = FALSE]]
    /\ work' = [work EXCEPT ![r] = "queued"]
    /\ resumed' = resumed \cup {r}
    /\ UNCHANGED <<launch, seen, balance, reserved, promised, ceiling, inflight, paid, billed, restarts, faults>>

\* ---------------------------------------- memory and rows, crash and recovery

\* _restore_record: usage and the reason of a tripped ceiling come back with the
\* row; the cancel_requested event is a new one.
Restored(r) ==
    [held |-> TRUE, status |-> row[r].status, spent |-> row[r].spent,
     tripped |-> row[r].tripped, stopping |-> FALSE, gate |-> row[r].gate]

\* With the reason back and the event gone, Trips can never stop the run again.
Forgiven(r) == IF row[r].tripped THEN {r} ELSE {}


\* A bug: a purged run can still be rebuilt.
HasRow_Purged(r) == row[r].status # "none"

HasRow(r) == row[r].status \notin {"none", "purged"}

\* Any handler that names a run this process does not hold.
Require(r) ==
    /\ ~record[r].held /\ HasRow(r) /\ r \notin reserved
    /\ record' = [record EXCEPT ![r] = Restored(r)]
    /\ unstopped' = unstopped \cup Forgiven(r)
    /\ UNCHANGED <<launch, seen, balance, reserved, promised, ceiling, row, work, inflight, resumed, paid, lost, restarts, faults>>


\* A bug: eviction does not ask for the future.
Evict_Unfinished(r) ==
    /\ record[r].held /\ record[r].status = "ended"
    /\ record' = [record EXCEPT ![r] = Unheld]
    /\ UNCHANGED <<launch, seen, balance, reserved, promised, ceiling, row, work, inflight, resumed, paid, billed, restarts, faults>>

\* evict_stale_runs: a terminal record no worker owns leaves memory.
Evict(r) ==
    /\ record[r].held /\ record[r].status = "ended" /\ work[r] = "idle"
    /\ record' = [record EXCEPT ![r] = Unheld]
    /\ UNCHANGED <<launch, seen, balance, reserved, promised, ceiling, row, work, inflight, resumed, paid, billed, restarts, faults>>

\* purge_expired_runs: a terminal row with no open gate goes, its node metrics
\* with it, and then the record (_forget_purged_run).
Purge(r) ==
    /\ row[r].status = "ended" /\ ~row[r].gate
    /\ row' = [row EXCEPT ![r] = [NoRow EXCEPT !.status = "purged"]]
    /\ record' = IF work[r] = "idle" /\ ~Live(r)
                   THEN [record EXCEPT ![r] = Unheld] ELSE record
    /\ UNCHANGED <<launch, seen, balance, reserved, promised, ceiling, work, inflight, resumed, paid, billed, restarts, faults>>

\* recover_orphaned_runs on one stale row: adopt its gate or fail it, and persist.
Recover(r) ==
    LET found == IF record[r].held THEN record[r] ELSE Restored(r)
        status == IF found.gate THEN "waiting" ELSE "ended"
    IN /\ row[r].status \in {"queued", "running"}
       /\ r \notin reserved /\ work[r] = "idle"
       /\ found.status \in {"queued", "running"}
       /\ record' = [record EXCEPT ![r] = [found EXCEPT !.status = status]]
       /\ row' = [row EXCEPT ![r] = [status |-> status, spent |-> found.spent,
                                     tripped |-> found.tripped, gate |-> found.gate]]
       /\ unstopped' = unstopped \cup (IF record[r].held THEN {} ELSE Forgiven(r))
       /\ UNCHANGED <<launch, seen, balance, reserved, promised, ceiling, work, inflight, resumed, paid, lost, restarts, faults>>

\* The process dies and comes back with an empty registry over the same rows.
Restart ==
    /\ restarts < MaxRestarts
    /\ restarts' = restarts + 1
    /\ launch' = Idle /\ seen' = {} /\ balance' = 0 /\ reserved' = {} /\ resumed' = {}
    /\ promised' = [r \in Runs |-> 0]
    /\ record' = [r \in Runs |-> Unheld]
    /\ work' = [r \in Runs |-> "idle"] /\ inflight' = [r \in Runs |-> 0]
    /\ lost' = [r \in Runs |-> IF work[r] = "idle" /\ faults = 0
                                THEN lost[r] ELSE Less(paid[r], row[r].spent)]
    /\ UNCHANGED <<ceiling, row, paid, unstopped, faults>>

Next ==
    \/ \E r \in Runs : ReadMemory(r)
    \/ ReadRows
    \/ Admit
    \/ \E ok \in BOOLEAN : WriteRow(ok)
    \/ Install
    \/ StartRun
    \/ \E r \in Runs, ok \in BOOLEAN : Execute(r, ok)
    \/ \E r \in Runs : StartCall(r)
    \/ \E r \in Runs, cost \in 0..MaxCall : FinishCall(r, cost)
    \/ \E r \in Runs, ok \in BOOLEAN : OpenGate(r, ok)
    \/ \E r \in Runs : EndRun(r)
    \/ \E r \in Runs, ok \in BOOLEAN : PersistStatus(r, ok)
    \/ \E r \in Runs : Reply(r)
    \/ \E r \in Runs : Require(r)
    \/ \E r \in Runs : Evict(r)
    \/ \E r \in Runs : Purge(r)
    \/ \E r \in Runs : Recover(r)
    \/ Restart

Spec == Init /\ [][Next]_vars

\* --------------------------------------------------------------- properties

\* Every variable stays in its domain.
SpendTypeOK ==
    /\ launch \in [at : LaunchSteps, run : Runs]
    /\ seen \subseteq Runs /\ balance \in Nat
    /\ reserved \subseteq Runs /\ resumed \subseteq Runs
    /\ promised \in [Runs -> 0..Cap] /\ ceiling \in [Runs -> 0..Cap]
    /\ work \in [Runs -> Work] /\ inflight \in [Runs -> 0..Branches]
    /\ \A r \in Runs :
          /\ record[r].status \in {"none", "queued", "running", "waiting", "ended"}
          /\ row[r].status \in {"none", "queued", "running", "waiting", "ended", "purged"}
          /\ record[r].spent \in Nat /\ row[r].spent \in Nat /\ paid[r] \in Nat
          /\ lost[r] \in Nat
    /\ unstopped \subseteq Runs

\* What a run can still cost the account under its ceiling, or has cost it.
Exposure(r) ==
    IF r \in reserved \/ Live(r) \/ paid[r] > ceiling[r] THEN ceiling[r] ELSE paid[r]

\* No write was lost, no process died and nothing was purged.
Undisturbed == restarts = 0 /\ faults = 0 /\ \A r \in Runs : row[r].status # "purged"

\* The balance is read in two steps while runs spend, pause, end and leave memory
\* between them; still the ceilings of the account's live runs and the money its
\* ended runs were allowed to spend never sum to more than its cap (create_run,
\* account_spend: eight launches at $0 must not each be granted the whole cap).
GrantsFitTheCap == Undisturbed => SumFunctionOnSet([r \in Runs |-> Exposure(r)], Runs) <= Cap

\* However a launch ends, refused, failed in its durable write or started, the
\* slot and the headroom it reserved are held exactly while it is under way
\* (create_run's contract: a reservation leaked is held for the process's life).
NothingLeaks ==
    /\ reserved = IF launch.at \in {"register", "install", "start"} THEN {launch.run} ELSE {}
    /\ \A r \in Runs : promised[r] > 0 <=> launch.at \in {"register", "install"} /\ r = launch.run

\* The executions the admission bound let in never exceed it, whatever resumes
\* do beside them (create_run, _submit, _active_slots).
SlotsBounded ==
    Cardinality(reserved \cup {r \in Runs : work[r] # "idle" /\ r \notin resumed}) <= MaxQueued

\* Over all the pauses, evictions, restores and restarts of its life the provider
\* bills a run no more than its ceiling and the calls its other branches had in
\* flight (_enforce_cost_ceiling, "one call of granularity"), and besides only what
\* was on no row when a process died executing it or after a write of it failed.
\* Not so a run restored after its ceiling tripped: _restore_record brings the reason
\* back, which keeps _enforce_cost_ceiling from looking, and the event unset.
OvershootBounded ==
    \A r \in Runs \ unstopped :
        paid[r] + inflight[r] * MaxCall <= lost[r] + (ceiling[r] - 1) + Branches * MaxCall

\* A run this process executes, or parked at a gate, is in memory with the money
\* its row has or more: a sweep never drops what account_spend has to count
\* (evict_stale_runs, purge_expired_runs, recover_orphaned_runs).
MemoryIsFresher ==
    \A r \in Runs : work[r] # "idle" =>
        record[r].held /\ record[r].spent >= row[r].spent
=============================================================================
