# Crew Studio in TLA+

This directory holds a formal model of the service in `src/src/brief_crew`: TLA+
modules, TLC configurations that check them on small instances, and TLAPS proofs
that hold for every instance. Line numbers refer to the files of this commit.

| file | what it is |
| --- | --- |
| `GateProtocol.tla` | abstract specification: the human gates of one run form a chain |
| `RunRegistry.tla` | the life of one run in `service/registry.py`, with its rows, its threads, crashes and the orphan sweep |
| `RunRegistryInv.tla` | the inductive invariant of `RunRegistry` |
| `RunRegistryProofs.tla` | the theorems and their proofs |
| `MCRunRegistry.tla`, `RunRegistry_*.cfg` | the instances TLC checks |
| `FrameLog.tla` | the frames of a run, from the event handler to the row: ring, queue, writer thread, restore |
| `FrameLogInv.tla`, `FrameLogProofs.tla` | its inductive invariant, and the theorems |
| `FrameStream.tla`, `FrameStreamProofs.tla` | `FrameLog` with a browser that follows one run over the WebSocket; the theorems |
| `MCFrameLog.tla`, `MCFrameStream.tla`, `FrameLog_*.cfg`, `FrameStream_*.cfg` | the instances TLC checks |
| `BuilderGraph.tla` | a drawn document: which may be published, what it is priced at, the flow it compiles to |
| `BuilderFlow.tla` | a run of such a document under the flow engine, and a run derived from it |
| `BuilderProofs.tla` | the theorems about both |
| `MCBuilderFlow.tla`, `BuilderFlow_*.cfg` | the documents and instances TLC checks |
| `Spending.tla`, `SpendingProofs.tla` | the money of one account: admission, ceiling, rows, recovery; the theorems |
| `VersionedDocument.tla` | abstract specification: what the store promises about one document |
| `Publishing.tla`, `PublishingProofs.tla` | one document, the processes of a deploy and its runs; the theorems |
| `MCSpending.tla`, `MCPublishing.tla`, `Spending_*.cfg`, `Publishing_*.cfg` | the instances TLC checks |
| `TraceExport.tla`, `TraceExportProofs.tla` | the exporter that turns frames into traces; the theorems |
| `MCTraceExport.tla`, `TraceExport_trace.cfg` | the instance TLC checks |
| `FoldLemmas.tla` | induction over sets and numbers, and what it gives for folds; used by the proofs |
| `PROJECT.json` | the map from definitions to source lines, runs, mutants, findings, hazards, theorems |

## 1. The system

Crew Studio launches, watches and steers CrewAI flows. A *run* is one execution of
a workflow (a built-in flow, or a graph a user drew). It may stop at *human gates*:
CrewAI raises `HumanFeedbackPending`, the execution ends, and when a person replies a
new execution resumes the flow from the feedback row.

| component | state it keeps | operations | interacts with |
| --- | --- | --- | --- |
| Run registry (`service/registry.py`) | `_records`, `_futures`, `_reserved`; per run a `RunRecord` (status, pending gate and context, cancel flag, usage, subscribers) | `create_run`, `start_run`, `answer_gate`, `cancel`, `require`, five maintenance jobs, `close` | pool threads, persistence, frames |
| Persistence (`service/persistence.py`) | tables `runs`, `run_gates`, `pending_feedback`, `flow_states`, `run_frames`, `run_node_metrics`, `platform_tool_usage`, builder tables | one transaction per method; compare-and-sets on gates, statuses and quota | everybody |
| API (`service/app.py`) | WebSocket connections | routes are `async def` and run inline on the event loop; WebSocket gate replies run on worker threads | registry |
| Runners (`service/runner.py`, `builder_runner.py`), CrewAI | flow state | kickoff, resume | registry, frames, persistence |
| Frame pipeline (`events/*`, `_PersistenceWriter`) | ring buffer with sequence numbers, bounded queue, write batches | emit, enqueue, flush, replay | registry, persistence, API |
| Frame stream (`FrameSubscription`, WebSocket route) | one bounded queue per client | replay the log, then follow | registry, API |
| Gate watch (`sweep_gates`) | expired and alerted sets, gate deadlines | announce | registry, persistence |
| Admission and spend (`create_run`, `account_spend`, `_enforce_cost_ceiling`) | reservations, balances, ceilings | admit, refuse, stop over budget | registry, persistence |
| Platform quota (`platform_quota.py`, `claim_platform_quota`) | one counter per account, tool and day | claim | persistence |
| Builder rules and compiler (`document.py`, `bounds.py`, `budget.py`, `compiler.py`) | none | check, price, compile, derive a replay plan | document store, runners |
| Builder runtime (`runtime.py`, `gates.py`, `builder_runner.py`) | the flow's state: outputs, errors, turns, decisions | one entrypoint per node kind, pause, resume, replay | CrewAI, registry |
| Builder store and publishing (`store.py`, `builder_api.py`, `builder_rehydrate.py`, `graph.py`) | head, status and versions in the database; module maps and the registry's workflows in each process | create, save, publish, unpublish, delete, rehydrate | registry, persistence |
| Validator flow (`validator_flow.py`, `validator_guardrails.py`) | scope, revise turns, verdict | flow methods | CrewAI |
| Credentials, API keys, authentication | encrypted rows, sessions | check, store, scope | API |
| Observability exporter (`observability/*`) | a bounded queue; per run the open observations; price lookups | capture hook, absorb, settle, flush, close | frames, the trace backend, the price service |
| Admin, improve, digest APIs; frontend | read models | read and edit | persistence |

Four things are hard here. The first is the run registry: one run is touched by the event loop, by
WebSocket worker threads, by the pool thread that executes it, and by the
maintenance thread. None of them holds a lock across a call. The record in memory
and the rows in the database say the same things twice and are written one after
the other. The process may die between any two writes. The second is the frame path: a frame is
in the ring, in a queue, on a socket and in a row at different times, each of these
holds only so many, and a client has to see one sequence. The third is a drawn graph: the
engine that runs it fires an alternative once, races plain methods and ends normally when
nothing is left, so a wrong listener shows as nothing at all. The fourth is what outlives a
request: money promised to runs that are parked for days, and versions that two processes
of a deploy serve at once. Beside these, an observer takes frames through a queue that may
drop them and has to end every observation it opens. `PROJECT.json` lists the hazards, each at its line.

What makes each component correct:

- *Registry*: a reply is consumed once or rolled back; the run is never carried on in
  two places; a gate survives a restart; an interrupted run settles; a cancel wins or
  is refused.
- *Admission*: slots and reservations are never leaked; the grants fit the account's cap; a
  ceiling is overshot by the calls in flight at most.
- *Frames*: rows keep the order of the captures and never change; rows and ring agree;
  a loss is counted; a client sees every frame once, in order.
- *Builder graph and runtime*: a publishable document has bounded loops, its joins wait for
  what will come, a run delivers, a derived run replays what its source did and bills nothing
  for it unless a reply asks for it, the price bounds the laps.
- *Builder store*: two concurrent saves give two versions and one conflict; what is served is
  a stored version that compiled; a run has one executor while two processes are up.
- *Exporter*: an observation is ended once, a call keeps its own verdict, and nothing that
  is slow (prices, a full queue) keeps a run or a caller waiting for ever.
- *Gate watch*, *quota*: a gate is announced once, a claim is charged once.

## 2. `RunRegistry`: the model

One run, from the moment `create_run` returned. A step of the model is one database
transaction, one critical section, or one block of statements in memory that reads
or writes shared state. Threads interleave between steps.

**Threads.** `Http` is the event loop. It launches the run, answers gates and
cancels, one call at a time: the docstring of `submit_gate_reply` says that Starlette
moves the HTTP route off the event loop, but the route is `async def` and calls
inline, so HTTP calls never overlap (they do block the loop while a reply waits for
the settle timeout). `Sockets` are the worker threads of `asyncio.to_thread`, which
carry WebSocket replies; they overlap with everything. `Sweeper` is the maintenance
thread. `Tasks` are executions on the pool: task 0 is the kickoff, task `g` the resume
that consumes the reply to gate `g`.

**State.**

| variable | code |
| --- | --- |
| `row`, `aged` | `runs.status`; is `runs.updated_at` older than the orphan grace |
| `gate` | `run_gates`: `"none"`, `"open"` (not answered), or the outcome class: a person's `"reply"`, `"cancelled"`, `"restart"` (`service_restart`) |
| `anchor` | `pending_feedback`: the gate its context belongs to, 0 if there is no row |
| `current`, `rec` | `_records[run]` and the `RunRecord` objects that exist; two threads that restore at the same time have two |
| `rec[r].st/gate/ctx/cancel` | `status`, `pending_gate`, `pending_context`, `cancel_requested` |
| `reserved`, `future` | `_reserved`, `_futures[run]` |
| `pc`, `ref`, `target`, `val` | each thread's next step, the record it holds, the gate it works on, the status it read and will write |
| `starts`, `announced`, `forgotten`, `used` | history: resumes queued per gate, "Run cancelled at the human gate boundary" sent, executions whose future a sweep dropped after it lost its claim, bounds used up |

**Actions.** `answer_gate` is `AnswerCall`, (`Install`), `AnswerCheck`,
`AnswerAccepted` or `AnswerConflict`, `AnswerApply`, then `_submit`: `Settled` or
`SettleTimeout`, `SubmitResume` or `SubmitBusy`, and the rollback `ReopenRow`,
`ReopenRecord`, `AnnounceGate`, `PersistRead`, `PersistWrite`. `cancel` is `CancelCall`,
`CancelCheck` and one of its three branches. `_execute` is `TaskStart` to `TaskClear`;
its pause is `_mark_pending`, split at each of its five writes. `recover_orphaned_runs`
is `SweepCall` to `SweepMark`; the prompt it adopts is read in a step of its own (`SweepLoad`). `Require` and `Install` are `require`: the second
thread to store its restored record wins. `_persist_status` is two steps because the
code reads the status and then writes it, with a guard on the run id only.
`DatabaseFails` is an exception in any database call, handled as each caller handles
it. `Crash` empties memory and ends every thread, `Restart` brings the process back.

**Abstractions.** Gate ids are 1, 2, ... in the order the flow reaches them: every
pause has an id of its own, a revise turn included. The content of replies, prompts
and results is left out, and so is everything that only formats it. `_restore_record`
makes two reads (`get_run`, `load_pending_feedback`) that the model makes in one step.
`answered_gates` only chooses between 404 and 409 and is left out. The frames of a run
appear where they change the record: `_on_frames` sets `pending_gate` and the status when
GATE_OPEN or GATE_CLOSED is emitted. CrewAI is external: a resume may drop the pending
feedback at any step before the flow goes on. A heartbeat (frame batches renew
`updated_at`) is any step that clears `aged`; `Age` may fire only while no call is in
flight, because the grace (900 s) is far above the longest call (a 5 s settle wait and
a few transactions).

## 3. `FrameLog` and `FrameStream`: the models

`FrameLog` has any number of runs that share one writer. A frame is known by its place
among all frames captured for its run; its *number* is the `seq` the ring gives it. The
difference matters after a restart, when `_restore_record` numbers what it finds from 1.

| variable | code |
| --- | --- |
| `row` | `run_frames`: which frame is stored under which `seq` |
| `next`, `issued` | `FrameBuffer._next_seq`, and the frame behind each number the ring gave out (the ring itself is the last `RingCapacity` of them) |
| `restored` | how many of these came from rows |
| `hand`, `published` | what a handler holds under the capture lock, before and after it reached the subscribers |
| `queue`, `batch`, `todo`, `writer` | `_PersistenceWriter.queue`, the open batch, the runs of it whose transaction is still to come, the place in `_run` |
| `closing` | the place in `_PersistenceWriter.close` |
| `lossy` | runs whose `emit_errors` was raised |
| `captured`, `faults`, `ends` | history and bounds |

The handler is `Capture`, `Publish`, `Enqueue`, also when the writer thread has ended: `enqueue` does
not look. The writer is `TakeFrames`, `TakeMarker`
or `BatchDue` (the interval), one `AppendFrames` for each run of the batch or
`AppendFails`, `WriteDone`, and after the shutdown marker `Drain`. `close` is `CloseFlush`,
`FlushTimeout`, `ClosePill`, `CloseJoin`. `ProcessEnds` may come at any time.
Left out: what is in a frame, the order of the runs within a batch (open in the
model), and `flush` as `wait` calls it. All runs are restored at `Restart`: nobody writes
frames of a run before it is restored, so the moment does not matter, unless a sweep
drops a record of the running process (listed as a hazard).

`FrameStream` adds one connection and one browser. The server's side is `Connect`,
`ReplayRows`, `ReplayRing` (two reads, between which handlers and writer go on),
`Deliver` (the subscription, which drops its oldest frames) and `Forward`. The browser
takes frames one at a time (`receiveQueue`): `Receive` shows one or starts a fetch,
`FetchRows` and `FetchRing` are one page of GET `/frames`, `FetchFails` a request that
throws. `Disconnect` loses a suffix of what was sent; the client comes back with
`lastSequence`. The client ignores `ping`, `replay_gap`, `replay_truncated`, so they are
left out. A page that reloads starts with a new browser and is not modelled.

## 4. `BuilderGraph` and `BuilderFlow`: the models

`BuilderGraph` holds no state. A document is a record of node kinds and edges in the order
they were drawn, with the few settings that change control: branch labels, `max_turns`,
`max_retries`, `on_error`, declared joins. Its operators are the objections of `bounds.py`
(`Publishable`), the price in calls of `budget.py` (`CallsFor`), and what `compiler.py` makes
of it (`Compile`): conditions, re-arm lists, the method limit, and which nodes a derived plan
replays or drops. `BackEdges` is the depth-first search itself, because its answer depends
on the drawn order: `SearchStep` is one step on the explicit stack of `_back_edges_with_index`,
taken as often as a search of the document can need. Recursion is by functions.

`BuilderFlow` runs a compiled document. Every entrypoint of `runtime.py` is one action, as it
runs to its end without giving way to another one that matters; the interleaving is that of
the branches. The engine's side is a record.

| variable | code |
| --- | --- |
| `doc`, `plan`, `flow` | the published document, `ReplayPlan`, the compiled flow: that of the plan, from a reply on that of the whole document |
| `phase` | the run's status, as far as the flow knows it |
| `engine` | CrewAI's flow object: executions in progress, calls per method, `_fired_or_listeners`, events an "and" has seen, whether a branch was cancelled in a race |
| `state` | the flow's state: `out__*`, `err__*`, turns and the last decision of each gate |
| `saved` | what `_saved_slices` or `_test_input_values` hand to a derived run |
| `log` | history for the properties |

A reply is two steps: `Answer` is `BuilderFlowRunner.resume`, which makes a new flow object from the
whole published document, and `RouteGate` the gate's router, which reads the reply. `RunAgent` is a call
with its retries; a node whose inputs or credential are missing fails before the first attempt
(`RefuseAgent`), and ends the run even where its failures are routed.

The engine is external: it is modelled from what the comments and tests of the compiler
record of it (the races, the listener that fires once, the method limit, a resumed flow that
is a new object). The value of an output is the branch a router that reads it would take,
and nothing else about it. Left out: prompts, tools and their loops inside one step, model prices,
`no_gates` runs, `transform` and `seed_input` that raise, and two gates open at once (of the
documents of `MCBuilderFlow` only `GateBeside` puts a gate beside another branch, and there it is the
only one).

## 5. `Spending` and `Publishing`: the models

`Spending` is one account and its runs. A launch is a sequence of steps (`ReadMemory`,
`ReadRows`, `Admit`, `WriteRow`, `Install`, `StartRun`), because `create_run` reads the
balance in two places, decides under the lock, and writes after it. One launch at a time:
the only caller is an `async` handler that never awaits.

| variable | code |
| --- | --- |
| `launch`, `seen`, `balance` | where `create_run` stands, and `account_spend` so far |
| `reserved`, `promised` | `_reserved`, `_reserved_headroom` |
| `ceiling` | `max_cost_usd`, in the record and on the row |
| `record`, `row` | a run in memory and in its rows: status, money counted, ceiling tripped, gate |
| `work`, `inflight`, `resumed` | `_futures` and how far the worker is; calls started and not counted; whose execution is a resume |
| `paid` | history: what the provider billed each run |
| `lost`, `unstopped` | history: how much of it was on no row when its process died; runs restored after their ceiling tripped |
| `restarts`, `faults` | bounds |

`FinishCall` is `_record_usage` with `_enforce_cost_ceiling`; `PersistStatus` the last write of
an execution; `Require` a restored record; `Evict`, `Purge`, `Recover` the maintenance jobs;
`Restart` a new process over the same rows. Amounts are whole units, the provider's
bill is any sequence of them. Left out: other accounts, an operator's cancel, and a call that
is still out when its execution ends (`EndRun` waits for it).

`Publishing` is one document, the service processes of successive deploys, and the runs
launched from it.

| variable | code |
| --- | --- |
| `head`, `status`, `rows` | `builder_documents` and `builder_document_versions` |
| `phase` | a process boots, becomes the front, drains, is gone |
| `maps`, `runtime` | the two halves of a registration: the module maps of `graph.py`, `registry.workflows` |
| `request` | the step the process's builder handler stands at |
| `runRow`, `gate`, `answered` | `runs.status`, the run's gates and their answers |
| `record`, `working`, `replying` | per process: the cached record, the futures, the reply in flight |
| `admitted`, `executed` | history: the graph a run was priced and admitted for, and the one it ran |

`Publish`, `PublishRuntime`, `MarkPublished` are the three writes of a publish with their
rollbacks; `Boot` is `rehydrate_published_workflows`. `Answer` is the compare-and-set on the gate, which sets the row to running in the same transaction: a
process that dies before the resume has begun leaves an orphan. The builder routes never await, so a
process has one in flight; two processes interleave at every step. Left out: ownership,
several documents, size limits, test inputs, an operator's cancel. `Park` is one step here
(its writes are `RunRegistry`'s). That a row is old enough for the sweep only when no live process works on it is
the grace (900 s) against the drain (300 s).

## 6. `TraceExport`: the model; the properties of all models

`TraceExport` is one exporter. Capture threads hand frames to `on_frames`, under the capture
lock of the run, so one at a time for each run; only the export thread touches traces.

| variable | code |
| --- | --- |
| `script`, `at` | the frames each branch of a run emits, and how many it has emitted |
| `hook` | how far `on_frames` and `_displace` are, with the frame in hand |
| `queue` | the bounded queue: frames, flush markers, the shutdown sentinel |
| `trace` | `_states`: node scopes, tools, calls, deferred ends, terminal, summary; and which observations are open or ended |
| `lookups` | `_pending_lookups`, with the attempt and its answer |
| `closer`, `flushed`, `tries` | how far `close`, `flush` and `_enqueue_shutdown` are |

A queue operation of the hook or of `close` is a step (`Capture`, `Put`, `Search`, `Restore`,
`Retry`; `Close` to `Join`). What the export thread does with one item is a step, `_settle`
included (`ExportFrames`, `ExportIdle`, `ExportFlush`, `ExportStop`), and which waits have
run out by then is any set of those that have begun. A frame is reduced to what decides
its handler: its kind, stage, node, task, agent, the call or tool it is of, and whether it
reports an error. `lost` names the open observations whose handle a later frame overwrote.
Left out: metadata, scores, events and counters, a backend that refuses, batches of several
frames, a frame that is delivered twice, an export thread that died, and frames that
neither open nor end anything.

### Properties

*Registry.* `ReplyConsumedOnce`; `OneContinuation` (the run is carried on by one
thread or by one open gate); `OneExecution` (two executions overlap only in the tail of the first, and
only where a sweep that lost its claim dropped its future); `OpenGateAnchored`; `NoWedgedReply`;
`TypeOK`. *Refinement*: `ImplementsGateProtocol`.
*Liveness*: `InterruptedRunSettles`. Each is stated in words above its definition.
`AnnouncedCancelHolds` states what the repository says and the code does not keep (section 8).

*Frame log.* `LossIsCounted` (a frame that gets no row was counted, unless it was queued after the writer
had ended), `RowsHaveNoHole`
(as long as nothing was counted), `OneFrameForANumber` (rows and ring agree),
`RowsAreFinal` (action property), `FramesSettle` (liveness).
*Frame stream.* `CaughtUp` (when nothing is on its way, everything was shown),
`ShownInOrder` (action property), `SkipsAreCounted`. Those about rows are stated for runs whose ring and rows number the restored frames
alike (`Aligned`); where a restore found a hole they are not (section 8).

*Builder.* `LoopsAreCut` (the back edges are enough and not too many), `JoinsDoNotStarve`,
`RunDelivers` (a run that returns ran an output), `ResumeReachesItsPoint`,
`NothingUpstreamIsBilled` (a derived run bills nothing that it replays, a node test its node alone; after a
reply, besides, what lies behind a gate that was answered in it), `ReviseLoopsRunAsPriced`. Deadlock is checked: a run that stands
still without having ended would be one. Three of these hold of documents whose loops have the shape
the compiler reckons with: `LoopsReturn` (what leads back to a join lies behind it), `LoopsNest` (no loop
is entered at two places). What they say without that condition is `JoinsAreServed`,
`OutputsAreReached` and `LoopsRunAsPriced`; the code does not keep these, nor
`ErrorPortMeansFailure` (section 8).

*Spending.* `GrantsFitTheCap` (over the two-step read of the balance), `NothingLeaks`,
`SlotsBounded`, `OvershootBounded` (of what the provider bills over the whole life of a run, restarts
included: its ceiling, the calls in flight, and what a dying process had on no row), `MemoryIsFresher`.

*Publishing.* `ImplementsDocument` (refinement of `VersionedDocument`), `ServedIsStored`,
`HalvesAgree`, `OneExecutor`, `OrphansAreReconciled` (liveness).

*Exporter.* `EndedOnce` (no observation is ended twice or left without somebody who ends it),
`OwnLevel` (a call is not marked with the failure of its run), `WaitsEnd` (liveness: a run is
closed out, a flush is answered).

`GateProtocol` is what a client may rely on: a gate opens when all replies before it
were consumed, is answered, may be handed back while nobody consumed the reply, and is
consumed once. `RunRegistry` implements it with the identity on `gate` and `starts`:
every step is a step of the chain or leaves it alone.
`VersionedDocument` is what an author may rely on: a history that only grows, a release of
its last body only, and only of one that compiles, and a removal that is final. `Publishing`
implements it with the rows up to the head as the history.

## 7. The runs

| run | instance | shows |
| --- | --- | --- |
| `faults` | 2 gates, 1 WebSocket thread, one stop (cancel or budget), one failed database call, one crash, sweep on; 2.04 million states | the invariants under every combination of these failures |
| `chain` | 2 gates, 2 WebSocket threads (symmetric), one stop, one settle timeout, sweep off; 1.2 million states | two gates and three threads that may reply: no wedged reply, the chain of gates |
| `live` | 2 gates, event loop only, two crashes, fair | an interrupted run settles |
| `log_settle` | 2 runs, 2 frames each, ring, queue and batch of 2, one failed transaction, close, one end of the process, fair; 0.14 million states | the invariants of the log; frames settle |
| `stream_follow` | 4 frames, a ring that keeps them, a subscription of 2, a queue of 1, one drop, one failed transaction; 0.6 million states | the browser shows everything, in order |
| `stream_evict` | 4 frames, ring, queue and subscription of 1, pages of 2, one end of the process, one failed request; 0.4 million states | what the browser skips is in its count; rows are final |
| `builder` | seventeen drawn documents and every publishable one of four nodes, one lap, three replies; 0.44 million states | what a run and a derived run promise, and that no run stands still |
| `spend` | 2 runs, a cap of 3, a ceiling of 2, one slot, two calls in flight, one restart, one failed write; 0.35 million states | the account's cap, slots and ceilings hold over pauses, sweeps and restarts |
| `publish` | 3 versions of 2 bodies of which one compiles, 2 processes, 1 run with 1 gate, fair; 0.6 million states | the store keeps its promise; one executor; orphans are failed, those included whose process died after it had accepted a reply |
| `trace` | 1 run with one of five sequences of frames beside its terminal frame, a queue of 1, one frame that gives way, one lookup of two attempts, close, fair; 0.28 million states | observations are ended once, calls keep their level, waits end |

The other two, `cancel_gate` and `builder_error`, are refuted (section 8).

*Bounds.* Two gates show what one cannot: a late reply to the gate before, the order of
the chain, an old execution next to a new gate. Two records are enough for the
configurations above: a third would need a third thread that restores at the same
time, and `Free` then simply blocks the restore. One cancel, settle timeout, fault and
crash each already combine to what two threads can do to each other; the proofs cover
every other value. In the frame runs every container is smaller than the number of
frames, so that ring, queue, batch and subscription all overflow; two runs are needed
for a failed transaction to take another run's frames with it. Four frames are the
fewest with a hole in the rows, a restore and a number given again
(`RowsAreFinal`). In `stream_follow` the
ring keeps everything, as 2000 frames do for most runs; `stream_evict` is the
opposite. The documents of `MCBuilderFlow` are the shapes the rules and the compiler's comments
single out, at most nine nodes each, and every way to draw four nodes: a diamond, a router's branches
that meet again, nested and chained loops, a join inside a loop, an error port inside a loop, a crew, a
declared join, a gate beside a join, and the four documents of section 8, which the rules let pass.
In `spend` the cap is not a multiple of
the ceiling, so that both are the tighter limit in turn, and one slot makes every launch meet
the bound; in `publish` two processes are all that a deploy overlaps. In `trace` the terminal frame comes
from a branch of its own, so it overtakes and is overtaken by every other frame; a queue of
one overflows at once, and a second run would only share that queue. Deadlock is not checked
elsewhere, because there a run ends: all threads are idle and the row is terminal.

*Fairness* (`FairSpec`). Every thread that has a step takes it (the pool, the worker
threads and the event loop are scheduled by the operating system). The sweep thread
ticks for as long as the process lives (`_sweep_loop`). A flow has finitely many
methods, so a task that keeps coming back to `step` ends or pauses (strong fairness of
`TaskEnds`). Time passes (`Age`, strong fairness: it waits for the callers). A dead process is restarted by
its platform (`Restart`). Nobody owes a run a reply or a cancel: `AnswerCall` and
`CancelCall` are not fair. A call in flight would block `Age`, and callers that never
stop calling would block it for ever, so `live` leaves WebSocket threads out.
In `FrameLog` a handler finishes its call and the writer thread, which has the
interval, runs; closing, faults and ends are not fair. In `Publishing` only the sweep is: no
deploy, request or reply is owed to anybody, and `OrphansAreReconciled` asks for a process
that stays the front and serves the document.
In `TraceExport` the export thread and the hooks run on, waits run out and the price service
answers or times out; nobody has to emit frames or to close.

`live` allows no settle timeout, no stop and no failed database call because with
each of them the property fails for a reason described in section 8: an unconditional
status write that waited puts back an older status.

## 8. What the code does not keep

Two are runs that TLC refutes; `PROJECT.json` quotes the sentence of the repository.

- `cancel_gate`: **a cancelled run runs on.** `cancel` ignores the conflict when a
  WebSocket reply answered the gate first, announces the cancellation, and the reply's
  resume executes.
- `builder_error`: **a step that works takes its error port.** `err__<node>` is written on a
  failure and cleared by nobody, so on the next lap of a loop the router reads the old one.

The others were met while modelling and have no run of their own.

*Registry.*
- A waiting row may have no gate: GATE_OPEN is sent before the last `_persist_status` of
  `_mark_pending`. A reply in between is accepted, the late write puts `waiting` back over
  `running`, and if the process dies then no sweep looks at the row.
- A cancel that races the end of the run overwrites the terminal status in memory with
  CANCELLING, and no task is left to stop. Both, and `cancel_gate`, share one root:
  `_persist_status` and the `mark_*` methods write without comparing.
- A requested cancel is in no row: an interrupted gate that is adopted forgets it.
- The sweep evaluates its guards before its claim, and the claim compares the status only: a
  reply accepted in between can leave the status it expects, and the sweep then writes
  `failed` over a run whose resume is queued.
- A sweep that lost its claim removes `_futures[run]` even when that future is executing. A reply to the
  gate this execution has just opened then finds nothing to wait for, and its resume overlaps the
  first one's tail. `OneExecution` says that this is the only way.
- `clear_pending_feedback` raising after `mark_completed` leaves a completed run whose row
  says running.

*Frames.*
- `_release_stragglers` says that a frame lost at shutdown is counted (`registry.py:898-904`). It stops when
  it finds the queue empty, and `enqueue` (`registry.py:802-806`) still puts frames there: the sweep thread may
  outlive the five seconds `close` waits for it, and calls on worker threads go on. Nobody stores
  or counts those frames (`Stranded`).
- A restore renumbers: after a hole, the ring of the new process and the rows disagree, and
  new frames take numbers that have rows and are never stored. A batch that failed and left
  the ring is a number with no frame.
- A process that ends before its last batch gives those numbers again, and a browser's cursor
  hides the new frames.
- A reconnect gets one page of 500 frames; the browser asks for the rest only when another
  frame comes.

*Builder.*
- `nodes_on_cycles` takes the nodes between the two ends of a back edge. A loop that is entered at two
  places comes round over two back edges together, and has nodes between the ends of neither
  (`bounds.py:482`; the comment says "every node that a back edge can carry round again"). A
  listener there that fired on the way in is not re-armed, although `compiler.py:766` says that every router
  that closes a cycle does so: the second lap passes it over and the run returns with nothing. An agent
  there is priced at one run and billed for more. TLC finds the first with `OutputsAreReached` as the
  invariant and `TwoEntries` as the only document, the second with `LoopsRunAsPriced`,
  `TwoEntriesToPrice` and `MaxAnswers = 6`.
- A back edge into a join makes its "and" one of several alternatives, a listener that fires once
  (`compiler.py:1420`), although the docstring says that a fan-in is never the listener CrewAI suppresses.
  Where the source of the back edge is reached around the join, it fires the join before the branches have
  ended, and what they bring is not heard: `JoinsAreServed` fails for `LoopIntoJoin`.
- A fan-in of a plain step and of one whose failure is routed is a listener of alternatives whose two
  events both come (`compiler.py:1457`). The plain one fires it, the label re-arms it, and the node behind runs and is
  billed twice, although `compiler.py:1611` says that every method runs once in a document without a loop. `RouteBesideBranch`
  is the smallest one; `ChoicesAlone` leaves it out of the price.
- `_saved_slices` keeps null outputs, so `ReplayMissingOutput` never fires for a resume: a
  node the source run skipped is replayed as an empty text.
- An undeclared diamond behind a gate compiles to alternatives of two plain methods, which
  the engine races: one branch is cancelled (`compiler.py:1442`; `RunDelivers` and
  `JoinsDoNotStarve` leave such runs out).
- A loop closed by a gate's approve port, or a router's loop around a gate, is not bounded by
  the method limit, because each resume is a new flow object; `ReviseLoopsRunAsPriced` is about
  revise loops for this reason. A node behind a loop may run on every lap at the price of one.
- `_latest` may read the output of an earlier lap.
- `BuilderFlowRunner.resume` builds the flow from the whole published document, also when the run that paused
  was derived (`builder_runner.py:205-209`). A node test of a gate, once answered, goes on behind the gate
  and bills what it runs there, although `compiler.py:236-241` says that everything downstream is not compiled at
  all, because it would bill like a run. `NothingUpstreamIsBilled` bounds this by what lies
  behind an answered gate.

*Spending.*
- A crash between the gate row and the status write of `_mark_pending` restores an older usage, although
  `registry.py:3599-3602` says a restored run trips where it would have: what the row does not know of
  (`lost` in the model) is spent on top of the ceiling. A run that tripped while it parked comes back with
  its reason and without its stop, and is not looked at again (`unstopped`); `OvershootBounded` leaves it out.
- Until somebody asks for them, parked runs of an earlier process promise nothing to
  `account_spend`. A purge deletes the metrics that are the lifetime spend.

*Publishing.*
- The runtime is looked up by workflow id when an execution starts: a run that is queued or
  parked while its document is republished goes on with the newer version, although its row
  and its price are those of the version it was admitted for (`registry.py:2990`).
- A refused publish takes the version that was live out of service, because the rollback
  unregisters whatever is there.
- A document edited after its publish is a draft, and a restart does not register its live
  version: its parked runs answer 404 and its orphans are passed over. The sweep at boot runs
  before any builder workflow is known.
- A record read during a deploy stays as it was read: a process that cached a waiting run
  never sees that the other process took it on (`OrphansAreReconciled` excludes this).

*Exporter.* The contract says that nothing is left without an end time once a terminal frame
was seen (`docs/observability/TRACE-CONTRACT.md:122`). Some observations are:
- a tool that starts twice on one node, when the first end was dropped or the calls are
  parallel, overwrites its entry; an agent that starts before its task is forgotten when the
  task opens; both are never ended (`lost` in the model, excluded in `EndedOnce`);
- the settling at shutdown may begin a lookup for a call that waited for its tokens, and no
  step comes after it.

Besides: the sentinel, or a marker without a flush, is lost when the queue fills up before
it is put back; `_enqueue_shutdown` discards whatever is oldest; frames of a restored run that
are numbered again are taken for repeated ones; `_states` is never pruned.

## 9. What is proved

`RunRegistryProofs` proves, for any number of gates, WebSocket threads, records,
crashes, faults, stops and settle timeouts, with the sweep on or off:

| theorem | statement |
| --- | --- |
| `TypeCorrect` | `Spec => []TypeOK` |
| `Invariance` | `Spec => []IInv` |
| `RepliesConsumedOnce` | `Spec => []ReplyConsumedOnce` |
| `OneCarriesOn` | `Spec => []OneContinuation` |
| `OpenGatesAnchored` | `Spec => []OpenGateAnchored` |
| `RunImplementsGateProtocol` | `Spec => ImplementsGateProtocol` |
| `NoReplyIsWedged` | `Spec => []NoWedgedReply` |
| `ExecutionsDoNotOverlap` | `Spec => []OneExecution` |

The assumptions are `BoundsAssumption` (the bounds are numbers, there is a record) and
`ThreadsAssumption` (the threads are different), which every run evaluates.

*Argument.* None of these invariants is inductive alone. The strengthening `IInv`
treats the continuation of the run as a token. It starts with the launch, goes to task
0, from a task to the gate it opens, from the gate to the one reply whose
compare-and-set succeeded, and from that reply either to its resume or back to the
gate. `OneContinuation` says the token is in one place. `Front` says that all gates before
the token's are consumed and none after it was opened. `AnchorKept` says that the pending
feedback stays for as long as the token may still go back to the gate: this is why a
cancel may drop it only after its own compare-and-set was accepted.

Most actions move one thread between stages and leave rows alone (`Hop`) or drop a
token (`Drop`). The proof shows once that `TokenInv` survives a hop, a drop, a pass from
one thread to another, and the opening or closing of a gate, and then that each action
is one of these. `NoReplyIsWedged` adds `ReplyHeld` (while nothing failed, an accepted
reply is in somebody's hands) and `ExecutionsDoNotOverlap` adds `FutureInv`: a live task is
the one the table of futures names, or a sweep forgot it; and while a task holds the token the table names
no other. Two live tasks are not both in the table, and do not both hold the token.

`FrameLogProofs` proves, for any runs, capacities, batch size, groups, faults and ends of
the process:

| theorem | statement |
| --- | --- |
| `LogInvariance` | `Spec => []LogInv` |
| `LogTypeCorrect` | `Spec => []TypeOK` |
| `LossesAreCounted` | `Spec => []LossIsCounted` |
| `RowsAgreeWithRing` | `Spec => []OneFrameForANumber` |
| `RowsKeepTheirOrder` | `Spec => []RowsHaveNoHole` |
| `RowsNeverChange` | `Spec => RowsAreFinal` |

from `FrameBounds` (the bounds are numbers, capacities are positive) and
`MarkersAssumption` (a marker is not a run).

*Argument.* A fresh number is in a hand, in the queue, in the batch, in its row, or its
run is counted (`SettledInv`). The queue alone is no excuse: it is on its way to a row while the writer is
there, and `Stranded` afterwards. Hand, queue and batch hold the numbers of a run in
ascending order (`WayInv`), and rows lie below all of them (`RowInv`); so when a number
has a row, no smaller one can still be on its way, and if none was counted all smaller
ones have rows. A batch is between written and unwritten while its transactions run:
`Unwritten(r)` tells which of the two the run's part is. At a restart, rows that
fill `1..n` are renumbered to themselves; others are not `Aligned`. `Untouched` shows
once that an action keeps the invariant of a run it does not touch.

`FrameStreamProofs` proves, for any capacities, page and frame limits, drops, faults and ends:

| theorem | statement |
| --- | --- |
| `StreamRefinesLog` | `StreamSpec => Spec`: the stream is the log of `FrameLog` and a reader of it |
| `StreamIsTyped` | `StreamSpec => []StreamTypeOK` |
| `SkippedFramesAreCounted` | `StreamSpec => []SkipsAreCounted` |
| `FramesAreShownInOrder` | `Following => (StreamSpec => ShownInOrder)` |
| `BrowserCatchesUp` | `Following /\ Untruncated => (StreamSpec => []CaughtUp)` |

The first theorem lets every fact about `FrameLog` be used of the stream. `Following` says that the
ring keeps all frames of the run and the process does not end. It is needed: TLC refutes
`ShownInOrder` for a ring of one frame and one dropped frame, because a number that the ring gave up and
no row took leaves the replay with a hole, the browser fetches across it, and the frame that
the subscription still holds comes after its successor. `Untruncated` says that a page
holds all frames and no request fails: otherwise the browser waits for another frame before
it asks again (section 8).

*Argument.* `StreamInv` keeps what a replay reads after what was sent and what a page holds
after the cursor, so no step shows a number that the cursor has passed; and where a step moves
the cursor over numbers it does not show, what is newly unshown lies in the interval it
skipped without what it showed, and that is what the step adds to the count. `FollowInv`: every
frame on the way is under the number it was captured with, the screen is exactly the frames up to
the cursor, and a fetch under way has no hole. The ring answers it whole, so a fetch that ends has
none either, and a frame that does not follow the cursor starts a fetch before it is shown.
`CatchInv` adds that whoever waits has something to wait for: the subscription, else the inbox,
else the socket ends with the newest frame that was published (`WaitInv`), and what was sent is on
the screen, in the fetch under way or still to be received (`ReachInv`).

`SpendingProofs` proves, for any finite set of runs, any cap, ceiling, queue bound, branches, prices,
restarts and faults:

| theorem | statement |
| --- | --- |
| `SpendingIsTyped` | `Spec => []SpendTypeOK` |
| `GrantsAlwaysFit` | `Spec => []GrantsFitTheCap` |
| `ReservationsFollowLaunches` | `Spec => []NothingLeaks` |
| `AdmissionIsBounded` | `Spec => []SlotsBounded` |
| `OvershootIsBounded` | `Spec => []OvershootBounded` |
| `MemoryIsNeverBehind` | `Spec => []MemoryIsFresher` |

from `SpendingAssumption`.

*Argument.* A launch holds one slot, and passes it to the run's future in one step, so the
union of reservations and admitted executions grows only where the bound is looked at. Money in memory
only grows while a worker owns the run, and every write to the row copies it; a record is
dropped only when nobody owns the run. For the overshoot, a record that has not tripped is below its
ceiling, the call that trips it adds one price at most, and from then on calls end and none
starts. `BillInv` carries this over to what was billed: the two differ by what was lost at most, since the
row that a restore reads is behind the bill only by that, and a run that tripped and is
restored is `unstopped`. For the cap, `GrantInv` says that all
that the runs have spent, or were promised and may still spend, fits it; that a launch between its two
reads has counted at least this much of the runs it saw in memory, and that none of the others is
live; and after both reads, at least this much of all runs. So what it grants fits. Like the property, it is
about accounts that no crash, purge or failed write has disturbed. Sums over runs are folds,
which `FoldLemmas` takes apart one run at a time.

`PublishingProofs` proves, for any bodies, versions, processes, runs and gates:

| theorem | statement |
| --- | --- |
| `PublishingIsTyped` | `Spec => []PublishingTypeOK` |
| `ServedVersionsAreStored` | `Spec => []ServedIsStored` |
| `RegistrationIsOne` | `Spec => []HalvesAgree` |
| `RunsHaveOneExecutor` | `Spec => []OneExecutor` |
| `StoreImplementsDocument` | `Spec => ImplementsDocument` |

from `PublishingAssumption`. *Argument.* `PubInv` adds to these three facts. `Recorded`: the rows run
from 1 to the head, so the history is a sequence, a save appends to it, and a published head
compiled. `Handlers`: the halves differ only between two writes of one publish. `Gates`: a run
is worked on only once every gate it opened is answered; a prompt that a process holds is for
a gate that was opened, so the compare-and-set on the gate's row accepts one reply, when no
process works on the run, and `OneExecutor` follows.

`TraceExportProofs` proves, for any runs, branches, frames, tasks, agents, queue capacity,
lookups and attempts:

| theorem | statement |
| --- | --- |
| `ObservationsEndOnce` | `Spec => []EndedOnce` |
| `CallsKeepTheirLevel` | `Spec => []OwnLevel` |

from `TraceAssumption` and `ScriptsAssumption` (runs and calls are finite; a frame is one that
`events/` can emit). *Argument.* `TraceInv` says that a frame waits in the queue once or in a hook, and that what a trace
has opened was opened by frames which are past, so an observation that a frame opens is new
(`InOnePlace`, `Behind`); that no observation of a trace is both open and ended, and each open one
that is not `lost` is kept by somebody who will end it: the run, a scope, a tool's entry, a held
span, a call (`Good`); and that a call with its tokens has ended or waits for its price, that a call
takes the run's level only once the run is over, and that after its terminal frame a run holds
calls only (`Coupled`). What the export thread does to a trace is a
chain of small functions, with one lemma for each; its sweeps over the lookups are folds,
handled by `FoldLemmas`.

`BuilderProofs` proves, for any documents, bounds, retries, turns, joins, points and answers:

| theorem | statement |
| --- | --- |
| `LoopsAlwaysCut` | `Spec => []LoopsAreCut` |
| `BuilderIsTyped` | `Spec => []TypeOK` |
| `ReplayedNodesAreFree` | `Spec => []NothingUpstreamIsBilled` |
| `JoinsAreAlwaysServed` | `Spec => []JoinsDoNotStarve` |
| `RunsDeliver` | `Spec => []RunDelivers` |
| `RevisesRunAsPriced` | `Spec => []ReviseLoopsRunAsPriced` |

from `GraphBoundsAssumption` (the bounds are numbers) and `DocumentsAssumption` (each document has
the fields of `BuilderDocument`, and the rules of `bounds.py` let it be published).

*Argument for the graph.* `SearchOK` is kept by each step of the search: every node is on the stack once
or finished once, or not seen; edges are tried from nodes that were seen; a tried edge that is no back edge leads to a
node that finished before its source, or that lies above it on the stack; the stack is a path of such
edges, and the source of a back edge is reached from its target over them. Each step lessens the unseen nodes, the
unfinished ones or the untried edges (`Advances`), so the number of steps in `BackEdges` is enough
(`SearchEnds`): afterwards every edge that is left leads to an earlier node of the finishing order.
`ReachableIsLeast` says that `Reachable`, a recursive function over sets, is the least set that its
pairs do not leave. What finished before a node is such a set, so no node reaches itself.

*Argument for a run.* `RunOK` says that the flow is the document compiled under the plan (`FlowOK`); that the engine
holds only steps of that flow, in lanes of its races, and within the method limit unless it is over
(`EngineOK`, `PhaseOK`; one lemma for each operator of the engine, and the races that a lane
closes are a fold); that state and saved slices are typed; that a revise which was honoured took a
turn; and that what was billed is a step of the flow which it does not replay (`LogOK`). `AncestorsFacts` ties
the replayed set to the drawn graph: a node from which the point can be reached is replayed,
or is the point. That is what a derived run bills while it is in the flow of its plan. `Derived` follows it over a
reply: from then on there is one gate, the first that was answered, behind which lies everything that is
under way and everything billed since (`Beyond`), because what a step calls or fires follows its node in the
drawn graph (`EmitOnto`, `OnwardsOnto`).

The last three theorems are about whole runs. Section by section the proofs first say what a compiled
document listens to, for any drawn graph (`ListenFacts`), and what one event does to the engine
(`EmitEffects`), so that every action of a whole run is one of seven steps (`WholeSteps`): nothing, the
start, a stop, an event, a step half that calls its router half, a resume that makes a new engine for the
router half of the gate, and that router reading the reply. Each of the three has an invariant of its own
over these seven.

*Argument for the joins* (`JoinsOK`). A join that the compiler chose waits only for steps that no step which
chooses leads to (`JoinedAreSure`: for each predecessor the compiler looks at its ancestors, and a predecessor which
chooses is known by its label). Such a step is on no loop; it runs once, after all that is before it, and is under
way in between (`SureNodes`). A join holds the events of those that ran, until all did, and so long all that
is under way lies before it (`JoinNodes`). This is where `LoopsReturn` is needed: otherwise the back edge may
fire the join early. When the run returns nothing is under way, so all of them ran and the join is empty.
A pause is at a gate, which chooses: after the first reply no such step runs again and no join
holds anything (`Resumed`).

*Argument for the output* (`Delivers`). In every whole run a step is under way, an output ran, or a join holds an event.
Each event is carried by an edge, so a step leads on, except to a listener that fired once. The invariant
therefore says the same once more for each of these: something is under way, or an output ran, among what
that listener leads to without going its loops round again (`LeadsTo`). A lap that comes back to the listener re-arms it,
because each step of a loop is in `nodes_on_cycles` if loops nest (`LoopsAreCarried`), so nothing is passed over in
vain. At the end nothing is under way and the joins are empty, so an output ran.

*Argument for the price* (`Priced`). Each honoured revise of a gate that closes a loop is one lap; `Lapped` counts
them, and there are no more than the turns of all loops together. No step ran more often than once and once for
each lap, if it is on a loop, and once otherwise. To keep that, the invariant says what may still run: a step
under way, and one ahead of it that was not called since the last pause, have room for one run (`Room`,
`Early`); no step half is called twice between two pauses (`OnceEach`); and what leads to a gate is under way
alone (`Lone`), so a reply finds nothing else going on and turns every loop for all of its steps at once. `ChoicesAlone` is
needed for this: in `RouteBesideBranch` a step is called twice (section 8). The price multiplies by
`(1 + I)` for each of `c` back edges, which is `1 + c * I` at least (`MultiplierCovers`).

`FoldLemmas` holds what the others need of induction. The library's induction theorems take a
predicate as a parameter, which the installed provers cannot instantiate; here they are stated for a
set (`FiniteSetInduction`, `NatSetInduction`), which they can. `FoldStep` and `FoldInvariant` say that
a fold of the community modules takes its steps and keeps what each step keeps, and `IterationStep`
that a recursive function on the numbers takes its own; a module instantiates them with its operator.

*Only model-checked*: `InterruptedRunSettles`, `FramesSettle`, `OrphansAreReconciled`, `WaitsEnd`
(liveness under fairness is out of the prover's reach, as is ENABLED), and the refuted
statements. Of the builder `ResumeReachesItsPoint`: it compares two runs step by step, the source's and the
derived one, in which branches may end in another order; the invariant would have to say, for each prefix of the
second, which part of the first it repeats, and that is not worked out.

## 10. Not modelled, and what is left

- *Gate watch*: it announces late gates and changes nothing that a reply looks at.
- *Platform quota*: one guarded update per claim, decided by the database.
- *Validator flow*: a fixed flow whose gates are `RunRegistry`'s; what its crews answer and
  its text checks are model output.
- *Credentials, API keys, authentication*: pure functions of external libraries.
- *Observability exporter*: what `TraceExport` leaves out is listed in section 6.
- *Admin, improve and digest APIs*: reports, and edits in one transaction each. The
  administrator's unpublish is the author's.
- *Frontend*: rendering and input; the client side of the stream is in `FrameStream`.

What would add most next: the record table of `RunRegistry` composed with `FrameLog` (a sweep
that drops a record makes the same process restore it while frames are queued), the sweeps of
two processes at the grain of `RunRegistry`, and several accounts in `Spending`.

Out of scope: CrewAI itself, prompts and model output, rendering, encryption, and
read-only reports.
