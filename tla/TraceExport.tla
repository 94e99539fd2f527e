---------------------------- MODULE TraceExport ----------------------------
(***************************************************************************)
(* The exporter that turns the frames of runs into traces                  *)
(* (observability/langfuse_exporter.py): the bounded queue between the     *)
(* threads that capture frames and the export thread, the observations the *)
(* export thread opens and ends for each run, the price lookups that       *)
(* outlive a run, flush and close.                                         *)
(*                                                                         *)
(*   - One thread at a time captures frames of a run: the hook is called   *)
(*     under the capture lock of the run.  Runs share the queue.           *)
(*   - Only the export thread touches traces and lookups, so what it does  *)
(*     with one item of the queue is one step.                             *)
(*   - An observation is known by its role and by the frame that opened it.*)
(*                                                                         *)
(* The backend accepts every call.  What is written on an observation      *)
(* (names, metadata, content, scores, events) and the counters are left    *)
(* out, except the level of a model call.                                  *)
(***************************************************************************)
EXTENDS Naturals, Sequences, FiniteSets, SequencesExt

CONSTANTS
    Runs,            \* the runs
    Scripts,         \* script[r][b]: the frames that branch b of run r emits, in order
    Nodes, Calls, Tools, Tasks, Agents,  \* what frames name
    Answered,        \* the model calls whose answer carries a response id
    QueueCapacity,   \* policy.queue_capacity
    MaxLookups,      \* policy.max_billed_lookups_per_run
    Attempts,        \* Len(_LOOKUP_ATTEMPT_DELAYS)
    DisplaceTries,   \* _DISPLACE_ATTEMPTS
    MaxDisplaced     \* bound: frames that give way to newer ones

\* What a frame does not name, and no observation.
Absent == "absent"
None == <<>>

\* What a frame is read for.  A terminal frame says how the run ended.
Frames ==
    {f \in [kind : {"terminal", "node", "actor", "tool", "call", "token", "edge", "event"},
            stage : {"completed", "failed", "cancelled", "start", "pause", "end",
                     "before", "after", "error", Absent},
            node : Nodes, task : Tasks \union {Absent}, agent : Agents \union {Absent},
            of : Calls \union Tools \union {Absent}, bad : BOOLEAN, named : BOOLEAN] :
        /\ f.kind = "terminal" => f.stage \in {"completed", "failed", "cancelled"}
        /\ f.kind = "node" => f.stage \in {"start", "pause", "end"}
        /\ f.kind = "call" => f.stage \in {"before", "after", "error"}
        /\ f.kind \in {"call", "token"} => f.of \in Calls
        /\ f.kind = "tool" => f.of \in Tools}

ASSUME TraceAssumption ==
    /\ {QueueCapacity, Attempts, DisplaceTries} \subseteq Nat \ {0}
    /\ {MaxLookups, MaxDisplaced} \subseteq Nat
    /\ Answered \subseteq Calls
    /\ IsFiniteSet(Runs) /\ IsFiniteSet(Calls)
    /\ Scripts \subseteq [Runs -> Seq(Seq(Frames))]

VARIABLES
    script,     \* the frames that the runs emit, from the start
    (* the threads that capture *)
    at,         \* at[r][b]: how many frames branch b of r has emitted
    hook,       \* hook[r]: how far on_frames is for r
    queue,
    displaced,  \* the bound
    (* the export thread *)
    thread,     \* "running" or "stopped"
    trace,      \* trace[r]: the _RunState of r
    lookups,    \* _pending_lookups
    (* close *)
    closer,     \* how far close is
    flushed,    \* is its flush marker done
    tries       \* of _enqueue_shutdown

capturing == <<script, at, hook, displaced>>
exporting == <<thread, trace, lookups>>
closing == <<closer, tries>>
vars == <<capturing, queue, exporting, closing, flushed>>

\* A frame is known by its run, its branch and its place in the branch.
Frame(id) == script[id[1]][id[2]][id[3]]

Item(id) == [kind |-> "frames", frame |-> id]
Marker == [kind |-> "flush"]
Shutdown == [kind |-> "shutdown"]
IdleHook == [at |-> "idle"]

\* _NodeScope and _Generation.
NoScope == [span |-> None, task |-> None, agent |-> None, started |-> FALSE]
NoCall == [span |-> None, awaiting |-> FALSE, usage |-> FALSE, answered |-> FALSE,
           level |-> "default"]

\* _RunState: what it holds, and what was opened and ended of it.  Lost are the open
\* observations whose handle a later frame overwrote.
NewTrace ==
    [root |-> None, terminal |-> Absent, summary |-> Absent, resolved |-> 0,
     node |-> [n \in Nodes |-> NoScope], finished |-> {},
     tool |-> [k \in Nodes \X Tools |-> None],
     call |-> [c \in Calls |-> NoCall],
     held |-> {},
     open |-> {}, ended |-> {}, again |-> {}, lost |-> {}]

Init ==
    /\ script \in Scripts
    /\ at = [r \in Runs |-> [b \in DOMAIN script[r] |-> 0]]
    /\ hook = [r \in Runs |-> IdleHook]
    /\ queue = <<>>
    /\ displaced = 0
    /\ thread = "running"
    /\ trace = [r \in Runs |-> NewTrace]
    /\ lookups = <<>>
    /\ closer = "open"
    /\ flushed = FALSE
    /\ tries = 0

-----------------------------------------------------------------------------
(* The hook: on_frames and _displace, one queue operation a step. *)

Fits == Len(queue) < QueueCapacity

\* The next frame of a branch is captured: on_frames up to its look at _closed.  Once
\* that is set, on_frames returns at once.
Capture(r, b) ==
    /\ closer = "open"
    /\ hook[r] = IdleHook
    /\ at[r][b] < Len(script[r][b])
    /\ at' = [at EXCEPT ![r][b] = @ + 1]
    /\ hook' = [hook EXCEPT ![r] =
                   [at |-> "put", frame |-> <<r, b, at'[r][b]>>]]
    /\ UNCHANGED <<script, queue, displaced, exporting, closing, flushed>>

\* put_nowait, which raises Full when there is no room.
Put(r) ==
    /\ hook[r].at = "put"
    /\ IF Fits
       THEN /\ queue' = Append(queue, Item(hook[r].frame))
            /\ hook' = [hook EXCEPT ![r] = IdleHook]
       ELSE /\ hook' = [hook EXCEPT ![r] =
                           [at |-> "search", frame |-> hook[r].frame, looked |-> 0]]
            /\ UNCHANGED queue
    /\ UNCHANGED <<script, at, displaced, exporting, closing, flushed>>

\* A bug: whatever is the oldest item makes room.
SearchAny(r) ==
    /\ hook[r].at = "search"
    /\ queue' = IF queue = <<>> THEN queue ELSE Tail(queue)
    /\ hook' = [hook EXCEPT ![r] = [at |-> "retry", frame |-> hook[r].frame]]
    /\ UNCHANGED <<script, at, displaced, exporting, closing, flushed>>

\* _displace looks for the oldest frames; markers and the sentinel it takes out it has to
\* put back.
Search(r) ==
    /\ hook[r].at = "search"
    /\ \/ /\ queue = <<>> \/ hook[r].looked = DisplaceTries
          /\ hook' = [hook EXCEPT ![r] = [at |-> "retry", frame |-> hook[r].frame]]
          /\ UNCHANGED <<queue, displaced>>
       \/ /\ queue # <<>> /\ hook[r].looked < DisplaceTries
          /\ Head(queue).kind = "frames"
          /\ displaced < MaxDisplaced
          /\ displaced' = displaced + 1
          /\ queue' = Tail(queue)
          /\ hook' = [hook EXCEPT ![r] = [at |-> "retry", frame |-> hook[r].frame]]
       \/ /\ queue # <<>> /\ hook[r].looked < DisplaceTries
          /\ Head(queue).kind # "frames"
          /\ queue' = Tail(queue)
          /\ hook' = [hook EXCEPT ![r] =
                         [at |-> "restore", frame |-> hook[r].frame,
                          looked |-> hook[r].looked, item |-> Head(queue)]]
          /\ UNCHANGED displaced
    /\ UNCHANGED <<script, at, exporting, closing, flushed>>

\* A marker or the sentinel is put back; when the room is gone, its waiter is released.
Restore(r) ==
    /\ hook[r].at = "restore"
    /\ queue' = IF Fits THEN Append(queue, hook[r].item) ELSE queue
    /\ flushed' = (flushed \/ (~Fits /\ hook[r].item = Marker))
    /\ hook' = [hook EXCEPT ![r] = [at |-> "search", frame |-> hook[r].frame,
                                    looked |-> hook[r].looked + 1]]
    /\ UNCHANGED <<script, at, displaced, exporting, closing>>

\* The second put_nowait of _displace: when the queue is full again, the frame is lost.
Retry(r) ==
    /\ hook[r].at = "retry"
    /\ queue' = IF Fits THEN Append(queue, Item(hook[r].frame)) ELSE queue
    /\ hook' = [hook EXCEPT ![r] = IdleHook]
    /\ UNCHANGED <<script, at, displaced, exporting, closing, flushed>>

-----------------------------------------------------------------------------
(* The export thread: what one frame does to the trace t of its run. *)

Observation(role, id) == <<role, id>>
Key(o) == Frame(o[2])
Opened(t, o) == [t EXCEPT !.open = @ \union {o}]

\* The end calls of _close_span and _end_generation.
Ended(t, os) ==
    LET spans == os \ {None}
    IN [t EXCEPT !.open = @ \ spans, !.ended = @ \union spans,
                 !.again = @ \union (spans \intersect t.ended)]

\* _close_span for spans of the frame's node: an error that names no class is held
\* until the node or the run ends.
Closed(t, os, f) ==
    IF f.bad /\ ~f.named
    THEN [t EXCEPT !.held = @ \union {<<f.node, o>> : o \in os \ {None}}]
    ELSE Ended(t, os)

ScopeSpans(scope) == {scope.span, scope.task, scope.agent}

\* _close_scope.
CloseScope(t, n) == [Ended(t, ScopeSpans(t.node[n])) EXCEPT !.node[n] = NoScope]

\* _release_deferred.
Release(t, ns) ==
    LET now == {h \in t.held : h[1] \in ns}
    IN [Ended(t, {h[2] : h \in now}) EXCEPT !.held = @ \ now]

\* _open_trace.
OpenTrace(t, id) ==
    LET root == Observation("run", id)
    IN IF t.root # None THEN t ELSE [Opened(t, root) EXCEPT !.root = root]

\* _node_scope: a node that ended is opened again by its start only.
EnterNode(t, id) ==
    LET f == Frame(id)
        span == Observation("node", id)
    IN IF \/ t.node[f.node] # NoScope
          \/ f.node \in t.finished /\ ~(f.kind = "node" /\ f.stage = "start")
       THEN t
       ELSE [Opened(t, span) EXCEPT !.node[f.node].span = span]

\* _scope: another task ends the one before it, with its agent.
EnterTask(t, id) ==
    LET f == Frame(id)
        old == t.node[f.node]
        task == Observation("task", id)
        left == IF old.task = None THEN t ELSE Ended(t, {old.task, old.agent})
    IN IF f.task = Absent \/ (old.task # None /\ Key(old.task).task = f.task)
       THEN t
       ELSE [Opened(left, task) EXCEPT
                 !.node[f.node] = [@ EXCEPT !.task = task, !.agent = None],
                 !.lost = @ \union (IF old.task = None THEN {old.agent} \ {None} ELSE {})]

EnterAgent(t, id) ==
    LET f == Frame(id)
        old == t.node[f.node].agent
        agent == Observation("agent", id)
    IN IF f.agent = Absent \/ (old # None /\ Key(old).agent = f.agent)
       THEN t
       ELSE [Opened(Ended(t, {old}), agent) EXCEPT !.node[f.node].agent = agent]

Scope(t, id) ==
    LET entered == EnterNode(t, id)
    IN IF entered.node[Frame(id).node] = NoScope THEN entered
       ELSE EnterAgent(EnterTask(entered, id), id)

\* _handle_node.
HandleNode(t, id) ==
    LET f == Frame(id)
        visited == IF t.node[f.node].started THEN CloseScope(t, f.node) ELSE t
        scope == IF t.node[f.node] = NoScope THEN Scope(t, id) ELSE t
    IN CASE f.stage = "pause" -> Scope(t, id)
         [] f.stage = "start" -> [Scope(visited, id) EXCEPT !.node[f.node].started = TRUE]
         [] f.stage = "end" ->
               IF scope.node[f.node] = NoScope THEN t
               ELSE [Release(CloseScope(scope, f.node), {f.node})
                         EXCEPT !.finished = @ \union {f.node}]

\* _handle_actor: an ending frame closes the innermost open span it names.
HandleActor(t, id) ==
    LET f == Frame(id)
        scoped == Scope(t, id)
        scope == scoped.node[f.node]
    IN IF f.stage = "before" \/ scope = NoScope THEN scoped
       ELSE IF f.agent # Absent /\ scope.agent # None
       THEN [Closed(scoped, {scope.agent}, f) EXCEPT !.node[f.node].agent = None]
       ELSE IF f.task # Absent /\ scope.task # None
       THEN [Closed(scoped, {scope.task, scope.agent}, f)
                 EXCEPT !.node[f.node] = [@ EXCEPT !.task = None, !.agent = None]]
       ELSE scoped

\* _handle_tool: the open calls of a tool are known by node and tool.
HandleTool(t, id) ==
    LET f == Frame(id)
        scoped == Scope(t, id)
        key == <<f.node, f.of>>
        tool == Observation("tool", id)
        old == scoped.tool[key]
    IN IF f.stage = "before"
       THEN [Opened(scoped, tool) EXCEPT !.tool[key] = tool,
                                         !.lost = @ \union ({old} \ {None})]
       ELSE IF old = None THEN Ended(Opened(scoped, tool), {tool})
       ELSE [Ended(scoped, {old}) EXCEPT !.tool[key] = None]

-----------------------------------------------------------------------------
(* Model calls and their prices, which need the lookups as well: x is the  *)
(* traces and the lookups together.                                        *)

Over(t, c) == t.call[c].span \in t.ended
Pending(x, r, c) == \E p \in ToSet(x.lookups) : p.run = r /\ p.call = c

\* _open_generation.
OpenCall(t, id) ==
    LET c == Frame(id).of
        span == Observation("call", id)
    IN [Opened(t, span) EXCEPT !.call[c] = [NoCall EXCEPT !.span = span],
                               !.lost = @ \union ({t.call[c].span} \intersect t.open)]

\* _end_generation.
EndCall(t, c) == IF Over(t, c) THEN t ELSE Ended(t, {t.call[c].span})

\* _complete_generation: a call whose answer has an id waits, open, for its price.
Complete(x, r, c) ==
    LET t == [x.trace[r] EXCEPT !.call[c].awaiting = FALSE]
    IN IF Over(t, c) THEN [x EXCEPT !.trace[r] = t]
       ELSE IF /\ t.call[c].answered
               /\ Len(x.lookups) < MaxLookups
               /\ t.resolved < MaxLookups
       THEN [trace |-> [x.trace EXCEPT ![r] = t],
             lookups |-> Append(x.lookups, [run |-> r, call |-> c, attempt |-> 0,
                                            answer |-> "none"])]
       ELSE [x EXCEPT !.trace[r] = EndCall(t, c)]

\* The order of the calls tells only which of them get the last lookups.
CompleteAll(x, waits) == FoldSet(LAMBDA w, y : Complete(y, w[1], w[2]), x, waits)

\* _handle_generation.
HandleCall(x, r, id) ==
    LET f == Frame(id)
        scoped == Scope(x.trace[r], id)
        known == IF f.stage = "before" \/ scoped.call[f.of] = NoCall
                 THEN OpenCall(scoped, id) ELSE scoped
    IN CASE f.stage = "before" -> [x EXCEPT !.trace[r] = known]
         [] f.stage = "after" ->
               [x EXCEPT !.trace[r] = [known EXCEPT
                   !.call[f.of].awaiting = TRUE,
                   !.call[f.of].answered = f.of \in Answered]]
         [] f.stage = "error" ->
               Complete([x EXCEPT !.trace[r] =
                            [known EXCEPT !.call[f.of].level = "error"]], r, f.of)

\* _handle_fold, for the frame with the tokens and the cost of a call.
HandleToken(x, r, id) ==
    LET f == Frame(id)
        known == IF x.trace[r].call[f.of] = NoCall
                 THEN OpenCall(Scope(x.trace[r], id), id) ELSE x.trace[r]
    IN Complete([x EXCEPT !.trace[r] = [known EXCEPT !.call[f.of].usage = TRUE]], r, f.of)

\* A bug: calls that wait for their price are taken for unfinished ones.
FinishWaiting(x, r, id) ==
    LET t == x.trace[r]
        status == Frame(id).stage
        unfinished == {c \in Calls : t.call[c] # NoCall /\ ~Over(t, c)}
        marked == [t EXCEPT !.call = [c \in Calls |->
                      IF c \in unfinished /\ t.call[c].level = "default" /\ status # "completed"
                      THEN [t.call[c] EXCEPT !.level = "run"] ELSE t.call[c]]]
        completed == CompleteAll([x EXCEPT !.trace[r] = marked],
                                 {r} \X {c \in unfinished : ~t.call[c].awaiting})
        spans == {t.tool[k] : k \in DOMAIN t.tool}
                 \union UNION {ScopeSpans(t.node[n]) : n \in Nodes}
    IN IF t.terminal # Absent THEN x
       ELSE [completed EXCEPT !.trace[r] =
                [Release(Ended(@, spans), Nodes) EXCEPT
                     !.tool = [k \in DOMAIN t.tool |-> None],
                     !.node = [n \in Nodes |-> NoScope],
                     !.terminal = status,
                     !.summary = "awaiting"]]

\* _finish_run: what is open ends with the run, but for calls that wait for a price or
\* for their tokens.
Finish(x, r, id) ==
    LET t == x.trace[r]
        status == Frame(id).stage
        unfinished == {c \in Calls : t.call[c] # NoCall /\ ~Over(t, c) /\ ~Pending(x, r, c)}
        marked == [t EXCEPT !.call = [c \in Calls |->
                      IF c \in unfinished /\ t.call[c].level = "default" /\ status # "completed"
                      THEN [t.call[c] EXCEPT !.level = "run"] ELSE t.call[c]]]
        completed == CompleteAll([x EXCEPT !.trace[r] = marked],
                                 {r} \X {c \in unfinished : ~t.call[c].awaiting})
        spans == {t.tool[k] : k \in DOMAIN t.tool}
                 \union UNION {ScopeSpans(t.node[n]) : n \in Nodes}
    IN IF t.terminal # Absent THEN x
       ELSE [completed EXCEPT !.trace[r] =
                [Release(Ended(@, spans), Nodes) EXCEPT
                     !.tool = [k \in DOMAIN t.tool |-> None],
                     !.node = [n \in Nodes |-> NoScope],
                     !.terminal = status,
                     !.summary = "awaiting"]]

\* _absorb and _handle: after the terminal frame nothing opens.
Absorb(x, id) ==
    LET r == id[1]
        f == Frame(id)
        t == OpenTrace(x.trace[r], id)
        y == [x EXCEPT !.trace[r] = t]
        With(new) == [x EXCEPT !.trace[r] = new]
    IN CASE f.kind = "terminal" -> Finish(y, r, id)
         [] f.kind # "terminal" /\ t.terminal # Absent -> y
         [] OTHER -> CASE f.kind = "node"  -> With(HandleNode(t, id))
                       [] f.kind = "actor" -> With(HandleActor(t, id))
                       [] f.kind = "tool"  -> With(HandleTool(t, id))
                       [] f.kind = "call"  -> HandleCall(y, r, id)
                       [] f.kind = "token" -> HandleToken(y, r, id)
                       [] f.kind = "edge"  -> With(EnterNode(t, id))
                       [] f.kind = "event" -> With(Scope(t, id))

-----------------------------------------------------------------------------
(* The export thread: settling.  A call waits for its tokens and for its  *)
(* price, and a run for its summary; due are the waits that have run out.  *)

\* The waits that have begun.
Begun ==
    {<<"usage", w[1], w[2]>> : w \in
        {v \in Runs \X Calls : trace[v[1]].call[v[2]].awaiting
                              /\ ~Over(trace[v[1]], v[2])}} \union
    {<<"price", p.run, p.call>> : p \in {q \in ToSet(lookups) : q.answer = "none"}} \union
    {<<"summary", r>> : r \in {s \in Runs : trace[s].summary = "awaiting"}}

\* _apply_billed and _give_up_on_lookup: the call ends, with a price or without.
Resolve(t, c) == [EndCall(t, c) EXCEPT !.resolved = @ + 1]

\* A bug: a call that has ended by then is ended again.
AdvanceTwice(y, p, force, due) ==
    LET over == \/ p.answer = "billed" \/ force
                \/ p.answer = "empty" /\ p.attempt >= Attempts
        asked == CASE p.answer = "empty" -> [p EXCEPT !.answer = "none"]
                   [] p.answer = "none"  -> [p EXCEPT !.attempt = @ + 1, !.answer = "asked"]
                   [] OTHER -> p
    IN IF over
       THEN [y EXCEPT !.trace[p.run] = Ended(@, {@.call[p.call].span})]
       ELSE [y EXCEPT !.lookups = Append(@, asked)]

\* A bug: a price that is not there is asked for again without end.
AdvanceForEver(y, p, force, due) ==
    IF Over(y.trace[p.run], p.call) THEN y
    ELSE IF p.answer = "billed" \/ force
    THEN [y EXCEPT !.trace[p.run] = Resolve(@, p.call)]
    ELSE [y EXCEPT !.lookups = Append(@, [p EXCEPT !.answer = "asked"])]

\* _advance_lookup, for the lookup p after what y has settled.  An attempt that came
\* back empty is made again after a delay, Attempts times; force gives up on all.
Advance(y, p, force, due) ==
    LET elapsed == <<"price", p.run, p.call>> \in due
        over == \/ p.answer = "billed"
                \/ force
                \/ p.answer = "empty" /\ p.attempt >= Attempts
                \/ p.answer = "none" /\ elapsed /\ closer = "closed"
        next == CASE p.answer = "empty" -> [p EXCEPT !.answer = "none"]
                  [] p.answer = "none" /\ elapsed ->
                         [p EXCEPT !.attempt = @ + 1, !.answer = "asked"]
                  [] OTHER -> p
    IN IF Over(y.trace[p.run], p.call) THEN y
       ELSE IF over THEN [y EXCEPT !.trace[p.run] = Resolve(@, p.call)]
       ELSE [y EXCEPT !.lookups = Append(@, next)]

\* _settle_lookups.
SettleLookups(x, force, due) ==
    FoldLeft(LAMBDA y, p : Advance(y, p, force, due), [x EXCEPT !.lookups = <<>>], x.lookups)

\* _terminal_finish.
EndRoot(t) == IF t.root = None \/ t.root \in t.ended THEN t ELSE Ended(t, {t.root})

Outstanding(t) == \E c \in Calls : t.call[c].awaiting /\ ~Over(t, c)

\* _settle: a call without its tokens is completed when its grace is over.
SettleCalls(x, force, due) ==
    CompleteAll(x, {w \in Runs \X Calls :
                       LET t == x.trace[w[1]]
                       IN /\ t.call[w[2]].awaiting /\ ~Over(t, w[2])
                          /\ force \/ <<"usage", w[1], w[2]>> \in due})

\* _settle: the root of a run ends, and the run is closed out once no price is pending.
SettleRun(x, r, force, due) ==
    LET t == x.trace[r]
    IN IF t.summary = "awaiting" /\ ~Outstanding(t) /\ (force \/ <<"summary", r>> \in due)
       THEN [EndRoot(t) EXCEPT !.summary =
                IF force \/ \A c \in Calls : ~Pending(x, r, c) THEN "logged" ELSE @]
       ELSE t

\* _settle.
Settle(x, force, due) ==
    \E y \in {SettleLookups(x, force, due)} : \E z \in {SettleCalls(y, force, due)} :
        /\ trace' = [r \in Runs |-> SettleRun(z, r, force, due)]
        /\ lookups' = z.lookups

-----------------------------------------------------------------------------
(* The export thread: _loop. *)

Now == [trace |-> trace, lookups |-> lookups]

ExportFrames(due) ==
    /\ thread = "running" /\ queue # <<>> /\ Head(queue).kind = "frames"
    /\ queue' = Tail(queue)
    /\ \E x \in {Absorb(Now, Head(queue).frame)} : Settle(x, FALSE, due)
    /\ UNCHANGED <<capturing, thread, closing, flushed>>

ExportIdle(due) ==
    /\ thread = "running" /\ queue = <<>>
    /\ Settle(Now, FALSE, due)
    /\ UNCHANGED <<capturing, queue, thread, closing, flushed>>

ExportFlush ==
    /\ thread = "running" /\ queue # <<>> /\ Head(queue) = Marker
    /\ queue' = Tail(queue)
    /\ Settle(Now, TRUE, {})
    /\ flushed' = TRUE
    /\ UNCHANGED <<capturing, thread, closing>>

\* The sentinel: the last settling, and _release_markers.
ExportStop ==
    /\ thread = "running" /\ queue # <<>> /\ Head(queue) = Shutdown
    /\ Settle(Now, TRUE, {})
    /\ thread' = "stopped"
    /\ queue' = <<>>
    /\ flushed' = (flushed \/ Marker \in ToSet(queue))
    /\ UNCHANGED <<capturing, closing>>

\* A lookup on the pool comes back, with a price or without.
Answer(i) ==
    /\ lookups[i].answer = "asked"
    /\ \E a \in {"empty", "billed"} : lookups' = [lookups EXCEPT ![i].answer = a]
    /\ UNCHANGED <<capturing, queue, thread, trace, closing, flushed>>

-----------------------------------------------------------------------------
(* close, with flush and _enqueue_shutdown. *)

Close ==
    /\ closer = "open"
    /\ closer' = "flush"
    /\ UNCHANGED <<capturing, queue, exporting, tries, flushed>>

\* put with a timeout: it gives up on a queue that stays full.
FlushPut ==
    /\ closer = "flush"
    /\ \/ Fits /\ queue' = Append(queue, Marker) /\ closer' = "wait"
       \/ ~Fits /\ closer' = "shutdown" /\ UNCHANGED queue
    /\ UNCHANGED <<capturing, exporting, tries, flushed>>

\* The marker is done, or the wait times out.
FlushWait ==
    /\ closer = "wait"
    /\ closer' = "shutdown"
    /\ UNCHANGED <<capturing, queue, exporting, tries, flushed>>

EnqueueShutdown ==
    /\ closer = "shutdown"
    /\ \/ tries = 3 /\ closer' = "join" /\ UNCHANGED queue
       \/ tries < 3 /\ Fits /\ queue' = Append(queue, Shutdown) /\ closer' = "join"
       \/ tries < 3 /\ ~Fits /\ closer' = "discard" /\ UNCHANGED queue
    /\ UNCHANGED <<capturing, exporting, tries, flushed>>

\* The oldest item makes room, whatever it is.
Discard ==
    /\ closer = "discard"
    /\ queue' = IF queue = <<>> THEN queue ELSE Tail(queue)
    /\ closer' = "shutdown"
    /\ tries' = tries + 1
    /\ UNCHANGED <<capturing, exporting, flushed>>

\* The thread stopped, or the join times out; the pool takes no more lookups.
Join ==
    /\ closer = "join"
    /\ closer' = "closed"
    /\ UNCHANGED <<capturing, queue, exporting, tries, flushed>>

Exporting(due) == ExportFrames(due) \/ ExportIdle(due)

Hook(r) == Put(r) \/ Search(r) \/ Restore(r) \/ Retry(r)

Next ==
    \/ \E r \in Runs : (\E b \in DOMAIN script[r] : Capture(r, b)) \/ Hook(r)
    \/ \E due \in SUBSET Begun : Exporting(due)
    \/ ExportFlush \/ ExportStop
    \/ \E i \in DOMAIN lookups : Answer(i)
    \/ Close \/ FlushPut \/ FlushWait \/ EnqueueShutdown \/ Discard \/ Join

Spec == Init /\ [][Next]_vars

\* The export thread loops for as long as it runs, and a wait runs out; a request for a
\* price has a timeout; a hook runs to its end.
Fairness ==
    /\ WF_vars(\E r \in Runs : Hook(r))
    /\ WF_vars(Exporting(Begun)) /\ WF_vars(ExportFlush) /\ WF_vars(ExportStop)
    /\ WF_vars(\E i \in DOMAIN lookups : Answer(i))

FairSpec == Spec /\ Fairness

-----------------------------------------------------------------------------
(* Properties. *)

\* The observations of a run that a later frame, a wait or the end of the run ends.
Kept(t) ==
    ((IF t.terminal = Absent \/ t.summary = "awaiting" THEN {t.root} ELSE {})
     \union {t.tool[k] : k \in DOMAIN t.tool}
     \union (UNION {ScopeSpans(t.node[n]) : n \in Nodes})
     \union {h[2] : h \in t.held}
     \union {t.call[c].span : c \in {d \in Calls : ~Over(t, d)}}) \ {None}

\* Whatever frames are lost, and in whatever order branches send them: no observation is
\* ended twice, an open one can still be reached by what has to end it (but for those
\* whose handle was overwritten), after the terminal frame only calls that wait for
\* their tokens or their price are open besides the root, and a run that is closed out
\* has an ended root and waits for no tokens (_finish_run, _settle, _release_deferred).
EndedOnce ==
    \A r \in Runs : LET t == trace[r] IN
        /\ t.again = {}
        /\ t.open \ t.lost \subseteq Kept(t)
        /\ t.terminal # Absent =>
              \A o \in t.open \ (t.lost \union {t.root}) :
                  \E c \in Calls : /\ t.call[c].span = o
                                   /\ t.call[c].awaiting \/ Pending(Now, r, c)
        /\ t.summary = "logged" => t.root \in t.ended /\ ~Outstanding(t)

\* A call whose tokens arrived is never marked with the failure of its run, though the
\* run ends while the price of the call is still looked up (_finish_run).
OwnLevel ==
    \A r \in Runs : \A c \in Calls :
        trace[r].call[c].level = "run" => ~trace[r].call[c].usage

\* A run whose terminal frame arrived is closed out, though prices are never found and
\* the exporter closes meanwhile; and flush is not left to its timeout because a hook
\* that made room in the queue took its marker (_settle, _displace).
WaitsEnd ==
    /\ \A r \in Runs : trace[r].terminal # Absent ~> trace[r].summary = "logged"
    /\ closer = "wait" ~> (flushed \/ closer # "wait")

=============================================================================
