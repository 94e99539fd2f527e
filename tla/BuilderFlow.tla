----------------------------- MODULE BuilderFlow -----------------------------
(***************************************************************************)
(* A run of a published document, and then a run derived from it: the      *)
(* entrypoints of builder/runtime.py and builder/gates.py, under the flow  *)
(* engine (CrewAI) that calls them, with the replay plans of               *)
(* builder/compiler.py and the door that service/app.py puts before them.  *)
(*                                                                         *)
(* The engine is external and is modelled from what the compiler's         *)
(* comments and tests record of it: a listener with several alternatives   *)
(* fires once until it is re-armed; an "and" waits for every event and     *)
(* starts over; two plain methods that are the alternatives of one         *)
(* listener race when one event triggers both, and the first to finish     *)
(* with all it triggered cancels the other with all that one triggered; a  *)
(* method called more often than the limit fails the run; a flow resumed   *)
(* from a pause is a new object, which remembers the state and nothing of  *)
(* the engine's own.                                                       *)
(*                                                                         *)
(* The value of an output is the branch that a router which compares it    *)
(* would take.                                                             *)
(***************************************************************************)
EXTENDS BuilderGraph

CONSTANTS
    Documents,   \* bound: the documents an author may publish
    MaxAnswers   \* bound: replies to gates in one run

ASSUME DocumentsAssumption ==
    MaxAnswers \in Nat /\ \A d \in Documents : IsDocument(d) /\ Publishable(d)

VARIABLES
    doc,     \* the published document
    plan,    \* what a derived plan was asked for
    flow,    \* the compiled flow: of the plan, until a reply resumes the whole one
    phase,   \* "published", "running", "paused" at a gate, "completed" or "failed"
    engine,  \* the engine's memory of this flow object
    state,   \* the flow's state, as every checkpoint saves it
    saved,   \* the slices of the source run a derived run replays
    log      \* history: how often each node ran and was billed, whose last
             \* run failed, the nodes its source ran and if it ran one twice

vars == <<doc, plan, flow, phase, engine, state, saved, log>>

Blank == "blank"   \* the null a key is seeded with
Empty == "empty"   \* the empty string
Other == "other"   \* any text no declared comparison matches

Methods == StepNodes(doc) \X {"step", "route"}
Router(n) == KindOf(doc, n) = "router"

-----------------------------------------------------------------------------
(* The engine.  An execution is one call of a method with all it triggers;  *)
(* its lane says which side of which race it is on.                         *)

NewEngine(methods) ==
    [active |-> {[method |-> m, lane |-> <<>>, nth |-> 1] : m \in methods},
     calls |-> [m \in Methods |-> IF m \in methods THEN 1 ELSE 0],
     fired |-> {}, arrived |-> [n \in StepNodes(doc) |-> {}], done |-> {},
     over |-> FALSE, lost |-> FALSE]

Starts == OfKind(doc, {"input"}) \X {"step"}

Names(n, ev) == Hears(flow.listen[n], ev)

\* A listener with several alternatives that already fired is passed over;
\* routers are exempt.
Once(n) == n \in flow.once

\* What a race that is over leaves running: when nothing of one side is left,
\* the other sides are cancelled, from the innermost race outwards.
Survivors(active, lane) ==
    LET Side(as, k) == {e \in as : IsPrefix(SubSeq(lane, 1, k), e.lane)}
        Racing(as, k) == {e \in Side(as, k - 1) :
                             Len(e.lane) >= k /\ e.lane[k].race = lane[k].race}
        Close(as, k) == IF Side(as, k) = {} THEN as \ Racing(as, k) ELSE as
    IN  FoldLeft(Close, active, [i \in 1..Len(lane) |-> Len(lane) + 1 - i])

\* Call, one call too generous.
Call_OverLimit(eng, methods, lane) ==
    LET racing(n) == {g \in flow.races : n \in g /\ g \X {"step"} \subseteq methods}
        Lane(m) == IF m[2] = "step" /\ racing(m[1]) # {}
                   THEN Append(lane, [race |-> CHOOSE g \in racing(m[1]) : TRUE, of |-> m[1]])
                   ELSE lane
        called == {[method |-> m, lane |-> Lane(m), nth |-> eng.calls[m] + 1] : m \in methods}
    IN  [eng EXCEPT !.active = @ \union called,
                    !.calls = [m \in Methods |-> @[m] + (IF m \in methods THEN 1 ELSE 0)],
                    !.fired = IF methods \intersect eng.done = {} THEN @ ELSE {},
                    !.done = @ \ methods,
                    !.over = \E m \in methods : eng.calls[m] > flow.limit]

\* Calls a set of methods in the lane of the execution that triggered them.
Call(eng, methods, lane) ==
    LET racing(n) == {g \in flow.races : n \in g /\ g \X {"step"} \subseteq methods}
        Lane(m) == IF m[2] = "step" /\ racing(m[1]) # {}
                   THEN Append(lane, [race |-> CHOOSE g \in racing(m[1]) : TRUE, of |-> m[1]])
                   ELSE lane
        called == {[method |-> m, lane |-> Lane(m), nth |-> eng.calls[m] + 1] : m \in methods}
    IN  [eng EXCEPT !.active = @ \union called,
                    !.calls = [m \in Methods |-> @[m] + (IF m \in methods THEN 1 ELSE 0)],
                    !.fired = IF methods \intersect eng.done = {} THEN @ ELSE {},
                    !.done = @ \ methods,
                    !.over = \E m \in methods : eng.calls[m] >= flow.limit]

Ended(eng, e) == [eng EXCEPT !.active = @ \ {e}, !.done = @ \union {e.method}]

Settle(eng, lane) ==
    [eng EXCEPT !.active = Survivors(@, lane),
                !.lost = @ \/ Survivors(eng.active, lane) # eng.active]

\* Ends a call with an event, which triggers its listeners.  A label first
\* re-arms the listeners that name it.
Emit(eng, e, ev) ==
    LET ended == Ended(eng, e)
        armed == {n \in ended.fired : ev[2] = Ran \/ ~Names(n, ev)}
        hearing == {n \in flow.steps : Names(n, ev) /\ ~(Once(n) /\ n \in armed)}
        arrived == [n \in StepNodes(doc) |->
                       ended.arrived[n] \union (IF n \in hearing THEN {ev} \intersect flow.listen[n].all
                                                ELSE {})]
        complete == {n \in hearing : ev \in flow.listen[n].all /\ arrived[n] = flow.listen[n].all}
        triggered == complete \union {n \in hearing : ev \in flow.listen[n].any}
        heard == [ended EXCEPT
                     !.fired = armed \union {n \in triggered : Once(n)},
                     !.arrived = [n \in StepNodes(doc) |-> IF n \in complete THEN {} ELSE arrived[n]]]
    IN  Settle(Call(heard, triggered \X {"step"}, e.lane), e.lane)

\* Ends the step half of a node, which calls its router half.
Pair(eng, e) == Call(Ended(eng, e), {<<e.method[1], "route">>}, e.lane)

\* A router discards the listeners it is about to re-enter.
Rearm(eng, n) == [eng EXCEPT !.fired = @ \ flow.rearm[n]]

-----------------------------------------------------------------------------
(* The flow's state.                                                        *)

BlankState == [out |-> [n \in StepNodes(doc) |-> Blank], err |-> {},
               turns |-> [n \in StepNodes(doc) |-> 0],
               decision |-> [n \in StepNodes(doc) |-> "none"]]

\* What flowed into a node: its predecessors in the order of their first edge, those
\* over a back edge last, and of their outputs the last that has a value.
InboundSource(n, edges) ==
    LET into == {i \in edges : doc.edges[i].dst = n /\ doc.edges[i].src \in flow.steps}
    IN  {i \in into : \A j \in into : doc.edges[j].src = doc.edges[i].src => i <= j}

Latest(n) ==
    LET valued(edges) == {i \in InboundSource(n, edges) :
                             state.out[doc.edges[i].src] \notin {Blank, Empty}}
        normal == valued(FlowEdges(doc) \ flow.back)
        looped == valued(flow.back)
        last == IF looped # {} THEN looped ELSE normal
    IN  IF last = {} THEN Blank ELSE state.out[doc.edges[Max(last)].src]

\* The outputs a node may produce: only a node some router reads matters.
Produces(n) ==
    {Other} \union UNION {doc.branches[r] : r \in {s \in OfKind(doc, {"router"}) : doc.reads[s] = n}}

Record(n, value) == [state EXCEPT !.out[n] = value]

\* What a run left of some nodes: every key is there, null or not.
Slices(nodes, from) ==
    [out |-> [n \in nodes |-> from.out[n]], err |-> from.err \intersect nodes,
     decision |-> [n \in nodes |-> from.decision[n]]]

NoLog == [ran |-> [n \in StepNodes(doc) |-> 0], billed |-> [n \in StepNodes(doc) |-> 0],
          failed |-> {}, source |-> {}, lapped |-> FALSE, answers |-> 0]

Init ==
    /\ doc \in Documents
    /\ plan = WholePlan
    /\ flow = Compile(doc, WholePlan)
    /\ phase = "published"
    /\ engine = NewEngine({})
    /\ state = BlankState
    /\ saved = Slices({}, BlankState)
    /\ log = NoLog

-----------------------------------------------------------------------------
(* The entrypoints.  Each runs to its end in one step; what may happen      *)
(* between two of them is another execution's entrypoint.                   *)

Steps(n) == {e \in engine.active : phase = "running" /\ e.method = <<n, "step">>}
Routes(n) == {e \in engine.active : phase = "running" /\ e.method = <<n, "route">>}

\* The engine goes on, unless a method was called more often than the limit.
GoesOn(eng) ==
    /\ engine' = eng
    /\ phase' = IF eng.over THEN "failed" ELSE "running"
    /\ UNCHANGED <<doc, plan, flow, saved>>

\* After its step half: the paired router of an on_error "route" node.
Onwards(e, n) == IF RoutesErrors(doc, n) THEN Pair(engine, e) ELSE Emit(engine, e, <<n, Ran>>)

Noted(n, bills) == [log EXCEPT !.ran[n] = @ + 1, !.billed[n] = @ + bills]

SeedInput(n) == \E e \in Steps(n) :
    /\ KindOf(doc, n) = "input" /\ n \notin flow.replayed
    /\ \E v \in Produces(n) : state' = Record(n, v)
    /\ GoesOn(Onwards(e, n))
    /\ log' = Noted(n, 0)

Transform(n) == \E e \in Steps(n) :
    /\ KindOf(doc, n) = "transform" /\ n \notin flow.replayed
    /\ \E v \in Produces(n) : state' = Record(n, v)
    /\ GoesOn(Onwards(e, n))
    /\ log' = Noted(n, 0)

\* An agent or a crew works under its retry loop.  A failure that is not
\* retryable, or the last one, takes the error port or ends the run.
RunAgent(n) == \E e \in Steps(n), attempts \in 1..(doc.retries[n] + 1) :
    LET noted == [Noted(n, attempts * BillingUnits(doc, n)) EXCEPT !.failed = @ \ {n}]
    IN  /\ KindOf(doc, n) \in BillableKinds /\ n \notin flow.replayed
        /\ \/ /\ \E v \in Produces(n) : state' = Record(n, v)
              /\ GoesOn(Onwards(e, n))
              /\ log' = noted
           \/ /\ RoutesErrors(doc, n)
              /\ state' = [Record(n, Empty) EXCEPT !.err = @ \union {n}]
              /\ GoesOn(Onwards(e, n))
              /\ log' = [noted EXCEPT !.failed = @ \union {n}]
           \/ /\ ~RoutesErrors(doc, n)
              /\ phase' = "failed"
              /\ log' = [noted EXCEPT !.failed = @ \union {n}]
              /\ UNCHANGED <<doc, plan, flow, engine, state, saved>>

\* What it needs is not there, a prompt input or a credential: it fails before its
\* first attempt, and so ends the run even where its failures are routed.
RefuseAgent(n) == \E e \in Steps(n) :
    /\ KindOf(doc, n) \in BillableKinds /\ n \notin flow.replayed
    /\ phase' = "failed"
    /\ log' = [Noted(n, 0) EXCEPT !.failed = @ \union {n}]
    /\ UNCHANGED <<doc, plan, flow, engine, state, saved>>

\* The error router: the err key is null or it is not.
RouteError(n) == \E e \in Routes(n) :
    /\ RoutesErrors(doc, n)
    /\ GoesOn(Emit(Rearm(engine, n), e, <<n, IF n \in state.err THEN "error" ELSE "ok">>))
    /\ UNCHANGED <<state, log>>

\* A router takes the first comparison that matches, else "otherwise", and
\* passes on what flowed into it.  It is never replayed.
RouteBranch(n) == \E e \in Steps(n) :
    /\ Router(n)
    /\ LET value == state.out[doc.reads[n]]
           label == IF value \in doc.branches[n] THEN value ELSE "otherwise"
       IN  GoesOn(Emit(Rearm(engine, n), e, <<n, label>>))
    /\ state' = Record(n, Latest(n))
    /\ log' = Noted(n, 0)

EmitOutput(n) == \E e \in Steps(n) :
    /\ KindOf(doc, n) = "output" /\ n \notin flow.replayed
    /\ state' = Record(n, IF Latest(n) = Blank THEN Empty ELSE Latest(n))
    /\ GoesOn(Emit(engine, e, <<n, Ran>>))
    /\ log' = Noted(n, 0)

\* A gate renders its payload and pauses the whole flow: what it paused is the gate
\* the pending feedback names.
RenderGate(n) == \E e \in Steps(n) :
    /\ KindOf(doc, n) = "gate" /\ n \notin flow.replayed
    /\ state' = Record(n, Other)
    /\ phase' = "paused"
    /\ engine' = [engine EXCEPT !.active = {e}]
    /\ log' = Noted(n, 0)
    /\ UNCHANGED <<doc, plan, flow, saved>>

\* The decision at a gate, whoever took it: a revise that is honoured uses a
\* turn, and everything else goes forward.
Decide(e, n, decision, honoured) ==
    /\ state' = [state EXCEPT !.turns[n] = @ + (IF honoured THEN 1 ELSE 0),
                              !.decision[n] = IF honoured THEN "honoured" ELSE decision]
    /\ GoesOn(Emit(IF honoured THEN Rearm(engine, n) ELSE engine, e,
                   <<n, IF honoured THEN "revise" ELSE "approve">>))

\* The operator replies: the flow resumes as a new object, at the router half of
\* the gate.  It is built from the whole published document, also when the run
\* that paused was a derived one: from here on nothing is replayed or dropped.
Answer(n) ==
    /\ phase = "paused"
    /\ \E e \in engine.active : e.method = <<n, "step">>
    /\ log.answers < MaxAnswers
    /\ flow' = Compile(doc, WholePlan)
    /\ engine' = NewEngine({<<n, "route">>})
    /\ phase' = "running"
    /\ log' = [log EXCEPT !.answers = @ + 1]
    /\ UNCHANGED <<doc, plan, state, saved>>

\* It reads the reply: a revise is honoured while the gate has a turn left.
RouteGate(n) == \E e \in Routes(n), decision \in {"approve", "revise"} :
    /\ KindOf(doc, n) = "gate" /\ n \notin flow.replayed
    /\ Decide(e, n, decision, decision = "revise" /\ state.turns[n] < doc.turns[n])
    /\ UNCHANGED log

\* A replayed gate does not pause.  Its router takes the recorded decision,
\* and a recorded revise at most once; with no decision it raises.
RouteReplayedGate(n) == \E e \in Routes(n) :
    /\ KindOf(doc, n) = "gate" /\ n \in flow.replayed
    /\ UNCHANGED log
    /\ \/ /\ saved.decision[n] = "none"
          /\ phase' = "failed"
          /\ UNCHANGED <<doc, plan, flow, engine, state, saved>>
       \/ /\ saved.decision[n] # "none"
          /\ Decide(e, n, IF saved.decision[n] = "honoured" THEN "revise" ELSE saved.decision[n],
                    saved.decision[n] = "honoured" /\ state.turns[n] < 1)

\* ReplayOutput, without the failure.
ReplayOutput_NoFailure(n) == \E e \in Steps(n) :
    /\ n \in flow.replayed /\ ~Router(n)
    /\ log' = Noted(n, 0)
    /\ \/ /\ n \notin DOMAIN saved.out
          /\ phase' = "failed"
          /\ UNCHANGED <<doc, plan, flow, engine, state, saved>>
       \/ /\ n \in DOMAIN saved.out
          /\ state' = Record(n, IF saved.out[n] = Blank THEN Empty ELSE saved.out[n])
          /\ GoesOn(IF KindOf(doc, n) = "gate" THEN Pair(engine, e) ELSE Onwards(e, n))

\* A replayed node publishes its saved output, and the failure it left.
ReplayOutput(n) == \E e \in Steps(n) :
    /\ n \in flow.replayed /\ ~Router(n)
    /\ log' = Noted(n, 0)
    /\ \/ /\ n \notin DOMAIN saved.out
          /\ phase' = "failed"
          /\ UNCHANGED <<doc, plan, flow, engine, state, saved>>
       \/ /\ n \in DOMAIN saved.out
          /\ state' = [Record(n, IF saved.out[n] = Blank THEN Empty ELSE saved.out[n])
                          EXCEPT !.err = @ \union ({n} \intersect saved.err)]
          /\ GoesOn(IF KindOf(doc, n) = "gate" THEN Pair(engine, e) ELSE Onwards(e, n))

-----------------------------------------------------------------------------
(* The life of a run, and the run derived from it.                          *)

\* A launch starts at the inputs.
Kickoff ==
    /\ phase = "published"
    /\ phase' = "running"
    /\ engine' = NewEngine(Starts)
    /\ UNCHANGED <<doc, plan, flow, state, saved, log>>

\* Nothing is left to run: kickoff returns normally, whatever was produced.
Return ==
    /\ phase = "running" /\ engine.active = {}
    /\ phase' = "completed"
    /\ UNCHANGED <<doc, plan, flow, engine, state, saved, log>>

\* A run is cancelled at a gate, or the gate expires.
Abandon ==
    /\ phase = "paused"
    /\ phase' = "failed"
    /\ UNCHANGED <<doc, plan, flow, engine, state, saved, log>>

Terminal == {"completed", "failed"}

\* A derived run starts from fresh state, with the slices it replays.
Derive(n, mode, slices, source) ==
    /\ plan' = [node |-> n, mode |-> mode]
    /\ flow' = Compile(doc, plan')
    /\ phase' = "running"
    /\ engine' = NewEngine({m \in Starts : m[1] \notin Dropped(doc, plan')})
    /\ state' = BlankState
    /\ saved' = slices
    /\ log' = [NoLog EXCEPT !.source = {m \in StepNodes(doc) : source.ran[m] > 0},
                            !.lapped = \E m \in StepNodes(doc) : source.ran[m] > 1]
    /\ UNCHANGED doc

\* Resume a finished run from one of its nodes.  The door asks only that
\* every gate upstream was answered.
ResumeFrom(n) ==
    /\ phase \in Terminal /\ plan = WholePlan
    /\ \A g \in Ancestors(doc, n) \intersect OfKind(doc, {"gate"}) : state.decision[g] # "none"
    /\ Derive(n, "resume_from", Slices(Ancestors(doc, n), state), log)

\* Run one node for real over a saved test input: a value for some nodes.
\* For a gate it is also the decision if it has the shape of one, and then it
\* was never honoured.
NodeTest(n) ==
    /\ phase = "published"
    /\ \E missing, shapeless \in StepNodes(doc) :
          LET mocked == Ancestors(doc, n) \ {missing}
          IN  Derive(n, "node_test",
                     [out |-> [m \in mocked |-> Other], err |-> {},
                      decision |-> [m \in Ancestors(doc, n) |->
                                       IF m \in mocked \ {shapeless} THEN "approve" ELSE "none"]],
                     NoLog)

\* A derived run that ended; any other state that cannot go on is a deadlock.
Rest == phase \in Terminal /\ plan # WholePlan /\ UNCHANGED vars

Entrypoints(n) ==
    \/ SeedInput(n) \/ Transform(n) \/ RunAgent(n) \/ RefuseAgent(n) \/ RouteError(n)
    \/ RouteBranch(n) \/ EmitOutput(n) \/ RenderGate(n) \/ RouteGate(n)
    \/ RouteReplayedGate(n) \/ ReplayOutput(n)

Next ==
    \/ \E n \in StepNodes(doc) : Entrypoints(n) \/ Answer(n) \/ ResumeFrom(n) \/ NodeTest(n)
    \/ Kickoff \/ Return \/ Abandon \/ Rest

Spec == Init /\ [][Next]_vars

-----------------------------------------------------------------------------
(* What a run promises.                                                     *)

\* Every variable has its type.
TypeOK ==
    /\ phase = "published" => Publishable(doc)
    /\ plan \in [node : Nodes(doc) \union {0}, mode : {"run", "resume_from", "node_test"}]
    /\ flow.steps \subseteq StepNodes(doc) /\ DOMAIN flow.listen = flow.steps
    /\ phase \in {"published", "running", "paused"} \union Terminal
    /\ {e.method : e \in engine.active} \union engine.done \subseteq flow.steps \X {"step", "route"}
    /\ \A m \in Methods : engine.calls[m] \in 0..(flow.limit + 1)
    /\ engine.fired \subseteq flow.once
    /\ \A n \in flow.steps : engine.arrived[n] \subseteq flow.listen[n].all
    /\ state.err \subseteq doc.routes
    /\ \A n \in StepNodes(doc) :
          /\ state.out[n] \in {Blank, Empty, Other} \union UNION {doc.branches[r] : r \in OfKind(doc, {"router"})}
          /\ state.turns[n] \in 0..MaxCycleIterations
          /\ state.decision[n] \in {"none", "approve", "revise", "honoured"}
    /\ log.answers \in 0..MaxAnswers

\* The edges a publish calls back edges are enough and not too many: without
\* them no node leads to itself, and each of them closes a loop.  The price,
\* the conditions of the joins and what a router re-arms all rest on it
\* (bounds.py _back_edges_with_index).
LoopsAreCut ==
    LET forward == Ends(doc, FlowEdges(doc) \ flow.back)
        After(n) == Reachable({p[2] : p \in {q \in forward : q[1] = n}}, forward)
    IN  phase = "published" =>
            /\ \A n \in Nodes(doc) : n \notin After(n)
            /\ \A i \in flow.back :
                  doc.edges[i].src \in After(doc.edges[i].dst) \union {doc.edges[i].dst}

\* What the two properties below are about: a whole run that returned, of a
\* document whose joins the compiler chose, in which no branch lost a race.
Undeclared ==
    phase = "completed" /\ plan = WholePlan /\ doc.joins = <<>> /\ ~engine.lost

\* Whatever leads back to a join lies behind it: a run gets there only through it.
LoopsReturn ==
    \A n \in flow.steps, i \in flow.back :
        doc.edges[i].dst = n /\ doc.edges[i].src # n /\ flow.listen[n].all # {} =>
            doc.edges[i].src \notin
                Reachable(OfKind(doc, {"input"}), {p \in Ends(doc, FlowEdges(doc)) : p[1] # n})

\* No loop is entered at two places: every node that leads to itself lies between
\* the ends of an edge that closes a loop.
LoopsNest ==
    LET pairs == Ends(doc, FlowEdges(doc))
        forward == Ends(doc, FlowEdges(doc) \ flow.back)
    IN  \A n \in StepNodes(doc) :
            n \in Reachable({p[2] : p \in {q \in pairs : q[1] = n}}, pairs) =>
                \E i \in flow.back : /\ n \in Reachable({doc.edges[i].dst}, forward)
                                     /\ doc.edges[i].src \in Reachable({n}, forward)

\* A join the compiler chose never waits for a branch that was not taken:
\* when the run returns, no join holds some of its events and not the others.
\* An undeclared fan-in is an "and" only if all its branches always run
\* (compiler.py _is_concurrent_fan_in, _listen_for).
JoinsAreServed == Undeclared => \A n \in StepNodes(doc) : engine.arrived[n] = {}

\* So it is where loops return to a join through it.  Otherwise the loop may fire
\* the join before what it waits for has ended, and what comes then comes to a
\* listener that fired (compiler.py _listen_for).
JoinsDoNotStarve == JoinsAreServed \/ ~LoopsReturn

EveryPortIsDrawn ==
    \A n \in StepNodes(doc) : \A port \in OutPorts(doc, n) :
        \E i \in FlowEdges(doc) : doc.edges[i].src = n /\ doc.edges[i].port = port

\* A run that returns has produced something: whatever was answered, routed
\* or retried, and however often it went round, an output ran.  The engine
\* ends a run normally when nothing is left, so a listener that was passed
\* over on a second lap would show as nothing else (compiler.py _listen_for,
\* the re-arm lists; runtime.py _rearm).
OutputsAreReached ==
    Undeclared /\ EveryPortIsDrawn => \E n \in OfKind(doc, {"output"}) : log.ran[n] > 0

\* So it is where the loops also nest.  A listener that a loop passes, and that is
\* not between the ends of a back edge, is not armed again (compiler.py, the
\* re-arm lists; bounds.py nodes_on_cycles).
RunDelivers == OutputsAreReached \/ ~(LoopsReturn /\ LoopsNest)

\* No gate pauses beside another branch: what leads to several nodes at once
\* leads to no gate.
GatesAlone(d) ==
    \A i, j \in FlowEdges(d) :
        i # j /\ d.edges[i].src = d.edges[j].src /\ d.edges[i].port = d.edges[j].port =>
            Reachable({d.edges[i].dst, d.edges[j].dst}, Ends(d, FlowEdges(d)))
                \intersect OfKind(d, {"gate"}) = {}

\* A run resumed from a node that the source run visited gets there: the
\* replay takes the branches the source took, at gates, routers and nodes that
\* failed.  Sources that went round a loop are left out: only the last
\* decision of a gate is kept (runtime.py _replayed_gate_decision); so are
\* those a pause may have cut a branch of.
ResumeReachesItsPoint ==
    /\ phase = "completed" /\ plan.mode = "resume_from" /\ plan.node \in log.source
    /\ ~log.lapped /\ ~engine.lost /\ GatesAlone(doc)
    => log.ran[plan.node] > 0

\* The gates of a derived run that the operator answered in it.
Answered == {g \in OfKind(doc, {"gate"}) \ Replayed(doc, plan) : state.decision[g] # "none"}

\* A derived run calls no model for what it replays: nothing from which the
\* point can be reached is billed again, and a node test bills its node alone
\* (compiler.py replay_ancestors, runtime.py replay_output).  A reply ends that:
\* the flow it resumes is the whole one.  What is billed from there on lies behind
\* a gate that was answered in this run, and was asked for by that reply
\* (builder_runner.py resume).
NothingUpstreamIsBilled ==
    plan # WholePlan =>
        \A n \in StepNodes(doc) : log.billed[n] > 0 =>
            \/ n = plan.node
            \/ /\ plan.mode = "resume_from"
               /\ plan.node \notin Reachable({n}, Ends(doc, FlowEdges(doc)))
            \/ n \in Reachable(Answered, Ends(doc, FlowEdges(doc)))

\* A run starts at one place, and what leads to several nodes at once leads to
\* no node that chooses: nothing is chosen beside another branch.
ChoicesAlone ==
    /\ Cardinality(OfKind(doc, {"input"})) = 1
    /\ \A i, j \in FlowEdges(doc) :
          i # j /\ doc.edges[i].src = doc.edges[j].src /\ doc.edges[i].port = doc.edges[j].port =>
              \A n \in Reachable({doc.edges[i].dst, doc.edges[j].dst}, Ends(doc, FlowEdges(doc))) :
                  ~IsRouted(doc, n)

\* When every loop is a gate's revise, no node works more often than a
\* publish priced it at, over all the pauses, resumes and retries of the run
\* (budget.py _calls_for, bounds.py nodes_on_cycles, runtime.py route_gate).
LoopsRunAsPriced ==
    /\ OfKind(doc, {"router"}) = {} /\ \A i \in flow.back : doc.edges[i].port = "revise"
    /\ plan = WholePlan /\ phase # "running" /\ ChoicesAlone
    => \A n \in StepNodes(doc) \intersect OfKind(doc, BillableKinds) : log.billed[n] <= CallsFor(doc, n)

\* So it is where the loops nest.  In a loop that is entered at two places a node
\* may go round over two back edges and lie between the ends of neither: it is
\* priced at one run (bounds.py nodes_on_cycles).
ReviseLoopsRunAsPriced == LoopsRunAsPriced \/ ~LoopsNest

\* The error port is taken by a step that just failed, and by no other
\* (compiler.py _error_router: "route success or failure").
ErrorPortMeansFailure ==
    plan = WholePlan =>
        \A n \in doc.routes : Routes(n) # {} => (n \in state.err <=> n \in log.failed)
=============================================================================
