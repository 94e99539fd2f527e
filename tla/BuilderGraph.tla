---------------------------- MODULE BuilderGraph ----------------------------
(***************************************************************************)
(* A drawn document, and what is decided about it before it runs: which    *)
(* documents may be published (builder/document.py, builder/bounds.py),    *)
(* what one is priced at (builder/budget.py) and the flow it is compiled   *)
(* to (builder/compiler.py).                                               *)
(*                                                                         *)
(* A document is a record                                                  *)
(*   kind     the kind of node n at position n, in document order          *)
(*   edges    the drawn edges, in document order: from node src, leaving   *)
(*            by port, to node dst, into "in", "attach" or "member"        *)
(*   branches the branch labels of each router, "otherwise" excluded       *)
(*   reads    the node whose output each router compares                   *)
(*   turns    max_turns of each gate                                       *)
(*   retries  retry.max_retries of each billable node                      *)
(*   routes   the billable nodes whose on_error is "route"                 *)
(*   joins    what the author declared of some nodes: "all" or "any"       *)
(*                                                                         *)
(* Names, labels, prompts and dollar figures are left out, and with them   *)
(* the refusals that are about spelling.                                   *)
(***************************************************************************)
EXTENDS Integers, FiniteSets, SequencesExt

CONSTANTS
    MaxGraphNodes,      \* flow nodes a document may hold
    MaxFanoutWidth,     \* flow edges that may leave one node
    MaxCycles,          \* back edges a document may close
    MaxCycleIterations  \* how often a loop may go round again

ASSUME GraphBoundsAssumption ==
    /\ {MaxGraphNodes, MaxFanoutWidth, MaxCycles, MaxCycleIterations} \subseteq Nat
    /\ MaxFanoutWidth >= 2

RoutingKinds == {"gate", "router"}
AttachmentKinds == {"tool"}
BillableKinds == {"agent", "crew"}
Kinds == RoutingKinds \union AttachmentKinds \union BillableKinds
            \union {"input", "transform", "output"}

Nodes(d) == DOMAIN d.kind
EdgeIds(d) == DOMAIN d.edges
KindOf(d, n) == d.kind[n]
OfKind(d, kinds) == {n \in Nodes(d) : d.kind[n] \in kinds}

RoutesErrors(d, n) == n \in d.routes
IsRouted(d, n) == KindOf(d, n) \in RoutingKinds \/ RoutesErrors(d, n)

OutPorts(d, n) ==
    CASE KindOf(d, n) = "gate" -> {"approve", "revise"}
      [] KindOf(d, n) = "router" -> d.branches[n] \union {"otherwise"}
      [] KindOf(d, n) = "output" -> {}
      [] KindOf(d, n) = "tool" -> {"attach"}
      [] RoutesErrors(d, n) -> {"out", "error"}
      [] OTHER -> {"out"}

TargetPorts(d, n) ==
    CASE KindOf(d, n) = "agent" -> {"in", "attach"}
      [] KindOf(d, n) = "crew" -> {"in", "attach", "member"}
      [] KindOf(d, n) \in {"input"} \union AttachmentKinds -> {}
      [] OTHER -> {"in"}

Ran == "ran"   \* the end of a plain method, which is no label

\* What a document holds, whether it may be published or not.
IsDocument(d) ==
    /\ d.kind \in Seq(Kinds)
    /\ d.edges \in Seq([src : Nat, port : STRING, dst : Nat, into : {"in", "attach", "member"}])
    /\ DOMAIN d.branches = OfKind(d, {"router"}) /\ DOMAIN d.reads = OfKind(d, {"router"})
    /\ \A n \in OfKind(d, {"router"}) : Ran \notin d.branches[n]
    /\ d.turns \in [OfKind(d, {"gate"}) -> Nat]
    /\ \A n \in OfKind(d, BillableKinds) : d.retries[n] \in Nat
    /\ d.routes \subseteq OfKind(d, BillableKinds)
    /\ DOMAIN d.joins \subseteq Nodes(d)

-----------------------------------------------------------------------------
(* The graph: the edges a run travels along, and those that close a loop.   *)

EdgesInto(d, port) == {i \in EdgeIds(d) : d.edges[i].into = port}
FlowEdges(d) == EdgesInto(d, "in")
Members(d) == {d.edges[i].src : i \in EdgesInto(d, "member")}
TeamOf(d, crew) == {d.edges[i].src : i \in {j \in EdgesInto(d, "member") : d.edges[j].dst = crew}}
StepNodes(d) == Nodes(d) \ (OfKind(d, AttachmentKinds) \union Members(d))

Ends(d, edges) == {<<d.edges[i].src, d.edges[i].dst>> : i \in edges}

\* Everything a set of pairs leads to from some nodes, the nodes included.
Reachable(starts, pairs) ==
    LET Grow[seen \in SUBSET (starts \union {p[2] : p \in pairs})] ==
            LET next == seen \union {p[2] : p \in {q \in pairs : q[1] \in seen}}
            IN  IF next = seen THEN seen ELSE Grow[next]
    IN  Grow[starts]

Flip(pairs) == {<<p[2], p[1]>> : p \in pairs}
\* BackEdges, were an edge to a node already searched one of them too.
BackEdges_Cross(d) ==
    LET rank(n) == IF KindOf(d, n) = "input" THEN 0 ELSE n
    IN  {i \in FlowEdges(d) : rank(d.edges[i].dst) <= rank(d.edges[i].src)}

\* Where the depth-first search stands: its stack, the top first, the nodes that are
\* finished, in that order, and the edges it looked at and found to close a loop.
SearchStart == [stack |-> <<>>, finished |-> <<>>, tried |-> {}, back |-> {}]

\* One step of it: a new root, the next edge of the top, or the top is finished.
SearchStep(d, s) ==
    LET seen == ToSet(s.stack) \union ToSet(s.finished)
        inputs == OfKind(d, {"input"}) \ seen
        pending == {i \in FlowEdges(d) \ s.tried : d.edges[i].src = Head(s.stack)}
        dst == d.edges[Min(pending)].dst
    IN  CASE s.stack = <<>> /\ Nodes(d) \subseteq seen -> s
          [] s.stack = <<>> /\ ~(Nodes(d) \subseteq seen) ->
                [s EXCEPT !.stack = <<Min(IF inputs # {} THEN inputs ELSE Nodes(d) \ seen)>>]
          [] s.stack # <<>> /\ pending = {} ->
                [s EXCEPT !.stack = Tail(@), !.finished = Append(@, Head(s.stack))]
          [] s.stack # <<>> /\ pending # {} ->
                [s EXCEPT !.stack = IF dst \in seen \/ dst \notin Nodes(d) THEN @ ELSE <<dst>> \o @,
                          !.tried = @ \union {Min(pending)},
                          !.back = @ \union {i \in {Min(pending)} : dst \in ToSet(s.stack)}]

\* The search from the inputs and then from every node.  An edge is a back edge when
\* its target is on the stack.  It ends when every node was pushed and finished, and
\* every edge looked at.
BackEdges(d) ==
    LET Search[k \in Nat] == IF k = 0 THEN SearchStart ELSE SearchStep(d, Search[k - 1])
    IN  Search[2 * Cardinality(Nodes(d)) + Cardinality(EdgeIds(d))].back

\* How many times a node inside some nested loops may run.
CycleMultiplier(cycles) ==
    LET Power[k \in Nat] == IF k = 0 THEN 1 ELSE (1 + MaxCycleIterations) * Power[k - 1]
    IN  Power[IF cycles = 0 THEN 1 ELSE cycles]
\* NodesOnCycles, without the nodes between the two ends.
NodesOnCycles_EndsOnly(d, back) == UNION {{p[1], p[2]} : p \in Ends(d, back)}

\* The nodes a back edge carries round again: what its target reaches, over
\* the edges that close no loop, and that reaches its source.
NodesOnCycles(d, back) ==
    LET forward == Ends(d, FlowEdges(d) \ back)
    IN  UNION {{p[1], p[2]}
                  \union (Reachable({p[2]}, forward) \intersect Reachable({p[1]}, Flip(forward))) :
                  p \in Ends(d, back)}
\* Ancestors, one step up only.
Ancestors_OneStep(d, n) ==
    {d.edges[i].src : i \in {j \in FlowEdges(d) : d.edges[j].dst = n}} \ {n}

\* Every step upstream of a node, over all flow edges; never the node itself.
Ancestors(d, n) ==
    LET steps == {i \in FlowEdges(d) : {d.edges[i].src, d.edges[i].dst} \subseteq StepNodes(d)}
        into == {p \in Ends(d, steps) : p[1] # n}
        direct == {p[1] : p \in {q \in into : q[2] = n}}
    IN  Reachable(direct, Flip(into)) \ {n}

-----------------------------------------------------------------------------
(* bounds.py: the objections that stop a document from being published.     *)

CountsOK(d) == Cardinality(OfKind(d, Kinds \ AttachmentKinds)) <= MaxGraphNodes

EdgesOK(d) ==
    /\ \A i \in EdgeIds(d) :
          /\ {d.edges[i].src, d.edges[i].dst} \subseteq Nodes(d)
          /\ d.edges[i].port \in OutPorts(d, d.edges[i].src)
          /\ TargetPorts(d, d.edges[i].dst) # {}
    /\ \A n \in Nodes(d) :
          Cardinality({i \in FlowEdges(d) : d.edges[i].src = n}) <= MaxFanoutWidth

AttachmentsOK(d) ==
    \A i \in EdgeIds(d) :
        LET source == KindOf(d, d.edges[i].src)
            target == KindOf(d, d.edges[i].dst)
        IN  CASE d.edges[i].into = "attach" -> source \in AttachmentKinds /\ target \in BillableKinds
              [] d.edges[i].into = "member" -> source = "agent" /\ target = "crew"
              [] OTHER -> source \notin AttachmentKinds

MembershipOK(d) ==
    /\ \A i \in FlowEdges(d) : {d.edges[i].src, d.edges[i].dst} \intersect Members(d) = {}
    /\ \A crew \in OfKind(d, {"crew"}) : TeamOf(d, crew) # {}

RoutersOK(d) ==
    \A n \in OfKind(d, {"router"}) : Cardinality(d.branches[n]) + 1 \in 2..MaxFanoutWidth

\* CyclesOK, with no rule for what closes a loop.
CyclesOK_AnyNode(d) ==
    /\ Cardinality(BackEdges(d)) <= MaxCycles
    /\ \A n \in OfKind(d, {"gate"}) : d.turns[n] <= MaxCycleIterations

CyclesOK(d) ==
    /\ Cardinality(BackEdges(d)) <= MaxCycles
    /\ \A i \in BackEdges(d) : KindOf(d, d.edges[i].src) \in RoutingKinds
    /\ \A n \in OfKind(d, {"gate"}) : d.turns[n] <= MaxCycleIterations

InputsOK(d) ==
    /\ OfKind(d, {"input"}) # {}
    /\ StepNodes(d) \subseteq Reachable(OfKind(d, {"input"}), Ends(d, FlowEdges(d)))

Publishable(d) ==
    /\ CountsOK(d) /\ EdgesOK(d) /\ AttachmentsOK(d) /\ MembershipOK(d)
    /\ RoutersOK(d) /\ CyclesOK(d) /\ InputsOK(d)

-----------------------------------------------------------------------------
(* budget.py: what a node is priced at, in steps of an agent.  A crew is    *)
(* priced at its members.  Model prices and the loops inside one step are   *)
(* left out, the retries and the laps of a loop are not.                    *)

BillingUnits(d, n) == IF KindOf(d, n) = "crew" THEN Cardinality(TeamOf(d, n)) ELSE 1

NodeMultiplier(d, n) ==
    LET back == BackEdges(d)
    IN  (d.retries[n] + 1) * (IF n \in NodesOnCycles(d, back)
                              THEN CycleMultiplier(Cardinality(back)) ELSE 1)

CallsFor(d, n) == BillingUnits(d, n) * NodeMultiplier(d, n)

-----------------------------------------------------------------------------
(* compiler.py: the methods, their triggers and the derived replay plans.   *)

\* A trigger: the end of a plain method, or the label a router emitted.
Event(d, n, port) ==
    <<n, IF RoutesErrors(d, n) /\ port = "out" THEN "ok" ELSE IF IsRouted(d, n) THEN port ELSE Ran>>

\* What a derived plan replays and what it drops; nothing when n is 0.
WholePlan == [node |-> 0, mode |-> "run"]
Replayed(d, plan) == IF plan.node = 0 THEN {} ELSE Ancestors(d, plan.node)
Dropped(d, plan) ==
    IF plan.mode = "node_test"
    THEN StepNodes(d) \ (Replayed(d, plan) \union {plan.node}) ELSE {}

\* The triggers of the flow edges into n, of those that close a loop or of
\* the others, without what a dropped node would have produced.
EventsInto(d, plan, n, edges) ==
    {Event(d, d.edges[i].src, d.edges[i].port) :
        i \in {j \in edges : d.edges[j].dst = n /\ d.edges[j].src \notin Dropped(d, plan)}}
\* IsConcurrentFanIn, without the look upstream.
IsConcurrentFanIn_NotUpstream(d, n, normal) ==
    /\ Cardinality(normal) >= 2
    /\ n \in DOMAIN d.joins => d.joins[n] # "any"
    /\ \A e \in normal : e[2] = Ran

\* Whether an undeclared fan-in is branches that all run: plain methods, with
\* no node that chooses a branch upstream of any of them.
IsConcurrentFanIn(d, n, normal) ==
    /\ Cardinality(normal) >= 2
    /\ n \in DOMAIN d.joins => d.joins[n] # "any"
    /\ \A e \in normal : e[2] = Ran /\ \A a \in Ancestors(d, e[1]) : ~IsRouted(d, a)

\* A condition: the events it waits for together, and those that do alone.
ListenFor(d, plan, back, n) ==
    LET normal == EventsInto(d, plan, n, FlowEdges(d) \ back)
        loops == EventsInto(d, plan, n, back)
        declared == n \in DOMAIN d.joins /\ d.joins[n] = "all"
    IN  IF normal # {} /\ (declared \/ IsConcurrentFanIn(d, n, normal))
        THEN [all |-> normal, any |-> loops]
        ELSE [all |-> {}, any |-> normal \union loops]

Hears(listen, e) == e \in listen.any \union listen.all

IsMultiEventOr(listen) ==
    Cardinality(listen.any) + (IF listen.all = {} THEN 0 ELSE 1) >= 2 /\ listen.any # {}
\* What the router of n re-arms: where its back edges land, and every
\* listener on a cycle that fires once.
Rearms(d, back, listen, n) ==
    LET targets == {d.edges[i].dst : i \in {j \in back : d.edges[j].src = n}}
        once == {m \in NodesOnCycles(d, back) \intersect DOMAIN listen : IsMultiEventOr(listen[m])}
    IN  IF targets = {} THEN {} ELSE targets \union once

\* The runaway backstop: sized to the loops that are still there.
MaxMethodCalls(d, plan, back) ==
    CycleMultiplier(Cardinality({i \in back :
        {d.edges[i].src, d.edges[i].dst} \intersect Dropped(d, plan) = {}}))

\* The groups of plain methods that race for one listener and feed no other.
RaceGroups(listen, once) ==
    {{e[1] : e \in listen[j].any} :
        j \in {n \in once :
                  /\ listen[n].all = {}
                  /\ \A e \in listen[n].any :
                        e[2] = Ran /\ \A m \in DOMAIN listen \ {n} : ~Hears(listen[m], e)}}

Compile(d, plan) ==
    LET kept == StepNodes(d) \ Dropped(d, plan)
        back == BackEdges(d)
        listen == [n \in kept |-> ListenFor(d, plan, back, n)]
        once == {n \in kept : IsMultiEventOr(listen[n]) /\ KindOf(d, n) # "router"}
    IN  [steps |-> kept,
         back |-> back,
         replayed |-> Replayed(d, plan),
         listen |-> listen,
         once |-> once,
         races |-> RaceGroups(listen, once),
         rearm |-> [n \in kept |-> Rearms(d, back, listen, n)],
         limit |-> MaxMethodCalls(d, plan, back)]
=============================================================================
