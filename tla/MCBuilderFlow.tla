--------------------------- MODULE MCBuilderFlow ---------------------------
(* Documents for BuilderFlow: drawn ones, each a shape the tests or the     *)
(* comments of builder/ name, and every publishable document of four nodes. *)
EXTENDS BuilderFlow, TLC

E(src, port, dst) == [src |-> src, port |-> port, dst |-> dst, into |-> "in"]

\* A router with one comparison reads the first node that leads to it.
D(kind, edges) ==
    LET routers == {n \in DOMAIN kind : kind[n] = "router"}
        from(n) == {edges[i].src : i \in {j \in DOMAIN edges : edges[j].dst = n}}
    IN  [kind |-> kind, edges |-> edges,
         branches |-> [n \in routers |-> {"yes"}],
         reads |-> [n \in routers |-> IF from(n) = {} THEN n ELSE CHOOSE m \in from(n) : \A o \in from(n) : m <= o],
         turns |-> [n \in {m \in DOMAIN kind : kind[m] = "gate"} |-> 1],
         retries |-> [n \in DOMAIN kind |-> 0], routes |-> {}, joins |-> <<>>]

Join(d, n, mode) == [d EXCEPT !.joins = n :> mode]

Straight ==
    [D(<<"input", "agent", "output">>, <<E(1, "out", 2), E(2, "out", 3)>>)
        EXCEPT !.retries = [@ EXCEPT ![2] = 1]]

Team ==
    D(<<"input", "crew", "agent", "agent", "tool", "output">>,
      <<E(1, "out", 2), [E(3, "out", 2) EXCEPT !.into = "member"],
        [E(4, "out", 2) EXCEPT !.into = "member"], [E(5, "attach", 3) EXCEPT !.into = "attach"],
        E(2, "out", 6)>>)

Diamond ==
    D(<<"input", "agent", "agent", "transform", "output">>,
      <<E(1, "out", 2), E(1, "out", 3), E(2, "out", 4), E(3, "out", 4), E(4, "out", 5)>>)

\* A gate above the first billable node.
GatedDiamond ==
    D(<<"input", "gate", "agent", "agent", "output">>,
      <<E(1, "out", 2), E(2, "approve", 3), E(2, "approve", 4), E(2, "revise", 2),
        E(3, "out", 5), E(4, "out", 5)>>)

Alternatives ==
    D(<<"input", "router", "agent", "agent", "output">>,
      <<E(1, "out", 2), E(2, "yes", 3), E(2, "otherwise", 4), E(3, "out", 5), E(4, "out", 5)>>)

\* test_compiler.py gated_loop: a revise restates and comes back by a router.
GatedLoop ==
    D(<<"input", "agent", "gate", "transform", "router", "output">>,
      <<E(1, "out", 2), E(2, "out", 3), E(3, "approve", 6), E(3, "revise", 4), E(4, "out", 5),
        E(5, "yes", 3), E(5, "otherwise", 6)>>)

\* A revise goes back above the agent whose draft the gate shows.
ReviseLoop ==
    D(<<"input", "transform", "agent", "gate", "output">>,
      <<E(1, "out", 2), E(2, "out", 3), E(3, "out", 4), E(4, "approve", 5), E(4, "revise", 2)>>)

\* test_compiler.py loop_over_a_join.
LoopOverAJoin ==
    D(<<"input", "transform", "router", "agent", "agent", "transform", "router", "output">>,
      <<E(1, "out", 2), E(2, "out", 3), E(3, "yes", 4), E(3, "otherwise", 5), E(4, "out", 6),
        E(5, "out", 6), E(6, "out", 7), E(7, "yes", 2), E(7, "otherwise", 8)>>)

ErrorRouter ==
    [D(<<"input", "agent", "agent", "output">>,
       <<E(1, "out", 2), E(2, "out", 4), E(2, "error", 3), E(3, "out", 4)>>)
        EXCEPT !.routes = {2}, !.retries = [@ EXCEPT ![2] = 1]]

\* A step whose failure is routed, inside a gate's loop.
RevisedErrorRouter ==
    [D(<<"input", "agent", "transform", "gate", "output">>,
       <<E(1, "out", 2), E(2, "out", 4), E(2, "error", 3), E(3, "out", 4), E(4, "approve", 5),
         E(4, "revise", 2)>>)
        EXCEPT !.routes = {2}]

\* A gate beside the branches of a join: its pause cuts them off.
GateBeside ==
    D(<<"input", "agent", "agent", "gate", "transform", "output">>,
      <<E(1, "out", 2), E(1, "out", 3), E(1, "out", 4), E(2, "out", 5), E(3, "out", 5), E(5, "out", 6),
        E(4, "approve", 6), E(4, "revise", 4)>>)

\* A loop into a join that a run also gets to another way: the join may fire
\* before what it waits for.
LoopIntoJoin ==
    D(<<"input", "agent", "agent", "transform", "agent", "router", "output">>,
      <<E(1, "out", 2), E(1, "out", 3), E(1, "out", 5), E(2, "out", 4), E(3, "out", 4), E(4, "out", 6),
        E(5, "out", 6), E(6, "otherwise", 4), E(6, "yes", 7)>>)

\* A loop that is entered at two places, 3 and 5: none of its back edges has 5
\* between its ends.
TwoEntries ==
    [D(<<"input", "router", "router", "transform", "transform", "router", "router", "router", "output">>,
       <<E(1, "out", 2), E(2, "yes", 3), E(2, "otherwise", 5), E(3, "yes", 6), E(6, "yes", 7),
         E(6, "otherwise", 8), E(7, "yes", 6), E(7, "otherwise", 9), E(8, "yes", 3),
         E(8, "otherwise", 9), E(3, "otherwise", 4), E(4, "out", 5), E(5, "out", 7)>>)
        EXCEPT !.reads = [@ EXCEPT ![3] = 4, ![6] = 4, ![7] = 5, ![8] = 5]]

\* The same with gates; no back edge has the agent at 4 between its ends.
TwoEntriesToPrice ==
    D(<<"input", "gate", "gate", "agent", "gate", "gate", "output">>,
      <<E(1, "out", 2), E(2, "revise", 3), E(3, "approve", 5), E(3, "revise", 6), E(5, "revise", 2),
        E(5, "approve", 7), E(6, "revise", 3), E(6, "approve", 7), E(2, "approve", 4), E(4, "out", 6)>>)

\* A node behind a step whose failure is routed and a plain step: both lead to it.
RouteBesideBranch ==
    [D(<<"input", "agent", "agent", "agent", "output">>,
       <<E(1, "out", 2), E(1, "out", 3), E(2, "out", 4), E(2, "error", 5), E(3, "out", 4),
         E(4, "out", 5)>>)
        EXCEPT !.routes = {2}]

Drawn == {Straight, Team, Diamond, Join(Diamond, 4, "all"), Join(Diamond, 4, "any"), GatedDiamond,
          Alternatives, GatedLoop, ReviseLoop, LoopOverAJoin, ErrorRouter,
          RevisedErrorRouter, GateBeside, LoopIntoJoin, TwoEntries,
          TwoEntriesToPrice, RouteBesideBranch}

\* Every way to draw four nodes, the last an output: an input that leads to
\* one or more of them, and two nodes that lead anywhere.
OutputAfter ==
    {<<"input", "agent", "gate", "output">>, <<"input", "gate", "router", "output">>,
     <<"input", "router", "router", "output">>, <<"input", "gate", "gate", "output">>}
Leads(kind, n) ==
    CASE kind \in {"agent", "input"} ->
            {SelectSeq([i \in 1..3 |-> E(n, "out", i + 1)], LAMBDA e : e.dst \in ms) :
                ms \in (SUBSET (2..4)) \ {{}}}
      [] kind = "gate" -> {<<E(n, "approve", m), E(n, "revise", o)>> : m, o \in 2..4}
      [] OTHER -> {<<E(n, "yes", m), E(n, "otherwise", o)>> : m, o \in 2..4}

Generated ==
    {d \in UNION {{D(kind, a \o b \o c) : a \in Leads("input", 1), b \in Leads(kind[2], 2), c \in Leads(kind[3], 3)} :
                     kind \in OutputAfter} : Publishable(d)}

MCDocuments == Drawn \union {d \in Generated : GatesAlone(d)}
=============================================================================
