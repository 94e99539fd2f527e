---- MODULE TraceExportProofs ----
(***************************************************************************)
(* The exporter ends every observation once and keeps the level of every   *)
(* call, for all scripts of frames, every number of runs, branches, nodes  *)
(* and calls, and every queue capacity and lookup limit.                   *)
(***************************************************************************)
EXTENDS TraceExport, FiniteSetTheorems, TLAPS

\* What an observation stands for.
Roles == {"run", "node", "task", "agent", "tool", "call"}
\* The names of frames: run, branch and place in the branch.
Ids == Runs \X Nat \X Nat
\* The observations, by role and by the frame that opened them.
Obs == Roles \X Ids
\* What a trace may hold for an observation.
Handles == Obs \union {None}

\* The types of the records of the export thread.
Scopes == [span : Handles, task : Handles, agent : Handles, started : BOOLEAN]
\* _Generation.
CallRecords == [span : Handles, awaiting : BOOLEAN, usage : BOOLEAN, answered : BOOLEAN,
                level : {"default", "error", "run"}]
\* _RunState.
Traces ==
    [root : Handles, terminal : {Absent, "completed", "failed", "cancelled"},
     summary : {Absent, "awaiting", "logged"}, resolved : Nat,
     node : [Nodes -> Scopes], finished : SUBSET Nodes,
     tool : [Nodes \X Tools -> Handles], call : [Calls -> CallRecords],
     held : SUBSET (Nodes \X Obs),
     open : SUBSET Obs, ended : SUBSET Obs, again : SUBSET Obs, lost : SUBSET Obs]
\* A pending lookup.
LookupRecords ==
    [run : Runs, call : Calls, attempt : Nat, answer : {"none", "asked", "empty", "billed"}]

\* What was opened in a trace.
Known(t) == t.open \union t.ended

\* The open observations of a role that belong to a node.
Of(t, role, n) == {o \in t.open : o[1] = role /\ Frame(o[2]).node = n}

\* What is opened is not ended yet, and nothing is ended twice.
Once(t) == t.again = {} /\ t.open \intersect t.ended = {}

\* A scope holds open spans of its node, each in its place.
ScopeOK(t, n) ==
    /\ t.node[n].span \in Of(t, "node", n) \union {None}
    /\ t.node[n].task \in Of(t, "task", n) \union {None}
    /\ t.node[n].agent \in Of(t, "agent", n) \union {None}

\* An open tool call is known by its node and its tool.
ToolOK(t, k) ==
    t.tool[k] # None => t.tool[k] \in Of(t, "tool", k[1]) /\ Frame(t.tool[k][2]).of = k[2]

\* A held span is an open one that its scope has let go.
HeldOK(t, h) ==
    /\ h[2] \in Of(t, "task", h[1]) \union Of(t, "agent", h[1])
    /\ h[2] \notin ScopeSpans(t.node[h[1]])

\* A call that is known has an observation.
CallOK(t, c) ==
    t.call[c] # NoCall => t.call[c].span \in Known(t) /\ t.call[c].span[1] = "call"

\* Every handle of a trace refers to what it should.
Handled(t) ==
    /\ \A n \in Nodes : ScopeOK(t, n)
    /\ \A k \in Nodes \X Tools : ToolOK(t, k)
    /\ \A h \in t.held : HeldOK(t, h)
    /\ t.root # None => t.root \in Known(t) /\ t.root[1] = "run"
    /\ \A c \in Calls : CallOK(t, c)

\* The end of a run in its trace: the summary is awaited from the terminal frame on, and
\* logged when the root has ended and no tokens are outstanding.
Ending(t) ==
    /\ (t.terminal = Absent) = (t.summary = Absent)
    /\ t.terminal # Absent => t.root # None
    /\ t.summary = "logged" => t.root \in t.ended /\ ~Outstanding(t)

\* What keeps an open observation.
Keeps(t, o) ==
    \/ (t.terminal = Absent \/ t.summary = "awaiting") /\ o = t.root
    \/ \E k \in Nodes \X Tools : o = t.tool[k]
    \/ \E n \in Nodes : o \in ScopeSpans(t.node[n])
    \/ \E h \in t.held : o = h[2]
    \/ \E c \in Calls : ~Over(t, c) /\ o = t.call[c].span

\* Every open observation that was not overwritten is kept.
AllKept(t) == \A o \in t.open : o \notin t.lost => Keeps(t, o)

\* What holds of every trace.
Good(t) == t \in Traces /\ Once(t) /\ Handled(t) /\ AllKept(t) /\ Ending(t)

\* u is t but for the fields that are changed.
Fields == {"root", "terminal", "summary", "resolved", "node", "finished", "tool", "call",
           "held", "open", "ended", "again", "lost"}
\* The fields outside changed are the same.
Same(t, u, changed) == \A f \in Fields \ changed : u[f] = t[f]

\* What an operation of the export thread that touches no call leaves of a trace.
Follows(t, u, new) ==
    /\ u.call = t.call /\ u.root = t.root /\ u.terminal = t.terminal /\ u.summary = t.summary
    /\ t.ended \subseteq u.ended /\ Known(u) \subseteq Known(t) \union new

-----------------------------------------------------------------------------

\* None is no observation.
LEMMA NoneIsNothing == None \notin Obs
  BY DEF None, Obs

\* What _close_span and _end_generation do to the fields of a trace.
LEMMA EndedFields ==
    ASSUME NEW t \in Traces, NEW os \in SUBSET Handles
    PROVE  /\ Ended(t, os) \in Traces
           /\ Same(t, Ended(t, os), {"open", "ended", "again"})
           /\ Ended(t, os).open = t.open \ os
           /\ Ended(t, os).ended = t.ended \union (os \ {None})
           /\ Ended(t, os).again = t.again \union ((os \ {None}) \intersect t.ended)
<1> DEFINE spans == os \ {None}
<1>1. Ended(t, os) = [t EXCEPT !.open = @ \ spans, !.ended = @ \union spans,
                               !.again = @ \union (spans \intersect t.ended)]
  BY DEF Ended
<1>2. spans \subseteq Obs /\ t.open \ spans = t.open \ os
  BY NoneIsNothing DEF Handles, Traces
<1> HIDE DEF spans
<1>3. t.open \ spans \in SUBSET Obs /\ t.ended \union spans \in SUBSET Obs
      /\ t.again \union (spans \intersect t.ended) \in SUBSET Obs
  BY <1>2 DEF Traces
<1>4. Ended(t, os) \in Traces
  BY <1>1, <1>3 DEF Traces
<1>5. Same(t, Ended(t, os), {"open", "ended", "again"})
  BY <1>1, <1>4 DEF Traces, Same, Fields
<1>q. QED
  BY <1>1, <1>2, <1>4, <1>5 DEF Traces, spans

\* What an opened observation does to the fields of a trace.
LEMMA OpenedFields ==
    ASSUME NEW t \in Traces, NEW o \in Obs
    PROVE  /\ Opened(t, o) \in Traces
           /\ Same(t, Opened(t, o), {"open"})
           /\ Opened(t, o).open = t.open \union {o}
  BY DEF Opened, Traces, Same, Fields

\* The spans that the scope of a node and its held errors keep.
Spans(t, n) == (ScopeSpans(t.node[n]) \union {h[2] : h \in {g \in t.held : g[1] = n}}) \ {None}

\* An operation on the scope of node n alone ends the spans in gone and opens new ones.
Moves(t, u, n, gone, new) ==
    /\ u \in Traces /\ Same(t, u, {"node", "held", "finished", "open", "ended", "lost"})
    /\ \A m \in Nodes \ {n} : u.node[m] = t.node[m]
    /\ \A h \in u.held \union t.held : h[1] # n => h \in u.held /\ h \in t.held
    /\ u.open = (t.open \ gone) \union new /\ u.ended = t.ended \union gone
    /\ t.lost \subseteq u.lost
    /\ gone \subseteq Spans(t, n)
    /\ new \intersect Known(t) = {}
    /\ \A o \in new : o[1] \in {"node", "task", "agent"} /\ Frame(o[2]).node = n

\* What the scope of n is left with.
Fits1(t, u, n, new) ==
    /\ ScopeOK(u, n)
    /\ \A h \in u.held : h[1] = n => HeldOK(u, h)
    /\ \A o \in Spans(t, n) \union new : o \in u.open \ u.lost => o \in Spans(u, n)

\* Spans of a scope are open, of this node, and no calls or tools.
LEMMA SpansAreOpen ==
    ASSUME NEW t, Good(t), NEW n \in Nodes
    PROVE  \A o \in Spans(t, n) : /\ o \in t.open /\ o \in Obs /\ o \notin t.ended
                                  /\ o[1] \in {"node", "task", "agent"} /\ Frame(o[2]).node = n
<1>1. ScopeOK(t, n) /\ (\A h \in t.held : HeldOK(t, h)) /\ t.open \subseteq Obs
      /\ t.open \intersect t.ended = {}
  BY DEF Good, Handled, Traces, Once
<1>q. QED
  BY <1>1 DEF ScopeOK, HeldOK, Of, Spans, ScopeSpans

\* A trace stays good when the scope of one node moves: the spans it lets go are ended,
\* lost or held, and those it takes were opened.
LEMMA ScopeMove ==
    ASSUME NEW t, Good(t), t.terminal = Absent, NEW u, NEW n \in Nodes, NEW gone, NEW new,
           Moves(t, u, n, gone, new), Fits1(t, u, n, new)
    PROVE  Good(u) /\ Follows(t, u, new)
<1>1. \A o \in gone : /\ o \in t.open /\ o \in Obs /\ o \notin t.ended
                      /\ o[1] \in {"node", "task", "agent"} /\ Frame(o[2]).node = n
  BY SpansAreOpen DEF Moves
<1>2. /\ u.root = t.root /\ u.terminal = t.terminal /\ u.summary = t.summary
      /\ u.tool = t.tool /\ u.call = t.call /\ u.again = t.again
  BY DEF Moves, Same, Fields
<1>3. Follows(t, u, new)
  BY <1>1, <1>2 DEF Follows, Moves, Known
<1>4. Once(u)
  BY <1>1, <1>2 DEF Good, Once, Moves, Known
<1>5. Handled(u)
  <2>1. \A m \in Nodes : ScopeOK(u, m)
    <3>1. ASSUME NEW m \in Nodes, m # n PROVE ScopeOK(u, m)
      BY <1>1, <3>1 DEF Good, Handled, ScopeOK, Of, Moves
    <3>q. QED
      BY <3>1 DEF Fits1
  <2>2. \A k \in Nodes \X Tools : ToolOK(u, k)
    BY <1>1, <1>2 DEF Good, Handled, ToolOK, Of, Moves
  <2>3. ASSUME NEW h \in u.held, h[1] # n PROVE HeldOK(u, h)
    <3>1. h \in t.held /\ h[1] \in Nodes
      BY <2>3 DEF Moves, Good, Traces
    <3>2. u.node[h[1]] = t.node[h[1]] /\ HeldOK(t, h)
      BY <2>3, <3>1 DEF Moves, Good, Handled
    <3>q. QED
      BY <1>1, <2>3, <3>1, <3>2 DEF HeldOK, Of, Moves
  <2>4. u.root # None => u.root \in Known(u) /\ u.root[1] = "run"
    BY <1>1, <1>2 DEF Good, Handled, Moves, Known
  <2>5. \A c \in Calls : CallOK(u, c)
    BY <1>1, <1>2 DEF Good, Handled, CallOK, Moves, Known
  <2>q. QED
    BY <2>1, <2>2, <2>3, <2>4, <2>5 DEF Handled, Fits1
<1>6. AllKept(u)
  <2>1. SUFFICES ASSUME NEW o \in u.open, o \notin u.lost PROVE Keeps(u, o)
    BY DEF AllKept
  <2>2. o # None
    BY NoneIsNothing DEF Moves, Traces
  <2>3. CASE o \in Spans(t, n) \union new
    <3>1. o \in Spans(u, n)
      BY <2>1, <2>3 DEF Fits1
    <3>q. QED
      BY <3>1 DEF Spans, Keeps
  <2>4. CASE o \notin Spans(t, n) \union new
    <3>1. o \in t.open /\ o \notin t.lost /\ o \notin gone
      BY <2>1, <2>4 DEF Moves
    <3>2. Keeps(t, o)
      BY <3>1 DEF Good, AllKept
    <3>3. ASSUME NEW m \in Nodes, o \in ScopeSpans(t.node[m]) PROVE Keeps(u, o)
      <4>1. m # n
        BY <2>2, <2>4, <3>3 DEF Spans
      <4>2. u.node[m] = t.node[m]
        BY <4>1 DEF Moves
      <4>q. QED
        BY <3>3, <4>2 DEF Keeps
    <3>4. ASSUME NEW h \in t.held, o = h[2] PROVE Keeps(u, o)
      <4>1. h[1] # n
        BY <2>2, <2>4, <3>4 DEF Spans
      <4>2. h \in u.held
        BY <4>1 DEF Moves
      <4>q. QED
        BY <3>4, <4>2 DEF Keeps
    <3>5. ASSUME NEW c \in Calls, o = t.call[c].span PROVE Keeps(u, o)
      <4>1. o \notin u.ended
        BY <2>1, <1>4 DEF Once
      <4>q. QED
        BY <1>2, <3>5, <4>1 DEF Keeps, Over
    <3>6. CASE o = t.root \/ \E k \in Nodes \X Tools : o = t.tool[k]
      BY <1>2, <3>6 DEF Keeps
    <3>q. QED
      BY <3>2, <3>3, <3>4, <3>5, <3>6 DEF Keeps
  <2>q. QED
    BY <2>3, <2>4
<1>7. Ending(u)
  BY <1>2 DEF Good, Ending, Absent
<1>q. QED
  BY <1>3, <1>4, <1>5, <1>6, <1>7 DEF Good, Moves

\* What a frame opens has its role and the node of the frame.
LEMMA FrameOpens ==
    ASSUME NEW id \in Ids, Frame(id) \in Frames, NEW role \in Roles
    PROVE  LET o == Observation(role, id) IN
           /\ o \in Obs /\ o \in Handles /\ o # None /\ o[1] = role /\ o[2] = id
           /\ Frame(o[2]).node = Frame(id).node /\ Frame(id).node \in Nodes
  BY NoneIsNothing DEF Observation, Obs, Handles, Frames

\* Spans of one scope that are ended are not ended again.
LEMMA SpansEnd ==
    ASSUME NEW t, Good(t), NEW n \in Nodes, NEW os, os \ {None} \subseteq Spans(t, n)
    PROVE  /\ Ended(t, os) \in Traces /\ Same(t, Ended(t, os), {"open", "ended"})
           /\ Ended(t, os).open = t.open \ (os \ {None})
           /\ Ended(t, os).ended = t.ended \union (os \ {None})
<1>1. t \in Traces /\ t.again = {} /\ None \notin t.open
  BY NoneIsNothing DEF Good, Once, Traces
<1>2. os \subseteq Handles /\ (os \ {None}) \intersect t.ended = {}
  BY SpansAreOpen DEF Handles
<1>3. /\ Ended(t, os) \in Traces /\ Same(t, Ended(t, os), {"open", "ended", "again"})
      /\ Ended(t, os).open = t.open \ os
      /\ Ended(t, os).ended = t.ended \union (os \ {None})
      /\ Ended(t, os).again = t.again \union ((os \ {None}) \intersect t.ended)
  BY <1>1, <1>2, EndedFields
<1>4. Ended(t, os).again = t.again
  BY <1>1, <1>2, <1>3
<1>q. QED
  BY <1>1, <1>3, <1>4 DEF Same, Fields

\* Held spans that stay are not in their scope and are not ended with it.
LEMMA HeldStay ==
    ASSUME NEW t, Good(t), NEW u, NEW n \in Nodes, NEW gone, NEW new,
           Moves(t, u, n, gone, new), u.held = t.held, gone \subseteq ScopeSpans(t.node[n]),
           ScopeSpans(u.node[n]) \subseteq ScopeSpans(t.node[n]) \union {None} \union new
    PROVE  \A h \in u.held : h[1] = n => HeldOK(u, h)
<1>1. TAKE h \in u.held
<1>2. HAVE h[1] = n
<1>3. HeldOK(t, h) /\ h[2] \in t.open /\ h[2] # None
  BY NoneIsNothing DEF Good, Handled, HeldOK, Of, Traces
<1>4. h[2] \notin gone /\ h[2] \notin new
  BY <1>2, <1>3 DEF HeldOK, Moves, Known
<1>5. h[2] \in u.open
  BY <1>3, <1>4 DEF Moves
<1>q. QED
  BY <1>2, <1>3, <1>4, <1>5 DEF HeldOK, Of

\* _node_scope keeps a trace good.
LEMMA EnterNodeKeeps ==
    ASSUME NEW t, Good(t), t.terminal = Absent, NEW id \in Ids, Frame(id) \in Frames,
           Observation("node", id) \notin Known(t)
    PROVE  Good(EnterNode(t, id)) /\ Follows(t, EnterNode(t, id), {Observation("node", id)})
<1> DEFINE o == Observation("node", id)
<1> DEFINE n == Frame(id).node
<1> DEFINE v == Opened(t, o)
<1> DEFINE s == [v.node[n] EXCEPT !.span = o]
<1> DEFINE u == [v EXCEPT !.node[n] = s]
<1>1. CASE EnterNode(t, id) = t
  BY <1>1 DEF Follows
<1>2. CASE EnterNode(t, id) = u /\ t.node[n] = NoScope
  <2>1. t \in Traces /\ o \in Obs /\ o \in Handles /\ o # None /\ n \in Nodes /\ o[1] = "node" /\ Frame(o[2]).node = n
    BY FrameOpens DEF Good, Roles
  <2>2. v \in Traces /\ Same(t, v, {"open"}) /\ v.open = t.open \union {o}
    BY <2>1, OpenedFields
  <2>3. o \notin Known(t)
    OBVIOUS
  <2> HIDE DEF v, o, n
  <2>4. v.node[n] = NoScope /\ v.node[n] \in Scopes
    BY <1>2, <2>1, <2>2 DEF Same, Fields, Traces
  <2>5. s \in Scopes /\ s.span = o /\ s.task = None /\ s.agent = None
    <3>1. NoScope.task = None /\ NoScope.agent = None
      BY DEF NoScope
    <3>2. s \in Scopes /\ s.span = o /\ s.task = v.node[n].task /\ s.agent = v.node[n].agent
      BY <2>1, <2>4 DEF Scopes
    <3>q. QED
      BY <2>4, <3>1, <3>2
  <2> HIDE DEF s
  <2>6. u \in Traces /\ Same(v, u, {"node"}) /\ u.node = [v.node EXCEPT ![n] = s]
    BY <2>1, <2>2, <2>5 DEF Traces, Same, Fields
  <2> HIDE DEF u
  <2>7. /\ Same(t, u, {"node", "open"}) /\ u.open = t.open \union {o}
        /\ u.node = [t.node EXCEPT ![n] = s]
        /\ u.held = t.held /\ u.lost = t.lost /\ u.ended = t.ended
    BY <2>2, <2>6 DEF Same, Fields
  <2>8. u.node[n] = s /\ \A m \in Nodes \ {n} : u.node[m] = t.node[m]
    BY <2>1, <2>7 DEF Traces
  <2>9. Moves(t, u, n, {}, {o})
    BY <2>1, <2>3, <2>6, <2>7, <2>8 DEF Moves, Same, Fields
  <2>10. ScopeOK(u, n)
    BY <2>1, <2>5, <2>7, <2>8 DEF ScopeOK, Of
  <2>11. \A h \in u.held : h[1] = n => HeldOK(u, h)
    <3>1. {} \subseteq ScopeSpans(t.node[n]) /\ ScopeSpans(u.node[n]) \subseteq ScopeSpans(t.node[n]) \union {None} \union {o}
      BY <2>5, <2>8 DEF ScopeSpans
    <3>q. QED
      BY <2>1, <2>7, <2>9, <3>1, HeldStay
  <2>12. \A x \in Spans(t, n) \union {o} : x \in u.open \ u.lost => x \in Spans(u, n)
    BY <1>2, <2>1, <2>5, <2>7, <2>8 DEF Spans, ScopeSpans, NoScope
  <2>q. QED
    BY <1>2, <2>1, <2>9, <2>10, <2>11, <2>12, ScopeMove DEF o, Fits1
<1>q. QED
  BY <1>1, <1>2 DEF EnterNode

\* A task that follows another one keeps a trace good.
LEMMA EnterTaskKeeps ==
    ASSUME NEW t, Good(t), t.terminal = Absent, NEW id \in Ids, Frame(id) \in Frames,
           Observation("task", id) \notin Known(t)
    PROVE  Good(EnterTask(t, id)) /\ Follows(t, EnterTask(t, id), {Observation("task", id)})
<1> DEFINE o == Observation("task", id)
<1> DEFINE n == Frame(id).node
<1> DEFINE old == t.node[n]
<1> DEFINE gone == IF old.task = None THEN {} ELSE {old.task, old.agent} \ {None}
<1> DEFINE left == IF old.task = None THEN t ELSE Ended(t, {old.task, old.agent})
<1> DEFINE v == Opened(left, o)
<1> DEFINE s == [v.node[n] EXCEPT !.task = o, !.agent = None]
<1> DEFINE also == IF old.task = None THEN {old.agent} \ {None} ELSE {}
<1> DEFINE u == [v EXCEPT !.node[n] = s, !.lost = v.lost \union also]
<1>1. CASE EnterTask(t, id) = t
  BY <1>1 DEF Follows
<1>2. CASE EnterTask(t, id) = u
  <2>1. t \in Traces /\ o \in Obs /\ o \in Handles /\ o # None /\ n \in Nodes /\ o[1] = "task" /\ Frame(o[2]).node = n
    BY FrameOpens DEF Good, Roles
  <2>2. o \notin Known(t)
    OBVIOUS
  <2> HIDE DEF o, n
  <2>3. old \in Scopes /\ ScopeOK(t, n)
    BY <2>1 DEF Traces, Good, Handled
  <2>4. gone \subseteq ScopeSpans(old) /\ also \subseteq ScopeSpans(old) /\ gone \subseteq Spans(t, n)
        /\ None \notin gone /\ None \notin also
    BY DEF ScopeSpans, Spans
  <2>5. left \in Traces /\ Same(t, left, {"open", "ended"})
        /\ left.open = t.open \ gone /\ left.ended = t.ended \union gone
    <3>1. CASE old.task = None
      BY <2>1, <3>1 DEF Same
    <3>2. CASE old.task # None
      BY <2>1, <2>4, <3>2, SpansEnd
    <3>q. QED
      BY <3>1, <3>2
  <2>6. also \subseteq Obs
    BY <2>3, <2>4, SpansAreOpen, <2>1 DEF Spans, ScopeSpans
  <2>7. \A x \in ScopeSpans(old) \ {None} : x = old.span \/ x \in gone \/ x \in also
    BY DEF ScopeSpans
  <2>8. old.span \notin gone
    BY <2>3 DEF ScopeOK, Of
  <2> HIDE DEF left, gone, also
  <2>9. v \in Traces /\ Same(left, v, {"open"}) /\ v.open = left.open \union {o}
    BY <2>1, <2>5, OpenedFields
  <2> HIDE DEF v
  <2>10. v.node[n] = old /\ v.node[n] \in Scopes
    BY <2>1, <2>5, <2>9 DEF Same, Fields, Traces
  <2>11. s \in Scopes /\ s.span = old.span /\ s.task = o /\ s.agent = None
    BY <2>1, <2>10 DEF Scopes, Handles
  <2> HIDE DEF s, old
  <2>12. u \in Traces /\ Same(v, u, {"node", "lost"}) /\ u.node = [v.node EXCEPT ![n] = s]
         /\ u.lost = v.lost \union also
    BY <2>1, <2>6, <2>9, <2>11 DEF Traces, Same, Fields
  <2> HIDE DEF u
  <2>13. /\ Same(t, u, {"node", "open", "ended", "lost"})
         /\ u.open = (t.open \ gone) \union {o} /\ u.ended = t.ended \union gone
         /\ u.node = [t.node EXCEPT ![n] = s] /\ u.held = t.held
         /\ u.lost = t.lost \union also
    BY <2>5, <2>9, <2>12 DEF Same, Fields
  <2>14. u.node[n] = s /\ \A m \in Nodes \ {n} : u.node[m] = t.node[m]
    BY <2>1, <2>13 DEF Traces
  <2>15. Moves(t, u, n, gone, {o})
    BY <2>1, <2>2, <2>4, <2>12, <2>13, <2>14 DEF Moves, Same, Fields
  <2>16. ScopeOK(u, n)
    BY <2>1, <2>3, <2>8, <2>11, <2>13, <2>14 DEF ScopeOK, Of, old
  <2>17. \A h \in u.held : h[1] = n => HeldOK(u, h)
    <3>1. ScopeSpans(u.node[n]) \subseteq ScopeSpans(t.node[n]) \union {None} \union {o}
      BY <2>11, <2>14 DEF ScopeSpans, old
    <3>q. QED
      BY <2>1, <2>4, <2>13, <2>15, <3>1, HeldStay DEF old
  <2>18. \A x \in Spans(t, n) \union {o} : x \in u.open \ u.lost => x \in Spans(u, n)
    <3>1. ASSUME NEW x \in Spans(t, n), x \in u.open \ u.lost PROVE x \in Spans(u, n)
      <4>1. CASE x \in ScopeSpans(old)
        <5>1. x \notin gone
          BY <3>1, <2>2, <2>4, <2>13, SpansAreOpen, <2>1 DEF Known
        <5>q. QED
          BY <2>7, <2>11, <2>13, <2>14, <3>1, <4>1, <5>1 DEF Spans, ScopeSpans
      <4>2. CASE x \in {h[2] : h \in {g \in t.held : g[1] = n}}
        BY <2>13, <3>1, <4>2 DEF Spans
      <4>q. QED
        BY <3>1, <4>1, <4>2 DEF Spans, old
    <3>q. QED
      BY <2>1, <2>11, <2>14, <3>1 DEF Spans, ScopeSpans
  <2>q. QED
    BY <1>2, <2>1, <2>15, <2>16, <2>17, <2>18, ScopeMove DEF o, Fits1
<1>3. EnterTask(t, id) = t \/ EnterTask(t, id) = u
  BY DEF EnterTask
<1>q. QED
  BY <1>1, <1>2, <1>3

\* An agent that follows another one keeps a trace good.
LEMMA EnterAgentKeeps ==
    ASSUME NEW t, Good(t), t.terminal = Absent, NEW id \in Ids, Frame(id) \in Frames,
           Observation("agent", id) \notin Known(t)
    PROVE  Good(EnterAgent(t, id)) /\ Follows(t, EnterAgent(t, id), {Observation("agent", id)})
<1> DEFINE o == Observation("agent", id)
<1> DEFINE n == Frame(id).node
<1> DEFINE old == t.node[n]
<1> DEFINE gone == {old.agent} \ {None}
<1> DEFINE left == Ended(t, {old.agent})
<1> DEFINE v == Opened(left, o)
<1> DEFINE s == [v.node[n] EXCEPT !.agent = o]
<1> DEFINE u == [v EXCEPT !.node[n] = s]
<1>1. CASE EnterAgent(t, id) = t
  BY <1>1 DEF Follows
<1>2. CASE EnterAgent(t, id) = u
  <2>1. t \in Traces /\ o \in Obs /\ o \in Handles /\ o # None /\ n \in Nodes /\ o[1] = "agent" /\ Frame(o[2]).node = n
    BY FrameOpens DEF Good, Roles
  <2>2. o \notin Known(t)
    OBVIOUS
  <2> HIDE DEF o, n
  <2>3. old \in Scopes /\ ScopeOK(t, n)
    BY <2>1 DEF Traces, Good, Handled
  <2>4. gone \subseteq ScopeSpans(old) /\ gone \subseteq Spans(t, n) /\ None \notin gone
    BY DEF ScopeSpans, Spans
  <2>5. left \in Traces /\ Same(t, left, {"open", "ended"})
        /\ left.open = t.open \ gone /\ left.ended = t.ended \union gone
    BY <2>1, <2>4, SpansEnd
  <2>7. \A x \in ScopeSpans(old) \ {None} : x = old.span \/ x = old.task \/ x \in gone
    BY DEF ScopeSpans
  <2>8. old.span \notin gone /\ old.task \notin gone
    BY <2>3 DEF ScopeOK, Of
  <2> HIDE DEF left, gone
  <2>9. v \in Traces /\ Same(left, v, {"open"}) /\ v.open = left.open \union {o}
    BY <2>1, <2>5, OpenedFields
  <2> HIDE DEF v
  <2>10. v.node[n] = old /\ v.node[n] \in Scopes
    BY <2>1, <2>5, <2>9 DEF Same, Fields, Traces
  <2>11. s \in Scopes /\ s.span = old.span /\ s.task = old.task /\ s.agent = o
    BY <2>1, <2>10 DEF Scopes, Handles
  <2> HIDE DEF s, old
  <2>12. u \in Traces /\ Same(v, u, {"node"}) /\ u.node = [v.node EXCEPT ![n] = s]
    BY <2>1, <2>9, <2>11 DEF Traces, Same, Fields
  <2> HIDE DEF u
  <2>13. /\ Same(t, u, {"node", "open", "ended"})
         /\ u.open = (t.open \ gone) \union {o} /\ u.ended = t.ended \union gone
         /\ u.node = [t.node EXCEPT ![n] = s] /\ u.held = t.held /\ u.lost = t.lost
    BY <2>5, <2>9, <2>12 DEF Same, Fields
  <2>14. u.node[n] = s /\ \A m \in Nodes \ {n} : u.node[m] = t.node[m]
    BY <2>1, <2>13 DEF Traces
  <2>15. Moves(t, u, n, gone, {o})
    BY <2>1, <2>2, <2>4, <2>12, <2>13, <2>14 DEF Moves, Same, Fields
  <2>16. ScopeOK(u, n)
    BY <2>1, <2>3, <2>8, <2>11, <2>13, <2>14 DEF ScopeOK, Of, old
  <2>17. \A h \in u.held : h[1] = n => HeldOK(u, h)
    <3>1. ScopeSpans(u.node[n]) \subseteq ScopeSpans(t.node[n]) \union {None} \union {o}
      BY <2>11, <2>14 DEF ScopeSpans, old
    <3>q. QED
      BY <2>1, <2>4, <2>13, <2>15, <3>1, HeldStay DEF old
  <2>18. \A x \in Spans(t, n) \union {o} : x \in u.open \ u.lost => x \in Spans(u, n)
    <3>1. ASSUME NEW x \in Spans(t, n), x \in u.open PROVE x \in Spans(u, n)
      <4>1. CASE x \in ScopeSpans(old)
        <5>1. x \notin gone
          BY <3>1, <2>2, <2>4, <2>13, SpansAreOpen, <2>1 DEF Known
        <5>q. QED
          BY <2>7, <2>11, <2>14, <3>1, <4>1, <5>1 DEF Spans, ScopeSpans
      <4>2. CASE x \in {h[2] : h \in {g \in t.held : g[1] = n}}
        BY <2>13, <3>1, <4>2 DEF Spans
      <4>q. QED
        BY <3>1, <4>1, <4>2 DEF Spans, old
    <3>q. QED
      BY <2>1, <2>11, <2>14, <3>1 DEF Spans, ScopeSpans
  <2>q. QED
    BY <1>2, <2>1, <2>15, <2>16, <2>17, <2>18, ScopeMove DEF o, Fits1
<1>3. EnterAgent(t, id) = t \/ EnterAgent(t, id) = u
  BY DEF EnterAgent
<1>q. QED
  BY <1>1, <1>2, <1>3

\* _scope keeps a trace good and opens at most a node, a task and an agent.
LEMMA ScopeKeeps ==
    ASSUME NEW t, Good(t), t.terminal = Absent, NEW id \in Ids, Frame(id) \in Frames,
           \A role \in {"node", "task", "agent"} : Observation(role, id) \notin Known(t)
    PROVE  /\ Good(Scope(t, id))
           /\ Follows(t, Scope(t, id), {Observation(role, id) : role \in {"node", "task", "agent"}})
<1> DEFINE a == EnterNode(t, id)
<1> DEFINE b == EnterTask(a, id)
<1> DEFINE c == EnterAgent(b, id)
<1>1. Good(a) /\ Follows(t, a, {Observation("node", id)})
  BY EnterNodeKeeps
<1>2. a.terminal = Absent /\ Observation("task", id) \notin Known(a) /\ Observation("agent", id) \notin Known(a)
  BY <1>1 DEF Follows, Observation
<1> HIDE DEF a
<1>3. Good(b) /\ Follows(a, b, {Observation("task", id)})
  BY <1>1, <1>2, EnterTaskKeeps
<1>4. b.terminal = Absent /\ Observation("agent", id) \notin Known(b)
  BY <1>2, <1>3 DEF Follows, Observation
<1> HIDE DEF b
<1>5. Good(c) /\ Follows(b, c, {Observation("agent", id)})
  BY <1>3, <1>4, EnterAgentKeeps
<1> HIDE DEF c
<1>6. Scope(t, id) = a \/ Scope(t, id) = c
  BY DEF Scope, a, b, c
<1>7. Follows(t, a, {Observation(role, id) : role \in {"node", "task", "agent"}})
  BY <1>1 DEF Follows
<1>8. Follows(t, c, {Observation(role, id) : role \in {"node", "task", "agent"}})
  BY <1>1, <1>3, <1>5 DEF Follows
<1>q. QED
  BY <1>1, <1>5, <1>6, <1>7, <1>8

\* The end of a scope ends its spans.
LEMMA CloseScopeKeeps ==
    ASSUME NEW t, Good(t), t.terminal = Absent, NEW n \in Nodes
    PROVE  /\ Good(CloseScope(t, n)) /\ Follows(t, CloseScope(t, n), {})
<1> DEFINE gone == ScopeSpans(t.node[n]) \ {None}
<1> DEFINE left == Ended(t, ScopeSpans(t.node[n]))
<1> DEFINE u == CloseScope(t, n)
<1>0. t \in Traces
  BY DEF Good
<1>1. gone \subseteq Spans(t, n) /\ None \notin gone /\ gone \subseteq ScopeSpans(t.node[n])
  BY DEF Spans
<1>2. left \in Traces /\ Same(t, left, {"open", "ended"})
      /\ left.open = t.open \ gone /\ left.ended = t.ended \union gone
  BY <1>1, SpansEnd
<1>3. u = [left EXCEPT !.node[n] = NoScope]
  BY DEF CloseScope
<1> HIDE DEF left, gone, u
<1>4. NoScope \in Scopes /\ ScopeSpans(NoScope) = {None} /\ NoScope.span = None /\ NoScope.task = None /\ NoScope.agent = None
  BY DEF NoScope, Scopes, ScopeSpans, Handles
<1>5. u \in Traces /\ Same(left, u, {"node"}) /\ u.node = [left.node EXCEPT ![n] = NoScope]
  BY <1>2, <1>3, <1>4 DEF Traces, Same, Fields
<1>6. /\ Same(t, u, {"node", "open", "ended"})
      /\ u.open = (t.open \ gone) \union {} /\ u.ended = t.ended \union gone
      /\ u.node = [t.node EXCEPT ![n] = NoScope] /\ u.held = t.held /\ u.lost = t.lost
  BY <1>2, <1>5 DEF Same, Fields
<1>7. u.node[n] = NoScope /\ \A m \in Nodes \ {n} : u.node[m] = t.node[m]
  BY <1>0, <1>6 DEF Traces
<1>8. Moves(t, u, n, gone, {})
  BY <1>1, <1>5, <1>6, <1>7 DEF Moves, Same, Fields
<1>9. ScopeOK(u, n)
  BY <1>4, <1>7 DEF ScopeOK
<1>10. \A h \in u.held : h[1] = n => HeldOK(u, h)
  <2>1. ScopeSpans(u.node[n]) \subseteq ScopeSpans(t.node[n]) \union {None} \union {}
    BY <1>4, <1>7
  <2>q. QED
    BY <1>1, <1>6, <1>8, <2>1, HeldStay
<1>11. \A x \in Spans(t, n) \union {} : x \in u.open \ u.lost => x \in Spans(u, n)
  BY <1>6 DEF Spans, gone
<1>12. Fits1(t, u, n, {})
  BY <1>9, <1>10, <1>11 DEF Fits1
<1>q. QED
  BY <1>8, <1>12, ScopeMove DEF u

\* A flag changes, and no span.
LEMMA FlagKeeps ==
    ASSUME NEW t, Good(t), t.terminal = Absent, NEW n \in Nodes, NEW u \in Traces,
           Same(t, u, {"node", "finished"}), \A m \in Nodes \ {n} : u.node[m] = t.node[m],
           u.node[n].span = t.node[n].span, u.node[n].task = t.node[n].task,
           u.node[n].agent = t.node[n].agent
    PROVE  Good(u) /\ Follows(t, u, {})
<1>1. /\ u.open = t.open /\ u.ended = t.ended /\ u.held = t.held /\ u.lost = t.lost
      /\ Same(t, u, {"node", "held", "finished", "open", "ended", "lost"})
  BY DEF Same, Fields
<1>2. Moves(t, u, n, {}, {})
  BY <1>1 DEF Moves
<1>3. ScopeSpans(u.node[n]) = ScopeSpans(t.node[n])
  BY DEF ScopeSpans
<1>4. ScopeOK(u, n)
  BY <1>1 DEF Good, Handled, ScopeOK, Of
<1>5. \A h \in u.held : h[1] = n => HeldOK(u, h)
  BY <1>1, <1>3 DEF Good, Handled, HeldOK, Of
<1>6. \A x \in Spans(t, n) \union {} : x \in u.open \ u.lost => x \in Spans(u, n)
  BY <1>1, <1>3 DEF Spans
<1>q. QED
  BY <1>2, <1>4, <1>5, <1>6, ScopeMove DEF Fits1

\* The held spans of a node end.
LEMMA ReleaseKeeps ==
    ASSUME NEW t, Good(t), t.terminal = Absent, NEW n \in Nodes
    PROVE  /\ Good(Release(t, {n})) /\ Follows(t, Release(t, {n}), {})
           /\ Release(t, {n}).node = t.node
<1> DEFINE now == {h \in t.held : h[1] \in {n}}
<1> DEFINE gone == {h[2] : h \in now}
<1> DEFINE left == Ended(t, gone)
<1> DEFINE u == Release(t, {n})
<1>0. t \in Traces
  BY DEF Good
<1>1. gone \subseteq Spans(t, n) /\ None \notin gone
  BY NoneIsNothing DEF Spans, Good, Traces
<1>2. left \in Traces /\ Same(t, left, {"open", "ended"})
      /\ left.open = t.open \ gone /\ left.ended = t.ended \union gone
  <2>1. gone \ {None} = gone
    BY <1>1
  <2> HIDE DEF gone
  <2>q. QED
    BY <1>1, <2>1, SpansEnd
<1>3. u = [left EXCEPT !.held = left.held \ now]
  BY DEF Release
<1>4. now \subseteq t.held /\ \A h \in t.held : h \in now <=> h[1] = n
  OBVIOUS
<1>5. \A h \in t.held : h[2] \in gone => h[1] = n
  <2>1. \A o \in gone : Frame(o[2]).node = n
    BY <1>1, SpansAreOpen
  <2>2. \A h \in t.held : Frame(h[2][2]).node = h[1]
    BY DEF Good, Handled, HeldOK, Of
  <2> HIDE DEF gone
  <2>q. QED
    BY <2>1, <2>2
<1>51. \A h \in now : h[2] \in gone
  OBVIOUS
<1> HIDE DEF left, gone, u, now
<1>6. u \in Traces /\ Same(left, u, {"held"}) /\ u.held = left.held \ now
  BY <1>2, <1>3 DEF Traces, Same, Fields
<1>7. /\ Same(t, u, {"held", "open", "ended"})
      /\ u.open = (t.open \ gone) \union {} /\ u.ended = t.ended \union gone
      /\ u.node = t.node /\ u.held = t.held \ now /\ u.lost = t.lost
  BY <1>2, <1>6 DEF Same, Fields
<1>8. Moves(t, u, n, gone, {})
  BY <1>1, <1>4, <1>6, <1>7 DEF Moves, Same, Fields
<1>9. ScopeOK(u, n)
  <2>1. gone \intersect ScopeSpans(t.node[n]) = {}
    BY <1>0, <1>4 DEF Good, Handled, HeldOK, gone, now
  <2>q. QED
    BY <1>7, <2>1 DEF Good, Handled, ScopeOK, Of, ScopeSpans
<1>10. \A h \in u.held : h[1] = n => HeldOK(u, h)
  BY <1>4, <1>7
<1>11. \A x \in Spans(t, n) \union {} : x \in u.open \ u.lost => x \in Spans(u, n)
  <2>1. ASSUME NEW x \in Spans(t, n), x \in u.open PROVE x \in Spans(u, n)
    <3>1. CASE x \in ScopeSpans(t.node[n])
      BY <1>7, <2>1, <3>1 DEF Spans
    <3>2. CASE x \in {h[2] : h \in {g \in t.held : g[1] = n}}
      BY <1>4, <1>51, <1>7, <1>1, <2>1, <3>2, SpansAreOpen DEF Good, Once
    <3>q. QED
      BY <2>1, <3>1, <3>2 DEF Spans
  <2>q. QED
    BY <2>1
<1>q. QED
  BY <1>7, <1>8, <1>9, <1>10, <1>11, ScopeMove DEF u, Fits1

\* What _scope opens, for a frame that opened nothing yet.
ScopeRoles == {"node", "task", "agent"}
\* A frame that opened nothing yet, and all it may open.
FreshScope(t, id) == \A role \in ScopeRoles : Observation(role, id) \notin Known(t)
New(id) == {Observation(role, id) : role \in Roles}

\* _scope leaves what a later call of the same frame has to open.
LEMMA ScopeFollows ==
    ASSUME NEW t, Good(t), t.terminal = Absent, NEW id \in Ids, Frame(id) \in Frames,
           FreshScope(t, id)
    PROVE  Good(Scope(t, id)) /\ Follows(t, Scope(t, id), New(id))
           /\ \A role \in Roles \ ScopeRoles : Observation(role, id) \notin Known(t) =>
                 Observation(role, id) \notin Known(Scope(t, id))
<1>1. /\ Good(Scope(t, id))
      /\ Follows(t, Scope(t, id), {Observation(role, id) : role \in {"node", "task", "agent"}})
  BY ScopeKeeps DEF FreshScope, ScopeRoles
<1>q. QED
  BY <1>1 DEF Follows, New, Roles, ScopeRoles, Observation

\* _handle_node keeps a trace good.
LEMMA HandleNodeKeeps ==
    ASSUME NEW t, Good(t), t.terminal = Absent, NEW id \in Ids, Frame(id) \in Frames,
           Frame(id).kind = "node", FreshScope(t, id)
    PROVE  Good(HandleNode(t, id)) /\ Follows(t, HandleNode(t, id), New(id))
<1> DEFINE f == Frame(id)
<1> DEFINE n == f.node
<1>1. n \in Nodes /\ f.stage \in {"start", "pause", "end"}
  BY DEF Frames
<1>2. ASSUME f.stage = "pause" PROVE Good(HandleNode(t, id)) /\ Follows(t, HandleNode(t, id), New(id))
  BY <1>2, ScopeFollows DEF HandleNode
<1>3. ASSUME f.stage = "start" PROVE Good(HandleNode(t, id)) /\ Follows(t, HandleNode(t, id), New(id))
  <2> DEFINE visited == IF t.node[n].started THEN CloseScope(t, n) ELSE t
  <2> DEFINE v == Scope(visited, id)
  <2> DEFINE u == [v EXCEPT !.node[n].started = TRUE]
  <2>1. Good(visited) /\ Follows(t, visited, {})
    BY <1>1, CloseScopeKeeps DEF Follows
  <2>2. visited.terminal = Absent /\ FreshScope(visited, id)
    BY <2>1 DEF Follows, FreshScope
  <2> HIDE DEF visited, n, f
  <2>3. Good(v) /\ Follows(visited, v, New(id))
    BY <2>1, <2>2, ScopeFollows
  <2>4. v \in Traces /\ v.node[n] \in Scopes
    BY <1>1, <2>3 DEF Good, Traces
  <2>5. v.terminal = Absent
    BY <2>2, <2>3 DEF Follows
  <2> DEFINE s == [v.node[n] EXCEPT !.started = TRUE]
  <2> HIDE DEF v
  <2>6. s \in Scopes /\ s.span = v.node[n].span /\ s.task = v.node[n].task /\ s.agent = v.node[n].agent
    BY <2>4 DEF Scopes
  <2>7. u = [v EXCEPT !.node[n] = s]
    OBVIOUS
  <2> HIDE DEF s, u
  <2>8. u \in Traces /\ Same(v, u, {"node"}) /\ u.node = [v.node EXCEPT ![n] = s]
    BY <1>1, <2>4, <2>6, <2>7 DEF Traces, Same, Fields
  <2>9. u.node[n] = s /\ Same(v, u, {"node", "finished"}) /\ \A m \in Nodes \ {n} : u.node[m] = v.node[m]
    BY <1>1, <2>4, <2>8 DEF Traces, Same
  <2>10. Good(u) /\ Follows(v, u, {})
    BY <1>1, <2>3, <2>5, <2>6, <2>8, <2>9, FlagKeeps
  <2>11. HandleNode(t, id) = u
    BY <1>3 DEF HandleNode, u, v, visited, n, f
  <2>q. QED
    BY <2>1, <2>3, <2>10, <2>11 DEF Follows
<1>4. ASSUME f.stage = "end" PROVE Good(HandleNode(t, id)) /\ Follows(t, HandleNode(t, id), New(id))
  <2> DEFINE scope == IF t.node[n] = NoScope THEN Scope(t, id) ELSE t
  <2> DEFINE w == CloseScope(scope, n)
  <2> DEFINE v == Release(w, {n})
  <2> DEFINE u == [v EXCEPT !.finished = @ \union {n}]
  <2>1. Good(scope) /\ Follows(t, scope, New(id))
    BY ScopeFollows DEF Follows
  <2>2. scope.terminal = Absent
    BY <2>1 DEF Follows
  <2> HIDE DEF scope, n, f
  <2>3. Good(w) /\ Follows(scope, w, {}) /\ w.terminal = Absent
    BY <1>1, <2>1, <2>2, CloseScopeKeeps DEF Follows
  <2> HIDE DEF w
  <2>4. Good(v) /\ Follows(w, v, {}) /\ v.terminal = Absent
    BY <1>1, <2>3, ReleaseKeeps DEF Follows
  <2> HIDE DEF v
  <2>5. u \in Traces /\ Same(v, u, {"finished"})
    BY <1>1, <2>4 DEF Good, Traces, Same, Fields
  <2> HIDE DEF u
  <2>6. Same(v, u, {"node", "finished"}) /\ u.node = v.node
    BY <2>5 DEF Same, Fields
  <2>7. Good(u) /\ Follows(v, u, {})
    BY <1>1, <2>4, <2>5, <2>6, FlagKeeps
  <2>8. HandleNode(t, id) = t \/ HandleNode(t, id) = u
    BY <1>4 DEF HandleNode, u, v, w, scope, n, f
  <2>9. Follows(t, t, New(id)) /\ Follows(t, u, New(id))
    BY <2>1, <2>3, <2>4, <2>7 DEF Follows
  <2>q. QED
    BY <2>7, <2>8, <2>9
<1>q. QED
  BY <1>1, <1>2, <1>3, <1>4

\* An actor's end ends its span, or holds it when its error names no class.
LEMMA ClosedKeeps ==
    ASSUME NEW t, Good(t), t.terminal = Absent, NEW f \in Frames, NEW os, NEW s \in Scopes,
           s.span = t.node[f.node].span, s.agent = None,
           \/ os = {t.node[f.node].agent} /\ s.task = t.node[f.node].task
           \/ os = {t.node[f.node].task, t.node[f.node].agent} /\ s.task = None,
           NEW u, u = [Closed(t, os, f) EXCEPT !.node[f.node] = s]
    PROVE  Good(u) /\ Follows(t, u, {})
<1> DEFINE n == f.node
<1> DEFINE gone == os \ {None}
<1> DEFINE v == Closed(t, os, f)
<1>0. t \in Traces /\ n \in Nodes /\ ScopeOK(t, n) /\ \A h \in t.held : HeldOK(t, h)
  BY DEF Good, Handled, Frames
<1>1. gone \subseteq Spans(t, n) /\ None \notin gone /\ gone \subseteq ScopeSpans(t.node[n])
  BY DEF Spans, ScopeSpans
<1>2. \A x \in ScopeSpans(t.node[n]) \ {None} : x \in ScopeSpans(s) \/ x \in gone
  BY DEF ScopeSpans
<1>3. ScopeSpans(s) \subseteq ScopeSpans(t.node[n]) \union {None}
  BY DEF ScopeSpans
<1>4. /\ \A x \in gone : x \notin ScopeSpans(s)
      /\ \A x \in gone : x \in t.open /\ x[1] \in {"task", "agent"} /\ Frame(x[2]).node = n
  BY <1>0, NoneIsNothing DEF ScopeSpans, ScopeOK, Of
<1>41. s.span \notin gone /\ s.task \notin gone
  BY <1>4 DEF ScopeSpans
<1>5. gone \subseteq Obs
  BY <1>0, <1>4 DEF Traces
<1> DEFINE more == {<<n, o>> : o \in gone}
<1>6. CASE f.bad /\ ~f.named
  <2>1. v = [t EXCEPT !.held = @ \union more]
    BY <1>6 DEF Closed
  <2>2. more \subseteq Nodes \X Obs
    BY <1>0, <1>5
  <2>21. \A h \in more : h[1] = n /\ h[2] \in gone
    OBVIOUS
  <2>22. \A x \in gone : <<n, x>> \in more /\ <<n, x>>[1] = n /\ <<n, x>>[2] = x
    OBVIOUS
  <2> HIDE DEF v, more, gone, n
  <2>3. v \in Traces /\ Same(t, v, {"held"}) /\ v.held = t.held \union more
    BY <1>0, <2>1, <2>2 DEF Traces, Same, Fields
  <2>4. u \in Traces /\ Same(v, u, {"node"}) /\ u.node = [v.node EXCEPT ![n] = s]
    BY <1>0, <2>3 DEF Traces, Same, Fields, v, n
  <2>5. /\ Same(t, u, {"held", "node"}) /\ u.held = t.held \union more
        /\ u.node = [t.node EXCEPT ![n] = s] /\ u.open = t.open /\ u.ended = t.ended /\ u.lost = t.lost
    BY <2>3, <2>4 DEF Same, Fields
  <2>6. u.node[n] = s /\ \A m \in Nodes \ {n} : u.node[m] = t.node[m]
    BY <1>0, <2>5 DEF Traces
  <2>7. Moves(t, u, n, {}, {})
    BY <2>21, <2>4, <2>5, <2>6 DEF Moves, Same, Fields
  <2>8. ScopeOK(u, n)
    BY <1>0, <2>5, <2>6 DEF ScopeOK, Of, n
  <2>9. ASSUME NEW h \in u.held, h[1] = n PROVE HeldOK(u, h)
    <3>1. CASE h \in t.held
      <4>1. HeldOK(t, h) /\ h[2] # None
        BY <1>0, <3>1, NoneIsNothing DEF Traces
      <4>q. QED
        BY <1>3, <2>5, <2>6, <2>9, <4>1 DEF HeldOK, Of
    <3>2. CASE h \in more
      BY <1>4, <2>21, <2>5, <2>6, <2>9, <3>2 DEF HeldOK, Of
    <3>q. QED
      BY <2>5, <3>1, <3>2
  <2>10. \A x \in Spans(t, n) \union {} : x \in u.open \ u.lost => x \in Spans(u, n)
    <3>1. ASSUME NEW x \in Spans(t, n) PROVE x \in Spans(u, n)
      <4>1. CASE x \in gone
        BY <2>22, <2>5, <3>1, <4>1 DEF Spans
      <4>2. CASE x \in ScopeSpans(s)
        BY <2>6, <3>1, <4>2 DEF Spans
      <4>3. CASE x \in {h[2] : h \in {g \in t.held : g[1] = n}}
        BY <2>5, <3>1, <4>3 DEF Spans
      <4>q. QED
        BY <1>2, <3>1, <4>1, <4>2, <4>3 DEF Spans
    <3>q. QED
      BY <3>1
  <2>q. QED
    BY <1>0, <2>7, <2>8, <2>9, <2>10, ScopeMove DEF Fits1
<1>7. CASE ~(f.bad /\ ~f.named)
  <2>1. v = Ended(t, os)
    BY <1>7 DEF Closed
  <2>2. v \in Traces /\ Same(t, v, {"open", "ended"})
        /\ v.open = t.open \ gone /\ v.ended = t.ended \union gone
    BY <1>0, <1>1, <2>1, SpansEnd
  <2> HIDE DEF v, gone, n
  <2>4. u \in Traces /\ Same(v, u, {"node"}) /\ u.node = [v.node EXCEPT ![n] = s]
    BY <1>0, <2>2 DEF Traces, Same, Fields, v, n
  <2>5. /\ Same(t, u, {"open", "ended", "node"}) /\ u.held = t.held /\ u.lost = t.lost
        /\ u.node = [t.node EXCEPT ![n] = s] /\ u.open = (t.open \ gone) \union {}
        /\ u.ended = t.ended \union gone
    BY <2>2, <2>4 DEF Same, Fields
  <2>6. u.node[n] = s /\ \A m \in Nodes \ {n} : u.node[m] = t.node[m]
    BY <1>0, <2>5 DEF Traces
  <2>7. Moves(t, u, n, gone, {})
    BY <1>1, <2>4, <2>5, <2>6 DEF Moves, Same, Fields
  <2>8. ScopeOK(u, n)
    BY <1>0, <1>41, <2>5, <2>6 DEF ScopeOK, Of, n
  <2>9. \A h \in u.held : h[1] = n => HeldOK(u, h)
    <3>1. ScopeSpans(u.node[n]) \subseteq ScopeSpans(t.node[n]) \union {None} \union {}
      BY <1>3, <2>6
    <3>q. QED
      BY <1>0, <1>1, <2>5, <2>7, <3>1, HeldStay
  <2>10. \A x \in Spans(t, n) \union {} : x \in u.open \ u.lost => x \in Spans(u, n)
    <3>1. ASSUME NEW x \in Spans(t, n), x \in u.open PROVE x \in Spans(u, n)
      <4>1. CASE x \in ScopeSpans(t.node[n])
        BY <1>2, <2>5, <2>6, <3>1, <4>1 DEF Spans
      <4>2. CASE x \in {h[2] : h \in {g \in t.held : g[1] = n}}
        BY <2>5, <3>1, <4>2 DEF Spans
      <4>q. QED
        BY <3>1, <4>1, <4>2 DEF Spans
    <3>q. QED
      BY <3>1
  <2>q. QED
    BY <1>0, <2>7, <2>8, <2>9, <2>10, ScopeMove DEF Fits1
<1>q. QED
  BY <1>6, <1>7

\* _handle_actor keeps a trace good.
LEMMA HandleActorKeeps ==
    ASSUME NEW t, Good(t), t.terminal = Absent, NEW id \in Ids, Frame(id) \in Frames,
           FreshScope(t, id)
    PROVE  Good(HandleActor(t, id)) /\ Follows(t, HandleActor(t, id), New(id))
<1> DEFINE f == Frame(id)
<1> DEFINE n == f.node
<1> DEFINE v == Scope(t, id)
<1> DEFINE scope == v.node[n]
<1> DEFINE a == [scope EXCEPT !.agent = None]
<1> DEFINE b == [scope EXCEPT !.task = None, !.agent = None]
<1> DEFINE ua == [Closed(v, {scope.agent}, f) EXCEPT !.node[n] = a]
<1> DEFINE ub == [Closed(v, {scope.task, scope.agent}, f) EXCEPT !.node[n] = b]
<1>1. Good(v) /\ Follows(t, v, New(id))
  BY ScopeFollows
<1>2. n \in Nodes /\ v.terminal = Absent /\ scope \in Scopes /\ v \in Traces
  BY <1>1 DEF Frames, Follows, Good, Traces
<1>3. HandleActor(t, id) \in {v, ua, ub}
  <2>1. \A s : Closed(v, s, f).node = v.node
    BY <1>2 DEF Closed, Ended, Traces
  <2>2. HandleActor(t, id) \in {v, [Closed(v, {scope.agent}, f) EXCEPT !.node[n].agent = None], ub}
    BY <2>1 DEF HandleActor
  <2>q. QED
    BY <2>1, <2>2
<1> HIDE DEF v
<1>4. a \in Scopes /\ a.span = scope.span /\ a.agent = None /\ a.task = scope.task
  BY <1>2 DEF Scopes, Handles
<1>5. b \in Scopes /\ b.span = scope.span /\ b.agent = None /\ b.task = None
  BY <1>2 DEF Scopes, Handles
<1> HIDE DEF a, b
<1>6. Good(ua) /\ Follows(v, ua, {})
  BY <1>1, <1>2, <1>4, ClosedKeeps
<1>7. Good(ub) /\ Follows(v, ub, {})
  BY <1>1, <1>2, <1>5, ClosedKeeps
<1> HIDE DEF ua, ub
<1>8. Follows(t, ua, New(id)) /\ Follows(t, ub, New(id))
  BY <1>1, <1>6, <1>7 DEF Follows
<1>q. QED
  BY <1>1, <1>3, <1>6, <1>7, <1>8

\* A tool call opens or ends.
ToolMoves(t, u, k, gone, opens, ends) ==
    /\ u \in Traces /\ Same(t, u, {"tool", "open", "ended", "lost"})
    /\ \A j \in Nodes \X Tools : j # k => u.tool[j] = t.tool[j]
    /\ gone \subseteq {t.tool[k]} \ {None}
    /\ opens \intersect Known(t) = {} /\ ends \intersect Known(t) = {}
    /\ opens \intersect ends = {} /\ \A o \in ends : o[1] = "tool"
    /\ u.open = (t.open \ gone) \union opens /\ u.ended = t.ended \union gone \union ends
    /\ t.lost \subseteq u.lost /\ ToolOK(u, k) /\ \A o \in opens : o = u.tool[k]
    /\ t.tool[k] \in gone \union u.lost \union {None, u.tool[k]}

\* A trace stays good when the entry of one tool moves.
LEMMA ToolMove ==
    ASSUME NEW t, Good(t), t.terminal = Absent, NEW u, NEW k \in Nodes \X Tools,
           NEW gone, NEW opens, NEW ends, ToolMoves(t, u, k, gone, opens, ends)
    PROVE  Good(u) /\ Follows(t, u, opens \union ends)
<1> USE DEF ToolMoves
<1>1. /\ u.root = t.root /\ u.terminal = t.terminal /\ u.summary = t.summary
      /\ u.call = t.call /\ u.again = t.again /\ u.node = t.node /\ u.held = t.held
  BY DEF Same, Fields
<1>2. t \in Traces /\ None \notin t.open /\ None \notin u.open
  BY NoneIsNothing DEF Good, Traces
<1>3. \A o \in gone : o \in t.open /\ o \notin t.ended /\ o[1] = "tool" /\ o = t.tool[k] /\ o # None
  BY DEF Good, Handled, ToolOK, Of, Once
<1>4. Follows(t, u, opens \union ends)
  BY <1>1, <1>3 DEF Follows, Known
<1>5. Once(u)
  BY <1>1, <1>3 DEF Good, Once, Known
<1>6. Handled(u)
  <2>1. \A n \in Nodes : ScopeOK(u, n)
    BY <1>1, <1>3 DEF Good, Handled, ScopeOK, Of
  <2>2. ASSUME NEW j \in Nodes \X Tools, j # k PROVE ToolOK(u, j)
    <3>1. ToolOK(t, j) /\ u.tool[j] = t.tool[j] /\ ToolOK(t, k)
      BY <2>2 DEF Good, Handled
    <3>2. SUFFICES ASSUME t.tool[j] # None PROVE ToolOK(u, j)
      BY <3>1 DEF ToolOK
    <3>3. t.tool[j] \notin gone
      <4>1. SUFFICES ASSUME t.tool[j] \in gone PROVE FALSE
        OBVIOUS
      <4>2. t.tool[j] = t.tool[k] /\ t.tool[k] # None
        BY <1>3, <4>1
      <4>3. j[1] = k[1] /\ j[2] = k[2]
        BY <3>1, <3>2, <4>2 DEF ToolOK, Of
      <4>q. QED
        BY <2>2, <4>3
    <3>q. QED
      BY <3>1, <3>2, <3>3 DEF ToolOK, Of
  <2>3. \A h \in u.held : HeldOK(u, h)
    BY <1>1, <1>3 DEF Good, Handled, HeldOK, Of
  <2>4. u.root # None => u.root \in Known(u) /\ u.root[1] = "run"
    BY <1>1, <1>3 DEF Good, Handled, Known
  <2>5. \A c \in Calls : CallOK(u, c)
    BY <1>1, <1>3 DEF Good, Handled, CallOK, Known
  <2>q. QED
    BY <2>1, <2>2, <2>3, <2>4, <2>5 DEF Handled
<1>7. AllKept(u)
  <2>1. SUFFICES ASSUME NEW o \in u.open, o \notin u.lost PROVE Keeps(u, o)
    BY DEF AllKept
  <2>2. CASE o \in opens
    BY <2>2 DEF Keeps
  <2>3. CASE o \in t.open /\ o \notin gone
    <3>1. Keeps(t, o)
      BY <2>1, <2>3 DEF Good, AllKept
    <3>2. ASSUME NEW j \in Nodes \X Tools, o = t.tool[j] PROVE Keeps(u, o)
      <4>1. CASE j = k
        <5>1. o = u.tool[k]
          BY <1>2, <2>1, <2>3, <3>2, <4>1
        <5>q. QED
          BY <5>1 DEF Keeps
      <4>2. CASE j # k
        BY <3>2, <4>2 DEF Keeps
      <4>q. QED
        BY <4>1, <4>2
    <3>3. ASSUME NEW c \in Calls, o = t.call[c].span PROVE Keeps(u, o)
      <4>1. o \notin u.ended
        BY <2>1, <1>5 DEF Once
      <4>q. QED
        BY <1>1, <3>3, <4>1 DEF Keeps, Over
    <3>q. QED
      BY <1>1, <3>1, <3>2, <3>3 DEF Keeps
  <2>q. QED
    BY <2>1, <2>2, <2>3
<1>8. Ending(u)
  BY <1>1 DEF Good, Ending, Absent
<1>q. QED
  BY <1>4, <1>5, <1>6, <1>7, <1>8 DEF Good

\* _handle_tool keeps a trace good.
LEMMA HandleToolKeeps ==
    ASSUME NEW t, Good(t), t.terminal = Absent, NEW id \in Ids, Frame(id) \in Frames,
           Frame(id).kind = "tool", FreshScope(t, id), Observation("tool", id) \notin Known(t)
    PROVE  Good(HandleTool(t, id)) /\ Follows(t, HandleTool(t, id), New(id))
<1> DEFINE f == Frame(id)
<1> DEFINE v == Scope(t, id)
<1> DEFINE k == <<f.node, f.of>>
<1> DEFINE o == Observation("tool", id)
<1> DEFINE old == v.tool[k]
<1> DEFINE a == [Opened(v, o) EXCEPT !.tool[k] = o, !.lost = @ \union ({old} \ {None})]
<1> DEFINE b == Ended(Opened(v, o), {o})
<1> DEFINE c == [Ended(v, {old}) EXCEPT !.tool[k] = None]
<1>1. Good(v) /\ Follows(t, v, New(id)) /\ o \notin Known(v)
  BY ScopeFollows DEF Roles, ScopeRoles
<1>2. v.terminal = Absent /\ v \in Traces
  BY <1>1 DEF Follows, Good
<1>3. /\ o \in Obs /\ o \in Handles /\ o # None /\ o[1] = "tool" /\ o[2] = id
      /\ Frame(o[2]).node = f.node /\ f.node \in Nodes /\ f.of \in Tools
  BY FrameOpens DEF Roles, Frames
<1>4. k \in Nodes \X Tools /\ k[1] = f.node /\ k[2] = f.of
  BY <1>3
<1>5. \/ HandleTool(t, id) = a
      \/ old = None /\ HandleTool(t, id) = b
      \/ old # None /\ HandleTool(t, id) = c
  <2>1. f.stage = "before" => HandleTool(t, id) = a
    BY DEF HandleTool
  <2>2. f.stage # "before" /\ old = None => HandleTool(t, id) = b
    BY DEF HandleTool
  <2>3. f.stage # "before" /\ old # None => HandleTool(t, id) = c
    BY DEF HandleTool
  <2>q. QED
    BY ONLY <2>1, <2>2, <2>3
<1>6. old \in Handles /\ v.tool \in [Nodes \X Tools -> Handles] /\ (old # None => old \in v.open /\ old \notin v.ended)
  BY <1>1, <1>2, <1>4 DEF Traces, Good, Handled, ToolOK, Of, Once
<1>61. o \in New(id)
  BY DEF New, Roles
<1> HIDE DEF v, k, o, f
<1>7. Good(a) /\ Follows(v, a, {o} \union {})
  <2> DEFINE w == Opened(v, o)
  <2>1. w \in Traces /\ Same(v, w, {"open"}) /\ w.open = v.open \union {o}
    BY <1>2, <1>3, OpenedFields
  <2> HIDE DEF w
  <2>2. {old} \ {None} \subseteq Obs
    BY <1>6 DEF Handles
  <2>21. w.tool \in [Nodes \X Tools -> Handles] /\ w.lost \subseteq Obs
    BY <2>1 DEF Traces
  <2>3. a = [w EXCEPT !.tool[k] = o, !.lost = w.lost \union ({old} \ {None})]
    BY DEF w
  <2> HIDE DEF old, a
  <2>4. a \in Traces /\ Same(w, a, {"tool", "lost"}) /\ a.tool = [w.tool EXCEPT ![k] = o]
        /\ a.lost = w.lost \union ({old} \ {None})
    BY <1>3, <1>4, <2>1, <2>2, <2>21, <2>3 DEF Traces, Same, Fields
  <2>5. /\ Same(v, a, {"tool", "open", "ended", "lost"}) /\ a.tool = [v.tool EXCEPT ![k] = o]
        /\ a.lost = v.lost \union ({old} \ {None})
        /\ a.open = (v.open \ {}) \union {o} /\ a.ended = v.ended \union {} \union {}
    BY <2>1, <2>4 DEF Same, Fields
  <2>6. a.tool[k] = o /\ \A j \in Nodes \X Tools : j # k => a.tool[j] = v.tool[j]
    BY <1>4, <1>6, <2>5
  <2>7. ToolOK(a, k)
    BY <1>3, <1>4, <2>5, <2>6 DEF ToolOK, Of, f
  <2>8. old \in {} \union a.lost \union {None, a.tool[k]} /\ v.lost \subseteq a.lost
    BY <2>5
  <2>q. QED
    <3>1. ToolMoves(v, a, k, {}, {o}, {})
      BY <1>1, <2>4, <2>5, <2>6, <2>7, <2>8 DEF ToolMoves, old
    <3>q. QED
      BY <1>1, <1>2, <1>4, <3>1, ToolMove
<1>8. ASSUME old = None PROVE Good(b) /\ Follows(v, b, {} \union {o})
  <2> DEFINE w == Opened(v, o)
  <2>1. w \in Traces /\ Same(v, w, {"open"}) /\ w.open = v.open \union {o}
    BY <1>2, <1>3, OpenedFields
  <2> HIDE DEF w
  <2>2. w.again = {} /\ o \notin w.ended /\ o \notin v.open
    BY <1>1, <2>1 DEF Same, Fields, Known, Good, Once
  <2>3. /\ b \in Traces /\ Same(w, b, {"open", "ended", "again"}) /\ b.open = w.open \ {o}
        /\ b.ended = w.ended \union ({o} \ {None})
        /\ b.again = w.again \union (({o} \ {None}) \intersect w.ended)
    <3>1. {o} \in SUBSET Handles
      BY <1>3
    <3>q. QED
      BY <2>1, <3>1, EndedFields DEF w
  <2> HIDE DEF b
  <2>4. b.again = w.again /\ b.open = v.open /\ b.ended = v.ended \union {o}
    BY <1>3, <2>1, <2>2, <2>3 DEF Same, Fields
  <2>5. Same(v, b, {"tool", "open", "ended", "lost"}) /\ b.tool = v.tool /\ b.lost = v.lost
        /\ b.open = (v.open \ {}) \union {} /\ b.ended = v.ended \union {} \union {o}
    BY <2>1, <2>3, <2>4 DEF Same, Fields
  <2>6. ToolOK(b, k) /\ old \in {} \union b.lost \union {None, b.tool[k]}
    BY <1>8, <2>5 DEF ToolOK
  <2>q. QED
    <3>1. ToolMoves(v, b, k, {}, {}, {o})
      BY <1>1, <1>3, <2>3, <2>5, <2>6 DEF ToolMoves, old
    <3>q. QED
      BY <1>1, <1>2, <1>4, <3>1, ToolMove
<1>9. ASSUME old # None PROVE Good(c) /\ Follows(v, c, {} \union {})
  <2> DEFINE w == Ended(v, {old})
  <2>1. /\ w \in Traces /\ Same(v, w, {"open", "ended", "again"}) /\ w.open = v.open \ {old}
        /\ w.ended = v.ended \union ({old} \ {None})
        /\ w.again = v.again \union (({old} \ {None}) \intersect v.ended)
    <3>1. {old} \in SUBSET Handles
      BY <1>6
    <3> HIDE DEF old
    <3>q. QED
      BY <1>2, <3>1, EndedFields
  <2> HIDE DEF w
  <2>2. w.again = v.again
    BY <1>6, <2>1
  <2>3. c \in Traces /\ Same(w, c, {"tool"}) /\ c.tool = [w.tool EXCEPT ![k] = None]
    BY <1>4, <2>1 DEF Traces, Same, Fields, w, Handles
  <2> HIDE DEF c
  <2>4. /\ Same(v, c, {"tool", "open", "ended", "lost"}) /\ c.tool = [v.tool EXCEPT ![k] = None]
        /\ c.open = (v.open \ ({old} \ {None})) \union {}
        /\ c.ended = v.ended \union ({old} \ {None}) \union {} /\ c.lost = v.lost
    BY <1>9, <2>1, <2>2, <2>3 DEF Same, Fields
  <2>5. c.tool[k] = None /\ \A j \in Nodes \X Tools : j # k => c.tool[j] = v.tool[j]
    BY <1>4, <1>6, <2>4
  <2>6. ToolOK(c, k) /\ old \in ({old} \ {None}) \union c.lost \union {None, c.tool[k]}
    BY <2>5 DEF ToolOK
  <2>q. QED
    <3>1. ToolMoves(v, c, k, {old} \ {None}, {}, {})
      BY <1>1, <2>3, <2>4, <2>5, <2>6 DEF ToolMoves, old
    <3>q. QED
      BY <1>1, <1>2, <1>4, <3>1, ToolMove
<1> HIDE DEF a, b, c
<1>10. Follows(t, a, New(id))
  BY <1>1, <1>61, <1>7 DEF Follows
<1>11. old = None => Follows(t, b, New(id))
  BY <1>1, <1>61, <1>8 DEF Follows
<1>12. old # None => Follows(t, c, New(id))
  BY <1>1, <1>61, <1>9 DEF Follows
<1>q. QED
  BY <1>5, <1>7, <1>8, <1>9, <1>10, <1>11, <1>12

\* A model call opens, ends or changes.
CallMoves(t, u, c, gone, new) ==
    /\ u \in Traces /\ Same(t, u, {"call", "open", "ended", "lost", "resolved"})
    /\ \A d \in Calls : d # c => u.call[d] = t.call[d]
    /\ gone \subseteq {t.call[c].span} \ {None} /\ gone \subseteq t.open
    /\ new \intersect Known(t) = {} /\ \A o \in new : o = u.call[c].span
    /\ u.open = (t.open \ gone) \union new /\ u.ended = t.ended \union gone
    /\ t.lost \subseteq u.lost /\ CallOK(u, c)
    /\ t.call[c].span \in gone \union u.lost \union t.ended \union {None, u.call[c].span}
    /\ t.terminal # Absent => /\ u.call[c].span = t.call[c].span
                              /\ u.call[c].awaiting => t.call[c].awaiting

\* A trace stays good when the record of one call moves.
LEMMA CallMove ==
    ASSUME NEW t, Good(t), NEW u, NEW c \in Calls, NEW gone, NEW new,
           CallMoves(t, u, c, gone, new)
    PROVE  Good(u)
<1> USE DEF CallMoves
<1>1. /\ u.root = t.root /\ u.terminal = t.terminal /\ u.summary = t.summary
      /\ u.tool = t.tool /\ u.again = t.again /\ u.node = t.node /\ u.held = t.held
  BY DEF Same, Fields
<1>2. t \in Traces /\ None \notin t.open /\ None \notin u.open
  BY NoneIsNothing DEF Good, Traces
<1>3. \A o \in gone : o \in t.open /\ o \notin t.ended /\ o = t.call[c].span /\ o # None
  BY DEF Good, Once
<1>4. \A o \in gone : o[1] = "call"
  BY <1>3 DEF Good, Handled, CallOK, NoCall
<1>5. Once(u)
  BY <1>1, <1>3 DEF Good, Once, Known
<1>6. Handled(u)
  <2>1. \A n \in Nodes : ScopeOK(u, n)
    BY <1>1, <1>4 DEF Good, Handled, ScopeOK, Of
  <2>2. \A k \in Nodes \X Tools : ToolOK(u, k)
    BY <1>1, <1>4 DEF Good, Handled, ToolOK, Of
  <2>3. \A h \in u.held : HeldOK(u, h)
    BY <1>1, <1>4 DEF Good, Handled, HeldOK, Of
  <2>4. u.root # None => u.root \in Known(u) /\ u.root[1] = "run"
    BY <1>1, <1>3 DEF Good, Handled, Known
  <2>5. \A d \in Calls : CallOK(u, d)
    BY <1>1, <1>3 DEF Good, Handled, CallOK, Known
  <2>q. QED
    BY <2>1, <2>2, <2>3, <2>4, <2>5 DEF Handled
<1>7. AllKept(u)
  <2>1. SUFFICES ASSUME NEW o \in u.open, o \notin u.lost PROVE Keeps(u, o)
    BY DEF AllKept
  <2>11. o \notin u.ended /\ o # None
    BY <2>1, <1>2, <1>5 DEF Once
  <2>2. CASE o = u.call[c].span
    BY <2>2, <2>11 DEF Keeps, Over
  <2>3. CASE o # u.call[c].span
    <3>0. o \in t.open /\ o \notin gone /\ o \notin t.lost
      BY <2>1, <2>3
    <3>1. Keeps(t, o)
      BY <3>0 DEF Good, AllKept
    <3>2. ASSUME NEW d \in Calls, o = t.call[d].span PROVE Keeps(u, o)
      <4>1. d # c
        BY <2>1, <2>11, <2>3, <3>0, <3>2
      <4>2. o = u.call[d].span
        BY <3>2, <4>1
      <4>q. QED
        BY <2>11, <4>2 DEF Keeps, Over
    <3>q. QED
      BY <1>1, <3>1, <3>2 DEF Keeps
  <2>q. QED
    BY <2>2, <2>3
<1>8. Ending(u)
  <2>1. t.terminal # Absent /\ ~Outstanding(t) => ~Outstanding(u)
    BY DEF Outstanding, Over
  <2>q. QED
    BY <1>1, <2>1 DEF Good, Ending, Absent
<1>q. QED
  BY <1>5, <1>6, <1>7, <1>8 DEF Good

\* _open_generation.
LEMMA OpenCallKeeps ==
    ASSUME NEW t, Good(t), t.terminal = Absent, NEW id \in Ids, Frame(id) \in Frames,
           Frame(id).kind \in {"call", "token"}, Observation("call", id) \notin Known(t)
    PROVE  LET c == Frame(id).of
               o == Observation("call", id)
               u == OpenCall(t, id)
           IN /\ Good(u) /\ Same(t, u, {"call", "open", "lost"}) /\ c \in Calls
              /\ u.call = [t.call EXCEPT ![c] = [NoCall EXCEPT !.span = o]]
              /\ u.open = t.open \union {o} /\ u.ended = t.ended
<1> DEFINE c == Frame(id).of
<1> DEFINE o == Observation("call", id)
<1> DEFINE w == Opened(t, o)
<1> DEFINE s == [NoCall EXCEPT !.span = o]
<1> DEFINE also == {t.call[c].span} \intersect t.open
<1> DEFINE u == OpenCall(t, id)
<1>1. t \in Traces /\ c \in Calls /\ t.call[c] \in CallRecords
  BY DEF Good, Frames, Traces
<1>2. o \in Obs /\ o \in Handles /\ o # None /\ o[1] = "call" /\ o \notin Known(t)
  BY FrameOpens DEF Roles
<1>3. u = [w EXCEPT !.call[c] = s, !.lost = @ \union also]
  BY DEF OpenCall
<1> HIDE DEF u, o, c
<1>4. s \in CallRecords /\ s.span = o
  BY <1>2 DEF CallRecords, NoCall, Handles
<1>5. w \in Traces /\ Same(t, w, {"open"}) /\ w.open = t.open \union {o}
  BY <1>1, <1>2, OpenedFields
<1>6. also \subseteq Obs
  BY <1>1 DEF Traces
<1> HIDE DEF w, s, also
<1>7. u \in Traces /\ Same(w, u, {"call", "lost"}) /\ u.call = [w.call EXCEPT ![c] = s]
      /\ u.lost = w.lost \union also
  BY <1>1, <1>3, <1>4, <1>5, <1>6 DEF Traces, Same, Fields
<1>8. /\ Same(t, u, {"call", "open", "lost"}) /\ u.call = [t.call EXCEPT ![c] = s]
      /\ u.lost = t.lost \union also /\ u.open = (t.open \ {}) \union {o} /\ u.ended = t.ended \union {}
  BY <1>5, <1>7 DEF Same, Fields
<1>9. u.call[c] = s /\ \A d \in Calls : d # c => u.call[d] = t.call[d]
  BY <1>1, <1>8 DEF Traces
<1>10. CallOK(u, c)
  BY <1>2, <1>4, <1>8, <1>9 DEF CallOK, Known
<1>11. t.call[c].span \in t.open \union t.ended \union {None}
  BY <1>1 DEF Good, Handled, CallOK, Known, NoCall
<1>12. CallMoves(t, u, c, {}, {o})
  BY <1>2, <1>4, <1>7, <1>8, <1>9, <1>10, <1>11 DEF CallMoves, Same, Fields, also
<1>13. Good(u)
  BY <1>1, <1>12, CallMove
<1>q. QED
  BY <1>1, <1>8, <1>13 DEF u, s, o, c

\* A call changes, but not its span; it waits anew only before the run ends.
LEMMA CallChanges ==
    ASSUME NEW t, Good(t), NEW c \in Calls, NEW u \in Traces, Same(t, u, {"call", "resolved"}),
           \A d \in Calls : d # c => u.call[d] = t.call[d],
           u.call[c].span = t.call[c].span, t.call[c] # NoCall \/ u.call[c] = NoCall,
           t.terminal # Absent /\ u.call[c].awaiting => t.call[c].awaiting
    PROVE  Good(u)
<1>1. u.open = t.open /\ u.ended = t.ended /\ u.lost = t.lost
  BY DEF Same, Fields
<1>2. CallOK(u, c)
  BY <1>1 DEF Good, Handled, CallOK, Known
<1>3. CallMoves(t, u, c, {}, {})
  BY <1>1, <1>2 DEF CallMoves, Same, Fields
<1>q. QED
  BY <1>3, CallMove

\* _end_generation ends a call once.
LEMMA EndCallKeeps ==
    ASSUME NEW t, Good(t), NEW c \in Calls
    PROVE  LET u == EndCall(t, c) IN
           /\ Good(u) /\ Same(t, u, {"open", "ended"})
           /\ u.open \subseteq t.open /\ t.ended \subseteq u.ended /\ u.ended \subseteq Known(t)
           /\ t.call[c].span # None => Over(u, c)
<1> DEFINE u == EndCall(t, c)
<1> DEFINE o == t.call[c].span
<1> DEFINE gone == {o} \ {None}
<1>1. t \in Traces /\ o \in Handles /\ t.again = {}
  BY DEF Good, Traces, CallRecords, Once
<1>2. CASE Over(t, c)
  BY <1>2 DEF EndCall, Same, Known
<1>3. CASE ~Over(t, c)
  <2>1. u = Ended(t, {o}) /\ o \notin t.ended
    BY <1>3 DEF EndCall, Over
  <2> HIDE DEF u
  <2>2. /\ u \in Traces /\ Same(t, u, {"open", "ended", "again"}) /\ u.open = t.open \ {o}
        /\ u.ended = t.ended \union ({o} \ {None})
        /\ u.again = t.again \union (({o} \ {None}) \intersect t.ended)
    <3>1. {o} \in SUBSET Handles
      BY <1>1
    <3> HIDE DEF o
    <3>q. QED
      BY <1>1, <2>1, <3>1, EndedFields
  <2>3. Same(t, u, {"open", "ended"}) /\ u.call = t.call /\ u.lost = t.lost
    BY <2>1, <2>2 DEF Same, Fields
  <2>4. o = None \/ o \in t.open
    BY <2>1 DEF Good, Handled, CallOK, Known, NoCall
  <2>5. CallOK(u, c)
    BY <2>2, <2>3 DEF Good, Handled, CallOK, Known
  <2>6. u.open = (t.open \ gone) \union {} /\ u.ended = t.ended \union gone
    BY <2>2, <1>1, NoneIsNothing DEF Traces
  <2>7. CallMoves(t, u, c, gone, {})
    BY <2>2, <2>3, <2>4, <2>5, <2>6 DEF CallMoves, Same, Fields
  <2>8. Good(u)
    BY <2>7, CallMove
  <2>q. QED
    BY <2>3, <2>4, <2>6, <2>8 DEF u, Over, Known
<1>q. QED
  BY <1>2, <1>3

(***************************************************************************)
(* The traces and the lookups together.                                    *)
(***************************************************************************)

\* Traces and lookups together.
Books == [trace : [Runs -> Traces], lookups : Seq(LookupRecords)]
\* Every trace is good.
BooksOK(x) == x \in Books /\ \A r \in Runs : Good(x.trace[r])

\* Between t and u calls end, or no longer wait for their tokens.
TraceProgress(t, u) ==
    /\ Same(t, u, {"call", "open", "ended", "resolved"})
    /\ u.open \subseteq t.open /\ t.ended \subseteq u.ended /\ u.ended \subseteq Known(t)
    /\ \A c \in Calls : /\ u.call[c].span = t.call[c].span /\ u.call[c].usage = t.call[c].usage
                        /\ u.call[c].level = t.call[c].level
                        /\ u.call[c].awaiting => t.call[c].awaiting

\* The same for all runs.
Progress(x, y) == \A r \in Runs : TraceProgress(x.trace[r], y.trace[r])

\* A call that was opened has ended or waits for its price.
Billed(x, r, c) == x.trace[r].call[c].span # None => Over(x.trace[r], c) \/ Pending(x, r, c)

\* Run r and call c have no say in what x and y make of another run or call.
Apart(x, y, r, c) ==
    /\ \A s \in Runs : s # r => y.trace[s] = x.trace[s]
    /\ \A d \in Calls : d # c => y.trace[r].call[d] = x.trace[r].call[d]

\* Progress is transitive.
LEMMA ProgressAdds ==
    ASSUME NEW x, NEW y, NEW z, Progress(x, y), Progress(y, z)
    PROVE  Progress(x, z)
<1> USE DEF Progress
<1>1. TAKE r \in Runs
<1>2. TraceProgress(x.trace[r], y.trace[r]) /\ TraceProgress(y.trace[r], z.trace[r])
  BY DEF Progress
<1>3. z.trace[r].ended \subseteq Known(x.trace[r])
  BY <1>2 DEF TraceProgress, Known
<1>q. QED
  BY <1>2, <1>3 DEF TraceProgress, Same

\* What a sequence holds after an Append.
LEMMA AppendAdds ==
    ASSUME NEW S, NEW q \in Seq(S), NEW e
    PROVE  ToSet(Append(q, e)) = ToSet(q) \union {e}
<1>1. DOMAIN Append(q, e) = 1..Len(q)+1 /\ DOMAIN q = 1..Len(q) /\ Len(q) \in Nat
  OBVIOUS
<1>2. \A i \in 1..Len(q) : Append(q, e)[i] = q[i]
  OBVIOUS
<1>3. Append(q, e)[Len(q)+1] = e
  OBVIOUS
<1>q. QED
  BY <1>1, <1>2, <1>3 DEF ToSet

\* What is not there waits for nothing.
LEMMA NoCallWaits == [NoCall EXCEPT !.awaiting = FALSE] = NoCall
<1>1. ASSUME NEW f, NEW i, f = [d \in DOMAIN f |-> f[d]], f[i] = FALSE
      PROVE  [f EXCEPT ![i] = FALSE] = f
  BY <1>1
<1>2. NoCall = [d \in DOMAIN NoCall |-> NoCall[d]] /\ NoCall["awaiting"] = FALSE
  BY DEF NoCall
<1>q. QED
  BY <1>1, <1>2

\* _complete_generation.
LEMMA CompleteKeeps ==
    ASSUME NEW x, BooksOK(x), NEW r \in Runs, NEW c \in Calls
    PROVE  LET y == Complete(x, r, c) IN
           /\ BooksOK(y) /\ Progress(x, y) /\ Apart(x, y, r, c)
           /\ ToSet(x.lookups) \subseteq ToSet(y.lookups)
           /\ Billed(y, r, c)
           /\ ~y.trace[r].call[c].awaiting
<1> DEFINE y == Complete(x, r, c)
<1> DEFINE s == [x.trace[r].call[c] EXCEPT !.awaiting = FALSE]
<1> DEFINE t == [x.trace[r] EXCEPT !.call[c] = s]
<1> DEFINE p == [run |-> r, call |-> c, attempt |-> 0, answer |-> "none"]
<1> DEFINE e == EndCall(t, c)
<1>1. /\ x \in Books /\ x.trace \in [Runs -> Traces] /\ x.lookups \in Seq(LookupRecords)
      /\ Good(x.trace[r]) /\ x.trace[r] \in Traces /\ x.trace[r].call[c] \in CallRecords
      /\ x.trace[r].call \in [Calls -> CallRecords]
  BY DEF BooksOK, Books, Traces
<1>2. /\ s \in CallRecords /\ s.span = x.trace[r].call[c].span /\ s.usage = x.trace[r].call[c].usage
      /\ s.level = x.trace[r].call[c].level /\ ~s.awaiting
  BY <1>1 DEF CallRecords
<1>3. x.trace[r].call[c] = NoCall => s = NoCall
  BY NoCallWaits
<1>4. y = IF Over(t, c) THEN [x EXCEPT !.trace[r] = t]
          ELSE IF /\ t.call[c].answered
                  /\ Len(x.lookups) < MaxLookups
                  /\ t.resolved < MaxLookups
          THEN [trace |-> [x.trace EXCEPT ![r] = t], lookups |-> Append(x.lookups, p)]
          ELSE [x EXCEPT !.trace[r] = e]
  BY DEF Complete
<1> HIDE DEF y, s
<1>5. t \in Traces /\ Same(x.trace[r], t, {"call"}) /\ t.call = [x.trace[r].call EXCEPT ![c] = s]
  BY <1>1, <1>2 DEF Traces, Same, Fields
<1> HIDE DEF t
<1>6. t.call[c] = s /\ \A d \in Calls : d # c => t.call[d] = x.trace[r].call[d]
  BY <1>1, <1>5
<1>7. Good(t)
  <2>1. Same(x.trace[r], t, {"call", "resolved"})
    BY <1>5 DEF Same
  <2>q. QED
    BY <1>1, <1>2, <1>3, <1>5, <1>6, <2>1, CallChanges
<1>8. TraceProgress(x.trace[r], t)
  BY <1>2, <1>5, <1>6 DEF TraceProgress, Same, Fields, Known
<1>9. /\ Good(e) /\ Same(t, e, {"open", "ended"}) /\ e.open \subseteq t.open /\ t.ended \subseteq e.ended
      /\ e.ended \subseteq Known(t)
      /\ t.call[c].span # None => Over(e, c)
  BY <1>7, EndCallKeeps
<1> HIDE DEF e
<1>10. TraceProgress(x.trace[r], e) /\ e.call = t.call
  BY <1>5, <1>8, <1>9 DEF TraceProgress, Same, Fields, Known
<1>11. ASSUME NEW u, Good(u), TraceProgress(x.trace[r], u), u.call = t.call,
              y.trace = [x.trace EXCEPT ![r] = u], y \in Books
       PROVE  BooksOK(y) /\ Progress(x, y) /\ Apart(x, y, r, c) /\ ~y.trace[r].call[c].awaiting /\ y.trace[r] = u
  <2>1. y.trace[r] = u /\ \A q \in Runs : q # r => y.trace[q] = x.trace[q]
    BY <1>1, <1>11
  <2>2. \A q \in Runs : TraceProgress(x.trace[q], x.trace[q])
    BY DEF TraceProgress, Same, Known
  <2>q. QED
    BY <1>2, <1>6, <1>11, <2>1, <2>2 DEF BooksOK, Progress, Apart
<1>12. t \in Traces /\ e \in Traces
  BY <1>7, <1>9 DEF Good
<1>13. CASE Over(t, c)
  <2>1. y = [x EXCEPT !.trace[r] = t]
    BY <1>4, <1>13
  <2>2. y \in Books /\ y.trace = [x.trace EXCEPT ![r] = t] /\ y.lookups = x.lookups
    BY <1>1, <1>12, <2>1 DEF Books
  <2>q. QED
    BY <1>7, <1>8, <1>11, <1>13, <2>2 DEF y, Billed
<1>14. CASE y = [trace |-> [x.trace EXCEPT ![r] = t], lookups |-> Append(x.lookups, p)]
  <2>1. p \in LookupRecords /\ p.run = r /\ p.call = c
    BY DEF LookupRecords
  <2> HIDE DEF p
  <2>2. y \in Books /\ y.trace = [x.trace EXCEPT ![r] = t] /\ y.lookups = Append(x.lookups, p)
    BY <1>1, <1>12, <1>14, <2>1 DEF Books
  <2>3. ToSet(y.lookups) = ToSet(x.lookups) \union {p}
    BY <1>1, <2>2, AppendAdds
  <2>4. Pending(y, r, c)
    BY <2>1, <2>3 DEF Pending
  <2>q. QED
    BY <1>7, <1>8, <1>11, <2>2, <2>3, <2>4 DEF y, Billed
<1>15. CASE y = [x EXCEPT !.trace[r] = e]
  <2>2. y \in Books /\ y.trace = [x.trace EXCEPT ![r] = e] /\ y.lookups = x.lookups
    BY <1>1, <1>12, <1>15 DEF Books
  <2>q. QED
    BY <1>9, <1>10, <1>11, <2>2 DEF y, Billed, Over
<1>q. QED
  BY <1>4, <1>13, <1>14, <1>15

\* A call that has ended or waits for its price goes on to.
LEMMA BilledLasts ==
    ASSUME NEW x, NEW y, Progress(x, y), ToSet(x.lookups) \subseteq ToSet(y.lookups),
           NEW r \in Runs, NEW c \in Calls, Billed(x, r, c)
    PROVE  Billed(y, r, c)
  BY DEF Billed, Progress, TraceProgress, Over, Pending

\* The steps of CompleteAll, and the choice FoldSet makes.
CompleteWait(k, w, y) == Complete(y, w[1], w[2])
\* The choice that the folds of the library make.
AnyOf(s) == CHOOSE w \in s : TRUE

Completions == INSTANCE FoldLemmas WITH Op <- CompleteWait, Choice <- AnyOf

\* What completing the calls of S makes of x.
Completed(x, y, S) ==
    /\ BooksOK(y) /\ Progress(x, y) /\ ToSet(x.lookups) \subseteq ToSet(y.lookups)
    /\ \A w \in S : Billed(y, w[1], w[2]) /\ ~y.trace[w[1]].call[w[2]].awaiting
    /\ \A r \in Runs : \A c \in Calls :
          <<r, c>> \notin S => y.trace[r].call[c] = x.trace[r].call[c]

\* One more call of the set is completed.
LEMMA CompletedStep ==
    ASSUME NEW x, NEW y, NEW S \in SUBSET (Runs \X Calls), NEW w \in S,
           Completed(x, y, S \ {w})
    PROVE  Completed(x, CompleteWait(0, w, y), S)
<1> DEFINE z == CompleteWait(0, w, y)
<1>1. w[1] \in Runs /\ w[2] \in Calls /\ w = <<w[1], w[2]>> /\ BooksOK(y)
  BY DEF Completed
<1>2. /\ BooksOK(z) /\ Progress(y, z) /\ Apart(y, z, w[1], w[2])
      /\ ToSet(y.lookups) \subseteq ToSet(z.lookups)
      /\ Billed(z, w[1], w[2]) /\ ~z.trace[w[1]].call[w[2]].awaiting
  BY <1>1, CompleteKeeps DEF CompleteWait
<1> HIDE DEF z
<1>3. Progress(x, z)
  BY <1>2, ProgressAdds DEF Completed
<1>4. ASSUME NEW v \in S PROVE Billed(z, v[1], v[2]) /\ ~z.trace[v[1]].call[v[2]].awaiting
  <2>1. v[1] \in Runs /\ v[2] \in Calls
    OBVIOUS
  <2>2. CASE v = w
    BY <1>2, <2>2
  <2>3. CASE v # w
    <3>1. Billed(y, v[1], v[2]) /\ ~y.trace[v[1]].call[v[2]].awaiting
      BY <2>3 DEF Completed
    <3>q. QED
      BY <1>2, <2>1, <3>1, BilledLasts DEF Progress, TraceProgress
  <2>q. QED
    BY <2>2, <2>3
<1>5. ASSUME NEW r \in Runs, NEW c \in Calls, <<r, c>> \notin S
      PROVE  z.trace[r].call[c] = x.trace[r].call[c]
  <2>1. r # w[1] \/ c # w[2]
    BY <1>1, <1>5
  <2>2. z.trace[r].call[c] = y.trace[r].call[c]
    BY <1>2, <2>1 DEF Apart
  <2>q. QED
    BY <1>5, <2>2 DEF Completed
<1>q. QED
  BY <1>2, <1>3, <1>4, <1>5 DEF Completed, z

\* Every call of S is completed, and no other.
LEMMA CompleteAllKeeps ==
    ASSUME NEW x, BooksOK(x), NEW S \in SUBSET (Runs \X Calls)
    PROVE  Completed(x, CompleteAll(x, S), S)
<1> DEFINE W == [s \in SUBSET S |-> {y \in Books : Completed(x, y, s)}]
<1>1. IsFiniteSet(S)
  BY TraceAssumption, FS_Product, FS_Subset
<1>2. \A s \in SUBSET S : s # {} => AnyOf(s) \in s
  BY DEF AnyOf
<1>3. x \in W[{}]
  <2>1. Completed(x, x, {})
    BY DEF Completed, Progress, TraceProgress, Same, Known
  <2>q. QED
    BY <2>1 DEF BooksOK
<1>4. \A s \in SUBSET S : \A w \in s : \A y \in W[s \ {w}] : CompleteWait(0, w, y) \in W[s]
  <2>1. TAKE s \in SUBSET S
  <2>2. TAKE w \in s
  <2>3. TAKE y \in W[s \ {w}]
  <2>4. Completed(x, CompleteWait(0, w, y), s)
    BY CompletedStep
  <2>q. QED
    BY <2>4 DEF Completed, BooksOK
<1>5. W[S] = {y \in Books : Completed(x, y, S)}
  OBVIOUS
<1> HIDE DEF W
<1>6. Completions!Fold(0, x, S) \in W[S]
  BY <1>1, <1>2, <1>3, <1>4, Completions!FoldInvariant DEF IsFiniteSet, Completions!IsFiniteSet
<1>7. CompleteAll(x, S) = Completions!Fold(0, x, S)
  BY DEF CompleteAll, FoldSet, MapThenFoldSet, Completions!MapThenFoldSet, Completions!Fold,
         CompleteWait, AnyOf
<1>q. QED
  BY <1>5, <1>6, <1>7

\* What advancing the lookup p makes of x.
LEMMA AdvanceKeeps ==
    ASSUME NEW x, BooksOK(x), NEW p \in LookupRecords, NEW force, NEW due
    PROVE  LET y == Advance(x, p, force, due) IN
           /\ BooksOK(y) /\ Progress(x, y) /\ ToSet(x.lookups) \subseteq ToSet(y.lookups)
           /\ Billed(y, p.run, p.call)
           /\ \A r \in Runs : y.trace[r].call = x.trace[r].call
<1> DEFINE y == Advance(x, p, force, due)
<1> DEFINE t == x.trace[p.run]
<1> DEFINE e == EndCall(t, p.call)
<1> DEFINE u == Resolve(t, p.call)
<1> DEFINE elapsed == <<"price", p.run, p.call>> \in due
<1> DEFINE next == CASE p.answer = "empty" -> [p EXCEPT !.answer = "none"]
                     [] p.answer = "none" /\ elapsed ->
                            [p EXCEPT !.attempt = @ + 1, !.answer = "asked"]
                     [] OTHER -> p
<1>1. /\ x \in Books /\ x.trace \in [Runs -> Traces] /\ x.lookups \in Seq(LookupRecords)
      /\ p.run \in Runs /\ p.call \in Calls /\ Good(t) /\ t \in Traces
  BY DEF BooksOK, Books, LookupRecords
<1>2. \/ Over(t, p.call) /\ y = x
      \/ y = [x EXCEPT !.trace[p.run] = u]
      \/ y = [x EXCEPT !.lookups = Append(@, next)]
  BY DEF Advance
<1>3. next \in LookupRecords /\ next.run = p.run /\ next.call = p.call
  <2> HIDE DEF elapsed
  <2>1. next = [p EXCEPT !.answer = "none"] \/ next = [p EXCEPT !.attempt = @ + 1, !.answer = "asked"]
        \/ next = p
    OBVIOUS
  <2> HIDE DEF next
  <2>2. [p EXCEPT !.answer = "none"] \in LookupRecords
        /\ [p EXCEPT !.answer = "none"].run = p.run /\ [p EXCEPT !.answer = "none"].call = p.call
    BY DEF LookupRecords
  <2>3. /\ [p EXCEPT !.attempt = @ + 1, !.answer = "asked"] \in LookupRecords
        /\ [p EXCEPT !.attempt = @ + 1, !.answer = "asked"].run = p.run
        /\ [p EXCEPT !.attempt = @ + 1, !.answer = "asked"].call = p.call
    <3> DEFINE q == [p EXCEPT !.attempt = @ + 1]
    <3>1. p.attempt + 1 \in Nat
      BY DEF LookupRecords
    <3>2. q \in LookupRecords /\ q.run = p.run /\ q.call = p.call
      BY <3>1 DEF LookupRecords
    <3>3. [q EXCEPT !.answer = "asked"] = [p EXCEPT !.attempt = @ + 1, !.answer = "asked"]
      OBVIOUS
    <3> HIDE DEF q
    <3>4. [q EXCEPT !.answer = "asked"] \in LookupRecords
          /\ [q EXCEPT !.answer = "asked"].run = p.run /\ [q EXCEPT !.answer = "asked"].call = p.call
      BY <3>2 DEF LookupRecords
    <3>q. QED
      BY <3>3, <3>4
  <2>q. QED
    BY <2>1, <2>2, <2>3
<1>4. /\ Good(e) /\ Same(t, e, {"open", "ended"}) /\ e.open \subseteq t.open
      /\ t.ended \subseteq e.ended /\ e.ended \subseteq Known(t)
      /\ t.call[p.call].span # None => Over(e, p.call)
  BY <1>1, EndCallKeeps
<1>5. u = [e EXCEPT !.resolved = @ + 1]
  BY DEF Resolve
<1> HIDE DEF y, e, u, next, t
<1>6. u \in Traces /\ Same(e, u, {"resolved"})
  BY <1>4, <1>5 DEF Good, Traces, Same, Fields
<1>7. u.call = t.call /\ u.open = e.open /\ u.ended = e.ended /\ e.call = t.call
  BY <1>4, <1>6 DEF Same, Fields
<1>8. Good(u)
  <2>1. Same(e, u, {"call", "resolved"})
    BY <1>6 DEF Same
  <2>2. u.open = (e.open \ {}) \union {} /\ u.ended = e.ended \union {} /\ u.lost = e.lost
        /\ u.call = e.call
    BY <1>6, <1>7 DEF Same, Fields
  <2>3. CallOK(u, p.call)
    BY <1>1, <1>4, <2>2 DEF Good, Handled, CallOK, Known
  <2>4. e.call[p.call].span \in e.ended \union {None, u.call[p.call].span}
    BY <2>2
  <2>5. Same(e, u, {"call", "open", "ended", "lost", "resolved"})
    BY <1>6 DEF Same
  <2>6. CallMoves(e, u, p.call, {}, {})
    BY <1>6, <2>2, <2>3, <2>4, <2>5 DEF CallMoves
  <2>q. QED
    BY <1>1, <1>4, <2>6, CallMove
<1>9. TraceProgress(t, u)
  <2>1. Same(t, u, {"call", "open", "ended", "resolved"})
    BY <1>4, <1>6 DEF Same
  <2>2. \A c \in Calls : u.call[c] = t.call[c]
    BY <1>7
  <2>3. u.open \subseteq t.open /\ t.ended \subseteq u.ended /\ u.ended \subseteq Known(t)
    BY <1>4, <1>7
  <2>q. QED
    BY <2>1, <2>2, <2>3 DEF TraceProgress
<1>10. \A r \in Runs : TraceProgress(x.trace[r], x.trace[r])
  BY DEF TraceProgress, Same, Known
<1>11. CASE Over(t, p.call) /\ y = x
  BY <1>10, <1>11 DEF y, Progress, Billed, t
<1>12. CASE y = [x EXCEPT !.trace[p.run] = u]
  <2>1. y \in Books /\ y.trace = [x.trace EXCEPT ![p.run] = u] /\ y.lookups = x.lookups
    BY <1>1, <1>6, <1>12 DEF Books
  <2>2. y.trace[p.run] = u /\ \A r \in Runs : r # p.run => y.trace[r] = x.trace[r]
    BY <1>1, <2>1
  <2>3. BooksOK(y) /\ Progress(x, y) /\ \A r \in Runs : y.trace[r].call = x.trace[r].call
    BY <1>7, <1>8, <1>9, <1>10, <2>1, <2>2 DEF BooksOK, Progress, t
  <2>4. Billed(y, p.run, p.call)
    <3>1. u.call[p.call].span # None => u.call[p.call].span \in u.ended
      BY <1>4, <1>7 DEF Over
    <3>q. QED
      BY <2>2, <3>1 DEF Billed, Over
  <2>q. QED
    BY <2>1, <2>3, <2>4 DEF y
<1>13. CASE y = [x EXCEPT !.lookups = Append(@, next)]
  <2>0. Append(x.lookups, next) \in Seq(LookupRecords)
    BY <1>1, <1>3
  <2>1. y \in Books /\ y.trace = x.trace /\ y.lookups = Append(x.lookups, next)
    BY <1>1, <1>13, <2>0 DEF Books
  <2>2. ToSet(y.lookups) = ToSet(x.lookups) \union {next}
    BY <1>1, <2>1, AppendAdds
  <2>3. Pending(y, p.run, p.call)
    BY <1>3, <2>2 DEF Pending
  <2>q. QED
    BY <1>10, <2>1, <2>2, <2>3 DEF y, BooksOK, Progress, Billed
<1>q. QED
  BY <1>2, <1>11, <1>12, <1>13

\* A set of numbers up to n has a largest one.
LEMMA LargestIsIn ==
    ASSUME NEW n \in Nat, NEW s \in SUBSET (1..n), s # {}
    PROVE  Max(s) \in s
<1> DEFINE F == {u \in SUBSET (1..n) : u # {} => \E i \in u : \A j \in u : i >= j}
<1>1. IsFiniteSet(1..n)
  BY FS_Interval
<1>2. {} \in F
  OBVIOUS
<1>3. ASSUME NEW u \in SUBSET (1..n), NEW i \in (1..n) \ u, u \in F PROVE u \union {i} \in F
  <2>1. CASE u = {}
    BY <2>1
  <2>2. CASE u # {}
    <3>1. PICK k \in u : \A j \in u : k >= j
      BY <1>3, <2>2
    <3>2. CASE i >= k
      <4>1. \A j \in u \union {i} : i >= j
        BY <3>1, <3>2
      <4>q. QED
        BY <4>1
    <3>3. CASE ~(i >= k)
      <4>1. \A j \in u \union {i} : k >= j
        BY <3>1, <3>3
      <4>q. QED
        BY <3>1, <4>1
    <3>q. QED
      BY <3>2, <3>3
  <2>q. QED
    BY <2>1, <2>2
<1>4. s \in F
  <2> HIDE DEF F
  <2>q. QED
    BY <1>1, <1>2, <1>3, Completions!FiniteSetInduction DEF IsFiniteSet, Completions!IsFiniteSet
<1>q. QED
  BY <1>4 DEF Max

\* The lookup in place i of the job's sequence is advanced.
SettleOne(job, i, y) == Advance(y, job.seq[i], job.force, job.due)

\* The lookups are advanced one after the other.
Settlements == INSTANCE FoldLemmas WITH Op <- SettleOne, Choice <- Max

\* What advancing the lookups of D makes of x.
Settled(x, y, seq, D) ==
    /\ BooksOK(y) /\ Progress(x, y)
    /\ \A i \in D : Billed(y, seq[i].run, seq[i].call)
    /\ \A r \in Runs : y.trace[r].call = x.trace[r].call

\* One more lookup is advanced.
LEMMA SettledStep ==
    ASSUME NEW job, job.seq \in Seq(LookupRecords), NEW x, NEW y, NEW D \in SUBSET DOMAIN job.seq,
           NEW i \in D, Settled(x, y, job.seq, D \ {i})
    PROVE  Settled(x, SettleOne(job, i, y), job.seq, D)
<1> DEFINE z == SettleOne(job, i, y)
<1> DEFINE p == job.seq[i]
<1>1. p \in LookupRecords
  OBVIOUS
<1>2. z = Advance(y, p, job.force, job.due)
  BY DEF SettleOne
<1> HIDE DEF z, p
<1>3. /\ BooksOK(z) /\ Progress(y, z) /\ ToSet(y.lookups) \subseteq ToSet(z.lookups)
      /\ Billed(z, p.run, p.call) /\ \A r \in Runs : z.trace[r].call = y.trace[r].call
  BY <1>1, <1>2, AdvanceKeeps DEF Settled
<1>4. Progress(x, z)
  BY <1>3, ProgressAdds DEF Settled
<1>5. ASSUME NEW j \in D PROVE Billed(z, job.seq[j].run, job.seq[j].call)
  <2>1. CASE j = i
    BY <1>3, <2>1 DEF p
  <2>2. CASE j # i
    <3>1. job.seq[j].run \in Runs /\ job.seq[j].call \in Calls
      <4>1. job.seq[j] \in LookupRecords
        OBVIOUS
      <4>q. QED
        BY <4>1 DEF LookupRecords
    <3>2. Billed(y, job.seq[j].run, job.seq[j].call)
      BY <2>2 DEF Settled
    <3>q. QED
      BY <1>3, <3>1, <3>2, BilledLasts
  <2>q. QED
    BY <2>1, <2>2
<1>q. QED
  BY <1>3, <1>4, <1>5 DEF Settled, z

\* The fold of _settle_lookups is one over the places of the lookups.
LEMMA SettleIsFold ==
    ASSUME NEW x, NEW force, NEW due
    PROVE  SettleLookups(x, force, due)
           = Settlements!Fold([seq |-> x.lookups, force |-> force, due |-> due],
                              [x EXCEPT !.lookups = <<>>], DOMAIN x.lookups)
  BY DEF SettleLookups, FoldLeft, MapThenFoldSet, Settlements!MapThenFoldSet, Settlements!Fold,
         SettleOne

\* _settle_lookups: what waited for its price has ended or goes on waiting.
LEMMA SettleLookupsKeeps ==
    ASSUME NEW x, BooksOK(x), NEW force, NEW due
    PROVE  LET y == SettleLookups(x, force, due) IN
           /\ BooksOK(y) /\ Progress(x, y)
           /\ \A r \in Runs : y.trace[r].call = x.trace[r].call
           /\ \A r \in Runs : \A c \in Calls : Billed(x, r, c) => Billed(y, r, c)
<1> DEFINE job == [seq |-> x.lookups, force |-> force, due |-> due]
<1> DEFINE base == [x EXCEPT !.lookups = <<>>]
<1> DEFINE S == DOMAIN x.lookups
<1> DEFINE W == [D \in SUBSET S |-> {y \in Books : Settled(x, y, x.lookups, D)}]
<1> DEFINE y == SettleLookups(x, force, due)
<1>1. x \in Books /\ x.lookups \in Seq(LookupRecords) /\ job.seq = x.lookups
  BY DEF BooksOK, Books
<1>2. S = 1..Len(x.lookups) /\ Len(x.lookups) \in Nat
  BY <1>1
<1>3. IsFiniteSet(S) /\ \A s \in SUBSET S : s # {} => Max(s) \in s
  <2>1. IsFiniteSet(1..Len(x.lookups))
    BY <1>2, FS_Interval
  <2>2. \A s \in SUBSET (1..Len(x.lookups)) : s # {} => Max(s) \in s
    BY <1>2, LargestIsIn
  <2> HIDE DEF S
  <2>q. QED
    BY <1>2, <2>1, <2>2
<1>4. base \in Books /\ base.trace = x.trace
  <2>1. <<>> \in Seq(LookupRecords)
    OBVIOUS
  <2>q. QED
    BY <1>1, <2>1 DEF Books
<1>5. y = Settlements!Fold(job, base, S)
  BY SettleIsFold
<1> HIDE DEF job, base, y
<1>6. base \in W[{}]
  <2>1. Settled(x, base, x.lookups, {})
    BY <1>4 DEF Settled, BooksOK, Progress, TraceProgress, Same, Known
  <2>q. QED
    BY <1>4, <2>1
<1>7. \A s \in SUBSET S : \A i \in s : \A z \in W[s \ {i}] : SettleOne(job, i, z) \in W[s]
  <2>1. TAKE s \in SUBSET S
  <2>2. TAKE i \in s
  <2>3. TAKE z \in W[s \ {i}]
  <2>4. Settled(x, SettleOne(job, i, z), job.seq, s)
    BY <1>1, SettledStep
  <2>q. QED
    BY <1>1, <2>4 DEF Settled, BooksOK
<1>8. W[S] = {z \in Books : Settled(x, z, x.lookups, S)}
  OBVIOUS
<1> HIDE DEF W
<1>9. Settlements!Fold(job, base, S) \in W[S]
  BY <1>3, <1>6, <1>7, Settlements!FoldInvariant DEF IsFiniteSet, Settlements!IsFiniteSet
<1>10. Settled(x, y, x.lookups, S)
  BY <1>5, <1>8, <1>9
<1>11. ASSUME NEW r \in Runs, NEW c \in Calls, Billed(x, r, c) PROVE Billed(y, r, c)
  <2>1. TraceProgress(x.trace[r], y.trace[r]) /\ y.trace[r].call = x.trace[r].call
    BY <1>10 DEF Settled, Progress
  <2>2. CASE Over(x.trace[r], c) \/ x.trace[r].call[c].span = None
    BY <2>1, <2>2 DEF Billed, Over, TraceProgress
  <2>3. CASE Pending(x, r, c)
    <3>1. PICK i \in S : x.lookups[i].run = r /\ x.lookups[i].call = c
      BY <2>3 DEF Pending, ToSet
    <3>q. QED
      BY <1>10, <3>1 DEF Settled
  <2>q. QED
    BY <1>11, <2>2, <2>3 DEF Billed
<1>q. QED
  BY <1>10, <1>11 DEF Settled, y

-----------------------------------------------------------------------------

\* How the trace of r and the lookups belong together: a call with its tokens has ended or
\* waits for its price and keeps its level, a run marks calls when it ends only, and then
\* it holds no span and no tool, and every call ends, or waits for its tokens or its price.
Coupled(x, r) ==
    LET t == x.trace[r] IN
    /\ \A c \in Calls : t.call[c].usage => t.call[c].level # "run" /\ Billed(x, r, c)
    /\ t.terminal = Absent => \A c \in Calls : t.call[c].level # "run"
    /\ t.terminal # Absent =>
          /\ \A k \in Nodes \X Tools : t.tool[k] = None
          /\ \A n \in Nodes : t.node[n] = NoScope
          /\ t.held = {}
          /\ \A c \in Calls : t.call[c].awaiting \/ Billed(x, r, c)

\* The same for all runs.
AllCoupled(x) == \A r \in Runs : Coupled(x, r)

\* Progress keeps a trace and the lookups coupled, when no call that waited is forgotten.
LEMMA CoupledLasts ==
    ASSUME NEW x, NEW y, NEW r \in Runs, Coupled(x, r), TraceProgress(x.trace[r], y.trace[r]),
           \A c \in Calls : Billed(x, r, c) => Billed(y, r, c),
           \A c \in Calls : x.trace[r].call[c].awaiting =>
               y.trace[r].call[c].awaiting \/ Billed(y, r, c)
    PROVE  Coupled(y, r)
<1>1. /\ y.trace[r].terminal = x.trace[r].terminal /\ y.trace[r].tool = x.trace[r].tool
      /\ y.trace[r].node = x.trace[r].node /\ y.trace[r].held = x.trace[r].held
  BY DEF TraceProgress, Same, Fields
<1>2. \A c \in Calls : /\ y.trace[r].call[c].usage = x.trace[r].call[c].usage
                       /\ y.trace[r].call[c].level = x.trace[r].call[c].level
  BY DEF TraceProgress
<1>q. QED
  BY <1>1, <1>2 DEF Coupled

\* _settle, for the calls whose grace is over or, at a flush, for all that wait.
LEMMA CompleteAllCouples ==
    ASSUME NEW x, BooksOK(x), AllCoupled(x), NEW S \in SUBSET (Runs \X Calls)
    PROVE  AllCoupled(CompleteAll(x, S))
<1> DEFINE y == CompleteAll(x, S)
<1>1. Completed(x, y, S)
  BY CompleteAllKeeps
<1> HIDE DEF y
<1>2. ASSUME NEW r \in Runs PROVE Coupled(y, r)
  <2>1. TraceProgress(x.trace[r], y.trace[r])
    BY <1>1 DEF Completed, Progress
  <2>2. \A c \in Calls : Billed(x, r, c) => Billed(y, r, c)
    BY <1>1, BilledLasts DEF Completed
  <2>3. ASSUME NEW c \in Calls, x.trace[r].call[c].awaiting
        PROVE  y.trace[r].call[c].awaiting \/ Billed(y, r, c)
    <3>1. CASE <<r, c>> \in S
      BY <1>1, <3>1 DEF Completed
    <3>2. CASE <<r, c>> \notin S
      BY <1>1, <2>3, <3>2 DEF Completed
    <3>q. QED
      BY <3>1, <3>2
  <2>q. QED
    BY <2>1, <2>2, <2>3, CoupledLasts DEF AllCoupled
<1>q. QED
  BY <1>2 DEF AllCoupled, y

-----------------------------------------------------------------------------

\* What absorbing the frame id of run r makes of x.
Absorbed(x, y, r, id) ==
    /\ BooksOK(y) /\ AllCoupled(y)
    /\ \A s \in Runs : Known(y.trace[s]) \subseteq
                          Known(x.trace[s]) \union (IF s = r THEN New(id) ELSE {})

\* Frame id of run r is read for the first time; it may have opened the trace.
First(x, r, id) ==
    /\ r \in Runs /\ id \in Ids /\ Frame(id) \in Frames
    /\ \A role \in Roles \ {"run"} : Observation(role, id) \notin Known(x.trace[r])

\* y is x with the trace u for run r.
Replaced(x, r, u, y) == y = [x EXCEPT !.trace[r] = u]

\* The traces of the other runs stay coupled.
LEMMA TraceChanges ==
    ASSUME NEW x, BooksOK(x), AllCoupled(x), NEW r \in Runs, NEW u, Good(u),
           NEW y, Replaced(x, r, u, y)
    PROVE  /\ BooksOK(y) /\ y.trace[r] = u /\ y.lookups = x.lookups
           /\ \A s \in Runs : s # r => y.trace[s] = x.trace[s] /\ Coupled(y, s)
<1>1. x \in Books /\ u \in Traces
  BY DEF BooksOK, Good
<1>2. y \in Books /\ y.trace = [x.trace EXCEPT ![r] = u] /\ y.lookups = x.lookups
  BY <1>1 DEF Books, Replaced
<1>3. y.trace[r] = u /\ \A s \in Runs : s # r => y.trace[s] = x.trace[s]
  BY <1>1, <1>2 DEF Books
<1>4. BooksOK(y)
  BY <1>2, <1>3 DEF BooksOK
<1>5. ASSUME NEW s \in Runs, s # r PROVE Coupled(y, s)
  BY <1>2, <1>3, <1>5 DEF AllCoupled, Coupled, Billed, Pending, Over
<1>q. QED
  BY <1>2, <1>3, <1>4, <1>5

\* Before the run ends the trace of r is coupled, but for the calls of S, when those whose
\* tokens arrived are billed.
Early(y, r, S) ==
    /\ y.trace[r].terminal = Absent
    /\ \A c \in Calls : /\ y.trace[r].call[c].level # "run"
                        /\ c \notin S /\ y.trace[r].call[c].usage => Billed(y, r, c)

\* Before the terminal frame there is nothing a call has to wait for.
LEMMA EarlyCouples ==
    ASSUME NEW y, NEW r \in Runs, Early(y, r, {}), \A s \in Runs : s # r => Coupled(y, s)
    PROVE  AllCoupled(y)
  BY DEF Early, Coupled, AllCoupled

\* A frame that touches no call.
LEMMA FollowsKeeps ==
    ASSUME NEW x, BooksOK(x), AllCoupled(x), NEW r, NEW id, First(x, r, id),
           x.trace[r].terminal = Absent,
           NEW u, Good(u), Follows(x.trace[r], u, New(id))
    PROVE  Absorbed(x, [x EXCEPT !.trace[r] = u], r, id)
<1> DEFINE y == [x EXCEPT !.trace[r] = u]
<1>1. r \in Runs /\ Replaced(x, r, u, y)
  BY DEF First, Replaced
<1> HIDE DEF y
<1>2. /\ BooksOK(y) /\ y.trace[r] = u /\ y.lookups = x.lookups
      /\ \A s \in Runs : s # r => y.trace[s] = x.trace[s] /\ Coupled(y, s)
  BY <1>1, TraceChanges
<1>3. Early(y, r, {})
  BY <1>1, <1>2 DEF AllCoupled, Coupled, Follows, Billed, Over, Pending, Early
<1>4. AllCoupled(y)
  BY <1>1, <1>2, <1>3, EarlyCouples
<1>q. QED
  BY <1>2, <1>4 DEF Absorbed, Follows, y

\* The frame id opens call c in t, unless it is open; u comes of it.
Opens(t, u, c, id) ==
    /\ Good(u) /\ u.terminal = Absent /\ c \in Calls
    /\ u.call[c] # NoCall
    /\ t.ended \subseteq u.ended /\ Known(u) \subseteq Known(t) \union New(id)
    /\ \A d \in Calls : d # c => u.call[d] = t.call[d]
    /\ u.call[c].usage => t.call[c].usage /\ u.call[c].span = t.call[c].span
    /\ t.call[c].level # "run" => u.call[c].level # "run"

\* _open_generation, after what the frame did to the scopes.
LEMMA CallOpens ==
    ASSUME NEW t, NEW w, Good(w), w.terminal = Absent, NEW id \in Ids, Frame(id) \in Frames,
           Frame(id).kind \in {"call", "token"}, Observation("call", id) \notin Known(w),
           w.call = t.call, t.ended \subseteq w.ended, Known(w) \subseteq Known(t) \union New(id)
    PROVE  Opens(t, OpenCall(w, id), Frame(id).of, id)
<1> DEFINE c == Frame(id).of
<1> DEFINE o == Observation("call", id)
<1> DEFINE u == OpenCall(w, id)
<1> DEFINE s == [NoCall EXCEPT !.span = o]
<1>1. /\ Good(u) /\ Same(w, u, {"call", "open", "lost"}) /\ c \in Calls
      /\ u.call = [w.call EXCEPT ![c] = s]
      /\ u.open = w.open \union {o} /\ u.ended = w.ended
  BY OpenCallKeeps
<1>2. s.span = o /\ s.usage = FALSE /\ s.level = "default" /\ o # None /\ o \in New(id)
  BY FrameOpens DEF NoCall, New, Roles
<1>3. w.call \in [Calls -> CallRecords]
  BY DEF Good, Traces
<1> HIDE DEF u, o, c, s
<1>4. u.call[c] = s /\ \A d \in Calls : d # c => u.call[d] = t.call[d]
  BY <1>1, <1>3
<1>5. s # NoCall
  BY <1>2 DEF NoCall
<1>q. QED
  BY <1>1, <1>2, <1>4, <1>5 DEF Opens, Known, Same, Fields, u, c

\* _complete_generation, for the call that is not coupled yet.
LEMMA CompleteCouples ==
    ASSUME NEW x, BooksOK(x), NEW r \in Runs, NEW c \in Calls, Early(x, r, {c}),
           \A s \in Runs : s # r => Coupled(x, s)
    PROVE  AllCoupled(Complete(x, r, c))
<1> DEFINE y == Complete(x, r, c)
<1>1. /\ Progress(x, y) /\ Apart(x, y, r, c)
      /\ ToSet(x.lookups) \subseteq ToSet(y.lookups)
      /\ Billed(y, r, c)
  BY CompleteKeeps
<1> HIDE DEF y
<1>2. ASSUME NEW s \in Runs, NEW d \in Calls, Billed(x, s, d) PROVE Billed(y, s, d)
  BY <1>1, <1>2, BilledLasts
<1>3. ASSUME NEW s \in Runs, s # r PROVE Coupled(y, s)
  BY <1>1, <1>2, <1>3, CoupledLasts DEF Apart, Progress
<1>4. Early(y, r, {})
  BY <1>1, <1>2 DEF Early, Progress, TraceProgress, Same, Fields
<1>q. QED
  BY <1>3, <1>4, EarlyCouples DEF y

\* In x1 call c, which the frame id of run r is about, has changed and is to be completed.
Changed(x, x1, r, id, c) ==
    /\ BooksOK(x1) /\ Early(x1, r, {c}) /\ c \in Calls
    /\ \A s \in Runs : s # r => Coupled(x1, s)
    /\ \A s \in Runs : Known(x1.trace[s]) \subseteq
                          Known(x.trace[s]) \union (IF s = r THEN New(id) ELSE {})

\* v becomes u when call c changes, but not its span.
Alters(v, u, c) ==
    /\ u \in Traces /\ Same(v, u, {"call"})
    /\ \A d \in Calls : d # c => u.call[d] = v.call[d]
    /\ u.call[c].span = v.call[c].span /\ u.call[c].level # "run"

\* The record of one call is opened or altered in the traces.
LEMMA ChangedKeeps ==
    ASSUME NEW x, BooksOK(x), AllCoupled(x), NEW r, NEW id, First(x, r, id),
           x.trace[r].terminal = Absent,
           NEW c, NEW v, Opens(x.trace[r], v, c, id), NEW u, Alters(v, u, c),
           NEW x1, Replaced(x, r, u, x1)
    PROVE  Changed(x, x1, r, id, c)
<1> USE DEF Alters
<1>1. r \in Runs /\ c \in Calls
  BY DEF First, Opens
<1>2. Good(u)
  <2>1. Same(v, u, {"call", "resolved"})
    BY DEF Same
  <2>q. QED
    BY <1>1, <2>1, CallChanges DEF Opens, Same, Fields
<1>3. /\ BooksOK(x1) /\ x1.trace[r] = u /\ x1.lookups = x.lookups
      /\ \A s \in Runs : s # r => x1.trace[s] = x.trace[s] /\ Coupled(x1, s)
  BY <1>1, <1>2, TraceChanges
<1>4. u.terminal = Absent /\ u.ended = v.ended /\ u.open = v.open
  BY DEF Opens, Same, Fields
<1>5. Early(x1, r, {c})
  BY <1>1, <1>3, <1>4 DEF Early, Opens, AllCoupled, Coupled, Billed, Over, Pending
<1>6. Known(u) \subseteq Known(x.trace[r]) \union New(id)
  BY <1>4 DEF Opens, Known
<1>q. QED
  BY <1>1, <1>3, <1>5, <1>6 DEF Changed

\* A call opens, and no more than that.
LEMMA OpensKeeps ==
    ASSUME NEW x, BooksOK(x), AllCoupled(x), NEW r, NEW id, First(x, r, id),
           x.trace[r].terminal = Absent,
           NEW c, NEW u, Opens(x.trace[r], u, c, id)
    PROVE  Absorbed(x, [x EXCEPT !.trace[r] = u], r, id)
<1> DEFINE y == [x EXCEPT !.trace[r] = u]
<1>1. r \in Runs /\ c \in Calls /\ Replaced(x, r, u, y) /\ Good(u)
  BY DEF First, Opens, Replaced
<1> HIDE DEF y
<1>2. /\ BooksOK(y) /\ y.trace[r] = u /\ y.lookups = x.lookups
      /\ \A s \in Runs : s # r => y.trace[s] = x.trace[s] /\ Coupled(y, s)
  BY <1>1, TraceChanges
<1>3. Early(y, r, {})
  BY <1>1, <1>2 DEF Early, Opens, AllCoupled, Coupled, Billed, Over, Pending
<1>4. AllCoupled(y)
  BY <1>1, <1>2, <1>3, EarlyCouples
<1>q. QED
  BY <1>2, <1>4 DEF Absorbed, Opens, y

\* The open call that changes is completed.
LEMMA CompletedIsAbsorbed ==
    ASSUME NEW x, NEW x1, NEW r, NEW id, NEW c, First(x, r, id), Changed(x, x1, r, id, c)
    PROVE  Absorbed(x, Complete(x1, r, c), r, id)
<1> DEFINE y == Complete(x1, r, c)
<1> USE DEF Changed
<1>1. r \in Runs
  BY DEF First
<1>2. BooksOK(y) /\ Progress(x1, y)
  BY <1>1, CompleteKeeps
<1>3. AllCoupled(y)
  BY <1>1, CompleteCouples
<1> HIDE DEF y
<1>4. \A s \in Runs : Known(y.trace[s]) \subseteq Known(x1.trace[s])
  BY <1>2 DEF Progress, TraceProgress, Known
<1>q. QED
  BY <1>2, <1>3, <1>4 DEF Absorbed, y

\* _handle_generation.
LEMMA HandleCallKeeps ==
    ASSUME NEW x, BooksOK(x), AllCoupled(x), NEW r, NEW id, First(x, r, id),
           x.trace[r].terminal = Absent, Frame(id).kind = "call"
    PROVE  Absorbed(x, HandleCall(x, r, id), r, id)
<1> DEFINE t == x.trace[r]
<1> DEFINE f == Frame(id)
<1> DEFINE c == f.of
<1> DEFINE scoped == Scope(t, id)
<1> DEFINE known == IF f.stage = "before" \/ scoped.call[c] = NoCall
                    THEN OpenCall(scoped, id) ELSE scoped
<1> DEFINE answered == c \in Answered
<1> DEFINE after == [known EXCEPT !.call[c].awaiting = TRUE, !.call[c].answered = answered]
<1> DEFINE error == [known EXCEPT !.call[c].level = "error"]
<1>1. /\ r \in Runs /\ id \in Ids /\ f \in Frames /\ Good(t) /\ c \in Calls
      /\ f.stage \in {"before", "after", "error"} /\ t.terminal = Absent
  BY DEF First, BooksOK, Frames
<1>2. HandleCall(x, r, id) =
        CASE f.stage = "before" -> [x EXCEPT !.trace[r] = known]
          [] f.stage = "after" -> [x EXCEPT !.trace[r] = after]
          [] f.stage = "error" -> Complete([x EXCEPT !.trace[r] = error], r, c)
  BY DEF HandleCall
<1>3. /\ Good(scoped) /\ Follows(t, scoped, New(id))
      /\ Observation("call", id) \notin Known(scoped)
  <2>1. FreshScope(t, id) /\ Observation("call", id) \notin Known(t)
    BY DEF First, FreshScope, Roles, ScopeRoles
  <2> HIDE DEF t
  <2>q. QED
    BY <1>1, <2>1, ScopeFollows DEF Roles, ScopeRoles
<1>4. Opens(t, known, c, id)
  <2> HIDE DEF t, scoped
  <2>1. /\ scoped.terminal = Absent /\ scoped.call = t.call /\ t.ended \subseteq scoped.ended
        /\ Known(scoped) \subseteq Known(t) \union New(id)
    BY <1>1, <1>3 DEF Follows
  <2>2. Opens(t, OpenCall(scoped, id), c, id)
    BY <1>1, <1>3, <2>1, CallOpens
  <2>3. CASE scoped.call[c] # NoCall
    <3>1. Opens(t, scoped, c, id)
      BY <1>1, <1>3, <2>1, <2>3 DEF Opens
    <3>q. QED
      BY <2>2, <3>1
  <2>q. QED
    BY <2>2, <2>3
<1>10. answered \in BOOLEAN
  OBVIOUS
<1> HIDE DEF known, f, c, t, answered
<1>5. /\ known \in Traces /\ known.call \in [Calls -> CallRecords] /\ known.call[c] \in CallRecords
      /\ known.call[c].level # "run"
  <2>1. known \in Traces /\ c \in Calls
    BY <1>4 DEF Opens, Good
  <2>2. t.call[c].level # "run"
    BY <1>1, <2>1 DEF AllCoupled, Coupled, t
  <2>q. QED
    BY <1>4, <2>1, <2>2 DEF Opens, Traces
<1>6. CASE f.stage = "before"
  <2>1. HandleCall(x, r, id) = [x EXCEPT !.trace[r] = known]
    BY <1>2, <1>6
  <2>q. QED
    BY <1>1, <1>4, <2>1, OpensKeeps DEF t
<1>7. CASE f.stage = "after"
  <2> DEFINE s == [known.call[c] EXCEPT !.awaiting = TRUE, !.answered = answered]
  <2>1. s \in CallRecords /\ s.span = known.call[c].span /\ s.level = known.call[c].level
        /\ s.usage = known.call[c].usage
    BY <1>5, <1>10 DEF CallRecords
  <2>2. after = [known EXCEPT !.call[c] = s]
    BY <1>1, <1>5
  <2>3. HandleCall(x, r, id) = [x EXCEPT !.trace[r] = after]
    BY <1>2, <1>7
  <2> HIDE DEF s, after
  <2>4. after \in Traces /\ Same(known, after, {"call"}) /\ after.call = [known.call EXCEPT ![c] = s]
    BY <1>5, <2>1, <2>2 DEF Traces, Same, Fields
  <2>5. after.call[c] = s /\ \A d \in Calls : d # c => after.call[d] = known.call[d]
    BY <1>1, <1>5, <2>4
  <2>6. Good(after)
    <3>1. Same(known, after, {"call", "resolved"})
      BY <2>4 DEF Same
    <3>2. Good(known) /\ known.call[c] # NoCall /\ known.terminal = Absent
      BY <1>4 DEF Opens
    <3>3. after.call[c].span = known.call[c].span
      BY <2>1, <2>5
    <3>q. QED
      BY <1>1, <2>4, <2>5, <3>1, <3>2, <3>3, CallChanges
  <2>7. Opens(t, after, c, id)
    <3>1. after.call[c] # NoCall
      <4>1. after.call[c].awaiting
        BY <1>5, <2>5 DEF s, CallRecords
      <4>q. QED
        BY <4>1 DEF NoCall
    <3>2. after.terminal = known.terminal /\ after.ended = known.ended /\ after.open = known.open
      BY <2>4 DEF Same, Fields
    <3>q. QED
      BY <1>4, <2>1, <2>5, <2>6, <3>1, <3>2 DEF Opens, Known
  <2>q. QED
    BY <1>1, <2>3, <2>7, OpensKeeps DEF t
<1>8. CASE f.stage = "error"
  <2> DEFINE s == [known.call[c] EXCEPT !.level = "error"]
  <2> DEFINE x1 == [x EXCEPT !.trace[r] = error]
  <2>1. s \in CallRecords /\ s.span = known.call[c].span /\ s.level = "error"
    BY <1>5 DEF CallRecords
  <2>2. error = [known EXCEPT !.call[c] = s]
    BY <1>1, <1>5
  <2>3. HandleCall(x, r, id) = Complete(x1, r, c)
    BY <1>2, <1>8
  <2> HIDE DEF s, error
  <2>4. error \in Traces /\ Same(known, error, {"call"}) /\ error.call = [known.call EXCEPT ![c] = s]
    BY <1>5, <2>1, <2>2 DEF Traces, Same, Fields
  <2>5. error.call[c] = s /\ \A d \in Calls : d # c => error.call[d] = known.call[d]
    BY <1>1, <1>5, <2>4
  <2>6. Replaced(x, r, error, x1)
    BY DEF Replaced
  <2> HIDE DEF x1
  <2>7. Alters(known, error, c)
    BY <2>1, <2>4, <2>5 DEF Alters
  <2>8. Changed(x, x1, r, id, c)
    <3>1. Opens(x.trace[r], known, c, id)
      BY <1>4 DEF t
    <3>q. QED
      BY <2>6, <2>7, <3>1, ChangedKeeps
  <2>q. QED
    BY <2>3, <2>8, CompletedIsAbsorbed
<1>q. QED
  BY <1>1, <1>6, <1>7, <1>8

\* _handle_fold.
LEMMA HandleTokenKeeps ==
    ASSUME NEW x, BooksOK(x), AllCoupled(x), NEW r, NEW id, First(x, r, id),
           x.trace[r].terminal = Absent, Frame(id).kind = "token"
    PROVE  Absorbed(x, HandleToken(x, r, id), r, id)
<1> DEFINE t == x.trace[r]
<1> DEFINE f == Frame(id)
<1> DEFINE c == f.of
<1> DEFINE scoped == Scope(t, id)
<1> DEFINE known == IF t.call[c] = NoCall THEN OpenCall(scoped, id) ELSE t
<1> DEFINE s == [known.call[c] EXCEPT !.usage = TRUE]
<1> DEFINE u == [known EXCEPT !.call[c].usage = TRUE]
<1> DEFINE x1 == [x EXCEPT !.trace[r] = u]
<1>1. /\ r \in Runs /\ id \in Ids /\ f \in Frames /\ Good(t) /\ c \in Calls /\ t.terminal = Absent
  BY DEF First, BooksOK, Frames
<1>2. HandleToken(x, r, id) = Complete(x1, r, c)
  BY DEF HandleToken
<1>3. /\ Good(scoped) /\ Follows(t, scoped, New(id))
      /\ Observation("call", id) \notin Known(scoped)
  <2>1. FreshScope(t, id) /\ Observation("call", id) \notin Known(t)
    BY DEF First, FreshScope, Roles, ScopeRoles
  <2> HIDE DEF t
  <2>q. QED
    BY <1>1, <2>1, ScopeFollows DEF Roles, ScopeRoles
<1>4. Opens(t, known, c, id)
  <2> HIDE DEF t, scoped
  <2>1. /\ scoped.terminal = Absent /\ scoped.call = t.call /\ t.ended \subseteq scoped.ended
        /\ Known(scoped) \subseteq Known(t) \union New(id)
    BY <1>1, <1>3 DEF Follows
  <2>2. Opens(t, OpenCall(scoped, id), c, id)
    BY <1>1, <1>3, <2>1, CallOpens
  <2>3. CASE t.call[c] # NoCall
    <3>1. Opens(t, t, c, id)
      BY <1>1, <2>3 DEF Opens
    <3>q. QED
      BY <2>2, <2>3, <3>1
  <2>q. QED
    BY <2>2, <2>3
<1> HIDE DEF known, f, c, t
<1>5. /\ known \in Traces /\ known.call \in [Calls -> CallRecords] /\ known.call[c] \in CallRecords
      /\ known.call[c].level # "run"
  <2>1. known \in Traces /\ c \in Calls
    BY <1>4 DEF Opens, Good
  <2>2. t.call[c].level # "run"
    BY <1>1, <2>1 DEF AllCoupled, Coupled, t
  <2>q. QED
    BY <1>4, <2>1, <2>2 DEF Opens, Traces
<1>6. s \in CallRecords /\ s.span = known.call[c].span /\ s.level = known.call[c].level
  BY <1>5 DEF CallRecords
<1>7. u = [known EXCEPT !.call[c] = s]
  BY <1>1, <1>5
<1> HIDE DEF s, u
<1>8. u \in Traces /\ Same(known, u, {"call"}) /\ u.call = [known.call EXCEPT ![c] = s]
  BY <1>5, <1>6, <1>7 DEF Traces, Same, Fields
<1>9. u.call[c] = s /\ \A d \in Calls : d # c => u.call[d] = known.call[d]
  BY <1>1, <1>5, <1>8
<1>10. Alters(known, u, c)
  BY <1>5, <1>6, <1>8, <1>9 DEF Alters
<1>11. Replaced(x, r, u, x1)
  BY DEF Replaced
<1> HIDE DEF x1
<1>12. Opens(x.trace[r], known, c, id)
  BY <1>4 DEF t
<1>13. Changed(x, x1, r, id, c)
  BY <1>10, <1>11, <1>12, ChangedKeeps
<1>q. QED
  BY <1>2, <1>13, CompletedIsAbsorbed

\* _open_trace.
LEMMA OpenTraceKeeps ==
    ASSUME NEW x, BooksOK(x), AllCoupled(x), NEW r, NEW id, First(x, r, id),
           Observation("run", id) \notin Known(x.trace[r])
    PROVE  LET u == OpenTrace(x.trace[r], id)
               y == [x EXCEPT !.trace[r] = u] IN
           /\ BooksOK(y) /\ AllCoupled(y) /\ Good(u) /\ y.trace[r] = u /\ u.root # None
           /\ \A s \in Runs : Known(y.trace[s]) \subseteq Known(x.trace[s])
                                  \union (IF s = r THEN {Observation("run", id)} ELSE {})
<1> DEFINE t == x.trace[r]
<1> DEFINE o == Observation("run", id)
<1> DEFINE u == OpenTrace(t, id)
<1> DEFINE y == [x EXCEPT !.trace[r] = u]
<1>1. r \in Runs /\ Good(t) /\ t \in Traces /\ id \in Ids /\ Frame(id) \in Frames /\ o \notin Known(t)
  BY DEF First, BooksOK, Good, Roles
<1>2. o \in Obs /\ o \in Handles /\ o # None /\ o[1] = "run"
  BY <1>1, FrameOpens DEF Roles
<1>3. Good(u) /\ u.root # None /\ u.call = t.call /\ u.terminal = t.terminal /\ t.ended \subseteq u.ended
      /\ u.tool = t.tool /\ u.node = t.node /\ u.held = t.held
      /\ Known(u) \subseteq Known(t) \union {o}
  <2>1. CASE t.root # None
    BY <1>1, <2>1 DEF OpenTrace
  <2>2. CASE t.root = None
    <3> DEFINE w == Opened(t, o)
    <3>1. u = [w EXCEPT !.root = o]
      BY <2>2 DEF OpenTrace
    <3>2. w \in Traces /\ Same(t, w, {"open"}) /\ w.open = t.open \union {o}
      BY <1>1, <1>2, OpenedFields
    <3> HIDE DEF u, w, o, t
    <3>3. u \in Traces /\ Same(w, u, {"root"}) /\ u.root = o
      BY <1>2, <3>1, <3>2 DEF Traces, Same, Fields
    <3>4. /\ u.root = o /\ u.open = t.open \union {o} /\ u.ended = t.ended /\ u.lost = t.lost
          /\ u.terminal = t.terminal /\ u.summary = t.summary /\ u.node = t.node
          /\ u.tool = t.tool /\ u.call = t.call /\ u.held = t.held /\ u.again = t.again
      BY <3>2, <3>3 DEF Same, Fields
    <3>5. t.terminal = Absent
      BY <1>1, <2>2 DEF Good, Ending, t
    <3>6. Once(u)
      BY <1>1, <3>4 DEF Good, Once, Known
    <3>7. Handled(u)
      <4>1. \A n \in Nodes : ScopeOK(u, n)
        BY <1>1, <3>4 DEF Good, Handled, ScopeOK, Of
      <4>2. \A k \in Nodes \X Tools : ToolOK(u, k)
        BY <1>1, <3>4 DEF Good, Handled, ToolOK, Of
      <4>3. \A h \in u.held : HeldOK(u, h)
        BY <1>1, <3>4 DEF Good, Handled, HeldOK, Of
      <4>4. u.root \in Known(u) /\ u.root[1] = "run"
        BY <1>2, <3>4 DEF Known
      <4>5. \A c \in Calls : CallOK(u, c)
        BY <1>1, <3>4 DEF Good, Handled, CallOK, Known
      <4>q. QED
        BY <4>1, <4>2, <4>3, <4>4, <4>5 DEF Handled
    <3>8. AllKept(u)
      <4>1. SUFFICES ASSUME NEW v \in u.open, v \notin u.lost PROVE Keeps(u, v)
        BY DEF AllKept
      <4>2. CASE v = o
        BY <3>4, <3>5, <4>2 DEF Keeps
      <4>3. CASE v # o
        <5>1. v \in t.open /\ v # None
          BY <1>1, <3>4, <4>3, NoneIsNothing DEF Traces
        <5>2. Keeps(t, v)
          BY <1>1, <3>4, <4>1, <5>1 DEF Good, AllKept
        <5>q. QED
          BY <2>2, <3>4, <5>1, <5>2 DEF Keeps, Over, t
      <4>q. QED
        BY <4>2, <4>3
    <3>9. Ending(u)
      BY <1>1, <3>4, <3>5 DEF Good, Ending, Absent
    <3>q. QED
      BY <1>2, <3>3, <3>4, <3>6, <3>7, <3>8, <3>9 DEF Good, Known
  <2>q. QED
    BY <2>1, <2>2
<1>4. Replaced(x, r, u, y)
  BY DEF Replaced
<1> HIDE DEF y, u
<1>5. /\ BooksOK(y) /\ y.trace[r] = u /\ y.lookups = x.lookups
      /\ \A s \in Runs : s # r => y.trace[s] = x.trace[s] /\ Coupled(y, s)
  BY <1>1, <1>3, <1>4, TraceChanges
<1>6. Coupled(y, r)
  BY <1>1, <1>3, <1>5 DEF AllCoupled, Coupled, Billed, Over, Pending
<1>7. \A s \in Runs : Known(y.trace[s]) \subseteq Known(x.trace[s])
                                  \union (IF s = r THEN {o} ELSE {})
  BY <1>3, <1>5
<1>q. QED
  BY <1>3, <1>5, <1>6, <1>7 DEF AllCoupled, y, u

-----------------------------------------------------------------------------

\* _finish_run marks calls with the failure of their run.
LEMMA MarkKeeps ==
    ASSUME NEW t, Good(t), NEW u \in Traces, Same(t, u, {"call"}),
           \A c \in Calls : /\ u.call[c].span = t.call[c].span
                            /\ u.call[c].awaiting = t.call[c].awaiting
                            /\ t.call[c] # NoCall \/ u.call[c] = t.call[c]
    PROVE  Good(u)
<1>1. /\ u.open = t.open /\ u.ended = t.ended /\ u.lost = t.lost
      /\ u.terminal = t.terminal /\ u.summary = t.summary /\ u.node = t.node
      /\ u.tool = t.tool /\ u.root = t.root /\ u.held = t.held /\ u.again = t.again
  BY DEF Same, Fields
<1>2. Once(u)
  BY <1>1 DEF Good, Once
<1>3. Handled(u)
  <2>1. \A n \in Nodes : ScopeOK(u, n)
    BY <1>1 DEF Good, Handled, ScopeOK, Of
  <2>2. \A k \in Nodes \X Tools : ToolOK(u, k)
    BY <1>1 DEF Good, Handled, ToolOK, Of
  <2>3. \A h \in u.held : HeldOK(u, h)
    BY <1>1 DEF Good, Handled, HeldOK, Of
  <2>4. u.root # None => u.root \in Known(u) /\ u.root[1] = "run"
    BY <1>1 DEF Good, Handled, Known
  <2>5. \A c \in Calls : CallOK(u, c)
    BY <1>1 DEF Good, Handled, CallOK, Known
  <2>q. QED
    BY <2>1, <2>2, <2>3, <2>4, <2>5 DEF Handled
<1>4. AllKept(u)
  <2>1. SUFFICES ASSUME NEW o \in t.open, o \notin t.lost, Keeps(t, o) PROVE Keeps(u, o)
    BY <1>1 DEF Good, AllKept
  <2>q. QED
    BY <1>1, <2>1 DEF Keeps, Over
<1>5. Ending(u)
  BY <1>1 DEF Good, Ending, Outstanding, Over
<1>q. QED
  BY <1>2, <1>3, <1>4, <1>5 DEF Good

\* The spans and the tools that are open when a run ends.
OpenSpans(t) ==
    {t.tool[k] : k \in DOMAIN t.tool} \union UNION {ScopeSpans(t.node[n]) : n \in Nodes}

\* What the end of its run leaves of a trace.
Emptied(t, status) ==
    [Release(Ended(t, OpenSpans(t)), Nodes) EXCEPT
         !.tool = [k \in DOMAIN t.tool |-> None],
         !.node = [n \in Nodes |-> NoScope],
         !.terminal = status,
         !.summary = "awaiting"]

\* The end of a run leaves no scope, no tool and nothing held.
LEMMA EmptiedKeeps ==
    ASSUME NEW t, Good(t), t.terminal = Absent, t.root # None,
           NEW status \in {"completed", "failed", "cancelled"}
    PROVE  LET u == Emptied(t, status) IN
           /\ Good(u) /\ u.call = t.call /\ u.terminal = status
           /\ t.ended \subseteq u.ended /\ Known(u) \subseteq Known(t)
           /\ u.tool = [k \in Nodes \X Tools |-> None] /\ u.node = [n \in Nodes |-> NoScope]
           /\ u.held = {}
<1> DEFINE os == OpenSpans(t)
<1> DEFINE w == Ended(t, os)
<1> DEFINE hs == {h[2] : h \in {g \in w.held : g[1] \in Nodes}}
<1> DEFINE v == Ended(w, hs)
<1> DEFINE v1 == [v EXCEPT !.held = @ \ {g \in w.held : g[1] \in Nodes}]
<1> DEFINE u == Emptied(t, status)
<1>1. /\ t \in Traces /\ t.again = {} /\ t.open \intersect t.ended = {}
      /\ DOMAIN t.tool = Nodes \X Tools /\ t.node \in [Nodes -> Scopes]
      /\ t.held \in SUBSET (Nodes \X Obs) /\ t.open \in SUBSET Obs
  BY DEF Good, Once, Traces
<1>2. \A o \in os : o = None \/ (/\ o \in t.open
                                 /\ \/ \E k \in Nodes \X Tools : o = t.tool[k] /\ o[1] = "tool"
                                    \/ \E n \in Nodes : /\ o \in ScopeSpans(t.node[n])
                                                        /\ o[1] \in {"node", "task", "agent"}
                                                        /\ Frame(o[2]).node = n)
  <2>1. ASSUME NEW o \in os, o # None PROVE
             /\ o \in t.open
             /\ \/ \E k \in Nodes \X Tools : o = t.tool[k] /\ o[1] = "tool"
                \/ \E n \in Nodes : /\ o \in ScopeSpans(t.node[n])
                                    /\ o[1] \in {"node", "task", "agent"}
                                    /\ Frame(o[2]).node = n
    <3>1. CASE \E k \in Nodes \X Tools : o = t.tool[k]
      BY <2>1, <3>1 DEF Good, Handled, ToolOK, Of
    <3>2. CASE \E n \in Nodes : o \in ScopeSpans(t.node[n])
      BY <2>1, <3>2 DEF Good, Handled, ScopeOK, Of, ScopeSpans
    <3>q. QED
      BY <1>1, <2>1, <3>1, <3>2 DEF OpenSpans
  <2>q. QED
    BY <2>1
<1>3. os \in SUBSET Handles
  BY <1>1, <1>2 DEF Handles
<1>4. u = [v1 EXCEPT !.tool = [k \in DOMAIN t.tool |-> None], !.node = [n \in Nodes |-> NoScope],
                     !.terminal = status, !.summary = "awaiting"]
  BY DEF Emptied, Release
<1> HIDE DEF os
<1>5. /\ w \in Traces /\ Same(t, w, {"open", "ended", "again"})
      /\ w.open = t.open \ os /\ w.ended = t.ended \union (os \ {None})
      /\ w.again = t.again \union ((os \ {None}) \intersect t.ended)
  BY <1>1, <1>3, EndedFields
<1> HIDE DEF w
<1>6. w.again = {} /\ w.held = t.held /\ Same(t, w, {"open", "ended"})
  BY <1>1, <1>2, <1>5 DEF Same, Fields
<1>7. {g \in w.held : g[1] \in Nodes} = t.held
  BY <1>1, <1>6
<1>8. hs = {h[2] : h \in t.held}
  BY <1>7
<1>9. hs \in SUBSET Handles
  BY <1>1, <1>8 DEF Handles
<1>10. \A o \in hs : o \in t.open /\ o # None /\ o \notin os
  <2>1. SUFFICES ASSUME NEW h \in t.held PROVE h[2] \in t.open /\ h[2] # None /\ h[2] \notin os
    BY <1>8
  <2>2. /\ h[2] \in t.open /\ h[2][1] \in {"task", "agent"} /\ Frame(h[2][2]).node = h[1]
        /\ h[2] \notin ScopeSpans(t.node[h[1]])
    BY <2>1 DEF Good, Handled, HeldOK, Of
  <2>3. h[2] # None
    BY <1>1, <2>2, NoneIsNothing
  <2>q. QED
    BY <1>2, <2>2, <2>3
<1> HIDE DEF hs
<1>11. /\ v \in Traces /\ Same(w, v, {"open", "ended", "again"})
       /\ v.open = w.open \ hs /\ v.ended = w.ended \union (hs \ {None})
       /\ v.again = w.again \union ((hs \ {None}) \intersect w.ended)
  BY <1>5, <1>9, EndedFields
<1>12. v1 = [v EXCEPT !.held = {}]
  BY <1>6, <1>7, <1>11 DEF Same, Fields
<1> HIDE DEF v, v1, u
<1>13. v1 \in Traces /\ Same(v, v1, {"held"}) /\ v1.held = {}
  BY <1>11, <1>12 DEF Traces, Same, Fields
<1>14. NoScope \in Scopes /\ None \in Handles
  BY DEF NoScope, Scopes, Handles
<1>15. /\ u \in Traces /\ Same(v1, u, {"tool", "node", "terminal", "summary"})
       /\ u.tool = [k \in Nodes \X Tools |-> None] /\ u.node = [n \in Nodes |-> NoScope]
       /\ u.terminal = status /\ u.summary = "awaiting"
  <2>1. [k \in DOMAIN t.tool |-> None] \in [Nodes \X Tools -> Handles]
        /\ [n \in Nodes |-> NoScope] \in [Nodes -> Scopes]
    BY <1>1, <1>14
  <2> DEFINE tools == [k \in DOMAIN t.tool |-> None]
  <2> DEFINE nodes == [n \in Nodes |-> NoScope]
  <2>2. tools = [k \in Nodes \X Tools |-> None]
    BY <1>1
  <2>3. u = [v1 EXCEPT !.tool = tools, !.node = nodes, !.terminal = status, !.summary = "awaiting"]
        /\ tools \in [Nodes \X Tools -> Handles] /\ nodes \in [Nodes -> Scopes]
    BY <1>4, <2>1
  <2>4. nodes = [n \in Nodes |-> NoScope]
    OBVIOUS
  <2> HIDE DEF tools, nodes
  <2>5. /\ u \in Traces /\ Same(v1, u, {"tool", "node", "terminal", "summary"})
        /\ u.tool = tools /\ u.node = nodes /\ u.terminal = status /\ u.summary = "awaiting"
    BY <1>13, <2>3 DEF Traces, Same, Fields
  <2>q. QED
    BY <2>2, <2>4, <2>5
<1>16. /\ u.open = t.open \ (os \union hs) /\ u.ended = t.ended \union ((os \union hs) \ {None})
       /\ u.again = {} /\ u.lost = t.lost /\ u.root = t.root /\ u.call = t.call /\ u.held = {}
  <2>1. /\ u.open = v.open /\ u.ended = v.ended /\ u.again = v.again
        /\ u.lost = v.lost /\ u.root = v.root /\ u.call = v.call /\ u.held = {}
    BY <1>13, <1>15 DEF Same, Fields
  <2>2. v.lost = t.lost /\ v.root = t.root /\ v.call = t.call
    BY <1>5, <1>11 DEF Same, Fields
  <2>3. v.open = t.open \ (os \union hs) /\ v.ended = t.ended \union ((os \union hs) \ {None})
    BY <1>5, <1>11
  <2>4. v.again = {}
    BY <1>1, <1>5, <1>6, <1>10, <1>11
  <2>q. QED
    BY <2>1, <2>2, <2>3, <2>4
<1>17. \A o \in (os \union hs) : o # None => o \in t.open /\ o[1] \notin {"run", "call"}
  BY <1>2, <1>8, <1>10 DEF Good, Handled, HeldOK, Of
<1>18. Once(u)
  BY <1>1, <1>16, <1>17 DEF Once
<1>19. Known(u) \subseteq Known(t)
  BY <1>16, <1>17 DEF Known
<1>20. t.root \in Known(u) /\ t.root[1] = "run"
  BY <1>16, <1>17 DEF Known, Good, Handled
<1>21. Handled(u)
  <2>1. \A n \in Nodes : ScopeOK(u, n)
    BY <1>15 DEF ScopeOK, NoScope
  <2>2. \A k \in Nodes \X Tools : ToolOK(u, k)
    BY <1>15 DEF ToolOK
  <2>5. \A c \in Calls : CallOK(u, c)
    <3>1. SUFFICES ASSUME NEW c \in Calls, t.call[c] # NoCall PROVE t.call[c].span \in Known(u)
      BY <1>16 DEF CallOK, Good, Handled
    <3>2. t.call[c].span \in Known(t) /\ t.call[c].span[1] = "call"
      BY <3>1 DEF Good, Handled, CallOK
    <3>q. QED
      BY <1>1, <1>16, <1>17, <3>2, NoneIsNothing DEF Known, Traces
  <2>q. QED
    BY <1>16, <1>20, <2>1, <2>2, <2>5 DEF Handled
<1>22. AllKept(u)
  <2>1. SUFFICES ASSUME NEW o \in u.open, o \notin u.lost PROVE Keeps(u, o)
    BY DEF AllKept
  <2>2. o \in t.open /\ o \notin os /\ o \notin hs
    BY <1>16
  <2>3. Keeps(t, o)
    BY <1>16, <2>1, <2>2 DEF Good, AllKept
  <2>4. ~(\E k \in Nodes \X Tools : o = t.tool[k]) /\ ~(\E n \in Nodes : o \in ScopeSpans(t.node[n]))
    BY <1>1, <2>2 DEF os, OpenSpans
  <2>5. ~(\E h \in t.held : o = h[2])
    BY <1>8, <2>2
  <2>6. CASE o = t.root
    BY <1>15, <1>16, <2>6 DEF Keeps
  <2>7. CASE \E c \in Calls : ~Over(t, c) /\ o = t.call[c].span
    <3>1. o \notin u.ended
      BY <2>1, <1>18 DEF Once
    <3>q. QED
      BY <1>16, <2>7, <3>1 DEF Keeps, Over
  <2>q. QED
    BY <2>3, <2>4, <2>5, <2>6, <2>7 DEF Keeps
<1>23. Ending(u)
  BY <1>15, <1>16 DEF Ending, Absent
<1>q. QED
  BY <1>15, <1>16, <1>18, <1>19, <1>21, <1>22, <1>23 DEF Good, u

\* _finish_run.
LEMMA FinishKeeps ==
    ASSUME NEW x, BooksOK(x), AllCoupled(x), NEW r, NEW id, First(x, r, id),
           x.trace[r].root # None, Frame(id).kind = "terminal"
    PROVE  Absorbed(x, Finish(x, r, id), r, id)
<1> DEFINE t == x.trace[r]
<1> DEFINE status == Frame(id).stage
<1> DEFINE unfinished == {c \in Calls : t.call[c] # NoCall /\ ~Over(t, c) /\ ~Pending(x, r, c)}
<1> DEFINE calls == [c \in Calls |->
                      IF c \in unfinished /\ t.call[c].level = "default" /\ status # "completed"
                      THEN [t.call[c] EXCEPT !.level = "run"] ELSE t.call[c]]
<1> DEFINE marked == [t EXCEPT !.call = calls]
<1> DEFINE x1 == [x EXCEPT !.trace[r] = marked]
<1> DEFINE S == {r} \X {c \in unfinished : ~t.call[c].awaiting}
<1> DEFINE z == CompleteAll(x1, S)
<1> DEFINE u == Emptied(z.trace[r], status)
<1> DEFINE y == Finish(x, r, id)
<1>1. /\ r \in Runs /\ Good(t) /\ t \in Traces /\ t.call \in [Calls -> CallRecords]
      /\ status \in {"completed", "failed", "cancelled"}
  BY DEF First, BooksOK, Good, Traces, Frames
<1>2. CASE t.terminal # Absent
  <2>1. y = x
    BY <1>2 DEF Finish
  <2>q. QED
    BY <2>1 DEF Absorbed
<1>3. ASSUME t.terminal = Absent PROVE Absorbed(x, y, r, id)
  <2> DEFINE spans == {t.tool[k] : k \in DOMAIN t.tool} \union UNION {ScopeSpans(t.node[n]) : n \in Nodes}
  <2>1. y = [z EXCEPT !.trace[r] =
                [Release(Ended(@, spans), Nodes) EXCEPT
                     !.tool = [k \in DOMAIN t.tool |-> None],
                     !.node = [n \in Nodes |-> NoScope],
                     !.terminal = status,
                     !.summary = "awaiting"]]
    BY <1>3 DEF Finish
  <2>2. /\ calls \in [Calls -> CallRecords]
        /\ \A c \in Calls : /\ calls[c].span = t.call[c].span
                            /\ calls[c].awaiting = t.call[c].awaiting
                            /\ calls[c].usage = t.call[c].usage
                            /\ t.call[c] # NoCall \/ calls[c] = t.call[c]
                            /\ calls[c].level = t.call[c].level \/ c \in unfinished
    <3>1. \A c \in Calls : /\ [t.call[c] EXCEPT !.level = "run"] \in CallRecords
                           /\ [t.call[c] EXCEPT !.level = "run"].span = t.call[c].span
                           /\ [t.call[c] EXCEPT !.level = "run"].awaiting = t.call[c].awaiting
                           /\ [t.call[c] EXCEPT !.level = "run"].usage = t.call[c].usage
      BY <1>1 DEF CallRecords
    <3>2. \A c \in Calls : \/ calls[c] = [t.call[c] EXCEPT !.level = "run"] /\ c \in unfinished
                           \/ calls[c] = t.call[c]
      OBVIOUS
    <3>3. \A c \in unfinished : t.call[c] # NoCall
      OBVIOUS
    <3>4. \A c \in Calls : calls[c] \in CallRecords
      <4> HIDE DEF calls, unfinished
      <4>q. QED
        BY <1>1, <3>1, <3>2
    <3>5. calls \in [Calls -> CallRecords]
      BY <3>4
    <3> HIDE DEF calls, unfinished
    <3>6. ASSUME NEW c \in Calls
          PROVE  /\ calls[c].span = t.call[c].span
                 /\ calls[c].awaiting = t.call[c].awaiting
                 /\ calls[c].usage = t.call[c].usage
                 /\ t.call[c] # NoCall \/ calls[c] = t.call[c]
                 /\ calls[c].level = t.call[c].level \/ c \in unfinished
      BY <3>1, <3>2, <3>3
    <3>q. QED
      BY <3>5, <3>6
  <2> HIDE DEF calls, y
  <2>3. marked \in Traces /\ Same(t, marked, {"call"}) /\ marked.call = calls
    BY <1>1, <2>2 DEF Traces, Same, Fields
  <2> HIDE DEF marked
  <2>4. Good(marked)
    BY <1>1, <2>2, <2>3, MarkKeeps
  <2>5. Replaced(x, r, marked, x1)
    BY DEF Replaced
  <2> HIDE DEF x1
  <2>6. /\ BooksOK(x1) /\ x1.trace[r] = marked /\ x1.lookups = x.lookups
        /\ \A s \in Runs : s # r => x1.trace[s] = x.trace[s] /\ Coupled(x1, s)
    BY <1>1, <2>4, <2>5, TraceChanges
  <2>7. S \in SUBSET (Runs \X Calls)
    BY <1>1
  <2>8. S = {r} \X {c \in unfinished : ~t.call[c].awaiting}
    OBVIOUS
  <2> HIDE DEF S
  <2>9. Completed(x1, z, S)
    BY <2>6, <2>7, CompleteAllKeeps
  <2> HIDE DEF z
  <2>10. BooksOK(z) /\ z \in Books /\ Good(z.trace[r]) /\ TraceProgress(marked, z.trace[r])
    BY <1>1, <2>6, <2>9 DEF Completed, BooksOK, Progress
  <2>11. /\ z.trace[r].tool = t.tool /\ z.trace[r].node = t.node /\ z.trace[r].terminal = Absent
         /\ z.trace[r].root # None
    BY <1>3, <2>3, <2>10 DEF TraceProgress, Same, Fields
  <2>12. y = [z EXCEPT !.trace[r] = u]
    BY <2>1, <2>11 DEF Emptied, OpenSpans
  <2>13. /\ Good(u) /\ u.call = z.trace[r].call /\ u.terminal = status
         /\ z.trace[r].ended \subseteq u.ended /\ Known(u) \subseteq Known(z.trace[r])
         /\ u.tool = [k \in Nodes \X Tools |-> None] /\ u.node = [n \in Nodes |-> NoScope]
         /\ u.held = {}
    BY <1>1, <2>10, <2>11, EmptiedKeeps
  <2> HIDE DEF u, unfinished
  <2>14. y.trace[r] = u /\ y.lookups = z.lookups /\ \A s \in Runs : s # r => y.trace[s] = z.trace[s]
    BY <1>1, <2>10, <2>12 DEF Books
  <2>15. BooksOK(y)
    <3>1. y \in Books
      BY <2>10, <2>12, <2>13 DEF Books, Good
    <3>q. QED
      BY <2>10, <2>13, <2>14, <3>1 DEF BooksOK
  <2>16. \A s \in Runs : \A c \in Calls : Billed(x1, s, c) => Billed(z, s, c)
    BY <2>9, BilledLasts DEF Completed
  <2>17. ASSUME NEW s \in Runs, s # r PROVE Coupled(y, s)
    <3>1. Coupled(x1, s) /\ TraceProgress(x1.trace[s], y.trace[s])
      BY <2>6, <2>9, <2>14, <2>17 DEF Completed, Progress
    <3>2. \A c \in Calls : Billed(x1, s, c) => Billed(y, s, c)
      BY <2>14, <2>16, <2>17 DEF Billed, Over, Pending
    <3>3. \A c \in Calls : y.trace[s].call[c] = x1.trace[s].call[c]
      BY <2>8, <2>9, <2>14, <2>17 DEF Completed
    <3>q. QED
      BY <3>1, <3>2, <3>3, CoupledLasts
  <2>18. ASSUME NEW c \in Calls
         PROVE  /\ u.call[c].usage => u.call[c].level # "run" /\ Billed(y, r, c)
                /\ u.call[c].awaiting \/ Billed(y, r, c)
    <3>1. Billed(x, r, c) => Billed(x1, r, c)
      BY <2>2, <2>3, <2>6 DEF Billed, Over, Pending, Same, Fields
    <3>2. Billed(z, r, c) => Billed(y, r, c)
      BY <2>13, <2>14 DEF Billed, Over, Pending
    <3>3. Billed(x, r, c) => Billed(y, r, c)
      BY <1>1, <2>16, <3>1, <3>2
    <3>4. /\ u.call[c].usage = t.call[c].usage /\ u.call[c].level = calls[c].level
          /\ calls[c].level = t.call[c].level \/ c \in unfinished
      BY <2>2, <2>3, <2>10, <2>13 DEF TraceProgress
    <3>5. c \in unfinished => t.call[c] # NoCall /\ ~Over(t, c) /\ ~Pending(x, r, c)
      BY DEF unfinished
    <3>6. c \notin unfinished => t.call[c] = NoCall \/ Over(t, c) \/ Pending(x, r, c)
      BY DEF unfinished
    <3>7. t.call[c] # NoCall => t.call[c].span # None
      <4>1. t.open \subseteq Obs /\ t.ended \subseteq Obs
        BY <1>1 DEF Traces
      <4>q. QED
        BY <1>1, <4>1, NoneIsNothing DEF Good, Handled, CallOK, Known
    <3>8. ASSUME u.call[c].usage PROVE u.call[c].level # "run" /\ Billed(y, r, c)
      <4>1. t.call[c].level # "run" /\ Billed(x, r, c)
        BY <1>1, <3>4, <3>8 DEF AllCoupled, Coupled
      <4>2. c \notin unfinished
        BY <3>5, <3>7, <4>1 DEF Billed
      <4>q. QED
        BY <3>3, <3>4, <4>1, <4>2
    <3>9. CASE c \notin unfinished
      <4>1. t.call[c] = NoCall => t.call[c].span = None
        BY DEF NoCall
      <4>2. Billed(x, r, c)
        BY <3>6, <3>9, <4>1 DEF Billed
      <4>q. QED
        BY <3>3, <3>8, <4>2
    <3>10. CASE c \in unfinished /\ t.call[c].awaiting
      <4>1. <<r, c>> \notin S
        BY <2>8, <3>10
      <4>2. z.trace[r].call[c] = calls[c]
        BY <1>1, <2>3, <2>6, <2>9, <4>1 DEF Completed
      <4>q. QED
        BY <2>2, <2>13, <3>8, <3>10, <4>2
    <3>11. CASE c \in unfinished /\ ~t.call[c].awaiting
      <4>1. <<r, c>> \in S
        BY <2>8, <3>11
      <4>2. Billed(z, r, c)
        BY <2>9, <4>1 DEF Completed
      <4>q. QED
        BY <3>2, <3>8, <4>2
    <3>q. QED
      BY <3>9, <3>10, <3>11
  <2>19. Coupled(y, r)
    <3>1. /\ \A k \in Nodes \X Tools : u.tool[k] = None
          /\ \A n \in Nodes : u.node[n] = NoScope
      BY <2>13
    <3>2. u.terminal # Absent
      BY <1>1, <2>13 DEF Absent
    <3>q. QED
      BY <2>13, <2>14, <2>18, <3>1, <3>2 DEF Coupled
  <2>20. \A s \in Runs : Known(y.trace[s]) \subseteq Known(x.trace[s])
    <3>1. \A s \in Runs : Known(z.trace[s]) \subseteq Known(x1.trace[s])
      BY <2>9 DEF Completed, Progress, TraceProgress, Known
    <3>2. \A s \in Runs : Known(x1.trace[s]) = Known(x.trace[s])
      BY <2>3, <2>6 DEF Known, Same, Fields
    <3>q. QED
      BY <2>13, <2>14, <3>1, <3>2
  <2>q. QED
    BY <2>15, <2>17, <2>19, <2>20 DEF Absorbed, AllCoupled
<1>q. QED
  BY <1>2, <1>3

\* _absorb and _handle: whatever a frame is read for, what it makes of the traces is good.
LEMMA AbsorbKeeps ==
    ASSUME NEW x, BooksOK(x), AllCoupled(x), NEW id \in Ids, Frame(id) \in Frames,
           \A role \in Roles : Observation(role, id) \notin Known(x.trace[id[1]])
    PROVE  Absorbed(x, Absorb(x, id), id[1], id)
<1> DEFINE r == id[1]
<1> DEFINE f == Frame(id)
<1> DEFINE t == OpenTrace(x.trace[r], id)
<1> DEFINE y == [x EXCEPT !.trace[r] = t]
<1> DEFINE With(new) == [x EXCEPT !.trace[r] = new]
<1> DEFINE z == Absorb(x, id)
<1>1. r \in Runs /\ First(x, r, id) /\ Observation("run", id) \notin Known(x.trace[r])
      /\ f.kind \in {"terminal", "node", "actor", "tool", "call", "token", "edge", "event"}
  BY DEF Ids, First, Roles, Frames
<1>2. z = CASE f.kind = "terminal" -> Finish(y, r, id)
            [] f.kind # "terminal" /\ t.terminal # Absent -> y
            [] OTHER -> CASE f.kind = "node"  -> With(HandleNode(t, id))
                          [] f.kind = "actor" -> With(HandleActor(t, id))
                          [] f.kind = "tool"  -> With(HandleTool(t, id))
                          [] f.kind = "call"  -> HandleCall(y, r, id)
                          [] f.kind = "token" -> HandleToken(y, r, id)
                          [] f.kind = "edge"  -> With(EnterNode(t, id))
                          [] f.kind = "event" -> With(Scope(t, id))
  BY DEF Absorb
<1>3. /\ BooksOK(y) /\ AllCoupled(y) /\ Good(t) /\ y.trace[r] = t /\ t.root # None
      /\ \A s \in Runs : Known(y.trace[s]) \subseteq Known(x.trace[s])
                             \union (IF s = r THEN {Observation("run", id)} ELSE {})
  BY <1>1, OpenTraceKeeps
<1>30. SUFFICES Absorbed(x, z, r, id)
  OBVIOUS
<1> HIDE DEF z, t
<1>4. \A new : With(new) = [y EXCEPT !.trace[r] = new]
  <2>1. x \in Books /\ y \in Books /\ y.trace = [x.trace EXCEPT ![r] = t] /\ y.lookups = x.lookups
    BY <1>3 DEF BooksOK, Books
  <2>2. TAKE new
  <2>3. [y.trace EXCEPT ![r] = new] = [x.trace EXCEPT ![r] = new]
    BY <2>1
  <2>40. x \in Books
    BY <2>1
  <2> HIDE DEF y
  <2>4. With(new) = [trace |-> [x.trace EXCEPT ![r] = new], lookups |-> x.lookups]
    BY <2>40 DEF Books
  <2>5. [y EXCEPT !.trace[r] = new] = [trace |-> [y.trace EXCEPT ![r] = new], lookups |-> y.lookups]
    BY <2>1 DEF Books
  <2>q. QED
    BY <2>1, <2>3, <2>4, <2>5
<1> HIDE DEF y, With
<1>5. First(y, r, id)
  BY <1>1, <1>3 DEF First, Observation, Roles
<1>6. FreshScope(t, id) /\ Observation("tool", id) \notin Known(t)
  BY <1>3, <1>5 DEF First, FreshScope, ScopeRoles, Roles
<1>7. ASSUME Absorbed(y, z, r, id) PROVE Absorbed(x, z, r, id)
  <2>1. Observation("run", id) \in New(id)
    BY DEF New, Roles
  <2>q. QED
    BY <1>3, <1>7, <2>1 DEF Absorbed
<1>8. CASE f.kind = "terminal"
  <2>1. z = Finish(y, r, id)
    BY <1>2, <1>8
  <2>q. QED
    BY <1>3, <1>5, <1>7, <1>8, <2>1, FinishKeeps
<1>9. CASE f.kind # "terminal" /\ t.terminal # Absent
  <2>1. z = y
    BY <1>2, <1>9
  <2>q. QED
    BY <1>3, <1>7, <2>1 DEF Absorbed
<1>10. CASE f.kind # "terminal" /\ t.terminal = Absent
  <2>1. ASSUME NEW u, Good(u), Follows(t, u, New(id)), z = With(u) PROVE Absorbed(y, z, r, id)
    BY <1>3, <1>4, <1>5, <1>10, <2>1, FollowsKeeps
  <2>2. CASE f.kind = "node"
    BY <1>2, <1>3, <1>6, <1>7, <1>10, <2>1, <2>2, HandleNodeKeeps
  <2>3. CASE f.kind = "actor"
    BY <1>2, <1>3, <1>6, <1>7, <1>10, <2>1, <2>3, HandleActorKeeps
  <2>4. CASE f.kind = "tool"
    BY <1>2, <1>3, <1>6, <1>7, <1>10, <2>1, <2>4, HandleToolKeeps
  <2>5. CASE f.kind = "call"
    BY <1>2, <1>3, <1>5, <1>7, <1>10, <2>5, HandleCallKeeps
  <2>6. CASE f.kind = "token"
    BY <1>2, <1>3, <1>5, <1>7, <1>10, <2>6, HandleTokenKeeps
  <2>7. CASE f.kind = "edge"
    <3>1. Good(EnterNode(t, id)) /\ Follows(t, EnterNode(t, id), {Observation("node", id)})
      BY <1>3, <1>6, <1>10, EnterNodeKeeps DEF FreshScope, ScopeRoles
    <3>2. Follows(t, EnterNode(t, id), New(id))
      BY <3>1 DEF Follows, New, Roles
    <3>q. QED
      BY <1>2, <1>7, <1>10, <2>1, <2>7, <3>1, <3>2
  <2>8. CASE f.kind = "event"
    BY <1>2, <1>3, <1>6, <1>7, <1>10, <2>1, <2>8, ScopeFollows
  <2>q. QED
    BY <1>1, <1>10, <2>2, <2>3, <2>4, <2>5, <2>6, <2>7, <2>8
<1>q. QED
  BY <1>8, <1>9, <1>10

-----------------------------------------------------------------------------

\* _settle ends the root of a run and closes the run out.
LEMMA SettleRunKeeps ==
    ASSUME NEW x, BooksOK(x), AllCoupled(x), NEW r \in Runs, NEW force, NEW due
    PROVE  LET t == x.trace[r]
               u == SettleRun(x, r, force, due)
           IN /\ Good(u) /\ Same(t, u, {"open", "ended", "summary"})
              /\ t.ended \subseteq u.ended /\ Known(u) \subseteq Known(t)
<1> DEFINE t == x.trace[r]
<1> DEFINE e == EndRoot(t)
<1> DEFINE last == IF force \/ \A c \in Calls : ~Pending(x, r, c) THEN "logged" ELSE e.summary
<1> DEFINE u == SettleRun(x, r, force, due)
<1>1. Good(t) /\ t \in Traces /\ t.again = {} /\ t.root \in Handles
  BY DEF BooksOK, Good, Once, Traces
<1>2. u = t \/ (t.summary = "awaiting" /\ ~Outstanding(t) /\ u = [e EXCEPT !.summary = last])
  BY DEF SettleRun
<1>3. CASE u = t
  BY <1>1, <1>3 DEF Same
<1>4. CASE t.summary = "awaiting" /\ ~Outstanding(t) /\ u = [e EXCEPT !.summary = last]
  <2>1. t.terminal # Absent /\ t.root # None /\ t.root \in Known(t) /\ t.root[1] = "run"
    BY <1>1, <1>4 DEF Good, Ending, Handled, Absent
  <2>2. /\ e \in Traces /\ Same(t, e, {"open", "ended"})
        /\ e.open = t.open \ {t.root} /\ e.ended = t.ended \union {t.root}
    <3>1. CASE t.root \in t.ended
      BY <1>1, <2>1, <3>1 DEF EndRoot, Same, Good, Once
    <3>2. CASE t.root \notin t.ended
      <4>1. e = Ended(t, {t.root})
        BY <2>1, <3>2 DEF EndRoot
      <4> HIDE DEF e
      <4>2. {t.root} \in SUBSET Handles
        BY <1>1
      <4>3. /\ e \in Traces /\ Same(t, e, {"open", "ended", "again"})
            /\ e.open = t.open \ {t.root} /\ e.ended = t.ended \union ({t.root} \ {None})
            /\ e.again = t.again \union (({t.root} \ {None}) \intersect t.ended)
        BY <1>1, <4>1, <4>2, EndedFields
      <4>4. e.again = t.again
        BY <1>1, <3>2, <4>3
      <4>q. QED
        BY <2>1, <4>3, <4>4 DEF Same, Fields
    <3>q. QED
      BY <3>1, <3>2
  <2> HIDE DEF e
  <2>3. last \in {"awaiting", "logged"}
    BY <1>4, <2>2 DEF Same, Fields
  <2> HIDE DEF last, u
  <2>4. u \in Traces /\ Same(e, u, {"summary"}) /\ u.summary = last
    BY <1>4, <2>2, <2>3 DEF Traces, Same, Fields
  <2>5. /\ u.root = t.root /\ u.terminal = t.terminal /\ u.node = t.node /\ u.tool = t.tool
        /\ u.call = t.call /\ u.held = t.held /\ u.again = t.again /\ u.lost = t.lost
        /\ u.open = t.open \ {t.root} /\ u.ended = t.ended \union {t.root}
    BY <2>2, <2>4 DEF Same, Fields
  <2>6. Same(t, u, {"open", "ended", "summary"})
    BY <2>2, <2>4 DEF Same
  <2>7. Known(u) = Known(t)
    BY <2>1, <2>5 DEF Known
  <2>8. Once(u)
    BY <1>1, <2>5 DEF Good, Once
  <2>9. Handled(u)
    <3>1. \A n \in Nodes : ScopeOK(u, n)
      BY <1>1, <2>1, <2>5 DEF Good, Handled, ScopeOK, Of
    <3>2. \A k \in Nodes \X Tools : ToolOK(u, k)
      BY <1>1, <2>1, <2>5 DEF Good, Handled, ToolOK, Of
    <3>3. \A h \in u.held : HeldOK(u, h)
      BY <1>1, <2>1, <2>5 DEF Good, Handled, HeldOK, Of
    <3>5. \A c \in Calls : CallOK(u, c)
      BY <1>1, <2>5, <2>7 DEF Good, Handled, CallOK
    <3>q. QED
      BY <2>1, <2>5, <2>7, <3>1, <3>2, <3>3, <3>5 DEF Handled
  <2>10. AllKept(u)
    <3>1. SUFFICES ASSUME NEW o \in u.open, o \notin u.lost PROVE Keeps(u, o)
      BY DEF AllKept
    <3>2. o \in t.open /\ o # t.root /\ o \notin u.ended
      BY <2>5, <2>8, <3>1 DEF Once
    <3>3. Keeps(t, o)
      BY <1>1, <2>5, <3>1, <3>2 DEF Good, AllKept
    <3>4. ASSUME NEW c \in Calls, o = t.call[c].span PROVE Keeps(u, o)
      BY <2>5, <3>2, <3>4 DEF Keeps, Over
    <3>q. QED
      BY <2>5, <3>2, <3>3, <3>4 DEF Keeps
  <2>11. Ending(u)
    <3>1. ~Outstanding(u)
      BY <1>4, <2>5 DEF Outstanding, Over
    <3>q. QED
      BY <2>1, <2>3, <2>4, <2>5, <3>1 DEF Ending, Absent
  <2>q. QED
    BY <2>4, <2>5, <2>6, <2>7, <2>8, <2>9, <2>10, <2>11 DEF Good, u
<1>q. QED
  BY <1>2, <1>3, <1>4

\* What _settle makes of x.
Outcome(x, force, due) ==
    LET z == SettleCalls(SettleLookups(x, force, due), force, due)
    IN [trace |-> [r \in Runs |-> SettleRun(z, r, force, due)], lookups |-> z.lookups]

\* _settle keeps traces and lookups good and coupled, and opens nothing.
LEMMA OutcomeKeeps ==
    ASSUME NEW x, BooksOK(x), AllCoupled(x), NEW force, NEW due
    PROVE  LET w == Outcome(x, force, due) IN
           /\ BooksOK(w) /\ AllCoupled(w)
           /\ \A r \in Runs : Known(w.trace[r]) \subseteq Known(x.trace[r])
<1> DEFINE y == SettleLookups(x, force, due)
<1> DEFINE S == {v \in Runs \X Calls :
                    LET t == y.trace[v[1]]
                    IN /\ t.call[v[2]].awaiting /\ ~Over(t, v[2])
                       /\ force \/ <<"usage", v[1], v[2]>> \in due}
<1> DEFINE z == SettleCalls(y, force, due)
<1> DEFINE w == Outcome(x, force, due)
<1>1. /\ BooksOK(y) /\ Progress(x, y)
      /\ \A r \in Runs : y.trace[r].call = x.trace[r].call
      /\ \A r \in Runs : \A c \in Calls : Billed(x, r, c) => Billed(y, r, c)
  BY SettleLookupsKeeps
<1>2. z = CompleteAll(y, S)
  BY DEF SettleCalls
<1>3. w = [trace |-> [r \in Runs |-> SettleRun(z, r, force, due)], lookups |-> z.lookups]
  BY DEF Outcome
<1>4. S \in SUBSET (Runs \X Calls)
  OBVIOUS
<1> HIDE DEF y, S, z, w
<1>5. AllCoupled(y)
  BY <1>1, CoupledLasts DEF AllCoupled, Progress
<1>6. BooksOK(z) /\ Progress(y, z) /\ AllCoupled(z)
  BY <1>1, <1>2, <1>4, <1>5, CompleteAllKeeps, CompleteAllCouples DEF Completed
<1>7. /\ w.lookups = z.lookups /\ w.lookups \in Seq(LookupRecords)
      /\ w.trace = [r \in Runs |-> SettleRun(z, r, force, due)]
  BY <1>3, <1>6 DEF BooksOK, Books
<1>8. ASSUME NEW r \in Runs
      PROVE  /\ Good(w.trace[r]) /\ Same(z.trace[r], w.trace[r], {"open", "ended", "summary"})
             /\ z.trace[r].ended \subseteq w.trace[r].ended
             /\ Known(w.trace[r]) \subseteq Known(z.trace[r])
  <2>1. w.trace[r] = SettleRun(z, r, force, due)
    BY <1>7
  <2>q. QED
    BY <1>6, <2>1, SettleRunKeeps
<1>9. BooksOK(w)
  <2>1. \A r \in Runs : w.trace[r] \in Traces
    BY <1>8 DEF Good
  <2>2. w.trace \in [Runs -> Traces]
    BY <1>7, <2>1
  <2>3. w = [trace |-> w.trace, lookups |-> w.lookups]
    BY <1>3
  <2>4. w \in Books
    BY <1>7, <2>2, <2>3 DEF Books
  <2>q. QED
    BY <1>8, <2>4 DEF BooksOK
<1>10. ASSUME NEW r \in Runs PROVE Coupled(w, r)
  <2>1. /\ w.trace[r].call = z.trace[r].call /\ w.trace[r].terminal = z.trace[r].terminal
        /\ w.trace[r].tool = z.trace[r].tool /\ w.trace[r].node = z.trace[r].node
        /\ w.trace[r].held = z.trace[r].held
    BY <1>8 DEF Same, Fields
  <2>2. \A c \in Calls : Billed(z, r, c) => Billed(w, r, c)
    BY <1>7, <1>8, <2>1 DEF Billed, Over, Pending
  <2>3. Coupled(z, r)
    BY <1>6 DEF AllCoupled
  <2>q. QED
    BY <2>1, <2>2, <2>3 DEF Coupled
<1>11. ASSUME NEW r \in Runs PROVE Known(w.trace[r]) \subseteq Known(x.trace[r])
  BY <1>1, <1>6, <1>8 DEF Progress, TraceProgress, Known
<1>q. QED
  BY <1>9, <1>10, <1>11 DEF AllCoupled, w

\* A settling has one outcome.
LEMMA SettleIsOutcome ==
    ASSUME NEW x, NEW force, NEW due, Settle(x, force, due)
    PROVE  Now' = Outcome(x, force, due)
  BY DEF Settle, Outcome, Now

-----------------------------------------------------------------------------

\* What is good reads the frames, which never change.
LEMMA GoodStays ==
    ASSUME NEW r, script' = script, Good(trace'[r])
    PROVE  Good(trace[r])'
  BY DEF Good, Handled, ScopeOK, ToolOK, HeldOK, CallOK, Of, Frame, Once, AllKept, Ending, Keeps,
         Known, Outstanding, Over

\* The same for all runs.
LEMMA BooksStay ==
    ASSUME script' = script, BooksOK(Now'), AllCoupled(Now')
    PROVE  BooksOK(Now)' /\ AllCoupled(Now)'
<1>1. Now'.trace = trace' /\ Now' \in Books /\ \A r \in Runs : Good(trace'[r])
  BY DEF Now, BooksOK
<1>2. \A r \in Runs : Good(trace[r])'
  BY <1>1, GoodStays
<1>3. BooksOK(Now)'
  BY <1>1, <1>2 DEF BooksOK, Books, Now
<1>4. AllCoupled(Now)'
  BY DEF AllCoupled, Coupled, Billed, Pending, Over
<1>q. QED
  BY <1>3, <1>4

-----------------------------------------------------------------------------
(* Where the frames are. *)

\* The frame id of a run was emitted.
Emitted(id) == id[2] \in DOMAIN script[id[1]] /\ id[3] \in 1..at[id[1]][id[2]]

\* A branch has emitted some of its frames.
Scripted ==
    /\ script \in Scripts
    /\ at = [r \in Runs |-> at[r]]
    /\ \A r \in Runs : at[r] \in [DOMAIN script[r] -> Nat]
    /\ \A r \in Runs : \A b \in DOMAIN script[r] : at[r][b] <= Len(script[r][b])

\* A thread in the hook of r holds a frame of r.
Busy(r) == hook[r].at # "idle"

\* A hook holds a frame of its run, and puts back what is no frame.
Hooked ==
    /\ hook = [r \in Runs |-> hook[r]]
    /\ \A r \in Runs : Busy(r) =>
          /\ hook[r].frame \in Ids /\ hook[r].frame[1] = r
          /\ hook[r].at = "restore" => hook[r].item \in {Marker, Shutdown}

\* What the queue holds.
Items == {Item(id) : id \in Ids} \union {Marker, Shutdown}
\* A frame is in the queue.
Queued(id) == \E i \in DOMAIN queue : queue[i] = Item(id)

\* A frame is in the queue once, or in the hook.
InOnePlace ==
    /\ queue \in Seq(Items)
    /\ \A i, j \in DOMAIN queue : queue[i].kind = "frames" /\ queue[i] = queue[j] => i = j
    /\ \A r \in Runs : Busy(r) => ~Queued(hook[r].frame)

\* The frame is still to be exported.
Ahead(id) == Queued(id) \/ \E r \in Runs : Busy(r) /\ hook[r].frame = id

\* What is exported was emitted, and is not exported again.
AheadEmitted == \A id \in Ids : Ahead(id) => Emitted(id)
\* A frame that was emitted and taken from the queue, or lost: only such a frame is known.
Past(r, id) == id[1] = r /\ Emitted(id) /\ ~Ahead(id)
\* What was opened was opened by a past frame.
Behind == \A r \in Runs : \A o \in Known(trace[r]) : Past(r, o[2])

\* The inductive invariant.
TraceInv ==
    /\ Scripted /\ Hooked /\ InOnePlace /\ AheadEmitted /\ Behind
    /\ BooksOK(Now) /\ AllCoupled(Now)

\* The kinds of items differ, and an item tells its frame.
LEMMA ItemsDiffer ==
    /\ \A id \in Ids : Item(id).kind = "frames" /\ Item(id).frame = id
    /\ \A id1, id2 \in Ids : Item(id1) = Item(id2) => id1 = id2
    /\ Marker.kind = "flush" /\ Shutdown.kind = "shutdown"
    /\ \A e \in Items : e.kind = "frames" => e.frame \in Ids /\ e = Item(e.frame)
    /\ \A e \in Items : e.kind # "frames" => e \in {Marker, Shutdown}
    /\ \A id \in Ids : Item(id) \notin {Marker, Shutdown}
<1>1. \A id : Item(id).kind = "frames" /\ Item(id).frame = id
  BY DEF Item
<1>2. Marker.kind = "flush" /\ Shutdown.kind = "shutdown"
  BY DEF Marker, Shutdown
<1>q. QED
  BY <1>1, <1>2 DEF Items

\* A frame that was emitted is one of the script.
LEMMA EmittedIsFrame ==
    ASSUME Scripted, NEW id \in Ids, Emitted(id)
    PROVE  Frame(id) \in Frames
<1>1. script \in [Runs -> Seq(Seq(Frames))] /\ id[1] \in Runs
  BY TraceAssumption DEF Scripted, Ids
<1>2. script[id[1]] \in Seq(Seq(Frames))
  BY <1>1
<1>3. script[id[1]][id[2]] \in Seq(Frames)
  BY <1>2 DEF Emitted
<1>4. id[3] \in 1..Len(script[id[1]][id[2]])
  BY <1>1, <1>3 DEF Scripted, Emitted
<1>q. QED
  BY <1>3, <1>4 DEF Frame

\* What a step that emits nothing does to where frames are: fewer are ahead, those behind
\* are the ones that left the queue.
Shrinks ==
    /\ script' = script /\ at' = at
    /\ \A id \in Ids : Ahead(id)' => Ahead(id)

\* When fewer frames are ahead and nothing is opened, what is known stays past.
LEMMA ShrinksKeeps ==
    ASSUME TraceInv, Shrinks, \A r \in Runs : Known(trace'[r]) \subseteq Known(trace[r])
    PROVE  Scripted' /\ AheadEmitted' /\ Behind'
<1>1. Scripted'
  BY DEF TraceInv, Scripted, Shrinks
<1>2. AheadEmitted'
  BY DEF TraceInv, AheadEmitted, Shrinks, Emitted
<1>3. ASSUME NEW r \in Runs, NEW o \in Known(trace'[r]) PROVE Past(r, o[2])'
  <2>1. o \in Known(trace[r]) /\ o[2] \in Ids
    BY <1>3 DEF TraceInv, BooksOK, Books, Now, Good, Traces, Known, Obs
  <2>q. QED
    BY <2>1 DEF TraceInv, Behind, Past, Shrinks, Emitted
<1>4. Behind'
  BY <1>3 DEF Behind, Known
<1>q. QED
  BY <1>1, <1>2, <1>4

\* The hooks keep their frames, or let them go.
HooksShrink == \A s \in Runs : Busy(s)' => Busy(s) /\ hook'[s].frame = hook[s].frame

\* What is left of the queue, place by place.
LEMMA TailItems ==
    ASSUME InOnePlace, queue # <<>>
    PROVE  /\ Tail(queue) \in Seq(Items) /\ Head(queue) = queue[1] /\ 1 \in DOMAIN queue
           /\ Head(queue) \in Items
           /\ \A i \in DOMAIN Tail(queue) : /\ i \in Nat /\ i + 1 \in DOMAIN queue
                                            /\ Tail(queue)[i] = queue[i + 1]
<1>1. queue \in Seq(Items)
  BY DEF InOnePlace
<1>q. QED
  BY <1>1

\* An item is taken from the queue: it is queued no more.
LEMMA TakeKeeps ==
    ASSUME InOnePlace, HooksShrink, queue # <<>>, queue' = Tail(queue)
    PROVE  /\ InOnePlace' /\ \A id : Queued(id)' => Queued(id)
           /\ \A id \in Ids : Head(queue) = Item(id) => ~Queued(id)'
<1>1. /\ queue' \in Seq(Items) /\ Head(queue) = queue[1] /\ 1 \in DOMAIN queue
      /\ \A i \in DOMAIN queue' : /\ i \in Nat /\ i + 1 \in DOMAIN queue
                                  /\ queue'[i] = queue[i + 1]
  BY TailItems
<1>2. \A id : Queued(id)' => Queued(id)
  BY <1>1 DEF Queued
<1>3. ASSUME NEW i \in DOMAIN queue', NEW j \in DOMAIN queue', queue'[i].kind = "frames",
             queue'[i] = queue'[j]
      PROVE  i = j
  <2>1. i + 1 = j + 1 /\ i \in Nat /\ j \in Nat
    BY <1>1, <1>3 DEF InOnePlace
  <2>q. QED
    BY <2>1
<1>4. ASSUME NEW id \in Ids, Head(queue) = Item(id), Queued(id)' PROVE FALSE
  <2>1. PICK i \in DOMAIN queue' : queue'[i] = Item(id)
    BY <1>4 DEF Queued
  <2>2. queue[i + 1] = queue[1] /\ queue[1].kind = "frames" /\ i + 1 \in DOMAIN queue /\ i \in Nat
    BY <1>1, <1>4, <2>1, ItemsDiffer
  <2>3. i + 1 = 1
    BY <1>1, <2>2 DEF InOnePlace
  <2>4. i \in 1..Len(queue')
    BY <1>1
  <2>q. QED
    BY <2>3, <2>4
<1>5. \A r \in Runs : Busy(r)' => ~(Queued(hook[r].frame))'
  BY <1>2 DEF InOnePlace, HooksShrink, Queued
<1>q. QED
  BY <1>1, <1>2, <1>3, <1>4, <1>5 DEF InOnePlace

\* What an Append leaves in the queue, place by place.
LEMMA AppendItems ==
    ASSUME InOnePlace, NEW e \in Items
    PROVE  /\ Append(queue, e) \in Seq(Items)
           /\ \A i \in DOMAIN Append(queue, e) :
                 \/ i \in DOMAIN queue /\ Append(queue, e)[i] = queue[i]
                 \/ i = Len(queue) + 1 /\ Append(queue, e)[i] = e
  BY DEF InOnePlace

\* A marker or the sentinel is put into the queue.
LEMMA MarkKeepsPlaces ==
    ASSUME InOnePlace, Hooked, HooksShrink, NEW e \in {Marker, Shutdown}, queue' = Append(queue, e)
    PROVE  InOnePlace' /\ \A id \in Ids : Queued(id)' => Queued(id)
<1>1. e \in Items /\ e.kind # "frames"
  BY ItemsDiffer DEF Items
<1>2. /\ queue' \in Seq(Items)
      /\ \A i \in DOMAIN queue' : \/ i \in DOMAIN queue /\ queue'[i] = queue[i]
                                  \/ i = Len(queue) + 1 /\ queue'[i] = e
  BY <1>1, AppendItems
<1>3. \A id \in Ids : Queued(id)' => Queued(id)
  BY <1>2, ItemsDiffer DEF Queued
<1>4. \A i, j \in DOMAIN queue' : queue'[i].kind = "frames" /\ queue'[i] = queue'[j] => i = j
  BY <1>1, <1>2 DEF InOnePlace
<1>5. \A r \in Runs : Busy(r)' => ~(Queued(hook[r].frame))'
  <2>1. TAKE r \in Runs
  <2>2. HAVE Busy(r)'
  <2>3. Busy(r) /\ hook'[r].frame = hook[r].frame /\ hook[r].frame \in Ids /\ ~Queued(hook[r].frame)
    BY <2>2 DEF HooksShrink, Hooked, InOnePlace
  <2>4. ~(\E i \in DOMAIN queue' : queue'[i] = Item(hook[r].frame))
    BY <1>3, <2>3 DEF Queued
  <2>q. QED
    BY <2>3, <2>4 DEF Queued
<1>q. QED
  BY <1>2, <1>3, <1>4, <1>5 DEF InOnePlace

\* The queue stays.
LEMMA StayKeeps ==
    ASSUME InOnePlace, HooksShrink, queue' = queue
    PROVE  InOnePlace' /\ \A id : Queued(id)' => Queued(id)
  BY DEF InOnePlace, HooksShrink, Queued

\* The frame of a hook goes to the end of the queue.
LEMMA PutKeeps ==
    ASSUME InOnePlace, Hooked, HooksShrink, NEW r \in Runs, Busy(r), ~Busy(r)',
           queue' = Append(queue, Item(hook[r].frame))
    PROVE  InOnePlace' /\ \A id \in Ids : Queued(id)' => Queued(id) \/ id = hook[r].frame
<1> DEFINE e == Item(hook[r].frame)
<1>1. e \in Items /\ hook[r].frame \in Ids /\ e.kind = "frames" /\ ~Queued(hook[r].frame)
  BY ItemsDiffer DEF Items, Hooked, InOnePlace
<1>2. /\ queue' \in Seq(Items)
      /\ \A i \in DOMAIN queue' : \/ i \in DOMAIN queue /\ queue'[i] = queue[i]
                                  \/ i = Len(queue) + 1 /\ queue'[i] = e
  BY <1>1, AppendItems
<1>3. \A id \in Ids : Queued(id)' => Queued(id) \/ id = hook[r].frame
  BY <1>1, <1>2, ItemsDiffer DEF Queued
<1>4. \A i, j \in DOMAIN queue' : queue'[i].kind = "frames" /\ queue'[i] = queue'[j] => i = j
  <2>1. \A i \in DOMAIN queue : queue[i] # e
    BY <1>1 DEF Queued
  <2> HIDE DEF e
  <2>q. QED
    BY <1>2, <2>1 DEF InOnePlace
<1>5. \A s \in Runs : Busy(s)' => ~(Queued(hook[s].frame))'
  <2>1. TAKE s \in Runs
  <2>2. HAVE Busy(s)'
  <2>3. /\ Busy(s) /\ hook'[s].frame = hook[s].frame /\ hook[s].frame \in Ids
        /\ ~Queued(hook[s].frame) /\ s # r
    BY <2>2 DEF HooksShrink, Hooked, InOnePlace
  <2>4. hook[s].frame # hook[r].frame
    BY <2>3 DEF Hooked
  <2>5. ~(\E i \in DOMAIN queue' : queue'[i] = Item(hook[s].frame))
    BY <1>1, <1>3, <2>3, <2>4 DEF Queued
  <2>q. QED
    BY <2>3, <2>5 DEF Queued
<1>q. QED
  BY <1>2, <1>3, <1>4, <1>5 DEF InOnePlace

-----------------------------------------------------------------------------
(* The steps. *)

\* A step that exports nothing leaves the traces.
LEMMA TracesStay ==
    ASSUME TraceInv, Shrinks, Hooked', InOnePlace', UNCHANGED <<trace, lookups>>
    PROVE  TraceInv'
<1>1. \A r \in Runs : Known(trace'[r]) \subseteq Known(trace[r])
  OBVIOUS
<1>2. Scripted' /\ AheadEmitted' /\ Behind'
  BY <1>1, ShrinksKeeps
<1>3. Now' = Now
  BY DEF Now
<1>4. BooksOK(Now)' /\ AllCoupled(Now)'
  BY <1>3, BooksStay DEF TraceInv, Shrinks
<1>q. QED
  BY <1>2, <1>4 DEF TraceInv

\* What a hook holds is a frame of its run, wherever the hook has got to.
LEMMA HookMoves ==
    ASSUME Hooked, NEW r \in Runs, NEW h, hook' = [hook EXCEPT ![r] = h],
           h.at # "idle" => Busy(r) /\ h.frame = hook[r].frame,
           h.at = "restore" => h.item \in {Marker, Shutdown}
    PROVE  /\ Hooked' /\ HooksShrink /\ hook'[r] = h
           /\ \A s \in Runs \ {r} : hook'[s] = hook[s]
<1>1. hook'[r] = h /\ \A s \in Runs \ {r} : hook'[s] = hook[s]
  BY DEF Hooked
<1>2. hook' = [s \in Runs |-> hook'[s]]
  BY DEF Hooked
<1>q. QED
  BY <1>1, <1>2 DEF Hooked, HooksShrink, Busy

\* The hooks stay.
LEMMA HooksStay ==
    ASSUME Hooked, UNCHANGED hook
    PROVE  Hooked' /\ HooksShrink
  BY DEF Hooked, HooksShrink, Busy

\* Fewer are queued and fewer are in hooks: fewer are ahead.
LEMMA FewerAhead ==
    ASSUME HooksShrink, UNCHANGED <<script, at>>, \A id \in Ids : Queued(id)' => Ahead(id)
    PROVE  Shrinks
  BY DEF HooksShrink, Shrinks, Ahead

\* Put keeps the invariant.
LEMMA PutStep ==
    ASSUME TraceInv, NEW r \in Runs, Put(r)
    PROVE  TraceInv'
<1>1. hook[r].at = "put" /\ Busy(r) /\ UNCHANGED <<script, at, trace, lookups>>
  BY DEF Put, Busy, exporting
<1>2. CASE queue' = Append(queue, Item(hook[r].frame)) /\ hook' = [hook EXCEPT ![r] = IdleHook]
  <2>1. Hooked' /\ HooksShrink /\ hook'[r] = IdleHook
    BY <1>2, HookMoves DEF TraceInv, IdleHook
  <2>2. ~Busy(r)'
    BY <2>1 DEF Busy, IdleHook
  <2>3. InOnePlace' /\ \A id \in Ids : Queued(id)' => Queued(id) \/ id = hook[r].frame
    BY <1>1, <1>2, <2>1, <2>2, PutKeeps DEF TraceInv
  <2>4. Shrinks
    BY <1>1, <2>1, <2>3, FewerAhead DEF Ahead
  <2>q. QED
    BY <1>1, <2>1, <2>3, <2>4, TracesStay
<1>3. CASE /\ UNCHANGED queue
           /\ hook' = [hook EXCEPT ![r] = [at |-> "search", frame |-> hook[r].frame, looked |-> 0]]
  <2>1. Hooked' /\ HooksShrink
    BY <1>1, <1>3, HookMoves DEF TraceInv
  <2>2. InOnePlace' /\ \A id : Queued(id)' => Queued(id)
    BY <1>3, <2>1, StayKeeps DEF TraceInv
  <2>3. Shrinks
    BY <1>1, <2>1, <2>2, FewerAhead DEF Ahead
  <2>q. QED
    BY <1>1, <2>1, <2>2, <2>3, TracesStay
<1>q. QED
  BY <1>2, <1>3 DEF Put

\* Search keeps the invariant.
LEMMA SearchStep ==
    ASSUME TraceInv, NEW r \in Runs, Search(r)
    PROVE  TraceInv'
<1>1. hook[r].at = "search" /\ Busy(r) /\ UNCHANGED <<script, at, trace, lookups>>
  BY DEF Search, Busy, exporting
<1>2. ASSUME Hooked', HooksShrink, queue' = queue \/ (queue # <<>> /\ queue' = Tail(queue))
      PROVE  TraceInv'
  <2>1. InOnePlace' /\ \A id : Queued(id)' => Queued(id)
    BY <1>2, StayKeeps, TakeKeeps DEF TraceInv
  <2>2. Shrinks
    BY <1>1, <1>2, <2>1, FewerAhead DEF Ahead
  <2>q. QED
    BY <1>1, <1>2, <2>1, <2>2, TracesStay
<1>3. CASE hook' = [hook EXCEPT ![r] = [at |-> "retry", frame |-> hook[r].frame]]
  <2>1. Hooked' /\ HooksShrink
    BY <1>1, <1>3, HookMoves DEF TraceInv
  <2>q. QED
    BY <1>2, <2>1 DEF Search
<1>4. CASE /\ queue # <<>> /\ Head(queue).kind # "frames"
           /\ hook' = [hook EXCEPT ![r] =
                         [at |-> "restore", frame |-> hook[r].frame,
                          looked |-> hook[r].looked, item |-> Head(queue)]]
  <2>1. Head(queue) \in {Marker, Shutdown}
    BY <1>4, TailItems, ItemsDiffer DEF TraceInv
  <2>2. Hooked' /\ HooksShrink
    BY <1>1, <1>4, <2>1, HookMoves DEF TraceInv
  <2>q. QED
    BY <1>2, <2>2 DEF Search
<1>q. QED
  BY <1>3, <1>4 DEF Search

\* Restore keeps the invariant.
LEMMA RestoreStep ==
    ASSUME TraceInv, NEW r \in Runs, Restore(r)
    PROVE  TraceInv'
<1>1. hook[r].at = "restore" /\ Busy(r) /\ UNCHANGED <<script, at, trace, lookups>>
  BY DEF Restore, Busy, exporting
<1>2. hook[r].item \in {Marker, Shutdown}
  BY <1>1 DEF TraceInv, Hooked
<1>3. Hooked' /\ HooksShrink
  BY <1>1, HookMoves DEF TraceInv, Restore
<1>4. InOnePlace' /\ \A id \in Ids : Queued(id)' => Queued(id)
  <2>1. CASE queue' = queue
    BY <1>3, <2>1, StayKeeps DEF TraceInv
  <2>2. CASE queue' = Append(queue, hook[r].item)
    BY <1>2, <1>3, <2>2, MarkKeepsPlaces DEF TraceInv
  <2>q. QED
    BY <2>1, <2>2 DEF Restore
<1>5. Shrinks
  BY <1>1, <1>3, <1>4, FewerAhead DEF Ahead
<1>q. QED
  BY <1>1, <1>3, <1>4, <1>5, TracesStay

\* Retry keeps the invariant.
LEMMA RetryStep ==
    ASSUME TraceInv, NEW r \in Runs, Retry(r)
    PROVE  TraceInv'
<1>1. Busy(r) /\ UNCHANGED <<script, at, trace, lookups>> /\ hook' = [hook EXCEPT ![r] = IdleHook]
  BY DEF Retry, Busy, exporting
<1>2. Hooked' /\ HooksShrink /\ hook'[r] = IdleHook
  BY <1>1, HookMoves DEF TraceInv, IdleHook
<1>3. ~Busy(r)'
  BY <1>2 DEF Busy, IdleHook
<1>4. InOnePlace' /\ \A id \in Ids : Queued(id)' => Ahead(id)
  <2>1. CASE queue' = queue
    BY <1>2, <2>1, StayKeeps DEF TraceInv, Ahead
  <2>2. CASE queue' = Append(queue, Item(hook[r].frame))
    BY <1>1, <1>2, <1>3, <2>2, PutKeeps DEF TraceInv, Ahead
  <2>q. QED
    BY <2>1, <2>2 DEF Retry
<1>5. Shrinks
  BY <1>1, <1>2, <1>4, FewerAhead
<1>q. QED
  BY <1>1, <1>2, <1>4, <1>5, TracesStay

\* A frame that is captured is a new one.
LEMMA CaptureStep ==
    ASSUME TraceInv, NEW r \in Runs, NEW b \in DOMAIN script[r], Capture(r, b)
    PROVE  TraceInv'
<1>0. PICK id : id = <<r, b, at[r][b] + 1>>
  OBVIOUS
<1> DEFINE h == [at |-> "put", frame |-> id]
<1>1. /\ ~Busy(r) /\ at[r][b] < Len(script[r][b]) /\ at' = [at EXCEPT ![r][b] = @ + 1]
      /\ hook' = [hook EXCEPT ![r] = [at |-> "put", frame |-> <<r, b, at'[r][b]>>]]
      /\ UNCHANGED <<script, queue, trace, lookups>>
  BY DEF Capture, Busy, IdleHook, exporting
<1>2. /\ at[r] \in [DOMAIN script[r] -> Nat] /\ at = [s \in Runs |-> at[s]]
      /\ script \in [Runs -> Seq(Seq(Frames))]
  BY TraceAssumption DEF TraceInv, Scripted
<1>3. b \in Nat /\ Len(script[r][b]) \in Nat
  BY <1>2
<1>4. /\ at'[r] = [at[r] EXCEPT ![b] = @ + 1] /\ at'[r][b] = at[r][b] + 1
      /\ \A s \in Runs \ {r} : at'[s] = at[s] 
      /\ at' = [s \in Runs |-> at'[s]]
  BY <1>1, <1>2
<1>5. at'[r] \in [DOMAIN script[r] -> Nat] /\ \A c \in DOMAIN script[r] : c # b => at'[r][c] = at[r][c]
  BY <1>2, <1>4
<1>6. id \in Ids /\ id[1] = r /\ id[2] = b /\ id[3] = at[r][b] + 1 /\ at[r][b] \in Nat
  BY <1>0, <1>2, <1>3 DEF Ids
<1>7. ~Emitted(id) /\ Emitted(id)'
  BY <1>1, <1>4, <1>6 DEF Emitted
<1>8. Scripted'
  <2>1. \A s \in Runs : at'[s] \in [DOMAIN script[s] -> Nat]
    BY <1>4, <1>5 DEF TraceInv, Scripted
  <2>2. \A s \in Runs : \A c \in DOMAIN script[s] : at'[s][c] <= Len(script[s][c])
    BY <1>1, <1>2, <1>3, <1>4, <1>5 DEF TraceInv, Scripted
  <2>q. QED
    BY <1>1, <1>4, <2>1, <2>2 DEF TraceInv, Scripted
<1>9. \A j \in Ids : Emitted(j) => Emitted(j)'
  <2>1. TAKE j \in Ids
  <2>2. HAVE Emitted(j)
  <2>3. j[1] \in Runs
    BY DEF Ids
  <2>4. CASE j[1] = r /\ j[2] = b
    BY <1>1, <1>2, <1>4, <2>2, <2>4 DEF Emitted
  <2>5. CASE ~(j[1] = r /\ j[2] = b)
    BY <1>1, <1>4, <1>5, <2>2, <2>3, <2>5 DEF Emitted
  <2>q. QED
    BY <2>4, <2>5
<1>10. h.at = "put" /\ h.frame = id
  OBVIOUS
<1>101. hook' = [hook EXCEPT ![r] = h]
  BY <1>0, <1>1, <1>4
<1> HIDE DEF h
<1>11. /\ hook'[r] = h /\ \A s \in Runs \ {r} : hook'[s] = hook[s]
       /\ hook' = [s \in Runs |-> hook'[s]]
  BY <1>101 DEF TraceInv, Hooked
<1>12. Hooked'
  BY <1>6, <1>10, <1>11 DEF TraceInv, Hooked, Busy
<1>13. ~Ahead(id) /\ ~Queued(id)
  BY <1>6, <1>7 DEF TraceInv, AheadEmitted, Ahead
<1>14. InOnePlace'
  <2>1. \A s \in Runs : Busy(s)' => ~(Queued(hook[s].frame))'
    <3>1. TAKE s \in Runs
    <3>2. HAVE Busy(s)'
    <3>3. CASE s = r
      BY <1>1, <1>10, <1>11, <1>13, <3>3 DEF Queued
    <3>4. CASE s # r
      BY <1>1, <1>11, <3>2, <3>4 DEF TraceInv, InOnePlace, Busy, Queued
    <3>q. QED
      BY <3>3, <3>4
  <2>q. QED
    BY <1>1, <2>1 DEF TraceInv, InOnePlace
<1>15. \A j \in Ids : Ahead(j)' => Ahead(j) \/ j = id
  BY <1>1, <1>10, <1>11 DEF Ahead, Queued, Busy
<1>16. AheadEmitted'
  BY <1>7, <1>9, <1>15 DEF TraceInv, AheadEmitted
<1>17. ASSUME NEW s \in Runs, NEW o \in Known(trace[s]) PROVE Past(s, o[2])'
  <2>1. o[2] \in Ids
    BY <1>17 DEF TraceInv, BooksOK, Books, Now, Good, Traces, Known, Obs
  <2>2. o[2][1] = s /\ Emitted(o[2]) /\ ~Ahead(o[2]) /\ o[2] # id
    BY <1>7, <1>17 DEF TraceInv, Behind, Past
  <2>q. QED
    BY <1>9, <1>15, <2>1, <2>2 DEF Past
<1>18. Behind'
  BY <1>1, <1>17 DEF Behind, Known
<1>19. BooksOK(Now)' /\ AllCoupled(Now)'
  <2>1. Now' = Now
    BY <1>1 DEF Now
  <2>q. QED
    BY <1>1, <2>1, BooksStay DEF TraceInv
<1>q. QED
  BY <1>8, <1>12, <1>14, <1>16, <1>18, <1>19 DEF TraceInv

\* The head of the queue is exported: what it opens is behind.
LEMMA ExportFramesStep ==
    ASSUME TraceInv, NEW due, ExportFrames(due)
    PROVE  TraceInv'
<1>0. PICK id : id = Head(queue).frame
  OBVIOUS
<1> DEFINE x == Absorb(Now, id)
<1>1. /\ queue # <<>> /\ Head(queue).kind = "frames" /\ queue' = Tail(queue)
      /\ Settle(x, FALSE, due) /\ UNCHANGED <<script, at, hook>>
  BY <1>0 DEF ExportFrames, capturing
<1>2. id \in Ids /\ Head(queue) = Item(id)
  BY <1>0, <1>1, TailItems, ItemsDiffer DEF TraceInv
<1>3. Queued(id) /\ Ahead(id) /\ Emitted(id) /\ id[1] \in Runs
  BY <1>1, <1>2, TailItems DEF TraceInv, AheadEmitted, Queued, Ahead, Ids
<1>4. Frame(id) \in Frames
  BY <1>2, <1>3, EmittedIsFrame DEF TraceInv
<1>5. \A role \in Roles : Observation(role, id) \notin Known(trace[id[1]])
  <2>1. ASSUME NEW role \in Roles, Observation(role, id) \in Known(trace[id[1]]) PROVE FALSE
    <3>1. Observation(role, id)[2] = id
      BY DEF Observation
    <3>q. QED
      BY <1>3, <2>1, <3>1 DEF TraceInv, Behind, Past
  <2>q. QED
    BY <2>1
<1>6. BooksOK(Now) /\ AllCoupled(Now) /\ Now.trace = trace
  BY DEF TraceInv, Now
<1>7. Absorbed(Now, x, id[1], id)
  BY <1>2, <1>4, <1>5, <1>6, AbsorbKeeps
<1> HIDE DEF x
<1>8. Now' = Outcome(x, FALSE, due)
  BY <1>1, SettleIsOutcome
<1>9. /\ BooksOK(Now') /\ AllCoupled(Now')
      /\ \A r \in Runs : Known(Now'.trace[r]) \subseteq Known(x.trace[r])
  BY <1>7, <1>8, OutcomeKeeps DEF Absorbed
<1>10. \A r \in Runs : Known(trace'[r]) \subseteq
                         Known(trace[r]) \union (IF r = id[1] THEN New(id) ELSE {})
  <2>1. Now'.trace = trace'
    BY DEF Now
  <2>q. QED
    BY <1>6, <1>7, <1>9, <2>1 DEF Absorbed
<1>11. BooksOK(Now)' /\ AllCoupled(Now)'
  BY <1>1, <1>9, BooksStay
<1>12. Hooked' /\ HooksShrink
  BY <1>1, HooksStay DEF TraceInv
<1>13. InOnePlace' /\ (\A j : Queued(j)' => Queued(j)) /\ ~Queued(id)'
  BY <1>1, <1>2, <1>12, TakeKeeps DEF TraceInv
<1>14. ~Ahead(id)'
  <2>1. \A r \in Runs : Busy(r) => hook[r].frame # id
    BY <1>3 DEF TraceInv, InOnePlace
  <2>q. QED
    BY <1>1, <1>13, <2>1 DEF Ahead, Busy, Queued
<1>15. Shrinks
  BY <1>1, <1>12, <1>13, FewerAhead DEF Ahead
<1>16. Scripted'
  BY <1>15 DEF TraceInv, Scripted, Shrinks
<1>17. AheadEmitted'
  BY <1>15 DEF TraceInv, AheadEmitted, Shrinks, Emitted
<1>18. ASSUME NEW r \in Runs, NEW o \in Known(trace'[r]) PROVE Past(r, o[2])'
  <2>1. CASE o \in Known(trace[r])
    <3>1. o[2] \in Ids
      BY <2>1 DEF TraceInv, BooksOK, Books, Now, Good, Traces, Known, Obs
    <3>q. QED
      BY <1>15, <2>1, <3>1 DEF TraceInv, Behind, Past, Shrinks, Emitted
  <2>2. CASE r = id[1] /\ o \in New(id)
    <3>1. o[2] = id
      BY <2>2 DEF New, Observation
    <3>q. QED
      BY <1>1, <1>3, <1>14, <2>2, <3>1 DEF Past, Emitted
  <2>q. QED
    BY <1>10, <1>18, <2>1, <2>2
<1>19. Behind'
  BY <1>18 DEF Behind, Known
<1>q. QED
  BY <1>11, <1>12, <1>13, <1>16, <1>17, <1>19 DEF TraceInv

\* The export thread settles without a frame.
LEMMA SettleStep ==
    ASSUME TraceInv, NEW force, NEW due, Settle(Now, force, due), Shrinks, Hooked', InOnePlace'
    PROVE  TraceInv'
<1>1. Now' = Outcome(Now, force, due)
  BY SettleIsOutcome
<1>2. /\ BooksOK(Now') /\ AllCoupled(Now')
      /\ \A r \in Runs : Known(Now'.trace[r]) \subseteq Known(Now.trace[r])
  BY <1>1, OutcomeKeeps DEF TraceInv
<1>3. Now.trace = trace /\ Now'.trace = trace'
  BY DEF Now
<1>4. BooksOK(Now)' /\ AllCoupled(Now)'
  BY <1>2, BooksStay DEF Shrinks
<1>5. Scripted' /\ AheadEmitted' /\ Behind'
  BY <1>2, <1>3, ShrinksKeeps
<1>q. QED
  BY <1>4, <1>5 DEF TraceInv

\* ExportIdle keeps the invariant.
LEMMA ExportIdleStep ==
    ASSUME TraceInv, NEW due, ExportIdle(due)
    PROVE  TraceInv'
<1>1. Settle(Now, FALSE, due) /\ UNCHANGED <<script, at, hook, queue>>
  BY DEF ExportIdle, capturing
<1>2. Hooked' /\ HooksShrink
  BY <1>1, HooksStay DEF TraceInv
<1>3. InOnePlace' /\ \A id : Queued(id)' => Queued(id)
  BY <1>1, <1>2, StayKeeps DEF TraceInv
<1>4. Shrinks
  BY <1>1, <1>2, <1>3, FewerAhead DEF Ahead
<1>q. QED
  BY <1>1, <1>2, <1>3, <1>4, SettleStep

\* ExportFlush keeps the invariant.
LEMMA ExportFlushStep ==
    ASSUME TraceInv, ExportFlush
    PROVE  TraceInv'
<1>1. Settle(Now, TRUE, {}) /\ UNCHANGED <<script, at, hook>> /\ queue # <<>> /\ queue' = Tail(queue)
  BY DEF ExportFlush, capturing
<1>2. Hooked' /\ HooksShrink
  BY <1>1, HooksStay DEF TraceInv
<1>3. InOnePlace' /\ \A id : Queued(id)' => Queued(id)
  BY <1>1, <1>2, TakeKeeps DEF TraceInv
<1>4. Shrinks
  BY <1>1, <1>2, <1>3, FewerAhead DEF Ahead
<1>q. QED
  BY <1>1, <1>2, <1>3, <1>4, SettleStep

\* ExportStop keeps the invariant.
LEMMA ExportStopStep ==
    ASSUME TraceInv, ExportStop
    PROVE  TraceInv'
<1>1. Settle(Now, TRUE, {}) /\ UNCHANGED <<script, at, hook>> /\ queue' = <<>>
  BY DEF ExportStop, capturing
<1>2. Hooked' /\ HooksShrink
  BY <1>1, HooksStay DEF TraceInv
<1>3. InOnePlace' /\ \A id : ~Queued(id)'
  BY <1>1, <1>2 DEF InOnePlace, Queued
<1>4. Shrinks
  BY <1>1, <1>2, <1>3, FewerAhead
<1>q. QED
  BY <1>1, <1>2, <1>3, <1>4, SettleStep

\* A lookup comes back: it goes on waiting.
LEMMA AnswerStep ==
    ASSUME TraceInv, NEW i \in DOMAIN lookups, Answer(i)
    PROVE  TraceInv'
<1>1. PICK a \in {"empty", "billed"} : lookups' = [lookups EXCEPT ![i].answer = a]
  BY DEF Answer
<1>2. UNCHANGED <<script, at, hook, queue, trace>>
  BY DEF Answer, capturing
<1> DEFINE p == [lookups[i] EXCEPT !.answer = a]
<1>3. lookups \in Seq(LookupRecords) /\ lookups[i] \in LookupRecords /\ Now \in Books
  BY DEF TraceInv, BooksOK, Books, Now
<1>4. p \in LookupRecords /\ p.run = lookups[i].run /\ p.call = lookups[i].call
  BY <1>3 DEF LookupRecords
<1>5. lookups' = [lookups EXCEPT ![i] = p]
  BY <1>1
<1> HIDE DEF p
<1>6. /\ lookups' \in Seq(LookupRecords) /\ DOMAIN lookups' = DOMAIN lookups
      /\ \A j \in DOMAIN lookups : lookups'[j] = IF j = i THEN p ELSE lookups[j]
  BY <1>3, <1>4, <1>5
<1>7. \A r \in Runs : \A c \in Calls : Pending(Now, r, c) => Pending(Now', r, c)
  <2>1. Now.lookups = lookups /\ Now'.lookups = lookups'
    BY DEF Now
  <2>2. TAKE r \in Runs
  <2>3. TAKE c \in Calls
  <2>4. HAVE Pending(Now, r, c)
  <2>5. PICK j \in DOMAIN lookups : lookups[j].run = r /\ lookups[j].call = c
    BY <2>1, <2>4 DEF Pending, ToSet
  <2>6. lookups'[j].run = r /\ lookups'[j].call = c /\ lookups'[j] \in ToSet(lookups')
    BY <1>4, <1>6, <2>5 DEF ToSet
  <2>q. QED
    BY <2>1, <2>6 DEF Pending
<1>8. Now'.trace = trace /\ Now.trace = trace /\ Now' \in Books
  BY <1>2, <1>3, <1>6 DEF Now, Books
<1>9. BooksOK(Now')
  BY <1>8 DEF TraceInv, BooksOK
<1>10. AllCoupled(Now')
  BY <1>7, <1>8 DEF TraceInv, AllCoupled, Coupled, Billed
<1>11. BooksOK(Now)' /\ AllCoupled(Now)'
  BY <1>2, <1>9, <1>10, BooksStay
<1>12. Hooked' /\ HooksShrink
  BY <1>2, HooksStay DEF TraceInv
<1>13. InOnePlace' /\ \A id : Queued(id)' => Queued(id)
  BY <1>2, <1>12, StayKeeps DEF TraceInv
<1>14. Shrinks
  BY <1>2, <1>12, <1>13, FewerAhead DEF Ahead
<1>15. Scripted' /\ AheadEmitted' /\ Behind'
  BY <1>2, <1>14, ShrinksKeeps
<1>q. QED
  BY <1>11, <1>12, <1>13, <1>15 DEF TraceInv

\* The steps of close: at most the queue changes.
LEMMA CloserStep ==
    ASSUME TraceInv, UNCHANGED <<script, at, hook, trace, lookups>>,
           \/ queue' = queue
           \/ queue # <<>> /\ queue' = Tail(queue)
           \/ \E e \in {Marker, Shutdown} : queue' = Append(queue, e)
    PROVE  TraceInv'
<1>1. Hooked' /\ HooksShrink
  BY HooksStay DEF TraceInv
<1>2. InOnePlace' /\ \A id \in Ids : Queued(id)' => Queued(id)
  <2>1. CASE queue' = queue
    BY <1>1, <2>1, StayKeeps DEF TraceInv
  <2>2. CASE queue # <<>> /\ queue' = Tail(queue)
    BY <1>1, <2>2, TakeKeeps DEF TraceInv
  <2>3. ASSUME NEW e \in {Marker, Shutdown}, queue' = Append(queue, e)
        PROVE  InOnePlace' /\ \A id \in Ids : Queued(id)' => Queued(id)
    BY <1>1, <2>3, MarkKeepsPlaces DEF TraceInv
  <2>q. QED
    BY <2>1, <2>2, <2>3
<1>3. Shrinks
  BY <1>1, <1>2, FewerAhead DEF Ahead
<1>q. QED
  BY <1>1, <1>2, <1>3, TracesStay

\* The invariant holds at first.
LEMMA TraceInvInit == Init => TraceInv
<1>1. SUFFICES ASSUME Init PROVE TraceInv
  OBVIOUS
<1>2. script \in [Runs -> Seq(Seq(Frames))] /\ script \in Scripts
  BY <1>1, TraceAssumption DEF Init
<1>3. /\ at = [r \in Runs |-> [b \in DOMAIN script[r] |-> 0]] /\ hook = [r \in Runs |-> IdleHook]
      /\ queue = <<>> /\ trace = [r \in Runs |-> NewTrace] /\ lookups = <<>>
  BY <1>1 DEF Init
<1>4. Scripted
  <2>1. \A r \in Runs : at[r] \in [DOMAIN script[r] -> Nat]
    BY <1>3
  <2>2. \A r \in Runs : \A b \in DOMAIN script[r] : Len(script[r][b]) \in Nat /\ at[r][b] = 0
    BY <1>2, <1>3
  <2>q. QED
    BY <1>2, <1>3, <2>1, <2>2 DEF Scripted
<1>5. \A r \in Runs : ~Busy(r)
  BY <1>3 DEF Busy, IdleHook
<1>6. Hooked
  BY <1>3, <1>5 DEF Hooked
<1>7. InOnePlace /\ \A id : ~Queued(id)
  BY <1>3, <1>5 DEF InOnePlace, Queued
<1>8. AheadEmitted
  BY <1>5, <1>7 DEF AheadEmitted, Ahead
<1>9. /\ NewTrace \in Traces /\ NewTrace.open = {} /\ NewTrace.ended = {} /\ NewTrace.again = {}
      /\ NewTrace.terminal = Absent /\ NewTrace.summary = Absent /\ NewTrace.root = None
      /\ NewTrace.held = {} /\ \A c \in Calls : NewTrace.call[c] = NoCall
      /\ \A k \in Nodes \X Tools : NewTrace.tool[k] = None
      /\ \A n \in Nodes : NewTrace.node[n] = NoScope
  <2>1. NoScope \in Scopes /\ NoCall \in CallRecords /\ None \in Handles
    BY DEF NoScope, Scopes, NoCall, CallRecords, Handles
  <2>q. QED
    BY <2>1 DEF NewTrace, Traces
<1>10. Good(NewTrace)
  <2>1. Handled(NewTrace)
    BY <1>9 DEF Handled, ScopeOK, ToolOK, HeldOK, CallOK, NoScope
  <2>q. QED
    BY <1>9, <2>1 DEF Good, Once, AllKept, Ending, Absent
<1>11. Behind
  BY <1>3, <1>9 DEF Behind, Known
<1>12. Now \in Books /\ Now.trace = trace
  <2>1. trace \in [Runs -> Traces] /\ lookups \in Seq(LookupRecords)
    BY <1>3, <1>9
  <2>q. QED
    BY <2>1 DEF Books, Now
<1>13. BooksOK(Now)
  BY <1>3, <1>10, <1>12 DEF BooksOK
<1>14. AllCoupled(Now)
  BY <1>3, <1>9, <1>12 DEF AllCoupled, Coupled, NoCall
<1>q. QED
  BY <1>4, <1>6, <1>7, <1>8, <1>11, <1>13, <1>14 DEF TraceInv

\* Every step keeps the invariant.
LEMMA TraceInvNext == TraceInv /\ [Next]_vars => TraceInv'
<1>1. SUFFICES ASSUME TraceInv, [Next]_vars PROVE TraceInv'
  OBVIOUS
<1>2. CASE UNCHANGED vars
  BY <1>1, <1>2, CloserStep DEF vars, capturing, exporting
<1>3. ASSUME NEW r \in Runs, NEW b \in DOMAIN script[r], Capture(r, b) PROVE TraceInv'
  BY <1>1, <1>3, CaptureStep
<1>4. ASSUME NEW r \in Runs, Hook(r) PROVE TraceInv'
  BY <1>1, <1>4, PutStep, SearchStep, RestoreStep, RetryStep DEF Hook
<1>5. ASSUME NEW due \in SUBSET Begun, Exporting(due) PROVE TraceInv'
  BY <1>1, <1>5, ExportFramesStep, ExportIdleStep DEF Exporting
<1>6. CASE ExportFlush \/ ExportStop
  BY <1>1, <1>6, ExportFlushStep, ExportStopStep
<1>7. ASSUME NEW i \in DOMAIN lookups, Answer(i) PROVE TraceInv'
  BY <1>1, <1>7, AnswerStep
<1>8. CASE Close \/ FlushWait \/ Join
  BY <1>1, <1>8, CloserStep DEF Close, FlushWait, Join, capturing, exporting
<1>9. CASE FlushPut
  BY <1>1, <1>9, CloserStep DEF FlushPut, capturing, exporting
<1>10. CASE EnqueueShutdown
  BY <1>1, <1>10, CloserStep DEF EnqueueShutdown, capturing, exporting
<1>11. CASE Discard
  BY <1>1, <1>11, CloserStep DEF Discard, capturing, exporting
<1>q. QED
  BY <1>1, <1>2, <1>3, <1>4, <1>5, <1>6, <1>7, <1>8, <1>9, <1>10, <1>11 DEF Next

\* The invariant holds always.
LEMMA TraceInvAlways == Spec => []TraceInv
  BY TraceInvInit, TraceInvNext, PTL DEF Spec

\* What keeps an observation is what the property says keeps it.
LEMMA KeepsIsKept ==
    ASSUME NEW t \in Traces, NEW o \in Obs, Keeps(t, o)
    PROVE  o \in Kept(t)
<1>1. o # None /\ DOMAIN t.tool = Nodes \X Tools
  BY NoneIsNothing DEF Traces
<1>2. CASE (t.terminal = Absent \/ t.summary = "awaiting") /\ o = t.root
  BY <1>1, <1>2 DEF Kept
<1>3. CASE \E k \in Nodes \X Tools : o = t.tool[k]
  BY <1>1, <1>3 DEF Kept
<1>4. CASE \E n \in Nodes : o \in ScopeSpans(t.node[n])
  BY <1>1, <1>4 DEF Kept
<1> DEFINE Roots == IF t.terminal = Absent \/ t.summary = "awaiting" THEN {t.root} ELSE {}
           Used == {t.tool[k] : k \in DOMAIN t.tool}
           Inside == UNION {ScopeSpans(t.node[n]) : n \in Nodes}
           Held == {h[2] : h \in t.held}
           Going == {t.call[c].span : c \in {d \in Calls : ~Over(t, d)}}
<1>x. Kept(t) = (Roots \union Used \union Inside \union Held \union Going) \ {None}
  BY DEF Kept
<1>5. CASE \E h \in t.held : o = h[2]
  <2>1. o \in Held
    BY <1>5
  <2> HIDE DEF Roots, Used, Inside, Held, Going
  <2>q. QED
    BY <1>1, <1>x, <2>1
<1>6. CASE \E c \in Calls : ~Over(t, c) /\ o = t.call[c].span
  <2>1. PICK c \in {d \in Calls : ~Over(t, d)} : o = t.call[c].span
    BY <1>6
  <2>2. o \in Going
    BY <2>1
  <2> HIDE DEF Roots, Used, Inside, Held, Going
  <2>q. QED
    BY <1>1, <1>x, <2>2
<1> HIDE DEF Roots, Used, Inside, Held, Going
<1>q. QED
  BY <1>2, <1>3, <1>4, <1>5, <1>6 DEF Keeps

\* EndedOnce follows from the invariant.
LEMMA InvGivesEndedOnce == TraceInv => EndedOnce
<1>1. SUFFICES ASSUME TraceInv, NEW r \in Runs PROVE
         LET t == trace[r] IN
           /\ t.again = {}
           /\ t.open \ t.lost \subseteq Kept(t)
           /\ t.terminal # Absent =>
                 \A o \in t.open \ (t.lost \union {t.root}) :
                     \E c \in Calls : /\ t.call[c].span = o
                                      /\ t.call[c].awaiting \/ Pending(Now, r, c)
           /\ t.summary = "logged" => t.root \in t.ended /\ ~Outstanding(t)
  BY DEF EndedOnce
<1> DEFINE t == trace[r]
<1>2. Good(t) /\ Coupled(Now, r) /\ t = Now.trace[r] /\ t \in Traces
  BY <1>1 DEF TraceInv, BooksOK, AllCoupled, Now, Good
<1> HIDE DEF t
<1>3. t.again = {} /\ t.open \subseteq Obs /\ t.open \intersect t.ended = {}
  BY <1>2 DEF Good, Once, Traces
<1>4. t.open \ t.lost \subseteq Kept(t)
  BY <1>2, <1>3, KeepsIsKept DEF Good, AllKept
<1>5. ASSUME t.terminal # Absent, NEW o \in t.open \ (t.lost \union {t.root})
      PROVE  \E c \in Calls : t.call[c].span = o /\ (t.call[c].awaiting \/ Pending(Now, r, c))
  <2>1. Keeps(t, o) /\ o # None
    BY <1>2, <1>3, <1>5, NoneIsNothing DEF Good, AllKept
  <2>2. /\ \A k \in Nodes \X Tools : t.tool[k] = None
        /\ \A n \in Nodes : t.node[n] = NoScope
        /\ t.held = {}
        /\ \A c \in Calls : t.call[c].awaiting \/ Billed(Now, r, c)
    BY <1>2, <1>5 DEF Coupled
  <2>3. \A n \in Nodes : o \notin ScopeSpans(t.node[n])
    BY <2>1, <2>2 DEF ScopeSpans, NoScope
  <2>4. PICK c \in Calls : ~Over(t, c) /\ o = t.call[c].span
    BY <1>5, <2>1, <2>2, <2>3 DEF Keeps
  <2>q. QED
    BY <1>2, <2>1, <2>2, <2>4 DEF Billed
<1>6. t.summary = "logged" => t.root \in t.ended /\ ~Outstanding(t)
  BY <1>2 DEF Good, Ending
<1>q. QED
  BY <1>3, <1>4, <1>5, <1>6 DEF t

\* No observation is ended twice, what is open can be reached by what has to end it, a run
\* that has ended keeps only calls open that wait, and a run that is closed out has an ended
\* root: whatever the frames, the order of the branches, the capacity of the queue and the
\* bounds of the lookups (_finish_run, _settle, _release_deferred, _displace).
THEOREM ObservationsEndOnce == Spec => []EndedOnce
  BY TraceInvAlways, InvGivesEndedOnce, PTL

\* OwnLevel follows from the invariant.
LEMMA InvGivesOwnLevel == TraceInv => OwnLevel
  BY DEF TraceInv, AllCoupled, Coupled, OwnLevel, Now

\* A call whose tokens arrived never takes over the failure of its run, though it is still
\* open when the run ends (_finish_run).
THEOREM CallsKeepTheirLevel == Spec => []OwnLevel
  BY TraceInvAlways, InvGivesOwnLevel, PTL
====
