--------------------------- MODULE MCTraceExport ---------------------------
(***************************************************************************)
(* Values for TLC: the frames of five runs.  Each run sends its terminal   *)
(* frame from another branch, so it may come at any place among the others.*)
(***************************************************************************)
EXTENDS TraceExport

F(kind, stage, task, agent, of) ==
    [kind |-> kind, stage |-> stage, node |-> "n", task |-> task, agent |-> agent, of |-> of,
     bad |-> FALSE, named |-> FALSE]
Bad(f) == [f EXCEPT !.bad = TRUE]
End(status) == << F("terminal", status, Absent, Absent, Absent) >>

\* A call that answers, and the node ends without its tokens.
ACall ==
    << F("call", "before", "t", "a", "c"),
       F("call", "after", "t", "a", "c"),
       F("node", "end", Absent, Absent, Absent) >>
\* A tool called twice, then a call that fails.
ATool ==
    << F("tool", "before", "t", "a", "tool"),
       F("tool", "after", "t", "a", "tool"),
       F("tool", "before", "t", "a", "tool"),
       F("call", "error", "t", "a", "c") >>
\* A step that fails: an error without a class is held until the node ends.
AFailure ==
    << F("edge", Absent, Absent, Absent, Absent),
       F("node", "start", Absent, Absent, Absent),
       Bad(F("actor", "after", "t", "a", Absent)),
       Bad(F("actor", "after", "t", Absent, Absent)),
       F("node", "end", Absent, Absent, Absent),
       F("event", Absent, Absent, Absent, Absent) >>
\* Agents before tasks, a second task, a second visit, a gate.
ACrew ==
    << F("actor", "before", Absent, "a", Absent),
       F("actor", "before", "t", "a", Absent),
       F("actor", "before", "u", "a", Absent),
       F("node", "start", Absent, Absent, Absent),
       F("node", "start", "t", "a", Absent),
       F("node", "pause", "t", "a", Absent) >>

\* Two calls that want a price, where one lookup is allowed.
ACap ==
    << F("call", "after", "t", "a", "c"),
       F("call", "after", "t", "a", "d"),
       F("token", Absent, "t", "a", "d") >>

One(frames, status) == [r \in Runs |-> << frames, End(status) >>]
MCScripts ==
    { One(ACall, "failed"), One(ATool, "completed"), One(AFailure, "cancelled"),
      One(ACrew, "completed"), One(ACap, "failed") }
=============================================================================
