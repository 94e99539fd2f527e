---------------------------- MODULE RunRegistryInv ----------------------------
(***************************************************************************)
(* The inductive invariant behind the safety of RunRegistry.  It says that *)
(* the continuation of the run is a token: it passes from the launch to    *)
(* task 0, from a task to the gate it opens, from the gate to the reply    *)
(* that is accepted, and from the reply to its resume or back to the gate. *)
(***************************************************************************)
EXTENDS RunRegistry

\* A thread in a call or an execution has the run's record in hand.
RefInv == \A t \in Threads : pc[t] \notin Quiet => ref[t] # 0

\* The stages that work on a gate know which.
GateStages ==
    AnswerStages \union {"anchor", "open", "pend", "announce", "sweep_load", "adopt"}
\* A thread at a gate works on a gate.
TargetInv == \A t \in Threads : pc[t] \in GateStages => target[t] \in Gates

\* The stages of a thread that brings a reply.
ReplyStages == {"accepted", "settle", "submit", "reopen"}
\* The stages of a thread that opens a gate.
PauseStages == {"anchor", "open"}
\* The stages of a thread that runs the flow.
FlowStages ==
    {"launch", "queued", "save_start", "write_start", "boundary", "step"}

\* A gate that was answered and whose reply was used once.
Consumed(g) == gate[g] = "reply" /\ starts[g] = 1

\* Gate g is the last one the flow reached, and the replies before it are spent.
Front(g) ==
    /\ \A h \in Gates : h < g => Consumed(h)
    /\ \A h \in Gates : h > g => gate[h] = "none"

\* Gates are opened in order.
InOrder == \A g, h \in Gates : h < g /\ gate[h] = "none" => gate[g] = "none"

\* Only the latest gate of a run is open.
OpenFront == \A g \in Gates : gate[g] = "open" => Front(g)

\* A reply in flight is the answer of the last gate, and nobody consumed it.
ReplyFront ==
    \A t \in Threads : pc[t] \in ReplyStages =>
        Front(target[t]) /\ gate[target[t]] = "reply" /\ starts[target[t]] = 0

\* A task that is about to open a gate opens a new one, ...
PauseFront ==
    \A t \in Threads : pc[t] \in PauseStages =>
        Front(target[t]) /\ gate[target[t]] = "none"

\* ... and a flow that executes has consumed every reply so far.
FlowInv ==
    \A t \in Threads : pc[t] \in FlowStages =>
        \A g \in Gates : gate[g] = "none" \/ Consumed(g)

\* The pending feedback is there before the gate opens, and for as long as the
\* reply may still be rolled back.
AnchorKept ==
    \A t \in Threads : pc[t] \in ReplyStages \union {"open"} => anchor = target[t]

\* Where the token of a run is.
TokenInv ==
    /\ ReplyConsumedOnce
    /\ OneContinuation
    /\ InOrder
    /\ OpenFront
    /\ ReplyFront
    /\ PauseFront
    /\ FlowInv
    /\ AnchorKept
    /\ OpenGateAnchored

\* The inductive invariant.
IInv ==
    /\ TypeOK
    /\ RefInv
    /\ TargetInv
    /\ TokenInv

\* While nothing failed, an accepted reply without a resume is in somebody's hands.
ReplyHeld ==
    used["crash"] = 0 /\ used["fault"] = 0 =>
        \A g \in Gates : gate[g] = "reply" /\ starts[g] = 0 =>
            \E c \in Callers : pc[c] \in ReplyStages /\ target[c] = g

\* A live task is the one in the table of futures, unless a sweep dropped it from there;
\* the task that carries the run on was the last to be put there.
FutureInv ==
    /\ \A k \in Tasks : Live(k) => k = future \/ k \in forgotten
    /\ \A k \in Tasks : Holding(k) => future \in {k, NoTask}
    /\ pc[Http] = "launch" => \A k \in Tasks : ~Live(k)
=============================================================================
