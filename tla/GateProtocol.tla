---------------------------- MODULE GateProtocol ----------------------------
(***************************************************************************)
(* What a run promises about its human gates, with no threads, records or  *)
(* rows: the gates of a run form a chain.  A gate is opened once, answered *)
(* at most once at a time, a reply is consumed by at most one resume, a    *)
(* reply nobody consumed may be taken back (the gate is open again), and   *)
(* the next gate opens only after the reply to the one before it was       *)
(* consumed.  RunRegistry implements this specification.                   *)
(***************************************************************************)
EXTENDS Naturals

CONSTANT NGates      \* how many gates the flow may open, one after another

Gates == 1..NGates

\* "cancelled" and "restart" are the outcomes the service itself writes when it
\* closes a gate; "reply" is an operator's outcome.
Answers == {"reply", "cancelled", "restart"}

VARIABLES
    gate,            \* gate[g]: "none", "open", or the outcome it was answered with
    starts           \* starts[g]: how many resumes were queued for gate g's reply

vars == <<gate, starts>>

TypeOK ==
    /\ gate \in [Gates -> {"none", "open"} \union Answers]
    /\ starts \in [Gates -> Nat]

Init ==
    /\ gate = [g \in Gates |-> "none"]
    /\ starts = [g \in Gates |-> 0]

Consumed(g) == gate[g] = "reply" /\ starts[g] = 1

Open(g) ==
    /\ gate[g] = "none"
    /\ \A h \in Gates : h < g => Consumed(h)
    /\ gate' = [gate EXCEPT ![g] = "open"]
    /\ UNCHANGED starts

Answer(g) ==
    /\ gate[g] = "open"
    /\ \E outcome \in Answers : gate' = [gate EXCEPT ![g] = outcome]
    /\ UNCHANGED starts

\* A reply whose resume could not be started is rolled back to an open gate.
Rollback(g) ==
    /\ gate[g] = "reply"
    /\ starts[g] = 0
    /\ \A h \in Gates : h > g => gate[h] = "none"
    /\ gate' = [gate EXCEPT ![g] = "open"]
    /\ UNCHANGED starts

Resume(g) ==
    /\ gate[g] = "reply"
    /\ starts[g] = 0
    /\ starts' = [starts EXCEPT ![g] = 1]
    /\ UNCHANGED gate

Next == \E g \in Gates : Open(g) \/ Answer(g) \/ Rollback(g) \/ Resume(g)

Spec == Init /\ [][Next]_vars
=============================================================================
