----------------------------- MODULE FrameLogInv -----------------------------
(***************************************************************************)
(* The inductive invariant of FrameLog.  A fresh number moves from a       *)
(* handler's hand to the queue, the batch and its row, or is counted.      *)
(* Numbers keep their order on the way, and rows stay below what has not   *)
(* been written: that is why a row's predecessors have rows.               *)
(***************************************************************************)
EXTENDS FrameLog

\* Every number of S is below every number of T.
Below(S, T) == \A m \in S, n \in T : m < n

\* A queue holds the numbers of r in their order.
Ordered(q, r) ==
    \A i, j \in 1..Len(q) :
        (i < j /\ q[i].run = r /\ q[j].run = r) => Below(q[i].numbers, q[j].numbers)

\* The batch of r is still to be written.
Unwritten(r) == writer \notin {"write", "flush", "shutdown"} \/ r \in todo

\* The numbers that have neither a row nor been given up.
OnTheWay(r) == batch[r] \union QueuedIn(queue, r) \union hand[r]

\* Numbers are fresh on their way, and are handed on in their order.
WayInv(r) ==
    /\ OnTheWay(r) \subseteq Fresh(r)
    /\ Below(batch[r], QueuedIn(queue, r))
    /\ Below(batch[r] \union QueuedIn(queue, r), hand[r])
    /\ Ordered(queue, r)

\* The ring has a frame for every fresh number, and has not given out more numbers
\* than frames were captured.
RingInv(r) ==
    /\ restored[r] < next[r]
    /\ next[r] <= captured[r] + 1
    /\ \A n \in Fresh(r) : issued[r][n] # 0

\* Rows lie below what is still to be written, and agree with the ring.
RowInv(r) ==
    Aligned(r) =>
        /\ \A n \in Rows(r) : n < next[r] /\ row[r][n] = issued[r][n]
        /\ Below(Rows(r), QueuedIn(queue, r) \union hand[r])
        /\ Unwritten(r) => Below(Rows(r), batch[r])

\* A fresh number is on its way or stranded, has its row, or its run counted a loss.
SettledInv(r) ==
    (Aligned(r) /\ r \notin lossy) =>
        /\ \A n \in Fresh(r) : n \in OnTheWay(r) \/ row[r][n] = issued[r][n]
        /\ ~Unwritten(r) => \A n \in batch[r] : row[r][n] = issued[r][n]

\* Rows never outnumber the captured frames; a dead process holds nothing.
DownInv ==
    /\ \A r \in Runs : Rows(r) \subseteq 1..captured[r]
    /\ ~up => /\ queue = <<>> /\ hand = None /\ batch = None
              /\ todo = {} /\ published = {}

\* The inductive invariant.
LogInv ==
    /\ TypeOK
    /\ DownInv
    /\ up => \A r \in Runs : WayInv(r) /\ RingInv(r) /\ RowInv(r) /\ SettledInv(r)

=============================================================================
