------------------------------ MODULE FrameLog ------------------------------
(***************************************************************************)
(* The frames of a run, from the event handler that captures one to the    *)
(* row that keeps it (events/buffer.py, events/adapter.py, the frame       *)
(* writer of service/registry.py, run_frames in service/persistence.py).   *)
(*                                                                         *)
(*   - Handlers capture frames.  The ring numbers them; subscribers and    *)
(*     then the writer's bounded queue get them.  The adapter's capture    *)
(*     lock is held throughout, so the frames of one run pass one group    *)
(*     at a time, while readers see the ring in between.                   *)
(*   - The writer thread collects groups of all runs into a batch, and     *)
(*     appends it to the database with one transaction for each run.       *)
(*   - Closing the registry flushes the writer and sends it a shutdown     *)
(*     marker, waiting for both only so long.                              *)
(*                                                                         *)
(* A frame is known by its place among all frames ever captured for its    *)
(* run: frame 3 of a run is frame 3 whatever number it is given.  The      *)
(* number is what the ring assigns, and what rows and clients are keyed    *)
(* by.  A new process numbers the rows it finds from 1 again.              *)
(***************************************************************************)
EXTENDS Naturals, Sequences, FiniteSets

CONSTANTS
    Runs,          \* the runs of the service
    RingCapacity,  \* FrameBuffer.capacity
    QueueCapacity, \* VALIDATOR_PERSIST_QUEUE_CAPACITY
    BatchSize,     \* VALIDATOR_FRAME_BATCH_SIZE
    MaxFrames,     \* bound: frames captured for one run
    MaxGroup,      \* bound: frames one event gives
    MaxFaults,     \* bound: transactions that raise
    MaxEnds,       \* bound: ends of the process
    MayClose       \* bound: is RunRegistry.close called

ASSUME FrameBounds ==
    /\ {RingCapacity, QueueCapacity, BatchSize, MaxGroup} \subseteq Nat \ {0}
    /\ {MaxFrames, MaxFaults, MaxEnds} \subseteq Nat
    /\ MayClose \in BOOLEAN

\* The markers of the queue are told apart from runs.
ASSUME MarkersAssumption == {"flush", "shutdown"} \intersect Runs = {}

Numbers == 1..MaxFrames
Frames == 1..MaxFrames

VARIABLES
    (* the database *)
    row,        \* run_frames: row[r][n] is the frame stored under n, or 0
    (* the process *)
    up,         \* is the process running
    captured,   \* frames captured for a run so far, over all processes
    next,       \* FrameBuffer._next_seq
    issued,     \* the frame the ring numbered n, evicted ones included, or 0
    restored,   \* how many of these came from the rows, when the record was restored
    lossy,      \* runs whose emit_errors was raised by this process
    hand,       \* the numbers a handler holds under the capture lock
    published,  \* runs whose held frames have reached the subscribers
    queue,      \* the writer's queue
    batch,      \* the numbers the writer has taken and not yet written
    todo,       \* runs of the batch whose transaction is still to come
    writer,     \* what the writer thread is doing
    closing,    \* how far RunRegistry.close is
    (* the bounds *)
    faults, ends

memory == <<next, issued, restored, lossy, hand, published, queue, batch, todo,
            writer, closing>>
vars == <<row, up, captured, memory, faults, ends>>

None == [r \in Runs |-> {}]
Item(r, ns) == [run |-> r, numbers |-> ns]
Marker(m) == [run |-> m, numbers |-> {}]
Items == [run : Runs, numbers : SUBSET Numbers]
         \union {Marker("flush"), Marker("shutdown")}

WriterStages == {"get", "write", "flush", "shutdown", "drain", "gone"}
ClosingStages == {"open", "flushing", "pill", "join", "closed"}

TypeOK ==
    /\ row \in [Runs -> [Numbers -> Frames \union {0}]]
    /\ up \in BOOLEAN
    /\ captured \in [Runs -> 0..MaxFrames]
    /\ next \in [Runs -> 1..(MaxFrames + 1)]
    /\ issued \in [Runs -> [Numbers -> Frames \union {0}]]
    /\ restored \in [Runs -> 0..MaxFrames]
    /\ lossy \in SUBSET Runs
    /\ hand \in [Runs -> SUBSET Numbers]
    /\ published \in SUBSET Runs
    /\ queue \in Seq(Items)
    /\ batch \in [Runs -> SUBSET Numbers]
    /\ todo \in SUBSET Runs
    /\ writer \in WriterStages
    /\ closing \in ClosingStages
    /\ faults \in 0..MaxFaults
    /\ ends \in 0..MaxEnds

\* The numbers that are in the ring.
Ring(r) == {n \in Numbers : n < next[r] /\ next[r] <= n + RingCapacity}

\* The numbers that have a row.
Rows(r) == {n \in Numbers : row[r][n] # 0}

Init ==
    /\ row = [r \in Runs |-> [n \in Numbers |-> 0]]
    /\ up = TRUE
    /\ captured = [r \in Runs |-> 0]
    /\ next = [r \in Runs |-> 1]
    /\ issued = [r \in Runs |-> [n \in Numbers |-> 0]]
    /\ restored = [r \in Runs |-> 0]
    /\ lossy = {}
    /\ hand = None
    /\ published = {}
    /\ queue = <<>>
    /\ batch = None
    /\ todo = {}
    /\ writer = "get"
    /\ closing = "open"
    /\ faults = 0
    /\ ends = 0

-----------------------------------------------------------------------------
(* Handlers. *)

\* StreamSinkAdapter.__call__ and emit: under the capture lock, the ring numbers
\* the frames of one event.
Capture(r, k) ==
    LET ns == next[r]..(next[r] + k - 1)
    IN /\ up
       /\ hand[r] = {}
       /\ captured[r] + k <= MaxFrames
       /\ next' = [next EXCEPT ![r] = @ + k]
       /\ issued' = [issued EXCEPT ![r] =
                        [n \in Numbers |-> IF n \in ns THEN captured[r] + 1 + n - next[r]
                                                       ELSE @[n]]]
       /\ captured' = [captured EXCEPT ![r] = @ + k]
       /\ hand' = [hand EXCEPT ![r] = ns]
       /\ UNCHANGED <<row, up, restored, lossy, published, queue, batch, todo, writer,
                      closing, faults, ends>>

\* RunRecord._on_frames: the subscribers of this moment get the frames.
Publish(r) ==
    /\ up
    /\ hand[r] # {}
    /\ r \notin published
    /\ published' = published \union {r}
    /\ UNCHANGED <<row, up, captured, next, issued, restored, lossy, hand, queue, batch,
                   todo, writer, closing, faults, ends>>

\* Mutant: a full queue drops the frames without on_error.
EnqueueUncounted(r) ==
    /\ up
    /\ r \in published
    /\ queue' = IF Len(queue) < QueueCapacity THEN Append(queue, Item(r, hand[r])) ELSE queue
    /\ hand' = [hand EXCEPT ![r] = {}]
    /\ published' = published \ {r}
    /\ UNCHANGED <<row, up, captured, next, issued, restored, lossy, batch, todo, writer,
                   closing, faults, ends>>

\* _PersistenceWriter.enqueue: never waits.  A full queue is counted.
Enqueue(r) ==
    /\ up
    /\ r \in published
    /\ \/ /\ Len(queue) < QueueCapacity
          /\ queue' = Append(queue, Item(r, hand[r]))
          /\ UNCHANGED lossy
       \/ /\ Len(queue) >= QueueCapacity
          /\ lossy' = lossy \union {r}
          /\ UNCHANGED queue
    /\ hand' = [hand EXCEPT ![r] = {}]
    /\ published' = published \ {r}
    /\ UNCHANGED <<row, up, captured, next, issued, restored, batch, todo, writer,
                   closing, faults, ends>>

-----------------------------------------------------------------------------
(* The writer thread. *)

InBatch == {r \in Runs : batch[r] # {}}
BatchFrames == Cardinality(UNION {{r} \X batch[r] : r \in Runs})

\* _PersistenceWriter._run, a group of frames: the batch closes when it is full.
TakeFrames ==
    /\ up
    /\ writer = "get"
    /\ queue # <<>>
    /\ \E r \in Runs :
        /\ Head(queue).run = r
        /\ batch' = [batch EXCEPT ![r] = @ \union Head(queue).numbers]
    /\ writer' = IF BatchFrames' >= BatchSize THEN "write" ELSE "get"
    /\ todo' = IF BatchFrames' >= BatchSize THEN InBatch' ELSE {}
    /\ queue' = Tail(queue)
    /\ UNCHANGED <<row, up, captured, next, issued, restored, lossy, hand, published,
                   closing, faults, ends>>

\* Mutant: a batch is written for its size alone.
BatchDueFull ==
    /\ up /\ writer = "get" /\ queue = <<>>
    /\ BatchFrames >= BatchSize
    /\ writer' = "write"
    /\ todo' = InBatch
    /\ UNCHANGED <<row, up, captured, next, issued, restored, lossy, hand, published,
                   queue, batch, closing, faults, ends>>

\* _PersistenceWriter._run, Empty: the interval of an open batch ran out.
BatchDue ==
    /\ up
    /\ writer = "get"
    /\ queue = <<>>
    /\ InBatch # {}
    /\ writer' = "write"
    /\ todo' = InBatch
    /\ UNCHANGED <<row, up, captured, next, issued, restored, lossy, hand, published,
                   queue, batch, closing, faults, ends>>

\* _PersistenceWriter._run, a marker: the batch is written first.
TakeMarker ==
    /\ up
    /\ writer = "get"
    /\ queue # <<>>
    /\ Head(queue).run \in {"flush", "shutdown"}
    /\ writer' = Head(queue).run
    /\ todo' = InBatch
    /\ queue' = Tail(queue)
    /\ UNCHANGED <<row, up, captured, next, issued, restored, lossy, hand, published,
                   batch, closing, faults, ends>>

Writing == up /\ writer \in {"write", "flush", "shutdown"}

\* Mutant: append_frames replaces the row a number already has.
AppendReplaces(r) ==
    /\ Writing
    /\ r \in todo
    /\ row' = [row EXCEPT ![r] =
                  [n \in Numbers |-> IF n \in batch[r] THEN issued[r][n] ELSE @[n]]]
    /\ todo' = todo \ {r}
    /\ UNCHANGED <<up, captured, next, issued, restored, lossy, hand, published, queue,
                   batch, writer, closing, faults, ends>>

\* append_frames: one transaction, which leaves a number alone that has a row.
AppendFrames(r) ==
    /\ Writing
    /\ r \in todo
    /\ row' = [row EXCEPT ![r] =
                  [n \in Numbers |-> IF n \in batch[r] /\ @[n] = 0 THEN issued[r][n]
                                                                  ELSE @[n]]]
    /\ todo' = todo \ {r}
    /\ UNCHANGED <<up, captured, next, issued, restored, lossy, hand, published, queue,
                   batch, writer, closing, faults, ends>>

\* Mutant: only the run whose transaction raised is counted.
AppendFailsAlone ==
    /\ Writing
    /\ faults < MaxFaults
    /\ faults' = faults + 1
    /\ \E r \in todo : lossy' = lossy \union {r}
    /\ todo' = {}
    /\ UNCHANGED <<row, up, captured, next, issued, restored, hand, published, queue,
                   batch, writer, closing, ends>>

\* _PersistenceWriter._write, except: what is left of the batch is not written, and
\* every run of the batch is counted.  The runs of this module are in _records as long
\* as they have frames on their way; _note_persistence_error has no ring to mark for
\* a run that left memory, which takes the terminal TTL or a lost claim of the sweep.
AppendFails ==
    /\ Writing
    /\ todo # {}
    /\ faults < MaxFaults
    /\ faults' = faults + 1
    /\ lossy' = lossy \union InBatch
    /\ todo' = {}
    /\ UNCHANGED <<row, up, captured, next, issued, restored, hand, published, queue,
                   batch, writer, closing, ends>>

\* _PersistenceWriter._write, finally, and what _run does next.
WriteDone ==
    /\ Writing
    /\ todo = {}
    /\ batch' = None
    /\ writer' = IF writer = "shutdown" THEN "drain" ELSE "get"
    /\ closing' = IF writer = "flush" /\ closing = "flushing" THEN "pill" ELSE closing
    /\ UNCHANGED <<row, up, captured, next, issued, restored, lossy, hand, published,
                   queue, todo, faults, ends>>

\* _release_stragglers: what is still queued is counted, not written.
Drain ==
    /\ up
    /\ writer = "drain"
    /\ \/ /\ queue = <<>>
          /\ writer' = "gone"
          /\ UNCHANGED <<queue, lossy>>
       \/ /\ queue # <<>>
          /\ queue' = Tail(queue)
          /\ lossy' = lossy \union ({Head(queue).run} \intersect Runs)
          /\ UNCHANGED writer
    /\ UNCHANGED <<row, up, captured, next, issued, restored, hand, published, batch,
                   todo, closing, faults, ends>>

-----------------------------------------------------------------------------
(* Closing, and the end of the process. *)

\* _PersistenceWriter.close and flush: a marker is queued and waited for.
CloseFlush ==
    /\ up /\ MayClose
    /\ closing = "open"
    /\ Len(queue) < QueueCapacity
    /\ queue' = Append(queue, Marker("flush"))
    /\ closing' = "flushing"
    /\ UNCHANGED <<row, up, captured, next, issued, restored, lossy, hand, published,
                   batch, todo, writer, faults, ends>>

\* flush: the put or the wait for the marker took too long.
FlushTimeout ==
    /\ up /\ MayClose
    /\ \/ closing = "open" /\ Len(queue) >= QueueCapacity
       \/ closing = "flushing"
    /\ closing' = "pill"
    /\ UNCHANGED <<row, up, captured, next, issued, restored, lossy, hand, published,
                   queue, batch, todo, writer, faults, ends>>

\* close: the shutdown marker, whose put waits for room.
ClosePill ==
    /\ up
    /\ closing = "pill"
    /\ Len(queue) < QueueCapacity
    /\ queue' = Append(queue, Marker("shutdown"))
    /\ closing' = "join"
    /\ UNCHANGED <<row, up, captured, next, issued, restored, lossy, hand, published,
                   batch, todo, writer, faults, ends>>

\* close: the thread ended, or was not waited for any longer.
CloseJoin ==
    /\ up
    /\ closing = "join"
    /\ closing' = "closed"
    /\ UNCHANGED <<row, up, captured, next, issued, restored, lossy, hand, published,
                   queue, batch, todo, writer, faults, ends>>

\* The process ends, killed at any point or done with close (its writer is a daemon
\* thread), and leaves the rows.
ProcessEnds ==
    /\ up
    /\ ends < MaxEnds
    /\ ends' = ends + 1
    /\ up' = FALSE
    /\ hand' = None
    /\ published' = {}
    /\ queue' = <<>>
    /\ batch' = None
    /\ todo' = {}
    /\ UNCHANGED <<row, captured, next, issued, restored, lossy, writer, closing, faults>>

\* What _restore_record makes of the rows of a run: it reads them in order, page by
\* page, and pushes them into a new ring, which numbers them from 1.
Place(r, n) == Cardinality({m \in Rows(r) : m <= n})
Renumbered(r) ==
    [n \in Numbers |->
        LET frame == {row[r][m] : m \in {k \in Rows(r) : Place(r, k) = n}}
        IN IF frame = {} THEN 0 ELSE CHOOSE f \in frame : TRUE]

\* Mutants: the ring leaves out a number, or does not get the frames.
RestartSkips ==
    /\ ~up
    /\ up' = TRUE
    /\ issued' = [r \in Runs |-> Renumbered(r)]
    /\ restored' = [r \in Runs |-> Cardinality(Rows(r))]
    /\ next' = [r \in Runs |-> Cardinality(Rows(r)) + 2]
    /\ lossy' = {} /\ writer' = "get" /\ closing' = "open"
    /\ UNCHANGED <<row, captured, hand, published, queue, batch, todo, faults, ends>>
RestartEmpty ==
    /\ ~up
    /\ up' = TRUE
    /\ issued' = [r \in Runs |-> [n \in Numbers |-> 0]]
    /\ restored' = [r \in Runs |-> 0]
    /\ next' = [r \in Runs |-> 1]
    /\ lossy' = {} /\ writer' = "get" /\ closing' = "open"
    /\ UNCHANGED <<row, captured, hand, published, queue, batch, todo, faults, ends>>

\* A new process.  Each run is restored by the first call that asks for it; nothing
\* writes frames of the run before, so the moment does not matter.
Restart ==
    /\ ~up
    /\ up' = TRUE
    /\ issued' = [r \in Runs |-> Renumbered(r)]
    /\ restored' = [r \in Runs |-> Cardinality(Rows(r))]
    /\ next' = [r \in Runs |-> Cardinality(Rows(r)) + 1]
    /\ lossy' = {}
    /\ writer' = "get"
    /\ closing' = "open"
    /\ UNCHANGED <<row, captured, hand, published, queue, batch, todo, faults, ends>>

-----------------------------------------------------------------------------
Handlers == \E r \in Runs : (\E k \in 1..MaxGroup : Capture(r, k)) \/ Publish(r) \/ Enqueue(r)
Writer ==
    \/ TakeFrames \/ BatchDue \/ TakeMarker
    \/ \E r \in Runs : AppendFrames(r)
    \/ WriteDone \/ Drain
Closing == CloseFlush \/ FlushTimeout \/ ClosePill \/ CloseJoin
Next == Handlers \/ Writer \/ AppendFails \/ Closing \/ ProcessEnds \/ Restart

Spec == Init /\ [][Next]_vars

-----------------------------------------------------------------------------
(* What the log promises. *)

\* The numbers of a run that a queue holds.
QueuedIn(q, r) == UNION {q[i].numbers : i \in {j \in 1..Len(q) : q[j].run = r}}

\* The numbers of a run that are on their way to a row.
Pending(r) ==
    batch[r] \union hand[r] \union (IF writer = "gone" THEN {} ELSE QueuedIn(queue, r))

\* The numbers that were queued after _release_stragglers had found the queue empty:
\* enqueue does not look whether the thread is there, and nobody takes them.
Stranded(r) == IF writer = "gone" THEN QueuedIn(queue, r) ELSE {}

\* The numbers of this process, which did not come from the rows.
Fresh(r) == (restored[r] + 1)..(next[r] - 1)

\* The ring and the rows number the restored frames alike.
Aligned(r) ==
    \A n \in 1..restored[r] : n \in Rows(r) /\ row[r][n] = issued[r][n]

\* A frame of this process that will not get a row was counted in emit_errors:
\* overflow, a failed transaction and whatever the writer thread left in its queue
\* when it ended (_PersistenceWriter.enqueue, _write, _release_stragglers).  The one
\* exception is a frame queued after the thread ended, by the sweep thread that
\* close did not wait for any longer or by a call still running on a worker thread.
LossIsCounted ==
    up => \A r \in Runs \ lossy : Aligned(r) =>
        \A n \in Fresh(r) :
            n \in Pending(r) \/ n \in Stranded(r) \/ row[r][n] = issued[r][n]

\* As long as a run counted no loss, its rows have no hole: batches, overflow and
\* shutdown keep the order of the captures (_PersistenceWriter._run).
RowsHaveNoHole ==
    up => \A r \in Runs \ lossy : Aligned(r) =>
        \A n \in Rows(r) : 1..n \subseteq Rows(r)

\* A client that pages through rows and ring gets one frame for a number, whichever
\* of the two answers (RunRegistry.replay_frames), unless the restart renumbered.
OneFrameForANumber ==
    up => \A r \in Runs : Aligned(r) =>
        \A n \in Rows(r) : n < next[r] /\ row[r][n] = issued[r][n]

\* A row that a client has read never changes (append_frames inserts only).
RowsAreFinal ==
    [][\A r \in Runs : \A n \in Rows(r) : row'[r][n] = row[r][n]]_vars

\* Every frame gets its row, or is counted, or dies with the process: the interval
\* writes the tail of a quiet run (VALIDATOR_FRAME_FLUSH_INTERVAL_SECONDS).
FramesSettle ==
    \A r \in Runs : \A n \in Numbers :
        (up /\ n \in hand[r]) ~> (~up \/ r \in lossy \/ row[r][n] # 0 \/ writer = "gone")

\* The handlers finish their call and the writer thread runs.
Fairness ==
    /\ \A r \in Runs : WF_vars(Publish(r)) /\ WF_vars(Enqueue(r))
    /\ WF_vars(Writer)
FairSpec == Spec /\ Fairness

=============================================================================
