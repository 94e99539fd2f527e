---------------------------- MODULE FrameStream ----------------------------
(***************************************************************************)
(* A browser that follows one run over the WebSocket, on top of the frame  *)
(* log (the /ws and /frames routes of service/app.py, FrameSubscription    *)
(* and replay_frames of service/registry.py, and the client in             *)
(* frontend/src/services/studioApi.ts and composables/useValidatorRun.ts). *)
(*                                                                         *)
(*   - The server subscribes, replays what rows and ring hold after the    *)
(*     client's cursor, and then forwards what the subscription gets.      *)
(*     The subscription drops its oldest frames when it is full.           *)
(*   - The client takes the frames one at a time.  A number that skips     *)
(*     some makes it fetch the missing ones with GET /frames first.        *)
(*   - A connection that drops loses a suffix of what was sent; the client *)
(*     comes back with its cursor.                                         *)
(*                                                                         *)
(* The server's ping, error, replay_gap and replay_truncated messages are  *)
(* left out: the client acts on none of them.                              *)
(***************************************************************************)
EXTENDS FrameLog, FiniteSetsExt

CONSTANTS
    Viewed,       \* the run the browser follows
    SubCapacity,  \* DEFAULT_SUBSCRIBER_CAPACITY
    PageLimit,    \* MAX_REPLAY_LIMIT
    MaxDrops,     \* bound: connections that drop
    MaxFetchFails \* bound: GET /frames requests that fail while the service is up

ASSUME StreamBounds ==
    /\ Viewed \in Runs
    /\ {SubCapacity, PageLimit} \subseteq Nat \ {0}
    /\ {MaxDrops, MaxFetchFails} \subseteq Nat

VARIABLES
    (* the server's side of the connection *)
    handler,  \* "off", or how far stream_frames is
    sent,     \* sent_seq
    read,     \* the rows replay_frames has read, before it reads the ring
    calls,    \* groups published with call_soon_threadsafe, not yet on the loop
    inbox,    \* FrameSubscription.queue
    (* the browser *)
    received, \* frames sent to the browser that it has not taken yet
    last,     \* lastSequence
    shown,    \* shown[n] is the frame applied under number n (seenFrames), or 0
    dropped,  \* droppedFrames
    ingest,   \* the frame whose predecessors are being fetched, or NoFrame
    fetched,  \* what getFrames has so far
    got,      \* the rows that the request under way has read
    asking,   \* is a request under way
    (* the bounds *)
    drops, fetchFails

server == <<handler, sent, read, calls, inbox>>
client == <<last, shown, dropped, ingest, fetched, got, asking>>
stream == <<server, received, client, drops, fetchFails>>
all == <<vars, stream>>

NoFrame == [number |-> 0, frame |-> 0]
Numbered == [number : Numbers, frame : Frames]

StreamTypeOK ==
    /\ handler \in {"off", "subscribed", "read", "stream"}
    /\ sent \in 0..MaxFrames
    /\ read \in SUBSET Numbered
    /\ calls \in Seq(Seq(Numbered))
    /\ inbox \in Seq(Numbered) /\ Len(inbox) <= SubCapacity
    /\ received \in Seq(Numbered)
    /\ last \in 0..MaxFrames
    /\ shown \in [Numbers -> Frames \union {0}]
    /\ dropped \in Nat
    /\ ingest \in Numbered \union {NoFrame}
    /\ fetched \in SUBSET Numbered
    /\ got \in SUBSET Numbered
    /\ asking \in BOOLEAN

StreamInit ==
    /\ Init
    /\ handler = "off"
    /\ sent = 0
    /\ read = {}
    /\ calls = <<>>
    /\ inbox = <<>>
    /\ received = <<>>
    /\ last = 0
    /\ shown = [n \in Numbers |-> 0]
    /\ dropped = 0
    /\ ingest = NoFrame
    /\ fetched = {}
    /\ got = {}
    /\ asking = FALSE
    /\ drops = 0
    /\ fetchFails = 0

\* How many of the frames come before f, and the frames in order.
Before(fs, f) == Cardinality({g \in fs : g.number < f.number})
InOrder(fs) == [i \in 1..Cardinality(fs) |-> CHOOSE f \in fs : Before(fs, f) = i - 1]

Issued(ns) == {[number |-> n, frame |-> issued[Viewed][n]] : n \in ns}
Stored(ns) == {[number |-> n, frame |-> row[Viewed][n]] : n \in ns}

\* [:limit] of frames in order.
Page(fs) == {f \in fs : Before(fs, f) < PageLimit}

\* What replay_frames reads from the rows and from the ring.
RowPage(after) == Page(Stored({n \in Rows(Viewed) : n > after}))
RingPage(after) == Page(Issued({n \in Ring(Viewed) : n > after}))

\* Mutant: what has no row yet is not replayed.
ReplayRowsOnly(rows, after) == Page(rows)

\* replay_frames: the ring wins, and the page is cut again.
Replay(rows, after) ==
    LET ring == RingPage(after)
    IN Page({f \in rows : \A g \in ring : g.number # f.number} \union ring)

-----------------------------------------------------------------------------
(* The server. *)

\* stream_frames, up to record.subscribe: the client asks for what is after its cursor.
Connect ==
    /\ up
    /\ handler = "off"
    /\ handler' = "subscribed"
    /\ sent' = last
    /\ UNCHANGED <<vars, read, calls, inbox, received, client, drops, fetchFails>>

\* stream_frames: replay_frames reads the rows.
ReplayRows ==
    /\ handler = "subscribed"
    /\ handler' = "read"
    /\ read' = RowPage(sent)
    /\ UNCHANGED <<vars, sent, calls, inbox, received, client, drops, fetchFails>>

\* stream_frames: replay_frames reads the ring, and the replay is sent.
ReplayRing ==
    /\ handler = "read"
    /\ handler' = "stream"
    /\ received' = received \o InOrder(Replay(read, sent))
    /\ sent' = Max({sent} \union {f.number : f \in Replay(read, sent)})
    /\ read' = {}
    /\ UNCHANGED <<vars, calls, inbox, client, drops, fetchFails>>

\* Mutant: the subscription keeps everything.
DeliverAll ==
    /\ handler = "stream"
    /\ calls # <<>>
    /\ inbox' = inbox \o Head(calls)
    /\ calls' = Tail(calls)
    /\ UNCHANGED <<vars, handler, sent, read, received, client, drops, fetchFails>>

\* FrameSubscription._publish_on_loop: the oldest frames make room.
Deliver ==
    LET frames == inbox \o Head(calls)
        over == Len(frames) - SubCapacity
    IN /\ handler = "stream"
       /\ calls # <<>>
       /\ inbox' = IF over > 0 THEN SubSeq(frames, over + 1, Len(frames)) ELSE frames
       /\ calls' = Tail(calls)
       /\ UNCHANGED <<vars, handler, sent, read, received, client, drops, fetchFails>>

\* outgoing: what the replay sent already is skipped.
Forward ==
    /\ handler = "stream"
    /\ inbox # <<>>
    /\ IF Head(inbox).number <= sent
       THEN UNCHANGED <<sent, received>>
       ELSE /\ received' = Append(received, Head(inbox))
            /\ sent' = Head(inbox).number
    /\ inbox' = Tail(inbox)
    /\ UNCHANGED <<vars, handler, read, calls, client, drops, fetchFails>>

\* The connection is gone, and with it what the browser had not received.
Hangup ==
    /\ handler' = "off"
    /\ sent' = 0
    /\ read' = {}
    /\ calls' = <<>>
    /\ inbox' = <<>>
    /\ \E n \in 0..Len(received) : received' = SubSeq(received, 1, n)

Disconnect ==
    /\ handler # "off"
    /\ drops < MaxDrops
    /\ drops' = drops + 1
    /\ Hangup
    /\ UNCHANGED <<vars, client, fetchFails>>

-----------------------------------------------------------------------------
(* The browser. *)

\* applyFrame, for frames in order: the ones already seen change nothing.
Show(fs) ==
    LET new == {f \in fs : shown[f.number] = 0}
    IN /\ shown' = [n \in Numbers |->
                       IF \E f \in new : f.number = n
                       THEN (CHOOSE f \in new : f.number = n).frame ELSE shown[n]]
       /\ last' = Max({last} \union {f.number : f \in new})

\* Mutant: frames are applied as they come.
ReceiveAll ==
    /\ ingest = NoFrame
    /\ received # <<>>
    /\ received' = Tail(received)
    /\ Show({Head(received)})
    /\ UNCHANGED <<vars, server, dropped, ingest, fetched, got, asking, drops, fetchFails>>

\* ingestFrame, for the next frame of receiveQueue.
Receive ==
    /\ ingest = NoFrame
    /\ received # <<>>
    /\ received' = Tail(received)
    /\ LET f == Head(received)
       IN IF shown[f.number] # 0 \/ f.number <= last + 1
          THEN Show({f}) /\ UNCHANGED <<ingest, fetched>>
          ELSE ingest' = f /\ fetched' = {} /\ UNCHANGED <<shown, last>>
    /\ UNCHANGED <<vars, server, dropped, got, asking, drops, fetchFails>>

\* getFrames asks for what is after this number.
Cursor == Max({last} \union {f.number : f \in fetched})

\* GET /frames: replay_frames reads the rows.
FetchRows ==
    /\ up
    /\ ingest # NoFrame
    /\ ~asking
    /\ asking' = TRUE
    /\ got' = RowPage(Cursor)
    /\ UNCHANGED <<vars, server, received, last, shown, dropped, ingest, fetched, drops,
                   fetchFails>>

\* Mutant: frames that stay missing are not counted.
FetchRingUncounted ==
    LET page == Replay(got, Cursor)
    IN /\ up
       /\ asking
       /\ asking' = FALSE
       /\ got' = {}
       /\ IF Cardinality(page) = PageLimit
          THEN fetched' = fetched \union page /\ UNCHANGED <<last, shown, ingest>>
          ELSE /\ Show({f \in fetched \union page : f.number < ingest.number}
                       \union {ingest})
               /\ ingest' = NoFrame
               /\ fetched' = {}
       /\ UNCHANGED <<vars, server, received, dropped, drops, fetchFails>>

\* GET /frames: replay_frames reads the ring.  A full page makes getFrames ask for the
\* next; otherwise ingestFrame applies what was missing, and the frame.
FetchRing ==
    LET page == Replay(got, Cursor)
        missing == {f \in fetched \union page : f.number < ingest.number}
    IN /\ up
       /\ asking
       /\ asking' = FALSE
       /\ got' = {}
       /\ IF Cardinality(page) = PageLimit
          THEN /\ fetched' = fetched \union page
               /\ UNCHANGED <<last, shown, dropped, ingest>>
          ELSE /\ dropped' = dropped + (ingest.number - last - 1 - Cardinality(missing))
               /\ Show(missing \union {ingest})
               /\ ingest' = NoFrame
               /\ fetched' = {}
       /\ UNCHANGED <<vars, server, received, drops, fetchFails>>

\* getFrames throws: queueFrame reports it, and the frame is not applied.
FetchFails ==
    /\ ingest # NoFrame
    /\ IF up THEN fetchFails < MaxFetchFails /\ fetchFails' = fetchFails + 1
             ELSE UNCHANGED fetchFails
    /\ ingest' = NoFrame
    /\ fetched' = {}
    /\ got' = {}
    /\ asking' = FALSE
    /\ UNCHANGED <<vars, server, received, last, shown, dropped, drops>>

-----------------------------------------------------------------------------
(* The log, and what the subscription sees of it. *)

\* RunRecord._on_frames: the subscription of the browser gets the frames.
PublishFrames(r) ==
    /\ Publish(r)
    /\ calls' = IF r = Viewed /\ handler # "off"
                THEN Append(calls, InOrder(Issued(hand[r]))) ELSE calls
    /\ UNCHANGED <<handler, sent, read, inbox, received, client, drops, fetchFails>>

LogSteps ==
    /\ \/ \E r \in Runs : (\E k \in 1..MaxGroup : Capture(r, k)) \/ Enqueue(r)
       \/ Writer \/ AppendFails
       \/ CloseFlush \/ FlushTimeout \/ ClosePill \/ CloseJoin
       \/ Restart
    /\ UNCHANGED stream

\* A request under way fails with the process.
ServerEnds ==
    /\ ProcessEnds
    /\ Hangup
    /\ IF asking THEN ingest' = NoFrame /\ fetched' = {} ELSE UNCHANGED <<ingest, fetched>>
    /\ got' = {}
    /\ asking' = FALSE
    /\ UNCHANGED <<last, shown, dropped, drops, fetchFails>>

Server == Connect \/ ReplayRows \/ ReplayRing \/ Deliver \/ Forward
Browser == Receive \/ FetchRows \/ FetchRing \/ FetchFails
StreamNext ==
    \/ \E r \in Runs : PublishFrames(r)
    \/ LogSteps \/ ServerEnds
    \/ Server \/ Disconnect \/ Browser

StreamSpec == StreamInit /\ [][StreamNext]_all

-----------------------------------------------------------------------------
(* What the browser sees. *)

\* Every frame up to the cursor was shown or is in the count of dropped frames that
\* the status panel shows (ingestFrame).
SkipsAreCounted ==
    dropped >= Cardinality({n \in 1..last : shown[n] = 0})

\* Frames are shown in the order they were captured in, each once, over drops of the
\* connection, refetches and overflowing subscriptions (ingestFrame, stream_frames), as
\* long as the ring evicts nothing and the process does not end.  Once it evicts a frame
\* that has no row yet, a fetch misses the frame, and a replay of the next connection may
\* bring it when later frames are on the screen.
ShownInOrder ==
    [][\A n \in Numbers : shown[n] = 0 /\ shown'[n] # 0 =>
           \A m \in Numbers : shown[m] # 0 => shown[m] < shown'[n]]_all

\* Nothing is on its way between the ring and the screen.
Quiescent ==
    /\ up /\ handler = "stream"
    /\ calls = <<>> /\ inbox = <<>> /\ received = <<>> /\ ingest = NoFrame

\* When nothing is on its way, the browser has shown every frame the server published:
\* subscribing before the replay leaves no frame between the two, and what a full
\* subscription dropped is fetched when the next frame comes (stream_frames,
\* ingestFrame), as long as no fetch fails and a page takes all there is.  stream-failure.spec.ts: "the socket dies mid-run and nothing is lost".
CaughtUp ==
    Quiescent => \A n \in Numbers :
        (n < next[Viewed] /\ (n \in hand[Viewed] => Viewed \in published))
            => \E m \in Numbers : shown[m] = issued[Viewed][n]

=============================================================================
