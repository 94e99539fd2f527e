----------------------------- MODULE Publishing -----------------------------
(***************************************************************************)
(* The life of one builder document across deploys: its versions and their *)
(* status in the database, the graph each service process has registered   *)
(* for it, and the runs launched from it.                                  *)
(*                                                                         *)
(* A process is a generation: it boots, reads the published documents once *)
(* (before anything is served), becomes the front when its health check    *)
(* passes, drains when a newer one does, and is gone.  While a deploy      *)
(* overlaps two of them they share the database and nothing else.  The     *)
(* builder routes are async handlers that never await, so a process has at *)
(* most one in flight; the steps of two processes interleave, and so do    *)
(* the pool threads that execute runs, the thread that answers a gate and  *)
(* the sweeper.                                                            *)
(***************************************************************************)
EXTENDS Naturals, FiniteSets

CONSTANTS
    Bodies,          \* what a version can hold
    Sound,           \* the bodies that compile
    Runs,            \* the runs launched from the document
    MaxVersion,      \* bound on the versions saved
    MaxGates,        \* bound on the human gates a run may open
    Generations      \* bound on the processes started, one after another

\* No row; no body is like it.
NoBody == [none |-> TRUE]

ASSUME PublishingAssumption ==
    /\ NoBody \notin Bodies
    /\ Sound \subseteq Bodies
    /\ MaxVersion \in Nat \ {0}
    /\ MaxGates \in Nat
    /\ Generations \in Nat \ {0}

Versions == 1..MaxVersion
Processes == 1..Generations

\* A registration: the version and the body it was compiled from.
Graphs == [version : Versions, body : Bodies]
None == [version |-> 0]

VARIABLES
    head,            \* builder_documents.version, 0 before the document exists
    status,          \* builder_documents.status, or "none" / "deleted"
    rows,            \* rows[v]: the body of builder_document_versions row v
    phase,           \* phase[p]: where process p is in its life
    maps,            \* maps[p]: what p's module maps hold for the document
    runtime,         \* runtime[p]: what p's registry.workflows holds
    request,         \* request[p]: the step p's builder handler stands at
    runRow,          \* runRow[r]: the status in the runs row
    gate,            \* gate[r]: the last gate r opened, 0 if none
    answered,        \* answered[r]: the last gate of r with an answer on its row
    admitted,        \* admitted[r]: what was priced and what was admitted
    executed,        \* executed[r]: the graph the last execution ran
    working,         \* working[p]: the runs p holds an unfinished future for
    record,          \* record[p][r]: the status and the pending gate in p's memory
    replying         \* replying[p]: the run and gate of the answer in flight on p

stored == <<head, status, rows>>
registered == <<maps, runtime, request>>
runs == <<runRow, gate, answered, admitted, executed, working, record, replying>>
vars == <<stored, phase, registered, runs>>

Alive(p) == phase[p] \in {"booted", "front", "draining"}
Exists == status \in {"draft", "published"}
Idle(p) == phase[p] = "front" /\ request[p] = "idle"
Graph(v) == [version |-> v, body |-> rows[v]]
Cached(now, prompt) == [status |-> now, prompt |-> prompt]
NoRecord == Cached("none", 0)

Init ==
    /\ head = 0 /\ status = "none"
    /\ rows = [v \in Versions |-> NoBody]
    /\ phase = [p \in Processes |-> IF p = 1 THEN "front" ELSE "unborn"]
    /\ maps = [p \in Processes |-> None]
    /\ runtime = [p \in Processes |-> None]
    /\ request = [p \in Processes |-> "idle"]
    /\ runRow = [r \in Runs |-> "none"]
    /\ gate = [r \in Runs |-> 0]
    /\ answered = [r \in Runs |-> 0]
    /\ admitted = [r \in Runs |-> [priced |-> None, admitted |-> None]]
    /\ executed = [r \in Runs |-> None]
    /\ working = [p \in Processes |-> {}]
    /\ record = [p \in Processes |-> [r \in Runs |-> NoRecord]]
    /\ replying = [p \in Processes |-> {}]

-----------------------------------------------------------------------------
(* The document routes.                                                    *)

\* store.create: the first version, a draft.
Create(p) ==
    /\ Idle(p)
    /\ status = "none"
    /\ \E body \in Bodies : rows' = [rows EXCEPT ![1] = body]
    /\ head' = 1 /\ status' = "draft"
    /\ UNCHANGED <<phase, registered, runs>>

\* A bug: the new body is written over the version the author loaded.
Save_InPlace(p, expected) ==
    /\ Idle(p)
    /\ Exists
    /\ head = expected
    /\ \E body \in Bodies : rows' = [rows EXCEPT ![expected] = body]
    /\ head' = expected /\ status' = "draft"
    /\ UNCHANGED <<phase, registered, runs>>

\* store.save: compare and set on the version the author loaded, then the row
\* of the next version, in one transaction.  The client sends any number; an
\* insert over a row that is there fails and takes the transaction with it.
Save(p, expected) ==
    /\ Idle(p)
    /\ Exists
    /\ head = expected
    /\ rows[expected + 1] = NoBody
    /\ \E body \in Bodies : rows' = [rows EXCEPT ![expected + 1] = body]
    /\ head' = expected + 1 /\ status' = "draft"
    /\ UNCHANGED <<phase, registered, runs>>

\* A bug: the application's runtime map is forgotten.
Unregister_MapsOnly(p) ==
    /\ maps' = [maps EXCEPT ![p] = None]
    /\ UNCHANGED runtime

Unregister(p) ==
    /\ maps' = [maps EXCEPT ![p] = None]
    /\ runtime' = [runtime EXCEPT ![p] = None]

\* A bug: the version asked for is registered without being compiled.
Publish_Uncompiled(p, v) ==
    /\ Idle(p)
    /\ Exists
    /\ maps' = [maps EXCEPT ![p] = Graph(v)]
    /\ request' = [request EXCEPT ![p] = "runtime"]
    /\ UNCHANGED <<stored, phase, runtime, runs>>

\* publish: load the version asked for, compile it, write the module maps.
Publish(p, v) ==
    /\ Idle(p)
    /\ Exists
    /\ rows[v] \in Sound
    /\ maps' = [maps EXCEPT ![p] = Graph(v)]
    /\ request' = [request EXCEPT ![p] = "runtime"]
    /\ UNCHANGED <<stored, phase, runtime, runs>>

\* ... then the application's runtime map; a refusal rolls both halves back.
PublishRuntime(p) ==
    /\ request[p] = "runtime"
    /\ \/ /\ runtime' = [runtime EXCEPT ![p] = maps[p]]
          /\ request' = [request EXCEPT ![p] = "mark"]
          /\ UNCHANGED maps
       \/ /\ Unregister(p)
          /\ request' = [request EXCEPT ![p] = "idle"]
    /\ UNCHANGED <<stored, phase, runs>>

\* A bug: the update compares no version.
IsHead_Any(p) == Exists

IsHead(p) == Exists /\ head = maps[p].version

\* ... then store.mark_published, a compare and set on the version; a conflict
\* rolls both halves back.
MarkPublished(p) ==
    /\ request[p] = "mark"
    /\ IF IsHead(p)
       THEN status' = "published" /\ UNCHANGED <<maps, runtime>>
       ELSE Unregister(p) /\ UNCHANGED status
    /\ request' = [request EXCEPT ![p] = "idle"]
    /\ UNCHANGED <<head, rows, phase, runs>>

\* unpublish (the author's route and the administrator's): the row first.
Unpublish(p) ==
    /\ Idle(p)
    /\ Exists
    /\ status' = "draft"
    /\ request' = [request EXCEPT ![p] = "withdraw"]
    /\ UNCHANGED <<head, rows, phase, maps, runtime, runs>>

\* ... then the registration, unless the document it loads again is gone.
Withdraw(p) ==
    /\ request[p] = "withdraw"
    /\ IF Exists THEN Unregister(p) ELSE UNCHANGED <<maps, runtime>>
    /\ request' = [request EXCEPT ![p] = "idle"]
    /\ UNCHANGED <<stored, phase, runs>>

\* delete: refused while this process serves any version, else both halves of
\* the registration and then the rows.
Delete(p) ==
    /\ Idle(p)
    /\ Exists
    /\ maps[p] = None
    /\ Unregister(p)
    /\ request' = [request EXCEPT ![p] = "delete"]
    /\ UNCHANGED <<stored, phase, runs>>

DeleteRows(p) ==
    /\ request[p] = "delete"
    /\ IF Exists
       THEN /\ status' = "deleted" /\ head' = 0
            /\ rows' = [v \in Versions |-> NoBody]
       ELSE UNCHANGED stored
    /\ request' = [request EXCEPT ![p] = "idle"]
    /\ UNCHANGED <<phase, maps, runtime, runs>>

-----------------------------------------------------------------------------
(* The runs.                                                               *)

\* create_run: the price and the gate policy come from the module maps, the
\* runtime from the registry; without either it is a 404.
Launch(p, r) ==
    /\ Idle(p)
    /\ runRow[r] = "none"
    /\ maps[p] # None /\ runtime[p] # None
    /\ admitted' = [admitted EXCEPT ![r] =
                       [priced |-> maps[p], admitted |-> runtime[p]]]
    /\ runRow' = [runRow EXCEPT ![r] = "queued"]
    /\ record' = [record EXCEPT ![p][r] = Cached("queued", 0)]
    /\ working' = [working EXCEPT ![p] = @ \union {r}]
    /\ UNCHANGED <<stored, phase, registered, gate, answered, executed, replying>>

\* _execute, first execution or resume: the runtime is looked up now.  A
\* workflow that is no longer registered fails the run.
Execute(p, r) ==
    /\ r \in working[p]
    /\ record[p][r].status = "queued"
    /\ LET now == IF runtime[p] = None THEN "ended" ELSE "running"
       IN  /\ runRow' = [runRow EXCEPT ![r] = now]
           /\ record' = [record EXCEPT ![p][r] = Cached(now, 0)]
    /\ executed' = [executed EXCEPT ![r] = runtime[p]]
    /\ working' = [working EXCEPT ![p] = IF runtime[p] = None THEN @ \ {r} ELSE @]
    /\ UNCHANGED <<stored, phase, registered, gate, answered, admitted, replying>>

\* The execution ends.
Finish(p, r) ==
    /\ r \in working[p]
    /\ record[p][r].status = "running"
    /\ runRow' = [runRow EXCEPT ![r] = "ended"]
    /\ record' = [record EXCEPT ![p][r] = Cached("ended", 0)]
    /\ working' = [working EXCEPT ![p] = @ \ {r}]
    /\ UNCHANGED <<stored, phase, registered, gate, answered, admitted, executed,
                   replying>>

\* The execution pauses at a human gate.
Park(p, r) ==
    /\ r \in working[p]
    /\ record[p][r].status = "running"
    /\ gate[r] < MaxGates
    /\ gate' = [gate EXCEPT ![r] = @ + 1]
    /\ runRow' = [runRow EXCEPT ![r] = "waiting"]
    /\ record' = [record EXCEPT ![p][r] = Cached("waiting", gate[r] + 1)]
    /\ working' = [working EXCEPT ![p] = @ \ {r}]
    /\ UNCHANGED <<stored, phase, registered, answered, admitted, executed, replying>>

\* _restore_record: the status and the gate still open, as the rows have them.
Restored(r) == Cached(runRow[r], IF answered[r] < gate[r] THEN gate[r] ELSE 0)

\* require: the record in memory, else one restored from the rows, which needs
\* the workflow's runtime.  A record once cached is never refreshed.
Held(p, r) ==
    IF record[p][r] = NoRecord /\ runtime[p] # None THEN Restored(r)
                                                    ELSE record[p][r]

\* GET of a run.
Read(p, r) ==
    /\ phase[p] = "front"
    /\ record[p][r] = NoRecord
    /\ record' = [record EXCEPT ![p][r] = Held(p, r)]
    /\ UNCHANGED <<stored, phase, registered, runRow, gate, answered, admitted,
                   executed, working, replying>>

\* answer_gate, on a pool thread: the record must hold the gate.  A process that
\* drains still serves the sockets it has ...
Reply(p, r) ==
    /\ phase[p] \in {"front", "draining"}
    /\ replying[p] = {}
    /\ Held(p, r).prompt # 0
    /\ record' = [record EXCEPT ![p][r] = Held(p, r)]
    /\ replying' = [replying EXCEPT ![p] = {[run |-> r, gate |-> Held(p, r).prompt]}]
    /\ UNCHANGED <<stored, phase, registered, runRow, gate, answered, admitted,
                   executed, working>>

\* A bug: the answer is written whether or not there is one.
Unanswered_Unchecked(asked) == TRUE

Unanswered(asked) == answered[asked.run] < asked.gate

\* A bug: the answer is stored and the run's row still waits for it.
Answer_RowWaits(p, r) ==
    \E asked \in replying[p] :
        /\ asked.run = r
        /\ replying' = [replying EXCEPT ![p] = {}]
        /\ IF Unanswered(asked)
           THEN /\ answered' = [answered EXCEPT ![r] = asked.gate]
                /\ record' = [record EXCEPT ![p][r] = Cached("queued", 0)]
                /\ working' = [working EXCEPT ![p] = @ \union {r}]
           ELSE UNCHANGED <<answered, record, working>>
        /\ UNCHANGED <<stored, phase, registered, runRow, gate, admitted, executed>>

\* ... then the durable compare and set on the gate's row decides and makes the
\* run's row running, and the winner queues the resume in its own process.  A
\* process that dies from here on leaves a run nobody executes, with no open gate.
Answer(p, r) ==
    \E asked \in replying[p] :
        /\ asked.run = r
        /\ replying' = [replying EXCEPT ![p] = {}]
        /\ IF Unanswered(asked)
           THEN /\ answered' = [answered EXCEPT ![r] = asked.gate]
                /\ runRow' = [runRow EXCEPT ![r] = "running"]
                /\ record' = [record EXCEPT ![p][r] = Cached("queued", 0)]
                /\ working' = [working EXCEPT ![p] = @ \union {r}]
           ELSE UNCHANGED <<answered, runRow, record, working>>
        /\ UNCHANGED <<stored, phase, registered, gate, admitted, executed>>

Interruptible == {"queued", "running"}

\* The grace window outlasts the longest drain: a row this old has no live
\* process working on it.
Orphan(r) ==
    /\ runRow[r] \in Interruptible
    /\ \A p \in Processes : r \notin working[p]

\* recover_orphaned_runs on a maintenance tick: require, then claim the row by
\* the status the record was loaded with, then fail the run.  The loser of the
\* claim drops its copy.
Sweep(p, r) ==
    /\ Alive(p)
    /\ Orphan(r)
    /\ Held(p, r).status \in Interruptible
    /\ IF runRow[r] = Held(p, r).status
       THEN /\ runRow' = [runRow EXCEPT ![r] = "ended"]
            /\ record' = [record EXCEPT ![p][r] = Cached("ended", 0)]
       ELSE /\ record' = [record EXCEPT ![p][r] = NoRecord]
            /\ UNCHANGED runRow
    /\ UNCHANGED <<stored, phase, registered, gate, answered, admitted, executed,
                   working, replying>>

-----------------------------------------------------------------------------
(* The processes.                                                          *)

\* create_app: rehydrate_published_workflows registers the published head, in
\* both halves, unless it no longer compiles on this build.  The registry's
\* own sweep ran before that, when no builder workflow was known, and could
\* restore nothing.
Boot(p) ==
    /\ p # 1 /\ phase[p] = "unborn"
    /\ phase[p - 1] \in {"front", "gone"}
    /\ phase' = [phase EXCEPT ![p] = "booted"]
    /\ \E served \in {None} \union (IF status = "published" THEN {Graph(head)}
                                                           ELSE {}) :
           /\ maps' = [maps EXCEPT ![p] = served]
           /\ runtime' = [runtime EXCEPT ![p] = served]
    /\ UNCHANGED <<stored, request, runs>>

\* The health check passes: new requests go to p, its predecessor drains.
TakeOver(p) ==
    /\ phase[p] = "booted"
    /\ phase' = [q \in Processes |->
                    CASE q = p -> "front"
                      [] phase[q] = "front" -> "draining"
                      [] OTHER -> phase[q]]
    /\ UNCHANGED <<stored, registered, runs>>

\* The end of a drain, or a crash.
Stop(p) ==
    /\ phase[p] \in {"front", "draining"}
    /\ phase' = [phase EXCEPT ![p] = "gone"]
    /\ Unregister(p)
    /\ request' = [request EXCEPT ![p] = "idle"]
    /\ working' = [working EXCEPT ![p] = {}]
    /\ record' = [record EXCEPT ![p] = [r \in Runs |-> NoRecord]]
    /\ replying' = [replying EXCEPT ![p] = {}]
    /\ UNCHANGED <<stored, runRow, gate, answered, admitted, executed>>

Documents(p) ==
    \/ Create(p)
    \/ \E expected \in 1..(MaxVersion - 1) : Save(p, expected)
    \/ \E v \in Versions : Publish(p, v)
    \/ PublishRuntime(p)
    \/ MarkPublished(p)
    \/ Unpublish(p)
    \/ Withdraw(p)
    \/ Delete(p)
    \/ DeleteRows(p)

Executions(p, r) ==
    \/ Launch(p, r)
    \/ Execute(p, r)
    \/ Finish(p, r)
    \/ Park(p, r)
    \/ Read(p, r)
    \/ Reply(p, r)
    \/ Answer(p, r)
    \/ Sweep(p, r)

Lifecycle(p) == Boot(p) \/ TakeOver(p) \/ Stop(p)

Next ==
    \E p \in Processes :
        \/ Documents(p)
        \/ \E r \in Runs : Executions(p, r)
        \/ Lifecycle(p)

Spec == Init /\ [][Next]_vars

\* The maintenance thread ticks for as long as its process lives.
FairSpec == Spec /\ \A p \in Processes, r \in Runs : WF_vars(Sweep(p, r))

-----------------------------------------------------------------------------
Statuses == {"none", "queued", "running", "waiting", "ended"}
Records == [status : Statuses, prompt : 0..MaxGates]

\* Every variable keeps its shape (the columns, maps and futures it stands for).
PublishingTypeOK ==
    /\ head \in 0..MaxVersion
    /\ status \in {"none", "draft", "published", "deleted"}
    /\ rows \in [Versions -> Bodies \union {NoBody}]
    /\ phase \in [Processes -> {"unborn", "booted", "front", "draining", "gone"}]
    /\ maps \in [Processes -> Graphs \union {None}]
    /\ runtime \in [Processes -> Graphs \union {None}]
    /\ request \in [Processes -> {"idle", "runtime", "mark", "withdraw", "delete"}]
    /\ runRow \in [Runs -> Statuses]
    /\ gate \in [Runs -> 0..MaxGates]
    /\ answered \in [Runs -> 0..MaxGates]
    /\ admitted \in [Runs -> [priced : Graphs \union {None},
                              admitted : Graphs \union {None}]]
    /\ executed \in [Runs -> Graphs \union {None}]
    /\ working \in [Processes -> SUBSET Runs]
    /\ record \in [Processes -> [Runs -> Records]]
    /\ replying \in [Processes -> SUBSET [run : Runs, gate : 1..MaxGates]]

\* The document behind all this keeps its promises: its history only grows and
\* nobody's acknowledged save is rewritten, whichever processes save at once;
\* only the newest version can be published, and only one that compiles, even
\* when a save lands between the compile and the publish; a deleted document
\* stays deleted.
Document == INSTANCE VersionedDocument WITH
    history <- [v \in 1..head |-> rows[v]],
    released <- status = "published",
    removed <- status = "deleted"

ImplementsDocument == Document!Spec

\* Whatever a process serves, admits or has executed is a stored version that
\* compiled, body for body as the database has it: no edit, refused publish or
\* restart makes a process run a graph its author cannot read.
IsStored(graph) ==
    \/ graph = None
    \/ /\ graph.body \in Sound
       /\ status # "deleted" => rows[graph.version] = graph.body

ServedIsStored ==
    /\ \A p \in Processes : IsStored(maps[p]) /\ IsStored(runtime[p])
    /\ \A r \in Runs : IsStored(admitted[r].admitted) /\ IsStored(executed[r])

\* The two halves of a registration never come apart between two requests, so
\* the graph whose price a launch was checked against is the graph it was
\* admitted for.
HalvesAgree ==
    /\ \A p \in Processes : request[p] = "idle" => maps[p] = runtime[p]
    /\ \A r \in Runs : admitted[r].priced = admitted[r].admitted

\* A run is executed by one process at a time, though during a deploy two of
\* them may hold its record, its open gate and a reply to it.
OneExecutor ==
    \A p, q \in Processes : p # q => working[p] \cap working[q] = {}

\* A run left behind by a process that is gone, at whatever step, the one between an
\* accepted answer and its resume included, is failed, as long as the front process
\* serves the document and has not cached the run at a gate.
Abandoned(r) ==
    /\ runRow[r] \notin {"none", "ended"}
    /\ answered[r] = gate[r]
    /\ \A p \in Processes : r \notin working[p]

Reconcilable(r) ==
    \E p \in Processes :
        /\ phase[p] = "front"
        /\ runtime[p] # None
        /\ record[p][r].status \in Interruptible \union {"none"}

OrphansAreReconciled ==
    \A r \in Runs : <>[]Reconcilable(r) => []<>~Abandoned(r)
=============================================================================
