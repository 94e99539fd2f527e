-------------------------- MODULE PublishingProofs --------------------------
(***************************************************************************)
(* What a document's author and the operator of its runs can rely on, for  *)
(* every number of versions, processes, runs and gates: the store keeps    *)
(* the promise of VersionedDocument, what is served is what is stored, the *)
(* halves of a registration agree, and a run has one executor.             *)
(***************************************************************************)
EXTENDS Publishing, TLAPS, SequenceTheorems

\* The version rows run from 1 to the head, a document has a head, and a
\* published head compiled.
Recorded ==
    /\ \A v \in Versions : rows[v] = NoBody <=> v > head
    /\ Exists <=> head > 0
    /\ status = "published" => rows[head] \in Sound

\* Between the two writes of a publish, and only there, the halves differ.
Handlers ==
    \A p \in Processes :
        /\ request[p] \in {"runtime", "mark"} => maps[p] \in Graphs
        /\ request[p] # "runtime" => maps[p] = runtime[p]
        /\ phase[p] = "unborn" => request[p] = "idle"

\* A run is being executed only once every gate it opened is answered, and
\* nobody holds a prompt for a gate that was not opened.
Gates ==
    /\ \A r \in Runs :
          /\ answered[r] <= gate[r] /\ gate[r] <= answered[r] + 1
          /\ runRow[r] = "none" => gate[r] = 0 /\ \A p \in Processes : r \notin working[p]
    /\ \A p \in Processes, r \in Runs :
          /\ r \in working[p] => answered[r] = gate[r]
          /\ record[p][r].prompt <= gate[r]
    /\ \A p \in Processes : \A asked \in replying[p] : asked.gate <= gate[asked.run]

\* The inductive invariant of publishing.
PubInv ==
    /\ PublishingTypeOK
    /\ Recorded
    /\ ServedIsStored
    /\ Handlers
    /\ HalvesAgree
    /\ Gates
    /\ OneExecutor

-----------------------------------------------------------------------------
(* Which actions touch the rows, the registrations and the runs.           *)

\* The document changes only in the transactions of five handlers.
LEMMA OnlyDocuments ==
    ASSUME [Next]_vars
    PROVE  \/ \E p \in Processes :
                 \/ Create(p)
                 \/ \E expected \in 1..(MaxVersion - 1) : Save(p, expected)
                 \/ MarkPublished(p)
                 \/ Unpublish(p)
                 \/ DeleteRows(p)
           \/ UNCHANGED stored
BY DEF Next, Documents, Executions, Lifecycle, vars, Publish, PublishRuntime,
       Withdraw, Delete, Launch, Execute, Finish, Park, Read, Reply, Answer, Sweep,
       Boot, TakeOver, Stop

\* The registrations change only in the handlers, at boot and at the end.
LEMMA OnlyRegistrations ==
    ASSUME [Next]_vars
    PROVE  \/ \E p \in Processes :
                 \/ \E v \in Versions : Publish(p, v)
                 \/ PublishRuntime(p)
                 \/ MarkPublished(p)
                 \/ Unpublish(p)
                 \/ Withdraw(p)
                 \/ Delete(p)
                 \/ DeleteRows(p)
                 \/ Boot(p)
                 \/ TakeOver(p)
                 \/ Stop(p)
           \/ UNCHANGED <<registered, phase>>
BY DEF Next, Documents, Executions, Lifecycle, vars, Create, Save, Launch, Execute,
       Finish, Park, Read, Reply, Answer, Sweep

\* The runs change only in their own actions and when a process stops.
LEMMA OnlyRuns ==
    ASSUME [Next]_vars
    PROVE  \/ \E p \in Processes :
                 \/ \E r \in Runs : Launch(p, r)
                 \/ \E r \in Runs : Execute(p, r)
                 \/ \E r \in Runs : Finish(p, r)
                 \/ \E r \in Runs : Park(p, r)
                 \/ \E r \in Runs : Read(p, r)
                 \/ \E r \in Runs : Reply(p, r)
                 \/ \E r \in Runs : Answer(p, r)
                 \/ \E r \in Runs : Sweep(p, r)
                 \/ Stop(p)
           \/ UNCHANGED runs
BY DEF Next, Documents, Executions, Lifecycle, vars, Create, Save, Publish,
       PublishRuntime, MarkPublished, Unpublish, Withdraw, Delete, DeleteRows, Boot,
       TakeOver

\* Replacing one record of one process leaves the others.
LEMMA OneRecord ==
    ASSUME NEW old \in [Processes -> [Runs -> Records]],
           NEW p \in Processes, NEW r \in Runs, NEW c \in Records
    PROVE  LET new == [old EXCEPT ![p][r] = c]
           IN  /\ new \in [Processes -> [Runs -> Records]]
               /\ \A q \in Processes, s \in Runs :
                     new[q][s] = IF q = p /\ s = r THEN c ELSE old[q][s]
OBVIOUS

\* What an accepted answer does.
AnsweredBy(p, r, asked) ==
    /\ asked.run = r /\ Unanswered(asked)
    /\ answered' = [answered EXCEPT ![r] = asked.gate]
    /\ runRow' = [runRow EXCEPT ![r] = "running"]
    /\ record' = [record EXCEPT ![p][r] = Cached("queued", 0)]
    /\ working' = [working EXCEPT ![p] = @ \union {r}]

\* A call of answer_gate moves nothing or ends in an accepted answer.
LEMMA AnswerOutcome ==
    ASSUME NEW p \in Processes, NEW r \in Runs, Answer(p, r)
    PROVE  \/ UNCHANGED <<answered, runRow, record, working>>
           \/ \E asked \in replying[p] : AnsweredBy(p, r, asked)
BY DEF Answer, AnsweredBy

-----------------------------------------------------------------------------
(* Each part of the invariant, action by action.                           *)

\* The type of the rows of a document.
DocumentsTyped ==
    /\ head \in 0..MaxVersion
    /\ status \in {"none", "draft", "published", "deleted"}
    /\ rows \in [Versions -> Bodies \union {NoBody}]

\* The type of the registrations.
RegistrationsTyped ==
    /\ maps \in [Processes -> Graphs \union {None}]
    /\ runtime \in [Processes -> Graphs \union {None}]
    /\ request \in [Processes -> {"idle", "runtime", "mark", "withdraw", "delete"}]

\* The type of the runs.
RunsTyped ==
    /\ runRow \in [Runs -> Statuses]
    /\ gate \in [Runs -> 0..MaxGates]
    /\ answered \in [Runs -> 0..MaxGates]
    /\ admitted \in [Runs -> [priced : Graphs \union {None},
                              admitted : Graphs \union {None}]]
    /\ executed \in [Runs -> Graphs \union {None}]
    /\ working \in [Processes -> SUBSET Runs]
    /\ record \in [Processes -> [Runs -> Records]]
    /\ replying \in [Processes -> SUBSET [run : Runs, gate : 1..MaxGates]]

\* Every action keeps the document's columns in their domain.
LEMMA DocumentsTypedStep ==
    ASSUME PubInv, [Next]_vars
    PROVE  DocumentsTyped'
<1> USE PublishingAssumption DEF PubInv
<1>1. ASSUME NEW p \in Processes, Create(p) PROVE DocumentsTyped'
  BY <1>1 DEF Create, PublishingTypeOK, DocumentsTyped, Versions
<1>2. ASSUME NEW p \in Processes, NEW expected \in 1..(MaxVersion - 1), Save(p, expected)
      PROVE  DocumentsTyped'
  BY <1>2 DEF Save, PublishingTypeOK, DocumentsTyped, Versions
<1>3. ASSUME NEW p \in Processes, MarkPublished(p) PROVE DocumentsTyped'
  BY <1>3 DEF MarkPublished, PublishingTypeOK, DocumentsTyped
<1>4. ASSUME NEW p \in Processes, Unpublish(p) PROVE DocumentsTyped'
  BY <1>4 DEF Unpublish, PublishingTypeOK, DocumentsTyped
<1>5. ASSUME NEW p \in Processes, DeleteRows(p) PROVE DocumentsTyped'
  BY <1>5 DEF DeleteRows, PublishingTypeOK, DocumentsTyped, stored
<1>6. CASE UNCHANGED stored
  BY <1>6 DEF PublishingTypeOK, DocumentsTyped, stored
<1>q. QED
  BY <1>1, <1>2, <1>3, <1>4, <1>5, <1>6, OnlyDocuments

\* Every action keeps the version rows contiguous and a published head sound.
LEMMA RecordedStep ==
    ASSUME PubInv, [Next]_vars
    PROVE  Recorded'
<1> USE PublishingAssumption DEF PubInv
<1>1. ASSUME NEW p \in Processes, Create(p) PROVE Recorded'
  BY <1>1 DEF Create, PublishingTypeOK, Recorded, Versions, Exists
<1>2. ASSUME NEW p \in Processes, NEW expected \in 1..(MaxVersion - 1), Save(p, expected)
      PROVE  Recorded'
  BY <1>2 DEF Save, PublishingTypeOK, Recorded, Versions, Exists
<1>3. ASSUME NEW p \in Processes, MarkPublished(p) PROVE Recorded'
  BY <1>3 DEF MarkPublished, Recorded, Exists, IsHead, ServedIsStored, IsStored,
              Graphs, None
<1>4. ASSUME NEW p \in Processes, Unpublish(p) PROVE Recorded'
  BY <1>4 DEF Unpublish, Recorded, Exists
<1>5. ASSUME NEW p \in Processes, DeleteRows(p) PROVE Recorded'
  BY <1>5 DEF DeleteRows, Recorded, Versions, Exists, stored
<1>6. CASE UNCHANGED stored
  BY <1>6 DEF Recorded, Exists, stored
<1>q. QED
  BY <1>1, <1>2, <1>3, <1>4, <1>5, <1>6, OnlyDocuments

\* Every action keeps the registrations in their domain.
LEMMA RegistrationsTypedStep ==
    ASSUME PubInv, [Next]_vars
    PROVE  RegistrationsTyped'
<1> USE PublishingAssumption DEF PubInv
<1>1. ASSUME NEW p \in Processes, NEW v \in Versions, Publish(p, v)
      PROVE  RegistrationsTyped'
  BY <1>1 DEF Publish, PublishingTypeOK, RegistrationsTyped, Graph, Graphs
<1>2. ASSUME NEW p \in Processes, PublishRuntime(p) PROVE RegistrationsTyped'
  BY <1>2 DEF PublishRuntime, PublishingTypeOK, RegistrationsTyped, Unregister
<1>3. ASSUME NEW p \in Processes, MarkPublished(p) PROVE RegistrationsTyped'
  BY <1>3 DEF MarkPublished, PublishingTypeOK, RegistrationsTyped, Unregister
<1>4. ASSUME NEW p \in Processes, Unpublish(p) PROVE RegistrationsTyped'
  BY <1>4 DEF Unpublish, PublishingTypeOK, RegistrationsTyped
<1>5. ASSUME NEW p \in Processes, Withdraw(p) PROVE RegistrationsTyped'
  BY <1>5 DEF Withdraw, PublishingTypeOK, RegistrationsTyped, Unregister
<1>6. ASSUME NEW p \in Processes, Delete(p) PROVE RegistrationsTyped'
  BY <1>6 DEF Delete, PublishingTypeOK, RegistrationsTyped, Unregister
<1>7. ASSUME NEW p \in Processes, DeleteRows(p) PROVE RegistrationsTyped'
  BY <1>7 DEF DeleteRows, PublishingTypeOK, RegistrationsTyped
<1>8. ASSUME NEW p \in Processes, Boot(p) PROVE RegistrationsTyped'
  BY <1>8 DEF Boot, PublishingTypeOK, RegistrationsTyped, Recorded, Versions,
              Exists, Graph, Graphs
<1>9. ASSUME NEW p \in Processes, TakeOver(p) PROVE RegistrationsTyped'
  BY <1>9 DEF TakeOver, PublishingTypeOK, RegistrationsTyped, registered
<1>10. ASSUME NEW p \in Processes, Stop(p) PROVE RegistrationsTyped'
  BY <1>10 DEF Stop, PublishingTypeOK, RegistrationsTyped, Unregister
<1>11. CASE UNCHANGED <<registered, phase>>
  BY <1>11 DEF PublishingTypeOK, RegistrationsTyped, registered
<1>q. QED
  BY <1>1, <1>2, <1>3, <1>4, <1>5, <1>6, <1>7, <1>8, <1>9, <1>10, <1>11, OnlyRegistrations

\* Every action keeps the halves together but between the writes of a publish.
LEMMA HandlersStep ==
    ASSUME PubInv, [Next]_vars
    PROVE  Handlers'
<1> USE PublishingAssumption DEF PubInv
<1>1. ASSUME NEW p \in Processes, NEW v \in Versions, Publish(p, v) PROVE Handlers'
  BY <1>1 DEF Publish, PublishingTypeOK, Handlers, Graph, Graphs, Idle
<1>2. ASSUME NEW p \in Processes, PublishRuntime(p) PROVE Handlers'
  BY <1>2 DEF PublishRuntime, PublishingTypeOK, Handlers, Unregister
<1>3. ASSUME NEW p \in Processes, MarkPublished(p) PROVE Handlers'
  BY <1>3 DEF MarkPublished, PublishingTypeOK, Handlers, Unregister
<1>4. ASSUME NEW p \in Processes, Unpublish(p) PROVE Handlers'
  BY <1>4 DEF Unpublish, Handlers, Idle
<1>5. ASSUME NEW p \in Processes, Withdraw(p) PROVE Handlers'
  BY <1>5 DEF Withdraw, PublishingTypeOK, Handlers, Unregister
<1>6. ASSUME NEW p \in Processes, Delete(p) PROVE Handlers'
  BY <1>6 DEF Delete, Handlers, Unregister, Idle
<1>7. ASSUME NEW p \in Processes, DeleteRows(p) PROVE Handlers'
  BY <1>7 DEF DeleteRows, Handlers
<1>8. ASSUME NEW p \in Processes, Boot(p) PROVE Handlers'
  BY <1>8 DEF Boot, PublishingTypeOK, Handlers
<1>9. ASSUME NEW p \in Processes, TakeOver(p) PROVE Handlers'
  BY <1>9 DEF TakeOver, Handlers, registered
<1>10. ASSUME NEW p \in Processes, Stop(p) PROVE Handlers'
  BY <1>10 DEF Stop, PublishingTypeOK, Handlers, Unregister
<1>11. CASE UNCHANGED <<registered, phase>>
  BY <1>11 DEF Handlers, registered
<1>q. QED
  BY <1>1, <1>2, <1>3, <1>4, <1>5, <1>6, <1>7, <1>8, <1>9, <1>10, <1>11, OnlyRegistrations

\* Every action keeps the runs in their domain.
LEMMA RunsTypedStep ==
    ASSUME PubInv, [Next]_vars
    PROVE  RunsTyped'
<1> USE PublishingAssumption DEF PubInv
<1>1. ASSUME NEW p \in Processes, NEW r \in Runs, Launch(p, r) PROVE RunsTyped'
  BY <1>1 DEF Launch, PublishingTypeOK, RunsTyped, Records, Statuses, Cached
<1>2. ASSUME NEW p \in Processes, NEW r \in Runs, Execute(p, r) PROVE RunsTyped'
  BY <1>2 DEF Execute, PublishingTypeOK, RunsTyped, Records, Statuses, Cached
<1>3. ASSUME NEW p \in Processes, NEW r \in Runs, Finish(p, r) PROVE RunsTyped'
  BY <1>3 DEF Finish, PublishingTypeOK, RunsTyped, Records, Statuses, Cached
<1>4. ASSUME NEW p \in Processes, NEW r \in Runs, Park(p, r) PROVE RunsTyped'
  BY <1>4 DEF Park, PublishingTypeOK, RunsTyped, Records, Statuses, Cached
<1>5. ASSUME NEW p \in Processes, NEW r \in Runs, Read(p, r) PROVE RunsTyped'
  BY <1>5 DEF Read, PublishingTypeOK, RunsTyped, Records, Cached, Restored, Held
<1>6. ASSUME NEW p \in Processes, NEW r \in Runs, Reply(p, r) PROVE RunsTyped'
  BY <1>6 DEF Reply, PublishingTypeOK, RunsTyped, Records, Cached, Restored, Held
<1>7. ASSUME NEW p \in Processes, NEW r \in Runs, Answer(p, r) PROVE RunsTyped'
  <2>1. Cached("queued", 0) \in Records
    BY DEF Cached, Records, Statuses
  <2>2. /\ UNCHANGED <<gate, admitted, executed>>
        /\ replying' = [replying EXCEPT ![p] = {}]
    BY <1>7 DEF Answer
  <2>3. CASE UNCHANGED <<answered, runRow, record, working>>
    BY <2>2, <2>3 DEF PublishingTypeOK, RunsTyped
  <2>4. ASSUME NEW asked \in replying[p], AnsweredBy(p, r, asked) PROVE RunsTyped'
    <3>1. record' \in [Processes -> [Runs -> Records]]
      BY <2>1, <2>4, OneRecord DEF AnsweredBy, PublishingTypeOK
    <3>2. asked.gate \in 0..MaxGates
      BY DEF PublishingTypeOK
    <3>3. answered' \in [Runs -> 0..MaxGates] /\ working' \in [Processes -> SUBSET Runs]
      BY <2>4, <3>2 DEF AnsweredBy, PublishingTypeOK
    <3>4. runRow' \in [Runs -> Statuses]
      BY <2>4 DEF AnsweredBy, PublishingTypeOK, Statuses
    <3>q. QED
      BY <2>2, <3>1, <3>3, <3>4 DEF PublishingTypeOK, RunsTyped
  <2>q. QED
    BY <1>7, <2>3, <2>4, AnswerOutcome
<1>8. ASSUME NEW p \in Processes, NEW r \in Runs, Sweep(p, r) PROVE RunsTyped'
  <2>1. Cached("ended", 0) \in Records /\ NoRecord \in Records
    BY DEF Cached, NoRecord, Records, Statuses
  <2>2. PICK c \in Records : record' = [record EXCEPT ![p][r] = c]
    BY <1>8, <2>1 DEF Sweep
  <2>3. record' \in [Processes -> [Runs -> Records]]
    BY <2>2, OneRecord DEF PublishingTypeOK
  <2>q. QED
    BY <1>8, <2>3 DEF Sweep, PublishingTypeOK, RunsTyped, Statuses
<1>9. ASSUME NEW p \in Processes, Stop(p) PROVE RunsTyped'
  BY <1>9 DEF Stop, PublishingTypeOK, RunsTyped, Records, Statuses, Cached, NoRecord
<1>10. CASE UNCHANGED runs
  BY <1>10 DEF PublishingTypeOK, RunsTyped, runs
<1>q. QED
  BY <1>1, <1>2, <1>3, <1>4, <1>5, <1>6, <1>7, <1>8, <1>9, <1>10, OnlyRuns

\* Every action keeps an execution behind the answers to its gates.
LEMMA GatesStep ==
    ASSUME PubInv, [Next]_vars
    PROVE  Gates'
<1> USE PublishingAssumption DEF PubInv
<1>1. ASSUME NEW p \in Processes, NEW r \in Runs, Launch(p, r) PROVE Gates'
  BY <1>1 DEF Launch, PublishingTypeOK, Gates, Cached
<1>2. ASSUME NEW p \in Processes, NEW r \in Runs, Execute(p, r) PROVE Gates'
  BY <1>2 DEF Execute, PublishingTypeOK, Gates, Cached
<1>3. ASSUME NEW p \in Processes, NEW r \in Runs, Finish(p, r) PROVE Gates'
  BY <1>3 DEF Finish, PublishingTypeOK, Gates, Cached
<1>4. ASSUME NEW p \in Processes, NEW r \in Runs, Park(p, r) PROVE Gates'
  <2>1. Cached("waiting", gate[r] + 1) \in Records
    BY <1>4 DEF Park, Cached, Records, Statuses, PublishingTypeOK
  <2>2. Cached("waiting", gate[r] + 1).prompt = gate[r] + 1
    BY DEF Cached
  <2>3. \A q \in Processes, s \in Runs :
           record'[q][s] =
              IF q = p /\ s = r THEN Cached("waiting", gate[r] + 1) ELSE record[q][s]
    BY <1>4, <2>1, OneRecord DEF Park, PublishingTypeOK
  <2>4. gate'[r] = gate[r] + 1 /\ \A s \in Runs \ {r} : gate'[s] = gate[s]
    BY <1>4 DEF Park, PublishingTypeOK
  <2>5. ASSUME NEW q \in Processes, NEW s \in Runs PROVE record'[q][s].prompt <= gate'[s]
    <3>1. record[q][s].prompt \in Nat /\ gate[s] \in Nat /\ record[q][s].prompt <= gate[s]
      BY DEF Gates, PublishingTypeOK, Records
    <3>2. gate'[s] >= gate[s]
      BY <2>4, <3>1
    <3>3. CASE q = p /\ s = r
      BY <2>2, <2>3, <2>4, <3>1, <3>3
    <3>4. CASE ~(q = p /\ s = r)
      <4>1. record'[q][s] = record[q][s]
        BY <2>3, <3>4
      <4>q. QED
        BY <2>4, <3>1, <3>2, <4>1
    <3>q. QED
      BY <3>3, <3>4
  <2>6. \A q \in Processes : r \notin working'[q] /\ working'[q] \subseteq working[q]
    BY <1>4 DEF Park, OneExecutor, PublishingTypeOK
  <2>7. runRow'[r] = "waiting" /\ \A s \in Runs \ {r} : runRow'[s] = runRow[s]
    BY <1>4 DEF Park, PublishingTypeOK
  <2>8. UNCHANGED <<answered, replying>> /\ answered[r] = gate[r]
    BY <1>4 DEF Park, Gates
  <2>9. ASSUME NEW s \in Runs PROVE answered[s] <= gate'[s] /\ gate'[s] <= answered[s] + 1
    <3>1. answered[s] \in Nat /\ gate[s] \in Nat
          /\ answered[s] <= gate[s] /\ gate[s] <= answered[s] + 1
      BY DEF Gates, PublishingTypeOK
    <3>q. QED
      BY <2>4, <2>8, <3>1
  <2>10. \A q \in Processes : \A asked \in replying[q] : asked.gate <= gate'[asked.run]
    BY <2>4 DEF Gates, PublishingTypeOK
  <2>q. QED
    BY <2>4, <2>5, <2>6, <2>7, <2>8, <2>9, <2>10 DEF Gates
<1>5. ASSUME NEW p \in Processes, NEW r \in Runs, Read(p, r) PROVE Gates'
  BY <1>5 DEF Read, PublishingTypeOK, Gates, Cached, Restored, Held
<1>6. ASSUME NEW p \in Processes, NEW r \in Runs, Reply(p, r) PROVE Gates'
  BY <1>6 DEF Reply, PublishingTypeOK, Gates, Cached, Restored, Held
<1>7. ASSUME NEW p \in Processes, NEW r \in Runs, Answer(p, r) PROVE Gates'
  <2>1. UNCHANGED gate /\ replying' = [replying EXCEPT ![p] = {}]
    BY <1>7 DEF Answer
  <2>2. CASE UNCHANGED <<answered, runRow, record, working>>
    BY <2>1, <2>2 DEF Gates
  <2>3. ASSUME NEW asked \in replying[p], AnsweredBy(p, r, asked) PROVE Gates'
    <3>1. asked.gate <= gate[r] /\ asked.gate \in 0..MaxGates /\ gate[r] > 0
      BY <2>3 DEF AnsweredBy, Gates, PublishingTypeOK
    <3>2. Cached("queued", 0) \in Records /\ Cached("queued", 0).prompt = 0
      BY DEF Cached, Records, Statuses
    <3>3. \A q \in Processes, s \in Runs : record'[q][s].prompt <= gate[s]
      BY <2>3, <3>2, OneRecord DEF AnsweredBy, Gates, PublishingTypeOK
    <3>0. answered[r] \in Nat /\ gate[r] \in Nat /\ gate[r] <= answered[r] + 1
      BY DEF Gates, PublishingTypeOK
    <3>8. asked.gate = gate[r]
      BY <2>3, <3>0, <3>1 DEF AnsweredBy, Unanswered
    <3>4. answered'[r] = gate[r] /\ \A s \in Runs \ {r} : answered'[s] = answered[s]
      BY <2>3, <3>8 DEF AnsweredBy, PublishingTypeOK
    <3>5. \A q \in Processes, s \in Runs \ {r} : s \in working'[q] => s \in working[q]
      BY <2>3 DEF AnsweredBy
    <3>6. \A s \in Runs : runRow'[s] = "none" => s # r /\ runRow[s] = "none"
      BY <2>3 DEF AnsweredBy, PublishingTypeOK
    <3>7. \A q \in Processes : replying'[q] \subseteq replying[q]
      BY <2>1
    <3>9. gate' = gate
      BY <2>1
    <3>10. \A s \in Runs : answered'[s] <= gate'[s] /\ gate'[s] <= answered'[s] + 1
      BY <3>0, <3>4, <3>9 DEF Gates
    <3>11. \A s \in Runs : runRow'[s] = "none" =>
              gate'[s] = 0 /\ \A q \in Processes : s \notin working'[q]
      BY <3>5, <3>6, <3>9 DEF Gates
    <3>12. \A q \in Processes, s \in Runs :
              /\ s \in working'[q] => answered'[s] = gate'[s]
              /\ record'[q][s].prompt <= gate'[s]
      BY <3>3, <3>4, <3>5, <3>9 DEF Gates
    <3>13. \A q \in Processes : \A other \in replying'[q] : other.gate <= gate'[other.run]
      BY <3>7, <3>9 DEF Gates
    <3>q. QED
      BY <3>10, <3>11, <3>12, <3>13 DEF Gates
  <2>q. QED
    BY <1>7, <2>2, <2>3, AnswerOutcome
<1>8. ASSUME NEW p \in Processes, NEW r \in Runs, Sweep(p, r) PROVE Gates'
  <2>1. Cached("ended", 0) \in Records /\ NoRecord \in Records
    BY DEF Cached, NoRecord, Records, Statuses
  <2>2. Cached("ended", 0).prompt = 0 /\ NoRecord.prompt = 0
    BY DEF Cached, NoRecord
  <2>3. \A q \in Processes, s \in Runs : record'[q][s].prompt <= gate[s]
    <3>1. PICK c \in Records : c.prompt = 0 /\ record' = [record EXCEPT ![p][r] = c]
      BY <1>8, <2>1, <2>2 DEF Sweep
    <3>2. \A q \in Processes, s \in Runs :
             record'[q][s] = IF q = p /\ s = r THEN c ELSE record[q][s]
      BY <3>1, OneRecord DEF PublishingTypeOK
    <3>q. QED
      BY <3>1, <3>2 DEF Gates, PublishingTypeOK
  <2>4. \A s \in Runs : runRow'[s] = "none" => runRow[s] = "none"
    BY <1>8 DEF Sweep, PublishingTypeOK
  <2>5. UNCHANGED <<gate, answered, working, replying>>
    BY <1>8 DEF Sweep
  <2>q. QED
    BY <2>3, <2>4, <2>5 DEF Gates
<1>9. ASSUME NEW p \in Processes, Stop(p) PROVE Gates'
  BY <1>9 DEF Stop, PublishingTypeOK, Gates, Cached, NoRecord
<1>10. CASE UNCHANGED runs
  BY <1>10 DEF Gates, runs
<1>q. QED
  BY <1>1, <1>2, <1>3, <1>4, <1>5, <1>6, <1>7, <1>8, <1>9, <1>10, OnlyRuns

\* Every action leaves a run to one process.
LEMMA OneExecutorStep ==
    ASSUME PubInv, [Next]_vars
    PROVE  OneExecutor'
<1> USE PublishingAssumption DEF PubInv
<1>1. ASSUME NEW p \in Processes, NEW r \in Runs, Launch(p, r) PROVE OneExecutor'
  BY <1>1 DEF Launch, Gates, OneExecutor
<1>2. ASSUME NEW p \in Processes, NEW r \in Runs, Execute(p, r) PROVE OneExecutor'
  BY <1>2 DEF Execute, OneExecutor
<1>3. ASSUME NEW p \in Processes, NEW r \in Runs, Finish(p, r) PROVE OneExecutor'
  BY <1>3 DEF Finish, OneExecutor
<1>4. ASSUME NEW p \in Processes, NEW r \in Runs, Park(p, r) PROVE OneExecutor'
  BY <1>4 DEF Park, OneExecutor
<1>5. ASSUME NEW p \in Processes, NEW r \in Runs, Read(p, r) PROVE OneExecutor'
  BY <1>5 DEF Read, OneExecutor
<1>6. ASSUME NEW p \in Processes, NEW r \in Runs, Reply(p, r) PROVE OneExecutor'
  BY <1>6 DEF Reply, OneExecutor
<1>7. ASSUME NEW p \in Processes, NEW r \in Runs, Answer(p, r) PROVE OneExecutor'
  <2>1. CASE UNCHANGED <<answered, runRow, record, working>>
    BY <2>1 DEF OneExecutor
  <2>2. ASSUME NEW asked \in replying[p], AnsweredBy(p, r, asked) PROVE OneExecutor'
    <3>1. \A q \in Processes : r \notin working[q]
      BY <2>2 DEF AnsweredBy, Unanswered, Gates, PublishingTypeOK
    <3>q. QED
      BY <2>2, <3>1 DEF AnsweredBy, OneExecutor
  <2>q. QED
    BY <1>7, <2>1, <2>2, AnswerOutcome
<1>8. ASSUME NEW p \in Processes, NEW r \in Runs, Sweep(p, r) PROVE OneExecutor'
  BY <1>8 DEF Sweep, OneExecutor
<1>9. ASSUME NEW p \in Processes, Stop(p) PROVE OneExecutor'
  BY <1>9 DEF Stop, OneExecutor
<1>10. CASE UNCHANGED runs
  BY <1>10 DEF OneExecutor, runs
<1>q. QED
  BY <1>1, <1>2, <1>3, <1>4, <1>5, <1>6, <1>7, <1>8, <1>9, <1>10, OnlyRuns

\* A stored graph stays stored: a save writes a row that was not there, and a
\* delete takes the document with it.
LEMMA StillStored ==
    ASSUME PubInv, [Next]_vars, NEW graph \in Graphs \union {None}, IsStored(graph)
    PROVE  IsStored(graph)'
<1> USE PublishingAssumption DEF PubInv
<1>1. CASE graph = None
  BY <1>1 DEF IsStored
<1>2. CASE graph # None
  <2>1. graph.body \in Sound /\ graph.version \in Versions
    BY <1>2 DEF IsStored, Graphs
  <2>2. CASE status = "deleted"
    <3>1. status' = "deleted"
      BY <2>2, OnlyDocuments DEF Create, Save, MarkPublished, IsHead, Unpublish,
                                 DeleteRows, Exists, stored
    <3>q. QED
      BY <2>1, <3>1 DEF IsStored
  <2>3. CASE status # "deleted"
    <3>1. rows[graph.version] = graph.body /\ rows[graph.version] # NoBody
      BY <1>2, <2>1, <2>3 DEF IsStored
    <3>2. graph.version <= head
      BY <2>1, <3>1 DEF Recorded, Versions, PublishingTypeOK
    <3>3. ASSUME status' # "deleted" PROVE rows'[graph.version] = rows[graph.version]
      <4>1. ASSUME NEW p \in Processes, Create(p) PROVE FALSE
        BY <3>2, <2>1, <4>1 DEF Create, Recorded, Exists, Versions, PublishingTypeOK
      <4>2. ASSUME NEW p \in Processes, NEW expected \in 1..(MaxVersion - 1),
                   Save(p, expected)
            PROVE  rows'[graph.version] = rows[graph.version]
        BY <3>1, <2>1, <4>2 DEF Save
      <4>3. ASSUME NEW p \in Processes, DeleteRows(p)
            PROVE  rows'[graph.version] = rows[graph.version]
        BY <3>3, <4>3 DEF DeleteRows, stored
      <4>q. QED
        BY <4>1, <4>2, <4>3, OnlyDocuments DEF MarkPublished, Unpublish, stored
    <3>q. QED
      BY <2>1, <3>1, <3>3 DEF IsStored
  <2>q. QED
    BY <2>2, <2>3
<1>q. QED
  BY <1>1, <1>2

\* The graphs of the versions that compile.
Compiled == {Graph(v) : v \in {w \in Versions : rows[w] \in Sound}}

\* A registration is the one that was there, none, the other half of it, or a
\* version that was just compiled.
LEMMA RegistrationSources ==
    ASSUME PubInv, [Next]_vars, NEW q \in Processes
    PROVE  /\ maps'[q] \in {maps[q], None} \union Compiled
           /\ runtime'[q] \in {runtime[q], maps[q], None} \union Compiled
<1> USE PublishingAssumption DEF PubInv
<1>1. ASSUME NEW p \in Processes, NEW v \in Versions, Publish(p, v)
      PROVE  maps'[q] \in {maps[q]} \union Compiled /\ runtime'[q] = runtime[q]
  BY <1>1 DEF Publish, Compiled
<1>2. ASSUME NEW p \in Processes, Boot(p)
      PROVE  /\ maps'[q] \in {maps[q], None} \union Compiled
             /\ runtime'[q] \in {runtime[q], None} \union Compiled
  BY <1>2 DEF Boot, PublishingTypeOK, Compiled, Recorded, Exists, Versions
<1>3. ASSUME NEW p \in Processes,
             PublishRuntime(p) \/ MarkPublished(p) \/ Withdraw(p) \/ Delete(p) \/ Stop(p)
      PROVE  maps'[q] \in {maps[q], None} /\ runtime'[q] \in {runtime[q], maps[q], None}
  BY <1>3 DEF PublishRuntime, MarkPublished, Withdraw, Delete, Stop, Unregister,
              PublishingTypeOK
<1>q. QED
  BY <1>1, <1>2, <1>3, OnlyRegistrations DEF Unpublish, DeleteRows, TakeOver,
                                             registered

\* A run is admitted for, and executes, what is registered at that moment.
LEMMA RunSources ==
    ASSUME PubInv, [Next]_vars, NEW s \in Runs
    PROVE  /\ \/ admitted'[s] = admitted[s]
              \/ \E p \in Processes :
                     /\ request[p] = "idle"
                     /\ admitted'[s] = [priced |-> maps[p], admitted |-> runtime[p]]
           /\ executed'[s] \in {executed[s]} \union {runtime[p] : p \in Processes}
<1> USE PublishingAssumption DEF PubInv
<1>1. ASSUME NEW p \in Processes, NEW r \in Runs, Launch(p, r)
      PROVE  /\ executed' = executed /\ request[p] = "idle"
             /\ admitted'[s] \in {admitted[s], [priced |-> maps[p], admitted |-> runtime[p]]}
  BY <1>1 DEF Launch, Idle
<1>2. ASSUME NEW p \in Processes, NEW r \in Runs, Execute(p, r)
      PROVE  admitted' = admitted /\ executed'[s] \in {executed[s], runtime[p]}
  BY <1>2 DEF Execute
<1>q. QED
  BY <1>1, <1>2, OnlyRuns DEF Finish, Park, Read, Reply, Answer, Sweep, Stop, runs

\* Every action keeps what is served a stored version.
LEMMA ServedStep ==
    ASSUME PubInv, [Next]_vars
    PROVE  ServedIsStored'
<1> USE PublishingAssumption DEF PubInv
<1>1. ASSUME NEW graph \in Compiled PROVE IsStored(graph) /\ graph \in Graphs
  BY DEF Compiled, Graph, IsStored, Graphs
<1>2. IsStored(None) /\ None \in Graphs \union {None}
  BY DEF IsStored
<1>3. \A p \in Processes : /\ IsStored(maps[p]) /\ maps[p] \in Graphs \union {None}
                          /\ IsStored(runtime[p]) /\ runtime[p] \in Graphs \union {None}
  BY DEF ServedIsStored, PublishingTypeOK
<1>4. \A r \in Runs : /\ IsStored(admitted[r].admitted)
                     /\ admitted[r].admitted \in Graphs \union {None}
                     /\ IsStored(executed[r]) /\ executed[r] \in Graphs \union {None}
  BY DEF ServedIsStored, PublishingTypeOK
<1>5. ASSUME NEW q \in Processes PROVE IsStored(maps[q])' /\ IsStored(runtime[q])'
  <2>1. PICK graph \in Graphs \union {None} : graph = maps'[q] /\ IsStored(graph)
    BY <1>1, <1>2, <1>3, RegistrationSources
  <2>2. PICK other \in Graphs \union {None} : other = runtime'[q] /\ IsStored(other)
    BY <1>1, <1>2, <1>3, RegistrationSources
  <2>3. IsStored(graph)' /\ IsStored(other)'
    BY <2>1, <2>2, StillStored
  <2>q. QED
    BY <2>1, <2>2, <2>3
<1>6. ASSUME NEW s \in Runs PROVE IsStored(admitted[s].admitted)' /\ IsStored(executed[s])'
  <2>1. PICK graph \in Graphs \union {None} : graph = admitted'[s].admitted /\ IsStored(graph)
    <3>1. CASE admitted'[s] = admitted[s]
      BY <1>4, <3>1
    <3>2. ASSUME NEW p \in Processes,
                 admitted'[s] = [priced |-> maps[p], admitted |-> runtime[p]]
          PROVE  admitted'[s].admitted = runtime[p]
      BY <3>2
    <3>q. QED
      BY <1>3, <3>1, <3>2, RunSources
  <2>2. PICK other \in Graphs \union {None} : other = executed'[s] /\ IsStored(other)
    BY <1>3, <1>4, RunSources
  <2>3. IsStored(graph)' /\ IsStored(other)'
    BY <2>1, <2>2, StillStored
  <2>q. QED
    BY <2>1, <2>2, <2>3
<1>q. QED
  BY <1>5, <1>6 DEF ServedIsStored

\* Every action keeps the price of a run the price of what it was admitted for.
LEMMA HalvesStep ==
    ASSUME PubInv, [Next]_vars
    PROVE  HalvesAgree'
<1> USE DEF PubInv
<1>1. \A p \in Processes : (request[p] = "idle" => maps[p] = runtime[p])'
  BY HandlersStep DEF Handlers
<1>2. ASSUME NEW s \in Runs PROVE admitted'[s].priced = admitted'[s].admitted
  <2>1. CASE admitted'[s] = admitted[s]
    BY <2>1 DEF HalvesAgree
  <2>2. ASSUME NEW p \in Processes, request[p] = "idle",
               admitted'[s] = [priced |-> maps[p], admitted |-> runtime[p]]
        PROVE  admitted'[s].priced = admitted'[s].admitted
    BY <2>2 DEF HalvesAgree
  <2>q. QED
    BY <2>1, <2>2, RunSources
<1>q. QED
  BY <1>1, <1>2 DEF HalvesAgree

-----------------------------------------------------------------------------
(* The invariant, and the properties that follow from it.                  *)

\* The invariant holds when the first process starts on an empty store.
LEMMA PubInvStart == Init => PubInv
<1> SUFFICES ASSUME Init PROVE PubInv
  OBVIOUS
<1> USE PublishingAssumption DEF Init
<1>1. PublishingTypeOK
  BY DEF PublishingTypeOK, Statuses, Records, Cached, NoRecord
<1>2. Recorded
  BY DEF Recorded, Exists, Versions
<1>3. ServedIsStored /\ Handlers /\ HalvesAgree
  BY DEF ServedIsStored, IsStored, Handlers, HalvesAgree
<1>4. Gates /\ OneExecutor
  BY DEF Gates, OneExecutor, Cached, NoRecord
<1>q. QED
  BY <1>1, <1>2, <1>3, <1>4 DEF PubInv

\* Every step keeps it.
LEMMA PubInvStep ==
    ASSUME PubInv, [Next]_vars
    PROVE  PubInv'
<1>1. phase' \in [Processes -> {"unborn", "booted", "front", "draining", "gone"}]
  <2>1. ASSUME NEW p \in Processes, Lifecycle(p)
        PROVE  phase' \in [Processes -> {"unborn", "booted", "front", "draining", "gone"}]
    BY <2>1 DEF PubInv, PublishingTypeOK, Lifecycle, Boot, TakeOver, Stop
  <2>2. CASE \A p \in Processes : ~Lifecycle(p)
    <3>1. phase' = phase
      BY <2>2 DEF Next, Documents, Executions, vars, Create, Save, Publish,
                  PublishRuntime, MarkPublished, Unpublish, Withdraw, Delete,
                  DeleteRows, Launch, Execute, Finish, Park, Read, Reply, Answer,
                  Sweep
    <3>q. QED
      BY <3>1 DEF PubInv, PublishingTypeOK
  <2>q. QED
    BY <2>1, <2>2
<1>2. PublishingTypeOK'
  BY <1>1, DocumentsTypedStep, RegistrationsTypedStep, RunsTypedStep DEF
     PublishingTypeOK, DocumentsTyped, RegistrationsTyped, RunsTyped
<1>3. Recorded' /\ ServedIsStored'
  BY RecordedStep, ServedStep
<1>4. Handlers' /\ HalvesAgree'
  BY HandlersStep, HalvesStep
<1>5. Gates' /\ OneExecutor'
  BY GatesStep, OneExecutorStep
<1>q. QED
  BY <1>2, <1>3, <1>4, <1>5 DEF PubInv

\* The invariant holds of every behaviour.
LEMMA PubInvAlways == Spec => []PubInv
BY PubInvStart, PubInvStep, PTL DEF Spec

\* Every variable keeps its shape.
THEOREM PublishingIsTyped == Spec => []PublishingTypeOK
<1>1. PubInv => PublishingTypeOK
  BY DEF PubInv
<1>q. QED
  BY <1>1, PubInvAlways, PTL

\* What any process serves, admits or has executed is a stored version that
\* compiled, body for body.
THEOREM ServedVersionsAreStored == Spec => []ServedIsStored
<1>1. PubInv => ServedIsStored
  BY DEF PubInv
<1>q. QED
  BY <1>1, PubInvAlways, PTL

\* Between two requests both halves of a registration hold the same graph, so a
\* run is admitted for the graph whose price was checked.
THEOREM RegistrationIsOne == Spec => []HalvesAgree
<1>1. PubInv => HalvesAgree
  BY DEF PubInv
<1>q. QED
  BY <1>1, PubInvAlways, PTL

\* Two processes never execute one run.
THEOREM RunsHaveOneExecutor == Spec => []OneExecutor
<1>1. PubInv => OneExecutor
  BY DEF PubInv
<1>q. QED
  BY <1>1, PubInvAlways, PTL

-----------------------------------------------------------------------------
(* The store implements VersionedDocument.                                 *)

\* The versions that the document store promises to keep.
History == [v \in 1..head |-> rows[v]]

\* The history is a sequence as long as the head's version says.
LEMMA HistoryIsASequence ==
    ASSUME PubInv
    PROVE  History \in Seq(Bodies) /\ Len(History) = head /\ head \in Nat
<1>1. head \in Nat /\ head <= MaxVersion
  BY PublishingAssumption DEF PubInv, PublishingTypeOK
<1>2. \A v \in 1..head : rows[v] \in Bodies
  BY <1>1, PublishingAssumption DEF PubInv, PublishingTypeOK, Recorded, Versions
<1>q. QED
  BY <1>1, <1>2 DEF History

\* A save appends to it.
LEMMA HistoryGrows ==
    ASSUME PubInv, NEW body \in Bodies, head' = head + 1,
           rows' = [rows EXCEPT ![head + 1] = body], head + 1 \in Versions
    PROVE  History' = Append(History, body)
<1>1. History \in Seq(Bodies) /\ Len(History) = head /\ head \in Nat
  BY HistoryIsASequence
<1>2. rows'[head + 1] = body /\ \A v \in 1..head : rows'[v] = rows[v]
  BY <1>1 DEF PubInv, PublishingTypeOK
<1>q. QED
  BY <1>1, <1>2 DEF History

\* An empty store is a document without a history.
LEMMA DocumentStart == Init => Document!Init
BY DEF Init, Document!Init

\* Every step of the store is a step of the document, or none: a create and a
\* save edit it, a publish releases it, and the other handlers withdraw or
\* remove it.
LEMMA DocumentStep ==
    ASSUME PubInv, [Next]_vars
    PROVE  [Document!Next]_(Document!vars)
<1> USE PublishingAssumption DEF PubInv
<1>1. ASSUME NEW p \in Processes, Create(p) PROVE Document!Edit
  <2>1. PICK body \in Bodies : rows' = [rows EXCEPT ![1] = body]
    BY <1>1 DEF Create
  <2>2. head = 0 /\ head' = 1 /\ 1 \in Versions
    BY <1>1 DEF Create, Recorded, Exists, PublishingTypeOK, Versions
  <2>3. /\ head' = head + 1 /\ head + 1 \in Versions
        /\ rows' = [rows EXCEPT ![head + 1] = body]
    BY <2>1, <2>2
  <2>4. History' = Append(History, body)
    BY <2>3, HistoryGrows
  <2>q. QED
    BY <1>1, <2>4 DEF Create, Document!Edit, History
<1>2. ASSUME NEW p \in Processes, NEW expected \in 1..(MaxVersion - 1), Save(p, expected)
      PROVE  Document!Edit
  <2>1. PICK body \in Bodies : rows' = [rows EXCEPT ![head + 1] = body]
    BY <1>2 DEF Save
  <2>2. head' = head + 1 /\ head + 1 \in Versions
    BY <1>2 DEF Save, Versions
  <2>3. History' = Append(History, body)
    BY <2>1, <2>2, HistoryGrows
  <2>q. QED
    BY <1>2, <2>3 DEF Save, Exists, Document!Edit, History
<1>3. ASSUME NEW p \in Processes, MarkPublished(p)
      PROVE  Document!Release \/ UNCHANGED stored
  <2>1. CASE ~IsHead(p)
    BY <1>3, <2>1 DEF MarkPublished, stored
  <2>2. CASE IsHead(p)
    <3>1. status' = "published" /\ UNCHANGED <<head, rows>> /\ Exists /\ head > 0
      BY <1>3, <2>2 DEF MarkPublished, IsHead, Recorded
    <3>2. rows[head] \in Sound
      BY <1>3, <2>2 DEF MarkPublished, IsHead, Exists, Handlers, ServedIsStored,
                        IsStored, Graphs, None
    <3>3. History[Len(History)] \in Sound /\ History # <<>>
      BY <3>1, <3>2, HistoryIsASequence DEF History
    <3>q. QED
      BY <3>1, <3>3 DEF Exists, Document!Release, History
  <2>q. QED
    BY <2>1, <2>2
<1>4. ASSUME NEW p \in Processes, Unpublish(p) PROVE Document!Withdraw
  BY <1>4 DEF Unpublish, Exists, Document!Withdraw
<1>5. ASSUME NEW p \in Processes, DeleteRows(p)
      PROVE  Document!Remove \/ UNCHANGED stored
  BY <1>5 DEF DeleteRows, Document!Remove
<1>6. ASSUME UNCHANGED stored PROVE UNCHANGED Document!vars
  BY <1>6 DEF stored, Document!vars
<1>q. QED
  BY <1>1, <1>2, <1>3, <1>4, <1>5, <1>6, OnlyDocuments DEF Document!Next

\* The store keeps what VersionedDocument promises, whichever processes act.
THEOREM StoreImplementsDocument == Spec => ImplementsDocument
<1>1. Spec => []PubInv
  BY PubInvAlways
<1>2. PubInv /\ [Next]_vars => [Document!Next]_(Document!vars)
  BY DocumentStep
<1>q. QED
  BY <1>1, <1>2, DocumentStart, PTL DEF Spec, ImplementsDocument, Document!Spec
=============================================================================
