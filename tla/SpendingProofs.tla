---- MODULE SpendingProofs ----
(***************************************************************************)
(* What admission and the ceiling guarantee, for every set of runs and     *)
(* every cap, ceiling, queue bound and call price: no reservation leaks,   *)
(* the queue bound holds, a run's bill is bounded over its whole life, and *)
(* the money in memory is never behind the rows.                           *)
(***************************************************************************)
EXTENDS Spending, TLAPS, FiniteSetTheorems

\* The statuses of a run.
Statuses == {"none", "queued", "running", "waiting", "ended", "purged"}
\* What the registry and the store hold of a run.
Records == [held : BOOLEAN, status : Statuses, spent : Nat, tripped : BOOLEAN,
            stopping : BOOLEAN, gate : BOOLEAN]
\* The row of a run.
Rows == [status : Statuses, spent : Nat, tripped : BOOLEAN, gate : BOOLEAN]

\* The type of the state, as sets.
Typed ==
    /\ launch \in [at : LaunchSteps, run : Runs]
    /\ reserved \subseteq Runs /\ resumed \subseteq Runs
    /\ promised \in [Runs -> Nat] /\ ceiling \in [Runs -> Nat]
    /\ record \in [Runs -> Records] /\ row \in [Runs -> Rows]
    /\ work \in [Runs -> Work] /\ inflight \in [Runs -> Nat]

\* A run never admitted has left no trace.
Fresh(r) == ceiling[r] = 0 => ~record[r].held /\ row[r] = NoRow

\* What a launch under way has done so far.
LaunchInv ==
    /\ launch.at \in {"rows", "admit"} => ceiling[launch.run] = 0
    /\ launch.at \in {"register", "install", "start"} =>
          /\ ceiling[launch.run] > 0 /\ work[launch.run] = "idle"
          /\ row[launch.run].spent = 0 /\ ~row[launch.run].tripped
    /\ launch.at = "register" => row[launch.run] = NoRow
    /\ launch.at \in {"install", "start"} => row[launch.run].status = "queued"
    /\ launch.at \in {"register", "install"} => ~record[launch.run].held
    /\ launch.at = "start" => record[launch.run].held /\ record[launch.run].status = "queued"

\* A run is executed only while its record is held, a call is in flight only
\* while it runs, and neither copy reaches the ceiling without having tripped.
Accounted(r) ==
    /\ work[r] # "idle" => record[r].held
    /\ inflight[r] > 0 => work[r] = "running"
    /\ record[r].held => row[r].spent <= record[r].spent
    /\ record[r].held /\ ~record[r].tripped => record[r].spent < ceiling[r]
    /\ ceiling[r] > 0 /\ ~row[r].tripped => row[r].spent < ceiling[r]

\* What a record counts and the calls in flight stay within the ceiling and its
\* overshoot, as long as the ceiling that tripped also stopped the run.
Bounded(r) ==
    record[r].held /\ (record[r].tripped => record[r].stopping) =>
        record[r].spent + inflight[r] * MaxCall <= (ceiling[r] - 1) + Branches * MaxCall

\* What takes a slot: reservations, and executions that are not resumed ones.
Admitted == reserved \cup {r \in Runs : work[r] # "idle" /\ r \notin resumed}

\* The inductive invariant of slots and ceilings.
SpendInv ==
    /\ Typed
    /\ NothingLeaks
    /\ LaunchInv
    /\ \A r \in Runs : Fresh(r) /\ Accounted(r) /\ Bounded(r)
    /\ SlotsBounded


\* The value of launch between two launches is one.
LEMMA IdleIsALaunch == Idle \in [at : LaunchSteps, run : Runs] /\ Idle.at = "idle"
<1>1. (CHOOSE r \in Runs : TRUE) \in Runs
  BY SpendingAssumption
<1>q. QED
  BY <1>1 DEF Idle, LaunchSteps

\* Every action keeps the state in its domain.
LEMMA TypedStep ==
    ASSUME SpendInv, [Next]_vars
    PROVE  Typed'
<1>1. ASSUME NEW r \in Runs, ReadMemory(r) PROVE Typed'
  BY <1>1, SpendingAssumption
     DEF SpendInv, Typed, Records, Rows, Statuses, LaunchSteps, Work, ReadMemory, Launching
<1>2. ASSUME ReadRows PROVE Typed'
  BY <1>2, SpendingAssumption
     DEF SpendInv, Typed, Records, Rows, Statuses, LaunchSteps, Work, ReadRows, Launching
<1>3. ASSUME Admit PROVE Typed'
  <2>1. CASE launch' = Idle /\ UNCHANGED <<reserved, promised, ceiling>>
    BY <1>3, <2>1, IdleIsALaunch DEF SpendInv, Typed, Admit
  <2>2. ASSUME NEW headroom \in 1..Cap, launch' = [launch EXCEPT !.at = "register"],
            reserved' = reserved \cup {launch.run},
            promised' = [promised EXCEPT ![launch.run] = Tighter(headroom)],
            ceiling' = [ceiling EXCEPT ![launch.run] = Tighter(headroom)]
     PROVE Typed'
    BY <1>3, <2>2, SpendingAssumption DEF SpendInv, Typed, Admit, Tighter, LaunchSteps
  <2>q. QED
    BY <1>3, <2>1, <2>2 DEF Admit
<1>4. ASSUME NEW ok \in BOOLEAN, WriteRow(ok) PROVE Typed'
  <2>1. [NoRow EXCEPT !.status = "queued"] \in Rows
    BY DEF NoRow, Rows, Statuses
  <2>2. CASE ok
    BY <1>4, <2>1, <2>2 DEF SpendInv, Typed, WriteRow, Launching, LaunchSteps
  <2>3. CASE ~ok
    BY <1>4, <2>3, IdleIsALaunch, SpendingAssumption DEF SpendInv, Typed, WriteRow, Launching
  <2>q. QED
    BY <2>2, <2>3
<1>5. ASSUME Install PROVE Typed'
  <2>1. [Unheld EXCEPT !.held = TRUE, !.status = "queued"] \in Records
    BY DEF Unheld, Records, Statuses
  <2>q. QED
    BY <1>5, <2>1 DEF SpendInv, Typed, Install, Launching, LaunchSteps
<1>6. ASSUME StartRun PROVE Typed'
  BY <1>6, IdleIsALaunch, SpendingAssumption
     DEF SpendInv, Typed, Records, Rows, Statuses, LaunchSteps, Work, StartRun, Launching
<1>7. ASSUME NEW r \in Runs, NEW ok \in BOOLEAN, Execute(r, ok) PROVE Typed'
  <2>1. record[r] \in Records /\ row[r] \in Rows
    BY DEF SpendInv, Typed
  <2>2. [record[r] EXCEPT !.status = "running"] \in Records /\ Persisted(r, "running") \in Rows
    BY <2>1 DEF Records, Rows, Statuses, Persisted
  <2>3. record' = [record EXCEPT ![r] = [record[r] EXCEPT !.status = "running"]]
    BY <1>7 DEF Execute
  <2>4. row' \in [Runs -> Rows]
    BY <1>7, <2>2 DEF Execute, SpendInv, Typed
  <2>5. work' \in [Runs -> Work]
    BY <1>7 DEF Execute, SpendInv, Typed, Work
  <2>q. QED
    BY <1>7, <2>2, <2>3, <2>4, <2>5 DEF Execute, SpendInv, Typed
<1>8. ASSUME NEW r \in Runs, StartCall(r) PROVE Typed'
  <2>1. inflight' \in [Runs -> Nat]
    BY <1>8 DEF StartCall, SpendInv, Typed
  <2>q. QED
    BY <1>8, <2>1 DEF StartCall, SpendInv, Typed
<1>9. ASSUME NEW r \in Runs, NEW cost \in 0..MaxCall, FinishCall(r, cost) PROVE Typed'
  <2>1. record[r] \in Records
    BY DEF SpendInv, Typed
  <2>2. record[r].spent + cost \in Nat
    BY <2>1, SpendingAssumption DEF Records
  <2>3. [record[r] EXCEPT !.spent = @ + cost, !.tripped = TRUE, !.stopping = TRUE] \in Records /\ [record[r] EXCEPT !.spent = @ + cost] \in Records
    BY <2>1, <2>2 DEF Records, Statuses
  <2>4. Trips(r, cost) => Counted(r, cost) = [record[r] EXCEPT !.spent = @ + cost, !.tripped = TRUE, !.stopping = TRUE]
    BY DEF Counted
  <2>5. ~Trips(r, cost) => Counted(r, cost) = [record[r] EXCEPT !.spent = @ + cost]
    BY <2>1 DEF Counted, Records
  <2>6. Counted(r, cost) \in Records
    BY <2>3, <2>4, <2>5
  <2>q. QED
    BY <1>9, <2>6 DEF FinishCall, SpendInv, Typed
<1>10. ASSUME NEW r \in Runs, NEW ok \in BOOLEAN, OpenGate(r, ok) PROVE Typed'
  <2>1. record[r] \in Records /\ row[r] \in Rows
    BY DEF SpendInv, Typed
  <2>2. [record[r] EXCEPT !.status = "waiting", !.gate = TRUE] \in Records
    BY <2>1 DEF Records, Statuses
  <2>3. [row[r] EXCEPT !.gate = TRUE] \in Rows
    BY <2>1 DEF Rows, Statuses
  <2>4. CASE ok
    BY <1>10, <2>2, <2>3, <2>4 DEF OpenGate, SpendInv, Typed, Work
  <2>5. CASE ~ok
    BY <1>10, <2>5 DEF OpenGate, SpendInv, Typed, Work
  <2>q. QED
    BY <2>4, <2>5
<1>11. ASSUME NEW r \in Runs, EndRun(r) PROVE Typed'
  <2>1. record[r] \in Records
    BY DEF SpendInv, Typed
  <2>2. [record[r] EXCEPT !.status = "ended", !.gate = FALSE] \in Records
    BY <2>1 DEF Records, Statuses
  <2>q. QED
    BY <1>11, <2>2 DEF EndRun, SpendInv, Typed, Work
<1>12. ASSUME NEW r \in Runs, NEW ok \in BOOLEAN, PersistStatus(r, ok) PROVE Typed'
  <2>1. record[r] \in Records /\ row[r] \in Rows
    BY DEF SpendInv, Typed
  <2>2. Persisted(r, record[r].status) \in Rows
    BY <2>1 DEF Records, Rows, Persisted
  <2>3. row' \in [Runs -> Rows] /\ work' \in [Runs -> Work]
    BY <1>12, <2>2 DEF PersistStatus, SpendInv, Typed, Work
  <2>q. QED
    BY <1>12, <2>3 DEF PersistStatus, SpendInv, Typed
<1>13. ASSUME NEW r \in Runs, Reply(r) PROVE Typed'
  <2>1. record[r] \in Records /\ row[r] \in Rows
    BY DEF SpendInv, Typed
  <2>2. /\ [record[r] EXCEPT !.status = "running", !.gate = FALSE] \in Records
        /\ [row[r] EXCEPT !.status = "running", !.gate = FALSE] \in Rows
    BY <2>1 DEF Records, Rows, Statuses
  <2>q. QED
    BY <1>13, <2>2 DEF SpendInv, Typed, Reply, Work
<1>14. ASSUME NEW r \in Runs, Require(r) PROVE Typed'
  BY <1>14, SpendingAssumption
     DEF SpendInv, Typed, Records, Rows, Statuses, LaunchSteps, Work, Require, Restored, HasRow
<1>15. ASSUME NEW r \in Runs, Evict(r) PROVE Typed'
  <2>1. Unheld \in Records
    BY DEF Unheld, Records, Statuses
  <2>q. QED
    BY <1>15, <2>1 DEF Evict, SpendInv, Typed
<1>16. ASSUME NEW r \in Runs, Purge(r) PROVE Typed'
  <2>1. Unheld \in Records
    BY DEF Unheld, Records, Statuses
  <2>2. [NoRow EXCEPT !.status = "purged"] \in Rows
    BY DEF NoRow, Rows, Statuses
  <2>3. record' \in [Runs -> Records]
    BY <1>16, <2>1 DEF Purge, SpendInv, Typed
  <2>q. QED
    BY <1>16, <2>2, <2>3 DEF Purge, SpendInv, Typed
<1>17. ASSUME NEW r \in Runs, Recover(r) PROVE Typed'
  <2> DEFINE found == IF record[r].held THEN record[r] ELSE Restored(r)
  <2> DEFINE status == IF found.gate THEN "waiting" ELSE "ended"
  <2> DEFINE left == [status |-> status, spent |-> found.spent,
                     tripped |-> found.tripped, gate |-> found.gate]
  <2>1. record[r] \in Records /\ row[r] \in Rows
    BY DEF SpendInv, Typed
  <2>2. found \in Records
    BY <2>1 DEF Restored, Records, Rows, Statuses
  <2>3. [found EXCEPT !.status = status] \in Records
    BY <2>2 DEF Records, Statuses
  <2>4. left \in Rows
    BY <2>2 DEF Records, Rows, Statuses
  <2>5. record' = [record EXCEPT ![r] = [found EXCEPT !.status = status]] /\ row' = [row EXCEPT ![r] = left]
    BY <1>17 DEF Recover
  <2>6. record' \in [Runs -> Records] /\ row' \in [Runs -> Rows]
    BY <2>3, <2>4, <2>5 DEF SpendInv, Typed
  <2>q. QED
    BY <1>17, <2>6 DEF Recover, SpendInv, Typed
<1>18. ASSUME Restart PROVE Typed'
  <2>1. Unheld \in Records
    BY DEF Unheld, Records, Statuses
  <2>q. QED
    BY <1>18, <2>1, IdleIsALaunch DEF Restart, SpendInv, Typed, Work
<1>19. CASE UNCHANGED vars
  BY <1>19 DEF vars, memory, SpendInv, Typed, Records, Rows, Statuses, LaunchSteps, Work
<1>q. QED
  BY <1>1, <1>2, <1>3, <1>4, <1>5, <1>6, <1>7, <1>8, <1>9, <1>10, <1>11, <1>12, <1>13, <1>14, <1>15, <1>16, <1>17, <1>18, <1>19
     DEF Next

\* A reservation follows its launch.
LEMMA LeaksStep ==
    ASSUME SpendInv, [Next]_vars
    PROVE  NothingLeaks'
<1>1. ASSUME NEW r \in Runs, ReadMemory(r) PROVE NothingLeaks'
  BY <1>1, SpendingAssumption
     DEF SpendInv, Typed, NothingLeaks, LaunchInv, Fresh, LaunchSteps, ReadMemory, Launching
<1>2. ASSUME ReadRows PROVE NothingLeaks'
  BY <1>2, SpendingAssumption
     DEF SpendInv, Typed, NothingLeaks, LaunchInv, Fresh, LaunchSteps, ReadRows, Launching
<1>3. ASSUME Admit PROVE NothingLeaks'
  BY <1>3, IdleIsALaunch, SpendingAssumption
     DEF SpendInv, Typed, NothingLeaks, LaunchInv, Fresh, LaunchSteps, Admit, Launching,
         Tighter
<1>4. ASSUME NEW ok \in BOOLEAN, WriteRow(ok) PROVE NothingLeaks'
  BY <1>4, IdleIsALaunch, SpendingAssumption
     DEF SpendInv, Typed, NothingLeaks, LaunchInv, Fresh, LaunchSteps, WriteRow, Launching,
         Writes, NoRow
<1>5. ASSUME Install PROVE NothingLeaks'
  BY <1>5, SpendingAssumption
     DEF SpendInv, Typed, NothingLeaks, LaunchInv, Fresh, LaunchSteps, Install, Launching,
         Unheld
<1>6. ASSUME StartRun PROVE NothingLeaks'
  BY <1>6, IdleIsALaunch, SpendingAssumption
     DEF SpendInv, Typed, NothingLeaks, LaunchInv, Fresh, LaunchSteps, StartRun, Launching
<1>7. ASSUME NEW r \in Runs, NEW ok \in BOOLEAN, Execute(r, ok) PROVE NothingLeaks'
  BY <1>7, SpendingAssumption
     DEF SpendInv, Typed, NothingLeaks, LaunchInv, Fresh, LaunchSteps, Execute, Writes,
         Persisted
<1>8. ASSUME NEW r \in Runs, StartCall(r) PROVE NothingLeaks'
  BY <1>8, SpendingAssumption DEF SpendInv, Typed, NothingLeaks, LaunchInv, Fresh, LaunchSteps, StartCall
<1>9. ASSUME NEW r \in Runs, NEW cost \in 0..MaxCall, FinishCall(r, cost) PROVE NothingLeaks'
  BY <1>9, SpendingAssumption
     DEF SpendInv, Typed, NothingLeaks, LaunchInv, Fresh, LaunchSteps, FinishCall, Counted,
         Trips
<1>10. ASSUME NEW r \in Runs, NEW ok \in BOOLEAN, OpenGate(r, ok) PROVE NothingLeaks'
  BY <1>10, SpendingAssumption
     DEF SpendInv, Typed, NothingLeaks, LaunchInv, Fresh, LaunchSteps, OpenGate, Writes
<1>11. ASSUME NEW r \in Runs, EndRun(r) PROVE NothingLeaks'
  BY <1>11, SpendingAssumption DEF SpendInv, Typed, NothingLeaks, LaunchInv, Fresh, LaunchSteps, EndRun
<1>12. ASSUME NEW r \in Runs, NEW ok \in BOOLEAN, PersistStatus(r, ok) PROVE NothingLeaks'
  BY <1>12, SpendingAssumption
     DEF SpendInv, Typed, NothingLeaks, LaunchInv, Fresh, LaunchSteps, PersistStatus, Writes,
         Persisted
<1>13. ASSUME NEW r \in Runs, Reply(r) PROVE NothingLeaks'
  BY <1>13, SpendingAssumption DEF SpendInv, Typed, NothingLeaks, LaunchInv, Fresh, LaunchSteps, Reply, Live
<1>14. ASSUME NEW r \in Runs, Require(r) PROVE NothingLeaks'
  BY <1>14, SpendingAssumption
     DEF SpendInv, Typed, NothingLeaks, LaunchInv, Fresh, LaunchSteps, Require, Restored,
         HasRow
<1>15. ASSUME NEW r \in Runs, Evict(r) PROVE NothingLeaks'
  BY <1>15, SpendingAssumption DEF SpendInv, Typed, NothingLeaks, LaunchInv, Fresh, LaunchSteps, Evict, Unheld
<1>16. ASSUME NEW r \in Runs, Purge(r) PROVE NothingLeaks'
  BY <1>16, SpendingAssumption
     DEF SpendInv, Typed, NothingLeaks, LaunchInv, Fresh, LaunchSteps, Purge, NoRow, Unheld,
         Live
<1>17. ASSUME NEW r \in Runs, Recover(r) PROVE NothingLeaks'
  BY <1>17, SpendingAssumption
     DEF SpendInv, Typed, NothingLeaks, LaunchInv, Fresh, LaunchSteps, Recover, Restored
<1>18. ASSUME Restart PROVE NothingLeaks'
  BY <1>18, IdleIsALaunch, SpendingAssumption
     DEF SpendInv, Typed, NothingLeaks, LaunchInv, Fresh, LaunchSteps, Restart, Unheld
<1>19. CASE UNCHANGED vars
  BY <1>19 DEF vars, memory, SpendInv, Typed, NothingLeaks, LaunchInv, Fresh, LaunchSteps
<1>q. QED
  BY <1>1, <1>2, <1>3, <1>4, <1>5, <1>6, <1>7, <1>8, <1>9, <1>10, <1>11, <1>12, <1>13, <1>14, <1>15, <1>16, <1>17, <1>18, <1>19
     DEF Next

\* What a launch has done so far, nobody else undoes.
LEMMA LaunchStep ==
    ASSUME SpendInv, [Next]_vars
    PROVE  LaunchInv'
<1>1. ASSUME NEW r \in Runs, ReadMemory(r) PROVE LaunchInv'
  BY <1>1, SpendingAssumption
     DEF SpendInv, Typed, NothingLeaks, LaunchInv, Fresh, Accounted, LaunchSteps, Records, Rows,
         Statuses, NoRow, ReadMemory, Launching
<1>2. ASSUME ReadRows PROVE LaunchInv'
  BY <1>2, SpendingAssumption
     DEF SpendInv, Typed, NothingLeaks, LaunchInv, Fresh, Accounted, LaunchSteps, Records, Rows,
         Statuses, NoRow, ReadRows, Launching
<1>3. ASSUME Admit PROVE LaunchInv'
  <2>1. CASE launch' = Idle
    BY <1>3, <2>1, IdleIsALaunch DEF LaunchInv
  <2>2. ASSUME NEW headroom \in 1..Cap, launch' = [launch EXCEPT !.at = "register"],
            ceiling' = [ceiling EXCEPT ![launch.run] = Tighter(headroom)]
     PROVE LaunchInv'
    BY <1>3, <2>2, SpendingAssumption
       DEF SpendInv, Typed, Admit, Tighter, LaunchInv, Fresh, Accounted, Launching, NoRow
  <2>q. QED
    BY <1>3, <2>1, <2>2 DEF Admit
<1>4. ASSUME NEW ok \in BOOLEAN, WriteRow(ok) PROVE LaunchInv'
  <2>1. launch.run \in Runs /\ record' = record /\ work' = work /\ inflight' = inflight
    BY <1>4 DEF SpendInv, Typed, WriteRow
  <2>2. [NoRow EXCEPT !.status = "queued"].spent = 0 /\ [NoRow EXCEPT !.status = "queued"].status = "queued"
          /\ ~[NoRow EXCEPT !.status = "queued"].tripped
    BY DEF NoRow
  <2>3. ASSUME ok PROVE launch' = [launch EXCEPT !.at = "install"] /\ launch.at = "register"
            /\ row' = [row EXCEPT ![launch.run] = [NoRow EXCEPT !.status = "queued"]] /\ ceiling' = ceiling
    BY <1>4, <2>3 DEF WriteRow, Launching
  <2>4. CASE ok
    BY <2>1, <2>2, <2>3, <2>4 DEF SpendInv, Typed, Records, Rows, Statuses, LaunchInv
  <2>5. ASSUME ~ok PROVE row' = row /\ launch' = Idle /\ launch.at = "register"
            /\ ceiling' = [ceiling EXCEPT ![launch.run] = 0]
    BY <1>4, <2>5 DEF WriteRow, Launching
  <2>6. CASE ~ok
    BY <2>1, <2>5, <2>6, IdleIsALaunch DEF SpendInv, Typed, Records, Rows, Statuses, LaunchInv, NoRow
  <2>q. QED
    BY <2>4, <2>6
<1>5. ASSUME Install PROVE LaunchInv'
  BY <1>5, SpendingAssumption
     DEF SpendInv, Typed, NothingLeaks, LaunchInv, Fresh, Accounted, LaunchSteps, Records, Rows,
         Statuses, NoRow, Install, Launching, Unheld
<1>6. ASSUME StartRun PROVE LaunchInv'
  BY <1>6, IdleIsALaunch, SpendingAssumption
     DEF SpendInv, Typed, NothingLeaks, LaunchInv, Fresh, Accounted, LaunchSteps, Records, Rows,
         Statuses, NoRow, StartRun, Launching
<1>7. ASSUME NEW r \in Runs, NEW ok \in BOOLEAN, Execute(r, ok) PROVE LaunchInv'
  BY <1>7, SpendingAssumption
     DEF SpendInv, Typed, NothingLeaks, LaunchInv, Fresh, Accounted, LaunchSteps, Records, Rows,
         Statuses, NoRow, Execute, Writes, Persisted
<1>8. ASSUME NEW r \in Runs, StartCall(r) PROVE LaunchInv'
  BY <1>8, SpendingAssumption
     DEF SpendInv, Typed, NothingLeaks, LaunchInv, Fresh, Accounted, LaunchSteps, Records, Rows,
         Statuses, NoRow, StartCall
<1>9. ASSUME NEW r \in Runs, NEW cost \in 0..MaxCall, FinishCall(r, cost) PROVE LaunchInv'
  BY <1>9, SpendingAssumption
     DEF SpendInv, Typed, NothingLeaks, LaunchInv, Fresh, Accounted, LaunchSteps, Records, Rows,
         Statuses, NoRow, FinishCall, Counted, Trips
<1>10. ASSUME NEW r \in Runs, NEW ok \in BOOLEAN, OpenGate(r, ok) PROVE LaunchInv'
  <2>1. launch.at \in {"register", "install", "start"} => r # launch.run
    BY <1>10 DEF SpendInv, LaunchInv, NothingLeaks, Typed, Live, NoRow, OpenGate
  <2>2. \A s \in Runs \ {r} :
            /\ record'[s] = record[s] /\ row'[s] = row[s]
            /\ work'[s] = work[s] /\ inflight'[s] = inflight[s] /\ ceiling'[s] = ceiling[s]
    BY <1>10 DEF SpendInv, Typed, OpenGate
  <2>3. launch.run \in Runs /\ launch' = launch /\ ceiling' = ceiling
    BY <1>10 DEF SpendInv, Typed, OpenGate
  <2>q. QED
    BY <2>1, <2>2, <2>3 DEF SpendInv, LaunchInv
<1>11. ASSUME NEW r \in Runs, EndRun(r) PROVE LaunchInv'
  BY <1>11, SpendingAssumption
     DEF SpendInv, Typed, NothingLeaks, LaunchInv, Fresh, Accounted, LaunchSteps, Records, Rows,
         Statuses, NoRow, EndRun
<1>12. ASSUME NEW r \in Runs, NEW ok \in BOOLEAN, PersistStatus(r, ok) PROVE LaunchInv'
  BY <1>12, SpendingAssumption
     DEF SpendInv, Typed, NothingLeaks, LaunchInv, Fresh, Accounted, LaunchSteps, Records, Rows,
         Statuses, NoRow, PersistStatus, Writes, Persisted
<1>13. ASSUME NEW r \in Runs, Reply(r) PROVE LaunchInv'
  <2>1. launch.at \in {"register", "install", "start"} => r # launch.run
    BY <1>13 DEF SpendInv, LaunchInv, NothingLeaks, Typed, Live, NoRow, Reply
  <2>2. \A s \in Runs \ {r} :
            /\ record'[s] = record[s] /\ row'[s] = row[s]
            /\ work'[s] = work[s] /\ inflight'[s] = inflight[s] /\ ceiling'[s] = ceiling[s]
    BY <1>13 DEF SpendInv, Typed, Reply
  <2>3. launch.run \in Runs /\ launch' = launch /\ ceiling' = ceiling
    BY <1>13 DEF SpendInv, Typed, Reply
  <2>q. QED
    BY <2>1, <2>2, <2>3 DEF SpendInv, LaunchInv
<1>14. ASSUME NEW r \in Runs, Require(r) PROVE LaunchInv'
  BY <1>14, SpendingAssumption
     DEF SpendInv, Typed, NothingLeaks, LaunchInv, Fresh, Accounted, LaunchSteps, Records, Rows,
         Statuses, NoRow, Require, Restored, HasRow
<1>15. ASSUME NEW r \in Runs, Evict(r) PROVE LaunchInv'
  <2>1. launch.at \in {"register", "install", "start"} => r # launch.run
    BY <1>15 DEF SpendInv, LaunchInv, NothingLeaks, Typed, Live, NoRow, Evict
  <2>2. \A s \in Runs \ {r} :
            /\ record'[s] = record[s] /\ row'[s] = row[s]
            /\ work'[s] = work[s] /\ inflight'[s] = inflight[s] /\ ceiling'[s] = ceiling[s]
    BY <1>15 DEF SpendInv, Typed, Evict
  <2>3. launch.run \in Runs /\ launch' = launch /\ ceiling' = ceiling
    BY <1>15 DEF SpendInv, Typed, Evict
  <2>q. QED
    BY <2>1, <2>2, <2>3 DEF SpendInv, LaunchInv
<1>16. ASSUME NEW r \in Runs, Purge(r) PROVE LaunchInv'
  <2>1. launch.at \in {"register", "install", "start"} => r # launch.run
    BY <1>16 DEF SpendInv, LaunchInv, NothingLeaks, Typed, Live, NoRow, Purge
  <2>2. \A s \in Runs \ {r} :
            /\ record'[s] = record[s] /\ row'[s] = row[s]
            /\ work'[s] = work[s] /\ inflight'[s] = inflight[s] /\ ceiling'[s] = ceiling[s]
    BY <1>16 DEF SpendInv, Typed, Purge
  <2>3. launch.run \in Runs /\ launch' = launch /\ ceiling' = ceiling
    BY <1>16 DEF SpendInv, Typed, Purge
  <2>q. QED
    BY <2>1, <2>2, <2>3 DEF SpendInv, LaunchInv
<1>17. ASSUME NEW r \in Runs, Recover(r) PROVE LaunchInv'
  BY <1>17, SpendingAssumption
     DEF SpendInv, Typed, NothingLeaks, LaunchInv, Fresh, Accounted, LaunchSteps, Records, Rows,
         Statuses, NoRow, Recover, Restored
<1>18. ASSUME Restart PROVE LaunchInv'
  BY <1>18, IdleIsALaunch, SpendingAssumption
     DEF SpendInv, Typed, NothingLeaks, LaunchInv, Fresh, Accounted, LaunchSteps, Records, Rows,
         Statuses, NoRow, Restart, Unheld
<1>19. CASE UNCHANGED vars
  BY <1>19
     DEF vars, memory, SpendInv, Typed, NothingLeaks, LaunchInv, Fresh, Accounted, LaunchSteps,
         Records, Rows, Statuses, NoRow
<1>q. QED
  BY <1>1, <1>2, <1>3, <1>4, <1>5, <1>6, <1>7, <1>8, <1>9, <1>10, <1>11, <1>12, <1>13, <1>14, <1>15, <1>16, <1>17, <1>18, <1>19
     DEF Next

\* Only admission gives a run a ceiling, and only a run with one leaves traces.
LEMMA FreshStep ==
    ASSUME SpendInv, [Next]_vars
    PROVE  (\A s \in Runs : Fresh(s))'
<1>1. ASSUME NEW r \in Runs, ReadMemory(r) PROVE (\A s \in Runs : Fresh(s))'
  BY <1>1, SpendingAssumption
     DEF SpendInv, Typed, NothingLeaks, LaunchInv, Fresh, Accounted, LaunchSteps, Records, Rows,
         Statuses, NoRow, ReadMemory, Launching
<1>2. ASSUME ReadRows PROVE (\A s \in Runs : Fresh(s))'
  BY <1>2, SpendingAssumption
     DEF SpendInv, Typed, NothingLeaks, LaunchInv, Fresh, Accounted, LaunchSteps, Records, Rows,
         Statuses, NoRow, ReadRows, Launching
<1>3. ASSUME Admit PROVE (\A s \in Runs : Fresh(s))'
  BY <1>3, IdleIsALaunch, SpendingAssumption
     DEF SpendInv, Typed, NothingLeaks, LaunchInv, Fresh, Accounted, LaunchSteps, Records, Rows,
         Statuses, NoRow, Admit, Launching, Tighter
<1>4. ASSUME NEW ok \in BOOLEAN, WriteRow(ok) PROVE (\A s \in Runs : Fresh(s))'
  <2>1. launch.run \in Runs /\ record' = record /\ work' = work /\ inflight' = inflight
    BY <1>4 DEF SpendInv, Typed, WriteRow
  <2>2. [NoRow EXCEPT !.status = "queued"].spent = 0 /\ [NoRow EXCEPT !.status = "queued"].status = "queued"
          /\ ~[NoRow EXCEPT !.status = "queued"].tripped
    BY DEF NoRow
  <2>3. ASSUME ok PROVE launch' = [launch EXCEPT !.at = "install"] /\ launch.at = "register"
            /\ row' = [row EXCEPT ![launch.run] = [NoRow EXCEPT !.status = "queued"]] /\ ceiling' = ceiling
    BY <1>4, <2>3 DEF WriteRow, Launching
  <2>4. CASE ok
    BY <2>1, <2>2, <2>3, <2>4 DEF SpendInv, Typed, Records, Rows, Statuses, Fresh, LaunchInv
  <2>5. ASSUME ~ok PROVE row' = row /\ launch' = Idle /\ launch.at = "register"
            /\ ceiling' = [ceiling EXCEPT ![launch.run] = 0]
    BY <1>4, <2>5 DEF WriteRow, Launching
  <2>6. CASE ~ok
    BY <2>1, <2>5, <2>6, IdleIsALaunch DEF SpendInv, Typed, Records, Rows, Statuses, Fresh, LaunchInv, NoRow
  <2>q. QED
    BY <2>4, <2>6
<1>5. ASSUME Install PROVE (\A s \in Runs : Fresh(s))'
  BY <1>5, SpendingAssumption
     DEF SpendInv, Typed, NothingLeaks, LaunchInv, Fresh, Accounted, LaunchSteps, Records, Rows,
         Statuses, NoRow, Install, Launching, Unheld
<1>6. ASSUME StartRun PROVE (\A s \in Runs : Fresh(s))'
  BY <1>6, IdleIsALaunch, SpendingAssumption
     DEF SpendInv, Typed, NothingLeaks, LaunchInv, Fresh, Accounted, LaunchSteps, Records, Rows,
         Statuses, NoRow, StartRun, Launching
<1>7. ASSUME NEW r \in Runs, NEW ok \in BOOLEAN, Execute(r, ok) PROVE (\A s \in Runs : Fresh(s))'
  BY <1>7, SpendingAssumption
     DEF SpendInv, Typed, NothingLeaks, LaunchInv, Fresh, Accounted, LaunchSteps, Records, Rows,
         Statuses, NoRow, Execute, Writes, Persisted
<1>8. ASSUME NEW r \in Runs, StartCall(r) PROVE (\A s \in Runs : Fresh(s))'
  BY <1>8, SpendingAssumption
     DEF SpendInv, Typed, NothingLeaks, LaunchInv, Fresh, Accounted, LaunchSteps, Records, Rows,
         Statuses, NoRow, StartCall
<1>9. ASSUME NEW r \in Runs, NEW cost \in 0..MaxCall, FinishCall(r, cost) PROVE (\A s \in Runs : Fresh(s))'
  BY <1>9, SpendingAssumption
     DEF SpendInv, Typed, NothingLeaks, LaunchInv, Fresh, Accounted, LaunchSteps, Records, Rows,
         Statuses, NoRow, FinishCall, Counted, Trips
<1>10. ASSUME NEW r \in Runs, NEW ok \in BOOLEAN, OpenGate(r, ok) PROVE (\A s \in Runs : Fresh(s))'
  <2>1. \A s \in Runs \ {r} :
            /\ record'[s] = record[s] /\ row'[s] = row[s]
            /\ work'[s] = work[s] /\ inflight'[s] = inflight[s] /\ ceiling'[s] = ceiling[s]
    BY <1>10 DEF SpendInv, Typed, OpenGate
  <2>2. ceiling[r] > 0
    BY <1>10 DEF SpendInv, Typed, Fresh, Accounted, OpenGate
  <2>3. Fresh(r)'
    BY <1>10, <2>2, SpendingAssumption
       DEF SpendInv, Typed, Records, Rows, Statuses, Fresh, Accounted, OpenGate, Writes
  <2>4. \A s \in Runs \ {r} : Fresh(s)'
    BY <2>1 DEF SpendInv, Fresh
  <2>q. QED
    BY <2>3, <2>4
<1>11. ASSUME NEW r \in Runs, EndRun(r) PROVE (\A s \in Runs : Fresh(s))'
  BY <1>11, SpendingAssumption
     DEF SpendInv, Typed, NothingLeaks, LaunchInv, Fresh, Accounted, LaunchSteps, Records, Rows,
         Statuses, NoRow, EndRun
<1>12. ASSUME NEW r \in Runs, NEW ok \in BOOLEAN, PersistStatus(r, ok) PROVE (\A s \in Runs : Fresh(s))'
  BY <1>12, SpendingAssumption
     DEF SpendInv, Typed, NothingLeaks, LaunchInv, Fresh, Accounted, LaunchSteps, Records, Rows,
         Statuses, NoRow, PersistStatus, Writes, Persisted
<1>13. ASSUME NEW r \in Runs, Reply(r) PROVE (\A s \in Runs : Fresh(s))'
  BY <1>13, SpendingAssumption
     DEF SpendInv, Typed, NothingLeaks, LaunchInv, Fresh, Accounted, LaunchSteps, Records, Rows,
         Statuses, NoRow, Reply, Live
<1>14. ASSUME NEW r \in Runs, Require(r) PROVE (\A s \in Runs : Fresh(s))'
  BY <1>14, SpendingAssumption
     DEF SpendInv, Typed, NothingLeaks, LaunchInv, Fresh, Accounted, LaunchSteps, Records, Rows,
         Statuses, NoRow, Require, Restored, HasRow
<1>15. ASSUME NEW r \in Runs, Evict(r) PROVE (\A s \in Runs : Fresh(s))'
  BY <1>15, SpendingAssumption
     DEF SpendInv, Typed, NothingLeaks, LaunchInv, Fresh, Accounted, LaunchSteps, Records, Rows,
         Statuses, NoRow, Evict, Unheld
<1>16. ASSUME NEW r \in Runs, Purge(r) PROVE (\A s \in Runs : Fresh(s))'
  <2>1. \A s \in Runs \ {r} :
            /\ record'[s] = record[s] /\ row'[s] = row[s]
            /\ work'[s] = work[s] /\ inflight'[s] = inflight[s] /\ ceiling'[s] = ceiling[s]
    BY <1>16 DEF SpendInv, Typed, Purge
  <2>2. ceiling[r] > 0
    BY <1>16 DEF SpendInv, Typed, Fresh, NoRow, Purge
  <2>3. Fresh(r)'
    BY <1>16, <2>2, SpendingAssumption
       DEF SpendInv, Typed, Records, Rows, Statuses, Fresh, NoRow, Purge, Unheld, Live
  <2>4. \A s \in Runs \ {r} : Fresh(s)'
    BY <2>1 DEF SpendInv, Fresh
  <2>q. QED
    BY <2>3, <2>4
<1>17. ASSUME NEW r \in Runs, Recover(r) PROVE (\A s \in Runs : Fresh(s))'
  <2>1. \A s \in Runs \ {r} :
            /\ record'[s] = record[s] /\ row'[s] = row[s]
            /\ work'[s] = work[s] /\ inflight'[s] = inflight[s] /\ ceiling'[s] = ceiling[s]
    BY <1>17 DEF SpendInv, Typed, Recover
  <2>2. ceiling[r] > 0
    BY <1>17 DEF SpendInv, Typed, Fresh, NoRow, Recover
  <2>3. Fresh(r)'
    BY <1>17, <2>2, SpendingAssumption
       DEF SpendInv, Typed, Records, Rows, Statuses, Fresh, NoRow, Recover, Restored
  <2>4. \A s \in Runs \ {r} : Fresh(s)'
    BY <2>1 DEF SpendInv, Fresh
  <2>q. QED
    BY <2>3, <2>4
<1>18. ASSUME Restart PROVE (\A s \in Runs : Fresh(s))'
  BY <1>18, IdleIsALaunch, SpendingAssumption
     DEF SpendInv, Typed, NothingLeaks, LaunchInv, Fresh, Accounted, LaunchSteps, Records, Rows,
         Statuses, NoRow, Restart, Unheld
<1>19. CASE UNCHANGED vars
  BY <1>19
     DEF vars, memory, SpendInv, Typed, NothingLeaks, LaunchInv, Fresh, Accounted, LaunchSteps,
         Records, Rows, Statuses, NoRow
<1>q. QED
  BY <1>1, <1>2, <1>3, <1>4, <1>5, <1>6, <1>7, <1>8, <1>9, <1>10, <1>11, <1>12, <1>13, <1>14, <1>15, <1>16, <1>17, <1>18, <1>19
     DEF Next

\* The books of a run stay in order.
LEMMA AccountedStep ==
    ASSUME SpendInv, [Next]_vars
    PROVE  (\A s \in Runs : Accounted(s))'
<1>1. ASSUME NEW r \in Runs, ReadMemory(r) PROVE (\A s \in Runs : Accounted(s))'
  BY <1>1, SpendingAssumption
     DEF SpendInv, Typed, NothingLeaks, LaunchInv, Fresh, Accounted, LaunchSteps, Records, Rows,
         Statuses, NoRow, Work, ReadMemory, Launching
<1>2. ASSUME ReadRows PROVE (\A s \in Runs : Accounted(s))'
  BY <1>2, SpendingAssumption
     DEF SpendInv, Typed, NothingLeaks, LaunchInv, Fresh, Accounted, LaunchSteps, Records, Rows,
         Statuses, NoRow, Work, ReadRows, Launching
<1>3. ASSUME Admit PROVE (\A s \in Runs : Accounted(s))'
  BY <1>3, IdleIsALaunch, SpendingAssumption
     DEF SpendInv, Typed, NothingLeaks, LaunchInv, Fresh, Accounted, LaunchSteps, Records, Rows,
         Statuses, NoRow, Work, Admit, Launching, Tighter
<1>4. ASSUME NEW ok \in BOOLEAN, WriteRow(ok) PROVE (\A s \in Runs : Accounted(s))'
  <2>1. launch.run \in Runs /\ record' = record /\ work' = work /\ inflight' = inflight
    BY <1>4 DEF SpendInv, Typed, WriteRow
  <2>2. [NoRow EXCEPT !.status = "queued"].spent = 0 /\ [NoRow EXCEPT !.status = "queued"].status = "queued"
          /\ ~[NoRow EXCEPT !.status = "queued"].tripped
    BY DEF NoRow
  <2>3. ASSUME ok PROVE launch' = [launch EXCEPT !.at = "install"] /\ launch.at = "register"
            /\ row' = [row EXCEPT ![launch.run] = [NoRow EXCEPT !.status = "queued"]] /\ ceiling' = ceiling
    BY <1>4, <2>3 DEF WriteRow, Launching
  <2>4. CASE ok
    BY <2>1, <2>2, <2>3, <2>4 DEF SpendInv, Typed, Records, Rows, Statuses, Accounted, Fresh, LaunchInv
  <2>5. ASSUME ~ok PROVE row' = row /\ launch.at = "register"
            /\ ceiling' = [ceiling EXCEPT ![launch.run] = 0]
    BY <1>4, <2>5 DEF WriteRow, Launching
  <2>6. ASSUME ~ok, NEW s \in Runs \ {launch.run} PROVE Accounted(s)'
    BY <2>1, <2>5, <2>6 DEF SpendInv, Typed, Accounted
  <2>7. ASSUME ~ok PROVE ceiling'[launch.run] = 0 /\ ~record[launch.run].held /\ work[launch.run] = "idle"
            /\ inflight[launch.run] = 0
    BY <2>1, <2>5, <2>7 DEF SpendInv, Typed, LaunchInv, Accounted
  <2>8. ASSUME ~ok, NEW s \in Runs, s = launch.run PROVE Accounted(s)'
    BY <2>1, <2>5, <2>7, <2>8 DEF Accounted
  <2>q. QED
    BY <2>1, <2>4, <2>6, <2>8
<1>5. ASSUME Install PROVE (\A s \in Runs : Accounted(s))'
  BY <1>5, SpendingAssumption
     DEF SpendInv, Typed, NothingLeaks, LaunchInv, Fresh, Accounted, LaunchSteps, Records, Rows,
         Statuses, NoRow, Work, Install, Launching, Unheld
<1>6. ASSUME StartRun PROVE (\A s \in Runs : Accounted(s))'
  BY <1>6, IdleIsALaunch, SpendingAssumption
     DEF SpendInv, Typed, NothingLeaks, LaunchInv, Fresh, Accounted, LaunchSteps, Records, Rows,
         Statuses, NoRow, Work, StartRun, Launching
<1>7. ASSUME NEW r \in Runs, NEW ok \in BOOLEAN, Execute(r, ok) PROVE (\A s \in Runs : Accounted(s))'
  BY <1>7, SpendingAssumption
     DEF SpendInv, Typed, NothingLeaks, LaunchInv, Fresh, Accounted, LaunchSteps, Records, Rows,
         Statuses, NoRow, Work, Execute, Writes, Persisted
<1>8. ASSUME NEW r \in Runs, StartCall(r) PROVE (\A s \in Runs : Accounted(s))'
  BY <1>8, SpendingAssumption
     DEF SpendInv, Typed, NothingLeaks, LaunchInv, Fresh, Accounted, LaunchSteps, Records, Rows,
         Statuses, NoRow, Work, StartCall
<1>9. ASSUME NEW r \in Runs, NEW cost \in 0..MaxCall, FinishCall(r, cost) PROVE (\A s \in Runs : Accounted(s))'
  BY <1>9, SpendingAssumption
     DEF SpendInv, Typed, NothingLeaks, LaunchInv, Fresh, Accounted, LaunchSteps, Records, Rows,
         Statuses, NoRow, Work, FinishCall, Counted, Trips
<1>10. ASSUME NEW r \in Runs, NEW ok \in BOOLEAN, OpenGate(r, ok) PROVE (\A s \in Runs : Accounted(s))'
  <2>1. \A s \in Runs \ {r} :
            /\ record'[s] = record[s] /\ row'[s] = row[s]
            /\ work'[s] = work[s] /\ inflight'[s] = inflight[s] /\ ceiling'[s] = ceiling[s]
    BY <1>10 DEF SpendInv, Typed, OpenGate
  <2>2. record[r] \in Records
    BY DEF SpendInv, Typed
  <2>3. /\ [record[r] EXCEPT !.status = "waiting", !.gate = TRUE].held = record[r].held
         /\ [record[r] EXCEPT !.status = "waiting", !.gate = TRUE].spent = record[r].spent
         /\ [record[r] EXCEPT !.status = "waiting", !.gate = TRUE].tripped = record[r].tripped
    BY <2>2 DEF Records
  <2>4. record[r].held /\ record'[r].held /\ record'[r].spent = record[r].spent /\ record'[r].tripped = record[r].tripped
    BY <1>10, <2>3 DEF SpendInv, Typed, Accounted, OpenGate
  <2>5. row'[r].spent = row[r].spent /\ row'[r].tripped = row[r].tripped
    BY <1>10 DEF SpendInv, Typed, Rows, OpenGate
  <2>6. inflight'[r] = 0 /\ ceiling'[r] = ceiling[r]
    BY <1>10 DEF OpenGate
  <2>7. Accounted(r)'
    BY <2>4, <2>5, <2>6 DEF SpendInv, Typed, Accounted
  <2>8. \A s \in Runs \ {r} : Accounted(s)'
    BY <2>1 DEF SpendInv, Accounted
  <2>q. QED
    BY <2>7, <2>8
<1>11. ASSUME NEW r \in Runs, EndRun(r) PROVE (\A s \in Runs : Accounted(s))'
  BY <1>11, SpendingAssumption
     DEF SpendInv, Typed, NothingLeaks, LaunchInv, Fresh, Accounted, LaunchSteps, Records, Rows,
         Statuses, NoRow, Work, EndRun
<1>12. ASSUME NEW r \in Runs, NEW ok \in BOOLEAN, PersistStatus(r, ok) PROVE (\A s \in Runs : Accounted(s))'
  BY <1>12, SpendingAssumption
     DEF SpendInv, Typed, NothingLeaks, LaunchInv, Fresh, Accounted, LaunchSteps, Records, Rows,
         Statuses, NoRow, Work, PersistStatus, Writes, Persisted
<1>13. ASSUME NEW r \in Runs, Reply(r) PROVE (\A s \in Runs : Accounted(s))'
  BY <1>13, SpendingAssumption
     DEF SpendInv, Typed, NothingLeaks, LaunchInv, Fresh, Accounted, LaunchSteps, Records, Rows,
         Statuses, NoRow, Work, Reply, Live
<1>14. ASSUME NEW r \in Runs, Require(r) PROVE (\A s \in Runs : Accounted(s))'
  BY <1>14, SpendingAssumption
     DEF SpendInv, Typed, NothingLeaks, LaunchInv, Fresh, Accounted, LaunchSteps, Records, Rows,
         Statuses, NoRow, Work, Require, Restored, HasRow
<1>15. ASSUME NEW r \in Runs, Evict(r) PROVE (\A s \in Runs : Accounted(s))'
  BY <1>15, SpendingAssumption
     DEF SpendInv, Typed, NothingLeaks, LaunchInv, Fresh, Accounted, LaunchSteps, Records, Rows,
         Statuses, NoRow, Work, Evict, Unheld
<1>16. ASSUME NEW r \in Runs, Purge(r) PROVE (\A s \in Runs : Accounted(s))'
  BY <1>16, SpendingAssumption
     DEF SpendInv, Typed, NothingLeaks, LaunchInv, Fresh, Accounted, LaunchSteps, Records, Rows,
         Statuses, NoRow, Work, Purge, Unheld, Live
<1>17. ASSUME NEW r \in Runs, Recover(r) PROVE (\A s \in Runs : Accounted(s))'
  BY <1>17, SpendingAssumption
     DEF SpendInv, Typed, NothingLeaks, LaunchInv, Fresh, Accounted, LaunchSteps, Records, Rows,
         Statuses, NoRow, Work, Recover, Restored
<1>18. ASSUME Restart PROVE (\A s \in Runs : Accounted(s))'
  BY <1>18, IdleIsALaunch, SpendingAssumption
     DEF SpendInv, Typed, NothingLeaks, LaunchInv, Fresh, Accounted, LaunchSteps, Records, Rows,
         Statuses, NoRow, Work, Restart, Unheld
<1>19. CASE UNCHANGED vars
  BY <1>19
     DEF vars, memory, SpendInv, Typed, NothingLeaks, LaunchInv, Fresh, Accounted, LaunchSteps,
         Records, Rows, Statuses, NoRow, Work
<1>q. QED
  BY <1>1, <1>2, <1>3, <1>4, <1>5, <1>6, <1>7, <1>8, <1>9, <1>10, <1>11, <1>12, <1>13, <1>14, <1>15, <1>16, <1>17, <1>18, <1>19
     DEF Next

\* No call in flight costs nothing, and one more fits while there is a free branch.
LEMMA NoCalls == 0 * MaxCall = 0 /\ Branches * MaxCall \in Nat
  BY SpendingAssumption

\* While one admission is under way there is room for it.
LEMMA RoomForOneMore ==
    ASSUME NEW n \in Nat, n < Branches
    PROVE  (n + 1) * MaxCall <= Branches * MaxCall
<1>1. PICK k \in Nat : Branches = (n + 1) + k
  <2>1. Branches \in Nat /\ Branches - (n + 1) \in Nat
    BY SpendingAssumption
  <2>q. QED
    BY <2>1
<1>2. Branches * MaxCall = (n + 1) * MaxCall + k * MaxCall
  BY <1>1, SpendingAssumption
<1>3. k * MaxCall \in Nat /\ (n + 1) * MaxCall \in Nat
  BY <1>1, SpendingAssumption
<1>q. QED
  BY <1>2, <1>3

\* A call only starts below the ceiling, and only adds what it was counted for.
LEMMA BoundedStep ==
    ASSUME SpendInv, [Next]_vars
    PROVE  (\A s \in Runs : Bounded(s))'
<1>1. ASSUME NEW r \in Runs, ReadMemory(r) PROVE (\A s \in Runs : Bounded(s))'
  BY <1>1, SpendingAssumption
     DEF SpendInv, Typed, NothingLeaks, LaunchInv, Fresh, Accounted, Bounded, Records, Rows,
         Statuses, NoRow, Work, ReadMemory, Launching
<1>2. ASSUME ReadRows PROVE (\A s \in Runs : Bounded(s))'
  BY <1>2, SpendingAssumption
     DEF SpendInv, Typed, NothingLeaks, LaunchInv, Fresh, Accounted, Bounded, Records, Rows,
         Statuses, NoRow, Work, ReadRows, Launching
<1>3. ASSUME Admit PROVE (\A s \in Runs : Bounded(s))'
  <2>1. launch.run \in Runs /\ ~record[launch.run].held /\ record' = record /\ inflight' = inflight
    BY <1>3 DEF SpendInv, Typed, LaunchInv, Fresh, Admit, Launching
  <2>2. \A s \in Runs \ {launch.run} : ceiling'[s] = ceiling[s]
    BY <1>3, <2>1 DEF SpendInv, Typed, Admit
  <2>q. QED
    BY <2>1, <2>2 DEF SpendInv, Bounded
<1>4. ASSUME NEW ok \in BOOLEAN, WriteRow(ok) PROVE (\A s \in Runs : Bounded(s))'
  BY <1>4, IdleIsALaunch, SpendingAssumption
     DEF SpendInv, Typed, NothingLeaks, LaunchInv, Fresh, Accounted, Bounded, Records, Rows,
         Statuses, NoRow, Work, WriteRow, Launching, Writes
<1>5. ASSUME Install PROVE (\A s \in Runs : Bounded(s))'
  <2>1. launch.run \in Runs /\ launch.at = "install"
    BY <1>5 DEF SpendInv, Typed, Install, Launching
  <2>2. ceiling[launch.run] > 0 /\ inflight[launch.run] = 0
    BY <2>1 DEF SpendInv, Typed, LaunchInv, Accounted
  <2>3. ASSUME NEW s \in Runs, s = launch.run PROVE record'[s].spent = 0 /\ inflight'[s] = 0 /\ ceiling'[s] > 0 /\ ceiling'[s] \in Nat
    BY <1>5, <2>2, <2>3 DEF SpendInv, Typed, Install, Unheld
  <2>4. ASSUME NEW s \in Runs, s = launch.run PROVE Bounded(s)'
    BY <2>3, <2>4, NoCalls DEF Bounded
  <2>5. ASSUME NEW s \in Runs, s # launch.run PROVE Bounded(s)'
    BY <1>5, <2>5 DEF SpendInv, Typed, Install, Bounded
  <2>q. QED
    BY <2>4, <2>5
<1>6. ASSUME StartRun PROVE (\A s \in Runs : Bounded(s))'
  BY <1>6, IdleIsALaunch, SpendingAssumption
     DEF SpendInv, Typed, NothingLeaks, LaunchInv, Fresh, Accounted, Bounded, Records, Rows,
         Statuses, NoRow, Work, StartRun, Launching
<1>7. ASSUME NEW r \in Runs, NEW ok \in BOOLEAN, Execute(r, ok) PROVE (\A s \in Runs : Bounded(s))'
  <2>1. \A s \in Runs \ {r} :
            /\ record'[s] = record[s] /\ row'[s] = row[s]
            /\ work'[s] = work[s] /\ inflight'[s] = inflight[s] /\ ceiling'[s] = ceiling[s]
    BY <1>7 DEF SpendInv, Typed, Execute
  <2>2. record[r] \in Records
    BY DEF SpendInv, Typed
  <2>3. /\ [record[r] EXCEPT !.status = "running"].held = record[r].held
         /\ [record[r] EXCEPT !.status = "running"].spent = record[r].spent
         /\ [record[r] EXCEPT !.status = "running"].tripped = record[r].tripped
         /\ [record[r] EXCEPT !.status = "running"].stopping = record[r].stopping
    BY <2>2 DEF Records
  <2>4. record[r].held /\ record'[r].spent = record[r].spent /\ record'[r].tripped = record[r].tripped
         /\ record'[r].stopping = record[r].stopping
    BY <1>7, <2>2, <2>3, SpendingAssumption DEF SpendInv, Typed, Records, Rows, Statuses, Accounted, Execute
  <2>5. inflight'[r] = inflight[r] /\ ceiling'[r] = ceiling[r]
    BY <1>7 DEF Execute, SpendInv, Typed
  <2>6. Bounded(r)'
    BY <2>4, <2>5 DEF SpendInv, Bounded
  <2>7. \A s \in Runs \ {r} : Bounded(s)'
    BY <2>1 DEF SpendInv, Bounded
  <2>q. QED
    BY <2>6, <2>7
<1>8. ASSUME NEW r \in Runs, StartCall(r) PROVE (\A s \in Runs : Bounded(s))'
  <2>1. \A s \in Runs \ {r} :
            /\ record'[s] = record[s] /\ row'[s] = row[s]
            /\ work'[s] = work[s] /\ inflight'[s] = inflight[s] /\ ceiling'[s] = ceiling[s]
    BY <1>8 DEF SpendInv, Typed, StartCall
  <2>2. record' = record /\ inflight'[r] = inflight[r] + 1 /\ inflight[r] < Branches /\ ceiling' = ceiling
         /\ record[r].held /\ ~record[r].stopping
    BY <1>8 DEF SpendInv, Typed, Accounted, StartCall
  <2>3. inflight'[r] * MaxCall <= Branches * MaxCall
    BY <2>2, RoomForOneMore DEF SpendInv, Typed
  <2>4. ~record[r].tripped => record[r].spent < ceiling[r]
    BY <2>2 DEF SpendInv, Accounted
  <2>5. record[r].spent \in Nat /\ ceiling[r] \in Nat /\ Branches * MaxCall \in Nat /\ inflight'[r] * MaxCall \in Nat
    BY <2>2, SpendingAssumption DEF SpendInv, Typed, Records
  <2>6. Bounded(r)'
    BY <2>2, <2>3, <2>4, <2>5 DEF Bounded
  <2>7. \A s \in Runs \ {r} : Bounded(s)'
    BY <2>1 DEF SpendInv, Bounded
  <2>q. QED
    BY <2>6, <2>7
<1>9. ASSUME NEW r \in Runs, NEW cost \in 0..MaxCall, FinishCall(r, cost) PROVE (\A s \in Runs : Bounded(s))'
  BY <1>9, SpendingAssumption
     DEF SpendInv, Typed, NothingLeaks, LaunchInv, Fresh, Accounted, Bounded, Records, Rows,
         Statuses, NoRow, Work, FinishCall, Counted, Trips
<1>10. ASSUME NEW r \in Runs, NEW ok \in BOOLEAN, OpenGate(r, ok) PROVE (\A s \in Runs : Bounded(s))'
  <2>1. \A s \in Runs \ {r} :
            /\ record'[s] = record[s] /\ row'[s] = row[s]
            /\ work'[s] = work[s] /\ inflight'[s] = inflight[s] /\ ceiling'[s] = ceiling[s]
    BY <1>10 DEF SpendInv, Typed, OpenGate
  <2>2. record[r] \in Records
    BY DEF SpendInv, Typed
  <2>3. /\ [record[r] EXCEPT !.status = "waiting", !.gate = TRUE].held = record[r].held
         /\ [record[r] EXCEPT !.status = "waiting", !.gate = TRUE].spent = record[r].spent
         /\ [record[r] EXCEPT !.status = "waiting", !.gate = TRUE].tripped = record[r].tripped
         /\ [record[r] EXCEPT !.status = "waiting", !.gate = TRUE].stopping = record[r].stopping
    BY <2>2 DEF Records
  <2>4. record[r].held /\ record'[r].spent = record[r].spent /\ record'[r].tripped = record[r].tripped
         /\ record'[r].stopping = record[r].stopping
    BY <1>10, <2>2, <2>3, SpendingAssumption DEF SpendInv, Typed, Records, Rows, Statuses, Accounted, OpenGate
  <2>5. inflight'[r] = inflight[r] /\ ceiling'[r] = ceiling[r]
    BY <1>10 DEF OpenGate, SpendInv, Typed
  <2>6. Bounded(r)'
    BY <2>4, <2>5 DEF SpendInv, Bounded
  <2>7. \A s \in Runs \ {r} : Bounded(s)'
    BY <2>1 DEF SpendInv, Bounded
  <2>q. QED
    BY <2>6, <2>7
<1>11. ASSUME NEW r \in Runs, EndRun(r) PROVE (\A s \in Runs : Bounded(s))'
  <2>1. \A s \in Runs \ {r} :
            /\ record'[s] = record[s] /\ row'[s] = row[s]
            /\ work'[s] = work[s] /\ inflight'[s] = inflight[s] /\ ceiling'[s] = ceiling[s]
    BY <1>11 DEF SpendInv, Typed, EndRun
  <2>2. record[r] \in Records
    BY DEF SpendInv, Typed
  <2>3. /\ [record[r] EXCEPT !.status = "ended", !.gate = FALSE].held = record[r].held
         /\ [record[r] EXCEPT !.status = "ended", !.gate = FALSE].spent = record[r].spent
         /\ [record[r] EXCEPT !.status = "ended", !.gate = FALSE].tripped = record[r].tripped
         /\ [record[r] EXCEPT !.status = "ended", !.gate = FALSE].stopping = record[r].stopping
    BY <2>2 DEF Records
  <2>4. record[r].held /\ record'[r].spent = record[r].spent /\ record'[r].tripped = record[r].tripped
         /\ record'[r].stopping = record[r].stopping
    BY <1>11, <2>2, <2>3, SpendingAssumption DEF SpendInv, Typed, Records, Rows, Statuses, Accounted, EndRun
  <2>5. inflight'[r] = inflight[r] /\ ceiling'[r] = ceiling[r]
    BY <1>11 DEF EndRun, SpendInv, Typed
  <2>6. Bounded(r)'
    BY <2>4, <2>5 DEF SpendInv, Bounded
  <2>7. \A s \in Runs \ {r} : Bounded(s)'
    BY <2>1 DEF SpendInv, Bounded
  <2>q. QED
    BY <2>6, <2>7
<1>12. ASSUME NEW r \in Runs, NEW ok \in BOOLEAN, PersistStatus(r, ok) PROVE (\A s \in Runs : Bounded(s))'
  BY <1>12, SpendingAssumption
     DEF SpendInv, Typed, NothingLeaks, LaunchInv, Fresh, Accounted, Bounded, Records, Rows,
         Statuses, NoRow, Work, PersistStatus, Writes, Persisted
<1>13. ASSUME NEW r \in Runs, Reply(r) PROVE (\A s \in Runs : Bounded(s))'
  <2>1. \A s \in Runs \ {r} :
            /\ record'[s] = record[s] /\ row'[s] = row[s]
            /\ work'[s] = work[s] /\ inflight'[s] = inflight[s] /\ ceiling'[s] = ceiling[s]
    BY <1>13 DEF SpendInv, Typed, Reply
  <2>2. record[r] \in Records
    BY DEF SpendInv, Typed
  <2>3. /\ [record[r] EXCEPT !.status = "running", !.gate = FALSE].held = record[r].held
         /\ [record[r] EXCEPT !.status = "running", !.gate = FALSE].spent = record[r].spent
         /\ [record[r] EXCEPT !.status = "running", !.gate = FALSE].tripped = record[r].tripped
         /\ [record[r] EXCEPT !.status = "running", !.gate = FALSE].stopping = record[r].stopping
    BY <2>2 DEF Records
  <2>4. record'[r] = [record[r] EXCEPT !.status = "running", !.gate = FALSE] /\ record[r].held
    BY <1>13 DEF Reply, Live, SpendInv, Typed
  <2>5. record[r].held /\ record'[r].spent = record[r].spent /\ record'[r].tripped = record[r].tripped
         /\ record'[r].stopping = record[r].stopping
    BY <1>13, <2>2, <2>3, <2>4, SpendingAssumption
       DEF SpendInv, Typed, Records, Rows, Statuses, Accounted, Reply
  <2>6. inflight'[r] = inflight[r] /\ ceiling'[r] = ceiling[r]
    BY <1>13 DEF Reply, SpendInv, Typed
  <2>7. Bounded(r)'
    BY <2>5, <2>6 DEF SpendInv, Bounded
  <2>8. \A s \in Runs \ {r} : Bounded(s)'
    BY <2>1 DEF SpendInv, Bounded
  <2>q. QED
    BY <2>7, <2>8
<1>14. ASSUME NEW r \in Runs, Require(r) PROVE (\A s \in Runs : Bounded(s))'
  <2>1. \A s \in Runs \ {r} :
            /\ record'[s] = record[s] /\ row'[s] = row[s]
            /\ work'[s] = work[s] /\ inflight'[s] = inflight[s] /\ ceiling'[s] = ceiling[s]
    BY <1>14 DEF SpendInv, Typed, Require
  <2>2. work[r] = "idle" /\ inflight[r] = 0 /\ inflight' = inflight /\ ceiling' = ceiling /\ ceiling[r] > 0 /\ row[r] \in Rows
    BY <1>14 DEF SpendInv, Typed, Accounted, Fresh, Require, HasRow, NoRow
  <2>3. record'[r].spent = row[r].spent /\ record'[r].tripped = row[r].tripped /\ ~record'[r].stopping
    BY <1>14 DEF SpendInv, Typed, Require, Restored
  <2>4. ~row[r].tripped => row[r].spent < ceiling[r]
    BY <2>2 DEF SpendInv, Accounted
  <2>5. Bounded(r)'
    BY <2>2, <2>3, <2>4, NoCalls DEF SpendInv, Typed, Bounded, Rows
  <2>6. \A s \in Runs \ {r} : Bounded(s)'
    BY <2>1 DEF SpendInv, Bounded
  <2>q. QED
    BY <2>5, <2>6
<1>15. ASSUME NEW r \in Runs, Evict(r) PROVE (\A s \in Runs : Bounded(s))'
  BY <1>15, SpendingAssumption
     DEF SpendInv, Typed, NothingLeaks, LaunchInv, Fresh, Accounted, Bounded, Records, Rows,
         Statuses, NoRow, Work, Evict, Unheld
<1>16. ASSUME NEW r \in Runs, Purge(r) PROVE (\A s \in Runs : Bounded(s))'
  BY <1>16, SpendingAssumption
     DEF SpendInv, Typed, NothingLeaks, LaunchInv, Fresh, Accounted, Bounded, Records, Rows,
         Statuses, NoRow, Work, Purge, Unheld, Live
<1>17. ASSUME NEW r \in Runs, Recover(r) PROVE (\A s \in Runs : Bounded(s))'
  <2> DEFINE found == IF record[r].held THEN record[r] ELSE Restored(r)
  <2> DEFINE status == IF found.gate THEN "waiting" ELSE "ended"
  <2>1. \A s \in Runs \ {r} :
            /\ record'[s] = record[s] /\ row'[s] = row[s]
            /\ work'[s] = work[s] /\ inflight'[s] = inflight[s] /\ ceiling'[s] = ceiling[s]
    BY <1>17 DEF SpendInv, Typed, Recover
  <2>2. work[r] = "idle" /\ inflight[r] = 0 /\ inflight' = inflight /\ ceiling' = ceiling /\ ceiling[r] > 0 /\ row[r] \in Rows
    BY <1>17 DEF SpendInv, Typed, Accounted, Fresh, Recover, NoRow
  <2>3. record[r] \in Records /\ found \in Records
    BY <2>2 DEF SpendInv, Typed, Records, Rows, Statuses, Restored
  <2>4. record'[r] = [found EXCEPT !.status = status]
    BY <1>17 DEF Recover, SpendInv, Typed
  <2>5. record'[r].spent = found.spent /\ record'[r].tripped = found.tripped /\ record'[r].stopping = found.stopping
    BY <2>3, <2>4 DEF Records
  <2>6. ASSUME record[r].held PROVE Bounded(r)'
    BY <2>2, <2>5, <2>6 DEF SpendInv, Bounded
  <2>7. ~row[r].tripped => row[r].spent < ceiling[r]
    BY <2>2 DEF SpendInv, Accounted
  <2>8. ASSUME ~record[r].held PROVE Bounded(r)'
    BY <2>2, <2>5, <2>7, <2>8, NoCalls DEF SpendInv, Typed, Bounded, Rows, Restored
  <2>9. \A s \in Runs \ {r} : Bounded(s)'
    BY <2>1 DEF SpendInv, Bounded
  <2>q. QED
    BY <2>6, <2>8, <2>9
<1>18. ASSUME Restart PROVE (\A s \in Runs : Bounded(s))'
  BY <1>18, IdleIsALaunch, SpendingAssumption
     DEF SpendInv, Typed, NothingLeaks, LaunchInv, Fresh, Accounted, Bounded, Records, Rows,
         Statuses, NoRow, Work, Restart, Unheld
<1>19. CASE UNCHANGED vars
  BY <1>19
     DEF vars, memory, SpendInv, Typed, NothingLeaks, LaunchInv, Fresh, Accounted, Bounded,
         Records, Rows, Statuses, NoRow, Work
<1>q. QED
  BY <1>1, <1>2, <1>3, <1>4, <1>5, <1>6, <1>7, <1>8, <1>9, <1>10, <1>11, <1>12, <1>13, <1>14, <1>15, <1>16, <1>17, <1>18, <1>19
     DEF Next

\* Whoever leaves the set of admitted executions leaves room.
LEMMA SlotsShrink ==
    ASSUME SpendInv, Admitted' \subseteq Admitted
    PROVE  SlotsBounded'
<1>1. IsFiniteSet(Admitted)
  <2>1. Admitted \subseteq Runs
    BY DEF SpendInv, Typed, Admitted
  <2>q. QED
    BY <2>1, FS_Subset, SpendingAssumption
<1>2. Cardinality(Admitted') <= Cardinality(Admitted) /\ Cardinality(Admitted') \in Nat /\ Cardinality(Admitted) \in Nat
  BY <1>1, FS_Subset, FS_CardinalityType
<1>3. Cardinality(Admitted) <= MaxQueued
  BY DEF SpendInv, SlotsBounded, Admitted
<1>q. QED
  BY <1>2, <1>3, SpendingAssumption DEF SlotsBounded, Admitted

\* The only execution that enters it finds a free slot.
LEMMA SlotsAdmit ==
    ASSUME SpendInv, Admit
    PROVE  SlotsBounded'
<1> DEFINE Busy == {r \in Runs : work[r] # "idle"}
<1>1. CASE UNCHANGED reserved
  <2>1. Admitted' = Admitted
    BY <1>1 DEF Admitted, Admit
  <2>q. QED
    BY <2>1, SlotsShrink
<1>2. CASE ActiveSlots < MaxQueued /\ reserved' = reserved \cup {launch.run}
  <2>1. IsFiniteSet(Busy) /\ IsFiniteSet(reserved) /\ launch.run \in Runs
    BY FS_Subset, SpendingAssumption DEF SpendInv, Typed
  <2>2. /\ Cardinality(Busy) \in Nat /\ Cardinality(reserved) \in Nat
        /\ Cardinality(Busy \cap reserved) \in Nat
        /\ IsFiniteSet(Busy \cup reserved)
        /\ Cardinality(Busy \cup reserved) = Cardinality(Busy) + Cardinality(reserved) - Cardinality(Busy \cap reserved)
    BY <2>1, FS_Union, FS_Intersection, FS_CardinalityType
  <2>3. Cardinality(Busy \cup reserved) < MaxQueued /\ Cardinality(Busy \cup reserved) \in Nat
    BY <1>2, <2>2, FS_CardinalityType, SpendingAssumption DEF ActiveSlots
  <2>4. /\ IsFiniteSet((Busy \cup reserved) \cup {launch.run})
        /\ Cardinality((Busy \cup reserved) \cup {launch.run}) <= Cardinality(Busy \cup reserved) + 1
        /\ Cardinality((Busy \cup reserved) \cup {launch.run}) \in Nat
    <3> DEFINE taken == Busy \cup reserved
    <3> HIDE DEF Busy
    <3>1. IsFiniteSet(taken) /\ Cardinality(taken) \in Nat
      BY <2>2, <2>3
    <3> HIDE DEF taken
    <3>2. /\ IsFiniteSet(taken \cup {launch.run})
          /\ Cardinality(taken \cup {launch.run}) =
                IF launch.run \in taken THEN Cardinality(taken) ELSE Cardinality(taken) + 1
      BY <3>1, FS_AddElement
    <3>3. /\ Cardinality(taken \cup {launch.run}) <= Cardinality(taken) + 1
          /\ Cardinality(taken \cup {launch.run}) \in Nat
      BY <3>1, <3>2
    <3>q. QED
      BY <3>2, <3>3 DEF taken
  <2>5. Admitted' \subseteq (Busy \cup reserved) \cup {launch.run}
    BY <1>2 DEF Admitted, Admit
  <2>6. Cardinality(Admitted') <= Cardinality((Busy \cup reserved) \cup {launch.run}) /\ Cardinality(Admitted') \in Nat
    BY <2>4, <2>5, FS_Subset, FS_CardinalityType
  <2>q. QED
    BY <2>3, <2>4, <2>6, SpendingAssumption DEF SlotsBounded, Admitted
<1>q. QED
  BY <1>1, <1>2 DEF Admit

\* The admission bound survives every step.
LEMMA SlotsStep ==
    ASSUME SpendInv, [Next]_vars
    PROVE  SlotsBounded'
<1>1. ASSUME NEW r \in Runs, ReadMemory(r) PROVE SlotsBounded'
  <2>1. Admitted' \subseteq Admitted
    BY <1>1 DEF SpendInv, Typed, NothingLeaks, LaunchInv, Accounted, Admitted, ReadMemory, Launching
  <2>q. QED
    BY <2>1, SlotsShrink
<1>2. ASSUME ReadRows PROVE SlotsBounded'
  <2>1. Admitted' \subseteq Admitted
    BY <1>2 DEF SpendInv, Typed, NothingLeaks, LaunchInv, Accounted, Admitted, ReadRows, Launching
  <2>q. QED
    BY <2>1, SlotsShrink
<1>3. ASSUME Admit PROVE SlotsBounded'
  BY <1>3, SlotsAdmit
<1>4. ASSUME NEW ok \in BOOLEAN, WriteRow(ok) PROVE SlotsBounded'
  <2>1. Admitted' \subseteq Admitted
    BY <1>4 DEF SpendInv, Typed, NothingLeaks, LaunchInv, Accounted, Admitted, WriteRow, Launching
  <2>q. QED
    BY <2>1, SlotsShrink
<1>5. ASSUME Install PROVE SlotsBounded'
  <2>1. Admitted' \subseteq Admitted
    BY <1>5 DEF SpendInv, Typed, NothingLeaks, LaunchInv, Accounted, Admitted, Install, Launching
  <2>q. QED
    BY <2>1, SlotsShrink
<1>6. ASSUME StartRun PROVE SlotsBounded'
  <2>1. Admitted' \subseteq Admitted
    BY <1>6 DEF SpendInv, Typed, NothingLeaks, LaunchInv, Accounted, Admitted, StartRun, Launching
  <2>q. QED
    BY <2>1, SlotsShrink
<1>7. ASSUME NEW r \in Runs, NEW ok \in BOOLEAN, Execute(r, ok) PROVE SlotsBounded'
  <2>1. Admitted' \subseteq Admitted
    BY <1>7 DEF SpendInv, Typed, NothingLeaks, LaunchInv, Accounted, Admitted, Execute
  <2>q. QED
    BY <2>1, SlotsShrink
<1>8. ASSUME NEW r \in Runs, StartCall(r) PROVE SlotsBounded'
  <2>1. Admitted' \subseteq Admitted
    BY <1>8 DEF SpendInv, Typed, NothingLeaks, LaunchInv, Accounted, Admitted, StartCall
  <2>q. QED
    BY <2>1, SlotsShrink
<1>9. ASSUME NEW r \in Runs, NEW cost \in 0..MaxCall, FinishCall(r, cost) PROVE SlotsBounded'
  <2>1. Admitted' \subseteq Admitted
    BY <1>9 DEF SpendInv, Typed, NothingLeaks, LaunchInv, Accounted, Admitted, FinishCall
  <2>q. QED
    BY <2>1, SlotsShrink
<1>10. ASSUME NEW r \in Runs, NEW ok \in BOOLEAN, OpenGate(r, ok) PROVE SlotsBounded'
  <2>1. Admitted' \subseteq Admitted
    BY <1>10 DEF SpendInv, Typed, NothingLeaks, LaunchInv, Accounted, Admitted, OpenGate
  <2>q. QED
    BY <2>1, SlotsShrink
<1>11. ASSUME NEW r \in Runs, EndRun(r) PROVE SlotsBounded'
  <2>1. Admitted' \subseteq Admitted
    BY <1>11 DEF SpendInv, Typed, NothingLeaks, LaunchInv, Accounted, Admitted, EndRun
  <2>q. QED
    BY <2>1, SlotsShrink
<1>12. ASSUME NEW r \in Runs, NEW ok \in BOOLEAN, PersistStatus(r, ok) PROVE SlotsBounded'
  <2>1. Admitted' \subseteq Admitted
    BY <1>12 DEF SpendInv, Typed, NothingLeaks, LaunchInv, Accounted, Admitted, PersistStatus
  <2>q. QED
    BY <2>1, SlotsShrink
<1>13. ASSUME NEW r \in Runs, Reply(r) PROVE SlotsBounded'
  <2>1. Admitted' \subseteq Admitted
    BY <1>13 DEF SpendInv, Typed, NothingLeaks, LaunchInv, Accounted, Admitted, Reply
  <2>q. QED
    BY <2>1, SlotsShrink
<1>14. ASSUME NEW r \in Runs, Require(r) PROVE SlotsBounded'
  <2>1. Admitted' \subseteq Admitted
    BY <1>14 DEF SpendInv, Typed, NothingLeaks, LaunchInv, Accounted, Admitted, Require
  <2>q. QED
    BY <2>1, SlotsShrink
<1>15. ASSUME NEW r \in Runs, Evict(r) PROVE SlotsBounded'
  <2>1. Admitted' \subseteq Admitted
    BY <1>15 DEF SpendInv, Typed, NothingLeaks, LaunchInv, Accounted, Admitted, Evict
  <2>q. QED
    BY <2>1, SlotsShrink
<1>16. ASSUME NEW r \in Runs, Purge(r) PROVE SlotsBounded'
  <2>1. Admitted' \subseteq Admitted
    BY <1>16 DEF SpendInv, Typed, NothingLeaks, LaunchInv, Accounted, Admitted, Purge
  <2>q. QED
    BY <2>1, SlotsShrink
<1>17. ASSUME NEW r \in Runs, Recover(r) PROVE SlotsBounded'
  <2>1. Admitted' \subseteq Admitted
    BY <1>17 DEF SpendInv, Typed, NothingLeaks, LaunchInv, Accounted, Admitted, Recover
  <2>q. QED
    BY <2>1, SlotsShrink
<1>18. ASSUME Restart PROVE SlotsBounded'
  <2>1. Admitted' \subseteq Admitted
    BY <1>18 DEF SpendInv, Typed, NothingLeaks, LaunchInv, Accounted, Admitted, Restart
  <2>q. QED
    BY <2>1, SlotsShrink
<1>19. CASE UNCHANGED vars
  <2>1. Admitted' = Admitted
    BY <1>19 DEF vars, memory, Admitted
  <2>q. QED
    BY <2>1, SlotsShrink
<1>q. QED
  BY <1>1, <1>2, <1>3, <1>4, <1>5, <1>6, <1>7, <1>8, <1>9, <1>10, <1>11, <1>12, <1>13, <1>14, <1>15, <1>16, <1>17, <1>18, <1>19
     DEF Next

\* SpendInv is an invariant: every conjunct is preserved by the lemma named for it.
LEMMA SpendInvariant == Spec => []SpendInv
<1>1. Init => SpendInv
  <2> SUFFICES ASSUME Init PROVE SpendInv
    OBVIOUS
  <2>1. Typed
    <3>1. Unheld \in Records /\ NoRow \in Rows
      BY DEF Unheld, NoRow, Records, Rows, Statuses
    <3>q. QED
      BY <3>1, IdleIsALaunch DEF Init, Typed, Work
  <2>2. NothingLeaks /\ LaunchInv
    BY IdleIsALaunch DEF Init, NothingLeaks, LaunchInv
  <2>3. \A r \in Runs : Fresh(r) /\ Accounted(r) /\ Bounded(r)
    BY DEF Init, Fresh, Accounted, Bounded, Unheld, NoRow
  <2>4. SlotsBounded
    <3>1. Admitted = {}
      BY DEF Init, Admitted
    <3>q. QED
      BY <3>1, FS_EmptySet, SpendingAssumption DEF SlotsBounded, Admitted
  <2>q. QED
    BY <2>1, <2>2, <2>3, <2>4 DEF SpendInv
<1>2. SpendInv /\ [Next]_vars => SpendInv'
  <2> SUFFICES ASSUME SpendInv, [Next]_vars PROVE SpendInv'
    OBVIOUS
  <2>1. Typed' /\ NothingLeaks' /\ LaunchInv' /\ SlotsBounded'
    BY TypedStep, LeaksStep, LaunchStep, SlotsStep
  <2>2. (\A s \in Runs : Fresh(s))' /\ (\A s \in Runs : Accounted(s))' /\ (\A s \in Runs : Bounded(s))'
    BY FreshStep, AccountedStep, BoundedStep
  <2>q. QED
    BY <2>1, <2>2 DEF SpendInv
<1>q. QED
  BY <1>1, <1>2, PTL DEF Spec

\* No path through create_run leaks a slot or a promise, and none gives one up
\* early: refusals, a failed durable write, a restart in the middle.
THEOREM ReservationsFollowLaunches == Spec => []NothingLeaks
<1>1. SpendInv => NothingLeaks
  BY DEF SpendInv
<1>q. QED
  BY <1>1, SpendInvariant, PTL

\* The executions that passed admission never exceed max_queued_runs, for every
\* number of runs and of resumes beside them.
THEOREM AdmissionIsBounded == Spec => []SlotsBounded
<1>1. SpendInv => SlotsBounded
  BY DEF SpendInv
<1>q. QED
  BY <1>1, SpendInvariant, PTL

\* No sweep takes a record from under its worker, and a restored record starts
\* from its rows: memory is never behind them while a run executes.
THEOREM MemoryIsNeverBehind == Spec => []MemoryIsFresher
<1>1. SpendInv => MemoryIsFresher
  BY DEF SpendInv, Typed, Accounted, MemoryIsFresher, Records, Rows
<1>q. QED
  BY <1>1, SpendInvariant, PTL

(***************************************************************************)
(* The bill.  A ceiling holds over a run's whole life because whoever can  *)
(* take the run up again, a worker or a reply to its gate, starts from all *)
(* of the bill that did not die with a process.                            *)
(***************************************************************************)

\* A ceiling and its overshoot.
Limit(r) == (ceiling[r] - 1) + Branches * MaxCall

\* The money of a run as its next call will find it.
Known(r) == IF record[r].held THEN record[r].spent ELSE row[r].spent

\* Memory and store agree on the gate, and only a parked run has one.
Gated(r) ==
    /\ record[r].held => (record[r].gate <=> row[r].gate)
    /\ work[r] \in {"queued", "running", "ending"} => ~record[r].gate
    /\ record[r].held /\ record[r].status = "ended" => ~record[r].gate
    /\ row[r].status = "ended" \/ r \in reserved => ~row[r].gate
    /\ work[r] \in {"queued", "running"} => row[r].status # "ended"
    /\ ceiling[r] = 0 \/ r \in reserved => paid[r] = 0

\* Whatever can still run knows the bill, except for what died unwritten.
Billed(r) ==
    /\ record[r].held /\ record[r].tripped => record[r].stopping
    /\ row[r].spent <= Limit(r)
    /\ paid[r] + inflight[r] * MaxCall <= lost[r] + Limit(r)
    /\ work[r] # "idle" \/ row[r].gate => paid[r] <= lost[r] + Known(r)
    /\ faults = 0 /\ work[r] = "idle" /\ row[r].gate => paid[r] <= lost[r] + row[r].spent

\* The inductive invariant of the bill.
BillInv ==
    /\ paid \in [Runs -> Nat] /\ lost \in [Runs -> Nat] /\ unstopped \subseteq Runs
    /\ faults \in Nat
    /\ \A r \in Runs : Gated(r) /\ (r \notin unstopped => Billed(r))

\* A step that leaves a run alone.
Same(s) ==
    /\ record'[s] = record[s] /\ row'[s] = row[s] /\ work'[s] = work[s]
    /\ inflight'[s] = inflight[s] /\ ceiling'[s] = ceiling[s]
    /\ paid'[s] = paid[s] /\ lost'[s] = lost[s]
    /\ s \in reserved' => s \in reserved
    /\ s \in unstopped => s \in unstopped'
    /\ faults' = 0 => faults = 0

\* It keeps the bill of the run it leaves alone.
LEMMA SameStays ==
    ASSUME BillInv, NEW s \in Runs, Same(s)
    PROVE  Gated(s)' /\ (s \notin unstopped' => Billed(s)')
<1>1. Gated(s) /\ (s \notin unstopped => Billed(s))
  BY DEF BillInv
<1>2. Gated(s)'
  BY <1>1 DEF Same, Gated
<1>3. ASSUME s \notin unstopped' PROVE Billed(s)'
  <2>1. Billed(s) /\ Limit(s)' = Limit(s) /\ Known(s)' = Known(s)
    BY <1>1, <1>3 DEF Same, Limit, Known
  <2>q. QED
    BY <2>1 DEF Same, Billed
<1>q. QED
  BY <1>2, <1>3

\* The numbers a bill is made of.
LEMMA BillNumbers ==
    ASSUME SpendInv, BillInv, NEW s \in Runs
    PROVE  /\ record[s] \in Records /\ row[s] \in Rows
           /\ record[s].spent \in Nat /\ row[s].spent \in Nat
           /\ ceiling[s] \in Nat /\ inflight[s] \in Nat /\ paid[s] \in Nat /\ lost[s] \in Nat
           /\ inflight[s] * MaxCall \in Nat /\ Branches * MaxCall \in Nat
           /\ Branches * MaxCall > 0
           /\ Limit(s) \in Int /\ Limit(s) >= 0
           /\ Gated(s) /\ Accounted(s) /\ Fresh(s)
           /\ s \notin unstopped => Billed(s) /\ Bounded(s)
<1>1. /\ record[s] \in Records /\ row[s] \in Rows
      /\ ceiling[s] \in Nat /\ inflight[s] \in Nat /\ paid[s] \in Nat /\ lost[s] \in Nat
  BY DEF SpendInv, Typed, BillInv
<1>2. record[s].spent \in Nat /\ row[s].spent \in Nat
  BY <1>1 DEF Records, Rows
<1>3. inflight[s] * MaxCall \in Nat /\ Branches * MaxCall \in Nat /\ Branches * MaxCall > 0
  BY <1>1, SpendingAssumption
<1>4. Limit(s) \in Int /\ Limit(s) >= 0
  BY <1>1, <1>3 DEF Limit
<1>5. Gated(s) /\ Accounted(s) /\ Fresh(s) /\ (s \notin unstopped => Billed(s) /\ Bounded(s))
  BY DEF SpendInv, BillInv
<1>q. QED
  BY <1>1, <1>2, <1>3, <1>4, <1>5

\* The bill stays an amount.
LEMMA BillTypes ==
    ASSUME SpendInv, BillInv, [Next]_vars
    PROVE  /\ paid' \in [Runs -> Nat] /\ lost' \in [Runs -> Nat] /\ unstopped' \subseteq Runs
           /\ faults' \in Nat
<1> DEFINE Types == /\ paid' \in [Runs -> Nat] /\ lost' \in [Runs -> Nat]
                    /\ unstopped' \subseteq Runs /\ faults' \in Nat
<1>0. paid \in [Runs -> Nat] /\ lost \in [Runs -> Nat] /\ unstopped \subseteq Runs /\ faults \in Nat
  BY DEF BillInv
<1>1. CASE UNCHANGED <<paid, lost, unstopped>> /\ (faults' = faults \/ faults' = faults + 1)
  BY <1>0, <1>1
<1>2. ASSUME NEW r \in Runs, NEW cost \in 0..MaxCall, FinishCall(r, cost) PROVE Types
  <2>1. paid' = [paid EXCEPT ![r] = @ + cost] /\ UNCHANGED <<lost, unstopped, faults>> /\ cost \in Nat
    BY <1>2, SpendingAssumption DEF FinishCall, billed
  <2>q. QED
    BY <1>0, <2>1
<1>3. ASSUME NEW r \in Runs, Require(r) PROVE Types
  BY <1>0, <1>3 DEF Require, Forgiven
<1>4. ASSUME NEW r \in Runs, Recover(r) PROVE Types
  BY <1>0, <1>4 DEF Recover, Forgiven
<1>5. CASE Restart
  <2>1. \A s \in Runs : Less(paid[s], row[s].spent) \in Nat
    BY <1>0 DEF Less, SpendInv, Typed, Rows
  <2>q. QED
    BY <1>0, <1>5, <2>1 DEF Restart
<1>6. \/ UNCHANGED <<paid, lost, unstopped>> /\ (faults' = faults \/ faults' = faults + 1)
      \/ \E r \in Runs, cost \in 0..MaxCall : FinishCall(r, cost)
      \/ \E r \in Runs : Require(r) \/ Recover(r)
      \/ Restart
  BY DEF Next, vars, memory, billed, Writes, ReadMemory, ReadRows, Admit, WriteRow, Install,
         StartRun, Execute, StartCall, OpenGate, EndRun, PersistStatus, Reply, Evict, Purge
<1>q. QED
  BY <1>1, <1>2, <1>3, <1>4, <1>5, <1>6

\* What a step must show: the run it works on keeps its bill, and the others are
\* left alone.
LEMMA BillOfOne ==
    ASSUME BillInv, NEW r \in Runs, \A s \in Runs \ {r} : Same(s),
           Gated(r)', r \notin unstopped' => Billed(r)'
    PROVE  (\A s \in Runs : Gated(s) /\ (s \notin unstopped => Billed(s)))'
<1>1. \A s \in Runs \ {r} : Gated(s)' /\ (s \notin unstopped' => Billed(s)')
  BY SameStays
<1>q. QED
  BY <1>1

\* A launch brings a run into being without a bill.
LEMMA LaunchBilled ==
    ASSUME SpendInv, BillInv, Admit \/ (\E ok \in BOOLEAN : WriteRow(ok)) \/ Install \/ StartRun
    PROVE  (\A s \in Runs : Gated(s) /\ (s \notin unstopped => Billed(s)))'
<1>0. PICK r \in Runs : r = launch.run
  BY DEF SpendInv, Typed
<1>n. /\ record[r] \in Records /\ row[r] \in Rows /\ row[r].spent \in Nat
      /\ ceiling[r] \in Nat /\ paid[r] \in Nat /\ lost[r] \in Nat /\ inflight[r] \in Nat
      /\ Branches * MaxCall \in Nat /\ Branches * MaxCall > 0
      /\ Gated(r) /\ Accounted(r) /\ Fresh(r) /\ (r \notin unstopped => Billed(r))
      /\ record \in [Runs -> Records] /\ row \in [Runs -> Rows] /\ ceiling \in [Runs -> Nat]
      /\ work \in [Runs -> Work] /\ inflight \in [Runs -> Nat]
  BY <1>0, BillNumbers DEF SpendInv, Typed
<1>w. work[r] = "idle" => inflight[r] = 0
  BY <1>n DEF Accounted
<1>p. 0 * MaxCall = 0
  BY SpendingAssumption
<1>1. CASE Admit /\ UNCHANGED <<reserved, ceiling>>
  <2>1. \A s \in Runs : Same(s)
    BY <1>1 DEF Admit, Same, billed
  <2>q. QED
    BY <2>1, SameStays
<1>2. CASE Admit /\ ~UNCHANGED <<reserved, ceiling>>
  <2>1. PICK headroom \in 1..Cap : ceiling' = [ceiling EXCEPT ![r] = Tighter(headroom)]
    BY <1>0, <1>2 DEF Admit
  <2>2. /\ reserved' = reserved \cup {r} /\ UNCHANGED <<record, row, work, inflight, paid, lost, unstopped, faults>>
        /\ launch.at = "admit"
    BY <1>0, <1>2 DEF Admit, billed, Launching
  <2>3. ceiling[r] = 0 /\ ~record[r].held /\ row[r] = NoRow /\ work[r] = "idle" /\ paid[r] = 0
    BY <1>0, <2>2, <1>n DEF SpendInv, LaunchInv, Fresh, Accounted, Gated
  <2>4. ceiling'[r] = Tighter(headroom) /\ Tighter(headroom) \in Nat
    BY <1>0, <1>n, <2>1, SpendingAssumption DEF Tighter
  <2>5. \A s \in Runs \ {r} : Same(s)
    BY <1>n, <2>1, <2>2 DEF Same
  <2>6. Gated(r)'
    BY <2>2, <2>3 DEF Gated, NoRow
  <2>7. row'[r].spent = 0 /\ ~row'[r].gate /\ ~record'[r].held /\ work'[r] = "idle" /\ paid'[r] = 0 /\ lost'[r] = lost[r]
         /\ inflight'[r] = 0
    BY <2>2, <2>3, <1>w DEF NoRow
  <2>8. Tighter(headroom) >= 1
    BY <2>4, SpendingAssumption DEF Tighter
  <2>9. Limit(r)' \in Nat
    BY <2>4, <2>8, <1>n DEF Limit
  <2>10. Billed(r)'
    BY <2>7, <2>9, <1>n, <1>p DEF Billed
  <2>q. QED
    BY <1>0, <2>5, <2>6, <2>10, BillOfOne
<1>3. ASSUME NEW ok \in BOOLEAN, WriteRow(ok) PROVE (\A s \in Runs : Gated(s) /\ (s \notin unstopped => Billed(s)))'
  <2>1. /\ launch.at = "register" /\ UNCHANGED <<record, work, inflight, paid, lost, unstopped>>
        /\ faults' = 0 => faults = 0
    BY <1>3 DEF WriteRow, billed, Launching, Writes, BillInv
  <2>2. r \in reserved /\ ~record[r].held /\ work[r] = "idle" /\ paid[r] = 0 /\ row[r] = NoRow
    BY <1>0, <2>1, <1>n DEF SpendInv, LaunchInv, NothingLeaks, Gated
  <2>3. /\ \A s \in Runs \ {r} : row'[s] = row[s] /\ ceiling'[s] = ceiling[s]
        /\ row'[r].spent = 0 /\ ~row'[r].gate
        /\ ceiling'[r] = 0 \/ ceiling'[r] = ceiling[r]
        /\ reserved' \subseteq reserved
    BY <1>0, <1>3, <1>n, <2>2 DEF WriteRow, NoRow
  <2>4. \A s \in Runs \ {r} : Same(s)
    BY <2>1, <2>3 DEF Same
  <2>5. Gated(r)'
    BY <2>1, <2>2, <2>3 DEF Gated
  <2>6. ceiling'[r] \in Nat
    BY <2>3, <1>n
  <2>7. Limit(r)' \in Nat
    BY <2>6, <1>n DEF Limit
  <2>8. Billed(r)'
    BY <2>1, <2>2, <2>3, <2>7, <1>n, <1>w, <1>p DEF Billed
  <2>q. QED
    BY <1>0, <2>4, <2>5, <2>8, BillOfOne
<1>4. CASE Install
  <2>1. /\ launch.at = "install"
        /\ UNCHANGED <<reserved, ceiling, row, work, inflight, paid, lost, unstopped, faults>>
        /\ record' = [record EXCEPT ![r] = [Unheld EXCEPT !.held = TRUE, !.status = "queued"]]
    BY <1>0, <1>4 DEF Install, billed, Launching
  <2>2. r \in reserved /\ work[r] = "idle" /\ paid[r] = 0 /\ ~row[r].gate /\ row[r].spent = 0
    BY <1>0, <2>1, <1>n DEF SpendInv, LaunchInv, NothingLeaks, Gated
  <2>3. record'[r].held /\ record'[r].spent = 0 /\ ~record'[r].gate /\ ~record'[r].tripped
         /\ record'[r].status = "queued"
    BY <1>0, <1>n, <2>1 DEF Unheld
  <2>4. \A s \in Runs \ {r} : Same(s)
    BY <1>n, <2>1 DEF Same
  <2>5. Gated(r)'
    BY <2>1, <2>2, <2>3 DEF Gated
  <2>6. Limit(r)' \in Nat
    BY <2>1, <1>n DEF Limit
  <2>7. Billed(r)'
    BY <2>1, <2>2, <2>3, <2>6, <1>n, <1>w, <1>p DEF Billed
  <2>q. QED
    BY <1>0, <2>4, <2>5, <2>7, BillOfOne
<1>5. CASE StartRun
  <2>1. /\ launch.at = "start" /\ reserved' = reserved \ {r}
        /\ UNCHANGED <<ceiling, row, record, inflight, paid, lost, unstopped, faults>>
        /\ work' = [work EXCEPT ![r] = "queued"]
    BY <1>0, <1>5 DEF StartRun, billed, Launching
  <2>2. r \in reserved /\ work[r] = "idle" /\ paid[r] = 0 /\ ~row[r].gate /\ record[r].held /\ ceiling[r] > 0
         /\ row[r].status = "queued"
    BY <1>0, <2>1, <1>n DEF SpendInv, LaunchInv, NothingLeaks, Gated
  <2>3. \A s \in Runs \ {r} : Same(s)
    BY <1>n, <2>1 DEF Same
  <2>4. Gated(r)'
    BY <1>0, <1>n, <2>1, <2>2 DEF Gated
  <2>5. Limit(r)' = Limit(r) /\ Known(r)' = Known(r) /\ Known(r) \in Nat
    BY <1>n, <2>1 DEF Limit, Known, Records
  <2>6. ASSUME r \notin unstopped PROVE Billed(r)'
    BY <1>0, <2>1, <2>2, <2>5, <2>6, <1>n DEF Billed
  <2>q. QED
    BY <1>0, <2>1, <2>3, <2>4, <2>6, BillOfOne
<1>q. QED
  BY <1>1, <1>2, <1>3, <1>4, <1>5

\* A worker carries what it knows of the bill along, and every call it starts still
\* fits the ceiling.
LEMMA WorkBilled ==
    ASSUME SpendInv, BillInv, NEW r \in Runs,
           \/ (\E ok \in BOOLEAN : Execute(r, ok)) \/ StartCall(r)
           \/ (\E cost \in 0..MaxCall : FinishCall(r, cost))
           \/ (\E ok \in BOOLEAN : OpenGate(r, ok)) \/ EndRun(r)
           \/ (\E ok \in BOOLEAN : PersistStatus(r, ok))
    PROVE  (\A s \in Runs : Gated(s) /\ (s \notin unstopped => Billed(s)))'
<1> DEFINE Goal == (\A s \in Runs : Gated(s) /\ (s \notin unstopped => Billed(s)))'
<1>n. /\ record[r] \in Records /\ row[r] \in Rows /\ record[r].spent \in Nat /\ row[r].spent \in Nat
      /\ ceiling[r] \in Nat /\ paid[r] \in Nat /\ lost[r] \in Nat /\ inflight[r] \in Nat
      /\ inflight[r] * MaxCall \in Nat /\ Branches * MaxCall \in Nat
      /\ Limit(r) \in Int
      /\ Gated(r) /\ Accounted(r) /\ (r \notin unstopped => Billed(r) /\ Bounded(r))
      /\ record \in [Runs -> Records] /\ row \in [Runs -> Rows] /\ ceiling \in [Runs -> Nat]
      /\ work \in [Runs -> Work] /\ inflight \in [Runs -> Nat] /\ paid \in [Runs -> Nat]
      /\ faults \in Nat
  BY BillNumbers DEF SpendInv, Typed, BillInv
<1>b. r \notin unstopped /\ record[r].held => record[r].spent <= Limit(r)
  BY <1>n DEF Billed, Bounded, Limit
<1>r. r \in reserved => work[r] = "idle"
  BY DEF SpendInv, NothingLeaks, LaunchInv
<1>z. ceiling[r] > 0 \/ work[r] = "idle"
  BY <1>n DEF SpendInv, Fresh, Accounted
<1>1. ASSUME NEW ok \in BOOLEAN, Execute(r, ok) PROVE Goal
  <2>1. /\ UNCHANGED <<reserved, ceiling, inflight, paid, lost, unstopped>>
        /\ work[r] = "queued" /\ record[r].held
        /\ work'[r] = IF ok THEN "running" ELSE "idle"
        /\ IF ok THEN faults' = faults ELSE faults' = faults + 1
    BY <1>1, <1>n DEF Execute, billed, Writes, Accounted
  <2>2. /\ record'[r].held /\ record'[r].spent = record[r].spent /\ record'[r].gate = record[r].gate
        /\ record'[r].tripped = record[r].tripped /\ record'[r].stopping = record[r].stopping
        /\ record'[r].status = "running"
        /\ row'[r].spent = IF ok THEN record[r].spent ELSE row[r].spent
        /\ row'[r].gate = row[r].gate
        /\ row'[r].status = IF ok THEN "running" ELSE row[r].status
    BY <1>1, <1>n, <2>1 DEF Execute, Persisted, Records, Rows
  <2>3. \A s \in Runs \ {r} : Same(s)
    BY <1>1, <1>n, <2>1 DEF Execute, Same
  <2>4. Gated(r)'
    BY <2>1, <2>2, <1>n, <1>r, <1>z DEF Gated
  <2>5. Limit(r)' = Limit(r) /\ Known(r)' = record[r].spent /\ Known(r) = record[r].spent
    BY <2>1, <2>2 DEF Limit, Known
  <2>6. ASSUME r \notin unstopped PROVE Billed(r)'
    BY <2>1, <2>2, <2>5, <2>6, <1>n, <1>b DEF Billed, Gated
  <2>q. QED
    BY <2>1, <2>3, <2>4, <2>6, BillOfOne
<1>2. CASE StartCall(r)
  <2>1. /\ UNCHANGED <<reserved, ceiling, record, row, work, paid, lost, unstopped, faults>>
        /\ work[r] = "running" /\ ~record[r].stopping /\ record[r].held
        /\ inflight[r] < Branches /\ inflight'[r] = inflight[r] + 1
    BY <1>2, <1>n DEF StartCall, billed, Accounted
  <2>2. \A s \in Runs \ {r} : Same(s)
    BY <1>2, <1>n, <2>1 DEF StartCall, Same
  <2>3. Gated(r)' /\ Limit(r)' = Limit(r) /\ Known(r)' = Known(r) /\ Known(r) = record[r].spent
    BY <2>1, <1>n DEF Gated, Limit, Known
  <2>4. inflight'[r] * MaxCall <= Branches * MaxCall /\ inflight'[r] * MaxCall \in Nat
    <3>1. (inflight[r] + 1) * MaxCall \in Nat
      BY <1>n, SpendingAssumption
    <3>q. QED
      BY <2>1, <1>n, <3>1, RoomForOneMore
  <2>5. ASSUME r \notin unstopped PROVE Billed(r)'
    <3>1. paid[r] <= lost[r] + record[r].spent /\ record[r].spent < ceiling[r]
      BY <1>n, <2>1, <2>3, <2>5 DEF Billed, Accounted
    <3>2. paid[r] + inflight'[r] * MaxCall <= lost[r] + Limit(r)
      BY <1>n, <2>4, <3>1 DEF Limit
    <3>q. QED
      BY <1>n, <2>1, <2>3, <2>5, <3>2 DEF Billed
  <2>q. QED
    BY <2>1, <2>2, <2>3, <2>5, BillOfOne
<1>3. ASSUME NEW cost \in 0..MaxCall, FinishCall(r, cost) PROVE Goal
  <2>1. /\ UNCHANGED <<reserved, ceiling, row, work, lost, unstopped, faults>>
        /\ inflight[r] > 0 /\ work[r] = "running" /\ record[r].held
        /\ inflight'[r] = inflight[r] - 1 /\ paid'[r] = paid[r] + cost
        /\ record'[r] = Counted(r, cost)
        /\ cost \in Nat /\ cost <= MaxCall /\ MaxCall \in Nat
    BY <1>3, <1>n, SpendingAssumption DEF FinishCall, billed, Accounted
  <2>2. /\ record'[r].held /\ record'[r].gate = record[r].gate /\ record'[r].status = record[r].status
        /\ record'[r].spent = record[r].spent + cost
        /\ r \notin unstopped /\ record'[r].tripped => record'[r].stopping
    BY <2>1, <1>n DEF Counted, Records, Billed
  <2>3. \A s \in Runs \ {r} : Same(s)
    BY <1>3, <1>n, <2>1 DEF FinishCall, Same
  <2>4. Gated(r)'
    BY <2>1, <2>2, <1>n, <1>r, <1>z DEF Gated
  <2>5. Limit(r)' = Limit(r) /\ Known(r)' = record[r].spent + cost /\ Known(r) = record[r].spent
    BY <2>1, <2>2 DEF Limit, Known
  <2>6. inflight'[r] * MaxCall = inflight[r] * MaxCall - MaxCall
    BY <2>1, <1>n
  <2>7. ASSUME r \notin unstopped PROVE Billed(r)'
    <3>1. paid'[r] + inflight'[r] * MaxCall <= lost[r] + Limit(r)
      BY <1>n, <2>1, <2>6, <2>7 DEF Billed
    <3>2. paid'[r] <= lost[r] + Known(r)'
      BY <1>n, <2>1, <2>5, <2>7 DEF Billed
    <3>q. QED
      BY <1>n, <2>1, <2>2, <2>5, <2>7, <3>1, <3>2 DEF Billed
  <2>q. QED
    BY <2>1, <2>3, <2>4, <2>7, BillOfOne
<1>4. ASSUME NEW ok \in BOOLEAN, OpenGate(r, ok) PROVE Goal
  <2>1. /\ UNCHANGED <<reserved, ceiling, inflight, paid, lost, unstopped>>
        /\ work[r] = "running" /\ record[r].held
        /\ work'[r] = IF ok THEN "parking" ELSE "idle"
        /\ IF ok THEN faults' = faults ELSE faults' = faults + 1
    BY <1>4, <1>n DEF OpenGate, billed, Writes, Accounted
  <2>2. /\ record'[r].held /\ record'[r].spent = record[r].spent
        /\ record'[r].tripped = record[r].tripped /\ record'[r].stopping = record[r].stopping
        /\ row'[r].spent = row[r].spent /\ row'[r].status = row[r].status
        /\ IF ok THEN record'[r].gate /\ row'[r].gate /\ record'[r].status = "waiting"
                 ELSE record'[r] = record[r] /\ row'[r] = row[r]
    <3>1. CASE ok
      <4>1. /\ record'[r] = [record[r] EXCEPT !.status = "waiting", !.gate = TRUE]
            /\ row'[r] = [row[r] EXCEPT !.gate = TRUE]
        BY <1>4, <1>n, <3>1 DEF OpenGate
      <4>q. QED
        BY <1>n, <2>1, <3>1, <4>1 DEF Records, Rows
    <3>2. CASE ~ok
      BY <1>4, <1>n, <2>1, <3>2 DEF OpenGate
    <3>q. QED
      BY <3>1, <3>2
  <2>3. \A s \in Runs \ {r} : Same(s)
    BY <1>4, <1>n, <2>1 DEF OpenGate, Same
  <2>4. Gated(r)'
    BY <2>1, <2>2, <1>n, <1>r, <1>z DEF Gated
  <2>5. Limit(r)' = Limit(r) /\ Known(r)' = record[r].spent /\ Known(r) = record[r].spent
    BY <2>1, <2>2 DEF Limit, Known
  <2>6. ASSUME r \notin unstopped PROVE Billed(r)'
    BY <2>1, <2>2, <2>5, <2>6, <1>n DEF Billed
  <2>q. QED
    BY <2>1, <2>3, <2>4, <2>6, BillOfOne
<1>5. CASE EndRun(r)
  <2>1. /\ UNCHANGED <<reserved, ceiling, row, inflight, paid, lost, unstopped, faults>>
        /\ work[r] = "running" /\ record[r].held /\ work'[r] = "ending"
    BY <1>5, <1>n DEF EndRun, billed, Accounted
  <2>2. /\ record'[r].held /\ record'[r].spent = record[r].spent /\ ~record'[r].gate
        /\ record'[r].tripped = record[r].tripped /\ record'[r].stopping = record[r].stopping
    BY <1>5, <1>n, <2>1 DEF EndRun, Records
  <2>3. \A s \in Runs \ {r} : Same(s)
    BY <1>5, <1>n, <2>1 DEF EndRun, Same
  <2>4. Gated(r)'
    BY <2>1, <2>2, <1>n, <1>r, <1>z DEF Gated
  <2>5. Limit(r)' = Limit(r) /\ Known(r)' = record[r].spent /\ Known(r) = record[r].spent
    BY <2>1, <2>2 DEF Limit, Known
  <2>6. ASSUME r \notin unstopped PROVE Billed(r)'
    BY <2>1, <2>2, <2>5, <2>6, <1>n DEF Billed
  <2>q. QED
    BY <2>1, <2>3, <2>4, <2>6, BillOfOne
<1>6. ASSUME NEW ok \in BOOLEAN, PersistStatus(r, ok) PROVE Goal
  <2>1. /\ UNCHANGED <<reserved, ceiling, record, inflight, paid, lost, unstopped>>
        /\ work[r] # "idle" /\ record[r].held /\ work'[r] = "idle"
        /\ IF ok THEN faults' = faults ELSE faults' = faults + 1
    BY <1>6, <1>n DEF PersistStatus, billed, Writes, Accounted
  <2>2. /\ row'[r].spent = IF ok THEN record[r].spent ELSE row[r].spent
        /\ row'[r].gate = row[r].gate
        /\ row'[r].status = IF ok THEN record[r].status ELSE row[r].status
    BY <1>6, <1>n, <2>1 DEF PersistStatus, Persisted, Rows
  <2>3. \A s \in Runs \ {r} : Same(s)
    BY <1>6, <1>n, <2>1 DEF PersistStatus, Same
  <2>4. Gated(r)'
    BY <2>1, <2>2, <1>n, <1>r, <1>z DEF Gated
  <2>5. Limit(r)' = Limit(r) /\ Known(r)' = record[r].spent /\ Known(r) = record[r].spent
    BY <2>1 DEF Limit, Known
  <2>6. ASSUME r \notin unstopped PROVE Billed(r)'
    BY <2>1, <2>2, <2>5, <2>6, <1>n, <1>b DEF Billed
  <2>q. QED
    BY <2>1, <2>3, <2>4, <2>6, BillOfOne
<1>q. QED
  BY <1>1, <1>2, <1>3, <1>4, <1>5, <1>6

\* What a reply, a sweep or a restored record finds of the bill.
LEMMA StoreBilled ==
    ASSUME SpendInv, BillInv, NEW r \in Runs,
           Reply(r) \/ Require(r) \/ Evict(r) \/ Purge(r) \/ Recover(r)
    PROVE  (\A s \in Runs : Gated(s) /\ (s \notin unstopped => Billed(s)))'
<1> DEFINE Goal == (\A s \in Runs : Gated(s) /\ (s \notin unstopped => Billed(s)))'
<1>n. /\ record[r] \in Records /\ row[r] \in Rows /\ record[r].spent \in Nat /\ row[r].spent \in Nat
      /\ ceiling[r] \in Nat /\ paid[r] \in Nat /\ lost[r] \in Nat /\ inflight[r] \in Nat
      /\ inflight[r] * MaxCall \in Nat /\ Branches * MaxCall \in Nat
      /\ Limit(r) \in Int /\ Limit(r) >= 0
      /\ Gated(r) /\ Accounted(r) /\ (r \notin unstopped => Billed(r) /\ Bounded(r))
      /\ record \in [Runs -> Records] /\ row \in [Runs -> Rows] /\ work \in [Runs -> Work]
      /\ faults \in Nat
  BY BillNumbers DEF SpendInv, Typed, BillInv
<1>b. r \notin unstopped /\ record[r].held => record[r].spent <= Limit(r)
  BY <1>n DEF Billed, Bounded, Limit
<1>f. record[r].held \/ row[r] # NoRow => ceiling[r] > 0
  BY <1>n DEF SpendInv, Fresh
<1>1. CASE Reply(r)
  <2>1. /\ UNCHANGED <<reserved, ceiling, inflight, paid, lost, unstopped, faults>>
        /\ record[r].held /\ record[r].gate /\ work'[r] = "queued"
    BY <1>1, <1>n DEF Reply, billed, Live
  <2>2. /\ record'[r].held /\ record'[r].spent = record[r].spent /\ ~record'[r].gate
        /\ record'[r].tripped = record[r].tripped /\ record'[r].stopping = record[r].stopping
        /\ row'[r].spent = row[r].spent /\ ~row'[r].gate /\ row'[r].status = "running"
    BY <1>1, <1>n, <2>1 DEF Reply, Records, Rows
  <2>3. \A s \in Runs \ {r} : Same(s)
    BY <1>1, <1>n, <2>1 DEF Reply, Same
  <2>4. Gated(r)'
    BY <2>1, <2>2, <1>n, <1>f DEF Gated
  <2>5. Limit(r)' = Limit(r) /\ Known(r)' = record[r].spent /\ Known(r) = record[r].spent
    BY <2>1, <2>2 DEF Limit, Known
  <2>6. ASSUME r \notin unstopped PROVE Billed(r)'
    BY <2>1, <2>2, <2>5, <2>6, <1>n DEF Billed, Gated
  <2>q. QED
    BY <2>1, <2>3, <2>4, <2>6, BillOfOne
<1>2. CASE Require(r)
  <2>1. /\ UNCHANGED <<reserved, ceiling, row, work, inflight, paid, lost, faults>>
        /\ ~record[r].held /\ r \notin reserved /\ work[r] = "idle"
        /\ record' = [record EXCEPT ![r] = Restored(r)]
        /\ unstopped' = unstopped \cup Forgiven(r) /\ row[r] # NoRow
    BY <1>2, <1>n DEF Require, HasRow, NoRow, Accounted
  <2>2. /\ record'[r].held /\ record'[r].spent = row[r].spent /\ record'[r].gate = row[r].gate
        /\ record'[r].tripped = row[r].tripped /\ record'[r].status = row[r].status
    BY <2>1, <1>n DEF Restored
  <2>3. \A s \in Runs \ {r} : Same(s)
    BY <1>n, <2>1 DEF Same
  <2>4. row[r].status = "ended" => ~row[r].gate
    BY <1>n DEF Gated
  <2>5. Gated(r)'
    BY <2>1, <2>2, <2>4, <1>n, <1>f DEF Gated
  <2>6. Limit(r)' = Limit(r) /\ Known(r)' = row[r].spent /\ Known(r) = row[r].spent
    BY <2>1, <2>2 DEF Limit, Known
  <2>7. ASSUME r \notin unstopped' PROVE Billed(r)'
    <3>1. ~row[r].tripped /\ r \notin unstopped
      BY <2>1, <2>7 DEF Forgiven
    <3>q. QED
      BY <2>1, <2>2, <2>6, <3>1, <1>n DEF Billed
  <2>q. QED
    BY <2>3, <2>5, <2>7, BillOfOne
<1>3. CASE Evict(r)
  <2>1. /\ UNCHANGED <<reserved, ceiling, row, work, inflight, paid, lost, unstopped, faults>>
        /\ record[r].held /\ record[r].status = "ended" /\ work[r] = "idle"
        /\ record' = [record EXCEPT ![r] = Unheld]
    BY <1>3 DEF Evict, billed
  <2>2. ~record'[r].held /\ ~row[r].gate
    BY <2>1, <1>n DEF Unheld, Gated
  <2>3. \A s \in Runs \ {r} : Same(s)
    BY <1>n, <2>1 DEF Same
  <2>4. Gated(r)'
    BY <2>1, <2>2, <1>n DEF Gated
  <2>5. Limit(r)' = Limit(r)
    BY <2>1 DEF Limit
  <2>6. ASSUME r \notin unstopped PROVE Billed(r)'
    BY <2>1, <2>2, <2>5, <2>6, <1>n DEF Billed
  <2>q. QED
    BY <2>1, <2>3, <2>4, <2>6, BillOfOne
<1>4. CASE Purge(r)
  <2>1. /\ UNCHANGED <<reserved, ceiling, work, inflight, paid, lost, unstopped, faults>>
        /\ ~row[r].gate
        /\ row' = [row EXCEPT ![r] = [NoRow EXCEPT !.status = "purged"]]
        /\ \/ record' = record
           \/ work[r] = "idle" /\ record' = [record EXCEPT ![r] = Unheld]
    BY <1>4 DEF Purge, billed
  <2>2. row'[r].spent = 0 /\ ~row'[r].gate /\ \A s \in Runs \ {r} : row'[s] = row[s]
    BY <2>1, <1>n DEF NoRow
  <2>3. record'[r] = record[r] \/ (work[r] = "idle" /\ ~record'[r].held)
    BY <2>1, <1>n DEF Unheld
  <2>4. \A s \in Runs \ {r} : Same(s)
    BY <1>n, <2>1, <2>2 DEF Same
  <2>5. Gated(r)'
    BY <2>1, <2>2, <2>3, <1>n DEF Gated
  <2>6. Limit(r)' = Limit(r)
    BY <2>1 DEF Limit
  <2>7. work[r] # "idle" => record[r].held /\ Known(r)' = Known(r)
    BY <2>3, <1>n DEF Accounted, Known
  <2>8. ASSUME r \notin unstopped PROVE Billed(r)'
    BY <2>1, <2>2, <2>3, <2>6, <2>7, <2>8, <1>n DEF Billed
  <2>q. QED
    BY <2>1, <2>4, <2>5, <2>8, BillOfOne
<1>5. CASE Recover(r)
  <2> DEFINE found == IF record[r].held THEN record[r] ELSE Restored(r)
  <2> DEFINE status == IF found.gate THEN "waiting" ELSE "ended"
  <2>0. found \in Records
    BY <1>n DEF Restored, Records, Rows, Statuses
  <2>1. /\ UNCHANGED <<reserved, ceiling, work, inflight, paid, lost, faults>>
        /\ r \notin reserved /\ work[r] = "idle" /\ row[r] # NoRow
        /\ record' = [record EXCEPT ![r] = [found EXCEPT !.status = status]]
        /\ row' = [row EXCEPT ![r] = [status |-> status, spent |-> found.spent,
                                      tripped |-> found.tripped, gate |-> found.gate]]
        /\ unstopped' = unstopped \cup (IF record[r].held THEN {} ELSE Forgiven(r))
    BY <1>5 DEF Recover, NoRow
  <2>2. /\ record'[r].spent = found.spent /\ record'[r].gate = found.gate /\ record'[r].status = status
        /\ record'[r].tripped = found.tripped /\ record'[r].stopping = found.stopping
        /\ record'[r].held = found.held
        /\ row'[r].spent = found.spent /\ row'[r].gate = found.gate
    BY <2>0, <2>1, <1>n DEF Records
  <2>3. found.held /\ found.spent = Known(r) /\ (found.gate <=> row[r].gate)
    BY <1>n DEF Restored, Known, Gated
  <2>4. \A s \in Runs \ {r} : Same(s)
    BY <1>n, <2>1 DEF Same
  <2>5. Gated(r)'
    BY <2>1, <2>2, <2>3, <1>n, <1>f DEF Gated
  <2>6. Limit(r)' = Limit(r) /\ Known(r)' = Known(r) /\ Known(r) \in Nat /\ row[r].spent <= Known(r)
    BY <2>1, <2>2, <2>3, <1>n DEF Limit, Known, Accounted
  <2>7. ASSUME r \notin unstopped' PROVE Billed(r)'
    <3>1. r \notin unstopped /\ (record[r].held \/ ~row[r].tripped)
      BY <2>1, <2>7 DEF Forgiven
    <3>2. found.tripped => found.stopping
      BY <3>1, <1>n DEF Restored, Billed
    <3>3. Known(r) <= Limit(r)
      BY <3>1, <1>n, <1>b DEF Known, Billed
    <3> HIDE DEF found
    <3>q. QED
      BY <2>1, <2>2, <2>3, <2>6, <3>1, <3>2, <3>3, <1>n DEF Billed
  <2>q. QED
    BY <2>4, <2>5, <2>7, BillOfOne
<1>q. QED
  BY <1>1, <1>2, <1>3, <1>4, <1>5

\* A process takes with it what it had not written, and no more.
LEMMA RestartBilled ==
    ASSUME SpendInv, BillInv, Restart
    PROVE  (\A s \in Runs : Gated(s) /\ (s \notin unstopped => Billed(s)))'
<1> SUFFICES ASSUME NEW r \in Runs PROVE Gated(r)' /\ (r \notin unstopped' => Billed(r)')
  OBVIOUS
<1>1. /\ UNCHANGED <<ceiling, row, paid, unstopped, faults>> /\ reserved' = {}
      /\ ~record'[r].held /\ work'[r] = "idle" /\ inflight'[r] = 0
      /\ lost'[r] = IF work[r] = "idle" /\ faults = 0 THEN lost[r] ELSE Less(paid[r], row[r].spent)
  BY DEF Restart, Unheld
<1>n. /\ row[r].spent \in Nat /\ inflight[r] * MaxCall \in Nat
      /\ ceiling[r] \in Nat /\ paid[r] \in Nat /\ lost[r] \in Nat
      /\ Limit(r) \in Int /\ Limit(r) >= 0
      /\ Gated(r) /\ (r \notin unstopped => Billed(r))
  BY BillNumbers
<1>2. Gated(r)'
  BY <1>1, <1>n DEF Gated
<1>3. Limit(r)' = Limit(r) /\ Known(r)' = row[r].spent /\ inflight'[r] * MaxCall = 0
  BY <1>1, SpendingAssumption DEF Limit, Known
<1>4. ASSUME r \notin unstopped PROVE Billed(r)'
  <2>1. CASE work[r] = "idle" /\ faults = 0
    BY <1>1, <1>3, <1>4, <1>n, <2>1 DEF Billed
  <2>2. CASE ~(work[r] = "idle" /\ faults = 0)
    <3>1. lost'[r] \in Nat /\ paid[r] <= lost'[r] + row[r].spent
      BY <1>1, <1>n, <2>2 DEF Less
    <3>q. QED
      BY <1>1, <1>3, <1>4, <1>n, <3>1 DEF Billed
  <2>q. QED
    BY <2>1, <2>2
<1>q. QED
  BY <1>1, <1>2, <1>4

\* BillInv is an invariant.
LEMMA BillInvariant == Spec => []BillInv
<1>1. Init => BillInv
  <2> SUFFICES ASSUME Init PROVE BillInv
    OBVIOUS
  <2>1. 0 * MaxCall = 0 /\ Branches * MaxCall \in Nat /\ Branches * MaxCall > 0
    BY SpendingAssumption
  <2>q. QED
    BY <2>1 DEF Init, BillInv, Gated, Billed, Limit, Unheld, NoRow
<1>2. SpendInv /\ BillInv /\ [Next]_vars => BillInv'
  <2> SUFFICES ASSUME SpendInv, BillInv, [Next]_vars PROVE BillInv'
    OBVIOUS
  <2> DEFINE Goal == (\A s \in Runs : Gated(s) /\ (s \notin unstopped => Billed(s)))'
  <2>1. CASE UNCHANGED vars \/ ReadRows \/ \E r \in Runs : ReadMemory(r)
    <3>1. \A s \in Runs : Same(s)
      BY <2>1 DEF vars, memory, billed, ReadRows, ReadMemory, Same
    <3>q. QED
      BY <3>1, SameStays, BillTypes DEF BillInv
  <2>2. CASE Admit \/ (\E ok \in BOOLEAN : WriteRow(ok)) \/ Install \/ StartRun
    BY <2>2, LaunchBilled, BillTypes DEF BillInv
  <2>3. ASSUME NEW r \in Runs,
               \/ (\E ok \in BOOLEAN : Execute(r, ok)) \/ StartCall(r)
               \/ (\E cost \in 0..MaxCall : FinishCall(r, cost))
               \/ (\E ok \in BOOLEAN : OpenGate(r, ok)) \/ EndRun(r)
               \/ (\E ok \in BOOLEAN : PersistStatus(r, ok))
        PROVE  BillInv'
    BY <2>3, WorkBilled, BillTypes DEF BillInv
  <2>4. ASSUME NEW r \in Runs, Reply(r) \/ Require(r) \/ Evict(r) \/ Purge(r) \/ Recover(r)
        PROVE  BillInv'
    BY <2>4, StoreBilled, BillTypes DEF BillInv
  <2>5. CASE Restart
    BY <2>5, RestartBilled, BillTypes DEF BillInv
  <2>q. QED
    BY <2>1, <2>2, <2>3, <2>4, <2>5 DEF Next
<1>q. QED
  BY <1>1, <1>2, SpendInvariant, PTL DEF Spec

\* Over its whole life, over pauses, evictions, restores and restarts, a run is billed
\* its ceiling, the calls its branches had in flight when it tripped and what died
\* unwritten, for every ceiling, call price and number of branches; only a run that
\* was restored after its ceiling tripped is not bounded.
THEOREM OvershootIsBounded == Spec => []OvershootBounded
<1>1. SpendInv /\ BillInv => OvershootBounded
  <2> SUFFICES ASSUME SpendInv, BillInv, NEW r \in Runs, r \notin unstopped
               PROVE  paid[r] + inflight[r] * MaxCall <= lost[r] + (ceiling[r] - 1) + Branches * MaxCall
    BY DEF OvershootBounded
  <2>1. paid[r] + inflight[r] * MaxCall <= lost[r] + Limit(r)
    BY DEF BillInv, Billed
  <2>2. Limit(r) = (ceiling[r] - 1) + Branches * MaxCall
    BY DEF Limit
  <2>q. QED
    BY <2>1, <2>2, BillNumbers
<1>q. QED
  BY <1>1, SpendInvariant, BillInvariant, PTL

(***************************************************************************)
(* Sums over finite sets: the balance, the bills and what the grants can   *)
(* cost are sums over the runs.                                            *)
(***************************************************************************)

\* The term of x on top of the sum of the others.
AddTerm(f, x, y) == f[x] + y

\* The choice that the folds of the library make.
AnyOf(s) == CHOOSE x \in s : TRUE

Sums == INSTANCE FoldLemmas WITH Op <- AddTerm, Choice <- AnyOf

\* A sum is the fold of its terms.
LEMMA SumIsFold ==
    ASSUME NEW f, NEW S
    PROVE  SumFunctionOnSet(f, S) = Sums!Fold(f, 0, S)
BY DEF SumFunctionOnSet, FoldFunctionOnSet, MapThenFoldSet, Sums!MapThenFoldSet, Sums!Fold,
       AddTerm, AnyOf

\* A sum of amounts is an amount; the sum of nothing is zero, any other one is a
\* term and the sum of the rest.
LEMMA SumPick ==
    ASSUME NEW S, IsFiniteSet(S), NEW f, \A x \in S : f[x] \in Nat
    PROVE  /\ SumFunctionOnSet(f, S) \in Nat
           /\ S = {} => SumFunctionOnSet(f, S) = 0
           /\ S # {} => SumFunctionOnSet(f, S) = f[AnyOf(S)] + SumFunctionOnSet(f, S \ {AnyOf(S)})
<1>1. \A s \in SUBSET S : s # {} => AnyOf(s) \in s
  BY DEF AnyOf
<1>2. Sums!Fold(f, 0, S) = IF S = {} THEN 0
                           ELSE AddTerm(f, AnyOf(S), Sums!Fold(f, 0, S \ {AnyOf(S)}))
  BY <1>1, Sums!FoldStep DEF IsFiniteSet, Sums!IsFiniteSet
<1>3. Sums!Fold(f, 0, S) \in Nat
  <2> DEFINE W == [s \in SUBSET S |-> Nat]
  <2>1. 0 \in W[{}]
    OBVIOUS
  <2>2. \A s \in SUBSET S : \A x \in s : \A y \in W[s \ {x}] : AddTerm(f, x, y) \in W[s]
    BY DEF AddTerm
  <2>3. W[S] = Nat
    OBVIOUS
  <2> HIDE DEF W
  <2>4. Sums!Fold(f, 0, S) \in W[S]
    BY <1>1, <2>1, <2>2, Sums!FoldInvariant DEF IsFiniteSet, Sums!IsFiniteSet
  <2>q. QED
    BY <2>3, <2>4
<1>q. QED
  BY <1>2, <1>3, SumIsFold DEF AddTerm

\* Which element goes first does not matter.
LEMMA SumRemove ==
    ASSUME NEW S, IsFiniteSet(S), NEW f, \A x \in S : f[x] \in Nat, NEW x \in S
    PROVE  SumFunctionOnSet(f, S) = f[x] + SumFunctionOnSet(f, S \ {x})
<1> DEFINE T == {n \in Nat : \A s \in SUBSET S : Cardinality(s) <= n =>
                               \A y \in s : SumFunctionOnSet(f, s) = f[y] + SumFunctionOnSet(f, s \ {y})}
<1>1. \A s \in SUBSET S : IsFiniteSet(s) /\ Cardinality(s) \in Nat
  BY FS_Subset, FS_CardinalityType
<1>2. \A s \in SUBSET S : /\ SumFunctionOnSet(f, s) \in Nat
                          /\ s # {} => SumFunctionOnSet(f, s) = f[AnyOf(s)] + SumFunctionOnSet(f, s \ {AnyOf(s)})
  BY <1>1, SumPick
<1>3. 0 \in T
  <2>1. ASSUME NEW s \in SUBSET S, Cardinality(s) <= 0 PROVE s = {}
    <3>1. Cardinality(s) = 0 /\ IsFiniteSet(s)
      BY <1>1, <2>1
    <3>q. QED BY <3>1, FS_EmptySet
  <2>q. QED BY <2>1
<1>4. ASSUME NEW n \in Nat, n \in T PROVE n + 1 \in T
  <2>1. ASSUME NEW s \in SUBSET S, Cardinality(s) <= n + 1, NEW y \in s
        PROVE  SumFunctionOnSet(f, s) = f[y] + SumFunctionOnSet(f, s \ {y})
    <3> DEFINE p == AnyOf(s)
    <3>1. p \in s
      BY DEF AnyOf
    <3> HIDE DEF p
    <3>2. \A z \in s : /\ s \ {z} \in SUBSET S
                       /\ Cardinality(s \ {z}) <= n
      <4>1. TAKE z \in s
      <4>2. Cardinality(s \ {z}) = Cardinality(s) - 1
        BY <1>1, FS_RemoveElement
      <4>3. Cardinality(s) \in Nat
        BY <1>1
      <4>q. QED BY <2>1, <4>2, <4>3
    <3>3. SumFunctionOnSet(f, s) = f[p] + SumFunctionOnSet(f, s \ {p})
      BY <1>2 DEF p
    <3>4. CASE y = p
      BY <3>3, <3>4
    <3>5. CASE y # p
      <4> DEFINE R == (s \ {p}) \ {y}
      <4>1. R = (s \ {y}) \ {p} /\ R \in SUBSET S
        BY <2>1
      <4>2. SumFunctionOnSet(f, s \ {p}) = f[y] + SumFunctionOnSet(f, R)
        BY <1>4, <3>1, <3>2, <3>5, <2>1
      <4>3. SumFunctionOnSet(f, s \ {y}) = f[p] + SumFunctionOnSet(f, R)
        <5>1. s \ {y} \in SUBSET S /\ p \in s \ {y} /\ Cardinality(s \ {y}) <= n
          BY <3>1, <3>2, <3>5, <2>1
        <5>2. SumFunctionOnSet(f, s \ {y}) = f[p] + SumFunctionOnSet(f, (s \ {y}) \ {p})
          BY <1>4, <5>1
        <5>q. QED BY <4>1, <5>2
      <4>4. f[p] \in Nat /\ f[y] \in Nat /\ SumFunctionOnSet(f, R) \in Nat
        BY <1>2, <3>1, <4>1, <2>1
      <4> HIDE DEF R
      <4>q. QED BY <3>3, <4>2, <4>3, <4>4
    <3>q. QED BY <3>4, <3>5
  <2>2. n + 1 \in Nat
    OBVIOUS
  <2>q. QED BY <2>1, <2>2
<1>5. \A n \in Nat : n \in T
  <2> HIDE DEF T
  <2>q. QED BY <1>3, <1>4, Sums!NatSetInduction
<1>6. Cardinality(S) \in T
  <2> HIDE DEF T
  <2>q. QED BY <1>1, <1>5
<1>q. QED BY <1>1, <1>6

\* Two disjoint parts add up to the whole.
LEMMA SumSplit ==
    ASSUME NEW S, IsFiniteSet(S), NEW f, \A x \in S : f[x] \in Nat, NEW A \in SUBSET S
    PROVE  SumFunctionOnSet(f, S) = SumFunctionOnSet(f, A) + SumFunctionOnSet(f, S \ A)
<1> DEFINE F == {B \in SUBSET A : SumFunctionOnSet(f, S) = SumFunctionOnSet(f, B) + SumFunctionOnSet(f, S \ B)}
<1>1. IsFiniteSet(A) /\ \A B \in SUBSET S : IsFiniteSet(B) /\ SumFunctionOnSet(f, B) \in Nat
  BY FS_Subset, SumPick
<1>2. {} \in F
  <2>1. SumFunctionOnSet(f, {}) = 0
    BY FS_EmptySet, SumPick
  <2>2. S \ {} = S /\ SumFunctionOnSet(f, S) \in Nat
    BY <1>1
  <2>q. QED BY <2>1, <2>2
<1>3. ASSUME NEW B \in SUBSET A, NEW x \in A \ B, B \in F PROVE B \cup {x} \in F
  <2> DEFINE C == B \cup {x}
  <2>1. SumFunctionOnSet(f, C) = f[x] + SumFunctionOnSet(f, C \ {x})
    <3>1. IsFiniteSet(C) /\ \A y \in C : f[y] \in Nat
      BY <1>1
    <3>q. QED BY <3>1, SumRemove
  <2>2. SumFunctionOnSet(f, S \ B) = f[x] + SumFunctionOnSet(f, (S \ B) \ {x})
    <3> DEFINE D == S \ B
    <3>1. IsFiniteSet(D) /\ (\A y \in D : f[y] \in Nat) /\ x \in D
      BY <1>1
    <3> HIDE DEF D
    <3>q. QED BY <3>1, SumRemove DEF D
  <2>3. C \ {x} = B /\ (S \ B) \ {x} = S \ C
    OBVIOUS
  <2>4. SumFunctionOnSet(f, B) \in Nat /\ SumFunctionOnSet(f, S \ C) \in Nat /\ f[x] \in Nat
    BY <1>1
  <2>5. SumFunctionOnSet(f, S) = SumFunctionOnSet(f, B) + SumFunctionOnSet(f, S \ B)
    BY <1>3
  <2>6. SumFunctionOnSet(f, S) = SumFunctionOnSet(f, C) + SumFunctionOnSet(f, S \ C)
    <3> DEFINE sS == SumFunctionOnSet(f, S)
    <3> DEFINE sB == SumFunctionOnSet(f, B)
    <3> DEFINE sC == SumFunctionOnSet(f, C)
    <3> DEFINE sNotB == SumFunctionOnSet(f, S \ B)
    <3> DEFINE sNotC == SumFunctionOnSet(f, S \ C)
    <3>1. sC = f[x] + sB /\ sNotB = f[x] + sNotC /\ sS = sB + sNotB
      BY <2>1, <2>2, <2>3, <2>5
    <3>2. sB \in Nat /\ sNotC \in Nat /\ f[x] \in Nat
      BY <2>4
    <3> HIDE DEF sS, sB, sC, sNotB, sNotC
    <3>3. sS = sC + sNotC
      BY <3>1, <3>2
    <3>q. QED
      BY <3>3 DEF sS, sC, sNotC
  <2>q. QED BY <2>6
<1>4. A \in F
  <2> HIDE DEF F
  <2>q. QED BY <1>1, <1>2, <1>3, Sums!FiniteSetInduction DEF IsFiniteSet, Sums!IsFiniteSet
<1>q. QED BY <1>4

\* A sum grows with its terms.
LEMMA SumMonotone ==
    ASSUME NEW S, IsFiniteSet(S), NEW f, NEW g,
           \A x \in S : f[x] \in Nat /\ g[x] \in Nat /\ f[x] <= g[x]
    PROVE  SumFunctionOnSet(f, S) <= SumFunctionOnSet(g, S)
<1> DEFINE F == {B \in SUBSET S : SumFunctionOnSet(f, B) <= SumFunctionOnSet(g, B)}
<1>1. \A B \in SUBSET S : IsFiniteSet(B) /\ SumFunctionOnSet(f, B) \in Nat /\ SumFunctionOnSet(g, B) \in Nat
  BY FS_Subset, SumPick
<1>2. {} \in F
  <2>1. SumFunctionOnSet(f, {}) = 0 /\ SumFunctionOnSet(g, {}) = 0
    BY FS_EmptySet, SumPick
  <2>q. QED BY <2>1
<1>3. ASSUME NEW B \in SUBSET S, NEW x \in S \ B, B \in F PROVE B \cup {x} \in F
  <2> DEFINE C == B \cup {x}
  <2>1. IsFiniteSet(C) /\ x \in C /\ C \ {x} = B /\ C \in SUBSET S
    BY <1>1
  <2>2. SumFunctionOnSet(f, C) = f[x] + SumFunctionOnSet(f, B)
    <3> HIDE DEF C
    <3>q. QED BY <2>1, SumRemove
  <2>3. SumFunctionOnSet(g, C) = g[x] + SumFunctionOnSet(g, B)
    <3> HIDE DEF C
    <3>q. QED BY <2>1, SumRemove
  <2>4. f[x] \in Nat /\ g[x] \in Nat /\ f[x] <= g[x] /\ SumFunctionOnSet(f, B) <= SumFunctionOnSet(g, B)
    BY <1>3
  <2>5. SumFunctionOnSet(f, C) <= SumFunctionOnSet(g, C)
    <3> HIDE DEF C
    <3>q. QED BY <1>1, <2>2, <2>3, <2>4
  <2>q. QED BY <2>1, <2>5
<1>4. S \in F
  <2> HIDE DEF F
  <2>q. QED BY <1>2, <1>3, Sums!FiniteSetInduction DEF IsFiniteSet, Sums!IsFiniteSet
<1>q. QED BY <1>4

\* Of two sums that differ in one term.
LEMMA SumExcept ==
    ASSUME NEW S, IsFiniteSet(S), NEW f, NEW g, NEW x \in S,
           \A y \in S : f[y] \in Nat /\ g[y] \in Nat,
           \A y \in S \ {x} : g[y] <= f[y]
    PROVE  SumFunctionOnSet(g, S) + f[x] <= SumFunctionOnSet(f, S) + g[x]
<1> DEFINE R == S \ {x}
<1>1. IsFiniteSet(R) /\ \A y \in R : f[y] \in Nat /\ g[y] \in Nat /\ g[y] <= f[y]
  BY FS_Subset
<1>2. SumFunctionOnSet(f, S) = f[x] + SumFunctionOnSet(f, R) /\ SumFunctionOnSet(g, S) = g[x] + SumFunctionOnSet(g, R)
  BY SumRemove
<1>3. SumFunctionOnSet(g, R) <= SumFunctionOnSet(f, R) /\ SumFunctionOnSet(f, R) \in Nat /\ SumFunctionOnSet(g, R) \in Nat
  <2> HIDE DEF R
  <2>q. QED BY <1>1, SumMonotone, SumPick
<1>4. f[x] \in Nat /\ g[x] \in Nat
  OBVIOUS
<1> HIDE DEF R
<1>q. QED BY <1>2, <1>3, <1>4

\* A sum of nothing but zeros.
LEMMA SumOfNothing ==
    ASSUME NEW S, IsFiniteSet(S), NEW f, \A x \in S : f[x] = 0
    PROVE  SumFunctionOnSet(f, S) = 0
<1> DEFINE F == {B \in SUBSET S : SumFunctionOnSet(f, B) = 0}
<1>1. {} \in F
  BY FS_EmptySet, SumPick
<1>2. ASSUME NEW B \in SUBSET S, NEW x \in S \ B, B \in F PROVE B \cup {x} \in F
  <2> DEFINE C == B \cup {x}
  <2>1. IsFiniteSet(C) /\ x \in C /\ C \ {x} = B /\ C \in SUBSET S /\ \A y \in C : f[y] \in Nat
    BY FS_Subset
  <2>2. SumFunctionOnSet(f, C) = f[x] + SumFunctionOnSet(f, B)
    <3> HIDE DEF C
    <3>q. QED BY <2>1, SumRemove
  <2>3. SumFunctionOnSet(f, C) = 0
    <3> HIDE DEF C
    <3>q. QED BY <1>2, <2>2
  <2>q. QED BY <2>1, <2>3
<1>3. S \in F
  <2> HIDE DEF F
  <2>q. QED BY <1>1, <1>2, Sums!FiniteSetInduction DEF IsFiniteSet, Sums!IsFiniteSet
<1>q. QED BY <1>3

(***************************************************************************)
(* The cap.  A grant is decided on a balance read in two steps, while the  *)
(* other runs go on.                                                       *)
(***************************************************************************)

\* No process was restarted and no write failed.
Calm == restarts = 0 /\ faults = 0

\* In a calm system memory and store agree on what a run spent, whenever one replaces the other.
Settled(r) ==
    /\ record[r].held => record[r].spent = paid[r]
    /\ row[r].status = "purged" => ~record[r].held
    /\ ~record[r].held /\ r \notin reserved =>
          /\ row[r].status \in {"none", "ended", "purged"}
          /\ row[r].status # "purged" => row[r].spent = paid[r]
    /\ r \in reserved => paid[r] = 0 /\ row[r].status \in {"none", "queued"}
    /\ record[r].held /\ work[r] = "idle" /\ r \notin reserved =>
          /\ record[r].status \in {"waiting", "ended"}
          /\ row[r].status = record[r].status /\ row[r].spent = paid[r]
    /\ work[r] = "queued" => record[r].status \in {"queued", "running"}
    /\ work[r] = "running" => record[r].status = "running"
    /\ work[r] = "parking" => record[r].status = "waiting"
    /\ work[r] = "ending" => record[r].status = "ended"
    /\ work[r] # "idle" => row[r].status \in {"queued", "running", "waiting"}

\* What every run may still spend.
Exposures == [r \in Runs |-> Exposure(r)]

\* The exposures fit the cap, and a launch has read no less than they are.
Balanced ==
    /\ SumFunctionOnSet(Exposures, Runs) <= Cap
    /\ launch.at = "rows" =>
          /\ SumFunctionOnSet(Exposures, seen) <= balance
          /\ \A r \in Runs \ seen : ~Live(r) /\ work[r] = "idle"
    /\ launch.at = "admit" => SumFunctionOnSet(Exposures, Runs) <= balance

\* Promises and ceilings fit the cap, and what is counted are amounts.
Sized ==
    /\ seen \subseteq Runs /\ balance \in Nat /\ paid \in [Runs -> Nat]
    /\ restarts \in Nat /\ faults \in Nat
    /\ \A r \in Runs : /\ promised[r] <= Cap /\ ceiling[r] <= Cap /\ inflight[r] <= Branches
                       /\ record[r].status # "purged"
\* The inductive invariant of the grants.
GrantInv ==
    /\ Sized
    /\ Calm => \A r \in Runs : Settled(r)
    /\ Undisturbed => Balanced

\* What ReadMemory and ReadRows add up are amounts.
LEMMA BillsAreAmounts ==
    ASSUME SpendInv, seen \subseteq Runs
    PROVE  /\ SumFunctionOnSet([s \in Runs |-> record[s].spent + Committed(s)], Held) \in Nat
           /\ SumFunctionOnSet(promised, Runs) \in Nat
           /\ SumFunctionOnSet([s \in Runs |-> row[s].spent], Runs \ seen) \in Nat
<1> DEFINE bill == [s \in Runs |-> record[s].spent + Committed(s)]
<1> DEFINE cost == [s \in Runs |-> row[s].spent]
<1>1. IsFiniteSet(Runs) /\ IsFiniteSet(Held) /\ IsFiniteSet(Runs \ seen)
  BY FS_Subset, SpendingAssumption DEF Held
<1>2. \A s \in Runs : bill[s] \in Nat /\ cost[s] \in Nat /\ promised[s] \in Nat
  BY DEF SpendInv, Typed, Records, Rows, Committed, Less
<1>3. Held \subseteq Runs
  BY DEF Held
<1> HIDE DEF bill, cost
<1>4. SumFunctionOnSet(bill, Held) \in Nat
  BY <1>1, <1>2, <1>3, SumPick
<1>5. SumFunctionOnSet(promised, Runs) \in Nat
  BY <1>1, <1>2, SumPick
<1>6. SumFunctionOnSet(cost, Runs \ seen) \in Nat
  BY <1>1, <1>2, SumPick
<1>q. QED
  BY <1>4, <1>5, <1>6 DEF bill, cost

\* The balance and the bills are amounts, and no promise exceeds the cap.
LEMMA SizedStep ==
    ASSUME SpendInv, Sized, [Next]_vars
    PROVE  Sized'
<1>1. ASSUME NEW r \in Runs, ReadMemory(r) PROVE Sized'
  <2>1. balance' \in Nat /\ seen' \subseteq Runs
    BY <1>1, BillsAreAmounts DEF ReadMemory, Sized, Held
  <2>q. QED
    BY <1>1, <2>1 DEF ReadMemory, Sized
<1>2. ASSUME ReadRows PROVE Sized'
  <2>1. balance' \in Nat
    BY <1>2, BillsAreAmounts DEF ReadRows, Sized
  <2>q. QED
    BY <1>2, <2>1 DEF ReadRows, Sized
<1>3. ASSUME Admit PROVE Sized'
  BY <1>3, IdleIsALaunch, SpendingAssumption DEF SpendInv, Typed, NothingLeaks, LaunchSteps,
      Records, Rows, Statuses, Sized, Admit, Launching, Tighter, ActiveSlots
<1>4. ASSUME NEW ok \in BOOLEAN, WriteRow(ok) PROVE Sized'
  BY <1>4, IdleIsALaunch, SpendingAssumption DEF SpendInv, Typed, NothingLeaks, LaunchSteps,
      Records, Rows, Statuses, Sized, WriteRow, Launching, Writes, NoRow
<1>5. ASSUME Install PROVE Sized'
  BY <1>5, SpendingAssumption DEF SpendInv, Typed, NothingLeaks, LaunchSteps, Records, Rows,
      Statuses, Sized, Install, Launching, Unheld
<1>6. ASSUME StartRun PROVE Sized'
  BY <1>6, IdleIsALaunch, SpendingAssumption DEF SpendInv, Typed, NothingLeaks, LaunchSteps,
      Records, Rows, Statuses, Sized, StartRun, Launching
<1>7. ASSUME NEW r \in Runs, NEW ok \in BOOLEAN, Execute(r, ok) PROVE Sized'
  BY <1>7, SpendingAssumption DEF SpendInv, Typed, NothingLeaks, LaunchSteps, Records, Rows,
      Statuses, Sized, Execute, Writes, Persisted
<1>8. ASSUME NEW r \in Runs, StartCall(r) PROVE Sized'
  BY <1>8, SpendingAssumption DEF SpendInv, Typed, NothingLeaks, LaunchSteps, Records, Rows,
      Statuses, Sized, StartCall
<1>9. ASSUME NEW r \in Runs, NEW cost \in 0..MaxCall, FinishCall(r, cost) PROVE Sized'
  BY <1>9, SpendingAssumption DEF SpendInv, Typed, NothingLeaks, LaunchSteps, Records, Rows,
      Statuses, Sized, FinishCall, Counted, Trips
<1>10. ASSUME NEW r \in Runs, NEW ok \in BOOLEAN, OpenGate(r, ok) PROVE Sized'
  <2>1. \A s \in Runs : record'[s].status # "purged"
    <3>1. \A s \in Runs \ {r} : record'[s] = record[s]
      BY <1>10 DEF OpenGate, SpendInv, Typed
    <3>2. record'[r].status = record[r].status \/ record'[r].status = "waiting"
      <4>1. CASE ok
        <5>1. record'[r] = [record[r] EXCEPT !.status = "waiting", !.gate = TRUE]
          BY <1>10, <4>1 DEF OpenGate, SpendInv, Typed
        <5>q. QED
          BY <5>1 DEF SpendInv, Typed, Records
      <4>2. CASE ~ok
        BY <1>10, <4>2 DEF OpenGate
      <4>q. QED
        BY <4>1, <4>2
    <3>q. QED
      BY <3>1, <3>2 DEF Sized
  <2>2. faults' \in Nat
    BY <1>10 DEF OpenGate, Writes, Sized, SpendInv, Typed
  <2>q. QED
    BY <1>10, <2>1, <2>2 DEF OpenGate, Sized
<1>11. ASSUME NEW r \in Runs, EndRun(r) PROVE Sized'
  BY <1>11, SpendingAssumption DEF SpendInv, Typed, NothingLeaks, LaunchSteps, Records, Rows,
      Statuses, Sized, EndRun
<1>12. ASSUME NEW r \in Runs, NEW ok \in BOOLEAN, PersistStatus(r, ok) PROVE Sized'
  BY <1>12, SpendingAssumption DEF SpendInv, Typed, NothingLeaks, LaunchSteps, Records, Rows,
      Statuses, Sized, PersistStatus, Writes, Persisted
<1>13. ASSUME NEW r \in Runs, Reply(r) PROVE Sized'
  BY <1>13, SpendingAssumption DEF SpendInv, Typed, NothingLeaks, LaunchSteps, Records, Rows,
      Statuses, Sized, Reply, Live
<1>14. ASSUME NEW r \in Runs, Require(r) PROVE Sized'
  BY <1>14, SpendingAssumption DEF SpendInv, Typed, NothingLeaks, LaunchSteps, Records, Rows,
      Statuses, Sized, Require, Restored, HasRow
<1>15. ASSUME NEW r \in Runs, Evict(r) PROVE Sized'
  BY <1>15, SpendingAssumption DEF SpendInv, Typed, NothingLeaks, LaunchSteps, Records, Rows,
      Statuses, Sized, Evict, Unheld
<1>16. ASSUME NEW r \in Runs, Purge(r) PROVE Sized'
  BY <1>16, SpendingAssumption DEF SpendInv, Typed, NothingLeaks, LaunchSteps, Records, Rows,
      Statuses, Sized, Purge, NoRow, Unheld, Live
<1>17. ASSUME NEW r \in Runs, Recover(r) PROVE Sized'
  BY <1>17, SpendingAssumption DEF SpendInv, Typed, NothingLeaks, LaunchSteps, Records, Rows,
      Statuses, Sized, Recover, Restored
<1>18. ASSUME Restart PROVE Sized'
  BY <1>18, IdleIsALaunch, SpendingAssumption DEF SpendInv, Typed, NothingLeaks, LaunchSteps,
      Records, Rows, Statuses, Sized, Restart, Unheld
<1>19. CASE UNCHANGED vars
  BY <1>19 DEF vars, memory, SpendInv, Typed, NothingLeaks, LaunchSteps, Records, Rows,
      Statuses, Sized
<1>q. QED
  BY <1>1, <1>2, <1>3, <1>4, <1>5, <1>6, <1>7, <1>8, <1>9, <1>10, <1>11, <1>12, <1>13, <1>14,
      <1>15, <1>16, <1>17, <1>18, <1>19
     DEF Next

\* While nothing was lost, memory, rows and the provider agree on every run.
LEMMA SettledStep ==
    ASSUME SpendInv, Sized, \A s \in Runs : Settled(s), [Next]_vars, Calm'
    PROVE  (\A s \in Runs : Settled(s))'
<1>1. ASSUME NEW r \in Runs, ReadMemory(r) PROVE (\A s \in Runs : Settled(s))'
  BY <1>1, SpendingAssumption DEF SpendInv, Typed, NothingLeaks, LaunchInv, Fresh, Accounted,
      Records, Rows, Statuses, Sized, Settled, Calm, ReadMemory, Launching, Held, Committed,
      Less
<1>2. ASSUME ReadRows PROVE (\A s \in Runs : Settled(s))'
  BY <1>2, SpendingAssumption DEF SpendInv, Typed, NothingLeaks, LaunchInv, Fresh, Accounted,
      Records, Rows, Statuses, Sized, Settled, Calm, ReadRows, Launching
<1>3. ASSUME Admit PROVE (\A s \in Runs : Settled(s))'
  <2>1. UNCHANGED <<record, row, work, paid>>
    BY <1>3 DEF Admit
  <2>2. launch.run \in Runs /\ ~record[launch.run].held /\ row[launch.run] = NoRow
    BY <1>3 DEF Admit, Launching, SpendInv, Typed, LaunchInv, Fresh
  <2>3. launch.run \notin reserved
    BY <1>3 DEF Admit, Launching, SpendInv, NothingLeaks
  <2>4. paid[launch.run] = 0
    BY <2>2, <2>3 DEF Settled, NoRow
  <2>5. reserved' = reserved \/ reserved' = reserved \cup {launch.run}
    BY <1>3 DEF Admit
  <2>q. QED
    BY <2>1, <2>2, <2>3, <2>4, <2>5 DEF Settled, NoRow
<1>4. ASSUME NEW ok \in BOOLEAN, WriteRow(ok) PROVE (\A s \in Runs : Settled(s))'
  BY <1>4, IdleIsALaunch, SpendingAssumption DEF SpendInv, Typed, NothingLeaks, LaunchInv,
      Fresh, Accounted, Records, Rows, Statuses, Sized, Settled, Calm, WriteRow, Launching,
      Writes, NoRow
<1>5. ASSUME Install PROVE (\A s \in Runs : Settled(s))'
  BY <1>5, SpendingAssumption DEF SpendInv, Typed, NothingLeaks, LaunchInv, Fresh, Accounted,
      Records, Rows, Statuses, Sized, Settled, Calm, Install, Launching, Unheld
<1>6. ASSUME StartRun PROVE (\A s \in Runs : Settled(s))'
  BY <1>6, IdleIsALaunch, SpendingAssumption DEF SpendInv, Typed, NothingLeaks, LaunchInv,
      Fresh, Accounted, Records, Rows, Statuses, Sized, Settled, Calm, StartRun, Launching
<1>7. ASSUME NEW r \in Runs, NEW ok \in BOOLEAN, Execute(r, ok) PROVE (\A s \in Runs : Settled(s))'
  BY <1>7, SpendingAssumption DEF SpendInv, Typed, NothingLeaks, LaunchInv, Fresh, Accounted,
      Records, Rows, Statuses, Sized, Settled, Calm, Execute, Writes, Persisted
<1>8. ASSUME NEW r \in Runs, StartCall(r) PROVE (\A s \in Runs : Settled(s))'
  BY <1>8, SpendingAssumption DEF SpendInv, Typed, NothingLeaks, LaunchInv, Fresh, Accounted,
      Records, Rows, Statuses, Sized, Settled, Calm, StartCall
<1>9. ASSUME NEW r \in Runs, NEW cost \in 0..MaxCall, FinishCall(r, cost) PROVE (\A s \in Runs : Settled(s))'
  BY <1>9, SpendingAssumption DEF SpendInv, Typed, NothingLeaks, LaunchInv, Fresh, Accounted,
      Records, Rows, Statuses, Sized, Settled, Calm, FinishCall, Counted, Trips
<1>10. ASSUME NEW r \in Runs, NEW ok \in BOOLEAN, OpenGate(r, ok) PROVE (\A s \in Runs : Settled(s))'
  <2>1. ok /\ work[r] = "running" /\ record[r].held
    BY <1>10 DEF OpenGate, Writes, Calm, Sized, SpendInv, Accounted
  <2>2. \A s \in Runs \ {r} : record'[s] = record[s] /\ row'[s] = row[s] /\ work'[s] = work[s]
    BY <1>10 DEF OpenGate, SpendInv, Typed
  <2>3. UNCHANGED <<paid, reserved>>
    BY <1>10 DEF OpenGate
  <2>4. /\ record'[r] = [record[r] EXCEPT !.status = "waiting", !.gate = TRUE]
        /\ row'[r] = [row[r] EXCEPT !.gate = TRUE] /\ work'[r] = "parking"
    BY <1>10, <2>1 DEF OpenGate, SpendInv, Typed
  <2>5. /\ record'[r].held /\ record'[r].status = "waiting" /\ record'[r].spent = record[r].spent
        /\ row'[r].status = row[r].status
    BY <2>1, <2>4 DEF SpendInv, Typed, Records, Rows
  <2>6. Settled(r)'
    BY <2>1, <2>3, <2>4, <2>5 DEF Settled
  <2>7. \A s \in Runs \ {r} : Settled(s)'
    BY <2>2, <2>3 DEF Settled
  <2>q. QED
    BY <2>6, <2>7
<1>11. ASSUME NEW r \in Runs, EndRun(r) PROVE (\A s \in Runs : Settled(s))'
  BY <1>11, SpendingAssumption DEF SpendInv, Typed, NothingLeaks, LaunchInv, Fresh, Accounted,
      Records, Rows, Statuses, Sized, Settled, Calm, EndRun
<1>12. ASSUME NEW r \in Runs, NEW ok \in BOOLEAN, PersistStatus(r, ok) PROVE (\A s \in Runs : Settled(s))'
  BY <1>12, SpendingAssumption DEF SpendInv, Typed, NothingLeaks, LaunchInv, Fresh, Accounted,
      Records, Rows, Statuses, Sized, Settled, Calm, PersistStatus, Writes, Persisted
<1>13. ASSUME NEW r \in Runs, Reply(r) PROVE (\A s \in Runs : Settled(s))'
  BY <1>13, SpendingAssumption DEF SpendInv, Typed, NothingLeaks, LaunchInv, Fresh, Accounted,
      Records, Rows, Statuses, Sized, Settled, Calm, Reply, Live
<1>14. ASSUME NEW r \in Runs, Require(r) PROVE (\A s \in Runs : Settled(s))'
  BY <1>14, SpendingAssumption DEF SpendInv, Typed, NothingLeaks, LaunchInv, Fresh, Accounted,
      Records, Rows, Statuses, Sized, Settled, Calm, Require, Restored, HasRow
<1>15. ASSUME NEW r \in Runs, Evict(r) PROVE (\A s \in Runs : Settled(s))'
  BY <1>15, SpendingAssumption DEF SpendInv, Typed, NothingLeaks, LaunchInv, Fresh, Accounted,
      Records, Rows, Statuses, Sized, Settled, Calm, Evict, Unheld
<1>16. ASSUME NEW r \in Runs, Purge(r) PROVE (\A s \in Runs : Settled(s))'
  BY <1>16, SpendingAssumption DEF SpendInv, Typed, NothingLeaks, LaunchInv, Fresh, Accounted,
      Records, Rows, Statuses, Sized, Settled, Calm, Purge, NoRow, Unheld, Live
<1>17. ASSUME NEW r \in Runs, Recover(r) PROVE (\A s \in Runs : Settled(s))'
  BY <1>17, SpendingAssumption DEF SpendInv, Typed, NothingLeaks, LaunchInv, Fresh, Accounted,
      Records, Rows, Statuses, Sized, Settled, Calm, Recover, Restored
<1>18. ASSUME Restart PROVE (\A s \in Runs : Settled(s))'
  BY <1>18, IdleIsALaunch, SpendingAssumption DEF SpendInv, Typed, NothingLeaks, LaunchInv,
      Fresh, Accounted, Records, Rows, Statuses, Sized, Settled, Calm, Restart, Unheld
<1>19. CASE UNCHANGED vars
  BY <1>19 DEF vars, memory, SpendInv, Typed, NothingLeaks, LaunchInv, Fresh, Accounted,
      Records, Rows, Statuses, Sized, Settled, Calm
<1>q. QED
  BY <1>1, <1>2, <1>3, <1>4, <1>5, <1>6, <1>7, <1>8, <1>9, <1>10, <1>11, <1>12, <1>13, <1>14,
      <1>15, <1>16, <1>17, <1>18, <1>19
     DEF Next

\* What a run can cost only falls when it stops being live.
LEMMA ExposureFollowsLive ==
    ASSUME SpendInv, paid \in [Runs -> Nat], UNCHANGED <<paid, reserved, ceiling>>,
           \A s \in Runs : Live(s)' => Live(s)
    PROVE  \A s \in Runs : Exposure(s)' <= Exposure(s)
  BY DEF Exposure, SpendInv, Typed

\* Only the admission of a run raises what a run can cost.
LEMMA ExposureStep ==
    ASSUME SpendInv, Sized, \A s \in Runs : Settled(s), [Next]_vars, Calm'
    PROVE  Admit \/ \A s \in Runs : Exposure(s)' <= Exposure(s)
<1>1. ASSUME NEW r \in Runs, ReadMemory(r) PROVE Admit \/ \A s \in Runs : Exposure(s)' <= Exposure(s)
  BY <1>1, SpendingAssumption DEF SpendInv, Typed, NothingLeaks, LaunchInv, Fresh, Accounted,
      Records, Rows, Statuses, Sized, Settled, Calm, Exposure, Live, ReadMemory, Launching,
      Held, Committed, Less
<1>2. ASSUME ReadRows PROVE Admit \/ \A s \in Runs : Exposure(s)' <= Exposure(s)
  BY <1>2, SpendingAssumption DEF SpendInv, Typed, NothingLeaks, LaunchInv, Fresh, Accounted,
      Records, Rows, Statuses, Sized, Settled, Calm, Exposure, Live, ReadRows, Launching
<1>3. ASSUME Admit PROVE Admit \/ \A s \in Runs : Exposure(s)' <= Exposure(s)
  BY <1>3
<1>4. ASSUME NEW ok \in BOOLEAN, WriteRow(ok) PROVE Admit \/ \A s \in Runs : Exposure(s)' <= Exposure(s)
  BY <1>4, IdleIsALaunch, SpendingAssumption DEF SpendInv, Typed, NothingLeaks, LaunchInv,
      Fresh, Accounted, Records, Rows, Statuses, Sized, Settled, Calm, Exposure, Live,
      WriteRow, Launching, Writes, NoRow
<1>5. ASSUME Install PROVE Admit \/ \A s \in Runs : Exposure(s)' <= Exposure(s)
  BY <1>5, SpendingAssumption DEF SpendInv, Typed, NothingLeaks, LaunchInv, Fresh, Accounted,
      Records, Rows, Statuses, Sized, Settled, Calm, Exposure, Live, Install, Launching, Unheld
<1>6. ASSUME StartRun PROVE Admit \/ \A s \in Runs : Exposure(s)' <= Exposure(s)
  BY <1>6, IdleIsALaunch, SpendingAssumption DEF SpendInv, Typed, NothingLeaks, LaunchInv,
      Fresh, Accounted, Records, Rows, Statuses, Sized, Settled, Calm, Exposure, Live,
      StartRun, Launching
<1>7. ASSUME NEW r \in Runs, NEW ok \in BOOLEAN, Execute(r, ok) PROVE Admit \/ \A s \in Runs : Exposure(s)' <= Exposure(s)
  <2>1. UNCHANGED <<paid, reserved, ceiling>> /\ record[r].held /\ record[r].status # "ended"
    BY <1>7 DEF Execute, SpendInv, Accounted, Settled
  <2>2. \A s \in Runs : Live(s)' => Live(s)
    BY <1>7, <2>1 DEF Execute, SpendInv, Typed, Records, Live
  <2>q. QED
    BY <2>1, <2>2, ExposureFollowsLive DEF Sized
<1>8. ASSUME NEW r \in Runs, StartCall(r) PROVE Admit \/ \A s \in Runs : Exposure(s)' <= Exposure(s)
  BY <1>8, SpendingAssumption DEF SpendInv, Typed, NothingLeaks, LaunchInv, Fresh, Accounted,
      Records, Rows, Statuses, Sized, Settled, Calm, Exposure, Live, StartCall
<1>9. ASSUME NEW r \in Runs, NEW cost \in 0..MaxCall, FinishCall(r, cost) PROVE Admit \/ \A s \in Runs : Exposure(s)' <= Exposure(s)
  BY <1>9, SpendingAssumption DEF SpendInv, Typed, NothingLeaks, LaunchInv, Fresh, Accounted,
      Records, Rows, Statuses, Sized, Settled, Calm, Exposure, Live, FinishCall, Counted, Trips
<1>10. ASSUME NEW r \in Runs, NEW ok \in BOOLEAN, OpenGate(r, ok) PROVE Admit \/ \A s \in Runs : Exposure(s)' <= Exposure(s)
  <2>1. UNCHANGED <<paid, reserved, ceiling>> /\ record[r].held /\ record[r].status # "ended"
    BY <1>10 DEF OpenGate, SpendInv, Accounted, Settled
  <2>2. \A s \in Runs \ {r} : record'[s] = record[s]
    BY <1>10 DEF OpenGate, SpendInv, Typed
  <2>3. \A s \in Runs : Live(s)' => Live(s)
    BY <2>1, <2>2 DEF Live
  <2>q. QED
    BY <2>1, <2>3, ExposureFollowsLive DEF Sized
<1>11. ASSUME NEW r \in Runs, EndRun(r) PROVE Admit \/ \A s \in Runs : Exposure(s)' <= Exposure(s)
  BY <1>11, SpendingAssumption DEF SpendInv, Typed, NothingLeaks, LaunchInv, Fresh, Accounted,
      Records, Rows, Statuses, Sized, Settled, Calm, Exposure, Live, EndRun
<1>12. ASSUME NEW r \in Runs, NEW ok \in BOOLEAN, PersistStatus(r, ok) PROVE Admit \/ \A s \in Runs : Exposure(s)' <= Exposure(s)
  BY <1>12, SpendingAssumption DEF SpendInv, Typed, NothingLeaks, LaunchInv, Fresh, Accounted,
      Records, Rows, Statuses, Sized, Settled, Calm, Exposure, Live, PersistStatus, Writes,
      Persisted
<1>13. ASSUME NEW r \in Runs, Reply(r) PROVE Admit \/ \A s \in Runs : Exposure(s)' <= Exposure(s)
  BY <1>13, SpendingAssumption DEF SpendInv, Typed, NothingLeaks, LaunchInv, Fresh, Accounted,
      Records, Rows, Statuses, Sized, Settled, Calm, Exposure, Live, Reply, Live
<1>14. ASSUME NEW r \in Runs, Require(r) PROVE Admit \/ \A s \in Runs : Exposure(s)' <= Exposure(s)
  BY <1>14, SpendingAssumption DEF SpendInv, Typed, NothingLeaks, LaunchInv, Fresh, Accounted,
      Records, Rows, Statuses, Sized, Settled, Calm, Exposure, Live, Require, Restored, HasRow
<1>15. ASSUME NEW r \in Runs, Evict(r) PROVE Admit \/ \A s \in Runs : Exposure(s)' <= Exposure(s)
  BY <1>15, SpendingAssumption DEF SpendInv, Typed, NothingLeaks, LaunchInv, Fresh, Accounted,
      Records, Rows, Statuses, Sized, Settled, Calm, Exposure, Live, Evict, Unheld
<1>16. ASSUME NEW r \in Runs, Purge(r) PROVE Admit \/ \A s \in Runs : Exposure(s)' <= Exposure(s)
  BY <1>16, SpendingAssumption DEF SpendInv, Typed, NothingLeaks, LaunchInv, Fresh, Accounted,
      Records, Rows, Statuses, Sized, Settled, Calm, Exposure, Live, Purge, NoRow, Unheld, Live
<1>17. ASSUME NEW r \in Runs, Recover(r) PROVE Admit \/ \A s \in Runs : Exposure(s)' <= Exposure(s)
  BY <1>17, SpendingAssumption DEF SpendInv, Typed, NothingLeaks, LaunchInv, Fresh, Accounted,
      Records, Rows, Statuses, Sized, Settled, Calm, Exposure, Live, Recover, Restored
<1>18. ASSUME Restart PROVE Admit \/ \A s \in Runs : Exposure(s)' <= Exposure(s)
  BY <1>18, IdleIsALaunch, SpendingAssumption DEF SpendInv, Typed, NothingLeaks, LaunchInv,
      Fresh, Accounted, Records, Rows, Statuses, Sized, Settled, Calm, Exposure, Live, Restart,
      Unheld
<1>19. CASE UNCHANGED vars
  BY <1>19 DEF vars, memory, SpendInv, Typed, NothingLeaks, LaunchInv, Fresh, Accounted,
      Records, Rows, Statuses, Sized, Settled, Calm, Exposure, Live
<1>q. QED
  BY <1>1, <1>2, <1>3, <1>4, <1>5, <1>6, <1>7, <1>8, <1>9, <1>10, <1>11, <1>12, <1>13, <1>14,
      <1>15, <1>16, <1>17, <1>18, <1>19
     DEF Next

\* Between the two reads of the balance a run that was not in memory stays out of work.
LEMMA UnseenStay ==
    ASSUME SpendInv, Sized, \A s \in Runs : Settled(s), [Next]_vars, Calm', launch.at = "rows",
           NEW u \in Runs, ~Live(u), work[u] = "idle"
    PROVE  ~Live(u)' /\ work'[u] = "idle"
<1>1. ASSUME NEW r \in Runs, ReadMemory(r) PROVE ~Live(u)' /\ work'[u] = "idle"
  BY <1>1, SpendingAssumption DEF SpendInv, Typed, NothingLeaks, Accounted, Records, Rows,
      Statuses, Settled, Calm, Live, Sized, ReadMemory, Launching, Held, Committed, Less
<1>2. ASSUME ReadRows PROVE ~Live(u)' /\ work'[u] = "idle"
  BY <1>2, SpendingAssumption DEF SpendInv, Typed, NothingLeaks, Accounted, Records, Rows,
      Statuses, Settled, Calm, Live, Sized, ReadRows, Launching
<1>3. ASSUME Admit PROVE ~Live(u)' /\ work'[u] = "idle"
  BY <1>3, IdleIsALaunch, SpendingAssumption DEF SpendInv, Typed, NothingLeaks, Accounted,
      Records, Rows, Statuses, Settled, Calm, Live, Sized, Admit, Launching, Tighter,
      ActiveSlots
<1>4. ASSUME NEW ok \in BOOLEAN, WriteRow(ok) PROVE ~Live(u)' /\ work'[u] = "idle"
  BY <1>4, IdleIsALaunch, SpendingAssumption DEF SpendInv, Typed, NothingLeaks, Accounted,
      Records, Rows, Statuses, Settled, Calm, Live, Sized, WriteRow, Launching, Writes, NoRow
<1>5. ASSUME Install PROVE ~Live(u)' /\ work'[u] = "idle"
  BY <1>5, SpendingAssumption DEF SpendInv, Typed, NothingLeaks, Accounted, Records, Rows,
      Statuses, Settled, Calm, Live, Sized, Install, Launching, Unheld
<1>6. ASSUME StartRun PROVE ~Live(u)' /\ work'[u] = "idle"
  BY <1>6, IdleIsALaunch, SpendingAssumption DEF SpendInv, Typed, NothingLeaks, Accounted,
      Records, Rows, Statuses, Settled, Calm, Live, Sized, StartRun, Launching
<1>7. ASSUME NEW r \in Runs, NEW ok \in BOOLEAN, Execute(r, ok) PROVE ~Live(u)' /\ work'[u] = "idle"
  BY <1>7, SpendingAssumption DEF SpendInv, Typed, NothingLeaks, Accounted, Records, Rows,
      Statuses, Settled, Calm, Live, Sized, Execute, Writes, Persisted
<1>8. ASSUME NEW r \in Runs, StartCall(r) PROVE ~Live(u)' /\ work'[u] = "idle"
  BY <1>8, SpendingAssumption DEF SpendInv, Typed, NothingLeaks, Accounted, Records, Rows,
      Statuses, Settled, Calm, Live, Sized, StartCall
<1>9. ASSUME NEW r \in Runs, NEW cost \in 0..MaxCall, FinishCall(r, cost) PROVE ~Live(u)' /\ work'[u] = "idle"
  BY <1>9, SpendingAssumption DEF SpendInv, Typed, NothingLeaks, Accounted, Records, Rows,
      Statuses, Settled, Calm, Live, Sized, FinishCall, Counted, Trips
<1>10. ASSUME NEW r \in Runs, NEW ok \in BOOLEAN, OpenGate(r, ok) PROVE ~Live(u)' /\ work'[u] = "idle"
  BY <1>10, SpendingAssumption DEF SpendInv, Typed, NothingLeaks, Accounted, Records, Rows,
      Statuses, Settled, Calm, Live, Sized, OpenGate, Writes
<1>11. ASSUME NEW r \in Runs, EndRun(r) PROVE ~Live(u)' /\ work'[u] = "idle"
  BY <1>11, SpendingAssumption DEF SpendInv, Typed, NothingLeaks, Accounted, Records, Rows,
      Statuses, Settled, Calm, Live, Sized, EndRun
<1>12. ASSUME NEW r \in Runs, NEW ok \in BOOLEAN, PersistStatus(r, ok) PROVE ~Live(u)' /\ work'[u] = "idle"
  BY <1>12, SpendingAssumption DEF SpendInv, Typed, NothingLeaks, Accounted, Records, Rows,
      Statuses, Settled, Calm, Live, Sized, PersistStatus, Writes, Persisted
<1>13. ASSUME NEW r \in Runs, Reply(r) PROVE ~Live(u)' /\ work'[u] = "idle"
  BY <1>13, SpendingAssumption DEF SpendInv, Typed, NothingLeaks, Accounted, Records, Rows,
      Statuses, Settled, Calm, Live, Sized, Reply, Live
<1>14. ASSUME NEW r \in Runs, Require(r) PROVE ~Live(u)' /\ work'[u] = "idle"
  BY <1>14, SpendingAssumption DEF SpendInv, Typed, NothingLeaks, Accounted, Records, Rows,
      Statuses, Settled, Calm, Live, Sized, Require, Restored, HasRow
<1>15. ASSUME NEW r \in Runs, Evict(r) PROVE ~Live(u)' /\ work'[u] = "idle"
  BY <1>15, SpendingAssumption DEF SpendInv, Typed, NothingLeaks, Accounted, Records, Rows,
      Statuses, Settled, Calm, Live, Sized, Evict, Unheld
<1>16. ASSUME NEW r \in Runs, Purge(r) PROVE ~Live(u)' /\ work'[u] = "idle"
  BY <1>16, SpendingAssumption DEF SpendInv, Typed, NothingLeaks, Accounted, Records, Rows,
      Statuses, Settled, Calm, Live, Sized, Purge, NoRow, Unheld, Live
<1>17. ASSUME NEW r \in Runs, Recover(r) PROVE ~Live(u)' /\ work'[u] = "idle"
  BY <1>17, SpendingAssumption DEF SpendInv, Typed, NothingLeaks, Accounted, Records, Rows,
      Statuses, Settled, Calm, Live, Sized, Recover, Restored
<1>18. ASSUME Restart PROVE ~Live(u)' /\ work'[u] = "idle"
  BY <1>18, IdleIsALaunch, SpendingAssumption DEF SpendInv, Typed, NothingLeaks, Accounted,
      Records, Rows, Statuses, Settled, Calm, Live, Sized, Restart, Unheld
<1>19. CASE UNCHANGED vars
  BY <1>19 DEF vars, memory, SpendInv, Typed, NothingLeaks, Accounted, Records, Rows, Statuses,
      Settled, Calm, Live, Sized
<1>q. QED
  BY <1>1, <1>2, <1>3, <1>4, <1>5, <1>6, <1>7, <1>8, <1>9, <1>10, <1>11, <1>12, <1>13, <1>14,
      <1>15, <1>16, <1>17, <1>18, <1>19
     DEF Next

\* A lost write and a crash are never undone.
LEMMA CalmStays ==
    ASSUME Sized, [Next]_vars, Calm'
    PROVE  Calm
<1>1. ASSUME NEW r \in Runs, ReadMemory(r) PROVE Calm
  BY <1>1, SpendingAssumption DEF Calm, Sized, ReadMemory, Launching, Held, Committed, Less
<1>2. ASSUME ReadRows PROVE Calm
  BY <1>2, SpendingAssumption DEF Calm, Sized, ReadRows, Launching
<1>3. ASSUME Admit PROVE Calm
  BY <1>3, IdleIsALaunch, SpendingAssumption DEF Calm, Sized, Admit, Launching, Tighter,
      ActiveSlots
<1>4. ASSUME NEW ok \in BOOLEAN, WriteRow(ok) PROVE Calm
  BY <1>4, IdleIsALaunch, SpendingAssumption DEF Calm, Sized, WriteRow, Launching, Writes,
      NoRow
<1>5. ASSUME Install PROVE Calm
  BY <1>5, SpendingAssumption DEF Calm, Sized, Install, Launching, Unheld
<1>6. ASSUME StartRun PROVE Calm
  BY <1>6, IdleIsALaunch, SpendingAssumption DEF Calm, Sized, StartRun, Launching
<1>7. ASSUME NEW r \in Runs, NEW ok \in BOOLEAN, Execute(r, ok) PROVE Calm
  BY <1>7, SpendingAssumption DEF Calm, Sized, Execute, Writes, Persisted
<1>8. ASSUME NEW r \in Runs, StartCall(r) PROVE Calm
  BY <1>8, SpendingAssumption DEF Calm, Sized, StartCall
<1>9. ASSUME NEW r \in Runs, NEW cost \in 0..MaxCall, FinishCall(r, cost) PROVE Calm
  BY <1>9, SpendingAssumption DEF Calm, Sized, FinishCall, Counted, Trips
<1>10. ASSUME NEW r \in Runs, NEW ok \in BOOLEAN, OpenGate(r, ok) PROVE Calm
  BY <1>10, SpendingAssumption DEF Calm, Sized, OpenGate, Writes
<1>11. ASSUME NEW r \in Runs, EndRun(r) PROVE Calm
  BY <1>11, SpendingAssumption DEF Calm, Sized, EndRun
<1>12. ASSUME NEW r \in Runs, NEW ok \in BOOLEAN, PersistStatus(r, ok) PROVE Calm
  BY <1>12, SpendingAssumption DEF Calm, Sized, PersistStatus, Writes, Persisted
<1>13. ASSUME NEW r \in Runs, Reply(r) PROVE Calm
  BY <1>13, SpendingAssumption DEF Calm, Sized, Reply, Live
<1>14. ASSUME NEW r \in Runs, Require(r) PROVE Calm
  BY <1>14, SpendingAssumption DEF Calm, Sized, Require, Restored, HasRow
<1>15. ASSUME NEW r \in Runs, Evict(r) PROVE Calm
  BY <1>15, SpendingAssumption DEF Calm, Sized, Evict, Unheld
<1>16. ASSUME NEW r \in Runs, Purge(r) PROVE Calm
  BY <1>16, SpendingAssumption DEF Calm, Sized, Purge, NoRow, Unheld, Live
<1>17. ASSUME NEW r \in Runs, Recover(r) PROVE Calm
  BY <1>17, SpendingAssumption DEF Calm, Sized, Recover, Restored
<1>18. ASSUME Restart PROVE Calm
  BY <1>18, IdleIsALaunch, SpendingAssumption DEF Calm, Sized, Restart, Unheld
<1>19. CASE UNCHANGED vars
  BY <1>19 DEF vars, memory, Calm, Sized
<1>q. QED
  BY <1>1, <1>2, <1>3, <1>4, <1>5, <1>6, <1>7, <1>8, <1>9, <1>10, <1>11, <1>12, <1>13, <1>14,
      <1>15, <1>16, <1>17, <1>18, <1>19
     DEF Next

\* Nor is a purge.
LEMMA DisturbedStays ==
    ASSUME SpendInv, Sized, Calm => \A s \in Runs : Settled(s), [Next]_vars, Undisturbed'
    PROVE  Undisturbed
<1>1. ASSUME NEW r \in Runs, ReadMemory(r) PROVE Undisturbed
  BY <1>1, SpendingAssumption DEF SpendInv, Typed, LaunchInv, Accounted, Records, Rows,
      Statuses, Settled, Calm, Sized, Undisturbed, ReadMemory, Launching, Held, Committed, Less
<1>2. ASSUME ReadRows PROVE Undisturbed
  BY <1>2, SpendingAssumption DEF SpendInv, Typed, LaunchInv, Accounted, Records, Rows,
      Statuses, Settled, Calm, Sized, Undisturbed, ReadRows, Launching
<1>3. ASSUME Admit PROVE Undisturbed
  BY <1>3, IdleIsALaunch, SpendingAssumption DEF SpendInv, Typed, LaunchInv, Accounted,
      Records, Rows, Statuses, Settled, Calm, Sized, Undisturbed, Admit, Launching, Tighter,
      ActiveSlots
<1>4. ASSUME NEW ok \in BOOLEAN, WriteRow(ok) PROVE Undisturbed
  <2>1. faults = 0 /\ restarts = 0
    BY <1>4 DEF WriteRow, Writes, Undisturbed, SpendInv, Typed, Sized
  <2>2. row[launch.run] = NoRow /\ \A s \in Runs \ {launch.run} : row'[s] = row[s]
    BY <1>4 DEF WriteRow, Launching, SpendInv, Typed, LaunchInv
  <2>q. QED
    BY <2>1, <2>2 DEF Undisturbed, NoRow
<1>5. ASSUME Install PROVE Undisturbed
  BY <1>5, SpendingAssumption DEF SpendInv, Typed, LaunchInv, Accounted, Records, Rows,
      Statuses, Settled, Calm, Sized, Undisturbed, Install, Launching, Unheld
<1>6. ASSUME StartRun PROVE Undisturbed
  BY <1>6, IdleIsALaunch, SpendingAssumption DEF SpendInv, Typed, LaunchInv, Accounted,
      Records, Rows, Statuses, Settled, Calm, Sized, Undisturbed, StartRun, Launching
<1>7. ASSUME NEW r \in Runs, NEW ok \in BOOLEAN, Execute(r, ok) PROVE Undisturbed
  BY <1>7, SpendingAssumption DEF SpendInv, Typed, LaunchInv, Accounted, Records, Rows,
      Statuses, Settled, Calm, Sized, Undisturbed, Execute, Writes, Persisted
<1>8. ASSUME NEW r \in Runs, StartCall(r) PROVE Undisturbed
  BY <1>8, SpendingAssumption DEF SpendInv, Typed, LaunchInv, Accounted, Records, Rows,
      Statuses, Settled, Calm, Sized, Undisturbed, StartCall
<1>9. ASSUME NEW r \in Runs, NEW cost \in 0..MaxCall, FinishCall(r, cost) PROVE Undisturbed
  BY <1>9, SpendingAssumption DEF SpendInv, Typed, LaunchInv, Accounted, Records, Rows,
      Statuses, Settled, Calm, Sized, Undisturbed, FinishCall, Counted, Trips
<1>10. ASSUME NEW r \in Runs, NEW ok \in BOOLEAN, OpenGate(r, ok) PROVE Undisturbed
  BY <1>10, SpendingAssumption DEF SpendInv, Typed, LaunchInv, Accounted, Records, Rows,
      Statuses, Settled, Calm, Sized, Undisturbed, OpenGate, Writes
<1>11. ASSUME NEW r \in Runs, EndRun(r) PROVE Undisturbed
  BY <1>11, SpendingAssumption DEF SpendInv, Typed, LaunchInv, Accounted, Records, Rows,
      Statuses, Settled, Calm, Sized, Undisturbed, EndRun
<1>12. ASSUME NEW r \in Runs, NEW ok \in BOOLEAN, PersistStatus(r, ok) PROVE Undisturbed
  BY <1>12, SpendingAssumption DEF SpendInv, Typed, LaunchInv, Accounted, Records, Rows,
      Statuses, Settled, Calm, Sized, Undisturbed, PersistStatus, Writes, Persisted
<1>13. ASSUME NEW r \in Runs, Reply(r) PROVE Undisturbed
  BY <1>13, SpendingAssumption DEF SpendInv, Typed, LaunchInv, Accounted, Records, Rows,
      Statuses, Settled, Calm, Sized, Undisturbed, Reply, Live
<1>14. ASSUME NEW r \in Runs, Require(r) PROVE Undisturbed
  BY <1>14, SpendingAssumption DEF SpendInv, Typed, LaunchInv, Accounted, Records, Rows,
      Statuses, Settled, Calm, Sized, Undisturbed, Require, Restored, HasRow
<1>15. ASSUME NEW r \in Runs, Evict(r) PROVE Undisturbed
  BY <1>15, SpendingAssumption DEF SpendInv, Typed, LaunchInv, Accounted, Records, Rows,
      Statuses, Settled, Calm, Sized, Undisturbed, Evict, Unheld
<1>16. ASSUME NEW r \in Runs, Purge(r) PROVE Undisturbed
  BY <1>16, SpendingAssumption DEF SpendInv, Typed, LaunchInv, Accounted, Records, Rows,
      Statuses, Settled, Calm, Sized, Undisturbed, Purge, NoRow, Unheld, Live
<1>17. ASSUME NEW r \in Runs, Recover(r) PROVE Undisturbed
  BY <1>17, SpendingAssumption DEF SpendInv, Typed, LaunchInv, Accounted, Records, Rows,
      Statuses, Settled, Calm, Sized, Undisturbed, Recover, Restored
<1>18. ASSUME Restart PROVE Undisturbed
  BY <1>18, IdleIsALaunch, SpendingAssumption DEF SpendInv, Typed, LaunchInv, Accounted,
      Records, Rows, Statuses, Settled, Calm, Sized, Undisturbed, Restart, Unheld
<1>19. CASE UNCHANGED vars
  BY <1>19 DEF vars, memory, SpendInv, Typed, LaunchInv, Accounted, Records, Rows, Statuses,
      Settled, Calm, Sized, Undisturbed
<1>q. QED
  BY <1>1, <1>2, <1>3, <1>4, <1>5, <1>6, <1>7, <1>8, <1>9, <1>10, <1>11, <1>12, <1>13, <1>14,
      <1>15, <1>16, <1>17, <1>18, <1>19
     DEF Next

\* Exposures are amounts, under the ceilings.
LEMMA ExposureType ==
    ASSUME SpendInv, Sized
    PROVE  \A s \in Runs : /\ Exposures[s] = Exposure(s) /\ Exposures[s] \in Nat
                           /\ Exposures[s] <= ceiling[s]
  BY DEF Exposures, Exposure, SpendInv, Typed, Sized

\* The same of the next state.
LEMMA ExposureTypePrime ==
    ASSUME SpendInv', Sized'
    PROVE  \A s \in Runs : /\ Exposures'[s] = Exposure(s)' /\ Exposures'[s] \in Nat
                           /\ Exposures'[s] <= ceiling'[s]
  BY DEF Exposures, Exposure, SpendInv, Typed, Sized

\* What memory says of a run covers what the run can cost.
LEMMA MemoryCovers ==
    ASSUME SpendInv, Sized, \A s \in Runs : Settled(s), reserved = {}
    PROVE  \A s \in Held : Exposure(s) <= record[s].spent + Committed(s)
<1>1. SUFFICES ASSUME NEW s \in Held PROVE Exposure(s) <= record[s].spent + Committed(s)
  OBVIOUS
<1>2. /\ s \in Runs /\ record[s].held /\ record[s].spent = paid[s]
      /\ record[s].spent \in Nat /\ ceiling[s] \in Nat
  BY DEF Held, Settled, SpendInv, Typed, Records
<1>3. CASE Live(s)
  BY <1>2, <1>3 DEF Exposure, Committed, Less
<1>4. CASE ~Live(s)
  BY <1>2, <1>4 DEF Exposure, Committed
<1>q. QED
  BY <1>3, <1>4

\* The first half of the balance covers the runs in memory.
LEMMA ReadMemoryBalances ==
    ASSUME SpendInv, Sized, \A s \in Runs : Settled(s), NEW r \in Runs, ReadMemory(r)
    PROVE  /\ SumFunctionOnSet(Exposures, seen') <= balance'
           /\ \A s \in Runs \ seen' : ~Live(s) /\ work[s] = "idle"
<1> DEFINE bill == [s \in Runs |-> record[s].spent + Committed(s)]
<1>1. seen' = Held /\ balance' = SumFunctionOnSet(bill, Held) + SumFunctionOnSet(promised, Runs) /\ Held \subseteq Runs
  BY DEF ReadMemory, Held
<1>2. reserved = {}
  BY DEF ReadMemory, Launching, SpendInv, NothingLeaks
<1>3. IsFiniteSet(Held)
  BY <1>1, FS_Subset, SpendingAssumption
<1>4. \A s \in Held : Exposures[s] \in Nat /\ bill[s] \in Nat /\ Exposures[s] <= bill[s]
  <2>1. \A s \in Runs : bill[s] = record[s].spent + Committed(s) /\ bill[s] \in Nat
    BY DEF SpendInv, Typed, Records, Committed, Less
  <2>q. QED
    BY <2>1, <1>1, <1>2, ExposureType, MemoryCovers
<1>5. SumFunctionOnSet(Exposures, Held) <= SumFunctionOnSet(bill, Held)
  <2> HIDE DEF bill
  <2>q. QED
    BY <1>3, <1>4, SumMonotone
<1>6. SumFunctionOnSet(Exposures, Held) \in Nat /\ SumFunctionOnSet(bill, Held) \in Nat /\ SumFunctionOnSet(promised, Runs) \in Nat
  BY <1>3, <1>4, SumPick, BillsAreAmounts DEF Sized
<1>7. \A s \in Runs \ Held : ~Live(s) /\ work[s] = "idle"
  BY DEF Held, Live, SpendInv, Accounted
<1> HIDE DEF bill
<1>q. QED
  BY <1>1, <1>5, <1>6, <1>7

\* With the second half it covers every run.
LEMMA ReadRowsBalances ==
    ASSUME SpendInv, Sized, \A s \in Runs : Settled(s), Undisturbed, Balanced, ReadRows
    PROVE  SumFunctionOnSet(Exposures, Runs) <= balance'
<1> DEFINE cost == [s \in Runs |-> row[s].spent]
<1> DEFINE rest == Runs \ seen
<1>1. balance' = balance + SumFunctionOnSet(cost, rest) /\ SumFunctionOnSet(Exposures, seen) <= balance
  BY DEF ReadRows, Launching, Balanced
<1>2. IsFiniteSet(rest) /\ IsFiniteSet(seen) /\ IsFiniteSet(Runs) /\ seen \in SUBSET Runs
  BY FS_Subset, SpendingAssumption DEF Sized
<1>3. \A s \in rest : Exposures[s] \in Nat /\ cost[s] \in Nat /\ Exposures[s] <= cost[s]
  <2>1. SUFFICES ASSUME NEW s \in rest PROVE Exposures[s] \in Nat /\ cost[s] \in Nat /\ Exposures[s] <= cost[s]
    OBVIOUS
  <2>2. ~Live(s) /\ work[s] = "idle" /\ s \in Runs /\ s \notin reserved
    BY DEF ReadRows, Launching, Balanced, SpendInv, NothingLeaks
  <2>3. paid[s] = row[s].spent
    BY <2>2 DEF Settled, Undisturbed
  <2>4. cost[s] = row[s].spent /\ row[s].spent \in Nat /\ ceiling[s] \in Nat
    BY <2>2 DEF SpendInv, Typed, Rows
  <2>5. Exposure(s) <= paid[s]
    BY <2>2, <2>3, <2>4 DEF Exposure
  <2>q. QED
    BY <2>2, <2>3, <2>4, <2>5, ExposureType
<1>4. SumFunctionOnSet(Exposures, rest) <= SumFunctionOnSet(cost, rest)
  <2> HIDE DEF rest, cost
  <2>q. QED
    BY <1>2, <1>3, SumMonotone
<1>5. SumFunctionOnSet(Exposures, Runs) = SumFunctionOnSet(Exposures, seen) + SumFunctionOnSet(Exposures, rest)
  BY <1>2, ExposureType, SumSplit
<1>6. SumFunctionOnSet(Exposures, seen) \in Nat /\ SumFunctionOnSet(Exposures, rest) \in Nat /\ SumFunctionOnSet(cost, rest) \in Nat
  <2>1. \A s \in seen : Exposures[s] \in Nat
    BY <1>2, ExposureType
  <2> HIDE DEF rest, cost
  <2>q. QED
    BY <1>2, <1>3, <2>1, SumPick
<1>7. balance \in Nat
  BY DEF Sized
<1> HIDE DEF rest, cost
<1>q. QED
  BY <1>1, <1>4, <1>5, <1>6, <1>7

\* A granted ceiling is no more than what the balance leaves of the cap.
LEMMA AdmitBalances ==
    ASSUME SpendInv, Sized, Balanced, Admit, Sized', SpendInv'
    PROVE  SumFunctionOnSet(Exposures', Runs) <= Cap
<1> DEFINE r == launch.run
<1>1. r \in Runs /\ ceiling[r] = 0 /\ SumFunctionOnSet(Exposures, Runs) <= balance /\ SumFunctionOnSet(Exposures, Runs) <= Cap
  BY DEF Admit, Launching, Balanced, SpendInv, Typed, LaunchInv
<1>2. \A s \in Runs : /\ Exposures[s] \in Nat /\ Exposures[s] <= ceiling[s]
                      /\ Exposures'[s] \in Nat /\ Exposures'[s] <= ceiling'[s]
  BY ExposureType, ExposureTypePrime
<1>3. \A s \in Runs \ {r} : Exposures'[s] <= Exposures[s]
  <2>1. \A s \in Runs \ {r} : /\ ceiling'[s] = ceiling[s] /\ paid'[s] = paid[s] /\ record'[s] = record[s]
                              /\ (s \in reserved') <=> (s \in reserved)
    BY DEF Admit, SpendInv, Typed
  <2>2. \A s \in Runs \ {r} : Exposure(s)' = Exposure(s)
    BY <2>1 DEF Exposure, Live
  <2>q. QED
    BY <1>2, <2>2 DEF Exposures
<1>4. Exposures[r] = 0
  BY <1>1, <1>2
<1>5. SumFunctionOnSet(Exposures', Runs) + Exposures[r] <= SumFunctionOnSet(Exposures, Runs) + Exposures'[r]
  <2> HIDE DEF r
  <2>q. QED
    BY <1>1, <1>2, <1>3, SumExcept, SpendingAssumption
<1>6. SumFunctionOnSet(Exposures, Runs) \in Nat /\ SumFunctionOnSet(Exposures', Runs) \in Nat
  BY <1>2, SumPick, SpendingAssumption
<1>7. ceiling'[r] = ceiling[r] \/ ceiling'[r] <= Cap - balance
  BY SpendingAssumption, <1>1 DEF Admit, Tighter, SpendInv, Typed, Sized
<1> HIDE DEF r
<1>8. Exposures'[r] = 0 \/ Exposures'[r] <= Cap - balance
  BY <1>1, <1>2, <1>7, SpendingAssumption DEF SpendInv, Typed, Sized
<1>q. QED
  BY <1>1, <1>2, <1>4, <1>5, <1>6, <1>8, SpendingAssumption DEF Sized


\* Who moves a launch.
LEMMA LaunchMoves ==
    ASSUME SpendInv, [Next]_vars
    PROVE  \/ Admit
           \/ \E r \in Runs : ReadMemory(r)
           \/ ReadRows
           \/ launch' = Idle \/ launch'.at \notin {"rows", "admit"}
           \/ UNCHANGED <<launch, seen, balance>>
<1> DEFINE Moves == \/ Admit
                    \/ \E r \in Runs : ReadMemory(r)
                    \/ ReadRows
                    \/ launch' = Idle \/ launch'.at \notin {"rows", "admit"}
                    \/ UNCHANGED <<launch, seen, balance>>
<1>1. ASSUME NEW r \in Runs, ReadMemory(r) PROVE Moves
  BY <1>1
<1>2. ASSUME ReadRows PROVE Moves
  BY <1>2
<1>3. ASSUME Admit PROVE Moves
  BY <1>3
<1>4. ASSUME NEW ok \in BOOLEAN, WriteRow(ok) PROVE Moves
  BY <1>4, IdleIsALaunch DEF SpendInv, Typed, WriteRow, Launching, Writes, NoRow
<1>5. ASSUME Install PROVE Moves
  BY <1>5 DEF SpendInv, Typed, Install, Launching, Unheld
<1>6. ASSUME StartRun PROVE Moves
  BY <1>6, IdleIsALaunch DEF SpendInv, Typed, StartRun, Launching
<1>7. ASSUME NEW r \in Runs, NEW ok \in BOOLEAN, Execute(r, ok) PROVE Moves
  BY <1>7 DEF SpendInv, Typed, Execute, Writes, Persisted
<1>8. ASSUME NEW r \in Runs, StartCall(r) PROVE Moves
  BY <1>8 DEF SpendInv, Typed, StartCall
<1>9. ASSUME NEW r \in Runs, NEW cost \in 0..MaxCall, FinishCall(r, cost) PROVE Moves
  BY <1>9 DEF SpendInv, Typed, FinishCall, Counted, Trips
<1>10. ASSUME NEW r \in Runs, NEW ok \in BOOLEAN, OpenGate(r, ok) PROVE Moves
  BY <1>10 DEF SpendInv, Typed, OpenGate, Writes
<1>11. ASSUME NEW r \in Runs, EndRun(r) PROVE Moves
  BY <1>11 DEF SpendInv, Typed, EndRun
<1>12. ASSUME NEW r \in Runs, NEW ok \in BOOLEAN, PersistStatus(r, ok) PROVE Moves
  BY <1>12 DEF SpendInv, Typed, PersistStatus, Writes, Persisted
<1>13. ASSUME NEW r \in Runs, Reply(r) PROVE Moves
  BY <1>13 DEF SpendInv, Typed, Reply, Live
<1>14. ASSUME NEW r \in Runs, Require(r) PROVE Moves
  BY <1>14 DEF SpendInv, Typed, Require, Restored, HasRow
<1>15. ASSUME NEW r \in Runs, Evict(r) PROVE Moves
  BY <1>15 DEF SpendInv, Typed, Evict, Unheld
<1>16. ASSUME NEW r \in Runs, Purge(r) PROVE Moves
  BY <1>16 DEF SpendInv, Typed, Purge, NoRow, Unheld, Live
<1>17. ASSUME NEW r \in Runs, Recover(r) PROVE Moves
  BY <1>17 DEF SpendInv, Typed, Recover, Restored
<1>18. ASSUME Restart PROVE Moves
  BY <1>18, IdleIsALaunch DEF SpendInv, Typed, Restart, Unheld
<1>19. CASE UNCHANGED vars
  BY <1>19 DEF vars, memory, SpendInv, Typed
<1>q. QED
  BY <1>1, <1>2, <1>3, <1>4, <1>5, <1>6, <1>7, <1>8, <1>9, <1>10, <1>11, <1>12, <1>13, <1>14,
      <1>15, <1>16, <1>17, <1>18, <1>19
     DEF Next

\* The grants never outgrow the cap.
LEMMA BalancedStep ==
    ASSUME SpendInv, Sized, \A s \in Runs : Settled(s), Undisturbed, Balanced, [Next]_vars, Calm',
           SpendInv', Sized'
    PROVE  Balanced'
<1>1. CASE Admit
  <2>1. launch'.at \notin {"rows", "admit"}
    BY <1>1, IdleIsALaunch DEF Admit, Launching, SpendInv, Typed
  <2>q. QED
    BY <1>1, <2>1, AdmitBalances DEF Balanced
<1>2. ASSUME ~Admit PROVE Balanced'
  <2>1. \A s \in Runs : Exposures[s] \in Nat /\ Exposures'[s] \in Nat /\ Exposures'[s] <= Exposures[s]
    BY <1>2, ExposureStep, ExposureType, ExposureTypePrime DEF Exposures
  <2>2. \A S \in SUBSET Runs : /\ SumFunctionOnSet(Exposures', S) <= SumFunctionOnSet(Exposures, S)
                               /\ SumFunctionOnSet(Exposures', S) \in Nat /\ SumFunctionOnSet(Exposures, S) \in Nat
    <3>1. TAKE S \in SUBSET Runs
    <3>2. IsFiniteSet(S) /\ \A s \in S : s \in Runs
      BY FS_Subset, SpendingAssumption
    <3>q. QED
      BY <2>1, <3>2, SumMonotone, SumPick
  <2>3. SumFunctionOnSet(Exposures', Runs) <= Cap
    BY <2>2, SpendingAssumption DEF Balanced
  <2>4. ASSUME NEW r \in Runs, ReadMemory(r) PROVE Balanced'
    <3>1. UNCHANGED <<work, record>> /\ launch'.at = "rows" /\ Held \in SUBSET Runs /\ seen' = Held
      BY <2>4 DEF ReadMemory, Held
    <3>2. SumFunctionOnSet(Exposures', seen') <= balance' 
      BY <2>2, <2>4, <3>1, ReadMemoryBalances DEF Sized
    <3>3. \A s \in Runs \ seen' : ~Live(s)' /\ work'[s] = "idle"
      BY <2>4, <3>1, ReadMemoryBalances DEF Live
    <3>q. QED
      BY <2>3, <3>1, <3>2, <3>3 DEF Balanced
  <2>5. CASE ReadRows
    <3>1. launch'.at = "admit"
      BY <2>5 DEF ReadRows, SpendInv, Typed
    <3>2. SumFunctionOnSet(Exposures', Runs) <= balance'
      BY <2>2, <2>5, ReadRowsBalances DEF Sized
    <3>q. QED
      BY <2>3, <3>1, <3>2 DEF Balanced
  <2>6. CASE launch' = Idle \/ launch'.at \notin {"rows", "admit"}
    BY <2>3, <2>6, IdleIsALaunch DEF Balanced
  <2>7. CASE UNCHANGED <<launch, seen, balance>>
    <3>1. launch.at = "rows" => \A s \in Runs \ seen : ~Live(s)' /\ work'[s] = "idle"
      BY UnseenStay DEF Balanced
    <3>2. seen \in SUBSET Runs /\ balance \in Nat
      BY DEF Sized
    <3>q. QED
      BY <2>2, <2>3, <2>7, <3>1, <3>2 DEF Balanced
  <2>8. \/ \E r \in Runs : ReadMemory(r)
        \/ ReadRows
        \/ launch' = Idle \/ launch'.at \notin {"rows", "admit"}
        \/ UNCHANGED <<launch, seen, balance>>
    BY <1>2, LaunchMoves
  <2>q. QED
    BY <2>4, <2>5, <2>6, <2>7, <2>8
<1>q. QED
  BY <1>1, <1>2

\* Every state of the program is one of GrantInv.
LEMMA GrantInvariant == Spec => []GrantInv
<1>1. Init => GrantInv
  <2> SUFFICES ASSUME Init PROVE GrantInv
    OBVIOUS
  <2>1. Sized
    BY SpendingAssumption DEF Init, Sized, Unheld
  <2>2. \A r \in Runs : Settled(r)
    BY DEF Init, Settled, Unheld, NoRow
  <2>3. \A r \in Runs : Exposures[r] = 0
    BY DEF Init, Exposures, Exposure, Live, Unheld
  <2>4. SumFunctionOnSet(Exposures, Runs) <= Cap
    <3> DEFINE none == [r \in Runs |-> 0]
    <3>1. SumFunctionOnSet(Exposures, Runs) = 0
      BY <2>3, SumOfNothing, SpendingAssumption
    <3>q. QED
      BY <3>1, SpendingAssumption
  <2>5. Balanced
    BY <2>4, IdleIsALaunch DEF Init, Balanced
  <2>q. QED
    BY <2>1, <2>2, <2>5 DEF GrantInv
<1>2. GrantInv /\ SpendInv /\ SpendInv' /\ [Next]_vars => GrantInv'
  <2> SUFFICES ASSUME GrantInv, SpendInv, SpendInv', [Next]_vars PROVE GrantInv'
    OBVIOUS
  <2>1. Sized /\ Sized'
    BY SizedStep DEF GrantInv
  <2>2. Calm' => (\A r \in Runs : Settled(r)) /\ (\A r \in Runs : Settled(r))'
    BY <2>1, CalmStays, SettledStep DEF GrantInv
  <2>3. Undisturbed' => Calm' /\ Undisturbed
    BY <2>1, DisturbedStays DEF GrantInv, Undisturbed, Calm
  <2>4. Undisturbed' => Balanced'
    BY <2>1, <2>2, <2>3, BalancedStep DEF GrantInv
  <2>q. QED
    BY <2>1, <2>2, <2>4 DEF GrantInv
<1>q. QED
  BY <1>1, <1>2, SpendInvariant, PTL DEF Spec

\* Every variable of the spending model stays in its domain: no promise and no
\* ceiling above the cap, no more calls in flight than a run has branches, and no
\* record with the status of a purged row.
THEOREM SpendingIsTyped == Spec => []SpendTypeOK
<1>1. SpendInv /\ BillInv /\ GrantInv => SpendTypeOK
  <2> SUFFICES ASSUME SpendInv, BillInv, GrantInv PROVE SpendTypeOK
    OBVIOUS
  <2>1. promised \in [Runs -> 0..Cap] /\ ceiling \in [Runs -> 0..Cap] /\ inflight \in [Runs -> 0..Branches]
    BY SpendingAssumption DEF SpendInv, Typed, GrantInv, Sized
  <2>2. \A r \in Runs :
          /\ record[r].status \in {"none", "queued", "running", "waiting", "ended"}
          /\ row[r].status \in {"none", "queued", "running", "waiting", "ended", "purged"}
          /\ record[r].spent \in Nat /\ row[r].spent \in Nat /\ paid[r] \in Nat
          /\ lost[r] \in Nat
    BY DEF SpendInv, Typed, BillInv, GrantInv, Sized, Records, Rows, Statuses
  <2>q. QED
    BY <2>1, <2>2 DEF SpendTypeOK, SpendInv, Typed, BillInv, GrantInv, Sized
<1>q. QED
  BY <1>1, SpendInvariant, BillInvariant, GrantInvariant, PTL

\* The account's live ceilings and what its ended runs cost stay within the cap,
\* for every number of runs, every cap and ceiling, and every interleaving of the
\* two-step balance with the runs' own progress.
THEOREM GrantsAlwaysFit == Spec => []GrantsFitTheCap
<1>1. GrantInv => GrantsFitTheCap
  BY DEF GrantInv, Balanced, GrantsFitTheCap, Exposures
<1>q. QED
  BY <1>1, GrantInvariant, PTL

====
