--------------------------- MODULE SupervisorProofs ---------------------------
(***************************************************************************)
(* Proofs about Supervisor, for every timeout, every bound and whatever    *)
(* the engine, the reconciler and the operator do: its type invariant, and *)
(* the three safety invariants of its loop.                                *)
(***************************************************************************)
EXTENDS Supervisor, TLAPS

\* A block that has not timed out has not fired, and one that is about to be
\* saved as timed out has not either.
TimeoutUnspent ==
    /\ escalation.blocked /\ ~escalation.escalated => fires = 0
    /\ pc = "save" => fires = 0 /\ copy.escalated

\* Every unmarked run of the completion actions was cut off by a crash, but for the
\* one that is about to write the marker.
FinishesCounted == ~marker /\ pc # "marker" => finishes <= crashes

SupervisorInv ==
    /\ TypeOK /\ StoppedMeansStopped
    /\ TimeoutUnspent /\ TimeoutFiresOnce
    /\ FinishesCounted /\ CompletionRunsOnce

\* The initial state satisfies the invariant.
LEMMA SupervisorInit == Init => SupervisorInv
<1> SUFFICES ASSUME Init PROVE SupervisorInv
  OBVIOUS
<1>1. NotBlocked \in Escalations
  BY SupervisorAssumption DEF NotBlocked, Escalations
<1>2. TypeOK
  <2>1. /\ 0 \in 0 .. MaxTime /\ 0 \in 0 .. MaxIncidents
        /\ 0 \in 0 .. MaxCrashes /\ 0 \in 0 .. MaxStopFailures
    BY SupervisorAssumption
  <2> QED BY <1>1, <2>1 DEF Init, TypeOK, Labels
<1>3. StoppedMeansStopped /\ TimeoutUnspent
  BY DEF Init, StoppedMeansStopped, TimeoutUnspent, NotBlocked
<1>4. TimeoutFiresOnce /\ FinishesCounted /\ CompletionRunsOnce
  BY DEF Init, TimeoutFiresOnce, FinishesCounted, CompletionRunsOnce
<1> QED BY <1>2, <1>3, <1>4 DEF SupervisorInv

\* Every step keeps the types.
LEMMA TypeStep == TypeOK /\ [Next]_vars => TypeOK'
<1> SUFFICES ASSUME TypeOK, [Next]_vars PROVE TypeOK'
  OBVIOUS
<1> USE DEF TypeOK, Labels, process, files, history, Ends, Down
<1>1. CASE Startup \/ Started
  <2>1. CASE Startup
    BY <2>1, SupervisorAssumption DEF Startup
  <2>2. CASE Started
    <3>1. worker' \in {"running", "stopped"}
      BY <2>2 DEF Started, MayRestart
    <3>2. orphan' \in BOOLEAN
      BY <2>2 DEF Started
    <3> QED BY <2>2, <3>1, <3>2 DEF Started
  <2> QED BY <1>1, <2>1, <2>2
<1>2. CASE Tick \/ TimeoutDue \/ SaveEscalated
  <2>1. CASE Tick
    BY <2>1 DEF Tick
  <2>2. CASE TimeoutDue
    <3>1. copy' \in Escalations
      BY <2>2 DEF TimeoutDue, Escalations
    <3> QED BY <2>2, <3>1 DEF TimeoutDue
  <2>3. CASE SaveEscalated
    BY <2>3 DEF SaveEscalated
  <2> QED BY <1>2, <2>1, <2>2, <2>3
<1>3. CASE NoTimeout \/ StayBlocked \/ NoStop \/ InvariantsPass \/ InvariantBlocks
  BY <1>3 DEF NoTimeout, StayBlocked, NoStop, InvariantsPass, InvariantBlocks
<1>4. CASE InvariantIncident
  BY <1>4, SupervisorAssumption DEF InvariantIncident
<1>5. ASSUME NEW ok \in BOOLEAN,
             TimedOut(ok) \/ StopOnFlag(ok) \/ InvariantHalts(ok) \/ RunCompletion(ok)
      PROVE  TypeOK'
  <2>1. ASSUME StopRuntime(ok)
        PROVE  worker' \in {"running", "stopped"} /\ failures' \in 0 .. MaxStopFailures
    BY <2>1, SupervisorAssumption DEF StopRuntime
  <2>2. CASE TimedOut(ok)
    BY <2>1, <2>2 DEF TimedOut
  <2>3. CASE StopOnFlag(ok)
    BY <2>1, <2>3 DEF StopOnFlag
  <2>4. CASE InvariantHalts(ok)
    BY <2>1, <2>4 DEF InvariantHalts
  <2>5. CASE RunCompletion(ok)
    BY <2>1, <2>5 DEF RunCompletion
  <2> QED BY <1>5, <2>2, <2>3, <2>4, <2>5
<1>6. CASE Evaluate \/ Reconcile
  BY <1>6 DEF Evaluate, Reconcile, MayRestart
<1>7. CASE MarkBlocked
  <2>1. BlockedNow \in Escalations
    BY DEF BlockedNow, Escalations
  <2> QED BY <1>7, <2>1 DEF MarkBlocked
<1>8. CASE WriteMarker \/ AlreadyCompleted \/ NotComplete \/ Leave
  <2>1. CASE WriteMarker
    BY <2>1 DEF WriteMarker
  <2>2. CASE AlreadyCompleted
    BY <2>2 DEF AlreadyCompleted
  <2>3. CASE NotComplete
    BY <2>3 DEF NotComplete
  <2>4. CASE Leave
    BY <2>4 DEF Leave
  <2> QED BY <1>8, <2>1, <2>2, <2>3, <2>4
<1>9. CASE Crash
  <2>1. crashes' \in 0 .. MaxCrashes
    BY <1>9, SupervisorAssumption DEF Crash
  <2>2. orphan' \in BOOLEAN
    BY <1>9 DEF Crash
  <2>3. UNCHANGED <<observe, copy, at, valid, escalation, stopFlag, marker, opened,
                    worker, done, now, failures, fires, finishes>>
    BY <1>9 DEF Crash
  <2>4. pc' = "down" /\ result' = "none" /\ asked' = "no"
    BY <1>9 DEF Crash
  <2> QED BY <2>1, <2>2, <2>3, <2>4
<1>10. CASE RequestStop \/ OperatorClears
  <2>1. NotBlocked \in Escalations
    BY SupervisorAssumption DEF NotBlocked, Escalations
  <2>2. CASE RequestStop
    <3>1. asked' \in {"no", "starting", "started"}
      BY <2>2 DEF RequestStop
    <3> QED BY <2>2, <3>1 DEF RequestStop
  <2>3. CASE OperatorClears
    BY <2>1, <2>3 DEF OperatorClears
  <2> QED BY <1>10, <2>2, <2>3
<1>11. CASE WorkerFinishes \/ ClockTicks
  <2>1. CASE WorkerFinishes
    BY <2>1 DEF WorkerFinishes
  <2>2. CASE ClockTicks
    <3>1. now' \in 0 .. MaxTime
      BY <2>2, SupervisorAssumption DEF ClockTicks
    <3> QED BY <2>2, <3>1 DEF ClockTicks
  <2> QED BY <1>11, <2>1, <2>2
<1>12. CASE UNCHANGED vars
  BY <1>12 DEF vars
<1> QED
  BY <1>1, <1>2, <1>3, <1>4, <1>5, <1>6, <1>7, <1>8, <1>9, <1>10, <1>11, <1>12
  DEF Next, Step

\* A run that ends STOPPED stopped the workers, and nobody but a supervisor starts
\* them.
LEMMA StoppedStep ==
    TypeOK /\ StoppedMeansStopped /\ [Next]_vars => StoppedMeansStopped'
<1> SUFFICES ASSUME TypeOK, StoppedMeansStopped, [Next]_vars PROVE StoppedMeansStopped'
  OBVIOUS
<1> USE DEF StoppedMeansStopped, process, files, history, Ends, Down
<1>1. CASE Startup \/ Started \/ Tick \/ TimeoutDue \/ SaveEscalated \/ NoTimeout
  BY <1>1 DEF Startup, Started, Tick, TimeoutDue, SaveEscalated, NoTimeout
<1>2. CASE StayBlocked \/ NoStop \/ InvariantsPass \/ InvariantBlocks \/ InvariantIncident
  BY <1>2 DEF StayBlocked, NoStop, InvariantsPass, InvariantBlocks, InvariantIncident
<1>3. ASSUME NEW ok \in BOOLEAN,
             TimedOut(ok) \/ StopOnFlag(ok) \/ InvariantHalts(ok) \/ RunCompletion(ok)
      PROVE  StoppedMeansStopped'
  BY <1>3 DEF TimedOut, StopOnFlag, InvariantHalts, RunCompletion, StopRuntime, Verified,
              TypeOK
<1>4. CASE Evaluate \/ Reconcile \/ MarkBlocked
  BY <1>4 DEF Evaluate, Reconcile, MarkBlocked
<1>5. CASE WriteMarker \/ AlreadyCompleted \/ NotComplete \/ Leave \/ Crash
  BY <1>5 DEF WriteMarker, AlreadyCompleted, NotComplete, Leave, Crash
<1>6. CASE RequestStop \/ OperatorClears \/ WorkerFinishes \/ ClockTicks
  BY <1>6 DEF RequestStop, OperatorClears, WorkerFinishes, ClockTicks
<1>7. CASE UNCHANGED vars
  BY <1>7 DEF vars
<1> QED BY <1>1, <1>2, <1>3, <1>4, <1>5, <1>6, <1>7 DEF Next, Step

\* Only SaveEscalated spends the timeout of a block, and only mark_blocked renews it.
LEMMA TimeoutStep ==
    TypeOK /\ TimeoutUnspent /\ TimeoutFiresOnce /\ [Next]_vars
        => TimeoutUnspent' /\ TimeoutFiresOnce'
<1> SUFFICES ASSUME TypeOK, TimeoutUnspent, TimeoutFiresOnce, [Next]_vars
             PROVE  TimeoutUnspent' /\ TimeoutFiresOnce'
  OBVIOUS
<1> USE DEF TimeoutUnspent, TimeoutFiresOnce, process, files, history, Ends, Down
<1>1. CASE TimeoutDue
  BY <1>1 DEF TimeoutDue, Due, TypeOK, Escalations
<1>2. CASE SaveEscalated
  BY <1>2 DEF SaveEscalated
<1>3. CASE MarkBlocked
  BY <1>3 DEF MarkBlocked
<1>4. CASE OperatorClears
  BY <1>4 DEF OperatorClears, NotBlocked
<1>5. CASE Startup \/ Started \/ Tick \/ NoTimeout \/ StayBlocked
  BY <1>5 DEF Startup, Started, Tick, NoTimeout, StayBlocked
<1>6. CASE NoStop \/ InvariantsPass \/ InvariantBlocks \/ InvariantIncident
  BY <1>6 DEF NoStop, InvariantsPass, InvariantBlocks, InvariantIncident
<1>7. ASSUME NEW ok \in BOOLEAN,
             TimedOut(ok) \/ StopOnFlag(ok) \/ InvariantHalts(ok) \/ RunCompletion(ok)
      PROVE  TimeoutUnspent' /\ TimeoutFiresOnce'
  BY <1>7 DEF TimedOut, StopOnFlag, InvariantHalts, RunCompletion
<1>8. CASE Evaluate \/ Reconcile
  BY <1>8 DEF Evaluate, Reconcile
<1>9. CASE WriteMarker \/ AlreadyCompleted \/ NotComplete \/ Leave \/ Crash
  BY <1>9 DEF WriteMarker, AlreadyCompleted, NotComplete, Leave, Crash
<1>10. CASE RequestStop \/ WorkerFinishes \/ ClockTicks
  BY <1>10 DEF RequestStop, WorkerFinishes, ClockTicks
<1>11. CASE UNCHANGED vars
  BY <1>11 DEF vars
<1> QED
  BY <1>1, <1>2, <1>3, <1>4, <1>5, <1>6, <1>7, <1>8, <1>9, <1>10, <1>11 DEF Next, Step

\* The completion actions run again only when a crash kept the marker from being
\* written.
LEMMA CompletionStep ==
    TypeOK /\ FinishesCounted /\ CompletionRunsOnce /\ [Next]_vars
        => FinishesCounted' /\ CompletionRunsOnce'
<1> SUFFICES ASSUME TypeOK, FinishesCounted, CompletionRunsOnce, [Next]_vars
             PROVE  FinishesCounted' /\ CompletionRunsOnce'
  OBVIOUS
<1> USE SupervisorAssumption
        DEF TypeOK, FinishesCounted, CompletionRunsOnce, process, files, history, Ends, Down
<1>1. ASSUME NEW ok \in BOOLEAN, RunCompletion(ok)
      PROVE  FinishesCounted' /\ CompletionRunsOnce'
  BY <1>1 DEF RunCompletion, NotYetFinished
<1>2. CASE WriteMarker
  BY <1>2 DEF WriteMarker
<1>3. CASE Crash
  BY <1>3 DEF Crash
<1>4. CASE Startup \/ Started \/ Tick \/ NoTimeout \/ StayBlocked
  BY <1>4 DEF Startup, Started, Tick, NoTimeout, StayBlocked
<1>5. CASE TimeoutDue \/ SaveEscalated \/ MarkBlocked \/ OperatorClears
  BY <1>5 DEF TimeoutDue, SaveEscalated, MarkBlocked, OperatorClears
<1>6. CASE NoStop \/ InvariantsPass \/ InvariantBlocks \/ InvariantIncident
  BY <1>6 DEF NoStop, InvariantsPass, InvariantBlocks, InvariantIncident
<1>7. ASSUME NEW ok \in BOOLEAN, TimedOut(ok) \/ StopOnFlag(ok) \/ InvariantHalts(ok)
      PROVE  FinishesCounted' /\ CompletionRunsOnce'
  BY <1>7 DEF TimedOut, StopOnFlag, InvariantHalts
<1>8. CASE Evaluate \/ Reconcile
  BY <1>8 DEF Evaluate, Reconcile
<1>9. CASE AlreadyCompleted \/ NotComplete \/ Leave
  BY <1>9 DEF AlreadyCompleted, NotComplete, Leave
<1>10. CASE RequestStop \/ WorkerFinishes \/ ClockTicks
  BY <1>10 DEF RequestStop, WorkerFinishes, ClockTicks
<1>11. CASE UNCHANGED vars
  BY <1>11 DEF vars
<1> QED
  BY <1>1, <1>2, <1>3, <1>4, <1>5, <1>6, <1>7, <1>8, <1>9, <1>10, <1>11 DEF Next, Step

\* The invariant holds in every reachable state.
LEMMA SupervisorAlways == Spec => []SupervisorInv
<1>1. SupervisorInv /\ [Next]_vars => SupervisorInv'
  BY TypeStep, StoppedStep, TimeoutStep, CompletionStep DEF SupervisorInv
<1> QED BY <1>1, SupervisorInit, PTL DEF Spec

\* Type correctness of the supervisor's loop.
THEOREM SupervisorTypeCorrect == Spec => []TypeOK
<1>1. SupervisorInv => TypeOK
  BY DEF SupervisorInv
<1> QED BY <1>1, SupervisorAlways, PTL

\* tick returns STOPPED only with the workers verifiably stopped, and nothing
\* starts them before the next run.
THEOREM StoppedMeansStoppedHolds == Spec => []StoppedMeansStopped
<1>1. SupervisorInv => StoppedMeansStopped
  BY DEF SupervisorInv
<1> QED BY <1>1, SupervisorAlways, PTL

\* check_timeout fires at most once per block, operator, crashes and restarts
\* between its load and its save included.
THEOREM TimeoutFiresOnceHolds == Spec => []TimeoutFiresOnce
<1>1. SupervisorInv => TimeoutFiresOnce
  BY DEF SupervisorInv
<1> QED BY <1>1, SupervisorAlways, PTL

\* execute_completion_actions runs once, and once more per crash before its marker.
THEOREM CompletionRunsOnceHolds == Spec => []CompletionRunsOnce
<1>1. SupervisorInv => CompletionRunsOnce
  BY DEF SupervisorInv
<1> QED BY <1>1, SupervisorAlways, PTL

\* check_timeout and execute_completion_actions, which remember in a file that they
\* ran, run once for every supervisor that comes back to them.
THEOREM EndingsRunOnceHolds == Spec => []EndingsRunOnce
<1>1. SupervisorInv => EndingsRunOnce
  BY DEF SupervisorInv, EndingsRunOnce
<1> QED BY <1>1, SupervisorAlways, PTL
===============================================================================
