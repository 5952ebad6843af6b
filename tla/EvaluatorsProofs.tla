--------------------------- MODULE EvaluatorsProofs ---------------------------
(***************************************************************************)
(* Theorems about Evaluators, for any watermarks, limits and tolerance and *)
(* any split of the signals between the two calls.                         *)
(***************************************************************************)
EXTENDS Evaluators, TLAPS

ClockTaken == pc \in {"inspect", "signals", "evaluate"}

\* w is not overdue, and neither is what was read of it.
ReadInTime(w) == stamp[w] # Never /\ 0 - stamp[w] <= StallAfter[w]

\* A watermark that was not overdue when the tick took its clock is no older now than
\* its limit and the length of the tick allow, and what was read of it says so.
ReadFaithfully ==
    /\ ClockTaken => \A w \in Watermarks \ overdue :
          age[w] # Never /\ age[w] - lag <= StallAfter[w]
    /\ pc = "signals" => \A w \in Watermarks \ overdue : w \notin InContext => ReadInTime(w)
    /\ pc = "evaluate" => \A w \in Watermarks \ overdue : ReadInTime(w)

StallInv == TypeOK /\ ReadFaithfully /\ NoFalseStall

\* Only the last step of a run completes it.
EarnedInv == CompletionIsEarned /\ (outcome = "completed" => pc = "ended")

-------------------------------------------------------------------------------
\* Operators.

\* An age stays an age.
LEMMA OlderType ==
    ASSUME NEW a \in 0 .. MaxAge \cup {Never}
    PROVE  /\ Older(a) \in 0 .. MaxAge \cup {Never}
           /\ a # Never => Older(a) # Never /\ Older(a) <= a + 1
  BY EvaluatorsAssumption DEF Older

\* A stamp is a time of the tick, or no time.
LEMMA StampType ==
    ASSUME TypeOK, NEW w \in Watermarks
    PROVE  /\ Stamp(w) \in Times \cup {Never}
           /\ age[w] # Never /\ age[w] - lag <= StallAfter[w] =>
                 Stamp(w) # Never /\ 0 - Stamp(w) <= StallAfter[w]
  <1>1. /\ age[w] \in 0 .. MaxAge \cup {Never} /\ lag \in 0 .. MaxLag
        /\ StallAfter[w] \in Nat
    BY EvaluatorsAssumption DEF TypeOK
  <1>2. CASE stamping = "clock"
    BY <1>1, <1>2, EvaluatorsAssumption DEF Stamp, Times
  <1>3. CASE stamping # "clock" /\ age[w] = Never
    BY <1>3 DEF Stamp
  <1>4. CASE stamping # "clock" /\ age[w] # Never
    <2>1. Stamp(w) = lag - age[w]
      BY <1>4 DEF Stamp
    <2>2. QED
      BY <1>1, <1>4, <2>1, EvaluatorsAssumption DEF Times
  <1>5. QED
    BY <1>2, <1>3, <1>4

\* The watchdog names one of its symptoms, and the stall only if some watermark (all of
\* them, if all are required) is stalled with a stamp that is not suspect.
LEMMA SymptomMeans ==
    ASSUME NEW x \in WatchdogResults
    PROVE  /\ x \in Symptoms
           /\ x = "progress_stalled" =>
                 /\ ProgressStalled
                 /\ \A w \in Watermarks : ~IsSuspect(w)
  <1>1. PICK healthy \in BOOLEAN, draining \in BOOLEAN, since \in {observedAt, 0 - MaxAge} :
           x = Symptom(healthy, draining, since)
    BY DEF WatchdogResults
  <1>2. CASE slowSeen
    BY <1>1, <1>2 DEF Symptom, Symptoms
  <1>3. CASE ~slowSeen /\ ~healthy
    BY <1>1, <1>3 DEF Symptom, Symptoms
  <1>4. CASE ~slowSeen /\ healthy /\ draining /\ DrainHeld(since)
    BY <1>1, <1>4 DEF Symptom, Symptoms
  <1>5. CASE ~slowSeen /\ healthy /\ ~(draining /\ DrainHeld(since)) /\ ProgressStalled
    BY <1>1, <1>5 DEF Symptom, Symptoms
  <1>6. CASE ~slowSeen /\ healthy /\ ~(draining /\ DrainHeld(since)) /\ ~ProgressStalled
    BY <1>1, <1>6 DEF Symptom, Symptoms
  <1>7. QED
    BY <1>2, <1>3, <1>4, <1>5, <1>6

\* What the validity evaluator returns is a result of its type, whatever it found.
LEMMA ValidityType ==
    ASSUME NEW v \in ValidityResults
    PROVE  v \in [plan : Plans, passed : BOOLEAN, blocks : BOOLEAN, opens : BOOLEAN]
  <1>1. PICK fresh \in BOOLEAN, passes \in BOOLEAN, scheduled \in BOOLEAN, plan \in Plans,
             units \in {0, Expected} :
           v = ValidityResult(plan, FailedChecks(fresh, passes, scheduled, plan, units))
    BY DEF ValidityResults
  <1> DEFINE failed == FailedChecks(fresh, passes, scheduled, plan, units)
  <1>2. /\ (failed = {}) \in BOOLEAN /\ Blocking(failed) \in BOOLEAN
        /\ OpensIncident(failed) \in BOOLEAN
    BY DEF Blocking, OpensIncident
  <1>3. QED
    BY <1>1, <1>2 DEF ValidityResult

-------------------------------------------------------------------------------
\* Type correctness.

\* So is the result a tick starts with.
LEMMA NothingJudgedType ==
    NothingJudged \in [plan : Plans, passed : BOOLEAN, blocks : BOOLEAN, opens : BOOLEAN]
  BY DEF NothingJudged, Plans

\* The evaluators start typed.
LEMMA InitType == Init => TypeOK
  <1> SUFFICES ASSUME Init PROVE TypeOK
    OBVIOUS
  <1>1. /\ 0 \in 0 .. MaxAge /\ 0 \in 0 .. MaxLag
        /\ 0 - MaxLag \in (0 - MaxLag) .. MaxSlow
    BY EvaluatorsAssumption
  <1>2. age \in [Watermarks -> 0 .. MaxAge \cup {Never}]
    BY <1>1 DEF Init
  <1>3. stamp \in [Watermarks -> Times \cup {Never}]
    BY DEF Init, NothingRead
  <1>4. judged \in [plan : Plans, passed : BOOLEAN, blocks : BOOLEAN, opens : BOOLEAN]
    BY NothingJudgedType DEF Init
  <1>5. QED
    BY <1>1, <1>2, <1>3, <1>4 DEF Init, TypeOK, Symptoms

\* Every step of a tick, of the worker and of the clock keeps the types.
LEMMA TypeNext == TypeOK /\ [Next]_vars => TypeOK'
  <1> SUFFICES ASSUME TypeOK, [Next]_vars PROVE TypeOK'
    OBVIOUS
  <1> USE DEF worker, read
  <1>0. 0 \in 0 .. MaxAge /\ 0 \in 0 .. MaxLag
    BY EvaluatorsAssumption
  <1>1. CASE Elapse
    <2>1. age' \in [Watermarks -> 0 .. MaxAge \cup {Never}]
      BY <1>1, OlderType DEF Elapse, TypeOK
    <2>2. lag' \in 0 .. MaxLag /\ slow' \in (0 - MaxLag) .. MaxSlow
      BY <1>1, EvaluatorsAssumption DEF Elapse, TypeOK
    <2>3. QED
      BY <1>1, <2>1, <2>2 DEF Elapse, TypeOK
  <1>2. CASE \E w \in Watermarks : Advance(w)
    BY <1>0, <1>2 DEF Advance, TypeOK
  <1>3. CASE \E w \in Watermarks : Stops(w)
    BY <1>3 DEF Stops, TypeOK
  <1>4. CASE Recovers
    BY <1>4 DEF Recovers, TypeOK
  <1>5. CASE SlowOperation
    <2>1. slow' \in (0 - MaxLag) .. MaxSlow
      BY <1>5, EvaluatorsAssumption DEF SlowOperation
    <2>2. QED
      BY <1>5, <2>1 DEF SlowOperation, TypeOK
  <1>6. CASE Begin
    BY <1>0, <1>6 DEF Begin, TypeOK
  <1>7. CASE Inspect
    <2>1. stamp' \in [Watermarks -> Times \cup {Never}]
      BY <1>7, StampType DEF Inspect
    <2>2. QED
      BY <1>7, <2>1 DEF Inspect, TypeOK
  <1>8. CASE ReadSignals
    <2>1. stamp' \in [Watermarks -> Times \cup {Never}]
      BY <1>8, StampType DEF ReadSignals, TypeOK
    <2>2. (lag + slow > 0) \in BOOLEAN
      OBVIOUS
    <2>3. slowSeen' \in BOOLEAN
      BY <1>8, <2>2 DEF ReadSignals
    <2>4. QED
      BY <1>8, <2>1, <2>3 DEF ReadSignals, TypeOK
  <1>9. CASE Evaluate
    <2>1. PICK watchdog \in WatchdogResults, validity \in ValidityResults :
             /\ judged' = validity
             /\ \/ symptom' = "validity_blocked" /\ EndTick("blocked")
                \/ /\ symptom' = IF watchdog = "none" /\ validity.opens
                                THEN "validity_failed" ELSE watchdog
                   /\ \/ EndTick("blocked")
                      \/ pc' = "complete" /\ UNCHANGED <<lag, overdue, outcome>>
      BY <1>9 DEF Evaluate
    <2>2. judged' \in [plan : Plans, passed : BOOLEAN, blocks : BOOLEAN, opens : BOOLEAN]
      BY <2>1, ValidityType
    <2>3. symptom' \in Symptoms
      BY <2>1, SymptomMeans DEF Symptoms
    <2>4. observedAt' \in 0 .. MaxLag /\ slowSeen' \in BOOLEAN
      BY <1>0, <1>9 DEF Evaluate, Forget
    <2>5. stamp' \in [Watermarks -> Times \cup {Never}]
      BY <1>9 DEF Evaluate, Forget, NothingRead
    <2>6. UNCHANGED worker
      BY <1>9 DEF Evaluate
    <2>7. /\ pc' \in {"ended", "complete"} /\ outcome' \in {"running", "blocked", "completed"}
          /\ lag' \in 0 .. MaxLag /\ overdue' \subseteq Watermarks
      BY <1>0, <2>1 DEF EndTick, TypeOK
    <2>8. QED
      BY <2>2, <2>3, <2>4, <2>5, <2>6, <2>7 DEF TypeOK
  <1>10. CASE Complete
    <2>1. judged' \in [plan : Plans, passed : BOOLEAN, blocks : BOOLEAN, opens : BOOLEAN]
      <3>1. judged' \in {judged, NothingJudged}
        BY <1>10 DEF Complete
      <3>2. QED
        BY <3>1, NothingJudgedType DEF TypeOK
    <2>2. /\ pc' \in {"idle", "ended"} /\ outcome' \in {"running", "completed"}
          /\ lag' = 0 /\ overdue' = {}
      BY <1>10 DEF Complete, EndTick
    <2>3. symptom' \in Symptoms /\ UNCHANGED <<worker, read>>
      BY <1>10 DEF Complete, Symptoms
    <2>4. QED
      BY <1>0, <2>1, <2>2, <2>3 DEF TypeOK
  <1>11. CASE RunAgain
    BY <1>11, NothingJudgedType DEF RunAgain, TypeOK, Symptoms
  <1>12. CASE UNCHANGED vars
    BY <1>12 DEF vars, TypeOK
  <1>13. QED
    BY <1>1, <1>2, <1>3, <1>4, <1>5, <1>6, <1>7, <1>8, <1>9, <1>10, <1>11, <1>12
    DEF Next, Worker, Tick

\* Every variable of the tick stays in its type; in particular times in a tick never
\* reach further back than the ages that are told apart.
THEOREM EvaluatorsTypeCorrect == Spec => []TypeOK
  <1>1. QED
    BY InitType, TypeNext, PTL DEF Spec

-------------------------------------------------------------------------------
\* Stalls.

\* What is said of a worker in time is said of it an instant or an advance later.
LEMMA WorkerStep ==
    ASSUME TypeOK, ReadFaithfully, NoFalseStall,
           age' \in [Watermarks -> 0 .. MaxAge \cup {Never}], lag' \in Nat,
           \A w \in Watermarks : age[w] # Never =>
                age'[w] # Never /\ (age'[w] - lag' <= age[w] - lag \/ age'[w] = 0),
           UNCHANGED <<pc, read, symptom, overdue>>
    PROVE  ReadFaithfully' /\ NoFalseStall'
  <1>1. ClockTaken => \A w \in Watermarks \ overdue :
           age'[w] # Never /\ age'[w] - lag' <= StallAfter[w]
    <2> SUFFICES ASSUME ClockTaken, NEW w \in Watermarks \ overdue
                 PROVE  age'[w] # Never /\ age'[w] - lag' <= StallAfter[w]
      OBVIOUS
    <2>1. age[w] # Never /\ age[w] - lag <= StallAfter[w]
      BY DEF ReadFaithfully
    <2>2. age'[w] # Never /\ (age'[w] - lag' <= age[w] - lag \/ age'[w] = 0)
      BY <2>1
    <2>3. /\ age[w] \in 0 .. MaxAge /\ age'[w] \in 0 .. MaxAge /\ lag \in Nat
          /\ StallAfter[w] \in Nat
      BY <2>1, <2>2, EvaluatorsAssumption DEF TypeOK
    <2>4. QED
      BY <2>1, <2>2, <2>3, EvaluatorsAssumption
  <1>2. QED
    BY <1>1 DEF ReadFaithfully, ClockTaken, ReadInTime, NoFalseStall, read

\* At first nothing was read and nobody was called stalled.
LEMMA InitStall == Init => ReadFaithfully /\ NoFalseStall
  BY DEF Init, ReadFaithfully, ClockTaken, NoFalseStall

\* Every step keeps both: a reading follows its watermark, and a stall is one the
\* watermarks of the tick account for.
LEMMA StallNext ==
    TypeOK /\ TypeOK' /\ ReadFaithfully /\ NoFalseStall /\ [Next]_vars
        => ReadFaithfully' /\ NoFalseStall'
  <1> SUFFICES ASSUME TypeOK, TypeOK', ReadFaithfully, NoFalseStall, [Next]_vars
               PROVE  ReadFaithfully' /\ NoFalseStall'
    OBVIOUS
  <1>0. /\ age' \in [Watermarks -> 0 .. MaxAge \cup {Never}] /\ lag' \in Nat /\ lag \in Nat
        /\ age \in [Watermarks -> 0 .. MaxAge \cup {Never}]
    BY EvaluatorsAssumption DEF TypeOK
  <1>1. CASE Elapse
    <2>1. CASE pc = "idle"
      BY <1>1, <2>1 DEF Elapse, ReadFaithfully, ClockTaken, NoFalseStall
    <2>2. CASE pc # "idle"
      <3>1. ASSUME NEW w \in Watermarks, age[w] # Never
            PROVE  age'[w] # Never /\ age'[w] - lag' <= age[w] - lag
        <4>1. age'[w] = Older(age[w]) /\ lag' = lag + 1
          BY <1>1, <2>2 DEF Elapse
        <4>2. age[w] \in 0 .. MaxAge /\ age'[w] \in 0 .. MaxAge
          BY <1>0, <3>1, <4>1, OlderType
        <4>3. age'[w] # Never /\ age'[w] <= age[w] + 1
          BY <1>0, <3>1, <4>1, OlderType
        <4>4. QED
          BY <1>0, <4>1, <4>2, <4>3, EvaluatorsAssumption
      <3>2. QED
        BY <1>0, <1>1, <3>1, WorkerStep DEF Elapse, read
    <2>3. QED
      BY <2>1, <2>2
  <1>2. CASE \E w \in Watermarks : Advance(w)
    <2>1. PICK w \in Watermarks : Advance(w)
      BY <1>2
    <2>2. \A v \in Watermarks : age'[v] = IF v = w THEN 0 ELSE age[v]
      BY <1>0, <2>1 DEF Advance
    <2>3. ASSUME NEW v \in Watermarks, age[v] # Never
          PROVE  age'[v] # Never /\ (age'[v] - lag' <= age[v] - lag \/ age'[v] = 0)
      <3>1. age[v] \in Int /\ lag' = lag
        BY <1>0, <2>1, <2>3, EvaluatorsAssumption DEF Advance
      <3>2. 0 # Never
        BY EvaluatorsAssumption
      <3>3. QED
        BY <1>0, <2>2, <2>3, <3>1, <3>2
    <2>4. QED
      BY <1>0, <2>1, <2>3, WorkerStep DEF Advance, read
  <1>3. CASE \/ \E w \in Watermarks : Stops(w)
             \/ Recovers \/ SlowOperation \/ UNCHANGED vars
    <2>1. UNCHANGED <<age, pc, lag, stamp, symptom, overdue>>
      BY <1>3 DEF Stops, Recovers, SlowOperation, vars, worker, read
    <2>2. QED
      BY <2>1 DEF ReadFaithfully, ClockTaken, ReadInTime, NoFalseStall
  <1>4. CASE Begin
    <2>1. ASSUME NEW w \in Watermarks \ overdue'
          PROVE  age[w] # Never /\ age[w] - 0 <= StallAfter[w]
      <3>1. age[w] # Never /\ ~(age[w] > StallAfter[w])
        BY <1>4 DEF Begin
      <3>2. age[w] \in Int /\ StallAfter[w] \in Int
        BY <1>0, <3>1, EvaluatorsAssumption
      <3>3. QED
        BY <3>1, <3>2
    <2>2. pc' = "inspect" /\ lag' = 0 /\ age' = age
      BY <1>4 DEF Begin, worker
    <2>3. QED
      BY <2>1, <2>2 DEF ReadFaithfully, NoFalseStall
  <1>5. CASE Inspect
    <2>1. ASSUME NEW w \in Watermarks \ overdue, w \notin InContext
          PROVE  stamp'[w] # Never /\ 0 - stamp'[w] <= StallAfter[w]
      <3>1. stamp'[w] = Stamp(w)
        BY <1>5, <2>1 DEF Inspect
      <3>2. age[w] # Never /\ age[w] - lag <= StallAfter[w]
        BY <1>5 DEF Inspect, ReadFaithfully, ClockTaken
      <3>3. QED
        BY <3>1, <3>2, StampType
    <2>2. pc = "inspect" /\ pc' = "signals" /\ UNCHANGED <<age, lag, overdue>>
      BY <1>5 DEF Inspect, worker
    <2>3. QED
      BY <2>1, <2>2 DEF ReadFaithfully, ClockTaken, ReadInTime, NoFalseStall
  <1>6. CASE ReadSignals
    <2>1. ASSUME NEW w \in Watermarks \ overdue
          PROVE  stamp'[w] # Never /\ 0 - stamp'[w] <= StallAfter[w]
      <3>1. stamp'[w] = IF w \in InContext THEN Stamp(w) ELSE stamp[w]
        BY <1>6 DEF ReadSignals
      <3>2. age[w] # Never /\ age[w] - lag <= StallAfter[w]
        BY <1>6 DEF ReadSignals, ReadFaithfully, ClockTaken
      <3>3. w \notin InContext => stamp[w] # Never /\ 0 - stamp[w] <= StallAfter[w]
        BY <1>6 DEF ReadSignals, ReadFaithfully, ReadInTime
      <3>4. QED
        BY <3>1, <3>2, <3>3, StampType
    <2>2. pc = "signals" /\ pc' = "evaluate" /\ UNCHANGED <<age, lag, overdue>>
      BY <1>6 DEF ReadSignals, worker
    <2>3. QED
      BY <2>1, <2>2 DEF ReadFaithfully, ClockTaken, ReadInTime, NoFalseStall
  <1>7. CASE Evaluate
    <2>1. pc = "evaluate" /\ pc' \in {"ended", "complete"}
      BY <1>7 DEF Evaluate, EndTick
    <2>2. ReadFaithfully'
      BY <2>1 DEF ReadFaithfully, ClockTaken
    <2>3. ASSUME pc' = "complete", symptom' = "progress_stalled"
          PROVE  /\ overdue' = overdue
                 /\ "progress_stalled" \in WatchdogResults
      BY <1>7, <2>3 DEF Evaluate, EndTick
    <2>4. ASSUME pc' = "complete", symptom' = "progress_stalled"
          PROVE  ProgressStalled /\ StalledWatermarks \subseteq overdue
      <3>1. ProgressStalled /\ \A w \in Watermarks : ~IsSuspect(w)
        BY <2>3, <2>4, SymptomMeans
      <3>2. ASSUME NEW w \in StalledWatermarks, w \notin overdue
            PROVE  FALSE
        <4>1. w \in Watermarks /\ IsStalled(stamp[w], StallAfter[w])
          BY <3>1 DEF StalledWatermarks
        <4>2. stamp[w] # Never /\ 0 - stamp[w] <= StallAfter[w]
          BY <2>1, <3>2, <4>1 DEF ReadFaithfully, ReadInTime
        <4>3. stamp[w] \in Int /\ StallAfter[w] \in Int
          BY <4>1, <4>2, EvaluatorsAssumption DEF TypeOK, Times
        <4>4. QED
          BY <4>1, <4>2, <4>3 DEF IsStalled
      <3>3. QED
        BY <3>1, <3>2
    <2>5. overdue \subseteq Watermarks
      BY DEF TypeOK
    <2>6. NoFalseStall'
      BY <2>3, <2>4, <2>5 DEF NoFalseStall, ProgressStalled
    <2>7. QED
      BY <2>2, <2>6
  <1>8. CASE Complete \/ RunAgain
    <2>1. pc' \in {"idle", "ended"}
      BY <1>8 DEF Complete, RunAgain, EndTick
    <2>2. QED
      BY <2>1 DEF ReadFaithfully, ClockTaken, NoFalseStall
  <1>9. QED
    BY <1>1, <1>2, <1>3, <1>4, <1>5, <1>6, <1>7, <1>8 DEF Next, Worker, Tick

\* A stall is reported only of a worker that had been quiet for stall_after when the tick
\* took its clock, for any number of watermarks and ticks of any length.
THEOREM NoFalseStallHolds == Spec => []NoFalseStall
  <1>1. Init => StallInv
    BY InitType, InitStall DEF StallInv
  <1>2. StallInv /\ [Next]_vars => StallInv'
    BY TypeNext, StallNext DEF StallInv
  <1>3. StallInv => NoFalseStall
    BY DEF StallInv
  <1>4. QED
    BY <1>1, <1>2, <1>3, PTL DEF Spec

-------------------------------------------------------------------------------
\* Completion.

\* Every step keeps a completion earned by what its own tick judged.
LEMMA EarnedNext == EarnedInv /\ [Next]_vars => EarnedInv'
  <1> SUFFICES ASSUME EarnedInv, [Next]_vars PROVE EarnedInv'
    OBVIOUS
  <1>1. CASE Worker \/ UNCHANGED vars
    <2>1. UNCHANGED <<pc, judged, outcome>>
      BY <1>1 DEF Worker, Elapse, Advance, Stops, Recovers, SlowOperation, vars
    <2>2. QED
      BY <2>1 DEF EarnedInv, CompletionIsEarned
  <1>2. CASE Begin \/ Inspect \/ ReadSignals
    <2>1. pc # "ended" /\ UNCHANGED outcome
      BY <1>2 DEF Begin, Inspect, ReadSignals
    <2>2. QED
      BY <2>1 DEF EarnedInv, CompletionIsEarned
  <1>3. CASE Evaluate
    <2>1. pc # "ended" /\ outcome' \in {outcome, "blocked"}
      BY <1>3 DEF Evaluate, EndTick
    <2>2. QED
      BY <2>1 DEF EarnedInv, CompletionIsEarned
  <1>4. CASE Complete
    <2>1. PICK units \in {0, Expected}, samePlan \in BOOLEAN :
             \/ Met(units, samePlan) /\ EndTick("completed") /\ UNCHANGED judged
             \/ ~Met(units, samePlan) /\ EndTick("running") /\ judged' = NothingJudged
      BY <1>4 DEF Complete
    <2>2. CASE Met(units, samePlan) /\ EndTick("completed") /\ UNCHANGED judged
      BY <2>2 DEF Met, PlanHolds, EndTick, EarnedInv, CompletionIsEarned
    <2>3. CASE EndTick("running")
      BY <2>3 DEF EndTick, EarnedInv, CompletionIsEarned
    <2>4. QED
      BY <2>1, <2>2, <2>3
  <1>5. CASE RunAgain
    BY <1>5 DEF RunAgain, EarnedInv, CompletionIsEarned
  <1>6. QED
    BY <1>1, <1>2, <1>3, <1>4, <1>5 DEF Next, Tick

\* A run that completes had a plan that holds and is frozen, if any, and passed the
\* validity checks its condition asks for.
THEOREM CompletionIsEarnedHolds == Spec => []CompletionIsEarned
  <1>1. Init => EarnedInv
    BY DEF Init, EarnedInv, CompletionIsEarned
  <1>2. EarnedInv => CompletionIsEarned
    BY DEF EarnedInv
  <1>3. QED
    BY <1>1, <1>2, EarnedNext, PTL DEF Spec

===============================================================================
