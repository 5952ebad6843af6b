------------------------------ MODULE Evaluators ------------------------------
(***************************************************************************)
(* The evaluators a tick consults (watchdog/evaluator.py,                  *)
(* validity/evaluator.py, completion/evaluator.py) and the moments at      *)
(* which it reads what they judge: the tick takes its clock, inspects the  *)
(* runtime, asks for the progress signals, evaluates, and inspects again   *)
(* for completion, while the worker goes on.                               *)
(*                                                                         *)
(* Times within a tick are relative to its clock (evaluated_at = 0); what  *)
(* the worker did is kept as an age, so time itself is unbounded.  What an *)
(* adapter, a plan file or a custom check may say freely is chosen where   *)
(* it is used.                                                             *)
(***************************************************************************)
EXTENDS Integers

CONSTANTS
    Watermarks,     \* contract.progress.watermarks
    InContext,      \* those progress_context() reports; inspect() has the others
    StallAfter,     \* their stall_after
    AllRequired,    \* stall_requires = "all"
    Tolerance,      \* suspect_progress_within
    DrainAfter,     \* scheduled_path_disarmed_stall_after
    NoDrain,        \* it is not set
    Stampings,      \* how adapters stamp: subset of {"durable", "clock"}
    OnInvalid,      \* validity.on_invalid
    CheckOnFail,    \* on_fail of the custom check
    Expected,       \* validity.expected_units, or planned_units of the plan
    UnitsOnly,      \* completion.condition leaves validity out
    Never,          \* no timestamp
    NoPlan,         \* the contract has no experiment plan
    MaxSlow,        \* bound: length of a declared slow operation
    MaxLag,         \* bound: length of a tick
    MaxAge          \* ages are not told apart from here on

ASSUME EvaluatorsAssumption ==
    /\ Watermarks # {} /\ InContext \subseteq Watermarks
    /\ StallAfter \in [Watermarks -> Nat]
    /\ AllRequired \in BOOLEAN /\ Tolerance \in Nat
    /\ DrainAfter \in Nat \cup {NoDrain} /\ NoDrain \notin Nat
    /\ Stampings \subseteq {"durable", "clock"}
    /\ OnInvalid \in {"quarantine", "discard", "incident"}
    /\ CheckOnFail \in {"incident", "block", "quarantine", "discard"}
    /\ Expected \in Nat /\ UnitsOnly \in BOOLEAN
    /\ Never \notin Int
    /\ MaxSlow \in Nat /\ MaxLag \in Nat
    /\ MaxAge \in Nat /\ \A w \in Watermarks : MaxAge > StallAfter[w] + MaxLag

VARIABLES  \* lag to judged are of the tick, and forgotten when it ends
    age,        \* external: time since each watermark advanced, or Never
    stuck,      \* external: the watermarks that have stopped for good
    slow,       \* external: until when the worker has declared a slow operation
    stamping,   \* external: how the adapter stamps
    pc,         \* where the tick is
    lag,        \* time since the tick took its clock
    observedAt, \* observed.observed_at
    stamp,      \* last_advanced_at of each watermark, as read
    slowSeen,   \* the signals named a slow operation that was not over
    symptom,    \* what the evaluation of the tick found
    judged,     \* the plan and the validity of the tick
    outcome,    \* of the last tick
    overdue     \* history: the watermarks quiet for long when the tick took its clock

worker == <<age, stuck, slow, stamping>>
read == <<observedAt, stamp, slowSeen>>
vars == <<worker, pc, lag, read, symptom, judged, outcome, overdue>>

\* An experiment plan: its hash holds, it is frozen before outcomes.
Plans == [sound : BOOLEAN, frozen : BOOLEAN] \cup {NoPlan}
NothingRead == [w \in Watermarks |-> Never]
NothingJudged == [plan |-> NoPlan, passed |-> TRUE, blocks |-> FALSE, opens |-> FALSE]

Init ==
    /\ age \in [Watermarks -> {0, Never}]
    /\ stuck = {} /\ slow = 0 - MaxLag
    /\ stamping \in Stampings
    /\ pc = "idle" /\ lag = 0 /\ observedAt = 0
    /\ stamp = NothingRead
    /\ slowSeen = FALSE
    /\ symptom = "none" /\ judged = NothingJudged /\ outcome = "running"
    /\ overdue = {}

-------------------------------------------------------------------------------
\* The worker.  External.

Older(a) == IF a = Never \/ a = MaxAge THEN a ELSE a + 1

Elapse ==
    /\ pc # "idle" => lag < MaxLag
    /\ lag' = IF pc = "idle" THEN lag ELSE lag + 1
    /\ age' = [w \in Watermarks |-> Older(age[w])]
    /\ slow' = IF slow > 0 - MaxLag THEN slow - 1 ELSE slow
    /\ UNCHANGED <<stuck, stamping, pc, read, symptom, judged, outcome, overdue>>

Advance(w) ==
    /\ w \notin stuck /\ age[w] # 0
    /\ age' = [age EXCEPT ![w] = 0]
    /\ UNCHANGED <<stuck, slow, stamping, pc, lag, read, symptom, judged,
                   outcome, overdue>>

Stops(w) ==
    /\ w \notin stuck
    /\ stuck' = stuck \cup {w}
    /\ UNCHANGED <<age, slow, stamping, pc, lag, read, symptom, judged,
                   outcome, overdue>>

Recovers ==
    /\ stuck # {} /\ stuck' = {}
    /\ UNCHANGED <<age, slow, stamping, pc, lag, read, symptom, judged,
                   outcome, overdue>>

\* Only a worker that gets on declares one.
SlowOperation ==
    /\ stuck = {} /\ slow <= 0
    /\ slow' \in 1 .. MaxSlow
    /\ UNCHANGED <<age, stuck, stamping, pc, lag, read, symptom, judged,
                   outcome, overdue>>

-------------------------------------------------------------------------------
\* The readings of a tick.

\* Mutant: the timestamp is read the wrong way round.
StampAhead(w) == IF stamping = "clock" THEN lag
                 ELSE IF age[w] = Never THEN Never ELSE lag + age[w]
\* External: the last advance of w as the adapter reports it now.
Stamp(w) == IF stamping = "clock" THEN lag
            ELSE IF age[w] = Never THEN Never ELSE lag - age[w]

Begin ==
    /\ pc = "idle" /\ pc' = "inspect"
    /\ lag' = 0
    /\ overdue' = {w \in Watermarks : age[w] = Never \/ age[w] > StallAfter[w]}
    /\ UNCHANGED <<worker, read, symptom, judged, outcome>>

Inspect ==
    /\ pc = "inspect" /\ pc' = "signals"
    /\ observedAt' = lag
    /\ stamp' = [w \in Watermarks |-> IF w \in InContext THEN Never ELSE Stamp(w)]
    /\ UNCHANGED <<worker, lag, slowSeen, symptom, judged, outcome, overdue>>

\* progress_context_for
ReadSignals ==
    /\ pc = "signals" /\ pc' = "evaluate"
    /\ stamp' = [w \in Watermarks |-> IF w \in InContext THEN Stamp(w) ELSE stamp[w]]
    /\ slowSeen' = (lag + slow > 0)
    /\ UNCHANGED <<worker, lag, observedAt, symptom, judged, outcome, overdue>>

-------------------------------------------------------------------------------
\* evaluate_watchdog

\* Mutant: no stamp is ever doubted.
NeverSuspect(w) == FALSE
IsSuspect(w) == stamp[w] # Never /\ observedAt - stamp[w] <= Tolerance

\* Mutant: a stall is counted from the inspection.
StalledAtInspection(at, after) == at = Never \/ observedAt - at > after
IsStalled(at, after) == at = Never \/ 0 - at > after

StalledWatermarks ==
    {w \in Watermarks : IsSuspect(w) \/ IsStalled(stamp[w], StallAfter[w])}

ProgressStalled ==
    IF AllRequired THEN StalledWatermarks = Watermarks ELSE StalledWatermarks # {}

\* _scheduled_path_held_by_drain, the path being disarmed in a drain mode; since when
\* is the adapter's own timestamp, its last progress or else the inspection.
DrainHeld(since) ==
    DrainAfter # NoDrain /\ ProgressStalled /\ IsStalled(since, DrainAfter)

Symptom(healthy, draining, since) ==
    CASE slowSeen -> "none"
      [] ~slowSeen /\ ~healthy -> "worker_unhealthy"
      [] ~slowSeen /\ healthy /\ draining /\ DrainHeld(since) ->
            "scheduled_path_held_by_drain"
      [] ~slowSeen /\ healthy /\ ~(draining /\ DrainHeld(since)) /\ ProgressStalled ->
            IF \E w \in Watermarks : IsSuspect(w) THEN "suspect_progress"
                                                   ELSE "progress_stalled"
      [] OTHER -> "none"

-------------------------------------------------------------------------------
\* evaluate_validity

\* The checks that fail.  Null and error rates are not among them: no caller passes
\* the units they count.  planned_units is compared with itself.
FailedChecks(fresh, passes, scheduled, plan, units) ==
    {c \in {"fingerprint_match"} : ~fresh}
    \cup {c \in {"custom"} : ~passes}
    \cup {c \in {"plan_hash"} : plan # NoPlan /\ ~plan.sound}
    \cup {c \in {"schedule_hash"} : plan # NoPlan /\ ~scheduled}
    \cup {c \in {"plan_frozen"} : plan # NoPlan /\ units > 0 /\ ~plan.frozen}

Blocking(failed) ==
    \/ "plan_frozen" \in failed
    \/ "custom" \in failed /\ CheckOnFail = "block"

OpensIncident(failed) == failed # {} /\ (~Blocking(failed) \/ OnInvalid = "incident")

ValidityResult(plan, failed) ==
    [plan |-> plan, passed |-> failed = {},
     blocks |-> Blocking(failed), opens |-> OpensIncident(failed)]

-------------------------------------------------------------------------------
\* The tick.

\* What the evaluators can find in what was read, whatever the adapter says besides.
WatchdogResults ==
    {Symptom(healthy, draining, since) :
        healthy, draining \in BOOLEAN, since \in {observedAt, 0 - MaxAge}}

ValidityResults ==
    {ValidityResult(plan, FailedChecks(fresh, passes, scheduled, plan, units)) :
        fresh, passes, scheduled \in BOOLEAN, plan \in Plans, units \in {0, Expected}}

\* What was read lives as long as the evaluation.
Forget == observedAt' = 0 /\ stamp' = NothingRead /\ slowSeen' = FALSE

\* run() goes on after a tick unless it is blocked or complete.
EndTick(result) ==
    /\ pc' = IF result = "running" THEN "idle" ELSE "ended"
    /\ outcome' = result
    /\ lag' = 0 /\ overdue' = {}

\* IncidentEngine.evaluate up to its decision: a failed check that blocks goes first,
\* the watchdog before the validity.  Engine or reconciler may then block the tick.
Evaluate ==
    /\ pc = "evaluate"
    /\ \E watchdog \in WatchdogResults, validity \in ValidityResults :
          /\ judged' = validity
          /\ \/ /\ validity.blocks
                /\ symptom' = "validity_blocked"
                /\ EndTick("blocked")
             \/ /\ ~validity.blocks
                /\ symptom' = IF watchdog = "none" /\ validity.opens
                              THEN "validity_failed" ELSE watchdog
                /\ \/ EndTick("blocked")
                   \/ pc' = "complete" /\ UNCHANGED <<lag, overdue, outcome>>
    /\ Forget
    /\ UNCHANGED worker

\* Mutant: a frozen plan is left to the validity checks.
LeftToValidity(plan) == plan # NoPlan => plan.sound
PlanHolds(plan) == plan # NoPlan => plan.sound /\ plan.frozen

\* evaluate_completion
Met(units, samePlan) ==
    /\ PlanHolds(judged.plan)
    /\ judged.plan # NoPlan => samePlan
    /\ units >= Expected
    /\ UnitsOnly \/ judged.passed

\* The runtime is inspected again; the validity is that of the first inspection.
Complete ==
    /\ pc = "complete"
    /\ \E units \in {0, Expected}, samePlan \in BOOLEAN :
          \/ Met(units, samePlan) /\ EndTick("completed") /\ UNCHANGED judged
          \/ ~Met(units, samePlan) /\ EndTick("running") /\ judged' = NothingJudged
    /\ symptom' = "none"
    /\ UNCHANGED <<worker, read>>

\* A blocked or completed run is started again, the block lifted.
RunAgain ==
    /\ pc = "ended"
    /\ pc' = "idle" /\ outcome' = "running" /\ symptom' = "none"
    /\ judged' = NothingJudged
    /\ UNCHANGED <<worker, lag, read, overdue>>

-------------------------------------------------------------------------------
Worker == Elapse \/ Recovers \/ SlowOperation \/ \E w \in Watermarks : Advance(w) \/ Stops(w)
Tick == Begin \/ Inspect \/ ReadSignals \/ Evaluate \/ Complete

Next == Worker \/ Tick \/ RunAgain

Spec == Init /\ [][Next]_vars

\* Time passes, and the run goes on ticking.
FairSpec == Spec /\ WF_vars(Elapse) /\ WF_vars(Tick)

-------------------------------------------------------------------------------
\* Properties.

Times == (0 - MaxAge) .. MaxLag
Symptoms == {"none", "worker_unhealthy", "scheduled_path_held_by_drain",
             "suspect_progress", "progress_stalled", "validity_failed",
             "validity_blocked"}

TypeOK ==
    /\ age \in [Watermarks -> 0 .. MaxAge \cup {Never}]
    /\ stuck \subseteq Watermarks /\ slow \in (0 - MaxLag) .. MaxSlow
    /\ stamping \in Stampings
    /\ pc \in {"idle", "inspect", "signals", "evaluate", "complete", "ended"}
    /\ lag \in 0 .. MaxLag /\ observedAt \in 0 .. MaxLag
    /\ stamp \in [Watermarks -> Times \cup {Never}]
    /\ slowSeen \in BOOLEAN /\ symptom \in Symptoms
    /\ judged \in [plan : Plans, passed : BOOLEAN, blocks : BOOLEAN, opens : BOOLEAN]
    /\ outcome \in {"running", "blocked", "completed"}
    /\ overdue \subseteq Watermarks

\* "progress_stalled" is said only of a worker that had really been quiet for
\* stall_after when the tick took its clock, however long the readings took.
NoFalseStall ==
    symptom = "progress_stalled" /\ pc = "complete" =>
        IF AllRequired THEN overdue = Watermarks ELSE overdue # {}

\* A run completes only under a plan that holds and is frozen, and, if the condition
\* says so, with the validity of the tick passed; also when the units come in between
\* the two inspections, after the check for results under an unfrozen plan.
CompletionIsEarned ==
    outcome = "completed" =>
        /\ judged.plan # NoPlan => judged.plan.frozen /\ judged.plan.sound
        /\ UnitsOnly \/ judged.passed

Quiet == IF AllRequired THEN stuck = Watermarks ELSE stuck # {}

\* A worker that stops advancing is reported, its adapter lying or not, unless it
\* recovers or the run ends otherwise.
HungIsReported ==
    Quiet ~> \/ ~Quiet \/ outcome \in {"blocked", "completed"}
             \/ symptom \in {"worker_unhealthy", "scheduled_path_held_by_drain",
                             "suspect_progress", "progress_stalled"}
===============================================================================
