---------------------------- MODULE RecoveryBudget ----------------------------
(***************************************************************************)
(* The recovery budget of one incident: which remediation strategy, if     *)
(* any, the next recovery attempt may use (recovery/budget.py).            *)
(*                                                                         *)
(* An attempt is [strategy, digest]; the digest stands for the hash of the *)
(* evidence that defines the failure.                                      *)
(***************************************************************************)
EXTENDS Integers, Sequences, FiniteSets

CONSTANTS
    MaxAttempts,        \* recovery.max_attempts_per_incident
    MaxIdentical,       \* recovery.max_identical_attempts
    DetectOscillation,  \* recovery.detect_oscillation
    Window,             \* recovery.oscillation_window
    EvidenceDelta,      \* recovery.novel_strategy_requires = "evidence_delta"
    WallclockLimit,     \* budget.per_incident_wallclock, or NoLimit
    NoLimit

\* The field constraints of RecoveryConfig (ge=1, ge=1, ge=2).
ASSUME BudgetAssumption ==
    /\ MaxAttempts \in Nat \ {0}
    /\ MaxIdentical \in Nat \ {0}
    /\ Window \in Nat \ {0, 1}
    /\ DetectOscillation \in BOOLEAN
    /\ EvidenceDelta \in BOOLEAN
    /\ WallclockLimit \in Nat \cup {NoLimit}

DefaultStrategies == <<"worker_restart", "service_restart", "full_relaunch">>
Strategies == {"worker_restart", "service_restart", "full_relaunch"}
NoStrategy == "none"

StrategiesTried(attempts) == {attempts[i].strategy : i \in DOMAIN attempts}
PriorDigests(attempts) == {attempts[i].digest : i \in DOMAIN attempts}

\* How many attempts used this strategy against this evidence.
Identical(attempts, strategy, digest) ==
    Cardinality({i \in DOMAIN attempts :
                    /\ attempts[i].strategy = strategy
                    /\ attempts[i].digest = digest})

IsOscillating(attempts) ==
    /\ Len(attempts) >= Window
    /\ LET tail == (Len(attempts) - Window + 1) .. Len(attempts)
       IN  /\ Cardinality({attempts[i].strategy : i \in tail}) = 2
           /\ \A i \in tail : i + 1 \in tail =>
                 attempts[i].strategy # attempts[i + 1].strategy

\* A strategy never tried before needs new evidence, or one that is exhausted.
NeedsNovelEvidence(attempts, strategy, digest) ==
    /\ EvidenceDelta
    /\ strategy \notin StrategiesTried(attempts)
    /\ digest \in PriorDigests(attempts)
    /\ \A tried \in StrategiesTried(attempts) :
          Identical(attempts, tried, digest) < MaxIdentical

\* Mutant: one identical attempt too many.
EligibleOffByOne(attempts, strategy, digest) ==
    /\ Identical(attempts, strategy, digest) <= MaxIdentical
    /\ ~NeedsNovelEvidence(attempts, strategy, digest)

Eligible(attempts, strategy, digest) ==
    /\ Identical(attempts, strategy, digest) < MaxIdentical
    /\ ~NeedsNovelEvidence(attempts, strategy, digest)

\* Mutant: max_attempts_per_incident is not enforced.
NoAttemptCeiling(attempts, elapsed) ==
    \/ WallclockLimit # NoLimit /\ elapsed > WallclockLimit
    \/ DetectOscillation /\ IsOscillating(attempts)

OutOfBudget(attempts, elapsed) ==
    \/ Len(attempts) >= MaxAttempts
    \/ WallclockLimit # NoLimit /\ elapsed > WallclockLimit
    \/ DetectOscillation /\ IsOscillating(attempts)

\* The first eligible strategy of the ladder, or NoStrategy when blocked.
NextStrategy(attempts, digest, elapsed) ==
    IF OutOfBudget(attempts, elapsed)
    THEN NoStrategy
    ELSE IF Eligible(attempts, "worker_restart", digest) THEN "worker_restart"
    ELSE IF Eligible(attempts, "service_restart", digest) THEN "service_restart"
    ELSE IF Eligible(attempts, "full_relaunch", digest) THEN "full_relaunch"
    ELSE NoStrategy

\* Mutant: the attempt is not recorded.
ForgetAttempt(attempts, strategy, digest) == attempts

RecordAttempt(attempts, strategy, digest) ==
    Append(attempts, [strategy |-> strategy, digest |-> digest])
===============================================================================
