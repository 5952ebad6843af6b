------------------------------ MODULE Supervisor ------------------------------
(***************************************************************************)
(* The supervisor's loop (supervisor/loop.py) with the files it shares     *)
(* with the operator: the stop flag (supervisor/stop.py), escalation.json  *)
(* (supervisor/escalation.py) and the completion marker                    *)
(* (completion/actions.py).  A tick is cut where another process can act   *)
(* or a crash can fall between two effects.                                *)
(*                                                                         *)
(* One supervisor runs at a time (Lease.tla).  The incident engine and the *)
(* reconciler appear by their outcome only (IncidentEngine.tla).  The      *)
(* contract has stop_workers among its on_complete actions.                *)
(***************************************************************************)
EXTENDS Integers

CONSTANTS
    Observing,          \* may a run be started with --observe-only? subset of BOOLEAN
    StopOnTimeout,      \* escalation.on_timeout = "stop"
    BlockingTimeout,    \* escalation.blocking_timeout
    InvariantOutcomes,  \* what evaluate_invariants may find
    MaxStopFailures,    \* bound: stops that could not be verified
    MaxIncidents,       \* bound: incidents opened for a violated invariant
    MaxTime,            \* bound: the clock
    MaxCrashes          \* bound: crashes

ASSUME SupervisorAssumption ==
    /\ Observing \subseteq BOOLEAN /\ StopOnTimeout \in BOOLEAN
    /\ BlockingTimeout \in Nat
    /\ InvariantOutcomes \subseteq {"pass", "halt", "block", "incident"}
    /\ MaxStopFailures \in Nat /\ MaxIncidents \in Nat
    /\ MaxTime \in Nat /\ MaxCrashes \in Nat

VARIABLES
    pc,         \* where the supervisor is
    observe,    \* it was started with --observe-only
    copy,       \* its copy of escalation.json
    at,         \* evaluated_at of this tick
    valid,      \* evaluation.validity.passed of this tick
    result,     \* the lifecycle its last tick returned
    escalation, \* escalation.json
    stopFlag,   \* .stop exists
    marker,     \* completion_actions.done exists
    orphan,     \* intents.db: a crashed run left a pending intent
    opened,     \* incidents.db: open incidents of a violated invariant
    worker,     \* external: do the workers run?
    done,       \* external: the planned units are completed
    now,        \* the wall clock
    crashes,    \* crashes so far
    failures,   \* stops that failed so far
    asked,      \* history: `research-harness stop` while the supervisor was alive
    fires,      \* history: how often the timeout fired since the run was marked blocked
    finishes    \* history: how often the completion actions were run

process == <<observe, copy, at, valid, result>>
history == <<asked, fires, finishes>>
files == <<escalation, stopFlag, marker, orphan, opened>>
vars == <<pc, process, files, worker, done, now, crashes, failures, history>>

NotBlocked == [blocked |-> FALSE, since |-> 0, escalated |-> FALSE]

Init ==
    /\ pc = "down" /\ observe = FALSE /\ copy = NotBlocked /\ at = 0
    /\ valid = FALSE /\ result = "none"
    /\ escalation = NotBlocked /\ stopFlag = FALSE /\ marker = FALSE
    /\ orphan = FALSE /\ opened = 0
    /\ worker = "running" /\ done = FALSE /\ now = 0
    /\ crashes = 0 /\ failures = 0
    /\ asked = "no" /\ fires = 0 /\ finishes = 0

-------------------------------------------------------------------------------
\* Run ends: shutdown, and the process is gone.
Down == pc' = "down" /\ asked' = "no"

\* The tick returns a result that ends run().
Ends(lifecycle) == Down /\ result' = lifecycle

\* Mutant: a stop that could not be verified counts as one.
Unverified(ok) == ok \in BOOLEAN
Verified(ok) == ok = TRUE

\* _stop_runtime: stop_verified, which may fail; never in an observe-only run.
StopRuntime(ok) ==
    /\ observe => ~ok
    /\ IF ok THEN worker' = "stopped" ELSE UNCHANGED worker
    /\ IF ok \/ observe
       THEN UNCHANGED failures
       ELSE failures < MaxStopFailures /\ failures' = failures + 1

\* The engine, the reconciler and the startup pass may start the workers.
MayRestart == worker' = worker \/ (~observe /\ worker' = "running")

-------------------------------------------------------------------------------
\* startup

Startup ==
    /\ pc = "down"
    /\ observe' \in Observing
    /\ pc' = "startup" /\ result' = "none"
    /\ UNCHANGED <<copy, at, valid, files, worker, done, now, crashes, failures, history>>

\* An orphaned intent is executed (or, without authority, failed), whatever the
\* escalation says; then a stop flag left over is cleared.
Started ==
    /\ pc = "startup"
    /\ IF orphan THEN MayRestart ELSE UNCHANGED worker
    /\ orphan' \in (IF observe THEN {orphan, FALSE} ELSE {FALSE})
    /\ stopFlag' = FALSE
    /\ pc' = "idle"
    /\ UNCHANGED <<process, escalation, marker, opened, done, now, crashes, failures, history>>

-------------------------------------------------------------------------------
\* tick: the escalation

Tick ==
    /\ pc = "idle"
    /\ copy' = escalation /\ at' = now
    /\ pc' = "timeout"
    /\ UNCHANGED <<observe, valid, result, files, worker, done, now, crashes, failures, history>>

Due(state) ==
    /\ state.blocked /\ ~state.escalated
    /\ at - state.since >= BlockingTimeout

\* check_timeout loads escalation.json again, and saves what it loaded.
TimeoutDue ==
    /\ pc = "timeout" /\ Due(escalation)
    /\ copy' = [escalation EXCEPT !.escalated = TRUE]
    /\ pc' = "save"
    /\ UNCHANGED <<observe, at, valid, result, files, worker, done, now, crashes, failures, history>>

SaveEscalated ==
    /\ pc = "save"
    /\ escalation' = copy
    /\ fires' = fires + 1
    /\ pc' = IF StopOnTimeout THEN "timed_out" ELSE "blocked"
    /\ UNCHANGED <<process, stopFlag, marker, orphan, opened, worker, done, now, crashes, failures,
                   asked, finishes>>

TimedOut(ok) ==
    /\ pc = "timed_out"
    /\ StopRuntime(ok)
    /\ Ends(IF Verified(ok) THEN "STOPPED" ELSE "BLOCKED")
    /\ UNCHANGED <<observe, copy, at, valid, files, done, now, crashes, fires, finishes>>

NoTimeout ==
    /\ pc = "timeout" /\ ~Due(escalation)
    /\ pc' = IF copy.blocked THEN "blocked" ELSE "flag"
    /\ UNCHANGED <<process, files, worker, done, now, crashes, failures, history>>

StayBlocked ==
    /\ pc = "blocked"
    /\ Ends("BLOCKED")
    /\ UNCHANGED <<observe, copy, at, valid, files, worker, done, now, crashes, failures, fires,
                   finishes>>

-------------------------------------------------------------------------------
\* tick: the stop flag and the contract's invariants

\* Mutant: the stop flag is looked at in the first tick only.
FlagUnseen == stopFlag /\ result = "none"
StopRequested == stopFlag

\* An observe-only run stops itself, and reports STOPPED with the workers running.
StopOnFlag(ok) ==
    /\ pc = "flag" /\ StopRequested
    /\ StopRuntime(ok)
    /\ Ends(IF observe \/ Verified(ok) THEN "STOPPED" ELSE "BLOCKED")
    /\ UNCHANGED <<observe, copy, at, valid, files, done, now, crashes, fires, finishes>>

NoStop ==
    /\ pc = "flag" /\ ~StopRequested
    /\ pc' = "invariants"
    /\ UNCHANGED <<process, files, worker, done, now, crashes, failures, history>>

InvariantsPass ==
    /\ pc = "invariants" /\ "pass" \in InvariantOutcomes
    /\ pc' = "evaluate"
    /\ UNCHANGED <<process, files, worker, done, now, crashes, failures, history>>

\* halt: whether the workers stopped is not looked at.
InvariantHalts(ok) ==
    /\ pc = "invariants" /\ "halt" \in InvariantOutcomes
    /\ StopRuntime(ok)
    /\ Ends("BLOCKED")
    /\ UNCHANGED <<observe, copy, at, valid, files, done, now, crashes, fires, finishes>>

InvariantBlocks ==
    /\ pc = "invariants" /\ "block" \in InvariantOutcomes
    /\ Ends("BLOCKED")
    /\ UNCHANGED <<observe, copy, at, valid, files, worker, done, now, crashes, failures, fires,
                   finishes>>

\* A new incident in every tick the violation lasts.
InvariantIncident ==
    /\ pc = "invariants" /\ "incident" \in InvariantOutcomes
    /\ opened < MaxIncidents
    /\ opened' = opened + 1
    /\ pc' = "idle" /\ result' = "RUNNING"
    /\ UNCHANGED <<observe, copy, at, valid, escalation, stopFlag, marker, orphan, worker, done,
                   now, crashes, failures, history>>

-------------------------------------------------------------------------------
\* tick: evaluation, reconciliation, completion

\* External to this module: evaluate may recover the workers, and may block.
Evaluate ==
    /\ pc = "evaluate"
    /\ MayRestart
    /\ valid' \in BOOLEAN
    /\ pc' \in {"mark", "reconcile"}
    /\ UNCHANGED <<observe, copy, at, result, files, done, now, crashes, failures, history>>

Reconcile ==
    /\ pc = "reconcile"
    /\ MayRestart
    /\ pc' \in {"mark", "completion"}
    /\ UNCHANGED <<process, files, done, now, crashes, failures, history>>

\* Mutant: the block is dated back, so that it times out at once.
BlockedLongAgo == [blocked |-> TRUE, since |-> at - BlockingTimeout, escalated |-> FALSE]
BlockedNow == [blocked |-> TRUE, since |-> at, escalated |-> FALSE]

\* mark_blocked
MarkBlocked ==
    /\ pc = "mark"
    /\ escalation' = BlockedNow
    /\ fires' = 0
    /\ Ends("BLOCKED")
    /\ UNCHANGED <<observe, copy, at, valid, stopFlag, marker, orphan, opened, worker, done, now,
                   crashes, failures, finishes>>

\* Mutant: the marker is never looked at.
Unmarked == TRUE
NotYetFinished == ~marker

\* The condition holds: units and validity.
RunCompletion(ok) ==
    /\ pc = "completion" /\ done /\ valid /\ NotYetFinished
    /\ StopRuntime(ok)
    /\ finishes' = IF observe THEN finishes ELSE finishes + 1
    /\ IF observe
       THEN Ends("COMPLETED")
       ELSE pc' = "marker" /\ UNCHANGED <<result, asked>>
    /\ UNCHANGED <<observe, copy, at, valid, files, done, now, crashes, fires>>

\* The marker is written whether the workers could be stopped or not.
WriteMarker ==
    /\ pc = "marker"
    /\ marker' = TRUE
    /\ Ends("COMPLETED")
    /\ UNCHANGED <<observe, copy, at, valid, escalation, stopFlag, orphan, opened, worker, done,
                   now, crashes, failures, fires, finishes>>

AlreadyCompleted ==
    /\ pc = "completion" /\ done /\ valid /\ ~NotYetFinished
    /\ Ends("COMPLETED")
    /\ UNCHANGED <<observe, copy, at, valid, files, worker, done, now, crashes, failures, fires,
                   finishes>>

NotComplete ==
    /\ pc = "completion" /\ ~(done /\ valid)
    /\ pc' = "idle" /\ result' = "RUNNING"
    /\ UNCHANGED <<observe, copy, at, valid, files, worker, done, now, crashes, failures, history>>

\* run() was given max_ticks.
Leave ==
    /\ pc = "idle" /\ result = "RUNNING"
    /\ Down
    /\ UNCHANGED <<process, files, worker, done, now, crashes, failures, fires, finishes>>

-------------------------------------------------------------------------------
\* The operator, crashes and the environment.

\* `research-harness stop`
RequestStop ==
    /\ ~stopFlag
    /\ stopFlag' = TRUE
    /\ asked' = CASE pc = "down" -> "no"
                  [] pc = "startup" -> "starting"
                  [] OTHER -> "started"
    /\ UNCHANGED <<pc, process, escalation, marker, orphan, opened, worker, done, now, crashes,
                   failures, fires, finishes>>

\* EscalationManager.clear (no caller in the code): the operator unblocks the run.
OperatorClears ==
    /\ escalation.blocked
    /\ escalation' = NotBlocked
    /\ UNCHANGED <<pc, process, stopFlag, marker, orphan, opened, worker, done, now, crashes,
                   failures, history>>

Crash ==
    /\ pc # "down" /\ crashes < MaxCrashes
    /\ crashes' = crashes + 1
    /\ Down /\ result' = "none"
    /\ orphan' \in (IF pc = "evaluate" /\ ~observe THEN BOOLEAN ELSE {orphan})
    /\ UNCHANGED <<observe, copy, at, valid, escalation, stopFlag, marker, opened, worker, done,
                   now, failures, fires, finishes>>

\* External: the workers complete the planned units.
WorkerFinishes ==
    /\ worker = "running" /\ ~done
    /\ done' = TRUE
    /\ UNCHANGED <<pc, process, files, worker, now, crashes, failures, history>>

ClockTicks ==
    /\ now < MaxTime
    /\ now' = now + 1
    /\ UNCHANGED <<pc, process, files, worker, done, crashes, failures, history>>

-------------------------------------------------------------------------------
\* The steps of a supervisor that runs.
Step ==
    \/ Started \/ Tick \/ TimeoutDue \/ SaveEscalated \/ NoTimeout \/ StayBlocked
    \/ NoStop \/ InvariantsPass \/ InvariantBlocks \/ InvariantIncident
    \/ \E ok \in BOOLEAN :
          TimedOut(ok) \/ StopOnFlag(ok) \/ InvariantHalts(ok) \/ RunCompletion(ok)
    \/ Evaluate \/ Reconcile \/ MarkBlocked
    \/ WriteMarker \/ AlreadyCompleted \/ NotComplete

Next ==
    \/ Startup \/ Step \/ Leave \/ Crash
    \/ RequestStop \/ OperatorClears \/ WorkerFinishes \/ ClockTicks

Spec == Init /\ [][Next]_vars

\* A supervisor that runs keeps running, and one that ended is started again.
Fairness == WF_vars(Step) /\ WF_vars(Startup)

FairSpec == Spec /\ Fairness

-------------------------------------------------------------------------------
\* Properties.

Labels == {"down", "startup", "idle", "timeout", "save", "timed_out", "blocked",
           "flag", "invariants", "evaluate", "reconcile", "mark", "completion",
           "marker"}
Escalations == [blocked : BOOLEAN, since : 0 .. MaxTime, escalated : BOOLEAN]

\* The type of the state.
TypeOK ==
    /\ pc \in Labels
    /\ observe \in BOOLEAN /\ valid \in BOOLEAN
    /\ copy \in Escalations /\ escalation \in Escalations
    /\ at \in 0 .. MaxTime /\ now \in 0 .. MaxTime
    /\ result \in {"none", "RUNNING", "BLOCKED", "STOPPED", "COMPLETED"}
    /\ stopFlag \in BOOLEAN /\ marker \in BOOLEAN /\ orphan \in BOOLEAN /\ done \in BOOLEAN
    /\ worker \in {"running", "stopped"}
    /\ opened \in 0 .. MaxIncidents
    /\ crashes \in 0 .. MaxCrashes /\ failures \in 0 .. MaxStopFailures
    /\ asked \in {"no", "starting", "started"}
    /\ fires \in Nat /\ finishes \in Nat

\* A run that ended STOPPED left no workers running, whichever of the two ways
\* (stop flag, timeout of a blocked run) it took, unless it only observed.
StoppedMeansStopped ==
    pc = "down" /\ result = "STOPPED" /\ ~observe => worker = "stopped"

\* A blocked run times out once: whatever the operator, a restart or a crash does
\* in between, the timeout never fires twice for one block.
TimeoutFiresOnce == fires <= 1

\* The completion actions are run once in the life of a project, and once more for
\* each crash between them and the marker.
CompletionRunsOnce == finishes <= 1 + crashes

\* Neither of the two endings a restart finds half done is gone through twice: the
\* timeout of a block, the actions of a completed project.
EndingsRunOnce == TimeoutFiresOnce /\ CompletionRunsOnce

\* `stop` ends the run of a supervisor that has started.
StopEndsRun == asked = "started" ~> asked = "no"

\* `stop`, whenever it is given to a live supervisor, ends its run.
StopIsHonoured == asked # "no" ~> asked = "no"
===============================================================================
