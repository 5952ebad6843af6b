# Research agent harness: a TLA+ verification development

The research agent harness supervises long-running experiment workers of a
project: it watches them, opens an incident when they fail, repairs them with a
bounded ladder of strategies, waits for the repair to burn in, and hands the run
to a human when it may not or cannot repair. It is a Python package
(`src/src/research_harness`) whose processes coordinate through files only: a
lease, two SQLite databases and a handful of JSON and flag files. This directory
holds TLA+ models of its core, the TLC runs that check them and TLAPS proofs
about them.

Paths below are relative to `src/src/research_harness/`.

## 1. The system

### Components, their state and their operations

| component | state it keeps | operations |
|---|---|---|
| supervisor loop (`supervisor/loop.py`) | none on disk of its own; `max_ticks`, instance id | `startup`, `tick`, `run`, `shutdown` |
| project lease (`supervisor/lease.py`) | `lease.json`: instance, pid, expiry, under `flock` | `acquire`, `renew`, `release` |
| escalation (`supervisor/escalation.py`) | `escalation.json`: blocked, since, escalated | `mark_blocked`, `clear`, `check_timeout` |
| stop flag (`supervisor/stop.py`) | `.stop` | `request_stop`, `clear_stop`, `stop_requested` |
| incident engine (`incidents/engine.py`) | none; works on the two stores | `evaluate`, `_remediate`, `reconcile_orphaned_intents` |
| incident store (`incidents/store.py`) | `incidents.db`: one row per incident with its evidence, attempts and burn-in | `create`, `update`, `list_open` |
| intent store (`recovery/intent.py`) | `intents.db`: one row per recovery intent | `create_pending`, `mark_executed`, `mark_failed`, `list_orphaned_pending` |
| recovery budget (`recovery/budget.py`) | the attempts of one incident, kept in its row | `next_strategy`, `record_attempt` |
| burn-in (`verification/burn_in.py`) | the burn-in of one incident, kept in its row | `evaluate_burn_in` |
| watchdog (`watchdog/evaluator.py`) | none (it reads watermarks) | `evaluate_watchdog` |
| validity (`validity/evaluator.py`) | none | `evaluate_validity` |
| invariants (`invariants/runner.py`) | none | `evaluate_invariants` |
| reconciler (`reconciliation/engine.py`, `runtime/mutation.py`, `runtime/desired.py`, `runtime/fingerprint.py`) | the desired fingerprint file | `reconcile`, `remediate_preflight` |
| spend budget (`budget/spend.py`) | `budget.json`: nominal spend | `can_spend`, `record_spend` |
| completion (`completion/actions.py`, `completion/evaluator.py`) | `completion_actions.done` | `evaluate_completion`, `execute_completion_actions` |
| runtime adapter (`adapters/base.py`) | external: the workers | `inspect`, `restart_worker`, `relaunch`, `stop_verified`, ... |
| file-backed worker (`adapters/failing_worker.py`, `examples/failing_worker/run.py`) | `config.json`, `worker_state.json`, `checkpoint.json` | the adapter's operations, and `step`, `swap-config`, `reconcile`, `init` of its CLI |
| experiment plan (`experiment/plan.py`, `cli.py` `init`, `emit_plan.py`) | `experiment/plan.json`, `experiment/schedule.csv` | `init --with-experiment`, `emit_plan.py`, `load_plan_for_contract`, `resolve_schedule_hash_for_contract` |
| contract (`contract/loader.py`) | `contract.yaml` | `write_contract`, `load_contract` |
| ledger, results, rest of the CLI | an append-only log, result rows | not part of the control flow |

### How they interact

`research-harness run` starts a supervisor: `startup` acquires the lease, lets
the engine deal with the intents a crashed predecessor left pending, and clears
an old stop flag. Every `tick` renews the lease, then looks at the escalation
and its timeout, the stop flag, the contract's invariants, calls the engine,
marks the run blocked if the engine says so, calls the reconciler, and evaluates
completion. `research-harness stop` only writes the flag; `research-harness
status` runs the engine once more, in observe-only mode but on the same
databases and without the lease. `--observe-only` starts a supervisor that
decides everything and touches nothing but the stores. All calls are
synchronous; concurrency is between processes, and every write may be the last
before a crash.

### What is hard in it

* *Crashes between two writes.* A remediation is five effects in two databases
  and a runtime; a block is two effects in a database and a file; completion is
  an action and a marker. Each gap has a state that the next start has to cope
  with.
* *Processes without the lease.* `status` writes whole rows it read earlier;
  an observe-only supervisor whose predecessor's lease ran out overlaps with an
  acting one; `release` handles the lease file after it unlocked it.
* *Order inside a tick.* Escalation before stop flag, orphaned intents before the
  escalation, timeout saved before the stop is tried.
* *Files without locks.* The file-backed worker's operations load a whole file and
  write it back whole; a command of its CLI, the supervisor's recovery and a reconcile
  pass may each do so between another's load and write, and every write passes through
  a truncated file. `init` and `emit_plan.py` rewrite plan and schedule while a tick
  reads one and then the other.
* *Reports instead of observations.* A strategy's own report of success feeds
  burn-in; a slow operation hides bad health.

The list with lines is `hazards` in `PROJECT.json`.

### What makes each component correct

* engine and stores: one open incident at a time; no repair without a recorded
  intent, none of a blocked or closed incident; attempts accounted for and within
  the budget; closed only after burn-in; nothing recorded is lost; every intent
  settles; a bad worker is recovered or the run blocked.
* lease: nobody overwrites a live lease; release leaves nothing of one's own; no
  call hangs.
* supervisor: STOPPED means stopped; a timeout fires once per block; completion
  actions run once; a stop ends the run.
* reconciler and spend: spend never beyond the ceiling and every relaunch paid for;
  no relaunch without a preflight that is READY after the last repair; what nobody
  promoted is not deployed in a research-semantic field; an observe-only pass plans
  only; a stale runtime ends current or the run blocked.
* file-backed worker: completed units are never taken back by a restart, wherever a
  process died; a verified stop holds; a staged configuration is deployed in the end;
  the supervisor's own pass fails for somebody else's fault only. All of it up to
  updates that two processes overwrote, which the code does not prevent.
* experiment: the plan and the schedule a run was completed under belong together;
  files in order lead to completion, whatever they went through before.
* evaluators: no stall is reported of a worker that was not quiet, and every worker
  that hangs is reported, whatever its adapter says of its progress; a run completes
  only under a sealed plan and, if so required, with its validity checks passed.

## 2. Modules

| module | what it is |
|---|---|
| `RecoveryBudget` | `recovery/budget.py` as operators on a sequence of attempts |
| `BurnIn` | `verification/burn_in.py` as operators on the burn-in record |
| `IncidentEngine` | the engine, both stores and the part of the loop around them; EXTENDS the two above |
| `IncidentLifecycle` | the abstract specification of an incident; `IncidentEngine` implements it |
| `Lease` | the lease protocol, one step per system call |
| `Supervisor` | the loop, escalation, stop flag and completion; engine and reconciler by outcome |
| `Reconciler` | the reconciler with its preflight, the desired fingerprint and the spend budget |
| `Evaluators` | watchdog, validity and completion, and the moments at which a tick reads what they judge |
| `FailingWorker` | the file-backed worker, its CLI and the supervisor's calls, one step per file access |
| `Experiment` | contract, plan and schedule between the tools that write them and the tick that reads them |
| `IncidentEngineProofs`, `IncidentEngineSafety`, `LeaseProofs`, `SupervisorProofs`, `ReconcilerProofs`, `EvaluatorsProofs`, `FailingWorkerProofs`, `ExperimentProofs` | theorems |
| `MCIncidentEngine`, `MCLease`, `MCSupervisor`, `MCReconciler`, `MCEvaluators`, `MCFailingWorker`, `MCExperiment` | constants for TLC |

**IncidentEngine.** `incidents` and `intents` are the rows of the two databases in
creation order, `escalated` is the one bit of `escalation.json` the engine's
run depends on, `holder` the process the lease names. A process has a program
counter and locals: the contract's authority (read at the start), the
observation of the tick, its *copy* of the incident's row and the remediation in
hand. Each step is one SQLite transaction or one adapter call, so `evaluate` is
the path `list`, `decide`, then `fill`/`remediate`/`close` and `_remediate` is
`CreateIntent`, `ExecuteStrategy`, `MarkIntent`, `SaveRemediation`. `store.update`
writes the whole row from the process's copy (`Save`), which is what makes the
interleaving with `status` interesting. The three modes of a process are the
three ways the code runs the engine. Evidence digests are abstract: the engine
hashes only fields written when the incident was opened, so the digest of an
incident is the incident. The worker is the environment; a strategy may repair
it or not, and may report success either way (the fallback of
`_execute_strategy` always does). The validity of a tick is any of its three
outcomes. The lease here has one holder and passes on when its holder died, or
with `LeaseExpires` at any time; `Lease` shows when the real file allows that.
The incidents `_record_invariant_incident` opens and the relaunches of the
reconciler are left out of this module.

**Lease.** `path` is the directory entry, `files` the inodes, `locks` their
`flock`s. `acquire` and `renew` are `open`, `flock`, read and decide (`Take`,
`Refuse`), `ftruncate`, `write`, unlock; `release` is `exists`, `open`, `flock`,
clear, unlock, `stat`, `unlink`, the last two without the lock. A crash drops the
lock wherever it falls. `held` remembers what a process was granted.

**Supervisor.** One supervisor at a time. A tick is cut where another process or
a crash can matter: between the two reads of `escalation.json`, between the load
and the save in `check_timeout`, and after each effect. `stop_verified` may fail
(`MaxStopFailures`). An observe-only run never stops anything. `asked` remembers
in which part of a supervisor's life a stop was requested.

**Reconciler.** A process is a supervisor, which loads `budget.json` when it is
built, acquires the lease and makes a pass per tick, or one `reconcile` command,
which has neither lease nor budget. A pass is `compare` (inspect, select the action,
authority, budget, observe-only), the preflight and its repairs, `sync`, `relaunch`,
`pay` and `confirm`. `desired` and `spend` are the two files; `loc[p].cache` is what
the process's tracker believes it spent; `running` and `repository` are what the
adapter reports. What the adapter answers to a preflight, whether a repair works and
rewrites the repository, and whether a relaunch has an effect are all open. Spend
counts actions instead of dollars. `promote` and edits of the repository interleave
with every step. `promoted`, `relaunched` and `prepared` are history. The other
reasons a tick may end before its reconciliation are in `Supervisor`.

**Evaluators.** A tick takes its clock, calls `inspect`, then `progress_context`, then
the evaluators, and inspects again for completion; the worker goes on between any two
of these (`Advance`, `Stops`, `SlowOperation`, `Elapse`). Which watermarks come with
which call is a constant (`InContext`). Times in a tick are relative to its clock, and
the worker's progress is kept as an age, so that no clock runs out. An adapter stamps
progress with durable times or with the clock of the reading (`stamping`). The
operators follow `evaluate_watchdog`, `evaluate_validity` and `evaluate_completion`;
what adapter, plan file and custom checks may say besides is open
(`WatchdogResults`, `ValidityResults`). The other modules take the outcome of the
evaluators as given: `Bad` and `ValidityOutcomes` in `IncidentEngine`, a boolean in
`Supervisor`. `overdue` is history.

**FailingWorker.** `config`, `state` and `ckpt` are the three files, `torn` the set of
those a reader would find truncated. `pc` and `loc` are the processes: the supervisor,
which ticks (recover if the watchdog says so, then a reconcile pass with its preflight)
or stops, and commands, each one call of the example's CLI or `preflight --repair`. An
adapter method is a sequence of loads and writes with the label it returns to
(`Call`, `Returned`); every load of something that is written back is a step, and a
write is two, truncation and text. What is only compared is read in one step. A process
that reads a torn file raises and is over. The worker has no process of its own: `step`
does units. `relaunch` is nested, as in the code: it saves the config and then calls
`restart_worker`. Its reset of the pending hash is never written, so the model has none.
Timestamps, the effect and the restart count are left out; that a restart may come for a
worker that only looks stalled is `Recover`'s freedom. The supervisor may always act:
ticks that leave a bad worker alone (an incident blocked, a budget spent, no authority)
are in `IncidentEngine`, the refusals of a pass for authority and spend
(`reconciliation/engine.py:106`) in `Reconciler`; `WorkerSettles` and `OnlyOthersBlock`
speak of a supervisor nothing of this holds up. `lost`, `orderly`, `halted` and
`disturbed` are history: a write whose copy somebody replaced since, a life with steps
only, a verified stop, a tick somebody wrote in.

**Experiment.** `schedule`, `plan` and `contract` are the files, empty between
truncation and write; `tool` is the one run of `init` or `emit_plan.py` under way, with
the hash it computed; `sup` is the supervisor and what its tick has read. A content is
its own hash, so a plan is `Sound` if what it records as its hash is its body. The
analyst's edits (with or without a new hash), the worker's units and the plan hash its
adapter reports from its launch are external. The tick reads the plan and then the
schedule, judges both and completes; only `init` by a dead process and edits by hand
are outside `orderly`.

## 3. Runs

| run | question | size |
|---|---|---|
| `engine` | One supervisor, two incidents, a crash anywhere, restarts with or without authority, an operator who unblocks, any validity: stores consistent, attempts accounted for, nothing executed without its intent, and `ImplementsLifecycle` | about 1.5 min |
| `engine_status` | A `status` command interleaved with the supervisor: `ClosedAfterBurnIn`, `IntentsCoverExecutions` | 1 862 000 states, about 1 min |
| `engine_observer` | An observe-only supervisor that overlaps with the acting one after a lease ran out: `AttemptsWithinBudget`, `ObserversHandsOff` | about 2 min |
| `engine_live` | `IntentsSettle`, `BadWorkerIsHandled` under fairness and one crash | seconds |
| `lease` | Two supervisors, three inodes, crash and expiry: invariants and `CallsReturn` | 19 000 states |
| `supervisor` | Acting and observe-only runs, stops, operator, a failed stop, a crash: invariants and `StopEndsRun` | 465 000 states |
| `reconciler` | A supervisor and a command, one promotion or edit, repairs, a crash: invariants, action properties and `StaleIsHandled` | 328 000 states, under 1 min |
| `evaluators` | Readings at different moments of a worker that goes on, stops or lies: `NoFalseStall`, `CompletionIsEarned`, `HungIsReported` | 133 000 states, under 1 min |
| `worker` | A supervisor and two commands over two units (one crashes, one stalls), two hashes, a crash anywhere: what survives lost updates, and `WorkerSettles` | 652 000 states, about 1.5 min |
| `experiment` | Two tools, two edits by hand, one crash, plans of one or two units: `ScheduleFitsPlan`, `IntactCompletes` | 1 056 000 states, about 70 s |
| `lease_exclusive`, `supervisor_stop` | a documented property the code violates (section 5) | seconds each |

A theorem without a run of its own: `NoRepairOfBlocked` follows from
`PendingIntentIsLive` and `WriteBeforeExecute`, `HolderIsNamed` carries the proof of
`OneHolderPerFile`.

**Bounds.** Two incidents let one close and the next open; three intents are one
more than the attempts of an incident, so that an attempt can be lost and
repeated. `MaxAttempts = 2` with `MaxIdentical = 1` walks the ladder to its
second rung and past the ceiling. One unit and one instant of the clock decide
both burn-in conditions, in either order. One crash is enough for every single
gap; two crashes differ only in the counters the accounting invariants already
contain, and the proofs have no bound on them. When `MaxIncidents` or
`MaxIntents` is used up the engine stops; a liveness property says so
(`OutOfRows`). In `Lease` each create uses a fresh inode, so `Files` bounds how
often the path is re-created; three supervisors are needed for two leases at
once, which is the violation run; the theorems hold for any number. In `Reconciler`
one field needs a relaunch and one is research-semantic, with two values each: what
runs at first is fixed, since the values are interchangeable, and repository and
desired file start with any. One change by an operator or an editor is enough to
cross any step of a pass; two rounds of preflight (the code's default is 3) let a
repair be followed by a second look and by the limit; `Ceiling = 2` pays for one
relaunch, a restart and another, and refuses the third. In `Evaluators` one watermark
comes with each reading; one unit of time can pass anywhere within a tick, which
separates every pair of readings, and ages are told apart up to one more than
`stall_after` and that unit need. In `FailingWorker` two units let one crash the worker
and the next stall it, and a step of two cross the first; two commands beside the
supervisor are enough for a copy to be overwritten twice, and for a swap or an
authorization to fall between any two accesses of a pass; the theorems hold for any
number of commands, units and crashes. In `Experiment` two sizes tell a schedule from
one that does not fit, two tools let one overwrite the other's files during a tick, and
two edits break a file and mend it.

**Fairness.** `WF(Step)` per process: the code is sequential, nothing in it waits
but `flock` and the tick's sleep. `WF(Startup)`: something runs `research-harness
run` again when a supervisor ended; this is an assumption about the operator or
scheduler, stated where it is used, and only liveness runs use it. `SF(Lock)`: a
waiter of `flock` is served in the end. In `Reconciler` `WF(Build)` plays the part of
`WF(Startup)`. In `Evaluators` time passes (`WF(Elapse)`) and the run goes on ticking
(`WF(Tick)`); a new start after its end is not assumed. In `FailingWorker` a command that
was started ends and the supervisor ticks on, being started again if an exception ended
it; nobody has to start a command or request a stop. In `Experiment` a tool that was
started ends, the worker completes units, and `run` is started again unless a block
waits for the operator. The worker elsewhere, the clock, crashes, `status` and the
operator have no fairness.

**Deadlock** is checked but for `Lease`, where every supervisor instance may be
gone for good (an instance id starts once), `FailingWorker`, where the supervisor may
have stopped and every command be over, and `Experiment`, which ends with the run
completed.

## 4. Proofs

All theorems are for every value of the constants that satisfies the modules'
assumptions.

* `IncidentEngineProofs`: `TypeCorrect`. `TypeInv` adds to `TypeOK` the bookkeeping
  typing needs: what a process holds by label, that a row in hand or named by an
  intent exists, that units never shrink below zero. Step lemmas
  (`ProcessStep`, `SettleStep`, ...) state what a step has to show once, and
  `TypeNext` has one step per action. `AttemptsWithinBudgetHolds` and
  `ClosedAfterBurnInHolds` hold for any mix of modes, with or without an exclusive
  lease: `RowsInv` says of every row *and of every copy in a process's hands* that its
  attempts are within the limits and its burn-in is earned, so that a stale copy, however
  late it is written over a newer row, is as good as the row; a process about to execute
  has room for one more attempt in its own copy. What a burn-in has earned are both
  halves of `burn_in.py:84`, the time and the units since the verification; the units at
  which it became stable are a history field (`unitsAtStable`), since the code keeps only
  the time.
* `IncidentEngineSafety`: what holds while the lease keeps its promise, under the weakest
  of three hypotheses that will do, each an assumption on the constants:
  - `OneLease`: the lease does not pass on while its holder lives. Observe-only
    supervisors, status commands, crashes, the worker and the operator are
    unrestricted. `ObserversHandsOffHolds`, `WriteBeforeExecuteHolds`,
    `IntentsCoverExecutionsHolds`. The inductive invariant `LeasedInv` says that whoever
    runs as a supervisor is the holder, that orphans in hand are still pending, that an
    acting supervisor knows every pending intent (`IntentInHand`), and that no copy of a
    row says CLOSED; observers and status commands may write copies as stale as they
    like, since none of this speaks of what a row says beyond that. `Covered` counts
    what ran together with what a pending intent still owes (`Unrun`). The hypothesis is
    needed: with a lease that runs out, TLC finds a run of 26 steps in which an observer,
    its status command and an acting supervisor end in the observer rewriting a row as
    CLOSED; the run `engine_observer` has two processes, for which `ObserversHandsOff`
    still holds.
  - `SupervisorsOnly`: and no status command runs, which writes without a lease.
    `OneOpenIncidentHolds`, `AttemptsAccountedHolds`, `ImplementsLifecycleHolds`.
    `SafeInv` adds that the copy of the row in a supervisor's hands agrees with the store
    in status and block, that who has found no open incident has none, and that what is
    pending is open: the rows can be relied on only when one process writes them. With a
    status command two processes can both find no open incident. `AccountInv` adds
    `Counted`: what ran, and what a pending intent still owes (`Owed`), is bounded by what
    is recorded, in flight or lost to a crash; and `CopyCounts`: the copy in hand has the
    attempts of the store, and the one just made. Only with the debt counted before it is
    run does a crash between running and marking keep the sum. The refinement of
    `IncidentLifecycle` is proved under `RefineInv == AccountInv /\ RowsInv`: one lemma per
    kind of write (`WriteRefines`, `AttemptRefines`), one step per action that writes a
    row.
  - `Exclusive`: and every process acts. `PendingIntentIsLiveHolds`,
    `NoRepairOfBlockedHolds`: an acting supervisor writes a row only when nothing is
    pending. With an observe-only supervisor the first fails in 16 steps: its startup
    pass leaves an orphan pending, and its tick blocks the incident.
* `LeaseProofs`: `LeaseTypeCorrect`, `HolderIsNamedHolds`, `OneHolderPerFileHolds`,
  `ReleaseFreesHolds`, `ExclusiveUnlessUnlinked`.
  `LeaseInv` adds that the locked part of a call owns the lock, that who is about
  to overwrite a file found no other live holder in it, and that holders run.
  `FreesInv` adds that who is in a release has open the file the path names, or is not
  named there: a file replaced since it was opened cannot bear its name.
  `ExclusiveUnlessUnlinked` bounds what the run `lease_exclusive` shows: as long as no
  unlink of `release` hits a file that another process has open or holds the lease in
  (`UnlinksUnused`), the lease is exclusive, for any number of processes, files and
  crashes. Then whoever holds or is about to holds the file at the path (`OnPath`), and a
  file has one holder; so that window is the only way to two supervisors, and `OneLease`
  is what the lease gives outside of it.
* `SupervisorProofs`: `SupervisorTypeCorrect`, `StoppedMeansStoppedHolds`,
  `TimeoutFiresOnceHolds`, `CompletionRunsOnceHolds`, `EndingsRunOnceHolds`. `TimeoutUnspent` and
  `FinishesCounted` tie the history counters to the files.
* `ReconcilerProofs`: `ReconcilerTypeCorrect` (with the spend ceiling),
  `PreflightBeforeRelaunchHolds`, `ObserversPlanOnlyHolds`,
  `OnlyPromotedSemanticsHolds`, for any number of supervisors and commands at once,
  with or without the lease, and `RelaunchesPaidHolds` for one supervisor beside any number
  of commands (`Accounted`: its tracker is what `budget.json` says; with two supervisors
  one overwrites what the other recorded). `InHand` says what a process holds by label: between
  `can_spend` and `record_spend` its own tracker has room for one action, which is
  what keeps `budget.json` within the ceiling even when two processes overwrite it;
  a READY in hand is younger than any repair; an observe-only process never gets
  past the comparison. `MoveStep` and `EndStep` state once what a step has to show.
  `SemanticInv` adds that what a process has wanted or pending was promoted too:
  without it a sync could bring back anything.
* `EvaluatorsProofs`: `EvaluatorsTypeCorrect`, `NoFalseStallHolds`,
  `CompletionIsEarnedHolds`. `ReadFaithfully` follows a watermark that was not overdue
  at the tick's clock: its age outruns its limit by no more than the tick has lasted,
  so whichever call read its stamp, the stamp is in time too. `EarnedInv` adds that
  only the last step of a run completes it, since the next tick forgets what was judged.
* `FailingWorkerProofs`: `WorkerInvariant`, and from it `WorkerTypes`, `ProgressIsKept`,
  `UnitsAreNotTakenBack`, `StopsHold`. `Fits` says by label what a process holds: as
  long as nothing was lost, a copy nobody made stale is the state on disk, and a step
  or a restart past its checkpoint access has in hand just the units the checkpoint
  has. `ProgressKept` alone says nothing of the copies, so it is not inductive: the
  write of the state keeps it only because the checkpoint was written before.
  `TurnsTaken`: while all is orderly (no command but steps of the worker, one at a time,
  and no stall) no write is based on a state replaced since. `TurnInv` says that
  `running` is lock enough: while the worker runs only a step holds its state, and while
  it does not only the supervisor does, so nobody's copy is stale.
  `OnlyOthersMakeItBlock`: a pass that no command has disturbed does not block the run.
  `TickInv` says by label how far such a pass has got: what it wants is what the
  repository says, after one repair the second preflight passes, and at the confirmation
  the config on disk is the wanted one. It assumes two preflight rounds or more; the
  default is three (`runtime/mutation.py:34`).
* `ExperimentProofs`: `ExperimentInvariant`, and from it `ExperimentTypes` and
  `ScheduleFitsThePlan`. While all is orderly, a plan on disk or in the tick's hands
  records a schedule of `planned_units` rows (`FilesFit`, `TickFits`, by the label of the
  tool); the gate then lets only a schedule with these rows pass, whichever of the two
  `init --force` had replaced in between. The schedule must not be missing meanwhile,
  since a missing one is not checked.

Every invariant and every action property that holds in a run is proved. Only
model-checked is liveness, which is out of the prover's reach, as is ENABLED:
`IntentsSettle`, `BadWorkerIsHandled`, `CallsReturn`, `StopEndsRun`, `StaleIsHandled`,
`HungIsReported`, `WorkerSettles`, `IntactCompletes`. What a recursive definition computes
for every input cannot be proved here; no module with a theorem has one.

## 5. Where code and documents disagree

Two runs end in a counterexample; `findings` in `PROJECT.json` quotes the lines.

* `lease_exclusive`: `release` unlinks a lease that was written after its unlock.
* `supervisor_stop`: a stop given during startup is erased.

More places are worth a reader's eye and have no run, most of them because no document
says plainly what should happen. Engine, supervisor and reconciler:

* a sync after repairs enlarges what has to be deployed, and the relaunch is still the
  one selected before, perhaps too weak for the new field (`reconciliation/engine.py:138`;
  `runtime/fingerprint.py:8` has "stronger actions win");
* a timestamp newer than the inspection counts as suspect, not only one equal to it, so
  honest progress between the two readings of a tick opens a `suspect_progress` incident
  (`watchdog/evaluator.py:69`; `contract/models.py:188` has "exact equality");
* with `on_violation: incident` every tick opens one more incident
  (`supervisor/loop.py:212`); the engine attends to the oldest open one, and such an
  incident is closed only if something else makes it remediated;
* whether a sync is persisted is decided when the supervisor is built
  (`supervisor/loop.py:101`); spend is a float, so three additions of 0.10 exceed a
  ceiling of 0.30 (`budget/spend.py:43`); with `oscillation_window = 2` two different
  strategies in a row are already oscillation (`recovery/budget.py:43`); without an
  explicit timestamp the disarmed path is dated by the inspection itself
  (`watchdog/evaluator.py:242`);
* an attempt lost in a crash is not counted, so an incident can be remediated more
  often than its ceiling, once per crash (`incidents/engine.py:337`); what does hold is
  `AttemptsAccounted`;
* the one timeout of a block can be spent by an observe-only run, or by a stop that
  fails (`supervisor/escalation.py:95`); the workers are then not stopped;
* `max_null_rate` and `max_error_rate` are never enforced, because no caller passes
  `null_units` or `error_units`; `slow_operation_grace` is read by nobody; the check
  `planned_units` compares a plan with itself (`validity/evaluator.py:148`);
* `on_fail: quarantine` and `discard` open an incident like `incident` does;
* a stalled phase never opens an incident by itself (`watchdog/evaluator.py:128`);
* an incident becomes VERIFIED on the strategy's own report
  (`incidents/engine.py:363`);
* a slow operation lets a VERIFIED incident become STABLE whatever the health
  (`watchdog/evaluator.py:85`);
* after a crash between storing an incident as blocked and `mark_blocked`
  (`supervisor/loop.py:245`), the incident stays blocked and the run is never
  escalated, since `evaluate` finds it blocked already;
* the completion marker is written though the workers could not be stopped, and no
  later run tries again (`completion/actions.py:40`);
* the lease is renewed at the start of a tick only (`supervisor/lease.py:88`): a tick
  longer than `ttl_seconds` acts on beside the supervisor that took the lease over;
  what then still holds is `AttemptsWithinBudget`, `ClosedAfterBurnIn` and type
  correctness, whose theorems do not assume that the lease stays;
* a slow operation has no limit in time, so a worker that declares one after the other is
  never found stalled (`watchdog/evaluator.py:85`);
* with two supervisors, one built while the other still pays and started after it
  ended, `record_spend` writes a spend computed from the old file: `RelaunchesPaid`
  fails then, so its run has one supervisor.

File-backed worker:

* a recovery that relaunches asks for no mutation preflight (`incidents/engine.py:397`),
  while `src/docs/ADAPTERS.md:122` has "Mutate/relaunch requires passing
  `mutation_preflight(action)`"; a swap
  between a reconcile pass's preflight and its relaunch likewise deploys a hash nobody
  authorized, since `relaunch` reads the pending hash again;
* a step under way writes its copy over a verified stop, and the worker runs again
  (`adapters/failing_worker.py:361`); a swap or an authorization can be overwritten the
  same way;
* after a crash between checkpoint and state the next step counts on from the state, so
  the checkpoint goes back (`adapters/failing_worker.py:355`); nothing is lost against
  the state, which is what `ProgressKept` says;
* the pending hash is cleared in memory only (`adapters/failing_worker.py:311`); it stays
  in the file and equals the config from then on;
* a torn `worker_state.json` or `config.json` stops every command, `init` included, which
  loads them first; two overlapping writes can leave the end of the longer text behind.

Experiment:

* a re-run after a crashed first `init` keeps the empty or partial schedule and seals its
  hash under the new `planned_units` (`cli.py:310`); nothing counts the rows
  (`count_schedule_rows` has no caller);
* a schedule that was deleted passes the gate, because a missing one is not hashed
  (`experiment/plan.py:184`), while `src/skills/research-harness-plan/SKILL.md:67` says that
  validity fails if the live schedule drifts;
* a plan that was changed and frozen again after outcomes, between two ticks, is noticed
  only if the adapter reports its `plan_hash`;
* `run` raises when the plan is missing or torn, `status` shows none;
* `maybe_record` has no caller, and `scientific_result_recorded` is never set.

## 6. Plan

Done, in this order: engine with its stores, lease, supervisor, reconciler with
preflight and spend, their proofs, the evaluators, the file-backed worker and the
experiment with their proofs.

What would come next:

1. The composition of `Evaluators` with `IncidentEngine`, in place of the outcomes the
   engine takes as given, and the incidents of violated invariants among the engine's.
2. `RecoveryLadder`: the budget with evidence that changes, for oscillation at
   windows 2 and more, against a reference definition.
3. `Reconciler` with two supervisors and the escalation of `Supervisor`, and an
   abstract specification of a deployment ("only what was asked for, only when ready,
   never beyond the budget") it implements.
4. Theorems: `OneOpenIncident` and the refinement with a status command beside, under the
   assumption that it does not overlap with a tick; a bound on the executions once the
   lease has passed on from a living supervisor.

## 7. Not modelled

`FakeWorker` (a test double in memory) and `FileRuntime` (reads a file others write),
the contract's parsing (its values are the constants, its field constraints their
assumptions), the ledger (an append-only log nothing reads back for a decision), the
results recorder (without a caller), runtime loader, operation assessment and
fingerprint state (read-only reports), and the CLI but for `run`, `stop`, `status`,
`promote`, `reconcile`, `init` and `preflight --repair`. SQLite transactions are taken as
atomic; so are `rename`-free small writes, except those of the lease, the file-backed
worker and the experiment, where truncation and text are two steps.
