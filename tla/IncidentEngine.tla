---------------------------- MODULE IncidentEngine ----------------------------
(***************************************************************************)
(* The incident engine (incidents/engine.py) run by harness processes over *)
(* the two SQLite stores they share: incidents.db (incidents/store.py) and *)
(* intents.db (recovery/intent.py).                                        *)
(*                                                                         *)
(* A process is a supervisor ("run"), a supervisor with --observe-only     *)
(* ("observe"), or one `research-harness status` command ("status"), which *)
(* evaluates the engine in observe-only mode without lease or intents.     *)
(* Every store transaction, every call of the runtime adapter and every    *)
(* read of either is one step, so that processes interleave between them   *)
(* and a crash may fall between any two.  The lease is abstract here: it   *)
(* has one holder, and passes on when the holder died or, if LeaseExpires, *)
(* when its ttl ran out; Lease.tla has the file protocol.              *)
(***************************************************************************)
EXTENDS RecoveryBudget, BurnIn

CONSTANTS
    Procs,              \* process slots
    Mode,               \* Mode[p] \in {"run", "observe", "status"}
    NoProc,             \* the lease has no holder
    RestartAuthority,   \* values authority.runtime_restarts may have at a start
    ValidityOutcomes,   \* what validity may report: subset of Validities
    OperatorClearing,   \* does the operator ever unblock an escalated run?
    Failures,           \* how the worker fails: subset of {"crash", "stall"}
    SlowGrace,          \* may the adapter report a slow operation in progress?
    LeaseExpires,       \* may a lease run out while its holder lives?
    MaxIncidents,       \* bound: rows of incidents.db
    MaxIntents,         \* bound: rows of intents.db
    MaxUnits,           \* bound: completed units of the worker
    MaxTime,            \* bound: the clock
    MaxCrashes          \* bound: process crashes

Validities == {"ok", "incident", "block"}
Incidents == 1 .. MaxIncidents
Intents == 1 .. MaxIntents
Time == 0 .. MaxTime
NoIncident == 0
NoIntent == 0

ASSUME EngineAssumption ==
    /\ Mode \in [Procs -> {"run", "observe", "status"}]
    /\ NoProc \notin Procs
    /\ RestartAuthority \subseteq BOOLEAN
    /\ ValidityOutcomes \subseteq Validities
    /\ Failures \subseteq {"crash", "stall"}
    /\ OperatorClearing \in BOOLEAN /\ SlowGrace \in BOOLEAN /\ LeaseExpires \in BOOLEAN
    /\ MaxIncidents \in Nat /\ MaxIntents \in Nat
    /\ MaxUnits \in Nat /\ MaxTime \in Nat /\ MaxCrashes \in Nat

VARIABLES
    incidents,  \* incidents.db: one row per incident, in opening order
    intents,    \* intents.db: one row per intent, in creation order
    escalated,  \* escalation.json says blocked
    worker,     \* external: the runtime the adapter inspects and restarts
    now,        \* the wall clock
    holder,     \* which process the lease names
    pc,         \* where each process is
    loc,        \* its local variables
    crashes,    \* how many crashes happened (bounds the model)
    executed    \* history: per incident, recovery strategies executed for it

vars == <<incidents, intents, escalated, worker, now, holder, pc, loc,
          crashes, executed>>
stores == <<incidents, intents, escalated>>

NewRow == [status |-> "NONE", symptom |-> "none", openedAt |-> 0,
           attempts |-> <<>>, remediated |-> FALSE, burnIn |-> InitialBurnIn,
           blocked |-> FALSE]

NewIntent == [status |-> "NONE", incident |-> NoIncident, strategy |-> NoStrategy]

\* auth: the contract read at the start; todo: orphaned intents still to do;
\* obs, at: what the tick observed and when; id, row: the incident in hand and
\* the copy of its row; strategy, intent, ok: the remediation in hand.
NoObs == [health |-> "HEALTHY", stalled |-> FALSE, slow |-> FALSE, units |-> 0]
IdleLoc == [auth |-> FALSE, todo |-> {}, obs |-> NoObs, validity |-> "ok", at |-> 0,
            id |-> NoIncident, row |-> NewRow, strategy |-> NoStrategy,
            intent |-> NoIntent, ok |-> FALSE]

Init ==
    /\ incidents = [i \in Incidents |-> NewRow]
    /\ intents = [k \in Intents |-> NewIntent]
    /\ escalated = FALSE
    /\ worker = NoObs
    /\ now = 0
    /\ holder = NoProc
    /\ pc = [p \in Procs |-> "down"]
    /\ loc = [p \in Procs |-> IdleLoc]
    /\ crashes = 0
    /\ executed = [i \in Incidents |-> 0]

-------------------------------------------------------------------------------
\* Reading the observation.

\* Mutant: --observe-only is ignored.
ObserverActs(p) == Mode[p] = "status"
ObserveOnly(p) == Mode[p] # "run"
Supervisor(p) == Mode[p] # "status"

\* watchdog.should_open_incident: a slow operation in progress hides everything.
Bad(obs) == ~obs.slow /\ (obs.health = "UNHEALTHY" \/ obs.stalled)
HealthOk(obs) == obs.health = "HEALTHY"
ProgressOk(obs) == obs.slow \/ ~obs.stalled

OpenIncidents == {i \in Incidents : incidents[i].status = "OPEN"}
Fresh(table, ids) == {i \in ids : table[i].status = "NONE"}
IsFirst(i, S) == i \in S /\ \A j \in S : i <= j

\* Mutant: the wrong status is listed.
ListsExecuted == {k \in Intents : intents[k].status = "EXECUTED"}
OrphanedPending == {k \in Intents : intents[k].status = "PENDING"}

\* Mutant: every field is excluded from the digest.
DigestOfNothing(i) == 0

\* evidence_digest: hashes only what was written when the incident was opened.
EvidenceDigest(i) == i

SetLoc(p, changes) == loc' = [loc EXCEPT ![p] = changes]
Goto(p, label) == pc' = [pc EXCEPT ![p] = label]

\* The tick is over.
EndTick(p) ==
    /\ Goto(p, "done")
    /\ SetLoc(p, [IdleLoc EXCEPT !.auth = loc[p].auth])

\* Supervisor.run leaves its loop: shutdown releases the lease it still names.
Exit(p) ==
    /\ Goto(p, "down")
    /\ SetLoc(p, IdleLoc)
    /\ holder' = IF holder = p THEN NoProc ELSE holder

-------------------------------------------------------------------------------
\* Supervisor.startup and reconcile_orphaned_intents.

\* mark_executed or mark_failed.  Mutant: a failed strategy leaves its intent as is.
FailureUnmarked(ok) == IF ok THEN "EXECUTED" ELSE "PENDING"
Settled(ok) == IF ok THEN "EXECUTED" ELSE "FAILED"

LeaseFree == holder \in Procs => pc[holder] = "down"

Startup(p) ==
    /\ Supervisor(p)
    /\ pc[p] = "down"
    /\ LeaseFree \/ LeaseExpires
    /\ holder' = p
    /\ \E auth \in RestartAuthority :
          SetLoc(p, [IdleLoc EXCEPT !.auth = auth, !.todo = OrphanedPending])
    /\ Goto(p, "orphans")
    /\ UNCHANGED <<stores, worker, now, crashes, executed>>

NextOrphan(p, k) == [loc[p] EXCEPT !.todo = @ \ {k}, !.intent = NoIntent]

OrphansDone(p) ==
    /\ pc[p] = "orphans" /\ loc[p].todo = {}
    /\ Goto(p, "idle")
    /\ UNCHANGED <<stores, worker, now, holder, loc, crashes, executed>>

\* No authority: the intent fails at once, then the incident is marked blocked.
OrphanRefused(p, k) ==
    /\ pc[p] = "orphans" /\ IsFirst(k, loc[p].todo) /\ ~loc[p].auth
    /\ LET i == intents[k].incident IN
          SetLoc(p, [loc[p] EXCEPT !.intent = k, !.id = i, !.row = incidents[i]])
    /\ intents' = [intents EXCEPT ![k].status = "FAILED"]
    /\ Goto(p, "orphan_block")
    /\ UNCHANGED <<incidents, escalated, worker, now, holder, crashes, executed>>

OrphanBlock(p) ==
    /\ pc[p] = "orphan_block"
    /\ incidents' = [incidents EXCEPT ![loc[p].id] = [loc[p].row EXCEPT !.blocked = TRUE]]
    /\ SetLoc(p, NextOrphan(p, loc[p].intent))
    /\ Goto(p, "orphans")
    /\ UNCHANGED <<intents, escalated, worker, now, holder, crashes, executed>>

OrphanObserved(p, k) ==
    /\ pc[p] = "orphans" /\ IsFirst(k, loc[p].todo) /\ loc[p].auth /\ ObserveOnly(p)
    /\ SetLoc(p, NextOrphan(p, k))
    /\ UNCHANGED <<stores, worker, now, holder, pc, crashes, executed>>

\* What a recovery strategy may do to the worker and report.  External: an
\* adapter may report success without effect (the fallback of _execute_strategy
\* reports success whatever happened), and a restart may lose unsaved units.
StrategyRuns(i, ok) ==
    /\ executed' = [executed EXCEPT ![i] = @ + 1]
    /\ \/ worker' = worker
       \/ /\ ok
          /\ \E units \in 0 .. worker.units :
                worker' = [NoObs EXCEPT !.units = units]

OrphanExecute(p, k) ==
    /\ pc[p] = "orphans" /\ IsFirst(k, loc[p].todo) /\ loc[p].auth /\ ~ObserveOnly(p)
    /\ \E ok \in BOOLEAN :
          /\ StrategyRuns(intents[k].incident, ok)
          /\ SetLoc(p, [loc[p] EXCEPT !.intent = k, !.ok = ok])
    /\ Goto(p, "orphan_mark")
    /\ UNCHANGED <<stores, now, holder, crashes>>

OrphanMark(p) ==
    /\ pc[p] = "orphan_mark"
    /\ intents' = [intents EXCEPT ![loc[p].intent].status = Settled(loc[p].ok)]
    /\ SetLoc(p, NextOrphan(p, loc[p].intent))
    /\ Goto(p, "orphans")
    /\ UNCHANGED <<incidents, escalated, worker, now, holder, crashes, executed>>

-------------------------------------------------------------------------------
\* Supervisor.tick up to the evaluation, and the status command.

\* The lease is gone: the tick ends blocked, without an escalation.
LeaseLost(p) ==
    /\ Supervisor(p) /\ pc[p] = "idle" /\ holder # p
    /\ Exit(p)
    /\ UNCHANGED <<stores, worker, now, crashes, executed>>

\* An escalated run goes no further.
StayBlocked(p) ==
    /\ Supervisor(p) /\ pc[p] = "idle" /\ holder = p /\ escalated
    /\ Exit(p)
    /\ UNCHANGED <<stores, worker, now, crashes, executed>>

Inspect(p, auth) ==
    /\ Goto(p, "list")
    /\ \E validity \in ValidityOutcomes :
          SetLoc(p, [IdleLoc EXCEPT !.auth = auth, !.obs = worker, !.at = now,
                                    !.validity = validity])
    /\ UNCHANGED <<stores, worker, now, holder, crashes, executed>>

Tick(p) ==
    /\ Supervisor(p) /\ pc[p] = "idle" /\ holder = p /\ ~escalated
    /\ Inspect(p, loc[p].auth)

Status(p) ==
    /\ ~Supervisor(p) /\ pc[p] = "down"
    /\ \E auth \in RestartAuthority : Inspect(p, auth)

-------------------------------------------------------------------------------
\* IncidentEngine.evaluate.

\* list_open: the oldest open incident is the one in hand, if there is one.
ListOpen(p) ==
    /\ pc[p] = "list"
    /\ \/ OpenIncidents = {} /\ UNCHANGED loc
       \/ \E i \in Incidents :
             /\ IsFirst(i, OpenIncidents)
             /\ SetLoc(p, [loc[p] EXCEPT !.id = i, !.row = incidents[i]])
    /\ Goto(p, "decide")
    /\ UNCHANGED <<stores, worker, now, holder, crashes, executed>>

\* Mutant: blocked incidents are passed over.
NoneUnblocked(p) == loc[p].id = NoIncident \/ loc[p].row.blocked
NoneOpen(p) == loc[p].id = NoIncident

Blocking(p) == loc[p].validity = "block"

\* Mutant: a verified recovery already counts as stable.
VerifiedIsEnough(p) == loc[p].row.burnIn.level \in {"VERIFIED", "STABLE"}
Stable(p) == loc[p].row.burnIn.level = "STABLE"

\* store.update: the whole row is overwritten with this process's copy.
Save(p, row) ==
    /\ incidents' = [incidents EXCEPT ![loc[p].id] = row]
    /\ SetLoc(p, [loc[p] EXCEPT !.row = row])

\* After a blocked evaluation a supervisor marks the escalation.
Blocked(p) == Goto(p, IF Supervisor(p) THEN "escalate" ELSE "down")

BlockOpenIncident(p) ==
    /\ pc[p] = "decide" /\ ~NoneOpen(p) /\ Blocking(p)
    /\ Save(p, [loc[p].row EXCEPT !.blocked = TRUE])
    /\ Blocked(p)
    /\ UNCHANGED <<intents, escalated, worker, now, holder, crashes, executed>>

Symptom(p) ==
    IF Blocking(p) THEN "validity_blocked"
    ELSE IF Bad(loc[p].obs) THEN "watchdog" ELSE "validity_failed"

OpenIncident(p, i) ==
    /\ pc[p] = "decide" /\ NoneOpen(p)
    /\ Blocking(p) \/ Bad(loc[p].obs) \/ loc[p].validity = "incident"
    /\ IsFirst(i, Fresh(incidents, Incidents))
    /\ LET row == [NewRow EXCEPT !.status = "OPEN", !.openedAt = now,
                                 !.symptom = Symptom(p)]
       IN  /\ incidents' = [incidents EXCEPT ![i] = row]
           /\ SetLoc(p, [loc[p] EXCEPT !.id = i, !.row = row])
    /\ Goto(p, "fill")
    /\ UNCHANGED <<intents, escalated, worker, now, holder, crashes, executed>>

\* The second write of _open_incident; only a watchdog symptom is remediated.
FillIncident(p) ==
    /\ pc[p] = "fill"
    /\ incidents' = [incidents EXCEPT ![loc[p].id] = loc[p].row]
    /\ \/ loc[p].row.symptom = "watchdog" /\ Goto(p, "remediate") /\ UNCHANGED loc
       \/ loc[p].row.symptom = "validity_blocked" /\ Blocked(p) /\ UNCHANGED loc
       \/ loc[p].row.symptom = "validity_failed" /\ EndTick(p)
    /\ UNCHANGED <<intents, escalated, worker, now, holder, crashes, executed>>

MayRemediate(p) == Bad(loc[p].obs) /\ ~Stable(p) /\ ~loc[p].row.blocked

StartRemediation(p) ==
    /\ pc[p] = "decide" /\ ~NoneOpen(p) /\ ~Blocking(p) /\ MayRemediate(p)
    /\ Goto(p, "remediate")
    /\ UNCHANGED <<stores, worker, now, holder, loc, crashes, executed>>

\* Nothing to do: all is well, or the open incident is blocked already.
Quiet(p) ==
    /\ pc[p] = "decide" /\ ~Blocking(p)
    /\ IF NoneOpen(p)
       THEN ~Bad(loc[p].obs) /\ loc[p].validity = "ok"
       ELSE Bad(loc[p].obs) /\ ~Stable(p) /\ loc[p].row.blocked
    /\ EndTick(p)
    /\ UNCHANGED <<stores, worker, now, holder, crashes, executed>>

AdvanceBurnIn(p) ==
    /\ pc[p] = "decide" /\ ~NoneOpen(p) /\ ~Blocking(p)
    /\ ~Bad(loc[p].obs) \/ Stable(p)
    /\ LET obs    == loc[p].obs
           burnIn == EvaluateBurnIn(loc[p].row.burnIn, obs.units,
                                    HealthOk(obs) /\ ProgressOk(obs),
                                    loc[p].at, loc[p].row.remediated)
       IN  /\ incidents' = [incidents EXCEPT ![loc[p].id] =
                               [loc[p].row EXCEPT !.burnIn = burnIn]]
           /\ IF burnIn.level = "STABLE"
              THEN Goto(p, "close") /\ SetLoc(p, [loc[p] EXCEPT !.row.burnIn = burnIn])
              ELSE EndTick(p)
    /\ UNCHANGED <<intents, escalated, worker, now, holder, crashes, executed>>

Closed(row) == [row EXCEPT !.status = "CLOSED"]

CloseIncident(p) ==
    /\ pc[p] = "close"
    /\ IF ObserveOnly(p)
       THEN UNCHANGED incidents
       ELSE incidents' = [incidents EXCEPT ![loc[p].id] = Closed(loc[p].row)]
    /\ EndTick(p)
    /\ UNCHANGED <<intents, escalated, worker, now, holder, crashes, executed>>

\* A supervisor goes on to its next tick, a status command exits.
NextTick(p) ==
    /\ pc[p] = "done"
    /\ Goto(p, IF Supervisor(p) THEN "idle" ELSE "down")
    /\ UNCHANGED <<stores, worker, now, holder, loc, crashes, executed>>

\* run() was given max_ticks.
Leave(p) ==
    /\ Supervisor(p) /\ pc[p] = "done"
    /\ Exit(p)
    /\ UNCHANGED <<stores, worker, now, crashes, executed>>

-------------------------------------------------------------------------------
\* IncidentEngine._remediate.

Decision(p) ==
    IF loc[p].auth
    THEN NextStrategy(loc[p].row.attempts, EvidenceDigest(loc[p].id),
                      loc[p].at - loc[p].row.openedAt)
    ELSE NoStrategy

RefuseRemediation(p) ==
    /\ pc[p] = "remediate" /\ Decision(p) = NoStrategy
    /\ Save(p, [loc[p].row EXCEPT !.blocked = TRUE])
    /\ Blocked(p)
    /\ UNCHANGED <<intents, escalated, worker, now, holder, crashes, executed>>

WouldRemediate(p) ==
    /\ pc[p] = "remediate" /\ Decision(p) # NoStrategy /\ ObserveOnly(p)
    /\ EndTick(p)
    /\ UNCHANGED <<stores, worker, now, holder, crashes, executed>>

\* Mutant: the intent is created as executed already.
MarkedEarly(p) == [status |-> "EXECUTED", incident |-> loc[p].id, strategy |-> Decision(p)]
PendingIntent(p) == [status |-> "PENDING", incident |-> loc[p].id, strategy |-> Decision(p)]

CreateIntent(p, k) ==
    /\ pc[p] = "remediate" /\ Decision(p) # NoStrategy /\ ~ObserveOnly(p)
    /\ IsFirst(k, Fresh(intents, Intents))
    /\ intents' = [intents EXCEPT ![k] = PendingIntent(p)]
    /\ SetLoc(p, [loc[p] EXCEPT !.intent = k, !.strategy = Decision(p)])
    /\ Goto(p, "execute")
    /\ UNCHANGED <<incidents, escalated, worker, now, holder, crashes, executed>>

\* The strategy runs; the attempt is recorded in the copy of the row only.
ExecuteStrategy(p) ==
    /\ pc[p] = "execute"
    /\ \E ok \in BOOLEAN :
          /\ StrategyRuns(loc[p].id, ok)
          /\ SetLoc(p, [loc[p] EXCEPT !.ok = ok,
                !.row.attempts = RecordAttempt(@, loc[p].strategy, EvidenceDigest(loc[p].id)),
                !.row.remediated = TRUE])
    /\ Goto(p, "mark")
    /\ UNCHANGED <<stores, now, holder, crashes>>

MarkIntent(p) ==
    /\ pc[p] = "mark"
    /\ intents' = [intents EXCEPT ![loc[p].intent].status = Settled(loc[p].ok)]
    /\ Goto(p, "save")
    /\ UNCHANGED <<incidents, escalated, worker, now, holder, loc, crashes, executed>>

\* Burn-in starts over from what the runtime now reports; success counts as
\* verified.
SaveRemediation(p) ==
    /\ pc[p] = "save"
    /\ incidents' = [incidents EXCEPT ![loc[p].id] = [loc[p].row EXCEPT
          !.burnIn = EvaluateBurnIn(InitialBurnIn, worker.units, loc[p].ok,
                                    loc[p].at, loc[p].ok)]]
    /\ EndTick(p)
    /\ UNCHANGED <<intents, escalated, worker, now, holder, crashes, executed>>

\* EscalationManager.mark_blocked, then the run loop ends.
MarkBlocked(p) ==
    /\ pc[p] = "escalate"
    /\ escalated' = TRUE
    /\ Exit(p)
    /\ UNCHANGED <<incidents, intents, worker, now, crashes, executed>>

-------------------------------------------------------------------------------
\* Crashes and the environment.

\* The process dies wherever it is; its lease still names it.
Crash(p) ==
    /\ pc[p] # "down" /\ crashes < MaxCrashes
    /\ crashes' = crashes + 1
    /\ Goto(p, "down")
    /\ SetLoc(p, IdleLoc)
    /\ UNCHANGED <<stores, worker, now, holder, executed>>

\* EscalationManager.clear: the operator unblocks the run.
OperatorClears ==
    /\ OperatorClearing /\ escalated
    /\ escalated' = FALSE
    /\ UNCHANGED <<incidents, intents, worker, now, holder, pc, loc, crashes, executed>>

\* External: the worker advances, fails, recovers by itself or reports a slow
\* operation.
WorkerChanges ==
    \/ /\ worker.health = "HEALTHY" /\ ~worker.stalled /\ worker.units < MaxUnits
       /\ worker' = [worker EXCEPT !.units = @ + 1]
    \/ /\ "crash" \in Failures /\ worker.health = "HEALTHY"
       /\ worker' = [worker EXCEPT !.health = "UNHEALTHY"]
    \/ /\ "stall" \in Failures /\ ~worker.stalled
       /\ worker' = [worker EXCEPT !.stalled = TRUE]
    \/ /\ worker.health = "UNHEALTHY" \/ worker.stalled
       /\ worker' = [worker EXCEPT !.health = "HEALTHY", !.stalled = FALSE]
    \/ SlowGrace /\ worker' = [worker EXCEPT !.slow = ~@]

Worker ==
    /\ WorkerChanges
    /\ UNCHANGED <<stores, now, holder, pc, loc, crashes, executed>>

ClockTicks ==
    /\ now < MaxTime
    /\ now' = now + 1
    /\ UNCHANGED <<stores, worker, holder, pc, loc, crashes, executed>>

-------------------------------------------------------------------------------
\* The steps of a process that runs, in program order.
Step(p) ==
    \/ \E k \in Intents : OrphanRefused(p, k) \/ OrphanObserved(p, k) \/ OrphanExecute(p, k)
    \/ OrphanBlock(p) \/ OrphanMark(p) \/ OrphansDone(p)
    \/ LeaseLost(p) \/ StayBlocked(p) \/ Tick(p) \/ ListOpen(p)
    \/ \E i \in Incidents : OpenIncident(p, i)
    \/ BlockOpenIncident(p) \/ FillIncident(p)
    \/ StartRemediation(p) \/ Quiet(p) \/ AdvanceBurnIn(p) \/ CloseIncident(p)
    \/ NextTick(p)
    \/ \E k \in Intents : CreateIntent(p, k)
    \/ RefuseRemediation(p) \/ WouldRemediate(p)
    \/ ExecuteStrategy(p) \/ MarkIntent(p) \/ SaveRemediation(p) \/ MarkBlocked(p)

Process(p) == Startup(p) \/ Status(p) \/ Leave(p) \/ Step(p) \/ Crash(p)

Next ==
    \/ \E p \in Procs : Process(p)
    \/ OperatorClears \/ Worker \/ ClockTicks

Spec == Init /\ [][Next]_vars

\* A running process keeps running, and a supervisor that ended is started again
\* (by the operator or a scheduler).
Fairness == \A p \in Procs :
    WF_vars(Step(p)) /\ (Supervisor(p) => WF_vars(Startup(p)))

FairSpec == Spec /\ Fairness

-------------------------------------------------------------------------------
\* Properties.

BurnIns == [level : Levels, verifiedAt : Time \cup {NoTime},
            stableAt : Time \cup {NoTime}, unitsAtVerified : 0 .. MaxUnits,
            unitsAtStable : 0 .. MaxUnits]
Attempts == [strategy : Strategies, digest : Incidents]
Observations == [health : {"HEALTHY", "UNHEALTHY"}, stalled : BOOLEAN,
                 slow : BOOLEAN, units : 0 .. MaxUnits]
Rows == [status : {"NONE", "OPEN", "CLOSED"},
         symptom : {"none", "watchdog", "validity_blocked", "validity_failed"},
         openedAt : Time, attempts : Seq(Attempts), remediated : BOOLEAN,
         burnIn : BurnIns, blocked : BOOLEAN]
IntentRows == [status : {"NONE", "PENDING", "EXECUTED", "FAILED"},
               incident : Incidents \cup {NoIncident},
               strategy : Strategies \cup {NoStrategy}]
Labels == {"down", "orphans", "orphan_block", "orphan_mark", "idle", "list",
           "decide", "fill", "remediate", "execute", "mark", "save", "close",
           "done", "escalate"}
Locals == [auth : BOOLEAN, todo : SUBSET Intents, obs : Observations,
           validity : Validities, at : Time, id : Incidents \cup {NoIncident},
           row : Rows, strategy : Strategies \cup {NoStrategy},
           intent : Intents \cup {NoIntent}, ok : BOOLEAN]

\* The type of the state.
TypeOK ==
    /\ incidents \in [Incidents -> Rows]
    /\ intents \in [Intents -> IntentRows]
    /\ escalated \in BOOLEAN
    /\ worker \in Observations
    /\ now \in Time
    /\ holder \in Procs \cup {NoProc}
    /\ pc \in [Procs -> Labels]
    /\ loc \in [Procs -> Locals]
    /\ crashes \in 0 .. MaxCrashes
    /\ executed \in [Incidents -> Nat]

\* evaluate() works on open_incidents[0] alone, so a second open incident would
\* be neither remediated nor closed: there is at most one.
OneOpenIncident == \A i, j \in OpenIncidents : i = j

\* An intent still pending names an incident that is open and not blocked: the
\* startup pass, which executes it without looking, repairs nothing that was
\* closed or handed to a human.
PendingIntentIsLive ==
    \A k \in OrphanedPending :
        /\ incidents[intents[k].incident].status = "OPEN"
        /\ ~incidents[intents[k].incident].blocked

\* Processes that ran a strategy for incident i and have not saved the attempt.
InFlight(i) == {p \in Procs : pc[p] \in {"mark", "save"} /\ loc[p].id = i}

\* Recovery attempts are accounted for: what ran and is not in the record of the
\* incident is in flight or was lost to a crash, and a crash loses at most one
\* attempt and repeats at most one.
AttemptsAccounted ==
    \A i \in Incidents :
        executed[i] <= Len(incidents[i].attempts) + Cardinality(InFlight(i))
                       + 2 * crashes

\* A strategy runs once per intent written for it, and once more per crash that
\* hit between running and marking it.
IntentsCoverExecutions ==
    \A i \in Incidents :
        executed[i] <= Cardinality({k \in Intents : intents[k].incident = i}) + crashes

\* The recorded attempts respect max_attempts and max_identical_attempts,
\* whatever was lost or repeated in between.
AttemptsWithinBudget ==
    \A i \in Incidents :
        /\ Len(incidents[i].attempts) <= MaxAttempts
        /\ \A s \in Strategies :
              Identical(incidents[i].attempts, s, EvidenceDigest(i)) <= MaxIdentical

\* An incident closes only after a remediation whose burn-in lasted the whole window:
\* since the worker was verified it had made the units, and the time had passed, when
\* the burn-in was found stable; also when stale copies of the row are written back.
ClosedAfterBurnIn ==
    \A i \in Incidents :
        incidents[i].status = "CLOSED" =>
            LET burnIn == incidents[i].burnIn
            IN  /\ incidents[i].remediated
                /\ burnIn.level = "STABLE"
                /\ burnIn.verifiedAt # NoTime
                /\ burnIn.stableAt - burnIn.verifiedAt >= MinDuration
                /\ burnIn.unitsAtStable - burnIn.unitsAtVerified >= StableUnits

Executes(i) == executed'[i] # executed[i]

\* Whatever runs for an incident was written to intents.db first.
WriteBeforeExecute ==
    [][\A i \in Incidents : Executes(i) =>
          \E k \in OrphanedPending : intents[k].incident = i]_vars

\* Nothing is executed for an incident that is closed or blocked.
NoRepairOfBlocked ==
    [][\A i \in Incidents : Executes(i) =>
          incidents[i].status = "OPEN" /\ ~incidents[i].blocked]_vars

\* An observe-only process (a supervisor with --observe-only, the status command)
\* never touches the worker, runs a strategy, or closes an incident.
ObserversHandsOff ==
    [][\A p \in Procs : Mode[p] # "run" /\ (pc'[p] # pc[p] \/ loc'[p] # loc[p]) =>
          /\ UNCHANGED <<worker, executed>>
          /\ \A i \in Incidents :
                incidents'[i].status = "CLOSED" => incidents[i].status = "CLOSED"]_vars

\* The bounds MaxIncidents or MaxIntents stop the engine.
OutOfRows ==
    \/ OpenIncidents = {} /\ Fresh(incidents, Incidents) = {}
    \/ Fresh(intents, Intents) = {}

\* Every intent is settled in the end, across crashes.
IntentsSettle ==
    \A k \in Intents : intents[k].status = "PENDING" ~> intents[k].status # "PENDING"

\* A worker that stays bad is recovered, or its incident is marked blocked.
BadWorkerIsHandled ==
    Bad(worker) ~> \/ ~Bad(worker)
                   \/ \E i \in OpenIncidents : incidents[i].blocked
                   \/ OutOfRows

\* The rows of incidents.db read as IncidentLifecycle's state.
Phase(row) ==
    CASE row.status = "NONE" -> "none"
      [] row.status = "CLOSED" -> "closed"
      [] row.status = "OPEN" /\ row.blocked -> "blocked"
      [] row.status = "OPEN" /\ ~row.blocked -> "open"

Lifecycle == INSTANCE IncidentLifecycle WITH
    phase <- [i \in Incidents |-> Phase(incidents[i])],
    tries <- [i \in Incidents |-> Len(incidents[i].attempts)]

\* With one supervisor at a time, crashes included, the engine keeps the
\* promises of IncidentLifecycle.
ImplementsLifecycle == Lifecycle!Spec
===============================================================================
