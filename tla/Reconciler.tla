------------------------------ MODULE Reconciler ------------------------------
(***************************************************************************)
(* The reconciler (reconciliation/engine.py) with the mutation preflight   *)
(* (runtime/mutation.py), the merge of repository fields into the desired  *)
(* fingerprint (runtime/desired.py) and the spend budget (budget/spend.py).*)
(*                                                                         *)
(* A process is a supervisor, which holds the lease and reconciles in      *)
(* every tick, or one `research-harness reconcile` command, which has      *)
(* neither lease nor budget.  `promote` writes the desired fingerprint at  *)
(* any time.  A pass is cut at every read or write of a file and every     *)
(* call of the runtime adapter.  Spend is counted in units of the cost of  *)
(* one action.                                                             *)
(***************************************************************************)
EXTENDS Integers, FiniteSets

CONSTANTS
    Fields,         \* contract.fingerprint.fields
    Values,         \* what a field may say
    Semantic,       \* fields the adapter does not classify for deployment
    Deployed,       \* what runs at first
    Rank,           \* rank of action_for_field, 0 = no_action
    NoFingerprint,  \* no file, nothing pending
    Procs,          \* process slots
    Command,        \* those that are `reconcile` commands; the others supervise
    Observing,      \* may a supervisor run with --observe-only? subset of BOOLEAN
    Authorities,    \* values of authority.runtime_restarts
    Ceiling,        \* budget.total_usd, in actions
    MaxRounds,      \* max_rounds of remediate_preflight
    MaxRepairs,     \* bound: repairs one preflight may list
    MaxEdits,       \* bound: changes of the repository, promotions
    MaxCrashes      \* bound: crashes

ASSUME ReconcilerAssumption ==
    /\ Semantic \subseteq Fields
    /\ Deployed \in [Fields -> Values]
    /\ Rank \in [Fields -> Nat]
    /\ NoFingerprint \notin [Fields -> Values]
    /\ Command \subseteq Procs
    /\ Observing \subseteq BOOLEAN /\ Authorities \subseteq BOOLEAN
    /\ Ceiling \in Nat /\ MaxRounds \in Nat /\ MaxRepairs \in Nat \ {0}
    /\ MaxEdits \in Nat /\ MaxCrashes \in Nat

VARIABLES
    desired,    \* desired_fingerprint.json
    spend,      \* budget.json
    blocked,    \* escalation.json says blocked
    running,    \* external: what the runtime reports it runs
    repository, \* external: what the source tree says
    pc,         \* where each process is
    loc,        \* its local variables
    edits,      \* changes of the repository and promotions so far
    crashes,    \* crashes so far
    promoted,   \* history: per field, values someone asked to deploy
    relaunched, \* history: relaunches by supervisors
    prepared    \* history: what the adapter said last about the mutation in hand

files == <<desired, spend, blocked>>
runtime == <<running, repository>>
vars == <<files, runtime, pc, loc, edits, crashes, promoted, relaunched, prepared>>

Fingerprints == [Fields -> Values]
Supervisors == Procs \ Command

\* observe, auth: how it was started; cache: spend as its BudgetTracker loaded
\* it; persist: it has a persist_desired_path; pending: what its adapter holds as
\* pending deployment; want: the desired fingerprint of the pass; action: the
\* rank of the relaunch; rounds, left: preflight rounds done, repairs still to do;
\* repaired: repairs were applied; ready: the last preflight said READY.
IdleLoc == [observe |-> FALSE, auth |-> FALSE, cache |-> 0, persist |-> FALSE,
            pending |-> NoFingerprint, want |-> NoFingerprint, action |-> 0,
            rounds |-> 0, left |-> 0, repaired |-> FALSE, ready |-> FALSE]

Init ==
    /\ running = Deployed
    /\ repository \in Fingerprints
    /\ desired \in {NoFingerprint, running, repository}
    /\ spend = 0 /\ blocked = FALSE
    /\ pc = [p \in Procs |-> "down"]
    /\ loc = [p \in Procs |-> IdleLoc]
    /\ edits = 0 /\ crashes = 0
    /\ promoted = [f \in Fields |->
          {running[f]} \cup (IF desired = NoFingerprint THEN {} ELSE {desired[f]})]
    /\ relaunched = 0
    /\ prepared = [p \in Procs |-> "nothing"]

-------------------------------------------------------------------------------
Goto(p, label) == pc' = [pc EXCEPT ![p] = label]
SetLoc(p, changes) == loc' = [loc EXCEPT ![p] = changes]
Same == UNCHANGED <<edits, crashes, promoted, relaunched>>

\* What a supervisor keeps from one pass to the next.
Rest(l) == [l EXCEPT !.want = NoFingerprint, !.action = 0, !.rounds = 0, !.left = 0,
                     !.repaired = FALSE, !.ready = FALSE]

Exit(p) ==
    /\ Goto(p, "down")
    /\ SetLoc(p, IdleLoc)
    /\ prepared' = [prepared EXCEPT ![p] = "nothing"]

\* The pass is over: a supervisor goes on, a command exits.
PassDone(p) ==
    IF p \in Command
    THEN Exit(p)
    ELSE /\ Goto(p, "done")
         /\ SetLoc(p, Rest(loc[p]))
         /\ prepared' = [prepared EXCEPT ![p] = "nothing"]

\* The pass failed: a supervisor marks the run blocked and ends it.
PassFails(p) ==
    /\ Exit(p)
    /\ blocked' = (blocked \/ p \notin Command)

-------------------------------------------------------------------------------
\* Starting, and reading the desired fingerprint.

\* Supervisor.__init__: budget.json is loaded before the lease is acquired, and
\* whether to persist is decided for good.
Build(p) ==
    /\ p \in Supervisors /\ pc[p] = "down"
    /\ \E observe \in Observing, auth \in Authorities :
          SetLoc(p, [IdleLoc EXCEPT !.observe = observe, !.auth = auth, !.cache = spend,
                        !.persist = (desired # NoFingerprint), !.pending = desired])
    /\ Goto(p, "built")
    /\ UNCHANGED <<files, runtime, prepared>> /\ Same

LeaseFree == \A q \in Supervisors : pc[q] \in {"down", "built"}

Acquire(p) ==
    /\ pc[p] = "built"
    /\ IF LeaseFree
       THEN Goto(p, "idle") /\ UNCHANGED <<loc, prepared>>
       ELSE Exit(p)
    /\ UNCHANGED <<files, runtime>> /\ Same

\* desired_fingerprint_for: without a file, what is pending, or else what runs.
DesiredNow(p) == IF desired # NoFingerprint THEN desired
                 ELSE IF loc[p].pending # NoFingerprint THEN loc[p].pending
                 ELSE running

Tick(p) ==
    /\ pc[p] \in {"idle", "done"} /\ ~blocked
    /\ SetLoc(p, [loc[p] EXCEPT !.want = DesiredNow(p)])
    /\ Goto(p, "compare")
    /\ UNCHANGED <<files, runtime, prepared>> /\ Same

\* A blocked run goes no further.
StayBlocked(p) ==
    /\ pc[p] \in {"idle", "done"} /\ blocked
    /\ Exit(p)
    /\ UNCHANGED <<files, runtime>> /\ Same

\* run() was given max_ticks.
Leave(p) ==
    /\ pc[p] = "done"
    /\ Exit(p)
    /\ UNCHANGED <<files, runtime>> /\ Same

\* `research-harness reconcile`
ReconcileOnce(p) ==
    /\ p \in Command /\ pc[p] = "down" /\ desired # NoFingerprint
    /\ \E auth \in Authorities :
          SetLoc(p, [IdleLoc EXCEPT !.auth = auth, !.persist = TRUE,
                                    !.pending = desired, !.want = desired])
    /\ Goto(p, "compare")
    /\ UNCHANGED <<files, runtime, prepared>> /\ Same

-------------------------------------------------------------------------------
\* Reconciler._reconcile up to the preflight.

Changed(want, seen) == {f \in Fields : want[f] # seen[f]}

\* Mutant: the weakest action wins.
Weakest(r, ranks) == \A s \in ranks : r <= s
Strongest(r, ranks) == \A s \in ranks : r >= s

\* select_relaunch_action: the one action that is selected, or none.
Required(want, seen) ==
    LET ranks == {Rank[f] : f \in Changed(want, seen)}
    IN  {r \in ranks : Strongest(r, ranks)}

Action(p) == Required(loc[p].want, running)

\* Mutant: the spend so far is compared, without the action.
HasSpent(p) == p \in Command \/ loc[p].cache <= Ceiling
CanSpend(p) == p \in Command \/ loc[p].cache + 1 <= Ceiling

\* Current, or only fields that need no action changed.
NothingToDo(p) ==
    /\ pc[p] = "compare" /\ Action(p) \subseteq {0}
    /\ PassDone(p)
    /\ UNCHANGED <<files, runtime>> /\ Same

MayNotAct(p) ==
    /\ pc[p] = "compare" /\ ~(Action(p) \subseteq {0})
    /\ ~loc[p].auth \/ ~CanSpend(p)
    /\ PassFails(p)
    /\ UNCHANGED <<desired, spend, runtime>> /\ Same

\* Mutant: --observe-only does not reach the reconciler.
ActsAnyway(p) == FALSE
ObserveOnly(p) == loc[p].observe

\* An observe-only pass asks for the preflight once and reports what it would do.
WouldAct(p) ==
    /\ pc[p] = "compare" /\ ~(Action(p) \subseteq {0})
    /\ loc[p].auth /\ CanSpend(p) /\ ObserveOnly(p)
    /\ PassDone(p)
    /\ UNCHANGED <<files, runtime>> /\ Same

StartRelaunch(p) ==
    /\ pc[p] = "compare"
    /\ loc[p].auth /\ CanSpend(p) /\ ~ObserveOnly(p)
    /\ \E r \in Action(p) \ {0} :
          SetLoc(p, [loc[p] EXCEPT !.action = r])
    /\ Goto(p, "preflight")
    /\ UNCHANGED <<files, runtime, prepared>> /\ Same

-------------------------------------------------------------------------------
\* remediate_preflight.  External: what the adapter answers.

Preflight(p) ==
    /\ pc[p] = "preflight" /\ loc[p].rounds < MaxRounds
    /\ \/ \* READY
          /\ SetLoc(p, [loc[p] EXCEPT !.ready = TRUE])
          /\ Goto(p, "sync")
          /\ prepared' = [prepared EXCEPT ![p] = "ready"]
       \/ \* BLOCKED, or REPAIRABLE without repairs
          /\ UNCHANGED loc
          /\ Goto(p, "sync")
          /\ prepared' = [prepared EXCEPT ![p] = "refused"]
       \/ \* REPAIRABLE
          /\ \E n \in 1 .. MaxRepairs :
                SetLoc(p, [loc[p] EXCEPT !.rounds = @ + 1, !.left = n])
          /\ Goto(p, "repair")
          /\ prepared' = [prepared EXCEPT ![p] = "repairable"]
    /\ UNCHANGED <<files, runtime>> /\ Same

OutOfRounds(p) ==
    /\ pc[p] = "preflight" /\ loc[p].rounds = MaxRounds
    /\ Goto(p, "sync")
    /\ UNCHANGED <<files, runtime, loc, prepared>> /\ Same

\* A repair may write to the repository; one that fails ends the remediation.
Repair(p) ==
    /\ pc[p] = "repair"
    /\ SetLoc(p, [loc[p] EXCEPT !.left = @ - 1, !.repaired = TRUE])
    /\ \E ok \in BOOLEAN :
          /\ Goto(p, IF ~ok THEN "sync"
                     ELSE IF loc[p].left > 1 THEN "repair" ELSE "preflight")
          /\ prepared' = [prepared EXCEPT ![p] = IF ok THEN "repaired" ELSE "refused"]
    /\ \/ UNCHANGED <<repository, edits>>
       \/ /\ edits < MaxEdits /\ edits' = edits + 1
          /\ repository' \in Fingerprints
    /\ UNCHANGED <<files, running, crashes, promoted, relaunched>>

-------------------------------------------------------------------------------
\* _sync_desired_after_repairs, relaunch and confirmation.

\* Mutant: the repository is merged as a whole.
MergedWhole(want) == repository
\* merge_repository_deployment_fields
Merged(want) == [f \in Fields |-> IF f \in Semantic THEN want[f] ELSE repository[f]]

\* Mutant: repairs stand in for the preflight that should follow them.
RepairedIsReady(p) == loc[p].ready \/ loc[p].repaired
Ready(p) == loc[p].ready

\* After repairs the deployment fields of the repository become desired; the
\* file is written back whole, over whatever it says by now.
Synced(p) == IF loc[p].repaired THEN Merged(loc[p].want) ELSE loc[p].want

SyncDesired(p) ==
    desired' = IF loc[p].persist /\ Synced(p) # loc[p].want THEN Synced(p) ELSE desired

Proceed(p) ==
    /\ pc[p] = "sync" /\ Ready(p)
    /\ SyncDesired(p)
    /\ SetLoc(p, [loc[p] EXCEPT !.want = Synced(p),
                  !.pending = IF Synced(p) # loc[p].want THEN Synced(p) ELSE @])
    /\ Goto(p, "relaunch")
    /\ UNCHANGED <<spend, blocked, runtime, prepared>> /\ Same

\* Not ready: what was repaired is synced all the same.
Refused(p) ==
    /\ pc[p] = "sync" /\ ~Ready(p)
    /\ SyncDesired(p)
    /\ PassFails(p)
    /\ UNCHANGED <<spend, runtime>> /\ Same

\* External: a relaunch adopts what the adapter holds as pending or what the
\* desired file says, or has no effect.
Relaunch(p) ==
    /\ pc[p] = "relaunch"
    /\ running' \in {running} \cup ({loc[p].pending, desired} \ {NoFingerprint})
    /\ relaunched' = relaunched + (IF p \in Command THEN 0 ELSE 1)
    /\ Goto(p, IF p \in Command THEN "confirm" ELSE "pay")
    /\ UNCHANGED <<files, repository, loc, edits, crashes, promoted, prepared>>

\* Mutant: the file is written, the tracker's own state is not.
PaidOnDisk(p) == loc[p].cache
Paid(p) == loc[p].cache + 1

\* BudgetTracker.record_spend
RecordSpend(p) ==
    /\ pc[p] = "pay"
    /\ spend' = loc[p].cache + 1
    /\ SetLoc(p, [loc[p] EXCEPT !.cache = Paid(p)])
    /\ Goto(p, "confirm")
    /\ UNCHANGED <<desired, blocked, runtime, prepared>> /\ Same

\* The runtime is inspected again.
Confirm(p) ==
    /\ pc[p] = "confirm"
    /\ IF Changed(loc[p].want, running) = {}
       THEN PassDone(p) /\ UNCHANGED blocked
       ELSE PassFails(p)
    /\ UNCHANGED <<desired, spend, runtime>> /\ Same

-------------------------------------------------------------------------------
\* Crashes, the operator and the environment.

\* A process that dies, a relaunch that raises included.
Crash(p) ==
    /\ pc[p] # "down" /\ crashes < MaxCrashes
    /\ crashes' = crashes + 1
    /\ Exit(p)
    /\ UNCHANGED <<files, runtime, edits, promoted, relaunched>>

\* `research-harness promote --from repository | running`
Promote ==
    /\ edits < MaxEdits /\ edits' = edits + 1
    /\ desired' \in {repository, running}
    /\ promoted' = [f \in Fields |-> promoted[f] \cup {desired'[f]}]
    /\ UNCHANGED <<spend, blocked, runtime, pc, loc, crashes, relaunched, prepared>>

\* External: someone edits the source tree.
RepositoryEdited ==
    /\ edits < MaxEdits /\ edits' = edits + 1
    /\ repository' \in Fingerprints
    /\ UNCHANGED <<files, running, pc, loc, crashes, promoted, relaunched, prepared>>

OperatorClears ==
    /\ blocked
    /\ blocked' = FALSE
    /\ UNCHANGED <<desired, spend, runtime, pc, loc, prepared>> /\ Same

-------------------------------------------------------------------------------
\* The steps of a process that runs.
Step(p) ==
    \/ Acquire(p) \/ Tick(p) \/ StayBlocked(p)
    \/ NothingToDo(p) \/ MayNotAct(p) \/ WouldAct(p) \/ StartRelaunch(p)
    \/ Preflight(p) \/ OutOfRounds(p) \/ Repair(p) \/ Proceed(p) \/ Refused(p)
    \/ Relaunch(p) \/ RecordSpend(p) \/ Confirm(p)

Process(p) == Build(p) \/ ReconcileOnce(p) \/ Leave(p) \/ Step(p) \/ Crash(p)

Next ==
    \/ \E p \in Procs : Process(p)
    \/ Promote \/ RepositoryEdited \/ OperatorClears

Spec == Init /\ [][Next]_vars

\* A process that runs keeps running, and a supervisor that ended is started again.
Fairness ==
    /\ \A p \in Procs : WF_vars(Step(p))
    /\ \A p \in Supervisors : WF_vars(Build(p))

FairSpec == Spec /\ Fairness

-------------------------------------------------------------------------------
\* Properties.

InPass == {"compare", "preflight", "repair", "sync", "relaunch", "pay", "confirm"}
Locals == [observe : BOOLEAN, auth : BOOLEAN, cache : 0 .. Ceiling, persist : BOOLEAN,
           pending : Fingerprints \cup {NoFingerprint},
           want : Fingerprints \cup {NoFingerprint},
           action : Nat, rounds : 0 .. MaxRounds, left : 0 .. MaxRepairs,
           repaired : BOOLEAN, ready : BOOLEAN]

\* The type of the state; the spend recorded never passes budget.total_usd.
TypeOK ==
    /\ desired \in Fingerprints \cup {NoFingerprint}
    /\ spend \in 0 .. Ceiling /\ blocked \in BOOLEAN
    /\ running \in Fingerprints /\ repository \in Fingerprints
    /\ pc \in [Procs -> {"down", "built", "idle", "done"} \cup InPass]
    /\ loc \in [Procs -> Locals]
    /\ edits \in 0 .. MaxEdits /\ crashes \in 0 .. MaxCrashes
    /\ promoted \in [Fields -> SUBSET Values]
    /\ relaunched \in Nat
    /\ prepared \in [Procs -> {"nothing", "ready", "refused", "repairable", "repaired"}]

Paying == {p \in Supervisors : pc[p] = "pay"}

\* Every relaunch by a supervisor's reconciler pass is paid for, but for the one in hand
\* and one per crash, across restarts that load the spend again.  The relaunches of the
\* incident engine's strategies are outside this module: nobody pays for them.
RelaunchesPaid == relaunched <= spend + Cardinality(Paying) + crashes

\* What is neither classified for deployment nor promoted is not deployed: edits of
\* the repository reach neither the desired fingerprint nor the runtime in the
\* research-semantic fields.
OnlyPromotedSemantics ==
    \A f \in Semantic :
        /\ running[f] \in promoted[f]
        /\ desired # NoFingerprint => desired[f] \in promoted[f]

\* The runtime is relaunched only on a preflight that said READY after the last
\* repair of the pass.
PreflightBeforeRelaunch ==
    [][\A p \in Procs : pc[p] = "relaunch" /\ pc'[p] \in {"pay", "confirm"} =>
          prepared[p] = "ready"]_vars

\* A supervisor with --observe-only changes no fingerprint, spends nothing and asks
\* for no repair.
ObserversPlanOnly ==
    [][\A p \in Supervisors : loc[p].observe /\ pc'[p] # pc[p] =>
          /\ UNCHANGED <<desired, spend, running, repository, relaunched>>
          /\ prepared'[p] = prepared[p]]_vars

Stale ==
    /\ desired # NoFingerprint
    /\ \E f \in Fields : Rank[f] > 0 /\ desired[f] # running[f]

\* A stale runtime is brought up to date or the run is blocked, unless the
\* supervisor only observes.
StaleIsHandled ==
    Stale ~> \/ ~Stale \/ blocked
             \/ \E p \in Supervisors : loc[p].observe
===============================================================================
