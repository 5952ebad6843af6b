---------------------------- MODULE FailingWorker ----------------------------
(***************************************************************************)
(* The file-backed worker (adapters/failing_worker.py) between the         *)
(* processes that share its three files: config.json, worker_state.json    *)
(* and checkpoint.json.  There is no lock and no rename: an operation      *)
(* loads what it needs and later writes a whole file, which is torn        *)
(* between the truncation and the write, so that a reader raises.          *)
(*                                                                         *)
(* The supervisor ticks: recovery by restart or relaunch, then a reconcile *)
(* pass, or else a stop.  A command is one call of the example's CLI       *)
(* (examples/failing_worker/run.py: step, swap-config, reconcile, init) or *)
(* of `preflight --repair`.  Every load of a file that is written back and *)
(* every write is a step; what is only compared (inspect,                  *)
(* repository_fingerprint, mutation_preflight) is read in one step.  There *)
(* is no desired_fingerprint.json.                                         *)
(***************************************************************************)
EXTENDS Integers, FiniteSets

CONSTANTS
    Supervisor,     \* the one process that holds the lease (module Lease)
    NCommands,      \* bound: calls of the CLI, numbered as they start
    Hashes,         \* values of config_hash
    Default,        \* WorkerConfig().config_hash
    NoHash,         \* None
    Total,          \* total_units
    CrashAt,        \* crash_at_units
    StallAt,        \* stall_at_units
    MaxCount,       \* bound: `step --count`
    Gated,          \* does the action for config_hash need an authorization?
    MaxRounds,      \* max_rounds of remediate_preflight
    MaxCrashes      \* bound: crashes

ASSUME WorkerAssumption ==
    /\ NCommands \in Nat /\ Supervisor \notin 1 .. NCommands
    /\ Default \in Hashes /\ NoHash \notin Hashes
    /\ Total \in Nat /\ CrashAt \subseteq Nat /\ StallAt \subseteq Nat
    /\ MaxCount \in Nat \ {0} /\ Gated \in BOOLEAN
    /\ MaxRounds \in Nat /\ MaxCrashes \in Nat

VARIABLES
    config,     \* config.json: its config_hash
    state,      \* worker_state.json
    ckpt,       \* checkpoint.json: its completed_units (a missing file says 0)
    torn,       \* the files a reader finds truncated or mixed
    blocked,    \* escalation.json says blocked
    pc,         \* where each process is
    loc,        \* its local variables
    crashes,    \* crashes so far
    lost,       \* history: a write that was based on a state replaced since
    orderly,    \* history: only steps, one at a time, and the worker never stalled
    halted,     \* history: a stop was verified, and no restart since
    disturbed   \* history: a command wrote during the supervisor's tick

files == <<config, state, ckpt, torn>>
history == <<lost, orderly, halted, disturbed>>
vars == <<files, blocked, pc, loc, crashes, history>>

Commands == 1 .. NCommands
Procs == {Supervisor} \cup Commands
Files == {"config", "state", "ckpt"}

\* WorkerState, without its timestamps and the effect.
Fresh == [running |-> TRUE, units |-> 0, pending |-> NoHash, auth |-> NoHash]

\* op: the adapter method it is in, and then: the label it returns to; seen: the
\* state it loaded; units: the checkpoint it loaded or will write; hash: the hash
\* in hand; want: the desired hash of the tick; rounds: preflight rounds done;
\* stale (history): somebody else wrote since it loaded the state.
IdleLoc == [op |-> "none", then |-> "end", seen |-> Fresh, units |-> 0,
            hash |-> NoHash, want |-> NoHash, rounds |-> 0, stale |-> FALSE]

\* After `run.py init`.
Init ==
    /\ config = Default /\ state = Fresh /\ ckpt = 0 /\ torn = {}
    /\ blocked = FALSE
    /\ pc = [p \in Procs |-> "new"]
    /\ loc = [p \in Procs |-> IdleLoc]
    /\ crashes = 0
    /\ lost = FALSE /\ orderly = TRUE /\ halted = FALSE /\ disturbed = FALSE

-------------------------------------------------------------------------------
\* Control.

Goto(p, label) == pc' = [pc EXCEPT ![p] = label]
SetLoc(p, l) == loc' = [loc EXCEPT ![p] = l]
Op(p) == loc[p].op

\* The label of the first file access of a method.
First(op) == CASE op \in {"step", "relaunch"} -> "load_config"
               [] op \in {"restart", "stop", "swap"} -> "load_state"
               [] op = "repair" -> "repository"
               [] op = "init" -> "save_config"

Call(p, l, op, then) ==
    /\ SetLoc(p, [l EXCEPT !.op = op, !.then = then])
    /\ Goto(p, First(op))

\* The process is over; the supervisor is started again, or ticks again.
Exits(p) ==
    /\ Goto(p, IF p = Supervisor THEN "new" ELSE "gone")
    /\ SetLoc(p, IdleLoc)

\* A method returns to the label it was called for.
Returned(p) == IF loc[p].then = "end" THEN IdleLoc
               ELSE [IdleLoc EXCEPT !.want = loc[p].want, !.rounds = loc[p].rounds]

\* What a step reads; a torn file makes it raise, which ends the process.
Reads(label) == CASE label = "load_config" -> {"config"}
                  [] label = "load_state" -> {"state"}
                  [] label = "load_ckpt" -> {"ckpt"}
                  [] label = "repository" -> {"config", "state"}
                  [] label \in {"observe", "compare", "preflight", "confirm", "verify"} -> Files
                  [] OTHER -> {}

At(p, label) == pc[p] = label /\ Reads(label) \cap torn = {}

Raises(p) ==
    /\ Reads(pc[p]) \cap torn # {}
    /\ Exits(p)
    /\ UNCHANGED <<files, blocked, crashes, history>>

-------------------------------------------------------------------------------
\* What the files say.

OrElse(hash, default) == IF hash # NoHash THEN hash ELSE default

\* repository_fingerprint
Repository == OrElse(state.pending, config)

\* mutation_preflight
Ready == ~Gated \/ OrElse(state.auth, config) = Repository

\* process_units does a unit unless they are all done; it stops at total_units, and after
\* a unit that crashes or stalls.
Stops == {Total} \cup CrashAt \cup StallAt
\* Mutant: the worker goes on past total_units.
ReachedAny(u, n, r) == r = u + n
Reached(u, n, r) ==
    /\ u < r \/ (u = Total /\ r = u)
    /\ r <= u + n /\ r <= Total
    /\ \A x \in Stops : ~(u < x /\ x < r)
    /\ r = u + n \/ r \in Stops

Restarted(s, units) == [s EXCEPT !.running = TRUE, !.units = units]

Worked(s, units) ==
    [s EXCEPT !.units = units, !.running = @ /\ (units = s.units \/ units \notin CrashAt)]

\* The state the operation is about to write.
NewState(p) ==
    LET l == loc[p]
    IN  CASE l.op = "step" -> Worked(l.seen, l.units)
          [] l.op = "restart" -> Restarted(l.seen, l.units)
          [] l.op = "stop" -> [l.seen EXCEPT !.running = FALSE]
          [] l.op = "swap" -> [l.seen EXCEPT !.pending = l.hash]
          [] l.op = "repair" -> [l.seen EXCEPT !.auth = l.hash]
          [] l.op = "init" -> l.seen

\* Between the load of the state and the write.
Holding == {p \in Procs : pc[p] \in {"load_ckpt", "save_ckpt", "write_ckpt",
                                    "save_state", "write_state"}}

\* p writes the state or the checkpoint: others that hold a state hold a stale one.
Outdated(p) ==
    [q \in Procs |-> IF q \in Holding \ {p} THEN [loc[q] EXCEPT !.stale = TRUE] ELSE loc[q]]

-------------------------------------------------------------------------------
\* File accesses.

Adopted(p) == OrElse(state.pending, loc[p].hash)

\* load_config; a step needs of it what never changes.
LoadConfig(p) ==
    /\ At(p, "load_config")
    /\ SetLoc(p, IF Op(p) = "relaunch" THEN [loc[p] EXCEPT !.hash = config] ELSE loc[p])
    /\ Goto(p, "load_state")
    /\ UNCHANGED <<files, blocked, crashes, history>>

\* Mutant: a step works on, running or not.
AlwaysWorks == TRUE
Works == state.running

\* A worker that does not run does nothing, and writes nothing.
StepIdles(p) ==
    /\ At(p, "load_state") /\ Op(p) = "step" /\ ~Works
    /\ Exits(p)
    /\ UNCHANGED <<files, blocked, crashes, history>>

\* Mutant: a unit that crashes the worker is not checkpointed.
SkipsCrash(units) == IF units \in CrashAt THEN "save_state" ELSE "save_ckpt"
\* The checkpoint is saved before the state.
FirstSave(units) == "save_ckpt"

StepWorks(p) ==
    /\ At(p, "load_state") /\ Op(p) = "step" /\ Works
    /\ \E n \in 1 .. MaxCount, r \in 0 .. Total + MaxCount :
          /\ Reached(state.units, n, r)
          /\ SetLoc(p, [loc[p] EXCEPT !.seen = state, !.units = r])
          /\ Goto(p, FirstSave(r))
    /\ UNCHANGED <<files, blocked, crashes, history>>

\* relaunch adopts the pending hash in what it will save; what it clears of the
\* state is never saved.
LoadState(p) ==
    /\ At(p, "load_state") /\ Op(p) # "step"
    /\ SetLoc(p, IF Op(p) = "relaunch" THEN [loc[p] EXCEPT !.hash = Adopted(p)]
                 ELSE [loc[p] EXCEPT !.seen = state])
    /\ Goto(p, CASE Op(p) = "relaunch" -> "save_config"
                 [] Op(p) = "restart" -> "load_ckpt"
                 [] OTHER -> "save_state")
    /\ UNCHANGED <<files, blocked, crashes, history>>

LoadCheckpoint(p) ==
    /\ At(p, "load_ckpt")
    /\ SetLoc(p, [loc[p] EXCEPT !.units = ckpt])
    /\ Goto(p, "save_state")
    /\ UNCHANGED <<files, blocked, crashes, history>>

Disturbs(p) ==
    disturbed' = (disturbed \/ (p # Supervisor /\ pc[Supervisor] \notin {"new", "gone"}))

\* open("w") of write_text truncates the file ...
Truncate(p, f, save, write) ==
    /\ pc[p] = save
    /\ torn' = torn \cup {f}
    /\ Goto(p, write)
    /\ Disturbs(p)
    /\ UNCHANGED <<config, state, ckpt, blocked, loc, crashes, lost, orderly, halted>>

SaveConfig(p) == Truncate(p, "config", "save_config", "write_config")
SaveCheckpoint(p) == Truncate(p, "ckpt", "save_ckpt", "write_ckpt")
SaveState(p) == Truncate(p, "state", "save_state", "write_state")

\* ... and then its text is written.  Over a text somebody else wrote meanwhile
\* the end of a longer one may stay behind.
Written(f) == torn' \in IF f \in torn THEN {torn \ {f}} ELSE {torn, torn \cup {f}}

\* relaunch saves the same config a second time; its write stands for both.
WriteConfig(p) ==
    /\ pc[p] = "write_config"
    /\ config' = OrElse(loc[p].hash, Default)
    /\ Written("config")
    /\ SetLoc(p, IF Op(p) = "relaunch" THEN [loc[p] EXCEPT !.op = "restart", !.hash = NoHash]
                 ELSE loc[p])
    /\ Goto(p, "load_state")
    /\ Disturbs(p)
    /\ UNCHANGED <<state, ckpt, blocked, crashes, lost, orderly, halted>>

\* Mutant: the units from before the step are checkpointed.
UnitsBefore(p) == loc[p].seen.units
Checkpoint(p) == loc[p].units

WriteCheckpoint(p) ==
    /\ pc[p] = "write_ckpt"
    /\ ckpt' = Checkpoint(p)
    /\ Written("ckpt")
    /\ lost' = (lost \/ loc[p].stale)
    /\ loc' = Outdated(p)
    /\ Goto(p, "save_state")
    /\ Disturbs(p)
    /\ UNCHANGED <<config, state, blocked, crashes, orderly, halted>>

WriteState(p) ==
    /\ pc[p] = "write_state"
    /\ state' = NewState(p)
    /\ Written("state")
    /\ lost' = (lost \/ loc[p].stale)
    /\ halted' = (halted /\ Op(p) # "restart")
    /\ orderly' = (orderly /\ ~(Op(p) = "step" /\ loc[p].units \in StallAt))
    /\ Disturbs(p)
    /\ loc' = [Outdated(p) EXCEPT ![p] = Returned(p)]
    /\ Goto(p, IF loc[p].then # "end" THEN loc[p].then
               ELSE IF p = Supervisor THEN "new" ELSE "gone")
    /\ UNCHANGED <<config, ckpt, blocked, crashes>>

-------------------------------------------------------------------------------
\* The supervisor.

\* Mutant: what runs is desired until something is promoted.
RunningIsDesired == config
\* desired_fingerprint_for
Desired == Repository

Tick ==
    /\ pc[Supervisor] = "new" /\ ~blocked /\ torn = {}
    /\ SetLoc(Supervisor, [IdleLoc EXCEPT !.want = Desired])
    /\ Goto(Supervisor, "observe")
    /\ disturbed' = FALSE
    /\ UNCHANGED <<files, blocked, crashes, lost, orderly, halted>>

\* The watchdog finds nothing wrong.
AllWell ==
    /\ At(Supervisor, "observe") /\ state.running
    /\ Goto(Supervisor, "compare")
    /\ UNCHANGED <<files, blocked, loc, crashes, history>>

\* A worker that is down, or whose timestamps are too old (it stalled, or nobody
\* called step for a while), is restarted or relaunched by the incident engine,
\* which asks for no preflight.  Its budget is IncidentEngine's: here it always has a
\* strategy left.
Recover ==
    /\ At(Supervisor, "observe")
    /\ \E op \in {"restart", "relaunch"} : Call(Supervisor, loc[Supervisor], op, "compare")
    /\ orderly' = (orderly /\ ~state.running)
    /\ UNCHANGED <<files, blocked, crashes, lost, halted, disturbed>>

\* The stop flag is set: stop_verified, and the run is over.
StopRequested ==
    /\ pc[Supervisor] = "new" /\ ~blocked
    /\ Call(Supervisor, IdleLoc, "stop", "verify")
    /\ orderly' = FALSE
    /\ UNCHANGED <<files, blocked, crashes, lost, halted, disturbed>>

\* Mutant: stop() is trusted.
Trusted == TRUE
\* stop_verified inspects.
Verified == ~state.running

Verify ==
    /\ At(Supervisor, "verify")
    /\ halted' = (halted \/ Verified)
    /\ Goto(Supervisor, "gone")
    /\ UNCHANGED <<files, blocked, loc, crashes, lost, orderly, disturbed>>

-------------------------------------------------------------------------------
\* A reconcile pass (of the supervisor, or a reconcile command) and its preflight.

Current(p) == config = loc[p].want

NothingStale(p) ==
    /\ At(p, "compare") /\ Current(p)
    /\ Exits(p)
    /\ UNCHANGED <<files, blocked, crashes, history>>

Stale(p) ==
    /\ At(p, "compare") /\ ~Current(p)
    /\ Goto(p, "preflight")
    /\ UNCHANGED <<files, blocked, loc, crashes, history>>

\* The supervisor escalates a pass that failed; a command exits with 1.
PassFails(p) ==
    /\ Exits(p)
    /\ blocked' = (blocked \/ p = Supervisor)
    /\ UNCHANGED <<files, crashes, history>>

\* After repairs what is desired is what the repository says by now.
PreflightReady(p) ==
    /\ At(p, "preflight") /\ loc[p].rounds < MaxRounds /\ Ready
    /\ IF loc[p].want = NoHash
       THEN Exits(p)        \* `preflight --repair`
       ELSE Call(p, [loc[p] EXCEPT !.want = IF loc[p].rounds > 0 THEN Repository ELSE @],
                 "relaunch", "confirm")
    /\ UNCHANGED <<files, blocked, crashes, history>>

PreflightRepairs(p) ==
    /\ At(p, "preflight") /\ loc[p].rounds < MaxRounds /\ ~Ready
    /\ Call(p, [loc[p] EXCEPT !.rounds = @ + 1], "repair", "preflight")
    /\ UNCHANGED <<files, blocked, crashes, history>>

OutOfRounds(p) ==
    /\ pc[p] = "preflight" /\ loc[p].rounds = MaxRounds
    /\ PassFails(p)

\* Mutant: what runs is authorized, not what should.
RunningHash == config
Authorized == Repository

\* repair_mutation_prerequisite
Repair(p) ==
    /\ At(p, "repository")
    /\ SetLoc(p, [loc[p] EXCEPT !.hash = Authorized])
    /\ Goto(p, "load_state")
    /\ UNCHANGED <<files, blocked, crashes, history>>

Confirm(p) ==
    /\ At(p, "confirm")
    /\ IF Current(p)
       THEN Exits(p) /\ UNCHANGED <<files, blocked, crashes, history>>
       ELSE PassFails(p)

-------------------------------------------------------------------------------
\* Commands.  Each builds its runtime first, which loads the config.

Alone(c) == \A d \in Commands \ {c} : pc[d] \in {"new", "gone"}

Starts(c) ==
    /\ pc[c] = "new" /\ \A d \in 1 .. c - 1 : pc[d] # "new"
    /\ "config" \notin torn
    /\ UNCHANGED <<files, blocked, crashes, lost, halted, disturbed>>

Step(c) ==
    /\ Starts(c)
    /\ Call(c, IdleLoc, "step", "end")
    /\ orderly' = (orderly /\ Alone(c))

SwapConfig(c, hash) ==
    /\ Starts(c)
    /\ Call(c, [IdleLoc EXCEPT !.hash = hash], "swap", "end")
    /\ orderly' = FALSE

InitAgain(c) ==
    /\ Starts(c)
    /\ Call(c, IdleLoc, "init", "end")
    /\ orderly' = FALSE

Reconcile(c) ==
    /\ Starts(c) /\ "state" \notin torn
    /\ SetLoc(c, [IdleLoc EXCEPT !.want = Repository])
    /\ Goto(c, "compare")
    /\ orderly' = FALSE

PreflightRepair(c) ==
    /\ Starts(c) /\ Gated
    /\ SetLoc(c, IdleLoc)
    /\ Goto(c, "preflight")
    /\ orderly' = FALSE

\* A process dies between two of its steps.
Crash(p) ==
    /\ pc[p] \notin {"new", "gone"} /\ crashes < MaxCrashes
    /\ crashes' = crashes + 1
    /\ Exits(p)
    /\ UNCHANGED <<files, blocked, history>>

-------------------------------------------------------------------------------
\* The file accesses and decisions of a process that runs.
Access(p) ==
    \/ LoadConfig(p) \/ StepIdles(p) \/ StepWorks(p) \/ LoadState(p) \/ LoadCheckpoint(p)
    \/ SaveConfig(p) \/ SaveCheckpoint(p) \/ SaveState(p)
    \/ WriteConfig(p) \/ WriteCheckpoint(p) \/ WriteState(p) \/ Raises(p)

Pass(p) ==
    \/ NothingStale(p) \/ Stale(p) \/ PreflightReady(p) \/ PreflightRepairs(p)
    \/ OutOfRounds(p) \/ Repair(p) \/ Confirm(p)

Supervise == Tick \/ AllWell \/ Recover \/ Verify

Begin(c) ==
    \/ Step(c) \/ InitAgain(c) \/ Reconcile(c) \/ PreflightRepair(c)
    \/ \E hash \in Hashes : SwapConfig(c, hash)

Next ==
    \/ \E p \in Procs : Access(p) \/ Pass(p) \/ Crash(p)
    \/ Supervise \/ StopRequested
    \/ \E c \in Commands : Begin(c)

Spec == Init /\ [][Next]_vars

\* Commands that were started end, and the supervisor keeps ticking.
Fairness ==
    /\ WF_vars(\E c \in Commands : Access(c) \/ Pass(c))
    /\ WF_vars(Access(Supervisor) \/ Pass(Supervisor) \/ Supervise)

FairSpec == Spec /\ Fairness

-------------------------------------------------------------------------------
\* Properties.

Labels == {"new", "gone", "observe", "compare", "preflight", "repository", "confirm",
           "verify", "load_config", "load_state", "load_ckpt", "save_config", "save_ckpt",
           "save_state", "write_config", "write_ckpt", "write_state"}
States == [running : BOOLEAN, units : 0 .. Total,
           pending : Hashes \cup {NoHash}, auth : Hashes \cup {NoHash}]
Locals == [op : {"none", "step", "restart", "relaunch", "stop", "swap", "repair", "init"},
           then : {"end", "compare", "preflight", "confirm", "verify"},
           seen : States, units : 0 .. Total,
           hash : Hashes \cup {NoHash}, want : Hashes \cup {NoHash}, rounds : 0 .. MaxRounds,
           stale : BOOLEAN]

\* The type of the state.
TypeOK ==
    /\ config \in Hashes /\ state \in States /\ ckpt \in 0 .. Total /\ torn \subseteq Files
    /\ blocked \in BOOLEAN
    /\ pc \in [Procs -> Labels] /\ loc \in [Procs -> Locals]
    /\ crashes \in 0 .. MaxCrashes
    /\ lost \in BOOLEAN /\ orderly \in BOOLEAN /\ halted \in BOOLEAN /\ disturbed \in BOOLEAN

\* The worker state never claims units the checkpoint does not have, wherever a
\* process dies, as long as no write overwrote a change it had not seen: what a
\* restart resumes from (restart_worker) is all that was done.
ProgressKept == ~lost => state.units <= ckpt

\* So a restart never takes completed units away.
UnitsNeverGoBack == [][state'.units < state.units => lost']_vars

\* `running` serves as a lock between the worker's steps and the supervisor's
\* recovery: without other commands and without a stall no update is lost.
TurnsAreTaken == orderly => ~lost

\* After a verified stop nothing but a restart makes the worker run, or do units,
\* unless a write of an operation that was already under way overwrites the stop.
StopHolds ==
    [][halted' /\ ~lost' => ~state'.running /\ (halted => state'.units = state.units)]_vars

\* The supervisor's pass, under a contract and a budget that let it act, fails only if
\* somebody else wrote to the files during its tick: by itself every stale config is
\* authorized, deployed and confirmed.
OnlyOthersBlock == [][blocked' /\ ~blocked => disturbed]_vars

\* A file is torn and nobody is about to write it: every reader raises from now on.
Broken ==
    torn # {} /\ \A p \in Procs : pc[p] \notin {"write_config", "write_ckpt", "write_state"}

\* The supervisor cannot act any more.
Over == blocked \/ pc[Supervisor] = "gone" \/ Broken

\* A staged config swap that is not deployed.
Staged == state.pending \notin {NoHash, config}

\* Again and again the worker runs and what was staged is deployed (or dropped by a
\* write that had not seen it), unless the run is over: restarts and reconcile
\* passes get there, whatever commands and crashes they met on the way.
WorkerSettles == []<>(Over \/ (state.running /\ ~Staged))
===============================================================================
