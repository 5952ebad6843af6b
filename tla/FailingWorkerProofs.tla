------------------------- MODULE FailingWorkerProofs -------------------------
(***************************************************************************)
(* Proofs about FailingWorker, for any number of commands, config hashes   *)
(* and units, wherever processes crash: its types, that the worker state   *)
(* never claims more than the checkpoint has, that completed units are not *)
(* taken back, that a verified stop holds, that `running` keeps the steps  *)
(* and the recoveries apart, and that an undisturbed tick never fails.     *)
(***************************************************************************)
EXTENDS FailingWorker, TLAPS

MaybeHash == Hashes \cup {NoHash}
OpNames == {"none", "step", "restart", "relaunch", "stop", "swap", "repair", "init"}
Thens == {"end", "compare", "preflight", "confirm", "verify"}
HoldLabels == {"load_ckpt", "save_ckpt", "write_ckpt", "save_state", "write_state"}
Saving == {"save_state", "write_state"}

Early == {"load_config", "load_state", "repository", "save_config", "write_config"}

\* Which method may be at which label.
Placed(label, op) ==
    /\ label \in Early => op # "none"
    /\ label = "load_ckpt" => op = "restart"
    /\ label \in {"save_ckpt", "write_ckpt"} => op = "step"
    /\ label \in Saving => op \notin {"none", "relaunch"}

\* What a process holds at a label: unless it is stale, the state it loaded is the one
\* in the file, and once a step has written its checkpoint, or a restart has loaded
\* it, that is the one in the file.
Fits(label, l) ==
    /\ Placed(label, l.op)
    /\ label \in HoldLabels /\ l.op = "step" => l.seen.running /\ l.seen.units <= l.units
    /\ label \in HoldLabels /\ ~l.stale /\ ~lost => l.seen = state
    /\ label \in Saving /\ l.op \in {"step", "restart"} /\ ~l.stale /\ ~lost => ckpt = l.units

Kept ==
    /\ ~lost => state.units <= ckpt
    /\ halted /\ ~lost => ~state.running

WorkerInv == TypeOK /\ Kept /\ \A p \in Procs : Fits(pc[p], loc[p])

\* The types of what does not belong to one process.
GlobalsTyped ==
    /\ config \in Hashes /\ state \in States /\ ckpt \in 0 .. Total /\ torn \subseteq Files
    /\ blocked \in BOOLEAN /\ crashes \in 0 .. MaxCrashes
    /\ lost \in BOOLEAN /\ orderly \in BOOLEAN /\ halted \in BOOLEAN /\ disturbed \in BOOLEAN

-------------------------------------------------------------------------------
\* Records.

\* IdleLoc and Fresh are of their types.
LEMMA IdleTyped == IdleLoc \in Locals /\ Fresh \in States
<1>1. 0 \in 0 .. Total /\ 0 \in 0 .. MaxRounds
  BY WorkerAssumption
<1>2. Fresh \in States
  BY <1>1 DEF Fresh, States
<1> QED BY <1>1, <1>2 DEF IdleLoc, Locals

\* The fields of a process's local variables.
LEMMA LocFields ==
    ASSUME NEW l \in Locals
    PROVE  /\ l.op \in OpNames /\ l.then \in Thens /\ l.seen \in States
           /\ l.units \in 0 .. Total /\ l.hash \in MaybeHash /\ l.want \in MaybeHash
           /\ l.rounds \in 0 .. MaxRounds /\ l.stale \in BOOLEAN
BY DEF Locals, OpNames, Thens, MaybeHash

\* Changes of the local variables that keep their types.
LEMMA LocTyped ==
    ASSUME NEW l \in Locals
    PROVE  /\ \A op \in OpNames, then \in Thens : [l EXCEPT !.op = op, !.then = then] \in Locals
           /\ \A op \in OpNames, h \in MaybeHash : [l EXCEPT !.op = op, !.hash = h] \in Locals
           /\ \A h \in MaybeHash : [l EXCEPT !.hash = h] \in Locals
           /\ \A s \in States : [l EXCEPT !.seen = s] \in Locals
           /\ \A u \in 0 .. Total : [l EXCEPT !.units = u] \in Locals
           /\ \A s \in States, u \in 0 .. Total : [l EXCEPT !.seen = s, !.units = u] \in Locals
           /\ \A w \in MaybeHash : [l EXCEPT !.want = w] \in Locals
           /\ \A n \in 0 .. MaxRounds : [l EXCEPT !.rounds = n] \in Locals
           /\ \A w \in MaybeHash, n \in 0 .. MaxRounds : [l EXCEPT !.want = w, !.rounds = n] \in Locals
           /\ [l EXCEPT !.stale = TRUE] \in Locals
<1> USE DEF Locals, OpNames, Thens, MaybeHash
<1>1. \A op \in OpNames, then \in Thens : [l EXCEPT !.op = op, !.then = then] \in Locals
  OBVIOUS
<1>2. \A op \in OpNames, h \in MaybeHash : [l EXCEPT !.op = op, !.hash = h] \in Locals
  OBVIOUS
<1>3. \A h \in MaybeHash : [l EXCEPT !.hash = h] \in Locals
  OBVIOUS
<1>4. \A s \in States : [l EXCEPT !.seen = s] \in Locals
  OBVIOUS
<1>5. \A u \in 0 .. Total : [l EXCEPT !.units = u] \in Locals
  OBVIOUS
<1>6. \A s \in States, u \in 0 .. Total : [l EXCEPT !.seen = s, !.units = u] \in Locals
  OBVIOUS
<1>7. \A w \in MaybeHash : [l EXCEPT !.want = w] \in Locals
  OBVIOUS
<1>8. \A n \in 0 .. MaxRounds : [l EXCEPT !.rounds = n] \in Locals
  OBVIOUS
<1>9. \A w \in MaybeHash, n \in 0 .. MaxRounds : [l EXCEPT !.want = w, !.rounds = n] \in Locals
  OBVIOUS
<1>10. [l EXCEPT !.stale = TRUE] \in Locals
  OBVIOUS
<1> QED BY <1>1, <1>2, <1>3, <1>4, <1>5, <1>6, <1>7, <1>8, <1>9, <1>10

\* The fields of the worker state, and changes that keep its type.
LEMMA StateTyped ==
    ASSUME NEW s \in States
    PROVE  /\ s.running \in BOOLEAN /\ s.units \in 0 .. Total
           /\ s.pending \in MaybeHash /\ s.auth \in MaybeHash
           /\ \A r \in BOOLEAN : [s EXCEPT !.running = r] \in States
           /\ \A r \in BOOLEAN, u \in 0 .. Total :
                 /\ [s EXCEPT !.running = r, !.units = u] \in States
                 /\ [s EXCEPT !.units = u, !.running = r] \in States
           /\ \A h \in MaybeHash : [s EXCEPT !.pending = h] \in States
           /\ \A h \in MaybeHash : [s EXCEPT !.auth = h] \in States
BY DEF States, MaybeHash

\* What Repository and an adopted hash may be.
LEMMA OrElseTyped ==
    ASSUME NEW h \in MaybeHash, NEW d \in MaybeHash
    PROVE  /\ OrElse(h, d) \in MaybeHash
           /\ d \in Hashes => OrElse(h, d) \in Hashes
BY DEF OrElse, MaybeHash

\* The repository always has a hash.
LEMMA RepositoryTyped == TypeOK => Repository \in Hashes
BY StateTyped, OrElseTyped DEF TypeOK, Repository, MaybeHash

-------------------------------------------------------------------------------
\* The initial state satisfies the invariant.
LEMMA WorkerInit == Init => WorkerInv
<1> SUFFICES ASSUME Init PROVE WorkerInv
  OBVIOUS
<1>1. TypeOK
  <2>1. 0 \in 0 .. Total /\ 0 \in 0 .. MaxCrashes
    BY WorkerAssumption
  <2>2. pc \in [Procs -> Labels] /\ loc \in [Procs -> Locals]
    BY IdleTyped DEF Init, Labels
  <2> QED BY <2>1, <2>2, IdleTyped, WorkerAssumption DEF Init, TypeOK, Files
<1>2. Kept
  BY DEF Init, Kept, Fresh
<1>3. ASSUME NEW p \in Procs PROVE Fits(pc[p], loc[p])
  BY DEF Init, Fits, Placed, HoldLabels, Saving, Early
<1> QED BY <1>1, <1>2, <1>3 DEF WorkerInv

-------------------------------------------------------------------------------
\* A step of p that writes neither the state nor the checkpoint.
LEMMA QuietStep ==
    ASSUME WorkerInv, NEW p \in Procs, NEW label \in Labels, NEW l \in Locals,
           Goto(p, label), SetLoc(p, l), UNCHANGED <<state, ckpt, lost>>,
           halted' => halted \/ ~state.running, GlobalsTyped', Fits(label, l)
    PROVE  WorkerInv'
<1>1. pc' \in [Procs -> Labels] /\ loc' \in [Procs -> Locals]
  BY DEF WorkerInv, TypeOK, Goto, SetLoc
<1>2. TypeOK'
  BY <1>1 DEF GlobalsTyped, TypeOK
<1>3. Kept'
  BY DEF WorkerInv, Kept
<1>4. ASSUME NEW q \in Procs PROVE Fits(pc[q], loc[q])'
  <2>1. Fits(pc'[q], loc'[q])
    <3>1. CASE q = p
      BY <3>1 DEF WorkerInv, TypeOK, Goto, SetLoc
    <3>2. CASE q # p
      BY <3>2 DEF WorkerInv, TypeOK, Goto, SetLoc
    <3> QED BY <3>1, <3>2
  <2> QED BY <2>1 DEF Fits
<1> QED BY <1>2, <1>3, <1>4 DEF WorkerInv

\* A process that holds no state fits anywhere else.
LEMMA FreeFits ==
    ASSUME NEW label, NEW l, label \notin HoldLabels \cup Early
    PROVE  Fits(label, l)
BY DEF Fits, Placed, HoldLabels, Saving

\* A method that has not loaded the state, or has yet to load it again.
LEMMA EarlyFits ==
    ASSUME NEW label \in Early, NEW l, l.op # "none"
    PROVE  Fits(label, l)
BY DEF Fits, Placed, HoldLabels, Saving, Early

\* A step by which p exits.
LEMMA ExitStep ==
    ASSUME WorkerInv, NEW p \in Procs, Exits(p), UNCHANGED <<state, ckpt, lost, halted>>,
           GlobalsTyped'
    PROVE  WorkerInv'
<1> DEFINE label == IF p = Supervisor THEN "new" ELSE "gone"
<1>1. label \in Labels /\ Fits(label, IdleLoc)
  BY FreeFits DEF Labels, HoldLabels, Early
<1> QED BY <1>1, IdleTyped, QuietStep DEF Exits

\* A step by which p calls a method.
LEMMA CallStep ==
    ASSUME WorkerInv, NEW p \in Procs, NEW l \in Locals, NEW then \in Thens,
           NEW op \in OpNames \ {"none"}, Call(p, l, op, then),
           UNCHANGED <<state, ckpt, lost, halted>>, GlobalsTyped'
    PROVE  WorkerInv'
<1> DEFINE m == [l EXCEPT !.op = op, !.then = then]
<1>1. m \in Locals
  BY LocTyped
<1>2. m.op = op
  BY DEF Locals
<1>3. First(op) \in Labels /\ First(op) \notin HoldLabels
  BY DEF OpNames, First, Labels, HoldLabels
<1>4. Fits(First(op), m)
  BY <1>2, <1>3 DEF OpNames, Fits, Placed, HoldLabels, Saving, Early
<1> HIDE DEF m
<1>5. Goto(p, First(op)) /\ SetLoc(p, m)
  BY DEF Call, m
<1> QED BY <1>1, <1>3, <1>4, <1>5, QuietStep

\* The globals a step leaves alone keep their types.
LEMMA StillTyped ==
    ASSUME WorkerInv, UNCHANGED <<files, blocked, crashes, history>>
    PROVE  GlobalsTyped'
BY DEF WorkerInv, TypeOK, GlobalsTyped, files, history

-------------------------------------------------------------------------------
\* Loads.

\* load_config
LEMMA LoadConfigStep ==
    ASSUME WorkerInv, NEW p \in Procs, LoadConfig(p)
    PROVE  WorkerInv'
<1> DEFINE l == IF Op(p) = "relaunch" THEN [loc[p] EXCEPT !.hash = config] ELSE loc[p]
<1>1. loc[p] \in Locals /\ config \in MaybeHash
  BY DEF WorkerInv, TypeOK, MaybeHash
<1>2. l \in Locals
  BY <1>1, LocFields, LocTyped
<1>3. l.op = loc[p].op
  BY <1>1 DEF Locals
<1>4. loc[p].op # "none"
  BY DEF WorkerInv, LoadConfig, At, Fits, Placed, Early
<1>5. Fits("load_state", l)
  BY <1>3, <1>4, EarlyFits DEF Early
<1> HIDE DEF l
<1>6. SetLoc(p, l) /\ Goto(p, "load_state") /\ UNCHANGED <<files, blocked, crashes, history>>
  BY DEF LoadConfig, l
<1> QED BY <1>2, <1>5, <1>6, QuietStep, StillTyped DEF Labels, files, history

\* A step of a worker that runs.
LEMMA StepWorksStep ==
    ASSUME WorkerInv, NEW p \in Procs, StepWorks(p)
    PROVE  WorkerInv'
<1>1. PICK n \in 1 .. MaxCount, r \in 0 .. Total + MaxCount :
          /\ Reached(state.units, n, r)
          /\ SetLoc(p, [loc[p] EXCEPT !.seen = state, !.units = r])
          /\ Goto(p, FirstSave(r))
  BY DEF StepWorks
<1> DEFINE l == [loc[p] EXCEPT !.seen = state, !.units = r]
<1>2. loc[p] \in Locals /\ state \in States /\ state.units \in 0 .. Total
  <2>1. loc[p] \in Locals /\ state \in States
    BY DEF WorkerInv, TypeOK
  <2> QED BY <2>1, StateTyped
<1>3. r \in 0 .. Total /\ state.units <= r
  BY <1>1, <1>2, WorkerAssumption DEF Reached
<1>4. l \in Locals
  BY <1>2, <1>3, LocTyped
<1>5. l.op = "step" /\ l.seen = state /\ l.units = r
  BY <1>2 DEF StepWorks, Op, Locals
<1>6. state.running
  BY DEF StepWorks, Works
<1>7. Fits("save_ckpt", l)
  BY <1>3, <1>5, <1>6 DEF Fits, Placed, HoldLabels, Saving, Early
<1>8. SetLoc(p, l) /\ Goto(p, "save_ckpt") /\ UNCHANGED <<files, blocked, crashes, history>>
  BY <1>1 DEF StepWorks, FirstSave
<1> HIDE DEF l
<1> QED BY <1>4, <1>7, <1>8, QuietStep, StillTyped DEF Labels, files, history

\* load_state of a method that is not a step
LEMMA LoadStateStep ==
    ASSUME WorkerInv, NEW p \in Procs, LoadState(p)
    PROVE  WorkerInv'
<1>1. loc[p] \in Locals /\ state \in States /\ config \in MaybeHash
  BY DEF WorkerInv, TypeOK, MaybeHash
<1>2. Op(p) \in OpNames \ {"none", "step"}
  BY <1>1, LocFields DEF WorkerInv, LoadState, At, Fits, Placed, Op, Early
<1>3. UNCHANGED <<files, blocked, crashes, history>>
  BY DEF LoadState
<1>4. CASE Op(p) = "relaunch"
  <2> DEFINE l == [loc[p] EXCEPT !.hash = Adopted(p)]
  <2>1. Adopted(p) \in MaybeHash
    BY <1>1, LocFields, StateTyped, OrElseTyped DEF Adopted
  <2>2. l \in Locals
    BY <1>1, <2>1, LocFields, LocTyped
  <2>3. SetLoc(p, l) /\ Goto(p, "save_config")
    BY <1>4 DEF LoadState
  <2>5. l.op # "none"
    BY <1>1, <1>4 DEF Locals, Op
  <2> HIDE DEF l
  <2>4. Fits("save_config", l)
    BY <2>5, EarlyFits DEF Early
  <2> QED BY <1>3, <2>2, <2>3, <2>4, QuietStep, StillTyped DEF Labels, files, history
<1>5. CASE Op(p) # "relaunch"
  <2> DEFINE l == [loc[p] EXCEPT !.seen = state]
             label == IF Op(p) = "restart" THEN "load_ckpt" ELSE "save_state"
  <2>1. l \in Locals
    BY <1>1, LocFields, LocTyped
  <2>2. l.op = Op(p) /\ l.seen = state
    BY <1>1 DEF Locals, Op
  <2>3. SetLoc(p, l) /\ Goto(p, label)
    BY <1>5 DEF LoadState
  <2>4. label \in Labels
    BY DEF Labels
  <2> HIDE DEF l
  <2>5. Fits(label, l)
    BY <1>2, <1>5, <2>2 DEF Fits, Placed, HoldLabels, Saving, OpNames, Early
  <2> HIDE DEF label
  <2> QED BY <1>3, <2>1, <2>3, <2>4, <2>5, QuietStep, StillTyped DEF files, history
<1> QED BY <1>4, <1>5

\* load_checkpoint
LEMMA LoadCheckpointStep ==
    ASSUME WorkerInv, NEW p \in Procs, LoadCheckpoint(p)
    PROVE  WorkerInv'
<1> DEFINE l == [loc[p] EXCEPT !.units = ckpt]
<1>1. loc[p] \in Locals /\ ckpt \in 0 .. Total /\ Fits("load_ckpt", loc[p])
  BY DEF WorkerInv, TypeOK, LoadCheckpoint, At
<1>2. l \in Locals
  BY <1>1, LocFields, LocTyped
<1>3. /\ l.op = loc[p].op /\ l.seen = loc[p].seen /\ l.stale = loc[p].stale
      /\ l.units = ckpt
  BY <1>1 DEF Locals
<1>4. Fits("save_state", l)
  BY <1>1, <1>3 DEF Fits, Placed, HoldLabels, Saving, Early
<1>5. SetLoc(p, l) /\ Goto(p, "save_state") /\ UNCHANGED <<files, blocked, crashes, history>>
  BY DEF LoadCheckpoint
<1> HIDE DEF l
<1> QED BY <1>2, <1>4, <1>5, QuietStep, StillTyped DEF Labels, files, history

-------------------------------------------------------------------------------
\* Writes.

\* Truncating a file changes what can be read, and no content.
LEMMA TruncateStep ==
    ASSUME WorkerInv, NEW p \in Procs,
           SaveConfig(p) \/ SaveCheckpoint(p) \/ SaveState(p)
    PROVE  WorkerInv'
<1>1. loc[p] \in Locals /\ Fits(pc[p], loc[p])
  BY DEF WorkerInv, TypeOK
<1>2. SetLoc(p, loc[p])
  BY DEF WorkerInv, TypeOK, SetLoc, SaveConfig, SaveCheckpoint, SaveState, Truncate
<1>3. GlobalsTyped' /\ UNCHANGED <<state, ckpt, lost, halted>>
  BY DEF WorkerInv, TypeOK, GlobalsTyped, SaveConfig, SaveCheckpoint, SaveState, Truncate,
         Disturbs, Files
<1>4. CASE SaveConfig(p)
  <2>1. Goto(p, "write_config") /\ Fits("write_config", loc[p])
    BY <1>1, <1>4, EarlyFits DEF SaveConfig, Truncate, Fits, Placed, Early
  <2> QED BY <1>1, <1>2, <1>3, <2>1, QuietStep DEF Labels
<1>5. CASE SaveCheckpoint(p)
  <2>1. Goto(p, "write_ckpt") /\ pc[p] = "save_ckpt"
    BY <1>5 DEF SaveCheckpoint, Truncate
  <2>2. Fits("write_ckpt", loc[p])
    BY <1>1, <2>1 DEF Fits, Placed, HoldLabels, Saving, Early
  <2> QED BY <1>1, <1>2, <1>3, <2>1, <2>2, QuietStep DEF Labels
<1>6. CASE SaveState(p)
  <2>1. Goto(p, "write_state") /\ pc[p] = "save_state"
    BY <1>6 DEF SaveState, Truncate
  <2>2. Fits("write_state", loc[p])
    BY <1>1, <2>1 DEF Fits, Placed, HoldLabels, Saving, Early
  <2> QED BY <1>1, <1>2, <1>3, <2>1, <2>2, QuietStep DEF Labels
<1> QED BY <1>4, <1>5, <1>6

\* save_config, of relaunch or init, goes on to load_state.
LEMMA WriteConfigStep ==
    ASSUME WorkerInv, NEW p \in Procs, WriteConfig(p)
    PROVE  WorkerInv'
<1> DEFINE l == IF Op(p) = "relaunch" THEN [loc[p] EXCEPT !.op = "restart", !.hash = NoHash]
                ELSE loc[p]
<1>1. loc[p] \in Locals /\ Fits("write_config", loc[p])
  BY DEF WorkerInv, TypeOK, WriteConfig
<1>2. l \in Locals
  BY <1>1, LocFields, LocTyped DEF MaybeHash, OpNames
<1>3. l.op # "none"
  BY <1>1 DEF Locals, Op, Fits, Placed, Early
<1>4. Fits("load_state", l)
  BY <1>3, EarlyFits DEF Early
<1>5. config' \in Hashes
  BY <1>1, LocFields, OrElseTyped, WorkerAssumption DEF WriteConfig, MaybeHash
<1>6. GlobalsTyped'
  BY <1>5 DEF WorkerInv, TypeOK, GlobalsTyped, WriteConfig, Disturbs, Written, Files
<1>7. SetLoc(p, l) /\ Goto(p, "load_state") /\ UNCHANGED <<state, ckpt, lost, halted>>
  BY DEF WriteConfig
<1> HIDE DEF l
<1> QED BY <1>2, <1>4, <1>6, <1>7, QuietStep DEF Labels

\* Everybody else when p writes the state or the checkpoint: who held a state is stale.
LEMMA OthersFit ==
    ASSUME WorkerInv, NEW p \in Procs, NEW q \in Procs \ {p},
           pc'[q] = pc[q], loc'[q] = Outdated(p)[q], lost => lost'
    PROVE  Fits(pc[q], loc[q])'
<1>1. loc[q] \in Locals /\ Fits(pc[q], loc[q])
  BY DEF WorkerInv, TypeOK
<1>2. CASE q \in Holding
  <2>1. loc'[q] = [loc[q] EXCEPT !.stale = TRUE]
    BY <1>2 DEF Outdated
  <2>2. /\ loc'[q].op = loc[q].op /\ loc'[q].seen = loc[q].seen
        /\ loc'[q].units = loc[q].units /\ loc'[q].stale
    BY <1>1, <2>1 DEF Locals
  <2> QED BY <1>1, <2>2 DEF Fits
<1>3. CASE q \notin Holding
  <2>1. loc'[q] = loc[q]
    BY <1>3 DEF Outdated
  <2>2. pc[q] \notin HoldLabels
    BY <1>3 DEF Holding, HoldLabels
  <2>3. pc[q] \notin Saving
    BY <2>2 DEF HoldLabels, Saving
  <2> QED BY <1>1, <2>1, <2>2, <2>3 DEF Fits
<1> QED BY <1>2, <1>3

\* The local variables after such a write keep their types.
LEMMA OutdatedTyped ==
    ASSUME WorkerInv, NEW p \in Procs
    PROVE  Outdated(p) \in [Procs -> Locals] /\ Outdated(p)[p] = loc[p]
<1>1. ASSUME NEW q \in Procs PROVE [loc[q] EXCEPT !.stale = TRUE] \in Locals /\ loc[q] \in Locals
  BY LocTyped DEF WorkerInv, TypeOK
<1> QED BY <1>1 DEF Outdated

\* save_checkpoint: a step that is not stale moves the checkpoint forward.
LEMMA WriteCheckpointStep ==
    ASSUME WorkerInv, NEW p \in Procs, WriteCheckpoint(p)
    PROVE  WorkerInv'
<1>1. loc[p] \in Locals /\ Fits("write_ckpt", loc[p]) /\ state \in States /\ ckpt \in 0 .. Total
  BY DEF WorkerInv, TypeOK, WriteCheckpoint
<1>2. /\ loc[p].op = "step" /\ loc[p].seen.running /\ loc[p].seen.units <= loc[p].units
      /\ ~loc[p].stale /\ ~lost => loc[p].seen = state
  BY <1>1 DEF Fits, Placed, HoldLabels
<1>3. loc[p].units \in 0 .. Total /\ loc[p].stale \in BOOLEAN
  BY <1>1, LocFields
<1>4. ckpt' = loc[p].units /\ lost' = (lost \/ loc[p].stale) /\ loc' = Outdated(p)
  BY DEF WriteCheckpoint, Checkpoint
<1>5. TypeOK'
  <2>1. pc' \in [Procs -> Labels]
    BY DEF WorkerInv, TypeOK, WriteCheckpoint, Goto, Labels
  <2>2. lost' \in BOOLEAN /\ torn' \subseteq Files /\ disturbed' \in BOOLEAN
    BY <1>3, <1>4 DEF WorkerInv, TypeOK, WriteCheckpoint, Written, Files, Disturbs
  <2> QED BY <1>3, <1>4, <2>1, <2>2, OutdatedTyped DEF WorkerInv, TypeOK, WriteCheckpoint
<1>6. Kept'
  BY <1>2, <1>4 DEF WorkerInv, Kept, WriteCheckpoint
<1>7. ASSUME NEW q \in Procs PROVE Fits(pc[q], loc[q])'
  <2>1. CASE q = p
    <3>1. pc'[p] = "save_state" /\ loc'[p] = loc[p]
      BY <1>4, OutdatedTyped DEF WorkerInv, TypeOK, WriteCheckpoint, Goto
    <3> QED BY <1>2, <1>4, <2>1, <3>1 DEF Fits, Placed, HoldLabels, Saving, Early, WriteCheckpoint
  <2>2. CASE q # p
    <3>1. pc'[q] = pc[q]
      BY <2>2 DEF WorkerInv, TypeOK, WriteCheckpoint, Goto
    <3> QED BY <1>4, <2>2, <3>1, OthersFit
  <2> QED BY <2>1, <2>2
<1> QED BY <1>5, <1>6, <1>7 DEF WorkerInv

\* What p is about to write: it has the right type, and unless p is stale it claims no
\* more than the checkpoint and no less than the state, and makes a worker run, or do
\* units, only if that ran already or p restarts it.
LEMMA NewStateKept ==
    ASSUME WorkerInv, NEW p \in Procs, pc[p] = "write_state"
    PROVE  /\ NewState(p) \in States
           /\ ~lost /\ ~loc[p].stale =>
                 /\ state.units <= NewState(p).units /\ NewState(p).units <= ckpt
                 /\ ~state.running /\ Op(p) # "restart" =>
                       ~NewState(p).running /\ NewState(p).units = state.units
<1> DEFINE s == loc[p].seen
           u == loc[p].units
<1>1. loc[p] \in Locals /\ Fits("write_state", loc[p]) /\ ckpt \in 0 .. Total
  BY DEF WorkerInv, TypeOK
<1>2. s \in States /\ u \in 0 .. Total /\ loc[p].hash \in MaybeHash /\ Op(p) \in OpNames
  BY <1>1, LocFields DEF Op
<1>3. s.running \in BOOLEAN /\ s.units \in 0 .. Total
  BY <1>2, StateTyped
<1>4. ~lost /\ ~loc[p].stale => s = state /\ state.units <= ckpt
  BY <1>1 DEF WorkerInv, Kept, Fits, HoldLabels
<1>5. Op(p) \in {"step", "restart", "stop", "swap", "repair", "init"}
  BY <1>1, <1>2 DEF Fits, Placed, Saving, OpNames, Op
<1>6. CASE Op(p) = "step"
  <2>1. s.running /\ s.units <= u /\ (~lost /\ ~loc[p].stale => ckpt = u)
    BY <1>1, <1>6 DEF Fits, HoldLabels, Saving, Op
  <2>2. NewState(p) = Worked(s, u)
    BY <1>6 DEF NewState, Op
  <2>3. Worked(s, u) \in States
    BY <1>2, <1>3, StateTyped DEF Worked
  <2>4. Worked(s, u).units = u
    BY <1>2 DEF Worked, States
  <2> HIDE DEF s, u
  <2>5. ASSUME ~lost, ~loc[p].stale
        PROVE  state.running /\ state.units <= u /\ u <= ckpt
    <3>1. s = state /\ ckpt = u
      BY <1>4, <2>1, <2>5
    <3> QED BY <1>1, <2>1, <3>1
  <2> QED BY <2>2, <2>3, <2>4, <2>5
<1>7. CASE Op(p) = "restart"
  <2>1. ~lost /\ ~loc[p].stale => ckpt = u
    BY <1>1, <1>7 DEF Fits, HoldLabels, Saving, Op
  <2>2. NewState(p) = Restarted(s, u)
    BY <1>7 DEF NewState, Op
  <2>3. Restarted(s, u) \in States
    BY <1>2, StateTyped DEF Restarted
  <2>4. Restarted(s, u).units = u
    BY <1>2 DEF Restarted, States
  <2> HIDE DEF s, u
  <2> QED BY <1>1, <1>2, <1>4, <1>7, <2>1, <2>2, <2>3, <2>4
<1>8. CASE Op(p) \in {"stop", "swap", "repair", "init"}
  <2>1. NewState(p) \in States
    <3>1. CASE Op(p) = "stop"
      BY <1>2, <3>1, StateTyped DEF NewState, Op
    <3>2. CASE Op(p) = "swap"
      BY <1>2, <3>2, StateTyped DEF NewState, Op
    <3>3. CASE Op(p) = "repair"
      BY <1>2, <3>3, StateTyped DEF NewState, Op
    <3>4. CASE Op(p) = "init"
      BY <1>2, <3>4 DEF NewState, Op
    <3> QED BY <1>8, <3>1, <3>2, <3>3, <3>4
  <2>2. NewState(p).units = s.units /\ NewState(p).running \in {s.running, FALSE}
    <3>1. CASE Op(p) = "stop"
      BY <1>2, <3>1 DEF NewState, Op, States
    <3>2. CASE Op(p) = "swap"
      BY <1>2, <3>2 DEF NewState, Op, States
    <3>3. CASE Op(p) = "repair"
      BY <1>2, <3>3 DEF NewState, Op, States
    <3>4. CASE Op(p) = "init"
      BY <1>2, <3>4 DEF NewState, Op, States
    <3> QED BY <1>8, <3>1, <3>2, <3>3, <3>4
  <2> HIDE DEF s
  <2>3. ASSUME ~lost, ~loc[p].stale
        PROVE  /\ NewState(p).units = state.units /\ state.units <= ckpt
               /\ state.units <= NewState(p).units
               /\ ~state.running => ~NewState(p).running
    <3>1. s = state /\ state.units <= ckpt
      BY <1>4, <2>3
    <3>2. NewState(p).units = state.units /\ state.units \in 0 .. Total
      BY <1>3, <2>2, <3>1
    <3>3. ~state.running => ~NewState(p).running
      BY <2>2, <3>1
    <3> QED BY <3>1, <3>2, <3>3
  <2> QED BY <2>1, <2>3
<1> QED BY <1>5, <1>6, <1>7, <1>8

\* save_state: the method is over.
LEMMA WriteStateStep ==
    ASSUME WorkerInv, NEW p \in Procs, WriteState(p)
    PROVE  WorkerInv'
<1> DEFINE label == IF loc[p].then # "end" THEN loc[p].then
                    ELSE IF p = Supervisor THEN "new" ELSE "gone"
<1>1. loc[p] \in Locals /\ pc[p] = "write_state"
  BY DEF WorkerInv, TypeOK, WriteState
<1>2. /\ loc[p].then \in Thens /\ loc[p].want \in MaybeHash
      /\ loc[p].rounds \in 0 .. MaxRounds /\ loc[p].stale \in BOOLEAN
  BY <1>1, LocFields
<1>3. label \in Labels /\ label \notin HoldLabels \cup Early
  BY <1>2 DEF Labels, Thens, HoldLabels, Early
<1>4. Returned(p) \in Locals
  BY <1>2, IdleTyped, LocTyped DEF Returned
<1> HIDE DEF label
<1>5. /\ state' = NewState(p) /\ lost' = (lost \/ loc[p].stale)
      /\ halted' = (halted /\ Op(p) # "restart")
      /\ loc' = [Outdated(p) EXCEPT ![p] = Returned(p)]
      /\ Goto(p, label) /\ UNCHANGED <<config, ckpt, blocked, crashes>>
  BY DEF WriteState, label
<1>6. TypeOK'
  <2>1. pc' \in [Procs -> Labels]
    BY <1>3, <1>5 DEF WorkerInv, TypeOK, Goto
  <2>2. loc' \in [Procs -> Locals]
    BY <1>4, <1>5, OutdatedTyped
  <2>3. state' \in States
    BY <1>1, <1>5, NewStateKept
  <2>4. /\ lost' \in BOOLEAN /\ torn' \subseteq Files /\ disturbed' \in BOOLEAN
        /\ halted' \in BOOLEAN /\ orderly' \in BOOLEAN
    BY <1>2, <1>5 DEF WorkerInv, TypeOK, WriteState, Written, Files, Disturbs
  <2> QED BY <1>5, <2>1, <2>2, <2>3, <2>4 DEF WorkerInv, TypeOK
<1>7. Kept'
  <2>1. ASSUME ~lost' PROVE state'.units <= ckpt'
    BY <1>1, <1>5, <2>1, NewStateKept
  <2>2. ASSUME halted', ~lost' PROVE ~state'.running
    <3>1. ~state.running
      BY <1>5, <2>2 DEF WorkerInv, Kept
    <3> QED BY <1>1, <1>5, <2>2, <3>1, NewStateKept
  <2> QED BY <2>1, <2>2 DEF Kept
<1>8. ASSUME NEW q \in Procs PROVE Fits(pc[q], loc[q])'
  <2>1. CASE q = p
    <3>1. pc'[p] = label
      BY <1>5 DEF WorkerInv, TypeOK, Goto
    <3> QED BY <1>3, <2>1, <3>1 DEF Fits, Placed, HoldLabels, Saving, Early
  <2>2. CASE q # p
    <3>1. pc'[q] = pc[q] /\ loc'[q] = Outdated(p)[q]
      BY <1>5, <2>2, OutdatedTyped DEF WorkerInv, TypeOK, Goto
    <3> QED BY <1>5, <2>2, <3>1, OthersFit
  <2> QED BY <2>1, <2>2
<1> QED BY <1>6, <1>7, <1>8 DEF WorkerInv

-------------------------------------------------------------------------------
\* A step of the file accesses.
LEMMA AccessStep ==
    ASSUME WorkerInv, NEW p \in Procs, Access(p)
    PROVE  WorkerInv'
<1>1. CASE StepIdles(p) \/ Raises(p)
  BY <1>1, ExitStep, StillTyped DEF StepIdles, Raises, files, history
<1> QED BY <1>1, LoadConfigStep, StepWorksStep, LoadStateStep, LoadCheckpointStep, TruncateStep,
           WriteConfigStep, WriteCheckpointStep, WriteStateStep DEF Access

\* A pass that failed.
LEMMA FailStep ==
    ASSUME WorkerInv, NEW p \in Procs, PassFails(p)
    PROVE  WorkerInv'
<1>1. GlobalsTyped'
  BY DEF WorkerInv, TypeOK, GlobalsTyped, PassFails, files, history
<1> QED BY <1>1, ExitStep DEF PassFails, files, history

\* A step of a reconcile pass or a preflight.
LEMMA PassStep ==
    ASSUME WorkerInv, NEW p \in Procs, Pass(p)
    PROVE  WorkerInv'
<1>1. loc[p] \in Locals /\ Repository \in MaybeHash
  BY RepositoryTyped DEF WorkerInv, TypeOK, MaybeHash
<1>2. CASE NothingStale(p)
  BY <1>2, ExitStep, StillTyped DEF NothingStale, files, history
<1>3. CASE Stale(p)
  <2>1. SetLoc(p, loc[p]) /\ Goto(p, "preflight") /\ Fits("preflight", loc[p])
    BY <1>3, FreeFits DEF Stale, SetLoc, WorkerInv, TypeOK, HoldLabels, Early
  <2> QED BY <1>1, <1>3, <2>1, QuietStep, StillTyped DEF Stale, Labels, files, history
<1>4. CASE PreflightReady(p)
  <2>1. UNCHANGED <<files, blocked, crashes, history>>
    BY <1>4 DEF PreflightReady
  <2>2. CASE loc[p].want = NoHash
    BY <1>4, <2>1, <2>2, ExitStep, StillTyped DEF PreflightReady, files, history
  <2>3. CASE loc[p].want # NoHash
    <3> DEFINE w == IF loc[p].rounds > 0 THEN Repository ELSE loc[p].want
               l == [loc[p] EXCEPT !.want = w]
    <3>1. l \in Locals
      BY <1>1, LocFields, LocTyped
    <3>2. Call(p, l, "relaunch", "confirm")
      BY <1>4, <2>3 DEF PreflightReady
    <3> HIDE DEF l
    <3> QED BY <2>1, <3>1, <3>2, CallStep, StillTyped DEF OpNames, Thens, files, history
  <2> QED BY <2>2, <2>3
<1>5. CASE PreflightRepairs(p)
  <2> DEFINE l == [loc[p] EXCEPT !.rounds = @ + 1]
  <2>1. loc[p].rounds + 1 \in 0 .. MaxRounds
    BY <1>1, <1>5, LocFields, WorkerAssumption DEF PreflightRepairs
  <2>2. l \in Locals
    BY <1>1, <2>1, LocTyped
  <2>3. Call(p, l, "repair", "preflight") /\ UNCHANGED <<files, blocked, crashes, history>>
    BY <1>5 DEF PreflightRepairs
  <2> HIDE DEF l
  <2> QED BY <2>2, <2>3, CallStep, StillTyped DEF OpNames, Thens, files, history
<1>6. CASE OutOfRounds(p)
  BY <1>6, FailStep DEF OutOfRounds
<1>7. CASE Repair(p)
  <2> DEFINE l == [loc[p] EXCEPT !.hash = Repository]
  <2>1. l \in Locals
    BY <1>1, LocTyped
  <2>2. SetLoc(p, l) /\ Goto(p, "load_state") /\ UNCHANGED <<files, blocked, crashes, history>>
    BY <1>7 DEF Repair, Authorized
  <2>3. l.op = loc[p].op /\ loc[p].op # "none"
    BY <1>1, <1>7 DEF Locals, WorkerInv, Fits, Placed, Early, Repair, At
  <2> HIDE DEF l
  <2>4. Fits("load_state", l)
    BY <2>3, EarlyFits DEF Early
  <2> QED BY <2>1, <2>2, <2>4, QuietStep, StillTyped DEF Labels, files, history
<1>8. CASE Confirm(p)
  <2>1. CASE Current(p)
    BY <1>8, <2>1, ExitStep, StillTyped DEF Confirm, files, history
  <2>2. CASE ~Current(p)
    BY <1>8, <2>2, FailStep DEF Confirm
  <2> QED BY <2>1, <2>2
<1> QED BY <1>2, <1>3, <1>4, <1>5, <1>6, <1>7, <1>8 DEF Pass

\* A step of the supervisor's tick, or a stop.
LEMMA SuperviseStep ==
    ASSUME WorkerInv, Supervise \/ StopRequested
    PROVE  WorkerInv'
<1> DEFINE p == Supervisor
<1>1. p \in Procs /\ loc[p] \in Locals /\ Repository \in MaybeHash
  BY RepositoryTyped DEF WorkerInv, TypeOK, MaybeHash, Procs
<1> HIDE DEF p
<1>2. CASE Tick
  <2> DEFINE l == [IdleLoc EXCEPT !.want = Repository]
  <2>1. l \in Locals
    BY <1>1, IdleTyped, LocTyped
  <2>2. SetLoc(p, l) /\ Goto(p, "observe") /\ UNCHANGED <<state, ckpt, lost, halted>>
    BY <1>2 DEF Tick, Desired, p, files
  <2>3. GlobalsTyped'
    BY <1>2 DEF WorkerInv, TypeOK, GlobalsTyped, Tick, files
  <2> HIDE DEF l
  <2>4. Fits("observe", l)
    BY FreeFits DEF HoldLabels, Early
  <2> QED BY <1>1, <2>1, <2>2, <2>3, <2>4, QuietStep DEF Labels
<1>3. CASE AllWell
  <2>1. SetLoc(p, loc[p]) /\ Goto(p, "compare") /\ Fits("compare", loc[p])
    BY <1>3, <1>1, FreeFits DEF AllWell, SetLoc, WorkerInv, TypeOK, HoldLabels, Early, p
  <2> QED BY <1>1, <1>3, <2>1, QuietStep, StillTyped DEF AllWell, Labels, files, history
<1>4. CASE Recover
  <2>1. PICK op \in {"restart", "relaunch"} : Call(p, loc[p], op, "compare")
    BY <1>4 DEF Recover, p
  <2>2. GlobalsTyped' /\ UNCHANGED <<state, ckpt, lost, halted>>
    BY <1>4 DEF WorkerInv, TypeOK, GlobalsTyped, Recover, files
  <2> QED BY <1>1, <2>1, <2>2, CallStep DEF OpNames, Thens
<1>5. CASE StopRequested
  <2>1. GlobalsTyped' /\ UNCHANGED <<state, ckpt, lost, halted>>
    BY <1>5 DEF WorkerInv, TypeOK, GlobalsTyped, StopRequested, files
  <2>2. Call(p, IdleLoc, "stop", "verify")
    BY <1>5 DEF StopRequested, p
  <2> QED BY <1>1, <2>1, <2>2, IdleTyped, CallStep DEF OpNames, Thens
<1>6. CASE Verify
  <2>1. GlobalsTyped' /\ UNCHANGED <<state, ckpt, lost>> /\ (halted' => halted \/ ~state.running)
    BY <1>6 DEF WorkerInv, TypeOK, GlobalsTyped, Verify, Verified, files
  <2>2. SetLoc(p, loc[p]) /\ Goto(p, "gone") /\ Fits("gone", loc[p])
    BY <1>1, <1>6, FreeFits DEF Verify, SetLoc, WorkerInv, TypeOK, HoldLabels, Early, p
  <2> QED BY <1>1, <2>1, <2>2, QuietStep DEF Labels
<1> QED BY <1>2, <1>3, <1>4, <1>5, <1>6 DEF Supervise

\* A command begins.
LEMMA BeginStep ==
    ASSUME WorkerInv, NEW c \in Commands, Begin(c)
    PROVE  WorkerInv'
<1>1. c \in Procs /\ Repository \in MaybeHash
  BY RepositoryTyped DEF WorkerInv, Procs, MaybeHash
<1>2. GlobalsTyped' /\ UNCHANGED <<state, ckpt, lost, halted>>
  BY DEF WorkerInv, TypeOK, GlobalsTyped, Begin, Step, SwapConfig, InitAgain, Reconcile,
         PreflightRepair, Starts, files
<1>3. CASE Step(c) \/ InitAgain(c)
  <2>1. PICK op \in {"step", "init"} : Call(c, IdleLoc, op, "end")
    BY <1>3 DEF Step, InitAgain
  <2> QED BY <1>1, <1>2, <2>1, IdleTyped, CallStep DEF OpNames, Thens
<1>4. ASSUME NEW hash \in Hashes, SwapConfig(c, hash) PROVE WorkerInv'
  <2> DEFINE l == [IdleLoc EXCEPT !.hash = hash]
  <2>1. l \in Locals
    BY IdleTyped, LocTyped DEF MaybeHash
  <2>2. Call(c, l, "swap", "end")
    BY <1>4 DEF SwapConfig
  <2> HIDE DEF l
  <2> QED BY <1>1, <1>2, <2>1, <2>2, CallStep DEF OpNames, Thens
<1>5. CASE Reconcile(c)
  <2> DEFINE l == [IdleLoc EXCEPT !.want = Repository]
  <2>1. l \in Locals
    BY <1>1, IdleTyped, LocTyped
  <2>2. SetLoc(c, l) /\ Goto(c, "compare")
    BY <1>5 DEF Reconcile
  <2> HIDE DEF l
  <2>3. Fits("compare", l)
    BY FreeFits DEF HoldLabels, Early
  <2> QED BY <1>1, <1>2, <2>1, <2>2, <2>3, QuietStep DEF Labels
<1>6. CASE PreflightRepair(c)
  <2>1. SetLoc(c, IdleLoc) /\ Goto(c, "preflight") /\ Fits("preflight", IdleLoc)
    BY <1>6, FreeFits DEF PreflightRepair, HoldLabels, Early
  <2> QED BY <1>1, <1>2, <2>1, IdleTyped, QuietStep DEF Labels
<1> QED BY <1>3, <1>4, <1>5, <1>6 DEF Begin

\* A crash.
LEMMA CrashStep ==
    ASSUME WorkerInv, NEW p \in Procs, Crash(p)
    PROVE  WorkerInv'
<1>1. GlobalsTyped'
  BY WorkerAssumption DEF WorkerInv, TypeOK, GlobalsTyped, Crash, files, history
<1> QED BY <1>1, ExitStep DEF Crash, files, history

\* Every step preserves the invariant.
LEMMA WorkerStep == WorkerInv /\ [Next]_vars => WorkerInv'
<1> SUFFICES ASSUME WorkerInv, [Next]_vars PROVE WorkerInv'
  OBVIOUS
<1>1. CASE UNCHANGED vars
  <2>1. TypeOK'
    BY <1>1 DEF WorkerInv, TypeOK, vars, files, history
  <2>2. Kept'
    BY <1>1 DEF WorkerInv, Kept, vars, files, history
  <2>3. ASSUME NEW p \in Procs PROVE Fits(pc[p], loc[p])'
    BY <1>1 DEF WorkerInv, Fits, vars, files, history
  <2> QED BY <2>1, <2>2, <2>3 DEF WorkerInv
<1>2. CASE Next
  BY <1>2, AccessStep, PassStep, CrashStep, SuperviseStep, BeginStep DEF Next
<1> QED BY <1>1, <1>2

\* The invariant holds in every state.
THEOREM WorkerInvariant == Spec => []WorkerInv
BY WorkerInit, WorkerStep, PTL DEF Spec

\* Types, with completed units never past total_units.
THEOREM WorkerTypes == Spec => []TypeOK
<1>1. WorkerInv => TypeOK
  BY DEF WorkerInv
<1> QED BY <1>1, WorkerInvariant, PTL

\* The worker state never claims units the checkpoint does not have, wherever processes
\* die, unless a write overwrote a change its process had not seen.
THEOREM ProgressIsKept == Spec => []ProgressKept
<1>1. WorkerInv => ProgressKept
  BY DEF WorkerInv, Kept, ProgressKept
<1> QED BY <1>1, WorkerInvariant, PTL

\* Only a write of the state changes it.
LEMMA StateChanges ==
    ASSUME Next PROVE state' = state \/ \E p \in Procs : WriteState(p)
<1>1. ASSUME NEW p \in Procs, Access(p) \/ Pass(p) \/ Crash(p), ~WriteState(p)
      PROVE  state' = state
  <2>1. CASE Access(p)
    BY <1>1, <2>1 DEF Access, LoadConfig, StepIdles, StepWorks, LoadState, LoadCheckpoint,
           SaveConfig, SaveCheckpoint, SaveState, Truncate, WriteConfig, WriteCheckpoint,
           Raises, files
  <2>2. CASE Pass(p)
    BY <2>2 DEF Pass, NothingStale, Stale, PreflightReady, PreflightRepairs, OutOfRounds,
           PassFails, Repair, Confirm, files
  <2>3. CASE Crash(p)
    BY <2>3 DEF Crash, files
  <2> QED BY <1>1, <2>1, <2>2, <2>3
<1>2. ASSUME Supervise \/ StopRequested PROVE state' = state
  BY <1>2 DEF Supervise, Tick, AllWell, Recover, Verify, StopRequested, files
<1>3. ASSUME NEW c \in Commands, Begin(c) PROVE state' = state
  BY <1>3 DEF Begin, Step, SwapConfig, InitAgain, Reconcile, PreflightRepair, Starts, files
<1> QED BY <1>1, <1>2, <1>3 DEF Next

\* Completed units are never taken back, by a restart or any other write, unless a write
\* overwrote a change its process had not seen.
THEOREM UnitsAreNotTakenBack == Spec => UnitsNeverGoBack
<1>1. ASSUME WorkerInv, [Next]_vars, state'.units < state.units PROVE lost'
  <2>1. state.units \in 0 .. Total
    BY <1>1, StateTyped DEF WorkerInv, TypeOK
  <2>2. state' # state
    BY <1>1, <2>1
  <2>3. Next
    BY <1>1, <2>2 DEF vars, files
  <2>4. PICK p \in Procs : WriteState(p)
    BY <2>2, <2>3, StateChanges
  <2>5. state' = NewState(p) /\ lost' = (lost \/ loc[p].stale) /\ pc[p] = "write_state"
    BY <2>4 DEF WriteState
  <2>6. SUFFICES ASSUME ~lost, ~loc[p].stale PROVE FALSE
    <3>1. loc[p].stale \in BOOLEAN /\ lost \in BOOLEAN
      BY <1>1, LocFields DEF WorkerInv, TypeOK
    <3> QED BY <2>5, <3>1
  <2>7. NewState(p) \in States /\ state.units <= NewState(p).units
    BY <1>1, <2>5, <2>6, NewStateKept
  <2>8. NewState(p).units \in 0 .. Total
    BY <2>7, StateTyped
  <2> QED BY <1>1, <2>1, <2>5, <2>7, <2>8
<1> QED BY <1>1, WorkerInvariant, PTL DEF Spec, UnitsNeverGoBack

\* After a verified stop the worker does not run and does no units before a restart,
\* unless a write overwrote a change its process had not seen.
THEOREM StopsHold == Spec => StopHolds
<1> DEFINE Holds == halted' /\ ~lost' =>
                       ~state'.running /\ (halted => state'.units = state.units)
<1>1. ASSUME WorkerInv, [Next]_vars PROVE Holds
  <2>1. SUFFICES ASSUME halted', ~lost'
                 PROVE  ~state'.running /\ (halted => state'.units = state.units)
    OBVIOUS
  <2>2. ~state'.running
    BY <1>1, <2>1, WorkerStep DEF WorkerInv, Kept
  <2>3. ASSUME halted PROVE state'.units = state.units
    <3>1. CASE state' = state
      BY <3>1
    <3>2. CASE state' # state
      <4>1. Next
        BY <1>1, <3>2 DEF vars, files
      <4>2. PICK p \in Procs : WriteState(p)
        BY <3>2, <4>1, StateChanges
      <4>3. /\ state' = NewState(p) /\ lost' = (lost \/ loc[p].stale) /\ pc[p] = "write_state"
            /\ halted' = (halted /\ Op(p) # "restart")
        BY <4>2 DEF WriteState
      <4>4. ~lost /\ ~loc[p].stale /\ Op(p) # "restart"
        BY <2>1, <4>3
      <4>5. ~state.running
        BY <1>1, <2>3, <4>4 DEF WorkerInv, Kept
      <4> QED BY <1>1, <4>3, <4>4, <4>5, NewStateKept
    <3> QED BY <3>1, <3>2
  <2> QED BY <2>2, <2>3
<1>2. Holds => [Holds]_vars
  OBVIOUS
<1> QED BY <1>1, WorkerInvariant, PTL DEF Spec, StopHolds

-------------------------------------------------------------------------------
\* Turns: `running` as a lock.

StepLabels == {"load_config", "load_state"} \cup {"save_ckpt", "write_ckpt"} \cup Saving
RelaunchLabels == {"load_config", "load_state", "save_config", "write_config"}
RestartLabels == {"load_state", "load_ckpt"} \cup Saving
Away == {"new", "gone"}

\* A command of an orderly run is a step, which holds the state only while the worker runs.
StepTurn(label, l) ==
    \/ label \in Away
    \/ /\ l.op = "step" /\ l.then = "end" /\ label \in StepLabels
       /\ label \in HoldLabels => state.running /\ l.seen.pending = NoHash

\* The supervisor recovers only a worker that does not run, and never deploys anything.
RecoveryTurn(label, l) ==
    \/ label \in Away
    \/ /\ l.want = config
       /\ \/ label \in {"observe", "compare"}
          \/ /\ ~state.running /\ l.then = "compare"
             /\ \/ /\ l.op = "relaunch" /\ label \in RelaunchLabels
                   /\ label # "load_config" => l.hash = config
                \/ /\ l.op = "restart" /\ label \in RestartLabels
                   /\ label \in HoldLabels => l.seen.pending = NoHash

Turn(p, label, l) ==
    /\ ~l.stale
    /\ IF p = Supervisor THEN RecoveryTurn(label, l) ELSE StepTurn(label, l)

\* In an orderly run nobody holds a stale state: the worker either runs, and only one
\* step may hold its state, or it does not, and only the supervisor may.
TurnInv ==
    orderly =>
      /\ ~lost /\ state.pending = NoHash
      /\ \A p \in Procs : Turn(p, pc[p], loc[p])
      /\ \A c \in Commands : pc[c] \notin Away => Alone(c)

\* A command is not the supervisor.
LEMMA CommandsApart == \A c \in Commands : c # Supervisor /\ c \in Procs
BY WorkerAssumption DEF Commands, Procs

\* At first nobody has begun.
LEMMA TurnInit == Init => TurnInv
<1> SUFFICES ASSUME Init PROVE TurnInv
  OBVIOUS
<1>1. ASSUME NEW p \in Procs PROVE pc[p] = "new" /\ loc[p] = IdleLoc
  BY <1>1 DEF Init
<1>2. ASSUME NEW p \in Procs PROVE Turn(p, pc[p], loc[p])
  BY <1>1 DEF Turn, RecoveryTurn, StepTurn, Away, IdleLoc
<1>3. ASSUME NEW c \in Commands PROVE pc[c] \in Away
  BY <1>1, CommandsApart DEF Away
<1> QED BY <1>2, <1>3 DEF Init, TurnInv, Fresh

\* A step of p that writes neither the state nor the config.
LEMMA TurnQuiet ==
    ASSUME WorkerInv, TurnInv, NEW p \in Procs, NEW label, NEW l,
           Goto(p, label), SetLoc(p, l), UNCHANGED <<state, config, lost>>,
           orderly' => orderly, orderly' => Turn(p, label, l),
           orderly' /\ p \in Commands /\ label \notin Away => Alone(p)
    PROVE  TurnInv'
<1> SUFFICES ASSUME orderly' PROVE TurnInv'
  BY DEF TurnInv
<1>1. pc' = [pc EXCEPT ![p] = label] /\ loc' = [loc EXCEPT ![p] = l]
  BY DEF Goto, SetLoc
<1>2. pc \in [Procs -> Labels] /\ loc \in [Procs -> Locals]
  BY DEF WorkerInv, TypeOK
<1>3. ~lost' /\ state'.pending = NoHash
  BY DEF TurnInv
<1>4. ASSUME NEW q \in Procs PROVE Turn(q, pc[q], loc[q])'
  <2>1. Turn(q, pc'[q], loc'[q])
    BY <1>1, <1>2 DEF TurnInv
  <2> QED BY <2>1 DEF Turn, StepTurn, RecoveryTurn
<1>5. ASSUME NEW c \in Commands, pc'[c] \notin Away PROVE Alone(c)'
  <2>1. ASSUME NEW d \in Commands \ {c} PROVE pc'[d] \in Away
    <3>1. c \in Procs /\ d \in Procs
      BY CommandsApart
    <3>2. CASE p = c
      BY <1>1, <1>2, <1>5, <3>1, <3>2 DEF Alone, Away
    <3>3. CASE p = d
      <4>1. pc[c] \notin Away
        BY <1>1, <1>2, <1>5, <3>1, <3>3
      <4> QED BY <1>1, <1>2, <1>5, <3>1, <3>3, <4>1 DEF Alone, Away
    <3>4. CASE p # c /\ p # d
      BY <1>1, <1>2, <1>5, <3>1, <3>4 DEF TurnInv, Alone, Away
    <3> QED BY <3>2, <3>3, <3>4
  <2> QED BY <2>1 DEF Alone, Away
<1> QED BY <1>3, <1>4, <1>5 DEF TurnInv

\* Who holds the state in an orderly run is the only one.
LEMMA SoleHolder ==
    ASSUME WorkerInv, TurnInv, orderly, NEW p \in Procs, pc[p] \in HoldLabels
    PROVE  Outdated(p) = loc
<1>1. ASSUME NEW q \in Procs \ {p} PROVE q \notin Holding
  <2>1. Turn(p, pc[p], loc[p]) /\ Turn(q, pc[q], loc[q])
    BY DEF TurnInv
  <2>2. pc[p] \notin Away
    BY DEF Away, HoldLabels
  <2>3. CASE p # Supervisor /\ q # Supervisor
    BY <2>2, <2>3 DEF TurnInv, Alone, Away, Holding, Procs
  <2>4. CASE p = Supervisor
    <3>1. q # Supervisor /\ ~state.running
      BY <2>1, <2>2, <2>4 DEF Turn, RecoveryTurn, HoldLabels
    <3> QED BY <2>1, <3>1 DEF Turn, StepTurn, HoldLabels, Holding, Away
  <2>5. CASE q = Supervisor
    <3>1. p # Supervisor /\ state.running
      BY <2>1, <2>2, <2>5 DEF Turn, StepTurn
    <3> QED BY <2>1, <2>5, <3>1 DEF Turn, RecoveryTurn, HoldLabels, Holding, Away
  <2> QED BY <2>3, <2>4, <2>5
<1>2. loc \in [Procs -> Locals]
  BY DEF WorkerInv, TypeOK
<1> QED BY <1>1, <1>2 DEF Outdated

\* A process that exits.
LEMMA TurnExit ==
    ASSUME WorkerInv, TurnInv, NEW p \in Procs, Exits(p), UNCHANGED <<state, config, lost, orderly>>
    PROVE  TurnInv'
<1> DEFINE label == IF p = Supervisor THEN "new" ELSE "gone"
<1>1. Turn(p, label, IdleLoc) /\ label \in Away
  BY DEF Turn, RecoveryTurn, StepTurn, Away, IdleLoc
<1> QED BY <1>1, TurnQuiet DEF Exits

\* The supervisor's and a command's turn, spelled out.
LEMMA WhoseTurn ==
    ASSUME WorkerInv, TurnInv, orderly, NEW p \in Procs
    PROVE  /\ loc[p] \in Locals /\ state \in States /\ config \in Hashes
           /\ ~loc[p].stale /\ ~lost /\ state.pending = NoHash
           /\ p = Supervisor => RecoveryTurn(pc[p], loc[p])
           /\ p # Supervisor => StepTurn(pc[p], loc[p])
           /\ p # Supervisor /\ pc[p] \notin Away => Alone(p)
BY DEF WorkerInv, TypeOK, TurnInv, Turn, Procs

\* Loads and truncations.
LEMMA TurnLoads ==
    ASSUME WorkerInv, TurnInv, orderly, NEW p \in Procs,
           LoadConfig(p) \/ StepWorks(p) \/ LoadState(p) \/ LoadCheckpoint(p)
    PROVE  TurnInv'
<1> USE WhoseTurn
<1>1. UNCHANGED <<state, config, lost, orderly>>
  BY DEF LoadConfig, StepWorks, LoadState, LoadCheckpoint, files, history
<1>2. pc[p] \notin Away
  BY DEF LoadConfig, StepWorks, LoadState, LoadCheckpoint, At, Away
<1>3. CASE LoadConfig(p)
  <2> DEFINE l == IF Op(p) = "relaunch" THEN [loc[p] EXCEPT !.hash = config] ELSE loc[p]
  <2>1. /\ l.op = loc[p].op /\ l.then = loc[p].then /\ l.stale = loc[p].stale
        /\ l.want = loc[p].want /\ (l.op = "relaunch" => l.hash = config)
    BY DEF Locals, Op
  <2>2. pc[p] = "load_config" /\ Goto(p, "load_state") /\ SetLoc(p, l)
    BY <1>3 DEF LoadConfig, At
  <2> HIDE DEF l
  <2>3. Turn(p, "load_state", l)
    <3>1. CASE p = Supervisor
      BY <2>1, <2>2, <3>1 DEF Turn, RecoveryTurn, RelaunchLabels, RestartLabels, Saving, HoldLabels, Away
    <3>2. CASE p # Supervisor
      BY <2>1, <2>2, <3>2 DEF Turn, StepTurn, StepLabels, HoldLabels, Away
    <3> QED BY <3>1, <3>2
  <2> QED BY <1>1, <1>2, <2>2, <2>3, TurnQuiet, CommandsApart
<1>4. CASE StepWorks(p)
  <2>1. PICK r \in 0 .. Total + MaxCount :
          SetLoc(p, [loc[p] EXCEPT !.seen = state, !.units = r]) /\ Goto(p, "save_ckpt")
    BY <1>4 DEF StepWorks, FirstSave
  <2> DEFINE l == [loc[p] EXCEPT !.seen = state, !.units = r]
  <2>2. /\ l.op = "step" /\ l.then = loc[p].then /\ l.stale = loc[p].stale /\ l.seen = state
        /\ loc[p].op = "step" /\ state.running
    BY <1>4 DEF Locals, Op, StepWorks, Works
  <2> HIDE DEF l
  <2>3. p # Supervisor /\ l.then = "end"
    BY <1>2, <1>4, <2>2 DEF RecoveryTurn, StepTurn, StepWorks, At
  <2>4. Turn(p, "save_ckpt", l)
    BY <2>2, <2>3 DEF Turn, StepTurn, StepLabels
  <2> QED BY <1>1, <1>2, <2>1, <2>4, TurnQuiet, CommandsApart DEF l
<1>5. CASE LoadState(p)
  <2>1. p = Supervisor /\ Op(p) \in {"relaunch", "restart"} /\ pc[p] = "load_state"
    BY <1>2, <1>5 DEF LoadState, At, Op, StepTurn, RecoveryTurn
  <2>2. CASE Op(p) = "relaunch"
    <3> DEFINE l == [loc[p] EXCEPT !.hash = Adopted(p)]
    <3>1. /\ l.op = loc[p].op /\ l.then = loc[p].then /\ l.stale = loc[p].stale
          /\ l.want = loc[p].want /\ l.hash = loc[p].hash
      BY DEF Locals, Adopted, OrElse
    <3>2. SetLoc(p, l) /\ Goto(p, "save_config")
      BY <1>5, <2>2 DEF LoadState
    <3> HIDE DEF l
    <3>3. Turn(p, "save_config", l)
      BY <1>2, <2>1, <2>2, <3>1 DEF Turn, RecoveryTurn, RelaunchLabels, Op
    <3> QED BY <1>1, <2>1, <3>2, <3>3, TurnQuiet, CommandsApart
  <2>3. CASE Op(p) = "restart"
    <3> DEFINE l == [loc[p] EXCEPT !.seen = state]
    <3>1. /\ l.op = loc[p].op /\ l.then = loc[p].then /\ l.stale = loc[p].stale
          /\ l.want = loc[p].want /\ l.seen = state
      BY DEF Locals
    <3>2. SetLoc(p, l) /\ Goto(p, "load_ckpt")
      BY <1>5, <2>3 DEF LoadState
    <3> HIDE DEF l
    <3>3. Turn(p, "load_ckpt", l)
      BY <1>2, <2>1, <2>3, <3>1 DEF Turn, RecoveryTurn, RestartLabels, Op
    <3> QED BY <1>1, <2>1, <3>2, <3>3, TurnQuiet, CommandsApart
  <2> QED BY <2>1, <2>2, <2>3
<1>6. CASE LoadCheckpoint(p)
  <2> DEFINE l == [loc[p] EXCEPT !.units = ckpt]
  <2>1. /\ l.op = loc[p].op /\ l.then = loc[p].then /\ l.stale = loc[p].stale
        /\ l.want = loc[p].want /\ l.seen = loc[p].seen
    BY DEF Locals
  <2>2. SetLoc(p, l) /\ Goto(p, "save_state") /\ pc[p] = "load_ckpt"
    BY <1>6 DEF LoadCheckpoint, At
  <2> HIDE DEF l
  <2>3. p = Supervisor
    BY <1>2, <2>2 DEF StepTurn, StepLabels, Saving
  <2>4. Turn(p, "save_state", l)
    BY <1>2, <2>1, <2>2, <2>3 DEF Turn, RecoveryTurn, RestartLabels, RelaunchLabels, HoldLabels, Saving
  <2> QED BY <1>1, <2>2, <2>3, <2>4, TurnQuiet, CommandsApart
<1> QED BY <1>3, <1>4, <1>5, <1>6

\* Truncating a file of one's own turn keeps the turn.
LEMMA TurnTruncates ==
    ASSUME WorkerInv, TurnInv, orderly, NEW p \in Procs,
           SaveConfig(p) \/ SaveCheckpoint(p) \/ SaveState(p)
    PROVE  TurnInv'
<1> USE WhoseTurn
<1>1. UNCHANGED <<state, config, lost, orderly, loc>>
  BY DEF SaveConfig, SaveCheckpoint, SaveState, Truncate
<1>2. PICK label \in {"write_config", "write_ckpt", "write_state"} :
          /\ Goto(p, label)
          /\ label = "write_config" => pc[p] = "save_config"
          /\ label = "write_ckpt" => pc[p] = "save_ckpt"
          /\ label = "write_state" => pc[p] = "save_state"
  BY DEF SaveConfig, SaveCheckpoint, SaveState, Truncate
<1>3. SetLoc(p, loc[p]) /\ pc[p] \notin Away
  BY <1>1, <1>2 DEF SetLoc, WorkerInv, TypeOK, Away
<1>4. Turn(p, label, loc[p])
  <2>1. CASE p = Supervisor
    BY <1>2, <1>3, <2>1 DEF Turn, RecoveryTurn, RestartLabels, RelaunchLabels, HoldLabels, Saving
  <2>2. CASE p # Supervisor
    BY <1>2, <1>3, <2>2 DEF Turn, StepTurn, StepLabels, HoldLabels, Saving
  <2> QED BY <2>1, <2>2
<1> QED BY <1>1, <1>2, <1>3, <1>4, TurnQuiet, CommandsApart

\* So does writing config.json, after which only the restart is left.
LEMMA TurnWriteConfig ==
    ASSUME WorkerInv, TurnInv, orderly, NEW p \in Procs, WriteConfig(p)
    PROVE  TurnInv'
<1> USE WhoseTurn
<1> DEFINE l == [loc[p] EXCEPT !.op = "restart", !.hash = NoHash]
<1>1. pc[p] = "write_config" /\ UNCHANGED <<state, lost, orderly>>
  BY DEF WriteConfig
<1>2. p = Supervisor /\ Op(p) = "relaunch" /\ loc[p].hash = config
  BY <1>1 DEF StepTurn, StepLabels, RecoveryTurn, RestartLabels, HoldLabels, Saving, Away, Op
<1>3. UNCHANGED config
  BY <1>2, WorkerAssumption DEF WriteConfig, OrElse
<1>4. /\ l.op = "restart" /\ l.then = loc[p].then /\ l.stale = loc[p].stale /\ l.want = loc[p].want
  BY DEF Locals
<1>5. SetLoc(p, l) /\ Goto(p, "load_state")
  BY <1>2 DEF WriteConfig
<1> HIDE DEF l
<1>6. Turn(p, "load_state", l)
  BY <1>1, <1>2, <1>4 DEF Turn, RecoveryTurn, RestartLabels, Away, HoldLabels, Saving
<1> QED BY <1>1, <1>2, <1>3, <1>5, <1>6, TurnQuiet, CommandsApart

\* save_checkpoint of the one step that is under way.
LEMMA TurnWriteCheckpoint ==
    ASSUME WorkerInv, TurnInv, orderly, NEW p \in Procs, WriteCheckpoint(p)
    PROVE  TurnInv'
<1> USE WhoseTurn
<1>1. pc[p] = "write_ckpt" /\ UNCHANGED <<state, config, orderly>> /\ Goto(p, "save_state")
  BY DEF WriteCheckpoint
<1>2. loc' = loc /\ UNCHANGED lost
  BY <1>1, SoleHolder DEF WriteCheckpoint, HoldLabels, WorkerInv, TypeOK
<1>3. SetLoc(p, loc[p])
  BY <1>2 DEF SetLoc, WorkerInv, TypeOK
<1>4. p # Supervisor /\ pc[p] \notin Away
  BY <1>1 DEF RecoveryTurn, RestartLabels, RelaunchLabels, Saving, Away
<1>5. Turn(p, "save_state", loc[p])
  BY <1>1, <1>4 DEF Turn, StepTurn, StepLabels, HoldLabels, Saving
<1> QED BY <1>1, <1>2, <1>3, <1>4, <1>5, TurnQuiet, CommandsApart

\* save_state: a step hands the worker over when a unit has crashed it, a recovery when
\* the worker runs again.
LEMMA TurnWriteState ==
    ASSUME WorkerInv, TurnInv, orderly, NEW p \in Procs, WriteState(p)
    PROVE  TurnInv'
<1> USE WhoseTurn
<1> DEFINE label == IF loc[p].then # "end" THEN loc[p].then
                    ELSE IF p = Supervisor THEN "new" ELSE "gone"
<1>1. pc[p] = "write_state" /\ state' = NewState(p) /\ UNCHANGED config
  BY DEF WriteState
<1>2. loc' = [loc EXCEPT ![p] = Returned(p)] /\ ~lost' /\ pc' = [pc EXCEPT ![p] = label]
  BY <1>1, SoleHolder DEF WriteState, HoldLabels, Goto
<1>3. pc[p] \notin Away /\ pc[p] \in HoldLabels
  BY <1>1 DEF Away, HoldLabels
<1>4. loc[p].seen \in States /\ loc[p].seen.pending = NoHash /\ loc[p].want \in MaybeHash
  BY <1>3, LocFields DEF StepTurn, RecoveryTurn, RelaunchLabels, HoldLabels
<1>5. /\ p # Supervisor => Op(p) = "step" /\ loc[p].then = "end"
      /\ p = Supervisor => Op(p) = "restart" /\ loc[p].then = "compare" /\ loc[p].want = config
  BY <1>1, <1>3 DEF StepTurn, RecoveryTurn, RelaunchLabels, Op
<1>6. state'.pending = NoHash
  BY <1>1, <1>4, <1>5 DEF NewState, Worked, Restarted, States, Op
<1>7. ASSUME NEW q \in Procs PROVE Turn(q, pc[q], loc[q])'
  <2>1. pc \in [Procs -> Labels] /\ loc \in [Procs -> Locals]
    BY DEF WorkerInv, TypeOK
  <2>2. CASE q = p
    <3>1. pc'[q] = label /\ loc'[q] = Returned(p)
      BY <1>2, <2>1, <2>2
    <3>2. CASE p # Supervisor
      BY <1>5, <2>2, <3>1, <3>2 DEF Returned, Turn, StepTurn, Away, IdleLoc
    <3>3. CASE p = Supervisor
      <4>1. Returned(p) = [IdleLoc EXCEPT !.want = config, !.rounds = loc[p].rounds]
        BY <1>5, <3>3 DEF Returned
      <4>2. Returned(p).want = config /\ ~Returned(p).stale
        BY <4>1 DEF IdleLoc
      <4> QED BY <1>1, <1>5, <2>2, <3>1, <3>3, <4>2 DEF Turn, RecoveryTurn
    <3> QED BY <3>2, <3>3
  <2>3. CASE q # p
    <3>1. pc'[q] = pc[q] /\ loc'[q] = loc[q]
      BY <1>2, <2>1, <2>3
    <3>2. pc[q] \notin HoldLabels
      <4>1. Turn(p, pc[p], loc[p]) /\ Turn(q, pc[q], loc[q])
        BY DEF TurnInv
      <4>2. CASE p # Supervisor /\ q # Supervisor
        BY <1>3, <2>3, <4>2 DEF Alone, Away, HoldLabels, Procs
      <4>3. CASE p = Supervisor
        BY <1>3, <2>3, <4>1, <4>3 DEF Turn, StepTurn, RecoveryTurn, Away, HoldLabels
      <4>4. CASE q = Supervisor
        BY <1>3, <2>3, <4>1, <4>4 DEF Turn, StepTurn, RecoveryTurn, Away, HoldLabels
      <4> QED BY <4>2, <4>3, <4>4
    <3>3. Turn(q, pc[q], loc[q])
      BY DEF TurnInv
    <3>4. CASE q # Supervisor
      BY <3>1, <3>2, <3>3, <3>4 DEF Turn, StepTurn
    <3>5. CASE q = Supervisor
      <4>1. pc[q] \in Away \cup {"observe", "compare"}
        BY <1>3, <2>3, <3>3, <3>5 DEF Turn, StepTurn, RecoveryTurn, Away, HoldLabels
      <4> QED BY <1>1, <3>1, <3>3, <3>5, <4>1 DEF Turn, RecoveryTurn
    <3> QED BY <3>4, <3>5
  <2> QED BY <2>2, <2>3
<1>8. ASSUME NEW c \in Commands, pc'[c] \notin Away PROVE Alone(c)'
  <2>1. pc \in [Procs -> Labels]
    BY DEF WorkerInv, TypeOK
  <2>2. \A d \in Commands : d \in Procs /\ (pc'[d] \in Away \/ (d # p /\ pc'[d] = pc[d]))
    BY <1>2, <1>5, <2>1, CommandsApart DEF Away
  <2>3. Alone(c)
    BY <1>8, <2>2 DEF TurnInv, Away
  <2> QED BY <2>2, <2>3 DEF Alone, Away
<1> QED BY <1>2, <1>6, <1>7, <1>8 DEF TurnInv

\* The file accesses of an orderly run.
LEMMA TurnAccess ==
    ASSUME WorkerInv, TurnInv, orderly, NEW p \in Procs, Access(p)
    PROVE  TurnInv'
<1>1. CASE StepIdles(p) \/ Raises(p)
  BY <1>1, TurnExit DEF StepIdles, Raises, files, history
<1> QED BY <1>1, TurnLoads, TurnTruncates, TurnWriteConfig, TurnWriteCheckpoint, TurnWriteState
        DEF Access

\* A pass of the supervisor has nothing to do, and no command makes one.
LEMMA TurnPass ==
    ASSUME WorkerInv, TurnInv, orderly, NEW p \in Procs, Pass(p)
    PROVE  TurnInv'
<1>1. pc[p] \in {"compare", "preflight", "repository", "confirm"}
  BY DEF Pass, NothingStale, Stale, PreflightReady, PreflightRepairs, OutOfRounds, Repair,
         Confirm, At
<1>2. pc[p] = "compare" /\ loc[p].want = config
  <2>1. CASE p = Supervisor
    BY <1>1, <2>1, WhoseTurn DEF RecoveryTurn, RelaunchLabels, RestartLabels, Saving, Away
  <2>2. CASE p # Supervisor
    BY <1>1, <2>2, WhoseTurn DEF StepTurn, StepLabels, Saving, Away
  <2> QED BY <2>1, <2>2
<1>3. NothingStale(p)
  BY <1>2 DEF Pass, Stale, Current, PreflightReady, PreflightRepairs, OutOfRounds, Repair,
              Confirm, At
<1> QED BY <1>3, TurnExit DEF NothingStale, files, history

\* A tick, or the start of a recovery; a stop ends the orderly part of a run.
LEMMA TurnSupervise ==
    ASSUME WorkerInv, TurnInv, orderly, Supervise \/ StopRequested
    PROVE  TurnInv'
<1> DEFINE p == Supervisor
<1>1. p \in Procs /\ p \notin Commands
  BY CommandsApart DEF Procs
<1>2. /\ loc[p] \in Locals /\ config \in Hashes /\ state.pending = NoHash /\ ~loc[p].stale
      /\ RecoveryTurn(pc[p], loc[p])
  BY <1>1, WhoseTurn
<1> HIDE DEF p
<1>3. CASE Tick
  <2> DEFINE l == [IdleLoc EXCEPT !.want = Desired]
  <2>1. l.want = config /\ ~l.stale
    BY <1>2 DEF IdleLoc, Desired, Repository, OrElse
  <2>2. SetLoc(p, l) /\ Goto(p, "observe") /\ UNCHANGED <<state, config, lost, orderly>>
    BY <1>3 DEF Tick, files, p
  <2> HIDE DEF l
  <2>3. Turn(p, "observe", l)
    BY <2>1 DEF Turn, RecoveryTurn, p
  <2> QED BY <1>1, <2>2, <2>3, TurnQuiet
<1>4. CASE AllWell
  <2>1. /\ SetLoc(p, loc[p]) /\ Goto(p, "compare") /\ pc[p] = "observe"
        /\ UNCHANGED <<state, config, lost, orderly>>
    BY <1>1, <1>4 DEF AllWell, At, SetLoc, WorkerInv, TypeOK, files, history, p
  <2>2. Turn(p, "compare", loc[p])
    BY <1>2, <2>1 DEF Turn, RecoveryTurn, RelaunchLabels, RestartLabels, Saving, Away, p
  <2> QED BY <1>1, <2>1, <2>2, TurnQuiet
<1>5. CASE Recover
  <2>1. PICK op \in {"restart", "relaunch"} : Call(p, loc[p], op, "compare")
    BY <1>5 DEF Recover, p
  <2> DEFINE l == [loc[p] EXCEPT !.op = op, !.then = "compare"]
  <2>2. l.op = op /\ l.then = "compare" /\ l.want = loc[p].want /\ ~l.stale
    BY <1>2 DEF Locals
  <2>3. SetLoc(p, l) /\ Goto(p, First(op))
    BY <2>1 DEF Call
  <2> HIDE DEF l
  <2>4. /\ pc[p] = "observe" /\ UNCHANGED <<state, config, lost>>
        /\ (orderly' => orderly /\ ~state.running)
    BY <1>5 DEF Recover, At, files, p
  <2>5. l.want = config
    BY <1>2, <2>2, <2>4 DEF RecoveryTurn, RelaunchLabels, RestartLabels, Saving, Away
  <2>6. orderly' => Turn(p, First(op), l)
    BY <2>2, <2>4, <2>5 DEF Turn, RecoveryTurn, First, RelaunchLabels, RestartLabels, HoldLabels,
                            Saving, p
  <2> QED BY <1>1, <2>3, <2>4, <2>6, TurnQuiet
<1>6. CASE StopRequested
  BY <1>6 DEF StopRequested, TurnInv
<1>7. CASE Verify
  BY <1>2, <1>7 DEF Verify, At, RecoveryTurn, RelaunchLabels, RestartLabels, Saving, Away, p
<1> QED BY <1>3, <1>4, <1>5, <1>6, <1>7 DEF Supervise

\* Only a step, with no other command under way, begins in an orderly run.
LEMMA TurnBegin ==
    ASSUME WorkerInv, TurnInv, orderly, NEW c \in Commands, Begin(c)
    PROVE  TurnInv'
<1>1. c \in Procs /\ c # Supervisor
  BY CommandsApart
<1>2. CASE ~Step(c)
  BY <1>2 DEF Begin, SwapConfig, InitAgain, Reconcile, PreflightRepair, TurnInv
<1>3. CASE Step(c)
  <2> DEFINE l == [IdleLoc EXCEPT !.op = "step", !.then = "end"]
  <2>1. /\ SetLoc(c, l) /\ Goto(c, "load_config") /\ UNCHANGED <<state, config, lost>>
        /\ (orderly' => orderly /\ Alone(c))
    BY <1>3 DEF Step, Starts, Call, First, files
  <2>2. l.op = "step" /\ l.then = "end" /\ ~l.stale
    BY DEF IdleLoc
  <2> HIDE DEF l
  <2>3. Turn(c, "load_config", l)
    BY <1>1, <2>2 DEF Turn, StepTurn, StepLabels, HoldLabels
  <2> QED BY <1>1, <2>1, <2>3, TurnQuiet
<1> QED BY <1>2, <1>3

\* Every step preserves the order of turns.
LEMMA TurnStep == WorkerInv /\ TurnInv /\ [Next]_vars => TurnInv'
<1> SUFFICES ASSUME WorkerInv, TurnInv, [Next]_vars PROVE TurnInv'
  OBVIOUS
<1>1. CASE UNCHANGED vars
  BY <1>1 DEF TurnInv, Turn, StepTurn, RecoveryTurn, Alone, vars, files, history
<1>2. CASE Next /\ ~orderly
  <2>1. ~orderly'
    <3>1. ASSUME NEW p \in Procs, Access(p) \/ Pass(p) \/ Crash(p) PROVE ~orderly'
      BY <1>2, <3>1 DEF Access, LoadConfig, StepIdles, StepWorks, LoadState, LoadCheckpoint,
           SaveConfig, SaveCheckpoint, SaveState, Truncate, WriteConfig, WriteCheckpoint,
           WriteState, Raises, Pass, NothingStale, Stale, PreflightReady, PreflightRepairs,
           OutOfRounds, PassFails, Repair, Confirm, Crash, history
    <3>2. ASSUME Supervise \/ StopRequested PROVE ~orderly'
      BY <1>2, <3>2 DEF Supervise, Tick, AllWell, Recover, Verify, StopRequested, history
    <3>3. ASSUME NEW c \in Commands, Begin(c) PROVE ~orderly'
      BY <1>2, <3>3 DEF Begin, Step, SwapConfig, InitAgain, Reconcile, PreflightRepair
    <3> QED BY <1>2, <3>1, <3>2, <3>3 DEF Next
  <2> QED BY <2>1 DEF TurnInv
<1>3. CASE Next /\ orderly
  <2>1. ASSUME NEW p \in Procs, Crash(p) PROVE TurnInv'
    BY <2>1, TurnExit DEF Crash, files, history
  <2> QED BY <1>3, <2>1, TurnAccess, TurnPass, TurnSupervise, TurnBegin DEF Next
<1> QED BY <1>1, <1>2, <1>3

\* In a run with no command but the worker's steps, one at a time, and no stall, no write
\* is ever based on a state that was replaced since: `running` is enough to keep the
\* steps and the supervisor's recovery apart.
THEOREM TurnsTaken == Spec => []TurnsAreTaken
<1>1. TurnInv => TurnsAreTaken
  BY DEF TurnInv, TurnsAreTaken
<1> QED BY <1>1, WorkerInvariant, TurnInit, TurnStep, PTL DEF Spec

-------------------------------------------------------------------------------
\* Ticks of the supervisor.

\* Where the supervisor is in a tick that no command has disturbed: what it wants is
\* what the repository says, and it has got the further towards it the further it is.
TickFit(label, l) ==
    \/ label \in Away \cup {"verify"} \/ disturbed
    \/ l.op = "stop" /\ l.then = "verify" /\ label \in {"load_state"} \cup Saving
    \/ /\ l.want = Repository
       /\ \/ label \in {"observe", "compare"} /\ l.rounds = 0
          \/ label = "preflight" /\ (l.rounds = 0 \/ (l.rounds = 1 /\ Ready))
          \/ label = "confirm" /\ config = l.want
          \/ /\ l.op = "relaunch" /\ label \in RelaunchLabels
             /\ l.then \in {"compare", "confirm"}
             /\ l.then = "compare" => l.rounds = 0
             /\ label = "load_state" => l.hash = config
             /\ label \in {"save_config", "write_config"} => l.hash = l.want
          \/ /\ l.op = "restart" /\ label \in RestartLabels
             /\ l.then = "compare" \/ (l.then = "confirm" /\ config = l.want)
             /\ l.then = "compare" => l.rounds = 0
             /\ label \in HoldLabels => l.seen = state
          \/ /\ l.op = "repair" /\ label \in {"repository", "load_state"} \cup Saving
             /\ l.then = "preflight" /\ l.rounds = 1
             /\ label # "repository" => l.hash = l.want
             /\ label \in HoldLabels => l.seen = state

TickInv == TickFit(pc[Supervisor], loc[Supervisor])

\* A step of the supervisor that writes nothing.
LEMMA TickQuiet ==
    ASSUME WorkerInv, NEW label, NEW l, Goto(Supervisor, label), SetLoc(Supervisor, l),
           UNCHANGED <<state, config, disturbed>>, TickFit(label, l)
    PROVE  TickInv'
<1>1. pc'[Supervisor] = label /\ loc'[Supervisor] = l
  BY DEF WorkerInv, TypeOK, Goto, SetLoc, Procs
<1>2. TickFit(pc'[Supervisor], loc'[Supervisor])
  BY <1>1
<1> QED BY <1>2 DEF TickInv, TickFit, Repository, Ready

\* A supervisor that is not in a tick.
LEMMA TickAway ==
    ASSUME WorkerInv, Exits(Supervisor)
    PROVE  TickInv'
<1>1. pc'[Supervisor] = "new"
  BY DEF WorkerInv, TypeOK, Exits, Goto, Procs
<1> QED BY <1>1 DEF TickInv, TickFit, Away

\* A command leaves the supervisor where it is, and disturbs its tick or writes nothing.
LEMMA TickOthers ==
    ASSUME WorkerInv, TickInv, NEW c \in Commands, Access(c) \/ Pass(c) \/ Crash(c) \/ Begin(c)
    PROVE  TickInv'
<1> DEFINE s == Supervisor
           Writes == SaveConfig(c) \/ SaveCheckpoint(c) \/ SaveState(c)
                     \/ WriteConfig(c) \/ WriteCheckpoint(c) \/ WriteState(c)
<1>1. c # s /\ c \in Procs /\ s \in Procs /\ loc[s] \in Locals
  BY CommandsApart DEF Procs, WorkerInv, TypeOK
<1>2. CASE Writes
  <2>1. disturbed' = (disturbed \/ pc[s] \notin Away)
    BY <1>1, <1>2 DEF SaveConfig, SaveCheckpoint, SaveState, Truncate, WriteConfig,
                      WriteCheckpoint, WriteState, Disturbs, Away
  <2>2. pc'[s] = pc[s]
    BY <1>1, <1>2 DEF SaveConfig, SaveCheckpoint, SaveState, Truncate, WriteConfig,
                      WriteCheckpoint, WriteState, Goto, WorkerInv, TypeOK
  <2> QED BY <2>1, <2>2 DEF TickInv, TickFit
<1>3. CASE ~Writes
  <2>1. UNCHANGED <<state, config, disturbed>>
    <3>1. CASE Access(c)
      BY <1>3, <3>1 DEF Access, LoadConfig, StepIdles, StepWorks, LoadState, LoadCheckpoint,
                        Raises, files, history
    <3>2. CASE Pass(c)
      BY <3>2 DEF Pass, NothingStale, Stale, PreflightReady, PreflightRepairs, OutOfRounds,
                  PassFails, Repair, Confirm, files, history
    <3>3. CASE Crash(c) \/ Begin(c)
      BY <3>3 DEF Crash, Begin, Step, SwapConfig, InitAgain, Reconcile, PreflightRepair, Starts,
                  files, history
    <3> QED BY <3>1, <3>2, <3>3
  <2>2. pc'[s] = pc[s] /\ loc'[s] = loc[s]
    <3>1. \A label, l : Goto(c, label) /\ SetLoc(c, l) => pc'[s] = pc[s] /\ loc'[s] = loc[s]
      BY <1>1 DEF Goto, SetLoc, WorkerInv, TypeOK
    <3>2. \A label : Goto(c, label) /\ UNCHANGED loc => pc'[s] = pc[s] /\ loc'[s] = loc[s]
      BY <1>1 DEF Goto, WorkerInv, TypeOK
    <3>3. CASE Access(c)
      BY <1>3, <3>1, <3>3 DEF Access, LoadConfig, StepIdles, StepWorks, LoadState,
                              LoadCheckpoint, Raises, Exits
    <3>4. CASE Pass(c)
      BY <3>1, <3>2, <3>4 DEF Pass, NothingStale, Stale, PreflightReady, PreflightRepairs,
                              OutOfRounds, PassFails, Repair, Confirm, Call, Exits
    <3>5. CASE Crash(c) \/ Begin(c)
      BY <3>1, <3>5 DEF Crash, Begin, Step, SwapConfig, InitAgain, Reconcile, PreflightRepair,
                        Starts, Call, Exits
    <3> QED BY <3>3, <3>4, <3>5
  <2>3. TickFit(pc'[s], loc'[s])
    BY <2>2 DEF TickInv
  <2> QED BY <2>1, <2>3 DEF TickInv, TickFit, Repository, Ready
<1> QED BY <1>2, <1>3

\* Where the supervisor can be, by the label.
TickTypes ==
    /\ loc[Supervisor] \in Locals /\ state \in States /\ config \in Hashes
    /\ Repository \in Hashes /\ Supervisor \in Procs
    /\ TickFit(pc[Supervisor], loc[Supervisor])

\* Both invariants together give the types the supervisor's steps need.
LEMMA TickTyped == WorkerInv /\ TickInv => TickTypes
BY RepositoryTyped DEF WorkerInv, TypeOK, TickInv, TickTypes, Procs

\* The supervisor's loads.
LEMMA TickLoads ==
    ASSUME WorkerInv, TickInv, NEW p \in {Supervisor},
           LoadConfig(p) \/ LoadState(p) \/ LoadCheckpoint(p) \/ StepWorks(p)
    PROVE  TickInv'
<1>1. UNCHANGED <<state, config, disturbed>> /\ TickTypes
  BY TickTyped DEF LoadConfig, StepWorks, LoadState, LoadCheckpoint, files, history
<1> USE DEF TickTypes
<1>2. CASE LoadConfig(p)
  <2> DEFINE l == IF Op(p) = "relaunch" THEN [loc[p] EXCEPT !.hash = config] ELSE loc[p]
  <2>1. /\ l.op = loc[p].op /\ l.then = loc[p].then /\ l.rounds = loc[p].rounds
        /\ l.want = loc[p].want /\ (l.op = "relaunch" => l.hash = config)
    BY <1>1 DEF Locals, Op
  <2>2. pc[p] = "load_config" /\ Goto(p, "load_state") /\ SetLoc(p, l)
    BY <1>2 DEF LoadConfig, At
  <2> HIDE DEF l
  <2>3. TickFit("load_state", l)
    BY <1>1, <2>1, <2>2 DEF TickFit, RelaunchLabels, RestartLabels, Saving, HoldLabels, Away
  <2> QED BY <1>1, <2>2, <2>3, TickQuiet
<1>3. CASE StepWorks(p)
  <2>1. PICK r \in 0 .. Total + MaxCount :
          SetLoc(p, [loc[p] EXCEPT !.seen = state, !.units = r]) /\ Goto(p, "save_ckpt")
    BY <1>3 DEF StepWorks, FirstSave
  <2> DEFINE l == [loc[p] EXCEPT !.seen = state, !.units = r]
  <2>2. loc[p].op = "step" /\ pc[p] = "load_state"
    BY <1>1, <1>3 DEF Op, StepWorks, At
  <2> HIDE DEF l
  <2>3. TickFit("save_ckpt", l)
    BY <1>1, <2>2 DEF TickFit, Away
  <2> QED BY <1>1, <2>1, <2>3, TickQuiet DEF l
<1>4. CASE LoadState(p) /\ Op(p) = "relaunch"
  <2> DEFINE l == [loc[p] EXCEPT !.hash = Adopted(p)]
  <2>1. /\ l.op = "relaunch" /\ l.then = loc[p].then /\ l.rounds = loc[p].rounds
        /\ l.want = loc[p].want /\ l.hash = OrElse(state.pending, loc[p].hash)
    BY <1>1, <1>4 DEF Locals, Adopted, Op
  <2>2. SetLoc(p, l) /\ Goto(p, "save_config") /\ pc[p] = "load_state"
    BY <1>4 DEF LoadState, At
  <2> HIDE DEF l
  <2>3. TickFit("save_config", l)
    BY <1>1, <1>4, <2>1, <2>2 DEF TickFit, RelaunchLabels, Away, Repository, Op
  <2> QED BY <1>1, <2>2, <2>3, TickQuiet
<1>5. CASE LoadState(p) /\ Op(p) # "relaunch"
  <2> DEFINE l == [loc[p] EXCEPT !.seen = state]
             label == IF Op(p) = "restart" THEN "load_ckpt" ELSE "save_state"
  <2>1. /\ l.op = loc[p].op /\ l.then = loc[p].then /\ l.rounds = loc[p].rounds
        /\ l.want = loc[p].want /\ l.seen = state /\ l.hash = loc[p].hash
    BY <1>1 DEF Locals
  <2>2. SetLoc(p, l) /\ Goto(p, label) /\ pc[p] = "load_state"
    BY <1>5 DEF LoadState, At
  <2> HIDE DEF l
  <2>3. TickFit(label, l)
    BY <1>1, <1>5, <2>1, <2>2 DEF TickFit, RelaunchLabels, RestartLabels, Away, Saving, Op
  <2> HIDE DEF label
  <2> QED BY <1>1, <2>2, <2>3, TickQuiet
<1>6. CASE LoadCheckpoint(p)
  <2> DEFINE l == [loc[p] EXCEPT !.units = ckpt]
  <2>1. /\ l.op = loc[p].op /\ l.then = loc[p].then /\ l.rounds = loc[p].rounds
        /\ l.want = loc[p].want /\ l.seen = loc[p].seen
    BY <1>1 DEF Locals
  <2>2. SetLoc(p, l) /\ Goto(p, "save_state") /\ pc[p] = "load_ckpt"
    BY <1>6 DEF LoadCheckpoint, At
  <2> HIDE DEF l
  <2>3. TickFit("save_state", l)
    BY <1>1, <2>1, <2>2 DEF TickFit, RelaunchLabels, RestartLabels, HoldLabels, Away, Saving
  <2> QED BY <1>1, <2>2, <2>3, TickQuiet
<1> QED BY <1>2, <1>3, <1>4, <1>5, <1>6

\* The supervisor truncates a file.
LEMMA TickTruncates ==
    ASSUME WorkerInv, TickInv, NEW p \in {Supervisor},
           SaveConfig(p) \/ SaveCheckpoint(p) \/ SaveState(p)
    PROVE  TickInv'
<1>1. UNCHANGED <<state, config, disturbed, loc>> /\ TickTypes
  BY TickTyped DEF SaveConfig, SaveCheckpoint, SaveState, Truncate, Disturbs, WorkerInv, TypeOK
<1>2. PICK label \in {"write_config", "write_ckpt", "write_state"} :
          /\ Goto(p, label)
          /\ label = "write_config" => pc[p] = "save_config"
          /\ label = "write_ckpt" => pc[p] = "save_ckpt"
          /\ label = "write_state" => pc[p] = "save_state"
  BY DEF SaveConfig, SaveCheckpoint, SaveState, Truncate
<1>3. SetLoc(p, loc[p])
  BY <1>1 DEF SetLoc, WorkerInv, TypeOK
<1>4. TickFit(label, loc[p])
  BY <1>1, <1>2 DEF TickTypes, TickFit, RestartLabels, RelaunchLabels, HoldLabels, Saving, Away
<1> QED BY <1>1, <1>2, <1>3, <1>4, TickQuiet

\* What relaunch deploys is what the repository says, and it says so still.
LEMMA TickWriteConfig ==
    ASSUME WorkerInv, TickInv, NEW p \in {Supervisor}, WriteConfig(p)
    PROVE  TickInv'
<1> DEFINE l == IF Op(p) = "relaunch" THEN [loc[p] EXCEPT !.op = "restart", !.hash = NoHash]
                ELSE loc[p]
<1>1. TickTypes /\ pc[p] = "write_config" /\ UNCHANGED state /\ disturbed' = disturbed
  BY TickTyped DEF WriteConfig, Disturbs, WorkerInv, TypeOK
<1> USE DEF TickTypes
<1>2. pc'[p] = "load_state" /\ loc'[p] = l
  BY <1>1 DEF WriteConfig, Goto, SetLoc, WorkerInv, TypeOK
<1>3. /\ l.then = loc[p].then /\ l.rounds = loc[p].rounds /\ l.want = loc[p].want
      /\ l.op = IF loc[p].op = "relaunch" THEN "restart" ELSE loc[p].op
  BY <1>1 DEF Locals, Op
<1> HIDE DEF l
<1>4. CASE disturbed
  BY <1>1, <1>2, <1>3, <1>4 DEF TickInv, TickFit
<1>5. CASE ~disturbed
  <2>1. /\ loc[p].op = "relaunch" /\ loc[p].hash = Repository /\ loc[p].want = Repository
        /\ loc[p].then \in {"compare", "confirm"} /\ (loc[p].then = "compare" => loc[p].rounds = 0)
    BY <1>1, <1>5 DEF TickFit, RestartLabels, HoldLabels, Saving, Away
  <2>2. config' = Repository
    BY <1>1, <2>1, WorkerAssumption DEF WriteConfig, OrElse
  <2>3. Repository' = Repository
    BY <1>1, <2>2 DEF Repository, OrElse
  <2>4. /\ l.op = "restart" /\ l.want = Repository' /\ l.then \in {"compare", "confirm"}
        /\ (l.then = "compare" => l.rounds = 0) /\ config' = l.want
    BY <1>3, <2>1, <2>2, <2>3
  <2> QED BY <1>2, <2>4 DEF TickInv, TickFit, RestartLabels, HoldLabels, Saving
<1> QED BY <1>1, <1>4, <1>5 DEF WorkerInv, TypeOK

\* The supervisor never steps the worker.
LEMMA TickWriteCheckpoint ==
    ASSUME WorkerInv, TickInv, NEW p \in {Supervisor}, WriteCheckpoint(p)
    PROVE  TickInv'
<1>1. TickTypes /\ pc[p] = "write_ckpt" /\ disturbed' = disturbed
  BY TickTyped DEF WriteCheckpoint, Disturbs, WorkerInv, TypeOK
<1>2. disturbed
  BY <1>1 DEF TickTypes, TickFit, RestartLabels, RelaunchLabels, Saving, Away
<1>3. loc'[p] = loc[p]
  BY <1>1, OutdatedTyped DEF WriteCheckpoint, TickTypes
<1> QED BY <1>1, <1>2, <1>3 DEF TickInv, TickFit

\* A restart leaves what the repository says alone; a repair authorizes it.
LEMMA TickWriteState ==
    ASSUME WorkerInv, TickInv, NEW p \in {Supervisor}, WriteState(p)
    PROVE  TickInv'
<1> DEFINE label == IF loc[p].then # "end" THEN loc[p].then ELSE "new"
           l == Returned(p)
<1>1. TickTypes /\ pc[p] = "write_state" /\ UNCHANGED config /\ disturbed' = disturbed
      /\ state' = NewState(p)
  BY TickTyped DEF WriteState, Disturbs, WorkerInv, TypeOK
<1> USE DEF TickTypes
<1>2. pc'[p] = label /\ loc'[p] = l
  <2>1. Outdated(p) \in [Procs -> Locals] /\ pc \in [Procs -> Labels]
    BY <1>1, OutdatedTyped DEF WorkerInv, TypeOK
  <2> QED BY <1>1, <2>1 DEF WriteState, Goto
<1>3. loc[p].want \in MaybeHash /\ loc[p].rounds \in 0 .. MaxRounds /\ loc[p].hash \in MaybeHash
  BY <1>1, LocFields
<1>4. CASE disturbed
  BY <1>1, <1>2, <1>4 DEF TickInv, TickFit
<1>5. CASE loc[p].then = "verify"
  BY <1>1, <1>2, <1>5 DEF TickInv, TickFit
<1>6. CASE ~disturbed /\ loc[p].then # "verify"
  <2>1. /\ loc[p].want = Repository /\ loc[p].seen = state
        /\ \/ /\ loc[p].op = "restart"
              /\ loc[p].then = "compare" \/ (loc[p].then = "confirm" /\ config = loc[p].want)
              /\ loc[p].then = "compare" => loc[p].rounds = 0
           \/ /\ loc[p].op = "repair" /\ loc[p].then = "preflight" /\ loc[p].rounds = 1
              /\ loc[p].hash = loc[p].want
    BY <1>1, <1>6 DEF TickFit, RelaunchLabels, RestartLabels, HoldLabels, Saving, Away
  <2>2. l.want = loc[p].want /\ l.rounds = loc[p].rounds
    BY <1>3, <2>1 DEF Returned, IdleLoc
  <2> HIDE DEF l
  <2>3. CASE loc[p].op = "restart"
    <3>1. state' = Restarted(state, loc[p].units)
      BY <1>1, <2>1, <2>3 DEF NewState
    <3>2. state'.pending = state.pending
      BY <1>1, <3>1 DEF Restarted, States
    <3>3. Repository' = Repository
      BY <1>1, <3>2 DEF Repository
    <3>4. label \in {"compare", "confirm"} /\ (label = "compare" => l.rounds = 0)
          /\ l.want = Repository' /\ (label = "confirm" => config' = l.want)
      BY <1>1, <2>1, <2>2, <2>3, <3>3
    <3> HIDE DEF label
    <3> QED BY <1>2, <3>4 DEF TickInv, TickFit
  <2>4. CASE loc[p].op = "repair"
    <3>1. state' = [state EXCEPT !.auth = loc[p].hash]
      BY <1>1, <2>1, <2>4 DEF NewState
    <3>2. state'.pending = state.pending /\ state'.auth = Repository
      BY <1>1, <2>1, <2>4, <3>1 DEF States
    <3>3. Repository' = Repository
      BY <1>1, <3>2 DEF Repository
    <3>4. OrElse(state'.auth, config') = Repository'
      BY <1>1, <3>2, <3>3, WorkerAssumption DEF OrElse
    <3>5. label = "preflight" /\ l.rounds = 1 /\ l.want = Repository'
      BY <2>1, <2>2, <2>4, <3>3
    <3> HIDE DEF label
    <3>6. Ready'
      BY <3>4 DEF Ready
    <3> QED BY <1>2, <3>5, <3>6 DEF TickInv, TickFit
  <2> QED BY <2>1, <2>3, <2>4
<1> QED BY <1>1, <1>4, <1>5, <1>6 DEF WorkerInv, TypeOK

\* The supervisor's pass and its preflight.
LEMMA TickPass ==
    ASSUME MaxRounds > 1, WorkerInv, TickInv, NEW p \in {Supervisor}, Pass(p)
    PROVE  TickInv'
<1>1. UNCHANGED <<state, config, disturbed>> /\ TickTypes
  BY TickTyped DEF Pass, NothingStale, Stale, PreflightReady, PreflightRepairs,
                OutOfRounds, PassFails, Repair, Confirm, files, history
<1> USE DEF TickTypes
<1>2. CASE Exits(p)
  BY <1>2, TickAway
<1>3. CASE Stale(p)
  <2>1. SetLoc(p, loc[p]) /\ Goto(p, "preflight") /\ pc[p] = "compare"
    BY <1>1, <1>3 DEF Stale, At, SetLoc, WorkerInv, TypeOK
  <2>2. TickFit("preflight", loc[p])
    BY <1>1, <2>1 DEF TickFit, RelaunchLabels, RestartLabels, Saving, Away
  <2> QED BY <1>1, <2>1, <2>2, TickQuiet
<1>4. CASE PreflightReady(p) /\ loc[p].want # NoHash
  <2> DEFINE w == IF loc[p].rounds > 0 THEN Repository ELSE loc[p].want
             m == [loc[p] EXCEPT !.want = w]
             l == [m EXCEPT !.op = "relaunch", !.then = "confirm"]
  <2>1. l.op = "relaunch" /\ l.then = "confirm" /\ l.want = w
    BY <1>1 DEF Locals
  <2>2. SetLoc(p, l) /\ Goto(p, "load_config") /\ pc[p] = "preflight"
    BY <1>4 DEF PreflightReady, Call, First, At
  <2> HIDE DEF l
  <2>3. TickFit("load_config", l)
    BY <1>1, <2>1, <2>2 DEF TickFit, RelaunchLabels, RestartLabels, Saving, Away
  <2> QED BY <1>1, <2>2, <2>3, TickQuiet
<1>5. CASE PreflightRepairs(p)
  <2> DEFINE m == [loc[p] EXCEPT !.rounds = @ + 1]
             l == [m EXCEPT !.op = "repair", !.then = "preflight"]
  <2>1. /\ l.op = "repair" /\ l.then = "preflight" /\ l.want = loc[p].want
        /\ l.rounds = loc[p].rounds + 1
    BY <1>1 DEF Locals
  <2>2. SetLoc(p, l) /\ Goto(p, "repository") /\ pc[p] = "preflight" /\ ~Ready
    BY <1>5 DEF PreflightRepairs, Call, First, At
  <2> HIDE DEF l
  <2>3. TickFit("repository", l)
    BY <1>1, <2>1, <2>2 DEF TickFit, RelaunchLabels, RestartLabels, HoldLabels, Saving, Away
  <2> QED BY <1>1, <2>2, <2>3, TickQuiet
<1>6. CASE Repair(p)
  <2> DEFINE l == [loc[p] EXCEPT !.hash = Repository]
  <2>1. /\ l.op = loc[p].op /\ l.then = loc[p].then /\ l.want = loc[p].want
        /\ l.rounds = loc[p].rounds /\ l.hash = Repository
    BY <1>1 DEF Locals
  <2>2. SetLoc(p, l) /\ Goto(p, "load_state") /\ pc[p] = "repository"
    BY <1>6 DEF Repair, Authorized, At
  <2> HIDE DEF l
  <2>3. TickFit("load_state", l)
    BY <1>1, <2>1, <2>2 DEF TickFit, RelaunchLabels, RestartLabels, HoldLabels, Saving, Away
  <2> QED BY <1>1, <2>2, <2>3, TickQuiet
<1> QED BY <1>2, <1>3, <1>4, <1>5, <1>6
        DEF Pass, NothingStale, PreflightReady, OutOfRounds, PassFails, Confirm

\* A tick begins with nothing disturbed.
LEMMA TickSupervise ==
    ASSUME WorkerInv, TickInv, Supervise \/ StopRequested
    PROVE  TickInv'
<1> DEFINE p == Supervisor
<1>1. TickTypes
  BY TickTyped
<1> USE DEF TickTypes
<1>2. CASE Tick
  <2> DEFINE l == [IdleLoc EXCEPT !.want = Desired]
  <2>1. l.want = Repository /\ l.rounds = 0
    BY DEF IdleLoc, Desired
  <2>2. pc'[p] = "observe" /\ loc'[p] = l /\ UNCHANGED <<state, config>>
    BY <1>1, <1>2 DEF Tick, files, Goto, SetLoc, WorkerInv, TypeOK
  <2> HIDE DEF l
  <2>3. Repository' = Repository
    BY <2>2 DEF Repository
  <2> QED BY <2>1, <2>2, <2>3 DEF TickInv, TickFit
<1>3. CASE AllWell
  <2>1. /\ SetLoc(p, loc[p]) /\ Goto(p, "compare") /\ pc[p] = "observe"
        /\ UNCHANGED <<state, config, disturbed>>
    BY <1>1, <1>3 DEF AllWell, At, SetLoc, WorkerInv, TypeOK, files, history
  <2>2. TickFit("compare", loc[p])
    BY <1>1, <2>1 DEF TickFit, RelaunchLabels, RestartLabels, Saving, Away
  <2> QED BY <2>1, <2>2, TickQuiet
<1>4. CASE Recover
  <2>1. PICK op \in {"restart", "relaunch"} : Call(p, loc[p], op, "compare")
    BY <1>4 DEF Recover
  <2> DEFINE l == [loc[p] EXCEPT !.op = op, !.then = "compare"]
  <2>2. l.op = op /\ l.then = "compare" /\ l.want = loc[p].want /\ l.rounds = loc[p].rounds
    BY <1>1 DEF Locals
  <2>3. SetLoc(p, l) /\ Goto(p, First(op))
    BY <2>1 DEF Call
  <2> HIDE DEF l
  <2>4. pc[p] = "observe" /\ UNCHANGED <<state, config, disturbed>>
    BY <1>4 DEF Recover, At, files
  <2>5. disturbed \/ (loc[p].want = Repository /\ loc[p].rounds = 0)
    BY <1>1, <2>4 DEF TickFit, RelaunchLabels, RestartLabels, Saving, Away
  <2>6. TickFit(First(op), l)
    <3>1. CASE op = "restart"
      BY <2>2, <2>5, <3>1 DEF TickFit, First, RestartLabels, HoldLabels
    <3>2. CASE op = "relaunch"
      BY <2>2, <2>5, <3>2 DEF TickFit, First, RelaunchLabels
    <3> QED BY <3>1, <3>2
  <2> QED BY <2>3, <2>4, <2>6, TickQuiet
<1>5. CASE StopRequested
  <2> DEFINE l == [IdleLoc EXCEPT !.op = "stop", !.then = "verify"]
  <2>1. /\ SetLoc(p, l) /\ Goto(p, "load_state") /\ UNCHANGED <<state, config, disturbed>>
        /\ l.op = "stop" /\ l.then = "verify"
    BY <1>5 DEF StopRequested, Call, First, IdleLoc, files
  <2> HIDE DEF l
  <2>2. TickFit("load_state", l)
    BY <2>1 DEF TickFit
  <2> QED BY <2>1, <2>2, TickQuiet
<1>6. CASE Verify
  <2>1. pc'[p] = "gone"
    BY <1>1, <1>6 DEF Verify, Goto, WorkerInv, TypeOK
  <2> QED BY <2>1 DEF TickInv, TickFit, Away
<1> QED BY <1>2, <1>3, <1>4, <1>5, <1>6 DEF Supervise

\* Every step keeps a tick on its way.
LEMMA TickStep ==
    ASSUME MaxRounds > 1, WorkerInv, TickInv, [Next]_vars
    PROVE  TickInv'
<1>1. CASE UNCHANGED vars
  BY <1>1 DEF TickInv, TickFit, Repository, Ready, vars, files, history
<1>2. ASSUME NEW p \in Procs, Access(p) \/ Pass(p) \/ Crash(p) PROVE TickInv'
  <2>1. CASE p \in Commands
    BY <1>2, <2>1, TickOthers
  <2>2. CASE p \in {Supervisor}
    <3>1. CASE StepIdles(p) \/ Raises(p) \/ Crash(p)
      BY <2>2, <3>1, TickAway DEF StepIdles, Raises, Crash
    <3> QED BY <1>2, <2>2, <3>1, TickLoads, TickTruncates, TickWriteConfig, TickWriteCheckpoint,
               TickWriteState, TickPass DEF Access
  <2> QED BY <2>1, <2>2 DEF Procs
<1>3. ASSUME NEW c \in Commands, Begin(c) PROVE TickInv'
  BY <1>3, TickOthers
<1> QED BY <1>1, <1>2, <1>3, TickSupervise DEF Next

\* Only a pass of the supervisor that fails blocks the run.
LEMMA WhoBlocks ==
    ASSUME WorkerInv, [Next]_vars, blocked', ~blocked
    PROVE  /\ pc[Supervisor] \in {"preflight", "confirm"}
           /\ pc[Supervisor] = "preflight" => loc[Supervisor].rounds = MaxRounds
           /\ pc[Supervisor] = "confirm" => config # loc[Supervisor].want
<1>1. ASSUME NEW p \in Procs, Access(p) \/ Crash(p) PROVE FALSE
  BY <1>1 DEF Access, LoadConfig, StepIdles, StepWorks, LoadState, LoadCheckpoint, SaveConfig,
              SaveCheckpoint, SaveState, Truncate, WriteConfig, WriteCheckpoint, WriteState,
              Raises, Crash
<1>2. ~(Supervise \/ StopRequested)
  BY DEF Supervise, Tick, AllWell, Recover, Verify, StopRequested
<1>3. ASSUME NEW c \in Commands, Begin(c) PROVE FALSE
  BY <1>3 DEF Begin, Step, SwapConfig, InitAgain, Reconcile, PreflightRepair, Starts
<1>4. PICK p \in Procs : Pass(p)
  BY <1>1, <1>2, <1>3 DEF Next, vars
<1>5. OutOfRounds(p) \/ (Confirm(p) /\ ~Current(p))
  BY <1>4 DEF Pass, NothingStale, Stale, PreflightReady, PreflightRepairs, Repair, Confirm
<1>6. p = Supervisor
  BY <1>5 DEF OutOfRounds, Confirm, PassFails
<1> QED BY <1>5, <1>6 DEF OutOfRounds, Confirm, At, Current

\* With two rounds of preflight or more (the code's default is three), a pass of the
\* supervisor fails, and blocks the run, only if a command wrote during its tick: alone,
\* it authorizes, deploys and confirms whatever was staged.
THEOREM OnlyOthersMakeItBlock ==
    ASSUME MaxRounds > 1
    PROVE  Spec => OnlyOthersBlock
<1>1. Init => TickInv
  BY DEF Init, TickInv, TickFit, Away, Procs
<1>2. WorkerInv /\ TickInv /\ [Next]_vars => TickInv'
  BY TickStep
<1>3. ASSUME WorkerInv, TickInv, [Next]_vars, blocked', ~blocked PROVE disturbed
  <2>1. TickTypes
    BY <1>3, TickTyped
  <2>2. CASE pc[Supervisor] = "preflight"
    <3>1. disturbed \/ loc[Supervisor].rounds \in {0, 1}
      BY <2>1, <2>2 DEF TickTypes, TickFit, RelaunchLabels, RestartLabels, Saving, Away
    <3>2. loc[Supervisor].rounds = MaxRounds
      BY <1>3, <2>2, WhoBlocks
    <3> QED BY <3>1, <3>2, WorkerAssumption
  <2>3. CASE pc[Supervisor] = "confirm"
    <3>1. disturbed \/ config = loc[Supervisor].want
      BY <2>1, <2>3 DEF TickTypes, TickFit, RelaunchLabels, RestartLabels, Saving, Away
    <3> QED BY <1>3, <2>3, <3>1, WhoBlocks
  <2> QED BY <1>3, <2>2, <2>3, WhoBlocks
<1> QED BY <1>1, <1>2, <1>3, WorkerInvariant, PTL DEF Spec, OnlyOthersBlock
===============================================================================
