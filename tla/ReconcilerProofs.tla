--------------------------- MODULE ReconcilerProofs ---------------------------
(***************************************************************************)
(* Proofs about Reconciler, for every number of supervisors and commands,  *)
(* whatever the adapter answers and whenever they interleave: its types    *)
(* with the spend ceiling, the preflight before a relaunch, observe-only   *)
(* passes, and the research-semantic fields.                               *)
(***************************************************************************)
EXTENDS Reconciler, FiniteSetTheorems, TLAPS

Acting == {"preflight", "repair", "sync", "relaunch"}

\* What a process holds by where it is: an acting supervisor has room in its budget,
\* a READY counts only if nothing was repaired since, and an observe-only supervisor
\* never gets past the comparison.
InHand(p) ==
    /\ pc[p] = "down" => loc[p] = IdleLoc /\ prepared[p] = "nothing"
    /\ pc[p] \in Acting \cup {"pay"} /\ p \notin Command => loc[p].cache < Ceiling
    /\ pc[p] = "pay" => p \notin Command
    /\ pc[p] \in InPass => loc[p].want # NoFingerprint
    /\ pc[p] = "repair" => loc[p].left >= 1
    /\ loc[p].ready => pc[p] \in {"sync", "relaunch", "pay", "confirm"}
    /\ loc[p].ready /\ pc[p] \in {"sync", "relaunch"} => prepared[p] = "ready"
    /\ pc[p] = "relaunch" => loc[p].ready
    /\ loc[p].observe => /\ pc[p] \in {"built", "idle", "done", "compare"}
                         /\ prepared[p] = "nothing"

RecInv == TypeOK /\ \A p \in Procs : InHand(p)

\* The other processes stay where they are.
OthersStay(p) ==
    \A q \in Procs \ {p} :
        pc'[q] = pc[q] /\ loc'[q] = loc[q] /\ prepared'[q] = prepared[q]

\* What is held by the processes that do not move is held still.
LEMMA Others ==
    ASSUME RecInv, NEW p \in Procs, TypeOK', OthersStay(p), InHand(p)'
    PROVE  RecInv'
<1>1. SUFFICES ASSUME NEW q \in Procs, q # p PROVE InHand(q)'
  BY DEF RecInv
<1>2. InHand(q)
  BY DEF RecInv
<1> QED BY <1>1, <1>2 DEF InHand, OthersStay

\* A process that exits holds nothing.
LEMMA Exits ==
    ASSUME RecInv, NEW p \in Procs, Exit(p)
    PROVE  /\ pc' \in [Procs -> {"down", "built", "idle", "done"} \cup InPass]
           /\ loc' \in [Procs -> Locals]
           /\ prepared' \in [Procs -> {"nothing", "ready", "refused", "repairable",
                                       "repaired"}]
           /\ OthersStay(p) /\ InHand(p)'
<1>1. IdleLoc \in Locals
  BY ReconcilerAssumption DEF IdleLoc, Locals
<1>2. /\ pc' \in [Procs -> {"down", "built", "idle", "done"} \cup InPass]
      /\ loc' \in [Procs -> Locals]
      /\ prepared' \in [Procs -> {"nothing", "ready", "refused", "repairable",
                                  "repaired"}]
      /\ OthersStay(p)
  BY <1>1 DEF RecInv, TypeOK, Exit, Goto, SetLoc, OthersStay
<1>3. pc'[p] = "down" /\ loc'[p] = IdleLoc /\ prepared'[p] = "nothing"
  BY <1>1 DEF RecInv, TypeOK, Exit, Goto, SetLoc
<1> QED BY <1>2, <1>3 DEF InHand, InPass, Acting, IdleLoc

\* A process that is through with its pass holds nothing of the pass.
LEMMA Passes ==
    ASSUME RecInv, NEW p \in Procs, PassDone(p)
    PROVE  /\ pc' \in [Procs -> {"down", "built", "idle", "done"} \cup InPass]
           /\ loc' \in [Procs -> Locals]
           /\ prepared' \in [Procs -> {"nothing", "ready", "refused", "repairable",
                                       "repaired"}]
           /\ OthersStay(p) /\ InHand(p)'
<1>1. CASE p \in Command
  BY <1>1, Exits DEF PassDone
<1>2. CASE p \notin Command
  <2>1. loc[p] \in Locals /\ Rest(loc[p]) \in Locals
    <3>1. loc[p] \in Locals
      BY DEF RecInv, TypeOK
    <3>2. 0 \in Nat /\ 0 \in 0 .. MaxRounds /\ 0 \in 0 .. MaxRepairs
      BY ReconcilerAssumption
    <3> QED BY <3>1, <3>2 DEF Rest, Locals
  <2>2. Goto(p, "done") /\ SetLoc(p, Rest(loc[p]))
        /\ prepared' = [prepared EXCEPT ![p] = "nothing"]
    BY <1>2 DEF PassDone
  <2>3. /\ pc' \in [Procs -> {"down", "built", "idle", "done"} \cup InPass]
        /\ loc' \in [Procs -> Locals]
        /\ prepared' \in [Procs -> {"nothing", "ready", "refused", "repairable",
                                    "repaired"}]
        /\ OthersStay(p)
    BY <2>1, <2>2 DEF RecInv, TypeOK, Goto, SetLoc, OthersStay
  <2>4. pc'[p] = "done" /\ loc'[p] = Rest(loc[p]) /\ prepared'[p] = "nothing"
    BY <2>1, <2>2 DEF RecInv, TypeOK, Goto, SetLoc
  <2>5. ~loc'[p].ready
    BY <2>1, <2>4 DEF Rest, Locals
  <2> QED BY <2>3, <2>4, <2>5 DEF InHand, InPass, Acting
<1> QED BY <1>1, <1>2

\* The initial state satisfies the invariant.
LEMMA RecInit == Init => RecInv
<1> SUFFICES ASSUME Init PROVE RecInv
  OBVIOUS
<1>1. IdleLoc \in Locals
  BY ReconcilerAssumption DEF IdleLoc, Locals
<1>2. TypeOK
  <2>1. desired \in Fingerprints \cup {NoFingerprint} /\ running \in Fingerprints
    BY ReconcilerAssumption DEF Init, Fingerprints
  <2>2. promoted \in [Fields -> SUBSET Values]
    BY <2>1 DEF Init, Fingerprints
  <2>3. 0 \in 0 .. Ceiling /\ 0 \in 0 .. MaxEdits /\ 0 \in 0 .. MaxCrashes
    BY ReconcilerAssumption
  <2> QED BY <1>1, <2>1, <2>2, <2>3 DEF Init, TypeOK
<1>3. ASSUME NEW p \in Procs PROVE InHand(p)
  BY DEF Init, InHand, IdleLoc, InPass, Acting
<1> QED BY <1>2, <1>3 DEF RecInv

\* The types of all that does not belong to one process.
GlobalsTyped ==
    /\ desired \in Fingerprints \cup {NoFingerprint}
    /\ spend \in 0 .. Ceiling /\ blocked \in BOOLEAN
    /\ running \in Fingerprints /\ repository \in Fingerprints
    /\ edits \in 0 .. MaxEdits /\ crashes \in 0 .. MaxCrashes
    /\ promoted \in [Fields -> SUBSET Values]
    /\ relaunched \in Nat

\* A step by which a process exits or ends its pass.
LEMMA EndStep ==
    ASSUME RecInv, NEW p \in Procs, Exit(p) \/ PassDone(p), GlobalsTyped'
    PROVE  RecInv'
<1>1. /\ pc' \in [Procs -> {"down", "built", "idle", "done"} \cup InPass]
      /\ loc' \in [Procs -> Locals]
      /\ prepared' \in [Procs -> {"nothing", "ready", "refused", "repairable",
                                  "repaired"}]
      /\ OthersStay(p) /\ InHand(p)'
  BY Exits, Passes
<1>2. TypeOK'
  BY <1>1 DEF GlobalsTyped, TypeOK
<1> QED BY <1>1, <1>2, Others

\* A step by which a process goes on to another label.
LEMMA MoveStep ==
    ASSUME RecInv, NEW p \in Procs, GlobalsTyped',
           NEW label \in {"built", "idle", "done"} \cup InPass, NEW l \in Locals,
           NEW w \in {"nothing", "ready", "refused", "repairable", "repaired"},
           Goto(p, label), SetLoc(p, l), prepared' = [prepared EXCEPT ![p] = w],
           label \in Acting \cup {"pay"} /\ p \notin Command => l.cache < Ceiling,
           label = "pay" => p \notin Command,
           label \in InPass => l.want # NoFingerprint,
           label = "repair" => l.left >= 1,
           l.ready => label \in {"sync", "relaunch", "pay", "confirm"},
           l.ready /\ label \in {"sync", "relaunch"} => w = "ready",
           label = "relaunch" => l.ready,
           l.observe => label \in {"built", "idle", "done", "compare"} /\ w = "nothing"
    PROVE  RecInv'
<1>1. pc'[p] = label /\ loc'[p] = l /\ prepared'[p] = w
  BY DEF RecInv, TypeOK, Goto, SetLoc
<1>2. pc'[p] # "down"
  BY <1>1 DEF InPass
<1>3. InHand(p)'
  BY <1>1, <1>2 DEF InHand
<1>4. /\ pc' \in [Procs -> {"down", "built", "idle", "done"} \cup InPass]
      /\ loc' \in [Procs -> Locals]
      /\ prepared' \in [Procs -> {"nothing", "ready", "refused", "repairable",
                                  "repaired"}]
      /\ OthersStay(p)
  BY DEF RecInv, TypeOK, Goto, SetLoc, OthersStay
<1>5. TypeOK'
  BY <1>4 DEF GlobalsTyped, TypeOK
<1> QED BY <1>3, <1>4, <1>5, Others

\* A step that moves no process.
LEMMA StillStep ==
    ASSUME RecInv, UNCHANGED <<pc, loc, prepared>>, GlobalsTyped'
    PROVE  RecInv'
<1>1. TypeOK'
  BY DEF RecInv, TypeOK, GlobalsTyped
<1>2. ASSUME NEW p \in Procs PROVE InHand(p)'
  BY DEF RecInv, InHand
<1> QED BY <1>1, <1>2 DEF RecInv

\* The environment and the operator keep the invariant.
LEMMA RecEnvironment ==
    ASSUME RecInv, Promote \/ RepositoryEdited \/ OperatorClears \/ UNCHANGED vars
    PROVE  RecInv'
<1>1. UNCHANGED <<pc, loc, prepared>>
  BY DEF Promote, RepositoryEdited, OperatorClears, vars, files, runtime
<1>2. CASE Promote
  <2>1. desired' \in Fingerprints /\ edits' \in 0 .. MaxEdits
    BY <1>2, ReconcilerAssumption DEF Promote, RecInv, TypeOK
  <2>2. promoted' \in [Fields -> SUBSET Values]
    BY <1>2, <2>1 DEF Promote, RecInv, TypeOK, Fingerprints
  <2> QED BY <1>1, <1>2, <2>1, <2>2, StillStep
        DEF Promote, RecInv, TypeOK, GlobalsTyped, runtime
<1>3. CASE RepositoryEdited
  <2>1. edits' \in 0 .. MaxEdits
    BY <1>3, ReconcilerAssumption DEF RepositoryEdited, RecInv, TypeOK
  <2> QED BY <1>1, <1>3, <2>1, StillStep
        DEF RepositoryEdited, RecInv, TypeOK, GlobalsTyped, files
<1>4. CASE OperatorClears
  BY <1>1, <1>4, StillStep
     DEF OperatorClears, RecInv, TypeOK, GlobalsTyped, runtime, Same
<1>5. CASE UNCHANGED vars
  BY <1>1, <1>5, StillStep DEF vars, files, runtime, RecInv, TypeOK, GlobalsTyped
<1> QED BY <1>2, <1>3, <1>4, <1>5

\* Starting, and reading the desired fingerprint, keep the invariant.
LEMMA RecStart ==
    ASSUME RecInv, NEW p \in Procs,
           Build(p) \/ Acquire(p) \/ Tick(p) \/ StayBlocked(p) \/ Leave(p)
           \/ ReconcileOnce(p) \/ Crash(p)
    PROVE  RecInv'
<1> USE DEF files, runtime, Same
<1>1. /\ InHand(p) /\ loc[p] \in Locals
      /\ prepared[p] \in {"nothing", "ready", "refused", "repairable", "repaired"}
  BY DEF RecInv, TypeOK
<1>2. crashes' \in 0 .. MaxCrashes
  <2>1. CASE Crash(p)
    BY <2>1, ReconcilerAssumption DEF RecInv, TypeOK, Crash
  <2>2. CASE ~Crash(p)
    BY <2>2 DEF RecInv, TypeOK, Build, Acquire, Tick, StayBlocked, Leave, ReconcileOnce
  <2> QED BY <2>1, <2>2
<1>3. GlobalsTyped'
  BY <1>2 DEF RecInv, TypeOK, GlobalsTyped, Build, Acquire, Tick, StayBlocked, Leave,
              ReconcileOnce, Crash
<1>4. CASE Build(p)
  <2>1. PICK observe \in BOOLEAN, auth \in BOOLEAN :
           SetLoc(p, [IdleLoc EXCEPT !.observe = observe, !.auth = auth, !.cache = spend,
                         !.persist = (desired # NoFingerprint), !.pending = desired])
    BY <1>4, ReconcilerAssumption DEF Build
  <2> DEFINE l == [IdleLoc EXCEPT !.observe = observe, !.auth = auth, !.cache = spend,
                      !.persist = (desired # NoFingerprint), !.pending = desired]
  <2>2. l \in Locals /\ ~l.ready
    <3>1. 0 \in 0 .. MaxRounds /\ 0 \in 0 .. MaxRepairs
      BY ReconcilerAssumption
    <3>2. spend \in 0 .. Ceiling /\ desired \in Fingerprints \cup {NoFingerprint}
      BY DEF RecInv, TypeOK
    <3> QED BY <3>1, <3>2 DEF IdleLoc, Locals
  <2>3. prepared[p] = "nothing"
    BY <1>1, <1>4 DEF Build, InHand
  <2>4. Goto(p, "built") /\ prepared' = [prepared EXCEPT ![p] = "nothing"]
    BY <1>4, <2>3 DEF Build, RecInv, TypeOK
  <2> HIDE DEF l
  <2> QED BY <1>3, <2>1, <2>2, <2>4, MoveStep DEF l, Acting, InPass
<1>5. CASE Acquire(p)
  <2>1. CASE LeaseFree
    <3>1. Goto(p, "idle") /\ SetLoc(p, loc[p]) /\ prepared' = [prepared EXCEPT ![p] = prepared[p]]
      BY <1>5, <2>1 DEF Acquire, SetLoc, RecInv, TypeOK
    <3>2. ~loc[p].ready /\ (loc[p].observe => prepared[p] = "nothing")
      BY <1>1, <1>5 DEF Acquire, InHand
    <3> QED BY <1>1, <1>3, <3>1, <3>2, MoveStep DEF Acting, InPass
  <2>2. CASE ~LeaseFree
    BY <1>3, <1>5, <2>2, EndStep DEF Acquire
  <2> QED BY <2>1, <2>2
<1>6. CASE Tick(p)
  <2> DEFINE l == [loc[p] EXCEPT !.want = DesiredNow(p)]
  <2>1. DesiredNow(p) \in Fingerprints
    BY <1>1 DEF DesiredNow, Locals, RecInv, TypeOK
  <2>2. l \in Locals /\ ~l.ready /\ (l.observe => prepared[p] = "nothing")
    BY <1>1, <1>6, <2>1 DEF Tick, InHand, Locals
  <2>3. l.want # NoFingerprint
    BY <1>1, <2>1, ReconcilerAssumption DEF Fingerprints, Locals
  <2>4. Goto(p, "compare") /\ SetLoc(p, l) /\ prepared' = [prepared EXCEPT ![p] = prepared[p]]
    BY <1>6 DEF Tick, RecInv, TypeOK
  <2> HIDE DEF l
  <2> QED BY <1>1, <1>3, <2>2, <2>3, <2>4, MoveStep DEF Acting, InPass
<1>7. CASE ReconcileOnce(p)
  <2>1. PICK auth \in BOOLEAN :
           SetLoc(p, [IdleLoc EXCEPT !.auth = auth, !.persist = TRUE,
                                     !.pending = desired, !.want = desired])
    BY <1>7, ReconcilerAssumption DEF ReconcileOnce
  <2> DEFINE l == [IdleLoc EXCEPT !.auth = auth, !.persist = TRUE,
                                  !.pending = desired, !.want = desired]
  <2>2. l \in Locals /\ ~l.ready /\ ~l.observe /\ l.want # NoFingerprint
    <3>1. 0 \in 0 .. MaxRounds /\ 0 \in 0 .. MaxRepairs /\ 0 \in 0 .. Ceiling
      BY ReconcilerAssumption
    <3>2. desired \in Fingerprints /\ desired # NoFingerprint
      BY <1>7 DEF ReconcileOnce, RecInv, TypeOK
    <3> QED BY <3>1, <3>2 DEF IdleLoc, Locals
  <2>3. Goto(p, "compare") /\ prepared' = [prepared EXCEPT ![p] = prepared[p]]
    BY <1>7 DEF ReconcileOnce, RecInv, TypeOK
  <2> HIDE DEF l
  <2> QED BY <1>1, <1>3, <2>1, <2>2, <2>3, MoveStep DEF l, Acting, InPass
<1>8. CASE StayBlocked(p) \/ Leave(p) \/ Crash(p)
  BY <1>3, <1>8, EndStep DEF StayBlocked, Leave, Crash
<1> QED BY <1>4, <1>5, <1>6, <1>7, <1>8

\* The comparison keeps the invariant.
LEMMA RecCompare ==
    ASSUME RecInv, NEW p \in Procs,
           NothingToDo(p) \/ MayNotAct(p) \/ WouldAct(p) \/ StartRelaunch(p)
    PROVE  RecInv'
<1> USE DEF files, runtime, Same
<1>1. /\ InHand(p) /\ loc[p] \in Locals
      /\ prepared[p] \in {"nothing", "ready", "refused", "repairable", "repaired"}
  BY DEF RecInv, TypeOK
<1>2. GlobalsTyped'
  <2>1. blocked' \in BOOLEAN
    BY DEF RecInv, TypeOK, NothingToDo, MayNotAct, WouldAct, StartRelaunch, PassFails
  <2> QED BY <2>1 DEF RecInv, TypeOK, GlobalsTyped, NothingToDo, MayNotAct, WouldAct,
                      StartRelaunch
<1>3. CASE NothingToDo(p) \/ MayNotAct(p) \/ WouldAct(p)
  BY <1>2, <1>3, EndStep DEF NothingToDo, MayNotAct, WouldAct, PassFails
<1>4. CASE StartRelaunch(p)
  <2>1. PICK r \in Action(p) \ {0} : SetLoc(p, [loc[p] EXCEPT !.action = r])
    BY <1>4 DEF StartRelaunch
  <2> DEFINE l == [loc[p] EXCEPT !.action = r]
  <2>2. r \in Nat
    BY ReconcilerAssumption DEF Action, Required, Changed
  <2>3. l \in Locals
    BY <1>1, <2>2 DEF Locals
  <2>4. ~l.ready /\ ~l.observe /\ l.want # NoFingerprint
    BY <1>1, <1>4 DEF StartRelaunch, ObserveOnly, InHand, InPass, Locals
  <2>5. p \notin Command => l.cache < Ceiling
    BY <1>1, <1>4, ReconcilerAssumption DEF StartRelaunch, CanSpend, Locals
  <2>6. Goto(p, "preflight") /\ prepared' = [prepared EXCEPT ![p] = prepared[p]]
    BY <1>4 DEF StartRelaunch, RecInv, TypeOK
  <2> HIDE DEF l
  <2> QED BY <1>1, <1>2, <2>1, <2>3, <2>4, <2>5, <2>6, MoveStep DEF l, InPass
<1> QED BY <1>3, <1>4

\* The preflight and its repairs keep the invariant.
LEMMA RecPreflight ==
    ASSUME RecInv, NEW p \in Procs, Preflight(p) \/ OutOfRounds(p) \/ Repair(p)
    PROVE  RecInv'
<1> USE DEF files, runtime, Same
<1>1. /\ InHand(p) /\ loc[p] \in Locals
      /\ prepared[p] \in {"nothing", "ready", "refused", "repairable", "repaired"}
  BY DEF RecInv, TypeOK
<1>2. /\ ~loc[p].ready /\ ~loc[p].observe /\ loc[p].want # NoFingerprint
      /\ p \notin Command => loc[p].cache < Ceiling
  BY <1>1 DEF Preflight, OutOfRounds, Repair, InHand, InPass, Acting
<1>3. CASE Preflight(p)
  <2>1. GlobalsTyped'
    BY <1>3 DEF Preflight, RecInv, TypeOK, GlobalsTyped
  <2>2. CASE SetLoc(p, [loc[p] EXCEPT !.ready = TRUE]) /\ Goto(p, "sync")
             /\ prepared' = [prepared EXCEPT ![p] = "ready"]
    <3> DEFINE l == [loc[p] EXCEPT !.ready = TRUE]
    <3>1. l \in Locals /\ l.ready /\ l.want = loc[p].want /\ l.cache = loc[p].cache
          /\ ~l.observe
      BY <1>1, <1>2 DEF Locals
    <3>2. SetLoc(p, l)
      BY <2>2
    <3> HIDE DEF l
    <3> QED BY <1>2, <2>1, <2>2, <3>1, <3>2, MoveStep DEF InPass
  <2>3. CASE UNCHANGED loc /\ Goto(p, "sync")
             /\ prepared' = [prepared EXCEPT ![p] = "refused"]
    <3>1. SetLoc(p, loc[p])
      BY <2>3 DEF SetLoc, RecInv, TypeOK
    <3> QED BY <1>1, <1>2, <2>1, <2>3, <3>1, MoveStep DEF InPass
  <2>4. ASSUME NEW n \in 1 .. MaxRepairs,
               SetLoc(p, [loc[p] EXCEPT !.rounds = @ + 1, !.left = n]), Goto(p, "repair"),
               prepared' = [prepared EXCEPT ![p] = "repairable"]
        PROVE  RecInv'
    <3> DEFINE l == [loc[p] EXCEPT !.rounds = @ + 1, !.left = n]
    <3>1. loc[p].rounds + 1 \in 0 .. MaxRounds
      <4>1. loc[p].rounds < MaxRounds
        BY <1>3 DEF Preflight
      <4>2. loc[p].rounds \in 0 .. MaxRounds
        BY <1>1 DEF Locals
      <4> QED BY <4>1, <4>2, ReconcilerAssumption
    <3>2. n \in 0 .. MaxRepairs
      BY ReconcilerAssumption
    <3>3. l \in Locals /\ l.want = loc[p].want /\ l.cache = loc[p].cache
          /\ ~l.observe /\ ~l.ready /\ l.left = n
      BY <1>1, <1>2, <3>1, <3>2 DEF Locals
    <3>4. SetLoc(p, l) /\ n >= 1
      BY <2>4
    <3> HIDE DEF l
    <3> QED BY <1>2, <2>1, <2>4, <3>3, <3>4, MoveStep DEF InPass
  <2> QED BY <1>3, <2>2, <2>3, <2>4 DEF Preflight
<1>4. CASE OutOfRounds(p)
  <2>1. GlobalsTyped'
    BY <1>4 DEF OutOfRounds, RecInv, TypeOK, GlobalsTyped
  <2>2. SetLoc(p, loc[p]) /\ Goto(p, "sync")
        /\ prepared' = [prepared EXCEPT ![p] = prepared[p]]
    BY <1>4 DEF OutOfRounds, SetLoc, RecInv, TypeOK
  <2> QED BY <1>1, <1>2, <2>1, <2>2, MoveStep DEF InPass
<1>5. CASE Repair(p)
  <2>1. GlobalsTyped'
    <3>1. repository' \in Fingerprints /\ edits' \in 0 .. MaxEdits
      BY <1>5, ReconcilerAssumption DEF Repair, RecInv, TypeOK
    <3> QED BY <1>5, <3>1 DEF Repair, RecInv, TypeOK, GlobalsTyped
  <2>2. PICK ok \in BOOLEAN :
          /\ Goto(p, IF ~ok THEN "sync"
                     ELSE IF loc[p].left > 1 THEN "repair" ELSE "preflight")
          /\ prepared' = [prepared EXCEPT ![p] = IF ok THEN "repaired" ELSE "refused"]
    BY <1>5 DEF Repair
  <2> DEFINE l == [loc[p] EXCEPT !.left = @ - 1, !.repaired = TRUE]
  <2>3. loc[p].left - 1 \in 0 .. MaxRepairs /\ (loc[p].left > 1 => loc[p].left - 1 >= 1)
    BY <1>1, <1>5, ReconcilerAssumption DEF Repair, InHand, Locals
  <2>4. l \in Locals /\ l.want = loc[p].want /\ l.cache = loc[p].cache
        /\ ~l.observe /\ ~l.ready /\ l.left = loc[p].left - 1
    BY <1>1, <1>2, <2>3 DEF Locals
  <2>5. SetLoc(p, l)
    BY <1>5 DEF Repair
  <2> HIDE DEF l
  <2> DEFINE label == IF ~ok THEN "sync"
                      ELSE IF loc[p].left > 1 THEN "repair" ELSE "preflight"
             w == IF ok THEN "repaired" ELSE "refused"
  <2>6. /\ label \in {"sync", "repair", "preflight"}
        /\ label = "repair" => l.left >= 1
        /\ w \in {"repaired", "refused"}
    BY <2>3, <2>4
  <2>7. Goto(p, label) /\ prepared' = [prepared EXCEPT ![p] = w]
    BY <2>2
  <2> HIDE DEF label, w
  <2> QED BY <1>2, <2>1, <2>4, <2>5, <2>6, <2>7, MoveStep DEF InPass
<1> QED BY <1>3, <1>4, <1>5

\* What is desired after the repairs of a pass is a fingerprint.
LEMMA SyncedType ==
    ASSUME RecInv, NEW p \in Procs, loc[p].want # NoFingerprint
    PROVE  /\ Synced(p) \in Fingerprints
           /\ SyncDesired(p) => desired' \in Fingerprints \cup {NoFingerprint}
<1>1. loc[p].want \in Fingerprints /\ repository \in Fingerprints
  BY DEF RecInv, TypeOK, Locals
<1>2. Merged(loc[p].want) \in Fingerprints
  BY <1>1 DEF Merged, Fingerprints
<1>3. Synced(p) \in Fingerprints
  BY <1>1, <1>2 DEF Synced
<1> QED BY <1>3 DEF SyncDesired, RecInv, TypeOK

\* The sync and the end of the preflight keep the invariant.
LEMMA RecSync ==
    ASSUME RecInv, NEW p \in Procs, Proceed(p) \/ Refused(p)
    PROVE  RecInv'
<1> USE DEF files, runtime, Same
<1>1. /\ InHand(p) /\ loc[p] \in Locals
      /\ prepared[p] \in {"nothing", "ready", "refused", "repairable", "repaired"}
  BY DEF RecInv, TypeOK
<1>2. /\ ~loc[p].observe /\ loc[p].want # NoFingerprint
      /\ p \notin Command => loc[p].cache < Ceiling
      /\ loc[p].ready => prepared[p] = "ready"
  BY <1>1 DEF Proceed, Refused, InHand, InPass, Acting
<1>3. SyncDesired(p)
  BY DEF Proceed, Refused
<1>4. Synced(p) \in Fingerprints /\ desired' \in Fingerprints \cup {NoFingerprint}
  BY <1>2, <1>3, SyncedType
<1>5. CASE Proceed(p)
  <2>1. GlobalsTyped'
    BY <1>4, <1>5 DEF Proceed, RecInv, TypeOK, GlobalsTyped
  <2> DEFINE l == [loc[p] EXCEPT !.want = Synced(p),
                      !.pending = IF Synced(p) # loc[p].want THEN Synced(p) ELSE @]
  <2>2. l \in Locals /\ l.want = Synced(p) /\ l.cache = loc[p].cache
        /\ ~l.observe /\ l.ready = loc[p].ready
    BY <1>1, <1>2, <1>4 DEF Locals
  <2>3. SetLoc(p, l) /\ Goto(p, "relaunch") /\ loc[p].ready
        /\ prepared' = [prepared EXCEPT ![p] = prepared[p]]
    BY <1>5 DEF Proceed, Ready, RecInv, TypeOK
  <2>4. Synced(p) # NoFingerprint
    BY <1>4, ReconcilerAssumption DEF Fingerprints
  <2> HIDE DEF l
  <2> QED BY <1>1, <1>2, <2>1, <2>2, <2>3, <2>4, MoveStep DEF InPass
<1>6. CASE Refused(p)
  <2>1. GlobalsTyped' /\ Exit(p)
    BY <1>4, <1>6 DEF Refused, PassFails, RecInv, TypeOK, GlobalsTyped
  <2> QED BY <2>1, EndStep
<1> QED BY <1>5, <1>6

\* The relaunch, its payment and its confirmation keep the invariant.
LEMMA RecRelaunch ==
    ASSUME RecInv, NEW p \in Procs, Relaunch(p) \/ RecordSpend(p) \/ Confirm(p)
    PROVE  RecInv'
<1> USE DEF files, runtime, Same
<1>1. /\ InHand(p) /\ loc[p] \in Locals
      /\ prepared[p] \in {"nothing", "ready", "refused", "repairable", "repaired"}
  BY DEF RecInv, TypeOK
<1>2. CASE Relaunch(p)
  <2>1. running' \in Fingerprints /\ relaunched' \in Nat
    BY <1>1, <1>2 DEF Relaunch, RecInv, TypeOK, Locals
  <2>2. GlobalsTyped'
    BY <1>2, <2>1 DEF Relaunch, RecInv, TypeOK, GlobalsTyped
  <2> DEFINE label == IF p \in Command THEN "confirm" ELSE "pay"
  <2>3. label \in {"confirm", "pay"} /\ (label = "pay" => p \notin Command)
    OBVIOUS
  <2>4. Goto(p, label) /\ SetLoc(p, loc[p])
        /\ prepared' = [prepared EXCEPT ![p] = prepared[p]]
    BY <1>2 DEF Relaunch, SetLoc, RecInv, TypeOK
  <2>5. /\ ~loc[p].observe /\ loc[p].want # NoFingerprint
        /\ p \notin Command => loc[p].cache < Ceiling
    BY <1>1, <1>2 DEF Relaunch, InHand, InPass, Acting
  <2> HIDE DEF label
  <2> QED BY <1>1, <2>2, <2>3, <2>4, <2>5, MoveStep DEF InPass, Acting
<1>3. CASE RecordSpend(p)
  <2>1. /\ ~loc[p].observe /\ loc[p].want # NoFingerprint /\ loc[p].cache < Ceiling
    BY <1>1, <1>3 DEF RecordSpend, InHand, InPass
  <2>2. loc[p].cache + 1 \in 0 .. Ceiling
    BY <1>1, <2>1, ReconcilerAssumption DEF Locals
  <2>3. GlobalsTyped'
    BY <1>3, <2>2 DEF RecordSpend, RecInv, TypeOK, GlobalsTyped
  <2> DEFINE l == [loc[p] EXCEPT !.cache = Paid(p)]
  <2>4. l \in Locals /\ l.want = loc[p].want /\ ~l.observe
    BY <1>1, <2>1, <2>2 DEF Paid, Locals
  <2>5. SetLoc(p, l) /\ Goto(p, "confirm")
        /\ prepared' = [prepared EXCEPT ![p] = prepared[p]]
    BY <1>3 DEF RecordSpend, RecInv, TypeOK
  <2> HIDE DEF l
  <2> QED BY <1>1, <2>1, <2>3, <2>4, <2>5, MoveStep DEF InPass, Acting
<1>4. CASE Confirm(p)
  <2>1. GlobalsTyped' /\ (Exit(p) \/ PassDone(p))
    BY <1>4 DEF Confirm, PassFails, RecInv, TypeOK, GlobalsTyped
  <2> QED BY <2>1, EndStep
<1> QED BY <1>2, <1>3, <1>4

\* Every step keeps the invariant.
LEMMA RecNext == RecInv /\ [Next]_vars => RecInv'
<1> SUFFICES ASSUME RecInv, [Next]_vars PROVE RecInv'
  OBVIOUS
<1>1. ASSUME NEW p \in Procs, Process(p) PROVE RecInv'
  BY <1>1, RecStart, RecCompare, RecPreflight, RecSync, RecRelaunch DEF Process, Step
<1>2. CASE Promote \/ RepositoryEdited \/ OperatorClears \/ UNCHANGED vars
  BY <1>2, RecEnvironment
<1> QED BY <1>1, <1>2 DEF Next

\* The types of the state hold, and the spend recorded, and the spend any tracker
\* believes in, never pass budget.total_usd, whoever else writes budget.json.
THEOREM ReconcilerTypeCorrect == Spec => []TypeOK
<1>1. RecInv => TypeOK
  BY DEF RecInv
<1> QED BY <1>1, RecInit, RecNext, PTL DEF Spec

\* The labels a step of one process leaves alone.
LEMMA OnlyOneMoves ==
    ASSUME RecInv, NEW p \in Procs, Process(p)
    PROVE  OthersStay(p)
<1> USE DEF RecInv, TypeOK, OthersStay, Goto, SetLoc, Exit
<1>1. CASE Build(p) \/ Acquire(p) \/ Tick(p) \/ ReconcileOnce(p)
  BY <1>1 DEF Build, Acquire, Tick, ReconcileOnce
<1>2. CASE StayBlocked(p) \/ Leave(p) \/ Crash(p)
  BY <1>2 DEF StayBlocked, Leave, Crash
<1>3. CASE NothingToDo(p) \/ MayNotAct(p) \/ WouldAct(p) \/ StartRelaunch(p)
  BY <1>3 DEF NothingToDo, MayNotAct, WouldAct, StartRelaunch, PassDone, PassFails
<1>4. CASE Preflight(p) \/ OutOfRounds(p) \/ Repair(p)
  BY <1>4 DEF Preflight, OutOfRounds, Repair
<1>5. CASE Proceed(p) \/ Refused(p)
  BY <1>5 DEF Proceed, Refused, PassFails
<1>6. CASE Relaunch(p) \/ RecordSpend(p) \/ Confirm(p)
  BY <1>6 DEF Relaunch, RecordSpend, Confirm, PassDone, PassFails
<1> QED BY <1>1, <1>2, <1>3, <1>4, <1>5, <1>6 DEF Process, Step

\* The runtime is relaunched only on a preflight that said READY after the last repair
\* of the pass: the runtime moves from "relaunch" only with the answer in hand.
THEOREM PreflightBeforeRelaunchHolds == Spec => PreflightBeforeRelaunch
<1>1. RecInv => \A p \in Procs : pc[p] = "relaunch" => prepared[p] = "ready"
  BY DEF RecInv, InHand
<1>2. RecInv /\ [Next]_vars =>
        [\A p \in Procs : pc[p] = "relaunch" /\ pc'[p] \in {"pay", "confirm"} =>
            prepared[p] = "ready"]_vars
  BY <1>1
<1> QED BY <1>2, RecInit, RecNext, PTL DEF Spec, PreflightBeforeRelaunch

\* A supervisor with --observe-only changes no fingerprint, spends nothing and asks
\* for no repair, whatever else runs.
THEOREM ObserversPlanOnlyHolds == Spec => ObserversPlanOnly
<1>1. ASSUME RecInv, Next, NEW p \in Supervisors, loc[p].observe, pc'[p] # pc[p]
      PROVE  /\ UNCHANGED <<desired, spend, running, repository, relaunched>>
             /\ prepared'[p] = prepared[p]
  <2>1. p \in Procs /\ InHand(p)
    BY <1>1 DEF RecInv, Supervisors
  <2>2. pc[p] \in {"built", "idle", "done", "compare"} /\ prepared[p] = "nothing"
    BY <1>1, <2>1 DEF InHand
  <2>3. UNCHANGED pc => FALSE
    BY <1>1
  <2>4. PICK q \in Procs : Process(q)
    BY <1>1, <2>3 DEF Next, Promote, RepositoryEdited, OperatorClears
  <2>5. q = p
    BY <1>1, <2>1, <2>4, OnlyOneMoves DEF OthersStay
  <2>6. Process(p)
    BY <2>4, <2>5
  <2>7. \/ Acquire(p) \/ Tick(p) \/ StayBlocked(p) \/ Leave(p) \/ Crash(p)
        \/ NothingToDo(p) \/ MayNotAct(p) \/ WouldAct(p)
    BY <1>1, <2>2, <2>6
       DEF Process, Step, Build, ReconcileOnce, StartRelaunch, ObserveOnly, Preflight,
           OutOfRounds, Repair, Proceed, Refused, Relaunch, RecordSpend, Confirm
  <2>8. prepared \in [Procs -> {"nothing", "ready", "refused", "repairable", "repaired"}]
    BY <1>1 DEF RecInv, TypeOK
  <2>9. CASE Acquire(p) \/ Tick(p) \/ StayBlocked(p) \/ Leave(p) \/ Crash(p)
    BY <2>1, <2>2, <2>8, <2>9
       DEF Acquire, Tick, StayBlocked, Leave, Crash, Exit, files, runtime, Same
  <2>10. CASE NothingToDo(p) \/ MayNotAct(p) \/ WouldAct(p)
    BY <2>1, <2>2, <2>8, <2>10
       DEF NothingToDo, MayNotAct, WouldAct, PassDone, PassFails, Exit, files, runtime, Same
  <2> QED BY <2>7, <2>9, <2>10
<1>2. RecInv /\ [Next]_vars =>
        [\A p \in Supervisors : loc[p].observe /\ pc'[p] # pc[p] =>
            /\ UNCHANGED <<desired, spend, running, repository, relaunched>>
            /\ prepared'[p] = prepared[p]]_vars
  BY <1>1
<1> QED BY <1>2, RecInit, RecNext, PTL DEF Spec, ObserversPlanOnly

\* A fingerprint says of the research-semantic fields only what was promoted.
Asked(fingerprint) ==
    fingerprint # NoFingerprint => \A f \in Semantic : fingerprint[f] \in promoted[f]

\* Whatever a process may still make desired or running was promoted too.
SemanticInv ==
    /\ Asked(running) /\ Asked(desired)
    /\ \A p \in Procs : Asked(loc[p].pending) /\ Asked(loc[p].want)

\* The initial state has it.
LEMMA SemanticInit == Init => SemanticInv
<1> SUFFICES ASSUME Init PROVE SemanticInv
  OBVIOUS
<1>1. \A f \in Semantic : running[f] \in promoted[f]
  BY ReconcilerAssumption DEF Init
<1>2. Asked(running) /\ Asked(desired)
  BY <1>1, ReconcilerAssumption DEF Init, Asked
<1>3. \A p \in Procs : loc[p].pending = NoFingerprint /\ loc[p].want = NoFingerprint
  BY DEF Init, IdleLoc
<1> QED BY <1>2, <1>3 DEF SemanticInv, Asked

\* A step of a process that promotes nothing, and that makes desired, running, pending
\* and wanted only what was asked for.
LEMMA SemanticStep ==
    ASSUME RecInv, SemanticInv, NEW p \in Procs, OthersStay(p), UNCHANGED promoted,
           Asked(running'), Asked(desired'), Asked(loc'[p].pending), Asked(loc'[p].want)
    PROVE  SemanticInv'
<1>1. ASSUME NEW q \in Procs PROVE Asked(loc'[q].pending) /\ Asked(loc'[q].want)
  <2>1. CASE q = p
    BY <2>1
  <2>2. CASE q # p
    BY <2>2 DEF SemanticInv, OthersStay
  <2> QED BY <2>1, <2>2
<1> QED BY <1>1 DEF SemanticInv, Asked

\* Every step of a process keeps it.
LEMMA SemanticProcess ==
    ASSUME RecInv, SemanticInv, NEW p \in Procs, Process(p)
    PROVE  SemanticInv'
<1> USE DEF files, runtime, Same
<1>1. OthersStay(p) /\ loc[p] \in Locals /\ InHand(p)
  BY OnlyOneMoves DEF RecInv, TypeOK
<1>2. /\ Asked(running) /\ Asked(desired)
      /\ Asked(loc[p].pending) /\ Asked(loc[p].want) /\ Asked(NoFingerprint)
  BY DEF SemanticInv, Asked
<1>3. loc \in [Procs -> Locals]
  BY DEF RecInv, TypeOK
<1>4. Exit(p) \/ PassDone(p) =>
        /\ loc'[p].pending \in {loc[p].pending, NoFingerprint}
        /\ loc'[p].want = NoFingerprint
  <2>1. Exit(p) => loc'[p] = IdleLoc
    BY <1>3 DEF Exit, SetLoc
  <2>2. PassDone(p) => Exit(p) \/ loc'[p] = Rest(loc[p])
    BY <1>3 DEF PassDone, SetLoc
  <2>3. IdleLoc.pending = NoFingerprint /\ IdleLoc.want = NoFingerprint
    BY DEF IdleLoc
  <2>4. Rest(loc[p]).pending = loc[p].pending /\ Rest(loc[p]).want = NoFingerprint
    BY <1>1 DEF Rest, Locals
  <2> QED BY <2>1, <2>2, <2>3, <2>4
<1>5. CASE Build(p) \/ ReconcileOnce(p)
  <2>1. /\ loc'[p].pending = desired
        /\ loc'[p].want \in {NoFingerprint, desired}
    <3>1. CASE Build(p)
      BY <1>3, <3>1 DEF Build, SetLoc, IdleLoc
    <3>2. CASE ReconcileOnce(p)
      BY <1>3, <3>2 DEF ReconcileOnce, SetLoc, IdleLoc
    <3> QED BY <1>5, <3>1, <3>2
  <2>2. UNCHANGED <<promoted, running, desired>>
    BY <1>5 DEF Build, ReconcileOnce
  <2> QED BY <1>1, <1>2, <2>1, <2>2, SemanticStep
<1>6. CASE Tick(p)
  <2>1. loc'[p].pending = loc[p].pending /\ loc'[p].want = DesiredNow(p)
    BY <1>1, <1>3, <1>6 DEF Tick, SetLoc, Locals
  <2>2. UNCHANGED <<promoted, running, desired>>
    BY <1>6 DEF Tick
  <2> QED BY <1>1, <1>2, <2>1, <2>2, SemanticStep DEF DesiredNow
<1>7. CASE \/ Acquire(p) \/ StayBlocked(p) \/ Leave(p) \/ Crash(p)
           \/ NothingToDo(p) \/ MayNotAct(p) \/ WouldAct(p) \/ StartRelaunch(p)
           \/ Preflight(p) \/ OutOfRounds(p) \/ Repair(p)
  <2>1. UNCHANGED <<promoted, running, desired>>
    BY <1>7 DEF Acquire, StayBlocked, Leave, Crash, NothingToDo, MayNotAct, WouldAct,
                StartRelaunch, Preflight, OutOfRounds, Repair
  <2>2. /\ loc'[p].pending \in {loc[p].pending, NoFingerprint}
        /\ loc'[p].want \in {loc[p].want, NoFingerprint}
    <3>1. CASE Acquire(p) \/ StayBlocked(p) \/ Leave(p) \/ Crash(p)
      BY <1>4, <3>1 DEF Acquire, StayBlocked, Leave, Crash
    <3>2. CASE NothingToDo(p) \/ MayNotAct(p) \/ WouldAct(p)
      BY <1>4, <3>2 DEF NothingToDo, MayNotAct, WouldAct, PassFails
    <3>3. CASE StartRelaunch(p)
      BY <1>1, <1>3, <3>3 DEF StartRelaunch, SetLoc, Locals
    <3>4. CASE Preflight(p)
      <4>1. ASSUME NEW n, SetLoc(p, [loc[p] EXCEPT !.rounds = @ + 1, !.left = n])
            PROVE  loc'[p].pending = loc[p].pending /\ loc'[p].want = loc[p].want
        <5>1. loc'[p] = [loc[p] EXCEPT !.rounds = @ + 1, !.left = n]
          BY <1>3, <4>1, Zenon DEF SetLoc
        <5> QED BY <1>1, <5>1 DEF Locals
      <4>2. ASSUME SetLoc(p, [loc[p] EXCEPT !.ready = TRUE])
            PROVE  loc'[p].pending = loc[p].pending /\ loc'[p].want = loc[p].want
        BY <1>1, <1>3, <4>2 DEF SetLoc, Locals
      <4> QED BY <3>4, <4>1, <4>2 DEF Preflight
    <3>5. CASE OutOfRounds(p)
      BY <3>5 DEF OutOfRounds
    <3>6. CASE Repair(p)
      <4>1. loc'[p] = [loc[p] EXCEPT !.left = @ - 1, !.repaired = TRUE]
        BY <1>3, <3>6, Zenon DEF Repair, SetLoc
      <4> QED BY <1>1, <4>1 DEF Locals
    <3> QED BY <1>7, <3>1, <3>2, <3>3, <3>4, <3>5, <3>6
  <2> QED BY <1>1, <1>2, <2>1, <2>2, SemanticStep
<1>8. CASE Proceed(p) \/ Refused(p)
  <2>1. loc[p].want # NoFingerprint
    BY <1>1, <1>8 DEF Proceed, Refused, InHand, InPass
  <2>2. Asked(Synced(p))
    BY <1>2, <2>1, ReconcilerAssumption DEF Synced, Merged, Asked
  <2>3. UNCHANGED <<promoted, running>> /\ desired' \in {desired, Synced(p)}
    BY <1>8 DEF Proceed, Refused, SyncDesired
  <2>4. /\ loc'[p].pending \in {loc[p].pending, Synced(p), NoFingerprint}
        /\ loc'[p].want \in {Synced(p), NoFingerprint}
    <3>1. CASE Proceed(p)
      BY <1>1, <1>3, <3>1 DEF Proceed, SetLoc, Locals
    <3>2. CASE Refused(p)
      BY <1>4, <3>2 DEF Refused, PassFails
    <3> QED BY <1>8, <3>1, <3>2
  <2> QED BY <1>1, <1>2, <2>2, <2>3, <2>4, SemanticStep
<1>9. CASE Relaunch(p)
  <2>1. UNCHANGED <<promoted, desired, loc>>
    BY <1>9 DEF Relaunch
  <2>2. running' \in {running, loc[p].pending, desired}
    BY <1>9 DEF Relaunch
  <2> QED BY <1>1, <1>2, <2>1, <2>2, SemanticStep
<1>10. CASE RecordSpend(p) \/ Confirm(p)
  <2>1. UNCHANGED <<promoted, running, desired>>
    BY <1>10 DEF RecordSpend, Confirm
  <2>2. /\ loc'[p].pending \in {loc[p].pending, NoFingerprint}
        /\ loc'[p].want \in {loc[p].want, NoFingerprint}
    <3>1. CASE RecordSpend(p)
      BY <1>1, <1>3, <3>1 DEF RecordSpend, SetLoc, Locals
    <3>2. CASE Confirm(p)
      BY <1>4, <3>2 DEF Confirm, PassFails
    <3> QED BY <1>10, <3>1, <3>2
  <2> QED BY <1>1, <1>2, <2>1, <2>2, SemanticStep
<1> QED BY <1>5, <1>6, <1>7, <1>8, <1>9, <1>10 DEF Process, Step

\* Every step keeps it; a promotion asks for what it writes.
LEMMA SemanticNext == RecInv /\ SemanticInv /\ [Next]_vars => SemanticInv'
<1> SUFFICES ASSUME RecInv, SemanticInv, [Next]_vars PROVE SemanticInv'
  OBVIOUS
<1>1. CASE Promote
  <2>1. /\ promoted' = [f \in Fields |-> promoted[f] \cup {desired'[f]}]
        /\ UNCHANGED <<running, loc>>
    BY <1>1 DEF Promote, runtime
  <2>2. \A f \in Semantic : promoted[f] \subseteq promoted'[f] /\ desired'[f] \in promoted'[f]
    BY <2>1, ReconcilerAssumption
  <2> QED BY <2>1, <2>2 DEF SemanticInv, Asked
<1>2. CASE RepositoryEdited \/ OperatorClears \/ UNCHANGED vars
  <2>1. UNCHANGED <<promoted, running, desired, loc>>
    BY <1>2 DEF RepositoryEdited, OperatorClears, vars, files, runtime, Same
  <2> QED BY <2>1 DEF SemanticInv, Asked
<1> QED BY <1>1, <1>2, SemanticProcess DEF Next

\* What is neither classified for deployment nor promoted is not deployed: edits of the
\* repository reach neither the desired fingerprint nor the runtime in the
\* research-semantic fields, for any number of supervisors and commands.
THEOREM OnlyPromotedSemanticsHolds == Spec => []OnlyPromotedSemantics
<1>1. RecInv /\ SemanticInv => OnlyPromotedSemantics
  BY ReconcilerAssumption
     DEF RecInv, TypeOK, SemanticInv, Asked, OnlyPromotedSemantics, Fingerprints
<1> QED BY <1>1, RecInit, RecNext, SemanticInit, SemanticNext, PTL DEF Spec

-------------------------------------------------------------------------------
\* What one supervisor relaunches is paid for.

\* The tracker of a supervisor that runs holds what budget.json says, and relaunches
\* are covered but for the one in hand and one per crash.
Accounted(s) ==
    /\ pc[s] # "down" => loc[s].cache = spend
    /\ relaunched <= spend + (IF pc[s] = "pay" THEN 1 ELSE 0) + crashes

\* A step of s that neither relaunches nor pays: its tracker stays, or is given up.
LEMMA AccountQuiet ==
    ASSUME RecInv, NEW s \in Procs, Accounted(s), UNCHANGED <<spend, relaunched, crashes>>,
           pc[s] # "pay", pc'[s] # "pay",
           pc'[s] # "down" => loc'[s].cache = spend
    PROVE  Accounted(s)'
  BY DEF Accounted

\* Whoever exits or ends a pass keeps its tracker, or gives it up.
LEMMA AccountEnd ==
    ASSUME RecInv, NEW s \in Procs, Accounted(s), Exit(s) \/ PassDone(s), pc[s] # "down"
    PROVE  pc'[s] # "pay" /\ (pc'[s] # "down" => loc'[s].cache = spend)
<1>1. CASE Exit(s)
  BY <1>1 DEF Exit, Goto, RecInv, TypeOK
<1>2. CASE PassDone(s) /\ ~Exit(s)
  <2>1. Goto(s, "done") /\ SetLoc(s, Rest(loc[s]))
    BY <1>2 DEF PassDone
  <2>2. loc[s] \in Locals
    BY DEF RecInv, TypeOK
  <2>3. pc'[s] = "done" /\ loc'[s] = Rest(loc[s])
    BY <2>1 DEF Goto, SetLoc, RecInv, TypeOK
  <2>4. Rest(loc[s]).cache = loc[s].cache
    BY <2>2 DEF Rest, Locals
  <2> QED BY <2>3, <2>4 DEF Accounted
<1> QED BY <1>1, <1>2

\* The steps of the supervisor keep it.
LEMMA AccountOwn ==
    ASSUME RecInv, NEW s \in Supervisors, Accounted(s), Process(s)
    PROVE  Accounted(s)'
<1> USE DEF files, runtime, Same, Supervisors
<1>1. /\ InHand(s) /\ loc[s] \in Locals
      /\ spend \in 0 .. Ceiling /\ relaunched \in Nat /\ crashes \in 0 .. MaxCrashes
  BY DEF RecInv, TypeOK
<1>2. \A label \in {"down", "built", "idle", "done"} \cup InPass : Goto(s, label) => pc'[s] = label
  BY DEF Goto, RecInv, TypeOK
<1>3. \A l \in Locals : SetLoc(s, l) => loc'[s] = l
  BY DEF SetLoc, RecInv, TypeOK
<1>4. CASE Build(s)
  <2>1. pc'[s] = "built" /\ pc[s] = "down"
    BY <1>2, <1>4 DEF Build
  <2>2. loc'[s].cache = spend
    BY <1>4 DEF Build, SetLoc, RecInv, TypeOK, IdleLoc
  <2> QED BY <1>4, <2>1, <2>2, AccountQuiet DEF Build
<1>5. CASE Acquire(s)
  <2>1. pc[s] = "built" /\ loc[s].cache = spend
    BY <1>5 DEF Acquire, Accounted
  <2>2. CASE LeaseFree
    BY <1>2, <1>5, <2>1, <2>2, AccountQuiet DEF Acquire
  <2>3. CASE ~LeaseFree
    BY <1>5, <2>1, <2>3, AccountEnd, AccountQuiet DEF Acquire
  <2> QED BY <2>2, <2>3
<1>6. CASE Tick(s) \/ StartRelaunch(s) \/ Repair(s) \/ Proceed(s)
  <2>1. pc[s] # "down" /\ pc[s] # "pay"
    BY <1>6 DEF Tick, StartRelaunch, Repair, Proceed
  <2>2. pc'[s] # "pay"
    BY <1>2, <1>6 DEF Tick, StartRelaunch, Repair, Proceed, InPass
  <2>3. loc'[s].cache = loc[s].cache
    <3>2. CASE Tick(s)
      BY <1>1, <3>2 DEF Tick, SetLoc, RecInv, TypeOK, Locals
    <3>3. CASE StartRelaunch(s)
      BY <1>1, <3>3 DEF StartRelaunch, SetLoc, RecInv, TypeOK, Locals
    <3>4. CASE Repair(s)
      BY <1>1, <3>4 DEF Repair, SetLoc, RecInv, TypeOK, Locals
    <3>5. CASE Proceed(s)
      BY <1>1, <3>5 DEF Proceed, SetLoc, RecInv, TypeOK, Locals
    <3> QED BY <1>6, <3>2, <3>3, <3>4, <3>5
  <2>4. UNCHANGED <<spend, relaunched, crashes>>
    BY <1>6 DEF Tick, StartRelaunch, Repair, Proceed
  <2> QED BY <2>1, <2>2, <2>3, <2>4, AccountQuiet DEF Accounted
<1>7. CASE Preflight(s) \/ OutOfRounds(s)
  <2>1. pc[s] = "preflight" /\ UNCHANGED <<spend, relaunched, crashes>>
    BY <1>7 DEF Preflight, OutOfRounds
  <2>2. pc'[s] \in {"sync", "repair"}
    BY <1>2, <1>7 DEF Preflight, OutOfRounds, InPass
  <2>3. loc'[s].cache = loc[s].cache
    <3>1. CASE SetLoc(s, [loc[s] EXCEPT !.ready = TRUE])
      BY <1>1, <3>1 DEF SetLoc, RecInv, TypeOK, Locals
    <3>2. CASE UNCHANGED loc
      BY <3>2
    <3>3. ASSUME NEW n \in 1 .. MaxRepairs,
                 SetLoc(s, [loc[s] EXCEPT !.rounds = @ + 1, !.left = n])
          PROVE  loc'[s].cache = loc[s].cache
      BY <1>1, <3>3 DEF SetLoc, RecInv, TypeOK, Locals
    <3> QED BY <1>7, <3>1, <3>2, <3>3 DEF Preflight, OutOfRounds
  <2> QED BY <2>1, <2>2, <2>3, AccountQuiet DEF Accounted
<1>8. CASE StayBlocked(s) \/ Leave(s) \/ NothingToDo(s) \/ MayNotAct(s) \/ WouldAct(s)
           \/ Refused(s) \/ Confirm(s)
  <2>1. pc[s] \notin {"down", "pay"} /\ UNCHANGED <<spend, relaunched, crashes>>
    BY <1>8 DEF StayBlocked, Leave, NothingToDo, MayNotAct, WouldAct, Refused, Confirm
  <2>2. Exit(s) \/ PassDone(s)
    BY <1>8 DEF StayBlocked, Leave, NothingToDo, MayNotAct, WouldAct, Refused, Confirm, PassFails
  <2> QED BY <2>1, <2>2, AccountEnd, AccountQuiet
<1>9. CASE Relaunch(s)
  <2>1. /\ pc[s] = "relaunch" /\ pc'[s] = "pay" /\ UNCHANGED <<spend, loc, crashes>>
        /\ relaunched' = relaunched + 1
    BY <1>2, <1>9 DEF Relaunch, InPass
  <2> QED BY <1>1, <2>1 DEF Accounted
<1>10. CASE RecordSpend(s)
  <2>1. /\ pc[s] = "pay" /\ pc'[s] = "confirm" /\ UNCHANGED <<relaunched, crashes>>
        /\ spend' = loc[s].cache + 1 /\ loc[s].cache = spend
    BY <1>2, <1>10 DEF RecordSpend, InPass, Accounted
  <2>2. loc'[s].cache = loc[s].cache + 1
    BY <1>1, <1>10 DEF RecordSpend, Paid, SetLoc, RecInv, TypeOK, Locals
  <2> QED BY <1>1, <2>1, <2>2 DEF Accounted
<1>11. CASE Crash(s)
  <2>1. pc'[s] = "down" /\ UNCHANGED <<spend, relaunched>> /\ crashes' = crashes + 1
    BY <1>2, <1>11 DEF Crash, Exit
  <2> QED BY <1>1, <2>1 DEF Accounted
<1>12. CASE ReconcileOnce(s)
  BY <1>12 DEF ReconcileOnce
<1> QED BY <1>4, <1>5, <1>6, <1>7, <1>8, <1>9, <1>10, <1>11, <1>12 DEF Process, Step

\* A command pays nothing and its relaunches are not the supervisor's.
LEMMA AccountCommand ==
    ASSUME RecInv, RecInv', NEW s \in Supervisors, Accounted(s), NEW p \in Command, Process(p)
    PROVE  Accounted(s)'
<1> USE DEF files, runtime, Same, Supervisors
<1>1. p \in Procs /\ p # s /\ InHand(p)
  BY ReconcilerAssumption DEF RecInv
<1>2. pc'[s] = pc[s] /\ loc'[s] = loc[s]
  BY <1>1, OnlyOneMoves DEF OthersStay
<1>3. /\ spend \in Int /\ relaunched \in Int /\ crashes \in Int
  BY ReconcilerAssumption DEF RecInv, TypeOK
<1>4. UNCHANGED spend /\ UNCHANGED relaunched
      /\ (UNCHANGED crashes \/ crashes' = crashes + 1)
  <2>1. CASE ReconcileOnce(p) \/ Leave(p) \/ StayBlocked(p) \/ Acquire(p) \/ Tick(p)
    BY <2>1 DEF ReconcileOnce, Leave, StayBlocked, Acquire, Tick
  <2>2. CASE NothingToDo(p) \/ MayNotAct(p) \/ WouldAct(p) \/ StartRelaunch(p)
    BY <2>2 DEF NothingToDo, MayNotAct, WouldAct, StartRelaunch
  <2>3. CASE Preflight(p) \/ OutOfRounds(p) \/ Repair(p) \/ Proceed(p) \/ Refused(p)
    BY <2>3 DEF Preflight, OutOfRounds, Repair, Proceed, Refused
  <2>4. CASE Relaunch(p)
    BY <1>3, <2>4 DEF Relaunch
  <2>5. CASE Confirm(p)
    BY <2>5 DEF Confirm
  <2>6. CASE Crash(p)
    BY <2>6 DEF Crash
  <2>7. ~Build(p)
    BY DEF Build
  <2>8. ~RecordSpend(p)
    BY <1>1 DEF RecordSpend, InHand
  <2> QED BY <2>1, <2>2, <2>3, <2>4, <2>5, <2>6, <2>7, <2>8 DEF Process, Step
<1>5. DEFINE owed == IF pc[s] = "pay" THEN 1 ELSE 0
<1>6. owed \in Int /\ relaunched <= spend + owed + crashes
  BY DEF Accounted
<1>7. relaunched' <= spend' + owed + crashes'
  <2> HIDE DEF owed
  <2> QED BY <1>3, <1>4, <1>6
<1> QED BY <1>2, <1>4, <1>7 DEF Accounted

\* A project with one supervisor at a time pays for every relaunch but one per crash, any
\* number of reconcile commands beside it and however often it is started again.
THEOREM RelaunchesPaidHolds ==
    ASSUME NEW s \in Procs, Supervisors = {s}
    PROVE  Spec => []RelaunchesPaid
<1>1. Init => Accounted(s)
  BY DEF Init, Accounted
<1>2. RecInv /\ Accounted(s) /\ [Next]_vars => Accounted(s)'
  <2> SUFFICES ASSUME RecInv, Accounted(s), [Next]_vars PROVE Accounted(s)'
    OBVIOUS
  <2>1. ASSUME NEW p \in Procs, Process(p) PROVE Accounted(s)'
    <3>1. CASE p = s
      BY <2>1, <3>1, AccountOwn
    <3>2. CASE p # s
      <4>1. p \in Command /\ s \in Supervisors
        BY <3>2 DEF Supervisors
      <4>2. RecInv'
        BY RecNext
      <4> QED BY <2>1, <4>1, <4>2, AccountCommand
    <3> QED BY <3>1, <3>2
  <2>2. CASE Promote \/ RepositoryEdited \/ OperatorClears \/ UNCHANGED vars
    BY <2>2 DEF Promote, RepositoryEdited, OperatorClears, vars, files, runtime, Same, Accounted
  <2> QED BY <2>1, <2>2 DEF Next
<1>3. RecInv /\ Accounted(s) => RelaunchesPaid
  <2> SUFFICES ASSUME RecInv, Accounted(s) PROVE RelaunchesPaid
    OBVIOUS
  <2> USE DEF Supervisors
  <2>1. CASE pc[s] = "pay"
    <3>1. Paying = {s}
      BY <2>1 DEF Paying
    <3> QED BY <2>1, <3>1, FS_Singleton DEF Accounted, RelaunchesPaid
  <2>2. CASE pc[s] # "pay"
    <3>1. Paying = {}
      BY <2>2 DEF Paying
    <3> QED BY <2>2, <3>1, FS_EmptySet DEF Accounted, RelaunchesPaid
  <2> QED BY <2>1, <2>2
<1> QED BY <1>1, <1>2, <1>3, RecInit, RecNext, PTL DEF Spec
===============================================================================
