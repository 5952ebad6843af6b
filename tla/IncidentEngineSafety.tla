-------------------------- MODULE IncidentEngineSafety --------------------------
(***************************************************************************)
(* What the engine guarantees while the lease keeps its promise, that it   *)
(* never passes on while its holder lives.  Crashes, restarts, the worker, *)
(* the clock and the operator are unrestricted.                            *)
(*                                                                         *)
(* OneLease is that promise and no more: observe-only supervisors and      *)
(* status commands may run beside the acting supervisor, and may write     *)
(* stale copies of its rows.  What runs is still recorded first, and no    *)
(* observer acts.  SupervisorsOnly keeps the status command away, which    *)
(* has no lease: then the rows themselves can be relied on, and the engine *)
(* implements IncidentLifecycle.  Exclusive keeps the observe-only         *)
(* supervisors away too: nothing pending is ever blocked.                  *)
(***************************************************************************)
EXTENDS IncidentEngineProofs

OneLease == LeaseExpires = FALSE

SupervisorsOnly == OneLease /\ \A p \in Procs : Mode[p] # "status"

Exclusive == OneLease /\ \A p \in Procs : Mode[p] = "run"

-------------------------------------------------------------------------------
\* Under the lease alone: observe-only supervisors and status commands may run at any
\* time.

NothingPending == {"idle", "list", "decide", "fill", "remediate", "save",
                   "close", "done", "escalate"}

\* The intent in hand is the only pending one; a process past the startup pass
\* that executes nothing leaves none.
IntentInHand(p) ==
    /\ pc[p] = "orphans" => OrphanedPending = loc[p].todo
    /\ pc[p] = "orphan_block" => OrphanedPending = {} /\ loc[p].todo = {loc[p].intent}
    /\ pc[p] = "orphan_mark" =>
          OrphanedPending = {loc[p].intent} /\ loc[p].todo = {loc[p].intent}
    /\ pc[p] \in {"execute", "mark"} => OrphanedPending = {loc[p].intent}
    /\ pc[p] = "execute" => intents[loc[p].intent].incident = loc[p].id
    /\ pc[p] \in NothingPending => OrphanedPending = {}

OnePending == \A j, k \in OrphanedPending : j = k

\* The labels of a process that has an incident in hand.
HasRow(p) == pc[p] \in HoldsIncident \/ (pc[p] = "decide" /\ loc[p].id # NoIncident)

\* A supervisor that lives holds the lease.  Orphans in hand are pending, and an acting
\* supervisor knows of every pending intent; nobody's copy of a row says closed, and
\* nobody else closes the incident an acting supervisor has in hand.
Leased(p) ==
    /\ pc[p] \in {"orphans", "orphan_block"} => Supervisor(p)
    /\ pc[p] \in {"orphan_mark", "execute", "mark", "save"} => Mode[p] = "run"
    /\ Supervisor(p) /\ pc[p] # "down" => holder = p
    /\ pc[p] = "orphans" => loc[p].todo \subseteq OrphanedPending
    /\ pc[p] = "orphan_block" => OrphanedPending = {} /\ loc[p].todo = {loc[p].intent}
    /\ Mode[p] = "run" => IntentInHand(p)
    /\ pc[p] = "list" => loc[p].id = NoIncident
    /\ HasRow(p) => loc[p].row.status # "CLOSED"
    /\ Mode[p] = "run" /\ HasRow(p) /\ pc[p] \notin {"orphan_block", "close"} =>
          incidents[loc[p].id].status # "CLOSED"

PendingNotClosed ==
    \A k \in OrphanedPending : incidents[intents[k].incident].status # "CLOSED"

FreshIntents ==
    \A k \in Intents : intents[k].status = "NONE" => intents[k].incident = NoIncident

HasPending(i) == \E k \in OrphanedPending : intents[k].incident = i

\* Incident i has a pending intent whose strategy is still to run, not just to be marked.
Unrun(i) ==
    IF HasPending(i) /\ \A p \in Procs : pc[p] \notin {"mark", "orphan_mark"}
    THEN 1 ELSE 0

Written(i) == {k \in Intents : intents[k].incident = i}

\* Executions of incident i and the one its pending intent stands for, against the
\* intents written for it.
Covered(i) == executed[i] + Unrun(i) <= Cardinality(Written(i)) + crashes

LeasedInv ==
    /\ TypeInv
    /\ OnePending
    /\ PendingNotClosed
    /\ FreshIntents
    /\ \A p \in Procs : Leased(p)
    /\ \A i \in Incidents : Covered(i)

\* Nobody runs and nothing is written at first.
LEMMA LeasedInit == Init => LeasedInv
  <1> SUFFICES ASSUME Init PROVE LeasedInv
    OBVIOUS
  <1>1. OrphanedPending = {} /\ \A i \in Incidents : Written(i) = {}
    BY DEF Init, OrphanedPending, Written, NewIntent, Incidents, NoIncident
  <1>2. \A p \in Procs : pc[p] = "down"
    BY DEF Init
  <1>3. \A p \in Procs : Leased(p)
    BY <1>2 DEF Leased, HasRow, HoldsIncident, IntentInHand, NothingPending
  <1>4. FreshIntents
    BY DEF Init, NewIntent, FreshIntents
  <1>5. ASSUME NEW i \in Incidents PROVE Covered(i)
    <2>1. Unrun(i) = 0 /\ executed[i] = 0 /\ crashes = 0
      BY <1>1 DEF Init, Unrun, HasPending
    <2>2. Cardinality(Written(i)) = 0
      BY <1>1, FS_EmptySet
    <2> QED BY <2>1, <2>2 DEF Covered
  <1> QED BY <1>1, <1>3, <1>4, <1>5, TypeInit DEF LeasedInv, OnePending, PendingNotClosed

\* The counters of the invariant are natural numbers.
LEMMA CoverTypes ==
    ASSUME TypeInv, NEW i \in Incidents
    PROVE  /\ executed[i] \in Nat /\ crashes \in Nat /\ Unrun(i) \in {0, 1}
           /\ IsFiniteSet(Written(i)) /\ Cardinality(Written(i)) \in Nat
  <1>1. IsFiniteSet(Written(i))
    <2>1. IsFiniteSet(Intents)
      BY EngineAssumption, FS_Interval DEF Intents
    <2> QED BY <2>1, FS_Subset DEF Written
  <1>2. executed[i] \in Nat /\ crashes \in Nat
    BY EngineAssumption DEF TypeInv, TypeOK
  <1> QED BY <1>1, <1>2, FS_CardinalityType DEF Unrun

\* Running a strategy counts for its incident alone.
LEMMA RunsCount ==
    ASSUME TypeInv, NEW i \in Incidents, NEW ok \in BOOLEAN, StrategyRuns(i, ok)
    PROVE  \A j \in Incidents : executed'[j] = IF j = i THEN executed[j] + 1 ELSE executed[j]
  BY DEF StrategyRuns, TypeInv, TypeOK

\* No other supervisor runs beside p.
Sole(p) == \A q \in Procs : q # p => pc[q] = "down" \/ ~Supervisor(q)

\* A step closes nothing.
NoneCloses ==
    \A i \in Incidents : incidents'[i].status = "CLOSED" => incidents[i].status = "CLOSED"

\* Who holds the lease is the only supervisor that runs.
LEMMA HolderAlone ==
    ASSUME LeasedInv, NEW p \in Procs, Supervisor(p), pc[p] # "down"
    PROVE  Sole(p)
  BY DEF LeasedInv, Leased, Sole

\* A process with an incident in hand has one of the table.
LEMMA RowInTable ==
    ASSUME TypeInv, NEW p \in Procs, HasRow(p)
    PROVE  loc[p].id \in Incidents
  <1>1. loc[p].id \in Incidents \cup {NoIncident}
    BY DEF TypeInv, TypeOK, Locals
  <1> QED BY <1>1 DEF TypeInv, Bookkeeping, HasRow

\* What a step of p leaves of another process: everything, unless p changes the intents
\* or closes an incident, and then no other supervisor runs.
LEMMA OthersLeased ==
    ASSUME TypeInv, NEW q \in Procs, Leased(q), pc'[q] = pc[q], loc'[q] = loc[q],
           \/ pc[q] = "down" \/ ~Supervisor(q)
           \/ intents' = intents /\ NoneCloses /\ holder' = q
    PROVE  Leased(q)'
  <1>1. HasRow(q)' = HasRow(q)
    BY DEF HasRow
  <1>2. CASE pc[q] = "down"
    BY <1>2 DEF Leased, HasRow, HoldsIncident, IntentInHand, NothingPending
  <1>3. CASE ~Supervisor(q)
    BY <1>1, <1>3 DEF Leased, Supervisor
  <1>4. CASE intents' = intents /\ NoneCloses /\ holder' = q
    <2>1. OrphanedPending' = OrphanedPending
      BY <1>4 DEF OrphanedPending
    <2>2. IntentInHand(q) => IntentInHand(q)'
      BY <1>4, <2>1 DEF IntentInHand
    <2>3. HasRow(q) => loc[q].id \in Incidents
      BY RowInTable
    <2>4. HasRow(q) /\ incidents[loc[q].id].status # "CLOSED" =>
             incidents'[loc'[q].id].status # "CLOSED"
      BY <1>4, <2>3 DEF NoneCloses
    <2> QED BY <1>1, <1>4, <2>1, <2>2, <2>4 DEF Leased
  <1> QED BY <1>2, <1>3, <1>4

\* The invariant after a step of p, part by part.
LEMMA LeasedGlue ==
    ASSUME LeasedInv, TypeInv', NEW p \in Procs,
           \A q \in Procs : q # p => pc'[q] = pc[q] /\ loc'[q] = loc[q],
           \/ Sole(p)
           \/ /\ intents' = intents /\ NoneCloses
              /\ \A q \in Procs : q # p /\ holder = q => holder' = q,
           OnePending', PendingNotClosed', FreshIntents', Leased(p)',
           \A i \in Incidents : Covered(i)'
    PROVE  LeasedInv'
  <1>1. ASSUME NEW q \in Procs, q # p PROVE Leased(q)'
    <2>1. Leased(q) /\ (Supervisor(q) /\ pc[q] # "down" => holder = q)
      BY DEF LeasedInv, Leased
    <2>2. \/ pc[q] = "down" \/ ~Supervisor(q)
          \/ intents' = intents /\ NoneCloses /\ holder' = q
      BY <1>1, <2>1 DEF Sole
    <2> QED BY <1>1, <2>1, <2>2, OthersLeased DEF LeasedInv
  <1> QED BY <1>1 DEF LeasedInv

Marking == {"mark", "orphan_mark"}

\* A step that writes no intent, runs nothing and closes nothing has to be shown to keep
\* its own process in order.
LEMMA LeasedQuiet ==
    ASSUME LeasedInv, TypeInv', NEW p \in Procs,
           \A q \in Procs : q # p => pc'[q] = pc[q] /\ loc'[q] = loc[q],
           pc[p] \notin Marking, pc'[p] \notin Marking,
           UNCHANGED <<intents, executed, crashes>>, NoneCloses,
           Sole(p) \/ \A q \in Procs : q # p /\ holder = q => holder' = q,
           Leased(p)'
    PROVE  LeasedInv'
  <1>1. OrphanedPending' = OrphanedPending
    BY DEF OrphanedPending
  <1>2. OnePending' /\ FreshIntents'
    BY <1>1 DEF LeasedInv, OnePending, FreshIntents
  <1>3. PendingNotClosed'
    <2>1. \A k \in OrphanedPending : intents[k].incident \in Incidents
      BY DEF LeasedInv, TypeInv, Bookkeeping, OrphanedPending
    <2> QED BY <1>1, <2>1 DEF LeasedInv, PendingNotClosed, NoneCloses
  <1>4. ASSUME NEW i \in Incidents PROVE Covered(i)'
    <2>1. HasPending(i)' = HasPending(i) /\ Written(i)' = Written(i)
      BY <1>1 DEF HasPending, Written
    <2>2. (\A q \in Procs : pc[q] \notin Marking) <=> (\A q \in Procs : pc'[q] \notin Marking)
      OBVIOUS
    <2>3. Unrun(i)' = Unrun(i)
      BY <2>1, <2>2 DEF Unrun, Marking
    <2> QED BY <2>1, <2>3 DEF LeasedInv, Covered
  <1> QED BY <1>2, <1>3, <1>4, LeasedGlue

\* At these labels a process has no incident in hand.
LEMMA RestLeased ==
    ASSUME TypeInv, NEW p \in Procs, NEW label \in {"down", "idle", "list", "done", "escalate"},
           pc'[p] = label, UNCHANGED intents,
           label # "down" /\ Supervisor(p) => holder' = p,
           label # "down" /\ Mode[p] = "run" => OrphanedPending = {},
           label = "list" => loc'[p].id = NoIncident
    PROVE  Leased(p)'
  <1>1. OrphanedPending' = OrphanedPending
    BY DEF OrphanedPending
  <1>2. ~HasRow(p)'
    BY DEF HasRow, HoldsIncident
  <1>3. Mode[p] = "run" => IntentInHand(p)'
    BY <1>1 DEF IntentInHand, NothingPending
  <1> QED BY <1>2, <1>3 DEF Leased

\* A row written over by one that is not closed closes nothing.
LEMMA WriteCloses ==
    ASSUME TypeInv, NEW i \in Incidents, NEW row, row.status # "CLOSED",
           incidents' = [incidents EXCEPT ![i] = row]
    PROVE  NoneCloses
  BY DEF TypeInv, TypeOK, NoneCloses

\* The only step that closes an incident is the close of an acting supervisor.
LEMMA OnlyCloseCloses ==
    ASSUME LeasedInv, NEW p \in Procs, Process(p), pc[p] = "close" => Mode[p] # "run"
    PROVE  NoneCloses
  <1>t. TypeInv /\ TypeOK /\ Leased(p)
    BY DEF LeasedInv, TypeInv
  <1>l. loc[p] \in Locals /\ loc[p].row \in Rows
    BY <1>t DEF TypeOK, Locals
  <1>h. HasRow(p) => loc[p].id \in Incidents /\ loc[p].row.status # "CLOSED"
    BY <1>t, RowInTable DEF Leased
  <1>1. CASE UNCHANGED incidents
    BY <1>1 DEF NoneCloses
  <1>2. CASE OrphanBlock(p)
    <2>1. HasRow(p)
      BY <1>2 DEF OrphanBlock, HasRow, HoldsIncident
    <2>2. PICK row : row = [loc[p].row EXCEPT !.blocked = TRUE]
      OBVIOUS
    <2>3. row.status = loc[p].row.status /\ incidents' = [incidents EXCEPT ![loc[p].id] = row]
      BY <1>2, <1>l, <2>2 DEF OrphanBlock, Rows
    <2> QED BY <1>h, <1>t, <2>1, <2>3, WriteCloses
  <1>3. CASE BlockOpenIncident(p) \/ RefuseRemediation(p)
    <2>1. HasRow(p)
      BY <1>3 DEF BlockOpenIncident, RefuseRemediation, NoneOpen, HasRow, HoldsIncident
    <2>2. PICK row : row = [loc[p].row EXCEPT !.blocked = TRUE]
      OBVIOUS
    <2>3. row.status = loc[p].row.status /\ incidents' = [incidents EXCEPT ![loc[p].id] = row]
      BY <1>3, <1>l, <2>2 DEF BlockOpenIncident, RefuseRemediation, Save, Rows
    <2> QED BY <1>h, <1>t, <2>1, <2>3, WriteCloses
  <1>4. ASSUME NEW i \in Incidents, OpenIncident(p, i) PROVE NoneCloses
    <2>1. PICK row : row = [NewRow EXCEPT !.status = "OPEN", !.openedAt = now,
                                        !.symptom = Symptom(p)]
      OBVIOUS
    <2>2. row.status = "OPEN" /\ incidents' = [incidents EXCEPT ![i] = row]
      BY <1>4, <2>1 DEF OpenIncident, NewRow
    <2> QED BY <1>t, <2>2, WriteCloses
  <1>5. CASE FillIncident(p)
    <2>1. HasRow(p)
      BY <1>5 DEF FillIncident, HasRow, HoldsIncident
    <2>2. incidents' = [incidents EXCEPT ![loc[p].id] = loc[p].row]
      BY <1>5 DEF FillIncident
    <2> QED BY <1>h, <1>t, <2>1, <2>2, WriteCloses
  <1>6. CASE AdvanceBurnIn(p)
    <2>1. HasRow(p)
      BY <1>6 DEF AdvanceBurnIn, NoneOpen, HasRow
    <2>2. PICK b : b = EvaluateBurnIn(loc[p].row.burnIn, loc[p].obs.units,
                           HealthOk(loc[p].obs) /\ ProgressOk(loc[p].obs),
                           loc[p].at, loc[p].row.remediated)
      OBVIOUS
    <2>3. PICK row : row = [loc[p].row EXCEPT !.burnIn = b]
      OBVIOUS
    <2>4. row.status = loc[p].row.status /\ incidents' = [incidents EXCEPT ![loc[p].id] = row]
      BY <1>6, <1>l, <2>2, <2>3 DEF AdvanceBurnIn, Rows
    <2> QED BY <1>h, <1>t, <2>1, <2>4, WriteCloses
  <1>7. CASE SaveRemediation(p)
    <2>1. HasRow(p)
      BY <1>7 DEF SaveRemediation, HasRow, HoldsIncident
    <2>2. PICK b : b = EvaluateBurnIn(InitialBurnIn, worker.units, loc[p].ok,
                                      loc[p].at, loc[p].ok)
      OBVIOUS
    <2>3. PICK row : row = [loc[p].row EXCEPT !.burnIn = b]
      OBVIOUS
    <2>4. row.status = loc[p].row.status /\ incidents' = [incidents EXCEPT ![loc[p].id] = row]
      BY <1>7, <1>l, <2>2, <2>3 DEF SaveRemediation, Rows
    <2> QED BY <1>h, <1>t, <2>1, <2>4, WriteCloses
  <1>8. CASE CloseIncident(p)
    BY <1>8, <1>1 DEF CloseIncident, ObserveOnly
  <1> QED
    BY <1>1, <1>2, <1>3, <1>4, <1>5, <1>6, <1>7, <1>8
    DEF Process, Step, Startup, Status, Leave, Crash, OrphanRefused, OrphanObserved,
        OrphanExecute, OrphanMark, OrphansDone, LeaseLost, StayBlocked, Tick, Inspect,
        ListOpen, StartRemediation, Quiet, NextTick, CreateIntent, WouldRemediate,
        ExecuteStrategy, MarkIntent, MarkBlocked, stores

\* Settling the one pending intent leaves none pending.
LEMMA LastSettled ==
    ASSUME TypeInv, OnePending, FreshIntents, NEW k \in OrphanedPending,
           NEW s \in {"EXECUTED", "FAILED"},
           intents' = [intents EXCEPT ![k].status = s]
    PROVE  /\ OrphanedPending = {k} /\ OrphanedPending' = {}
           /\ OnePending' /\ PendingNotClosed' /\ FreshIntents'
           /\ \A i \in Incidents : Written(i)' = Written(i) /\ Unrun(i)' = 0
  <1>1. OrphanedPending = {k} /\ k \in Intents
    BY DEF OnePending, OrphanedPending
  <1>2. \A j \in Intents : /\ intents'[j].incident = intents[j].incident
                           /\ intents'[j].status = IF j = k THEN s ELSE intents[j].status
    BY <1>1 DEF TypeInv, TypeOK, IntentRows
  <1>3. OrphanedPending' = {}
    BY <1>1, <1>2 DEF OrphanedPending
  <1>4. FreshIntents'
    BY <1>2 DEF FreshIntents
  <1>5. \A i \in Incidents : Written(i)' = Written(i)
    BY <1>2 DEF Written
  <1>6. \A i \in Incidents : Unrun(i)' = 0
    BY <1>3 DEF Unrun, HasPending
  <1> QED BY <1>1, <1>3, <1>4, <1>5, <1>6 DEF OnePending, PendingNotClosed

\* The strategy of the pending intent runs: what was owed for its incident is paid.
LEMMA PendingRuns ==
    ASSUME LeasedInv, NEW p \in Procs, Sole(p), NEW k \in OrphanedPending,
           pc[p] \notin Marking, pc'[p] \in Marking,
           NEW ok \in BOOLEAN, StrategyRuns(intents[k].incident, ok),
           UNCHANGED <<intents, crashes>>
    PROVE  \A i \in Incidents : Covered(i)'
  <1> TAKE i \in Incidents
  <1>1. intents[k].incident \in Incidents
    BY DEF LeasedInv, TypeInv, Bookkeeping, OrphanedPending
  <1>2. executed'[i] = IF i = intents[k].incident THEN executed[i] + 1 ELSE executed[i]
    BY <1>1, RunsCount DEF LeasedInv
  <1>3. \A q \in Procs : pc[q] \notin Marking
    <2>1. \A q \in Procs : pc[q] \in Marking => Mode[q] = "run"
      BY DEF LeasedInv, Leased, Marking
    <2> QED BY <2>1 DEF Sole, Marking, Supervisor
  <1>4. i = intents[k].incident => Unrun(i) = 1
    BY <1>3 DEF Unrun, HasPending, Marking
  <1>5. Unrun(i)' = 0 /\ Written(i)' = Written(i)
    BY DEF Unrun, Marking, Written
  <1>6. executed[i] + Unrun(i) <= Cardinality(Written(i)) + crashes
    BY DEF LeasedInv, Covered
  <1>7. /\ executed[i] \in Nat /\ crashes \in Nat /\ Cardinality(Written(i)) \in Nat
        /\ Unrun(i) \in {0, 1}
    BY CoverTypes DEF LeasedInv
  <1>8. executed'[i] + 0 <= Cardinality(Written(i)) + crashes
    BY <1>2, <1>4, <1>6, <1>7
  <1> QED BY <1>5, <1>8 DEF Covered

\* Every step of a process keeps the invariant.
LEMMA LeasedProcess ==
    ASSUME OneLease, LeasedInv, TypeInv', NEW p \in Procs, Process(p)
    PROVE  LeasedInv'
  <1> USE DEF SetLoc, Goto
  <1>t. TypeInv /\ TypeOK /\ Bookkeeping
    BY DEF LeasedInv, TypeInv
  <1>l. loc[p] \in Locals /\ loc[p].row \in Rows
    BY <1>t DEF TypeOK, Locals
  <1>h. Leased(p) /\ (HasRow(p) => loc[p].id \in Incidents)
    BY <1>t, RowInTable DEF LeasedInv
  <1>m. \A label : pc' = [pc EXCEPT ![p] = label] =>
           pc'[p] = label /\ \A q \in Procs : q # p => pc'[q] = pc[q]
    BY <1>t DEF TypeOK
  <1>n. \A l : loc' = [loc EXCEPT ![p] = l] =>
           loc'[p] = l /\ \A q \in Procs : q # p => loc'[q] = loc[q]
    BY <1>t DEF TypeOK
  <1>e. EndTick(p) => /\ pc' = [pc EXCEPT ![p] = "done"]
                      /\ loc' = [loc EXCEPT ![p] = [IdleLoc EXCEPT !.auth = loc[p].auth]]
    BY DEF EndTick
  <1>x. Exit(p) => /\ pc' = [pc EXCEPT ![p] = "down"] /\ loc' = [loc EXCEPT ![p] = IdleLoc]
                   /\ \A q \in Procs : q # p /\ holder = q => holder' = q
    BY DEF Exit
  <1>c. pc[p] # "close" \/ Mode[p] # "run" => NoneCloses
    BY OnlyCloseCloses
  \* Steps that leave the stores alone.
  <1>1. CASE Startup(p)
    <2>1. /\ Supervisor(p) /\ pc[p] = "down" /\ holder' = p /\ Sole(p)
          /\ UNCHANGED <<incidents, intents, executed, crashes>>
          /\ pc' = [pc EXCEPT ![p] = "orphans"]
      BY <1>1, EngineAssumption
      DEF Startup, LeaseFree, OneLease, LeasedInv, Leased, Sole, stores
    <2>2. PICK auth \in BOOLEAN :
             loc' = [loc EXCEPT ![p] = [IdleLoc EXCEPT !.auth = auth, !.todo = OrphanedPending]]
      BY <1>1, EngineAssumption DEF Startup
    <2>3. loc'[p].todo = OrphanedPending
      BY <1>n, <2>2 DEF IdleLoc
    <2>4. OrphanedPending' = OrphanedPending
      BY <2>1 DEF OrphanedPending
    <2>5. Leased(p)'
      BY <1>m, <2>1, <2>3, <2>4 DEF Leased, HasRow, HoldsIncident, IntentInHand, NothingPending
    <2> QED BY <1>c, <1>m, <1>n, <2>1, <2>2, <2>5, LeasedQuiet DEF Marking
  <1>2. CASE LeaseLost(p) \/ StayBlocked(p) \/ Leave(p) \/ MarkBlocked(p)
    <2>1. /\ pc[p] \in {"idle", "done", "escalate"} /\ Exit(p)
          /\ UNCHANGED <<incidents, intents, executed, crashes>>
      BY <1>2 DEF LeaseLost, StayBlocked, Leave, MarkBlocked, stores
    <2>2. Leased(p)'
      BY <1>m, <1>t, <1>x, <2>1, RestLeased
    <2> QED BY <1>c, <1>m, <1>n, <1>x, <2>1, <2>2, LeasedQuiet DEF Marking
  <1>3. CASE OrphansDone(p)
    <2>1. /\ pc[p] = "orphans" /\ loc[p].todo = {} /\ pc' = [pc EXCEPT ![p] = "idle"]
          /\ UNCHANGED <<incidents, intents, executed, crashes, loc, holder>>
      BY <1>3 DEF OrphansDone, stores
    <2>2. Leased(p)'
      BY <1>h, <1>m, <1>t, <2>1, RestLeased DEF Leased, IntentInHand
    <2> QED BY <1>c, <1>m, <2>1, <2>2, LeasedQuiet DEF Marking
  <1>4. CASE NextTick(p)
    <2>1. /\ pc[p] = "done" /\ pc' = [pc EXCEPT ![p] = IF Supervisor(p) THEN "idle" ELSE "down"]
          /\ UNCHANGED <<incidents, intents, executed, crashes, loc, holder>>
      BY <1>4 DEF NextTick, stores
    <2>2. pc'[p] = (IF Supervisor(p) THEN "idle" ELSE "down")
      BY <1>m, <2>1
    <2>3. Leased(p)'
      BY <1>h, <1>t, <2>1, <2>2, RestLeased DEF Leased, IntentInHand, NothingPending
    <2> QED BY <1>c, <1>m, <2>1, <2>2, <2>3, LeasedQuiet DEF Marking
  <1>5. CASE Tick(p) \/ Status(p)
    <2>1. /\ pc[p] = "idle" \/ (pc[p] = "down" /\ ~Supervisor(p))
          /\ pc' = [pc EXCEPT ![p] = "list"]
          /\ UNCHANGED <<incidents, intents, executed, crashes, holder>>
      BY <1>5 DEF Tick, Status, Inspect, stores
    <2>2. PICK auth, validity : loc' = [loc EXCEPT ![p] =
             [IdleLoc EXCEPT !.auth = auth, !.obs = worker, !.at = now, !.validity = validity]]
      BY <1>5 DEF Tick, Status, Inspect
    <2>3. loc'[p].id = NoIncident
      BY <1>n, <2>2 DEF IdleLoc
    <2>4. Leased(p)'
      BY <1>h, <1>m, <1>t, <2>1, <2>3, RestLeased
      DEF Leased, IntentInHand, NothingPending, Supervisor
    <2> QED BY <1>c, <1>m, <1>n, <2>1, <2>2, <2>4, LeasedQuiet DEF Marking
  <1>6. CASE ListOpen(p)
    <2>1. /\ pc[p] = "list" /\ loc[p].id = NoIncident /\ pc' = [pc EXCEPT ![p] = "decide"]
          /\ UNCHANGED <<incidents, intents, executed, crashes, holder>>
      BY <1>6, <1>h DEF ListOpen, Leased, stores
    <2>2. OrphanedPending' = OrphanedPending
      BY <2>1 DEF OrphanedPending
    <2>3. /\ \A q \in Procs : q # p => loc'[q] = loc[q]
          /\ HasRow(p)' => /\ loc'[p].row.status = "OPEN"
                           /\ incidents'[loc'[p].id].status = "OPEN"
      <3>1. CASE UNCHANGED loc
        BY <1>m, <2>1, <3>1 DEF HasRow, HoldsIncident
      <3>2. ASSUME NEW i \in OpenIncidents,
                   loc' = [loc EXCEPT ![p] = [loc[p] EXCEPT !.id = i, !.row = incidents[i]]]
            PROVE  /\ \A q \in Procs : q # p => loc'[q] = loc[q]
                   /\ loc'[p].row.status = "OPEN" /\ incidents'[loc'[p].id].status = "OPEN"
        <4>1. PICK l : l = [loc[p] EXCEPT !.id = i, !.row = incidents[i]]
          OBVIOUS
        <4>2. l.id = i /\ l.row = incidents[i]
          BY <1>l, <4>1 DEF Locals
        <4> QED BY <1>n, <2>1, <3>2, <4>1, <4>2 DEF OpenIncidents
      <3> QED BY <1>6, <3>1, <3>2 DEF ListOpen, IsFirst
    <2>4. Leased(p)'
      BY <1>h, <1>m, <2>1, <2>2, <2>3 DEF Leased, IntentInHand, NothingPending
    <2> QED BY <1>c, <1>m, <2>1, <2>3, <2>4, LeasedQuiet DEF Marking
  <1>7. ASSUME NEW k \in Intents, OrphanObserved(p, k) PROVE LeasedInv'
    <2>1. /\ pc[p] = "orphans" /\ Mode[p] # "run"
          /\ loc' = [loc EXCEPT ![p] = NextOrphan(p, k)]
          /\ UNCHANGED <<incidents, intents, executed, crashes, pc, holder>>
      BY <1>7 DEF OrphanObserved, ObserveOnly, stores
    <2>2. PICK l : l = NextOrphan(p, k)
      OBVIOUS
    <2>3. l.todo \subseteq loc[p].todo
      BY <1>l, <2>2 DEF NextOrphan, Locals
    <2>4. OrphanedPending' = OrphanedPending
      BY <2>1 DEF OrphanedPending
    <2>5. Leased(p)'
      BY <1>h, <1>n, <2>1, <2>2, <2>3, <2>4 DEF Leased, HasRow, HoldsIncident
    <2> QED BY <1>c, <1>n, <2>1, <2>5, LeasedQuiet DEF Marking
  <1>8. CASE Quiet(p) \/ WouldRemediate(p)
    <2>1. /\ pc[p] \in {"decide", "remediate"} /\ EndTick(p)
          /\ UNCHANGED <<incidents, intents, executed, crashes, holder>>
      BY <1>8 DEF Quiet, WouldRemediate, stores
    <2>2. Leased(p)'
      BY <1>e, <1>h, <1>m, <1>t, <2>1, RestLeased DEF Leased, IntentInHand, NothingPending
    <2> QED BY <1>c, <1>e, <1>m, <1>n, <2>1, <2>2, LeasedQuiet DEF Marking
  <1>9. CASE StartRemediation(p)
    <2>1. /\ pc[p] = "decide" /\ HasRow(p) /\ pc' = [pc EXCEPT ![p] = "remediate"]
          /\ UNCHANGED <<incidents, intents, executed, crashes, holder, loc>>
      BY <1>9 DEF StartRemediation, NoneOpen, HasRow, stores
    <2>2. OrphanedPending' = OrphanedPending
      BY <2>1 DEF OrphanedPending
    <2>3. Leased(p)'
      BY <1>h, <1>m, <2>1, <2>2 DEF Leased, IntentInHand, NothingPending
    <2> QED BY <1>c, <1>m, <2>1, <2>3, LeasedQuiet DEF Marking
  \* Steps that write a row.
  <1>10. CASE BlockOpenIncident(p) \/ RefuseRemediation(p)
    <2>1. /\ pc[p] \in {"decide", "remediate"}
          /\ pc' = [pc EXCEPT ![p] = IF Supervisor(p) THEN "escalate" ELSE "down"]
          /\ UNCHANGED <<intents, executed, crashes, holder>>
          /\ loc' = [loc EXCEPT ![p] = [loc[p] EXCEPT !.row = [loc[p].row EXCEPT !.blocked = TRUE]]]
      BY <1>10 DEF BlockOpenIncident, RefuseRemediation, Blocked, Save
    <2>2. pc'[p] = IF Supervisor(p) THEN "escalate" ELSE "down"
      BY <1>m, <2>1
    <2>3. Leased(p)'
      BY <1>h, <1>t, <2>1, <2>2, RestLeased DEF Leased, IntentInHand, NothingPending
    <2> QED BY <1>c, <1>m, <1>n, <2>1, <2>2, <2>3, LeasedQuiet DEF Marking
  <1>11. ASSUME NEW i \in Incidents, OpenIncident(p, i) PROVE LeasedInv'
    <2>1. /\ pc[p] = "decide" /\ pc' = [pc EXCEPT ![p] = "fill"]
          /\ UNCHANGED <<intents, executed, crashes, holder>>
      BY <1>11 DEF OpenIncident
    <2>2. PICK row : row = [NewRow EXCEPT !.status = "OPEN", !.openedAt = now,
                                        !.symptom = Symptom(p)]
      OBVIOUS
    <2>3. PICK l : l = [loc[p] EXCEPT !.id = i, !.row = row]
      OBVIOUS
    <2>4. /\ l.id = i /\ l.row = row /\ row.status = "OPEN"
          /\ loc' = [loc EXCEPT ![p] = l] /\ incidents'[i] = row
      BY <1>11, <1>l, <1>t, <2>2, <2>3 DEF OpenIncident, Locals, NewRow, TypeOK
    <2>5. OrphanedPending' = OrphanedPending
      BY <2>1 DEF OrphanedPending
    <2>6. pc'[p] = "fill" /\ loc'[p] = l
      BY <1>m, <1>n, <2>1, <2>4
    <2>7. Mode[p] = "run" => IntentInHand(p)'
      BY <1>h, <2>1, <2>5, <2>6 DEF Leased, IntentInHand, NothingPending
    <2>8. Leased(p)'
      BY <1>h, <2>1, <2>4, <2>6, <2>7 DEF Leased
    <2> QED BY <1>c, <1>m, <1>n, <2>1, <2>4, <2>8, LeasedQuiet DEF Marking
  <1>12. CASE FillIncident(p)
    <2>1. /\ pc[p] = "fill" /\ HasRow(p) /\ UNCHANGED <<intents, executed, crashes, holder>>
          /\ incidents' = [incidents EXCEPT ![loc[p].id] = loc[p].row]
      BY <1>12 DEF FillIncident, HasRow, HoldsIncident
    <2>2. PICK label \in {"remediate", "escalate", "down", "done"} :
             /\ pc' = [pc EXCEPT ![p] = label]
             /\ label = "remediate" => UNCHANGED loc
             /\ label = "escalate" => Supervisor(p)
             /\ \A q \in Procs : q # p => loc'[q] = loc[q]
      BY <1>12, <1>e, <1>n DEF FillIncident, Blocked
    <2>3. OrphanedPending' = OrphanedPending
      BY <2>1 DEF OrphanedPending
    <2>4. CASE label = "remediate"
      <3>1. incidents'[loc[p].id] = loc[p].row
        BY <1>h, <1>t, <2>1 DEF TypeOK
      <3>2. Leased(p)'
        BY <1>h, <1>m, <2>1, <2>2, <2>3, <2>4, <3>1
        DEF Leased, HasRow, IntentInHand, NothingPending
      <3> QED BY <1>c, <1>m, <2>1, <2>2, <2>4, <3>2, LeasedQuiet DEF Marking
    <2>5. CASE label # "remediate"
      <3>1. Leased(p)'
        BY <1>h, <1>m, <1>t, <2>1, <2>2, <2>5, RestLeased
        DEF Leased, IntentInHand, NothingPending
      <3> QED BY <1>c, <1>m, <2>1, <2>2, <2>5, <3>1, LeasedQuiet DEF Marking
    <2> QED BY <2>4, <2>5
  <1>13. CASE AdvanceBurnIn(p)
    <2>1. pc[p] = "decide" /\ HasRow(p) /\ UNCHANGED <<intents, executed, crashes, holder>>
      BY <1>13 DEF AdvanceBurnIn, NoneOpen, HasRow
    <2>2. PICK b : b = EvaluateBurnIn(loc[p].row.burnIn, loc[p].obs.units,
                           HealthOk(loc[p].obs) /\ ProgressOk(loc[p].obs),
                           loc[p].at, loc[p].row.remediated)
      OBVIOUS
    <2>3. \/ /\ pc' = [pc EXCEPT ![p] = "close"]
             /\ loc' = [loc EXCEPT ![p] = [loc[p] EXCEPT !.row.burnIn = b]]
          \/ EndTick(p)
      BY <1>13, <2>2 DEF AdvanceBurnIn
    <2>4. OrphanedPending' = OrphanedPending
      BY <2>1 DEF OrphanedPending
    <2>5. CASE /\ pc' = [pc EXCEPT ![p] = "close"]
               /\ loc' = [loc EXCEPT ![p] = [loc[p] EXCEPT !.row.burnIn = b]]
      <3>1. PICK l : l = [loc[p] EXCEPT !.row.burnIn = b]
        OBVIOUS
      <3>2. l.row.status = loc[p].row.status
        BY <1>l, <3>1 DEF Locals, Rows
      <3>3. pc'[p] = "close" /\ loc'[p] = l
        BY <1>m, <1>n, <2>5, <3>1
      <3>4. Mode[p] = "run" => IntentInHand(p)'
        BY <1>h, <2>1, <2>4, <3>3 DEF Leased, IntentInHand, NothingPending
      <3>5. Leased(p)'
        BY <1>h, <2>1, <3>2, <3>3, <3>4 DEF Leased
      <3> QED BY <1>c, <1>m, <1>n, <2>1, <2>5, <3>5, LeasedQuiet DEF Marking
    <2>6. CASE EndTick(p)
      <3>1. Leased(p)'
        BY <1>e, <1>h, <1>m, <1>t, <2>1, <2>6, RestLeased
        DEF Leased, IntentInHand, NothingPending
      <3> QED BY <1>c, <1>e, <1>m, <1>n, <2>1, <2>6, <3>1, LeasedQuiet DEF Marking
    <2> QED BY <2>3, <2>5, <2>6
  <1>14. CASE SaveRemediation(p)
    <2>1. /\ pc[p] = "save" /\ EndTick(p) /\ UNCHANGED <<intents, executed, crashes, holder>>
      BY <1>14 DEF SaveRemediation
    <2>2. Leased(p)'
      BY <1>e, <1>h, <1>m, <1>t, <2>1, RestLeased DEF Leased, IntentInHand, NothingPending
    <2> QED BY <1>c, <1>e, <1>m, <1>n, <2>1, <2>2, LeasedQuiet DEF Marking
  <1>15. CASE OrphanBlock(p)
    <2>1. /\ pc[p] = "orphan_block" /\ pc' = [pc EXCEPT ![p] = "orphans"]
          /\ UNCHANGED <<intents, executed, crashes, holder>>
          /\ loc' = [loc EXCEPT ![p] = NextOrphan(p, loc[p].intent)]
      BY <1>15 DEF OrphanBlock
    <2>2. PICK l : l = NextOrphan(p, loc[p].intent)
      OBVIOUS
    <2>3. l.todo = {} /\ OrphanedPending = {}
      BY <1>h, <1>l, <2>1, <2>2 DEF NextOrphan, Locals, Leased
    <2>4. OrphanedPending' = OrphanedPending
      BY <2>1 DEF OrphanedPending
    <2>5. pc'[p] = "orphans" /\ loc'[p].todo = {}
      BY <1>m, <1>n, <2>1, <2>2, <2>3
    <2>6. Leased(p)'
      BY <1>h, <2>1, <2>3, <2>4, <2>5
      DEF Leased, HasRow, HoldsIncident, IntentInHand, NothingPending
    <2> QED BY <1>c, <1>m, <1>n, <2>1, <2>6, LeasedQuiet DEF Marking
  \* The close of an acting supervisor, and the steps of an intent.
  <1>16. CASE CloseIncident(p)
    <2>1. /\ pc[p] = "close" /\ EndTick(p) /\ UNCHANGED <<intents, executed, crashes, holder>>
      BY <1>16 DEF CloseIncident
    <2>2. Leased(p)'
      BY <1>e, <1>h, <1>m, <1>t, <2>1, RestLeased DEF Leased, IntentInHand, NothingPending
    <2>3. CASE Mode[p] # "run"
      BY <1>c, <1>e, <1>m, <1>n, <2>1, <2>2, <2>3, LeasedQuiet DEF Marking
    <2>4. CASE Mode[p] = "run"
      <3>1. Sole(p) /\ OrphanedPending = {}
        BY <1>h, <2>1, <2>4, HolderAlone DEF Leased, IntentInHand, NothingPending, Supervisor
      <3>2. OrphanedPending' = {}
        BY <2>1, <3>1 DEF OrphanedPending
      <3>3. OnePending' /\ PendingNotClosed' /\ FreshIntents'
        BY <2>1, <3>2 DEF OnePending, PendingNotClosed, FreshIntents, LeasedInv
      <3>4. ASSUME NEW i \in Incidents PROVE Covered(i)'
        <4>1. Unrun(i)' = 0 /\ Unrun(i) = 0 /\ Written(i)' = Written(i)
          BY <2>1, <3>1, <3>2 DEF Unrun, HasPending, Written
        <4> QED BY <2>1, <4>1 DEF Covered, LeasedInv
      <3> QED BY <1>e, <1>m, <1>n, <2>1, <2>2, <3>1, <3>3, <3>4, LeasedGlue
    <2> QED BY <2>3, <2>4
  <1>17. ASSUME NEW k \in Intents, OrphanRefused(p, k) PROVE LeasedInv'
    <2>1. /\ pc[p] = "orphans" /\ k \in loc[p].todo
          /\ UNCHANGED <<incidents, executed, crashes, holder>>
          /\ pc' = [pc EXCEPT ![p] = "orphan_block"]
          /\ intents' = [intents EXCEPT ![k].status = "FAILED"]
      BY <1>17 DEF OrphanRefused, IsFirst
    <2>2. k \in OrphanedPending /\ Sole(p) /\ intents[k].incident \in Incidents
      BY <1>h, <1>t, <2>1, HolderAlone DEF Leased, Bookkeeping, OrphanedPending
    <2>3. PICK s \in {"EXECUTED", "FAILED"} : s = "FAILED"
      OBVIOUS
    <2>4. /\ OrphanedPending = {k} /\ OrphanedPending' = {}
          /\ OnePending' /\ PendingNotClosed' /\ FreshIntents'
          /\ \A i \in Incidents : Written(i)' = Written(i) /\ Unrun(i)' = 0
      BY <2>1, <2>2, <2>3, LastSettled DEF LeasedInv
    <2>5. PICK l : l = [loc[p] EXCEPT !.intent = k, !.id = intents[k].incident,
                                      !.row = incidents[intents[k].incident]]
      OBVIOUS
    <2>6. l.todo = {k} /\ l.intent = k /\ l.row = incidents[intents[k].incident]
      BY <1>h, <1>l, <2>1, <2>4, <2>5 DEF Locals, Leased
    <2>7. loc' = [loc EXCEPT ![p] = l]
      BY <1>17, <2>5 DEF OrphanRefused
    <2>8. pc'[p] = "orphan_block" /\ loc'[p] = l
      BY <1>m, <1>n, <2>1, <2>7
    <2>9. l.row.status # "CLOSED"
      BY <2>2, <2>6 DEF LeasedInv, PendingNotClosed
    <2>10. Mode[p] = "run" => IntentInHand(p)'
      BY <2>4, <2>6, <2>8 DEF IntentInHand, NothingPending
    <2>11. Leased(p)'
      BY <1>h, <2>1, <2>4, <2>6, <2>8, <2>9, <2>10 DEF Leased
    <2>12. ASSUME NEW i \in Incidents PROVE Covered(i)'
      <3>1. /\ executed[i] \in Nat /\ Unrun(i) \in {0, 1} /\ Cardinality(Written(i)) \in Nat
            /\ crashes \in Nat
        BY <1>t, CoverTypes
      <3>2. executed[i] + 0 <= Cardinality(Written(i)) + crashes
        BY <3>1 DEF LeasedInv, Covered
      <3> QED BY <2>1, <2>4, <3>2 DEF Covered
    <2> QED BY <1>m, <1>n, <2>1, <2>2, <2>4, <2>7, <2>11, <2>12, LeasedGlue
  <1>18. CASE OrphanMark(p) \/ MarkIntent(p)
    <2>1. /\ pc[p] \in {"orphan_mark", "mark"} /\ UNCHANGED <<incidents, executed, crashes, holder>>
          /\ Mode[p] = "run"
      BY <1>h, <1>18 DEF OrphanMark, MarkIntent, Leased
    <2>2. PICK s \in {"EXECUTED", "FAILED"} :
             intents' = [intents EXCEPT ![loc[p].intent].status = s]
      BY <1>18 DEF OrphanMark, MarkIntent, Settled
    <2>3. IntentInHand(p) /\ OrphanedPending = {loc[p].intent} /\ Sole(p)
      BY <1>h, <2>1, HolderAlone DEF Leased, IntentInHand, Supervisor
    <2>4. /\ OrphanedPending' = {}
          /\ OnePending' /\ PendingNotClosed' /\ FreshIntents'
          /\ \A i \in Incidents : Written(i)' = Written(i) /\ Unrun(i)' = 0
      BY <1>t, <2>2, <2>3, LastSettled DEF LeasedInv
    <2>5. ASSUME NEW i \in Incidents PROVE Covered(i)'
      <3>1. /\ executed[i] \in Nat /\ Unrun(i) \in {0, 1} /\ Cardinality(Written(i)) \in Nat
            /\ crashes \in Nat
        BY <1>t, CoverTypes
      <3>2. executed[i] + 0 <= Cardinality(Written(i)) + crashes
        BY <3>1 DEF LeasedInv, Covered
      <3> QED BY <2>1, <2>4, <3>2 DEF Covered
    <2>6. CASE OrphanMark(p)
      <3>1. /\ pc[p] = "orphan_mark" /\ pc' = [pc EXCEPT ![p] = "orphans"]
            /\ loc' = [loc EXCEPT ![p] = NextOrphan(p, loc[p].intent)]
        BY <2>6 DEF OrphanMark
      <3>2. PICK l : l = NextOrphan(p, loc[p].intent)
        OBVIOUS
      <3>3. l.todo = {}
        BY <1>l, <2>3, <3>1, <3>2 DEF NextOrphan, Locals, IntentInHand
      <3>4. pc'[p] = "orphans" /\ loc'[p].todo = {}
        BY <1>m, <1>n, <3>1, <3>2, <3>3
      <3>5. Leased(p)'
        BY <1>h, <2>1, <2>4, <3>4
        DEF Leased, HasRow, HoldsIncident, IntentInHand, NothingPending, Supervisor
      <3> QED BY <1>m, <1>n, <2>3, <2>4, <2>5, <3>1, <3>5, LeasedGlue
    <2>7. CASE MarkIntent(p)
      <3>1. pc[p] = "mark" /\ pc' = [pc EXCEPT ![p] = "save"] /\ UNCHANGED loc
        BY <2>7 DEF MarkIntent
      <3>2. pc'[p] = "save" /\ HasRow(p)
        BY <1>m, <3>1 DEF HasRow, HoldsIncident
      <3>3. IntentInHand(p)'
        BY <2>4, <3>2 DEF IntentInHand, NothingPending
      <3>4. Leased(p)'
        BY <1>h, <2>1, <3>1, <3>2, <3>3 DEF Leased
      <3> QED BY <1>m, <2>3, <2>4, <2>5, <3>1, <3>4, LeasedGlue
    <2> QED BY <1>18, <2>6, <2>7
  <1>19. ASSUME NEW k \in Intents, CreateIntent(p, k) PROVE LeasedInv'
    <2>1. /\ pc[p] = "remediate" /\ UNCHANGED <<incidents, executed, crashes, holder>>
          /\ pc' = [pc EXCEPT ![p] = "execute"] /\ intents[k].status = "NONE"
          /\ intents' = [intents EXCEPT ![k] = PendingIntent(p)] /\ ~ObserveOnly(p)
      BY <1>19 DEF CreateIntent, IsFirst, Fresh
    <2>2. Mode[p] = "run" /\ Supervisor(p) /\ Sole(p) /\ HasRow(p)
      BY <2>1, HolderAlone DEF ObserveOnly, Supervisor, HasRow, HoldsIncident
    <2>3. /\ loc[p].id \in Incidents /\ OrphanedPending = {}
          /\ incidents[loc[p].id].status # "CLOSED"
      BY <1>h, <2>1, <2>2 DEF Leased, IntentInHand, NothingPending
    <2>4. /\ intents'[k].incident = loc[p].id /\ intents'[k].status = "PENDING"
          /\ \A j \in Intents : j # k => intents'[j] = intents[j]
      BY <1>t, <2>1 DEF PendingIntent, TypeOK
    <2>5. OrphanedPending' = {k}
      BY <2>3, <2>4 DEF OrphanedPending
    <2>6. OnePending' /\ PendingNotClosed' /\ FreshIntents'
      BY <2>1, <2>3, <2>4, <2>5 DEF OnePending, PendingNotClosed, FreshIntents, LeasedInv
    <2>7. PICK l : l = [loc[p] EXCEPT !.intent = k, !.strategy = Decision(p)]
      OBVIOUS
    <2>8. /\ l.id = loc[p].id /\ l.row = loc[p].row /\ l.intent = k
          /\ loc' = [loc EXCEPT ![p] = l]
      BY <1>19, <1>l, <2>7 DEF CreateIntent, Locals
    <2>9. pc'[p] = "execute" /\ loc'[p] = l
      BY <1>m, <1>n, <2>1, <2>8
    <2>10. IntentInHand(p)'
      BY <2>4, <2>5, <2>8, <2>9 DEF IntentInHand, NothingPending
    <2>11. Leased(p)'
      BY <1>h, <2>1, <2>2, <2>3, <2>8, <2>9, <2>10 DEF Leased
    <2>12. ASSUME NEW i \in Incidents PROVE Covered(i)'
      <3>1. Unrun(i) = 0
        BY <2>3 DEF Unrun, HasPending
      <3>2. IF i = loc[p].id THEN Written(i)' = Written(i) \cup {k} /\ k \notin Written(i)
                             ELSE Written(i)' = Written(i)
        <4>1. intents[k].incident = NoIncident /\ i # NoIncident
          BY <2>1 DEF LeasedInv, FreshIntents, Incidents, NoIncident
        <4> QED BY <2>4, <4>1 DEF Written
      <3>3. (i # loc[p].id => Unrun(i)' = 0) /\ Unrun(i)' \in {0, 1}
        BY <2>4, <2>5 DEF Unrun, HasPending
      <3>4. /\ executed[i] \in Nat /\ crashes \in Nat /\ IsFiniteSet(Written(i))
            /\ Cardinality(Written(i)) \in Nat
        BY <1>t, CoverTypes
      <3>5. Cardinality(Written(i)') =
               IF i = loc[p].id THEN Cardinality(Written(i)) + 1 ELSE Cardinality(Written(i))
        BY <3>2, <3>4, FS_AddElement
      <3>6. executed[i] + 0 <= Cardinality(Written(i)) + crashes
        BY <3>1 DEF LeasedInv, Covered
      <3>7. executed[i] + Unrun(i)' <= Cardinality(Written(i)') + crashes
        BY <3>3, <3>4, <3>5, <3>6
      <3> QED BY <2>1, <3>7 DEF Covered
    <2> QED BY <1>m, <1>n, <2>1, <2>2, <2>6, <2>8, <2>11, <2>12, LeasedGlue
  <1>20. ASSUME NEW k \in Intents, OrphanExecute(p, k) PROVE LeasedInv'
    <2>1. /\ pc[p] = "orphans" /\ k \in loc[p].todo /\ Mode[p] = "run" /\ Supervisor(p)
          /\ UNCHANGED <<incidents, intents, crashes, holder>>
          /\ pc' = [pc EXCEPT ![p] = "orphan_mark"]
      BY <1>20 DEF OrphanExecute, IsFirst, ObserveOnly, Supervisor, stores
    <2>2. k \in OrphanedPending /\ Sole(p) /\ OrphanedPending = {k} /\ loc[p].todo = {k}
      BY <1>h, <2>1, HolderAlone DEF Leased, IntentInHand, LeasedInv, OnePending
    <2>3. PICK ok \in BOOLEAN : /\ StrategyRuns(intents[k].incident, ok)
                                /\ loc' = [loc EXCEPT ![p] = [loc[p] EXCEPT !.intent = k, !.ok = ok]]
      BY <1>20 DEF OrphanExecute
    <2>4. PICK l : l = [loc[p] EXCEPT !.intent = k, !.ok = ok]
      OBVIOUS
    <2>5. l.intent = k /\ l.todo = {k}
      BY <1>l, <2>2, <2>4 DEF Locals
    <2>6. pc'[p] = "orphan_mark" /\ loc'[p] = l /\ OrphanedPending' = {k}
      BY <1>m, <1>n, <2>1, <2>2, <2>3, <2>4 DEF OrphanedPending
    <2>7. IntentInHand(p)'
      BY <2>5, <2>6 DEF IntentInHand, NothingPending
    <2>8. Leased(p)'
      BY <1>h, <2>1, <2>6, <2>7 DEF Leased, HasRow, HoldsIncident
    <2>9. \A i \in Incidents : Covered(i)'
      BY <2>1, <2>2, <2>3, <2>6, PendingRuns DEF Marking
    <2>10. OnePending' /\ PendingNotClosed' /\ FreshIntents'
      BY <2>1, <2>2, <2>6 DEF OnePending, PendingNotClosed, FreshIntents, LeasedInv
    <2> QED BY <1>m, <1>n, <2>1, <2>2, <2>3, <2>8, <2>9, <2>10, LeasedGlue
  <1>21. CASE ExecuteStrategy(p)
    <2>1. /\ pc[p] = "execute" /\ HasRow(p) /\ UNCHANGED <<incidents, intents, crashes, holder>>
          /\ pc' = [pc EXCEPT ![p] = "mark"]
      BY <1>21 DEF ExecuteStrategy, HasRow, HoldsIncident, stores
    <2>2. /\ Mode[p] = "run" /\ Sole(p) /\ OrphanedPending = {loc[p].intent}
          /\ intents[loc[p].intent].incident = loc[p].id
      BY <1>h, <2>1, HolderAlone DEF Leased, IntentInHand, Supervisor
    <2>3. PICK ok \in BOOLEAN :
             /\ StrategyRuns(loc[p].id, ok)
             /\ loc' = [loc EXCEPT ![p] = [loc[p] EXCEPT !.ok = ok,
                   !.row.attempts = RecordAttempt(@, loc[p].strategy, EvidenceDigest(loc[p].id)),
                   !.row.remediated = TRUE]]
      BY <1>21 DEF ExecuteStrategy
    <2>4. PICK l : l = [loc[p] EXCEPT !.ok = ok,
                !.row.attempts = RecordAttempt(@, loc[p].strategy, EvidenceDigest(loc[p].id)),
                !.row.remediated = TRUE]
      OBVIOUS
    <2>5. l.id = loc[p].id /\ l.intent = loc[p].intent /\ l.row.status = loc[p].row.status
      BY <1>l, <2>4 DEF Locals, Rows
    <2>6. pc'[p] = "mark" /\ loc'[p] = l /\ OrphanedPending' = OrphanedPending
      BY <1>m, <1>n, <2>1, <2>3, <2>4 DEF OrphanedPending
    <2>7. IntentInHand(p)'
      BY <2>2, <2>5, <2>6 DEF IntentInHand, NothingPending
    <2>8. Leased(p)'
      BY <1>h, <2>1, <2>2, <2>5, <2>6, <2>7 DEF Leased
    <2>9. \A i \in Incidents : Covered(i)'
      BY <2>1, <2>2, <2>3, <2>6, PendingRuns DEF Marking
    <2>10. OnePending' /\ PendingNotClosed' /\ FreshIntents'
      BY <2>1, <2>6 DEF OnePending, PendingNotClosed, FreshIntents, LeasedInv
    <2> QED BY <1>m, <1>n, <2>1, <2>2, <2>3, <2>8, <2>9, <2>10, LeasedGlue
  <1>22. CASE Crash(p)
    <2>1. /\ pc[p] # "down" /\ crashes' = crashes + 1 /\ pc' = [pc EXCEPT ![p] = "down"]
          /\ loc' = [loc EXCEPT ![p] = IdleLoc]
          /\ UNCHANGED <<incidents, intents, executed, holder>>
      BY <1>22 DEF Crash, stores
    <2>2. OrphanedPending' = OrphanedPending /\ NoneCloses
      BY <2>1 DEF OrphanedPending, NoneCloses
    <2>3. OnePending' /\ PendingNotClosed' /\ FreshIntents'
      BY <2>1, <2>2 DEF OnePending, PendingNotClosed, FreshIntents, LeasedInv
    <2>4. Leased(p)'
      BY <1>m, <1>t, <2>1, RestLeased
    <2>5. ASSUME NEW i \in Incidents PROVE Covered(i)'
      <3>1. Written(i)' = Written(i) /\ Unrun(i)' \in {0, 1}
        BY <2>1 DEF Written, Unrun
      <3>2. /\ executed[i] \in Nat /\ Unrun(i) \in {0, 1} /\ Cardinality(Written(i)) \in Nat
            /\ crashes \in Nat
        BY <1>t, CoverTypes
      <3>3. executed[i] + Unrun(i) <= Cardinality(Written(i)) + crashes
        BY DEF LeasedInv, Covered
      <3>4. executed[i] + Unrun(i)' <= Cardinality(Written(i)) + (crashes + 1)
        BY <3>1, <3>2, <3>3
      <3> QED BY <2>1, <3>1, <3>4 DEF Covered
    <2> QED BY <1>m, <1>n, <2>1, <2>2, <2>3, <2>4, <2>5, LeasedGlue
  <1> QED
    BY <1>1, <1>2, <1>3, <1>4, <1>5, <1>6, <1>7, <1>8, <1>9, <1>10, <1>11, <1>12, <1>13,
       <1>14, <1>15, <1>16, <1>17, <1>18, <1>19, <1>20, <1>21, <1>22
    DEF Process, Step

\* So does every step.
LEMMA LeasedNext ==
    ASSUME OneLease, LeasedInv, [Next]_vars PROVE LeasedInv'
  <1>1. TypeInv'
    BY TypeNext DEF LeasedInv
  <1>2. ASSUME NEW p \in Procs, Process(p) PROVE LeasedInv'
    BY <1>1, <1>2, LeasedProcess
  <1>3. CASE OperatorClears \/ Worker \/ ClockTicks \/ UNCHANGED vars
    <2>1. UNCHANGED <<incidents, intents, holder, pc, loc, crashes, executed>>
      BY <1>3 DEF OperatorClears, Worker, ClockTicks, vars, stores
    <2> QED
      BY <1>1, <2>1
      DEF LeasedInv, OnePending, PendingNotClosed, FreshIntents, OrphanedPending, Leased,
          HasRow, IntentInHand, Covered, Unrun, HasPending, Written
  <1> QED BY <1>2, <1>3 DEF Next

\* An observe-only process runs nothing and closes nothing.
LEMMA ObserverStep ==
    ASSUME LeasedInv, NEW p \in Procs, Mode[p] # "run", Process(p)
    PROVE  UNCHANGED <<worker, executed>> /\ NoneCloses
  <1>1. ~ExecuteStrategy(p) /\ \A k \in Intents : ~OrphanExecute(p, k)
    BY DEF LeasedInv, Leased, ExecuteStrategy, OrphanExecute, ObserveOnly
  <1>2. UNCHANGED <<worker, executed>>
    BY <1>1
    DEF Process, Step, Startup, Status, Leave, Crash, OrphanRefused, OrphanObserved,
        OrphanBlock, OrphanMark, OrphansDone, LeaseLost, StayBlocked, Tick, Inspect,
        ListOpen, OpenIncident, BlockOpenIncident, FillIncident, StartRemediation,
        Quiet, AdvanceBurnIn, CloseIncident, NextTick, CreateIntent,
        RefuseRemediation, WouldRemediate, MarkIntent, SaveRemediation, MarkBlocked
  <1> QED BY <1>2, OnlyCloseCloses

\* A step moves no process but the one that takes it.
LEMMA OwnStep ==
    ASSUME TypeInv, NEW p \in Procs, Process(p), NEW q \in Procs, q # p
    PROVE  pc'[q] = pc[q] /\ loc'[q] = loc[q]
  <1> USE DEF SetLoc, Goto, EndTick, Exit
  <1>1. \A label : pc' = [pc EXCEPT ![p] = label] => pc'[q] = pc[q]
    BY DEF TypeInv, TypeOK
  <1>2. \A l : loc' = [loc EXCEPT ![p] = l] => loc'[q] = loc[q]
    BY DEF TypeInv, TypeOK
  <1>3. pc'[q] = pc[q]
    BY <1>1
    DEF Process, Step, Startup, Status, Leave, Crash, OrphanRefused, OrphanObserved,
        OrphanExecute, OrphanBlock, OrphanMark, OrphansDone, LeaseLost, StayBlocked, Tick,
        Inspect, ListOpen, OpenIncident, BlockOpenIncident, FillIncident, StartRemediation,
        Quiet, AdvanceBurnIn, CloseIncident, NextTick, CreateIntent, RefuseRemediation,
        WouldRemediate, ExecuteStrategy, MarkIntent, SaveRemediation, MarkBlocked, Blocked
  <1>4. loc'[q] = loc[q]
    BY <1>2
    DEF Process, Step, Startup, Status, Leave, Crash, OrphanRefused, OrphanObserved,
        OrphanExecute, OrphanBlock, OrphanMark, OrphansDone, LeaseLost, StayBlocked, Tick,
        Inspect, ListOpen, OpenIncident, BlockOpenIncident, FillIncident, StartRemediation,
        Quiet, AdvanceBurnIn, CloseIncident, NextTick, CreateIntent, RefuseRemediation,
        WouldRemediate, ExecuteStrategy, MarkIntent, SaveRemediation, MarkBlocked, Save
  <1> QED BY <1>3, <1>4

\* An observe-only supervisor and the status command never touch the worker, run a
\* strategy or close an incident, whoever runs beside them.
THEOREM ObserversHandsOffHolds ==
    ASSUME OneLease PROVE Spec => ObserversHandsOff
  <1>1. LeasedInv /\ [Next]_vars => LeasedInv'
    BY LeasedNext
  <1>2. ASSUME LeasedInv, Next, NEW p \in Procs, Mode[p] # "run",
               pc'[p] # pc[p] \/ loc'[p] # loc[p]
        PROVE  UNCHANGED <<worker, executed>> /\ NoneCloses
    <2>1. Process(p)
      BY <1>2, OwnStep DEF Next, OperatorClears, Worker, ClockTicks, LeasedInv
    <2> QED BY <1>2, <2>1, ObserverStep
  <1>3. LeasedInv /\ [Next]_vars =>
           [\A p \in Procs : Mode[p] # "run" /\ (pc'[p] # pc[p] \/ loc'[p] # loc[p]) =>
               /\ UNCHANGED <<worker, executed>>
               /\ \A i \in Incidents :
                     incidents'[i].status = "CLOSED" => incidents[i].status = "CLOSED"]_vars
    BY <1>2 DEF NoneCloses
  <1> QED BY <1>1, <1>3, LeasedInit, PTL DEF Spec, ObserversHandsOff

\* A step that runs a strategy does it for the incident of a pending intent.
LEMMA ExecutionIsCovered ==
    ASSUME LeasedInv, [Next]_vars, NEW i \in Incidents, Executes(i)
    PROVE  \E k \in OrphanedPending : intents[k].incident = i
  <1>1. \A j \in Incidents, ok \in BOOLEAN :
           StrategyRuns(j, ok) => (executed'[i] # executed[i] => i = j)
    BY DEF StrategyRuns, LeasedInv, TypeInv, TypeOK
  <1>2. ASSUME NEW p \in Procs, NEW k \in Intents, OrphanExecute(p, k)
        PROVE  \E j \in OrphanedPending : intents[j].incident = i
    <2>1. k \in OrphanedPending
      BY <1>2 DEF OrphanExecute, IsFirst, LeasedInv, Leased
    <2>2. intents[k].incident \in Incidents
      BY <2>1 DEF LeasedInv, TypeInv, Bookkeeping, OrphanedPending
    <2>3. i = intents[k].incident
      BY <1>1, <1>2, <2>2 DEF OrphanExecute, Executes
    <2> QED BY <2>1, <2>3
  <1>3. ASSUME NEW p \in Procs, ExecuteStrategy(p)
        PROVE  \E j \in OrphanedPending : intents[j].incident = i
    <2>1. pc[p] = "execute"
      BY <1>3 DEF ExecuteStrategy
    <2>2. loc[p].intent \in OrphanedPending /\ intents[loc[p].intent].incident = loc[p].id
      BY <2>1 DEF LeasedInv, Leased, IntentInHand
    <2>3. loc[p].id \in Incidents
      BY <2>1 DEF LeasedInv, TypeInv, Bookkeeping, HoldsIncident
    <2>4. i = loc[p].id
      BY <1>1, <1>3, <2>3 DEF ExecuteStrategy, Executes
    <2> QED BY <2>2, <2>4
  <1>4. executed' # executed
    BY DEF Executes
  <1>5. CASE OperatorClears \/ Worker \/ ClockTicks \/ UNCHANGED vars
    BY <1>4, <1>5 DEF OperatorClears, Worker, ClockTicks, vars
  <1>6. ASSUME NEW p \in Procs, Process(p)
        PROVE  \/ ExecuteStrategy(p)
               \/ \E k \in Intents : OrphanExecute(p, k)
    BY <1>4, <1>6
    DEF Process, Step, Startup, Status, Leave, Crash, OrphanRefused, OrphanObserved,
        OrphanBlock, OrphanMark, OrphansDone, LeaseLost, StayBlocked, Tick, Inspect,
        ListOpen, OpenIncident, BlockOpenIncident, FillIncident, StartRemediation,
        Quiet, AdvanceBurnIn, CloseIncident, NextTick, CreateIntent,
        RefuseRemediation, WouldRemediate, MarkIntent, SaveRemediation, MarkBlocked
  <1> QED BY <1>2, <1>3, <1>5, <1>6 DEF Next

\* Write before execute: whatever runs for an incident was recorded as a pending
\* intent of that incident first, observers and status commands beside or not.
THEOREM WriteBeforeExecuteHolds ==
    ASSUME OneLease PROVE Spec => WriteBeforeExecute
  <1>1. LeasedInv /\ [Next]_vars => LeasedInv'
    BY LeasedNext
  <1>2. LeasedInv /\ [Next]_vars =>
           [\A i \in Incidents : Executes(i) =>
               \E k \in OrphanedPending : intents[k].incident = i]_vars
    BY ExecutionIsCovered
  <1> QED BY <1>1, <1>2, LeasedInit, PTL DEF Spec, WriteBeforeExecute

\* A strategy runs at most once per intent written for its incident, and once more per
\* crash.
THEOREM IntentsCoverExecutionsHolds ==
    ASSUME OneLease PROVE Spec => []IntentsCoverExecutions
  <1>1. LeasedInv /\ [Next]_vars => LeasedInv'
    BY LeasedNext
  <1>2. ASSUME LeasedInv, NEW i \in Incidents
        PROVE  executed[i] <= Cardinality({k \in Intents : intents[k].incident = i}) + crashes
    <2>1. /\ executed[i] \in Nat /\ crashes \in Nat /\ Cardinality(Written(i)) \in Nat
          /\ Unrun(i) \in {0, 1}
      BY <1>2, CoverTypes DEF LeasedInv
    <2>2. executed[i] + Unrun(i) <= Cardinality(Written(i)) + crashes
      BY <1>2 DEF LeasedInv, Covered
    <2>3. executed[i] <= Cardinality(Written(i)) + crashes
      BY <2>1, <2>2
    <2> QED BY <2>3 DEF Written
  <1>3. LeasedInv => IntentsCoverExecutions
    BY <1>2 DEF IntentsCoverExecutions
  <1> QED BY <1>1, <1>3, LeasedInit, PTL DEF Spec

-------------------------------------------------------------------------------
\* Supervisors only: any mix of acting and observe-only ones, but no status command.
\* They exclude each other, so the rows themselves can be relied on.

\* The incident in hand is open, and the copy of its row agrees with the store.
IncidentInHand(p) ==
    /\ pc[p] = "orphan_block" => loc[p].row.status = incidents[loc[p].id].status
    /\ pc[p] = "decide" /\ loc[p].id = NoIncident => OpenIncidents = {}
    /\ HasRow(p) /\ pc[p] # "orphan_block" =>
          /\ incidents[loc[p].id].status = "OPEN"
          /\ loc[p].row.status = "OPEN"
          /\ loc[p].row.blocked = incidents[loc[p].id].blocked
    /\ pc[p] \in {"fill", "remediate", "execute", "mark", "save"} => ~loc[p].row.blocked

PendingIsOpen == \A k \in OrphanedPending : incidents[intents[k].incident].status = "OPEN"

SafeInv ==
    /\ LeasedInv
    /\ OneOpenIncident
    /\ PendingIsOpen
    /\ \A p \in Procs : IncidentInHand(p)

\* The initial state satisfies the invariant: nobody runs, the stores are empty.
LEMMA SafeInit == Init => SafeInv
  <1> SUFFICES ASSUME Init PROVE SafeInv
    OBVIOUS
  <1>1. OpenIncidents = {} /\ OrphanedPending = {}
    BY DEF Init, OpenIncidents, OrphanedPending, NewRow, NewIntent
  <1>2. \A p \in Procs : IncidentInHand(p)
    BY DEF Init, IncidentInHand, HasRow, HoldsIncident
  <1> QED
    BY <1>1, <1>2, LeasedInit DEF SafeInv, OneOpenIncident, PendingIsOpen

\* What a step leaves of the invariant.
Globals == OneOpenIncident /\ PendingIsOpen

\* Whoever makes a step is the only process that runs.
LEMMA RunsAlone ==
    ASSUME SupervisorsOnly, LeasedInv, NEW p \in Procs, Process(p)
    PROVE  Supervisor(p) /\ \A q \in Procs : q # p => pc[q] = "down"
  <1>s. OneLease /\ \A q \in Procs : Supervisor(q)
    BY DEF SupervisorsOnly, Supervisor
  <1>1. CASE pc[p] # "down"
    BY <1>s, <1>1, HolderAlone DEF Sole
  <1>2. CASE Startup(p)
    BY <1>s, <1>2, EngineAssumption DEF Startup, LeaseFree, OneLease, LeasedInv, Leased
  <1>3. CASE pc[p] = "down" /\ ~Startup(p)
    BY <1>s, <1>3
    DEF Process, Step, Status, Leave, Crash, OrphanRefused, OrphanObserved, OrphanExecute,
        OrphanBlock, OrphanMark, OrphansDone, LeaseLost, StayBlocked, Tick, ListOpen,
        OpenIncident, BlockOpenIncident, FillIncident, StartRemediation, Quiet,
        AdvanceBurnIn, CloseIncident, NextTick, CreateIntent, RefuseRemediation,
        WouldRemediate, ExecuteStrategy, MarkIntent, SaveRemediation, MarkBlocked
  <1> QED BY <1>1, <1>2, <1>3

\* Only p runs, so the invariant has to be shown for p alone.
LEMMA Glue ==
    ASSUME TypeInv, LeasedInv', NEW p \in Procs, NEW label,
           \A q \in Procs : q # p => pc[q] = "down",
           pc' = [pc EXCEPT ![p] = label], Globals', IncidentInHand(p)'
    PROVE  SafeInv'
  <1>1. ASSUME NEW q \in Procs, q # p PROVE IncidentInHand(q)'
    <2>1. pc'[q] = "down"
      BY <1>1 DEF TypeInv, TypeOK
    <2> QED
      BY <2>1 DEF IncidentInHand, HasRow, HoldsIncident
  <1> QED
    BY <1>1 DEF SafeInv, Globals

\* At these labels a process holds no incident.
LEMMA RestStep ==
    ASSUME TypeInv, LeasedInv', NEW p \in Procs,
           NEW label \in {"down", "orphans", "orphan_mark", "idle", "list", "done", "escalate"},
           \A q \in Procs : q # p => pc[q] = "down",
           pc' = [pc EXCEPT ![p] = label], Globals'
    PROVE  SafeInv'
  <1>1. pc'[p] = label
    BY DEF TypeInv, TypeOK
  <1>2. IncidentInHand(p)'
    BY <1>1 DEF IncidentInHand, HasRow, HoldsIncident
  <1> QED
    BY <1>2, Glue

\* A step that leaves both stores alone keeps what the invariant says of them.
LEMMA StoresKept ==
    ASSUME SafeInv, incidents' = incidents, intents' = intents
    PROVE  Globals' /\ OpenIncidents' = OpenIncidents
  BY DEF SafeInv, Globals, OneOpenIncident, PendingIsOpen, OpenIncidents, OrphanedPending

\* A row is overwritten by one of the same status.
LEMMA RowWritten ==
    ASSUME SafeInv, NEW i \in Incidents, NEW row,
           incidents' = [incidents EXCEPT ![i] = row], intents' = intents,
           row.status = incidents[i].status
    PROVE  Globals' /\ OpenIncidents' = OpenIncidents /\ incidents'[i] = row
  <1>t. TypeInv
    BY DEF SafeInv, LeasedInv
  <1>1. OrphanedPending' = OrphanedPending
    BY DEF OrphanedPending
  <1>2. /\ incidents'[i] = row
        /\ \A j \in Incidents : incidents'[j].status = incidents[j].status
    BY <1>t DEF TypeInv, TypeOK
  <1>3. OpenIncidents' = OpenIncidents
    BY <1>2 DEF OpenIncidents
  <1>4. \A k \in OrphanedPending : intents[k].incident \in Incidents
    BY <1>t DEF TypeInv, Bookkeeping, OrphanedPending
  <1>5. PendingIsOpen'
    BY <1>1, <1>2, <1>4 DEF SafeInv, PendingIsOpen
  <1> QED
    BY <1>2, <1>3, <1>5 DEF SafeInv, Globals, OneOpenIncident

\* Settling an intent leaves no more pending than before.
LEMMA IntentSettled ==
    ASSUME SafeInv, NEW k, NEW s \in {"EXECUTED", "FAILED"},
           intents' = [intents EXCEPT ![k].status = s], incidents' = incidents
    PROVE  Globals' /\ OpenIncidents' = OpenIncidents /\ OrphanedPending' \subseteq OrphanedPending
  <1>t. TypeInv
    BY DEF SafeInv, LeasedInv
  <1>1. OpenIncidents' = OpenIncidents
    BY DEF OpenIncidents
  <1>2. ASSUME NEW j \in Intents
        PROVE  /\ intents'[j].incident = intents[j].incident
               /\ intents'[j].status = "PENDING" => intents[j].status = "PENDING"
    <2>1. CASE j = k
      BY <1>t, <2>1 DEF TypeInv, TypeOK, IntentRows
    <2>2. CASE j # k
      BY <1>t, <2>2 DEF TypeInv, TypeOK
    <2> QED
      BY <2>1, <2>2
  <1>3. OrphanedPending' \subseteq OrphanedPending
    BY <1>2 DEF OrphanedPending
  <1>4. PendingIsOpen'
    BY <1>2, <1>3 DEF SafeInv, PendingIsOpen, OrphanedPending
  <1> QED
    BY <1>1, <1>3, <1>4 DEF SafeInv, Globals, OneOpenIncident

\* Every step of a process keeps the invariant.
LEMMA SafeProcess ==
    ASSUME SupervisorsOnly, SafeInv, LeasedInv', NEW p \in Procs, Process(p)
    PROVE  SafeInv'
  <1> USE DEF SetLoc, Goto
  <1>m. Supervisor(p) /\ \A q \in Procs : q # p => pc[q] = "down"
    BY RunsAlone DEF SafeInv
  <1>t. TypeInv /\ TypeOK /\ Bookkeeping
    BY DEF SafeInv, LeasedInv, TypeInv
  <1>l. loc[p] \in Locals /\ loc[p].row \in Rows
    BY <1>t DEF TypeOK, Locals
  <1>p. \A label : pc' = [pc EXCEPT ![p] = label] => pc'[p] = label
    BY <1>t DEF TypeOK
  <1>r. \A l : loc' = [loc EXCEPT ![p] = l] => loc'[p] = l
    BY <1>t DEF TypeOK
  <1>h. /\ IncidentInHand(p) /\ Leased(p)
        /\ HasRow(p) => loc[p].id \in Incidents
    BY <1>t, RowInTable DEF SafeInv, LeasedInv
  <1>e. EndTick(p) => pc' = [pc EXCEPT ![p] = "done"]
    BY DEF EndTick
  <1>1. CASE \/ Startup(p) \/ LeaseLost(p) \/ StayBlocked(p) \/ Leave(p) \/ MarkBlocked(p)
             \/ OrphansDone(p) \/ Tick(p) \/ NextTick(p) \/ Quiet(p) \/ WouldRemediate(p)
             \/ Crash(p) \/ (\E k \in Intents : OrphanExecute(p, k))
    <2>1. UNCHANGED <<incidents, intents>>
      BY <1>1
      DEF Startup, LeaseLost, StayBlocked, Leave, MarkBlocked, OrphansDone, Tick, Inspect,
          NextTick, Quiet, WouldRemediate, Crash, OrphanExecute, stores
    <2>2. PICK label \in {"down", "orphans", "orphan_mark", "idle", "list", "done"} :
             pc' = [pc EXCEPT ![p] = label]
      BY <1>1
      DEF Startup, LeaseLost, StayBlocked, Leave, MarkBlocked, OrphansDone, Tick, Inspect,
          NextTick, Quiet, WouldRemediate, Crash, OrphanExecute, Exit, EndTick
    <2> QED
      BY <1>m, <1>t, <2>1, <2>2, StoresKept, RestStep
  <1>2. ASSUME NEW k \in Intents, OrphanObserved(p, k) PROVE SafeInv'
    <2>1. UNCHANGED <<incidents, intents, pc>> /\ pc[p] = "orphans"
      BY <1>2 DEF OrphanObserved, stores
    <2>2. pc' = [pc EXCEPT ![p] = "orphans"]
      BY <1>t, <2>1 DEF TypeOK
    <2> QED
      BY <1>m, <1>t, <2>1, <2>2, StoresKept, RestStep
  <1>3. ASSUME NEW k \in Intents, OrphanRefused(p, k) PROVE SafeInv'
    <2>1. /\ pc' = [pc EXCEPT ![p] = "orphan_block"] /\ incidents' = incidents
          /\ intents' = [intents EXCEPT ![k].status = "FAILED"]
      BY <1>3 DEF OrphanRefused
    <2>2. Globals' /\ OpenIncidents' = OpenIncidents
      BY <2>1, IntentSettled
    <2>3. PICK l : l = [loc[p] EXCEPT !.intent = k, !.id = intents[k].incident,
                                      !.row = incidents[intents[k].incident]]
      OBVIOUS
    <2>4. /\ l.row = incidents[intents[k].incident] /\ l.id = intents[k].incident
          /\ loc' = [loc EXCEPT ![p] = l]
      BY <1>3, <1>l, <2>3 DEF OrphanRefused, Locals
    <2>5. pc'[p] = "orphan_block" /\ loc'[p] = l
      BY <1>p, <1>r, <2>1, <2>4
    <2>6. IncidentInHand(p)'
      BY <2>1, <2>4, <2>5 DEF IncidentInHand
    <2> QED
      BY <1>m, <1>t, <2>1, <2>2, <2>6, Glue
  <1>4. CASE OrphanMark(p)
    <2>1. pc' = [pc EXCEPT ![p] = "orphans"] /\ incidents' = incidents
      BY <1>4 DEF OrphanMark
    <2>2. PICK s \in {"EXECUTED", "FAILED"} :
             intents' = [intents EXCEPT ![loc[p].intent].status = s]
      BY <1>4 DEF OrphanMark, Settled
    <2> QED
      BY <1>m, <1>t, <2>1, <2>2, IntentSettled, RestStep
  <1>5. CASE OrphanBlock(p) \/ BlockOpenIncident(p) \/ RefuseRemediation(p)
    <2>1. PICK row : row = [loc[p].row EXCEPT !.blocked = TRUE]
      OBVIOUS
    <2>2. /\ HasRow(p) /\ incidents' = [incidents EXCEPT ![loc[p].id] = row]
          /\ intents' = intents
      BY <1>5, <2>1
      DEF OrphanBlock, BlockOpenIncident, RefuseRemediation, Save, NoneOpen, HasRow,
          HoldsIncident
    <2>3. row.status = incidents[loc[p].id].status
      BY <1>h, <1>l, <2>1, <2>2 DEF IncidentInHand, Rows
    <2>4. Globals'
      BY <1>h, <2>2, <2>3, RowWritten
    <2>5. PICK label \in {"orphans", "escalate"} : pc' = [pc EXCEPT ![p] = label]
      BY <1>5, <1>m DEF OrphanBlock, BlockOpenIncident, RefuseRemediation, Blocked
    <2> QED
      BY <1>m, <1>t, <2>4, <2>5, RestStep
  <1>6. CASE ListOpen(p)
    <2>1. /\ pc[p] = "list" /\ pc' = [pc EXCEPT ![p] = "decide"]
          /\ UNCHANGED <<incidents, intents>>
      BY <1>6 DEF ListOpen, stores
    <2>2. Globals' /\ OpenIncidents' = OpenIncidents /\ pc'[p] = "decide"
      BY <1>p, <2>1, StoresKept
    <2>3. CASE OpenIncidents = {} /\ loc' = loc
      <3>1. loc[p].id = NoIncident
        BY <1>h, <2>1 DEF Leased
      <3> QED
        BY <2>2, <2>3, <3>1, <1>m, <1>t, <2>1, Glue DEF IncidentInHand, HasRow, HoldsIncident
    <2>4. ASSUME NEW i \in Incidents, IsFirst(i, OpenIncidents),
                 loc' = [loc EXCEPT ![p] = [loc[p] EXCEPT !.id = i, !.row = incidents[i]]]
          PROVE  SafeInv'
      <3>1. PICK l : l = [loc[p] EXCEPT !.id = i, !.row = incidents[i]]
        OBVIOUS
      <3>2. l.id = i /\ l.row = incidents[i] /\ incidents[i].status = "OPEN"
        BY <1>l, <2>4, <3>1 DEF Locals, IsFirst, OpenIncidents
      <3>3. loc'[p] = l
        BY <1>r, <2>4, <3>1
      <3>4. i # NoIncident
        BY DEF Incidents, NoIncident
      <3>5. IncidentInHand(p)'
        BY <2>1, <2>2, <3>2, <3>3, <3>4 DEF IncidentInHand
      <3> QED
        BY <1>m, <1>t, <2>1, <2>2, <3>5, Glue
    <2> QED
      BY <1>6, <2>3, <2>4 DEF ListOpen
  <1>7. ASSUME NEW i \in Incidents, OpenIncident(p, i) PROVE SafeInv'
    <2>1. /\ pc[p] = "decide" /\ pc' = [pc EXCEPT ![p] = "fill"] /\ intents' = intents
          /\ loc[p].id = NoIncident
      BY <1>7 DEF OpenIncident, NoneOpen
    <2>2. OpenIncidents = {}
      BY <1>h, <2>1 DEF IncidentInHand
    <2>3. PICK row : row = [NewRow EXCEPT !.status = "OPEN", !.openedAt = now,
                                        !.symptom = Symptom(p)]
      OBVIOUS
    <2>4. row.status = "OPEN" /\ ~row.blocked
      BY <2>3 DEF NewRow
    <2>5. PICK l : l = [loc[p] EXCEPT !.id = i, !.row = row]
      OBVIOUS
    <2>6. /\ l.id = i /\ l.row = row
          /\ loc' = [loc EXCEPT ![p] = l] /\ incidents' = [incidents EXCEPT ![i] = row]
      BY <1>7, <1>l, <2>3, <2>5 DEF OpenIncident, Locals
    <2>7. incidents'[i] = row /\ \A j \in Incidents : j # i => incidents'[j] = incidents[j]
      BY <2>6, <1>t DEF TypeOK
    <2>8. OpenIncidents' = {i}
      BY <2>2, <2>4, <2>7 DEF OpenIncidents
    <2>9. \A k \in OrphanedPending : intents[k].incident \in Incidents
      BY <1>t DEF Bookkeeping, OrphanedPending
    <2>10. PendingIsOpen'
      BY <2>1, <2>4, <2>7, <2>9 DEF SafeInv, PendingIsOpen, OrphanedPending
    <2>11. Globals'
      BY <2>8, <2>10 DEF Globals, OneOpenIncident
    <2>12. pc'[p] = "fill" /\ loc'[p] = l
      BY <1>p, <1>r, <2>1, <2>6
    <2>13. IncidentInHand(p)'
      BY <2>4, <2>6, <2>7, <2>12 DEF IncidentInHand
    <2> QED
      BY <1>m, <1>t, <2>1, <2>11, <2>13, Glue
  <1>8. CASE FillIncident(p)
    <2>1. pc[p] = "fill" /\ HasRow(p) /\ intents' = intents
          /\ incidents' = [incidents EXCEPT ![loc[p].id] = loc[p].row]
      BY <1>8 DEF FillIncident, HasRow, HoldsIncident
    <2>2. /\ loc[p].id \in Incidents /\ ~loc[p].row.blocked
          /\ loc[p].row.status = "OPEN" /\ incidents[loc[p].id].status = "OPEN"
      BY <1>h, <2>1 DEF IncidentInHand
    <2>3. Globals' /\ incidents'[loc[p].id] = loc[p].row
      BY <2>1, <2>2, RowWritten
    <2>4. CASE EndTick(p) \/ Blocked(p)
      BY <1>e, <1>m, <1>t, <2>3, <2>4, RestStep DEF Blocked
    <2>5. CASE pc' = [pc EXCEPT ![p] = "remediate"] /\ loc' = loc
      <3>1. IncidentInHand(p)'
        BY <1>p, <2>2, <2>3, <2>5 DEF IncidentInHand
      <3> QED
        BY <1>m, <1>t, <2>3, <2>5, <3>1, Glue
    <2> QED
      BY <1>8, <2>4, <2>5 DEF FillIncident
  <1>9. CASE StartRemediation(p)
    <2>1. /\ pc[p] = "decide" /\ pc' = [pc EXCEPT ![p] = "remediate"] /\ HasRow(p)
          /\ UNCHANGED <<incidents, intents, loc>> /\ ~loc[p].row.blocked
      BY <1>9 DEF StartRemediation, MayRemediate, NoneOpen, HasRow, stores
    <2>2. IncidentInHand(p)'
      BY <1>h, <1>p, <2>1 DEF IncidentInHand
    <2> QED
      BY <1>m, <1>t, <2>1, <2>2, StoresKept, Glue
  <1>10. CASE AdvanceBurnIn(p)
    <2>1. pc[p] = "decide" /\ HasRow(p)
      BY <1>10 DEF AdvanceBurnIn, NoneOpen, HasRow
    <2>2. /\ loc[p].id \in Incidents
          /\ loc[p].row.status = "OPEN" /\ incidents[loc[p].id].status = "OPEN"
          /\ loc[p].row.blocked = incidents[loc[p].id].blocked
      BY <1>h, <2>1 DEF IncidentInHand
    <2>3. PICK burnIn : burnIn = EvaluateBurnIn(loc[p].row.burnIn, loc[p].obs.units,
                                  HealthOk(loc[p].obs) /\ ProgressOk(loc[p].obs),
                                  loc[p].at, loc[p].row.remediated)
      OBVIOUS
    <2>4. PICK row : row = [loc[p].row EXCEPT !.burnIn = burnIn]
      OBVIOUS
    <2>5. row.status = loc[p].row.status /\ row.blocked = loc[p].row.blocked
      BY <1>l, <2>4 DEF Rows
    <2>6. incidents' = [incidents EXCEPT ![loc[p].id] = row] /\ intents' = intents
      BY <1>10, <2>3, <2>4 DEF AdvanceBurnIn
    <2>7. Globals' /\ incidents'[loc[p].id] = row
      BY <2>2, <2>5, <2>6, RowWritten
    <2>8. CASE EndTick(p)
      BY <1>e, <1>m, <1>t, <2>7, <2>8, RestStep
    <2>9. CASE /\ pc' = [pc EXCEPT ![p] = "close"]
               /\ loc' = [loc EXCEPT ![p] = [loc[p] EXCEPT !.row.burnIn = burnIn]]
      <3>1. PICK l : l = [loc[p] EXCEPT !.row.burnIn = burnIn]
        OBVIOUS
      <3>2. /\ l.id = loc[p].id /\ l.row.status = loc[p].row.status
            /\ l.row.blocked = loc[p].row.blocked
        BY <1>l, <3>1 DEF Locals, Rows
      <3>3. pc'[p] = "close" /\ loc'[p] = l
        BY <1>p, <1>r, <2>9, <3>1
      <3>4. IncidentInHand(p)'
        BY <2>2, <2>5, <2>7, <3>2, <3>3 DEF IncidentInHand
      <3> QED
        BY <1>m, <1>t, <2>7, <2>9, <3>4, Glue
    <2> QED
      BY <1>10, <2>3, <2>8, <2>9 DEF AdvanceBurnIn
  <1>11. CASE CloseIncident(p)
    <2>1. pc[p] = "close" /\ pc' = [pc EXCEPT ![p] = "done"] /\ intents' = intents
      BY <1>11, <1>e DEF CloseIncident
    <2>2. CASE ObserveOnly(p)
      BY <1>11, <1>m, <1>t, <2>1, <2>2, StoresKept, RestStep DEF CloseIncident
    <2>3. CASE ~ObserveOnly(p)
      <3>1. OrphanedPending = {} /\ loc[p].id \in Incidents
        BY <1>h, <2>1, <2>3
        DEF ObserveOnly, Leased, IntentInHand, NothingPending, HasRow, HoldsIncident
      <3>2. PICK row : row = [loc[p].row EXCEPT !.status = "CLOSED"]
        OBVIOUS
      <3>3. row.status = "CLOSED"
        BY <1>l, <3>2 DEF Rows
      <3>4. incidents' = [incidents EXCEPT ![loc[p].id] = row]
        BY <1>11, <2>3, <3>2 DEF CloseIncident, Closed
      <3>5. OpenIncidents' \subseteq OpenIncidents /\ OrphanedPending' = {}
        BY <1>t, <2>1, <3>1, <3>3, <3>4 DEF TypeOK, OpenIncidents, OrphanedPending
      <3>6. Globals'
        BY <3>5 DEF SafeInv, Globals, OneOpenIncident, PendingIsOpen
      <3> QED
        BY <1>m, <1>t, <2>1, <3>6, RestStep
    <2> QED
      BY <2>2, <2>3
  <1>12. ASSUME NEW k \in Intents, CreateIntent(p, k) PROVE SafeInv'
    <2>1. /\ pc[p] = "remediate" /\ pc' = [pc EXCEPT ![p] = "execute"] /\ HasRow(p)
          /\ incidents' = incidents /\ intents' = [intents EXCEPT ![k] = PendingIntent(p)]
      BY <1>12 DEF CreateIntent, HasRow, HoldsIncident
    <2>2. /\ incidents[loc[p].id].status = "OPEN" /\ loc[p].row.status = "OPEN"
          /\ ~loc[p].row.blocked /\ loc[p].row.blocked = incidents[loc[p].id].blocked
      BY <1>h, <2>1 DEF IncidentInHand
    <2>3. /\ intents'[k].incident = loc[p].id
          /\ \A j \in Intents : j # k => intents'[j] = intents[j]
      BY <1>t, <2>1 DEF PendingIntent, TypeOK
    <2>4. PICK l : l = [loc[p] EXCEPT !.intent = k, !.strategy = Decision(p)]
      OBVIOUS
    <2>5. /\ l.id = loc[p].id /\ l.row = loc[p].row /\ loc' = [loc EXCEPT ![p] = l]
      BY <1>12, <1>l, <2>4 DEF CreateIntent, Locals
    <2>6. PendingIsOpen' /\ OpenIncidents' = OpenIncidents
      BY <2>1, <2>2, <2>3 DEF SafeInv, PendingIsOpen, OrphanedPending, OpenIncidents
    <2>7. Globals'
      BY <2>6 DEF SafeInv, Globals, OneOpenIncident
    <2>8. pc'[p] = "execute" /\ loc'[p] = l
      BY <1>p, <1>r, <2>1, <2>5
    <2>9. IncidentInHand(p)'
      BY <2>1, <2>2, <2>5, <2>8 DEF IncidentInHand
    <2> QED
      BY <1>m, <1>t, <2>1, <2>7, <2>9, Glue
  <1>13. CASE ExecuteStrategy(p)
    <2>1. /\ pc[p] = "execute" /\ pc' = [pc EXCEPT ![p] = "mark"] /\ HasRow(p)
          /\ UNCHANGED <<incidents, intents>>
      BY <1>13 DEF ExecuteStrategy, HasRow, HoldsIncident, stores
    <2>2. PICK ok \in BOOLEAN : loc' = [loc EXCEPT ![p] = [loc[p] EXCEPT !.ok = ok,
                !.row.attempts = RecordAttempt(@, loc[p].strategy, EvidenceDigest(loc[p].id)),
                !.row.remediated = TRUE]]
      BY <1>13 DEF ExecuteStrategy
    <2>3. PICK l : l = [loc[p] EXCEPT !.ok = ok,
                !.row.attempts = RecordAttempt(@, loc[p].strategy, EvidenceDigest(loc[p].id)),
                !.row.remediated = TRUE]
      OBVIOUS
    <2>4. /\ l.id = loc[p].id /\ l.row.status = loc[p].row.status
          /\ l.row.blocked = loc[p].row.blocked
      BY <1>l, <2>3 DEF Locals, Rows
    <2>5. pc'[p] = "mark" /\ loc'[p] = l
      BY <1>p, <1>r, <2>1, <2>2, <2>3
    <2>6. IncidentInHand(p)'
      BY <1>h, <2>1, <2>4, <2>5 DEF IncidentInHand
    <2> QED
      BY <1>m, <1>t, <2>1, <2>6, StoresKept, Glue
  <1>14. CASE MarkIntent(p)
    <2>1. /\ pc[p] = "mark" /\ pc' = [pc EXCEPT ![p] = "save"] /\ HasRow(p)
          /\ UNCHANGED <<incidents, loc>>
      BY <1>14 DEF MarkIntent, HasRow, HoldsIncident
    <2>2. PICK s \in {"EXECUTED", "FAILED"} :
             intents' = [intents EXCEPT ![loc[p].intent].status = s]
      BY <1>14 DEF MarkIntent, Settled
    <2>3. IncidentInHand(p)'
      BY <1>h, <1>p, <2>1 DEF IncidentInHand
    <2> QED
      BY <1>m, <1>t, <2>1, <2>2, <2>3, IntentSettled, Glue
  <1>15. CASE SaveRemediation(p)
    <2>1. /\ pc[p] = "save" /\ pc' = [pc EXCEPT ![p] = "done"] /\ HasRow(p)
          /\ intents' = intents
      BY <1>15, <1>e DEF SaveRemediation, HasRow, HoldsIncident
    <2>2. PICK row : /\ row.status = loc[p].row.status
                     /\ incidents' = [incidents EXCEPT ![loc[p].id] = row]
      BY <1>15, <1>l DEF SaveRemediation, Rows
    <2>3. loc[p].id \in Incidents /\ row.status = incidents[loc[p].id].status
      BY <1>h, <2>1, <2>2 DEF IncidentInHand
    <2> QED
      BY <1>m, <1>t, <2>1, <2>2, <2>3, RowWritten, RestStep
  <1>16. ~Status(p)
    BY <1>m DEF Status
  <1> QED
    BY <1>1, <1>2, <1>3, <1>4, <1>5, <1>6, <1>7, <1>8, <1>9, <1>10, <1>11, <1>12, <1>13,
       <1>14, <1>15, <1>16
    DEF Process, Step

\* Every step keeps the invariant, those of the environment included.
LEMMA SafeNext ==
    ASSUME SupervisorsOnly, SafeInv, [Next]_vars PROVE SafeInv'
  <1>1. LeasedInv'
    BY LeasedNext DEF SafeInv, SupervisorsOnly
  <1>2. ASSUME NEW p \in Procs, Process(p) PROVE SafeInv'
    BY <1>1, <1>2, SafeProcess
  <1>3. ASSUME incidents' = incidents, intents' = intents, pc' = pc, loc' = loc
        PROVE  SafeInv'
    BY <1>1, <1>3, StoresKept DEF SafeInv, Globals, IncidentInHand, HasRow
  <1>4. CASE OperatorClears \/ Worker \/ ClockTicks \/ UNCHANGED vars
    BY <1>3, <1>4 DEF OperatorClears, Worker, ClockTicks, vars, stores
  <1> QED
    BY <1>2, <1>4 DEF Next

\* Supervisors alone never leave two incidents open, whatever they are interrupted by:
\* the engine looks at the oldest open incident only.
THEOREM OneOpenIncidentHolds ==
    ASSUME SupervisorsOnly PROVE Spec => []OneOpenIncident
  <1>1. SafeInv /\ [Next]_vars => SafeInv'
    BY SafeNext
  <1>2. SafeInv => OneOpenIncident
    BY DEF SafeInv
  <1> QED
    BY <1>1, <1>2, SafeInit, PTL DEF Spec

-------------------------------------------------------------------------------
\* Acting supervisors only: an observe-only one may block an incident whose intent its
\* own startup pass left pending.

\* Every step of a process keeps pending intents alive: an acting supervisor writes rows
\* only when nothing is pending.
LEMMA LiveProcess ==
    ASSUME Exclusive, SafeInv, PendingIntentIsLive, SafeInv', NEW p \in Procs, Process(p)
    PROVE  PendingIntentIsLive'
  <1>m. Mode[p] = "run"
    BY DEF Exclusive
  <1>t. TypeInv /\ TypeOK /\ Leased(p) /\ IncidentInHand(p)
    BY DEF SafeInv, LeasedInv, TypeInv
  <1>1. CASE UNCHANGED <<incidents, intents>>
    BY <1>1 DEF PendingIntentIsLive, OrphanedPending
  <1>2. CASE \/ OrphanBlock(p) \/ BlockOpenIncident(p) \/ RefuseRemediation(p)
             \/ FillIncident(p) \/ AdvanceBurnIn(p) \/ CloseIncident(p) \/ SaveRemediation(p)
             \/ \E i \in Incidents : OpenIncident(p, i)
    <2>1. /\ pc[p] \in {"orphan_block", "decide", "remediate", "fill", "close", "save"}
          /\ intents' = intents
      BY <1>2 DEF OrphanBlock, BlockOpenIncident, RefuseRemediation, FillIncident,
                  AdvanceBurnIn, CloseIncident, SaveRemediation, OpenIncident
    <2>2. OrphanedPending = {}
      BY <1>m, <1>t, <2>1 DEF Leased, IntentInHand, NothingPending
    <2> QED BY <2>1, <2>2 DEF PendingIntentIsLive, OrphanedPending
  <1>3. CASE OrphanMark(p) \/ MarkIntent(p) \/ \E k \in Intents : OrphanRefused(p, k)
    <2>0. \E k, s : /\ s \in {"EXECUTED", "FAILED"}
                    /\ incidents' = incidents
                    /\ intents' = [intents EXCEPT ![k].status = s]
      <3>1. CASE OrphanMark(p) \/ MarkIntent(p)
        <4>1. Settled(loc[p].ok) \in {"EXECUTED", "FAILED"}
          BY DEF Settled
        <4> QED BY <3>1, <4>1 DEF OrphanMark, MarkIntent
      <3>2. ASSUME NEW k \in Intents, OrphanRefused(p, k)
            PROVE  incidents' = incidents /\ intents' = [intents EXCEPT ![k].status = "FAILED"]
        BY <3>2 DEF OrphanRefused
      <3> QED BY <1>3, <3>1, <3>2
    <2>1. PICK k, s : /\ s \in {"EXECUTED", "FAILED"}
                     /\ incidents' = incidents
                     /\ intents' = [intents EXCEPT ![k].status = s]
      BY <2>0
    <2>2. OrphanedPending' \subseteq OrphanedPending
      BY <2>1, IntentSettled
    <2>3. \A j \in Intents : intents'[j].incident = intents[j].incident
      BY <1>t, <2>1 DEF TypeOK, IntentRows
    <2> QED BY <2>1, <2>2, <2>3 DEF PendingIntentIsLive, OrphanedPending
  <1>4. ASSUME NEW k \in Intents, CreateIntent(p, k) PROVE PendingIntentIsLive'
    <2>1. /\ pc[p] = "remediate" /\ HasRow(p) /\ incidents' = incidents
          /\ intents' = [intents EXCEPT ![k] = PendingIntent(p)]
      BY <1>4 DEF CreateIntent, HasRow, HoldsIncident
    <2>2. incidents[loc[p].id].status = "OPEN" /\ ~incidents[loc[p].id].blocked
      BY <1>t, <2>1 DEF IncidentInHand
    <2>3. /\ intents'[k].incident = loc[p].id
          /\ \A j \in Intents : j # k => intents'[j] = intents[j]
      BY <1>t, <2>1 DEF PendingIntent, TypeOK
    <2> QED BY <2>1, <2>2, <2>3 DEF PendingIntentIsLive, OrphanedPending
  <1> QED
    BY <1>1, <1>2, <1>3, <1>4
    DEF Process, Step, Startup, Status, Leave, Crash, OrphanObserved, OrphanExecute,
        OrphansDone, LeaseLost, StayBlocked, Tick, Inspect, ListOpen, StartRemediation,
        Quiet, NextTick, WouldRemediate, ExecuteStrategy, MarkBlocked, stores

\* So does every step.
LEMMA LiveNext ==
    ASSUME Exclusive, SafeInv, PendingIntentIsLive, [Next]_vars
    PROVE  SafeInv' /\ PendingIntentIsLive'
  <1>1. SafeInv'
    BY SafeNext DEF Exclusive, SupervisorsOnly
  <1>2. ASSUME NEW p \in Procs, Process(p) PROVE PendingIntentIsLive'
    BY <1>1, <1>2, LiveProcess
  <1>3. CASE OperatorClears \/ Worker \/ ClockTicks \/ UNCHANGED vars
    <2>1. incidents' = incidents /\ intents' = intents
      BY <1>3 DEF OperatorClears, Worker, ClockTicks, vars, stores
    <2> QED
      BY <1>1, <2>1 DEF PendingIntentIsLive, OrphanedPending
  <1>4. (\E p \in Procs : Process(p)) \/ OperatorClears \/ Worker \/ ClockTicks
           \/ UNCHANGED vars
    BY DEF Next
  <1>5. PendingIntentIsLive'
    BY <1>2, <1>3, <1>4
  <1> QED
    BY <1>1, <1>5

\* At first nothing is pending.
LEMMA LiveInit == Init => SafeInv /\ PendingIntentIsLive
  <1>1. Init => OrphanedPending = {}
    BY DEF Init, OrphanedPending, NewIntent
  <1> QED
    BY <1>1, SafeInit DEF PendingIntentIsLive

\* With acting supervisors only, what the startup pass finds pending belongs to an
\* incident that is open and not handed to a human.
THEOREM PendingIntentIsLiveHolds ==
    ASSUME Exclusive PROVE Spec => []PendingIntentIsLive
  <1>1. SafeInv /\ PendingIntentIsLive /\ [Next]_vars => SafeInv' /\ PendingIntentIsLive'
    BY LiveNext
  <1> QED
    BY <1>1, LiveInit, PTL DEF Spec

\* With acting supervisors only, nothing runs for an incident that was closed or handed
\* to a human.
THEOREM NoRepairOfBlockedHolds ==
    ASSUME Exclusive PROVE Spec => NoRepairOfBlocked
  <1>1. SafeInv /\ PendingIntentIsLive /\ [Next]_vars => SafeInv' /\ PendingIntentIsLive'
    BY LiveNext
  <1>2. SafeInv /\ PendingIntentIsLive /\ [Next]_vars =>
           [\A i \in Incidents : Executes(i) =>
               incidents[i].status = "OPEN" /\ ~incidents[i].blocked]_vars
    BY ExecutionIsCovered DEF SafeInv, PendingIntentIsLive
  <1> QED BY <1>1, <1>2, LiveInit, PTL DEF Spec, NoRepairOfBlocked

-------------------------------------------------------------------------------
\* Recovery attempts across crashes.

\* A strategy that will run, or run again, for incident i without a further crash.
Owed(i) ==
    IF HasPending(i) /\ \A p \in Procs : pc[p] \notin {"execute", "mark", "orphan_mark"}
    THEN 1 ELSE 0

\* A strategy that ran and whose attempt is still to be saved.
Flying(i) == IF InFlight(i) # {} THEN 1 ELSE 0

Counted(i) ==
    executed[i] + Owed(i) <= Len(incidents[i].attempts) + Flying(i) + 2 * crashes

\* The copy of the row in hand has the attempts of the store, and the one just made.
CopyCounts(p) ==
    /\ pc[p] \in {"orphan_block", "fill", "remediate", "execute", "close"} =>
          Len(loc[p].row.attempts) = Len(incidents[loc[p].id].attempts)
    /\ pc[p] = "decide" /\ loc[p].id # NoIncident =>
          Len(loc[p].row.attempts) = Len(incidents[loc[p].id].attempts)
    /\ pc[p] \in {"mark", "save"} =>
          Len(loc[p].row.attempts) = Len(incidents[loc[p].id].attempts) + 1
    /\ pc[p] = "orphan_block" => loc[p].row.status = "OPEN"

AccountInv ==
    /\ SafeInv
    /\ \A i \in Incidents : incidents[i].status = "NONE" => incidents[i].attempts = << >>
    /\ \A p \in Procs : CopyCounts(p)
    /\ \A i \in Incidents : Counted(i)

\* Nothing ran and nothing is written at first.
LEMMA AccountInit == Init => AccountInv
  <1> SUFFICES ASSUME Init PROVE AccountInv
    OBVIOUS
  <1>1. OrphanedPending = {}
    BY DEF Init, OrphanedPending, NewIntent
  <1>2. \A i \in Incidents : Len(incidents[i].attempts) = 0 /\ executed[i] = 0
    BY DEF Init, NewRow
  <1>3. \A i \in Incidents : InFlight(i) = {}
    BY DEF Init, InFlight
  <1>4. crashes = 0
    BY DEF Init
  <1>5. ASSUME NEW i \in Incidents PROVE Counted(i)
    <2>1. Owed(i) = 0 /\ Flying(i) = 0
      BY <1>1, <1>3 DEF Owed, Flying, HasPending
    <2> QED BY <1>2, <1>4, <2>1 DEF Counted
  <1>6. /\ \A i \in Incidents : incidents[i].status = "NONE" => incidents[i].attempts = << >>
        /\ \A p \in Procs : CopyCounts(p)
    BY DEF Init, NewRow, CopyCounts
  <1> QED BY <1>5, <1>6, SafeInit DEF AccountInv

\* The counters are natural numbers.
LEMMA CounterTypes ==
    ASSUME TypeInv, NEW i \in Incidents
    PROVE  /\ executed[i] \in Nat /\ crashes \in Nat
           /\ Len(incidents[i].attempts) \in Nat
           /\ Owed(i) \in {0, 1} /\ Flying(i) \in {0, 1}
  <1>1. incidents[i].attempts \in Seq(Attempts)
    BY DEF TypeInv, TypeOK, Rows
  <1>2. executed[i] \in Nat /\ crashes \in Nat
    BY EngineAssumption DEF TypeInv, TypeOK
  <1> QED BY <1>1, <1>2 DEF Owed, Flying

\* A process that runs alone decides what is owed and what is in flight.
LEMMA Alone ==
    ASSUME NEW p \in Procs, \A q \in Procs : q # p => pc[q] = "down", NEW i \in Incidents
    PROVE  /\ Owed(i) = IF HasPending(i) /\ pc[p] \notin {"execute", "mark", "orphan_mark"}
                        THEN 1 ELSE 0
           /\ Flying(i) = IF pc[p] \in {"mark", "save"} /\ loc[p].id = i THEN 1 ELSE 0
  <1>1. Owed(i) = IF HasPending(i) /\ pc[p] \notin {"execute", "mark", "orphan_mark"}
                  THEN 1 ELSE 0
    BY DEF Owed
  <1>2. InFlight(i) # {} <=> pc[p] \in {"mark", "save"} /\ loc[p].id = i
    BY DEF InFlight
  <1> QED BY <1>1, <1>2 DEF Flying

-------------------------------------------------------------------------------
\* What a step of the one process that runs has to show.

Counting == {"execute", "mark", "save", "orphan_mark"}
Resting == {"down", "orphans", "idle", "list", "done", "escalate"}

\* The other processes hold no copy.
LEMMA AccountGlue ==
    ASSUME AccountInv, SafeInv', NEW p \in Procs, NEW label,
           \A q \in Procs : q # p => pc[q] = "down",
           pc' = [pc EXCEPT ![p] = label], CopyCounts(p)',
           \A i \in Incidents : incidents'[i].status = "NONE" => incidents'[i].attempts = << >>,
           \A i \in Incidents : Counted(i)'
    PROVE  AccountInv'
  <1>1. ASSUME NEW q \in Procs, q # p PROVE CopyCounts(q)'
    <2>1. pc'[q] = "down"
      BY <1>1 DEF AccountInv, SafeInv, LeasedInv, TypeInv, TypeOK
    <2> QED BY <2>1 DEF CopyCounts
  <1> QED BY <1>1 DEF AccountInv

\* A step that runs nothing, writes no intent and saves no attempt.
LEMMA QuietCounts ==
    ASSUME AccountInv, NEW p \in Procs, NEW label,
           \A q \in Procs : q # p => pc[q] = "down",
           pc' = [pc EXCEPT ![p] = label], pc[p] \notin Counting, label \notin Counting,
           UNCHANGED <<intents, executed, crashes>>,
           \A i \in Incidents : Len(incidents'[i].attempts) = Len(incidents[i].attempts)
    PROVE  \A i \in Incidents : Counted(i)'
  <1> TAKE i \in Incidents
  <1>1. pc'[p] = label /\ \A q \in Procs : q # p => pc'[q] = "down"
    BY DEF AccountInv, SafeInv, LeasedInv, TypeInv, TypeOK
  <1>2. HasPending(i)' = HasPending(i)
    BY DEF HasPending, OrphanedPending
  <1>3. /\ Owed(i) = IF HasPending(i) THEN 1 ELSE 0
        /\ Flying(i) = 0
    BY Alone DEF Counting
  <1>4. /\ Owed(i)' = IF HasPending(i)' THEN 1 ELSE 0
        /\ Flying(i)' = 0
    BY <1>1 DEF Counting, Owed, Flying, InFlight
  <1>5. Counted(i)
    BY DEF AccountInv
  <1> QED BY <1>2, <1>3, <1>4, <1>5 DEF Counted

\* Such a step that leaves the process without a copy.
LEMMA RestAccount ==
    ASSUME AccountInv, SafeInv', NEW p \in Procs, NEW label \in Resting,
           \A q \in Procs : q # p => pc[q] = "down",
           pc' = [pc EXCEPT ![p] = label], pc[p] \notin Counting,
           UNCHANGED <<intents, executed, crashes>>,
           \A i \in Incidents : Len(incidents'[i].attempts) = Len(incidents[i].attempts),
           \A i \in Incidents : incidents'[i].status = "NONE" => incidents'[i].attempts = << >>
    PROVE  AccountInv'
  <1>1. \A i \in Incidents : Counted(i)'
    BY QuietCounts DEF Resting, Counting
  <1>2. pc'[p] = label
    BY DEF AccountInv, SafeInv, LeasedInv, TypeInv, TypeOK
  <1>3. CopyCounts(p)'
    BY <1>2 DEF CopyCounts, Resting
  <1> QED BY <1>1, <1>3, AccountGlue

\* A row written over by one with as many attempts.
LEMMA RowKeepsCount ==
    ASSUME AccountInv, NEW i \in Incidents, NEW row,
           incidents' = [incidents EXCEPT ![i] = row],
           Len(row.attempts) = Len(incidents[i].attempts), row.status # "NONE"
    PROVE  /\ \A j \in Incidents : Len(incidents'[j].attempts) = Len(incidents[j].attempts)
           /\ \A j \in Incidents :
                 incidents'[j].status = "NONE" => incidents'[j].attempts = << >>
  BY DEF AccountInv, SafeInv, LeasedInv, TypeInv, TypeOK

\* The sums of the steps that change one: a strategy runs, its attempt is saved, and
\* a process crashes.
LEMMA Sums ==
    ASSUME NEW e \in Nat, NEW n \in Nat, NEW c \in Nat
    PROVE  /\ e + 0 <= n + 0 + 2 * c => (e + 1) + 0 <= n + 1 + 2 * c
           /\ e + 0 <= n + 1 + 2 * c => e + 0 <= (n + 1) + 0 + 2 * c
           /\ \A o, f, o2, f2 \in {0, 1} :
                 e + o <= n + f + 2 * c => e + o2 <= n + f2 + 2 * (c + 1)
  OBVIOUS

\* Every step of a process keeps the account.
LEMMA AccountProcess ==
    ASSUME SupervisorsOnly, AccountInv, SafeInv', NEW p \in Procs, Process(p)
    PROVE  AccountInv'
  <1> USE DEF SetLoc, Goto
  <1>d. Supervisor(p) /\ \A q \in Procs : q # p => pc[q] = "down"
    BY RunsAlone DEF AccountInv, SafeInv
  <1>t. SafeInv /\ TypeInv /\ TypeOK /\ Bookkeeping
    BY DEF AccountInv, SafeInv, LeasedInv, TypeInv
  <1>l. loc[p] \in Locals /\ loc[p].row \in Rows
    BY <1>t DEF TypeOK, Locals
  <1>h. /\ IncidentInHand(p) /\ Leased(p) /\ LeasedInv /\ LeasedInv'
        /\ HasRow(p) => loc[p].id \in Incidents
    BY <1>t, RowInTable DEF SafeInv, LeasedInv
  <1>c. CopyCounts(p) /\ \A i \in Incidents : Counted(i)
    BY DEF AccountInv
  <1>m. \A label : pc' = [pc EXCEPT ![p] = label] => pc'[p] = label
    BY <1>t DEF TypeOK
  <1>n. \A l : loc' = [loc EXCEPT ![p] = l] => loc'[p] = l
    BY <1>t DEF TypeOK
  <1>o. \A label : pc' = [pc EXCEPT ![p] = label] => \A q \in Procs : q # p => pc'[q] = "down"
    BY <1>d, <1>t DEF TypeOK
  <1>k. UNCHANGED incidents =>
          /\ \A i \in Incidents : Len(incidents'[i].attempts) = Len(incidents[i].attempts)
          /\ \A i \in Incidents : incidents'[i].status = "NONE" => incidents'[i].attempts = << >>
    BY DEF AccountInv
  <1>1. CASE LeaseLost(p) \/ StayBlocked(p) \/ Leave(p) \/ MarkBlocked(p)
    <2>1. /\ UNCHANGED <<incidents, intents, executed, crashes>> /\ Exit(p)
          /\ pc[p] \in {"idle", "done", "escalate"}
      BY <1>1 DEF LeaseLost, StayBlocked, Leave, MarkBlocked, stores
    <2>2. pc' = [pc EXCEPT ![p] = "down"]
      BY <2>1 DEF Exit
    <2> QED BY <1>d, <1>k, <2>1, <2>2, RestAccount DEF Counting, Resting
  <1>2. CASE Quiet(p) \/ WouldRemediate(p)
    <2>1. /\ UNCHANGED <<incidents, intents, executed, crashes>> /\ EndTick(p)
          /\ pc[p] \in {"decide", "remediate"}
      BY <1>2 DEF Quiet, WouldRemediate, stores
    <2>2. pc' = [pc EXCEPT ![p] = "done"]
      BY <2>1 DEF EndTick
    <2> QED BY <1>d, <1>k, <2>1, <2>2, RestAccount DEF Counting, Resting
  <1>3. CASE Startup(p) \/ OrphansDone(p) \/ Tick(p) \/ NextTick(p)
    <2>1. UNCHANGED <<incidents, intents, executed, crashes>> /\ pc[p] \notin Counting
      BY <1>3 DEF Startup, OrphansDone, Tick, Inspect, NextTick, stores, Counting
    <2>2. PICK label \in Resting : pc' = [pc EXCEPT ![p] = label]
      BY <1>3 DEF Startup, OrphansDone, Tick, Inspect, NextTick, Resting
    <2> QED BY <1>d, <1>k, <2>1, <2>2, RestAccount
  <1>4. CASE ListOpen(p)
    <2>1. /\ UNCHANGED <<incidents, intents, executed, crashes>> /\ pc[p] = "list"
          /\ pc' = [pc EXCEPT ![p] = "decide"] /\ loc[p].id = NoIncident
      BY <1>4, <1>h DEF ListOpen, stores, Leased
    <2>2. \A i \in Incidents : Counted(i)'
      BY <1>d, <1>k, <2>1, QuietCounts DEF Counting
    <2>3. CASE UNCHANGED loc
      <3>1. CopyCounts(p)'
        BY <1>m, <2>1, <2>3 DEF CopyCounts
      <3> QED BY <1>d, <1>k, <2>1, <2>2, <3>1, AccountGlue
    <2>4. ASSUME NEW i \in Incidents,
                 loc' = [loc EXCEPT ![p] = [loc[p] EXCEPT !.id = i, !.row = incidents[i]]]
          PROVE  AccountInv'
      <3>0. PICK l : l = [loc[p] EXCEPT !.id = i, !.row = incidents[i]]
        OBVIOUS
      <3>1. loc'[p].id = i /\ loc'[p].row = incidents[i]
        <4>1. l.id = i /\ l.row = incidents[i]
          BY <1>l, <3>0 DEF Locals
        <4> QED BY <1>n, <2>4, <3>0, <4>1
      <3>2. CopyCounts(p)'
        BY <1>m, <2>1, <3>1 DEF CopyCounts
      <3> QED BY <1>d, <1>k, <2>1, <2>2, <3>2, AccountGlue
    <2> QED BY <1>4, <2>3, <2>4 DEF ListOpen
  <1>5. CASE StartRemediation(p)
    <2>1. /\ UNCHANGED <<incidents, intents, executed, crashes, loc>> /\ pc[p] = "decide"
          /\ pc' = [pc EXCEPT ![p] = "remediate"] /\ loc[p].id # NoIncident
      BY <1>5 DEF StartRemediation, stores, NoneOpen
    <2>2. \A i \in Incidents : Counted(i)'
      BY <1>d, <1>k, <2>1, QuietCounts DEF Counting
    <2>3. CopyCounts(p)'
      BY <1>c, <1>m, <2>1 DEF CopyCounts
    <2> QED BY <1>d, <1>k, <2>1, <2>2, <2>3, AccountGlue
  <1>6. CASE BlockOpenIncident(p) \/ RefuseRemediation(p)
    <2>1. /\ pc[p] = "remediate" \/ (pc[p] = "decide" /\ loc[p].id # NoIncident)
          /\ Save(p, [loc[p].row EXCEPT !.blocked = TRUE])
          /\ UNCHANGED <<intents, executed, crashes>>
          /\ pc' = [pc EXCEPT ![p] = "escalate"]
      BY <1>6, <1>d DEF BlockOpenIncident, RefuseRemediation, Blocked, NoneOpen
    <2>2. /\ loc[p].id \in Incidents /\ loc[p].row.status = "OPEN"
          /\ Len(loc[p].row.attempts) = Len(incidents[loc[p].id].attempts)
      <3>1. HasRow(p) /\ pc[p] # "orphan_block"
        BY <2>1 DEF HasRow, HoldsIncident
      <3>2. loc[p].id \in Incidents /\ loc[p].row.status = "OPEN"
        BY <1>h, <3>1 DEF IncidentInHand
      <3> QED
        BY <1>c, <2>1, <3>2 DEF CopyCounts
    <2>3. PICK row : row = [loc[p].row EXCEPT !.blocked = TRUE]
      OBVIOUS
    <2>4. row.attempts = loc[p].row.attempts /\ row.status = "OPEN"
      BY <1>l, <2>2, <2>3 DEF Rows
    <2>5. incidents' = [incidents EXCEPT ![loc[p].id] = row]
      BY <2>1, <2>3 DEF Save
    <2>6. /\ \A j \in Incidents : Len(incidents'[j].attempts) = Len(incidents[j].attempts)
          /\ \A j \in Incidents : incidents'[j].status = "NONE" => incidents'[j].attempts = << >>
      BY <2>2, <2>4, <2>5, RowKeepsCount
    <2> QED BY <1>d, <2>1, <2>6, RestAccount DEF Counting, Resting
  <1>7. CASE FillIncident(p)
    <2>1. pc[p] = "fill" /\ UNCHANGED <<intents, executed, crashes>>
          /\ incidents' = [incidents EXCEPT ![loc[p].id] = loc[p].row]
      BY <1>7 DEF FillIncident
    <2>2. /\ loc[p].id \in Incidents /\ loc[p].row.status = "OPEN"
          /\ Len(loc[p].row.attempts) = Len(incidents[loc[p].id].attempts)
      BY <1>c, <1>h, <2>1 DEF CopyCounts, IncidentInHand, HasRow, HoldsIncident
    <2>3. /\ \A j \in Incidents : Len(incidents'[j].attempts) = Len(incidents[j].attempts)
          /\ \A j \in Incidents : incidents'[j].status = "NONE" => incidents'[j].attempts = << >>
      BY <2>1, <2>2, RowKeepsCount
    <2>4. CASE EndTick(p)
      BY <1>d, <2>1, <2>3, <2>4, RestAccount DEF EndTick, Counting, Resting
    <2>5. CASE Blocked(p)
      BY <1>d, <2>1, <2>3, <2>5, RestAccount DEF Blocked, Counting, Resting
    <2>6. CASE pc' = [pc EXCEPT ![p] = "remediate"] /\ UNCHANGED loc
      <3>1. \A i \in Incidents : Counted(i)'
        BY <1>d, <2>1, <2>3, <2>6, QuietCounts DEF Counting
      <3>2. CopyCounts(p)'
        BY <1>m, <2>2, <2>3, <2>6 DEF CopyCounts
      <3> QED BY <1>d, <2>1, <2>3, <2>6, <3>1, <3>2, AccountGlue
    <2> QED BY <1>7, <2>4, <2>5, <2>6 DEF FillIncident
  <1>8. ASSUME NEW i \in Incidents, OpenIncident(p, i) PROVE AccountInv'
    <2>1. /\ pc[p] = "decide" /\ UNCHANGED <<intents, executed, crashes>>
          /\ pc' = [pc EXCEPT ![p] = "fill"] /\ incidents[i].status = "NONE"
      BY <1>8 DEF OpenIncident, IsFirst, Fresh
    <2>2. PICK row : row = [NewRow EXCEPT !.status = "OPEN", !.openedAt = now,
                                          !.symptom = Symptom(p)]
      OBVIOUS
    <2>3. row.attempts = << >> /\ row.status = "OPEN"
      BY <2>2 DEF NewRow
    <2>4. /\ incidents' = [incidents EXCEPT ![i] = row]
          /\ loc' = [loc EXCEPT ![p] = [loc[p] EXCEPT !.id = i, !.row = row]]
      BY <1>8, <2>2 DEF OpenIncident
    <2>5. Len(row.attempts) = Len(incidents[i].attempts)
      BY <2>1, <2>3 DEF AccountInv
    <2>6. /\ \A j \in Incidents : Len(incidents'[j].attempts) = Len(incidents[j].attempts)
          /\ \A j \in Incidents : incidents'[j].status = "NONE" => incidents'[j].attempts = << >>
      BY <2>3, <2>4, <2>5, RowKeepsCount
    <2>7. \A j \in Incidents : Counted(j)'
      BY <1>d, <2>1, <2>6, QuietCounts DEF Counting
    <2>8. loc'[p].id = i /\ loc'[p].row = row
      <3>1. PICK l : l = [loc[p] EXCEPT !.id = i, !.row = row]
        OBVIOUS
      <3>2. l.id = i /\ l.row = row
        BY <1>l, <3>1 DEF Locals
      <3> QED BY <1>n, <2>4, <3>1, <3>2
    <2>9. CopyCounts(p)'
      BY <1>m, <2>1, <2>5, <2>6, <2>8 DEF CopyCounts
    <2> QED BY <1>d, <2>1, <2>6, <2>7, <2>9, AccountGlue
  <1>9. CASE AdvanceBurnIn(p)
    <2>1. /\ pc[p] = "decide" /\ UNCHANGED <<intents, executed, crashes>>
          /\ loc[p].id # NoIncident
      BY <1>9 DEF AdvanceBurnIn, NoneOpen
    <2>2. /\ loc[p].id \in Incidents /\ loc[p].row.status = "OPEN"
          /\ Len(loc[p].row.attempts) = Len(incidents[loc[p].id].attempts)
      <3>1. HasRow(p) /\ pc[p] # "orphan_block"
        BY <2>1 DEF HasRow
      <3>2. loc[p].id \in Incidents /\ loc[p].row.status = "OPEN"
        BY <1>h, <3>1 DEF IncidentInHand
      <3> QED
        BY <1>c, <2>1, <3>2 DEF CopyCounts
    <2>3. PICK burnIn : burnIn = EvaluateBurnIn(loc[p].row.burnIn, loc[p].obs.units,
                                  HealthOk(loc[p].obs) /\ ProgressOk(loc[p].obs),
                                  loc[p].at, loc[p].row.remediated)
      OBVIOUS
    <2>4. PICK row : row = [loc[p].row EXCEPT !.burnIn = burnIn]
      OBVIOUS
    <2>5. row.attempts = loc[p].row.attempts /\ row.status = "OPEN"
      BY <1>l, <2>2, <2>4 DEF Rows
    <2>6. incidents' = [incidents EXCEPT ![loc[p].id] = row]
      BY <1>9, <2>3, <2>4 DEF AdvanceBurnIn
    <2>7. /\ \A j \in Incidents : Len(incidents'[j].attempts) = Len(incidents[j].attempts)
          /\ \A j \in Incidents : incidents'[j].status = "NONE" => incidents'[j].attempts = << >>
      BY <2>2, <2>5, <2>6, RowKeepsCount
    <2>8. CASE EndTick(p)
      BY <1>d, <2>1, <2>7, <2>8, RestAccount DEF EndTick, Counting, Resting
    <2>9. CASE /\ pc' = [pc EXCEPT ![p] = "close"]
               /\ loc' = [loc EXCEPT ![p] = [loc[p] EXCEPT !.row.burnIn = burnIn]]
      <3>1. \A j \in Incidents : Counted(j)'
        BY <1>d, <2>1, <2>7, <2>9, QuietCounts DEF Counting
      <3>2. loc'[p].id = loc[p].id /\ loc'[p].row = row
        <4>1. PICK l : l = [loc[p] EXCEPT !.row.burnIn = burnIn]
          OBVIOUS
        <4>2. l.id = loc[p].id /\ l.row = row
          BY <1>l, <2>4, <4>1 DEF Locals
        <4> QED BY <1>n, <2>9, <4>1, <4>2
      <3>3. CopyCounts(p)'
        BY <1>m, <2>2, <2>5, <2>7, <2>9, <3>2 DEF CopyCounts
      <3> QED BY <1>d, <2>1, <2>7, <2>9, <3>1, <3>3, AccountGlue
    <2> QED BY <1>9, <2>3, <2>8, <2>9 DEF AdvanceBurnIn
  <1>10. CASE CloseIncident(p)
    <2>1. /\ pc[p] = "close" /\ UNCHANGED <<intents, executed, crashes>>
          /\ pc' = [pc EXCEPT ![p] = "done"]
      BY <1>10 DEF CloseIncident, EndTick
    <2>2. /\ \A j \in Incidents : Len(incidents'[j].attempts) = Len(incidents[j].attempts)
          /\ \A j \in Incidents : incidents'[j].status = "NONE" => incidents'[j].attempts = << >>
      <3>1. CASE ObserveOnly(p)
        BY <1>10, <1>k, <3>1 DEF CloseIncident
      <3>2. CASE ~ObserveOnly(p)
        <4>1. /\ loc[p].id \in Incidents
              /\ Len(loc[p].row.attempts) = Len(incidents[loc[p].id].attempts)
          BY <1>c, <1>h, <2>1 DEF CopyCounts, HasRow, HoldsIncident
        <4>2. PICK row : row = [loc[p].row EXCEPT !.status = "CLOSED"]
          OBVIOUS
        <4>3. row.attempts = loc[p].row.attempts /\ row.status = "CLOSED"
          BY <1>l, <4>2 DEF Rows
        <4>4. incidents' = [incidents EXCEPT ![loc[p].id] = row]
          BY <1>10, <3>2, <4>2 DEF CloseIncident, Closed
        <4> QED BY <4>1, <4>3, <4>4, RowKeepsCount
      <3> QED BY <3>1, <3>2
    <2> QED BY <1>d, <2>1, <2>2, RestAccount DEF Counting, Resting
  <1>11. CASE OrphanBlock(p)
    <2>1. /\ pc[p] = "orphan_block" /\ UNCHANGED <<intents, executed, crashes>>
          /\ pc' = [pc EXCEPT ![p] = "orphans"]
      BY <1>11 DEF OrphanBlock
    <2>2. /\ loc[p].id \in Incidents /\ loc[p].row.status = "OPEN"
          /\ Len(loc[p].row.attempts) = Len(incidents[loc[p].id].attempts)
      BY <1>c, <1>h, <2>1 DEF CopyCounts, HasRow, HoldsIncident
    <2>3. PICK row : row = [loc[p].row EXCEPT !.blocked = TRUE]
      OBVIOUS
    <2>4. row.attempts = loc[p].row.attempts /\ row.status = "OPEN"
      BY <1>l, <2>2, <2>3 DEF Rows
    <2>5. incidents' = [incidents EXCEPT ![loc[p].id] = row]
      BY <1>11, <2>3 DEF OrphanBlock
    <2>6. /\ \A j \in Incidents : Len(incidents'[j].attempts) = Len(incidents[j].attempts)
          /\ \A j \in Incidents : incidents'[j].status = "NONE" => incidents'[j].attempts = << >>
      BY <2>2, <2>4, <2>5, RowKeepsCount
    <2> QED BY <1>d, <2>1, <2>6, RestAccount DEF Counting, Resting
  <1>12. ASSUME NEW k \in Intents, OrphanRefused(p, k) PROVE AccountInv'
    <2>1. /\ pc[p] = "orphans" /\ k \in loc[p].todo /\ UNCHANGED <<incidents, executed, crashes>>
          /\ pc' = [pc EXCEPT ![p] = "orphan_block"]
          /\ intents' = [intents EXCEPT ![k].status = "FAILED"]
      BY <1>12 DEF OrphanRefused, IsFirst
    <2>2. /\ k \in OrphanedPending /\ intents[k].incident \in Incidents
          /\ incidents[intents[k].incident].status = "OPEN"
      BY <1>h, <1>t, <2>1 DEF Leased, SafeInv, PendingIsOpen, Bookkeeping, OrphanedPending
    <2>3. PICK l : l = [loc[p] EXCEPT !.intent = k, !.id = intents[k].incident,
                                      !.row = incidents[intents[k].incident]]
      OBVIOUS
    <2>4. l.id = intents[k].incident /\ l.row = incidents[intents[k].incident]
      BY <1>l, <2>3 DEF Locals
    <2>5. loc'[p] = l
      BY <1>12, <1>n, <2>3 DEF OrphanRefused
    <2>6. CopyCounts(p)'
      BY <1>m, <2>1, <2>2, <2>4, <2>5 DEF CopyCounts
    <2>7. OrphanedPending' \subseteq OrphanedPending
      BY <1>t, <2>1 DEF OrphanedPending, TypeOK, IntentRows
    <2>8. ASSUME NEW i \in Incidents PROVE Counted(i)'
      <3>1. HasPending(i)' => HasPending(i)
        BY <2>1, <2>7 DEF HasPending, OrphanedPending
      <3>2. /\ Owed(i) = IF HasPending(i) THEN 1 ELSE 0
            /\ Flying(i) = 0
        BY <1>d, <2>1, Alone
      <3>3. /\ Owed(i)' = IF HasPending(i)' THEN 1 ELSE 0
            /\ Flying(i)' = 0
        BY <1>m, <1>o, <2>1 DEF Owed, Flying, InFlight
      <3>4. Counted(i)
        BY <1>c
      <3> QED BY <1>t, <2>1, <3>1, <3>2, <3>3, <3>4, CounterTypes DEF Counted
    <2> QED BY <1>d, <1>k, <2>1, <2>6, <2>8, AccountGlue
  <1>13. ASSUME NEW k \in Intents, OrphanExecute(p, k) PROVE AccountInv'
    <2>1. /\ pc[p] = "orphans" /\ k \in loc[p].todo /\ UNCHANGED <<incidents, intents, crashes>>
          /\ pc' = [pc EXCEPT ![p] = "orphan_mark"]
      BY <1>13 DEF OrphanExecute, IsFirst, stores
    <2>2. k \in OrphanedPending /\ intents[k].incident \in Incidents
      BY <1>h, <1>t, <2>1 DEF Leased, Bookkeeping, OrphanedPending
    <2>3. \A i \in Incidents : executed'[i] =
             IF i = intents[k].incident THEN executed[i] + 1 ELSE executed[i]
      BY <1>13, <1>t, <2>2, RunsCount DEF OrphanExecute
    <2>4. CopyCounts(p)'
      BY <1>m, <2>1 DEF CopyCounts
    <2>5. ASSUME NEW i \in Incidents PROVE Counted(i)'
      <3>1. i = intents[k].incident => HasPending(i)
        BY <2>1, <2>2 DEF HasPending
      <3>2. /\ Owed(i) = IF HasPending(i) THEN 1 ELSE 0
            /\ Flying(i) = 0
        BY <1>d, <2>1, Alone
      <3>3. Owed(i)' = 0 /\ Flying(i)' = 0
        BY <1>m, <1>o, <2>1 DEF Owed, Flying, InFlight
      <3>4. Counted(i)
        BY <1>c
      <3> QED BY <1>t, <2>1, <2>3, <3>1, <3>2, <3>3, <3>4, CounterTypes DEF Counted
    <2> QED BY <1>d, <1>k, <2>1, <2>4, <2>5, AccountGlue
  <1>14. CASE OrphanMark(p) \/ MarkIntent(p)
    <2>1. /\ pc[p] \in {"orphan_mark", "mark"} /\ UNCHANGED <<incidents, executed, crashes>>
          /\ OrphanedPending = {loc[p].intent}
      BY <1>14, <1>h DEF OrphanMark, MarkIntent, Leased, IntentInHand
    <2>2. PICK st \in {"EXECUTED", "FAILED"} :
             intents' = [intents EXCEPT ![loc[p].intent].status = st]
      BY <1>14 DEF OrphanMark, MarkIntent, Settled
    <2>3. OrphanedPending' = {}
      BY <1>h, <1>t, <2>1, <2>2, LastSettled DEF LeasedInv
    <2>4. PICK label \in {"orphans", "save"} :
             /\ pc' = [pc EXCEPT ![p] = label]
             /\ label = "save" => pc[p] = "mark" /\ UNCHANGED loc
             /\ label = "orphans" => pc[p] = "orphan_mark"
      BY <1>14 DEF OrphanMark, MarkIntent
    <2>5. CopyCounts(p)'
      BY <1>c, <1>m, <2>1, <2>4 DEF CopyCounts
    <2>6. ASSUME NEW i \in Incidents PROVE Counted(i)'
      <3>1. ~HasPending(i)'
        BY <2>2, <2>3 DEF HasPending
      <3>2. /\ Owed(i) = 0
            /\ Flying(i) = IF pc[p] = "mark" /\ loc[p].id = i THEN 1 ELSE 0
        BY <1>d, <2>1, Alone
      <3>3. Owed(i)' = 0 /\ Flying(i)' = Flying(i)
        BY <1>m, <1>o, <2>4, <3>1, <3>2 DEF Owed, Flying, InFlight
      <3>4. Counted(i)
        BY <1>c
      <3> QED BY <1>t, <2>1, <3>1, <3>2, <3>3, <3>4, CounterTypes DEF Counted
    <2> QED BY <1>d, <1>k, <2>1, <2>2, <2>3, <2>4, <2>5, <2>6, AccountGlue
  <1>15. ASSUME NEW k \in Intents, CreateIntent(p, k) PROVE AccountInv'
    <2>1. /\ pc[p] = "remediate" /\ UNCHANGED <<incidents, executed, crashes>>
          /\ pc' = [pc EXCEPT ![p] = "execute"] /\ intents[k].status = "NONE"
          /\ intents' = [intents EXCEPT ![k] = PendingIntent(p)]
      BY <1>15 DEF CreateIntent, IsFirst, Fresh
    <2>2. /\ loc[p].id \in Incidents /\ OrphanedPending = {}
          /\ Len(loc[p].row.attempts) = Len(incidents[loc[p].id].attempts)
      BY <1>c, <1>h, <1>15, <2>1
      DEF CopyCounts, HasRow, HoldsIncident, CreateIntent, ObserveOnly, Leased, IntentInHand,
          NothingPending
    <2>3. /\ intents'[k].incident = loc[p].id /\ intents'[k].status = "PENDING"
          /\ \A j \in Intents : j # k => intents'[j] = intents[j]
      BY <1>t, <2>1 DEF PendingIntent, TypeOK
    <2>5. PICK l : l = [loc[p] EXCEPT !.intent = k, !.strategy = Decision(p)]
      OBVIOUS
    <2>6. l.id = loc[p].id /\ l.row = loc[p].row /\ loc'[p] = l
      BY <1>15, <1>l, <1>n, <2>5 DEF CreateIntent, Locals
    <2>7. CopyCounts(p)'
      BY <1>m, <2>1, <2>2, <2>6 DEF CopyCounts
    <2>8. ASSUME NEW i \in Incidents PROVE Counted(i)'
      <3>1. Owed(i) = 0 /\ Flying(i) = 0
        BY <1>d, <2>1, <2>2, Alone DEF HasPending
      <3>2. Owed(i)' = 0 /\ Flying(i)' = 0
        BY <1>m, <1>o, <2>1 DEF Owed, Flying, InFlight
      <3>3. Counted(i)
        BY <1>c
      <3> QED BY <1>t, <2>1, <3>1, <3>2, <3>3, CounterTypes DEF Counted
    <2> QED BY <1>d, <1>k, <2>1, <2>7, <2>8, AccountGlue
  <1>16. CASE ExecuteStrategy(p)
    <2>1. /\ pc[p] = "execute" /\ UNCHANGED <<incidents, intents, crashes>>
          /\ pc' = [pc EXCEPT ![p] = "mark"]
      BY <1>16 DEF ExecuteStrategy, stores
    <2>2. /\ loc[p].id \in Incidents /\ loc[p].intent \in OrphanedPending
          /\ intents[loc[p].intent].incident = loc[p].id
          /\ Len(loc[p].row.attempts) = Len(incidents[loc[p].id].attempts)
      BY <1>c, <1>h, <2>1 DEF CopyCounts, HasRow, HoldsIncident, Leased, IntentInHand
    <2>3. \A i \in Incidents : executed'[i] =
             IF i = loc[p].id THEN executed[i] + 1 ELSE executed[i]
      BY <1>16, <1>t, <2>2, RunsCount DEF ExecuteStrategy
    <2>4. PICK ok \in BOOLEAN : loc' = [loc EXCEPT ![p] = [loc[p] EXCEPT !.ok = ok,
                !.row.attempts = RecordAttempt(@, loc[p].strategy, EvidenceDigest(loc[p].id)),
                !.row.remediated = TRUE]]
      BY <1>16 DEF ExecuteStrategy
    <2>5. PICK l : l = [loc[p] EXCEPT !.ok = ok,
                !.row.attempts = RecordAttempt(@, loc[p].strategy, EvidenceDigest(loc[p].id)),
                !.row.remediated = TRUE]
      OBVIOUS
    <2>6. /\ l.id = loc[p].id
          /\ l.row.attempts = RecordAttempt(loc[p].row.attempts, loc[p].strategy,
                                            EvidenceDigest(loc[p].id))
      BY <1>l, <2>5 DEF Locals, Rows
    <2>7. Len(l.row.attempts) = Len(loc[p].row.attempts) + 1
      BY <1>l, <2>6 DEF RecordAttempt, Rows
    <2>8. loc'[p] = l
      BY <1>n, <2>4, <2>5
    <2>9. loc'[p].id = loc[p].id /\ CopyCounts(p)'
      BY <1>m, <2>1, <2>2, <2>6, <2>7, <2>8 DEF CopyCounts
    <2>10. ASSUME NEW i \in Incidents PROVE Counted(i)'
      <3>1. Owed(i) = 0 /\ Flying(i) = 0
        BY <1>d, <2>1, Alone
      <3>2. Owed(i)' = 0 /\ Flying(i)' = IF loc[p].id = i THEN 1 ELSE 0
        BY <1>m, <1>o, <2>1, <2>9 DEF Owed, Flying, InFlight
      <3>3. Counted(i)
        BY <1>c
      <3>4. /\ executed[i] \in Nat /\ crashes \in Nat /\ Len(incidents[i].attempts) \in Nat
            /\ Owed(i) \in {0, 1} /\ Flying(i) \in {0, 1}
        BY <1>t, CounterTypes
      <3>5. CASE i = loc[p].id
        <4>1. Flying(i)' = 1 /\ executed'[i] = executed[i] + 1
          BY <2>3, <3>1, <3>2, <3>5
        <4>2. executed'[i] + 0 <= Len(incidents'[i].attempts) + 1 + 2 * crashes'
          BY <2>1, <3>1, <3>3, <3>4, <4>1, Sums DEF Counted
        <4> QED BY <2>1, <3>2, <4>1, <4>2 DEF Counted
      <3>6. CASE i # loc[p].id
        <4>1. Flying(i)' = 0 /\ executed'[i] = executed[i]
          BY <2>3, <3>2, <3>6
        <4>2. executed[i] + 0 <= Len(incidents[i].attempts) + 0 + 2 * crashes
          BY <3>1, <3>3 DEF Counted
        <4> QED BY <2>1, <3>2, <4>1, <4>2 DEF Counted
      <3> QED BY <3>5, <3>6
    <2> QED BY <1>d, <1>k, <2>1, <2>9, <2>10, AccountGlue
  <1>17. CASE SaveRemediation(p)
    <2>1. /\ pc[p] = "save" /\ UNCHANGED <<intents, executed, crashes>>
          /\ pc' = [pc EXCEPT ![p] = "done"]
      BY <1>17 DEF SaveRemediation, EndTick
    <2>2. /\ loc[p].id \in Incidents /\ loc[p].row.status = "OPEN" /\ OrphanedPending = {}
          /\ Len(loc[p].row.attempts) = Len(incidents[loc[p].id].attempts) + 1
      BY <1>c, <1>h, <2>1
      DEF CopyCounts, HasRow, HoldsIncident, IncidentInHand, Leased, IntentInHand,
          NothingPending
    <2>3. PICK row : row = [loc[p].row EXCEPT
             !.burnIn = EvaluateBurnIn(InitialBurnIn, worker.units, loc[p].ok,
                                       loc[p].at, loc[p].ok)]
      OBVIOUS
    <2>4. row.attempts = loc[p].row.attempts /\ row.status = "OPEN"
      BY <1>l, <2>2, <2>3 DEF Rows
    <2>5. incidents' = [incidents EXCEPT ![loc[p].id] = row]
      BY <1>17, <2>3 DEF SaveRemediation
    <2>6. /\ \A i \in Incidents : incidents'[i] = IF i = loc[p].id THEN row ELSE incidents[i]
          /\ \A i \in Incidents : incidents'[i].status = "NONE" => incidents'[i].attempts = << >>
      BY <1>t, <2>4, <2>5 DEF AccountInv, TypeOK
    <2>7. CopyCounts(p)'
      BY <1>m, <2>1 DEF CopyCounts
    <2>8. ASSUME NEW i \in Incidents PROVE Counted(i)'
      <3>1. Len(incidents'[i].attempts) = IF i = loc[p].id THEN Len(incidents[i].attempts) + 1
                                                           ELSE Len(incidents[i].attempts)
        BY <2>2, <2>4, <2>6
      <3>2. /\ Owed(i) = 0
            /\ Flying(i) = IF loc[p].id = i THEN 1 ELSE 0
        BY <1>d, <2>1, <2>2, Alone DEF HasPending
      <3>3. Owed(i)' = 0 /\ Flying(i)' = 0
        BY <1>m, <1>o, <2>1, <2>2
        DEF Owed, Flying, InFlight, HasPending, OrphanedPending
      <3>4. Counted(i)
        BY <1>c
      <3>5. /\ executed[i] \in Nat /\ crashes \in Nat /\ Len(incidents[i].attempts) \in Nat
            /\ Owed(i) \in {0, 1} /\ Flying(i) \in {0, 1}
        BY <1>t, CounterTypes
      <3>6. executed[i] + 0 <= Len(incidents'[i].attempts) + 0 + 2 * crashes
        <4>1. CASE i = loc[p].id
          <5>1. executed[i] + 0 <= Len(incidents[i].attempts) + 1 + 2 * crashes
            BY <3>2, <3>4, <4>1 DEF Counted
          <5>2. executed[i] + 0 <= (Len(incidents[i].attempts) + 1) + 0 + 2 * crashes
            BY <3>5, <5>1, Sums
          <5> QED BY <3>1, <4>1, <5>2
        <4>2. CASE i # loc[p].id
          BY <3>1, <3>2, <3>4, <4>2 DEF Counted
        <4> QED BY <4>1, <4>2
      <3> QED BY <2>1, <3>2, <3>3, <3>4, <3>6 DEF Counted
    <2> QED BY <1>d, <2>1, <2>6, <2>7, <2>8, AccountGlue
  <1>18. CASE Crash(p)
    <2>1. /\ UNCHANGED <<incidents, intents, executed>> /\ crashes' = crashes + 1
          /\ pc' = [pc EXCEPT ![p] = "down"]
      BY <1>18 DEF Crash, stores
    <2>2. CopyCounts(p)'
      BY <1>m, <2>1 DEF CopyCounts
    <2>3. ASSUME NEW i \in Incidents PROVE Counted(i)'
      <3>1. Owed(i)' \in {0, 1}
        BY <2>1 DEF Owed
      <3>2. Flying(i)' \in {0, 1} /\ Counted(i)
        BY <1>c DEF Flying
      <3>5. /\ executed[i] \in Nat /\ crashes \in Nat /\ Len(incidents[i].attempts) \in Nat
            /\ Owed(i) \in {0, 1} /\ Flying(i) \in {0, 1}
        BY <1>t, CounterTypes
      <3>6. executed'[i] + Owed(i)' <= Len(incidents'[i].attempts) + Flying(i)' + 2 * crashes'
        BY <2>1, <3>1, <3>2, <3>5, Sums DEF Counted
      <3> QED BY <3>6 DEF Counted
    <2> QED BY <1>d, <1>k, <2>1, <2>2, <2>3, AccountGlue
  <1>19. ASSUME NEW k \in Intents, OrphanObserved(p, k) PROVE AccountInv'
    <2>1. UNCHANGED <<incidents, intents, executed, crashes, pc>> /\ pc[p] = "orphans"
      BY <1>19 DEF OrphanObserved, stores
    <2>2. pc' = [pc EXCEPT ![p] = "orphans"]
      BY <1>t, <2>1 DEF TypeOK
    <2> QED BY <1>d, <1>k, <2>1, <2>2, RestAccount DEF Counting, Resting
  <1>20. ~Status(p)
    BY <1>d DEF Status
  <1> QED
    BY <1>1, <1>2, <1>3, <1>4, <1>5, <1>6, <1>7, <1>8, <1>9, <1>10, <1>11, <1>12, <1>13,
       <1>14, <1>15, <1>16, <1>17, <1>18, <1>19, <1>20
    DEF Process, Step

\* So does every step.
LEMMA AccountNext ==
    ASSUME SupervisorsOnly, AccountInv, [Next]_vars PROVE AccountInv'
  <1>1. SafeInv'
    BY SafeNext DEF AccountInv
  <1>2. ASSUME NEW p \in Procs, Process(p) PROVE AccountInv'
    BY <1>1, <1>2, AccountProcess
  <1>3. CASE OperatorClears \/ Worker \/ ClockTicks \/ UNCHANGED vars
    <2>1. UNCHANGED <<incidents, intents, executed, crashes, pc, loc>>
      BY <1>3 DEF OperatorClears, Worker, ClockTicks, vars, stores
    <2> QED BY <1>1, <2>1
        DEF AccountInv, CopyCounts, Counted, Owed, Flying, InFlight, HasPending,
            OrphanedPending
  <1> QED BY <1>2, <1>3 DEF Next

\* Recovery attempts are accounted for: of what ran, a crash loses at most one attempt
\* and repeats at most one.
THEOREM AttemptsAccountedHolds ==
    ASSUME SupervisorsOnly PROVE Spec => []AttemptsAccounted
  <1>1. AccountInv => AttemptsAccounted
    <2> SUFFICES ASSUME AccountInv, NEW i \in Incidents
                 PROVE  executed[i] <= Len(incidents[i].attempts)
                                       + Cardinality(InFlight(i)) + 2 * crashes
      BY DEF AttemptsAccounted
    <2>1. Cardinality(InFlight(i)) = Flying(i)
      <3>1. \A p, q \in InFlight(i) : p = q
        BY DEF AccountInv, SafeInv, LeasedInv, Leased, InFlight, Supervisor
      <3>2. CASE InFlight(i) = {}
        BY <3>2, FS_EmptySet DEF Flying
      <3>3. CASE InFlight(i) # {}
        <4>1. PICK p \in InFlight(i) : TRUE
          BY <3>3
        <4>2. InFlight(i) = {p}
          BY <3>1, <4>1
        <4> QED BY <3>3, <4>2, FS_Singleton DEF Flying
      <3> QED BY <3>2, <3>3
    <2>2. Counted(i) /\ TypeInv
      BY DEF AccountInv, SafeInv, LeasedInv
    <2>3. /\ executed[i] \in Nat /\ crashes \in Nat /\ Len(incidents[i].attempts) \in Nat
          /\ Owed(i) \in {0, 1} /\ Flying(i) \in {0, 1}
      BY <2>2, CounterTypes
    <2> QED BY <2>1, <2>2, <2>3 DEF Counted
  <1> QED BY <1>1, AccountInit, AccountNext, PTL DEF Spec

-------------------------------------------------------------------------------
\* The engine implements IncidentLifecycle.

RefineInv == AccountInv /\ RowsInv

PhaseOf == [i \in Incidents |-> Phase(incidents[i])]
TriesOf == [i \in Incidents |-> Len(incidents[i].attempts)]

\* Writing one row changes the phase and the tries of that incident only.
LEMMA OnePhase ==
    ASSUME TypeInv, NEW i \in Incidents, NEW row, incidents' = [incidents EXCEPT ![i] = row]
    PROVE  PhaseOf[i] = Phase(incidents[i]) /\ PhaseOf' = [PhaseOf EXCEPT ![i] = Phase(row)]
  BY DEF TypeInv, TypeOK, PhaseOf

\* A write of one row changes only its number of attempts in the abstract state.
LEMMA OneTries ==
    ASSUME TypeInv, NEW i \in Incidents, NEW row, incidents' = [incidents EXCEPT ![i] = row]
    PROVE  /\ TriesOf[i] = Len(incidents[i].attempts)
           /\ TriesOf' = [TriesOf EXCEPT ![i] = Len(row.attempts)]
  BY DEF TypeInv, TypeOK, TriesOf

\* A write that leaves status, mark and number of attempts is a stutter; one that marks
\* an open incident blocked blocks it.
LEMMA WriteRefines ==
    ASSUME TypeInv, NEW i \in Incidents, NEW row, incidents' = [incidents EXCEPT ![i] = row],
           incidents[i].status = "OPEN", row.status = "OPEN",
           row.blocked \in BOOLEAN, incidents[i].blocked => row.blocked,
           Len(row.attempts) = Len(incidents[i].attempts)
    PROVE  [Lifecycle!Next]_<<PhaseOf, TriesOf>>
  <1>1. TriesOf' = TriesOf
    BY OnePhase, OneTries DEF TriesOf
  <1>2. /\ Phase(row) = IF row.blocked THEN "blocked" ELSE "open"
        /\ Phase(incidents[i]) = IF incidents[i].blocked THEN "blocked" ELSE "open"
    BY DEF Phase, TypeInv, TypeOK, Rows
  <1>b. incidents[i].blocked \in BOOLEAN
    BY DEF TypeInv, TypeOK, Rows
  <1>3. CASE row.blocked = incidents[i].blocked
    <2>1. PhaseOf' = PhaseOf
      BY <1>2, <1>3, OnePhase, OneTries DEF PhaseOf
    <2> QED BY <1>1, <2>1
  <1>4. CASE row.blocked /\ ~incidents[i].blocked
    <2>0. Phase(row) = "blocked" /\ Phase(incidents[i]) = "open"
      BY <1>2, <1>4
    <2>a. PhaseOf[i] = Phase(incidents[i]) /\ PhaseOf' = [PhaseOf EXCEPT ![i] = Phase(row)]
      BY OnePhase
    <2>1. PhaseOf[i] = "open" /\ PhaseOf' = [PhaseOf EXCEPT ![i] = "blocked"]
      BY <2>0, <2>a
    <2>2. Lifecycle!Block(i)
      BY <1>1, <2>1 DEF Lifecycle!Block, PhaseOf, TriesOf
    <2> QED BY <2>2 DEF Lifecycle!Next, PhaseOf, TriesOf
  <1> QED BY <1>b, <1>3, <1>4

\* One more recorded attempt of an open incident that has tries left.
LEMMA AttemptRefines ==
    ASSUME NEW i \in Incidents, PhaseOf[i] = "open", PhaseOf' = PhaseOf,
           TriesOf[i] < MaxAttempts, TriesOf' = [TriesOf EXCEPT ![i] = @ + 1]
    PROVE  [Lifecycle!Next]_<<PhaseOf, TriesOf>>
  <1>1. Lifecycle!Attempt(i)
    BY DEF Lifecycle!Attempt, PhaseOf, TriesOf
  <1> QED BY <1>1 DEF Lifecycle!Next

\* What the stores do not show is a stutter.
LEMMA StoresStutter ==
    ASSUME UNCHANGED incidents PROVE [Lifecycle!Next]_<<PhaseOf, TriesOf>>
  BY DEF PhaseOf, TriesOf

\* Every step of a process is a step of the lifecycle or none.
LEMMA RefineProcess ==
    ASSUME SupervisorsOnly, RefineInv, NEW p \in Procs, Process(p)
    PROVE  [Lifecycle!Next]_<<PhaseOf, TriesOf>>
  <1>t. TypeInv /\ TypeOK /\ Bookkeeping
    BY DEF RefineInv, RowsInv, TypeInv
  <1>l. loc[p] \in Locals /\ loc[p].row \in Rows
    BY <1>t DEF TypeOK, Locals
  <1>h. /\ IncidentInHand(p) /\ CopyCounts(p)
        /\ HasRow(p) => loc[p].id \in Incidents
        /\ loc[p].id \in Incidents => Good(loc[p].id, loc[p].row)
    BY <1>t, RowInTable DEF RefineInv, AccountInv, RowsInv, GoodCopy, SafeInv
  <1>1. CASE BlockOpenIncident(p) \/ RefuseRemediation(p) \/ OrphanBlock(p)
    <2>1. PICK row : row = [loc[p].row EXCEPT !.blocked = TRUE]
      OBVIOUS
    <2>2. /\ incidents' = [incidents EXCEPT ![loc[p].id] = row]
          /\ pc[p] \in {"remediate", "orphan_block"} \/ (pc[p] = "decide" /\ loc[p].id # NoIncident)
      BY <1>1, <2>1 DEF BlockOpenIncident, RefuseRemediation, OrphanBlock, Save, NoneOpen
    <2>3. /\ loc[p].id \in Incidents /\ loc[p].row.status = "OPEN"
          /\ incidents[loc[p].id].status = "OPEN"
          /\ Len(loc[p].row.attempts) = Len(incidents[loc[p].id].attempts)
      BY <1>h, <1>l, <2>2 DEF CopyCounts, IncidentInHand, HasRow, HoldsIncident, Locals
    <2>4. row.status = "OPEN" /\ row.blocked = TRUE /\ row.attempts = loc[p].row.attempts
      BY <1>l, <2>1, <2>3 DEF Rows
    <2> QED BY <1>t, <2>2, <2>3, <2>4, WriteRefines
  <1>2. CASE FillIncident(p)
    <2>1. pc[p] = "fill" /\ incidents' = [incidents EXCEPT ![loc[p].id] = loc[p].row]
      BY <1>2 DEF FillIncident
    <2>2. /\ loc[p].id \in Incidents /\ loc[p].row.status = "OPEN"
          /\ incidents[loc[p].id].status = "OPEN"
          /\ loc[p].row.blocked = incidents[loc[p].id].blocked
          /\ Len(loc[p].row.attempts) = Len(incidents[loc[p].id].attempts)
      BY <1>h, <2>1 DEF CopyCounts, IncidentInHand, HasRow, HoldsIncident
    <2>3. loc[p].row.blocked \in BOOLEAN
      BY <1>l DEF Rows
    <2> QED BY <1>t, <2>1, <2>2, <2>3, WriteRefines
  <1>3. CASE AdvanceBurnIn(p)
    <2>1. pc[p] = "decide" /\ loc[p].id # NoIncident
      BY <1>3 DEF AdvanceBurnIn, NoneOpen
    <2>2. PICK burnIn : incidents' = [incidents EXCEPT
                            ![loc[p].id] = [loc[p].row EXCEPT !.burnIn = burnIn]]
      BY <1>3 DEF AdvanceBurnIn
    <2>3. /\ loc[p].id \in Incidents /\ loc[p].row.status = "OPEN"
          /\ incidents[loc[p].id].status = "OPEN"
          /\ loc[p].row.blocked = incidents[loc[p].id].blocked
          /\ Len(loc[p].row.attempts) = Len(incidents[loc[p].id].attempts)
      BY <1>h, <1>l, <2>1 DEF CopyCounts, IncidentInHand, HasRow, Locals
    <2>4. PICK row : row = [loc[p].row EXCEPT !.burnIn = burnIn]
      OBVIOUS
    <2>5. /\ row.status = "OPEN" /\ row.attempts = loc[p].row.attempts
          /\ row.blocked = loc[p].row.blocked /\ row.blocked \in BOOLEAN
      BY <1>l, <2>3, <2>4 DEF Rows
    <2> QED BY <1>t, <2>2, <2>3, <2>4, <2>5, WriteRefines
  <1>4. ASSUME NEW i \in Incidents, OpenIncident(p, i)
        PROVE  [Lifecycle!Next]_<<PhaseOf, TriesOf>>
    <2>1. /\ pc[p] = "decide" /\ loc[p].id = NoIncident /\ incidents[i].status = "NONE"
      BY <1>4 DEF OpenIncident, NoneOpen, IsFirst, Fresh
    <2>2. PICK row : row = [NewRow EXCEPT !.status = "OPEN", !.openedAt = now,
                                          !.symptom = Symptom(p)]
      OBVIOUS
    <2>3. row.status = "OPEN" /\ row.blocked = FALSE /\ Len(row.attempts) = 0
      BY <2>2 DEF NewRow
    <2>4. incidents' = [incidents EXCEPT ![i] = row]
      BY <1>4, <2>2 DEF OpenIncident
    <2>5. OpenIncidents = {} /\ Len(incidents[i].attempts) = 0
      BY <1>h, <2>1 DEF IncidentInHand, RefineInv, AccountInv
    <2>6. \A j \in Incidents : PhaseOf[j] \notin {"open", "blocked"}
      BY <1>t, <2>5 DEF OpenIncidents, PhaseOf, Phase, TypeOK, Rows
    <2>7. Phase(incidents[i]) = "none" /\ Phase(row) = "open"
      BY <2>1, <2>3 DEF Phase
    <2>8. PhaseOf[i] = "none" /\ PhaseOf' = [PhaseOf EXCEPT ![i] = "open"]
      BY <1>t, <2>4, <2>7, OnePhase, OneTries
    <2>9. TriesOf' = TriesOf
      BY <1>t, <2>3, <2>4, <2>5, OnePhase, OneTries DEF TriesOf
    <2>10. Lifecycle!Open(i)
      BY <2>6, <2>8, <2>9 DEF Lifecycle!Open, Lifecycle!Live, PhaseOf, TriesOf
    <2> QED BY <2>10 DEF Lifecycle!Next, PhaseOf, TriesOf
  <1>5. CASE CloseIncident(p) /\ ~ObserveOnly(p)
    <2>1. pc[p] = "close" /\ incidents' = [incidents EXCEPT ![loc[p].id] = Closed(loc[p].row)]
      BY <1>5 DEF CloseIncident
    <2>2. /\ loc[p].id \in Incidents /\ incidents[loc[p].id].status = "OPEN"
          /\ Len(loc[p].row.attempts) = Len(incidents[loc[p].id].attempts)
          /\ Good(loc[p].id, loc[p].row) /\ loc[p].row.burnIn.level = "STABLE"
      BY <1>h, <2>1 DEF CopyCounts, IncidentInHand, HasRow, HoldsIncident, RefineInv, RowsInv, GoodCopy
    <2>3. Len(incidents[loc[p].id].attempts) > 0
      BY <2>2 DEF Good, Earned
    <2>4. Closed(loc[p].row).status = "CLOSED"
          /\ Closed(loc[p].row).attempts = loc[p].row.attempts
      BY <1>l DEF Closed, Rows
    <2>5. /\ Phase(incidents[loc[p].id]) \in {"open", "blocked"}
          /\ Phase(Closed(loc[p].row)) = "closed"
      BY <1>t, <2>2, <2>4 DEF Phase, TypeOK, Rows
    <2>a. /\ PhaseOf[loc[p].id] = Phase(incidents[loc[p].id])
          /\ PhaseOf' = [PhaseOf EXCEPT ![loc[p].id] = Phase(Closed(loc[p].row))]
      BY <1>t, <2>1, <2>2, OnePhase
    <2>b. TriesOf[loc[p].id] = Len(incidents[loc[p].id].attempts)
      BY <2>2 DEF TriesOf
    <2>6. /\ PhaseOf[loc[p].id] \in {"open", "blocked"} /\ TriesOf[loc[p].id] > 0
          /\ PhaseOf' = [PhaseOf EXCEPT ![loc[p].id] = "closed"]
      BY <2>3, <2>5, <2>a, <2>b
    <2>7. TriesOf' = TriesOf
      BY <1>t, <2>1, <2>2, <2>4, OnePhase, OneTries DEF TriesOf
    <2>8. Lifecycle!Close(loc[p].id)
      BY <2>6, <2>7 DEF Lifecycle!Close, Lifecycle!Live, PhaseOf, TriesOf
    <2> QED BY <2>2, <2>8 DEF Lifecycle!Next, PhaseOf, TriesOf
  <1>6. CASE SaveRemediation(p)
    <2>1. PICK burnIn : /\ pc[p] = "save"
                        /\ incidents' = [incidents EXCEPT
                              ![loc[p].id] = [loc[p].row EXCEPT !.burnIn = burnIn]]
      BY <1>6 DEF SaveRemediation
    <2>2. /\ loc[p].id \in Incidents /\ incidents[loc[p].id].status = "OPEN"
          /\ loc[p].row.status = "OPEN" /\ ~loc[p].row.blocked
          /\ loc[p].row.blocked = incidents[loc[p].id].blocked
          /\ Len(loc[p].row.attempts) = Len(incidents[loc[p].id].attempts) + 1
          /\ Len(loc[p].row.attempts) <= MaxAttempts
      BY <1>h, <2>1 DEF CopyCounts, IncidentInHand, HasRow, HoldsIncident, Good, WithinBudget
    <2>3. PICK row : row = [loc[p].row EXCEPT !.burnIn = burnIn]
      OBVIOUS
    <2>4. /\ row.status = "OPEN" /\ ~row.blocked /\ row.attempts = loc[p].row.attempts
      BY <1>l, <2>2, <2>3 DEF Rows
    <2>5. Phase(incidents[loc[p].id]) = "open" /\ Phase(row) = "open"
      BY <2>2, <2>4 DEF Phase
    <2>6. PhaseOf[loc[p].id] = "open" /\ PhaseOf' = PhaseOf
      BY <1>t, <2>1, <2>2, <2>3, <2>5, OnePhase, OneTries DEF PhaseOf
    <2>7. /\ TriesOf[loc[p].id] < MaxAttempts
          /\ TriesOf' = [TriesOf EXCEPT ![loc[p].id] = @ + 1]
      <3>1. Len(incidents[loc[p].id].attempts) \in Nat
        BY <1>t, <2>2 DEF TypeOK, Rows
      <3>2. Len(incidents[loc[p].id].attempts) < MaxAttempts
        BY <2>2, <3>1, BudgetAssumption
      <3>3. /\ TriesOf[loc[p].id] = Len(incidents[loc[p].id].attempts)
            /\ TriesOf' = [TriesOf EXCEPT ![loc[p].id] = Len(row.attempts)]
        BY <1>t, <2>1, <2>2, <2>3, OneTries
      <3>4. Len(row.attempts) = TriesOf[loc[p].id] + 1
        BY <2>2, <2>4, <3>3
      <3> QED BY <3>2, <3>3, <3>4
    <2> QED BY <2>2, <2>6, <2>7, AttemptRefines
  <1>7. \/ UNCHANGED incidents
        \/ BlockOpenIncident(p) \/ RefuseRemediation(p) \/ OrphanBlock(p)
        \/ FillIncident(p) \/ AdvanceBurnIn(p) \/ SaveRemediation(p)
        \/ (CloseIncident(p) /\ ~ObserveOnly(p))
        \/ \E i \in Incidents : OpenIncident(p, i)
    BY DEF Process, Step, Startup, Status, Leave, Crash, OrphanRefused, OrphanObserved,
        OrphanExecute, OrphanMark, OrphansDone, LeaseLost, StayBlocked, Tick, Inspect,
        ListOpen, StartRemediation, Quiet, NextTick, CreateIntent,
        WouldRemediate, ExecuteStrategy, MarkIntent, MarkBlocked, CloseIncident, stores
  <1> QED BY <1>1, <1>2, <1>3, <1>4, <1>5, <1>6, <1>7, StoresStutter

\* Without the status command, crashes included, the engine implements the lifecycle: one
\* incident at a time, tried at most max_attempts times and only while it is not blocked,
\* closed only after a recovery.
THEOREM ImplementsLifecycleHolds ==
    ASSUME SupervisorsOnly PROVE Spec => ImplementsLifecycle
  <1>1. Init => Lifecycle!Init
    BY DEF Init, Lifecycle!Init, NewRow, Phase
  <1>2. RefineInv /\ [Next]_vars => [Lifecycle!Next]_<<PhaseOf, TriesOf>>
    <2> SUFFICES ASSUME RefineInv, [Next]_vars
                 PROVE  [Lifecycle!Next]_<<PhaseOf, TriesOf>>
      OBVIOUS
    <2>1. ASSUME NEW p \in Procs, Process(p) PROVE [Lifecycle!Next]_<<PhaseOf, TriesOf>>
      BY <2>1, RefineProcess
    <2>2. CASE OperatorClears \/ Worker \/ ClockTicks \/ UNCHANGED vars
      BY <2>2, StoresStutter DEF OperatorClears, Worker, ClockTicks, vars, stores
    <2> QED BY <2>1, <2>2 DEF Next
  <1>3. Init => RefineInv
    BY AccountInit, RowsInit DEF RefineInv
  <1>4. RefineInv /\ [Next]_vars => RefineInv'
    BY AccountNext, RowsNext DEF RefineInv
  <1>5. RefineInv /\ [Next]_vars => [Lifecycle!Next]_
           <<[i \in Incidents |-> Phase(incidents[i])],
             [i \in Incidents |-> Len(incidents[i].attempts)]>>
    BY <1>2 DEF PhaseOf, TriesOf
  <1> QED BY <1>1, <1>3, <1>4, <1>5, PTL DEF Spec, ImplementsLifecycle, Lifecycle!Spec
===============================================================================
