------------------------- MODULE IncidentEngineProofs -------------------------
(* Theorems about IncidentEngine, for every value of its constants. *)
EXTENDS IncidentEngine, FiniteSetTheorems, TLAPS

-------------------------------------------------------------------------------
\* Facts about the operators the actions are built from.

\* evaluate_burn_in returns a burn-in record of this module's types.
LEMMA BurnInType ==
    ASSUME NEW state \in BurnIns, NEW units \in 0 .. MaxUnits, NEW t \in Time,
           NEW ok \in BOOLEAN, NEW patched \in BOOLEAN
    PROVE  EvaluateBurnIn(state, units, ok, t, patched) \in BurnIns
  <1>1. MarkPatched(state, patched) \in BurnIns
    BY DEF MarkPatched, BurnIns, Levels
  <1>2. ASSUME NEW s \in BurnIns
        PROVE  MarkVerified(s, units, ok, t) \in BurnIns
    BY DEF MarkVerified, BurnIns, Levels
  <1>3. ASSUME NEW s \in BurnIns
        PROVE  MarkStable(s, units, t) \in BurnIns
    BY DEF MarkStable, Stabilised, BurnIns, Levels
  <1> QED
    BY <1>1, <1>2, <1>3 DEF EvaluateBurnIn

\* next_strategy returns a strategy of the ladder, or none.
LEMMA NextStrategyType ==
    ASSUME NEW attempts, NEW digest, NEW elapsed
    PROVE  NextStrategy(attempts, digest, elapsed) \in Strategies \cup {NoStrategy}
  BY DEF NextStrategy, Strategies

\* The empty rows and locals have their types.
LEMMA InitialTypes ==
    /\ InitialBurnIn \in BurnIns
    /\ NewRow \in Rows
    /\ NewIntent \in IntentRows
    /\ NoObs \in Observations
    /\ IdleLoc \in Locals
  <1>1. 0 \in Time /\ 0 \in 0 .. MaxUnits
    BY EngineAssumption DEF Time
  <1>2. InitialBurnIn \in BurnIns
    BY <1>1 DEF InitialBurnIn, BurnIns, Levels
  <1>3. NewRow \in Rows
    BY <1>1, <1>2 DEF NewRow, Rows
  <1>4. NewIntent \in IntentRows
    BY DEF NewIntent, IntentRows
  <1>5. NoObs \in Observations
    BY <1>1 DEF NoObs, Observations
  <1>6. IdleLoc \in Locals
    BY <1>1, <1>3, <1>5 DEF IdleLoc, Locals, Validities
  <1> QED
    BY <1>2, <1>3, <1>4, <1>5, <1>6

-------------------------------------------------------------------------------
\* Type correctness.

\* What the types of the actions rest on besides TypeOK: an intent that exists
\* names an incident and a strategy, the orphans still to do exist, and past
\* the decision a process has an incident in hand.
HoldsIncident == {"orphan_block", "fill", "remediate", "execute", "mark", "save", "close"}

Bookkeeping ==
    /\ \A k \in Intents : intents[k].status # "NONE" =>
          intents[k].incident \in Incidents /\ intents[k].strategy \in Strategies
    /\ \A p \in Procs :
          /\ \A k \in loc[p].todo : intents[k].status # "NONE"
          /\ pc[p] \in HoldsIncident => loc[p].id \in Incidents
          /\ pc[p] = "execute" => loc[p].strategy \in Strategies
          /\ loc[p].intent \in Intents => intents[loc[p].intent].status # "NONE"

TypeInv == TypeOK /\ Bookkeeping

\* The initial state has the types.
LEMMA TypeInit == Init => TypeInv
  <1> SUFFICES ASSUME Init PROVE TypeInv
    OBVIOUS
  <1>1. NoProc \in Procs \cup {NoProc} /\ 0 \in Time /\ 0 \in 0 .. MaxCrashes
    BY EngineAssumption DEF Time
  <1>2. TypeOK
    BY <1>1, InitialTypes DEF Init, TypeOK, Labels
  <1>3. Bookkeeping
    BY DEF Init, Bookkeeping, NewIntent, IdleLoc, HoldsIncident, NoIntent, Intents
  <1> QED
    BY <1>2, <1>3 DEF TypeInv

\* A step of process p that goes to label with locals l keeps the type invariant
\* when the parts it writes are typed.
LEMMA ProcessStep ==
    ASSUME TypeInv, NEW p \in Procs, NEW label \in Labels, NEW l \in Locals,
           pc' = [pc EXCEPT ![p] = label], loc' = [loc EXCEPT ![p] = l],
           incidents' \in [Incidents -> Rows],
           intents' \in [Intents -> IntentRows],
           \A k \in Intents : intents'[k].status # "NONE" =>
              intents'[k].incident \in Incidents /\ intents'[k].strategy \in Strategies,
           \A k \in Intents : intents[k].status # "NONE" => intents'[k].status # "NONE",
           escalated' \in BOOLEAN, worker' \in Observations, now' \in Time,
           holder' \in Procs \cup {NoProc}, crashes' \in 0 .. MaxCrashes,
           executed' \in [Incidents -> Nat],
           \A k \in l.todo : intents'[k].status # "NONE",
           label \in HoldsIncident => l.id \in Incidents,
           label = "execute" => l.strategy \in Strategies,
           l.intent \in Intents => intents'[l.intent].status # "NONE"
    PROVE  TypeInv'
  <1>1. TypeOK'
    BY DEF TypeInv, TypeOK
  <1>2. \A q \in Procs : loc[q].todo \subseteq Intents
    BY DEF TypeInv, TypeOK, Locals
  <1>3. ASSUME NEW q \in Procs
        PROVE  /\ \A k \in loc'[q].todo : intents'[k].status # "NONE"
               /\ pc'[q] \in HoldsIncident => loc'[q].id \in Incidents
               /\ pc'[q] = "execute" => loc'[q].strategy \in Strategies
               /\ loc'[q].intent \in Intents => intents'[loc'[q].intent].status # "NONE"
    <2>1. CASE q = p
      BY <2>1 DEF TypeInv, TypeOK
    <2>2. CASE q # p
      BY <2>2, <1>2 DEF TypeInv, TypeOK, Bookkeeping
    <2> QED
      BY <2>1, <2>2
  <1> QED
    BY <1>1, <1>3 DEF TypeInv, Bookkeeping

\* The same for a step that leaves intents.db alone.
LEMMA ProcessStepNoIntents ==
    ASSUME TypeInv, NEW p \in Procs, NEW label \in Labels, NEW l \in Locals,
           pc' = [pc EXCEPT ![p] = label], loc' = [loc EXCEPT ![p] = l],
           incidents' \in [Incidents -> Rows], intents' = intents,
           escalated' \in BOOLEAN, worker' \in Observations, now' = now,
           holder' \in Procs \cup {NoProc}, crashes' \in 0 .. MaxCrashes,
           executed' \in [Incidents -> Nat],
           l.todo \subseteq loc[p].todo \cup OrphanedPending,
           label \in HoldsIncident => l.id \in Incidents,
           label = "execute" => l.strategy \in Strategies,
           l.intent \in OrphanedPending \cup {loc[p].intent, NoIntent}
    PROVE  TypeInv'
  <1>1. intents' \in [Intents -> IntentRows] /\ now' \in Time
    BY DEF TypeInv, TypeOK
  <1>2. \A k \in l.todo : intents'[k].status # "NONE"
    BY DEF TypeInv, Bookkeeping, OrphanedPending
  <1>3. \A k \in Intents : intents'[k].status # "NONE" =>
              intents'[k].incident \in Incidents /\ intents'[k].strategy \in Strategies
    BY DEF TypeInv, Bookkeeping
  <1>4. l.intent \in Intents => intents'[l.intent].status # "NONE"
    BY DEF TypeInv, Bookkeeping, OrphanedPending, NoIntent, Intents
  <1> QED
    BY <1>1, <1>2, <1>3, <1>4, ProcessStep

\* A step that ends a tick keeps the types.
LEMMA EndTickStep ==
    ASSUME TypeInv, NEW p \in Procs, EndTick(p),
           incidents' \in [Incidents -> Rows], intents' = intents,
           escalated' = escalated, worker' = worker, now' = now,
           holder' = holder, crashes' = crashes, executed' = executed
    PROVE  TypeInv'
  <1>1. PICK l : l = [IdleLoc EXCEPT !.auth = loc[p].auth]
    OBVIOUS
  <1>2. loc[p].auth \in BOOLEAN
    BY DEF TypeInv, TypeOK, Locals
  <1>3. l \in Locals /\ l.todo = {} /\ l.intent = NoIntent
    BY <1>1, <1>2, InitialTypes DEF Locals, IdleLoc
  <1>4. pc' = [pc EXCEPT ![p] = "done"] /\ loc' = [loc EXCEPT ![p] = l]
    BY <1>1 DEF EndTick, Goto, SetLoc
  <1> QED
    BY <1>3, <1>4, ProcessStepNoIntents DEF TypeInv, TypeOK, Labels, HoldsIncident

\* The same for a step that leaves the run loop.
LEMMA ExitStep ==
    ASSUME TypeInv, NEW p \in Procs, Exit(p),
           incidents' = incidents, intents' = intents, escalated' \in BOOLEAN,
           worker' = worker, now' = now, crashes' = crashes, executed' = executed
    PROVE  TypeInv'
  <1>1. IdleLoc \in Locals /\ IdleLoc.todo = {} /\ IdleLoc.intent = NoIntent
    BY InitialTypes DEF IdleLoc
  <1>2. pc' = [pc EXCEPT ![p] = "down"] /\ loc' = [loc EXCEPT ![p] = IdleLoc]
    BY DEF Exit, Goto, SetLoc
  <1>3. holder' \in Procs \cup {NoProc}
    BY DEF Exit, TypeInv, TypeOK
  <1> QED
    BY <1>1, <1>2, <1>3, ProcessStepNoIntents DEF TypeInv, TypeOK, Labels, HoldsIncident

\* The same for a step that keeps all locals.
LEMMA StayStep ==
    ASSUME TypeInv, NEW p \in Procs, NEW label \in Labels,
           pc' = [pc EXCEPT ![p] = label], loc' = loc,
           label \in HoldsIncident => loc[p].id \in Incidents, label # "execute",
           incidents' \in [Incidents -> Rows], intents' = intents,
           escalated' = escalated, worker' = worker, now' = now,
           holder' = holder, crashes' = crashes, executed' = executed
    PROVE  TypeInv'
  <1>1. PICK l \in Locals : l = loc[p]
    BY DEF TypeInv, TypeOK
  <1>2. loc' = [loc EXCEPT ![p] = l]
    BY <1>1 DEF TypeInv, TypeOK
  <1> QED
    BY <1>1, <1>2, ProcessStepNoIntents DEF TypeInv, TypeOK

\* A step that settles intent k, which exists if it is an intent at all.
LEMMA SettleStep ==
    ASSUME TypeInv, NEW p \in Procs, NEW label \in Labels, NEW l \in Locals,
           NEW k, NEW s \in {"EXECUTED", "FAILED"},
           k \in Intents => intents[k].status # "NONE",
           pc' = [pc EXCEPT ![p] = label], loc' = [loc EXCEPT ![p] = l],
           intents' = [intents EXCEPT ![k].status = s],
           incidents' = incidents, escalated' = escalated, worker' = worker,
           now' = now, holder' = holder, crashes' = crashes, executed' = executed,
           l.todo \subseteq loc[p].todo, l.intent \in {k, loc[p].intent, NoIntent},
           label \in HoldsIncident => l.id \in Incidents, label # "execute"
    PROVE  TypeInv'
  <1>1. intents' \in [Intents -> IntentRows]
    BY DEF TypeInv, TypeOK, IntentRows
  <1>2. ASSUME NEW j \in Intents
        PROVE  /\ intents'[j].status # "NONE" <=> intents[j].status # "NONE"
               /\ intents'[j].incident = intents[j].incident
               /\ intents'[j].strategy = intents[j].strategy
    BY DEF TypeInv, TypeOK, IntentRows
  <1>3. \A j \in Intents : intents'[j].status # "NONE" =>
              intents'[j].incident \in Incidents /\ intents'[j].strategy \in Strategies
    BY <1>2 DEF TypeInv, Bookkeeping
  <1>4. ASSUME NEW j \in l.todo PROVE intents'[j].status # "NONE"
    <2>1. j \in Intents /\ intents[j].status # "NONE"
      BY DEF TypeInv, Bookkeeping, Locals
    <2> QED
      BY <2>1, <1>2
  <1>5. ASSUME l.intent \in Intents PROVE intents'[l.intent].status # "NONE"
    <2>1. intents[l.intent].status # "NONE"
      BY <1>5 DEF TypeInv, Bookkeeping, NoIntent, Intents
    <2> QED
      BY <1>5, <2>1, <1>2
  <1> QED
    BY <1>1, <1>2, <1>3, <1>4, <1>5, ProcessStep DEF TypeInv, TypeOK

\* A strategy leaves a worker of the right type, with no more units than before.
LEMMA StrategyRunsType ==
    ASSUME TypeInv, NEW i \in Incidents, NEW ok \in BOOLEAN, StrategyRuns(i, ok)
    PROVE  worker' \in Observations /\ executed' \in [Incidents -> Nat]
  <1>1. ASSUME NEW units \in 0 .. worker.units
        PROVE  [NoObs EXCEPT !.units = units] \in Observations
    <2>1. worker.units \in 0 .. MaxUnits
      BY DEF TypeInv, TypeOK, Observations
    <2>2. units \in 0 .. MaxUnits
      BY <2>1, EngineAssumption
    <2> QED
      BY <2>2 DEF NoObs, Observations
  <1>2. worker' \in Observations
    BY <1>1 DEF StrategyRuns, TypeInv, TypeOK
  <1>3. executed' \in [Incidents -> Nat]
    BY DEF StrategyRuns, TypeInv, TypeOK
  <1> QED
    BY <1>2, <1>3

\* Every step keeps the types.
LEMMA TypeNext ==
    ASSUME TypeInv, [Next]_vars PROVE TypeInv'
  <1> USE DEF SetLoc, Goto
  <1>t. TypeOK /\ Bookkeeping
    BY DEF TypeInv
  <1>l. \A p \in Procs : loc[p] \in Locals
    BY <1>t DEF TypeOK
  <1>1. ASSUME NEW p \in Procs, Startup(p) PROVE TypeInv'
    <2>1. PICK auth \in RestartAuthority :
             loc' = [loc EXCEPT ![p] = [IdleLoc EXCEPT !.auth = auth, !.todo = OrphanedPending]]
      BY <1>1 DEF Startup
    <2>2. PICK l : l = [IdleLoc EXCEPT !.auth = auth, !.todo = OrphanedPending]
      OBVIOUS
    <2>3. l \in Locals /\ l.todo = OrphanedPending /\ l.intent = NoIntent
      BY <2>2, EngineAssumption, InitialTypes DEF Locals, OrphanedPending, IdleLoc
    <2>4. loc' = [loc EXCEPT ![p] = l]
      BY <2>1, <2>2
    <2> QED
      BY <1>1, <1>t, <2>3, <2>4, ProcessStepNoIntents DEF Startup, TypeOK, Labels, stores, HoldsIncident
  <1>2. ASSUME NEW p \in Procs, Tick(p) PROVE TypeInv'
    <2>1. PICK validity \in ValidityOutcomes : loc' = [loc EXCEPT ![p] =
             [IdleLoc EXCEPT !.auth = loc[p].auth, !.obs = worker, !.at = now, !.validity = validity]]
      BY <1>2 DEF Tick, Inspect
    <2>2. PICK l : l = [IdleLoc EXCEPT !.auth = loc[p].auth, !.obs = worker, !.at = now,
                                       !.validity = validity]
      OBVIOUS
    <2>3. l \in Locals /\ l.todo = {} /\ l.intent = NoIntent
      BY <2>2, <1>t, <1>l, EngineAssumption, InitialTypes DEF Locals, IdleLoc, TypeOK
    <2>4. loc' = [loc EXCEPT ![p] = l]
      BY <2>1, <2>2
    <2> QED
      BY <1>2, <1>t, <2>3, <2>4, ProcessStepNoIntents
      DEF Tick, Inspect, TypeOK, Labels, stores, HoldsIncident
  <1>3. ASSUME NEW p \in Procs, Status(p) PROVE TypeInv'
    <2>0. PICK a \in BOOLEAN : Inspect(p, a)
      BY <1>3, EngineAssumption DEF Status
    <2>1. PICK validity \in ValidityOutcomes : loc' = [loc EXCEPT ![p] =
             [IdleLoc EXCEPT !.auth = a, !.obs = worker, !.at = now, !.validity = validity]]
      BY <2>0 DEF Inspect
    <2>2. PICK l : l = [IdleLoc EXCEPT !.auth = a, !.obs = worker, !.at = now,
                                       !.validity = validity]
      OBVIOUS
    <2>3. l \in Locals /\ l.todo = {} /\ l.intent = NoIntent
      BY <2>2, <1>t, <1>l, EngineAssumption, InitialTypes DEF Locals, IdleLoc, TypeOK
    <2>4. loc' = [loc EXCEPT ![p] = l]
      BY <2>1, <2>2
    <2> QED
      BY <2>0, <1>t, <2>3, <2>4, ProcessStepNoIntents
      DEF Inspect, TypeOK, Labels, stores, HoldsIncident
  <1>4. ASSUME NEW p \in Procs, LeaseLost(p) PROVE TypeInv'
    BY <1>4, ExitStep, <1>t DEF LeaseLost, stores, TypeOK
  <1>5. ASSUME NEW p \in Procs, StayBlocked(p) PROVE TypeInv'
    BY <1>5, ExitStep, <1>t DEF StayBlocked, stores, TypeOK
  <1>6. ASSUME NEW p \in Procs, Leave(p) PROVE TypeInv'
    BY <1>6, ExitStep, <1>t DEF Leave, stores, TypeOK
  <1>7. ASSUME NEW p \in Procs, MarkBlocked(p) PROVE TypeInv'
    BY <1>7, ExitStep, <1>t DEF MarkBlocked
  <1>8. ASSUME NEW p \in Procs, OrphansDone(p) PROVE TypeInv'
    BY <1>8, StayStep, <1>t DEF OrphansDone, stores, TypeOK, Labels, HoldsIncident
  <1>9. ASSUME NEW p \in Procs, StartRemediation(p) PROVE TypeInv'
    BY <1>9, StayStep, <1>t DEF StartRemediation, stores, TypeOK, Labels, HoldsIncident, NoneOpen, Locals
  <1>10. ASSUME NEW p \in Procs, NextTick(p) PROVE TypeInv'
    BY <1>10, StayStep, <1>t DEF NextTick, stores, TypeOK, Labels, HoldsIncident
  <1>11. ASSUME NEW p \in Procs, Quiet(p) PROVE TypeInv'
    BY <1>11, EndTickStep, <1>t DEF Quiet, stores, TypeOK
  <1>12. ASSUME NEW p \in Procs, WouldRemediate(p) PROVE TypeInv'
    BY <1>12, EndTickStep, <1>t DEF WouldRemediate, stores, TypeOK
  <1>13. ASSUME NEW p \in Procs, NEW k \in Intents, OrphanObserved(p, k) PROVE TypeInv'
    <2>1. PICK l : l = NextOrphan(p, k)
      OBVIOUS
    <2>2. l \in Locals /\ l.todo \subseteq loc[p].todo /\ l.intent = NoIntent
      BY <2>1, <1>l, <1>t DEF Locals, NextOrphan, NoIntent
    <2>3. loc' = [loc EXCEPT ![p] = l]
      BY <2>1, <1>13 DEF OrphanObserved
    <2>4. pc' = [pc EXCEPT ![p] = "orphans"]
      BY <1>13, <1>t DEF OrphanObserved, TypeOK
    <2> QED
      BY <1>13, <1>t, <2>2, <2>3, <2>4, ProcessStepNoIntents DEF OrphanObserved, stores, TypeOK, Labels, HoldsIncident
  <1>14. ASSUME NEW p \in Procs, OrphanBlock(p) PROVE TypeInv'
    <2>0. [loc[p].row EXCEPT !.blocked = TRUE] \in Rows
      BY <1>l DEF Locals, Rows
    <2>1. PICK l : l = NextOrphan(p, loc[p].intent)
      OBVIOUS
    <2>2. l \in Locals /\ l.todo \subseteq loc[p].todo /\ l.intent = NoIntent
      BY <2>1, <1>l, <1>t DEF Locals, NextOrphan, NoIntent
    <2>3. loc' = [loc EXCEPT ![p] = l]
      BY <2>1, <1>14 DEF OrphanBlock
    <2> QED
      BY <1>14, <1>t, <2>2, <2>3, <2>0, ProcessStepNoIntents DEF OrphanBlock, stores, TypeOK, Labels, HoldsIncident
  <1>15. ASSUME NEW p \in Procs, NEW k \in Intents, OrphanRefused(p, k) PROVE TypeInv'
    <2>0. intents[k].incident \in Incidents /\ intents[k].status # "NONE"
      BY <1>15, <1>t DEF OrphanRefused, IsFirst, Bookkeeping
    <2>1. PICK l : l = [loc[p] EXCEPT !.intent = k, !.id = intents[k].incident,
                                      !.row = incidents[intents[k].incident]]
      OBVIOUS
    <2>2. l \in Locals /\ l.todo = loc[p].todo /\ l.intent = k /\ l.id \in Incidents
      BY <2>0, <2>1, <1>l, <1>t DEF Locals, TypeOK
    <2>3. loc' = [loc EXCEPT ![p] = l]
      BY <2>1, <1>15 DEF OrphanRefused
    <2>4. /\ pc' = [pc EXCEPT ![p] = "orphan_block"] /\ incidents' = incidents
          /\ escalated' = escalated /\ worker' = worker /\ now' = now /\ holder' = holder
          /\ crashes' = crashes /\ executed' = executed
          /\ intents' = [intents EXCEPT ![k].status = "FAILED"]
      BY <1>15 DEF OrphanRefused
    <2>5. "orphan_block" \in Labels /\ "orphan_block" # "execute"
      BY DEF Labels
    <2> QED
      BY <2>0, <2>2, <2>3, <2>4, <2>5, SettleStep
  <1>16. ASSUME NEW p \in Procs, OrphanMark(p) PROVE TypeInv'
    <2>1. PICK l : l = NextOrphan(p, loc[p].intent)
      OBVIOUS
    <2>2. l \in Locals /\ l.todo \subseteq loc[p].todo /\ l.intent = NoIntent
      BY <2>1, <1>l DEF Locals, NextOrphan
    <2>3. loc' = [loc EXCEPT ![p] = l]
      BY <2>1, <1>16 DEF OrphanMark
    <2>4. PICK s \in {"EXECUTED", "FAILED"} :
             intents' = [intents EXCEPT ![loc[p].intent].status = s]
      BY <1>16 DEF OrphanMark, Settled
    <2>5. loc[p].intent \in Intents => intents[loc[p].intent].status # "NONE"
      BY <1>t DEF Bookkeeping
    <2>6. "orphans" \in Labels /\ "orphans" # "execute" /\ "orphans" \notin HoldsIncident
      BY DEF Labels, HoldsIncident
    <2>7. /\ pc' = [pc EXCEPT ![p] = "orphans"] /\ incidents' = incidents
          /\ escalated' = escalated /\ worker' = worker /\ now' = now /\ holder' = holder
          /\ crashes' = crashes /\ executed' = executed
      BY <1>16 DEF OrphanMark, Settled
    <2> QED
      BY <2>2, <2>3, <2>4, <2>5, <2>6, <2>7, SettleStep
  <1>17. ASSUME NEW p \in Procs, MarkIntent(p) PROVE TypeInv'
    <2>1. PICK l \in Locals : l = loc[p]
      BY <1>l
    <2>2. loc' = [loc EXCEPT ![p] = l]
      BY <2>1, <1>17, <1>t DEF MarkIntent, TypeOK
    <2>3. PICK s \in {"EXECUTED", "FAILED"} :
             intents' = [intents EXCEPT ![loc[p].intent].status = s]
      BY <1>17 DEF MarkIntent, Settled
    <2>4. loc[p].intent \in Intents => intents[loc[p].intent].status # "NONE"
      BY <1>t DEF Bookkeeping
    <2>5. l.id \in Incidents
      BY <2>1, <1>17, <1>t DEF MarkIntent, Bookkeeping, HoldsIncident
    <2>6. /\ pc' = [pc EXCEPT ![p] = "save"] /\ incidents' = incidents
          /\ escalated' = escalated /\ worker' = worker /\ now' = now /\ holder' = holder
          /\ crashes' = crashes /\ executed' = executed
      BY <1>17 DEF MarkIntent
    <2>7. "save" \in Labels /\ "save" # "execute"
      BY DEF Labels
    <2> QED
      BY <2>1, <2>2, <2>3, <2>4, <2>5, <2>6, <2>7, SettleStep
  <1>18. ASSUME NEW p \in Procs, NEW k \in Intents, CreateIntent(p, k) PROVE TypeInv'
    <2>0. Decision(p) \in Strategies /\ loc[p].id \in Incidents
      BY <1>18, <1>t, NextStrategyType DEF CreateIntent, Decision, Bookkeeping, HoldsIncident
    <2>1. PICK l : l = [loc[p] EXCEPT !.intent = k, !.strategy = Decision(p)]
      OBVIOUS
    <2>2. /\ l \in Locals /\ l.todo = loc[p].todo /\ loc[p].todo \subseteq Intents
          /\ l.intent = k /\ l.id = loc[p].id /\ l.strategy = Decision(p)
      BY <2>0, <2>1, <1>l, <1>t DEF Locals, TypeOK
    <2>3. loc' = [loc EXCEPT ![p] = l]
      BY <2>1, <1>18 DEF CreateIntent
    <2>4. PICK row : row = [status |-> "PENDING", incident |-> loc[p].id, strategy |-> Decision(p)]
      OBVIOUS
    <2>5. row \in IntentRows /\ row.incident \in Incidents /\ row.strategy \in Strategies
          /\ row.status = "PENDING"
      BY <2>0, <2>4 DEF IntentRows
    <2>6. intents' = [intents EXCEPT ![k] = row]
      BY <2>4, <1>18 DEF CreateIntent, PendingIntent
    <2>7. /\ intents' \in [Intents -> IntentRows]
          /\ intents'[k] = row
          /\ \A j \in Intents : j # k => intents'[j] = intents[j]
      BY <2>5, <2>6, <1>t DEF TypeOK
    <2>8. ASSUME NEW j \in l.todo PROVE intents'[j].status # "NONE"
      <3>1. j \in Intents /\ intents[j].status # "NONE"
        BY <1>t, <2>2 DEF Bookkeeping
      <3> QED
        BY <3>1, <2>5, <2>7
    <2>9. ASSUME NEW j \in Intents
          PROVE  /\ intents[j].status # "NONE" => intents'[j].status # "NONE"
                 /\ intents'[j].status # "NONE" =>
                       intents'[j].incident \in Incidents /\ intents'[j].strategy \in Strategies
      BY <1>t, <2>5, <2>7 DEF Bookkeeping
    <2>10. pc' = [pc EXCEPT ![p] = "execute"] /\ "execute" \in Labels
      BY <1>18 DEF CreateIntent, Labels
    <2>11. /\ incidents' \in [Incidents -> Rows] /\ escalated' \in BOOLEAN
           /\ worker' \in Observations /\ now' \in Time /\ holder' \in Procs \cup {NoProc}
           /\ crashes' \in 0 .. MaxCrashes /\ executed' \in [Incidents -> Nat]
      BY <1>18, <1>t DEF CreateIntent, TypeOK
    <2>12. l.intent \in Intents => intents'[l.intent].status # "NONE"
      BY <2>2, <2>5, <2>7
    <2> QED
      BY <2>0, <2>2, <2>3, <2>7, <2>8, <2>9, <2>10, <2>11, <2>12, ProcessStep
  <1>19. ASSUME NEW p \in Procs, NEW k \in Intents, OrphanExecute(p, k) PROVE TypeInv'
    <2>0. intents[k].incident \in Incidents /\ intents[k].status # "NONE"
      BY <1>19, <1>t DEF OrphanExecute, IsFirst, Bookkeeping
    <2>1. PICK ok \in BOOLEAN : /\ StrategyRuns(intents[k].incident, ok)
                              /\ loc' = [loc EXCEPT ![p] = [loc[p] EXCEPT !.intent = k, !.ok = ok]]
      BY <1>19 DEF OrphanExecute
    <2>2. PICK l : l = [loc[p] EXCEPT !.intent = k, !.ok = ok]
      OBVIOUS
    <2>3. l \in Locals /\ l.todo = loc[p].todo /\ loc[p].todo \subseteq Intents /\ l.intent = k
      BY <2>2, <1>l DEF Locals
    <2>4. loc' = [loc EXCEPT ![p] = l]
      BY <2>1, <2>2
    <2>5. worker' \in Observations /\ executed' \in [Incidents -> Nat]
      BY <2>0, <2>1, StrategyRunsType
    <2>6. pc' = [pc EXCEPT ![p] = "orphan_mark"] /\ "orphan_mark" \in Labels
      BY <1>19 DEF OrphanExecute, Labels
    <2>7. ASSUME NEW j \in l.todo PROVE intents'[j].status # "NONE"
      BY <1>19, <1>t, <2>3 DEF OrphanExecute, stores, Bookkeeping
    <2>8. /\ incidents' \in [Incidents -> Rows] /\ intents' \in [Intents -> IntentRows]
          /\ escalated' \in BOOLEAN /\ now' \in Time
          /\ holder' \in Procs \cup {NoProc} /\ crashes' \in 0 .. MaxCrashes
      BY <1>19, <1>t DEF OrphanExecute, stores, TypeOK
    <2>9. intents' = intents
      BY <1>19 DEF OrphanExecute, stores
    <2> QED
      BY <1>t, <2>0, <2>3, <2>4, <2>5, <2>6, <2>7, <2>8, <2>9, ProcessStep
      DEF Bookkeeping, HoldsIncident
  <1>20. ASSUME NEW p \in Procs, ListOpen(p) PROVE TypeInv'
    <2>1. CASE UNCHANGED loc
      BY <1>20, <2>1, StayStep, <1>t DEF ListOpen, stores, TypeOK, Labels, HoldsIncident
    <2>2. ASSUME NEW i \in Incidents,
                 loc' = [loc EXCEPT ![p] = [loc[p] EXCEPT !.id = i, !.row = incidents[i]]]
          PROVE  TypeInv'
      <3>1. PICK l : l = [loc[p] EXCEPT !.id = i, !.row = incidents[i]]
        OBVIOUS
      <3>2. l \in Locals /\ l.todo = loc[p].todo /\ l.intent = loc[p].intent
        BY <3>1, <1>l, <1>t DEF Locals, TypeOK
      <3>3. loc' = [loc EXCEPT ![p] = l]
        BY <3>1, <2>2
      <3> QED
        BY <1>20, <1>t, <3>2, <3>3, ProcessStepNoIntents DEF ListOpen, stores, TypeOK, Labels, HoldsIncident
    <2> QED
      BY <1>20, <2>1, <2>2 DEF ListOpen
  <1>21. ASSUME NEW p \in Procs, BlockOpenIncident(p) PROVE TypeInv'
    <2>0. loc[p].id \in Incidents
      BY <1>21, <1>t, <1>l DEF BlockOpenIncident, Bookkeeping, HoldsIncident, NoneOpen, Locals
    <2>1. PICK row : row = [loc[p].row EXCEPT !.blocked = TRUE]
      OBVIOUS
    <2>2. PICK l : l = [loc[p] EXCEPT !.row = row]
      OBVIOUS
    <2>3. row \in Rows
      BY <2>1, <1>l DEF Locals, Rows
    <2>4. l \in Locals /\ l.todo = loc[p].todo /\ l.intent = loc[p].intent /\ l.id = loc[p].id
      BY <2>2, <2>3, <1>l DEF Locals
    <2>5. loc' = [loc EXCEPT ![p] = l] /\ incidents' = [incidents EXCEPT ![loc[p].id] = row]
      BY <2>1, <2>2, <1>21 DEF BlockOpenIncident, Save
    <2> QED
      BY <1>21, <1>t, <2>0, <2>3, <2>4, <2>5, ProcessStepNoIntents
      DEF BlockOpenIncident, Blocked, TypeOK, Labels, HoldsIncident
  <1>22. ASSUME NEW p \in Procs, RefuseRemediation(p) PROVE TypeInv'
    <2>0. loc[p].id \in Incidents
      BY <1>22, <1>t, <1>l DEF RefuseRemediation, Bookkeeping, HoldsIncident, NoneOpen, Locals
    <2>1. PICK row : row = [loc[p].row EXCEPT !.blocked = TRUE]
      OBVIOUS
    <2>2. PICK l : l = [loc[p] EXCEPT !.row = row]
      OBVIOUS
    <2>3. row \in Rows
      BY <2>1, <1>l DEF Locals, Rows
    <2>4. l \in Locals /\ l.todo = loc[p].todo /\ l.intent = loc[p].intent /\ l.id = loc[p].id
      BY <2>2, <2>3, <1>l DEF Locals
    <2>5. loc' = [loc EXCEPT ![p] = l] /\ incidents' = [incidents EXCEPT ![loc[p].id] = row]
      BY <2>1, <2>2, <1>22 DEF RefuseRemediation, Save
    <2> QED
      BY <1>22, <1>t, <2>0, <2>3, <2>4, <2>5, ProcessStepNoIntents
      DEF RefuseRemediation, Blocked, TypeOK, Labels, HoldsIncident
  <1>23. ASSUME NEW p \in Procs, NEW i \in Incidents, OpenIncident(p, i) PROVE TypeInv'
    <2>1. PICK row : row = [NewRow EXCEPT !.status = "OPEN", !.openedAt = now,
                                        !.symptom = Symptom(p)]
      OBVIOUS
    <2>2. PICK l : l = [loc[p] EXCEPT !.id = i, !.row = row]
      OBVIOUS
    <2>3. row \in Rows
      BY <2>1, <1>t, InitialTypes DEF Rows, TypeOK, Symptom
    <2>4. l \in Locals /\ l.todo = loc[p].todo /\ l.intent = loc[p].intent /\ l.id = i
      BY <2>2, <2>3, <1>l DEF Locals
    <2>5. loc' = [loc EXCEPT ![p] = l] /\ incidents' = [incidents EXCEPT ![i] = row]
      BY <2>1, <2>2, <1>23 DEF OpenIncident
    <2>6. pc' = [pc EXCEPT ![p] = "fill"] /\ "fill" \in Labels /\ "fill" # "execute"
      BY <1>23 DEF OpenIncident, Labels
    <2>7. /\ incidents' \in [Incidents -> Rows] /\ intents' = intents
          /\ escalated' \in BOOLEAN /\ worker' \in Observations /\ now' = now
          /\ holder' \in Procs \cup {NoProc} /\ crashes' \in 0 .. MaxCrashes
          /\ executed' \in [Incidents -> Nat]
      BY <1>23, <1>t, <2>3, <2>5 DEF OpenIncident, TypeOK
    <2> QED
      BY <2>4, <2>5, <2>6, <2>7, ProcessStepNoIntents
  <1>24. ASSUME NEW p \in Procs, FillIncident(p) PROVE TypeInv'
    <2>1. loc[p].id \in Incidents /\ loc[p].row \in Rows
      BY <1>24, <1>t, <1>l DEF FillIncident, Bookkeeping, HoldsIncident, Locals
    <2>2. incidents' \in [Incidents -> Rows]
      BY <1>24, <1>t, <2>1 DEF FillIncident, TypeOK
    <2>3. CASE EndTick(p)
      BY <1>24, <2>2, <2>3, EndTickStep DEF FillIncident
    <2>4. ASSUME NEW label \in Labels, label # "execute", loc' = loc, Goto(p, label)
          PROVE  TypeInv'
      <3>1. pc' = [pc EXCEPT ![p] = label]
        BY <2>4
      <3>2. /\ intents' = intents /\ escalated' = escalated /\ worker' = worker
            /\ now' = now /\ holder' = holder /\ crashes' = crashes
            /\ executed' = executed
        BY <1>24 DEF FillIncident
      <3> QED
        BY <2>1, <2>2, <2>4, <3>1, <3>2, StayStep
    <2>5. CASE Goto(p, "remediate") /\ loc' = loc
      BY <2>4, <2>5 DEF Labels
    <2>6. CASE Blocked(p) /\ loc' = loc
      BY <2>4, <2>6 DEF Blocked, Labels
    <2> QED
      BY <1>24, <2>3, <2>5, <2>6 DEF FillIncident
  <1>25. ASSUME NEW p \in Procs, AdvanceBurnIn(p) PROVE TypeInv'
    <2>0. loc[p].id \in Incidents
      BY <1>25, <1>l DEF AdvanceBurnIn, NoneOpen, Locals
    <2>1. PICK burnIn : burnIn = EvaluateBurnIn(loc[p].row.burnIn, loc[p].obs.units,
                                  HealthOk(loc[p].obs) /\ ProgressOk(loc[p].obs),
                                  loc[p].at, loc[p].row.remediated)
      OBVIOUS
    <2>2. burnIn \in BurnIns
      <3>1. /\ loc[p].row.burnIn \in BurnIns /\ loc[p].obs.units \in 0 .. MaxUnits
            /\ loc[p].at \in Time /\ loc[p].row.remediated \in BOOLEAN
        BY <1>l DEF Locals, Rows, Observations
      <3>2. (HealthOk(loc[p].obs) /\ ProgressOk(loc[p].obs)) \in BOOLEAN
        BY DEF HealthOk, ProgressOk
      <3> QED
        BY <2>1, <3>1, <3>2, BurnInType
    <2>3. PICK row : row = [loc[p].row EXCEPT !.burnIn = burnIn]
      OBVIOUS
    <2>4. row \in Rows
      BY <2>2, <2>3, <1>l DEF Locals, Rows
    <2>5. incidents' \in [Incidents -> Rows]
      BY <1>25, <1>t, <2>1, <2>3, <2>4 DEF AdvanceBurnIn, TypeOK
    <2>6. CASE EndTick(p)
      BY <1>25, <2>5, <2>6, EndTickStep DEF AdvanceBurnIn
    <2>7. CASE burnIn.level = "STABLE"
      <3>1. PICK l : l = [loc[p] EXCEPT !.row.burnIn = burnIn]
        OBVIOUS
      <3>2. l \in Locals /\ l.todo = loc[p].todo /\ l.intent = loc[p].intent /\ l.id = loc[p].id
        BY <3>1, <2>3, <2>4, <1>l DEF Locals
      <3>3. loc' = [loc EXCEPT ![p] = l] /\ pc' = [pc EXCEPT ![p] = "close"]
        BY <2>1, <2>7, <3>1, <1>25 DEF AdvanceBurnIn
      <3>4. "close" \in Labels /\ "close" # "execute"
        BY DEF Labels
      <3>5. /\ intents' = intents /\ escalated' \in BOOLEAN /\ worker' \in Observations
            /\ now' = now /\ holder' \in Procs \cup {NoProc}
            /\ crashes' \in 0 .. MaxCrashes /\ executed' \in [Incidents -> Nat]
        BY <1>25, <1>t DEF AdvanceBurnIn, TypeOK
      <3> QED
        BY <2>0, <2>5, <3>2, <3>3, <3>4, <3>5, ProcessStepNoIntents
    <2> QED
      BY <1>25, <2>1, <2>6, <2>7 DEF AdvanceBurnIn
  <1>26. ASSUME NEW p \in Procs, CloseIncident(p) PROVE TypeInv'
    <2>1. Closed(loc[p].row) \in Rows
      BY <1>l DEF Locals, Rows, Closed
    <2>2. incidents' \in [Incidents -> Rows]
      BY <1>26, <1>t, <2>1 DEF CloseIncident, TypeOK
    <2> QED
      BY <1>26, <2>2, EndTickStep DEF CloseIncident
  <1>27. ASSUME NEW p \in Procs, ExecuteStrategy(p) PROVE TypeInv'
    <2>0. loc[p].id \in Incidents /\ loc[p].strategy \in Strategies
      BY <1>27, <1>t DEF ExecuteStrategy, Bookkeeping, HoldsIncident
    <2>1. PICK attempts : attempts = RecordAttempt(loc[p].row.attempts, loc[p].strategy,
                                                   EvidenceDigest(loc[p].id))
      OBVIOUS
    <2>2. attempts \in Seq(Attempts)
      <3>1. loc[p].row.attempts \in Seq(Attempts)
        BY <1>l DEF Locals, Rows
      <3>2. [strategy |-> loc[p].strategy, digest |-> loc[p].id] \in Attempts
        BY <2>0 DEF Attempts
      <3> QED
        BY <2>1, <3>1, <3>2 DEF RecordAttempt, EvidenceDigest
    <2>3. PICK ok \in BOOLEAN :
             /\ StrategyRuns(loc[p].id, ok)
             /\ loc' = [loc EXCEPT ![p] = [loc[p] EXCEPT !.ok = ok,
                          !.row.attempts = attempts, !.row.remediated = TRUE]]
      BY <1>27, <2>1 DEF ExecuteStrategy
    <2>4. PICK l : l = [loc[p] EXCEPT !.ok = ok, !.row.attempts = attempts,
                                      !.row.remediated = TRUE]
      OBVIOUS
    <2>5. [loc[p].row EXCEPT !.attempts = attempts, !.remediated = TRUE] \in Rows
      BY <2>2, <1>l DEF Locals, Rows
    <2>6. l \in Locals /\ l.todo = loc[p].todo /\ l.intent = loc[p].intent /\ l.id = loc[p].id
      BY <2>4, <2>5, <1>l DEF Locals
    <2>7. loc' = [loc EXCEPT ![p] = l]
      BY <2>3, <2>4
    <2>8. worker' \in Observations /\ executed' \in [Incidents -> Nat]
      BY <2>0, <2>3, StrategyRunsType
    <2> QED
      BY <1>27, <1>t, <2>0, <2>6, <2>7, <2>8, ProcessStepNoIntents
      DEF ExecuteStrategy, stores, TypeOK, Labels, HoldsIncident
  <1>28. ASSUME NEW p \in Procs, SaveRemediation(p) PROVE TypeInv'
    <2>1. PICK burnIn : burnIn = EvaluateBurnIn(InitialBurnIn, worker.units, loc[p].ok,
                                                loc[p].at, loc[p].ok)
      OBVIOUS
    <2>2. burnIn \in BurnIns
      BY <2>1, <1>l, <1>t, BurnInType, InitialTypes DEF Locals, TypeOK, Observations
    <2>3. [loc[p].row EXCEPT !.burnIn = burnIn] \in Rows
      BY <2>2, <1>l DEF Locals, Rows
    <2>4. incidents' \in [Incidents -> Rows]
      BY <1>28, <1>t, <2>1, <2>3 DEF SaveRemediation, TypeOK
    <2> QED
      BY <1>28, <2>4, EndTickStep DEF SaveRemediation
  <1>29. ASSUME NEW p \in Procs, Crash(p) PROVE TypeInv'
    <2>1. IdleLoc \in Locals /\ IdleLoc.todo = {} /\ IdleLoc.intent = NoIntent
      BY InitialTypes DEF IdleLoc
    <2>2. crashes' \in 0 .. MaxCrashes
      BY <1>29, <1>t, EngineAssumption DEF Crash, TypeOK
    <2> QED
      BY <1>29, <1>t, <2>1, <2>2, ProcessStepNoIntents DEF Crash, stores, TypeOK, Labels, HoldsIncident
  <1>30. CASE OperatorClears
    BY <1>30, <1>t DEF OperatorClears, TypeInv, TypeOK, Bookkeeping
  <1>31. CASE Worker
    <2>1. worker' \in Observations
      <3>1. worker.units < MaxUnits => worker.units + 1 \in 0 .. MaxUnits
        BY <1>t, EngineAssumption DEF TypeOK, Observations
      <3> QED
        BY <1>31, <1>t, <3>1 DEF Worker, WorkerChanges, TypeOK, Observations
    <2> QED
      BY <1>31, <1>t, <2>1 DEF Worker, stores, TypeInv, TypeOK, Bookkeeping
  <1>32. CASE ClockTicks
    <2>1. now' \in Time
      BY <1>32, <1>t, EngineAssumption DEF ClockTicks, TypeOK, Time
    <2> QED
      BY <1>32, <1>t, <2>1 DEF ClockTicks, stores, TypeInv, TypeOK, Bookkeeping
  <1>33. CASE UNCHANGED vars
    BY <1>33, <1>t DEF vars, TypeInv, TypeOK, Bookkeeping
  <1>34. ASSUME NEW p \in Procs, Process(p) PROVE TypeInv'
    BY <1>34, <1>1, <1>2, <1>3, <1>4, <1>5, <1>6, <1>7, <1>8, <1>9, <1>10, <1>11, <1>12, <1>13, <1>14, <1>15, <1>16, <1>17, <1>18, <1>19, <1>20, <1>21, <1>22, <1>23, <1>24, <1>25, <1>26, <1>27, <1>28, <1>29 DEF Process, Step
  <1> QED
    BY <1>30, <1>31, <1>32, <1>33, <1>34 DEF Next

\* TypeOK holds in every reachable state, whatever the processes, their modes
\* and the bounds are.
THEOREM TypeCorrect == Spec => []TypeOK
  <1>1. Init => TypeInv
    BY TypeInit
  <1>2. TypeInv /\ [Next]_vars => TypeInv'
    BY TypeNext
  <1>3. TypeInv => TypeOK
    BY DEF TypeInv
  <1> QED
    BY <1>1, <1>2, <1>3, PTL DEF Spec

-------------------------------------------------------------------------------
\* What every row of incidents.db and every copy of one says of its incident.

\* The recorded attempts are within the limits of the recovery budget.
WithinBudget(i, attempts) ==
    /\ Len(attempts) <= MaxAttempts
    /\ \A s \in Strategies : Identical(attempts, s, i) <= MaxIdentical

\* One more attempt with strategy s is.
HasRoom(i, attempts, s) ==
    Len(attempts) < MaxAttempts /\ Identical(attempts, s, i) < MaxIdentical

\* A burn-in starts with a remediation and is stable after the whole window.
Earned(burnIn, remediated) ==
    /\ burnIn.level # "NONE" => remediated
    /\ burnIn.level \in {"VERIFIED", "STABLE"} => burnIn.verifiedAt # NoTime
    /\ burnIn.level = "STABLE" =>
          /\ burnIn.stableAt - burnIn.verifiedAt >= MinDuration
          /\ burnIn.unitsAtStable - burnIn.unitsAtVerified >= StableUnits

Good(i, row) ==
    /\ WithinBudget(i, row.attempts)
    /\ Earned(row.burnIn, row.remediated)
    /\ row.remediated => Len(row.attempts) > 0
    /\ row.status = "CLOSED" => row.burnIn.level = "STABLE"

\* A process has a good copy of the row; the strategy it is about to run has room.
GoodCopy(p) ==
    /\ loc[p].id \in Incidents => Good(loc[p].id, loc[p].row)
    /\ pc[p] \in {"list", "decide", "fill", "remediate", "execute", "mark", "save"} =>
          loc[p].row.status # "CLOSED"
    /\ pc[p] = "execute" => HasRoom(loc[p].id, loc[p].row.attempts, loc[p].strategy)
    /\ pc[p] \in {"mark", "save"} => loc[p].row.remediated
    /\ pc[p] = "close" => loc[p].row.burnIn.level = "STABLE"

RowsInv ==
    /\ TypeInv
    /\ \A i \in Incidents : Good(i, incidents[i])
    /\ \A p \in Procs : GoodCopy(p)

\* The attempts that used one strategy against one evidence can be counted.
Uses(a, s, i) == {j \in DOMAIN a : a[j].strategy = s /\ a[j].digest = i}

\* These attempts are finitely many, at most as many as there are, and Identical is
\* their number.
LEMMA Countable ==
    ASSUME NEW a \in Seq(Attempts), NEW s, NEW i
    PROVE  /\ IsFiniteSet(Uses(a, s, i)) /\ Uses(a, s, i) \subseteq 1 .. Len(a)
           /\ Identical(a, s, i) = Cardinality(Uses(a, s, i))
           /\ Identical(a, s, i) \in Nat
  <1>1. IsFiniteSet(1 .. Len(a)) /\ Uses(a, s, i) \subseteq 1 .. Len(a)
    BY FS_Interval DEF Uses
  <1>2. IsFiniteSet(Uses(a, s, i))
    BY <1>1, FS_Subset
  <1> QED BY <1>1, <1>2, FS_CardinalityType DEF Identical, Uses

\* Recording an attempt there is room for stays within the budget.
LEMMA RecordFits ==
    ASSUME NEW i \in Incidents, NEW a \in Seq(Attempts), NEW s \in Strategies,
           WithinBudget(i, a), HasRoom(i, a, s)
    PROVE  WithinBudget(i, RecordAttempt(a, s, i))
  <1> DEFINE new == [strategy |-> s, digest |-> i]
             b == Append(a, new)
  <1>1. new \in Attempts /\ b \in Seq(Attempts) /\ Len(b) = Len(a) + 1 /\ Len(a) \in Nat
    BY DEF Attempts
  <1>2. /\ DOMAIN a = 1 .. Len(a) /\ DOMAIN b = 1 .. (Len(a) + 1)
        /\ \A j \in 1 .. Len(a) : b[j] = a[j]
        /\ b[Len(a) + 1] = new
    BY <1>1
  <1> HIDE DEF b, new
  <1>3. Len(b) <= MaxAttempts
    BY <1>1, BudgetAssumption DEF HasRoom
  <1>4. ASSUME NEW t \in Strategies PROVE Identical(b, t, i) <= MaxIdentical
    <2>1. CASE t = s
      <3>1. Uses(b, t, i) = Uses(a, t, i) \cup {Len(a) + 1}
        BY <1>1, <1>2, <2>1 DEF Uses, new
      <3>2. IsFiniteSet(Uses(a, t, i)) /\ Len(a) + 1 \notin Uses(a, t, i)
        <4>1. IsFiniteSet(Uses(a, t, i)) /\ Uses(a, t, i) \subseteq 1 .. Len(a)
          BY Countable
        <4> QED BY <1>1, <4>1
      <3>3. Cardinality(Uses(b, t, i)) = Cardinality(Uses(a, t, i)) + 1
        BY <3>1, <3>2, FS_AddElement
      <3>4. Cardinality(Uses(a, t, i)) \in Nat /\ Cardinality(Uses(a, t, i)) < MaxIdentical
        BY <2>1, Countable DEF HasRoom
      <3>5. Identical(b, t, i) = Cardinality(Uses(b, t, i))
        BY <1>1, Countable
      <3> QED BY <3>3, <3>4, <3>5, BudgetAssumption
    <2>2. CASE t # s
      <3>1. Uses(b, t, i) = Uses(a, t, i)
        BY <1>1, <1>2, <2>2 DEF Uses, new
      <3> QED BY <1>1, <3>1, Countable DEF WithinBudget
    <2> QED BY <2>1, <2>2
  <1> QED BY <1>3, <1>4 DEF WithinBudget, RecordAttempt, b, new

\* next_strategy returns a strategy there is room for.
LEMMA NextStrategyHasRoom ==
    ASSUME NEW i \in Incidents, NEW a \in Seq(Attempts), NEW elapsed,
           NextStrategy(a, i, elapsed) # NoStrategy
    PROVE  HasRoom(i, a, NextStrategy(a, i, elapsed))
  <1>1. ~(Len(a) >= MaxAttempts)
    BY DEF NextStrategy, OutOfBudget
  <1>2. Identical(a, NextStrategy(a, i, elapsed), i) < MaxIdentical
    BY DEF NextStrategy, Eligible
  <1> QED BY <1>1, <1>2, BudgetAssumption DEF HasRoom

\* evaluate_burn_in keeps what a burn-in has earned.
LEMMA BurnInEarned ==
    ASSUME NEW state \in BurnIns, NEW units \in 0 .. MaxUnits, NEW t \in Time,
           NEW ok \in BOOLEAN, NEW patched \in BOOLEAN, Earned(state, patched)
    PROVE  Earned(EvaluateBurnIn(state, units, ok, t, patched), patched)
  <1> USE DEF Earned
  <1>1. MarkPatched(state, patched) \in BurnIns /\ Earned(MarkPatched(state, patched), patched)
    BY DEF MarkPatched, BurnIns, Levels
  <1>2. ASSUME NEW s \in BurnIns, Earned(s, patched)
        PROVE  /\ MarkVerified(s, units, ok, t) \in BurnIns
               /\ Earned(MarkVerified(s, units, ok, t), patched)
    <2>1. t # NoTime
      BY EngineAssumption DEF Time, NoTime
    <2>2. MarkVerified(s, units, ok, t) \in BurnIns
      BY DEF MarkVerified, BurnIns, Levels
    <2>3. CASE s.level = "PATCHED" /\ ok
      <3>1. PICK v : v = [s EXCEPT !.level = "VERIFIED", !.verifiedAt = t,
                                   !.unitsAtVerified = units]
        OBVIOUS
      <3>2. v.level = "VERIFIED" /\ v.verifiedAt = t
        BY <3>1 DEF BurnIns
      <3>3. MarkVerified(s, units, ok, t) = v
        BY <2>3, <3>1 DEF MarkVerified
      <3> QED BY <1>2, <2>1, <2>2, <2>3, <3>2, <3>3
    <2>4. CASE ~(s.level = "PATCHED" /\ ok)
      BY <1>2, <2>2, <2>4 DEF MarkVerified
    <2> QED BY <2>3, <2>4
  <1>3. ASSUME NEW s \in BurnIns, Earned(s, patched)
        PROVE  Earned(MarkStable(s, units, t), patched)
    BY <1>3 DEF MarkStable, Stabilised, BurnIns, Levels
  <1> HIDE DEF Earned
  <1> QED BY <1>1, <1>2, <1>3 DEF EvaluateBurnIn

\* A new row has used and earned nothing.
LEMMA NewRowGood ==
    ASSUME NEW i \in Incidents PROVE Good(i, NewRow)
  <1>1. \A s : {j \in DOMAIN << >> : << >>[j].strategy = s /\ << >>[j].digest = i} = {}
    OBVIOUS
  <1>2. \A s : Identical(<< >>, s, i) = 0
    BY <1>1, FS_EmptySet DEF Identical
  <1>3. WithinBudget(i, << >>)
    BY <1>2, BudgetAssumption DEF WithinBudget
  <1> QED BY <1>3 DEF Good, Earned, NewRow, InitialBurnIn

\* In the initial state there are new rows only.
LEMMA RowsInit == Init => RowsInv
  <1> SUFFICES ASSUME Init PROVE RowsInv
    OBVIOUS
  <1>1. \A i \in Incidents : Good(i, incidents[i])
    BY NewRowGood DEF Init
  <1>2. \A p \in Procs : pc[p] = "down" /\ loc[p].id \notin Incidents
    BY DEF Init, IdleLoc, NoIncident, Incidents
  <1> QED BY <1>1, <1>2, TypeInit DEF RowsInv, GoodCopy

-------------------------------------------------------------------------------
\* What a step of one process has to show.

\* A copy of p that is good, and good rows, are enough.
LEMMA CopyStep ==
    ASSUME RowsInv, TypeInv', NEW p \in Procs, NEW label, NEW l,
           pc' = [pc EXCEPT ![p] = label], loc' = [loc EXCEPT ![p] = l],
           \A i \in Incidents : Good(i, incidents'[i]), GoodCopy(p)'
    PROVE  RowsInv'
  <1>1. ASSUME NEW q \in Procs, q # p PROVE GoodCopy(q)'
    BY <1>1 DEF RowsInv, TypeInv, TypeOK, GoodCopy
  <1> QED BY <1>1 DEF RowsInv

\* A row that is written over by a good one leaves good rows.
LEMMA WriteGood ==
    ASSUME RowsInv, NEW i, NEW row, incidents' = [incidents EXCEPT ![i] = row],
           i \in Incidents => Good(i, row)
    PROVE  \A j \in Incidents : Good(j, incidents'[j])
  BY DEF RowsInv, TypeInv, TypeOK

\* A process without an incident in hand has no copy.
LEMMA RestGood ==
    ASSUME RowsInv, TypeInv', NEW p \in Procs, NEW label, NEW l,
           pc' = [pc EXCEPT ![p] = label], loc' = [loc EXCEPT ![p] = l],
           l.id = NoIncident, l.row = NewRow, 
           label \notin {"execute", "mark", "save", "close"},
           \A i \in Incidents : Good(i, incidents'[i])
    PROVE  RowsInv'
  <1>1. pc'[p] = label /\ loc'[p] = l
    BY DEF RowsInv, TypeInv, TypeOK
  <1>2. GoodCopy(p)'
    BY <1>1 DEF GoodCopy, NoIncident, Incidents, NewRow
  <1> QED BY <1>2, CopyStep

\* A process that ends its tick or its loop gives its copy up.
LEMMA EndGood ==
    ASSUME RowsInv, TypeInv', NEW p \in Procs, EndTick(p) \/ Exit(p),
           \A i \in Incidents : Good(i, incidents'[i])
    PROVE  RowsInv'
  <1> USE DEF Goto, SetLoc
  <1>1. CASE EndTick(p)
    <2>1. PICK l : l = [IdleLoc EXCEPT !.auth = loc[p].auth]
      OBVIOUS
    <2>2. l.id = NoIncident /\ l.row = NewRow
      BY <2>1 DEF IdleLoc
    <2> QED BY <1>1, <2>1, <2>2, RestGood DEF EndTick
  <1>2. CASE Exit(p)
    <2>1. IdleLoc.id = NoIncident /\ IdleLoc.row = NewRow
      BY DEF IdleLoc
    <2> QED BY <1>2, <2>1, RestGood DEF Exit
  <1> QED BY <1>1, <1>2

\* A process that keeps its copy, for a label that asks nothing more of it.
LEMMA SameCopy ==
    ASSUME RowsInv, TypeInv', NEW p \in Procs, NEW label, NEW l,
           pc' = [pc EXCEPT ![p] = label], loc' = [loc EXCEPT ![p] = l],
           l.id = loc[p].id, l.row = loc[p].row,
           label \notin {"execute", "mark", "save", "close"},
           label \in {"list", "decide", "fill", "remediate"} => loc[p].row.status # "CLOSED",
           \A i \in Incidents : Good(i, incidents'[i])
    PROVE  RowsInv'
  <1>1. pc'[p] = label /\ loc'[p] = l
    BY DEF RowsInv, TypeInv, TypeOK
  <1>2. GoodCopy(p)
    BY DEF RowsInv
  <1>3. loc'[p].id = loc[p].id /\ loc'[p].row = loc[p].row
    BY <1>1
  <1>4. GoodCopy(p)'
    BY <1>1, <1>2, <1>3 DEF GoodCopy, Good
  <1> QED BY <1>4, CopyStep

\* The same for a step that assigns no local.
LEMMA SameLocals ==
    ASSUME RowsInv, TypeInv', NEW p \in Procs, NEW label,
           pc' = [pc EXCEPT ![p] = label], loc' = loc,
           label \notin {"execute", "mark", "save", "close"},
           label \in {"list", "decide", "fill", "remediate"} => loc[p].row.status # "CLOSED",
           \A i \in Incidents : Good(i, incidents'[i])
    PROVE  RowsInv'
  <1>1. loc' = [loc EXCEPT ![p] = loc[p]]
    BY DEF RowsInv, TypeInv, TypeOK
  <1> QED BY <1>1, SameCopy

\* A row marked blocked is as good as it was.
LEMMA BlockedGood ==
    ASSUME NEW i \in Incidents, NEW row \in Rows, Good(i, row)
    PROVE  Good(i, [row EXCEPT !.blocked = TRUE])
  BY DEF Good, Rows

\* Every step of a process keeps the rows good, in any interleaving.
LEMMA RowsProcess ==
    ASSUME RowsInv, TypeInv', NEW p \in Procs, Process(p)
    PROVE  RowsInv'
  <1> USE DEF SetLoc, Goto
  <1>t. TypeOK /\ Bookkeeping
    BY DEF RowsInv, TypeInv
  <1>l. loc[p] \in Locals /\ loc[p].row \in Rows
    BY <1>t DEF TypeOK, Locals
  <1>g. (\A i \in Incidents : Good(i, incidents[i])) /\ GoodCopy(p)
    BY DEF RowsInv
  <1>k. incidents' = incidents => \A i \in Incidents : Good(i, incidents'[i])
    BY <1>g
  <1>m. \A label : pc' = [pc EXCEPT ![p] = label] => pc'[p] = label
    BY <1>t DEF TypeOK
  <1>n. \A l : loc' = [loc EXCEPT ![p] = l] => loc'[p] = l
    BY <1>t DEF TypeOK
  <1>h. pc[p] \in HoldsIncident => loc[p].id \in Incidents /\ Good(loc[p].id, loc[p].row)
    BY <1>t, <1>g DEF Bookkeeping, GoodCopy
  <1>1. CASE Startup(p)
    <2>1. PICK auth \in RestartAuthority :
             loc' = [loc EXCEPT ![p] = [IdleLoc EXCEPT !.auth = auth, !.todo = OrphanedPending]]
      BY <1>1 DEF Startup
    <2>2. PICK l : l = [IdleLoc EXCEPT !.auth = auth, !.todo = OrphanedPending]
      OBVIOUS
    <2>3. l.id = NoIncident /\ l.row = NewRow
      BY <2>2 DEF IdleLoc
    <2>4. pc' = [pc EXCEPT ![p] = "orphans"] /\ incidents' = incidents
      BY <1>1 DEF Startup, stores
    <2> QED BY <1>k, <2>1, <2>2, <2>3, <2>4, RestGood
  <1>2. ASSUME NEW auth, Inspect(p, auth) PROVE RowsInv'
    <2>1. PICK validity \in ValidityOutcomes :
             loc' = [loc EXCEPT ![p] = [IdleLoc EXCEPT !.auth = auth, !.obs = worker,
                                                       !.at = now, !.validity = validity]]
      BY <1>2 DEF Inspect
    <2>2. PICK l : l = [IdleLoc EXCEPT !.auth = auth, !.obs = worker, !.at = now,
                                       !.validity = validity]
      OBVIOUS
    <2>3. l.id = NoIncident /\ l.row = NewRow
      BY <2>2 DEF IdleLoc
    <2>4. pc' = [pc EXCEPT ![p] = "list"] /\ incidents' = incidents
      BY <1>2 DEF Inspect, stores
    <2> QED BY <1>k, <2>1, <2>2, <2>3, <2>4, RestGood
  <1>3. CASE Tick(p) \/ Status(p)
    BY <1>2, <1>3 DEF Tick, Status
  <1>4. CASE LeaseLost(p) \/ StayBlocked(p) \/ Leave(p) \/ MarkBlocked(p)
    BY <1>4, <1>k, EndGood DEF LeaseLost, StayBlocked, Leave, MarkBlocked, stores
  <1>5. CASE Quiet(p) \/ WouldRemediate(p)
    BY <1>5, <1>k, EndGood DEF Quiet, WouldRemediate, stores
  <1>6. CASE OrphansDone(p)
    BY <1>6, <1>k, SameLocals DEF OrphansDone, stores
  <1>7. CASE NextTick(p)
    BY <1>7, <1>k, SameLocals DEF NextTick, stores
  <1>8. CASE Crash(p)
    <2>1. IdleLoc.id = NoIncident /\ IdleLoc.row = NewRow
      BY DEF IdleLoc
    <2> QED BY <1>8, <1>k, <2>1, RestGood DEF Crash, stores
  <1>9. ASSUME NEW k \in Intents, OrphanRefused(p, k) PROVE RowsInv'
    <2>1. intents[k].incident \in Incidents
      BY <1>9, <1>t DEF OrphanRefused, IsFirst, Bookkeeping
    <2>2. PICK l : l = [loc[p] EXCEPT !.intent = k, !.id = intents[k].incident,
                                      !.row = incidents[intents[k].incident]]
      OBVIOUS
    <2>3. l.id = intents[k].incident /\ l.row = incidents[intents[k].incident]
      BY <1>l, <2>2 DEF Locals
    <2>4. /\ pc' = [pc EXCEPT ![p] = "orphan_block"] /\ loc' = [loc EXCEPT ![p] = l]
          /\ incidents' = incidents
      BY <1>9, <2>2 DEF OrphanRefused
    <2>5. GoodCopy(p)'
      BY <1>g, <1>m, <1>n, <2>1, <2>3, <2>4 DEF GoodCopy
    <2> QED BY <1>k, <2>4, <2>5, CopyStep
  <1>10. ASSUME NEW k \in Intents, OrphanObserved(p, k) PROVE RowsInv'
    <2>1. PICK l : l = NextOrphan(p, k)
      OBVIOUS
    <2>2. l.id = loc[p].id /\ l.row = loc[p].row
      BY <1>l, <2>1 DEF NextOrphan, Locals
    <2>3. pc' = [pc EXCEPT ![p] = "orphans"] /\ loc' = [loc EXCEPT ![p] = l]
          /\ incidents' = incidents
      BY <1>10, <1>t, <2>1 DEF OrphanObserved, TypeOK, stores
    <2> QED BY <1>k, <2>2, <2>3, SameCopy
  <1>11. ASSUME NEW k \in Intents, OrphanExecute(p, k) PROVE RowsInv'
    <2>1. PICK ok \in BOOLEAN : loc' = [loc EXCEPT ![p] = [loc[p] EXCEPT !.intent = k, !.ok = ok]]
      BY <1>11 DEF OrphanExecute
    <2>2. PICK l : l = [loc[p] EXCEPT !.intent = k, !.ok = ok]
      OBVIOUS
    <2>3. l.id = loc[p].id /\ l.row = loc[p].row
      BY <1>l, <2>2 DEF Locals
    <2>4. pc' = [pc EXCEPT ![p] = "orphan_mark"] /\ incidents' = incidents
      BY <1>11 DEF OrphanExecute, stores
    <2> QED BY <1>k, <2>1, <2>2, <2>3, <2>4, SameCopy
  <1>12. CASE OrphanMark(p)
    <2>1. PICK l : l = NextOrphan(p, loc[p].intent)
      OBVIOUS
    <2>2. l.id = loc[p].id /\ l.row = loc[p].row
      BY <1>l, <2>1 DEF NextOrphan, Locals
    <2> QED BY <1>12, <1>k, <2>1, <2>2, SameCopy DEF OrphanMark
  <1>13. CASE OrphanBlock(p)
    <2>1. PICK l : l = NextOrphan(p, loc[p].intent)
      OBVIOUS
    <2>2. l.id = loc[p].id /\ l.row = loc[p].row
      BY <1>l, <2>1 DEF NextOrphan, Locals
    <2>3. Good(loc[p].id, [loc[p].row EXCEPT !.blocked = TRUE])
      BY <1>13, <1>h, <1>l, BlockedGood DEF OrphanBlock, HoldsIncident
    <2>4. \A i \in Incidents : Good(i, incidents'[i])
      BY <1>13, <2>3, WriteGood DEF OrphanBlock
    <2> QED BY <1>13, <2>1, <2>2, <2>4, SameCopy DEF OrphanBlock
  <1>14. CASE ListOpen(p)
    <2>1. pc[p] = "list" /\ pc' = [pc EXCEPT ![p] = "decide"] /\ incidents' = incidents
      BY <1>14 DEF ListOpen, stores
    <2>2. CASE UNCHANGED loc
      BY <1>g, <1>k, <2>1, <2>2, SameLocals DEF GoodCopy
    <2>3. ASSUME NEW i \in Incidents, IsFirst(i, OpenIncidents),
                 loc' = [loc EXCEPT ![p] = [loc[p] EXCEPT !.id = i, !.row = incidents[i]]]
          PROVE  RowsInv'
      <3>1. PICK l : l = [loc[p] EXCEPT !.id = i, !.row = incidents[i]]
        OBVIOUS
      <3>2. l.id = i /\ l.row = incidents[i] /\ incidents[i].status = "OPEN"
        BY <1>l, <2>3, <3>1 DEF Locals, IsFirst, OpenIncidents
      <3>3. GoodCopy(p)'
        BY <1>g, <1>m, <1>n, <2>1, <2>3, <3>1, <3>2 DEF GoodCopy
      <3> QED BY <1>k, <2>1, <2>3, <3>1, <3>3, CopyStep
    <2> QED BY <1>14, <2>2, <2>3 DEF ListOpen
  <1>15. ASSUME NEW i \in Incidents, OpenIncident(p, i) PROVE RowsInv'
    <2>1. PICK row : row = [NewRow EXCEPT !.status = "OPEN", !.openedAt = now,
                                          !.symptom = Symptom(p)]
      OBVIOUS
    <2>2. row.status = "OPEN" /\ Good(i, row)
      BY <2>1, NewRowGood DEF Good, NewRow
    <2>3. /\ pc' = [pc EXCEPT ![p] = "fill"] /\ incidents' = [incidents EXCEPT ![i] = row]
          /\ loc' = [loc EXCEPT ![p] = [loc[p] EXCEPT !.id = i, !.row = row]]
      BY <1>15, <2>1 DEF OpenIncident
    <2>4. PICK l : l = [loc[p] EXCEPT !.id = i, !.row = row]
      OBVIOUS
    <2>5. l.id = i /\ l.row = row
      BY <1>l, <2>4 DEF Locals
    <2>6. GoodCopy(p)'
      BY <1>m, <1>n, <2>2, <2>3, <2>4, <2>5 DEF GoodCopy
    <2>7. \A j \in Incidents : Good(j, incidents'[j])
      BY <2>2, <2>3, WriteGood
    <2> QED BY <2>3, <2>4, <2>6, <2>7, CopyStep
  <1>16. CASE BlockOpenIncident(p) \/ RefuseRemediation(p)
    <2>1. /\ loc[p].id \in Incidents /\ Save(p, [loc[p].row EXCEPT !.blocked = TRUE])
          /\ Blocked(p)
      BY <1>16, <1>h, <1>l DEF BlockOpenIncident, RefuseRemediation, HoldsIncident, NoneOpen, Locals
    <2>2. PICK row : row = [loc[p].row EXCEPT !.blocked = TRUE]
      OBVIOUS
    <2>3. Good(loc[p].id, row)
      BY <1>g, <1>l, <2>1, <2>2, BlockedGood DEF GoodCopy
    <2>4. \A j \in Incidents : Good(j, incidents'[j])
      BY <2>1, <2>2, <2>3, WriteGood DEF Save
    <2>5. PICK l : l = [loc[p] EXCEPT !.row = row]
      OBVIOUS
    <2>6. l.id = loc[p].id /\ l.row = row
      BY <1>l, <2>5 DEF Locals
    <2>7. PICK label \in {"escalate", "down"} : pc' = [pc EXCEPT ![p] = label]
      BY <2>1 DEF Blocked
    <2>8. loc' = [loc EXCEPT ![p] = l]
      BY <2>1, <2>2, <2>5 DEF Save
    <2>9. GoodCopy(p)'
      BY <1>m, <1>n, <2>3, <2>6, <2>7, <2>8 DEF GoodCopy
    <2> QED BY <2>4, <2>7, <2>8, <2>9, CopyStep
  <1>17. CASE FillIncident(p)
    <2>1. pc[p] = "fill" /\ loc[p].row.status # "CLOSED"
      BY <1>17, <1>g DEF FillIncident, GoodCopy
    <2>2. \A j \in Incidents : Good(j, incidents'[j])
      BY <1>17, <1>h, WriteGood DEF FillIncident, HoldsIncident
    <2>3. CASE EndTick(p)
      BY <2>2, <2>3, EndGood
    <2>4. ASSUME NEW label \in {"remediate", "escalate", "down"}, UNCHANGED loc,
                 pc' = [pc EXCEPT ![p] = label]
          PROVE  RowsInv'
      BY <2>1, <2>2, <2>4, SameLocals
    <2> QED BY <1>17, <2>3, <2>4 DEF FillIncident, Blocked
  <1>18. CASE StartRemediation(p)
    <2>1. loc[p].row.status # "CLOSED"
      BY <1>18, <1>g DEF StartRemediation, GoodCopy
    <2> QED BY <1>18, <1>k, <2>1, SameLocals DEF StartRemediation, stores
  <1>19. CASE AdvanceBurnIn(p)
    <2>1. pc[p] = "decide" /\ loc[p].id \in Incidents
      BY <1>19, <1>l DEF AdvanceBurnIn, NoneOpen, Locals
    <2>2. Good(loc[p].id, loc[p].row) /\ loc[p].row.status # "CLOSED"
      BY <1>g, <2>1 DEF GoodCopy
    <2>3. PICK burnIn : burnIn = EvaluateBurnIn(loc[p].row.burnIn, loc[p].obs.units,
                                  HealthOk(loc[p].obs) /\ ProgressOk(loc[p].obs),
                                  loc[p].at, loc[p].row.remediated)
      OBVIOUS
    <2>4. Earned(burnIn, loc[p].row.remediated)
      <3>1. /\ loc[p].row.burnIn \in BurnIns /\ loc[p].obs.units \in 0 .. MaxUnits
            /\ (HealthOk(loc[p].obs) /\ ProgressOk(loc[p].obs)) \in BOOLEAN
            /\ loc[p].at \in Time /\ loc[p].row.remediated \in BOOLEAN
        BY <1>l DEF Locals, Rows, Observations, HealthOk, ProgressOk
      <3>2. Earned(loc[p].row.burnIn, loc[p].row.remediated)
        BY <2>2 DEF Good
      <3> QED BY <2>3, <3>1, <3>2, BurnInEarned
    <2>5. PICK row : row = [loc[p].row EXCEPT !.burnIn = burnIn]
      OBVIOUS
    <2>6. /\ row.burnIn = burnIn /\ row.status = loc[p].row.status
          /\ row.attempts = loc[p].row.attempts /\ row.remediated = loc[p].row.remediated
      BY <1>l, <2>5 DEF Rows
    <2>7. Good(loc[p].id, row)
      BY <2>2, <2>4, <2>6 DEF Good
    <2>8. \A j \in Incidents : Good(j, incidents'[j])
      BY <1>19, <2>3, <2>5, <2>7, WriteGood DEF AdvanceBurnIn
    <2>9. CASE EndTick(p)
      BY <2>8, <2>9, EndGood
    <2>10. CASE /\ burnIn.level = "STABLE" /\ pc' = [pc EXCEPT ![p] = "close"]
                /\ loc' = [loc EXCEPT ![p] = [loc[p] EXCEPT !.row.burnIn = burnIn]]
      <3>1. PICK l : l = [loc[p] EXCEPT !.row.burnIn = burnIn]
        OBVIOUS
      <3>2. l.id = loc[p].id /\ l.row = row
        BY <1>l, <2>5, <3>1 DEF Locals
      <3>3. pc'[p] = "close" /\ loc'[p].id = loc[p].id /\ loc'[p].row = row
        BY <1>m, <1>n, <2>10, <3>1, <3>2
      <3>4. row.burnIn.level = "STABLE" /\ Good(loc[p].id, row)
        BY <2>6, <2>7, <2>10
      <3>5. GoodCopy(p)'
        BY <3>3, <3>4 DEF GoodCopy
      <3> QED BY <2>8, <2>10, <3>1, <3>5, CopyStep
    <2> QED BY <1>19, <2>3, <2>9, <2>10 DEF AdvanceBurnIn
  <1>20. CASE CloseIncident(p)
    <2>1. pc[p] = "close" /\ loc[p].row.burnIn.level = "STABLE"
      BY <1>20, <1>g DEF CloseIncident, GoodCopy
    <2>2. Good(loc[p].id, loc[p].row)
      BY <1>h, <2>1 DEF HoldsIncident
    <2>3. Good(loc[p].id, Closed(loc[p].row))
      BY <1>l, <2>1, <2>2 DEF Closed, Good, Rows
    <2>4. \A j \in Incidents : Good(j, incidents'[j])
      BY <1>20, <1>k, <2>3, WriteGood DEF CloseIncident
    <2> QED BY <1>20, <2>4, EndGood DEF CloseIncident
  <1>21. ASSUME NEW k \in Intents, CreateIntent(p, k) PROVE RowsInv'
    <2>1. /\ pc[p] = "remediate" /\ pc' = [pc EXCEPT ![p] = "execute"]
          /\ incidents' = incidents /\ Decision(p) # NoStrategy
      BY <1>21 DEF CreateIntent
    <2>2. loc[p].id \in Incidents /\ loc[p].row.attempts \in Seq(Attempts)
      BY <1>h, <1>l, <2>1 DEF HoldsIncident, Rows
    <2>3. HasRoom(loc[p].id, loc[p].row.attempts, Decision(p))
      BY <2>1, <2>2, NextStrategyHasRoom DEF Decision, EvidenceDigest
    <2>4. PICK l : l = [loc[p] EXCEPT !.intent = k, !.strategy = Decision(p)]
      OBVIOUS
    <2>5. l.id = loc[p].id /\ l.row = loc[p].row /\ l.strategy = Decision(p)
      BY <1>l, <2>4 DEF Locals
    <2>6. loc' = [loc EXCEPT ![p] = l]
      BY <1>21, <2>4 DEF CreateIntent
    <2>7. GoodCopy(p)'
      BY <1>g, <1>m, <1>n, <2>1, <2>3, <2>5, <2>6 DEF GoodCopy
    <2> QED BY <1>k, <2>1, <2>6, <2>7, CopyStep
  <1>22. CASE ExecuteStrategy(p)
    <2>1. pc[p] = "execute" /\ pc' = [pc EXCEPT ![p] = "mark"] /\ incidents' = incidents
      BY <1>22 DEF ExecuteStrategy, stores
    <2>2. /\ loc[p].id \in Incidents /\ Good(loc[p].id, loc[p].row)
          /\ loc[p].row.status # "CLOSED" /\ loc[p].row.attempts \in Seq(Attempts)
          /\ HasRoom(loc[p].id, loc[p].row.attempts, loc[p].strategy)
          /\ loc[p].strategy \in Strategies
      BY <1>g, <1>h, <1>l, <1>t, <2>1 DEF HoldsIncident, Rows, GoodCopy, Bookkeeping
    <2>3. PICK ok \in BOOLEAN : loc' = [loc EXCEPT ![p] = [loc[p] EXCEPT !.ok = ok,
                !.row.attempts = RecordAttempt(@, loc[p].strategy, EvidenceDigest(loc[p].id)),
                !.row.remediated = TRUE]]
      BY <1>22 DEF ExecuteStrategy
    <2>4. PICK l : l = [loc[p] EXCEPT !.ok = ok,
                !.row.attempts = RecordAttempt(@, loc[p].strategy, EvidenceDigest(loc[p].id)),
                !.row.remediated = TRUE]
      OBVIOUS
    <2>5. /\ l.id = loc[p].id /\ l.row.remediated = TRUE /\ l.row.burnIn = loc[p].row.burnIn
          /\ l.row.status = loc[p].row.status
          /\ l.row.attempts = RecordAttempt(loc[p].row.attempts, loc[p].strategy, loc[p].id)
      BY <1>l, <2>4 DEF Locals, Rows, EvidenceDigest
    <2>6. WithinBudget(l.id, l.row.attempts)
      BY <2>2, <2>5, RecordFits DEF Good
    <2>7. Good(l.id, l.row)
      <3>1. Len(l.row.attempts) > 0
        BY <2>2, <2>5 DEF RecordAttempt
      <3> QED BY <2>2, <2>5, <2>6, <3>1 DEF Good, Earned
    <2>8. GoodCopy(p)'
      BY <1>m, <1>n, <2>1, <2>2, <2>3, <2>4, <2>5, <2>7 DEF GoodCopy
    <2> QED BY <1>k, <2>1, <2>3, <2>4, <2>8, CopyStep
  <1>23. CASE MarkIntent(p)
    <2>1. /\ pc[p] = "mark" /\ pc' = [pc EXCEPT ![p] = "save"] /\ loc' = loc
          /\ incidents' = incidents
      BY <1>23 DEF MarkIntent
    <2>2. loc' = [loc EXCEPT ![p] = loc[p]]
      BY <1>t, <2>1 DEF TypeOK
    <2>3. GoodCopy(p)'
      BY <1>g, <1>m, <2>1 DEF GoodCopy
    <2> QED BY <1>k, <2>1, <2>2, <2>3, CopyStep
  <1>24. CASE SaveRemediation(p)
    <2>1. pc[p] = "save" /\ loc[p].row.remediated /\ loc[p].row.status # "CLOSED"
      BY <1>24, <1>g DEF SaveRemediation, GoodCopy
    <2>2. Good(loc[p].id, loc[p].row)
      BY <1>h, <2>1 DEF HoldsIncident
    <2>3. PICK burnIn : burnIn = EvaluateBurnIn(InitialBurnIn, worker.units, loc[p].ok,
                                                loc[p].at, loc[p].ok)
      OBVIOUS
    <2>4. Earned(burnIn, loc[p].ok)
      <3>1. /\ InitialBurnIn \in BurnIns /\ worker.units \in 0 .. MaxUnits
            /\ loc[p].ok \in BOOLEAN /\ loc[p].at \in Time
        BY <1>l, <1>t, InitialTypes DEF Locals, TypeOK, Observations
      <3>2. Earned(InitialBurnIn, loc[p].ok)
        BY DEF Earned, InitialBurnIn
      <3> QED BY <2>3, <3>1, <3>2, BurnInEarned
    <2>5. PICK row : row = [loc[p].row EXCEPT !.burnIn = burnIn]
      OBVIOUS
    <2>6. /\ row.burnIn = burnIn /\ row.status = loc[p].row.status
          /\ row.attempts = loc[p].row.attempts /\ row.remediated = loc[p].row.remediated
      BY <1>l, <2>5 DEF Rows
    <2>7. Good(loc[p].id, row)
      BY <2>1, <2>2, <2>4, <2>6 DEF Good, Earned
    <2>8. \A j \in Incidents : Good(j, incidents'[j])
      BY <1>24, <2>3, <2>5, <2>7, WriteGood DEF SaveRemediation
    <2> QED BY <1>24, <2>8, EndGood DEF SaveRemediation
  <1> QED
    BY <1>1, <1>3, <1>4, <1>5, <1>6, <1>7, <1>8, <1>9, <1>10, <1>11, <1>12, <1>13, <1>14,
       <1>15, <1>16, <1>17, <1>18, <1>19, <1>20, <1>21, <1>22, <1>23, <1>24
    DEF Process, Step

\* So does every step.
LEMMA RowsNext ==
    ASSUME RowsInv, [Next]_vars PROVE RowsInv'
  <1>1. TypeInv'
    BY TypeNext DEF RowsInv
  <1>2. ASSUME NEW p \in Procs, Process(p) PROVE RowsInv'
    BY <1>1, <1>2, RowsProcess
  <1>3. CASE OperatorClears \/ Worker \/ ClockTicks \/ UNCHANGED vars
    BY <1>1, <1>3 DEF OperatorClears, Worker, ClockTicks, vars, stores, RowsInv, GoodCopy
  <1> QED BY <1>2, <1>3 DEF Next

\* However many processes write over each other's rows, the attempts recorded for an
\* incident stay within max_attempts and max_identical_attempts.
THEOREM AttemptsWithinBudgetHolds == Spec => []AttemptsWithinBudget
  <1>1. RowsInv => AttemptsWithinBudget
    BY DEF RowsInv, Good, WithinBudget, AttemptsWithinBudget, EvidenceDigest
  <1> QED BY <1>1, RowsInit, RowsNext, PTL DEF Spec

\* An incident is closed only after a remediation and a whole burn-in window, lost
\* leases and status commands included.
THEOREM ClosedAfterBurnInHolds == Spec => []ClosedAfterBurnIn
  <1>1. RowsInv => ClosedAfterBurnIn
    BY DEF RowsInv, Good, Earned, ClosedAfterBurnIn
  <1> QED BY <1>1, RowsInit, RowsNext, PTL DEF Spec
===============================================================================
