--------------------------- MODULE ExperimentProofs ---------------------------
(***************************************************************************)
(* Proofs about Experiment for every size of a schedule and any number of  *)
(* runs of the tools, edits and crashes: its types, and that the plan and  *)
(* the schedule a run completes with belong together as long as only init  *)
(* writes them and never dies.                                             *)
(***************************************************************************)
EXTENDS Experiment, TLAPS

\* init takes planned_units as the number of rows.
Fits(p) == p.body.schedule = p.body.units

\* What the tick has loaded is a plan.
Loaded == sup.at \in {"judge", "complete", "completed"} => sup.plan \in Plans

\* The files between the steps of init.
FilesFit ==
    /\ plan \in Plans => Fits(plan) /\ schedule # NoFile
    /\ contract = "none" /\ tool.at = "none" => schedule = NoFile
    /\ tool.at = "write_schedule" => tool.cmd = "init"
    /\ tool.at = "save_plan" => tool.cmd = "init" /\ schedule = tool.units
    /\ tool.at = "write_plan" =>
          tool.cmd = "init" /\ tool.hash = tool.units /\ schedule # NoFile

\* What the tick has in hand.
TickFits ==
    /\ sup.at \in {"judge", "complete", "completed"} => Fits(sup.plan)
    /\ sup.at = "judge" => schedule # NoFile
    /\ sup.at \in {"complete", "completed"} /\ sup.passed => sup.rows = sup.plan.body.units
    /\ sup.at = "completed" => sup.passed

OrderInv == orderly => FilesFit /\ TickFits

\* The inductive invariant: the files of an undisturbed init fit at every step of it,
\* and what a tick takes of them fits, whichever of them it meets.
IInv == TypeOK /\ Loaded /\ OrderInv

\* A directory nothing was written to fits.
LEMMA InitInvariant == Init => IInv
  <1> SUFFICES ASSUME Init
               PROVE  IInv
    OBVIOUS
  <1>1. NoTool \in ToolRuns /\ Down \in Ticks
    BY ExperimentAssumption DEF NoTool, Down, ToolRuns, Ticks, Sizes
  <1>2. TypeOK
    BY <1>1, ExperimentAssumption DEF Init, TypeOK
  <1>3. Loaded /\ OrderInv
    BY PlanAssumption DEF Init, Loaded, OrderInv, FilesFit, TickFits, NoTool, Down
  <1>4. QED
    BY <1>2, <1>3 DEF IInv

-------------------------------------------------------------------------------
\* Types.

\* A signed body is a plan.
LEMMA SignedPlan ==
  ASSUME NEW b \in Bodies
  PROVE  Signed(b) \in Plans /\ Signed(b).body = b
  BY DEF Signed, Plans

\* The bodies the tools and the analyst put together.
LEMMA BodyType ==
  /\ \A n \in Sizes, f \in BOOLEAN, h \in Rows \cup {NoHash} :
        [units |-> n, schedule |-> h, frozen |-> f] \in Bodies
  /\ \A b \in Bodies, n \in Sizes, f \in BOOLEAN :
        [b EXCEPT !.units = n, !.frozen = f] \in Bodies
  BY DEF Bodies

\* planned_units of a tool is a number of rows, and no missing file.
LEMMA ToolSizes ==
  \A t \in ToolRuns : /\ t.units \in Sizes /\ t.units \in Rows /\ t.units # NoFile /\ t.units # NoHash
                      /\ t.hash \in Rows \cup {NoHash} /\ t.frozen \in BOOLEAN
  BY ExperimentAssumption DEF ToolRuns, Sizes, Rows

\* The records of a tool at rest and of one that goes on to its next step.
LEMMA ToolRecords ==
  /\ NoTool \in ToolRuns /\ NoTool.at = "none"
  /\ \A t \in ToolRuns : \A at \in {"save_plan", "save_contract", "write_contract"} :
        /\ [t EXCEPT !.at = at] \in ToolRuns
        /\ [t EXCEPT !.at = at].at = at
        /\ [t EXCEPT !.at = at].cmd = t.cmd
        /\ [t EXCEPT !.at = at].units = t.units
  <1>1. NoTool \in ToolRuns /\ NoTool.at = "none"
    BY ExperimentAssumption DEF NoTool, ToolRuns, Sizes
  <1>2. QED
    BY <1>1 DEF ToolRuns

\* The same for the supervisor.
LEMMA TickRecords ==
  /\ Down \in Ticks /\ Down.at = "down"
  /\ \A at \in {"idle", "blocked"} :
        [Down EXCEPT !.at = at] \in Ticks /\ [Down EXCEPT !.at = at].at = at
  /\ \A b \in BOOLEAN :
        /\ [Down EXCEPT !.at = "load_plan", !.seen = b] \in Ticks
        /\ [Down EXCEPT !.at = "load_plan", !.seen = b].at = "load_plan"
  BY DEF Down, Ticks

\* A tool has in hand what one of its kind can, after each of its steps.
LEMMA ToolRunType ==
  ASSUME TypeOK, ToolStep \/ ToolDies
  PROVE  tool' \in ToolRuns
  <1>0. tool \in ToolRuns /\ schedule \in Rows \cup {NoFile}
    BY DEF TypeOK
  <1>1. CASE WriteSchedule \/ SaveContract
    BY <1>0, <1>1, ToolRecords DEF WriteSchedule, SaveContract
  <1>2. CASE SavePlan
    <2>1. HashIfAny(schedule) \in Rows \cup {NoHash}
      BY <1>0 DEF HashIfAny
    <2> DEFINE h == IF tool.cmd = "emit_bare" THEN NoHash ELSE HashIfAny(schedule)
    <2>2. h \in Rows \cup {NoHash}
      BY <2>1
    <2>3. tool' \in {NoTool, [tool EXCEPT !.at = "write_plan", !.hash = h]}
      BY <1>2 DEF SavePlan
    <2> HIDE DEF h
    <2>4. [tool EXCEPT !.at = "write_plan", !.hash = h] \in ToolRuns
      BY <1>0, <2>2 DEF ToolRuns
    <2>5. QED
      BY <2>3, <2>4, ToolRecords
  <1>3. CASE WritePlan \/ WriteContract \/ ToolDies
    BY <1>0, <1>3, ToolRecords DEF WritePlan, WriteContract, ToolDies
  <1>4. QED
    BY <1>1, <1>2, <1>3 DEF ToolStep

\* A step of a tool, or its death, leaves files of their types.
LEMMA ToolType ==
  ASSUME TypeOK, ToolStep \/ ToolDies
  PROVE  TypeOK'
  <1>0. tool' \in ToolRuns /\ tool.units \in Rows
    BY ToolRunType, ToolSizes DEF TypeOK
  <1>1. CASE WriteSchedule
    BY <1>0, <1>1 DEF WriteSchedule, TypeOK, worker, bounds
  <1>2. CASE SavePlan
    BY <1>0, <1>2 DEF SavePlan, TypeOK, worker, bounds
  <1>3. CASE WritePlan
    <2>1. [units |-> tool.units, schedule |-> tool.hash, frozen |-> tool.frozen] \in Bodies
      BY BodyType, ToolSizes DEF TypeOK
    <2>2. plan' \in Plans
      BY <1>3, <2>1, SignedPlan DEF WritePlan
    <2>3. QED
      BY <1>0, <1>3, <2>2 DEF WritePlan, TypeOK, worker, bounds
  <1>4. CASE SaveContract
    BY <1>0, <1>4 DEF SaveContract, TypeOK, worker, bounds
  <1>5. CASE WriteContract
    BY <1>0, <1>5 DEF WriteContract, TypeOK, worker, bounds
  <1>6. CASE ToolDies
    <2>1. crashes' \in 0 .. MaxCrashes
      BY <1>6, ExperimentAssumption DEF ToolDies, TypeOK
    <2>2. QED
      BY <1>0, <1>6, <2>1 DEF ToolDies, TypeOK, files, worker
  <1>7. QED
    BY <1>1, <1>2, <1>3, <1>4, <1>5, <1>6 DEF ToolStep

\* So does starting one.
LEMMA StartType ==
  ASSUME TypeOK, Tool
  PROVE  TypeOK'
  <1>0. tools' \in 0 .. MaxTools
    <2>1. tools' = tools + 1 /\ tools < MaxTools
      BY DEF Tool, InitExperiment, InitPlain, EmitPlan, ToolStarts
    <2>2. QED
      BY <2>1, ExperimentAssumption DEF TypeOK
  <1>1. ASSUME NEW n \in Sizes, NEW force \in BOOLEAN, InitExperiment(n, force)
        PROVE  TypeOK'
    <2>1. tool' \in ToolRuns
      BY <1>1 DEF InitExperiment, NoTool, ToolRuns
    <2>2. schedule' \in Rows \cup {NoFile}
      BY <1>1, ExperimentAssumption DEF InitExperiment, TypeOK, Rows
    <2>3. QED
      BY <1>0, <1>1, <2>1, <2>2 DEF InitExperiment, ToolStarts, TypeOK, worker
  <1>2. ASSUME NEW force \in BOOLEAN, InitPlain(force)
        PROVE  TypeOK'
    <2>1. tool' \in ToolRuns
      BY <1>2, ToolRecords DEF InitPlain, ToolRuns
    <2>2. QED
      BY <1>0, <1>2, <2>1 DEF InitPlain, ToolStarts, TypeOK, worker
  <1>3. ASSUME NEW n \in Sizes, NEW frozen \in BOOLEAN, NEW given \in BOOLEAN,
               EmitPlan(n, frozen, given)
        PROVE  TypeOK'
    <2>1. ASSUME NEW c \in {"emit", "emit_bare"}
          PROVE  [NoTool EXCEPT !.at = "save_plan", !.cmd = c, !.units = n, !.frozen = frozen]
                     \in ToolRuns
      <3>1. NoTool \in ToolRuns
        BY ToolRecords
      <3>2. \A t \in ToolRuns, f \in BOOLEAN : [t EXCEPT !.frozen = f] \in ToolRuns
        BY DEF ToolRuns
      <3>3. [NoTool EXCEPT !.at = "save_plan", !.cmd = c, !.units = n] \in ToolRuns
        BY <3>1 DEF ToolRuns
      <3>4. QED
        BY <3>2, <3>3
    <2>2. tool' \in {[NoTool EXCEPT !.at = "save_plan", !.cmd = c, !.units = n, !.frozen = frozen] :
                         c \in {"emit", "emit_bare"}}
      BY <1>3 DEF EmitPlan
    <2>3. tool' \in ToolRuns
      BY <2>1, <2>2
    <2>4. QED
      BY <1>0, <1>3, <2>3 DEF EmitPlan, ToolStarts, TypeOK, files, worker
  <1>4. QED
    BY <1>1, <1>2, <1>3 DEF Tool

\* So does an edit of the schedule or the plan.
LEMMA AnalystType ==
  ASSUME TypeOK, EditSchedule \/ EditPlan
  PROVE  TypeOK'
  <1>0. edits' \in 0 .. MaxEdits
    <2>1. edits' = edits + 1 /\ edits < MaxEdits
      BY DEF EditSchedule, EditPlan, Edits
    <2>2. QED
      BY <2>1, ExperimentAssumption DEF TypeOK
  <1>1. CASE EditSchedule
    <2>1. schedule' \in Rows \cup {NoFile}
      BY <1>1, ExperimentAssumption DEF EditSchedule, Sizes, Rows
    <2>2. QED
      BY <1>0, <1>1, <2>1 DEF EditSchedule, Edits, TypeOK, worker
  <1>2. CASE EditPlan
    <2>1. PICK n \in Sizes, f \in BOOLEAN :
              plan' \in {Signed([plan.body EXCEPT !.units = n, !.frozen = f]),
                         [plan EXCEPT !.body = [plan.body EXCEPT !.units = n, !.frozen = f]]}
      BY <1>2 DEF EditPlan
    <2>2. plan \in Plans /\ plan.body \in Bodies
      BY <1>2 DEF EditPlan, Plans
    <2>3. [plan.body EXCEPT !.units = n, !.frozen = f] \in Bodies
      BY <2>2, BodyType
    <2>4. plan' \in Plans
      BY <2>1, <2>2, <2>3, SignedPlan DEF Plans
    <2>5. QED
      BY <1>0, <1>2, <2>4 DEF EditPlan, Edits, TypeOK, worker
  <1>3. QED
    BY <1>1, <1>2

\* A tick has in hand what the readers of the files can return.
LEMMA TickType ==
  ASSUME TypeOK, Tick \/ Clear \/ SupervisorDies
  PROVE  sup' \in Ticks
  <1>0. /\ sup \in Ticks /\ schedule \in Rows \cup {NoFile} /\ units \in 0 .. MaxUnits
    BY DEF TypeOK
  <1>1. CASE Start \/ Clear \/ SupervisorDies
    BY <1>1, TickRecords DEF Start, Clear, SupervisorDies
  <1>2. CASE Inspect
    <2>1. (units > 0) \in BOOLEAN
      BY <1>0, ExperimentAssumption
    <2>2. QED
      BY <1>2, <2>1, TickRecords DEF Inspect
  <1>3. CASE LoadPlan
    <2>1. plan \in Plans => [sup EXCEPT !.at = "judge", !.plan = plan] \in Ticks
      BY <1>0 DEF Ticks
    <2>2. QED
      BY <1>3, <2>1, TickRecords DEF LoadPlan
  <1>4. CASE Judge
    <2> DEFINE b == Sound(sup.plan) /\ ~Drifted(sup.plan, schedule)
    <2>1. b \in BOOLEAN
      BY DEF Sound, Drifted
    <2>2. sup' \in {[Down EXCEPT !.at = "blocked"],
                    [sup EXCEPT !.at = "complete", !.rows = schedule, !.passed = b]}
      BY <1>4 DEF Judge
    <2> HIDE DEF b
    <2>3. [sup EXCEPT !.at = "complete", !.rows = schedule, !.passed = b] \in Ticks
      BY <1>0, <2>1 DEF Ticks
    <2>4. QED
      BY <2>2, <2>3, TickRecords
  <1>5. CASE Complete
    <2>1. [sup EXCEPT !.at = "completed"] \in Ticks
      BY <1>0 DEF Ticks
    <2>2. QED
      BY <1>5, <2>1, TickRecords DEF Complete
  <1>6. QED
    BY <1>1, <1>2, <1>3, <1>4, <1>5 DEF Tick

\* A step of the supervisor leaves everything typed, its death included.
LEMMA SupervisorType ==
  ASSUME TypeOK, Tick \/ Clear \/ SupervisorDies
  PROVE  TypeOK'
  <1>1. CASE Tick \/ Clear
    BY <1>1, TickType
    DEF Tick, Start, Inspect, LoadPlan, Judge, Complete, Clear, TypeOK, files, worker, bounds
  <1>2. CASE SupervisorDies
    <2>1. crashes' \in 0 .. MaxCrashes
      BY <1>2, ExperimentAssumption DEF SupervisorDies, TypeOK
    <2>2. QED
      BY <1>2, <2>1, TickType DEF SupervisorDies, TypeOK, files, worker
  <1>3. QED
    BY <1>1, <1>2

\* So does a step of the worker.
LEMMA WorkerType ==
  ASSUME TypeOK, DoUnit \/ Launch
  PROVE  TypeOK'
  <1>1. CASE DoUnit
    BY <1>1, ExperimentAssumption DEF DoUnit, TypeOK, files, bounds
  <1>2. CASE Launch
    BY <1>2 DEF Launch, TypeOK, files, bounds, Plans
  <1>3. QED
    BY <1>1, <1>2

-------------------------------------------------------------------------------
\* Steps of the tools.

\* The tick in hand does not see what the tools do to the files, as long as there is
\* a schedule.
LEMMA TickUndisturbed ==
  ASSUME TickFits, sup' = sup, schedule # NoFile => schedule' # NoFile
  PROVE  TickFits'
  BY DEF TickFits

\* A step of a tool in good order keeps plan and schedule fitting, on disk and in the
\* hands of the tick that reads them meanwhile.
LEMMA ToolKeeps ==
  ASSUME IInv, ToolStep, orderly'
  PROVE  FilesFit' /\ TickFits'
  <1>0. TypeOK /\ tool \in ToolRuns
    BY DEF IInv, TypeOK
  <1>1. CASE WriteSchedule
    <2>1. FilesFit /\ TickFits
      BY <1>1 DEF WriteSchedule, bounds, IInv, OrderInv
    <2>2. /\ tool'.at = "save_plan" /\ tool'.cmd = tool.cmd /\ tool'.units = tool.units
          /\ schedule' = tool.units /\ schedule' # NoFile
          /\ UNCHANGED <<plan, contract, sup>>
      BY <1>0, <1>1, ToolRecords, ToolSizes DEF WriteSchedule
    <2>3. tool.cmd = "init"
      BY <1>0, <1>1, <2>1 DEF WriteSchedule, FilesFit
    <2>4. QED
      BY <2>1, <2>2, <2>3, TickUndisturbed DEF FilesFit
  <1>2. CASE SavePlan
    <2>1. FilesFit /\ TickFits /\ tool.cmd = "init" /\ schedule = tool.units
      BY <1>2 DEF SavePlan, bounds, IInv, OrderInv, FilesFit
    <2>2. HashIfAny(schedule) = tool.units /\ schedule # NoFile /\ tool.units \in Rows \cup {NoHash}
      BY <1>0, <2>1, ToolSizes DEF HashIfAny
    <2>3. /\ tool'.at = "write_plan" /\ tool'.cmd = "init" /\ tool'.units = tool.units
          /\ tool'.hash = tool.units
          /\ plan' = Empty /\ UNCHANGED <<schedule, contract, sup>>
      BY <1>0, <1>2, <2>1, <2>2 DEF SavePlan, ToolRuns
    <2>4. QED
      BY <2>1, <2>2, <2>3, PlanAssumption, TickUndisturbed DEF FilesFit
  <1>3. CASE WritePlan
    <2> DEFINE b == [units |-> tool.units, schedule |-> tool.hash, frozen |-> tool.frozen]
    <2>1. /\ FilesFit /\ TickFits /\ schedule # NoFile
          /\ tool.cmd = "init" /\ tool.hash = tool.units
      BY <1>3 DEF WritePlan, bounds, IInv, OrderInv, FilesFit
    <2>2. b.schedule = b.units
      BY <2>1
    <2>3. b \in Bodies
      BY <1>0, BodyType, ToolSizes
    <2>4. Fits(Signed(b))
      BY <2>2, <2>3, SignedPlan DEF Fits
    <2>5. /\ plan' = Signed(b) /\ tool'.at = "save_contract"
          /\ UNCHANGED <<schedule, contract, sup>>
      BY <1>0, <1>3, <2>1, ToolRecords DEF WritePlan
    <2> HIDE DEF b
    <2>6. QED
      BY <2>1, <2>4, <2>5, TickUndisturbed DEF FilesFit
  <1>4. CASE SaveContract
    <2>1. FilesFit /\ TickFits
      BY <1>4 DEF SaveContract, bounds, IInv, OrderInv
    <2>2. tool'.at = "write_contract" /\ UNCHANGED <<schedule, plan, sup>>
      BY <1>0, <1>4, ToolRecords DEF SaveContract
    <2>3. QED
      BY <2>1, <2>2, TickUndisturbed DEF FilesFit
  <1>5. CASE WriteContract
    <2>1. FilesFit /\ TickFits
      BY <1>5 DEF WriteContract, bounds, IInv, OrderInv
    <2>2. tool'.at = "none" /\ contract' # "none" /\ UNCHANGED <<schedule, plan, sup>>
      BY <1>5 DEF WriteContract, NoTool
    <2>3. QED
      BY <2>1, <2>2, TickUndisturbed DEF FilesFit
  <1>6. QED
    BY <1>1, <1>2, <1>3, <1>4, <1>5 DEF ToolStep

\* An init that is let through without --force finds no schedule.
LEMMA StartKeeps ==
  ASSUME IInv, Tool, orderly'
  PROVE  FilesFit' /\ TickFits'
  <1>1. ASSUME NEW n \in Sizes, NEW force \in BOOLEAN, InitExperiment(n, force)
        PROVE  FilesFit' /\ TickFits'
    <2>1. FilesFit /\ TickFits /\ tool.at = "none"
      BY <1>1 DEF InitExperiment, ToolStarts, IInv, OrderInv
    <2>2. schedule # NoFile => force
      BY <1>1, <2>1 DEF InitExperiment, Allowed, FilesFit
    <2>3. /\ tool' = [NoTool EXCEPT !.at = "write_schedule", !.cmd = "init", !.units = n,
                                   !.frozen = TRUE]
          /\ schedule' = 0 /\ UNCHANGED <<plan, contract, sup>>
      BY <1>1, <2>2 DEF InitExperiment, ToolStarts
    <2>4. tool'.at = "write_schedule" /\ tool'.cmd = "init" /\ schedule' # NoFile
      BY <2>3, ExperimentAssumption DEF NoTool
    <2>5. QED
      BY <2>1, <2>3, <2>4, TickUndisturbed DEF FilesFit
  <1>2. ASSUME NEW force \in BOOLEAN, InitPlain(force)
        PROVE  FilesFit' /\ TickFits'
    <2>1. FilesFit /\ TickFits
      BY <1>2 DEF InitPlain, ToolStarts, IInv, OrderInv
    <2>2. /\ tool'.at = "write_contract" /\ contract' # "none"
          /\ UNCHANGED <<schedule, plan, sup>>
      BY <1>2 DEF InitPlain, ToolStarts, NoTool
    <2>3. QED
      BY <2>1, <2>2, TickUndisturbed DEF FilesFit
  <1>3. ASSUME NEW n \in Sizes, NEW frozen \in BOOLEAN, NEW given \in BOOLEAN,
               EmitPlan(n, frozen, given)
        PROVE  FALSE
    BY <1>3 DEF EmitPlan
  <1>4. QED
    BY <1>1, <1>2, <1>3 DEF Tool

-------------------------------------------------------------------------------
\* Steps of the supervisor.

\* Loaded is kept by every step.
LEMMA LoadedKept ==
  ASSUME IInv, [Next]_vars
  PROVE  Loaded'
  <1>0. sup \in Ticks /\ Loaded
    BY DEF IInv, TypeOK
  <1>1. CASE Start \/ Inspect \/ Clear \/ SupervisorDies
    <2>1. sup'.at \in {"idle", "load_plan", "down"}
      <3>1. (units > 0) \in BOOLEAN
        BY DEF IInv, TypeOK
      <3>2. QED
        BY <1>1, <3>1, TickRecords DEF Start, Inspect, Clear, SupervisorDies
    <2>2. QED
      BY <2>1 DEF Loaded
  <1>2. CASE LoadPlan
    BY <1>0, <1>2 DEF LoadPlan, Loaded, Ticks, Down
  <1>3. CASE Judge \/ Complete
    <2>1. sup.plan \in Plans
      BY <1>0, <1>3 DEF Judge, Complete, Loaded
    <2>2. sup'.plan = sup.plan \/ sup'.at \in {"blocked", "idle"}
      BY <1>0, <1>3 DEF Judge, Complete, Ticks, Down
    <2>3. QED
      BY <2>1, <2>2 DEF Loaded
  <1>4. CASE sup' = sup
    BY <1>0, <1>4 DEF Loaded
  <1>5. QED
    BY <1>1, <1>2, <1>3, <1>4
    DEF Next, vars, Tick, Tool, ToolStarts, InitExperiment, InitPlain, EmitPlan, ToolStep,
        WriteSchedule, SavePlan, WritePlan, SaveContract, WriteContract, ToolDies,
        EditSchedule, EditPlan, Edits, DoUnit, Launch

\* The files do not change when the supervisor steps.
LEMMA FilesUntouched ==
  ASSUME FilesFit, UNCHANGED <<files, tool>>
  PROVE  FilesFit'
  BY DEF FilesFit, files

\* A tick that has not loaded a plan, or has dropped it, has nothing to fit.
LEMMA NothingInHand ==
  ASSUME sup'.at \in {"down", "idle", "load_plan", "blocked"}
  PROVE  TickFits'
  BY DEF TickFits

\* A schedule that passes fits a plan that fits.
LEMMA PassedFits ==
  ASSUME NEW p \in Plans, NEW r \in Rows, Fits(p), ~Drifted(p, r)
  PROVE  r = p.body.units
  <1>1. p.body \in Bodies
    BY DEF Plans
  <1>2. p.body.units \in Rows
    BY <1>1 DEF Bodies, Sizes, Rows
  <1>3. NoHash \notin Rows /\ NoFile \notin Rows
    BY ExperimentAssumption DEF Rows
  <1>4. QED
    BY <1>2, <1>3 DEF Fits, Drifted, HashIfAny

\* So does a step of the supervisor, which writes neither.
LEMMA SupervisorKeeps ==
  ASSUME IInv, Tick \/ Clear \/ SupervisorDies, orderly'
  PROVE  FilesFit' /\ TickFits'
  <1>1. orderly /\ UNCHANGED <<files, tool>>
    BY DEF Tick, Start, Inspect, LoadPlan, Judge, Complete, Clear, SupervisorDies, bounds
  <1>2. FilesFit /\ TickFits /\ FilesFit'
    BY <1>1, FilesUntouched DEF IInv, OrderInv
  <1>3. sup \in Ticks /\ schedule \in Rows \cup {NoFile} /\ Loaded
    BY DEF IInv, TypeOK
  <1>4. CASE Start \/ Inspect
    <2>1. (units > 0) \in BOOLEAN
      BY DEF IInv, TypeOK
    <2>2. QED
      BY <1>2, <1>4, <2>1, TickRecords, NothingInHand DEF Start, Inspect
  <1>5. CASE LoadPlan
    <2>1. CASE plan \in Plans
      <3>1. sup'.at = "judge" /\ sup'.plan = plan /\ Fits(plan) /\ schedule' # NoFile
        BY <1>1, <1>2, <1>3, <1>5, <2>1 DEF LoadPlan, FilesFit, files, Ticks
      <3>2. QED
        BY <1>2, <3>1 DEF TickFits
    <2>2. CASE plan \notin Plans
      BY <1>2, <1>5, <2>2, TickRecords, NothingInHand DEF LoadPlan
    <2>3. QED
      BY <2>1, <2>2
  <1>6. CASE Judge
    <2>1. Fits(sup.plan) /\ schedule \in Rows /\ sup.plan \in Plans
      BY <1>2, <1>3, <1>6 DEF Judge, TickFits, Loaded
    <2>2. CASE sup.seen /\ ~sup.plan.body.frozen
      BY <1>2, <1>6, <2>2, TickRecords, NothingInHand DEF Judge
    <2>3. CASE ~(sup.seen /\ ~sup.plan.body.frozen)
      <3> DEFINE b == Sound(sup.plan) /\ ~Drifted(sup.plan, schedule)
      <3>1. b \in BOOLEAN
        BY DEF Sound, Drifted
      <3>2. b => schedule = sup.plan.body.units
        BY <2>1, PassedFits
      <3>3. sup' = [sup EXCEPT !.at = "complete", !.rows = schedule, !.passed = b]
        BY <1>6, <2>3 DEF Judge
      <3> HIDE DEF b
      <3>4. /\ sup'.at = "complete" /\ sup'.plan = sup.plan
            /\ sup'.rows = schedule /\ sup'.passed = b
        BY <1>3, <3>3 DEF Ticks
      <3>5. QED
        BY <1>2, <2>1, <3>2, <3>4 DEF TickFits
    <2>4. QED
      BY <2>2, <2>3
  <1>7. CASE Complete
    <2>1. CASE Met
      <3>1. /\ sup'.at = "completed" /\ sup'.plan = sup.plan
            /\ sup'.rows = sup.rows /\ sup'.passed = sup.passed /\ sup.passed
        BY <1>3, <1>7, <2>1 DEF Complete, Met, Ticks
      <3>2. QED
        BY <1>2, <1>7, <3>1 DEF Complete, TickFits
    <2>2. CASE ~Met
      BY <1>2, <1>7, <2>2, TickRecords, NothingInHand DEF Complete
    <2>3. QED
      BY <2>1, <2>2
  <1>8. CASE Clear \/ SupervisorDies
    BY <1>2, <1>8, TickRecords, NothingInHand DEF Clear, SupervisorDies
  <1>9. QED
    BY <1>4, <1>5, <1>6, <1>7, <1>8 DEF Tick

-------------------------------------------------------------------------------
\* Every step keeps the invariant.
LEMMA NextInvariant == IInv /\ [Next]_vars => IInv'
  <1> SUFFICES ASSUME IInv, [Next]_vars
               PROVE  IInv'
    OBVIOUS
  <1>1. TypeOK'
    <2>1. CASE UNCHANGED vars
      BY <2>1 DEF IInv, TypeOK, vars, files, worker, bounds
    <2>2. QED
      BY <2>1, ToolType, StartType, AnalystType, SupervisorType, WorkerType DEF IInv, Next
  <1>2. OrderInv'
    <2>1. CASE ToolDies \/ EditSchedule \/ EditPlan
      BY <2>1 DEF ToolDies, EditSchedule, EditPlan, Edits, OrderInv
    <2>2. CASE DoUnit \/ Launch \/ UNCHANGED vars
      BY <2>2 DEF DoUnit, Launch, vars, files, bounds, IInv, OrderInv, FilesFit, TickFits
    <2>3. QED
      BY <2>1, <2>2, ToolKeeps, StartKeeps, SupervisorKeeps DEF Next, OrderInv
  <1>3. QED
    BY <1>1, <1>2, LoadedKept DEF IInv

\* In every reachable state files, tool and tick are typed, and in good order what is on
\* disk and what a tick has loaded of plan and schedule fits together (cli.py, plan.py).
THEOREM ExperimentInvariant == Spec => []IInv
  BY InitInvariant, NextInvariant, PTL DEF Spec

\* Type correctness, for every bound: what any tool, edit or crash leaves behind is a
\* file the readers know.
THEOREM ExperimentTypes == Spec => []TypeOK
  <1>1. IInv => TypeOK
    BY DEF IInv
  <1>2. QED
    BY ExperimentInvariant, <1>1, PTL

\* An undisturbed project completes only with a schedule of planned_units rows, however
\* init --force and the ticks interleave.
THEOREM ScheduleFitsThePlan == Spec => []ScheduleFitsPlan
  <1>1. IInv => ScheduleFitsPlan
    BY DEF IInv, OrderInv, TickFits, ScheduleFitsPlan
  <1>2. QED
    BY ExperimentInvariant, <1>1, PTL
===============================================================================
