------------------------------ MODULE Experiment ------------------------------
(***************************************************************************)
(* The experiment of a project: contract.yaml, experiment/plan.json and    *)
(* experiment/schedule.csv, which `init --with-experiment` (cli.py) and    *)
(* emit_plan.py write and an analyst edits, while the supervisor's tick    *)
(* reads them (experiment/plan.py), judges them (validity/evaluator.py)    *)
(* and completes the run (completion/evaluator.py).                        *)
(*                                                                         *)
(* A write truncates the file and then writes it: a process that dies in   *)
(* between leaves it empty.  A text of the schedule is its number of rows, *)
(* and the hash of a content is the content.  The other validity checks    *)
(* are in module Evaluators; they pass here.                               *)
(***************************************************************************)
EXTENDS Integers

CONSTANTS
    MaxUnits,   \* bound: planned_units, rows of a schedule, completed units
    NoFile,     \* the file does not exist
    Empty,      \* what truncation leaves of a JSON or YAML file: reading it raises
    NoHash,     \* None
    MaxTools,   \* bound: runs of init and emit_plan
    MaxEdits,   \* bound: edits by hand
    MaxCrashes  \* bound: crashes

ASSUME ExperimentAssumption ==
    /\ MaxUnits \in Nat \ {0}
    /\ NoFile \notin 0 .. MaxUnits /\ NoHash \notin 0 .. MaxUnits /\ NoFile # NoHash
    /\ MaxTools \in Nat /\ MaxEdits \in Nat /\ MaxCrashes \in Nat

Sizes == 1 .. MaxUnits
Rows == 0 .. MaxUnits       \* 0: the empty file

\* ExperimentPlan without plan_hash, and with it.
Bodies == [units : Sizes, schedule : Rows \cup {NoHash}, frozen : BOOLEAN]
Plans == [body : Bodies, hash : Bodies]

ASSUME PlanAssumption ==
    /\ NoFile \notin Plans /\ Empty \notin Plans /\ NoFile # Empty /\ NoHash \notin Bodies

VARIABLES
    schedule,   \* experiment/schedule.csv
    plan,       \* experiment/plan.json
    contract,   \* contract.yaml: does it name an experiment?
    tool,       \* the run of init or emit_plan under way
    sup,        \* the supervisor and what its tick has read
    units,      \* external: completed_units of the worker
    launched,   \* external: plan_hash in the worker's fingerprint, from its launch
    tools, edits, crashes,
    orderly     \* history: only init wrote these files, and it never died

files == <<schedule, plan, contract>>
worker == <<units, launched>>
bounds == <<tools, edits, crashes, orderly>>
vars == <<files, tool, sup, worker, bounds>>

NoTool == [at |-> "none", cmd |-> "none", units |-> 1, frozen |-> FALSE, hash |-> NoHash]
Down == [at |-> "down", seen |-> FALSE, plan |-> NoFile, rows |-> NoFile, passed |-> FALSE]

Init ==
    /\ schedule = NoFile /\ plan = NoFile /\ contract = "none"
    /\ tool = NoTool /\ sup = Down
    /\ units = 0 /\ launched = NoHash
    /\ tools = 0 /\ edits = 0 /\ crashes = 0 /\ orderly = TRUE

-------------------------------------------------------------------------------
\* `research-harness init` and emit_plan.py, one at a time.

\* Mutant: an existing contract does not stop init.
AlwaysAllowed(force) == TRUE
Allowed(force) == contract = "none" \/ force

ToolStarts ==
    /\ tool.at = "none" /\ tools < MaxTools
    /\ tools' = tools + 1
    /\ UNCHANGED <<sup, worker, edits, crashes>>

\* With --with-experiment: a schedule that exists is kept unless --force is given.
InitExperiment(n, force) ==
    /\ ToolStarts /\ Allowed(force)
    /\ LET keep == schedule # NoFile /\ ~force
       IN  /\ tool' = [NoTool EXCEPT !.at = IF keep THEN "save_plan" ELSE "write_schedule",
                                     !.cmd = "init", !.units = n, !.frozen = TRUE]
           /\ schedule' = IF keep THEN schedule ELSE 0
    /\ UNCHANGED <<plan, contract, orderly>>

\* Without it only the contract is written.
InitPlain(force) ==
    /\ ToolStarts /\ Allowed(force)
    /\ tool' = [NoTool EXCEPT !.at = "write_contract", !.cmd = "plain"]
    /\ contract' = "empty"
    /\ UNCHANGED <<schedule, plan, orderly>>

WriteSchedule ==
    /\ tool.at = "write_schedule"
    /\ schedule' = tool.units
    /\ tool' = [tool EXCEPT !.at = "save_plan"]
    /\ UNCHANGED <<plan, contract, sup, worker, bounds>>

\* emit_plan.py: --planned-units, --freeze, and --schedule or not.
EmitPlan(n, frozen, given) ==
    /\ ToolStarts
    /\ tool' = [NoTool EXCEPT !.at = "save_plan", !.cmd = IF given THEN "emit" ELSE "emit_bare",
                              !.units = n, !.frozen = frozen]
    /\ orderly' = FALSE
    /\ UNCHANGED files

\* Mutant: the schedule is hashed without a look whether it exists.
HashOf(file) == file
HashIfAny(file) == IF file = NoFile THEN NoHash ELSE file

\* The schedule is hashed, and plan.json truncated.  init raises without a schedule.
SavePlan ==
    /\ tool.at = "save_plan"
    /\ IF tool.cmd = "init" /\ schedule = NoFile
       THEN tool' = NoTool /\ UNCHANGED plan
       ELSE /\ tool' = [tool EXCEPT !.at = "write_plan",
                           !.hash = IF tool.cmd = "emit_bare" THEN NoHash ELSE HashIfAny(schedule)]
            /\ plan' = Empty
    /\ UNCHANGED <<schedule, contract, sup, worker, bounds>>

\* compute_plan_hash over what was just put together.
Signed(body) == [body |-> body, hash |-> body]

WritePlan ==
    /\ tool.at = "write_plan"
    /\ plan' = Signed([units |-> tool.units, schedule |-> tool.hash, frozen |-> tool.frozen])
    /\ tool' = IF tool.cmd = "init" THEN [tool EXCEPT !.at = "save_contract"] ELSE NoTool
    /\ UNCHANGED <<schedule, contract, sup, worker, bounds>>

SaveContract ==
    /\ tool.at = "save_contract"
    /\ contract' = "empty"
    /\ tool' = [tool EXCEPT !.at = "write_contract"]
    /\ UNCHANGED <<schedule, plan, sup, worker, bounds>>

WriteContract ==
    /\ tool.at = "write_contract"
    /\ contract' = IF tool.cmd = "init" THEN "experiment" ELSE "plain"
    /\ tool' = NoTool
    /\ UNCHANGED <<schedule, plan, sup, worker, bounds>>

ToolDies ==
    /\ tool.at # "none" /\ crashes < MaxCrashes
    /\ crashes' = crashes + 1
    /\ tool' = NoTool
    /\ orderly' = FALSE
    /\ UNCHANGED <<files, sup, worker, tools, edits>>

-------------------------------------------------------------------------------
\* The analyst.  External.

Edits ==
    /\ edits < MaxEdits
    /\ edits' = edits + 1
    /\ orderly' = FALSE
    /\ UNCHANGED <<contract, tool, sup, worker, tools, crashes>>

\* The schedule is rewritten or deleted.
EditSchedule ==
    /\ Edits
    /\ schedule' \in (Sizes \cup {NoFile}) \ {schedule}
    /\ UNCHANGED plan

\* The plan is changed, frozen or unfrozen, and its hash recomputed or not.
EditPlan ==
    /\ Edits /\ plan \in Plans
    /\ \E n \in Sizes, f \in BOOLEAN :
          LET body == [plan.body EXCEPT !.units = n, !.frozen = f]
          IN  plan' \in {Signed(body), [plan EXCEPT !.body = body]} \ {plan}
    /\ UNCHANGED schedule

-------------------------------------------------------------------------------
\* The worker.  External.

DoUnit ==
    /\ units < MaxUnits
    /\ units' = units + 1
    /\ UNCHANGED <<files, tool, sup, launched, bounds>>

\* Its adapter reports the hash of the plan it was launched under.
Launch ==
    /\ plan \in Plans /\ launched # plan.hash
    /\ launched' = plan.hash
    /\ UNCHANGED <<files, tool, sup, units, bounds>>

-------------------------------------------------------------------------------
\* The supervisor.

\* `run` loads the contract, once.
Start ==
    /\ sup.at = "down" /\ contract = "experiment"
    /\ sup' = [Down EXCEPT !.at = "idle"]
    /\ UNCHANGED <<files, tool, worker, bounds>>

Inspect ==
    /\ sup.at = "idle"
    /\ sup' = [Down EXCEPT !.at = "load_plan", !.seen = units > 0]
    /\ UNCHANGED <<files, tool, worker, bounds>>

\* load_plan_for_contract; a plan that is missing or empty raises out of the run.
LoadPlan ==
    /\ sup.at = "load_plan"
    /\ sup' = IF plan \in Plans THEN [sup EXCEPT !.at = "judge", !.plan = plan] ELSE Down
    /\ UNCHANGED <<files, tool, worker, bounds>>

Sound(p) == p.hash = p.body

\* A missing schedule, or a plan without its hash, is not checked.
Drifted(p, file) == HashIfAny(file) # NoHash /\ p.body.schedule \notin {NoHash, file}

\* resolve_schedule_hash_for_contract and the gates of the plan: the results of an
\* unfrozen plan block, any other gate fails the validity.
Judge ==
    /\ sup.at = "judge"
    /\ sup' = IF sup.seen /\ ~sup.plan.body.frozen
              THEN [Down EXCEPT !.at = "blocked"]
              ELSE [sup EXCEPT !.at = "complete", !.rows = schedule,
                               !.passed = Sound(sup.plan) /\ ~Drifted(sup.plan, schedule)]
    /\ UNCHANGED <<files, tool, worker, bounds>>

\* Mutant: exactly planned_units.
ExactlyAll(p) == units = p.body.units
UnitsOk(p) == units >= p.body.units

\* evaluate_completion, after a second inspect.
Met ==
    /\ Sound(sup.plan) /\ sup.plan.body.frozen
    /\ launched \in {NoHash, sup.plan.hash}
    /\ UnitsOk(sup.plan) /\ sup.passed

Complete ==
    /\ sup.at = "complete"
    /\ sup' = IF Met THEN [sup EXCEPT !.at = "completed"] ELSE [Down EXCEPT !.at = "idle"]
    /\ UNCHANGED <<files, tool, worker, bounds>>

\* The operator clears the escalation and runs again.
Clear ==
    /\ sup.at = "blocked"
    /\ sup' = Down
    /\ UNCHANGED <<files, tool, worker, bounds>>

SupervisorDies ==
    /\ sup.at \in {"idle", "load_plan", "judge", "complete"} /\ crashes < MaxCrashes
    /\ crashes' = crashes + 1
    /\ sup' = Down
    /\ UNCHANGED <<files, tool, worker, tools, edits, orderly>>

-------------------------------------------------------------------------------
Tool ==
    \/ \E n \in Sizes, force \in BOOLEAN : InitExperiment(n, force)
    \/ \E force \in BOOLEAN : InitPlain(force)
    \/ \E n \in Sizes, frozen, given \in BOOLEAN : EmitPlan(n, frozen, given)

ToolStep == WriteSchedule \/ SavePlan \/ WritePlan \/ SaveContract \/ WriteContract

Tick == Start \/ Inspect \/ LoadPlan \/ Judge \/ Complete

Next ==
    \/ Tool \/ ToolStep \/ ToolDies
    \/ EditSchedule \/ EditPlan
    \/ DoUnit \/ Launch
    \/ Tick \/ Clear \/ SupervisorDies

Spec == Init /\ [][Next]_vars

\* A tool that was started ends, the worker goes on, and whoever runs the project
\* starts the supervisor again when it ended without a verdict.
FairSpec == Spec /\ WF_vars(ToolStep) /\ WF_vars(DoUnit) /\ WF_vars(Tick)

-------------------------------------------------------------------------------
\* Properties.

ToolRuns == [at : {"none", "write_schedule", "save_plan", "write_plan", "save_contract",
                   "write_contract"},
             cmd : {"none", "init", "plain", "emit", "emit_bare"},
             units : Sizes, frozen : BOOLEAN, hash : Rows \cup {NoHash}]
Ticks == [at : {"down", "idle", "load_plan", "judge", "complete", "completed", "blocked"},
          seen : BOOLEAN, plan : Plans \cup {NoFile},
          rows : Rows \cup {NoFile}, passed : BOOLEAN]

\* The type of the state.
TypeOK ==
    /\ schedule \in Rows \cup {NoFile} /\ plan \in Plans \cup {NoFile, Empty}
    /\ contract \in {"none", "empty", "plain", "experiment"}
    /\ tool \in ToolRuns /\ sup \in Ticks
    /\ units \in 0 .. MaxUnits /\ launched \in Bodies \cup {NoHash}
    /\ tools \in 0 .. MaxTools /\ edits \in 0 .. MaxEdits /\ crashes \in 0 .. MaxCrashes
    /\ orderly \in BOOLEAN

\* Nothing counts the rows of the schedule (count_schedule_rows has no caller).  Still,
\* as long as only init writes the files and never dies halfway, a completed run has
\* done the units of a schedule with as many rows: whatever init --force overwrote
\* during a tick, the plan and the schedule that were judged belong together.
ScheduleFitsPlan ==
    sup.at = "completed" /\ orderly => sup.rows = sup.plan.body.units

\* What the supervisor needs to complete, on disk.
Intact ==
    /\ contract = "experiment"
    /\ plan \in Plans /\ Sound(plan) /\ plan.body.frozen /\ ~Drifted(plan, schedule)
    /\ launched \in {NoHash, plan.hash}

\* Files that end up in order, whatever was torn, edited or rewritten before, lead to
\* completion, unless a block for results under an unfrozen plan is never cleared.
IntactCompletes == <>[](Intact /\ sup.at # "blocked") => <>(sup.at = "completed")
===============================================================================
