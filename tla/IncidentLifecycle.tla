-------------------------- MODULE IncidentLifecycle --------------------------
(***************************************************************************)
(* What the incident engine promises of a project's incidents, without     *)
(* processes, stores or crashes: one incident at a time, a bounded number  *)
(* of recovery attempts while it is not blocked, and a close only after a  *)
(* recovery.  IncidentEngine implements it when one supervisor runs.       *)
(***************************************************************************)
EXTENDS Integers

CONSTANTS Incidents, MaxAttempts

VARIABLES
    phase,  \* per incident: "none", "open", "blocked" or "closed"
    tries   \* per incident: recorded recovery attempts

Init ==
    /\ phase = [i \in Incidents |-> "none"]
    /\ tries = [i \in Incidents |-> 0]

Live(i) == phase[i] \in {"open", "blocked"}

Open(i) ==
    /\ \A j \in Incidents : ~Live(j)
    /\ phase[i] = "none"
    /\ phase' = [phase EXCEPT ![i] = "open"]
    /\ UNCHANGED tries

Attempt(i) ==
    /\ phase[i] = "open" /\ tries[i] < MaxAttempts
    /\ tries' = [tries EXCEPT ![i] = @ + 1]
    /\ UNCHANGED phase

Block(i) ==
    /\ phase[i] = "open"
    /\ phase' = [phase EXCEPT ![i] = "blocked"]
    /\ UNCHANGED tries

Close(i) ==
    /\ Live(i) /\ tries[i] > 0
    /\ phase' = [phase EXCEPT ![i] = "closed"]
    /\ UNCHANGED tries

Next == \E i \in Incidents : Open(i) \/ Attempt(i) \/ Block(i) \/ Close(i)

Spec == Init /\ [][Next]_<<phase, tries>>
===============================================================================
