--------------------------- MODULE MCIncidentEngine ---------------------------
(* Values of the constants of IncidentEngine for TLC. *)
EXTENDS IncidentEngine

CONSTANTS s1, s2, status1

OneSupervisor == {s1}
RunMode == [p \in {s1} |-> "run"]
WithStatus == {s1, status1}
StatusModes == [p \in {s1, status1} |-> IF p = s1 THEN "run" ELSE "status"]
WithObserver == {s1, s2}
ObserverModes == [p \in {s1, s2} |-> IF p = s1 THEN "run" ELSE "observe"]
===============================================================================
