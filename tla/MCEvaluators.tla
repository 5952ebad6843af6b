----------------------------- MODULE MCEvaluators -----------------------------
(* Values of the constants of Evaluators for TLC. *)
EXTENDS Evaluators

CONSTANTS units, heartbeat

Both == {units, heartbeat}
HeartbeatInContext == {heartbeat}
OneAfter == [w \in Both |-> 1]
===============================================================================
