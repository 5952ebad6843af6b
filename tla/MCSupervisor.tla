----------------------------- MODULE MCSupervisor -----------------------------
(* Supervisor for TLC: every constant is a plain value of the cfg. *)
EXTENDS Supervisor
===============================================================================
