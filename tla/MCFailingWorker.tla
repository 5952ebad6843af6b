--------------------------- MODULE MCFailingWorker ---------------------------
(* Values of the constants of FailingWorker for TLC. *)
EXTENDS FailingWorker, TLC

CONSTANTS a, b

TwoHashes == {a, b}
One == {1}
Two == {2}
===============================================================================
