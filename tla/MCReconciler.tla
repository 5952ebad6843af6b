----------------------------- MODULE MCReconciler -----------------------------
(* Values of the constants of Reconciler for TLC. *)
EXTENDS Reconciler

CONSTANTS s1, c1, code, model, a, b

TwoFields == {code, model}
TwoValues == {a, b}
OnlyModel == {model}
WithCommand == {s1, c1}
OneCommand == {c1}

\* One of the fingerprints: the values are interchangeable.
AllA == [f \in TwoFields |-> a]

\* The code needs a relaunch, the model is taken up without one.
CodeActs == [f \in TwoFields |-> IF f = code THEN 5 ELSE 0]
===============================================================================
