------------------------------- MODULE MCLease -------------------------------
(* Values of the constants of Lease for TLC. *)
EXTENDS Lease, TLC

CONSTANTS p1, p2, p3, f1, f2, f3

ThreeProcs == {p1, p2, p3}
TwoProcs == {p1, p2}
ThreeFiles == {f1, f2, f3}

\* Processes are interchangeable, and so are inodes.
Symmetry == Permutations(ThreeProcs) \cup Permutations(ThreeFiles)
===============================================================================
