-------------------------------- MODULE BurnIn --------------------------------
(***************************************************************************)
(* Burn-in of a remediated incident: PATCHED, then VERIFIED, then STABLE   *)
(* (verification/burn_in.py).  patched_at is written and never read, so it *)
(* is left out.  unitsAtStable is a history field, for properties only:    *)
(* the code keeps the time at which a burn-in became stable, but not the   *)
(* units, and no operator reads it.                                        *)
(***************************************************************************)
EXTENDS Integers

CONSTANTS
    StableUnits,    \* verification.stable_after.units
    MinDuration     \* verification.stable_after.min_duration

ASSUME BurnInAssumption == StableUnits \in Nat \ {0} /\ MinDuration \in Nat

Levels == {"NONE", "PATCHED", "VERIFIED", "STABLE"}
NoTime == -1

InitialBurnIn ==
    [level |-> "NONE", verifiedAt |-> NoTime, stableAt |-> NoTime,
     unitsAtVerified |-> 0, unitsAtStable |-> 0]

\* The units and the time at which the level became STABLE.
Stabilised(state, units, t) ==
    [state EXCEPT !.level = "STABLE", !.stableAt = t, !.unitsAtStable = units]

MarkPatched(state, patched) ==
    IF patched /\ state.level = "NONE"
    THEN [state EXCEPT !.level = "PATCHED"] ELSE state

MarkVerified(state, units, ok, t) ==
    IF state.level = "PATCHED" /\ ok
    THEN [state EXCEPT !.level = "VERIFIED", !.verifiedAt = t,
                       !.unitsAtVerified = units]
    ELSE state

\* Mutant: the units are forgotten, where units and duration are required.
DurationIsEnough(state, units, t) ==
    IF state.level = "VERIFIED" /\ t - state.verifiedAt >= MinDuration
    THEN Stabilised(state, units, t) ELSE state

MarkStable(state, units, t) ==
    IF /\ state.level = "VERIFIED"
       /\ units - state.unitsAtVerified >= StableUnits
       /\ t - state.verifiedAt >= MinDuration
    THEN Stabilised(state, units, t) ELSE state

\* One call advances through as many levels as it can.
EvaluateBurnIn(state, units, ok, t, patched) ==
    MarkStable(MarkVerified(MarkPatched(state, patched), units, ok, t), units, t)
===============================================================================
