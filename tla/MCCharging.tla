----------------------------- MODULE MCCharging -----------------------------
(* Temperatures around both thresholds, capacities around the cap, one     *)
(* tier of the console above the safe limit and two currents typed in.     *)
EXTENDS Charging
MCTemps == {380, 400, 420}
MCCaps == {79, 80}
MCHighTier == {186}
MCCustoms == {2400, 3000}
=============================================================================
