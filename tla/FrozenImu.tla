------------------------------ MODULE FrozenImu ------------------------------
(***************************************************************************)
(* The frozen-IMU check of the health monitor (main/health_monitor.c): an  *)
(* accelerometer whose samples barely differ for StaticCycles cycles is    *)
(* taken for dead; saturation is no evidence.                              *)
(*                                                                         *)
(* One axis is modelled, the thrust axis; the code's check has two further *)
(* conjuncts of the same form for the others.                              *)
(***************************************************************************)
EXTENDS Integers

CONSTANTS
  StaticLimit,       (* IMU_STATIC_LIMIT  *)
  StaticCycles,      (* IMU_STATIC_CYCLES *)
  Saturated          (* IMU_SATURATED_RAW *)

ASSUME FrozenAssumption ==
  /\ StaticLimit \in Nat \ {0}
  /\ StaticCycles \in Nat \ {0}
  /\ Saturated \in Nat

VARIABLES last_az, static_cycles, frozen

imuVars == <<last_az, static_cycles, frozen>>

Magnitude(n) == IF n < 0 THEN -n ELSE n
Moved(az) == Magnitude(az - last_az) >= StaticLimit
Pegged(az) == Magnitude(az) >= Saturated

FrozenTypeOK ==
  /\ last_az \in Int
  /\ static_cycles \in 0 .. StaticCycles
  /\ frozen \in BOOLEAN

(* health_monitor_init, and the power-on values of the statics. *)
FrozenReset ==
  /\ last_az = 0
  /\ static_cycles = 0
  /\ frozen = FALSE

(* The count of still samples after a valid one. *)
StillAfter(az) ==
  IF Moved(az) \/ Pegged(az) THEN 0
  ELSE IF static_cycles < StaticCycles THEN static_cycles + 1
  ELSE static_cycles

(* Slips: a frozen verdict is never withdrawn; saturation counts as        *)
(* stillness.                                                              *)
CheckFrozenForGood(az, valid) ==
  IF ~valid THEN UNCHANGED imuVars
  ELSE /\ static_cycles' = StillAfter(az)
       /\ frozen' = (frozen \/ static_cycles' >= StaticCycles)
       /\ last_az' = az

StillAfterPegged(az) ==
  IF Moved(az) THEN 0
  ELSE IF static_cycles < StaticCycles THEN static_cycles + 1
  ELSE static_cycles

CheckFrozenPegged(az, valid) ==
  IF ~valid THEN UNCHANGED imuVars
  ELSE /\ static_cycles' = StillAfterPegged(az)
       /\ frozen' = (static_cycles' >= StaticCycles)
       /\ last_az' = az

(* The last part of health_monitor_update: an invalid sample is skipped.   *)
CheckFrozen(az, valid) ==
  IF ~valid THEN UNCHANGED imuVars
  ELSE /\ static_cycles' = StillAfter(az)
       /\ frozen' = (static_cycles' >= StaticCycles)
       /\ last_az' = az
=============================================================================
