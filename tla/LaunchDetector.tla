--------------------------- MODULE LaunchDetector ----------------------------
(***************************************************************************)
(* The second opinion on lift-off (launch_detected, main/state_machine.c): *)
(* LaunchConfirmCycles samples of boost acceleration latch a launch.       *)
(* mode_inputs_collect consults it only when LO is not asserted, because   *)
(* it is the right operand of ||.                                          *)
(***************************************************************************)
EXTENDS Naturals

CONSTANT LaunchConfirmCycles   (* LAUNCH_CONFIRM_CYCLES *)

ASSUME LaunchAssumption == LaunchConfirmCycles \in Nat \ {0}

(* What one IMU sample says on the thrust axis: no usable reading (invalid *)
(* or frozen), below the launch threshold, or above it.                    *)
ImuReadings == {"unusable", "quiet", "boost"}

VARIABLES launch_cycles, launch_latched

launchVars == <<launch_cycles, launch_latched>>

LaunchTypeOK ==
  /\ launch_cycles \in 0 .. LaunchConfirmCycles
  /\ launch_latched \in BOOLEAN

LaunchReset ==
  /\ launch_cycles = 0
  /\ launch_latched = FALSE

(* A slip: a sample below the threshold does not restart the count. *)
CountAfterKeeping(imu) ==
  IF imu = "boost" /\ launch_cycles < LaunchConfirmCycles
  THEN launch_cycles + 1
  ELSE launch_cycles

(* The count after a sample, and whether that count confirms a launch. *)
CountAfter(imu) ==
  IF imu # "boost" THEN 0
  ELSE IF launch_cycles < LaunchConfirmCycles THEN launch_cycles + 1
  ELSE launch_cycles

Confirms(imu) == imu = "boost" /\ CountAfter(imu) >= LaunchConfirmCycles

(* The value launch_detected() returns. *)
LaunchDetected(imu) == launch_latched \/ Confirms(imu)

(* Its effect on the statics. *)
ConsultImu(imu) ==
  /\ launch_cycles' = IF launch_latched THEN launch_cycles ELSE CountAfter(imu)
  /\ launch_latched' = LaunchDetected(imu)

(* flight_confirmed = rs422_LO_get() || launch_detected(), with the       *)
(* short-circuit: an asserted LO leaves the detector's statics alone.      *)
FlightConfirmed(lo, imu) == lo \/ LaunchDetected(imu)

CollectLaunch(lo, imu) == IF lo THEN UNCHANGED launchVars ELSE ConsultImu(imu)
=============================================================================
