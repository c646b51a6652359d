---------------------------- MODULE InputPipeline ----------------------------
(***************************************************************************)
(* What the control loop makes of its inputs in one cycle: the debounced   *)
(* discretes (components/links/rs422_interface.c), the launch detector     *)
(* behind LO (main/state_machine.c), which refuses a frozen IMU, and then  *)
(* the frozen-IMU check (main/health_monitor.c), whose verdict the         *)
(* detector sees one cycle later.                                          *)
(***************************************************************************)
EXTENDS Discretes, LaunchDetector, FrozenImu

CONSTANTS
  Accelerations,     (* readings of the thrust axis *)
  LaunchAccel        (* LAUNCH_ACCEL_RAW            *)

(* The real constants are 5 and 50 cycles, and 10447 and 32000 counts. *)
ASSUME ImuAssumption ==
  /\ Accelerations \subseteq Int
  /\ LaunchAccel \in Nat
  /\ StaticCycles > LaunchConfirmCycles + 1
  /\ Saturated > LaunchAccel

VARIABLES
  (* histories *)
  window,      (* window[f][i]: the i-th latest raw sample of a pin        *)
  still,       (* still[i]: the i-th latest valid IMU sample had barely    *)
               (* moved and was not saturated                              *)
  judged,      (* judged[i]: the i-th latest sample launch_detected looked *)
               (* at, before it latched, was above the threshold           *)
  boost_for    (* cycles of boost since one that began with a jump, with   *)
               (* LO not asserted                                          *)

histories == <<window, still, judged, boost_for>>
vars == <<discretesVars, launchVars, imuVars, histories>>

Boosting(az) == Magnitude(az) > LaunchAccel

(* The boot: the filter is primed from the pins. *)
Init ==
  /\ \E raw \in RawLevels :
       /\ pin = raw
       /\ level = raw
       /\ lo_ever = raw["LO"]
       /\ window = [f \in Flags |-> [i \in 1 .. DebounceSamples |-> raw[f]]]
  /\ streak = [f \in Flags |-> 0]
  /\ LaunchReset
  /\ FrozenReset
  /\ still = [i \in 1 .. StaticCycles |-> FALSE]
  /\ judged = [i \in 1 .. LaunchConfirmCycles |-> FALSE]
  /\ boost_for = 0

Filter == INSTANCE HoldFilter
            WITH Lines <- Flags, Hold <- DebounceSamples,
               recent <- window, output <- level

(* What launch_detected makes of a sample, with the verdict of the last    *)
(* cycle's check.                                                          *)
Reading(az, valid) ==
  IF ~valid \/ frozen THEN "unusable"
  ELSE IF Boosting(az) THEN "boost"
  ELSE "quiet"

Remember(raw, az, valid, lo) ==
  /\ window' = [f \in Flags |-> Filter!Shifted(window[f], raw[f])]
  /\ still' = IF ~valid THEN still
              ELSE [i \in 1 .. StaticCycles |->
                      IF i = 1 THEN ~Moved(az) /\ ~Pegged(az) ELSE still[i - 1]]
  /\ judged' = IF lo \/ launch_latched THEN judged
               ELSE [i \in 1 .. LaunchConfirmCycles |->
                       IF i = 1 THEN Reading(az, valid) = "boost"
                       ELSE judged[i - 1]]
  /\ boost_for' =
       IF lo \/ ~valid \/ ~Boosting(az) THEN 0
       ELSE IF boost_for = 0 /\ ~(Moved(az) \/ Pegged(az)) THEN 0
       ELSE IF boost_for <= LaunchConfirmCycles THEN boost_for + 1
       ELSE boost_for

(* One cycle: the pins, flight_confirmed with its short-circuit, the check. *)
Cycle(raw, az, valid) ==
  /\ SamplePins(raw)
  /\ CollectLaunch(level'["LO"], Reading(az, valid))
  /\ CheckFrozen(az, valid)
  /\ Remember(raw, az, valid, level'["LO"])

Next == \E raw \in RawLevels, az \in Accelerations, valid \in BOOLEAN :
          Cycle(raw, az, valid)

Spec == Init /\ [][Next]_vars

-----------------------------------------------------------------------------
TypeOK ==
  /\ DiscretesTypeOK /\ LaunchTypeOK /\ FrozenTypeOK
  /\ window \in [Flags -> [1 .. DebounceSamples -> BOOLEAN]]
  /\ still \in [1 .. StaticCycles -> BOOLEAN]
  /\ judged \in [1 .. LaunchConfirmCycles -> BOOLEAN]
  /\ boost_for \in 0 .. LaunchConfirmCycles + 1

(* rs422_sample implements the hold filter: a debounced level flips        *)
(* exactly when the last DEBOUNCE_SAMPLES raw samples agree on the new     *)
(* value, never sooner and never later.                                    *)
FilterHolds == Filter!Spec

(* The counters mean their windows.  launch_detected latches exactly when  *)
(* the last LAUNCH_CONFIRM_CYCLES samples it looked at were all above the  *)
(* threshold: one unusable or quiet sample among them starts the count     *)
(* again (a cycle whose debounced LO is asserted is not looked at).  The   *)
(* IMU is frozen exactly while the last IMU_STATIC_CYCLES valid samples    *)
(* all barely moved and none was saturated: dropouts in between are        *)
(* skipped, one real movement withdraws the verdict.                       *)
CountersMeanTheirWindows ==
  /\ TypeOK
  /\ launch_latched <=> \A i \in 1 .. LaunchConfirmCycles : judged[i]
  /\ frozen <=> \A i \in 1 .. StaticCycles : still[i]

(* A frozen verdict earned on the pad cannot cost the launch: a boost that *)
(* begins with a jump and lasts one cycle longer than the detector asks    *)
(* for, with LO missing, is latched, although the detector looks at the    *)
(* check's verdict of the cycle before and the boost itself may saturate   *)
(* or look still.                                                          *)
BoostSurvivesFrozenVerdict ==
  boost_for > LaunchConfirmCycles => launch_latched
=============================================================================
