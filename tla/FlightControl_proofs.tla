------------------------ MODULE FlightControl_proofs -------------------------
(***************************************************************************)
(* Safety of the control loop for every value of the constants: the type   *)
(* invariant, the inductive invariant IInv, and from it the properties of  *)
(* FlightControl that the runs check on a small instance.                  *)
(***************************************************************************)
EXTENDS FlightControl, TLAPS

(* The executor has caught up with the mode except between DecideMode and  *)
(* the end of the cycle, and then it is one edge of the table behind.      *)
ExecutorFollows ==
  /\ phase # "act" => last_mode = mode
  /\ phase = "act" => last_mode = mode \/ <<last_mode, mode>> \in Abstract!Follows

(* Before Boot nothing has happened. *)
BootIsFresh ==
  phase = "boot" => mode = "SU" /\ ~stepper_activated

(* The evidence for the mode the board is in. *)
ModeIsEarned ==
  /\ phase = "decide" /\ flight => confirmed
  /\ phase = "decide" /\ soe /\ confirmed /\ mode = "NF" => authorised
  /\ mode \in {"NF", "NE"} => confirmed
  /\ mode = "NE" => authorised
  /\ mode \in {"NG", "NF", "NE"} => post_passed \/ (test_complete /\ test_passed)

(* The pump only ever runs under MODE_NE, with the driver on, and every    *)
(* pulse counted has been injected.                                        *)
PumpFollowsMode ==
  /\ stepper_activated => last_mode = "NE"
  /\ phase # "boot" /\ driver_enabled => last_mode = "NE"
  /\ pump_running => stepper_activated /\ driver_enabled
  /\ pump_running => dispense_remaining >= DispensePulses - pulses
  /\ stepper_activated => injected = pulses
  /\ stepper_activated /\ ~pump_running => pulses = DispensePulses
  /\ ~stepper_activated => injected = 0

IInv ==
  /\ ControlTypeOK
  /\ ExecutorFollows
  /\ BootIsFresh
  /\ ModeIsEarned
  /\ PumpFollowsMode
  /\ FailedInjectionIsReported

-----------------------------------------------------------------------------
(* What the filter and the detector do to their own variables. *)
LEMMA SampleTyped ==
  ASSUME DiscretesTypeOK, NEW raw \in RawLevels, SamplePins(raw)
  PROVE  DiscretesTypeOK'
<1>1. pin' \in RawLevels /\ level' \in RawLevels
  BY DEF SamplePins, DiscretesTypeOK, RawLevels
<1>2. streak' \in [Flags -> 0 .. DebounceSamples - 1]
  BY DebounceAssumption DEF SamplePins, DiscretesTypeOK, RawLevels, Accepts
<1>3. lo_ever' \in BOOLEAN
  BY <1>1, FlagsAssumption DEF SamplePins, DiscretesTypeOK, RawLevels
<1> QED BY <1>1, <1>2, <1>3 DEF DiscretesTypeOK

LEMMA PrimeTyped ==
  ASSUME NEW raw \in RawLevels, PrimeFilter(raw)
  PROVE  DiscretesTypeOK'
<1>1. lo_ever' \in BOOLEAN
  BY FlagsAssumption DEF PrimeFilter, RawLevels
<1>2. streak' \in [Flags -> 0 .. DebounceSamples - 1]
  BY DebounceAssumption DEF PrimeFilter
<1> QED BY <1>1, <1>2 DEF PrimeFilter, DiscretesTypeOK

LEMMA ResetTyped ==
  ASSUME pin = [f \in Flags |-> FALSE], level = [f \in Flags |-> FALSE],
         streak = [f \in Flags |-> 0], lo_ever = FALSE
  PROVE  DiscretesTypeOK
<1>1. pin \in RawLevels /\ level \in RawLevels
  BY Zenon DEF RawLevels
<1>2. streak \in [Flags -> 0 .. DebounceSamples - 1]
  BY DebounceAssumption
<1>3. lo_ever \in BOOLEAN
  BY Zenon
<1> QED BY <1>1, <1>2, <1>3 DEF DiscretesTypeOK

LEMMA DetectorTyped ==
  ASSUME LaunchTypeOK, NEW lo \in BOOLEAN, NEW imu \in ImuReadings,
         CollectLaunch(lo, imu)
  PROVE  LaunchTypeOK' /\ FlightConfirmed(lo, imu) \in BOOLEAN
<1>1. FlightConfirmed(lo, imu) \in BOOLEAN
  BY Zenon DEF FlightConfirmed
<1>2. launch_latched' \in BOOLEAN
  BY Zenon
     DEF LaunchTypeOK, CollectLaunch, ConsultImu, LaunchDetected, launchVars
<1>3. launch_cycles' \in 0 .. LaunchConfirmCycles
  BY LaunchAssumption
     DEF LaunchTypeOK, CollectLaunch, ConsultImu, CountAfter, launchVars
<1> QED BY <1>1, <1>2, <1>3 DEF LaunchTypeOK

(* Leaving the experiment and one step of a self-test, on their own *)
(* variables.                                                       *)
LEMMA StopTyped ==
  ASSUME SwitchesTypeOK, CountersTypeOK, StopPumpOnLeavingNE
  PROVE  /\ stepper_activated' \in BOOLEAN
         /\ driver_enabled' \in BOOLEAN
         /\ pump_running' \in BOOLEAN
         /\ dispense_remaining' \in 0 .. DispensePulses
         /\ pulses' = pulses /\ injected' = injected
<1>1. CASE last_mode = "NE"
  <2>1. /\ stepper_activated' \in BOOLEAN
        /\ driver_enabled' \in BOOLEAN
        /\ pump_running' \in BOOLEAN
    BY <1>1, Zenon DEF SwitchesTypeOK, StopPumpOnLeavingNE
  <2> QED BY <1>1, <2>1, ControlAssumption DEF StopPumpOnLeavingNE
<1>2. CASE last_mode # "NE"
  <2>1. /\ stepper_activated' \in BOOLEAN
        /\ driver_enabled' \in BOOLEAN
        /\ pump_running' \in BOOLEAN
    BY <1>2, Zenon DEF SwitchesTypeOK, StopPumpOnLeavingNE, pumpVars
  <2> QED BY <1>2, <2>1 DEF CountersTypeOK, StopPumpOnLeavingNE, pumpVars
<1> QED BY <1>1, <1>2

LEMMA StepTyped ==
  ASSUME RegistersTypeOK, CountersTypeOK,
         NEW entered \in BOOLEAN, NEW found \in Findings,
         TestStep(entered, found)
  PROVE  /\ test_running' \in BOOLEAN
         /\ test_complete' \in BOOLEAN
         /\ test_passed' \in BOOLEAN
         /\ healthy' \in BOOLEAN
         /\ snap_after_start' \in BOOLEAN
         /\ test_failures' \subseteq Checks
         /\ test_cycles_left' \in 0 .. TestCycles
<1>1. /\ test_running' \in BOOLEAN
      /\ test_complete' \in BOOLEAN
      /\ test_passed' \in BOOLEAN
      /\ healthy' \in BOOLEAN
      /\ snap_after_start' \in BOOLEAN
  BY Zenon DEF TestStep
<1>2. test_failures' \subseteq Checks
  BY DEF TestStep, RegistersTypeOK, Findings, Checks
<1>3. test_cycles_left' \in 0 .. TestCycles
  BY ControlAssumption DEF TestStep, CountersTypeOK
<1> QED BY <1>1, <1>2, <1>3

(* No edge of the table leaves the experiment. *)
LEMMA ExperimentIsFinal ==
  ASSUME IInv, phase = "act", mode # "NE"
  PROVE  last_mode # "NE"
BY DEF IInv, ExecutorFollows, Abstract!Follows

LEMMA BootKeeps ==
  ASSUME IInv, NEW raw \in RawLevels, NEW post \in BOOLEAN, Boot(raw, post)
  PROVE  IInv'
<1>1. DiscretesTypeOK'
  BY PrimeTyped DEF Boot
<1>2. LaunchTypeOK'
  BY DEF IInv, ControlTypeOK, LaunchTypeOK, launchVars, Boot
<1>3. SwitchesTypeOK'
  BY ZenonT(40)
     DEF IInv, ControlTypeOK, SwitchesTypeOK, inputVars, testVars, pumpVars,
         txVars, bootVars, evidence, Boot
<1>4. RegistersTypeOK'
  BY <1>3
     DEF IInv, ControlTypeOK, SwitchesTypeOK, RegistersTypeOK, Modes, Phases,
         Faults, Checks, Frames, IdleFrame, inputVars, testVars, pumpVars,
         txVars, bootVars, evidence, Boot
<1>5. CountersTypeOK'
  BY <1>3, ControlAssumption
     DEF IInv, ControlTypeOK, CountersTypeOK, SwitchesTypeOK, inputVars,
         testVars, pumpVars, txVars, bootVars, evidence, Boot
<1>6. ExecutorFollows'
  BY <1>3
     DEF IInv, ExecutorFollows, ControlTypeOK, SwitchesTypeOK,
         RegistersTypeOK, Modes, Abstract!Follows, inputVars, testVars,
         pumpVars, txVars, bootVars, evidence, Boot
<1>7. BootIsFresh'
  BY <1>3
     DEF IInv, BootIsFresh, ControlTypeOK, SwitchesTypeOK, inputVars,
         testVars, pumpVars, txVars, bootVars, evidence, Boot
<1>8. ModeIsEarned'
  BY <1>3
     DEF IInv, ModeIsEarned, ExecutorFollows, BootIsFresh, ControlTypeOK,
         SwitchesTypeOK, RegistersTypeOK, Modes, inputVars, testVars,
         pumpVars, txVars, bootVars, evidence, Boot
<1>9. PumpFollowsMode'
  BY <1>3, ControlAssumption
     DEF IInv, PumpFollowsMode, ExecutorFollows, BootIsFresh, ControlTypeOK,
         SwitchesTypeOK, CountersTypeOK, inputVars, testVars, pumpVars,
         txVars, bootVars, evidence, Boot
<1>10. FailedInjectionIsReported'
  BY <1>3
     DEF IInv, FailedInjectionIsReported, ExecutorFollows, BootIsFresh,
         PumpFollowsMode, ControlTypeOK, SwitchesTypeOK, inputVars, testVars,
         pumpVars, txVars, bootVars, evidence, Boot
<1> QED BY <1>1, <1>2, <1>3, <1>4, <1>5, <1>6, <1>7, <1>8, <1>9, <1>10
           DEF IInv, ControlTypeOK

LEMMA CollectInputsKeeps ==
  ASSUME IInv, NEW raw \in RawLevels, NEW imu \in ImuReadings,
         NEW test \in BOOLEAN, CollectInputs(raw, imu, test)
  PROVE  IInv'
<1>1. DiscretesTypeOK'
  BY SampleTyped DEF IInv, ControlTypeOK, CollectInputs
<1>2. LaunchTypeOK' /\ flight' \in BOOLEAN /\ soe' \in BOOLEAN
  <2>1. level'["LO"] \in BOOLEAN /\ level'["SOE"] \in BOOLEAN
    BY <1>1, FlagsAssumption DEF DiscretesTypeOK, RawLevels
  <2>2. LaunchTypeOK' /\ FlightConfirmed(level'["LO"], imu) \in BOOLEAN
    BY <2>1, DetectorTyped DEF IInv, ControlTypeOK, CollectInputs
  <2> QED BY <2>1, <2>2 DEF CollectInputs
<1>3. SwitchesTypeOK'
  <2>1. confirmed' \in BOOLEAN /\ authorised' \in BOOLEAN
    BY Zenon DEF CollectInputs
  <2> QED BY <1>2, <2>1, Zenon
             DEF IInv, ControlTypeOK, SwitchesTypeOK, testVars, pumpVars,
                 bootVars, CollectInputs
<1>4. RegistersTypeOK'
  BY <1>3
     DEF IInv, ControlTypeOK, SwitchesTypeOK, RegistersTypeOK, Modes, Phases,
         Faults, Checks, Frames, IdleFrame, inputVars, testVars, pumpVars,
         txVars, bootVars, evidence, CollectInputs
<1>5. CountersTypeOK'
  BY <1>3, ControlAssumption
     DEF IInv, ControlTypeOK, CountersTypeOK, SwitchesTypeOK, inputVars,
         testVars, pumpVars, txVars, bootVars, evidence, CollectInputs
<1>6. ExecutorFollows'
  BY <1>3
     DEF IInv, ExecutorFollows, ControlTypeOK, SwitchesTypeOK,
         RegistersTypeOK, Modes, Abstract!Follows, inputVars, testVars,
         pumpVars, txVars, bootVars, evidence, CollectInputs
<1>7. BootIsFresh'
  BY <1>3
     DEF IInv, BootIsFresh, ControlTypeOK, SwitchesTypeOK, inputVars,
         testVars, pumpVars, txVars, bootVars, evidence, CollectInputs
<1>8. ModeIsEarned'
  BY <1>3
     DEF IInv, ModeIsEarned, ExecutorFollows, BootIsFresh, ControlTypeOK,
         SwitchesTypeOK, RegistersTypeOK, Modes, inputVars, testVars,
         pumpVars, txVars, bootVars, evidence, CollectInputs
<1>9. PumpFollowsMode'
  BY <1>3, ControlAssumption
     DEF IInv, PumpFollowsMode, ExecutorFollows, BootIsFresh, ControlTypeOK,
         SwitchesTypeOK, CountersTypeOK, inputVars, testVars, pumpVars,
         txVars, bootVars, evidence, CollectInputs
<1>10. FailedInjectionIsReported'
  BY <1>3
     DEF IInv, FailedInjectionIsReported, ExecutorFollows, PumpFollowsMode,
         ControlTypeOK, SwitchesTypeOK, inputVars, testVars, pumpVars, txVars,
         bootVars, evidence, CollectInputs
<1> QED BY <1>1, <1>2, <1>3, <1>4, <1>5, <1>6, <1>7, <1>8, <1>9, <1>10
           DEF IInv, ControlTypeOK

LEMMA DecideModeKeeps ==
  ASSUME IInv, DecideMode
  PROVE  IInv'
<1>1. DiscretesTypeOK'
  BY
     DEF IInv, ControlTypeOK, DiscretesTypeOK, discretesVars, DecideMode,
         ModeNext
<1>2. LaunchTypeOK'
  BY DEF IInv, ControlTypeOK, LaunchTypeOK, launchVars, DecideMode, ModeNext
<1>3. SwitchesTypeOK'
  BY
     DEF IInv, ControlTypeOK, SwitchesTypeOK, inputVars, testVars, pumpVars,
         bootVars, evidence, DecideMode
<1>4. RegistersTypeOK'
  BY <1>3
     DEF IInv, ControlTypeOK, SwitchesTypeOK, RegistersTypeOK, Modes, Phases,
         Faults, Checks, Frames, IdleFrame, inputVars, testVars, pumpVars,
         txVars, bootVars, evidence, DecideMode, ModeNext
<1>5. CountersTypeOK'
  BY <1>3, ControlAssumption
     DEF IInv, ControlTypeOK, CountersTypeOK, SwitchesTypeOK, inputVars,
         testVars, pumpVars, txVars, bootVars, evidence, DecideMode, ModeNext
<1>6. ExecutorFollows'
  BY <1>3
     DEF IInv, ExecutorFollows, ControlTypeOK, SwitchesTypeOK,
         RegistersTypeOK, Modes, Abstract!Follows, inputVars, testVars,
         pumpVars, txVars, bootVars, evidence, DecideMode, ModeNext
<1>7. BootIsFresh'
  BY <1>3
     DEF IInv, BootIsFresh, ControlTypeOK, SwitchesTypeOK, inputVars,
         testVars, pumpVars, txVars, bootVars, evidence, DecideMode, ModeNext
<1>8. ModeIsEarned'
  BY <1>3
     DEF IInv, ModeIsEarned, ExecutorFollows, BootIsFresh, ControlTypeOK,
         SwitchesTypeOK, RegistersTypeOK, Modes, inputVars, testVars,
         pumpVars, txVars, bootVars, evidence, DecideMode, ModeNext
<1>9. PumpFollowsMode'
  BY <1>3, ControlAssumption
     DEF IInv, PumpFollowsMode, ExecutorFollows, BootIsFresh, ControlTypeOK,
         SwitchesTypeOK, CountersTypeOK, inputVars, testVars, pumpVars,
         txVars, bootVars, evidence, DecideMode, ModeNext
<1>10. FailedInjectionIsReported'
  BY <1>3
     DEF IInv, FailedInjectionIsReported, ExecutorFollows, PumpFollowsMode,
         ControlTypeOK, SwitchesTypeOK, inputVars, testVars, pumpVars, txVars,
         bootVars, evidence, DecideMode, ModeNext
<1> QED BY <1>1, <1>2, <1>3, <1>4, <1>5, <1>6, <1>7, <1>8, <1>9, <1>10
           DEF IInv, ControlTypeOK

LEMMA RunQuietModeKeeps ==
  ASSUME IInv, RunQuietMode
  PROVE  IInv'
<1>1. DiscretesTypeOK'
  BY
     DEF IInv, ControlTypeOK, DiscretesTypeOK, discretesVars, RunQuietMode,
         EndCycle, Broadcast, StopPumpOnLeavingNE
<1>2. LaunchTypeOK'
  BY
     DEF IInv, ControlTypeOK, LaunchTypeOK, launchVars, RunQuietMode,
         EndCycle, Broadcast, StopPumpOnLeavingNE
<1>3. /\ SwitchesTypeOK'
      /\ dispense_remaining' \in 0 .. DispensePulses
      /\ pulses' = pulses /\ injected' = injected
  <2>1. /\ stepper_activated' \in BOOLEAN
        /\ driver_enabled' \in BOOLEAN
        /\ pump_running' \in BOOLEAN
        /\ dispense_remaining' \in 0 .. DispensePulses
        /\ pulses' = pulses /\ injected' = injected
    BY StopTyped DEF IInv, ControlTypeOK, RunQuietMode
  <2> QED BY <2>1, Zenon
             DEF IInv, ControlTypeOK, SwitchesTypeOK, inputVars, testVars,
                 bootVars, evidence, RunQuietMode, EndCycle
<1>4. RegistersTypeOK'
  BY <1>3
     DEF IInv, ControlTypeOK, SwitchesTypeOK, RegistersTypeOK, Modes, Phases,
         Faults, Checks, Frames, IdleFrame, inputVars, testVars, pumpVars,
         txVars, bootVars, evidence, RunQuietMode, EndCycle, Broadcast,
         StopPumpOnLeavingNE
<1>5. CountersTypeOK'
  BY <1>3, ControlAssumption
     DEF IInv, ControlTypeOK, CountersTypeOK, SwitchesTypeOK, inputVars,
         testVars, pumpVars, txVars, bootVars, evidence, RunQuietMode,
         EndCycle, Broadcast, StopPumpOnLeavingNE
<1>6. ExecutorFollows'
  BY <1>3
     DEF IInv, ExecutorFollows, ControlTypeOK, SwitchesTypeOK,
         RegistersTypeOK, Modes, Abstract!Follows, inputVars, testVars,
         pumpVars, txVars, bootVars, evidence, RunQuietMode, EndCycle,
         Broadcast, StopPumpOnLeavingNE
<1>7. BootIsFresh'
  BY <1>3
     DEF IInv, BootIsFresh, ControlTypeOK, SwitchesTypeOK, inputVars,
         testVars, pumpVars, txVars, bootVars, evidence, RunQuietMode,
         EndCycle, Broadcast, StopPumpOnLeavingNE
<1>8. ModeIsEarned'
  BY <1>3
     DEF IInv, ModeIsEarned, ExecutorFollows, BootIsFresh, ControlTypeOK,
         SwitchesTypeOK, RegistersTypeOK, Modes, inputVars, testVars,
         pumpVars, txVars, bootVars, evidence, RunQuietMode, EndCycle,
         Broadcast, StopPumpOnLeavingNE
<1>9. PumpFollowsMode'
  <2>1. UNCHANGED pumpVars
    BY ExperimentIsFinal DEF RunQuietMode, StopPumpOnLeavingNE
  <2>2. last_mode # "NE" /\ phase = "act"
    BY ExperimentIsFinal DEF RunQuietMode
  <2> QED BY <2>1, <2>2, <1>3, ControlAssumption
             DEF IInv, PumpFollowsMode, ControlTypeOK, SwitchesTypeOK,
                 CountersTypeOK, pumpVars
<1>10. FailedInjectionIsReported'
  BY <1>3
     DEF IInv, FailedInjectionIsReported, ExecutorFollows, PumpFollowsMode,
         ControlTypeOK, SwitchesTypeOK, inputVars, testVars, pumpVars, txVars,
         bootVars, evidence, RunQuietMode, EndCycle, Broadcast,
         StopPumpOnLeavingNE
<1> QED BY <1>1, <1>2, <1>3, <1>4, <1>5, <1>6, <1>7, <1>8, <1>9, <1>10
           DEF IInv, ControlTypeOK

LEMMA RunSelfTestKeeps ==
  ASSUME IInv, NEW found \in Findings, RunSelfTest(found)
  PROVE  IInv'
<1>1. DiscretesTypeOK'
  BY
     DEF IInv, ControlTypeOK, DiscretesTypeOK, discretesVars, RunSelfTest,
         EndCycle, Broadcast, StopPumpOnLeavingNE
<1>2. LaunchTypeOK'
  BY
     DEF IInv, ControlTypeOK, LaunchTypeOK, launchVars, RunSelfTest, EndCycle,
         Broadcast, StopPumpOnLeavingNE
<1>3. /\ SwitchesTypeOK'
      /\ dispense_remaining' \in 0 .. DispensePulses
      /\ pulses' = pulses /\ injected' = injected
      /\ test_failures' \subseteq Checks
      /\ test_cycles_left' \in 0 .. TestCycles
  <2>1. /\ stepper_activated' \in BOOLEAN
        /\ driver_enabled' \in BOOLEAN
        /\ pump_running' \in BOOLEAN
        /\ dispense_remaining' \in 0 .. DispensePulses
        /\ pulses' = pulses /\ injected' = injected
    BY StopTyped DEF IInv, ControlTypeOK, RunSelfTest
  <2>2. /\ test_running' \in BOOLEAN
        /\ test_complete' \in BOOLEAN
        /\ test_passed' \in BOOLEAN
        /\ healthy' \in BOOLEAN
        /\ snap_after_start' \in BOOLEAN
        /\ test_failures' \subseteq Checks
        /\ test_cycles_left' \in 0 .. TestCycles
    <3>1. CASE mode # last_mode \/ test_running
      <4>1. (mode # last_mode) \in BOOLEAN
        BY Zenon
      <4>2. TestStep(mode # last_mode, found)
        BY <3>1 DEF RunSelfTest
      <4> QED BY <4>1, <4>2, StepTyped, Zenon DEF IInv, ControlTypeOK
    <3>2. CASE ~(mode # last_mode \/ test_running)
      <4>1. UNCHANGED <<testVars, snap_after_start>>
        BY <3>2 DEF RunSelfTest
      <4>2. /\ test_running' \in BOOLEAN
            /\ test_complete' \in BOOLEAN
            /\ test_passed' \in BOOLEAN
            /\ healthy' \in BOOLEAN
            /\ snap_after_start' \in BOOLEAN
        BY <4>1, Zenon DEF IInv, ControlTypeOK, SwitchesTypeOK, testVars
      <4> QED BY <4>1, <4>2
                 DEF IInv, ControlTypeOK, RegistersTypeOK, CountersTypeOK,
                     testVars
    <3> QED BY <3>1, <3>2
  <2> QED BY <2>1, <2>2, Zenon
             DEF IInv, ControlTypeOK, SwitchesTypeOK, inputVars, bootVars,
                 evidence, RunSelfTest, EndCycle
<1>4. RegistersTypeOK'
  BY <1>3
     DEF IInv, ControlTypeOK, SwitchesTypeOK, RegistersTypeOK, Modes, Phases,
         Faults, Checks, Frames, IdleFrame, inputVars, testVars, pumpVars,
         txVars, bootVars, evidence, RunSelfTest, EndCycle, Broadcast,
         StopPumpOnLeavingNE
<1>5. CountersTypeOK'
  BY <1>3, ControlAssumption
     DEF IInv, ControlTypeOK, CountersTypeOK, SwitchesTypeOK, inputVars,
         testVars, pumpVars, txVars, bootVars, evidence, RunSelfTest,
         EndCycle, Broadcast, StopPumpOnLeavingNE
<1>6. ExecutorFollows'
  BY <1>3
     DEF IInv, ExecutorFollows, ControlTypeOK, SwitchesTypeOK,
         RegistersTypeOK, Modes, Abstract!Follows, inputVars, testVars,
         pumpVars, txVars, bootVars, evidence, RunSelfTest, EndCycle,
         Broadcast, StopPumpOnLeavingNE
<1>7. BootIsFresh'
  BY <1>3
     DEF IInv, BootIsFresh, ControlTypeOK, SwitchesTypeOK, inputVars,
         testVars, pumpVars, txVars, bootVars, evidence, RunSelfTest,
         EndCycle, Broadcast, StopPumpOnLeavingNE
<1>8. ModeIsEarned'
  BY <1>3
     DEF IInv, ModeIsEarned, ExecutorFollows, BootIsFresh, ControlTypeOK,
         SwitchesTypeOK, RegistersTypeOK, Modes, inputVars, testVars,
         pumpVars, txVars, bootVars, evidence, RunSelfTest, EndCycle,
         Broadcast, StopPumpOnLeavingNE
<1>9. PumpFollowsMode'
  <2>1. UNCHANGED pumpVars
    BY ExperimentIsFinal DEF RunSelfTest, StopPumpOnLeavingNE
  <2>2. last_mode # "NE" /\ phase = "act"
    BY ExperimentIsFinal DEF RunSelfTest
  <2> QED BY <2>1, <2>2, <1>3, ControlAssumption
             DEF IInv, PumpFollowsMode, ControlTypeOK, SwitchesTypeOK,
                 CountersTypeOK, pumpVars
<1>10. FailedInjectionIsReported'
  BY <1>3
     DEF IInv, FailedInjectionIsReported, ExecutorFollows, PumpFollowsMode,
         ControlTypeOK, SwitchesTypeOK, inputVars, testVars, pumpVars, txVars,
         bootVars, evidence, RunSelfTest, EndCycle, Broadcast,
         StopPumpOnLeavingNE
<1> QED BY <1>1, <1>2, <1>3, <1>4, <1>5, <1>6, <1>7, <1>8, <1>9, <1>10
           DEF IInv, ControlTypeOK

LEMMA StartInjectionKeeps ==
  ASSUME IInv, StartInjection
  PROVE  IInv'
<1>1. DiscretesTypeOK'
  BY
     DEF IInv, ControlTypeOK, DiscretesTypeOK, discretesVars, StartInjection,
         EndCycle, Broadcast
<1>2. LaunchTypeOK'
  BY
     DEF IInv, ControlTypeOK, LaunchTypeOK, launchVars, StartInjection,
         EndCycle, Broadcast
<1>3. SwitchesTypeOK'
  BY Zenon
     DEF IInv, ControlTypeOK, SwitchesTypeOK, inputVars, testVars, pumpVars,
         txVars, bootVars, evidence, StartInjection, EndCycle, Broadcast
<1>4. RegistersTypeOK'
  BY <1>3
     DEF IInv, ControlTypeOK, SwitchesTypeOK, RegistersTypeOK, Modes, Phases,
         Faults, Checks, Frames, IdleFrame, inputVars, testVars, pumpVars,
         txVars, bootVars, evidence, StartInjection, EndCycle, Broadcast
<1>5. CountersTypeOK'
  BY <1>3, ControlAssumption
     DEF IInv, ControlTypeOK, CountersTypeOK, SwitchesTypeOK, inputVars,
         testVars, pumpVars, txVars, bootVars, evidence, StartInjection,
         EndCycle, Broadcast
<1>6. ExecutorFollows'
  BY <1>3
     DEF IInv, ExecutorFollows, ControlTypeOK, SwitchesTypeOK,
         RegistersTypeOK, Modes, Abstract!Follows, inputVars, testVars,
         pumpVars, txVars, bootVars, evidence, StartInjection, EndCycle,
         Broadcast
<1>7. BootIsFresh'
  BY <1>3
     DEF IInv, BootIsFresh, ControlTypeOK, SwitchesTypeOK, inputVars,
         testVars, pumpVars, txVars, bootVars, evidence, StartInjection,
         EndCycle, Broadcast
<1>8. ModeIsEarned'
  BY <1>3
     DEF IInv, ModeIsEarned, ExecutorFollows, BootIsFresh, ControlTypeOK,
         SwitchesTypeOK, RegistersTypeOK, Modes, inputVars, testVars,
         pumpVars, txVars, bootVars, evidence, StartInjection, EndCycle,
         Broadcast
<1>9. PumpFollowsMode'
  BY <1>3, ControlAssumption
     DEF IInv, PumpFollowsMode, ExecutorFollows, BootIsFresh, ControlTypeOK,
         SwitchesTypeOK, CountersTypeOK, inputVars, testVars, pumpVars,
         txVars, bootVars, evidence, StartInjection, EndCycle, Broadcast
<1>10. FailedInjectionIsReported'
  BY <1>3
     DEF IInv, FailedInjectionIsReported, ExecutorFollows, PumpFollowsMode,
         ControlTypeOK, SwitchesTypeOK, inputVars, testVars, pumpVars, txVars,
         bootVars, evidence, StartInjection, EndCycle, Broadcast
<1> QED BY <1>1, <1>2, <1>3, <1>4, <1>5, <1>6, <1>7, <1>8, <1>9, <1>10
           DEF IInv, ControlTypeOK

LEMMA FailInjectionKeeps ==
  ASSUME IInv, FailInjection
  PROVE  IInv'
<1>1. DiscretesTypeOK'
  BY
     DEF IInv, ControlTypeOK, DiscretesTypeOK, discretesVars, FailInjection,
         EndCycle, Broadcast
<1>2. LaunchTypeOK'
  BY
     DEF IInv, ControlTypeOK, LaunchTypeOK, launchVars, FailInjection,
         EndCycle, Broadcast
<1>3. SwitchesTypeOK'
  BY ZenonT(40)
     DEF IInv, ControlTypeOK, SwitchesTypeOK, inputVars, testVars, pumpVars,
         txVars, bootVars, evidence, FailInjection, EndCycle, Broadcast
<1>4. RegistersTypeOK'
  BY <1>3
     DEF IInv, ControlTypeOK, SwitchesTypeOK, RegistersTypeOK, Modes, Phases,
         Faults, Checks, Frames, IdleFrame, inputVars, testVars, pumpVars,
         txVars, bootVars, evidence, FailInjection, EndCycle, Broadcast
<1>5. CountersTypeOK'
  BY <1>3, ControlAssumption
     DEF IInv, ControlTypeOK, CountersTypeOK, SwitchesTypeOK, inputVars,
         testVars, pumpVars, txVars, bootVars, evidence, FailInjection,
         EndCycle, Broadcast
<1>6. ExecutorFollows'
  BY <1>3
     DEF IInv, ExecutorFollows, ControlTypeOK, SwitchesTypeOK,
         RegistersTypeOK, Modes, Abstract!Follows, inputVars, testVars,
         pumpVars, txVars, bootVars, evidence, FailInjection, EndCycle,
         Broadcast
<1>7. BootIsFresh'
  BY <1>3
     DEF IInv, BootIsFresh, ControlTypeOK, SwitchesTypeOK, inputVars,
         testVars, pumpVars, txVars, bootVars, evidence, FailInjection,
         EndCycle, Broadcast
<1>8. ModeIsEarned'
  BY <1>3
     DEF IInv, ModeIsEarned, ExecutorFollows, BootIsFresh, ControlTypeOK,
         SwitchesTypeOK, RegistersTypeOK, Modes, inputVars, testVars,
         pumpVars, txVars, bootVars, evidence, FailInjection, EndCycle,
         Broadcast
<1>9. PumpFollowsMode'
  BY <1>3, ControlAssumption
     DEF IInv, PumpFollowsMode, ExecutorFollows, BootIsFresh, ControlTypeOK,
         SwitchesTypeOK, CountersTypeOK, inputVars, testVars, pumpVars,
         txVars, bootVars, evidence, FailInjection, EndCycle, Broadcast
<1>10. FailedInjectionIsReported'
  BY <1>3
     DEF IInv, FailedInjectionIsReported, ExecutorFollows, PumpFollowsMode,
         ControlTypeOK, SwitchesTypeOK, inputVars, testVars, pumpVars, txVars,
         bootVars, evidence, FailInjection, EndCycle, Broadcast
<1> QED BY <1>1, <1>2, <1>3, <1>4, <1>5, <1>6, <1>7, <1>8, <1>9, <1>10
           DEF IInv, ControlTypeOK

LEMMA WatchInjectionKeeps ==
  ASSUME IInv, WatchInjection
  PROVE  IInv'
<1>1. DiscretesTypeOK'
  BY
     DEF IInv, ControlTypeOK, DiscretesTypeOK, discretesVars, WatchInjection,
         EndCycle, Broadcast, TrainInProgress, TrainStopped
<1>2. LaunchTypeOK'
  BY
     DEF IInv, ControlTypeOK, LaunchTypeOK, launchVars, WatchInjection,
         EndCycle, Broadcast, TrainInProgress, TrainStopped
<1>3. SwitchesTypeOK'
  <2>1. driver_enabled' \in BOOLEAN
    <3>1. CASE pump_running
      BY <3>1, Zenon
         DEF IInv, ControlTypeOK, SwitchesTypeOK, WatchInjection,
             TrainInProgress
    <3>2. CASE ~pump_running /\ dispense_remaining # 0
      BY <3>2, Zenon DEF WatchInjection, TrainStopped
    <3>3. CASE ~pump_running /\ dispense_remaining = 0
      BY <3>3, Zenon
         DEF IInv, ControlTypeOK, SwitchesTypeOK, WatchInjection, TrainStopped
    <3> QED BY <3>1, <3>2, <3>3
  <2>2. stepper_activated' = stepper_activated /\ pump_running' = pump_running
    BY Zenon DEF WatchInjection, TrainInProgress, TrainStopped
  <2> QED BY <2>1, <2>2, ZenonT(40)
             DEF IInv, ControlTypeOK, SwitchesTypeOK, inputVars, testVars,
                 bootVars, evidence, WatchInjection, EndCycle
<1>4. RegistersTypeOK'
  BY <1>3
     DEF IInv, ControlTypeOK, SwitchesTypeOK, RegistersTypeOK, Modes, Phases,
         Faults, Checks, Frames, IdleFrame, inputVars, testVars, pumpVars,
         txVars, bootVars, evidence, WatchInjection, EndCycle, Broadcast,
         TrainInProgress, TrainStopped
<1>5. CountersTypeOK'
  <2>1. CASE pump_running
    <3>1. dispense_remaining' = DispensePulses - pulses /\ injected' = injected
      BY <2>1, Zenon DEF WatchInjection, TrainInProgress
    <3>2. dispense_remaining' \in 0 .. DispensePulses
      BY <3>1, ControlAssumption DEF IInv, ControlTypeOK, CountersTypeOK
    <3> QED BY <3>1, <3>2, ControlAssumption
               DEF IInv, ControlTypeOK, CountersTypeOK, testVars, bootVars,
                   WatchInjection, EndCycle, Broadcast
  <2>2. CASE ~pump_running
    <3>1. dispense_remaining' = 0 /\ injected' = injected
      BY <2>2, Zenon DEF WatchInjection, TrainStopped
    <3> QED BY <3>1, ControlAssumption
               DEF IInv, ControlTypeOK, CountersTypeOK, testVars, bootVars,
                   WatchInjection, EndCycle, Broadcast
  <2> QED BY <2>1, <2>2
<1>6. ExecutorFollows'
  BY <1>3
     DEF IInv, ExecutorFollows, ControlTypeOK, SwitchesTypeOK,
         RegistersTypeOK, Modes, Abstract!Follows, inputVars, testVars,
         pumpVars, txVars, bootVars, evidence, WatchInjection, EndCycle,
         Broadcast, TrainInProgress, TrainStopped
<1>7. BootIsFresh'
  BY <1>3
     DEF IInv, BootIsFresh, ControlTypeOK, SwitchesTypeOK, inputVars,
         testVars, pumpVars, txVars, bootVars, evidence, WatchInjection,
         EndCycle, Broadcast, TrainInProgress, TrainStopped
<1>8. ModeIsEarned'
  BY <1>3
     DEF IInv, ModeIsEarned, ExecutorFollows, BootIsFresh, ControlTypeOK,
         SwitchesTypeOK, RegistersTypeOK, Modes, inputVars, testVars,
         pumpVars, txVars, bootVars, evidence, WatchInjection, EndCycle,
         Broadcast, TrainInProgress, TrainStopped
<1>9. PumpFollowsMode'
  <2>1. CASE pump_running
    BY <2>1, <1>3, <1>5, ControlAssumption
       DEF IInv, PumpFollowsMode, ControlTypeOK, SwitchesTypeOK,
           CountersTypeOK, WatchInjection, EndCycle, TrainInProgress
  <2>2. CASE ~pump_running
    BY <2>2, <1>3, <1>5, ControlAssumption
       DEF IInv, PumpFollowsMode, ControlTypeOK, SwitchesTypeOK,
           CountersTypeOK, WatchInjection, EndCycle, TrainStopped
  <2> QED BY <2>1, <2>2
<1>10. FailedInjectionIsReported'
  BY <1>3
     DEF IInv, FailedInjectionIsReported, ExecutorFollows, PumpFollowsMode,
         ControlTypeOK, SwitchesTypeOK, inputVars, testVars, pumpVars, txVars,
         bootVars, evidence, WatchInjection, EndCycle, Broadcast,
         TrainInProgress, TrainStopped
<1> QED BY <1>1, <1>2, <1>3, <1>4, <1>5, <1>6, <1>7, <1>8, <1>9, <1>10
           DEF IInv, ControlTypeOK

LEMMA PumpPulsesKeeps ==
  ASSUME IInv, PumpPulses
  PROVE  IInv'
<1>1. DiscretesTypeOK'
  BY DEF IInv, ControlTypeOK, DiscretesTypeOK, discretesVars, PumpPulses
<1>2. LaunchTypeOK'
  BY DEF IInv, ControlTypeOK, LaunchTypeOK, launchVars, PumpPulses
<1>3. SwitchesTypeOK'
  BY ZenonT(40)
     DEF IInv, ControlTypeOK, SwitchesTypeOK, inputVars, testVars, pumpVars,
         txVars, bootVars, evidence, PumpPulses
<1>4. RegistersTypeOK'
  BY <1>3
     DEF IInv, ControlTypeOK, SwitchesTypeOK, RegistersTypeOK, Modes, Phases,
         Faults, Checks, Frames, IdleFrame, inputVars, testVars, pumpVars,
         txVars, bootVars, evidence, PumpPulses
<1>5. CountersTypeOK'
  BY <1>3, ControlAssumption
     DEF IInv, ControlTypeOK, CountersTypeOK, SwitchesTypeOK, inputVars,
         testVars, pumpVars, txVars, bootVars, evidence, PumpPulses
<1>6. ExecutorFollows'
  BY <1>3
     DEF IInv, ExecutorFollows, ControlTypeOK, SwitchesTypeOK,
         RegistersTypeOK, Modes, Abstract!Follows, inputVars, testVars,
         pumpVars, txVars, bootVars, evidence, PumpPulses
<1>7. BootIsFresh'
  BY <1>3
     DEF IInv, BootIsFresh, ControlTypeOK, SwitchesTypeOK, inputVars,
         testVars, pumpVars, txVars, bootVars, evidence, PumpPulses
<1>8. ModeIsEarned'
  BY <1>3
     DEF IInv, ModeIsEarned, ExecutorFollows, BootIsFresh, ControlTypeOK,
         SwitchesTypeOK, RegistersTypeOK, Modes, inputVars, testVars,
         pumpVars, txVars, bootVars, evidence, PumpPulses
<1>9. PumpFollowsMode'
  BY <1>3, ControlAssumption
     DEF IInv, PumpFollowsMode, ExecutorFollows, BootIsFresh, ControlTypeOK,
         SwitchesTypeOK, CountersTypeOK, inputVars, testVars, pumpVars,
         txVars, bootVars, evidence, PumpPulses
<1>10. FailedInjectionIsReported'
  BY <1>3
     DEF IInv, FailedInjectionIsReported, ExecutorFollows, PumpFollowsMode,
         ControlTypeOK, SwitchesTypeOK, inputVars, testVars, pumpVars, txVars,
         bootVars, evidence, PumpPulses
<1> QED BY <1>1, <1>2, <1>3, <1>4, <1>5, <1>6, <1>7, <1>8, <1>9, <1>10
           DEF IInv, ControlTypeOK

LEMMA PumpTimerFiresKeeps ==
  ASSUME IInv, PumpTimerFires
  PROVE  IInv'
<1>1. DiscretesTypeOK'
  BY DEF IInv, ControlTypeOK, DiscretesTypeOK, discretesVars, PumpTimerFires
<1>2. LaunchTypeOK'
  BY DEF IInv, ControlTypeOK, LaunchTypeOK, launchVars, PumpTimerFires
<1>3. SwitchesTypeOK'
  BY ZenonT(40)
     DEF IInv, ControlTypeOK, SwitchesTypeOK, inputVars, testVars, pumpVars,
         txVars, bootVars, evidence, PumpTimerFires
<1>4. RegistersTypeOK'
  BY <1>3
     DEF IInv, ControlTypeOK, SwitchesTypeOK, RegistersTypeOK, Modes, Phases,
         Faults, Checks, Frames, IdleFrame, inputVars, testVars, pumpVars,
         txVars, bootVars, evidence, PumpTimerFires
<1>5. CountersTypeOK'
  BY <1>3, ControlAssumption
     DEF IInv, ControlTypeOK, CountersTypeOK, SwitchesTypeOK, inputVars,
         testVars, pumpVars, txVars, bootVars, evidence, PumpTimerFires
<1>6. ExecutorFollows'
  BY <1>3
     DEF IInv, ExecutorFollows, ControlTypeOK, SwitchesTypeOK,
         RegistersTypeOK, Modes, Abstract!Follows, inputVars, testVars,
         pumpVars, txVars, bootVars, evidence, PumpTimerFires
<1>7. BootIsFresh'
  BY <1>3
     DEF IInv, BootIsFresh, ControlTypeOK, SwitchesTypeOK, inputVars,
         testVars, pumpVars, txVars, bootVars, evidence, PumpTimerFires
<1>8. ModeIsEarned'
  BY <1>3
     DEF IInv, ModeIsEarned, ExecutorFollows, BootIsFresh, ControlTypeOK,
         SwitchesTypeOK, RegistersTypeOK, Modes, inputVars, testVars,
         pumpVars, txVars, bootVars, evidence, PumpTimerFires
<1>9. PumpFollowsMode'
  BY <1>3, ControlAssumption
     DEF IInv, PumpFollowsMode, ExecutorFollows, BootIsFresh, ControlTypeOK,
         SwitchesTypeOK, CountersTypeOK, inputVars, testVars, pumpVars,
         txVars, bootVars, evidence, PumpTimerFires
<1>10. FailedInjectionIsReported'
  BY <1>3
     DEF IInv, FailedInjectionIsReported, ExecutorFollows, PumpFollowsMode,
         ControlTypeOK, SwitchesTypeOK, inputVars, testVars, pumpVars, txVars,
         bootVars, evidence, PumpTimerFires
<1> QED BY <1>1, <1>2, <1>3, <1>4, <1>5, <1>6, <1>7, <1>8, <1>9, <1>10
           DEF IInv, ControlTypeOK

LEMMA ResetKeeps ==
  ASSUME IInv, NEW reason \in {"watchdog", "other"}, Reset(reason)
  PROVE  IInv'
<1>1. DiscretesTypeOK'
  <2>1. pin' \in RawLevels /\ level' \in RawLevels
    BY Zenon DEF RawLevels, Reset
  <2>2. streak' \in [Flags -> 0 .. DebounceSamples - 1]
    BY DebounceAssumption DEF Reset
  <2>3. lo_ever' \in BOOLEAN
    BY Zenon DEF Reset
  <2> QED BY <2>1, <2>2, <2>3 DEF DiscretesTypeOK
<1>2. LaunchTypeOK'
  <2>1. launch_latched' \in BOOLEAN
    BY Zenon DEF Reset
  <2> QED BY <2>1, LaunchAssumption DEF LaunchTypeOK, Reset
<1>3. SwitchesTypeOK'
  BY Zenon
     DEF IInv, ControlTypeOK, SwitchesTypeOK, inputVars, testVars, pumpVars,
         txVars, bootVars, evidence, Reset
<1>4. RegistersTypeOK'
  BY <1>3
     DEF IInv, ControlTypeOK, SwitchesTypeOK, RegistersTypeOK, Modes, Phases,
         Faults, Checks, Frames, IdleFrame, inputVars, testVars, pumpVars,
         txVars, bootVars, evidence, Reset
<1>5. CountersTypeOK'
  BY <1>3, ControlAssumption
     DEF IInv, ControlTypeOK, CountersTypeOK, SwitchesTypeOK, inputVars,
         testVars, pumpVars, txVars, bootVars, evidence, Reset
<1>6. ExecutorFollows'
  BY <1>3
     DEF IInv, ExecutorFollows, ControlTypeOK, SwitchesTypeOK,
         RegistersTypeOK, Modes, Abstract!Follows, inputVars, testVars,
         pumpVars, txVars, bootVars, evidence, Reset
<1>7. BootIsFresh'
  BY <1>3
     DEF IInv, BootIsFresh, ControlTypeOK, SwitchesTypeOK, inputVars,
         testVars, pumpVars, txVars, bootVars, evidence, Reset
<1>8. ModeIsEarned'
  BY <1>3
     DEF IInv, ModeIsEarned, ExecutorFollows, BootIsFresh, ControlTypeOK,
         SwitchesTypeOK, RegistersTypeOK, Modes, inputVars, testVars,
         pumpVars, txVars, bootVars, evidence, Reset
<1>9. PumpFollowsMode'
  BY <1>3, ControlAssumption
     DEF IInv, PumpFollowsMode, ExecutorFollows, BootIsFresh, ControlTypeOK,
         SwitchesTypeOK, CountersTypeOK, inputVars, testVars, pumpVars,
         txVars, bootVars, evidence, Reset
<1>10. FailedInjectionIsReported'
  BY <1>3
     DEF IInv, FailedInjectionIsReported, ExecutorFollows, PumpFollowsMode,
         ControlTypeOK, SwitchesTypeOK, inputVars, testVars, pumpVars, txVars,
         bootVars, evidence, Reset
<1> QED BY <1>1, <1>2, <1>3, <1>4, <1>5, <1>6, <1>7, <1>8, <1>9, <1>10
           DEF IInv, ControlTypeOK

-----------------------------------------------------------------------------
LEMMA InitHolds == Init => IInv
<1> SUFFICES ASSUME Init PROVE IInv
  OBVIOUS
<1>1. DiscretesTypeOK
  BY ResetTyped DEF Init, DiscretesReset
<1>2. LaunchTypeOK
  <2>1. launch_latched \in BOOLEAN
    BY Zenon DEF Init, LaunchReset
  <2> QED BY <2>1, LaunchAssumption DEF LaunchTypeOK, Init, LaunchReset
<1>3. SwitchesTypeOK
  BY Zenon DEF SwitchesTypeOK, Init
<1>4. RegistersTypeOK
  BY
     DEF RegistersTypeOK, Init, Phases, Modes, Faults, Checks, Frames,
         IdleFrame
<1>5. CountersTypeOK
  BY ControlAssumption DEF CountersTypeOK, Init
<1>6. ExecutorFollows /\ BootIsFresh /\ ModeIsEarned
  BY DEF ExecutorFollows, BootIsFresh, ModeIsEarned, Init
<1>7. PumpFollowsMode /\ FailedInjectionIsReported
  BY DEF PumpFollowsMode, FailedInjectionIsReported, Init
<1> QED BY <1>1, <1>2, <1>3, <1>4, <1>5, <1>6, <1>7 DEF IInv, ControlTypeOK

LEMMA StutterKeeps ==
  ASSUME IInv, UNCHANGED vars
  PROVE  IInv'
<1>1. ControlTypeOK'
  BY
     DEF vars, discretesVars, launchVars, inputVars, testVars, pumpVars,
         txVars, bootVars, evidence, IInv, ControlTypeOK, DiscretesTypeOK,
         LaunchTypeOK, SwitchesTypeOK, RegistersTypeOK, CountersTypeOK
<1>2. /\ ExecutorFollows' /\ BootIsFresh' /\ ModeIsEarned'
      /\ PumpFollowsMode' /\ FailedInjectionIsReported'
  BY
     DEF vars, inputVars, testVars, pumpVars, bootVars, evidence, IInv,
         ExecutorFollows, BootIsFresh, ModeIsEarned, PumpFollowsMode,
         FailedInjectionIsReported
<1> QED BY <1>1, <1>2 DEF IInv

LEMMA NextKeeps == IInv /\ [Next]_vars => IInv'
<1> SUFFICES ASSUME IInv, [Next]_vars PROVE IInv'
  OBVIOUS
<1>1. ASSUME NEW raw \in RawLevels, NEW post \in BOOLEAN, Boot(raw, post)
      PROVE  IInv'
  BY <1>1, BootKeeps
<1>2. ASSUME NEW raw \in RawLevels, NEW imu \in ImuReadings, NEW test \in BOOLEAN,
             CollectInputs(raw, imu, test)
      PROVE  IInv'
  BY <1>2, CollectInputsKeeps
<1>3. CASE DecideMode
  BY <1>3, DecideModeKeeps
<1>4. CASE RunQuietMode
  BY <1>4, RunQuietModeKeeps
<1>5. ASSUME NEW found \in Findings, RunSelfTest(found)
      PROVE  IInv'
  BY <1>5, RunSelfTestKeeps
<1>6. CASE StartInjection
  BY <1>6, StartInjectionKeeps
<1>7. CASE FailInjection
  BY <1>7, FailInjectionKeeps
<1>8. CASE WatchInjection
  BY <1>8, WatchInjectionKeeps
<1>9. CASE PumpPulses
  BY <1>9, PumpPulsesKeeps
<1>10. CASE PumpTimerFires
  BY <1>10, PumpTimerFiresKeeps
<1>11. ASSUME NEW reason \in {"watchdog", "other"}, Reset(reason)
       PROVE  IInv'
  BY <1>11, ResetKeeps
<1>12. CASE UNCHANGED vars
  BY <1>12, StutterKeeps
<1> QED BY <1>1, <1>2, <1>3, <1>4, <1>5, <1>6, <1>7, <1>8, <1>9, <1>10, <1>11,
           <1>12
           DEF Next, ControlTask

(* IInv is an invariant of the control loop: with the mode and the pump it *)
(* relates what the executor last ran and the evidence collected so far.   *)
THEOREM InductiveInvariant == Spec => []IInv
<1> QED BY InitHolds, NextKeeps, PTL DEF Spec

(* The variables of the control loop keep their types. *)
LEMMA TypeCorrect == Spec => []ControlTypeOK
<1>1. IInv => ControlTypeOK
  BY DEF IInv
<1> QED BY <1>1, InductiveInvariant, PTL

(* The pump is powered or pulsing only with flight confirmed, a debounced  *)
(* SOE after it, and a POST or self-test passed (mode_next, MODE_NE).      *)
THEOREM MotionAuthorised == Spec => []MotionIsAuthorised
<1>1. IInv => MotionIsAuthorised
  <2> SUFFICES ASSUME IInv, phase # "boot", driver_enabled \/ pump_running
               PROVE  authorised /\ (post_passed \/ (test_complete /\ test_passed))
    BY DEF MotionIsAuthorised, IInv
  <2>1. last_mode = "NE"
    BY DEF IInv, PumpFollowsMode
  <2>2. mode = "NE"
    BY <2>1 DEF IInv, ExecutorFollows, Abstract!Follows
  <2> QED BY <2>2, Zenon DEF IInv, ModeIsEarned
<1> QED BY <1>1, InductiveInvariant, PTL

(* One boot injects at most one train and the executor never believes less *)
(* is owed than is (dispense_step against the pump timer).                 *)
THEOREM OneTrain == Spec => []OneTrainPerBoot
<1>1. IInv => OneTrainPerBoot
  BY ControlAssumption
     DEF IInv, PumpFollowsMode, ControlTypeOK, SwitchesTypeOK, CountersTypeOK,
         OneTrainPerBoot
<1> QED BY <1>1, InductiveInvariant, PTL

(* An injection that could not start has raised FLUIDIC_FAULT (MODE_NE's   *)
(* error path in mode_executor_run).                                       *)
THEOREM FailureReported == Spec => []FailedInjectionIsReported
<1>1. IInv => FailedInjectionIsReported
  BY DEF IInv
<1> QED BY <1>1, InductiveInvariant, PTL

-----------------------------------------------------------------------------
(* The self-test, while it runs and when it has its verdict: the mask      *)
(* names a check other than the clock exactly when a step found a fault.   *)
MaskIsOfTheWindow ==
  /\ test_running \/ test_complete => (healthy <=> test_failures \subseteq {"CLOCK"})
  /\ test_complete => (test_passed <=> test_failures = {}) /\ ~test_running

(* One step of the self-test. *)
LEMMA TestStepKeepsMask ==
  ASSUME ControlTypeOK, MaskIsOfTheWindow, NEW entered \in BOOLEAN,
         NEW found \in Findings, entered \/ test_running, TestStep(entered, found)
  PROVE  MaskIsOfTheWindow'
<1> DEFINE moved   == ~entered /\ snap_after_start
           before  == IF entered THEN TestCycles ELSE test_cycles_left
           left    == IF before > 0 THEN before - 1 ELSE 0
           earlier == IF entered THEN {} ELSE test_failures
           clock   == IF moved THEN {} ELSE {"CLOCK"}
<1>1. /\ test_running' = (left # 0)
      /\ test_complete' = (left = 0)
      /\ test_failures' = earlier \cup found \cup clock
      /\ test_passed' = (left = 0 /\ test_failures' = {})
      /\ healthy' = ((entered \/ healthy) /\ found = {})
  BY Zenon DEF TestStep
<1>2. clock \subseteq {"CLOCK"}
  OBVIOUS
<1>3. found \subseteq {"CLOCK"} <=> found = {}
  BY SMT DEF Findings
<1>4. (entered \/ healthy) <=> earlier \subseteq {"CLOCK"}
  BY Zenon DEF MaskIsOfTheWindow
<1> HIDE DEF moved, before, left, earlier, clock
<1>5. healthy' <=> test_failures' \subseteq {"CLOCK"}
  BY <1>1, <1>2, <1>3, <1>4, Zenon
<1> QED
  BY <1>1, <1>5, Zenon DEF MaskIsOfTheWindow

(* Every step keeps it: only RunSelfTest and Reset touch the self-test.    *)
LEMMA StepKeepsMask ==
  ASSUME ControlTypeOK, MaskIsOfTheWindow, [Next]_vars
  PROVE  MaskIsOfTheWindow'
<1>1. CASE UNCHANGED testVars
  BY <1>1, Zenon DEF testVars, MaskIsOfTheWindow
<1>2. ASSUME NEW found \in Findings, RunSelfTest(found)
      PROVE  MaskIsOfTheWindow'
  <2>1. CASE mode # last_mode \/ test_running
    <3>1. TestStep(mode # last_mode, found)
      BY <1>2, <2>1 DEF RunSelfTest
    <3> QED
      BY <2>1, <3>1, TestStepKeepsMask
  <2>2. CASE ~(mode # last_mode \/ test_running)
    BY <1>1, <1>2, <2>2 DEF RunSelfTest
  <2> QED
    BY <2>1, <2>2
<1>3. ASSUME NEW reason \in {"watchdog", "other"}, Reset(reason)
      PROVE  MaskIsOfTheWindow'
  BY <1>3 DEF Reset, MaskIsOfTheWindow
<1>4. CASE UNCHANGED vars
  BY <1>1, <1>4 DEF vars
<1>5. ASSUME \/ \E raw \in RawLevels, post \in BOOLEAN : Boot(raw, post)
             \/ \E raw \in RawLevels, imu \in ImuReadings, test \in BOOLEAN :
                  CollectInputs(raw, imu, test)
             \/ DecideMode
             \/ RunQuietMode
             \/ StartInjection
             \/ FailInjection
             \/ WatchInjection
      PROVE  UNCHANGED testVars
  BY <1>5, Zenon DEF Boot, CollectInputs, DecideMode, RunQuietMode, StartInjection,
     FailInjection, WatchInjection
<1>6. ASSUME PumpPulses \/ PumpTimerFires
      PROVE  UNCHANGED testVars
  BY <1>6, Zenon DEF PumpPulses, PumpTimerFires
<1> QED
  BY <1>1, <1>2, <1>3, <1>4, <1>5, <1>6, Zenon DEF Next, ControlTask

(* test_step: the verdict of a finished self-test stands for every step of *)
(* its window, and is a pass only for an empty mask.                       *)
THEOREM VerdictOfTheWindow == Spec => []VerdictCoversTheWindow
<1>1. Init => MaskIsOfTheWindow
  BY Zenon DEF Init, MaskIsOfTheWindow
<1>2. MaskIsOfTheWindow => VerdictCoversTheWindow
  BY Zenon DEF MaskIsOfTheWindow, VerdictCoversTheWindow
<1> QED
  BY <1>1, <1>2, StepKeepsMask, TypeCorrect, PTL DEF Spec

-----------------------------------------------------------------------------
(* The control loop implements Mission: every step is a step of it or      *)
(* leaves stage, syringe and clearance alone.                              *)
LEMMA StepImplements ==
  IInv /\ IInv' /\ [Next]_vars => [Abstract!Next]_(Abstract!vars)
<1> SUFFICES ASSUME IInv, IInv', [Next]_vars
             PROVE  [Abstract!Next]_(Abstract!vars)
  OBVIOUS
<1> USE DEF Abstract!vars
<1>1. ASSUME NEW raw \in RawLevels, NEW post \in BOOLEAN, Boot(raw, post)
      PROVE  UNCHANGED Abstract!vars
  BY <1>1 DEF Boot, evidence
<1>2. ASSUME NEW raw \in RawLevels, NEW imu \in ImuReadings, NEW test \in BOOLEAN,
             CollectInputs(raw, imu, test)
      PROVE  [Abstract!Next]_(Abstract!vars)
  <2>1. UNCHANGED <<mode, pump_running, stepper_activated>>
    BY <1>2 DEF CollectInputs, pumpVars
  <2>2. authorised' = authorised \/ authorised' = TRUE
    BY <1>2, Zenon DEF CollectInputs, IInv, ControlTypeOK, SwitchesTypeOK
  <2> QED BY <2>1, <2>2, Zenon DEF Abstract!Next, Abstract!Clear
<1>3. CASE DecideMode
  <2>1. UNCHANGED <<pump_running, stepper_activated, authorised>>
    BY <1>3 DEF DecideMode, pumpVars, evidence
  <2>2. mode' = mode \/ <<mode, mode'>> \in Abstract!Follows
    BY <1>3, IInv' DEF IInv, ExecutorFollows, DecideMode
  <2>3. mode' = "NE" => authorised
    BY <1>3, <2>1 DEF IInv, ModeIsEarned
  <2>4. mode' \in Abstract!Stages
    BY DEF IInv, ControlTypeOK, RegistersTypeOK, Modes, Abstract!Stages
  <2> QED BY <2>1, <2>2, <2>3, <2>4 DEF Abstract!Next, Abstract!Advance
<1>4. CASE RunQuietMode \/ \E found \in Findings : RunSelfTest(found)
  <2>1. UNCHANGED pumpVars
    BY <1>4, ExperimentIsFinal
       DEF RunQuietMode, RunSelfTest, StopPumpOnLeavingNE
  <2> QED BY <1>4, <2>1
             DEF pumpVars, evidence, RunQuietMode, RunSelfTest, EndCycle
<1>5. CASE StartInjection
  <2>1. ~stepper_activated /\ ~pump_running
    BY <1>5 DEF StartInjection, IInv, PumpFollowsMode
  <2>2. mode = "NE" /\ authorised
    BY <1>5 DEF StartInjection, IInv, ModeIsEarned
  <2>3. pump_running' /\ UNCHANGED <<mode, authorised>>
    BY <1>5 DEF StartInjection, EndCycle, evidence
  <2> QED BY <2>1, <2>2, <2>3 DEF Abstract!Next, Abstract!Start
<1>6. CASE FailInjection \/ WatchInjection
  <2>1. stepper_activated' = stepper_activated /\ pump_running' = pump_running
    BY <1>6, Zenon
       DEF FailInjection, WatchInjection, TrainInProgress, TrainStopped
  <2>2. UNCHANGED <<mode, authorised>>
    BY <1>6 DEF FailInjection, WatchInjection, EndCycle, evidence
  <2> QED BY <2>1, <2>2
<1>7. CASE PumpPulses
  BY <1>7 DEF PumpPulses, evidence
<1>8. CASE PumpTimerFires
  <2>1. pump_running /\ ~pump_running' /\ stepper_activated'
    BY <1>8 DEF PumpTimerFires, IInv, PumpFollowsMode
  <2>2. UNCHANGED <<mode, authorised>>
    BY <1>8 DEF PumpTimerFires, evidence
  <2> QED BY <2>1, <2>2 DEF Abstract!Next, Abstract!Finish
<1>9. ASSUME NEW reason \in {"watchdog", "other"}, Reset(reason)
      PROVE  [Abstract!Next]_(Abstract!vars)
  <2>1. Abstract!Restart
    BY <1>9 DEF Reset, Abstract!Restart
  <2> QED BY <2>1 DEF Abstract!Next
<1>10. CASE UNCHANGED vars
  BY <1>10 DEF vars, pumpVars, evidence
<1> QED BY <1>1, <1>2, <1>3, <1>4, <1>5, <1>6, <1>7, <1>8, <1>9, <1>10
           DEF Next, ControlTask

(* Stages in order, one stroke of the syringe per boot, never before       *)
(* flight and SOE: the control loop implements Mission.                    *)
THEOREM Refinement == Spec => ImplementsMission
<1>1. Init => Abstract!Init
  BY DEF Init, Abstract!Init
<1>2. IInv /\ IInv' /\ [Next]_vars => [Abstract!Next]_(Abstract!vars)
  BY StepImplements
<1> QED BY <1>1, <1>2, InductiveInvariant, PTL
           DEF Spec, ImplementsMission, Abstract!Spec
=============================================================================
