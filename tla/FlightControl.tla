---------------------------- MODULE FlightControl ----------------------------
(***************************************************************************)
(* The ESP32 control loop (main/main.c) with the state machine             *)
(* (state_machine.c, mode_manager.c), the mode executor (mode_executor.c)  *)
(* and the syringe pump's hardware pulse train (gpio_driver.c).            *)
(*                                                                         *)
(* Actors: the control task, which runs Boot and then the three steps of   *)
(* a cycle for ever; the LEDC peripheral, which emits pulses; the          *)
(* esp_timer task, which stops the train; and resets, which may strike     *)
(* between any two steps and clear everything but the hardware's inputs.   *)
(*                                                                         *)
(* Abstracted: pulses are counted in coarse units (DispensePulses units to *)
(* a train); a self-test's clock check compares two instants, of which     *)
(* only the order is kept (snap_after_start); the frame handed to the Pi   *)
(* link keeps its id, mode and flight flag (PiLink models what becomes of  *)
(* it).  Sensors, heaters and the rest of the error word have modules of   *)
(* their own and change nothing here.                                      *)
(***************************************************************************)
EXTENDS Discretes, LaunchDetector

CONSTANTS
  TestCycles,       (* TEST_CYCLES, steps of one self-test                   *)
  DispensePulses,   (* NE_DISPENSE_PULSES in coarse units                    *)
  PollCycles,       (* cycles from one POLL to the next                      *)
  MaxResets         (* bound: resets after power-on                          *)

ASSUME ControlAssumption ==
  /\ TestCycles \in Nat \ {0}
  /\ DispensePulses \in Nat \ {0}
  /\ PollCycles \in Nat \ {0}
  /\ MaxResets \in Nat

VARIABLES
  phase,              (* where the control task is in its loop               *)
  reset_reason,       (* esp_reset_reason(): what caused the latest boot     *)
  post_passed,        (* the power-on self test passed                       *)
  errors,             (* bits of the error word this module raises           *)
  soe, flight, test_requested,   (* mode_inputs_t, as collected this cycle   *)
  mode,               (* mode_manager.c                                      *)
  last_mode,          (* the mode the executor last ran                      *)
  test_running, test_complete, test_passed, test_failures, test_cycles_left,
  snap_after_start,   (* the snapshot was taken after test_start_ms was      *)
  dispense_remaining, stepper_activated,
  driver_enabled,     (* PIN_PUMP_ENN: the stepper driver holds current      *)
  pump_running,       (* gpio_driver.c, cleared by the esp_timer task        *)
  pulses,             (* what pump_pulses_done() derives from elapsed time   *)
  poll_divider,
  tx,                 (* the frame last handed to spi_pi_link_load           *)
  resets,             (* resets so far                                       *)
  (* histories, read by no action's guard *)
  confirmed,          (* a cycle of this boot confirmed the flight           *)
  authorised,         (* a later cycle of this boot saw SOE                  *)
  healthy,            (* no check of the latest self-test found a fault      *)
  injected            (* units injected since this boot                      *)

inputVars  == <<soe, flight, test_requested>>
testVars   == <<test_running, test_complete, test_passed, test_failures,
                test_cycles_left, healthy>>
pumpVars   == <<dispense_remaining, stepper_activated, driver_enabled,
                pump_running, pulses, injected>>
txVars     == <<poll_divider, tx>>
bootVars   == <<reset_reason, post_passed, resets>>
evidence   == <<confirmed, authorised>>

vars == <<discretesVars, launchVars, phase, errors, inputVars, mode,
          last_mode, testVars, snap_after_start, pumpVars, txVars, bootVars,
          evidence>>

Modes  == {"SU", "T", "NG", "NF", "NE"}
Phases == {"boot", "inputs", "decide", "act"}
Faults == {"UNEXPECTED_SIGNAL", "FLUIDIC_FAULT", "WATCHDOG_RESET"}
Checks == {"CRC", "SENSORS", "CLOCK", "PI_LINK", "STORAGE"}

(* What the checks of one test step other than the clock may find: the     *)
(* storage is only looked at while the link is not degraded.               *)
Findings == {F \in SUBSET (Checks \ {"CLOCK"}) : ~({"PI_LINK", "STORAGE"} \subseteq F)}

Frames == [id : {"POLL"}, mode : Modes, flight : BOOLEAN]
            \cup [id : {"SENSOR_DATA", "IDLE"}]
IdleFrame == [id |-> "IDLE"]

-----------------------------------------------------------------------------
(* The statics of the firmware as the C runtime leaves them. *)
Init ==
  /\ DiscretesReset
  /\ LaunchReset
  /\ phase = "boot"
  /\ reset_reason = "power_on"
  /\ post_passed = FALSE
  /\ errors = {}
  /\ soe = FALSE /\ flight = FALSE /\ test_requested = FALSE
  /\ mode = "SU"
  /\ last_mode = "SU"
  /\ test_running = FALSE /\ test_complete = FALSE /\ test_passed = FALSE
  /\ test_failures = {}
  /\ test_cycles_left = 0
  /\ snap_after_start = FALSE
  /\ dispense_remaining = 0
  /\ stepper_activated = FALSE
  /\ driver_enabled = FALSE
  /\ pump_running = FALSE
  /\ pulses = 0
  /\ poll_divider = 0
  /\ tx = IdleFrame
  /\ resets = 0
  /\ confirmed = FALSE /\ authorised = FALSE
  /\ healthy = TRUE
  /\ injected = 0

(* app_main up to its loop: record the reset cause, release the pump       *)
(* driver, prime the discretes, run the POST, start in SU.                 *)
Boot(raw, post) ==
  /\ phase = "boot"
  /\ errors' = IF reset_reason = "watchdog" THEN {"WATCHDOG_RESET"} ELSE {}
  /\ driver_enabled' = FALSE
  /\ PrimeFilter(raw)
  /\ post_passed' = post
  /\ phase' = "inputs"
  /\ UNCHANGED <<launchVars, inputVars, mode, last_mode, testVars,
                 snap_after_start, dispense_remaining, stepper_activated,
                 pump_running, pulses, injected, txVars, reset_reason, resets,
                 evidence>>

(* A reset: the watchdog's (the loop hung for 8 s) or any other.  Every    *)
(* static starts over and the LEDC train stops; what was injected is no    *)
(* longer counted.  The driver's enable pin keeps its value until Boot.    *)
Reset(reason) ==
  /\ phase # "boot"
  /\ resets < MaxResets
  /\ resets' = resets + 1
  /\ reset_reason' = reason
  /\ phase' = "boot"
  /\ pin' = [f \in Flags |-> FALSE] /\ level' = [f \in Flags |-> FALSE]
  /\ streak' = [f \in Flags |-> 0] /\ lo_ever' = FALSE
  /\ launch_cycles' = 0 /\ launch_latched' = FALSE
  /\ post_passed' = FALSE
  /\ errors' = {}
  /\ soe' = FALSE /\ flight' = FALSE /\ test_requested' = FALSE
  /\ mode' = "SU" /\ last_mode' = "SU"
  /\ test_running' = FALSE /\ test_complete' = FALSE /\ test_passed' = FALSE
  /\ test_failures' = {} /\ test_cycles_left' = 0
  /\ snap_after_start' = FALSE
  /\ dispense_remaining' = 0 /\ stepper_activated' = FALSE
  /\ pump_running' = FALSE /\ pulses' = 0
  /\ poll_divider' = 0 /\ tx' = IdleFrame
  /\ confirmed' = FALSE /\ authorised' = FALSE
  /\ healthy' = TRUE
  /\ injected' = 0
  /\ UNCHANGED driver_enabled
-----------------------------------------------------------------------------
(* The input half of a cycle: sensors_read stamps a new snapshot, the      *)
(* uplink is polled, and mode_inputs_collect samples the discretes,        *)
(* confirms the flight and consumes a TEST command that has arrived.       *)
CollectInputs(raw, imu, test) ==
  /\ phase = "inputs"
  /\ snap_after_start' = TRUE
  /\ SamplePins(raw)
  /\ CollectLaunch(level'["LO"], imu)
  /\ soe' = level'["SOE"]
  /\ flight' = FlightConfirmed(level'["LO"], imu)
  /\ test_requested' = test
  /\ errors' = IF soe' /\ ~flight' THEN errors \cup {"UNEXPECTED_SIGNAL"}
                                   ELSE errors
  /\ phase' = "decide"
  /\ confirmed' = (confirmed \/ flight')
  /\ authorised' = (authorised \/ (confirmed /\ soe'))
  /\ UNCHANGED <<mode, last_mode, testVars, pumpVars, txVars, bootVars>>

(* Slips in the table: NE without waiting for SOE; NE left when the flight *)
(* flag falls; NF refused while SOE is asserted.                           *)
ModeNextNoSoe(m) ==
  CASE m = "SU" -> IF test_requested THEN "T"
                   ELSE IF post_passed THEN "NG" ELSE "SU"
    [] m = "T"  -> IF test_complete /\ test_passed THEN "NG" ELSE "T"
    [] m = "NG" -> IF flight THEN "NF" ELSE "NG"
    [] m \in {"NF", "NE"} -> IF flight THEN "NE" ELSE m

ModeNextFallsBack(m) ==
  CASE m = "SU" -> IF test_requested THEN "T"
                   ELSE IF post_passed THEN "NG" ELSE "SU"
    [] m = "T"  -> IF test_complete /\ test_passed THEN "NG" ELSE "T"
    [] m = "NG" -> IF flight THEN "NF" ELSE "NG"
    [] m = "NF" -> IF soe THEN "NE" ELSE "NF"
    [] m = "NE" -> IF flight THEN "NE" ELSE "NF"

ModeNextRefusesEarlySoe(m) ==
  CASE m = "SU" -> IF test_requested THEN "T"
                   ELSE IF post_passed THEN "NG" ELSE "SU"
    [] m = "T"  -> IF test_complete /\ test_passed THEN "NG" ELSE "T"
    [] m = "NG" -> IF flight /\ ~soe THEN "NF" ELSE "NG"
    [] m = "NF" -> IF soe THEN "NE" ELSE "NF"
    [] m = "NE" -> "NE"

(* mode_next, the transition table.  tests_passed is the self-test's       *)
(* latched verdict.                                                        *)
ModeNext(m) ==
  CASE m = "SU" -> IF test_requested THEN "T"
                   ELSE IF post_passed THEN "NG" ELSE "SU"
    [] m = "T"  -> IF test_complete /\ test_passed THEN "NG" ELSE "T"
    [] m = "NG" -> IF flight THEN "NF" ELSE "NG"
    [] m = "NF" -> IF soe THEN "NE" ELSE "NF"
    [] m = "NE" -> "NE"

DecideMode ==
  /\ phase = "decide"
  /\ mode' = ModeNext(mode)
  /\ phase' = "act"
  /\ UNCHANGED <<discretesVars, launchVars, errors, inputVars, last_mode,
                 testVars, snap_after_start, pumpVars, txVars, bootVars,
                 evidence>>

-----------------------------------------------------------------------------
(* The end of mode_executor_run and of the cycle: a POLL once every        *)
(* PollCycles cycles and sensor data in the others, then last_mode.        *)
Broadcast ==
  /\ tx' = IF poll_divider = 0
           THEN [id |-> "POLL", mode |-> mode, flight |-> flight]
           ELSE [id |-> "SENSOR_DATA"]
  /\ poll_divider' = IF poll_divider + 1 >= PollCycles THEN 0
                                                       ELSE poll_divider + 1

EndCycle ==
  /\ Broadcast
  /\ last_mode' = mode
  /\ phase' = "inputs"
  /\ UNCHANGED <<discretesVars, launchVars, inputVars, mode, bootVars, evidence>>

(* "Leaving NE for any reason stops the pump." *)
StopPumpOnLeavingNE ==
  IF last_mode = "NE"
  THEN /\ pump_running' = FALSE
       /\ driver_enabled' = FALSE
       /\ dispense_remaining' = 0
       /\ UNCHANGED <<stepper_activated, pulses, injected>>
  ELSE UNCHANGED pumpVars

(* Startup, normal ground and in flight move no hardware. *)
RunQuietMode ==
  /\ phase = "act"
  /\ mode \in {"SU", "NG", "NF"}
  /\ StopPumpOnLeavingNE
  /\ EndCycle
  /\ UNCHANGED <<errors, testVars, snap_after_start>>

(* A slip: the mask keeps the latest step's findings only.                 *)
TestStepForgets(entered, found) ==
  LET left == (IF entered THEN TestCycles ELSE test_cycles_left) - 1
      failures == found \cup (IF entered THEN {"CLOCK"} ELSE {})
  IN /\ test_running' = (left # 0)
     /\ test_complete' = (left = 0)
     /\ test_passed' = (left = 0 /\ failures = {})
     /\ test_failures' = failures
     /\ test_cycles_left' = left
     /\ healthy' = ((entered \/ healthy) /\ found = {})
     /\ snap_after_start' = ~entered

(* test_step, after test_begin when the executor has just entered MODE_T:  *)
(* one sweep of the checks, and the verdict when it was the last one.      *)
(* test_begin sets test_start_ms to the time of entry, which is later than *)
(* the snapshot of this cycle.                                             *)
TestStep(entered, found) ==
  LET moved    == ~entered /\ snap_after_start
      before   == IF entered THEN TestCycles ELSE test_cycles_left
      left     == IF before > 0 THEN before - 1 ELSE 0
      earlier  == IF entered THEN {} ELSE test_failures
      failures == earlier \cup found \cup (IF moved THEN {} ELSE {"CLOCK"})
  IN /\ test_running' = (left # 0)
     /\ test_complete' = (left = 0)
     /\ test_passed' = (left = 0 /\ failures = {})
     /\ test_failures' = failures
     /\ test_cycles_left' = left
     /\ healthy' = ((entered \/ healthy) /\ found = {})
     /\ snap_after_start' = moved

(* MODE_T: test_begin on entry, then test_step while the test runs. *)
RunSelfTest(found) ==
  /\ phase = "act"
  /\ mode = "T"
  /\ IF mode # last_mode \/ test_running
     THEN TestStep(mode # last_mode, found)
     ELSE UNCHANGED <<testVars, snap_after_start>>
  /\ StopPumpOnLeavingNE
  /\ EndCycle
  /\ UNCHANGED errors

(* A slip: one pulse too many counted as done. *)
TrainInProgressOffByOne ==
  /\ dispense_remaining' = IF pulses < DispensePulses
                           THEN DispensePulses - (pulses + 1) ELSE 0
  /\ UNCHANGED <<driver_enabled, stepper_activated, injected, pump_running>>

(* dispense_step while the train runs: the driver is left alone.  The code *)
(* reads pump_running and then the count; if the timer fires between the   *)
(* two it stores what this step stores just before the timer.              *)
TrainInProgress ==
  /\ dispense_remaining' = DispensePulses - pulses
  /\ UNCHANGED <<driver_enabled, stepper_activated, injected, pump_running>>

(* dispense_step once it does not: drop the driver current, if anything    *)
(* was still owed when the train was last seen running.                    *)
TrainStopped ==
  /\ dispense_remaining' = 0
  /\ driver_enabled' = (IF dispense_remaining # 0 THEN FALSE ELSE driver_enabled)
  /\ UNCHANGED <<stepper_activated, injected, pump_running>>

(* MODE_NE on entry, the train starts: direction, driver, pulse train,     *)
(* and the first dispense_step.                                            *)
StartInjection ==
  /\ phase = "act"
  /\ mode = "NE" /\ last_mode # "NE"
  /\ ~pump_running
  /\ driver_enabled' = TRUE
  /\ pump_running' = TRUE
  /\ stepper_activated' = TRUE
  /\ pulses' = 0
  /\ dispense_remaining' = DispensePulses
  /\ EndCycle
  /\ UNCHANGED <<errors, testVars, snap_after_start, injected>>

(* A slip: the driver is switched off but the fault is not raised. *)
FailInjectionSilently ==
  /\ phase = "act"
  /\ mode = "NE" /\ last_mode # "NE"
  /\ driver_enabled' = FALSE
  /\ EndCycle
  /\ UNCHANGED <<errors, testVars, snap_after_start, dispense_remaining,
                 stepper_activated, pump_running, pulses, injected>>

(* MODE_NE on entry, gpio_driver_pump_run fails: a train is running, or    *)
(* the LEDC or the timer refuses.  The injection is not tried again.       *)
FailInjection ==
  /\ phase = "act"
  /\ mode = "NE" /\ last_mode # "NE"
  /\ driver_enabled' = FALSE
  /\ errors' = errors \cup {"FLUIDIC_FAULT"}
  /\ EndCycle
  /\ UNCHANGED <<testVars, snap_after_start, dispense_remaining,
                 stepper_activated, pump_running, pulses, injected>>

(* Every later cycle of MODE_NE. *)
WatchInjection ==
  /\ phase = "act"
  /\ mode = "NE" /\ last_mode = "NE"
  /\ IF pump_running THEN TrainInProgress ELSE TrainStopped
  /\ EndCycle
  /\ UNCHANGED <<errors, testVars, snap_after_start, pulses>>

-----------------------------------------------------------------------------
(* The LEDC peripheral emits another unit of the train. *)
PumpPulses ==
  /\ pump_running
  /\ pulses < DispensePulses
  /\ pulses' = pulses + 1
  /\ injected' = (IF driver_enabled THEN injected + 1 ELSE injected)
  /\ UNCHANGED <<discretesVars, launchVars, phase, errors, inputVars, mode,
                 last_mode, testVars, snap_after_start, dispense_remaining,
                 stepper_activated, driver_enabled, pump_running, txVars,
                 bootVars, evidence>>

(* A slip: the duration is rounded down, and the last pulse is cut. *)
PumpTimerFiresEarly ==
  /\ pump_running
  /\ pulses + 1 = DispensePulses
  /\ pump_running' = FALSE
  /\ UNCHANGED <<discretesVars, launchVars, phase, errors, inputVars, mode,
                 last_mode, testVars, snap_after_start, dispense_remaining,
                 stepper_activated, driver_enabled, pulses, injected, txVars,
                 bootVars, evidence>>

(* pump_timer_cb, in the esp_timer task: the one-shot timer is set for     *)
(* half a pulse after the last one, so it fires when all have been counted.*)
PumpTimerFires ==
  /\ pump_running
  /\ pulses = DispensePulses
  /\ pump_running' = FALSE
  /\ UNCHANGED <<discretesVars, launchVars, phase, errors, inputVars, mode,
                 last_mode, testVars, snap_after_start, dispense_remaining,
                 stepper_activated, driver_enabled, pulses, injected, txVars,
                 bootVars, evidence>>

-----------------------------------------------------------------------------
ControlTask ==
  \/ \E raw \in RawLevels, post \in BOOLEAN : Boot(raw, post)
  \/ \E raw \in RawLevels, imu \in ImuReadings, test \in BOOLEAN :
       CollectInputs(raw, imu, test)
  \/ DecideMode
  \/ RunQuietMode
  \/ \E found \in Findings : RunSelfTest(found)
  \/ StartInjection
  \/ FailInjection
  \/ WatchInjection

Next ==
  \/ ControlTask
  \/ PumpPulses
  \/ PumpTimerFires
  \/ \E reason \in {"watchdog", "other"} : Reset(reason)

(* The control task is scheduled for ever (a hang ends in a Reset), the    *)
(* LEDC peripheral runs while it is on, and an armed timer fires.          *)
Spec ==
  /\ Init /\ [][Next]_vars
  /\ WF_vars(ControlTask)
  /\ WF_vars(PumpPulses)
  /\ WF_vars(PumpTimerFires)

-----------------------------------------------------------------------------
SwitchesTypeOK ==
  /\ post_passed \in BOOLEAN
  /\ soe \in BOOLEAN /\ flight \in BOOLEAN /\ test_requested \in BOOLEAN
  /\ test_running \in BOOLEAN
  /\ test_complete \in BOOLEAN
  /\ test_passed \in BOOLEAN
  /\ snap_after_start \in BOOLEAN
  /\ stepper_activated \in BOOLEAN
  /\ driver_enabled \in BOOLEAN
  /\ pump_running \in BOOLEAN
  /\ confirmed \in BOOLEAN /\ authorised \in BOOLEAN
  /\ healthy \in BOOLEAN

RegistersTypeOK ==
  /\ phase \in Phases
  /\ reset_reason \in {"power_on", "watchdog", "other"}
  /\ errors \subseteq Faults
  /\ mode \in Modes /\ last_mode \in Modes
  /\ test_failures \subseteq Checks
  /\ tx \in Frames

CountersTypeOK ==
  /\ test_cycles_left \in 0 .. TestCycles
  /\ dispense_remaining \in 0 .. DispensePulses
  /\ pulses \in 0 .. DispensePulses
  /\ poll_divider \in 0 .. PollCycles - 1
  /\ resets \in 0 .. MaxResets
  /\ injected \in Nat

ControlTypeOK ==
  /\ DiscretesTypeOK
  /\ LaunchTypeOK
  /\ SwitchesTypeOK
  /\ RegistersTypeOK
  /\ CountersTypeOK

(* The stepper driver is powered, and the pulse train runs, only once this *)
(* boot has confirmed the flight and seen a debounced SOE in a later cycle *)
(* and only on a board whose POST or self-test passed: no single signal,   *)
(* in no order, moves the syringe (state_machine.c mode_next,              *)
(* mode_executor.c MODE_NE).                                               *)
MotionIsAuthorised ==
  /\ ControlTypeOK
  /\ phase # "boot" /\ (driver_enabled \/ pump_running) =>
       /\ authorised
       /\ post_passed \/ (test_complete /\ test_passed)

(* One boot injects at most one train, and the executor never believes     *)
(* less is owed than the syringe still has to deliver, however             *)
(* dispense_step, the pulses and the timer interleave.                     *)
OneTrainPerBoot ==
  /\ injected <= DispensePulses
  /\ stepper_activated => injected + dispense_remaining >= DispensePulses

(* An experiment that could not start is never silent: once MODE_NE has    *)
(* run without activating the stepper, the ground has FLUIDIC_FAULT and    *)
(* the driver is off.                                                      *)
FailedInjectionIsReported ==
  last_mode = "NE" /\ ~stepper_activated =>
    "FLUIDIC_FAULT" \in errors /\ ~driver_enabled /\ injected = 0

(* A verdict stands for the whole window: the failure mask of a finished   *)
(* self-test names a check other than the clock exactly when some step     *)
(* found a fault, however many clean steps came before and after, and the  *)
(* verdict is a pass only for an empty mask.                               *)
VerdictCoversTheWindow ==
  test_complete =>
    /\ healthy <=> test_failures \subseteq {"CLOCK"}
    /\ test_passed <=> test_failures = {}
    /\ ~test_running

(* The control loop implements the mission: stages in order, one stroke of *)
(* the syringe per boot, never before flight and SOE.                      *)
Abstract ==
  INSTANCE Mission WITH
    stage   <- mode,
    syringe <- IF pump_running THEN "moving"
               ELSE IF stepper_activated THEN "spent" ELSE "idle",
    cleared <- authorised

ImplementsMission == Abstract!Spec

(* A lasting signal reaches its mode, through any number of resets.  Lift  *)
(* off: on a board whose POST passed and that is not held in a self-test,  *)
(* an LO that stays asserted takes the mode to NF and keeps it there or in *)
(* NE.  SOE: asserted before or after lift-off, if it stays, a board in    *)
(* flight gets to the experiment.                                          *)
SignalsReachTheirModes ==
  /\ <>[](pin["LO"] /\ post_passed /\ mode # "T") => <>[](mode \in {"NF", "NE"})
  /\ <>[](pin["SOE"] /\ mode \in {"NF", "NE"}) => <>[](mode = "NE")

(* Once the stepper has started, and unless a reset cuts it short, the     *)
(* whole train is injected and the pump stops.                             *)
InjectionCompletes ==
  <>[]stepper_activated => <>[](injected = DispensePulses /\ ~pump_running)

-----------------------------------------------------------------------------
(* A statement of the repository about itself that the code contradicts;   *)
(* it is checked by a run that expects a violation.                        *)

(* mode_executor.c:175: dispense_step notices "when it has finished and    *)
(* drop[s] the driver current".  Violated: if it looks between the last    *)
(* pulse and the timer, nothing is owed any more and it never does.        *)
DriverIsReleased ==
  <>[]stepper_activated => <>[]~driver_enabled
=============================================================================
