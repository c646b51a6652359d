---------------------------- MODULE SensorBoard ----------------------------
(***************************************************************************)
(* The six sensors of the board from their registers to the error word:    *)
(* the drivers' initialisation (components/drivers, i2c_interface.c,       *)
(* spi_interface.c), sensors_read and the published snapshot (sensors.c),  *)
(* the frozen-IMU check, and the SENSOR_DATA frame (mode_executor.c) up to  *)
(* the fields the Pi unpacks from it (links/messages.py).                  *)
(*                                                                         *)
(* What a device answers is abstracted to what the drivers tell apart: a   *)
(* line stuck high or low, registers at their reset values, a latched RTD  *)
(* fault, or a measurement.  Faults of the environment, and resets, are at *)
(* most MaxFaults.  The range checks of the pressures are in ErrorWord.    *)
(***************************************************************************)
EXTENDS FrozenImu, FiniteSets, Functions

CONSTANTS
  Accelerations,     (* what a living accelerometer measures *)
  MaxFaults          (* a bound, not in the code             *)

Bmes == {"int_bme", "ext_bme"}
SpiDevices == Bmes \cup {"pt100", "imu", "abp"}
Devices == SpiDevices \cup {"slf3s"}

(* What a dead IMU reads, 0 and -1, is neither a movement nor a saturation. *)
ASSUME BoardAssumption ==
  /\ MaxFaults \in Nat
  /\ Accelerations \subseteq Int
  /\ StaticLimit > 1 /\ Saturated > 1

VARIABLES
  (* the devices *)
  line,        (* line[d]: "sound", or stuck "high" or "low"               *)
  chip,        (* chip[d]: the settings in force in the device             *)
  (* the program *)
  up,          (* app_main has passed its initialisation                   *)
  handles,     (* devices whose bus handle exists                          *)
  present,     (* ctx[id].present of the BME280s                           *)
  snapshot,    (* published: the readings, and the valid bits              *)
  errors,      (* the sensor bits of the error word, and "thermal"         *)
  frame,       (* the SENSOR_DATA loaded by the last cycle, if one was     *)
  (* histories *)
  answers,     (* what the devices answered in the last cycle              *)
  intact,      (* devices set up on a sound line, whose settings held      *)
  able_for,    (* able_for[d]: cycles for which d was intact and sound,    *)
               (* since the last RTD fault                                 *)
  dead_for,    (* dead_for[d]: cycles for which d answered, but not with a *)
               (* measurement, nor with what looks like one                *)
  faults

boardVars == <<line, chip>>
programVars == <<up, handles, present, snapshot, errors, frame>>
histories == <<answers, intact, able_for, dead_for, faults>>
vars == <<boardVars, programVars, imuVars, histories>>

-----------------------------------------------------------------------------
(* The drivers' initialisation: the steps of each, in order.  "identify"   *)
(* and "start" fail on a line that does not answer; a register written     *)
(* over SPI to a device that does not listen is lost without an error.     *)
Pt100Init == <<"attach", "config">>

(* A slip: the measurement is started before humidity is asked for. *)
BmeInitMeasFirst ==
  <<"attach", "identify", "calibrate", "ctrl_meas", "config", "ctrl_hum">>

BmeInit ==
  <<"attach", "identify", "calibrate", "ctrl_hum", "config", "ctrl_meas">>
ImuInit == <<"attach", "identify", "ctrl3", "ctrl1", "ctrl2", "int1">>
FlowInit == <<"attach", "start">>
AbpInit == <<"attach">>

Steps == [d \in Devices |->
  CASE d = "pt100" -> Pt100Init
    [] d \in Bmes -> BmeInit
    [] d = "imu" -> ImuInit
    [] d = "slf3s" -> FlowInit
    [] d = "abp" -> AbpInit]

Settings ==
  (UNION {Range(Steps[d]) : d \in Devices}) \cup {"humidity", "rtd_fault"}

(* The steps that write a setting, among those in a function. *)
Effective(steps) == Range(steps) \ {"attach", "identify", "calibrate"}

(* What the settings written do in the device, when it listens: ctrl_hum   *)
(* waits for the next ctrl_meas, any write to the PT100 clears a latched   *)
(* fault.                                                                  *)
Written(d, steps) ==
  LET humidity == \E i \in DOMAIN steps :
                    /\ steps[i] = "ctrl_meas"
                    /\ \/ "ctrl_hum" \in chip[d]
                       \/ \E j \in DOMAIN steps : j < i /\ steps[j] = "ctrl_hum"
  IN  IF line[d] = "sound" /\ Effective(steps) # {}
      THEN (chip[d] \ {"rtd_fault"}) \cup Effective(steps)
             \cup (IF humidity THEN {"humidity"} ELSE {})
      ELSE chip[d]

(* spi_interface_add_device refuses while the bus is not up. *)
Attaches(d, bus_ready) == d \in SpiDevices => bus_ready

Fails(d, step, bus_ready) ==
  \/ step = "attach" /\ ~Attaches(d, bus_ready)
  \/ step \in {"identify", "start"} /\ line[d] # "sound"

(* A driver returns at its first failing step: the steps it completes. *)
StepsDone(d, bus_ready) ==
  {n \in DOMAIN Steps[d] : \A i \in 1 .. n : ~Fails(d, Steps[d][i], bus_ready)}

Nothing == [d \in Devices |-> "zero"]
NoFrame == << >>

(* app_main to its loop.  spi_interface_init may fail, and so may one step *)
(* of one driver: each driver returns at its first failing step, and the   *)
(* others are initialised all the same.                                    *)
InitDrivers(bus_ready, stopped, at) ==
  LET done == [d \in Devices |->
                 {n \in StepsDone(d, bus_ready) : d = stopped => n < at}]
      Complete(d) == done[d] = DOMAIN Steps[d]
  IN  /\ chip' = [d \in Devices |-> Written(d, Restrict(Steps[d], done[d]))]
      /\ handles' = {d \in Devices : done[d] # {}}
      /\ present' = {d \in Bmes : Complete(d)}
      /\ intact' = {d \in Devices : Complete(d) /\ line[d] = "sound"}

Unhindered == "none"

Boot ==
  /\ ~up
  /\ up' = TRUE
  /\ \E bus_ready \in BOOLEAN, stopped \in Devices \cup {Unhindered} :
       /\ faults' = faults + (IF bus_ready THEN 0 ELSE 1)
                           + (IF stopped = Unhindered THEN 0 ELSE 1)
       /\ faults' <= MaxFaults
       /\ \E at \in IF stopped = Unhindered THEN {1} ELSE DOMAIN Steps[stopped] :
            InitDrivers(bus_ready, stopped, at)
  /\ snapshot' = [reading |-> Nothing, valid |-> {}]
  /\ errors' = {}
  /\ frame' = NoFrame
  /\ last_az' = 0 /\ static_cycles' = 0 /\ frozen' = FALSE
  /\ able_for' = [d \in Devices |-> 0]
  /\ dead_for' = [d \in Devices |-> 0]
  /\ UNCHANGED <<line, answers>>

Init ==
  /\ line = [d \in Devices |-> "sound"]
  /\ chip = [d \in Devices |-> {}]
  /\ up = FALSE
  /\ handles = {}
  /\ present = {}
  /\ snapshot = [reading |-> Nothing, valid |-> {}]
  /\ errors = {}
  /\ frame = NoFrame
  /\ FrozenReset
  /\ answers = [d \in Devices |-> "none"]
  /\ intact = {}
  /\ able_for = [d \in Devices |-> 0]
  /\ dead_for = [d \in Devices |-> 0]
  /\ faults = 0

-----------------------------------------------------------------------------
(* One transfer from a device: "none" is an error of the bus driver.  The  *)
(* settings a device needs before it measures; the IMU's gyro needs one    *)
(* more than its accelerometer.                                            *)
Measures(d) ==
  CASE d = "pt100" -> "config" \in chip[d]
    [] d \in Bmes -> "ctrl_meas" \in chip[d]
    [] d = "imu" -> "ctrl1" \in chip[d]
    [] d = "slf3s" -> "start" \in chip[d]
    [] d = "abp" -> TRUE

Answer(d) ==
  IF d \notin handles THEN "none"
  ELSE IF line[d] = "high" THEN "ones"
  ELSE IF line[d] = "low" THEN IF d = "slf3s" THEN "none" ELSE "zeros"
  ELSE IF ~Measures(d) THEN IF d = "slf3s" THEN "none" ELSE "reset"
  ELSE IF "rtd_fault" \in chip[d] THEN "fault"
  ELSE IF d = "imu" /\ "ctrl2" \notin chip[d] THEN "no_gyro"
  ELSE "live"

Invalid == "invalid"      (* SENSOR_RAW_INVALID *)

(* What the drivers make of an answer. *)

(* The fault bit, and the plausibility band, which zeros are below. *)
Pt100Reading(a) == IF a = "live" THEN "measured" ELSE Invalid

(* After a fault bit the driver writes the configuration again. *)
Pt100Rewrites(a) == a \in {"ones", "fault"}

(* A slip: the reset values are compensated like any others. *)
BmeReadingUnchecked(d, a) ==
  IF d \notin present \/ a = "none" THEN Invalid
  ELSE IF a = "live" THEN IF "humidity" \in chip[d] THEN "measured" ELSE "dry"
  ELSE "clamped"

(* The reset values are refused; a stuck line is compensated to the ends   *)
(* of the temperature range; without humidity the field is zero.           *)
BmeReading(d, a) ==
  IF d \notin present \/ a \in {"none", "reset"} THEN Invalid
  ELSE IF a = "live" THEN IF "humidity" \in chip[d] THEN "measured" ELSE "dry"
  ELSE "clamped"

(* Every transfer is taken for a sample.  A gyro that is off reads zero.   *)
ImuReading(a) ==
  IF a = "none" THEN Invalid
  ELSE IF a = "live" THEN "measured"
  ELSE IF a = "no_gyro" THEN "no_gyro" ELSE "constant"

ImuValue(a, az) ==
  IF a \in {"live", "no_gyro"} THEN az ELSE IF a = "ones" THEN -1 ELSE 0

(* All three checksums must be right, which neither zeros nor ones are. *)
FlowReading(a) == IF a = "live" THEN "measured" ELSE Invalid

(* Ones are the status DIAGNOSTIC, zeros NORMAL and no pressure. *)
AbpReading(a) ==
  IF a = "live" THEN "measured" ELSE IF a = "zeros" THEN "zero" ELSE Invalid

Reading(d, a) ==
  CASE d = "pt100" -> Pt100Reading(a)
    [] d \in Bmes -> BmeReading(d, a)
    [] d = "imu" -> ImuReading(a)
    [] d = "slf3s" -> FlowReading(a)
    [] d = "abp" -> AbpReading(a)

Good(a) == {d \in Devices : Reading(d, a[d]) # Invalid}

(* A slip: fields of a failing sensor keep the value of the last cycle. *)
PublishOverOld(a) ==
  snapshot' = [reading |-> [d \in Devices |->
                              IF d \in Good(a) THEN Reading(d, a[d])
                              ELSE snapshot.reading[d]],
               valid |-> Good(a)]

(* Every field starts at the marker; the snapshot is published whole. *)
Publish(a) ==
  snapshot' = [reading |-> [d \in Devices |-> Reading(d, a[d])],
               valid |-> Good(a)]

(* The bits raised by sensors_read and by the temperature check of the     *)
(* health monitor.                                                         *)
Raised(a) ==
  (Devices \ Good(a)) \cup
    (IF Reading("int_bme", a["int_bme"]) = "clamped" THEN {"thermal"} ELSE {})

(* What a device may answer, without measuring, that no check of the code  *)
(* tells from a measurement: limit values of the ambient sensor, no        *)
(* pressure, and a gyro that an initialisation cut short has left off,     *)
(* beside an accelerometer that moves.                                     *)
Mimics(d, a) ==
  \/ d = "ext_bme" /\ a \in {"ones", "zeros"} /\ d \in present
  \/ d = "abp" /\ a = "zeros"
  \/ d = "imu" /\ a = "no_gyro"

-----------------------------------------------------------------------------
(* SENSOR_DATA.  A field is a quantity of a device.                        *)
SensorFields == <<
  <<"ext_bme", "temp">>, <<"ext_bme", "press">>, <<"ext_bme", "hum">>,
  <<"int_bme", "temp">>, <<"int_bme", "press">>, <<"int_bme", "hum">>,
  <<"abp", "pressure">>, <<"slf3s", "flow">>, <<"pt100", "temp">>,
  <<"imu", "ax">>, <<"imu", "ay">>, <<"imu", "az">>,
  <<"imu", "gx">>, <<"imu", "gy">>, <<"imu", "gz">> >>

PutUnsigned == {2, 3, 5, 6, 7}

(* A BME that was not asked for humidity measures the rest, and so does an *)
(* IMU whose gyro is off.                                                  *)
Missing == [dry |-> {"hum"}, no_gyro |-> {"gx", "gy", "gz"}]

FieldValue(f, reading) ==
  IF reading \notin DOMAIN Missing THEN reading
  ELSE IF f[2] \in Missing[reading] THEN "zero" ELSE "measured"

as_u16(v) == IF v = Invalid THEN "zero" ELSE v

send_sensor_frame(s, word) ==
  [data |-> [i \in DOMAIN SensorFields |->
               LET v == FieldValue(SensorFields[i],
                                   s.reading[SensorFields[i][1]])
               IN  IF i \in PutUnsigned THEN as_u16(v) ELSE v],
   word |-> word]

(* The Pi: fields by position and format; INT16_MIN unpacked as unsigned   *)
(* is a number like any other.                                             *)
SENSOR_DATA_FORMAT == <<"h", "H", "H", "h", "H", "H", "H", "h", "h",
                        "h", "h", "h", "h", "h", "h">>

decode_sensor(data) ==
  [i \in DOMAIN data |->
     IF SENSOR_DATA_FORMAT[i] = "H" /\ data[i] = Invalid THEN "32768"
     ELSE data[i]]

Remember(a) ==
  /\ answers' = a
  /\ able_for' = [d \in Devices |->
                    IF d \notin intact \/ line[d] # "sound" THEN 0
                    ELSE IF able_for[d] < 2 THEN able_for[d] + 1 ELSE 2]
  /\ dead_for' = [d \in Devices |->
                    IF a[d] = "live" \/ Mimics(d, a[d]) THEN 0
                    ELSE IF dead_for[d] <= StaticCycles THEN dead_for[d] + 1
                    ELSE dead_for[d]]

(* sensors_read, health_monitor_update and broadcast in one cycle of the   *)
(* loop; which cycles load a POLL instead is in PiLink.                    *)
Cycle ==
  /\ up
  /\ \E az \in Accelerations :
       LET a == [d \in Devices |-> Answer(d)]
       IN  /\ Publish(a)
           /\ CheckFrozen(ImuValue(a["imu"], az), "imu" \in Good(a))
           /\ errors' = errors \cup Raised(a) \cup
                          (IF frozen' /\ ~frozen THEN {"imu"} ELSE {})
           /\ chip' = IF Pt100Rewrites(a["pt100"])
                      THEN [chip EXCEPT !["pt100"] = Written("pt100", <<"config">>)]
                      ELSE chip
           /\ Remember(a)
           /\ frame' \in {NoFrame, send_sensor_frame(snapshot', errors')}
  /\ UNCHANGED <<line, up, handles, present, intact, faults>>

-----------------------------------------------------------------------------
(* The environment.  A broken harness may cost the device its settings.    *)
Fault ==
  /\ faults < MaxFaults
  /\ faults' = faults + 1
  /\ UNCHANGED <<snapshot, present, errors, frame, imuVars, answers, dead_for>>

LoseSettings(d) ==
  /\ chip' = [chip EXCEPT ![d] = {}]
  /\ intact' = intact \ {d}

Break ==
  \E d \in Devices, s \in {"high", "low"} :
    /\ line[d] = "sound"
    /\ line' = [line EXCEPT ![d] = s]
    /\ LoseSettings(d) \/ UNCHANGED <<chip, intact>>
    /\ Fault /\ UNCHANGED <<up, handles, able_for>>

BrownOut ==
  \E d \in Devices :
    /\ chip[d] # {}
    /\ LoseSettings(d)
    /\ Fault /\ UNCHANGED <<line, up, handles, able_for>>

(* An RTD fault is latched by the converter until its config is written. *)
RtdFault ==
  /\ "config" \in chip["pt100"]
  /\ chip' = [chip EXCEPT !["pt100"] = @ \cup {"rtd_fault"}]
  /\ able_for' = [able_for EXCEPT !["pt100"] = 0]
  /\ Fault /\ UNCHANGED <<line, up, handles, intact>>

Mend ==
  \E d \in Devices :
    /\ line[d] # "sound"
    /\ line' = [line EXCEPT ![d] = "sound"]
    /\ UNCHANGED <<chip, programVars, imuVars, histories>>

(* A reset of the ESP32: the devices keep their settings. *)
Reset ==
  /\ up
  /\ up' = FALSE
  /\ handles' = {}
  /\ Fault /\ UNCHANGED <<boardVars, intact, able_for>>

Next == Boot \/ Cycle \/ Break \/ BrownOut \/ RtdFault \/ Mend \/ Reset

Spec == Init /\ [][Next]_vars

-----------------------------------------------------------------------------
Readings == {"measured", "dry", "no_gyro", "clamped", "constant", "zero", Invalid}
Answers == {"none", "ones", "zeros", "reset", "fault", "no_gyro", "live"}

TypeOK ==
  /\ line \in [Devices -> {"sound", "high", "low"}]
  /\ chip \in [Devices -> SUBSET Settings]
  /\ up \in BOOLEAN
  /\ handles \subseteq Devices /\ present \subseteq Bmes
  /\ snapshot \in [reading : [Devices -> Readings], valid : SUBSET Devices]
  /\ errors \subseteq Devices \cup {"thermal"}
  /\ frame # NoFrame =>
       frame \in [data : [DOMAIN SensorFields -> Readings],
                  word : SUBSET (Devices \cup {"thermal"})]
  /\ FrozenTypeOK
  /\ answers \in [Devices -> Answers]
  /\ intact \subseteq Devices
  /\ able_for \in [Devices -> 0 .. 2]
  /\ dead_for \in [Devices -> 0 .. StaticCycles + 1]
  /\ faults \in 0 .. MaxFaults

(* The bits that report a device. *)
Bits(d) == IF d = "int_bme" THEN {d, "thermal"} ELSE {d}

Sampled == up /\ \E d \in Devices : able_for[d] + dead_for[d] > 0

(* A field was measured in the cycle in which its device answered a.       *)
Measured(f, a) == a = "live" \/ (a = "no_gyro" /\ f[2] \notin Missing["no_gyro"])

(* A field of the Pi's record that is not a measurement of its cycle has   *)
(* its sensor's error bit in the word of the same frame, but for the IMU   *)
(* that is not yet judged and for what Mimics lists; and no marker has     *)
(* become a plausible number.                                              *)
RecordIsJudgedByItsWord ==
  up /\ frame # NoFrame =>
    \A i \in DOMAIN SensorFields :
      LET d == SensorFields[i][1]
          v == decode_sensor(frame.data)[i]
      IN  /\ v # "32768"
          /\ v = "measured" => Measured(SensorFields[i], answers[d])
          /\ \/ v = "measured" \/ Mimics(d, answers[d])
             \/ frame.word \cap Bits(d) # {}
             \/ d = "imu" /\ dead_for[d] <= StaticCycles

(* The published fields are those of the last cycle: a sensor that did not *)
(* answer with a measurement does not show one ("a frozen sensor cannot    *)
(* masquerade as a working one", sensors.c), an invalid field holds the    *)
(* marker, a valid PT100 or flow reading is a measurement, and a valid BME *)
(* one has its humidity, whatever was lost and initialised again.  The     *)
(* same holds of what the Pi unpacks, which has no valid bits: there the   *)
(* error word of the same frame tells (mode_executor.c:225-229).           *)
FieldsAreThisCycles ==
  /\ TypeOK
  /\ RecordIsJudgedByItsWord
  /\ Sampled =>
       \A d \in Devices :
         /\ snapshot.reading[d] = "measured" => answers[d] = "live"
         /\ d \notin snapshot.valid => snapshot.reading[d] = Invalid
         /\ d \in snapshot.valid /\ (d \in {"pt100", "slf3s"} \/ answers[d] = "live")
              => snapshot.reading[d] = "measured"

(* A dead sensor is reported: wherever its initialisation stopped and      *)
(* whatever happened to it since, a device of which no field is a          *)
(* measurement has raised an error, at once, or for the IMU, whose every   *)
(* answer counts as a sample, after IMU_STATIC_CYCLES cycles and one.      *)
(* What Mimics lists goes unreported: two dead devices that read like live *)
(* ones, and the dead half of an IMU.                                      *)
DeadSensorIsReported ==
  \A d \in Devices :
    dead_for[d] > (IF d = "imu" THEN StaticCycles ELSE 0) =>
      errors \cap Bits(d) # {}

(* A device that was set up on a sound line and has kept its settings is   *)
(* valid and measured from its second sound cycle on, after any glitch of  *)
(* its line, a latched RTD fault (which costs one cycle), and any reset    *)
(* with settings half lost.                                                *)
AbleSensorDelivers ==
  \A d \in Devices :
    up /\ able_for[d] = 2 =>
      d \in snapshot.valid /\ snapshot.reading[d] = "measured"
=============================================================================
