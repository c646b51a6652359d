------------------------- MODULE SensorErrors_proofs -------------------------
(***************************************************************************)
(* Theorems about what the sensors put into the snapshot, the frame and    *)
(* the error word (SensorBoard), for every limit, still count and number   *)
(* of faults, and about the error word as a whole (ErrorWord), for every   *)
(* set of sensors that may misbehave, set of storage readings, packet      *)
(* period and number of boots.                                             *)
(***************************************************************************)
EXTENDS SensorBoard, ErrorWord, TLAPS

(* What a device that was set up has in it, and what the program has of it. *)
Needed(d) ==
  CASE d = "pt100" -> {"config"}
    [] d \in Bmes -> {"ctrl_meas", "humidity"}
    [] d = "imu" -> {"ctrl1", "ctrl2"}
    [] d = "slf3s" -> {"start"}
    [] d = "abp" -> {}

IntactIsSetUp ==
  \A d \in intact :
    /\ Needed(d) \subseteq chip[d]
    /\ up => d \in handles /\ (d \in Bmes => d \in present)

(* Only the PT100 latches an RTD fault, and one that has delivered since   *)
(* has none.                                                               *)
RtdFaultsAreThePt100s ==
  \A d \in Devices :
    "rtd_fault" \in chip[d] => d = "pt100" /\ able_for[d] = 0

(* A BME that is present measures with humidity or not at all.             *)
PresentMeasuresHumidity ==
  \A d \in present : up /\ "ctrl_meas" \in chip[d] => "humidity" \in chip[d]

(* The frozen verdict is the full count, and has been reported.            *)
FrozenIsReported ==
  /\ frozen <=> static_cycles >= StaticCycles
  /\ frozen => "imu" \in errors

(* An IMU that has answered without measuring, and has not been reported,  *)
(* reads as one that stands still, and the count knows it but for the      *)
(* first of these samples.                                                 *)
DeadImuStandsStill ==
  "imu" \notin errors /\ dead_for["imu"] > 0 =>
    /\ last_az \in {-1, 0}
    /\ static_cycles >= dead_for["imu"] - 1

IInv ==
  /\ TypeOK
  /\ IntactIsSetUp
  /\ RtdFaultsAreThePt100s
  /\ PresentMeasuresHumidity
  /\ FrozenIsReported
  /\ DeadImuStandsStill
  /\ FieldsAreThisCycles
  /\ DeadSensorIsReported
  /\ AbleSensorDelivers

-----------------------------------------------------------------------------
(* The devices and their initialisation, case by case.                     *)
LEMMA DeviceFacts ==
  /\ Devices = {"int_bme", "ext_bme", "pt100", "imu", "abp", "slf3s"}
  /\ Bmes = {"int_bme", "ext_bme"}
  BY Zenon DEF Devices, SpiDevices, Bmes

LEMMA StepFacts ==
  /\ \A d \in Devices :
       Steps[d] \in {Pt100Init, BmeInit, ImuInit, FlowInit, AbpInit}
  /\ \A d \in Bmes : Steps[d] = BmeInit
  /\ Steps["pt100"] = Pt100Init /\ Steps["imu"] = ImuInit
  /\ Steps["slf3s"] = FlowInit /\ Steps["abp"] = AbpInit
  BY SMT DEF Steps, Devices, SpiDevices, Bmes

(* Every driver first attaches its device, and none writes a fault.        *)
LEMMA EveryInit ==
  ASSUME NEW d \in Devices
  PROVE  /\ 1 \in DOMAIN Steps[d] /\ Steps[d][1] = "attach"
         /\ "rtd_fault" \notin Range(Steps[d])
         /\ Range(Steps[d]) \subseteq Settings
         /\ Effective(Steps[d]) \subseteq Settings
<1>1. \A s \in {Pt100Init, BmeInit, ImuInit, FlowInit, AbpInit} :
        1 \in DOMAIN s /\ s[1] = "attach"
  BY SMT DEF Pt100Init, BmeInit, ImuInit, FlowInit, AbpInit
<1>2. \A s \in {Pt100Init, BmeInit, ImuInit, FlowInit, AbpInit} :
        \A i \in DOMAIN s : s[i] # "rtd_fault"
  BY SMT DEF Pt100Init, BmeInit, ImuInit, FlowInit, AbpInit
<1>3. Range(Steps[d]) \subseteq Settings
  BY Zenon DEF Settings
<1> QED
  BY <1>1, <1>2, <1>3, StepFacts, Zenon DEF Range, Effective

(* What an initialisation that was completed has written.                  *)
LEMMA InitWrites ==
  /\ {"ctrl_hum", "config", "ctrl_meas"} \subseteq Effective(BmeInit)
  /\ "config" \in Effective(Pt100Init)
  /\ {"ctrl1", "ctrl2"} \subseteq Effective(ImuInit)
  /\ "start" \in Effective(FlowInit)
<1>1. /\ 4 \in DOMAIN BmeInit /\ BmeInit[4] = "ctrl_hum"
      /\ 5 \in DOMAIN BmeInit /\ BmeInit[5] = "config"
      /\ 6 \in DOMAIN BmeInit /\ BmeInit[6] = "ctrl_meas"
      /\ 2 \in DOMAIN Pt100Init /\ Pt100Init[2] = "config"
      /\ 4 \in DOMAIN ImuInit /\ ImuInit[4] = "ctrl1"
      /\ 5 \in DOMAIN ImuInit /\ ImuInit[5] = "ctrl2"
      /\ 2 \in DOMAIN FlowInit /\ FlowInit[2] = "start"
  BY SMT DEF BmeInit, Pt100Init, ImuInit, FlowInit
<1> QED
  BY <1>1, Zenon DEF Effective, Range

-----------------------------------------------------------------------------
(* Writing settings: what there may be afterwards, and what there is.      *)
LEMMA WrittenTyped ==
  ASSUME NEW d, NEW steps, chip[d] \subseteq Settings, Range(steps) \subseteq Settings
  PROVE  Written(d, steps) \subseteq Settings
<1>1. "humidity" \in Settings
  BY SMT DEF Settings
<1>2. Effective(steps) \subseteq Settings
  BY Zenon DEF Effective
<1> QED
  BY <1>1, <1>2, Zenon DEF Written

LEMMA WritingAddsNoFault ==
  ASSUME NEW d, NEW steps, "rtd_fault" \notin Range(steps),
         "rtd_fault" \in Written(d, steps)
  PROVE  /\ "rtd_fault" \in chip[d]
         /\ line[d] # "sound" \/ Effective(steps) = {}
<1>1. "rtd_fault" \notin Effective(steps)
  BY Zenon DEF Effective
<1>2. "rtd_fault" # "humidity"
  OBVIOUS
<1> QED
  BY <1>1, <1>2, Zenon DEF Written

LEMMA WritingKeeps ==
  ASSUME NEW d, NEW steps, NEW s \in chip[d], s # "rtd_fault"
  PROVE  s \in Written(d, steps)
  BY Zenon DEF Written

(* A device set up from the first step to the last on a sound line has     *)
(* what it needs.                                                          *)
LEMMA SetUpHasNeeded ==
  ASSUME NEW d \in Devices, line[d] = "sound"
  PROVE  Needed(d) \subseteq Written(d, Restrict(Steps[d], DOMAIN Steps[d]))
<1> DEFINE all == Restrict(Steps[d], DOMAIN Steps[d])
<1>1. /\ DOMAIN all = DOMAIN Steps[d]
      /\ \A i \in DOMAIN Steps[d] : all[i] = Steps[d][i]
  BY Zenon DEF Restrict
<1>2. Effective(all) = Effective(Steps[d])
  BY <1>1, Zenon DEF Effective, Range
<1> HIDE DEF all
<1>3. \A s \in Effective(all) : s \in Written(d, all)
  BY Zenon DEF Written
<1>4. CASE d \in Bmes
  <2>1. Steps[d] = BmeInit
    BY <1>4, StepFacts
  <2>2. /\ 4 \in DOMAIN BmeInit /\ BmeInit[4] = "ctrl_hum"
        /\ 6 \in DOMAIN BmeInit /\ BmeInit[6] = "ctrl_meas" /\ 4 < 6
    BY SMT DEF BmeInit
  <2>3. "ctrl_meas" \in Effective(all)
    BY <1>2, <2>1, InitWrites, Zenon
  <2>4. \E i \in DOMAIN all :
          /\ all[i] = "ctrl_meas"
          /\ \E j \in DOMAIN all : j < i /\ all[j] = "ctrl_hum"
    BY <1>1, <2>1, <2>2, Zenon
  <2>5. "humidity" \in Written(d, all)
    BY <2>3, <2>4, Zenon DEF Written
  <2>6. Needed(d) = {"ctrl_meas", "humidity"}
    BY <1>4, DeviceFacts, SMT DEF Needed
  <2> QED
    BY <1>3, <2>3, <2>5, <2>6, Zenon DEF all
<1>5. CASE d \notin Bmes
  <2>1. \/ d = "pt100" /\ Needed(d) = {"config"}
        \/ d = "imu" /\ Needed(d) = {"ctrl1", "ctrl2"}
        \/ d = "slf3s" /\ Needed(d) = {"start"}
        \/ d = "abp" /\ Needed(d) = {}
    BY <1>5, DeviceFacts, SMT DEF Needed
  <2>2. Needed(d) \subseteq Effective(all)
    BY <1>2, <2>1, StepFacts, InitWrites, Zenon
  <2> QED
    BY <1>3, <2>2, Zenon DEF all
<1> QED
  BY <1>4, <1>5

-----------------------------------------------------------------------------
(* app_main to its loop, for any bus, any driver that stops and any step   *)
(* it stops at.                                                            *)
FreshlySetUp ==
  /\ snapshot' = [reading |-> Nothing, valid |-> {}]
  /\ errors' = {} /\ frame' = NoFrame
  /\ last_az' = 0 /\ static_cycles' = 0 /\ frozen' = FALSE
  /\ able_for' = [d \in Devices |-> 0] /\ dead_for' = [d \in Devices |-> 0]

LEMMA DriversSetUp ==
  ASSUME TypeOK, RtdFaultsAreThePt100s, NEW bus_ready, NEW stopped, NEW at,
         InitDrivers(bus_ready, stopped, at), up'
  PROVE  /\ chip' \in [Devices -> SUBSET Settings]
         /\ handles' \subseteq Devices /\ present' \subseteq Bmes
         /\ intact' \subseteq Devices
         /\ IntactIsSetUp' /\ PresentMeasuresHumidity'
         /\ \A d \in Devices : "rtd_fault" \in chip'[d] => d = "pt100"
<1> DEFINE done == [d \in Devices |->
                      {n \in StepsDone(d, bus_ready) : d = stopped => n < at}]
           Complete(d) == done[d] = DOMAIN Steps[d]
           Kept(d) == Restrict(Steps[d], done[d])
<1>1. /\ chip' = [d \in Devices |-> Written(d, Kept(d))]
      /\ handles' = {d \in Devices : done[d] # {}}
      /\ present' = {d \in Bmes : Complete(d)}
      /\ intact' = {d \in Devices : Complete(d) /\ line[d] = "sound"}
  BY Zenon DEF InitDrivers
<1>2. \A d \in Devices : done[d] \subseteq DOMAIN Steps[d]
  BY Zenon DEF StepsDone
<1>3. \A d \in Devices : \A n \in done[d] : \A i \in 1 .. n :
        ~Fails(d, Steps[d][i], bus_ready)
  BY Zenon DEF StepsDone
<1> HIDE DEF done
<1>4. \A d \in Devices : Range(Kept(d)) \subseteq Range(Steps[d])
  BY <1>2, Zenon DEF Range, Restrict
<1>5. chip' \in [Devices -> SUBSET Settings]
  <2>1. ASSUME NEW d \in Devices PROVE Written(d, Kept(d)) \in SUBSET Settings
    <3>1. chip[d] \subseteq Settings
      BY Zenon DEF TypeOK
    <3>2. Range(Kept(d)) \subseteq Settings
      BY <1>4, EveryInit, Zenon
    <3> HIDE DEF Kept
    <3> QED
      BY <3>1, <3>2, WrittenTyped, Zenon
  <2> HIDE DEF Kept
  <2> QED
    BY <1>1, <2>1, Zenon
<1>6. ASSUME NEW d \in Devices, "rtd_fault" \in chip'[d]
      PROVE  d = "pt100"
  <2>1. "rtd_fault" \in Written(d, Kept(d))
    BY <1>1, <1>6, Zenon
  <2>2. "rtd_fault" \notin Range(Kept(d))
    BY <1>4, EveryInit, Zenon
  <2> HIDE DEF Kept
  <2>3. "rtd_fault" \in chip[d]
    BY <2>1, <2>2, WritingAddsNoFault, Zenon
  <2> QED
    BY <2>3, Zenon DEF RtdFaultsAreThePt100s
<1>7. ASSUME NEW d \in Devices, Complete(d), line[d] = "sound"
      PROVE  Needed(d) \subseteq chip'[d]
  <2>1. Kept(d) = Restrict(Steps[d], DOMAIN Steps[d])
    BY <1>7
  <2> HIDE DEF Kept, Complete
  <2> QED
    BY <1>1, <1>7, <2>1, SetUpHasNeeded, Zenon
<1>8. IntactIsSetUp'
  <2> SUFFICES ASSUME NEW d \in intact'
               PROVE  /\ Needed(d) \subseteq chip'[d]
                      /\ d \in handles' /\ (d \in Bmes => d \in present')
    BY Zenon DEF IntactIsSetUp, Needed
  <2>1. d \in Devices /\ Complete(d) /\ line[d] = "sound"
    BY <1>1, Zenon
  <2>2. done[d] # {}
    BY <2>1, EveryInit, Zenon
  <2>3. d \in handles' /\ (d \in Bmes => d \in present')
    BY <1>1, <2>1, <2>2, Zenon
  <2> HIDE DEF Complete
  <2> QED
    BY <1>7, <2>1, <2>3
<1>9. PresentMeasuresHumidity'
  <2> SUFFICES ASSUME NEW d \in present'
               PROVE  "humidity" \in chip'[d]
    BY Zenon DEF PresentMeasuresHumidity
  <2>1. d \in Devices /\ d \in Bmes /\ Complete(d)
    BY <1>1, DeviceFacts, Zenon
  <2>2. line[d] = "sound"
    <3>1. /\ 6 \in DOMAIN Steps[d] /\ 2 \in 1 .. 6 /\ Steps[d][2] = "identify"
      BY <2>1, StepFacts, SMT DEF BmeInit
    <3>2. ~Fails(d, "identify", bus_ready)
      BY <1>3, <2>1, <3>1, Zenon
    <3> QED
      BY <3>2, Zenon DEF Fails
  <2>3. Needed(d) = {"ctrl_meas", "humidity"}
    BY <2>1, DeviceFacts, SMT DEF Needed
  <2> HIDE DEF Complete
  <2> QED
    BY <1>7, <2>1, <2>2, <2>3, Zenon
<1> HIDE DEF Kept
<1> QED
  BY <1>1, <1>5, <1>6, <1>8, <1>9, Zenon

(* No cycle has run yet: the properties of cycles hold for want of one.    *)
LEMMA FreshHolds ==
  ASSUME FreshlySetUp
  PROVE  /\ FrozenIsReported' /\ DeadImuStandsStill'
         /\ RecordIsJudgedByItsWord' /\ ~Sampled'
         /\ DeadSensorIsReported' /\ AbleSensorDelivers'
         /\ \A d \in Devices : able_for'[d] = 0
<1>1. /\ static_cycles' = 0 /\ frozen' = FALSE /\ frame' = NoFrame
      /\ \A d \in Devices : able_for'[d] = 0 /\ dead_for'[d] = 0
  BY Zenon DEF FreshlySetUp
<1>2. "imu" \in Devices
  BY DeviceFacts, Zenon
<1>3. /\ StaticCycles \in Nat /\ ~(0 >= StaticCycles) /\ ~(0 > StaticCycles)
      /\ ~(0 > 0) /\ 0 # 2 /\ ~(0 + 0 > 0)
  BY FrozenAssumption, SMT
<1>4. FrozenIsReported'
  BY <1>1, <1>3, Zenon DEF FrozenIsReported
<1>5. DeadImuStandsStill'
  BY <1>1, <1>2, <1>3, Zenon DEF DeadImuStandsStill
<1>6. RecordIsJudgedByItsWord'
  BY <1>1, Zenon DEF RecordIsJudgedByItsWord
<1>7. ~Sampled'
  BY <1>1, <1>3, Zenon DEF Sampled
<1>8. DeadSensorIsReported'
  BY <1>1, <1>3, Zenon DEF DeadSensorIsReported
<1>9. AbleSensorDelivers'
  BY <1>1, <1>3, Zenon DEF AbleSensorDelivers
<1> QED
  BY <1>1, <1>4, <1>5, <1>6, <1>7, <1>8, <1>9

LEMMA BootKeeps ==
  ASSUME IInv, Boot
  PROVE  IInv'
<1>1. PICK bus_ready \in BOOLEAN, stopped \in Devices \cup {Unhindered} :
        /\ faults' = faults + (IF bus_ready THEN 0 ELSE 1)
                            + (IF stopped = Unhindered THEN 0 ELSE 1)
        /\ faults' <= MaxFaults
        /\ \E at \in IF stopped = Unhindered THEN {1} ELSE DOMAIN Steps[stopped] :
             InitDrivers(bus_ready, stopped, at)
  BY Zenon DEF Boot
<1>2. PICK at \in IF stopped = Unhindered THEN {1} ELSE DOMAIN Steps[stopped] :
        InitDrivers(bus_ready, stopped, at)
  BY <1>1
<1>3. up' = TRUE /\ FreshlySetUp /\ line' = line /\ answers' = answers
  BY Zenon DEF Boot, FreshlySetUp
<1>4. TypeOK /\ RtdFaultsAreThePt100s
  BY Zenon DEF IInv
<1>5. /\ chip' \in [Devices -> SUBSET Settings]
      /\ handles' \subseteq Devices /\ present' \subseteq Bmes
      /\ intact' \subseteq Devices
      /\ IntactIsSetUp' /\ PresentMeasuresHumidity'
      /\ \A d \in Devices : "rtd_fault" \in chip'[d] => d = "pt100"
  BY <1>2, <1>3, <1>4, DriversSetUp, Zenon
<1>6. /\ FrozenIsReported' /\ DeadImuStandsStill'
      /\ RecordIsJudgedByItsWord' /\ ~Sampled'
      /\ DeadSensorIsReported' /\ AbleSensorDelivers'
      /\ \A d \in Devices : able_for'[d] = 0
  BY <1>3, FreshHolds
<1>7. TypeOK'
  <2>1. faults' \in 0 .. MaxFaults
    <3>1. /\ (IF bus_ready THEN 0 ELSE 1) \in Nat
          /\ (IF stopped = Unhindered THEN 0 ELSE 1) \in Nat
      OBVIOUS
    <3>2. faults \in Nat /\ MaxFaults \in Nat
      BY <1>4, BoardAssumption, SMT DEF TypeOK
    <3> QED
      BY <1>1, <3>1, <3>2, SMT
  <2>2. snapshot' \in [reading : [Devices -> Readings], valid : SUBSET Devices]
    BY <1>3, Zenon DEF FreshlySetUp, Nothing, Readings
  <2>3. /\ able_for' \in [Devices -> 0 .. 2]
        /\ dead_for' \in [Devices -> 0 .. StaticCycles + 1]
    <3>1. 0 \in 0 .. 2 /\ 0 \in 0 .. StaticCycles + 1
      BY FrozenAssumption, SMT
    <3> QED
      BY <1>3, <3>1, Zenon DEF FreshlySetUp
  <2>4. FrozenTypeOK'
    <3>1. 0 \in Int /\ 0 \in 0 .. StaticCycles
      BY FrozenAssumption, SMT
    <3> QED
      BY <1>3, <3>1, Zenon DEF FreshlySetUp, FrozenTypeOK
  <2>5. /\ errors' \subseteq Devices \cup {"thermal"} /\ frame' = NoFrame
        /\ up' \in BOOLEAN
    BY <1>3, Zenon DEF FreshlySetUp
  <2> QED
    BY <1>3, <1>4, <1>5, <2>1, <2>2, <2>3, <2>4, <2>5, Zenon DEF TypeOK
<1>8. RtdFaultsAreThePt100s'
  BY <1>5, <1>6, Zenon DEF RtdFaultsAreThePt100s
<1>9. FieldsAreThisCycles'
  BY <1>6, <1>7, Zenon DEF FieldsAreThisCycles
<1> QED
  BY <1>5, <1>6, <1>7, <1>8, <1>9, Zenon DEF IInv

(* The first power-on. *)
LEMMA InitHolds == Init => IInv
<1> SUFFICES ASSUME Init PROVE IInv
  OBVIOUS
<1>1. /\ up = FALSE /\ intact = {} /\ present = {} /\ frame = NoFrame
      /\ static_cycles = 0 /\ frozen = FALSE
      /\ \A d \in Devices : chip[d] = {} /\ able_for[d] = 0 /\ dead_for[d] = 0
  BY Zenon DEF Init, FrozenReset
<1>2. "imu" \in Devices
  BY DeviceFacts, Zenon
<1>3. /\ ~(0 >= StaticCycles) /\ ~(0 > StaticCycles) /\ ~(0 > 0)
      /\ 0 \in 0 .. 2 /\ 0 \in 0 .. StaticCycles + 1
      /\ 0 \in Int /\ 0 \in 0 .. StaticCycles /\ 0 \in 0 .. MaxFaults
  BY FrozenAssumption, BoardAssumption, SMT
<1>4. TypeOK
  BY <1>3, Zenon DEF Init, FrozenReset, TypeOK, FrozenTypeOK, Nothing, Readings,
                    Answers
<1>5. FrozenIsReported /\ DeadImuStandsStill
  BY <1>1, <1>2, <1>3, Zenon DEF FrozenIsReported, DeadImuStandsStill
<1>6. IntactIsSetUp /\ RtdFaultsAreThePt100s /\ PresentMeasuresHumidity
  BY <1>1, Zenon DEF IntactIsSetUp, RtdFaultsAreThePt100s, PresentMeasuresHumidity
<1>7. FieldsAreThisCycles
  BY <1>1, <1>4, Zenon DEF FieldsAreThisCycles, RecordIsJudgedByItsWord, Sampled
<1>8. DeadSensorIsReported /\ AbleSensorDelivers
  BY <1>1, <1>3, Zenon DEF DeadSensorIsReported, AbleSensorDelivers
<1> QED
  BY <1>4, <1>5, <1>6, <1>7, <1>8, Zenon DEF IInv

-----------------------------------------------------------------------------
(* The steps in which no cycle runs: the environment, and a reset.  What   *)
(* the last cycle left stays, and only able_for may begin again.           *)
QuietStep ==
  /\ UNCHANGED <<snapshot, present, errors, frame, imuVars, answers, dead_for>>
  /\ up' \in BOOLEAN /\ (up' => up)
  /\ able_for' \in [Devices -> 0 .. 2]
  /\ \A d \in Devices : able_for'[d] = able_for[d] \/ able_for'[d] = 0

LEMMA QuietKeeps ==
  ASSUME IInv, QuietStep, TypeOK'
  PROVE  /\ FrozenIsReported' /\ DeadImuStandsStill' /\ FieldsAreThisCycles'
         /\ DeadSensorIsReported' /\ AbleSensorDelivers'
<1>1. /\ UNCHANGED <<snapshot, present, errors, frame, answers, dead_for>>
      /\ UNCHANGED <<last_az, static_cycles, frozen>>
      /\ up' => up
      /\ \A d \in Devices : able_for'[d] = able_for[d] \/ able_for'[d] = 0
  BY Zenon DEF QuietStep, imuVars
<1>2. FrozenIsReported' /\ DeadImuStandsStill' /\ DeadSensorIsReported'
  BY <1>1, Zenon DEF IInv, FrozenIsReported, DeadImuStandsStill, DeadSensorIsReported
<1>3. RecordIsJudgedByItsWord'
  BY <1>1, Zenon DEF IInv, FieldsAreThisCycles, RecordIsJudgedByItsWord, Mimics, Measured
<1>4. Sampled' => Sampled
  <2>1. \A d \in Devices :
          able_for'[d] + dead_for'[d] > 0 => able_for[d] + dead_for[d] > 0
    <3> SUFFICES ASSUME NEW d \in Devices, able_for'[d] + dead_for'[d] > 0
                 PROVE  able_for[d] + dead_for[d] > 0
      OBVIOUS
    <3>1. able_for[d] \in 0 .. 2 /\ dead_for[d] \in 0 .. StaticCycles + 1
      BY Zenon DEF IInv, TypeOK
    <3>2. dead_for'[d] = dead_for[d]
      BY <1>1
    <3> QED
      BY <1>1, <3>1, <3>2, FrozenAssumption, SMT
  <2> QED
    BY <1>1, <2>1, Zenon DEF Sampled
<1>5. FieldsAreThisCycles'
  BY <1>1, <1>3, <1>4, Zenon DEF IInv, FieldsAreThisCycles
<1>6. AbleSensorDelivers'
  <2>1. 0 # 2
    OBVIOUS
  <2> QED
    BY <1>1, <2>1, Zenon DEF IInv, AbleSensorDelivers
<1> QED
  BY <1>2, <1>5, <1>6

(* A device loses its settings, and is no longer intact.                   *)
LEMMA SettingsLost ==
  ASSUME IInv, NEW d \in Devices, LoseSettings(d), up' = up,
         UNCHANGED <<handles, present, able_for>>
  PROVE  /\ chip' \in [Devices -> SUBSET Settings] /\ intact' \subseteq Devices
         /\ IntactIsSetUp' /\ RtdFaultsAreThePt100s' /\ PresentMeasuresHumidity'
<1>1. /\ chip' = [chip EXCEPT ![d] = {}] /\ intact' = intact \ {d}
      /\ chip \in [Devices -> SUBSET Settings] /\ intact \subseteq Devices
      /\ present \subseteq Devices
  BY DeviceFacts, Zenon DEF LoseSettings, IInv, TypeOK
<1>2. /\ chip' \in [Devices -> SUBSET Settings]
      /\ \A e \in Devices : chip'[e] = IF e = d THEN {} ELSE chip[e]
  BY <1>1, Zenon
<1>3. IntactIsSetUp'
  BY <1>1, <1>2, Zenon DEF IInv, IntactIsSetUp, Needed
<1>4. RtdFaultsAreThePt100s'
  BY <1>2, Zenon DEF IInv, RtdFaultsAreThePt100s
<1>5. PresentMeasuresHumidity'
  BY <1>1, <1>2, Zenon DEF IInv, PresentMeasuresHumidity
<1> QED
  BY <1>1, <1>2, <1>3, <1>4, <1>5

(* No device gains or loses anything.                                      *)
LEMMA SettingsKept ==
  ASSUME IInv, UNCHANGED <<chip, intact, handles, present, able_for>>, up' = up
  PROVE  /\ chip' \in [Devices -> SUBSET Settings] /\ intact' \subseteq Devices
         /\ IntactIsSetUp' /\ RtdFaultsAreThePt100s' /\ PresentMeasuresHumidity'
<1>1. /\ chip' = chip /\ intact' = intact /\ handles' = handles
      /\ present' = present /\ able_for' = able_for /\ up' = up
  OBVIOUS
<1>2. chip' \in [Devices -> SUBSET Settings] /\ intact' \subseteq Devices
  BY <1>1, Zenon DEF IInv, TypeOK
<1>3. IntactIsSetUp'
  <2>1. intact' = intact /\ handles' = handles /\ present' = present /\ (up' => up)
    BY <1>1
  <2> SUFFICES ASSUME NEW d \in intact
               PROVE  /\ Needed(d) \subseteq chip'[d]
                      /\ up => d \in handles /\ (d \in Bmes => d \in present)
    BY <2>1, Zenon DEF IntactIsSetUp, Needed
  <2> QED
    BY <1>1, Zenon DEF IInv, IntactIsSetUp
<1>4. RtdFaultsAreThePt100s' /\ PresentMeasuresHumidity'
  BY <1>1 DEF IInv, RtdFaultsAreThePt100s, PresentMeasuresHumidity
<1> QED
  BY <1>2, <1>3, <1>4

(* What every fault of the environment has in common.                      *)
LEMMA FaultCounts ==
  ASSUME TypeOK, Fault
  PROVE  /\ faults' \in 0 .. MaxFaults
         /\ UNCHANGED <<snapshot, present, errors, frame, imuVars, answers, dead_for>>
<1>1. /\ faults < MaxFaults /\ faults' = faults + 1 /\ faults \in 0 .. MaxFaults
      /\ UNCHANGED <<snapshot, present, errors, frame, imuVars, answers, dead_for>>
  BY Zenon DEF Fault, TypeOK
<1> QED
  BY <1>1, BoardAssumption, SMT

(* The types of what such steps leave alone. *)
LEMMA QuietTyped ==
  ASSUME TypeOK, QuietStep, faults' \in 0 .. MaxFaults,
         line' \in [Devices -> {"sound", "high", "low"}],
         chip' \in [Devices -> SUBSET Settings],
         handles' \subseteq Devices, intact' \subseteq Devices
  PROVE  TypeOK'
<1>1. /\ UNCHANGED <<snapshot, present, errors, frame, answers, dead_for>>
      /\ UNCHANGED <<last_az, static_cycles, frozen>>
      /\ up' \in BOOLEAN /\ able_for' \in [Devices -> 0 .. 2]
  BY Zenon DEF QuietStep, imuVars
<1> QED
  BY <1>1, Zenon DEF TypeOK, FrozenTypeOK

LEMMA SameAges ==
  ASSUME TypeOK, UNCHANGED <<able_for, up>>,
         UNCHANGED <<snapshot, present, errors, frame, imuVars, answers, dead_for>>
  PROVE  QuietStep
  BY Zenon DEF QuietStep, TypeOK

LEMMA BreakKeeps ==
  ASSUME IInv, Break
  PROVE  IInv'
<1>1. PICK d \in Devices, s \in {"high", "low"} :
        /\ line' = [line EXCEPT ![d] = s]
        /\ LoseSettings(d) \/ UNCHANGED <<chip, intact>>
        /\ Fault /\ UNCHANGED <<up, handles, able_for>>
  BY Zenon DEF Break
<1>2. TypeOK
  BY Zenon DEF IInv
<1>3. /\ faults' \in 0 .. MaxFaults
      /\ UNCHANGED <<snapshot, present, errors, frame, imuVars, answers, dead_for>>
  BY <1>1, <1>2, FaultCounts
<1>4. QuietStep
  BY <1>1, <1>2, <1>3, SameAges
<1>5. /\ chip' \in [Devices -> SUBSET Settings] /\ intact' \subseteq Devices
      /\ IntactIsSetUp' /\ RtdFaultsAreThePt100s' /\ PresentMeasuresHumidity'
  BY <1>1, <1>3, SettingsLost, SettingsKept
<1>6. TypeOK'
  <2>1. line' \in [Devices -> {"sound", "high", "low"}]
    BY <1>1, <1>2, Zenon DEF TypeOK
  <2>2. handles' \subseteq Devices
    BY <1>1, <1>2, Zenon DEF TypeOK
  <2> QED
    BY <1>2, <1>3, <1>4, <1>5, <2>1, <2>2, QuietTyped
<1> QED
  BY <1>4, <1>5, <1>6, QuietKeeps, Zenon DEF IInv

LEMMA BrownOutKeeps ==
  ASSUME IInv, BrownOut
  PROVE  IInv'
<1>1. PICK d \in Devices :
        LoseSettings(d) /\ Fault /\ UNCHANGED <<line, up, handles, able_for>>
  BY Zenon DEF BrownOut
<1>2. TypeOK
  BY Zenon DEF IInv
<1>3. /\ faults' \in 0 .. MaxFaults
      /\ UNCHANGED <<snapshot, present, errors, frame, imuVars, answers, dead_for>>
  BY <1>1, <1>2, FaultCounts
<1>4. QuietStep
  BY <1>1, <1>2, <1>3, SameAges
<1>5. /\ chip' \in [Devices -> SUBSET Settings] /\ intact' \subseteq Devices
      /\ IntactIsSetUp' /\ RtdFaultsAreThePt100s' /\ PresentMeasuresHumidity'
  BY <1>1, <1>3, SettingsLost
<1>6. TypeOK'
  <2>1. line' \in [Devices -> {"sound", "high", "low"}] /\ handles' \subseteq Devices
    BY <1>1, <1>2, Zenon DEF TypeOK
  <2> QED
    BY <1>2, <1>3, <1>4, <1>5, <2>1, QuietTyped
<1> QED
  BY <1>4, <1>5, <1>6, QuietKeeps, Zenon DEF IInv

LEMMA MendKeeps ==
  ASSUME IInv, Mend
  PROVE  IInv'
<1>1. PICK d \in Devices :
        /\ line' = [line EXCEPT ![d] = "sound"]
        /\ UNCHANGED <<chip, programVars, imuVars, histories>>
  BY Zenon DEF Mend
<1>2. TypeOK
  BY Zenon DEF IInv
<1>3. /\ UNCHANGED <<snapshot, present, errors, frame, imuVars, answers, dead_for>>
      /\ UNCHANGED <<chip, intact, handles, present, able_for, up, faults>>
  BY <1>1, Zenon DEF programVars, histories
<1>4. QuietStep
  BY <1>2, <1>3, SameAges
<1>5. /\ chip' \in [Devices -> SUBSET Settings] /\ intact' \subseteq Devices
      /\ IntactIsSetUp' /\ RtdFaultsAreThePt100s' /\ PresentMeasuresHumidity'
  BY <1>3, SettingsKept
<1>6. TypeOK'
  <2>1. line' \in [Devices -> {"sound", "high", "low"}] /\ handles' \subseteq Devices
        /\ faults' \in 0 .. MaxFaults
    BY <1>1, <1>2, <1>3, Zenon DEF TypeOK
  <2> QED
    BY <1>2, <1>4, <1>5, <2>1, QuietTyped
<1> QED
  BY <1>4, <1>5, <1>6, QuietKeeps, Zenon DEF IInv

LEMMA RtdFaultKeeps ==
  ASSUME IInv, RtdFault
  PROVE  IInv'
<1>1. /\ chip' = [chip EXCEPT !["pt100"] = @ \cup {"rtd_fault"}]
      /\ able_for' = [able_for EXCEPT !["pt100"] = 0]
      /\ Fault /\ UNCHANGED <<line, up, handles, intact>>
  BY Zenon DEF RtdFault
<1>2. TypeOK /\ "pt100" \in Devices /\ "pt100" \notin Bmes /\ Bmes \subseteq Devices
  BY DeviceFacts, Zenon DEF IInv
<1>3. /\ faults' \in 0 .. MaxFaults
      /\ UNCHANGED <<snapshot, present, errors, frame, imuVars, answers, dead_for>>
  BY <1>1, <1>2, FaultCounts
<1>4. /\ chip' \in [Devices -> SUBSET Settings]
      /\ \A d \in Devices : chip[d] \subseteq chip'[d]
      /\ \A d \in Devices : d # "pt100" => chip'[d] = chip[d]
  <2>1. "rtd_fault" \in Settings
    BY SMT DEF Settings
  <2> QED
    BY <1>1, <1>2, <2>1, Zenon DEF TypeOK
<1>5. /\ able_for' \in [Devices -> 0 .. 2] /\ able_for'["pt100"] = 0
      /\ \A d \in Devices : d # "pt100" => able_for'[d] = able_for[d]
  <2>1. 0 \in 0 .. 2
    OBVIOUS
  <2> QED
    BY <1>1, <1>2, <2>1, Zenon DEF TypeOK
<1>6. QuietStep
  BY <1>1, <1>2, <1>3, <1>5, Zenon DEF QuietStep, TypeOK
<1>7. IntactIsSetUp'
  <2> SUFFICES ASSUME NEW d \in intact
               PROVE  /\ Needed(d) \subseteq chip'[d]
                      /\ up => d \in handles /\ (d \in Bmes => d \in present)
    BY <1>1, <1>3, Zenon DEF IntactIsSetUp, Needed
  <2> QED
    BY <1>2, <1>4, Zenon DEF IInv, IntactIsSetUp, TypeOK
<1>8. RtdFaultsAreThePt100s'
  BY <1>4, <1>5, Zenon DEF IInv, RtdFaultsAreThePt100s
<1>9. PresentMeasuresHumidity'
  <2> SUFFICES ASSUME NEW d \in present, up, "ctrl_meas" \in chip'[d]
               PROVE  "humidity" \in chip'[d]
    BY <1>1, <1>3, Zenon DEF PresentMeasuresHumidity
  <2>1. d \in Devices /\ d # "pt100"
    BY <1>2, Zenon DEF TypeOK
  <2> QED
    BY <1>4, <2>1, Zenon DEF IInv, PresentMeasuresHumidity
<1>10. TypeOK'
  <2>1. /\ line' \in [Devices -> {"sound", "high", "low"}]
        /\ handles' \subseteq Devices /\ intact' \subseteq Devices
    BY <1>1, <1>2, Zenon DEF TypeOK
  <2> QED
    BY <1>2, <1>3, <1>4, <1>6, <2>1, QuietTyped
<1> QED
  BY <1>6, <1>7, <1>8, <1>9, <1>10, QuietKeeps, Zenon DEF IInv

LEMMA ResetKeeps ==
  ASSUME IInv, Reset
  PROVE  IInv'
<1>1. /\ up' = FALSE /\ handles' = {}
      /\ Fault /\ UNCHANGED <<line, chip, intact, able_for>>
  BY Zenon DEF Reset, boardVars
<1>2. TypeOK
  BY Zenon DEF IInv
<1>3. /\ faults' \in 0 .. MaxFaults
      /\ UNCHANGED <<snapshot, present, errors, frame, imuVars, answers, dead_for>>
  BY <1>1, <1>2, FaultCounts
<1>4. QuietStep
  BY <1>1, <1>2, <1>3, Zenon DEF QuietStep, TypeOK
<1>5. IntactIsSetUp'
  <2> SUFFICES ASSUME NEW d \in intact
               PROVE  Needed(d) \subseteq chip[d]
    BY <1>1, <1>3, Zenon DEF IntactIsSetUp, Needed
  <2> QED
    BY Zenon DEF IInv, IntactIsSetUp
<1>6. RtdFaultsAreThePt100s' /\ PresentMeasuresHumidity'
  BY <1>1, <1>3, Zenon DEF IInv, RtdFaultsAreThePt100s, PresentMeasuresHumidity
<1>7. TypeOK'
  <2>1. /\ line' \in [Devices -> {"sound", "high", "low"}]
        /\ chip' \in [Devices -> SUBSET Settings]
        /\ handles' \subseteq Devices /\ intact' \subseteq Devices
    BY <1>1, <1>2, Zenon DEF TypeOK
  <2> QED
    BY <1>2, <1>3, <1>4, <2>1, QuietTyped
<1> QED
  BY <1>4, <1>5, <1>6, <1>7, QuietKeeps, Zenon DEF IInv

LEMMA StutterKeeps ==
  ASSUME IInv, UNCHANGED vars
  PROVE  IInv'
<1>1. /\ UNCHANGED <<line, chip, intact, handles, present, able_for, up, faults>>
      /\ UNCHANGED <<snapshot, present, errors, frame, imuVars, answers, dead_for>>
  BY Zenon DEF vars, boardVars, programVars, histories
<1>2. TypeOK
  BY Zenon DEF IInv
<1>3. QuietStep
  BY <1>1, <1>2, SameAges
<1>4. /\ chip' \in [Devices -> SUBSET Settings] /\ intact' \subseteq Devices
      /\ IntactIsSetUp' /\ RtdFaultsAreThePt100s' /\ PresentMeasuresHumidity'
  BY <1>1, SettingsKept
<1>5. TypeOK'
  <2>1. line' \in [Devices -> {"sound", "high", "low"}] /\ handles' \subseteq Devices
        /\ faults' \in 0 .. MaxFaults
    BY <1>1, <1>2, Zenon DEF TypeOK
  <2> QED
    BY <1>2, <1>3, <1>4, <2>1, QuietTyped
<1> QED
  BY <1>3, <1>4, <1>5, QuietKeeps, Zenon DEF IInv

-----------------------------------------------------------------------------
(* A transfer, and what the driver makes of it.                            *)
LEMMA AnswerFacts ==
  ASSUME NEW d \in Devices
  PROVE  /\ Answer(d) \in Answers
         /\ Answer(d) = "live" => Measures(d) /\ "rtd_fault" \notin chip[d]
         /\ Answer(d) = "fault" => "rtd_fault" \in chip[d]
         /\ Answer(d) = "no_gyro" => d = "imu" /\ "ctrl2" \notin chip[d]
         /\ d \in handles /\ line[d] = "sound" /\ Measures(d) =>
              Answer(d) \in {"live", "fault", "no_gyro"}
<1>1. /\ Answer(d) \in Answers
      /\ d \in handles /\ line[d] = "sound" /\ Measures(d) =>
           Answer(d) \in {"live", "fault", "no_gyro"}
  BY SMT DEF Answer, Answers
<1>2. Answer(d) = "live" => Measures(d) /\ "rtd_fault" \notin chip[d]
  BY SMT DEF Answer
<1>3. Answer(d) = "fault" => "rtd_fault" \in chip[d]
  BY SMT DEF Answer
<1>4. Answer(d) = "no_gyro" => d = "imu" /\ "ctrl2" \notin chip[d]
  BY SMT DEF Answer
<1> QED
  BY <1>1, <1>2, <1>3, <1>4

LEMMA MeasuresFacts ==
  ASSUME NEW d \in Devices
  PROVE  /\ d \in Bmes => (Measures(d) <=> "ctrl_meas" \in chip[d])
         /\ Needed(d) \subseteq chip[d] => Measures(d)
<1>1. CASE d = "int_bme"
  BY <1>1, DeviceFacts, SMT DEF Measures, Needed
<1>2. CASE d = "ext_bme"
  BY <1>2, DeviceFacts, SMT DEF Measures, Needed
<1>3. CASE d = "pt100"
  BY <1>3, DeviceFacts, SMT DEF Measures, Needed
<1>4. CASE d = "imu"
  BY <1>4, DeviceFacts, SMT DEF Measures, Needed
<1>5. CASE d = "slf3s"
  BY <1>5, DeviceFacts, SMT DEF Measures, Needed
<1>6. CASE d = "abp"
  BY <1>6, DeviceFacts, SMT DEF Measures, Needed
<1> QED
  BY <1>1, <1>2, <1>3, <1>4, <1>5, <1>6, DeviceFacts, Zenon

LEMMA ReadingOf ==
  ASSUME NEW a
  PROVE  /\ Reading("pt100", a) = Pt100Reading(a)
         /\ \A d \in Bmes : Reading(d, a) = BmeReading(d, a)
         /\ Reading("imu", a) = ImuReading(a)
         /\ Reading("slf3s", a) = FlowReading(a)
         /\ Reading("abp", a) = AbpReading(a)
  BY DeviceFacts, SMT DEF Reading

(* What a driver makes of an answer, and what may be concluded from it.    *)
LEMMA ReadingFacts ==
  ASSUME NEW d \in Devices, NEW a \in Answers, a = "no_gyro" => d = "imu"
  PROVE  /\ Reading(d, a) \in Readings
         /\ Reading(d, a) = "measured" => a = "live"
         /\ Reading(d, a) = "dry" =>
              d \in Bmes /\ d \in present /\ a = "live" /\ "humidity" \notin chip[d]
         /\ Reading(d, a) = "clamped" =>
              d \in Bmes /\ d \in present /\ a \in {"ones", "zeros", "fault"}
         /\ Reading(d, a) = "constant" => d = "imu" /\ a \notin {"none", "live"}
         /\ Reading(d, a) = "no_gyro" => d = "imu" /\ a = "no_gyro"
         /\ Reading(d, a) = "zero" => d = "abp" /\ a = "zeros"
         /\ Reading(d, a) # Invalid /\ (d \in {"pt100", "slf3s"} \/ a = "live") =>
              Reading(d, a) \in {"measured", "dry"}
         /\ a = "live" /\ (d \in Bmes => d \in present /\ "humidity" \in chip[d]) =>
              Reading(d, a) = "measured"
<1>1. CASE d \in Bmes
  <2>1. /\ Reading(d, a) = BmeReading(d, a)
        /\ d \notin {"pt100", "imu", "slf3s", "abp"}
    BY <1>1, ReadingOf, DeviceFacts, Zenon
  <2> QED
    BY <1>1, <2>1, SMT DEF BmeReading, Answers, Readings, Invalid
<1>2. CASE d = "pt100"
  BY <1>2, ReadingOf, DeviceFacts, SMT DEF Pt100Reading, Answers, Readings, Invalid
<1>3. CASE d = "imu"
  BY <1>3, ReadingOf, DeviceFacts, SMT DEF ImuReading, Answers, Readings, Invalid
<1>4. CASE d = "slf3s"
  BY <1>4, ReadingOf, DeviceFacts, SMT DEF FlowReading, Answers, Readings, Invalid
<1>5. CASE d = "abp"
  BY <1>5, ReadingOf, DeviceFacts, SMT DEF AbpReading, Answers, Readings, Invalid
<1> QED
  BY <1>1, <1>2, <1>3, <1>4, <1>5, DeviceFacts, Zenon

(* A device without an RTD fault that is not a PT100 never answers one.    *)
LEMMA OnlyThePt100Faults ==
  ASSUME IInv, NEW d \in Devices, d # "pt100"
  PROVE  Answer(d) # "fault" /\ "rtd_fault" \notin chip[d]
  BY AnswerFacts, Zenon DEF IInv, RtdFaultsAreThePt100s

(* A BME that is present never reads as one without humidity.              *)
LEMMA NeverDry ==
  ASSUME IInv, up, NEW d \in Devices
  PROVE  Reading(d, Answer(d)) # "dry"
<1> SUFFICES ASSUME Reading(d, Answer(d)) = "dry" PROVE FALSE
  OBVIOUS
<1>1. d \in Bmes /\ d \in present /\ Answer(d) = "live" /\ "humidity" \notin chip[d]
  BY AnswerFacts, ReadingFacts
<1>2. "ctrl_meas" \in chip[d]
  BY <1>1, AnswerFacts, MeasuresFacts, Zenon
<1> QED
  BY <1>1, <1>2, Zenon DEF IInv, PresentMeasuresHumidity

(* A device that is intact on a sound line answers with a measurement, but *)
(* for a PT100 whose fault is still latched.                               *)
LEMMA IntactAnswers ==
  ASSUME IInv, up, NEW d \in Devices, d \in intact, line[d] = "sound"
  PROVE  /\ Answer(d) \in {"live", "fault"}
         /\ "rtd_fault" \notin chip[d] =>
              Answer(d) = "live" /\ Reading(d, Answer(d)) = "measured"
<1>1. /\ Needed(d) \subseteq chip[d] /\ d \in handles
      /\ d \in Bmes => d \in present
  BY Zenon DEF IInv, IntactIsSetUp
<1>2. Answer(d) \in {"live", "fault"}
  <2>1. d = "imu" => "ctrl2" \in chip[d]
    <3>1. Needed("imu") = {"ctrl1", "ctrl2"}
      BY DeviceFacts, SMT DEF Needed
    <3> QED
      BY <1>1, <3>1, Zenon
  <2>2. Answer(d) \in {"live", "fault", "no_gyro"}
    BY <1>1, AnswerFacts, MeasuresFacts, Zenon
  <2> QED
    BY <2>1, <2>2, AnswerFacts, Zenon
<1>3. d \in Bmes => "humidity" \in chip[d]
  <2> SUFFICES ASSUME d \in Bmes PROVE "humidity" \in chip[d]
    OBVIOUS
  <2>1. Needed(d) = {"ctrl_meas", "humidity"}
    BY DeviceFacts, SMT DEF Needed
  <2> QED
    BY <1>1, <2>1, Zenon
<1>4. ASSUME "rtd_fault" \notin chip[d]
      PROVE  Answer(d) = "live" /\ Reading(d, Answer(d)) = "measured"
  <2>1. Answer(d) = "live" /\ Answer(d) \in Answers
    BY <1>2, <1>4, AnswerFacts, Zenon
  <2> QED
    BY <1>1, <1>3, <2>1, ReadingFacts, Zenon
<1> QED
  BY <1>2, <1>4

-----------------------------------------------------------------------------
(* One cycle: sensors_read, health_monitor_update, send_sensor_frame.      *)
Given == [d \in Devices |-> Answer(d)]

LEMMA CycleDoes ==
  ASSUME Cycle
  PROVE  \E az \in Accelerations :
           /\ up
           /\ snapshot' = [reading |-> [d \in Devices |-> Reading(d, Given[d])],
                           valid |-> Good(Given)]
           /\ CheckFrozen(ImuValue(Given["imu"], az), "imu" \in Good(Given))
           /\ errors' = errors \cup Raised(Given) \cup
                          (IF frozen' /\ ~frozen THEN {"imu"} ELSE {})
           /\ chip' = IF Pt100Rewrites(Given["pt100"])
                      THEN [chip EXCEPT !["pt100"] = Written("pt100", <<"config">>)]
                      ELSE chip
           /\ Remember(Given)
           /\ frame' \in {NoFrame, send_sensor_frame(snapshot', errors')}
           /\ UNCHANGED <<line, up, handles, present, intact, faults>>
  BY Zenon DEF Cycle, Given, Publish

(* The settings: only the PT100 is written to, with its configuration.     *)
LEMMA CycleWrites ==
  ASSUME IInv, Cycle
  PROVE  /\ chip' \in [Devices -> SUBSET Settings]
         /\ \A d \in Devices : d # "pt100" => chip'[d] = chip[d]
         /\ \A s \in chip["pt100"] : s # "rtd_fault" => s \in chip'["pt100"]
         /\ "rtd_fault" \in chip'["pt100"] => "rtd_fault" \in chip["pt100"]
         /\ Answer("pt100") = "fault" /\ line["pt100"] = "sound" =>
              "rtd_fault" \notin chip'["pt100"]
<1> DEFINE config == <<"config">>
<1>1. /\ chip' = IF Pt100Rewrites(Given["pt100"])
                 THEN [chip EXCEPT !["pt100"] = Written("pt100", config)]
                 ELSE chip
  BY CycleDoes, Zenon
<1>2. "pt100" \in Devices /\ chip \in [Devices -> SUBSET Settings]
  BY DeviceFacts, Zenon DEF IInv, TypeOK
<1>3. Given["pt100"] = Answer("pt100")
  BY <1>2, Zenon DEF Given
<1>4. Range(config) = {"config"}
  <2>1. DOMAIN config = {1} /\ config[1] = "config"
    BY SMT
  <2> HIDE DEF config
  <2> QED
    BY <2>1 DEF Range
<1>5. "config" \in Settings /\ "rtd_fault" \notin Range(config)
      /\ Effective(config) # {}
  <2>1. "config" \in Effective(Pt100Init) /\ Pt100Init = Steps["pt100"]
    BY InitWrites, StepFacts
  <2>2. "config" \in Settings
    BY <1>2, <2>1, EveryInit, Zenon
  <2>3. "config" \in Effective(config)
    BY <1>4, Zenon DEF Effective
  <2> QED
    BY <1>4, <2>2, <2>3, Zenon
<1> HIDE DEF config
<1>6. CASE Pt100Rewrites(Given["pt100"])
  <2>1. chip' = [chip EXCEPT !["pt100"] = Written("pt100", config)]
    BY <1>1, <1>6
  <2>2. Written("pt100", config) \subseteq Settings
    BY <1>2, <1>4, <1>5, WrittenTyped, Zenon
  <2>3. /\ \A s \in chip["pt100"] : s # "rtd_fault" => s \in Written("pt100", config)
        /\ "rtd_fault" \in Written("pt100", config) =>
             "rtd_fault" \in chip["pt100"] /\ line["pt100"] # "sound"
    BY <1>5, WritingKeeps, WritingAddsNoFault, Zenon
  <2> QED
    BY <1>2, <2>1, <2>2, <2>3, Zenon
<1>7. CASE ~Pt100Rewrites(Given["pt100"])
  <2>1. chip' = chip /\ Answer("pt100") # "fault"
    BY <1>1, <1>3, <1>7, Zenon DEF Pt100Rewrites
  <2> QED
    BY <1>2, <2>1, Zenon
<1> QED
  BY <1>6, <1>7

LEMMA AblesCounted ==
  ASSUME TypeOK, Remember(Given), NEW d \in Devices, UNCHANGED <<line, intact>>
  PROVE  /\ able_for' \in [Devices -> 0 .. 2]
         /\ able_for'[d] # 0 => d \in intact /\ line[d] = "sound"
         /\ able_for'[d] = 2 => able_for[d] # 0
<1>1. able_for' = [e \in Devices |->
                     IF e \notin intact \/ line[e] # "sound" THEN 0
                     ELSE IF able_for[e] < 2 THEN able_for[e] + 1 ELSE 2]
  BY Zenon DEF Remember
<1>2. \A e \in Devices : able_for[e] \in 0 .. 2
  BY Zenon DEF TypeOK
<1>3. able_for' \in [Devices -> 0 .. 2]
  BY <1>1, <1>2, SMT
<1>4. able_for'[d] = IF d \notin intact \/ line[d] # "sound" THEN 0
                     ELSE IF able_for[d] < 2 THEN able_for[d] + 1 ELSE 2
  BY <1>1, Zenon
<1> QED
  BY <1>2, <1>3, <1>4, SMT

LEMMA CycleKeepsSettings ==
  ASSUME IInv, Cycle
  PROVE  IntactIsSetUp' /\ RtdFaultsAreThePt100s' /\ PresentMeasuresHumidity'
<1>1. /\ up /\ Remember(Given)
      /\ UNCHANGED <<line, up, handles, present, intact, faults>>
  BY CycleDoes, Zenon
<1>2. /\ "pt100" \in Devices /\ "pt100" \notin Bmes
      /\ present \subseteq Bmes /\ Bmes \subseteq Devices /\ intact \subseteq Devices
  BY DeviceFacts, Zenon DEF IInv, TypeOK
<1>3. "rtd_fault" \notin Needed("pt100")
  BY SMT DEF Needed
<1>4. IntactIsSetUp'
  <2> SUFFICES ASSUME NEW d \in intact
               PROVE  /\ Needed(d) \subseteq chip'[d]
                      /\ d \in handles /\ (d \in Bmes => d \in present)
    BY <1>1, Zenon DEF IntactIsSetUp, Needed
  <2>1. /\ Needed(d) \subseteq chip[d] /\ d \in Devices
        /\ d \in handles /\ (d \in Bmes => d \in present)
    BY <1>1, <1>2, Zenon DEF IInv, IntactIsSetUp
  <2> QED
    BY <1>3, <2>1, CycleWrites, Zenon
<1>5. RtdFaultsAreThePt100s'
  <2> SUFFICES ASSUME NEW d \in Devices, "rtd_fault" \in chip'[d]
               PROVE  d = "pt100" /\ able_for'[d] = 0
    BY Zenon DEF RtdFaultsAreThePt100s
  <2>1. "rtd_fault" \in chip[d]
    BY CycleWrites, Zenon
  <2>2. d = "pt100"
    BY <2>1, Zenon DEF IInv, RtdFaultsAreThePt100s
  <2>3. Answer(d) = "fault" \/ ~(d \in intact /\ line[d] = "sound")
    BY <1>1, <2>1, IntactAnswers, AnswerFacts, Zenon
  <2>4. ~(d \in intact /\ line[d] = "sound")
    BY <2>2, <2>3, CycleWrites, Zenon
  <2>5. TypeOK
    BY Zenon DEF IInv
  <2>6. able_for'[d] # 0 => d \in intact /\ line[d] = "sound"
    BY <1>1, <2>5, AblesCounted
  <2> QED
    BY <2>2, <2>4, <2>6
<1>6. PresentMeasuresHumidity'
  <2> SUFFICES ASSUME NEW d \in present, "ctrl_meas" \in chip'[d]
               PROVE  "humidity" \in chip'[d]
    BY <1>1, Zenon DEF PresentMeasuresHumidity
  <2>1. d \in Devices /\ d # "pt100"
    BY <1>2, Zenon
  <2>2. chip'[d] = chip[d]
    BY <2>1, CycleWrites
  <2> QED
    BY <1>1, <2>2, Zenon DEF IInv, PresentMeasuresHumidity
<1> QED
  BY <1>4, <1>5, <1>6

(* The fields of SENSOR_DATA: each is a quantity of a device, and the Pi   *)
(* unpacks as unsigned what was put in as unsigned.                        *)
LEMMA FieldFacts ==
  \A i \in DOMAIN SensorFields :
    /\ SensorFields[i][1] \in Devices
    /\ SENSOR_DATA_FORMAT[i] = "H" <=> i \in PutUnsigned
<1>1. DOMAIN SensorFields = 1 .. 15
  BY SMT DEF SensorFields
<1>2. \A i \in 1 .. 15 : i \in {1,2,3,4,5,6,7,8,9,10,11,12,13,14,15}
  BY SMT
<1>3. \A i \in 1 .. 15 : SENSOR_DATA_FORMAT[i] = "H" <=> i \in PutUnsigned
  BY <1>2, SMT DEF SENSOR_DATA_FORMAT, PutUnsigned
<1>4. \A i \in 1 .. 15 : SensorFields[i][1] \in Devices
  BY <1>2, DeviceFacts, SMT DEF SensorFields
<1> QED
  BY <1>1, <1>3, <1>4

(* The snapshot, the raised bits and the ages after a cycle.               *)
LEMMA CycleShows ==
  ASSUME IInv, Cycle, NEW d \in Devices
  PROVE  /\ snapshot'.reading[d] = Reading(d, Answer(d))
         /\ d \in snapshot'.valid <=> Reading(d, Answer(d)) # Invalid
         /\ answers'[d] = Answer(d)
         /\ Mimics(d, answers[d])' <=> Mimics(d, Answer(d))
<1>1. /\ snapshot' = [reading |-> [e \in Devices |-> Reading(e, Given[e])],
                      valid |-> Good(Given)]
      /\ answers' = Given /\ present' = present
  BY CycleDoes, Zenon DEF Remember
<1>2. Given[d] = Answer(d)
  BY Zenon DEF Given
<1>3. /\ snapshot'.reading = [e \in Devices |-> Reading(e, Given[e])]
      /\ snapshot'.valid = Good(Given)
  BY <1>1
<1>4. d \in Good(Given) <=> Reading(d, Answer(d)) # Invalid
  BY <1>2, Zenon DEF Good
<1>5. Mimics(d, answers[d])' <=> Mimics(d, Answer(d))
  BY <1>1, <1>2, Zenon DEF Mimics
<1> QED
  BY <1>1, <1>2, <1>3, <1>4, <1>5, Zenon

LEMMA CycleRaises ==
  ASSUME IInv, Cycle, NEW d \in Devices
  PROVE  /\ errors \subseteq errors'
         /\ Reading(d, Answer(d)) = Invalid => d \in errors'
         /\ d = "int_bme" /\ Reading(d, Answer(d)) = "clamped" => "thermal" \in errors'
         /\ frozen' /\ ~frozen => "imu" \in errors'
<1>1. errors' = errors \cup Raised(Given) \cup
                  (IF frozen' /\ ~frozen THEN {"imu"} ELSE {})
  BY CycleDoes, Zenon
<1>2. Given[d] = Answer(d)
  BY Zenon DEF Given
<1>3. Reading(d, Answer(d)) = Invalid => d \in Raised(Given)
  BY <1>2, Zenon DEF Raised, Good
<1>4. d = "int_bme" /\ Reading(d, Answer(d)) = "clamped" => "thermal" \in Raised(Given)
  BY <1>2, Zenon DEF Raised
<1> QED
  BY <1>1, <1>3, <1>4, Zenon

LEMMA CycleTyped ==
  ASSUME IInv, Cycle
  PROVE  TypeOK'
<1>1. PICK az \in Accelerations :
        /\ up
        /\ snapshot' = [reading |-> [d \in Devices |-> Reading(d, Given[d])],
                        valid |-> Good(Given)]
        /\ CheckFrozen(ImuValue(Given["imu"], az), "imu" \in Good(Given))
        /\ errors' = errors \cup Raised(Given) \cup
                       (IF frozen' /\ ~frozen THEN {"imu"} ELSE {})
        /\ Remember(Given)
        /\ frame' \in {NoFrame, send_sensor_frame(snapshot', errors')}
        /\ UNCHANGED <<line, up, handles, present, intact, faults>>
  BY CycleDoes, Zenon
<1>2. TypeOK
  BY Zenon DEF IInv
<1>3. Given \in [Devices -> Answers]
  BY AnswerFacts, Zenon DEF Given
<1>4. snapshot' \in [reading : [Devices -> Readings], valid : SUBSET Devices]
  <2>1. \A d \in Devices : Reading(d, Given[d]) \in Readings
    BY AnswerFacts, ReadingFacts, Zenon DEF Given
  <2>2. Good(Given) \subseteq Devices
    BY Zenon DEF Good
  <2> QED
    BY <1>1, <2>1, <2>2, Zenon
<1>5. errors' \subseteq Devices \cup {"thermal"}
  <2>1. Raised(Given) \subseteq Devices \cup {"thermal"}
    BY Zenon DEF Raised
  <2>2. "imu" \in Devices /\ errors \subseteq Devices \cup {"thermal"}
    BY <1>2, DeviceFacts, Zenon DEF TypeOK
  <2> QED
    BY <1>1, <2>1, <2>2, Zenon
<1>6. frame' # NoFrame =>
        frame' \in [data : [DOMAIN SensorFields -> Readings],
                    word : SUBSET (Devices \cup {"thermal"})]
  <2>1. ASSUME NEW i \in DOMAIN SensorFields
        PROVE  SensorFields[i][1] \in Devices
    BY FieldFacts, Zenon
  <2>2. ASSUME NEW i \in DOMAIN SensorFields, NEW r \in Readings
        PROVE  as_u16(FieldValue(SensorFields[i], r)) \in Readings
               /\ FieldValue(SensorFields[i], r) \in Readings
    BY SMT DEF as_u16, FieldValue, Missing, Readings, Invalid
  <2>3. \A i \in DOMAIN SensorFields :
          (LET v == FieldValue(SensorFields[i], snapshot'.reading[SensorFields[i][1]])
           IN  IF i \in PutUnsigned THEN as_u16(v) ELSE v) \in Readings
    BY <1>4, <2>1, <2>2
  <2>4. send_sensor_frame(snapshot', errors') \in
          [data : [DOMAIN SensorFields -> Readings],
           word : SUBSET (Devices \cup {"thermal"})]
    BY <1>5, <2>3, Zenon DEF send_sensor_frame
  <2> QED
    BY <1>1, <2>4, Zenon
<1>7. FrozenTypeOK'
  <2>1. ImuValue(Given["imu"], az) \in Int
    BY BoardAssumption, SMT DEF ImuValue
  <2>2. /\ last_az \in Int /\ static_cycles \in 0 .. StaticCycles /\ frozen \in BOOLEAN
    BY <1>2, Zenon DEF TypeOK, FrozenTypeOK
  <2>3. StillAfter(ImuValue(Given["imu"], az)) \in 0 .. StaticCycles
    BY <2>2, FrozenAssumption, SMT DEF StillAfter
  <2>4. (static_cycles' >= StaticCycles) \in BOOLEAN
    OBVIOUS
  <2> QED
    BY <1>1, <2>1, <2>2, <2>3, <2>4, Zenon DEF CheckFrozen, FrozenTypeOK, imuVars
<1>8. able_for' \in [Devices -> 0 .. 2]
  <2>1. "imu" \in Devices
    BY DeviceFacts, Zenon
  <2> QED
    BY <1>1, <1>2, <2>1, AblesCounted
<1>9. dead_for' \in [Devices -> 0 .. StaticCycles + 1]
  <2>1. dead_for' = [d \in Devices |->
                       IF Given[d] = "live" \/ Mimics(d, Given[d]) THEN 0
                       ELSE IF dead_for[d] <= StaticCycles THEN dead_for[d] + 1
                       ELSE dead_for[d]]
    BY <1>1, Zenon DEF Remember
  <2>2. \A d \in Devices : dead_for[d] \in 0 .. StaticCycles + 1
    BY <1>2, Zenon DEF TypeOK
  <2> QED
    BY <2>1, <2>2, FrozenAssumption, SMT
<1>10. answers' \in [Devices -> Answers]
  BY <1>1, <1>3, Zenon DEF Remember
<1>11. chip' \in [Devices -> SUBSET Settings]
  BY CycleWrites
<1> QED
  BY <1>1, <1>2, <1>4, <1>5, <1>6, <1>7, <1>8, <1>9, <1>10, <1>11, Zenon
  DEF TypeOK, Answers

-----------------------------------------------------------------------------
(* The frozen-IMU check against a dead IMU: its samples differ by at most  *)
(* one, so each but the first is counted as still.                         *)
LEMMA CycleWatchesImu ==
  ASSUME IInv, Cycle
  PROVE  FrozenIsReported' /\ DeadImuStandsStill'
<1> DEFINE a == Answer("imu")
<1>1. "imu" \in Devices /\ a \in Answers
  BY DeviceFacts, AnswerFacts, Zenon
<1>2. Given["imu"] = a /\ ("imu" \in Good(Given) <=> a # "none")
      /\ (Reading("imu", a) = Invalid <=> a = "none")
  <2>1. Given["imu"] = a
    BY <1>1, Zenon DEF Given
  <2>2. Reading("imu", a) = Invalid <=> a = "none"
    BY ReadingOf, SMT DEF ImuReading, Invalid
  <2> QED
    BY <1>1, <2>1, <2>2, Zenon DEF Good
<1>3. PICK az \in Accelerations :
        CheckFrozen(ImuValue(Given["imu"], az), "imu" \in Good(Given)) /\ Remember(Given)
  BY CycleDoes, Zenon
<1>4. /\ errors \subseteq errors'
      /\ a = "none" => "imu" \in errors'
      /\ frozen' /\ ~frozen => "imu" \in errors'
  BY <1>1, <1>2, CycleRaises, Zenon
<1>5. /\ frozen \in BOOLEAN
      /\ frozen <=> static_cycles >= StaticCycles
      /\ frozen => "imu" \in errors
  BY Zenon DEF IInv, FrozenIsReported, TypeOK, FrozenTypeOK
<1>6. CASE a = "none"
  <2>1. frozen' = frozen /\ static_cycles' = static_cycles
    BY <1>2, <1>3, <1>6, Zenon DEF CheckFrozen, imuVars
  <2> QED
    BY <1>4, <1>5, <1>6, <2>1, Zenon DEF FrozenIsReported, DeadImuStandsStill
<1>7. CASE a # "none"
  <2> DEFINE v == ImuValue(a, az)
  <2>1. /\ static_cycles' = StillAfter(v) /\ frozen' = (static_cycles' >= StaticCycles)
        /\ last_az' = v
    BY <1>2, <1>3, <1>7, Zenon DEF CheckFrozen
  <2>2. FrozenIsReported'
    BY <1>4, <1>5, <2>1, Zenon DEF FrozenIsReported
  <2>3. DeadImuStandsStill'
    <3> SUFFICES ASSUME "imu" \notin errors', dead_for'["imu"] > 0
                 PROVE  last_az' \in {-1, 0} /\ static_cycles' >= dead_for'["imu"] - 1
      BY Zenon DEF DeadImuStandsStill
    <3>1. "imu" \notin errors /\ ~(static_cycles >= StaticCycles)
      BY <1>4, <1>5, Zenon
    <3>2. dead_for'["imu"] = IF a = "live" \/ Mimics("imu", a) THEN 0
                             ELSE IF dead_for["imu"] <= StaticCycles
                                  THEN dead_for["imu"] + 1 ELSE dead_for["imu"]
      BY <1>1, <1>2, <1>3, Zenon DEF Remember
    <3>3. a # "live" /\ a # "no_gyro"
      BY <3>2, SMT DEF Mimics
    <3>4. v \in {-1, 0}
      BY <3>3, SMT DEF ImuValue
    <3>5. /\ dead_for["imu"] \in 0 .. StaticCycles + 1
          /\ static_cycles \in 0 .. StaticCycles
          /\ dead_for'["imu"] = dead_for["imu"] + 1 \/ dead_for'["imu"] = dead_for["imu"]
      BY <1>1, <3>2, SMT DEF IInv, TypeOK, FrozenTypeOK
    <3>6. StillAfter(v) \in Nat
      BY <3>5, FrozenAssumption, SMT DEF StillAfter
    <3>7. CASE dead_for["imu"] = 0
      BY <2>1, <3>4, <3>5, <3>6, <3>7, SMT
    <3>8. CASE dead_for["imu"] > 0
      <4>1. last_az \in {-1, 0} /\ static_cycles >= dead_for["imu"] - 1
        BY <3>1, <3>8, Zenon DEF IInv, DeadImuStandsStill
      <4>2. ~Moved(v) /\ ~Pegged(v)
        BY <3>4, <4>1, FrozenAssumption, BoardAssumption, SMT DEF Moved, Pegged, Magnitude
      <4>3. StillAfter(v) = static_cycles + 1
        BY <3>1, <3>5, <4>2, FrozenAssumption, SMT DEF StillAfter
      <4> HIDE DEF v
      <4> QED
        BY <2>1, <3>4, <3>5, <4>1, <4>3, SMT
    <3> QED
      BY <3>5, <3>7, <3>8, SMT
  <2> QED
    BY <2>2, <2>3
<1> QED
  BY <1>6, <1>7

(* What is not a measurement is seen, but for what nobody can see and an   *)
(* IMU that is not yet judged.                                             *)
LEMMA NotMeasuredIsJudged ==
  ASSUME IInv, Cycle, NEW d \in Devices, Reading(d, Answer(d)) # "measured"
  PROVE  \/ Mimics(d, Answer(d))
         \/ errors' \cap Bits(d) # {}
         \/ d = "imu"
<1> DEFINE r == Reading(d, Answer(d))
<1>1. Answer(d) \in Answers /\ up
  BY AnswerFacts, CycleDoes, Zenon
<1>2. r \in {"clamped", "constant", "no_gyro", "zero", Invalid}
  BY <1>1, AnswerFacts, ReadingFacts, NeverDry, Zenon DEF Readings
<1>3. d \in Bits(d)
  BY Zenon DEF Bits
<1>4. CASE r = Invalid
  BY <1>3, <1>4, CycleRaises, Zenon
<1>5. CASE r = "clamped"
  <2>1. d \in Bmes /\ d \in present /\ Answer(d) \in {"ones", "zeros", "fault"}
    BY <1>1, <1>5, AnswerFacts, ReadingFacts, Zenon
  <2>2. d # "pt100"
    BY <2>1, DeviceFacts, Zenon
  <2>3. Answer(d) \in {"ones", "zeros"}
    BY <2>1, <2>2, OnlyThePt100Faults, Zenon
  <2>4. CASE d = "int_bme"
    BY <1>5, <2>4, CycleRaises, Zenon DEF Bits
  <2>5. CASE d = "ext_bme"
    BY <2>1, <2>3, <2>5, Zenon DEF Mimics
  <2> QED
    BY <2>1, <2>4, <2>5, DeviceFacts, Zenon
<1>6. CASE r = "constant"
  BY <1>1, <1>6, AnswerFacts, ReadingFacts, Zenon
<1>7. CASE r = "zero"
  BY <1>1, <1>7, AnswerFacts, ReadingFacts, Zenon DEF Mimics
<1>8. CASE r = "no_gyro"
  BY <1>1, <1>8, AnswerFacts, ReadingFacts, Zenon
<1> QED
  BY <1>2, <1>4, <1>5, <1>6, <1>7, <1>8, Zenon

LEMMA CycleReportsTheDead ==
  ASSUME IInv, Cycle
  PROVE  DeadSensorIsReported'
<1> SUFFICES ASSUME NEW d \in Devices,
                    dead_for'[d] > (IF d = "imu" THEN StaticCycles ELSE 0)
             PROVE  errors' \cap Bits(d) # {}
  BY Zenon DEF DeadSensorIsReported, Bits
<1>1. CASE d = "imu"
  <2>1. dead_for'["imu"] > StaticCycles /\ dead_for'["imu"] \in Nat
    BY <1>1, CycleTyped, FrozenAssumption, SMT DEF TypeOK
  <2>2. static_cycles' \in Nat
    BY CycleTyped, FrozenAssumption, SMT DEF TypeOK, FrozenTypeOK
  <2>3. dead_for'["imu"] > 0
        /\ (static_cycles' >= dead_for'["imu"] - 1 => static_cycles' >= StaticCycles)
    BY <2>1, <2>2, FrozenAssumption, SMT
  <2>4. "imu" \in errors'
    BY <2>3, CycleWatchesImu, Zenon DEF FrozenIsReported, DeadImuStandsStill
  <2> QED
    BY <1>1, <2>4, Zenon DEF Bits
<1>2. CASE d # "imu"
  <2>1. Remember(Given) /\ Given[d] = Answer(d) /\ Answer(d) \in Answers
    BY CycleDoes, AnswerFacts, Zenon DEF Given
  <2>2. dead_for'[d] = IF Answer(d) = "live" \/ Mimics(d, Answer(d)) THEN 0
                       ELSE IF dead_for[d] <= StaticCycles THEN dead_for[d] + 1
                       ELSE dead_for[d]
    BY <2>1, Zenon DEF Remember
  <2>3. Answer(d) # "live" /\ ~Mimics(d, Answer(d))
    BY <1>2, <2>2, SMT
  <2>4. Answer(d) = "no_gyro" => d = "imu"
    BY AnswerFacts, Zenon
  <2>5. Reading(d, Answer(d)) # "measured"
    BY <2>1, <2>3, <2>4, ReadingFacts, Zenon
  <2> QED
    BY <1>2, <2>3, <2>5, NotMeasuredIsJudged, Zenon
<1> QED
  BY <1>1, <1>2

(* What a reading makes of a field: a measurement if the device measured   *)
(* that quantity.                                                          *)
LEMMA FieldMeasured ==
  ASSUME NEW f, NEW r \in Readings \ {"dry"}
  PROVE  /\ FieldValue(f, r) \in Readings
         /\ r = "measured" => FieldValue(f, r) = "measured"
         /\ FieldValue(f, r) = "measured" =>
              r = "measured" \/ (r = "no_gyro" /\ f[2] \notin Missing["no_gyro"])
<1>1. DOMAIN Missing = {"dry", "no_gyro"}
  BY SMT DEF Missing
<1>2. CASE r = "no_gyro"
  <2>1. /\ f[2] \in Missing["no_gyro"] => FieldValue(f, r) = "zero"
        /\ f[2] \notin Missing["no_gyro"] => FieldValue(f, r) = "measured"
    BY <1>1, <1>2, Zenon DEF FieldValue
  <2>2. "zero" \in Readings /\ "measured" \in Readings /\ "zero" # "measured"
        /\ r # "measured"
    BY <1>2, Zenon DEF Readings
  <2> QED
    BY <1>2, <2>1, <2>2, Zenon
<1>3. CASE r # "no_gyro"
  <2>1. FieldValue(f, r) = r
    BY <1>1, <1>3, Zenon DEF FieldValue
  <2> QED
    BY <2>1
<1> QED
  BY <1>2, <1>3

(* A field carries what the reading makes of it, or a marker of no         *)
(* reading, into the record of the Pi.                                     *)
LEMMA FieldCarries ==
  ASSUME NEW i \in DOMAIN SensorFields, NEW s, NEW word,
         FieldValue(SensorFields[i], s.reading[SensorFields[i][1]]) \in Readings
  PROVE  LET v == decode_sensor(send_sensor_frame(s, word).data)[i]
         IN  /\ v # "32768"
             /\ v = "measured" <=>
                  FieldValue(SensorFields[i], s.reading[SensorFields[i][1]]) = "measured"
<1> DEFINE r == FieldValue(SensorFields[i], s.reading[SensorFields[i][1]])
           data == send_sensor_frame(s, word).data
<1>1. data = [j \in DOMAIN SensorFields |->
                LET v == FieldValue(SensorFields[j], s.reading[SensorFields[j][1]])
                IN  IF j \in PutUnsigned THEN as_u16(v) ELSE v]
  BY Zenon DEF send_sensor_frame
<1>2. /\ DOMAIN data = DOMAIN SensorFields
      /\ data[i] = IF i \in PutUnsigned THEN as_u16(r) ELSE r
  BY <1>1, Zenon
<1>3. decode_sensor(data)[i] =
        IF SENSOR_DATA_FORMAT[i] = "H" /\ data[i] = Invalid THEN "32768" ELSE data[i]
  BY <1>2, Zenon DEF decode_sensor
<1> HIDE DEF data
<1>4. SENSOR_DATA_FORMAT[i] = "H" <=> i \in PutUnsigned
  BY FieldFacts, Zenon
<1>5. r \in Readings
  OBVIOUS
<1> HIDE DEF r
<1>6. /\ decode_sensor(data)[i] # "32768"
      /\ decode_sensor(data)[i] = "measured" <=> r = "measured"
  <2>1. r # "32768" /\ (as_u16(r) = "measured" <=> r = "measured")
        /\ as_u16(r) # Invalid /\ as_u16(r) # "32768"
    BY <1>5, SMT DEF Readings, Invalid, as_u16
  <2> QED
    BY <1>2, <1>3, <1>4, <2>1, Zenon
<1> QED
  BY <1>6 DEF data, r

LEMMA CycleRecordIsJudged ==
  ASSUME IInv, Cycle
  PROVE  RecordIsJudgedByItsWord'
<1>1. up /\ frame' \in {NoFrame, send_sensor_frame(snapshot', errors')}
  BY CycleDoes, Zenon
<1> SUFFICES ASSUME frame' = send_sensor_frame(snapshot', errors'),
                    NEW i \in DOMAIN SensorFields
             PROVE  LET d == SensorFields[i][1]
                        v == decode_sensor(frame'.data)[i]
                    IN  /\ v # "32768"
                        /\ v = "measured" => Measured(SensorFields[i], answers'[d])
                        /\ \/ v = "measured" \/ Mimics(d, answers[d])'
                           \/ frame'.word \cap Bits(d) # {}
                           \/ d = "imu" /\ dead_for'[d] <= StaticCycles
  BY <1>1, Zenon DEF RecordIsJudgedByItsWord, decode_sensor, Bits, Mimics, Measured
<1> DEFINE d == SensorFields[i][1]
           v == decode_sensor(frame'.data)[i]
<1>2. d \in Devices
  BY FieldFacts, Zenon
<1> HIDE DEF d
<1>3. /\ snapshot'.reading[d] = Reading(d, Answer(d)) /\ answers'[d] = Answer(d)
      /\ Mimics(d, answers[d])' <=> Mimics(d, Answer(d))
  BY <1>2, CycleShows, Zenon
<1> DEFINE r == Reading(d, Answer(d))
<1>4. Answer(d) \in Answers
  BY <1>2, AnswerFacts, Zenon
<1>5. /\ r \in Readings \ {"dry"}
      /\ r = "measured" => Answer(d) = "live"
      /\ r = "no_gyro" => Answer(d) = "no_gyro"
  BY <1>1, <1>2, <1>4, AnswerFacts, ReadingFacts, NeverDry, Zenon
<1>6. /\ v # "32768"
      /\ v = "measured" => Measured(SensorFields[i], answers'[d])
      /\ r = "measured" => v = "measured"
  <2>1. snapshot'.reading[SensorFields[i][1]] = r
    BY <1>3 DEF d
  <2> HIDE DEF r
  <2>2. /\ FieldValue(SensorFields[i], r) \in Readings
        /\ r = "measured" => FieldValue(SensorFields[i], r) = "measured"
        /\ FieldValue(SensorFields[i], r) = "measured" =>
             r = "measured" \/ (r = "no_gyro" /\ SensorFields[i][2] \notin Missing["no_gyro"])
    BY <1>5, FieldMeasured
  <2>3. v # "32768" /\ (v = "measured" <=> FieldValue(SensorFields[i], r) = "measured")
    BY <2>1, <2>2, FieldCarries, Zenon
  <2>4. FieldValue(SensorFields[i], r) = "measured" => Measured(SensorFields[i], answers'[d])
    BY <1>3, <1>5, <2>2, Zenon DEF Measured
  <2> QED
    BY <2>2, <2>3, <2>4
<1>7. frame'.word = errors'
  BY Zenon DEF send_sensor_frame
<1>8. d = "imu" => dead_for'[d] <= StaticCycles \/ errors' \cap Bits(d) # {}
  <2> SUFFICES ASSUME d = "imu", ~(dead_for'[d] <= StaticCycles)
               PROVE  errors' \cap Bits(d) # {}
    OBVIOUS
  <2>1. dead_for'[d] > StaticCycles
    BY <1>2, CycleTyped, FrozenAssumption, SMT DEF TypeOK
  <2> QED
    BY <1>2, <2>1, CycleReportsTheDead, Zenon DEF DeadSensorIsReported, Bits
<1>9. v # "measured" =>
        \/ Mimics(d, answers[d])'
        \/ errors' \cap Bits(d) # {}
        \/ d = "imu" /\ dead_for'[d] <= StaticCycles
  BY <1>2, <1>3, <1>6, <1>8, NotMeasuredIsJudged, Zenon
<1> HIDE DEF v
<1>10. /\ v # "32768" /\ (v = "measured" => Measured(SensorFields[i], answers'[d]))
       /\ \/ v = "measured" \/ Mimics(d, answers[d])'
          \/ frame'.word \cap Bits(d) # {}
          \/ d = "imu" /\ dead_for'[d] <= StaticCycles
  BY <1>6, <1>7, <1>9, Zenon
<1> QED
  BY <1>10 DEF v, d

LEMMA CycleShowsThisCycle ==
  ASSUME IInv, Cycle
  PROVE  FieldsAreThisCycles'
<1>1. up
  BY CycleDoes, Zenon
<1>2. ASSUME NEW d \in Devices
      PROVE  /\ snapshot'.reading[d] = "measured" => answers'[d] = "live"
             /\ d \notin snapshot'.valid => snapshot'.reading[d] = Invalid
             /\ d \in snapshot'.valid /\ (d \in {"pt100", "slf3s"} \/ answers'[d] = "live")
                  => snapshot'.reading[d] = "measured"
  <2>1. /\ snapshot'.reading[d] = Reading(d, Answer(d)) /\ answers'[d] = Answer(d)
        /\ d \in snapshot'.valid <=> Reading(d, Answer(d)) # Invalid
    BY CycleShows, Zenon
  <2>2. /\ Answer(d) \in Answers /\ Reading(d, Answer(d)) # "dry"
        /\ Answer(d) = "no_gyro" => d = "imu"
    BY <1>1, AnswerFacts, NeverDry, Zenon
  <2>3. /\ Reading(d, Answer(d)) = "measured" => Answer(d) = "live"
        /\ Reading(d, Answer(d)) # Invalid
             /\ (d \in {"pt100", "slf3s"} \/ Answer(d) = "live")
             => Reading(d, Answer(d)) = "measured"
    BY <2>2, ReadingFacts, Zenon
  <2> QED
    BY <2>1, <2>3, Zenon
<1>3. Invalid' = Invalid
  BY DEF Invalid
<1> QED
  BY <1>2, <1>3, CycleTyped, CycleRecordIsJudged, Zenon DEF FieldsAreThisCycles

LEMMA CycleDelivers ==
  ASSUME IInv, Cycle
  PROVE  AbleSensorDelivers'
<1>1. /\ up /\ Remember(Given) /\ UNCHANGED <<line, intact>>
  BY CycleDoes, Zenon
<1> SUFFICES ASSUME NEW d \in Devices, able_for'[d] = 2
             PROVE  d \in snapshot'.valid /\ snapshot'.reading[d] = "measured"
  BY Zenon DEF AbleSensorDelivers
<1>2. TypeOK
  BY Zenon DEF IInv
<1>3. d \in intact /\ line[d] = "sound" /\ able_for[d] # 0
  <2>1. 2 # 0
    OBVIOUS
  <2> QED
    BY <1>1, <1>2, <2>1, AblesCounted
<1>4. "rtd_fault" \notin chip[d]
  BY <1>3, Zenon DEF IInv, RtdFaultsAreThePt100s
<1>5. Reading(d, Answer(d)) = "measured"
  BY <1>1, <1>3, <1>4, IntactAnswers
<1>6. "measured" # Invalid
  BY DEF Invalid
<1> QED
  BY <1>5, <1>6, CycleShows, Zenon

-----------------------------------------------------------------------------
(* Every step keeps the invariant. *)
LEMMA StepKeeps ==
  ASSUME IInv, [Next]_vars
  PROVE  IInv'
<1>1. CASE Cycle
  BY <1>1, CycleTyped, CycleKeepsSettings, CycleWatchesImu, CycleShowsThisCycle,
     CycleReportsTheDead, CycleDelivers, Zenon DEF IInv
<1>2. CASE Boot
  BY <1>2, BootKeeps
<1>3. CASE Break
  BY <1>3, BreakKeeps
<1>4. CASE BrownOut
  BY <1>4, BrownOutKeeps
<1>5. CASE RtdFault
  BY <1>5, RtdFaultKeeps
<1>6. CASE Mend
  BY <1>6, MendKeeps
<1>7. CASE Reset
  BY <1>7, ResetKeeps
<1>8. CASE UNCHANGED vars
  BY <1>8, StutterKeeps
<1> QED
  BY <1>1, <1>2, <1>3, <1>4, <1>5, <1>6, <1>7, <1>8, Zenon DEF Next

LEMMA InductiveInvariant == Spec => []IInv
<1>1. IInv /\ [Next]_vars => IInv'
  BY StepKeeps
<1> QED
  BY <1>1, InitHolds, PTL DEF Spec

(* sensors_read and send_sensor_frame: no field shows an older cycle, and  *)
(* what is not a measurement has its bit in the word of the same frame.    *)
THEOREM FieldsAreCurrent == Spec => []FieldsAreThisCycles
<1>1. IInv => FieldsAreThisCycles
  BY DEF IInv
<1> QED
  BY <1>1, InductiveInvariant, PTL

(* sensors_read and the frozen-IMU check: a dead sensor has raised a bit.  *)
THEOREM DeadIsReported == Spec => []DeadSensorIsReported
<1>1. IInv => DeadSensorIsReported
  BY DEF IInv
<1> QED
  BY <1>1, InductiveInvariant, PTL

(* The drivers' order of initialisation and the PT100's rewrite: a device  *)
(* that was set up and kept its settings delivers.                         *)
THEOREM AbleDelivers == Spec => []AbleSensorDelivers
<1>1. IInv => AbleSensorDelivers
  BY DEF IInv
<1> QED
  BY <1>1, InductiveInvariant, PTL

-----------------------------------------------------------------------------
(* The whole error word, to which the board is one of several writers.     *)
(* The latched bits of the latest packet are still in the word.            *)
PacketIsOfTheWord == packet \cap Latched \subseteq error_flags

WordInv == WordMirrorsLastKnown /\ PacketIsOfTheWord

(* The bits of the word that mirror the Pi and the cause of the reset.     *)
Mirrors(word, cam, ssd, pre_LO) ==
  /\ "CAM_STATUS" \in word <=> cam \notin {"none", "CAM_OK"}
  /\ "LOW_SSD" \in word <=> ssd < LowSsd
  /\ "LOW_SSD_FOR_FLIGHT" \in word <=> pre_LO /\ ssd < LowSsdForFlight

-----------------------------------------------------------------------------
(* What the constants of the word are. *)
LEMMA BitFacts ==
  /\ Latched \subseteq KnownBits
  /\ {"CAM_STATUS", "LOW_SSD", "LOW_SSD_FOR_FLIGHT"} \subseteq KnownBits \ Latched
  /\ "WATCHDOG_RESET" \in Latched
  /\ ~(Unknown < LowSsd)
  BY SMT DEF Latched, KnownBits, Unknown, LowSsd

(* Raising the bits of the sensors and the health monitor touches none of  *)
(* those, and stays within the word.                                       *)
LEMMA SilentBits ==
  ASSUME NEW s
  PROVE  Silent(s) \subseteq {"PT100", "INT_BME", "EXT_BME", "SLF3S"}
  BY Zenon DEF Silent

LEMMA AlarmBits ==
  ASSUME NEW s, NEW flight
  PROVE  Alarms(s, flight) \subseteq {"THERMAL_FAULT", "FLUIDIC_FAULT", "EXT_BME"}
  BY SMT DEF Alarms

LEMMA Raising ==
  ASSUME NEW word, NEW more,
         more \subseteq {"PT100", "INT_BME", "EXT_BME", "SLF3S",
                         "THERMAL_FAULT", "FLUIDIC_FAULT"}
  PROVE  /\ word \subseteq KnownBits => word \cup more \subseteq KnownBits
         /\ \A b \in {"CAM_STATUS", "LOW_SSD", "LOW_SSD_FOR_FLIGHT", "WATCHDOG_RESET"} :
              b \in word \cup more <=> b \in word
<1>1. more \subseteq KnownBits
  BY SMT DEF KnownBits, Latched
<1>2. \A b \in {"CAM_STATUS", "LOW_SSD", "LOW_SSD_FOR_FLIGHT", "WATCHDOG_RESET"} :
        b \notin more
  BY SMT
<1> QED
  BY <1>1, <1>2, Zenon

(* Mirroring one bit sets or clears that bit and touches no other.         *)
LEMMA Mirroring ==
  ASSUME NEW word, NEW bit \in KnownBits \ Latched, NEW condition \in BOOLEAN
  PROVE  /\ bit \in Mirrored(word, bit, condition) <=> condition
         /\ \A b : b # bit => (b \in Mirrored(word, bit, condition) <=> b \in word)
         /\ word \subseteq KnownBits =>
              Mirrored(word, bit, condition) \subseteq KnownBits
  BY Zenon DEF Mirrored, Cleared

(* error_update_pi_status: the word after a reply.                         *)
LEMMA PiBitsMirror ==
  ASSUME NEW word, NEW reply \in Replies, NEW flag \in BOOLEAN,
         NEW cam, NEW ssd, NEW pre_LO \in BOOLEAN,
         Mirrors(word, cam, ssd, pre_LO), word \subseteq KnownBits
  PROVE  /\ Mirrors(PiBits(word, reply, flag), reply.cam,
                    IF reply.ssd = Unknown THEN ssd ELSE reply.ssd,
                    IF reply.ssd = Unknown THEN pre_LO ELSE flag)
         /\ PiBits(word, reply, flag) \subseteq KnownBits
         /\ \A b \in Latched : b \in PiBits(word, reply, flag) <=> b \in word
<1> DEFINE camera == Mirrored(word, "CAM_STATUS", reply.cam # "CAM_OK")
           low == Mirrored(camera, "LOW_SSD", reply.ssd < LowSsd)
           short == flag /\ reply.ssd < LowSsdForFlight
           flight == Mirrored(low, "LOW_SSD_FOR_FLIGHT", short)
<1>1. /\ reply.cam \in {"CAM_OK", "CAM_ERROR", "CAM_UNKNOWN"}
      /\ (reply.cam # "CAM_OK") \in BOOLEAN
      /\ (reply.ssd < LowSsd) \in BOOLEAN
      /\ (reply.cam # "CAM_OK") <=> reply.cam \notin {"none", "CAM_OK"}
  BY ErrorWordAssumption, SMT DEF Replies, LowSsd
<1>2. /\ {"CAM_STATUS", "LOW_SSD", "LOW_SSD_FOR_FLIGHT"} \subseteq KnownBits \ Latched
      /\ "CAM_STATUS" # "LOW_SSD" /\ "CAM_STATUS" # "LOW_SSD_FOR_FLIGHT"
      /\ "LOW_SSD" # "LOW_SSD_FOR_FLIGHT"
      /\ \A b \in Latched :
           b # "CAM_STATUS" /\ b # "LOW_SSD" /\ b # "LOW_SSD_FOR_FLIGHT"
  BY BitFacts, SMT DEF Latched
<1>3. /\ "CAM_STATUS" \in camera <=> reply.cam # "CAM_OK"
      /\ \A b : b # "CAM_STATUS" => (b \in camera <=> b \in word)
      /\ camera \subseteq KnownBits
  BY <1>1, <1>2, Mirroring, Zenon
<1> HIDE DEF camera
<1>4. /\ "LOW_SSD" \in low <=> reply.ssd < LowSsd
      /\ \A b : b # "LOW_SSD" => (b \in low <=> b \in camera)
      /\ low \subseteq KnownBits
  <2>1. "LOW_SSD" \in KnownBits \ Latched
    BY <1>2, Zenon
  <2>2. (reply.ssd < LowSsd) \in BOOLEAN
    BY <1>1
  <2> QED
    BY <2>1, <2>2, <1>3, Mirroring
<1> HIDE DEF low
<1>5. /\ "LOW_SSD_FOR_FLIGHT" \in flight <=> short
      /\ \A b : b # "LOW_SSD_FOR_FLIGHT" => (b \in flight <=> b \in low)
      /\ flight \subseteq KnownBits
  <2>1. "LOW_SSD_FOR_FLIGHT" \in KnownBits \ Latched
    BY <1>2, Zenon
  <2>2. short \in BOOLEAN
    OBVIOUS
  <2> HIDE DEF short
  <2> QED
    BY <2>1, <2>2, <1>4, Mirroring
<1> USE DEF camera, low
<1>6. PiBits(word, reply, flag) = IF reply.ssd = Unknown THEN camera ELSE flight
  BY Zenon DEF PiBits
<1> HIDE DEF camera, low, flight
<1>7. CASE reply.ssd = Unknown
  BY <1>1, <1>2, <1>3, <1>6, <1>7, Zenon DEF Mirrors
<1>8. CASE reply.ssd # Unknown
  BY <1>1, <1>2, <1>3, <1>4, <1>5, <1>6, <1>8, Zenon DEF Mirrors
<1> QED
  BY <1>7, <1>8

-----------------------------------------------------------------------------
(* The first boot. *)
LEMMA WordInitHolds == WordInit => WordInv
<1> SUFFICES ASSUME WordInit PROVE WordInv
  OBVIOUS
<1>1. WordTypeOK
  <2>1. PacketCycles \in 1 .. PacketCycles /\ 0 \in 0 .. MaxBoots
    BY ErrorWordAssumption, SMT
  <2> QED
    BY <2>1, Zenon DEF WordInit, WordTypeOK
<1> QED
  BY <1>1, BitFacts, SMT
  DEF WordInit, WordInv, WordMirrorsLastKnown, PacketIsOfTheWord

(* A reset, after which nothing is known but its cause. *)
LEMMA RebootKeeps ==
  ASSUME WordInv, NEW reason \in {"watchdog", "other"},
         Reboot(reason)
  PROVE  WordInv' /\ boots' # boots
<1>0. /\ boots' = boots + 1 /\ boots < MaxBoots /\ boots \in 0 .. MaxBoots
      /\ phase' = "read" /\ published' = NothingRead /\ packet' = {}
      /\ sent_before' = PacketCycles /\ reset_reason' = reason
      /\ last_cam' = "none" /\ last_ssd' = Unknown /\ last_pre_LO' = FALSE
      /\ error_flags' = IF reason = "watchdog" THEN {"WATCHDOG_RESET"} ELSE {}
  BY Zenon DEF Reboot, Fresh, WordInv, WordMirrorsLastKnown, WordTypeOK
<1>1. /\ boots' \in 0 .. MaxBoots /\ boots' # boots /\ sent_before' \in 1 .. PacketCycles
  BY <1>0, ErrorWordAssumption, SMT
<1>2. error_flags' \subseteq KnownBits
  BY <1>0, BitFacts, Zenon
<1>3. WordTypeOK'
  <2>1. reset_reason' \in {"power_on", "watchdog", "other"}
    BY <1>0, Zenon
  <2> QED
    BY <1>0, <1>1, <1>2, <2>1, Zenon DEF WordTypeOK
<1>4. WordMirrorsLastKnown'
  BY <1>0, <1>3, BitFacts, SMT DEF WordMirrorsLastKnown
<1> QED
  BY <1>0, <1>1, <1>4, Zenon DEF WordInv, PacketIsOfTheWord

(* sensors_read and health_monitor_update only raise.                      *)
LEMMA RaisingKeeps ==
  ASSUME WordInv, NEW more,
         more \subseteq {"PT100", "INT_BME", "EXT_BME", "SLF3S",
                         "THERMAL_FAULT", "FLUIDIC_FAULT"},
         error_flags' = error_flags \cup more, phase' \in {"judge", "status"},
         published' \in Snapshots \cup {NothingRead},
         UNCHANGED <<packet, sent_before, boots, reset_reason, last_cam, last_ssd,
                     last_pre_LO>>
  PROVE  WordInv'
<1>1. /\ error_flags \subseteq KnownBits => error_flags' \subseteq KnownBits
      /\ \A b \in {"CAM_STATUS", "LOW_SSD", "LOW_SSD_FOR_FLIGHT", "WATCHDOG_RESET"} :
           b \in error_flags' <=> b \in error_flags
  BY Raising, Zenon
<1>2. WordTypeOK'
  BY <1>1, Zenon DEF WordInv, WordMirrorsLastKnown, WordTypeOK
<1> QED
  BY <1>1, <1>2, Zenon DEF WordInv, WordMirrorsLastKnown, PacketIsOfTheWord

(* A reply of the Pi is taken. *)
LEMMA StatusKeeps ==
  ASSUME WordInv, NEW reply \in Replies, TakeStatus(reply)
  PROVE  WordInv' /\ UNCHANGED <<packet, boots>>
<1> DEFINE flag == reply.echo # 0
<1>0. /\ error_flags' = PiBits(error_flags, reply, flag) /\ last_cam' = reply.cam
      /\ last_ssd' = IF reply.ssd = Unknown THEN last_ssd ELSE reply.ssd
      /\ last_pre_LO' = IF reply.ssd = Unknown THEN last_pre_LO ELSE flag
      /\ phase' = "telemetry"
      /\ UNCHANGED <<published, packet, sent_before, boots, reset_reason>>
  BY Zenon DEF TakeStatus
<1>p. last_pre_LO \in BOOLEAN /\ flag \in BOOLEAN
  BY DEF WordInv, WordMirrorsLastKnown, WordTypeOK
<1> HIDE DEF flag
<1>1. /\ Mirrors(error_flags', last_cam', last_ssd', last_pre_LO')
      /\ error_flags' \subseteq KnownBits
      /\ \A b \in Latched : b \in error_flags' <=> b \in error_flags
  <2>1. /\ Mirrors(error_flags, last_cam, last_ssd, last_pre_LO)
        /\ error_flags \subseteq KnownBits
    BY Zenon DEF WordInv, WordMirrorsLastKnown, WordTypeOK, Mirrors
  <2>2. /\ Mirrors(PiBits(error_flags, reply, flag), reply.cam,
                    IF reply.ssd = Unknown THEN last_ssd ELSE reply.ssd,
                    IF reply.ssd = Unknown THEN last_pre_LO ELSE flag)
        /\ PiBits(error_flags, reply, flag) \subseteq KnownBits
        /\ \A b \in Latched : b \in PiBits(error_flags, reply, flag) <=> b \in error_flags
    <3>1. ASSUME NEW g \in BOOLEAN, NEW lo \in BOOLEAN,
                 Mirrors(error_flags, last_cam, last_ssd, lo)
          PROVE  /\ Mirrors(PiBits(error_flags, reply, g), reply.cam,
                            IF reply.ssd = Unknown THEN last_ssd ELSE reply.ssd,
                            IF reply.ssd = Unknown THEN lo ELSE g)
                 /\ PiBits(error_flags, reply, g) \subseteq KnownBits
                 /\ \A b \in Latched : b \in PiBits(error_flags, reply, g) <=> b \in error_flags
      BY <2>1, <3>1, PiBitsMirror
    <3> QED
      BY <1>p, <2>1, <3>1
  <2> QED
    BY <1>0, <2>2, SMT
<1>2. WordTypeOK'
  <2>1. /\ reply.cam \in {"CAM_OK", "CAM_ERROR", "CAM_UNKNOWN"}
        /\ reply.ssd \in StorageReadings
    BY SMT DEF Replies
  <2>2. /\ last_cam' \in {"none", "CAM_OK", "CAM_ERROR", "CAM_UNKNOWN"}
        /\ last_ssd' \in StorageReadings \cup {Unknown}
        /\ last_pre_LO' \in BOOLEAN
    BY <1>0, <1>p, <2>1, Zenon DEF WordInv, WordMirrorsLastKnown, WordTypeOK
  <2> QED
    BY <1>0, <1>1, <2>2, Zenon DEF WordInv, WordMirrorsLastKnown, WordTypeOK
<1> QED
  BY <1>0, <1>1, <1>2, BitFacts, Zenon
  DEF WordInv, WordMirrorsLastKnown, PacketIsOfTheWord, Mirrors

(* The telemetry task, and a cycle without a reply. *)
LEMMA TelemetryKeeps ==
  ASSUME WordInv, TelemetryTask \/ NoStatus
  PROVE  /\ WordInv'
         /\ packet' = packet \/ packet' = error_flags
<1>0. /\ UNCHANGED <<published, error_flags, boots, reset_reason, last_cam, last_ssd,
                     last_pre_LO>>
      /\ phase' \in {"read", "telemetry"}
      /\ packet' = packet \/ packet' = error_flags
      /\ \/ sent_before' = sent_before
         \/ sent_before' = 1
         \/ ~(sent_before >= PacketCycles) /\ sent_before' = sent_before + 1
  BY Zenon DEF TelemetryTask, NoStatus
<1>1. sent_before' \in 1 .. PacketCycles
  BY <1>0, ErrorWordAssumption, SMT DEF WordInv, WordMirrorsLastKnown, WordTypeOK
<1>2. WordTypeOK'
  BY <1>0, <1>1, Zenon DEF WordInv, WordMirrorsLastKnown, WordTypeOK
<1> QED
  BY <1>0, <1>2, Zenon DEF WordInv, WordMirrorsLastKnown, PacketIsOfTheWord

(* Every step keeps the invariant, and within a boot what is latched in    *)
(* one packet is in the next.                                              *)
LEMMA WordStepKeeps ==
  ASSUME WordInv, [WordNext]_wordVars
  PROVE  /\ WordInv'
         /\ boots' = boots => packet \cap Latched \subseteq packet'
<1>1. CASE UNCHANGED wordVars
  <2>1. WordTypeOK'
    BY <1>1, Zenon DEF WordInv, WordMirrorsLastKnown, WordTypeOK, wordVars
  <2> QED
    BY <1>1, <2>1, Zenon
    DEF WordInv, WordMirrorsLastKnown, PacketIsOfTheWord, wordVars
<1>2. ASSUME NEW s \in Snapshots, ReadSensors(s)
      PROVE  WordInv' /\ packet' = packet
  <2>1. Silent(s) \subseteq {"PT100", "INT_BME", "EXT_BME", "SLF3S",
                             "THERMAL_FAULT", "FLUIDIC_FAULT"}
    BY SilentBits, Zenon
  <2>2. /\ error_flags' = error_flags \cup Silent(s) /\ phase' \in {"judge", "status"}
        /\ published' \in Snapshots \cup {NothingRead}
        /\ UNCHANGED <<packet, sent_before, boots, reset_reason, last_cam, last_ssd,
                     last_pre_LO>>
    BY <1>2, Zenon DEF ReadSensors
  <2> QED
    BY <2>1, <2>2, RaisingKeeps
<1>3. ASSUME NEW flight \in BOOLEAN, Judge(flight)
      PROVE  WordInv' /\ packet' = packet
  <2>1. Alarms(published, flight) \subseteq {"PT100", "INT_BME", "EXT_BME", "SLF3S",
                                            "THERMAL_FAULT", "FLUIDIC_FAULT"}
    BY AlarmBits, Zenon
  <2>2. /\ error_flags' = error_flags \cup Alarms(published, flight)
        /\ phase' \in {"judge", "status"}
        /\ published' \in Snapshots \cup {NothingRead}
        /\ UNCHANGED <<packet, sent_before, boots, reset_reason, last_cam, last_ssd,
                     last_pre_LO>>
    BY <1>3, Zenon DEF Judge, WordInv, WordMirrorsLastKnown, WordTypeOK
  <2> QED
    BY <2>1, <2>2, RaisingKeeps
<1>4. ASSUME NEW reply \in Replies, TakeStatus(reply)
      PROVE  WordInv' /\ packet' = packet
  BY <1>4, StatusKeeps
<1>5. CASE NoStatus \/ TelemetryTask
  <2>1. WordInv' /\ (packet' = packet \/ packet' = error_flags)
    BY <1>5, TelemetryKeeps
  <2> QED
    BY <2>1, Zenon DEF WordInv, PacketIsOfTheWord
<1>6. ASSUME NEW reason \in {"watchdog", "other"}, Reboot(reason)
      PROVE  WordInv' /\ boots' # boots
  BY <1>6, RebootKeeps
<1> QED
  BY <1>1, <1>2, <1>3, <1>4, <1>5, <1>6, Zenon DEF WordNext, ControlTask

(* It holds in every reachable state. *)
LEMMA WordInductiveInvariant == WordSpec => []WordInv
<1>1. WordInv /\ [WordNext]_wordVars => WordInv'
  BY WordStepKeeps
<1> QED
  BY <1>1, WordInitHolds, PTL DEF WordSpec

-----------------------------------------------------------------------------
(* error_update_pi_status and error_manager_init: the bits of the Pi, the  *)
(* storage sentinel and the reset cause say what is known.                 *)
THEOREM WordIsTrue == WordSpec => []WordMirrorsLastKnown
<1>1. WordInv => WordMirrorsLastKnown
  BY DEF WordInv
<1> QED
  BY <1>1, WordInductiveInvariant, PTL

(* error_clear refuses the latched bits: the ground never sees one vanish. *)
THEOREM FaultsStayInView == WordSpec => GroundKeepsSeeingFaults
<1>1. WordInv /\ [WordNext]_wordVars =>
        [boots' = boots => packet \cap Latched \subseteq packet']_wordVars
  BY WordStepKeeps
<1> QED
  BY <1>1, WordInductiveInvariant, PTL DEF WordSpec, GroundKeepsSeeingFaults

-----------------------------------------------------------------------------
(* A snapshot of ErrorWord that stands for what the board's drivers made   *)
(* of the answers a: both models are of sensors_read.                      *)
StandsFor(s, a) ==
  /\ s.pt100 = "invalid" <=> "pt100" \notin Good(a)
  /\ s.int_bme = "invalid" <=> "int_bme" \notin Good(a)
  /\ s.ext_bme = "invalid" <=> "ext_bme" \notin Good(a)
  /\ s.slf3s = "invalid" <=> "slf3s" \notin Good(a)
  /\ s.pt100 # "out_of_range"
  /\ s.int_bme \in {"out_of_range", "both"} <=>
       Reading("int_bme", a["int_bme"]) = "clamped"

(* They agree on the bits it and the temperature check raise.              *)
LEMMA BoardAndWordAgree ==
  ASSUME NEW s, NEW a, NEW flight, StandsFor(s, a)
  PROVE  /\ "PT100" \in Silent(s) <=> "pt100" \in Raised(a)
         /\ "INT_BME" \in Silent(s) <=> "int_bme" \in Raised(a)
         /\ "EXT_BME" \in Silent(s) <=> "ext_bme" \in Raised(a)
         /\ "SLF3S" \in Silent(s) <=> "slf3s" \in Raised(a)
         /\ "THERMAL_FAULT" \in Alarms(s, flight) <=> "thermal" \in Raised(a)
<1>1. /\ "PT100" \in Silent(s) <=> s.pt100 = "invalid"
      /\ "INT_BME" \in Silent(s) <=> s.int_bme = "invalid"
      /\ "EXT_BME" \in Silent(s) <=> s.ext_bme = "invalid"
      /\ "SLF3S" \in Silent(s) <=> s.slf3s = "invalid"
  BY SMT DEF Silent
<1>2. \A d \in {"pt100", "int_bme", "ext_bme", "slf3s"} :
        d \in Raised(a) <=> d \notin Good(a)
  BY DeviceFacts, SMT DEF Raised
<1>3. "thermal" \in Raised(a) <=> Reading("int_bme", a["int_bme"]) = "clamped"
  BY DeviceFacts, SMT DEF Raised
<1>4. "THERMAL_FAULT" \in Alarms(s, flight) <=>
        s.pt100 = "out_of_range" \/ s.int_bme \in {"out_of_range", "both"}
  BY SMT DEF Alarms
<1> QED
  BY <1>1, <1>2, <1>3, <1>4, Zenon DEF StandsFor
=============================================================================
