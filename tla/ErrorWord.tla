----------------------------- MODULE ErrorWord -------------------------------
(***************************************************************************)
(* The 32-bit error word (main/error_manager.c) and those who write it in  *)
(* every control cycle: the sensor reading (main/sensors.c), the range     *)
(* checks of the health monitor (main/health_monitor.c) and the Pi's       *)
(* STATUS replies; and the telemetry task (main/telemetry.c), which sends  *)
(* it to the ground once a second.                                         *)
(*                                                                         *)
(* The bits raised by the mode logic, the heaters and the frozen-IMU check *)
(* belong to FlightControl, TemperatureControl and SensorBoard.  A reading *)
(* is the class its checks put it in.                                      *)
(***************************************************************************)
EXTENDS Naturals

CONSTANTS
  Sensors,           (* the sensors that can misbehave; others read "ok"   *)
  StorageReadings,   (* values of ssd_free_gb, one byte                    *)
  PacketCycles,      (* control cycles from one packet to the next         *)
  MaxBoots           (* bound: boots after the first                       *)

ASSUME ErrorWordAssumption ==
  /\ Sensors \subseteq {"pt100", "int_bme", "ext_bme", "slf3s"}
  /\ StorageReadings \subseteq 0 .. 255
  /\ PacketCycles \in Nat \ {0}
  /\ MaxBoots \in Nat

VARIABLES
  phase,             (* the next step of the control cycle                 *)
  published,         (* the snapshot of sensors.c                          *)
  error_flags,       (* the bits set in it                                 *)
  packet,            (* status_error_flag of this boot's latest packet     *)
  sent_before,       (* cycles since the last packet, last_sent_us         *)
  boots,
  (* histories *)
  reset_reason,
  last_cam,          (* camera status in the latest reply of this boot     *)
  last_ssd,          (* the latest known storage reading of this boot      *)
  last_pre_LO        (* ... and the pre_LO that came with it               *)

wordVars == <<phase, published, error_flags, packet, sent_before, boots,
              reset_reason, last_cam, last_ssd, last_pre_LO>>

(* What each sensor says: no answer, in range, or the range violations the *)
(* health monitor distinguishes.                                           *)
Classes == [pt100   |-> {"invalid", "ok", "out_of_range"},
            int_bme |-> {"invalid", "ok", "out_of_range", "breach", "both"},
            ext_bme |-> {"invalid", "ok", "breach"},
            slf3s   |-> {"invalid", "ok", "air_in_line"}]
Reports(sensor) == IF sensor \in Sensors THEN Classes[sensor] ELSE {"ok"}

Snapshots == [pt100 : Reports("pt100"), int_bme : Reports("int_bme"),
              ext_bme : Reports("ext_bme"), slf3s : Reports("slf3s")]

(* published.valid = 0: no sensor has been read yet. *)
NothingRead == [pt100 |-> "invalid", int_bme |-> "invalid",
                ext_bme |-> "invalid", slf3s |-> "invalid"]

Latched == {"PT100", "INT_BME", "EXT_BME", "SLF3S", "FLUIDIC_FAULT",
            "WATCHDOG_RESET"}
KnownBits == Latched \cup {"CAM_STATUS", "LOW_SSD", "LOW_SSD_FOR_FLIGHT",
                           "THERMAL_FAULT"}

(* STATUS replies: the camera's word, gigabytes free around the two        *)
(* thresholds, 255 standing for "no reading", and byte 2, which the Pi     *)
(* fills with the sequence number of the last command it accepted.         *)
LowSsd == 20
LowSsdForFlight == 100
Unknown == 255
Replies == [cam : {"CAM_OK", "CAM_ERROR", "CAM_UNKNOWN"},
            ssd : StorageReadings, echo : {0, 1}]

(* error_clear refuses the latched bits.                                   *)
Cleared(word, bit) == IF bit \in Latched THEN word ELSE word \ {bit}
Mirrored(word, bit, condition) ==
  IF condition THEN word \cup {bit} ELSE Cleared(word, bit)

-----------------------------------------------------------------------------
(* error_manager_init with the cause of the reset, and the statics of the  *)
(* others.                                                                 *)
Fresh(reason) ==
  /\ error_flags' = IF reason = "watchdog" THEN {"WATCHDOG_RESET"} ELSE {}
  /\ phase' = "read"
  /\ published' = NothingRead
  /\ packet' = {}
  /\ sent_before' = PacketCycles
  /\ reset_reason' = reason
  /\ last_cam' = "none" /\ last_ssd' = Unknown /\ last_pre_LO' = FALSE

WordInit ==
  /\ error_flags = {}
  /\ phase = "read"
  /\ published = NothingRead
  /\ packet = {}
  /\ sent_before = PacketCycles
  /\ boots = 0
  /\ reset_reason = "power_on"
  /\ last_cam = "none" /\ last_ssd = Unknown /\ last_pre_LO = FALSE

Reboot(reason) ==
  /\ boots < MaxBoots
  /\ boots' = boots + 1
  /\ Fresh(reason)

(* sensors_read: a sensor that does not answer raises its bit. *)
Silent(s) ==
  {bit \in {"PT100", "INT_BME", "EXT_BME", "SLF3S"} :
     \/ bit = "PT100" /\ s.pt100 = "invalid"
     \/ bit = "INT_BME" /\ s.int_bme = "invalid"
     \/ bit = "EXT_BME" /\ s.ext_bme = "invalid"
     \/ bit = "SLF3S" /\ s.slf3s = "invalid"}

ReadSensors(s) ==
  /\ phase = "read"
  /\ published' = s
  /\ error_flags' = error_flags \cup Silent(s)
  /\ phase' = "judge"
  /\ UNCHANGED <<packet, sent_before, boots, reset_reason, last_cam, last_ssd,
                 last_pre_LO>>

(* health_monitor_update: what the checks make of the valid readings.      *)
Alarms(s, flight) ==
  (IF s.pt100 = "out_of_range" \/ s.int_bme \in {"out_of_range", "both"}
   THEN {"THERMAL_FAULT"} ELSE {})
    \cup (IF s.int_bme \in {"breach", "both"} \/ s.slf3s = "air_in_line"
          THEN {"FLUIDIC_FAULT"} ELSE {})
    \cup (IF s.ext_bme = "breach" /\ ~flight THEN {"EXT_BME"} ELSE {})

(* A slip: every verdict is renewed in each cycle, FLUIDIC_FAULT with the  *)
(* others.                                                                 *)
JudgeAfresh(flight) ==
  /\ phase = "judge"
  /\ error_flags' = (error_flags \ {"THERMAL_FAULT", "FLUIDIC_FAULT"})
                 \cup Alarms(published, flight)
  /\ phase' = "status"
  /\ UNCHANGED <<published, packet, sent_before, boots, reset_reason, last_cam,
                 last_ssd, last_pre_LO>>

Judge(flight) ==
  /\ phase = "judge"
  /\ error_flags' = error_flags \cup Alarms(published, flight)
  /\ phase' = "status"
  /\ UNCHANGED <<published, packet, sent_before, boots, reset_reason, last_cam,
                 last_ssd, last_pre_LO>>

(* A slip: the sentinel is compared like a reading. *)
PiBitsNoSentinel(word, reply, pre_LO) ==
  Mirrored(Mirrored(Mirrored(word, "CAM_STATUS", reply.cam # "CAM_OK"),
                    "LOW_SSD", reply.ssd < LowSsd),
           "LOW_SSD_FOR_FLIGHT", pre_LO /\ reply.ssd < LowSsdForFlight)

(* error_update_pi_status: the camera bit first, then the storage bits     *)
(* unless the reading is unknown.                                          *)
PiBits(word, reply, pre_LO) ==
  LET camera == Mirrored(word, "CAM_STATUS", reply.cam # "CAM_OK")
      low    == Mirrored(camera, "LOW_SSD", reply.ssd < LowSsd)
  IN IF reply.ssd = Unknown THEN camera
     ELSE Mirrored(low, "LOW_SSD_FOR_FLIGHT",
                   pre_LO /\ reply.ssd < LowSsdForFlight)

(* The loop takes a STATUS reply if one has arrived, and takes a byte 2    *)
(* that is not 0, the echo of a command, for "before lift-off".            *)
TakeStatus(reply) ==
  /\ phase = "status"
  /\ error_flags' = PiBits(error_flags, reply, reply.echo # 0)
  /\ last_cam' = reply.cam
  /\ IF reply.ssd = Unknown THEN UNCHANGED <<last_ssd, last_pre_LO>>
     ELSE last_ssd' = reply.ssd /\ last_pre_LO' = (reply.echo # 0)
  /\ phase' = "telemetry"
  /\ UNCHANGED <<published, packet, sent_before, boots, reset_reason>>

NoStatus ==
  /\ phase = "status"
  /\ phase' = "telemetry"
  /\ UNCHANGED <<published, error_flags, packet, sent_before, boots, reset_reason,
                 last_cam, last_ssd, last_pre_LO>>

(* A slip: the time of the last call, not of the last packet, is kept. *)
TelemetryTaskRestartsTimer ==
  /\ phase = "telemetry"
  /\ IF sent_before >= PacketCycles
     THEN packet' = error_flags /\ sent_before' = 1
     ELSE sent_before' = 1 /\ UNCHANGED packet
  /\ phase' = "read"
  /\ UNCHANGED <<published, error_flags, boots, reset_reason, last_cam, last_ssd,
                 last_pre_LO>>

(* telemetry_task, rate-limited by itself. *)
TelemetryTask ==
  /\ phase = "telemetry"
  /\ IF sent_before >= PacketCycles
     THEN packet' = error_flags /\ sent_before' = 1
     ELSE sent_before' = sent_before + 1 /\ UNCHANGED packet
  /\ phase' = "read"
  /\ UNCHANGED <<published, error_flags, boots, reset_reason, last_cam, last_ssd,
                 last_pre_LO>>

ControlTask ==
  \/ \E s \in Snapshots : ReadSensors(s)
  \/ \E flight \in BOOLEAN : Judge(flight)
  \/ \E reply \in Replies : TakeStatus(reply)
  \/ NoStatus
  \/ TelemetryTask

WordNext == ControlTask \/ \E reason \in {"watchdog", "other"} : Reboot(reason)

WordSpec == WordInit /\ [][WordNext]_wordVars /\ WF_wordVars(ControlTask)

-----------------------------------------------------------------------------
(* The word holds only bits this firmware knows, and the packet timer never *)
(* runs past the period (error_manager.c, telemetry.c).                    *)
WordTypeOK ==
  /\ phase \in {"read", "judge", "status", "telemetry"}
  /\ published \in Snapshots \cup {NothingRead}
  /\ error_flags \subseteq KnownBits /\ packet \subseteq KnownBits
  /\ sent_before \in 1 .. PacketCycles
  /\ boots \in 0 .. MaxBoots
  /\ reset_reason \in {"power_on", "watchdog", "other"}
  /\ last_cam \in {"none", "CAM_OK", "CAM_ERROR", "CAM_UNKNOWN"}
  /\ last_ssd \in StorageReadings \cup {Unknown}
  /\ last_pre_LO \in BOOLEAN

(* The word mirrors the latest thing known.  The Pi's bits: through missed *)
(* replies and replies whose storage reading is unknown, which neither     *)
(* clears a low-storage warning nor hides a camera fault, nor takes back   *)
(* what the reply before said of the flight.  What it says of the flight   *)
(* is whether the Pi has accepted a command: without one, the warning of   *)
(* too little storage for a flight is not given, and lift-off does not     *)
(* clear it.  The reset cause: the one fact that survives a reboot.        *)
WordMirrorsLastKnown ==
  /\ WordTypeOK
  /\ "CAM_STATUS" \in error_flags <=> last_cam \notin {"none", "CAM_OK"}
  /\ "LOW_SSD" \in error_flags <=> last_ssd < LowSsd
  /\ "LOW_SSD_FOR_FLIGHT" \in error_flags <=>
       last_pre_LO /\ last_ssd < LowSsdForFlight
  /\ "WATCHDOG_RESET" \in error_flags <=> reset_reason = "watchdog"

(* A latched fault, once sent to the ground, is in every later packet of   *)
(* the same boot, whatever the readings and replies do afterwards.         *)
GroundKeepsSeeingFaults ==
  [][boots' = boots => packet \cap Latched \subseteq packet']_wordVars

(* A latched fault reaches the ground. *)
FaultReachesGround ==
  \A bit \in Latched : <>[](bit \in error_flags) => <>[](bit \in packet)
=============================================================================
