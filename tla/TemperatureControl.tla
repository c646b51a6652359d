------------------------- MODULE TemperatureControl --------------------------
(***************************************************************************)
(* The heater control (main/temperature_control.c): a two-point regulator  *)
(* with a deadband, a ground override that always ends, and a check that   *)
(* heating has an effect.  A Cycle is what one pass of the control loop    *)
(* does with it: temperature_control_update, then at most one HEAT         *)
(* command.                                                                *)
(*                                                                         *)
(* Time is counted in control cycles.  The code keeps instants; this       *)
(* module keeps what it computes from them: the time since heating_since   *)
(* (Untimed stands for its reserved value 0) and the time left of the      *)
(* override.                                                               *)
(***************************************************************************)
EXTENDS Integers

CONSTANTS
  Temperatures,      (* readings of the PT100                              *)
  HeatOnBelow,       (* HEAT_ON_BELOW_RAW                                  *)
  HeatOffAbove,      (* HEAT_OFF_ABOVE_RAW                                 *)
  FaultWindow,       (* HEATER_FAULT_WINDOW_US, in cycles                  *)
  MinRise,           (* HEATER_FAULT_MIN_RISE                              *)
  MaxOverride        (* the longest override accepted, 3600 s, in cycles   *)

ASSUME HeaterAssumption ==
  /\ Temperatures \subseteq Int /\ Temperatures # {}
  /\ HeatOnBelow \in Int /\ HeatOffAbove \in Int /\ HeatOnBelow < HeatOffAbove
  /\ FaultWindow \in Nat \ {0}
  /\ MinRise \in Nat \ {0}
  /\ MaxOverride \in Nat \ {0}

VARIABLES
  heaters_on,
  heating_for,         (* now - heating_since_us, or Untimed               *)
  temp_at_heat_start,
  fault_latched,       (* and with it ERR_BIT_HEATER_FAULT                 *)
  override_active, override_state,
  override_left,       (* override_until_us - now at the latest update     *)
  (* histories, read by no action's guard *)
  readings,            (* readings[i]: the i-th latest temperature         *)
  valid,               (* the latest reading could be trusted              *)
  renewed,             (* the latest cycle accepted a HEAT command         *)
  auto_on,             (* latest cycles the regulator kept the heaters on  *)
  flat_for             (* ... in which the reading did not move            *)

heaterVars   == <<heaters_on, heating_for, temp_at_heat_start, fault_latched>>
overrideVars == <<override_active, override_state, override_left>>
historyVars  == <<readings, valid, renewed, auto_on, flat_for>>
vars == <<heaterVars, overrideVars, historyVars>>

Untimed == -1

(* HEAT commands as they leave the uplink parser, and one that does not.   *)
NoHeat == [on |-> FALSE, duration |-> 0]
HeatCommands == [on : BOOLEAN, duration : 0 .. MaxOverride + 1]

(* How far the histories look back. *)
Recall    == FaultWindow + 2
FlatLimit == 2 * FaultWindow + 1
Capped(n, limit) == IF n < limit THEN n ELSE limit

-----------------------------------------------------------------------------
(* temperature_control_init, and no reading yet. *)
Init ==
  /\ heaters_on = FALSE
  /\ heating_for = Untimed
  /\ temp_at_heat_start = 0
  /\ fault_latched = FALSE
  /\ override_active = FALSE /\ override_state = FALSE /\ override_left = 0
  /\ \E t \in Temperatures : readings = [i \in 1 .. Recall |-> t]
  /\ valid = FALSE
  /\ renewed = FALSE
  /\ auto_on = 0
  /\ flat_for = 0

(* The override has not expired at this update. *)
InForce == override_active /\ override_left > 1

(* A slip: the override is honoured before the reading is looked at. *)
UpdateBlindUnlessOverridden(ok) ==
  /\ ~ok
  /\ heaters_on' = (InForce /\ override_state)
  /\ heating_for' = Untimed
  /\ UNCHANGED <<temp_at_heat_start, fault_latched>>

(* "Safety outranks the override": no heating on an invalid reading. *)
UpdateBlind(ok) ==
  /\ ~ok
  /\ heaters_on' = FALSE
  /\ heating_for' = Untimed
  /\ UNCHANGED <<temp_at_heat_start, fault_latched>>

UpdateOverridden(ok) ==
  /\ ok /\ InForce
  /\ heaters_on' = override_state
  /\ heating_for' = Untimed
  /\ UNCHANGED <<temp_at_heat_start, fault_latched>>

(* Slips: the timer is not cleared when the heaters go off; the window is  *)
(* not restarted from the current temperature.                             *)
UpdateAutomaticKeepingTimer(t, ok) ==
  LET starts  == t < HeatOnBelow /\ ~heaters_on
      on      == t < HeatOnBelow \/ (t <= HeatOffAbove /\ heaters_on)
      elapsed == IF heating_for = Untimed
                 THEN (IF starts THEN 0 ELSE Untimed)
                 ELSE Capped(heating_for + 1, FaultWindow + 1)
      due     == on /\ elapsed > FaultWindow
  IN /\ ok /\ ~InForce
     /\ heaters_on' = on
     /\ heating_for' = IF due THEN 0 ELSE elapsed
     /\ temp_at_heat_start' = IF due \/ starts THEN t ELSE temp_at_heat_start
     /\ fault_latched' = (fault_latched
                            \/ (due /\ t - temp_at_heat_start < MinRise))

UpdateAutomaticFromFirstStart(t, ok) ==
  LET starts  == t < HeatOnBelow /\ ~heaters_on
      on      == t < HeatOnBelow \/ (t <= HeatOffAbove /\ heaters_on)
      elapsed == IF starts THEN 0
                 ELSE IF t > HeatOffAbove \/ heating_for = Untimed THEN Untimed
                 ELSE heating_for + 1
      start   == IF starts THEN t ELSE temp_at_heat_start
      due     == on /\ elapsed > FaultWindow
  IN /\ ok /\ ~InForce
     /\ heaters_on' = on
     /\ heating_for' = IF due THEN 0 ELSE elapsed
     /\ temp_at_heat_start' = start
     /\ fault_latched' = (fault_latched \/ (due /\ t - start < MinRise))

(* The regulator: heat below the band, stop above it, hold inside it.      *)
(* Then the effectiveness check, which restarts its window either way.     *)
UpdateAutomatic(t, ok) ==
  LET starts  == t < HeatOnBelow /\ ~heaters_on
      on      == t < HeatOnBelow \/ (t <= HeatOffAbove /\ heaters_on)
      elapsed == IF starts THEN 0
                 ELSE IF t > HeatOffAbove \/ heating_for = Untimed THEN Untimed
                 ELSE heating_for + 1
      start   == IF starts THEN t ELSE temp_at_heat_start
      due     == on /\ elapsed > FaultWindow
  IN /\ ok /\ ~InForce
     /\ heaters_on' = on
     /\ heating_for' = IF due THEN 0 ELSE elapsed
     /\ temp_at_heat_start' = IF due THEN t ELSE start
     /\ fault_latched' = (fault_latched \/ (due /\ t - start < MinRise))

(* A slip: a duration of zero stands for "until further notice". *)
TakeHeatOpenEnded(heat) ==
  IF heat # NoHeat /\ heat.duration <= MaxOverride
  THEN /\ override_active' = TRUE
       /\ override_state' = heat.on
       /\ override_left' = IF heat.duration = 0 THEN 9 * MaxOverride
                                                ELSE heat.duration
  ELSE /\ override_active' = (override_active /\ override_left # 1)
       /\ override_left' = IF override_left \in 1 .. MaxOverride
                           THEN override_left - 1 ELSE override_left
       /\ UNCHANGED override_state

(* temperature_control_override when the loop has taken a HEAT command;    *)
(* otherwise the override runs on, or its expiry at this update stands.    *)
TakeHeat(heat) ==
  IF heat.duration \in 1 .. MaxOverride
  THEN /\ override_active' = TRUE
       /\ override_state' = heat.on
       /\ override_left' = heat.duration
  ELSE /\ override_active' = InForce
       /\ override_left' = IF InForce THEN override_left - 1 ELSE 0
       /\ UNCHANGED override_state

(* What the cycle leaves in the histories. *)
Remember(t, ok, heat) ==
  LET auto == ok /\ ~InForce /\ heaters_on'
  IN /\ readings' = [i \in 1 .. Recall |-> IF i = 1 THEN t ELSE readings[i - 1]]
     /\ valid' = ok
     /\ renewed' = (heat.duration \in 1 .. MaxOverride)
     /\ auto_on' = IF auto THEN Capped(auto_on + 1, Recall) ELSE 0
     /\ flat_for' = IF auto /\ auto_on > 0 /\ t = readings[1]
                    THEN Capped(flat_for + 1, FlatLimit) ELSE 0

Cycle(t, ok, heat) ==
  /\ \/ UpdateBlind(ok)
     \/ UpdateOverridden(ok)
     \/ UpdateAutomatic(t, ok)
  /\ TakeHeat(heat)
  /\ Remember(t, ok, heat)

Next == \E t \in Temperatures, ok \in BOOLEAN, heat \in HeatCommands :
          Cycle(t, ok, heat)

(* The control loop never stops. *)
Spec == Init /\ [][Next]_vars /\ WF_vars(Next)

-----------------------------------------------------------------------------
TypeOK ==
  /\ heaters_on \in BOOLEAN
  /\ heating_for \in Untimed .. FaultWindow
  /\ temp_at_heat_start \in Int
  /\ fault_latched \in BOOLEAN
  /\ override_active \in BOOLEAN /\ override_state \in BOOLEAN
  /\ override_left \in 0 .. MaxOverride
  /\ readings \in [1 .. Recall -> Temperatures]
  /\ valid \in BOOLEAN /\ renewed \in BOOLEAN
  /\ auto_on \in 0 .. Recall
  /\ flat_for \in 0 .. FlatLimit

(* The heaters are never on without a trusted reading in the same cycle,   *)
(* whoever asked for heat and however the requests and dropouts interleave *)
(* ("heating blind is the one failure that cooks the biology").            *)
HeatIsNeverBlind ==
  /\ TypeOK
  /\ heaters_on => valid

(* HEATER_FAULT accuses the heaters only when the regulator itself kept    *)
(* them on for more than the whole window and the reading rose by less     *)
(* than MinRise from one end of it to the other: no override, dropout or   *)
(* pause is ever counted in.                                               *)
FaultIsDeserved ==
  [][~fault_latched /\ fault_latched' =>
       /\ auto_on' >= FaultWindow + 2
       /\ readings'[1] - readings'[FaultWindow + 2] < MinRise]_vars

(* A heating phase that the regulator started and that has no effect does  *)
(* not stay unreported: within two windows of a reading that does not move *)
(* the fault is latched, wherever the window boundaries fall.              *)
DeadHeaterIsReported ==
  heating_for # Untimed /\ flat_for >= 2 * FaultWindow + 1 => fault_latched

(* The regulator gets the heaters back: once HEAT commands stop, a chamber *)
(* that stays too hot is not heated and one that stays too cold is.        *)
RegulatorReturns ==
  /\ <>[](readings[1] > HeatOffAbove /\ ~renewed) => <>[]~heaters_on
  /\ <>[](readings[1] < HeatOnBelow /\ valid /\ ~renewed) => <>[]heaters_on
=============================================================================
