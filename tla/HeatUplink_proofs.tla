------------------------- MODULE HeatUplink_proofs -------------------------
(***************************************************************************)
(* Theorems about TemperatureControl, for every band, fault window,        *)
(* minimum rise and longest override, and any readings; and about          *)
(* UplinkParser, through which the ground asks for heat, for every stream  *)
(* of bytes, checksum and size of a payload.                               *)
(***************************************************************************)
EXTENDS TemperatureControl, UplinkParser, SequenceTheorems, TLAPS

(* Whatever the heaters are on for, the reading is trusted. *)
HeatIsSighted == heaters_on => valid

(* A running timer counts cycles of the regulator, and the temperature     *)
(* kept with it is the reading of the cycle in which it began.             *)
TimerIsTheRegulators ==
  /\ auto_on > 0 => heaters_on
  /\ heating_for # Untimed =>
       /\ heaters_on
       /\ auto_on > heating_for
       /\ temp_at_heat_start = readings[heating_for + 1]

(* The readings of the flat cycles, as far as they are remembered.         *)
FlatMeansEqual ==
  \A i \in 1 .. Recall : i <= flat_for + 1 => readings[i] = readings[1]

(* A flat stretch no fault was raised over began after the window before   *)
(* the running one.                                                        *)
FlatIsYoung ==
  heating_for # Untimed /\ ~fault_latched => flat_for <= FaultWindow + heating_for

IInv == TypeOK /\ HeatIsSighted /\ TimerIsTheRegulators /\ FlatMeansEqual
               /\ FlatIsYoung

-----------------------------------------------------------------------------
(* The boot: no timer runs, and the readings are equal.                    *)
LEMMA InitHolds == Init => IInv
<1> SUFFICES ASSUME Init PROVE IInv
  OBVIOUS
<1> USE HeaterAssumption
<1>1. PICK t \in Temperatures : readings = [i \in 1 .. Recall |-> t]
  BY Zenon DEF Init
<1>2. readings \in [1 .. Recall -> Temperatures]
  BY <1>1, Zenon
<1>3. TypeOK
  <2>1. /\ -1 \in -1 .. FaultWindow /\ 0 \in Int
        /\ 0 \in 0 .. MaxOverride /\ 0 \in 0 .. FaultWindow + 2
        /\ 0 \in 0 .. 2 * FaultWindow + 1
    BY SMT
  <2> QED
    BY <1>2, <2>1, Zenon DEF Init, TypeOK, Untimed, Recall, FlatLimit
<1>4. HeatIsSighted /\ TimerIsTheRegulators /\ FlatIsYoung
  BY SMT DEF Init, HeatIsSighted, TimerIsTheRegulators, FlatIsYoung, Untimed
<1>5. FlatMeansEqual
  BY <1>1, SMT DEF FlatMeansEqual, Recall
<1> QED
  BY <1>3, <1>4, <1>5 DEF IInv

(* Arithmetic of the histories, apart from the state.                      *)
LEMMA Places ==
  ASSUME NEW w \in Nat, NEW f \in Int, NEW g \in Int, g <= f + 1
  PROVE  /\ \A i \in 1 .. w + 2 :
              i # 1 /\ i <= g + 1 =>
                /\ i - 1 \in 1 .. w + 2 /\ i - 1 \in 1 .. w + 1
                /\ (i - 1) + 1 = i /\ g > 0 /\ i - 1 <= f + 1
         /\ ~(g <= w + 0) => w + 2 <= g + 1
  BY SMT

(* What is remembered after a cycle. *)
LEMMA Remembered ==
  ASSUME IInv, NEW t \in Temperatures, NEW ok \in BOOLEAN, NEW heat \in HeatCommands,
         Remember(t, ok, heat), heaters_on' \in BOOLEAN
  PROVE  /\ readings' \in [1 .. Recall -> Temperatures]
         /\ readings'[1] = t
         /\ \A i \in 1 .. FaultWindow + 1 : readings'[i + 1] = readings[i]
         /\ valid' = ok
         /\ renewed' \in BOOLEAN
         /\ auto_on' \in 0 .. Recall
         /\ flat_for' \in 0 .. FlatLimit
         /\ flat_for' <= flat_for + 1
         /\ flat_for' > 0 => auto_on > 0 /\ t = readings[1]
         /\ auto_on' > 0 => heaters_on' /\ ok /\ ~InForce
         /\ ok /\ ~InForce /\ heaters_on' =>
              auto_on' = IF auto_on < Recall THEN auto_on + 1 ELSE Recall
         /\ FlatMeansEqual'
<1> USE HeaterAssumption
<1>t. /\ readings \in [1 .. Recall -> Temperatures]
      /\ auto_on \in 0 .. Recall /\ flat_for \in 0 .. FlatLimit
      /\ Recall = FaultWindow + 2 /\ FaultWindow \in Nat \ {0}
      /\ FlatLimit = 2 * FaultWindow + 1
  BY Zenon DEF IInv, TypeOK, Recall, FlatLimit
<1>1. readings' = [i \in 1 .. Recall |-> IF i = 1 THEN t ELSE readings[i - 1]]
  BY Zenon DEF Remember
<1>2. \A i \in 1 .. Recall :
        i \in 1 .. Recall /\ (i = 1 \/ i - 1 \in 1 .. Recall)
  BY <1>t, SMT
<1>3. /\ 1 \in 1 .. Recall
      /\ \A i \in 1 .. FaultWindow + 1 :
           (i + 1 \in 1 .. Recall /\ i + 1 # 1 /\ (i + 1) - 1 = i)
  BY <1>t, SMT
<1>4. readings' \in [1 .. Recall -> Temperatures]
  <2>1. ASSUME NEW i \in 1 .. Recall
        PROVE  (IF i = 1 THEN t ELSE readings[i - 1]) \in Temperatures
    BY <1>t, <1>2, Zenon
  <2> QED
    BY <1>1, <2>1, Zenon
<1>5. /\ readings'[1] = t
      /\ \A i \in 1 .. FaultWindow + 1 : readings'[i + 1] = readings[i]
  BY <1>1, <1>3, Zenon
<1>6. /\ valid' = ok
      /\ renewed' \in BOOLEAN
  <2>1. (heat.duration \in 1 .. MaxOverride) \in BOOLEAN
    BY SMT
  <2> QED
    BY <2>1, Zenon DEF Remember
<1>7. /\ auto_on' = IF ok /\ ~InForce /\ heaters_on'
                    THEN Capped(auto_on + 1, Recall) ELSE 0
      /\ flat_for' = IF (ok /\ ~InForce /\ heaters_on') /\ auto_on > 0 /\ t = readings[1]
                     THEN Capped(flat_for + 1, FlatLimit) ELSE 0
  BY Zenon DEF Remember
<1>8. /\ auto_on' \in 0 .. Recall
      /\ auto_on' > 0 => heaters_on' /\ ok /\ ~InForce
      /\ ok /\ ~InForce /\ heaters_on' =>
           auto_on' = IF auto_on < Recall THEN auto_on + 1 ELSE Recall
  BY <1>t, <1>7, SMT DEF Capped
<1>9. /\ flat_for' \in 0 .. FlatLimit
      /\ flat_for' <= flat_for + 1
      /\ flat_for' > 0 => auto_on > 0 /\ t = readings[1]
  BY <1>t, <1>7, SMT DEF Capped
<1>10. FlatMeansEqual'
  <2> SUFFICES ASSUME NEW i \in 1 .. Recall, i <= flat_for' + 1
               PROVE  readings'[i] = readings'[1]
    BY DEF FlatMeansEqual, Recall
  <2>1. CASE i = 1
    BY <2>1
  <2>2. CASE i # 1
    <3>1. /\ i - 1 \in 1 .. Recall /\ i - 1 \in 1 .. FaultWindow + 1
          /\ (i - 1) + 1 = i /\ flat_for' > 0 /\ i - 1 <= flat_for + 1
      <4>1. /\ i \in 1 .. FaultWindow + 2 /\ flat_for' \in Int /\ flat_for \in Int
            /\ i <= flat_for' + 1 /\ flat_for' <= flat_for + 1
            /\ Recall = FaultWindow + 2 /\ FaultWindow \in Nat
        <5>1. flat_for' \in Int /\ flat_for \in Int
          BY <1>t, <1>9, SMT
        <5> QED
          BY <1>t, <1>9, <5>1, Zenon
      <4>2. /\ i - 1 \in 1 .. FaultWindow + 2 /\ i - 1 \in 1 .. FaultWindow + 1
            /\ (i - 1) + 1 = i /\ flat_for' > 0 /\ i - 1 <= flat_for + 1
        BY <2>2, <4>1, Places, Zenon
      <4> QED
        BY <4>1, <4>2
    <3>2. readings'[i] = readings[i - 1]
      BY <1>5, <3>1, Zenon
    <3>3. readings[i - 1] = readings[1]
      BY <3>1, Zenon DEF IInv, FlatMeansEqual
    <3> QED
      BY <1>5, <1>9, <3>1, <3>2, <3>3, Zenon
  <2> QED
    BY <2>1, <2>2
<1> QED
  BY <1>4, <1>5, <1>6, <1>8, <1>9, <1>10

(* The override keeps its types. *)
LEMMA OverrideTyped ==
  ASSUME IInv, NEW heat \in HeatCommands, TakeHeat(heat)
  PROVE  /\ override_active' \in BOOLEAN /\ override_state' \in BOOLEAN
         /\ override_left' \in 0 .. MaxOverride
<1> USE HeaterAssumption
<1>t. /\ override_active \in BOOLEAN /\ override_state \in BOOLEAN
      /\ override_left \in 0 .. MaxOverride
  BY Zenon DEF IInv, TypeOK
<1>1. CASE heat.duration \in 1 .. MaxOverride
  <2>1. heat.on \in BOOLEAN
    BY Zenon DEF HeatCommands
  <2>2. heat.duration \in 0 .. MaxOverride
    BY <1>1, SMT
  <2> QED
    BY <1>1, <2>1, <2>2, Zenon DEF TakeHeat
<1>2. CASE ~(heat.duration \in 1 .. MaxOverride)
  <2>1. /\ override_active' = InForce
        /\ override_left' = IF InForce THEN override_left - 1 ELSE 0
        /\ override_state' = override_state
    BY <1>2, Zenon DEF TakeHeat
  <2>2. InForce \in BOOLEAN
    BY <1>t, SMT DEF InForce
  <2>3. InForce => override_left > 1
    BY Zenon DEF InForce
  <2>4. override_left' \in 0 .. MaxOverride
    BY <1>t, <2>1, <2>3, SMT
  <2> QED
    BY <1>t, <2>1, <2>2, <2>4, Zenon
<1> QED
  BY <1>1, <1>2

(* A cycle that is not the regulator's stops the timer. *)
LEMMA UntimedKeeps ==
  ASSUME IInv, NEW t \in Temperatures, NEW ok \in BOOLEAN, NEW heat \in HeatCommands,
         UpdateBlind(ok) \/ UpdateOverridden(ok), TakeHeat(heat), Remember(t, ok, heat)
  PROVE  IInv' /\ fault_latched' = fault_latched
<1> USE HeaterAssumption
<1>t. /\ temp_at_heat_start \in Int /\ fault_latched \in BOOLEAN
      /\ override_state \in BOOLEAN /\ FaultWindow \in Nat
  BY Zenon DEF IInv, TypeOK
<1>1. /\ heating_for' = Untimed
      /\ temp_at_heat_start' = temp_at_heat_start /\ fault_latched' = fault_latched
      /\ heaters_on' \in BOOLEAN
      /\ heaters_on' => ok
  BY <1>t, Zenon DEF UpdateBlind, UpdateOverridden
<1>2. TypeOK'
  <2>1. heating_for' \in Untimed .. FaultWindow
    BY <1>t, <1>1, SMT DEF Untimed
  <2> QED
    BY <1>t, <1>1, <2>1, Remembered, OverrideTyped, Zenon DEF TypeOK, Recall, FlatLimit, Untimed
<1>3. HeatIsSighted' /\ FlatMeansEqual'
  BY <1>1, Remembered, Zenon DEF HeatIsSighted
<1>4. TimerIsTheRegulators' /\ FlatIsYoung'
  BY <1>1, Remembered, Zenon DEF TimerIsTheRegulators, FlatIsYoung, Untimed
<1> QED
  BY <1>1, <1>2, <1>3, <1>4 DEF IInv

(* The regulator: what its timer, and a fault it raises, stand for.        *)
LEMMA AutomaticKeeps ==
  ASSUME IInv, NEW t \in Temperatures, NEW ok \in BOOLEAN, NEW heat \in HeatCommands,
         UpdateAutomatic(t, ok), TakeHeat(heat), Remember(t, ok, heat)
  PROVE  /\ IInv'
         /\ ~fault_latched /\ fault_latched' =>
              /\ auto_on' >= FaultWindow + 2
              /\ readings'[1] - readings'[FaultWindow + 2] < MinRise
<1> USE HeaterAssumption
<1> DEFINE starts  == t < HeatOnBelow /\ ~heaters_on
           on      == t < HeatOnBelow \/ (t <= HeatOffAbove /\ heaters_on)
           elapsed == IF starts THEN 0
                      ELSE IF t > HeatOffAbove \/ heating_for = Untimed THEN Untimed
                      ELSE heating_for + 1
           start   == IF starts THEN t ELSE temp_at_heat_start
           due     == on /\ elapsed > FaultWindow
<1>t. /\ heaters_on \in BOOLEAN /\ fault_latched \in BOOLEAN
      /\ heating_for \in -1 .. FaultWindow
      /\ temp_at_heat_start \in Int /\ auto_on \in 0 .. Recall
      /\ flat_for \in 0 .. FlatLimit
      /\ t \in Int /\ FaultWindow \in Nat \ {0} /\ MinRise \in Nat \ {0}
      /\ HeatOnBelow \in Int /\ HeatOffAbove \in Int /\ HeatOnBelow < HeatOffAbove
      /\ Recall = FaultWindow + 2
  BY Zenon DEF IInv, TypeOK, Recall, Untimed
<1>i. /\ auto_on > 0 => heaters_on
      /\ heating_for # -1 =>
           /\ heaters_on
           /\ auto_on > heating_for
           /\ temp_at_heat_start = readings[heating_for + 1]
      /\ heating_for # -1 /\ ~fault_latched => flat_for <= FaultWindow + heating_for
  BY Zenon DEF IInv, TimerIsTheRegulators, FlatIsYoung, Untimed
<1>u. /\ ok /\ ~InForce
      /\ heaters_on' = on
      /\ heating_for' = IF due THEN 0 ELSE elapsed
      /\ temp_at_heat_start' = IF due THEN t ELSE start
      /\ fault_latched' = (fault_latched \/ (due /\ t - start < MinRise))
  BY Zenon DEF UpdateAutomatic
<1>b. heaters_on' \in BOOLEAN /\ fault_latched' \in BOOLEAN
  <2>1. on \in BOOLEAN /\ (t - start < MinRise) \in BOOLEAN
    BY <1>t, SMT
  <2> QED
    BY <1>t, <1>u, <2>1, Zenon
<1>r. /\ readings' \in [1 .. Recall -> Temperatures]
      /\ readings'[1] = t
      /\ \A i \in 1 .. FaultWindow + 1 : readings'[i + 1] = readings[i]
      /\ valid' = ok
      /\ renewed' \in BOOLEAN
      /\ auto_on' \in 0 .. Recall
      /\ flat_for' \in 0 .. FlatLimit
      /\ flat_for' <= flat_for + 1
      /\ flat_for' > 0 => auto_on > 0 /\ t = readings[1]
      /\ auto_on' > 0 => heaters_on'
      /\ heaters_on' => auto_on' = IF auto_on < Recall THEN auto_on + 1 ELSE Recall
      /\ FlatMeansEqual'
  BY <1>b, <1>u, Remembered, Zenon
<1>d. /\ starts => on
      /\ elapsed # -1 => on
  BY <1>t, <1>i, SMT DEF Untimed
<1>1. CASE starts
  <2>1. /\ heating_for' = 0 /\ heaters_on' /\ temp_at_heat_start' = t
        /\ fault_latched' = fault_latched
    <3>1. on /\ ~due /\ elapsed = 0 /\ start = t
      BY <1>1, <1>d, <1>t, SMT
    <3> QED
      BY <1>u, <3>1, <1>t, Zenon
  <2>2. /\ auto_on = 0 /\ auto_on' = 1 /\ flat_for' = 0 /\ 0 + 1 = 1
    BY <1>1, <1>i, <1>r, <1>t, <2>1, SMT
  <2>3. heating_for' \in -1 .. FaultWindow /\ temp_at_heat_start' \in Int
    BY <1>t, <2>1, SMT
  <2>4. TimerIsTheRegulators' /\ FlatIsYoung'
    <3>1. 1 > 0 /\ 0 <= FaultWindow + 0
      BY <1>t, SMT
    <3> QED
      BY <1>r, <2>1, <2>2, <3>1, Zenon DEF TimerIsTheRegulators, FlatIsYoung, Untimed
  <2>5. TypeOK' /\ HeatIsSighted'
    BY <1>b, <1>r, <1>u, <2>3, OverrideTyped, Zenon
    DEF TypeOK, HeatIsSighted, Untimed, Recall, FlatLimit
  <2> QED
    BY <1>r, <2>1, <2>4, <2>5, Zenon DEF IInv
<1>2. CASE ~starts /\ elapsed = -1
  <2>1. /\ heating_for' = -1 /\ temp_at_heat_start' = temp_at_heat_start
        /\ fault_latched' = fault_latched
    <3>1. ~due /\ start = temp_at_heat_start
      BY <1>2, <1>t, SMT
    <3> QED
      BY <1>u, <1>2, <3>1, <1>t, Zenon
  <2>2. heating_for' \in -1 .. FaultWindow
    BY <1>t, <2>1, SMT
  <2>3. TimerIsTheRegulators' /\ FlatIsYoung'
    BY <1>r, <2>1, Zenon DEF TimerIsTheRegulators, FlatIsYoung, Untimed
  <2>4. TypeOK' /\ HeatIsSighted'
    BY <1>b, <1>r, <1>t, <1>u, <2>1, <2>2, OverrideTyped, Zenon
    DEF TypeOK, HeatIsSighted, Untimed, Recall, FlatLimit
  <2> QED
    BY <1>r, <2>1, <2>3, <2>4, Zenon DEF IInv
<1>3. CASE ~starts /\ elapsed # -1
  <2>1. /\ heating_for # -1 /\ elapsed = heating_for + 1 /\ on
        /\ start = temp_at_heat_start
    BY <1>3, <1>d, <1>t, SMT DEF Untimed
  <2>2. /\ heaters_on' /\ heaters_on /\ auto_on > heating_for
        /\ temp_at_heat_start = readings[heating_for + 1]
        /\ auto_on' > heating_for + 1
        /\ heating_for + 1 \in 1 .. FaultWindow + 1
    <3>1. /\ heaters_on' /\ heaters_on /\ auto_on > heating_for
          /\ temp_at_heat_start = readings[heating_for + 1]
          /\ auto_on' = IF auto_on < Recall THEN auto_on + 1 ELSE Recall
      BY <1>i, <1>r, <1>u, <2>1, Zenon
    <3>2. /\ heating_for \in -1 .. FaultWindow /\ FaultWindow \in Nat
          /\ auto_on \in 0 .. Recall /\ Recall = FaultWindow + 2
      BY <1>t
    <3>3. auto_on' > heating_for + 1
      BY <3>1, <3>2, SMT
    <3>4. heating_for + 1 \in 1 .. FaultWindow + 1
      BY <2>1, <3>2, SMT
    <3> QED
      BY <3>1, <3>3, <3>4
  <2>3. readings'[heating_for + 2] = temp_at_heat_start
    <3>1. (heating_for + 1) + 1 = heating_for + 2
      BY <1>t, SMT
    <3> QED
      BY <1>r, <2>2, <3>1, Zenon
  <2>4. CASE due
    <3>1. /\ heating_for' = 0 /\ temp_at_heat_start' = t
          /\ fault_latched' = (fault_latched \/ t - temp_at_heat_start < MinRise)
      BY <1>u, <2>1, <2>4, Zenon
    <3>2. /\ heating_for = FaultWindow /\ heating_for' \in -1 .. FaultWindow
          /\ temp_at_heat_start' \in Int /\ 0 + 1 = 1
          /\ FaultWindow + 2 \in 1 .. Recall
      BY <1>t, <2>1, <2>4, <3>1, SMT
    <3>3. auto_on' >= FaultWindow + 2 /\ auto_on' > 0
      BY <1>r, <1>t, <2>2, <3>2, SMT
    <3>4. ~fault_latched' => flat_for' <= FaultWindow + 0
      <4> SUFFICES ASSUME ~fault_latched', ~(flat_for' <= FaultWindow + 0)
                   PROVE  FALSE
        OBVIOUS
      <4>1. FaultWindow + 2 <= flat_for' + 1
        <5>1. flat_for' \in Int /\ FaultWindow \in Nat
          BY <1>r, <1>t, SMT DEF FlatLimit
        <5>2. flat_for' <= flat_for + 1 /\ flat_for \in Int
          BY <1>r, <1>t, SMT DEF FlatLimit
        <5> QED
          BY <5>1, <5>2, Places, Zenon
      <4>2. readings'[FaultWindow + 2] = t
        BY <1>r, <3>2, <4>1, Zenon DEF FlatMeansEqual, Recall
      <4>3. t = temp_at_heat_start
        BY <2>3, <3>2, <4>2, Zenon
      <4>4. t - temp_at_heat_start < MinRise
        BY <1>t, <4>3, SMT
      <4> QED
        BY <3>1, <4>4, Zenon
    <3>5. TimerIsTheRegulators' /\ FlatIsYoung'
      BY <1>r, <2>2, <3>1, <3>2, <3>3, <3>4, Zenon
      DEF TimerIsTheRegulators, FlatIsYoung, Untimed
    <3>6. TypeOK' /\ HeatIsSighted'
      BY <1>b, <1>r, <1>u, <3>2, OverrideTyped, Zenon
      DEF TypeOK, HeatIsSighted, Untimed, Recall, FlatLimit
    <3>7. ASSUME ~fault_latched, fault_latched'
          PROVE  readings'[1] - readings'[FaultWindow + 2] < MinRise
      BY <1>r, <2>3, <3>1, <3>2, <3>7, Zenon
    <3> QED
      BY <1>r, <3>3, <3>5, <3>6, <3>7, Zenon DEF IInv
  <2>5. CASE ~due
    <3>1. /\ heating_for' = heating_for + 1
          /\ temp_at_heat_start' = temp_at_heat_start
          /\ fault_latched' = fault_latched
      BY <1>t, <1>u, <2>1, <2>5, Zenon
    <3>2. /\ heating_for' \in -1 .. FaultWindow
          /\ heating_for' + 1 = heating_for + 2
      <4>1. ~(heating_for + 1 > FaultWindow)
        BY <2>1, <2>5, Zenon
      <4>2. heating_for \in -1 .. FaultWindow /\ FaultWindow \in Nat
        BY <1>t
      <4> QED
        BY <3>1, <4>1, <4>2, SMT
    <3>3. ~fault_latched => flat_for' <= FaultWindow + (heating_for + 1)
      BY <1>i, <1>r, <1>t, <2>1, SMT DEF FlatLimit
    <3>4. TimerIsTheRegulators' /\ FlatIsYoung'
      BY <1>r, <2>2, <2>3, <3>1, <3>2, <3>3, Zenon
      DEF TimerIsTheRegulators, FlatIsYoung, Untimed
    <3>5. TypeOK' /\ HeatIsSighted'
      BY <1>b, <1>r, <1>t, <1>u, <3>1, <3>2, OverrideTyped, Zenon
      DEF TypeOK, HeatIsSighted, Untimed, Recall, FlatLimit
    <3> QED
      BY <1>r, <3>1, <3>4, <3>5, Zenon DEF IInv
  <2> QED
    BY <2>4, <2>5
<1> QED
  BY <1>1, <1>2, <1>3

(* Every step keeps the invariant, and a fault it raises is deserved.      *)
LEMMA StepKeeps ==
  ASSUME IInv, [Next]_vars
  PROVE  /\ IInv'
         /\ ~fault_latched /\ fault_latched' =>
              /\ auto_on' >= FaultWindow + 2
              /\ readings'[1] - readings'[FaultWindow + 2] < MinRise
<1>1. CASE UNCHANGED vars
  <2>1. TypeOK' /\ HeatIsSighted'
    BY <1>1, Zenon DEF IInv, TypeOK, HeatIsSighted, vars, heaterVars, overrideVars,
       historyVars, Recall, FlatLimit, Untimed
  <2>2. TimerIsTheRegulators' /\ FlatMeansEqual' /\ FlatIsYoung'
    BY <1>1, Zenon DEF IInv, TimerIsTheRegulators, FlatMeansEqual, FlatIsYoung, vars,
       heaterVars, overrideVars, historyVars, Recall, Untimed
  <2> QED
    BY <1>1, <2>1, <2>2, Zenon DEF IInv, vars, heaterVars
<1>2. CASE Next
  <2>1. PICK t \in Temperatures, ok \in BOOLEAN, heat \in HeatCommands :
          Cycle(t, ok, heat)
    BY <1>2, Zenon DEF Next
  <2>2. TakeHeat(heat) /\ Remember(t, ok, heat)
    BY <2>1, Zenon DEF Cycle
  <2>3. CASE UpdateBlind(ok) \/ UpdateOverridden(ok)
    BY <2>2, <2>3, UntimedKeeps, Zenon
  <2>4. CASE UpdateAutomatic(t, ok)
    BY <2>2, <2>4, AutomaticKeeps
  <2> QED
    BY <2>1, <2>3, <2>4, Zenon DEF Cycle
<1> QED
  BY <1>1, <1>2

(* It holds in every reachable state. *)
LEMMA InductiveInvariant == Spec => []IInv
<1>1. IInv /\ [Next]_vars => IInv'
  BY StepKeeps
<1> QED
  BY <1>1, InitHolds, PTL DEF Spec

-----------------------------------------------------------------------------
(* temperature_control_update never heats on a reading it cannot trust.    *)
THEOREM NeverBlind == Spec => []HeatIsNeverBlind
<1>1. IInv => HeatIsNeverBlind
  BY DEF IInv, HeatIsSighted, HeatIsNeverBlind
<1> QED
  BY <1>1, InductiveInvariant, PTL

(* ERR_BIT_HEATER_FAULT is raised only after a whole window of automatic   *)
(* heating in which the temperature rose by less than the minimum.         *)
THEOREM FaultsAreDeserved == Spec => FaultIsDeserved
<1>1. IInv /\ [Next]_vars =>
        [~fault_latched /\ fault_latched' =>
           /\ auto_on' >= FaultWindow + 2
           /\ readings'[1] - readings'[FaultWindow + 2] < MinRise]_vars
  BY StepKeeps
<1> QED
  BY <1>1, InductiveInvariant, PTL DEF Spec, FaultIsDeserved

(* Heaters that have no effect are reported within two windows.            *)
THEOREM DeadHeatersAreReported == Spec => []DeadHeaterIsReported
<1>1. ASSUME IInv PROVE DeadHeaterIsReported
  <2> SUFFICES ASSUME heating_for # Untimed, flat_for >= 2 * FaultWindow + 1,
                      ~fault_latched
               PROVE  FALSE
    BY DEF DeadHeaterIsReported
  <2>1. /\ heating_for \in -1 .. FaultWindow /\ flat_for \in Nat
        /\ FaultWindow \in Nat
    BY <1>1, HeaterAssumption, SMT DEF IInv, TypeOK, Untimed, FlatLimit
  <2>2. flat_for <= FaultWindow + heating_for
    BY <1>1, Zenon DEF IInv, FlatIsYoung
  <2> QED
    BY <2>1, <2>2, SMT
<1> QED
  BY <1>1, InductiveInvariant, PTL

-----------------------------------------------------------------------------
(* The uplink: the bytes the loop has done with, and what it knows of each *)
(* of them: it is inside a frame, or begins none, whatever arrives later.  *)
Passed == taken - Len(rxbuf)

Judged(i) ==
  \/ Covered(i)
  \/ i < taken /\ ~(stream[i] = Sync0 /\ stream[i + 1] = Sync1)
  \/ HasLengthAt(i) /\ ~PlausibleAt(i)
  \/ WholeAt(i) /\ ~SoundAt(i)

(* The buffer is a window on the stream, which ends where the latest chunk *)
(* ended.                                                                  *)
BufferIsAWindow ==
  /\ Len(rxbuf) <= taken
  /\ \A i \in 1..Len(rxbuf) : rxbuf[i] = stream[Passed + i]

(* The frames acted on lie in order before the window.                     *)
FramesAreBehind ==
  \A k \in 1..Len(accepted) :
    /\ accepted[k].at \in 1..Passed /\ SoundAt(accepted[k].at)
    /\ accepted[k] = FrameAt(accepted[k].at)
    /\ EndOf(accepted[k].at) <= Passed + 1
    /\ \A l \in k + 1..Len(accepted) : EndOf(accepted[k].at) <= accepted[l].at

UplinkInv ==
  /\ stream \in Streams
  /\ accepted \in Seq([at : Nat, id : Byte, payload : Seq(Byte)])
  /\ UplinkTypeOK
  /\ BufferIsAWindow
  /\ FramesAreBehind
  /\ \A i \in 1..Passed : Judged(i)
  /\ ~polling => Len(rxbuf) <= 1 \/ CutShortAt(Passed + 1)
  /\ RequestsMatchFrames

-----------------------------------------------------------------------------
(* Two sequences with the same window have the same parts of it.           *)
LEMMA SameParts ==
  ASSUME NEW S, NEW b \in Seq(S), NEW s \in Seq(S), NEW q \in Nat,
         q + Len(b) <= Len(s), \A i \in 1..Len(b) : b[i] = s[q + i],
         NEW m \in Nat \ {0}, NEW n \in Int, n <= Len(b)
  PROVE  /\ SubSeq(b, m, n) = SubSeq(s, q + m, q + n)
         /\ SubSeq(b, m, n) \in Seq(S)
         /\ Len(SubSeq(b, m, n)) = IF m <= n THEN n - m + 1 ELSE 0
<1> DEFINE x == SubSeq(b, m, n)  y == SubSeq(s, q + m, q + n)
<1>0. Len(b) \in Nat /\ Len(s) \in Nat
  OBVIOUS
<1>1. \A i \in m..n : b[i] \in S
  BY <1>0
<1>2. \A i \in q + m..q + n : s[i] \in S
  BY <1>0
<1>3. /\ x \in Seq(S) /\ Len(x) = IF m <= n THEN n - m + 1 ELSE 0
      /\ \A i \in 1..n - m + 1 : x[i] = b[m + i - 1]
  BY <1>1, SubSeqProperties
<1>4. /\ y \in Seq(S) /\ Len(y) = IF q + m <= q + n THEN (q + n) - (q + m) + 1 ELSE 0
      /\ \A i \in 1..(q + n) - (q + m) + 1 : y[i] = s[q + m + i - 1]
  <2>1. q + m \in Int /\ q + n \in Int
    OBVIOUS
  <2> HIDE DEF y
  <2>2. y = SubSeq(s, q + m, q + n)
    BY DEF y
  <2> QED
    BY <1>2, <2>1, <2>2, SubSeqProperties
<1>5. Len(x) = Len(y) /\ \A i \in 1..Len(x) : x[i] = y[i]
  <2> HIDE DEF x, y
  <2>1. Len(x) = Len(y)
    BY <1>3, <1>4
  <2>2. ASSUME NEW i \in 1..Len(x) PROVE x[i] = y[i]
    <3>1. i \in 1..n - m + 1 /\ i \in 1..(q + n) - (q + m) + 1
      BY <1>3, <1>4
    <3>2. m + i - 1 \in 1..Len(b) /\ q + (m + i - 1) = q + m + i - 1
      BY <3>1, <1>0
    <3> QED
      BY <1>3, <1>4, <3>1, <3>2
  <2> QED
    BY <2>1, <2>2
<1> HIDE DEF x, y
<1>6. x = y
  BY <1>3, <1>4, <1>5, SeqEqual, Zenon
<1> QED
  BY <1>3, <1>6 DEF x, y

(* The sequences are what they are. *)
LEMMA UplinkTyped ==
  ASSUME UplinkInv
  PROVE  /\ stream \in Seq(Byte) /\ Len(stream) \in Nat
         /\ taken \in Nat /\ taken <= Len(stream)
         /\ rxbuf \in Seq(Byte) /\ Len(rxbuf) \in Nat /\ Len(rxbuf) <= taken
         /\ Passed \in Nat /\ Passed <= taken /\ Passed + Len(rxbuf) = taken
         /\ accepted \in Seq([at : Nat, id : Byte, payload : Seq(Byte)])
         /\ Len(accepted) \in Nat
         /\ Byte \subseteq Nat /\ \A i \in 1..Len(stream) : stream[i] \in Nat
<1>1. /\ stream \in Seq(Byte) /\ Byte \subseteq Nat
      /\ accepted \in Seq([at : Nat, id : Byte, payload : Seq(Byte)])
  BY UplinkAssumption, Zenon DEF UplinkInv
<1>2. /\ Len(stream) \in Nat /\ Len(accepted) \in Nat
      /\ \A i \in 1..Len(stream) : stream[i] \in Byte
  BY <1>1, ElementOfSeq, LenProperties
<1>3. /\ taken \in 0..Len(stream) /\ rxbuf \in Seq(Byte)
      /\ Len(rxbuf) <= taken
  BY Zenon DEF UplinkInv, UplinkTypeOK, BufferIsAWindow
<1>4. Len(rxbuf) \in Nat
  BY <1>3, LenProperties
<1>5. /\ taken \in Nat /\ taken <= Len(stream)
      /\ Passed \in Nat /\ Passed <= taken /\ Passed + Len(rxbuf) = taken
  <2>1. taken \in 0..Len(stream) /\ Len(rxbuf) <= taken /\ Len(stream) \in Nat
    BY <1>2, <1>3, Zenon
  <2> QED
    BY <2>1, <1>4 DEF Passed
<1>6. \A i \in 1..Len(stream) : stream[i] \in Nat
  BY <1>1, <1>2, Zenon
<1> QED
  BY <1>1, <1>2, <1>3, <1>4, <1>5, <1>6, Zenon

(* Where the scan stops, and what the bytes it passes over are.            *)
LEMMA ScanFacts ==
  ASSUME UplinkInv, NEW start \in 0..Len(rxbuf), IsScanned(rxbuf, start)
  PROVE  LET buf == Skip(rxbuf, start)
             p == Passed + start
         IN  /\ p \in Nat /\ p + Len(buf) = taken /\ Len(buf) \in Nat
             /\ buf \in Seq(Byte)
             /\ \A i \in 1..Len(buf) : buf[i] = stream[p + i]
             /\ \A i \in Passed + 1..p :
                  i < taken /\ ~(stream[i] = Sync0 /\ stream[i + 1] = Sync1)
             /\ Len(buf) <= 1 \/ StartsAt(p + 1)
             /\ \A m \in Nat \ {0}, n \in Int : n <= Len(buf) =>
                  SubSeq(buf, m, n) = SubSeq(stream, p + m, p + n)
<1> DEFINE buf == Skip(rxbuf, start)
           p == Passed + start
<1>0. /\ stream \in Seq(Byte) /\ Len(stream) \in Nat
      /\ taken \in Nat /\ taken <= Len(stream)
      /\ rxbuf \in Seq(Byte) /\ Len(rxbuf) \in Nat
      /\ Passed \in Nat /\ Passed + Len(rxbuf) = taken
      /\ \A i \in 1..Len(rxbuf) : rxbuf[i] = stream[Passed + i]
  BY UplinkTyped, Zenon DEF UplinkInv, BufferIsAWindow
<1>1. /\ buf \in Seq(Byte) /\ Len(buf) = Len(rxbuf) - start
      /\ \A i \in 1..Len(buf) : buf[i] = rxbuf[start + i]
  <2>1. \A i \in start + 1..Len(rxbuf) : rxbuf[i] \in Byte
    BY <1>0, ElementOfSeq
  <2>2. /\ SubSeq(rxbuf, start + 1, Len(rxbuf)) \in Seq(Byte)
        /\ Len(SubSeq(rxbuf, start + 1, Len(rxbuf)))
             = IF start + 1 <= Len(rxbuf) THEN Len(rxbuf) - (start + 1) + 1 ELSE 0
        /\ \A i \in 1..Len(rxbuf) - (start + 1) + 1 :
             SubSeq(rxbuf, start + 1, Len(rxbuf))[i] = rxbuf[(start + 1) + i - 1]
    <3>1. start + 1 \in Int /\ Len(rxbuf) \in Int
      BY <1>0
    <3> QED
      BY <2>1, <3>1, SubSeqProperties
  <2>3. /\ Len(rxbuf) - (start + 1) + 1 = Len(rxbuf) - start
        /\ (IF start + 1 <= Len(rxbuf) THEN Len(rxbuf) - (start + 1) + 1 ELSE 0)
             = Len(rxbuf) - start
        /\ \A i \in 1..Len(rxbuf) - start : (start + 1) + i - 1 = start + i
    <3>1. Len(rxbuf) \in Nat
      BY <1>0, Zenon
    <3> QED
      BY <3>1
  <2> QED
    BY <2>2, <2>3, Zenon DEF Skip
<1> HIDE DEF buf
<1>2. /\ p \in Nat /\ p + Len(buf) = taken /\ Len(buf) \in Nat
      /\ \A i \in 1..Len(buf) : buf[i] = stream[p + i]
  <2>1. /\ p \in Nat /\ p + Len(buf) = taken /\ Len(buf) \in Nat
    <3>1. /\ Passed \in Nat /\ Passed + Len(rxbuf) = taken /\ Len(rxbuf) \in Nat
          /\ Len(buf) = Len(rxbuf) - start
      BY <1>0, <1>1, Zenon
    <3> QED
      BY <3>1
  <2>2. ASSUME NEW i \in 1..Len(buf) PROVE buf[i] = stream[p + i]
    <3>1. start + i \in 1..Len(rxbuf) /\ Passed + (start + i) = p + i
      BY <1>0, <1>1, <2>1
    <3> QED
      BY <3>1, <1>0, <1>1
  <2> QED
    BY <2>1, <2>2
<1>3. ASSUME NEW i \in Passed + 1..p
      PROVE  i < taken /\ ~(stream[i] = Sync0 /\ stream[i + 1] = Sync1)
  <2> DEFINE j == i - Passed - 1
  <2>1. j \in 0..start - 1 /\ Passed + (j + 1) = i /\ Passed + (j + 2) = i + 1
    BY <1>0, <1>2
  <2>2. ~ScanStops(rxbuf, j)
    BY <2>1, Zenon DEF IsScanned
  <2>3. j + 1 < Len(rxbuf) /\ ~(rxbuf[j + 1] = Sync0 /\ rxbuf[(j + 1) + 1] = Sync1)
    <3>1. /\ ~(j + 1 >= Len(rxbuf))
          /\ ~(j + 1 < Len(rxbuf) /\ rxbuf[j + 1] = Sync0 /\ rxbuf[(j + 1) + 1] = Sync1)
      BY <2>2, Zenon DEF ScanStops, SyncsAt
    <3>2. j + 1 < Len(rxbuf)
      <4>1. Len(rxbuf) \in Nat /\ j \in 0..start - 1
        BY <1>0, <2>1, Zenon
      <4> QED
        BY <3>1, <4>1
    <3> QED
      BY <3>1, <3>2, Zenon
  <2>4. /\ rxbuf[j + 1] = stream[i] /\ rxbuf[(j + 1) + 1] = stream[i + 1]
        /\ i < taken
    <3>1. j + 1 \in 1..Len(rxbuf) /\ (j + 1) + 1 \in 1..Len(rxbuf)
          /\ Passed + ((j + 1) + 1) = i + 1
      <4>1. Passed \in Nat /\ Len(rxbuf) \in Nat
        BY <1>0, Zenon
      <4> QED
        BY <4>1, <2>1, <2>3
    <3> QED
      BY <1>0, <2>1, <3>1, <2>3
  <2> QED
    BY <2>3, <2>4
<1>4. Len(buf) <= 1 \/ StartsAt(p + 1)
  <2> SUFFICES ASSUME Len(buf) > 1 PROVE StartsAt(p + 1)
    BY <1>2
  <2>1. SyncsAt(rxbuf, start + 1)
    BY <1>0, <1>1 DEF IsScanned, ScanStops
  <2>2. /\ rxbuf[start + 1] = Sync0 /\ rxbuf[(start + 1) + 1] = Sync1
        /\ 1 \in 1..Len(buf) /\ 2 \in 1..Len(buf)
        /\ (start + 1) + 1 = start + 2 /\ (p + 1) + 1 = p + 2 /\ p + 1 < taken
    BY <2>1, <1>2, <1>0 DEF SyncsAt
  <2>3. stream[p + 1] = Sync0 /\ stream[p + 2] = Sync1
    BY <2>2, <1>1, <1>2
  <2> QED
    BY <2>2, <2>3 DEF StartsAt
<1>5. \A m \in Nat \ {0}, n \in Int : n <= Len(buf) =>
        SubSeq(buf, m, n) = SubSeq(stream, p + m, p + n)
  <2> HIDE DEF p
  <2>1. p + Len(buf) <= Len(stream)
    BY <1>0, <1>2
  <2> QED
    BY <1>0, <1>1, <1>2, <2>1, SameParts
<1> QED
  BY <1>1, <1>2, <1>3, <1>4, <1>5 DEF buf

(* Where the parts of a frame with a payload of x bytes are. *)
LEMMA PlaceSums ==
  ASSUME NEW p \in Nat, NEW x \in Nat, NEW n \in Nat, x + 6 <= n
  PROVE  /\ 4 + x \in Int /\ 4 + x <= n
         /\ 6 + x \in Int /\ 6 + x <= n
         /\ 5 + x \in Nat \ {0} /\ 5 + x \in Nat /\ 3 \in Nat \ {0}
         /\ p + 3 = (p + 1) + 2 /\ p + (4 + x) = (p + 1) + 3 + x
         /\ p + (5 + x) = (p + 1) + 4 + x
         /\ p + (6 + x) = (p + 1) + 5 + x
  OBVIOUS

(* What the receiver makes of the front of the buffer is what there is at  *)
(* that position of the stream.                                            *)
LEMMA VerdictFacts ==
  ASSUME UplinkInv, NEW start \in 0..Len(rxbuf), IsScanned(rxbuf, start)
  PROVE  LET buf == Skip(rxbuf, start)
             p == Passed + start
         IN  /\ Incomplete(buf) =>
                  Len(buf) < FrameMax /\ (Len(buf) <= 1 \/ CutShortAt(p + 1))
             /\ ~Incomplete(buf) =>
                  /\ StartsAt(p + 1) /\ HasLengthAt(p + 1)
                  /\ Len(buf) >= Overhead /\ buf[4] = stream[p + 4] /\ buf[4] \in Nat
                  /\ PlausibleAt(p + 1) => WholeAt(p + 1)
                  /\ Fits(buf) <=> SoundAt(p + 1)
             /\ ~Incomplete(buf) /\ Fits(buf) =>
                  /\ buf[4] + Overhead <= Len(buf)
                  /\ EndOf(p + 1) = p + 1 + buf[4] + Overhead
                  /\ [at |-> p + 1, id |-> buf[3], payload |-> Payload(buf)] = FrameAt(p + 1)
                  /\ buf[3] \in Byte /\ Payload(buf) \in Seq(Byte)
                  /\ Len(Payload(buf)) = buf[4] /\ buf[4] <= MaxPayload
<1> DEFINE buf == Skip(rxbuf, start)
           p == Passed + start
<1>0. /\ p \in Nat /\ p + Len(buf) = taken /\ Len(buf) \in Nat
      /\ buf \in Seq(Byte)
      /\ \A i \in 1..Len(buf) : buf[i] = stream[p + i]
      /\ Len(buf) <= 1 \/ StartsAt(p + 1)
      /\ \A m \in Nat \ {0}, n \in Int : n <= Len(buf) =>
           SubSeq(buf, m, n) = SubSeq(stream, p + m, p + n)
  BY ScanFacts, Zenon
<1>t. taken \in Nat /\ taken <= Len(stream) /\ Len(stream) \in Nat
      /\ stream \in Seq(Byte) /\ Byte \subseteq Nat
      /\ \A i \in 1..Len(stream) : stream[i] \in Nat
  BY UplinkTyped
<1>m. MaxPayload \in Nat /\ Overhead = 6 /\ FrameMax = MaxPayload + 6
  BY UplinkAssumption DEF Overhead, FrameMax
<1> HIDE DEF buf, p
<1>1. /\ p + 1 + 3 = p + 4
      /\ HasLengthAt(p + 1) <=> Len(buf) >= 6
      /\ Len(buf) >= 6 => buf[4] = stream[p + 4] /\ buf[4] \in Nat /\ buf[3] = stream[p + 3]
                          /\ buf[3] \in Byte
  <2>1. p + 1 + 3 = p + 4 /\ (HasLengthAt(p + 1) <=> Len(buf) >= 6)
    BY <1>0, <1>t DEF HasLengthAt
  <2>2. ASSUME Len(buf) >= 6
        PROVE  buf[4] = stream[p + 4] /\ buf[4] \in Nat /\ buf[3] = stream[p + 3]
               /\ buf[3] \in Byte
    <3>1. 3 \in 1..Len(buf) /\ 4 \in 1..Len(buf)
      BY <1>0, <2>2
    <3>2. buf[3] \in Byte /\ buf[4] \in Byte
      BY <1>0, <3>1, ElementOfSeq
    <3> QED
      BY <1>0, <1>t, <3>1, <3>2
  <2> QED
    BY <2>1, <2>2
<1>2. ASSUME Len(buf) >= 6
      PROVE  /\ PlausibleAt(p + 1) <=> buf[4] <= MaxPayload
             /\ EndOf(p + 1) = p + 1 + buf[4] + 6
             /\ WholeAt(p + 1) <=> Len(buf) >= buf[4] + 6
  <2>1. /\ p \in Nat /\ p + Len(buf) = taken /\ Len(buf) \in Nat /\ p + 1 + 3 = p + 4
        /\ HasLengthAt(p + 1) /\ buf[4] = stream[p + 4] /\ buf[4] \in Nat
    BY <1>0, <1>1, <1>2, Zenon
  <2>2. stream[p + 1 + 3] = buf[4]
    BY <2>1, Zenon
  <2>3. EndOf(p + 1) = p + 1 + 6 + buf[4]
    BY <2>2, <1>m, Zenon DEF EndOf
  <2>4. EndOf(p + 1) = p + 1 + buf[4] + 6 /\ (EndOf(p + 1) <= taken + 1 <=> Len(buf) >= buf[4] + 6)
    <3>1. p \in Nat /\ p + Len(buf) = taken /\ Len(buf) \in Nat /\ buf[4] \in Nat
      BY <2>1, Zenon
    <3> QED
      BY <2>3, <3>1
  <2> QED
    BY <2>1, <2>2, <2>4, Zenon DEF PlausibleAt, WholeAt
<1>3. ASSUME Incomplete(buf)
      PROVE  Len(buf) < FrameMax /\ (Len(buf) <= 1 \/ CutShortAt(p + 1))
  <2>1. CASE Len(buf) < 6
    <3>1. ~WholeAt(p + 1) /\ ~HasLengthAt(p + 1)
      BY <2>1, <1>0, <1>1 DEF WholeAt
    <3> QED
      BY <2>1, <3>1, <1>0, <1>m DEF CutShortAt
  <2>2. CASE Len(buf) >= 6
    <3>1. buf[4] <= MaxPayload /\ Len(buf) < buf[4] + 6
      BY <1>3, <2>2, <1>m DEF Incomplete
    <3>2. ~WholeAt(p + 1) /\ PlausibleAt(p + 1)
      BY <3>1, <1>1, <1>2, <2>2, <1>0
    <3> QED
      BY <2>2, <3>1, <3>2, <1>0, <1>1, <1>m DEF CutShortAt
  <2> QED
    BY <2>1, <2>2, <1>0
<1>4. ASSUME ~Incomplete(buf)
      PROVE  /\ StartsAt(p + 1) /\ HasLengthAt(p + 1)
             /\ Len(buf) >= 6 /\ buf[4] = stream[p + 4] /\ buf[4] \in Nat
             /\ PlausibleAt(p + 1) => WholeAt(p + 1)
             /\ Fits(buf) <=> SoundAt(p + 1)
             /\ buf[4] <= MaxPayload => buf[4] + 6 <= Len(buf)
  <2>1. Len(buf) >= 6 /\ (buf[4] <= MaxPayload => ~(Len(buf) < buf[4] + 6))
    BY <1>4, <1>m, <1>0 DEF Incomplete
  <2>2. /\ StartsAt(p + 1) /\ HasLengthAt(p + 1)
        /\ buf[4] = stream[p + 4] /\ buf[4] \in Nat
        /\ PlausibleAt(p + 1) <=> buf[4] <= MaxPayload
        /\ buf[4] <= MaxPayload => buf[4] + 6 <= Len(buf)
        /\ PlausibleAt(p + 1) => WholeAt(p + 1)
    BY <2>1, <1>0, <1>1, <1>2
  <2>3. ASSUME buf[4] <= MaxPayload
        PROVE  /\ SubSeq(buf, 3, 4 + buf[4])
                    = SubSeq(stream, (p + 1) + 2, (p + 1) + 3 + stream[(p + 1) + 3])
               /\ SubSeq(buf, 5 + buf[4], 6 + buf[4])
                    = SubSeq(stream, (p + 1) + 4 + stream[(p + 1) + 3],
                                     (p + 1) + 5 + stream[(p + 1) + 3])
    <3>1. /\ 4 + buf[4] \in Int /\ 4 + buf[4] <= Len(buf)
          /\ 6 + buf[4] \in Int /\ 6 + buf[4] <= Len(buf)
          /\ 5 + buf[4] \in Nat \ {0} /\ 3 \in Nat \ {0}
          /\ p + 3 = (p + 1) + 2 /\ p + (4 + buf[4]) = (p + 1) + 3 + stream[(p + 1) + 3]
          /\ p + (5 + buf[4]) = (p + 1) + 4 + stream[(p + 1) + 3]
          /\ p + (6 + buf[4]) = (p + 1) + 5 + stream[(p + 1) + 3]
      <4>1. /\ p \in Nat /\ p + 1 + 3 = p + 4 /\ Len(buf) \in Nat
            /\ buf[4] = stream[p + 4] /\ buf[4] \in Nat /\ buf[4] + 6 <= Len(buf)
        BY <2>2, <2>3, <1>0, <1>1, Zenon
      <4>2. stream[(p + 1) + 3] = buf[4]
        BY <4>1, Zenon
      <4>3. /\ 4 + buf[4] \in Int /\ 4 + buf[4] <= Len(buf)
            /\ 6 + buf[4] \in Int /\ 6 + buf[4] <= Len(buf)
            /\ 5 + buf[4] \in Nat \ {0} /\ 5 + buf[4] \in Nat /\ 3 \in Nat \ {0}
            /\ p + 3 = (p + 1) + 2 /\ p + (4 + buf[4]) = (p + 1) + 3 + buf[4]
            /\ p + (5 + buf[4]) = (p + 1) + 4 + buf[4]
            /\ p + (6 + buf[4]) = (p + 1) + 5 + buf[4]
        <5>1. p \in Nat /\ buf[4] \in Nat /\ Len(buf) \in Nat /\ buf[4] + 6 <= Len(buf)
          BY <4>1, Zenon
        <5> QED
          BY <5>1, PlaceSums, ZenonT(30)
      <4> QED
        BY <4>2, <4>3, Zenon
    <3>2. SubSeq(buf, 3, 4 + buf[4]) = SubSeq(stream, p + 3, p + (4 + buf[4]))
      BY <3>1, <1>0, Zenon
    <3>3. SubSeq(buf, 5 + buf[4], 6 + buf[4]) = SubSeq(stream, p + (5 + buf[4]), p + (6 + buf[4]))
      BY <3>1, <1>0, Zenon
    <3> QED
      BY <3>1, <3>2, <3>3, Zenon
  <2>4. Fits(buf) <=> SoundAt(p + 1)
    BY <2>2, <2>3, Zenon DEF Fits, SoundAt
  <2> QED
    BY <2>1, <2>2, <2>4
<1>5. ASSUME ~Incomplete(buf), Fits(buf)
      PROVE  /\ buf[4] + 6 <= Len(buf)
             /\ EndOf(p + 1) = p + 1 + buf[4] + 6
             /\ [at |-> p + 1, id |-> buf[3], payload |-> Payload(buf)] = FrameAt(p + 1)
             /\ buf[3] \in Byte /\ Payload(buf) \in Seq(Byte)
             /\ Len(Payload(buf)) = buf[4] /\ buf[4] <= MaxPayload
  <2>1. /\ buf[4] <= MaxPayload /\ buf[4] \in Nat /\ Len(buf) >= 6
        /\ buf[4] + 6 <= Len(buf) /\ buf[4] = stream[p + 4]
    BY <1>4, <1>5 DEF Fits
  <2>2. /\ EndOf(p + 1) = p + 1 + buf[4] + 6 /\ buf[3] = stream[p + 3] /\ buf[3] \in Byte
    BY <2>1, <1>1, <1>2
  <2>3. /\ 4 + buf[4] \in Int /\ 4 + buf[4] <= Len(buf) /\ 5 \in Nat \ {0}
        /\ p + 5 = (p + 1) + 4 /\ p + (4 + buf[4]) = (p + 1) + 3 + stream[(p + 1) + 3]
        /\ (p + 1) + 2 = p + 3
    <3>1. /\ p \in Nat /\ p + 1 + 3 = p + 4 /\ Len(buf) \in Nat
          /\ buf[4] = stream[p + 4] /\ buf[4] \in Nat /\ buf[4] + 6 <= Len(buf)
      BY <2>1, <1>0, <1>1, Zenon
    <3>2. stream[(p + 1) + 3] = buf[4]
      BY <3>1, Zenon
    <3> QED
      BY <3>1, <3>2
  <2>4. /\ Payload(buf) = SubSeq(stream, (p + 1) + 4, (p + 1) + 3 + stream[(p + 1) + 3])
    <3>1. SubSeq(buf, 5, 4 + buf[4]) = SubSeq(stream, p + 5, p + (4 + buf[4]))
      BY <2>3, <1>0, Zenon
    <3> QED
      BY <3>1, <2>3, Zenon DEF Payload
  <2>5. Payload(buf) \in Seq(Byte) /\ Len(Payload(buf)) = buf[4]
    <3>1. \A i \in 5..4 + buf[4] : buf[i] \in Byte
      BY <1>0, <2>1, ElementOfSeq
    <3>2. /\ SubSeq(buf, 5, 4 + buf[4]) \in Seq(Byte)
          /\ Len(SubSeq(buf, 5, 4 + buf[4])) = IF 5 <= 4 + buf[4] THEN (4 + buf[4]) - 5 + 1 ELSE 0
      <4>1. 5 \in Int /\ 4 + buf[4] \in Int
        BY <2>1
      <4> QED
        BY <3>1, <4>1, SubSeqProperties
    <3> QED
      BY <3>2, <2>1 DEF Payload
  <2>6. [at |-> p + 1, id |-> buf[3], payload |-> Payload(buf)] = FrameAt(p + 1)
    BY <2>2, <2>3, <2>4, Zenon DEF FrameAt
  <2> QED
    BY <2>1, <2>2, <2>5, <2>6
<1> QED
  BY <1>3, <1>4, <1>5, <1>m, Zenon DEF buf, p

(* Dropping the front of the buffer moves the window.                      *)
LEMMA WindowMoves ==
  ASSUME UplinkInv, NEW start \in 0..Len(rxbuf), IsScanned(rxbuf, start),
         NEW n \in 0..Len(Skip(rxbuf, start)), rxbuf' = Skip(Skip(rxbuf, start), n),
         UNCHANGED inputVars
  PROVE  /\ rxbuf' \in Seq(Byte) /\ Len(rxbuf') \in Nat
         /\ Len(rxbuf') = Len(Skip(rxbuf, start)) - n
         /\ Len(rxbuf') <= Len(rxbuf)
         /\ Passed' = Passed + start + n /\ Passed' <= taken
         /\ BufferIsAWindow'
<1> DEFINE buf == Skip(rxbuf, start)
           p == Passed + start
<1>0. /\ p \in Nat /\ p + Len(buf) = taken /\ Len(buf) \in Nat
      /\ buf \in Seq(Byte)
      /\ \A i \in 1..Len(buf) : buf[i] = stream[p + i]
  BY ScanFacts, Zenon
<1>i. n \in 0..Len(buf) /\ rxbuf' = Skip(buf, n) /\ taken' = taken /\ stream' = stream
  BY Zenon DEF inputVars
<1>p. Passed \in Nat /\ Passed + Len(rxbuf) = taken /\ Len(rxbuf) \in Nat
  BY UplinkTyped
<1> HIDE DEF buf
<1>1. /\ rxbuf' \in Seq(Byte) /\ Len(rxbuf') = Len(buf) - n
      /\ \A i \in 1..Len(rxbuf') : rxbuf'[i] = buf[n + i]
  <2>1. \A i \in n + 1..Len(buf) : buf[i] \in Byte
    BY <1>0, <1>i, ElementOfSeq
  <2>2. n + 1 \in Int /\ Len(buf) \in Int
    BY <1>0
  <2>3. /\ SubSeq(buf, n + 1, Len(buf)) \in Seq(Byte)
        /\ Len(SubSeq(buf, n + 1, Len(buf)))
             = IF n + 1 <= Len(buf) THEN Len(buf) - (n + 1) + 1 ELSE 0
        /\ \A i \in 1..Len(buf) - (n + 1) + 1 :
             SubSeq(buf, n + 1, Len(buf))[i] = buf[(n + 1) + i - 1]
    BY <2>1, <2>2, SubSeqProperties
  <2>4. /\ rxbuf' = SubSeq(buf, n + 1, Len(buf))
        /\ Len(buf) - (n + 1) + 1 = Len(buf) - n
        /\ (IF n + 1 <= Len(buf) THEN Len(buf) - (n + 1) + 1 ELSE 0) = Len(buf) - n
        /\ \A i \in 1..Len(buf) - n : (n + 1) + i - 1 = n + i
    <3>1. rxbuf' = SubSeq(buf, n + 1, Len(buf))
      BY <1>i, Zenon DEF Skip
    <3>2. Len(buf) \in Nat /\ n \in 0..Len(buf)
      BY <1>0, <1>i, Zenon
    <3> QED
      BY <3>1, <3>2
  <2> QED
    BY <2>3, <2>4, Zenon
<1>2. /\ Len(rxbuf') \in Nat /\ Len(rxbuf') <= Len(rxbuf) /\ Len(rxbuf') <= taken
      /\ taken - Len(rxbuf') = p + n /\ p + n <= taken
  <2>1. Len(rxbuf') = Len(buf) - n /\ Len(buf) \in Nat /\ p \in Nat /\ p + Len(buf) = taken
    BY <1>0, <1>1, Zenon
  <2> HIDE DEF p
  <2>2. /\ Len(rxbuf') \in Nat /\ Len(rxbuf') <= taken
        /\ taken - Len(rxbuf') = p + n /\ p + n <= taken
    BY <2>1, <1>i
  <2>3. Len(rxbuf') <= Len(rxbuf)
    BY <2>1, <1>i, <1>p DEF p
  <2> QED
    BY <2>2, <2>3
<1>3. Passed' = p + n
  BY <1>i, <1>2, Zenon DEF Passed
<1>4. ASSUME NEW i \in 1..Len(rxbuf') PROVE rxbuf'[i] = stream[(p + n) + i]
  <2>1. n + i \in 1..Len(buf) /\ p + (n + i) = (p + n) + i
    BY <1>0, <1>1, <1>2, <1>i
  <2> QED
    BY <2>1, <1>0, <1>1
<1>5. BufferIsAWindow'
  BY <1>i, <1>2, <1>3, <1>4, Zenon DEF BufferIsAWindow
<1> QED
  BY <1>1, <1>2, <1>3, <1>5 DEF buf

(* What lies behind the window stays as it was judged.                     *)
LEMMA JudgedStays ==
  ASSUME UplinkInv, NEW i \in 1..Passed, UNCHANGED inputVars,
         Len(accepted') \in Nat, Len(accepted) <= Len(accepted'),
         \A k \in 1..Len(accepted) : accepted'[k] = accepted[k]
  PROVE  Judged(i)'
<1>0. Judged(i) /\ taken' = taken /\ stream' = stream /\ Len(accepted) \in Nat
  BY UplinkTyped, Zenon DEF UplinkInv, inputVars
<1>1. ASSUME Covered(i) PROVE Covered(i)'
  <2>1. PICK k \in 1..Len(accepted) : accepted[k].at <= i /\ i < EndOf(accepted[k].at)
    BY <1>1, Zenon DEF Covered
  <2>2. k \in 1..Len(accepted') /\ accepted'[k] = accepted[k]
    BY <2>1, <1>0
  <2> QED
    BY <2>1, <2>2, <1>0, Zenon DEF Covered, EndOf
<1> QED
  BY <1>0, <1>1, Zenon
  DEF Judged, HasLengthAt, PlausibleAt, WholeAt, EndOf, SoundAt, StartsAt

(* Where a whole frame ends. *)
LEMMA EndIsANumber ==
  ASSUME UplinkInv, NEW i \in 1..Passed, WholeAt(i)
  PROVE  EndOf(i) \in Int
<1>1. i + 3 \in 1..Len(stream) /\ i \in Int
  <2>1. /\ taken <= Len(stream) /\ Len(stream) \in Nat /\ Passed \in Nat /\ taken \in Nat
    BY UplinkTyped, Zenon
  <2>2. i + 5 <= taken
    BY Zenon DEF WholeAt, HasLengthAt
  <2> QED
    BY <2>1, <2>2
<1>2. stream[i + 3] \in Nat
  BY <1>1, UplinkTyped, Zenon
<1> QED
  BY <1>1, <1>2 DEF EndOf, Overhead

(* A step that takes no frame off leaves the frames behind the window.     *)
LEMMA FramesStay ==
  ASSUME UplinkInv, Passed' \in Nat, Passed <= Passed', taken <= taken',
         taken' \in Nat, stream' = stream, accepted' = accepted
  PROVE  FramesAreBehind'
<1>0. Passed \in Nat /\ Len(accepted) \in Nat /\ taken \in Nat
  BY UplinkTyped, Zenon
<1>1. ASSUME NEW k \in 1..Len(accepted), NEW i, i = accepted[k].at
      PROVE  /\ i \in 1..Passed' /\ SoundAt(i)' /\ accepted[k] = FrameAt(i)
             /\ EndOf(i) <= Passed' + 1
             /\ \A l \in k + 1..Len(accepted) : EndOf(i) <= accepted[l].at
  <2>1. /\ i \in 1..Passed /\ SoundAt(i) /\ accepted[k] = FrameAt(i)
        /\ EndOf(i) <= Passed + 1
        /\ \A l \in k + 1..Len(accepted) : EndOf(i) <= accepted[l].at
    BY <1>1, Zenon DEF UplinkInv, FramesAreBehind
  <2>2. i < taken /\ i + 5 <= taken /\ EndOf(i) <= taken + 1 /\ WholeAt(i)
    BY <2>1, Zenon DEF SoundAt, StartsAt, WholeAt, HasLengthAt
  <2>3. EndOf(i) \in Int
    BY <2>1, <2>2, EndIsANumber, Zenon
  <2>4. i < taken' /\ i + 5 <= taken' /\ EndOf(i) <= taken' + 1
    <3>1. i \in 1..Passed
      BY <2>1, Zenon
    <3> QED
      BY <3>1, <2>2, <2>3, <1>0
  <2>5. SoundAt(i)'
    BY <2>1, <2>4, ZenonT(30)
    DEF SoundAt, StartsAt, WholeAt, HasLengthAt, PlausibleAt, EndOf
  <2>6. i \in 1..Passed' /\ EndOf(i) <= Passed' + 1
    <3>1. i \in 1..Passed /\ EndOf(i) <= Passed + 1
      BY <2>1, Zenon
    <3> QED
      BY <3>1, <2>3, <1>0
  <2> QED
    BY <2>1, <2>5, <2>6, Zenon
<1>2. ASSUME NEW k \in 1..Len(accepted), NEW i, i = accepted[k].at
      PROVE  /\ i \in 1..Passed' /\ SoundAt(i)' /\ accepted[k] = FrameAt(i)'
             /\ EndOf(i)' <= Passed' + 1
             /\ \A l \in k + 1..Len(accepted) : EndOf(i)' <= accepted[l].at
  <2>1. FrameAt(i)' = FrameAt(i) /\ EndOf(i)' = EndOf(i)
    BY Zenon DEF FrameAt, EndOf
  <2> QED
    BY <1>1, <1>2, <2>1, Zenon
<1> QED
  BY <1>2, ZenonT(40)
  DEF FramesAreBehind, SoundAt, StartsAt, WholeAt, HasLengthAt, PlausibleAt, EndOf, FrameAt
-----------------------------------------------------------------------------
(* The requests and what asked for them.                                   *)
FlagsTyped ==
  /\ test_pending \in BOOLEAN /\ wipe_pending \in BOOLEAN /\ heat_pending \in BOOLEAN
  /\ heat_on \in BOOLEAN /\ heat_duration \in 0..MaxDuration
  /\ test_seen \in 0..Len(accepted) /\ wipe_seen \in 0..Len(accepted)
  /\ heat_seen \in 0..Len(accepted)

LEMMA RequestsStay ==
  ASSUME UplinkInv, UNCHANGED <<pendingVars, accepted, seenVars>>
  PROVE  RequestsMatchFrames' /\ FlagsTyped'
<1>1. RequestsMatchFrames /\ FlagsTyped
  BY Zenon DEF UplinkInv, UplinkTypeOK, FlagsTyped
<1>2. /\ test_pending' = test_pending /\ wipe_pending' = wipe_pending
      /\ heat_pending' = heat_pending /\ heat_on' = heat_on
      /\ heat_duration' = heat_duration /\ accepted' = accepted
      /\ test_seen' = test_seen /\ wipe_seen' = wipe_seen /\ heat_seen' = heat_seen
  BY Zenon DEF pendingVars, seenVars
<1> QED
  BY <1>1, <1>2, Zenon DEF RequestsMatchFrames, FlagsTyped, IsHeat

(* One more frame, and what it asks for.                                   *)
LEMMA RequestsGrow ==
  ASSUME UplinkInv, NEW f \in [at : Nat, id : Byte, payload : Seq(Byte)],
         Len(f.payload) <= MaxPayload,
         accepted' = Append(accepted, f), ActOn(f), UNCHANGED seenVars
  PROVE  RequestsMatchFrames' /\ FlagsTyped'
<1>t. /\ Len(accepted) \in Nat /\ Byte \subseteq Nat
      /\ accepted \in Seq([at : Nat, id : Byte, payload : Seq(Byte)])
  BY UplinkTyped
<1>0. /\ Len(accepted') = Len(accepted) + 1
      /\ accepted'[Len(accepted) + 1] = f
      /\ \A k \in 1..Len(accepted) : accepted'[k] = accepted[k]
  BY <1>t
<1>1. RequestsMatchFrames /\ FlagsTyped
  BY Zenon DEF UplinkInv, UplinkTypeOK, FlagsTyped
<1>2. /\ test_seen' = test_seen /\ wipe_seen' = wipe_seen /\ heat_seen' = heat_seen
  BY Zenon DEF seenVars
<1>s. ASSUME NEW seen \in 0..Len(accepted)
      PROVE  /\ Len(accepted) + 1 \in seen + 1..Len(accepted')
             /\ \A k \in seen + 1..Len(accepted) :
                  k \in seen + 1..Len(accepted') /\ accepted'[k] = accepted[k]
             /\ \A k \in seen + 1..Len(accepted') :
                  k = Len(accepted) + 1 \/ k \in seen + 1..Len(accepted)
             /\ \A k \in seen + 1..Len(accepted) :
                  \A l \in k + 1..Len(accepted') :
                    l = Len(accepted) + 1 \/ l \in k + 1..Len(accepted)
             /\ \A l : l \notin (Len(accepted) + 1) + 1..Len(accepted')
             /\ seen \in 0..Len(accepted')
  <2>1. /\ Len(accepted) + 1 \in seen + 1..Len(accepted')
        /\ \A k \in seen + 1..Len(accepted) : k \in 1..Len(accepted) /\ k \in seen + 1..Len(accepted')
        /\ \A k \in seen + 1..Len(accepted') :
             k = Len(accepted) + 1 \/ k \in seen + 1..Len(accepted)
        /\ \A k \in seen + 1..Len(accepted) :
             \A l \in k + 1..Len(accepted') :
               l = Len(accepted) + 1 \/ l \in k + 1..Len(accepted)
        /\ \A l : l \notin (Len(accepted) + 1) + 1..Len(accepted')
        /\ seen \in 0..Len(accepted')
    <3>1. Len(accepted) \in Nat /\ Len(accepted') = Len(accepted) + 1
      BY <1>t, <1>0, Zenon
    <3> QED
      BY <3>1
  <2> QED
    BY <2>1, <1>0, Zenon
<1>h. ASSUME IsHeat(f)
      PROVE  /\ Duration(f.payload) \in 1..MaxDuration
             /\ Duration(f.payload) \in 0..MaxDuration
  <2>1. f.payload \in Seq(Byte) /\ Len(f.payload) \in HeatPayload..MaxPayload
    <3>1. f.payload \in Seq(Byte) /\ Len(f.payload) \in Nat
      OBVIOUS
    <3>2. Len(f.payload) >= HeatPayload /\ HeatPayload \in Nat /\ MaxPayload \in Nat
      BY <1>h, UplinkAssumption DEF IsHeat
    <3> QED
      BY <3>1, <3>2
  <2>2. f.payload \in [1..Len(f.payload) -> Byte]
    BY <2>1, LenProperties
  <2>3. Duration(f.payload) \in Nat
    BY <2>1, <2>2, UplinkAssumption, Zenon
  <2>4. Duration(f.payload) > 0 /\ Duration(f.payload) <= MaxDuration /\ MaxDuration \in Nat
    BY <1>h, UplinkAssumption, Zenon DEF IsHeat
  <2> QED
    BY <2>3, <2>4
<1>3. /\ test_pending' = (test_pending \/ f.id = Test)
      /\ wipe_pending' = (wipe_pending \/ f.id = Wipe)
      /\ heat_pending' = (heat_pending \/ IsHeat(f))
      /\ heat_on' = IF IsHeat(f) THEN f.payload[1] # 0 ELSE heat_on
      /\ heat_duration' = IF IsHeat(f) THEN Duration(f.payload) ELSE heat_duration
  BY Zenon DEF ActOn
<1>4. FlagsTyped'
  <2>1. /\ test_seen \in 0..Len(accepted') /\ wipe_seen \in 0..Len(accepted')
        /\ heat_seen \in 0..Len(accepted')
    BY <1>1, <1>s, Zenon DEF FlagsTyped
  <2>2. /\ test_pending' \in BOOLEAN /\ wipe_pending' \in BOOLEAN /\ heat_pending' \in BOOLEAN
        /\ heat_on' \in BOOLEAN /\ heat_duration' \in 0..MaxDuration
    BY <1>1, <1>3, <1>h, Zenon DEF FlagsTyped, IsHeat
  <2> QED
    BY <2>1, <2>2, <1>2, Zenon DEF FlagsTyped
<1>5. /\ test_pending' <=> \E k \in test_seen + 1..Len(accepted') : accepted'[k].id = Test
      /\ wipe_pending' <=> \E k \in wipe_seen + 1..Len(accepted') : accepted'[k].id = Wipe
  <2>1. /\ test_seen \in 0..Len(accepted) /\ wipe_seen \in 0..Len(accepted)
        /\ test_pending <=> \E k \in test_seen + 1..Len(accepted) : accepted[k].id = Test
        /\ wipe_pending <=> \E k \in wipe_seen + 1..Len(accepted) : accepted[k].id = Wipe
    BY <1>1, Zenon DEF RequestsMatchFrames, FlagsTyped
  <2>2. test_pending' <=> \E k \in test_seen + 1..Len(accepted') : accepted'[k].id = Test
    BY <2>1, <1>0, <1>s, <1>3, ZenonT(30)
  <2>3. wipe_pending' <=> \E k \in wipe_seen + 1..Len(accepted') : accepted'[k].id = Wipe
    BY <2>1, <1>0, <1>s, <1>3, ZenonT(30)
  <2> QED
    BY <2>2, <2>3
<1>6. heat_pending' <=> \E k \in heat_seen + 1..Len(accepted') : IsHeat(accepted'[k])
  <2>1. /\ heat_seen \in 0..Len(accepted)
        /\ heat_pending <=> \E k \in heat_seen + 1..Len(accepted) : IsHeat(accepted[k])
    BY <1>1, Zenon DEF RequestsMatchFrames, FlagsTyped
  <2>2. heat_pending' <=> (heat_pending \/ IsHeat(f))
    BY <1>3, <1>1, Zenon DEF FlagsTyped
  <2>3. ASSUME heat_pending' PROVE \E k \in heat_seen + 1..Len(accepted') : IsHeat(accepted'[k])
    BY <2>1, <2>2, <2>3, <1>0, <1>s, Zenon
  <2>4. ASSUME NEW k \in heat_seen + 1..Len(accepted'), IsHeat(accepted'[k]) PROVE heat_pending'
    <3>1. CASE k = Len(accepted) + 1
      BY <3>1, <2>4, <2>2, <1>0, Zenon
    <3>2. CASE k \in heat_seen + 1..Len(accepted)
      BY <3>2, <2>1, <2>2, <2>4, <1>s, Zenon
    <3> QED
      BY <3>1, <3>2, <2>1, <1>s, Zenon
  <2> QED
    BY <2>3, <2>4, Zenon
<1>7. ASSUME heat_pending'
      PROVE  \E k \in heat_seen + 1..Len(accepted') :
               /\ IsHeat(accepted'[k]) /\ \A l \in k + 1..Len(accepted') : ~IsHeat(accepted'[l])
               /\ heat_on' = (accepted'[k].payload[1] # 0)
               /\ heat_duration' = Duration(accepted'[k].payload)
               /\ heat_duration' \in 1..MaxDuration
  <2>0. heat_seen \in 0..Len(accepted)
    BY <1>1, Zenon DEF FlagsTyped
  <2>1. CASE IsHeat(f)
    BY <2>0, <2>1, <1>0, <1>s, <1>3, <1>h, Zenon
  <2>2. CASE ~IsHeat(f)
    <3>1. heat_pending
      BY <2>2, <1>7, <1>3, <1>1, Zenon DEF FlagsTyped
    <3>2. PICK k \in heat_seen + 1..Len(accepted) :
            /\ IsHeat(accepted[k]) /\ \A l \in k + 1..Len(accepted) : ~IsHeat(accepted[l])
            /\ heat_on = (accepted[k].payload[1] # 0)
            /\ heat_duration = Duration(accepted[k].payload)
            /\ heat_duration \in 1..MaxDuration
      BY <3>1, <1>1, Zenon DEF RequestsMatchFrames
    <3>3. k \in heat_seen + 1..Len(accepted') /\ accepted'[k] = accepted[k]
      BY <2>0, <1>s, Zenon
    <3>4. ASSUME NEW l \in k + 1..Len(accepted') PROVE ~IsHeat(accepted'[l])
      <4>1. CASE l = Len(accepted) + 1
        BY <4>1, <2>2, <1>0, Zenon
      <4>2. CASE l \in k + 1..Len(accepted)
        <5>1. l \in heat_seen + 1..Len(accepted)
          BY <4>2, <2>0, <1>t
        <5> QED
          BY <4>2, <5>1, <3>2, <2>0, <1>s, Zenon
      <4> QED
        BY <4>1, <4>2, <2>0, <1>s, Zenon
    <3>5. heat_on' = heat_on /\ heat_duration' = heat_duration
      BY <2>2, <1>3, Zenon
    <3> QED
      BY <3>2, <3>3, <3>4, <3>5, Zenon
  <2> QED
    BY <2>1, <2>2, Zenon
<1> QED
  BY <1>2, <1>4, <1>5, <1>6, <1>7, Zenon DEF RequestsMatchFrames

(* A request that is taken is pending no more, nor asked for since.        *)
LEMMA RequestTaken ==
  ASSUME UplinkInv, TakeTestRequest \/ TakeHeatRequest \/ TakeWipeRequest
  PROVE  RequestsMatchFrames' /\ FlagsTyped'
<1>1. RequestsMatchFrames /\ FlagsTyped
  BY Zenon DEF UplinkInv, UplinkTypeOK, FlagsTyped
<1>2. /\ Len(accepted) \in 0..Len(accepted)
      /\ \A k : k \notin Len(accepted) + 1..Len(accepted)
  <2>1. Len(accepted) \in Nat
    BY UplinkTyped
  <2> QED
    BY <2>1
<1>3. CASE TakeTestRequest
  BY <1>1, <1>2, <1>3, Zenon DEF TakeTestRequest, RequestsMatchFrames, FlagsTyped, IsHeat
<1>4. CASE TakeHeatRequest
  BY <1>1, <1>2, <1>4, Zenon DEF TakeHeatRequest, RequestsMatchFrames, FlagsTyped, IsHeat
<1>5. CASE TakeWipeRequest
  BY <1>1, <1>2, <1>5, Zenon DEF TakeWipeRequest, RequestsMatchFrames, FlagsTyped, IsHeat
<1> QED
  BY <1>3, <1>4, <1>5

-----------------------------------------------------------------------------
(* The steps. *)
BytesTyped ==
  /\ taken \in 0..Len(stream)
  /\ rxbuf \in Seq(Byte) /\ Len(rxbuf) <= BufferSize
  /\ polling \in BOOLEAN /\ (~polling => Len(rxbuf) < FrameMax)

LEMMA UplinkInitHolds == UplinkInit => UplinkInv
<1> SUFFICES ASSUME UplinkInit PROVE UplinkInv
  OBVIOUS
<1>0. /\ stream \in Streams /\ taken = 0 /\ rxbuf = <<>> /\ accepted = <<>> /\ polling = FALSE
      /\ test_pending = FALSE /\ wipe_pending = FALSE /\ heat_pending = FALSE
      /\ heat_on = FALSE /\ heat_duration = 0
      /\ test_seen = 0 /\ wipe_seen = 0 /\ heat_seen = 0
  BY Zenon DEF UplinkInit
<1>1. /\ Len(rxbuf) = 0 /\ rxbuf \in Seq(Byte) /\ Len(accepted) = 0
      /\ accepted \in Seq([at : Nat, id : Byte, payload : Seq(Byte)])
  BY <1>0
<1>2. Len(stream) \in Nat
  BY <1>0, UplinkAssumption, LenProperties
<1>3. BytesTyped
  <2>1. MaxPayload \in Nat
    BY UplinkAssumption
  <2> QED
    <3>1. taken \in 0..Len(stream) /\ Len(rxbuf) <= BufferSize /\ Len(rxbuf) < FrameMax
      <4>1. taken = 0 /\ Len(rxbuf) = 0
        BY <1>0, <1>1, Zenon
      <4> QED
        BY <4>1, <1>2, <2>1 DEF BufferSize, FrameMax, Overhead
    <3> QED
      BY <1>0, <1>1, <3>1, Zenon DEF BytesTyped
<1>4. FlagsTyped
  <2>1. 0 \in 0..MaxDuration /\ 0 \in 0..0
    BY UplinkAssumption
  <2> QED
    BY <1>0, <1>1, <2>1, Zenon DEF FlagsTyped
<1>5. \A k : k \notin 1..0 /\ k \notin 0 + 1..0
  OBVIOUS
<1>6. Passed = 0
  <2>1. taken = 0 /\ Len(rxbuf) = 0
    BY <1>0, <1>1, Zenon
  <2> QED
    BY <2>1 DEF Passed
<1>7. UplinkTypeOK
  BY <1>3, <1>4, Zenon DEF BytesTyped, FlagsTyped, UplinkTypeOK
<1>8. BufferIsAWindow /\ FramesAreBehind /\ \A i \in 1..Passed : Judged(i)
  <2>1. Len(rxbuf) <= taken
    BY <1>0, <1>1
  <2> QED
    BY <2>1, <1>1, <1>5, <1>6, Zenon DEF BufferIsAWindow, FramesAreBehind
<1>9. RequestsMatchFrames
  BY <1>0, <1>1, <1>5, Zenon DEF RequestsMatchFrames
<1>10. Len(rxbuf) <= 1
  BY <1>1
<1> QED
  BY <1>0, <1>1, <1>7, <1>8, <1>9, <1>10, Zenon DEF UplinkInv

LEMMA InvOfParts ==
  ASSUME stream \in Streams, BytesTyped, FlagsTyped,
         accepted \in Seq([at : Nat, id : Byte, payload : Seq(Byte)]),
         BufferIsAWindow, FramesAreBehind, \A i \in 1..Passed : Judged(i),
         ~polling => Len(rxbuf) <= 1 \/ CutShortAt(Passed + 1), RequestsMatchFrames
  PROVE  UplinkInv
  BY Zenon DEF UplinkInv, UplinkTypeOK, BytesTyped, FlagsTyped

(* Between polls nothing touches the bytes.                                *)
LEMMA BytesStay ==
  ASSUME UplinkInv, UNCHANGED <<inputVars, rxbuf, polling, accepted>>,
         RequestsMatchFrames', FlagsTyped'
  PROVE  UplinkInv'
<1>0. /\ stream' = stream /\ taken' = taken /\ rxbuf' = rxbuf /\ polling' = polling
      /\ accepted' = accepted
  BY Zenon DEF inputVars
<1>1. /\ stream \in Streams /\ BytesTyped /\ BufferIsAWindow /\ FramesAreBehind
      /\ accepted \in Seq([at : Nat, id : Byte, payload : Seq(Byte)])
      /\ \A i \in 1..Passed : Judged(i)
      /\ ~polling => Len(rxbuf) <= 1 \/ CutShortAt(Passed + 1)
  BY Zenon DEF UplinkInv, UplinkTypeOK, BytesTyped
<1>2. stream' \in Streams /\ BytesTyped' /\ Passed' = Passed /\ BufferIsAWindow'
      /\ accepted' \in Seq([at : Nat, id : Byte, payload : Seq(Byte)])
  <2>1. stream' \in Streams /\ BytesTyped' /\ accepted' \in Seq([at : Nat, id : Byte, payload : Seq(Byte)])
    <3>1. stream' \in Streams /\ accepted' \in Seq([at : Nat, id : Byte, payload : Seq(Byte)])
      BY <1>0, <1>1, Zenon
    <3>2. BytesTyped'
      BY <1>0, <1>1, SMT DEF BytesTyped
    <3> QED
      BY <3>1, <3>2
  <2>2. Passed' = Passed
    BY <1>0, Zenon DEF Passed
  <2>3. BufferIsAWindow'
    BY <1>0, <1>1, <2>2, Zenon DEF BufferIsAWindow
  <2> QED
    BY <2>1, <2>2, <2>3
<1>3. FramesAreBehind'
  BY <1>0, <1>1, <1>2, Zenon
  DEF FramesAreBehind, SoundAt, StartsAt, WholeAt, HasLengthAt, PlausibleAt, EndOf, FrameAt
<1>4. \A i \in 1..Passed' : Judged(i)'
  BY <1>0, <1>1, <1>2, Zenon
  DEF Judged, Covered, SoundAt, StartsAt, WholeAt, HasLengthAt, PlausibleAt, EndOf
<1>5. ~polling' => Len(rxbuf') <= 1 \/ CutShortAt(Passed + 1)'
  <2>1. CutShortAt(Passed + 1)' <=> CutShortAt(Passed + 1)
    BY <1>2, <1>0, Zenon DEF CutShortAt, StartsAt, WholeAt, HasLengthAt, PlausibleAt, EndOf
  <2>2. ASSUME ~polling' PROVE Len(rxbuf') <= 1 \/ CutShortAt(Passed + 1)
    BY <1>0, <1>1, <2>2, SMT
  <2> QED
    BY <2>1, <2>2, Zenon
<1> QED
  BY <1>2, <1>3, <1>4, <1>5, Zenon DEF UplinkInv, UplinkTypeOK, BytesTyped, FlagsTyped

(* More bytes: the window grows, and what was judged stays judged.         *)
LEMMA TopUpKeeps ==
  ASSUME UplinkInv, NEW n \in 1..Len(stream) - taken, TopUp(n)
  PROVE  UplinkInv'
<1>t. /\ stream \in Seq(Byte) /\ Len(stream) \in Nat
      /\ taken \in Nat /\ taken <= Len(stream)
      /\ rxbuf \in Seq(Byte) /\ Len(rxbuf) \in Nat /\ Len(rxbuf) <= taken
      /\ Passed \in Nat /\ Passed <= taken /\ Passed + Len(rxbuf) = taken
      /\ \A i \in 1..Len(rxbuf) : rxbuf[i] = stream[Passed + i]
      /\ \A i \in 1..Len(stream) : stream[i] \in Nat
  BY UplinkTyped, Zenon DEF UplinkInv, BufferIsAWindow
<1>0. /\ taken' = taken + n /\ stream' = stream /\ accepted' = accepted /\ polling' = TRUE
      /\ rxbuf' = rxbuf \o SubSeq(stream, taken + 1, taken + n)
      /\ Len(rxbuf) + n <= BufferSize
      /\ UNCHANGED <<pendingVars, accepted, seenVars>>
  BY Zenon DEF TopUp
<1> DEFINE chunk == SubSeq(stream, taken + 1, taken + n)
<1>n. n \in Nat /\ taken + n \in Nat /\ taken + n <= Len(stream)
  <2>1. taken \in Nat /\ Len(stream) \in Nat
    BY <1>t, Zenon
  <2> QED
    BY <2>1
<1>1. /\ chunk \in Seq(Byte) /\ Len(chunk) = n
      /\ \A i \in 1..n : chunk[i] = stream[taken + i]
  <2>1. \A i \in taken + 1..taken + n : stream[i] \in Byte
    <3>1. \A i \in taken + 1..taken + n : i \in 1..Len(stream)
      <4>1. taken \in Nat /\ Len(stream) \in Nat
        BY <1>t, Zenon
      <4> QED
        BY <4>1, <1>n
    <3> QED
      BY <3>1, <1>t, ElementOfSeq
  <2>2. taken + 1 \in Int /\ taken + n \in Int /\ (taken + n) - (taken + 1) + 1 = n
        /\ (IF taken + 1 <= taken + n THEN (taken + n) - (taken + 1) + 1 ELSE 0) = n
        /\ \A i \in 1..n : (taken + 1) + i - 1 = taken + i
    <3>1. taken \in Nat
      BY <1>t, Zenon
    <3> QED
      BY <3>1, <1>n
  <2>3. /\ chunk \in Seq(Byte)
        /\ Len(chunk) = IF taken + 1 <= taken + n THEN (taken + n) - (taken + 1) + 1 ELSE 0
        /\ \A i \in 1..(taken + n) - (taken + 1) + 1 : chunk[i] = stream[(taken + 1) + i - 1]
    BY <2>1, <2>2, SubSeqProperties
  <2> QED
    BY <2>2, <2>3, Zenon
<1> HIDE DEF chunk
<1>2. /\ rxbuf' \in Seq(Byte) /\ Len(rxbuf') = Len(rxbuf) + n
      /\ \A i \in 1..Len(rxbuf) + n :
           rxbuf'[i] = IF i <= Len(rxbuf) THEN rxbuf[i] ELSE chunk[i - Len(rxbuf)]
  <2>1. rxbuf' = rxbuf \o chunk
    BY <1>0, Zenon DEF chunk
  <2>2. /\ rxbuf \o chunk \in Seq(Byte) /\ Len(rxbuf \o chunk) = Len(rxbuf) + Len(chunk)
        /\ \A i \in 1..Len(rxbuf) + Len(chunk) : (rxbuf \o chunk)[i] =
             IF i <= Len(rxbuf) THEN rxbuf[i] ELSE chunk[i - Len(rxbuf)]
    <3>1. rxbuf \in Seq(Byte) /\ chunk \in Seq(Byte)
      BY <1>t, <1>1, Zenon
    <3> QED
      BY <3>1, ConcatProperties, Zenon
  <2> QED
    BY <2>1, <2>2, <1>1, Zenon
<1>3. Passed' = Passed /\ Len(rxbuf') <= taken' /\ taken' \in 0..Len(stream)
  <2>1. /\ taken \in Nat /\ Len(rxbuf) \in Nat /\ Len(rxbuf) <= taken /\ Len(stream) \in Nat
        /\ taken' = taken + n /\ Len(rxbuf') = Len(rxbuf) + n
    BY <1>t, <1>0, <1>2, Zenon
  <2> QED
    BY <2>1, <1>n DEF Passed
<1>4. BufferIsAWindow'
  <2>1. ASSUME NEW i \in 1..Len(rxbuf') PROVE rxbuf'[i] = stream[Passed + i]
    <3>1. /\ i \in 1..Len(rxbuf) + n /\ i \in Int /\ Len(rxbuf) \in Nat
          /\ Passed \in Nat /\ Passed + Len(rxbuf) = taken
      BY <1>2, <1>t
    <3>2. CASE i <= Len(rxbuf)
      <4>1. i \in 1..Len(rxbuf)
        BY <3>1, <3>2
      <4> QED
        BY <4>1, <3>1, <3>2, <1>2, <1>t, Zenon
    <3>3. CASE ~(i <= Len(rxbuf))
      <4>1. i - Len(rxbuf) \in 1..n /\ taken + (i - Len(rxbuf)) = Passed + i
        BY <3>1, <3>3
      <4> QED
        BY <4>1, <3>1, <3>3, <1>2, <1>1, Zenon
    <3> QED
      BY <3>2, <3>3
  <2> QED
    BY <2>1, <1>0, <1>3, Zenon DEF BufferIsAWindow
<1>5. FramesAreBehind'
  <2>1. Passed' \in Nat /\ Passed <= Passed' /\ taken <= taken' /\ taken' \in Nat
    <3>1. Passed \in Nat /\ taken \in Nat /\ taken' = taken + n /\ Passed' = Passed
      BY <1>t, <1>0, <1>3, Zenon
    <3> QED
      BY <3>1
  <2> QED
    BY <2>1, <1>0, FramesStay
<1>6. ASSUME NEW i \in 1..Passed PROVE Judged(i)'
  <2>1. Judged(i)
    BY Zenon DEF UplinkInv
  <2>2. /\ i < taken => i < taken'
        /\ HasLengthAt(i) => HasLengthAt(i)'
        /\ WholeAt(i) => WholeAt(i)' /\ i < taken
    <3>0. i \in Int /\ i >= 1
      BY <1>t
    <3>1. taken \in Nat /\ taken' = taken + n /\ i \in Int
      BY <3>0, <1>t, <1>0, Zenon
    <3>2. EndOf(i)' = EndOf(i)
      BY <1>0, Zenon DEF EndOf
    <3>3. WholeAt(i) => EndOf(i) \in Int
      <4> SUFFICES ASSUME WholeAt(i) PROVE EndOf(i) \in Int
        OBVIOUS
      <4>1. i + 3 \in 1..Len(stream)
        <5>1. taken <= Len(stream) /\ Len(stream) \in Nat /\ Passed \in Nat
          BY <1>t, Zenon
        <5> QED
          BY <5>1, <3>1 DEF WholeAt, HasLengthAt
      <4>2. stream[i + 3] \in Nat
        BY <4>1, <1>t, Zenon
      <4> QED
        BY <4>2, <3>1 DEF EndOf, Overhead
    <3> QED
      BY <3>1, <3>2, <3>3 DEF WholeAt, HasLengthAt
  <2>3. Covered(i) => Covered(i)'
    BY <1>0, Zenon DEF Covered, EndOf
  <2>4. PlausibleAt(i)' <=> PlausibleAt(i)
    BY <1>0, Zenon DEF PlausibleAt
  <2>5. WholeAt(i) /\ ~SoundAt(i) => ~SoundAt(i)'
    BY <1>0, <2>2, Zenon DEF SoundAt, StartsAt, PlausibleAt
  <2> QED
    BY <2>1, <2>2, <2>3, <2>4, <2>5, <1>0, Zenon DEF Judged
<1>7. BytesTyped'
  <2>1. Len(rxbuf') <= BufferSize
    BY <1>0, <1>2, Zenon
  <2> QED
    BY <2>1, <1>0, <1>2, <1>3, Zenon DEF BytesTyped
<1>8. RequestsMatchFrames' /\ FlagsTyped'
  BY <1>0, RequestsStay
<1>9. stream' \in Streams /\ accepted' \in Seq([at : Nat, id : Byte, payload : Seq(Byte)])
  BY <1>0, Zenon DEF UplinkInv
<1>10. \A i \in 1..Passed' : Judged(i)'
  BY <1>3, <1>6, Zenon
<1>11. ~polling' => Len(rxbuf') <= 1 \/ CutShortAt(Passed + 1)'
  BY <1>0, Zenon
<1> QED
  BY <1>4, <1>5, <1>7, <1>8, <1>9, <1>10, <1>11, Zenon
  DEF UplinkInv, UplinkTypeOK, BytesTyped, FlagsTyped


(* A frame: the positions up to it were judged by the scan, its own are    *)
(* covered by it, and the window moves past its end.                       *)
LEMMA TakeFrameKeeps ==
  ASSUME UplinkInv, NEW start \in 0..Len(rxbuf), TakeFrame(start)
  PROVE  UplinkInv'
<1> DEFINE buf == Skip(rxbuf, start)
           p == Passed + start
           n == buf[4] + Overhead
           f == [at |-> p + 1, id |-> buf[3], payload |-> Payload(buf)]
<1>t. /\ stream \in Seq(Byte) /\ Len(stream) \in Nat
      /\ taken \in Nat /\ taken <= Len(stream)
      /\ rxbuf \in Seq(Byte) /\ Len(rxbuf) \in Nat /\ Len(rxbuf) <= taken
      /\ Passed \in Nat /\ Passed <= taken /\ Passed + Len(rxbuf) = taken
      /\ accepted \in Seq([at : Nat, id : Byte, payload : Seq(Byte)])
      /\ Len(accepted) \in Nat
  BY UplinkTyped
<1>g. IsScanned(rxbuf, start) /\ ~Incomplete(buf) /\ Fits(buf)
  BY Zenon DEF TakeFrame
<1>s. /\ p \in Nat /\ p + Len(buf) = taken /\ Len(buf) \in Nat
      /\ \A i \in Passed + 1..p :
           i < taken /\ ~(stream[i] = Sync0 /\ stream[i + 1] = Sync1)
  BY <1>g, ScanFacts, Zenon
<1>v. /\ SoundAt(p + 1) /\ buf[4] \in Nat /\ n <= Len(buf)
      /\ EndOf(p + 1) = p + 1 + buf[4] + Overhead
      /\ f = FrameAt(p + 1) /\ buf[3] \in Byte /\ Payload(buf) \in Seq(Byte)
      /\ Len(Payload(buf)) = buf[4] /\ buf[4] <= MaxPayload
  BY <1>g, VerdictFacts, Zenon
<1>n. n \in Nat /\ n \in 0..Len(buf) /\ n >= 6 /\ EndOf(p + 1) = p + 1 + n
  <2>1. /\ buf[4] \in Nat /\ Len(buf) \in Nat /\ p \in Nat /\ n <= Len(buf)
        /\ EndOf(p + 1) = p + 1 + buf[4] + Overhead
    BY <1>v, <1>s, Zenon
  <2> HIDE DEF buf, p
  <2> QED
    BY <2>1 DEF Overhead
<1>a. taken - Len(buf) + 1 = p + 1
  <2>1. Len(buf) \in Nat /\ p \in Nat /\ p + Len(buf) = taken
    BY <1>s, Zenon
  <2> HIDE DEF buf, p
  <2> QED
    BY <2>1
<1>0. /\ rxbuf' = Skip(buf, n) /\ ActOn(f) /\ accepted' = Append(accepted, f)
      /\ UNCHANGED inputVars /\ stream' = stream /\ taken' = taken
      /\ polling' = polling /\ polling = TRUE /\ UNCHANGED seenVars
  <2>1. /\ f = [at |-> taken - Len(buf) + 1, id |-> buf[3], payload |-> Payload(buf)]
    BY <1>a, Zenon
  <2>2. polling = TRUE
    <3>1. polling \in BOOLEAN /\ polling
      BY Zenon DEF UplinkInv, UplinkTypeOK, TakeFrame
    <3> QED
      BY <3>1
  <2> QED
    BY <2>1, <2>2, Zenon DEF TakeFrame, inputVars
<1>w. /\ rxbuf' \in Seq(Byte) /\ Len(rxbuf') \in Nat
      /\ Len(rxbuf') <= Len(rxbuf)
      /\ Passed' = Passed + start + n /\ Passed' <= taken
      /\ BufferIsAWindow'
  BY <1>0, <1>n, <1>g, WindowMoves, Zenon
<1>f. f \in [at : Nat, id : Byte, payload : Seq(Byte)] /\ Len(f.payload) <= MaxPayload
      /\ f.at = p + 1
  <2>1. p + 1 \in Nat
    BY <1>s
  <2>2. f \in [at : Nat, id : Byte, payload : Seq(Byte)]
    BY <2>1, <1>v, Zenon
  <2>3. f.payload = Payload(buf) /\ f.at = p + 1
    BY Zenon
  <2> QED
    BY <2>2, <2>3, <1>v, Zenon
<1> HIDE DEF f
<1>r. RequestsMatchFrames' /\ FlagsTyped'
  BY <1>0, <1>f, RequestsGrow
<1>b. /\ Len(accepted') = Len(accepted) + 1
      /\ accepted'[Len(accepted) + 1] = f
      /\ \A k \in 1..Len(accepted) : accepted'[k] = accepted[k]
      /\ accepted' \in Seq([at : Nat, id : Byte, payload : Seq(Byte)])
  BY <1>t, <1>0, <1>f
<1> HIDE DEF buf, p, n
<1>q. Passed' = p + n
  BY <1>w, Zenon DEF p
<1>c. p + n \in Nat /\ Passed <= p /\ 1..Passed \subseteq 1..p + n
  <2>1. Passed \in Nat /\ start \in 0..Len(rxbuf) /\ Len(rxbuf) \in Nat /\ n \in Nat
    BY <1>t, <1>n, Zenon
  <2> QED
    BY <2>1 DEF p
<1>e. /\ \A i : FrameAt(i)' = FrameAt(i) /\ EndOf(i)' = EndOf(i)
      /\ \A i : SoundAt(i) => SoundAt(i)'
  BY <1>0, Zenon DEF SoundAt, StartsAt, WholeAt, HasLengthAt, PlausibleAt, EndOf, FrameAt
<1>1. FramesAreBehind'
  <2>1. ASSUME NEW k \in 1..Len(accepted)
        PROVE  /\ accepted[k].at \in 1..p + n /\ SoundAt(accepted[k].at)
               /\ accepted[k] = FrameAt(accepted[k].at)
               /\ EndOf(accepted[k].at) <= p + n + 1
               /\ EndOf(accepted[k].at) <= p + 1
               /\ \A l \in k + 1..Len(accepted) : EndOf(accepted[k].at) <= accepted[l].at
    <3>1. /\ accepted[k].at \in 1..Passed /\ SoundAt(accepted[k].at)
          /\ accepted[k] = FrameAt(accepted[k].at)
          /\ EndOf(accepted[k].at) <= Passed + 1
          /\ \A l \in k + 1..Len(accepted) : EndOf(accepted[k].at) <= accepted[l].at
      BY Zenon DEF UplinkInv, FramesAreBehind
    <3>2. EndOf(accepted[k].at) \in Int
      <4>1. WholeAt(accepted[k].at)
        BY <3>1, Zenon DEF SoundAt
      <4> QED
        BY <3>1, <4>1, EndIsANumber
    <3>3. EndOf(accepted[k].at) <= p + n + 1 /\ EndOf(accepted[k].at) <= p + 1
      <4>1. /\ Passed \in Nat /\ p \in Nat /\ n \in Nat /\ Passed <= p
            /\ EndOf(accepted[k].at) \in Int /\ EndOf(accepted[k].at) <= Passed + 1
        BY <1>t, <1>s, <1>n, <1>c, <3>1, <3>2, Zenon
      <4> QED
        BY <4>1
    <3> QED
      BY <3>1, <3>3, <1>c, Zenon
  <2>2. /\ p + 1 \in 1..p + n /\ p + 1 + n <= p + n + 1
        /\ \A l : l \notin (Len(accepted) + 1) + 1..Len(accepted')
        /\ \A k \in 1..Len(accepted') : k \in 1..Len(accepted) \/ k = Len(accepted) + 1
        /\ \A k \in 1..Len(accepted) : \A l \in k + 1..Len(accepted') :
             (l \in k + 1..Len(accepted) /\ l \in 1..Len(accepted)) \/ l = Len(accepted) + 1
    <3>1. /\ p \in Nat /\ n \in Nat /\ n >= 6 /\ Len(accepted) \in Nat
          /\ Len(accepted') = Len(accepted) + 1
      BY <1>s, <1>n, <1>t, <1>b, Zenon
    <3> QED
      BY <3>1
  <2>3. ASSUME NEW k \in 1..Len(accepted'), NEW i, i = accepted'[k].at
        PROVE  /\ i \in 1..p + n /\ SoundAt(i)'
               /\ accepted'[k] = FrameAt(i)
               /\ EndOf(i) <= p + n + 1
               /\ \A l \in k + 1..Len(accepted') : EndOf(i) <= accepted'[l].at
    <3>1. CASE k = Len(accepted) + 1
      <4>1. accepted'[k] = f /\ i = p + 1
        BY <3>1, <2>3, <1>b, <1>f, Zenon
      <4> QED
        BY <4>1, <3>1, <2>2, <1>e, <1>v, <1>n, Zenon
    <3>2. CASE k \in 1..Len(accepted)
      <4>1. accepted'[k] = accepted[k] /\ i = accepted[k].at
        BY <3>2, <2>3, <1>b, Zenon
      <4>2. ASSUME NEW l \in k + 1..Len(accepted') PROVE EndOf(i) <= accepted'[l].at
        <5>1. CASE l = Len(accepted) + 1
          BY <5>1, <4>1, <3>2, <2>1, <1>b, <1>f, Zenon
        <5>2. CASE l \in k + 1..Len(accepted) /\ l \in 1..Len(accepted)
          BY <5>2, <4>1, <3>2, <2>1, <1>b, Zenon
        <5> QED
          BY <5>1, <5>2, <3>2, <2>2, Zenon
      <4> QED
        BY <4>1, <4>2, <3>2, <2>1, <1>e, Zenon
    <3> QED
      BY <3>1, <3>2, <2>2, Zenon
  <2>4. ASSUME NEW k \in 1..Len(accepted'), NEW i, i = accepted'[k].at
        PROVE  /\ i \in 1..Passed' /\ SoundAt(i)'
               /\ accepted'[k] = FrameAt(i)'
               /\ EndOf(i)' <= Passed' + 1
               /\ \A l \in k + 1..Len(accepted') : EndOf(i)' <= accepted'[l].at
    <3>1. FrameAt(i)' = FrameAt(i) /\ EndOf(i)' = EndOf(i)
      BY <1>e, Zenon
    <3> QED
      BY <2>3, <2>4, <3>1, <1>q, Zenon
  <2> QED
    BY <2>4, Zenon
    DEF FramesAreBehind, SoundAt, StartsAt, WholeAt, HasLengthAt, PlausibleAt, EndOf, FrameAt
<1>2. ASSUME NEW i \in 1..Passed' PROVE Judged(i)'
  <2>1. i \in 1..Passed \/ i \in Passed + 1..p \/ i \in p + 1..p + n
    <3>1. Passed \in Nat /\ p \in Nat /\ n \in Nat /\ i \in 1..p + n
      BY <1>t, <1>s, <1>n, <1>q, Zenon
    <3> QED
      BY <3>1
  <2>2. CASE i \in 1..Passed
    <3>1. Len(accepted') \in Nat /\ Len(accepted) <= Len(accepted')
      <4>1. Len(accepted) \in Nat /\ Len(accepted') = Len(accepted) + 1
        BY <1>t, <1>b, Zenon
      <4> QED
        BY <4>1
    <3> QED
      BY <2>2, <3>1, <1>b, <1>0, JudgedStays, Zenon
  <2>3. CASE i \in Passed + 1..p
    BY <2>3, <1>s, <1>0, Zenon DEF Judged
  <2>4. CASE i \in p + 1..p + n
    <3>1. Len(accepted) + 1 \in 1..Len(accepted')
      <4>1. Len(accepted) \in Nat /\ Len(accepted') = Len(accepted) + 1
        BY <1>t, <1>b, Zenon
      <4> QED
        BY <4>1
    <3>2. p + 1 <= i /\ i < EndOf(p + 1)
      <4>1. p \in Nat /\ n \in Nat /\ EndOf(p + 1) = p + 1 + n
        BY <1>s, <1>n, Zenon
      <4> QED
        BY <4>1, <2>4
    <3>3. /\ accepted'[Len(accepted) + 1].at <= i
          /\ i < EndOf(accepted'[Len(accepted) + 1].at)
      BY <3>2, <1>b, <1>f, Zenon
    <3>4. Covered(i)'
      BY <3>1, <3>3, <1>0, Zenon DEF Covered, EndOf
    <3> QED
      BY <3>4, Zenon DEF Judged
  <2> QED
    BY <2>1, <2>2, <2>3, <2>4
<1>3. BytesTyped'
  <2>1. Len(rxbuf') <= BufferSize
    <3>1. Len(rxbuf) <= BufferSize /\ MaxPayload \in Nat
      BY UplinkAssumption, Zenon DEF UplinkInv, UplinkTypeOK
    <3>2. Len(rxbuf') \in Nat /\ Len(rxbuf) \in Nat /\ Len(rxbuf') <= Len(rxbuf)
      BY <1>t, <1>w, Zenon
    <3> QED
      BY <3>1, <3>2 DEF BufferSize, FrameMax, Overhead
  <2>2. taken' \in 0..Len(stream')
    BY <1>0, Zenon DEF UplinkInv, UplinkTypeOK
  <2> QED
    BY <2>1, <2>2, <1>0, <1>w, Zenon DEF BytesTyped
<1>4. stream' \in Streams
  BY <1>0, Zenon DEF UplinkInv
<1>5. ~polling' => Len(rxbuf') <= 1 \/ CutShortAt(Passed + 1)'
  BY <1>0, Zenon
<1> QED
  BY <1>1, <1>2, <1>3, <1>4, <1>5, <1>b, <1>r, <1>w, Zenon
  DEF UplinkInv, UplinkTypeOK, BytesTyped, FlagsTyped

(* No frame where it looked like one: only that position is done with.     *)
LEMMA ResyncKeeps ==
  ASSUME UplinkInv, NEW start \in 0..Len(rxbuf), Resync(start)
  PROVE  UplinkInv'
<1> DEFINE buf == Skip(rxbuf, start)
           p == Passed + start
<1>t. /\ taken \in Nat /\ Len(rxbuf) \in Nat
      /\ Passed \in Nat /\ Passed <= taken /\ Passed + Len(rxbuf) = taken
      /\ Len(accepted) \in Nat
  BY UplinkTyped
<1>g. IsScanned(rxbuf, start) /\ ~Incomplete(buf) /\ ~Fits(buf)
  BY Zenon DEF Resync
<1>s. /\ p \in Nat /\ p + Len(buf) = taken /\ Len(buf) \in Nat
      /\ \A i \in Passed + 1..p :
           i < taken /\ ~(stream[i] = Sync0 /\ stream[i + 1] = Sync1)
  BY <1>g, ScanFacts, Zenon
<1>v. /\ HasLengthAt(p + 1) /\ ~SoundAt(p + 1) /\ Len(buf) >= Overhead
      /\ PlausibleAt(p + 1) => WholeAt(p + 1)
  BY <1>g, VerdictFacts, Zenon
<1>0. /\ rxbuf' = Skip(buf, 1)
      /\ UNCHANGED inputVars /\ stream' = stream /\ taken' = taken
      /\ polling' = polling /\ polling = TRUE /\ accepted' = accepted
      /\ UNCHANGED <<pendingVars, accepted, seenVars>>
  <2>1. polling = TRUE
    <3>1. polling \in BOOLEAN /\ polling
      BY Zenon DEF UplinkInv, UplinkTypeOK, Resync
    <3> QED
      BY <3>1
  <2> QED
    BY <2>1, Zenon DEF Resync, inputVars
<1>n. 1 \in 0..Len(buf)
  BY <1>s, <1>v DEF Overhead
<1>w. /\ rxbuf' \in Seq(Byte) /\ Len(rxbuf') \in Nat
      /\ Len(rxbuf') <= Len(rxbuf)
      /\ Passed' = Passed + start + 1 /\ Passed' <= taken
      /\ BufferIsAWindow'
  BY <1>0, <1>n, <1>g, WindowMoves, Zenon
<1> HIDE DEF buf, p
<1>q. Passed' = p + 1 /\ Passed <= p
  <2>1. Passed \in Nat /\ start \in 0..Len(rxbuf) /\ Len(rxbuf) \in Nat
    BY <1>t, Zenon
  <2> QED
    BY <2>1, <1>w DEF p
<1>1. FramesAreBehind'
  <2>1. Passed' \in Nat /\ Passed <= Passed' /\ taken <= taken' /\ taken' \in Nat
    <3>1. p \in Nat /\ Passed \in Nat /\ taken \in Nat /\ taken' = taken
          /\ Passed' = p + 1 /\ Passed <= p
      BY <1>t, <1>s, <1>q, <1>0, Zenon
    <3> QED
      BY <3>1
  <2> QED
    BY <2>1, <1>0, FramesStay
<1>2. ASSUME NEW i \in 1..Passed' PROVE Judged(i)'
  <2>1. i \in 1..Passed \/ i \in Passed + 1..p \/ i = p + 1
    <3>1. Passed \in Nat /\ p \in Nat /\ i \in 1..p + 1
      BY <1>t, <1>s, <1>q, Zenon
    <3> QED
      BY <3>1
  <2>2. CASE i \in 1..Passed
    <3>1. /\ Len(accepted') \in Nat /\ Len(accepted) <= Len(accepted')
          /\ \A k \in 1..Len(accepted) : accepted'[k] = accepted[k]
      BY <1>t, <1>0
    <3> QED
      BY <2>2, <3>1, <1>0, JudgedStays, Zenon
  <2>3. CASE i \in Passed + 1..p
    BY <2>3, <1>s, <1>0, Zenon DEF Judged
  <2>4. CASE i = p + 1
    <3>1. HasLengthAt(i) /\ (~PlausibleAt(i) \/ (WholeAt(i) /\ ~SoundAt(i)))
      BY <2>4, <1>v, Zenon
    <3>2. \/ HasLengthAt(i)' /\ ~PlausibleAt(i)'
          \/ WholeAt(i)' /\ ~SoundAt(i)'
      BY <3>1, <1>0, Zenon
      DEF HasLengthAt, PlausibleAt, WholeAt, SoundAt, StartsAt, EndOf
    <3> QED
      BY <3>2, Zenon DEF Judged
  <2> QED
    BY <2>1, <2>2, <2>3, <2>4
<1>3. BytesTyped'
  <2>1. Len(rxbuf') <= BufferSize
    <3>1. Len(rxbuf) <= BufferSize /\ MaxPayload \in Nat
      BY UplinkAssumption, Zenon DEF UplinkInv, UplinkTypeOK
    <3>2. Len(rxbuf') \in Nat /\ Len(rxbuf) \in Nat /\ Len(rxbuf') <= Len(rxbuf)
      BY <1>t, <1>w, Zenon
    <3> QED
      BY <3>1, <3>2 DEF BufferSize, FrameMax, Overhead
  <2>2. taken' \in 0..Len(stream')
    BY <1>0, Zenon DEF UplinkInv, UplinkTypeOK
  <2> QED
    BY <2>1, <2>2, <1>0, <1>w, Zenon DEF BytesTyped
<1>4. /\ stream' \in Streams
      /\ accepted' \in Seq([at : Nat, id : Byte, payload : Seq(Byte)])
  BY <1>0, Zenon DEF UplinkInv
<1>5. ~polling' => Len(rxbuf') <= 1 \/ CutShortAt(Passed + 1)'
  BY <1>0, Zenon
<1>6. RequestsMatchFrames' /\ FlagsTyped'
  BY <1>0, RequestsStay
<1> QED
  BY <1>1, <1>2, <1>3, <1>4, <1>5, <1>6, <1>w, Zenon
  DEF UplinkInv, UplinkTypeOK, BytesTyped, FlagsTyped

(* The loop ends at a frame that is cut short, or at the last byte, and    *)
(* what it keeps is never enough to be dropped.                            *)
LEMMA EndPollKeeps ==
  ASSUME UplinkInv, NEW start \in 0..Len(rxbuf), EndPoll(start)
  PROVE  UplinkInv'
<1> DEFINE buf == Skip(rxbuf, start)
           p == Passed + start
<1>t. /\ taken \in Nat /\ Len(rxbuf) \in Nat
      /\ Passed \in Nat /\ Passed <= taken /\ Passed + Len(rxbuf) = taken
      /\ Len(accepted) \in Nat
  BY UplinkTyped
<1>g. IsScanned(rxbuf, start) /\ Incomplete(buf)
  BY Zenon DEF EndPoll
<1>s. /\ p \in Nat /\ p + Len(buf) = taken /\ Len(buf) \in Nat /\ buf \in Seq(Byte)
      /\ \A i \in Passed + 1..p :
           i < taken /\ ~(stream[i] = Sync0 /\ stream[i + 1] = Sync1)
  BY <1>g, ScanFacts, Zenon
<1>v. Len(buf) < FrameMax /\ (Len(buf) <= 1 \/ CutShortAt(p + 1))
  BY <1>g, VerdictFacts, Zenon
<1>b. Len(buf) < BufferSize /\ FrameMax <= BufferSize
  <2>1. MaxPayload \in Nat /\ Len(buf) \in Nat /\ Len(buf) < FrameMax
    BY <1>s, <1>v, UplinkAssumption, Zenon
  <2> HIDE DEF buf
  <2> QED
    BY <2>1 DEF BufferSize, FrameMax, Overhead
<1>0. /\ rxbuf' = Skip(buf, 0) /\ rxbuf' = buf
      /\ UNCHANGED inputVars /\ stream' = stream /\ taken' = taken
      /\ polling' = FALSE /\ accepted' = accepted
      /\ UNCHANGED <<pendingVars, accepted, seenVars>>
  <2>1. ~(Len(buf) >= BufferSize)
    <3>1. BufferSize \in Int
      BY UplinkAssumption DEF BufferSize, FrameMax, Overhead
    <3>2. Len(buf) \in Nat /\ Len(buf) < BufferSize
      BY <1>s, <1>b, Zenon
    <3> HIDE DEF buf
    <3> QED
      BY <3>1, <3>2
  <2>2. rxbuf' = buf
    BY <2>1, Zenon DEF EndPoll
  <2>3. Skip(buf, 0) = buf
    <3> HIDE DEF buf
    <3>1. SubSeq(buf, 1, Len(buf)) = buf
      BY <1>s, SubSeqFull, Zenon
    <3>2. 0 + 1 = 1
      OBVIOUS
    <3> QED
      BY <3>1, <3>2, Zenon DEF Skip
  <2> QED
    BY <2>2, <2>3, Zenon DEF EndPoll, inputVars
<1>n. 0 \in 0..Len(buf)
  BY <1>s
<1>w. /\ rxbuf' \in Seq(Byte) /\ Len(rxbuf') \in Nat
      /\ Len(rxbuf') <= Len(rxbuf)
      /\ Passed' = Passed + start + 0 /\ Passed' <= taken
      /\ BufferIsAWindow'
  BY <1>0, <1>n, <1>g, WindowMoves, Zenon
<1> HIDE DEF buf, p
<1>q. Passed' = p /\ Passed <= p
  <2>1. Passed \in Nat /\ start \in 0..Len(rxbuf) /\ Len(rxbuf) \in Nat
    BY <1>t, Zenon
  <2> QED
    BY <2>1, <1>w DEF p
<1>1. FramesAreBehind'
  <2>1. Passed' \in Nat /\ Passed <= Passed' /\ taken <= taken' /\ taken' \in Nat
    <3>1. p \in Nat /\ Passed \in Nat /\ taken \in Nat /\ taken' = taken
          /\ Passed' = p /\ Passed <= p
      BY <1>t, <1>s, <1>q, <1>0, Zenon
    <3> QED
      BY <3>1
  <2> QED
    BY <2>1, <1>0, FramesStay
<1>2. ASSUME NEW i \in 1..Passed' PROVE Judged(i)'
  <2>1. i \in 1..Passed \/ i \in Passed + 1..p
    <3>1. Passed \in Nat /\ p \in Nat /\ i \in 1..p
      BY <1>t, <1>s, <1>q, Zenon
    <3> QED
      BY <3>1
  <2>2. CASE i \in 1..Passed
    <3>1. /\ Len(accepted') \in Nat /\ Len(accepted) <= Len(accepted')
          /\ \A k \in 1..Len(accepted) : accepted'[k] = accepted[k]
      BY <1>t, <1>0
    <3> QED
      BY <2>2, <3>1, <1>0, JudgedStays, Zenon
  <2>3. CASE i \in Passed + 1..p
    BY <2>3, <1>s, <1>0, Zenon DEF Judged
  <2> QED
    BY <2>1, <2>2, <2>3
<1>3. BytesTyped'
  <2>1. Len(rxbuf') <= BufferSize /\ Len(rxbuf') < FrameMax
    <3>1. Len(rxbuf') \in Nat /\ Len(rxbuf') < FrameMax /\ Len(rxbuf') < BufferSize
      BY <1>0, <1>w, <1>v, <1>b, Zenon
    <3>2. MaxPayload \in Nat
      BY UplinkAssumption
    <3> QED
      BY <3>1, <3>2 DEF BufferSize, FrameMax, Overhead
  <2>2. taken' \in 0..Len(stream')
    BY <1>0, Zenon DEF UplinkInv, UplinkTypeOK
  <2> QED
    BY <2>1, <2>2, <1>0, <1>w, Zenon DEF BytesTyped
<1>4. /\ stream' \in Streams
      /\ accepted' \in Seq([at : Nat, id : Byte, payload : Seq(Byte)])
  BY <1>0, Zenon DEF UplinkInv
<1>5. Len(rxbuf') <= 1 \/ CutShortAt(Passed + 1)'
  <2>1. CASE Len(buf) <= 1
    BY <2>1, <1>0, Zenon
  <2>2. ASSUME NEW i, i = p + 1, CutShortAt(p + 1) PROVE CutShortAt(i)'
    BY <2>2, <1>0, Zenon
    DEF CutShortAt, StartsAt, WholeAt, HasLengthAt, PlausibleAt, EndOf
  <2>3. CASE CutShortAt(p + 1)
    <3>1. ASSUME NEW i, i = Passed' + 1 PROVE CutShortAt(i)'
      BY <2>2, <2>3, <3>1, <1>q, Zenon
    <3> QED
      BY <3>1, Zenon DEF CutShortAt, StartsAt, WholeAt, HasLengthAt, PlausibleAt, EndOf
  <2> QED
    BY <2>1, <2>3, <1>v, Zenon
<1>6. RequestsMatchFrames' /\ FlagsTyped'
  BY <1>0, RequestsStay
<1> QED
  BY <1>1, <1>2, <1>3, <1>4, <1>5, <1>6, <1>w, Zenon
  DEF UplinkInv, UplinkTypeOK, BytesTyped, FlagsTyped

LEMMA UplinkStepKeeps == UplinkInv /\ [UplinkNext]_uplinkVars => UplinkInv'
<1> SUFFICES ASSUME UplinkInv, [UplinkNext]_uplinkVars PROVE UplinkInv'
  OBVIOUS
<1>1. ASSUME NEW n \in 1..Len(stream) - taken, TopUp(n) PROVE UplinkInv'
  BY <1>1, TopUpKeeps
<1>2. ASSUME NEW start \in 0..Len(rxbuf), TakeFrame(start) PROVE UplinkInv'
  BY <1>2, TakeFrameKeeps
<1>3. ASSUME NEW start \in 0..Len(rxbuf), Resync(start) PROVE UplinkInv'
  BY <1>3, ResyncKeeps
<1>4. ASSUME NEW start \in 0..Len(rxbuf), EndPoll(start) PROVE UplinkInv'
  BY <1>4, EndPollKeeps
<1>5. CASE TakeTestRequest \/ TakeHeatRequest \/ TakeWipeRequest
  <2>1. UNCHANGED <<inputVars, rxbuf, polling, accepted>>
    BY <1>5, Zenon DEF TakeTestRequest, TakeHeatRequest, TakeWipeRequest
  <2>2. RequestsMatchFrames' /\ FlagsTyped'
    BY <1>5, RequestTaken
  <2> QED
    BY <2>1, <2>2, BytesStay
<1>6. CASE UNCHANGED uplinkVars
  <2>1. /\ UNCHANGED <<inputVars, rxbuf, polling, accepted>>
        /\ UNCHANGED <<pendingVars, accepted, seenVars>>
    BY <1>6, Zenon DEF uplinkVars
  <2>2. RequestsMatchFrames' /\ FlagsTyped'
    BY <2>1, RequestsStay
  <2> QED
    BY <2>1, <2>2, BytesStay
<1> QED
  BY <1>1, <1>2, <1>3, <1>4, <1>5, <1>6, Zenon DEF UplinkNext

LEMMA UplinkInvHolds == UplinkSpec => []UplinkInv
<1> QED
  BY UplinkInitHolds, UplinkStepKeeps, PTL DEF UplinkSpec

(* What the receiver acts on is what the bytes say, in whatever chunks     *)
(* they came (uart_tcu_poll, scan_for_sync, try_consume_frame): the        *)
(* leftmost sound frames that do not overlap, up to one that is cut short. *)
THEOREM ChunksDoNotMatter == UplinkSpec => []ChunksMakeNoDifference
<1>1. ASSUME UplinkInv PROVE ChunksMakeNoDifference
  <2>t. /\ taken \in Nat /\ Len(rxbuf) \in Nat /\ Passed \in Nat
        /\ Passed <= taken /\ Passed + Len(rxbuf) = taken
    BY <1>1, UplinkTyped, Zenon
  <2>1. ASSUME NEW k \in 1..Len(accepted)
        PROVE  /\ accepted[k].at \in 1..taken /\ SoundAt(accepted[k].at)
               /\ accepted[k] = FrameAt(accepted[k].at)
               /\ \A l \in k + 1..Len(accepted) : EndOf(accepted[k].at) <= accepted[l].at
    <3>1. /\ accepted[k].at \in 1..Passed /\ SoundAt(accepted[k].at)
          /\ accepted[k] = FrameAt(accepted[k].at)
          /\ \A l \in k + 1..Len(accepted) : EndOf(accepted[k].at) <= accepted[l].at
      BY <1>1, Zenon DEF UplinkInv, FramesAreBehind
    <3>2. accepted[k].at \in 1..taken
      BY <3>1, <2>t
    <3> QED
      BY <3>1, <3>2, Zenon
  <2>2. ASSUME NEW i \in 1..taken, ~Covered(i), CutShortAt(i) \/ SoundAt(i)
        PROVE  i > Passed
    <3>1. ASSUME i \in 1..Passed PROVE FALSE
      <4>1. Judged(i)
        BY <1>1, <3>1, Zenon DEF UplinkInv
      <4> QED
        BY <2>2, <4>1, Zenon DEF Judged, CutShortAt, SoundAt, StartsAt, WholeAt
    <3> QED
      BY <3>1, <2>t
  <2>3. ASSUME NEW i \in 1..taken, ~Covered(i), CutShortAt(i), NEW k \in 1..Len(accepted)
        PROVE  accepted[k].at < i
    <3>1. accepted[k].at \in 1..Passed /\ i > Passed
      BY <1>1, <2>2, <2>3, Zenon DEF UplinkInv, FramesAreBehind
    <3> QED
      BY <3>1, <2>t
  <2>4. ASSUME NEW i \in 1..taken, ~Covered(i), SoundAt(i), ~polling
        PROVE  \E j \in 1..i - 1 : CutShortAt(j) /\ ~Covered(j)
    <3>1. i > Passed /\ WholeAt(i) /\ i < taken
      BY <2>2, <2>4, Zenon DEF SoundAt, StartsAt
    <3>2. CutShortAt(Passed + 1)
      <4>1. ~(Len(rxbuf) <= 1)
        BY <3>1, <2>t
      <4> QED
        BY <4>1, <1>1, <2>4, Zenon DEF UplinkInv
    <3>3. i # Passed + 1
      BY <3>1, <3>2, Zenon DEF CutShortAt
    <3>4. Passed + 1 \in 1..i - 1
      BY <3>1, <3>3, <2>t
    <3>5. ~Covered(Passed + 1)
      <4>1. ASSUME NEW k \in 1..Len(accepted), Passed + 1 < EndOf(accepted[k].at) PROVE FALSE
        <5>1. /\ accepted[k].at \in 1..Passed /\ WholeAt(accepted[k].at)
              /\ EndOf(accepted[k].at) <= Passed + 1
          BY <1>1, Zenon DEF UplinkInv, FramesAreBehind, SoundAt
        <5>2. EndOf(accepted[k].at) \in Int
          BY <1>1, <5>1, EndIsANumber, Zenon
        <5> QED
          BY <4>1, <5>1, <5>2, <2>t
      <4> QED
        BY <4>1, Zenon DEF Covered
    <3> QED
      BY <3>2, <3>4, <3>5, Zenon
  <2>5. UplinkTypeOK
    BY <1>1, Zenon DEF UplinkInv
  <2> QED
    BY <2>1, <2>3, <2>4, <2>5, Zenon DEF ChunksMakeNoDifference
<1> QED
  BY <1>1, UplinkInvHolds, PTL

(* A request waits exactly when a frame asked for it since it was last     *)
(* taken, whatever else came meanwhile (handle_frame and the three         *)
(* uart_tcu_take functions).                                               *)
THEOREM RequestsMatch == UplinkSpec => []RequestsMatchFrames
<1>1. UplinkInv => RequestsMatchFrames
  BY Zenon DEF UplinkInv
<1> QED
  BY <1>1, UplinkInvHolds, PTL

=============================================================================
