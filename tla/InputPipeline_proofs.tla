------------------------- MODULE InputPipeline_proofs ------------------------
(***************************************************************************)
(* Theorems about InputPipeline, for every set of flags, every debounce    *)
(* depth, launch count and still count, and any accelerations.             *)
(***************************************************************************)
EXTENDS InputPipeline, TLAPS

(* Each counter is the length of the newest run in its window, and the     *)
(* entry behind the run, where there is one, is of the other kind.         *)
StreakIsARun ==
  \A f \in Flags :
    /\ \A i \in 1 .. streak[f] : window[f][i] # level[f]
    /\ window[f][streak[f] + 1] = level[f]

LaunchCountIsARun ==
  /\ launch_latched => \A i \in 1 .. LaunchConfirmCycles : judged[i]
  /\ ~launch_latched =>
       /\ launch_cycles < LaunchConfirmCycles
       /\ \A i \in 1 .. launch_cycles : judged[i]
       /\ ~judged[launch_cycles + 1]

StillCountIsARun ==
  /\ \A i \in 1 .. static_cycles : still[i]
  /\ static_cycles < StaticCycles => ~still[static_cycles + 1]
  /\ frozen <=> static_cycles >= StaticCycles

(* A boost that began with a jump: the still count cannot have kept up     *)
(* with it, and the launch count is at most one cycle behind.              *)
BoostIsCounted ==
  /\ boost_for \in 1 .. LaunchConfirmCycles => static_cycles < boost_for
  /\ boost_for > 0 => launch_latched \/ launch_cycles >= boost_for - 1

IInv == TypeOK /\ StreakIsARun /\ LaunchCountIsARun /\ StillCountIsARun
               /\ BoostIsCounted

-----------------------------------------------------------------------------
(* The places of a window of n entries, and of a run of k of them.         *)
LEMMA Indices ==
  ASSUME NEW n \in Nat \ {0}
  PROVE  /\ 1 \in 1 .. n
         /\ \A i \in 1 .. n : i # 1 => i - 1 \in 1 .. n
         /\ \A i \in 1 .. n - 1 :
              (i \in 1 .. n /\ i + 1 \in 1 .. n /\ i + 1 # 1 /\ (i + 1) - 1 = i)
         /\ \A k \in 0 .. n - 1 : \A i \in 1 .. k + 1 :
              i \in 1 .. n /\ (i = 1 \/ i - 1 \in 1 .. k)
  BY SMT

(* A window after one more entry: the newest comes first, the others move  *)
(* back by one.                                                            *)
Pushed(n, w, x) == [i \in 1 .. n |-> IF i = 1 THEN x ELSE w[i - 1]]

(* The newest k entries of w all differ from b. *)
RunOf(w, k, b) == \A i \in 1 .. k : w[i] # b

(* The newest entry is the one pushed.                                     *)
LEMMA PushedFirst ==
  ASSUME NEW n \in Nat \ {0}, NEW w, NEW x
  PROVE  Pushed(n, w, x)[1] = x
  BY Indices, Zenon DEF Pushed

(* A window of members of T stays one.                                     *)
LEMMA PushedTyped ==
  ASSUME NEW n \in Nat \ {0}, NEW T, NEW w \in [1 .. n -> T], NEW x \in T
  PROVE  Pushed(n, w, x) \in [1 .. n -> T]
  BY Indices, Zenon DEF Pushed

(* A run of k entries becomes one of k + 1.                                *)
LEMMA RunGrows ==
  ASSUME NEW n \in Nat \ {0}, NEW w, NEW x, NEW b, NEW k \in 0 .. n - 1,
         RunOf(w, k, b), x # b
  PROVE  RunOf(Pushed(n, w, x), k + 1, b)
<1> SUFFICES ASSUME NEW i \in 1 .. k + 1
             PROVE  Pushed(n, w, x)[i] # b
  BY Zenon DEF RunOf
<1>1. i \in 1 .. n /\ (i = 1 \/ i - 1 \in 1 .. k)
  BY Indices, Zenon
<1>2. Pushed(n, w, x)[i] = IF i = 1 THEN x ELSE w[i - 1]
  BY <1>1, Zenon DEF Pushed
<1> QED
  BY <1>1, <1>2, Zenon DEF RunOf

(* The entry behind a run stays behind it.                                 *)
LEMMA RunKeepsItsEnd ==
  ASSUME NEW n \in Nat \ {0}, NEW w, NEW x, NEW k \in 0 .. n - 1, k + 1 < n
  PROVE  Pushed(n, w, x)[k + 2] = w[k + 1]
<1>1. k + 2 \in 1 .. n /\ k + 2 # 1 /\ (k + 2) - 1 = k + 1
  BY SMT
<1> QED
  BY <1>1, Zenon DEF Pushed

(* The boot establishes the invariant.                                     *)
LEMMA InitHolds == Init => IInv
<1> SUFFICES ASSUME Init PROVE IInv
  OBVIOUS
<1> USE DebounceAssumption, LaunchAssumption, FrozenAssumption, FlagsAssumption
<1>1. PICK raw \in RawLevels :
        /\ pin = raw /\ level = raw /\ lo_ever = raw["LO"]
        /\ window = [f \in Flags |-> [i \in 1 .. DebounceSamples |-> raw[f]]]
  BY Zenon DEF Init
<1>2. DiscretesTypeOK
  <2>1. 0 \in 0 .. DebounceSamples - 1
    BY SMT
  <2>2. lo_ever \in BOOLEAN /\ "LO" \in Flags
    BY <1>1, Zenon DEF RawLevels
  <2> QED
    BY <1>1, <2>1, <2>2, Zenon DEF Init, DiscretesTypeOK
<1>3. window \in [Flags -> [1 .. DebounceSamples -> BOOLEAN]]
  BY <1>1, Zenon DEF RawLevels
<1>4. TypeOK
  <2>1. LaunchTypeOK /\ FrozenTypeOK
    <3>1. 0 \in 0 .. LaunchConfirmCycles /\ 0 \in 0 .. StaticCycles /\ 0 \in Int
      BY SMT
    <3> QED
      BY <3>1, Zenon DEF Init, LaunchReset, FrozenReset, LaunchTypeOK, FrozenTypeOK
  <2>2. boost_for \in 0 .. LaunchConfirmCycles + 1
    BY SMT DEF Init
  <2> QED
    BY <1>2, <1>3, <2>1, <2>2, Zenon DEF Init, TypeOK
<1>5. StreakIsARun
  <2>1. \A f \in Flags : streak[f] = 0 /\ window[f][1] = level[f]
    <3>1. 1 \in 1 .. DebounceSamples
      BY SMT
    <3> QED
      BY <1>1, <3>1, Zenon DEF Init
  <2>2. 0 + 1 = 1 /\ \A i \in 1 .. 0 : FALSE
    BY SMT
  <2> QED
    BY <2>1, <2>2, Zenon DEF StreakIsARun
<1>6. LaunchCountIsARun
  BY SMT DEF Init, LaunchReset, LaunchCountIsARun
<1>7. StillCountIsARun
  BY SMT DEF Init, FrozenReset, StillCountIsARun
<1>8. BoostIsCounted
  BY SMT DEF Init, BoostIsCounted
<1> QED
  BY <1>4, <1>5, <1>6, <1>7, <1>8 DEF IInv

-----------------------------------------------------------------------------
(* The parts of a cycle, each on its own. *)

(* The filter: its level does what the hold filter's output does.          *)
LEMMA FilterStep ==
  ASSUME IInv, NEW raw \in RawLevels, SamplePins(raw),
         window' = [f \in Flags |-> Filter!Shifted(window[f], raw[f])]
  PROVE  /\ DiscretesTypeOK'
         /\ window' \in [Flags -> [1 .. DebounceSamples -> BOOLEAN]]
         /\ StreakIsARun'
         /\ Filter!Feed(raw)
<1> USE DebounceAssumption
<1>t. /\ level \in RawLevels /\ streak \in [Flags -> 0 .. DebounceSamples - 1]
      /\ lo_ever \in BOOLEAN
      /\ window \in [Flags -> [1 .. DebounceSamples -> BOOLEAN]]
  BY Zenon DEF IInv, TypeOK, DiscretesTypeOK
<1>1. ASSUME NEW f \in Flags
      PROVE  /\ level'[f] = IF Accepts(f, raw) THEN raw[f] ELSE level[f]
             /\ streak'[f] = IF raw[f] = level[f] \/ Accepts(f, raw) THEN 0
                             ELSE streak[f] + 1
             /\ window'[f] = Pushed(DebounceSamples, window[f], raw[f])
             /\ raw[f] \in BOOLEAN /\ level[f] \in BOOLEAN
             /\ streak[f] \in 0 .. DebounceSamples - 1
             /\ \A i \in 1 .. streak[f] : window[f][i] # level[f]
             /\ window[f][streak[f] + 1] = level[f]
             /\ \A i \in 1 .. DebounceSamples : window[f][i] \in BOOLEAN
  <2>1. level'[f] = IF Accepts(f, raw) THEN raw[f] ELSE level[f]
    BY Zenon DEF SamplePins
  <2>2. streak'[f] = IF raw[f] = level[f] \/ Accepts(f, raw) THEN 0
                     ELSE streak[f] + 1
    BY Zenon DEF SamplePins
  <2>3. window'[f] = Pushed(DebounceSamples, window[f], raw[f])
    BY Zenon DEF Filter!Shifted, Pushed
  <2>4. raw[f] \in BOOLEAN /\ level[f] \in BOOLEAN
    BY <1>t, Zenon DEF RawLevels
  <2>5. /\ streak[f] \in 0 .. DebounceSamples - 1
        /\ \A i \in 1 .. DebounceSamples : window[f][i] \in BOOLEAN
    BY <1>t, Zenon
  <2>6. /\ \A i \in 1 .. streak[f] : window[f][i] # level[f]
        /\ window[f][streak[f] + 1] = level[f]
    BY Zenon DEF IInv, StreakIsARun
  <2> QED
    BY <2>1, <2>2, <2>3, <2>4, <2>5, <2>6
<1>2. ASSUME NEW f \in Flags
      PROVE  /\ streak'[f] \in 0 .. DebounceSamples - 1
             /\ \A i \in 1 .. streak'[f] : window'[f][i] # level'[f]
             /\ window'[f][streak'[f] + 1] = level'[f]
             /\ level'[f] = IF \A i \in 1 .. DebounceSamples : window'[f][i] = raw[f]
                            THEN raw[f] ELSE level[f]
  <2> DEFINE n == DebounceSamples
  <2>0. n \in Nat \ {0} /\ streak[f] \in 0 .. n - 1
    BY <1>1, Zenon
  <2>r. /\ window'[f][1] = raw[f]
        /\ \A i \in 1 .. n : window'[f][i] \in BOOLEAN
        /\ raw[f] # level[f] => \A i \in 1 .. streak[f] + 1 : window'[f][i] # level[f]
        /\ streak[f] + 1 < n => window'[f][streak[f] + 2] = window[f][streak[f] + 1]
    <3>1. RunOf(window[f], streak[f], level[f])
      BY <1>1, Zenon DEF RunOf
    <3>2. raw[f] # level[f]
            => RunOf(Pushed(n, window[f], raw[f]), streak[f] + 1, level[f])
      BY <2>0, <3>1, RunGrows, Zenon
    <3>3. Pushed(n, window[f], raw[f])[1] = raw[f]
      BY <2>0, PushedFirst, Zenon
    <3>4. streak[f] + 1 < n
            => Pushed(n, window[f], raw[f])[streak[f] + 2] = window[f][streak[f] + 1]
      BY <2>0, RunKeepsItsEnd, ZenonT(40)
    <3>5. Pushed(n, window[f], raw[f]) \in [1 .. n -> BOOLEAN]
      <4>1. window[f] \in [1 .. n -> BOOLEAN]
        BY <1>t, Zenon
      <4> QED
        BY <1>1, <2>0, <4>1, PushedTyped, Zenon
    <3>6. \A i \in 1 .. n : Pushed(n, window[f], raw[f])[i] \in BOOLEAN
      BY <3>5, Zenon
    <3> QED
      BY <1>1, <3>2, <3>3, <3>4, <3>6, Zenon DEF RunOf
  <2>e. streak[f] + 1 >= n <=> ~(streak[f] + 1 < n)
    BY <2>0, SMT
  <2>1. CASE raw[f] = level[f]
    <3>1. level'[f] = level[f] /\ streak'[f] = 0
      BY <1>1, <2>1, Zenon DEF Accepts
    <3>2. 0 + 1 = 1 /\ 0 \in 0 .. n - 1 /\ \A i \in 1 .. 0 : FALSE
      BY SMT
    <3> QED
      BY <2>1, <2>r, <3>1, <3>2, Zenon
  <2>2. CASE Accepts(f, raw)
    <3>1. level'[f] = raw[f] /\ streak'[f] = 0 /\ raw[f] # level[f]
      BY <1>1, <2>2, Zenon DEF Accepts
    <3>2. streak[f] + 1 >= n
      BY <2>2, Zenon DEF Accepts
    <3>3. streak[f] + 1 = n /\ 0 + 1 = 1 /\ 0 \in 0 .. n - 1
          /\ \A i \in 1 .. 0 : FALSE
      BY <2>0, <3>2, SMT
    <3>4. \A i \in 1 .. n : window'[f][i] # level[f]
      BY <2>r, <3>1, <3>3, Zenon
    <3>5. \A i \in 1 .. n : window'[f][i] = raw[f]
      <4>1. ASSUME NEW i \in 1 .. n PROVE window'[f][i] = raw[f]
        <5>1. /\ window'[f][i] \in BOOLEAN /\ raw[f] \in BOOLEAN
              /\ level[f] \in BOOLEAN /\ window'[f][i] # level[f]
          BY <1>1, <2>r, <3>4, Zenon
        <5> QED
          BY <3>1, <5>1, Zenon
      <4> QED
        BY <4>1
    <3> QED
      BY <2>r, <3>1, <3>3, <3>5, Zenon
  <2>3. CASE raw[f] # level[f] /\ ~Accepts(f, raw)
    <3>1. level'[f] = level[f] /\ streak'[f] = streak[f] + 1
      BY <1>1, <2>3, Zenon
    <3>2. streak[f] + 1 < n
      BY <2>3, <2>e, Zenon DEF Accepts
    <3>3. window'[f][streak[f] + 2] = level[f]
      BY <1>1, <2>r, <3>2, Zenon
    <3>4. /\ streak[f] + 2 \in 1 .. n /\ streak[f] + 1 \in 0 .. n - 1
          /\ (streak[f] + 1) + 1 = streak[f] + 2
      BY <2>0, <3>2, SMT
    <3>5. ~ \A i \in 1 .. n : window'[f][i] = raw[f]
      BY <2>3, <3>3, <3>4, Zenon
    <3>6. \A i \in 1 .. streak[f] + 1 : window'[f][i] # level[f]
      BY <1>1, <2>3, <2>r, Zenon
    <3> QED
      BY <3>1, <3>3, <3>4, <3>5, <3>6, Zenon
  <2> QED
    BY <2>1, <2>2, <2>3, Zenon
<1>3. level' \in RawLevels
  <2>1. \A f \in Flags : level'[f] \in BOOLEAN
    BY <1>1, Zenon
  <2> QED
    BY <2>1, Zenon DEF SamplePins, RawLevels
<1>4. DiscretesTypeOK'
  <2>1. lo_ever' \in BOOLEAN
    BY Zenon DEF SamplePins
  <2>2. streak' \in [Flags -> 0 .. DebounceSamples - 1]
    BY <1>2, Zenon DEF SamplePins
  <2> QED
    BY <1>3, <2>1, <2>2, Zenon DEF DiscretesTypeOK, SamplePins
<1>5. window' \in [Flags -> [1 .. DebounceSamples -> BOOLEAN]]
  <2>1. ASSUME NEW f \in Flags
        PROVE  window'[f] \in [1 .. DebounceSamples -> BOOLEAN]
    <3>1. window[f] \in [1 .. DebounceSamples -> BOOLEAN]
      BY <1>t, Zenon
    <3> QED
      <4>1. /\ window'[f] = Pushed(DebounceSamples, window[f], raw[f])
            /\ raw[f] \in BOOLEAN
        BY <1>1, Zenon
      <4>2. Pushed(DebounceSamples, window[f], raw[f]) \in [1 .. DebounceSamples -> BOOLEAN]
        BY <3>1, <4>1, PushedTyped, Zenon
      <4> QED
        BY <4>1, <4>2, Zenon
  <2>2. window' = [f \in Flags |-> window'[f]]
    BY Zenon
  <2> QED
    BY <2>1, <2>2, Zenon
<1>6. StreakIsARun'
  BY <1>2, Zenon DEF StreakIsARun
<1>7. Filter!Feed(raw)
  <2>1. level' = [f \in Flags |->
                    IF Filter!Unanimous(window'[f], raw[f]) THEN raw[f] ELSE level[f]]
    BY <1>2, Zenon DEF SamplePins, Filter!Unanimous
  <2> QED
    BY <2>1, Zenon DEF Filter!Feed
<1> QED
  BY <1>4, <1>5, <1>6, <1>7

(* The memory of the detector: Remember's judged, with Reading abstracted. *)
LooksBack(lo, imu) ==
  judged' = IF lo \/ launch_latched THEN judged
            ELSE Pushed(LaunchConfirmCycles, judged, imu = "boost")

(* The detector: its count stays the length of the newest boost run.       *)
LEMMA LaunchStep ==
  ASSUME IInv, NEW lo, NEW imu, CollectLaunch(lo, imu), LooksBack(lo, imu)
  PROVE  /\ LaunchTypeOK'
         /\ judged' \in [1 .. LaunchConfirmCycles -> BOOLEAN]
         /\ LaunchCountIsARun'
         /\ launch_latched => launch_latched'
         /\ ~lo /\ imu = "boost" /\ ~launch_latched
              => launch_latched' \/ launch_cycles' = launch_cycles + 1
<1> USE LaunchAssumption
<1>t. /\ launch_cycles \in 0 .. LaunchConfirmCycles /\ launch_latched \in BOOLEAN
      /\ judged \in [1 .. LaunchConfirmCycles -> BOOLEAN]
  BY Zenon DEF IInv, TypeOK, LaunchTypeOK
<1>1. CASE lo \/ launch_latched
  <2>1. judged' = judged /\ launch_latched' = launch_latched
        /\ launch_cycles' = launch_cycles
    BY <1>1, <1>t, Zenon
    DEF CollectLaunch, ConsultImu, LaunchDetected, launchVars, LooksBack
  <2> QED
    BY <1>1, <1>t, <2>1, Zenon DEF IInv, LaunchCountIsARun, LaunchTypeOK
<1>2. CASE ~(lo \/ launch_latched) /\ imu # "boost"
  <2>1. launch_cycles' = 0 /\ ~launch_latched' /\ launch_latched' \in BOOLEAN
    BY <1>2, <1>t, Zenon
    DEF CollectLaunch, ConsultImu, LaunchDetected, Confirms, CountAfter
  <2>2. judged' = Pushed(LaunchConfirmCycles, judged, FALSE)
    <3>1. (imu = "boost") = FALSE
      BY <1>2, Zenon
    <3> QED
      BY <1>2, <3>1, Zenon DEF LooksBack
  <2>3. ~judged'[1]
    BY <2>2, PushedFirst, Zenon
  <2>4. judged' \in [1 .. LaunchConfirmCycles -> BOOLEAN]
    BY <1>t, <2>2, PushedTyped, Zenon
  <2> QED
    <3>1. /\ 0 < LaunchConfirmCycles /\ 0 \in 0 .. LaunchConfirmCycles /\ 0 + 1 = 1
          /\ \A i \in 1 .. 0 : FALSE
      BY SMT
    <3> QED
      BY <1>2, <2>1, <2>3, <2>4, <3>1, Zenon DEF LaunchCountIsARun, LaunchTypeOK
<1>3. CASE ~(lo \/ launch_latched) /\ imu = "boost"
  <2>1. /\ launch_cycles < LaunchConfirmCycles
        /\ \A i \in 1 .. launch_cycles : judged[i]
        /\ ~judged[launch_cycles + 1]
    BY <1>3, Zenon DEF IInv, LaunchCountIsARun
  <2>2. launch_cycles' = launch_cycles + 1
    BY <1>3, <2>1, Zenon DEF CollectLaunch, ConsultImu, CountAfter
  <2>3. /\ launch_latched' <=> launch_cycles + 1 >= LaunchConfirmCycles
        /\ launch_latched' \in BOOLEAN
    BY <1>3, <2>1, Zenon
    DEF CollectLaunch, ConsultImu, LaunchDetected, Confirms, CountAfter
  <2>4. judged' = Pushed(LaunchConfirmCycles, judged, TRUE)
    <3>1. (imu = "boost") = TRUE
      BY <1>3, Zenon
    <3> QED
      BY <1>3, <3>1, Zenon DEF LooksBack
  <2>5. judged' \in [1 .. LaunchConfirmCycles -> BOOLEAN]
    BY <1>t, <2>4, PushedTyped, Zenon
  <2>6. /\ \A i \in 1 .. launch_cycles + 1 : judged'[i]
        /\ launch_cycles + 1 < LaunchConfirmCycles => ~judged'[launch_cycles + 2]
    <3>1. /\ launch_cycles \in 0 .. LaunchConfirmCycles - 1
          /\ \A i \in 1 .. launch_cycles + 1 : i \in 1 .. LaunchConfirmCycles
      BY <1>t, <2>1, SMT
    <3>2. RunOf(judged, launch_cycles, FALSE)
      BY <2>1, Zenon DEF RunOf
    <3>3. RunOf(judged', launch_cycles + 1, FALSE)
      BY <2>4, <3>1, <3>2, RunGrows, Zenon
    <3>4. launch_cycles + 1 < LaunchConfirmCycles
            => judged'[launch_cycles + 2] = judged[launch_cycles + 1]
      BY <2>4, <3>1, RunKeepsItsEnd, Zenon
    <3>5. \A i \in 1 .. launch_cycles + 1 : judged'[i] \in BOOLEAN
      BY <2>5, <3>1, Zenon
    <3> QED
      BY <2>1, <3>3, <3>4, <3>5, Zenon DEF RunOf
  <2>8. LaunchCountIsARun'
    <3>1. CASE launch_latched'
      <4>1. launch_cycles + 1 = LaunchConfirmCycles
        BY <1>t, <2>1, <2>3, <3>1, SMT
      <4> QED
        BY <2>6, <3>1, <4>1, Zenon DEF LaunchCountIsARun
    <3>2. CASE ~launch_latched'
      <4>1. launch_cycles' < LaunchConfirmCycles
            /\ launch_cycles' + 1 = launch_cycles + 2
        BY <1>t, <2>2, <2>3, <3>2, SMT
      <4> QED
        BY <2>2, <2>6, <3>2, <4>1, Zenon DEF LaunchCountIsARun
    <3> QED
      BY <3>1, <3>2
  <2>9. LaunchTypeOK'
    <3>1. launch_cycles' \in 0 .. LaunchConfirmCycles
      BY <1>t, <2>1, <2>2, SMT
    <3> QED
      BY <2>3, <3>1, Zenon DEF LaunchTypeOK
  <2> QED
    BY <1>3, <2>2, <2>5, <2>8, <2>9, Zenon
<1> QED
  BY <1>1, <1>2, <1>3, Zenon

(* The memory of the frozen check: Remember's still.                       *)
Stilled(az, valid) ==
  still' = IF ~valid THEN still
           ELSE Pushed(StaticCycles, still, ~Moved(az) /\ ~Pegged(az))

(* The check: its count stays the length of the newest still run.          *)
LEMMA FrozenStep ==
  ASSUME IInv, NEW az \in Int, NEW valid \in BOOLEAN, CheckFrozen(az, valid),
         Stilled(az, valid)
  PROVE  /\ FrozenTypeOK'
         /\ still' \in [1 .. StaticCycles -> BOOLEAN]
         /\ StillCountIsARun'
         /\ static_cycles' <= static_cycles + 1
         /\ valid /\ (Moved(az) \/ Pegged(az)) => static_cycles' = 0
<1> USE FrozenAssumption
<1>t. /\ last_az \in Int /\ static_cycles \in 0 .. StaticCycles
      /\ frozen \in BOOLEAN /\ still \in [1 .. StaticCycles -> BOOLEAN]
  BY Zenon DEF IInv, TypeOK, FrozenTypeOK
<1>i. /\ \A i \in 1 .. static_cycles : still[i]
      /\ static_cycles < StaticCycles => ~still[static_cycles + 1]
  BY Zenon DEF IInv, StillCountIsARun
<1>1. CASE ~valid
  <2>1. UNCHANGED <<last_az, static_cycles, frozen, still>>
    BY <1>1, Zenon DEF CheckFrozen, imuVars, Stilled
  <2>2. FrozenTypeOK' /\ StillCountIsARun'
    BY <1>t, <2>1, Zenon DEF IInv, FrozenTypeOK, StillCountIsARun
  <2>3. static_cycles' <= static_cycles + 1
    BY <1>t, <2>1, SMT
  <2> QED
    BY <1>1, <1>t, <2>1, <2>2, <2>3, Zenon
<1>2. CASE valid
  <2>0. /\ last_az' = az /\ static_cycles' = StillAfter(az)
        /\ frozen' \in BOOLEAN
        /\ frozen' <=> static_cycles' >= StaticCycles
    <3>1. (static_cycles' >= StaticCycles) \in BOOLEAN
      BY SMT
    <3>2. /\ last_az' = az /\ static_cycles' = StillAfter(az)
          /\ frozen' = (static_cycles' >= StaticCycles)
      BY <1>2, Zenon DEF CheckFrozen
    <3> QED
      BY <3>1, <3>2, Zenon
  <2>1. still' \in [1 .. StaticCycles -> BOOLEAN]
    <3>1. (~Moved(az) /\ ~Pegged(az)) \in BOOLEAN
      BY Zenon
    <3>2. still' = Pushed(StaticCycles, still, ~Moved(az) /\ ~Pegged(az))
      BY <1>2, Zenon DEF Stilled
    <3> QED
      BY <1>t, <3>1, <3>2, PushedTyped, Zenon
  <2>2. CASE Moved(az) \/ Pegged(az)
    <3>1. static_cycles' = 0
      BY <2>0, <2>2, Zenon DEF StillAfter
    <3>2. still' = Pushed(StaticCycles, still, FALSE)
      <4>1. (~Moved(az) /\ ~Pegged(az)) = FALSE
        BY <2>2, Zenon
      <4> QED
        BY <1>2, <4>1, Zenon DEF Stilled
    <3>3. ~still'[1]
      BY <3>2, PushedFirst, Zenon
    <3>4. StillCountIsARun'
      <4>1. 0 + 1 = 1 /\ \A i \in 1 .. 0 : FALSE
        BY SMT
      <4> QED
        BY <2>0, <3>1, <3>3, <4>1, Zenon DEF StillCountIsARun
    <3>5. FrozenTypeOK' /\ static_cycles' <= static_cycles + 1
      <4>1. static_cycles' \in 0 .. StaticCycles /\ static_cycles' <= static_cycles + 1
        BY <1>t, <3>1, SMT
      <4> QED
        BY <2>0, <4>1, Zenon DEF FrozenTypeOK
    <3> QED
      BY <2>1, <3>1, <3>4, <3>5
  <2>3. CASE ~(Moved(az) \/ Pegged(az))
    <3>1. still' = Pushed(StaticCycles, still, TRUE)
      <4>1. (~Moved(az) /\ ~Pegged(az)) = TRUE
        BY <2>3, Zenon
      <4> QED
        BY <1>2, <4>1, Zenon DEF Stilled
    <3>2. static_cycles' = IF static_cycles < StaticCycles
                           THEN static_cycles + 1 ELSE static_cycles
      BY <2>0, <2>3, Zenon DEF StillAfter
    <3>3. /\ static_cycles' \in 0 .. StaticCycles
          /\ static_cycles' <= static_cycles + 1
      BY <1>t, <3>2, SMT
    <3>4. ASSUME static_cycles < StaticCycles
          PROVE  /\ \A i \in 1 .. static_cycles' : still'[i]
                 /\ static_cycles' < StaticCycles => ~still'[static_cycles' + 1]
      <4>1. /\ static_cycles' = static_cycles + 1
            /\ static_cycles \in 0 .. StaticCycles - 1
            /\ (static_cycles + 1) + 1 = static_cycles + 2
            /\ \A i \in 1 .. static_cycles + 1 : i \in 1 .. StaticCycles
        BY <1>t, <3>2, <3>4, SMT
      <4>2. RunOf(still, static_cycles, FALSE)
        BY <1>i, Zenon DEF RunOf
      <4>3. RunOf(still', static_cycles + 1, FALSE)
        BY <3>1, <4>1, <4>2, RunGrows, Zenon
      <4>4. static_cycles + 1 < StaticCycles
              => still'[static_cycles + 2] = still[static_cycles + 1]
        BY <3>1, <4>1, RunKeepsItsEnd, Zenon
      <4>5. \A i \in 1 .. static_cycles + 1 : still'[i] \in BOOLEAN
        BY <2>1, <4>1, Zenon
      <4> QED
        BY <1>i, <3>4, <4>1, <4>3, <4>4, <4>5, Zenon DEF RunOf
    <3>5. ASSUME ~(static_cycles < StaticCycles)
          PROVE  /\ \A i \in 1 .. static_cycles' : still'[i]
                 /\ static_cycles' < StaticCycles => ~still'[static_cycles' + 1]
      <4>1. /\ static_cycles' = StaticCycles /\ static_cycles = StaticCycles
            /\ StaticCycles - 1 \in 0 .. StaticCycles - 1
            /\ (StaticCycles - 1) + 1 = StaticCycles
            /\ ~(StaticCycles < StaticCycles)
            /\ \A i \in 1 .. StaticCycles - 1 : i \in 1 .. StaticCycles
        BY <1>t, <3>2, <3>5, SMT
      <4>2. RunOf(still, StaticCycles - 1, FALSE)
        BY <1>i, <4>1, Zenon DEF RunOf
      <4>3. RunOf(still', (StaticCycles - 1) + 1, FALSE)
        BY <3>1, <4>1, <4>2, RunGrows, Zenon
      <4>4. \A i \in 1 .. StaticCycles : still'[i] \in BOOLEAN
        BY <2>1, Zenon
      <4> QED
        BY <4>1, <4>3, <4>4, Zenon DEF RunOf
    <3>6. /\ \A i \in 1 .. static_cycles' : still'[i]
          /\ static_cycles' < StaticCycles => ~still'[static_cycles' + 1]
      BY <3>4, <3>5
    <3> QED
      BY <2>0, <2>1, <2>3, <3>3, <3>6, Zenon
      DEF FrozenTypeOK, StillCountIsARun
  <2> QED
    BY <2>2, <2>3, Zenon
<1> QED
  BY <1>1, <1>2, Zenon

-----------------------------------------------------------------------------
(* One cycle, put together: the boost history follows from the parts.      *)
LEMMA CycleKeeps ==
  ASSUME IInv, NEW raw \in RawLevels, NEW az \in Accelerations,
         NEW valid \in BOOLEAN, Cycle(raw, az, valid)
  PROVE  IInv' /\ Filter!Feed(raw)
<1> DEFINE lo == level'["LO"]
           imu == Reading(az, valid)
<1> USE LaunchAssumption, FrozenAssumption, ImuAssumption
<1>0. az \in Int
  BY Zenon
<1>1. /\ DiscretesTypeOK' /\ StreakIsARun' /\ Filter!Feed(raw)
      /\ window' \in [Flags -> [1 .. DebounceSamples -> BOOLEAN]]
  BY FilterStep, Zenon DEF Cycle, Remember
<1>2. /\ LaunchTypeOK' /\ LaunchCountIsARun'
      /\ judged' \in [1 .. LaunchConfirmCycles -> BOOLEAN]
      /\ launch_latched => launch_latched'
      /\ ~lo /\ imu = "boost" /\ ~launch_latched
           => launch_latched' \/ launch_cycles' = launch_cycles + 1
  <2>1. CollectLaunch(lo, imu)
    BY DEF Cycle
  <2>2. LooksBack(lo, imu)
    BY Zenon DEF Cycle, Remember, LooksBack, Pushed
  <2> HIDE DEF lo, imu
  <2> QED
    BY <2>1, <2>2, LaunchStep
<1>3. /\ FrozenTypeOK' /\ StillCountIsARun'
      /\ still' \in [1 .. StaticCycles -> BOOLEAN]
      /\ static_cycles' <= static_cycles + 1
      /\ valid /\ (Moved(az) \/ Pegged(az)) => static_cycles' = 0
  <2>1. CheckFrozen(az, valid)
    BY DEF Cycle
  <2>2. Stilled(az, valid)
    BY Zenon DEF Cycle, Remember, Stilled, Pushed
  <2> QED
    BY <1>0, <2>1, <2>2, FrozenStep
<1>4. /\ boost_for \in 0 .. LaunchConfirmCycles + 1
      /\ static_cycles \in 0 .. StaticCycles
      /\ launch_cycles \in 0 .. LaunchConfirmCycles
  BY Zenon DEF IInv, TypeOK, LaunchTypeOK, FrozenTypeOK
<1>5. boost_for' \in 0 .. LaunchConfirmCycles + 1 /\ BoostIsCounted'
  <2>1. CASE lo \/ ~valid \/ ~Boosting(az)
    <3>1. boost_for' = 0
      BY <2>1, Zenon DEF Cycle, Remember
    <3> QED
      BY <3>1, SMT DEF BoostIsCounted
  <2>2. CASE ~lo /\ valid /\ Boosting(az) /\ boost_for = 0
    <3>1. CASE ~(Moved(az) \/ Pegged(az))
      <4>1. boost_for' = 0
        BY <2>2, <3>1, Zenon DEF Cycle, Remember
      <4> QED
        BY <4>1, SMT DEF BoostIsCounted
    <3>2. CASE Moved(az) \/ Pegged(az)
      <4>1. boost_for' = IF 0 <= LaunchConfirmCycles THEN 0 + 1 ELSE 0
        BY <2>2, <3>2, Zenon DEF Cycle, Remember
      <4>2. static_cycles' = 0
        BY <1>3, <2>2, <3>2
      <4>3. launch_cycles' >= 0
        BY <1>2, SMT DEF LaunchTypeOK
      <4> QED
        BY <4>1, <4>2, <4>3, SMT DEF BoostIsCounted
    <3> QED
      BY <3>1, <3>2
  <2>3. CASE ~lo /\ valid /\ Boosting(az) /\ boost_for # 0
    <3>1. boost_for' = IF boost_for <= LaunchConfirmCycles THEN boost_for + 1
                       ELSE boost_for
      BY <2>3, Zenon DEF Cycle, Remember
    <3>2. CASE boost_for <= LaunchConfirmCycles
      <4>1. boost_for' = boost_for + 1 /\ static_cycles < boost_for
        BY <1>4, <2>3, <3>1, <3>2, SMT DEF IInv, BoostIsCounted
      <4>2. ~frozen
        <5>1. ~(static_cycles >= StaticCycles)
          BY <1>4, <3>2, <4>1, SMT
        <5> QED
          BY <5>1, Zenon DEF IInv, StillCountIsARun
      <4>3. imu = "boost"
        BY <2>3, <4>2, Zenon DEF Reading
      <4>4. launch_latched \/ launch_cycles >= boost_for - 1
        BY <1>4, <2>3, SMT DEF IInv, BoostIsCounted
      <4>5. launch_latched' \/ launch_cycles' >= boost_for' - 1
        <5>1. CASE launch_latched
          BY <1>2, <5>1
        <5>2. CASE ~launch_latched
          <6>1. launch_latched' \/ launch_cycles' = launch_cycles + 1
            BY <1>2, <2>3, <4>3, <5>2, Zenon
          <6>2. launch_cycles + 1 >= boost_for' - 1
            BY <1>4, <4>1, <4>4, <5>2, SMT
          <6> QED
            BY <6>1, <6>2, Zenon
        <5> QED
          BY <5>1, <5>2
      <4>6. static_cycles' < boost_for'
        BY <1>3, <1>4, <4>1, SMT DEF FrozenTypeOK
      <4>7. boost_for' \in 0 .. LaunchConfirmCycles + 1
        BY <1>4, <3>2, <4>1, SMT
      <4> QED
        BY <4>5, <4>6, <4>7, Zenon DEF BoostIsCounted
    <3>3. CASE ~(boost_for <= LaunchConfirmCycles)
      <4>1. boost_for' = boost_for /\ boost_for = LaunchConfirmCycles + 1
        BY <1>4, <3>1, <3>3, SMT
      <4>2. launch_latched
        <5>1. launch_latched \/ launch_cycles >= LaunchConfirmCycles
          BY <1>4, <4>1, SMT DEF IInv, BoostIsCounted
        <5>2. launch_latched \/ launch_cycles < LaunchConfirmCycles
          BY Zenon DEF IInv, LaunchCountIsARun
        <5> QED
          BY <1>4, <5>1, <5>2, SMT
      <4>3. launch_latched'
        BY <1>2, <4>2
      <4>4. /\ ~(boost_for' \in 1 .. LaunchConfirmCycles)
            /\ boost_for' \in 0 .. LaunchConfirmCycles + 1
        BY <1>4, <4>1, SMT
      <4> QED
        BY <4>3, <4>4, Zenon DEF BoostIsCounted
    <3> QED
      BY <3>2, <3>3
  <2> QED
    BY <2>1, <2>2, <2>3, Zenon
<1> QED
  BY <1>1, <1>2, <1>3, <1>5, Zenon DEF IInv, TypeOK

(* Nothing changes, nothing breaks.                                        *)
LEMMA StutterKeeps == ASSUME IInv, UNCHANGED vars PROVE IInv'
<1>1. TypeOK'
  BY Zenon DEF IInv, TypeOK, DiscretesTypeOK, LaunchTypeOK, FrozenTypeOK,
     vars, discretesVars, launchVars, imuVars, histories
<1>2. StreakIsARun' /\ LaunchCountIsARun' /\ StillCountIsARun' /\ BoostIsCounted'
  BY Zenon DEF IInv, StreakIsARun, LaunchCountIsARun, StillCountIsARun,
     BoostIsCounted, vars, discretesVars, launchVars, imuVars, histories
<1> QED
  BY <1>1, <1>2 DEF IInv

(* The invariant is inductive.                                             *)
LEMMA StepKeeps == IInv /\ [Next]_vars => IInv'
<1> SUFFICES ASSUME IInv, [Next]_vars PROVE IInv'
  OBVIOUS
<1>1. CASE UNCHANGED vars
  BY <1>1, StutterKeeps
<1>2. CASE Next
  BY <1>2, CycleKeeps, Zenon DEF Next
<1> QED
  BY <1>1, <1>2

(* It holds in every reachable state.                                      *)
LEMMA InductiveInvariant == Spec => []IInv
  BY InitHolds, StepKeeps, PTL DEF Spec

-----------------------------------------------------------------------------
(* The launch latch means LAUNCH_CONFIRM_CYCLES boost samples in a row     *)
(* among those looked at, and the frozen verdict IMU_STATIC_CYCLES still   *)
(* valid samples in a row.                                                 *)
THEOREM CountersAreTheirWindows == Spec => []CountersMeanTheirWindows
<1>1. ASSUME IInv PROVE CountersMeanTheirWindows
  <2>1. launch_latched <=> \A i \in 1 .. LaunchConfirmCycles : judged[i]
    <3>1. CASE launch_latched
      BY <1>1, <3>1, Zenon DEF IInv, LaunchCountIsARun
    <3>2. CASE ~launch_latched
      <4>1. launch_cycles + 1 \in 1 .. LaunchConfirmCycles
        BY <1>1, <3>2, LaunchAssumption, SMT
        DEF IInv, LaunchCountIsARun, TypeOK, LaunchTypeOK
      <4> QED
        BY <1>1, <3>2, <4>1, Zenon DEF IInv, LaunchCountIsARun
    <3> QED
      BY <3>1, <3>2
  <2>2. frozen <=> \A i \in 1 .. StaticCycles : still[i]
    <3>t. static_cycles \in 0 .. StaticCycles
      BY <1>1, Zenon DEF IInv, TypeOK, FrozenTypeOK
    <3>1. CASE static_cycles >= StaticCycles
      <4>1. static_cycles = StaticCycles
        BY <3>t, <3>1, FrozenAssumption, SMT
      <4> QED
        BY <1>1, <3>1, <4>1, Zenon DEF IInv, StillCountIsARun
    <3>2. CASE ~(static_cycles >= StaticCycles)
      <4>1. static_cycles < StaticCycles /\ static_cycles + 1 \in 1 .. StaticCycles
        BY <3>t, <3>2, FrozenAssumption, SMT
      <4> QED
        BY <1>1, <3>2, <4>1, Zenon DEF IInv, StillCountIsARun
    <3> QED
      BY <3>1, <3>2
  <2> QED
    BY <1>1, <2>1, <2>2, Zenon DEF IInv, CountersMeanTheirWindows
<1> QED
  BY <1>1, InductiveInvariant, PTL

(* A boost that begins with a jump and lasts a cycle longer than the       *)
(* detector asks for is latched, whatever verdict the frozen check had     *)
(* earned on the pad.                                                      *)
THEOREM BoostIsNeverLost == Spec => []BoostSurvivesFrozenVerdict
<1>1. ASSUME IInv PROVE BoostSurvivesFrozenVerdict
  <2>1. ASSUME boost_for > LaunchConfirmCycles
        PROVE  launch_latched \/ launch_cycles >= LaunchConfirmCycles
    BY <1>1, <2>1, LaunchAssumption, SMT
    DEF IInv, BoostIsCounted, TypeOK, LaunchTypeOK
  <2>2. launch_latched \/ ~(launch_cycles >= LaunchConfirmCycles)
    BY <1>1, LaunchAssumption, SMT
    DEF IInv, LaunchCountIsARun, TypeOK, LaunchTypeOK
  <2> QED
    BY <2>1, <2>2, Zenon DEF BoostSurvivesFrozenVerdict
<1> QED
  BY <1>1, InductiveInvariant, PTL

(* The debounce of rs422_sample implements the hold filter: a level flips  *)
(* exactly when the last DEBOUNCE_SAMPLES samples of its pin agree.        *)
THEOREM FilterRefinement == Spec => FilterHolds
<1>1. Init => Filter!Init
  <2>1. \A raw \in RawLevels : raw \in [Flags -> BOOLEAN]
    BY DEF RawLevels
  <2> QED
    BY <2>1, Zenon DEF Init, Filter!Init, Filter!Inputs
<1>2. ASSUME IInv, [Next]_vars
      PROVE  [Filter!Next]_<<window, level>>
  <2>1. CASE UNCHANGED vars
    BY <2>1, Zenon DEF vars, discretesVars, histories
  <2>2. CASE Next
    <3>1. PICK raw \in RawLevels : Filter!Feed(raw)
      BY <1>2, <2>2, CycleKeeps, Zenon DEF Next
    <3> QED
      BY <3>1, Zenon DEF Filter!Next, Filter!Inputs, RawLevels
  <2> QED
    BY <1>2, <2>1, <2>2
<1> QED
  BY <1>1, <1>2, InductiveInvariant, PTL DEF Spec, FilterHolds, Filter!Spec
=============================================================================
