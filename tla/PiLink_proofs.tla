---------------------------- MODULE PiLink_proofs ----------------------------
(***************************************************************************)
(* Theorems about PiLink, for every number of misses and successes, every  *)
(* POLL period and any number of changes and faults.                       *)
(***************************************************************************)
EXTENDS PiLink, TLAPS

(* The counters of the code are those of the evidence: misses counted are  *)
(* misses in a row, and while the flag is raised the successes counted are *)
(* the frames since it was, among them those of an unbroken run.           *)
CountersAreEvidence ==
  /\ miss_count = bad_run
  /\ bad_run = MissCount => degraded
  /\ degraded => /\ good_run <= success_count
                 /\ good_since_raised = success_count

(* Nothing on its way to the Pi is older than what the Pi knows. *)
NothingOlderInTheBuffer ==
  /\ pi_state <= state
  /\ tx_buf.valid /\ tx_buf.kind = "POLL" =>
       pi_state <= tx_buf.state /\ tx_buf.state <= state

IInv == TypeOK /\ CountersAreEvidence /\ NothingOlderInTheBuffer

(* The type invariant in three parts, as the provers take them. *)
FlagsTyped ==
  /\ trans_queued \in BOOLEAN /\ finished \in BOOLEAN
  /\ degraded \in BOOLEAN /\ status_pending \in BOOLEAN
  /\ pi_up \in BOOLEAN /\ pi_degraded \in BOOLEAN

BuffersTyped == tx_buf \in Frames /\ rx_buf \in Frames

CountsTyped ==
  /\ phase \in {"service", "decide", "load", "take"}
  /\ state \in 0 .. MaxStates /\ pi_state \in 0 .. MaxStates
  /\ poll_divider \in 0 .. PollCycles - 1
  /\ miss_count \in 0 .. MissCount /\ success_count \in 0 .. SuccessCount - 1
  /\ faults \in 0 .. MaxFaults /\ slots_idle \in 0 .. 1
  /\ bad_run \in 0 .. MissCount /\ good_run \in 0 .. SuccessCount
  /\ good_since_raised \in 0 .. SuccessCount

LEMMA TypeParts == TypeOK <=> FlagsTyped /\ BuffersTyped /\ CountsTyped
  BY Zenon DEF TypeOK, FlagsTyped, BuffersTyped, CountsTyped

LEMMA TypePartsNext ==
  ASSUME FlagsTyped', BuffersTyped', CountsTyped' PROVE TypeOK'
  BY Zenon DEF TypeOK, FlagsTyped, BuffersTyped, CountsTyped

LEMMA FramesTyped ==
  ASSUME TypeOK
  PROVE  /\ Idle \in Frames /\ SensorData \in Frames /\ Status \in Frames
         /\ Poll \in Frames /\ Torn \in Frames /\ Damaged \subseteq Frames
<1>1. 0 \in 0 .. MaxStates /\ MaxStates \in 0 .. MaxStates
  BY PiLinkAssumption, SMT
<1>2. degraded \in BOOLEAN /\ state \in 0 .. MaxStates
  BY Zenon DEF TypeOK
<1>3. Idle \in Frames /\ SensorData \in Frames /\ Status \in Frames
  BY <1>1, SMT DEF Frames, Frame, Idle, SensorData, Status
<1>4. Poll \in Frames
  BY <1>2, Zenon DEF Frames, Frame, Poll
<1>5. Torn \in Frames
  BY <1>1, SMT DEF Frames, Torn
<1>6. ASSUME NEW noise \in Damaged PROVE noise \in Frames
  <2>1. PICK s \in 0 .. MaxStates :
          noise = [valid |-> FALSE, kind |-> "POLL", state |-> s, degraded |-> FALSE]
    BY Zenon DEF Damaged
  <2> QED
    BY <2>1, SMT DEF Frames
<1> QED
  BY <1>3, <1>4, <1>5, <1>6

LEMMA InitHolds == Init => IInv
<1>1. Init => Idle \in Frames
  BY PiLinkAssumption, SMT DEF Init, Frames, Frame, Idle
<1>2. Init => TypeOK
  <2>1. Init => FlagsTyped
    BY Zenon DEF Init, FlagsTyped
  <2>2. Init => BuffersTyped
    BY <1>1, Zenon DEF Init, BuffersTyped
  <2>3. Init => CountsTyped
    BY PiLinkAssumption, SMT DEF Init, CountsTyped
  <2> QED
    BY <2>1, <2>2, <2>3, TypeParts
<1>3. Init => CountersAreEvidence
  BY PiLinkAssumption, SMT DEF Init, CountersAreEvidence
<1>4. Init => NothingOlderInTheBuffer
  BY SMT DEF Init, NothingOlderInTheBuffer, Idle, Frame
<1> QED
  BY <1>2, <1>3, <1>4 DEF IInv

(* One silent cycle: the counter and the evidence move together. *)
LEMMA CountMissKeeps ==
  ASSUME IInv, CountMiss
  PROVE  /\ CountersAreEvidence'
         /\ miss_count' \in 0 .. MissCount
         /\ success_count' \in 0 .. SuccessCount - 1
         /\ degraded' \in BOOLEAN /\ status_pending' \in BOOLEAN
         /\ bad_run' \in 0 .. MissCount /\ good_run' \in 0 .. SuccessCount
         /\ good_since_raised' \in 0 .. SuccessCount
         /\ ~degraded /\ degraded' => bad_run' = MissCount
         /\ degraded => degraded'
<1> DEFINE reached == miss_count + 1 = MissCount
<1>0. /\ CountsTyped /\ CountersAreEvidence
      /\ status_pending' \in BOOLEAN /\ degraded' \in BOOLEAN
  BY TypeParts, Zenon DEF IInv, FlagsTyped, CountMiss
<1>1. CASE reached
  <2>1. degraded' /\ success_count' = 0 /\ good_since_raised' = 0
    BY <1>1, Zenon DEF CountMiss
  <2> QED
    BY <1>0, <1>1, <2>1, PiLinkAssumption, SMT
    DEF CountsTyped, CountersAreEvidence, CountMiss, Upto
<1>2. CASE ~reached
  <2>1. /\ degraded' <=> degraded
        /\ success_count' = success_count /\ good_since_raised' = good_since_raised
    BY <1>2, Zenon DEF CountMiss
  <2> QED
    BY <1>0, <1>2, <2>1, PiLinkAssumption, SMT
    DEF CountsTyped, CountersAreEvidence, CountMiss, Upto
<1> QED
  BY <1>1, <1>2

(* One valid frame. *)
LEMMA CountFrameKeeps ==
  ASSUME IInv, CountFrame
  PROVE  /\ CountersAreEvidence'
         /\ miss_count' \in 0 .. MissCount
         /\ success_count' \in 0 .. SuccessCount - 1
         /\ degraded' \in BOOLEAN /\ status_pending' \in BOOLEAN
         /\ bad_run' \in 0 .. MissCount /\ good_run' \in 0 .. SuccessCount
         /\ good_since_raised' \in 0 .. SuccessCount
         /\ ~degraded => ~degraded'
         /\ degraded /\ ~degraded' => good_since_raised' = SuccessCount
<1> DEFINE cleared == degraded /\ success_count + 1 >= SuccessCount
<1>0. /\ CountsTyped /\ CountersAreEvidence
      /\ status_pending' \in BOOLEAN /\ degraded' \in BOOLEAN
  BY TypeParts, Zenon DEF IInv, FlagsTyped, CountFrame
<1>1. CASE cleared
  <2>1. degraded /\ ~degraded' /\ success_count' = 0
    BY <1>1, Zenon DEF CountFrame
  <2> QED
    BY <1>0, <1>1, <2>1, PiLinkAssumption, SMT
    DEF CountsTyped, CountersAreEvidence, CountFrame, Upto
<1>2. CASE ~cleared /\ degraded
  <2>1. degraded' /\ success_count' = success_count + 1
    BY <1>2, Zenon DEF CountFrame
  <2> QED
    BY <1>0, <1>2, <2>1, PiLinkAssumption, SMT
    DEF CountsTyped, CountersAreEvidence, CountFrame, Upto
<1>3. CASE ~degraded
  <2>1. ~degraded' /\ success_count' = success_count
    BY <1>3, Zenon DEF CountFrame
  <2> QED
    BY <1>0, <1>3, <2>1, PiLinkAssumption, SMT
    DEF CountsTyped, CountersAreEvidence, CountFrame, Upto
<1> QED
  BY <1>1, <1>2, <1>3

LEMMA ServiceKeeps == ASSUME IInv, Service PROVE IInv'
<1>1. CASE CountFrame
  <2>1. TypeOK'
    <3>1. FlagsTyped'
      BY <1>1, CountFrameKeeps, TypeParts, Zenon DEF IInv, FlagsTyped, Service, piVars
    <3>2. BuffersTyped'
      BY TypeParts, Zenon DEF IInv, BuffersTyped, Service
    <3>3. slots_idle' \in 0 .. 1
      BY SMT DEF Service
    <3>4. CountsTyped'
      BY <1>1, <3>3, CountFrameKeeps, TypeParts, Zenon
      DEF IInv, CountsTyped, Service, piVars
    <3> QED
      BY <3>1, <3>2, <3>4, TypePartsNext
  <2>2. NothingOlderInTheBuffer'
    BY SMT DEF IInv, NothingOlderInTheBuffer, Service, piVars
  <2> QED
    BY <1>1, <2>1, <2>2, CountFrameKeeps DEF IInv
<1>2. CASE CountMiss
  <2>1. TypeOK'
    <3>1. FlagsTyped'
      BY <1>2, CountMissKeeps, TypeParts, Zenon DEF IInv, FlagsTyped, Service, piVars
    <3>2. BuffersTyped'
      BY TypeParts, Zenon DEF IInv, BuffersTyped, Service
    <3>3. slots_idle' \in 0 .. 1
      BY SMT DEF Service
    <3>4. CountsTyped'
      BY <1>2, <3>3, CountMissKeeps, TypeParts, Zenon
      DEF IInv, CountsTyped, Service, piVars
    <3> QED
      BY <3>1, <3>2, <3>4, TypePartsNext
  <2>2. NothingOlderInTheBuffer'
    BY SMT DEF IInv, NothingOlderInTheBuffer, Service, piVars
  <2> QED
    BY <1>2, <2>1, <2>2, CountMissKeeps DEF IInv
<1> QED
  BY <1>1, <1>2, Zenon DEF Service

(* The other steps of a cycle count nothing. *)
LEMMA CountersUntouched ==
  ASSUME CountersAreEvidence,
         UNCHANGED <<miss_count, success_count, degraded, runVars>>
  PROVE  CountersAreEvidence'
  BY SMT DEF CountersAreEvidence, runVars

LEMMA BeginLoadKeeps == ASSUME IInv, BeginLoad PROVE IInv'
<1>1. TypeOK'
  <2>1. FlagsTyped'
    BY TypeParts, Zenon DEF IInv, FlagsTyped, BeginLoad, piVars, runVars
  <2>2. BuffersTyped'
    BY TypeParts, FramesTyped, Zenon DEF IInv, BuffersTyped, BeginLoad, piVars, runVars
  <2>3. CountsTyped'
    BY TypeParts, Zenon DEF IInv, CountsTyped, BeginLoad, piVars, runVars
  <2> QED
    BY <2>1, <2>2, <2>3, TypePartsNext
<1>2. CountersAreEvidence'
  BY CountersUntouched DEF IInv, BeginLoad
<1>3. NothingOlderInTheBuffer'
  BY SMT DEF IInv, NothingOlderInTheBuffer, BeginLoad, piVars, Torn
<1> QED
  BY <1>1, <1>2, <1>3 DEF IInv

LEMMA EndLoadKeeps == ASSUME IInv, EndLoad PROVE IInv'
<1>1. (poll_divider + 1) % PollCycles \in 0 .. PollCycles - 1
  BY PiLinkAssumption, SMT DEF IInv, TypeOK
<1>2. tx_buf' = Poll \/ tx_buf' = SensorData
  BY Zenon DEF EndLoad
<1>3. tx_buf' \in Frames
  BY <1>2, FramesTyped DEF IInv
<1>4. TypeOK'
  <2>1. FlagsTyped'
    BY TypeParts, Zenon DEF IInv, FlagsTyped, EndLoad, piVars
  <2>2. BuffersTyped'
    BY <1>3, TypeParts, Zenon DEF IInv, BuffersTyped, EndLoad
  <2>3. CountsTyped'
    BY <1>1, TypeParts, Zenon DEF IInv, CountsTyped, EndLoad, piVars, runVars
  <2> QED
    BY <2>1, <2>2, <2>3, TypePartsNext
<1>5. CountersAreEvidence'
  BY CountersUntouched DEF IInv, EndLoad
<1>6. NothingOlderInTheBuffer'
  BY <1>2, SMT
  DEF IInv, TypeOK, NothingOlderInTheBuffer, EndLoad, piVars, Poll, SensorData, Frame
<1> QED
  BY <1>4, <1>5, <1>6 DEF IInv

LEMMA TakeStatusKeeps == ASSUME IInv, TakeStatus PROVE IInv'
<1>1. TypeOK'
  <2>1. FlagsTyped'
    BY TypeParts, Zenon DEF IInv, FlagsTyped, TakeStatus, piVars, runVars
  <2>2. BuffersTyped'
    BY TypeParts, Zenon DEF IInv, BuffersTyped, TakeStatus, piVars, runVars
  <2>3. CountsTyped'
    BY TypeParts, Zenon DEF IInv, CountsTyped, TakeStatus, piVars, runVars
  <2> QED
    BY <2>1, <2>2, <2>3, TypePartsNext
<1>2. CountersAreEvidence'
  BY CountersUntouched DEF IInv, TakeStatus
<1>3. NothingOlderInTheBuffer'
  BY SMT DEF IInv, NothingOlderInTheBuffer, TakeStatus, piVars
<1> QED
  BY <1>1, <1>2, <1>3 DEF IInv

LEMMA StateChangesKeeps == ASSUME IInv, StateChanges PROVE IInv'
<1>1. TypeOK'
  <2>1. FlagsTyped'
    BY TypeParts, Zenon DEF IInv, FlagsTyped, StateChanges, piVars, runVars
  <2>2. BuffersTyped'
    BY TypeParts, Zenon DEF IInv, BuffersTyped, StateChanges, piVars, runVars
  <2>3. CountsTyped'
    BY TypeParts, PiLinkAssumption, SMT DEF IInv, CountsTyped, StateChanges, piVars, runVars
  <2> QED
    BY <2>1, <2>2, <2>3, TypePartsNext
<1>2. CountersAreEvidence'
  BY CountersUntouched DEF IInv, StateChanges
<1>3. NothingOlderInTheBuffer'
  BY PiLinkAssumption, SMT
  DEF IInv, TypeOK, NothingOlderInTheBuffer, StateChanges, piVars, Frames
<1> QED
  BY <1>1, <1>2, <1>3 DEF IInv

LEMMA EspResetKeeps == ASSUME IInv, EspReset PROVE IInv'
<1>1. TypeOK'
  <2>1. FlagsTyped'
    BY TypeParts, Zenon DEF IInv, FlagsTyped, EspReset, piVars
  <2>2. BuffersTyped'
    BY TypeParts, FramesTyped, Zenon DEF IInv, BuffersTyped, EspReset, piVars
  <2>3. CountsTyped'
    BY TypeParts, PiLinkAssumption, SMT DEF IInv, CountsTyped, EspReset, piVars
  <2> QED
    BY <2>1, <2>2, <2>3, TypePartsNext
<1>2. CountersAreEvidence'
  BY PiLinkAssumption, SMT DEF CountersAreEvidence, EspReset
<1>3. NothingOlderInTheBuffer'
  BY PiLinkAssumption, SMT
  DEF IInv, TypeOK, NothingOlderInTheBuffer, EspReset, piVars, Idle, Frame
<1> QED
  BY <1>1, <1>2, <1>3 DEF IInv

(* A transaction.  What is accepted is what is in the buffer: damaged      *)
(* frames and noise are not valid.                                         *)
LEMMA AcceptedIsNotOlder ==
  ASSUME IInv, NEW answer \in Frames,
         answer.valid => answer = tx_buf,
         HandleFrame(answer)
  PROVE  /\ pi_state' \in 0 .. MaxStates /\ pi_degraded' \in BOOLEAN
         /\ pi_state <= pi_state' /\ pi_state' <= state
         /\ tx_buf.valid /\ tx_buf.kind = "POLL" => pi_state' <= tx_buf.state
<1>1. CASE answer.valid /\ answer.kind = "POLL"
  BY <1>1, PiLinkAssumption, SMT
  DEF IInv, TypeOK, NothingOlderInTheBuffer, HandleFrame, Frames
<1>2. CASE ~(answer.valid /\ answer.kind = "POLL")
  BY <1>2, PiLinkAssumption, SMT
  DEF IInv, TypeOK, NothingOlderInTheBuffer, HandleFrame
<1> QED
  BY <1>1, <1>2

LEMMA ClockedKeeps ==
  ASSUME IInv, NEW answer \in Frames, NEW received \in Frames,
         answer.valid => answer = tx_buf,
         Clocked(answer, received),
         faults' \in 0 .. MaxFaults
  PROVE  IInv' /\ pi_state <= pi_state'
<1> HandleFrame(answer)
  BY DEF Clocked
<1>1. /\ pi_state' \in 0 .. MaxStates /\ pi_degraded' \in BOOLEAN
      /\ pi_state <= pi_state' /\ pi_state' <= state
      /\ tx_buf.valid /\ tx_buf.kind = "POLL" => pi_state' <= tx_buf.state
  BY AcceptedIsNotOlder
<1>2. rx_buf' \in Frames /\ finished' \in BOOLEAN
  BY Zenon DEF IInv, TypeOK, Clocked
<1>3. TypeOK'
  <2>1. FlagsTyped'
    BY <1>1, <1>2, TypeParts, Zenon DEF IInv, FlagsTyped, Clocked, HandleFrame
  <2>2. BuffersTyped'
    BY <1>2, TypeParts, Zenon DEF IInv, BuffersTyped, Clocked
  <2>3. CountsTyped'
    BY <1>1, TypeParts, Zenon DEF IInv, CountsTyped, Clocked, runVars
  <2> QED
    BY <2>1, <2>2, <2>3, TypePartsNext
<1>4. CountersAreEvidence'
  BY CountersUntouched DEF IInv, Clocked
<1>5. NothingOlderInTheBuffer'
  BY <1>1, SMT DEF IInv, NothingOlderInTheBuffer, Clocked
<1> QED
  BY <1>1, <1>3, <1>4, <1>5 DEF IInv

LEMMA DamagedIsInvalid == \A noise \in Damaged : ~noise.valid
  BY SMT DEF Damaged

LEMMA PiClocksKeeps == ASSUME IInv, PiClocks PROVE IInv' /\ pi_state <= pi_state'
<1> USE FramesTyped, DamagedIsInvalid DEF IInv
<1>0. tx_buf \in Frames /\ faults \in 0 .. MaxFaults
  BY DEF TypeOK
<1>1. CASE Transfer
  BY <1>0, <1>1, ClockedKeeps, Zenon DEF Transfer
<1>2. CASE TransferUnarmed
  <2>1. PICK noise \in Damaged : Clocked(noise, Status)
    BY <1>2 DEF TransferUnarmed
  <2>2. noise \in Frames /\ ~noise.valid /\ faults' \in 0 .. MaxFaults
    BY <1>0, <1>2, Zenon DEF TransferUnarmed
  <2> QED
    BY <2>1, <2>2, ClockedKeeps, Zenon
<1>3. CASE TransferDamaged
  <2>1. faults' \in 0 .. MaxFaults
    BY <1>0, <1>3, PiLinkAssumption, SMT DEF TransferDamaged
  <2>2. PICK noise \in Damaged : Clocked(noise, Status) \/ Clocked(tx_buf, noise)
    BY <1>3, Zenon DEF TransferDamaged
  <2>3. noise \in Frames /\ ~noise.valid
    BY Zenon
  <2> QED
    BY <1>0, <2>1, <2>2, <2>3, ClockedKeeps, Zenon
<1> QED
  BY <1>1, <1>2, <1>3 DEF PiClocks

LEMMA PiStopsKeeps ==
  ASSUME IInv, PiStops \/ PiResumes \/ PiRestarts PROVE IInv'
<1>1. TypeOK'
  <2>1. FlagsTyped'
    BY TypeParts, Zenon DEF IInv, FlagsTyped, PiStops, PiResumes, PiRestarts,
        espVars, runVars
  <2>2. BuffersTyped'
    BY TypeParts, Zenon DEF IInv, BuffersTyped, PiStops, PiResumes, PiRestarts,
        espVars, runVars
  <2>3. CountsTyped'
    BY TypeParts, PiLinkAssumption, SMT DEF IInv, CountsTyped, PiStops, PiResumes, PiRestarts,
        espVars, runVars
  <2> QED
    BY <2>1, <2>2, <2>3, TypePartsNext
<1>2. CountersAreEvidence'
  BY CountersUntouched DEF IInv, PiStops, PiResumes, PiRestarts, espVars
<1>3. NothingOlderInTheBuffer'
  BY PiLinkAssumption, SMT
  DEF IInv, TypeOK, NothingOlderInTheBuffer, PiStops, PiResumes, PiRestarts,
      espVars, Frames
<1> QED
  BY <1>1, <1>2, <1>3 DEF IInv

LEMMA StutterKeeps == ASSUME IInv, UNCHANGED vars PROVE IInv'
<1>1. TypeOK'
  <2>1. FlagsTyped'
    BY TypeParts, Zenon DEF IInv, FlagsTyped, vars, espVars, piVars, runVars
  <2>2. BuffersTyped'
    BY TypeParts, Zenon DEF IInv, BuffersTyped, vars, espVars, piVars, runVars
  <2>3. CountsTyped'
    BY TypeParts, Zenon DEF IInv, CountsTyped, vars, espVars, piVars, runVars
  <2> QED
    BY <2>1, <2>2, <2>3, TypePartsNext
<1>2. CountersAreEvidence'
  BY CountersUntouched DEF IInv, vars, espVars
<1>3. NothingOlderInTheBuffer'
  BY SMT DEF IInv, NothingOlderInTheBuffer, vars, espVars, piVars
<1> QED
  BY <1>1, <1>2, <1>3 DEF IInv

LEMMA StepKeeps == IInv /\ [Next]_vars => IInv'
  BY ServiceKeeps, BeginLoadKeeps, EndLoadKeeps, TakeStatusKeeps,
     StateChangesKeeps, EspResetKeeps, PiClocksKeeps, PiStopsKeeps,
     StutterKeeps, Zenon
  DEF Next, EspCycle

LEMMA InductiveInvariant == Spec => []IInv
  BY InitHolds, StepKeeps, PTL DEF Spec

(* The degraded verdict follows the evidence: MISS_COUNT_DEGRADED misses   *)
(* in a row raise it, SUCCESS_COUNT_CLEAR_DEGRADED frames in a row lower   *)
(* it, whatever came before (spi_pi_link_service).                         *)
THEOREM VerdictIsEarned == Spec => []VerdictFollowsEvidence
<1>1. IInv => VerdictFollowsEvidence
  BY PiLinkAssumption, SMT
  DEF IInv, TypeOK, CountersAreEvidence, VerdictFollowsEvidence
<1> QED
  BY <1>1, InductiveInvariant, PTL

(* No step but one of the service touches the flag, unless the board is    *)
(* reset.                                                                  *)
LEMMA OnlyServiceJudges ==
  ASSUME IInv, Next, ~Service
  PROVE  degraded' = degraded \/ EspReset
  BY Zenon
  DEF Next, EspCycle, BeginLoad, EndLoad, TakeStatus, StateChanges, PiClocks,
      Transfer, TransferUnarmed, TransferDamaged, Clocked, PiStops, PiResumes,
      PiRestarts, espVars

(* The degraded flag does not flap: only an unbroken silence raises it,    *)
(* and only enough valid frames since then lower it.                       *)
THEOREM FlagIsSteady == Spec => FlagDoesNotFlap
<1> DEFINE Steady == /\ ~degraded /\ degraded' => bad_run' = MissCount
                     /\ degraded /\ ~degraded' /\ Serviced
                          => good_since_raised' = SuccessCount
<1>1. ASSUME IInv, Service PROVE Steady
  <2>1. CountFrame \/ CountMiss
    BY <1>1, Zenon DEF Service
  <2> QED
    BY <1>1, <2>1, CountFrameKeeps, CountMissKeeps, Zenon
<1>2. ASSUME IInv, EspReset PROVE Steady
  BY <1>2, SMT DEF EspReset, Serviced
<1>3. ASSUME IInv, Next PROVE Steady
  <2>1. CASE Service
    BY <1>1, <1>3, <2>1
  <2>2. CASE EspReset
    BY <1>2, <1>3, <2>2
  <2>3. CASE degraded' = degraded
    BY <2>3, Zenon
  <2> QED
    BY <1>3, <2>1, <2>2, <2>3, OnlyServiceJudges, Zenon
<1> QED
  BY <1>3, InductiveInvariant, PTL DEF Spec, FlagDoesNotFlap

(* The Pi never goes back to an older state, whatever is repeated, torn,   *)
(* clocked unarmed or damaged, unless it is restarted (_handle_frame).     *)
THEOREM PiIsMonotonic == Spec => PiNeverGoesBack
<1>1. ASSUME IInv, PiClocks PROVE ~(pi_state' < pi_state)
  BY <1>1, PiClocksKeeps, SMT DEF IInv, TypeOK
<1>2. ASSUME IInv, Next, ~PiClocks
      PROVE  pi_state' = pi_state \/ ~pi_up
  BY <1>2, Zenon
  DEF Next, EspCycle, Service, BeginLoad, EndLoad, TakeStatus, StateChanges,
      EspReset, PiStops, PiResumes, PiRestarts, piVars
<1>3. ASSUME IInv, [Next]_vars PROVE [pi_state' < pi_state => ~pi_up]_vars
  <2>1. ASSUME pi_state' = pi_state PROVE ~(pi_state' < pi_state)
    BY <1>3, <2>1, SMT DEF IInv, TypeOK
  <2> QED
    BY <1>1, <1>2, <1>3, <2>1, Zenon
<1> QED
  BY <1>3, InductiveInvariant, PTL DEF Spec, PiNeverGoesBack
=============================================================================
