------------------------------- MODULE PiLink --------------------------------
(***************************************************************************)
(* The SPI link between the flight controller and the Raspberry Pi.        *)
(*                                                                         *)
(* The ESP32 is the slave: once per control cycle it collects the finished *)
(* transaction, re-arms the one it has (components/links/spi_pi_link.c)    *)
(* and rewrites the transmit buffer in place, armed or not, with the state *)
(* broadcast (POLL) in one cycle out of PollCycles and sensor data in the  *)
(* others (main/mode_executor.c).  The Pi is the bus master and clocks the *)
(* buffer whenever its own loop gets there (links/spi_link.py).            *)
(*                                                                         *)
(* What the ESP32 tells the Pi (mode, flags, time) is one number, the      *)
(* count of its changes, so that older and newer can be told apart.        *)
(***************************************************************************)
EXTENDS Naturals

CONSTANTS
  PollCycles,        (* cycles per POLL: POLL_PERIOD_MS over the period    *)
  MissCount,         (* MISS_COUNT_DEGRADED                                *)
  SuccessCount,      (* SUCCESS_COUNT_CLEAR_DEGRADED                       *)
  MaxStates,         (* bound: changes of the state that is broadcast      *)
  MaxFaults          (* bound: stalls, restarts, resets and corruptions    *)

(* The static assertions at the end of protocol.h. *)
ASSUME PiLinkAssumption ==
  /\ PollCycles \in Nat \ {0}
  /\ MissCount \in Nat \ {0} /\ SuccessCount \in Nat
  /\ SuccessCount > MissCount
  /\ MaxStates \in Nat /\ MaxFaults \in Nat

VARIABLES
  (* ESP32 *)
  phase,             (* the link's next step of the control cycle          *)
  state,             (* how often what a POLL would say has changed        *)
  poll_divider,
  tx_buf, rx_buf,
  trans_queued,      (* a transaction is armed, or finished and not yet    *)
  finished,          (* collected                                          *)
  miss_count, success_count, degraded,
  status_pending,
  (* Raspberry Pi *)
  pi_up,             (* the Pi's loop is running                           *)
  pi_state,          (* what the Pi last took from a POLL                  *)
  pi_degraded,
  faults,
  (* histories *)
  slots_idle,        (* cycles in a row in which a running Pi did not clock *)
  bad_run, good_run, (* unbroken run of misses and of valid frames         *)
  good_since_raised  (* valid frames since the flag was last raised        *)

espVars == <<phase, state, poll_divider, tx_buf, rx_buf, trans_queued, finished,
             miss_count, success_count, degraded, status_pending>>
piVars == <<pi_up, pi_state, pi_degraded>>
runVars == <<bad_run, good_run, good_since_raised>>
vars == <<espVars, piVars, faults, slots_idle, runVars>>

(* A frame and whether its sync bytes, length and CRC are right.  Only a   *)
(* POLL's payload matters here.                                            *)
Frame(kind, s, d) == [valid |-> TRUE, kind |-> kind, state |-> s, degraded |-> d]
Idle == Frame("IDLE", 0, FALSE)
SensorData == Frame("SENSOR_DATA", 0, FALSE)
Status == Frame("STATUS", 0, FALSE)
Poll == Frame("POLL", state, degraded)

(* What a damaged or half-rewritten frame may carry. *)
Damaged == {[valid |-> FALSE, kind |-> "POLL", state |-> s, degraded |-> FALSE] :
              s \in 0 .. MaxStates}
Torn == [valid |-> FALSE, kind |-> "POLL", state |-> MaxStates, degraded |-> FALSE]

Frames == [valid : BOOLEAN, kind : {"IDLE", "SENSOR_DATA", "STATUS", "POLL"},
           state : 0 .. MaxStates, degraded : BOOLEAN]

Upto(n, limit) == IF n < limit THEN n + 1 ELSE n

-----------------------------------------------------------------------------
(* spi_pi_link_init and the executor's statics: an IDLE frame is armed. *)
Init ==
  /\ phase = "service"
  /\ poll_divider = 0
  /\ tx_buf = Idle /\ rx_buf = Idle
  /\ trans_queued = TRUE /\ finished = FALSE
  /\ miss_count = 0 /\ success_count = 0 /\ degraded = FALSE
  /\ status_pending = FALSE
  /\ state = 0
  /\ pi_up = TRUE /\ pi_state = 0 /\ pi_degraded = FALSE
  /\ faults = 0
  /\ slots_idle = 0
  /\ bad_run = 0 /\ good_run = 0 /\ good_since_raised = 0

(* A reset: the Pi keeps what it was told. *)
EspReset ==
  /\ faults < MaxFaults /\ faults' = faults + 1
  /\ state < MaxStates /\ state' = state + 1
  /\ phase' = "service"
  /\ poll_divider' = 0
  /\ tx_buf' = Idle /\ rx_buf' = Idle
  /\ trans_queued' = TRUE /\ finished' = FALSE
  /\ miss_count' = 0 /\ success_count' = 0 /\ degraded' = FALSE
  /\ status_pending' = FALSE
  /\ slots_idle' = 0
  /\ bad_run' = 0 /\ good_run' = 0 /\ good_since_raised' = 0
  /\ UNCHANGED piVars

(* The mode, a flag or the time changes elsewhere in the control cycle. *)
StateChanges ==
  /\ phase = "decide"
  /\ state < MaxStates /\ state' = state + 1
  /\ UNCHANGED <<phase, poll_divider, tx_buf, rx_buf, trans_queued, finished,
                 miss_count, success_count, degraded, status_pending,
                 piVars, faults, slots_idle, runVars>>

(* A slip: the successes of before a new silence still count. *)
CountMissKeepingSuccesses ==
  LET reached == miss_count + 1 = MissCount
  IN /\ miss_count' = Upto(miss_count, MissCount)
     /\ degraded' = (degraded \/ reached)
     /\ UNCHANGED success_count
     /\ good_since_raised' = IF reached THEN 0 ELSE good_since_raised
     /\ bad_run' = Upto(bad_run, MissCount) /\ good_run' = 0
     /\ UNCHANGED status_pending

(* A slip: the counter stops one short of its threshold. *)
CountMissCappedEarly ==
  LET reached == miss_count = MissCount
  IN /\ miss_count' = Upto(miss_count, MissCount - 1)
     /\ degraded' = (degraded \/ reached)
     /\ success_count' = IF reached THEN 0 ELSE success_count
     /\ good_since_raised' = IF reached THEN 0 ELSE good_since_raised
     /\ bad_run' = Upto(bad_run, MissCount) /\ good_run' = 0
     /\ UNCHANGED status_pending

(* spi_pi_link_service: nothing finished, or a frame that does not parse,  *)
(* is a miss; the transaction is armed again in any case.                  *)
CountMiss ==
  LET reached == miss_count + 1 = MissCount
  IN /\ miss_count' = Upto(miss_count, MissCount)
     /\ degraded' = (degraded \/ reached)
     /\ success_count' = IF reached THEN 0 ELSE success_count
     /\ good_since_raised' = IF reached THEN 0 ELSE good_since_raised
     /\ bad_run' = Upto(bad_run, MissCount) /\ good_run' = 0
     /\ UNCHANGED status_pending

(* A slip: the misses of before are not forgotten. *)
CountFrameKeepingMisses ==
  LET cleared == degraded /\ success_count + 1 >= SuccessCount
  IN /\ UNCHANGED miss_count
     /\ degraded' = (degraded /\ ~cleared)
     /\ success_count' = IF ~degraded THEN success_count
                         ELSE IF cleared THEN 0 ELSE success_count + 1
     /\ status_pending' = (rx_buf.kind = "STATUS" \/ status_pending)
     /\ bad_run' = 0 /\ good_run' = Upto(good_run, SuccessCount)
     /\ good_since_raised' = Upto(good_since_raised, SuccessCount)

CountFrame ==
  LET cleared == degraded /\ success_count + 1 >= SuccessCount
  IN /\ miss_count' = 0
     /\ degraded' = (degraded /\ ~cleared)
     /\ success_count' = IF ~degraded THEN success_count
                         ELSE IF cleared THEN 0 ELSE success_count + 1
     /\ status_pending' = (rx_buf.kind = "STATUS" \/ status_pending)
     /\ bad_run' = 0 /\ good_run' = Upto(good_run, SuccessCount)
     /\ good_since_raised' = Upto(good_since_raised, SuccessCount)

(* A running Pi is at most one slot late: its period is the control cycle  *)
(* plus at most one turn of its 10 ms loop.                                *)
Service ==
  /\ phase = "service"
  /\ pi_up /\ ~finished => slots_idle = 0
  /\ IF finished /\ rx_buf.valid THEN CountFrame ELSE CountMiss
  /\ slots_idle' = IF pi_up /\ ~finished THEN 1 ELSE 0
  /\ trans_queued' = TRUE /\ finished' = FALSE
  /\ phase' = "decide"
  /\ UNCHANGED <<state, poll_divider, tx_buf, rx_buf, piVars, faults>>

(* broadcast: build_frame rewrites the buffer in place, the CRC last, so   *)
(* between the two steps the buffer holds no valid frame.                  *)
BeginLoad ==
  /\ phase = "decide"
  /\ tx_buf' = Torn
  /\ phase' = "load"
  /\ UNCHANGED <<state, poll_divider, rx_buf, trans_queued, finished, miss_count,
                 success_count, degraded, status_pending, piVars, faults,
                 slots_idle, runVars>>

(* A slip: the divider is not reset. *)
EndLoadOnce ==
  /\ phase = "load"
  /\ tx_buf' = IF poll_divider = 0 THEN Poll ELSE SensorData
  /\ poll_divider' = Upto(poll_divider, PollCycles)
  /\ phase' = "take"
  /\ UNCHANGED <<state, rx_buf, trans_queued, finished, miss_count, success_count,
                 degraded, status_pending, piVars, faults, slots_idle, runVars>>

EndLoad ==
  /\ phase = "load"
  /\ tx_buf' = IF poll_divider = 0 THEN Poll ELSE SensorData
  /\ poll_divider' = (poll_divider + 1) % PollCycles
  /\ phase' = "take"
  /\ UNCHANGED <<state, rx_buf, trans_queued, finished, miss_count, success_count,
                 degraded, status_pending, piVars, faults, slots_idle, runVars>>

(* spi_pi_link_take_status, at the end of the cycle. *)
TakeStatus ==
  /\ phase = "take"
  /\ status_pending' = FALSE
  /\ phase' = "service"
  /\ UNCHANGED <<state, poll_divider, tx_buf, rx_buf, trans_queued, finished,
                 miss_count, success_count, degraded, piVars, faults, slots_idle,
                 runVars>>

-----------------------------------------------------------------------------
(* A slip: the CRC is not compared. *)
HandleFrameUnchecked(frame) ==
  /\ IF frame.kind = "POLL"
     THEN pi_state' = frame.state /\ pi_degraded' = frame.degraded
     ELSE UNCHANGED <<pi_state, pi_degraded>>
  /\ UNCHANGED pi_up

(* SpiLink._handle_frame: a frame that fails a check is dropped; of the    *)
(* others only a POLL changes what the Pi believes.                        *)
HandleFrame(frame) ==
  /\ IF frame.valid /\ frame.kind = "POLL"
     THEN pi_state' = frame.state /\ pi_degraded' = frame.degraded
     ELSE UNCHANGED <<pi_state, pi_degraded>>
  /\ UNCHANGED pi_up

(* One transaction clocked by SpiLink.service.  The buffer is sent as it   *)
(* is at this moment: the frame of this cycle, or of the cycle before,     *)
(* perhaps for the second time.  The link has no handshake line, so the Pi *)
(* may also clock with nothing armed; it then gets stale bytes or noise,   *)
(* and the ESP32 notices nothing.                                          *)
Clocked(answer, received) ==
  /\ pi_up
  /\ HandleFrame(answer)
  /\ IF trans_queued /\ ~finished
     THEN rx_buf' = received /\ finished' = TRUE
     ELSE UNCHANGED <<rx_buf, finished>>
  /\ UNCHANGED <<phase, state, poll_divider, tx_buf, trans_queued, miss_count,
                 success_count, degraded, status_pending, slots_idle, runVars>>

Transfer == Clocked(tx_buf, Status) /\ UNCHANGED faults

TransferUnarmed ==
  /\ finished
  /\ \E noise \in Damaged : Clocked(noise, Status)
  /\ UNCHANGED faults

TransferDamaged ==
  /\ faults < MaxFaults /\ faults' = faults + 1
  /\ \/ \E noise \in Damaged : Clocked(noise, Status)
     \/ \E noise \in Damaged : Clocked(tx_buf, noise)

(* The Pi's loop stops for a while (a flush, a TEST) or for good.  When it *)
(* comes back it has kept its state or has been restarted; then            *)
(* SpiLink.__init__ assumes startup.                                       *)
PiStops ==
  /\ faults < MaxFaults /\ faults' = faults + 1
  /\ pi_up /\ pi_up' = FALSE
  /\ slots_idle' = 0
  /\ UNCHANGED <<espVars, pi_state, pi_degraded, runVars>>

PiResumes ==
  /\ ~pi_up /\ pi_up' = TRUE
  /\ UNCHANGED <<espVars, pi_state, pi_degraded, faults, slots_idle, runVars>>

PiRestarts ==
  /\ ~pi_up /\ pi_up' = TRUE
  /\ pi_state' = 0 /\ pi_degraded' = FALSE
  /\ UNCHANGED <<espVars, faults, slots_idle, runVars>>

EspCycle == Service \/ BeginLoad \/ EndLoad \/ TakeStatus

PiClocks == Transfer \/ TransferUnarmed \/ TransferDamaged

Next ==
  \/ EspCycle \/ StateChanges \/ EspReset
  \/ PiClocks \/ PiStops \/ PiResumes \/ PiRestarts

(* The control task runs; a running Pi goes on clocking; and its clock is  *)
(* not locked to the POLL divider, so that it cannot miss every POLL.      *)
TransferPoll == tx_buf.valid /\ tx_buf.kind = "POLL" /\ Transfer
Fairness == WF_vars(EspCycle) /\ WF_vars(~finished /\ Transfer) /\ SF_vars(TransferPoll)
Spec == Init /\ [][Next]_vars /\ Fairness

-----------------------------------------------------------------------------
(* The counters stay within their limits (spi_pi_link.c:24-26).            *)
TypeOK ==
  /\ phase \in {"service", "decide", "load", "take"}
  /\ state \in 0 .. MaxStates /\ pi_state \in 0 .. MaxStates
  /\ poll_divider \in 0 .. PollCycles - 1
  /\ tx_buf \in Frames /\ rx_buf \in Frames
  /\ trans_queued \in BOOLEAN /\ finished \in BOOLEAN
  /\ miss_count \in 0 .. MissCount /\ success_count \in 0 .. SuccessCount - 1
  /\ degraded \in BOOLEAN /\ status_pending \in BOOLEAN
  /\ pi_up \in BOOLEAN /\ pi_degraded \in BOOLEAN
  /\ faults \in 0 .. MaxFaults /\ slots_idle \in 0 .. 1
  /\ bad_run \in 0 .. MissCount /\ good_run \in 0 .. SuccessCount
  /\ good_since_raised \in 0 .. SuccessCount

Serviced == phase = "service" /\ phase' = "decide"

(* The verdict follows the evidence whatever came before it: MissCount     *)
(* misses in a row and the link is degraded, SuccessCount valid frames in  *)
(* a row and it is not.                                                    *)
VerdictFollowsEvidence ==
  /\ TypeOK
  /\ bad_run = MissCount => degraded
  /\ good_run = SuccessCount => ~degraded

(* The flag does not flap: it is raised only by an unbroken silence, and   *)
(* lowered only by SuccessCount valid frames since it was raised.          *)
FlagDoesNotFlap ==
  [][/\ ~degraded /\ degraded' => bad_run' = MissCount
     /\ degraded /\ ~degraded' /\ Serviced
          => good_since_raised' = SuccessCount]_vars

(* The Pi never goes back to an older state, in spite of frames sent twice, *)
(* torn by the rewrite, clocked with nothing armed or damaged on the wire,  *)
(* unless it is itself restarted.                                           *)
PiNeverGoesBack == [][pi_state' < pi_state => ~pi_up]_vars

(* The Pi learns where the mission is, once that stops changing, and        *)
(* whether its replies arrive.                                              *)
PiLearnsTheState == <>[]pi_up => <>[](pi_state = state /\ pi_degraded = degraded)

(* Silence is noticed, and a link that works again is trusted again. *)
VerdictSettles ==
  /\ <>[]~pi_up => <>[]degraded
  /\ <>[]pi_up => <>[]~degraded
=============================================================================
