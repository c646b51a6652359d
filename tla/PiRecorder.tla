----------------------------- MODULE PiRecorder -----------------------------
(***************************************************************************)
(* The main loop of the Raspberry Pi program (stard/__main__.py): its pace *)
(* and the pace of the link it services (links/spi_link.py), the rows it   *)
(* writes, and the rolling CSV files they go to with their fsync policy    *)
(* (datalog/csv_manager.py).                                               *)
(*                                                                         *)
(* Time is counted in parts of a loop period and only as differences to    *)
(* now.  A row of the loop that fails ends the loop, as nothing catches    *)
(* the OSError, and then the logs are closed one after the other; the      *)
(* state row of a TEST, written from the link's callback, may fail without *)
(* consequence but the TEST's result.  The command log is in PiCommand,    *)
(* the shutdown of the camera and its writer in VideoWriter.               *)
(***************************************************************************)
EXTENDS Integers, SequencesExt

CONSTANTS
  Loop,              (* LOOP_PERIOD_S                                      *)
  Oversleep,         (* a bound: how late a sleep may return               *)
  Period,            (* SPI_TRANSACTION_PERIOD_MS                          *)
  StateEvery,        (* loops per state row: 10                            *)
  TelemetryEvery,    (* loops per telemetry row: 100                       *)
  RowsFast,          (* ROWS_10HZ                                          *)
  RowsSlow,          (* ROWS_1HZ                                           *)
  OffsetSystem,      (* OFFSET_SYSTEM                                      *)
  OffsetTelemetry,   (* OFFSET_TELEMETRY                                   *)
  FsyncEvery,        (* FSYNC_EVERY_N_ROWS                                 *)
  Stall,             (* a bound: what a slow call may take                 *)
  MaxFaults          (* a bound: slow calls and failing rows               *)

Streams == {"sensors", "state", "telemetry"}

ASSUME RecorderAssumption ==
  /\ Loop \in Nat \ {0} /\ Oversleep \in 0 .. Loop - 1
  /\ Period \in Nat /\ Period > Loop
  /\ {StateEvery, TelemetryEvery} \subseteq Nat \ {0}
  /\ TelemetryEvery % StateEvery = 0
  /\ RowsFast \in Nat /\ OffsetSystem \in 0 .. RowsFast - 1
  /\ RowsSlow \in Nat /\ OffsetTelemetry \in 0 .. RowsSlow - 1
  /\ FsyncEvery \in Nat \ {0} /\ Stall \in Nat /\ MaxFaults \in Nat

VARIABLES
  late,              (* now minus next_tick, as a loop begins              *)
  due,               (* _next_xfer_at minus now                            *)
  loop_count,        (* _loop_count, modulo TelemetryEvery                 *)
  last_sensor,       (* _last_sensor is not None                           *)
  log,               (* the loggers, by stream; log[s].risk counts the     *)
                     (* rows that would be lost with the power, and        *)
                     (* log[s].missed, a history, the failures of a TEST's *)
                     (* row since the last sync                            *)
  running,           (* run() has not been left                            *)
  closing,           (* the logs shutdown has still to close               *)
  faults,
  (* histories *)
  since_slot,        (* time since the link last took its slot             *)
  stalled            (* a call has been slow since then                    *)

vars == <<late, due, loop_count, last_sensor, log, running, closing, faults,
          since_slot, stalled>>

Cap == Period + Loop + Oversleep + 1
Capped(n) == IF n > Cap THEN Cap ELSE n

-----------------------------------------------------------------------------
(* RollingCsvLogger.  A logger, with the rows at risk of its stream.       *)

(* max_rows and phase_offset_rows of each stream. *)
MaxRows ==
  [sensors |-> RowsFast, state |-> RowsFast, telemetry |-> RowsSlow]
Offset ==
  [sensors |-> 0, state |-> OffsetSystem, telemetry |-> OffsetTelemetry]

NewLog == [open |-> FALSE, first |-> TRUE, rows |-> 0, since |-> 0, risk |-> 0,
           missed |-> 0]

RowsBeforeRollover(s, l) ==
  IF l.first THEN MaxRows[s] - Offset[s] ELSE MaxRows[s]

ShouldRoll(s, l) == ~l.open \/ l.rows >= RowsBeforeRollover(s, l)

Synced(l) == [l EXCEPT !.since = 0, !.risk = 0, !.missed = 0]

(* A slip: the file is closed without a sync. *)
ClosedUnsynced(l) == [l EXCEPT !.open = FALSE]

Closed(l) == IF l.open THEN [Synced(l) EXCEPT !.open = FALSE] ELSE l

Opened(l) == [l EXCEPT !.open = TRUE, !.rows = 0, !.since = 0]

Rolling(l) == [l EXCEPT !.first = @ /\ ~l.open]

Appended(s, l) ==
  LET file == IF ShouldRoll(s, l) THEN Opened(Closed(Rolling(l))) ELSE l
  IN  [file EXCEPT !.rows = @ + 1, !.since = @ + 1, !.risk = @ + 1]

WriteRow(s, l) ==
  LET appended == Appended(s, l)
  IN  IF appended.since >= FsyncEvery THEN Synced(appended) ELSE appended

(* The loggers after one more row for each of the streams. *)
WriteRows(logs, streams) ==
  [s \in Streams |-> IF s \in streams THEN WriteRow(s, logs[s]) ELSE logs[s]]

(* What an OSError may leave of a row: the old file still open because its *)
(* sync failed; no file; a new one without the row; the old one without    *)
(* the row; the row without its sync.                                      *)
Remains(s, l) ==
  IF ShouldRoll(s, l)
  THEN (IF l.open THEN {Rolling(l)} ELSE {}) \cup
       {Closed(Rolling(l)), Opened(Closed(Rolling(l)))}
  ELSE {l} \cup (IF l.since + 1 >= FsyncEvery THEN {Appended(s, l)} ELSE {})

-----------------------------------------------------------------------------
(* The order in which shutdown closes them. *)
Logs == <<"sensors", "state", "telemetry">>

Init ==
  /\ late = 0 /\ due = 0
  /\ loop_count = 0
  /\ last_sensor = FALSE
  /\ log = [s \in Streams |-> NewLog]
  /\ running = TRUE
  /\ closing = Logs
  /\ faults = 0
  /\ since_slot = Cap /\ stalled = TRUE

(* What the link's slot brings: nothing (no frame, a damaged one, an IDLE, *)
(* an OSError of the bus, which is caught), a POLL, sensor data or a TEST. *)
SlotBrings ==
  IF due <= 0 THEN {"nothing", "poll", "sensors", "test"} ELSE {"nothing"}

(* The state log once a TEST has swallowed the failure of its row.         *)
Missed(l) == [l EXCEPT !.missed = @ + 1]

(* The loggers as the link leaves them, and the failures it swallowed.  A  *)
(* TEST ends by writing a state row, unless it has failed before.          *)
Serviced(frame) ==
  {[logs |-> log, failed |-> 0]} \cup
  (IF frame = "test"
   THEN {[logs |-> [log EXCEPT !["state"] = WriteRow("state", @)], failed |-> 0]} \cup
        {[logs |-> [log EXCEPT !["state"] = Missed(l)], failed |-> 1] :
           l \in Remains("state", log["state"])}
   ELSE {})

(* A slip: only what the link brings is written. *)
RowsOfTheLink(frame) ==
  IF frame = "sensors"
  THEN <<"sensors", "state">> \o (IF loop_count = 0 THEN <<"telemetry">> ELSE << >>)
  ELSE << >>

(* The other rows of one turn of the loop, in order. *)
RowsOf(frame) ==
  LET sensor == frame = "sensors"
  IN  (IF sensor THEN <<"sensors">> ELSE << >>) \o
      (IF loop_count % StateEvery = 0 THEN <<"state">> ELSE << >>) \o
      (IF loop_count = 0 /\ (sensor \/ last_sensor)
       THEN <<"telemetry">> ELSE << >>)

(* A slip: every turn sleeps for a whole period after its work. *)
TurnTakesFixed(work, over) == work + Loop + over

(* The turn's work, then the sleep until next_tick, if that is ahead. *)
TurnTakes(work, over) ==
  IF late + work >= Loop THEN work ELSE Loop - late + over

LateAfter(work, over) ==
  IF late + work >= Loop THEN late + work - Loop ELSE over

(* A slip: the slot that a stall missed is made up for. *)
NextSlotCatchingUp == due + Period

(* SpiLink.service takes its next slot from the time of this one. *)
NextSlot == Period

Pace(work, over) ==
  LET slot == due <= 0
      takes == TurnTakes(work, over)
  IN  /\ late' = LateAfter(work, over)
      /\ due' = (IF slot THEN NextSlot ELSE due) - takes
      /\ since_slot' = Capped((IF slot THEN 0 ELSE since_slot) + takes)
      /\ stalled' = (work > Loop \/ (stalled /\ ~slot))

Fail(n) == faults + n <= MaxFaults /\ faults' = faults + n

Turn(frame, logs, work, over) ==
  /\ running
  /\ Pace(work, over)
  /\ log' = WriteRows(logs, Range(RowsOf(frame)))
  /\ last_sensor' = (last_sensor \/ frame = "sensors")
  /\ loop_count' = (loop_count + 1) % TelemetryEvery
  /\ UNCHANGED <<running, closing>>

PromptTurn ==
  \E frame \in SlotBrings, work \in 0 .. Loop, over \in 0 .. Oversleep :
    \E link \in Serviced(frame) :
      Turn(frame, link.logs, work, over) /\ Fail(link.failed)

(* A sync, the handshake or a TEST takes longer than the loop has. *)
SlowTurn ==
  \E frame \in SlotBrings :
    \E link \in Serviced(frame) :
      Turn(frame, link.logs, Stall, 0) /\ Fail(link.failed + 1)

(* The n-th of the loop's rows fails, and with it run(). *)
RowFails ==
  /\ running
  /\ \E frame \in SlotBrings :
       \E link \in Serviced(frame), n \in DOMAIN RowsOf(frame) :
         LET s == RowsOf(frame)[n]
             before == Range(SubSeq(RowsOf(frame), 1, n - 1))
         IN  /\ \E l \in Remains(s, link.logs[s]) :
                  log' = [WriteRows(link.logs, before) EXCEPT ![s] = l]
             /\ Fail(link.failed + 1)
  /\ running' = FALSE
  /\ UNCHANGED <<late, due, loop_count, last_sensor, closing, since_slot, stalled>>

(* shutdown closes the logs; an OSError skips the rest. *)
CloseNext ==
  /\ ~running /\ closing # << >>
  /\ \/ /\ log' = [log EXCEPT ![Head(closing)] = Closed(@)]
        /\ closing' = Tail(closing)
        /\ UNCHANGED faults
     \/ /\ log[Head(closing)].open
        /\ Fail(1)
        /\ closing' = << >>
        /\ UNCHANGED log
  /\ UNCHANGED <<late, due, loop_count, last_sensor, running, since_slot, stalled>>

Next == PromptTurn \/ SlowTurn \/ RowFails \/ CloseNext

(* The loop is a thread that is scheduled. *)
Spec == Init /\ [][Next]_vars /\ WF_vars(PromptTurn)

-----------------------------------------------------------------------------
TypeOK ==
  /\ late \in Nat
  /\ due \in Int /\ due <= Period
  /\ loop_count \in 0 .. TelemetryEvery - 1
  /\ last_sensor \in BOOLEAN
  /\ \A s \in Streams :
       log[s] \in [open : BOOLEAN, first : BOOLEAN, rows : 0 .. MaxRows[s],
                   since : Nat, risk : Nat, missed : Nat]
  /\ running \in BOOLEAN
  /\ closing \in {Logs, <<"state", "telemetry">>, <<"telemetry">>, << >>}
  /\ faults \in 0 .. MaxFaults
  /\ since_slot \in 0 .. Cap /\ stalled \in BOOLEAN

(* The power may go at any time: while the loop runs no stream has         *)
(* FSYNC_EVERY_N_ROWS rows or more that are not on the device, across      *)
(* rollovers too, but for one more in the state log for every TEST whose   *)
(* row failed since its last sync.  The log whose failing sync ended the   *)
(* loop may have one row more, until it is closed.                         *)
LossIsBounded ==
  /\ TypeOK
  /\ \A s \in Streams :
       LET excused == IF s = "state" THEN log[s].missed ELSE 0
       IN  /\ log[s].risk <= FsyncEvery + excused
           /\ running => log[s].risk < FsyncEvery + excused

(* The link's slots keep their pace: they are never closer than the        *)
(* period, not even while the loop catches up after a stall, and without a *)
(* stall they are late by less than one turn and one late sleep, which is  *)
(* what PiLink takes for granted of a running Pi.                          *)
SlotsKeepTheirPace ==
  running /\ due <= 0 =>
    /\ since_slot >= Period
    /\ ~stalled => since_slot < Period + Loop + Oversleep

(* Recording goes on whatever the link brings ("if the ESP32 stops         *)
(* responding, imaging and logging continue", spi_link.py): state rows are *)
(* written for ever, and a mirror row once a second once sensor data was   *)
(* seen, unless a row itself fails.                                        *)
RowWritten(s) == log[s].risk # log'[s].risk \/ log[s].rows # log'[s].rows
RecordingGoesOn ==
  \/ <>~running
  \/ /\ []<><<RowWritten("state")>>_vars
     /\ <>last_sensor => []<><<RowWritten("telemetry")>>_vars
=============================================================================
