# Verification of the STAR-D flight software

STAR-D flies on a REXUS sounding rocket. An ESP32 runs the experiment: it reads
the three REXUS discretes and the sensors, decides the mode, drives the syringe
pump and the heaters, and talks to the ground over RS-422 and to a Raspberry Pi
over SPI. The Pi records video and science data. This directory holds TLA+
modules translated from that code, TLC configurations that check them on small
instances, and theorems about them checked by TLAPS.

## Inventory

### ESP32 (C; one control task, 10 cycles a second)

Each cycle of `main.c` runs, in this order: `sensors_read`, `uart_tcu_poll`,
`spi_pi_link_service`, `mode_inputs_collect`, `mode_next`,
`health_monitor_update`, `temperature_control_update`, the HEAT override,
`mode_executor_run`, `spi_pi_link_take_status`, `telemetry_task`,
`watchdog_feed`, a delay of 100 ms.

| component | state | operations | called by / calls |
|---|---|---|---|
| discretes, `rs422_interface.c` | level and streak per flag, `lo_ever` | init (prime), sample, getters | control task |
| launch detector, `state_machine.c` | `launch_cycles`, `launch_latched` | `launch_detected` | `mode_inputs_collect`, only when LO is low |
| mode, `state_machine.c`, `mode_manager.c` | `mode` | `mode_next`, `software_mode_set` | control task |
| executor, `mode_executor.c` | `last_mode`, the self-test, `dispense_remaining`, `stepper_activated`, POLL divider | `mode_executor_run` | pump, error word, Pi link |
| pump, `gpio_driver.c` | enable pin, `pump_running`, start time | run, abort, enable, pulses done | esp_timer task stops the train |
| temperature control | heater state, override deadline, fault window | update, override | sensors, heater pins, error word |
| error word, `error_manager.c` | 32 bits, latch mask | init, raise, clear, `error_update_pi_status` | everyone; telemetry reads it |
| health monitor | `last_a*`, `static_cycles`, `frozen` | update | error word |
| sensors, bus and device drivers | bus handles, calibration, `present`, the published snapshot and its valid bits | init of each driver step by step, read, publish, get | control task; everyone reads the snapshot |
| Pi link, `spi_pi_link.c` | transmit buffer, transaction in flight, miss and success counts, `degraded`, latched STATUS | load, service, take status | SPI slave hardware |
| ground uplink, `uart_tcu.c` | receive buffer, three request flags | poll, take | control task |
| telemetry, CRC | last packet time | task | reads the error word and the snapshot |

### Raspberry Pi (Python)

| component | state | operations | concurrency |
|---|---|---|---|
| main loop, `__main__.py` | `_loop_count`, `_last_sensor`, `next_tick`, effective mode | run, shutdown | 100 Hz main thread |
| SPI link, `spi_link.py` | what the last POLL said, next slot, last command sequence and result | service, command worker | WIPE runs in a daemon thread, TEST inline |
| camera, `camera_control.py` | mode, rate, running | set_mode, capture | capture thread |
| video writer, `video_writer.py` | bounded queue, open file, drop counters | submit, writer loop, stop | writer thread |
| data logs, `csv_manager.py` | open file, row and byte counts, part number | write, roll, close | main thread and command worker |
| storage, `storage_manager.py` | free space | refresh, wipe, self test | main thread and command worker |
| framing, `framing.py` | receive buffer | feed | used by the tests and the simulator |

### What is hard here

- the pump: the control task, the pulse hardware and the stop timer interleave;
- resets: a watchdog or brown-out can strike anywhere and nothing is persisted;
- the discretes: glitches, dropouts and any order of LO, SOE and SODS;
- the Pi link: full-duplex exchanges one transaction behind, lost or repeated
  frames, a timeout that re-arms nothing, hysteresis on both sides;
- commands: a retried WIPE while the first still runs in its thread;
- queues: frames dropped at a full queue, a stop that races the writer;
- slow conditions: heater fault windows, overrides that expire;
- devices: an initialisation that stops half-way, a line that sticks, settings
  lost or half kept across a reset, and dead devices that answer plausibly;
- the power cut: rows not yet synced, across file rollovers and failing syncs, of
  which the program survives some and not others;
- a shutdown that waits with a timeout for its threads, and without one for the
  camera and the disk.

## Modules

| module | role |
|---|---|
| `Discretes`, `LaunchDetector`, `FrozenImu` | state and operations of three components, used by the modules that run them |
| `HoldFilter` | abstract: what a debounce filter promises |
| `InputPipeline` | one cycle of all three: debounced discretes, the launch detector behind LO, the frozen-IMU check; its levels implement `HoldFilter` |
| `InputPipeline_proofs` | the theorems about `InputPipeline` |
| `SensorBoard` | the six sensors from their registers through drivers, snapshot and error bits to the fields the Pi unpacks; uses `FrozenImu` |
| `Mission` | abstract: the stages of the mission and the one stroke of the syringe |
| `FlightControl` | composes `Discretes` and `LaunchDetector` with the state machine, the executor, the pump and resets; implements `Mission` |
| `FlightControl_proofs` | the theorems about `FlightControl` |
| `TemperatureControl` | regulator, override, effectiveness check |
| `ErrorWord` | the error word, those who write it, and telemetry |
| `SensorErrors_proofs` | the theorems about `SensorBoard` and `ErrorWord`, and that the two agree where they overlap |
| `PiLink` | both ends of the SPI link |
| `PiLink_proofs` | the theorems about `PiLink` |
| `UplinkParser`, `MCUplinkParser` | telecommand receiver of the ESP32; byte streams for it |
| `HeatUplink_proofs` | the theorems about `TemperatureControl` and about `UplinkParser`, through which the ground overrides it |
| `PiCommand` | telecommands on the Pi: link, worker thread, log rows, WIPE beside the other writers |
| `PiCommand_proofs` | the theorems about `PiCommand` |
| `PiRecorder` | the Pi's main loop, its pace and that of its link, the rolling CSV files and their syncs |
| `PiRecorder_proofs` | the theorems about `PiRecorder` |
| `FramePipeline` | abstract: a line of frames in which none overtakes, doubles or vanishes |
| `VideoWriter` | capture thread, queue, writer thread, shutdown; implements `FramePipeline` |
| `VideoWriter_proofs` | the theorems about `VideoWriter` |

Operators whose comment begins with "A slip" are not part of a specification.
Each replaces the definition after it to show that a property notices the
mistake; `PROJECT.json` says which.

### How the state and the actions correspond to the code

**FlightControl.** The variables are the statics of `state_machine.c`,
`mode_manager.c`, `mode_executor.c` and `gpio_driver.c` under their names, plus
the hardware (the enable pin, the pulses emitted) and histories that no guard
reads. A control cycle is three steps, because the pump's timer, which runs in
the esp_timer task, can come between them: `CollectInputs` (`uart_tcu_poll` as
far as a TEST request goes, and `mode_inputs_collect`), `DecideMode`
(`mode_next`, `software_mode_set`) and one of `RunQuietMode`, `RunSelfTest`,
`StartInjection`, `FailInjection`, `WatchInjection` (`mode_executor_run` in the
respective mode, always ending in `EndCycle`, the broadcast and `last_mode`).
`PumpPulses` and `PumpTimerFires` are the LEDC peripheral and the one-shot timer.
`Reset` clears every static and leaves the enable pin as it is until `Boot`.
Within `dispense_step` the code reads whether the train runs and then the count;
a timer between the two reads stores what the action stores one step earlier.
Two things are coarser than the hardware. `PumpPulses` stops at the length of the
train, while the peripheral runs until the timer stops it (`gpio_driver.c:116-128`), at
most a fraction of a unit later; the count the code derives from the time is clamped
likewise. `FailInjection` is one failure without a pulse, while the output already runs
when the timer's creation or start fails, until `pump_stop_now`.

**InputPipeline, FrozenImu.** One `Cycle` is what `mode_inputs_collect` and the end of
`health_monitor_update` do with the pins and one accelerometer sample, in that
order: the detector is only asked when LO is low, and sees the check's verdict
of the cycle before. The histories (`window`, `still`, `judged`, `boost_for`)
record the inputs the properties speak about. One axis is kept: the code's check
has two further conjuncts of the same form.

**SensorBoard.** A device has a line (sound, stuck high or low) and the settings
in force in it. `Boot` is `app_main` up to its loop: `StepsDone` is the steps of each driver's
initialisation that complete (one may also stop at any step), `Written` what those
that reach the device leave in it. `Answer` is one transfer, `Reading` what the driver makes
of it, `Cycle` is `sensors_read`, the parts of `health_monitor_update` that judge a
dead device, and `send_sensor_frame`; `decode_sensor` is the Pi's. A field is one of a few
classes: measured, clamped to the end of a range, constant, zero, or the marker. The IMU
needs two settings, one for its accelerometer and one for its gyro; an initialisation
that stops between them leaves the answer `"no_gyro"`, with three fields measured and three
zero. `Mimics` names the answers that no check of the code tells from a measurement; the
properties except them by it.

**TemperatureControl.** `Cycle` is `temperature_control_update` followed by the
HEAT command of that cycle. The code's instants are kept as the elapsed and
remaining times it computes from them; −1 stands for the reserved
`heating_since_us = 0`.

**ErrorWord.** The word is `error_flags`, the snapshot `published`. One cycle is
`ReadSensors`, `Judge`, `TakeStatus` or `NoStatus`, `TelemetryTask`. A reading is the class its range checks put it in. A reply's byte 2 is
the echo of a command number, as the Pi fills it, and `TakeStatus` passes on whether it is
not 0, as the ESP32 does (`spi_pi_link.c:191`), for "before lift-off".

**PiLink.** `Service`, `BeginLoad`, `EndLoad`, `TakeStatus` are the ESP32's calls
in the order of a cycle, the load in two steps because the buffer is rewritten
in place while the Pi may be clocking it. `Transfer` is a transaction clocked by
the Pi with one armed, `TransferUnarmed` with none, `TransferDamaged` with noise
in either direction. What a POLL says is one number, the count of its changes.

**PiCommand.** `ClockCommand` is a slot that brings a COMMAND, new or repeated;
the steps of `JobStep` are those of `handle_command`, in the worker for a WIPE
and in the main loop for a TEST, which therefore stops the link (`LinkBlocked`).
WIPE lists and deletes file by file beside `RollOver` of the other streams. File
names are the code's: stream, time reference, absolute mission time, compared in
lexical order. A row of the command log is `waiting` in the buffer of the open file until
`SyncIsDue`, and then in `rows`, which a WIPE may delete with the file; `OpenLog` closes,
and so writes out, the log before. A `Restart` keeps any part of the waiting rows, since
it stands for an orderly shutdown as well as for a kill.

**PiRecorder.** `Turn` is one turn of `run()`: what the link's slot brings, the rows
written in order, the sleep until `next_tick`. Instants are kept as differences to
now (`late`, `due`). A logger is its open flag, row counts and the rows at risk;
`Remains` lists what a failing call leaves of it. `Serviced` is what the slot does to the
logs: a TEST that gets that far writes a state row of its own, whose error it turns into
its result (`__main__.py:243-246`), so that the loop goes on; the history `missed` counts
these. `RowFails` is a row of the loop itself and ends it, as nothing catches the error, and
`CloseNext` is the rest of `shutdown`.

**VideoWriter.** The capture thread is `CheckStop`, `TestRunning` (the flag is read before
the request that blocks) and `CaptureFrame` or `CaptureNothing`; the writer `GetItem`,
`WriteFrame`, `CloseAndEnd`; the main thread `SetMode` and the steps of `shutdown`, each
join being able to time out. `StopCamera` is `picam.stop()` on the main thread, which may
raise or never return; raising ends `shutdown` there, with the writer never told to stop.
`CloseLogs` may raise or hang likewise. `WriteFails` distinguishes what each failing disk
operation leaves behind; a write that fails is taken to leave nothing, although a real one
may leave part of a frame, which shifts every later frame of that file.

**UplinkParser.** `TopUp` begins a call of `uart_tcu_poll`; each turn of its loop is
`TakeFrame`, `Resync` or, when it must wait, `EndPoll`, with which the call
returns. The position the scan stops at is the `start` that `IsScanned` allows,
and there is one. The `Take...Request` actions are the getters, which run in the
same task and therefore only between polls. A poll that finds no new byte changes
nothing and is left out. The values of the bytes, the checksum and the
reading of a duration are parameters. In the run bytes have eight values and
a small checksum stands for the CRC, so that the sync pattern and a fitting checksum
turn up by accident in payloads and noise.

## Runs

Every property below fails on at least one plausible mistake in the code, the
one `PROJECT.json` names beside it. Each module's type invariant is a conjunct of its
first state invariant.

| run | distinct states | what it shows |
|---|---|---|
| `InputPipeline` | 59 k | A debounced level flips exactly after `DEBOUNCE_SAMPLES` agreeing samples (`FilterHolds`, refinement); the launch latch means consecutive boost samples and the frozen verdict an unbroken still run of unsaturated ones (`CountersMeanTheirWindows`); a verdict earned on the pad costs no launch, although the detector sees it a cycle late. |
| `FlightControl` | 165 k | The injection needs flight and SOE in different cycles and a passed test (`MotionIsAuthorised`); one train per boot whatever the task, the pulses and the timer do; a failed start is reported; the verdict of a self-test covers its whole window; refinement of `Mission`; a lasting LO or SOE reaches its mode, and a train completes. |
| `TemperatureControl` | 54 k | Heat is never on without a trusted reading; the heater fault is neither false nor missed for heating the regulator started; it gets the heaters back. |
| `SensorBoard` | 321 k | What the snapshot shows, and what the Pi unpacks, is this cycle's, and what is not a measurement has its bit in the word of the same frame; a dead device is reported; both but for what `Mimics` names; a device that was set up and has kept its settings delivers. |
| `ErrorWord` | 1.29 M | The word mirrors the latest thing known of the Pi and of the reset, the ground sees every latched fault, and keeps seeing it. |
| `PiLink` | 123 k | The degraded verdict follows the evidence and does not flap; the Pi never steps back to an older state and learns the current one; silence is noticed and a working link is trusted again. |
| `PiRecorder` | 264 k | While the loop runs a power cut never costs `FSYNC_EVERY_N_ROWS` rows of a stream, also across rollovers, but for one more for each failing row of a TEST since the last sync; the link's slots are never closer than their period, nor later than one turn without a stall; recording goes on whatever the link brings. |
| `PiCommand` | 100 k | A repeated command is executed once; without overlap a result belongs to the number beside it, and an OK has its row in a log on the disk or waiting for it among fewer than `FSYNC_EVERY_N_ROWS`; every accepted command is answered. |
| `VideoWriter` | 1.15 M | Refinement of `FramePipeline`: whatever the threads, the queue and the disk do, frames reach the disk in the order captured or are given up. A file holds one time reference and one limit, in order; every frame is on the disk, in flight or counted; the writer does not end before its producer; shutdown ends unless the camera or a log hangs, and the writer stops once told to. |
| `MCUplinkParser` | 107 k | The frames acted on are the leftmost sound ones of the stream that do not overlap, up to one cut short, however it is cut into chunks; requests are those of the frames accepted. |
| `FlightControl_DriverIsReleased` | | violation, see Findings |
| `PiCommand_WipeSparesOpenFiles` | | violation, see Findings |

### Bounds, and why they are enough

- `FlightControl`: LO and SOE (SODS decides nothing); two debounce samples, so
  that a level differs from its pin; one confirm cycle (the count itself is
  checked in `InputPipeline`); a self-test of two steps, so that it has a first and
  a last; a train of two units, so that there is a state with one injected; a POLL
  every cycle (the divider only decides which frame is handed over, and `PiLink`
  has it at 3); one reset, which can strike anywhere. Safety is proved for every
  value of all of these.
- `InputPipeline`: two flags, so that one can bounce while the other holds; two
  debounce samples, three launch and five still cycles, in the order of the real
  3, 5 and 50 where they meet; readings on either side of each threshold and of
  each distance between them.
- `SensorBoard`: all six sensors with every step of their initialisation; two
  faults of the environment or resets, so that a device can fail, be set up again
  half-way and fail otherwise; two still cycles; accelerations that a dead
  accelerometer shows too (0) and that it does not (80).
- `TemperatureControl`: readings below, in (two) and above the band; a window of two
  cycles and a rise of two, so that a rise may be enough, too small, or spread
  over two windows; overrides that last a cycle, the longest time, or are refused for having no end
  or too late a one.
- `ErrorWord`: two sensors with the richest sets of classes; storage readings at
  both sides of each threshold and the unknown one; replies with and without an echo;
  one reboot.
- `PiLink`: 3 misses and 4 successes instead of 30 and 50, in the order the static
  assertion asks for; a POLL every third cycle; two changes of state and three
  faults (stall, restart, reset, damage) at any place.
- `PiCommand`: two commands, so that they can overlap, and a sync every second row, so
  that a row may wait or be synced at once; one restart, four
  files, a clock that crosses zero, and one periodic stream beside the command
  log, the video. With the CSV streams as well (`Periodic = {"video",
  "system_state"}`, 783 k states) the same properties hold. For the violation,
  one command is enough.
- `PiRecorder`: a loop of 2 parts and a slot every 4, so that a slot may fall due within
  a turn; sleeps late by one part, a stall longer than the period, a state row
  every second turn and a mirror row every fourth; files of four rows with phase
  offsets of two and three and a sync every third row, so that syncs and rollovers fall
  apart; two faults.
- `VideoWriter`: a queue of two, three frames, limits 1 and 2, one second and one
  lift-off: a full queue, rotation for each of its three reasons, equal names.
- `MCUplinkParser`: ten kinds of pieces, up to three in a row, every division
  into chunks: frames whose payload is the sync pattern or a whole frame, sound and
  damaged, headers whose frame never comes or is too long, half a pattern. Three
  pieces suffice for a frame inside one that is cut short, for a full buffer and for
  requests overtaking each other. With four (2.1 M states) the same holds.

Deadlock is an error everywhere except in `VideoWriter`, `PiRecorder` and
`MCUplinkParser`, where the program, or the finite stream, really ends.

### Fairness, and what in the code justifies it

- Weak fairness of the control task (`FlightControl`, `TemperatureControl`,
  `ErrorWord`, `PiLink`): `app_main` is an endless loop with
  a delay and bounded driver timeouts, and a hang ends in a watchdog reset, which
  the models allow.
- Weak fairness of the pulses and of the timer: an armed peripheral runs.
- `PiLink`: a running Pi clocks for ever (weak), and its clock is not locked to
  the POLL divider, so that it does not miss every POLL (strong fairness of
  clocking one). It is at most one slot late: the guard of `Service` states it,
  and `SlotsKeepTheirPace` of `PiRecorder` is why: without a stall a slot is late by
  less than one turn of the loop.
- `PiRecorder`: the main loop is a thread that is scheduled (`PromptTurn`).
- `PiCommand`: the main loop clocks and each thread gets its turns.
- `VideoWriter`: only the waits of the main thread that have a timeout are fair
  (`join` of the capture thread, `put` of the sentinel, `join` of the writer). Neither
  the camera nor the disk is assumed to return, in whichever thread they are called.
  What follows when they do is stated with that condition: `ShutdownCompletes` needs that
  `picam.stop()` and the closing of the logs come back, be it with an exception
  (`CameraAnswers`, `LogsAnswer`), and `WriterStops` that the writer's disk operations do
  (`DiskAnswers`).

No fairness is assumed of the environment: signals, commands and faults come or not.
The liveness properties are conditioned on what they need of it.

## What is proved

`FlightControl_proofs` proves, for every set of flags, debounce depth, confirm
count, test length, train length, POLL period and number of resets:

| theorem | states |
|---|---|
| `MotionAuthorised` | `Spec => []MotionIsAuthorised`, with the types |
| `OneTrain` | `Spec => []OneTrainPerBoot` |
| `FailureReported` | `Spec => []FailedInjectionIsReported` |
| `VerdictOfTheWindow` | `Spec => []VerdictCoversTheWindow` |
| `Refinement` | `Spec => Abstract!Spec`: the loop implements `Mission` |

They rest on `FlagsAssumption`, `DebounceAssumption`, `LaunchAssumption` and
`ControlAssumption`: the counts are natural numbers, not zero where a division or
a window needs it, and LO and SOE are among the flags.

None of the properties is inductive. `MotionIsAuthorised` speaks of the driver,
which the executor switches by the mode of this cycle and of the last one, and
the mode was decided on inputs collected a step before. The inductive invariant
`IInv` therefore adds, beside the types:

- `ExecutorFollows`: `last_mode` is `mode`, or in the act step one edge of the
  table behind;
- `ModeIsEarned`: the inputs of a cycle and the mode each have their evidence
  in the histories;
- `PumpFollowsMode`: driver and train only under NE, what is owed covers
  what is missing, and the pulses counted are the units injected;
- `BootIsFresh`: nothing has happened before `Boot`.

`InitHolds` and one lemma per action (`BootKeeps` ... `ResetKeeps`) show it
inductive, each with one step per conjunct the action disturbs. `StepImplements`
maps each step to an action of `Mission` or a stutter and uses `IInv` to show that
the guard of that action holds.

`VerdictCoversTheWindow` has an invariant of its own, `MaskIsOfTheWindow`: the
equivalence already holds while the test runs, which is what the mask it keeps from step
to step is for.

`InputPipeline_proofs` proves, for every set of flags, debounce depth, launch count,
still count and any integer accelerations:

| theorem | states |
|---|---|
| `CountersAreTheirWindows` | `Spec => []CountersMeanTheirWindows` |
| `BoostIsNeverLost` | `Spec => []BoostSurvivesFrozenVerdict` |
| `FilterRefinement` | `Spec => FilterHolds`: the debounce implements `HoldFilter` |

They rest on `FlagsAssumption`, `DebounceAssumption`, `LaunchAssumption`,
`FrozenAssumption` and `ImuAssumption`, of which `BoostIsNeverLost` needs that the
still count is longer than the launch count: a boost then ends any verdict
before it could be earned by the boost itself. The code keeps counters and the
properties speak of windows, so the inductive invariant says what a counter
means before it is full: the newest entries up to the count are of one kind and
the next is not (`StreakIsARun`, `LaunchCountIsARun`, `StillCountIsARun`).
`BoostIsCounted` adds that the still count stays below the age of a boost, and
that the launch count is at most one cycle behind it, the cycle in which the
detector still sees the old verdict. `RunGrows` and `RunKeepsItsEnd` say once
what a push does to such a run; `FilterStep`, `LaunchStep` and `FrozenStep` take the
three parts of a cycle apart, `CycleKeeps` puts them together.

`PiLink_proofs` proves, for every pair of thresholds, POLL period and any number of
state changes and faults:

| theorem | states |
|---|---|
| `VerdictIsEarned` | `Spec => []VerdictFollowsEvidence` |
| `FlagIsSteady` | `Spec => FlagDoesNotFlap` |
| `PiIsMonotonic` | `Spec => PiNeverGoesBack` |

They rest on `PiLinkAssumption`, the static assertions at the end of `protocol.h`. The
inductive invariant ties the code's counters to the evidence in the histories
(`CountersAreEvidence`: the successes are those since the flag was raised, of
which the unbroken run is a part), and says of the one buffer between the two
clocks that no POLL in it is older than what the Pi knows
(`NothingOlderInTheBuffer`), which is what rewriting it in place preserves.

`HeatUplink_proofs` proves, for every band, fault window, minimum rise and longest
override and any integer readings, about `TemperatureControl`:

| theorem | states |
|---|---|
| `NeverBlind` | `Spec => []HeatIsNeverBlind` |
| `FaultsAreDeserved` | `Spec => FaultIsDeserved` |
| `DeadHeatersAreReported` | `Spec => []DeadHeaterIsReported` |

These rest on `HeaterAssumption`. The code keeps the instant and the reading with
which a window began, the properties speak of the readings since. The inductive
invariant says that a running timer counts cycles of the regulator only and
that the stored temperature is the reading of its first cycle (`TimerIsTheRegulators`),
that the readings of a flat stretch are equal (`FlatMeansEqual`), and that a flat
stretch not yet reported began no earlier than the window before the running one
(`FlatIsYoung`), which is where the two windows of `DeadHeaterIsReported` come from.

and, for every set of byte streams, sync pattern, payload size, checksum and encoding of
the duration, about `UplinkParser`:

| theorem | states |
|---|---|
| `ChunksDoNotMatter` | `UplinkSpec => []ChunksMakeNoDifference` |
| `RequestsMatch` | `UplinkSpec => []RequestsMatchFrames` |

These rest on `UplinkAssumption`: bytes are natural numbers, a HEAT fits into a
payload, and a duration is a natural number. Nothing is assumed of the checksum, so
they also hold where the CRC accepts noise. The property speaks of every position of
the stream, while the code only sees a window of it; the invariant `UplinkInv` says
that the buffer is the window which ends at the last byte received
(`BufferIsAWindow`), that the frames acted on lie in order before it
(`FramesAreBehind`), and that every position before it has been judged for good:
it is inside a frame, or what has already arrived shows that no sound frame begins
there (`Judged`), which later bytes cannot change. Between polls the window begins
where a frame is cut short, or is a single byte. `SameParts` says that two sequences with
the same window have the same parts of it; `ScanFacts` and `VerdictFacts` turn what
the receiver sees at the front of its buffer into what is in the stream there, and
`WindowMoves`, `JudgedStays` and `FramesStay` are what the turns of the loop have in
common. That the buffer never holds a whole frame's length between polls is part of
the property, so the code's last resort, dropping a full buffer, is never taken.

`SensorErrors_proofs` proves, for every static limit and still count, any integer
accelerations and any number of faults, about `SensorBoard`:

| theorem | states |
|---|---|
| `FieldsAreCurrent` | `Spec => []FieldsAreThisCycles` |
| `DeadIsReported` | `Spec => []DeadSensorIsReported` |
| `AbleDelivers` | `Spec => []AbleSensorDelivers` |

and, for every set of sensors that misbehave, storage readings, packet period and
number of boots, about `ErrorWord`:

| theorem | states |
|---|---|
| `WordIsTrue` | `WordSpec => []WordMirrorsLastKnown` |
| `FaultsStayInView` | `WordSpec => GroundKeepsSeeingFaults` |

The first three rest on `FrozenAssumption` and `BoardAssumption`, of which
`DeadIsReported` needs that 0 and -1, what a dead accelerometer reads, are neither a
movement nor a saturation: that is how a dead IMU is found. What a sensor delivers
depends on registers written at boot and lost or kept since, so the inductive
invariant follows them: a device that was set up and has kept its settings has the ones its
measurement needs, and its driver knows it (`IntactIsSetUp`); a BME that is present
measures with humidity or not at all, the order in which the datasheet wants its two
registers written (`PresentMeasuresHumidity`); only the PT100 latches a fault, and not
one that has delivered since (`RtdFaultsAreThePt100s`). `FrozenIsReported` and
`DeadImuStandsStill` are what makes the one device without a valid bit of its own
reportable: the still count is at most one behind the age of the fault. `EveryInit` and
`InitWrites` say once what any initialisation leaves in a device, `ReadingFacts` and
`IntactAnswers` what a device answers and a driver makes of it. The step of a cycle is taken
apart by what it touches (`CycleKeepsSettings`, `CycleWatchesImu`,
`CycleReportsTheDead`, `CycleShowsThisCycle`, `CycleDelivers`).

The last two rest on `ErrorWordAssumption`. What must be added to make them inductive
is one conjunct, `PacketIsOfTheWord`: the latched bits of the latest packet are still in
the word. The lemmas `Raising`, `Mirroring` and `PiBitsMirror` say what the three ways
of writing the word do to each bit; the sentinel of the storage reading is the
case split of the last. Both modules model `sensors_read`, the one by what the
devices answer, the other by the class of each reading; `BoardAndWordAgree` proves that
they raise the same bits for readings that stand for each other.

`PiCommand_proofs` proves, for every number of commands, restarts and files and any
streams that roll over:

| theorem | states |
|---|---|
| `OnceOnly` | `Spec => []ExecutedOnce` |
| `ResultsBelong` | `Spec => []ResultBelongsToEcho` |
| `OkRecorded` | `Spec => []OkIsOnRecord` |

They rest on `PiCommandAssumption`. On record means in a log on the disk, or in the
buffer of a log on the disk together with fewer than `FsyncEvery` rows. A STATUS carries
what was known when it was built, so the invariant follows a result through its stages:
a number not yet accepted has not run (`RunsAreAccepted`); without overlap only the last
command runs (`OnlyTheLastRuns`), what it will report as OK is on record from the moment
its row is written (`OkIsRecorded`), and while the link is not blocked a final result is
its own (`ResultIsTheLasts`). `LogIsSafe` says that the open command log exists and is
on no WIPE's list, whatever else that WIPE deletes. `WaitingRows` says that the rows
that wait are rows of the open log and few enough to be counted. `StepOfKeeps` treats
the nine steps of a command as one kind of step.

`PiRecorder_proofs` proves, for every loop and slot period, file length, phase
offset and sync interval, and any number and length of stalls:

| theorem | states |
|---|---|
| `LossBounded` | `Spec => []LossIsBounded` |
| `PaceKept` | `Spec => []SlotsKeepTheirPace` |

They rest on `RecorderAssumption`. `LogsAreSound` adds that the rows the code counts
since the last sync are those at risk, fewer than a sync's worth but for those a failing
TEST has added, and that a file that is not open holds none, which a rollover and every
failing call must preserve; `SlotIsTimed` relates the
instant of the next slot to the time since the last, exactly when nothing stalled and
as a bound otherwise.

`VideoWriter_proofs` proves, for every queue size, pair of limits, number of frames and
seconds:

| theorem | states |
|---|---|
| `FilesStayUniform` | `Spec => []FilesAreUniform` |
| `QueueIsServed` | `Spec => []NobodyFeedsADeadQueue` |
| `FramesStayAccounted` | `Spec => []FramesAccounted` |
| `PipelineRefinement` | `Spec => PipelineHolds`: the writer implements `FramePipeline` |

They rest on `VideoWriterAssumption`. Order on the disk is not inductive without the
order of everything still on its way: the frames of the files, the one in the
writer's hand and those in the queue are each earlier than the next (`InOrder`), and
the open file is as the writer's variables describe it (`OpenFileIsDescribed`), which
a failing open, write or close must leave true. `StopsInOrder` follows the stop
through event, sentinel and joins.

The account of the frames has a further invariant, `AccountInv`: each counter is the
number of frames it stands for (`Counted`), those stored and those nowhere, and all
that is stored, also what a second file of the same name has overwritten since, is
older than all that is under way (`StoredInOrder`), so that what is written next was not
stored before and the set grows with its counter. `StepMoves` reads every step as one of
three: a frame arrives, the first of the line is served, nothing moves. These are the
actions of `FramePipeline`, so that the refinement follows from it, and the
cardinalities change by the library's theorems on finite sets (`OneMore`).

Only model-checked: all liveness, as fairness and ENABLED are beyond the prover. Every
safety property that a passing run checks is a theorem.

## Findings

1. **The pump driver may stay powered** (`FlightControl_DriverIsReleased`).
   If a cycle looks between the last pulse and the stop timer, the pump is still busy
   but nothing is owed, `dispense_remaining` becomes 0, and the branch that
   releases the driver is never taken again.
2. **WIPE may delete a file being written** (`PiCommand_WipeSparesOpenFiles`). The
   newest file is taken to be the lexically greatest, but UNSYNCED sorts after
   TMINUS and TPLUS, so a file from before the first POLL hides the open one.

Other disagreements between the code and what is written about it, met while
modelling; the models follow the code:

- A reset during the experiment injects again: nothing is persisted, and with LO and SOE
  still asserted the board goes through SU, NG, NF to NE and starts a second
  train, although the volume is "up to 500uL" (`mode_executor.c:47`). `OneTrainPerBoot`
  is what holds.
- The self-test's clock check compares the snapshot with the start of the test;
  the first step's snapshot is older, so every self-test fails on CLOCK
  (`mode_executor.c:144`, against :342-343). A board that enters MODE_T therefore
  stays there until a reset; one whose POST failed and that gets no TEST stays in
  SU, even after LO. This is why `VerdictCoversTheWindow` sets the clock apart.
- An uplinked TEST is consumed in every mode but honoured in SU only.
- A receive buffer full of junk is dropped "rather than wedging the parser forever"
  (`uart_tcu.c:155`); it cannot fill, as the loop before leaves less than one frame.
- The flight flag falls with LO (`health_monitor.c:91`); the launch count survives
  cycles in which LO is asserted (`state_machine.c:18` says consecutive).
- An expired override inside the deadband leaves the heaters on with no effectiveness
  window open.
- THERMAL_FAULT is documented as current state and never cleared; bits 6, 13,
  14, 18, 19 and 20 are never raised.
- LOW_SSD_FOR_FLIGHT does not say what is written about it. It is documented as
  "Flagged if SSD storage is below 100 GB (before LO only)" (`telemetry_flags.md:22`), and
  "afterwards the question is settled and the bit clears" (`error_manager.c:120-122`). What
  is passed as `pre_LO` is whether byte 2 of STATUS is not 0 (`spi_pi_link.c:191`), and the
  Pi puts the number of the last command it accepted there. As the present firmware sends
  no MSG_COMMAND, that is always 0: the bit is never raised and the self-test's storage
  check never acts. With a sender of commands the bit would mean "a command has been
  accepted", and lift-off would not clear it. `WordMirrorsLastKnown` states what the code
  does, for replies with and without an echo.
- The degraded flag is cleared by successes that need not be consecutive
  (`telemetry_flags.md:19`); a missed POLL is corrected after a second, not 100 ms
  (`protocol.h:215-218`).
- The WIPE telecommand is parsed and never taken; MSG_COMMAND is never sent by
  the ESP32. The Pi's handling of it is modelled against the mission simulator.
- Mission time is the uptime; there is no countdown yet.
- `sensors_init` latches no error bit ("sensors_init() has already latched the relevant
  error bits", `main.c:52-54`): an IMU whose WHO_AM_I
  failed reads as valid until the frozen check finds it, although bit 5 is documented as
  "WHO_AM_I mismatch at init, or reads returning static values" (`telemetry_flags.md:18`).
  An IMU whose initialisation stopped at CTRL2_G (`imu_driver.c:93`) has its gyro off: `gx`,
  `gy` and `gz` are 0 and valid for ever, and while the accelerometer moves no bit is ever
  raised. `FieldsAreThisCycles` and `DeadSensorIsReported` except exactly this. IMU values are
  not clamped, so a reading of −32768 equals `SENSOR_RAW_INVALID`.
- Zero stands for "no reading" in unsigned fields, "which no real reading
  produces" (`mode_executor.c:225-229`); an ABP line stuck low reads as zero pressure
  with status NORMAL, and a BME humidity of zero is a legal result.
- A stuck line of the external BME compensates to the limits of its ranges and is never
  reported; the internal one raises THERMAL_FAULT. A PT100 front end that loses its
  configuration without showing a fault bit stays dead (and is reported).
- `csv_manager.py:9-10` says rollovers never land on the same tick; POLL replaces one
  sensor frame in ten and telemetry starts with the first of them, so they drift.
- `main()` gives the link the string "/dev/ttyAMA0"; `SpiLink` takes what is not a tuple for a device with
  `xfer2`, and the AttributeError of the first slot is not an OSError: `run()` ends. It gives no
  handshake either, which `spi_link.py:24` calls not optional. The models take a link
  that is given a bus device, without handshake.
- A row of TEST "must reach disk and the file must grow" (`__main__.py:242`), but nine rows
  of ten go to the buffer of the process only, and what fails there is found by the tenth
  row or by `close`. A row of the command log waits likewise, so a command may be reported
  OK whose row a kill of the process still loses.
- A TEST whose row fails in its sync leaves the rows of that sync at risk, and the loop goes
  on: one more row than `FSYNC_EVERY_N_ROWS` allows is at risk for each such failure until
  a sync succeeds. `LossIsBounded` says so; without that allowance it is violated.
- `shutdown` waits for its threads with a timeout, but calls `picam.stop()` without one
  (`camera_control.py:96-101`). If that hangs, shutdown does; if it raises, the writer is
  never told to stop and the logs are not closed (`__main__.py:182-189`), and as the writer's
  thread is not a daemon the process does not end. "Idempotent, and safe during shutdown"
  says the comment of `stop`.
- On the Pi: overlapping commands can swap their results and truncate each other's
  log; a command repeated across a restart runs again; TEST blocks the link loop; a
  change of limit within one second overwrites the video file just closed; a
  failed sidecar leaves frames in a file without one; frames queued at a stop are
  lost; a camera that blocks is not reported; `camera_rate` and `log_rate` are
  ignored; an OSError of a CSV row in the main loop ends `run()`;
  `_last_sensor` never expires, so the mirror repeats the last reading of a silent link;
  `_pi_init_complete` is decided once; `_read_failed` has no reader.

## What is not modelled

The arithmetic of the sensor drivers' conversions (64-bit fixed point, beyond TLC's
integers; a good measurement is one class) and their calibration words; the CRC;
bytes, header and checksum of messages; the fields of telemetry other than
the error word; the microscope stage, which has no caller; the cells of CSV rows;
the Pi's free-space reading and reported camera status; frame rate and stall counter of
the camera; the driver's receive buffer of 512 bytes, which a long burst at 115200
baud fills faster than the 28 bytes taken in a cycle empty it. `PROJECT.json` lists each component with its
status.

## Plan

Written first was what moves hardware, then what judges it, then what reports it.

1. Done: `Discretes`, `LaunchDetector`, `FlightControl` with `Mission` and its proofs.
2. Done: `TemperatureControl`, `InputPipeline`, `ErrorWord`, `SensorBoard`.
3. Done: `PiLink`, `UplinkParser`, `PiCommand`, `VideoWriter`, `PiRecorder`.
4. Done: proofs of every safety property that passing runs check, and the three
   refinements of `HoldFilter`, `Mission` and `FramePipeline`.
5. Next, models: an abstract specification of the degraded verdict, which `PiLink`
   implements on both sides; the stall counter that TEST and the capture thread share.
