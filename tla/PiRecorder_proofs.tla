-------------------------- MODULE PiRecorder_proofs --------------------------
(***************************************************************************)
(* Theorems about PiRecorder, for every loop and slot period, file length, *)
(* phase offset and sync interval, and any number and length of stalls.    *)
(***************************************************************************)
EXTENDS PiRecorder, TLAPS

(* A logger: a file that is not open holds no row at risk, the rows since  *)
(* the last sync are those at risk, and they exceed what a sync is due     *)
(* after by the failures of a TEST at most, which only the state log has.  *)
Logger(s) == [open : BOOLEAN, first : BOOLEAN, rows : 0 .. MaxRows[s],
              since : Nat, risk : Nat, missed : Nat]
Sound(s, l) ==
  /\ l \in Logger(s) /\ l.risk = l.since
  /\ ~l.open => l.since = 0
  /\ l.since <= FsyncEvery + l.missed
  /\ s # "state" => l.missed = 0

(* A logger that has room for a row before its sync, or would have but for *)
(* the failures of a TEST.                                                 *)
Short(s, l) == Sound(s, l) /\ l.since < FsyncEvery + l.missed

(* The loggers: while the loop runs each is short of a sync.               *)
LogsAreSound ==
  /\ log = [s \in Streams |-> log[s]]
  /\ \A s \in Streams :
       /\ Sound(s, log[s])
       /\ running => Short(s, log[s])

(* The link: the time since its last slot is what is gone of the period,   *)
(* or at least that; without a stall it is short of one more late turn.    *)
SlotIsTimed ==
  /\ since_slot >= Capped(Period - due)
  /\ ~stalled => since_slot = Period - due /\ since_slot < Period + Loop + Oversleep

IInv == TypeOK /\ LogsAreSound /\ SlotIsTimed

-----------------------------------------------------------------------------
(* What the constants say of every stream. *)
LEMMA StreamFacts ==
  ASSUME NEW s \in Streams
  PROVE  MaxRows[s] \in Nat \ {0} /\ Offset[s] \in 0 .. MaxRows[s] - 1
BY RecorderAssumption, SMT DEF Streams, MaxRows, Offset

(* Syncing and closing. *)
LEMMA Syncing ==
  ASSUME NEW s \in Streams, NEW l \in Logger(s)
  PROVE  /\ Synced(l) \in Logger(s)
         /\ Synced(l).since = 0 /\ Synced(l).risk = 0 /\ Synced(l).missed = 0
         /\ Synced(l).open = l.open /\ Synced(l).first = l.first
         /\ Synced(l).rows = l.rows
<1>1. 0 \in Nat
  OBVIOUS
<1>2. Synced(l) \in Logger(s)
  BY <1>1, Zenon DEF Synced, Logger
<1>3. /\ Synced(l).since = 0 /\ Synced(l).risk = 0 /\ Synced(l).missed = 0
      /\ Synced(l).rows = l.rows
  BY SMT DEF Synced, Logger
<1>4. Synced(l).open = l.open /\ Synced(l).first = l.first
  BY Zenon DEF Synced, Logger
<1> QED
  BY <1>2, <1>3, <1>4

(* A logger with nothing at risk is sound. *)
LEMMA NothingAtRisk ==
  ASSUME NEW s \in Streams, NEW l \in Logger(s),
         l.since = 0, l.risk = 0, s # "state" => l.missed = 0
  PROVE  Short(s, l)
<1>1. l.missed \in Nat
  BY Zenon DEF Logger
<1>2. l.since <= FsyncEvery + l.missed /\ l.since < FsyncEvery + l.missed
  BY <1>1, RecorderAssumption, SMT
<1> QED
  BY <1>2, Zenon DEF Short, Sound

LEMMA Closing ==
  ASSUME NEW s \in Streams, NEW l, Sound(s, l)
  PROVE  /\ Closed(l) \in Logger(s)
         /\ Closed(l).since = 0 /\ Closed(l).risk = 0 /\ ~Closed(l).open
         /\ s # "state" => Closed(l).missed = 0
<1>1. CASE l.open
  <2> DEFINE m == Synced(l)
  <2>1. m \in Logger(s) /\ m.since = 0 /\ m.risk = 0 /\ m.missed = 0
    BY Syncing DEF Sound
  <2>2. Closed(l) = [m EXCEPT !.open = FALSE]
    BY <1>1 DEF Closed
  <2> HIDE DEF m
  <2>3. Closed(l) \in Logger(s)
    BY <2>1, <2>2, Zenon DEF Logger
  <2>4. Closed(l).since = 0 /\ Closed(l).risk = 0 /\ Closed(l).missed = 0
    BY <2>1, <2>2, SMT DEF Logger
  <2>5. ~Closed(l).open
    BY <2>1, <2>2, Zenon DEF Logger
  <2> QED
    BY <2>3, <2>4, <2>5
<1>2. CASE ~l.open
  <2>1. /\ l \in Logger(s) /\ l.risk = l.since /\ l.since = 0
        /\ s # "state" => l.missed = 0
    BY <1>2, Zenon DEF Sound
  <2> QED
    BY <1>2, <2>1, Zenon DEF Closed
<1> QED
  BY <1>1, <1>2

(* A roll-over. *)
LEMMA RollingKeeps ==
  ASSUME NEW s \in Streams, NEW l, Sound(s, l)
  PROVE  /\ Sound(s, Rolling(l)) /\ Rolling(l).since = l.since
         /\ Rolling(l).missed = l.missed
<1>1. (l.first /\ ~l.open) \in BOOLEAN
  OBVIOUS
<1>2. Rolling(l) \in Logger(s)
  BY <1>1, Zenon DEF Rolling, Sound, Logger
<1>3. /\ Rolling(l).since = l.since /\ Rolling(l).risk = l.risk
      /\ Rolling(l).missed = l.missed
  BY SMT DEF Rolling, Sound, Logger
<1>4. Rolling(l).open = l.open
  BY Zenon DEF Rolling, Sound, Logger
<1> QED
  BY <1>2, <1>3, <1>4, Zenon DEF Sound

LEMMA OpeningAnew ==
  ASSUME NEW s \in Streams, NEW l, Sound(s, l)
  PROVE  LET file == Opened(Closed(Rolling(l)))
         IN  Short(s, file) /\ file.rows = 0 /\ file.open
<1> DEFINE m == Closed(Rolling(l))
<1>1. /\ m \in Logger(s) /\ m.since = 0 /\ m.risk = 0
      /\ s # "state" => m.missed = 0
  BY RollingKeeps, Closing
<1> HIDE DEF m
<1>2. 0 \in Nat /\ 0 \in 0 .. MaxRows[s]
  BY StreamFacts, SMT
<1>3. Opened(m) \in Logger(s)
  BY <1>1, <1>2, Zenon DEF Opened, Logger
<1>4. /\ Opened(m).since = 0 /\ Opened(m).risk = 0 /\ Opened(m).rows = 0
      /\ Opened(m).missed = m.missed
  BY <1>1, SMT DEF Opened, Logger
<1>5. Opened(m).open
  BY <1>1, Zenon DEF Opened, Logger
<1>6. Short(s, Opened(m))
  BY <1>1, <1>3, <1>4, NothingAtRisk, Zenon
<1> QED
  BY <1>4, <1>5, <1>6, Zenon DEF m

(* A row. *)
LEMMA Appending ==
  ASSUME NEW s \in Streams, NEW l, Short(s, l)
  PROVE  Sound(s, Appended(s, l))
<1> DEFINE file == IF ShouldRoll(s, l) THEN Opened(Closed(Rolling(l))) ELSE l
<1>1. Short(s, file) /\ file.open /\ file.rows < MaxRows[s]
  <2>1. CASE ShouldRoll(s, l)
    <3> DEFINE m == Opened(Closed(Rolling(l)))
    <3>1. Short(s, m) /\ m.rows = 0 /\ m.open
      BY OpeningAnew, Zenon DEF Short
    <3>2. file = m
      BY <2>1
    <3> HIDE DEF m, file
    <3>3. m.rows < MaxRows[s]
      BY <3>1, StreamFacts, SMT
    <3> QED
      BY <3>1, <3>2, <3>3, Zenon
  <2>2. CASE ~ShouldRoll(s, l)
    <3>1. l.open /\ ~(l.rows >= RowsBeforeRollover(s, l)) /\ file = l
      BY <2>2, Zenon DEF ShouldRoll
    <3>2. RowsBeforeRollover(s, l) \in Nat /\ RowsBeforeRollover(s, l) <= MaxRows[s]
      BY StreamFacts, SMT DEF RowsBeforeRollover
    <3>3. l.rows \in Nat
      BY SMT DEF Short, Sound, Logger
    <3>4. l.rows < MaxRows[s]
      BY <3>1, <3>2, <3>3, StreamFacts, SMT
    <3> QED
      BY <3>1, <3>4
  <2> QED
    BY <2>1, <2>2
<1>2. Appended(s, l) = [file EXCEPT !.rows = @ + 1, !.since = @ + 1, !.risk = @ + 1]
  BY DEF Appended
<1> HIDE DEF file
<1>3. /\ file.since \in Nat /\ file.rows \in Nat /\ file.missed \in Nat
      /\ file.risk = file.since /\ file.since < FsyncEvery + file.missed
      /\ s # "state" => file.missed = 0
      /\ file \in Logger(s)
  BY <1>1, SMT DEF Short, Sound, Logger
<1>4. /\ file.since + 1 \in Nat /\ file.since + 1 <= FsyncEvery + file.missed
      /\ file.rows + 1 \in 0 .. MaxRows[s]
  BY <1>1, <1>3, StreamFacts, RecorderAssumption, SMT
<1>5. Appended(s, l) \in Logger(s)
  BY <1>2, <1>3, <1>4, Zenon DEF Logger
<1>6. /\ Appended(s, l).since = file.since + 1 /\ Appended(s, l).risk = file.since + 1
      /\ Appended(s, l).missed = file.missed
  BY <1>2, <1>3, SMT DEF Logger
<1>7. Appended(s, l).open = file.open
  BY <1>2, <1>3, Zenon DEF Logger
<1> QED
  BY <1>1, <1>3, <1>4, <1>5, <1>6, <1>7, Zenon DEF Sound

(* A row with its sync. *)
LEMMA Writing ==
  ASSUME NEW s \in Streams, NEW l, Short(s, l)
  PROVE  Short(s, WriteRow(s, l))
<1> DEFINE m == Appended(s, l)
<1>1. Sound(s, m)
  BY Appending
<1>2. WriteRow(s, l) = IF m.since >= FsyncEvery THEN Synced(m) ELSE m
  BY DEF WriteRow
<1> HIDE DEF m
<1>3. m.since \in Nat /\ m.missed \in Nat /\ m \in Logger(s)
  BY <1>1, SMT DEF Sound, Logger
<1>4. CASE m.since >= FsyncEvery
  <2>1. Short(s, Synced(m))
    BY <1>3, Syncing, NothingAtRisk, Zenon
  <2> QED
    BY <1>2, <1>4, <2>1
<1>5. CASE ~(m.since >= FsyncEvery)
  <2>1. m.since < FsyncEvery + m.missed
    BY <1>3, <1>5, RecorderAssumption, SMT
  <2> QED
    BY <1>1, <1>2, <1>5, <2>1, Zenon DEF Short
<1> QED
  BY <1>4, <1>5

(* A row that fails leaves a sound logger, if perhaps one at the limit.    *)
LEMMA Failing ==
  ASSUME NEW s \in Streams, NEW l, Short(s, l), NEW r \in Remains(s, l)
  PROVE  Sound(s, r)
<1>1. r \in {Rolling(l), Closed(Rolling(l)), Opened(Closed(Rolling(l))), l, Appended(s, l)}
  BY Zenon DEF Remains
<1>2. Sound(s, l) /\ Sound(s, Rolling(l))
  BY RollingKeeps DEF Short
<1>3. Sound(s, Closed(Rolling(l)))
  BY <1>2, Closing, NothingAtRisk, Zenon DEF Short
<1>4. Sound(s, Opened(Closed(Rolling(l)))) /\ Sound(s, Appended(s, l))
  BY <1>2, OpeningAnew, Appending, Zenon DEF Short
<1> QED
  BY <1>1, <1>2, <1>3, <1>4, Zenon

(* A failure that a TEST swallows leaves the state log short of a sync but *)
(* for itself.                                                             *)
LEMMA Missing ==
  ASSUME NEW l, Sound("state", l)
  PROVE  Short("state", Missed(l))
<1>1. /\ l \in Logger("state") /\ l.missed \in Nat /\ l.since \in Nat
      /\ l.risk = l.since /\ l.since <= FsyncEvery + l.missed
      /\ ~l.open => l.since = 0
  BY SMT DEF Sound, Logger
<1>2. l.missed + 1 \in Nat
  BY <1>1, SMT
<1>3. Missed(l) \in Logger("state")
  BY <1>1, <1>2, Zenon DEF Missed, Logger
<1>4. /\ Missed(l).since = l.since /\ Missed(l).risk = l.risk
      /\ Missed(l).missed = l.missed + 1
  BY <1>1, SMT DEF Missed, Logger
<1>5. Missed(l).open = l.open
  BY <1>1, Zenon DEF Missed, Logger
<1>6. /\ l.since <= FsyncEvery + (l.missed + 1)
      /\ l.since < FsyncEvery + (l.missed + 1)
  BY <1>1, RecorderAssumption, SMT
<1> QED
  BY <1>1, <1>3, <1>4, <1>5, <1>6, Zenon DEF Short, Sound

-----------------------------------------------------------------------------
(* Loggers that are short of a sync, one and all. *)
Ready(logs) ==
  /\ logs = [s \in Streams |-> logs[s]]
  /\ \A s \in Streams : Short(s, logs[s])

(* Whichever streams get a row, the loggers stay so. *)
LEMMA RowsKeep ==
  ASSUME NEW logs, Ready(logs), NEW streams
  PROVE  Ready(WriteRows(logs, streams))
<1>1. ASSUME NEW s \in Streams
      PROVE  Short(s, WriteRows(logs, streams)[s])
  <2>1. Short(s, logs[s])
    BY DEF Ready
  <2>2. WriteRows(logs, streams)[s] = IF s \in streams THEN WriteRow(s, logs[s]) ELSE logs[s]
    BY DEF WriteRows
  <2>3. Short(s, WriteRow(s, logs[s]))
    BY <2>1, Writing
  <2> QED
    BY <2>1, <2>2, <2>3, Zenon
<1>2. WriteRows(logs, streams) = [s \in Streams |-> WriteRows(logs, streams)[s]]
  BY Zenon DEF WriteRows
<1> QED
  BY <1>1, <1>2 DEF Ready

(* Whatever the link does with a frame, too. *)
LEMMA ServiceKeeps ==
  ASSUME IInv, running, NEW frame, NEW link \in Serviced(frame)
  PROVE  Ready(link.logs) /\ link.failed \in Nat
<1>1. Ready(log)
  BY Zenon DEF IInv, LogsAreSound, Ready
<1>2. \/ link = [logs |-> log, failed |-> 0]
      \/ link = [logs |-> [log EXCEPT !["state"] = WriteRow("state", @)], failed |-> 0]
      \/ \E l \in Remains("state", log["state"]) :
           link = [logs |-> [log EXCEPT !["state"] = Missed(l)], failed |-> 1]
  BY Zenon DEF Serviced
<1>3. Short("state", log["state"]) /\ "state" \in Streams
  BY <1>1 DEF Ready, Streams
<1>4. ASSUME NEW r, Short("state", r)
      PROVE  Ready([log EXCEPT !["state"] = r])
  BY <1>1, <1>4, Zenon DEF Ready
<1>5. CASE link = [logs |-> log, failed |-> 0]
  BY <1>1, <1>5
<1>6. CASE link = [logs |-> [log EXCEPT !["state"] = WriteRow("state", @)], failed |-> 0]
  <2>1. Short("state", WriteRow("state", log["state"]))
    BY <1>3, Writing
  <2>2. link.failed = 0 /\ link.logs = [log EXCEPT !["state"] = WriteRow("state", log["state"])]
    BY <1>6
  <2>3. Ready([log EXCEPT !["state"] = WriteRow("state", log["state"])])
    BY <1>4, <2>1
  <2> QED
    BY <2>2, <2>3
<1>7. ASSUME NEW l \in Remains("state", log["state"]),
             link = [logs |-> [log EXCEPT !["state"] = Missed(l)], failed |-> 1]
      PROVE  Ready(link.logs) /\ link.failed \in Nat
  <2>1. Short("state", Missed(l))
    BY <1>3, Failing, Missing
  <2>2. Ready([log EXCEPT !["state"] = Missed(l)])
    BY <1>4, <2>1
  <2>3. link.logs = [log EXCEPT !["state"] = Missed(l)] /\ link.failed = 1
    BY <1>7
  <2> QED
    BY <2>2, <2>3
<1> QED
  BY <1>2, <1>5, <1>6, <1>7

(* The start. *)
LEMMA InitHolds == Init => IInv
<1> SUFFICES ASSUME Init PROVE IInv
  OBVIOUS
<1>1. Cap \in Nat /\ Cap >= Period
  BY RecorderAssumption, SMT DEF Cap
<1>2. SlotIsTimed
  BY <1>1, RecorderAssumption, SMT DEF Init, SlotIsTimed, Capped
<1>3. LogsAreSound
  <2>1. ASSUME NEW s \in Streams
        PROVE  Sound(s, log[s]) /\ Short(s, log[s])
    <3>1. log[s] = NewLog
      BY Zenon DEF Init
    <3>2. 0 \in Nat /\ 0 \in 0 .. MaxRows[s]
      BY StreamFacts, SMT
    <3>3. NewLog \in Logger(s)
      BY <3>2, Zenon DEF NewLog, Logger
    <3>4. NewLog.since = 0 /\ NewLog.risk = 0 /\ NewLog.missed = 0
      BY DEF NewLog
    <3> QED
      BY <3>1, <3>3, <3>4, NothingAtRisk DEF Short
  <2>2. log = [s \in Streams |-> log[s]]
    BY Zenon DEF Init
  <2> QED
    BY <2>1, <2>2, Zenon DEF LogsAreSound
<1>4. TypeOK
  <2>1. /\ late \in Nat /\ due \in Int /\ due <= Period /\ since_slot \in 0 .. Cap
        /\ loop_count \in 0 .. TelemetryEvery - 1 /\ faults \in 0 .. MaxFaults
    BY <1>1, RecorderAssumption, SMT DEF Init
  <2> QED
    BY <1>3, <2>1, Zenon DEF TypeOK, Init, LogsAreSound, Sound, Logger
<1> QED
  BY <1>2, <1>3, <1>4 DEF IInv

(* One turn of the loop: its clocks. *)
LEMMA PaceKeeps ==
  ASSUME IInv, NEW work \in Nat, NEW over \in 0 .. Oversleep, Pace(work, over)
  PROVE  /\ late' \in Nat /\ due' \in Int /\ due' <= Period
         /\ since_slot' \in 0 .. Cap /\ stalled' \in BOOLEAN
         /\ SlotIsTimed'
<1> DEFINE takes == TurnTakes(work, over)
           from == IF due <= 0 THEN Period ELSE due
           gone == IF due <= 0 THEN 0 ELSE since_slot
<1>1. /\ Loop \in Nat \ {0} /\ Oversleep \in Nat /\ Oversleep < Loop
      /\ Period \in Nat /\ Period > Loop /\ Cap = Period + Loop + Oversleep + 1
  BY RecorderAssumption, SMT DEF Cap
<1>2. /\ late \in Nat /\ due \in Int /\ due <= Period /\ since_slot \in 0 .. Cap
      /\ stalled \in BOOLEAN
      /\ since_slot >= Capped(Period - due)
      /\ ~stalled => since_slot = Period - due
  BY DEF IInv, TypeOK, SlotIsTimed
<1>3. /\ late' = LateAfter(work, over)
      /\ due' = from - takes
      /\ since_slot' = Capped(gone + takes)
      /\ stalled' = (work > Loop \/ (stalled /\ ~(due <= 0)))
  BY Zenon DEF Pace, NextSlot
<1>4. /\ takes \in Nat /\ LateAfter(work, over) \in Nat
      /\ work <= Loop => takes <= Loop + Oversleep
  BY <1>1, <1>2, SMT DEF TurnTakes, LateAfter
<1>5. /\ from \in Int /\ from <= Period /\ gone \in 0 .. Cap
      /\ gone >= Capped(Period - from)
      /\ ~(stalled /\ ~(due <= 0)) => gone = Period - from /\ gone < Period
  BY <1>1, <1>2, SMT DEF Capped
<1>6. stalled' \in BOOLEAN
  BY <1>3, Zenon
<1> HIDE DEF takes, from, gone
<1>7. /\ due' \in Int /\ due' <= Period /\ since_slot' \in 0 .. Cap
      /\ since_slot' >= Capped(Period - due')
  BY <1>1, <1>3, <1>4, <1>5, SMT DEF Capped
<1>8. ASSUME ~stalled'
      PROVE  since_slot' = Period - due' /\ since_slot' < Period + Loop + Oversleep
  <2>1. ~(work > Loop) /\ ~(stalled /\ ~(due <= 0))
    BY <1>3, <1>8, Zenon
  <2>2. gone = Period - from /\ gone < Period /\ takes <= Loop + Oversleep
    BY <1>1, <1>4, <1>5, <2>1, SMT
  <2> QED
    BY <1>1, <1>3, <1>4, <1>5, <2>2, SMT DEF Capped
<1>9. SlotIsTimed'
  BY <1>7, <1>8, Zenon DEF SlotIsTimed, Capped, Cap
<1> QED
  BY <1>3, <1>4, <1>6, <1>7, <1>9, Zenon

(* One turn of the loop. *)
LEMMA TurnKeeps ==
  ASSUME IInv, NEW frame, NEW logs, running => Ready(logs),
         NEW work \in Nat, NEW over \in 0 .. Oversleep,
         Turn(frame, logs, work, over), faults' \in 0 .. MaxFaults
  PROVE  IInv'
<1>1. /\ running /\ Pace(work, over)
      /\ log' = WriteRows(logs, Range(RowsOf(frame)))
      /\ last_sensor' = (last_sensor \/ frame = "sensors")
      /\ loop_count' = (loop_count + 1) % TelemetryEvery
      /\ running' = running /\ closing' = closing
  BY Zenon DEF Turn
<1>2. LogsAreSound'
  <2>1. Ready(WriteRows(logs, Range(RowsOf(frame))))
    BY <1>1, RowsKeep
  <2>2. /\ log' = [s \in Streams |-> log'[s]]
        /\ \A s \in Streams : Short(s, log'[s])
    BY <1>1, <2>1, Zenon DEF Ready
  <2>3. \A s \in Streams : Sound(s, log'[s])
    BY <2>2, Zenon DEF Short
  <2> QED
    BY <2>2, <2>3, Zenon DEF LogsAreSound, Short, Sound, Logger, MaxRows
<1>3. /\ late' \in Nat /\ due' \in Int /\ due' <= Period
      /\ since_slot' \in 0 .. Cap /\ stalled' \in BOOLEAN
      /\ SlotIsTimed'
  BY <1>1, PaceKeeps
<1>4. loop_count' \in 0 .. TelemetryEvery - 1
  <2>1. loop_count \in Nat /\ TelemetryEvery \in Nat \ {0}
    BY RecorderAssumption, SMT DEF IInv, TypeOK
  <2> QED
    BY <1>1, <2>1, SMT
<1>5. last_sensor' \in BOOLEAN
  BY <1>1, Zenon
<1>6. TypeOK'
  BY <1>1, <1>2, <1>3, <1>4, <1>5, Zenon DEF IInv, TypeOK, LogsAreSound, Sound, Logger, Cap, MaxRows
<1> QED
  BY <1>2, <1>3, <1>6 DEF IInv

(* What a step adds to the failures. *)
LEMMA FailKeeps ==
  ASSUME IInv, NEW n \in Nat, Fail(n)
  PROVE  faults' \in 0 .. MaxFaults
BY RecorderAssumption, SMT DEF Fail, IInv, TypeOK

(* A row of the loop fails, and the loop ends. *)
LEMMA RowFailsKeeps ==
  ASSUME IInv, RowFails
  PROVE  IInv'
<1>1. PICK frame \in SlotBrings :
        \E link \in Serviced(frame), n \in DOMAIN RowsOf(frame) :
          /\ \E l \in Remains(RowsOf(frame)[n], link.logs[RowsOf(frame)[n]]) :
               log' = [WriteRows(link.logs, Range(SubSeq(RowsOf(frame), 1, n - 1)))
                         EXCEPT ![RowsOf(frame)[n]] = l]
          /\ Fail(link.failed + 1)
  BY Zenon DEF RowFails
<1>2. PICK link \in Serviced(frame), n \in DOMAIN RowsOf(frame) :
        /\ \E l \in Remains(RowsOf(frame)[n], link.logs[RowsOf(frame)[n]]) :
             log' = [WriteRows(link.logs, Range(SubSeq(RowsOf(frame), 1, n - 1)))
                       EXCEPT ![RowsOf(frame)[n]] = l]
        /\ Fail(link.failed + 1)
  BY <1>1, Zenon
<1> DEFINE failing == RowsOf(frame)[n]
           before == WriteRows(link.logs, Range(SubSeq(RowsOf(frame), 1, n - 1)))
<1>3. PICK l \in Remains(failing, link.logs[failing]) : log' = [before EXCEPT ![failing] = l]
  BY <1>2, Zenon
<1>4. /\ running /\ running' = FALSE
      /\ UNCHANGED <<late, due, loop_count, last_sensor, closing, since_slot, stalled>>
  BY Zenon DEF RowFails
<1>5. Ready(link.logs) /\ link.failed \in Nat
  BY <1>4, ServiceKeeps
<1>6. Ready(before)
  BY <1>5, RowsKeep
<1> HIDE DEF failing, before
<1>7. log' = [s \in Streams |-> log'[s]]
  BY <1>3, <1>6, Zenon DEF Ready
<1>8. ASSUME NEW s \in Streams
      PROVE  Sound(s, log'[s])
  <2>1. CASE s = failing
    <3>1. Short(s, link.logs[s])
      BY <1>5 DEF Ready
    <3>2. l \in Remains(s, link.logs[s])
      BY <2>1, <1>3
    <3>3. log'[s] = l
      BY <1>3, <1>6, <2>1, Zenon DEF Ready
    <3> QED
      BY <3>1, <3>2, <3>3, Failing
  <2>2. CASE s # failing
    <3>1. log'[s] = before[s]
      BY <1>3, <1>6, <2>2, Zenon DEF Ready
    <3> QED
      BY <1>6, <3>1, Zenon DEF Ready, Short
  <2> QED
    BY <2>1, <2>2
<1>9. LogsAreSound'
  BY <1>4, <1>7, <1>8, Zenon DEF LogsAreSound, Sound, Logger, MaxRows
<1>10. faults' \in 0 .. MaxFaults
  <2>1. link.failed + 1 \in Nat
    BY <1>5, SMT
  <2> QED
    BY <1>2, <2>1, FailKeeps
<1>11. TypeOK'
  BY <1>4, <1>9, <1>10, Zenon DEF IInv, TypeOK, LogsAreSound, Sound, Logger, Cap, MaxRows
<1> QED
  BY <1>4, <1>9, <1>11, Zenon DEF IInv, SlotIsTimed, Capped, Cap

(* A log is closed, or fails to be and the rest is left. *)
LEMMA CloseNextKeeps ==
  ASSUME IInv, CloseNext
  PROVE  IInv'
<1>1. /\ ~running /\ closing # << >>
      /\ UNCHANGED <<late, due, loop_count, last_sensor, running, since_slot, stalled>>
      /\ \/ /\ log' = [log EXCEPT ![Head(closing)] = Closed(@)]
            /\ closing' = Tail(closing) /\ faults' = faults
         \/ /\ Fail(1)
            /\ closing' = << >> /\ log' = log
  BY Zenon DEF CloseNext
<1>2. /\ closing' \in {Logs, <<"state", "telemetry">>, <<"telemetry">>, << >>}
      /\ Head(closing) \in Streams
  <2>1. closing \in {Logs, <<"state", "telemetry">>, <<"telemetry">>}
    BY <1>1, Zenon DEF IInv, TypeOK
  <2>2. CASE closing = Logs
    BY <1>1, <2>2, SMT DEF Logs, Streams
  <2>3. CASE closing = <<"state", "telemetry">>
    BY <1>1, <2>3, SMT DEF Logs, Streams
  <2>4. CASE closing = <<"telemetry">>
    BY <1>1, <2>4, SMT DEF Logs, Streams
  <2> QED
    BY <2>1, <2>2, <2>3, <2>4
<1>3. LogsAreSound'
  <2>1. CASE log' = log
    BY <1>1, <2>1, Zenon DEF IInv, LogsAreSound, Sound, Logger, MaxRows
  <2>2. CASE log' = [log EXCEPT ![Head(closing)] = Closed(@)]
    <3> DEFINE h == Head(closing)
    <3>1. h \in Streams /\ log = [s \in Streams |-> log[s]]
      BY <1>2 DEF IInv, LogsAreSound
    <3>2. log' = [s \in Streams |-> IF s = h THEN Closed(log[h]) ELSE log[s]]
      BY <2>2, <3>1, Zenon
    <3> HIDE DEF h
    <3>3. ASSUME NEW s \in Streams
          PROVE  Sound(s, log'[s])
      <4>1. Sound(s, log[s])
        BY DEF IInv, LogsAreSound
      <4>2. Sound(s, Closed(log[s]))
        BY <4>1, Closing, NothingAtRisk, Zenon DEF Short
      <4> QED
        BY <3>2, <4>1, <4>2, Zenon
    <3> QED
      BY <1>1, <3>2, <3>3, Zenon DEF LogsAreSound, Sound, Logger, MaxRows
  <2> QED
    BY <1>1, <2>1, <2>2
<1>4. faults' \in 0 .. MaxFaults
  BY <1>1, FailKeeps, Zenon DEF IInv, TypeOK
<1>5. TypeOK'
  BY <1>1, <1>2, <1>3, <1>4, Zenon DEF IInv, TypeOK, LogsAreSound, Sound, Logger, Cap, MaxRows
<1> QED
  BY <1>1, <1>3, <1>5, Zenon DEF IInv, SlotIsTimed, Capped, Cap

(* Every step keeps the invariant. *)
LEMMA StepKeeps ==
  ASSUME IInv, [Next]_vars
  PROVE  IInv'
<1>1. CASE UNCHANGED vars
  BY <1>1, Zenon DEF vars, IInv, TypeOK, LogsAreSound, Sound, Logger, SlotIsTimed,
                     Capped, Cap, MaxRows
<1>2. CASE PromptTurn
  <2>1. PICK frame \in SlotBrings, work \in 0 .. Loop, over \in 0 .. Oversleep :
          \E link \in Serviced(frame) :
            Turn(frame, link.logs, work, over) /\ Fail(link.failed)
    BY <1>2, Zenon DEF PromptTurn
  <2>2. PICK link \in Serviced(frame) : Turn(frame, link.logs, work, over) /\ Fail(link.failed)
    BY <2>1
  <2>3. running /\ Ready(link.logs) /\ link.failed \in Nat
    BY <2>2, ServiceKeeps DEF Turn
  <2>4. work \in Nat /\ faults' \in 0 .. MaxFaults
    BY <2>2, <2>3, FailKeeps, RecorderAssumption, SMT
  <2> QED
    BY <2>2, <2>3, <2>4, TurnKeeps
<1>3. CASE SlowTurn
  <2>1. PICK frame \in SlotBrings :
          \E link \in Serviced(frame) :
            Turn(frame, link.logs, Stall, 0) /\ Fail(link.failed + 1)
    BY <1>3, Zenon DEF SlowTurn
  <2>2. PICK link \in Serviced(frame) : Turn(frame, link.logs, Stall, 0) /\ Fail(link.failed + 1)
    BY <2>1
  <2>3. running /\ Ready(link.logs) /\ link.failed \in Nat
    BY <2>2, ServiceKeeps DEF Turn
  <2>4. link.failed + 1 \in Nat
    BY <2>3, SMT
  <2>5. Stall \in Nat /\ 0 \in 0 .. Oversleep /\ faults' \in 0 .. MaxFaults
    BY <2>2, <2>4, FailKeeps, RecorderAssumption, SMT
  <2> QED
    BY <2>2, <2>3, <2>5, TurnKeeps
<1>4. CASE RowFails
  BY <1>4, RowFailsKeeps
<1>5. CASE CloseNext
  BY <1>5, CloseNextKeeps
<1> QED
  BY <1>1, <1>2, <1>3, <1>4, <1>5 DEF Next

(* It holds in every reachable state. *)
LEMMA InductiveInvariant == Spec => []IInv
  BY InitHolds, StepKeeps, PTL DEF Spec

-----------------------------------------------------------------------------
(* RollingCsvLogger: while the loop runs no stream has FSYNC_EVERY_N_ROWS   *)
(* rows to lose, but for one in the state log for every TEST whose row has *)
(* failed since its last sync; a failing sync that ends the loop adds one. *)
THEOREM LossBounded == Spec => []LossIsBounded
<1>1. ASSUME IInv PROVE LossIsBounded
  <2>1. ASSUME NEW s \in Streams
        PROVE  LET excused == IF s = "state" THEN log[s].missed ELSE 0
               IN  /\ log[s].risk <= FsyncEvery + excused
                   /\ running => log[s].risk < FsyncEvery + excused
    <3>1. /\ log[s].risk = log[s].since
          /\ log[s].since <= FsyncEvery + log[s].missed
          /\ s # "state" => log[s].missed = 0
          /\ running => log[s].since < FsyncEvery + log[s].missed
      BY <1>1, Zenon DEF IInv, LogsAreSound, Sound, Short
    <3> QED
      BY <3>1, Zenon
  <2> QED
    BY <1>1, <2>1 DEF IInv, LossIsBounded
<1> QED
  BY <1>1, InductiveInvariant, PTL

(* SpiLink.service: its slots are never closer than the period and, while  *)
(* no call stalls the loop, late by less than one turn.                    *)
THEOREM PaceKept == Spec => []SlotsKeepTheirPace
<1>1. ASSUME IInv PROVE SlotsKeepTheirPace
  BY <1>1, RecorderAssumption, SMT
  DEF IInv, TypeOK, SlotIsTimed, Capped, Cap, SlotsKeepTheirPace
<1> QED
  BY <1>1, InductiveInvariant, PTL
=============================================================================
