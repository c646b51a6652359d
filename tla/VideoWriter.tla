---------------------------- MODULE VideoWriter ----------------------------
(***************************************************************************)
(* Recording on the Pi: the capture thread takes frames from the camera    *)
(* and submits them to a bounded queue without ever waiting, the writer    *)
(* thread puts them into files, and the main thread sets the mode and, at  *)
(* the end, waits for capture, stops the camera and the writer, and closes *)
(* the CSV logs.  It waits for the two threads with a timeout; stopping    *)
(* the camera and closing the logs may raise, or never return.             *)
(*                                                                         *)
(* A frame carries the time reference, the second and the rotation limit   *)
(* that held when it was captured; a file is named after the first two of  *)
(* its first frame, and an existing file of that name is overwritten.      *)
(* Any disk operation may fail or never return, and so may the camera.  A  *)
(* failing write is taken to leave nothing in the file.                    *)
(***************************************************************************)
EXTENDS Integers, Sequences, FiniteSets

CONSTANTS
  QueueMaxsize,     \* QUEUE_MAXSIZE
  LimitIdle,        \* FRAME_LIMIT_IDLE: frames in a file outside NE
  LimitNE,          \* FRAME_LIMIT_NE
  Frames,           \* bound: frames captured
  Seconds           \* bound: seconds that pass

ASSUME VideoWriterAssumption ==
  /\ {QueueMaxsize, LimitIdle, LimitNE, Frames} \subseteq Nat \ {0}
  /\ Seconds \in Nat

VARIABLES
  rotation_limit,    \* the camera's, set with the mode
  clock,             \* the time reference and the second a frame is stamped with
  running,           \* CameraControl._running
  capture,           \* where the capture thread is
  captured,          \* frames the capture thread submitted so far
  queue,
  dropped,           \* _frames_dropped
  writer,            \* where the writer thread is
  hand,              \* the item the writer took from the queue
  file,              \* the name of the open file
  frames_in_file,
  file_time_ref,
  file_rotation_limit,
  written,           \* _frames_written
  errors,            \* _write_errors
  disk,              \* the frames in each file, by name
  main,              \* where the main thread is
  capture_stop,      \* the event run_capture_loop looks at
  writer_stop,       \* the event VideoWriter._run looks at
  capture_late,      \* history: the capture thread outlived its join
  overwritten        \* history: numbers of frames lost to a file opened under
                     \* the name of theirs

cameraVars == <<rotation_limit, clock, running>>
captureVars == <<capture, captured, dropped>>
fileVars == <<file, frames_in_file, file_time_ref, file_rotation_limit,
              written, errors, disk, overwritten>>
mainVars == <<main, capture_stop, writer_stop, capture_late>>
vars == <<cameraVars, captureVars, queue, writer, hand, fileVars, mainVars>>

TimeRefs == {"COUNTDOWN", "MISSION"}
Limits == {LimitIdle, LimitNE}
Names == [ref : TimeRefs, second : 0..Seconds]
FrameSet == [number : 1..Frames, ref : TimeRefs, second : 0..Seconds, limit : Limits]
None == [number |-> 0]
Sentinel == [number |-> -1]
NoName == [ref |-> "NONE", second |-> 0]

Init ==
  /\ rotation_limit = LimitIdle
  /\ clock = [ref |-> "COUNTDOWN", second |-> 0]
  /\ running = TRUE
  /\ capture = "check" /\ captured = 0 /\ dropped = 0
  /\ queue = <<>>
  /\ writer = "get" /\ hand = None
  /\ file = NoName /\ frames_in_file = 0
  /\ file_time_ref = "NONE" /\ file_rotation_limit = 0
  /\ written = 0 /\ errors = 0 /\ overwritten = {}
  /\ disk = [n \in {} |-> <<>>]
  /\ main = "running"
  /\ capture_stop = FALSE /\ writer_stop = FALSE /\ capture_late = FALSE

-----------------------------------------------------------------------------
(* The capture thread: run_capture_loop.                                   *)

CheckStop ==
  /\ capture = "check"
  /\ capture' = IF capture_stop THEN "ended" ELSE "testing"
  /\ UNCHANGED <<captured, dropped, cameraVars, queue, writer, hand, fileVars, mainVars>>

(* Whether the camera runs is read before the request that blocks.         *)
TestRunning ==
  /\ capture = "testing"
  /\ capture' = IF running THEN "capturing" ELSE "check"
  /\ UNCHANGED <<captured, dropped, cameraVars, queue, writer, hand, fileVars, mainVars>>

(* A slip: a full queue makes room by losing its oldest frame.             *)
SubmitDroppingOldest(frame) ==
  IF Len(queue) < QueueMaxsize
    THEN queue' = Append(queue, frame) /\ UNCHANGED dropped
    ELSE queue' = Append(Tail(queue), frame) /\ UNCHANGED dropped

(* VideoWriter.submit: a full queue drops the frame and counts it.         *)
Submit(frame) ==
  IF Len(queue) < QueueMaxsize
    THEN queue' = Append(queue, frame) /\ UNCHANGED dropped
    ELSE dropped' = dropped + 1 /\ UNCHANGED queue

(* A frame arrives and is submitted with what held when it did.            *)
CaptureFrame ==
  /\ capture = "capturing"
  /\ captured < Frames
  /\ captured' = captured + 1
  /\ Submit([number |-> captured + 1, ref |-> clock.ref,
             second |-> clock.second, limit |-> rotation_limit])
  /\ capture' = "check"
  /\ UNCHANGED <<cameraVars, writer, hand, fileVars, mainVars>>

(* The camera raises: no frame, look again.                                *)
CaptureNothing ==
  /\ capture = "capturing"
  /\ capture' = "check"
  /\ UNCHANGED <<captured, dropped, cameraVars, queue, writer, hand, fileVars, mainVars>>

-----------------------------------------------------------------------------
(* The writer thread: VideoWriter._run.                                    *)

(* A slip: only the sentinel ends the thread.                              *)
GetItemUntilSentinel ==
  /\ writer = "get"
  /\ queue # <<>>
  /\ queue' = Tail(queue)
  /\ IF Head(queue) = Sentinel
       THEN writer' = "closing" /\ UNCHANGED hand
       ELSE writer' = "writing" /\ hand' = Head(queue)
  /\ UNCHANGED <<cameraVars, captureVars, fileVars, mainVars>>

(* A slip: the queue is a stack.                                           *)
GetItemNewest ==
  /\ writer = "get"
  /\ IF writer_stop
       THEN writer' = "closing" /\ UNCHANGED <<queue, hand>>
       ELSE
         /\ queue # <<>>
         /\ queue' = SubSeq(queue, 1, Len(queue) - 1)
         /\ IF queue[Len(queue)] = Sentinel
              THEN writer' = "closing" /\ UNCHANGED hand
              ELSE writer' = "writing" /\ hand' = queue[Len(queue)]
  /\ UNCHANGED <<cameraVars, captureVars, fileVars, mainVars>>

(* The stop event or the sentinel ends the loop, with frames still queued. *)
GetItem ==
  /\ writer = "get"
  /\ IF writer_stop
       THEN writer' = "closing" /\ UNCHANGED <<queue, hand>>
       ELSE
         /\ queue # <<>>
         /\ queue' = Tail(queue)
         /\ IF Head(queue) = Sentinel
              THEN writer' = "closing" /\ UNCHANGED hand
              ELSE writer' = "writing" /\ hand' = Head(queue)
  /\ UNCHANGED <<cameraVars, captureVars, fileVars, mainVars>>

(* A slip: a new time reference is left to the next rotation.              *)
NeedsNewFileByLimit(frame) ==
  \/ file = NoName
  \/ frames_in_file >= frame.limit
  \/ frame.limit # file_rotation_limit

(* When a frame may not go into the open file.                             *)
NeedsNewFile(frame) ==
  \/ file = NoName
  \/ frames_in_file >= frame.limit
  \/ frame.ref # file_time_ref
  \/ frame.limit # file_rotation_limit

NameOf(frame) == [ref |-> frame.ref, second |-> frame.second]

(* The file is created, or emptied, under the name of its first frame.     *)
Created(name) == [n \in DOMAIN disk \cup {name} |-> IF n = name THEN <<>> ELSE disk[n]]
NumbersIn(frames) == {frames[i].number : i \in 1..Len(frames)}
LostBy(name) == IF name \in DOMAIN disk THEN NumbersIn(disk[name]) ELSE {}

(* The frame reaches the open file.                                        *)
WriteInto ==
  /\ ~NeedsNewFile(hand)
  /\ disk' = [disk EXCEPT ![file] = Append(@, hand)]
  /\ frames_in_file' = frames_in_file + 1
  /\ written' = written + 1
  /\ UNCHANGED <<file, file_time_ref, file_rotation_limit, errors, overwritten>>

(* The open file is closed, the next is opened with its sidecar, and the   *)
(* frame is its first.                                                     *)
WriteIntoNew ==
  /\ NeedsNewFile(hand)
  /\ file' = NameOf(hand)
  /\ overwritten' = overwritten \cup LostBy(NameOf(hand))
  /\ disk' = [Created(NameOf(hand)) EXCEPT ![NameOf(hand)] = <<hand>>]
  /\ frames_in_file' = 1
  /\ file_time_ref' = hand.ref /\ file_rotation_limit' = hand.limit
  /\ written' = written + 1
  /\ UNCHANGED errors

(* A disk operation raises; the frame is lost and counted.  What is left   *)
(* behind depends on which one:                                            *)
(*   closing, or writing into the open file: nothing has changed;          *)
(*   opening: the old file is closed, no file is open;                     *)
(*   the sidecar, or the first write: the new file is open and empty.      *)
FailKeepingFile == UNCHANGED <<file, frames_in_file, file_time_ref,
                               file_rotation_limit, disk, overwritten>>
FailToOpen ==
  /\ NeedsNewFile(hand)
  /\ file' = NoName
  /\ UNCHANGED <<frames_in_file, file_time_ref, file_rotation_limit, disk, overwritten>>
FailAfterOpening ==
  /\ NeedsNewFile(hand)
  /\ file' = NameOf(hand)
  /\ overwritten' = overwritten \cup LostBy(NameOf(hand))
  /\ disk' = Created(NameOf(hand))
  /\ frames_in_file' = 0
  /\ file_time_ref' = hand.ref /\ file_rotation_limit' = hand.limit

WriteFails ==
  /\ FailKeepingFile \/ FailToOpen \/ FailAfterOpening
  /\ errors' = errors + 1
  /\ UNCHANGED written

WriteFrame ==
  /\ writer = "writing"
  /\ WriteInto \/ WriteIntoNew \/ WriteFails
  /\ writer' = "get" /\ hand' = None
  /\ UNCHANGED <<cameraVars, captureVars, queue, mainVars>>

(* The thread's last act is to close the file, which may fail as well.     *)
CloseAndEnd ==
  /\ writer = "closing"
  /\ writer' = "ended"
  /\ file' \in {NoName, file}
  /\ UNCHANGED <<frames_in_file, file_time_ref, file_rotation_limit, written,
                 errors, disk, overwritten, cameraVars, captureVars, queue, hand, mainVars>>

-----------------------------------------------------------------------------
(* The main thread: set_mode, then shutdown.                               *)

SetMode ==
  /\ main = "running"
  /\ rotation_limit' \in Limits \ {rotation_limit}
  /\ UNCHANGED <<clock, running, captureVars, queue, writer, hand, fileVars, mainVars>>

(* A slip: the writer is told to stop before capture has ended.            *)
BeginShutdownEverywhere ==
  /\ main = "running"
  /\ main' = "join_capture" /\ capture_stop' = TRUE /\ writer_stop' = TRUE
  /\ UNCHANGED <<capture_late, cameraVars, captureVars, queue, writer, hand, fileVars>>

BeginShutdown ==
  /\ main = "running"
  /\ main' = "join_capture" /\ capture_stop' = TRUE
  /\ UNCHANGED <<writer_stop, capture_late, cameraVars, captureVars, queue, writer, hand, fileVars>>

(* The join of the capture thread returns: it has ended, or five seconds   *)
(* are over.                                                               *)
JoinCapture ==
  /\ main = "join_capture"
  /\ main' = "stop_camera"
  /\ capture_late' = (capture # "ended")
  /\ UNCHANGED <<capture_stop, writer_stop, cameraVars, captureVars, queue, writer, hand, fileVars>>

(* The camera stops, and the writer is told to; or stopping the camera     *)
(* raises, and that is the end of shutdown.                                *)
StopCamera ==
  /\ main = "stop_camera"
  /\ \/ running' = FALSE /\ main' = "put_sentinel" /\ writer_stop' = TRUE
     \/ main' = "raised" /\ UNCHANGED <<running, writer_stop>>
  /\ UNCHANGED <<rotation_limit, clock, capture_stop, capture_late, captureVars, queue, writer, hand, fileVars>>

(* A slip: the sentinel waits for room, however long that takes.           *)
PutSentinelBlocking ==
  /\ main = "put_sentinel"
  /\ Len(queue) < QueueMaxsize
  /\ queue' = Append(queue, Sentinel)
  /\ main' = "join_writer"
  /\ UNCHANGED <<capture_stop, writer_stop, capture_late, cameraVars, captureVars, writer, hand, fileVars>>

(* The sentinel goes in, or the queue stays full for a second.             *)
PutSentinel ==
  /\ main = "put_sentinel"
  /\ queue' = IF Len(queue) < QueueMaxsize THEN Append(queue, Sentinel) ELSE queue
  /\ main' = "join_writer"
  /\ UNCHANGED <<capture_stop, writer_stop, capture_late, cameraVars, captureVars, writer, hand, fileVars>>

(* The join of the writer returns: it has ended, or seven seconds are over. *)
JoinWriter ==
  /\ main = "join_writer"
  /\ main' = "close_logs"
  /\ UNCHANGED <<capture_stop, writer_stop, capture_late, cameraVars, captureVars, queue, writer, hand, fileVars>>

(* The CSV logs are closed, or one of them raises (see PiRecorder).        *)
CloseLogs ==
  /\ main = "close_logs"
  /\ main' \in {"done", "raised"}
  /\ UNCHANGED <<capture_stop, writer_stop, capture_late, cameraVars, captureVars, queue, writer, hand, fileVars>>

MainStep ==
  \/ BeginShutdown \/ JoinCapture \/ StopCamera
  \/ PutSentinel \/ JoinWriter \/ CloseLogs

-----------------------------------------------------------------------------
(* Mission time: seconds pass, and lift-off re-anchors the clock.          *)
SecondPasses ==
  /\ clock.second < Seconds
  /\ clock' = [clock EXCEPT !.second = @ + 1]
  /\ UNCHANGED <<rotation_limit, running, captureVars, queue, writer, hand, fileVars, mainVars>>

LiftOff ==
  /\ clock.ref = "COUNTDOWN"
  /\ clock' = [ref |-> "MISSION", second |-> 0]
  /\ UNCHANGED <<rotation_limit, running, captureVars, queue, writer, hand, fileVars, mainVars>>

Next ==
  \/ CheckStop \/ TestRunning \/ CaptureFrame \/ CaptureNothing
  \/ GetItem \/ WriteFrame \/ CloseAndEnd
  \/ SetMode \/ MainStep
  \/ SecondPasses \/ LiftOff

(* The waits that have a timeout end.  The camera and the disk owe nothing: *)
(* either may hang for good, and the main thread with it where it calls    *)
(* them itself.                                                            *)
Fairness == WF_vars(JoinCapture \/ PutSentinel \/ JoinWriter)

(* A camera whose stop() comes back, be it with an exception.              *)
CameraAnswers == WF_vars(StopCamera)

(* Logs whose closing comes back, be it with an exception.                 *)
LogsAnswer == WF_vars(CloseLogs)

(* A disk whose every operation returns lets the writer run.               *)
DiskAnswers == WF_vars(GetItem \/ WriteFrame \/ CloseAndEnd)

Spec == Init /\ [][Next]_vars /\ Fairness

-----------------------------------------------------------------------------
(* Every variable keeps to its domain; in particular the queue never holds *)
(* more than its size.                                                     *)
TypeOK ==
  /\ rotation_limit \in Limits /\ clock \in Names /\ running \in BOOLEAN
  /\ capture \in {"check", "testing", "capturing", "ended"}
  /\ captured \in 0..Frames /\ dropped \in 0..Frames
  /\ Len(queue) <= QueueMaxsize
  /\ \A i \in 1..Len(queue) : queue[i] = Sentinel \/ queue[i] \in FrameSet
  /\ writer \in {"get", "writing", "closing", "ended"}
  /\ IF writer = "writing" THEN hand \in FrameSet ELSE hand = None
  /\ file \in Names \cup {NoName}
  /\ frames_in_file \in 0..Frames
  /\ file_time_ref \in TimeRefs \cup {"NONE"} /\ file_rotation_limit \in Limits \cup {0}
  /\ written \in 0..Frames /\ errors \in 0..Frames /\ overwritten \subseteq 1..Frames
  /\ DOMAIN disk \subseteq Names
  /\ main \in {"running", "join_capture", "stop_camera", "put_sentinel", "join_writer",
               "close_logs", "done", "raised"}
  /\ capture_stop \in BOOLEAN /\ writer_stop \in BOOLEAN /\ capture_late \in BOOLEAN

(* No file spans a change of the time reference or of the rotation limit,  *)
(* none grows past its limit, and the frames in it are in capture order:   *)
(* one sidecar describes every frame of its file.                          *)
FilesAreUniform ==
  /\ TypeOK
  /\ \A n \in DOMAIN disk : \A i \in 1..Len(disk[n]) :
      /\ disk[n][i].ref = n.ref
      /\ disk[n][i].limit = disk[n][1].limit
      /\ i <= disk[n][1].limit
      /\ i > 1 => disk[n][i - 1].number < disk[n][i].number

(* Where a frame submitted may be: waiting in the queue, in the writer's   *)
(* hand, or stored in a file, even if that was overwritten since.          *)
Waiting == {i \in 1..Len(queue) : queue[i] # Sentinel}
Queued == {queue[i].number : i \in Waiting}
InHand == IF writer = "writing" THEN {hand.number} ELSE {}
Stored == overwritten \cup UNION {NumbersIn(disk[n]) : n \in DOMAIN disk}
Underway == Queued \cup InHand
Missing == (1..captured) \ (Underway \cup Stored)

(* Every frame submitted is in one of these places and in one only, or was *)
(* dropped or failed and was counted: nothing disappears in a hand-over,   *)
(* nothing is written twice, the three counters the code reports add up,   *)
(* and what a shutdown loses is what it left in the queue.                 *)
FramesAccounted ==
  /\ Underway \cup Stored \subseteq 1..captured
  /\ Queued \cap InHand = {} /\ Underway \cap Stored = {}
  /\ \A i, j \in Waiting : queue[i].number = queue[j].number => i = j
  /\ Cardinality(Stored) = written
  /\ Cardinality(Missing) = dropped + errors

(* The queue, the writer and its files together are a lossy line of frames *)
(* that none of them overtakes (video_writer.py, camera_control.py).       *)
Pipeline == INSTANCE FramePipeline WITH
              underway <- Underway, stored <- Stored, lost <- Missing
PipelineHolds == Pipeline!Spec

(* "capture must stop before the writer, or frames continue arriving at a  *)
(* queue nobody is draining": a writer that has ended leaves no capture    *)
(* thread behind, unless that thread outlived its join.                    *)
NobodyFeedsADeadQueue ==
  writer = "ended" /\ ~capture_late => capture = "ended"

(* A shutdown once begun ends, though neither thread need ever come back   *)
(* and the queue may stay full: it waits for ever only if the camera's     *)
(* stop() or the closing of a log does.                                    *)
ShutdownCompletes ==
  CameraAnswers /\ LogsAnswer => (main = "join_capture" ~> main \in {"done", "raised"})

(* While the disk answers, the writer ends once it is told to, even when   *)
(* the sentinel found no room in the queue.  A shutdown that the camera's  *)
(* exception has ended never tells it.                                     *)
WriterStops == DiskAnswers => (writer_stop ~> writer = "ended")
=============================================================================
