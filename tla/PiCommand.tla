----------------------------- MODULE PiCommand -----------------------------
(***************************************************************************)
(* Telecommands on the Pi.  A COMMAND arrives in the frame the Pi clocks   *)
(* out of the ESP32 (SpiLink._handle_command); TEST runs inside the main   *)
(* loop and stops the link while it does, WIPE runs on a thread of its     *)
(* own.  Either ends by writing a row to the command log and storing a     *)
(* result, which every following STATUS carries next to the sequence       *)
(* number of the last command accepted.  A row waits in the buffer of the  *)
(* open log until its FSYNC_EVERY_N_ROWS-th row or an orderly shutdown.    *)
(*                                                                         *)
(* WIPE walks the data directories and deletes files while the loggers and *)
(* the video writer go on opening new ones.  A file and its sidecar are    *)
(* one name here, and "system_state" any of the three periodic CSV         *)
(* streams.  The file names are the code's: the stream, the time reference *)
(* of the last POLL, and the absolute value of the mission time.  The time *)
(* an ESP32 sends may be negative before lift-off; the present firmware    *)
(* sends its uptime.                                                       *)
(***************************************************************************)
EXTENDS Integers, Sequences, FiniteSets

CONSTANTS
  TimeRefs,       \* the time references a POLL carries, as file name tags
  Periodic,       \* the streams that roll over: "system_state", "video" or both
  FsyncEvery,     \* FSYNC_EVERY_N_ROWS
  Commands,       \* bound: commands the sender issues
  Restarts,       \* bound: times the Pi process is restarted
  MaxFiles,       \* bound: a stream rolls over only while the disk holds fewer
  Countdown,      \* bound: file periods the mission time is below zero at the start
  LastTime        \* bound: mission time, in file periods, at which the clock stops

ASSUME PiCommandAssumption ==
  /\ TimeRefs \subseteq {"TMINUS", "TPLUS", "UNSYNCED"} /\ "UNSYNCED" \in TimeRefs
  /\ Periodic \subseteq {"system_state", "video"} /\ FsyncEvery \in Nat \ {0}
  /\ Commands \in Nat \ {0} /\ Restarts \in Nat
  /\ MaxFiles \in Nat /\ Countdown \in Nat /\ LastTime \in Nat

VARIABLES
  mission_time,         \* in file periods; before the first POLL, the Pi's own clock
  time_ref,
  sent,                 \* what the sender has issued: sent[s] is command s
  last_command_seq,     \* 0 for None
  last_command_result,
  job,                  \* where the execution of each command stands
  status,               \* the echo and the result of the last STATUS clocked out
  files,                \* names that exist on the SSD
  open,                 \* the file each stream has open
  rows,                 \* rows that reached a command log: <<file, sequence number>>
  waiting,              \* rows of the open log since the last sync of it
  boots,                \* restarts so far
  runs,                 \* history: executions of each command since the restart
  overlapped            \* history: a command was accepted while another ran

linkVars == <<last_command_seq, last_command_result, status>>
fileVars == <<files, open, rows, waiting>>
timeVars == <<mission_time, time_ref, boots>>
historyVars == <<runs, overlapped>>
vars == <<linkVars, fileVars, timeVars, historyVars, sent, job>>

Seqs == 1..Commands
Kinds == {"WIPE", "TEST"}
FinalResults == {"OK", "FAILED"}
Results == {"NONE", "PENDING"} \cup FinalResults

-----------------------------------------------------------------------------
(* File names.                                                             *)

Streams == Periodic \cup {"uplink_commands"}
Directories == {"csv", "video"}
Directory(stream) == IF stream = "video" THEN "video" ELSE "csv"

NoFile == [stream |-> "none", tag |-> "none", seconds |-> 0]

(* The name a file opened now is given.                                    *)
Filename(stream) ==
  [stream  |-> stream, tag |-> time_ref,
   seconds |-> IF mission_time < 0 THEN -mission_time ELSE mission_time]

StreamOrder == [system_state |-> 0, uplink_commands |-> 1, video |-> 2]
TagOrder == [TMINUS |-> 0, TPLUS |-> 1, UNSYNCED |-> 2]

(* The lexical order of the names.                                         *)
Precedes(f, g) ==
  \/ StreamOrder[f.stream] < StreamOrder[g.stream]
  \/ /\ f.stream = g.stream
     /\ \/ TagOrder[f.tag] < TagOrder[g.tag]
        \/ f.tag = g.tag /\ f.seconds < g.seconds

Newest(names) == {f \in names : \A g \in names \ {f} : Precedes(g, f)}

(* A slip: only the newest file is spared.                                 *)
ToDeleteLogsToo(names) == names \ Newest(names)

(* What a WIPE removes from a directory that holds names.                  *)
ToDelete(names) ==
  {f \in names \ Newest(names) : f.stream # "uplink_commands"}

-----------------------------------------------------------------------------
(* The execution of a command.                                             *)

Stages == {"none", "wipe", "test", "record", "open", "append", "store", "done"}
NoJob == [at |-> "none", dirs |-> {}, todo |-> {}, result |-> "NONE"]

Running(s) == job[s].at \notin {"none", "done"}
LinkBlocked == \E s \in Seqs : Running(s) /\ sent[s] = "TEST"

Init ==
  /\ mission_time = -Countdown
  /\ time_ref = "UNSYNCED"
  /\ sent = <<>>
  /\ last_command_seq = 0
  /\ last_command_result = "NONE"
  /\ job = [s \in Seqs |-> NoJob]
  /\ status = [echo |-> 0, result |-> "NONE"]
  /\ files = {}
  /\ open = [st \in Streams |-> NoFile]
  /\ rows = {}
  /\ waiting = {}
  /\ boots = 0
  /\ runs = [s \in Seqs |-> 0]
  /\ overlapped = FALSE

(* A slip: a WIPE is not reported as pending.                              *)
AcceptQuietly(s) ==
  /\ last_command_seq' = s
  /\ last_command_result' = last_command_result
  /\ job' = [job EXCEPT ![s] =
       IF sent[s] = "WIPE"
         THEN [NoJob EXCEPT !.at = "wipe", !.dirs = Directories]
         ELSE [NoJob EXCEPT !.at = "test"]]
  /\ runs' = [runs EXCEPT ![s] = @ + 1]
  /\ overlapped' = (overlapped \/ \E t \in Seqs : Running(t))

(* A new command is noted; a WIPE is reported as pending and handed to a   *)
(* thread, anything else starts in the main loop.                          *)
Accept(s) ==
  /\ last_command_seq' = s
  /\ last_command_result' =
       IF sent[s] = "WIPE" THEN "PENDING" ELSE last_command_result
  /\ job' = [job EXCEPT ![s] =
       IF sent[s] = "WIPE"
         THEN [NoJob EXCEPT !.at = "wipe", !.dirs = Directories]
         ELSE [NoJob EXCEPT !.at = "test"]]
  /\ runs' = [runs EXCEPT ![s] = @ + 1]
  /\ overlapped' = (overlapped \/ \E t \in Seqs : Running(t))

(* A slip: a retransmitted command is executed again.                      *)
HandleCommandEveryTime(s) == Accept(s)

(* A repeated sequence number is dropped.                                  *)
HandleCommand(s) ==
  IF s = last_command_seq
    THEN UNCHANGED <<last_command_seq, last_command_result, job, runs, overlapped>>
    ELSE Accept(s)

-----------------------------------------------------------------------------
(* The sender and the link.                                                *)

(* The ESP32 issues the next command; the numbers only grow.               *)
Issue(kind) ==
  /\ Len(sent) < Commands
  /\ sent' = Append(sent, kind)
  /\ UNCHANGED <<linkVars, fileVars, timeVars, historyVars, job>>

(* The STATUS of a transaction is built before its frame is read.          *)
BuildStatus ==
  status' = [echo |-> last_command_seq, result |-> last_command_result]

(* A slot that brings no command: an idle or damaged frame, or a POLL.     *)
ClockQuiet ==
  /\ ~LinkBlocked
  /\ BuildStatus
  /\ time_ref' \in TimeRefs
  /\ UNCHANGED <<last_command_seq, last_command_result, mission_time, boots,
                 fileVars, historyVars, sent, job>>

(* A slot that brings the newest command, for the first time or again.     *)
ClockCommand ==
  /\ ~LinkBlocked
  /\ sent # <<>>
  /\ BuildStatus
  /\ HandleCommand(Len(sent))
  /\ UNCHANGED <<timeVars, fileVars, sent>>

-----------------------------------------------------------------------------
(* The steps of a command.                                                 *)

(* WIPE lists a directory and decides what goes.                           *)
WalkDirectory(s, d) ==
  /\ job[s].at = "wipe" /\ job[s].todo = {} /\ d \in job[s].dirs
  /\ job' = [job EXCEPT
       ![s].dirs = @ \ {d},
       ![s].todo = ToDelete({f \in files : Directory(f.stream) = d})]
  /\ UNCHANGED <<linkVars, fileVars, timeVars, historyVars, sent>>

(* WIPE removes the next file of its list, in order, or fails to.          *)
DeleteNext(s) ==
  /\ job[s].at = "wipe" /\ job[s].todo # {}
  /\ \E f \in job[s].todo :
       /\ \A g \in job[s].todo \ {f} : Precedes(f, g)
       /\ job' = [job EXCEPT ![s].todo = @ \ {f}]
       /\ files' \in {files \ {f}, files}
  /\ UNCHANGED <<open, rows, waiting, linkVars, timeVars, historyVars, sent>>

(* WIPE has seen every directory: whether there is room now decides.       *)
WipeEnds(s) ==
  /\ job[s].at = "wipe" /\ job[s].todo = {} /\ job[s].dirs = {}
  /\ \E r \in FinalResults :
       job' = [job EXCEPT ![s].at = "record", ![s].result = r]
  /\ UNCHANGED <<linkVars, fileVars, timeVars, historyVars, sent>>

(* The self-test comes to its verdict.                                     *)
TestEnds(s) ==
  /\ job[s].at = "test"
  /\ \E r \in FinalResults :
       job' = [job EXCEPT ![s].at = "record", ![s].result = r]
  /\ UNCHANGED <<linkVars, fileVars, timeVars, historyVars, sent>>

(* The handler writes its row: is a file open?                             *)
RecordBegins(s) ==
  /\ job[s].at = "record"
  /\ job' = [job EXCEPT ![s].at =
       IF open["uplink_commands"] = NoFile THEN "open" ELSE "append"]
  /\ UNCHANGED <<linkVars, fileVars, timeVars, historyVars, sent>>

(* It opens the log; a file of that name is truncated.  What still waited  *)
(* for a log opened a moment before by the other thread goes to that one.  *)
OpenLog(s) ==
  /\ job[s].at = "open"
  /\ LET f == Filename("uplink_commands") IN
       /\ files' = files \cup {f}
       /\ open' = [open EXCEPT !["uplink_commands"] = f]
       /\ rows' = {r \in rows \cup ({open["uplink_commands"]} \X waiting) : r[1] # f}
       /\ waiting' = {}
  /\ job' = [job EXCEPT ![s].at = "append"]
  /\ UNCHANGED <<linkVars, timeVars, historyVars, sent>>

SyncIsDue(s) == Cardinality(waiting \cup {s}) >= FsyncEvery

(* It appends the row, which waits unless the log is now to be synced.     *)
AppendRow(s) ==
  /\ job[s].at = "append"
  /\ IF SyncIsDue(s)
       THEN /\ rows' = rows \cup ({open["uplink_commands"]} \X (waiting \cup {s}))
            /\ waiting' = {}
       ELSE waiting' = waiting \cup {s} /\ UNCHANGED rows
  /\ job' = [job EXCEPT ![s].at = "store"]
  /\ UNCHANGED <<files, open, linkVars, timeVars, historyVars, sent>>

(* Opening, writing or syncing fails, the last with the row in the buffer: *)
(* the exception makes the command a failure.                              *)
HandlerFails(s) ==
  /\ job[s].at \in {"open", "append"}
  /\ \/ UNCHANGED waiting
     \/ job[s].at = "append" /\ SyncIsDue(s) /\ waiting' = waiting \cup {s}
  /\ job' = [job EXCEPT ![s].at = "store", ![s].result = "FAILED"]
  /\ UNCHANGED <<files, open, rows, linkVars, timeVars, historyVars, sent>>

(* A slip: a TEST is left without its result.                              *)
StoreResultOfWipesOnly(s) ==
  /\ job[s].at = "store"
  /\ last_command_result' =
       IF sent[s] = "WIPE" THEN job[s].result ELSE last_command_result
  /\ job' = [job EXCEPT ![s].at = "done"]
  /\ UNCHANGED <<last_command_seq, status, fileVars, timeVars, runs, overlapped, sent>>

(* The result is stored, whichever command the Pi has accepted since.      *)
StoreResult(s) ==
  /\ job[s].at = "store"
  /\ last_command_result' = job[s].result
  /\ job' = [job EXCEPT ![s].at = "done"]
  /\ UNCHANGED <<last_command_seq, status, fileVars, timeVars, runs, overlapped, sent>>

JobStep(s) ==
  \/ \E d \in Directories : WalkDirectory(s, d)
  \/ DeleteNext(s)
  \/ WipeEnds(s)
  \/ TestEnds(s)
  \/ RecordBegins(s)
  \/ OpenLog(s)
  \/ AppendRow(s)
  \/ HandlerFails(s)
  \/ StoreResult(s)

-----------------------------------------------------------------------------
(* Around them: the other writers, the clock, and the process itself.      *)

(* A stream's file is full, or it is its first row: the next file opens.   *)
(* Of a main loop that a TEST holds up, only the TEST writes a state row.  *)
RollOver(stream) ==
  /\ Cardinality(files) < MaxFiles
  /\ stream = "system_state" => ~LinkBlocked \/ \E s \in Seqs : job[s].at = "test"
  /\ LET f == Filename(stream) IN
       /\ f # open[stream]
       /\ files' = files \cup {f}
       /\ open' = [open EXCEPT ![stream] = f]
  /\ UNCHANGED <<rows, waiting, linkVars, timeVars, historyVars, sent, job>>

TimePasses ==
  /\ mission_time < LastTime
  /\ mission_time' = mission_time + 1
  /\ UNCHANGED <<time_ref, boots, linkVars, fileVars, historyVars, sent, job>>

(* The process ends and is started again; its threads die with it.  Of the *)
(* rows that wait an orderly shutdown writes all, and a death none but     *)
(* those a sync that failed later had already handed over.                 *)
Restart ==
  /\ boots < Restarts
  /\ boots' = boots + 1
  /\ time_ref' = "UNSYNCED"
  /\ last_command_seq' = 0
  /\ last_command_result' = "NONE"
  /\ status' = [echo |-> 0, result |-> "NONE"]
  /\ job' = [s \in Seqs |-> NoJob]
  /\ open' = [st \in Streams |-> NoFile]
  /\ runs' = [s \in Seqs |-> 0]
  /\ overlapped' = FALSE
  /\ \E kept \in SUBSET waiting :
       rows' = rows \cup ({open["uplink_commands"]} \X kept)
  /\ waiting' = {}
  /\ UNCHANGED <<mission_time, files, sent>>

Next ==
  \/ \E kind \in Kinds : Issue(kind)
  \/ ClockQuiet
  \/ ClockCommand
  \/ \E s \in Seqs : JobStep(s)
  \/ \E stream \in Periodic : RollOver(stream)
  \/ TimePasses
  \/ Restart

(* The main loop keeps clocking and every thread gets to run.              *)
Spec ==
  /\ Init /\ [][Next]_vars
  /\ WF_vars(ClockQuiet)
  /\ \A s \in Seqs : WF_vars(JobStep(s))

-----------------------------------------------------------------------------
(* Every variable keeps to its domain.                                     *)
Names == [stream : Streams, tag : TimeRefs, seconds : 0..(Countdown + LastTime)]

TypeOK ==
  /\ mission_time \in -Countdown..LastTime
  /\ time_ref \in TimeRefs
  /\ sent \in Seq(Kinds) /\ Len(sent) <= Commands
  /\ last_command_seq \in 0..Len(sent)
  /\ last_command_result \in Results
  /\ \A s \in Seqs :
       /\ job[s].at \in Stages /\ job[s].result \in Results
       /\ job[s].dirs \subseteq Directories
       /\ job[s].todo \subseteq Names
       /\ job[s].at \in {"store", "done"} => job[s].result \in FinalResults
  /\ status.echo \in 0..Len(sent) /\ status.result \in Results
  /\ files \subseteq Names
  /\ \A st \in Streams : open[st] \in Names \cup {NoFile}
  /\ rows \subseteq Names \X Seqs /\ waiting \subseteq Seqs
  /\ overlapped \in BOOLEAN

(* However often the sender repeats a command before it is answered, the   *)
(* Pi carries it out at most once between two restarts.                    *)
ExecutedOnce == TypeOK /\ \A s \in Seqs : runs[s] <= 1

(* Unless a command was accepted while another was still running, a final  *)
(* result in a STATUS beside a WIPE's number is the one that WIPE came to. *)
(* (A TEST's number is never seen beside an older result either: the link  *)
(* stands still until the TEST has its own.)                               *)
ResultBelongsToEcho ==
  ~overlapped /\ status.echo # 0 /\ status.result \in FinalResults =>
    LET j == job[status.echo] IN j.at = "done" /\ j.result = status.result

(* Under the same condition a command reported OK has its row in a command *)
(* log that is still on the disk, or waiting to be written to the open log *)
(* which is, whichever WIPE ran since; and fewer than FSYNC_EVERY_N_ROWS   *)
(* rows wait, which is what the end of the process may cost.               *)
OnRecord(s) ==
  \/ \E f \in files : <<f, s>> \in rows
  \/ s \in waiting /\ open["uplink_commands"] \in files

OkIsOnRecord ==
  ~overlapped /\ last_command_seq # 0 /\ last_command_result = "OK" /\ ~LinkBlocked =>
    OnRecord(last_command_seq) /\ Cardinality(waiting) < FsyncEvery

(* A command the Pi accepts is answered by a STATUS with a final result,   *)
(* or the Pi is restarted and has forgotten it.                            *)
EveryCommandIsAnswered ==
  \A s \in Seqs :
    last_command_seq = s ~>
      \/ status.echo >= s /\ status.result \in FinalResults
      \/ last_command_seq = 0

(* "A file still open by a writer must not be unlinked": the comment of    *)
(* StorageManager.wipe.  What a WIPE takes for the newest file is the one  *)
(* with the greatest name: one from before the countdown rather than the   *)
(* one being written, as UNSYNCED sorts after TMINUS.                      *)
WipeSparesOpenFiles ==
  \A st \in Streams : open[st] # NoFile => open[st] \in files
=============================================================================
