-------------------------- MODULE PiCommand_proofs ---------------------------
(***************************************************************************)
(* Theorems about PiCommand, for every number of commands, restarts, files *)
(* and time references, and any choice of the streams that roll over.      *)
(***************************************************************************)
EXTENDS PiCommand, FiniteSetTheorems, TLAPS

Log == "uplink_commands"

Job == [at : Stages, dirs : SUBSET Directories, todo : SUBSET Names, result : Results]

Decided == {"record", "open", "append", "store", "done"}

(* The types, with what the type invariant leaves to the actions.          *)
Typed ==
  /\ TypeOK
  /\ job \in [Seqs -> Job]
  /\ open \in [Streams -> Names \cup {NoFile}]
  /\ runs \in [Seqs -> Nat]
  /\ \A s \in Seqs : job[s].at \in Decided => job[s].result \in FinalResults

(* A number not yet accepted has not been executed. *)
RunsAreAccepted ==
  \A s \in Seqs : runs[s] <= 1 /\ (s > last_command_seq => runs[s] = 0)

(* The command log, once open, exists and is on nobody's list.             *)
LogIsSafe ==
  /\ open[Log] # NoFile => open[Log] \in files /\ open[Log].stream = Log
  /\ waiting # {} => open[Log] # NoFile
  /\ \A s \in Seqs : job[s].at = "append" => open[Log] # NoFile
  /\ \A s \in Seqs : \A f \in job[s].todo : f.stream # Log

(* Without overlap only the last command can be running. *)
OnlyTheLastRuns == ~overlapped => \A s \in Seqs : Running(s) => s = last_command_seq

(* The row of a command is in a log, or waits for the open one.            *)
Held(s) ==
  /\ \/ \E f \in files : f.stream = Log /\ <<f, s>> \in rows
     \/ s \in waiting /\ open[Log] # NoFile
  /\ Cardinality(waiting) < FsyncEvery

OkIsRecorded ==
  ~overlapped /\ last_command_seq # 0 =>
    (job[last_command_seq].at \in {"store", "done"} /\ job[last_command_seq].result = "OK"
      => Held(last_command_seq))

(* Without overlap the final result the link would report is the last      *)
(* command's.                                                              *)
ResultIsTheLasts ==
  ~overlapped /\ last_command_seq # 0 /\ last_command_result \in FinalResults
  /\ ~LinkBlocked =>
    /\ job[last_command_seq].at = "done"
    /\ job[last_command_seq].result = last_command_result

EchoIsOld == status.echo <= last_command_seq

IInv ==
  /\ Typed /\ RunsAreAccepted /\ LogIsSafe
  /\ OnlyTheLastRuns /\ OkIsRecorded /\ ResultIsTheLasts
  /\ EchoIsOld /\ ResultBelongsToEcho

-----------------------------------------------------------------------------
(* The numbers in use. *)
LEMMA Numbers ==
  ASSUME IInv
  PROVE  /\ last_command_seq \in Nat /\ last_command_seq <= Len(sent)
         /\ Len(sent) \in Nat /\ Len(sent) <= Commands
         /\ last_command_seq # 0 => last_command_seq \in Seqs
         /\ status.echo \in Nat /\ status.echo <= last_command_seq
         /\ status.echo # 0 => status.echo \in Seqs
<1>1. /\ sent \in Seq(Kinds) /\ Len(sent) <= Commands
      /\ last_command_seq \in 0..Len(sent) /\ status.echo \in 0..Len(sent)
      /\ status.echo <= last_command_seq
  BY Zenon DEF IInv, Typed, TypeOK, EchoIsOld
<1>2. Len(sent) \in Nat /\ Commands \in Nat
  BY <1>1, PiCommandAssumption, SMT
<1> QED
  BY <1>1, <1>2, SMT DEF Seqs

(* The name of a file opened now. *)
LEMMA NamesAreNames ==
  ASSUME Typed, NEW stream \in Streams
  PROVE  /\ Filename(stream) \in Names /\ Filename(stream).stream = stream
         /\ Filename(stream) # NoFile
<1>1. /\ time_ref \in TimeRefs /\ mission_time \in -Countdown..LastTime
  BY Zenon DEF Typed, TypeOK
<1>2. (IF mission_time < 0 THEN -mission_time ELSE mission_time) \in 0..(Countdown + LastTime)
  BY <1>1, PiCommandAssumption, SMT
<1>3. Filename(stream).stream = stream
  BY DEF Filename
<1>4. Filename(stream) \in Names
  BY <1>1, <1>2, Zenon DEF Filename, Names
<1>5. Filename(stream) # NoFile
  <2>1. NoFile.stream = "none" /\ "none" \notin Streams
    BY PiCommandAssumption, SMT DEF NoFile, Streams
  <2> QED
    BY <1>3, <2>1
<1> QED
  BY <1>3, <1>4, <1>5

(* The fields of a job. *)
LEMMA JobFieldsOf ==
  ASSUME NEW j \in Job
  PROVE  /\ j.at \in Stages /\ j.result \in Results
         /\ j.dirs \subseteq Directories /\ j.todo \subseteq Names
  BY Zenon DEF Job

-----------------------------------------------------------------------------
(* The start, and a restart. *)
LEMMA FreshJobs == NoJob \in Job /\ NoJob.at = "none" /\ NoJob.todo = {}
  BY Zenon DEF NoJob, Job, Stages, Results

(* The start. *)
LEMMA InitHolds == Init => IInv
<1> SUFFICES ASSUME Init PROVE IInv
  OBVIOUS
<1>1. /\ mission_time = -Countdown /\ time_ref = "UNSYNCED" /\ sent = <<>>
      /\ last_command_seq = 0 /\ last_command_result = "NONE"
      /\ status = [echo |-> 0, result |-> "NONE"]
      /\ job = [s \in Seqs |-> NoJob] /\ open = [st \in Streams |-> NoFile]
      /\ files = {} /\ rows = {} /\ waiting = {} /\ runs = [s \in Seqs |-> 0] /\ overlapped = FALSE
  BY DEF Init
<1>2. /\ sent \in Seq(Kinds) /\ Len(sent) = 0 /\ Len(sent) <= Commands
      /\ 0 \in 0..Len(sent) /\ mission_time \in -Countdown..LastTime
      /\ 0 <= 1 /\ 0 \in Nat /\ 0 <= 0
  BY <1>1, PiCommandAssumption, SMT
<1>3. Log \in Streams
  BY DEF Log, Streams
<1>4. \A s \in Seqs : job[s] = NoJob
  BY <1>1
<1>5. /\ NoJob.at \notin Decided /\ NoJob.at # "append" /\ NoJob.at = "none"
      /\ NoJob.at \notin {"store", "done"} /\ "NONE" \notin FinalResults
      /\ "NONE" \in Results
  BY FreshJobs, SMT DEF Decided, FinalResults, Results
<1>6. TypeOK
  BY <1>1, <1>2, <1>4, <1>5, FreshJobs, JobFieldsOf, PiCommandAssumption, Zenon DEF TypeOK
<1>7. Typed
  BY <1>1, <1>2, <1>4, <1>5, <1>6, FreshJobs, Zenon DEF Typed
<1>8. RunsAreAccepted
  BY <1>1, <1>2, SMT DEF RunsAreAccepted
<1>9. LogIsSafe
  BY <1>1, <1>3, <1>4, <1>5, FreshJobs, Zenon DEF LogIsSafe
<1>10. OnlyTheLastRuns
  BY <1>4, <1>5, Zenon DEF OnlyTheLastRuns, Running
<1>11. OkIsRecorded /\ ResultIsTheLasts /\ EchoIsOld /\ ResultBelongsToEcho
  BY <1>1, <1>2, Zenon DEF OkIsRecorded, ResultIsTheLasts, EchoIsOld, ResultBelongsToEcho
<1> QED
  BY <1>7, <1>8, <1>9, <1>10, <1>11 DEF IInv

(* A restart: nothing is remembered, the files stay. *)
LEMMA RestartKeeps ==
  ASSUME IInv, Restart
  PROVE  IInv'
<1>1. /\ time_ref' = "UNSYNCED"
      /\ last_command_seq' = 0 /\ last_command_result' = "NONE"
      /\ status' = [echo |-> 0, result |-> "NONE"]
      /\ job' = [s \in Seqs |-> NoJob] /\ open' = [st \in Streams |-> NoFile]
      /\ runs' = [s \in Seqs |-> 0] /\ overlapped' = FALSE
      /\ waiting' = {} /\ UNCHANGED <<mission_time, files, sent>>
  BY DEF Restart
<1>r. rows' \subseteq Names \X Seqs
  <2>1. PICK kept \in SUBSET waiting : rows' = rows \cup ({open[Log]} \X kept)
    BY Zenon DEF Restart, Log
  <2>2. /\ rows \subseteq Names \X Seqs /\ waiting \subseteq Seqs
        /\ waiting # {} => open[Log] \in files /\ files \subseteq Names
    BY Zenon DEF IInv, Typed, TypeOK, LogIsSafe
  <2>3. CASE kept = {}
    BY <2>1, <2>2, <2>3, SMT
  <2>4. CASE kept # {}
    <3>1. open[Log] \in Names
      BY <2>2, <2>4, Zenon
    <3> QED
      BY <2>1, <2>2, <3>1, SMT
  <2> QED
    BY <2>3, <2>4
<1>2. 0 \in 0..Len(sent) /\ 0 <= 1 /\ 0 \in Nat /\ 0 <= 0
  BY Numbers, SMT
<1>3. Log \in Streams
  BY DEF Log, Streams
<1>4. \A s \in Seqs : job'[s] = NoJob
  BY <1>1
<1>5. /\ NoJob.at \notin Decided /\ NoJob.at # "append" /\ NoJob.at = "none"
      /\ NoJob.at \notin {"store", "done"} /\ "NONE" \notin FinalResults
      /\ "NONE" \in Results
  BY FreshJobs, SMT DEF Decided, FinalResults, Results
<1>6. TypeOK'
  BY <1>1, <1>r, <1>2, <1>4, <1>5, FreshJobs, JobFieldsOf, PiCommandAssumption, Zenon
  DEF IInv, Typed, TypeOK, Names, Streams
<1>7. Typed'
  BY <1>1, <1>2, <1>4, <1>5, <1>6, FreshJobs, Zenon DEF Typed
<1>8. RunsAreAccepted'
  BY <1>1, <1>2, SMT DEF RunsAreAccepted
<1>9. LogIsSafe'
  BY <1>1, <1>3, <1>4, <1>5, FreshJobs, Zenon DEF LogIsSafe
<1>10. OnlyTheLastRuns'
  BY <1>4, <1>5, Zenon DEF OnlyTheLastRuns, Running
<1>11. OkIsRecorded' /\ ResultIsTheLasts' /\ EchoIsOld' /\ ResultBelongsToEcho'
  BY <1>1, <1>2, Zenon DEF OkIsRecorded, ResultIsTheLasts, EchoIsOld, ResultBelongsToEcho
<1> QED
  BY <1>7, <1>8, <1>9, <1>10, <1>11 DEF IInv

-----------------------------------------------------------------------------
(* The sender, the clock and the streams that roll over touch no command.  *)
LEMMA QuietKeeps ==
  ASSUME IInv, UNCHANGED <<linkVars, historyVars, job>>,
         mission_time' \in -Countdown..LastTime, time_ref' \in TimeRefs,
         sent' \in Seq(Kinds), Len(sent') <= Commands, Len(sent) <= Len(sent'),
         \A s \in 1..Len(sent) : sent'[s] = sent[s],
         files \subseteq files', files' \subseteq Names, rows' = rows, waiting' = waiting,
         open' \in [Streams -> Names \cup {NoFile}], open'[Log] = open[Log]
  PROVE  IInv'
<1>1. /\ last_command_seq' = last_command_seq
      /\ last_command_result' = last_command_result /\ status' = status
      /\ runs' = runs /\ overlapped' = overlapped /\ job' = job
  BY DEF linkVars, historyVars
<1>2. /\ last_command_seq' \in 0..Len(sent') /\ status'.echo \in 0..Len(sent')
  BY <1>1, Numbers, SMT
<1>3. TypeOK'
  BY <1>1, <1>2, Zenon DEF IInv, Typed, TypeOK, Names, Streams
<1>4. Typed'
  BY <1>1, <1>3, Zenon DEF IInv, Typed, Names, Streams
<1>5. RunsAreAccepted' /\ OnlyTheLastRuns' /\ EchoIsOld' /\ ResultBelongsToEcho'
  BY <1>1, Zenon DEF IInv, RunsAreAccepted, OnlyTheLastRuns, EchoIsOld,
                     ResultBelongsToEcho, Running
<1>6. LogIsSafe'
  BY <1>1, Zenon DEF IInv, LogIsSafe, Log
<1>7. OkIsRecorded'
  BY <1>1, Zenon DEF IInv, OkIsRecorded, Held, Log
<1>8. ResultIsTheLasts'
  <2> SUFFICES ASSUME ~overlapped, last_command_seq # 0,
                      last_command_result \in FinalResults, ~LinkBlocked'
               PROVE  ~LinkBlocked
    BY <1>1, Zenon DEF IInv, ResultIsTheLasts
  <2>1. ASSUME NEW s \in Seqs, Running(s), sent[s] = "TEST"
        PROVE  FALSE
    <3>1. s = last_command_seq
      BY <2>1 DEF IInv, OnlyTheLastRuns
    <3>2. s \in 1..Len(sent)
      BY <3>1, Numbers, SMT
    <3>3. sent'[s] = "TEST" /\ Running(s)'
      BY <1>1, <2>1, <3>2, Zenon DEF Running
    <3> QED
      BY <3>3, Zenon DEF LinkBlocked
  <2> QED
    BY <2>1, Zenon DEF LinkBlocked
<1> QED
  BY <1>4, <1>5, <1>6, <1>7, <1>8 DEF IInv

(* The sender issues a command. *)
LEMMA IssueKeeps ==
  ASSUME IInv, NEW kind \in Kinds, Issue(kind)
  PROVE  IInv'
<1>1. /\ Len(sent) < Commands /\ sent' = Append(sent, kind)
      /\ UNCHANGED <<linkVars, fileVars, timeVars, historyVars, job>>
  BY DEF Issue
<1>2. /\ sent' \in Seq(Kinds) /\ Len(sent') <= Commands /\ Len(sent) <= Len(sent')
      /\ \A s \in 1..Len(sent) : sent'[s] = sent[s]
  <2>1. sent \in Seq(Kinds) /\ Commands \in Nat
    BY PiCommandAssumption DEF IInv, Typed, TypeOK
  <2> QED
    BY <1>1, <2>1, SMT
<1>3. /\ mission_time' \in -Countdown..LastTime /\ time_ref' \in TimeRefs
      /\ files \subseteq files' /\ files' \subseteq Names /\ rows' = rows /\ waiting' = waiting
      /\ open' \in [Streams -> Names \cup {NoFile}] /\ open'[Log] = open[Log]
  BY <1>1, Zenon DEF fileVars, timeVars, IInv, Typed, TypeOK
<1> QED
  BY <1>1, <1>2, <1>3, QuietKeeps

(* Time passes. *)
LEMMA TimePassesKeeps ==
  ASSUME IInv, TimePasses
  PROVE  IInv'
<1>1. /\ mission_time < LastTime /\ mission_time' = mission_time + 1
      /\ UNCHANGED <<time_ref, boots, linkVars, fileVars, historyVars, sent, job>>
  BY DEF TimePasses
<1>2. mission_time' \in -Countdown..LastTime
  BY <1>1, PiCommandAssumption, SMT DEF IInv, Typed, TypeOK
<1>3. /\ time_ref' \in TimeRefs
      /\ files \subseteq files' /\ files' \subseteq Names /\ rows' = rows /\ waiting' = waiting
      /\ open' \in [Streams -> Names \cup {NoFile}] /\ open'[Log] = open[Log]
      /\ sent' \in Seq(Kinds) /\ Len(sent') <= Commands
      /\ \A s \in 1..Len(sent) : sent'[s] = sent[s]
  BY <1>1, Zenon DEF fileVars, IInv, Typed, TypeOK
<1>4. Len(sent) <= Len(sent')
  BY <1>1, Numbers, SMT
<1> QED
  BY <1>1, <1>2, <1>3, <1>4, QuietKeeps

(* Another stream opens its next file. *)
LEMMA RollOverKeeps ==
  ASSUME IInv, NEW stream \in Periodic, RollOver(stream)
  PROVE  IInv'
<1> DEFINE f == Filename(stream)
<1>1. /\ files' = files \cup {f} /\ open' = [open EXCEPT ![stream] = f]
      /\ UNCHANGED <<rows, waiting, linkVars, timeVars, historyVars, sent, job>>
  BY DEF RollOver
<1>2. stream \in Streams /\ Log \in Streams /\ stream # Log
  BY PiCommandAssumption, SMT DEF Streams, Log
<1>3. f \in Names
  BY <1>2, NamesAreNames DEF IInv
<1> HIDE DEF f
<1>4. /\ open' \in [Streams -> Names \cup {NoFile}] /\ open'[Log] = open[Log]
  BY <1>1, <1>2, <1>3, Zenon DEF IInv, Typed
<1>5. /\ mission_time' \in -Countdown..LastTime /\ time_ref' \in TimeRefs
      /\ files \subseteq files' /\ files' \subseteq Names /\ rows' = rows /\ waiting' = waiting
      /\ sent' \in Seq(Kinds) /\ Len(sent') <= Commands
      /\ \A s \in 1..Len(sent) : sent'[s] = sent[s]
  BY <1>1, <1>3, Zenon DEF timeVars, IInv, Typed, TypeOK
<1>6. Len(sent) <= Len(sent')
  BY <1>1, Numbers, SMT
<1> QED
  BY <1>1, <1>4, <1>5, <1>6, QuietKeeps

-----------------------------------------------------------------------------
(* What a STATUS built now says belongs to the number beside it.           *)
LEMMA StatusBelongs ==
  ASSUME IInv, ~LinkBlocked, BuildStatus
  PROVE  /\ status'.echo = last_command_seq /\ status'.result = last_command_result
         /\ status'.echo \in 0..Len(sent) /\ status'.result \in Results
         /\ ~overlapped /\ status'.echo # 0 /\ status'.result \in FinalResults =>
              job[status'.echo].at = "done" /\ job[status'.echo].result = status'.result
<1>1. /\ status'.echo = last_command_seq /\ status'.result = last_command_result
  BY DEF BuildStatus
<1> QED
  BY <1>1, Zenon DEF IInv, Typed, TypeOK, ResultIsTheLasts

(* A slot without a command. *)
LEMMA ClockQuietKeeps ==
  ASSUME IInv, ClockQuiet
  PROVE  IInv'
<1>1. /\ ~LinkBlocked /\ BuildStatus /\ time_ref' \in TimeRefs
      /\ UNCHANGED <<last_command_seq, last_command_result, mission_time, boots,
                     fileVars, historyVars, sent, job>>
  BY DEF ClockQuiet
<1>2. /\ UNCHANGED <<last_command_seq, last_command_result, mission_time, files, open,
                     rows, waiting, runs, overlapped, sent, job>>
  BY <1>1 DEF fileVars, historyVars
<1>3. /\ status'.echo = last_command_seq
      /\ status'.echo \in 0..Len(sent) /\ status'.result \in Results
      /\ ~overlapped /\ status'.echo # 0 /\ status'.result \in FinalResults =>
           job[status'.echo].at = "done" /\ job[status'.echo].result = status'.result
  BY <1>1, StatusBelongs
<1>4. Typed'
  BY <1>1, <1>2, <1>3, Zenon DEF IInv, Typed, TypeOK, Names, Streams
<1>5. EchoIsOld'
  BY <1>2, <1>3, Numbers, SMT DEF EchoIsOld
<1>6. ResultBelongsToEcho'
  BY <1>2, <1>3, Zenon DEF ResultBelongsToEcho
<1> QED
  BY <1>2, <1>4, <1>5, <1>6, Zenon
  DEF IInv, RunsAreAccepted, LogIsSafe, OnlyTheLastRuns, Running, OkIsRecorded,
      Held, Log, ResultIsTheLasts, LinkBlocked

(* A new command begins as one of two. *)
LEMMA Beginning ==
  ASSUME NEW j, j \in {[NoJob EXCEPT !.at = "wipe", !.dirs = Directories],
                      [NoJob EXCEPT !.at = "test"]}
  PROVE  /\ j \in Job /\ j.at \in {"wipe", "test"} /\ j.todo = {}
<1>1. CASE j = [NoJob EXCEPT !.at = "wipe", !.dirs = Directories]
  BY <1>1, Zenon DEF NoJob, Job, Stages, Results
<1>2. CASE j = [NoJob EXCEPT !.at = "test"]
  BY <1>2, Zenon DEF NoJob, Job, Stages, Results
<1> QED
  BY <1>1, <1>2

(* A slot with a command, repeated or new. *)
LEMMA ClockCommandKeeps ==
  ASSUME IInv, ClockCommand
  PROVE  IInv'
<1> DEFINE n == Len(sent)
<1>1. /\ ~LinkBlocked /\ sent # <<>> /\ BuildStatus /\ HandleCommand(n)
      /\ UNCHANGED <<mission_time, time_ref, files, open, rows, waiting, sent>>
  BY DEF ClockCommand, timeVars, fileVars
<1>2. /\ n \in Seqs /\ n # 0 /\ n \in 0..Len(sent) /\ last_command_seq <= n
      /\ status'.echo <= last_command_seq
      /\ n # last_command_seq => last_command_seq < n
  <2>1. sent \in Seq(Kinds)
    BY DEF IInv, Typed, TypeOK
  <2>2. n \in Nat /\ n # 0
    BY <1>1, <2>1, SMT
  <2> QED
    BY <1>1, <2>2, Numbers, StatusBelongs, SMT DEF Seqs
<1>3. /\ status'.echo = last_command_seq
      /\ status'.echo \in 0..Len(sent) /\ status'.result \in Results
      /\ ~overlapped /\ status'.echo # 0 /\ status'.result \in FinalResults =>
           job[status'.echo].at = "done" /\ job[status'.echo].result = status'.result
  BY <1>1, StatusBelongs
<1>4. CASE n = last_command_seq
  <2>1. UNCHANGED <<last_command_seq, last_command_result, job, runs, overlapped>>
    BY <1>1, <1>4 DEF HandleCommand
  <2>2. Typed'
    BY <1>1, <1>3, <2>1, Zenon DEF IInv, Typed, TypeOK, Names, Streams
  <2>3. EchoIsOld'
    BY <1>2, <2>1 DEF EchoIsOld
  <2>4. ResultBelongsToEcho'
    BY <1>3, <2>1, Zenon DEF ResultBelongsToEcho
  <2> QED
    BY <1>1, <2>1, <2>2, <2>3, <2>4, Zenon
    DEF IInv, RunsAreAccepted, LogIsSafe, OnlyTheLastRuns, Running, OkIsRecorded,
        Held, Log, ResultIsTheLasts, LinkBlocked
<1>5. CASE n # last_command_seq
  <2> DEFINE j == IF sent[n] = "WIPE"
                    THEN [NoJob EXCEPT !.at = "wipe", !.dirs = Directories]
                    ELSE [NoJob EXCEPT !.at = "test"]
  <2>1. /\ last_command_seq' = n
        /\ last_command_result' =
             IF sent[n] = "WIPE" THEN "PENDING" ELSE last_command_result
        /\ job' = [job EXCEPT ![n] = j]
        /\ runs' = [runs EXCEPT ![n] = @ + 1]
        /\ overlapped' = (overlapped \/ \E t \in Seqs : Running(t))
    BY <1>1, <1>5, Zenon DEF HandleCommand, Accept
  <2>2. /\ j \in Job /\ j.at \in {"wipe", "test"} /\ j.todo = {}
        /\ j.at = "test" \/ sent[n] = "WIPE"
    BY Beginning, Zenon DEF NoJob
  <2> HIDE DEF j, n
  <2>3. job' \in [Seqs -> Job] /\ job'[n] = j /\ \A s \in Seqs : s # n => job'[s] = job[s]
    BY <1>2, <2>1, <2>2, Zenon DEF IInv, Typed
  <2>4. j.at \notin Decided /\ j.at # "append" /\ j.at \notin {"store", "done"}
        /\ "PENDING" \in Results /\ "PENDING" \notin FinalResults
        /\ j.at \notin {"none", "done"}
    BY <2>2, SMT DEF Decided, Results, FinalResults
  <2>5. /\ runs' \in [Seqs -> Nat] /\ runs'[n] = runs[n] + 1
        /\ \A s \in Seqs : s # n => runs'[s] = runs[s]
    <3>1. runs \in [Seqs -> Nat] /\ runs[n] + 1 \in Nat
      BY <1>2, SMT DEF IInv, Typed
    <3> QED
      BY <1>2, <2>1, <3>1, Zenon
  <2>6. RunsAreAccepted'
    <3>1. runs[n] = 0
      BY <1>2, <1>5, Numbers, SMT DEF IInv, RunsAreAccepted
    <3>2. ASSUME NEW s \in Seqs
          PROVE  runs'[s] <= 1 /\ (s > last_command_seq' => runs'[s] = 0)
      <4>1. runs[s] <= 1 /\ (s > last_command_seq => runs[s] = 0)
        BY DEF IInv, RunsAreAccepted
      <4>2. CASE s = n
        BY <2>1, <2>5, <3>1, <4>2, <1>2, SMT DEF Seqs
      <4>3. CASE s # n
        BY <1>2, <1>5, <2>1, <2>5, <4>1, <4>3, Numbers, SMT DEF Seqs
      <4> QED
        BY <4>2, <4>3
    <3> QED
      BY <3>2 DEF RunsAreAccepted
  <2>7. Typed'
    <3>1. ASSUME NEW s \in Seqs
          PROVE  /\ job'[s].at \in Stages /\ job'[s].result \in Results
                 /\ job'[s].dirs \subseteq Directories /\ job'[s].todo \subseteq Names
                 /\ job'[s].at \in Decided => job'[s].result \in FinalResults
                 /\ job'[s].at \in {"store", "done"} => job'[s].result \in FinalResults
      <4>1. CASE s = n
        BY <2>2, <2>3, <2>4, <4>1, JobFieldsOf, Zenon
      <4>2. CASE s # n
        BY <2>3, <4>2, Zenon DEF IInv, Typed, TypeOK
      <4> QED
        BY <4>1, <4>2
    <3>2. last_command_result' \in Results /\ overlapped' \in BOOLEAN
      BY <2>1, <2>4, Zenon DEF IInv, Typed, TypeOK
    <3>3. TypeOK'
      BY <1>1, <1>2, <1>3, <2>1, <3>1, <3>2, Zenon DEF IInv, Typed, TypeOK, Names, Streams, n
    <3> QED
      BY <1>1, <2>3, <2>5, <3>1, <3>3, Zenon DEF IInv, Typed, Names, Streams
  <2>8. LogIsSafe'
    <3>1. \A s \in Seqs : job'[s].at = "append" => open[Log] # NoFile
      BY <2>3, <2>4, Zenon DEF IInv, LogIsSafe
    <3>2. \A s \in Seqs : \A f \in job'[s].todo : f.stream # Log
      BY <2>2, <2>3, Zenon DEF IInv, LogIsSafe
    <3> QED
      BY <1>1, <3>1, <3>2, Zenon DEF IInv, LogIsSafe
  <2>9. OnlyTheLastRuns'
    BY <2>1, <2>3, Zenon DEF OnlyTheLastRuns, Running
  <2>10. OkIsRecorded'
    BY <2>1, <2>3, <2>4, Zenon DEF OkIsRecorded
  <2>11. ResultIsTheLasts'
    <3>1. CASE sent[n] = "WIPE"
      BY <2>1, <2>4, <3>1, Zenon DEF ResultIsTheLasts
    <3>2. CASE sent[n] # "WIPE"
      <4>1. sent[n] = "TEST"
        <5>1. n \in DOMAIN sent /\ sent \in Seq(Kinds)
          BY <1>2, SMT DEF IInv, Typed, TypeOK, n, Seqs
        <5> QED
          BY <3>2, <5>1, SMT DEF Kinds
      <4>2. LinkBlocked'
        BY <1>1, <1>2, <2>3, <2>4, <4>1, Zenon DEF LinkBlocked, Running
      <4> QED
        BY <4>2 DEF ResultIsTheLasts
    <3> QED
      BY <3>1, <3>2
  <2>12. EchoIsOld'
    BY <1>2, <1>5, <2>1, <1>3, Numbers, SMT DEF EchoIsOld
  <2>13. ResultBelongsToEcho'
    <3> SUFFICES ASSUME ~overlapped', status'.echo # 0, status'.result \in FinalResults
                 PROVE  job'[status'.echo].at = "done"
                        /\ job'[status'.echo].result = status'.result
      BY Zenon DEF ResultBelongsToEcho
    <3>1. ~overlapped
      BY <2>1
    <3>2. status'.echo \in Seqs /\ status'.echo # n
      BY <1>3, <1>5, Numbers
    <3> QED
      BY <1>3, <2>3, <3>1, <3>2, Zenon
  <2> QED
    BY <2>6, <2>7, <2>8, <2>9, <2>10, <2>11, <2>12, <2>13 DEF IInv
<1> QED
  BY <1>4, <1>5

-----------------------------------------------------------------------------
(* A step of command s leaves the other commands, and what the link knows  *)
(* but the result, alone.                                                  *)
StepOf(s) ==
  /\ Running(s) /\ job' = [job EXCEPT ![s] = job'[s]] /\ job'[s] \in Job
  /\ job'[s].at # "none"
  /\ job'[s].at \in Decided => job'[s].result \in FinalResults
  /\ \A f \in job'[s].todo : f.stream # Log
  /\ UNCHANGED <<last_command_seq, status, timeVars, runs, overlapped, sent>>

(* It keeps the log, if perhaps after opening it.                          *)
LogKept(s) ==
  /\ files' \subseteq Names /\ open' \in [Streams -> Names \cup {NoFile}]
  /\ rows' \subseteq Names \X Seqs /\ waiting' \subseteq Seqs
  /\ waiting' # {} => open'[Log] # NoFile
  /\ \A f \in files : f.stream = Log => f \in files'
  /\ open'[Log] # NoFile => open'[Log] \in files' /\ open'[Log].stream = Log
  /\ open[Log] # NoFile => open'[Log] # NoFile
  /\ job'[s].at = "append" => open'[Log] # NoFile

(* It reports s as OK only with its row. *)
Recorded(s) ==
  job'[s].at \in {"store", "done"} /\ job'[s].result = "OK" => Held(s)'

(* It ends s with its result, or leaves the result alone.                  *)
Reported(s) ==
  \/ job'[s].at # "done" /\ last_command_result' = last_command_result
  \/ job'[s].at = "done" /\ last_command_result' = job'[s].result

(* Such a step keeps the invariant. *)
LEMMA StepOfKeeps ==
  ASSUME IInv, NEW s \in Seqs, StepOf(s), LogKept(s),
         ~overlapped => Recorded(s), Reported(s)
  PROVE  IInv'
<1>1. /\ job[s].at \notin {"none", "done"} /\ job'[s] \in Job
      /\ UNCHANGED <<last_command_seq, status, mission_time, time_ref, boots, runs,
                     overlapped, sent>>
  BY DEF StepOf, Running, timeVars
<1>2. job' \in [Seqs -> Job] /\ \A t \in Seqs : t # s => job'[t] = job[t]
  <2> DEFINE j == job'[s]
  <2>1. job' = [job EXCEPT ![s] = j] /\ j \in Job
    BY DEF StepOf
  <2> HIDE DEF j
  <2> QED
    BY <2>1, Zenon DEF IInv, Typed
<1>3. Typed'
  <2>1. ASSUME NEW t \in Seqs
        PROVE  /\ job'[t].at \in Stages /\ job'[t].result \in Results
               /\ job'[t].dirs \subseteq Directories /\ job'[t].todo \subseteq Names
               /\ job'[t].at \in Decided => job'[t].result \in FinalResults
    <3>1. CASE t = s
      BY <1>1, <3>1, JobFieldsOf, Zenon DEF StepOf
    <3>2. CASE t # s
      BY <1>2, <3>2, Zenon DEF IInv, Typed, TypeOK
    <3> QED
      BY <3>1, <3>2
  <2>2. \A t \in Seqs : job'[t].at \in {"store", "done"} => job'[t].result \in FinalResults
    BY <2>1, Zenon DEF Decided
  <2>3. last_command_result' \in Results
    BY <2>1, Zenon DEF IInv, Typed, TypeOK, Reported
  <2>4. TypeOK'
    BY <1>1, <2>1, <2>2, <2>3, Zenon DEF IInv, Typed, TypeOK, LogKept, Names, Streams
  <2> QED
    BY <1>1, <1>2, <2>1, <2>4, Zenon DEF IInv, Typed, LogKept, Names, Streams
<1>4. RunsAreAccepted' /\ EchoIsOld'
  BY <1>1, Zenon DEF IInv, RunsAreAccepted, EchoIsOld
<1>5. LogIsSafe'
  <2>1. \A t \in Seqs : job'[t].at = "append" => open'[Log] # NoFile
    BY <1>2, Zenon DEF IInv, LogIsSafe, LogKept
  <2>2. \A t \in Seqs : \A f \in job'[t].todo : f.stream # Log
    BY <1>2, Zenon DEF IInv, LogIsSafe, StepOf
  <2> QED
    BY <2>1, <2>2, Zenon DEF LogIsSafe, LogKept
<1>6. ASSUME ~overlapped
      PROVE  s = last_command_seq
  BY <1>6, Zenon DEF IInv, OnlyTheLastRuns, StepOf
<1>7. OnlyTheLastRuns'
  BY <1>1, <1>2, <1>6, Zenon DEF IInv, OnlyTheLastRuns, Running
<1>8. OkIsRecorded'
  BY <1>1, <1>6, Zenon DEF OkIsRecorded, Recorded
<1>9. ResultIsTheLasts'
  <2> SUFFICES ASSUME ~overlapped, last_command_seq # 0,
                      last_command_result' \in FinalResults, ~LinkBlocked',
                      job'[s].at # "done"
               PROVE  FALSE
    BY <1>1, <1>6, Zenon DEF ResultIsTheLasts, Reported
  <2>1. last_command_result \in FinalResults
    BY DEF Reported
  <2>2. Running(s)' /\ sent'[s] # "TEST"
    BY Zenon DEF StepOf, Running, LinkBlocked
  <2>3. ~LinkBlocked
    BY <1>1, <1>6, <2>2, Zenon DEF IInv, OnlyTheLastRuns, LinkBlocked
  <2> QED
    BY <1>1, <1>6, <2>1, <2>3, Zenon DEF IInv, ResultIsTheLasts
<1>10. ResultBelongsToEcho'
  <2> SUFFICES ASSUME ~overlapped, status.echo # 0, status.result \in FinalResults
               PROVE  job'[status.echo].at = "done"
                      /\ job'[status.echo].result = status.result
    BY <1>1, Zenon DEF ResultBelongsToEcho
  <2>1. job[status.echo].at = "done" /\ job[status.echo].result = status.result
    BY Zenon DEF IInv, ResultBelongsToEcho
  <2>2. status.echo \in Seqs /\ status.echo # s
    BY <1>1, <2>1, Numbers, Zenon
  <2> QED
    BY <1>2, <2>1, <2>2, Zenon
<1> QED
  BY <1>3, <1>4, <1>5, <1>7, <1>8, <1>9, <1>10 DEF IInv

-----------------------------------------------------------------------------
(* A job that moves on. *)
LEMMA Moves ==
  ASSUME IInv, NEW s \in Seqs, NEW j \in Job, job' = [job EXCEPT ![s] = j],
         job[s].at \notin {"none", "done"}, j.at # "none",
         j.at \in Decided => j.result \in FinalResults,
         \A f \in j.todo : f.stream # Log,
         UNCHANGED <<last_command_seq, status, timeVars, runs, overlapped, sent>>
  PROVE  StepOf(s) /\ job'[s] = j
<1>1. job'[s] = j /\ job' = [job EXCEPT ![s] = job'[s]]
  BY Zenon DEF IInv, Typed
<1> QED
  BY <1>1, Zenon DEF StepOf, Running

(* What is known of a job before its step. *)
LEMMA JobBefore ==
  ASSUME IInv, NEW s \in Seqs
  PROVE  /\ job \in [Seqs -> Job] /\ job[s] \in Job
         /\ job[s].at \in Decided => job[s].result \in FinalResults
         /\ \A f \in job[s].todo : f.stream # Log
         /\ job[s].at = "append" => open[Log] # NoFile
  BY Zenon DEF IInv, Typed, LogIsSafe

(* The rows that wait are rows of the open log, and few enough to count.   *)
LEMMA WaitingRows ==
  ASSUME IInv
  PROVE  /\ {open[Log]} \X waiting \subseteq Names \X Seqs
         /\ waiting \subseteq Seqs
         /\ \A more \in SUBSET Seqs : Cardinality(more) \in Nat
<1>1. /\ waiting \subseteq Seqs
      /\ waiting # {} => open[Log] \in Names
  BY Zenon DEF IInv, Typed, TypeOK, LogIsSafe
<1>2. {open[Log]} \X waiting \subseteq Names \X Seqs
  <2>1. CASE waiting = {}
    BY <2>1, SMT
  <2>2. CASE waiting # {}
    BY <1>1, <2>2, SMT
  <2> QED
    BY <2>1, <2>2
<1>3. ASSUME NEW more \in SUBSET Seqs
      PROVE  Cardinality(more) \in Nat
  <2>1. IsFiniteSet(Seqs)
    BY PiCommandAssumption, FS_Interval, SMT DEF Seqs
  <2>2. IsFiniteSet(more)
    BY <2>1, FS_Subset, Zenon
  <2> QED
    BY <2>2, FS_CardinalityType, Zenon
<1> QED
  BY <1>1, <1>2, <1>3, Zenon

(* Steps that leave the files and the result alone, and decide nothing     *)
(* that is not on record.                                                  *)
LEMMA SilentStep ==
  ASSUME IInv, NEW s \in Seqs, StepOf(s), UNCHANGED <<files, open, rows, waiting, last_command_result>>,
         job'[s].at = "append" => open[Log] # NoFile,
         job'[s].at # "done", job'[s].at = "store" => job'[s].result # "OK"
  PROVE  IInv'
<1>1. LogKept(s)
  BY Zenon DEF IInv, Typed, TypeOK, LogIsSafe, LogKept, Names, Streams
<1>2. Recorded(s) /\ Reported(s)
  BY Zenon DEF Recorded, Reported
<1> QED
  BY <1>1, <1>2, StepOfKeeps

(* WIPE lists a directory. *)
LEMMA WalkDirectoryKeeps ==
  ASSUME IInv, NEW s \in Seqs, NEW d \in Directories, WalkDirectory(s, d)
  PROVE  IInv'
<1> DEFINE listed == ToDelete({f \in files : Directory(f.stream) = d})
           j == [job[s] EXCEPT !.dirs = @ \ {d}, !.todo = listed]
<1>1. /\ job[s].at = "wipe" /\ job' = [job EXCEPT ![s] = j]
      /\ UNCHANGED <<files, open, rows, waiting, last_command_result>>
      /\ UNCHANGED <<last_command_seq, status, timeVars, runs, overlapped, sent>>
  BY JobBefore, Zenon DEF WalkDirectory, Job, linkVars, fileVars, historyVars
<1>2. listed \subseteq Names /\ \A f \in listed : f.stream # Log
  BY Zenon DEF ToDelete, Log, IInv, Typed, TypeOK
<1> HIDE DEF listed
<1>3. /\ j \in Job /\ j.at = "wipe" /\ j.todo = listed
  BY <1>1, <1>2, JobBefore, Zenon DEF Job
<1> HIDE DEF j
<1>4. StepOf(s) /\ job'[s] = j
  BY <1>1, <1>2, <1>3, Moves, Zenon DEF Decided
<1> QED
  BY <1>1, <1>3, <1>4, SilentStep

(* WIPE deletes the next file of its list. *)
LEMMA DeleteNextKeeps ==
  ASSUME IInv, NEW s \in Seqs, DeleteNext(s)
  PROVE  IInv'
<1>1. PICK f \in job[s].todo : /\ job' = [job EXCEPT ![s].todo = @ \ {f}]
                               /\ files' \in {files \ {f}, files}
  BY DEF DeleteNext
<1> DEFINE j == [job[s] EXCEPT !.todo = @ \ {f}]
<1>2. /\ job[s].at = "wipe" /\ job' = [job EXCEPT ![s] = j]
      /\ UNCHANGED <<open, rows, waiting, last_command_result>>
      /\ UNCHANGED <<last_command_seq, status, timeVars, runs, overlapped, sent>>
  BY <1>1, JobBefore, Zenon DEF DeleteNext, Job, linkVars, historyVars
<1>3. /\ j \in Job /\ j.at = "wipe" /\ j.todo \subseteq job[s].todo
  BY <1>2, JobBefore, Zenon DEF Job
<1> HIDE DEF j
<1>4. StepOf(s) /\ job'[s] = j
  BY <1>2, <1>3, JobBefore, Moves, Zenon DEF Decided
<1>5. \A g \in files : g.stream = Log => g \in files'
  BY <1>1, JobBefore, Zenon
<1>6. LogKept(s)
  BY <1>1, <1>2, <1>3, <1>4, <1>5, Zenon
  DEF IInv, Typed, TypeOK, LogIsSafe, LogKept, Names, Streams
<1>7. Recorded(s) /\ Reported(s)
  BY <1>2, <1>3, <1>4, Zenon DEF Recorded, Reported
<1> QED
  BY <1>4, <1>6, <1>7, StepOfKeeps

(* A WIPE or a TEST comes to its verdict. *)
LEMMA DecisionKeeps ==
  ASSUME IInv, NEW s \in Seqs, WipeEnds(s) \/ TestEnds(s)
  PROVE  IInv'
<1>1. PICK r \in FinalResults :
        job' = [job EXCEPT ![s].at = "record", ![s].result = r]
  BY DEF WipeEnds, TestEnds
<1> DEFINE j == [job[s] EXCEPT !.at = "record", !.result = r]
<1>2. /\ job[s].at \in {"wipe", "test"} /\ job' = [job EXCEPT ![s] = j]
      /\ UNCHANGED <<files, open, rows, waiting, last_command_result>>
      /\ UNCHANGED <<last_command_seq, status, timeVars, runs, overlapped, sent>>
  BY <1>1, JobBefore, Zenon DEF WipeEnds, TestEnds, Job, linkVars, fileVars, historyVars
<1>3. /\ j \in Job /\ j.at = "record" /\ j.result = r /\ j.todo = job[s].todo
  BY JobBefore, Zenon DEF Job, Results, Stages
<1> HIDE DEF j
<1>4. StepOf(s) /\ job'[s] = j
  BY <1>2, <1>3, JobBefore, Moves, ZenonT(40)
<1> QED
  BY <1>2, <1>3, <1>4, SilentStep

(* The handler looks for an open log ... *)
LEMMA RecordBeginsKeeps ==
  ASSUME IInv, NEW s \in Seqs, RecordBegins(s)
  PROVE  IInv'
<1> DEFINE at == IF open[Log] = NoFile THEN "open" ELSE "append"
           j == [job[s] EXCEPT !.at = at]
<1>1. /\ job[s].at = "record" /\ job' = [job EXCEPT ![s] = j]
      /\ UNCHANGED <<files, open, rows, waiting, last_command_result>>
      /\ UNCHANGED <<last_command_seq, status, timeVars, runs, overlapped, sent>>
  BY JobBefore, Zenon DEF RecordBegins, Job, Log, linkVars, fileVars, historyVars
<1>2. at \in {"open", "append"} /\ (at = "append" => open[Log] # NoFile)
  OBVIOUS
<1> HIDE DEF at
<1>3. /\ j \in Job /\ j.at = at /\ j.result = job[s].result /\ j.todo = job[s].todo
  BY <1>2, JobBefore, Zenon DEF Job, Stages
<1> HIDE DEF j
<1>4. StepOf(s) /\ job'[s] = j
  BY <1>1, <1>2, <1>3, JobBefore, Moves, Zenon DEF Decided
<1> QED
  BY <1>1, <1>2, <1>3, <1>4, SilentStep, Zenon

(* ... opens one ... *)
LEMMA OpenLogKeeps ==
  ASSUME IInv, NEW s \in Seqs, OpenLog(s)
  PROVE  IInv'
<1> DEFINE f == Filename(Log)
           j == [job[s] EXCEPT !.at = "append"]
<1>1. /\ job[s].at = "open" /\ job' = [job EXCEPT ![s] = j]
      /\ files' = files \cup {f} /\ open' = [open EXCEPT ![Log] = f]
      /\ rows' = {r \in rows \cup ({open[Log]} \X waiting) : r[1] # f}
      /\ waiting' = {} /\ last_command_result' = last_command_result
      /\ UNCHANGED <<last_command_seq, status, timeVars, runs, overlapped, sent>>
  BY JobBefore, Zenon DEF OpenLog, Job, Log, linkVars, historyVars
<1>2. f \in Names /\ f.stream = Log /\ f # NoFile /\ Log \in Streams
  <2>1. Log \in Streams
    BY DEF Log, Streams
  <2> QED
    BY <2>1, NamesAreNames DEF IInv
<1>3. /\ j \in Job /\ j.at = "append" /\ j.result = job[s].result
      /\ j.todo = job[s].todo
  BY JobBefore, Zenon DEF Job, Stages
<1> HIDE DEF f, j
<1>4. StepOf(s) /\ job'[s] = j
  BY <1>1, <1>3, JobBefore, Moves, Zenon DEF Decided
<1>5. open' \in [Streams -> Names \cup {NoFile}] /\ open'[Log] = f
  BY <1>1, <1>2, Zenon DEF IInv, Typed
<1>6. files' \subseteq Names /\ rows' \subseteq Names \X Seqs
  <2>1. rows' \subseteq rows \cup ({open[Log]} \X waiting)
    BY <1>1, Zenon
  <2> QED
    BY <1>1, <1>2, <2>1, WaitingRows, Zenon DEF IInv, Typed, TypeOK
<1>7. LogKept(s)
  BY <1>1, <1>2, <1>5, <1>6, Zenon DEF LogKept
<1>8. Recorded(s) /\ Reported(s)
  BY <1>1, <1>3, <1>4, Zenon DEF Recorded, Reported
<1> QED
  BY <1>4, <1>7, <1>8, StepOfKeeps

(* ... and writes its row, ... *)
LEMMA AppendRowKeeps ==
  ASSUME IInv, NEW s \in Seqs, AppendRow(s)
  PROVE  IInv'
<1> DEFINE j == [job[s] EXCEPT !.at = "store"]
           unsynced == waiting \cup {s}
<1>1. /\ job[s].at = "append" /\ job' = [job EXCEPT ![s] = j]
      /\ \/ /\ rows' = rows \cup ({open[Log]} \X unsynced) /\ waiting' = {}
         \/ /\ ~(Cardinality(unsynced) >= FsyncEvery)
            /\ rows' = rows /\ waiting' = unsynced
      /\ UNCHANGED <<files, open, last_command_result>>
      /\ UNCHANGED <<last_command_seq, status, timeVars, runs, overlapped, sent>>
  BY JobBefore, Zenon DEF AppendRow, SyncIsDue, Job, Log, linkVars, historyVars
<1>2. open[Log] # NoFile /\ open[Log] \in files /\ open[Log].stream = Log
  BY <1>1, JobBefore, Zenon DEF IInv, LogIsSafe
<1>3. /\ j \in Job /\ j.at = "store" /\ j.result = job[s].result
      /\ j.todo = job[s].todo
  BY JobBefore, Zenon DEF Job, Stages
<1> HIDE DEF j
<1>4. StepOf(s) /\ job'[s] = j
  BY <1>1, <1>3, JobBefore, Moves, Zenon DEF Decided
<1>5. unsynced \subseteq Seqs /\ s \in unsynced
  BY WaitingRows
<1> HIDE DEF unsynced
<1>6. rows' \subseteq Names \X Seqs /\ waiting' \subseteq Seqs
  <2>1. open[Log] \in Names /\ rows \subseteq Names \X Seqs
    BY <1>2, Zenon DEF IInv, Typed, TypeOK
  <2>2. {open[Log]} \X unsynced \subseteq Names \X Seqs
    BY <1>5, <2>1, SMT
  <2> QED
    BY <1>1, <1>5, <2>1, <2>2, Zenon
<1>7. LogKept(s)
  BY <1>1, <1>2, <1>6, Zenon DEF IInv, Typed, TypeOK, LogKept, Names, Streams
<1>8. Held(s)'
  <2>1. CASE waiting' = {} /\ rows' = rows \cup ({open[Log]} \X unsynced)
    <3>1. <<open[Log], s>> \in rows'
      BY <1>5, <2>1, SMT
    <3>2. Cardinality(waiting') < FsyncEvery
      BY <2>1, FS_EmptySet, PiCommandAssumption, SMT
    <3> QED
      BY <1>1, <1>2, <3>1, <3>2, Zenon DEF Held, Log
  <2>2. CASE waiting' = unsynced /\ ~(Cardinality(unsynced) >= FsyncEvery)
    <3>1. Cardinality(unsynced) \in Nat
      BY <1>5, WaitingRows, Zenon
    <3>2. Cardinality(waiting') < FsyncEvery
      BY <2>2, <3>1, PiCommandAssumption, SMT
    <3> QED
      BY <1>1, <1>2, <1>5, <2>2, <3>2, Zenon DEF Held, Log
  <2> QED
    BY <1>1, <2>1, <2>2, Zenon
<1>9. Recorded(s) /\ Reported(s)
  BY <1>1, <1>3, <1>4, <1>8, Zenon DEF Recorded, Reported
<1> QED
  BY <1>4, <1>7, <1>9, StepOfKeeps

(* ... or fails to. *)
LEMMA HandlerFailsKeeps ==
  ASSUME IInv, NEW s \in Seqs, HandlerFails(s)
  PROVE  IInv'
<1> DEFINE j == [job[s] EXCEPT !.at = "store", !.result = "FAILED"]
<1>1. /\ job[s].at \in {"open", "append"} /\ job' = [job EXCEPT ![s] = j]
      /\ UNCHANGED <<files, open, rows, last_command_result>>
      /\ waiting' = waiting \/ (waiting' = waiting \cup {s} /\ job[s].at = "append")
      /\ UNCHANGED <<last_command_seq, status, timeVars, runs, overlapped, sent>>
  BY JobBefore, Zenon DEF HandlerFails, Job, linkVars, historyVars
<1>2. /\ j \in Job /\ j.at = "store" /\ j.result = "FAILED" /\ j.todo = job[s].todo
  BY JobBefore, Zenon DEF Job, Stages, Results, FinalResults
<1> HIDE DEF j
<1>3. StepOf(s) /\ job'[s] = j
  BY <1>1, <1>2, JobBefore, Moves, Zenon DEF FinalResults
<1>4. waiting' \subseteq Seqs /\ (waiting' # {} => open[Log] # NoFile)
  BY <1>1, WaitingRows, JobBefore, Zenon DEF IInv, LogIsSafe
<1>5. LogKept(s)
  BY <1>1, <1>2, <1>3, <1>4, Zenon
  DEF IInv, Typed, TypeOK, LogIsSafe, LogKept, Names, Streams
<1>6. Recorded(s) /\ Reported(s)
  BY <1>1, <1>2, <1>3, Zenon DEF Recorded, Reported
<1> QED
  BY <1>3, <1>5, <1>6, StepOfKeeps

(* The result is stored. *)
LEMMA StoreResultKeeps ==
  ASSUME IInv, NEW s \in Seqs, StoreResult(s)
  PROVE  IInv'
<1> DEFINE j == [job[s] EXCEPT !.at = "done"]
<1>1. /\ job[s].at = "store" /\ job' = [job EXCEPT ![s] = j]
      /\ last_command_result' = job[s].result
      /\ UNCHANGED <<files, open, rows, waiting>>
      /\ UNCHANGED <<last_command_seq, status, timeVars, runs, overlapped, sent>>
  BY JobBefore, Zenon DEF StoreResult, Job, fileVars
<1>2. /\ j \in Job /\ j.at = "done" /\ j.result = job[s].result
      /\ j.todo = job[s].todo
  BY JobBefore, Zenon DEF Job, Stages
<1> HIDE DEF j
<1>3. StepOf(s) /\ job'[s] = j
  BY <1>1, <1>2, JobBefore, Moves, Zenon DEF Decided
<1>4. LogKept(s)
  BY <1>1, <1>2, <1>3, Zenon DEF IInv, Typed, TypeOK, LogIsSafe, LogKept, Names, Streams
<1>5. ASSUME ~overlapped, job[s].result = "OK"
      PROVE  Held(s)'
  <2>1. s = last_command_seq /\ s # 0
    <3>1. s # 0
      BY SMT DEF Seqs
    <3> QED
      BY <1>3, <1>5, <3>1, Zenon DEF IInv, OnlyTheLastRuns, StepOf
  <2>2. Held(s)
    BY <1>1, <1>5, <2>1, Zenon DEF IInv, OkIsRecorded
  <2> QED
    BY <1>1, <2>2, Zenon DEF Held, Log
<1>6. Reported(s)
  BY <1>1, <1>2, <1>3, Zenon DEF Reported
<1>7. ~overlapped => Recorded(s)
  BY <1>2, <1>3, <1>5, Zenon DEF Recorded
<1> QED
  BY <1>3, <1>4, <1>6, <1>7, StepOfKeeps

-----------------------------------------------------------------------------
(* Every step keeps the invariant. *)
LEMMA StepKeeps ==
  ASSUME IInv, [Next]_vars
  PROVE  IInv'
<1>1. CASE UNCHANGED vars
  <2>1. /\ UNCHANGED <<linkVars, historyVars, job>>
        /\ mission_time' \in -Countdown..LastTime /\ time_ref' \in TimeRefs
        /\ sent' \in Seq(Kinds) /\ Len(sent') <= Commands
        /\ \A s \in 1..Len(sent) : sent'[s] = sent[s]
        /\ files \subseteq files' /\ files' \subseteq Names /\ rows' = rows /\ waiting' = waiting
        /\ open' \in [Streams -> Names \cup {NoFile}] /\ open'[Log] = open[Log]
    BY <1>1, Zenon DEF vars, fileVars, timeVars, IInv, Typed, TypeOK
  <2>2. Len(sent) <= Len(sent')
    BY <1>1, Numbers, SMT DEF vars
  <2> QED
    BY <2>1, <2>2, QuietKeeps
<1>2. ASSUME NEW s \in Seqs, JobStep(s)
      PROVE  IInv'
  BY <1>2, WalkDirectoryKeeps, DeleteNextKeeps, DecisionKeeps, RecordBeginsKeeps,
     OpenLogKeeps, AppendRowKeeps, HandlerFailsKeeps, StoreResultKeeps, Zenon DEF JobStep
<1> QED
  BY <1>1, <1>2, IssueKeeps, ClockQuietKeeps, ClockCommandKeeps, RollOverKeeps,
     TimePassesKeeps, RestartKeeps, Zenon DEF Next

(* It holds in every reachable state. *)
LEMMA InductiveInvariant == Spec => []IInv
  BY InitHolds, StepKeeps, PTL DEF Spec

-----------------------------------------------------------------------------
(* SpiLink._handle_command: between two restarts no command is executed    *)
(* twice, however often its frame comes.                                   *)
THEOREM OnceOnly == Spec => []ExecutedOnce
<1>1. IInv => ExecutedOnce
  BY Zenon DEF IInv, Typed, RunsAreAccepted, ExecutedOnce
<1> QED
  BY <1>1, InductiveInvariant, PTL

(* SpiLink._build_status: without overlap a final result stands beside the *)
(* number of the command that came to it.                                  *)
THEOREM ResultsBelong == Spec => []ResultBelongsToEcho
<1>1. IInv => ResultBelongsToEcho
  BY DEF IInv
<1> QED
  BY <1>1, InductiveInvariant, PTL

(* handle_command and StorageManager.wipe: without overlap what is         *)
(* reported OK has its row in a log that no WIPE has deleted or waiting    *)
(* for such a one, with fewer than FSYNC_EVERY_N_ROWS rows to lose.        *)
THEOREM OkRecorded == Spec => []OkIsOnRecord
<1>1. ASSUME IInv PROVE OkIsOnRecord
  <2> SUFFICES ASSUME ~overlapped, last_command_seq # 0, last_command_result = "OK",
                      ~LinkBlocked
               PROVE  OnRecord(last_command_seq) /\ Cardinality(waiting) < FsyncEvery
    BY Zenon DEF OkIsOnRecord
  <2>1. /\ job[last_command_seq].at = "done" /\ job[last_command_seq].result = "OK"
    BY <1>1, Zenon DEF IInv, ResultIsTheLasts, FinalResults
  <2>2. Held(last_command_seq)
    BY <1>1, <2>1, Zenon DEF IInv, OkIsRecorded
  <2> QED
    BY <1>1, <2>2, Zenon DEF Held, OnRecord, IInv, LogIsSafe, Log
<1> QED
  BY <1>1, InductiveInvariant, PTL
=============================================================================
