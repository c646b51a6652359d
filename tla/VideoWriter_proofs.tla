-------------------------- MODULE VideoWriter_proofs --------------------------
(***************************************************************************)
(* Theorems about VideoWriter, for every queue size, pair of rotation      *)
(* limits, number of frames and number of seconds.                         *)
(***************************************************************************)
EXTENDS VideoWriter, FiniteSetTheorems, TLAPS

(* The type invariant in two parts: the variables that control the threads *)
(* and those that hold frames or count them.                               *)
ControlTyped ==
  /\ rotation_limit \in Limits /\ clock \in Names /\ running \in BOOLEAN
  /\ capture \in {"check", "testing", "capturing", "ended"}
  /\ main \in {"running", "join_capture", "stop_camera", "put_sentinel", "join_writer",
               "close_logs", "done", "raised"}
  /\ capture_stop \in BOOLEAN /\ writer_stop \in BOOLEAN /\ capture_late \in BOOLEAN

CountsTyped ==
  /\ captured \in 0..Frames /\ dropped \in 0..Frames
  /\ written \in 0..Frames /\ errors \in 0..Frames /\ overwritten \subseteq 1..Frames
  /\ frames_in_file \in 0..Frames
PlacesTyped ==
  /\ queue \in Seq(FrameSet \cup {Sentinel}) /\ Len(queue) <= QueueMaxsize
  /\ writer \in {"get", "writing", "closing", "ended"}
  /\ IF writer = "writing" THEN hand \in FrameSet ELSE hand = None
FilesTyped ==
  /\ file \in Names \cup {NoName}
  /\ file_time_ref \in TimeRefs \cup {"NONE"} /\ file_rotation_limit \in Limits \cup {0}
  /\ disk \in [DOMAIN disk -> Seq(FrameSet)] /\ DOMAIN disk \subseteq Names

Uniform ==
  \A n \in DOMAIN disk : \A i \in 1..Len(disk[n]) :
    /\ disk[n][i].ref = n.ref
    /\ disk[n][i].limit = disk[n][1].limit
    /\ i <= disk[n][1].limit
    /\ i > 1 => disk[n][i - 1].number < disk[n][i].number

(* The writer is told to stop, by the event or the sentinel, only after    *)
(* the capture thread was waited for.                                      *)
StopsInOrder ==
  /\ writer_stop => main \in {"put_sentinel", "join_writer", "close_logs", "done", "raised"}
  /\ main \notin {"running", "join_capture"} /\ ~capture_late => capture = "ended"
  /\ \A i \in 1..Len(queue) : queue[i] = Sentinel => writer_stop
  /\ writer \in {"closing", "ended"} => writer_stop
  /\ main \in {"put_sentinel", "join_writer", "close_logs", "done"} => writer_stop

(* Frames keep the order of their capture: those on the disk, the one in   *)
(* the writer's hand, those in the queue, those to come.                   *)
QueueInOrder ==
  /\ \A i \in Waiting : queue[i].number <= captured
  /\ \A i, j \in Waiting : i < j => queue[i].number < queue[j].number
HandInOrder ==
  writer = "writing" =>
    /\ hand.number <= captured
    /\ \A i \in Waiting : hand.number < queue[i].number
DiskInOrder ==
  \A n \in DOMAIN disk : \A k \in 1..Len(disk[n]) :
    /\ disk[n][k].number <= captured
    /\ writer = "writing" => disk[n][k].number < hand.number
    /\ \A i \in Waiting : disk[n][k].number < queue[i].number

(* What was written or failed is fewer than the number of any frame ahead. *)
CountsBehind ==
  /\ dropped <= captured
  /\ frames_in_file <= written
  /\ written + errors <= captured
  /\ writer = "writing" => written + errors < hand.number
  /\ \A i \in Waiting : written + errors < queue[i].number

(* The open file is as its variables describe it. *)
OpenFileIsDescribed ==
  file # NoName =>
    /\ file \in DOMAIN disk
    /\ file.ref = file_time_ref
    /\ frames_in_file = Len(disk[file])
    /\ \A k \in 1..Len(disk[file]) : disk[file][k].limit = file_rotation_limit

Typed == CountsTyped /\ PlacesTyped /\ FilesTyped
InOrder == QueueInOrder /\ HandInOrder /\ DiskInOrder /\ CountsBehind
DataInv == Typed /\ InOrder /\ Uniform /\ OpenFileIsDescribed
IInv == ControlTyped /\ DataInv /\ StopsInOrder

dataVars == <<captured, dropped, queue, writer, hand, fileVars>>

-----------------------------------------------------------------------------
(* The order of the integers. *)
LEMMA Chain ==
  ASSUME NEW a \in Int, NEW b \in Int, NEW c \in Int, a <= b, b <= c
  PROVE  a <= c
  BY SMT

(* Sequences: what Append and Tail do, place by place.                     *)
LEMMA Appending ==
  ASSUME NEW S, NEW q \in Seq(S), NEW x \in S
  PROVE  /\ Append(q, x) \in Seq(S)
         /\ Len(Append(q, x)) = Len(q) + 1 /\ Len(q) \in Nat
         /\ \A i \in 1..Len(q) : Append(q, x)[i] = q[i]
         /\ Append(q, x)[Len(q) + 1] = x
         /\ \A i \in 1..Len(q) + 1 : i \in 1..Len(q) \/ i = Len(q) + 1
  BY SMT

(* ... and what is left when the first is taken. *)
LEMMA Taking ==
  ASSUME NEW S, NEW q \in Seq(S), q # <<>>
  PROVE  /\ Tail(q) \in Seq(S)
         /\ Len(Tail(q)) <= Len(q)
         /\ \A i \in 1..Len(Tail(q)) :
              i + 1 \in 1..Len(q) /\ i + 1 > 1 /\ Tail(q)[i] = q[i + 1]
         /\ Head(q) = q[1] /\ 1 \in 1..Len(q) /\ q[1] \in S
  BY SMT

(* Frames have numbers; the sentinel is none of them.                      *)
LEMMA FrameFacts ==
  /\ \A f \in FrameSet : /\ f.number \in 1..Frames /\ f.ref \in TimeRefs
                         /\ f.second \in 0..Seconds /\ f.limit \in Limits
                         /\ f.limit \in Nat \ {0} /\ f.number \in Nat
  /\ Sentinel \notin FrameSet
<1> USE VideoWriterAssumption
<1>1. ASSUME NEW f \in FrameSet
      PROVE  /\ f.number \in 1..Frames /\ f.ref \in TimeRefs
             /\ f.second \in 0..Seconds /\ f.limit \in Limits
  BY SMT DEF FrameSet
<1>2. \A x \in Limits : x \in Nat \ {0}
  BY SMT DEF Limits
<1>3. \A x \in 1..Frames : x \in Nat /\ x # -1
  BY SMT
<1>4. Sentinel.number = -1
  BY Zenon DEF Sentinel
<1> QED
  BY <1>1, <1>2, <1>3, <1>4, Zenon

(* The parts are the type invariant and the property. *)
LEMMA TypesAsStated ==
  ASSUME IInv PROVE FilesAreUniform
<1>1. \A i \in 1..Len(queue) : queue[i] = Sentinel \/ queue[i] \in FrameSet
  BY SMT DEF IInv, DataInv, Typed, PlacesTyped
<1>2. TypeOK
  BY <1>1, Zenon DEF IInv, DataInv, Typed, PlacesTyped, CountsTyped, FilesTyped,
     ControlTyped, TypeOK
<1> QED
  BY <1>2, Zenon DEF IInv, DataInv, Uniform, FilesAreUniform

(* The integers the orders are about. *)
LEMMA Numbers ==
  ASSUME Typed
  PROVE  /\ captured \in Int /\ written \in Nat /\ errors \in Nat /\ dropped \in Nat
         /\ Frames \in Nat /\ captured <= Frames
         /\ \A i \in Waiting : /\ i \in 1..Len(queue) /\ queue[i] \in FrameSet
                               /\ queue[i].number \in Int
         /\ writer = "writing" => hand \in FrameSet /\ hand.number \in Int
         /\ \A n \in DOMAIN disk : /\ disk[n] \in Seq(FrameSet)
                                   /\ \A k \in 1..Len(disk[n]) :
                                        disk[n][k] \in FrameSet /\ disk[n][k].number \in Int
<1>1. /\ captured \in Int /\ written \in Nat /\ errors \in Nat /\ dropped \in Nat
      /\ Frames \in Nat /\ captured <= Frames
  BY VideoWriterAssumption, SMT DEF Typed, CountsTyped
<1>2. ASSUME NEW i \in Waiting
      PROVE  /\ i \in 1..Len(queue) /\ queue[i] \in FrameSet
  <2>1. i \in 1..Len(queue) /\ queue[i] # Sentinel
    BY Zenon DEF Waiting
  <2>2. queue \in Seq(FrameSet \cup {Sentinel})
    BY DEF Typed, PlacesTyped
  <2>3. queue[i] \in FrameSet \cup {Sentinel}
    BY <2>1, <2>2, SMT
  <2> QED
    BY <2>1, <2>3, Zenon
<1>3. writer = "writing" => hand \in FrameSet
  BY Zenon DEF Typed, PlacesTyped
<1>4. ASSUME NEW n \in DOMAIN disk
      PROVE  /\ disk[n] \in Seq(FrameSet)
             /\ \A k \in 1..Len(disk[n]) : disk[n][k] \in FrameSet
  <2>1. disk[n] \in Seq(FrameSet)
    BY Zenon DEF Typed, FilesTyped
  <2> QED
    BY <2>1, SMT
<1>5. \A f \in FrameSet : f.number \in Int
  BY FrameFacts, SMT
<1> QED
  BY <1>1, <1>2, <1>3, <1>4, <1>5, Zenon

(* What a file holds, and so what is lost with it, are frames captured.    *)
LEMMA LostFacts ==
  ASSUME Typed, NEW n
  PROVE  LostBy(n) \subseteq 1..Frames
<1>1. \A f \in FrameSet : f.number \in 1..Frames
  BY FrameFacts, Zenon
<1> QED
  BY <1>1, Numbers, Zenon DEF LostBy, NumbersIn

-----------------------------------------------------------------------------
(* The start. *)
LEMMA InitHolds == Init => IInv
<1> SUFFICES ASSUME Init PROVE IInv
  OBVIOUS
<1> USE VideoWriterAssumption
<1>1. ControlTyped
  <2>1. 0 \in 0..Seconds
    BY SMT
  <2>2. clock \in Names
    BY <2>1, SMT DEF Init, Names, TimeRefs
  <2> QED
    BY <2>2, Zenon DEF Init, ControlTyped, Limits
<1>2. queue = <<>> /\ Len(queue) = 0 /\ Waiting = {}
  BY SMT DEF Init, Waiting
<1>3. DOMAIN disk = {}
  BY Zenon DEF Init
<1>4. CountsTyped /\ CountsBehind
  BY <1>2, SMT DEF Init, CountsTyped, CountsBehind
<1>5. PlacesTyped
  <2>1. queue \in Seq(FrameSet \cup {Sentinel}) /\ Len(queue) <= QueueMaxsize
    BY <1>2, SMT
  <2> QED
    BY <2>1, Zenon DEF Init, PlacesTyped
<1>6. FilesTyped
  <2>1. disk \in [DOMAIN disk -> Seq(FrameSet)]
    BY <1>3, Zenon DEF Init
  <2> QED
    BY <1>3, <2>1, Zenon DEF Init, FilesTyped
<1>7. Uniform /\ OpenFileIsDescribed /\ QueueInOrder /\ HandInOrder /\ DiskInOrder
  BY <1>2, <1>3, Zenon DEF Init, Uniform, OpenFileIsDescribed, QueueInOrder,
     HandInOrder, DiskInOrder
<1>8. StopsInOrder
  <2>1. \A i \in 1..Len(queue) : FALSE
    BY <1>2, SMT
  <2> QED
    BY <2>1, Zenon DEF Init, StopsInOrder
<1> QED
  BY <1>1, <1>4, <1>5, <1>6, <1>7, <1>8 DEF IInv, DataInv, Typed, InOrder

(* Steps that touch no frame. *)
LEMMA DataKept == ASSUME DataInv, UNCHANGED dataVars PROVE DataInv'
<1>1. Typed'
  BY Zenon DEF DataInv, Typed, CountsTyped, PlacesTyped, FilesTyped, dataVars, fileVars
<1>2. Waiting' = Waiting
  BY Zenon DEF Waiting, dataVars
<1>3. InOrder'
  BY <1>2, Zenon DEF DataInv, InOrder, QueueInOrder, HandInOrder, DiskInOrder,
     CountsBehind, dataVars, fileVars
<1>4. Uniform' /\ OpenFileIsDescribed'
  BY Zenon DEF DataInv, Uniform, OpenFileIsDescribed, dataVars, fileVars
<1> QED
  BY <1>1, <1>3, <1>4 DEF DataInv

(* A frame is captured: the newest of the queue, or dropped.               *)
LEMMA CaptureData ==
  ASSUME DataInv, ControlTyped, CaptureFrame
  PROVE  /\ DataInv'
         /\ \A i \in 1..Len(queue') : queue'[i] = Sentinel =>
              i \in 1..Len(queue) /\ queue[i] = Sentinel
<1> USE VideoWriterAssumption
<1> DEFINE f == [number |-> captured + 1, ref |-> clock.ref,
                 second |-> clock.second, limit |-> rotation_limit]
<1>n. Typed
  BY DEF DataInv
<1>1. /\ captured < Frames /\ captured' = captured + 1 /\ Submit(f)
      /\ UNCHANGED <<writer, hand, fileVars>>
  BY Zenon DEF CaptureFrame
<1>2. f \in FrameSet /\ f.number = captured + 1 /\ f # Sentinel
  <2>1. captured + 1 \in 1..Frames
    BY <1>n, <1>1, SMT DEF Typed, CountsTyped
  <2>2. clock.ref \in TimeRefs /\ clock.second \in 0..Seconds /\ rotation_limit \in Limits
    BY SMT DEF ControlTyped, Names
  <2>3. f \in FrameSet
    BY <2>1, <2>2, SMT DEF FrameSet
  <2> QED
    BY <2>3, FrameFacts, Zenon
<1> HIDE DEF f
<1>3. /\ Len(queue) \in Nat
      /\ \/ /\ queue' = queue /\ dropped' = dropped + 1
         \/ /\ queue' = Append(queue, f) /\ dropped' = dropped
            /\ Len(queue) < QueueMaxsize
  BY <1>n, <1>1, SMT DEF Submit, Typed, PlacesTyped
<1>4. \A i \in 1..Len(queue') :
        \/ i \in 1..Len(queue) /\ queue'[i] = queue[i]
        \/ i = Len(queue) + 1 /\ queue'[i] = f
  <2>1. CASE queue' = queue
    BY <2>1, Zenon
  <2>2. CASE queue' = Append(queue, f)
    <3>1. queue \in Seq(FrameSet \cup {Sentinel}) /\ f \in FrameSet \cup {Sentinel}
      BY <1>n, <1>2, Zenon DEF Typed, PlacesTyped
    <3>2. /\ Len(Append(queue, f)) = Len(queue) + 1
          /\ \A i \in 1..Len(queue) : Append(queue, f)[i] = queue[i]
          /\ Append(queue, f)[Len(queue) + 1] = f
          /\ \A i \in 1..Len(queue) + 1 : i \in 1..Len(queue) \/ i = Len(queue) + 1
      BY <3>1, Appending
    <3> QED
      BY <2>2, <3>2, Zenon
  <2> QED
    BY <1>3, <2>1, <2>2
<1>5. \A i \in Waiting' :
        \/ i \in Waiting /\ queue'[i] = queue[i]
        \/ i = Len(queue) + 1 /\ queue'[i] = f
  BY <1>4, Zenon DEF Waiting
<1>6. Typed'
  <2>1. CountsTyped'
    <3>1. captured' \in 0..Frames /\ dropped' \in 0..Frames
      <4>1. dropped <= captured
        BY DEF DataInv, InOrder, CountsBehind
      <4> QED
        BY <1>n, <1>1, <1>3, <4>1, Numbers, SMT
    <3> QED
      BY <1>n, <1>1, <3>1, Zenon DEF Typed, CountsTyped, fileVars
  <2>2. PlacesTyped'
    <3>1. queue' \in Seq(FrameSet \cup {Sentinel}) /\ Len(queue') <= QueueMaxsize
      BY <1>n, <1>2, <1>3, SMT DEF Typed, PlacesTyped
    <3> QED
      BY <1>n, <1>1, <3>1, Zenon DEF Typed, PlacesTyped
  <2> QED
    BY <1>n, <1>1, <2>1, <2>2, Zenon DEF Typed, FilesTyped, fileVars
<1>7. InOrder'
  <2>n. /\ captured \in Int /\ written \in Nat /\ errors \in Nat /\ dropped \in Nat
        /\ \A i \in Waiting : i \in 1..Len(queue) /\ queue[i].number \in Int
        /\ writer = "writing" => hand.number \in Int
        /\ \A n \in DOMAIN disk : \A k \in 1..Len(disk[n]) : disk[n][k].number \in Int
    BY <1>n, Numbers, Zenon
  <2>o. /\ writer' = writer /\ hand' = hand /\ disk' = disk /\ written' = written
        /\ errors' = errors /\ frames_in_file' = frames_in_file
    BY <1>1, Zenon DEF fileVars
  <2>1. QueueInOrder'
    <3>1. \A i \in Waiting' : queue'[i].number <= captured'
      BY <1>1, <1>2, <1>5, <2>n, SMT DEF DataInv, InOrder, QueueInOrder
    <3>2. ASSUME NEW i \in Waiting', NEW j \in Waiting', i < j
          PROVE  queue'[i].number < queue'[j].number
      <4>1. i \in Waiting /\ queue'[i] = queue[i]
        <5>1. ~(i = Len(queue) + 1)
          <6>1. j \in 1..Len(queue) \/ j = Len(queue) + 1
            BY <1>5, <2>n, Zenon
          <6> QED
            BY <1>3, <3>2, <6>1, SMT
        <5> QED
          BY <1>5, <5>1, Zenon
      <4>2. CASE j \in Waiting /\ queue'[j] = queue[j]
        BY <3>2, <4>1, <4>2, Zenon DEF DataInv, InOrder, QueueInOrder
      <4>3. CASE queue'[j] = f
        <5>1. queue[i].number <= captured /\ queue[i].number \in Int
          BY <2>n, <4>1, Zenon DEF DataInv, InOrder, QueueInOrder
        <5>2. queue[i].number < captured + 1
          BY <2>n, <5>1, SMT
        <5> QED
          BY <1>2, <4>1, <4>3, <5>2, Zenon
      <4> QED
        BY <1>5, <4>2, <4>3, Zenon
    <3> QED
      BY <3>1, <3>2, Zenon DEF QueueInOrder
  <2>2. \A m \in Int : m <= captured => m <= captured' /\ m < f.number
    BY <1>1, <1>2, <2>n, SMT
  <2>3. HandInOrder'
    BY <1>5, <2>n, <2>o, <2>2, Zenon DEF DataInv, InOrder, HandInOrder
  <2>4. DiskInOrder'
    BY <1>5, <2>n, <2>o, <2>2, Zenon DEF DataInv, InOrder, DiskInOrder
  <2>5. CountsBehind'
    <3>1. written + errors \in Int
      BY <2>n, SMT
    <3>2. dropped' <= captured'
      BY <1>1, <1>3, <2>n, SMT DEF DataInv, InOrder, CountsBehind
    <3> QED
      BY <1>5, <2>o, <2>2, <3>1, <3>2, Zenon DEF DataInv, InOrder, CountsBehind
  <2> QED
    BY <2>1, <2>3, <2>4, <2>5 DEF InOrder
<1>8. Uniform' /\ OpenFileIsDescribed'
  BY <1>1, ZenonT(40) DEF DataInv, Uniform, OpenFileIsDescribed, fileVars
<1>9. \A i \in 1..Len(queue') : queue'[i] = Sentinel =>
        i \in 1..Len(queue) /\ queue[i] = Sentinel
  BY <1>2, <1>4, Zenon
<1> QED
  BY <1>6, <1>7, <1>8, <1>9 DEF DataInv

(* The sentinel goes into the queue, where there is room. *)
LEMMA SentinelData ==
  ASSUME DataInv, PutSentinel
  PROVE  DataInv'
<1> USE VideoWriterAssumption
<1>n. Typed
  BY DEF DataInv
<1>0. UNCHANGED <<captured, dropped, writer, hand, fileVars>>
  BY Zenon DEF PutSentinel, captureVars
<1>1. CASE Len(queue) < QueueMaxsize
  <2>1. queue' = Append(queue, Sentinel)
    BY <1>1, Zenon DEF PutSentinel
  <2>2. queue \in Seq(FrameSet \cup {Sentinel}) /\ Sentinel \in FrameSet \cup {Sentinel}
    BY <1>n, Zenon DEF Typed, PlacesTyped
  <2>3. \A i \in Waiting' : i \in Waiting /\ queue'[i] = queue[i]
    <3>1. /\ Len(Append(queue, Sentinel)) = Len(queue) + 1
          /\ \A i \in 1..Len(queue) : Append(queue, Sentinel)[i] = queue[i]
          /\ Append(queue, Sentinel)[Len(queue) + 1] = Sentinel
          /\ \A i \in 1..Len(queue) + 1 : i \in 1..Len(queue) \/ i = Len(queue) + 1
      BY <2>2, Appending
    <3> QED
      BY <2>1, <3>1, Zenon DEF Waiting
  <2>4. Typed'
    <3>1. queue' \in Seq(FrameSet \cup {Sentinel}) /\ Len(queue') <= QueueMaxsize
      BY <1>1, <2>1, <2>2, SMT
    <3> QED
      BY <1>n, <1>0, <3>1, Zenon DEF Typed, CountsTyped, PlacesTyped, FilesTyped, fileVars
  <2>5. InOrder'
    BY <1>0, <2>3, Zenon DEF DataInv, InOrder, QueueInOrder, HandInOrder, DiskInOrder,
       CountsBehind, fileVars
  <2>6. Uniform' /\ OpenFileIsDescribed'
    BY <1>0, ZenonT(40) DEF DataInv, Uniform, OpenFileIsDescribed, fileVars
  <2> QED
    BY <2>4, <2>5, <2>6 DEF DataInv
<1>2. CASE ~(Len(queue) < QueueMaxsize)
  <2>1. UNCHANGED dataVars
    BY <1>0, <1>2, Zenon DEF PutSentinel, dataVars
  <2> QED
    BY <2>1, DataKept
<1> QED
  BY <1>1, <1>2

(* The writer takes an item, or is told to stop.                           *)
LEMMA TakeData ==
  ASSUME DataInv, GetItem
  PROVE  /\ DataInv'
         /\ \A i \in 1..Len(queue') : queue'[i] = Sentinel =>
              \E j \in 1..Len(queue) : queue[j] = Sentinel
         /\ writer' = "closing" =>
              writer_stop \/ \E j \in 1..Len(queue) : queue[j] = Sentinel
<1>n. Typed
  BY DEF DataInv
<1>0. /\ writer = "get"
      /\ UNCHANGED <<captured, dropped, fileVars>>
  BY Zenon DEF GetItem, captureVars
<1>1. CASE writer_stop
  <2>1. writer' = "closing" /\ queue' = queue /\ hand' = hand
    BY <1>1, Zenon DEF GetItem
  <2>2. Waiting' = Waiting
    BY <2>1, Zenon DEF Waiting
  <2>3. Typed'
    BY <1>n, <1>0, <2>1, Zenon DEF Typed, CountsTyped, PlacesTyped, FilesTyped, fileVars
  <2>4. InOrder'
    BY <1>0, <2>1, <2>2, Zenon DEF DataInv, InOrder, QueueInOrder, HandInOrder,
       DiskInOrder, CountsBehind, fileVars
  <2>5. Uniform' /\ OpenFileIsDescribed'
    BY <1>0, Zenon DEF DataInv, Uniform, OpenFileIsDescribed, fileVars
  <2> QED
    BY <1>1, <2>1, <2>3, <2>4, <2>5, Zenon DEF DataInv
<1>2. CASE ~writer_stop
  <2>0. /\ queue # <<>> /\ queue' = Tail(queue)
        /\ \/ Head(queue) = Sentinel /\ writer' = "closing" /\ hand' = hand
           \/ Head(queue) # Sentinel /\ writer' = "writing" /\ hand' = Head(queue)
    BY <1>2, Zenon DEF GetItem
  <2>1. queue \in Seq(FrameSet \cup {Sentinel}) /\ Len(queue) \in Nat
    BY <1>n, SMT DEF Typed, PlacesTyped
  <2>2. /\ queue' \in Seq(FrameSet \cup {Sentinel})
        /\ Len(queue') <= Len(queue)
        /\ \A i \in 1..Len(queue') :
             i + 1 \in 1..Len(queue) /\ i + 1 > 1 /\ queue'[i] = queue[i + 1]
        /\ Head(queue) = queue[1] /\ 1 \in 1..Len(queue)
        /\ queue[1] \in FrameSet \cup {Sentinel}
    BY <2>0, <2>1, Taking, Zenon
  <2>3. /\ \A i \in Waiting' : /\ i \in 1..Len(queue') /\ i + 1 \in Waiting /\ i + 1 > 1
                               /\ queue'[i] = queue[i + 1]
        /\ \A i \in 1..Len(queue') : queue'[i] = Sentinel =>
             \E j \in 1..Len(queue) : queue[j] = Sentinel
    BY <2>2, Zenon DEF Waiting
  <2>4. \A i, j \in Waiting' : i < j => i + 1 < j + 1
    <3>1. \A i \in Waiting' : i \in Int
      <4>1. Len(queue') \in Nat
        BY <2>2, SMT
      <4> QED
        BY <2>3, <4>1, SMT
    <3> QED
      BY <3>1, SMT
  <2>5. QueueInOrder'
    <3>1. ASSUME NEW i \in Waiting', NEW j \in Waiting', i < j
          PROVE  queue'[i].number < queue'[j].number
      BY <2>3, <2>4, <3>1, Zenon DEF DataInv, InOrder, QueueInOrder
    <3>2. \A i \in Waiting' : queue'[i].number <= captured'
      BY <1>0, <2>3, Zenon DEF DataInv, InOrder, QueueInOrder
    <3> QED
      BY <3>1, <3>2, Zenon DEF QueueInOrder
  <2>6. writer' = "writing" => hand' = queue[1] /\ 1 \in Waiting /\ hand' \in FrameSet
    BY <2>0, <2>2, Zenon DEF Waiting
  <2>7. Typed'
    <3>1. Len(queue') <= QueueMaxsize
      BY <1>n, <2>1, <2>2, VideoWriterAssumption, SMT DEF Typed, PlacesTyped
    <3>2. IF writer' = "writing" THEN hand' \in FrameSet ELSE hand' = None
      BY <1>n, <1>0, <2>0, <2>6, Zenon DEF Typed, PlacesTyped
    <3>3. writer' \in {"get", "writing", "closing", "ended"}
      BY <2>0, Zenon
    <3>4. PlacesTyped'
      BY <2>2, <3>1, <3>2, <3>3, Zenon DEF PlacesTyped
    <3> QED
      BY <1>n, <1>0, <3>4, Zenon DEF Typed, CountsTyped, FilesTyped, fileVars
  <2>8. InOrder'
    <3>1. HandInOrder'
      <4>1. ASSUME writer' = "writing", NEW i \in Waiting'
            PROVE  hand'.number < queue'[i].number
        <5>1. 1 \in Waiting /\ i + 1 \in Waiting /\ 1 < i + 1
          BY <2>3, <2>6, <4>1, SMT
        <5> QED
          BY <2>3, <2>6, <4>1, <5>1, Zenon DEF DataInv, InOrder, QueueInOrder
      <4>2. writer' = "writing" => hand'.number <= captured'
        BY <1>0, <2>6, Zenon DEF DataInv, InOrder, QueueInOrder
      <4> QED
        BY <4>1, <4>2, Zenon DEF HandInOrder
    <3>2. DiskInOrder' /\ CountsBehind'
      BY <1>0, <2>3, <2>6, Zenon DEF DataInv, InOrder, DiskInOrder, CountsBehind, fileVars
    <3> QED
      BY <2>5, <3>1, <3>2 DEF InOrder
  <2>9. Uniform' /\ OpenFileIsDescribed'
    BY <1>0, Zenon DEF DataInv, Uniform, OpenFileIsDescribed, fileVars
  <2> QED
    BY <2>0, <2>2, <2>3, <2>7, <2>8, <2>9, Zenon DEF DataInv
<1> QED
  BY <1>1, <1>2

-----------------------------------------------------------------------------
(* The frame in the hand meets the disk.                                   *)

(* The disk after a change of one file, c its new content: what is to be   *)
(* shown of c, for the orders and the files to hold with the hand empty.   *)
FitsTheFile(n, c) ==
  /\ n \in Names /\ c \in Seq(FrameSet)
  /\ \A k \in 1..Len(c) :
       /\ c[k].ref = n.ref
       /\ c[k].limit = c[1].limit
       /\ k <= c[1].limit
       /\ k > 1 => c[k - 1].number < c[k].number
       /\ c[k].number <= hand.number

LEMMA DiskChange ==
  ASSUME DataInv, writer = "writing", NEW n, NEW c, FitsTheFile(n, c),
         writer' = "get", UNCHANGED <<queue, captured>>,
         disk' = [m \in DOMAIN disk \cup {n} |-> IF m = n THEN c ELSE disk[m]]
  PROVE  /\ DiskInOrder' /\ Uniform'
         /\ disk' \in [DOMAIN disk' -> Seq(FrameSet)] /\ DOMAIN disk' \subseteq Names
         /\ n \in DOMAIN disk' /\ disk'[n] = c
<1>n. Typed
  BY DEF DataInv
<1>1. /\ DOMAIN disk' = DOMAIN disk \cup {n}
      /\ \A m \in DOMAIN disk' : \/ m = n /\ disk'[m] = c
                                 \/ m \in DOMAIN disk /\ disk'[m] = disk[m]
      /\ n \in DOMAIN disk' /\ disk'[n] = c
  BY Zenon
<1>2. Waiting' = Waiting /\ \A i \in Waiting' : queue'[i] = queue[i]
  BY Zenon DEF Waiting
<1>3. Uniform'
  <2> SUFFICES ASSUME NEW m \in DOMAIN disk', NEW k \in 1..Len(disk'[m])
               PROVE  /\ disk'[m][k].ref = m.ref
                      /\ disk'[m][k].limit = disk'[m][1].limit
                      /\ k <= disk'[m][1].limit
                      /\ k > 1 => disk'[m][k - 1].number < disk'[m][k].number
    BY Zenon DEF Uniform
  <2>1. CASE m = n /\ disk'[m] = c
    BY <2>1, Zenon DEF FitsTheFile
  <2>2. CASE m \in DOMAIN disk /\ disk'[m] = disk[m]
    BY <2>2, ZenonT(40) DEF DataInv, Uniform
  <2> QED
    BY <1>1, <2>1, <2>2, Zenon
<1>4. DiskInOrder'
  <2>1. ASSUME NEW k \in 1..Len(c)
        PROVE  /\ c[k].number <= captured
               /\ \A i \in Waiting : c[k].number < queue[i].number
    <3>1. /\ c[k].number \in Int /\ hand.number \in Int /\ captured \in Int
          /\ \A i \in Waiting : queue[i].number \in Int
      <4>1. c[k] \in FrameSet
        BY SMT DEF FitsTheFile
      <4>2. c[k].number \in Nat
        BY <4>1, FrameFacts, Zenon
      <4>3. c[k].number \in Int
        BY <4>2, SMT
      <4> QED
        BY <1>n, <4>3, Numbers, Zenon
    <3>2. c[k].number <= hand.number
      BY Zenon DEF FitsTheFile
    <3>3. hand.number <= captured /\ \A i \in Waiting : hand.number < queue[i].number
      BY Zenon DEF DataInv, InOrder, HandInOrder
    <3> QED
      BY <3>1, <3>2, <3>3, SMT
  <2>2. ASSUME NEW m \in DOMAIN disk', NEW k \in 1..Len(disk'[m])
        PROVE  /\ disk'[m][k].number <= captured
               /\ \A i \in Waiting : disk'[m][k].number < queue[i].number
    <3>1. CASE m = n /\ disk'[m] = c
      BY <2>1, <3>1, Zenon
    <3>2. CASE m \in DOMAIN disk /\ disk'[m] = disk[m]
      BY <3>2, Zenon DEF DataInv, InOrder, DiskInOrder
    <3> QED
      BY <1>1, <3>1, <3>2, Zenon
  <2>3. captured' = captured /\ queue' = queue /\ ~(writer' = "writing") /\ Waiting' = Waiting
    BY <1>2, Zenon
  <2>4. ASSUME NEW m \in DOMAIN disk', NEW k \in 1..Len(disk'[m])
        PROVE  /\ disk'[m][k].number <= captured'
               /\ writer' = "writing" => disk'[m][k].number < hand'.number
               /\ \A i \in Waiting' : disk'[m][k].number < queue'[i].number
    BY <2>2, <2>3
  <2> QED
    BY <2>4, Zenon DEF DiskInOrder
<1>5. disk' \in [DOMAIN disk' -> Seq(FrameSet)] /\ DOMAIN disk' \subseteq Names
  <2>1. \A m \in DOMAIN disk' : disk'[m] \in Seq(FrameSet)
    BY <1>n, <1>1, Numbers, Zenon DEF FitsTheFile
  <2>2. disk' = [m \in DOMAIN disk' |-> disk'[m]]
    BY <1>1, Zenon
  <2>3. DOMAIN disk' \subseteq Names
    BY <1>n, <1>1, Zenon DEF Typed, FilesTyped, FitsTheFile
  <2> QED
    BY <2>1, <2>2, <2>3, Zenon
<1> QED
  BY <1>1, <1>3, <1>4, <1>5

(* The frame in the hand is written, or fails to be. *)
LEMMA WriteData ==
  ASSUME DataInv, WriteFrame
  PROVE  DataInv'
<1> USE VideoWriterAssumption
<1>n. Typed
  BY DEF DataInv
<1>0. /\ writer = "writing" /\ writer' = "get" /\ hand' = None
      /\ UNCHANGED <<captured, dropped, queue>>
      /\ WriteInto \/ WriteIntoNew \/ WriteFails
  BY Zenon DEF WriteFrame, captureVars
<1>h. /\ hand \in FrameSet /\ hand.ref \in TimeRefs /\ hand.limit \in Limits
      /\ hand.limit \in Nat \ {0} /\ hand.second \in 0..Seconds /\ hand.number \in Nat
  BY <1>n, <1>0, Numbers, FrameFacts, Zenon
<1>w. Waiting' = Waiting
  BY <1>0, Zenon DEF Waiting
<1>p. PlacesTyped' /\ QueueInOrder' /\ HandInOrder'
  BY <1>n, <1>0, <1>w, Zenon DEF DataInv, Typed, PlacesTyped, InOrder, QueueInOrder, HandInOrder
(* The counts: one frame more is written or failed, the one in the hand.   *)
<1>c. ASSUME \/ written' = written + 1 /\ errors' = errors
             \/ written' = written /\ errors' = errors + 1,
             frames_in_file' \in Nat, frames_in_file' <= written', overwritten' \subseteq 1..Frames
      PROVE  CountsTyped' /\ CountsBehind'
  <2>1. /\ captured \in 0..Frames /\ dropped \in 0..Frames /\ written \in 0..Frames
        /\ errors \in 0..Frames
    BY <1>n DEF Typed, CountsTyped
  <2>2. /\ dropped <= captured /\ written + errors < hand.number /\ hand.number <= captured
        /\ \A i \in Waiting : hand.number < queue[i].number
    BY <1>0, Zenon DEF DataInv, InOrder, CountsBehind, HandInOrder
  <2>3. /\ written' \in Nat /\ errors' \in Nat /\ written' + errors' \in Nat
        /\ written' + errors' = written + errors + 1
        /\ written' + errors' <= hand.number
    BY <1>c, <1>h, <2>1, <2>2, SMT
  <2>4. \A i \in Waiting : written' + errors' < queue[i].number
    <3>1. \A i \in Waiting : queue[i].number \in Int
      BY <1>n, Numbers, Zenon
    <3> QED
      BY <1>h, <2>2, <2>3, <3>1, SMT
  <2>5. /\ written' + errors' <= captured /\ written' \in 0..Frames /\ errors' \in 0..Frames
        /\ frames_in_file' \in 0..Frames
    <3>1. frames_in_file' \in Nat /\ frames_in_file' <= written'
      BY <1>c
    <3>2. /\ hand.number \in Nat /\ hand.number <= captured
          /\ captured \in Int /\ captured <= Frames /\ Frames \in Nat
      BY <1>h, <1>n, <2>2, Numbers
    <3>3. written' + errors' <= captured /\ written' + errors' <= Frames
      <4>1. written' + errors' \in Int /\ hand.number \in Int /\ Frames \in Int
        BY <2>3, <3>2
      <4>2. written' + errors' <= captured
        BY <2>3, <3>2, <4>1, Chain
      <4> QED
        BY <3>2, <4>1, <4>2, Chain
    <3>4. written' <= Frames /\ errors' <= Frames
      BY <2>3, <3>2, <3>3, SMT
    <3>5. written' \in 0..Frames /\ errors' \in 0..Frames
      BY <2>3, <3>2, <3>4, SMT
    <3>6. frames_in_file' \in 0..Frames
      BY <2>3, <3>1, <3>2, <3>4, SMT
    <3> QED
      BY <3>3, <3>5, <3>6
  <2>6. CountsTyped'
    BY <1>0, <1>c, <2>1, <2>5, Zenon DEF CountsTyped
  <2>7. CountsBehind'
    BY <1>0, <1>c, <1>w, <2>2, <2>4, <2>5, Zenon DEF CountsBehind
  <2> QED
    BY <2>6, <2>7
<1>f. /\ frames_in_file \in Nat /\ frames_in_file <= written /\ written \in Nat
      /\ errors \in Nat /\ overwritten \subseteq 1..Frames
  BY <1>n, SMT DEF DataInv, Typed, CountsTyped, InOrder, CountsBehind
(* Nothing of the disk changes. *)
<1>k. ASSUME disk' = disk
      PROVE  DiskInOrder' /\ Uniform'
  <2>1. DiskInOrder'
    <3>1. writer' # "writing"
      BY <1>0, Zenon
    <3> QED
      BY <1>0, <1>k, <1>w, <3>1, Zenon DEF DataInv, InOrder, DiskInOrder
  <2>2. Uniform'
    BY <1>k, Zenon DEF DataInv, Uniform
  <2> QED
    BY <2>1, <2>2
<1>m. NameOf(hand) \in Names /\ NameOf(hand).ref = hand.ref /\ NameOf(hand) # NoName
  <2>1. NameOf(hand) \in Names /\ NameOf(hand).ref = hand.ref
    BY <1>h, SMT DEF NameOf, Names
  <2>2. "NONE" \notin TimeRefs /\ NoName.ref = "NONE"
    BY Zenon DEF TimeRefs, NoName
  <2> QED
    BY <1>h, <2>1, <2>2, Zenon
<1>l. LostBy(NameOf(hand)) \subseteq 1..Frames
  BY <1>n, LostFacts
<1>1. CASE WriteInto
  <2>0. /\ file # NoName /\ ~(frames_in_file >= hand.limit)
        /\ hand.ref = file_time_ref /\ hand.limit = file_rotation_limit
        /\ disk' = [disk EXCEPT ![file] = Append(@, hand)]
        /\ frames_in_file' = frames_in_file + 1 /\ written' = written + 1
        /\ UNCHANGED <<file, file_time_ref, file_rotation_limit, errors, overwritten>>
    BY <1>1, Zenon DEF WriteInto, NeedsNewFile
  <2> DEFINE old == disk[file]
             c == Append(old, hand)
  <2>1. /\ file \in DOMAIN disk /\ file.ref = file_time_ref
        /\ frames_in_file = Len(old)
        /\ \A k \in 1..Len(old) : old[k].limit = file_rotation_limit
    BY <2>0, Zenon DEF DataInv, OpenFileIsDescribed
  <2>2. old \in Seq(FrameSet)
    BY <1>n, <2>1, Numbers, Zenon
  <2>3. /\ c \in Seq(FrameSet)
        /\ Len(c) = Len(old) + 1 /\ Len(old) \in Nat
        /\ \A k \in 1..Len(old) : c[k] = old[k]
        /\ c[Len(old) + 1] = hand
        /\ \A k \in 1..Len(old) + 1 : k \in 1..Len(old) \/ k = Len(old) + 1
    BY <1>h, <2>2, Appending
  <2> HIDE DEF c, old
  <2>4. \A k \in 1..Len(c) : c[k].limit = hand.limit /\ c[k].ref = file.ref
    <3>1. \A k \in 1..Len(old) : old[k].ref = file.ref
      BY <2>1, Zenon DEF DataInv, Uniform, old
    <3> QED
      BY <2>0, <2>1, <2>3, <3>1, Zenon
  <2>5. 1 \in 1..Len(c) /\ \A k \in 1..Len(c) : k <= hand.limit
    BY <1>h, <2>0, <2>1, <2>3, SMT
  <2>6. ASSUME NEW k \in 1..Len(c)
        PROVE  /\ k > 1 => c[k - 1].number < c[k].number
               /\ c[k].number <= hand.number
    <3>1. \A j \in 1..Len(old) : old[j].number < hand.number /\ old[j].number \in Int
      BY <1>n, <1>0, <2>1, Numbers, Zenon DEF DataInv, InOrder, DiskInOrder, old
    <3>2. CASE k \in 1..Len(old)
      <4>1. k > 1 => k - 1 \in 1..Len(old)
        BY <2>3, <3>2, SMT
      <4>2. k > 1 => old[k - 1].number < old[k].number
        BY <2>1, <3>2, Zenon DEF DataInv, Uniform, old
      <4>3. old[k].number <= hand.number
        BY <1>h, <3>1, <3>2, SMT
      <4> QED
        BY <2>3, <3>2, <4>1, <4>2, <4>3, Zenon
    <3>3. CASE k = Len(old) + 1
      <4>1. k > 1 => k - 1 \in 1..Len(old)
        BY <2>3, <3>3, SMT
      <4>2. c[k] = hand
        BY <2>3, <3>3, Zenon
      <4>3. hand.number <= hand.number
        BY <1>h, SMT
      <4> QED
        BY <2>3, <3>1, <4>1, <4>2, <4>3, Zenon
    <3> QED
      BY <2>3, <3>2, <3>3, Zenon
  <2>7. FitsTheFile(file, c)
    <3>1. file \in Names
      BY <1>n, <2>1, Zenon DEF Typed, FilesTyped
    <3>2. \A k \in 1..Len(c) : c[k].limit = c[1].limit /\ k <= c[1].limit
      BY <2>4, <2>5, Zenon
    <3> QED
      BY <2>3, <2>4, <2>6, <3>1, <3>2, Zenon DEF FitsTheFile
  <2>8. disk' = [m \in DOMAIN disk \cup {file} |-> IF m = file THEN c ELSE disk[m]]
    <3>1. DOMAIN disk \cup {file} = DOMAIN disk
      BY <2>1, Zenon
    <3>2. disk' = [m \in DOMAIN disk |-> IF m = file THEN c ELSE disk[m]]
      BY <2>0, Zenon DEF c, old
    <3> QED
      BY <3>1, <3>2
  <2>9. /\ DiskInOrder' /\ Uniform'
        /\ disk' \in [DOMAIN disk' -> Seq(FrameSet)] /\ DOMAIN disk' \subseteq Names
        /\ file \in DOMAIN disk' /\ disk'[file] = c
    BY <1>0, <2>7, <2>8, DiskChange
  <2>10. CountsTyped' /\ CountsBehind'
    <3>1. frames_in_file' \in Nat /\ frames_in_file' <= written'
      BY <1>f, <2>0, SMT
    <3> QED
      BY <1>c, <1>f, <2>0, <3>1, Zenon
  <2>11. FilesTyped'
    BY <1>n, <2>0, <2>9, Zenon DEF Typed, FilesTyped
  <2>12. OpenFileIsDescribed'
    BY <2>0, <2>1, <2>3, <2>4, <2>9, Zenon DEF OpenFileIsDescribed
  <2> QED
    BY <1>p, <2>9, <2>10, <2>11, <2>12 DEF DataInv, Typed, InOrder
<1>2. CASE WriteIntoNew
  <2> DEFINE n == NameOf(hand)
             c == <<hand>>
  <2>0. /\ file' = n /\ overwritten' = overwritten \cup LostBy(n)
        /\ disk' = [Created(n) EXCEPT ![n] = c]
        /\ frames_in_file' = 1
        /\ file_time_ref' = hand.ref /\ file_rotation_limit' = hand.limit
        /\ written' = written + 1 /\ errors' = errors
    BY <1>2, Zenon DEF WriteIntoNew
  <2>1. /\ c \in Seq(FrameSet) /\ Len(c) = 1 /\ c[1] = hand /\ \A k \in 1..1 : k = 1
    BY <1>h, SMT
  <2>2. disk' = [m \in DOMAIN disk \cup {n} |-> IF m = n THEN c ELSE disk[m]]
    <3>1. /\ DOMAIN Created(n) = DOMAIN disk \cup {n}
          /\ \A m \in DOMAIN disk \cup {n} :
               Created(n)[m] = IF m = n THEN <<>> ELSE disk[m]
      BY Zenon DEF Created
    <3>2. disk' = [m \in DOMAIN disk \cup {n} |-> IF m = n THEN c ELSE Created(n)[m]]
      BY <2>0, <3>1, Zenon
    <3> QED
      BY <3>1, <3>2, Zenon
  <2> HIDE DEF n, c
  <2>3. FitsTheFile(n, c)
    <3>1. 1 <= hand.limit /\ hand.number <= hand.number /\ ~(1 > 1)
      BY <1>h, SMT
    <3> QED
      BY <1>m, <2>1, <3>1, Zenon DEF FitsTheFile, n
  <2>4. /\ DiskInOrder' /\ Uniform'
        /\ disk' \in [DOMAIN disk' -> Seq(FrameSet)] /\ DOMAIN disk' \subseteq Names
        /\ n \in DOMAIN disk' /\ disk'[n] = c
    BY <1>0, <2>2, <2>3, DiskChange
  <2>5. CountsTyped' /\ CountsBehind'
    <3>1. frames_in_file' \in Nat /\ frames_in_file' <= written'
      BY <1>f, <2>0, SMT
    <3>2. overwritten' \subseteq 1..Frames
      BY <1>f, <1>l, <2>0, Zenon DEF n
    <3> QED
      BY <1>c, <2>0, <3>1, <3>2, Zenon
  <2>6. FilesTyped'
    BY <1>h, <1>m, <2>0, <2>4, Zenon DEF FilesTyped, n
  <2>7. OpenFileIsDescribed'
    BY <1>m, <2>0, <2>1, <2>4, Zenon DEF OpenFileIsDescribed, n
  <2> QED
    BY <1>p, <2>4, <2>5, <2>6, <2>7 DEF DataInv, Typed, InOrder
<1>3. CASE WriteFails
  <2>0. /\ errors' = errors + 1 /\ written' = written
        /\ FailKeepingFile \/ FailToOpen \/ FailAfterOpening
    BY <1>3, Zenon DEF WriteFails
  <2>1. CASE FailKeepingFile \/ FailToOpen
    <3>1. /\ UNCHANGED <<frames_in_file, file_time_ref, file_rotation_limit, disk, overwritten>>
          /\ file' = file \/ file' = NoName
      BY <2>1, Zenon DEF FailKeepingFile, FailToOpen
    <3>2. CountsTyped' /\ CountsBehind'
      BY <1>c, <1>f, <2>0, <3>1, Zenon
    <3>3. FilesTyped'
      BY <1>n, <3>1, Zenon DEF Typed, FilesTyped
    <3>4. OpenFileIsDescribed'
      BY <3>1, Zenon DEF DataInv, OpenFileIsDescribed
    <3> QED
      BY <1>k, <1>p, <3>1, <3>2, <3>3, <3>4, Zenon DEF DataInv, Typed, InOrder
  <2>2. CASE FailAfterOpening
    <3> DEFINE n == NameOf(hand)
               c == <<>>
    <3>0. /\ file' = n /\ overwritten' = overwritten \cup LostBy(n)
          /\ disk' = [m \in DOMAIN disk \cup {n} |-> IF m = n THEN c ELSE disk[m]]
          /\ frames_in_file' = 0
          /\ file_time_ref' = hand.ref /\ file_rotation_limit' = hand.limit
      BY <2>2, Zenon DEF FailAfterOpening, Created
    <3>1. /\ c \in Seq(FrameSet) /\ Len(c) = 0 /\ \A k \in 1..0 : FALSE
      BY SMT
    <3> HIDE DEF n, c
    <3>2. FitsTheFile(n, c)
      BY <1>m, <3>1, Zenon DEF FitsTheFile, n
    <3>3. /\ DiskInOrder' /\ Uniform'
          /\ disk' \in [DOMAIN disk' -> Seq(FrameSet)] /\ DOMAIN disk' \subseteq Names
          /\ n \in DOMAIN disk' /\ disk'[n] = c
      BY <1>0, <3>0, <3>2, DiskChange
    <3>4. CountsTyped' /\ CountsBehind'
      <4>1. frames_in_file' \in Nat /\ frames_in_file' <= written'
        BY <1>f, <2>0, <3>0, SMT
      <4>2. overwritten' \subseteq 1..Frames
        BY <1>f, <1>l, <3>0, Zenon DEF n
      <4> QED
        BY <1>c, <2>0, <4>1, <4>2, Zenon
    <3>5. FilesTyped'
      BY <1>h, <1>m, <3>0, <3>3, Zenon DEF FilesTyped, n
    <3>6. OpenFileIsDescribed'
      BY <1>m, <3>0, <3>1, <3>3, Zenon DEF OpenFileIsDescribed, n
    <3> QED
      BY <1>p, <3>3, <3>4, <3>5, <3>6 DEF DataInv, Typed, InOrder
  <2> QED
    BY <2>0, <2>1, <2>2
<1> QED
  BY <1>0, <1>1, <1>2, <1>3

-----------------------------------------------------------------------------
(* One lemma per thread.                                                   *)

(* The capture thread. *)
LEMMA CaptureKeeps ==
  ASSUME IInv, CheckStop \/ TestRunning \/ CaptureFrame \/ CaptureNothing
  PROVE  IInv'
<1>1. CASE CheckStop \/ TestRunning \/ CaptureNothing
  <2>1. UNCHANGED dataVars /\ UNCHANGED <<cameraVars, mainVars, queue, writer>>
    BY <1>1, Zenon DEF CheckStop, TestRunning, CaptureNothing, dataVars
  <2>2. DataInv'
    BY <2>1, DataKept DEF IInv
  <2>3. /\ capture \in {"check", "testing", "capturing"}
        /\ capture' \in {"check", "testing", "capturing", "ended"}
    BY <1>1, Zenon DEF CheckStop, TestRunning, CaptureNothing
  <2>4. ControlTyped'
    BY <2>1, <2>3, Zenon DEF IInv, ControlTyped, cameraVars, mainVars
  <2>5. StopsInOrder'
    BY <2>1, <2>3, Zenon DEF IInv, StopsInOrder, mainVars
  <2> QED
    BY <2>2, <2>4, <2>5 DEF IInv
<1>2. CASE CaptureFrame
  <2>1. /\ DataInv'
        /\ \A i \in 1..Len(queue') : queue'[i] = Sentinel =>
             i \in 1..Len(queue) /\ queue[i] = Sentinel
    BY <1>2, CaptureData DEF IInv
  <2>2. /\ capture = "capturing" /\ capture' = "check"
        /\ UNCHANGED <<cameraVars, writer, mainVars>>
    BY <1>2, Zenon DEF CaptureFrame
  <2>3. ControlTyped'
    BY <2>2, Zenon DEF IInv, ControlTyped, cameraVars, mainVars
  <2>4. StopsInOrder'
    BY <2>1, <2>2, Zenon DEF IInv, StopsInOrder, mainVars
  <2> QED
    BY <2>1, <2>3, <2>4 DEF IInv
<1> QED
  BY <1>1, <1>2

(* The writer thread. *)
LEMMA WriterKeeps ==
  ASSUME IInv, GetItem \/ WriteFrame \/ CloseAndEnd
  PROVE  IInv'
<1>0. UNCHANGED <<cameraVars, captureVars, mainVars>>
  BY Zenon DEF GetItem, WriteFrame, CloseAndEnd
<1>c. ControlTyped'
  BY <1>0, Zenon DEF IInv, ControlTyped, cameraVars, captureVars, mainVars
<1>1. CASE GetItem
  <2>1. /\ DataInv'
        /\ \A i \in 1..Len(queue') : queue'[i] = Sentinel =>
             \E j \in 1..Len(queue) : queue[j] = Sentinel
        /\ writer' = "closing" =>
             writer_stop \/ \E j \in 1..Len(queue) : queue[j] = Sentinel
    BY <1>1, TakeData DEF IInv
  <2>2. writer' \in {"closing", "writing"}
    BY <1>1, Zenon DEF GetItem
  <2>3. (\E j \in 1..Len(queue) : queue[j] = Sentinel) => writer_stop
    BY Zenon DEF IInv, StopsInOrder
  <2>4. StopsInOrder'
    BY <1>0, <2>1, <2>2, <2>3, Zenon DEF IInv, StopsInOrder, captureVars, mainVars
  <2> QED
    BY <1>c, <2>1, <2>4 DEF IInv
<1>2. CASE WriteFrame
  <2>1. DataInv'
    BY <1>2, WriteData DEF IInv
  <2>2. writer' = "get" /\ queue' = queue
    BY <1>2, Zenon DEF WriteFrame
  <2>3. StopsInOrder'
    BY <1>0, <2>2, Zenon DEF IInv, StopsInOrder, captureVars, mainVars
  <2> QED
    BY <1>c, <2>1, <2>3 DEF IInv
<1>3. CASE CloseAndEnd
  <2>1. /\ writer = "closing" /\ writer' = "ended" /\ file' \in {NoName, file}
        /\ UNCHANGED <<frames_in_file, file_time_ref, file_rotation_limit, written,
                       errors, disk, overwritten, captured, dropped, queue, hand>>
    BY <1>3, Zenon DEF CloseAndEnd, captureVars
  <2>2. Waiting' = Waiting
    BY <2>1, Zenon DEF Waiting
  <2>3. Typed'
    BY <2>1, Zenon DEF IInv, DataInv, Typed, CountsTyped, PlacesTyped, FilesTyped
  <2>4. InOrder'
    BY <2>1, <2>2, Zenon DEF IInv, DataInv, InOrder, QueueInOrder, HandInOrder,
       DiskInOrder, CountsBehind
  <2>5. Uniform' /\ OpenFileIsDescribed'
    BY <2>1, Zenon DEF IInv, DataInv, Uniform, OpenFileIsDescribed
  <2>6. StopsInOrder'
    BY <1>0, <2>1, Zenon DEF IInv, StopsInOrder, captureVars, mainVars
  <2> QED
    BY <1>c, <2>3, <2>4, <2>5, <2>6 DEF IInv, DataInv
<1> QED
  BY <1>1, <1>2, <1>3

(* The main thread: a mode, and the steps of the shutdown. *)
LEMMA MainKeeps ==
  ASSUME IInv, SetMode \/ MainStep
  PROVE  IInv'
<1>1. CASE PutSentinel
  <2>1. DataInv'
    BY <1>1, SentinelData DEF IInv
  <2>2. /\ main = "put_sentinel" /\ main' = "join_writer"
        /\ UNCHANGED <<capture_stop, writer_stop, capture_late, cameraVars, captureVars, writer>>
    BY <1>1, Zenon DEF PutSentinel
  <2>3. ControlTyped'
    BY <2>2, Zenon DEF IInv, ControlTyped, cameraVars, captureVars
  <2>4. StopsInOrder'
    BY <2>2, Zenon DEF IInv, StopsInOrder, captureVars
  <2> QED
    BY <2>1, <2>3, <2>4 DEF IInv
<1>2. CASE \/ SetMode \/ BeginShutdown \/ JoinCapture
           \/ StopCamera \/ JoinWriter \/ CloseLogs
  <2>1. UNCHANGED dataVars /\ UNCHANGED <<captureVars, queue, writer>>
    BY <1>2, Zenon DEF SetMode, BeginShutdown, JoinCapture, StopCamera, JoinWriter,
       CloseLogs, dataVars, captureVars
  <2>2. DataInv'
    BY <2>1, DataKept DEF IInv
  <2>3. ControlTyped' /\ StopsInOrder'
    <3>1. CASE SetMode
      BY <2>1, <3>1, Zenon DEF SetMode, IInv, ControlTyped, StopsInOrder, captureVars, mainVars
    <3>2. CASE BeginShutdown
      BY <2>1, <3>2, Zenon
      DEF BeginShutdown, IInv, ControlTyped, StopsInOrder, captureVars, cameraVars
    <3>3. CASE JoinCapture
      <4>1. (capture # "ended") \in BOOLEAN
        BY Zenon
      <4> QED
        BY <2>1, <3>3, <4>1, Zenon
        DEF JoinCapture, IInv, ControlTyped, StopsInOrder, captureVars, cameraVars
    <3>4. CASE StopCamera
      BY <2>1, <3>4, Zenon DEF StopCamera, IInv, ControlTyped, StopsInOrder, captureVars
    <3>5. CASE JoinWriter
      BY <2>1, <3>5, Zenon
      DEF JoinWriter, IInv, ControlTyped, StopsInOrder, captureVars, cameraVars
    <3>6. CASE CloseLogs
      BY <2>1, <3>6, Zenon
      DEF CloseLogs, IInv, ControlTyped, StopsInOrder, captureVars, cameraVars
    <3> QED
      BY <1>2, <3>1, <3>2, <3>3, <3>4, <3>5, <3>6
  <2> QED
    BY <2>2, <2>3 DEF IInv
<1> QED
  BY <1>1, <1>2 DEF MainStep

(* The second a frame is stamped with. *)
LEMMA ClockKeeps ==
  ASSUME IInv, SecondPasses \/ LiftOff
  PROVE  IInv'
<1>1. /\ UNCHANGED dataVars
      /\ UNCHANGED <<rotation_limit, running, captureVars, mainVars, queue, writer>>
  BY Zenon DEF SecondPasses, LiftOff, dataVars, captureVars
<1>2. DataInv'
  BY <1>1, DataKept DEF IInv
<1>3. clock' \in Names
  <2>1. clock \in Names /\ Seconds \in Nat
    BY VideoWriterAssumption, Zenon DEF IInv, ControlTyped
  <2>2. CASE SecondPasses
    BY <2>1, <2>2, SMT DEF SecondPasses, Names
  <2>3. CASE LiftOff
    BY <2>1, <2>3, SMT DEF LiftOff, Names, TimeRefs
  <2> QED
    BY <2>2, <2>3
<1>4. ControlTyped' /\ StopsInOrder'
  BY <1>1, <1>3, Zenon DEF IInv, ControlTyped, StopsInOrder, captureVars, mainVars
<1> QED
  BY <1>2, <1>4 DEF IInv

(* Every step keeps the invariant. *)
LEMMA StepKeeps == IInv /\ [Next]_vars => IInv'
<1> SUFFICES ASSUME IInv, [Next]_vars PROVE IInv'
  OBVIOUS
<1>1. CASE UNCHANGED vars
  <2>1. UNCHANGED dataVars /\ UNCHANGED <<cameraVars, captureVars, mainVars, queue, writer>>
    BY <1>1, Zenon DEF vars, dataVars, captureVars
  <2>2. DataInv'
    BY <2>1, DataKept DEF IInv
  <2>3. ControlTyped' /\ StopsInOrder'
    BY <2>1, Zenon DEF IInv, ControlTyped, StopsInOrder, captureVars, cameraVars, mainVars
  <2> QED
    BY <2>2, <2>3 DEF IInv
<1>2. CASE Next
  BY <1>2, CaptureKeeps, WriterKeeps, MainKeeps, ClockKeeps, Zenon DEF Next
<1> QED
  BY <1>1, <1>2

(* It holds in every reachable state. *)
LEMMA InductiveInvariant == Spec => []IInv
  BY InitHolds, StepKeeps, PTL DEF Spec

-----------------------------------------------------------------------------
(* Where the frames are.  What is stored, overwritten since or not, is     *)
(* behind what is under way; and each counter has counted its frames.      *)
StoredInOrder ==
  /\ \A x \in overwritten : x <= captured
  /\ \A x \in overwritten, y \in Underway : x < y

Counted ==
  /\ Cardinality(Stored) = written
  /\ Cardinality(Missing) = dropped + errors

AccountInv == IInv /\ StoredInOrder /\ Counted

(* The numbers of the places. *)
LEMMA PlaceFacts ==
  ASSUME IInv, StoredInOrder
  PROVE  /\ captured \in Nat
         /\ \A x \in Queued : x \in 1..captured
         /\ \A x \in InHand : x \in 1..captured /\ x \notin Queued
         /\ \A x \in Stored : x \in 1..captured /\ x \notin Queued /\ x \notin InHand
         /\ writer = "writing" =>
              /\ InHand = {hand.number} /\ hand.number \in Underway
              /\ \A y \in Underway : hand.number <= y
         /\ \A x \in Underway : x \in 1..captured
         /\ \A x \in Stored, y \in Underway : x < y
<1>n. Typed /\ InOrder
  BY DEF IInv, DataInv
<1>1. captured \in Nat /\ captured \in Int
  BY <1>n, SMT DEF Typed, CountsTyped
<1>2. \A f \in FrameSet : f.number \in Nat /\ f.number >= 1
  BY FrameFacts, SMT
<1>3. ASSUME NEW i \in Waiting
      PROVE  queue[i].number \in 1..captured
  <2>1. queue[i] \in FrameSet /\ queue[i].number <= captured
    BY <1>n, Numbers, Zenon DEF InOrder, QueueInOrder
  <2> QED
    BY <1>1, <1>2, <2>1, SMT
<1>4. ASSUME writer = "writing"
      PROVE  hand.number \in 1..captured
  <2>1. hand \in FrameSet /\ hand.number <= captured
    BY <1>n, <1>4, Numbers, Zenon DEF InOrder, HandInOrder
  <2> QED
    BY <1>1, <1>2, <2>1, SMT
<1>5. ASSUME NEW x \in Stored
      PROVE  /\ x \in 1..captured
             /\ writer = "writing" => x < hand.number
             /\ \A i \in Waiting : x < queue[i].number
  <2>1. CASE x \in overwritten
    <3>1. x \in Int /\ x >= 1
      BY <1>n, <2>1, VideoWriterAssumption, SMT DEF Typed, CountsTyped
    <3>2. x \in 1..captured
      BY <1>1, <2>1, <3>1, SMT DEF StoredInOrder
    <3>3. /\ writer = "writing" => hand.number \in Underway
          /\ \A i \in Waiting : queue[i].number \in Underway
      BY Zenon DEF Underway, InHand, Queued
    <3> QED
      BY <2>1, <3>2, <3>3, Zenon DEF StoredInOrder
  <2>2. ASSUME NEW n \in DOMAIN disk, NEW k \in 1..Len(disk[n]), x = disk[n][k].number
        PROVE  /\ x \in 1..captured
               /\ writer = "writing" => x < hand.number
               /\ \A i \in Waiting : x < queue[i].number
    <3>1. disk[n][k] \in FrameSet
      BY <1>n, Numbers, Zenon
    <3>2. x \in Nat /\ x >= 1
      BY <1>2, <2>2, <3>1, Zenon
    <3>3. x <= captured
      BY <1>n, <2>2, Zenon DEF InOrder, DiskInOrder
    <3>4. x \in 1..captured
      BY <1>1, <3>2, <3>3, SMT
    <3> QED
      BY <1>n, <2>2, <3>4, Zenon DEF InOrder, DiskInOrder
  <2> QED
    BY <2>1, <2>2, Zenon DEF Stored, NumbersIn
<1>6. \A x \in 1..captured : ~(x < x) /\ x <= x
  BY <1>1, SMT
<1>7. writer = "writing" => \A i \in Waiting : /\ hand.number < queue[i].number
                                              /\ hand.number <= queue[i].number
  <2>1. writer = "writing" => \A i \in Waiting : hand.number < queue[i].number
    BY <1>n, Zenon DEF InOrder, HandInOrder
  <2>2. \A x, y \in 1..captured : x < y => x <= y
    BY <1>1, SMT
  <2> QED
    BY <1>3, <1>4, <2>1, <2>2, Zenon
<1>8. \A x \in Underway : \/ \E i \in Waiting : x = queue[i].number
                          \/ writer = "writing" /\ x = hand.number
  <2>1. /\ writer = "writing" => InHand = {hand.number}
        /\ writer # "writing" => InHand = {}
    BY Zenon DEF InHand
  <2>2. ASSUME NEW x \in InHand
        PROVE  writer = "writing" /\ x = hand.number
    BY <2>1, Zenon
  <2>3. ASSUME NEW x \in Queued
        PROVE  \E i \in Waiting : x = queue[i].number
    BY Zenon DEF Queued
  <2> QED
    BY <2>2, <2>3, Zenon DEF Underway
<1>9. \A x \in Stored, y \in Underway : x < y
  BY <1>5, <1>8, Zenon
<1>10. \A x \in Underway : x \in 1..captured
  BY <1>3, <1>4, <1>8, Zenon
<1>11. writer = "writing" => /\ InHand = {hand.number} /\ hand.number \in Underway
                             /\ \A y \in Underway : hand.number <= y
  BY <1>4, <1>6, <1>7, <1>8, Zenon DEF InHand, Underway
<1>12. \A x \in InHand : x \in 1..captured /\ x \notin Queued
  BY <1>4, <1>6, <1>7, Zenon DEF InHand, Queued
<1>13. /\ \A x \in Queued : x \in 1..captured
       /\ \A x \in Stored : x \in 1..captured /\ x \notin Queued /\ x \notin InHand
  BY <1>5, <1>6, <1>9, <1>10, Zenon DEF Underway
<1> QED
  BY <1>1, <1>9, <1>10, <1>11, <1>12, <1>13

(* The sets that are counted are finite. *)
LEMMA PlacesFinite ==
  ASSUME IInv, StoredInOrder
  PROVE  /\ IsFiniteSet(Stored) /\ Cardinality(Stored) \in Nat
         /\ IsFiniteSet(Missing) /\ Cardinality(Missing) \in Nat
<1>1. captured \in Nat /\ Stored \subseteq 1..captured
  BY PlaceFacts, Zenon
<1>2. IsFiniteSet(1..captured)
  BY <1>1, FS_Interval, SMT
<1>3. Missing \subseteq 1..captured
  BY Zenon DEF Missing
<1>4. IsFiniteSet(Stored) /\ IsFiniteSet(Missing)
  BY <1>1, <1>2, <1>3, FS_Subset, Zenon
<1> QED
  BY <1>4, FS_CardinalityType, Zenon

(* What each step does to the places, counters included.                   *)

(* A frame is captured: it waits, or is missing and counted as dropped.    *)
LEMMA CaptureMoves ==
  ASSUME IInv, CaptureFrame
  PROVE  /\ captured' = captured + 1
         /\ Stored' = Stored /\ InHand' = InHand
         /\ UNCHANGED <<written, errors>>
         /\ \/ Queued' = Queued \cup {captured + 1} /\ dropped' = dropped
            \/ Queued' = Queued /\ dropped' = dropped + 1
<1> DEFINE f == [number |-> captured + 1, ref |-> clock.ref,
                 second |-> clock.second, limit |-> rotation_limit]
<1>n. Typed /\ queue \in Seq(FrameSet \cup {Sentinel})
  BY Zenon DEF IInv, DataInv, Typed, PlacesTyped
<1>1. /\ captured < Frames /\ captured' = captured + 1 /\ Submit(f)
      /\ UNCHANGED <<writer, hand, fileVars>>
  BY Zenon DEF CaptureFrame
<1>2. f.number = captured + 1 /\ f \in FrameSet /\ f # Sentinel
  <2>1. captured + 1 \in 1..Frames
    BY <1>n, <1>1, VideoWriterAssumption, SMT DEF Typed, CountsTyped
  <2>2. clock.ref \in TimeRefs /\ clock.second \in 0..Seconds /\ rotation_limit \in Limits
    BY SMT DEF IInv, ControlTyped, Names
  <2>3. f \in FrameSet
    BY <2>1, <2>2, SMT DEF FrameSet
  <2> QED
    BY <2>3, FrameFacts, Zenon
<1> HIDE DEF f
<1>3. Stored' = Stored /\ InHand' = InHand /\ UNCHANGED <<written, errors>>
  BY <1>1, Zenon DEF Stored, InHand, fileVars
<1>4. CASE Len(queue) < QueueMaxsize
  <2>1. queue' = Append(queue, f) /\ dropped' = dropped
    BY <1>1, <1>4, Zenon DEF Submit
  <2>2. f \in FrameSet \cup {Sentinel}
    BY <1>2, Zenon
  <2>3. /\ Len(Append(queue, f)) = Len(queue) + 1
        /\ \A i \in 1..Len(queue) : Append(queue, f)[i] = queue[i]
        /\ Append(queue, f)[Len(queue) + 1] = f
        /\ \A i \in 1..Len(queue) + 1 : i \in 1..Len(queue) \/ i = Len(queue) + 1
    BY <1>n, <2>2, Appending
  <2>4. /\ \A i \in 1..Len(queue) : i \in 1..Len(queue) + 1
        /\ Len(queue) + 1 \in 1..Len(queue) + 1
    <3>1. Len(queue) \in Nat
      BY <1>n, SMT
    <3> QED
      BY <3>1, SMT
  <2>q. /\ Len(queue') = Len(queue) + 1
        /\ \A i \in 1..Len(queue) : i \in 1..Len(queue') /\ queue'[i] = queue[i]
        /\ Len(queue) + 1 \in 1..Len(queue') /\ queue'[Len(queue) + 1] = f
        /\ \A i \in 1..Len(queue') : i \in 1..Len(queue) \/ i = Len(queue) + 1
    BY <2>1, <2>3, <2>4, Zenon
  <2>5. /\ \A i \in Waiting : i \in Waiting' /\ queue'[i] = queue[i]
        /\ \A i \in Waiting' : \/ i \in Waiting /\ queue'[i] = queue[i]
                               \/ i = Len(queue) + 1 /\ queue'[i] = f
        /\ Len(queue) + 1 \in Waiting' /\ queue'[Len(queue) + 1] = f
    <3>1. \A i \in 1..Len(queue') : i \in Waiting' <=> queue'[i] # Sentinel
      BY Zenon DEF Waiting
    <3>2. \A i \in Waiting' : i \in 1..Len(queue') /\ queue'[i] # Sentinel
      BY Zenon DEF Waiting
    <3>3. \A i \in Waiting : i \in Waiting' /\ queue'[i] = queue[i]
      BY <2>q, <3>1, Zenon DEF Waiting
    <3>4. ASSUME NEW i \in Waiting'
          PROVE  \/ i \in Waiting /\ queue'[i] = queue[i]
                 \/ i = Len(queue) + 1 /\ queue'[i] = f
      BY <2>q, <3>2, Zenon DEF Waiting
    <3>5. Len(queue) + 1 \in Waiting' /\ queue'[Len(queue) + 1] = f
      BY <1>2, <2>q, <3>1, Zenon
    <3> QED
      BY <3>3, <3>4, <3>5
  <2>6. Queued' = Queued \cup {captured + 1}
    BY <1>2, <2>5, Zenon DEF Queued
  <2> QED
    BY <1>1, <1>3, <2>1, <2>6
<1>5. CASE ~(Len(queue) < QueueMaxsize)
  <2>1. queue' = queue /\ dropped' = dropped + 1
    BY <1>1, <1>5, Zenon DEF Submit
  <2>2. Queued' = Queued
    BY <2>1, Zenon DEF Queued, Waiting
  <2> QED
    BY <1>1, <1>3, <2>1, <2>2
<1> QED
  BY <1>4, <1>5

(* The writer takes a frame, the sentinel, or nothing: no frame is lost or *)
(* doubled between the queue and the hand.                                 *)
LEMMA TakeMoves ==
  ASSUME IInv, GetItem
  PROVE  /\ Queued' \cup InHand' = Queued \cup InHand
         /\ Stored' = Stored
         /\ UNCHANGED <<captured, dropped, written, errors>>
<1>n. queue \in Seq(FrameSet \cup {Sentinel})
  BY Zenon DEF IInv, DataInv, Typed, PlacesTyped
<1>0. /\ writer = "get" /\ InHand = {}
      /\ UNCHANGED <<captured, dropped, written, errors>> /\ Stored' = Stored
  BY Zenon DEF GetItem, captureVars, fileVars, InHand, Stored
<1>1. CASE writer_stop
  BY <1>0, <1>1, Zenon DEF GetItem, Queued, Waiting, InHand
<1>2. CASE ~writer_stop
  <2>0. /\ queue # <<>> /\ queue' = Tail(queue)
        /\ \/ Head(queue) = Sentinel /\ writer' = "closing" /\ hand' = hand
           \/ Head(queue) # Sentinel /\ writer' = "writing" /\ hand' = Head(queue)
    BY <1>2, Zenon DEF GetItem
  <2>1. /\ \A i \in 1..Len(queue') :
             i + 1 \in 1..Len(queue) /\ queue'[i] = queue[i + 1]
        /\ Head(queue) = queue[1] /\ 1 \in 1..Len(queue)
    BY <1>n, <2>0, Taking, Zenon
  <2>2. \A j \in 1..Len(queue) :
          j = 1 \/ (j - 1 \in 1..Len(queue') /\ queue'[j - 1] = queue[j])
    <3>1. Len(queue) \in Nat /\ Len(queue') = Len(queue) - 1
      BY <1>n, <2>0, SMT
    <3>2. \A j \in 1..Len(queue) : j = 1 \/ (j - 1 \in 1..Len(queue') /\ (j - 1) + 1 = j)
      BY <3>1, SMT
    <3>3. ASSUME NEW j \in 1..Len(queue), j # 1
          PROVE  j - 1 \in 1..Len(queue') /\ queue'[j - 1] = queue[j]
      <4>1. queue'[j - 1] = queue[(j - 1) + 1]
        BY <2>1, <3>2, <3>3, Zenon
      <4>2. (j - 1) + 1 = j /\ j - 1 \in 1..Len(queue')
        BY <3>2, <3>3, Zenon
      <4> QED
        BY <4>1, <4>2, Zenon
    <3> QED
      BY <3>3
  <2>3. Queued' = {queue[j].number : j \in Waiting \ {1}}
    <3>1. \A i \in Waiting' : /\ i + 1 \in Waiting \ {1}
                              /\ queue'[i].number = queue[i + 1].number
      <4>1. \A i \in 1..Len(queue') : i + 1 # 1
        <5>1. Len(queue') \in Nat
          BY <1>n, <2>0, SMT
        <5> QED
          BY <5>1, SMT
      <4> QED
        BY <2>1, <4>1, Zenon DEF Waiting
    <3>2. \A j \in Waiting \ {1} : /\ j - 1 \in Waiting'
                                   /\ queue'[j - 1].number = queue[j].number
      BY <2>2, Zenon DEF Waiting
    <3>3. ASSUME NEW x
          PROVE  x \in Queued' => \E j \in Waiting \ {1} : x = queue[j].number
      BY <3>1, Zenon DEF Queued
    <3>4. ASSUME NEW j \in Waiting \ {1}
          PROVE  queue[j].number \in Queued'
      BY <3>2, Zenon DEF Queued
    <3> QED
      BY <3>3, <3>4, Zenon
  <2>4. CASE Head(queue) = Sentinel
    <3>1. 1 \notin Waiting
      BY <2>1, <2>4, Zenon DEF Waiting
    <3>2. Queued' = Queued
      BY <2>3, <3>1, Zenon DEF Queued
    <3>3. InHand' = {}
      BY <2>0, <2>4, Zenon DEF InHand
    <3> QED
      BY <1>0, <3>2, <3>3, Zenon
  <2>5. CASE Head(queue) # Sentinel
    <3>1. 1 \in Waiting
      BY <2>1, <2>5, Zenon DEF Waiting
    <3>2. InHand' = {queue[1].number}
      BY <2>0, <2>1, <2>5, Zenon DEF InHand
    <3>3. Queued' \cup {queue[1].number} = Queued
      BY <2>3, <3>1, Zenon DEF Queued
    <3> QED
      BY <1>0, <3>2, <3>3, Zenon
  <2> QED
    BY <2>4, <2>5
<1> QED
  BY <1>1, <1>2

(* A file gets new content, and what it held is kept on record.            *)
LEMMA StoredAfter ==
  ASSUME NEW n, NEW c, NEW more,
         disk' = [m \in DOMAIN disk \cup {n} |-> IF m = n THEN c ELSE disk[m]],
         NumbersIn(c) \cup overwritten' = overwritten \cup LostBy(n) \cup more
  PROVE  Stored' = Stored \cup more
<1>1. /\ DOMAIN disk' = DOMAIN disk \cup {n} /\ disk'[n] = c
      /\ \A m \in DOMAIN disk : m # n => disk'[m] = disk[m]
  BY Zenon
<1>2. /\ n \in DOMAIN disk => LostBy(n) = NumbersIn(disk[n])
      /\ n \notin DOMAIN disk => LostBy(n) = {}
  BY Zenon DEF LostBy
<1>3. ASSUME NEW x
      PROVE  x \in Stored' <=> x \in NumbersIn(c) \cup overwritten'
                               \/ \E m \in DOMAIN disk : m # n /\ x \in NumbersIn(disk[m])
  <2>1. Stored' = overwritten' \cup UNION {NumbersIn(disk'[m]) : m \in DOMAIN disk'}
    BY DEF Stored, NumbersIn
  <2>2. x \in Stored' <=> x \in overwritten' \/ \E m \in DOMAIN disk' : x \in NumbersIn(disk'[m])
    BY <2>1, Zenon
  <2> QED
    BY <1>1, <2>2, Zenon
<1>4. ASSUME NEW x
      PROVE  x \in Stored <=> x \in overwritten \cup LostBy(n)
                              \/ \E m \in DOMAIN disk : m # n /\ x \in NumbersIn(disk[m])
  BY <1>2, Zenon DEF Stored
<1> QED
  BY <1>3, <1>4, Zenon

(* The frame in the hand is stored and counted as written, or missing and  *)
(* counted as an error; what a new file of the same name empties is        *)
(* on record.                                                              *)
LEMMA WriteMoves ==
  ASSUME IInv, WriteFrame
  PROVE  /\ writer = "writing" /\ InHand' = {} /\ Queued' = Queued
         /\ UNCHANGED <<captured, dropped>>
         /\ \/ /\ Stored' = Stored \cup {hand.number}
               /\ written' = written + 1 /\ errors' = errors
            \/ /\ Stored' = Stored
               /\ written' = written /\ errors' = errors + 1
<1>n. Typed
  BY DEF IInv, DataInv
<1>0. /\ writer = "writing" /\ InHand' = {} /\ Queued' = Queued
      /\ UNCHANGED <<captured, dropped>>
      /\ WriteInto \/ WriteIntoNew \/ WriteFails
  BY Zenon DEF WriteFrame, captureVars, InHand, Queued, Waiting
<1>h. hand \in FrameSet
  BY <1>n, <1>0, Numbers, Zenon
<1>1. CASE WriteInto
  <2>0. /\ file # NoName
        /\ disk' = [disk EXCEPT ![file] = Append(@, hand)]
        /\ written' = written + 1 /\ UNCHANGED <<errors, overwritten>>
    BY <1>1, Zenon DEF WriteInto, NeedsNewFile
  <2>1. file \in DOMAIN disk
    BY <2>0, Zenon DEF IInv, DataInv, OpenFileIsDescribed
  <2> DEFINE old == disk[file]
             c == Append(old, hand)
  <2>2. disk' = [m \in DOMAIN disk \cup {file} |-> IF m = file THEN c ELSE disk[m]]
    <3>1. DOMAIN disk \cup {file} = DOMAIN disk
      BY <2>1, Zenon
    <3>2. disk' = [m \in DOMAIN disk |-> IF m = file THEN c ELSE disk[m]]
      BY <2>0, Zenon
    <3> QED
      BY <3>1, <3>2
  <2>3. LostBy(file) = NumbersIn(old)
    BY <2>1, Zenon DEF LostBy
  <2>4. old \in Seq(FrameSet)
    BY <1>n, <2>1, Numbers, Zenon
  <2> HIDE DEF old
  <2>5. /\ Len(c) = Len(old) + 1 /\ Len(old) \in Nat
        /\ \A k \in 1..Len(old) : c[k] = old[k]
        /\ c[Len(old) + 1] = hand
        /\ \A k \in 1..Len(old) + 1 : k \in 1..Len(old) \/ k = Len(old) + 1
    BY <1>h, <2>4, Appending
  <2> HIDE DEF c
  <2>6. NumbersIn(c) = NumbersIn(old) \cup {hand.number}
    <3>1. /\ \A k \in 1..Len(old) : k \in 1..Len(c)
          /\ Len(old) + 1 \in 1..Len(c)
      BY <2>5, SMT
    <3> QED
      BY <2>5, <3>1, Zenon DEF NumbersIn
  <2>7. NumbersIn(c) \cup overwritten' = overwritten \cup LostBy(file) \cup {hand.number}
    BY <2>0, <2>3, <2>6, Zenon
  <2>8. Stored' = Stored \cup {hand.number}
    BY <2>2, <2>7, StoredAfter
  <2> QED
    BY <1>0, <2>0, <2>8
<1>2. CASE WriteIntoNew
  <2> DEFINE n == NameOf(hand)
             c == <<hand>>
  <2>0. /\ overwritten' = overwritten \cup LostBy(n)
        /\ disk' = [Created(n) EXCEPT ![n] = c]
        /\ written' = written + 1 /\ errors' = errors
    BY <1>2, Zenon DEF WriteIntoNew
  <2>1. NumbersIn(c) = {hand.number}
    <3>1. Len(c) = 1 /\ c[1] = hand /\ 1..1 = {1}
      BY SMT
    <3> HIDE DEF c
    <3> QED
      BY <3>1, Zenon DEF NumbersIn
  <2>2. disk' = [m \in DOMAIN disk \cup {n} |-> IF m = n THEN c ELSE disk[m]]
    <3>1. /\ DOMAIN Created(n) = DOMAIN disk \cup {n}
          /\ \A m \in DOMAIN disk \cup {n} :
               Created(n)[m] = IF m = n THEN <<>> ELSE disk[m]
      BY Zenon DEF Created
    <3>2. disk' = [m \in DOMAIN disk \cup {n} |-> IF m = n THEN c ELSE Created(n)[m]]
      BY <2>0, <3>1, Zenon
    <3> QED
      BY <3>1, <3>2, Zenon
  <2> HIDE DEF n, c
  <2>3. NumbersIn(c) \cup overwritten' = overwritten \cup LostBy(n) \cup {hand.number}
    BY <2>0, <2>1, Zenon
  <2>4. Stored' = Stored \cup {hand.number}
    BY <2>2, <2>3, StoredAfter
  <2> QED
    BY <1>0, <2>0, <2>4
<1>3. CASE WriteFails
  <2>0. /\ errors' = errors + 1 /\ written' = written
        /\ FailKeepingFile \/ FailToOpen \/ FailAfterOpening
    BY <1>3, Zenon DEF WriteFails
  <2>1. CASE FailKeepingFile \/ FailToOpen
    <3>1. Stored' = Stored
      BY <2>1, Zenon DEF FailKeepingFile, FailToOpen, Stored
    <3> QED
      BY <1>0, <2>0, <3>1
  <2>2. CASE FailAfterOpening
    <3> DEFINE n == NameOf(hand)
               c == <<>>
    <3>1. /\ overwritten' = overwritten \cup LostBy(n)
          /\ disk' = [m \in DOMAIN disk \cup {n} |-> IF m = n THEN c ELSE disk[m]]
      BY <2>2, Zenon DEF FailAfterOpening, Created
    <3>2. NumbersIn(c) = {}
      <4>1. 1..Len(c) = {}
        BY SMT
      <4> HIDE DEF c
      <4> QED
        BY <4>1, Zenon DEF NumbersIn
    <3> HIDE DEF n, c
    <3>3. NumbersIn(c) \cup overwritten' = overwritten \cup LostBy(n) \cup {}
      BY <3>1, <3>2, Zenon
    <3>4. Stored' = Stored \cup {}
      BY <3>1, <3>3, StoredAfter
    <3> QED
      BY <1>0, <2>0, <3>4, Zenon
  <2> QED
    BY <2>0, <2>1, <2>2
<1> QED
  BY <1>0, <1>1, <1>2, <1>3

(* The same in terms of the line: a frame arrives, the first is served, or *)
(* nothing happens to any.                                                 *)
Arrives ==
  /\ captured' = captured + 1 /\ Stored' = Stored
  /\ UNCHANGED <<written, errors>>
  /\ \/ Underway' = Underway \cup {captured + 1} /\ dropped' = dropped
     \/ Underway' = Underway /\ dropped' = dropped + 1
IsServed ==
  /\ writer = "writing" /\ Underway' = Underway \ {hand.number}
  /\ UNCHANGED <<captured, dropped>>
  /\ \/ Stored' = Stored \cup {hand.number} /\ written' = written + 1 /\ errors' = errors
     \/ Stored' = Stored /\ written' = written /\ errors' = errors + 1
Stays ==
  /\ Underway' = Underway
  /\ Stored' = Stored
  /\ UNCHANGED <<captured, dropped, written, errors>>

LEMMA StepMoves ==
  ASSUME IInv, StoredInOrder, [Next]_vars
  PROVE  Arrives \/ IsServed \/ Stays
<1>1. CASE CaptureFrame
  BY <1>1, CaptureMoves, Zenon DEF Arrives, Underway
<1>2. CASE GetItem
  BY <1>2, TakeMoves, Zenon DEF Stays, Underway
<1>3. CASE WriteFrame
  <2>1. /\ writer = "writing" /\ InHand' = {} /\ Queued' = Queued
        /\ UNCHANGED <<captured, dropped>>
        /\ \/ /\ Stored' = Stored \cup {hand.number}
              /\ written' = written + 1 /\ errors' = errors
           \/ /\ Stored' = Stored
              /\ written' = written /\ errors' = errors + 1
    BY <1>3, WriteMoves
  <2>2. InHand = {hand.number} /\ \A x \in InHand : x \notin Queued
    BY <2>1, PlaceFacts
  <2>3. Underway' = Underway \ {hand.number}
    BY <2>1, <2>2, Zenon DEF Underway
  <2> QED
    BY <2>1, <2>3, Zenon DEF IsServed
<1>4. CASE PutSentinel
  <2>n. queue \in Seq(FrameSet \cup {Sentinel}) /\ Sentinel \in FrameSet \cup {Sentinel}
    BY Zenon DEF IInv, DataInv, Typed, PlacesTyped
  <2>1. UNCHANGED <<captured, dropped, writer, hand, fileVars>>
    BY <1>4, Zenon DEF PutSentinel, captureVars
  <2>2. queue' = queue \/ queue' = Append(queue, Sentinel)
    BY <1>4, Zenon DEF PutSentinel
  <2>3. /\ Len(Append(queue, Sentinel)) = Len(queue) + 1
        /\ \A i \in 1..Len(queue) : Append(queue, Sentinel)[i] = queue[i]
        /\ Append(queue, Sentinel)[Len(queue) + 1] = Sentinel
        /\ \A i \in 1..Len(queue) + 1 : i \in 1..Len(queue) \/ i = Len(queue) + 1
    BY <2>n, Appending
  <2>4. \A i \in 1..Len(queue) : i \in 1..Len(queue) + 1
    <3>1. Len(queue) \in Nat
      BY <2>n, SMT
    <3> QED
      BY <3>1, SMT
  <2>5. Queued' = Queued
    <3>1. CASE queue' = queue
      BY <3>1, Zenon DEF Queued, Waiting
    <3>2. CASE queue' = Append(queue, Sentinel)
      <4>1. \A i \in Waiting : i \in Waiting' /\ queue'[i] = queue[i]
        BY <2>3, <2>4, <3>2, Zenon DEF Waiting
      <4>2. \A i \in Waiting' : i \in Waiting /\ queue'[i] = queue[i]
        BY <2>3, <3>2, Zenon DEF Waiting
      <4> QED
        BY <4>1, <4>2, Zenon DEF Queued
    <3> QED
      BY <2>2, <3>1, <3>2
  <2> QED
    BY <2>1, <2>5, Zenon DEF Stays, Underway, InHand, Stored, fileVars
<1>5. CASE UNCHANGED <<captured, dropped, writer, hand, queue, written, errors, disk, overwritten>>
  BY <1>5, Zenon DEF Stays, Underway, Queued, Waiting, InHand, Stored
<1>6. CASE CloseAndEnd
  <2>1. /\ writer = "closing" /\ writer' = "ended"
        /\ UNCHANGED <<captured, dropped, queue, written, errors, disk, overwritten>>
    BY <1>6, Zenon DEF CloseAndEnd, captureVars
  <2>2. InHand = {} /\ InHand' = {}
    BY <2>1, Zenon DEF InHand
  <2> QED
    BY <2>1, <2>2, Zenon DEF Stays, Underway, Queued, Waiting, Stored
<1>7. CASE \/ CheckStop \/ TestRunning \/ CaptureNothing \/ SetMode
           \/ BeginShutdown \/ JoinCapture \/ StopCamera \/ JoinWriter \/ CloseLogs
           \/ SecondPasses \/ LiftOff \/ UNCHANGED vars
  <2>1. UNCHANGED <<captured, dropped, writer, hand, queue, written, errors, disk, overwritten>>
    BY <1>7, Zenon DEF CheckStop, TestRunning, CaptureNothing, SetMode, BeginShutdown,
       JoinCapture, StopCamera, JoinWriter, CloseLogs, SecondPasses, LiftOff, vars, captureVars, fileVars
  <2> QED
    BY <1>5, <2>1
<1> QED
  BY <1>1, <1>2, <1>3, <1>4, <1>6, <1>7, Zenon DEF Next, MainStep

(* What a new file empties was on the disk. *)
LEMMA OverwrittenWasStored ==
  ASSUME IInv, [Next]_vars
  PROVE  overwritten' \subseteq Stored
<1>1. \A n : LostBy(n) \subseteq Stored
  BY Zenon DEF LostBy, Stored
<1>2. overwritten \subseteq Stored
  BY Zenon DEF Stored
<1>3. overwritten' = overwritten \/ overwritten' = overwritten \cup LostBy(NameOf(hand))
  <2>1. CASE WriteFrame
    BY <2>1, Zenon DEF WriteFrame, WriteInto, WriteIntoNew, WriteFails,
       FailKeepingFile, FailToOpen, FailAfterOpening
  <2>2. CASE \/ CheckStop \/ TestRunning \/ CaptureFrame \/ CaptureNothing
             \/ GetItem \/ CloseAndEnd \/ SetMode \/ MainStep \/ SecondPasses \/ LiftOff \/ UNCHANGED vars
    BY <2>2, Zenon DEF CheckStop, TestRunning, CaptureFrame, CaptureNothing, GetItem,
       CloseAndEnd, SetMode, MainStep, BeginShutdown, JoinCapture, StopCamera, PutSentinel,
       JoinWriter, CloseLogs, SecondPasses, LiftOff, vars, fileVars
  <2> QED
    BY <2>1, <2>2, Zenon DEF Next
<1> QED
  BY <1>1, <1>2, <1>3, Zenon

(* The numbers up to the next. *)
LEMMA NextNumber ==
  ASSUME NEW n \in Nat
  PROVE  /\ 1..(n + 1) = (1..n) \cup {n + 1} /\ n + 1 \notin 1..n
         /\ \A x \in 1..n : x < n + 1
  BY SMT

(* The missing after each move. *)
LEMMA MissingAfter ==
  ASSUME IInv, StoredInOrder
  PROVE  /\ Arrives =>
              \/ /\ Underway' = Underway \cup {captured + 1} /\ Missing' = Missing
                 /\ UNCHANGED <<dropped, errors>>
              \/ /\ Underway' = Underway /\ Missing' = Missing \cup {captured + 1}
                 /\ captured + 1 \notin Missing
                 /\ dropped' = dropped + 1 /\ errors' = errors
         /\ IsServed =>
              \/ /\ Stored' = Stored \cup {hand.number} /\ Missing' = Missing
                 /\ UNCHANGED <<dropped, errors>>
              \/ /\ Stored' = Stored /\ Missing' = Missing \cup {hand.number}
                 /\ hand.number \notin Missing
                 /\ dropped' = dropped /\ errors' = errors + 1
         /\ Stays => Missing' = Missing
<1>n. /\ captured \in Nat
      /\ \A x \in Underway : x \in 1..captured
      /\ \A x \in Stored : x \in 1..captured
      /\ \A x \in Stored, y \in Underway : x < y
      /\ writer = "writing" => hand.number \in Underway
  BY PlaceFacts, Zenon
<1>m. /\ 1..(captured + 1) = (1..captured) \cup {captured + 1}
      /\ captured + 1 \notin 1..captured
  BY <1>n, NextNumber
<1>1. ASSUME Arrives
      PROVE  \/ /\ Underway' = Underway \cup {captured + 1} /\ Missing' = Missing
                /\ UNCHANGED <<dropped, errors>>
             \/ /\ Underway' = Underway /\ Missing' = Missing \cup {captured + 1}
                /\ captured + 1 \notin Missing
                /\ dropped' = dropped + 1 /\ errors' = errors
  <2>0. captured' = captured + 1 /\ Stored' = Stored /\ errors' = errors
    BY <1>1, Zenon DEF Arrives
  <2>1. CASE Underway' = Underway \cup {captured + 1} /\ dropped' = dropped
    <3>1. Missing' = Missing
      BY <1>m, <1>n, <2>0, <2>1, Zenon DEF Missing
    <3> QED
      BY <2>0, <2>1, <3>1
  <2>2. CASE Underway' = Underway /\ dropped' = dropped + 1
    <3>1. Missing' = Missing \cup {captured + 1} /\ captured + 1 \notin Missing
      BY <1>m, <1>n, <2>0, <2>2, Zenon DEF Missing
    <3> QED
      BY <2>0, <2>2, <3>1
  <2> QED
    BY <1>1, <2>1, <2>2, Zenon DEF Arrives
<1>2. ASSUME IsServed
      PROVE  \/ /\ Stored' = Stored \cup {hand.number} /\ Missing' = Missing
                /\ UNCHANGED <<dropped, errors>>
             \/ /\ Stored' = Stored /\ Missing' = Missing \cup {hand.number}
                /\ hand.number \notin Missing
                /\ dropped' = dropped /\ errors' = errors + 1
  <2>0. /\ captured' = captured /\ dropped' = dropped
        /\ Underway' = Underway \ {hand.number}
        /\ hand.number \in Underway
    BY <1>2, <1>n, Zenon DEF IsServed
  <2>1. CASE Stored' = Stored \cup {hand.number} /\ errors' = errors
    <3>1. Missing' = Missing
      BY <2>0, <2>1, Zenon DEF Missing
    <3> QED
      BY <2>0, <2>1, <3>1
  <2>2. CASE Stored' = Stored /\ errors' = errors + 1
    <3>1. hand.number \notin Stored
      <4>1. \A x \in 1..captured : ~(x < x)
        BY <1>n, SMT
      <4> QED
        BY <1>n, <2>0, <4>1, Zenon
    <3>2. Missing' = Missing \cup {hand.number} /\ hand.number \notin Missing
      BY <1>n, <2>0, <2>2, <3>1, Zenon DEF Missing
    <3> QED
      BY <2>0, <2>2, <3>2
  <2> QED
    BY <1>2, <2>1, <2>2, Zenon DEF IsServed
<1>3. Stays => Missing' = Missing
  BY Zenon DEF Stays, Missing
<1> QED
  BY <1>1, <1>2, <1>3

(* One more element counts one more. *)
LEMMA OneMore ==
  ASSUME NEW S, IsFiniteSet(S), NEW x, x \notin S
  PROVE  Cardinality(S \cup {x}) = Cardinality(S) + 1
  BY FS_AddElement, Zenon

(* Every step keeps the account. *)
LEMMA AccountKept == AccountInv /\ [Next]_vars => AccountInv'
<1> SUFFICES ASSUME AccountInv, [Next]_vars PROVE AccountInv'
  OBVIOUS
<1>0. IInv /\ StoredInOrder /\ Counted /\ IInv'
  BY StepKeeps DEF AccountInv
<1>1. Arrives \/ IsServed \/ Stays
  BY <1>0, StepMoves
<1>n. /\ captured \in Nat
      /\ \A x \in Underway : x \in 1..captured
      /\ \A x \in Stored : x \in 1..captured
      /\ \A x \in Stored, y \in Underway : x < y
      /\ writer = "writing" => hand.number \in Underway
  BY <1>0, PlaceFacts, Zenon
<1>f. /\ IsFiniteSet(Stored) /\ Cardinality(Stored) \in Nat
      /\ IsFiniteSet(Missing) /\ Cardinality(Missing) \in Nat
  BY <1>0, PlacesFinite
<1>2. StoredInOrder'
  <2>1. /\ captured' = captured \/ captured' = captured + 1
        /\ \A y \in Underway' : y \in Underway \/ y = captured + 1
    BY <1>1, Zenon DEF Arrives, IsServed, Stays
  <2>2. \A x \in 1..captured : x < captured + 1 /\ x <= captured + 1 /\ x <= captured
    BY <1>n, SMT
  <2>3. \A x \in Stored : /\ x <= captured'
                          /\ \A y \in Underway' : x < y
    BY <1>n, <2>1, <2>2, Zenon
  <2>4. overwritten' \subseteq Stored
    BY <1>0, OverwrittenWasStored
  <2> QED
    BY <2>3, <2>4, Zenon DEF StoredInOrder
<1>3. Cardinality(Stored') = written'
  <2>1. CASE Stored' = Stored /\ written' = written
    BY <1>0, <2>1, Zenon DEF Counted
  <2>2. CASE /\ writer = "writing"
             /\ Stored' = Stored \cup {hand.number} /\ written' = written + 1
    <3>1. hand.number \notin Stored
      <4>1. \A x \in 1..captured : ~(x < x)
        BY <1>n, SMT
      <4> QED
        BY <1>n, <2>2, <4>1, Zenon
    <3>2. Cardinality(Stored \cup {hand.number}) = Cardinality(Stored) + 1
      BY <1>f, <3>1, OneMore
    <3> QED
      BY <1>0, <2>2, <3>2, Zenon DEF Counted
  <2> QED
    BY <1>1, <2>1, <2>2, Zenon DEF Arrives, IsServed, Stays
<1>4. Cardinality(Missing') = dropped' + errors'
  <2>n. dropped \in Nat /\ errors \in Nat /\ Cardinality(Missing) = dropped + errors
    BY <1>0, Numbers, Zenon DEF IInv, DataInv, Counted
  <2>1. ASSUME NEW x, x \notin Missing, Missing' = Missing \cup {x}
        PROVE  Cardinality(Missing') = dropped + errors + 1
    <3>1. Cardinality(Missing \cup {x}) = Cardinality(Missing) + 1
      BY <1>f, <2>1, OneMore
    <3> QED
      BY <2>n, <2>1, <3>1, Zenon
  <2>2. CASE Missing' = Missing /\ dropped' = dropped /\ errors' = errors
    BY <2>n, <2>2, Zenon
  <2>3. CASE /\ Missing' = Missing \cup {captured + 1} /\ captured + 1 \notin Missing
             /\ dropped' = dropped + 1 /\ errors' = errors
    <3>1. Cardinality(Missing') = dropped + errors + 1
      BY <2>1, <2>3
    <3> QED
      BY <2>n, <2>3, <3>1, SMT
  <2>4. CASE /\ Missing' = Missing \cup {hand.number} /\ hand.number \notin Missing
             /\ dropped' = dropped /\ errors' = errors + 1
    <3>1. Cardinality(Missing') = dropped + errors + 1
      BY <2>1, <2>4
    <3> QED
      BY <2>n, <2>4, <3>1, SMT
  <2> QED
    <3>1. CASE Arrives
      BY <1>0, <2>2, <2>3, <3>1, MissingAfter, Zenon
    <3>2. CASE IsServed
      BY <1>0, <2>2, <2>4, <3>2, MissingAfter, Zenon
    <3>3. CASE Stays
      BY <1>0, <2>2, <3>3, MissingAfter, Zenon DEF Stays
    <3> QED
      BY <1>1, <3>1, <3>2, <3>3
<1> QED
  BY <1>0, <1>2, <1>3, <1>4 DEF AccountInv, Counted

LEMMA NothingIsUnderway ==
  ASSUME Init
  PROVE  Underway = {} /\ Stored = {} /\ Missing = {} /\ captured = 0
<1>1. 1..Len(queue) = {} /\ 1..captured = {}
  BY SMT DEF Init
<1>2. Waiting = {} /\ DOMAIN disk = {} /\ overwritten = {} /\ writer # "writing" /\ captured = 0
  BY <1>1, Zenon DEF Init, Waiting
<1>3. Underway = {} /\ Stored = {}
  BY <1>2, Zenon DEF Underway, Queued, InHand, Stored
<1> QED
  BY <1>1, <1>2, <1>3, Zenon DEF Missing

LEMMA AccountHolds == Spec => []AccountInv
<1>1. Init => AccountInv
  <2> SUFFICES ASSUME Init PROVE AccountInv
    OBVIOUS
  <2>1. Underway = {} /\ Stored = {} /\ Missing = {}
    BY NothingIsUnderway
  <2>2. overwritten = {} /\ written = 0 /\ dropped + errors = 0
    BY SMT DEF Init
  <2> QED
    BY <2>1, <2>2, InitHolds, FS_EmptySet, Zenon DEF AccountInv, StoredInOrder, Counted
<1> QED
  BY <1>1, AccountKept, PTL DEF Spec

-----------------------------------------------------------------------------
(* One sidecar describes every frame of its file: VideoWriter._write_frame *)
(* rotates before a frame that does not belong, whatever failed before.    *)
THEOREM FilesStayUniform == Spec => []FilesAreUniform
<1>1. IInv => FilesAreUniform
  BY TypesAsStated
<1> QED
  BY <1>1, InductiveInvariant, PTL

(* The shutdown of __main__.py ends capture before the writer.             *)
THEOREM QueueIsServed == Spec => []NobodyFeedsADeadQueue
<1>1. IInv => NobodyFeedsADeadQueue
  BY Zenon DEF IInv, StopsInOrder, NobodyFeedsADeadQueue
<1> QED
  BY <1>1, InductiveInvariant, PTL

(* No frame disappears between the camera and the disk without a counter   *)
(* that says so, in any order of the two threads and with any failure:     *)
(* VideoWriter.submit, _run and _write_frame.                              *)
THEOREM FramesStayAccounted == Spec => []FramesAccounted
<1>1. ASSUME AccountInv PROVE FramesAccounted
  <2>0. IInv /\ StoredInOrder /\ Counted
    BY <1>1 DEF AccountInv
  <2>1. /\ \A x \in Queued : x \in 1..captured
        /\ \A x \in InHand : x \in 1..captured /\ x \notin Queued
        /\ \A x \in Stored : x \in 1..captured /\ x \notin Queued /\ x \notin InHand
    BY <2>0, PlaceFacts, Zenon
  <2>2. /\ Underway \cup Stored \subseteq 1..captured
        /\ Queued \cap InHand = {} /\ Underway \cap Stored = {}
    BY <2>1, Zenon DEF Underway
  <2>3. ASSUME NEW i \in Waiting, NEW j \in Waiting, queue[i].number = queue[j].number
        PROVE  i = j
    <3>1. /\ i \in 1..Len(queue) /\ j \in 1..Len(queue)
          /\ queue[i].number \in Int /\ queue[j].number \in Int
      BY <2>0, Numbers, Zenon DEF IInv, DataInv
    <3>2. /\ i < j => queue[i].number < queue[j].number
          /\ j < i => queue[j].number < queue[i].number
      BY <2>0, Zenon DEF IInv, DataInv, InOrder, QueueInOrder
    <3>3. i \in Int /\ j \in Int
      <4>1. Len(queue) \in Nat
        BY <2>0, SMT DEF IInv, DataInv, Typed, PlacesTyped
      <4> QED
        BY <3>1, <4>1, SMT
    <3> QED
      BY <2>3, <3>1, <3>2, <3>3, SMT
  <2> QED
    BY <2>0, <2>2, <2>3, Zenon DEF FramesAccounted, Counted
<1> QED
  BY <1>1, AccountHolds, PTL

(* Queue, writer and files together are a lossy line in which no frame     *)
(* overtakes another: the decomposition of video_writer.py into a queue, a *)
(* thread and its files keeps the order and the account of FramePipeline.  *)
THEOREM PipelineRefinement == Spec => PipelineHolds
<1>1. Init => Pipeline!Init
  BY NothingIsUnderway DEF Pipeline!Init
<1>2. ASSUME AccountInv, [Next]_vars
      PROVE  [Pipeline!Arrive \/ Pipeline!Serve]_(Pipeline!pipelineVars)
  <2>0. IInv /\ StoredInOrder
    BY <1>2 DEF AccountInv
  <2>1. Arrives \/ IsServed \/ Stays
    BY <1>2, <2>0, StepMoves
  <2>2. CASE Arrives
    <3>1. captured' = captured + 1 /\ Stored' = Stored
      BY <2>2, Zenon DEF Arrives
    <3>2. \/ Underway' = Underway \cup {captured + 1} /\ Missing' = Missing
          \/ Underway' = Underway /\ Missing' = Missing \cup {captured + 1}
      BY <2>0, <2>2, MissingAfter, Zenon
    <3> QED
      BY <3>1, <3>2, Zenon DEF Pipeline!Arrive
  <2>3. CASE IsServed
    <3>1. /\ captured' = captured /\ Underway' = Underway \ {hand.number}
          /\ writer = "writing"
      BY <2>3, Zenon DEF IsServed
    <3>2. hand.number \in Underway /\ \A y \in Underway : hand.number <= y
      BY <2>0, <3>1, PlaceFacts
    <3>3. \/ Stored' = Stored \cup {hand.number} /\ Missing' = Missing
          \/ Stored' = Stored /\ Missing' = Missing \cup {hand.number}
      BY <2>0, <2>3, MissingAfter, Zenon
    <3> QED
      BY <3>1, <3>2, <3>3, Zenon DEF Pipeline!Serve
  <2>4. CASE Stays
    <3>1. Missing' = Missing
      BY <2>0, <2>4, MissingAfter, Zenon
    <3> QED
      BY <2>4, <3>1, Zenon DEF Stays, Pipeline!pipelineVars
  <2> QED
    BY <2>1, <2>2, <2>3, <2>4
<1> QED
  BY <1>1, <1>2, AccountHolds, PTL DEF Spec, PipelineHolds, Pipeline!Spec
=============================================================================
