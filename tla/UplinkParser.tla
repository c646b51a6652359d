---------------------------- MODULE UplinkParser ----------------------------
(***************************************************************************)
(* The telecommand receiver of the ESP32 (uart_tcu.c).  Bytes come from    *)
(* the TCU in chunks of any size; every control cycle tops up a            *)
(* reassembly buffer, takes whole frames off its front, and remembers one  *)
(* request of each kind until the control loop takes it.                   *)
(*                                                                         *)
(* A frame is two sync bytes, an identifier, a length, the payload and two *)
(* checksum bytes.  The values of the bytes, the checksum and the reading  *)
(* of a duration are parameters: the sync pattern and a matching checksum  *)
(* may turn up by accident, inside payloads and in noise.                  *)
(***************************************************************************)
EXTENDS Integers, Sequences

CONSTANTS
  Byte,            \* the values of a byte
  Sync0, Sync1,    \* PROTO_SYNC0, PROTO_SYNC1
  Test, Wipe, Heat,   \* TC_ID_TEST, TC_ID_WIPE, TC_ID_HEAT
  MaxPayload,      \* TC_MAX_PAYLOAD
  HeatPayload,     \* bytes of a HEAT payload: the switch, then the duration
  MaxDuration,     \* the longest override the parser accepts
  Checksum(_),     \* the two bytes of crc16_ccitt
  Duration(_),     \* the seconds a HEAT payload asks for
  Streams          \* bound: the byte streams the ground and the noise produce

Overhead == 6      \* PROTO_OVERHEAD_BYTES
FrameMax == MaxPayload + Overhead
BufferSize == 2 * FrameMax

ASSUME UplinkAssumption ==
  /\ Byte \subseteq Nat
  /\ MaxPayload \in Nat /\ HeatPayload \in 1..MaxPayload /\ MaxDuration \in Nat \ {0}
  /\ \A n \in HeatPayload..MaxPayload : \A p \in [1..n -> Byte] : Duration(p) \in Nat
  /\ \A s \in Streams : s \in Seq(Byte)

VARIABLES
  stream,          \* every byte that will ever arrive
  taken,           \* how many of them the driver has handed over
  rxbuf,
  polling,         \* uart_tcu_poll has topped up and is in its loop
  test_pending, wipe_pending, heat_pending,
  heat_on, heat_duration,
  accepted,        \* history: the frames acted on, in order, and where they began
  test_seen, wipe_seen, heat_seen   \* history: frames accepted when each was last taken

inputVars == <<stream, taken>>
pendingVars == <<test_pending, wipe_pending, heat_pending, heat_on, heat_duration>>
seenVars == <<test_seen, wipe_seen, heat_seen>>
uplinkVars == <<inputVars, rxbuf, polling, pendingVars, accepted, seenVars>>

UplinkInit ==
  /\ stream \in Streams
  /\ taken = 0
  /\ rxbuf = <<>>
  /\ polling = FALSE
  /\ test_pending = FALSE /\ wipe_pending = FALSE /\ heat_pending = FALSE
  /\ heat_on = FALSE /\ heat_duration = 0
  /\ accepted = <<>>
  /\ test_seen = 0 /\ wipe_seen = 0 /\ heat_seen = 0

-----------------------------------------------------------------------------
(* Where the scan for the sync pattern stops, as the number of bytes it    *)
(* passes over: at the pattern, or at the last byte, which may be the      *)
(* first half of one.                                                      *)
SyncsAt(buf, i) == i < Len(buf) /\ buf[i] = Sync0 /\ buf[i + 1] = Sync1

(* A slip: the last byte is passed over unless it completes the pattern.   *)
ScanStopsAtTheEnd(buf, start) ==
  start >= Len(buf) \/ SyncsAt(buf, start + 1)

ScanStops(buf, start) ==
  start + 1 >= Len(buf) \/ SyncsAt(buf, start + 1)

IsScanned(buf, start) ==
  ScanStops(buf, start) /\ \A j \in 0..start - 1 : ~ScanStops(buf, j)

Skip(buf, n) == SubSeq(buf, n + 1, Len(buf))

(* try_consume_frame, on a buffer that begins with the pattern: a frame is *)
(* waited for, found to be none, or consumed.                              *)
Incomplete(buf) ==
  Len(buf) >= Overhead => buf[4] <= MaxPayload /\ Len(buf) < buf[4] + Overhead

Fits(buf) ==
  /\ buf[4] <= MaxPayload
  /\ Checksum(SubSeq(buf, 3, 4 + buf[4])) = SubSeq(buf, 5 + buf[4], 6 + buf[4])

Payload(buf) == SubSeq(buf, 5, 4 + buf[4])

(* An override without an end, or beyond the longest, is not a request.    *)
IsHeat(f) ==
  /\ f.id = Heat /\ Len(f.payload) >= HeatPayload
  /\ Duration(f.payload) > 0 /\ Duration(f.payload) <= MaxDuration

(* A slip: a frame replaces what was still pending.                        *)
ActOnAlone(f) ==
  /\ test_pending' = (f.id = Test)
  /\ wipe_pending' = (f.id = Wipe)
  /\ heat_pending' = IsHeat(f)
  /\ heat_on' = IF IsHeat(f) THEN f.payload[1] # 0 ELSE heat_on
  /\ heat_duration' = IF IsHeat(f) THEN Duration(f.payload) ELSE heat_duration

(* What a frame asks for is remembered, of several HEATs the last; one     *)
(* that asks for nothing known is passed over.                             *)
ActOn(f) ==
  /\ test_pending' = (test_pending \/ f.id = Test)
  /\ wipe_pending' = (wipe_pending \/ f.id = Wipe)
  /\ heat_pending' = (heat_pending \/ IsHeat(f))
  /\ heat_on' = IF IsHeat(f) THEN f.payload[1] # 0 ELSE heat_on
  /\ heat_duration' = IF IsHeat(f) THEN Duration(f.payload) ELSE heat_duration

-----------------------------------------------------------------------------
(* uart_tcu_poll: n of the bytes that have arrived top up the buffer ...   *)
TopUp(n) ==
  /\ ~polling
  /\ Len(rxbuf) + n <= BufferSize
  /\ taken' = taken + n
  /\ rxbuf' = rxbuf \o SubSeq(stream, taken + 1, taken + n)
  /\ polling' = TRUE
  /\ UNCHANGED <<stream, pendingVars, accepted, seenVars>>

(* ... and the loop takes one frame after another off its front, ...       *)
TakeFrame(start) ==
  LET buf == Skip(rxbuf, start)
      f == [at |-> taken - Len(buf) + 1, id |-> buf[3], payload |-> Payload(buf)]
  IN  /\ polling
      /\ IsScanned(rxbuf, start)
      /\ ~Incomplete(buf) /\ Fits(buf)
      /\ rxbuf' = Skip(buf, buf[4] + Overhead)
      /\ ActOn(f)
      /\ accepted' = Append(accepted, f)
      /\ UNCHANGED <<inputVars, polling, seenVars>>

(* ... drops the first byte of what only looks like one, ...               *)
Resync(start) ==
  LET buf == Skip(rxbuf, start)
  IN  /\ polling
      /\ IsScanned(rxbuf, start)
      /\ ~Incomplete(buf) /\ ~Fits(buf)
      /\ rxbuf' = Skip(buf, 1)
      /\ UNCHANGED <<inputVars, polling, pendingVars, accepted, seenVars>>

(* ... and ends when it must wait.  A buffer full of junk is dropped.      *)
EndPoll(start) ==
  LET buf == Skip(rxbuf, start)
  IN  /\ polling
      /\ IsScanned(rxbuf, start) /\ Incomplete(buf)
      /\ rxbuf' = IF Len(buf) >= BufferSize THEN <<>> ELSE buf
      /\ polling' = FALSE
      /\ UNCHANGED <<inputVars, pendingVars, accepted, seenVars>>

(* The control loop, which is the same task, takes the requests.           *)
TakeTestRequest ==
  /\ ~polling
  /\ test_pending
  /\ test_pending' = FALSE
  /\ test_seen' = Len(accepted)
  /\ UNCHANGED <<inputVars, rxbuf, polling, accepted, wipe_pending,
                 heat_pending, heat_on, heat_duration, wipe_seen, heat_seen>>

TakeHeatRequest ==
  /\ ~polling
  /\ heat_pending
  /\ heat_pending' = FALSE
  /\ heat_seen' = Len(accepted)
  /\ UNCHANGED <<inputVars, rxbuf, polling, accepted, test_pending,
                 wipe_pending, heat_on, heat_duration, test_seen, wipe_seen>>

(* Part of the interface, but nothing calls it.                            *)
TakeWipeRequest ==
  /\ ~polling
  /\ wipe_pending
  /\ wipe_pending' = FALSE
  /\ wipe_seen' = Len(accepted)
  /\ UNCHANGED <<inputVars, rxbuf, polling, accepted, test_pending,
                 heat_pending, heat_on, heat_duration, test_seen, heat_seen>>

UplinkNext ==
  \/ \E n \in 1..Len(stream) - taken : TopUp(n)
  \/ \E start \in 0..Len(rxbuf) : TakeFrame(start) \/ Resync(start) \/ EndPoll(start)
  \/ TakeTestRequest
  \/ TakeHeatRequest
  \/ TakeWipeRequest

UplinkSpec == UplinkInit /\ [][UplinkNext]_uplinkVars

-----------------------------------------------------------------------------
(* The buffer holds the latest bytes and never fills: what is kept from    *)
(* one poll to the next is less than one frame.                            *)
UplinkTypeOK ==
  /\ taken \in 0..Len(stream)
  /\ rxbuf \in Seq(Byte) /\ Len(rxbuf) <= BufferSize
  /\ polling \in BOOLEAN /\ (~polling => Len(rxbuf) < FrameMax)
  /\ test_pending \in BOOLEAN /\ wipe_pending \in BOOLEAN /\ heat_pending \in BOOLEAN
  /\ heat_on \in BOOLEAN /\ heat_duration \in 0..MaxDuration
  /\ test_seen \in 0..Len(accepted) /\ wipe_seen \in 0..Len(accepted)
  /\ heat_seen \in 0..Len(accepted)

(* The frames of the bytes received so far, whatever chunks they came in:  *)
(* at position i there is a sound frame, or the beginning of one whose end *)
(* has not arrived.                                                        *)
StartsAt(i) == i < taken /\ stream[i] = Sync0 /\ stream[i + 1] = Sync1
EndOf(i) == i + Overhead + stream[i + 3]
HasLengthAt(i) == i + 5 <= taken
WholeAt(i) == HasLengthAt(i) /\ EndOf(i) <= taken + 1
PlausibleAt(i) == stream[i + 3] <= MaxPayload

SoundAt(i) ==
  /\ StartsAt(i) /\ WholeAt(i) /\ PlausibleAt(i)
  /\ Checksum(SubSeq(stream, i + 2, i + 3 + stream[i + 3]))
       = SubSeq(stream, i + 4 + stream[i + 3], i + 5 + stream[i + 3])
CutShortAt(i) ==
  StartsAt(i) /\ ~WholeAt(i) /\ (HasLengthAt(i) => PlausibleAt(i))

FrameAt(i) ==
  [at |-> i, id |-> stream[i + 2], payload |-> SubSeq(stream, i + 4, i + 3 + stream[i + 3])]
Covered(i) ==
  \E k \in 1..Len(accepted) : accepted[k].at <= i /\ i < EndOf(accepted[k].at)

(* How the bytes are cut into chunks makes no difference: between polls,   *)
(* the frames acted on are the leftmost sound frames that do not overlap,  *)
(* up to the first one cut short.  Bytes that decide nothing else remain:  *)
(* reading the positions in order, each is inside an accepted frame, or    *)
(* begins none, or is where every reader has to wait.                      *)
ChunksMakeNoDifference ==
  /\ UplinkTypeOK
  /\ \A k \in 1..Len(accepted) :
       /\ accepted[k].at \in 1..taken /\ SoundAt(accepted[k].at)
       /\ accepted[k] = FrameAt(accepted[k].at)
       /\ \A l \in k + 1..Len(accepted) : EndOf(accepted[k].at) <= accepted[l].at
  /\ \A i \in 1..taken : ~Covered(i) =>
       /\ CutShortAt(i) => \A k \in 1..Len(accepted) : accepted[k].at < i
       /\ SoundAt(i) /\ ~polling => \E j \in 1..i - 1 : CutShortAt(j) /\ ~Covered(j)

(* A request is pending exactly when a frame asked for it since it was     *)
(* last taken, and a pending override is the last one asked for, with an   *)
(* end in sight.                                                           *)
RequestsMatchFrames ==
  LET Since(k) == k + 1..Len(accepted)
  IN  /\ test_pending <=> \E k \in Since(test_seen) : accepted[k].id = Test
      /\ wipe_pending <=> \E k \in Since(wipe_seen) : accepted[k].id = Wipe
      /\ heat_pending <=> \E k \in Since(heat_seen) : IsHeat(accepted[k])
      /\ heat_pending =>
           \E k \in Since(heat_seen) :
             /\ IsHeat(accepted[k]) /\ \A l \in Since(k) : ~IsHeat(accepted[l])
             /\ heat_on = (accepted[k].payload[1] # 0)
             /\ heat_duration = Duration(accepted[k].payload)
             /\ heat_duration \in 1..MaxDuration
=============================================================================
