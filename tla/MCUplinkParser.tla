--------------------------- MODULE MCUplinkParser ---------------------------
(***************************************************************************)
(* Byte streams for UplinkParser: up to Pieces pieces in a row, each a     *)
(* frame or some kind of damage.                                           *)
(***************************************************************************)
EXTENDS UplinkParser, SequencesExt

CONSTANT Pieces   \* bound: pieces in a stream

(* Stands for the CRC: it covers the identifier, the length and the        *)
(* payload, in order.                                                      *)
MCChecksum(bytes) ==
  LET total == FoldLeft(LAMBDA acc, b : (2 * acc + b + 1) % 64, 0, bytes)
  IN  <<total % 8, total \div 8>>

MCDuration(payload) == payload[2]

Whole(id, payload) ==
  LET body == <<id, Len(payload)>> \o payload
  IN  <<Sync0, Sync1>> \o body \o Checksum(body)

Damaged(frame) == [frame EXCEPT ![Len(frame)] = (@ + 1) % 8]

NoCommand == 6
Inner == Whole(Test, <<>>)

(* Requests; a HEAT whose payload looks like the sync pattern; HEATs with  *)
(* no end and with one too far off; a frame in the payload of another,     *)
(* sound and damaged; a header whose frame is cut short, or an accident    *)
(* before others; one with an implausible length; half a sync pattern.     *)
PieceSet == {
  Inner, Whole(Wipe, <<>>), Whole(Heat, <<Sync0, Sync1>>),
  Whole(Heat, <<1, 0>>), Whole(Heat, <<0, 4>>),
  Whole(NoCommand, Inner), Damaged(Whole(NoCommand, Inner)),
  <<Sync0, Sync1, Test, 6>>, <<Sync0, Sync1, Heat, 7>>, <<Sync0>> }

MCStreams == {FlattenSeq(s) : s \in UNION {[1..n -> PieceSet] : n \in 1..Pieces}}
=============================================================================
