---------------------------- MODULE FramePipeline ----------------------------
(***************************************************************************)
(* What the recording of frames promises, whatever the camera, the queue   *)
(* and the disk do: a line in which frames, numbered as they are captured, *)
(* wait their turn.  A frame may be lost where it would have to wait for   *)
(* room, and where it is written; none overtakes another, comes back,      *)
(* doubles or vanishes.                                                    *)
(***************************************************************************)
EXTENDS Integers

VARIABLES
  captured,    \* frames captured so far
  underway,    \* the numbers of those that wait or are being written
  stored,      \* of those written
  lost         \* of those given up, each of which is counted

pipelineVars == <<captured, underway, stored, lost>>

Init == captured = 0 /\ underway = {} /\ stored = {} /\ lost = {}

(* A frame joins the line, or is turned away. *)
Arrive ==
  /\ captured' = captured + 1
  /\ \/ underway' = underway \cup {captured + 1} /\ UNCHANGED lost
     \/ lost' = lost \cup {captured + 1} /\ UNCHANGED underway
  /\ UNCHANGED stored

(* The first of the line is written, or is lost in the attempt. *)
Serve ==
  \E n \in underway :
    /\ \A m \in underway : n <= m
    /\ underway' = underway \ {n}
    /\ \/ stored' = stored \cup {n} /\ UNCHANGED lost
       \/ lost' = lost \cup {n} /\ UNCHANGED stored
    /\ UNCHANGED captured

Spec == Init /\ [][Arrive \/ Serve]_pipelineVars
=============================================================================
