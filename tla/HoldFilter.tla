----------------------------- MODULE HoldFilter ------------------------------
(***************************************************************************)
(* What a debounce filter promises: an output takes a new value exactly    *)
(* when the last Hold inputs all had that value.                           *)
(***************************************************************************)
EXTENDS Naturals

CONSTANTS
  Lines,    (* the inputs                       *)
  Hold      (* how many of them must agree, > 0 *)

VARIABLES
  recent,   (* recent[l][i]: the i-th latest input of line l *)
  output    (* the filtered value of each line               *)

Inputs == [Lines -> BOOLEAN]

(* The window after one more input: the newest comes first. *)
Shifted(w, new) == [i \in 1 .. Hold |-> IF i = 1 THEN new ELSE w[i - 1]]

Unanimous(w, value) == \A i \in 1 .. Hold : w[i] = value

Init ==
  /\ output \in Inputs
  /\ recent = [l \in Lines |-> [i \in 1 .. Hold |-> output[l]]]

Feed(in) ==
  /\ recent' = [l \in Lines |-> Shifted(recent[l], in[l])]
  /\ output' = [l \in Lines |-> IF Unanimous(recent'[l], in[l]) THEN in[l]
                                                                ELSE output[l]]

Next == \E in \in Inputs : Feed(in)

Spec == Init /\ [][Next]_<<recent, output>>
=============================================================================
