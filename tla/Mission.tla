------------------------------- MODULE Mission -------------------------------
(***************************************************************************)
(* What the flight software promises about the mission: the stages follow  *)
(* one another in one order, the syringe only starts in the experiment,    *)
(* with flight confirmed before SOE was seen, and one power-up or reset    *)
(* gives it one stroke.                                                    *)
(***************************************************************************)
VARIABLES
  stage,      (* startup, test, ground, flight or experiment *)
  syringe,    (* idle, moving or spent                       *)
  cleared     (* flight was confirmed and SOE came after it  *)

vars == <<stage, syringe, cleared>>

Stages == {"SU", "T", "NG", "NF", "NE"}

Follows == {<<"SU", "T">>, <<"SU", "NG">>, <<"T", "NG">>,
            <<"NG", "NF">>, <<"NF", "NE">>}

Init ==
  /\ stage = "SU"
  /\ syringe = "idle"
  /\ cleared = FALSE

(* Both signals are in. *)
Clear ==
  /\ cleared' = TRUE
  /\ UNCHANGED <<stage, syringe>>

Advance(next) ==
  /\ <<stage, next>> \in Follows
  /\ next = "NE" => cleared
  /\ stage' = next
  /\ UNCHANGED <<syringe, cleared>>

Start ==
  /\ stage = "NE" /\ cleared
  /\ syringe = "idle"
  /\ syringe' = "moving"
  /\ UNCHANGED <<stage, cleared>>

Finish ==
  /\ syringe = "moving"
  /\ syringe' = "spent"
  /\ UNCHANGED <<stage, cleared>>

Restart ==
  /\ stage' = "SU"
  /\ syringe' = "idle"
  /\ cleared' = FALSE

Next ==
  \/ Clear
  \/ \E next \in Stages : Advance(next)
  \/ Start
  \/ Finish
  \/ Restart

Spec == Init /\ [][Next]_vars
=============================================================================
