------------------------------ MODULE Discretes ------------------------------
(***************************************************************************)
(* The debounce filter of the three REXUS discretes LO, SOE and SODS       *)
(* (components/links/rs422_interface.c).  A flag's filtered level follows  *)
(* the pin only after DebounceSamples consecutive samples that disagree    *)
(* with it; the filter is primed from the pins at boot.                    *)
(*                                                                         *)
(* This module holds the filter's state and its two operations.  The       *)
(* control loop (FlightControl) and its input side alone (InputPipeline)   *)
(* call them; the latter relates the filter to its specification.          *)
(***************************************************************************)
EXTENDS Naturals

CONSTANTS
  Flags,            (* the discretes that are wired, at least LO and SOE  *)
  DebounceSamples   (* DEBOUNCE_SAMPLES                                   *)

ASSUME FlagsAssumption == {"LO", "SOE"} \subseteq Flags
ASSUME DebounceAssumption == DebounceSamples \in Nat \ {0}

VARIABLES
  pin,      (* what each pin read at the latest sample, TRUE = asserted   *)
  level,    (* flags[i].level, the debounced level                        *)
  streak,   (* flags[i].streak, consecutive samples that disagree with it *)
  lo_ever   (* LO has been asserted since boot                            *)

discretesVars == <<pin, level, streak, lo_ever>>

RawLevels == [Flags -> BOOLEAN]

DiscretesTypeOK ==
  /\ pin \in RawLevels
  /\ level \in RawLevels
  /\ streak \in [Flags -> 0 .. DebounceSamples - 1]
  /\ lo_ever \in BOOLEAN

-----------------------------------------------------------------------------
(* Power-on values of the statics, before rs422_init has run. *)
DiscretesReset ==
  /\ pin = [f \in Flags |-> FALSE]
  /\ level = [f \in Flags |-> FALSE]
  /\ streak = [f \in Flags |-> 0]
  /\ lo_ever = FALSE

(* rs422_init: the levels start at what the pins read. *)
PrimeFilter(raw) ==
  /\ pin' = raw
  /\ level' = raw
  /\ streak' = [f \in Flags |-> 0]
  /\ lo_ever' = raw["LO"]

(* A slip in the test below: the level flips one sample late. *)
AcceptsLate(f, raw) ==
  /\ raw[f] # level[f]
  /\ streak[f] + 1 > DebounceSamples

(* The sample completes a streak long enough for the level to flip. *)
Accepts(f, raw) ==
  /\ raw[f] # level[f]
  /\ streak[f] + 1 >= DebounceSamples

(* rs422_sample: one sample of every pin. *)
SamplePins(raw) ==
  /\ pin' = raw
  /\ level' = [f \in Flags |-> IF Accepts(f, raw) THEN raw[f] ELSE level[f]]
  /\ streak' = [f \in Flags |->
                  IF raw[f] = level[f] \/ Accepts(f, raw) THEN 0
                                                          ELSE streak[f] + 1]
  /\ lo_ever' = (lo_ever \/ level'["LO"])
=============================================================================
