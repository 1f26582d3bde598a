------------------------------- MODULE MCVdr1 --------------------------------
(***************************************************************************)
(* Vdr1 for TLC: recordings whose names differ in the minute, or in the    *)
(* priority and lifetime only.                                             *)
(***************************************************************************)
EXTENDS Vdr1

CONSTANTS Film, Twin

TwoOfAMinute == [r \in {Film, Twin} |-> 2015]
OneMinute    == [r \in {Film} |-> 2015]
=============================================================================
