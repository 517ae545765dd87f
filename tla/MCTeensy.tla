------------------------------ MODULE MCTeensy ------------------------------
(***************************************************************************)
(* The Teensy's main program for TLC: bytes of four values, so that        *)
(* readings 3 = 0,3 and 12 = 3,0 are torn into 0 and 15; readings that a   *)
(* calibrated trigger lies between, above and below.                       *)
(***************************************************************************)
EXTENDS Teensy
=============================================================================
