------------------------- MODULE MCControlTransfer -------------------------
(***************************************************************************)
(* Endpoint 0 for TLC: lengths below, at and above a packet, two packets,  *)
(* every descriptor and what eight bits hold.                              *)
(***************************************************************************)
EXTENDS ControlTransfer

MCwLengths == {0, 1, 8, 9, 18, 31, 32, 33, 41, 42, 63, 64, 65, 96, 255, 256, 400}
=============================================================================
