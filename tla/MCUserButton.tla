---------------------------- MODULE MCUserButton ----------------------------
(***************************************************************************)
(* The user button for TLC: two programs, the second of them endless, and  *)
(* one press more than there are programs, so that a count can run past    *)
(* the last.                                                               *)
(***************************************************************************)
EXTENDS UserButton

EndlessPrograms == {2}
=============================================================================
