---------------------------- MODULE SearchStates ----------------------------
(***************************************************************************)
(* The names shared by the can search state machine and by its abstract    *)
(* specification: search_states_t and state_signals_t of can_search.h.     *)
(* ST_SUPER_SPIN is left out: no statement of can_search.c transitions to  *)
(* it.                                                                     *)
(***************************************************************************)

States == {"ST_INIT", "ST_SEARCH_WALL", "ST_DRIFT_OFF_WALL",
           "ST_DRIFT_TO_CENTER", "ST_SPIN_OFF_WALL", "ST_DRIFT_ON_WALL",
           "ST_DRIFT_ON_WALL_HARD", "ST_PUSH", "ST_PUSH_LEFT",
           "ST_PUSH_RIGHT", "ST_REVERSE", "ST_SEARCH_SCRAMBLE"}

NoState == "none"

\* The two front floor sensors, the two rear ones, and the two booms.
FrontSensors == {"SIG_FRONT_LEFT", "SIG_FRONT_RIGHT"}
BackSensors  == {"SIG_BACK_LEFT", "SIG_BACK_RIGHT"}
Booms        == {"SIG_BOOM_FRONT", "SIG_BOOM_BACK"}

\* What the main loop can pass to can_search_signal.
MainSignals == FrontSensors \cup BackSensors \cup Booms \cup {"SIG_CAN_SPOTTED"}

\* What only can_search_tick passes to it.
TimeoutSignals == {"SIG_SEARCH_TIMEOUT", "SIG_SCRAMBLE_TIMEOUT",
                   "SIG_REVERSE_TIMEOUT", "SIG_DRIFT_ON_TIMEOUT",
                   "SIG_DRIFT_ON_HARD_TIMEOUT", "SIG_DRIFT_CENTER_TIMEOUT"}
=============================================================================
