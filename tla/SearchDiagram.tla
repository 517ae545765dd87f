---------------------------- MODULE SearchDiagram ----------------------------
(***************************************************************************)
(* What the can search state machine promises: the state diagram drawn in  *)
(* teensy/search_states.graphml, with the scramble states and edges that   *)
(* can_search.c added to it.  A signal decides an edge out of the state it *)
(* was received in; until the decision is carried out, timeouts may still  *)
(* move the machine along their own edges.                                 *)
(***************************************************************************)
EXTENDS SearchStates

VARIABLES
    state,      \* the state the robot is in
    decided     \* the state a received signal will take it to, or NoState

\* The states that follow the table's edge, one boom on and one off.
Drifting == {"ST_DRIFT_OFF_WALL", "ST_DRIFT_TO_CENTER", "ST_DRIFT_ON_WALL",
             "ST_DRIFT_ON_WALL_HARD"}

SignalEdges ==
    {<<"ST_SEARCH_WALL", "ST_PUSH">>,
     <<"ST_PUSH", "ST_PUSH_LEFT">>, <<"ST_PUSH", "ST_PUSH_RIGHT">>,
     <<"ST_PUSH_LEFT", "ST_REVERSE">>, <<"ST_PUSH_RIGHT", "ST_REVERSE">>,
     <<"ST_REVERSE", "ST_DRIFT_ON_WALL">>,
     <<"ST_SPIN_OFF_WALL", "ST_DRIFT_TO_CENTER">>,
     <<"ST_DRIFT_OFF_WALL", "ST_DRIFT_TO_CENTER">>,
     <<"ST_SEARCH_SCRAMBLE", "ST_SEARCH_WALL">>}
    \cup (Drifting \X {"ST_SEARCH_WALL"})
    \cup ((Drifting \cup {"ST_SEARCH_WALL", "ST_SPIN_OFF_WALL"}) \X {"ST_REVERSE"})
    \cup ((Drifting \cup {"ST_SEARCH_WALL"}) \X {"ST_SPIN_OFF_WALL"})
    \cup ({"ST_SEARCH_WALL", "ST_DRIFT_TO_CENTER", "ST_DRIFT_ON_WALL",
           "ST_DRIFT_ON_WALL_HARD"} \X {"ST_DRIFT_OFF_WALL"})

TimeoutEdges ==
    {<<"ST_REVERSE", "ST_DRIFT_ON_WALL">>,
     <<"ST_DRIFT_TO_CENTER", "ST_DRIFT_ON_WALL">>,
     <<"ST_DRIFT_ON_WALL", "ST_DRIFT_ON_WALL_HARD">>,
     <<"ST_DRIFT_ON_WALL_HARD", "ST_SEARCH_WALL">>,
     <<"ST_SEARCH_WALL", "ST_SEARCH_SCRAMBLE">>,
     <<"ST_SEARCH_SCRAMBLE", "ST_SEARCH_WALL">>}

Init ==
    /\ state = "ST_INIT"
    /\ decided = NoState

\* The search is started, or started anew.
Start ==
    /\ decided = NoState
    /\ state' = "ST_PUSH"
    /\ UNCHANGED decided

Decide ==
    /\ decided = NoState
    /\ \E edge \in SignalEdges : edge[1] = state /\ decided' = edge[2]
    /\ UNCHANGED state

CarryOut ==
    /\ decided # NoState
    /\ state' = decided
    /\ decided' = NoState

TimeOut ==
    /\ \E edge \in TimeoutEdges : edge[1] = state /\ state' = edge[2]
    /\ UNCHANGED decided

Next == Start \/ Decide \/ CarryOut \/ TimeOut

Spec == Init /\ [][Next]_<<state, decided>>
=============================================================================
