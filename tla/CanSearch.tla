------------------------------ MODULE CanSearch ------------------------------
(***************************************************************************)
(* The can search state machine of the robot, teensy/usb_rawhid/           *)
(* can_search.c, with the two contexts that run it on the microcontroller: *)
(*                                                                         *)
(*   - the main loop (example.c), which passes sensor and camera signals   *)
(*     to can_search_signal; the variable main says where it is in a call; *)
(*   - the timer 0 overflow interrupt, which runs can_search_tick to its   *)
(*     end between any two steps of the main loop, and calls               *)
(*     can_search_signal itself when a timer runs out.                     *)
(*                                                                         *)
(* Neither the transition nor the two byte stores that write a 16 bit      *)
(* timer are protected, so the interrupt sees them half done.  A step of   *)
(* the main loop below is the code between two places where an interrupt   *)
(* can tell the difference.                                                *)
(***************************************************************************)
EXTENDS Integers, SearchStates

CONSTANTS
    REVERSE_TIMEOUT, SEARCH_TIMEOUT, SCRAMBLE_TIMEOUT, DRIFTON_TIMEOUT,
    FAST_DRIFTON_TIMEOUT, DRIFTONHARD_TIMEOUT, DRIFTCENTER_TIMEOUT,
    Base,       \* the number of values of one byte of a timer: 256 in C
    ByteOrders  \* the orders in which the compiler may store a timer's bytes

ASSUME TimeoutsPositive ==
    /\ REVERSE_TIMEOUT \in Nat \ {0}
    /\ SEARCH_TIMEOUT \in Nat \ {0}
    /\ SCRAMBLE_TIMEOUT \in Nat \ {0}
    /\ DRIFTON_TIMEOUT \in Nat \ {0}
    /\ FAST_DRIFTON_TIMEOUT \in Nat \ {0}
    /\ DRIFTONHARD_TIMEOUT \in Nat \ {0}
    /\ DRIFTCENTER_TIMEOUT \in Nat \ {0}

ASSUME BaseAssumption == Base \in Nat \ {0}

ASSUME ByteOrdersAssumption == ByteOrders \subseteq {"high first", "low first"}

VARIABLES
    state,      \* g_current_state, one byte: read and written at once
    boom_back,  \* g_current_boom_back, touched by the main loop only
    timers,     \* the six g_..._time counters; negative when off
    drifton,    \* g_drifton_timeout, set by can_search_init
    motors,     \* for each motor register, the command that wrote it last
    searching,  \* teensy.program = PROGRAM_CAN_SEARCH: the interrupt ticks
    main,       \* what is left of the main loop's current call
    overtaken   \* history: see MotorsFollowState

vars == <<state, boom_back, timers, drifton, motors, searching, main, overtaken>>

-----------------------------------------------------------------------------
(***************************************************************************)
(* The handlers.  A handler is given a signal and its first parameter and  *)
(* answers with a job: what the caller has left to do.                     *)
(***************************************************************************)

Timers == {"reverse", "search", "scramble", "drifton", "driftonhard",
           "driftcenter"}
NoTimer == "none"

\* The motors' direction port and their two duty cycle registers.
Registers == {"PORTF", "OCR2A", "OCR2B"}

Commands == {"off", "forwards", "forwards_slow", "forwards_left_hardish",
             "forwards_left_hard", "forwards_right", "backwards",
             "spin_right", "spin_left", "can_pos", "can_pos_half", "other"}
NoCommand == "none"

Pcs == {"idle", "exit", "clear", "clear_rest", "set", "entry",
        "arm", "arm_rest", "PORTF", "OCR2A", "OCR2B"}

NoOrder == "none"

\* The fields of a job: its next step, the state a transition goes to, the
\* timer and the motor command still to be written, and the byte order of a
\* timer half written.
Job == [pc : Pcs, target : States \cup {NoState},
        timer : Timers \cup {NoTimer}, command : Commands \cup {NoCommand},
        order : ByteOrders \cup {NoOrder}]

\* Nothing to do: the signal is not handled, or the call is over.
Idle == [pc |-> "idle", target |-> NoState, timer |-> NoTimer,
         command |-> NoCommand, order |-> NoOrder]

\* transition(s): signal SIG_EXIT, set the state, signal SIG_ENTRY.
GoTo(s) == [Idle EXCEPT !.pc = "exit", !.target = s]

\* Write the motor registers; then, for a timer, set it to 0.
Drive(c) == [Idle EXCEPT !.pc = "PORTF", !.command = c]
DriveThenArm(c, t) == [Drive(c) EXCEPT !.timer = t]

\* Set a timer to 0, then write the motor registers.
ArmThenDrive(t, c) == [Idle EXCEPT !.pc = "arm", !.timer = t, !.command = c]

\* Set g_search_time to -1.
Disarm(t) == [Idle EXCEPT !.pc = "clear", !.timer = t]

\* For SIG_CAN_SPOTTED, p says that the can is near and in front of the
\* robot; for every other signal it is (int)p1, the state of the sensor.
SearchWall(sig, p) ==
    CASE sig = "SIG_ENTRY"             -> DriveThenArm("forwards_right", "search")
      [] sig = "SIG_EXIT"              -> Disarm("search")
      [] sig = "SIG_CAN_SPOTTED" /\ p  -> GoTo("ST_PUSH")
      [] sig = "SIG_CAN_SPOTTED" /\ ~p ->
            DriveThenArm(IF boom_back THEN "can_pos_half" ELSE "can_pos", "search")
      [] sig \in FrontSensors /\ p     -> GoTo("ST_REVERSE")
      [] sig = "SIG_BOOM_FRONT" /\ p   -> GoTo("ST_DRIFT_OFF_WALL")
      [] sig = "SIG_BOOM_BACK" /\ p    -> GoTo("ST_SPIN_OFF_WALL")
      [] sig = "SIG_SEARCH_TIMEOUT"    -> GoTo("ST_SEARCH_SCRAMBLE")
      [] OTHER                         -> Idle

DriftOffWall(sig, p) ==
    CASE sig = "SIG_ENTRY"            -> Drive("forwards_right")
      [] sig = "SIG_CAN_SPOTTED"      -> GoTo("ST_SEARCH_WALL")
      [] sig \in FrontSensors /\ p    -> GoTo("ST_REVERSE")
      [] sig = "SIG_BOOM_FRONT" /\ ~p -> GoTo("ST_DRIFT_TO_CENTER")
      [] sig = "SIG_BOOM_BACK" /\ p   -> GoTo("ST_SPIN_OFF_WALL")
      [] OTHER                        -> Idle

DriftToCenter(sig, p) ==
    CASE sig = "SIG_ENTRY"                -> ArmThenDrive("driftcenter", "forwards_right")
      [] sig = "SIG_CAN_SPOTTED"          -> GoTo("ST_SEARCH_WALL")
      [] sig \in FrontSensors /\ p        -> GoTo("ST_REVERSE")
      [] sig = "SIG_BOOM_FRONT" /\ p      -> GoTo("ST_DRIFT_OFF_WALL")
      [] sig = "SIG_BOOM_BACK" /\ p       -> GoTo("ST_SPIN_OFF_WALL")
      [] sig = "SIG_DRIFT_CENTER_TIMEOUT" -> GoTo("ST_DRIFT_ON_WALL")
      [] OTHER                            -> Idle

DriftOnWall(sig, p) ==
    CASE sig = "SIG_ENTRY"            -> ArmThenDrive("drifton", "forwards_left_hardish")
      [] sig = "SIG_CAN_SPOTTED"      -> GoTo("ST_SEARCH_WALL")
      [] sig \in FrontSensors /\ p    -> GoTo("ST_REVERSE")
      [] sig = "SIG_BOOM_FRONT" /\ p  -> GoTo("ST_DRIFT_OFF_WALL")
      [] sig = "SIG_BOOM_BACK" /\ p   -> GoTo("ST_SPIN_OFF_WALL")
      [] sig = "SIG_DRIFT_ON_TIMEOUT" -> GoTo("ST_DRIFT_ON_WALL_HARD")
      [] OTHER                        -> Idle

DriftOnWallHard(sig, p) ==
    CASE sig = "SIG_ENTRY"                 -> ArmThenDrive("driftonhard", "forwards_left_hard")
      [] sig = "SIG_CAN_SPOTTED"           -> GoTo("ST_SEARCH_WALL")
      [] sig \in FrontSensors /\ p         -> GoTo("ST_REVERSE")
      [] sig = "SIG_BOOM_FRONT" /\ p       -> GoTo("ST_DRIFT_OFF_WALL")
      [] sig = "SIG_BOOM_BACK" /\ p        -> GoTo("ST_SPIN_OFF_WALL")
      [] sig = "SIG_DRIFT_ON_HARD_TIMEOUT" -> GoTo("ST_SEARCH_WALL")
      [] OTHER                             -> Idle

SpinOffWall(sig, p) ==
    CASE sig = "SIG_ENTRY"            -> Drive("spin_right")
      [] sig \in FrontSensors /\ p    -> GoTo("ST_REVERSE")
      [] sig = "SIG_BOOM_FRONT" /\ ~p -> GoTo("ST_DRIFT_TO_CENTER")
      [] sig = "SIG_BOOM_BACK" /\ ~p  -> Drive("forwards_right")
      [] OTHER                        -> Idle

Push(sig, p) ==
    CASE sig = "SIG_ENTRY"            -> Drive("forwards")
      [] sig \in Booms /\ p           -> Drive("forwards_slow")
      [] sig = "SIG_FRONT_LEFT" /\ p  -> GoTo("ST_PUSH_RIGHT")
      [] sig = "SIG_FRONT_RIGHT" /\ p -> GoTo("ST_PUSH_LEFT")
      [] OTHER                        -> Idle

PushLeft(sig, p) ==
    CASE sig = "SIG_ENTRY"           -> Drive("spin_right")
      [] sig = "SIG_FRONT_RIGHT"     -> Drive(IF p THEN "spin_right" ELSE "forwards")
      [] sig = "SIG_FRONT_LEFT" /\ p -> GoTo("ST_REVERSE")
      [] OTHER                       -> Idle

PushRight(sig, p) ==
    CASE sig = "SIG_ENTRY"            -> Drive("spin_left")
      [] sig = "SIG_FRONT_LEFT"       -> Drive(IF p THEN "spin_left" ELSE "forwards")
      [] sig = "SIG_FRONT_RIGHT" /\ p -> GoTo("ST_REVERSE")
      [] OTHER                        -> Idle

Reverse(sig, p) ==
    CASE sig = "SIG_ENTRY"           -> ArmThenDrive("reverse", "backwards")
      [] sig = "SIG_REVERSE_TIMEOUT" -> GoTo("ST_DRIFT_ON_WALL")
      [] sig \in BackSensors /\ p    -> GoTo("ST_DRIFT_ON_WALL")
      [] OTHER                       -> Idle

\* A slip: a can seen while spinning is pushed at once.
BugSearchScramble(sig, p) ==
    CASE sig = "SIG_ENTRY"            -> ArmThenDrive("scramble", "spin_right")
      [] sig = "SIG_SCRAMBLE_TIMEOUT" -> GoTo("ST_SEARCH_WALL")
      [] sig = "SIG_CAN_SPOTTED"      -> GoTo("ST_PUSH")
      [] OTHER                        -> Idle

SearchScramble(sig, p) ==
    CASE sig = "SIG_ENTRY"            -> ArmThenDrive("scramble", "spin_right")
      [] sig = "SIG_SCRAMBLE_TIMEOUT" -> GoTo("ST_SEARCH_WALL")
      [] sig = "SIG_CAN_SPOTTED"      -> GoTo("ST_SEARCH_WALL")
      [] OTHER                        -> Idle

\* The switch of can_search_signal.  The case of ST_INIT has no break and
\* runs the handler of ST_SEARCH_WALL.
Handle(s, sig, p) ==
    CASE s \in {"ST_INIT", "ST_SEARCH_WALL"} -> SearchWall(sig, p)
      [] s = "ST_DRIFT_OFF_WALL"     -> DriftOffWall(sig, p)
      [] s = "ST_DRIFT_TO_CENTER"    -> DriftToCenter(sig, p)
      [] s = "ST_SPIN_OFF_WALL"      -> SpinOffWall(sig, p)
      [] s = "ST_DRIFT_ON_WALL"      -> DriftOnWall(sig, p)
      [] s = "ST_DRIFT_ON_WALL_HARD" -> DriftOnWallHard(sig, p)
      [] s = "ST_PUSH"               -> Push(sig, p)
      [] s = "ST_PUSH_LEFT"          -> PushLeft(sig, p)
      [] s = "ST_PUSH_RIGHT"         -> PushRight(sig, p)
      [] s = "ST_REVERSE"            -> Reverse(sig, p)
      [] s = "ST_SEARCH_SCRAMBLE"    -> SearchScramble(sig, p)

-----------------------------------------------------------------------------
(***************************************************************************)
(* can_search_tick, run by the interrupt: six stages, each a counter and   *)
(* the call made when it runs out.  No step of the main loop falls inside  *)
(* it, so it is one function of the state machine's variables.             *)
(***************************************************************************)

\* A slip: the signals of two timers are exchanged.
BugTimeoutSignal ==
    [reverse |-> "SIG_REVERSE_TIMEOUT", search |-> "SIG_SCRAMBLE_TIMEOUT",
     scramble |-> "SIG_SEARCH_TIMEOUT", drifton |-> "SIG_DRIFT_ON_TIMEOUT",
     driftonhard |-> "SIG_DRIFT_ON_HARD_TIMEOUT",
     driftcenter |-> "SIG_DRIFT_CENTER_TIMEOUT"]

TimeoutSignal ==
    [reverse |-> "SIG_REVERSE_TIMEOUT", search |-> "SIG_SEARCH_TIMEOUT",
     scramble |-> "SIG_SCRAMBLE_TIMEOUT", drifton |-> "SIG_DRIFT_ON_TIMEOUT",
     driftonhard |-> "SIG_DRIFT_ON_HARD_TIMEOUT",
     driftcenter |-> "SIG_DRIFT_CENTER_TIMEOUT"]

Limit ==
    [reverse |-> REVERSE_TIMEOUT, search |-> SEARCH_TIMEOUT,
     scramble |-> SCRAMBLE_TIMEOUT, drifton |-> drifton,
     driftonhard |-> DRIFTONHARD_TIMEOUT, driftcenter |-> DRIFTCENTER_TIMEOUT]

SetTimer(c, t, v) == [c EXCEPT !.timers = [@ EXCEPT ![t] = v]]

AllRegisters(command) == [r \in Registers |-> command]

\* The SIG_EXIT of a transition made by the interrupt, on the variables c.
Leave(c) ==
    IF Handle(c.state, "SIG_EXIT", FALSE).pc = "clear"
    THEN SetTimer(c, "search", -1) ELSE c

\* The rest of the transition: the new state and its SIG_ENTRY.
Enter(c, s) ==
    LET job == Handle(s, "SIG_ENTRY", FALSE)
        d == [c EXCEPT !.state = s, !.motors = AllRegisters(job.command)]
    IN  IF job.timer = NoTimer THEN d ELSE SetTimer(d, job.timer, 0)

\* A slip: SIG_EXIT after SIG_ENTRY.
BugTimeOut(c, t) ==
    LET job == Handle(c.state, TimeoutSignal[t], FALSE)
    IN  IF job.pc = "exit" THEN Leave(Enter(c, job.target)) ELSE c

\* can_search_signal called by the interrupt: a timeout either is ignored
\* or makes a transition.
TimeOut(c, t) ==
    LET job == Handle(c.state, TimeoutSignal[t], FALSE)
    IN  IF job.pc = "exit" THEN Enter(Leave(c), job.target) ELSE c

\* A slip: a timer at 0 is taken for one that is off.
BugStage(c, t) ==
    IF c.timers[t] <= 0 THEN c
    ELSE IF c.timers[t] + 1 <= Limit[t]
         THEN SetTimer(c, t, c.timers[t] + 1)
         ELSE SetTimer(TimeOut(SetTimer(c, t, c.timers[t] + 1), t), t, -1)

\* The counter is turned off after the signal, not before it.
Stage(c, t) ==
    IF c.timers[t] < 0 THEN c
    ELSE IF c.timers[t] + 1 <= Limit[t]
         THEN SetTimer(c, t, c.timers[t] + 1)
         ELSE SetTimer(TimeOut(SetTimer(c, t, c.timers[t] + 1), t), t, -1)

\* The stages in the order of the code, from the variables as the interrupt
\* finds them to the one outcome it leaves.
Then(outcomes, t) == {Stage(c, t) : c \in outcomes}

Found == [state |-> state, timers |-> timers, motors |-> motors]

TickOutcomes ==
    Then(Then(Then(Then(Then(Then({Found},
        "reverse"), "search"), "scramble"), "drifton"), "driftonhard"), "driftcenter")

\* The history variable overtaken notes a change of state inside a call of
\* the main loop.
Tick ==
    /\ searching
    /\ \E c \in TickOutcomes :
         /\ state' = c.state
         /\ timers' = c.timers
         /\ motors' = c.motors
    /\ overtaken' = IF state' = state THEN overtaken ELSE main.pc # "idle"
    /\ UNCHANGED <<boom_back, drifton, searching, main>>

-----------------------------------------------------------------------------
(***************************************************************************)
(* The main loop.                                                          *)
(***************************************************************************)

\* A slip: the back boom is latched and nothing more is done.
BugSignal(sig, p) ==
    /\ main = Idle
    /\ searching
    /\ boom_back' = IF sig = "SIG_BOOM_BACK" THEN p ELSE boom_back
    /\ main' = IF sig = "SIG_BOOM_BACK" THEN Idle ELSE Handle(state, sig, p)
    /\ UNCHANGED <<state, timers, drifton, motors, searching, overtaken>>

\* A signal of a sensor or of the camera: the back boom is latched, the
\* current state read, its handler entered.  The handler tests its
\* parameters only, so nothing the interrupt does changes what it goes for.
Signal(sig, p) ==
    /\ main = Idle
    /\ searching
    /\ boom_back' = IF sig = "SIG_BOOM_BACK" THEN p ELSE boom_back
    /\ main' = Handle(state, sig, p)
    /\ UNCHANGED <<state, timers, drifton, motors, searching, overtaken>>

\* transition's first call: SIG_EXIT to the handler of the state as it is now.
SignalExit ==
    /\ main.pc = "exit"
    /\ main' = IF Handle(state, "SIG_EXIT", FALSE).pc = "clear"
               THEN [main EXCEPT !.pc = "clear", !.timer = "search"]
               ELSE [main EXCEPT !.pc = "set"]
    /\ UNCHANGED <<state, boom_back, timers, drifton, motors, searching, overtaken>>

SetState ==
    /\ main.pc = "set"
    /\ state' = main.target
    /\ main' = [Idle EXCEPT !.pc = "entry"]
    /\ overtaken' = FALSE
    /\ UNCHANGED <<boom_back, timers, drifton, motors, searching>>

\* transition's last call: SIG_ENTRY, again to the handler of the state as it is.
SignalEntry ==
    /\ main.pc = "entry"
    /\ main' = Handle(state, "SIG_ENTRY", FALSE)
    /\ UNCHANGED <<state, boom_back, timers, drifton, motors, searching, overtaken>>

\* Storing one byte of v over the value old of a two byte, signed integer.
StoreByte(byte, old, v) ==
    IF byte = "high" THEN ((v \div Base) * Base) + (old % Base)
                     ELSE ((old \div Base) * Base) + (v % Base)

FirstByte(order) == IF order = "high first" THEN "high" ELSE "low"
SecondByte(order) == IF order = "high first" THEN "low" ELSE "high"

\* A timer is written as two bytes, in the order the compiler chose.
WriteFirst(pc, v, nextPc) ==
    /\ main.pc = pc
    /\ \E order \in ByteOrders :
         /\ timers' = [timers EXCEPT ![main.timer] =
                          StoreByte(FirstByte(order), @, v)]
         /\ main' = [main EXCEPT !.pc = nextPc, !.order = order]
    /\ UNCHANGED <<state, boom_back, drifton, motors, searching, overtaken>>

WriteSecond(pc, v) ==
    /\ main.pc = pc
    /\ timers' = [timers EXCEPT ![main.timer] =
                     StoreByte(SecondByte(main.order), @, v)]
    /\ UNCHANGED <<state, boom_back, drifton, motors, searching, overtaken>>

\* SIG_EXIT of search_wall: g_search_time = -1.
DisarmFirst == WriteFirst("clear", -1, "clear_rest")

DisarmSecond ==
    /\ WriteSecond("clear_rest", -1)
    /\ main' = [main EXCEPT !.pc = "set", !.timer = NoTimer, !.order = NoOrder]

\* A timer is set to 0: before the motors, except in search_wall.
ArmFirst == WriteFirst("arm", 0, "arm_rest")

\* A slip: search_wall drives the motors again, with a command never set.
BugArmSecond ==
    /\ WriteSecond("arm_rest", 0)
    /\ main' = Drive(main.command)

ArmSecond ==
    /\ WriteSecond("arm_rest", 0)
    /\ main' = IF main.command = NoCommand THEN Idle ELSE Drive(main.command)

\* motor_set_: the direction port, then the two duty cycles.
WriteRegister(r) ==
    /\ main.pc = r
    /\ motors' = [motors EXCEPT ![r] = main.command]
    /\ UNCHANGED <<state, boom_back, timers, drifton, searching, overtaken>>

WritePortF ==
    /\ WriteRegister("PORTF")
    /\ main' = [main EXCEPT !.pc = "OCR2A"]

WriteOcr2a ==
    /\ WriteRegister("OCR2A")
    /\ main' = [main EXCEPT !.pc = "OCR2B"]

\* A slip: the first duty cycle register is written twice.
BugWriteOcr2b ==
    /\ main.pc = "OCR2B"
    /\ motors' = [motors EXCEPT !["OCR2A"] = main.command]
    /\ main' = IF main.timer = NoTimer THEN Idle
               ELSE [Idle EXCEPT !.pc = "arm", !.timer = main.timer]
    /\ UNCHANGED <<state, boom_back, timers, drifton, searching, overtaken>>

WriteOcr2b ==
    /\ WriteRegister("OCR2B")
    /\ main' = IF main.timer = NoTimer THEN Idle
               ELSE [Idle EXCEPT !.pc = "arm", !.timer = main.timer]

MainStep ==
    \/ SignalExit
    \/ SetState
    \/ SignalEntry
    \/ DisarmFirst
    \/ DisarmSecond
    \/ ArmFirst
    \/ ArmSecond
    \/ WritePortF
    \/ WriteOcr2a
    \/ WriteOcr2b

\* can_search_init, for SM_PUSH or SM_SPIN, from PROGRAM_CAN_SEARCH_INIT_01
\* or _02.  The host wrote that program first, so no tick falls inside
\* it and it is one step: the state is ST_INIT when transition signals SIG_EXIT,
\* which the switch passes on to search_wall.
CanSearchInit(limit) ==
    LET d == Enter(Leave([Found EXCEPT !.state = "ST_INIT"]), "ST_PUSH")
    IN  /\ main = Idle
        /\ ~searching
        /\ drifton' = limit
        /\ state' = d.state
        /\ timers' = d.timers
        /\ motors' = d.motors
        /\ searching' = TRUE
        /\ overtaken' = FALSE
        /\ UNCHANGED <<boom_back, main>>

\* Registers written for the host, or for another program: the values are none
\* of the state machine's.
OtherMotors ==
    /\ main = Idle
    /\ main' = Drive("other")
    /\ overtaken' = TRUE
    /\ UNCHANGED <<state, boom_back, timers, drifton, motors>>

\* The host writes another program over PROGRAM_CAN_SEARCH.  After any write
\* node_post_write copies the tree's registers to the motors'.
StopSearch ==
    /\ OtherMotors
    /\ searching
    /\ searching' = FALSE

\* The host writes PROGRAM_CAN_SEARCH itself, which resumes a search.
ResumeSearch ==
    /\ OtherMotors
    /\ ~searching
    /\ state # "ST_INIT"
    /\ searching' = TRUE

\* The host calls SYM_MOTORSET or writes another node, or another program
\* drives the motors.
OtherMotorSet ==
    /\ OtherMotors
    /\ UNCHANGED searching

MainCall ==
    \/ \E sig \in MainSignals, p \in BOOLEAN : Signal(sig, p)
    \/ \E limit \in {DRIFTON_TIMEOUT, FAST_DRIFTON_TIMEOUT} : CanSearchInit(limit)
    \/ StopSearch
    \/ ResumeSearch
    \/ OtherMotorSet

-----------------------------------------------------------------------------
Init ==
    /\ state = "ST_INIT"
    /\ boom_back = FALSE
    /\ timers = [t \in Timers |-> -1]
    /\ drifton = DRIFTON_TIMEOUT
    /\ motors = AllRegisters("off")
    /\ searching = FALSE
    /\ main = Idle
    /\ overtaken = FALSE

Next == Tick \/ MainStep \/ MainCall

Spec == Init /\ [][Next]_vars

\* The interrupt keeps coming, and a call that has begun goes on.
Fairness == WF_vars(Tick) /\ WF_vars(MainStep)
-----------------------------------------------------------------------------
(***************************************************************************)
(* Properties.                                                             *)
(***************************************************************************)

\* The types of the variables: the state and the timers of can_search.c:6-31,
\* the registers of example.c:316-330, and the progress of the main loop.
TypeOK ==
    /\ state \in States
    /\ boom_back \in BOOLEAN
    /\ timers \in [Timers -> Int]
    /\ drifton \in Nat \ {0}
    /\ motors \in [Registers -> Commands]
    /\ searching \in BOOLEAN
    /\ main \in Job
    /\ overtaken \in BOOLEAN

\* The states whose handler leaves them when timer t runs out.
WaitsFor(s, t) ==
    /\ s # "ST_INIT"
    /\ Handle(s, TimeoutSignal[t], FALSE).pc = "exit"

Armed(s, tmr) == \A t \in Timers : WaitsFor(s, t) => tmr[t] >= 0

\* A state that is left by a timeout has that timer running whenever the main
\* loop is between two calls: whatever interrupt fell inside transition, and
\* whichever byte of a timer it found written, no call leaves the robot
\* driving in a state that can no longer time out (can_search.c:114-119,
\* 510-566).
TimeoutArmed == main.pc = "idle" => Armed(state, timers)

\* What a job has left to write, in each step of it.
JobShape(j) ==
    /\ j.pc = "idle" => j = Idle
    /\ j.pc \in {"exit", "clear", "clear_rest", "set"} => j.target \in States \ {"ST_INIT"}
    /\ j.pc \notin {"exit", "clear", "clear_rest", "set"} => j.target = NoState
    /\ j.pc \in {"exit", "set", "entry"} => j.timer = NoTimer
    /\ j.pc \in {"clear", "clear_rest"} => j.timer = "search"
    /\ j.pc \in {"arm", "arm_rest"} => j.timer \in Timers
    /\ j.pc \in Registers => j.command \in Commands
    /\ j.pc \in {"clear_rest", "arm_rest"} <=> j.order # NoOrder

\* A timeout the state waits for is running or is about to be: main holds the
\* timer, and the byte that makes it non-negative is still to be written.  From
\* a transition's SIG_EXIT to its SIG_ENTRY nothing is claimed.
ArmedOrPending ==
    main.pc \notin {"clear", "clear_rest", "set", "entry"} =>
        \A t \in Timers :
            WaitsFor(state, t) =>
                \/ timers[t] >= 0
                \/ main.timer = t /\ main.order # "high first"

\* The inductive invariant behind TimeoutArmed: what holds in the middle of a
\* call of the main loop, where the interrupt may find it (can_search.c:114-119).
SearchInv ==
    /\ TypeOK
    /\ JobShape(main)
    /\ searching => state # "ST_INIT"
    /\ ArmedOrPending

\* The motor commands each state's handler issues.
CommandsOf(s) ==
    CASE s = "ST_INIT"               -> {"off"}
      [] s = "ST_SEARCH_WALL"        -> {"forwards_right", "can_pos", "can_pos_half"}
      [] s = "ST_DRIFT_OFF_WALL"     -> {"forwards_right"}
      [] s = "ST_DRIFT_TO_CENTER"    -> {"forwards_right"}
      [] s = "ST_SPIN_OFF_WALL"      -> {"spin_right", "forwards_right"}
      [] s = "ST_DRIFT_ON_WALL"      -> {"forwards_left_hardish"}
      [] s = "ST_DRIFT_ON_WALL_HARD" -> {"forwards_left_hard"}
      [] s = "ST_PUSH"               -> {"forwards", "forwards_slow"}
      [] s = "ST_PUSH_LEFT"          -> {"spin_right", "forwards"}
      [] s = "ST_PUSH_RIGHT"         -> {"spin_left", "forwards"}
      [] s = "ST_REVERSE"            -> {"backwards"}
      [] s = "ST_SEARCH_SCRAMBLE"    -> {"spin_right"}

\* Between two calls the three motor registers hold one command, and it is one
\* of the current state's: a transition never leaves a wheel on a command of the
\* state it left (can_search.c:34-119, example.c:316-330).  The exception is
\* named by overtaken: an interrupt changed the state inside a call of the main
\* loop that had no transition still to come, or the host drove the motors.
MotorsFollowState ==
    main.pc = "idle" /\ ~overtaken =>
        \E c \in CommandsOf(state) : motors = AllRegisters(c)

\* The call in progress has a motor command still to write, or none of its own.
Driving ==
    main.pc \in Registers \/ (main.pc \in {"arm", "arm_rest"} /\ main.command # NoCommand)
MotorsDone ==
    main.pc = "idle" \/ (main.pc \in {"arm", "arm_rest"} /\ main.command = NoCommand)

\* The registers a call that drives the motors has written already.
Written ==
    {r \in Registers : \/ r = "PORTF" /\ main.pc \in {"OCR2A", "OCR2B"}
                       \/ r = "OCR2A" /\ main.pc = "OCR2B"}

\* The inductive invariant behind MotorsFollowState: in the middle of a call the
\* command still to be written is one of the current state's, and the registers
\* written so far hold it (example.c:316-330).
MotorsInv ==
    ~overtaken =>
        /\ MotorsDone => \E c \in CommandsOf(state) : motors = AllRegisters(c)
        /\ Driving => /\ main.command \in CommandsOf(state)
                      /\ \A r \in Written : motors[r] = main.command
        /\ main.pc = "entry" => state # "ST_INIT"

\* While the robot follows a can in ST_SEARCH_WALL and its back boom is over the
\* edge, it does so at half power only: the latch of g_current_boom_back
\* (can_search.c:464-465) and the test of it (145-148) agree over any number of
\* states in between that do not handle the boom.
HalfPowerOverEdge ==
    main.pc = "idle" /\ state = "ST_SEARCH_WALL" /\ boom_back =>
        \A r \in Registers : motors[r] # "can_pos"

\* The inductive invariant behind HalfPowerOverEdge: a call that found the back
\* boom over the edge does not write full power, and wherever full power is left
\* from before, the state is another one or a transition will overwrite it.
PowerInv ==
    boom_back =>
        /\ main.command # "can_pos"
        /\ MotorsDone /\ state = "ST_SEARCH_WALL" =>
               \A r \in Registers : motors[r] # "can_pos"
        /\ \A r \in Written : motors[r] # "can_pos"

\* The state machine follows the edges of its diagram: a signal decides an edge
\* out of the state its handler was entered in, the interrupt takes timeout
\* edges only and at most one in a tick (can_search.c:125-443, 510-566).
Diagram == INSTANCE SearchDiagram WITH decided <- main.target
FollowsDiagram == Diagram!Spec

\* Every state that waits for a timeout is left, or the search stopped, with no
\* help of a sensor (can_search.c:510-566).  ST_SEARCH_WALL is not among them:
\* a can in view restarts its timer (149).
TimedStatesEnd ==
    \A s \in {"ST_REVERSE", "ST_SEARCH_SCRAMBLE", "ST_DRIFT_ON_WALL",
             "ST_DRIFT_ON_WALL_HARD", "ST_DRIFT_TO_CENTER"} :
        (state = s /\ searching) ~> (state # s \/ ~searching)

\* ST_SEARCH_WALL is left, unless the camera keeps reporting a can that is
\* not near (can_search.c:138-151, 521-529).
SearchWallEnds ==
    \/ []<>(state # "ST_SEARCH_WALL" \/ ~searching)
    \/ []<><<Signal("SIG_CAN_SPOTTED", FALSE)>>_vars
=============================================================================
