------------------------------- MODULE Teensy -------------------------------
(***************************************************************************)
(* The Teensy's main program: src/teensy/usb_rawhid/example.c. Its main    *)
(* loop takes a request from the host, copies the sensors' readings into   *)
(* the tree, and steps the current program: it calibrates the table        *)
(* sensors, reports their edges to the host, keeps the robot on the table, *)
(* or feeds the can search (CanSearch), one edge per pass.                 *)
(*                                                                         *)
(* The timer interrupt stores new readings, 16 bits each, while the loop   *)
(* copies them a byte at a time. An interrupt reads all channels; here a   *)
(* reading is one step, which is the same for the loop since the readings  *)
(* are arbitrary.                                                          *)
(*                                                                         *)
(* Numbers are scaled: the code's are AdcMax 1024, Hist 10, Rise 50, Base  *)
(* 256, Word 65536, FrontTime 10000, RearTime 30000.                       *)
(***************************************************************************)
EXTENDS Integers

CONSTANTS
    Analog,         \* the sensors read by the ADC: 0..3
    Booms,          \* the sensors read from a pin: 4 and 5
    Programs,       \* the programs the hosts start
    Samples,        \* the ADC's readings
    AdcMax,         \* ADC_MAX
    Hist,           \* ADC_HIST
    Rise,           \* how far above the trigger a reading must be
    Base, Word,     \* the values of a byte and of 16 bits
    FrontTime, RearTime,
    ByteOrders      \* which byte of a reading the compiler loads first

AllPrograms == {"NULL", "CALIBRATE", "REPORT", "REPORT_WITH_BEEP", "STAY_ON_TABLE",
                "SEARCH_INIT", "BOOTLOADER", "SEARCH"}
Sensors == Analog \cup Booms
Front == Analog \cap {0, 1}
Rear == Analog \cap {2}

ASSUME SensorAssumption ==
    /\ Analog \subseteq 0..3 /\ Booms \subseteq {4, 5} /\ Sensors # {}
    /\ Programs \subseteq AllPrograms \ {"SEARCH"} \* no host starts it but by SEARCH_INIT
    /\ ByteOrders \subseteq {"low first", "high first"}
High(v) == v \div Base
Low(v) == v % Base
Readings == {0} \cup Samples
Torn == {High(r) * Base + Low(s) : r, s \in Readings}

\* A torn reading stays in range since AdcMax is a multiple of Base.
ASSUME NumberAssumption ==
    /\ AdcMax \in Nat /\ Hist \in Nat /\ Rise \in Nat
    /\ Base \in Nat \ {0} /\ Word \in Nat
    /\ Readings \cup Torn \subseteq 0 .. (AdcMax - 1)
    /\ AdcMax + Rise < Word /\ AdcMax + Hist < Word
    /\ FrontTime \in Nat \ {0} /\ RearTime \in Nat \ {0}

VARIABLES
    adc,            \* teensy.adc.adc, by the sensor it is of
    pin,            \* the booms' bits of PINC
    sampling,       \* DIDR0 lets the interrupt read the ADC
    pc,             \* where the main loop is
    at,             \* the sensor it copies
    half,           \* the byte of its reading already loaded
    value,          \* teensy.sensors[].value; of a boom, 0 or 1
    trigger,        \* teensy.sensors[].trigger
    triggered,      \* teensy.sensors[].triggered
    program,        \* teensy.program
    motors,         \* who set the motors last, or how
    front, rear,    \* saw_table_edge_front, saw_table_edge_rear
    SOT_state,
    told,           \* history: the last signal of each sensor the search had since can_search_init
    before,         \* history: the sensors that were triggered then
    reported        \* history: the reading of each sensor last sent to the hosts since a calibration

copying == <<pc, at, half>>
levels == <<adc, pin>>
table == <<front, rear, SOT_state>>
history == <<told, before, reported>>
vars == <<levels, sampling, copying, value, trigger, triggered, program, motors, table, history>>

None == -1
First(S) == CHOOSE s \in S : \A r \in S : s <= r

-----------------------------------------------------------------------------
(***************************************************************************)
(* The world and the interrupt                                             *)
(***************************************************************************)

\* ISR(TIMER0_OVF_vect): adc_read has a new reading
Sample(i, v) ==
    /\ pc # "halted" /\ sampling
    /\ adc' = [adc EXCEPT ![i] = v]
    /\ UNCHANGED <<pin, sampling, copying, value, trigger, triggered, program, motors, table, history>>

BoomMoves(i) ==
    /\ pin' = [pin EXCEPT ![i] = ~@]
    /\ UNCHANGED <<adc, sampling, copying, value, trigger, triggered, program, motors, table, history>>

-----------------------------------------------------------------------------
(***************************************************************************)
(* The main loop: the host's request, then the copies of step_program      *)
(***************************************************************************)

StartCopy == pc' = "copy" /\ at' = First(Sensors) /\ half' = None

NoRequest ==
    /\ pc = "poll"
    /\ StartCopy
    /\ UNCHANGED <<levels, sampling, value, trigger, triggered, program, motors, table, history>>

\* A host writes the program; node_post_write copies the tree's registers,
\* which nobody has set, over DIDR0 and the motors'.
WriteProgram(p) ==
    /\ pc = "poll"
    /\ program' = p
    /\ sampling' = FALSE
    /\ motors' = "off"
    /\ StartCopy
    /\ UNCHANGED <<levels, value, trigger, triggered, table, history>>

\* function_called: SYM_MOTORSET, SYM_BEEP and SYM_GUIDANCE, whose signal
\* may set the motors
FunctionCalled(f) ==
    /\ pc = "poll"
    /\ motors' = CASE f = "MOTORSET" -> "host"
                   [] f = "GUIDANCE" /\ program = "SEARCH" -> "search"
                   [] OTHER -> motors
    /\ StartCopy
    /\ UNCHANGED <<levels, sampling, value, trigger, triggered, program, table, history>>

Later(i) == {s \in Sensors : s > i}
Copied(v) ==
    /\ value' = [value EXCEPT ![at] = v]
    /\ half' = None
    /\ at' = IF Later(at) = {} THEN at ELSE First(Later(at))
    /\ pc' = IF Later(at) = {} THEN "step" ELSE "copy"

LoadFirst(order) ==
    /\ pc = "copy" /\ at \in Analog
    /\ half' = IF order = "low first" THEN Low(adc[at]) ELSE High(adc[at])
    /\ pc' = order
    /\ UNCHANGED <<levels, sampling, at, value, trigger, triggered, program, motors, table, history>>

LoadSecond ==
    /\ pc \in ByteOrders
    /\ Copied(IF pc = "low first" THEN High(adc[at]) * Base + half ELSE half * Base + Low(adc[at]))
    /\ UNCHANGED <<levels, sampling, trigger, triggered, program, motors, table, history>>

CopyBoom ==
    /\ pc = "copy" /\ at \in Booms
    /\ Copied(IF pin[at] THEN 1 ELSE 0)
    /\ UNCHANGED <<levels, sampling, trigger, triggered, program, motors, table, history>>

-----------------------------------------------------------------------------
(***************************************************************************)
(* check_sensors and calibrate_sensors                                     *)
(***************************************************************************)

BugFalls(i) == value[i] < trigger[i] \* mutant: no hysteresis
Falls(i) == value[i] < (trigger[i] - Hist) % Word
BugRises(i) == value[i] > (trigger[i] + Hist + Rise) % Word \* mutant: the hysteresis twice
Rises(i) == value[i] > (trigger[i] + Rise) % Word

Changed(i) ==
    IF i \in Booms THEN triggered[i] # (value[i] = 1)
    ELSE IF triggered[i] THEN Falls(i) ELSE Rises(i)

Found == {i \in Sensors : Changed(i)}

BugFlip == \* mutant: every sensor's flag is set before the first is returned
    triggered' = [i \in Sensors |-> IF i \in Found THEN ~triggered[i] ELSE triggered[i]]
\* only the first sensor that changed is looked at in a pass
Flip == triggered' = [triggered EXCEPT ![First(Found)] = ~@]

\* TRIGGER_RATIO 0.75
BugTriggerFor(v) == v - (3 * (AdcMax - v)) \div 4 \* mutant: the wrong sign
TriggerFor(v) == v + (3 * (AdcMax - v)) \div 4

CalibrateSensors ==
    /\ trigger' = [i \in Analog |-> TriggerFor(value[i])]
    /\ reported' = [i \in Sensors |-> None]

-----------------------------------------------------------------------------
(***************************************************************************)
(* step_program, its registers set and its program's case                  *)
(***************************************************************************)

Step(p) ==
    /\ pc = "step" /\ program = p
    /\ pc' = "poll"
    /\ sampling' = TRUE
    /\ UNCHANGED <<levels, at, half, value>>

DoNothing ==
    /\ Step("NULL")
    /\ UNCHANGED <<trigger, triggered, program, motors, table, history>>

Calibrate ==
    /\ Step("CALIBRATE")
    /\ CalibrateSensors
    /\ program' = "NULL"
    /\ UNCHANGED <<triggered, motors, table, told, before>>

NothingFound ==
    /\ \E p \in {"REPORT", "REPORT_WITH_BEEP", "SEARCH"} : Step(p)
    /\ Found = {}
    /\ UNCHANGED <<trigger, triggered, program, motors, table, history>>

\* send_sensor_event, and a beep, which changes nothing here
Report ==
    /\ \E p \in {"REPORT", "REPORT_WITH_BEEP"} : Step(p)
    /\ Found # {}
    /\ Flip
    /\ reported' = [reported EXCEPT ![First(Found)] = value[First(Found)]]
    /\ UNCHANGED <<trigger, program, motors, table, told, before>>

\* can_search_signal, which may set the motors
SignalSearch ==
    /\ Step("SEARCH")
    /\ Found # {}
    /\ Flip
    /\ told' = [told EXCEPT ![First(Found)] = ~triggered[First(Found)]]
    /\ motors' = "search"
    /\ UNCHANGED <<trigger, program, table, before, reported>>

\* PROGRAM_CAN_SEARCH_INIT_01 and _02
InitSearch ==
    /\ Step("SEARCH_INIT")
    /\ CalibrateSensors
    /\ program' = "SEARCH"
    /\ told' = [i \in Sensors |-> FALSE]
    /\ before' = triggered
    /\ motors' = "search"
    /\ UNCHANGED <<triggered, table>>

Over(S) == \E i \in S : value[i] > trigger[i]
Boom(i) == i \in Booms /\ value[i] = 1
BugMotors(f, r) == IF f # 0 THEN "backwards" ELSE "drift" \* mutant: the rear edge is not looked at
\* what stay_on_table leaves PORTF, OCR2A and OCR2B at: r and f are its
\* counters before they are counted down
Motors(f, r) ==
    CASE r # 0 -> "stop"
      [] r = 0 /\ f # 0 -> "backwards"
      [] r = 0 /\ f = 0 /\ Boom(4) /\ Boom(5) -> "turn"
      [] r = 0 /\ f = 0 /\ Boom(4) /\ ~Boom(5) -> "drift"
      [] r = 0 /\ f = 0 /\ ~Boom(4) /\ SOT_state = "find" -> "drift"
      [] OTHER -> "corner"

BugCountDown(n) == n \* mutant: the counter is not counted down
CountDown(n) == IF n > 0 THEN n - 1 ELSE 0

\* stay_on_table
StayOnTable ==
    LET f == IF Over(Front) THEN FrontTime ELSE front
        r == IF Over(Rear) THEN RearTime ELSE rear
    IN /\ Step("STAY_ON_TABLE")
       /\ front' = CountDown(f)
       /\ rear' = CountDown(r)
       /\ SOT_state' = IF f # 0 THEN "find" ELSE IF Boom(4) THEN "found" ELSE SOT_state
       /\ motors' = Motors(f, r)
       /\ UNCHANGED <<trigger, triggered, program, history>>

\* cli, everything off, and a jump into the boot loader
Bootloader ==
    /\ pc = "step" /\ program = "BOOTLOADER"
    /\ pc' = "halted"
    /\ motors' = "off"
    /\ sampling' = TRUE
    /\ UNCHANGED <<levels, at, half, value, trigger, triggered, program, table, history>>

Init ==
    /\ adc = [i \in Analog |-> 0]
    /\ pin \in [Booms -> BOOLEAN]
    /\ sampling = FALSE
    /\ pc = "poll" /\ at = First(Sensors) /\ half = None
    /\ value = [i \in Sensors |-> 0]
    /\ trigger = [i \in Analog |-> 0]
    /\ triggered = [i \in Sensors |-> FALSE]
    /\ program = "NULL"
    /\ motors = "off"
    /\ front = 0 /\ rear = 0 /\ SOT_state = "find"
    /\ told = [i \in Sensors |-> FALSE]
    /\ before = [i \in Sensors |-> FALSE]
    /\ reported = [i \in Sensors |-> None]

StepProgram ==
    \/ DoNothing \/ Calibrate \/ NothingFound \/ Report \/ SignalSearch
    \/ InitSearch \/ StayOnTable \/ Bootloader

MainLoop ==
    \/ NoRequest
    \/ \E order \in ByteOrders : LoadFirst(order)
    \/ LoadSecond \/ CopyBoom \/ StepProgram

Interrupt == \E i \in Analog, v \in Samples : Sample(i, v)

Next ==
    \/ MainLoop \/ Interrupt
    \/ \E p \in Programs : WriteProgram(p)
    \/ \E f \in {"MOTORSET", "BEEP", "GUIDANCE"} : FunctionCalled(f)
    \/ \E i \in Booms : BoomMoves(i)

Spec == Init /\ [][Next]_vars

\* The loop runs for ever; a host's request is handled in it.
FairSpec == Spec /\ WF_vars(MainLoop)
-----------------------------------------------------------------------------
(***************************************************************************)
(* Properties                                                              *)
(***************************************************************************)

Forwards == {"turn", "drift", "corner"}

\* The variables have their types; a reading, torn or not, is below AdcMax
\* and the table program's counters stay within their times.
TypeOK ==
    /\ adc \in [Analog -> Readings]
    /\ pin \in [Booms -> BOOLEAN]
    /\ sampling \in BOOLEAN
    /\ pc \in {"poll", "copy", "step", "halted"} \cup ByteOrders
    /\ at \in Sensors
    /\ half \in {None} \cup {Low(r) : r \in Readings} \cup {High(r) : r \in Readings}
    /\ value \in [Sensors -> Torn \cup {0, 1}] /\ \A i \in Analog : value[i] \in Torn
    /\ trigger \in [Analog -> 0 .. AdcMax]
    /\ triggered \in [Sensors -> BOOLEAN]
    /\ program \in AllPrograms
    /\ motors \in Forwards \cup {"off", "host", "search", "stop", "backwards"}
    /\ front \in 0..FrontTime /\ rear \in 0..RearTime
    /\ SOT_state \in {"find", "found"}
    /\ told \in [Sensors -> BOOLEAN] /\ before \in [Sensors -> BOOLEAN]
    /\ reported \in [Sensors -> {None, 0, 1} \cup Torn]

\* While only the search takes edges from check_sensors, what it has been
\* told of a sensor since can_search_init is what the sensor's flag says,
\* although a pass reports one edge and the flags outlive can_search_init;
\* only a sensor already over its trigger then is not told before it falls.
SearchMissesNoEdge ==
    program = "SEARCH" =>
        \A i \in Sensors : told[i] = triggered[i] \/ (before[i] /\ triggered[i])

\* The report of i in this step, if there is one, and the one before it are of
\* readings more than Hist + Rise apart.
Apart(i) ==
    triggered'[i] # triggered[i] /\ reported[i] # None =>
        value[i] - reported[i] > Hist + Rise \/ reported[i] - value[i] > Hist + Rise
\* ADC_HIST is "hysteresis" (401): two reports of a sensor in a row, with no
\* calibration in between, are of readings far apart, so that a steady sensor
\* is not reported again and again. This is so of calibrated sensors: 403-409
\* leave them a trigger that check_sensors can subtract ADC_HIST from (427).
HysteresisCalibrated == [][\A i \in Analog : trigger[i] >= Hist => Apart(i)]_vars

\* The flag of a sensor agrees with what is over or under it now.
Right(i) ==
    IF i \in Booms THEN triggered[i] = pin[i]
    ELSE /\ adc[i] > trigger[i] + Rise => triggered[i]
         /\ adc[i] < trigger[i] - Hist => ~triggered[i]

\* From some time on, the sensors up to i do not change; the hosts only read.
Still(i) == <>[][\A j \in Sensors : j <= i =>
                    IF j \in Booms THEN pin'[j] = pin[j] ELSE adc'[j] = adc[j]]_vars
HostsOnlyRead == <>[][pc = "poll" => UNCHANGED <<program, sampling, motors>>]_vars

\* Once the sensors up to i stop changing, and a program that reports edges
\* goes on with sensors that have been calibrated, the report of i becomes
\* and stays right: a false edge of a torn reading (485-488) is taken back,
\* and the sensors looked at first do not starve the others (412-421).
TruthSettles ==
    \A i \in Sensors :
        /\ Still(i)
        /\ <>[](program \in {"REPORT", "SEARCH"} /\ \A a \in Analog : trigger[a] >= Hist)
        => <>[]Right(i)

\* Between two passes of the table program, the robot drives forwards only
\* when no table sensor was over the edge in the last pass and both times
\* have run out.
KeepsOffEdge ==
    program = "STAY_ON_TABLE" /\ pc = "poll" /\ motors \in Forwards =>
        ~Over(Front \cup Rear) /\ front = 0 /\ rear = 0

\* A robot that is left in the table program by the hosts, and whose table
\* sensors rest below the edge, drives forwards again in the end.
DrivesOn ==
    /\ HostsOnlyRead
    /\ \A i \in Front \cup Rear : Still(i)
    /\ <>[](program = "STAY_ON_TABLE" /\ ~\E i \in Front \cup Rear : adc[i] > trigger[i])
    => <>[](motors \in Forwards)
=============================================================================
