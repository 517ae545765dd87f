---------------------------- MODULE TeensyProofs ----------------------------
(***************************************************************************)
(* Teensy, proved for any sensors, numbers and programs: the variables     *)
(* keep their types, the search is told every edge, calibrated sensors     *)
(* have hysteresis and the table program keeps off the edge.               *)
(***************************************************************************)
EXTENDS Teensy, TLAPS

\* The first of a non-empty set of sensors (413, 485-490) is one of them.
LEMMA FirstIsOne ==
    ASSUME NEW S, S \subseteq 0..5, S # {}
    PROVE  First(S) \in S
<1> SUFFICES \E s \in S : \A r \in S : s <= r
  BY DEF First
<1>1. CASE 0 \in S
  BY <1>1
<1>2. CASE 0 \notin S /\ 1 \in S
  BY <1>2
<1>3. CASE 0 \notin S /\ 1 \notin S /\ 2 \in S
  BY <1>3
<1>4. CASE 0 \notin S /\ 1 \notin S /\ 2 \notin S /\ 3 \in S
  BY <1>4
<1>5. CASE 0 \notin S /\ 1 \notin S /\ 2 \notin S /\ 3 \notin S /\ 4 \in S
  BY <1>5
<1>6. CASE \A n \in 0..4 : n \notin S
  <2>1. PICK s \in S : TRUE
    OBVIOUS
  <2>2. \A r \in S : r = 5
    BY <1>6
  <2> QED
    BY <2>1, <2>2
<1>7. (\A n \in 0..4 : n \notin S) \/ 0 \in S \/ 1 \in S \/ 2 \in S \/ 3 \in S \/ 4 \in S
  <2>1. \A n \in 0..4 : n = 0 \/ n = 1 \/ n = 2 \/ n = 3 \/ n = 4
    OBVIOUS
  <2> QED
    BY <2>1
<1> QED
  BY <1>1, <1>2, <1>3, <1>4, <1>5, <1>6, <1>7

LEMMA SensorsSmall == Sensors \subseteq 0..5 /\ First(Sensors) \in Sensors
<1>1. Analog \subseteq 0..3 /\ Booms \subseteq {4, 5} /\ Sensors # {}
  BY SensorAssumption DEF SensorAssumption
<1>2. Sensors \subseteq 0..5
  <2> SUFFICES ASSUME NEW i \in Sensors PROVE i \in 0..5
    OBVIOUS
  <2>1. CASE i \in Analog
    BY <1>1, <2>1
  <2>2. CASE i \in Booms
    BY <1>1, <2>2
  <2> QED
    BY <2>1, <2>2 DEF Sensors
<1> QED
  BY <1>1, <1>2, FirstIsOne

\* A trigger set by calibrate_sensors (403-409) is between the reading and ADC_MAX.
LEMMA TriggerInRange ==
    ASSUME NEW a \in Nat, NEW v \in 0..a
    PROVE  v + (3 * (a - v)) \div 4 \in 0..a
OBVIOUS

LEMMA TornInRange == Torn \subseteq Nat /\ \A v \in Torn : v < AdcMax
BY NumberAssumption DEF NumberAssumption

\* A byte is loaded from a reading of the sensor being copied (485-488).
HalfLoaded ==
    /\ pc \in ByteOrders => at \in Analog
    /\ pc = "low first" => half \in {Low(r) : r \in Readings}
    /\ pc = "high first" => half \in {High(r) : r \in Readings}

TypeInv == TypeOK /\ HalfLoaded

LEMMA Loads ==
    /\ 0 \in Torn /\ 0 \in Readings /\ Samples \subseteq Readings
    /\ \A r, s \in Readings : High(r) * Base + Low(s) \in Torn
<1>1. High(0) * Base + Low(0) = 0
  BY NumberAssumption DEF NumberAssumption, High, Low
<1> QED
  BY <1>1 DEF Torn, Readings

LEMMA Orders == ByteOrders \subseteq {"low first", "high first"} /\ Analog \subseteq Sensors /\ Booms \subseteq Sensors
BY SensorAssumption DEF SensorAssumption, Sensors

\* calibrate_sensors leaves every trigger in range (403-409).
LEMMA CalibrateTyped ==
    ASSUME TypeOK, CalibrateSensors
    PROVE  trigger' \in [Analog -> 0..AdcMax] /\ reported' \in [Sensors -> {None}]
<1>1. ASSUME NEW i \in Analog PROVE TriggerFor(value[i]) \in 0..AdcMax
  <2>1. value[i] \in 0..AdcMax
    BY TornInRange, NumberAssumption DEF NumberAssumption, TypeOK
  <2> QED
    BY <2>1, TriggerInRange, NumberAssumption DEF NumberAssumption, TriggerFor
<1> QED
  BY <1>1 DEF CalibrateSensors

LEMMA TypeInit == Init => TypeInv
<1> SUFFICES ASSUME Init PROVE TypeInv
  OBVIOUS
<1>1. HalfLoaded
  BY Orders DEF HalfLoaded, Init
<1>2. adc \in [Analog -> Readings] /\ pin \in [Booms -> BOOLEAN] /\ at \in Sensors
  BY Loads, SensorsSmall DEF Init
<1>3. value \in [Sensors -> Torn \cup {0, 1}] /\ \A i \in Analog : value[i] \in Torn
  BY Loads, Orders DEF Init
<1>4. trigger \in [Analog -> 0..AdcMax] /\ front \in 0..FrontTime /\ rear \in 0..RearTime
  BY NumberAssumption DEF NumberAssumption, Init
<1> QED
  BY <1>1, <1>2, <1>3, <1>4 DEF Init, TypeInv, TypeOK, AllPrograms

\* What a step of the copies leaves (485-490): a value of two bytes of its sensor.
LEMMA CopiedTyped ==
    ASSUME TypeOK, NEW v \in Torn \cup {0, 1}, at \in Analog => v \in Torn, Copied(v)
    PROVE  /\ value' \in [Sensors -> Torn \cup {0, 1}] /\ \A i \in Analog : value'[i] \in Torn
           /\ at' \in Sensors /\ half' = None /\ pc' \in {"step", "copy"}
<1>1. Later(at) \subseteq Sensors
  BY DEF Later
<1>2. Later(at) # {} => First(Later(at)) \in Later(at)
  BY <1>1, SensorsSmall, FirstIsOne
<1>3. at' \in Sensors /\ half' = None /\ pc' \in {"step", "copy"}
  BY <1>1, <1>2 DEF Copied, TypeOK
<1>4. value' = [value EXCEPT ![at] = v]
  BY DEF Copied
<1>5. value' \in [Sensors -> Torn \cup {0, 1}]
  BY <1>4 DEF TypeOK
<1>6. ASSUME NEW i \in Analog PROVE value'[i] \in Torn
  BY <1>4, Orders DEF TypeOK
<1> QED
  BY <1>3, <1>5, <1>6

LEMMA TypeNext == TypeInv /\ [Next]_vars => TypeInv'
<1> SUFFICES ASSUME TypeInv, [Next]_vars PROVE TypeInv'
  OBVIOUS
<1> USE DEF TypeInv
<1>1. ASSUME NEW i \in Analog, NEW v \in Samples, Sample(i, v) PROVE TypeInv'
  BY <1>1, Loads DEF Sample, TypeOK, HalfLoaded, levels, copying, table, history
<1>2. ASSUME NEW i \in Booms, BoomMoves(i) PROVE TypeInv'
  BY <1>2 DEF BoomMoves, TypeOK, HalfLoaded, levels, copying, table, history
<1>3. CASE NoRequest
  BY <1>3, SensorsSmall, Orders DEF NoRequest, StartCopy, TypeOK, HalfLoaded, levels, copying, table, history
<1>4. ASSUME NEW p \in Programs, WriteProgram(p) PROVE TypeInv'
  BY <1>4, SensorsSmall, Orders, SensorAssumption
  DEF SensorAssumption, WriteProgram, StartCopy, TypeOK, HalfLoaded, levels, copying, table, history
<1>5. ASSUME NEW f \in {"MOTORSET", "BEEP", "GUIDANCE"}, FunctionCalled(f) PROVE TypeInv'
  BY <1>5, SensorsSmall, Orders DEF FunctionCalled, StartCopy, TypeOK, HalfLoaded, levels, copying, table, history
<1>6. ASSUME NEW order \in ByteOrders, LoadFirst(order) PROVE TypeInv'
  <2>1. adc[at] \in Readings
    BY <1>6 DEF LoadFirst, TypeOK
  <2>2. half' \in {None} \cup {Low(r) : r \in Readings} \cup {High(r) : r \in Readings}
    BY <1>6, <2>1 DEF LoadFirst
  <2>3. HalfLoaded'
    BY <1>6, <2>1, Orders DEF LoadFirst, HalfLoaded
  <2> QED
    BY <1>6, <2>2, <2>3 DEF LoadFirst, TypeOK, levels, copying, table, history
<1>7. CASE LoadSecond
  <2> DEFINE v == IF pc = "low first" THEN High(adc[at]) * Base + half ELSE half * Base + Low(adc[at])
  <2>1. at \in Analog /\ adc[at] \in Readings /\ Copied(v)
    BY <1>7 DEF LoadSecond, HalfLoaded, TypeOK
  <2>2. v \in Torn
    BY <1>7, <2>1, Loads, Orders DEF LoadSecond, HalfLoaded
  <2>3. value' \in [Sensors -> Torn \cup {0, 1}] /\ (\A i \in Analog : value'[i] \in Torn)
        /\ at' \in Sensors /\ half' = None /\ pc' \in {"step", "copy"}
    BY <2>1, <2>2, CopiedTyped
  <2> QED
    BY <1>7, <2>3, Orders DEF LoadSecond, HalfLoaded, TypeOK, levels, copying, table, history
<1>8. CASE CopyBoom
  <2> DEFINE v == IF pin[at] THEN 1 ELSE 0
  <2>1. at \notin Analog /\ v \in Torn \cup {0, 1} /\ Copied(v)
    <3>1. Analog \subseteq 0..3 /\ Booms \subseteq {4, 5} /\ at \in Booms
      BY <1>8, SensorAssumption DEF SensorAssumption, CopyBoom
    <3> QED
      BY <1>8, <3>1 DEF CopyBoom
  <2>3. value' \in [Sensors -> Torn \cup {0, 1}] /\ (\A i \in Analog : value'[i] \in Torn)
        /\ at' \in Sensors /\ half' = None /\ pc' \in {"step", "copy"}
    BY <2>1, CopiedTyped
  <2> QED
    BY <1>8, <2>3, Orders DEF CopyBoom, HalfLoaded, TypeOK, levels, copying, table, history
<1>9. CASE StepProgram
  <2>1. HalfLoaded'
    BY <1>9, Orders DEF StepProgram, DoNothing, Calibrate, NothingFound, Report, SignalSearch, InitSearch,
      StayOnTable, Bootloader, Step, HalfLoaded
  <2>2. CASE DoNothing
    BY <2>1, <2>2 DEF DoNothing, Step, TypeOK, levels, copying, table, history
  <2>3. CASE Calibrate
    BY <2>1, <2>3, CalibrateTyped DEF Calibrate, Step, TypeOK, levels, copying, table, AllPrograms
  <2>4. CASE NothingFound
    BY <2>1, <2>4 DEF NothingFound, Step, TypeOK, levels, copying, table, history
  <2>5. CASE Report
    <3>1. Found # {} /\ Found \subseteq Sensors
      BY <2>5 DEF Report, Found
    <3>2. First(Found) \in Sensors
      BY <3>1, SensorsSmall, FirstIsOne
    <3>3. triggered' \in [Sensors -> BOOLEAN]
      BY <2>5, <3>2 DEF Report, Flip, TypeOK
    <3>4. reported' \in [Sensors -> {None, 0, 1} \cup Torn]
      BY <2>5, <3>2 DEF Report, TypeOK
    <3> QED
      BY <2>1, <2>5, <3>3, <3>4 DEF Report, Step, TypeOK, levels, copying, table
  <2>6. CASE SignalSearch
    <3>1. triggered' \in [Sensors -> BOOLEAN] /\ told' \in [Sensors -> BOOLEAN]
      BY <2>6 DEF SignalSearch, Flip, TypeOK
    <3> QED
      BY <2>1, <2>6, <3>1 DEF SignalSearch, Step, TypeOK, levels, copying, table
  <2>7. CASE InitSearch
    BY <2>1, <2>7, CalibrateTyped DEF InitSearch, Step, TypeOK, levels, copying, table, AllPrograms
  <2>8. CASE StayOnTable
    <3>1. PICK f \in 0..FrontTime, r \in 0..RearTime :
            front' = CountDown(f) /\ rear' = CountDown(r) /\ motors' = Motors(f, r)
            /\ SOT_state' = IF f # 0 THEN "find" ELSE IF Boom(4) THEN "found" ELSE SOT_state
      BY <2>8, NumberAssumption DEF NumberAssumption, StayOnTable, TypeOK
    <3>2. front' \in 0..FrontTime /\ rear' \in 0..RearTime
      BY <3>1, NumberAssumption DEF NumberAssumption, CountDown
    <3>3. motors' \in Forwards \cup {"off", "host", "search", "stop", "backwards"}
      BY <3>1 DEF Motors, Forwards
    <3>4. SOT_state' \in {"find", "found"}
      BY <3>1 DEF TypeOK
    <3> QED
      BY <2>1, <2>8, <3>2, <3>3, <3>4 DEF StayOnTable, Step, TypeOK, levels, copying, history
  <2>9. CASE Bootloader
    BY <2>1, <2>9 DEF Bootloader, TypeOK, levels, copying, table, history
  <2> QED
    BY <1>9, <2>2, <2>3, <2>4, <2>5, <2>6, <2>7, <2>8, <2>9 DEF StepProgram
<1>10. CASE UNCHANGED vars
  BY <1>10 DEF vars, TypeOK, HalfLoaded, levels, copying, table, history
<1> QED
  BY <1>1, <1>2, <1>3, <1>4, <1>5, <1>6, <1>7, <1>8, <1>9, <1>10 DEF Next, MainLoop, Interrupt

\* The variables keep their types, torn readings and counters included.
THEOREM TeensyTyped == Spec => []TypeOK
<1>1. Init => TypeInv
  BY TypeInit
<1>2. TypeInv /\ [Next]_vars => TypeInv'
  BY TypeNext
<1>3. TypeInv => TypeOK
  BY DEF TypeInv
<1> QED
  BY <1>1, <1>2, <1>3, PTL DEF Spec

LEMMA AlwaysTyped == Spec => []TypeInv
BY TypeInit, TypeNext, PTL DEF Spec

-----------------------------------------------------------------------------
LEMMA ToldNext == TypeOK /\ SearchMissesNoEdge /\ [Next]_vars => SearchMissesNoEdge'
<1> SUFFICES ASSUME TypeOK, SearchMissesNoEdge, [Next]_vars PROVE SearchMissesNoEdge'
  OBVIOUS
<1>1. CASE SignalSearch
  <2>1. ASSUME NEW i \in Sensors PROVE told'[i] = triggered'[i] \/ (before'[i] /\ triggered'[i])
    <3> DEFINE k == First(Found)
    <3>1. told' = [told EXCEPT ![k] = ~triggered[k]] /\ triggered' = [triggered EXCEPT ![k] = ~triggered[k]]
      BY <1>1 DEF SignalSearch, Flip
    <3>2. before' = before /\ program = "SEARCH"
      BY <1>1 DEF SignalSearch, Step
    <3>3. told[i] = triggered[i] \/ (before[i] /\ triggered[i])
      BY <3>2 DEF SearchMissesNoEdge
    <3>4. CASE i = k
      BY <3>1, <3>4 DEF TypeOK
    <3>5. CASE i # k
      BY <3>1, <3>2, <3>3, <3>5 DEF TypeOK
    <3> QED
      BY <3>4, <3>5
  <2> QED
    BY <2>1 DEF SearchMissesNoEdge
<1>2. CASE InitSearch
  <2>1. ASSUME NEW i \in Sensors PROVE told'[i] = triggered'[i] \/ (before'[i] /\ triggered'[i])
    BY <1>2 DEF InitSearch, TypeOK
  <2> QED
    BY <2>1 DEF SearchMissesNoEdge
<1>3. CASE ~SignalSearch /\ ~InitSearch
  <2>1. program' # "SEARCH" \/ UNCHANGED <<program, told, before, triggered>>
    <3>1. ASSUME NEW p \in Programs, WriteProgram(p) PROVE program' # "SEARCH"
      BY <3>1, SensorAssumption DEF SensorAssumption, WriteProgram
    <3>2. CASE Report \/ Calibrate
      BY <3>2 DEF Report, Calibrate, Step
    <3>3. ASSUME NEW f \in {"MOTORSET", "BEEP", "GUIDANCE"}, FunctionCalled(f)
          PROVE UNCHANGED <<program, told, before, triggered>>
      BY <3>3 DEF FunctionCalled, history
    <3>4. CASE DoNothing \/ NothingFound \/ StayOnTable \/ Bootloader
      BY <3>4 DEF DoNothing, NothingFound, StayOnTable, Bootloader, Step, history
    <3>5. CASE NoRequest \/ LoadSecond \/ CopyBoom \/ UNCHANGED vars
      BY <3>5 DEF NoRequest, LoadSecond, CopyBoom, vars, history
    <3>6. ASSUME NEW order \in ByteOrders, LoadFirst(order) PROVE UNCHANGED <<program, told, before, triggered>>
      BY <3>6 DEF LoadFirst, history
    <3>7. ASSUME NEW i \in Analog, NEW v \in Samples, Sample(i, v)
          PROVE UNCHANGED <<program, told, before, triggered>>
      BY <3>7 DEF Sample, history
    <3>8. ASSUME NEW i \in Booms, BoomMoves(i) PROVE UNCHANGED <<program, told, before, triggered>>
      BY <3>8 DEF BoomMoves, history
    <3> QED
      BY <1>3, <3>1, <3>2, <3>3, <3>4, <3>5, <3>6, <3>7, <3>8 DEF Next, MainLoop, Interrupt, StepProgram
  <2> QED
    BY <2>1 DEF SearchMissesNoEdge
<1> QED
  BY <1>1, <1>2, <1>3

\* The search's last signal of every sensor is what the sensor's flag says,
\* or the sensor was already over its trigger when the search began and still
\* is, whatever the sensors do and the hosts write (410-444, 538-573).
THEOREM SearchToldEveryEdge == Spec => []SearchMissesNoEdge
<1>1. Init => SearchMissesNoEdge
  BY DEF Init, SearchMissesNoEdge
<1> QED
  BY <1>1, ToldNext, TeensyTyped, PTL DEF Spec

-----------------------------------------------------------------------------
LEMMA OffEdgeNext == TypeOK /\ KeepsOffEdge /\ [Next]_vars => KeepsOffEdge'
<1> SUFFICES ASSUME TypeOK, KeepsOffEdge, [Next]_vars,
                    program' = "STAY_ON_TABLE", pc' = "poll", motors' \in Forwards
             PROVE  ~Over(Front \cup Rear)' /\ front' = 0 /\ rear' = 0
  BY DEF KeepsOffEdge
<1>1. CASE StayOnTable
  <2> DEFINE f == IF Over(Front) THEN FrontTime ELSE front
             r == IF Over(Rear) THEN RearTime ELSE rear
  <2>1. front' = CountDown(f) /\ rear' = CountDown(r) /\ motors' = Motors(f, r)
        /\ value' = value /\ trigger' = trigger
    BY <1>1 DEF StayOnTable, Step
  <2>2. f = 0 /\ r = 0
    BY <2>1 DEF Motors, Forwards
  <2>3. ~Over(Front) /\ ~Over(Rear)
    BY <2>2, NumberAssumption DEF NumberAssumption
  <2>4. ~Over(Front \cup Rear)
    BY <2>3 DEF Over
  <2>5. front' = 0 /\ rear' = 0
    BY <2>1, <2>2 DEF CountDown
  <2> QED
    BY <2>1, <2>4, <2>5 DEF Over
<1>2. CASE ~StayOnTable
  <2>1. UNCHANGED <<program, pc, motors, value, trigger, front, rear>>
    <3>1. ASSUME NEW p \in Programs, WriteProgram(p) PROVE FALSE
      BY <3>1 DEF WriteProgram, StartCopy
    <3>2. ASSUME NEW f \in {"MOTORSET", "BEEP", "GUIDANCE"}, FunctionCalled(f) PROVE FALSE
      BY <3>2 DEF FunctionCalled, StartCopy
    <3>3. ~NoRequest /\ ~Bootloader
      BY DEF NoRequest, StartCopy, Bootloader
    <3>4. ~LoadSecond /\ ~CopyBoom
      BY DEF LoadSecond, CopyBoom, Copied
    <3>5. ASSUME NEW order \in ByteOrders, LoadFirst(order) PROVE FALSE
      BY <3>5, Orders DEF LoadFirst
    <3>6. ~DoNothing /\ ~NothingFound /\ ~Report /\ ~SignalSearch
      BY DEF DoNothing, NothingFound, Report, SignalSearch, Step
    <3>7. ~Calibrate /\ ~InitSearch
      BY DEF Calibrate, InitSearch
    <3>8. ASSUME NEW i \in Analog, NEW v \in Samples, Sample(i, v)
          PROVE UNCHANGED <<program, pc, motors, value, trigger, front, rear>>
      BY <3>8 DEF Sample, copying, table
    <3>9. ASSUME NEW i \in Booms, BoomMoves(i)
          PROVE UNCHANGED <<program, pc, motors, value, trigger, front, rear>>
      BY <3>9 DEF BoomMoves, copying, table
    <3>10. CASE UNCHANGED vars
      BY <3>10 DEF vars, copying, table
    <3> QED
      BY <1>2, <3>1, <3>2, <3>3, <3>4, <3>5, <3>6, <3>7, <3>8, <3>9, <3>10
      DEF Next, MainLoop, Interrupt, StepProgram
  <2> QED
    BY <2>1 DEF KeepsOffEdge, Over
<1> QED
  BY <1>1, <1>2

\* After a pass of the table program the robot drives forwards only when no
\* sensor was over the edge and both times have run out (332-398).
THEOREM TableKeepsOffEdge == Spec => []KeepsOffEdge
<1>1. Init => KeepsOffEdge
  BY DEF Init, KeepsOffEdge
<1> QED
  BY <1>1, OffEdgeNext, TeensyTyped, PTL DEF Spec

-----------------------------------------------------------------------------
(***************************************************************************)
(* HysteresisCalibrated needs the readings reported to be on the side of   *)
(* the trigger that the flags say. The search flips flags without a report *)
(* to the hosts, but it begins with a calibration.                         *)
(***************************************************************************)
Sided(i) ==
    trigger[i] >= Hist /\ reported[i] # None =>
        /\ triggered[i] => reported[i] > trigger[i] + Rise
        /\ ~triggered[i] => reported[i] < trigger[i] - Hist

HystInv ==
    /\ \A i \in Analog : Sided(i)
    /\ program = "SEARCH" => \A i \in Analog : reported[i] = None

\* Unsigned arithmetic is exact for a calibrated sensor (427, 435).
LEMMA Unsigned ==
    ASSUME NEW w \in Nat, NEW t \in Nat, NEW h \in Nat, NEW r \in Nat, t + r < w, h <= t
    PROVE  (t - h) % w = t - h /\ (t + r) % w = t + r
<1>1. t - h \in 0..(w - 1) /\ t + r \in 0..(w - 1) /\ w > 0
  OBVIOUS
<1>2. \A n \in 0..(w - 1) : n % w = n
  BY <1>1
<1> QED
  BY <1>1, <1>2

\* A sensor that changed is beyond the hysteresis on the other side.
LEMMA Crossed ==
    ASSUME TypeOK, NEW i \in Analog, trigger[i] >= Hist, Changed(i)
    PROVE  /\ triggered[i] => value[i] < trigger[i] - Hist
           /\ ~triggered[i] => value[i] > trigger[i] + Rise
<1>1. i \notin Booms
  <2>1. Analog \subseteq 0..3 /\ Booms \subseteq {4, 5}
    BY SensorAssumption DEF SensorAssumption
  <2> QED
    BY <2>1
<1>2. trigger[i] \in Nat /\ trigger[i] + Rise < Word /\ Word \in Nat /\ Hist \in Nat /\ Rise \in Nat
  BY NumberAssumption DEF NumberAssumption, TypeOK
<1>3. (trigger[i] - Hist) % Word = trigger[i] - Hist /\ (trigger[i] + Rise) % Word = trigger[i] + Rise
  BY <1>2, Unsigned
<1> QED
  BY <1>1, <1>3 DEF Changed, Falls, Rises

\* Steps that leave the flags, the triggers and the readings reported.
Unreported == UNCHANGED <<trigger, triggered, reported>> /\ (program' = "SEARCH" => program = "SEARCH")

LEMMA MostUnreported ==
    ASSUME [Next]_vars, ~Calibrate, ~Report, ~SignalSearch, ~InitSearch
    PROVE  Unreported
<1> USE DEF Unreported
<1>1. ASSUME NEW p \in Programs, WriteProgram(p) PROVE Unreported
  BY <1>1, SensorAssumption DEF SensorAssumption, WriteProgram, history
<1>2. ASSUME NEW f \in {"MOTORSET", "BEEP", "GUIDANCE"}, FunctionCalled(f) PROVE Unreported
  BY <1>2 DEF FunctionCalled, history
<1>3. CASE NoRequest \/ LoadSecond \/ CopyBoom \/ UNCHANGED vars
  BY <1>3 DEF NoRequest, LoadSecond, CopyBoom, vars, history
<1>4. ASSUME NEW order \in ByteOrders, LoadFirst(order) PROVE Unreported
  BY <1>4 DEF LoadFirst, history
<1>5. CASE DoNothing \/ NothingFound \/ StayOnTable \/ Bootloader
  BY <1>5 DEF DoNothing, NothingFound, StayOnTable, Bootloader, Step, history
<1>6. ASSUME NEW i \in Analog, NEW v \in Samples, Sample(i, v) PROVE Unreported
  BY <1>6 DEF Sample, history
<1>7. ASSUME NEW i \in Booms, BoomMoves(i) PROVE Unreported
  BY <1>7 DEF BoomMoves, history
<1> QED
  BY <1>1, <1>2, <1>3, <1>4, <1>5, <1>6, <1>7 DEF Next, MainLoop, Interrupt, StepProgram

\* A report is of a sensor that crossed, and of no other.
LEMMA ReportCrossed ==
    ASSUME TypeOK, Flip, Found # {}, NEW i \in Analog, triggered'[i] # triggered[i]
    PROVE  i = First(Found) /\ Changed(i) /\ triggered'[i] = ~triggered[i]
<1>1. First(Found) \in Found
  BY SensorsSmall, FirstIsOne DEF Found
<1>2. triggered' = [triggered EXCEPT ![First(Found)] = ~triggered[First(Found)]]
  BY DEF Flip
<1>3. i = First(Found)
  BY <1>2, Orders DEF TypeOK
<1> QED
  BY <1>1, <1>2, <1>3, Orders DEF TypeOK, Found

LEMMA HystNext == TypeOK /\ HystInv /\ [Next]_vars => HystInv'
<1> SUFFICES ASSUME TypeOK, HystInv, [Next]_vars PROVE HystInv'
  OBVIOUS
<1>1. CASE Calibrate \/ InitSearch
  <2>1. \A i \in Analog : reported'[i] = None
    BY <1>1, Orders DEF Calibrate, InitSearch, CalibrateSensors
  <2> QED
    BY <2>1 DEF HystInv, Sided
<1>2. CASE SignalSearch
  <2>1. program = "SEARCH" /\ UNCHANGED <<program, reported>>
    BY <1>2 DEF SignalSearch, Step
  <2> QED
    BY <2>1 DEF HystInv, Sided
<1>3. CASE Report
  <2>1. program' # "SEARCH" /\ trigger' = trigger /\ value' = value /\ Found # {} /\ Flip
        /\ reported' = [reported EXCEPT ![First(Found)] = value[First(Found)]]
    BY <1>3 DEF Report, Step
  <2>2. ASSUME NEW i \in Analog, trigger[i] >= Hist, reported'[i] # None PROVE Sided(i)'
    <3>1. CASE triggered'[i] # triggered[i]
      <4>1. i = First(Found) /\ Changed(i) /\ triggered'[i] = ~triggered[i]
        BY <2>1, <3>1, ReportCrossed
      <4>2. reported'[i] = value[i]
        BY <2>1, <4>1, Orders DEF TypeOK
      <4>3. /\ triggered[i] => value[i] < trigger[i] - Hist
            /\ ~triggered[i] => value[i] > trigger[i] + Rise
        BY <2>2, <4>1, Crossed
      <4> QED
        BY <2>1, <4>1, <4>2, <4>3 DEF Sided
    <3>2. CASE triggered'[i] = triggered[i]
      <4>1. i # First(Found)
        <5>1. First(Found) \in Found /\ First(Found) \in Sensors
          BY <2>1, SensorsSmall, FirstIsOne DEF Found
        <5> QED
          BY <2>1, <3>2, <5>1 DEF Flip, TypeOK
      <4>2. reported'[i] = reported[i]
        BY <2>1, <4>1 DEF TypeOK
      <4> QED
        BY <2>1, <3>2, <4>2 DEF HystInv, Sided
    <3> QED
      BY <3>1, <3>2
  <2> QED
    BY <2>1, <2>2 DEF HystInv, Sided
<1>4. CASE ~Calibrate /\ ~Report /\ ~SignalSearch /\ ~InitSearch
  <2>1. Unreported
    BY <1>4, MostUnreported
  <2> QED
    BY <2>1 DEF Unreported, HystInv, Sided
<1> QED
  BY <1>1, <1>2, <1>3, <1>4

LEMMA StepApart ==
    ASSUME TypeOK, HystInv, [Next]_vars
    PROVE  \A i \in Analog : trigger[i] >= Hist => Apart(i)
<1> SUFFICES ASSUME NEW i \in Analog, trigger[i] >= Hist, triggered'[i] # triggered[i], reported[i] # None
             PROVE  value[i] - reported[i] > Hist + Rise \/ reported[i] - value[i] > Hist + Rise
  BY DEF Apart
<1>1. CASE Report
  <2>1. Changed(i)
    BY <1>1, ReportCrossed DEF Report
  <2>2. /\ triggered[i] => value[i] < trigger[i] - Hist
        /\ ~triggered[i] => value[i] > trigger[i] + Rise
    BY <2>1, Crossed
  <2>3. /\ triggered[i] => reported[i] > trigger[i] + Rise
        /\ ~triggered[i] => reported[i] < trigger[i] - Hist
    BY DEF HystInv, Sided
  <2>4. value[i] \in Nat /\ trigger[i] \in Nat /\ Hist \in Nat /\ Rise \in Nat
    BY TornInRange, NumberAssumption DEF NumberAssumption, TypeOK
  <2>5. reported[i] \in Nat
    <3>1. reported[i] \in {None, 0, 1} \cup Torn
      BY Orders DEF TypeOK
    <3>2. reported[i] \in Torn \/ reported[i] = 0 \/ reported[i] = 1
      BY <3>1
    <3>3. \A v \in Torn : v \in Nat
      BY TornInRange
    <3> QED
      BY <3>2, <3>3
  <2>6. triggered[i] \in BOOLEAN
    BY Orders DEF TypeOK
  <2> QED
    BY <2>2, <2>3, <2>4, <2>5, <2>6
<1>2. CASE SignalSearch
  BY <1>2 DEF SignalSearch, Step, HystInv
<1>3. CASE Calibrate \/ InitSearch
  BY <1>3 DEF Calibrate, InitSearch
<1>4. CASE ~Calibrate /\ ~Report /\ ~SignalSearch /\ ~InitSearch
  BY <1>4, MostUnreported DEF Unreported
<1> QED
  BY <1>1, <1>2, <1>3, <1>4

\* Two reports of a calibrated sensor in a row are of readings more than
\* ADC_HIST and the rise apart, torn readings included (401-444).
THEOREM CalibratedHaveHysteresis == Spec => HysteresisCalibrated
<1>1. Init => HystInv
  BY Orders DEF Init, HystInv, Sided
<1>2. TypeOK /\ HystInv /\ [Next]_vars => [\A i \in Analog : trigger[i] >= Hist => Apart(i)]_vars
  BY StepApart
<1> QED
  BY <1>1, <1>2, HystNext, TeensyTyped, PTL DEF Spec, HysteresisCalibrated
=============================================================================
