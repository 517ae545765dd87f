# beaverbot: models, checks and proofs

Beaverbot is a robot that looks for a can on a table and pushes it over the
edge without falling off itself. This directory holds TLA+ models of its
software, the TLC configurations that check them and the TLAPS proofs of the
properties that matter most.

## Inventory

| part | state it keeps | operations | talks to |
|---|---|---|---|
| can search state machine (`can_search.c`) | current state, latch of the back boom, six timeout counters | `can_search_init`, `can_search_signal`, `can_search_tick` | motors, through `motor_set__` |
| Teensy main program (`example.c`) | the `teensy` tree (program, sensors, ADC, GPIO), motor, beep and guidance arguments | main loop, `step_program`, callbacks of the server, timer 0 interrupt | all of the below and above |
| kowhai tree (`kowhai.c`) | none: functions of a descriptor and a data block | `kowhai_get_node`, `kowhai_read`, `kowhai_write`, sizes | server |
| kowhai codec (`kowhai_protocol.c`) | none | parse, create, overhead | server |
| kowhai server (`kowhai_protocol_server.c`) | the node of the write sequence in progress, its offset and bytes written | `kowhai_server_process_packet`, `kowhai_server_process_event` | callbacks, raw HID |
| raw HID driver (`usb_rawhid.c`) | configuration, the two timeout counts, endpoint banks, the endpoint selected (UENUM) | `usb_rawhid_recv`, `usb_rawhid_send`, the device interrupt (bus reset, start of frame), the endpoint interrupt (requests to endpoint 0) | host, main program |
| camera controller (`controller.py`) | the image buffers; none that outlives the process | writes program, motors, beep, guidance; never reads a reply | raw HID |
| user button (`user_button.py`) | `counter`, the last timer, the controllers running | a press, a timer's `start_controller`, `kill_controller` | starts and kills controllers |

Hard behaviour, by part:

- **can search.** The main loop and the timer interrupt share every variable and
  nothing is locked. A transition is three calls (SIG_EXIT, the store, SIG_ENTRY)
  each of which looks at the current state anew, a motor command is three
  register writes, a timer is two bytes. A timer that runs out makes a transition
  in the interrupt, in the middle of any of these. What must hold: a state that
  relies on a timeout has it running; the motors carry out one command, the
  current state's; the machine only moves along the edges of its diagram; a
  pushing robot backs up before it turns; every timed state ends.
- **main program.** The interrupt stores 16 bit readings that the loop copies a byte
  at a time. One sensor edge per pass, lowest index first, each reported once; a level
  that does not change is never reported again. Any host write rewrites the motor
  registers and DIDR0. What must hold: the search misses no edge, a steady sensor is
  not reported again and again, a false edge is taken back, and the table program
  drives forwards only off the edge, and does so again.
- **kowhai server.** A write sequence spans packets, and the server keeps one of
  them for all hosts; a function's arguments may come in parts, into a tree that every
  caller shares; a host may be killed half-way; a reply may take several packets, each of which may be
  dropped. What must hold: a report covers what its host wrote; a sequence left open is
  given up; a function sees its caller's arguments; a reply's packets cut the data into
  consecutive pieces.
- **raw HID.** Both interrupts change UENUM and the configuration under the calls,
  and the timeouts are counted by one of them. What must hold: a call looks at and moves
  packets through its own endpoint; it waits its time and ends; packets are lost only
  by a bus reset or by a request that empties an endpoint; the endpoint interrupt, which waits
  for the host with no way out but a read's status packet, comes back if the host does not leave it.
- **user button.** Two threads and several processes over one unlocked counter.

## Plan

Most important behaviour first; each row is usable without the next.

| module | what | state |
|---|---|---|
| `SearchStates`, `CanSearch`, `MCCanSearch` | the state machine and the two contexts that run it | done |
| `SearchDiagram` | abstract: the diagram of states and the steps a two-context machine may take on it; `CanSearch` implements it | done |
| `CanSearchProofs` | the inductive invariant behind `TimeoutArmed`; on top of it the refinement and what the motors do | done |
| `UserButton`, `MCUserButton`, `UserButtonProofs` | button reader, timers, controllers | done |
| `KowhaiTree`, `MCKowhaiTree`, `KowhaiTreeProofs` | node lookup, sizes, bounds of reads and writes against a reference definition, for all descriptors | done |
| `AvrInt` | the 16 bit `int` of the AVR, for `KowhaiTree` and `KowhaiServer` | done |
| `KowhaiReply`, `MCKowhaiReply`, `KowhaiReplyProofs` | replies cut into packets | done |
| `KowhaiServer`, `MCKowhaiServer`, `KowhaiServerProofs` | every request, write sequences, calls in parts, hosts that are killed | done |
| `Teensy`, `MCTeensy`, `TeensyProofs` | main loop, ADC, edge detection and the programs; the signals it sends are inputs of `CanSearch` | done |
| `RawHid`, `MCRawHid`, `RawHidProofs` | receive, send and the two interrupts | done |
| `PacketLink` | abstract: two queues that are emptied only by a reset or by the request that says so; `RawHid` implements it, proved | done |
| `ControlTransfer`, `MCControlTransfer`, `ControlTransferProofs` | the endpoint interrupt, packet by packet | done |

Every safety invariant that a passing run checks is a theorem, and so are both refinements.

## The can search: `SearchStates`, `CanSearch`

| model | code |
|---|---|
| `state`, `boom_back`, `timers`, `drifton` | `g_current_state`, `g_current_boom_back`, the six `g_..._time`, `g_drifton_timeout` |
| `motors` | PORTF, OCR2A, OCR2B: which command wrote each last (`"other"`: the host or another program) |
| `searching` | `teensy.program == PROGRAM_CAN_SEARCH`, the interrupt's test |
| `main` | what is left of the main loop's current call: a job |
| `SearchWall` ... `SearchScramble`, `Handle` | the handler functions and the switch, as functions from a signal to a job |
| `Signal`, `SignalExit`, `SetState`, `SignalEntry` | `can_search_signal` from the main loop, and the three steps of `transition` |
| `DisarmFirst/Second`, `ArmFirst/Second` | the two byte stores of `g_search_time = -1` and of `g_..._time = 0` |
| `WritePortF`, `WriteOcr2a`, `WriteOcr2b` | `motor_set_` |
| `Tick` | the timer 0 interrupt: `can_search_tick` runs to its end, with the transitions it makes |
| `CanSearchInit`, `StopSearch`, `ResumeSearch`, `OtherMotorSet` | `step_program`'s init cases, host writes of `program` or of another node (with `node_post_write`), `SYM_MOTORSET` |

A step of the main loop is the code between two points where an interrupt can
tell the difference. The Makefile builds with `-fshort-enums`, so the state is one
byte and is stored at once; a timer is an `int16_t` and is not. `StoreByte` keeps
the arithmetic of a two-byte store for a byte of `Base` values. The interrupt does
not nest, so a tick is one step.

Inputs are arbitrary: any sensor may signal any level at any time, and the camera
may see a can near or far. `SIG_CAN_SPOTTED`'s two floats are abstracted to the one
test the code makes of them. `PROGRAM_CAN_SEARCH` may be written by the host
directly, once a search has been initialised; before that the motor callback of
`can_search.c` is a null pointer and the state `ST_INIT`, and the model leaves that out.
The frequency of the interrupt, the ADC and the wall-clock length of timeouts are
not modelled: a timer counts ticks.

### Checks

`CanSearch.cfg` (module `MCCanSearch`, 3.3 million states). Bounds: a byte has 2 values, the timeouts
are 1 or 2 ticks, so every timer crosses a byte boundary while it counts and its
half written values lie on both sides of its limit; two different timeouts can be
pending at once. Larger timeouts only add ticks in which nothing else differs.
Both byte orders are taken, although avr-gcc stores the high byte first.

- `TypeOK`: the types, with the number ranges that the proofs need.
- `TimeoutArmed`: between two calls a state that is left by a timeout has it running.
- `MotorsFollowState`: and the three motor registers hold one command of the state's
  handler, unless `overtaken` says that an interrupt changed the state inside a call
  that had no transition to come, or that the host drove the motors. The exception is real:
  the handler of the old state then finishes on the new state's motors.
- `HalfPowerOverEdge`: in ST_SEARCH_WALL with the back boom over the edge the can is
  followed at half power.
- `FollowsDiagram`: refinement of `SearchDiagram`, with the target of the main
  loop's transition as the abstract `decided`. A decided edge may be carried out
  from a state the interrupt changed in the meantime; the abstract specification says so, and
  allows nothing else. That pushing ends only by backing up is part of the diagram.

`CanSearchLive.cfg` (300 thousand states): a search nobody stops, timeouts of one
tick, high byte first. `TimedStatesEnd`: each timed state but ST_SEARCH_WALL is left
without help of a sensor. `SearchWallEnds`: so is ST_SEARCH_WALL, unless the camera
keeps reporting a can that is not near, which restarts the timer each time.
Fairness is weak fairness of `Tick` (timer 0 is free running; interrupts are
disabled only for bounded stretches, except where the endpoint interrupt waits
for a host: see `ControlTransfer`) and of `MainStep` (the main loop resumes
after an interrupt and its calls contain no wait); no signal is fair.

### Proofs

`CanSearchProofs` proves for every value of the timeouts, of `Base` and of the byte
orders: `SearchInvariant` (Spec => []SearchInv), and from it `TypeCorrect` and
`TimeoutsStayArmed`. `TimeoutArmed` is not inductive: it speaks of the moments between
calls, and an interrupt acts inside one. `SearchInv` adds what each step of a job has
left to write (`JobShape`), and that a timeout the state waits for is running or
still held by the job with a store to come that makes it non-negative
(`ArmedOrPending`); between SIG_EXIT and SIG_ENTRY nothing is claimed, since SIG_ENTRY
arms whatever state it finds. The proof goes: facts on half written integers
(`StoreByte`), on the jobs handlers return, on one stage of the tick, then one lemma for the tick, one
for the main loop's steps, one for its calls.

The rest of the module goes on from `SearchInv`:

- `ImplementsDiagram`: `CanSearch` implements `SearchDiagram`. The edges of the
  diagram are looked up once for each handler; a store of the main loop carries out the edge
  its handler decided; of a tick it is shown that at most one of its six timeouts makes a
  transition: the state it leads to has another timer or none, and a timer just armed
  is not run out in the same tick.
- `MotorsFollow`: `MotorsFollowState` speaks of the moments between calls. `MotorsInv` adds what
  a call in progress has left to write: its command is one of the current state's, and the registers
  it has written hold it.
- `HalfPower`: `PowerInv` adds that with the back boom over the edge no call writes full power,
  and that full power left over from before is in another state or about to be overwritten.

## The user button: `UserButton`

The reader's loop is one action per place where another thread can run
(`Press`, `ListControllers`, `KillListed`, `LoadCounter`, `StoreCounter`,
`RestartTimer`, `StartBeep`, `BeepEnded`); a timer's thread fires, goes down the
elif chain one comparison at a time (`Test`), launches a controller, waits and resets
the count. The operating system's part is modelled from its use: processes are
listed by pid in the order they were started, `kill` is given the first line only, a
killed process is gone at once, and the shell of `os.system` is replaced by its command. Time is
left out: a two second timer may fire at any moment, which covers controllers of any speed.

`UserButton.cfg` (200 thousand states; four presses, two programs of which the second
is endless, so that a count can pass the last program and a press can meet a run of either kind):

- `QuietIsZero`: with no timer waiting and no start_controller in progress the count is 0.
- `ProgramOfBurst`: presses none of which met a start_controller in progress start the
  program of their number. Without the condition it is false: a press while program 4 runs
  may count as the fifth or be lost.
- `OneController`: timers have at most one controller running, unless a press fell between a
  firing and its launch, where neither `cancel` nor `kill` reaches.
- `Settles`: once the button is left alone the count comes back to 0 or an endless controller
  runs on, under weak fairness of the reader, of each thread, of the
  beep and of controllers that are not endless.

Deadlock is not checked: after the last press everything may rightly stop.

`UserButtonProofs` proves `TypeOK`, `QuietIsZero`, `ProgramOfBurst` and `OneController` for any
number of presses and programs, whichever of them are endless. The three properties speak of
runs, launches and a count seen from outside; `ButtonInv` ties them together: a controller that is alive has a thread
or a beep that waits for it (`Placed`); while no press met a start_controller in progress only the
newest thread is alive, and the count is the burst's less the press not yet added (`Counted`);
while no press slipped in before a launch only the newest thread can have a controller or
still start one, and past `kill_controller` it has none (`Supervised`). That the one listed first is the
one to kill rests on facts about removing one of distinct elements from a sequence.

## The kowhai tree: `KowhaiTree`

A descriptor is a flat sequence of nodes in which a branch lasts until its branch end, and every
function of `kowhai.c` finds its way by walking it. `desc` is any well formed descriptor: its brackets
nest, and its first node's are closed by its last node. One behaviour is one call, a
`kowhai_read` or `kowhai_write` or a typed getter or setter, of which the bytes it touches are kept.

| model | code |
|---|---|
| `NodeAt`, `Siblings`, `NodeSize` | `get_node_size` and its loop over a branch's children |
| `NodeCount`, `ServerNodeCount` | `kowhai_get_node_count`, `kowhai_server_init_tree_descriptor_sizes` |
| `Under`, `GetNode` | `get_node`: what it does with one node, and its loop over siblings |
| `Find`, `FindStatus` | `kowhai_get_node` |
| `ReadOrWrite`, `GetOrSet` | `kowhai_read` and `kowhai_write`; `kowhai_get_int8` to `kowhai_set_float` |

The walks are recursive functions of a position, as the C functions are recursive; the union flag and the
part of the path that `get_node` passes on are part of its argument. The reference definitions
do not walk: `Depth` counts the brackets open after a node, a node lasts until the depth is back where
it was (`LastOf`), and its children, the branches around it and the nodes skipped before it are sets
(`Kids`, `Around`, `Skipped`), over which sizes are summed.

`KowhaiTree.cfg` makes calls on 759 descriptors of up to four levels, with branches,
unions and arrays of both, names that repeat at different depths, paths that exist and that do not, array
indices inside and outside the array, and offsets and sizes that reach past the node, up to the
largest `int` (418 thousand states). A host's offset is a `uint16_t`, and the end that the two
checks compare is an `int` of 16 bits: `Int16` (`AvrInt`) of their sum, negative beyond 32767.

- `WalksAgree`: the walks end where the brackets do, and each node has the size of its elements.
- `FindsTheItem`: a path is found exactly if the tree has it, at the offset it has there.
- `StaysInNode`: an access to a first element stays inside its node, unless the end it asks for is
  more than an `int` holds (`EndFits`), and a typed one covers exactly its element, at any index.

`KowhaiTreeOverrun.cfg` expects a violation of `NoOverrun`, which is `StaysInNode` without its two exceptions:
the comments at `kowhai.c:233` and `:259` say that the test keeps an access inside the item. With small
offsets it does not because it counts from the start of the array while the copy starts at the
element. The run leaves out the other reason, the sum that wraps (one byte at offset 32767 ends at -32768),
so that what it shows is the first.

`KowhaiTreeProofs` proves all three (`TreesWalked`, `ItemFound`, `ItemKept`) for any well formed
descriptors, however deep and long, and all paths, offsets and sizes. The invariant itself is simple,
since a behaviour is one call; the work is in the walks:

- How brackets nest follows from `Depth` alone: each node ends before the branch around it (`Nests`), and
  after a child comes another or the end (`ChildOrEnd`).
- A walk at a position looks only at those behind it, so a function with the recursion's
  equation exists (`WalkExists`, `SearchExists`), and what holds at a position
  whenever it holds at all those behind it holds everywhere (`Down`, from `Least`).
- `WalksRight`: the walk from a child on gives the sum, the largest and the end for the children
  from there on. That the library's `SumFunctionOnSet` adds one number at a time, whichever element it takes
  first, is `SumAdds`.
- `SearchesRight`: from a position on, `get_node` answers the first of the nodes named by the rest of the
  path from there on (`NamedIn`), at the part of its offset that lies from there on (`StartFrom`).

The sums of the walks do not wrap, by `SizeAssumption`: a tree's data lies in the controller's 8 KB, and the
largest tree compiled into the firmware (`example.c:55`) has under 200 bytes. The sum of what a host sends
does, and `ItemKept` is about the ends that fit: there `Int16` is the sum itself, so that
the check bounds it.

## Replies in packets: `KowhaiReply`

The server has one loop, written out six times, that cuts a reply into packets: tree and function
lists, the symbol list, a node's data, a descriptor, a function's result, an event. `Fill` (or
`CopyString` until `CopyDone`, one string at a time) prepares the packet's data, `SendFull` and `SendLast` build and
send it; `Overhead` and `Prefix` are the codec's two answers to what comes before the
data. The server does nothing else until a reply is out, so one behaviour is one reply. Sizes are
those of the AVR build, with packed structures and pointers of two bytes. Requests are those the
firmware can answer: the symbols leave room for data in the packet, and the total is an `int`.

`KowhaiReply.cfg` (18 thousand states): packets of 24 bytes instead of 64, totals below, at and above
one, two and three packets, reads of one to three symbols and of each element of an array, and all lists of up to four strings
shorter than, as long as and longer than a packet.

- `PacketsTile`: the packets lie end to end from 0 to the total, and exactly the last is marked.
- `PacketsFit`: none is larger than the buffer, and the data prepared in the buffer lies behind
  the request's symbols, which each packet of the reply repeats.
- `DataIntact`: the bytes that arrive are those asked for, in order, whatever place of a string a packet
  begins at.

`KowhaiReplyProofs` proves `RepliesTyped`, `RepliesTile` and `RepliesFit` for every packet size
and every request. `PacketsTile` speaks of packets sent and says nothing of the next one; the invariant
`ReplyInv` adds that what is sent and what is left make up the total (`Balance`), that the last packet
ends at the offset (`SentSoFar`), that no packet exceeds the payload (`Sized`), and that the string copy
keeps to the packet's room (`CopyInRoom`).

`RepliesIntact` proves `DataIntact`, on top of `ReplyInv`. `IntactInv` says that what was received is
the beginning of the data (`ReceivedSoFar`), that what the buffer holds goes on from there and is enough for the
packet to be sent (`FilledSoFar`), and that the string copy's marker is where its string begins and its
offset where the buffer ends (`CopyInPlace`). For lists of any length this needs what the folds `StringsSize` and
`FlattenSeq` compute, by induction on the list. The library's induction theorems are about
predicates and out of the provers' reach; about sets (`Least`, `Induct`) they follow from the library's
well-foundedness of the naturals, and that a function satisfying a fold's recursion exists follows
from them.

## Requests: `KowhaiServer`

| model | code |
|---|---|
| `current_write_node`, `..._offset`, `..._bytes_written` | the fields of `kowhai_protocol_server_t` |
| `data` | the bytes of the argument trees: for each, the host that wrote it last |
| `callbacks`, `reply` | what the last `kowhai_server_process_packet` called and sent |
| `job`, `sent` | a host process: a sequence of requests, and how many were delivered |
| `InvalidCommand` ... `CallFunction` | `kowhai_server_process_packet`, one action per outcome of its switch |
| `Start`, `End`, `Kill` | the host processes; external |

The main loop handles one packet at a time, so a call is one step. Hosts do not
read the replies (`controller.py` never does) and may be killed between any two
packets. A path that `kowhai_get_node` finds is an item with its node, the offset
of its element and the node's size; how it is found is `KowhaiTree`'s, how a
reply is cut is `KowhaiReply`'s. No function of the firmware has a result tree,
so `tree_out` is left out; writes to a tree without data are left out, since the
firmware's only such tree is its event's, which no host writes; and a write that runs past
an array's end is `KowhaiTreeOverrun`'s, so here each item has room in its tree. `writers`,
`places` and `alone` are history.

Offsets are `uint16_t` and become ints: `kowhai_write` refuses one above 32767 as negative, and the end
`EndOf` that it and `bytes_written` compute wraps (`AvrInt`). A byte that the wrap lets through is
stored beyond the memory the controller has, so it changes no tree.

`KowhaiServer.cfg` (489 thousand states): two hosts, each with any of twelve jobs of one or
two requests and two long ones of requests that only read or are refused, both
of which may be killed at any time; an array whose two elements are written by
different hosts, an item of two bytes, arguments of two bytes. Two hosts are
enough for every interleaving the server can tell apart: it knows only one open
sequence and whoever is not in it.

- `ReportCoversTransfer`: when the last packet of a write is accepted, the
  report to `node_post_write` covers all of that write, even if another host
  broke or closed the sequence in between, as long as the sequence named one element and the host's
  own packets ask for no end beyond an `int` (`NoneWraps`; those of others may).
- `SequenceHasAnOwner`: a sequence is open only for a host that has more to send, or after
  one was killed or gave up.
- `RefusedByAnother`: a host that writes one item is refused as out of sequence only
  because of another.
- `CallSeesItsCaller`: a function is called with its caller's arguments unless
  another host wrote to their tree in the meantime.
- `SequencesClose`: once hosts are no longer killed and only write whole items, and
  writes go on, a sequence left open is given up, and every later one ends. Fairness is weak fairness
  of each host's requests, which the main loop handles as they come. Without a write
  to come, a sequence of a killed host stays open for ever.

One of the jobs is a packet of one byte at offset 32767: it is acknowledged and, alone in its sequence,
reported as no bytes. The other properties, and that a report is never negative or longer
than its node (`TypeOK`), hold with it.

`KowhaiServerProofs` proves `ServerTyped`, `SequencesHaveOwners` and `RefusedForAnother`
for any hosts, jobs and trees in which different trees have different nodes and the
elements of one node the same room. None is inductive: the invariant
`OwnerInv` adds that a host that is the only writer, and writes one item, holds that item's node open
(`OwnItem`), and `TypeInv` that the open sequence's node and offset are those of an
item and its bytes no more than the node has (`InNode`). A host's write names one item, so only another can make the server hold a different one.

`CallsSeeTheirCaller` and `ReportsCover` prove the other two safety properties. `TransferInv` adds that
a host alone in its function's arguments has there all that it has sent so far (`Held`), and that the
open sequence starts where one of its packets did (`StartsAtItsPackets`). A write's last packet reaches
furthest, and its `EndOf`, which does not wrap, is at most the bytes reported. `CallSeesItsCaller` is about
calls each part of which fits its packet, as the controller's do; the server refuses a longer one and goes on with the next.

## The main program: `Teensy`

| model | code |
|---|---|
| `adc`, `pin` | `teensy.adc.adc`, PINC |
| `value`, `trigger`, `triggered` | `teensy.sensors` |
| `program`, `motors`, `sampling` | `teensy.program`; who set PORTF, OCR2A and OCR2B last, or how; DIDR0 |
| `pc`, `at`, `half` | where the loop is, the sensor it copies, the byte it has loaded |
| `Sample`, `BoomMoves` | the timer interrupt's `adc_read`; the world |
| `NoRequest`, `WriteProgram`, `FunctionCalled` | `usb_rawhid_recv`, with `node_post_write` and `function_called` |
| `LoadFirst`, `LoadSecond`, `CopyBoom` | the copies at the start of `step_program`, an ADC value in two loads |
| `DoNothing` ... `Bootloader` | the switch of `step_program`, with `check_sensors`, `calibrate_sensors` and `stay_on_table` |

Interrupts fall between any two steps; a reading is torn if one falls between its two
loads, in either byte order. The motor registers written one by one, and the state machine
behind a signal, are `CanSearch`'s; here a signal is what the search is told. Hosts write the
program, as the controller does, and no trigger or reading of a sensor.
Numbers are scaled (`AdcMax` 1024 to 16, `Base` 256 to 4, `Hist` 10, `Rise` 50 and the two
times to 1, 2 or 3); what counts is their order, and that `AdcMax` is a multiple of `Base`.
`Word` is where 16 bit subtraction wraps.

`TeensySearch.cfg` (1.7 million states): a table sensor with readings 3, 11 and 14,
whose torn mixtures include 0 and 15, below and above all of them, and a boom; hosts
calibrate, report, and start, stop and restart the search.

- `SearchMissesNoEdge`: what the search was told of a sensor is what the sensor's flag
  says, though a pass reports one edge; only a sensor already over its trigger
  when the search began is not told before it falls.
- `HysteresisCalibrated`: two reports of a calibrated sensor in a row are of readings more
  than the hysteresis apart.
- `TruthSettles`: once a sensor and those before it are still, its flag becomes and stays right: a false
  edge of a torn reading is taken back and the lower sensors do not starve the higher.

`TeensyTable.cfg`: front and rear sensors and both booms, the table program started
and left at any moment, the boot loader (which halts: deadlock is not checked).

- `KeepsOffEdge`: after a pass of the table program the robot drives forwards only with no
  sensor over the edge and both times run out.
- `DrivesOn`: left in that program with its sensors at rest off the edge, it drives
  forwards again in the end.

Fairness is weak fairness of `MainLoop`, which has no wait that the host can make
endless while it keeps its configuration (`CallsEnd` below) and ends its transfers, with reports of the
length the device says (`TransfersEnd`).

`TeensyProofs` proves `TeensyTyped`, `SearchToldEveryEdge`, `TableKeepsOffEdge` and
`CalibratedHaveHysteresis` for any sensors, readings and numbers that satisfy `NumberAssumption`.
Each rests on the type invariant, that torn readings and the triggers calibrated
from them stay in range (`TypeInv`, with the byte already loaded); the hysteresis also on `HystInv`,
which says on which side of its trigger a sensor's last report was.

## The raw HID driver: `RawHid`, `PacketLink`

| model | code |
|---|---|
| `usb_configuration`, `count` | `usb_configuration`, `tx_timeout_count` and `rx_timeout_count` |
| `UENUM`, `interrupts`, `intr_state` | UENUM, the I bit of SREG and the call's copy of SREG |
| `pc`, `call`, `buffer` | where `usb_rawhid_recv` or `usb_rawhid_send` is; they differ in endpoint and direction |
| `endpoint`, `fifo`, `EORSTI`, `SOFI`, `setup` | the controller: endpoints with two banks, pending events; external |
| `GenInterrupt`, `ComInterrupt` | `ISR(USB_GEN_vect)`, `ISR(USB_COM_vect)` |

A call is a step per access that an interrupt could disturb. The main program is the
loop of `example.c`: receive, answer a request with some packets, perhaps send an event.

`RawHid.cfg` (1.06 million states): timeouts 0 and 2, two requests, up to two packets in reply,
two sends, one bus reset, and the host may configure, stall and clear the sending endpoint at any
time. A timeout of 2 can be interrupted between counts; both banks can fill; a second reset
finds nothing the first does not. The larger counts add only time.

- `OwnEndpoint`: the FIFO a call looks at and moves a packet through is its own, and
  interrupts are off exactly there.
- `WaitsItsTime`: a call that gives up has seen as many frames as it was told to wait.
- `RepliesInOrder`: the host gets replies in order and at most once, and those it did not
  ask for in this configuration are all of the one request that was being answered then.
- `LinkSpec`: refinement of `PacketLink`: the driver is two queues that packets enter and leave
  one at a time, in order. A bus reset empties both; the device, when it serves a request, empties
  those the request says (`EmptyToDevice`, `EmptyToHost`): both for a configuration, one for a cleared
  endpoint. Nothing else does: a call that flushed its endpoint when it gives up would be no step of the link. A
  call can return a packet that nobody sent, or lose the one it gives, only with a reset
  pending that the device has not noticed: the bank it looked at (`usb_rawhid.c:281`) is then gone. A send
  that gives up never reaches the queue, so the link says nothing of it.
- `CallsEnd`: a call ends, though its endpoint is stalled, full, empty or gone, once the host
  leaves the configuration as it is. The endpoint interrupt is one step here: that it ends is `TransfersEnd`.

Fairness: weak of the main program, strong of both interrupts (a pending one is taken at
the next instruction with interrupts on, but calls turn them off and on again), weak of the start
of frame, which a host sends every millisecond.

`RawHidProofs` proves the first three, and `LinkSpec`, for all timeouts and counts. `LinkInv`
adds to the types that a call saved SREG with interrupts on (`SavedOn`), that a
packet in a call's hands is of the kind its direction carries (`Carries`), and that the count and the
frames seen make up the timeout (`Counted`). The refinement rests on one more invariant, `StillThere`: a packet
or bank that a call has looked at is there when it comes to move it, or a reset is pending. Interrupts are off
in between, so only the host's own steps could take it, and they do so only by a reset. The steps that move a packet, ask or
serve a request, reset or notice it are the link's, and the rest stutter. `RepliesInOrder` speaks of packets received; `OrderInv` adds
those on their way and the one in a call's hands, which follow them, and that until main takes another request
the packets of an earlier configuration answer the same one.

## Requests to endpoint 0: `ControlTransfer`

`ISR(USB_COM_vect)` waits for the host between packets with interrupts off. `phase`, `request`,
`received` and `unsent` are the host's side of a transfer; `RXSTPI`, `RXOUTI`, `TXINI`, `bank` and
`STALLRQ` endpoint 0's; `pc` and `len` the interrupt's. Bytes are counted, not kept. The
hosts are those of the USB specification. They may end a read early, and may leave any transfer at
any point, for good or for another request (`HostLeaves`, USB 2.0, 8.5.3); a new request overtakes whatever the
interrupt is still waiting for. A report is sent with any length. Three things are left out: a report asked for
with less than its length (which 903-919 would answer with all of it), a bus reset in the middle of a transfer, and a request
within the two milliseconds a device has to take its address.

`ControlTransfer.cfg` (50 thousand states): every descriptor, and all other requests, with 17 lengths from 0 to 400 that
lie around a packet, two packets, each descriptor and 8 bits; three transfers, so that what one leaves behind, a
stale packet or an interrupt still at work, meets another two.

- `ReadsWhole`: a read not given up brings all the host asked for or all there is, never more.
- `OldAddressUntilStatus`: the address changes after its own request's status packet only.
- `TransfersEnd`: neither side is left waiting for the other, with weak fairness of the
  interrupt and of a host that goes on with what it began or leaves it, except in two cases. The interrupt waits on
  in a transfer that its host has left (`Deserted`): no wait looks for a new request, and only
  a read has a way out, by its status packet. And a report that is not of two packets (`OddReport`) is not
  what the interrupt waits for. The host's stopping and the
  end of the last of the bounded transfers make the deadlock check meaningless.

`ControlTransferReport.cfg` expects a violation of `CallsCanTimeOut`: with a host that leaves no
transfer, the main program gets the processor back again and again, without which no call is the
"with timeout" that `usb_rawhid.c:268` and `:488` say it is. A report of 32 bytes or fewer keeps
the interrupt at 926 for ever, with start of frame interrupts off.

`ControlTransferProofs` proves `TransfersTyped`, `ReadsEndWhole` and `AddressAfterStatus` for all
lengths and addresses. `TransferInv` says that what the host has, what is in the bank
and what the interrupt has left make up the answer (`Reading`), and that a packet in the bank
that is not full is the last.

## Where code and comments differ

Two disagreements have a run that shows them: `KowhaiTreeOverrun.cfg` and `ControlTransferReport.cfg`. Others were met while modelling and are part of the models or of
their premises:

- `example.c:427`: `trigger - ADC_HIST` wraps for a sensor whose trigger is below ADC_HIST, as all are before
  the first calibration: any reading then is "below". Hence `HysteresisCalibrated` is about calibrated sensors.
- `usb_rawhid.c:488`: "send a packet, with timeout". The timeout is counted by the start of frame (740)
  and only with a configuration, so that without frames, or with a configuration taken away and given back, a call waits on.
- `kowhai_protocol_server.c:382`: a sequence that another host breaks loses what it wrote so far: the bytes are in
  the tree, and `node_post_write` (`kowhai_protocol_server.h:30`) is not called for them, unless the host goes on to its last packet.
- `can_search.c:459`: `can_search_init` makes its transition to ST_PUSH, where `search_states.graphml:247` draws the
  start with an arrow to search_wall. A new search drives straight ahead, with no timeout and deaf to the
  camera, until a front sensor meets the table's edge.
- `kowhai.c:237`, `:263`: `write_size + write_offset` is an `int` of 16 bits and a host's offset a `uint16_t`, so the sum
  may be negative, and "check the write wont overrun the item" (259) then lets any such access through.
- `kowhai_protocol_server.c:363`: the same sum is the count of bytes written, of which
  `kowhai_protocol_server.h:36` says "the number of bytes written to the tree data block". And that is the furthest offset plus size of
  the sequence: a report may cover bytes nobody wrote.

## What the properties leave out

Several properties hold only with an exception, because without it the code does otherwise. What happens in
the exceptional cases is in the models, and no property bounds it:

- `MotorsFollowState` (`overtaken`): an interrupt's transition inside a call leaves the old handler's command, or a
  mixture, on the motors, and so does a host's write.
- `ProgramOfBurst` (`mixed`): a press that meets a start_controller in progress may start another program or be lost.
- `OneController` (`slipped`): a press between a timer's firing and its launch leaves two controllers.
- `SearchMissesNoEdge`: a sensor over its trigger when the search begins is not told.
- `HysteresisCalibrated`, `TruthSettles`: before the first calibration there is no hysteresis; and a sensor that changes at
  every pass starves those after it.
- `RepliesInOrder`: a reply whose send gives up is missing.
- `StaysInNode`, `ReportCoversTransfer`: a second element, and ends that wrap; two elements in one sequence.
- `CallSeesItsCaller` (`alone`): with two callers at once a function may see a mixture of both.
- `TransfersEnd`: transfers that are left, and reports of odd lengths.

## Model-checked only, and not modelled

Liveness, which the proof system does not handle (nor ENABLED), is model-checked only:
`TimedStatesEnd`, `SearchWallEnds`, `Settles`, `TruthSettles`, `DrivesOn`, `CallsEnd`, `TransfersEnd`
and `SequencesClose`.

Not modelled: image processing (`research/`), whose result is an input here; the PC
diagnostics (`diagnostic/`: a USB sniffer, and an older copy of the kowhai library
with a test program) and `kowhai_utils.c`, none of which runs on the robot; the ctypes declarations of
the controller (`hidapi.py`, `kowhai.py`); board set-up scripts; and `analog.c`, which nothing calls:
no state or protocol to check. Of the controller, what it sends and its life and death are
inputs of `CanSearch`, `Teensy`, `KowhaiServer` and `UserButton`; what it sees is not modelled.
