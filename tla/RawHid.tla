------------------------------- MODULE RawHid -------------------------------
(***************************************************************************)
(* The raw HID driver: src/teensy/usb_rawhid/usb_rawhid.c. The main        *)
(* program calls usb_rawhid_recv and usb_rawhid_send, which wait with      *)
(* interrupts on and look at their endpoint and move a packet with         *)
(* interrupts off; the device interrupt counts their timeouts and sees bus *)
(* resets; the endpoint interrupt handles the host's requests to endpoint  *)
(* 0. Both change UENUM, the endpoint that the registers are of, under the *)
(* main program. The host, the bus and the USB controller's banks are the  *)
(* environment.                                                            *)
(*                                                                         *)
(* An endpoint interrupt is one step here: its data stages are             *)
(* ControlTransfer's. The main program is example.c's loop (647-654): it   *)
(* receives, answers a request with some packets, and may send an event.   *)
(***************************************************************************)
EXTENDS Naturals, Sequences

CONSTANTS
    RxTimeout, TxTimeout,   \* example.c passes 0 and 50
    MaxRequests,            \* bound: requests the host sends
    MaxReplies,             \* bound: packets of one reply
    MaxSent,                \* bound: calls of usb_rawhid_send
    MaxResets,              \* bound: bus resets
    Controls                \* the requests to endpoint 0 the host makes

TX == 1 \* RAWHID_TX_ENDPOINT
RX == 2 \* RAWHID_RX_ENDPOINT
Endpoints == {TX, RX}
Timeout(e) == IF e = TX THEN TxTimeout ELSE RxTimeout
Banks == 2 \* EP_DOUBLE_BUFFER
Configure(v) == <<"SET_CONFIGURATION", v>>
Configurations == {Configure(0), Configure(1)}
AllControls == Configurations \cup ({"SET_FEATURE", "CLEAR_FEATURE"} \X Endpoints)
None == <<>>

\* Packets by the request they are, or are an answer of
Request(n) == [id |-> 0, of |-> n]
Reply(i, n) == [id |-> i, of |-> n]
Garbage == Request(0)

ASSUME BoundAssumption ==
    /\ RxTimeout \in Nat /\ TxTimeout \in Nat
    /\ MaxRequests \in Nat /\ MaxReplies \in Nat /\ MaxSent \in Nat /\ MaxResets \in Nat
    /\ Controls \subseteq AllControls

VARIABLES
    usb_configuration,
    count,          \* tx_timeout_count and rx_timeout_count, by endpoint
    UENUM,          \* the endpoint selected
    interrupts,     \* the I bit of SREG
    intr_state,     \* the same, saved by the call
    pc,             \* where the call is; "loop" between calls
    call,           \* the endpoint it is about
    buffer,         \* the packet it brings or takes
    answering,      \* the request that replies are being sent for, or 0
    todo,           \* packets main has yet to send in this pass
    sent,           \* how many it has sent
    EORSTI, SOFI,   \* UDINT: a bus reset, a start of frame
    setup,          \* the request in endpoint 0's bank
    enabled0,       \* endpoint 0 is set up
    endpoint,       \* "disabled", "enabled" or "stalled"
    fifo,           \* the packets in the banks
    resets,
    asked,          \* requests the host has sent
    first,          \* history: the first request since the device was configured
    got,            \* history: what the host has received since then
    taken,          \* history: what main took last
    given,          \* history: the packet main gave last
    frames          \* history: the frames counted since the call set its timeout

driver == <<usb_configuration, count, UENUM, interrupts>>
caller == <<intr_state, pc, call, buffer, answering, todo, sent>>
bus == <<EORSTI, SOFI, setup, enabled0, endpoint, fifo>>
host == <<resets, asked, first, got>>
history == <<taken, given, frames>>
vars == <<driver, caller, bus, host, history>>

-----------------------------------------------------------------------------
(***************************************************************************)
(* The main program: usb_rawhid_recv and usb_rawhid_send, which differ in  *)
(* their endpoint and in the direction of the copy                         *)
(***************************************************************************)

Goes(from, to) == pc = from /\ pc' = to
Same == UNCHANGED <<call, buffer, answering, todo, sent>>

\* main calls usb_rawhid_send while it has something to send
CallSend ==
    /\ Goes("loop", "check")
    /\ todo > 0
    /\ call' = TX
    /\ buffer' = Reply(sent + 1, answering)
    /\ sent' = sent + 1 /\ todo' = todo - 1
    /\ UNCHANGED <<driver, intr_state, answering, bus, host, history>>

CallRecv ==
    /\ Goes("loop", "check")
    /\ todo = 0
    /\ call' = RX
    /\ UNCHANGED <<driver, intr_state, buffer, answering, todo, sent, bus, host, history>>

Least(m, n) == IF m < n THEN m ELSE n

\* What main does with what a call returned: a packet received is answered,
\* the result of a send is not looked at (example.c:242), and step_program
\* may send an event.
Return(received) ==
    /\ pc' = "loop"
    /\ UNCHANGED <<call, buffer, sent>>
    /\ IF call = TX THEN UNCHANGED <<answering, todo>>
       ELSE \/ /\ received
               /\ answering' = buffer.of
               /\ todo' \in 0..Least(MaxReplies, MaxSent - sent)
            \/ /\ ~received
               /\ answering' = 0
               /\ todo' \in 0..Least(1, MaxSent - sent)

\* if (!usb_configuration) return -1
Offline(at) ==
    /\ pc = at /\ usb_configuration = 0
    /\ Return(FALSE)
    /\ UNCHANGED <<driver, intr_state, bus, host, history>>

Online(at, to) ==
    /\ Goes(at, to) /\ usb_configuration # 0
    /\ Same
    /\ UNCHANGED <<driver, intr_state, bus, host, history>>

\* intr_state = SREG
Save(at, to) ==
    /\ Goes(at, to)
    /\ intr_state' = interrupts
    /\ Same
    /\ UNCHANGED <<driver, bus, host, history>>

Cli(at, to) ==
    /\ Goes(at, to)
    /\ interrupts' = FALSE
    /\ Same
    /\ UNCHANGED <<usb_configuration, count, UENUM, intr_state, bus, host, history>>

BugArmed == count' = [count EXCEPT ![call] = IF @ = 0 THEN Timeout(call) ELSE @] \* mutant: only once
Armed == count' = [count EXCEPT ![call] = Timeout(call)]
Arm ==
    /\ Goes("arm", "select")
    /\ Armed
    /\ frames' = 0
    /\ Same
    /\ UNCHANGED <<usb_configuration, UENUM, interrupts, intr_state, bus, host, taken, given>>

Select ==
    /\ Goes("select", "poll")
    /\ UENUM' = call
    /\ Same
    /\ UNCHANGED <<usb_configuration, count, interrupts, intr_state, bus, host, history>>

\* RWAL of an endpoint: a packet to read, a bank to write, and no stall
Ready(e) ==
    /\ e \in Endpoints
    /\ endpoint[e] = "enabled"
    /\ IF e = RX THEN fifo[e] # <<>> ELSE Len(fifo[e]) < Banks

Poll ==
    /\ pc = "poll"
    /\ pc' = IF Ready(UENUM) THEN "transfer" ELSE "restore"
    /\ Same
    /\ UNCHANGED <<driver, intr_state, bus, host, history>>

BugRestore == UNCHANGED interrupts \* mutant: interrupts stay off
RestoreSREG == interrupts' = intr_state

Restore ==
    /\ Goes("restore", "count")
    /\ RestoreSREG
    /\ Same
    /\ UNCHANGED <<usb_configuration, count, UENUM, intr_state, bus, host, history>>

BugTimedOut == \* mutant: a call that gives up flushes its endpoint
    /\ pc = "count" /\ count[call] = 0
    /\ fifo' = [fifo EXCEPT ![call] = <<>>]
    /\ Return(FALSE)
    /\ UNCHANGED <<driver, intr_state, EORSTI, SOFI, setup, enabled0, endpoint, host, history>>
TimedOut ==
    /\ pc = "count" /\ count[call] = 0
    /\ Return(FALSE)
    /\ UNCHANGED <<driver, intr_state, bus, host, history>>

NotYet ==
    /\ Goes("count", "config") /\ count[call] # 0
    /\ Same
    /\ UNCHANGED <<driver, intr_state, bus, host, history>>

Release == fifo' = IF Ready(UENUM) THEN [fifo EXCEPT ![UENUM] = Tail(@)] ELSE fifo

\* The bytes are copied and the bank released. A bus reset may have taken
\* the bank since it was looked at: what is read then is any byte the
\* endpoint gives, a packet of no request, and what is written is lost.
ReadPacket ==
    /\ Goes("transfer", "finish") /\ call = RX
    /\ buffer' = IF Ready(UENUM) THEN Head(fifo[UENUM]) ELSE Garbage
    /\ Release
    /\ taken' = buffer'
    /\ UNCHANGED <<driver, intr_state, call, answering, todo, sent, EORSTI, SOFI, setup, enabled0,
                   endpoint, host, given, frames>>

WritePacket ==
    /\ Goes("transfer", "finish") /\ call = TX
    /\ fifo' = IF Ready(UENUM) THEN [fifo EXCEPT ![UENUM] = Append(@, buffer)] ELSE fifo
    /\ given' = buffer
    /\ Same
    /\ UNCHANGED <<driver, intr_state, EORSTI, SOFI, setup, enabled0, endpoint, host, taken, frames>>

Finish ==
    /\ pc = "finish"
    /\ RestoreSREG
    /\ Return(call = RX)
    /\ UNCHANGED <<usb_configuration, count, UENUM, intr_state, bus, host, history>>

Main ==
    \/ CallSend \/ CallRecv
    \/ Offline("check") \/ Online("check", "save")
    \/ Save("save", "cli") \/ Cli("cli", "arm") \/ Arm
    \/ Select \/ Poll \/ ReadPacket \/ WritePacket \/ Finish
    \/ Restore \/ TimedOut \/ NotYet
    \/ Offline("config") \/ Online("config", "save again")
    \/ Save("save again", "cli again") \/ Cli("cli again", "select")

-----------------------------------------------------------------------------
(***************************************************************************)
(* The interrupts                                                          *)
(***************************************************************************)

BugCountDown(e) == count[e] - 1 \* mutant: without the test
BugStopsAtOne(e) == IF count[e] > 1 THEN count[e] - 1 ELSE count[e] \* mutant: off by one
CountDown(e) == IF count[e] > 0 THEN count[e] - 1 ELSE 0

\* ISR(USB_GEN_vect)
GenInterrupt ==
    /\ interrupts /\ (EORSTI \/ SOFI)
    /\ EORSTI' = FALSE /\ SOFI' = FALSE
    /\ UENUM' = IF EORSTI THEN 0 ELSE UENUM
    /\ enabled0' = (enabled0 \/ EORSTI)
    /\ usb_configuration' = IF EORSTI THEN 0 ELSE usb_configuration
    /\ count' = IF SOFI /\ usb_configuration' # 0 THEN [e \in Endpoints |-> CountDown(e)] ELSE count
    /\ frames' = IF SOFI THEN Least(frames + 1, TxTimeout + RxTimeout) ELSE frames
    /\ UNCHANGED <<interrupts, caller, setup, endpoint, fifo, host, taken, given>>

\* SET_CONFIGURATION: both endpoints set up and, by UERST, emptied; a stall
\* is only withdrawn by STALLRQC
BugUERST == UNCHANGED fifo \* mutant: the endpoints are not reset
UERST == fifo' = [e \in Endpoints |-> <<>>]
SetConfiguration(v) ==
    /\ usb_configuration' = v
    /\ UENUM' = 4
    /\ endpoint' = [e \in Endpoints |-> IF endpoint[e] = "stalled" THEN "stalled" ELSE "enabled"]
    /\ UERST
    /\ first' = asked + 1 /\ got' = <<>>
    /\ UNCHANGED <<resets, asked>>

SetFeature(e) ==
    /\ UENUM' = e
    /\ endpoint' = [endpoint EXCEPT ![e] = "stalled"]
    /\ UNCHANGED <<usb_configuration, fifo, host>>

ClearFeature(e) ==
    /\ UENUM' = e
    /\ endpoint' = [endpoint EXCEPT ![e] = "enabled"]
    /\ fifo' = [fifo EXCEPT ![e] = <<>>]
    /\ UNCHANGED <<usb_configuration, host>>

\* ISR(USB_COM_vect)
ComInterrupt ==
    /\ interrupts /\ setup # None /\ ~EORSTI
    /\ \/ \E v \in {0, 1} : setup = Configure(v) /\ SetConfiguration(v)
       \/ \E e \in Endpoints : setup = <<"SET_FEATURE", e>> /\ SetFeature(e)
       \/ \E e \in Endpoints : setup = <<"CLEAR_FEATURE", e>> /\ ClearFeature(e)
    /\ setup' = None
    /\ UNCHANGED <<count, interrupts, caller, EORSTI, SOFI, enabled0, history>>

-----------------------------------------------------------------------------
(***************************************************************************)
(* The host and the bus                                                    *)
(***************************************************************************)

\* The controller drops its endpoints; the interrupt finds out.
BusReset ==
    /\ resets < MaxResets
    /\ resets' = resets + 1
    /\ EORSTI' = TRUE
    /\ enabled0' = FALSE /\ setup' = None
    /\ endpoint' = [e \in Endpoints |-> "disabled"]
    /\ fifo' = [e \in Endpoints |-> <<>>]
    /\ UNCHANGED <<driver, caller, SOFI, asked, first, got, history>>

Frame ==
    /\ SOFI' = TRUE
    /\ UNCHANGED <<driver, caller, EORSTI, setup, enabled0, endpoint, fifo, host, history>>

\* A host configures a device before it uses its endpoints.
Setup(r) ==
    /\ enabled0 /\ setup = None
    /\ r[1] # "SET_CONFIGURATION" => usb_configuration # 0 /\ endpoint[r[2]] # "disabled"
    /\ setup' = r
    /\ UNCHANGED <<driver, caller, EORSTI, SOFI, enabled0, endpoint, fifo, host, history>>

HostSends ==
    /\ endpoint[RX] = "enabled" /\ Len(fifo[RX]) < Banks /\ asked < MaxRequests
    /\ asked' = asked + 1
    /\ fifo' = [fifo EXCEPT ![RX] = Append(@, Request(asked + 1))]
    /\ UNCHANGED <<driver, caller, EORSTI, SOFI, setup, enabled0, endpoint, resets, first, got, history>>

HostReads ==
    /\ endpoint[TX] = "enabled" /\ fifo[TX] # <<>>
    /\ got' = Append(got, Head(fifo[TX]))
    /\ fifo' = [fifo EXCEPT ![TX] = Tail(@)]
    /\ UNCHANGED <<driver, caller, EORSTI, SOFI, setup, enabled0, endpoint, resets, asked, first, history>>

Init ==
    /\ usb_configuration = 0
    /\ count = [e \in Endpoints |-> 0]
    /\ UENUM = 0
    /\ interrupts = TRUE /\ intr_state = TRUE
    /\ pc = "loop" /\ call = RX /\ buffer = Garbage
    /\ answering = 0 /\ todo = 0 /\ sent = 0
    /\ EORSTI = FALSE /\ SOFI = FALSE /\ setup = None /\ enabled0 = FALSE
    /\ endpoint = [e \in Endpoints |-> "disabled"]
    /\ fifo = [e \in Endpoints |-> <<>>]
    /\ resets = 0 /\ asked = 0 /\ first = 1 /\ got = <<>>
    /\ taken = Garbage /\ given = Garbage /\ frames = 0

Next ==
    \/ Main \/ GenInterrupt \/ ComInterrupt
    \/ BusReset \/ Frame \/ HostSends \/ HostReads
    \/ \E r \in Controls : Setup(r)

Spec == Init /\ [][Next]_vars

\* The main program runs; a pending interrupt is taken at the next
\* instruction that finds interrupts on, though calls turn them off again.
Runs == WF_vars(Main) /\ SF_vars(GenInterrupt) /\ SF_vars(ComInterrupt)
\* The host's bus sends a start of frame every millisecond.
FramesGoOn == WF_vars(Frame)

FairSpec == Spec /\ Runs /\ FramesGoOn
-----------------------------------------------------------------------------
(***************************************************************************)
(* Properties                                                              *)
(***************************************************************************)

Masked == {"arm", "select", "poll", "transfer", "finish", "restore"}
Places == Masked \cup {"loop", "check", "save", "cli", "count", "config", "save again", "cli again"}
Requests == [id : {0}, of : 1..MaxRequests]
Replies == [id : 1..MaxSent, of : 0..MaxRequests]

TypeOK ==
    /\ usb_configuration \in {0, 1}
    /\ count \in [Endpoints -> Nat] /\ \A e \in Endpoints : count[e] <= Timeout(e)
    /\ UENUM \in {0, TX, RX, 4}
    /\ interrupts \in BOOLEAN /\ intr_state \in BOOLEAN
    /\ pc \in Places /\ call \in Endpoints
    /\ buffer \in {Garbage} \cup Requests \cup Replies
    /\ answering \in 0..MaxRequests
    /\ todo \in 0..MaxSent /\ sent \in 0..MaxSent /\ sent + todo <= MaxSent
    /\ EORSTI \in BOOLEAN /\ SOFI \in BOOLEAN /\ enabled0 \in BOOLEAN
    /\ setup \in AllControls \cup {None}
    /\ endpoint \in [Endpoints -> {"disabled", "enabled", "stalled"}]
    /\ fifo \in [Endpoints -> Seq(Requests) \cup Seq(Replies)]
    /\ \A e \in Endpoints : Len(fifo[e]) <= Banks
    /\ fifo[RX] \in Seq(Requests) /\ fifo[TX] \in Seq(Replies) /\ got \in Seq(Replies)
    /\ resets \in 0..MaxResets /\ asked \in 0..MaxRequests /\ first \in 1..(MaxRequests + 1)
    /\ taken \in {Garbage} \cup Requests /\ given \in {Garbage} \cup Replies /\ frames \in Nat

\* Whatever the interrupts do to UENUM between a call's looks at the FIFO,
\* the FIFO it looks at and moves a packet through is its own endpoint's,
\* and interrupts are off there and on again whenever it waits or returns.
OwnEndpoint ==
    /\ pc \in {"poll", "transfer"} => UENUM = call
    /\ interrupts <=> pc \notin Masked

\* A call that gives up has seen as many frames as it was told to wait.
WaitsItsTime == pc = "count" /\ count[call] = 0 => frames >= Timeout(call)

\* The host receives replies in the order they were sent, each at most once,
\* although sends give up unnoticed; and those it never asked for in this
\* configuration are all of one request, the one being answered when it
\* configured the device.
Stale(p) == p.of \in 1 .. (first - 1)
RepliesInOrder ==
    \A i, j \in 1..Len(got) :
        i < j => /\ got[i].id < got[j].id
                 /\ Stale(got[i]) /\ Stale(got[j]) => got[i].of = got[j].of

\* What keeps it so: packets on their way follow those received and the one a
\* call holds follows both; until main takes another request they answer the
\* same one, and the requests it may take are all of this configuration.
Outgoing == got \o fifo[TX]
Unsent == IF call = TX /\ pc \notin {"loop", "finish"} THEN 1 ELSE 0
OrderInv ==
    /\ first <= asked + 1
    /\ \A i \in 1..Len(fifo[RX]) : ~Stale(fifo[RX][i])
    /\ call = RX /\ pc = "finish" => ~Stale(buffer)
    /\ call = TX /\ pc # "loop" => buffer = Reply(sent, answering)
    /\ \A i \in 1..Len(Outgoing) : Outgoing[i].id + Unsent <= sent
    /\ \A i, j \in 1..Len(Outgoing) : i < j => Outgoing[i].id < Outgoing[j].id
    /\ \A i, j \in 1..Len(Outgoing) :
            Stale(Outgoing[i]) /\ Stale(Outgoing[j]) => Outgoing[i].of = Outgoing[j].of
    /\ Stale(Request(answering)) =>
           \A i \in 1..Len(Outgoing) : Stale(Outgoing[i]) => Outgoing[i].of = answering

\* The driver's calls, with the interrupts falling anywhere in them, are a
\* link of two queues: no packet is taken twice or out of order, none is
\* dropped but by a bus reset or by the request that empties its endpoint
\* (862-863, 896-901), and a call that returns a packet nobody sent, or sends
\* one to nobody, does so only with a reset that the device has not seen.
Link == INSTANCE PacketLink WITH
    Depth <- Banks, Nothing <- Garbage, Controls <- AllControls,
    EmptyToDevice <- Configurations \cup {<<"CLEAR_FEATURE", RX>>},
    EmptyToHost <- Configurations \cup {<<"CLEAR_FEATURE", TX>>},
    toDevice <- fifo[RX], toHost <- fifo[TX], request <- setup, reset <- EORSTI
LinkSpec == Link!Spec

\* From some time on the host leaves the configuration as it is.
ConfigurationSettles == <>[][usb_configuration' = usb_configuration]_vars

\* "send a packet, with timeout" (488): a call ends, though its endpoint is
\* full, empty, stalled or gone, unless the host takes the configuration away
\* and gives it back again and again: a frame is counted only with one (740).
CallsEnd == ConfigurationSettles => (pc # "loop" ~> pc = "loop")
=============================================================================
