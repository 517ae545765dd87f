-------------------------- MODULE ControlTransfer --------------------------
(***************************************************************************)
(* The host's requests to endpoint 0 and ISR(USB_COM_vect), which answers  *)
(* them with interrupts off: src/teensy/usb_rawhid/usb_rawhid.c, 767-938.  *)
(* What the requests do to the other endpoints is in RawHid; here are      *)
(* their data and status stages, packet by packet, with the interrupt      *)
(* waiting for the host between two packets. Data are counted, not kept.   *)
(*                                                                         *)
(* The controller's side is taken from how the interrupt uses it: a        *)
(* request that is served empties the bank, a packet the host takes sets   *)
(* TXINI, a packet it sends sets RXOUTI, none moves while a request waits  *)
(* to be served, and a stall lasts until the next request. The host may    *)
(* end a read early, and may leave any transfer and begin another (USB     *)
(* 2.0, 8.5.3).                                                            *)
(***************************************************************************)
EXTENDS Integers

CONSTANTS
    wLengths,       \* how many bytes the hosts ask for
    Addresses,      \* the addresses they give
    MaxTransfers    \* bound: requests

ASSUME HostAssumption ==
    wLengths \subseteq Nat /\ Addresses \subseteq Nat /\ MaxTransfers \in Nat

ENDPOINT0_SIZE == 32
RAWHID_PACKET_SIZE == 64

\* The descriptors' sizes: bytes listed, or two for each character and the
\* terminator of a wide string.
DeviceSize == 18
HidReportSize == 28
Config1Size == 9 + 9 + 9 + 7 + 7
HidSize == 9
String0Size == 4
String1Size == 2 * (7 + 1)
String2Size == 2 * (20 + 1)

English == 1033 \* 0x0409

\* wValue is the descriptor's type and its number.
DescriptorList ==
    { [wValue |-> <<1, 0>>, wIndex |-> 0, length |-> DeviceSize],
      [wValue |-> <<2, 0>>, wIndex |-> 0, length |-> Config1Size],
      [wValue |-> <<34, 0>>, wIndex |-> 0, length |-> HidReportSize],
      [wValue |-> <<33, 0>>, wIndex |-> 0, length |-> HidSize],
      [wValue |-> <<3, 0>>, wIndex |-> 0, length |-> String0Size],
      [wValue |-> <<3, 1>>, wIndex |-> English, length |-> String1Size],
      [wValue |-> <<3, 2>>, wIndex |-> English, length |-> String2Size] }

Listed(r) == \E d \in DescriptorList : d.wValue = r.wValue /\ d.wIndex = r.wIndex
DescriptorLength(r) ==
    (CHOOSE d \in DescriptorList : d.wValue = r.wValue /\ d.wIndex = r.wIndex).length

\* The requests a host makes: a descriptor is read to a length of its own, a
\* report for its length or more, one is sent in any length, and the others
\* have the length they have.
Make(b, v, i, in, l) == [bRequest |-> b, wValue |-> v, wIndex |-> i, in |-> in, wLength |-> l]
None == Make("none", <<0, 0>>, 0, FALSE, 0)
ReadOf(d, l) == Make("GET_DESCRIPTOR", d.wValue, d.wIndex, TRUE, l)
OnEndpoint(f, e) == Make(f, <<0, 0>>, e, FALSE, 0)
Requests ==
    {ReadOf(d, l) : d \in DescriptorList, l \in wLengths}
    \cup {Make("GET_DESCRIPTOR", <<6, 0>>, 0, TRUE, 10)}  \* a device qualifier: it has none
    \cup {Make("SET_ADDRESS", <<0, a>>, 0, FALSE, 0) : a \in Addresses}
    \cup {Make("SET_CONFIGURATION", <<0, 1>>, 0, FALSE, 0),
          Make("GET_CONFIGURATION", <<0, 0>>, 0, TRUE, 1),
          Make("GET_STATUS", <<0, 0>>, 0, TRUE, 2)}
    \cup {OnEndpoint(f, e) : f \in {"SET_FEATURE", "CLEAR_FEATURE"}, e \in 0..2}
    \cup {Make("HID_GET_REPORT", <<1, 0>>, 0, TRUE, l) :
             l \in {n \in wLengths : n >= RAWHID_PACKET_SIZE}}
    \cup {Make("HID_SET_REPORT", <<2, 0>>, 0, FALSE, l) : l \in wLengths}
    \cup {Make("HID_SET_IDLE", <<0, 0>>, 0, FALSE, 0)} \* the interrupt knows none

Least(m, n) == IF m < n THEN m ELSE n

VARIABLES
    phase,          \* where the host is in its transfer; "left" in the middle of it
    request,        \* the request it made last
    received,       \* bytes of data it has received
    unsent,         \* bytes of data it has yet to send
    gaveUp,         \* it has ended the data stage early
    transfers,
    RXSTPI, RXOUTI, TXINI,
    bank,           \* the bytes in the bank, while TXINI is off
    STALLRQ,
    UDADDR,
    pc,             \* where the interrupt is; "idle" outside it
    len             \* what is left of its data

hostVars == <<phase, request, received, unsent, gaveUp, transfers>>
endpoint == <<RXSTPI, RXOUTI, TXINI, bank, STALLRQ>>
vars == <<hostVars, endpoint, UDADDR, pc, len>>

-----------------------------------------------------------------------------
(***************************************************************************)
(* The host                                                                *)
(***************************************************************************)

\* Between an address's status packet and the next request a device has two
\* milliseconds.
HostSetup(r) ==
    /\ phase \in {"idle", "left"} /\ ~RXSTPI /\ transfers < MaxTransfers
    /\ pc = "address" => ~TXINI
    /\ transfers' = transfers + 1
    /\ request' = r /\ received' = 0 /\ gaveUp' = FALSE
    /\ unsent' = IF r.in THEN 0 ELSE r.wLength
    /\ phase' = IF r.wLength = 0 THEN "status in" ELSE IF r.in THEN "data in" ELSE "data out"
    /\ RXSTPI' = TRUE /\ STALLRQ' = FALSE
    /\ UNCHANGED <<RXOUTI, TXINI, bank, UDADDR, pc, len>>

\* A data stage ends with the last byte asked for, or with a short packet.
HostIn ==
    /\ phase = "data in" /\ ~TXINI /\ ~RXSTPI
    /\ received' = received + bank
    /\ phase' = IF bank < ENDPOINT0_SIZE \/ received' >= request.wLength THEN "status out" ELSE phase
    /\ TXINI' = TRUE /\ bank' = 0
    /\ UNCHANGED <<request, unsent, gaveUp, transfers, RXSTPI, RXOUTI, STALLRQ, UDADDR, pc, len>>

HostGivesUp ==
    /\ phase = "data in" /\ ~RXSTPI /\ ~STALLRQ /\ received > 0
    /\ phase' = "status out" /\ gaveUp' = TRUE
    /\ UNCHANGED <<request, received, unsent, transfers, endpoint, UDADDR, pc, len>>

HostStatusOut ==
    /\ phase = "status out" /\ ~RXOUTI /\ ~RXSTPI
    /\ RXOUTI' = TRUE
    /\ phase' = "idle"
    /\ UNCHANGED <<request, received, unsent, gaveUp, transfers, RXSTPI, TXINI, bank, STALLRQ, UDADDR, pc, len>>

HostOut ==
    /\ phase = "data out" /\ ~RXOUTI /\ ~RXSTPI
    /\ RXOUTI' = TRUE
    /\ unsent' = unsent - Least(unsent, ENDPOINT0_SIZE)
    /\ phase' = IF unsent' = 0 THEN "status in" ELSE phase
    /\ UNCHANGED <<request, received, gaveUp, transfers, RXSTPI, TXINI, bank, STALLRQ, UDADDR, pc, len>>

HostStatusIn ==
    /\ phase = "status in" /\ ~TXINI /\ ~RXSTPI
    /\ TXINI' = TRUE /\ bank' = 0
    /\ phase' = "idle"
    /\ UNCHANGED <<request, received, unsent, gaveUp, transfers, RXSTPI, RXOUTI, STALLRQ, UDADDR, pc, len>>

\* The host has waited long enough, or has other things to do.
HostLeaves ==
    /\ phase \notin {"idle", "left"} /\ ~RXSTPI
    /\ phase' = "left"
    /\ UNCHANGED <<request, received, unsent, gaveUp, transfers, endpoint, UDADDR, pc, len>>

HostStalled ==
    /\ phase \notin {"idle", "left"} /\ STALLRQ
    /\ phase' = "idle"
    /\ UNCHANGED <<request, received, unsent, gaveUp, transfers, endpoint, UDADDR, pc, len>>

Host == HostIn \/ HostGivesUp \/ HostLeaves \/ HostStatusOut \/ HostOut \/ HostStatusIn \/ HostStalled
HostGoesOn == HostIn \/ HostStatusOut \/ HostOut \/ HostStatusIn \/ HostStalled

-----------------------------------------------------------------------------
(***************************************************************************)
(* The interrupt                                                           *)
(***************************************************************************)

\* UEINTX = ~((1<<RXSTPI) | (1<<RXOUTI) | (1<<TXINI)), then the request's
\* packets put n bytes into the bank, or none
Accept(b) == pc = "idle" /\ RXSTPI /\ request.bRequest = b /\ RXSTPI' = FALSE /\ RXOUTI' = FALSE
Empty == TXINI' = TRUE /\ bank' = 0
SendIn(n) == TXINI' = FALSE /\ bank' = n
Stays == UNCHANGED <<hostVars, UDADDR>>

Stall == STALLRQ' = TRUE /\ Empty /\ pc' = "idle" /\ len' = 0

BugReadLength(r, l) == l \* mutant: what the host asked for is not looked at
\* len = (wLength < 256) ? wLength : 255; if (len > desc_length) len = desc_length
ReadLength(r, l) == Least(Least(r.wLength, 255), l)

GetDescriptor ==
    /\ Accept("GET_DESCRIPTOR")
    /\ IF Listed(request)
       THEN Empty /\ pc' = "send" /\ len' = ReadLength(request, DescriptorLength(request)) /\ UNCHANGED STALLRQ
       ELSE Stall
    /\ Stays

HidGetReport ==
    /\ Accept("HID_GET_REPORT")
    /\ Empty /\ pc' = "send" /\ len' = RAWHID_PACKET_SIZE
    /\ UNCHANGED STALLRQ
    /\ Stays

\* if (i & (1<<RXOUTI)) return; // abort
Abort ==
    /\ pc = "send" /\ RXOUTI
    /\ pc' = "idle"
    /\ UNCHANGED <<endpoint, len>>
    /\ Stays

\* n = len < ENDPOINT0_SIZE ? len : ENDPOINT0_SIZE
Chunk(left) == Least(left, ENDPOINT0_SIZE)

BugMore(left, n) == left > 0 \* mutant: no empty packet after a full one
\* while (len || n == ENDPOINT0_SIZE)
More(left, n) == left > 0 \/ n = ENDPOINT0_SIZE

SendPacket ==
    LET n == Chunk(len)
    IN /\ pc = "send" /\ ~RXOUTI /\ TXINI
       /\ SendIn(n)
       /\ len' = len - n
       /\ pc' = IF More(len - n, n) THEN "send" ELSE "idle"
       /\ UNCHANGED <<RXSTPI, RXOUTI, STALLRQ>>
       /\ Stays

BugSetAddress == \* mutant: the address is taken before the host has the status packet
    /\ Accept("SET_ADDRESS")
    /\ SendIn(0) /\ pc' = "idle" /\ UDADDR' = request.wValue[2]
    /\ UNCHANGED <<STALLRQ, len, hostVars>>
SetAddress ==
    /\ Accept("SET_ADDRESS")
    /\ SendIn(0) /\ pc' = "address"
    /\ UNCHANGED <<STALLRQ, len>>
    /\ Stays

TakeAddress ==
    /\ pc = "address" /\ TXINI
    /\ UDADDR' = request.wValue[2]
    /\ pc' = "idle"
    /\ UNCHANGED <<hostVars, endpoint, len>>

\* SET_CONFIGURATION, and features of the endpoints that there are
SetConfiguration ==
    /\ Accept("SET_CONFIGURATION")
    /\ SendIn(0) /\ pc' = "idle"
    /\ UNCHANGED <<STALLRQ, len>>
    /\ Stays

Feature ==
    /\ Accept("SET_FEATURE") \/ Accept("CLEAR_FEATURE")
    /\ IF request.wIndex \in 1..4
       THEN SendIn(0) /\ pc' = "idle" /\ UNCHANGED <<STALLRQ, len>>
       ELSE Stall
    /\ Stays

GetShort(b, n) ==
    /\ Accept(b)
    /\ SendIn(n) /\ pc' = "idle"
    /\ UNCHANGED <<STALLRQ, len>>
    /\ Stays

HidSetReport ==
    /\ Accept("HID_SET_REPORT")
    /\ Empty /\ pc' = "receive" /\ len' = RAWHID_PACKET_SIZE
    /\ UNCHANGED STALLRQ
    /\ Stays

\* usb_wait_receive_out, usb_ack_out; after the last, usb_send_in
AckOut == RXOUTI' = FALSE
ReceivePacket ==
    LET n == Chunk(len)
    IN /\ pc = "receive" /\ RXOUTI
       /\ AckOut
       /\ len' = len - n
       /\ pc' = IF len - n > 0 THEN "receive" ELSE "answer"
       /\ UNCHANGED <<RXSTPI, TXINI, bank, STALLRQ>>
       /\ Stays

AnswerReport ==
    /\ pc = "answer" /\ TXINI
    /\ SendIn(0) /\ pc' = "idle"
    /\ UNCHANGED <<RXSTPI, RXOUTI, STALLRQ, len>>
    /\ Stays

Unknown ==
    /\ Accept("HID_SET_IDLE")
    /\ Stall
    /\ Stays

ISR ==
    \/ GetDescriptor \/ HidGetReport \/ Abort \/ SendPacket
    \/ SetAddress \/ TakeAddress \/ SetConfiguration \/ Feature
    \/ GetShort("GET_CONFIGURATION", 1) \/ GetShort("GET_STATUS", 2)
    \/ HidSetReport \/ ReceivePacket \/ AnswerReport \/ Unknown

Init ==
    /\ phase = "idle" /\ request = None /\ received = 0 /\ unsent = 0 /\ gaveUp = FALSE
    /\ transfers = 0
    /\ RXSTPI = FALSE /\ RXOUTI = FALSE /\ TXINI = TRUE /\ bank = 0 /\ STALLRQ = FALSE
    /\ UDADDR = 0
    /\ pc = "idle" /\ len = 0

Next == ISR \/ Host \/ \E r \in Requests : HostSetup(r)
Spec == Init /\ [][Next]_vars

\* A pending request interrupts, and a host goes on with what it began or
\* leaves it.
FairSpec == Spec /\ WF_vars(ISR) /\ WF_vars(HostGoesOn)
-----------------------------------------------------------------------------
(***************************************************************************)
(* Properties                                                              *)
(***************************************************************************)

\* What a read can answer: a descriptor of the list, a report of zeros, a
\* configuration, a status
Size(r) ==
    CASE r.bRequest = "GET_DESCRIPTOR" -> IF Listed(r) THEN DescriptorLength(r) ELSE 0
      [] r.bRequest = "HID_GET_REPORT" -> RAWHID_PACKET_SIZE
      [] r.bRequest = "GET_CONFIGURATION" -> 1
      [] r.bRequest = "GET_STATUS" -> 2
      [] OTHER -> 0

TypeOK ==
    /\ phase \in {"idle", "left", "data in", "data out", "status in", "status out"}
    /\ request \in Requests \cup {None}
    /\ received \in Nat /\ unsent \in Nat
    /\ gaveUp \in BOOLEAN /\ transfers \in 0..MaxTransfers
    /\ RXSTPI \in BOOLEAN /\ RXOUTI \in BOOLEAN /\ TXINI \in BOOLEAN /\ STALLRQ \in BOOLEAN
    /\ bank \in 0..ENDPOINT0_SIZE
    /\ UDADDR \in Addresses \cup {0}
    /\ pc \in {"idle", "send", "address", "receive", "answer"}
    /\ len \in 0..255

\* A read that the host does not give up ends with all it asked for, or
\* all there is, and it is never sent more than it asked for: the lengths of
\* 834-842 in 8 bits, packets of 32 and the empty one after a full one.
ReadsWhole ==
    /\ request.in => received <= request.wLength
    /\ phase = "status out" /\ ~gaveUp => received = Least(request.wLength, Size(request))

\* The device answers at its old address until the host has the status
\* packet of SET_ADDRESS (843-848).
OldAddressUntilStatus ==
    [][UDADDR' # UDADDR =>
          request.bRequest = "SET_ADDRESS" /\ phase = "idle" /\ UDADDR' = request.wValue[2]]_vars

\* The interrupt is still in a transfer that its host has left: it waits for
\* that transfer's packets, and does not look for a new request.
Deserted == pc # "idle" /\ (phase = "left" \/ RXSTPI)

\* The interrupt takes a report of two packets, whatever the request's length.
TwoPackets(l) == l \in (ENDPOINT0_SIZE + 1) .. (2 * ENDPOINT0_SIZE)
OddReport == request.bRequest = "HID_SET_REPORT" /\ ~TwoPackets(request.wLength)

\* A transfer that the host does not leave ends, be it given up as a read may
\* be or begun while another was left that the interrupt had ended: the
\* interrupt gives the main program back and the host its answer (774-938),
\* unless it is a report of fewer packets than two, or more (922-930).
Busy == phase \notin {"idle", "left"} \/ pc # "idle"
TransfersEnd == Busy ~> ~Busy \/ Deserted \/ OddReport

\* "receive a packet, with timeout", "send a packet, with timeout" (268, 488):
\* the main program is given the processor again and again, so that its calls
\* can time out, by a host that leaves no transfer. A report of one packet or
\* none keeps the interrupt at usb_wait_receive_out (926).
CallsCanTimeOut == [](phase # "left") => []<>(pc = "idle")
=============================================================================
