----------------------------- MODULE PacketLink -----------------------------
(***************************************************************************)
(* What the raw HID driver promises: two queues of packets, of Depth each, *)
(* that the host and the device's main program put into and take from in   *)
(* one step. A queue is emptied only by the host: when it resets the bus,  *)
(* or by a request that says so, once the device serves it. And the        *)
(* program is given a packet that nobody sent, or has one taken from it    *)
(* that nobody gets, only between a reset and the device's notice of it.   *)
(***************************************************************************)
EXTENDS Naturals, Sequences

CONSTANTS
    Depth, Requests, Replies,
    Nothing,        \* what is taken when no packet is there
    Controls,       \* the requests to endpoint 0
    Configurations, \* those of them that configure the device
    EmptyToDevice,  \* those that empty the queue to the device
    EmptyToHost,    \* those that empty the queue to the host
    None

VARIABLES
    toDevice,       \* the requests on their way
    toHost,         \* the replies on their way
    taken,          \* what the device took last
    given,          \* the reply it gave last
    got,            \* the replies the host took since it configured the device
    request,        \* the request the device has to serve
    resets,         \* how often the host has reset the bus
    reset           \* the device has yet to notice that it did

queues == <<toDevice, toHost>>
control == <<request, resets, reset>>
linkState == <<queues, taken, given, got, control>>

HostPuts ==
    /\ Len(toDevice) < Depth
    /\ \E p \in Requests : toDevice' = Append(toDevice, p)
    /\ UNCHANGED <<toHost, taken, given, got, control>>

DeviceTakes ==
    /\ toDevice # <<>>
    /\ taken' = Head(toDevice) /\ toDevice' = Tail(toDevice)
    /\ UNCHANGED <<toHost, given, got, control>>

\* The reset took the packet away between the look and the copy.
DeviceTakesNothing ==
    /\ reset
    /\ taken' = Nothing
    /\ UNCHANGED <<queues, given, got, control>>

DevicePuts ==
    /\ Len(toHost) < Depth
    /\ given' \in Replies /\ toHost' = Append(toHost, given')
    /\ UNCHANGED <<toDevice, taken, got, control>>

DevicePutsNowhere ==
    /\ reset
    /\ given' \in Replies
    /\ UNCHANGED <<queues, taken, got, control>>

HostTakes ==
    /\ toHost # <<>>
    /\ got' = Append(got, Head(toHost)) /\ toHost' = Tail(toHost)
    /\ UNCHANGED <<toDevice, taken, given, control>>

HostAsks ==
    /\ request = None /\ request' \in Controls
    /\ UNCHANGED <<queues, taken, given, got, resets, reset>>

DeviceServes ==
    /\ request # None /\ request' = None
    /\ toDevice' = IF request \in EmptyToDevice THEN <<>> ELSE toDevice
    /\ toHost' = IF request \in EmptyToHost THEN <<>> ELSE toHost
    /\ got' = IF request \in Configurations THEN <<>> ELSE got
    /\ UNCHANGED <<taken, given, resets, reset>>

HostResets ==
    /\ resets' = resets + 1 /\ reset' = TRUE
    /\ toDevice' = <<>> /\ toHost' = <<>> /\ request' = None
    /\ UNCHANGED <<taken, given, got>>

DeviceNotices ==
    /\ reset' = FALSE
    /\ UNCHANGED <<queues, taken, given, got, request, resets>>

Init ==
    /\ toDevice = <<>> /\ toHost = <<>> /\ got = <<>>
    /\ taken = Nothing /\ given = Nothing
    /\ request = None /\ resets = 0 /\ reset = FALSE

Next ==
    \/ HostPuts \/ DeviceTakes \/ DeviceTakesNothing
    \/ DevicePuts \/ DevicePutsNowhere \/ HostTakes
    \/ HostAsks \/ DeviceServes \/ HostResets \/ DeviceNotices

Spec == Init /\ [][Next]_linkState
=============================================================================
