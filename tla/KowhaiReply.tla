----------------------------- MODULE KowhaiReply -----------------------------
(***************************************************************************)
(* How the kowhai server answers with more data than a packet holds: the   *)
(* loops of src/teensy/usb_rawhid/kowhai/kowhai_protocol_server.c that cut *)
(* a tree or function list, the symbol list, a node's data, a descriptor,  *)
(* a function's result or an event into packets, together with the codec's *)
(* kowhai_protocol_get_overhead and kowhai_protocol_create.                *)
(*                                                                         *)
(* One behaviour is one reply. A byte is the pair of the string it belongs *)
(* to, 0 for a reply that is not a string list, and its position in the    *)
(* string, list, node or buffer. The packet is built in the buffer the     *)
(* request was received in: the node's data and the symbol list are first  *)
(* copied to a scratch part of it, while the request's symbols, which the  *)
(* reply repeats, still lie there.                                         *)
(***************************************************************************)
EXTENDS Integers, Sequences, SequencesExt

CONSTANTS
    MaxPacket,  \* server->max_packet_size
    Requests    \* what is asked for, see RequestsAssumption

VARIABLES
    request,    \* the request being answered
    offset,     \* payload.spec.*.offset
    left,       \* the local "size": bytes still to send
    copy,       \* _copy_string_list_to_buffer: its i, marker, offset and room
    scratch,    \* what the scratch part of the buffer has been filled with
    packets,    \* the packets sent
    received,   \* the bytes they held, one after the other
    phase       \* "filling" the buffer, "sending" it, or "done"

vars == <<request, offset, left, copy, scratch, packets, received, phase>>

Kinds == {"id_list", "symbol_list", "read", "descriptor", "result", "event"}

\* the symbol path of a read: its number of symbols
Symbols(r) == IF r.kind = "read" THEN r.symbols ELSE 0

StringsSize(strings) == FoldLeft(LAMBDA sum, length : sum + length, 0, strings)

\* how many bytes the reply has in all. A read of a later array element is
\* shortened by the elements before it.
Total(r) ==
    CASE r.kind = "symbol_list" -> StringsSize(r.strings)
      [] r.kind = "read" -> IF r.count > 1 THEN r.size - (r.size \div r.count) * r.index ELSE r.size
      [] OTHER -> r.size

IntMax == 32767      \* an int of the Teensy
OffsetRange == 65536 \* a uint16_t

Header == 3         \* sizeof(struct kowhai_protocol_header_t)
ScratchPrefix == 11 \* on AVR: sizeof(kowhai_protocol_t) less its two pointers

BugOverhead(r) == \* mutant: the symbols of a read forgotten
    Header + CASE r.kind = "read" -> 8
               [] r.kind \in {"id_list", "descriptor"} -> 6
               [] r.kind = "symbol_list" -> 10
               [] r.kind \in {"result", "event"} -> 4

\* kowhai_protocol_get_overhead, packed structures
Overhead(r) ==
    CASE r.kind = "read" -> ScratchPrefix + 4 * Symbols(r)
      [] r.kind \in {"id_list", "descriptor"} -> Header + 6
      [] r.kind = "symbol_list" -> Header + 10
      [] r.kind \in {"result", "event"} -> Header + 4

\* kowhai_protocol_create: what it writes before the payload
Prefix(r) ==
    Header + CASE r.kind = "read" -> 1 + 4 * Symbols(r) + 6
               [] r.kind \in {"id_list", "descriptor"} -> 6
               [] r.kind = "symbol_list" -> 10
               [] r.kind \in {"result", "event"} -> 4

MaxPayload == MaxPacket - Overhead(request)

\* The replies of this firmware: a descriptor no deeper than leaves room for
\* data in a packet, and data that an int of the Teensy can count. A node is
\* an array of count elements of one size (kowhai_get_node_size multiplies).
RequestAssumption(r) ==
    /\ r.kind \in Kinds
    /\ r.symbols \in Nat
    /\ r.strings \in Seq(Nat \ {0})
    /\ r.size \in Nat
    /\ r.count \in Nat \ {0}
    /\ r.index \in 0..(r.count - 1)
    /\ r.kind = "read" => r.size = (r.size \div r.count) * r.count
    /\ Total(r) \in 0..IntMax
    /\ Overhead(r) < MaxPacket

ASSUME RequestsAssumption ==
    /\ MaxPacket \in 1..IntMax
    /\ \A r \in Requests : RequestAssumption(r)

-----------------------------------------------------------------------------
(***************************************************************************)
(* What a packet holds                                                     *)
(***************************************************************************)

StringBytes(i, from, size) == [k \in 1..size |-> <<i, from + k - 1>>]

\* the first byte of the node's data that a read of an array element wants
FirstByte(r) == IF r.kind = "read" THEN (r.size \div r.count) * r.index ELSE 0

\* the arguments and locals of _copy_string_list_to_buffer at its start
CopyFrom(from) == [i |-> 1, marker |-> 0, offset |-> from, room |-> MaxPayload]

\* the first size bytes of the payload; what was not filled is what the
\* buffer held before
Payload(size) == [k \in 1..size |-> IF k <= Len(scratch) THEN scratch[k] ELSE <<-1, k>>]

Packet(size, end) == [offset |-> offset, size |-> size, end |-> end]

-----------------------------------------------------------------------------
Init ==
    /\ request \in Requests
    /\ offset = 0
    /\ left = Total(request)
    /\ copy = CopyFrom(0)
    /\ scratch = <<>>
    /\ packets = <<>>
    /\ received = <<>>
    /\ phase = "filling"

\* kowhai_read into the scratch, or the payload taken where it lies
Fill ==
    /\ phase = "filling" /\ request.kind # "symbol_list"
    /\ LET size == IF left > MaxPayload THEN MaxPayload ELSE left
       IN scratch' = [k \in 1..size |-> <<0, FirstByte(request) + offset + k - 1>>]
    /\ phase' = "sending"
    /\ UNCHANGED <<request, offset, left, copy, packets, received>>

BugCopyWhole == \* mutant: the room left in the packet not looked at
    /\ phase = "filling" /\ request.kind = "symbol_list"
    /\ copy.i <= Len(request.strings) /\ copy.room > 0
    /\ LET length == request.strings[copy.i]
           holds  == copy.marker + length >= copy.offset
           skip   == IF copy.marker < copy.offset THEN copy.offset - copy.marker ELSE 0
       IN /\ scratch' = IF holds THEN scratch \o StringBytes(copy.i, skip, length - skip) ELSE scratch
          /\ copy' = [i |-> copy.i + 1, marker |-> copy.marker + length,
                      offset |-> IF holds THEN copy.offset + length - skip ELSE copy.offset,
                      room |-> IF holds THEN copy.room - (length - skip) ELSE copy.room]
    /\ UNCHANGED <<request, offset, left, packets, received, phase>>

BugCopyString == \* mutant: a string reached in its middle is copied from its start
    /\ phase = "filling" /\ request.kind = "symbol_list"
    /\ copy.i <= Len(request.strings) /\ copy.room > 0
    /\ LET length == request.strings[copy.i]
           size   == IF length > copy.room THEN copy.room ELSE length
           holds  == copy.marker + length >= copy.offset
       IN /\ scratch' = IF holds THEN scratch \o StringBytes(copy.i, 0, size) ELSE scratch
          /\ copy' = [i |-> copy.i + 1, marker |-> copy.marker + length,
                      offset |-> IF holds THEN copy.offset + size ELSE copy.offset,
                      room |-> IF holds THEN copy.room - size ELSE copy.room]
    /\ UNCHANGED <<request, offset, left, packets, received, phase>>

\* One string of _copy_string_list_to_buffer: passed over if it ends before
\* the offset, else copied from the offset on while there is room.
CopyString ==
    /\ phase = "filling" /\ request.kind = "symbol_list"
    /\ copy.i <= Len(request.strings) /\ copy.room > 0
    /\ LET length == request.strings[copy.i]
           apart  == copy.marker - copy.offset
           skip   == IF apart < 0 THEN -apart ELSE apart
           size   == IF length - skip > copy.room THEN copy.room ELSE length - skip
           holds  == copy.marker + length >= copy.offset
       IN /\ scratch' = IF holds THEN scratch \o StringBytes(copy.i, skip, size) ELSE scratch
          /\ copy' = [i |-> copy.i + 1, marker |-> copy.marker + length,
                      offset |-> IF holds THEN copy.offset + size ELSE copy.offset,
                      room |-> IF holds THEN copy.room - size ELSE copy.room]
    /\ UNCHANGED <<request, offset, left, packets, received, phase>>

CopyDone ==
    /\ phase = "filling" /\ request.kind = "symbol_list"
    /\ copy.i > Len(request.strings) \/ copy.room = 0
    /\ phase' = "sending"
    /\ UNCHANGED <<request, offset, left, copy, scratch, packets, received>>

BugSendFull == \* mutant: the offset moved by the packet, not by its payload
    /\ phase = "sending" /\ left > MaxPayload
    /\ packets' = Append(packets, Packet(MaxPayload, FALSE))
    /\ received' = received \o Payload(MaxPayload)
    /\ offset' = (offset + MaxPacket) % OffsetRange
    /\ left' = left - MaxPayload
    /\ copy' = CopyFrom(offset')
    /\ scratch' = <<>>
    /\ phase' = "filling"
    /\ UNCHANGED request

\* while (size > max_payload_size): a full packet; the offset is a uint16_t
SendFull ==
    /\ phase = "sending" /\ left > MaxPayload
    /\ packets' = Append(packets, Packet(MaxPayload, FALSE))
    /\ received' = received \o Payload(MaxPayload)
    /\ offset' = (offset + MaxPayload) % OffsetRange
    /\ left' = left - MaxPayload
    /\ copy' = CopyFrom(offset')
    /\ scratch' = <<>>
    /\ phase' = "filling"
    /\ UNCHANGED request

\* the final packet
SendLast ==
    /\ phase = "sending" /\ left <= MaxPayload
    /\ packets' = Append(packets, Packet(left, TRUE))
    /\ received' = received \o Payload(left)
    /\ phase' = "done"
    /\ UNCHANGED <<request, offset, left, copy, scratch>>

Next == Fill \/ CopyString \/ CopyDone \/ SendFull \/ SendLast

Spec == Init /\ [][Next]_vars

-----------------------------------------------------------------------------
(***************************************************************************)
(* Properties                                                              *)
(***************************************************************************)

TypeOK ==
    /\ request \in Requests
    /\ offset \in 0..IntMax
    /\ left \in 0..IntMax
    /\ copy \in [i : Nat \ {0}, marker : Nat, offset : Nat, room : Nat]
    /\ scratch \in Seq(Int \X Int) /\ Len(scratch) <= MaxPayload
    /\ packets \in Seq([offset : Nat, size : Nat, end : BOOLEAN])
    /\ received \in Seq(Int \X Int)
    /\ phase \in {"filling", "sending", "done"}

EndOf(packet) == packet.offset + packet.size

\* The packets lie end to end from 0 to the total, exactly the last of them
\* is marked as the end, and none is empty unless the whole reply is: a host
\* that puts each payload at its offset has every byte once.
PacketsTile ==
    /\ packets # <<>> => packets[1].offset = 0
    /\ \A k \in 1..(Len(packets) - 1) :
          packets[k + 1].offset = EndOf(packets[k]) /\ ~packets[k].end
    /\ \A k \in 1..Len(packets) : packets[k].size = 0 => Total(request) = 0
    /\ phase = "done" => /\ packets # <<>>
                         /\ packets[Len(packets)].end
                         /\ EndOf(packets[Len(packets)]) = Total(request)

\* kowhai_protocol_create, whose result is ignored everywhere, never runs out
\* of packet, and the scratch part of the buffer begins after the symbols of
\* a read's request, which the next packet of the reply repeats from there.
PacketsFit ==
    /\ \A k \in 1..Len(packets) : Prefix(request) + packets[k].size <= MaxPacket
    /\ scratch # <<>> => Header + 1 + 4 * Symbols(request) <= Overhead(request)

\* The data sent is the data asked for: the strings one after the other, the
\* elements of an array node from the one named to the last, in order.
Wanted ==
    CASE request.kind = "symbol_list" ->
            FlattenSeq([i \in 1..Len(request.strings) |-> StringBytes(i, 0, request.strings[i])])
      [] request.kind = "read" ->
            LET element == request.size \div request.count
            IN [k \in 1..(element * (request.count - request.index)) |-> <<0, element * request.index + k - 1>>]
      [] OTHER -> [k \in 1..request.size |-> <<0, k - 1>>]
DataIntact == phase = "done" => received = Wanted

-----------------------------------------------------------------------------
(***************************************************************************)
(* Why the data arrives: what has been sent is the beginning of the data,  *)
(* what the buffer holds goes on from there and is enough for the packet,  *)
(* and the string copy stands where its marker and its offset say.         *)
(***************************************************************************)

\* where the n-th string of the list ends
EndOfString(strings, n) == StringsSize(SubSeq(strings, 1, n))

ReceivedSoFar ==
    /\ Len(received) = IF phase = "done" THEN Total(request) ELSE offset
    /\ \A k \in 1..Len(received) : received[k] = Wanted[k]

FilledSoFar ==
    phase # "done" =>
        /\ offset + Len(scratch) <= Total(request)
        /\ \A k \in 1..Len(scratch) : scratch[k] = Wanted[offset + k]
        /\ phase = "sending" => Len(scratch) >= left \/ Len(scratch) >= MaxPayload

CopyInPlace ==
    phase = "filling" /\ request.kind = "symbol_list" =>
        /\ copy.i <= Len(request.strings) + 1
        /\ copy.marker = EndOfString(request.strings, copy.i - 1)
        /\ copy.offset = offset + Len(scratch)

IntactInv == ReceivedSoFar /\ FilledSoFar /\ CopyInPlace
=============================================================================
