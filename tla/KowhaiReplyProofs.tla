-------------------------- MODULE KowhaiReplyProofs --------------------------
(***************************************************************************)
(* Proofs about KowhaiReply, for every packet size and every request the   *)
(* assumption admits. The invariant adds to what is claimed of the packets *)
(* sent so far where the next one goes: what has been sent and what is     *)
(* left add up, the last packet ends at the offset, and the string copy    *)
(* never leaves the packet's room or passes the string it must continue.   *)
(*                                                                         *)
(* That the data arrives (RepliesIntact) also needs what StringsSize and   *)
(* FlattenSeq compute for a list of any length. They are recursions of the *)
(* community modules, written with CHOOSE: for each a function that        *)
(* satisfies the recursion is shown to exist, by induction on the length.  *)
(***************************************************************************)
EXTENDS KowhaiReply, SequenceTheorems, WellFoundedInduction, TLAPS

\* how much of the reply is accounted for
Balance == offset + left = Total(request)

\* the string copy has filled what room it lacks, and its next string does
\* not begin after the offset it is looking for
CopyInRoom ==
    /\ request.kind = "symbol_list" => Len(scratch) + copy.room = MaxPayload
    /\ copy.room > 0 => copy.marker <= copy.offset

\* the packets sent before the last one
SentSoFar ==
    phase # "done" =>
        /\ packets = <<>> => offset = 0
        /\ packets # <<>> => /\ EndOf(packets[Len(packets)]) = offset
                             /\ ~packets[Len(packets)].end
                             /\ left > 0

Sized == \A k \in 1..Len(packets) : packets[k].size <= MaxPayload

ReplyInv == TypeOK /\ Balance /\ CopyInRoom /\ SentSoFar /\ Sized /\ PacketsTile

-----------------------------------------------------------------------------
\* An int is no problem for a 16 bit offset.
LEMMA OffsetKeeps ==
    /\ IntMax \in Nat
    /\ \A n \in Nat : n <= IntMax => n % OffsetRange = n
  <1>1. IntMax \in Nat
    BY DEF IntMax
  <1>2. ASSUME NEW n \in Nat, n <= IntMax
        PROVE  n % OffsetRange = n
    BY <1>2, SMTT(60) DEF IntMax, OffsetRange
  <1> QED
    BY <1>1, <1>2

\* What the assumption gives of one request.
LEMMA RequestFacts ==
    ASSUME NEW r \in Requests
    PROVE  /\ Total(r) \in 0..IntMax
           /\ Overhead(r) \in Nat /\ MaxPacket - Overhead(r) \in 1..IntMax
           /\ Prefix(r) \in Nat /\ Prefix(r) <= Overhead(r)
           /\ r.strings \in Seq(Nat \ {0})
           /\ r.size \in Nat /\ r.count \in Nat \ {0} /\ r.index \in Nat
           /\ Symbols(r) \in Nat
           /\ Header + 1 + 4 * Symbols(r) <= Overhead(r)
  <1>1. RequestAssumption(r) /\ MaxPacket \in 1..IntMax
    BY RequestsAssumption
  <1>2. Symbols(r) \in Nat
    BY <1>1 DEF RequestAssumption, Symbols
  <1>3. r.kind \in Kinds
    BY <1>1 DEF RequestAssumption
  <1>4. Overhead(r) \in Nat /\ Overhead(r) >= 3
    BY <1>2, <1>3 DEF Overhead, Kinds, Header, ScratchPrefix
  <1>5. Prefix(r) \in Nat /\ Prefix(r) <= Overhead(r)
    BY <1>2, <1>3 DEF Overhead, Prefix, Kinds, Header, ScratchPrefix
  <1>6. Header + 1 + 4 * Symbols(r) <= Overhead(r)
    <2>1. CASE r.kind = "read"
      BY <1>2, <2>1 DEF Overhead, Header, ScratchPrefix
    <2>2. CASE r.kind # "read"
      BY <1>3, <2>2 DEF Overhead, Symbols, Header, Kinds
    <2> QED
      BY <2>1, <2>2
  <1>7. MaxPacket - Overhead(r) \in 1..IntMax
    <2>1. Overhead(r) < MaxPacket
      BY <1>1 DEF RequestAssumption
    <2>2. \A m \in 1..IntMax, o \in Nat : 3 <= o /\ o < m => m - o \in 1..IntMax
      BY OffsetKeeps
    <2> QED
      BY <1>1, <1>4, <2>1, <2>2
  <1>8. Total(r) \in 0..IntMax /\ r.strings \in Seq(Nat \ {0})
    BY <1>1 DEF RequestAssumption
  <1>9. r.size \in Nat /\ r.count \in Nat \ {0} /\ r.index \in Nat
    BY <1>1 DEF RequestAssumption
  <1> QED
    BY <1>2, <1>4, <1>5, <1>6, <1>7, <1>8, <1>9

\* A run of a string's bytes is a sequence of bytes.
LEMMA StringBytesType ==
    ASSUME NEW i \in Nat, NEW from \in Nat, NEW size \in Nat
    PROVE  /\ StringBytes(i, from, size) \in Seq(Int \X Int)
           /\ Len(StringBytes(i, from, size)) = size
           /\ \A k \in 1..size : StringBytes(i, from, size)[k] = <<i, from + k - 1>>
  BY DEF StringBytes

\* So is a packet's payload, whatever part of it the buffer was not filled.
LEMMA PayloadType ==
    ASSUME scratch \in Seq(Int \X Int), NEW size \in Nat
    PROVE  Payload(size) \in Seq(Int \X Int)
  BY DEF Payload

\* What holds of the packets when one more is appended.
LEMMA OneMore ==
    ASSUME NEW P \in Seq([offset : Nat, size : Nat, end : BOOLEAN]),
           NEW p \in [offset : Nat, size : Nat, end : BOOLEAN]
    PROVE  /\ Append(P, p) \in Seq([offset : Nat, size : Nat, end : BOOLEAN])
           /\ Append(P, p) # <<>>
           /\ Len(Append(P, p)) = Len(P) + 1 /\ Len(P) \in Nat
           /\ Append(P, p)[Len(P) + 1] = p
           /\ \A k \in 1..Len(P) : Append(P, p)[k] = P[k]
           /\ P = <<>> <=> Len(P) = 0
  OBVIOUS

-----------------------------------------------------------------------------
LEMMA InitInv == Init => ReplyInv
  <1> SUFFICES ASSUME Init PROVE ReplyInv
    OBVIOUS
  <1>1. request \in Requests
    BY DEF Init
  <1>2. Total(request) \in 0..IntMax /\ MaxPayload \in 1..IntMax
    BY <1>1, RequestFacts DEF MaxPayload
  <1>a. /\ offset = 0 /\ left = Total(request) /\ copy = CopyFrom(0) /\ scratch = <<>>
        /\ packets = <<>> /\ received = <<>> /\ phase = "filling"
    BY DEF Init
  <1>b. copy.room = MaxPayload /\ copy.marker = 0 /\ copy.offset = 0
    BY <1>a DEF CopyFrom
  <1>c. copy \in [i : Nat \ {0}, marker : Nat, offset : Nat, room : Nat]
    BY <1>2, <1>a, OffsetKeeps DEF CopyFrom
  <1>d. Len(scratch) = 0 /\ Len(packets) = 0 /\ scratch \in Seq(Int \X Int)
        /\ received \in Seq(Int \X Int)
        /\ packets \in Seq([offset : Nat, size : Nat, end : BOOLEAN])
    BY <1>a
  <1>e. offset \in 0..IntMax /\ Len(scratch) <= MaxPayload
    BY <1>2, <1>a, <1>d, OffsetKeeps
  <1>3. TypeOK
    BY <1>1, <1>2, <1>a, <1>c, <1>d, <1>e DEF TypeOK
  <1>f. Balance
    <2>1. \A t \in 0..IntMax : 0 + t = t
      BY OffsetKeeps
    <2> QED
      BY <1>2, <1>a, <2>1 DEF Balance
  <1>g. CopyInRoom
    BY <1>2, <1>b, <1>d, OffsetKeeps DEF CopyInRoom
  <1>h. phase # "done" /\ packets = <<>> /\ offset = 0 /\ Len(packets) = 0
    BY <1>a, <1>d
  <1>i. SentSoFar
    BY <1>h DEF SentSoFar
  <1>j. Sized
    BY <1>h DEF Sized
  <1>k. PacketsTile
    BY <1>h DEF PacketsTile
  <1>4. Balance /\ CopyInRoom /\ SentSoFar /\ Sized /\ PacketsTile
    BY <1>f, <1>g, <1>i, <1>j, <1>k
  <1> QED
    BY <1>3, <1>4 DEF ReplyInv

\* The steps that fill the buffer leave the packets and what is left alone.
LEMMA FillingStep ==
    ASSUME ReplyInv, Fill \/ CopyString \/ CopyDone
    PROVE  /\ UNCHANGED <<request, offset, left, packets, received>>
           /\ phase # "done" /\ phase' # "done" /\ phase' \in {"filling", "sending"}
           /\ MaxPayload' = MaxPayload
  BY DEF Fill, CopyString, CopyDone, MaxPayload

LEMMA FillingKeepsPackets ==
    ASSUME ReplyInv, Fill \/ CopyString \/ CopyDone
    PROVE  Balance' /\ SentSoFar' /\ Sized' /\ PacketsTile'
  <1> USE FillingStep
  <1>1. Balance'
    BY DEF ReplyInv, Balance
  <1>2. SentSoFar'
    BY DEF ReplyInv, SentSoFar
  <1>3. Sized'
    BY DEF ReplyInv, Sized
  <1>4. PacketsTile'
    BY DEF ReplyInv, PacketsTile
  <1> QED
    BY <1>1, <1>2, <1>3, <1>4

\* The arithmetic of one string that reaches the offset: a skipped part of
\* skip bytes, and as much of the rest as there is room for.
LEMMA OneString ==
    ASSUME NEW marker \in Nat, NEW at \in Nat, NEW length \in Nat, NEW room \in Nat, NEW size,
           marker <= at, marker + length >= at,
           size = IF length - (at - marker) > room THEN room ELSE length - (at - marker)
    PROVE  size \in Nat /\ size <= room /\ (size = room \/ at + size = marker + length)
  OBVIOUS

\* One string copied: the bytes taken fit the room, and the copy stands at
\* the end of the string, or at its place in it with no room left.
LEMMA CopyStringInv ==
    ASSUME ReplyInv, CopyString
    PROVE  TypeOK' /\ CopyInRoom'
  <1> DEFINE length == request.strings[copy.i]
             skip == IF copy.marker - copy.offset < 0 THEN -(copy.marker - copy.offset)
                     ELSE copy.marker - copy.offset
             size == IF length - skip > copy.room THEN copy.room ELSE length - skip
             holds == copy.marker + length >= copy.offset
  <1>1. /\ request \in Requests /\ scratch \in Seq(Int \X Int) /\ offset \in 0..IntMax
        /\ left \in 0..IntMax /\ received \in Seq(Int \X Int)
        /\ packets \in Seq([offset : Nat, size : Nat, end : BOOLEAN])
        /\ copy.i \in Nat \ {0} /\ copy.marker \in Nat /\ copy.offset \in Nat /\ copy.room \in Nat
    BY DEF ReplyInv, TypeOK
  <1>2. request.kind = "symbol_list" /\ copy.i <= Len(request.strings) /\ copy.room > 0
    BY DEF CopyString
  <1>3. Len(scratch) + copy.room = MaxPayload /\ copy.marker <= copy.offset
    BY <1>2 DEF ReplyInv, CopyInRoom
  <1>4. length \in Nat \ {0}
    <2>1. request.strings \in Seq(Nat \ {0})
      BY <1>1, RequestFacts
    <2>2. copy.i \in 1..Len(request.strings)
      BY <1>1, <1>2, <2>1
    <2> QED
      BY ONLY <2>1, <2>2, ElementOfSeq
  <1>5. skip \in Nat /\ skip = copy.offset - copy.marker
    <2>1. copy.marker \in Nat /\ copy.offset \in Nat /\ copy.marker <= copy.offset
      BY <1>1, <1>3
    <2> QED
      BY ONLY <2>1
  <1>6. holds => /\ size \in Nat /\ size <= copy.room
                 /\ size = copy.room \/ copy.offset + size = copy.marker + length
    <2>1. holds => copy.marker + length >= copy.offset
      OBVIOUS
    <2>2. size = IF length - (copy.offset - copy.marker) > copy.room THEN copy.room
                 ELSE length - (copy.offset - copy.marker)
      BY <1>5
    <2>3. /\ copy.marker \in Nat /\ copy.offset \in Nat /\ length \in Nat /\ copy.room \in Nat
          /\ copy.marker <= copy.offset
      BY <1>1, <1>3, <1>4
    <2> HIDE DEF length, skip, size, holds
    <2>4. CASE holds
      <3>1. copy.marker + length >= copy.offset
        BY <2>1, <2>4
      <3> QED
        BY ONLY <2>2, <2>3, <3>1, OneString
    <2> QED
      BY <2>4
  <1>7. MaxPayload \in Nat /\ MaxPayload' = MaxPayload
    BY <1>1, RequestFacts DEF CopyString, MaxPayload
  <1>8. /\ scratch' = IF holds THEN scratch \o StringBytes(copy.i, skip, size) ELSE scratch
        /\ copy' = [i |-> copy.i + 1, marker |-> copy.marker + length,
                    offset |-> IF holds THEN copy.offset + size ELSE copy.offset,
                    room |-> IF holds THEN copy.room - size ELSE copy.room]
        /\ UNCHANGED <<request, offset, left, packets, received, phase>>
    BY DEF CopyString
  <1>n. holds => copy.marker + length >= copy.offset
    OBVIOUS
  <1>m. ~holds => copy.marker + length < copy.offset
    BY <1>1, <1>4
  <1> HIDE DEF length, skip, size, holds
  <1>r. /\ copy'.i = copy.i + 1 /\ copy'.marker = copy.marker + length
        /\ copy'.offset = (IF holds THEN copy.offset + size ELSE copy.offset)
        /\ copy'.room = (IF holds THEN copy.room - size ELSE copy.room)
    BY <1>8
  <1>q. copy.i \in Nat \ {0} /\ copy.marker \in Nat /\ copy.offset \in Nat /\ copy.room \in Nat
    BY <1>1
  <1>s. copy'.room \in Nat
    BY ONLY <1>6, <1>q, <1>r
  <1>t. copy'.offset \in Nat
    BY ONLY <1>6, <1>q, <1>r
  <1>u. copy'.marker \in Nat /\ copy'.i \in Nat \ {0}
    BY ONLY <1>4, <1>q, <1>r
  <1>9. /\ scratch' \in Seq(Int \X Int)
        /\ Len(scratch') = IF holds THEN Len(scratch) + size ELSE Len(scratch)
    <2>1. CASE holds
      <3>1. /\ StringBytes(copy.i, skip, size) \in Seq(Int \X Int)
            /\ Len(StringBytes(copy.i, skip, size)) = size
        BY <1>1, <1>5, <1>6, <2>1, StringBytesType
      <3>2. scratch' = scratch \o StringBytes(copy.i, skip, size)
        BY <1>8, <2>1
      <3> HIDE DEF StringBytes
      <3> QED
        BY <1>1, <2>1, <3>1, <3>2, ConcatProperties
    <2>2. CASE ~holds
      BY <1>1, <1>8, <2>2
    <2> QED
      BY <2>1, <2>2
  <1>10. Len(scratch') + copy'.room = MaxPayload' /\ copy'.room \in Nat
    <2>1. Len(scratch) \in Nat
      BY <1>1
    <2>2. CASE holds
      <3>1. Len(scratch') = Len(scratch) + size /\ copy'.room = copy.room - size
        BY <1>9, <1>r, <2>2
      <3>2. size \in Nat /\ copy.room \in Nat
        BY <1>1, <1>6, <2>2
      <3>3. (Len(scratch) + size) + (copy.room - size) = Len(scratch) + copy.room
        BY ONLY <2>1, <3>2
      <3> QED
        BY <1>3, <1>7, <1>s, <3>1, <3>3
    <2>3. CASE ~holds
      BY <1>3, <1>7, <1>9, <1>r, <1>s, <2>3
    <2> QED
      BY <1>s, <2>2, <2>3
  <1>11. copy'.room > 0 => copy'.marker <= copy'.offset
    <2>1. CASE holds
      <3>1. size = copy.room => copy'.room = 0
        BY <1>1, <1>r, <2>1
      <3>2. copy.offset + size = copy.marker + length => copy'.marker <= copy'.offset
        BY <1>u, <1>r, <2>1
      <3> QED
        BY <1>6, <2>1, <3>1, <3>2
    <2>2. CASE ~holds
      BY <1>1, <1>4, <1>m, <1>r, <2>2
    <2> QED
      BY <2>1, <2>2
  <1>12. copy' \in [i : Nat \ {0}, marker : Nat, offset : Nat, room : Nat]
    <2>1. copy' = [i |-> copy'.i, marker |-> copy'.marker, offset |-> copy'.offset, room |-> copy'.room]
      BY <1>8
    <2> QED
      BY <1>s, <1>t, <1>u, <2>1
  <1>13. Len(scratch') \in Nat /\ Len(scratch') <= MaxPayload'
    <2>1. Len(scratch') \in Nat
      BY <1>9
    <2> QED
      BY <1>7, <1>10, <2>1
  <1>14. phase' \in {"filling", "sending", "done"}
    BY <1>8 DEF ReplyInv, TypeOK
  <1>15. TypeOK'
    BY <1>1, <1>8, <1>9, <1>12, <1>13, <1>14 DEF TypeOK
  <1> QED
    BY <1>8, <1>10, <1>11, <1>15 DEF CopyInRoom

\* Reading a node's data, or taking the payload where it lies: no more than
\* a packet's payload is filled.
LEMMA FillInv ==
    ASSUME ReplyInv, Fill
    PROVE  TypeOK' /\ CopyInRoom'
  <1> DEFINE size == IF left > MaxPayload THEN MaxPayload ELSE left
  <1>1. /\ request \in Requests /\ left \in 0..IntMax /\ offset \in 0..IntMax
        /\ copy \in [i : Nat \ {0}, marker : Nat, offset : Nat, room : Nat]
        /\ packets \in Seq([offset : Nat, size : Nat, end : BOOLEAN])
        /\ received \in Seq(Int \X Int)
    BY DEF ReplyInv, TypeOK
  <1>2. MaxPayload \in 1..IntMax /\ MaxPayload' = MaxPayload
    BY <1>1, RequestFacts DEF Fill, MaxPayload
  <1>3. size \in Nat /\ size <= MaxPayload
    <2>1. left \in Nat /\ MaxPayload \in Nat
      BY <1>1, <1>2
    <2> QED
      BY <2>1
  <1>4. /\ scratch' = [k \in 1..size |-> <<0, FirstByte(request) + offset + k - 1>>]
        /\ phase' = "sending" /\ request.kind # "symbol_list"
        /\ UNCHANGED <<request, offset, left, copy, packets, received>>
    BY DEF Fill
  <1>5. FirstByte(request) + offset \in Int
    <2>1. request.size \in Nat /\ request.count \in Nat \ {0} /\ request.index \in Nat
      BY <1>1, RequestFacts
    <2>2. request.size \div request.count \in Int
      BY <2>1
    <2>3. (request.size \div request.count) * request.index \in Int
      BY <2>1, <2>2
    <2> QED
      BY <1>1, <2>3, OffsetKeeps DEF FirstByte
  <1> HIDE DEF size
  <1>6. scratch' \in Seq(Int \X Int) /\ Len(scratch') = size
    <2>1. \A n, c \in Int : \A k \in 1..n : <<0, c + k - 1>> \in Int \X Int
      OBVIOUS
    <2>2. \A k \in 1..size : <<0, FirstByte(request) + offset + k - 1>> \in Int \X Int
      BY <1>3, <1>5, <2>1
    <2> QED
      BY <1>3, <1>4, <2>2
  <1>7. Len(scratch') <= MaxPayload'
    BY <1>2, <1>3, <1>6
  <1>8. TypeOK'
    BY <1>1, <1>4, <1>6, <1>7 DEF TypeOK
  <1>9. CopyInRoom'
    BY <1>4 DEF ReplyInv, CopyInRoom
  <1> QED
    BY <1>8, <1>9

LEMMA CopyDoneInv ==
    ASSUME ReplyInv, CopyDone
    PROVE  TypeOK' /\ CopyInRoom'
  <1>1. MaxPayload' = MaxPayload
    BY DEF CopyDone, MaxPayload
  <1>2. UNCHANGED <<request, offset, left, copy, scratch, packets, received>> /\ phase' = "sending"
    BY DEF CopyDone
  <1>3. TypeOK'
    BY <1>1, <1>2 DEF ReplyInv, TypeOK
  <1>4. CopyInRoom'
    BY <1>1, <1>2 DEF ReplyInv, CopyInRoom
  <1> QED
    BY <1>3, <1>4

\* Any packet that begins at the offset continues the packets sent.
LEMMA AppendTiles ==
    ASSUME ReplyInv, phase # "done", NEW size \in Nat, NEW end \in BOOLEAN,
           size <= MaxPayload, size = 0 => Total(request) = 0,
           packets' = Append(packets, Packet(size, end)), request' = request
    PROVE  /\ packets' \in Seq([offset : Nat, size : Nat, end : BOOLEAN])
           /\ packets' # <<>> /\ packets'[1].offset = 0
           /\ packets'[Len(packets')] = Packet(size, end)
           /\ EndOf(packets'[Len(packets')]) = offset + size
           /\ \A k \in 1..(Len(packets') - 1) :
                 packets'[k + 1].offset = EndOf(packets'[k]) /\ ~packets'[k].end
           /\ \A k \in 1..Len(packets') : packets'[k].size = 0 => Total(request) = 0
           /\ \A k \in 1..Len(packets') : packets'[k].size <= MaxPayload
  <1>1. /\ packets \in Seq([offset : Nat, size : Nat, end : BOOLEAN])
        /\ offset \in 0..IntMax
    BY DEF ReplyInv, TypeOK
  <1>2. Packet(size, end) \in [offset : Nat, size : Nat, end : BOOLEAN]
    BY <1>1, OffsetKeeps DEF Packet
  <1>3. /\ Packet(size, end).offset = offset /\ Packet(size, end).size = size
    BY DEF Packet
  <1> DEFINE n == Len(packets)
  <1>4. /\ packets' \in Seq([offset : Nat, size : Nat, end : BOOLEAN]) /\ packets' # <<>>
        /\ Len(packets') = n + 1 /\ n \in Nat
        /\ packets'[n + 1] = Packet(size, end)
        /\ \A k \in 1..n : packets'[k] = packets[k]
        /\ packets = <<>> <=> n = 0
    BY <1>1, <1>2, OneMore
  <1>5. /\ n = 0 => offset = 0
        /\ n # 0 => EndOf(packets[n]) = offset /\ ~packets[n].end
    BY <1>4 DEF ReplyInv, SentSoFar
  <1>6. /\ n # 0 => packets[1].offset = 0
        /\ \A k \in 1..(n - 1) : packets[k + 1].offset = EndOf(packets[k]) /\ ~packets[k].end
        /\ \A k \in 1..n : packets[k].size = 0 => Total(request) = 0
        /\ \A k \in 1..n : packets[k].size <= MaxPayload
    BY <1>4 DEF ReplyInv, PacketsTile, Sized
  <1> HIDE DEF n
  <1>7. packets'[1].offset = 0
    <2>1. CASE n = 0
      BY <1>3, <1>4, <1>5, <2>1
    <2>2. CASE n # 0
      <3>1. packets'[1] = packets[1]
        BY <1>4, <2>2
      <3> QED
        BY <1>6, <2>2, <3>1
    <2> QED
      BY <2>1, <2>2
  <1>8. packets'[Len(packets')] = Packet(size, end) /\ EndOf(packets'[Len(packets')]) = offset + size
    BY <1>3, <1>4 DEF EndOf
  <1>9. ASSUME NEW k \in 1..(Len(packets') - 1)
        PROVE  packets'[k + 1].offset = EndOf(packets'[k]) /\ ~packets'[k].end
    <2>1. k \in 1..n /\ packets'[k] = packets[k]
      BY <1>4
    <2>2. CASE k = n
      <3>1. packets'[k + 1].offset = offset
        BY <1>3, <1>4, <2>2
      <3>2. n # 0
        BY <1>4, <2>1
      <3> QED
        BY <1>5, <2>1, <2>2, <3>1, <3>2
    <2>3. CASE k # n
      <3>1. k \in 1..(n - 1) /\ k + 1 \in 1..n
        BY <1>4, <2>1, <2>3
      <3>2. packets'[k + 1] = packets[k + 1]
        BY <1>4, <3>1
      <3> QED
        BY <1>6, <2>1, <3>1, <3>2
    <2> QED
      BY <2>2, <2>3
  <1>10. ASSUME NEW k \in 1..Len(packets')
         PROVE  (packets'[k].size = 0 => Total(request) = 0) /\ packets'[k].size <= MaxPayload
    <2>1. CASE k = n + 1
      BY <1>3, <1>4, <2>1
    <2>2. CASE k # n + 1
      <3>1. k \in 1..n
        BY <1>4, <2>2
      <3> QED
        BY <1>4, <1>6, <3>1
    <2> QED
      BY <2>1, <2>2
  <1> QED
    BY <1>4, <1>7, <1>8, <1>9, <1>10

\* The arithmetic of a full packet.
LEMMA FullPacket ==
    ASSUME NEW max \in Nat,
           NEW at \in Nat, NEW rest \in Nat, NEW room \in Nat, NEW total \in 0..max,
           at + rest = total, rest > room
    PROVE  /\ at + room \in Nat /\ at + room <= max /\ at + room \in 0..max
           /\ rest - room \in 0..max /\ rest - room > 0
           /\ (at + room) + (rest - room) = total
  OBVIOUS

\* A full packet: there is more to come, so it is not the last.
LEMMA SendFullInv ==
    ASSUME ReplyInv, SendFull
    PROVE  ReplyInv'
  <1>1. /\ request \in Requests /\ offset \in 0..IntMax /\ left \in 0..IntMax
        /\ scratch \in Seq(Int \X Int) /\ received \in Seq(Int \X Int)
    BY DEF ReplyInv, TypeOK
  <1>2. /\ MaxPayload \in 1..IntMax /\ MaxPayload' = MaxPayload
        /\ Total(request) \in 0..IntMax
    BY <1>1, RequestFacts DEF SendFull, MaxPayload
  <1>3. /\ phase = "sending" /\ left > MaxPayload
        /\ packets' = Append(packets, Packet(MaxPayload, FALSE))
        /\ received' = received \o Payload(MaxPayload)
        /\ offset' = (offset + MaxPayload) % OffsetRange
        /\ left' = left - MaxPayload
        /\ copy' = CopyFrom(offset') /\ scratch' = <<>> /\ phase' = "filling"
        /\ request' = request
    BY DEF SendFull
  <1>4. offset + left = Total(request)
    BY DEF ReplyInv, Balance
  <1>5. /\ offset' = offset + MaxPayload /\ offset' \in 0..IntMax
        /\ left' \in 0..IntMax /\ left' > 0 /\ offset' + left' = Total(request)
    <2>1. offset \in Nat /\ left \in Nat /\ MaxPayload \in Nat /\ Total(request) \in 0..IntMax
      BY <1>1, <1>2, OffsetKeeps
    <2>2. left > MaxPayload /\ left' = left - MaxPayload
          /\ offset' = (offset + MaxPayload) % OffsetRange
      BY <1>3
    <2>3. /\ offset + MaxPayload \in Nat /\ offset + MaxPayload <= IntMax
          /\ offset + MaxPayload \in 0..IntMax
          /\ left - MaxPayload \in 0..IntMax /\ left - MaxPayload > 0
          /\ (offset + MaxPayload) + (left - MaxPayload) = Total(request)
      BY <1>4, <2>1, <2>2, FullPacket, OffsetKeeps
    <2>4. offset' = offset + MaxPayload
      BY <2>2, <2>3, OffsetKeeps
    <2> QED
      BY <2>2, <2>3, <2>4
  <1>6. MaxPayload \in Nat /\ MaxPayload # 0
    BY <1>2
  <1>7. /\ packets' \in Seq([offset : Nat, size : Nat, end : BOOLEAN])
        /\ packets' # <<>> /\ packets'[1].offset = 0
        /\ packets'[Len(packets')] = Packet(MaxPayload, FALSE)
        /\ EndOf(packets'[Len(packets')]) = offset + MaxPayload
        /\ \A k \in 1..(Len(packets') - 1) :
              packets'[k + 1].offset = EndOf(packets'[k]) /\ ~packets'[k].end
        /\ \A k \in 1..Len(packets') : packets'[k].size = 0 => Total(request) = 0
        /\ \A k \in 1..Len(packets') : packets'[k].size <= MaxPayload
    <2>1. phase # "done" /\ MaxPayload <= MaxPayload /\ FALSE \in BOOLEAN
      BY <1>3, <1>6
    <2>2. MaxPayload = 0 => Total(request) = 0
      BY <1>6
    <2> QED
      BY <1>3, <1>6, <2>1, <2>2, AppendTiles
  <1>8. copy' \in [i : Nat \ {0}, marker : Nat, offset : Nat, room : Nat]
        /\ copy'.room = MaxPayload /\ copy'.marker = 0 /\ copy'.offset = offset'
    <2>1. offset' \in Nat
      BY <1>5
    <2>2. copy' = [i |-> 1, marker |-> 0, offset |-> offset', room |-> MaxPayload]
      BY <1>2, <1>3 DEF CopyFrom
    <2> QED
      BY <1>6, <2>1, <2>2
  <1>9. received' \in Seq(Int \X Int)
    BY <1>1, <1>3, <1>6, PayloadType, ConcatProperties
  <1>10. scratch' \in Seq(Int \X Int) /\ Len(scratch') = 0
    BY <1>3
  <1>11. TypeOK'
    <2>1. Len(scratch') <= MaxPayload'
      BY <1>2, <1>6, <1>10
    <2>2. phase' \in {"filling", "sending", "done"}
      BY <1>3
    <2> QED
      BY <1>1, <1>3, <1>5, <1>7, <1>8, <1>9, <1>10, <2>1, <2>2 DEF TypeOK
  <1>12. Balance'
    BY <1>3, <1>5 DEF Balance
  <1>13. CopyInRoom'
    <2>1. Len(scratch') + copy'.room = MaxPayload'
      BY <1>2, <1>8, <1>10
    <2>2. copy'.marker <= copy'.offset
      BY <1>5, <1>8, OffsetKeeps
    <2> QED
      BY <2>1, <2>2 DEF CopyInRoom
  <1>14. SentSoFar'
    <2>1. ~packets'[Len(packets')].end
      BY <1>7 DEF Packet
    <2> QED
      BY <1>5, <1>7, <2>1 DEF SentSoFar
  <1>15. Sized'
    BY <1>2, <1>7 DEF Sized
  <1>16. PacketsTile'
    BY <1>3, <1>7 DEF PacketsTile
  <1> QED
    BY <1>11, <1>12, <1>13, <1>14, <1>15, <1>16 DEF ReplyInv

\* The last packet: empty only if nothing was ever left.
LEMMA SendLastInv ==
    ASSUME ReplyInv, SendLast
    PROVE  ReplyInv'
  <1>1. /\ request \in Requests /\ offset \in 0..IntMax /\ left \in 0..IntMax
        /\ scratch \in Seq(Int \X Int) /\ received \in Seq(Int \X Int)
        /\ copy \in [i : Nat \ {0}, marker : Nat, offset : Nat, room : Nat]
        /\ Len(scratch) <= MaxPayload
    BY DEF ReplyInv, TypeOK
  <1>2. MaxPayload' = MaxPayload
    BY DEF SendLast, MaxPayload
  <1>3. /\ phase = "sending" /\ left <= MaxPayload
        /\ packets' = Append(packets, Packet(left, TRUE))
        /\ received' = received \o Payload(left) /\ phase' = "done"
        /\ UNCHANGED <<request, offset, left, copy, scratch>>
    BY DEF SendLast
  <1>4. offset + left = Total(request)
    BY DEF ReplyInv, Balance
  <1>5. left \in Nat
    BY <1>1
  <1>6. left = 0 => Total(request) = 0
    <2>1. ASSUME left = 0 PROVE Total(request) = 0
      <3>1. packets = <<>>
        BY <1>3, <2>1 DEF ReplyInv, SentSoFar
      <3>2. offset = 0
        BY <1>3, <3>1 DEF ReplyInv, SentSoFar
      <3> QED
        BY <1>4, <2>1, <3>2
    <2> QED
      BY <2>1
  <1>7. /\ packets' \in Seq([offset : Nat, size : Nat, end : BOOLEAN])
        /\ packets' # <<>> /\ packets'[1].offset = 0
        /\ packets'[Len(packets')] = Packet(left, TRUE)
        /\ EndOf(packets'[Len(packets')]) = offset + left
        /\ \A k \in 1..(Len(packets') - 1) :
              packets'[k + 1].offset = EndOf(packets'[k]) /\ ~packets'[k].end
        /\ \A k \in 1..Len(packets') : packets'[k].size = 0 => Total(request) = 0
        /\ \A k \in 1..Len(packets') : packets'[k].size <= MaxPayload
    BY <1>3, <1>5, <1>6, AppendTiles
  <1>8. received' \in Seq(Int \X Int)
    BY <1>1, <1>3, <1>5, PayloadType, ConcatProperties
  <1>9. TypeOK'
    BY <1>1, <1>2, <1>3, <1>7, <1>8 DEF TypeOK
  <1>10. Balance' /\ CopyInRoom' /\ SentSoFar'
    <2>1. Balance'
      BY <1>3, <1>4 DEF Balance
    <2>2. CopyInRoom'
      BY <1>2, <1>3 DEF ReplyInv, CopyInRoom
    <2>3. SentSoFar'
      BY <1>3 DEF SentSoFar
    <2> QED
      BY <2>1, <2>2, <2>3
  <1>11. Sized'
    BY <1>2, <1>7 DEF Sized
  <1>12. PacketsTile'
    <2>1. packets'[Len(packets')].end
      BY <1>7 DEF Packet
    <2> QED
      BY <1>3, <1>4, <1>7, <2>1 DEF PacketsTile
  <1> QED
    BY <1>9, <1>10, <1>11, <1>12 DEF ReplyInv

LEMMA NextInv == ReplyInv /\ [Next]_vars => ReplyInv'
  <1> SUFFICES ASSUME ReplyInv, [Next]_vars PROVE ReplyInv'
    OBVIOUS
  <1>1. CASE Fill
    BY <1>1, FillInv, FillingKeepsPackets DEF ReplyInv
  <1>2. CASE CopyString
    BY <1>2, CopyStringInv, FillingKeepsPackets DEF ReplyInv
  <1>3. CASE CopyDone
    BY <1>3, CopyDoneInv, FillingKeepsPackets DEF ReplyInv
  <1>4. CASE SendFull
    BY <1>4, SendFullInv
  <1>5. CASE SendLast
    BY <1>5, SendLastInv
  <1>6. CASE UNCHANGED vars
    <2>1. /\ UNCHANGED <<request, offset, left, copy, scratch, packets, received, phase>>
          /\ MaxPayload' = MaxPayload
      BY <1>6 DEF vars, MaxPayload
    <2>2. TypeOK'
      BY <2>1 DEF ReplyInv, TypeOK
    <2>3. Balance' /\ CopyInRoom'
      BY <2>1 DEF ReplyInv, Balance, CopyInRoom
    <2>4. SentSoFar' /\ Sized' /\ PacketsTile'
      BY <2>1 DEF ReplyInv, SentSoFar, Sized, PacketsTile
    <2> QED
      BY <2>2, <2>3, <2>4 DEF ReplyInv
  <1> QED
    BY <1>1, <1>2, <1>3, <1>4, <1>5, <1>6 DEF Next

LEMMA ReplyInvariant == Spec => []ReplyInv
  BY InitInv, NextInv, PTL DEF Spec

\* For every packet size and every reply: the 16 bit offset never wraps, what
\* is left to send never falls below 0, and neither kowhai_read nor
\* _copy_string_list_to_buffer fills more than a packet has room for.
THEOREM RepliesTyped == Spec => []TypeOK
  <1>1. ReplyInv => TypeOK
    BY DEF ReplyInv
  <1> QED
    BY <1>1, ReplyInvariant, PTL

\* For every packet size and every reply: the packets lie end to end, cover
\* the reply, and only the last is marked so (_send_id_list and its copies).
THEOREM RepliesTile == Spec => []PacketsTile
  <1>1. ReplyInv => PacketsTile
    BY DEF ReplyInv
  <1> QED
    BY <1>1, ReplyInvariant, PTL

\* For every packet size and every reply: what get_overhead leaves room for
\* is what kowhai_protocol_create writes, so its ignored result is always OK.
THEOREM RepliesFit == Spec => []PacketsFit
  <1>1. ASSUME ReplyInv PROVE PacketsFit
    <2>1. /\ request \in Requests
          /\ packets \in Seq([offset : Nat, size : Nat, end : BOOLEAN])
      BY <1>1 DEF ReplyInv, TypeOK
    <2>2. /\ Prefix(request) \in Nat /\ Prefix(request) <= Overhead(request)
          /\ Overhead(request) \in Nat /\ MaxPayload \in 1..IntMax
          /\ Header + 1 + 4 * Symbols(request) <= Overhead(request)
      BY <2>1, RequestFacts DEF MaxPayload
    <2>3. MaxPacket \in Nat /\ MaxPayload = MaxPacket - Overhead(request)
      BY RequestsAssumption, OffsetKeeps DEF MaxPayload
    <2>4. ASSUME NEW k \in 1..Len(packets)
          PROVE  Prefix(request) + packets[k].size <= MaxPacket
      <3>a. packets[k].size <= MaxPayload
        BY <1>1 DEF ReplyInv, Sized
      <3>b. packets[k] \in [offset : Nat, size : Nat, end : BOOLEAN]
        BY <2>1, ElementOfSeq
      <3>1. packets[k].size \in Nat /\ packets[k].size <= MaxPayload
        BY <3>a, <3>b
      <3> QED
        BY <2>2, <2>3, <3>1
    <2> QED
      BY <2>2, <2>4 DEF PacketsFit
  <1> QED
    BY <1>1, ReplyInvariant, PTL

-----------------------------------------------------------------------------
(***************************************************************************)
(* Induction, and what the folds of the string list compute. The library's *)
(* induction theorems speak of every predicate; these speak of every set,  *)
(* of which the provers can be given one.                                  *)
(***************************************************************************)

\* Every nonempty set of numbers has a least one.
LEMMA Least ==
    ASSUME NEW S \in SUBSET Nat, S # {}
    PROVE  \E n \in S : \A m \in S : n <= m
  <1> DEFINE R == {p \in Nat \X Nat : p[1] < p[2]}
  <1>1. IsWellFoundedOn(OpToRel(<, Nat), Nat)
    BY NatLessThanWellFounded
  <1>2. OpToRel(<, Nat) = R
    BY DEF OpToRel
  <1>3. \A m, n \in Nat : m < n => <<m, n>> \in R
    OBVIOUS
  <1> HIDE DEF R
  <1>4. \E x \in S : \A y \in S : ~ (<<y, x>> \in R)
    <2>1. IsWellFoundedOn(R, Nat)
      BY ONLY <1>1, <1>2
    <2>2. QED
      BY ONLY <2>1, S \subseteq Nat, S # {}, WFMin
  <1>5. PICK x \in S : \A y \in S : ~ (<<y, x>> \in R)
    BY <1>4
  <1>6. \A y \in S : ~(y < x)
    BY <1>3, <1>5
  <1>7. \A y \in S : x <= y
    BY <1>6
  <1>8. QED
    BY <1>7

\* A set with 0, and with n + 1 for every n of it, has every number.
LEMMA Induct ==
    ASSUME NEW S, 0 \in S, \A n \in S \cap Nat : n + 1 \in S
    PROVE  Nat \subseteq S
  <1> SUFFICES ASSUME Nat \ S # {} PROVE FALSE
    OBVIOUS
  <1>1. PICK n \in Nat \ S : \A m \in Nat \ S : n <= m
    BY Least
  <1>2. n # 0 /\ n - 1 \in Nat /\ (n - 1) + 1 = n
    BY <1>1
  <1>3. n - 1 \in S \cap Nat
    BY <1>1, <1>2
  <1>4. (n - 1) + 1 \in S
    BY <1>3
  <1>5. QED
    BY <1>1, <1>2, <1>4

\* What the fold of StringsSize computes, on every prefix of the strings, from
\* the largest index down.
SizeOf(s, n, F) ==
    F = [t \in SUBSET (1..n) |-> IF t = {} THEN 0 ELSE F[t \ {Max(t)}] + s[Max(t)]]

\* The index the fold takes first.
LEMMA MaxOfPrefix ==
    ASSUME NEW n \in Nat, NEW t \in SUBSET (1..n), n \in t
    PROVE  Max(t) = n
  <1>1. \A x \in t : n >= x
    OBVIOUS
  <1>2. \A x \in t : x >= n => x = n
    OBVIOUS
  <1>3. QED
    BY <1>1, <1>2 DEF Max

\* There is such a function for every list.
LEMMA SizeOfExists ==
    ASSUME NEW s
    PROVE  \A n \in Nat : \E F : SizeOf(s, n, F)
  <1> DEFINE S == {n \in Nat : \E F : SizeOf(s, n, F)}
  <1>1. 0 \in S
    <2> DEFINE F == [t \in SUBSET (1..0) |-> 0]
    <2>1. \A t \in SUBSET (1..0) : t = {}
      OBVIOUS
    <2>2. F = [t \in SUBSET (1..0) |-> IF t = {} THEN 0 ELSE F[t \ {Max(t)}] + s[Max(t)]]
      BY <2>1
    <2>3. QED
      BY <2>2 DEF SizeOf
  <1>2. ASSUME NEW n \in S \cap Nat PROVE n + 1 \in S
    <2>1. PICK F : SizeOf(s, n, F)
      BY <1>2
    <2> DEFINE G == [t \in SUBSET (1..(n + 1)) |-> IF n + 1 \in t THEN F[t \ {n + 1}] + s[n + 1] ELSE F[t]]
    <2>2. ASSUME NEW t \in SUBSET (1..(n + 1))
          PROVE  G[t] = IF t = {} THEN 0 ELSE G[t \ {Max(t)}] + s[Max(t)]
      <3>1. CASE n + 1 \in t
        <4>1. Max(t) = n + 1
          BY <3>1, MaxOfPrefix
        <4>2. t \ {n + 1} \in SUBSET (1..(n + 1)) /\ n + 1 \notin t \ {n + 1}
          OBVIOUS
        <4>3. G[t \ {n + 1}] = F[t \ {n + 1}]
          BY <4>2
        <4>4. G[t] = F[t \ {n + 1}] + s[n + 1]
          BY <3>1
        <4> QED
          BY <3>1, <4>1, <4>3, <4>4
      <3>2. CASE n + 1 \notin t
        <4>1. t \in SUBSET (1..n)
          BY <3>2
        <4>2. G[t] = F[t]
          BY <3>2
        <4>3. F[t] = IF t = {} THEN 0 ELSE F[t \ {Max(t)}] + s[Max(t)]
          BY <2>1, <4>1 DEF SizeOf
        <4>4. t \ {Max(t)} \in SUBSET (1..(n + 1)) /\ n + 1 \notin t \ {Max(t)}
          BY <3>2
        <4>5. G[t \ {Max(t)}] = F[t \ {Max(t)}]
          BY <4>4
        <4> QED
          BY <4>2, <4>3, <4>5
      <3> QED
        BY <3>1, <3>2
    <2>3. DOMAIN G = SUBSET (1..(n + 1)) /\ G = [t \in DOMAIN G |-> G[t]]
      OBVIOUS
    <2> HIDE DEF G
    <2>4. G = [t \in SUBSET (1..(n + 1)) |-> IF t = {} THEN 0 ELSE G[t \ {Max(t)}] + s[Max(t)]]
      BY <2>2, <2>3
    <2>5. SizeOf(s, n + 1, G)
      BY <2>4 DEF SizeOf
    <2> QED
      BY <2>5
  <1> HIDE DEF S
  <1>3. Nat \subseteq S
    BY <1>1, <1>2, Induct
  <1> QED
    BY <1>3 DEF S

\* It goes one index at a time
LEMMA SizeOfSteps ==
    ASSUME NEW s, NEW n \in Nat, NEW F, SizeOf(s, n, F)
    PROVE  /\ F[1..0] = 0
           /\ \A k \in 1..n : F[1..k] = F[1..(k - 1)] + s[k]
  <1>1. F[1..0] = 0
    <2>1. 1..0 = {} /\ {} \in SUBSET (1..n)
      OBVIOUS
    <2> QED
      BY <2>1 DEF SizeOf
  <1>2. ASSUME NEW k \in 1..n PROVE F[1..k] = F[1..(k - 1)] + s[k]
    <2>1. k \in Nat /\ 1..k \in SUBSET (1..k) /\ k \in 1..k
      OBVIOUS
    <2>2. Max(1..k) = k
      BY <2>1, MaxOfPrefix
    <2>3. 1..k \in SUBSET (1..n) /\ 1..k # {} /\ (1..k) \ {k} = 1..(k - 1)
      OBVIOUS
    <2> QED
      BY <2>2, <2>3 DEF SizeOf
  <1> QED
    BY <1>1, <1>2

\* StringsSize is its value on all indices.
LEMMA StringsSizeIs ==
    ASSUME NEW s, NEW n \in Nat, DOMAIN s = 1..n
    PROVE  \E F : SizeOf(s, n, F) /\ StringsSize(s) = F[1..n]
  <1> DEFINE F == CHOOSE F : F = [t \in SUBSET (DOMAIN s) |-> IF t = {} THEN 0 ELSE F[t \ {Max(t)}] + s[Max(t)]]
  <1>1. SizeOf(s, n, F)
    <2>1. PICK G : SizeOf(s, n, G)
      BY SizeOfExists
    <2>2. G = [t \in SUBSET (DOMAIN s) |-> IF t = {} THEN 0 ELSE G[t \ {Max(t)}] + s[Max(t)]]
      BY <2>1 DEF SizeOf
    <2>3. F = [t \in SUBSET (DOMAIN s) |-> IF t = {} THEN 0 ELSE F[t \ {Max(t)}] + s[Max(t)]]
      BY <2>2
    <2> HIDE DEF F
    <2> QED
      BY <2>3 DEF SizeOf
  <1>2. StringsSize(s) = F[DOMAIN s]
    BY DEF StringsSize, FoldLeft, MapThenFoldSet
  <1> QED
    BY <1>1, <1>2

\* StringsSize adds up: nothing is 0, and one string more adds its length.
LEMMA StringsSizeAdds ==
    ASSUME NEW s \in Seq(Nat), NEW x \in Nat
    PROVE  StringsSize(<<>>) = 0 /\ StringsSize(Append(s, x)) = StringsSize(s) + x
  <1>1. StringsSize(<<>>) = 0
    <2>1. DOMAIN <<>> = 1..0
      OBVIOUS
    <2>2. PICK F : SizeOf(<<>>, 0, F) /\ StringsSize(<<>>) = F[1..0]
      BY <2>1, StringsSizeIs
    <2> QED
      BY <2>2, SizeOfSteps
  <1> DEFINE n == Len(s)
             z == Append(s, x)
  <1>2. n \in Nat /\ DOMAIN s = 1..n /\ DOMAIN z = 1..(n + 1) /\ z[n + 1] = x
        /\ \A k \in 1..n : z[k] = s[k]
    OBVIOUS
  <1> HIDE DEF n, z
  <1>3. PICK F : SizeOf(s, n, F) /\ StringsSize(s) = F[1..n]
    BY <1>2, StringsSizeIs
  <1>4. PICK G : SizeOf(z, n + 1, G) /\ StringsSize(z) = G[1..(n + 1)]
    <2>1. n + 1 \in Nat
      BY <1>2
    <2> QED
      BY <1>2, <2>1, StringsSizeIs
  <1>5. F[1..0] = 0 /\ \A k \in 1..n : F[1..k] = F[1..(k - 1)] + s[k]
    <2>1. n \in Nat /\ SizeOf(s, n, F)
      BY <1>2, <1>3
    <2> QED
      BY ONLY <2>1, SizeOfSteps
  <1>6. G[1..0] = 0 /\ \A k \in 1..(n + 1) : G[1..k] = G[1..(k - 1)] + z[k]
    <2>1. n + 1 \in Nat
      BY <1>2
    <2> QED
      BY <1>4, <2>1, SizeOfSteps
  <1> DEFINE S == {k \in Nat : k <= n => F[1..k] = G[1..k]}
  <1>7. 0 \in S
    BY <1>5, <1>6
  <1>8. ASSUME NEW k \in S \cap Nat PROVE k + 1 \in S
    <2> SUFFICES ASSUME k + 1 <= n PROVE F[1..(k + 1)] = G[1..(k + 1)]
      OBVIOUS
    <2>1. k + 1 \in 1..n /\ k + 1 \in 1..(n + 1) /\ (k + 1) - 1 = k /\ k <= n
      BY <1>2
    <2>2. F[1..k] = G[1..k]
      BY <1>8, <2>1
    <2>3. F[1..(k + 1)] = F[1..k] + s[k + 1] /\ G[1..(k + 1)] = G[1..k] + z[k + 1]
      BY <1>5, <1>6, <2>1
    <2> QED
      BY <1>2, <2>1, <2>2, <2>3
  <1> HIDE DEF S
  <1>9. Nat \subseteq S
    BY <1>7, <1>8, Induct
  <1>10. F[1..n] = G[1..n]
    BY <1>2, <1>9 DEF S
  <1>11. G[1..(n + 1)] = G[1..n] + x
    <2>1. n + 1 \in 1..(n + 1) /\ (n + 1) - 1 = n
      BY <1>2
    <2> QED
      BY <1>2, <1>6, <2>1
  <1>12. StringsSize(z) = StringsSize(s) + x
    BY <1>3, <1>4, <1>10, <1>11
  <1> QED
    BY <1>1, <1>12 DEF z

\* Where each string ends in the list.
LEMMA EndOfStringAdds ==
    ASSUME NEW s \in Seq(Nat)
    PROVE  /\ EndOfString(s, 0) = 0
           /\ EndOfString(s, Len(s)) = StringsSize(s)
           /\ \A n \in 1..Len(s) : EndOfString(s, n) = EndOfString(s, n - 1) + s[n]
  <1>1. SubSeq(s, 1, 0) = <<>> /\ SubSeq(s, 1, Len(s)) = s /\ <<>> \in Seq(Nat) /\ 0 \in Nat
    OBVIOUS
  <1>2. EndOfString(s, 0) = 0
    BY <1>1, StringsSizeAdds DEF EndOfString
  <1>3. ASSUME NEW n \in 1..Len(s)
        PROVE  EndOfString(s, n) = EndOfString(s, n - 1) + s[n]
    <2>1. /\ SubSeq(s, 1, n - 1) \in Seq(Nat) /\ s[n] \in Nat
          /\ SubSeq(s, 1, n) = Append(SubSeq(s, 1, n - 1), s[n])
      OBVIOUS
    <2> QED
      BY <2>1, StringsSizeAdds DEF EndOfString
  <1> QED
    BY <1>1, <1>2, <1>3 DEF EndOfString

\* No string ends before an earlier one.
LEMMA EndOfStringBounds ==
    ASSUME NEW s \in Seq(Nat)
    PROVE  \A j \in 0..Len(s) : \A n \in 0..j :
               EndOfString(s, n) \in Nat /\ EndOfString(s, n) <= EndOfString(s, j)
  <1> DEFINE E(n) == EndOfString(s, n)
             N == Len(s)
  <1>1. E(0) = 0 /\ E(N) = StringsSize(s) /\ \A n \in 1..N : E(n) = E(n - 1) + s[n]
    BY EndOfStringAdds
  <1>2. N \in Nat /\ \A n \in 1..N : s[n] \in Nat
    OBVIOUS
  <1> HIDE DEF E, N
  <1> DEFINE S == {n \in Nat : n <= N => E(n) \in Nat}
  <1>3. 0 \in S
    BY <1>1
  <1>4. ASSUME NEW n \in S \cap Nat PROVE n + 1 \in S
    <2> SUFFICES ASSUME n + 1 <= N PROVE E(n + 1) \in Nat
      OBVIOUS
    <2>1. n + 1 \in 1..N /\ (n + 1) - 1 = n /\ n <= N
      BY <1>2
    <2>2. E(n) \in Nat /\ s[n + 1] \in Nat
      BY <1>2, <1>4, <2>1
    <2>3. E(n + 1) = E(n) + s[n + 1]
      BY <1>1, <2>1
    <2> QED
      BY <2>2, <2>3
  <1> HIDE DEF S
  <1>5. Nat \subseteq S
    BY <1>3, <1>4, Induct
  <1>6. \A n \in 0..N : E(n) \in Nat
    BY <1>2, <1>5 DEF S
  <1> DEFINE D == {d \in Nat : \A j \in 0..N : d <= j => E(j - d) <= E(j)}
  <1>7. 0 \in D
    BY <1>2, <1>6
  <1>8. ASSUME NEW d \in D \cap Nat PROVE d + 1 \in D
    <2> SUFFICES ASSUME NEW j \in 0..N, d + 1 <= j PROVE E(j - (d + 1)) <= E(j)
      OBVIOUS
    <2>1. /\ j - d \in 1..N /\ j - d \in 0..N /\ (j - d) - 1 = j - (d + 1)
          /\ j - (d + 1) \in 0..N /\ d <= j
      BY <1>2
    <2>2. E(j - d) <= E(j)
      BY <1>8, <2>1
    <2>3. E(j - d) = E(j - (d + 1)) + s[j - d]
      BY <1>1, <2>1
    <2>4. E(j - d) \in Nat /\ E(j - (d + 1)) \in Nat /\ E(j) \in Nat /\ s[j - d] \in Nat
      BY <1>2, <1>6, <2>1
    <2> QED
      BY <2>2, <2>3, <2>4
  <1> HIDE DEF D
  <1>9. Nat \subseteq D
    BY <1>7, <1>8, Induct
  <1>10. ASSUME NEW j \in 0..N, NEW n \in 0..j PROVE E(n) \in Nat /\ E(n) <= E(j)
    <2>1. j - n \in Nat /\ j - n <= j /\ j - (j - n) = n /\ n \in 0..N
      BY <1>2
    <2> QED
      BY <1>6, <1>9, <2>1 DEF D
  <1> QED
    BY <1>10 DEF E, N

\* FlattenSeq glues the sequences together one at a time.
FlatOf(seqs, n, F) ==
    F = [i \in 1..n |-> IF i = 1 THEN seqs[i] ELSE F[i - 1] \o seqs[i]]

\* There is such a function for every list.
LEMMA FlatOfExists ==
    ASSUME NEW seqs
    PROVE  \A n \in Nat : \E F : FlatOf(seqs, n, F)
  <1> DEFINE S == {n \in Nat : \E F : FlatOf(seqs, n, F)}
  <1>1. 0 \in S
    <2> DEFINE F == [i \in 1..0 |-> <<>>]
    <2>1. F = [i \in 1..0 |-> IF i = 1 THEN seqs[i] ELSE F[i - 1] \o seqs[i]]
      OBVIOUS
    <2> QED
      BY <2>1 DEF FlatOf
  <1>2. ASSUME NEW n \in S \cap Nat PROVE n + 1 \in S
    <2>1. PICK F : FlatOf(seqs, n, F)
      BY <1>2
    <2> DEFINE G == [i \in 1..(n + 1) |->
                        IF i = n + 1 THEN IF i = 1 THEN seqs[i] ELSE F[i - 1] \o seqs[i]
                                     ELSE F[i]]
    <2>2. ASSUME NEW i \in 1..(n + 1)
          PROVE  G[i] = IF i = 1 THEN seqs[i] ELSE G[i - 1] \o seqs[i]
      <3>1. CASE i = n + 1
        <4>1. i # 1 => i - 1 \in 1..(n + 1) /\ i - 1 # n + 1 /\ G[i - 1] = F[i - 1]
          BY <3>1
        <4> QED
          BY <3>1, <4>1
      <3>2. CASE i # n + 1
        <4>1. i \in 1..n
          BY <3>2
        <4>2. F[i] = IF i = 1 THEN seqs[i] ELSE F[i - 1] \o seqs[i]
          BY <2>1, <4>1 DEF FlatOf
        <4>3. i # 1 => i - 1 \in 1..(n + 1) /\ i - 1 # n + 1 /\ G[i - 1] = F[i - 1]
          BY <4>1
        <4>4. G[i] = F[i]
          BY <3>2
        <4> QED
          BY <4>2, <4>3, <4>4
      <3> QED
        BY <3>1, <3>2
    <2>3. DOMAIN G = 1..(n + 1) /\ G = [i \in DOMAIN G |-> G[i]]
      OBVIOUS
    <2> HIDE DEF G
    <2>4. G = [i \in 1..(n + 1) |-> IF i = 1 THEN seqs[i] ELSE G[i - 1] \o seqs[i]]
      BY <2>2, <2>3
    <2>5. FlatOf(seqs, n + 1, G)
      BY <2>4 DEF FlatOf
    <2> QED
      BY <2>5
  <1> HIDE DEF S
  <1>3. Nat \subseteq S
    BY <1>1, <1>2, Induct
  <1> QED
    BY <1>3 DEF S

\* FlattenSeq is its last value.
LEMMA FlattenSeqIs ==
    ASSUME NEW seqs, Len(seqs) \in Nat \ {0}
    PROVE  \E F : FlatOf(seqs, Len(seqs), F) /\ FlattenSeq(seqs) = F[Len(seqs)]
  <1> DEFINE F == CHOOSE F : F = [i \in 1..Len(seqs) |-> IF i = 1 THEN seqs[i] ELSE F[i - 1] \o seqs[i]]
  <1>1. FlatOf(seqs, Len(seqs), F)
    <2>1. PICK G : FlatOf(seqs, Len(seqs), G)
      BY FlatOfExists
    <2>2. G = [i \in 1..Len(seqs) |-> IF i = 1 THEN seqs[i] ELSE G[i - 1] \o seqs[i]]
      BY <2>1 DEF FlatOf
    <2>3. F = [i \in 1..Len(seqs) |-> IF i = 1 THEN seqs[i] ELSE F[i - 1] \o seqs[i]]
      BY <2>2
    <2> HIDE DEF F
    <2> QED
      BY <2>3 DEF FlatOf
  <1>2. FlattenSeq(seqs) = F[Len(seqs)]
    BY DEF FlattenSeq
  <1> QED
    BY <1>1, <1>2

\* A sequence followed by another.
LEMMA ConcatElements ==
    ASSUME NEW a \in Seq(Int \X Int), NEW b \in Seq(Int \X Int)
    PROVE  /\ a \o b \in Seq(Int \X Int) /\ Len(a \o b) = Len(a) + Len(b)
           /\ \A k \in 1..Len(a) : (a \o b)[k] = a[k]
           /\ \A k \in 1..Len(b) : (a \o b)[Len(a) + k] = b[k]
  <1>1. Len(a) \in Nat /\ Len(b) \in Nat
    OBVIOUS
  <1>2. \A k \in 1..Len(a) : (a \o b)[k] = a[k]
    BY <1>1
  <1>3. \A k \in 1..Len(b) : (a \o b)[Len(a) + k] = b[k]
    BY <1>1
  <1> QED
    BY <1>2, <1>3, ConcatProperties

\* A byte of a string lies before the end of any list the string is in.
LEMMA ByteWithin ==
    ASSUME NEW from \in Nat, NEW size \in Nat, NEW to, to = from + size,
           NEW end \in Nat, to <= end, NEW m \in 1..size
    PROVE  from + m \in 1..end
  <1> QED
    OBVIOUS

\* The whole string list, glued together.
AllStrings(s) == FlattenSeq([i \in 1..Len(s) |-> StringBytes(i, 0, s[i])])

\* It is as long as the strings together, and has each of them at its place.
LEMMA AllStringsAre ==
    ASSUME NEW s \in Seq(Nat)
    PROVE  /\ AllStrings(s) \in Seq(Int \X Int)
           /\ Len(AllStrings(s)) = StringsSize(s)
           /\ \A i \in 1..Len(s) : \A m \in 1..s[i] :
                 /\ EndOfString(s, i - 1) + m \in 1..StringsSize(s)
                 /\ AllStrings(s)[EndOfString(s, i - 1) + m] = <<i, m - 1>>
  <1> DEFINE E(n) == EndOfString(s, n)
             N == Len(s)
             seqs == [i \in 1..N |-> StringBytes(i, 0, s[i])]
  <1>1. E(0) = 0 /\ E(N) = StringsSize(s) /\ \A n \in 1..N : E(n) = E(n - 1) + s[n]
    BY EndOfStringAdds
  <1>2. \A j \in 0..N : E(j) \in Nat /\ \A n \in 0..j : E(n) <= E(j)
    <2>1. \A j \in 0..N : j \in 0..j
      OBVIOUS
    <2> QED
      BY <2>1, EndOfStringBounds
  <1>3. N \in Nat /\ \A n \in 1..N : s[n] \in Nat
    OBVIOUS
  <1>4. AllStrings(s) = FlattenSeq(seqs) /\ Len(seqs) = N
    BY <1>3 DEF AllStrings
  <1>5. ASSUME NEW i \in 1..N
        PROVE  /\ seqs[i] \in Seq(Int \X Int) /\ Len(seqs[i]) = s[i]
               /\ \A m \in 1..s[i] : seqs[i][m] = <<i, m - 1>>
    <2>1. i \in Nat /\ s[i] \in Nat /\ 0 \in Nat /\ seqs[i] = StringBytes(i, 0, s[i])
      BY <1>3
    <2>2. \A m \in 1..s[i] : 0 + m - 1 = m - 1
      BY <2>1
    <2>3. /\ StringBytes(i, 0, s[i]) \in Seq(Int \X Int)
          /\ Len(StringBytes(i, 0, s[i])) = s[i]
          /\ \A m \in 1..s[i] : StringBytes(i, 0, s[i])[m] = <<i, 0 + m - 1>>
      BY ONLY <2>1, StringBytesType
    <2> HIDE DEF seqs
    <2> QED
      BY ONLY <2>1, <2>2, <2>3
  <1>6. N = 0 => seqs = <<>>
    OBVIOUS
  <1> HIDE DEF E, N, seqs
  <1>7. CASE N = 0
    <2>1. AllStrings(s) = <<>>
      BY <1>4, <1>6, <1>7 DEF FlattenSeq
    <2>2. StringsSize(s) = 0
      BY <1>1, <1>7
    <2>3. <<>> \in Seq(Int \X Int) /\ Len(<<>>) = 0
      OBVIOUS
    <2>4. 1..N = {}
      BY <1>7
    <2> QED
      BY <2>1, <2>2, <2>3, <2>4 DEF N
  <1>8. CASE N # 0
    <2>1. PICK F : FlatOf(seqs, N, F) /\ FlattenSeq(seqs) = F[N]
      <3>1. Len(seqs) \in Nat \ {0}
        BY <1>3, <1>4, <1>8
      <3> QED
        BY <1>4, <3>1, FlattenSeqIs
    <2>2. F[1] = seqs[1] /\ \A n \in 2..N : F[n] = F[n - 1] \o seqs[n]
      <3>1. F = [i \in 1..N |-> IF i = 1 THEN seqs[i] ELSE F[i - 1] \o seqs[i]]
        BY <2>1 DEF FlatOf
      <3>2. 1 \in 1..N /\ \A n \in 2..N : n \in 1..N /\ n # 1
        BY <1>3, <1>8
      <3> QED
        BY <3>1, <3>2
    <2> DEFINE Good(n) == /\ F[n] \in Seq(Int \X Int) /\ Len(F[n]) = E(n)
                          /\ \A i \in 1..n : \A m \in 1..s[i] : F[n][E(i - 1) + m] = <<i, m - 1>>
               S == {n \in Nat : n + 1 <= N => Good(n + 1)}
    <2>3. 0 \in S
      <3>1. 1 \in 1..N /\ 1 - 1 = 0
        BY <1>3, <1>8
      <3>2. F[1] \in Seq(Int \X Int) /\ Len(F[1]) = s[1] /\ \A m \in 1..s[1] : F[1][m] = <<1, m - 1>>
        BY <1>5, <2>2, <3>1
      <3>3. E(1) = s[1] /\ s[1] \in Nat
        BY <1>1, <1>3, <3>1
      <3>4. \A m \in 1..s[1] : E(1 - 1) + m = m
        BY <1>1, <3>1, <3>3
      <3>5. 1..1 = {1}
        OBVIOUS
      <3>7. ASSUME NEW i \in 1..1, NEW m \in 1..s[i] PROVE F[1][E(i - 1) + m] = <<i, m - 1>>
        <4>1. i = 1
          BY <3>5
        <4>2. m \in 1..s[1]
          BY <4>1
        <4> QED
          BY ONLY <3>2, <3>4, <4>1, <4>2
      <3>8. F[1] \in Seq(Int \X Int) /\ Len(F[1]) = E(1)
        BY ONLY <3>2, <3>3
      <3>6. Good(1)
        BY <3>7, <3>8
      <3> HIDE DEF Good
      <3> QED
        BY <3>6
    <2>4. ASSUME NEW n \in S \cap Nat PROVE n + 1 \in S
      <3> HIDE DEF Good
      <3> SUFFICES ASSUME (n + 1) + 1 <= N PROVE Good((n + 1) + 1)
        OBVIOUS
      <3> DEFINE p == n + 1
                 q == (n + 1) + 1
      <3>1. p \in 1..N /\ q \in 1..N /\ q \in 2..N /\ q - 1 = p /\ n + 1 <= N
        BY <1>3
      <3>a. \A i \in 1..q : i \in 1..p \/ i = q
        OBVIOUS
      <3>b. \A i \in 1..p : i \in 1..N /\ i - 1 \in 0..N /\ i \in 0..p
        BY <1>3
      <3>2. Good(p)
        BY <2>4, <3>1
      <3> HIDE DEF p, q
      <3>3. F[q] = F[p] \o seqs[q] /\ E(q) = E(p) + s[q]
        BY <1>1, <2>2, <3>1
      <3>4. /\ seqs[q] \in Seq(Int \X Int) /\ Len(seqs[q]) = s[q]
            /\ \A m \in 1..s[q] : seqs[q][m] = <<q, m - 1>>
        BY <1>5, <3>1
      <3>5. F[p] \in Seq(Int \X Int) /\ Len(F[p]) = E(p)
            /\ \A i \in 1..p : \A m \in 1..s[i] : F[p][E(i - 1) + m] = <<i, m - 1>>
        BY <3>2 DEF Good
      <3>6. /\ F[q] \in Seq(Int \X Int) /\ Len(F[q]) = E(p) + s[q]
            /\ \A k \in 1..E(p) : F[q][k] = F[p][k]
            /\ \A k \in 1..s[q] : F[q][E(p) + k] = seqs[q][k]
        <4>1. E(p) \in Nat /\ s[q] \in Nat
          BY <1>2, <1>3, <3>1
        <4> DEFINE a == F[p]
                   b == seqs[q]
        <4>2. a \in Seq(Int \X Int) /\ b \in Seq(Int \X Int)
          BY <3>4, <3>5
        <4> HIDE DEF a, b
        <4>5. /\ a \o b \in Seq(Int \X Int)
              /\ Len(a \o b) = Len(a) + Len(b)
              /\ \A k \in 1..Len(a) : (a \o b)[k] = a[k]
              /\ \A k \in 1..Len(b) : (a \o b)[Len(a) + k] = b[k]
          BY ONLY <4>2, ConcatElements
        <4>3. /\ F[p] \o seqs[q] \in Seq(Int \X Int)
              /\ Len(F[p] \o seqs[q]) = Len(F[p]) + Len(seqs[q])
              /\ \A k \in 1..Len(F[p]) : (F[p] \o seqs[q])[k] = F[p][k]
              /\ \A k \in 1..Len(seqs[q]) : (F[p] \o seqs[q])[Len(F[p]) + k] = seqs[q][k]
          BY ONLY <4>5 DEF a, b
        <4>4. Len(F[p]) = E(p) /\ Len(seqs[q]) = s[q]
          BY <3>4, <3>5
        <4> QED
          BY ONLY <3>3, <4>3, <4>4
      <3>7. ASSUME NEW i \in 1..q, NEW m \in 1..s[i]
            PROVE  F[q][E(i - 1) + m] = <<i, m - 1>>
        <4>1. CASE i = q
          BY <3>1, <3>4, <3>6, <4>1
        <4>2. CASE i \in 1..p
          <5>5. i \in 1..N /\ i - 1 \in 0..N /\ p \in 0..N
            BY <3>1, <3>b, <4>2
          <5>1. E(i) = E(i - 1) + s[i] /\ E(i - 1) \in Nat /\ s[i] \in Nat /\ E(p) \in Nat
            BY ONLY <1>1, <1>2, <1>3, <5>5
          <5>2. F[p][E(i - 1) + m] = <<i, m - 1>>
            BY <3>5, <4>2
          <5>3. E(i) <= E(p)
            <6>1. p \in 0..N /\ i \in 0..p
              BY <3>1, <3>b, <4>2
            <6> QED
              BY <1>2, <6>1
          <5>4. E(i - 1) + m \in 1..E(p)
            BY ONLY <5>1, <5>3, m \in 1..s[i], ByteWithin
          <5> QED
            BY <3>6, <5>2, <5>4
        <4> QED
          BY <3>a, <4>1, <4>2
      <3> QED
        BY <3>3, <3>6, <3>7 DEF p, q, Good
    <2> HIDE DEF Good, S
    <2>5. Nat \subseteq S
      BY <2>3, <2>4, Induct
    <2>6. Good(N)
      <3>1. N - 1 \in Nat /\ (N - 1) + 1 = N
        BY <1>3, <1>8
      <3>2. N - 1 \in S
        BY <2>5, <3>1
      <3> QED
        BY <3>1, <3>2 DEF S
    <2>7. /\ F[N] \in Seq(Int \X Int) /\ Len(F[N]) = E(N)
          /\ \A i \in 1..N : \A m \in 1..s[i] : F[N][E(i - 1) + m] = <<i, m - 1>>
      BY <2>6 DEF Good
    <2>8. ASSUME NEW i \in 1..N, NEW m \in 1..s[i]
          PROVE  E(i - 1) + m \in 1..E(N)
      <3>1. i - 1 \in 0..N /\ i \in 0..N /\ N \in 0..N /\ s[i] \in Nat
        BY <1>3
      <3>2. E(i - 1) \in Nat /\ E(i) \in Nat /\ E(N) \in Nat /\ E(i) <= E(N)
        BY <1>2, <3>1
      <3>3. E(i) = E(i - 1) + s[i]
        BY <1>1
      <3> QED
        BY ONLY <3>1, <3>2, <3>3, m \in 1..s[i], ByteWithin
    <2> QED
      BY <1>1, <1>4, <2>1, <2>7, <2>8 DEF E, N
  <1> QED
    BY <1>7, <1>8

-----------------------------------------------------------------------------
(***************************************************************************)
(* The data arrives                                                        *)
(***************************************************************************)

\* The elements of an array from one of them on.
LEMMA ElementsLeft ==
    ASSUME NEW element \in Int, NEW count \in Int, NEW index \in Int
    PROVE  element * (count - index) = element * count - element * index
  OBVIOUS

\* What is wanted is as long as the reply, and where each byte of it lies.
LEMMA WantedFacts ==
    ASSUME request \in Requests
    PROVE  /\ Wanted \in Seq(Int \X Int) /\ Len(Wanted) = Total(request)
           /\ FirstByte(request) \in Int
           /\ request.kind # "symbol_list" =>
                 \A k \in 1..Total(request) : Wanted[k] = <<0, FirstByte(request) + k - 1>>
           /\ request.kind = "symbol_list" =>
                 \A i \in 1..Len(request.strings) : \A m \in 1..request.strings[i] :
                    /\ EndOfString(request.strings, i - 1) + m \in 1..Total(request)
                    /\ Wanted[EndOfString(request.strings, i - 1) + m] = <<i, m - 1>>
  <1>1. /\ request.kind \in Kinds /\ request.size \in Nat /\ request.count \in Nat \ {0}
        /\ request.index \in 0..(request.count - 1)
        /\ request.strings \in Seq(Nat \ {0})
        /\ request.kind = "read" => request.size = (request.size \div request.count) * request.count
    BY RequestsAssumption DEF RequestAssumption
  <1>2. CASE request.kind = "symbol_list"
    <2>1. Wanted = AllStrings(request.strings) /\ Total(request) = StringsSize(request.strings)
      BY <1>2 DEF Wanted, Total, AllStrings
    <2>2. request.strings \in Seq(Nat)
      BY <1>1
    <2>3. FirstByte(request) \in Int
      BY <1>2 DEF FirstByte
    <2> QED
      BY <1>2, <2>1, <2>2, <2>3, AllStringsAre
  <1>3. CASE request.kind = "read"
    <2> DEFINE element == request.size \div request.count
    <2>1. element \in Int /\ request.size = element * request.count
      BY <1>1, <1>3
    <2>2. /\ Wanted = [k \in 1..(element * (request.count - request.index)) |->
                          <<0, element * request.index + k - 1>>]
          /\ FirstByte(request) = element * request.index
      BY <1>3 DEF Wanted, FirstByte
    <2>3. Total(request) = IF request.count > 1 THEN request.size - element * request.index
                           ELSE request.size
      BY <1>3 DEF Total
    <2> HIDE DEF element
    <2>4. request.count \in Int /\ request.index \in Int
      BY <1>1
    <2>5. element * (request.count - request.index) = request.size - element * request.index
      BY <2>1, <2>4, ElementsLeft
    <2>6. element * request.index \in Int
      BY <2>1, <2>4
    <2>7. Total(request) = request.size - element * request.index
      <3>1. CASE request.count > 1
        BY <2>3, <3>1
      <3>2. CASE ~(request.count > 1)
        <4>1. request.index = 0
          BY <1>1, <3>2
        <4>2. element * request.index = 0
          BY <2>1, <4>1
        <4> QED
          BY <1>1, <2>3, <3>2, <4>2
      <3> QED
        BY <3>1, <3>2
    <2>8. Total(request) \in Nat
      BY RequestFacts
    <2>9. Wanted = [k \in 1..Total(request) |-> <<0, FirstByte(request) + k - 1>>]
      BY <2>2, <2>5, <2>7
    <2>10. \A k \in 1..Total(request) : <<0, FirstByte(request) + k - 1>> \in Int \X Int
      BY <2>2, <2>6, <2>8
    <2>11. Wanted \in Seq(Int \X Int) /\ Len(Wanted) = Total(request)
      BY <2>8, <2>9, <2>10
    <2>12. \A k \in 1..Total(request) : Wanted[k] = <<0, FirstByte(request) + k - 1>>
      BY <2>9
    <2> QED
      BY ONLY <1>3, <2>2, <2>6, <2>11, <2>12
  <1>4. CASE request.kind \notin {"symbol_list", "read"}
    <2>1. Wanted = [k \in 1..request.size |-> <<0, k - 1>>]
      BY <1>4 DEF Wanted
    <2>2. Total(request) = request.size /\ FirstByte(request) = 0
      BY <1>4 DEF Total, FirstByte
    <2>3. \A k \in 1..request.size : <<0, k - 1>> \in Int \X Int /\ 0 + k - 1 = k - 1
      BY <1>1
    <2>4. Wanted \in Seq(Int \X Int) /\ Len(Wanted) = Total(request)
      <3>1. request.size \in Nat
        BY <1>1
      <3> QED
        BY ONLY <2>1, <2>2, <2>3, <3>1
    <2>5. \A k \in 1..Total(request) : Wanted[k] = <<0, FirstByte(request) + k - 1>>
      BY ONLY <2>1, <2>2, <2>3
    <2>6. FirstByte(request) \in Int
      BY <2>2
    <2> QED
      BY ONLY <1>4, <2>4, <2>5, <2>6
  <1> QED
    BY <1>2, <1>3, <1>4

\* The facts of a state that the arithmetic of a step uses.
LEMMA StateFacts ==
    ASSUME ReplyInv
    PROVE  /\ request \in Requests /\ offset \in Nat /\ left \in Nat
           /\ offset + left = Total(request) /\ Total(request) \in Nat
           /\ MaxPayload \in Nat \ {0}
           /\ scratch \in Seq(Int \X Int) /\ Len(scratch) \in Nat /\ Len(scratch) <= MaxPayload
           /\ received \in Seq(Int \X Int)
           /\ copy.i \in Nat \ {0} /\ copy.marker \in Nat /\ copy.offset \in Nat /\ copy.room \in Nat
  <1>1. /\ request \in Requests /\ offset \in 0..IntMax /\ left \in 0..IntMax
        /\ copy \in [i : Nat \ {0}, marker : Nat, offset : Nat, room : Nat]
        /\ scratch \in Seq(Int \X Int) /\ Len(scratch) <= MaxPayload
        /\ received \in Seq(Int \X Int)
    BY DEF ReplyInv, TypeOK
  <1>2. offset + left = Total(request)
    BY DEF ReplyInv, Balance
  <1>3. Total(request) \in 0..IntMax /\ MaxPacket - Overhead(request) \in 1..IntMax
    BY <1>1, RequestFacts
  <1>4. MaxPayload \in Nat \ {0}
    BY <1>3, OffsetKeeps DEF MaxPayload
  <1>5. offset \in Nat /\ left \in Nat /\ Total(request) \in Nat
    BY <1>1, <1>3, OffsetKeeps
  <1>6. Len(scratch) \in Nat
    BY <1>1
  <1> QED
    BY <1>1, <1>2, <1>4, <1>5, <1>6

\* A reply that begins: nothing sent, nothing filled.
LEMMA IntactInit == Init => IntactInv
  <1> SUFFICES ASSUME Init PROVE IntactInv
    OBVIOUS
  <1>1. /\ request \in Requests /\ offset = 0 /\ left = Total(request) /\ copy = CopyFrom(0)
        /\ scratch = <<>> /\ received = <<>> /\ phase = "filling"
    BY DEF Init
  <1>2. Len(scratch) = 0 /\ Len(received) = 0
    BY <1>1
  <1>3. Total(request) \in Nat
    BY InitInv, StateFacts
  <1>4. ReceivedSoFar
    BY <1>1, <1>2 DEF ReceivedSoFar
  <1>5. FilledSoFar
    BY <1>1, <1>2, <1>3 DEF FilledSoFar
  <1>6. CopyInPlace
    <2>1. copy.i = 1 /\ copy.marker = 0 /\ copy.offset = 0
      BY <1>1 DEF CopyFrom
    <2>2. request.strings \in Seq(Nat) /\ Len(request.strings) \in Nat
      <3>1. request.strings \in Seq(Nat \ {0})
        BY <1>1, RequestFacts
      <3> QED
        BY <3>1
    <2>3. EndOfString(request.strings, 0) = 0
      BY <2>2, EndOfStringAdds
    <2> QED
      BY <1>1, <1>2, <2>1, <2>2, <2>3 DEF CopyInPlace
  <1> QED
    BY <1>4, <1>5, <1>6 DEF IntactInv

\* While the buffer is filled nothing is received.
LEMMA FillingKeepsReceived ==
    ASSUME ReplyInv, IntactInv, Fill \/ CopyString \/ CopyDone
    PROVE  ReceivedSoFar' /\ Wanted' = Wanted
  <1>1. UNCHANGED <<request, offset, left, packets, received>> /\ phase # "done" /\ phase' # "done"
    BY FillingStep
  <1>2. Wanted' = Wanted
    BY <1>1 DEF Wanted
  <1>3. ReceivedSoFar'
    BY <1>1, <1>2 DEF IntactInv, ReceivedSoFar
  <1> QED
    BY <1>2, <1>3

\* The node's data, the list or the buffer, from the offset on.
LEMMA FillIntact ==
    ASSUME ReplyInv, IntactInv, Fill
    PROVE  IntactInv'
  <1> DEFINE size == IF left > MaxPayload THEN MaxPayload ELSE left
  <1>1. /\ scratch' = [k \in 1..size |-> <<0, FirstByte(request) + offset + k - 1>>]
        /\ phase' = "sending" /\ request.kind # "symbol_list"
        /\ UNCHANGED <<request, offset, left, copy, packets, received>>
    BY DEF Fill
  <1>2. /\ request \in Requests /\ offset \in Nat /\ left \in Nat
        /\ offset + left = Total(request) /\ MaxPayload \in Nat
    BY StateFacts
  <1>3. /\ FirstByte(request) \in Int
        /\ \A k \in 1..Total(request) : Wanted[k] = <<0, FirstByte(request) + k - 1>>
    BY <1>1, <1>2, WantedFacts
  <1>4. size \in Nat /\ size <= left /\ (size = left \/ size = MaxPayload)
    BY <1>2
  <1>5. MaxPayload' = MaxPayload
    BY <1>1 DEF MaxPayload
  <1> HIDE DEF size
  <1>6. Len(scratch') = size /\ \A k \in 1..size : scratch'[k] = <<0, FirstByte(request) + offset + k - 1>>
    BY <1>1, <1>4
  <1>7. ASSUME NEW k \in 1..size PROVE scratch'[k] = Wanted[offset + k]
    <2>1. offset + k \in 1..Total(request)
      BY <1>2, <1>4
    <2>2. FirstByte(request) + (offset + k) - 1 = FirstByte(request) + offset + k - 1
      BY <1>2, <1>3, <1>4
    <2> QED
      BY <1>3, <1>6, <2>1, <2>2
  <1>8. ReceivedSoFar' /\ Wanted' = Wanted
    BY FillingKeepsReceived
  <1>9. FilledSoFar'
    <2>1. offset + size <= Total(request)
      BY <1>2, <1>4
    <2>2. size >= left \/ size >= MaxPayload
      BY <1>2, <1>4
    <2> QED
      BY <1>1, <1>5, <1>6, <1>7, <1>8, <2>1, <2>2 DEF FilledSoFar
  <1>10. CopyInPlace'
    BY <1>1 DEF CopyInPlace
  <1> QED
    BY <1>8, <1>9, <1>10 DEF IntactInv

\* The facts a string of the list gives: where it begins and ends.
LEMMA StringOfTheList ==
    ASSUME request \in Requests, request.kind = "symbol_list",
           NEW i \in 1..Len(request.strings)
    PROVE  /\ request.strings[i] \in Nat
           /\ EndOfString(request.strings, i) = EndOfString(request.strings, i - 1) + request.strings[i]
           /\ EndOfString(request.strings, i - 1) \in Nat
           /\ EndOfString(request.strings, i) <= Total(request)
           /\ \A m \in 1..request.strings[i] :
                 Wanted[EndOfString(request.strings, i - 1) + m] = <<i, m - 1>>
  <1> DEFINE s == request.strings
  <1>1. s \in Seq(Nat)
    <2>1. s \in Seq(Nat \ {0})
      BY RequestFacts
    <2> QED
      BY <2>1
  <1>2. Total(request) = StringsSize(s)
    BY DEF Total
  <1>3. \A m \in 1..s[i] : Wanted[EndOfString(s, i - 1) + m] = <<i, m - 1>>
    BY WantedFacts
  <1> HIDE DEF s
  <1>4. i \in 1..Len(s)
    BY DEF s
  <1>5. s[i] \in Nat /\ Len(s) \in 0..Len(s) /\ i - 1 \in 0..Len(s) /\ i \in 0..Len(s)
    BY <1>1, <1>4
  <1>6. EndOfString(s, Len(s)) = StringsSize(s) /\ EndOfString(s, i) = EndOfString(s, i - 1) + s[i]
    BY <1>1, <1>4, EndOfStringAdds
  <1>7. EndOfString(s, i - 1) \in Nat /\ EndOfString(s, i) <= EndOfString(s, Len(s))
    BY <1>1, <1>5, EndOfStringBounds
  <1> QED
    BY <1>2, <1>3, <1>5, <1>6, <1>7 DEF s

\* One string: it is passed over only when it ends before the offset, and
\* what is copied of it is what comes next of the data.
LEMMA CopyStringIntact ==
    ASSUME ReplyInv, IntactInv, CopyString
    PROVE  IntactInv'
  <1> DEFINE s == request.strings
             length == request.strings[copy.i]
             apart == copy.marker - copy.offset
             skip == IF apart < 0 THEN -apart ELSE apart
             size == IF length - skip > copy.room THEN copy.room ELSE length - skip
             holds == copy.marker + length >= copy.offset
  <1>1. /\ request \in Requests /\ offset \in Nat /\ left \in Nat
        /\ offset + left = Total(request) /\ Total(request) \in Nat
        /\ scratch \in Seq(Int \X Int) /\ Len(scratch) \in Nat
        /\ copy.i \in Nat \ {0} /\ copy.marker \in Nat /\ copy.offset \in Nat /\ copy.room \in Nat
    BY StateFacts
  <1>2. /\ phase = "filling" /\ request.kind = "symbol_list"
        /\ copy.i <= Len(s) /\ copy.room > 0
    BY DEF CopyString
  <1>3. /\ scratch' = IF holds THEN scratch \o StringBytes(copy.i, skip, size) ELSE scratch
        /\ copy' = [i |-> copy.i + 1, marker |-> copy.marker + length,
                    offset |-> IF holds THEN copy.offset + size ELSE copy.offset,
                    room |-> IF holds THEN copy.room - size ELSE copy.room]
        /\ UNCHANGED <<request, offset, left, packets, received, phase>>
    BY DEF CopyString
  <1>4. copy.marker <= copy.offset
    BY <1>2 DEF ReplyInv, CopyInRoom
  <1>5. /\ copy.marker = EndOfString(s, copy.i - 1) /\ copy.offset = offset + Len(scratch)
    BY <1>2 DEF IntactInv, CopyInPlace
  <1>6. /\ offset + Len(scratch) <= Total(request)
        /\ \A k \in 1..Len(scratch) : scratch[k] = Wanted[offset + k]
    BY <1>2 DEF IntactInv, FilledSoFar
  <1>7. copy.i \in 1..Len(s)
    BY <1>1, <1>2
  <1>8. /\ length \in Nat
        /\ EndOfString(s, copy.i) = EndOfString(s, copy.i - 1) + length
        /\ EndOfString(s, copy.i) <= Total(request)
        /\ \A m \in 1..length : Wanted[EndOfString(s, copy.i - 1) + m] = <<copy.i, m - 1>>
    BY <1>1, <1>2, <1>7, StringOfTheList
  <1>9. skip \in Nat /\ copy.marker + skip = copy.offset
    BY <1>1, <1>4
  <1>10. holds => size \in Nat /\ skip + size <= length
    <2>1. holds => copy.marker + length >= copy.offset
      OBVIOUS
    <2>2. size = IF length - skip > copy.room THEN copy.room ELSE length - skip
      OBVIOUS
    <2>3. /\ copy.marker \in Nat /\ copy.offset \in Nat /\ length \in Nat /\ copy.room \in Nat
          /\ skip \in Nat /\ copy.marker + skip = copy.offset
      BY <1>1, <1>8, <1>9
    <2> HIDE DEF length, skip, size, holds
    <2>4. holds => length - skip \in Nat
      BY ONLY <2>1, <2>3
    <2> QED
      BY ONLY <2>2, <2>3, <2>4
  <1>11. Len(s) \in Nat
    <2>1. s \in Seq(Nat \ {0})
      BY <1>1, RequestFacts
    <2> QED
      BY <2>1
  <1>12. ReceivedSoFar' /\ Wanted' = Wanted /\ MaxPayload' = MaxPayload
    BY <1>3, FillingKeepsReceived DEF MaxPayload
  <1> HIDE DEF s, length, skip, size, holds
  <1>13. /\ copy'.i = copy.i + 1 /\ copy'.marker = copy.marker + length
         /\ copy'.offset = (IF holds THEN copy.offset + size ELSE copy.offset)
    BY <1>3
  <1>14. ASSUME holds
         PROVE  FilledSoFar' /\ copy'.offset = offset + Len(scratch')
    <2>1. /\ StringBytes(copy.i, skip, size) \in Seq(Int \X Int)
          /\ Len(StringBytes(copy.i, skip, size)) = size
          /\ \A k \in 1..size : StringBytes(copy.i, skip, size)[k] = <<copy.i, skip + k - 1>>
      <3>1. copy.i \in Nat /\ skip \in Nat /\ size \in Nat
        BY <1>1, <1>9, <1>10, <1>14
      <3> QED
        BY ONLY <3>1, StringBytesType
    <2> DEFINE run == StringBytes(copy.i, skip, size)
    <2>2. scratch' = scratch \o run
      BY <1>3, <1>14
    <2> HIDE DEF run
    <2>3. run \in Seq(Int \X Int) /\ Len(run) = size
          /\ \A k \in 1..size : run[k] = <<copy.i, skip + k - 1>>
      BY <2>1 DEF run
    <2>4. /\ Len(scratch') = Len(scratch) + size
          /\ \A k \in 1..Len(scratch) : scratch'[k] = scratch[k]
          /\ \A k \in 1..size : scratch'[Len(scratch) + k] = run[k]
      <3>1. scratch \in Seq(Int \X Int) /\ run \in Seq(Int \X Int)
        BY <1>1, <2>3
      <3>2. /\ Len(scratch \o run) = Len(scratch) + Len(run)
            /\ \A k \in 1..Len(scratch) : (scratch \o run)[k] = scratch[k]
            /\ \A k \in 1..Len(run) : (scratch \o run)[Len(scratch) + k] = run[k]
        BY ONLY <3>1, ConcatElements
      <3> QED
        BY ONLY <2>2, <2>3, <3>2
    <2>5. size \in Nat /\ skip + size <= length
      BY <1>10, <1>14
    <2>6. ASSUME NEW k \in 1..Len(scratch') PROVE scratch'[k] = Wanted[offset + k]
      <3>1. CASE k <= Len(scratch)
        <4>1. k \in 1..Len(scratch)
          BY <1>1, <3>1
        <4> QED
          BY <1>6, <2>4, <4>1
      <3>2. CASE ~(k <= Len(scratch))
        <4> DEFINE m == k - Len(scratch)
        <4>1. m \in 1..size /\ k = Len(scratch) + m
          BY <1>1, <2>4, <2>5, <3>2
        <4> HIDE DEF m
        <4>2. scratch'[k] = <<copy.i, skip + m - 1>>
          BY <2>3, <2>4, <4>1
        <4>3. skip + m \in 1..length
          BY <1>8, <1>9, <2>5, <4>1
        <4>4. Wanted[EndOfString(s, copy.i - 1) + (skip + m)] = <<copy.i, (skip + m) - 1>>
          BY <1>8, <4>3
        <4>5. offset + k = copy.marker + (skip + m)
          <5>1. /\ Len(scratch) \in Nat /\ offset \in Nat /\ copy.marker \in Nat
                /\ skip \in Nat /\ m \in Nat
            BY <1>1, <1>9, <4>1
          <5>2. k = Len(scratch) + m /\ copy.offset = offset + Len(scratch)
                /\ copy.marker + skip = copy.offset
            BY <1>5, <1>9, <4>1
          <5> QED
            BY ONLY <5>1, <5>2
        <4>7. copy.marker = EndOfString(s, copy.i - 1)
          BY <1>5
        <4>6. (skip + m) - 1 = skip + m - 1
          BY <1>9, <4>1
        <4>8. Wanted[copy.marker + (skip + m)] = <<copy.i, (skip + m) - 1>>
          BY ONLY <4>4, <4>7, Zenon
        <4>9. Wanted[offset + k] = <<copy.i, (skip + m) - 1>>
          BY ONLY <4>5, <4>8, Zenon
        <4> QED
          BY ONLY <4>2, <4>6, <4>9, Zenon
      <3> QED
        BY <3>1, <3>2
    <2>7. /\ offset + Len(scratch') <= Total(request)
          /\ copy.offset + size = offset + Len(scratch')
      <3>1. offset + (Len(scratch) + size) = copy.marker + skip + size
        BY <1>1, <1>5, <1>9, <2>5
      <3>2. copy.marker + length <= Total(request)
        BY <1>5, <1>8
      <3>3. copy.marker + skip + size <= Total(request)
        BY <1>1, <1>8, <1>9, <2>5, <3>2
      <3> QED
        BY <1>1, <1>5, <2>4, <2>5, <3>1, <3>3
    <2>8. FilledSoFar'
      BY <1>2, <1>3, <1>12, <2>6, <2>7 DEF FilledSoFar
    <2>9. copy'.offset = offset + Len(scratch')
      BY <1>13, <1>14, <2>7
    <2> QED
      BY <2>8, <2>9
  <1>15. ASSUME ~holds
         PROVE  FilledSoFar' /\ copy'.offset = offset + Len(scratch')
    <2>1. scratch' = scratch /\ copy'.offset = copy.offset
      BY <1>3, <1>13, <1>15
    <2>2. FilledSoFar'
      BY <1>2, <1>3, <1>6, <1>12, <2>1 DEF FilledSoFar
    <2> QED
      BY <1>5, <2>1, <2>2
  <1>16. FilledSoFar' /\ copy'.offset = offset + Len(scratch')
    BY <1>14, <1>15
  <1>17. CopyInPlace'
    <2>1. copy'.i <= Len(s) + 1 /\ copy'.i - 1 = copy.i
      BY <1>1, <1>2, <1>11, <1>13
    <2>2. copy'.marker = EndOfString(s, copy.i)
      BY <1>5, <1>8, <1>13
    <2>3. request'.strings = s /\ offset' = offset
      BY <1>3 DEF s
    <2> QED
      BY <1>16, <2>1, <2>2, <2>3 DEF CopyInPlace
  <1> QED
    BY <1>12, <1>16, <1>17 DEF IntactInv

\* The copy ends with a full packet, or behind the last string: then all of
\* the list has been copied.
LEMMA CopyDoneIntact ==
    ASSUME ReplyInv, IntactInv, CopyDone
    PROVE  IntactInv'
  <1>1. /\ phase = "filling" /\ request.kind = "symbol_list" /\ phase' = "sending"
        /\ copy.i > Len(request.strings) \/ copy.room = 0
        /\ UNCHANGED <<request, offset, left, copy, scratch, packets, received>>
    BY DEF CopyDone
  <1>2. /\ request \in Requests /\ offset \in Nat /\ left \in Nat
        /\ offset + left = Total(request) /\ Len(scratch) \in Nat
        /\ copy.i \in Nat /\ copy.marker \in Nat /\ copy.offset \in Nat /\ copy.room \in Nat
    BY StateFacts
  <1>3. /\ Len(scratch) + copy.room = MaxPayload
        /\ copy.room > 0 => copy.marker <= copy.offset
    BY <1>1 DEF ReplyInv, CopyInRoom
  <1>4. /\ copy.i <= Len(request.strings) + 1
        /\ copy.marker = EndOfString(request.strings, copy.i - 1)
        /\ copy.offset = offset + Len(scratch)
    BY <1>1 DEF IntactInv, CopyInPlace
  <1>5. Len(scratch) >= left \/ Len(scratch) >= MaxPayload
    <2>1. CASE copy.room = 0
      BY <1>2, <1>3, <2>1
    <2>2. CASE copy.room # 0 /\ copy.i > Len(request.strings)
      <3>1. request.strings \in Seq(Nat) /\ Len(request.strings) \in Nat
        <4>1. request.strings \in Seq(Nat \ {0})
          BY <1>2, RequestFacts
        <4> QED
          BY <4>1
      <3>2. copy.i - 1 = Len(request.strings)
        BY <1>2, <1>4, <2>2, <3>1
      <3>3. copy.marker = Total(request)
        BY <1>1, <1>4, <3>1, <3>2, EndOfStringAdds DEF Total
      <3>4. Total(request) <= offset + Len(scratch)
        BY <1>2, <1>3, <1>4, <2>2, <3>3
      <3> QED
        BY <1>2, <3>4
    <2> QED
      BY <1>1, <2>1, <2>2
  <1>6. ReceivedSoFar' /\ Wanted' = Wanted /\ MaxPayload' = MaxPayload
    BY <1>1, FillingKeepsReceived DEF MaxPayload
  <1>7. /\ offset + Len(scratch) <= Total(request)
        /\ \A k \in 1..Len(scratch) : scratch[k] = Wanted[offset + k]
    BY <1>1 DEF IntactInv, FilledSoFar
  <1>8. FilledSoFar'
    BY <1>1, <1>5, <1>6, <1>7 DEF FilledSoFar
  <1>9. CopyInPlace'
    BY <1>1 DEF CopyInPlace
  <1> QED
    BY <1>6, <1>8, <1>9 DEF IntactInv

\* A packet whose payload the buffer holds continues what was received.
LEMMA PacketIntact ==
    ASSUME ReplyInv, IntactInv, phase = "sending", NEW size \in Nat,
           size <= Len(scratch), received' = received \o Payload(size)
    PROVE  /\ Len(received') = offset + size
           /\ \A k \in 1..Len(received') : received'[k] = Wanted[k]
  <1>1. /\ scratch \in Seq(Int \X Int) /\ Len(scratch) \in Nat /\ offset \in Nat
        /\ received \in Seq(Int \X Int)
    BY StateFacts
  <1>2. /\ Len(received) = offset
        /\ \A k \in 1..offset : received[k] = Wanted[k]
        /\ \A k \in 1..Len(scratch) : scratch[k] = Wanted[offset + k]
    BY DEF IntactInv, ReceivedSoFar, FilledSoFar
  <1>3. Payload(size) \in Seq(Int \X Int) /\ Len(Payload(size)) = size
    <2>1. Len(Payload(size)) = size
      BY DEF Payload
    <2> QED
      BY <1>1, <2>1, PayloadType
  <1>4. \A k \in 1..size : Payload(size)[k] = Wanted[offset + k]
    <2>1. ASSUME NEW k \in 1..size PROVE Payload(size)[k] = Wanted[offset + k]
      <3>1. k \in 1..Len(scratch) /\ k <= Len(scratch)
        BY <1>1
      <3>2. Payload(size)[k] = scratch[k]
        BY <3>1 DEF Payload
      <3> QED
        BY <1>2, <3>1, <3>2
    <2> QED
      BY <2>1
  <1> DEFINE run == Payload(size)
  <1> HIDE DEF run
  <1>5. run \in Seq(Int \X Int) /\ Len(run) = size /\ received' = received \o run
        /\ \A k \in 1..size : run[k] = Wanted[offset + k]
    BY <1>3, <1>4 DEF run
  <1>6. /\ Len(received \o run) = Len(received) + Len(run)
        /\ \A k \in 1..Len(received) : (received \o run)[k] = received[k]
        /\ \A k \in 1..Len(run) : (received \o run)[Len(received) + k] = run[k]
    BY <1>1, <1>5, ConcatElements
  <1>7. /\ Len(received') = offset + size
        /\ \A k \in 1..offset : received'[k] = received[k]
        /\ \A k \in 1..size : received'[offset + k] = run[k]
    BY <1>2, <1>5, <1>6
  <1>8. ASSUME NEW k \in 1..Len(received') PROVE received'[k] = Wanted[k]
    <2>1. CASE k <= offset
      <3>1. k \in 1..offset
        BY <1>1, <2>1
      <3> QED
        BY <1>2, <1>7, <3>1
    <2>2. CASE ~(k <= offset)
      <3>1. k - offset \in 1..size /\ offset + (k - offset) = k
        BY <1>1, <1>7, <2>2
      <3>2. received'[offset + (k - offset)] = Wanted[offset + (k - offset)]
        <4>1. received'[offset + (k - offset)] = run[k - offset]
          BY ONLY <1>7, <3>1, Zenon
        <4>2. run[k - offset] = Wanted[offset + (k - offset)]
          BY ONLY <1>5, <3>1, Zenon
        <4> QED
          BY ONLY <4>1, <4>2, Zenon
      <3> QED
        BY ONLY <3>1, <3>2, Zenon
    <2> QED
      BY <2>1, <2>2
  <1> QED
    BY <1>7, <1>8

\* A full packet, and the copy sent back to find the offset again.
LEMMA SendFullIntact ==
    ASSUME ReplyInv, IntactInv, SendFull
    PROVE  IntactInv'
  <1>1. /\ phase = "sending" /\ left > MaxPayload
        /\ received' = received \o Payload(MaxPayload)
        /\ offset' = (offset + MaxPayload) % OffsetRange
        /\ copy' = CopyFrom(offset') /\ scratch' = <<>> /\ phase' = "filling"
        /\ request' = request
    BY DEF SendFull
  <1>2. /\ request \in Requests /\ offset \in Nat /\ left \in Nat
        /\ offset + left = Total(request) /\ Total(request) \in Nat
        /\ MaxPayload \in Nat \ {0} /\ Len(scratch) \in Nat
    BY StateFacts
  <1>3. offset' = offset + MaxPayload
    <2>1. offset + MaxPayload \in Nat /\ offset + MaxPayload <= Total(request)
      BY <1>1, <1>2
    <2>2. Total(request) \in 0..IntMax
      BY <1>2, RequestFacts
    <2>3. offset + MaxPayload <= IntMax
      BY <2>1, <2>2, OffsetKeeps
    <2> QED
      BY <1>1, <2>1, <2>3, OffsetKeeps
  <1>4. MaxPayload <= Len(scratch)
    <2>1. Len(scratch) >= left \/ Len(scratch) >= MaxPayload
      BY <1>1 DEF IntactInv, FilledSoFar
    <2> QED
      BY <1>1, <1>2, <2>1
  <1>5. /\ Len(received') = offset + MaxPayload
        /\ \A k \in 1..Len(received') : received'[k] = Wanted[k]
    <2>1. MaxPayload \in Nat
      BY <1>2
    <2> HIDE DEF MaxPayload
    <2> QED
      BY <1>1, <1>4, <2>1, PacketIntact
  <1>6. Wanted' = Wanted
    BY <1>1 DEF Wanted
  <1>7. ReceivedSoFar'
    BY <1>1, <1>3, <1>5, <1>6 DEF ReceivedSoFar
  <1>8. FilledSoFar'
    <2>1. Len(scratch') = 0
      BY <1>1
    <2>2. offset' + 0 <= Total(request)
      BY <1>1, <1>2, <1>3
    <2> QED
      BY <1>1, <2>1, <2>2 DEF FilledSoFar
  <1>9. CopyInPlace'
    <2>1. copy'.i = 1 /\ copy'.marker = 0 /\ copy'.offset = offset'
      BY <1>1 DEF CopyFrom
    <2>2. request.strings \in Seq(Nat) /\ Len(request.strings) \in Nat
      <3>1. request.strings \in Seq(Nat \ {0})
        BY <1>2, RequestFacts
      <3> QED
        BY <3>1
    <2>3. EndOfString(request.strings, 1 - 1) = 0
      BY <2>2, EndOfStringAdds
    <2>4. Len(scratch') = 0 /\ offset' + 0 = offset'
      BY <1>1, <1>2, <1>3
    <2>5. 1 <= Len(request.strings) + 1
      BY <2>2
    <2> QED
      BY <1>1, <2>1, <2>3, <2>4, <2>5 DEF CopyInPlace
  <1> QED
    BY <1>7, <1>8, <1>9 DEF IntactInv

\* The last packet, which holds all that was left.
LEMMA SendLastIntact ==
    ASSUME ReplyInv, IntactInv, SendLast
    PROVE  IntactInv'
  <1>1. /\ phase = "sending" /\ left <= MaxPayload
        /\ received' = received \o Payload(left) /\ phase' = "done"
        /\ UNCHANGED <<request, offset, left, copy, scratch>>
    BY DEF SendLast
  <1>2. /\ left \in Nat /\ offset + left = Total(request)
        /\ MaxPayload \in Nat /\ Len(scratch) \in Nat
    BY StateFacts
  <1>3. left <= Len(scratch)
    <2>1. Len(scratch) >= left \/ Len(scratch) >= MaxPayload
      BY <1>1 DEF IntactInv, FilledSoFar
    <2> QED
      BY <1>1, <1>2, <2>1
  <1>4. /\ Len(received') = offset + left
        /\ \A k \in 1..Len(received') : received'[k] = Wanted[k]
    BY <1>1, <1>2, <1>3, PacketIntact
  <1>5. Wanted' = Wanted
    BY <1>1 DEF Wanted
  <1>6. ReceivedSoFar'
    BY <1>1, <1>2, <1>4, <1>5 DEF ReceivedSoFar
  <1>7. FilledSoFar' /\ CopyInPlace'
    BY <1>1 DEF FilledSoFar, CopyInPlace
  <1> QED
    BY <1>6, <1>7 DEF IntactInv

LEMMA IntactNext == ReplyInv /\ IntactInv /\ [Next]_vars => IntactInv'
  <1> SUFFICES ASSUME ReplyInv, IntactInv, [Next]_vars PROVE IntactInv'
    OBVIOUS
  <1>1. CASE UNCHANGED vars
    <2>1. /\ UNCHANGED <<request, offset, left, copy, scratch, packets, received, phase>>
          /\ Wanted' = Wanted /\ MaxPayload' = MaxPayload
      BY <1>1 DEF vars, Wanted, MaxPayload
    <2>2. ReceivedSoFar'
      BY <2>1 DEF IntactInv, ReceivedSoFar
    <2>3. FilledSoFar'
      BY <2>1 DEF IntactInv, FilledSoFar
    <2>4. CopyInPlace'
      BY <2>1 DEF IntactInv, CopyInPlace
    <2> QED
      BY <2>2, <2>3, <2>4 DEF IntactInv
  <1> QED
    BY <1>1, FillIntact, CopyStringIntact, CopyDoneIntact, SendFullIntact, SendLastIntact DEF Next

LEMMA IntactInvariant == Spec => []IntactInv
  BY IntactInit, IntactNext, ReplyInvariant, PTL DEF Spec

\* For every packet size and every reply, a string list of any lengths
\* included: what the packets hold, put end to end, is the data asked for.
THEOREM RepliesIntact == Spec => []DataIntact
  <1>1. ASSUME ReplyInv, IntactInv PROVE DataIntact
    <2> SUFFICES ASSUME phase = "done" PROVE received = Wanted
      BY DEF DataIntact
    <2>1. /\ received \in Seq(Int \X Int) /\ request \in Requests
      BY <1>1, StateFacts
    <2>2. Wanted \in Seq(Int \X Int) /\ Len(Wanted) = Total(request)
      BY <2>1, WantedFacts
    <2>3. Len(received) = Total(request) /\ \A k \in 1..Len(received) : received[k] = Wanted[k]
      BY <1>1 DEF IntactInv, ReceivedSoFar
    <2> HIDE DEF Wanted
    <2> QED
      BY <2>1, <2>2, <2>3
  <1> QED
    BY <1>1, ReplyInvariant, IntactInvariant, PTL
=============================================================================
