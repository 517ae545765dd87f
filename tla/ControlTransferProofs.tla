------------------------ MODULE ControlTransferProofs ------------------------
(***************************************************************************)
(* Proofs about the requests to endpoint 0, for all lengths the hosts ask  *)
(* for and all addresses they give: the variables keep their types, reads  *)
(* end whole, and an address is taken only when its request has ended.     *)
(***************************************************************************)
EXTENDS ControlTransfer, TLAPS

ReadRequests == {"GET_DESCRIPTOR", "HID_GET_REPORT", "GET_CONFIGURATION", "GET_STATUS"}

\* What a read brings in the end.
Whole(r) == Least(r.wLength, Size(r))

\* A request that the interrupt has not seen is of a transfer just begun.
Pending ==
    RXSTPI =>
        /\ request \in Requests /\ ~STALLRQ /\ received = 0 /\ ~gaveUp
        /\ phase = IF request.wLength = 0 THEN "status in"
                   ELSE IF request.in THEN "data in" ELSE "data out"

\* Bytes in the bank for the host, and those the interrupt has yet to put there.
InBank == IF TXINI THEN 0 ELSE bank
InHand == IF pc = "send" THEN len ELSE 0

\* What the host has, what lies in the bank and what is left make the answer,
\* and a packet in the bank that is not full is the last.
Reading ==
    phase = "data in" =>
        /\ request \in Requests /\ request.in /\ request.wLength > 0 /\ ~gaveUp
        /\ ~RXSTPI /\ ~STALLRQ =>
              /\ ~RXOUTI /\ pc \in {"idle", "send"}
              /\ received + InBank + InHand = Whole(request)
              /\ ~TXINI /\ bank < ENDPOINT0_SIZE => pc = "idle"
        /\ ~RXSTPI /\ STALLRQ => TXINI /\ pc = "idle"

\* An address waits for its own request's status packet, for ever if the host
\* has made another.
Addressing ==
    pc = "address" =>
        /\ request \in Requests
        /\ ~RXSTPI => /\ request.bRequest = "SET_ADDRESS" /\ ~STALLRQ
                      /\ phase \in {"status in", "left", "idle"}
        /\ TXINI => ~RXSTPI /\ phase = "idle"

\* The inductive invariant.
TransferInv == TypeOK /\ Pending /\ Reading /\ Addressing /\ ReadsWhole

-----------------------------------------------------------------------------
(***************************************************************************)
(* Requests, descriptors and lengths                                       *)
(***************************************************************************)

\* A request is a read by what it asks, and has the length its kind has.
WellFormed(r) ==
    /\ r.wLength \in Nat /\ r.in \in BOOLEAN
    /\ r.in <=> r.bRequest \in ReadRequests
    /\ r.bRequest = "HID_GET_REPORT" => r.wLength >= RAWHID_PACKET_SIZE
    /\ r.bRequest = "GET_CONFIGURATION" => r.wLength = 1
    /\ r.bRequest = "GET_STATUS" => r.wLength = 2
    /\ r.bRequest = "SET_ADDRESS" => r.wLength = 0 /\ r.wValue[2] \in Addresses

LEMMA ReadWell ==
    ASSUME NEW b \in ReadRequests, NEW v, NEW i, NEW l \in Nat,
           b = "HID_GET_REPORT" => l >= RAWHID_PACKET_SIZE,
           b = "GET_CONFIGURATION" => l = 1,
           b = "GET_STATUS" => l = 2
    PROVE  WellFormed(Make(b, v, i, TRUE, l))
  BY DEF WellFormed, Make, ReadRequests

LEMMA RequestFacts == ASSUME NEW r \in Requests PROVE WellFormed(r)
<1> USE HostAssumption DEF HostAssumption, ReadRequests, RAWHID_PACKET_SIZE
<1> DEFINE Reads == {ReadOf(d, l) : d \in DescriptorList, l \in wLengths}
           Moves == {Make("SET_ADDRESS", <<0, a>>, 0, FALSE, 0) : a \in Addresses}
           Features == {OnEndpoint(f, e) : f \in {"SET_FEATURE", "CLEAR_FEATURE"}, e \in 0..2}
           Reports == {Make("HID_GET_REPORT", <<1, 0>>, 0, TRUE, l) :
                           l \in {n \in wLengths : n >= RAWHID_PACKET_SIZE}}
           Sent == {Make("HID_SET_REPORT", <<2, 0>>, 0, FALSE, l) : l \in wLengths}
<1>1. CASE r \in Reads
  <2>1. PICK d \in DescriptorList, l \in wLengths : r = ReadOf(d, l)
    BY <1>1
  <2>2. QED
    BY <2>1, ReadWell DEF ReadOf
<1>2. CASE r = Make("GET_DESCRIPTOR", <<6, 0>>, 0, TRUE, 10)
  BY <1>2, ReadWell
<1>3. CASE r \in Moves
  <2>1. PICK a \in Addresses : r = Make("SET_ADDRESS", <<0, a>>, 0, FALSE, 0)
    BY <1>3
  <2>2. QED
    BY <2>1 DEF WellFormed, Make
<1>4. CASE r = Make("SET_CONFIGURATION", <<0, 1>>, 0, FALSE, 0)
  BY <1>4 DEF WellFormed, Make
<1>5. CASE r = Make("GET_CONFIGURATION", <<0, 0>>, 0, TRUE, 1)
  BY <1>5, ReadWell
<1>6. CASE r = Make("GET_STATUS", <<0, 0>>, 0, TRUE, 2)
  BY <1>6, ReadWell
<1>7. CASE r \in Features
  <2>1. PICK f \in {"SET_FEATURE", "CLEAR_FEATURE"}, e \in 0..2 : r = OnEndpoint(f, e)
    BY <1>7
  <2>2. QED
    BY <2>1 DEF OnEndpoint, WellFormed, Make
<1>8. CASE r \in Reports
  <2>1. PICK l \in wLengths : l >= RAWHID_PACKET_SIZE /\ r = Make("HID_GET_REPORT", <<1, 0>>, 0, TRUE, l)
    BY <1>8
  <2>2. QED
    BY <2>1, ReadWell
<1>9. CASE r \in Sent
  <2>1. PICK l \in wLengths : r = Make("HID_SET_REPORT", <<2, 0>>, 0, FALSE, l)
    BY <1>9
  <2>2. QED
    BY <2>1 DEF WellFormed, Make
<1>10. CASE r = Make("HID_SET_IDLE", <<0, 0>>, 0, FALSE, 0)
  BY <1>10 DEF WellFormed, Make
<1> HIDE DEF Reads, Moves, Features, Reports, Sent
<1>11. QED
  <2>1. Requests = Reads \cup {Make("GET_DESCRIPTOR", <<6, 0>>, 0, TRUE, 10)} \cup Moves
            \cup {Make("SET_CONFIGURATION", <<0, 1>>, 0, FALSE, 0),
                  Make("GET_CONFIGURATION", <<0, 0>>, 0, TRUE, 1),
                  Make("GET_STATUS", <<0, 0>>, 0, TRUE, 2)}
            \cup Features \cup Reports \cup Sent
            \cup {Make("HID_SET_IDLE", <<0, 0>>, 0, FALSE, 0)}
    BY DEF Requests, Reads, Moves, Features, Reports, Sent
  <2>2. QED
    BY ONLY r \in Requests, <2>1, <1>1, <1>2, <1>3, <1>4, <1>5, <1>6, <1>7, <1>8, <1>9, <1>10

LEMMA NoneFacts == None.in = FALSE /\ None.wLength = 0 /\ None.bRequest = "none"
  BY DEF None, Make

LEMMA DescriptorFits ==
    ASSUME NEW r, Listed(r)
    PROVE  DescriptorLength(r) \in 0..255
<1>1. \A d \in DescriptorList : d.length \in 0..255
  BY DEF DescriptorList, DeviceSize, HidReportSize, Config1Size, HidSize, String0Size, String1Size,
         String2Size
<1>2. PICK d \in DescriptorList : d.wValue = r.wValue /\ d.wIndex = r.wIndex
  BY DEF Listed
<1>3. QED
  BY <1>1, <1>2 DEF DescriptorLength

\* The lengths of 834-842 are what the host gets in the end.
LEMMA ReadLengthIsWhole ==
    ASSUME NEW r \in Requests, r.bRequest = "GET_DESCRIPTOR", Listed(r)
    PROVE  ReadLength(r, DescriptorLength(r)) = Whole(r) /\ Whole(r) \in 0..255
  BY RequestFacts, DescriptorFits DEF WellFormed, ReadLength, Whole, Size, Least

LEMMA WholeIsNat ==
    ASSUME NEW r \in Requests
    PROVE  Whole(r) \in Nat /\ Whole(r) <= r.wLength
<1>1. Size(r) \in Nat
  <2>1. Listed(r) => DescriptorLength(r) \in 0..255
    BY DescriptorFits
  <2>2. QED
    BY <2>1 DEF Size, RAWHID_PACKET_SIZE
<1>2. QED
  BY <1>1, RequestFacts DEF WellFormed, Whole, Least

LEMMA ChunkOf ==
    ASSUME NEW n \in 0..255
    PROVE  /\ Chunk(n) \in 0..ENDPOINT0_SIZE /\ n - Chunk(n) \in 0..255
           /\ Chunk(n) < ENDPOINT0_SIZE => n - Chunk(n) = 0
  BY DEF Chunk, Least, ENDPOINT0_SIZE

-----------------------------------------------------------------------------
(***************************************************************************)
(* The steps                                                               *)
(***************************************************************************)

LEMMA Numbers ==
    TypeOK => /\ received \in Nat /\ unsent \in Nat /\ transfers \in 0..MaxTransfers
              /\ bank \in 0..32 /\ len \in 0..255
  BY DEF TypeOK, RAWHID_PACKET_SIZE, ENDPOINT0_SIZE

LEMMA InitTransferInv == Init => TransferInv
<1> SUFFICES ASSUME Init PROVE TransferInv
  OBVIOUS
<1>1. TypeOK
  <2>1. /\ received \in Nat /\ unsent \in Nat /\ transfers \in 0..MaxTransfers
        /\ bank \in 0..ENDPOINT0_SIZE /\ len \in 0..255
    BY HostAssumption DEF HostAssumption, Init, RAWHID_PACKET_SIZE, ENDPOINT0_SIZE
  <2>2. QED
    BY <2>1 DEF Init, TypeOK
<1>2. Pending /\ Reading /\ Addressing
  BY DEF Init, Pending, Reading, Addressing
<1>3. ReadsWhole
  BY NoneFacts DEF Init, ReadsWhole
<1>4. QED
  BY <1>1, <1>2, <1>3 DEF TransferInv

LEMMA SetupTransferInv == ASSUME TransferInv, NEW r \in Requests, HostSetup(r) PROVE TransferInv'
<1>1. WellFormed(r)
  BY RequestFacts
<1>2. /\ request' = r /\ received' = 0 /\ gaveUp' = FALSE /\ RXSTPI' = TRUE /\ STALLRQ' = FALSE
      /\ phase' = IF r.wLength = 0 THEN "status in" ELSE IF r.in THEN "data in" ELSE "data out"
      /\ unsent' = IF r.in THEN 0 ELSE r.wLength
      /\ transfers < MaxTransfers /\ transfers' = transfers + 1
      /\ (pc = "address" => ~TXINI) /\ UNCHANGED <<RXOUTI, TXINI, bank, UDADDR, pc, len>>
  BY DEF HostSetup
<1>3. TypeOK'
  <2>1. transfers' \in 0..MaxTransfers
    <3>1. MaxTransfers \in Nat /\ transfers \in 0..MaxTransfers
      BY HostAssumption, Numbers DEF HostAssumption, TransferInv
    <3>2. transfers < MaxTransfers /\ transfers' = transfers + 1
      BY <1>2
    <3>3. QED
      BY <3>1, <3>2
  <2>2. unsent' \in Nat
    BY <1>1, <1>2 DEF WellFormed
  <2>3. QED
    BY <1>2, <2>1, <2>2 DEF TransferInv, TypeOK
<1>4. Pending' /\ Addressing'
  BY <1>2 DEF Pending, Addressing
<1>5. Reading'
  <2>1. phase' = "data in" => r.in /\ r.wLength > 0
    <3>1. r.wLength \in Nat
      BY <1>1 DEF WellFormed
    <3>2. r.wLength # 0 => r.wLength > 0
      BY <3>1
    <3>3. phase' = "data in" => r.in /\ r.wLength # 0
      BY <1>2
    <3>4. QED
      BY <3>2, <3>3
  <2>2. QED
    BY <1>2, <2>1 DEF Reading
<1>6. ReadsWhole'
  <2>1. 0 <= r.wLength
    BY <1>1 DEF WellFormed
  <2>2. phase' # "status out"
    BY <1>2
  <2>3. QED
    BY <1>2, <2>1, <2>2 DEF ReadsWhole
<1>7. QED
  BY <1>3, <1>4, <1>5, <1>6 DEF TransferInv

LEMMA HostInTransferInv == TransferInv /\ HostIn => TransferInv'
<1> SUFFICES ASSUME TransferInv, HostIn PROVE TransferInv'
  OBVIOUS
<1>1. /\ phase = "data in" /\ ~TXINI /\ ~RXSTPI
      /\ received' = received + bank
      /\ phase' = IF bank < ENDPOINT0_SIZE \/ received' >= request.wLength THEN "status out" ELSE phase
      /\ TXINI' = TRUE /\ bank' = 0
      /\ UNCHANGED <<request, unsent, gaveUp, transfers, RXSTPI, RXOUTI, STALLRQ, UDADDR, pc, len>>
  BY DEF HostIn
<1>2. /\ request \in Requests /\ request.in /\ ~gaveUp /\ ~STALLRQ /\ ~RXOUTI /\ pc \in {"idle", "send"}
      /\ received + bank + InHand = Whole(request)
      /\ bank < ENDPOINT0_SIZE => pc = "idle"
  BY <1>1 DEF TransferInv, Reading, InBank
<1>3. received \in Nat /\ bank \in 0..32 /\ InHand \in Nat /\ InHand' = InHand
  <2>1. received \in Nat /\ bank \in 0..32 /\ len \in 0..255
    BY Numbers DEF TransferInv
  <2>2. UNCHANGED <<pc, len>>
    BY <1>1
  <2>3. QED
    BY <2>1, <2>2 DEF InHand
<1>4. Whole(request) \in Nat /\ Whole(request) <= request.wLength /\ request.wLength \in Nat
  BY <1>2, WholeIsNat, RequestFacts DEF WellFormed
<1>5. received' \in Nat /\ received' <= Whole(request) /\ received' <= request.wLength
  <2>1. received' = received + bank /\ received + bank + InHand = Whole(request)
    BY <1>1, <1>2
  <2>2. QED
    BY <2>1, <1>3, <1>4
<1>6. phase' = "status out" => received' = Whole(request)
  <2>1. CASE bank < ENDPOINT0_SIZE
    <3>1. InHand = 0
      BY <1>2, <2>1 DEF InHand
    <3>2. received' = received + bank /\ received + bank + 0 = Whole(request)
      BY <1>1, <1>2, <3>1
    <3>3. received' = Whole(request)
      BY <3>2, <1>3
    <3>4. QED
      BY <3>3
  <2>2. CASE received' >= request.wLength
    <3>1. received' = Whole(request)
      BY <1>4, <1>5, <2>2
    <3>2. QED
      BY <3>1
  <2>3. QED
    BY <1>1, <2>1, <2>2
<1>7. TypeOK'
  <2>1. bank' \in 0..ENDPOINT0_SIZE
    <3>1. bank' = 0
      BY <1>1
    <3>2. QED
      BY <3>1 DEF ENDPOINT0_SIZE
  <2>2. phase' \in {"data in", "status out"}
    BY <1>1
  <2>3. QED
    BY <1>1, <1>5, <2>1, <2>2 DEF TransferInv, TypeOK
<1>8. ReadsWhole'
  BY <1>1, <1>5, <1>6 DEF ReadsWhole, Whole
<1>9. Reading'
  <2>1. InBank' = 0
    BY <1>1 DEF InBank
  <2>2. received' + InBank' + InHand' = Whole(request)
    <3>1. received' = received + bank /\ received + bank + InHand = Whole(request)
      BY <1>1, <1>2
    <3>2. QED
      BY <3>1, <2>1, <1>3
  <2>3. request.wLength > 0
    BY <1>1 DEF TransferInv, Reading
  <2>4. QED
    BY <1>1, <1>2, <2>2, <2>3 DEF Reading, Whole
<1>10. Pending' /\ Addressing'
  BY <1>1, <1>2 DEF TransferInv, Pending, Addressing
<1>11. QED
  BY <1>7, <1>8, <1>9, <1>10 DEF TransferInv

LEMMA HostTransferInv == TransferInv /\ Host => TransferInv'
<1> SUFFICES ASSUME TransferInv, Host PROVE TransferInv'
  OBVIOUS
<1>1. CASE HostIn
  BY <1>1, HostInTransferInv
<1>2. CASE HostGivesUp
  <2>1. TypeOK' /\ Pending' /\ Addressing' /\ ReadsWhole'
    BY <1>2 DEF HostGivesUp, TransferInv, TypeOK, Pending, Addressing, ReadsWhole, endpoint
  <2>2. Reading'
    BY <1>2 DEF HostGivesUp, Reading
  <2>3. QED
    BY <2>1, <2>2 DEF TransferInv
<1>3. CASE HostStatusOut
  <2>1. TypeOK' /\ Pending' /\ Addressing' /\ ReadsWhole'
    BY <1>3 DEF HostStatusOut, TransferInv, TypeOK, Pending, Addressing, ReadsWhole
  <2>2. Reading'
    BY <1>3 DEF HostStatusOut, Reading
  <2>3. QED
    BY <2>1, <2>2 DEF TransferInv
<1>4. CASE HostOut
  <2>1. unsent' \in Nat
    <3>1. unsent \in Nat /\ unsent' = unsent - Least(unsent, ENDPOINT0_SIZE)
      BY <1>4, Numbers DEF HostOut, TransferInv
    <3>2. QED
      BY <3>1 DEF Least, ENDPOINT0_SIZE
  <2>2. TypeOK' /\ Pending' /\ Addressing' /\ ReadsWhole'
    BY <1>4, <2>1 DEF HostOut, TransferInv, TypeOK, Pending, Addressing, ReadsWhole
  <2>3. Reading'
    BY <1>4 DEF HostOut, Reading
  <2>4. QED
    BY <2>2, <2>3 DEF TransferInv
<1>5. CASE HostStatusIn
  <2>1. bank' \in 0..ENDPOINT0_SIZE
    <3>1. bank' = 0
      BY <1>5 DEF HostStatusIn
    <3>2. QED
      BY <3>1 DEF ENDPOINT0_SIZE
  <2>2. TypeOK' /\ Pending' /\ Addressing' /\ ReadsWhole'
    BY <1>5, <2>1 DEF HostStatusIn, TransferInv, TypeOK, Pending, Addressing, ReadsWhole
  <2>3. Reading'
    BY <1>5 DEF HostStatusIn, Reading
  <2>4. QED
    BY <2>2, <2>3 DEF TransferInv
<1>6. CASE HostStalled
  <2>1. TypeOK' /\ Pending' /\ Addressing' /\ ReadsWhole'
    BY <1>6 DEF HostStalled, TransferInv, TypeOK, Pending, Addressing, ReadsWhole, endpoint
  <2>2. Reading'
    BY <1>6 DEF HostStalled, Reading
  <2>3. QED
    BY <2>1, <2>2 DEF TransferInv
<1>7. CASE HostLeaves
  <2>1. TypeOK' /\ Pending' /\ ReadsWhole'
    BY <1>7 DEF HostLeaves, TransferInv, TypeOK, Pending, ReadsWhole, endpoint
  <2>2. Addressing'
    BY <1>7 DEF HostLeaves, TransferInv, Addressing, endpoint
  <2>3. Reading'
    BY <1>7 DEF HostLeaves, Reading
  <2>4. QED
    BY <2>1, <2>2, <2>3 DEF TransferInv
<1>8. QED
  BY <1>1, <1>2, <1>3, <1>4, <1>5, <1>6, <1>7 DEF Host

\* How the interrupt begins an answer, or refuses one.
Begins ==
    \/ STALLRQ' = TRUE /\ TXINI' = TRUE /\ pc' = "idle"
    \/ /\ STALLRQ' = FALSE /\ pc' \in {"idle", "send"}
       /\ InBank' + InHand' = Whole(request)
       /\ TXINI' = FALSE /\ bank' < ENDPOINT0_SIZE => pc' = "idle"

LEMMA AcceptFacts ==
    ASSUME TransferInv, NEW b, Accept(b)
    PROVE  /\ request \in Requests /\ WellFormed(request) /\ request.bRequest = b
           /\ pc = "idle" /\ STALLRQ = FALSE /\ received = 0 /\ ~gaveUp
           /\ phase = IF request.wLength = 0 THEN "status in"
                      ELSE IF request.in THEN "data in" ELSE "data out"
           /\ RXSTPI' = FALSE /\ RXOUTI' = FALSE
  BY RequestFacts DEF TransferInv, TypeOK, Pending, Accept

LEMMA AcceptTransferInv ==
    ASSUME TransferInv, NEW b, Accept(b), UNCHANGED <<hostVars, UDADDR>>,
           STALLRQ' \in BOOLEAN, TXINI' \in BOOLEAN, bank' \in 0..ENDPOINT0_SIZE, len' \in 0..255,
           pc' \in {"idle", "send", "address", "receive", "answer"},
           b \in ReadRequests => Begins,
           pc' = "address" => b = "SET_ADDRESS" /\ STALLRQ' = FALSE /\ TXINI' = FALSE
    PROVE  TransferInv'
<1>1. /\ request \in Requests /\ WellFormed(request) /\ request.bRequest = b
      /\ received = 0 /\ ~gaveUp
      /\ phase = IF request.wLength = 0 THEN "status in"
                 ELSE IF request.in THEN "data in" ELSE "data out"
      /\ RXSTPI' = FALSE /\ RXOUTI' = FALSE
  BY AcceptFacts
<1>2. TypeOK'
  BY <1>1 DEF TransferInv, TypeOK, hostVars
<1>3. Pending' /\ ReadsWhole'
  BY <1>1 DEF TransferInv, Pending, ReadsWhole, hostVars
<1>4. Addressing'
  <2>1. pc' = "address" => request.wLength = 0
    BY <1>1 DEF WellFormed
  <2>2. QED
    BY <1>1, <2>1 DEF Addressing, hostVars
<1>5. Reading'
  <2>1. SUFFICES ASSUME phase' = "data in" PROVE Reading'
    BY DEF Reading
  <2>2. phase = "data in" /\ request.in /\ request.wLength > 0
    BY <2>1 DEF TransferInv, Reading, hostVars
  <2>3. Begins
    BY <1>1, <2>2 DEF WellFormed
  <2>4. Whole(request)' = Whole(request)
    BY DEF Whole, hostVars
  <2>5. STALLRQ' = FALSE => received' + InBank' + InHand' = Whole(request)
    <3>1. InBank' \in Nat /\ InHand' \in Nat
      BY DEF InBank, InHand, ENDPOINT0_SIZE
    <3>2. received' = 0
      BY <1>1 DEF hostVars
    <3>3. STALLRQ' = FALSE => InBank' + InHand' = Whole(request)
      BY <2>3 DEF Begins
    <3>4. QED
      BY <3>1, <3>2, <3>3
  <2>6. QED
    BY <1>1, <2>2, <2>3, <2>4, <2>5 DEF Reading, Begins, hostVars
<1>6. QED
  BY <1>2, <1>3, <1>4, <1>5 DEF TransferInv

LEMMA BeginTransferInv ==
    ASSUME TransferInv,
           \/ GetDescriptor \/ HidGetReport
           \/ GetShort("GET_CONFIGURATION", 1) \/ GetShort("GET_STATUS", 2)
    PROVE  TransferInv'
<1> USE DEF ReadRequests, ENDPOINT0_SIZE, Stays
<1>1. CASE GetDescriptor
  <2>1. Accept("GET_DESCRIPTOR") /\ UNCHANGED <<hostVars, UDADDR>> /\ STALLRQ = FALSE
        /\ request \in Requests /\ request.bRequest = "GET_DESCRIPTOR"
    BY <1>1, AcceptFacts DEF GetDescriptor
  <2>2. TXINI' = TRUE /\ bank' = 0 /\ InBank' = 0
    BY <1>1 DEF GetDescriptor, Stall, Empty, InBank
  <2>3. CASE Listed(request)
    <3>1. pc' = "send" /\ len' = Whole(request) /\ len' \in 0..255 /\ STALLRQ' = FALSE
      BY <1>1, <2>1, <2>3, ReadLengthIsWhole DEF GetDescriptor
    <3>2. Begins
      <4>1. InBank' + InHand' = Whole(request)
        BY <2>2, <3>1 DEF InHand
      <4>2. QED
        BY <2>2, <3>1, <4>1 DEF Begins
    <3>3. 0 \in 0..ENDPOINT0_SIZE
      OBVIOUS
    <3>4. QED
      BY <2>1, <2>2, <3>1, <3>2, <3>3, AcceptTransferInv
  <2>4. CASE ~Listed(request)
    <3>1. STALLRQ' = TRUE /\ pc' = "idle" /\ len' = 0
      BY <1>1, <2>4 DEF GetDescriptor, Stall
    <3>2. Begins
      BY <2>2, <3>1 DEF Begins
    <3>3. QED
      BY <2>1, <2>2, <3>1, <3>2, AcceptTransferInv
  <2>5. QED
    BY <2>3, <2>4
<1>2. CASE HidGetReport
  <2>1. Accept("HID_GET_REPORT") /\ UNCHANGED <<hostVars, UDADDR>> /\ STALLRQ' = FALSE
        /\ request \in Requests /\ request.bRequest = "HID_GET_REPORT" /\ WellFormed(request)
    BY <1>2, AcceptFacts DEF HidGetReport
  <2>2. TXINI' = TRUE /\ bank' = 0 /\ InBank' = 0 /\ pc' = "send" /\ len' = 64
    BY <1>2 DEF HidGetReport, Empty, InBank, RAWHID_PACKET_SIZE
  <2>3. Whole(request) = 64
    BY <2>1 DEF Whole, Size, WellFormed, Least, RAWHID_PACKET_SIZE
  <2>4. Begins
    <3>1. InBank' + InHand' = Whole(request)
      BY <2>2, <2>3 DEF InHand
    <3>2. QED
      BY <2>1, <2>2, <3>1 DEF Begins
  <2>5. 0 \in 0..ENDPOINT0_SIZE /\ 64 \in 0..255
    OBVIOUS
  <2>6. QED
    BY <2>1, <2>2, <2>4, <2>5, AcceptTransferInv
<1>3. ASSUME NEW b \in {"GET_CONFIGURATION", "GET_STATUS"}, NEW n,
             n = IF b = "GET_CONFIGURATION" THEN 1 ELSE 2, GetShort(b, n)
      PROVE  TransferInv'
  <2>1. Accept(b) /\ UNCHANGED <<hostVars, UDADDR>> /\ STALLRQ' = FALSE
        /\ request \in Requests /\ request.bRequest = b /\ WellFormed(request)
    BY <1>3, AcceptFacts DEF GetShort
  <2>2. TXINI' = FALSE /\ bank' = n /\ pc' = "idle" /\ len' = len
    BY <1>3 DEF GetShort, SendIn
  <2>3. Whole(request) = n
    BY <1>3, <2>1 DEF Whole, Size, WellFormed, Least
  <2>4. InBank' = n /\ InHand' = 0 /\ n \in 0..32
    BY <1>3, <2>2 DEF InBank, InHand
  <2>5. Begins
    <3>1. InBank' + InHand' = Whole(request)
      BY <2>3, <2>4
    <3>2. QED
      BY <2>1, <2>2, <3>1 DEF Begins
  <2>6. len \in 0..255
    BY Numbers DEF TransferInv
  <2>7. QED
    BY <2>1, <2>2, <2>4, <2>5, <2>6, AcceptTransferInv
<1>4. CASE GetShort("GET_CONFIGURATION", 1)
  BY ONLY <1>3, <1>4
<1>5. CASE GetShort("GET_STATUS", 2)
  BY ONLY <1>3, <1>5
<1>6. QED
  BY <1>1, <1>2, <1>4, <1>5

LEMMA OtherTransferInv ==
    ASSUME TransferInv,
           SetAddress \/ SetConfiguration \/ Feature \/ HidSetReport \/ Unknown
    PROVE  TransferInv'
<1>1. len \in 0..255 /\ STALLRQ \in BOOLEAN
  BY Numbers DEF TransferInv, TypeOK
<1>2. 0 \in 0..ENDPOINT0_SIZE /\ RAWHID_PACKET_SIZE \in 0..255 /\ 0 \in 0..255
  BY DEF ENDPOINT0_SIZE, RAWHID_PACKET_SIZE
<1> USE DEF ReadRequests, Stays, SendIn, Empty, Stall
<1>3. CASE SetAddress
  <2>1. STALLRQ = FALSE
    BY <1>3, AcceptFacts DEF SetAddress
  <2>2. QED
    BY <1>1, <1>2, <1>3, <2>1, AcceptTransferInv DEF SetAddress
<1>4. CASE SetConfiguration
  BY <1>1, <1>2, <1>4, AcceptTransferInv DEF SetConfiguration
<1>5. CASE Feature
  <2>1. ASSUME NEW b \in {"SET_FEATURE", "CLEAR_FEATURE"}, Accept(b) PROVE TransferInv'
    BY <1>1, <1>2, <1>5, <2>1, AcceptTransferInv DEF Feature
  <2>2. QED
    BY <1>5, <2>1 DEF Feature
<1>6. CASE HidSetReport
  BY <1>1, <1>2, <1>6, AcceptTransferInv DEF HidSetReport
<1>7. CASE Unknown
  BY <1>1, <1>2, <1>7, AcceptTransferInv DEF Unknown
<1>8. QED
  BY <1>3, <1>4, <1>5, <1>6, <1>7

LEMMA SendTransferInv == TransferInv /\ SendPacket => TransferInv'
<1> SUFFICES ASSUME TransferInv, SendPacket PROVE TransferInv'
  OBVIOUS
<1> DEFINE n == Chunk(len)
<1>1. len \in 0..255 /\ received \in Nat
  BY Numbers DEF TransferInv
<1>2. n \in 0..ENDPOINT0_SIZE /\ len - n \in 0..255 /\ (n < ENDPOINT0_SIZE => len - n = 0)
  BY <1>1, ChunkOf
<1>3. /\ pc = "send" /\ TXINI /\ TXINI' = FALSE /\ bank' = n /\ len' = len - n
      /\ pc' = IF More(len - n, n) THEN "send" ELSE "idle"
      /\ UNCHANGED <<RXSTPI, RXOUTI, STALLRQ, hostVars, UDADDR>>
  BY DEF SendPacket, SendIn, Stays
<1>4. More(len - n, n) \/ len - n = 0
  BY <1>1, <1>2 DEF More
<1>5. n < ENDPOINT0_SIZE => ~More(len - n, n)
  BY <1>2 DEF More, ENDPOINT0_SIZE
<1> HIDE DEF n
<1>6. InBank' = n /\ InHand' = len - n /\ InBank = 0 /\ InHand = len
  BY <1>3, <1>4 DEF InBank, InHand
<1>7. TypeOK'
  BY <1>2, <1>3 DEF TransferInv, TypeOK, hostVars
<1>8. Pending' /\ Addressing' /\ ReadsWhole'
  BY <1>3 DEF TransferInv, Pending, Addressing, ReadsWhole, hostVars
<1>9. Reading'
  <2>1. InBank' + InHand' = InBank + InHand
    BY <1>1, <1>2, <1>6 DEF ENDPOINT0_SIZE
  <2>2. received + InBank + InHand = received' + InBank' + InHand'
    <3>1. received' = received
      BY <1>3 DEF hostVars
    <3>2. QED
      BY <3>1, <1>1, <1>2, <1>6 DEF ENDPOINT0_SIZE
  <2>3. bank' < ENDPOINT0_SIZE => pc' = "idle"
    BY <1>3, <1>5
  <2>4. Whole(request)' = Whole(request)
    BY <1>3 DEF Whole, hostVars
  <2>5. pc' \in {"idle", "send"}
    BY <1>3
  <2>6. RXOUTI' = RXOUTI /\ RXSTPI' = RXSTPI /\ STALLRQ' = STALLRQ /\ pc = "send"
    BY <1>3
  <2>7. UNCHANGED <<phase, request, gaveUp>>
    BY <1>3 DEF hostVars
  <2>8. SUFFICES ASSUME phase = "data in" PROVE Reading'
    BY <2>7 DEF Reading
  <2>9. /\ request \in Requests /\ request.in /\ request.wLength > 0 /\ ~gaveUp
        /\ ~RXSTPI => ~STALLRQ /\ ~RXOUTI /\ received + InBank + InHand = Whole(request)
    BY <2>6, <2>8 DEF TransferInv, Reading
  <2>10. QED
    BY <2>2, <2>3, <2>4, <2>5, <2>6, <2>7, <2>9 DEF Reading
<1>10. QED
  BY <1>7, <1>8, <1>9 DEF TransferInv

LEMMA RestTransferInv ==
    ASSUME TransferInv, Abort \/ TakeAddress \/ ReceivePacket \/ AnswerReport
    PROVE  TransferInv'
<1>1. len \in 0..255 /\ received \in Nat
  BY Numbers DEF TransferInv
<1>2. Whole(request)' = Whole(request)
  BY DEF Abort, TakeAddress, ReceivePacket, AnswerReport, Stays, hostVars, Whole
<1>3. CASE Abort
  <2>1. pc = "send" /\ RXOUTI /\ pc' = "idle" /\ UNCHANGED <<endpoint, len, hostVars, UDADDR>>
    BY <1>3 DEF Abort, Stays
  <2>2. TypeOK' /\ Pending' /\ Addressing' /\ ReadsWhole'
    BY <2>1 DEF TransferInv, TypeOK, Pending, Addressing, ReadsWhole, hostVars, endpoint
  <2>3. Reading'
    BY <2>1 DEF TransferInv, Reading, hostVars, endpoint
  <2>4. QED
    BY <2>2, <2>3 DEF TransferInv
<1>4. CASE TakeAddress
  <2>1. /\ pc = "address" /\ TXINI /\ UDADDR' = request.wValue[2] /\ pc' = "idle"
        /\ UNCHANGED <<hostVars, endpoint, len>>
    BY <1>4 DEF TakeAddress
  <2>2. phase = "idle" /\ UDADDR' \in Addresses
    BY <2>1, RequestFacts DEF TransferInv, Addressing, WellFormed
  <2>3. TypeOK' /\ Pending' /\ Addressing' /\ ReadsWhole'
    <3>1. TypeOK'
      BY <2>1, <2>2 DEF TransferInv, TypeOK, hostVars, endpoint
    <3>2. Pending' /\ Addressing' /\ ReadsWhole'
      BY <2>1, <2>2 DEF TransferInv, Pending, Addressing, ReadsWhole, hostVars, endpoint
    <3>3. QED
      BY <3>1, <3>2
  <2>4. Reading'
    BY <2>1, <2>2 DEF Reading, hostVars
  <2>5. QED
    BY <2>3, <2>4 DEF TransferInv
<1>5. CASE ReceivePacket
  <2>1. /\ pc = "receive" /\ RXOUTI' = FALSE /\ len' = len - Chunk(len)
        /\ pc' \in {"receive", "answer"}
        /\ UNCHANGED <<RXSTPI, TXINI, bank, STALLRQ, hostVars, UDADDR>>
    BY <1>5 DEF ReceivePacket, AckOut, Stays
  <2>2. len' \in 0..255
    BY <2>1, <1>1, ChunkOf
  <2>3. TypeOK' /\ Pending' /\ Addressing' /\ ReadsWhole'
    <3>1. TypeOK'
      BY <2>1, <2>2 DEF TransferInv, TypeOK, hostVars
    <3>2. Pending' /\ Addressing' /\ ReadsWhole'
      BY <2>1, <2>2 DEF TransferInv, Pending, Addressing, ReadsWhole, hostVars
    <3>3. QED
      BY <3>1, <3>2
  <2>4. Reading'
    BY <2>1 DEF TransferInv, Reading, hostVars
  <2>5. QED
    BY <2>3, <2>4 DEF TransferInv
<1>6. CASE AnswerReport
  <2>1. /\ pc = "answer" /\ TXINI' = FALSE /\ bank' = 0 /\ pc' = "idle"
        /\ UNCHANGED <<RXSTPI, RXOUTI, STALLRQ, len, hostVars, UDADDR>>
    BY <1>6 DEF AnswerReport, SendIn, Stays
  <2>2. bank' \in 0..ENDPOINT0_SIZE
    BY <2>1 DEF ENDPOINT0_SIZE
  <2>3. TypeOK' /\ Pending' /\ Addressing' /\ ReadsWhole'
    <3>1. TypeOK'
      BY <2>1, <2>2 DEF TransferInv, TypeOK, hostVars
    <3>2. Pending' /\ Addressing' /\ ReadsWhole'
      BY <2>1, <2>2 DEF TransferInv, Pending, Addressing, ReadsWhole, hostVars
    <3>3. QED
      BY <3>1, <3>2
  <2>4. Reading'
    BY <2>1 DEF TransferInv, Reading, hostVars
  <2>5. QED
    BY <2>3, <2>4 DEF TransferInv
<1>7. QED
  BY <1>3, <1>4, <1>5, <1>6

LEMMA NextTransferInv == TransferInv /\ [Next]_vars => TransferInv'
<1>1. TransferInv /\ ISR => TransferInv'
  BY BeginTransferInv, OtherTransferInv, SendTransferInv, RestTransferInv DEF ISR
<1>2. TransferInv /\ (\E r \in Requests : HostSetup(r)) => TransferInv'
  BY SetupTransferInv
<1>3. TransferInv /\ UNCHANGED vars => TransferInv'
  <2> SUFFICES ASSUME TransferInv, UNCHANGED vars PROVE TransferInv'
    OBVIOUS
  <2>1. UNCHANGED <<phase, request, received, unsent, gaveUp, transfers>>
        /\ UNCHANGED <<RXSTPI, RXOUTI, TXINI, bank, STALLRQ, UDADDR, pc, len>>
    BY DEF vars, hostVars, endpoint
  <2>2. TypeOK'
    <3>1. TypeOK
      BY DEF TransferInv
    <3>2. /\ phase' \in {"idle", "left", "data in", "data out", "status in", "status out"}
          /\ request' \in Requests \cup {None}
          /\ received' \in Nat /\ unsent' \in Nat
          /\ gaveUp' \in BOOLEAN /\ transfers' \in 0..MaxTransfers
      BY <2>1, <3>1 DEF TypeOK
    <3>3. /\ RXSTPI' \in BOOLEAN /\ RXOUTI' \in BOOLEAN /\ TXINI' \in BOOLEAN /\ STALLRQ' \in BOOLEAN
          /\ bank' \in 0..ENDPOINT0_SIZE
          /\ UDADDR' \in Addresses \cup {0}
          /\ pc' \in {"idle", "send", "address", "receive", "answer"}
          /\ len' \in 0..255
      BY <2>1, <3>1 DEF TypeOK
    <3>4. QED
      BY ONLY <3>2, <3>3 DEF TypeOK
  <2>3. Pending' /\ Addressing'
    BY ONLY TransferInv, <2>1 DEF TransferInv, Pending, Addressing
  <2>4. ReadsWhole'
    BY <2>1 DEF TransferInv, ReadsWhole
  <2>5. Reading'
    BY <2>1 DEF TransferInv, Reading, InBank, InHand, Whole
  <2>6. QED
    BY <2>2, <2>3, <2>4, <2>5 DEF TransferInv
<1>4. QED
  BY <1>1, <1>2, <1>3, HostTransferInv DEF Next

LEMMA TransferInvariant == Spec => []TransferInv
  BY InitTransferInv, NextTransferInv, PTL DEF Spec

-----------------------------------------------------------------------------
(***************************************************************************)
(* The theorems                                                            *)
(***************************************************************************)

\* The variables keep their types: an 8 bit length never wraps and no packet
\* is larger than endpoint 0's bank (767-938).
THEOREM TransfersTyped == Spec => []TypeOK
<1>1. TransferInv => TypeOK
  BY DEF TransferInv
<1>2. QED
  BY <1>1, TransferInvariant, PTL

\* Whatever lengths the hosts ask for, a read that is not given up brings all
\* they asked for or all there is, and never more (834-842, 887-936).
THEOREM ReadsEndWhole == Spec => []ReadsWhole
<1>1. TransferInv => ReadsWhole
  BY DEF TransferInv
<1>2. QED
  BY <1>1, TransferInvariant, PTL

\* The device changes its address only to the one it was given, and only when
\* the host has had the status packet at the old one (843-848).
THEOREM AddressAfterStatus == Spec => OldAddressUntilStatus
<1> DEFINE Late == UDADDR' # UDADDR =>
        request.bRequest = "SET_ADDRESS" /\ phase = "idle" /\ UDADDR' = request.wValue[2]
<1>1. TransferInv /\ [Next]_vars => [Late]_vars
  <2> SUFFICES ASSUME TransferInv, Next, UDADDR' # UDADDR PROVE Late
    OBVIOUS
  <2>1. TakeAddress
    BY DEF Next, ISR, Host, HostSetup, HostIn, HostGivesUp, HostLeaves, HostStatusOut, HostOut,
           HostStatusIn, HostStalled,
           GetDescriptor, HidGetReport, Abort, SendPacket, SetAddress, SetConfiguration, Feature, GetShort,
           HidSetReport, ReceivePacket, AnswerReport, Unknown, Stays
  <2>2. QED
    BY <2>1 DEF TakeAddress, TransferInv, Addressing
<1>2. QED
  BY <1>1, TransferInvariant, PTL DEF Spec, OldAddressUntilStatus
=============================================================================
