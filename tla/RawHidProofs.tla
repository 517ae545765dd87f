---------------------------- MODULE RawHidProofs ----------------------------
(***************************************************************************)
(* Proofs about the raw HID driver: its variables keep their types, a call *)
(* works on its own endpoint's FIFO with interrupts off, waits its time,   *)
(* and with the interrupts falling anywhere in it implements PacketLink.   *)
(***************************************************************************)
EXTENDS RawHid, SequenceTheorems, TLAPS

Waiting == {"select", "poll", "transfer", "finish", "restore", "count", "config",
            "save again", "cli again"}

\* The SREG that a call will restore was saved with interrupts on.
SavedOn == pc \in Masked \cup {"cli", "cli again"} => intr_state = TRUE

\* What a call that has begun carries, or has received.
Carries ==
    /\ call = TX /\ pc # "loop" => buffer \in Replies
    /\ call = RX /\ pc = "finish" => buffer \in {Garbage} \cup Requests

\* The frames seen and those the count still waits for.
Counted == pc \in Waiting => frames + count[call] >= Timeout(call)

\* The inductive invariant.
LinkInv == TypeOK /\ OwnEndpoint /\ SavedOn /\ Carries /\ Counted

-----------------------------------------------------------------------------

LEMMA TodoBound ==
    ASSUME NEW m \in Nat, NEW s \in 0..MaxSent, NEW t \in 0..Least(m, MaxSent - s)
    PROVE  t \in 0..MaxSent /\ s + t <= MaxSent
  BY BoundAssumption DEF BoundAssumption, Least

LEMMA TailFits ==
    ASSUME NEW S, NEW s \in Seq(S), s # <<>>, Len(s) <= Banks
    PROVE  Head(s) \in S /\ Tail(s) \in Seq(S) /\ Len(Tail(s)) <= Banks
<1>1. Len(s) \in Nat /\ Len(Tail(s)) = Len(s) - 1
  BY HeadTailProperties, LenProperties
<1>2. QED
  BY <1>1, HeadTailProperties DEF Banks

FifoTyped(f) ==
    /\ f \in [Endpoints -> Seq(Requests) \cup Seq(Replies)]
    /\ \A e \in Endpoints : Len(f[e]) <= Banks
    /\ f[RX] \in Seq(Requests) /\ f[TX] \in Seq(Replies)

LEMMA FifoUpdate ==
    ASSUME NEW f, FifoTyped(f), NEW e \in Endpoints, NEW s, Len(s) <= Banks,
           e = RX => s \in Seq(Requests), e = TX => s \in Seq(Replies)
    PROVE  FifoTyped([f EXCEPT ![e] = s])
  BY DEF FifoTyped, Endpoints, RX, TX

LEMMA FifoIsTyped == LinkInv => FifoTyped(fifo) /\ RX \in Endpoints /\ RX # TX
  BY DEF LinkInv, TypeOK, FifoTyped, Endpoints, RX, TX

LEMMA InitLinkInv == Init => LinkInv
<1> SUFFICES ASSUME Init PROVE LinkInv
  OBVIOUS
<1> USE BoundAssumption DEF BoundAssumption, Init, Endpoints, TX, RX
<1>1. TypeOK
  <2>1. /\ count \in [Endpoints -> Nat] /\ \A e \in Endpoints : count[e] <= Timeout(e)
        /\ UENUM \in {0, TX, RX, 4}
        /\ interrupts \in BOOLEAN /\ intr_state \in BOOLEAN
        /\ pc \in Places /\ call \in Endpoints
    BY DEF Timeout, Places
  <2>2. /\ fifo \in [Endpoints -> Seq(Requests) \cup Seq(Replies)]
        /\ \A e \in Endpoints : Len(fifo[e]) <= Banks
        /\ fifo[RX] \in Seq(Requests) /\ fifo[TX] \in Seq(Replies) /\ got \in Seq(Replies)
    BY DEF Banks
  <2>3. /\ usb_configuration \in {0, 1}
        /\ answering \in 0..MaxRequests
        /\ todo \in 0..MaxSent /\ sent \in 0..MaxSent /\ sent + todo <= MaxSent
        /\ resets \in 0..MaxResets /\ asked \in 0..MaxRequests /\ first \in 1..(MaxRequests + 1)
        /\ frames \in Nat
    OBVIOUS
  <2>4. /\ buffer \in {Garbage} \cup Requests \cup Replies
        /\ EORSTI \in BOOLEAN /\ SOFI \in BOOLEAN /\ enabled0 \in BOOLEAN
        /\ setup \in AllControls \cup {None}
        /\ endpoint \in [Endpoints -> {"disabled", "enabled", "stalled"}]
        /\ taken \in {Garbage} \cup Requests /\ given \in {Garbage} \cup Replies
    OBVIOUS
  <2>5. QED
    BY <2>1, <2>2, <2>3, <2>4 DEF TypeOK
<1>2. OwnEndpoint /\ SavedOn /\ Carries /\ Counted
  BY DEF OwnEndpoint, SavedOn, Carries, Counted, Masked, Waiting
<1>3. QED
  BY <1>1, <1>2 DEF LinkInv

\* What most steps of a call leave alone.
LEMMA CallTyped ==
    ASSUME TypeOK, UNCHANGED <<usb_configuration, count, call, buffer, sent, bus, host, taken, given, frames>>,
           UENUM' \in {0, TX, RX, 4}, interrupts' \in BOOLEAN, intr_state' \in BOOLEAN, pc' \in Places,
           answering' \in 0..MaxRequests, todo' \in 0..MaxSent, sent + todo' <= MaxSent
    PROVE  TypeOK'
<1>1. /\ usb_configuration' \in {0, 1}
      /\ count' \in [Endpoints -> Nat] /\ \A e \in Endpoints : count'[e] <= Timeout(e)'
  BY DEF TypeOK, Timeout
<1>2. /\ call' \in Endpoints
      /\ buffer' \in {Garbage} \cup Requests \cup Replies
      /\ sent' \in 0..MaxSent /\ sent' + todo' <= MaxSent
      /\ taken' \in {Garbage} \cup Requests /\ given' \in {Garbage} \cup Replies /\ frames' \in Nat
  BY DEF TypeOK
<1>3. /\ EORSTI' \in BOOLEAN /\ SOFI' \in BOOLEAN /\ enabled0' \in BOOLEAN
      /\ setup' \in AllControls \cup {None}
      /\ endpoint' \in [Endpoints -> {"disabled", "enabled", "stalled"}]
  BY DEF TypeOK, bus
<1>4. /\ fifo' \in [Endpoints -> Seq(Requests) \cup Seq(Replies)]
      /\ \A e \in Endpoints : Len(fifo'[e]) <= Banks
      /\ fifo'[RX] \in Seq(Requests) /\ fifo'[TX] \in Seq(Replies)
  BY DEF TypeOK, bus
<1>5. /\ resets' \in 0..MaxResets /\ asked' \in 0..MaxRequests /\ first' \in 1..(MaxRequests + 1)
      /\ got' \in Seq(Replies)
  BY DEF TypeOK, host
<1>6. QED
  BY <1>1, <1>2, <1>3, <1>4, <1>5 DEF TypeOK

\* A step that only goes on in the call, saves SREG or turns interrupts off or on.
LEMMA GoesTyped ==
    ASSUME LinkInv, UNCHANGED <<usb_configuration, count, bus, host, history>>, Same,
           UENUM' \in {UENUM, TX, RX}, interrupts' \in BOOLEAN, intr_state' \in BOOLEAN, pc' \in Places
    PROVE  TypeOK'
<1>1. /\ answering \in 0..MaxRequests /\ todo \in 0..MaxSent /\ sent + todo <= MaxSent
      /\ UENUM \in {0, TX, RX, 4}
  BY DEF LinkInv, TypeOK
<1>2. /\ answering' \in 0..MaxRequests /\ todo' \in 0..MaxSent /\ sent + todo' <= MaxSent
      /\ UENUM' \in {0, TX, RX, 4}
      /\ UNCHANGED <<usb_configuration, count, call, buffer, sent, bus, host, taken, given, frames>>
  BY <1>1 DEF Same, history
<1>3. TypeOK
  BY DEF LinkInv
<1>4. QED
  BY ONLY <1>2, <1>3, CallTyped, interrupts' \in BOOLEAN, intr_state' \in BOOLEAN, pc' \in Places

\* A call that finds no configuration, or waits no more, comes back with nothing.
LEMMA NothingLinkInv ==
    ASSUME LinkInv, Return(FALSE), pc \in {"check", "config", "count"},
           UNCHANGED <<driver, intr_state, bus, host, history>>
    PROVE  LinkInv'
<1>1. /\ pc' = "loop" /\ UNCHANGED <<call, buffer, sent>>
      /\ UNCHANGED <<driver, intr_state, bus, host, history>>
  BY DEF Return
<1>2. answering' \in 0..MaxRequests /\ todo' \in 0..MaxSent /\ sent + todo' <= MaxSent
  <2>1. CASE call = TX
    BY <2>1 DEF Return, LinkInv, TypeOK
  <2>2. CASE call # TX
    <3>1. answering' = 0 /\ todo' \in 0..Least(1, MaxSent - sent)
      BY <2>2 DEF Return
    <3>2. sent \in 0..MaxSent
      BY DEF LinkInv, TypeOK
    <3>3. answering' \in 0..MaxRequests
      BY <3>1, BoundAssumption DEF BoundAssumption
    <3>4. QED
      BY <3>1, <3>2, <3>3, TodoBound
  <2>3. QED
    BY <2>1, <2>2
<1>3. TypeOK'
  <2>1. /\ UENUM' \in {0, TX, RX, 4} /\ interrupts' \in BOOLEAN /\ intr_state' \in BOOLEAN
        /\ pc' \in Places /\ TypeOK
        /\ UNCHANGED <<usb_configuration, count, call, buffer, sent, bus, host, taken, given, frames>>
    BY <1>1 DEF LinkInv, TypeOK, driver, history, Places
  <2>2. QED
    BY ONLY <1>2, <2>1, CallTyped
<1>4. (OwnEndpoint /\ SavedOn /\ Carries /\ Counted)'
  <2>1. interrupts = TRUE
    BY DEF LinkInv, TypeOK, OwnEndpoint, Masked
  <2>2. QED
    BY <1>1, <2>1 DEF driver, OwnEndpoint, SavedOn, Carries, Counted, Masked, Waiting
<1>5. QED
  BY <1>3, <1>4 DEF LinkInv

\* A step inside a call that interrupts may fall between.
LEMMA GoesLinkInv ==
    ASSUME LinkInv,
           \/ Online("check", "save") \/ Online("config", "save again")
           \/ Save("save", "cli") \/ Save("save again", "cli again")
           \/ Cli("cli", "arm") \/ Cli("cli again", "select")
           \/ Select \/ Poll \/ Restore \/ NotYet
    PROVE  LinkInv'
<1> DEFINE Kept == /\ UNCHANGED <<usb_configuration, count, bus, host, history>> /\ Same
                   /\ UENUM' \in {UENUM, TX, RX} /\ interrupts' \in BOOLEAN
                   /\ intr_state' \in BOOLEAN /\ pc' \in Places
           Rest == (OwnEndpoint /\ SavedOn /\ Carries /\ Counted)'
<1>0. Kept /\ Rest => LinkInv'
  BY GoesTyped DEF LinkInv
<1>1. /\ interrupts \in BOOLEAN /\ intr_state \in BOOLEAN /\ call \in {TX, RX}
      /\ interrupts <=> pc \notin Masked
      /\ pc \in {"poll", "transfer"} => UENUM = call
      /\ SavedOn /\ Carries /\ Counted
  BY DEF LinkInv, TypeOK, OwnEndpoint, Endpoints
<1>2. ASSUME Online("check", "save") \/ Online("config", "save again") PROVE Kept /\ Rest
  BY <1>1, <1>2 DEF Online, Goes, Same, driver, OwnEndpoint, SavedOn, Carries, Counted, Masked,
                    Waiting, Places, history, Timeout
<1>3. ASSUME Save("save", "cli") \/ Save("save again", "cli again") PROVE Kept /\ Rest
  BY <1>1, <1>3 DEF Save, Goes, Same, driver, OwnEndpoint, SavedOn, Carries, Counted, Masked,
                    Waiting, Places, history, Timeout
<1>4. ASSUME Cli("cli", "arm") \/ Cli("cli again", "select") PROVE Kept /\ Rest
  BY <1>1, <1>4 DEF Cli, Goes, Same, OwnEndpoint, SavedOn, Carries, Counted, Masked,
                    Waiting, Places, history, Timeout
<1>5. ASSUME Select PROVE Kept /\ Rest
  BY <1>1, <1>5 DEF Select, Goes, Same, OwnEndpoint, SavedOn, Carries, Counted, Masked,
                    Waiting, Places, history, Timeout
<1>6. ASSUME Poll PROVE Kept /\ Rest
  BY <1>1, <1>6 DEF Poll, Same, driver, OwnEndpoint, SavedOn, Carries, Counted, Masked,
                    Waiting, Places, history, Timeout
<1>7. ASSUME Restore PROVE Kept /\ Rest
  BY <1>1, <1>7 DEF Restore, RestoreSREG, Goes, Same, OwnEndpoint, SavedOn, Carries, Counted,
                    Masked, Waiting, Places, history, Timeout
<1>8. ASSUME NotYet PROVE Kept /\ Rest
  BY <1>1, <1>8 DEF NotYet, Goes, Same, driver, OwnEndpoint, SavedOn, Carries, Counted, Masked,
                    Waiting, Places, history, Timeout
<1> HIDE DEF Kept, Rest
<1>9. QED
  BY <1>0, <1>2, <1>3, <1>4, <1>5, <1>6, <1>7, <1>8

\* A step that takes a packet or gives one, a call that begins or ends.
LEMMA MainLinkInv == LinkInv /\ Main => LinkInv'
<1> SUFFICES ASSUME LinkInv, Main PROVE LinkInv'
  OBVIOUS
<1> USE BoundAssumption DEF BoundAssumption, LinkInv, TypeOK, OwnEndpoint, SavedOn, Carries,
     Counted, Timeout, Masked, Places, Waiting, Endpoints, TX, RX, driver, caller, bus, host,
     history, Goes, Same
<1>1. CASE CallSend
  BY <1>1 DEF CallSend, Replies, Reply
<1>2. CASE CallRecv
  BY <1>2 DEF CallRecv
<1>3. CASE Offline("check") \/ Offline("config")
  BY ONLY LinkInv, <1>3, NothingLinkInv DEF Offline
<1>4. CASE TimedOut
  BY ONLY LinkInv, <1>4, NothingLinkInv DEF TimedOut
<1>5. CASE \/ Online("check", "save") \/ Online("config", "save again")
           \/ Save("save", "cli") \/ Save("save again", "cli again")
           \/ Cli("cli", "arm") \/ Cli("cli again", "select")
           \/ Select \/ Poll \/ Restore \/ NotYet
  BY ONLY LinkInv, <1>5, GoesLinkInv
<1>6. CASE Arm
  BY <1>6 DEF Arm, Armed, Timeout
<1>7. CASE ReadPacket
  <2>1. UENUM = RX /\ call = RX /\ pc = "transfer" /\ pc' = "finish"
    BY <1>7 DEF ReadPacket
  <2>2. CASE Ready(RX)
    <3>1. /\ fifo[RX] \in Seq(Requests) /\ fifo[RX] # <<>>
          /\ buffer' = Head(fifo[RX]) /\ taken' = Head(fifo[RX])
          /\ fifo' = [fifo EXCEPT ![RX] = Tail(@)]
      BY <1>7, <2>1, <2>2 DEF ReadPacket, Release, Ready
    <3>2. /\ Head(fifo[RX]) \in Requests
          /\ Tail(fifo[RX]) \in Seq(Requests)
          /\ Len(Tail(fifo[RX])) <= Banks
      BY <3>1, TailFits
    <3>3. FifoTyped(fifo')
      <4>1. FifoTyped(fifo) /\ RX \in Endpoints /\ RX # TX
        BY ONLY LinkInv, FifoIsTyped
      <4>2. FifoTyped([fifo EXCEPT ![RX] = Tail(fifo[RX])])
        BY ONLY <4>1, <3>2, FifoUpdate
      <4>3. QED
        BY <3>1, <4>2
    <3>4. QED
      BY <1>7, <2>1, <3>1, <3>2, <3>3 DEF ReadPacket, FifoTyped
  <2>3. CASE ~Ready(RX)
    BY <1>7, <2>1, <2>3 DEF ReadPacket, Release
  <2>4. QED
    BY <2>2, <2>3
<1>8. CASE WritePacket
  BY <1>8 DEF WritePacket, Ready, Banks
<1>9. CASE Finish
  <2>1. interrupts' = TRUE /\ intr_state' = intr_state
    BY <1>9 DEF Finish, RestoreSREG
  <2>2. CASE call = TX
    BY <1>9, <2>1, <2>2 DEF Finish, Return
  <2>3. CASE call = RX
    <3>1. buffer.of \in 0..MaxRequests
      BY <1>9, <2>3 DEF Finish, Garbage, Request, Requests
    <3>2. answering' = buffer.of /\ todo' \in 0..Least(MaxReplies, MaxSent - sent)
      BY <1>9, <2>3 DEF Finish, Return
    <3>3. todo' \in 0..MaxSent /\ sent + todo' <= MaxSent
      BY <3>2, TodoBound
    <3>4. QED
      <4>1. /\ UENUM' \in {0, TX, RX, 4} /\ interrupts' \in BOOLEAN /\ intr_state' \in BOOLEAN
            /\ pc' \in Places /\ TypeOK
            /\ UNCHANGED <<usb_configuration, count, call, buffer, sent, bus, host, taken, given, frames>>
        BY <1>9, <2>1 DEF Finish, Return
      <4>2. TypeOK'
        BY ONLY <3>1, <3>2, <3>3, <4>1, CallTyped
      <4>3. (OwnEndpoint /\ SavedOn /\ Carries /\ Counted)'
        BY <1>9, <2>1, <2>3 DEF Finish, Return
      <4>4. QED
        BY ONLY <4>2, <4>3 DEF LinkInv
  <2>4. call = TX \/ call = RX
    OBVIOUS
  <2>5. QED
    BY ONLY <2>2, <2>3, <2>4
<1>10. QED
  BY ONLY Main, <1>1, <1>2, <1>3, <1>4, <1>5, <1>6, <1>7, <1>8, <1>9 DEF Main

\* A frame takes one from what each count still waits for.
LEMMA FrameCounted ==
    ASSUME LinkInv, GenInterrupt
    PROVE  /\ count' \in [Endpoints -> Nat] /\ \A e \in Endpoints : count'[e] <= Timeout(e)
           /\ frames' \in Nat /\ Counted'
<1>1. /\ count \in [Endpoints -> Nat] /\ frames \in Nat /\ call \in Endpoints
      /\ \A e \in Endpoints : count[e] <= Timeout(e)
  BY DEF LinkInv, TypeOK
<1>2. UNCHANGED <<pc, call>>
  BY DEF GenInterrupt, caller
<1>3. \A e \in Endpoints : Timeout(e) \in Nat /\ Timeout(e) <= TxTimeout + RxTimeout
  BY BoundAssumption DEF BoundAssumption, Timeout
<1>4. CASE SOFI
  <2>1. \/ count' = [e \in Endpoints |-> CountDown(e)]
        \/ count' = count
    BY <1>4 DEF GenInterrupt
  <2>2. /\ count' \in [Endpoints -> Nat]
        /\ \A e \in Endpoints : count'[e] <= count[e] /\ count'[e] + 1 >= count[e]
    BY <2>1, <1>1 DEF CountDown
  <2>3. frames' = Least(frames + 1, TxTimeout + RxTimeout)
    BY <1>4 DEF GenInterrupt
  <2>4. frames' \in Nat /\ (frames' = frames + 1 \/ frames' = TxTimeout + RxTimeout)
    BY <2>3, <1>1, BoundAssumption DEF Least, BoundAssumption
  <2>5. \A e \in Endpoints : frames + count[e] >= Timeout(e) => frames' + count'[e] >= Timeout(e)
    <3> SUFFICES ASSUME NEW e \in Endpoints, frames + count[e] >= Timeout(e)
                 PROVE  frames' + count'[e] >= Timeout(e)
      OBVIOUS
    <3>1. /\ count[e] \in Nat /\ count'[e] \in Nat /\ Timeout(e) \in Nat
          /\ Timeout(e) <= TxTimeout + RxTimeout /\ count'[e] + 1 >= count[e]
      BY <1>1, <1>3, <2>2
    <3>2. QED
      BY <3>1, <2>4, <1>1, BoundAssumption DEF BoundAssumption
  <2>6. \A e \in Endpoints : count'[e] <= Timeout(e)
    <3> SUFFICES ASSUME NEW e \in Endpoints PROVE count'[e] <= Timeout(e)
      OBVIOUS
    <3>1. /\ count[e] \in Nat /\ count'[e] \in Nat /\ Timeout(e) \in Nat
          /\ count'[e] <= count[e] /\ count[e] <= Timeout(e)
      BY <1>1, <1>3, <2>2
    <3>2. QED
      BY <3>1
  <2>7. Counted => Counted'
    BY <1>1, <1>2, <2>5 DEF Counted, Timeout
  <2>8. QED
    BY <2>2, <2>4, <2>6, <2>7 DEF LinkInv
<1>5. CASE ~SOFI
  <2>1. UNCHANGED <<count, frames>>
    BY <1>5 DEF GenInterrupt
  <2>2. QED
    BY <1>1, <1>2, <2>1 DEF LinkInv, Counted, Timeout
<1>6. QED
  BY <1>4, <1>5

LEMMA GenLinkInv == LinkInv /\ GenInterrupt => LinkInv'
<1> SUFFICES ASSUME LinkInv, GenInterrupt PROVE LinkInv'
  OBVIOUS
<1>1. /\ count' \in [Endpoints -> Nat] /\ \A e \in Endpoints : count'[e] <= Timeout(e)
      /\ frames' \in Nat /\ Counted'
  BY FrameCounted
<1>2. /\ EORSTI' = FALSE /\ SOFI' = FALSE /\ interrupts = TRUE
      /\ UNCHANGED <<interrupts, caller, setup, endpoint, fifo, host, taken, given>>
  BY DEF GenInterrupt, LinkInv, TypeOK
<1>3. /\ UENUM' \in {0, TX, RX, 4} /\ usb_configuration' \in {0, 1}
  BY DEF GenInterrupt, LinkInv, TypeOK
<1>4. enabled0' \in BOOLEAN
  BY DEF GenInterrupt
<1>5. \A e \in Endpoints : count'[e] <= Timeout(e)'
  BY <1>1 DEF Timeout
<1>6. TypeOK'
  BY <1>1, <1>2, <1>3, <1>4, <1>5 DEF LinkInv, TypeOK, caller, host
<1>7. (OwnEndpoint /\ SavedOn /\ Carries)'
  BY <1>2 DEF LinkInv, OwnEndpoint, SavedOn, Carries, caller, Masked
<1>8. QED
  BY <1>1, <1>6, <1>7 DEF LinkInv

\* The steps of the endpoint interrupt, the host and the bus leave the call
\* alone, and do their work on the queues while interrupts are on or the host
\* alone may touch them.
LEMMA CallerLinkInv ==
    ASSUME LinkInv, TypeOK', UNCHANGED <<caller, count, interrupts, frames>>,
           UENUM' = UENUM \/ interrupts = TRUE
    PROVE  LinkInv'
<1>1. (SavedOn /\ Carries)'
  BY DEF LinkInv, SavedOn, Carries, caller
<1>2. OwnEndpoint'
  BY DEF LinkInv, OwnEndpoint, caller, Masked
<1>3. Counted'
  BY DEF LinkInv, Counted, caller, Timeout
<1>4. QED
  BY <1>1, <1>2, <1>3 DEF LinkInv

LEMMA NoPackets == <<>> \in Seq(Requests) /\ <<>> \in Seq(Replies) /\ Len(<<>>) <= Banks
  BY EmptySeq DEF Banks

LEMMA EmptyFifo == FifoTyped([e \in Endpoints |-> <<>>])
  BY EmptySeq, LenProperties DEF FifoTyped, Endpoints, RX, TX, Banks

LEMMA ComLinkInv == LinkInv /\ ComInterrupt => LinkInv'
<1> SUFFICES ASSUME LinkInv, ComInterrupt PROVE LinkInv'
  OBVIOUS
<1>1. /\ interrupts = TRUE /\ setup' = None
      /\ UNCHANGED <<count, interrupts, caller, EORSTI, SOFI, enabled0, history>>
  BY DEF ComInterrupt, LinkInv, TypeOK
<1>2. FifoTyped(fifo)
  BY FifoIsTyped
<1> DEFINE Typed ==
      /\ UENUM' \in {0, TX, RX, 4} /\ usb_configuration' \in {0, 1}
      /\ endpoint' \in [Endpoints -> {"disabled", "enabled", "stalled"}]
      /\ resets' = resets /\ asked' = asked /\ first' \in 1..(MaxRequests + 1)
      /\ got' \in Seq(Replies) /\ FifoTyped(fifo')
<1>3. Typed
  <2>1. ASSUME NEW v \in {0, 1}, SetConfiguration(v) PROVE Typed
    <3>1. asked \in 0..MaxRequests /\ endpoint \in [Endpoints -> {"disabled", "enabled", "stalled"}]
      BY DEF LinkInv, TypeOK
    <3>2. first' \in 1..(MaxRequests + 1)
      BY <2>1, <3>1, BoundAssumption DEF SetConfiguration, BoundAssumption
    <3>3. FifoTyped(fifo')
      BY <2>1, EmptyFifo DEF SetConfiguration, UERST
    <3>4. QED
      BY <2>1, <3>1, <3>2, <3>3 DEF SetConfiguration
  <2>2. ASSUME NEW e \in Endpoints, SetFeature(e) PROVE Typed
    BY <2>2, <1>2 DEF SetFeature, LinkInv, TypeOK, host, Endpoints
  <2>3. ASSUME NEW e \in Endpoints, ClearFeature(e) PROVE Typed
    <3>1. FifoTyped(fifo')
      <4>1. FifoTyped([fifo EXCEPT ![e] = <<>>])
        BY <1>2, NoPackets, FifoUpdate
      <4>2. QED
        BY <2>3, <4>1 DEF ClearFeature
    <3>2. QED
      BY <2>3, <3>1 DEF ClearFeature, LinkInv, TypeOK, host, Endpoints
  <2>4. QED
    BY <2>1, <2>2, <2>3 DEF ComInterrupt
<1>4. TypeOK'
  BY <1>1, <1>3 DEF LinkInv, TypeOK, FifoTyped, caller, history, Timeout
<1>5. QED
  BY <1>1, <1>4, CallerLinkInv DEF history

LEMMA HostLinkInv ==
    LinkInv /\ (BusReset \/ Frame \/ HostSends \/ HostReads \/ \E r \in Controls : Setup(r))
    => LinkInv'
<1> SUFFICES ASSUME LinkInv,
                    BusReset \/ Frame \/ HostSends \/ HostReads \/ \E r \in Controls : Setup(r)
             PROVE  LinkInv'
  OBVIOUS
<1>0. FifoTyped(fifo) /\ RX \in Endpoints /\ TX \in Endpoints /\ RX # TX
  BY FifoIsTyped DEF Endpoints, RX, TX
<1>1. CASE BusReset
  <2>1. FifoTyped(fifo')
    BY <1>1, EmptyFifo DEF BusReset
  <2>2. resets' \in 0..MaxResets
    BY <1>1, BoundAssumption DEF BusReset, LinkInv, TypeOK, BoundAssumption
  <2>3. TypeOK'
    BY <1>1, <2>1, <2>2 DEF BusReset, LinkInv, TypeOK, FifoTyped, driver, caller, history, Timeout
  <2>4. QED
    BY <1>1, <2>3, CallerLinkInv DEF BusReset, driver, history
<1>2. CASE Frame
  <2>1. TypeOK'
    BY <1>2 DEF Frame, LinkInv, TypeOK, driver, caller, host, history, Timeout
  <2>2. QED
    BY <1>2, <2>1, CallerLinkInv DEF Frame, driver, history
<1>3. CASE HostSends
  <2>1. /\ asked' \in 0..MaxRequests /\ Request(asked + 1) \in Requests
    BY <1>3, BoundAssumption DEF HostSends, LinkInv, TypeOK, BoundAssumption, Request, Requests
  <2>2. fifo[RX] \in Seq(Requests) /\ Len(fifo[RX]) < Banks
    BY <1>0, <1>3 DEF HostSends, FifoTyped
  <2>3. /\ Append(fifo[RX], Request(asked + 1)) \in Seq(Requests)
        /\ Len(Append(fifo[RX], Request(asked + 1))) <= Banks
    BY <2>1, <2>2, AppendProperties, LenProperties DEF Banks
  <2>4. FifoTyped(fifo')
    <3>1. FifoTyped([fifo EXCEPT ![RX] = Append(fifo[RX], Request(asked + 1))])
      BY <1>0, <2>3, FifoUpdate
    <3>2. QED
      BY <1>3, <3>1 DEF HostSends
  <2>5. TypeOK'
    BY <1>3, <2>1, <2>4 DEF HostSends, LinkInv, TypeOK, FifoTyped, driver, caller, history, Timeout
  <2>6. QED
    BY <1>3, <2>5, CallerLinkInv DEF HostSends, driver, history
<1>4. CASE HostReads
  <2>1. fifo[TX] \in Seq(Replies) /\ Len(fifo[TX]) <= Banks /\ fifo[TX] # <<>>
    BY <1>0, <1>4 DEF HostReads, FifoTyped
  <2>2. Head(fifo[TX]) \in Replies /\ Tail(fifo[TX]) \in Seq(Replies) /\ Len(Tail(fifo[TX])) <= Banks
    BY <2>1, TailFits
  <2>3. FifoTyped(fifo')
    <3>1. FifoTyped([fifo EXCEPT ![TX] = Tail(fifo[TX])])
      BY <1>0, <2>2, FifoUpdate
    <3>2. QED
      BY <1>4, <3>1 DEF HostReads
  <2>4. got' \in Seq(Replies)
    BY <1>4, <2>2, AppendProperties DEF HostReads, LinkInv, TypeOK
  <2>5. TypeOK'
    BY <1>4, <2>3, <2>4 DEF HostReads, LinkInv, TypeOK, FifoTyped, driver, caller, history, Timeout
  <2>6. QED
    BY <1>4, <2>5, CallerLinkInv DEF HostReads, driver, history
<1>5. CASE \E r \in Controls : Setup(r)
  <2>1. setup' \in AllControls
    BY <1>5, BoundAssumption DEF Setup, BoundAssumption
  <2>2. UNCHANGED <<driver, caller, EORSTI, SOFI, enabled0, endpoint, fifo, host, history>>
    BY <1>5 DEF Setup
  <2>3. TypeOK'
    BY <2>1, <2>2 DEF LinkInv, TypeOK, driver, caller, host, history, Timeout
  <2>4. QED
    BY <2>2, <2>3, CallerLinkInv DEF driver, history
<1>6. QED
  BY <1>1, <1>2, <1>3, <1>4, <1>5

LEMMA NextLinkInv == LinkInv /\ [Next]_vars => LinkInv'
<1>1. LinkInv /\ UNCHANGED vars => LinkInv'
  <2> SUFFICES ASSUME LinkInv, UNCHANGED vars PROVE LinkInv'
    OBVIOUS
  <2>1. TypeOK'
    BY DEF LinkInv, TypeOK, vars, driver, caller, bus, host, history, Timeout
  <2>2. QED
    BY <2>1, CallerLinkInv DEF vars, driver, history
<1>2. QED
  BY <1>1, MainLinkInv, GenLinkInv, ComLinkInv, HostLinkInv DEF Next

\* The inductive invariant holds of every reachable state.
THEOREM LinkInvariant == Spec => []LinkInv
  BY InitLinkInv, NextLinkInv, PTL DEF Spec

\* Every variable of the driver keeps its type; so timeout counts stay within
\* what the calls set, and the banks never hold more than they can.
THEOREM TypeCorrect == Spec => []TypeOK
<1>1. LinkInv => TypeOK
  BY DEF LinkInv
<1>2. QED
  BY <1>1, LinkInvariant, PTL

\* Wherever the interrupts fall in usb_rawhid_recv and usb_rawhid_send
\* (440-547), the FIFO they look at is their own endpoint's.
THEOREM CallsOwnTheirEndpoint == Spec => []OwnEndpoint
<1>1. LinkInv => OwnEndpoint
  BY DEF LinkInv
<1>2. QED
  BY <1>1, LinkInvariant, PTL

\* A call gives up no sooner than its timeout, for all timeouts.
THEOREM CallsWaitTheirTime == Spec => []WaitsItsTime
<1>1. LinkInv => WaitsItsTime
  <2> SUFFICES ASSUME LinkInv, pc = "count", count[call] = 0 PROVE frames >= Timeout(call)
    BY DEF WaitsItsTime
  <2>1. frames + 0 >= Timeout(call) /\ frames \in Nat
    BY DEF LinkInv, TypeOK, Counted, Waiting
  <2>2. QED
    BY <2>1
<1>2. QED
  BY <1>1, LinkInvariant, PTL

-----------------------------------------------------------------------------
(***************************************************************************)
(* The refinement: the driver's and the host's steps that move a packet,   *)
(* make or serve a request, reset the bus or notice it are the link's, and *)
(* the others leave it alone. A packet that a call has looked at is still  *)
(* there when it moves it, unless a reset that is pending has taken it:    *)
(* interrupts are off in between, so nothing else could have.              *)
(***************************************************************************)

StillThere == pc = "transfer" /\ ~Ready(UENUM) => EORSTI

LEMMA InitStillThere == Init => StillThere
  BY DEF Init, StillThere

LEMMA NextStillThere == LinkInv /\ StillThere /\ [Next]_vars => StillThere'
<1> SUFFICES ASSUME LinkInv, StillThere, [Next]_vars, pc' = "transfer", ~Ready(UENUM)'
             PROVE  EORSTI'
  BY DEF StillThere
<1>0. FifoTyped(fifo) /\ RX \in Endpoints /\ TX \in Endpoints /\ RX # TX
  BY FifoIsTyped DEF Endpoints, RX, TX
<1>1. CASE Main
  <2>1. CASE Poll
    <3>1. Ready(UENUM) /\ UNCHANGED <<UENUM, endpoint, fifo>>
      BY <2>1 DEF Poll, driver, bus
    <3>2. QED
      BY <3>1 DEF Ready
  <2>2. CASE ~Poll
    BY <1>1, <2>2 DEF Main, CallSend, CallRecv, Offline, Online, Save, Cli, Arm, Select, ReadPacket,
       WritePacket, Finish, Restore, TimedOut, NotYet, Return, Goes
  <2>3. QED
    BY <2>1, <2>2
<1>2. CASE GenInterrupt \/ ComInterrupt
  <2>1. pc = "transfer" /\ interrupts
    BY <1>2 DEF GenInterrupt, ComInterrupt, caller
  <2>2. QED
    BY <2>1 DEF LinkInv, OwnEndpoint, Masked
<1>3. CASE BusReset
  BY <1>3 DEF BusReset
<1>4. ASSUME UNCHANGED <<pc, UENUM, EORSTI, endpoint>>, Ready(UENUM) => Ready(UENUM)' PROVE EORSTI'
  BY <1>4 DEF StillThere
<1>5. CASE Frame \/ (\E r \in Controls : Setup(r)) \/ UNCHANGED vars
  <2>1. UNCHANGED <<pc, UENUM, EORSTI, endpoint, fifo>>
    BY <1>5 DEF Frame, Setup, vars, driver, caller, bus
  <2>2. QED
    BY <1>4, <2>1 DEF Ready
<1>6. CASE HostSends
  <2>1. /\ UNCHANGED <<pc, UENUM, EORSTI, endpoint>>
        /\ fifo' = [fifo EXCEPT ![RX] = Append(fifo[RX], Request(asked + 1))]
    BY <1>6 DEF HostSends, driver, caller
  <2>2. fifo'[TX] = fifo[TX] /\ fifo'[RX] = Append(fifo[RX], Request(asked + 1))
    BY <1>0, <2>1 DEF FifoTyped
  <2>3. fifo'[RX] # <<>>
    <3>1. fifo[RX] \in Seq(Requests)
      BY <1>0 DEF FifoTyped
    <3>2. Request(asked + 1) \in Requests
      BY <1>6, BoundAssumption DEF HostSends, LinkInv, TypeOK, BoundAssumption, Request, Requests
    <3>3. Len(fifo'[RX]) = Len(fifo[RX]) + 1 /\ Len(fifo[RX]) \in Nat
      BY <2>2, <3>1, <3>2, AppendProperties, LenProperties
    <3>4. QED
      BY <3>3, EmptySeq
  <2>4. Ready(UENUM) => Ready(UENUM)'
    BY <2>1, <2>2, <2>3 DEF Ready, Endpoints, RX, TX
  <2>5. QED
    BY <1>4, <2>1, <2>4
<1>7. CASE HostReads
  <2>1. /\ UNCHANGED <<pc, UENUM, EORSTI, endpoint>> /\ fifo[TX] # <<>>
        /\ fifo' = [fifo EXCEPT ![TX] = Tail(fifo[TX])]
    BY <1>7 DEF HostReads, driver, caller
  <2>2. fifo'[RX] = fifo[RX] /\ fifo'[TX] = Tail(fifo[TX])
    BY <1>0, <2>1 DEF FifoTyped
  <2>3. Len(fifo[TX]) < Banks => Len(fifo'[TX]) < Banks
    <3>1. fifo[TX] \in Seq(Replies)
      BY <1>0 DEF FifoTyped
    <3>2. Len(fifo[TX]) \in Nat /\ Len(fifo'[TX]) = Len(fifo[TX]) - 1
      BY <2>1, <2>2, <3>1, HeadTailProperties, LenProperties
    <3>3. QED
      BY <3>2 DEF Banks
  <2>4. Ready(UENUM) => Ready(UENUM)'
    BY <2>1, <2>2, <2>3 DEF Ready, Endpoints, RX, TX
  <2>5. QED
    BY <1>4, <2>1, <2>4
<1>8. QED
  BY <1>1, <1>2, <1>3, <1>5, <1>6, <1>7 DEF Next

LEMMA PacketStillThere == Spec => []StillThere
  BY LinkInvariant, InitStillThere, NextStillThere, PTL DEF Spec

linkVars == Link!linkState
Untouched == UNCHANGED <<setup, resets, EORSTI>>

\* The step of the link that a packet's move is.
LEMMA MainLink == LinkInv /\ StillThere /\ Main => Link!Next \/ UNCHANGED linkVars
<1> SUFFICES ASSUME LinkInv, StillThere, Main PROVE Link!Next \/ UNCHANGED linkVars
  OBVIOUS
<1> USE DEF Link!linkState, Link!queues, Link!control, linkVars
<1>0. FifoTyped(fifo) /\ RX \in Endpoints /\ TX \in Endpoints /\ RX # TX
  BY FifoIsTyped DEF Endpoints, RX, TX
<1>1. CASE ReadPacket
  <2>1. UENUM = RX /\ pc = "transfer" /\ UNCHANGED <<got, given>> /\ Untouched
    BY <1>1 DEF ReadPacket, LinkInv, OwnEndpoint, Goes, host, Untouched
  <2>2. CASE Ready(RX)
    <3>1. /\ fifo[RX] # <<>> /\ taken' = Head(fifo[RX])
          /\ fifo' = [fifo EXCEPT ![RX] = Tail(fifo[RX])]
      BY <1>1, <2>1, <2>2 DEF ReadPacket, Release, Ready
    <3>2. fifo'[RX] = Tail(fifo[RX]) /\ fifo'[TX] = fifo[TX]
      BY <3>1, <1>0 DEF FifoTyped
    <3>3. Link!DeviceTakes
      BY <2>1, <3>1, <3>2 DEF Link!DeviceTakes, Untouched
    <3>4. QED
      BY <3>3 DEF Link!Next
  <2>3. CASE ~Ready(RX)
    <3>1. EORSTI /\ taken' = Garbage /\ fifo' = fifo
      BY <1>1, <2>1, <2>3 DEF ReadPacket, Release, StillThere
    <3>2. Link!DeviceTakesNothing
      BY <2>1, <3>1 DEF Link!DeviceTakesNothing, Untouched
    <3>3. QED
      BY <3>2 DEF Link!Next
  <2>4. QED
    BY <2>2, <2>3
<1>2. CASE WritePacket
  <2>1. UENUM = TX /\ pc = "transfer" /\ UNCHANGED <<got, taken>> /\ Untouched /\ given' = buffer
    BY <1>2 DEF WritePacket, LinkInv, OwnEndpoint, Goes, host, Untouched
  <2>2. buffer \in Replies
    BY <1>2 DEF WritePacket, LinkInv, Carries, Goes
  <2>3. CASE Ready(TX)
    <3>1. /\ Len(fifo[TX]) < Banks
          /\ fifo' = [fifo EXCEPT ![TX] = Append(fifo[TX], buffer)]
      BY <1>0, <1>2, <2>1, <2>3 DEF WritePacket, Ready
    <3>2. fifo'[TX] = Append(fifo[TX], buffer) /\ fifo'[RX] = fifo[RX]
      BY <3>1, <1>0 DEF FifoTyped
    <3>3. Link!DevicePuts
      BY <2>1, <2>2, <3>1, <3>2 DEF Link!DevicePuts, Untouched
    <3>4. QED
      BY <3>3 DEF Link!Next
  <2>4. CASE ~Ready(TX)
    <3>1. EORSTI /\ fifo' = fifo
      BY <1>2, <2>1, <2>4 DEF WritePacket, StillThere
    <3>2. Link!DevicePutsNowhere
      BY <2>1, <2>2, <3>1 DEF Link!DevicePutsNowhere, Untouched
    <3>3. QED
      BY <3>2 DEF Link!Next
  <2>5. QED
    BY <2>3, <2>4
<1>3. CASE ~ReadPacket /\ ~WritePacket
  BY <1>3 DEF Main, CallSend, CallRecv, Offline, Online, Save, Cli, Arm, Select, Poll, Finish, Restore,
     TimedOut, NotYet, bus, host, history
<1>4. QED
  BY <1>1, <1>2, <1>3

\* The endpoint interrupt serves one request, and empties the queues it says.
LEMMA ServedLink == LinkInv /\ ComInterrupt => Link!DeviceServes
<1> SUFFICES ASSUME LinkInv, ComInterrupt PROVE Link!DeviceServes
  OBVIOUS
<1> USE DEF Link!linkState, Link!queues, Link!control
<1>0. FifoTyped(fifo) /\ RX \in Endpoints /\ TX \in Endpoints /\ RX # TX
  BY FifoIsTyped DEF Endpoints, RX, TX
<1>1. /\ setup # None /\ setup' = None
      /\ UNCHANGED <<taken, given, EORSTI>>
  BY DEF ComInterrupt, history
<1> DEFINE Emptied(e) == setup \in Configurations \cup {<<"CLEAR_FEATURE", e>>}
           Does == /\ fifo'[RX] = IF Emptied(RX) THEN <<>> ELSE fifo[RX]
                   /\ fifo'[TX] = IF Emptied(TX) THEN <<>> ELSE fifo[TX]
                   /\ got' = IF setup \in Configurations THEN <<>> ELSE got
                   /\ resets' = resets
<1>2. Does
  <2>1. ASSUME NEW v \in {0, 1}, setup = Configure(v), SetConfiguration(v) PROVE Does
    <3>1. setup \in Configurations
      BY <2>1 DEF Configurations
    <3>2. /\ fifo' = [e \in Endpoints |-> <<>>] /\ got' = <<>> /\ resets' = resets
      BY <2>1 DEF SetConfiguration, UERST
    <3>3. QED
      BY <1>0, <3>1, <3>2
  <2>2. ASSUME NEW e \in Endpoints, setup = <<"SET_FEATURE", e>>, SetFeature(e) PROVE Does
    <3>1. setup \notin Configurations /\ ~Emptied(RX) /\ ~Emptied(TX)
      BY <2>2 DEF Configurations, Configure
    <3>2. UNCHANGED <<fifo, got, resets>>
      BY <2>2 DEF SetFeature, host
    <3>3. QED
      BY <3>1, <3>2
  <2>3. ASSUME NEW e \in Endpoints, setup = <<"CLEAR_FEATURE", e>>, ClearFeature(e) PROVE Does
    <3>1. setup \notin Configurations /\ (Emptied(RX) <=> e = RX) /\ (Emptied(TX) <=> e = TX)
      BY <2>3 DEF Configurations, Configure
    <3>2. fifo' = [fifo EXCEPT ![e] = <<>>] /\ UNCHANGED <<got, resets>>
      BY <2>3 DEF ClearFeature, host
    <3>3. /\ fifo'[RX] = IF e = RX THEN <<>> ELSE fifo[RX]
          /\ fifo'[TX] = IF e = TX THEN <<>> ELSE fifo[TX]
      BY <1>0, <3>2 DEF FifoTyped
    <3>4. QED
      BY <3>1, <3>2, <3>3
  <2> HIDE DEF Does
  <2>4. QED
    BY <2>1, <2>2, <2>3 DEF ComInterrupt
<1>3. QED
  BY <1>1, <1>2 DEF Link!DeviceServes

LEMMA EnvironmentLink ==
    LinkInv /\ (\/ GenInterrupt \/ ComInterrupt \/ BusReset \/ Frame \/ HostSends \/ HostReads
                \/ \E r \in Controls : Setup(r))
    => Link!Next \/ UNCHANGED linkVars
<1> SUFFICES ASSUME LinkInv,
                    \/ GenInterrupt \/ ComInterrupt \/ BusReset \/ Frame \/ HostSends \/ HostReads
                    \/ \E r \in Controls : Setup(r)
             PROVE  Link!Next \/ UNCHANGED linkVars
  OBVIOUS
<1> USE DEF Link!linkState, Link!queues, Link!control, linkVars
<1>0. FifoTyped(fifo) /\ RX \in Endpoints /\ TX \in Endpoints /\ RX # TX
  BY FifoIsTyped DEF Endpoints, RX, TX
<1>1. CASE ComInterrupt
  BY <1>1, ServedLink DEF Link!Next
<1>2. CASE BusReset
  <2>1. Link!HostResets
    BY <1>0, <1>2 DEF BusReset, history, Link!HostResets
  <2>2. QED
    BY <2>1 DEF Link!Next
<1>3. CASE HostSends
  <2>1. /\ Len(fifo[RX]) < Banks /\ UNCHANGED <<got, taken, given>> /\ Untouched
        /\ fifo' = [fifo EXCEPT ![RX] = Append(fifo[RX], Request(asked + 1))]
    BY <1>3 DEF HostSends, history, Untouched
  <2>2. Request(asked + 1) \in Requests
    BY <1>3, BoundAssumption DEF HostSends, LinkInv, TypeOK, BoundAssumption, Request, Requests
  <2>3. fifo'[RX] = Append(fifo[RX], Request(asked + 1)) /\ fifo'[TX] = fifo[TX]
    BY <2>1, <1>0 DEF FifoTyped
  <2>4. Link!HostPuts
    BY <2>1, <2>2, <2>3 DEF Link!HostPuts, Untouched
  <2>5. QED
    BY <2>4 DEF Link!Next
<1>4. CASE HostReads
  <2>1. /\ fifo[TX] # <<>> /\ got' = Append(got, Head(fifo[TX])) /\ UNCHANGED <<taken, given>>
        /\ Untouched /\ fifo' = [fifo EXCEPT ![TX] = Tail(fifo[TX])]
    BY <1>4 DEF HostReads, history, Untouched
  <2>2. fifo'[TX] = Tail(fifo[TX]) /\ fifo'[RX] = fifo[RX]
    BY <2>1, <1>0 DEF FifoTyped
  <2>3. Link!HostTakes
    BY <2>1, <2>2 DEF Link!HostTakes, Untouched
  <2>4. QED
    BY <2>3 DEF Link!Next
<1>5. CASE GenInterrupt
  <2>1. Link!DeviceNotices
    BY <1>5 DEF GenInterrupt, host, Link!DeviceNotices
  <2>2. QED
    BY <2>1 DEF Link!Next
<1>6. CASE Frame
  BY <1>6 DEF Frame, host, history
<1>7. CASE \E r \in Controls : Setup(r)
  <2>1. /\ setup = None /\ setup' \in AllControls
        /\ UNCHANGED <<fifo, got, taken, given, resets, EORSTI>>
    BY <1>7, BoundAssumption DEF Setup, host, history, BoundAssumption
  <2>2. Link!HostAsks
    BY <2>1 DEF Link!HostAsks
  <2>3. QED
    BY <2>2 DEF Link!Next
<1>8. QED
  BY <1>1, <1>2, <1>3, <1>4, <1>5, <1>6, <1>7

\* The driver implements the link of two queues: interleaved as they may be
\* with the interrupts, usb_rawhid_recv and usb_rawhid_send take and put whole
\* packets once, in order; packets are dropped only by a bus reset or when the
\* device serves a configuration or a cleared endpoint; and a call moves a
\* packet that is not there only under a reset the device has yet to notice
\* (usb_rawhid.c:440-547).
THEOREM DriverImplementsLink == Spec => LinkSpec
<1>1. Init => Link!Init
  BY DEF Init, Link!Init, Endpoints, TX, RX
<1>2. LinkInv /\ StillThere /\ [Next]_vars => [Link!Next]_linkVars
  BY MainLink, EnvironmentLink DEF Next, vars, bus, host, history, linkVars,
     Link!linkState, Link!queues, Link!control
<1>3. QED
  BY <1>1, <1>2, LinkInvariant, PacketStillThere, PTL DEF Spec, LinkSpec, Link!Spec, linkVars
-----------------------------------------------------------------------------
(***************************************************************************)
(* The order of the replies: every step but two leaves a beginning of the  *)
(* packets on their way, WritePacket adds the one the call holds behind    *)
(* them, and SET_CONFIGURATION begins again.                               *)
(***************************************************************************)

\* Reading the first packet of a queue leaves the line of the two as it is.
LEMMA ShiftKeepsLine ==
    ASSUME NEW S, NEW s \in Seq(S), NEW t \in Seq(S), t # <<>>
    PROVE  Append(s, Head(t)) \o Tail(t) = s \o t
<1>1. /\ Head(t) \in S /\ Tail(t) \in Seq(S) /\ <<Head(t)>> \in Seq(S)
  BY HeadTailProperties
<1>2. t = <<Head(t)>> \o Tail(t)
  <2>1. /\ Len(t) \in Nat /\ Len(t) > 0
    BY LenProperties, EmptySeq
  <2>2. /\ SubSeq(t, 1, Len(t)) = <<t[1]>> \o SubSeq(t, 2, Len(t))
    BY <2>1, SubSeqRecursiveFirst
  <2>3. SubSeq(t, 1, Len(t)) = t /\ Tail(t) = SubSeq(t, 2, Len(t)) /\ Head(t) = t[1]
    BY SubSeqFull, TailIsSubSeq
  <2>4. QED
    BY <2>2, <2>3
<1>3. Append(s, Head(t)) = s \o <<Head(t)>>
  BY <1>1, AppendIsConcat
<1>4. (s \o <<Head(t)>>) \o Tail(t) = s \o (<<Head(t)>> \o Tail(t))
  BY ONLY <1>1, s \in Seq(S), ConcatAssociative
<1>5. QED
  BY <1>2, <1>3, <1>4

LEMMA AppendKeepsLine ==
    ASSUME NEW S, NEW s \in Seq(S), NEW t \in Seq(S), NEW e \in S
    PROVE  s \o Append(t, e) = Append(s \o t, e)
<1>1. <<e>> \in Seq(S) /\ s \o t \in Seq(S)
  BY ConcatProperties
<1>2. Append(t, e) = t \o <<e>> /\ Append(s \o t, e) = (s \o t) \o <<e>>
  BY <1>1, AppendIsConcat
<1>3. (s \o t) \o <<e>> = s \o (t \o <<e>>)
  BY <1>1, ConcatAssociative
<1>4. QED
  BY <1>2, <1>3

LEMMA LineOfTwo ==
    ASSUME NEW g \in Seq(Replies), NEW f \in Seq(Replies)
    PROVE  /\ g \o f \in Seq(Replies) /\ Len(g) \in Nat /\ Len(g \o f) \in Nat
           /\ Len(g) <= Len(g \o f)
           /\ \A i \in 1..Len(g) : (g \o f)[i] = g[i]
           /\ \A i \in 1..Len(g \o f) : (g \o f)[i].id \in Nat
<1>1. /\ g \o f \in Seq(Replies) /\ Len(g \o f) = Len(g) + Len(f)
      /\ \A i \in 1..(Len(g) + Len(f)) :
             (g \o f)[i] = IF i <= Len(g) THEN g[i] ELSE f[i - Len(g)]
  BY ConcatProperties
<1>2. Len(g) \in Nat /\ Len(f) \in Nat /\ Len(g \o f) \in Nat
  BY <1>1, LenProperties
<1>3. \A i \in 1..Len(g) : (g \o f)[i] = g[i]
  BY <1>1, <1>2
<1>4. \A i \in 1..Len(g \o f) : (g \o f)[i] \in Replies
  BY <1>1, ElementOfSeq
<1>5. \A p \in Replies : p.id \in Nat
  BY BoundAssumption DEF BoundAssumption, Replies
<1>6. QED
  BY <1>1, <1>2, <1>3, <1>4, <1>5

LEMMA OutgoingTyped ==
    ASSUME LinkInv
    PROVE  /\ got \in Seq(Replies) /\ fifo[TX] \in Seq(Replies) /\ Outgoing \in Seq(Replies)
           /\ Len(Outgoing) \in Nat /\ Len(got) \in Nat /\ Len(got) <= Len(Outgoing)
           /\ \A i \in 1..Len(got) : Outgoing[i] = got[i]
           /\ \A i \in 1..Len(Outgoing) : Outgoing[i].id \in Nat
<1>1. got \in Seq(Replies) /\ fifo[TX] \in Seq(Replies)
  BY DEF LinkInv, TypeOK
<1>2. QED
  BY <1>1, LineOfTwo DEF Outgoing

LEMMA OutgoingTypedNext ==
    ASSUME LinkInv'
    PROVE  Len(Outgoing') \in Nat
<1>1. got' \in Seq(Replies) /\ fifo'[TX] \in Seq(Replies)
  BY DEF LinkInv, TypeOK
<1>2. QED
  BY <1>1, LineOfTwo DEF Outgoing

\* A step that leaves a beginning of the packets on their way.
LEMMA StepKeepsOrder ==
    ASSUME LinkInv, LinkInv', OrderInv,
           first' = first, asked' \in {asked, asked + 1},
           \A i \in 1..Len(fifo'[RX]) : ~Stale(fifo'[RX][i]),
           call' = RX /\ pc' = "finish" => ~Stale(buffer'),
           call' = TX /\ pc' # "loop" => buffer' = Reply(sent', answering'),
           answering' = answering \/ ~Stale(Request(answering')),
           Len(Outgoing') <= Len(Outgoing),
           \A i \in 1..Len(Outgoing') : Outgoing'[i] = Outgoing[i],
           sent + Unsent' <= sent' + Unsent
    PROVE  OrderInv'
<1> DEFINE S(p) == p.of \in 1..(first - 1)
<1>0. \A p : Stale(p) = S(p)
  BY DEF Stale
<1>1. /\ Len(Outgoing) \in Nat /\ Len(Outgoing') \in Nat
      /\ \A i \in 1..Len(Outgoing) : Outgoing[i].id \in Nat
  BY OutgoingTyped, OutgoingTypedNext
<1>2. \A i \in 1..Len(Outgoing') : i \in 1..Len(Outgoing) /\ Outgoing'[i] = Outgoing[i]
  BY <1>1
<1>3. first' <= asked' + 1
  <2>1. first <= asked + 1
    BY DEF OrderInv
  <2>2. first \in Nat /\ asked \in Nat
    BY DEF LinkInv, TypeOK
  <2>3. CASE asked' = asked
    BY <2>1, <2>3
  <2>4. CASE asked' = asked + 1
    BY <2>1, <2>2, <2>4
  <2>5. QED
    BY <2>3, <2>4
<1>4. \A i \in 1..Len(Outgoing') : Outgoing'[i].id + Unsent' <= sent'
  <2>1. /\ sent \in Nat /\ sent' \in Nat /\ Unsent \in Nat /\ Unsent' \in Nat
    <3>1. sent \in Nat /\ sent' \in Nat
      BY DEF LinkInv, TypeOK
    <3>2. QED
      BY <3>1 DEF Unsent
  <2>2. \A i \in 1..Len(Outgoing) : Outgoing[i].id + Unsent <= sent
    BY DEF OrderInv
  <2>3. ASSUME NEW i \in 1..Len(Outgoing') PROVE Outgoing'[i].id + Unsent' <= sent'
    <3>1. /\ Outgoing'[i].id = Outgoing[i].id /\ Outgoing[i].id \in Nat
          /\ Outgoing[i].id + Unsent <= sent
      BY <1>1, <1>2, <2>2
    <3>2. QED
      BY <2>1, <3>1
  <2>4. QED
    BY <2>3
<1>5. \A i, j \in 1..Len(Outgoing') : i < j => Outgoing'[i].id < Outgoing'[j].id
  BY <1>2 DEF OrderInv
<1>6. \A i, j \in 1..Len(Outgoing') :
          S(Outgoing'[i]) /\ S(Outgoing'[j]) => Outgoing'[i].of = Outgoing'[j].of
  BY <1>2 DEF OrderInv, Stale
<1>7. S(Request(answering')) =>
          \A i \in 1..Len(Outgoing') : S(Outgoing'[i]) => Outgoing'[i].of = answering'
  <2>1. S(Request(answering)) =>
            \A i \in 1..Len(Outgoing) : S(Outgoing[i]) => Outgoing[i].of = answering
    BY DEF OrderInv, Stale
  <2>2. answering' = answering \/ ~S(Request(answering'))
    BY DEF Stale
  <2> HIDE DEF S
  <2>3. CASE answering' = answering
    BY <1>2, <2>1, <2>3
  <2>4. QED
    BY <2>2, <2>3
<1>8. OrderInv' =
        (/\ first' <= asked' + 1
         /\ \A i \in 1..Len(fifo'[RX]) : ~S(fifo'[RX][i])
         /\ call' = RX /\ pc' = "finish" => ~S(buffer')
         /\ call' = TX /\ pc' # "loop" => buffer' = Reply(sent', answering')
         /\ \A i \in 1..Len(Outgoing') : Outgoing'[i].id + Unsent' <= sent'
         /\ \A i, j \in 1..Len(Outgoing') : i < j => Outgoing'[i].id < Outgoing'[j].id
         /\ \A i, j \in 1..Len(Outgoing') :
                S(Outgoing'[i]) /\ S(Outgoing'[j]) => Outgoing'[i].of = Outgoing'[j].of
         /\ S(Request(answering')) =>
                \A i \in 1..Len(Outgoing') : S(Outgoing'[i]) => Outgoing'[i].of = answering')
  BY DEF OrderInv, Stale
<1>9. /\ \A i \in 1..Len(fifo'[RX]) : ~S(fifo'[RX][i])
      /\ call' = RX /\ pc' = "finish" => ~S(buffer')
  BY DEF Stale
<1> HIDE DEF S
<1>10. QED
  BY ONLY <1>3, <1>4, <1>5, <1>6, <1>7, <1>8, <1>9,
          call' = TX /\ pc' # "loop" => buffer' = Reply(sent', answering')

\* A step that touches neither the line, the requests, nor first and asked.
LEMMA QuietKeepsOrder ==
    ASSUME LinkInv, LinkInv', OrderInv, UNCHANGED <<fifo, got, asked, first>>,
           call' = RX /\ pc' = "finish" => ~Stale(buffer'),
           call' = TX /\ pc' # "loop" => buffer' = Reply(sent', answering'),
           answering' = answering \/ ~Stale(Request(answering')),
           sent + Unsent' <= sent' + Unsent
    PROVE  OrderInv'
<1>1. Outgoing' = Outgoing
  BY DEF Outgoing
<1>2. Len(Outgoing') <= Len(Outgoing) /\ \A i \in 1..Len(Outgoing') : Outgoing'[i] = Outgoing[i]
  BY <1>1, OutgoingTyped
<1>3. \A i \in 1..Len(fifo'[RX]) : ~Stale(fifo'[RX][i])
  BY DEF OrderInv
<1>4. QED
  BY <1>2, <1>3, StepKeepsOrder

LEMMA NothingIsOfNow == ~Stale(Garbage) /\ ~Stale(Request(0))
<1>1. ~(0 \in 1..(first - 1))
  OBVIOUS
<1>2. QED
  BY <1>1 DEF Stale, Garbage, Request

LEMMA CallKeepsOrder ==
    ASSUME LinkInv, LinkInv', OrderInv, Main, ~ReadPacket, ~WritePacket
    PROVE  OrderInv'
<1>1. UNCHANGED <<fifo, got, asked, first>>
  BY DEF Main, CallSend, CallRecv, Offline, Online, Save, Cli, Arm, Select, Poll, Finish, Restore,
         TimedOut, NotYet, bus, host
<1>2. sent \in Nat /\ RX # TX /\ call \in {RX, TX} /\ answering \in Nat
  BY DEF LinkInv, TypeOK, RX, TX, Endpoints
<1>3. CASE CallSend
  <2>1. /\ call' = TX /\ pc' = "check" /\ answering' = answering /\ sent' = sent + 1
        /\ buffer' = Reply(sent', answering') /\ pc = "loop"
    BY <1>3 DEF CallSend, Goes
  <2>2. Unsent' = 1 /\ Unsent = 0
    BY <2>1 DEF Unsent
  <2>3. sent + Unsent' <= sent' + Unsent
    BY <1>2, <2>1, <2>2
  <2>4. QED
    BY <1>1, <1>2, <2>1, <2>3, QuietKeepsOrder
<1>4. CASE CallRecv
  <2>1. call' = RX /\ pc' = "check" /\ UNCHANGED <<answering, sent>>
    BY <1>4 DEF CallRecv, Goes
  <2>2. Unsent' = 0 /\ sent + Unsent' <= sent' + Unsent
    BY <1>2, <2>1 DEF Unsent
  <2>3. QED
    BY <1>1, <1>2, <2>1, <2>2, QuietKeepsOrder
<1>5. CASE Offline("check") \/ Offline("config") \/ TimedOut \/ Finish
  <2>1. PICK received \in BOOLEAN : Return(received) /\ (received => call = RX /\ pc = "finish")
    BY <1>5, <1>2 DEF Offline, TimedOut, Finish
  <2>2. pc' = "loop" /\ UNCHANGED <<call, buffer, sent>>
    BY <2>1 DEF Return
  <2>3. Unsent' = 0 /\ sent + Unsent' <= sent' + Unsent
    BY <1>2, <2>2 DEF Unsent
  <2>4. answering' = answering \/ ~Stale(Request(answering'))
    <3>1. CASE answering' = buffer.of /\ received
      <4>1. ~Stale(buffer)
        BY <2>1, <3>1 DEF OrderInv
      <4>2. QED
        BY <3>1, <4>1 DEF Stale, Request
    <3>2. CASE answering' = 0
      BY <3>2, NothingIsOfNow
    <3>3. CASE answering' = answering
      BY <3>3
    <3>4. QED
      BY <2>1, <3>1, <3>2, <3>3 DEF Return
  <2>5. QED
    BY <1>1, <2>2, <2>3, <2>4, QuietKeepsOrder
<1>6. CASE \/ Online("check", "save") \/ Online("config", "save again")
           \/ Save("save", "cli") \/ Save("save again", "cli again")
           \/ Cli("cli", "arm") \/ Cli("cli again", "select")
           \/ Arm \/ Select \/ Poll \/ Restore \/ NotYet
  <2>1. /\ UNCHANGED <<call, buffer, answering, sent>>
        /\ pc \notin {"loop", "finish"} /\ pc' \notin {"loop", "finish"}
    BY <1>6 DEF Online, Save, Cli, Arm, Select, Poll, Restore, NotYet, Goes, Same
  <2>2. Unsent' = Unsent /\ Unsent \in {0, 1}
    BY <2>1 DEF Unsent
  <2>3. sent + Unsent' <= sent' + Unsent
    BY <1>2, <2>1, <2>2
  <2>4. call' = TX => buffer' = Reply(sent', answering')
    BY <2>1 DEF OrderInv
  <2>5. QED
    BY <1>1, <2>1, <2>3, <2>4, QuietKeepsOrder
<1>7. QED
  BY <1>3, <1>4, <1>5, <1>6 DEF Main

LEMMA ReadKeepsOrder ==
    ASSUME LinkInv, LinkInv', OrderInv, ReadPacket
    PROVE  OrderInv'
<1>0. /\ FifoTyped(fifo) /\ RX \in Endpoints /\ TX \in Endpoints /\ RX # TX
      /\ sent \in Nat /\ answering \in Nat
  BY FifoIsTyped DEF Endpoints, RX, TX, LinkInv, TypeOK
<1>1. /\ UENUM = RX /\ call = RX /\ pc' = "finish" /\ pc = "transfer"
      /\ UNCHANGED <<got, asked, first, call, answering, sent>>
  BY DEF ReadPacket, LinkInv, OwnEndpoint, Goes, host
<1>2. Unsent' = 0 /\ Unsent = 0
  BY <1>0, <1>1 DEF Unsent
<1>3. CASE Ready(RX)
  <2>1. /\ fifo[RX] # <<>> /\ buffer' = Head(fifo[RX])
        /\ fifo' = [fifo EXCEPT ![RX] = Tail(fifo[RX])]
    BY <1>1, <1>3 DEF ReadPacket, Release, Ready
  <2>2. fifo'[RX] = Tail(fifo[RX]) /\ fifo'[TX] = fifo[TX]
    BY <2>1, <1>0 DEF FifoTyped
  <2>3. fifo[RX] \in Seq(Requests)
    BY <1>0 DEF FifoTyped
  <2>4. /\ Len(fifo[RX]) \in Nat /\ Len(Tail(fifo[RX])) = Len(fifo[RX]) - 1
        /\ \A i \in 1..Len(Tail(fifo[RX])) : Tail(fifo[RX])[i] = fifo[RX][i + 1]
        /\ Len(fifo[RX]) > 0 /\ Head(fifo[RX]) = fifo[RX][1]
    BY <2>1, <2>3, HeadTailProperties, LenProperties, EmptySeq
  <2>5. \A i \in 1..Len(fifo[RX]) : ~Stale(fifo[RX][i])
    BY DEF OrderInv
  <2>6. ~Stale(buffer')
    BY <2>1, <2>4, <2>5
  <2>7. \A i \in 1..Len(fifo'[RX]) : ~Stale(fifo'[RX][i])
    BY <2>2, <2>4, <2>5
  <2>8. Outgoing' = Outgoing
    BY <1>1, <2>2 DEF Outgoing
  <2>9. Len(Outgoing') <= Len(Outgoing) /\ \A i \in 1..Len(Outgoing') : Outgoing'[i] = Outgoing[i]
    BY <2>8, OutgoingTyped
  <2>10. sent + Unsent' <= sent' + Unsent
    BY <1>0, <1>1, <1>2
  <2>11. QED
    BY <1>0, <1>1, <2>6, <2>7, <2>9, <2>10, StepKeepsOrder
<1>4. CASE ~Ready(RX)
  <2>1. UNCHANGED fifo /\ buffer' = Garbage
    BY <1>1, <1>4 DEF ReadPacket, Release
  <2>2. ~Stale(buffer')
    BY <2>1, NothingIsOfNow
  <2>3. sent + Unsent' <= sent' + Unsent
    BY <1>0, <1>1, <1>2
  <2>4. QED
    BY <1>0, <1>1, <2>1, <2>2, <2>3, QuietKeepsOrder
<1>5. QED
  BY <1>3, <1>4

\* The packet the call holds is sent after all on their way, and answers what
\* those of an earlier configuration answer, if it is one of them.
LEMMA WriteKeepsOrder ==
    ASSUME LinkInv, LinkInv', OrderInv, WritePacket
    PROVE  OrderInv'
<1>0. /\ FifoTyped(fifo) /\ RX \in Endpoints /\ TX \in Endpoints /\ RX # TX
      /\ sent \in Nat /\ answering \in Nat
  BY FifoIsTyped DEF Endpoints, RX, TX, LinkInv, TypeOK
<1>1. /\ UENUM = TX /\ call = TX /\ pc' = "finish" /\ pc = "transfer"
      /\ UNCHANGED <<got, asked, first, call, answering, sent, buffer>>
  BY DEF WritePacket, LinkInv, OwnEndpoint, Goes, host, Same
<1>2. Unsent' = 0 /\ Unsent = 1
  BY <1>0, <1>1 DEF Unsent
<1>3. buffer = Reply(sent, answering)
  BY <1>1 DEF OrderInv
<1>4. CASE Ready(TX)
  <2>1. fifo' = [fifo EXCEPT ![TX] = Append(fifo[TX], buffer)]
    BY <1>1, <1>4 DEF WritePacket
  <2>2. fifo'[TX] = Append(fifo[TX], buffer) /\ fifo'[RX] = fifo[RX]
    BY <2>1, <1>0 DEF FifoTyped
  <2>3. buffer \in Replies
    BY <1>1 DEF LinkInv, Carries
  <2>4. /\ got \in Seq(Replies) /\ fifo[TX] \in Seq(Replies) /\ Outgoing \in Seq(Replies)
        /\ Len(Outgoing) \in Nat
        /\ \A i \in 1..Len(Outgoing) : Outgoing[i].id \in Nat
    BY OutgoingTyped
  <2>5. Outgoing' = Append(Outgoing, buffer)
    <3>1. Outgoing' = got \o Append(fifo[TX], buffer)
      BY <1>1, <2>2 DEF Outgoing
    <3>2. got \o Append(fifo[TX], buffer) = Append(got \o fifo[TX], buffer)
      BY ONLY <2>3, <2>4, AppendKeepsLine
    <3>3. QED
      BY <3>1, <3>2 DEF Outgoing
  <2>6. /\ Len(Outgoing') = Len(Outgoing) + 1
        /\ \A i \in 1..Len(Outgoing) : Outgoing'[i] = Outgoing[i]
        /\ Outgoing'[Len(Outgoing) + 1] = buffer
    BY <2>3, <2>4, <2>5, AppendProperties
  <2>7. \A i \in 1..Len(Outgoing') :
            \/ i \in 1..Len(Outgoing) /\ Outgoing'[i] = Outgoing[i]
            \/ i = Len(Outgoing) + 1 /\ Outgoing'[i] = buffer
    BY <2>4, <2>6
  <2>8. buffer.id = sent /\ buffer.of = answering
    BY <1>3 DEF Reply
  <2>9. \A i \in 1..Len(Outgoing) : Outgoing[i].id < sent
    BY <1>0, <1>2, <2>4 DEF OrderInv
  <2>10. \A i \in 1..Len(Outgoing') : Outgoing'[i].id + Unsent' <= sent'
    BY <1>0, <1>1, <1>2, <2>4, <2>7, <2>8, <2>9
  <2>11. \A i, j \in 1..Len(Outgoing') : i < j => Outgoing'[i].id < Outgoing'[j].id
    <3> SUFFICES ASSUME NEW i \in 1..Len(Outgoing'), NEW j \in 1..Len(Outgoing'), i < j
                 PROVE  Outgoing'[i].id < Outgoing'[j].id
      OBVIOUS
    <3>1. i \in 1..Len(Outgoing) /\ Outgoing'[i] = Outgoing[i]
      BY <2>4, <2>6
    <3>2. CASE j \in 1..Len(Outgoing) /\ Outgoing'[j] = Outgoing[j]
      BY <3>1, <3>2 DEF OrderInv
    <3>3. CASE Outgoing'[j] = buffer
      BY <2>8, <2>9, <3>1, <3>3
    <3>4. QED
      BY <2>7, <3>2, <3>3
  <2> DEFINE S(p) == p.of \in 1..(first - 1)
  <2>12. /\ \A i, j \in 1..Len(Outgoing) :
                S(Outgoing[i]) /\ S(Outgoing[j]) => Outgoing[i].of = Outgoing[j].of
         /\ S(Request(answering)) =>
                \A i \in 1..Len(Outgoing) : S(Outgoing[i]) => Outgoing[i].of = answering
    BY DEF OrderInv, Stale
  <2>13. S(buffer) = S(Request(answering))
    BY <2>8 DEF Request
  <2> HIDE DEF S
  <2>14. S(Request(answering)) =>
             \A i \in 1..Len(Outgoing') : S(Outgoing'[i]) => Outgoing'[i].of = answering
    BY <2>7, <2>8, <2>12
  <2>15. \A i, j \in 1..Len(Outgoing') :
             S(Outgoing'[i]) /\ S(Outgoing'[j]) => Outgoing'[i].of = Outgoing'[j].of
    <3>1. CASE S(Request(answering))
      BY <2>14, <3>1
    <3>2. CASE ~S(Request(answering))
      BY <2>7, <2>12, <2>13, <3>2
    <3>3. QED
      BY <3>1, <3>2
  <2>16. /\ \A i \in 1..Len(fifo'[RX]) : ~S(fifo'[RX][i])
         /\ first <= asked + 1
    BY <2>2 DEF OrderInv, Stale, S
  <2>17. OrderInv' =
          (/\ first <= asked + 1
           /\ \A i \in 1..Len(fifo'[RX]) : ~S(fifo'[RX][i])
           /\ call' = RX /\ pc' = "finish" => ~S(buffer)
           /\ call' = TX /\ pc' # "loop" => buffer = Reply(sent, answering)
           /\ \A i \in 1..Len(Outgoing') : Outgoing'[i].id + Unsent' <= sent'
           /\ \A i, j \in 1..Len(Outgoing') : i < j => Outgoing'[i].id < Outgoing'[j].id
           /\ \A i, j \in 1..Len(Outgoing') :
                  S(Outgoing'[i]) /\ S(Outgoing'[j]) => Outgoing'[i].of = Outgoing'[j].of
           /\ S(Request(answering)) =>
                  \A i \in 1..Len(Outgoing') : S(Outgoing'[i]) => Outgoing'[i].of = answering)
    BY <1>1 DEF OrderInv, Stale, S
  <2>18. call' # RX
    BY <1>0, <1>1
  <2>19. QED
    BY ONLY <1>3, <2>10, <2>11, <2>14, <2>15, <2>16, <2>17, <2>18
<1>5. CASE ~Ready(TX)
  <2>1. UNCHANGED fifo
    BY <1>1, <1>5 DEF WritePacket
  <2>2. sent + Unsent' <= sent' + Unsent
    BY <1>0, <1>1, <1>2
  <2>3. QED
    BY <1>0, <1>1, <1>3, <2>1, <2>2, QuietKeepsOrder
<1>6. QED
  BY <1>4, <1>5

\* A new configuration empties the line and makes every request so far one of
\* the past.
LEMMA ConfigureBeginsOrder ==
    ASSUME LinkInv, LinkInv', OrderInv, NEW v, SetConfiguration(v), UNCHANGED caller, interrupts
    PROVE  OrderInv'
<1>1. /\ first' = asked' + 1 /\ got' = <<>> /\ fifo'[TX] = <<>> /\ fifo'[RX] = <<>>
      /\ asked' = asked /\ asked \in Nat
  BY DEF SetConfiguration, UERST, LinkInv, TypeOK, Endpoints, RX, TX
<1>2. Outgoing' = <<>> /\ Len(Outgoing') = 0 /\ Len(fifo'[RX]) = 0
  BY <1>1, EmptySeq DEF Outgoing
<1>3. pc' # "finish"
  BY DEF LinkInv, OwnEndpoint, Masked, caller
<1>4. call' = TX /\ pc' # "loop" => buffer' = Reply(sent', answering')
  BY DEF OrderInv, caller
<1>5. first' <= asked' + 1
  BY <1>1
<1>6. 1..0 = {}
  OBVIOUS
<1>7. QED
  BY <1>2, <1>3, <1>4, <1>5, <1>6 DEF OrderInv

\* A step outside main that may shorten the line.
LEMMA OutsideKeepsOrder ==
    ASSUME LinkInv, LinkInv', OrderInv, UNCHANGED caller,
           first' = first, asked' \in {asked, asked + 1},
           \A i \in 1..Len(fifo'[RX]) : ~Stale(fifo'[RX][i]),
           Outgoing' \in {Outgoing, got}
    PROVE  OrderInv'
<1>1. /\ call' = RX /\ pc' = "finish" => ~Stale(buffer')
      /\ call' = TX /\ pc' # "loop" => buffer' = Reply(sent', answering')
  BY DEF OrderInv, caller, Stale
<1>2. /\ Len(Outgoing') <= Len(Outgoing)
      /\ \A i \in 1..Len(Outgoing') : Outgoing'[i] = Outgoing[i]
  BY OutgoingTyped
<1>3. Unsent' = Unsent /\ answering' = answering /\ sent' = sent
  BY DEF caller, Unsent
<1>4. sent + Unsent' <= sent' + Unsent
  <2>1. sent \in Nat
    BY DEF LinkInv, TypeOK
  <2>2. QED
    BY <1>3, <2>1 DEF Unsent
<1>5. QED
  BY <1>1, <1>2, <1>3, <1>4, StepKeepsOrder

LEMMA ComKeepsOrder ==
    ASSUME LinkInv, LinkInv', OrderInv, ComInterrupt
    PROVE  OrderInv'
<1>0. FifoTyped(fifo) /\ RX \in Endpoints /\ TX \in Endpoints /\ RX # TX
  BY FifoIsTyped DEF Endpoints, RX, TX
<1>1. interrupts /\ UNCHANGED caller
  BY DEF ComInterrupt
<1>2. ASSUME NEW v \in {0, 1}, SetConfiguration(v) PROVE OrderInv'
  BY <1>1, <1>2, ConfigureBeginsOrder
<1>3. ASSUME NEW e \in Endpoints, SetFeature(e) PROVE OrderInv'
  <2>1. UNCHANGED <<fifo, got, asked, first>>
    BY <1>3 DEF SetFeature, host
  <2>2. /\ first' = first /\ asked' \in {asked, asked + 1} /\ Outgoing' \in {Outgoing, got}
        /\ \A i \in 1..Len(fifo'[RX]) : ~Stale(fifo'[RX][i])
    BY <2>1 DEF Outgoing, OrderInv
  <2>3. QED
    BY <1>1, <2>2, OutsideKeepsOrder
<1>4. ASSUME NEW e \in Endpoints, ClearFeature(e) PROVE OrderInv'
  <2>1. /\ UNCHANGED <<got, asked, first>> /\ fifo' = [fifo EXCEPT ![e] = <<>>]
    BY <1>4 DEF ClearFeature, host
  <2>2. /\ fifo'[RX] = fifo[RX] \/ fifo'[RX] = <<>>
        /\ fifo'[TX] = fifo[TX] \/ fifo'[TX] = <<>>
    BY <2>1, <1>0 DEF FifoTyped
  <2>3. Outgoing' \in {Outgoing, got}
    BY <2>1, <2>2, OutgoingTyped, ConcatEmptySeq DEF Outgoing
  <2>4. \A i \in 1..Len(fifo'[RX]) : ~Stale(fifo'[RX][i])
    BY <2>2, EmptySeq DEF OrderInv
  <2>5. QED
    BY <1>1, <2>1, <2>3, <2>4, OutsideKeepsOrder
<1>5. QED
  BY <1>2, <1>3, <1>4 DEF ComInterrupt

LEMMA HostKeepsOrder ==
    ASSUME LinkInv, LinkInv', OrderInv,
           \/ GenInterrupt \/ BusReset \/ Frame \/ HostSends \/ HostReads
           \/ \E r \in Controls : Setup(r)
    PROVE  OrderInv'
<1>0. FifoTyped(fifo) /\ RX \in Endpoints /\ TX \in Endpoints /\ RX # TX
  BY FifoIsTyped DEF Endpoints, RX, TX
<1>1. UNCHANGED caller /\ first' = first
  BY DEF GenInterrupt, BusReset, Frame, HostSends, HostReads, Setup, host
<1>2. CASE GenInterrupt \/ Frame \/ \E r \in Controls : Setup(r)
  <2>1. UNCHANGED <<fifo, got, asked>>
    BY <1>2 DEF GenInterrupt, Frame, Setup, host
  <2>2. /\ asked' \in {asked, asked + 1} /\ Outgoing' \in {Outgoing, got}
        /\ \A i \in 1..Len(fifo'[RX]) : ~Stale(fifo'[RX][i])
    BY <2>1 DEF Outgoing, OrderInv
  <2>3. QED
    BY <1>1, <2>2, OutsideKeepsOrder
<1>3. CASE BusReset
  <2>1. /\ UNCHANGED <<got, asked>> /\ fifo'[RX] = <<>> /\ fifo'[TX] = <<>>
    BY <1>0, <1>3 DEF BusReset
  <2>2. Outgoing' = got
    BY <2>1, OutgoingTyped, ConcatEmptySeq DEF Outgoing
  <2>3. \A i \in 1..Len(fifo'[RX]) : ~Stale(fifo'[RX][i])
    BY <2>1, EmptySeq
  <2>4. QED
    BY <1>1, <2>1, <2>2, <2>3, OutsideKeepsOrder
<1>4. CASE HostSends
  <2>1. /\ UNCHANGED got /\ asked' = asked + 1
        /\ fifo' = [fifo EXCEPT ![RX] = Append(fifo[RX], Request(asked + 1))]
    BY <1>4 DEF HostSends
  <2>2. fifo'[RX] = Append(fifo[RX], Request(asked + 1)) /\ fifo'[TX] = fifo[TX]
    BY <2>1, <1>0 DEF FifoTyped
  <2>3. Request(asked + 1) \in Requests /\ fifo[RX] \in Seq(Requests)
    BY <1>0, <1>4, BoundAssumption DEF HostSends, LinkInv, TypeOK, BoundAssumption, Request,
                                       Requests, FifoTyped
  <2>4. ~Stale(Request(asked + 1))
    <3>1. first <= asked + 1
      BY DEF OrderInv
    <3>2. first \in Nat /\ asked \in Nat
      BY DEF LinkInv, TypeOK
    <3>3. ~(asked + 1 \in 1..(first - 1))
      BY <3>1, <3>2
    <3>4. QED
      BY <3>3 DEF Stale, Request
  <2>5. \A i \in 1..Len(fifo'[RX]) : ~Stale(fifo'[RX][i])
    <3>1. /\ Len(fifo'[RX]) = Len(fifo[RX]) + 1 /\ Len(fifo[RX]) \in Nat
          /\ \A i \in 1..Len(fifo[RX]) : fifo'[RX][i] = fifo[RX][i]
          /\ fifo'[RX][Len(fifo[RX]) + 1] = Request(asked + 1)
      BY <2>2, <2>3, AppendProperties, LenProperties
    <3>2. \A i \in 1..Len(fifo'[RX]) : i \in 1..Len(fifo[RX]) \/ i = Len(fifo[RX]) + 1
      BY <3>1
    <3>3. \A i \in 1..Len(fifo[RX]) : ~Stale(fifo[RX][i])
      BY DEF OrderInv
    <3>4. QED
      BY <2>4, <3>1, <3>2, <3>3
  <2>6. Outgoing' = Outgoing
    BY <2>1, <2>2 DEF Outgoing
  <2>7. QED
    BY <1>1, <2>1, <2>5, <2>6, OutsideKeepsOrder
<1>5. CASE HostReads
  <2>1. /\ fifo[TX] # <<>> /\ got' = Append(got, Head(fifo[TX])) /\ asked' = asked
        /\ fifo' = [fifo EXCEPT ![TX] = Tail(fifo[TX])]
    BY <1>5 DEF HostReads
  <2>2. fifo'[TX] = Tail(fifo[TX]) /\ fifo'[RX] = fifo[RX]
    BY <2>1, <1>0 DEF FifoTyped
  <2>3. Outgoing' = Outgoing
    BY <2>1, <2>2, OutgoingTyped, ShiftKeepsLine DEF Outgoing
  <2>4. \A i \in 1..Len(fifo'[RX]) : ~Stale(fifo'[RX][i])
    BY <2>2 DEF OrderInv
  <2>5. QED
    BY <1>1, <2>1, <2>3, <2>4, OutsideKeepsOrder
<1>6. QED
  BY <1>2, <1>3, <1>4, <1>5

LEMMA InitOrderInv == Init => OrderInv
<1> SUFFICES ASSUME Init PROVE OrderInv
  OBVIOUS
<1>1. /\ got = <<>> /\ fifo[TX] = <<>> /\ fifo[RX] = <<>> /\ first = 1 /\ asked = 0
      /\ pc = "loop" /\ answering = 0
  BY DEF Init, Endpoints, RX, TX
<1>2. Outgoing = <<>> /\ Len(Outgoing) = 0 /\ Len(fifo[RX]) = 0
  BY <1>1, EmptySeq DEF Outgoing
<1>3. 1..0 = {} /\ first <= asked + 1
  BY <1>1
<1>4. QED
  BY <1>1, <1>2, <1>3 DEF OrderInv

LEMMA NextOrderInv == LinkInv /\ LinkInv' /\ OrderInv /\ [Next]_vars => OrderInv'
<1> SUFFICES ASSUME LinkInv, LinkInv', OrderInv, [Next]_vars PROVE OrderInv'
  OBVIOUS
<1>1. CASE UNCHANGED vars
  <2>1. UNCHANGED <<fifo, got, asked, first, pc, call, buffer, answering, sent>>
    BY <1>1 DEF vars, caller, bus, host
  <2>2. /\ call' = RX /\ pc' = "finish" => ~Stale(buffer')
        /\ call' = TX /\ pc' # "loop" => buffer' = Reply(sent', answering')
    BY <2>1 DEF OrderInv
  <2>3. sent + Unsent' <= sent' + Unsent
    <3>1. sent \in Nat
      BY DEF LinkInv, TypeOK
    <3>2. Unsent' = Unsent /\ sent' = sent
      BY <2>1 DEF Unsent
    <3>3. QED
      BY <3>1, <3>2 DEF Unsent
  <2>4. QED
    BY <2>1, <2>2, <2>3, QuietKeepsOrder
<1>2. CASE Next
  BY <1>2, CallKeepsOrder, ReadKeepsOrder, WriteKeepsOrder, ComKeepsOrder, HostKeepsOrder DEF Next
<1>3. QED
  BY <1>1, <1>2

\* Where the packets on their way, the one a call holds and the requests still
\* to take stand, as they come from usb_rawhid_send's calls (488-547).
THEOREM OrderInvariant == Spec => []OrderInv
  BY LinkInvariant, InitOrderInv, NextOrderInv, PTL DEF Spec

\* The host receives the replies in the order main sent them, each at most
\* once, for any number of calls, requests, resets and configurations; those
\* of an earlier configuration answer one request (usb_rawhid.c:488-547).
THEOREM OrderedReplies == Spec => []RepliesInOrder
<1>1. LinkInv /\ OrderInv => RepliesInOrder
  <2> SUFFICES ASSUME LinkInv, OrderInv, NEW i \in 1..Len(got), NEW j \in 1..Len(got), i < j
               PROVE  /\ got[i].id < got[j].id
                      /\ Stale(got[i]) /\ Stale(got[j]) => got[i].of = got[j].of
    BY DEF RepliesInOrder
  <2>1. /\ i \in 1..Len(Outgoing) /\ Outgoing[i] = got[i]
        /\ j \in 1..Len(Outgoing) /\ Outgoing[j] = got[j]
    BY OutgoingTyped
  <2>2. QED
    BY <2>1 DEF OrderInv
<1>2. QED
  BY <1>1, LinkInvariant, OrderInvariant, PTL
=============================================================================
