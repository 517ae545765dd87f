------------------------- MODULE KowhaiServerProofs -------------------------
(***************************************************************************)
(* Proofs about the kowhai server, for any number of hosts, any jobs and   *)
(* any trees: who owns the one write sequence, and who can be refused for  *)
(* it.                                                                     *)
(***************************************************************************)
EXTENDS KowhaiServer, SequenceTheorems, TLAPS

\* A host does one of its jobs, and has had part of it sent.
Working ==
    /\ job \in [Hosts -> Jobs \cup {Idle}]
    /\ sent \in [Hosts -> Nat]
    /\ \A h \in Hosts : IF job[h] = Idle THEN sent[h] = 0 ELSE sent[h] <= Len(job[h])
    /\ writers \subseteq Hosts \cup {Nobody}

\* The hosts among the writers are in the middle of a job, and one that is
\* alone there and writes one item has opened the sequence to that item.
Owners == \A h \in writers \ {Nobody} : job[h] # Idle /\ sent[h] > 0
OwnItem ==
    current_write_node # NULL =>
        /\ writers # {}
        /\ \A h \in Hosts : job[h] # Idle /\ writers \subseteq {h} /\ WriteJob(job[h]) =>
                                current_write_node = Place(job[h][1]).node

\* The inductive invariant.
OwnerInv == Working /\ Owners /\ OwnItem

-----------------------------------------------------------------------------

LEMMA JobFacts ==
    ASSUME NEW j \in Jobs
    PROVE  /\ j # Idle /\ Len(j) \in Nat /\ DOMAIN j = 1..Len(j) /\ 1 \in DOMAIN j
<1>1. j \in Seq(Requests) /\ j # <<>> /\ j # Idle
  BY JobAssumption
<1>2. Len(j) \in Nat /\ DOMAIN j = 1..Len(j) /\ Len(j) # 0
  BY <1>1, LenProperties, EmptySeq
<1>3. QED
  BY <1>1, <1>2

\* A host's packet is one of its job.
LEMMA InJob ==
    ASSUME Working, NEW h \in Hosts, job[h] # Idle, sent[h] < Len(job[h])
    PROVE  job[h] \in Jobs /\ sent[h] + 1 \in DOMAIN job[h] /\ sent[h] + 1 <= Len(job[h])
<1>1. job[h] \in Jobs /\ sent[h] \in Nat
  BY DEF Working
<1>2. Len(job[h]) \in Nat /\ DOMAIN job[h] = 1..Len(job[h])
  BY <1>1, JobFacts
<1>3. QED
  BY <1>1, <1>2

\* The packets of a job that writes one item lead to that item.
LEMMA SameItem ==
    ASSUME NEW j \in Jobs, WriteJob(j), NEW k \in DOMAIN j
    PROVE  Place(j[k]) = Place(j[1])
  BY DEF WriteJob, Place

LEMMA InitOwnerInv == Init => OwnerInv
  BY DEF Init, OwnerInv, Working, Owners, OwnItem

\* A packet that leaves the sequence as it is, or gives it up.
LEMMA SentOwnerInv ==
    ASSUME OwnerInv, NEW h \in Hosts, job[h] # Idle, sent[h] < Len(job[h]), Send(h), UNCHANGED job,
           \/ UNCHANGED <<current_write_node, writers>>
           \/ current_write_node' = NULL /\ writers' = {}
    PROVE  OwnerInv'
<1>1. sent' = [sent EXCEPT ![h] = sent[h] + 1] /\ sent \in [Hosts -> Nat]
  BY DEF Send, OwnerInv, Working
<1>2. Working'
  BY <1>1, InJob DEF OwnerInv, Working
<1>3. \A g \in Hosts : sent[g] > 0 => sent'[g] > 0
  BY <1>1
<1>4. Owners'
  BY <1>3 DEF OwnerInv, Working, Owners
<1>5. OwnItem'
  BY DEF OwnerInv, OwnItem, Place
<1>6. QED
  BY <1>2, <1>4, <1>5 DEF OwnerInv

LEMMA AcceptOwnerInv == ASSUME OwnerInv, NEW h \in Hosts, AcceptWrite(h) PROVE OwnerInv'
<1> DEFINE r == Request(h)
<1>1. /\ job[h] # Idle /\ sent[h] < Len(job[h]) /\ Send(h) /\ UNCHANGED job
      /\ r.command \in WriteCommands
  BY DEF AcceptWrite, Handles
<1>2. /\ job[h] \in Jobs /\ sent[h] + 1 \in DOMAIN job[h] /\ r = job[h][sent[h] + 1]
  BY <1>1, InJob DEF OwnerInv, Request
<1>3. CASE r.command = "WRITE_DATA_END"
  <2>1. current_write_node' = NULL /\ writers' = {}
    BY <1>3 DEF AcceptWrite, AfterWrite
  <2>2. QED
    BY <1>1, <2>1, SentOwnerInv
<1>4. CASE r.command # "WRITE_DATA_END"
  <2>1. current_write_node' = Place(r).node /\ writers' = writers \cup {h}
    BY <1>4 DEF AcceptWrite, AfterWrite
  <2>2. sent' = [sent EXCEPT ![h] = sent[h] + 1] /\ sent \in [Hosts -> Nat]
    BY <1>1 DEF Send, OwnerInv, Working
  <2>3. Working'
    BY <1>1, <2>1, <2>2, InJob DEF OwnerInv, Working
  <2>4. \A g \in Hosts : sent[g] > 0 \/ g = h => sent'[g] > 0
    BY <2>2
  <2>5. Owners'
    BY <1>1, <2>1, <2>4 DEF OwnerInv, Working, Owners
  <2>6. WriteJob(job[h]) => Place(r) = Place(job[h][1])
    BY <1>2, SameItem
  <2>7. OwnItem'
    <3> SUFFICES ASSUME NEW g \in Hosts, writers' \subseteq {g}, WriteJob(job'[g])
                 PROVE  current_write_node' = Place(job'[g][1]).node
      BY <2>1 DEF OwnItem, Place
    <3>1. g = h /\ job' = job
      BY <1>1, <2>1
    <3>2. QED
      BY <2>1, <2>6, <3>1
  <2>8. QED
    BY <2>3, <2>5, <2>7 DEF OwnerInv
<1>5. QED
  BY <1>3, <1>4

LEMMA ProcessOwnerInv == ASSUME OwnerInv, NEW h \in Hosts, Process(h) PROVE OwnerInv'
<1>1. CASE InvalidCommand(h)
  BY <1>1, SentOwnerInv DEF InvalidCommand, server, history
<1>2. CASE InvalidTreeId(h)
  BY <1>2, SentOwnerInv DEF InvalidTreeId, Handles, server, history
<1>3. CASE Read(h)
  BY <1>3, SentOwnerInv DEF Read, Handles, server, history
<1>4. CASE BadPath(h)
  BY <1>4, SentOwnerInv DEF BadPath, Handles, NoSequence, Forgotten
<1>5. CASE OutOfSequence(h)
  BY <1>5, SentOwnerInv DEF OutOfSequence, Handles, NoSequence, Forgotten
<1>6. CASE RefuseWrite(h)
  BY <1>6, SentOwnerInv DEF RefuseWrite, Handles, Forgotten
<1>7. CASE AcceptWrite(h)
  BY <1>7, AcceptOwnerInv
<1>8. CASE CallRefused(h)
  BY <1>8, SentOwnerInv DEF CallRefused, Handles, server, history
<1>9. CASE CallFunction(h)
  BY <1>9, SentOwnerInv DEF CallFunction, Handles, server, history
<1>10. QED
  BY <1>1, <1>2, <1>3, <1>4, <1>5, <1>6, <1>7, <1>8, <1>9 DEF Process

LEMMA StartOwnerInv == ASSUME OwnerInv, NEW h \in Hosts, NEW j \in Jobs, Start(h, j) PROVE OwnerInv'
<1>1. /\ job[h] = Idle /\ job' = [job EXCEPT ![h] = j]
      /\ UNCHANGED <<current_write_node, sent, writers>>
  BY DEF Start, server, history
<1>2. Nobody \notin Hosts
  BY HostAssumption
<1>3. h \notin writers
  BY <1>1, <1>2 DEF OwnerInv, Owners
<1>4. Working'
  <2>1. sent[h] = 0
    BY <1>1 DEF OwnerInv, Working
  <2>2. sent[h] <= Len(j)
    BY <2>1, JobFacts
  <2>3. QED
    BY <1>1, <2>2, JobFacts DEF OwnerInv, Working
<1>5. Owners'
  BY <1>1, <1>3 DEF OwnerInv, Working, Owners
<1>6. OwnItem'
  BY <1>1, <1>3 DEF OwnerInv, Working, OwnItem, Place
<1>7. QED
  BY <1>4, <1>5, <1>6 DEF OwnerInv

LEMMA StopOwnerInv == ASSUME OwnerInv, NEW h \in Hosts, Stop(h) PROVE OwnerInv'
<1>1. /\ job' = [job EXCEPT ![h] = Idle] /\ sent' = [sent EXCEPT ![h] = 0]
      /\ writers' = IF h \in writers THEN (writers \ {h}) \cup {Nobody} ELSE writers
      /\ UNCHANGED current_write_node
  BY DEF Stop, Leave, server
<1>2. Nobody \notin Hosts
  BY HostAssumption
<1>3. Working'
  BY <1>1 DEF OwnerInv, Working
<1>4. Owners'
  BY <1>1 DEF OwnerInv, Working, Owners
<1>5. OwnItem'
  BY <1>1, <1>2 DEF OwnerInv, Working, OwnItem, Place
<1>6. QED
  BY <1>3, <1>4, <1>5 DEF OwnerInv

LEMMA NextOwnerInv == OwnerInv /\ [Next]_vars => OwnerInv'
<1>1. ASSUME OwnerInv, NEW h \in Hosts, End(h) \/ Kill(h) PROVE OwnerInv'
  BY <1>1, StopOwnerInv DEF End, Kill
<1>2. OwnerInv /\ UNCHANGED vars => OwnerInv'
  BY DEF OwnerInv, Working, Owners, OwnItem, Place, vars, server, history
<1>3. QED
  BY <1>1, <1>2, ProcessOwnerInv, StartOwnerInv DEF Next

LEMMA OwnerInvariant == Spec => []OwnerInv
  BY InitOwnerInv, NextOwnerInv, PTL DEF Spec

-----------------------------------------------------------------------------

\* An open write sequence (current_write_node, 339-388) has an owner: a host
\* that has more to send, or one that was killed or gave up.
THEOREM SequencesHaveOwners == Spec => []SequenceHasAnOwner
<1>1. OwnerInv => SequenceHasAnOwner
  BY DEF OwnerInv, Owners, OwnItem, SequenceHasAnOwner
<1>2. QED
  BY <1>1, OwnerInvariant, PTL

\* Only OutOfSequence answers a host with KOW_CMD_ERROR_INVALID_SEQUENCE (343, 384).
LEMMA OnlyOutOfSequence ==
    ASSUME NEW h \in Hosts, Next, reply' = [to |-> h, command |-> "ERROR_INVALID_SEQUENCE"]
    PROVE  OutOfSequence(h)
<1> DEFINE refusal == "ERROR_INVALID_SEQUENCE"
<1>1. ASSUME NEW g, NEW c, Reply(g, c) PROVE g = h /\ c = refusal
  <2>1. reply'.to = h /\ reply'.command = refusal
    OBVIOUS
  <2>2. reply'.to = g /\ reply'.command = c
    BY <1>1 DEF Reply
  <2>3. QED
    BY <2>1, <2>2
<1>2. ~Quiet
  <2>1. reply'.command = refusal /\ NoReply.command = "none"
    BY DEF NoReply
  <2>2. QED
    BY <2>1 DEF Quiet
<1>3. ~(\E g \in Hosts : End(g) \/ Kill(g) \/ \E j \in Jobs : Start(g, j))
  BY <1>2 DEF End, Kill, Stop, Start
<1>4. PICK g \in Hosts : Process(g)
  BY <1>3 DEF Next
<1>5. ~InvalidCommand(g) /\ ~InvalidTreeId(g) /\ ~BadPath(g) /\ ~AcceptWrite(g)
  <2>1. ~Reply(g, "ERROR_INVALID_COMMAND") /\ ~Reply(g, "ERROR_INVALID_TREE_ID")
        /\ ~Reply(g, "ERROR_INVALID_SYMBOL_PATH") /\ ~Reply(g, "WRITE_DATA_ACK")
    BY <1>1
  <2>2. QED
    BY <2>1 DEF InvalidCommand, InvalidTreeId, BadPath, AcceptWrite
<1>6. ~RefuseWrite(g)
  <2>1. ~Reply(g, "ERROR_INVALID_PAYLOAD_OFFSET") /\ ~Reply(g, "ERROR_INVALID_PAYLOAD_SIZE")
    BY <1>1
  <2>2. QED
    BY <2>1 DEF RefuseWrite
<1>7. ~CallRefused(g) /\ ~CallFunction(g)
  <2>1. /\ ~Reply(g, "ERROR_INVALID_FUNCTION_ID") /\ ~Reply(g, "ERROR_INVALID_TREE_ID")
        /\ ~Reply(g, "ERROR_INVALID_PAYLOAD_OFFSET") /\ ~Reply(g, "ERROR_INVALID_PAYLOAD_SIZE")
        /\ ~Reply(g, "CALL_FUNCTION_ACK") /\ ~Reply(g, "CALL_FUNCTION_FAILED")
        /\ ~Reply(g, "CALL_FUNCTION_RESULT_END")
    BY <1>1
  <2>2. QED
    BY <2>1 DEF CallRefused, CallFunction
<1>8. ~Read(g)
  <2>1. ASSUME NEW c \in DOMAIN Answers, Reply(g, Answers[c]) PROVE FALSE
    <3>1. Answers[c] # refusal
      BY DEF Answers
    <3>2. QED
      BY <1>1, <2>1, <3>1
  <2>2. /\ ~Reply(g, "ERROR_NO_DATA") /\ ~Reply(g, "READ_DATA_ACK_END")
        /\ ~Reply(g, "ERROR_INVALID_SYMBOL_PATH") /\ ~Reply(g, "READ_DESCRIPTOR_ACK_END")
        /\ ~Reply(g, "GET_FUNCTION_DETAILS_ACK") /\ ~Reply(g, "ERROR_INVALID_FUNCTION_ID")
    BY <1>1
  <2>3. QED
    BY <2>1, <2>2 DEF Read, Handles
<1>9. OutOfSequence(g)
  BY <1>4, <1>5, <1>6, <1>7, <1>8 DEF Process
<1>10. g = h
  BY <1>1, <1>9 DEF OutOfSequence
<1>11. QED
  BY <1>9, <1>10

\* A host that writes one item, in however many packets, is refused as out of
\* sequence (343, 382-384) only if another host has written to the open sequence,
\* or left it open.
THEOREM RefusedForAnother == Spec => RefusedByAnother
<1> DEFINE Refused(h) ==
        /\ Handled(h) /\ WriteJob(job[h])
        /\ reply' = [to |-> h, command |-> "ERROR_INVALID_SEQUENCE"]
           ForAnother == \A h \in Hosts : Refused(h) => writers \ {h} # {}
<1>1. OwnerInv /\ [Next]_vars => [ForAnother]_vars
  <2> SUFFICES ASSUME OwnerInv, Next, NEW h \in Hosts, Refused(h), writers \subseteq {h} PROVE FALSE
    OBVIOUS
  <2>1. OutOfSequence(h)
    BY OnlyOutOfSequence
  <2>2. /\ job[h] # Idle /\ sent[h] < Len(job[h])
        /\ current_write_node # NULL /\ current_write_node # Place(Request(h)).node
    BY <2>1 DEF OutOfSequence, Handles, InSequence
  <2>3. job[h] \in Jobs /\ Request(h) = job[h][sent[h] + 1] /\ sent[h] + 1 \in DOMAIN job[h]
    BY <2>2, InJob DEF OwnerInv, Request
  <2>4. Place(Request(h)) = Place(job[h][1])
    BY <2>3, SameItem
  <2>5. current_write_node = Place(job[h][1]).node
    BY <2>2 DEF OwnerInv, OwnItem
  <2>6. QED
    BY <2>2, <2>4, <2>5
<1>2. QED
  BY <1>1, OwnerInvariant, PTL DEF Spec, RefusedByAnother

-----------------------------------------------------------------------------
(***************************************************************************)
(* Types                                                                   *)
(***************************************************************************)

\* What the server would report of the open sequence starts at an element of
\* its node and is no longer than the node.
InNode ==
    current_write_node # NULL =>
        \E t \in Trees : \E p \in DOMAIN Item[t] :
            /\ Item[t][p].node = current_write_node
            /\ Item[t][p].offset = current_write_node_offset
            /\ current_write_node_bytes_written \in 0 .. Item[t][p].room
Stored ==
    /\ \A t \in ArgumentTrees : data[t] \in [Bytes(t) -> Hosts \cup {Nobody}]
    /\ DOMAIN data = ArgumentTrees
    /\ alone \in [Hosts -> BOOLEAN]

\* The inductive invariant of the types.
TypeInv == OwnerInv /\ InNode /\ Stored

LEMMA RequestTyped ==
    ASSUME Working, NEW h \in Hosts, job[h] # Idle, sent[h] < Len(job[h])
    PROVE  Request(h) \in Requests
<1>1. job[h] \in Jobs /\ sent[h] + 1 \in DOMAIN job[h]
  BY InJob
<1>2. job[h] \in Seq(Requests) /\ DOMAIN job[h] = 1..Len(job[h])
  BY <1>1, JobAssumption, JobFacts
<1>3. QED
  BY <1>1, <1>2, ElementOfSeq DEF Request

LEMMA StoreStored ==
    ASSUME Stored, NEW h \in Hosts, NEW t, NEW from, NEW size, Store(h, t, from, size)
    PROVE  Stored'
<1>1. alone' \in [Hosts -> BOOLEAN]
  BY DEF Store, Touch, Stored
<1>2. CASE t \in ArgumentTrees
  <2>1. data' = [data EXCEPT ![t] = [b \in Bytes(t) |-> IF b \in Span(from, size) THEN h ELSE data[t][b]]]
    BY <1>2 DEF Store
  <2>2. \A b \in Bytes(t) : data[t][b] \in Hosts \cup {Nobody}
    BY <1>2 DEF Stored
  <2>3. [b \in Bytes(t) |-> IF b \in Span(from, size) THEN h ELSE data[t][b]]
            \in [Bytes(t) -> Hosts \cup {Nobody}]
    BY <2>2
  <2>4. DOMAIN data' = ArgumentTrees /\ \A u \in ArgumentTrees : u # t => data'[u] = data[u]
    BY <2>1 DEF Stored
  <2>5. data'[t] \in [Bytes(t) -> Hosts \cup {Nobody}]
    BY <1>2, <2>1, <2>3 DEF Stored
  <2>6. QED
    BY <1>1, <2>4, <2>5 DEF Stored
<1>3. CASE t \notin ArgumentTrees
  BY <1>1, <1>3 DEF Store, Stored
<1>4. QED
  BY <1>2, <1>3

\* Numbers that an int holds, and what becomes of those it does not hold.
LEMMA IntOf ==
    ASSUME NEW n \in Nat
    PROVE  Int16(n) \in Int /\ (n <= IntMax => Int16(n) = n)
  BY DEF Int16, IntMax

LEMMA RequestNumbers ==
    ASSUME NEW r \in Requests
    PROVE  /\ r.offset \in Nat /\ r.size \in Nat /\ EndOf(r) \in Int
           /\ r.offset + r.size <= IntMax => EndOf(r) = r.offset + r.size
<1>1. r.offset \in UInt16 /\ r.size \in UInt16
  BY DEF Requests
<1>2. r.offset \in Nat /\ r.size \in Nat
  <2>1. UInt16 \subseteq Nat
    BY DEF UInt16
  <2>2. QED
    BY ONLY <1>1, <2>1
<1>3. r.offset + r.size \in Nat
  BY <1>2
<1>4. QED
  BY <1>2, <1>3, IntOf DEF EndOf

LEMMA AcceptInNode == ASSUME TypeInv, NEW h \in Hosts, AcceptWrite(h) PROVE InNode'
<1> DEFINE r == Request(h)
           place == Place(r)
<1>1. r \in Requests /\ r.id \in Trees /\ r.path \in DOMAIN Item[r.id]
  BY RequestTyped DEF AcceptWrite, Handles, TypeInv, OwnerInv, Found
<1>2. EndOf(r) \in Int /\ EndOf(r) <= place.room
  BY <1>1, RequestNumbers DEF AcceptWrite, InRoom
<1>3. place = Item[r.id][r.path] /\ place.room \in Nat
  BY <1>1, ItemAssumption DEF Place
<1>4. current_write_node \in {NULL, place.node}
  BY DEF AcceptWrite, InSequence
<1>5. /\ current_write_node' \in {NULL, place.node}
      /\ current_write_node_offset' = SequenceOffset(r)
      /\ current_write_node_bytes_written' = Extent(r)
  BY DEF AcceptWrite, AfterWrite
<1>6. CASE current_write_node = NULL
  <2>1. SequenceOffset(r) = place.offset /\ SequenceBytes = 0
    BY <1>6 DEF SequenceOffset, SequenceBytes
  <2>2. Extent(r) \in 0..place.room
    BY <1>2, <1>3, <2>1 DEF Extent
  <2>3. QED
    BY <1>1, <1>3, <1>5, <2>1, <2>2 DEF InNode
<1>7. CASE current_write_node # NULL
  <2>1. PICK t \in Trees : \E p \in DOMAIN Item[t] :
                 /\ Item[t][p].node = current_write_node
                 /\ Item[t][p].offset = current_write_node_offset
                 /\ current_write_node_bytes_written \in 0 .. Item[t][p].room
    BY <1>7 DEF TypeInv, InNode
  <2>2. PICK p \in DOMAIN Item[t] :
                 /\ Item[t][p].node = current_write_node
                 /\ Item[t][p].offset = current_write_node_offset
                 /\ current_write_node_bytes_written \in 0 .. Item[t][p].room
    BY <2>1
  <2>3. Item[t][p].room = place.room
    BY <1>1, <1>3, <1>4, <1>7, <2>2, RoomAssumption
  <2>4. SequenceOffset(r) = Item[t][p].offset /\ SequenceBytes \in 0..place.room
    BY <1>7, <2>2, <2>3 DEF SequenceOffset, SequenceBytes
  <2>5. Extent(r) \in 0..place.room
    BY <1>2, <1>3, <2>4 DEF Extent
  <2>6. QED
    BY <1>4, <1>5, <1>7, <2>2, <2>3, <2>4, <2>5 DEF InNode
<1>8. QED
  BY <1>6, <1>7

LEMMA InitTypeInv == Init => TypeInv
<1> SUFFICES ASSUME Init PROVE TypeInv
  OBVIOUS
<1>1. OwnerInv
  BY InitOwnerInv
<1>2. InNode /\ Stored
  BY DEF Init, InNode, Stored
<1>3. QED
  BY <1>1, <1>2 DEF TypeInv

LEMMA ProcessTypeInv == ASSUME TypeInv, NEW h \in Hosts, Process(h) PROVE InNode' /\ Stored'
<1>1. CASE InvalidCommand(h) \/ InvalidTreeId(h) \/ Read(h) \/ CallRefused(h)
  BY <1>1 DEF InvalidCommand, InvalidTreeId, Read, CallRefused, NothingStored, server, TypeInv, InNode, Stored
<1>2. CASE BadPath(h) \/ OutOfSequence(h) \/ RefuseWrite(h)
  BY <1>2 DEF BadPath, OutOfSequence, RefuseWrite, NoSequence, NothingStored, TypeInv, InNode, Stored
<1>3. CASE AcceptWrite(h)
  <2>1. Stored'
    BY <1>3, StoreStored DEF AcceptWrite, TypeInv
  <2>2. QED
    BY <1>3, <2>1, AcceptInNode
<1>4. CASE CallFunction(h)
  <2>1. Stored'
    BY <1>4, StoreStored DEF CallFunction, NothingStored, TypeInv, Stored
  <2>2. InNode'
    BY <1>4 DEF CallFunction, server, TypeInv, InNode
  <2>3. QED
    BY <2>1, <2>2
<1>5. QED
  BY <1>1, <1>2, <1>3, <1>4 DEF Process

LEMMA NextTypeInv == TypeInv /\ [Next]_vars => TypeInv'
<1> SUFFICES ASSUME TypeInv, [Next]_vars PROVE TypeInv'
  OBVIOUS
<1>1. OwnerInv'
  BY NextOwnerInv DEF TypeInv
<1>2. CASE \E h \in Hosts : Process(h)
  BY <1>1, <1>2, ProcessTypeInv DEF TypeInv
<1>3. ASSUME NEW h \in Hosts, End(h) \/ Kill(h) PROVE InNode' /\ Stored'
  <2>1. alone' = [alone EXCEPT ![h] = TRUE] /\ UNCHANGED <<server, data>>
    BY <1>3 DEF End, Kill, Stop
  <2>2. alone' \in [Hosts -> BOOLEAN]
    BY <2>1 DEF TypeInv, Stored
  <2>3. QED
    BY <2>1, <2>2 DEF server, TypeInv, InNode, Stored
<1>4. ASSUME NEW h \in Hosts, NEW j \in Jobs, Start(h, j) PROVE InNode' /\ Stored'
  BY <1>4 DEF Start, server, TypeInv, InNode, Stored
<1>5. CASE UNCHANGED vars
  BY <1>1, <1>5 DEF vars, server, TypeInv, InNode, Stored
<1>6. QED
  BY <1>1, <1>2, <1>3, <1>4, <1>5 DEF Next, TypeInv

\* The variables keep their types for any trees and jobs: the range that the
\* server would report to node_post_write (369) starts at an element of the
\* open sequence's node and is no longer than the node, whichever hosts have
\* written and to which elements.
THEOREM ServerTyped == Spec => []TypeOK
<1>1. Init => TypeInv
  BY InitTypeInv
<1>2. TypeInv => TypeOK
  BY DEF TypeInv, OwnerInv, Working, InNode, Stored, TypeOK
<1>3. QED
  BY <1>1, <1>2, NextTypeInv, PTL DEF Spec
-----------------------------------------------------------------------------
(***************************************************************************)
(* The report of a write: the open sequence starts where one of its        *)
(* packets did, and reaches as far as the one that closes it.              *)
(***************************************************************************)

StartsAtItsPackets ==
    current_write_node # NULL => \E place \in places : place.offset = current_write_node_offset

\* A host that calls a function with arguments, in the tree Arguments(h), has
\* what it has sent of them there.
Calls(h) ==
    /\ job[h] # Idle /\ CallJob(job[h])
    /\ job[h][1].id \in Functions /\ TreeIn[job[h][1].id] \in Trees \ {UNDEFINED}
Arguments(h) == TreeIn[job[h][1].id]
Reached(h) == IF sent[h] = 0 THEN 0 ELSE job[h][sent[h]].offset + job[h][sent[h]].size
Held(h) ==
    Calls(h) /\ alone[h] /\ Reached(h) <= DataSize[Arguments(h)]
    => \A b \in Bytes(Arguments(h)) : b < Reached(h) => data[Arguments(h)][b] = h

\* The inductive invariant of what the hosts transfer.
TransferInv == TypeInv /\ StartsAtItsPackets /\ \A h \in Hosts : Held(h)

LEMMA PartTyped ==
    ASSUME NEW j \in Jobs, CallJob(j), NEW k \in DOMAIN j
    PROVE  j[k].offset \in Nat /\ j[k].size \in Nat /\ j[k].command = "CALL_FUNCTION"
<1>1. j[k] \in Requests
  BY JobAssumption, JobFacts, ElementOfSeq
<1>2. j[k].command = "CALL_FUNCTION"
  BY DEF CallJob
<1>3. QED
  BY <1>1, <1>2, RequestNumbers

\* The next part of a call begins where the last one ended.
LEMMA NextPart ==
    ASSUME Working, NEW h \in Hosts, job[h] # Idle, sent[h] < Len(job[h]), CallJob(job[h])
    PROVE  /\ Request(h).offset = Reached(h) /\ Reached(h) \in Nat /\ Request(h).size \in Nat
           /\ Request(h).command = "CALL_FUNCTION" /\ Request(h).id = job[h][1].id
           /\ Parses(Request(h))
<1>1. job[h] \in Jobs /\ sent[h] \in Nat /\ sent[h] + 1 \in DOMAIN job[h]
  BY InJob DEF Working
<1>2. Len(job[h]) \in Nat /\ DOMAIN job[h] = 1..Len(job[h]) /\ 1 \in DOMAIN job[h]
  BY <1>1, JobFacts
<1>3. Request(h) = job[h][sent[h] + 1]
  BY DEF Request
<1>4. /\ Request(h).offset \in Nat /\ Request(h).size \in Nat
      /\ Request(h).command = "CALL_FUNCTION"
  BY <1>1, <1>3, PartTyped
<1>5. Request(h).id = job[h][1].id /\ Parses(Request(h))
  BY <1>1, <1>3 DEF CallJob
<1>6. Request(h).offset = Reached(h)
  <2>1. CASE sent[h] = 0
    BY <1>3, <2>1 DEF CallJob, Reached
  <2>2. CASE sent[h] # 0
    <3>1. sent[h] \in 1..(Len(job[h]) - 1)
      BY <1>1, <1>2, <2>2
    <3>2. QED
      BY <1>3, <2>2, <3>1 DEF CallJob, Reached
  <2>3. QED
    BY <2>1, <2>2
<1>7. QED
  BY <1>4, <1>5, <1>6

LEMMA StoreBytes ==
    ASSUME Stored, NEW h \in Hosts, NEW t, NEW from, NEW size, Store(h, t, from, size),
           NEW u \in ArgumentTrees, NEW b \in Bytes(u)
    PROVE  data'[u][b] = IF u = t /\ b \in Span(from, size) THEN h ELSE data[u][b]
<1>1. CASE t \in ArgumentTrees
  <2>1. data' = [data EXCEPT ![t] = [c \in Bytes(t) |-> IF c \in Span(from, size) THEN h ELSE data[t][c]]]
    BY <1>1 DEF Store
  <2>2. QED
    BY <1>1, <2>1 DEF Stored
<1>2. CASE t \notin ArgumentTrees
  BY <1>2 DEF Store
<1>3. QED
  BY <1>1, <1>2

\* A host that is alone after another one's step was so before, and that step
\* did not write to its arguments.
LEMMA OtherHeld ==
    ASSUME Stored, NEW h \in Hosts, NEW g \in Hosts, g # h, Held(g),
           job[g] \in Jobs \cup {Idle}, job'[g] = job[g], sent'[g] = sent[g],
           \/ NothingStored
           \/ \E t, from, size : Store(h, t, from, size)
           \/ UNCHANGED data /\ alone'[g] = alone[g]
    PROVE  Held(g)'
<1> SUFFICES ASSUME job[g] # Idle, CallJob(job[g]), job[g][1].id \in Functions,
                    TreeIn[job[g][1].id] \in Trees \ {UNDEFINED}, alone'[g],
                    Reached(g) <= DataSize[Arguments(g)],
                    NEW b \in Bytes(Arguments(g)), b < Reached(g)
             PROVE  data'[Arguments(g)][b] = g
  BY DEF Held, Calls, Arguments, Reached
<1>1. Arguments(g) \in ArgumentTrees
  BY DEF Arguments, ArgumentTrees
<1>2. CASE alone[g] /\ data'[Arguments(g)][b] = data[Arguments(g)][b]
  BY <1>2 DEF Held, Calls
<1>3. CASE \E t, from, size : Store(h, t, from, size)
  <2>1. PICK t, from, size : Store(h, t, from, size)
    BY <1>3
  <2>2. 1 \in DOMAIN job[g]
    BY JobFacts
  <2>3. JobTree(job[g][1]) = Arguments(g)
    BY <2>2 DEF CallJob, JobTree, Arguments
  <2>4. alone[g] /\ \A k \in DOMAIN job[g] : JobTree(job[g][k]) # t
    BY <2>1 DEF Store, Touch
  <2>5. data'[Arguments(g)][b] = data[Arguments(g)][b]
    BY <1>1, <2>1, <2>2, <2>3, <2>4, StoreBytes
  <2>6. QED
    BY <1>2, <2>4, <2>5
<1>4. CASE NothingStored \/ (UNCHANGED data /\ alone'[g] = alone[g])
  BY <1>2, <1>4 DEF NothingStored
<1>5. QED
  BY <1>3, <1>4
LEMMA ProcessStores ==
    ASSUME NEW h \in Hosts, Process(h)
    PROVE  /\ NothingStored \/ \E t, from, size : Store(h, t, from, size)
           /\ job[h] # Idle /\ sent[h] < Len(job[h]) /\ Send(h) /\ UNCHANGED job
<1>1. CASE InvalidCommand(h)
  BY <1>1 DEF InvalidCommand
<1>2. CASE InvalidTreeId(h) \/ Read(h) \/ BadPath(h) \/ OutOfSequence(h) \/ RefuseWrite(h) \/ CallRefused(h)
  BY <1>2 DEF InvalidTreeId, Read, BadPath, OutOfSequence, RefuseWrite, CallRefused, Handles
<1>3. CASE AcceptWrite(h)
  BY <1>3 DEF AcceptWrite, Handles
<1>4. CASE CallFunction(h)
  BY <1>4 DEF CallFunction, Handles
<1>5. QED
  BY <1>1, <1>2, <1>3, <1>4 DEF Process

\* A part of a call is refused or stored: nothing else handles it.
LEMMA PartHandled ==
    ASSUME NEW h \in Hosts, Process(h), Parses(Request(h)), Request(h).command = "CALL_FUNCTION"
    PROVE  CallRefused(h) \/ CallFunction(h)
<1>1. Request(h).command \notin WriteCommands \cup DOMAIN Answers \cup
                                {"READ_DATA", "READ_DESCRIPTOR", "GET_FUNCTION_DETAILS", "other"}
  BY DEF WriteCommands, Answers
<1>2. ~InvalidCommand(h) /\ ~InvalidTreeId(h) /\ ~Read(h)
  BY <1>1 DEF InvalidCommand, InvalidTreeId, Read, Handles
<1>3. ~BadPath(h) /\ ~OutOfSequence(h) /\ ~RefuseWrite(h) /\ ~AcceptWrite(h)
  BY <1>1 DEF BadPath, OutOfSequence, RefuseWrite, AcceptWrite, Handles
<1>4. QED
  BY <1>2, <1>3 DEF Process

\* A part within the arguments is stored behind those before it.
LEMMA OwnHeld ==
    ASSUME Working, Stored, NEW h \in Hosts, Held(h), Process(h)
    PROVE  Held(h)'
<1> DEFINE r == Request(h)
           t == Arguments(h)
<1>1. /\ job[h] # Idle /\ sent[h] < Len(job[h]) /\ job' = job
      /\ sent' = [sent EXCEPT ![h] = sent[h] + 1] /\ sent \in [Hosts -> Nat]
  BY ProcessStores DEF Send, Working
<1>2. sent'[h] = sent[h] + 1 /\ sent[h] \in Nat /\ sent'[h] # 0
  BY <1>1
<1>3. Reached(h)' = r.offset + r.size
  BY <1>1, <1>2 DEF Reached, Request
<1>4. Calls(h)' = Calls(h) /\ Arguments(h)' = t
  BY <1>1 DEF Calls, Arguments
<1> SUFFICES ASSUME Calls(h), alone'[h], r.offset + r.size <= DataSize[t],
                    NEW b \in Bytes(t), b < r.offset + r.size
             PROVE  data'[t][b] = h
  BY <1>3, <1>4 DEF Held
<1>5. /\ r.offset = Reached(h) /\ Reached(h) \in Nat /\ r.size \in Nat
      /\ r.command = "CALL_FUNCTION" /\ r.id = job[h][1].id /\ Parses(r)
  BY <1>1, NextPart DEF Calls
<1>6. r.id \in Functions /\ TreeIn[r.id] = t /\ t \in Trees \ {UNDEFINED} /\ t \in ArgumentTrees
  BY <1>5 DEF Calls, Arguments, ArgumentTrees
<1>7. Fits(r)
  BY <1>6 DEF Fits, Callable, ArgumentSize
<1>8. CallFunction(h)
  BY <1>5, <1>7, PartHandled DEF CallRefused
<1>9. Store(h, t, r.offset, r.size)
  BY <1>6, <1>8 DEF CallFunction
<1>10. data'[t][b] = IF b \in Span(r.offset, r.size) THEN h ELSE data[t][b]
  BY <1>6, <1>9, StoreBytes
<1>11. alone[h]
  BY <1>9 DEF Store, Touch
<1>12. DataSize[t] \in Nat /\ b \in Nat
  BY <1>6, ItemAssumption DEF Bytes, Span
<1>13. CASE b < Reached(h)
  <2>1. Reached(h) <= DataSize[t]
    BY <1>5, <1>12
  <2>2. data[t][b] = h
    BY <1>11, <1>13, <2>1 DEF Held
  <2>3. QED
    BY <1>10, <2>2
<1>14. CASE ~(b < Reached(h))
  <2>1. b \in Span(r.offset, r.size)
    BY <1>5, <1>12, <1>14 DEF Span
  <2>2. QED
    BY <1>10, <2>1
<1>15. QED
  BY <1>13, <1>14

LEMMA NextHeld == TypeInv /\ (\A h \in Hosts : Held(h)) /\ [Next]_vars => \A h \in Hosts : Held(h)'
<1> SUFFICES ASSUME TypeInv, \A h \in Hosts : Held(h), [Next]_vars, NEW g \in Hosts PROVE Held(g)'
  OBVIOUS
<1>1. Working /\ Stored /\ Held(g) /\ job[g] \in Jobs \cup {Idle}
  BY DEF TypeInv, OwnerInv, Working
<1>2. ASSUME NEW h \in Hosts, Process(h) PROVE Held(g)'
  <2>1. CASE h = g
    BY <1>1, <1>2, <2>1, OwnHeld
  <2>2. CASE h # g
    <3>1. /\ NothingStored \/ \E t, from, size : Store(h, t, from, size)
          /\ Send(h) /\ UNCHANGED job
      BY <1>2, ProcessStores
    <3>2. sent'[g] = sent[g] /\ job'[g] = job[g]
      BY <2>2, <3>1 DEF Send
    <3>3. QED
      BY <1>1, <2>2, <3>1, <3>2, OtherHeld
  <2>3. QED
    BY <2>1, <2>2
<1>3. ASSUME NEW h \in Hosts, End(h) \/ Kill(h) PROVE Held(g)'
  <2>1. /\ job' = [job EXCEPT ![h] = Idle] /\ sent' = [sent EXCEPT ![h] = 0]
        /\ alone' = [alone EXCEPT ![h] = TRUE] /\ UNCHANGED data
    BY <1>3 DEF End, Kill, Stop
  <2>2. CASE h = g
    <3>1. job'[g] = Idle
      BY <2>1, <2>2 DEF TypeInv, OwnerInv, Working
    <3>2. QED
      BY <3>1 DEF Held, Calls
  <2>3. CASE h # g
    <3>1. job'[g] = job[g] /\ sent'[g] = sent[g] /\ alone'[g] = alone[g]
      BY <1>1, <2>1, <2>3 DEF Working, Stored
    <3>2. QED
      BY <1>1, <2>1, <2>3, <3>1, OtherHeld
  <2>4. QED
    BY <2>2, <2>3
<1>4. ASSUME NEW h \in Hosts, NEW j \in Jobs, Start(h, j) PROVE Held(g)'
  <2>1. /\ job[h] = Idle /\ job' = [job EXCEPT ![h] = j] /\ UNCHANGED <<sent, data, alone>>
    BY <1>4 DEF Start
  <2>2. CASE h = g
    <3>1. Reached(g)' = 0
      BY <2>1, <2>2 DEF TypeInv, OwnerInv, Working, Reached
    <3>2. \A t \in ArgumentTrees : \A b \in Bytes(t) : ~(b < 0)
      BY DEF Bytes, Span
    <3>3. Calls(g)' => Arguments(g)' \in ArgumentTrees
      BY DEF Calls, Arguments, ArgumentTrees
    <3>4. QED
      BY <3>1, <3>2, <3>3 DEF Held
  <2>3. CASE h # g
    <3>1. job'[g] = job[g]
      BY <2>1, <2>3
    <3>2. QED
      BY <1>1, <2>1, <2>3, <3>1, OtherHeld
  <2>4. QED
    BY <2>2, <2>3
<1>5. CASE UNCHANGED vars
  BY <1>1, <1>5 DEF vars, Held, Calls, Arguments, Reached
<1>6. QED
  BY <1>2, <1>3, <1>4, <1>5 DEF Next
LEMMA NextStarts ==
    StartsAtItsPackets /\ [Next]_vars => StartsAtItsPackets'
<1> SUFFICES ASSUME StartsAtItsPackets, [Next]_vars PROVE StartsAtItsPackets'
  OBVIOUS
<1>1. CASE UNCHANGED <<current_write_node, current_write_node_offset, places>> \/ current_write_node' = NULL
  BY <1>1 DEF StartsAtItsPackets
<1>2. ASSUME NEW h \in Hosts, AcceptWrite(h), current_write_node' # NULL PROVE StartsAtItsPackets'
  <2> DEFINE r == Request(h)
  <2>1. /\ current_write_node_offset' = SequenceOffset(r)
        /\ places' = places \cup {Place(r)}
    BY <1>2 DEF AcceptWrite, AfterWrite
  <2>2. CASE current_write_node = NULL
    BY <2>1, <2>2 DEF SequenceOffset, StartsAtItsPackets
  <2>3. CASE current_write_node # NULL
    BY <2>1, <2>3 DEF SequenceOffset, StartsAtItsPackets
  <2>4. QED
    BY <2>2, <2>3
<1>3. ASSUME NEW h \in Hosts, Process(h) PROVE StartsAtItsPackets'
  <2>1. CASE AcceptWrite(h)
    BY <1>1, <1>2, <2>1
  <2>2. CASE BadPath(h) \/ OutOfSequence(h) \/ RefuseWrite(h)
    BY <1>1, <2>2 DEF BadPath, OutOfSequence, RefuseWrite, NoSequence
  <2>3. CASE InvalidCommand(h) \/ InvalidTreeId(h) \/ Read(h) \/ CallRefused(h) \/ CallFunction(h)
    BY <1>1, <2>3 DEF InvalidCommand, InvalidTreeId, Read, CallRefused, CallFunction, server, history
  <2>4. QED
    BY <1>3, <2>1, <2>2, <2>3 DEF Process
<1>4. ASSUME NEW h \in Hosts, End(h) \/ Kill(h) \/ \E j \in Jobs : Start(h, j) PROVE StartsAtItsPackets'
  BY <1>1, <1>4 DEF End, Kill, Stop, Start, server, history
<1>5. CASE UNCHANGED vars
  BY <1>1, <1>5 DEF vars, server, history
<1>6. QED
  BY <1>3, <1>4, <1>5 DEF Next

LEMMA InitTransferInv == Init => TransferInv
<1> SUFFICES ASSUME Init PROVE TransferInv
  OBVIOUS
<1>1. TypeInv
  BY InitTypeInv
<1>2. StartsAtItsPackets /\ \A h \in Hosts : Held(h)
  BY DEF Init, StartsAtItsPackets, Held, Calls
<1>3. QED
  BY <1>1, <1>2 DEF TransferInv

\* Where an open sequence starts, and how much of a call is in its arguments.
THEOREM TransferInvariant == Spec => []TransferInv
<1>1. TransferInv /\ [Next]_vars => TransferInv'
  BY NextTypeInv, NextStarts, NextHeld DEF TransferInv
<1>2. QED
  BY <1>1, InitTransferInv, PTL DEF Spec

\* A host's count goes up by one only as the server handles its packet.
LEMMA HandledByServer ==
    ASSUME TypeInv, Next, NEW h \in Hosts, Handled(h)
    PROVE  Process(h)
<1>0. sent \in [Hosts -> Nat] /\ sent[h] \in Nat
  BY DEF TypeInv, OwnerInv, Working
<1>1. sent'[h] = sent[h] + 1 /\ sent'[h] # sent[h] /\ sent'[h] # 0
  BY <1>0 DEF Handled
<1>2. ASSUME NEW g \in Hosts, Process(g) PROVE Process(h)
  <2>1. sent' = [sent EXCEPT ![g] = sent[g] + 1]
    BY <1>2, ProcessStores DEF Send
  <2>2. g = h
    BY <1>0, <1>1, <2>1
  <2>3. QED
    BY <1>2, <2>2
<1>3. ASSUME NEW g \in Hosts, End(g) \/ Kill(g) PROVE FALSE
  <2>1. sent' = [sent EXCEPT ![g] = 0]
    BY <1>3 DEF End, Kill, Stop
  <2>2. QED
    BY <1>0, <1>1, <2>1
<1>4. ASSUME NEW g \in Hosts, NEW j \in Jobs, Start(g, j) PROVE FALSE
  BY <1>1, <1>4 DEF Start
<1>5. QED
  BY <1>2, <1>3, <1>4 DEF Next

\* A function is called, after its last part (554-565), with the arguments its
\* caller has sent and no other host's, unless one has written to their tree
\* in between: for any functions, trees, jobs and numbers of parts.
THEOREM CallsSeeTheirCaller == Spec => CallSeesItsCaller
<1> DEFINE Called(h) ==
        /\ Handled(h) /\ CallJob(job[h]) /\ alone[h]
        /\ callbacks' # <<>> /\ callbacks'[1].name = "function_called"
           Own(h) == LET t == callbacks'[1].tree
                     IN t # UNDEFINED => \A b \in Bytes(t) : data'[t][b] = h
           SeesItsCaller == \A h \in Hosts : Called(h) => Own(h)
<1>1. TransferInv /\ TransferInv' /\ [Next]_vars => [SeesItsCaller]_vars
  <2> SUFFICES ASSUME TransferInv, TransferInv', Next, NEW h \in Hosts, Called(h) PROVE Own(h)
    OBVIOUS
  <2> DEFINE r == Request(h)
             t == TreeIn[r.id]
  <2>1. Working /\ Stored /\ TypeInv /\ Held(h) /\ Held(h)'
    BY DEF TransferInv, TypeInv, OwnerInv
  <2>2. Process(h)
    BY <2>1, HandledByServer
  <2>3. job[h] # Idle /\ sent[h] < Len(job[h]) /\ job' = job /\ Send(h)
    BY <2>2, ProcessStores
  <2>4. /\ r.offset = Reached(h) /\ Reached(h) \in Nat /\ r.size \in Nat
        /\ r.command = "CALL_FUNCTION" /\ r.id = job[h][1].id /\ Parses(r)
    BY <2>1, <2>3, NextPart
  <2>5. CallFunction(h)
    BY <2>2, <2>4, PartHandled DEF CallRefused, NoCallback
  <2>6. Complete(r) /\ Fits(r) /\ callbacks' = <<FunctionCalled(r)>>
    BY <2>5 DEF CallFunction
  <2>7. callbacks'[1].tree = t
    BY <2>6 DEF FunctionCalled
  <2> HIDE DEF t, r
  <2> SUFFICES ASSUME t # UNDEFINED, NEW b \in Bytes(t) PROVE data'[t][b] = h
    BY <2>7
  <2>8. r.id \in Functions /\ t \in Trees \ {UNDEFINED} /\ t \in ArgumentTrees
    BY <2>6 DEF Fits, Callable, ArgumentTrees, t
  <2>9. r.offset + r.size = DataSize[t]
    BY <2>6, <2>8 DEF Complete, ArgumentSize, Callable, t
  <2>10. Calls(h)' /\ Arguments(h)' = t
    BY <2>3, <2>4, <2>8 DEF Calls, Arguments, t
  <2>11. Reached(h)' = DataSize[t]
    <3>1. sent'[h] = sent[h] + 1 /\ sent'[h] # 0
      BY <2>1, <2>3 DEF Send, Working
    <3>2. QED
      BY <2>3, <2>9, <3>1 DEF Reached, Request, r
  <2>12. alone'[h]
    <3>1. Store(h, t, r.offset, r.size)
      BY <2>5, <2>8 DEF CallFunction, t, r
    <3>2. QED
      BY <3>1 DEF Store, Touch
  <2>13. DataSize[t] \in Nat /\ b < DataSize[t]
    BY <2>8, ItemAssumption DEF Bytes, Span
  <2>14. QED
    BY <2>1, <2>10, <2>11, <2>12, <2>13 DEF Held
<1>2. QED
  BY <1>1, TransferInvariant, PTL DEF Spec, CallSeesItsCaller
\* Of the requests to write, only an accepted one is answered with an ACK.
LEMMA OnlyAccepted ==
    ASSUME NEW h \in Hosts, Process(h), Request(h).command \in WriteCommands,
           reply' = [to |-> h, command |-> "WRITE_DATA_ACK"]
    PROVE  AcceptWrite(h)
<1>1. ASSUME NEW c, Reply(h, c) PROVE c = "WRITE_DATA_ACK"
  <2>1. reply'.command = "WRITE_DATA_ACK"
    OBVIOUS
  <2>2. reply'.command = c
    BY <1>1 DEF Reply
  <2>3. QED
    BY <2>1, <2>2
<1>2. ~InvalidCommand(h) /\ ~InvalidTreeId(h) /\ ~BadPath(h) /\ ~OutOfSequence(h)
  <2>1. /\ ~Reply(h, "ERROR_INVALID_COMMAND") /\ ~Reply(h, "ERROR_INVALID_TREE_ID")
        /\ ~Reply(h, "ERROR_INVALID_SYMBOL_PATH") /\ ~Reply(h, "ERROR_INVALID_SEQUENCE")
    BY <1>1
  <2>2. QED
    BY <2>1 DEF InvalidCommand, InvalidTreeId, BadPath, OutOfSequence
<1>3. ~RefuseWrite(h)
  <2>1. ~Reply(h, "ERROR_INVALID_PAYLOAD_OFFSET") /\ ~Reply(h, "ERROR_INVALID_PAYLOAD_SIZE")
    BY <1>1
  <2>2. QED
    BY <2>1 DEF RefuseWrite
<1>4. /\ Request(h).command \notin DOMAIN Answers
      /\ Request(h).command \notin {"READ_DATA", "READ_DESCRIPTOR", "GET_FUNCTION_DETAILS", "CALL_FUNCTION"}
  BY DEF WriteCommands, Answers
<1>5. ~Read(h) /\ ~CallRefused(h) /\ ~CallFunction(h)
  BY <1>4 DEF Read, CallRefused, CallFunction, Handles
<1>6. QED
  BY <1>2, <1>3, <1>5 DEF Process

\* Every packet of a job that writes one item ends no later than the last one.
LEMMA WithinLast ==
    ASSUME NEW j \in Jobs, WriteJob(j), NEW k \in DOMAIN j
    PROVE  /\ j[k] \in Requests /\ j[k].offset \in Nat /\ j[k].size \in Nat
           /\ j[k].offset + j[k].size <= j[Len(j)].offset + j[Len(j)].size
           /\ j[k].command \in WriteCommands
           /\ k = Len(j) => j[k].command = "WRITE_DATA_END"
<1>1. j[k] \in Requests
  BY JobAssumption, JobFacts, ElementOfSeq
<1>2. /\ j[k].offset + j[k].size <= j[Len(j)].offset + j[Len(j)].size
      /\ j[k].command = IF k = Len(j) THEN "WRITE_DATA_END" ELSE "WRITE_DATA"
  BY DEF WriteJob
<1>3. QED
  BY <1>1, <1>2, RequestNumbers DEF WriteCommands

\* What node_post_write is told of a write (364-373) covers all of its packets,
\* though other hosts broke, closed or opened its sequence: for any trees, jobs
\* and hosts whose packets in the sequence named the one element, when its own
\* packets ask for no end beyond an int (363).
THEOREM ReportsCover == Spec => ReportCoversTransfer
<1> DEFINE Written(h) ==
        LET j == job[h]
        IN /\ Handled(h) /\ reply' = [to |-> h, command |-> "WRITE_DATA_ACK"]
           /\ sent'[h] = Len(j) /\ WriteJob(j) /\ NoneWraps(j) /\ places \subseteq {Place(j[1])}
           Covered(h) ==
        LET j == job[h]
            report == callbacks'[Len(callbacks')]
        IN /\ report.name = "post_write" /\ report.node = Place(j[1]).node
           /\ \A k \in DOMAIN j :
                 Span(Place(j[k]).offset + j[k].offset, j[k].size)
                     \subseteq Span(report.offset, report.bytes)
           AllCovered == \A h \in Hosts : Written(h) => Covered(h)
<1>1. TransferInv /\ [Next]_vars => [AllCovered]_vars
  <2> SUFFICES ASSUME TransferInv, Next, NEW h \in Hosts, Written(h) PROVE Covered(h)
    OBVIOUS
  <2> DEFINE r == Request(h)
             j == job[h]
             place == Place(j[1])
             report == PostWrite(r, Place(r).node, SequenceOffset(r), Extent(r))
  <2>1. Working /\ TypeInv /\ StartsAtItsPackets
    BY DEF TransferInv, TypeInv, OwnerInv
  <2>2. Process(h)
    BY <2>1, HandledByServer
  <2>3. j # Idle /\ sent[h] < Len(j)
    BY <2>2, ProcessStores
  <2>4. j \in Jobs /\ sent[h] + 1 \in DOMAIN j /\ r = j[sent[h] + 1] /\ sent[h] + 1 = Len(j)
    BY <2>1, <2>3, InJob DEF Request, Handled
  <2>5. Len(j) \in DOMAIN j /\ r = j[Len(j)]
    BY <2>4
  <2>6. /\ r.command = "WRITE_DATA_END" /\ r.command \in WriteCommands
        /\ r.offset \in Nat /\ r.size \in Nat /\ r \in Requests
    BY <2>4, <2>5, WithinLast
  <2>7. AcceptWrite(h)
    BY <2>2, <2>6, OnlyAccepted
  <2>8. Place(r) = place
    BY <2>4, SameItem
  <2>9. r.id \in Trees /\ r.path \in DOMAIN Item[r.id] /\ Place(r).offset \in Nat
    BY <2>7, ItemAssumption DEF AcceptWrite, Found, Place
  <2>10. SequenceOffset(r) = place.offset
    BY <2>1, <2>8 DEF SequenceOffset, StartsAtItsPackets
  <2>11. Extent(r) >= r.offset + r.size /\ Extent(r) \in Nat
    <3>1. SequenceBytes \in Nat
      <4>1. CASE current_write_node = NULL
        BY <4>1 DEF SequenceBytes
      <4>2. CASE current_write_node # NULL
        <5>1. PICK u \in Trees : \E p \in DOMAIN Item[u] :
                       current_write_node_bytes_written \in 0 .. Item[u][p].room
          BY <2>1, <4>2 DEF TypeInv, InNode
        <5>2. QED
          BY <4>2, <5>1 DEF SequenceBytes
      <4>3. QED
        BY <4>1, <4>2
    <3>2. r.offset + r.size <= IntMax
      BY <2>5 DEF NoneWraps
    <3>3. EndOf(r) = r.offset + r.size /\ r.offset + r.size \in Nat
      BY <2>6, <3>2, RequestNumbers
    <3>4. QED
      BY <2>6, <3>1, <3>3 DEF Extent
  <2>12. callbacks' = Opening(r) \o <<report>>
    BY <2>6, <2>7 DEF AcceptWrite
  <2>13. callbacks'[Len(callbacks')] = report
    <3>1. CASE Opening(r) = <<>>
      BY <2>12, <3>1
    <3>2. CASE Opening(r) = <<PreWrite(r)>>
      BY <2>12, <3>2
    <3>3. QED
      BY <3>1, <3>2 DEF Opening
  <2>14. /\ report.name = "post_write" /\ report.node = place.node
         /\ report.offset = place.offset /\ report.bytes = Extent(r)
    BY <2>8, <2>10 DEF PostWrite
  <2>15. ASSUME NEW k \in DOMAIN j
         PROVE  Span(Place(j[k]).offset + j[k].offset, j[k].size)
                    \subseteq Span(place.offset, Extent(r))
    <3>1. Place(j[k]).offset = place.offset
      BY <2>4, SameItem
    <3>2. /\ j[k].offset \in Nat /\ j[k].size \in Nat
          /\ j[k].offset + j[k].size <= r.offset + r.size
      BY <2>4, <2>5, WithinLast
    <3>3. ASSUME NEW p \in Nat, NEW o \in Nat, NEW n \in Nat, NEW e \in Nat, o + n <= e
          PROVE  Span(p + o, n) \subseteq Span(p, e)
      BY <3>3 DEF Span
    <3>4. place.offset \in Nat /\ j[k].offset + j[k].size <= Extent(r)
      BY <2>6, <2>8, <2>9, <2>11, <3>2
    <3>5. Extent(r) \in Nat
      BY <2>11
    <3> HIDE DEF j, r, place, report
    <3>6. Span(place.offset + j[k].offset, j[k].size) \subseteq Span(place.offset, Extent(r))
      BY ONLY <3>2, <3>3, <3>4, <3>5
    <3>7. QED
      BY ONLY <3>1, <3>6
  <2> HIDE DEF j, r, place, report
  <2>16. QED
    BY <2>13, <2>14, <2>15 DEF j, place
<1>2. QED
  BY <1>1, TransferInvariant, PTL DEF Spec, ReportCoversTransfer
=============================================================================
