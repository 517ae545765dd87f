---------------------------- MODULE KowhaiServer ----------------------------
(***************************************************************************)
(* The kowhai server's handling of requests:                               *)
(* src/teensy/usb_rawhid/kowhai/kowhai_protocol_server.c and the parsing   *)
(* of a request in kowhai_protocol.c. The firmware's only server answers   *)
(* every host process that opens the device: the controllers that          *)
(* user_button.py starts and kills, and tools on a PC. They share          *)
(*                                                                         *)
(*   - one write sequence: the first packet to a node opens it (and        *)
(*     node_pre_write is called), KOW_CMD_WRITE_DATA_END closes it (and    *)
(*     node_post_write is called), and a packet to another node is         *)
(*     refused;                                                            *)
(*   - the tree a function takes its arguments from, which a call may fill *)
(*     in several packets.                                                 *)
(*                                                                         *)
(* A host does a job, a sequence of requests, without reading the replies  *)
(* (controller.py never reads) and may be killed between two of them. One  *)
(* action is one call of kowhai_server_process_packet. The walk over a     *)
(* descriptor is KowhaiTree's and the cutting of a reply into packets      *)
(* KowhaiReply's; here a found path is an item with its node, the offset   *)
(* of its element and the node's size. A byte of a tree is the host that   *)
(* wrote it last.                                                          *)
(***************************************************************************)
EXTENDS AvrInt, Sequences

CONSTANTS
    Hosts,          \* the processes that talk to the device
    MayDie,         \* those that may be killed in the middle of a job
    Jobs,           \* the sequences of requests they send
    Ids, Paths,     \* the tree and function ids and the symbol paths in them
    PacketSize,     \* max_packet_size
    Item,           \* for every tree in the list, the paths it has and what they lead to
    DataSize,       \* for every tree in the list, the bytes of its data
    NoData,         \* the trees in the list whose data pointer is NULL
    TreeIn,         \* for every function in the list, the tree of its arguments
    Fails,          \* the functions whose callback returns 0
    UNDEFINED,      \* KOW_UNDEFINED_SYMBOL
    NULL, Nobody, Idle

Trees == DOMAIN Item
Functions == DOMAIN TreeIn
ArgumentTrees == {TreeIn[f] : f \in Functions} \cap Trees
WriteCommands == {"WRITE_DATA", "WRITE_DATA_END"}
\* requests that change nothing here, with the last packet of the answer
Answers == [GET_VERSION |-> "GET_VERSION_ACK", GET_TREE_LIST |-> "GET_TREE_LIST_ACK_END",
            GET_FUNCTION_LIST |-> "GET_FUNCTION_LIST_ACK_END",
            GET_SYMBOL_LIST |-> "GET_SYMBOL_LIST_ACK_END"]
Commands == WriteCommands \cup DOMAIN Answers
            \cup {"READ_DATA", "READ_DESCRIPTOR", "GET_FUNCTION_DETAILS", "CALL_FUNCTION", "other"}

Span(from, size) == from .. (from + size - 1)
Bytes(t) == Span(0, DataSize[t])

ASSUME HostAssumption ==
    /\ MayDie \subseteq Hosts
    /\ Nobody \notin Hosts
ASSUME PacketSizeAssumption == PacketSize \in 0..IntMax
\* a tree's data is in memory, whose 8 KB an int can count
ASSUME ItemAssumption ==
    \A t \in Trees :
        /\ DataSize[t] \in 0..IntMax
        /\ \A p \in DOMAIN Item[t] :
              /\ Item[t][p].node # NULL
              /\ Item[t][p].offset \in Nat
              /\ Item[t][p].room \in Nat
              /\ Item[t][p].offset + Item[t][p].room <= DataSize[t]
\* kowhai_get_node_size is of the whole array, whichever element is named.
ASSUME RoomAssumption ==
    \A t, u \in Trees : \A p \in DOMAIN Item[t], q \in DOMAIN Item[u] :
        Item[t][p].node = Item[u][q].node => Item[t][p].room = Item[u][q].room
\* A tree without data is an event's: nobody writes to it.
Requests == [command : Commands, id : Ids, path : Paths, offset : UInt16, size : UInt16]
ASSUME JobAssumption ==
    /\ Idle \notin Jobs
    /\ \A j \in Jobs :
          /\ j \in Seq(Requests) /\ j # <<>>
          /\ \A k \in DOMAIN j :
                /\ j[k].command \in WriteCommands => j[k].id \notin NoData
                /\ j[k].command = "CALL_FUNCTION" /\ j[k].id \in Functions =>
                       TreeIn[j[k].id] \notin NoData

VARIABLES
    current_write_node,                 \* the node of the open write sequence, or NULL
    current_write_node_offset,
    current_write_node_bytes_written,
    data,           \* for every tree of arguments, who wrote each of its bytes last
    reply,          \* the last packet this step sent: to whom, and its command
    callbacks,      \* the callbacks this step made, in order
    job,            \* what each host is doing
    sent,           \* how many of its job's requests the server has had
    writers,        \* the hosts with accepted packets in the open sequence, Nobody for a killed one
    places,         \* the places those packets named
    alone           \* no other host has written to the tree of this host's job since it began

server == <<current_write_node, current_write_node_offset, current_write_node_bytes_written>>
history == <<writers, places>>
vars == <<server, data, reply, callbacks, job, sent, history, alone>>

-----------------------------------------------------------------------------
\* kowhai_protocol_parse: the bytes of a request beyond its data
SpecSize(r) ==
    3 + CASE r.command \in WriteCommands -> 1 + 4 * Len(r.path) + 6
          [] r.command = "READ_DATA"     -> 1 + 4 * Len(r.path)
          [] r.command = "CALL_FUNCTION" -> 4
          [] OTHER                       -> 0
Parses(r) ==
    SpecSize(r) + (IF r.command \in WriteCommands \cup {"CALL_FUNCTION"} THEN r.size ELSE 0)
        <= PacketSize

\* kowhai_get_node on the tree the request names
Found(r) == r.path \in DOMAIN Item[r.id]
Place(r) == Item[r.id][r.path]

\* the request host h sends next
Request(h) == job[h][sent[h] + 1]

Send(h) == sent' = [sent EXCEPT ![h] = @ + 1]
Reply(h, command) == reply' = [to |-> h, command |-> command]
PreWrite(r) == [name |-> "pre_write", tree |-> r.id, node |-> Place(r).node,
                offset |-> Place(r).offset, bytes |-> 0]
PostWrite(r, node, offset, bytes) ==
    [name |-> "post_write", tree |-> r.id, node |-> node, offset |-> offset, bytes |-> bytes]
FunctionCalled(r) ==
    [name |-> "function_called", tree |-> TreeIn[r.id], node |-> NULL, offset |-> 0, bytes |-> 0]

\* hosts other than h whose job uses a tree that h has just written to
JobTree(r) == IF r.command = "CALL_FUNCTION"
              THEN IF r.id \in Functions THEN TreeIn[r.id] ELSE UNDEFINED
              ELSE r.id
Touch(h, t) ==
    alone' = [g \in Hosts |->
                 alone[g] /\ (g = h \/ job[g] = Idle
                              \/ \A k \in DOMAIN job[g] : JobTree(job[g][k]) # t)]
\* h's bytes go to the tree t. Those past its data do not go anywhere: an
\* offset that kowhai_write's check takes for one in the item is nearly 32 KB
\* beyond it, where the at90usb1286 has no memory.
Store(h, t, from, size) ==
    /\ data' = IF t \in ArgumentTrees
               THEN [data EXCEPT ![t] = [b \in Bytes(t) |-> IF b \in Span(from, size) THEN h ELSE @[b]]]
               ELSE data
    /\ Touch(h, t)

NothingStored == UNCHANGED <<data, alone>>
NoCallback == callbacks' = <<>>
NoReply == [to |-> Nobody, command |-> "none"]

-----------------------------------------------------------------------------
(***************************************************************************)
(* Requests that are refused before the server's state matters, and those  *)
(* that only read it.                                                      *)
(***************************************************************************)

Handles(h, commands) ==
    /\ job[h] # Idle
    /\ sent[h] < Len(job[h])
    /\ Request(h).command \in commands
    /\ Parses(Request(h))
    /\ Send(h)
    /\ UNCHANGED job

\* kowhai_protocol_parse fails, or the default case of the switch
InvalidCommand(h) ==
    /\ job[h] # Idle
    /\ sent[h] < Len(job[h])
    /\ ~Parses(Request(h)) \/ Request(h).command = "other"
    /\ Send(h)
    /\ Reply(h, "ERROR_INVALID_COMMAND")
    /\ NothingStored /\ NoCallback
    /\ UNCHANGED <<server, job, history>>

\* _check_tree_id fails: the sequence, if one is open, stays open
InvalidTreeId(h) ==
    /\ Handles(h, WriteCommands \cup {"READ_DATA", "READ_DESCRIPTOR"})
    /\ Request(h).id \notin Trees
    /\ Reply(h, "ERROR_INVALID_TREE_ID")
    /\ NothingStored /\ NoCallback
    /\ UNCHANGED <<server, history>>

Read(h) ==
    /\ \/ /\ Handles(h, DOMAIN Answers)
          /\ Reply(h, Answers[Request(h).command])
       \/ /\ Handles(h, {"READ_DATA"})
          /\ Request(h).id \in Trees
          /\ Reply(h, IF Request(h).id \in NoData THEN "ERROR_NO_DATA"
                      ELSE IF Found(Request(h)) THEN "READ_DATA_ACK_END"
                      ELSE "ERROR_INVALID_SYMBOL_PATH")
       \/ /\ Handles(h, {"READ_DESCRIPTOR"})
          /\ Request(h).id \in Trees
          /\ Reply(h, "READ_DESCRIPTOR_ACK_END")
       \/ /\ Handles(h, {"GET_FUNCTION_DETAILS"})
          /\ Reply(h, IF Request(h).id \in Functions THEN "GET_FUNCTION_DETAILS_ACK"
                      ELSE "ERROR_INVALID_FUNCTION_ID")
    /\ NothingStored /\ NoCallback
    /\ UNCHANGED <<server, history>>

-----------------------------------------------------------------------------
(***************************************************************************)
(* KOW_CMD_WRITE_DATA and KOW_CMD_WRITE_DATA_END                           *)
(***************************************************************************)

NoSequence ==
    /\ current_write_node' = NULL
    /\ UNCHANGED <<current_write_node_offset, current_write_node_bytes_written>>
Forgotten == writers' = {} /\ places' = {}

BadPath(h) ==
    /\ Handles(h, WriteCommands)
    /\ Request(h).id \in Trees
    /\ ~Found(Request(h))
    /\ NoSequence /\ Forgotten
    /\ Reply(h, "ERROR_INVALID_SYMBOL_PATH")
    /\ NothingStored /\ NoCallback

BugInSequence(r) == current_write_node = NULL \* mutant: every later packet is refused
InSequence(r) == current_write_node \in {NULL, Place(r).node}
BugOutOfSequence(h) == \* mutant: the open sequence stays open
    /\ Handles(h, WriteCommands)
    /\ Request(h).id \in Trees /\ Found(Request(h)) /\ ~InSequence(Request(h))
    /\ Reply(h, "ERROR_INVALID_SEQUENCE")
    /\ NothingStored /\ NoCallback
    /\ UNCHANGED <<server, history>>
OutOfSequence(h) ==
    LET r == Request(h)
    IN /\ Handles(h, WriteCommands)
       /\ r.id \in Trees /\ Found(r) /\ ~InSequence(r)
       /\ NoSequence /\ Forgotten
       /\ Reply(h, "ERROR_INVALID_SEQUENCE")
       /\ NothingStored /\ NoCallback

\* The sequence the packet is part of: the open one, or a new one.
SequenceOffset(r) ==
    IF current_write_node = NULL THEN Place(r).offset ELSE current_write_node_offset
SequenceBytes ==
    IF current_write_node = NULL THEN 0 ELSE current_write_node_bytes_written
Opening(r) == IF current_write_node = NULL THEN <<PreWrite(r)>> ELSE <<>>

\* Where a packet's data ends, as the int that kowhai_write compares and that
\* bytes_written becomes: negative when the host's offset is just below 32768.
EndOf(r) == Int16(r.offset + r.size)

\* mutant: the size checked alone
BugInRoom(r) == Int16(r.offset) >= 0 /\ r.size <= Place(r).room
\* the checks of kowhai_write, which takes the offset as an int
InRoom(r) == Int16(r.offset) >= 0 /\ EndOf(r) <= Place(r).room

\* kowhai_write refuses the packet: a sequence it opened is given up too
RefuseWrite(h) ==
    LET r == Request(h)
    IN /\ Handles(h, WriteCommands)
       /\ r.id \in Trees /\ Found(r) /\ InSequence(r)
       /\ ~InRoom(r)
       /\ current_write_node' = NULL
       /\ current_write_node_offset' = SequenceOffset(r)
       /\ current_write_node_bytes_written' = SequenceBytes
       /\ Forgotten
       /\ callbacks' = Opening(r)
       /\ Reply(h, IF Int16(r.offset) < 0 THEN "ERROR_INVALID_PAYLOAD_OFFSET"
                   ELSE "ERROR_INVALID_PAYLOAD_SIZE")
       /\ NothingStored

\* mutant: the report ends at the last packet's size
BugExtent(r) == IF r.size > SequenceBytes THEN r.size ELSE SequenceBytes
\* current_write_node_bytes_written with this packet
Extent(r) == IF EndOf(r) > SequenceBytes THEN EndOf(r) ELSE SequenceBytes

BugAfterWrite(r) == Place(r).node \* mutant: the end does not close the sequence
AfterWrite(r) == IF r.command = "WRITE_DATA_END" THEN NULL ELSE Place(r).node

AcceptWrite(h) ==
    LET r == Request(h)
        last == r.command = "WRITE_DATA_END"
    IN /\ Handles(h, WriteCommands)
       /\ r.id \in Trees /\ Found(r) /\ InSequence(r)
       /\ InRoom(r)
       /\ Store(h, r.id, Place(r).offset + r.offset, r.size)
       /\ current_write_node' = AfterWrite(r)
       /\ current_write_node_offset' = SequenceOffset(r)
       /\ current_write_node_bytes_written' = Extent(r)
       /\ callbacks' = Opening(r) \o
              IF last THEN <<PostWrite(r, Place(r).node, SequenceOffset(r), Extent(r))>> ELSE <<>>
       /\ writers' = IF last THEN {} ELSE writers \cup {h}
       /\ places' = IF last THEN {} ELSE places \cup {Place(r)}
       /\ Reply(h, "WRITE_DATA_ACK")

-----------------------------------------------------------------------------
(***************************************************************************)
(* KOW_CMD_CALL_FUNCTION                                                   *)
(***************************************************************************)

Callable(f) == f \in Functions /\ TreeIn[f] \in Trees \cup {UNDEFINED}
ArgumentSize(f) ==
    IF Callable(f) /\ TreeIn[f] # UNDEFINED THEN DataSize[TreeIn[f]] ELSE 0
\* Two checks: an offset within the arguments, and with it an end, which so is
\* of numbers too small to wrap.
Fits(r) == Callable(r.id) /\ r.offset + r.size <= ArgumentSize(r.id)

CallRefused(h) ==
    LET r == Request(h)
    IN /\ Handles(h, {"CALL_FUNCTION"})
       /\ ~Fits(r)
       /\ Reply(h, IF r.id \notin Functions THEN "ERROR_INVALID_FUNCTION_ID"
                   ELSE IF ~Callable(r.id) THEN "ERROR_INVALID_TREE_ID"
                   ELSE IF r.offset > ArgumentSize(r.id) THEN "ERROR_INVALID_PAYLOAD_OFFSET"
                   ELSE "ERROR_INVALID_PAYLOAD_SIZE")
       /\ NothingStored /\ NoCallback
       /\ UNCHANGED <<server, history>>

BugComplete(r) == r.size > 0 \* mutant: any part of the arguments makes the call
\* all the arguments are there once their last byte is
Complete(r) == r.offset + r.size = ArgumentSize(r.id)

CallFunction(h) ==
    LET r == Request(h)
    IN /\ Handles(h, {"CALL_FUNCTION"})
       /\ Fits(r)
       /\ IF TreeIn[r.id] = UNDEFINED THEN NothingStored
          ELSE Store(h, TreeIn[r.id], r.offset, r.size)
       /\ callbacks' = IF Complete(r) THEN <<FunctionCalled(r)>> ELSE <<>>
       /\ Reply(h, IF ~Complete(r) THEN "CALL_FUNCTION_ACK"
                   ELSE IF r.id \in Fails THEN "CALL_FUNCTION_FAILED"
                   ELSE "CALL_FUNCTION_RESULT_END")
       /\ UNCHANGED <<server, history>>

-----------------------------------------------------------------------------
(***************************************************************************)
(* The host processes                                                      *)
(***************************************************************************)

Quiet == NoCallback /\ reply' = NoReply

Start(h, j) ==
    /\ job[h] = Idle
    /\ job' = [job EXCEPT ![h] = j]
    /\ UNCHANGED <<server, data, sent, history, alone>>
    /\ Quiet

\* a sequence h leaves open has Nobody among its writers
Leave(h) == writers' = IF h \in writers THEN (writers \ {h}) \cup {Nobody} ELSE writers

Stop(h) ==
    /\ job' = [job EXCEPT ![h] = Idle]
    /\ sent' = [sent EXCEPT ![h] = 0]
    /\ alone' = [alone EXCEPT ![h] = TRUE]
    /\ Leave(h)
    /\ Quiet
    /\ UNCHANGED <<server, data, places>>

End(h) ==
    /\ job[h] # Idle
    /\ sent[h] = Len(job[h])
    /\ Stop(h)

\* kill_controller (user_button.py), or a tool that is stopped
Kill(h) ==
    /\ h \in MayDie
    /\ job[h] # Idle
    /\ Stop(h)

Init ==
    /\ current_write_node = NULL
    /\ current_write_node_offset = 0
    /\ current_write_node_bytes_written = 0
    /\ data = [t \in ArgumentTrees |-> [b \in Bytes(t) |-> Nobody]]
    /\ reply = NoReply
    /\ callbacks = <<>>
    /\ job = [h \in Hosts |-> Idle]
    /\ sent = [h \in Hosts |-> 0]
    /\ writers = {} /\ places = {}
    /\ alone = [h \in Hosts |-> TRUE]

Process(h) ==
    \/ InvalidCommand(h) \/ InvalidTreeId(h) \/ Read(h)
    \/ BadPath(h) \/ OutOfSequence(h) \/ RefuseWrite(h) \/ AcceptWrite(h)
    \/ CallRefused(h) \/ CallFunction(h)

Next == \E h \in Hosts : Process(h) \/ End(h) \/ Kill(h) \/ \E j \in Jobs : Start(h, j)

Spec == Init /\ [][Next]_vars

\* Every host's requests are delivered and the main loop handles them.
FairSpec == Spec /\ \A h \in Hosts : WF_vars(Process(h)) /\ WF_vars(End(h))
-----------------------------------------------------------------------------
(***************************************************************************)
(* Properties                                                              *)
(***************************************************************************)

\* The variables have their types, and what the server would report of the
\* open sequence starts at an element of its node and is no longer than the
\* node.
TypeOK ==
    /\ current_write_node # NULL =>
           \E t \in Trees : \E p \in DOMAIN Item[t] :
               /\ Item[t][p].node = current_write_node
               /\ Item[t][p].offset = current_write_node_offset
               /\ current_write_node_bytes_written \in 0 .. Item[t][p].room
    /\ \A t \in ArgumentTrees : data[t] \in [Bytes(t) -> Hosts \cup {Nobody}]
    /\ job \in [Hosts -> Jobs \cup {Idle}]
    /\ sent \in [Hosts -> Nat]
    /\ \A h \in Hosts : job[h] # Idle => sent[h] <= Len(job[h])
    /\ writers \subseteq Hosts \cup {Nobody}
    /\ alone \in [Hosts -> BOOLEAN]

Handled(h) == sent'[h] = sent[h] + 1

\* a job that writes one item of a tree in packets, each within its size, of
\* which the last reaches furthest
WriteJob(j) ==
    LET end == Len(j)
    IN \A k \in DOMAIN j :
          /\ Parses(j[k]) /\ j[k].id \in Trees
          /\ j[k].command = IF k = end THEN "WRITE_DATA_END" ELSE "WRITE_DATA"
          /\ j[k].id = j[1].id /\ j[k].path = j[1].path
          /\ j[k].offset + j[k].size <= j[end].offset + j[end].size
\* none of its packets asks for an end that an int cannot hold
NoneWraps(j) == \A k \in DOMAIN j : j[k].offset + j[k].size <= IntMax

\* When the last packet of a host's write is accepted, the report to
\* node_post_write covers every byte of all its packets, even those before
\* which another host broke the sequence (382) or closed it (371) and even
\* if the sequence was opened by another host, as long as all packets of
\* the sequence named the same element and the host's own ends do not wrap;
\* those of others may.
ReportCoversTransfer ==
    [][\A h \in Hosts :
          LET j == job[h]
          IN /\ Handled(h) /\ reply' = [to |-> h, command |-> "WRITE_DATA_ACK"]
             /\ sent'[h] = Len(j) /\ WriteJob(j) /\ NoneWraps(j) /\ places \subseteq {Place(j[1])}
             => LET report == callbacks'[Len(callbacks')]
                IN /\ report.name = "post_write" /\ report.node = Place(j[1]).node
                   /\ \A k \in DOMAIN j :
                         Span(Place(j[k]).offset + j[k].offset, j[k].size)
                             \subseteq Span(report.offset, report.bytes)]_vars

\* A sequence is open only while a host that has had a packet of it accepted
\* has more of its job to send, or after one was killed or gave up.
SequenceHasAnOwner ==
    current_write_node # NULL =>
        /\ writers # {}
        /\ \A h \in writers \ {Nobody} : job[h] # Idle /\ sent[h] > 0

\* A host that writes one item is refused as out of sequence only because of
\* someone else: another host in the open sequence, or one that left it open.
RefusedByAnother ==
    [][\A h \in Hosts :
          /\ Handled(h) /\ WriteJob(job[h])
          /\ reply' = [to |-> h, command |-> "ERROR_INVALID_SEQUENCE"]
          => writers \ {h} # {}]_vars

\* a job that calls one function, its arguments in consecutive parts, each
\* within its packet
CallJob(j) ==
    /\ j[1].offset = 0
    /\ \A k \in DOMAIN j : j[k].command = "CALL_FUNCTION" /\ j[k].id = j[1].id /\ Parses(j[k])
    /\ \A k \in 1..(Len(j) - 1) : j[k + 1].offset = j[k].offset + j[k].size

\* A function is called with the arguments of the host whose packet
\* completed them (554-565), unless another host has written to their tree
\* since that host's job began.
CallSeesItsCaller ==
    [][\A h \in Hosts :
          /\ Handled(h) /\ CallJob(job[h]) /\ alone[h]
          /\ callbacks' # <<>> /\ callbacks'[1].name = "function_called"
          => LET t == callbacks'[1].tree
             IN t # UNDEFINED => \A b \in Bytes(t) : data'[t][b] = h]_vars

\* However many hosts were killed or gave up in the middle of a write: once
\* those that remain only write whole items, and go on writing, the sequence
\* that was left open is given up (381-382) and every later one is closed.
SequencesClose ==
    /\ <>[][\A h \in Hosts : job'[h] = Idle => job[h] = Idle \/ sent[h] = Len(job[h])]_vars
    /\ <>[](\A h \in Hosts : job[h] = Idle \/ WriteJob(job[h]))
    /\ []<><<\E h \in Hosts : Handled(h)>>_vars
    => []<>(current_write_node = NULL)
=============================================================================
