----------------------------- MODULE KowhaiTree -----------------------------
(***************************************************************************)
(* The kowhai tree of the Teensy firmware: src/teensy/usb_rawhid/kowhai/   *)
(* kowhai.c. A tree is a flat descriptor, in which a branch is bracketed   *)
(* by a "start" (or "ustart", a union) and an "end" node, and a block of   *)
(* data it describes. One behaviour is one call of the library's API on    *)
(* one descriptor: the walk over the descriptor that finds a symbol path,  *)
(* and the bytes the call then reads or writes.                            *)
(*                                                                         *)
(* The sizes, the node counts and the offsets are computed as the code     *)
(* computes them, by walking forward and skipping nodes. What they should  *)
(* be is defined separately below (LastOf, Kids, Around, Skipped), from    *)
(* how the brackets nest, without a walk.                                  *)
(***************************************************************************)
EXTENDS AvrInt, Sequences, FiniteSets, FiniteSetsExt, Functions

CONSTANTS
    Descriptors, \* the descriptors that are walked
    Paths,      \* the symbol paths asked for
    Offsets,    \* the offsets into an item a caller passes
    Sizes       \* the numbers of bytes a caller passes

VARIABLES
    desc,       \* the descriptor of the tree that is used
    call,       \* the call made: its name and arguments
    status,     \* its result: "none" before the call
    bytes       \* the bytes of the tree's data it read or wrote

vars == <<desc, call, status, bytes>>

Branches == {"start", "ustart"}
Types == Branches \cup {"end", "int8", "uint8", "char", "int16", "uint16",
                        "int32", "uint32", "float"}

\* kowhai_get_node_type_size
TypeSize ==
    [type \in Types |-> CASE type \in Branches \cup {"end"}          -> 0
                          [] type \in {"int8", "uint8", "char"}     -> 1
                          [] type \in {"int16", "uint16"}           -> 2
                          [] type \in {"int32", "uint32", "float"}  -> 4]

\* The brackets open after the first i nodes: the counter c in the loop of
\* kowhai_server_init_tree_descriptor_sizes.
Depth(d, i) ==
    Cardinality({j \in 1..i : d[j].type \in Branches})
        - Cardinality({j \in 1..i : d[j].type = "end"})

\* A descriptor is one node, or one branch up to the end that closes it.
\* "number of elements in the array (otherwise 1)" (kowhai.h:42) is never 0; the
\* count of an end means nothing.
WellFormed(d) ==
    /\ d \in Seq([type : Types, symbol : Nat, count : Nat]) /\ d # <<>>
    /\ \A i \in 1 .. Len(d) - 1 : Depth(d, i) > 0
    /\ Depth(d, Len(d)) = 0
    /\ \A i \in DOMAIN d : d[i].type # "end" => d[i].count > 0

ASSUME DescriptorsAssumption == \A d \in Descriptors : WellFormed(d)
ASSUME CallsAssumption ==
    /\ Paths \subseteq Seq([name : Nat, index : Nat]) \ {<<>>}
    /\ Offsets \subseteq -(IntMax + 1) .. IntMax
    /\ Sizes \subseteq 0..IntMax

-----------------------------------------------------------------------------
(***************************************************************************)
(* The walks over a descriptor. d is the descriptor, i the position of a   *)
(* node in it.                                                             *)
(***************************************************************************)

Positions == Nat \ {0}

\* a walk along siblings stops here; it would leave the descriptor only if
\* the branch were not closed
Closes(d, i) == i > Len(d) \/ d[i].type = "end"

\* The size of the node at i with all its elements, and its last node. walk
\* gives what the siblings from a position on come to.
BugNodeAt(d, walk, i) == \* mutant: a union's children are added up
    IF d[i].type \in Branches
    THEN [size |-> walk[i + 1].sum * d[i].count, last |-> walk[i + 1].last]
    ELSE [size |-> TypeSize[d[i].type] * d[i].count, last |-> i]
NodeAt(d, walk, i) ==
    IF d[i].type \in Branches
    THEN [size |-> (IF d[i].type = "start" THEN walk[i + 1].sum ELSE walk[i + 1].most)
                       * d[i].count,
          last |-> walk[i + 1].last]
    ELSE [size |-> TypeSize[d[i].type] * d[i].count, last |-> i]

\* get_node_size's loop over a branch's children, from the one at i to the
\* end: their sizes' sum, the largest of them, and where the end is.
Siblings(d) ==
    LET walk[i \in Positions] ==
            IF Closes(d, i) THEN [sum |-> 0, most |-> 0, last |-> i]
            ELSE LET node == NodeAt(d, walk, i)
                     rest == walk[node.last + 1]
                 IN [sum  |-> node.size + rest.sum,
                     most |-> IF node.size > rest.most THEN node.size ELSE rest.most,
                     last |-> rest.last]
    IN walk

\* get_node_size: the size, and how many nodes after i were walked to find it
NodeSize(d, i) ==
    LET node == NodeAt(d, Siblings(d), i) IN [size |-> node.size, nodes |-> node.last - i]

\* The sizes are ints too. All the data of one tree is in the memory of the
\* controller, 8 KB of it, so none of them wraps: that of the root is the largest.
ASSUME SizeAssumption == \A d \in Descriptors : NodeSize(d, 1).size <= IntMax

\* kowhai_get_node_count
NodeCount(d) == NodeSize(d, 1).nodes + 1

\* kowhai_server_init_tree_descriptor_sizes: how many nodes the server takes
\* the descriptor at the front of d to have
ServerNodeCount(d) == Min({i \in DOMAIN d : Depth(d, i) <= 0})

NotFound == [found |-> FALSE, node |-> 0, offset |-> 0]
Hit(node, offset) == [found |-> TRUE, node |-> node, offset |-> offset]

\* the node at i may be the one this part of a path names
Matches(d, i, part) == d[i].symbol = part.name /\ d[i].count > part.index

\* where an element of the node at i begins, from the node's own start
ElementOffset(d, i, index) == (NodeSize(d, i).size \div d[i].count) * index

\* The arguments of get_node that its calls change: the position it starts
\* at, the part of the path it looks for, and whether the siblings are a union.
Searches == [at : Positions, part : Positions, union : BOOLEAN]
From(i, p, union) == [at |-> i, part |-> p, union |-> union]

\* What the path from its p-th part on names at the node at i: the node, or
\* what get finds among its children.
Under(d, path, get, i, p) ==
    LET inner == get[From(i + 1, p + 1, d[i].type = "ustart")]
        index == path[p].index
    IN IF ~Matches(d, i, path[p]) THEN NotFound
       ELSE IF p = Len(path)
       THEN Hit(i, ElementOffset(d, i, index))
       ELSE IF d[i].type \in Branches /\ inner.found
       THEN Hit(inner.node, inner.offset + ElementOffset(d, i, index))
       ELSE NotFound

\* get_node: walk the siblings for the first one under which the whole path
\* is found. A branch that matches but does not hold the rest of the path is
\* passed over; the siblings of a union share one offset.
BugGetNode(d, path) == \* mutant: the first branch that matches decides
    LET get[s \in Searches] ==
            IF Closes(d, s.at) THEN NotFound
            ELSE LET here == Under(d, path, get, s.at, s.part)
                     skip == NodeSize(d, s.at)
                     rest == get[From(s.at + skip.nodes + 1, s.part, s.union)]
                 IN IF here.found \/ Matches(d, s.at, path[s.part]) THEN here
                    ELSE IF rest.found
                    THEN Hit(rest.node, rest.offset + IF s.union THEN 0 ELSE skip.size)
                    ELSE NotFound
    IN get
GetNode(d, path) ==
    LET get[s \in Searches] ==
            IF Closes(d, s.at) THEN NotFound
            ELSE LET here == Under(d, path, get, s.at, s.part)
                     skip == NodeSize(d, s.at)
                     rest == get[From(s.at + skip.nodes + 1, s.part, s.union)]
                 IN IF here.found THEN here
                    ELSE IF rest.found
                    THEN Hit(rest.node, rest.offset + IF s.union THEN 0 ELSE skip.size)
                    ELSE NotFound
    IN get

\* kowhai_get_node: get_node with initial_branch set looks at the root only
Find(d, path) == Under(d, path, GetNode(d, path), 1, 1)
FindStatus(d, path) ==
    IF d[1].type # "start" THEN "INVALID_DESCRIPTOR"
    ELSE IF ~Find(d, path).found THEN "INVALID_SYMBOL_PATH" ELSE "OK"

-----------------------------------------------------------------------------
(***************************************************************************)
(* The API                                                                 *)
(***************************************************************************)

Span(from, size) == from .. (from + size - 1)
Access(name, path, offset, size) ==
    [name |-> name, path |-> path, offset |-> offset, size |-> size]

\* mutant: the size checked without the offset
BugAccessStatus(d, path, offset, size) ==
    IF FindStatus(d, path) # "OK" THEN FindStatus(d, path)
    ELSE IF offset < 0 THEN "INVALID_OFFSET"
    ELSE IF size > NodeSize(d, Find(d, path).node).size THEN "NODE_DATA_TOO_SMALL" ELSE "OK"

\* kowhai_read and kowhai_write: the check against the node's size counts
\* from the offset asked for, whatever array element the path names, and the
\* end it compares is an int, negative when the sum of both is too large.
AccessStatus(d, path, offset, size) ==
    IF FindStatus(d, path) # "OK" THEN FindStatus(d, path)
    ELSE IF offset < 0 THEN "INVALID_OFFSET"
    ELSE IF Int16(size + offset) > NodeSize(d, Find(d, path).node).size
    THEN "NODE_DATA_TOO_SMALL" ELSE "OK"

ReadOrWrite(name, path, offset, size) ==
    /\ status = "none"
    /\ call' = Access(name, path, offset, size)
    /\ status' = AccessStatus(desc, path, offset, size)
    /\ bytes' = IF status' = "OK" THEN Span(Find(desc, path).offset + offset, size) ELSE {}
    /\ UNCHANGED desc

\* kowhai_get_int8 .. kowhai_set_float: the types each pair of calls accepts
Accepts == [int8 |-> {"int8", "uint8"}, char |-> {"char"}, int16 |-> {"int16", "uint16"},
            int32 |-> {"int32", "uint32"}, float |-> {"float"}]

\* a typed get or set of the element the path names
GetOrSet(type, path) ==
    LET found == Find(desc, path)
    IN /\ status = "none"
       /\ call' = Access(type, path, 0, TypeSize[type])
       /\ status' = IF FindStatus(desc, path) # "OK" THEN FindStatus(desc, path)
                    ELSE IF desc[found.node].type \notin Accepts[type] THEN "INVALID_NODE_TYPE"
                    ELSE "OK"
       /\ bytes' = IF status' = "OK" THEN Span(found.offset, TypeSize[type]) ELSE {}
       /\ UNCHANGED desc

Init ==
    /\ desc \in Descriptors
    /\ call = Access("none", <<>>, 0, 0)
    /\ status = "none"
    /\ bytes = {}

Next ==
    \/ \E path \in Paths, name \in {"read", "write"}, offset \in Offsets, size \in Sizes :
          ReadOrWrite(name, path, offset, size)
    \/ \E path \in Paths, type \in DOMAIN Accepts : GetOrSet(type, path)

Spec == Init /\ [][Next]_vars
-----------------------------------------------------------------------------
(***************************************************************************)
(* What a descriptor describes. Brackets say which nodes belong to which:  *)
(* a node lasts until the bracket it opens is closed.                      *)
(***************************************************************************)

Nodes(d) == {k \in DOMAIN d : d[k].type # "end"}

\* the last position of each node: the end of a branch, the node itself otherwise
LastOf == [d \in Descriptors |-> [k \in Nodes(d) |->
            Min({j \in k..Len(d) : Depth(d, j) <= Depth(d, k - 1)})]]

\* the children of each node
Kids == [d \in Descriptors |-> [k \in Nodes(d) |->
            {i \in Nodes(d) : /\ k < i /\ i <= LastOf[d][k]
                              /\ Depth(d, i - 1) = Depth(d, k)}]]

\* each node and the branches it is in
Around == [d \in Descriptors |-> [k \in Nodes(d) |->
            {a \in Nodes(d) : a <= k /\ k <= LastOf[d][a]}]]

\* the nodes whose data lies before a node's: the siblings before it, and
\* before each branch it is in, except in a union
Skipped == [d \in Descriptors |-> [k \in Nodes(d) |->
            {j \in Nodes(d) : /\ LastOf[d][j] < k
                              /\ \E b \in Around[d][k] : d[b].type = "start" /\ j \in Kids[d][b]}]]

\* the bytes of each node, and of one element of the node at k
Bytes(d) == [k \in Nodes(d) |-> NodeSize(d, k).size]
ElementBytes(d, k) ==
    CASE d[k].type = "start"  -> SumFunctionOnSet(Bytes(d), Kids[d][k])
      [] d[k].type = "ustart" -> Max({0} \cup {Bytes(d)[i] : i \in Kids[d][k]})
      [] OTHER                -> TypeSize[d[k].type]

\* the part of a path for the node at a, one of those around its item, and
\* whether that part names it
Part(d, path, a) == path[Depth(d, a - 1) + 1]
Names(d, path, a) ==
    d[a].symbol = Part(d, path, a).name /\ Part(d, path, a).index < d[a].count

\* the nodes of the descriptor that a path names, and the one it means
Named(d, path) ==
    {k \in Nodes(d) : /\ Depth(d, k - 1) = Len(path) - 1
                      /\ \A a \in Around[d][k] : Names(d, path, a)}
Target(d, path) == Min(Named(d, path))

\* Where the item at k that a path names begins: after the nodes skipped and,
\* for it and each branch it is in, after the elements before the index.
IndexBytes(d, path) == [a \in Nodes(d) |-> ElementBytes(d, a) * Part(d, path, a).index]
ItemStart(d, k, path) ==
    SumFunctionOnSet(Bytes(d), Skipped[d][k])
        + SumFunctionOnSet(IndexBytes(d, path), Around[d][k])

\* where the array of which it is an element begins
NodeStart(d, k, path) ==
    ItemStart(d, k, path) - IndexBytes(d, path)[k]

Called == status # "none"
Typed  == call.name \in DOMAIN Accepts
Item   == Target(desc, call.path)

-----------------------------------------------------------------------------
(***************************************************************************)
(* Properties                                                              *)
(***************************************************************************)

\* The walks agree with the brackets and with one another: every node's walk
\* ends at its last node, the server's own count of brackets ends where
\* get_node_size's does, and a node's size is that of its elements, one
\* element's the sum of its children's sizes, or the largest in a union.
WalksAgree ==
    ~Called =>
        /\ NodeCount(desc) = Len(desc)
        /\ ServerNodeCount(desc) = Len(desc)
        /\ \A k \in Nodes(desc) :
              /\ k + NodeSize(desc, k).nodes = LastOf[desc][k]
              /\ Bytes(desc)[k] = desc[k].count * ElementBytes(desc, k)

\* A path is found exactly when the tree has an item of that path, even if
\* an earlier branch of the same name lacks it, and the bytes used are those
\* of the first such item: every array, union and sibling on the way has
\* been skipped by its right size.
FindsTheItem ==
    Called /\ desc[1].type = "start" =>
        /\ status = "INVALID_SYMBOL_PATH" <=> Named(desc, call.path) = {}
        /\ status = "OK" =>
              bytes = Span(ItemStart(desc, Item, call.path) + call.offset, call.size)

\* The end of the bytes asked for is one that an int can hold.
EndFits == call.offset + call.size <= IntMax

\* A typed get or set stays within the node it names and covers exactly the
\* element; so does, within the node, a read or write that names the first
\* element of an array, unless the end it asks for is beyond an int: the
\* check then sees a negative one.
StaysInNode ==
    status = "OK" =>
        /\ Typed => /\ bytes = Span(ItemStart(desc, Item, call.path), ElementBytes(desc, Item))
                    /\ desc[Item].type \notin Branches
        /\ call.path[Len(call.path)].index = 0 /\ EndFits =>
              bytes \subseteq Span(NodeStart(desc, Item, call.path), Bytes(desc)[Item])

\* "check the write wont overrun the item" (kowhai.c:259), and the same of
\* the read (kowhai.c:233): whatever element the path names, and however large
\* an offset the host sends.
NoOverrun ==
    status = "OK" =>
        bytes \subseteq Span(NodeStart(desc, Item, call.path), Bytes(desc)[Item])
=============================================================================
