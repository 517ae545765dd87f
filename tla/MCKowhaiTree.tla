---------------------------- MODULE MCKowhaiTree ----------------------------
(***************************************************************************)
(* The kowhai tree for TLC. A tree has a root of one or two children, each *)
(* a leaf or a branch of one or two leaves; names are shared between       *)
(* siblings, so that a path may lead into a branch that does not hold its  *)
(* end, and the leaves have elements of different sizes and counts, so     *)
(* that a node skipped wrongly moves every offset after it.                *)
(***************************************************************************)
EXTENDS KowhaiTree, SequencesExt

\* a node, and a branch of the given children, as they are spelled out
Leaf(type, symbol, count) == <<[type |-> type, symbol |-> symbol, count |-> count]>>
Branch(type, symbol, count, kids) ==
    Leaf(type, symbol, count) \o FlattenSeq(kids) \o Leaf("end", symbol, count)

MCLeaves == {Leaf("uint8", 1, 2), Leaf("int16", 2, 2), Leaf("char", 2, 1)}
Inner == {Branch(type, 1, count, kids) :
             type \in Branches, count \in {1, 2},
             kids \in SeqOf({Leaf("uint8", 1, 2), Leaf("int16", 2, 2)}, 2) \ {<<>>}}
Children == MCLeaves \cup Inner
Roots == {Branch("start", 1, 1, kids) : kids \in SeqOf(Children, 2) \ {<<>>}}

\* a root that is an array, a branch three deep, and the roots get_node refuses
OddTrees ==
    LET pair == <<Leaf("uint8", 1, 2), Leaf("uint32", 2, 1)>>
        deep == Branch("start", 1, 2, <<Leaf("uint8", 2, 1), Branch("ustart", 1, 2, pair)>>)
    IN {Branch("start", 1, 2, <<deep, Leaf("float", 2, 2)>>), Branch("ustart", 1, 1, pair),
        Leaf("uint8", 1, 1)}

MCDescriptors == Roots \cup OddTrees
\* paths from the root down, and one that starts elsewhere
MCPaths ==
    LET Step == [name : {1, 2}, index : {0, 1}]
        root == [name |-> 1, index |-> 0]
    IN {<<root>> \o below : below \in SeqOf(Step, 2)} \cup {<<[root EXCEPT !.index = 1]>>}
\* the last two are the largest: their sums with a size wrap, or only just do not
MCOffsets == {-1, 0, 3, IntMax - 1, IntMax}
\* without those: a later element overruns its node by itself
FewOffsets == {-1, 0, 3}
FewDescriptors == {Branch("start", 1, 1, kids) : kids \in SeqOf(MCLeaves, 2) \ {<<>>}}
=============================================================================
