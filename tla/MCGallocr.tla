----------------------------- MODULE MCGallocr -----------------------------
(***************************************************************************)
(* The graphs for model-checking Gallocr, as ggml_build_forward_expand     *)
(* builds them from their outputs: every tensor is used or is an output.   *)
(***************************************************************************)
EXTENDS Gallocr

CONSTANT MaxOutputs

(* A node of each operator over the tensors before it.                     *)
NodesOver(t) ==
    LET before == 1 .. t - 1
        one == {<<p>> : p \in before}
    IN  {[op |-> op, src |-> src] : op \in {"wide", "view"}, src \in one}
            \union {[op |-> "elementwise", src |-> src] : src \in one \union (before \X before)}

NodeLists ==
    LET upto[t \in NLeafs .. NLeafs + NNodes] ==
            IF t = NLeafs THEN {[l \in Leafs |-> [op |-> "leaf", src |-> <<>>]]}
            ELSE {Append(list, node) : list \in upto[t - 1], node \in NodesOver(t)}
    IN  upto[NLeafs + NNodes]

UnusedIn(list) ==
    {t \in Tensors : \A m \in Tensors : \A j \in DOMAIN list[m].src : list[m].src[j] # t}

(* Operator and sources decide what a tensor looks at, and its layout. *)
ViewSrc(list) ==
    LET root[t \in Tensors] == IF list[t].op = "view" THEN root[list[t].src[1]] ELSE t
    IN  root

LayoutOf(list) ==
    LET layout[t \in Tensors] ==
            CASE list[t].op = "leaf" -> "A"
              [] list[t].op = "wide" -> "B"
              [] OTHER -> layout[list[t].src[1]]
    IN  layout

(* The topology of a list of nodes with the outputs out. *)
TopologyOf(list, out) ==
    [op |-> [t \in Tensors |-> list[t].op], src |-> [t \in Tensors |-> list[t].src],
     view_src |-> ViewSrc(list), layout |-> LayoutOf(list), out |-> out]

MCTopologies ==
    {TopologyOf(p[1], p[2]) :
        p \in {q \in NodeLists \X {o \in SUBSET Nodes : Cardinality(o) <= MaxOutputs} :
                UnusedIn(q[1]) \subseteq q[2]}}

(* Two graphs of a leaf and two nodes, of the same sizes: in the first the *)
(* leaf has no use after node 2, in the second node 3 reads it again.      *)
Node(op, src) == [op |-> op, src |-> src]

ReadOnceOrTwice ==
    {TopologyOf(<<Node("leaf", <<>>), Node("elementwise", <<1>>), Node("elementwise", src)>>, {3}) :
        src \in {<<2, 2>>, <<1, 2>>}}

(* An output that is a view of the leaf, and two nodes computed from it.   *)
OutputView ==
    {TopologyOf(<<Node("leaf", <<>>), Node("view", <<1>>), Node("elementwise", <<2>>),
                  Node("elementwise", <<1, 3>>)>>, {2, 4})}

MCLayoutSize == [l \in {"A", "B"} |-> IF l = "A" THEN 2 ELSE 4]
MCInputs ==
    {[scale |-> 1, external |-> {}], [scale |-> 2, external |-> {}],
     [scale |-> 2, external |-> Leafs]}
=============================================================================
