---------------------------- MODULE GallocrProofs ----------------------------
(***************************************************************************)
(* The graph allocator for any graphs, sizes and inputs.                   *)
(*                                                                         *)
(* A position in a graph is a node and how many of its sources are dealt   *)
(* with.  The counters of the hash table say how many uses of a tensor, or *)
(* views of it with uses, are left from there on; a tensor has memory as   *)
(* long as something is left.  What is left decides which tensors must not *)
(* share memory with a node, and the plan remembers that they do not.      *)
(***************************************************************************)
EXTENDS Gallocr, FreeListProofs

(* What holds for 0 and goes from each number to the next holds up to m.   *)
LEMMA UpTo ==
  ASSUME NEW m \in Nat, NEW S, 0 \in S, \A i \in 0 .. m - 1 : i \in S => i + 1 \in S
  PROVE  \A i \in 0 .. m : i \in S
  <1> DEFINE T == {i \in 0 .. m : i \notin S}
  <1>1. ASSUME T # {} PROVE FALSE
    <2>1. PICK l \in T : \A k \in T : l <= k
      <3>1. T \subseteq Nat
        OBVIOUS
      <3> HIDE DEF T
      <3> QED
        BY <1>1, <3>1, LeastExists
    <2>2. l \in Nat /\ l # 0
      OBVIOUS
    <2>3. l - 1 \in 0 .. m - 1 /\ l - 1 \in S
      BY <2>1, <2>2
    <2> QED
      BY <2>3
  <1> QED
    BY <1>1
-----------------------------------------------------------------------------
(* Graphs.                                                                 *)

GraphOK == \E topo \in Topologies : graph \in GraphsOf(topo)

(* Operators, sources and views, as the builder of a graph makes them. *)
LEMMA GraphFacts ==
  ASSUME GraphOK, NEW t \in Tensors
  PROVE  /\ Op(t) \in Operators
         /\ t \in Leafs <=> Op(t) = "leaf"
         /\ Src(t) \in Seq(Tensors) /\ Len(Src(t)) \in 0 .. MaxSrc
         /\ DOMAIN Src(t) = 1 .. Len(Src(t))
         /\ \A j \in DOMAIN Src(t) : /\ Src(t)[j] \in Tensors /\ Src(t)[j] < t
                                     /\ t \in Nodes /\ j \in 1 .. MaxSrc
         /\ Root(t) \in Tensors /\ Root(t) <= t /\ ~IsView(Root(t)) /\ Root(Root(t)) = Root(t)
         /\ ~IsView(t) => Root(t) = t
         /\ IsView(t) => t \in Nodes /\ Root(t) < t /\ 1 \in DOMAIN Src(t) /\ Root(t) = Root(Src(t)[1])
         /\ External(t) => t \in Leafs
         /\ Outputs \subseteq Tensors
         /\ Layout(t) \in DOMAIN LayoutSize
  <1>1. PICK topo \in Topologies : graph \in GraphsOf(topo)
    BY DEF GraphOK
  <1>2. PICK in \in Inputs : graph = [topo |-> topo, external |-> in.external, scale |-> in.scale]
    BY <1>1 DEF GraphsOf
  <1>3. graph.topo = topo /\ graph.external = in.external
    BY <1>2
  <1>4. IsTopology(topo)
    BY TopologiesAssumption
  <1>5. /\ NLeafs \in Nat /\ NNodes \in Nat \ {0} /\ MaxSrc \in Nat
        /\ Tensors \subseteq Nat /\ t \in Nat
        /\ Tensors = Leafs \union Nodes /\ Leafs \cap Nodes = {}
    BY TensorsAssumption DEF Tensors, Leafs, Nodes
  <1>6. /\ Op(t) \in Operators
        /\ t \in Leafs <=> Op(t) = "leaf"
        /\ Src(t) \in Seq(Tensors) /\ Len(Src(t)) <= MaxSrc
        /\ \A j \in DOMAIN Src(t) : Src(t)[j] < t
        /\ t \in Leafs => Src(t) = <<>>
        /\ Outputs \subseteq Tensors
        /\ Layout(t) \in DOMAIN LayoutSize
    BY <1>3, <1>4 DEF IsTopology, Op, Src, Outputs, Layout
  <1>7. Len(Src(t)) \in Nat /\ DOMAIN Src(t) = 1 .. Len(Src(t)) /\ \A j \in DOMAIN Src(t) : Src(t)[j] \in Tensors
    BY <1>6, LenProperties
  <1>8. t \in Leafs => DOMAIN Src(t) = {}
    BY <1>6
  <1>9. \A r \in Tensors : /\ Root(r) \in Tensors
                           /\ ~IsView(r) => Root(r) = r
                           /\ IsView(r) => /\ Root(r) < r /\ ~IsView(Root(r))
                                           /\ Src(r) # <<>> /\ Root(r) = Root(Src(r)[1])
    BY <1>3, <1>4 DEF IsTopology, Op, Src, Root, IsView
  <1>10. External(t) => t \in Leafs
    BY <1>3, InputsAssumption DEF External
  <1>11. IsView(t) => t \notin Leafs
    BY <1>6 DEF IsView
  <1>12. Src(t) # <<>> => 1 \in DOMAIN Src(t)
    BY <1>6, <1>7, EmptySeq
  <1>13. Root(t) <= t
    BY <1>5, <1>9
  <1> QED
    BY <1>5, <1>6, <1>7, <1>8, <1>9, <1>10, <1>11, <1>12, <1>13

(* The bytes that a tensor of a graph takes. *)
LEMMA SizeFacts ==
  ASSUME NEW topo \in Topologies, NEW g \in GraphsOf(topo), NEW t \in Tensors
  PROVE  /\ SizeIn(g, t) \in Nat
         /\ Aligned(SizeIn(g, t)) \in Nat /\ Aligned(SizeIn(g, t)) <= Huge
         /\ SizeIn(g, t) # 0 => Aligned(SizeIn(g, t)) # 0
         /\ \A p \in Tensors : g.topo.op[t] # "wide" /\ g.topo.layout[t] = g.topo.layout[p]
                => Aligned(SizeIn(g, t)) <= Aligned(SizeIn(g, p))
  <1>1. PICK in \in Inputs : g = [topo |-> topo, external |-> in.external, scale |-> in.scale]
    BY DEF GraphsOf
  <1>2. g.topo = topo /\ g.scale = in.scale
    BY <1>1
  <1> DEFINE base(p) == LayoutSize[g.topo.layout[p]] * g.scale
  <1>3. ASSUME NEW p \in Tensors
        PROVE  /\ base(p) \in Nat /\ Aligned(base(p) + Scratch) <= Huge /\ Scratch \in Nat
               /\ SizeIn(g, p) \in {base(p), base(p) + Scratch}
               /\ g.topo.op[p] # "wide" => SizeIn(g, p) = base(p)
    <2>1. topo.layout[p] \in DOMAIN LayoutSize
      BY TopologiesAssumption DEF IsTopology
    <2> DEFINE l == topo.layout[p]
    <2>2. /\ LayoutSize[l] \in Nat /\ in.scale \in Nat /\ Scratch \in Nat
          /\ Aligned(LayoutSize[l] * in.scale + Scratch) <= Huge
      BY <2>1, InputsAssumption
    <2>3. base(p) = LayoutSize[l] * in.scale
      BY <1>2
    <2> HIDE DEF l
    <2>4. LayoutSize[l] * in.scale \in Nat
      BY <2>2
    <2>5. SizeIn(g, p) = base(p) + (IF g.topo.op[p] = "wide" THEN Scratch ELSE 0)
      BY DEF SizeIn
    <2> HIDE DEF base
    <2> QED
      BY <2>2, <2>3, <2>4, <2>5
  <1> HIDE DEF base
  <1>4. ASSUME NEW p \in Tensors
        PROVE  SizeIn(g, p) \in Nat /\ base(p) <= SizeIn(g, p) /\ SizeIn(g, p) <= base(p) + Scratch
               /\ base(p) + Scratch \in Nat
    BY <1>3
  <1>5. Aligned(SizeIn(g, t)) <= Aligned(base(t) + Scratch)
    BY <1>4, AlignedMonotone
  <1>6. /\ Aligned(SizeIn(g, t)) \in Nat /\ Aligned(base(t) + Scratch) \in Nat /\ Huge \in Nat
        /\ SizeIn(g, t) # 0 => Aligned(SizeIn(g, t)) # 0
    BY <1>4, AlignedType, ChunksAssumption
  <1>7. ASSUME NEW p \in Tensors, g.topo.op[t] # "wide", g.topo.layout[t] = g.topo.layout[p]
        PROVE  Aligned(SizeIn(g, t)) <= Aligned(SizeIn(g, p))
    <2>1. SizeIn(g, t) = base(t) /\ base(t) = base(p)
      BY <1>3, <1>7 DEF base
    <2> QED
      BY <2>1, <1>4, AlignedMonotone
  <1> QED
    BY <1>3, <1>4, <1>5, <1>6, <1>7

(* The same for the present graph. *)
LEMMA GraphSizes ==
  ASSUME GraphOK, NEW t \in Tensors
  PROVE  /\ Size(t) \in Nat /\ Size(t) <= Huge
         /\ \A p \in Tensors : Op(t) # "wide" /\ Layout(t) = Layout(p) => Size(t) <= Size(p)
  <1>1. PICK topo \in Topologies : graph \in GraphsOf(topo)
    BY DEF GraphOK
  <1> QED
    BY <1>1, SizeFacts DEF Size, Op, Layout
-----------------------------------------------------------------------------
(* What is left to do from source i of node m on.                          *)

Left(t, m, i) == {use \in Uses(t) : use[1] > m \/ (use[1] = m /\ use[2] > i)}

LeftViews(t, m, i) == {v \in Views(t) : ~Consumed(v) \/ Left(v, m, i) # {}}

Needed(t, m, i) ==
    \/ t \in Outputs \/ ~Consumed(t)
    \/ Left(t, m, i) # {} \/ LeftViews(t, m, i) # {}

(* The numbers that stand for tensors. *)
LEMMA NumberFacts ==
  /\ NLeafs \in Nat /\ NNodes \in Nat /\ MaxSrc \in Nat
  /\ Tensors \subseteq Nat /\ Nodes \subseteq Tensors /\ Leafs \subseteq Tensors
  /\ Tensors = Leafs \union Nodes
  /\ \A l \in Leafs : \A m \in Nodes : l < m
  /\ \A l \in Leafs : l <= NLeafs
  /\ \A m \in Nodes : NLeafs < m
  BY TensorsAssumption DEF Tensors, Leafs, Nodes

(* Uses and views are finitely many. *)
LEMMA FiniteFacts ==
  ASSUME NEW t, NEW m, NEW i
  PROVE  /\ IsFiniteSet(Uses(t)) /\ IsFiniteSet(Left(t, m, i)) /\ Left(t, m, i) \subseteq Uses(t)
         /\ IsFiniteSet(Views(t)) /\ IsFiniteSet(LeftViews(t, m, i))
         /\ LeftViews(t, m, i) \subseteq Views(t)
         /\ Cardinality(Left(t, m, i)) \in Nat /\ Cardinality(LeftViews(t, m, i)) \in Nat
         /\ Cardinality(Left(t, m, i)) = 0 <=> Left(t, m, i) = {}
         /\ Cardinality(LeftViews(t, m, i)) = 0 <=> LeftViews(t, m, i) = {}
  <1>1. IsFiniteSet(Nodes) /\ IsFiniteSet(1 .. MaxSrc)
    BY TensorsAssumption, FS_Interval DEF Nodes
  <1>2. IsFiniteSet(Nodes \X (1 .. MaxSrc))
    BY <1>1, FS_Product
  <1>3. Uses(t) \subseteq Nodes \X (1 .. MaxSrc) /\ Views(t) \subseteq Nodes
    BY DEF Uses, Views
  <1>4. Left(t, m, i) \subseteq Uses(t) /\ LeftViews(t, m, i) \subseteq Views(t)
    BY DEF Left, LeftViews
  <1>5. /\ IsFiniteSet(Uses(t)) /\ IsFiniteSet(Left(t, m, i))
        /\ IsFiniteSet(Views(t)) /\ IsFiniteSet(LeftViews(t, m, i))
    BY <1>1, <1>2, <1>3, <1>4, FS_Subset
  <1>6. /\ Cardinality(Left(t, m, i)) \in Nat /\ Cardinality(LeftViews(t, m, i)) \in Nat
        /\ Cardinality(Left(t, m, i)) = 0 <=> Left(t, m, i) = {}
        /\ Cardinality(LeftViews(t, m, i)) = 0 <=> LeftViews(t, m, i) = {}
    BY <1>5, FS_CardinalityType, FS_EmptySet
  <1> QED
    BY <1>4, <1>5, <1>6

(* A set without one of its elements. *)
LEMMA OneLess ==
  ASSUME NEW S, NEW less, NEW x \in S, IsFiniteSet(S), less = S \ {x}
  PROVE  Cardinality(less) = Cardinality(S) - 1
  BY FS_RemoveElement

(* A use: a node, and which of its sources. *)
LEMMA UseType ==
  ASSUME NEW t, NEW use \in Uses(t)
  PROVE  /\ use[1] \in Nodes /\ use[1] \in Nat
         /\ use[2] \in 1 .. MaxSrc /\ use[2] \in Nat /\ use[2] > 0
         /\ use = <<use[1], use[2]>>
         /\ use[2] \in DOMAIN Src(use[1]) /\ Src(use[1])[use[2]] = t
  <1>1. use \in Nodes \X (1 .. MaxSrc)
    BY DEF Uses
  <1>2. use[1] \in Nodes /\ use[2] \in 1 .. MaxSrc /\ use = <<use[1], use[2]>>
    BY <1>1
  <1>3. use[2] \in DOMAIN Src(use[1]) /\ Src(use[1])[use[2]] = t
    BY DEF Uses
  <1> QED
    BY <1>2, <1>3, NumberFacts

(* The use that source i of node m makes. *)
LEMMA UseFacts ==
  ASSUME GraphOK, NEW m \in Tensors, NEW i \in DOMAIN Src(m)
  PROVE  /\ m \in Nodes /\ i \in 1 .. Len(Src(m)) /\ i \in Nat /\ i - 1 \in Nat
         /\ Src(m)[i] \in Tensors /\ Src(m)[i] < m
         /\ <<m, i>> \in Uses(Src(m)[i])
         /\ \A t : <<m, i>> \in Uses(t) => t = Src(m)[i]
         /\ Consumed(Src(m)[i])
  <1>1. /\ m \in Nodes /\ i \in 1 .. MaxSrc /\ i \in 1 .. Len(Src(m))
        /\ Len(Src(m)) \in Nat /\ Src(m)[i] \in Tensors /\ Src(m)[i] < m
    BY GraphFacts, NumberFacts
  <1> QED
    BY <1>1 DEF Uses, Consumed

(* Consumed is having uses. *)
LEMMA ConsumedUses ==
  ASSUME GraphOK, NEW t \in Tensors
  PROVE  Consumed(t) <=> Uses(t) # {}
  <1>1. ASSUME NEW m \in Nodes, NEW j \in DOMAIN Src(m), Src(m)[j] = t
        PROVE  <<m, j>> \in Uses(t)
    <2>1. m \in Tensors
      BY NumberFacts
    <2> QED
      BY <1>1, <2>1, UseFacts
  <1>2. ASSUME NEW use \in Uses(t)
        PROVE  Consumed(t)
    BY DEF Uses, Consumed
  <1> QED
    BY <1>1, <1>2 DEF Consumed

(* At source i of node m one use of that source is over, and no other.     *)
LEMMA LeftStep ==
  ASSUME GraphOK, NEW m \in Tensors, NEW i \in DOMAIN Src(m)
  PROVE  /\ Left(Src(m)[i], m, i) = Left(Src(m)[i], m, i - 1) \ {<<m, i>>}
         /\ <<m, i>> \in Left(Src(m)[i], m, i - 1)
         /\ \A t \in Tensors : t # Src(m)[i] => Left(t, m, i) = Left(t, m, i - 1)
  <1>1. /\ i \in Nat /\ i - 1 \in Nat /\ <<m, i>> \in Uses(Src(m)[i])
        /\ \A r : <<m, i>> \in Uses(r) => r = Src(m)[i]
    BY UseFacts
  <1>2. ASSUME NEW r, NEW use \in Uses(r)
        PROVE  use[1] \in Nat /\ use[2] \in Nat /\ use = <<use[1], use[2]>>
    BY UseType
  <1>3. ASSUME NEW r, NEW use \in Uses(r)
        PROVE  (use \in Left(r, m, i - 1)) <=> (use \in Left(r, m, i) \/ use = <<m, i>>)
    <2>1. use = <<m, i>> <=> use[1] = m /\ use[2] = i
      BY <1>2
    <2> QED
      BY <1>1, <1>2, <2>1, NumberFacts DEF Left
  <1>4. \A r : <<m, i>> \notin Left(r, m, i)
    BY <1>1, NumberFacts DEF Left
  <1> QED
    BY <1>1, <1>3, <1>4, FiniteFacts, ZenonT(60)

(* After its last source, a node is done with. *)
LEMMA LeftNext ==
  ASSUME GraphOK, NEW m \in Nodes, NEW t \in Tensors
  PROVE  Left(t, m, Len(Src(m))) = Left(t, m + 1, 0)
  <1>1. ASSUME NEW use \in Uses(t)
        PROVE  /\ use[1] \in Nat /\ use[2] \in Nat /\ use[2] > 0
               /\ use[1] = m => use[2] <= Len(Src(m))
    <2>1. /\ use[1] \in Nat /\ use[2] \in Nat /\ use[2] > 0
          /\ use[2] \in DOMAIN Src(use[1])
      BY UseType
    <2>2. m \in Tensors
      BY NumberFacts
    <2> QED
      BY <2>1, <2>2, GraphFacts
  <1>2. m \in Nat /\ Len(Src(m)) \in Nat
    BY GraphFacts, NumberFacts
  <1> QED
    BY <1>1, <1>2 DEF Left

(* What is left becomes less. *)
LEMMA LeftLess ==
  ASSUME GraphOK, NEW t \in Tensors, NEW m \in Nat, NEW l \in Nat, m <= l
  PROVE  /\ Left(t, l, 0) \subseteq Left(t, m, 0)
         /\ LeftViews(t, l, 0) \subseteq LeftViews(t, m, 0)
         /\ Needed(t, l, 0) => Needed(t, m, 0)
  <1>1. \A r : Left(r, l, 0) \subseteq Left(r, m, 0)
    <2>1. ASSUME NEW r, NEW use \in Uses(r) PROVE use[1] \in Nat
      BY UseType
    <2> QED
      BY <2>1 DEF Left
  <1>2. LeftViews(t, l, 0) \subseteq LeftViews(t, m, 0)
    BY <1>1 DEF LeftViews
  <1> QED
    BY <1>1, <1>2 DEF Needed

(* Before the first node everything is left. *)
LEMMA LeftAtStart ==
  ASSUME GraphOK, NEW t \in Tensors, NEW m \in Nat, m <= NLeafs + 1
  PROVE  /\ Left(t, m, 0) = Uses(t)
         /\ LeftViews(t, m, 0) = Views(t)
         /\ Needed(t, m, 0)
  <1>1. ASSUME NEW r PROVE Left(r, m, 0) = Uses(r)
    <2>1. ASSUME NEW use \in Uses(r)
          PROVE  use[1] \in Nat /\ use[2] \in Nat /\ use[2] > 0 /\ use[1] >= NLeafs + 1
      BY UseType, NumberFacts
    <2> QED
      BY <2>1, NumberFacts DEF Left
  <1>2. LeftViews(t, m, 0) = Views(t)
    <2>1. ASSUME NEW v \in Views(t) PROVE v \in LeftViews(t, m, 0)
      <3>1. v \in Tensors
        BY NumberFacts DEF Views
      <3> QED
        BY <3>1, <1>1, ConsumedUses DEF LeftViews
    <2> QED
      BY <2>1 DEF LeftViews
  <1> QED
    BY <1>1, <1>2, ConsumedUses DEF Needed

(* The first view of a tensor is made of the tensor itself. *)
LEMMA ViewedConsumed ==
  ASSUME GraphOK, NEW t \in Tensors, Views(t) # {}
  PROVE  Consumed(t)
  <1>1. Views(t) \subseteq Nat
    BY NumberFacts DEF Views
  <1>2. PICK v \in Views(t) : \A u \in Views(t) : v <= u
    BY <1>1, LeastExists
  <1>3. v \in Nodes /\ v \in Tensors /\ IsView(v) /\ Root(v) = t /\ v \in Nat
    BY <1>1, NumberFacts DEF Views
  <1> DEFINE p == Src(v)[1]
  <1>4. 1 \in DOMAIN Src(v) /\ Root(v) = Root(p)
    BY <1>3, GraphFacts
  <1>5. p \in Tensors /\ p < v /\ Consumed(p) /\ p \in Nat
    BY <1>3, <1>4, UseFacts, NumberFacts
  <1> HIDE DEF p
  <1>6. ~IsView(p)
    <2> SUFFICES ASSUME IsView(p) PROVE FALSE
      OBVIOUS
    <2>1. p \in Views(t)
      BY <1>3, <1>4, <1>5, GraphFacts DEF Views
    <2> QED
      BY <2>1, <1>2, <1>3, <1>5
  <1> QED
    BY <1>3, <1>4, <1>5, <1>6, GraphFacts

(* A view has no views of its own. *)
LEMMA NoViewsOfViews ==
  ASSUME GraphOK, NEW v \in Tensors, IsView(v), NEW m, NEW i
  PROVE  Views(v) = {} /\ LeftViews(v, m, i) = {}
  <1>1. ASSUME NEW u \in Views(v) PROVE FALSE
    <2>1. u \in Tensors /\ Root(u) = v
      BY NumberFacts DEF Views
    <2> QED
      BY <2>1, GraphFacts
  <1> QED
    BY <1>1 DEF LeftViews
-----------------------------------------------------------------------------
(* Memory while planning: of the tensors before b, those that have memory  *)
(* have it for themselves, and all remember an address where they were     *)
(* apart from the tensors needed at the time.                              *)

HashNode == [n_children : Nat, n_views : Nat, allocated : BOOLEAN, addr : Address \union {None}]
State == [chunks : Chunks, hash : [Tensors -> HashNode]]

AddrOf(h) == [t \in Tensors |-> h[t].addr]
OwnIn(g) == {t \in Tensors : t \notin g.external /\ ~IsView(t)}
RangeIn(g, addr, t) ==
    [chunk |-> addr[t].chunk, offset |-> addr[t].offset, size |-> Aligned(SizeIn(g, t))]
MemOf(h) == [t \in {u \in Tensors : h[u].allocated} |-> RangeIn(graph, AddrOf(h), t)]

HasPlace(cs, addr, t) ==
    /\ addr[t] \in Address /\ addr[t].chunk \in DOMAIN cs
    /\ End(RangeIn(graph, addr, t)) <= cs[addr[t].chunk].max_size

(* Node u lies exactly where its source t does, which nobody else needs. *)
TakenOver(addr, t, u) ==
    /\ Op(u) = "elementwise" /\ Layout(u) = Layout(t) /\ addr[u] = addr[t]
    /\ ~Needed(t, u + 1, 0) /\ LeftViews(t, u, 0) = {}

Placed(g, addr, t, u) ==
    Needed(t, u, 0) =>
        Apart(RangeIn(g, addr, t), RangeIn(g, addr, u)) \/ TakenOver(addr, t, u)

MemoryInv(st, b) ==
    /\ st \in State
    /\ \A t \in Tensors : st.hash[t].allocated => t \in Own /\ t < b
    /\ Sound(st.chunks, MemOf(st.hash))
    /\ \A t \in Own : t < b => HasPlace(st.chunks, AddrOf(st.hash), t)
    /\ \A t, u \in Own : t < u /\ u < b => Placed(graph, AddrOf(st.hash), t, u)

(* The parts of a state. *)
LEMMA StateFacts ==
  ASSUME NEW st \in State
  PROVE  /\ st.chunks \in Chunks
         /\ st.hash \in [Tensors -> HashNode]
         /\ st = [chunks |-> st.chunks, hash |-> st.hash]
         /\ \A t \in Tensors : /\ st.hash[t] \in HashNode
                               /\ st.hash[t].n_children \in Nat /\ st.hash[t].n_views \in Nat
                               /\ st.hash[t].allocated \in BOOLEAN
                               /\ AddrOf(st.hash)[t] = st.hash[t].addr
                               /\ st.hash[t].addr \in Address \union {None}
  <1>1. /\ st.chunks \in Chunks /\ st.hash \in [Tensors -> HashNode]
        /\ st = [chunks |-> st.chunks, hash |-> st.hash]
    BY DEF State
  <1>2. ASSUME NEW t \in Tensors
        PROVE  /\ st.hash[t] \in HashNode
               /\ st.hash[t].n_children \in Nat /\ st.hash[t].n_views \in Nat
               /\ st.hash[t].allocated \in BOOLEAN
               /\ st.hash[t].addr \in Address \union {None}
    <2>1. st.hash[t] \in HashNode
      BY <1>1
    <2> QED
      BY <2>1 DEF HashNode
  <1> QED
    BY <1>1, <1>2 DEF AddrOf

(* An entry of the hash table with one field changed. *)
LEMMA EntryFacts ==
  ASSUME NEW e \in HashNode
  PROVE  /\ \A x \in BOOLEAN :
               /\ [e EXCEPT !.allocated = x] \in HashNode
               /\ [e EXCEPT !.allocated = x].allocated = x
               /\ [e EXCEPT !.allocated = x].addr = e.addr
               /\ [e EXCEPT !.allocated = x].n_children = e.n_children
               /\ [e EXCEPT !.allocated = x].n_views = e.n_views
         /\ \A x \in Nat :
               /\ [e EXCEPT !.n_children = x] \in HashNode
               /\ [e EXCEPT !.n_children = x].n_children = x
               /\ [e EXCEPT !.n_children = x].addr = e.addr
               /\ [e EXCEPT !.n_children = x].allocated = e.allocated
               /\ [e EXCEPT !.n_children = x].n_views = e.n_views
         /\ \A x \in Nat :
               /\ [e EXCEPT !.n_views = x] \in HashNode
               /\ [e EXCEPT !.n_views = x].n_views = x
               /\ [e EXCEPT !.n_views = x].addr = e.addr
               /\ [e EXCEPT !.n_views = x].allocated = e.allocated
               /\ [e EXCEPT !.n_views = x].n_children = e.n_children
  BY DEF HashNode

(* A hash table with one entry replaced. *)
LEMMA TableFacts ==
  ASSUME NEW h \in [Tensors -> HashNode], NEW t \in Tensors, NEW e \in HashNode
  PROVE  /\ [h EXCEPT ![t] = e] \in [Tensors -> HashNode]
         /\ \A u \in Tensors : [h EXCEPT ![t] = e][u] = IF u = t THEN e ELSE h[u]
  OBVIOUS

(* The memory of the tensors that have memory. *)
LEMMA MemFacts ==
  ASSUME NEW h
  PROVE  /\ DOMAIN MemOf(h) = {t \in Tensors : h[t].allocated}
         /\ \A t \in Tensors : h[t].allocated =>
               /\ t \in DOMAIN MemOf(h)
               /\ MemOf(h)[t] = [chunk |-> h[t].addr.chunk, offset |-> h[t].addr.offset, size |-> Size(t)]
  BY DEF MemOf, AddrOf, RangeIn, Size

(* Two ranges that share no address are apart. *)
LEMMA ApartFacts ==
  ASSUME NEW a \in MemRange, NEW b \in MemRange,
         a.chunk = b.chunk => \A x \in Nat : ~(Covers(a, x) /\ Covers(b, x))
  PROVE  Apart(a, b)
  <1>1. /\ a.offset \in Nat /\ a.size \in Nat /\ b.offset \in Nat /\ b.size \in Nat
    BY RangeFacts
  <1> SUFFICES ASSUME a.chunk = b.chunk, a.size # 0, b.size # 0,
                      ~(End(a) <= b.offset), ~(End(b) <= a.offset)
               PROVE  FALSE
    BY DEF Apart
  <1>2. CASE a.offset <= b.offset
    BY <1>1, <1>2 DEF Covers, End
  <1>3. CASE b.offset <= a.offset
    BY <1>1, <1>3 DEF Covers, End
  <1> QED
    BY <1>1, <1>2, <1>3

(* Ranges of different holders are apart. *)
LEMMA HoldersApart ==
  ASSUME NEW cs, NEW mem, Sound(cs, mem), NEW t \in DOMAIN mem, NEW u \in DOMAIN mem, t # u
  PROVE  Apart(mem[t], mem[u])
  <1>1. mem[t] \in MemRange /\ mem[u] \in MemRange
    BY DEF Sound
  <1>2. mem[t].chunk = mem[u].chunk => \A x \in Nat : ~(Covers(mem[t], x) /\ Covers(mem[u], x))
    BY DEF Sound
  <1> QED
    BY <1>1, <1>2, ApartFacts

(* A place remains one when no chunk is dropped. *)
LEMMA PlaceKept ==
  ASSUME GraphOK, NEW cs \in Chunks, NEW new \in Chunks, Kept(cs, new),
         NEW addr, NEW t \in Tensors, HasPlace(cs, addr, t)
  PROVE  HasPlace(new, addr, t)
  <1> DEFINE e == End(RangeIn(graph, addr, t))
             k == addr[t].chunk
  <1>1. e = addr[t].offset + Size(t) /\ addr[t].offset \in Nat /\ Size(t) \in Nat
    BY GraphSizes DEF HasPlace, RangeIn, Size, End, Address
  <1>2. e \in Nat
    BY <1>1
  <1>3. /\ k \in DOMAIN cs /\ k \in DOMAIN new
        /\ e <= cs[k].max_size /\ cs[k].max_size <= new[k].max_size
        /\ cs[k].max_size \in Nat /\ new[k].max_size \in Nat
    BY ChunksFacts DEF HasPlace, Kept
  <1> HIDE DEF e, k
  <1>4. e <= new[k].max_size
    BY <1>2, <1>3
  <1> QED
    BY <1>3, <1>4 DEF HasPlace, e, k

(* A tensor that is given no memory of its own changes nothing.            *)
LEMMA SkipMemory ==
  ASSUME GraphOK, NEW st, NEW b \in Nat, MemoryInv(st, b), b \notin Own
  PROVE  MemoryInv(st, b + 1)
  <1>1. \A t \in Own : t \in Nat /\ (t < b + 1 => t < b)
    BY NumberFacts DEF Own
  <1>2. \A t \in Tensors : st.hash[t].allocated => t \in Own /\ t < b + 1
    BY <1>1 DEF MemoryInv
  <1> QED
    BY <1>1, <1>2 DEF MemoryInv

(* The counters of the hash table have no part in it.                      *)
LEMMA SameMemory ==
  ASSUME NEW st, NEW b, MemoryInv(st, b), NEW st2 \in State, st2.chunks = st.chunks,
         \A t \in Tensors : /\ st2.hash[t].addr = st.hash[t].addr
                            /\ st2.hash[t].allocated = st.hash[t].allocated
  PROVE  MemoryInv(st2, b)
  <1>1. AddrOf(st2.hash) = AddrOf(st.hash)
    BY DEF AddrOf
  <1>2. MemOf(st2.hash) = MemOf(st.hash)
    <2>1. {u \in Tensors : st2.hash[u].allocated} = {u \in Tensors : st.hash[u].allocated}
      OBVIOUS
    <2> QED
      BY <1>1, <2>1 DEF MemOf
  <1> QED
    BY <1>1, <1>2 DEF MemoryInv

(* The memory of a tensor that is no longer needed is taken back.          *)
LEMMA FreeMemory ==
  ASSUME GraphOK, NEW st, NEW b, MemoryInv(st, b), NEW t \in Tensors, st.hash[t].allocated,
         t \notin Outputs
  PROVE  /\ MemoryInv(FreeNode(st, t), b)
         /\ FreeNode(st, t).hash = [st.hash EXCEPT ![t].allocated = FALSE]
  <1> DEFINE new == FreeNode(st, t)
             h == [st.hash EXCEPT ![t].allocated = FALSE]
             addr == st.hash[t].addr
             cs == AfterFree(st.chunks, addr, Size(t))
  <1>1. new.chunks = cs /\ new.hash = h /\ new = [chunks |-> cs, hash |-> h]
    BY DEF FreeNode
  <1>2. st \in State /\ st.hash \in [Tensors -> HashNode]
    BY StateFacts DEF MemoryInv
  <1>3. /\ h \in [Tensors -> HashNode]
        /\ \A u \in Tensors : /\ h[u].addr = st.hash[u].addr
                              /\ u # t => h[u].allocated = st.hash[u].allocated
        /\ ~h[t].allocated
    <2> DEFINE e == [st.hash[t] EXCEPT !.allocated = FALSE]
    <2>1. e \in HashNode /\ e.addr = st.hash[t].addr /\ e.allocated = FALSE
      <3>1. st.hash[t] \in HashNode
        BY <1>2
      <3> QED
        BY <3>1, EntryFacts
    <2>2. h = [st.hash EXCEPT ![t] = e]
      OBVIOUS
    <2> HIDE DEF e, h
    <2> QED
      BY <1>2, <2>1, <2>2, TableFacts
  <1> HIDE DEF new, h, cs
  <1>4. /\ DOMAIN MemOf(h) = DOMAIN MemOf(st.hash) \ {t}
        /\ \A u \in DOMAIN MemOf(st.hash) \ {t} : MemOf(h)[u] = MemOf(st.hash)[u]
    <2>1. DOMAIN MemOf(h) = {u \in Tensors : h[u].allocated}
      BY MemFacts
    <2>2. DOMAIN MemOf(st.hash) = {u \in Tensors : st.hash[u].allocated}
      BY MemFacts
    <2>3. DOMAIN MemOf(h) = DOMAIN MemOf(st.hash) \ {t}
      BY <2>1, <2>2, <1>3
    <2>4. ASSUME NEW u \in DOMAIN MemOf(st.hash) \ {t}
          PROVE  MemOf(h)[u] = MemOf(st.hash)[u]
      <3>1. u \in Tensors /\ u # t /\ st.hash[u].allocated /\ h[u].allocated
        BY <2>2, <1>3
      <3>2. MemOf(h)[u] = [chunk |-> h[u].addr.chunk, offset |-> h[u].addr.offset, size |-> Size(u)]
        BY <3>1, MemFacts
      <3>3. MemOf(st.hash)[u] =
              [chunk |-> st.hash[u].addr.chunk, offset |-> st.hash[u].addr.offset, size |-> Size(u)]
        BY <3>1, MemFacts
      <3> QED
        BY <3>1, <3>2, <3>3, <1>3
    <2> QED
      BY <2>3, <2>4
  <1>5. /\ t \in DOMAIN MemOf(st.hash)
        /\ addr.chunk = MemOf(st.hash)[t].chunk
        /\ Size(t) \in Nat /\ 0 + Size(t) = MemOf(st.hash)[t].size
    <2>1. t \in DOMAIN MemOf(st.hash)
      BY MemFacts, Zenon
    <2>2. MemOf(st.hash)[t] = [chunk |-> addr.chunk, offset |-> addr.offset, size |-> Size(t)]
      BY <2>1, MemFacts
    <2> QED
      BY <2>1, <2>2, GraphSizes
  <1>6. addr.offset = MemOf(st.hash)[t].offset + 0
    <2>1. MemOf(st.hash)[t] = [chunk |-> addr.chunk, offset |-> addr.offset, size |-> Size(t)]
      BY <1>5, MemFacts
    <2>2. MemOf(st.hash)[t] \in MemRange
      BY <1>5 DEF MemoryInv, Sound
    <2> QED
      BY <2>1, <2>2, RangeFacts
  <1> HIDE DEF addr
  <1>7. Sound(cs, MemOf(h)) /\ Kept(st.chunks, cs)
    <2>1. Sound(st.chunks, MemOf(st.hash))
      BY DEF MemoryInv
    <2> DEFINE mem == MemOf(st.hash)
               mem2 == MemOf(h)
    <2>2. /\ t \in DOMAIN mem /\ addr.chunk = mem[t].chunk /\ addr.offset = mem[t].offset
          /\ Size(t) = mem[t].size
      <3>1. 0 + Size(t) = Size(t) /\ mem[t].offset + 0 = mem[t].offset
        <4>1. mem[t] \in MemRange
          BY <1>5 DEF MemoryInv, Sound
        <4> QED
          BY <4>1, <1>5, RangeFacts
      <3> QED
        BY <3>1, <1>5, <1>6
    <2>3. /\ DOMAIN mem2 = DOMAIN mem \ {t}
          /\ \A u \in DOMAIN mem \ {t} : mem2[u] = mem[u]
      BY <1>4
    <2>4. Sound(st.chunks, mem)
      BY <2>1
    <2> HIDE DEF mem, mem2
    <2>7. Sound(AfterFree(st.chunks, addr, mem[t].size), mem2) /\ Kept(st.chunks, AfterFree(st.chunks, addr, mem[t].size))
      BY <2>2, <2>3, <2>4, FreeWholeSound
    <2> QED
      BY <2>2, <2>7 DEF cs, mem2
  <1>8. AddrOf(h) = AddrOf(st.hash)
    BY <1>3 DEF AddrOf
  <1>9. \A u \in Own : u < b => HasPlace(cs, AddrOf(h), u)
    <2> SUFFICES ASSUME NEW u \in Own, u < b PROVE HasPlace(cs, AddrOf(h), u)
      OBVIOUS
    <2>1. HasPlace(st.chunks, AddrOf(h), u)
      BY <1>8 DEF MemoryInv
    <2>2. st.chunks \in Chunks /\ cs \in Chunks /\ u \in Tensors
      BY <1>2, <1>7, StateFacts DEF Sound, Own
    <2> QED
      BY <2>1, <2>2, <1>7, PlaceKept
  <1>10. \A u \in Tensors : h[u].allocated => u \in Own /\ u < b
    BY <1>3 DEF MemoryInv
  <1>11. new \in State
    BY <1>1, <1>3, <1>7 DEF State, Sound
  <1> QED
    BY <1>1, <1>7, <1>8, <1>9, <1>10, <1>11 DEF MemoryInv, new, h

Given(h, t, a) == [h EXCEPT ![t].addr = a, ![t].allocated = TRUE]

(* The entry of a tensor that is given an address.                         *)
LEMMA GivenFacts ==
  ASSUME NEW h \in [Tensors -> HashNode], NEW t \in Tensors, NEW a \in Address
  PROVE  /\ Given(h, t, a) \in [Tensors -> HashNode]
         /\ Given(h, t, a)[t].addr = a /\ Given(h, t, a)[t].allocated
         /\ Given(h, t, a)[t].n_children = h[t].n_children
         /\ Given(h, t, a)[t].n_views = h[t].n_views
         /\ \A u \in Tensors \ {t} : Given(h, t, a)[u] = h[u]
  <1> DEFINE e == [h[t] EXCEPT !.addr = a, !.allocated = TRUE]
             new == Given(h, t, a)
  <1>1. h[t] \in HashNode
    OBVIOUS
  <1>2. /\ e \in HashNode /\ e.addr = a /\ e.allocated
        /\ e.n_children = h[t].n_children /\ e.n_views = h[t].n_views
    BY <1>1 DEF HashNode
  <1>3. new = [h EXCEPT ![t] = e]
    BY DEF Given
  <1> HIDE DEF e, new
  <1>5. /\ new \in [Tensors -> HashNode]
        /\ \A u \in Tensors : new[u] = IF u = t THEN e ELSE h[u]
    BY <1>2, <1>3, TableFacts
  <1>6. /\ new \in [Tensors -> HashNode]
        /\ new[t].addr = a /\ new[t].allocated
        /\ new[t].n_children = h[t].n_children /\ new[t].n_views = h[t].n_views
        /\ \A u \in Tensors \ {t} : new[u] = h[u]
    BY <1>2, <1>5
  <1> QED
    BY <1>6 DEF new

(* Whether two tensors are placed depends on their own addresses.          *)
LEMMA PlacedSame ==
  ASSUME NEW g, NEW addr, NEW new, NEW t, NEW u, new[t] = addr[t], new[u] = addr[u]
  PROVE  Placed(g, addr, t, u) <=> Placed(g, new, t, u)
  BY DEF Placed, TakenOver, RangeIn

(* The next tensor is given memory, away from all that are needed.         *)
LEMMA GiveMemory ==
  ASSUME GraphOK, NEW st, NEW b \in Own, MemoryInv(st, b), NEW st2 \in State,
         Kept(st.chunks, st2.chunks), Sound(st2.chunks, MemOf(st2.hash)),
         st2.hash[b].allocated, st2.hash[b].addr \in Address,
         \A t \in Tensors \ {b} : /\ st2.hash[t].addr = st.hash[t].addr
                                  /\ st2.hash[t].allocated => st.hash[t].allocated,
         \A t \in Own : t < b => Placed(graph, AddrOf(st2.hash), t, b)
  PROVE  MemoryInv(st2, b + 1)
  <1> DEFINE addr == AddrOf(st2.hash)
  <1>1. /\ st \in State /\ st.chunks \in Chunks /\ st2.chunks \in Chunks
        /\ b \in Tensors /\ b \in Nat
    BY StateFacts, NumberFacts DEF MemoryInv, Own
  <1>2. \A t \in Own : t \in Tensors /\ t \in Nat /\ (t < b + 1 <=> t < b \/ t = b) /\ (t < b => t # b)
    BY <1>1, NumberFacts DEF Own
  <1>3. \A t \in Tensors \ {b} : addr[t] = AddrOf(st.hash)[t]
    BY DEF AddrOf
  <1>4. \A t \in Tensors : st2.hash[t].allocated => t \in Own /\ t < b + 1
    BY <1>1, <1>2 DEF MemoryInv
  <1>5. HasPlace(st2.chunks, addr, b)
    <2> DEFINE mem == MemOf(st2.hash)
    <2>1. b \in DOMAIN mem
      BY <1>1, MemFacts, Zenon
    <2>2. addr[b] = st2.hash[b].addr
      BY <1>1 DEF AddrOf
    <2>3. mem[b] = RangeIn(graph, addr, b) /\ mem[b].chunk = addr[b].chunk
      BY <2>1 DEF MemOf, RangeIn
    <2>4. mem[b].chunk \in DOMAIN st2.chunks /\ End(mem[b]) <= st2.chunks[mem[b].chunk].max_size
      BY <2>1 DEF Sound
    <2> HIDE DEF mem, addr
    <2> QED
      BY <2>2, <2>3, <2>4 DEF HasPlace
  <1>6. \A t \in Own : t < b + 1 => HasPlace(st2.chunks, addr, t)
    <2> SUFFICES ASSUME NEW t \in Own, t < b PROVE HasPlace(st2.chunks, addr, t)
      BY <1>2, <1>5
    <2>1. HasPlace(st.chunks, AddrOf(st.hash), t)
      BY DEF MemoryInv
    <2>2. HasPlace(st2.chunks, AddrOf(st.hash), t)
      BY <1>1, <1>2, <2>1, PlaceKept
    <2> QED
      BY <1>2, <1>3, <2>2 DEF HasPlace, RangeIn
  <1> HIDE DEF addr
  <1>7. ASSUME NEW t \in Own, NEW u \in Own, t < u, u < b + 1
        PROVE  Placed(graph, addr, t, u)
    <2>1. CASE u = b
      BY <1>7, <2>1 DEF addr
    <2>2. CASE u < b
      <3>1. t < b /\ t # b /\ u # b /\ t \in Tensors /\ u \in Tensors
        BY <1>1, <1>2, <1>7, <2>2
      <3>2. Placed(graph, AddrOf(st.hash), t, u)
        BY <1>7, <2>2 DEF MemoryInv
      <3>3. addr[t] = AddrOf(st.hash)[t] /\ addr[u] = AddrOf(st.hash)[u]
        BY <3>1, <1>3
      <3> QED
        BY <3>2, <3>3, PlacedSame
    <2> QED
      BY <1>2, <1>7, <2>1, <2>2
  <1> QED
    BY <1>4, <1>6, <1>7 DEF MemoryInv, addr

(* Memory of its own is nobody else's. *)
LEMMA AllocMemory ==
  ASSUME GraphOK, NEW st, NEW b \in Own, MemoryInv(st, b),
         \A t \in Own : t < b /\ Needed(t, b, 0) => st.hash[t].allocated
  PROVE  MemoryInv([chunks |-> AfterAlloc(st.chunks, Size(b)),
                    hash |-> [st.hash EXCEPT ![b].addr = AllocAddress(st.chunks, Size(b)),
                                             ![b].allocated = TRUE]], b + 1)
  <1> DEFINE a == AllocAddress(st.chunks, Size(b))
             cs == AfterAlloc(st.chunks, Size(b))
             h == Given(st.hash, b, a)
             st2 == [chunks |-> cs, hash |-> h]
             mem == MemOf(st.hash)
             mem2 == MemOf(h)
             addr == AddrOf(h)
  <1>1. /\ st \in State /\ st.chunks \in Chunks /\ st.hash \in [Tensors -> HashNode]
        /\ b \in Tensors /\ b \in Nat /\ Size(b) \in Nat /\ Size(b) <= Huge
        /\ Sound(st.chunks, mem)
    BY StateFacts, NumberFacts, GraphSizes DEF MemoryInv, Own
  <1>2. a \in Address
    <2>1. \A k \in DOMAIN st.chunks : Separate(st.chunks[k].blocks)
      BY <1>1 DEF Sound
    <2>2. a.chunk \in Nat \ {0} /\ a.offset \in Nat
      BY <1>1, <2>1, AllocFacts
    <2>3. a = [chunk |-> a.chunk, offset |-> a.offset]
      BY DEF AllocAddress
    <2> QED
      BY <2>2, <2>3 DEF Address
  <1>3. st2.chunks = cs /\ st2.hash = h
    OBVIOUS
  <1> HIDE DEF a
  <1>4. /\ h \in [Tensors -> HashNode] /\ h[b].addr = a /\ h[b].allocated
        /\ \A u \in Tensors \ {b} : h[u] = st.hash[u]
    BY <1>1, <1>2, GivenFacts
  <1> HIDE DEF h, st2, cs
  <1>5. b \notin DOMAIN mem
    <2>1. ~st.hash[b].allocated
      BY <1>1 DEF MemoryInv
    <2> QED
      BY <2>1, MemFacts
  <1>6. DOMAIN mem2 = DOMAIN mem \union {b}
    <2>1. DOMAIN mem = {u \in Tensors : st.hash[u].allocated}
      BY MemFacts
    <2>2. DOMAIN mem2 = {u \in Tensors : h[u].allocated}
      BY MemFacts
    <2> QED
      BY <2>1, <2>2, <1>1, <1>4
  <1>7. mem2[b] = [chunk |-> a.chunk, offset |-> a.offset, size |-> Size(b)]
    BY <1>1, <1>4, MemFacts
  <1>9. \A u \in DOMAIN mem : u \in Tensors /\ st.hash[u].allocated
    <2>1. DOMAIN mem = {u \in Tensors : st.hash[u].allocated}
      BY MemFacts
    <2> QED
      BY <2>1
  <1>8. ASSUME NEW u \in DOMAIN mem PROVE mem2[u] = mem[u]
    <2>1. u \in Tensors /\ u # b /\ st.hash[u].allocated /\ h[u] = st.hash[u]
      BY <1>4, <1>5, <1>8, <1>9
    <2>2. mem2[u] = [chunk |-> h[u].addr.chunk, offset |-> h[u].addr.offset, size |-> Size(u)]
      BY <2>1, MemFacts
    <2>3. mem[u] = [chunk |-> st.hash[u].addr.chunk, offset |-> st.hash[u].addr.offset, size |-> Size(u)]
      BY <2>1, MemFacts
    <2> QED
      BY <2>1, <2>2, <2>3
  <1>10. \A u \in Tensors : h[u].allocated => u \in DOMAIN mem2 /\ mem2[u] = RangeIn(graph, addr, u)
    BY DEF MemOf
  <1> HIDE DEF mem, mem2, addr
  <1>12. Sound(cs, mem2) /\ Kept(st.chunks, cs)
    BY <1>1, <1>5, <1>6, <1>7, <1>8, AllocSound DEF a, cs
  <1>13. st2 \in State
    BY <1>4, <1>12 DEF State, Sound, st2
  <1>14. ASSUME NEW t \in Own, t < b PROVE Placed(graph, addr, t, b)
    <2> SUFFICES ASSUME Needed(t, b, 0)
                 PROVE  Apart(RangeIn(graph, addr, t), RangeIn(graph, addr, b))
      BY DEF Placed
    <2>1. t \in Tensors /\ t # b /\ st.hash[t].allocated
      BY <1>1, <1>14 DEF Own
    <2>2. h[t].allocated
      BY <2>1, <1>4
    <2>3. t \in DOMAIN mem2 /\ b \in DOMAIN mem2 /\ mem2[t] = RangeIn(graph, addr, t)
          /\ mem2[b] = RangeIn(graph, addr, b)
      BY <2>1, <2>2, <1>1, <1>4, <1>10
    <2>4. Apart(mem2[t], mem2[b])
      BY <2>1, <2>3, <1>12, HoldersApart
    <2> QED
      BY <2>3, <2>4
  <1>15. MemoryInv(st2, b + 1)
    <2>1. \A t \in Tensors \ {b} : /\ st2.hash[t].addr = st.hash[t].addr
                                   /\ st2.hash[t].allocated => st.hash[t].allocated
      BY <1>3, <1>4
    <2>2. \A t \in Own : t < b => Placed(graph, AddrOf(st2.hash), t, b)
      BY <1>3, <1>14 DEF addr
    <2>3. Sound(st2.chunks, MemOf(st2.hash)) /\ Kept(st.chunks, st2.chunks)
      BY <1>3, <1>12 DEF mem2
    <2>4. st2.hash[b].allocated /\ st2.hash[b].addr \in Address
      BY <1>2, <1>3, <1>4
    <2> QED
      BY <1>13, <2>1, <2>2, <2>3, <2>4, GiveMemory
  <1> QED
    BY <1>15 DEF st2, h, cs, a, Given

(* A source that can be taken over is not needed after the node.           *)
LEMMA ReusableFacts ==
  ASSUME GraphOK, NEW m \in Tensors, NEW j \in DOMAIN Src(m), NEW h,
         h[Src(m)[j]].n_children = Cardinality(Left(Src(m)[j], m, 0)),
         h[Src(m)[j]].n_views = Cardinality(LeftViews(Src(m)[j], m, 0)),
         Reusable(h, m, Src(m)[j])
  PROVE  /\ ~Needed(Src(m)[j], m + 1, 0)
         /\ LeftViews(Src(m)[j], m, 0) = {}
  <1> DEFINE p == Src(m)[j]
  <1>1. /\ p \in Tensors /\ m \in Nat /\ j \in Nat /\ j > 0
        /\ <<m, j>> \in Uses(p) /\ Consumed(p)
    <2>1. j \in 1 .. Len(Src(m))
      BY UseFacts
    <2> QED
      BY <2>1, UseFacts, NumberFacts
  <1>2. /\ Cardinality(Left(p, m, 0)) = 1 /\ Cardinality(LeftViews(p, m, 0)) = 0
        /\ p \notin Outputs
    BY DEF Reusable
  <1> HIDE DEF p
  <1>3. <<m, j>> \in Left(p, m, 0)
    BY <1>1 DEF Left
  <1>4. Left(p, m, 0) = {<<m, j>>}
    <2>1. IsFiniteSet(Left(p, m, 0))
      BY FiniteFacts
    <2>2. PICK x : Left(p, m, 0) = {x}
      BY <1>2, <2>1, FS_Singleton
    <2> QED
      BY <1>3, <2>2
  <1>5. LeftViews(p, m, 0) = {}
    BY <1>2, FiniteFacts
  <1>6. Left(p, m + 1, 0) = {}
    <2>1. Left(p, m + 1, 0) \subseteq Left(p, m, 0)
      BY <1>1, LeftLess
    <2>2. <<m, j>> \notin Left(p, m + 1, 0)
      BY <1>1 DEF Left
    <2> QED
      BY <1>4, <2>1, <2>2
  <1>7. LeftViews(p, m + 1, 0) = {}
    <2>1. LeftViews(p, m + 1, 0) \subseteq LeftViews(p, m, 0)
      BY <1>1, LeftLess
    <2> QED
      BY <2>1, <1>5
  <1> QED
    BY <1>1, <1>2, <1>5, <1>6, <1>7 DEF Needed, p

(* The hash table after a take-over. *)
Taken(h, t, p) ==
    [h EXCEPT ![t].addr = h[p].addr, ![t].allocated = TRUE, ![p].allocated = FALSE]

(* What a take-over changes in the hash table. *)
LEMMA TakenFacts ==
  ASSUME NEW h \in [Tensors -> HashNode], NEW t \in Tensors, NEW p \in Tensors, p # t,
         h[p].addr \in Address
  PROVE  /\ Taken(h, t, p) \in [Tensors -> HashNode]
         /\ Taken(h, t, p)[t].addr = h[p].addr /\ Taken(h, t, p)[t].allocated
         /\ ~Taken(h, t, p)[p].allocated
         /\ \A u \in Tensors : /\ Taken(h, t, p)[u].n_children = h[u].n_children
                                /\ Taken(h, t, p)[u].n_views = h[u].n_views
                                /\ (u # t => Taken(h, t, p)[u].addr = h[u].addr)
                                /\ (u \notin {t, p} => Taken(h, t, p)[u] = h[u])
  <1> DEFINE g == Given(h, t, h[p].addr)
             e == [g[p] EXCEPT !.allocated = FALSE]
             new == Taken(h, t, p)
  <1>1. new = [g EXCEPT ![p].allocated = FALSE]
    BY DEF Taken, Given
  <1>2. new = [g EXCEPT ![p] = e]
    BY <1>1
  <1>3. /\ g \in [Tensors -> HashNode]
        /\ g[t].addr = h[p].addr /\ g[t].allocated
        /\ g[t].n_children = h[t].n_children /\ g[t].n_views = h[t].n_views
        /\ \A u \in Tensors \ {t} : g[u] = h[u]
    BY GivenFacts
  <1> HIDE DEF g, new
  <1>4. g[p] \in HashNode /\ g[p] = h[p]
    BY <1>3
  <1>5. /\ e \in HashNode /\ e.allocated = FALSE /\ e.addr = h[p].addr
        /\ e.n_children = h[p].n_children /\ e.n_views = h[p].n_views
    BY <1>4 DEF HashNode
  <1> HIDE DEF e
  <1>6. /\ new \in [Tensors -> HashNode]
        /\ \A u \in Tensors : new[u] = IF u = p THEN e ELSE g[u]
    BY <1>2, <1>3, <1>5, TableFacts
  <1>7. new[t] = g[t] /\ new[p] = e /\ \A u \in Tensors \ {t, p} : new[u] = h[u]
    BY <1>3, <1>6
  <1> QED
    BY <1>3, <1>5, <1>6, <1>7 DEF new

(* The memory of a source that nobody else needs, less what is too much.   *)
LEMMA TakeMemory ==
  ASSUME GraphOK, NEW st, NEW b \in Own, MemoryInv(st, b), Op(b) = "elementwise",
         NEW p \in Tensors, p < b, Reusable(st.hash, b, p),
         ~Needed(p, b + 1, 0), LeftViews(p, b, 0) = {},
         \A t \in Own : t < b /\ Needed(t, b, 0) => st.hash[t].allocated
  PROVE  /\ MemoryInv(TakeOver(st, b, p), b + 1)
         /\ TakeOver(st, b, p).hash = Taken(st.hash, b, p)
  <1> DEFINE a == st.hash[p].addr
             extra == Size(p) - Size(b)
             cs == IF extra > 0 THEN AfterFree(st.chunks, [a EXCEPT !.offset = @ + Size(b)], extra)
                   ELSE st.chunks
             h == Taken(st.hash, b, p)
             st2 == TakeOver(st, b, p)
             mem == MemOf(st.hash)
             mem2 == MemOf(h)
             addr == AddrOf(h)
             mem1 == [u \in (DOMAIN mem \ {p}) \union {b} |-> IF u = b THEN mem[p] ELSE mem[u]]
  <1>1. /\ st \in State /\ st.chunks \in Chunks /\ st.hash \in [Tensors -> HashNode]
        /\ b \in Tensors /\ b \in Nat /\ p \in Nat /\ p # b
        /\ Sound(st.chunks, mem)
    <2>1. st \in State /\ Sound(st.chunks, mem)
      BY DEF MemoryInv
    <2>2. st.chunks \in Chunks /\ st.hash \in [Tensors -> HashNode]
      BY <2>1, StateFacts
    <2>3. b \in Tensors /\ b \in Nat /\ p \in Nat
      BY NumberFacts DEF Own
    <2> QED
      BY <2>1, <2>2, <2>3
  <1>2. /\ st.hash[p].allocated /\ p \in Own /\ Layout(b) = Layout(p)
        /\ a \in Address
    <2>1. st.hash[p].allocated /\ Layout(b) = Layout(p)
      BY DEF Reusable
    <2>2. p \in Own
      BY <2>1 DEF MemoryInv
    <2>3. HasPlace(st.chunks, AddrOf(st.hash), p)
      BY <2>2 DEF MemoryInv
    <2> QED
      BY <2>1, <2>2, <2>3 DEF HasPlace, AddrOf
  <1>3. /\ Size(b) \in Nat /\ Size(p) \in Nat /\ extra \in Nat
        /\ Size(b) + extra = Size(p)
    <2>1. Size(b) \in Nat /\ Size(p) \in Nat
      BY <1>1, GraphSizes
    <2>2. Op(b) # "wide"
      OBVIOUS
    <2>3. Size(b) <= Size(p)
      BY <1>1, <1>2, <2>2, GraphSizes
    <2> QED
      BY <2>1, <2>3
  <1>4. st2 = [chunks |-> cs, hash |-> h] /\ st2.chunks = cs /\ st2.hash = h
    BY DEF TakeOver, Taken
  <1>5. /\ h \in [Tensors -> HashNode] /\ h[b].addr = a /\ h[b].allocated
        /\ ~h[p].allocated
        /\ \A u \in Tensors \ {b} : h[u].addr = st.hash[u].addr
        /\ \A u \in Tensors \ {b, p} : h[u] = st.hash[u]
    BY <1>1, <1>2, TakenFacts
  <1> HIDE DEF h, st2, a
  <1>6. /\ p \in DOMAIN mem /\ b \notin DOMAIN mem
        /\ mem[p] = [chunk |-> a.chunk, offset |-> a.offset, size |-> Size(p)]
        /\ DOMAIN mem = {u \in Tensors : st.hash[u].allocated}
    <2>1. DOMAIN mem = {u \in Tensors : st.hash[u].allocated}
      BY MemFacts
    <2>2. ~st.hash[b].allocated
      BY <1>1 DEF MemoryInv
    <2>3. mem[p] = [chunk |-> a.chunk, offset |-> a.offset, size |-> Size(p)]
      BY <1>2, MemFacts DEF a
    <2> QED
      BY <1>2, <2>1, <2>2, <2>3
  <1>7. /\ DOMAIN mem2 = {u \in Tensors : h[u].allocated}
        /\ DOMAIN mem2 = (DOMAIN mem \ {p}) \union {b}
    <2>1. DOMAIN mem2 = {u \in Tensors : h[u].allocated}
      BY MemFacts
    <2> QED
      BY <2>1, <1>1, <1>5, <1>6
  <1>8. mem2[b] = [chunk |-> a.chunk, offset |-> a.offset, size |-> Size(b)]
    BY <1>1, <1>5, MemFacts
  <1>9. ASSUME NEW u \in DOMAIN mem \ {p} PROVE mem2[u] = mem[u]
    <2>1. u \in Tensors /\ u # b /\ st.hash[u].allocated /\ h[u] = st.hash[u]
      BY <1>5, <1>6, <1>9
    <2>2. mem2[u] = [chunk |-> h[u].addr.chunk, offset |-> h[u].addr.offset, size |-> Size(u)]
      BY <2>1, MemFacts
    <2>3. mem[u] = [chunk |-> st.hash[u].addr.chunk, offset |-> st.hash[u].addr.offset, size |-> Size(u)]
      BY <2>1, MemFacts
    <2> QED
      BY <2>1, <2>2, <2>3
  <1>10. \A u \in Tensors : h[u].allocated => mem2[u] = RangeIn(graph, addr, u)
    BY DEF MemOf
  <1>11. mem[p] \in MemRange
    BY <1>1, <1>6 DEF Sound
  <1> HIDE DEF mem, mem2, addr
  <1>12. /\ DOMAIN mem1 = (DOMAIN mem \ {p}) \union {b} /\ mem1[b] = mem[p]
         /\ \A u \in DOMAIN mem \ {p} : mem1[u] = mem[u]
    BY <1>6
  <1> HIDE DEF mem1
  <1>13. Sound(st.chunks, mem1)
    BY <1>1, <1>6, <1>12, RenameSound, SMTT(60)
  <1>14. Sound(cs, mem2) /\ Kept(st.chunks, cs)
    <2>1. CASE extra > 0
      <3> DEFINE at == [a EXCEPT !.offset = @ + Size(b)]
      <3>1. cs = AfterFree(st.chunks, at, extra)
        BY <2>1
      <3>2. at.chunk = mem1[b].chunk /\ at.offset = mem1[b].offset + Size(b)
        BY <1>2, <1>3, <1>6, <1>12 DEF Address
      <3>3. Size(b) + extra = mem1[b].size /\ extra \in Nat /\ Size(b) \in Nat
        BY <1>3, <1>6, <1>12
      <3>4. Shortened(mem1, mem2, b, Size(b))
        <4>1. DOMAIN mem2 = DOMAIN mem1
          BY <1>7, <1>12
        <4>2. mem2[b] = [chunk |-> mem1[b].chunk, offset |-> mem1[b].offset, size |-> Size(b)]
          BY <1>6, <1>8, <1>12
        <4>3. \A u \in DOMAIN mem1 \ {b} : mem2[u] = mem1[u]
          BY <1>9, <1>12
        <4> QED
          BY <4>1, <4>2, <4>3 DEF Shortened
      <3>5. b \in DOMAIN mem1
        BY <1>12
      <3> HIDE DEF at, extra, cs
      <3>6. Sound(AfterFree(st.chunks, at, extra), mem2) /\ Kept(st.chunks, AfterFree(st.chunks, at, extra))
        BY <1>13, <3>2, <3>3, <3>4, <3>5, FreeSound
      <3> QED
        BY <3>1, <3>6
    <2>2. CASE ~(extra > 0)
      <3>1. cs = st.chunks /\ Size(p) = Size(b)
        BY <2>2, <1>3
      <3>2. \A u \in DOMAIN mem2 : u \in DOMAIN mem1 /\ mem2[u] = mem1[u]
        BY <3>1, <1>6, <1>7, <1>8, <1>9, <1>12
      <3>3. Sound(st.chunks, mem2)
        BY <1>13, <3>2, FewerSound
      <3>4. Kept(st.chunks, st.chunks)
        BY <1>1, ChunksFacts DEF Kept
      <3> QED
        BY <3>1, <3>3, <3>4
    <2> QED
      BY <2>1, <2>2
  <1> HIDE DEF cs, extra
  <1>15. st2 \in State
    BY <1>4, <1>5, <1>14 DEF State, Sound
  <1>16. ASSUME NEW t \in Own, t < b PROVE Placed(graph, addr, t, b)
    <2> SUFFICES ASSUME Needed(t, b, 0)
                 PROVE  \/ Apart(RangeIn(graph, addr, t), RangeIn(graph, addr, b))
                        \/ TakenOver(addr, t, b)
      BY DEF Placed
    <2>1. t \in Tensors /\ t # b /\ st.hash[t].allocated
      BY <1>1, <1>16 DEF Own
    <2>2. CASE t = p
      <3>1. addr[b] = addr[p]
        BY <1>1, <1>5 DEF addr, AddrOf, a
      <3> QED
        BY <2>2, <3>1, <1>2 DEF TakenOver
    <2>3. CASE t # p
      <3>1. h[t].allocated
        BY <2>1, <2>3, <1>5
      <3>2. t \in DOMAIN mem2 /\ b \in DOMAIN mem2
        BY <2>1, <3>1, <1>1, <1>5, <1>7
      <3>3. mem2[t] = RangeIn(graph, addr, t) /\ mem2[b] = RangeIn(graph, addr, b)
        BY <2>1, <3>1, <1>1, <1>5, <1>10
      <3>4. Apart(mem2[t], mem2[b])
        BY <2>1, <3>2, <1>14, HoldersApart
      <3> QED
        BY <3>3, <3>4
    <2> QED
      BY <2>2, <2>3
  <1>17. MemoryInv(st2, b + 1)
    <2>1. \A t \in Tensors \ {b} : /\ st2.hash[t].addr = st.hash[t].addr
                                   /\ st2.hash[t].allocated => st.hash[t].allocated
      BY <1>4, <1>5
    <2>2. \A t \in Own : t < b => Placed(graph, AddrOf(st2.hash), t, b)
      BY <1>4, <1>16 DEF addr
    <2>3. Sound(st2.chunks, MemOf(st2.hash)) /\ Kept(st.chunks, st2.chunks)
      BY <1>4, <1>14 DEF mem2
    <2>4. st2.hash[b].allocated /\ st2.hash[b].addr \in Address
      BY <1>2, <1>4, <1>5
    <2> QED
      BY <1>15, <2>1, <2>2, <2>3, <2>4, GiveMemory
  <1> QED
    BY <1>4, <1>17 DEF st2, h
-----------------------------------------------------------------------------
(* The state of planning: the node to plan is m, i of its sources are      *)
(* dealt with, the tensors before b have been given memory, and those in K *)
(* have given theirs to node m.                                            *)

Counted(h, m, i) ==
    \A t \in Tensors : /\ h[t].n_children = Cardinality(Left(t, m, i))
                       /\ h[t].n_views = Cardinality(LeftViews(t, m, i))

Holding(h, b, m, i, K) ==
    \A t \in Own : h[t].allocated <=> t < b /\ Needed(t, m, i) /\ t \notin K

PlanInv(st, b, m, i, K) ==
    MemoryInv(st, b) /\ Counted(st.hash, m, i) /\ Holding(st.hash, b, m, i, K)

-----------------------------------------------------------------------------
(* Lists of tensors, dealt with one after the other.                       *)

(* The states from tensor to tensor of AllocateNodes. *)
Allocates(q, st, ts) ==
    /\ q[0] = st
    /\ \A i \in 1 .. Len(ts) : q[i] = AllocateNode(q[i - 1], ts[i])
    /\ AllocateNodes(st, ts) = q[Len(ts)]

(* AllocateNodes goes through the list one by one. *)
LEMMA AllocatesFacts ==
  ASSUME NEW st, NEW ts, Len(ts) \in Nat
  PROVE  \E q : Allocates(q, st, ts)
  <1> DEFINE l == Len(ts)
             Run(q, m) == /\ q = [i \in 0 .. m |-> q[i]] /\ q[0] = st
                          /\ \A i \in 1 .. m : q[i] = AllocateNode(q[i - 1], ts[i])
             S == {m \in 0 .. l : \E q : Run(q, m)}
             g == CHOOSE q : q = [i \in 0 .. l |-> IF i = 0 THEN st
                                                   ELSE AllocateNode(q[i - 1], ts[i])]
  <1>1. l \in Nat
    OBVIOUS
  <1>2. AllocateNodes(st, ts) = g[l]
    BY DEF AllocateNodes
  <1> HIDE DEF l
  <1>3. 0 \in S
    <2> DEFINE p == [i \in 0 .. 0 |-> st]
    <2>1. p[0] = st /\ p = [i \in 0 .. 0 |-> p[i]] /\ 0 \in 0 .. l
      BY <1>1
    <2> HIDE DEF p
    <2> QED
      BY <2>1
  <1>4. ASSUME NEW m \in 0 .. l - 1, m \in S PROVE m + 1 \in S
    <2>1. PICK q : Run(q, m)
      BY <1>4
    <2> DEFINE new == AllocateNode(q[m], ts[m + 1])
               p == [i \in 0 .. m + 1 |-> IF i = m + 1 THEN new ELSE q[i]]
    <2> HIDE DEF new
    <2>2. p = [i \in 0 .. m + 1 |-> p[i]]
      OBVIOUS
    <2>3. p[0] = st /\ p[m + 1] = new /\ p[m] = q[m]
      BY <2>1
    <2>4. \A i \in 1 .. m : p[i] = q[i] /\ p[i - 1] = q[i - 1]
      OBVIOUS
    <2>5. ASSUME NEW i \in 1 .. m + 1 PROVE p[i] = AllocateNode(p[i - 1], ts[i])
      <3>1. CASE i = m + 1
        <4>1. i - 1 = m
          BY <3>1
        <4> QED
          BY <3>1, <4>1, <2>3 DEF new
      <3>2. CASE i # m + 1
        <4>1. i \in 1 .. m
          BY <3>2
        <4> HIDE DEF p
        <4> QED
          BY <4>1, <2>1, <2>4
      <3> QED
        BY <3>1, <3>2
    <2>6. m + 1 \in 0 .. l
      BY <1>1
    <2> HIDE DEF p
    <2>7. Run(p, m + 1)
      BY <2>2, <2>3, <2>5
    <2> QED
      BY <2>6, <2>7
  <1>5. l \in S
    <2> HIDE DEF S
    <2>1. \A m \in 0 .. l : m \in S
      BY <1>1, <1>3, <1>4, UpTo
    <2> QED
      BY <1>1, <2>1
  <1>6. PICK q : Run(q, l)
    BY <1>5
  <1>7. q = [i \in 0 .. l |-> IF i = 0 THEN st ELSE AllocateNode(q[i - 1], ts[i])]
    <2>1. ASSUME NEW i \in 0 .. l
          PROVE  q[i] = IF i = 0 THEN st ELSE AllocateNode(q[i - 1], ts[i])
      <3>1. i # 0 => i \in 1 .. l
        BY <1>1
      <3> QED
        BY <1>6, <3>1
    <2> QED
      BY <1>6, <2>1
  <1>8. g = [i \in 0 .. l |-> IF i = 0 THEN st ELSE AllocateNode(g[i - 1], ts[i])]
    BY <1>7
  <1> HIDE DEF g
  <1>9. /\ g[0] = st
        /\ \A i \in 1 .. l : g[i] = AllocateNode(g[i - 1], ts[i])
    BY <1>1, <1>8
  <1> QED
    BY <1>2, <1>9 DEF l, Allocates

(* The states from parent to parent of UpdateParents. *)
Updates(q, st, ps) ==
    /\ q[0] = st
    /\ \A i \in 1 .. Len(ps) : q[i] = UpdateParent(q[i - 1], ps[i])
    /\ UpdateParents(st, ps) = q[Len(ps)]

(* UpdateParents goes through the list one by one. *)
LEMMA UpdatesFacts ==
  ASSUME NEW st, NEW ps, Len(ps) \in Nat
  PROVE  \E q : Updates(q, st, ps)
  <1> DEFINE l == Len(ps)
             Run(q, m) == /\ q = [i \in 0 .. m |-> q[i]] /\ q[0] = st
                          /\ \A i \in 1 .. m : q[i] = UpdateParent(q[i - 1], ps[i])
             S == {m \in 0 .. l : \E q : Run(q, m)}
             g == CHOOSE q : q = [i \in 0 .. l |-> IF i = 0 THEN st
                                                   ELSE UpdateParent(q[i - 1], ps[i])]
  <1>1. l \in Nat
    OBVIOUS
  <1>2. UpdateParents(st, ps) = g[l]
    BY DEF UpdateParents
  <1> HIDE DEF l
  <1>3. 0 \in S
    <2> DEFINE p == [i \in 0 .. 0 |-> st]
    <2>1. p[0] = st /\ p = [i \in 0 .. 0 |-> p[i]] /\ 0 \in 0 .. l
      BY <1>1
    <2> HIDE DEF p
    <2> QED
      BY <2>1
  <1>4. ASSUME NEW m \in 0 .. l - 1, m \in S PROVE m + 1 \in S
    <2>1. PICK q : Run(q, m)
      BY <1>4
    <2> DEFINE new == UpdateParent(q[m], ps[m + 1])
               p == [i \in 0 .. m + 1 |-> IF i = m + 1 THEN new ELSE q[i]]
    <2> HIDE DEF new
    <2>2. p = [i \in 0 .. m + 1 |-> p[i]]
      OBVIOUS
    <2>3. p[0] = st /\ p[m + 1] = new /\ p[m] = q[m]
      BY <2>1
    <2>4. \A i \in 1 .. m : p[i] = q[i] /\ p[i - 1] = q[i - 1]
      OBVIOUS
    <2>5. ASSUME NEW i \in 1 .. m + 1 PROVE p[i] = UpdateParent(p[i - 1], ps[i])
      <3>1. CASE i = m + 1
        <4>1. i - 1 = m
          BY <3>1
        <4> QED
          BY <3>1, <4>1, <2>3 DEF new
      <3>2. CASE i # m + 1
        <4>1. i \in 1 .. m
          BY <3>2
        <4> HIDE DEF p
        <4> QED
          BY <4>1, <2>1, <2>4
      <3> QED
        BY <3>1, <3>2
    <2>6. m + 1 \in 0 .. l
      BY <1>1
    <2> HIDE DEF p
    <2>7. Run(p, m + 1)
      BY <2>2, <2>3, <2>5
    <2> QED
      BY <2>6, <2>7
  <1>5. l \in S
    <2> HIDE DEF S
    <2>1. \A m \in 0 .. l : m \in S
      BY <1>1, <1>3, <1>4, UpTo
    <2> QED
      BY <1>1, <2>1
  <1>6. PICK q : Run(q, l)
    BY <1>5
  <1>7. q = [i \in 0 .. l |-> IF i = 0 THEN st ELSE UpdateParent(q[i - 1], ps[i])]
    <2>1. ASSUME NEW i \in 0 .. l
          PROVE  q[i] = IF i = 0 THEN st ELSE UpdateParent(q[i - 1], ps[i])
      <3>1. i # 0 => i \in 1 .. l
        BY <1>1
      <3> QED
        BY <1>6, <3>1
    <2> QED
      BY <1>6, <2>1
  <1>8. g = [i \in 0 .. l |-> IF i = 0 THEN st ELSE UpdateParent(g[i - 1], ps[i])]
    BY <1>7
  <1> HIDE DEF g
  <1>9. /\ g[0] = st
        /\ \A i \in 1 .. l : g[i] = UpdateParent(g[i - 1], ps[i])
    BY <1>1, <1>8
  <1> QED
    BY <1>2, <1>9 DEF l, Updates
-----------------------------------------------------------------------------
(* Giving memory to a node.                                                *)

(* The parts of an own tensor. *)
LEMMA OwnFacts ==
  ASSUME GraphOK, NEW t \in Own
  PROVE  t \in Tensors /\ t \in Nat /\ ~External(t) /\ ~IsView(t) /\ Root(t) = t
  <1>1. t \in Tensors /\ ~External(t) /\ ~IsView(t)
    BY DEF Own
  <1> QED
    BY <1>1, GraphFacts, NumberFacts

(* A tensor is used by later nodes only. *)
LEMMA NewNeeded ==
  ASSUME GraphOK, NEW m \in Tensors
  PROVE  Needed(m, m, 0)
  <1>1. ASSUME NEW use \in Uses(m) PROVE use \in Left(m, m, 0)
    <2>1. /\ use[1] \in Tensors /\ use[1] \in Nat
          /\ use[2] \in DOMAIN Src(use[1]) /\ Src(use[1])[use[2]] = m
      BY UseType, NumberFacts
    <2>2. m < use[1]
      BY <2>1, UseFacts
    <2> QED
      BY <2>1, <2>2, NumberFacts DEF Left
  <1> QED
    BY <1>1, ConsumedUses DEF Needed

(* A source is needed until it is used. *)
LEMMA SourceNeeded ==
  ASSUME GraphOK, NEW m \in Tensors, NEW j \in DOMAIN Src(m)
  PROVE  Needed(Src(m)[j], m, 0)
  <1>1. <<m, j>> \in Uses(Src(m)[j]) /\ j \in Nat /\ j > 0 /\ m \in Nat
    <2>1. j \in 1 .. Len(Src(m))
      BY UseFacts
    <2> QED
      BY <2>1, UseFacts, NumberFacts
  <1>2. <<m, j>> \in Left(Src(m)[j], m, 0)
    BY <1>1 DEF Left
  <1> QED
    BY <1>2 DEF Needed

(* The sources of a node have memory already. *)
LEMMA AllocateSources ==
  ASSUME GraphOK, NEW m \in Nodes, NEW st, PlanInv(st, m, m, 0, {})
  PROVE  AllocateNodes(st, Src(m)) = st
  <1>1. m \in Tensors /\ Len(Src(m)) \in Nat /\ DOMAIN Src(m) = 1 .. Len(Src(m))
    BY NumberFacts, GraphFacts
  <1>2. ASSUME NEW j \in 1 .. Len(Src(m)) PROVE AllocateNode(st, Src(m)[j]) = st
    <2> DEFINE p == Src(m)[j]
    <2>1. p \in Tensors /\ p < m /\ Needed(p, m, 0)
      BY <1>1, UseFacts, SourceNeeded
    <2> HIDE DEF p
    <2>2. External(p) \/ IsView(p) \/ st.hash[p].allocated
      <3> SUFFICES ASSUME ~External(p), ~IsView(p) PROVE st.hash[p].allocated
        OBVIOUS
      <3>1. p \in Own
        BY <2>1 DEF Own
      <3> QED
        BY <2>1, <3>1 DEF PlanInv, Holding
    <2>3. AllocateNode(st, p) = st
      BY <2>2 DEF AllocateNode
    <2> QED
      BY <2>3 DEF p
  <1>3. PICK q : Allocates(q, st, Src(m))
    BY <1>1, AllocatesFacts
  <1> DEFINE S == {i \in 0 .. Len(Src(m)) : q[i] = st}
  <1>4. 0 \in S
    BY <1>1, <1>3 DEF Allocates
  <1>5. ASSUME NEW i \in 0 .. Len(Src(m)) - 1, i \in S PROVE i + 1 \in S
    <2>1. i + 1 \in 1 .. Len(Src(m)) /\ (i + 1) - 1 = i /\ q[i] = st
      BY <1>1, <1>5
    <2>2. q[i + 1] = AllocateNode(q[i], Src(m)[i + 1])
      BY <1>3, <2>1 DEF Allocates
    <2> QED
      BY <1>2, <2>1, <2>2
  <1> HIDE DEF S
  <1>6. Len(Src(m)) \in S
    <2>1. \A i \in 0 .. Len(Src(m)) : i \in S
      BY <1>1, <1>4, <1>5, UpTo
    <2> QED
      BY <1>1, <2>1
  <1> QED
    BY <1>3, <1>6 DEF S, Allocates

(* What giving memory to node m makes of the tensors that have memory. *)
LEMMA HoldingNext ==
  ASSUME GraphOK, NEW m \in Nodes, NEW h, NEW new, NEW K,
         Holding(h, m, m, 0, {}),
         m \in Own => new[m].allocated,
         \A t \in Tensors \ {m} : new[t].allocated <=> h[t].allocated /\ t \notin K,
         m \notin K
  PROVE  Holding(new, m + 1, m, 0, K)
  <1> SUFFICES ASSUME NEW t \in Own
               PROVE  new[t].allocated <=> t < m + 1 /\ Needed(t, m, 0) /\ t \notin K
    BY DEF Holding
  <1>1. t \in Tensors /\ t \in Nat /\ m \in Nat
    BY OwnFacts, NumberFacts
  <1>2. CASE t = m
    BY <1>1, <1>2, NewNeeded
  <1>3. CASE t # m
    <2>1. h[t].allocated <=> t < m /\ Needed(t, m, 0)
      BY DEF Holding
    <2>2. t < m <=> t < m + 1
      BY <1>1, <1>3
    <2> QED
      BY <1>1, <1>3, <2>1, <2>2
  <1> QED
    BY <1>2, <1>3

(* A node gets memory, and may end the need of one of its sources.         *)
LEMMA AllocateStep ==
  ASSUME GraphOK, NEW m \in Nodes, NEW st, PlanInv(st, m, m, 0, {})
  PROVE  \E K \in SUBSET Tensors :
            /\ \A t \in K : ~Needed(t, m + 1, 0)
            /\ PlanInv(AllocateNode(st, m), m + 1, m, 0, K)
  <1> DEFINE st2 == AllocateNode(st, m)
             reusable == {j \in DOMAIN Src(m) : Reusable(st.hash, m, Src(m)[j])}
             first == CHOOSE j \in reusable : \A i \in reusable : j <= i
             alloc == [chunks |-> AfterAlloc(st.chunks, Size(m)),
                       hash |-> [st.hash EXCEPT ![m].addr = AllocAddress(st.chunks, Size(m)),
                                                ![m].allocated = TRUE]]
  <1>1. /\ m \in Tensors /\ m \in Nat /\ m \notin Leafs
        /\ MemoryInv(st, m) /\ Counted(st.hash, m, 0) /\ Holding(st.hash, m, m, 0, {})
    BY NumberFacts DEF PlanInv
  <1>2. /\ st \in State /\ st.hash \in [Tensors -> HashNode] /\ st.chunks \in Chunks
        /\ ~External(m) /\ ~st.hash[m].allocated
        /\ Len(Src(m)) \in Nat /\ DOMAIN Src(m) = 1 .. Len(Src(m))
    <2>1. st \in State
      BY <1>1 DEF MemoryInv
    <2>2. ~st.hash[m].allocated
      BY <1>1 DEF MemoryInv
    <2>3. ~External(m)
      <3>1. \A l \in Leafs : l # m
        BY NumberFacts
      <3> QED
        BY <1>1, <3>1, GraphFacts
    <2> QED
      BY <1>1, <2>1, <2>2, <2>3, StateFacts, GraphFacts
  <1>3. st2 = IF IsView(m) THEN st
              ELSE IF Op(m) = "elementwise" /\ reusable # {} THEN TakeOver(st, m, Src(m)[first])
              ELSE alloc
    BY <1>2 DEF AllocateNode
  <1>4. \A t \in Own : t < m /\ Needed(t, m, 0) => st.hash[t].allocated
    BY <1>1 DEF Holding
  <1> HIDE DEF st2
  <1>5. CASE IsView(m)
    <2>1. m \notin Own /\ st2 = st
      BY <1>3, <1>5 DEF Own
    <2>2. MemoryInv(st2, m + 1)
      BY <1>1, <2>1, SkipMemory
    <2>3. Holding(st2.hash, m + 1, m, 0, {})
      BY <1>1, <2>1, HoldingNext
    <2> QED
      BY <1>1, <2>1, <2>2, <2>3 DEF PlanInv, st2
  <1>6. CASE ~IsView(m) /\ Op(m) = "elementwise" /\ reusable # {}
    <2> DEFINE p == Src(m)[first]
    <2>1. first \in reusable
      <3>1. reusable \subseteq Nat
        BY <1>2
      <3> HIDE DEF reusable
      <3>2. \E j \in reusable : \A i \in reusable : j <= i
        BY <1>6, <3>1, LeastExists
      <3> QED
        BY <3>2
    <2> HIDE DEF first
    <2>2. /\ first \in DOMAIN Src(m) /\ Reusable(st.hash, m, p)
          /\ p \in Tensors /\ p < m /\ p \in Nat /\ p # m
      <3>1. first \in DOMAIN Src(m) /\ Reusable(st.hash, m, p)
        BY <2>1
      <3>2. p \in Tensors /\ p < m
        BY <1>1, <3>1, UseFacts
      <3>3. p \in Nat
        BY <3>2, NumberFacts
      <3> HIDE DEF p
      <3>4. p # m
        BY <1>1, <3>2, <3>3
      <3> QED
        BY <3>1, <3>2, <3>3, <3>4 DEF p
    <2>3. ~Needed(p, m + 1, 0) /\ LeftViews(p, m, 0) = {}
      BY <1>1, <2>2, ReusableFacts DEF Counted
    <2>4. st2 = TakeOver(st, m, p)
      BY <1>3, <1>6
    <2> HIDE DEF p
    <2>5. m \in Own
      BY <1>1, <1>2, <1>6 DEF Own
    <2>6. MemoryInv(st2, m + 1) /\ st2.hash = Taken(st.hash, m, p)
      BY <1>1, <1>4, <1>6, <2>2, <2>3, <2>4, <2>5, TakeMemory
    <2>7. st.hash[p].addr \in Address
      <3>1. st.hash[p].allocated
        BY <2>2 DEF Reusable
      <3>2. HasPlace(st.chunks, AddrOf(st.hash), p)
        BY <1>1, <2>2, <3>1 DEF MemoryInv
      <3> QED
        BY <2>2, <3>2 DEF HasPlace, AddrOf
    <2> DEFINE h == Taken(st.hash, m, p)
    <2>8. /\ h[m].allocated /\ ~h[p].allocated
          /\ \A u \in Tensors : /\ h[u].n_children = st.hash[u].n_children
                                /\ h[u].n_views = st.hash[u].n_views
                                /\ (u \notin {m, p} => h[u] = st.hash[u])
      BY <1>1, <1>2, <2>2, <2>7, TakenFacts
    <2> HIDE DEF h
    <2>9. Holding(h, m + 1, m, 0, {p})
      <3>1. \A t \in Tensors \ {m} : h[t].allocated <=> st.hash[t].allocated /\ t \notin {p}
        BY <2>8
      <3> QED
        BY <1>1, <2>2, <2>8, <3>1, HoldingNext
    <2>10. Counted(h, m, 0)
      BY <1>1, <2>8 DEF Counted
    <2>11. PlanInv(st2, m + 1, m, 0, {p})
      BY <2>6, <2>9, <2>10 DEF PlanInv, h
    <2> QED
      BY <2>2, <2>3, <2>11 DEF st2
  <1>7. CASE ~IsView(m) /\ ~(Op(m) = "elementwise" /\ reusable # {})
    <2>1. st2 = alloc
      BY <1>3, <1>7
    <2>2. m \in Own
      BY <1>1, <1>2, <1>7 DEF Own
    <2>3. MemoryInv(st2, m + 1)
      BY <1>1, <1>4, <2>1, <2>2, AllocMemory
    <2> DEFINE h == Given(st.hash, m, AllocAddress(st.chunks, Size(m)))
    <2>4. st2.hash = h
      BY <2>1 DEF Given
    <2>5. AllocAddress(st.chunks, Size(m)) \in Address
      <3>1. /\ Size(m) \in Nat /\ Size(m) <= Huge
            /\ \A k \in DOMAIN st.chunks : Separate(st.chunks[k].blocks)
        BY <1>1, GraphSizes DEF MemoryInv, Sound
      <3>2. /\ AllocAddress(st.chunks, Size(m)).chunk \in Nat \ {0}
            /\ AllocAddress(st.chunks, Size(m)).offset \in Nat
        BY <1>2, <3>1, AllocFacts
      <3> QED
        BY <3>2 DEF AllocAddress, Address
    <2>6. /\ h[m].allocated
          /\ h[m].n_children = st.hash[m].n_children /\ h[m].n_views = st.hash[m].n_views
          /\ \A u \in Tensors \ {m} : h[u] = st.hash[u]
      BY <1>1, <1>2, <2>5, GivenFacts
    <2> HIDE DEF h
    <2>7. Holding(h, m + 1, m, 0, {})
      BY <1>1, <2>6, HoldingNext
    <2>8. Counted(h, m, 0)
      BY <1>1, <2>6 DEF Counted
    <2>9. PlanInv(st2, m + 1, m, 0, {})
      BY <2>3, <2>4, <2>7, <2>8 DEF PlanInv
    <2> QED
      BY <2>9 DEF st2
  <1> QED
    BY <1>5, <1>6, <1>7
-----------------------------------------------------------------------------
(* Taking back memory after the uses of a node.                            *)

(* A tensor that is unused now is needed only as an output.                *)
LEMMA ReleaseStep ==
  ASSUME GraphOK, NEW st, NEW b, NEW m, NEW i, NEW K, NEW r \in Tensors,
         MemoryInv(st, b), Counted(st.hash, m, i), Holding(st.hash, b, m, i - 1, K),
         Consumed(r), Needed(r, m, i - 1),
         \A t \in Own \ {r} : Needed(t, m, i) <=> Needed(t, m, i - 1)
  PROVE  PlanInv(IF IsUnused(st.hash, r) /\ st.hash[r].allocated THEN FreeNode(st, r) ELSE st,
                 b, m, i, K)
  <1> DEFINE st2 == IF IsUnused(st.hash, r) /\ st.hash[r].allocated THEN FreeNode(st, r) ELSE st
  <1>1. Needed(r, m, i) <=> r \in Outputs \/ ~IsUnused(st.hash, r)
    <2>1. /\ st.hash[r].n_children = 0 <=> Left(r, m, i) = {}
          /\ st.hash[r].n_views = 0 <=> LeftViews(r, m, i) = {}
      BY FiniteFacts DEF Counted
    <2> QED
      BY <2>1 DEF Needed, IsUnused
  <1>2. ASSUME NEW t \in Own \ {r}
        PROVE  st.hash[t].allocated <=> t < b /\ Needed(t, m, i) /\ t \notin K
    BY DEF Holding
  <1>3. r \in Own => (st.hash[r].allocated <=> r < b /\ r \notin K)
    BY DEF Holding
  <1>4. CASE IsUnused(st.hash, r) /\ st.hash[r].allocated /\ r \notin Outputs
    <2> DEFINE h == [st.hash EXCEPT ![r].allocated = FALSE]
    <2>1. MemoryInv(st2, b) /\ st2.hash = h
      BY <1>4, FreeMemory
    <2>2. st.hash \in [Tensors -> HashNode]
      BY StateFacts DEF MemoryInv
    <2> DEFINE e == [st.hash[r] EXCEPT !.allocated = FALSE]
    <2>3. /\ e \in HashNode /\ e.allocated = FALSE
          /\ e.n_children = st.hash[r].n_children /\ e.n_views = st.hash[r].n_views
      <3>1. st.hash[r] \in HashNode
        BY <2>2
      <3> QED
        BY <3>1 DEF HashNode
    <2>4. h = [st.hash EXCEPT ![r] = e]
      OBVIOUS
    <2> HIDE DEF e, h, st2
    <2>5. \A t \in Tensors : h[t] = IF t = r THEN e ELSE st.hash[t]
      BY <2>2, <2>3, <2>4, TableFacts
    <2>6. Counted(h, m, i)
      BY <2>3, <2>5 DEF Counted
    <2>7. Holding(h, b, m, i, K)
      <3> SUFFICES ASSUME NEW t \in Own
                   PROVE  h[t].allocated <=> t < b /\ Needed(t, m, i) /\ t \notin K
        BY DEF Holding
      <3>1. t \in Tensors
        BY DEF Own
      <3>2. CASE t = r
        BY <1>1, <1>4, <2>3, <2>5, <3>1, <3>2
      <3>3. CASE t # r
        BY <1>2, <2>5, <3>1, <3>3
      <3> QED
        BY <3>2, <3>3
    <2> QED
      BY <2>1, <2>6, <2>7 DEF PlanInv, st2
  <1>5. CASE ~(IsUnused(st.hash, r) /\ st.hash[r].allocated /\ r \notin Outputs)
    <2>1. st2 = st
      BY <1>5 DEF FreeNode
    <2>2. Holding(st.hash, b, m, i, K)
      <3> SUFFICES ASSUME NEW t \in Own
                   PROVE  st.hash[t].allocated <=> t < b /\ Needed(t, m, i) /\ t \notin K
        BY DEF Holding
      <3>1. CASE t = r
        BY <1>1, <1>3, <1>5, <3>1
      <3>2. CASE t # r
        BY <1>2, <3>2
      <3> QED
        BY <3>1, <3>2
    <2> QED
      BY <2>1, <2>2 DEF PlanInv
  <1> QED
    BY <1>4, <1>5

(* With the last use of a view one view less is left of what it looks at.  *)
LEMMA ViewsStep ==
  ASSUME GraphOK, NEW m \in Tensors, NEW i \in DOMAIN Src(m)
  PROVE  LET p == Src(m)[i]
             over == IsView(p) /\ Left(p, m, i) = {}
         IN  /\ ~over => \A t \in Tensors : LeftViews(t, m, i) = LeftViews(t, m, i - 1)
             /\ over => /\ p \in Views(Root(p)) /\ p \in LeftViews(Root(p), m, i - 1)
                        /\ LeftViews(Root(p), m, i) = LeftViews(Root(p), m, i - 1) \ {p}
                        /\ \A t \in Tensors : t # Root(p) => LeftViews(t, m, i) = LeftViews(t, m, i - 1)
  <1> DEFINE p == Src(m)[i]
  <1>1. p \in Tensors /\ Consumed(p)
    BY UseFacts
  <1>2. Left(p, m, i - 1) # {}
    <2>1. <<m, i>> \in Left(p, m, i - 1)
      BY LeftStep
    <2> QED
      BY <2>1
  <1>3. \A t \in Tensors : t # p => Left(t, m, i) = Left(t, m, i - 1)
    BY <1>1, LeftStep
  <1>4. \A t : \A v \in Views(t) : v \in Tensors /\ IsView(v) /\ Root(v) = t
    BY NumberFacts DEF Views
  <1> HIDE DEF p
  <1>5. CASE ~(IsView(p) /\ Left(p, m, i) = {})
    <2>1. ASSUME NEW t, NEW v \in Views(t)
          PROVE  v \in LeftViews(t, m, i) <=> v \in LeftViews(t, m, i - 1)
      <3>1. CASE v = p
        <4>1. Left(p, m, i) # {}
          BY <1>4, <1>5, <2>1, <3>1
        <4> QED
          BY <4>1, <1>2, <3>1 DEF LeftViews
      <3>2. CASE v # p
        <4>1. Left(v, m, i) = Left(v, m, i - 1)
          BY <1>3, <1>4, <2>1, <3>2
        <4> QED
          BY <4>1 DEF LeftViews
      <3> QED
        BY <3>1, <3>2
    <2>2. \A t \in Tensors : LeftViews(t, m, i) = LeftViews(t, m, i - 1)
      BY <2>1 DEF LeftViews
    <2> QED
      BY <1>5, <2>2 DEF p
  <1>6. CASE IsView(p) /\ Left(p, m, i) = {}
    <2>1. p \in Views(Root(p))
      BY <1>1, <1>6, GraphFacts DEF Views
    <2>2. p \in LeftViews(Root(p), m, i - 1) /\ p \notin LeftViews(Root(p), m, i)
      BY <1>1, <1>2, <1>6, <2>1 DEF LeftViews
    <2>3. ASSUME NEW t, NEW v \in Views(t), v # p
          PROVE  v \in LeftViews(t, m, i) <=> v \in LeftViews(t, m, i - 1)
      <3>1. Left(v, m, i) = Left(v, m, i - 1)
        BY <1>3, <1>4, <2>3
      <3> QED
        BY <3>1 DEF LeftViews
    <2>4. \A t : LeftViews(t, m, i) \subseteq Views(t) /\ LeftViews(t, m, i - 1) \subseteq Views(t)
      BY DEF LeftViews
    <2>5. LeftViews(Root(p), m, i) = LeftViews(Root(p), m, i - 1) \ {p}
      BY <2>2, <2>3, <2>4
    <2>6. ASSUME NEW t \in Tensors, t # Root(p)
          PROVE  LeftViews(t, m, i) = LeftViews(t, m, i - 1)
      <3>1. \A v \in Views(t) : v # p
        BY <1>4, <2>6
      <3> QED
        BY <2>3, <2>4, <3>1
    <2> QED
      BY <1>6, <2>1, <2>2, <2>5, <2>6 DEF p
  <1> QED
    BY <1>5, <1>6

(* One use of a parent is over.                                            *)
LEMMA UpdateStep ==
  ASSUME GraphOK, NEW m \in Nodes, NEW i \in DOMAIN Src(m), NEW st, NEW b, NEW K,
         PlanInv(st, b, m, i - 1, K)
  PROVE  PlanInv(UpdateParent(st, Src(m)[i]), b, m, i, K)
  <1> DEFINE p == Src(m)[i]
             r == Root(p)
             used == [st EXCEPT !.hash[p].n_children = @ - 1]
             viewed == [used EXCEPT !.hash[r].n_views = @ - 1]
             left == Left(p, m, i)
  <1>1. /\ m \in Tensors /\ p \in Tensors /\ Consumed(p) /\ r \in Tensors
        /\ <<m, i>> \in Left(p, m, i - 1) /\ left = Left(p, m, i - 1) \ {<<m, i>>}
        /\ \A t \in Tensors : t # p => Left(t, m, i) = Left(t, m, i - 1)
    <2>1. m \in Tensors
      BY NumberFacts
    <2>2. p \in Tensors /\ Consumed(p)
      BY <2>1, UseFacts
    <2> QED
      BY <2>1, <2>2, LeftStep, GraphFacts
  <1>2. /\ MemoryInv(st, b) /\ Counted(st.hash, m, i - 1) /\ Holding(st.hash, b, m, i - 1, K)
        /\ st \in State /\ st.hash \in [Tensors -> HashNode] /\ st.chunks \in Chunks
    BY StateFacts DEF PlanInv, MemoryInv
  <1>3. Needed(p, m, i - 1)
    BY <1>1 DEF Needed
  <1>4. Cardinality(left) = st.hash[p].n_children - 1 /\ Cardinality(left) \in Nat
    <2>1. IsFiniteSet(Left(p, m, i - 1))
      BY FiniteFacts
    <2>2. Cardinality(left) = Cardinality(Left(p, m, i - 1)) - 1
      BY <1>1, <2>1, OneLess
    <2>3. st.hash[p].n_children = Cardinality(Left(p, m, i - 1))
      BY <1>1, <1>2 DEF Counted
    <2> QED
      BY <2>2, <2>3, FiniteFacts
  <1> DEFINE e == [st.hash[p] EXCEPT !.n_children = Cardinality(left)]
             h == [st.hash EXCEPT ![p] = e]
  <1>5. used = [chunks |-> st.chunks, hash |-> h] /\ used.hash = h /\ used.chunks = st.chunks
    <2>1. st = [chunks |-> st.chunks, hash |-> st.hash]
      BY <1>2, StateFacts
    <2>2. h = [st.hash EXCEPT ![p].n_children = @ - 1]
      BY <1>4
    <2> HIDE DEF h
    <2>3. used = [chunks |-> st.chunks, hash |-> h]
      BY <2>1, <2>2
    <2> QED
      BY <2>3
  <1> HIDE DEF used
  <1>6. /\ e \in HashNode /\ e.n_children = Cardinality(left)
        /\ e.n_views = st.hash[p].n_views /\ e.addr = st.hash[p].addr
        /\ e.allocated = st.hash[p].allocated
    <2>1. st.hash[p] \in HashNode
      BY <1>1, <1>2
    <2> QED
      BY <1>4, <2>1 DEF HashNode
  <1> HIDE DEF e
  <1>7. h \in [Tensors -> HashNode] /\ \A t \in Tensors : h[t] = IF t = p THEN e ELSE st.hash[t]
    BY <1>1, <1>2, <1>6, TableFacts
  <1> HIDE DEF h
  <1>8. \A t \in Tensors : /\ h[t].addr = st.hash[t].addr /\ h[t].allocated = st.hash[t].allocated
                           /\ h[t].n_views = st.hash[t].n_views
                           /\ h[t].n_children = Cardinality(Left(t, m, i))
    <2> SUFFICES ASSUME NEW t \in Tensors
                 PROVE  /\ h[t].addr = st.hash[t].addr /\ h[t].allocated = st.hash[t].allocated
                        /\ h[t].n_views = st.hash[t].n_views
                        /\ h[t].n_children = Cardinality(Left(t, m, i))
      OBVIOUS
    <2>1. CASE t = p
      BY <2>1, <1>6, <1>7
    <2>2. CASE t # p
      <3>1. Left(t, m, i) = Left(t, m, i - 1)
        BY <1>1, <2>2
      <3>2. st.hash[t].n_children = Cardinality(Left(t, m, i - 1))
        BY <1>2 DEF Counted
      <3> QED
        BY <2>2, <3>1, <3>2, <1>7
    <2> QED
      BY <2>1, <2>2
  <1>9. used \in State
    BY <1>2, <1>5, <1>7 DEF State
  <1>10. MemoryInv(used, b)
    <2>1. \A t \in Tensors : /\ used.hash[t].addr = st.hash[t].addr
                             /\ used.hash[t].allocated = st.hash[t].allocated
      BY <1>5, <1>8
    <2> QED
      BY <1>2, <1>5, <1>9, <2>1, SameMemory
  <1>11. Holding(h, b, m, i - 1, K)
    <2>1. \A t \in Own : t \in Tensors
      BY DEF Own
    <2> QED
      BY <1>2, <1>8, <2>1 DEF Holding
  <1>12. left = {} <=> h[p].n_children = 0
    BY <1>1, <1>8, FiniteFacts
  <1>13. IsView(p) => h[p].n_views = 0
    <2> SUFFICES ASSUME IsView(p) PROVE h[p].n_views = 0
      OBVIOUS
    <2>1. LeftViews(p, m, i - 1) = {}
      BY <1>1, NoViewsOfViews
    <2>2. Cardinality(LeftViews(p, m, i - 1)) = 0
      BY <2>1, FiniteFacts
    <2> QED
      BY <1>1, <1>2, <1>8, <2>2 DEF Counted
  <1> HIDE DEF left, p
  <1>14. CASE ~(IsView(p) /\ left = {})
    <2>1. UpdateParent(st, p) = IF IsUnused(used.hash, p) /\ used.hash[p].allocated
                                THEN FreeNode(used, p) ELSE used
      <3>1. IsView(p) => ~IsUnused(used.hash, p)
        BY <1>5, <1>12, <1>14 DEF IsUnused
      <3> QED
        BY <3>1 DEF UpdateParent, used
    <2>2. \A t \in Tensors : LeftViews(t, m, i) = LeftViews(t, m, i - 1)
      BY <1>1, <1>14, ViewsStep DEF left, p
    <2>3. Counted(h, m, i)
      BY <1>2, <1>8, <2>2 DEF Counted
    <2>4. \A t \in Own \ {p} : Needed(t, m, i) <=> Needed(t, m, i - 1)
      <3>1. \A t \in Own : t \in Tensors
        BY DEF Own
      <3> QED
        BY <1>1, <2>2, <3>1 DEF Needed
    <2>5. Counted(used.hash, m, i) /\ Holding(used.hash, b, m, i - 1, K)
      BY <1>5, <1>11, <2>3
    <2> QED
      BY <1>1, <1>3, <1>10, <2>1, <2>4, <2>5, ReleaseStep DEF p
  <1>15. CASE IsView(p) /\ left = {}
    <2>1. UpdateParent(st, p) = IF IsUnused(viewed.hash, r) /\ viewed.hash[r].allocated
                                THEN FreeNode(viewed, r) ELSE viewed
      <3>1. IsUnused(used.hash, p)
        BY <1>5, <1>12, <1>13, <1>15 DEF IsUnused
      <3> QED
        BY <1>15, <3>1 DEF UpdateParent, used
    <2>2. /\ p \in Views(r) /\ p \in LeftViews(r, m, i - 1)
          /\ LeftViews(r, m, i) = LeftViews(r, m, i - 1) \ {p}
          /\ \A t \in Tensors : t # r => LeftViews(t, m, i) = LeftViews(t, m, i - 1)
      BY <1>1, <1>15, ViewsStep DEF left, p
    <2>3. r # p /\ ~IsView(r)
      BY <1>1, <1>15, GraphFacts
    <2>4. Consumed(r) /\ Needed(r, m, i - 1)
      <3>1. Consumed(r)
        BY <1>1, <2>2, ViewedConsumed
      <3> QED
        BY <2>2, <3>1 DEF Needed
    <2> DEFINE views == Cardinality(LeftViews(r, m, i))
               d == [h[r] EXCEPT !.n_views = views]
               g == [h EXCEPT ![r] = d]
    <2>5. views = h[r].n_views - 1 /\ views \in Nat
      <3>1. IsFiniteSet(LeftViews(r, m, i - 1))
        BY FiniteFacts
      <3>2. views = Cardinality(LeftViews(r, m, i - 1)) - 1
        BY <2>2, <3>1, OneLess
      <3>3. h[r].n_views = Cardinality(LeftViews(r, m, i - 1))
        BY <1>1, <1>2, <1>8 DEF Counted
      <3> QED
        BY <3>2, <3>3, FiniteFacts
    <2> HIDE DEF r
    <2>6. viewed = [chunks |-> st.chunks, hash |-> g] /\ viewed.hash = g /\ viewed.chunks = st.chunks
      <3>1. g = [h EXCEPT ![r].n_views = @ - 1]
        BY <2>5
      <3> HIDE DEF g
      <3>2. viewed = [chunks |-> st.chunks, hash |-> g]
        BY <1>5, <3>1
      <3> QED
        BY <3>2
    <2> HIDE DEF viewed, views
    <2>7. /\ d \in HashNode /\ d.n_views = views /\ d.n_children = h[r].n_children
          /\ d.addr = h[r].addr /\ d.allocated = h[r].allocated
      <3>1. h[r] \in HashNode
        BY <1>1, <1>7 DEF r
      <3> QED
        BY <2>5, <3>1 DEF HashNode
    <2> HIDE DEF d
    <2>8. g \in [Tensors -> HashNode] /\ \A t \in Tensors : g[t] = IF t = r THEN d ELSE h[t]
      <3>1. r \in Tensors
        BY <1>1 DEF r
      <3> QED
        BY <1>7, <2>7, <3>1, TableFacts
    <2> HIDE DEF g
    <2>9. \A t \in Tensors : /\ g[t].addr = h[t].addr /\ g[t].allocated = h[t].allocated
                             /\ g[t].n_children = h[t].n_children
      BY <2>7, <2>8
    <2>10. Counted(g, m, i)
      <3> SUFFICES ASSUME NEW t \in Tensors
                   PROVE  /\ g[t].n_children = Cardinality(Left(t, m, i))
                          /\ g[t].n_views = Cardinality(LeftViews(t, m, i))
        BY DEF Counted
      <3>1. g[t].n_children = Cardinality(Left(t, m, i))
        BY <1>8, <2>9
      <3>2. CASE t = r
        BY <2>7, <2>8, <3>1, <3>2 DEF views
      <3>3. CASE t # r
        <4>1. g[t].n_views = st.hash[t].n_views
          BY <1>8, <2>8, <3>3
        <4> QED
          BY <1>2, <2>2, <3>1, <3>3, <4>1 DEF Counted
      <3> QED
        BY <3>2, <3>3
    <2>11. viewed \in State
      BY <1>2, <2>6, <2>8 DEF State
    <2>12. MemoryInv(viewed, b)
      <3>1. \A t \in Tensors : /\ viewed.hash[t].addr = used.hash[t].addr
                               /\ viewed.hash[t].allocated = used.hash[t].allocated
        BY <1>5, <2>6, <2>9
      <3>2. viewed.chunks = used.chunks
        BY <1>5, <2>6
      <3> QED
        BY <1>10, <2>11, <3>1, <3>2, SameMemory
    <2>13. Holding(viewed.hash, b, m, i - 1, K) /\ Counted(viewed.hash, m, i)
      <3>1. \A t \in Own : t \in Tensors
        BY DEF Own
      <3> QED
        BY <1>11, <2>6, <2>9, <2>10, <3>1 DEF Holding
    <2>14. \A t \in Own \ {r} : Needed(t, m, i) <=> Needed(t, m, i - 1)
      <3>1. \A t \in Own : t \in Tensors /\ ~IsView(t)
        BY DEF Own
      <3> QED
        BY <1>1, <1>15, <2>2, <3>1 DEF Needed
    <2> QED
      BY <1>1, <2>1, <2>4, <2>12, <2>13, <2>14, ReleaseStep DEF p, r
  <1> QED
    BY <1>14, <1>15

(* All uses that a node makes of its parents are over.                     *)
LEMMA UpdateAll ==
  ASSUME GraphOK, NEW m \in Nodes, NEW st, NEW b, NEW K, PlanInv(st, b, m, 0, K)
  PROVE  PlanInv(UpdateParents(st, Src(m)), b, m, Len(Src(m)), K)
  <1> DEFINE l == Len(Src(m))
  <1>1. m \in Tensors /\ l \in Nat /\ DOMAIN Src(m) = 1 .. l
    BY NumberFacts, GraphFacts
  <1>2. PICK q : Updates(q, st, Src(m))
    BY <1>1, UpdatesFacts
  <1> HIDE DEF l
  <1> DEFINE S == {i \in 0 .. l : PlanInv(q[i], b, m, i, K)}
  <1>3. 0 \in S
    BY <1>1, <1>2 DEF Updates
  <1>4. ASSUME NEW i \in 0 .. l - 1, i \in S PROVE i + 1 \in S
    <2>1. /\ i + 1 \in 1 .. l /\ (i + 1) - 1 = i /\ i + 1 \in DOMAIN Src(m)
          /\ PlanInv(q[i], b, m, (i + 1) - 1, K)
      BY <1>1, <1>4
    <2>2. q[i + 1] = UpdateParent(q[i], Src(m)[i + 1])
      BY <1>2, <2>1 DEF Updates, l
    <2>3. PlanInv(UpdateParent(q[i], Src(m)[i + 1]), b, m, i + 1, K)
      BY <2>1, UpdateStep
    <2>4. i + 1 \in 0 .. l
      BY <1>1, <2>1
    <2> QED
      BY <2>2, <2>3, <2>4
  <1>5. l \in S
    <2> HIDE DEF S
    <2>1. \A i \in 0 .. l : i \in S
      BY <1>1, <1>3, <1>4, UpTo
    <2> QED
      BY <1>1, <2>1
  <1>6. PlanInv(q[l], b, m, l, K)
    BY <1>5
  <1> QED
    BY <1>2, <1>6 DEF Updates, l

(* After its last parent, the next node is to be planned.                  *)
LEMMA NodeDone ==
  ASSUME GraphOK, NEW m \in Nodes, NEW st, NEW b, NEW K,
         PlanInv(st, b, m, Len(Src(m)), K), \A t \in K : ~Needed(t, m + 1, 0)
  PROVE  PlanInv(st, b, m + 1, 0, {})
  <1>1. \A t \in Tensors : Left(t, m, Len(Src(m))) = Left(t, m + 1, 0)
    BY LeftNext
  <1>2. \A t \in Tensors : LeftViews(t, m, Len(Src(m))) = LeftViews(t, m + 1, 0)
    <2>1. \A t : \A v \in Views(t) : v \in Tensors
      BY NumberFacts DEF Views
    <2> QED
      BY <1>1, <2>1 DEF LeftViews
  <1>3. Counted(st.hash, m + 1, 0)
    BY <1>1, <1>2 DEF PlanInv, Counted
  <1>4. Holding(st.hash, b, m + 1, 0, {})
    <2> SUFFICES ASSUME NEW t \in Own
                 PROVE  st.hash[t].allocated <=> t < b /\ Needed(t, m + 1, 0) /\ t \notin {}
      BY DEF Holding
    <2>1. t \in Tensors
      BY DEF Own
    <2>2. Needed(t, m, Len(Src(m))) <=> Needed(t, m + 1, 0)
      BY <1>1, <1>2, <2>1 DEF Needed
    <2>3. st.hash[t].allocated <=> t < b /\ Needed(t, m, Len(Src(m))) /\ t \notin K
      BY DEF PlanInv, Holding
    <2> QED
      BY <2>2, <2>3
  <1> QED
    BY <1>3, <1>4 DEF PlanInv

(* The planning of a node. *)
LEMMA PlanNodeStep ==
  ASSUME GraphOK, NEW m \in Nodes, NEW st, PlanInv(st, m, m, 0, {})
  PROVE  PlanInv(PlanNodeOn(st, m), m + 1, m + 1, 0, {})
  <1>1. AllocateNodes(st, Src(m)) = st
    BY AllocateSources
  <1>2. PICK K \in SUBSET Tensors : /\ \A t \in K : ~Needed(t, m + 1, 0)
                                    /\ PlanInv(AllocateNode(st, m), m + 1, m, 0, K)
    BY AllocateStep
  <1>3. PlanInv(UpdateParents(AllocateNode(st, m), Src(m)), m + 1, m, Len(Src(m)), K)
    BY <1>2, UpdateAll
  <1>4. PlanInv(UpdateParents(AllocateNode(st, m), Src(m)), m + 1, m + 1, 0, {})
    BY <1>2, <1>3, NodeDone
  <1> QED
    BY <1>1, <1>4 DEF PlanNodeOn
-----------------------------------------------------------------------------
(* The leafs, before anything is counted.                                  *)

LeafInv(st, b) ==
    /\ MemoryInv(st, b)
    /\ \A t \in Own : st.hash[t].allocated <=> t < b

(* The state that everything is reset to. *)
LEMMA ResetState ==
  ASSUME GraphOK
  PROVE  LeafInv([chunks |-> <<>>, hash |-> [t \in Tensors |-> Unused]], 1)
  <1> DEFINE h == [t \in Tensors |-> Unused]
             st == [chunks |-> <<>>, hash |-> h]
  <1>1. Unused \in HashNode /\ Unused.allocated = FALSE
    BY DEF Unused, HashNode
  <1>2. /\ h \in [Tensors -> HashNode] /\ \A t \in Tensors : ~h[t].allocated
        /\ st.hash = h /\ st.chunks = <<>>
    BY <1>1
  <1> HIDE DEF h
  <1>3. <<>> \in Chunks /\ DOMAIN <<>> = {}
    BY EmptySeq DEF Chunks
  <1>4. st \in State
    BY <1>2, <1>3 DEF State
  <1>5. DOMAIN MemOf(h) = {}
    <2>1. DOMAIN MemOf(h) = {t \in Tensors : h[t].allocated}
      BY MemFacts
    <2> QED
      BY <1>2, <2>1
  <1>6. Sound(<<>>, MemOf(h))
    BY <1>3, <1>5 DEF Sound
  <1>7. \A t \in Own : t \in Tensors /\ ~(t < 1)
    BY DEF Own, Tensors
  <1> HIDE DEF st
  <1>8. MemoryInv(st, 1)
    <2>1. Sound(st.chunks, MemOf(st.hash))
      BY <1>2, <1>6
    <2>2. \A t \in Tensors : st.hash[t].allocated => t \in Own /\ t < 1
      BY <1>2
    <2> QED
      BY <1>4, <1>7, <2>1, <2>2 DEF MemoryInv
  <1>9. \A t \in Own : st.hash[t].allocated <=> t < 1
    BY <1>2, <1>7
  <1> QED
    BY <1>8, <1>9 DEF LeafInv, st, h

(* The next leaf gets memory. *)
LEMMA LeafStep ==
  ASSUME GraphOK, NEW t \in Leafs, NEW st, LeafInv(st, t)
  PROVE  LeafInv(AllocateNode(st, t), t + 1)
  <1> DEFINE st2 == AllocateNode(st, t)
  <1>1. t \in Tensors /\ t \in Nat /\ ~IsView(t) /\ Op(t) # "elementwise"
    BY GraphFacts, NumberFacts DEF IsView
  <1>2. MemoryInv(st, t) /\ ~st.hash[t].allocated
    BY <1>1 DEF LeafInv, MemoryInv
  <1>3. ASSUME NEW u \in Own, u # t PROVE u < t + 1 <=> u < t
    BY <1>1, <1>3, OwnFacts
  <1>4. CASE External(t)
    <2>1. st2 = st /\ t \notin Own
      BY <1>4 DEF AllocateNode, Own
    <2>2. MemoryInv(st, t + 1)
      BY <1>1, <1>2, <2>1, SkipMemory
    <2> QED
      BY <1>3, <2>1, <2>2 DEF LeafInv
  <1>5. CASE ~External(t)
    <2> DEFINE a == AllocAddress(st.chunks, Size(t))
               h == Given(st.hash, t, a)
    <2>1. t \in Own
      BY <1>1, <1>5 DEF Own
    <2>2. st2 = [chunks |-> AfterAlloc(st.chunks, Size(t)),
                 hash |-> [st.hash EXCEPT ![t].addr = a, ![t].allocated = TRUE]]
      BY <1>1, <1>2, <1>5 DEF AllocateNode
    <2>3. \A u \in Own : u < t /\ Needed(u, t, 0) => st.hash[u].allocated
      BY DEF LeafInv
    <2>4. MemoryInv(st2, t + 1)
      BY <1>2, <2>1, <2>2, <2>3, AllocMemory
    <2>5. st2.hash = h
      BY <2>2 DEF Given
    <2>6. a \in Address
      <3>1. /\ Size(t) \in Nat /\ Size(t) <= Huge /\ st.chunks \in Chunks
            /\ \A k \in DOMAIN st.chunks : Separate(st.chunks[k].blocks)
        BY <1>1, <1>2, GraphSizes DEF MemoryInv, Sound
      <3>2. a.chunk \in Nat \ {0} /\ a.offset \in Nat
        BY <3>1, AllocFacts
      <3> QED
        BY <3>2 DEF AllocAddress, Address
    <2>7. h[t].allocated /\ \A u \in Tensors \ {t} : h[u] = st.hash[u]
      <3>1. st.hash \in [Tensors -> HashNode]
        BY <1>2, StateFacts DEF MemoryInv
      <3> QED
        BY <1>1, <2>6, <3>1, GivenFacts
    <2> HIDE DEF h
    <2>8. ASSUME NEW u \in Own PROVE h[u].allocated <=> u < t + 1
      <3>1. u \in Tensors
        BY OwnFacts
      <3>2. CASE u = t
        BY <1>1, <2>7, <3>2
      <3>3. CASE u # t
        BY <1>3, <2>7, <3>1, <3>3 DEF LeafInv
      <3> QED
        BY <3>2, <3>3
    <2> QED
      BY <2>4, <2>5, <2>8 DEF LeafInv
  <1> QED
    BY <1>4, <1>5

(* All leafs have memory, and the uses are counted: nodes can be planned.  *)
LEMMA ReserveStep ==
  ASSUME GraphOK
  PROVE  LET empty == [chunks |-> <<>>, hash |-> [t \in Tensors |-> Unused]]
             leafs == AllocateNodes(empty, [t \in Leafs |-> t])
         IN  PlanInv([chunks |-> leafs.chunks, hash |-> CountedUses(leafs.hash)],
                     NLeafs + 1, NLeafs + 1, 0, {})
  <1> DEFINE empty == [chunks |-> <<>>, hash |-> [t \in Tensors |-> Unused]]
             ts == [t \in Leafs |-> t]
             leafs == AllocateNodes(empty, ts)
             h == CountedUses(leafs.hash)
             st == [chunks |-> leafs.chunks, hash |-> h]
             b == NLeafs + 1
  <1>1. NLeafs \in Nat /\ Len(ts) = NLeafs /\ \A i \in 1 .. NLeafs : ts[i] = i /\ i \in Leafs
    <2>1. NLeafs \in Nat /\ ts \in [1 .. NLeafs -> Leafs]
      BY NumberFacts DEF Leafs
    <2>2. ts \in Seq(Leafs) /\ Len(ts) = NLeafs
      BY <2>1, SeqDef
    <2> QED
      BY <2>1, <2>2 DEF Leafs
  <1>2. LeafInv(empty, 1)
    BY ResetState
  <1> HIDE DEF empty, ts
  <1>3. PICK q : Allocates(q, empty, ts)
    BY <1>1, AllocatesFacts
  <1>4. LeafInv(leafs, b)
    <2> DEFINE S == {i \in 0 .. NLeafs : LeafInv(q[i], i + 1)}
    <2>1. 0 \in S
      BY <1>1, <1>2, <1>3 DEF Allocates
    <2>2. ASSUME NEW i \in 0 .. NLeafs - 1, i \in S PROVE i + 1 \in S
      <3>1. i + 1 \in 1 .. NLeafs /\ (i + 1) - 1 = i /\ i + 1 \in 0 .. NLeafs /\ LeafInv(q[i], i + 1)
        BY <1>1, <2>2
      <3>2. q[i + 1] = AllocateNode(q[i], i + 1) /\ i + 1 \in Leafs
        BY <1>1, <1>3, <3>1 DEF Allocates
      <3>3. LeafInv(q[i + 1], (i + 1) + 1)
        BY <3>1, <3>2, LeafStep
      <3> QED
        BY <3>1, <3>3
    <2>3. NLeafs \in S
      <3> HIDE DEF S
      <3>1. \A i \in 0 .. NLeafs : i \in S
        BY <1>1, <2>1, <2>2, UpTo
      <3> QED
        BY <1>1, <3>1
    <2>4. LeafInv(q[NLeafs], b)
      BY <2>3
    <2> QED
      BY <1>1, <1>3, <2>4 DEF Allocates
  <1> HIDE DEF leafs
  <1>5. /\ MemoryInv(leafs, b) /\ leafs \in State /\ leafs.chunks \in Chunks
        /\ leafs.hash \in [Tensors -> HashNode]
    BY <1>4, StateFacts DEF LeafInv, MemoryInv
  <1>6. ASSUME NEW t \in Tensors
        PROVE  /\ h[t] \in HashNode
               /\ h[t].addr = leafs.hash[t].addr /\ h[t].allocated = leafs.hash[t].allocated
               /\ h[t].n_children = Cardinality(Uses(t)) /\ h[t].n_views = Cardinality(Views(t))
    <2>1. Cardinality(Uses(t)) \in Nat /\ Cardinality(Views(t)) \in Nat
      BY FiniteFacts, FS_CardinalityType
    <2>2. h[t] = [leafs.hash[t] EXCEPT !.n_children = Cardinality(Uses(t)),
                                       !.n_views = Cardinality(Views(t))]
      BY DEF CountedUses
    <2>3. leafs.hash[t] \in HashNode
      BY <1>5
    <2> HIDE DEF h
    <2> QED
      BY <2>1, <2>2, <2>3 DEF HashNode
  <1>7. h \in [Tensors -> HashNode]
    <2>1. h = [t \in Tensors |-> h[t]]
      BY DEF CountedUses
    <2> HIDE DEF h
    <2> QED
      BY <1>6, <2>1
  <1>8. st.chunks = leafs.chunks /\ st.hash = h
    OBVIOUS
  <1>9. st \in State
    BY <1>5, <1>7 DEF State
  <1> HIDE DEF h, st
  <1>10. MemoryInv(st, b)
    BY <1>5, <1>6, <1>8, <1>9, SameMemory
  <1>11. ASSUME NEW t \in Tensors
         PROVE  Left(t, b, 0) = Uses(t) /\ LeftViews(t, b, 0) = Views(t) /\ Needed(t, b, 0)
    BY <1>1, LeftAtStart
  <1>12. Counted(h, b, 0)
    BY <1>6, <1>11 DEF Counted
  <1>13. Holding(h, b, b, 0, {})
    <2>1. \A t \in Own : t \in Tensors
      BY DEF Own
    <2> QED
      BY <1>4, <1>6, <1>11, <2>1 DEF Holding, LeafInv
  <1> QED
    BY <1>8, <1>10, <1>12, <1>13 DEF PlanInv, st, h, leafs, empty, ts
-----------------------------------------------------------------------------
(* The specification: types, and memory while planning.                    *)

Planning == [chunks |-> chunks, hash |-> hash]

PlanningOK == \A st, m : st = Planning /\ m = n => PlanInv(st, m, m, 0, {})

IInv ==
    /\ TypeOK /\ GraphOK
    /\ phase = "plan" => PlanningOK

(* A graph has tensors, of which the nodes come last. *)
LEMMA CounterFacts ==
  ASSUME n \in NLeafs + 1 .. NLeafs + NNodes + 1
  PROVE  /\ n \in Nat
         /\ n \in Nodes => n \in Tensors /\ n + 1 \in NLeafs + 1 .. NLeafs + NNodes + 1
         /\ n \notin Nodes => n = NLeafs + NNodes + 1
         /\ NLeafs + 1 \in NLeafs + 1 .. NLeafs + NNodes + 1
         /\ NLeafs + 1 \in Nodes
  BY TensorsAssumption DEF Nodes, Tensors

(* The planning state has the types of the variables. *)
LEMMA StateType ==
  ASSUME NEW st, NEW b, NEW m, NEW i, NEW K, PlanInv(st, b, m, i, K)
  PROVE  /\ st.chunks \in Seq(Chunk)
         /\ st.hash \in [Tensors -> [n_children : Nat, n_views : Nat, allocated : BOOLEAN,
                                     addr : Address \union {None}]]
         /\ st = [chunks |-> st.chunks, hash |-> st.hash]
  <1>1. st \in State
    BY DEF PlanInv, MemoryInv
  <1> QED
    BY <1>1, StateFacts DEF Chunks, HashNode

(* A buffer allocated anew has sizes, too. *)
LEMMA ReallocatedType ==
  ASSUME chunks \in Seq(Chunk), buffer = None \/ buffer \in Seq(Nat)
  PROVE  Reallocated \in Seq(Nat)
  <1> DEFINE new == [k \in DOMAIN chunks |-> chunks[k].max_size]
  <1>1. new \in Seq(Nat)
    <2>1. Len(chunks) \in Nat /\ DOMAIN chunks = 1 .. Len(chunks)
      BY LenProperties
    <2>2. \A k \in 1 .. Len(chunks) : chunks[k].max_size \in Nat
      BY <2>1, ChunksFacts DEF Chunks
    <2>3. new \in [1 .. Len(chunks) -> Nat]
      BY <2>1, <2>2
    <2> HIDE DEF new
    <2> QED
      BY <2>1, <2>3, SeqDef
  <1> QED
    BY <1>1 DEF Reallocated

(* The program begins with nothing planned. *)
LEMMA InitInv ==
  ASSUME Init
  PROVE  IInv
  <1>1. GraphOK
    BY DEF Init, GraphOK
  <1>2. NLeafs + 1 \in NLeafs + 1 .. NLeafs + NNodes + 1
    BY TensorsAssumption
  <1>3. <<>> \in Seq(Chunk)
    BY EmptySeq
  <1>4. hash \in [Tensors -> [n_children : Nat, n_views : Nat, allocated : BOOLEAN,
                              addr : Address \union {None}]]
    BY DEF Init, Unused
  <1> QED
    BY <1>1, <1>2, <1>3, <1>4 DEF Init, IInv, TypeOK

(* The graph is one of those given as long as it is not built anew. *)
LEMMA SameGraph ==
  ASSUME GraphOK, graph' = graph
  PROVE  GraphOK'
  BY DEF GraphOK, GraphsOf

(* What is said of a topology depends on nothing else of the graph.        *)
LEMMA SameTopologyFacts ==
  ASSUME graph'.topo = graph.topo
  PROVE  /\ \A t : /\ Op(t)' = Op(t) /\ Src(t)' = Src(t) /\ Root(t)' = Root(t)
                   /\ Layout(t)' = Layout(t) /\ IsView(t)' = IsView(t)
         /\ \A t, l, j : /\ Left(t, l, j)' = Left(t, l, j)
                         /\ LeftViews(t, l, j)' = LeftViews(t, l, j)
                         /\ Needed(t, l, j)' <=> Needed(t, l, j)
         /\ \A g, addr, t, u : Placed(g, addr, t, u)' <=> Placed(g, addr, t, u)
         /\ \A g : OwnIn(g)' = OwnIn(g)
  <1>1. \A t : /\ Op(t)' = Op(t) /\ Src(t)' = Src(t) /\ Root(t)' = Root(t)
              /\ Layout(t)' = Layout(t) /\ IsView(t)' = IsView(t)
    BY DEF Op, Src, Root, Layout, IsView
  <1>2. \A t : Uses(t)' = Uses(t) /\ Views(t)' = Views(t) /\ Consumed(t)' = Consumed(t)
    BY <1>1 DEF Uses, Views, Consumed
  <1>3. \A t, l, j : Left(t, l, j)' = Left(t, l, j)
    BY <1>2 DEF Left
  <1>4. \A t, l, j : LeftViews(t, l, j)' = LeftViews(t, l, j)
    BY <1>2, <1>3 DEF LeftViews
  <1>5. \A t, l, j : Needed(t, l, j)' <=> Needed(t, l, j)
    BY <1>2, <1>3, <1>4 DEF Needed, Outputs
  <1>6. \A addr, t, u : TakenOver(addr, t, u)' <=> TakenOver(addr, t, u)
    BY <1>1, <1>4, <1>5 DEF TakenOver
  <1>7. \A g, addr, t, u : Placed(g, addr, t, u)' <=> Placed(g, addr, t, u)
    BY <1>5, <1>6 DEF Placed
  <1>8. \A g : OwnIn(g)' = OwnIn(g)
    BY <1>1 DEF OwnIn
  <1> QED
    BY <1>1, <1>3, <1>4, <1>5, <1>7, <1>8

(* What is said of planning depends on the graph alone. *)
LEMMA SamePlanInv ==
  ASSUME graph' = graph, NEW st, NEW b, NEW m, NEW i, NEW K
  PROVE  PlanInv(st, b, m, i, K)' <=> PlanInv(st, b, m, i, K)
  <1>1. graph'.topo = graph.topo
    OBVIOUS
  <1>2. \A t : External(t)' = External(t) /\ IsView(t)' = IsView(t)
    BY <1>1, SameTopologyFacts DEF External
  <1>3. \A t, l, j : /\ Left(t, l, j)' = Left(t, l, j)
                     /\ LeftViews(t, l, j)' = LeftViews(t, l, j)
                     /\ Needed(t, l, j)' <=> Needed(t, l, j)
    BY <1>1, SameTopologyFacts
  <1>4. \A addr, t, u : Placed(graph, addr, t, u)' <=> Placed(graph, addr, t, u)
    <2>1. \A g, addr, t, u : Placed(g, addr, t, u)' <=> Placed(g, addr, t, u)
      BY <1>1, SameTopologyFacts
    <2> QED
      BY <2>1
  <1>8. \A h : MemOf(h)' = MemOf(h)
    BY DEF MemOf
  <1>9. \A cs, addr, t : HasPlace(cs, addr, t)' <=> HasPlace(cs, addr, t)
    BY DEF HasPlace
  <1>10. Own' = Own
    BY <1>2 DEF Own
  <1>11. MemoryInv(st, b)' <=> MemoryInv(st, b)
    BY <1>4, <1>8, <1>9, <1>10 DEF MemoryInv
  <1>12. Counted(st.hash, m, i)' <=> Counted(st.hash, m, i)
    BY <1>3 DEF Counted
  <1>13. Holding(st.hash, b, m, i, K)' <=> Holding(st.hash, b, m, i, K)
    BY <1>3, <1>10 DEF Holding
  <1> QED
    BY <1>11, <1>12, <1>13 DEF PlanInv

(* What the program sets is a set of leafs. *)
LEMMA ReadyType ==
  ASSUME NEW p, ReadyToCompute(p)
  PROVE  phase' = "compute" /\ n' = NLeafs + 1 /\ intact' \subseteq Tensors
  BY NumberFacts DEF ReadyToCompute

(* Planning starts. *)
LEMMA ReserveInv ==
  ASSUME IInv, Reserve
  PROVE  IInv'
  <1> DEFINE empty == [chunks |-> <<>>, hash |-> [t \in Tensors |-> Unused]]
             leafs == AllocateNodes(empty, [t \in Leafs |-> t])
             new == [chunks |-> leafs.chunks, hash |-> CountedUses(leafs.hash)]
             b == NLeafs + 1
  <1>1. TypeOK /\ GraphOK
    BY DEF IInv
  <1>2. /\ chunks' = new.chunks /\ hash' = new.hash /\ phase' = "plan" /\ n' = b
        /\ graph' = graph /\ buffer' = buffer /\ intact' = intact
    BY DEF Reserve
  <1>3. PlanInv(new, b, b, 0, {})
    BY <1>1, ReserveStep
  <1> HIDE DEF new, b
  <1>4. /\ new.chunks \in Seq(Chunk)
        /\ new.hash \in [Tensors -> [n_children : Nat, n_views : Nat, allocated : BOOLEAN,
                                     addr : Address \union {None}]]
        /\ new = [chunks |-> new.chunks, hash |-> new.hash]
    BY <1>3, StateType
  <1>5. b \in NLeafs + 1 .. NLeafs + NNodes + 1
    BY TensorsAssumption DEF b
  <1>6. TypeOK'
    BY <1>1, <1>2, <1>4, <1>5 DEF TypeOK
  <1>7. GraphOK'
    BY <1>1, <1>2, SameGraph
  <1>8. ASSUME NEW st, NEW m, st = Planning', m = n' PROVE PlanInv(st, m, m, 0, {})'
    <2>1. st = new /\ m = b
      BY <1>2, <1>4, <1>8 DEF Planning
    <2>2. PlanInv(st, m, m, 0, {})
      BY <1>3, <2>1
    <2> QED
      BY <1>2, <2>2, SamePlanInv
  <1> QED
    BY <1>6, <1>7, <1>8 DEF IInv, PlanningOK

(* A node is planned. *)
LEMMA PlanNodeInv ==
  ASSUME IInv, PlanNode
  PROVE  IInv'
  <1> DEFINE new == PlanNodeOn(Planning, n)
  <1>1. TypeOK /\ GraphOK /\ PlanningOK /\ n \in NLeafs + 1 .. NLeafs + NNodes + 1
    BY DEF IInv, PlanNode, TypeOK
  <1>2. /\ chunks' = new.chunks /\ hash' = new.hash /\ phase' = "plan" /\ n' = n + 1
        /\ graph' = graph /\ buffer' = buffer /\ intact' = intact /\ n \in Nodes
    BY DEF PlanNode, Planning, IInv, TypeOK
  <1>3. PlanInv(new, n + 1, n + 1, 0, {})
    <2>1. PlanInv(Planning, n, n, 0, {})
      BY <1>1 DEF PlanningOK
    <2> QED
      BY <1>1, <1>2, <2>1, PlanNodeStep
  <1> HIDE DEF new
  <1>4. /\ new.chunks \in Seq(Chunk)
        /\ new.hash \in [Tensors -> [n_children : Nat, n_views : Nat, allocated : BOOLEAN,
                                     addr : Address \union {None}]]
        /\ new = [chunks |-> new.chunks, hash |-> new.hash]
    BY <1>3, StateType
  <1>5. n + 1 \in NLeafs + 1 .. NLeafs + NNodes + 1
    BY <1>1, <1>2, CounterFacts
  <1>6. TypeOK'
    BY <1>1, <1>2, <1>4, <1>5 DEF TypeOK
  <1>7. GraphOK'
    BY <1>1, <1>2, SameGraph
  <1>8. ASSUME NEW st, NEW m, st = Planning', m = n' PROVE PlanInv(st, m, m, 0, {})'
    <2>1. st = new /\ m = n + 1
      BY <1>2, <1>4, <1>8 DEF Planning
    <2>2. PlanInv(st, m, m, 0, {})
      BY <1>3, <2>1
    <2> QED
      BY <1>2, <2>2, SamePlanInv
  <1> QED
    BY <1>6, <1>7, <1>8 DEF IInv, PlanningOK

(* Every step keeps the types, and planning on its way.                    *)
LEMMA NextInv ==
  ASSUME IInv, [Next]_vars
  PROVE  IInv'
  <1>1. TypeOK /\ GraphOK /\ n \in NLeafs + 1 .. NLeafs + NNodes + 1
    BY DEF IInv, TypeOK
  <1>2. NLeafs + 1 \in NLeafs + 1 .. NLeafs + NNodes + 1
    BY <1>1, CounterFacts
  <1>3. CASE Planned
    <2>1. /\ phase' = "compute" /\ n' = NLeafs + 1 /\ intact' \subseteq Tensors
          /\ buffer' = Reallocated /\ graph' = graph /\ chunks' = chunks /\ hash' = hash
      BY <1>3, ReadyType DEF Planned
    <2>2. Reallocated \in Seq(Nat)
      BY <1>1, ReallocatedType DEF TypeOK
    <2> QED
      BY <1>1, <1>2, <2>1, <2>2, SameGraph DEF IInv, TypeOK
  <1>4. CASE KeepPlan
    <2>1. /\ phase' = "compute" /\ n' = NLeafs + 1 /\ intact' \subseteq Tensors
          /\ buffer' = buffer /\ graph' = graph /\ chunks' = chunks /\ hash' = hash
      BY <1>4, ReadyType DEF KeepPlan
    <2> QED
      BY <1>1, <1>2, <2>1, SameGraph DEF IInv, TypeOK
  <1>5. CASE Compute
    <2>1. /\ phase' \in {"compute", "done"} /\ n' = n + 1 /\ n \in Nodes
          /\ intact' \subseteq {n} \union intact
          /\ buffer' = buffer /\ graph' = graph /\ chunks' = chunks /\ hash' = hash
      BY <1>5 DEF Compute
    <2>2. n \in Tensors /\ n + 1 \in NLeafs + 1 .. NLeafs + NNodes + 1
      BY <1>1, <2>1, CounterFacts
    <2> QED
      BY <1>1, <2>1, <2>2, SameGraph DEF IInv, TypeOK
  <1>6. CASE Build
    <2>1. /\ phase' = "built" /\ n' = NLeafs + 1 /\ intact' = {}
          /\ buffer' = buffer /\ chunks' = chunks /\ hash' = hash
      BY <1>6 DEF Build
    <2>2. GraphOK'
      <3>1. PICK topo \in Topologies : graph \in GraphsOf(topo)
        BY <1>1 DEF GraphOK
      <3>2. graph.topo = topo
        BY <3>1 DEF GraphsOf
      <3>3. \E new \in Topologies : graph' \in GraphsOf(new)
        BY <1>6, <3>2 DEF Build
      <3> QED
        BY <3>3 DEF GraphOK, GraphsOf
    <2> QED
      BY <1>1, <1>2, <2>1, <2>2 DEF IInv, TypeOK
  <1>7. CASE UNCHANGED vars
    <2>1. /\ graph' = graph /\ phase' = phase /\ n' = n /\ chunks' = chunks /\ hash' = hash
          /\ buffer' = buffer /\ intact' = intact
      BY <1>7 DEF vars
    <2>2. TypeOK'
      BY <1>1, <2>1 DEF TypeOK
    <2>3. ASSUME NEW st, NEW m, phase = "plan", st = Planning', m = n' PROVE PlanInv(st, m, m, 0, {})'
      <3>1. PlanInv(st, m, m, 0, {})
        BY <2>1, <2>3 DEF IInv, PlanningOK, Planning
      <3> QED
        BY <2>1, <3>1, SamePlanInv
    <2> QED
      BY <1>1, <2>1, <2>2, <2>3, SameGraph DEF IInv, PlanningOK
  <1> QED
    BY <1>3, <1>4, <1>5, <1>6, <1>7, ReserveInv, PlanNodeInv DEF Next

(* Types: the variables of the allocator keep to their values, whatever    *)
(* graphs are given to ggml_gallocr_alloc_graph.                           *)
THEOREM TypeCorrect == Spec => []TypeOK
  <1>1. IInv => TypeOK
    BY DEF IInv
  <1> QED
    BY <1>1, InitInv, NextInv, PTL DEF Spec

(* What is left, in the words of the property. *)
LEMMA NeededFacts ==
  ASSUME GraphOK, NEW t \in Own, NEW m \in NLeafs + 1 .. NLeafs + NNodes + 1
  PROVE  Needed(t, m, 0) <=>
            \/ t \in Outputs
            \/ \E l \in m .. NLeafs + NNodes : \E j \in DOMAIN Src(l) : Root(Src(l)[j]) = t
            \/ \E v \in Tensors : Root(v) = t /\ ~Consumed(v)
  <1>1. t \in Tensors /\ Root(t) = t /\ ~IsView(t) /\ m \in Nat
    BY OwnFacts, NumberFacts
  <1>2. ASSUME NEW v \in Tensors, Root(v) = t, NEW use \in Left(v, m, 0)
        PROVE  \E l \in m .. NLeafs + NNodes : \E j \in DOMAIN Src(l) : Root(Src(l)[j]) = t
    <2>1. use \in Uses(v) /\ (use[1] > m \/ use[1] = m)
      BY DEF Left
    <2>2. /\ use[1] \in Nodes /\ use[1] \in Nat
          /\ use[2] \in DOMAIN Src(use[1]) /\ Src(use[1])[use[2]] = v
      BY <2>1, UseType
    <2>3. use[1] \in m .. NLeafs + NNodes
      BY <1>1, <2>1, <2>2, NumberFacts DEF Nodes
    <2> QED
      BY <1>2, <2>2, <2>3
  <1>3. ASSUME NEW l \in m .. NLeafs + NNodes, NEW j \in DOMAIN Src(l), Root(Src(l)[j]) = t
        PROVE  Needed(t, m, 0)
    <2> DEFINE p == Src(l)[j]
    <2>1. l \in Tensors /\ l \in Nat /\ l >= m
      BY <1>1, NumberFacts DEF Tensors
    <2>2. p \in Tensors /\ <<l, j>> \in Uses(p) /\ j \in Nat /\ j > 0
      <3>1. j \in 1 .. Len(Src(l))
        BY <2>1, UseFacts
      <3> QED
        BY <2>1, <3>1, UseFacts
    <2> HIDE DEF p
    <2>3. <<l, j>> \in Left(p, m, 0)
      BY <1>1, <2>1, <2>2 DEF Left
    <2>4. CASE IsView(p)
      <3>1. p \in Views(t)
        BY <1>3, <2>2, <2>4, GraphFacts DEF Views, p
      <3> QED
        BY <2>3, <3>1 DEF Needed, LeftViews
    <2>5. CASE ~IsView(p)
      <3>1. p = t
        BY <1>3, <2>2, <2>5, GraphFacts DEF p
      <3> QED
        BY <2>3, <3>1 DEF Needed
    <2> QED
      BY <2>4, <2>5
  <1>4. ASSUME NEW v \in Tensors, Root(v) = t, ~Consumed(v)
        PROVE  Needed(t, m, 0)
    <2>1. CASE IsView(v)
      <3>1. v \in Views(t)
        BY <1>4, <2>1, GraphFacts DEF Views
      <3> QED
        BY <1>4, <3>1 DEF Needed, LeftViews
    <2>2. CASE ~IsView(v)
      <3>1. v = t
        BY <1>4, <2>2, GraphFacts
      <3> QED
        BY <1>4, <3>1 DEF Needed
    <2> QED
      BY <2>1, <2>2
  <1>5. \A v \in Views(t) : v \in Tensors /\ Root(v) = t
    BY NumberFacts DEF Views
  <1>6. ASSUME Needed(t, m, 0)
        PROVE  \/ t \in Outputs
               \/ \E l \in m .. NLeafs + NNodes : \E j \in DOMAIN Src(l) : Root(Src(l)[j]) = t
               \/ \E v \in Tensors : Root(v) = t /\ ~Consumed(v)
    <2>1. CASE Left(t, m, 0) # {}
      <3>1. PICK use : use \in Left(t, m, 0)
        BY <2>1
      <3> QED
        BY <1>1, <1>2, <3>1
    <2>2. CASE LeftViews(t, m, 0) # {}
      <3>1. PICK v \in Views(t) : ~Consumed(v) \/ Left(v, m, 0) # {}
        BY <2>2 DEF LeftViews
      <3> QED
        BY <1>2, <1>5, <3>1
    <2> QED
      BY <1>1, <1>6, <2>1, <2>2 DEF Needed
  <1>7. t \in Outputs => Needed(t, m, 0)
    BY DEF Needed
  <1> QED
    BY <1>3, <1>4, <1>6, <1>7

(* While planning, a tensor owns memory exactly as long as it is needed,   *)
(* whatever the graph: ggml_gallocr_alloc_graph_impl neither gives memory  *)
(* back early nor keeps it.                                                *)
THEOREM MemoryAsNeeded == Spec => []AllocatedWhileNeeded
  <1>1. ASSUME IInv PROVE AllocatedWhileNeeded
    <2> SUFFICES ASSUME phase = "plan", NEW t \in Own
                 PROVE  hash[t].allocated <=>
                            /\ t < n
                            /\ \/ t \in Outputs
                               \/ \E m \in n .. NLeafs + NNodes : \E j \in DOMAIN Src(m) : Root(Src(m)[j]) = t
                               \/ \E v \in Tensors : Root(v) = t /\ ~Consumed(v)
      BY DEF AllocatedWhileNeeded
    <2>1. PlanInv(Planning, n, n, 0, {}) /\ GraphOK /\ n \in NLeafs + 1 .. NLeafs + NNodes + 1
      BY <1>1 DEF IInv, PlanningOK, TypeOK
    <2>2. hash[t].allocated <=> t < n /\ Needed(t, n, 0)
      BY <2>1 DEF PlanInv, Holding, Planning
    <2> QED
      BY <2>1, <2>2, NeededFacts
  <1> QED
    BY <1>1, InitInv, NextInv, PTL DEF Spec
-----------------------------------------------------------------------------
(* Computing in the memory that was planned.  All graphs have one topology *)
(* here, and every leaf is used: ggml_gallocr_needs_realloc compares sizes *)
(* only, and only those of nodes and their sources.                        *)

LeafsUsed ==
    \A topo \in Topologies : \A l \in Leafs :
        \E m \in Nodes : \E j \in DOMAIN topo.src[m] : topo.src[m][j] = l

(* A chunk that has nothing but empty tensors is not looked for in the     *)
(* buffer.                                                                 *)
NonEmpty ==
    /\ \A l \in DOMAIN LayoutSize : LayoutSize[l] # 0
    /\ \A in \in Inputs : in.scale # 0

PlanMade(p) ==
    /\ p.graph.topo = graph.topo
    /\ \E topo \in Topologies : p.graph \in GraphsOf(topo)
    /\ \A t \in OwnIn(p.graph) : p.addr[t] \in Address
    /\ \A t, u \in OwnIn(p.graph) : t < u => Placed(p.graph, p.addr, t, u)

Covered(p, b) ==
    /\ b \in Seq(Nat)
    /\ NonEmpty => \A t \in OwnIn(p.graph) :
                      /\ p.addr[t].chunk \in DOMAIN b
                      /\ End(RangeIn(p.graph, p.addr, t)) <= b[p.addr[t].chunk]

Usable(p) == \A t \in Own : t \in OwnIn(p.graph) /\ SizeIn(graph, t) <= SizeIn(p.graph, t)

(* What is needed from node m on is there. *)
Intact(v, m) == \A t \in Tensors : ~IsView(t) /\ t < m /\ Needed(t, m, 0) => t \in v

Good(p, b) == PlanMade(p) /\ Covered(p, b)

PlanKept == \A p, b : p = plan /\ b = buffer /\ p # None => Good(p, b)
Computing ==
    /\ phase = "compute" <=> n \in Nodes
    /\ \A p, b : p = plan /\ b = buffer => Good(p, b) /\ Usable(p)
    /\ \A v, m : v = intact /\ m = n => Intact(v, m)

JInv ==
    /\ IInv /\ PlanKept
    /\ phase \in {"compute", "done"} => Computing

(* No tensor is empty where no layout and no scale is. *)
LEMMA NonEmptySize ==
  ASSUME NonEmpty, NEW topo \in Topologies, NEW g \in GraphsOf(topo), NEW t \in Tensors
  PROVE  SizeIn(g, t) # 0
  <1>1. PICK in \in Inputs : g = [topo |-> topo, external |-> in.external, scale |-> in.scale]
    BY DEF GraphsOf
  <1> DEFINE a == LayoutSize[g.topo.layout[t]]
             b == g.scale
             c == IF g.topo.op[t] = "wide" THEN Scratch ELSE 0
  <1>2. a \in Nat /\ a # 0
    <2>1. topo.layout[t] \in DOMAIN LayoutSize
      BY TopologiesAssumption DEF IsTopology
    <2> QED
      BY <1>1, <2>1, InputsAssumption DEF NonEmpty
  <1>3. b \in Nat /\ b # 0
    BY <1>1, InputsAssumption DEF NonEmpty
  <1>4. c \in Nat
    BY InputsAssumption
  <1>5. SizeIn(g, t) = a * b + c
    BY DEF SizeIn
  <1> HIDE DEF a, b, c
  <1>6. a * b \in Nat /\ a * b >= a
    <2>1. PICK d \in Nat : b = d + 1
      <3>1. b - 1 \in Nat /\ b = (b - 1) + 1
        BY <1>3
      <3> QED
        BY <3>1
    <2>2. a * b = a * d + a /\ a * d \in Nat
      BY <1>2, <2>1
    <2> QED
      BY <1>2, <2>2
  <1> QED
    BY <1>2, <1>4, <1>5, <1>6

(* The sizes of a graph for a plan. *)
LEMMA PlannedSizes ==
  ASSUME GraphOK, NEW p, PlanMade(p), NEW t \in Tensors
  PROVE  /\ SizeIn(p.graph, t) \in Nat /\ SizeIn(graph, t) \in Nat
         /\ Aligned(SizeIn(p.graph, t)) \in Nat /\ Aligned(SizeIn(graph, t)) \in Nat
         /\ SizeIn(graph, t) <= SizeIn(p.graph, t) =>
                Aligned(SizeIn(graph, t)) <= Aligned(SizeIn(p.graph, t))
  <1>1. PICK topo \in Topologies : p.graph \in GraphsOf(topo)
    BY DEF PlanMade
  <1>2. SizeIn(p.graph, t) \in Nat /\ Aligned(SizeIn(p.graph, t)) \in Nat
    BY <1>1, SizeFacts
  <1>3. PICK topo2 \in Topologies : graph \in GraphsOf(topo2)
    BY DEF GraphOK
  <1>4. SizeIn(graph, t) \in Nat /\ Aligned(SizeIn(graph, t)) \in Nat
    BY <1>3, SizeFacts
  <1> QED
    BY <1>2, <1>4, AlignedMonotone

(* Smaller ranges at the same addresses are apart, too. *)
LEMMA ApartSmaller ==
  ASSUME NEW a, NEW b, NEW c, NEW d, Apart(a, b),
         c.chunk = a.chunk, c.offset = a.offset, c.size <= a.size,
         d.chunk = b.chunk, d.offset = b.offset, d.size <= b.size,
         a.offset \in Nat, a.size \in Nat, c.size \in Nat,
         b.offset \in Nat, b.size \in Nat, d.size \in Nat
  PROVE  Apart(c, d) /\ Apart(d, c)
  BY DEF Apart, End

(* A plan that fits places the tensors of the present graph.               *)
LEMMA UsablePlaced ==
  ASSUME GraphOK, NEW p, PlanMade(p), Usable(p), NEW t \in Own, NEW u \in Own, t < u
  PROVE  Placed(graph, p.addr, t, u)
  <1>1. /\ t \in Tensors /\ u \in Tensors /\ t \in OwnIn(p.graph) /\ u \in OwnIn(p.graph)
        /\ SizeIn(graph, t) <= SizeIn(p.graph, t) /\ SizeIn(graph, u) <= SizeIn(p.graph, u)
    BY DEF Usable, Own
  <1>2. Placed(p.graph, p.addr, t, u) /\ p.addr[t] \in Address /\ p.addr[u] \in Address
    BY <1>1 DEF PlanMade
  <1> SUFFICES ASSUME Apart(RangeIn(p.graph, p.addr, t), RangeIn(p.graph, p.addr, u))
               PROVE  Apart(RangeIn(graph, p.addr, t), RangeIn(graph, p.addr, u))
    BY <1>2 DEF Placed
  <1> DEFINE a == RangeIn(p.graph, p.addr, t)
             b == RangeIn(p.graph, p.addr, u)
             c == RangeIn(graph, p.addr, t)
             d == RangeIn(graph, p.addr, u)
  <1>3. /\ a.size \in Nat /\ c.size \in Nat /\ c.size <= a.size
        /\ b.size \in Nat /\ d.size \in Nat /\ d.size <= b.size
    BY <1>1, PlannedSizes DEF RangeIn
  <1>4. /\ c.chunk = a.chunk /\ c.offset = a.offset /\ a.offset \in Nat
        /\ d.chunk = b.chunk /\ d.offset = b.offset /\ b.offset \in Nat
    BY <1>2 DEF RangeIn, Address
  <1>5. Apart(a, b)
    OBVIOUS
  <1> HIDE DEF a, b, c, d
  <1>6. Apart(c, d)
    BY <1>3, <1>4, <1>5, ApartSmaller
  <1> QED
    BY <1>6 DEF c, d

(* Of two tensors that are needed at once neither lies in the other.       *)
LEMMA UsableApart ==
  ASSUME GraphOK, NEW p, PlanMade(p), Usable(p), NEW t \in Own, NEW u \in Own, t < u,
         Needed(t, u, 0), ~TakenOver(p.addr, t, u)
  PROVE  /\ Apart(RangeIn(graph, p.addr, t), RangeIn(graph, p.addr, u))
         /\ Apart(RangeIn(graph, p.addr, u), RangeIn(graph, p.addr, t))
  <1> DEFINE c == RangeIn(graph, p.addr, t)
             d == RangeIn(graph, p.addr, u)
  <1>1. Apart(c, d)
    BY UsablePlaced DEF Placed
  <1>2. t \in Tensors /\ u \in Tensors /\ t \in OwnIn(p.graph) /\ u \in OwnIn(p.graph)
    BY DEF Usable, Own
  <1>3. /\ c.size \in Nat /\ d.size \in Nat /\ c.size <= c.size /\ d.size <= d.size
    BY <1>2, PlannedSizes DEF RangeIn
  <1>4. c.offset \in Nat /\ d.offset \in Nat
    <2>1. p.addr[t] \in Address /\ p.addr[u] \in Address
      BY <1>2 DEF PlanMade
    <2> QED
      BY <2>1 DEF RangeIn, Address
  <1> HIDE DEF c, d
  <1>5. Apart(c, d) /\ Apart(d, c)
    BY <1>1, <1>3, <1>4, ApartSmaller
  <1> QED
    BY <1>5 DEF c, d

(* The plan that has just been made is one for the present graph.          *)
LEMMA PlannedFacts ==
  ASSUME IInv, phase = "plan", n \notin Nodes,
         NEW p, p = [graph |-> graph, addr |-> [t \in Tensors |-> hash[t].addr]]
  PROVE  PlanMade(p) /\ Usable(p) /\ Covered(p, Reallocated)
  <1>1. /\ GraphOK /\ TypeOK /\ n = NLeafs + NNodes + 1
        /\ PlanInv(Planning, n, n, 0, {})
    BY CounterFacts DEF IInv, PlanningOK, TypeOK
  <1>2. /\ p.graph = graph /\ p.addr = AddrOf(Planning.hash) /\ Planning.chunks = chunks
    BY DEF Planning, AddrOf
  <1>3. OwnIn(graph) = Own
    BY DEF OwnIn, Own, External
  <1>4. \A t \in Own : t \in Tensors /\ t < n
    BY <1>1, TensorsAssumption DEF Own, Tensors
  <1>5. \A t \in Own : HasPlace(chunks, p.addr, t)
    BY <1>1, <1>2, <1>4 DEF PlanInv, MemoryInv
  <1>6. \A t, u \in Own : t < u => Placed(graph, p.addr, t, u)
    BY <1>1, <1>2, <1>4 DEF PlanInv, MemoryInv
  <1>7. PlanMade(p)
    BY <1>1, <1>2, <1>3, <1>5, <1>6 DEF PlanMade, HasPlace, GraphOK
  <1>8. Usable(p)
    <2> SUFFICES ASSUME NEW t \in Own PROVE t \in OwnIn(p.graph) /\ SizeIn(graph, t) <= SizeIn(p.graph, t)
      BY DEF Usable
    <2>1. SizeIn(graph, t) \in Nat
      BY <1>1, <1>4, <1>7, PlannedSizes
    <2> QED
      BY <1>2, <1>3, <2>1
  <1>9. chunks \in Chunks /\ Reallocated \in Seq(Nat)
    BY <1>1, ReallocatedType DEF TypeOK, Chunks
  <1>10. ASSUME NonEmpty, NEW t \in Own
         PROVE  /\ p.addr[t].chunk \in DOMAIN Reallocated
                /\ End(RangeIn(p.graph, p.addr, t)) <= Reallocated[p.addr[t].chunk]
    <2> DEFINE k == p.addr[t].chunk
               e == End(RangeIn(graph, p.addr, t))
    <2>1. k \in DOMAIN chunks /\ e <= chunks[k].max_size /\ p.addr[t] \in Address
      BY <1>5, <1>10 DEF HasPlace
    <2>2. e \in Nat /\ e # 0
      <3>1. PICK topo \in Topologies : graph \in GraphsOf(topo)
        BY <1>1 DEF GraphOK
      <3>2. t \in Tensors
        BY <1>4, <1>10
      <3>3. Aligned(SizeIn(graph, t)) \in Nat /\ Aligned(SizeIn(graph, t)) # 0
        <4>1. SizeIn(graph, t) # 0
          BY <1>10, <3>1, <3>2, NonEmptySize
        <4> QED
          BY <3>1, <3>2, <4>1, SizeFacts
      <3>4. e = p.addr[t].offset + Aligned(SizeIn(graph, t)) /\ p.addr[t].offset \in Nat
        BY <2>1 DEF RangeIn, End, Address
      <3> QED
        BY <3>3, <3>4
    <2>3. chunks[k].max_size \in Nat
      BY <1>9, <2>1, ChunksFacts
    <2> HIDE DEF e, k
    <2>4. CASE \/ buffer = None
               \/ \E l \in DOMAIN chunks :
                     (IF l \in DOMAIN buffer THEN buffer[l] ELSE 0) < chunks[l].max_size
      <3>1. Reallocated = [l \in DOMAIN chunks |-> chunks[l].max_size]
        BY <2>4 DEF Reallocated
      <3> QED
        BY <1>2, <2>1, <3>1 DEF e, k
    <2>5. CASE ~ \/ buffer = None
                 \/ \E l \in DOMAIN chunks :
                       (IF l \in DOMAIN buffer THEN buffer[l] ELSE 0) < chunks[l].max_size
      <3>1. Reallocated = buffer /\ buffer \in Seq(Nat)
        BY <1>1, <2>5 DEF Reallocated, TypeOK
      <3>2. ~((IF k \in DOMAIN buffer THEN buffer[k] ELSE 0) < chunks[k].max_size)
        BY <2>1, <2>5
      <3>3. k \in DOMAIN buffer
        BY <2>1, <2>2, <2>3, <3>2
      <3>4. buffer[k] \in Nat
        BY <3>1, <3>3, ElementOfSeq, LenProperties
      <3>5. e <= buffer[k]
        BY <2>1, <2>2, <2>3, <3>2, <3>3, <3>4
      <3> QED
        BY <1>2, <3>1, <3>3, <3>5 DEF e, k
    <2> QED
      BY <2>4, <2>5
  <1>11. Covered(p, Reallocated)
    BY <1>2, <1>3, <1>9, <1>10 DEF Covered
  <1> QED
    BY <1>7, <1>8, <1>11

(* A plan is kept only if every tensor still fits.                         *)
LEMMA KeptUsable ==
  ASSUME LeafsUsed, GraphOK, ~NeedsRealloc, PlanMade(plan)
  PROVE  plan # None /\ Usable(plan)
  <1>1. /\ plan # None
        /\ \A m \in Nodes :
              /\ StillFits(m, SizeMax(m))
              /\ \A j \in DOMAIN Src(m) : StillFits(Src(m)[j], SizeMaxOfSrc(m, j))
    BY DEF NeedsRealloc
  <1>2. \A t : plan.graph.topo.op[t] = Op(t) /\ plan.graph.topo.src[t] = Src(t)
    BY DEF PlanMade, Op, Src
  <1>3. ASSUME NEW t \in Own, StillFits(t, SizeMax(t))
        PROVE  t \in OwnIn(plan.graph) /\ SizeIn(graph, t) <= SizeIn(plan.graph, t)
    <2>1. t \in Tensors /\ ~External(t) /\ ~IsView(t)
      BY DEF Own
    <2>2. SizeMax(t) >= 0 /\ SizeIn(graph, t) <= SizeMax(t)
      BY <1>3, <2>1 DEF StillFits
    <2>3. t \notin plan.graph.external
      <3> SUFFICES ASSUME t \in plan.graph.external PROVE FALSE
        OBVIOUS
      <3>1. SizeMax(t) = -1
        BY DEF SizeMax
      <3> QED
        BY <2>2, <3>1
    <2>4. SizeMax(t) = SizeIn(plan.graph, t)
      BY <1>2, <2>1, <2>3 DEF SizeMax, IsView
    <2> QED
      BY <2>1, <2>2, <2>3, <2>4 DEF OwnIn
  <1>4. ASSUME NEW t \in Own PROVE StillFits(t, SizeMax(t))
    <2>1. t \in Tensors
      BY DEF Own
    <2>2. CASE t \in Nodes
      BY <1>1, <2>2
    <2>3. CASE t \in Leafs
      <3>1. PICK topo \in Topologies : graph \in GraphsOf(topo)
        BY DEF GraphOK
      <3>2. graph.topo = topo
        BY <3>1 DEF GraphsOf
      <3>3. PICK m \in Nodes : \E j \in DOMAIN Src(m) : Src(m)[j] = t
        BY <2>3, <3>1, <3>2 DEF LeafsUsed, Src
      <3>4. PICK j \in DOMAIN Src(m) : Src(m)[j] = t
        BY <3>3
      <3>5. SizeMaxOfSrc(m, j) = SizeMax(t)
        BY <1>2, <3>4 DEF SizeMaxOfSrc
      <3> QED
        BY <1>1, <3>4, <3>5
    <2> QED
      BY <2>1, <2>2, <2>3, NumberFacts
  <1> QED
    BY <1>1, <1>3, <1>4 DEF Usable

(* The leafs that the program sets do not overwrite each other.            *)
LEMMA ReadyIntact ==
  ASSUME GraphOK, NEW p, PlanMade(p), Usable(p), ReadyToCompute(p)
  PROVE  \A v : v = intact' => Intact(v, NLeafs + 1)
  <1> DEFINE memory(t) == [chunk |-> p.addr[t].chunk, offset |-> p.addr[t].offset, size |-> Size(t)]
  <1>1. intact' = {t \in Leafs : External(t) \/
                      \A u \in (Leafs \cap Own) \ {t} : Apart(memory(t), memory(u))}
    BY DEF ReadyToCompute
  <1>2. \A t : memory(t) = RangeIn(graph, p.addr, t)
    BY DEF RangeIn, Size
  <1> HIDE DEF memory
  <1>3. ASSUME NEW t \in Leafs, NEW u \in Leafs, t \in Own, u \in Own, t < u
        PROVE  Apart(memory(t), memory(u)) /\ Apart(memory(u), memory(t))
    <2>1. t \in Tensors /\ u \in Tensors /\ u \in Nat /\ u <= NLeafs + 1
      BY NumberFacts
    <2>2. Needed(t, u, 0)
      BY <2>1, LeftAtStart
    <2>3. ~TakenOver(p.addr, t, u)
      BY <2>1, GraphFacts DEF TakenOver
    <2> QED
      BY <1>2, <1>3, <2>2, <2>3, UsableApart
  <1>4. ASSUME NEW t \in Leafs PROVE t \in intact'
    <2>1. CASE External(t)
      BY <1>1, <2>1
    <2>2. CASE ~External(t)
      <3>1. t \in Own
        BY <2>2, GraphFacts, NumberFacts DEF Own, IsView
      <3>2. ASSUME NEW u \in (Leafs \cap Own) \ {t} PROVE Apart(memory(t), memory(u))
        <4>1. t < u \/ u < t
          BY NumberFacts
        <4> QED
          BY <1>3, <3>1, <4>1
      <3> QED
        BY <1>1, <3>2
    <2> QED
      BY <2>1, <2>2
  <1>5. \A t \in Tensors : t < NLeafs + 1 => t \in Leafs
    BY NumberFacts DEF Tensors, Leafs
  <1> QED
    BY <1>4, <1>5 DEF Intact

(* The memory of a tensor that is not a view. *)
LEMMA MemoryFacts ==
  ASSUME GraphOK, NEW t \in Tensors, ~IsView(t)
  PROVE  Memory(t) = RangeIn(graph, plan.addr, t)
  <1>1. Root(t) = t
    BY GraphFacts
  <1> QED
    BY <1>1 DEF Memory, RangeIn, Size

(* A node is computed, and overwrites nothing that is still needed.        *)
LEMMA ComputeIntact ==
  ASSUME GraphOK, PlanMade(plan), Usable(plan), n \in Nodes, Intact(intact, n), Compute
  PROVE  \A v : v = intact' => Intact(v, n + 1)
  <1>1. n \in Tensors /\ n \in Nat /\ n \notin Leafs
    <2>1. \A l \in Leafs : l # n
      BY NumberFacts
    <2> QED
      BY <2>1, NumberFacts
  <1>2. intact' = IF IsView(n) THEN intact
                  ELSE {n} \union {t \in intact : External(t) \/ Apart(Memory(t), Memory(n))}
    BY DEF Compute
  <1>3. ASSUME NEW t \in Tensors, ~IsView(t), t < n + 1, Needed(t, n + 1, 0), t # n
        PROVE  t \in intact /\ t < n
    <2>1. t < n
      BY <1>1, <1>3, NumberFacts
    <2>2. Needed(t, n, 0)
      BY <1>1, <1>3, LeftLess
    <2> QED
      BY <1>3, <2>1, <2>2 DEF Intact
  <1>4. CASE IsView(n)
    BY <1>2, <1>3, <1>4 DEF Intact
  <1>5. CASE ~IsView(n)
    <2>1. n \in Own
      BY <1>1, <1>5, GraphFacts DEF Own
    <2>2. ASSUME NEW t \in Tensors, ~IsView(t), t < n + 1, Needed(t, n + 1, 0)
          PROVE  t \in intact'
      <3>1. CASE t = n \/ External(t)
        BY <1>2, <1>3, <1>5, <2>2, <3>1
      <3>2. CASE t # n /\ ~External(t)
        <4>1. t \in Own /\ t \in intact /\ t < n
          BY <1>3, <2>2, <3>2 DEF Own
        <4>2. Needed(t, n, 0)
          BY <1>1, <2>2, LeftLess
        <4>3. ~TakenOver(plan.addr, t, n)
          BY <2>2 DEF TakenOver
        <4>4. Apart(RangeIn(graph, plan.addr, t), RangeIn(graph, plan.addr, n))
          BY <2>1, <4>1, <4>2, <4>3, UsableApart
        <4>5. Apart(Memory(t), Memory(n))
          BY <1>1, <1>5, <2>2, <4>4, MemoryFacts
        <4> QED
          BY <1>2, <1>5, <4>1, <4>5
      <3> QED
        BY <3>1, <3>2
    <2> QED
      BY <2>2 DEF Intact
  <1> QED
    BY <1>4, <1>5

(* What is said of plans does not change with the inputs. *)
LEMMA SamePlan ==
  ASSUME graph'.topo = graph.topo, NEW p, NEW b, NEW v, NEW m
  PROVE  /\ PlanMade(p)' <=> PlanMade(p)
         /\ Covered(p, b)' <=> Covered(p, b)
         /\ Intact(v, m)' <=> Intact(v, m)
         /\ graph' = graph => (Usable(p)' <=> Usable(p))
  <1>1. \A g : OwnIn(g)' = OwnIn(g)
    BY SameTopologyFacts
  <1>2. \A g, addr, t, u : Placed(g, addr, t, u)' <=> Placed(g, addr, t, u)
    BY SameTopologyFacts
  <1>3. \A t : IsView(t)' = IsView(t)
    BY SameTopologyFacts
  <1>4. \A t, l, j : Needed(t, l, j)' <=> Needed(t, l, j)
    BY SameTopologyFacts
  <1>5. PlanMade(p)' <=> PlanMade(p)
    BY <1>1, <1>2 DEF PlanMade
  <1>6. Covered(p, b)' <=> Covered(p, b)
    BY <1>1 DEF Covered
  <1>7. Intact(v, m)' <=> Intact(v, m)
    BY <1>3, <1>4 DEF Intact
  <1>8. graph' = graph => (Usable(p)' <=> Usable(p))
    <2> SUFFICES ASSUME graph' = graph PROVE Usable(p)' <=> Usable(p)
      OBVIOUS
    <2>1. Own' = Own
      BY <1>3 DEF Own, External
    <2> QED
      BY <1>1, <2>1 DEF Usable
  <1> QED
    BY <1>5, <1>6, <1>7, <1>8

(* A plan is as good for the next graph. *)
LEMMA PlanStays ==
  ASSUME PlanKept, graph'.topo = graph.topo, plan' = plan, buffer' = buffer
  PROVE  PlanKept'
  <1>1. ASSUME NEW p, NEW b, p = plan', b = buffer', p # None
        PROVE  Good(p, b)'
    <2>1. Good(p, b)
      BY <1>1 DEF PlanKept
    <2> QED
      BY <2>1, SamePlan DEF Good
  <1> QED
    BY <1>1 DEF PlanKept

(* The program starts to compute. *)
LEMMA ReadyInv ==
  ASSUME GraphOK, NEW p, NEW b, p = plan', b = buffer', Good(p, b), Usable(p), ReadyToCompute(p),
         graph' = graph
  PROVE  Computing' /\ PlanKept'
  <1>1. phase' = "compute" /\ n' = NLeafs + 1 /\ n' \in Nodes
    BY TensorsAssumption DEF ReadyToCompute, Nodes
  <1>2. Usable(p)' /\ Good(p, b)'
    BY SamePlan DEF Good
  <1>3. ASSUME NEW v, NEW m, v = intact', m = n' PROVE Intact(v, m)'
    <2>1. Intact(v, m)
      BY <1>1, <1>3, ReadyIntact DEF Good
    <2> QED
      BY <2>1, SamePlan
  <1>4. phase' = "compute" <=> n' \in Nodes
    BY <1>1
  <1>5. \A q, c : q = plan' /\ c = buffer' => Good(q, c)' /\ Usable(q)'
    BY <1>2
  <1> QED
    BY <1>3, <1>4, <1>5 DEF Computing, PlanKept

(* Every step keeps the plan a good one, and what is needed in memory.     *)
LEMMA NextJ ==
  ASSUME SameTopology, LeafsUsed, JInv, [Next]_vars
  PROVE  JInv'
  <1>1. IInv /\ IInv' /\ PlanKept /\ GraphOK /\ TypeOK
    BY NextInv DEF JInv, IInv
  <1>2. CASE Reserve \/ PlanNode
    <2>1. graph' = graph /\ plan' = plan /\ buffer' = buffer /\ phase' = "plan"
      BY <1>2 DEF Reserve, PlanNode
    <2> QED
      BY <1>1, <2>1, PlanStays DEF JInv
  <1>3. CASE Planned
    <2> DEFINE p == [graph |-> graph, addr |-> [t \in Tensors |-> hash[t].addr]]
    <2>1. /\ phase = "plan" /\ n \notin Nodes /\ graph' = graph
          /\ p = plan' /\ buffer' = Reallocated /\ ReadyToCompute(p)
      BY <1>3 DEF Planned
    <2>2. PlanMade(p) /\ Usable(p) /\ Covered(p, Reallocated)
      BY <1>1, <2>1, PlannedFacts
    <2> HIDE DEF p
    <2>3. Computing' /\ PlanKept'
      BY <1>1, <2>1, <2>2, ReadyInv DEF Good
    <2> QED
      BY <1>1, <2>3 DEF JInv
  <1>4. CASE KeepPlan
    <2>1. /\ ~NeedsRealloc /\ graph' = graph /\ plan' = plan /\ buffer' = buffer
          /\ ReadyToCompute(plan)
      BY <1>4 DEF KeepPlan
    <2>2. plan # None
      BY <2>1 DEF NeedsRealloc
    <2>3. Good(plan, buffer)
      BY <1>1, <2>2 DEF PlanKept
    <2>4. Usable(plan)
      BY <1>1, <2>1, <2>3, KeptUsable DEF Good
    <2>5. Computing' /\ PlanKept'
      BY <1>1, <2>1, <2>3, <2>4, ReadyInv
    <2> QED
      BY <1>1, <2>5 DEF JInv
  <1>5. CASE Compute
    <2>1. /\ phase = "compute" /\ n \in Nodes /\ n' = n + 1
          /\ phase' = (IF n' \in Nodes THEN "compute" ELSE "done")
          /\ graph' = graph /\ plan' = plan /\ buffer' = buffer
      BY <1>5 DEF Compute
    <2>2. Computing
      BY <2>1 DEF JInv
    <2>3. Good(plan, buffer) /\ Usable(plan) /\ Intact(intact, n)
      BY <2>2 DEF Computing
    <2>4. \A v : v = intact' => Intact(v, n + 1)
      BY <1>1, <1>5, <2>1, <2>3, ComputeIntact DEF Good
    <2>5. ASSUME NEW v, NEW m, v = intact', m = n' PROVE Intact(v, m)'
      <3>1. Intact(v, m)
        BY <2>1, <2>4, <2>5
      <3> QED
        BY <2>1, <3>1, SamePlan
    <2>6. ASSUME NEW p, NEW b, p = plan', b = buffer' PROVE Good(p, b)' /\ Usable(p)'
      <3>1. Good(p, b) /\ Usable(p)
        BY <2>1, <2>3, <2>6
      <3> QED
        BY <2>1, <3>1, SamePlan DEF Good
    <2>7. Computing'
      BY <2>1, <2>5, <2>6 DEF Computing
    <2> QED
      BY <1>1, <2>1, <2>7, PlanStays DEF JInv
  <1>6. CASE Build
    <2>1. phase' = "built" /\ plan' = plan /\ buffer' = buffer
      BY <1>6 DEF Build
    <2>2. graph'.topo = graph.topo
      BY <1>6 DEF Build, GraphsOf
    <2> QED
      BY <1>1, <2>1, <2>2, PlanStays DEF JInv
  <1>7. CASE UNCHANGED vars
    <2>1. /\ graph' = graph /\ phase' = phase /\ n' = n /\ plan' = plan
          /\ buffer' = buffer /\ intact' = intact
      BY <1>7 DEF vars
    <2>2. ASSUME Computing PROVE Computing'
      <3>1. ASSUME NEW v, NEW m, v = intact', m = n' PROVE Intact(v, m)'
        <4>1. Intact(v, m)
          BY <2>1, <2>2, <3>1 DEF Computing
        <4> QED
          BY <2>1, <4>1, SamePlan
      <3>2. ASSUME NEW p, NEW b, p = plan', b = buffer' PROVE Good(p, b)' /\ Usable(p)'
        <4>1. Good(p, b) /\ Usable(p)
          BY <2>1, <2>2, <3>2 DEF Computing
        <4> QED
          BY <2>1, <4>1, SamePlan DEF Good
      <3>3. phase' = "compute" <=> n' \in Nodes
        BY <2>1, <2>2 DEF Computing
      <3> QED
        BY <3>1, <3>2, <3>3 DEF Computing
    <2> QED
      BY <1>1, <2>1, <2>2, PlanStays DEF JInv
  <1> QED
    BY <1>2, <1>3, <1>4, <1>5, <1>6, <1>7 DEF Next

(* Nothing is planned at first. *)
LEMMA InitJ ==
  ASSUME Init
  PROVE  JInv
  BY InitInv DEF Init, JInv, PlanKept

(* What a state of computing has. *)
LEMMA ComputingFacts ==
  ASSUME JInv, phase \in {"compute", "done"}
  PROVE  /\ GraphOK /\ n \in NLeafs + 1 .. NLeafs + NNodes + 1
         /\ phase = "compute" <=> n \in Nodes
         /\ PlanMade(plan) /\ Covered(plan, buffer) /\ Usable(plan) /\ Intact(intact, n)
  BY DEF JInv, IInv, TypeOK, Computing, Good

(* The memory that a source looks at is needed until the node.             *)
LEMMA RootNeeded ==
  ASSUME GraphOK, NEW m \in Tensors, NEW j \in DOMAIN Src(m)
  PROVE  /\ Root(Src(m)[j]) \in Tensors /\ ~IsView(Root(Src(m)[j])) /\ Root(Src(m)[j]) < m
         /\ Needed(Root(Src(m)[j]), m, 0)
         /\ IsView(Src(m)[j]) => LeftViews(Root(Src(m)[j]), m, 0) # {}
  <1> DEFINE p == Src(m)[j]
             r == Root(p)
  <1>1. p \in Tensors /\ p < m /\ <<m, j>> \in Uses(p)
    BY UseFacts
  <1>2. j \in Nat /\ j > 0 /\ m \in Nat
    <2>1. j \in 1 .. Len(Src(m))
      BY UseFacts
    <2> QED
      BY <2>1, UseFacts, NumberFacts
  <1> HIDE DEF p
  <1>3. r \in Tensors /\ r <= p /\ ~IsView(r)
    BY <1>1, GraphFacts
  <1>4. <<m, j>> \in Left(p, m, 0)
    BY <1>1, <1>2 DEF Left
  <1>5. r < m
    <2>1. r \in Nat /\ p \in Nat
      BY <1>1, <1>3, NumberFacts
    <2> HIDE DEF r
    <2> QED
      BY <1>1, <1>2, <1>3, <2>1
  <1>6. CASE IsView(p)
    <2>1. p \in Views(r)
      BY <1>1, <1>6, GraphFacts DEF Views
    <2>2. p \in LeftViews(r, m, 0)
      BY <1>4, <2>1 DEF LeftViews
    <2>3. Needed(r, m, 0)
      BY <2>2 DEF Needed
    <2> QED
      BY <1>3, <1>5, <2>2, <2>3 DEF p
  <1>7. CASE ~IsView(p)
    <2>1. r = p
      BY <1>1, <1>7, GraphFacts
    <2>2. Needed(r, m, 0)
      BY <1>4, <2>1 DEF Needed
    <2> QED
      BY <1>3, <1>5, <1>7, <2>2 DEF p
  <1> QED
    BY <1>6, <1>7

(* When a node is computed its sources hold their values, and its result   *)
(* goes elsewhere or exactly in the place of one that has the same layout, *)
(* also when ggml_gallocr_alloc_graph has kept the plan of an earlier      *)
(* graph.                                                                  *)
THEOREM SourcesStay ==
  ASSUME SameTopology, LeafsUsed
  PROVE  Spec => []SourcesIntact
  <1>1. ASSUME JInv PROVE SourcesIntact
    <2> SUFFICES ASSUME phase = "compute", NEW j \in DOMAIN Src(n)
                 PROVE  LET p == Src(n)[j]
                            r == Root(p)
                        IN  /\ r \in intact
                            /\ \/ IsView(n) \/ External(r) \/ Apart(Memory(n), Memory(r))
                               \/ /\ Op(n) = "elementwise" /\ Layout(n) = Layout(p)
                                  /\ plan.addr[n] = plan.addr[r]
      BY DEF SourcesIntact
    <2> DEFINE p == Src(n)[j]
               r == Root(p)
    <2>1. /\ GraphOK /\ n \in Nodes /\ n \in Tensors
          /\ PlanMade(plan) /\ Usable(plan) /\ Intact(intact, n)
      BY <1>1, ComputingFacts, NumberFacts
    <2>2. /\ r \in Tensors /\ ~IsView(r) /\ r < n /\ Needed(r, n, 0)
          /\ IsView(p) => LeftViews(r, n, 0) # {}
      BY <2>1, RootNeeded
    <2>3. p \in Tensors
      BY <2>1, UseFacts
    <2> HIDE DEF p
    <2>4. ~IsView(p) => r = p
      BY <2>1, <2>3, GraphFacts
    <2> HIDE DEF r
    <2>5. r \in intact
      BY <2>2, <2>1 DEF Intact
    <2>6. ASSUME ~IsView(n), ~External(r)
          PROVE  \/ Apart(Memory(n), Memory(r))
                 \/ /\ Op(n) = "elementwise" /\ Layout(n) = Layout(p)
                    /\ plan.addr[n] = plan.addr[r]
      <3>1. r \in Own
        BY <2>2, <2>6 DEF Own
      <3>2. n \in Own
        <4>1. n \notin Leafs
          <5>1. \A l \in Leafs : l # n
            BY <2>1, NumberFacts
          <5> QED
            BY <5>1
        <4> QED
          BY <2>1, <2>6, <4>1, GraphFacts DEF Own
      <3>3. CASE TakenOver(plan.addr, r, n)
        <4>1. r = p
          BY <2>2, <2>4, <3>3 DEF TakenOver
        <4> QED
          BY <3>3, <4>1 DEF TakenOver
      <3>4. CASE ~TakenOver(plan.addr, r, n)
        <4>1. Apart(RangeIn(graph, plan.addr, n), RangeIn(graph, plan.addr, r))
          BY <2>1, <2>2, <3>1, <3>2, <3>4, UsableApart
        <4>2. Memory(n) = RangeIn(graph, plan.addr, n) /\ Memory(r) = RangeIn(graph, plan.addr, r)
          BY <2>1, <2>2, <2>6, MemoryFacts
        <4> QED
          BY <4>1, <4>2
      <3> QED
        BY <3>3, <3>4
    <2> QED
      BY <2>5, <2>6 DEF r, p
  <1> QED
    BY <1>1, InitJ, NextJ, PTL DEF Spec

(* A computed output keeps its value until the whole graph is computed,    *)
(* unless it is a view that is consumed again (ggml_gallocr_free_node).    *)
THEOREM OutputsStay ==
  ASSUME SameTopology, LeafsUsed
  PROVE  Spec => []OutputsSurvive
  <1>1. ASSUME JInv PROVE OutputsSurvive
    <2> SUFFICES ASSUME NEW t \in Outputs \cap Computed, ~(IsView(t) /\ Consumed(t))
                 PROVE  Root(t) \in intact
      BY DEF OutputsSurvive
    <2>1. phase \in {"compute", "done"}
      BY DEF Computed
    <2>2. /\ GraphOK /\ n \in NLeafs + 1 .. NLeafs + NNodes + 1
          /\ phase = "compute" <=> n \in Nodes
          /\ Intact(intact, n)
      BY <1>1, <2>1, ComputingFacts
    <2>3. t \in Tensors /\ t \in Nat /\ t < n
      <3>1. CASE phase = "compute"
        <4>1. t \in Nodes /\ t \in 1 .. n - 1
          BY <3>1 DEF Computed
        <4> QED
          BY <2>2, <4>1, NumberFacts
      <3>2. CASE phase = "done"
        <4>1. t \in Nodes
          BY <3>2 DEF Computed
        <4>2. n = NLeafs + NNodes + 1
          BY <2>2, <3>2, CounterFacts
        <4> QED
          BY <4>1, <4>2, TensorsAssumption DEF Nodes, Tensors
      <3> QED
        BY <2>1, <3>1, <3>2
    <2>4. Root(t) \in Tensors /\ Root(t) <= t /\ ~IsView(Root(t))
      BY <2>2, <2>3, GraphFacts
    <2>5. Root(t) < n
      <3>1. Root(t) \in Nat /\ n \in Nat
        BY <2>2, <2>4, CounterFacts, NumberFacts
      <3> DEFINE r == Root(t)
      <3> HIDE DEF r
      <3>2. r \in Nat /\ r <= t
        BY <2>4, <3>1 DEF r
      <3>3. r < n
        BY <2>3, <3>1, <3>2
      <3> QED
        BY <3>3 DEF r
    <2>6. Needed(Root(t), n, 0)
      <3>1. CASE IsView(t)
        <4>1. t \in Views(Root(t)) /\ ~Consumed(t)
          BY <2>2, <2>3, <3>1, GraphFacts DEF Views
        <4>2. t \in LeftViews(Root(t), n, 0)
          BY <4>1 DEF LeftViews
        <4> QED
          BY <4>2 DEF Needed
      <3>2. CASE ~IsView(t)
        <4>1. Root(t) = t
          BY <2>2, <2>3, <3>2, GraphFacts
        <4> QED
          BY <4>1 DEF Needed
      <3> QED
        BY <3>1, <3>2
    <2> QED
      BY <2>2, <2>4, <2>5, <2>6 DEF Intact
  <1> QED
    BY <1>1, InitJ, NextJ, PTL DEF Spec

(* The buffer has room for every tensor at its address, also when the      *)
(* buffer or the whole plan is older than the graph, where no tensor is    *)
(* empty (ggml_gallocr_reserve_n_impl, ggml_gallocr_needs_realloc).        *)
THEOREM TensorsFit ==
  ASSUME SameTopology, LeafsUsed, NonEmpty
  PROVE  Spec => []PlanFits
  <1>1. ASSUME JInv PROVE PlanFits
    <2> SUFFICES ASSUME phase = "compute", NEW t \in Own
                 PROVE  /\ plan.addr[t].chunk \in DOMAIN buffer
                        /\ End(Memory(t)) <= buffer[plan.addr[t].chunk]
      BY DEF PlanFits
    <2>1. /\ GraphOK /\ PlanMade(plan) /\ Covered(plan, buffer) /\ Usable(plan)
      BY <1>1, ComputingFacts
    <2>2. /\ t \in Tensors /\ ~IsView(t) /\ t \in OwnIn(plan.graph)
          /\ SizeIn(graph, t) <= SizeIn(plan.graph, t)
      BY <2>1 DEF Usable, Own
    <2> DEFINE k == plan.addr[t].chunk
               e == End(RangeIn(plan.graph, plan.addr, t))
    <2>3. k \in DOMAIN buffer /\ e <= buffer[k] /\ buffer \in Seq(Nat)
      BY <2>1, <2>2 DEF Covered
    <2>4. buffer[k] \in Nat
      BY <2>3, ElementOfSeq, LenProperties
    <2>5. /\ e = plan.addr[t].offset + Aligned(SizeIn(plan.graph, t))
          /\ End(Memory(t)) = plan.addr[t].offset + Aligned(SizeIn(graph, t))
      BY <2>1, <2>2, MemoryFacts DEF RangeIn, End
    <2>6. plan.addr[t].offset \in Nat
      BY <2>1, <2>2 DEF PlanMade, Address
    <2>7. /\ Aligned(SizeIn(plan.graph, t)) \in Nat /\ Aligned(SizeIn(graph, t)) \in Nat
          /\ Aligned(SizeIn(graph, t)) <= Aligned(SizeIn(plan.graph, t))
      BY <2>1, <2>2, PlannedSizes
    <2> HIDE DEF k, e
    <2>8. End(Memory(t)) <= buffer[k]
      BY <2>3, <2>4, <2>5, <2>6, <2>7, SMTT(60)
    <2> QED
      BY <2>3, <2>8 DEF k
  <1> QED
    BY <1>1, InitJ, NextJ, PTL DEF Spec
=============================================================================
