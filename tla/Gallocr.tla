------------------------------- MODULE Gallocr -------------------------------
(***************************************************************************)
(* The graph allocator, ggml_gallocr (src/src/ggml-alloc.c), with a single *)
(* buffer: ggml_gallocr_alloc_graph plans where each tensor of a graph     *)
(* goes, or keeps the plan made for an earlier graph, and the graph is     *)
(* computed node by node in the memory planned for it.                     *)
(*                                                                         *)
(* Planning walks over the nodes once, in the order in which they will be  *)
(* computed.  It gives a node memory, in place of a source that nobody     *)
(* else needs where the operator allows it, and takes the memory of a      *)
(* source back after its last use.                                         *)
(***************************************************************************)
EXTENDS FreeLists, FiniteSets

CONSTANTS
    NLeafs, NNodes, \* the tensors are numbered: leafs first, then nodes
    MaxSrc,         \* GGML_MAX_SRC
    Topologies,     \* the graphs without sizes: operators, sources, outputs
    LayoutSize,     \* the bytes of a tensor of each layout, at scale 1
    Scratch,        \* what get_alloc_size adds for a wide operator
    Inputs,         \* what the graphs are built for: the scale of the sizes, and
                    \* the leafs that are allocated outside
    SameTopology,   \* does every graph have the topology of the first?
    None

Leafs == 1 .. NLeafs
Nodes == NLeafs + 1 .. NLeafs + NNodes
Tensors == 1 .. NLeafs + NNodes

(* An operator is "elementwise" (ggml_op_can_inplace holds, and the result *)
(* has the layout of the first source), "wide" (not in place, with scratch *)
(* memory behind its result, as Metal has for MUL_MAT_ID) or "view"        *)
(* (ggml_is_view; view_src is the tensor whose memory it looks at, never a *)
(* view itself).  Other tensors are their own view_src here.               *)
Operators == {"leaf", "elementwise", "wide", "view"}

IsTopology(topo) ==
    /\ topo.op \in [Tensors -> Operators]
    /\ topo.src \in [Tensors -> Seq(Tensors)]
    /\ topo.view_src \in [Tensors -> Tensors]
    /\ topo.layout \in [Tensors -> DOMAIN LayoutSize]
    /\ topo.out \subseteq Tensors
    /\ \A t \in Tensors :
          /\ t \in Leafs <=> topo.op[t] = "leaf"
          /\ Len(topo.src[t]) <= MaxSrc
          /\ \A j \in DOMAIN topo.src[t] : topo.src[t][j] < t
          /\ t \in Leafs => topo.src[t] = <<>>
          /\ topo.op[t] # "view" => topo.view_src[t] = t
          /\ topo.op[t] = "view" =>
                /\ topo.src[t] # <<>> /\ topo.view_src[t] = topo.view_src[topo.src[t][1]]
                /\ topo.op[topo.view_src[t]] # "view" /\ topo.view_src[t] < t

ASSUME TensorsAssumption == NLeafs \in Nat /\ NNodes \in Nat \ {0} /\ MaxSrc \in Nat
ASSUME TopologiesAssumption == \A topo \in Topologies : IsTopology(topo)
ASSUME InputsAssumption ==
    /\ Scratch \in Nat
    /\ \A l \in DOMAIN LayoutSize : LayoutSize[l] \in Nat
    /\ \A in \in Inputs :
          /\ in.scale \in Nat /\ in.external \subseteq Leafs
          /\ \A l \in DOMAIN LayoutSize : Aligned(LayoutSize[l] * in.scale + Scratch) <= Huge
ASSUME SameTopologyAssumption == SameTopology \in BOOLEAN

VARIABLES
    graph,      \* the graph given to ggml_gallocr_alloc_graph
    phase,      \* "built", "plan", "compute" or "done"
    n,          \* the node to plan or to compute next
    chunks,     \* the free lists of galloc->buf_tallocs[0]
    hash,       \* galloc->hash_values
    plan,       \* node_allocs and leaf_allocs: graph planned for, addresses
    buffer,     \* the sizes of the chunks of galloc->buffers[0]
    intact      \* the tensors whose values are in memory

vars == <<graph, phase, n, chunks, hash, plan, buffer, intact>>
-----------------------------------------------------------------------------
(* Graphs.                                                                 *)

GraphsOf(topo) ==
    {[topo |-> topo, external |-> in.external, scale |-> in.scale] : in \in Inputs}

Op(t) == graph.topo.op[t]
Src(t) == graph.topo.src[t]
Root(t) == graph.topo.view_src[t]
Layout(t) == graph.topo.layout[t]
Outputs == graph.topo.out
IsView(t) == Op(t) = "view"
External(t) == t \in graph.external

(* ggml_backend_buft_get_alloc_size *)
SizeIn(g, t) ==
    LayoutSize[g.topo.layout[t]] * g.scale + (IF g.topo.op[t] = "wide" THEN Scratch ELSE 0)
Size(t) == Aligned(SizeIn(graph, t))

-----------------------------------------------------------------------------
(* Planning: ggml_gallocr_alloc_graph_impl, on the free lists and the hash *)
(* table together.                                                         *)

Unused == [n_children |-> 0, n_views |-> 0, addr |-> None, allocated |-> FALSE]

(* The bugs of taking over memory that a view still looks at, or that an   *)
(* output lies in.                                                         *)
ReusableUnderView(h, t, p) ==
    /\ h[p].allocated /\ p \notin Outputs
    /\ Layout(t) = Layout(p) /\ h[p].n_children = 1
ReusableOutput(h, t, p) ==
    /\ h[p].allocated /\ Layout(t) = Layout(p)
    /\ h[p].n_children = 1 /\ h[p].n_views = 0

(* Is parent p a memory that node t can take over?  A view is never marked *)
(* allocated, so that the branch for views is never reached.               *)
Reusable(h, t, p) ==
    /\ h[p].allocated
    /\ p \notin Outputs
    /\ Layout(t) = Layout(p)
    /\ h[p].n_children = 1 /\ h[p].n_views = 0

(* Take over p, less what t does not need (ggml_gallocr_free_extra_space). *)
TakeOver(st, t, p) ==
    LET addr == st.hash[p].addr
        extra == Size(p) - Size(t)
    IN  [chunks |-> IF extra > 0
                    THEN AfterFree(st.chunks, [addr EXCEPT !.offset = @ + Size(t)], extra)
                    ELSE st.chunks,
         hash |-> [st.hash EXCEPT ![t].addr = addr, ![t].allocated = TRUE,
                                  ![p].allocated = FALSE]]

(* ggml_gallocr_allocate_node; the first source that can be taken over is. *)
AllocateNode(st, t) ==
    LET reusable == {j \in DOMAIN Src(t) : Reusable(st.hash, t, Src(t)[j])}
        first == CHOOSE j \in reusable : \A i \in reusable : j <= i
    IN  IF External(t) \/ st.hash[t].allocated \/ IsView(t) THEN st
        ELSE IF Op(t) = "elementwise" /\ reusable # {} THEN TakeOver(st, t, Src(t)[first])
        ELSE [chunks |-> AfterAlloc(st.chunks, Size(t)),
              hash |-> [st.hash EXCEPT ![t].addr = AllocAddress(st.chunks, Size(t)),
                                       ![t].allocated = TRUE]]

(* ggml_gallocr_free_node *)
FreeNode(st, t) ==
    IF t \in Outputs THEN st
    ELSE [chunks |-> AfterFree(st.chunks, st.hash[t].addr, Size(t)),
          hash |-> [st.hash EXCEPT ![t].allocated = FALSE]]

IsUnused(h, t) == h[t].n_children = 0 /\ h[t].n_views = 0

(* The bug of leaving what a view looks at allocated. *)
UpdateParentNotRoot(st, p) ==
    LET used == [st EXCEPT !.hash[p].n_children = @ - 1]
    IN  IF IsUnused(used.hash, p) /\ ~IsView(p) /\ used.hash[p].allocated
        THEN FreeNode(used, p) ELSE used

(* One use of parent p is over. *)
UpdateParent(st, p) ==
    LET used == [st EXCEPT !.hash[p].n_children = @ - 1]
        r == Root(p)
        viewed == [used EXCEPT !.hash[r].n_views = @ - 1]
    IN  IF ~IsUnused(used.hash, p) THEN used
        ELSE IF ~IsView(p)
        THEN IF used.hash[p].allocated THEN FreeNode(used, p) ELSE used
        ELSE IF IsUnused(viewed.hash, r) /\ viewed.hash[r].allocated THEN FreeNode(viewed, r)
        ELSE viewed

AllocateNodes(st, ts) ==
    LET after[i \in 0 .. Len(ts)] ==
            IF i = 0 THEN st ELSE AllocateNode(after[i - 1], ts[i])
    IN  after[Len(ts)]
UpdateParents(st, ps) ==
    LET after[i \in 0 .. Len(ps)] ==
            IF i = 0 THEN st ELSE UpdateParent(after[i - 1], ps[i])
    IN  after[Len(ps)]

(* The parents of a node, the node itself, and the uses it makes of them.  *)
PlanNodeOn(st, t) ==
    UpdateParents(AllocateNode(AllocateNodes(st, Src(t)), t), Src(t))

Uses(t) ==
    {use \in Nodes \X (1 .. MaxSrc) :
        use[2] \in DOMAIN Src(use[1]) /\ Src(use[1])[use[2]] = t}
Views(t) == {m \in Nodes : IsView(m) /\ Root(m) = t}

(* The bug of counting a node that uses a source twice only once. *)
CountedUsers(h) ==
    [t \in Tensors |->
        [h[t] EXCEPT !.n_children = Cardinality({use[1] : use \in Uses(t)}),
                     !.n_views = Cardinality(Views(t))]]

(* The leafs are allocated before all nodes, with nothing counted yet.     *)
CountedUses(h) ==
    [t \in Tensors |->
        [h[t] EXCEPT !.n_children = Cardinality(Uses(t)), !.n_views = Cardinality(Views(t))]]
-----------------------------------------------------------------------------
(* Keeping a plan.                                                         *)

(* size_max of tensor t as planned; -1 for none (buffer_id < 0). *)
SizeMax(t) ==
    IF t \in plan.graph.external \/ plan.graph.topo.op[t] = "view" THEN -1
    ELSE SizeIn(plan.graph, t)
SizeMaxOfSrc(m, j) ==
    LET src == plan.graph.topo.src[m]
    IN  IF j \in DOMAIN src THEN SizeMax(src[j]) ELSE -1

(* The bug of keeping a plan whatever the size. *)
StillFitsAny(t, size_max) == External(t) \/ IsView(t) \/ size_max >= 0

(* ggml_gallocr_node_needs_realloc, which says that it does not. *)
StillFits(t, size_max) ==
    External(t) \/ IsView(t) \/ (size_max >= 0 /\ SizeIn(graph, t) <= size_max)

(* ggml_gallocr_needs_realloc; the graphs here all have as many nodes and  *)
(* leafs.                                                                  *)
NeedsRealloc ==
    ~ /\ plan # None
      /\ \A m \in Nodes :
            /\ StillFits(m, SizeMax(m))
            /\ \A j \in DOMAIN Src(m) : StillFits(Src(m)[j], SizeMaxOfSrc(m, j))

(* The buffer is allocated anew if a chunk of it is too small.             *)
Reallocated ==
    IF \/ buffer = None
       \/ \E k \in DOMAIN chunks :
             (IF k \in DOMAIN buffer THEN buffer[k] ELSE 0) < chunks[k].max_size
    THEN [k \in DOMAIN chunks |-> chunks[k].max_size]
    ELSE buffer

-----------------------------------------------------------------------------
Init ==
    /\ \E topo \in Topologies : graph \in GraphsOf(topo)
    /\ phase = "built" /\ n = NLeafs + 1
    /\ chunks = <<>>
    /\ hash = [t \in Tensors |-> Unused]
    /\ plan = None /\ buffer = None
    /\ intact = {}

(* The memory of tensor t, or of its view_src. *)
Memory(t) ==
    LET addr == plan.addr[Root(t)]
    IN  [chunk |-> addr.chunk, offset |-> addr.offset, size |-> Size(Root(t))]

Apart(a, b) ==
    \/ a.chunk # b.chunk
    \/ a.size = 0 \/ b.size = 0
    \/ End(a) <= b.offset \/ End(b) <= a.offset

Own == {t \in Tensors : ~External(t) /\ ~IsView(t)}

(* ggml_gallocr_alloc_graph has given every tensor its address; the        *)
(* program sets the leafs, one after the other, before it computes.        *)
ReadyToCompute(p) ==
    LET memory(t) == [chunk |-> p.addr[t].chunk, offset |-> p.addr[t].offset, size |-> Size(t)]
    IN  /\ phase' = "compute" /\ n' = NLeafs + 1
        /\ intact' = {t \in Leafs : External(t) \/
                        \A u \in (Leafs \cap Own) \ {t} : Apart(memory(t), memory(u))}

(* ggml_gallocr_alloc_graph, when the plan must be made: everything is     *)
(* reset, the leafs are allocated and the uses counted.                    *)
Reserve ==
    /\ phase = "built" /\ NeedsRealloc
    /\ LET empty == [chunks |-> <<>>, hash |-> [t \in Tensors |-> Unused]]
           leafs == AllocateNodes(empty, [t \in Leafs |-> t])
       IN  chunks' = leafs.chunks /\ hash' = CountedUses(leafs.hash)
    /\ phase' = "plan" /\ n' = NLeafs + 1
    /\ UNCHANGED <<graph, plan, buffer, intact>>

PlanNode ==
    /\ phase = "plan" /\ n \in Nodes
    /\ LET st == PlanNodeOn([chunks |-> chunks, hash |-> hash], n)
       IN  chunks' = st.chunks /\ hash' = st.hash
    /\ n' = n + 1
    /\ UNCHANGED <<graph, phase, plan, buffer, intact>>

(* The rest of ggml_gallocr_reserve_n_impl, and of alloc_graph. *)
Planned ==
    /\ phase = "plan" /\ n \notin Nodes
    /\ plan' = [graph |-> graph, addr |-> [t \in Tensors |-> hash[t].addr]]
    /\ buffer' = Reallocated
    /\ ReadyToCompute(plan')
    /\ UNCHANGED <<graph, chunks, hash>>

(* ggml_gallocr_alloc_graph, when the last plan still fits. *)
KeepPlan ==
    /\ phase = "built" /\ ~NeedsRealloc
    /\ ReadyToCompute(plan)
    /\ UNCHANGED <<graph, chunks, hash, plan, buffer>>

(* The backend computes the next node. *)
Compute ==
    /\ phase = "compute" /\ n \in Nodes
    /\ intact' = IF IsView(n) THEN intact
                 ELSE {n} \union {t \in intact : External(t) \/ Apart(Memory(t), Memory(n))}
    /\ n' = n + 1
    /\ phase' = IF n' \in Nodes THEN "compute" ELSE "done"
    /\ UNCHANGED <<graph, chunks, hash, plan, buffer>>

(* The program builds its graph anew, for the next input. *)
Build ==
    /\ phase = "done"
    /\ \E topo \in IF SameTopology THEN {graph.topo} ELSE Topologies : graph' \in GraphsOf(topo)
    /\ phase' = "built" /\ n' = NLeafs + 1 /\ intact' = {}
    /\ UNCHANGED <<chunks, hash, plan, buffer>>

Next == Reserve \/ PlanNode \/ Planned \/ KeepPlan \/ Compute \/ Build

Spec == Init /\ [][Next]_vars
-----------------------------------------------------------------------------
(* Properties.                                                             *)

TypeOK ==
    /\ phase \in {"built", "plan", "compute", "done"}
    /\ n \in NLeafs + 1 .. NLeafs + NNodes + 1
    /\ chunks \in Seq(Chunk)
    /\ hash \in [Tensors -> [n_children : Nat, n_views : Nat, allocated : BOOLEAN,
                             addr : Address \union {None}]]
    /\ buffer = None \/ buffer \in Seq(Nat)
    /\ intact \subseteq Tensors

(* When a node is computed, its sources hold their values, and its result  *)
(* goes elsewhere or exactly in the place of one with the same layout:     *)
(* however the allocator shared and reused memory, and also when it keeps  *)
(* the plan made for a bigger input (ggml_gallocr_allocate_node, free_node,*)
(* needs_realloc).                                                         *)
SourcesIntact ==
    phase = "compute" =>
        \A j \in DOMAIN Src(n) :
            LET p == Src(n)[j]
                r == Root(p)
            IN  /\ r \in intact
                /\ \/ IsView(n) \/ External(r) \/ Apart(Memory(n), Memory(r))
                   \/ /\ Op(n) = "elementwise" /\ Layout(n) = Layout(p)
                      /\ plan.addr[n] = plan.addr[r]

Computed == IF phase = "done" THEN Nodes ELSE IF phase = "compute" THEN Nodes \cap 1 .. n - 1 ELSE {}

Consumed(t) == \E m \in Nodes : \E j \in DOMAIN Src(m) : Src(m)[j] = t

(* A computed output keeps its value until the whole graph is computed,    *)
(* unless it is a view that is consumed again (ggml_gallocr_free_node).    *)
OutputsSurvive ==
    \A t \in Outputs \cap Computed : ~(IsView(t) /\ Consumed(t)) => Root(t) \in intact

(* What include/ggml-alloc.h says of ggml_set_output: output tensors are   *)
(* never freed and never overwritten.                                      *)
OutputsNeverOverwritten == \A t \in Outputs \cap Computed : Root(t) \in intact

(* While planning, a tensor owns memory exactly as long as it is needed:   *)
(* until its last use and that of its views; for ever if it is an output,  *)
(* or if nobody uses it or a view of it.  Memory is neither given back     *)
(* early nor kept, whatever order the uses come in (n_children and n_views,*)
(* ggml_gallocr_alloc_graph_impl).                                         *)
AllocatedWhileNeeded ==
    phase = "plan" =>
        \A t \in Own :
            hash[t].allocated <=>
                /\ t < n
                /\ \/ t \in Outputs
                   \/ \E m \in n .. NLeafs + NNodes : \E j \in DOMAIN Src(m) : Root(Src(m)[j]) = t
                   \/ \E v \in Tensors : Root(v) = t /\ ~Consumed(v)

(* The buffer has room for every tensor of the graph at its address, also  *)
(* when the buffer or the whole plan dates from an earlier graph.          *)
PlanFits ==
    phase = "compute" =>
        \A t \in Own :
            /\ plan.addr[t].chunk \in DOMAIN buffer
            /\ End(Memory(t)) <= buffer[plan.addr[t].chunk]
=============================================================================
