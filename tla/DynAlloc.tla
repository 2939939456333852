------------------------------ MODULE DynAlloc ------------------------------
(***************************************************************************)
(* The dynamic tensor allocator at work (src/src/ggml-alloc.c): any        *)
(* sequence of allocations and releases of tensors, of releases of the end *)
(* of a tensor that was reused for a smaller one, and of resets between    *)
(* two graphs.                                                             *)
(***************************************************************************)
EXTENDS FreeLists, FiniteSets

CONSTANTS
    Tensors,
    Sizes,          \* the sizes in bytes that a tensor may have
    None

ASSUME SizesAssumption == Sizes \subseteq Nat /\ \A size \in Sizes : Aligned(size) <= Huge
ASSUME NoneAssumption == None \notin [chunk : Nat \ {0}, offset : Nat, size : Nat]

VARIABLES
    chunks,     \* talloc->chunks
    live        \* live[t]: the range t was given and has not given back

vars == <<chunks, live>>

Promise == INSTANCE Intervals

Extent == Promise!Extent
Apart(a, b) == Promise!Apart(a, b)

Live == {t \in Tensors : live[t] # None}

(* ggml_dyn_tallocr_new *)
Init ==
    /\ chunks = <<>>
    /\ live = [t \in Tensors |-> None]

Alloc(t, size) ==
    /\ t \notin Live
    /\ ~OutOfChunks(chunks, Aligned(size))
    /\ chunks' = AfterAlloc(chunks, Aligned(size))
    /\ LET a == AllocAddress(chunks, Aligned(size))
       IN  live' = [live EXCEPT ![t] = [chunk |-> a.chunk, offset |-> a.offset,
                                        size |-> Aligned(size)]]

Free(t) ==
    /\ t \in Live
    /\ chunks' = AfterFree(chunks, live[t], live[t].size)
    /\ live' = [live EXCEPT ![t] = None]

(* ggml_gallocr_free_extra_space: the memory of t goes over to a smaller   *)
(* tensor, the rest of it is released.                                     *)
FreeExtra(t, size) ==
    /\ t \in Live
    /\ 0 < size /\ Aligned(size) < live[t].size
    /\ LET rest == [live[t] EXCEPT !.offset = @ + Aligned(size)]
       IN  chunks' = AfterFree(chunks, rest, live[t].size - Aligned(size))
    /\ live' = [live EXCEPT ![t].size = Aligned(size)]

Reset ==
    /\ chunks' = <<>>
    /\ live' = [t \in Tensors |-> None]

Next ==
    \/ \E t \in Tensors, size \in Sizes : Alloc(t, size)
    \/ \E t \in Tensors : Free(t)
    \/ \E t \in Tensors, size \in Sizes : FreeExtra(t, size)
    \/ Reset

Spec == Init /\ [][Next]_vars
-----------------------------------------------------------------------------
(* Properties.                                                             *)

TypeOK ==
    /\ chunks \in Seq(Chunk)
    /\ live \in [Tensors -> Extent \union {None}]

BlockRange(k, i) ==
    [chunk |-> k, offset |-> chunks[k].blocks[i].offset, size |-> chunks[k].blocks[i].size]

(* Whatever came and went before, live tensors share no memory with each   *)
(* other nor with a free block: what is free may be handed out without a   *)
(* further look (ggml_dyn_tallocr_alloc, ggml_dyn_tallocr_free_bytes).     *)
NoOverlap ==
    \A t \in Live :
        /\ \A u \in Live \ {t} : Apart(live[t], live[u])
        /\ \A k \in DOMAIN chunks : \A i \in DOMAIN chunks[k].blocks :
              Apart(live[t], BlockRange(k, i))

(* The free blocks of a chunk stay sorted and no two of them meet, although *)
(* free_bytes stops at the first block it touches: as long as no tensor is *)
(* empty.                                                                  *)
Coalesced ==
    \A k \in DOMAIN chunks : \A i, j \in DOMAIN chunks[k].blocks :
        i < j => End(chunks[k].blocks[i]) < chunks[k].blocks[j].offset

(* max_size, from which the buffer of the chunk is allocated, covers every *)
(* live tensor.                                                            *)
WithinMaxSize ==
    \A t \in Live :
        /\ live[t].chunk \in DOMAIN chunks
        /\ End(live[t]) <= chunks[live[t].chunk].max_size

(* Nothing leaks: every address below max_size belongs to a free block or  *)
(* to a live tensor.                                                       *)
NoLeak ==
    \A k \in DOMAIN chunks : \A x \in 0 .. chunks[k].max_size - 1 :
        \/ \E i \in DOMAIN chunks[k].blocks : Covers(chunks[k].blocks[i], x)
        \/ \E t \in Live : live[t].chunk = k /\ Covers(live[t], x)

(* A chunk has at most one free block more than live tensors: the array of *)
(* MAX_FREE_BLOCKS blocks limits the tensors alive at a time, and not how  *)
(* many came and went ("out of free blocks").                              *)
FewBlocks ==
    \A k \in DOMAIN chunks :
        Len(chunks[k].blocks) <= 1 + Cardinality({t \in Live : live[t].chunk = k})

(* Each step of the allocator is a step of the promise.                    *)
PromiseSpec == Promise!Spec
=============================================================================
