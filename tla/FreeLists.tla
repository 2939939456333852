------------------------------ MODULE FreeLists ------------------------------
(***************************************************************************)
(* The free lists of the dynamic tensor allocator, ggml_dyn_tallocr        *)
(* (src/src/ggml-alloc.c): what an allocation or a release makes of them.  *)
(*                                                                         *)
(* A chunk is a range of addresses with the list of its free blocks, kept  *)
(* in the order of their offsets, and the highest end of an allocation     *)
(* made in it.  Sizes and offsets are natural numbers: no sum comes near   *)
(* the width of a size_t.                                                  *)
(***************************************************************************)
EXTENDS Integers, Sequences

CONSTANTS
    Alignment,      \* of the buffer type
    MaxChunkSize,   \* the largest buffer the backend allows
    MaxChunks,      \* GGML_VBUFFER_MAX_CHUNKS
    Huge            \* SIZE_MAX / 2, the size of the last chunk

ASSUME AlignmentAssumption == Alignment \in Nat \ {0}
ASSUME ChunksAssumption ==
    /\ MaxChunkSize \in Nat /\ MaxChunks \in Nat \ {0} /\ Huge \in Nat

Block == [offset : Nat, size : Nat]
Chunk == [blocks : Seq(Block), max_size : Nat]
Address == [chunk : Nat \ {0}, offset : Nat]

End(b) == b.offset + b.size
Covers(b, x) == b.offset <= x /\ x < End(b)
Grown(b, size) == [offset |-> b.offset, size |-> b.size + size]

(* aligned_offset: the next multiple of the alignment. *)
Aligned(size) == Alignment * ((size + Alignment - 1) \div Alignment)

Without(s, i) == [j \in 1 .. Len(s) - 1 |-> IF j < i THEN s[j] ELSE s[j + 1]]
WithAt(s, i, b) ==
    [j \in 1 .. Len(s) + 1 |-> IF j < i THEN s[j] ELSE IF j = i THEN b ELSE s[j - 1]]

-----------------------------------------------------------------------------
(* ggml_dyn_tallocr_alloc, for a size that is a multiple of the alignment. *)

(* The blocks of c that fit, its last one aside. *)
Fitting(c, size) == {i \in 1 .. Len(c.blocks) - 1 : c.blocks[i].size >= size}

(* The smallest of them; of equals the one that comes last. *)
BestFit(c, size) ==
    CHOOSE i \in Fitting(c, size) : \A j \in Fitting(c, size) :
        \/ c.blocks[i].size < c.blocks[j].size
        \/ c.blocks[i].size = c.blocks[j].size /\ j <= i

LastBlock(c) == c.blocks[Len(c.blocks)]

(* The bug of extending a chunk without a look at its size. *)
ExtensibleAny(chunks, size) == {k \in DOMAIN chunks : chunks[k].blocks # <<>>}

(* The chunks whose last block fits. *)
Extensible(chunks, size) ==
    {k \in DOMAIN chunks : chunks[k].blocks # <<>> /\ LastBlock(chunks[k]).size >= size}

(* How much of the memory already claimed by c its last block would leave  *)
(* unused; how much more must be claimed, when negative.                   *)
ReuseFactor(c, size) == c.max_size - LastBlock(c).offset - size

(* Among the chunks that can be extended, one that need not grow and       *)
(* leaves least unused; or else the one that grows least; the first of     *)
(* equals.                                                                 *)
BestReuse(chunks, size) ==
    LET E == Extensible(chunks, size)
        r(k) == ReuseFactor(chunks[k], size)
        better(k, l) == IF r(k) >= 0 /\ r(l) >= 0 THEN r(k) < r(l) ELSE r(l) < r(k)
    IN  CHOOSE k \in E : \A l \in E : better(k, l) \/ (r(k) = r(l) /\ k <= l)

(* ggml_dyn_tallocr_new_chunk *)
NewChunk(n, size) ==
    [blocks |-> <<[offset |-> 0,
                   size |-> IF n = MaxChunks - 1 THEN Huge
                            ELSE IF size > MaxChunkSize THEN size ELSE MaxChunkSize]>>,
     max_size |-> 0]

(* The chunks, one more if need be, with the chunk and the block to take.  *)
(* The search for the smallest block starts anew in every chunk, so that   *)
(* the last chunk with a fitting block wins.                               *)
Place(chunks, size) ==
    LET fit == {k \in DOMAIN chunks : Fitting(chunks[k], size) # {}}
        last == CHOOSE k \in fit : \A l \in fit : l <= k
        best == BestReuse(chunks, size)
    IN  IF fit # {}
        THEN [chunks |-> chunks, k |-> last, i |-> BestFit(chunks[last], size)]
        ELSE IF Extensible(chunks, size) # {}
        THEN [chunks |-> chunks, k |-> best, i |-> Len(chunks[best].blocks)]
        ELSE [chunks |-> Append(chunks, NewChunk(Len(chunks), size)),
              k |-> Len(chunks) + 1, i |-> 1]

(* No chunk has room and no chunk can be added: the program aborts. *)
OutOfChunks(chunks, size) ==
    /\ \A k \in DOMAIN chunks : Fitting(chunks[k], size) = {}
    /\ Extensible(chunks, size) = {}
    /\ Len(chunks) >= MaxChunks

(* The bugs of leaving the block where it was, and of a size that follows  *)
(* the last allocation.                                                    *)
TakeUnmoved(c, i, size) ==
    LET b == c.blocks[i]
    IN  [blocks |-> [c.blocks EXCEPT ![i].size = @ - size],
         max_size |-> IF b.offset + size > c.max_size THEN b.offset + size ELSE c.max_size]
TakeLastSize(c, i, size) ==
    LET b == c.blocks[i]
    IN  [blocks |-> IF b.size = size THEN Without(c.blocks, i)
                    ELSE [c.blocks EXCEPT ![i] = [offset |-> b.offset + size, size |-> b.size - size]],
         max_size |-> b.offset + size]

(* Take size bytes from the front of block i. *)
Take(c, i, size) ==
    LET b == c.blocks[i]
        rest == [offset |-> b.offset + size, size |-> b.size - size]
        top == b.offset + size
    IN  [blocks |-> IF rest.size = 0 THEN Without(c.blocks, i)
                    ELSE [c.blocks EXCEPT ![i] = rest],
         max_size |-> IF top > c.max_size THEN top ELSE c.max_size]

AllocAddress(chunks, size) ==
    LET p == Place(chunks, size)
    IN  [chunk |-> p.k, offset |-> p.chunks[p.k].blocks[p.i].offset]

AfterAlloc(chunks, size) ==
    LET p == Place(chunks, size)
    IN  [p.chunks EXCEPT ![p.k] = Take(@, p.i, size)]

-----------------------------------------------------------------------------
(* ggml_dyn_tallocr_free_bytes *)

(* The blocks that end where the released range starts, or start where it  *)
(* ends; the code stops at the first.                                      *)
Touching(s, offset, size) ==
    {i \in DOMAIN s : End(s[i]) = offset \/ offset + size = s[i].offset}

(* The bug of not looking at the next block. *)
ExtendUpAlone(s, i, size) == [s EXCEPT ![i] = Grown(@, size)]

(* The released range joins block i from behind, and block i the next one  *)
(* if they now meet.                                                       *)
ExtendUp(s, i, size) ==
    LET b == Grown(s[i], size)
    IN  IF i < Len(s) /\ End(b) = s[i + 1].offset
        THEN Without([s EXCEPT ![i] = Grown(b, s[i + 1].size)], i + 1)
        ELSE [s EXCEPT ![i] = b]

(* The bug of moving the block without making it larger. *)
ExtendDownMoved(s, i, offset, size) == [s EXCEPT ![i].offset = offset]

(* The released range joins block i from the front, and block i the one    *)
(* before if they now meet.                                                *)
ExtendDown(s, i, offset, size) ==
    LET b == [offset |-> offset, size |-> s[i].size + size]
    IN  IF i > 1 /\ End(s[i - 1]) = offset
        THEN Without([s EXCEPT ![i - 1] = Grown(@, b.size)], i)
        ELSE [s EXCEPT ![i] = b]

(* ggml_dyn_tallocr_insert_block: before the first block at a higher or    *)
(* equal offset.                                                           *)
Inserted(s, offset, size) ==
    LET pos == CHOOSE i \in 1 .. Len(s) + 1 :
                    /\ \A j \in 1 .. i - 1 : s[j].offset < offset
                    /\ i <= Len(s) => s[i].offset >= offset
    IN  WithAt(s, pos, [offset |-> offset, size |-> size])

Released(s, offset, size) ==
    LET T == Touching(s, offset, size)
        i == CHOOSE j \in T : \A l \in T : j <= l
    IN  IF T = {} THEN Inserted(s, offset, size)
        ELSE IF End(s[i]) = offset THEN ExtendUp(s, i, size)
        ELSE ExtendDown(s, i, offset, size)

AfterFree(chunks, addr, size) ==
    [chunks EXCEPT ![addr.chunk].blocks = Released(@, addr.offset, size)]
=============================================================================
