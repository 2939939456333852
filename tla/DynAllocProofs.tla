--------------------------- MODULE DynAllocProofs ---------------------------
(***************************************************************************)
(* The dynamic tensor allocator for any alignment, chunk size, tensors and *)
(* sizes: memory handed out is apart and lies within max_size, and the     *)
(* allocator keeps the promise of Intervals; without empty tensors nothing *)
(* leaks, free blocks that meet are joined, and they are few.              *)
(***************************************************************************)
EXTENDS DynAlloc, FreeListProofs
-----------------------------------------------------------------------------
(* The inductive invariant, address by address.                            *)

Owned(k, x) ==
    \/ CoveredBy(chunks[k].blocks, x)
    \/ \E t \in Live : live[t].chunk = k /\ Covers(live[t], x)

BlocksSeparate == \A k \in DOMAIN chunks : Separate(chunks[k].blocks)

(* No address of a live tensor is free or another tensor's. *)
OneOwner ==
    \A t \in Live : \A x \in Nat : Covers(live[t], x) =>
        /\ ~CoveredBy(chunks[live[t].chunk].blocks, x)
        /\ \A u \in Live : live[u].chunk = live[t].chunk /\ Covers(live[u], x) => u = t

(* The addresses of a chunk that are free or live have no gap; max_size    *)
(* does not exceed them when no tensor is empty.                           *)
NoGap == \A k \in DOMAIN chunks : \A x, y \in Nat : Owned(k, x) /\ y <= x => Owned(k, y)

ClaimedOwned ==
    0 \notin Sizes =>
        \A k \in DOMAIN chunks : \A x \in Nat : x < chunks[k].max_size => Owned(k, x)

IInv ==
    /\ TypeOK
    /\ BlocksSeparate
    /\ WithinMaxSize
    /\ OneOwner
    /\ NoGap
    /\ ClaimedOwned

(* The memory of live tensors as TypeOK and WithinMaxSize give it. *)
LEMMA LiveFacts ==
  ASSUME TypeOK
  PROVE  /\ chunks \in Chunks
         /\ \A t \in Live : /\ t \in Tensors /\ live[t] \in Extent /\ live[t] # None
                            /\ live[t].chunk \in Nat \ {0}
                            /\ live[t].offset \in Nat /\ live[t].size \in Nat
                            /\ live[t] = [chunk |-> live[t].chunk, offset |-> live[t].offset,
                                          size |-> live[t].size]
  <1>1. ASSUME NEW t \in Live PROVE t \in Tensors /\ live[t] \in Extent /\ live[t] # None
    BY DEF TypeOK, Live
  <1>2. ASSUME NEW r \in Extent
        PROVE  /\ r.chunk \in Nat \ {0} /\ r.offset \in Nat /\ r.size \in Nat
               /\ r = [chunk |-> r.chunk, offset |-> r.offset, size |-> r.size]
    BY DEF Extent, Promise!Extent
  <1> QED
    BY <1>1, <1>2 DEF TypeOK, Chunks

(* The sizes asked for, aligned. *)
LEMMA AlignedFacts ==
  ASSUME NEW size \in Sizes
  PROVE  /\ size \in Nat /\ Aligned(size) \in Nat /\ Aligned(size) <= Huge
         /\ size # 0 => Aligned(size) # 0
  <1>1. size \in Nat /\ Aligned(size) <= Huge
    BY SizesAssumption
  <1> DEFINE q == (size + Alignment - 1) \div Alignment
  <1>2. q \in Nat /\ (size # 0 => q # 0)
    BY <1>1, AlignmentAssumption
  <1>3. Aligned(size) = Alignment * q
    BY DEF Aligned
  <1> HIDE DEF q
  <1> QED
    BY <1>1, <1>2, <1>3, AlignmentAssumption

(* The allocator as it is created. *)
LEMMA InitInv == Init => IInv
  <1> SUFFICES ASSUME Init PROVE IInv
    OBVIOUS
  <1>1. Live = {} /\ DOMAIN chunks = {} /\ chunks \in Seq(Chunk)
    BY DEF Init, Live
  <1> QED
    BY <1>1 DEF Init, IInv, TypeOK, BlocksSeparate, WithinMaxSize, OneOwner, NoGap, ClaimedOwned

(* An allocation: what was free or live in a chunk stays free or live.     *)
LEMMA AllocInv ==
  ASSUME IInv, NEW t \in Tensors, NEW size \in Sizes, Alloc(t, size)
  PROVE  IInv'
  <1> DEFINE n == Aligned(size)
             a == AllocAddress(chunks, n)
             r == [chunk |-> a.chunk, offset |-> a.offset, size |-> n]
  <1>1. /\ n \in Nat /\ (0 \notin Sizes => n # 0)
        /\ chunks \in Chunks /\ \A k \in DOMAIN chunks : Separate(chunks[k].blocks)
        /\ n <= Huge /\ ~OutOfChunks(chunks, n)
        /\ chunks' = AfterAlloc(chunks, n)
    BY AlignedFacts, LiveFacts DEF IInv, BlocksSeparate, Alloc
  <1>2. live' = [live EXCEPT ![t] = r] /\ t \notin Live
    BY DEF Alloc
  <1> HIDE DEF n
  <1>3. /\ a.chunk \in Nat \ {0} /\ a.offset \in Nat /\ chunks' \in Chunks
        /\ \E c \in Chunk : \E i \in DOMAIN c.blocks :
               Separate(c.blocks) /\ Allocated(chunks, n, c, i)
    BY <1>1, AllocFacts
  <1>4. PICK c \in Chunk : \E i \in DOMAIN c.blocks :
            Separate(c.blocks) /\ Allocated(chunks, n, c, i)
    BY <1>3
  <1> PICK i \in DOMAIN c.blocks : Separate(c.blocks) /\ Allocated(chunks, n, c, i)
    BY <1>4
  <1> DEFINE d == Take(c, i, n)
  <1>5. /\ n <= c.blocks[i].size
        /\ a.offset = c.blocks[i].offset
        /\ chunks'[a.chunk] = d
        /\ \/ a.chunk \in DOMAIN chunks /\ c = chunks[a.chunk] /\ DOMAIN chunks' = DOMAIN chunks
           \/ /\ a.chunk \notin DOMAIN chunks /\ DOMAIN chunks' = DOMAIN chunks \union {a.chunk}
              /\ c.max_size = 0 /\ Downward(c.blocks)
        /\ \A k \in DOMAIN chunks' \ {a.chunk} : k \in DOMAIN chunks /\ chunks'[k] = chunks[k]
    BY <1>1, <1>4 DEF Allocated
  <1>6. /\ Separate(d.blocks)
        /\ \A x \in Nat : CoveredBy(d.blocks, x) <=>
               CoveredBy(c.blocks, x) /\ ~Within(x, a.offset, n)
        /\ d.max_size >= c.max_size
        /\ d.max_size >= a.offset + n
        /\ d.max_size \in {c.max_size, a.offset + n}
    BY <1>1, <1>4, <1>5, TakeCovers
  <1>7. /\ r \in Extent /\ r # None
        /\ r.chunk = a.chunk /\ r.offset = a.offset /\ r.size = n /\ End(r) = a.offset + n
        /\ \A x \in Nat : Covers(r, x) <=> Within(x, a.offset, n)
    BY <1>1, <1>3, NoneAssumption DEF Extent, Promise!Extent, End, Covers, Within
  <1>8. \A x \in Nat : Within(x, a.offset, n) => CoveredBy(c.blocks, x)
    <2>1. c.blocks \in Blocks
      BY DEF Chunk, Blocks
    <2>2. c.blocks[i].size \in Nat /\ c.blocks[i].offset \in Nat
      BY <2>1, BlocksFacts
    <2> QED
      BY <1>1, <1>5, <2>2 DEF Within, CoveredBy, Covers, End
  <1> HIDE DEF a, r, d
  <1>9. /\ TypeOK /\ live \in [Tensors -> Extent \union {None}]
        /\ \A k \in DOMAIN chunks : chunks[k] \in Chunk /\ chunks[k].max_size \in Nat
        /\ c.max_size \in Nat
    BY <1>1, ChunksFacts DEF IInv, TypeOK, Chunk
  <1>10. /\ Live' = Live \union {t}
         /\ live'[t] = r
         /\ \A u \in Live : live'[u] = live[u] /\ u # t /\ live[u].chunk \in DOMAIN chunks
    BY <1>2, <1>7, <1>9 DEF Live, IInv, WithinMaxSize
  <1>11. TypeOK'
    BY <1>2, <1>3, <1>7, <1>9 DEF TypeOK, Chunks
  <1>12. BlocksSeparate'
    BY <1>1, <1>5, <1>6 DEF BlocksSeparate
  <1>13. WithinMaxSize'
    <2> SUFFICES ASSUME NEW u \in Live'
                 PROVE  /\ live'[u].chunk \in DOMAIN chunks'
                        /\ End(live'[u]) <= chunks'[live'[u].chunk].max_size
      BY DEF WithinMaxSize
    <2>1. CASE u = t
      BY <2>1, <1>5, <1>6, <1>7, <1>10
    <2>2. CASE u \in Live
      <3>1. /\ live'[u] = live[u] /\ live[u].chunk \in DOMAIN chunks
            /\ End(live[u]) <= chunks[live[u].chunk].max_size
        BY <2>2, <1>10 DEF IInv, WithinMaxSize
      <3>2. End(live[u]) \in Nat
        <4>1. live[u].offset \in Nat /\ live[u].size \in Nat
          BY <2>2, <1>9, LiveFacts
        <4> QED
          BY <4>1 DEF End
      <3>3. chunks[live[u].chunk].max_size <= chunks'[live[u].chunk].max_size
        BY <3>1, <1>5, <1>6, <1>9
      <3>4. chunks'[live[u].chunk].max_size \in Nat
        BY <3>1, <1>1, <1>3, <1>5, <1>6, <1>9
      <3> QED
        BY <3>1, <3>2, <3>3, <3>4, <1>5, <1>9
    <2> QED
      BY <2>1, <2>2, <1>10
  <1>14. OneOwner'
    <2>1. ASSUME NEW u \in Live, NEW x \in Nat, Covers(live[u], x), live[u].chunk = a.chunk
          PROVE  ~Within(x, a.offset, n)
      BY <2>1, <1>5, <1>8, <1>10 DEF IInv, OneOwner
    <2>2. ASSUME NEW u \in Live', NEW x \in Nat, Covers(live'[u], x)
          PROVE  ~CoveredBy(chunks'[live'[u].chunk].blocks, x)
      <3>1. CASE u = t
        BY <3>1, <2>2, <1>5, <1>6, <1>7, <1>10
      <3>2. CASE u \in Live
        <4>1. ~CoveredBy(chunks[live[u].chunk].blocks, x)
          BY <3>2, <2>2, <1>10 DEF IInv, OneOwner
        <4> QED
          BY <3>2, <4>1, <1>5, <1>6, <1>10
      <3> QED
        BY <3>1, <3>2, <1>10
    <2>3. ASSUME NEW u \in Live', NEW v \in Live', NEW x \in Nat, live'[v].chunk = live'[u].chunk,
                 Covers(live'[u], x), Covers(live'[v], x)
          PROVE  v = u
      <3>1. CASE u \in Live /\ v \in Live
        BY <3>1, <2>3, <1>10 DEF IInv, OneOwner
      <3>2. CASE u = t /\ v \in Live
        BY <3>2, <2>1, <2>3, <1>7, <1>10
      <3>3. CASE u \in Live /\ v = t
        BY <3>3, <2>1, <2>3, <1>7, <1>10
      <3> QED
        BY <3>1, <3>2, <3>3, <1>10
    <2> QED
      BY <2>2, <2>3 DEF OneOwner
  <1>15. \A k \in DOMAIN chunks : \A x \in Nat : Owned(k, x)' <=> Owned(k, x)
    <2> SUFFICES ASSUME NEW k \in DOMAIN chunks, NEW x \in Nat
                 PROVE  Owned(k, x)' <=> Owned(k, x)
      OBVIOUS
    <2>1. Owned(k, x)' <=> \/ CoveredBy(chunks'[k].blocks, x)
                           \/ \E u \in Live : live[u].chunk = k /\ Covers(live[u], x)
                           \/ a.chunk = k /\ Covers(r, x)
      BY <1>7, <1>10 DEF Owned
    <2>2. k \in DOMAIN chunks'
      BY <1>5
    <2>3. CASE k # a.chunk
      BY <2>1, <2>2, <2>3, <1>5 DEF Owned
    <2>4. CASE k = a.chunk
      BY <2>1, <2>4, <1>5, <1>6, <1>7, <1>8 DEF Owned
    <2> QED
      BY <2>3, <2>4
  <1>16. \A k \in DOMAIN chunks' \ DOMAIN chunks :
            \A x \in Nat : Owned(k, x)' <=> CoveredBy(c.blocks, x)
    <2> SUFFICES ASSUME NEW k \in DOMAIN chunks' \ DOMAIN chunks, NEW x \in Nat
                 PROVE  Owned(k, x)' <=> CoveredBy(c.blocks, x)
      OBVIOUS
    <2>1. Owned(k, x)' <=> CoveredBy(d.blocks, x) \/ Covers(r, x)
      BY <1>5, <1>7, <1>10 DEF Owned
    <2> QED
      BY <2>1, <1>6, <1>7, <1>8
  <1>17. NoGap'
    <2> SUFFICES ASSUME NEW k \in DOMAIN chunks', NEW x \in Nat, NEW y \in Nat,
                        Owned(k, x)', y <= x
                 PROVE  Owned(k, y)'
      BY DEF NoGap
    <2>1. CASE k \in DOMAIN chunks
      BY <2>1, <1>15 DEF IInv, NoGap
    <2>2. CASE k \notin DOMAIN chunks
      <3>1. Downward(c.blocks)
        BY <2>2, <1>5
      <3>2. CoveredBy(c.blocks, x)
        BY <2>2, <1>16
      <3>3. CoveredBy(c.blocks, y)
        BY <3>1, <3>2 DEF Downward
      <3> QED
        BY <2>2, <3>3, <1>16
    <2> QED
      BY <2>1, <2>2
  <1>18. ClaimedOwned'
    <2> SUFFICES ASSUME 0 \notin Sizes, NEW k \in DOMAIN chunks', NEW x \in Nat,
                        x < chunks'[k].max_size
                 PROVE  Owned(k, x)'
      BY DEF ClaimedOwned
    <2>1. CASE k # a.chunk
      BY <2>1, <1>5, <1>15 DEF IInv, ClaimedOwned
    <2>2. CASE k = a.chunk /\ x < c.max_size
      <3>1. k \in DOMAIN chunks /\ c = chunks[k]
        BY <2>2, <1>5
      <3> QED
        BY <2>2, <3>1, <1>15 DEF IInv, ClaimedOwned
    <2>3. CASE k = a.chunk /\ x < a.offset + n
      <3>1. /\ a.offset + n - 1 \in Nat /\ x <= a.offset + n - 1
            /\ Within(a.offset + n - 1, a.offset, n)
        BY <2>3, <1>1, <1>3 DEF Within
      <3> PICK y \in Nat : x <= y /\ Within(y, a.offset, n)
        BY <3>1
      <3>2. Owned(k, y)'
        BY <2>3, <3>1, <1>7, <1>10 DEF Owned
      <3> QED
        BY <3>1, <3>2, <1>17 DEF NoGap
    <2> QED
      BY <2>1, <2>2, <2>3, <1>5, <1>6
  <1> QED
    BY <1>11, <1>12, <1>13, <1>14, <1>17, <1>18 DEF IInv

(* A release of the end of a tensor, all of it or what is not kept: the    *)
(* addresses that are free or live remain the same.                        *)
LEMMA ReleaseInv ==
  ASSUME IInv, NEW t \in Live, NEW keep \in Nat, NEW size \in Nat,
         keep + size = live[t].size,
         NEW addr, addr.chunk = live[t].chunk, addr.offset = live[t].offset + keep,
         chunks' = AfterFree(chunks, addr, size),
         \/ keep = 0 /\ live' = [live EXCEPT ![t] = None]
         \/ live' = [live EXCEPT ![t].size = keep]
  PROVE  IInv'
  <1>1. /\ TypeOK /\ chunks \in Chunks /\ live \in [Tensors -> Extent \union {None}]
        /\ \A k \in DOMAIN chunks : Separate(chunks[k].blocks)
    BY LiveFacts DEF IInv, TypeOK, BlocksSeparate
  <1>2. /\ t \in Tensors /\ live[t].chunk \in DOMAIN chunks
        /\ live[t] \in Extent /\ live[t].offset \in Nat /\ live[t].size \in Nat
    BY <1>1, LiveFacts DEF IInv, WithinMaxSize
  <1>3. addr.chunk \in DOMAIN chunks /\ addr.offset \in Nat
    BY <1>2
  <1>4. \A x \in Nat : Within(x, addr.offset, size) => Covers(live[t], x)
    BY <1>2 DEF Within, Covers, End
  <1>5. \A x \in Nat : Within(x, addr.offset, size) => ~CoveredBy(chunks[addr.chunk].blocks, x)
    BY <1>4 DEF IInv, OneOwner
  <1> DEFINE k == addr.chunk
  <1>6. /\ chunks' \in Chunks /\ DOMAIN chunks' = DOMAIN chunks
        /\ \A l \in DOMAIN chunks \ {k} : chunks'[l] = chunks[l]
        /\ chunks'[k].max_size = chunks[k].max_size
        /\ Separate(chunks'[k].blocks)
        /\ \A x \in Nat : CoveredBy(chunks'[k].blocks, x) <=>
               CoveredBy(chunks[k].blocks, x) \/ Within(x, addr.offset, size)
    BY <1>1, <1>3, <1>5, FreedFacts
  <1>7. /\ live' \in [Tensors -> Extent \union {None}]
        /\ Live' \subseteq Live
        /\ \A u \in Live \ {t} : u \in Live' /\ live'[u] = live[u]
        /\ \/ t \notin Live' /\ keep = 0
           \/ /\ t \in Live' /\ live'[t].chunk = live[t].chunk
              /\ live'[t].offset = live[t].offset /\ live'[t].size = keep
    <2>1. CASE keep = 0 /\ live' = [live EXCEPT ![t] = None]
      BY <2>1, <1>1, <1>2 DEF Live
    <2>2. CASE live' = [live EXCEPT ![t].size = keep]
      <3> DEFINE r == [live[t] EXCEPT !.size = keep]
      <3>1. /\ r \in Extent /\ r # None /\ r.chunk = live[t].chunk
            /\ r.offset = live[t].offset /\ r.size = keep
        BY <1>2, NoneAssumption DEF Extent, Promise!Extent
      <3>2. live' = [live EXCEPT ![t] = r]
        BY <2>2
      <3> HIDE DEF r
      <3> QED
        BY <3>1, <3>2, <1>1, <1>2 DEF Live
    <2> QED
      BY <2>1, <2>2
  <1>8. \A x \in Nat : Covers(live[t], x) <=>
            \/ Within(x, addr.offset, size)
            \/ t \in Live' /\ Covers(live'[t], x)
    BY <1>2, <1>7 DEF Covers, Within, End
  <1>9. \A x \in Nat : t \in Live' /\ Covers(live'[t], x) => ~Within(x, addr.offset, size)
    BY <1>2, <1>7 DEF Covers, Within, End
  <1> HIDE DEF k
  <1>10. \A u \in Live' : live'[u].chunk = live[u].chunk /\ live[u].chunk \in DOMAIN chunks
    BY <1>7 DEF IInv, WithinMaxSize
  <1>11. \A u \in Live' : \A x \in Nat : Covers(live'[u], x) =>
            /\ Covers(live[u], x)
            /\ u = t => ~Within(x, addr.offset, size)
    BY <1>7, <1>8, <1>9
  <1>12. TypeOK'
    BY <1>6, <1>7 DEF TypeOK, Chunks
  <1>13. BlocksSeparate'
    BY <1>1, <1>6 DEF BlocksSeparate
  <1>14. WithinMaxSize'
    <2> SUFFICES ASSUME NEW u \in Live'
                 PROVE  /\ live'[u].chunk \in DOMAIN chunks'
                        /\ End(live'[u]) <= chunks'[live'[u].chunk].max_size
      BY DEF WithinMaxSize
    <2>1. /\ live[u].chunk \in DOMAIN chunks
          /\ live[u].offset \in Nat /\ live[u].size \in Nat
          /\ End(live[u]) <= chunks[live[u].chunk].max_size
      BY <1>1, <1>7, LiveFacts DEF IInv, WithinMaxSize
    <2>2. chunks[live[u].chunk].max_size \in Nat
      BY <1>1, <2>1, ChunksFacts DEF Chunk
    <2>3. chunks'[live[u].chunk].max_size = chunks[live[u].chunk].max_size
      BY <2>1, <1>6
    <2>4. End(live'[u]) <= End(live[u])
      <3>1. CASE u = t
        BY <3>1, <2>1, <1>7 DEF End
      <3>2. CASE u # t
        BY <3>2, <2>1, <1>7 DEF End
      <3> QED
        BY <3>1, <3>2
    <2>5. End(live'[u]) \in Nat /\ End(live[u]) \in Nat
      BY <2>1, <1>7 DEF End
    <2> QED
      BY <2>1, <2>2, <2>3, <2>4, <2>5, <1>6, <1>10
  <1>15. OneOwner'
    <2>1. ASSUME NEW u \in Live', NEW x \in Nat, Covers(live'[u], x)
          PROVE  ~CoveredBy(chunks'[live'[u].chunk].blocks, x)
      <3>1. u \in Live /\ Covers(live[u], x) /\ ~CoveredBy(chunks[live[u].chunk].blocks, x)
        BY <2>1, <1>7, <1>11 DEF IInv, OneOwner
      <3>2. live[u].chunk = k => ~Within(x, addr.offset, size)
        BY <2>1, <3>1, <1>4, <1>11 DEF IInv, OneOwner, k
      <3> QED
        BY <3>1, <3>2, <1>6, <1>10
    <2>2. ASSUME NEW u \in Live', NEW v \in Live', NEW x \in Nat, live'[v].chunk = live'[u].chunk,
                 Covers(live'[u], x), Covers(live'[v], x)
          PROVE  v = u
      BY <2>2, <1>7, <1>10, <1>11 DEF IInv, OneOwner
    <2> QED
      BY <2>1, <2>2 DEF OneOwner
  <1>16. \A l \in DOMAIN chunks : \A x \in Nat : Owned(l, x)' <=> Owned(l, x)
    <2> SUFFICES ASSUME NEW l \in DOMAIN chunks, NEW x \in Nat
                 PROVE  Owned(l, x)' <=> Owned(l, x)
      OBVIOUS
    <2>1. Owned(l, x)' <=> \/ CoveredBy(chunks'[l].blocks, x)
                           \/ \E u \in Live' : live'[u].chunk = l /\ Covers(live'[u], x)
      BY DEF Owned
    <2>2. CoveredBy(chunks'[l].blocks, x) <=>
             CoveredBy(chunks[l].blocks, x) \/ (l = k /\ Within(x, addr.offset, size))
      BY <1>6
    <2>3. Owned(l, x)' => Owned(l, x)
      <3>1. CASE CoveredBy(chunks'[l].blocks, x)
        BY <3>1, <2>2, <1>4 DEF Owned, k
      <3>2. ASSUME NEW u \in Live', live'[u].chunk = l, Covers(live'[u], x)
            PROVE  Owned(l, x)
        BY <3>2, <1>7, <1>10, <1>11 DEF Owned
      <3> QED
        BY <2>1, <3>1, <3>2
    <2>4. Owned(l, x) => Owned(l, x)'
      <3>1. CASE CoveredBy(chunks[l].blocks, x)
        BY <3>1, <2>1, <2>2
      <3>2. ASSUME NEW u \in Live, live[u].chunk = l, Covers(live[u], x)
            PROVE  Owned(l, x)'
        <4>1. CASE u = t
          BY <4>1, <3>2, <2>1, <2>2, <1>8, <1>10 DEF k
        <4>2. CASE u # t
          BY <4>2, <3>2, <2>1, <1>7
        <4> QED
          BY <4>1, <4>2
      <3> QED
        BY <3>1, <3>2 DEF Owned
    <2> QED
      BY <2>3, <2>4
  <1>17. NoGap'
    BY <1>6, <1>16 DEF IInv, NoGap
  <1>18. ClaimedOwned'
    <2>1. \A l \in DOMAIN chunks : chunks'[l].max_size = chunks[l].max_size
      BY <1>6
    <2> QED
      BY <2>1, <1>6, <1>16 DEF IInv, ClaimedOwned
  <1> QED
    BY <1>12, <1>13, <1>14, <1>15, <1>17, <1>18 DEF IInv

(* Every step of the allocator preserves the invariant.                    *)
LEMMA NextInv == IInv /\ [Next]_vars => IInv'
  <1> SUFFICES ASSUME IInv, [Next]_vars PROVE IInv'
    OBVIOUS
  <1>1. ASSUME NEW t \in Tensors, NEW size \in Sizes, Alloc(t, size) PROVE IInv'
    BY <1>1, AllocInv
  <1>2. ASSUME NEW t \in Tensors, Free(t) PROVE IInv'
    <2>1. t \in Live /\ live[t].size \in Nat /\ live[t].offset \in Nat
      BY <1>2, LiveFacts DEF Free, IInv
    <2>2. live[t].offset = live[t].offset + 0 /\ 0 + live[t].size = live[t].size
      BY <2>1
    <2>3. chunks' = AfterFree(chunks, live[t], live[t].size) /\ live' = [live EXCEPT ![t] = None]
      BY <1>2 DEF Free
    <2> QED
      BY <2>1, <2>2, <2>3, ReleaseInv
  <1>3. ASSUME NEW t \in Tensors, NEW size \in Sizes, FreeExtra(t, size) PROVE IInv'
    <2> DEFINE n == Aligned(size)
               rest == [live[t] EXCEPT !.offset = @ + n]
    <2>1. /\ t \in Live /\ n < live[t].size
          /\ chunks' = AfterFree(chunks, rest, live[t].size - n)
          /\ live' = [live EXCEPT ![t].size = n]
      BY <1>3 DEF FreeExtra
    <2>2. n \in Nat /\ live[t].size \in Nat /\ live[t] \in Extent
      BY <2>1, AlignedFacts, LiveFacts DEF IInv
    <2>3. rest.chunk = live[t].chunk /\ rest.offset = live[t].offset + n
      BY <2>2 DEF Extent, Promise!Extent
    <2> HIDE DEF n, rest
    <2>4. live[t].size - n \in Nat /\ n + (live[t].size - n) = live[t].size
      BY <2>1, <2>2
    <2> QED
      BY <2>1, <2>2, <2>3, <2>4, ReleaseInv
  <1>4. CASE Reset
    <2>1. Live' = {} /\ DOMAIN chunks' = {} /\ chunks' \in Seq(Chunk)
      BY <1>4 DEF Reset, Live
    <2> QED
      BY <1>4, <2>1
      DEF Reset, IInv, TypeOK, BlocksSeparate, WithinMaxSize, OneOwner, NoGap, ClaimedOwned
  <1>5. CASE UNCHANGED vars
    BY <1>5 DEF vars, IInv, TypeOK, BlocksSeparate, WithinMaxSize, OneOwner, NoGap,
                ClaimedOwned, Owned, Live
  <1> QED
    BY <1>1, <1>2, <1>3, <1>4, <1>5 DEF Next

(* The inductive invariant holds in every state. *)
LEMMA InvariantHolds == Spec => []IInv
  <1> QED
    BY InitInv, NextInv, PTL DEF Spec
-----------------------------------------------------------------------------
(* Ranges of one chunk that have no address in common are apart. *)
LEMMA NothingShared ==
  ASSUME NEW a \in Extent, NEW b \in Extent, a.chunk = b.chunk,
         \A x \in Nat : ~(Covers(a, x) /\ Covers(b, x))
  PROVE  Apart(a, b)
  <1>1. /\ a.offset \in Nat /\ a.size \in Nat /\ b.offset \in Nat /\ b.size \in Nat
    BY DEF Extent, Promise!Extent
  <1>2. ~(Covers(a, a.offset) /\ Covers(b, a.offset)) /\ ~(Covers(a, b.offset) /\ Covers(b, b.offset))
    BY <1>1
  <1> QED
    BY <1>1, <1>2 DEF Apart, Promise!Apart, Covers, End

(* The inductive invariant implies that live tensors are disjoint. *)
LEMMA InvNoOverlap == IInv => NoOverlap
  <1> SUFFICES ASSUME IInv, NEW t \in Live
               PROVE  /\ \A u \in Live \ {t} : Apart(live[t], live[u])
                      /\ \A k \in DOMAIN chunks : \A i \in DOMAIN chunks[k].blocks :
                            Apart(live[t], BlockRange(k, i))
    BY DEF NoOverlap
  <1>1. TypeOK /\ live[t] \in Extent
    BY LiveFacts DEF IInv
  <1>2. ASSUME NEW u \in Live \ {t} PROVE Apart(live[t], live[u])
    <2>1. live[u] \in Extent
      BY <1>1, LiveFacts
    <2>2. CASE live[t].chunk # live[u].chunk
      BY <2>2 DEF Apart, Promise!Apart
    <2>3. CASE live[t].chunk = live[u].chunk
      <3>1. \A x \in Nat : ~(Covers(live[t], x) /\ Covers(live[u], x))
        BY <2>3 DEF IInv, OneOwner
      <3> QED
        BY <1>1, <2>1, <2>3, <3>1, NothingShared
    <2> QED
      BY <2>2, <2>3
  <1>3. ASSUME NEW k \in DOMAIN chunks, NEW i \in DOMAIN chunks[k].blocks
        PROVE  Apart(live[t], BlockRange(k, i))
    <2> DEFINE b == BlockRange(k, i)
    <2>1. /\ k \in Nat \ {0}
          /\ chunks[k].blocks[i].offset \in Nat /\ chunks[k].blocks[i].size \in Nat
      <3>1. chunks \in Chunks /\ chunks[k].blocks \in Blocks /\ k \in Nat \ {0}
        BY <1>1, LiveFacts, ChunksFacts
      <3> QED
        BY <3>1, BlocksFacts
    <2>2. b \in Extent /\ b.chunk = k
      BY <2>1 DEF BlockRange, Extent, Promise!Extent
    <2>3. \A x \in Nat : Covers(b, x) => CoveredBy(chunks[k].blocks, x)
      BY DEF BlockRange, Covers, CoveredBy, End
    <2> HIDE DEF b
    <2>4. CASE live[t].chunk # k
      BY <2>2, <2>4 DEF Apart, Promise!Apart, b
    <2>5. CASE live[t].chunk = k
      <3>1. \A x \in Nat : ~(Covers(live[t], x) /\ Covers(b, x))
        BY <2>3, <2>5 DEF IInv, OneOwner
      <3> QED
        BY <1>1, <2>2, <2>5, <3>1, NothingShared DEF b
    <2> QED
      BY <2>4, <2>5
  <1> QED
    BY <1>2, <1>3

(* The free lists and the ranges handed out keep their form through        *)
(* ggml_dyn_tallocr_alloc, free_bytes and reset.                           *)
THEOREM TypeCorrect == Spec => []TypeOK
  <1>1. IInv => TypeOK
    BY DEF IInv
  <1> QED
    BY <1>1, InvariantHolds, PTL

(* No two live tensors, and no live tensor and free block, share memory,   *)
(* after any sequence of calls to ggml_dyn_tallocr_alloc and free_bytes.   *)
THEOREM NothingOverlaps == Spec => []NoOverlap
  <1> QED
    BY InvariantHolds, InvNoOverlap, PTL

(* The buffer allocated for a chunk from max_size has room for every       *)
(* tensor that was placed in it.                                           *)
THEOREM FitsMaxSize == Spec => []WithinMaxSize
  <1>1. IInv => WithinMaxSize
    BY DEF IInv
  <1> QED
    BY <1>1, InvariantHolds, PTL

(* free_bytes loses no memory: what a chunk has claimed is free or live.   *)
THEOREM NothingLeaks ==
  ASSUME 0 \notin Sizes
  PROVE  Spec => []NoLeak
  <1>1. IInv => NoLeak
    <2> SUFFICES ASSUME IInv, NEW k \in DOMAIN chunks, NEW x \in 0 .. chunks[k].max_size - 1
                 PROVE  \/ \E i \in DOMAIN chunks[k].blocks : Covers(chunks[k].blocks[i], x)
                        \/ \E t \in Live : live[t].chunk = k /\ Covers(live[t], x)
      BY DEF NoLeak
    <2>1. chunks[k].max_size \in Nat
      BY LiveFacts, ChunksFacts DEF IInv
    <2>2. Owned(k, x)
      BY <2>1 DEF IInv, ClaimedOwned
    <2> QED
      BY <2>2 DEF Owned, CoveredBy
  <1> QED
    BY <1>1, InvariantHolds, PTL

(* Every step of the dynamic allocator is a step of the promise: what      *)
(* ggml_dyn_tallocr_alloc returns is nobody's, and stays where it is until *)
(* it is given back.                                                       *)
THEOREM KeepsPromise == Spec => PromiseSpec
  <1>1. Init => Promise!Init
    BY DEF Init, Promise!Init
  <1>2. ASSUME IInv, NoOverlap', TypeOK', [Next]_vars PROVE [Promise!Next]_live
    <2> USE DEF Promise!Next
    <2>1. live \in [Tensors -> Extent \union {None}]
      BY <1>2 DEF IInv, TypeOK
    <2>2. ASSUME NEW t \in Tensors, NEW size \in Sizes, Alloc(t, size) PROVE Promise!Acquire(t)
      <3>1. /\ live[t] = None /\ live' = [live EXCEPT ![t] = live'[t]]
        BY <2>2, <2>1 DEF Alloc, Live
      <3>2. live'[t] \in Extent
        <4>1. /\ Aligned(size) \in Nat /\ Aligned(size) <= Huge /\ chunks \in Chunks
              /\ \A k \in DOMAIN chunks : Separate(chunks[k].blocks)
              /\ ~OutOfChunks(chunks, Aligned(size))
          BY <1>2, <2>2, AlignedFacts, LiveFacts DEF IInv, BlocksSeparate, Alloc
        <4>2. /\ AllocAddress(chunks, Aligned(size)).chunk \in Nat \ {0}
              /\ AllocAddress(chunks, Aligned(size)).offset \in Nat
          BY <4>1, AllocFacts
        <4> QED
          BY <2>1, <2>2, <4>1, <4>2 DEF Alloc, Extent, Promise!Extent
      <3>3. ASSUME NEW u \in Tensors, live[u] # None PROVE Apart(live'[t], live[u])
        <4>1. u # t /\ live'[u] = live[u]
          BY <3>1, <3>3, <2>1
        <4>2. t \in Live' /\ u \in Live'
          BY <3>2, <3>3, <4>1, NoneAssumption DEF Live, Extent, Promise!Extent
        <4> QED
          BY <1>2, <4>1, <4>2 DEF NoOverlap
      <3> QED
        BY <3>1, <3>2, <3>3
        DEF Promise!Acquire, Promise!OthersKept, Apart, Extent
    <2>3. ASSUME NEW t \in Tensors, Free(t) PROVE Promise!Release(t)
      BY <2>3 DEF Free, Promise!Release
    <2>4. ASSUME NEW t \in Tensors, NEW size \in Sizes, FreeExtra(t, size) PROVE Promise!Trim(t)
      <3>1. live[t] # None /\ live[t].size \in Nat
        BY <1>2, <2>4, LiveFacts DEF FreeExtra, Live, IInv
      <3>2. Aligned(size) \in 0 .. live[t].size
        BY <2>4, <3>1, AlignedFacts DEF FreeExtra
      <3> QED
        BY <2>4, <3>1, <3>2 DEF FreeExtra, Promise!Trim
    <2>5. CASE Reset
      BY <2>5 DEF Reset, Promise!Reset
    <2>6. CASE UNCHANGED vars
      BY <2>6 DEF vars
    <2> QED
      BY <1>2, <2>2, <2>3, <2>4, <2>5, <2>6 DEF Next
  <1>3. IInv => NoOverlap /\ TypeOK
    BY InvNoOverlap DEF IInv
  <1> QED
    BY <1>1, <1>2, <1>3, InvariantHolds, PTL DEF Spec, PromiseSpec, Promise!Spec
-----------------------------------------------------------------------------
(* Free blocks in order, none of them empty and no two of them meeting.    *)

Solid(s) ==
    /\ \A i, j \in DOMAIN s : i < j => End(s[i]) < s[j].offset
    /\ \A i \in DOMAIN s : s[i].size # 0

(* Taking from the front of a block leaves no blocks that meet, for the    *)
(* block is dropped when nothing is left of it.                            *)
LEMMA TakeSolid ==
  ASSUME NEW c \in Chunk, NEW i \in DOMAIN c.blocks, NEW size \in Nat,
         size <= c.blocks[i].size, Solid(c.blocks)
  PROVE  Solid(Take(c, i, size).blocks)
  <1> DEFINE s == c.blocks
             rest == [offset |-> s[i].offset + size, size |-> s[i].size - size]
             r == Take(c, i, size).blocks
  <1> SUFFICES Solid(r)
    OBVIOUS
  <1>1. s \in Blocks
    BY DEF Chunk, Blocks
  <1>2. r = IF rest.size = 0 THEN Without(s, i) ELSE [s EXCEPT ![i] = rest]
    BY DEF Take
  <1> HIDE DEF s, r
  <1>3. /\ Len(s) \in Nat /\ DOMAIN s = 1 .. Len(s) /\ i \in DOMAIN s
        /\ size <= s[i].size /\ Solid(s)
        /\ \A j \in DOMAIN s : s[j].offset \in Nat /\ s[j].size \in Nat
    BY <1>1, BlocksFacts DEF s
  <1>4. rest \in Block /\ End(rest) = End(s[i]) /\ rest.offset >= s[i].offset
    BY <1>3, SMTT(60) DEF Block, End
  <1>5. CASE rest.size = 0
    <2>1. DOMAIN r = 1 .. Len(s) - 1 /\ \A j \in 1 .. Len(s) - 1 : r[j] = IF j < i THEN s[j] ELSE s[j + 1]
      BY <1>1, <1>2, <1>3, <1>5, WithoutFacts
    <2> DEFINE old(j) == IF j < i THEN j ELSE j + 1
    <2>2. \A j \in DOMAIN r : old(j) \in DOMAIN s /\ r[j] = s[old(j)]
      BY <2>1, <1>3
    <2>3. \A j, l \in DOMAIN r : j < l => old(j) < old(l)
      BY <2>1, <1>3
    <2> HIDE DEF old
    <2> QED
      BY <2>2, <2>3, <1>3 DEF Solid
  <1>6. CASE rest.size # 0
    <2>1. DOMAIN r = DOMAIN s /\ \A j \in DOMAIN s : r[j] = IF j = i THEN rest ELSE s[j]
      BY <1>1, <1>2, <1>3, <1>4, <1>6, ReplaceFacts
    <2> HIDE DEF rest
    <2>2. \A j, l \in DOMAIN s : j < l => End(r[j]) < r[l].offset
      <3> SUFFICES ASSUME NEW j \in DOMAIN s, NEW l \in DOMAIN s, j < l
                   PROVE  End(r[j]) < r[l].offset
        OBVIOUS
      <3>1. End(r[j]) = End(s[j]) /\ r[l].offset >= s[l].offset /\ r[l].offset \in Nat
        BY <2>1, <1>3, <1>4 DEF Block
      <3>2. End(s[j]) < s[l].offset /\ End(s[j]) \in Nat /\ s[l].offset \in Nat
        BY <1>3 DEF Solid, End
      <3> QED
        BY <3>1, <3>2
    <2> QED
      BY <2>1, <2>2, <1>3, <1>6 DEF Solid
  <1> QED
    BY <1>5, <1>6

(* The one block of a new chunk. *)
LEMMA NewChunkSolid ==
  ASSUME NEW n \in Nat, NEW size \in Nat \ {0}, size <= Huge
  PROVE  Solid(NewChunk(n, size).blocks)
  <1> DEFINE c == NewChunk(n, size)
  <1>1. DOMAIN c.blocks = {1} /\ size <= c.blocks[1].size /\ c \in Chunk
    BY NewChunkFacts
  <1>2. c.blocks \in Blocks
    BY <1>1 DEF Chunk, Blocks
  <1>3. c.blocks[1].size \in Nat
    BY <1>1, <1>2, BlocksFacts
  <1> HIDE DEF c
  <1>4. Solid(c.blocks)
    BY <1>1, <1>3 DEF Solid
  <1> QED
    BY <1>4 DEF c

(* A range that no block covers lies before or behind each block. *)
LEMMA BesideBlocks ==
  ASSUME NEW s \in Blocks, Solid(s), NEW offset \in Nat, NEW size \in Nat \ {0},
         \A x \in Nat : Within(x, offset, size) => ~CoveredBy(s, x),
         NEW j \in DOMAIN s
  PROVE  End(s[j]) <= offset \/ offset + size <= s[j].offset
  <1>1. s[j].offset \in Nat /\ s[j].size \in Nat /\ s[j].size # 0
    BY BlocksFacts DEF Solid
  <1>2. ~(Within(offset, offset, size) /\ Covers(s[j], offset))
    BY DEF CoveredBy
  <1>3. ~(Within(s[j].offset, offset, size) /\ Covers(s[j], s[j].offset))
    BY <1>1 DEF CoveredBy
  <1> QED
    BY <1>1, <1>2, <1>3 DEF Within, Covers, End

(* A release that touches no block: insert_block.                          *)
LEMMA InsertedSolid ==
  ASSUME NEW s \in Blocks, Solid(s), NEW offset \in Nat, NEW size \in Nat \ {0},
         \A x \in Nat : Within(x, offset, size) => ~CoveredBy(s, x),
         Touching(s, offset, size) = {}
  PROVE  Solid(Inserted(s, offset, size))
  <1> DEFINE b == [offset |-> offset, size |-> size]
             pos == CHOOSE j \in 1 .. Len(s) + 1 :
                        /\ \A l \in 1 .. j - 1 : s[l].offset < offset
                        /\ j <= Len(s) => s[j].offset >= offset
             r == WithAt(s, pos, b)
  <1> SUFFICES Solid(r)
    BY DEF Inserted
  <1>1. /\ pos \in 1 .. Len(s) + 1
        /\ \A l \in 1 .. pos - 1 : s[l].offset < offset
        /\ pos <= Len(s) => s[pos].offset >= offset
    BY InsertPosition
  <1>2. b \in Block /\ b.offset = offset /\ End(b) = offset + size /\ b.size # 0
    BY DEF Block, End
  <1> HIDE DEF pos, b
  <1>3. /\ Len(s) \in Nat /\ DOMAIN s = 1 .. Len(s)
        /\ \A j \in DOMAIN s : s[j].offset \in Nat /\ s[j].size \in Nat /\ s[j].size # 0
    BY BlocksFacts DEF Solid
  <1>4. \A j \in DOMAIN s : End(s[j]) < offset \/ offset + size < s[j].offset
    <2> SUFFICES ASSUME NEW j \in DOMAIN s
                 PROVE  End(s[j]) < offset \/ offset + size < s[j].offset
      OBVIOUS
    <2>1. End(s[j]) # offset /\ offset + size # s[j].offset
      BY DEF Touching
    <2>2. End(s[j]) <= offset \/ offset + size <= s[j].offset
      BY BesideBlocks
    <2> QED
      BY <1>3, <2>1, <2>2, SMTT(60) DEF End
  <1>5. \A j \in DOMAIN s : j < pos => End(s[j]) < offset
    BY <1>1, <1>3, <1>4
  <1>6. \A j \in DOMAIN s : pos <= j => offset + size < s[j].offset
    <2> SUFFICES ASSUME NEW j \in DOMAIN s, pos <= j PROVE offset + size < s[j].offset
      OBVIOUS
    <2>1. pos \in DOMAIN s /\ offset + size < s[pos].offset
      BY <1>1, <1>3, <1>4 DEF End
    <2>2. j = pos \/ End(s[pos]) < s[j].offset
      BY <1>1, <1>3, <2>1 DEF Solid
    <2> QED
      BY <1>3, <2>1, <2>2 DEF End
  <1>7. /\ DOMAIN r = 1 .. Len(s) + 1
        /\ \A j \in 1 .. Len(s) + 1 :
              r[j] = IF j < pos THEN s[j] ELSE IF j = pos THEN b ELSE s[j - 1]
    BY <1>1, <1>2, WithAtFacts
  <1> HIDE DEF r
  <1>8. \A j, l \in DOMAIN r : j < l => End(r[j]) < r[l].offset
    <2> SUFFICES ASSUME NEW j \in DOMAIN r, NEW l \in DOMAIN r, j < l
                 PROVE  End(r[j]) < r[l].offset
      OBVIOUS
    <2>1. CASE l < pos
      BY <2>1, <1>1, <1>3, <1>7 DEF Solid
    <2>2. CASE l = pos
      BY <2>2, <1>1, <1>2, <1>3, <1>5, <1>7
    <2>3. CASE pos < l /\ j = pos
      <3>1. r[j] = b /\ l - 1 \in DOMAIN s /\ pos <= l - 1 /\ r[l] = s[l - 1]
        BY <2>3, <1>1, <1>3, <1>7
      <3> QED
        BY <3>1, <1>2, <1>6
    <2>4. CASE pos < l /\ j # pos
      <3> DEFINE m == IF j < pos THEN j ELSE j - 1
      <3>1. /\ m \in DOMAIN s /\ l - 1 \in DOMAIN s /\ m < l - 1
            /\ r[j] = s[m] /\ r[l] = s[l - 1]
        BY <2>4, <1>1, <1>3, <1>7
      <3> QED
        BY <3>1 DEF Solid
    <2> QED
      BY <2>1, <2>2, <2>3, <2>4, <1>1, <1>7
  <1>9. \A j \in DOMAIN r : r[j].size # 0
    <2>1. \A j \in DOMAIN r : r[j] = b \/ \E l \in DOMAIN s : r[j] = s[l]
      BY <1>1, <1>3, <1>7
    <2> QED
      BY <2>1, <1>2, <1>3
  <1> QED
    BY <1>8, <1>9 DEF Solid

(* A release behind block i: the next block may be joined as well.         *)
LEMMA ExtendUpSolid ==
  ASSUME NEW s \in Blocks, Solid(s), NEW offset \in Nat, NEW size \in Nat \ {0},
         \A x \in Nat : Within(x, offset, size) => ~CoveredBy(s, x),
         NEW i \in DOMAIN s, End(s[i]) = offset
  PROVE  Solid(ExtendUp(s, i, size))
  <1> DEFINE b == Grown(s[i], size)
             r == ExtendUp(s, i, size)
  <1> SUFFICES Solid(r)
    OBVIOUS
  <1>1. /\ Len(s) \in Nat /\ DOMAIN s = 1 .. Len(s)
        /\ \A j \in DOMAIN s : s[j].offset \in Nat /\ s[j].size \in Nat /\ s[j].size # 0
    BY BlocksFacts DEF Solid
  <1>2. /\ b \in Block /\ b.offset = s[i].offset /\ b.size = s[i].size + size
        /\ End(b) = offset + size /\ b.size # 0
    BY <1>1, SMTT(60) DEF Block, Grown, End
  <1>3. \A j \in DOMAIN s : i < j => End(b) <= s[j].offset
    <2> SUFFICES ASSUME NEW j \in DOMAIN s, i < j PROVE End(b) <= s[j].offset
      OBVIOUS
    <2>1. End(s[i]) < s[j].offset
      BY DEF Solid
    <2>2. End(s[j]) <= offset \/ offset + size <= s[j].offset
      BY BesideBlocks
    <2> QED
      BY <1>1, <1>2, <2>1, <2>2 DEF End
  <1>4. \A j, l \in DOMAIN s : j < l => End(s[j]) < s[l].offset /\ End(s[j]) \in Nat
    BY <1>1, SMTT(60) DEF Solid, End
  <1>5. CASE ~(i < Len(s) /\ End(b) = s[i + 1].offset)
    <2>1. r = [s EXCEPT ![i] = b]
      BY <1>5 DEF ExtendUp
    <2> HIDE DEF r, b
    <2>2. DOMAIN r = DOMAIN s /\ \A j \in DOMAIN s : r[j] = IF j = i THEN b ELSE s[j]
      BY <2>1, <1>2, ReplaceFacts
    <2>3. \A j \in DOMAIN s : i < j => End(b) < s[j].offset
      <3> SUFFICES ASSUME NEW j \in DOMAIN s, i < j PROVE End(b) < s[j].offset
        OBVIOUS
      <3>0. i + 1 \in DOMAIN s /\ i < i + 1 /\ i < Len(s)
        BY <1>1
      <3>1. i + 1 \in DOMAIN s /\ i < i + 1 /\ End(b) < s[i + 1].offset
        <4>1. End(b) <= s[i + 1].offset /\ End(b) # s[i + 1].offset
          BY <3>0, <1>3, <1>5
        <4>2. End(b) \in Nat /\ s[i + 1].offset \in Nat
          BY <3>0, <1>1, <1>2
        <4> QED
          BY <3>0, <4>1, <4>2
      <3>2. End(b) \in Nat /\ s[i + 1].offset \in Nat /\ s[j].offset \in Nat
        BY <1>1, <1>2, <3>1
      <3>3. CASE j = i + 1
        BY <3>1, <3>3
      <3>4. CASE i + 1 < j
        <4>1. End(s[i + 1]) < s[j].offset /\ s[i + 1].offset <= End(s[i + 1])
              /\ End(s[i + 1]) \in Nat
          BY <1>1, <1>4, <3>1, <3>4 DEF End
        <4> QED
          BY <3>1, <3>2, <4>1
      <3> QED
        BY <1>1, <3>3, <3>4
    <2> QED
      BY <1>1, <1>2, <1>4, <2>2, <2>3 DEF Solid
  <1>6. CASE i < Len(s) /\ End(b) = s[i + 1].offset
    <2> DEFINE m == Grown(b, s[i + 1].size)
               u == [s EXCEPT ![i] = m]
               old(j) == IF j <= i THEN j ELSE j + 1
    <2>1. r = Without(u, i + 1)
      BY <1>6 DEF ExtendUp
    <2>2. i + 1 \in DOMAIN s /\ s[i + 1].offset \in Nat /\ s[i + 1].size \in Nat
      BY <1>1, <1>6
    <2>3. m \in Block /\ m.offset = s[i].offset /\ End(m) = End(s[i + 1]) /\ m.size # 0
      <3>1. /\ m.offset = b.offset /\ m.size = b.size + s[i + 1].size
            /\ m = [offset |-> m.offset, size |-> m.size]
        BY DEF Grown
      <3>2. b.offset \in Nat /\ b.size \in Nat /\ b.size # 0
        BY <1>1, <1>2
      <3> HIDE DEF m
      <3>3. m \in Block /\ m.size # 0
        BY <2>2, <3>1, <3>2 DEF Block
      <3>4. b.offset + b.size = s[i + 1].offset
        BY <1>6 DEF End
      <3> QED
        BY <1>2, <2>2, <3>1, <3>2, <3>3, <3>4 DEF End
    <2> HIDE DEF r, b, m, u
    <2>4. /\ u \in Blocks /\ DOMAIN u = DOMAIN s /\ Len(u) = Len(s)
          /\ \A j \in DOMAIN s : u[j] = IF j = i THEN m ELSE s[j]
      BY <2>3, ReplaceFacts DEF u
    <2>5. /\ DOMAIN r = 1 .. Len(s) - 1
          /\ \A j \in 1 .. Len(s) - 1 : r[j] = IF j < i + 1 THEN u[j] ELSE u[j + 1]
      <3>1. u \in Blocks /\ i + 1 \in DOMAIN u
        BY <2>1, <2>2, <2>4
      <3>2. /\ DOMAIN Without(u, i + 1) = 1 .. Len(u) - 1
            /\ \A j \in 1 .. Len(u) - 1 :
                  Without(u, i + 1)[j] = IF j < i + 1 THEN u[j] ELSE u[j + 1]
        BY ONLY <3>1, WithoutFacts
      <3>3. r = Without(u, i + 1) /\ Len(u) = Len(s)
        BY <2>1, <2>2, <2>4
      <3> QED
        BY ONLY <3>2, <3>3
    <2>6. \A j \in DOMAIN r : /\ old(j) \in DOMAIN s /\ old(j) # i + 1
                              /\ r[j] = IF old(j) = i THEN m ELSE s[old(j)]
      BY <1>1, <2>4, <2>5
    <2>7. \A j, l \in DOMAIN r : j < l => old(j) < old(l)
      BY <1>1, <2>5
    <2>8. \A j \in DOMAIN s : /\ j < i => End(s[j]) < m.offset
                              /\ j > i + 1 => End(m) < s[j].offset
      BY <1>4, <2>2, <2>3
    <2> HIDE DEF old
    <2>9. \A j, l \in DOMAIN r : j < l => End(r[j]) < r[l].offset
      <3> SUFFICES ASSUME NEW j \in DOMAIN r, NEW l \in DOMAIN r, j < l
                   PROVE  End(r[j]) < r[l].offset
        OBVIOUS
      <3>1. /\ old(j) \in DOMAIN s /\ old(l) \in DOMAIN s /\ old(j) < old(l)
            /\ old(j) # i + 1 /\ old(l) # i + 1
            /\ r[j] = IF old(j) = i THEN m ELSE s[old(j)]
            /\ r[l] = IF old(l) = i THEN m ELSE s[old(l)]
        BY <2>6, <2>7
      <3>2. /\ old(j) = i => old(l) > i + 1 /\ old(l) # i
            /\ old(l) = i => old(j) < i /\ old(j) # i
        BY <3>1, <1>1
      <3>3. CASE old(j) = i
        <4>1. r[j] = m /\ r[l] = s[old(l)] /\ End(m) < s[old(l)].offset
          BY <3>1, <3>2, <3>3, <2>8
        <4> QED
          BY <4>1
      <3>4. CASE old(l) = i
        <4>1. r[l] = m /\ r[j] = s[old(j)] /\ End(s[old(j)]) < m.offset
          BY <3>1, <3>2, <3>4, <2>8
        <4> QED
          BY <4>1
      <3>5. CASE old(j) # i /\ old(l) # i
        BY <3>1, <3>5, <1>4
      <3> QED
        BY <3>3, <3>4, <3>5
    <2>10. \A j \in DOMAIN r : r[j].size # 0
      BY <1>1, <2>3, <2>6
    <2> QED
      BY <2>9, <2>10 DEF Solid
  <1> QED
    BY <1>5, <1>6

(* A release in front of block i, no block ending where it starts.         *)
LEMMA ExtendDownSolid ==
  ASSUME NEW s \in Blocks, Separate(s), Solid(s), NEW offset \in Nat, NEW size \in Nat \ {0},
         \A x \in Nat : Within(x, offset, size) => ~CoveredBy(s, x),
         NEW i \in DOMAIN s, offset + size = s[i].offset,
         \A j \in DOMAIN s : j < i => End(s[j]) # offset
  PROVE  Solid(ExtendDown(s, i, offset, size))
  <1> DEFINE b == [offset |-> offset, size |-> s[i].size + size]
             r == ExtendDown(s, i, offset, size)
  <1> SUFFICES Solid(r)
    OBVIOUS
  <1>1. /\ Len(s) \in Nat /\ DOMAIN s = 1 .. Len(s)
        /\ \A j \in DOMAIN s : s[j].offset \in Nat /\ s[j].size \in Nat /\ s[j].size # 0
    BY BlocksFacts DEF Solid
  <1>2. r = [s EXCEPT ![i] = b]
    BY ExtendDownCovers
  <1>3. b \in Block /\ b.offset = offset /\ End(b) = End(s[i]) /\ b.size # 0
    BY <1>1 DEF Block, End
  <1> HIDE DEF r, b
  <1>4. DOMAIN r = DOMAIN s /\ \A j \in DOMAIN s : r[j] = IF j = i THEN b ELSE s[j]
    BY <1>2, <1>3, ReplaceFacts
  <1>5. \A j \in DOMAIN s : j < i => End(s[j]) < offset
    <2> SUFFICES ASSUME NEW j \in DOMAIN s, j < i PROVE End(s[j]) < offset
      OBVIOUS
    <2>1. End(s[j]) < offset + size
      BY DEF Solid
    <2>2. End(s[j]) <= offset \/ offset + size <= s[j].offset
      BY BesideBlocks
    <2> QED
      BY <1>1, <2>1, <2>2 DEF End
  <1>6. \A j, l \in DOMAIN s : j < l => End(s[j]) < s[l].offset
    BY DEF Solid
  <1> QED
    BY <1>1, <1>3, <1>4, <1>5, <1>6 DEF Solid

(* A release keeps the list in order and joins what meets, although it     *)
(* stops at the first block that it touches.                               *)
LEMMA ReleasedSolid ==
  ASSUME NEW s \in Blocks, Separate(s), Solid(s), NEW offset \in Nat, NEW size \in Nat \ {0},
         \A x \in Nat : Within(x, offset, size) => ~CoveredBy(s, x)
  PROVE  Solid(Released(s, offset, size))
  <1> DEFINE T == Touching(s, offset, size)
             i == CHOOSE j \in T : \A l \in T : j <= l
  <1>1. CASE T = {}
    <2>1. Released(s, offset, size) = Inserted(s, offset, size)
      BY <1>1 DEF Released
    <2> QED
      BY <1>1, <2>1, InsertedSolid
  <1>2. CASE T # {}
    <2>1. T \subseteq DOMAIN s /\ DOMAIN s \subseteq Nat
      BY BlocksFacts DEF Touching
    <2>2. i \in T /\ \A l \in T : i <= l
      <3>1. \E j \in T : \A l \in T : j <= l
        <4> HIDE DEF T
        <4> QED
          BY <1>2, <2>1, LeastExists
      <3> HIDE DEF T
      <3> QED
        BY <3>1
    <2>3. Released(s, offset, size) = IF End(s[i]) = offset THEN ExtendUp(s, i, size)
                                      ELSE ExtendDown(s, i, offset, size)
      BY <1>2 DEF Released
    <2> HIDE DEF i
    <2>4. i \in DOMAIN s /\ (End(s[i]) = offset \/ offset + size = s[i].offset)
      BY <2>1, <2>2 DEF Touching
    <2>5. \A j \in DOMAIN s : j < i => End(s[j]) # offset
      BY <2>1, <2>2, <2>4 DEF Touching
    <2>6. CASE End(s[i]) = offset
      BY <2>3, <2>4, <2>6, ExtendUpSolid
    <2>7. CASE End(s[i]) # offset
      BY <2>3, <2>4, <2>5, <2>7, ExtendDownSolid
    <2> QED
      BY <2>6, <2>7
  <1> QED
    BY <1>1, <1>2
-----------------------------------------------------------------------------
(* The invariant without empty tensors.                                    *)

SolidBlocks == \A k \in DOMAIN chunks : Solid(chunks[k].blocks)

SolidInv ==
    /\ IInv
    /\ SolidBlocks
    /\ IsFiniteSet(Live)
    /\ \A t \in Live : live[t].size # 0

(* An allocation of a size that is not zero. *)
LEMMA AllocSolid ==
  ASSUME SolidInv, 0 \notin Sizes, NEW t \in Tensors, NEW size \in Sizes, Alloc(t, size)
  PROVE  SolidInv'
  <1> DEFINE n == Aligned(size)
             a == AllocAddress(chunks, n)
             r == [chunk |-> a.chunk, offset |-> a.offset, size |-> n]
  <1>1. /\ n \in Nat \ {0} /\ n <= Huge
        /\ chunks \in Chunks /\ \A k \in DOMAIN chunks : Separate(chunks[k].blocks)
        /\ ~OutOfChunks(chunks, n)
        /\ chunks' = AfterAlloc(chunks, n)
    BY AlignedFacts, LiveFacts DEF SolidInv, IInv, BlocksSeparate, Alloc
  <1>2. live' = [live EXCEPT ![t] = r]
    BY DEF Alloc
  <1> HIDE DEF n
  <1>3. PICK c \in Chunk : \E i \in DOMAIN c.blocks :
            Separate(c.blocks) /\ Allocated(chunks, n, c, i)
    BY <1>1, AllocFacts
  <1>4. PICK i \in DOMAIN c.blocks : Separate(c.blocks) /\ Allocated(chunks, n, c, i)
    BY <1>3
  <1>5. /\ n <= c.blocks[i].size
        /\ chunks'[a.chunk] = Take(c, i, n)
        /\ \/ a.chunk \in DOMAIN chunks /\ c = chunks[a.chunk]
           \/ c = NewChunk(Len(chunks), n)
        /\ \A k \in DOMAIN chunks' \ {a.chunk} : k \in DOMAIN chunks /\ chunks'[k] = chunks[k]
    BY <1>1, <1>4 DEF Allocated
  <1>6. Solid(c.blocks)
    <2>1. Len(chunks) \in Nat
      BY <1>1, ChunksFacts
    <2> QED
      BY <1>1, <1>5, <2>1, NewChunkSolid DEF SolidInv, SolidBlocks
  <1>7. Solid(Take(c, i, n).blocks)
    BY <1>1, <1>5, <1>6, TakeSolid
  <1>8. SolidBlocks'
    BY <1>5, <1>7 DEF SolidInv, SolidBlocks
  <1>9. live \in [Tensors -> Extent \union {None}]
    BY DEF SolidInv, IInv, TypeOK
  <1>10. r.size # 0
    BY <1>1
  <1> HIDE DEF r
  <1>11. \A u \in Live' : live'[u].size # 0
    BY <1>2, <1>9, <1>10 DEF SolidInv, Live
  <1>12. IsFiniteSet(Live')
    <2>1. Live' \subseteq Live \union {t}
      BY <1>2, <1>9 DEF Live
    <2>2. IsFiniteSet(Live \union {t})
      BY FS_AddElement DEF SolidInv
    <2> QED
      BY <2>1, <2>2, FS_Subset
  <1>13. IInv'
    BY AllocInv DEF SolidInv
  <1> QED
    BY <1>8, <1>11, <1>12, <1>13 DEF SolidInv

(* A release of a tensor, or of its end when something of it is kept.      *)
LEMMA ReleaseSolid ==
  ASSUME SolidInv, NEW t \in Live, NEW keep \in Nat, NEW size \in Nat \ {0},
         keep + size = live[t].size,
         NEW addr, addr.chunk = live[t].chunk, addr.offset = live[t].offset + keep,
         chunks' = AfterFree(chunks, addr, size),
         \/ keep = 0 /\ live' = [live EXCEPT ![t] = None]
         \/ keep # 0 /\ live' = [live EXCEPT ![t].size = keep]
  PROVE  SolidInv'
  <1>1. /\ TypeOK /\ chunks \in Chunks /\ live \in [Tensors -> Extent \union {None}]
        /\ \A k \in DOMAIN chunks : Separate(chunks[k].blocks)
    BY LiveFacts DEF SolidInv, IInv, TypeOK, BlocksSeparate
  <1>2. /\ t \in Tensors /\ live[t].chunk \in DOMAIN chunks /\ live[t] \in Extent
        /\ live[t].offset \in Nat /\ live[t].size \in Nat
    BY <1>1, LiveFacts DEF SolidInv, IInv, WithinMaxSize
  <1>3. addr.chunk \in DOMAIN chunks /\ addr.offset \in Nat
    BY <1>2
  <1>4. \A x \in Nat : Within(x, addr.offset, size) => Covers(live[t], x)
    BY <1>2 DEF Within, Covers, End
  <1>5. \A x \in Nat : Within(x, addr.offset, size) => ~CoveredBy(chunks[addr.chunk].blocks, x)
    BY <1>4 DEF SolidInv, IInv, OneOwner
  <1> DEFINE k == addr.chunk
  <1>6. /\ DOMAIN chunks' = DOMAIN chunks
        /\ \A l \in DOMAIN chunks \ {k} : chunks'[l] = chunks[l]
        /\ chunks'[k].blocks = Released(chunks[k].blocks, addr.offset, size)
    BY <1>1, <1>3, <1>5, FreedFacts
  <1>7. Solid(chunks'[k].blocks)
    <2>1. /\ chunks[k].blocks \in Blocks /\ Separate(chunks[k].blocks)
          /\ Solid(chunks[k].blocks)
      BY <1>1, <1>3, ChunksFacts DEF SolidInv, SolidBlocks
    <2> QED
      BY <1>3, <1>5, <1>6, <2>1, ReleasedSolid
  <1>8. SolidBlocks'
    BY <1>6, <1>7 DEF SolidInv, SolidBlocks
  <1>9. Live' \subseteq Live /\ \A u \in Live' : live'[u].size # 0
    <2>1. CASE keep = 0 /\ live' = [live EXCEPT ![t] = None]
      BY <2>1, <1>1, <1>2 DEF SolidInv, Live
    <2>2. CASE keep # 0 /\ live' = [live EXCEPT ![t].size = keep]
      <3> DEFINE r == [live[t] EXCEPT !.size = keep]
      <3>1. r.size = keep
        BY <1>2 DEF Extent, Promise!Extent
      <3>2. live' = [live EXCEPT ![t] = r]
        BY <2>2
      <3> HIDE DEF r
      <3> QED
        BY <2>2, <3>1, <3>2, <1>1, <1>2 DEF SolidInv, Live
    <2> QED
      BY <2>1, <2>2
  <1>10. IsFiniteSet(Live')
    BY <1>9, FS_Subset DEF SolidInv
  <1>11. IInv'
    BY ReleaseInv DEF SolidInv
  <1> QED
    BY <1>8, <1>9, <1>10, <1>11 DEF SolidInv

(* The invariant holds in every state when no tensor is empty. *)
LEMMA SolidInvariance ==
  ASSUME 0 \notin Sizes
  PROVE  Spec => []SolidInv
  <1>1. Init => SolidInv
    <2> SUFFICES ASSUME Init PROVE SolidInv
      OBVIOUS
    <2>1. Live = {} /\ DOMAIN chunks = {}
      BY DEF Init, Live
    <2>2. IsFiniteSet({})
      BY FS_EmptySet
    <2> QED
      BY <2>1, <2>2, InitInv DEF SolidInv, SolidBlocks
  <1>2. SolidInv /\ [Next]_vars => SolidInv'
    <2> SUFFICES ASSUME SolidInv, [Next]_vars PROVE SolidInv'
      OBVIOUS
    <2>1. ASSUME NEW t \in Tensors, NEW size \in Sizes, Alloc(t, size) PROVE SolidInv'
      BY <2>1, AllocSolid
    <2>2. ASSUME NEW t \in Tensors, Free(t) PROVE SolidInv'
      <3>1. t \in Live /\ live[t].size \in Nat \ {0} /\ live[t].offset \in Nat
        BY <2>2, LiveFacts DEF Free, SolidInv, IInv
      <3>2. live[t].offset = live[t].offset + 0 /\ 0 + live[t].size = live[t].size
        BY <3>1
      <3>3. chunks' = AfterFree(chunks, live[t], live[t].size) /\ live' = [live EXCEPT ![t] = None]
        BY <2>2 DEF Free
      <3> QED
        BY <3>1, <3>2, <3>3, ReleaseSolid
    <2>3. ASSUME NEW t \in Tensors, NEW size \in Sizes, FreeExtra(t, size) PROVE SolidInv'
      <3> DEFINE n == Aligned(size)
                 rest == [live[t] EXCEPT !.offset = @ + n]
      <3>1. /\ t \in Live /\ n < live[t].size /\ 0 < size
            /\ chunks' = AfterFree(chunks, rest, live[t].size - n)
            /\ live' = [live EXCEPT ![t].size = n]
        BY <2>3 DEF FreeExtra
      <3>2. n \in Nat /\ n # 0 /\ live[t].size \in Nat /\ live[t] \in Extent
        BY <3>1, AlignedFacts, LiveFacts DEF SolidInv, IInv
      <3>3. rest.chunk = live[t].chunk /\ rest.offset = live[t].offset + n
        BY <3>2 DEF Extent, Promise!Extent
      <3> HIDE DEF n, rest
      <3>4. live[t].size - n \in Nat \ {0} /\ n + (live[t].size - n) = live[t].size
        BY <3>1, <3>2
      <3> QED
        BY <3>1, <3>2, <3>3, <3>4, ReleaseSolid
    <2>4. CASE Reset
      <3>1. Live' = {} /\ DOMAIN chunks' = {}
        BY <2>4 DEF Reset, Live
      <3>2. IsFiniteSet({})
        BY FS_EmptySet
      <3>3. IInv'
        BY <2>4, NextInv DEF SolidInv, Next
      <3> QED
        BY <3>1, <3>2, <3>3 DEF SolidInv, SolidBlocks
    <2>5. CASE UNCHANGED vars
      <3>1. IInv'
        BY <2>5, NextInv DEF SolidInv
      <3>2. Live' = Live /\ chunks' = chunks /\ live' = live
        BY <2>5 DEF vars, Live
      <3> QED
        BY <3>1, <3>2 DEF SolidInv, SolidBlocks
    <2> QED
      BY <2>1, <2>2, <2>3, <2>4, <2>5 DEF Next
  <1> QED
    BY <1>1, <1>2, PTL DEF Spec

(* Behind every free block but the last a live tensor begins, and no       *)
(* tensor is behind two of them.                                           *)
LEMMA InvFewBlocks == SolidInv => FewBlocks
  <1> SUFFICES ASSUME SolidInv, NEW k \in DOMAIN chunks
               PROVE  Len(chunks[k].blocks) <= 1 + Cardinality({t \in Live : live[t].chunk = k})
    BY DEF FewBlocks
  <1> DEFINE s == chunks[k].blocks
             L == {t \in Live : live[t].chunk = k}
             S == 1 .. Len(s) - 1
             f == [i \in S |-> CHOOSE t \in L : Covers(live[t], End(s[i]))]
  <1>1. s \in Blocks /\ Solid(s)
    BY LiveFacts, ChunksFacts DEF SolidInv, SolidBlocks, IInv
  <1>2. /\ Len(s) \in Nat /\ DOMAIN s = 1 .. Len(s)
        /\ \A i \in DOMAIN s : /\ s[i].offset \in Nat /\ s[i].size \in Nat /\ s[i].size # 0
                               /\ End(s[i]) \in Nat /\ s[i].offset < End(s[i])
    <2>1. \A i \in DOMAIN s : s[i].size # 0
      BY <1>1 DEF Solid
    <2>2. \A i \in DOMAIN s : s[i].offset \in Nat /\ s[i].size \in Nat
      BY <1>1, BlocksFacts
    <2> QED
      BY <1>1, <2>1, <2>2, BlocksFacts DEF End
  <1>3. \A i, j \in DOMAIN s : i < j => End(s[i]) < s[j].offset
    BY <1>1 DEF Solid
  <1>4. IsFiniteSet(L) /\ Cardinality(L) \in Nat
    BY FS_Subset, FS_CardinalityType DEF SolidInv
  <1>5. ASSUME NEW i \in S
        PROVE  \E t \in L : Covers(live[t], End(s[i]))
    <2>1. i \in DOMAIN s /\ i + 1 \in DOMAIN s /\ End(s[i]) < s[i + 1].offset
      BY <1>2, <1>3
    <2>2. CoveredBy(s, s[i + 1].offset)
      BY <1>2, <2>1 DEF CoveredBy, Covers
    <2>3. Owned(k, End(s[i]))
      <3>1. Owned(k, s[i + 1].offset)
        BY <2>2 DEF Owned
      <3>2. End(s[i]) <= s[i + 1].offset /\ End(s[i]) \in Nat /\ s[i + 1].offset \in Nat
        BY <1>2, <2>1
      <3> HIDE DEF s
      <3> QED
        BY <3>1, <3>2 DEF SolidInv, IInv, NoGap
    <2>4. ~CoveredBy(s, End(s[i]))
      <3> SUFFICES ASSUME NEW j \in DOMAIN s, Covers(s[j], End(s[i])) PROVE FALSE
        BY DEF CoveredBy
      <3>1. s[j].offset <= End(s[i]) /\ End(s[i]) < End(s[j])
        BY DEF Covers
      <3>2. CASE j < i
        <4>1. End(s[j]) < s[i].offset /\ s[i].offset < End(s[i])
          BY <1>2, <1>3, <2>1, <3>2
        <4> QED
          BY <3>1, <4>1, <1>2, <2>1
      <3>3. CASE i < j
        <4>1. End(s[i]) < s[j].offset
          BY <1>3, <2>1, <3>3
        <4> QED
          BY <3>1, <4>1, <1>2, <2>1
      <3>4. CASE i = j
        BY <3>1, <3>4, <1>2
      <3> QED
        BY <3>2, <3>3, <3>4, <1>2, <2>1
    <2> QED
      BY <2>3, <2>4 DEF Owned
  <1>6. \A i \in S : f[i] \in L /\ Covers(live[f[i]], End(s[i]))
    BY <1>5
  <1>7. ASSUME NEW i \in S, NEW j \in S, i < j PROVE f[i] # f[j]
    <2>1. i \in DOMAIN s /\ j \in DOMAIN s /\ End(s[i]) < s[j].offset
      <3>1. i \in DOMAIN s /\ j \in DOMAIN s
        BY <1>2
      <3> HIDE DEF s
      <3> QED
        BY <1>3, <1>7, <3>1
    <2>2. CoveredBy(s, s[j].offset)
      BY <1>2, <2>1 DEF CoveredBy, Covers
    <2>3. f[j] \in L /\ ~Covers(live[f[j]], s[j].offset)
      <3> HIDE DEF f
      <3>1. f[j] \in Live /\ live[f[j]].chunk = k
        BY <1>6
      <3>2. s[j].offset \in Nat
        BY <1>2, <2>1
      <3> QED
        BY <1>6, <2>2, <3>1, <3>2 DEF SolidInv, IInv, OneOwner
    <2>4. Covers(live[f[j]], End(s[j]))
      BY <1>6
    <2>5. /\ live[f[j]].offset \in Nat /\ live[f[j]].size \in Nat
      <3>1. f[j] \in Live
        BY <1>6
      <3> HIDE DEF f
      <3> QED
        BY <3>1, LiveFacts DEF SolidInv, IInv
    <2>6. ~Covers(live[f[j]], End(s[i]))
      <3> HIDE DEF f
      <3>1. End(live[f[j]]) \in Nat
        BY <2>5, SMTT(60) DEF End
      <3>2. /\ End(s[i]) \in Nat /\ End(s[j]) \in Nat /\ s[j].offset \in Nat
            /\ s[j].offset < End(s[j])
        BY <1>2, <2>1
      <3> HIDE DEF f, s
      <3> QED
        BY <2>1, <2>3, <2>4, <2>5, <3>1, <3>2 DEF Covers
    <2> QED
      BY <1>6, <2>6
  <1>8. f \in Injection(S, L)
    <2>1. f \in [S -> L] /\ DOMAIN f = S
      BY <1>6
    <2>2. \A i, j \in S : f[i] = f[j] => i = j
      <3> HIDE DEF f
      <3> QED
        BY <1>2, <1>7
    <2> HIDE DEF f, L, S
    <2> QED
      BY <2>1, <2>2 DEF Injection, IsInjective
  <1>9. Cardinality(S) <= Cardinality(L)
    <2> HIDE DEF f, S, L
    <2> QED
      BY <1>4, <1>8, FS_Injection
  <1>10. Cardinality(S) = IF 1 > Len(s) - 1 THEN 0 ELSE Len(s) - 1
    <2>1. \A b \in Int : Cardinality(1 .. b) = IF 1 > b THEN 0 ELSE b - 1 + 1
      BY FS_Interval
    <2>2. Len(s) - 1 \in Int /\ Len(s) - 1 - 1 + 1 = Len(s) - 1
      BY <1>2
    <2> HIDE DEF s
    <2> QED
      BY <2>1, <2>2
  <1> HIDE DEF s, S, L
  <1> QED
    BY <1>2, <1>4, <1>9, <1>10 DEF s, L

(* free_bytes keeps the free blocks of a chunk sorted and joins those that *)
(* meet, although it stops at the first block that the range touches.      *)
THEOREM BlocksCoalesced ==
  ASSUME 0 \notin Sizes
  PROVE  Spec => []Coalesced
  <1>1. SolidInv => Coalesced
    BY DEF SolidInv, SolidBlocks, Solid, Coalesced
  <1> QED
    BY <1>1, SolidInvariance, PTL

(* ggml_dyn_tallocr_insert_block needs no more blocks than one for each    *)
(* live tensor of the chunk and one more, whatever came and went.          *)
THEOREM BlocksFew ==
  ASSUME 0 \notin Sizes
  PROVE  Spec => []FewBlocks
  <1> QED
    BY SolidInvariance, InvFewBlocks, PTL
=============================================================================
