---------------------------- MODULE FreeListProofs ----------------------------
(***************************************************************************)
(* What an allocation and a release do to the free lists of FreeLists, for *)
(* any lists, sizes and offsets.                                           *)
(*                                                                         *)
(* The free lists enter the argument through the addresses they cover:     *)
(* an allocation takes its range from what a list covers, a release adds   *)
(* it back, and the blocks of a list never cover an address twice.         *)
(***************************************************************************)
EXTENDS FreeLists, TLAPS, WellFoundedInduction, SequenceTheorems, FiniteSetTheorems

LessThan == {p \in Nat \X Nat : p[1] < p[2]}

(* A set of numbers has a least one. *)
LEMMA LeastExists ==
  ASSUME NEW S, S \subseteq Nat, S # {}
  PROVE  \E m \in S : \A n \in S : m <= n
  <1>1. IsWellFoundedOn(LessThan, Nat)
    BY NatLessThanWellFounded DEF LessThan, OpToRel
  <1>2. PICK m \in S : \A n \in S : ~(<<n, m>> \in LessThan)
    BY <1>1, WFMin
  <1>3. \A n \in S : ~(n < m)
    BY <1>2 DEF LessThan
  <1> QED
    BY <1>3

(* A bounded set of numbers has a greatest one. *)
LEMMA GreatestExists ==
  ASSUME NEW b \in Nat, NEW S, S \subseteq 0 .. b, S # {}
  PROVE  \E m \in S : \A n \in S : n <= m
  <1> DEFINE T == {b - n : n \in S}
  <1>1. PICK m \in T : \A n \in T : m <= n
    <2>1. T \subseteq Nat
      OBVIOUS
    <2>2. PICK n \in S : TRUE
      OBVIOUS
    <2>3. b - n \in T
      OBVIOUS
    <2> HIDE DEF T
    <2> QED
      BY <2>1, <2>3, LeastExists
  <1>2. PICK l \in S : m = b - l
    OBVIOUS
  <1>3. \A n \in S : b - l <= b - n
    BY <1>1, <1>2
  <1> QED
    BY <1>3
-----------------------------------------------------------------------------
(* Lists of blocks.                                                        *)

Blocks == Seq(Block)

CoveredBy(s, x) == \E i \in DOMAIN s : Covers(s[i], x)

Within(x, offset, size) == offset <= x /\ x < offset + size

(* No address in two blocks. *)
Separate(s) ==
    \A i, j \in DOMAIN s : \A x \in Nat : Covers(s[i], x) /\ Covers(s[j], x) => i = j

(* The types of a list of blocks and of its members. *)
LEMMA BlocksFacts ==
  ASSUME NEW s \in Blocks
  PROVE  /\ Len(s) \in Nat
         /\ DOMAIN s = 1 .. Len(s)
         /\ s \in [1 .. Len(s) -> Block]
         /\ \A i \in DOMAIN s : /\ s[i] \in Block
                                /\ s[i].offset \in Nat /\ s[i].size \in Nat
                                /\ End(s[i]) \in Nat
                                /\ s[i] = [offset |-> s[i].offset, size |-> s[i].size]
  <1>1. /\ Len(s) \in Nat
        /\ DOMAIN s = 1 .. Len(s)
        /\ s \in [1 .. Len(s) -> Block]
    BY LenProperties DEF Blocks
  <1>2. ASSUME NEW i \in DOMAIN s
        PROVE  /\ s[i] \in Block
               /\ s[i].offset \in Nat /\ s[i].size \in Nat
               /\ End(s[i]) \in Nat
               /\ s[i] = [offset |-> s[i].offset, size |-> s[i].size]
    <2>1. s[i] \in Block
      BY <1>1
    <2> QED
      BY <2>1 DEF Block, End
  <1> QED
    BY <1>1, <1>2

(* A function on 1 .. n is a list of length n. *)
LEMMA FunctionIsList ==
  ASSUME NEW n \in Nat, NEW s \in [1 .. n -> Block]
  PROVE  s \in Blocks /\ Len(s) = n /\ DOMAIN s = 1 .. n
  BY SeqDef DEF Blocks

(* A list without one of its blocks. *)
LEMMA WithoutFacts ==
  ASSUME NEW s \in Blocks, NEW i \in DOMAIN s
  PROVE  /\ Without(s, i) \in Blocks
         /\ DOMAIN Without(s, i) = 1 .. Len(s) - 1
         /\ \A j \in 1 .. Len(s) - 1 : Without(s, i)[j] = IF j < i THEN s[j] ELSE s[j + 1]
  <1>1. Len(s) - 1 \in Nat /\ Without(s, i) \in [1 .. Len(s) - 1 -> Block]
    BY BlocksFacts DEF Without
  <1> QED
    BY <1>1, FunctionIsList DEF Without

(* A list with a block inserted. *)
LEMMA WithAtFacts ==
  ASSUME NEW s \in Blocks, NEW i \in 1 .. Len(s) + 1, NEW b \in Block
  PROVE  /\ WithAt(s, i, b) \in Blocks
         /\ DOMAIN WithAt(s, i, b) = 1 .. Len(s) + 1
         /\ \A j \in 1 .. Len(s) + 1 :
               WithAt(s, i, b)[j] = IF j < i THEN s[j] ELSE IF j = i THEN b ELSE s[j - 1]
  <1>1. Len(s) + 1 \in Nat /\ WithAt(s, i, b) \in [1 .. Len(s) + 1 -> Block]
    BY BlocksFacts DEF WithAt
  <1> QED
    BY <1>1, FunctionIsList DEF WithAt

(* A list with one block replaced. *)
LEMMA ReplaceFacts ==
  ASSUME NEW s \in Blocks, NEW i \in DOMAIN s, NEW b \in Block
  PROVE  /\ [s EXCEPT ![i] = b] \in Blocks
         /\ DOMAIN [s EXCEPT ![i] = b] = DOMAIN s
         /\ Len([s EXCEPT ![i] = b]) = Len(s)
         /\ \A j \in DOMAIN s : [s EXCEPT ![i] = b][j] = IF j = i THEN b ELSE s[j]
  <1>1. Len(s) \in Nat /\ [s EXCEPT ![i] = b] \in [1 .. Len(s) -> Block]
    BY BlocksFacts
  <1> QED
    BY <1>1, BlocksFacts, FunctionIsList

(* Dropping a block takes what it covered, and nothing else.               *)
LEMMA WithoutCovers ==
  ASSUME NEW s \in Blocks, NEW i \in DOMAIN s, Separate(s)
  PROVE  /\ Separate(Without(s, i))
         /\ \A x \in Nat : CoveredBy(Without(s, i), x) <=> CoveredBy(s, x) /\ ~Covers(s[i], x)
  <1> DEFINE r == Without(s, i)
             old(j) == IF j < i THEN j ELSE j + 1
  <1>1. Len(s) \in Nat /\ DOMAIN s = 1 .. Len(s)
    BY BlocksFacts
  <1>2. /\ DOMAIN r = 1 .. Len(s) - 1
        /\ \A j \in DOMAIN r : old(j) \in DOMAIN s \ {i} /\ r[j] = s[old(j)]
    BY <1>1, WithoutFacts
  <1>3. \A l \in DOMAIN s \ {i} : \E j \in DOMAIN r : r[j] = s[l]
    <2> SUFFICES ASSUME NEW l \in DOMAIN s \ {i} PROVE \E j \in DOMAIN r : r[j] = s[l]
      OBVIOUS
    <2>1. CASE l < i
      <3>1. l \in DOMAIN r /\ old(l) = l
        BY <2>1, <1>1, <1>2
      <3> QED
        BY <3>1, <1>2
    <2>2. CASE l > i
      <3>1. l - 1 \in DOMAIN r /\ old(l - 1) = l
        BY <2>2, <1>1, <1>2
      <3> QED
        BY <3>1, <1>2
    <2> QED
      BY <2>1, <2>2, <1>1
  <1>4. \A j, l \in DOMAIN r : old(j) = old(l) => j = l
    BY <1>1, <1>2
  <1>5. Separate(r)
    BY <1>2, <1>4 DEF Separate
  <1>6. \A x \in Nat : CoveredBy(r, x) <=> CoveredBy(s, x) /\ ~Covers(s[i], x)
    <2> SUFFICES ASSUME NEW x \in Nat
                 PROVE  CoveredBy(r, x) <=> CoveredBy(s, x) /\ ~Covers(s[i], x)
      OBVIOUS
    <2> HIDE DEF r, old
    <2>1. CoveredBy(r, x) => CoveredBy(s, x) /\ ~Covers(s[i], x)
      BY <1>2 DEF CoveredBy, Separate
    <2>2. CoveredBy(s, x) /\ ~Covers(s[i], x) => CoveredBy(r, x)
      BY <1>3 DEF CoveredBy
    <2> QED
      BY <2>1, <2>2
  <1> QED
    BY <1>5, <1>6

(* Replacing block i by one that covers nothing another block covers.      *)
LEMMA ReplaceCovers ==
  ASSUME NEW s \in Blocks, NEW i \in DOMAIN s, NEW b \in Block, Separate(s),
         \A j \in DOMAIN s : \A x \in Nat : j # i => ~(Covers(b, x) /\ Covers(s[j], x))
  PROVE  /\ Separate([s EXCEPT ![i] = b])
         /\ \A x \in Nat : CoveredBy([s EXCEPT ![i] = b], x) <=>
                Covers(b, x) \/ (CoveredBy(s, x) /\ ~Covers(s[i], x))
  <1> DEFINE r == [s EXCEPT ![i] = b]
  <1>1. DOMAIN r = DOMAIN s /\ \A j \in DOMAIN s : r[j] = IF j = i THEN b ELSE s[j]
    BY ReplaceFacts
  <1> HIDE DEF r
  <1>2. Separate(r)
    BY <1>1 DEF Separate
  <1>3. \A x \in Nat : CoveredBy(r, x) <=> Covers(b, x) \/ (CoveredBy(s, x) /\ ~Covers(s[i], x))
    <2> SUFFICES ASSUME NEW x \in Nat
                 PROVE  CoveredBy(r, x) <=> Covers(b, x) \/ (CoveredBy(s, x) /\ ~Covers(s[i], x))
      OBVIOUS
    <2>1. ASSUME NEW j \in DOMAIN r, Covers(r[j], x)
          PROVE  Covers(b, x) \/ (CoveredBy(s, x) /\ ~Covers(s[i], x))
      BY <2>1, <1>1 DEF CoveredBy, Separate
    <2>2. Covers(b, x) => CoveredBy(r, x)
      BY <1>1 DEF CoveredBy
    <2>3. ASSUME NEW j \in DOMAIN s, Covers(s[j], x), ~Covers(s[i], x)
          PROVE  CoveredBy(r, x)
      BY <2>3, <1>1 DEF CoveredBy
    <2> QED
      BY <2>1, <2>2, <2>3 DEF CoveredBy
  <1> QED
    BY <1>2, <1>3 DEF r

(* An allocation takes its range, and nothing else, from the free list.    *)
LEMMA TakeCovers ==
  ASSUME NEW c \in Chunk, NEW i \in DOMAIN c.blocks, NEW size \in Nat,
         size <= c.blocks[i].size, Separate(c.blocks)
  PROVE  /\ Take(c, i, size) \in Chunk
         /\ Separate(Take(c, i, size).blocks)
         /\ \A x \in Nat : CoveredBy(Take(c, i, size).blocks, x) <=>
               CoveredBy(c.blocks, x) /\ ~Within(x, c.blocks[i].offset, size)
         /\ Take(c, i, size).max_size >= c.max_size
         /\ Take(c, i, size).max_size >= c.blocks[i].offset + size
         /\ Take(c, i, size).max_size \in {c.max_size, c.blocks[i].offset + size}
  <1> DEFINE s == c.blocks
             b == s[i]
             rest == [offset |-> b.offset + size, size |-> b.size - size]
             r == Take(c, i, size)
  <1>1. s \in Blocks /\ c.max_size \in Nat
    BY DEF Chunk, Blocks
  <1>2. b \in Block /\ b.offset \in Nat /\ b.size \in Nat
    BY <1>1, BlocksFacts
  <1>3. /\ r.blocks = IF rest.size = 0 THEN Without(s, i) ELSE [s EXCEPT ![i] = rest]
        /\ r.max_size = IF b.offset + size > c.max_size THEN b.offset + size ELSE c.max_size
        /\ r = [blocks |-> r.blocks, max_size |-> r.max_size]
    BY DEF Take
  <1>4. rest \in Block
    BY <1>2 DEF Block
  <1>5. /\ \A x \in Nat : Covers(rest, x) <=> Covers(b, x) /\ ~Within(x, b.offset, size)
        /\ \A x \in Nat : Within(x, b.offset, size) => Covers(b, x)
        /\ rest.size = 0 => \A x \in Nat : Covers(b, x) <=> Within(x, b.offset, size)
    BY <1>2 DEF Covers, Within, End
  <1> HIDE DEF rest, r, b, s
  <1>6. r.blocks \in Blocks
    BY <1>1, <1>3, <1>4, WithoutFacts, ReplaceFacts DEF s
  <1>7. /\ Separate(r.blocks)
        /\ \A x \in Nat : CoveredBy(r.blocks, x) <=>
               CoveredBy(s, x) /\ ~Within(x, b.offset, size)
    <2>1. CASE rest.size = 0
      BY <2>1, <1>1, <1>3, <1>5, WithoutCovers DEF s, b
    <2>2. CASE rest.size # 0
      <3>1. \A j \in DOMAIN s : \A x \in Nat : j # i => ~(Covers(rest, x) /\ Covers(s[j], x))
        BY <1>5 DEF Separate, s, b
      <3>2. /\ Separate([s EXCEPT ![i] = rest])
            /\ \A x \in Nat : CoveredBy([s EXCEPT ![i] = rest], x) <=>
                   Covers(rest, x) \/ (CoveredBy(s, x) /\ ~Covers(b, x))
        BY <3>1, <1>1, <1>4, ReplaceCovers DEF s, b
      <3>3. r.blocks = [s EXCEPT ![i] = rest]
        BY <2>2, <1>3
      <3>4. \A x \in Nat : Covers(b, x) => CoveredBy(s, x)
        BY DEF CoveredBy, s, b
      <3> QED
        BY <3>2, <3>3, <3>4, <1>5
    <2> QED
      BY <2>1, <2>2
  <1>8. r \in Chunk
    BY <1>1, <1>2, <1>3, <1>6, SMTT(60) DEF Chunk, Blocks
  <1> QED
    BY <1>1, <1>2, <1>3, <1>7, <1>8 DEF r, s, b

(* Adding a block that covers nothing another block covers.                *)
LEMMA WithAtCovers ==
  ASSUME NEW s \in Blocks, NEW i \in 1 .. Len(s) + 1, NEW b \in Block, Separate(s),
         \A x \in Nat : Covers(b, x) => ~CoveredBy(s, x)
  PROVE  /\ Separate(WithAt(s, i, b))
         /\ \A x \in Nat : CoveredBy(WithAt(s, i, b), x) <=> CoveredBy(s, x) \/ Covers(b, x)
  <1> DEFINE r == WithAt(s, i, b)
             old(j) == IF j < i THEN j ELSE j - 1
  <1>1. Len(s) \in Nat /\ DOMAIN s = 1 .. Len(s)
    BY BlocksFacts
  <1>2. /\ DOMAIN r = 1 .. Len(s) + 1
        /\ i \in DOMAIN r /\ r[i] = b
        /\ \A j \in DOMAIN r \ {i} : old(j) \in DOMAIN s /\ r[j] = s[old(j)]
    BY <1>1, WithAtFacts
  <1>3. \A l \in DOMAIN s : \E j \in DOMAIN r : r[j] = s[l]
    <2> SUFFICES ASSUME NEW l \in DOMAIN s PROVE \E j \in DOMAIN r : r[j] = s[l]
      OBVIOUS
    <2>1. CASE l < i
      <3>1. l \in DOMAIN r \ {i} /\ old(l) = l
        BY <2>1, <1>1, <1>2
      <3> QED
        BY <3>1, <1>2
    <2>2. CASE l >= i
      <3>1. l + 1 \in DOMAIN r \ {i} /\ old(l + 1) = l
        BY <2>2, <1>1, <1>2
      <3> QED
        BY <3>1, <1>2
    <2> QED
      BY <2>1, <2>2, <1>1
  <1>4. \A j, l \in DOMAIN r \ {i} : old(j) = old(l) => j = l
    BY <1>1, <1>2
  <1> HIDE DEF r, old
  <1>5. Separate(r)
    <2> SUFFICES ASSUME NEW j \in DOMAIN r, NEW l \in DOMAIN r, NEW x \in Nat,
                        Covers(r[j], x), Covers(r[l], x)
                 PROVE  j = l
      BY DEF Separate
    <2>1. CASE j # i /\ l # i
      BY <2>1, <1>2, <1>4 DEF Separate
    <2>2. CASE (j = i) # (l = i)
      BY <2>2, <1>2 DEF CoveredBy
    <2> QED
      BY <2>1, <2>2
  <1>6. \A x \in Nat : CoveredBy(r, x) <=> CoveredBy(s, x) \/ Covers(b, x)
    BY <1>2, <1>3 DEF CoveredBy
  <1> QED
    BY <1>5, <1>6 DEF r

(* The place that insert_block looks for exists.                           *)
LEMMA InsertPosition ==
  ASSUME NEW s \in Blocks, NEW offset \in Nat
  PROVE  \E i \in 1 .. Len(s) + 1 :
            /\ \A j \in 1 .. i - 1 : s[j].offset < offset
            /\ i <= Len(s) => s[i].offset >= offset
  <1> DEFINE S == {i \in 1 .. Len(s) + 1 : i <= Len(s) => s[i].offset >= offset}
  <1>1. Len(s) \in Nat /\ DOMAIN s = 1 .. Len(s) /\ \A i \in DOMAIN s : s[i].offset \in Nat
    BY BlocksFacts
  <1>2. S \subseteq Nat /\ Len(s) + 1 \in S
    BY <1>1
  <1>3. PICK i \in S : \A j \in S : i <= j
    <2> HIDE DEF S
    <2> QED
      BY <1>2, LeastExists
  <1>4. \A j \in 1 .. i - 1 : s[j].offset < offset
    BY <1>1, <1>3
  <1> QED
    BY <1>3, <1>4

(* The range released at the end of block i.                               *)
LEMMA ExtendUpCovers ==
  ASSUME NEW s \in Blocks, Separate(s), NEW offset \in Nat, NEW size \in Nat,
         \A x \in Nat : Within(x, offset, size) => ~CoveredBy(s, x),
         NEW i \in DOMAIN s, End(s[i]) = offset
  PROVE  /\ ExtendUp(s, i, size) \in Blocks
         /\ Separate(ExtendUp(s, i, size))
         /\ \A x \in Nat : CoveredBy(ExtendUp(s, i, size), x) <=>
                CoveredBy(s, x) \/ Within(x, offset, size)
  <1> DEFINE b == Grown(s[i], size)
             n == s[i + 1]
  <1>1. /\ Len(s) \in Nat /\ DOMAIN s = 1 .. Len(s) /\ s \in [1 .. Len(s) -> Block]
        /\ \A j \in DOMAIN s : /\ s[j] \in Block /\ s[j].offset \in Nat /\ s[j].size \in Nat
                               /\ s[j] = [offset |-> s[j].offset, size |-> s[j].size]
    BY BlocksFacts
  <1>3. b \in Block /\ b.offset = s[i].offset /\ b.size = s[i].size + size
    BY <1>1 DEF Block, Grown
  <1>4. \A x \in Nat : Covers(b, x) <=> Covers(s[i], x) \/ Within(x, offset, size)
    BY <1>1 DEF Covers, End, Within, Grown
  <1> HIDE DEF b
  <1>5. \A j \in DOMAIN s : \A x \in Nat : j # i => ~(Covers(b, x) /\ Covers(s[j], x))
    BY <1>4 DEF Separate, CoveredBy
  <1>6. CASE ~(i < Len(s) /\ End(b) = n.offset)
    <2>1. ExtendUp(s, i, size) = [s EXCEPT ![i] = b]
      BY <1>6 DEF ExtendUp, b
    <2>2. /\ Separate([s EXCEPT ![i] = b])
          /\ \A x \in Nat : CoveredBy([s EXCEPT ![i] = b], x) <=>
                Covers(b, x) \/ (CoveredBy(s, x) /\ ~Covers(s[i], x))
      BY <1>3, <1>5, ReplaceCovers
    <2>3. \A x \in Nat : Covers(s[i], x) => CoveredBy(s, x)
      BY DEF CoveredBy
    <2>4. [s EXCEPT ![i] = b] \in Blocks
      BY <1>3, ReplaceFacts
    <2> QED
      BY <2>1, <2>2, <2>3, <2>4, <1>4
  <1>7. CASE i < Len(s) /\ End(b) = n.offset
    <2> DEFINE m == Grown(b, n.size)
               w == Without(s, i + 1)
    <2>1. i + 1 \in DOMAIN s /\ n \in Block /\ n.offset \in Nat /\ n.size \in Nat
      BY <1>1, <1>7
    <2>2. ExtendUp(s, i, size) = Without([s EXCEPT ![i] = m], i + 1)
      BY <1>7 DEF ExtendUp, b
    <2>3. m \in Block /\ m.offset = s[i].offset /\ m.size = s[i].size + size + n.size
      BY <1>1, <1>3, <2>1 DEF Block, Grown
    <2> HIDE DEF m
    <2>4. /\ w \in Blocks /\ DOMAIN w = 1 .. Len(s) - 1 /\ Len(w) = Len(s) - 1
          /\ i \in DOMAIN w /\ w[i] = s[i]
          /\ Separate(w)
          /\ \A x \in Nat : CoveredBy(w, x) <=> CoveredBy(s, x) /\ ~Covers(n, x)
      <3>1. w \in Blocks /\ DOMAIN w = 1 .. Len(s) - 1
        BY <2>1, WithoutFacts
      <3>2. Len(w) = Len(s) - 1
        BY <1>1 DEF Without
      <3>3. i \in 1 .. Len(s) - 1 /\ i < i + 1
        BY <1>1, <1>7, <2>1
      <3>4. i \in DOMAIN w /\ w[i] = s[i]
        BY <3>1, <3>3 DEF Without
      <3> QED
        BY <3>1, <3>2, <3>4, <2>1, WithoutCovers
    <2>5. Without([s EXCEPT ![i] = m], i + 1) = [w EXCEPT ![i] = m]
      <3> DEFINE u == [s EXCEPT ![i] = m]
      <3>1. /\ u \in Blocks /\ Len(u) = Len(s) /\ DOMAIN u = DOMAIN s
            /\ \A j \in DOMAIN s : u[j] = IF j = i THEN m ELSE s[j]
        BY <2>3, ReplaceFacts
      <3> HIDE DEF u
      <3>2. \A j \in 1 .. Len(s) - 1 :
               Without(u, i + 1)[j] = IF j = i THEN m ELSE Without(s, i + 1)[j]
        BY <3>1, <1>1, <1>7 DEF Without
      <3>3. Without(u, i + 1) = [j \in 1 .. Len(s) - 1 |-> Without(u, i + 1)[j]]
        BY <3>1 DEF Without
      <3>4. [w EXCEPT ![i] = m] = [j \in 1 .. Len(s) - 1 |-> IF j = i THEN m ELSE w[j]]
        BY <2>4
      <3> HIDE DEF w
      <3>5. Without(u, i + 1) = [w EXCEPT ![i] = m]
        BY <3>2, <3>3, <3>4 DEF w
      <3> QED
        BY <3>5 DEF u
    <2>7. \A x \in Nat : Covers(m, x) <=> Covers(s[i], x) \/ Within(x, offset, size) \/ Covers(n, x)
      <3>1. End(s[i]) + size = n.offset
        BY <1>1, <1>3, <1>7 DEF End
      <3> QED
        BY <1>1, <2>1, <2>3, <3>1, SMTT(60) DEF Covers, End, Within
    <2>8. \A j \in DOMAIN w : \A x \in Nat : j # i => ~(Covers(m, x) /\ Covers(w[j], x))
      <3> SUFFICES ASSUME NEW j \in DOMAIN w, NEW x \in Nat, j # i,
                          Covers(m, x), Covers(w[j], x)
                   PROVE  FALSE
        OBVIOUS
      <3>1. CoveredBy(w, x)
        BY DEF CoveredBy
      <3>2. CoveredBy(s, x) /\ ~Covers(n, x)
        BY <3>1, <2>4
      <3>3. Covers(w[i], x)
        BY <3>2, <2>4, <2>7
      <3> QED
        BY <3>3, <2>4 DEF Separate
    <2>9. /\ Separate([w EXCEPT ![i] = m])
          /\ \A x \in Nat : CoveredBy([w EXCEPT ![i] = m], x) <=>
                Covers(m, x) \/ (CoveredBy(w, x) /\ ~Covers(w[i], x))
      BY <2>3, <2>4, <2>8, ReplaceCovers
    <2>10. \A x \in Nat : Covers(s[i], x) \/ Covers(n, x) => CoveredBy(s, x)
      BY <2>1 DEF CoveredBy
    <2>11. ExtendUp(s, i, size) = [w EXCEPT ![i] = m]
      BY <2>2, <2>5
    <2>12. [w EXCEPT ![i] = m] \in Blocks
      BY <2>3, <2>4, ReplaceFacts
    <2> HIDE DEF w
    <2> QED
      BY <2>4, <2>7, <2>9, <2>10, <2>11, <2>12
  <1> QED
    BY <1>6, <1>7

(* The range released in front of block i, no block ending where it starts. *)
LEMMA ExtendDownCovers ==
  ASSUME NEW s \in Blocks, Separate(s), NEW offset \in Nat, NEW size \in Nat,
         \A x \in Nat : Within(x, offset, size) => ~CoveredBy(s, x),
         NEW i \in DOMAIN s, offset + size = s[i].offset,
         \A j \in DOMAIN s : j < i => End(s[j]) # offset
  PROVE  /\ ExtendDown(s, i, offset, size) = [s EXCEPT ![i] = [offset |-> offset, size |-> s[i].size + size]]
         /\ ExtendDown(s, i, offset, size) \in Blocks
         /\ Separate(ExtendDown(s, i, offset, size))
         /\ \A x \in Nat : CoveredBy(ExtendDown(s, i, offset, size), x) <=>
                CoveredBy(s, x) \/ Within(x, offset, size)
  <1> DEFINE b == [offset |-> offset, size |-> s[i].size + size]
  <1>1. /\ Len(s) \in Nat /\ DOMAIN s = 1 .. Len(s)
        /\ \A j \in DOMAIN s : /\ s[j] \in Block /\ s[j].offset \in Nat /\ s[j].size \in Nat
    BY BlocksFacts
  <1>2. ExtendDown(s, i, offset, size) = [s EXCEPT ![i] = b]
    <2>1. ~(i > 1 /\ End(s[i - 1]) = offset)
      BY <1>1
    <2> QED
      BY <2>1 DEF ExtendDown
  <1>3. b \in Block
    BY <1>1 DEF Block
  <1>4. \A x \in Nat : Covers(b, x) <=> Covers(s[i], x) \/ Within(x, offset, size)
    BY <1>1 DEF Covers, End, Within
  <1> HIDE DEF b
  <1>5. \A j \in DOMAIN s : \A x \in Nat : j # i => ~(Covers(b, x) /\ Covers(s[j], x))
    BY <1>4 DEF Separate, CoveredBy
  <1>6. /\ Separate([s EXCEPT ![i] = b])
        /\ \A x \in Nat : CoveredBy([s EXCEPT ![i] = b], x) <=>
              Covers(b, x) \/ (CoveredBy(s, x) /\ ~Covers(s[i], x))
    BY <1>3, <1>5, ReplaceCovers
  <1>7. \A x \in Nat : Covers(s[i], x) => CoveredBy(s, x)
    BY DEF CoveredBy
  <1>8. [s EXCEPT ![i] = b] \in Blocks
    BY <1>3, ReplaceFacts
  <1>9. ExtendDown(s, i, offset, size) = [s EXCEPT ![i] = [offset |-> offset, size |-> s[i].size + size]]
    BY <1>2 DEF b
  <1> QED
    BY <1>2, <1>4, <1>6, <1>7, <1>8, <1>9

(* A release adds its range, and nothing else, to what the list covers.    *)
LEMMA ReleasedCovers ==
  ASSUME NEW s \in Blocks, Separate(s), NEW offset \in Nat, NEW size \in Nat,
         \A x \in Nat : Within(x, offset, size) => ~CoveredBy(s, x)
  PROVE  /\ Released(s, offset, size) \in Blocks
         /\ Separate(Released(s, offset, size))
         /\ \A x \in Nat : CoveredBy(Released(s, offset, size), x) <=>
                CoveredBy(s, x) \/ Within(x, offset, size)
  <1> DEFINE T == Touching(s, offset, size)
             i == CHOOSE j \in T : \A l \in T : j <= l
             b == [offset |-> offset, size |-> size]
             pos == CHOOSE j \in 1 .. Len(s) + 1 :
                        /\ \A l \in 1 .. j - 1 : s[l].offset < offset
                        /\ j <= Len(s) => s[j].offset >= offset
  <1>1. CASE T = {}
    <2>1. Released(s, offset, size) = WithAt(s, pos, b)
      BY <1>1 DEF Released, Inserted
    <2>2. pos \in 1 .. Len(s) + 1
      BY InsertPosition
    <2>3. b \in Block /\ \A x \in Nat : Covers(b, x) <=> Within(x, offset, size)
      BY DEF Block, Covers, End, Within
    <2> HIDE DEF b, pos
    <2>4. WithAt(s, pos, b) \in Blocks
      BY <2>2, <2>3, WithAtFacts
    <2>5. /\ Separate(WithAt(s, pos, b))
          /\ \A x \in Nat : CoveredBy(WithAt(s, pos, b), x) <=> CoveredBy(s, x) \/ Covers(b, x)
      BY <2>2, <2>3, WithAtCovers
    <2> QED
      BY <2>1, <2>3, <2>4, <2>5
  <1>2. CASE T # {}
    <2>1. T \subseteq DOMAIN s /\ DOMAIN s \subseteq Nat
      BY BlocksFacts DEF Touching
    <2>2. i \in T /\ \A l \in T : i <= l
      <3>1. \E j \in T : \A l \in T : j <= l
        <4> HIDE DEF T
        <4> QED
          BY <1>2, <2>1, LeastExists
      <3> HIDE DEF T
      <3> QED
        BY <3>1
    <2>3. Released(s, offset, size) = IF End(s[i]) = offset THEN ExtendUp(s, i, size)
                                      ELSE ExtendDown(s, i, offset, size)
      BY <1>2 DEF Released
    <2> HIDE DEF i
    <2>4. i \in DOMAIN s /\ (End(s[i]) = offset \/ offset + size = s[i].offset)
      BY <2>1, <2>2 DEF Touching
    <2>5. \A j \in DOMAIN s : j < i => End(s[j]) # offset
      BY <2>1, <2>2, <2>4 DEF Touching
    <2> HIDE DEF T, b, pos
    <2>6. CASE End(s[i]) = offset
      <3>1. Released(s, offset, size) = ExtendUp(s, i, size)
        BY <2>3, <2>6
      <3> QED
        BY <2>4, <2>6, <3>1, ExtendUpCovers
    <2>7. CASE End(s[i]) # offset
      <3>1. Released(s, offset, size) = ExtendDown(s, i, offset, size) /\ offset + size = s[i].offset
        BY <2>3, <2>4, <2>7
      <3> QED
        BY <2>4, <2>5, <3>1, ExtendDownCovers
    <2> QED
      BY <2>6, <2>7
  <1> QED
    BY <1>1, <1>2
-----------------------------------------------------------------------------
(* The search of ggml_dyn_tallocr_alloc.                                   *)

Chunks == Seq(Chunk)

(* The types of the list of chunks and of its members. *)
LEMMA ChunksFacts ==
  ASSUME NEW cs \in Chunks
  PROVE  /\ Len(cs) \in Nat
         /\ DOMAIN cs = 1 .. Len(cs)
         /\ cs \in [1 .. Len(cs) -> Chunk]
         /\ \A k \in DOMAIN cs : /\ cs[k] \in Chunk
                                 /\ cs[k].blocks \in Blocks
                                 /\ cs[k].max_size \in Nat
  <1>1. /\ Len(cs) \in Nat /\ DOMAIN cs = 1 .. Len(cs)
        /\ cs \in [1 .. Len(cs) -> Chunk]
    BY LenProperties DEF Chunks
  <1>2. ASSUME NEW c \in Chunk PROVE c.blocks \in Blocks /\ c.max_size \in Nat
    BY DEF Chunk, Blocks
  <1> QED
    BY <1>1, <1>2

(* Where several blocks fit, there is a best one.                          *)
LEMMA BestFitFacts ==
  ASSUME NEW c \in Chunk, NEW size \in Nat, Fitting(c, size) # {}
  PROVE  BestFit(c, size) \in Fitting(c, size)
  <1> DEFINE F == Fitting(c, size)
             s == c.blocks
             M == {s[j].size : j \in F}
  <1>1. s \in Blocks
    BY DEF Chunk, Blocks
  <1> HIDE DEF s
  <1>11. /\ Len(s) \in Nat /\ DOMAIN s = 1 .. Len(s)
         /\ \A j \in DOMAIN s : s[j].size \in Nat
    BY <1>1, BlocksFacts
  <1>2. F \subseteq DOMAIN s /\ F # {}
    BY <1>11 DEF Fitting, s
  <1> HIDE DEF F
  <1>3. PICK m \in M : \A n \in M : m <= n
    <2>1. M \subseteq Nat /\ M # {}
      BY <1>11, <1>2
    <2> HIDE DEF M
    <2> QED
      BY <2>1, LeastExists
  <1> DEFINE G == {j \in F : s[j].size = m}
  <1>4. PICK i \in G : \A j \in G : j <= i
    <2>1. G \subseteq 0 .. Len(s) /\ G # {} /\ Len(s) \in Nat
      BY <1>11, <1>2
    <2> HIDE DEF G
    <2> QED
      BY <2>1, GreatestExists
  <1>41. m \in Nat /\ \A j \in F : m <= s[j].size /\ s[j].size \in Nat
    BY <1>11, <1>2, <1>3
  <1>42. i \in F /\ s[i].size = m /\ \A j \in F : s[j].size = m => j <= i
    BY <1>4
  <1>5. i \in F /\ \A j \in F : \/ s[i].size < s[j].size
                                \/ s[i].size = s[j].size /\ j <= i
    BY <1>41, <1>42
  <1> QED
    BY <1>5 DEF BestFit, F, s

(* Where several chunks can be extended, there is a best one.              *)
LEMMA BestReuseFacts ==
  ASSUME NEW cs \in Chunks, NEW size \in Nat, Extensible(cs, size) # {}
  PROVE  BestReuse(cs, size) \in Extensible(cs, size)
  <1> DEFINE E == Extensible(cs, size)
             r(k) == ReuseFactor(cs[k], size)
             P == {k \in E : r(k) >= 0}
             better(k, l) == IF r(k) >= 0 /\ r(l) >= 0 THEN r(k) < r(l) ELSE r(l) < r(k)
  <1>1. E \subseteq DOMAIN cs /\ DOMAIN cs \subseteq Nat /\ E # {}
    BY ChunksFacts DEF Extensible
  <1>2. \A k \in E : r(k) \in Int
    <2> SUFFICES ASSUME NEW k \in E PROVE r(k) \in Int
      OBVIOUS
    <2>1. cs[k].blocks \in Blocks /\ cs[k].max_size \in Nat /\ cs[k].blocks # <<>>
      BY ChunksFacts DEF Extensible
    <2>2. Len(cs[k].blocks) \in DOMAIN cs[k].blocks
      BY <2>1, BlocksFacts, EmptySeq DEF Blocks
    <2>3. LastBlock(cs[k]).offset \in Nat
      BY <2>1, <2>2, BlocksFacts DEF LastBlock
    <2> QED
      BY <2>1, <2>3 DEF ReuseFactor
  <1> HIDE DEF E, r
  <1>3. ASSUME NEW v, NEW k \in E, r(k) = v
        PROVE  \E i \in E : r(i) = v /\ \A l \in E : r(l) = v => i <= l
    <2> DEFINE K == {l \in E : r(l) = v}
    <2>1. K \subseteq Nat /\ K # {}
      BY <1>1, <1>3
    <2>2. PICK i \in K : \A l \in K : i <= l
      <3> HIDE DEF K
      <3> QED
        BY <2>1, LeastExists
    <2> QED
      BY <2>2
  <1>4. \E k \in E : \A l \in E : better(k, l) \/ (r(k) = r(l) /\ k <= l)
    <2>1. CASE P # {}
      <3> DEFINE R == {r(k) : k \in P}
      <3>1. PICK v \in R : \A w \in R : v <= w
        <4>1. R \subseteq Nat /\ R # {}
          BY <1>2, <2>1
        <4> HIDE DEF R
        <4> QED
          BY <4>1, LeastExists
      <3>2. PICK k \in E : r(k) = v /\ \A l \in E : r(l) = v => k <= l
        BY <1>3
      <3>3. \A l \in E : r(l) >= 0 => v <= r(l)
        BY <3>1
      <3>4. v >= 0 /\ v \in Int
        BY <1>2
      <3> QED
        BY <3>2, <3>3, <3>4, <1>2
    <2>2. CASE P = {}
      <3> DEFINE R == {0 - r(k) : k \in E}
      <3>1. PICK u \in R : \A w \in R : u <= w
        <4>1. \A k \in E : 0 - r(k) \in Nat
          BY <1>2, <2>2
        <4>2. R \subseteq Nat /\ R # {}
          BY <1>1, <4>1
        <4> HIDE DEF R
        <4> QED
          BY <4>2, LeastExists
      <3>2. PICK k0 \in E : u = 0 - r(k0)
        OBVIOUS
      <3>3. PICK k \in E : r(k) = r(k0) /\ \A l \in E : r(l) = r(k0) => k <= l
        BY <1>3
      <3>4. \A l \in E : r(l) < 0
        BY <1>2, <2>2
      <3>5. \A l \in E : u <= 0 - r(l)
        BY <3>1
      <3>6. \A l \in E : r(l) <= r(k0)
        BY <1>2, <3>2, <3>5
      <3> QED
        BY <3>3, <3>4, <3>6, <1>2
    <2> QED
      BY <2>1, <2>2
  <1> QED
    BY <1>4 DEF BestReuse, E, r

(* Every address below a covered one is covered. *)
Downward(s) == \A x, y \in Nat : CoveredBy(s, x) /\ y <= x => CoveredBy(s, y)

(* A new chunk is one free block that is large enough. *)
LEMMA NewChunkFacts ==
  ASSUME NEW n \in Nat, NEW size \in Nat, size <= Huge
  PROVE  /\ NewChunk(n, size) \in Chunk
         /\ NewChunk(n, size).max_size = 0
         /\ DOMAIN NewChunk(n, size).blocks = {1}
         /\ size <= NewChunk(n, size).blocks[1].size
         /\ Separate(NewChunk(n, size).blocks)
         /\ Downward(NewChunk(n, size).blocks)
  <1> DEFINE b == [offset |-> 0, size |-> IF n = MaxChunks - 1 THEN Huge
                                          ELSE IF size > MaxChunkSize THEN size ELSE MaxChunkSize]
  <1>1. NewChunk(n, size) = [blocks |-> <<b>>, max_size |-> 0]
    BY DEF NewChunk
  <1>2. b \in Block /\ b.offset = 0 /\ size <= b.size
    BY ChunksAssumption DEF Block
  <1> HIDE DEF b
  <1>3. <<b>> \in Seq(Block) /\ DOMAIN <<b>> = {1} /\ <<b>>[1] = b
    BY <1>2
  <1>4. Separate(<<b>>)
    BY <1>3 DEF Separate
  <1>5. Downward(<<b>>)
    BY <1>2, <1>3 DEF Downward, CoveredBy, Covers, End, Block
  <1> QED
    BY <1>1, <1>2, <1>3, <1>4, <1>5 DEF Chunk

(* Where an allocation is placed: in a chunk that was there or in a new    *)
(* one, at the front of a block that has room.                             *)
LEMMA PlaceFacts ==
  ASSUME NEW cs \in Chunks, NEW size \in Nat, size <= Huge
  PROVE  LET p == Place(cs, size)
             old == p.chunks = cs /\ p.k \in DOMAIN cs
             new == /\ p.chunks = Append(cs, NewChunk(Len(cs), size))
                    /\ p.k = Len(cs) + 1
         IN  /\ old \/ new
             /\ p.i \in DOMAIN p.chunks[p.k].blocks
             /\ size <= p.chunks[p.k].blocks[p.i].size
  <1> DEFINE p == Place(cs, size)
             fit == {k \in DOMAIN cs : Fitting(cs[k], size) # {}}
             last == CHOOSE k \in fit : \A l \in fit : l <= k
             best == BestReuse(cs, size)
  <1>1. Len(cs) \in Nat /\ DOMAIN cs = 1 .. Len(cs)
    BY ChunksFacts
  <1>2. CASE fit # {}
    <2>1. last \in fit
      <3>1. fit \subseteq 0 .. Len(cs)
        BY <1>1
      <3> HIDE DEF fit
      <3>2. \E k \in fit : \A l \in fit : l <= k
        BY <1>1, <1>2, <3>1, GreatestExists
      <3> QED
        BY <3>2
    <2>2. p.chunks = cs /\ p.k = last /\ p.i = BestFit(cs[last], size)
      BY <1>2 DEF Place
    <2> HIDE DEF last, p
    <2>3. last \in DOMAIN cs /\ cs[last] \in Chunk /\ Fitting(cs[last], size) # {}
      BY <2>1, ChunksFacts
    <2>4. p.i \in Fitting(cs[last], size)
      BY <2>2, <2>3, BestFitFacts
    <2>5. p.i \in DOMAIN cs[last].blocks /\ size <= cs[last].blocks[p.i].size
      <3>1. cs[last].blocks \in Blocks
        BY <2>3, ChunksFacts
      <3>2. p.i \in 1 .. Len(cs[last].blocks) - 1 /\ cs[last].blocks[p.i].size >= size
        BY <2>4 DEF Fitting
      <3>3. p.i \in DOMAIN cs[last].blocks
        BY <3>1, <3>2, BlocksFacts
      <3> QED
        BY <3>1, <3>2, <3>3, BlocksFacts
    <2> QED
      BY <2>2, <2>3, <2>5 DEF p
  <1>3. CASE fit = {} /\ Extensible(cs, size) # {}
    <2>1. p.chunks = cs /\ p.k = best /\ p.i = Len(cs[best].blocks)
      BY <1>3 DEF Place
    <2>2. best \in Extensible(cs, size)
      BY <1>3, BestReuseFacts
    <2> HIDE DEF best, p
    <2>3. /\ best \in DOMAIN cs /\ cs[best].blocks \in Blocks
          /\ cs[best].blocks # <<>> /\ LastBlock(cs[best]).size >= size
      BY <2>2, ChunksFacts DEF Extensible
    <2>4. p.i \in DOMAIN cs[best].blocks
      BY <2>1, <2>3, BlocksFacts, EmptySeq DEF Blocks
    <2>5. size <= cs[best].blocks[p.i].size
      BY <2>1, <2>3, <2>4, BlocksFacts DEF LastBlock
    <2> QED
      BY <2>1, <2>3, <2>4, <2>5 DEF p
  <1>4. CASE fit = {} /\ Extensible(cs, size) = {}
    <2>1. /\ p.chunks = Append(cs, NewChunk(Len(cs), size))
          /\ p.k = Len(cs) + 1 /\ p.i = 1
      BY <1>4 DEF Place
    <2>2. NewChunk(Len(cs), size) \in Chunk
      BY <1>1, NewChunkFacts
    <2>3. p.chunks[p.k] = NewChunk(Len(cs), size)
      BY <2>1, <2>2, AppendProperties DEF Chunks
    <2> HIDE DEF p
    <2> QED
      BY <2>1, <2>3, <1>1, NewChunkFacts DEF p
  <1> QED
    BY <1>2, <1>3, <1>4

(* What an allocation changes: one chunk c, taken from the list or new.    *)
Allocated(cs, size, c, i) ==
    LET a == AllocAddress(cs, size)
        new == AfterAlloc(cs, size)
    IN  /\ size <= c.blocks[i].size
        /\ a.offset = c.blocks[i].offset
        /\ new[a.chunk] = Take(c, i, size)
        /\ \/ a.chunk \in DOMAIN cs /\ c = cs[a.chunk] /\ DOMAIN new = DOMAIN cs
           \/ /\ a.chunk \notin DOMAIN cs /\ DOMAIN new = DOMAIN cs \union {a.chunk}
              /\ c = NewChunk(Len(cs), size) /\ c.max_size = 0 /\ Downward(c.blocks)
        /\ \A k \in DOMAIN new \ {a.chunk} : k \in DOMAIN cs /\ new[k] = cs[k]

(* What an allocation returns and which chunk it changes. *)
LEMMA AllocFacts ==
  ASSUME NEW cs \in Chunks, NEW size \in Nat, size <= Huge,
         \A k \in DOMAIN cs : Separate(cs[k].blocks)
  PROVE  /\ AllocAddress(cs, size).chunk \in Nat \ {0}
         /\ AllocAddress(cs, size).offset \in Nat
         /\ AfterAlloc(cs, size) \in Chunks
         /\ \E c \in Chunk : \E i \in DOMAIN c.blocks :
                Separate(c.blocks) /\ Allocated(cs, size, c, i)
  <1> DEFINE p == Place(cs, size)
             c == p.chunks[p.k]
             a == AllocAddress(cs, size)
             new == AfterAlloc(cs, size)
  <1>1. /\ \/ p.chunks = cs /\ p.k \in DOMAIN cs
           \/ p.chunks = Append(cs, NewChunk(Len(cs), size)) /\ p.k = Len(cs) + 1
        /\ p.i \in DOMAIN c.blocks
        /\ size <= c.blocks[p.i].size
    BY PlaceFacts
  <1>2. a = [chunk |-> p.k, offset |-> c.blocks[p.i].offset]
    BY DEF AllocAddress
  <1>3. new = [p.chunks EXCEPT ![p.k] = Take(c, p.i, size)]
    BY DEF AfterAlloc
  <1> HIDE DEF p
  <1>4. Len(cs) \in Nat /\ DOMAIN cs = 1 .. Len(cs)
    BY ChunksFacts
  <1>5. NewChunk(Len(cs), size) \in Chunk
    BY <1>4, NewChunkFacts
  <1>6. /\ p.chunks \in Chunks /\ p.k \in DOMAIN p.chunks
        /\ c \in Chunk /\ Separate(c.blocks)
        /\ \/ p.k \in DOMAIN cs /\ c = cs[p.k] /\ DOMAIN p.chunks = DOMAIN cs
           \/ /\ p.k \notin DOMAIN cs /\ DOMAIN p.chunks = DOMAIN cs \union {p.k}
              /\ c = NewChunk(Len(cs), size) /\ c.max_size = 0 /\ Downward(c.blocks)
        /\ \A k \in DOMAIN p.chunks \ {p.k} : k \in DOMAIN cs /\ p.chunks[k] = cs[k]
    <2>1. CASE p.chunks = cs /\ p.k \in DOMAIN cs
      BY <2>1, ChunksFacts
    <2>2. CASE p.chunks = Append(cs, NewChunk(Len(cs), size)) /\ p.k = Len(cs) + 1
      <3>1. /\ p.chunks \in Chunks /\ Len(p.chunks) = Len(cs) + 1
            /\ \A k \in 1 .. Len(cs) : p.chunks[k] = cs[k]
            /\ c = NewChunk(Len(cs), size)
        BY <2>2, <1>5, AppendProperties DEF Chunks
      <3>2. DOMAIN p.chunks = 1 .. Len(cs) + 1
        BY <3>1, ChunksFacts
      <3>3. p.k \notin DOMAIN cs /\ DOMAIN p.chunks = DOMAIN cs \union {p.k}
        BY <2>2, <3>2, <1>4
      <3>4. c \in Chunk /\ Separate(c.blocks) /\ c.max_size = 0 /\ Downward(c.blocks)
        BY <3>1, <1>4, <1>5, NewChunkFacts
      <3>5. \A k \in DOMAIN p.chunks \ {p.k} : k \in DOMAIN cs /\ p.chunks[k] = cs[k]
        BY <3>1, <3>3, <1>4
      <3> HIDE DEF c
      <3> QED
        BY <3>1, <3>3, <3>4, <3>5
    <2> QED
      BY <1>1, <2>1, <2>2
  <1> HIDE DEF c
  <1>7. Take(c, p.i, size) \in Chunk
    BY <1>1, <1>6, TakeCovers
  <1>8. new \in Chunks /\ DOMAIN new = DOMAIN p.chunks
        /\ \A k \in DOMAIN new : new[k] = IF k = p.k THEN Take(c, p.i, size) ELSE p.chunks[k]
    <2>1. /\ Len(p.chunks) \in Nat /\ DOMAIN p.chunks = 1 .. Len(p.chunks)
          /\ p.chunks \in [1 .. Len(p.chunks) -> Chunk]
      BY <1>6, ChunksFacts
    <2>2. new \in [1 .. Len(p.chunks) -> Chunk] /\ DOMAIN new = DOMAIN p.chunks
      BY <1>3, <1>7, <2>1
    <2>3. new \in Chunks
      BY <2>1, <2>2, SeqDef DEF Chunks
    <2> QED
      BY <1>3, <2>2, <2>3
  <1>9. a.chunk = p.k /\ a.offset = c.blocks[p.i].offset
    BY <1>2
  <1> HIDE DEF a, new
  <1>10. a.chunk \in Nat \ {0} /\ a.offset \in Nat
    <2>1. p.k \in 1 .. Len(p.chunks) /\ c.blocks \in Blocks /\ Len(p.chunks) \in Nat
      BY <1>6, ChunksFacts DEF Chunk, Blocks
    <2> QED
      BY <1>1, <1>9, <2>1, BlocksFacts
  <1>11. Allocated(cs, size, c, p.i)
    BY <1>1, <1>6, <1>8, <1>9 DEF Allocated, a, new
  <1> QED
    BY <1>1, <1>6, <1>8, <1>10, <1>11 DEF a, new

(* What a release changes: the free list of one chunk.                     *)
LEMMA FreedFacts ==
  ASSUME NEW cs \in Chunks, \A k \in DOMAIN cs : Separate(cs[k].blocks),
         NEW addr, addr.chunk \in DOMAIN cs, addr.offset \in Nat, NEW size \in Nat,
         \A x \in Nat : Within(x, addr.offset, size) => ~CoveredBy(cs[addr.chunk].blocks, x)
  PROVE  LET new == AfterFree(cs, addr, size)
             k == addr.chunk
         IN  /\ new \in Chunks /\ DOMAIN new = DOMAIN cs
             /\ \A l \in DOMAIN cs \ {k} : new[l] = cs[l]
             /\ new[k].max_size = cs[k].max_size
             /\ new[k].blocks = Released(cs[k].blocks, addr.offset, size)
             /\ Separate(new[k].blocks)
             /\ \A x \in Nat : CoveredBy(new[k].blocks, x) <=>
                    CoveredBy(cs[k].blocks, x) \/ Within(x, addr.offset, size)
  <1> DEFINE k == addr.chunk
             c == cs[k]
             r == Released(c.blocks, addr.offset, size)
             new == AfterFree(cs, addr, size)
  <1>1. /\ Len(cs) \in Nat /\ DOMAIN cs = 1 .. Len(cs) /\ cs \in [1 .. Len(cs) -> Chunk]
        /\ c \in Chunk /\ c.blocks \in Blocks /\ c.max_size \in Nat
    BY ChunksFacts
  <1>2. /\ r \in Blocks /\ Separate(r)
        /\ \A x \in Nat : CoveredBy(r, x) <=> CoveredBy(c.blocks, x) \/ Within(x, addr.offset, size)
    BY <1>1, ReleasedCovers
  <1>3. new = [cs EXCEPT ![k] = [c EXCEPT !.blocks = r]]
    BY DEF AfterFree
  <1> HIDE DEF new, r
  <1>4. [c EXCEPT !.blocks = r] \in Chunk /\ [c EXCEPT !.blocks = r].blocks = r
        /\ [c EXCEPT !.blocks = r].max_size = c.max_size
    BY <1>1, <1>2 DEF Chunk, Blocks
  <1> DEFINE d == [c EXCEPT !.blocks = r]
  <1> HIDE DEF d
  <1>5. /\ new \in [1 .. Len(cs) -> Chunk] /\ DOMAIN new = DOMAIN cs
        /\ new[k] = d /\ \A l \in DOMAIN cs \ {k} : new[l] = cs[l]
    BY <1>1, <1>3, <1>4 DEF d
  <1>6. new \in Chunks
    BY <1>1, <1>5, SeqDef DEF Chunks
  <1> QED
    BY <1>2, <1>4, <1>5, <1>6 DEF new, d, r
-----------------------------------------------------------------------------
(* Sizes in bytes, aligned.                                                *)

(* An aligned size is a size, and none where none was asked for. *)
LEMMA AlignedType ==
  ASSUME NEW size \in Nat
  PROVE  Aligned(size) \in Nat /\ (size # 0 => Aligned(size) # 0)
  <1> DEFINE q == (size + Alignment - 1) \div Alignment
  <1>1. q \in Nat /\ (size # 0 => q # 0)
    BY AlignmentAssumption
  <1>2. Aligned(size) = Alignment * q
    BY DEF Aligned
  <1> HIDE DEF q
  <1> QED
    BY <1>1, <1>2, AlignmentAssumption

(* Aligning keeps the order of sizes. *)
LEMMA AlignedMonotone ==
  ASSUME NEW a \in Nat, NEW b \in Nat, a <= b
  PROVE  Aligned(a) <= Aligned(b)
  <1> DEFINE q(size) == (size + Alignment - 1) \div Alignment
  <1>1. q(a) \in Nat /\ q(b) \in Nat
    BY AlignmentAssumption
  <1>2. q(a) <= q(b)
    BY AlignmentAssumption
  <1>3. Aligned(a) = Alignment * q(a) /\ Aligned(b) = Alignment * q(b)
    BY DEF Aligned
  <1> HIDE DEF q
  <1>4. PICK d \in Nat : q(b) = q(a) + d
    <2>1. q(b) - q(a) \in Nat /\ q(b) = q(a) + (q(b) - q(a))
      BY <1>1, <1>2
    <2> QED
      BY <2>1
  <1>5. Alignment * q(b) = Alignment * q(a) + Alignment * d
    BY <1>1, <1>4, AlignmentAssumption
  <1>6. Alignment * d \in Nat /\ Alignment * q(a) \in Nat
    BY <1>1, AlignmentAssumption
  <1> QED
    BY <1>3, <1>5, <1>6
-----------------------------------------------------------------------------
(* Ranges handed out: mem[t] is the range that holder t has.               *)

MemRange == [chunk : Nat \ {0}, offset : Nat, size : Nat]

(* Every range lies within max_size, and no address of it is free or       *)
(* another holder's.                                                       *)
Sound(cs, mem) ==
    /\ cs \in Chunks
    /\ \A k \in DOMAIN cs : Separate(cs[k].blocks)
    /\ \A t \in DOMAIN mem :
          /\ mem[t] \in MemRange
          /\ mem[t].chunk \in DOMAIN cs /\ End(mem[t]) <= cs[mem[t].chunk].max_size
    /\ \A t \in DOMAIN mem : \A x \in Nat : Covers(mem[t], x) =>
          /\ ~CoveredBy(cs[mem[t].chunk].blocks, x)
          /\ \A u \in DOMAIN mem :
                mem[u].chunk = mem[t].chunk /\ Covers(mem[u], x) => u = t

(* No chunk is dropped, and what is claimed of one stays claimed. *)
Kept(cs, new) ==
    \A k \in DOMAIN cs : k \in DOMAIN new /\ cs[k].max_size <= new[k].max_size

(* The parts of a range. *)
LEMMA RangeFacts ==
  ASSUME NEW r \in MemRange
  PROVE  /\ r.chunk \in Nat \ {0} /\ r.offset \in Nat /\ r.size \in Nat
         /\ End(r) \in Nat
         /\ r = [chunk |-> r.chunk, offset |-> r.offset, size |-> r.size]
  BY DEF MemRange, End

(* What is kept stays kept. *)
LEMMA KeptTransitive ==
  ASSUME NEW a \in Chunks, NEW b \in Chunks, NEW c \in Chunks, Kept(a, b), Kept(b, c)
  PROVE  Kept(a, c)
  <1> SUFFICES ASSUME NEW k \in DOMAIN a
               PROVE  k \in DOMAIN c /\ a[k].max_size <= c[k].max_size
    BY DEF Kept
  <1>1. /\ k \in DOMAIN b /\ a[k].max_size <= b[k].max_size
        /\ k \in DOMAIN c /\ b[k].max_size <= c[k].max_size
    BY DEF Kept
  <1>2. a[k].max_size \in Nat /\ b[k].max_size \in Nat /\ c[k].max_size \in Nat
    BY <1>1, ChunksFacts
  <1> QED
    BY <1>1, <1>2

(* An allocation hands out a range that was nobody's.                      *)
LEMMA AllocSound ==
  ASSUME NEW cs, NEW mem, Sound(cs, mem), NEW size \in Nat, size <= Huge,
         NEW t, t \notin DOMAIN mem,
         NEW mem2, DOMAIN mem2 = DOMAIN mem \union {t},
         \A u \in DOMAIN mem : mem2[u] = mem[u],
         mem2[t] = [chunk |-> AllocAddress(cs, size).chunk,
                    offset |-> AllocAddress(cs, size).offset, size |-> size]
  PROVE  /\ Sound(AfterAlloc(cs, size), mem2)
         /\ Kept(cs, AfterAlloc(cs, size))
  <1> DEFINE a == AllocAddress(cs, size)
             new == AfterAlloc(cs, size)
             r == [chunk |-> a.chunk, offset |-> a.offset, size |-> size]
  <1>1. cs \in Chunks /\ \A k \in DOMAIN cs : Separate(cs[k].blocks)
    BY DEF Sound
  <1>2. /\ a.chunk \in Nat \ {0} /\ a.offset \in Nat /\ new \in Chunks
        /\ \E c \in Chunk : \E i \in DOMAIN c.blocks :
               Separate(c.blocks) /\ Allocated(cs, size, c, i)
    BY <1>1, AllocFacts
  <1>3. PICK c \in Chunk : \E i \in DOMAIN c.blocks :
            Separate(c.blocks) /\ Allocated(cs, size, c, i)
    BY <1>2
  <1> PICK i \in DOMAIN c.blocks : Separate(c.blocks) /\ Allocated(cs, size, c, i)
    BY <1>3
  <1> DEFINE d == Take(c, i, size)
  <1>4. /\ size <= c.blocks[i].size
        /\ a.offset = c.blocks[i].offset
        /\ new[a.chunk] = d
        /\ \/ a.chunk \in DOMAIN cs /\ c = cs[a.chunk] /\ DOMAIN new = DOMAIN cs
           \/ /\ a.chunk \notin DOMAIN cs /\ DOMAIN new = DOMAIN cs \union {a.chunk}
              /\ c.max_size = 0
        /\ \A k \in DOMAIN new \ {a.chunk} : k \in DOMAIN cs /\ new[k] = cs[k]
    BY DEF Allocated
  <1>5. /\ Separate(d.blocks)
        /\ \A x \in Nat : CoveredBy(d.blocks, x) <=>
               CoveredBy(c.blocks, x) /\ ~Within(x, a.offset, size)
        /\ d.max_size >= c.max_size
        /\ d.max_size >= a.offset + size
    BY <1>4, TakeCovers
  <1>6. /\ r \in MemRange
        /\ r.chunk = a.chunk /\ r.offset = a.offset /\ r.size = size /\ End(r) = a.offset + size
        /\ \A x \in Nat : Covers(r, x) <=> Within(x, a.offset, size)
    BY <1>2 DEF MemRange, End, Covers, Within
  <1>7. \A x \in Nat : Within(x, a.offset, size) => CoveredBy(c.blocks, x)
    <2>1. c.blocks \in Blocks
      BY DEF Chunk, Blocks
    <2>2. c.blocks[i].size \in Nat /\ c.blocks[i].offset \in Nat
      BY <2>1, BlocksFacts
    <2> QED
      BY <1>4, <2>2 DEF Within, CoveredBy, Covers, End
  <1>8. mem2[t] = r
    OBVIOUS
  <1> HIDE DEF a, r, d, new
  <1>9. /\ \A k \in DOMAIN cs : cs[k] \in Chunk /\ cs[k].max_size \in Nat
        /\ \A k \in DOMAIN new : new[k] \in Chunk /\ new[k].max_size \in Nat
        /\ c.max_size \in Nat
        /\ a.chunk \in DOMAIN new
    BY <1>1, <1>2, <1>4, ChunksFacts DEF Chunk
  <1>10. Kept(cs, new)
    <2> SUFFICES ASSUME NEW k \in DOMAIN cs
                 PROVE  k \in DOMAIN new /\ cs[k].max_size <= new[k].max_size
      BY DEF Kept
    <2>1. CASE k = a.chunk
      BY <2>1, <1>4, <1>5, <1>9
    <2>2. CASE k # a.chunk
      BY <2>2, <1>4, <1>9
    <2> QED
      BY <2>1, <2>2
  <1>11. ASSUME NEW u \in DOMAIN mem
         PROVE  /\ u # t /\ mem2[u] = mem[u] /\ mem[u] \in MemRange
                /\ mem[u].chunk \in DOMAIN cs /\ End(mem[u]) <= cs[mem[u].chunk].max_size
    BY DEF Sound
  <1>12. ASSUME NEW u \in DOMAIN mem2
         PROVE  /\ mem2[u] \in MemRange
                /\ mem2[u].chunk \in DOMAIN new /\ End(mem2[u]) <= new[mem2[u].chunk].max_size
    <2>1. CASE u = t
      BY <2>1, <1>4, <1>5, <1>6, <1>8, <1>9
    <2>2. CASE u \in DOMAIN mem
      <3>1. End(mem[u]) \in Nat
        BY <2>2, <1>11, RangeFacts
      <3>2. /\ mem[u].chunk \in DOMAIN new
            /\ cs[mem[u].chunk].max_size <= new[mem[u].chunk].max_size
        BY <2>2, <1>10, <1>11 DEF Kept
      <3>3. cs[mem[u].chunk].max_size \in Nat /\ new[mem[u].chunk].max_size \in Nat
        BY <2>2, <3>2, <1>9, <1>11
      <3> QED
        BY <2>2, <3>1, <3>2, <3>3, <1>11
    <2> QED
      BY <2>1, <2>2
  <1>13. ASSUME NEW u \in DOMAIN mem, NEW x \in Nat, Covers(mem[u], x)
         PROVE  /\ ~CoveredBy(cs[mem[u].chunk].blocks, x)
                /\ mem[u].chunk = a.chunk => ~Within(x, a.offset, size)
    <2>1. ~CoveredBy(cs[mem[u].chunk].blocks, x)
      BY <1>13 DEF Sound
    <2> QED
      BY <2>1, <1>4, <1>7, <1>11
  <1>14. ASSUME NEW u \in DOMAIN mem2, NEW x \in Nat, Covers(mem2[u], x)
         PROVE  ~CoveredBy(new[mem2[u].chunk].blocks, x)
    <2>1. CASE u = t
      BY <2>1, <1>14, <1>4, <1>5, <1>6, <1>8
    <2>2. CASE u \in DOMAIN mem /\ mem[u].chunk = a.chunk
      <3>1. Covers(mem[u], x) /\ mem2[u].chunk = a.chunk
        BY <2>2, <1>11, <1>14
      <3>2. ~CoveredBy(cs[a.chunk].blocks, x) /\ c = cs[a.chunk]
        BY <2>2, <3>1, <1>4, <1>11, <1>13
      <3> QED
        BY <3>1, <3>2, <1>4, <1>5
    <2>3. CASE u \in DOMAIN mem /\ mem[u].chunk # a.chunk
      <3>1. Covers(mem[u], x) /\ mem2[u].chunk = mem[u].chunk
        BY <2>3, <1>11, <1>14
      <3>2. new[mem[u].chunk] = cs[mem[u].chunk]
        BY <2>3, <1>4, <1>10, <1>11 DEF Kept
      <3> QED
        BY <2>3, <3>1, <3>2, <1>13
    <2> QED
      BY <2>1, <2>2, <2>3
  <1>15. ASSUME NEW u \in DOMAIN mem2, NEW v \in DOMAIN mem2, NEW x \in Nat,
                mem2[v].chunk = mem2[u].chunk, Covers(mem2[u], x), Covers(mem2[v], x)
         PROVE  v = u
    <2>1. CASE u \in DOMAIN mem /\ v \in DOMAIN mem
      BY <2>1, <1>11, <1>15 DEF Sound
    <2>2. CASE u = t /\ v \in DOMAIN mem
      BY <2>2, <1>6, <1>8, <1>11, <1>13, <1>15
    <2>3. CASE u \in DOMAIN mem /\ v = t
      BY <2>3, <1>6, <1>8, <1>11, <1>13, <1>15
    <2> QED
      BY <2>1, <2>2, <2>3
  <1>16. \A k \in DOMAIN new : Separate(new[k].blocks)
    BY <1>1, <1>4, <1>5
  <1>17. Sound(new, mem2)
    BY <1>2, <1>12, <1>14, <1>15, <1>16 DEF Sound
  <1> QED
    BY <1>10, <1>17 DEF new

(* Holder t keeps the first bytes of its range, or nothing at all.         *)
Shortened(mem, new, t, keep) ==
    /\ \/ keep = 0 /\ DOMAIN new = DOMAIN mem \ {t}
       \/ /\ DOMAIN new = DOMAIN mem
          /\ new[t] = [chunk |-> mem[t].chunk, offset |-> mem[t].offset, size |-> keep]
    /\ \A u \in DOMAIN mem \ {t} : new[u] = mem[u]

(* A release of a whole range, or of its end: the other holders keep what  *)
(* they have.                                                              *)
LEMMA FreeSound ==
  ASSUME NEW cs, NEW mem, Sound(cs, mem), NEW t \in DOMAIN mem,
         NEW keep \in Nat, NEW size \in Nat, keep + size = mem[t].size,
         NEW addr, addr.chunk = mem[t].chunk, addr.offset = mem[t].offset + keep,
         NEW mem2, Shortened(mem, mem2, t, keep)
  PROVE  /\ Sound(AfterFree(cs, addr, size), mem2)
         /\ Kept(cs, AfterFree(cs, addr, size))
  <1> DEFINE new == AfterFree(cs, addr, size)
             k == addr.chunk
             r == [chunk |-> mem[t].chunk, offset |-> mem[t].offset, size |-> keep]
  <1>1. cs \in Chunks /\ \A l \in DOMAIN cs : Separate(cs[l].blocks)
    BY DEF Sound
  <1>2. /\ mem[t] \in MemRange /\ mem[t].chunk \in DOMAIN cs
        /\ mem[t].offset \in Nat /\ mem[t].size \in Nat /\ mem[t].chunk \in Nat \ {0}
        /\ End(mem[t]) <= cs[mem[t].chunk].max_size
    BY RangeFacts DEF Sound
  <1>3. addr.chunk \in DOMAIN cs /\ addr.offset \in Nat
    BY <1>2
  <1>4. \A x \in Nat : Within(x, addr.offset, size) => Covers(mem[t], x)
    BY <1>2 DEF Within, Covers, End
  <1>5. \A x \in Nat : Within(x, addr.offset, size) => ~CoveredBy(cs[addr.chunk].blocks, x)
    BY <1>4 DEF Sound
  <1>6. /\ new \in Chunks /\ DOMAIN new = DOMAIN cs
        /\ \A l \in DOMAIN cs \ {k} : new[l] = cs[l]
        /\ new[k].max_size = cs[k].max_size
        /\ Separate(new[k].blocks)
        /\ \A x \in Nat : CoveredBy(new[k].blocks, x) <=>
               CoveredBy(cs[k].blocks, x) \/ Within(x, addr.offset, size)
    BY <1>1, <1>3, <1>5, FreedFacts
  <1>7. /\ r \in MemRange /\ r.chunk = mem[t].chunk /\ r.offset = mem[t].offset /\ r.size = keep
        /\ \A x \in Nat : Covers(r, x) => Covers(mem[t], x) /\ ~Within(x, addr.offset, size)
        /\ End(r) <= End(mem[t])
    BY <1>2 DEF MemRange, Covers, End, Within
  <1>8. \A u \in DOMAIN mem2 : u \in DOMAIN mem /\ mem2[u] = IF u = t THEN r ELSE mem[u]
    BY DEF Shortened
  <1> HIDE DEF new, k, r
  <1>9. \A l \in DOMAIN cs : cs[l].max_size \in Nat /\ new[l].max_size = cs[l].max_size
    BY <1>1, <1>6, ChunksFacts
  <1>10. Kept(cs, new)
    BY <1>6, <1>9 DEF Kept
  <1>11. ASSUME NEW u \in DOMAIN mem2
         PROVE  /\ mem2[u] \in MemRange
                /\ mem2[u].chunk \in DOMAIN new /\ End(mem2[u]) <= new[mem2[u].chunk].max_size
                /\ mem2[u].chunk = mem[u].chunk
                /\ \A x \in Nat : Covers(mem2[u], x) => Covers(mem[u], x)
    <2>1. CASE u = t
      <3>1. mem2[u] = r
        BY <2>1, <1>8
      <3>2. End(r) \in Nat /\ End(mem[t]) \in Nat
        BY <1>2, <1>7, RangeFacts
      <3> QED
        BY <2>1, <3>1, <3>2, <1>2, <1>6, <1>7, <1>9
    <2>2. CASE u # t
      <3>1. mem2[u] = mem[u] /\ u \in DOMAIN mem
        BY <2>2, <1>8
      <3> QED
        BY <3>1, <1>6, <1>9 DEF Sound
    <2> QED
      BY <2>1, <2>2
  <1>12. ASSUME NEW u \in DOMAIN mem2, NEW x \in Nat, Covers(mem2[u], x)
         PROVE  ~CoveredBy(new[mem2[u].chunk].blocks, x)
    <2>1. u \in DOMAIN mem /\ Covers(mem[u], x) /\ ~CoveredBy(cs[mem[u].chunk].blocks, x)
      BY <1>8, <1>11, <1>12 DEF Sound
    <2>2. mem[u].chunk = k => ~Within(x, addr.offset, size)
      <3>1. CASE u = t
        BY <3>1, <1>7, <1>8, <1>12
      <3>2. CASE u # t /\ mem[u].chunk = k
        <4>1. ~Covers(mem[t], x)
          BY <3>2, <2>1 DEF Sound, k
        <4> QED
          BY <4>1, <1>4
      <3> QED
        BY <3>1, <3>2
    <2>3. mem[u].chunk \in DOMAIN cs
      BY <2>1 DEF Sound
    <2> QED
      BY <2>1, <2>2, <2>3, <1>6, <1>11
  <1>13. ASSUME NEW u \in DOMAIN mem2, NEW v \in DOMAIN mem2, NEW x \in Nat,
                mem2[v].chunk = mem2[u].chunk, Covers(mem2[u], x), Covers(mem2[v], x)
         PROVE  v = u
    BY <1>8, <1>11, <1>13 DEF Sound
  <1>14. \A l \in DOMAIN new : Separate(new[l].blocks)
    BY <1>1, <1>6
  <1>15. Sound(new, mem2)
    BY <1>6, <1>11, <1>12, <1>13, <1>14 DEF Sound
  <1> QED
    BY <1>10, <1>15 DEF new

(* A release of a whole range. *)
LEMMA FreeWholeSound ==
  ASSUME NEW cs, NEW mem, Sound(cs, mem), NEW t \in DOMAIN mem,
         NEW addr, addr.chunk = mem[t].chunk, addr.offset = mem[t].offset,
         NEW mem2, DOMAIN mem2 = DOMAIN mem \ {t},
         \A u \in DOMAIN mem \ {t} : mem2[u] = mem[u]
  PROVE  /\ Sound(AfterFree(cs, addr, mem[t].size), mem2)
         /\ Kept(cs, AfterFree(cs, addr, mem[t].size))
  <1> DEFINE size == mem[t].size
  <1>1. size \in Nat /\ 0 \in Nat /\ 0 + size = mem[t].size /\ addr.offset = mem[t].offset + 0
    BY DEF Sound, MemRange
  <1>2. Shortened(mem, mem2, t, 0)
    BY DEF Shortened
  <1> HIDE DEF size
  <1>3. /\ Sound(AfterFree(cs, addr, size), mem2)
        /\ Kept(cs, AfterFree(cs, addr, size))
    BY <1>1, <1>2, FreeSound
  <1> QED
    BY <1>3 DEF size

(* A range that goes over to another holder. *)
LEMMA RenameSound ==
  ASSUME NEW cs, NEW mem, Sound(cs, mem), NEW p \in DOMAIN mem, NEW t, t \notin DOMAIN mem,
         NEW mem2, DOMAIN mem2 = (DOMAIN mem \ {p}) \union {t}, mem2[t] = mem[p],
         \A u \in DOMAIN mem \ {p} : mem2[u] = mem[u]
  PROVE  Sound(cs, mem2)
  <1> DEFINE old(u) == IF u = t THEN p ELSE u
  <1>1. \A u \in DOMAIN mem2 : old(u) \in DOMAIN mem /\ mem2[u] = mem[old(u)]
    OBVIOUS
  <1>2. \A u, v \in DOMAIN mem2 : old(u) = old(v) => u = v
    OBVIOUS
  <1> HIDE DEF old
  <1> QED
    BY <1>1, <1>2 DEF Sound

(* Fewer holders. *)
LEMMA FewerSound ==
  ASSUME NEW cs, NEW mem, Sound(cs, mem), NEW mem2, DOMAIN mem2 \subseteq DOMAIN mem,
         \A u \in DOMAIN mem2 : mem2[u] = mem[u]
  PROVE  Sound(cs, mem2)
  BY DEF Sound
=============================================================================
