----------------------------- MODULE BatchProofs -----------------------------
(***************************************************************************)
(* What the batch program prints, for recordings of any length, any        *)
(* windows and steps, and any answers of the networks: the votes reach the *)
(* frames they are about, and sorting and joining the segments loses and   *)
(* invents nothing; and what its clusterings compute is agglomerative      *)
(* clustering by definition.                                               *)
(*                                                                         *)
(* The first argument does not look at the clustering: the labels may be   *)
(* any.  It follows the segments: those printed lie behind those still     *)
(* pending, speaker by speaker, so that joining with the segment printed   *)
(* last never swallows a pause that is too long nor another segment.       *)
(*                                                                         *)
(* The second is about sums.  Lists are added up from the left, the        *)
(* definition adds over sets in any order, and simple_ahc adds sums of     *)
(* sums; all of them are Sum(F, S), the sum over a finite set, which is    *)
(* unique and splits over disjoint parts.  With it the lists of clusters   *)
(* and the forest of trees are, from merge to merge, partitions whose      *)
(* distances are those of the definition.                                  *)
(***************************************************************************)
EXTENDS Batch, TLAPS, FiniteSetTheorems, WellFoundedInduction

Embedding == [chunk : Nat, slot : Slots, point : Points]

(* The frames on which more than half of the voters for g are active.      *)
HeardNow ==
    [g \in Speakers |->
        {t \in 0 .. GridFrames - 1 :
            2 * Cardinality({v \in Voters(g, t) : Active(v, t)}) > Cardinality(Voters(g, t))}]

BaseInv ==
    /\ length \in Nat
    /\ predictions \in Seq([Slots -> Patterns])
    /\ embeddings \in Seq(Embedding)
    /\ stage = "print" => heard = HeardNow

(* A segment that covers one stretch of frames in S and touches no other.  *)
IsStretch(S, seg) ==
    /\ 0 <= seg.start /\ seg.start < seg.end
    /\ seg.start .. seg.end - 1 \subseteq S
    /\ seg.start - 1 \notin S /\ seg.end \notin S

(* A segment that begins and ends in S and bridges short pauses only.      *)
IsJoined(S, seg) ==
    /\ seg.start < seg.end
    /\ {seg.start, seg.end - 1} \subseteq S
    /\ \A t \in seg.start .. seg.end - Gap : t .. t + Gap - 1 \intersect S # {}

Segment == [start : Int, end : Int, speaker : Speakers]

In(t, seg) == seg.start <= t /\ t < seg.end

PendingInv == \A seg \in pending : seg \in Segment /\ IsStretch(heard[seg.speaker], seg)

PrintedInv ==
    /\ printed \in Seq(Segment)
    /\ \A k \in DOMAIN printed : IsJoined(heard[printed[k].speaker], printed[k])
    /\ \A k, l \in DOMAIN printed :
          k < l => /\ printed[k].start <= printed[l].start
                   /\ printed[k].speaker = printed[l].speaker => printed[k].end <= printed[l].start

(* What is printed lies before what is pending. *)
BehindInv ==
    \A k \in DOMAIN printed : \A seg \in pending :
        /\ printed[k].start <= seg.start
        /\ printed[k].speaker = seg.speaker => printed[k].end < seg.start

(* Nothing that was heard is lost. *)
NothingLost ==
    \A g \in Speakers : \A t \in heard[g] :
        \/ \E k \in DOMAIN printed : printed[k].speaker = g /\ In(t, printed[k])
        \/ \E seg \in pending : seg.speaker = g /\ In(t, seg)

PrintInv ==
    /\ stage # "print" => printed = << >>
    /\ stage = "print" => PendingInv /\ PrintedInv /\ BehindInv /\ NothingLost

BatchInv == BaseInv /\ PrintInv
-----------------------------------------------------------------------------
(* Numbers, lists and stretches.                                           *)

(* The constants. *)
LEMMA Parameters ==
  /\ Window \in Nat /\ Step \in Nat \ {0} /\ Gap \in Nat \ {0} /\ NSlots \in Nat
  /\ FrameDuration \in Nat \ {0} /\ NumFrames \in Nat
  /\ Lengths \subseteq Nat /\ \A l \in Lengths : MaxEmbeddings[l] \in Nat
  BY BatchAssumption

(* Integer division. *)
LEMMA Quotient ==
  ASSUME NEW a \in Int, NEW d \in Nat \ {0}
  PROVE  /\ a \div d \in Int
         /\ d * (a \div d) \in Int
         /\ d * (a \div d) <= a /\ a < d * (a \div d) + d
  OBVIOUS

(* Multiplying by a number that is not negative keeps the order. *)
LEMMA Monotonic ==
  ASSUME NEW a \in Int, NEW b \in Int, NEW c \in Nat, a <= b
  PROVE  a * c <= b * c
  OBVIOUS

(* The grid has the frames that begin within the recording. *)
LEMMA GridFacts ==
  ASSUME length \in Nat
  PROVE  /\ GridFrames \in Nat
         /\ \A t \in Nat : t < GridFrames <=> FrameDuration * t < length
  <1> DEFINE d == FrameDuration
             a == length + d - 1
             q == a \div d
  <1>1. d \in Nat \ {0} /\ a \in Nat
    BY Parameters
  <1>2. q \in Int /\ d * q \in Int /\ d * q <= a /\ a < d * q + d
    <2> HIDE DEF a, d
    <2> QED
      BY <1>1, Quotient
  <1>3. GridFrames = q
    BY DEF GridFrames
  <1>4. a = length + d - 1
    OBVIOUS
  <1> HIDE DEF d, a, q
  <1>5. q \in Nat
    <2> SUFFICES ASSUME q + 1 <= 0 PROVE FALSE
      BY <1>2
    <2>1. (q + 1) * d <= 0 * d
      BY <1>1, <1>2, Monotonic
    <2>2. d * q + d <= 0
      BY <1>1, <1>2, <2>1
    <2> QED
      BY <1>1, <1>2, <2>2
  <1>6. ASSUME NEW t \in Nat, t < q PROVE d * t < length
    <2>1. (t + 1) * d <= q * d
      BY <1>1, <1>5, <1>6, Monotonic
    <2>2. d * t + d <= d * q /\ d * t \in Int
      BY <1>1, <1>5, <2>1
    <2> QED
      BY <1>1, <1>2, <1>4, <2>2
  <1>7. ASSUME NEW t \in Nat, q <= t PROVE ~(d * t < length)
    <2>1. q * d <= t * d
      BY <1>1, <1>5, <1>7, Monotonic
    <2>2. d * q <= d * t /\ d * t \in Int
      BY <1>1, <1>5, <2>1
    <2> QED
      BY <1>1, <1>2, <1>4, <2>2
  <1> QED
    BY <1>3, <1>5, <1>6, <1>7 DEF d

(* Natural numbers have a least one. *)
LEMMA Least ==
  ASSUME NEW T, T \subseteq Nat, T # {}
  PROVE  \E m \in T : \A k \in T : m <= k
  <1> DEFINE R == {p \in Nat \X Nat : p[1] < p[2]}
  <1>1. IsWellFoundedOn(R, Nat)
    BY NatLessThanWellFounded DEF OpToRel
  <1>2. \E m \in T : \A k \in T : ~(<<k, m>> \in R)
    <2> HIDE DEF R
    <2> QED
      BY <1>1, WFMin
  <1>3. PICK m \in T : \A k \in T : ~(k < m)
    BY <1>2
  <1> QED
    BY <1>3

(* Numbers up to a bound have a greatest one. *)
LEMMA Greatest ==
  ASSUME NEW n \in Nat, NEW T, T \subseteq 1 .. n, T # {}
  PROVE  \E m \in T : \A k \in T : k <= m
  <1> DEFINE U == {n - k : k \in T}
  <1>1. U \subseteq Nat /\ U # {}
    <2>1. \A k \in T : n - k \in Nat
      OBVIOUS
    <2>2. PICK k \in T : TRUE
      OBVIOUS
    <2>3. n - k \in U
      OBVIOUS
    <2> QED
      BY <2>1, <2>3
  <1>2. PICK u \in U : \A k \in U : u <= k
    <2> HIDE DEF U
    <2> QED
      BY <1>1, Least
  <1>3. PICK m \in T : u = n - m
    OBVIOUS
  <1>4. ASSUME NEW k \in T PROVE k <= m
    <2>1. n - k \in U
      OBVIOUS
    <2>2. n - m <= n - k /\ m \in Int /\ k \in Int
      BY <2>1, <1>2, <1>3
    <2> HIDE DEF U
    <2> QED
      BY ONLY <2>2, n \in Nat
  <1> QED
    BY <1>4

(* The longest stretch around a frame: a scan of the frames finds it. *)
LEMMA StretchAround ==
  ASSUME NEW n \in Nat, NEW S \in SUBSET (0 .. n - 1), NEW t \in S
  PROVE  \E r \in Stretches(S, n) : r[1] <= t /\ t < r[2]
  <1> DEFINE A == {a \in 0 .. t : a .. t \subseteq S}
             B == {b \in t + 1 .. n : b = n \/ b \notin S}
  <1>0. t \in Nat /\ t < n
    OBVIOUS
  <1>1. PICK a \in A : \A k \in A : a <= k
    <2>1. A \subseteq Nat /\ t \in A
      BY <1>0
    <2> HIDE DEF A
    <2> QED
      BY <2>1, Least
  <1>2. PICK b \in B : \A k \in B : b <= k
    <2>1. B \subseteq Nat /\ n \in B
      BY <1>0
    <2> HIDE DEF B
    <2> QED
      BY <2>1, Least
  <1>3. a \in 0 .. t /\ a .. t \subseteq S /\ b \in t + 1 .. n /\ (b = n \/ b \notin S)
    OBVIOUS
  <1>4. a - 1 \notin S
    <2> SUFFICES ASSUME a - 1 \in S PROVE FALSE
      OBVIOUS
    <2>1. a - 1 \in 0 .. t
      BY <1>3
    <2>2. a - 1 .. t \subseteq S
      BY <1>3
    <2>3. a <= a - 1
      BY <2>1, <2>2, <1>1
    <2> QED
      BY <2>3, <1>3
  <1>5. \A x \in t + 1 .. b - 1 : x \in S
    <2> SUFFICES ASSUME NEW x \in t + 1 .. b - 1, x \notin S PROVE FALSE
      OBVIOUS
    <2>1. x \in B
      BY <1>0, <1>3
    <2>2. b <= x
      BY <2>1, <1>2
    <2> QED
      BY <2>2, <1>3
  <1> HIDE DEF A, B
  <1>6. a .. b - 1 \subseteq S
    BY <1>0, <1>3, <1>5
  <1>7. <<a, b>> \in (0 .. n - 1) \X (1 .. n)
    BY <1>0, <1>3
  <1>8. <<a, b>>[1] = a /\ <<a, b>>[2] = b /\ a < b
    BY <1>0, <1>3
  <1>9. <<a, b>> \in Stretches(S, n)
    BY <1>3, <1>4, <1>6, <1>7, <1>8 DEF Stretches
  <1> QED
    BY <1>0, <1>3, <1>8, <1>9

(* Two stretches of one set are the same or lie apart. *)
LEMMA StretchesApart ==
  ASSUME NEW S, NEW x, NEW y, x.start \in Int, x.end \in Int, y.start \in Int, y.end \in Int,
         IsStretch(S, x), IsStretch(S, y), x.start <= y.start
  PROVE  (x.start = y.start /\ x.end = y.end) \/ x.end < y.start
  <1>1. CASE x.start = y.start
    <2>1. ~(x.end < y.end)
      <3> SUFFICES ASSUME x.end < y.end PROVE FALSE
        OBVIOUS
      <3>1. x.end \in y.start .. y.end - 1
        BY <1>1 DEF IsStretch
      <3> QED
        BY <3>1 DEF IsStretch
    <2>2. ~(y.end < x.end)
      <3> SUFFICES ASSUME y.end < x.end PROVE FALSE
        OBVIOUS
      <3>1. y.end \in x.start .. x.end - 1
        BY <1>1 DEF IsStretch
      <3> QED
        BY <3>1 DEF IsStretch
    <2> QED
      BY <1>1, <2>1, <2>2
  <1>2. CASE x.start < y.start
    <2> SUFFICES ASSUME y.start <= x.end PROVE FALSE
      BY <1>2
    <2>1. y.start - 1 \in x.start .. x.end - 1
      BY <1>2
    <2> QED
      BY <2>1 DEF IsStretch
  <1> QED
    BY <1>1, <1>2
-----------------------------------------------------------------------------
(* Votes.                                                                  *)

(* The slots of the chunks are finitely many. *)
LEMMA VotersFinite ==
  ASSUME BaseInv, NEW V, V \subseteq (DOMAIN predictions) \X Slots
  PROVE  IsFiniteSet(V) /\ Cardinality(V) \in Nat /\ (V # {} <=> Cardinality(V) # 0)
  <1>1. Len(predictions) \in Nat /\ DOMAIN predictions = 1 .. Len(predictions)
    BY DEF BaseInv
  <1>2. IsFiniteSet(DOMAIN predictions) /\ IsFiniteSet(Slots)
    BY <1>1, Parameters, FS_Interval DEF Slots
  <1>3. IsFiniteSet((DOMAIN predictions) \X Slots)
    BY <1>2, FS_Product
  <1>4. IsFiniteSet(V)
    BY <1>3, FS_Subset
  <1> QED
    BY <1>4, FS_CardinalityType, FS_EmptySet

(* A slot votes for the label of its last embedding: for one of its labels *)
(* at any rate, and for the only one when there is but one.                *)
LEMMA AssignedFacts ==
  ASSUME BaseInv, NEW v
  PROVE  /\ Assigned(v[1], v[2]) \subseteq LabelsOf(v)
         /\ \A g : LabelsOf(v) = {g} => g \in Assigned(v[1], v[2])
  <1> DEFINE T == Of(v[1], v[2])
  <1>1. CASE linkage = "none"
    BY <1>1 DEF Assigned, LabelsOf
  <1>2. CASE linkage # "none"
    <2>1. Assigned(v[1], v[2]) = {labels[i] : i \in {j \in T : \A k \in T : k <= j}}
      BY <1>2 DEF Assigned
    <2>2. LabelsOf(v) = {labels[i] : i \in T}
      BY <1>2 DEF LabelsOf, Of
    <2>3. Len(embeddings) \in Nat /\ T \subseteq 1 .. Len(embeddings)
      BY DEF BaseInv, Of
    <2> HIDE DEF T
    <2>4. ASSUME NEW g, LabelsOf(v) = {g} PROVE g \in Assigned(v[1], v[2])
      <3>1. T # {}
        BY <2>2, <2>4
      <3>2. PICK m \in T : \A k \in T : k <= m
        BY <2>3, <3>1, Greatest
      <3>3. labels[m] = g
        BY <2>2, <2>4
      <3> QED
        BY <2>1, <3>2, <3>3
    <2> QED
      BY <2>1, <2>2, <2>4
  <1> QED
    BY <1>1, <1>2

(* The middle of a frame of a chunk lies in the frame of the recording     *)
(* that rounding the start of the chunk takes it to, and in no other.      *)
LEMMA MiddleFacts ==
  ASSUME NEW c \in Nat \ {0}, NEW k \in Int, NEW t \in Int
  PROVE  MiddleIn(c, k, t) <=> FrameIn(c, t) = k
  <1> DEFINE s == Step * (c - 1)
             d == 2 * FrameDuration
             q == (2 * s + FrameDuration) \div d
  <1>1. s \in Int /\ d \in Nat \ {0} /\ 2 * s + FrameDuration \in Int
    BY Parameters
  <1>2. q \in Int /\ d * q \in Int /\ d * q <= 2 * s + FrameDuration
        /\ 2 * s + FrameDuration < d * q + d
    <2> DEFINE a == 2 * s + FrameDuration
    <2>1. a \in Int /\ d \in Nat \ {0}
      BY <1>1
    <2> HIDE DEF a, d
    <2> QED
      BY <2>1, Quotient DEF a
  <1>3. FrameIn(c, t) = t - q
    <2>1. 2 * Step * (c - 1) = 2 * s
      BY Parameters
    <2> QED
      BY <2>1 DEF FrameIn, StartFrame
  <1>4. MiddleIn(c, k, t) <=> /\ d * t <= 2 * s + d * k + FrameDuration
                              /\ 2 * s + d * k + FrameDuration < d * t + d
    <2>1. 2 * (s + k * FrameDuration) = 2 * s + d * k
      BY <1>1, Parameters
    <2>2. 2 * FrameDuration * (t + 1) = d * t + d /\ 2 * FrameDuration * t = d * t
      BY Parameters
    <2>3. d * k \in Int /\ d * t \in Int /\ FrameDuration \in Int
      BY <1>1, Parameters
    <2> DEFINE x == 2 * (s + k * FrameDuration)
               y == 2 * FrameDuration * t
               z == 2 * FrameDuration * (t + 1)
    <2>4. MiddleIn(c, k, t) <=> x + FrameDuration \in y .. z - 1
      BY DEF MiddleIn
    <2>5. x = 2 * s + d * k /\ y = d * t /\ z = d * t + d
      BY <2>1, <2>2
    <2> HIDE DEF x, y, z, s, d
    <2> QED
      BY <1>1, <2>3, <2>4, <2>5
  <1> HIDE DEF s, d, q
  <1>5. d * (q + k) = d * q + d * k /\ d * k \in Int /\ d * t \in Int /\ FrameDuration \in Int
    BY <1>1, <1>2, Parameters
  <1>6. ASSUME t = q + k PROVE MiddleIn(c, k, t)
    BY <1>1, <1>2, <1>4, <1>5, <1>6
  <1>7. ASSUME t < q + k PROVE ~MiddleIn(c, k, t)
    <2>1. (t + 1) * d <= (q + k) * d
      BY <1>1, <1>2, <1>7, Monotonic
    <2>2. d * t + d <= d * q + d * k
      BY <1>1, <1>2, <1>5, <2>1
    <2> QED
      BY <1>1, <1>2, <1>4, <1>5, <2>2
  <1>8. ASSUME q + k < t PROVE ~MiddleIn(c, k, t)
    <2>1. (q + k + 1) * d <= t * d
      BY <1>1, <1>2, <1>8, Monotonic
    <2>2. d * q + d * k + d <= d * t
      BY <1>1, <1>2, <1>5, <2>1
    <2> QED
      BY <1>1, <1>2, <1>4, <1>5, <2>2
  <1> QED
    BY <1>2, <1>3, <1>6, <1>7, <1>8

(* A slot that votes at a frame speaks there or is silent there, and only  *)
(* such slots vote.                                                        *)
LEMMA VoteFacts ==
  ASSUME BaseInv, NEW v \in (DOMAIN predictions) \X Slots, NEW t \in Int
  PROVE  /\ Speaks(v, t) <=> FrameIn(v[1], t) \in 0 .. NumFrames - 1 /\ Active(v, t)
         /\ Silent(v, t) <=> FrameIn(v[1], t) \in 0 .. NumFrames - 1 /\ ~Active(v, t)
  <1>1. v[1] \in Nat \ {0} /\ predictions[v[1]][v[2]] \subseteq 0 .. NumFrames - 1
    <2>1. predictions[v[1]] \in [Slots -> Patterns] /\ v[1] \in Nat \ {0}
      BY DEF BaseInv
    <2> QED
      BY <2>1, BatchAssumption
  <1>2. \A k \in 0 .. NumFrames - 1 : MiddleIn(v[1], k, t) <=> FrameIn(v[1], t) = k
    <2> TAKE k \in 0 .. NumFrames - 1
    <2>1. k \in Int
      BY Parameters
    <2> QED
      BY <1>1, <2>1, MiddleFacts
  <1> QED
    BY <1>1, <1>2 DEF Speaks, Silent, Active

(* Of the voters more speak than are silent.  Those that speak may have    *)
(* other labels besides; a slot without other labels votes for certain.    *)
LEMMA VotesAttributed == BaseInv => SpeechAttributed
  <1> DEFINE slots == (DOMAIN predictions) \X Slots
             perhaps(g) == {v \in slots : g \in LabelsOf(v)}
             surely(g) == {v \in slots : LabelsOf(v) = {g}}
  <1>1. ASSUME BaseInv, stage = "print", NEW g \in Speakers,
               NEW t \in 0 .. length, FrameDuration * t < length
        PROVE  /\ t \in heard[g] => Cardinality({v \in perhaps(g) : Speaks(v, t)})
                                      > Cardinality({v \in surely(g) : Silent(v, t)})
               /\ Cardinality({v \in surely(g) : Speaks(v, t)})
                     > Cardinality({v \in perhaps(g) : Silent(v, t)}) => t \in heard[g]
    <2> DEFINE V == Voters(g, t)
               A == {v \in V : Active(v, t)}
               B == V \ A
               X == {v \in perhaps(g) : Speaks(v, t)}
               Y == {v \in surely(g) : Silent(v, t)}
               Z == {v \in surely(g) : Speaks(v, t)}
               W == {v \in perhaps(g) : Silent(v, t)}
    <2>1. t \in Int /\ t \in 0 .. GridFrames - 1
      <3>1. length \in Nat /\ t \in Nat
        BY <1>1 DEF BaseInv
      <3> QED
        BY <1>1, <3>1, GridFacts
    <2>2. \A v \in slots : /\ Speaks(v, t) <=> FrameIn(v[1], t) \in 0 .. NumFrames - 1 /\ Active(v, t)
                           /\ Silent(v, t) <=> FrameIn(v[1], t) \in 0 .. NumFrames - 1 /\ ~Active(v, t)
      BY <1>1, <2>1, VoteFacts
    <2>3. \A v \in slots : /\ g \in Assigned(v[1], v[2]) => g \in LabelsOf(v)
                           /\ LabelsOf(v) = {g} => g \in Assigned(v[1], v[2])
      BY <1>1, AssignedFacts
    <2>4. V = {v \in slots : FrameIn(v[1], t) \in 0 .. NumFrames - 1 /\ g \in Assigned(v[1], v[2])}
      BY DEF Voters
    <2>5. A \subseteq X /\ Y \subseteq B /\ Z \subseteq A /\ B \subseteq W
      BY <2>2, <2>3, <2>4
    <2>6. t \in heard[g] <=> 2 * Cardinality(A) > Cardinality(V)
      BY <1>1, <2>1 DEF BaseInv, HeardNow
    <2>7. V \subseteq slots /\ X \subseteq slots /\ W \subseteq slots /\ B \subseteq slots /\ A \subseteq slots
      BY <2>4
    <2>8. /\ IsFiniteSet(A) /\ IsFiniteSet(B) /\ IsFiniteSet(X) /\ IsFiniteSet(W)
          /\ Cardinality(A) \in Nat /\ Cardinality(B) \in Nat
      <3> HIDE DEF A, B, X, W, V
      <3> QED
        BY <1>1, <2>7, VotersFinite
    <2>9. Cardinality(V) = Cardinality(A) + Cardinality(B)
      <3>1. A \cap B = {} /\ V = A \cup B
        OBVIOUS
      <3> HIDE DEF A, B, V
      <3>2. Cardinality(A \cup B) = Cardinality(A) + Cardinality(B) - Cardinality(A \cap B)
        BY <2>8, FS_Union
      <3>3. Cardinality({}) = 0
        BY FS_EmptySet
      <3>4. Cardinality(A \cap B) = 0
        BY <3>1, <3>3
      <3>5. Cardinality(V) = Cardinality(A \cup B)
        BY <3>1
      <3> QED
        BY <2>8, <3>2, <3>4, <3>5
    <2>10. /\ Cardinality(A) <= Cardinality(X) /\ Cardinality(Y) <= Cardinality(B)
           /\ Cardinality(Z) <= Cardinality(A) /\ Cardinality(B) <= Cardinality(W)
           /\ Cardinality(X) \in Nat /\ Cardinality(Y) \in Nat
           /\ Cardinality(Z) \in Nat /\ Cardinality(W) \in Nat
      <3> HIDE DEF A, B, X, Y, Z, W
      <3>0. Y \in SUBSET B /\ Z \in SUBSET A /\ A \in SUBSET X /\ B \in SUBSET W
        BY <2>5
      <3>1. IsFiniteSet(Y) /\ Cardinality(Y) <= Cardinality(B)
        BY <3>0, <2>8, FS_Subset
      <3>2. IsFiniteSet(Z) /\ Cardinality(Z) <= Cardinality(A)
        BY <3>0, <2>8, FS_Subset
      <3>3. Cardinality(A) <= Cardinality(X) /\ Cardinality(B) <= Cardinality(W)
        BY <3>0, <2>8, FS_Subset
      <3> QED
        BY <2>8, <3>1, <3>2, <3>3, FS_CardinalityType
    <2> HIDE DEF A, B, X, Y, Z, W, V
    <2>11. /\ t \in heard[g] => Cardinality(X) > Cardinality(Y)
           /\ Cardinality(Z) > Cardinality(W) => t \in heard[g]
      BY <2>6, <2>8, <2>9, <2>10
    <2> QED
      BY <2>11 DEF X, Y, Z, W
  <1> QED
    BY <1>1 DEF SpeechAttributed
-----------------------------------------------------------------------------
(* Printing.                                                               *)

(* Lists: what appending, and replacing the last element, make of one. *)
LEMMA ListFacts ==
  ASSUME NEW S, NEW s \in Seq(S), NEW x \in S
  PROVE  /\ Len(s) \in Nat /\ DOMAIN s = 1 .. Len(s) /\ \A k \in DOMAIN s : s[k] \in S
         /\ Append(s, x) \in Seq(S) /\ DOMAIN Append(s, x) = 1 .. Len(s) + 1
         /\ \A k \in 1 .. Len(s) + 1 : Append(s, x)[k] = IF k = Len(s) + 1 THEN x ELSE s[k]
         /\ s # << >> => /\ Len(s) \in DOMAIN s /\ Last(s) = s[Len(s)]
                         /\ Append(Front(s), x) \in Seq(S)
                         /\ DOMAIN Append(Front(s), x) = 1 .. Len(s)
                         /\ \A k \in 1 .. Len(s) :
                               Append(Front(s), x)[k] = IF k = Len(s) THEN x ELSE s[k]
  <1>1. /\ Len(s) \in Nat /\ DOMAIN s = 1 .. Len(s) /\ \A k \in DOMAIN s : s[k] \in S
        /\ Append(s, x) \in Seq(S) /\ DOMAIN Append(s, x) = 1 .. Len(s) + 1
        /\ \A k \in 1 .. Len(s) + 1 : Append(s, x)[k] = IF k = Len(s) + 1 THEN x ELSE s[k]
    OBVIOUS
  <1>2. ASSUME s # << >>
        PROVE  /\ Len(s) \in DOMAIN s /\ Last(s) = s[Len(s)]
               /\ Append(Front(s), x) \in Seq(S)
               /\ DOMAIN Append(Front(s), x) = 1 .. Len(s)
               /\ \A k \in 1 .. Len(s) :
                     Append(Front(s), x)[k] = IF k = Len(s) THEN x ELSE s[k]
    <2>1. Len(s) \in 1 .. Len(s) /\ Last(s) = s[Len(s)]
      BY <1>2 DEF Last
    <2> DEFINE f == Front(s)
    <2>2. f \in Seq(S) /\ Len(f) = Len(s) - 1 /\ \A k \in 1 .. Len(s) - 1 : f[k] = s[k]
      <3>1. f = SubSeq(s, 1, Len(s) - 1)
        BY DEF Front
      <3>2. Len(s) - 1 \in Nat /\ \A k \in 1 .. Len(s) - 1 : k \in 1 .. Len(s) /\ 1 + k - 1 = k
        BY <1>1, <2>1
      <3>3. f = [k \in 1 .. Len(s) - 1 |-> s[k]]
        BY <3>1, <3>2
      <3>4. f \in [1 .. Len(s) - 1 -> S]
        BY <1>1, <3>2, <3>3
      <3> HIDE DEF f
      <3>5. \A n \in Nat : \A q \in [1 .. n -> S] : q \in Seq(S) /\ Len(q) = n
        OBVIOUS
      <3> QED
        BY <3>2, <3>3, <3>4, <3>5
    <2> HIDE DEF f
    <2>3. /\ Append(f, x) \in Seq(S) /\ DOMAIN Append(f, x) = 1 .. Len(f) + 1
          /\ \A k \in 1 .. Len(f) + 1 : Append(f, x)[k] = IF k = Len(f) + 1 THEN x ELSE f[k]
      BY <2>2
    <2>4. Len(f) + 1 = Len(s)
      BY <1>1, <2>2
    <2>5. \A k \in 1 .. Len(s) : Append(f, x)[k] = IF k = Len(s) THEN x ELSE s[k]
      <3> SUFFICES ASSUME NEW k \in 1 .. Len(s)
                   PROVE  Append(f, x)[k] = IF k = Len(s) THEN x ELSE s[k]
        OBVIOUS
      <3>1. Append(f, x)[k] = IF k = Len(s) THEN x ELSE f[k]
        BY <2>3, <2>4
      <3>2. k # Len(s) => k \in 1 .. Len(s) - 1
        <4>1. Len(s) \in Nat
          OBVIOUS
        <4> QED
          BY ONLY <4>1, k \in 1 .. Len(s)
      <3> QED
        BY <3>1, <3>2, <2>2
    <2> QED
      BY <1>1, <2>1, <2>3, <2>4, <2>5 DEF f
  <1> QED
    BY <1>1, <1>2

(* A stretch bridges nothing at all. *)
LEMMA StretchIsJoined ==
  ASSUME NEW S, NEW seg, seg.start \in Int, seg.end \in Int, IsStretch(S, seg)
  PROVE  IsJoined(S, seg)
  <1>1. seg.start < seg.end /\ seg.start .. seg.end - 1 \subseteq S
    BY DEF IsStretch
  <1>2. {seg.start, seg.end - 1} \subseteq S
    BY <1>1
  <1>3. ASSUME NEW t \in seg.start .. seg.end - Gap PROVE t .. t + Gap - 1 \intersect S # {}
    <2>1. t \in t .. t + Gap - 1 /\ t \in seg.start .. seg.end - 1
      BY Parameters
    <2> QED
      BY <2>1, <1>1
  <1> QED
    BY <1>1, <1>2, <1>3 DEF IsJoined

(* Joining a segment with the stretch after it bridges the pause between   *)
(* them, which is shorter than Gap.                                        *)
LEMMA JoinedIsJoined ==
  ASSUME NEW S, NEW last, NEW seg, NEW m,
         last.start \in Int, last.end \in Int, seg.start \in Int, seg.end \in Int,
         IsJoined(S, last), IsStretch(S, seg), last.end < seg.start, seg.start - last.end < Gap,
         m.start = last.start, m.end = seg.end
  PROVE  IsJoined(S, m)
  <1>1. /\ seg.start < seg.end /\ seg.start .. seg.end - 1 \subseteq S
        /\ last.start < last.end /\ last.start \in S /\ last.end - 1 \in S
        /\ \A t \in last.start .. last.end - Gap : t .. t + Gap - 1 \intersect S # {}
    BY DEF IsStretch, IsJoined
  <1>2. Gap \in Nat \ {0}
    BY Parameters
  <1>3. m.start < m.end /\ m.start \in S /\ m.end - 1 \in S
    BY <1>1
  <1>4. ASSUME NEW t \in m.start .. m.end - Gap PROVE t .. t + Gap - 1 \intersect S # {}
    <2>0. t \in Int /\ last.start <= t /\ t + Gap <= seg.end
      BY <1>2
    <2>1. CASE t <= last.end - Gap
      <3>1. t \in last.start .. last.end - Gap
        BY <2>0, <2>1, <1>2
      <3> QED
        BY <3>1, <1>1
    <2>2. CASE last.end - Gap < t /\ t < last.end
      <3>1. last.end - 1 \in t .. t + Gap - 1
        BY <2>0, <2>2, <1>2
      <3> QED
        BY <3>1, <1>1
    <2>3. CASE last.end <= t /\ t < seg.start
      <3>1. seg.start \in t .. t + Gap - 1 /\ seg.start \in S
        BY <2>0, <2>3, <1>1, <1>2
      <3> QED
        BY <3>1
    <2>4. CASE seg.start <= t
      <3>1. t \in t .. t + Gap - 1 /\ t \in seg.start .. seg.end - 1
        BY <2>0, <2>4, <1>2
      <3> QED
        BY <3>1, <1>1
    <2> QED
      BY <2>0, <2>1, <2>2, <2>3, <2>4, <1>2
  <1> QED
    BY <1>3, <1>4 DEF IsJoined

(* The segments sort first, and what is left lies behind the one printed.  *)
LEMMA NextFacts ==
  ASSUME PendingInv, NEW seg \in pending, \A other \in pending : seg.start <= other.start
  PROVE  /\ seg \in Segment /\ seg.start \in Int /\ seg.end \in Int /\ seg.speaker \in Speakers
         /\ IsStretch(heard[seg.speaker], seg)
         /\ \A other \in pending \ {seg} :
               /\ seg.start <= other.start
               /\ seg.speaker = other.speaker => seg.end < other.start
  <1>1. /\ seg \in Segment /\ seg.start \in Int /\ seg.end \in Int /\ seg.speaker \in Speakers
        /\ IsStretch(heard[seg.speaker], seg)
    BY DEF PendingInv, Segment
  <1>2. ASSUME NEW other \in pending \ {seg}, seg.speaker = other.speaker PROVE seg.end < other.start
    <2>1. /\ other \in Segment /\ other.start \in Int /\ other.end \in Int
          /\ IsStretch(heard[seg.speaker], other) /\ seg.start <= other.start
      BY <1>2 DEF PendingInv, Segment
    <2>2. ~(seg.start = other.start /\ seg.end = other.end)
      BY <1>1, <1>2, <2>1 DEF Segment
    <2> QED
      BY <1>1, <2>1, <2>2, StretchesApart
  <1> QED
    BY <1>1, <1>2

(* Nothing but the segments changes while they are printed. *)
LEMMA PrintKeeps ==
  ASSUME PrintSegment
  PROVE  /\ stage = "print" /\ stage' = "print" /\ heard' = heard
         /\ Speakers' = Speakers /\ Segment' = Segment /\ HeardNow' = HeardNow
  <1>1. /\ stage = "print" /\ stage' = stage /\ heard' = heard /\ length' = length
        /\ linkage' = linkage /\ labels' = labels /\ predictions' = predictions
        /\ embeddings' = embeddings
    BY DEF PrintSegment
  <1>2. Speakers' = Speakers
    BY <1>1 DEF Speakers
  <1>3. Segment' = Segment
    BY <1>2 DEF Segment
  <1>4. HeardNow' = HeardNow
    BY <1>1, <1>2 DEF HeardNow, GridFrames, Voters, Active, Assigned, Of
  <1> QED
    BY <1>1, <1>2, <1>3, <1>4

(* The segment is joined to the one printed last. *)
LEMMA JoinStep ==
  ASSUME PendingInv, PrintedInv, BehindInv, NothingLost,
         NEW seg \in pending, \A other \in pending : seg.start <= other.start,
         printed # << >>, Continues(Last(printed), seg),
         printed' = Printing(seg), pending' = pending \ {seg},
         \A g \in Speakers : heard[g] \subseteq Int,
         heard' = heard, Speakers' = Speakers, Segment' = Segment
  PROVE  PrintedInv' /\ BehindInv' /\ NothingLost'
  <1> DEFINE n == Len(printed)
             last == Last(printed)
             m == [last EXCEPT !.end = Max({@, seg.end})]
             r == Append(Front(printed), m)
             S == heard[seg.speaker]
  <1>1. /\ seg \in Segment /\ seg.start \in Int /\ seg.end \in Int /\ seg.speaker \in Speakers
        /\ IsStretch(S, seg)
        /\ \A other \in pending \ {seg} :
              /\ seg.start <= other.start
              /\ seg.speaker = other.speaker => seg.end < other.start
    BY NextFacts
  <1>2. /\ n \in Nat /\ DOMAIN printed = 1 .. n /\ n \in DOMAIN printed /\ last = printed[n]
        /\ \A k \in DOMAIN printed : printed[k] \in Segment
    BY <1>1, ListFacts DEF PrintedInv
  <1>3. last.speaker = seg.speaker /\ seg.start - last.end < Gap
    BY DEF Continues
  <1>4. /\ last \in Segment /\ last.start \in Int /\ last.end \in Int
        /\ IsJoined(S, last) /\ last.end < seg.start /\ last.start <= seg.start
    BY <1>2, <1>3 DEF PrintedInv, BehindInv, Segment
  <1>5. last.end < seg.end
    BY <1>1, <1>4 DEF IsStretch
  <1>6. Max({last.end, seg.end}) = seg.end
    <2>1. \A y \in {last.end, seg.end} : seg.end >= y
      BY <1>1, <1>4, <1>5
    <2>2. \A x \in {last.end, seg.end} : (\A y \in {last.end, seg.end} : x >= y) => x = seg.end
      BY <1>1, <1>4, <1>5
    <2> QED
      BY <2>1, <2>2 DEF Max
  <1>7. m \in Segment /\ m.start = last.start /\ m.end = seg.end /\ m.speaker = seg.speaker
    BY <1>1, <1>3, <1>4, <1>6 DEF Segment
  <1>8. printed' = r
    BY DEF Printing
  <1> HIDE DEF m, last
  <1>9. /\ r \in Seq(Segment) /\ DOMAIN r = 1 .. n
        /\ \A k \in 1 .. n : r[k] = IF k = n THEN m ELSE printed[k]
    BY <1>7, ListFacts DEF PrintedInv
  <1> HIDE DEF r, n
  <1>10. IsJoined(S, m)
    BY <1>1, <1>3, <1>4, <1>7, JoinedIsJoined
  <1>11. PrintedInv'
    <2>1. r \in Seq(Segment)
      BY <1>9
    <2>2. ASSUME NEW k \in DOMAIN r PROVE IsJoined(heard[r[k].speaker], r[k])
      BY <1>2, <1>7, <1>9, <1>10 DEF PrintedInv
    <2>3. ASSUME NEW k \in DOMAIN r, NEW l \in DOMAIN r, k < l
          PROVE  /\ r[k].start <= r[l].start
                 /\ r[k].speaker = r[l].speaker => r[k].end <= r[l].start
      <3>1. r[k] = printed[k] /\ r[l].start = printed[l].start /\ r[l].speaker = printed[l].speaker
        BY <1>2, <1>3, <1>7, <1>9, <2>3
      <3>2. k \in DOMAIN printed /\ l \in DOMAIN printed
        BY <1>2, <1>9
      <3> QED
        BY <2>3, <3>1, <3>2 DEF PrintedInv
    <2> QED
      BY <1>8, <2>1, <2>2, <2>3 DEF PrintedInv
  <1>12. BehindInv'
    <2> SUFFICES ASSUME NEW k \in DOMAIN r, NEW other \in pending \ {seg}
                 PROVE  /\ r[k].start <= other.start
                        /\ r[k].speaker = other.speaker => r[k].end < other.start
      BY <1>8 DEF BehindInv
    <2>1. CASE k = n
      <3>1. r[k] = m /\ other \in pending /\ other.start \in Int
        BY <1>9, <2>1 DEF PendingInv, Segment
      <3>2. m.start <= other.start
        BY <1>1, <1>4, <1>7, <3>1
      <3> QED
        BY <1>1, <1>7, <3>1, <3>2
    <2>2. CASE k # n
      BY <1>2, <1>9, <2>2 DEF BehindInv
    <2> QED
      BY <2>1, <2>2
  <1>13. NothingLost'
    <2> SUFFICES ASSUME NEW g \in Speakers, NEW t \in heard[g]
                 PROVE  \/ \E k \in DOMAIN r : r[k].speaker = g /\ In(t, r[k])
                        \/ \E other \in pending \ {seg} : other.speaker = g /\ In(t, other)
      BY <1>8 DEF NothingLost
    <2>3. t \in Int
      OBVIOUS
    <2>0. n \in DOMAIN r /\ r[n] = m
      BY <1>2, <1>9
    <2>1. CASE \E k \in DOMAIN printed : printed[k].speaker = g /\ In(t, printed[k])
      <3>1. PICK k \in DOMAIN printed : printed[k].speaker = g /\ In(t, printed[k])
        BY <2>1
      <3>2. CASE k = n
        <4>1. last.start <= t /\ t < last.end /\ g = seg.speaker
          BY <1>2, <1>3, <3>1, <3>2 DEF In
        <4>3. m.start <= t /\ t < m.end
          BY <1>1, <1>4, <1>5, <1>7, <4>1, <2>3
        <4> QED
          BY <2>0, <4>1, <4>3, <1>7 DEF In
      <3>3. CASE k # n
        BY <1>2, <1>9, <3>1, <3>3
      <3> QED
        BY <3>2, <3>3
    <2>2. CASE \E other \in pending : other.speaker = g /\ In(t, other)
      <3>1. PICK other \in pending : other.speaker = g /\ In(t, other)
        BY <2>2
      <3>2. CASE other = seg
        <4>1. m.start <= t /\ t < m.end
          BY <1>1, <1>4, <1>7, <2>3, <3>1, <3>2 DEF In
        <4> QED
          BY <2>0, <4>1, <3>1, <3>2, <1>7 DEF In
      <3>3. CASE other # seg
        BY <3>1, <3>3
      <3> QED
        BY <3>2, <3>3
    <2> QED
      BY <2>1, <2>2 DEF NothingLost
  <1> QED
    BY <1>11, <1>12, <1>13

(* The segment is printed for itself. *)
LEMMA AppendStep ==
  ASSUME PendingInv, PrintedInv, BehindInv, NothingLost,
         NEW seg \in pending, \A other \in pending : seg.start <= other.start,
         printed' = Append(printed, seg), pending' = pending \ {seg},
         heard' = heard, Speakers' = Speakers, Segment' = Segment
  PROVE  PrintedInv' /\ BehindInv' /\ NothingLost'
  <1> DEFINE n == Len(printed)
             r == Append(printed, seg)
  <1>1. /\ seg \in Segment /\ seg.start \in Int /\ seg.end \in Int /\ seg.speaker \in Speakers
        /\ IsStretch(heard[seg.speaker], seg)
        /\ \A other \in pending \ {seg} :
              /\ seg.start <= other.start
              /\ seg.speaker = other.speaker => seg.end < other.start
    BY NextFacts
  <1>2. /\ n \in Nat /\ DOMAIN printed = 1 .. n
        /\ \A k \in DOMAIN printed : printed[k] \in Segment /\ printed[k].end \in Int
        /\ r \in Seq(Segment) /\ DOMAIN r = 1 .. n + 1
        /\ \A k \in 1 .. n + 1 : r[k] = IF k = n + 1 THEN seg ELSE printed[k]
    <2>1. printed \in Seq(Segment)
      BY DEF PrintedInv
    <2>2. /\ n \in Nat /\ DOMAIN printed = 1 .. n
          /\ \A k \in DOMAIN printed : printed[k] \in Segment
          /\ r \in Seq(Segment) /\ DOMAIN r = 1 .. n + 1
          /\ \A k \in 1 .. n + 1 : r[k] = IF k = n + 1 THEN seg ELSE printed[k]
      BY <1>1, <2>1, ListFacts
    <2>3. \A k \in DOMAIN printed : printed[k].end \in Int
      BY <2>2 DEF Segment
    <2> HIDE DEF r, n
    <2> QED
      BY <2>2, <2>3
  <1>3. printed' = r
    OBVIOUS
  <1> HIDE DEF r, n
  <1>4. \A k \in DOMAIN r : (k = n + 1 /\ r[k] = seg) \/ (k \in DOMAIN printed /\ r[k] = printed[k])
    BY <1>2
  <1>5. PrintedInv'
    <2>1. ASSUME NEW k \in DOMAIN r PROVE IsJoined(heard[r[k].speaker], r[k])
      <3>1. IsJoined(heard[seg.speaker], seg)
        BY <1>1, StretchIsJoined
      <3> QED
        BY <3>1, <1>4 DEF PrintedInv
    <2>2. ASSUME NEW k \in DOMAIN r, NEW l \in DOMAIN r, k < l
          PROVE  /\ r[k].start <= r[l].start
                 /\ r[k].speaker = r[l].speaker => r[k].end <= r[l].start
      <3>1. k \in DOMAIN printed /\ r[k] = printed[k] /\ r[k].end \in Int
        BY <1>2, <1>4, <2>2
      <3>2. CASE l = n + 1
        <4>1. r[l] = seg
          BY <1>2, <3>2
        <4>2. /\ printed[k].start <= seg.start
              /\ printed[k].speaker = seg.speaker => printed[k].end < seg.start
          BY <3>1 DEF BehindInv
        <4> QED
          BY <1>1, <3>1, <4>1, <4>2
      <3>3. CASE l # n + 1
        BY <1>4, <2>2, <3>1, <3>3 DEF PrintedInv
      <3> QED
        BY <3>2, <3>3
    <2> QED
      BY <1>2, <1>3, <2>1, <2>2 DEF PrintedInv
  <1>6. BehindInv'
    <2> SUFFICES ASSUME NEW k \in DOMAIN r, NEW other \in pending \ {seg}
                 PROVE  /\ r[k].start <= other.start
                        /\ r[k].speaker = other.speaker => r[k].end < other.start
      BY <1>3 DEF BehindInv
    <2> QED
      BY <1>1, <1>4 DEF BehindInv
  <1>7. NothingLost'
    <2> SUFFICES ASSUME NEW g \in Speakers, NEW t \in heard[g]
                 PROVE  \/ \E k \in DOMAIN r : r[k].speaker = g /\ In(t, r[k])
                        \/ \E other \in pending \ {seg} : other.speaker = g /\ In(t, other)
      BY <1>3 DEF NothingLost
    <2>1. CASE \E k \in DOMAIN printed : printed[k].speaker = g /\ In(t, printed[k])
      <3>1. PICK k \in DOMAIN printed : printed[k].speaker = g /\ In(t, printed[k])
        BY <2>1
      <3>2. k \in DOMAIN r /\ r[k] = printed[k]
        BY <1>2
      <3> QED
        BY <3>1, <3>2
    <2>2. CASE \E other \in pending : other.speaker = g /\ In(t, other)
      <3>1. n + 1 \in DOMAIN r /\ r[n + 1] = seg
        BY <1>2
      <3> QED
        BY <2>2, <3>1
    <2> QED
      BY <2>1, <2>2 DEF NothingLost
  <1> QED
    BY <1>5, <1>6, <1>7

(* Printing a segment, one way or the other. *)
LEMMA PrintStep ==
  ASSUME BatchInv, PrintSegment
  PROVE  PrintInv'
  <1>1. /\ stage = "print" /\ stage' = "print" /\ heard' = heard
        /\ Speakers' = Speakers /\ Segment' = Segment
    BY PrintKeeps
  <1>2. PendingInv /\ PrintedInv /\ BehindInv /\ NothingLost
    BY <1>1 DEF BatchInv, PrintInv
  <1>3. PICK seg \in pending : /\ \A other \in pending : seg.start <= other.start
                               /\ printed' = Printing(seg)
                               /\ pending' = pending \ {seg}
    BY DEF PrintSegment
  <1>4. \A g \in Speakers : heard[g] \subseteq Int
    <2>1. heard = HeardNow /\ length \in Nat
      BY <1>1 DEF BatchInv, BaseInv
    <2>2. \A g \in Speakers : HeardNow[g] \subseteq 0 .. GridFrames - 1
      BY DEF HeardNow
    <2>3. \A x \in 0 .. GridFrames - 1 : x \in Int
      BY <2>1, GridFacts
    <2> QED
      BY <2>1, <2>2, <2>3
  <1>5. PrintedInv' /\ BehindInv' /\ NothingLost'
    <2>1. CASE printed # << >> /\ Continues(Last(printed), seg)
      BY <1>1, <1>2, <1>3, <1>4, <2>1, JoinStep
    <2>2. CASE ~(printed # << >> /\ Continues(Last(printed), seg))
      <3>1. printed' = Append(printed, seg)
        BY <1>3, <2>2 DEF Printing
      <3> QED
        BY <1>1, <1>2, <1>3, <3>1, AppendStep
    <2> QED
      BY <2>1, <2>2
  <1>6. PendingInv'
    BY <1>1, <1>2, <1>3 DEF PendingInv
  <1> QED
    BY <1>1, <1>5, <1>6 DEF PrintInv

(* The segments that printing begins with are the stretches of the frames  *)
(* heard, all of them and nothing else.                                    *)
LEMMA RebuildStep ==
  ASSUME BatchInv, Rebuild
  PROVE  BatchInv'
  <1>1. /\ stage = "rebuild" /\ stage' = "print" /\ printed' = printed
        /\ length' = length /\ linkage' = linkage /\ labels' = labels
        /\ predictions' = predictions /\ embeddings' = embeddings
        /\ heard' = [g \in Speakers |->
                        {t \in 0 .. GridFrames - 1 :
                            2 * Cardinality({v \in Voters(g, t) : Active(v, t)})
                                > Cardinality(Voters(g, t))}]
        /\ pending' = UNION {{[start |-> r[1], end |-> r[2], speaker |-> g] :
                              r \in Stretches(heard'[g], GridFrames)} : g \in Speakers}
    BY DEF Rebuild
  <1>2. GridFrames \in Nat /\ printed = << >>
    <2>1. length \in Nat /\ printed = << >>
      BY <1>1 DEF BatchInv, BaseInv, PrintInv
    <2> QED
      BY <2>1, GridFacts
  <1>3. Speakers' = Speakers
    BY <1>1 DEF Speakers
  <1>4. Segment' = Segment
    BY <1>3 DEF Segment
  <1>5. heard' = HeardNow
    BY <1>1 DEF HeardNow
  <1>6. HeardNow' = HeardNow
    BY <1>1, <1>3 DEF HeardNow, GridFrames, Voters, Active, Assigned, Of
  <1>7. \A g \in Speakers : heard'[g] \in SUBSET (0 .. GridFrames - 1)
    BY <1>5 DEF HeardNow
  <1>8. BaseInv'
    BY <1>1, <1>5, <1>6 DEF BatchInv, BaseInv, Embedding, Slots
  <1>9. PendingInv'
    <2> SUFFICES ASSUME NEW seg \in pending'
                 PROVE  seg \in Segment /\ IsStretch(heard'[seg.speaker], seg)
      BY <1>4 DEF PendingInv
    <2>0. PICK g \in Speakers : \E r \in Stretches(heard'[g], GridFrames) :
                  seg = [start |-> r[1], end |-> r[2], speaker |-> g]
      BY <1>1
    <2>1. PICK r \in Stretches(heard'[g], GridFrames) :
                  seg = [start |-> r[1], end |-> r[2], speaker |-> g]
      BY <2>0
    <2>2. /\ r[1] \in 0 .. GridFrames - 1 /\ r[2] \in 1 .. GridFrames /\ r[1] < r[2]
          /\ r[1] .. r[2] - 1 \subseteq heard'[g] /\ r[1] - 1 \notin heard'[g]
          /\ r[2] = GridFrames \/ r[2] \notin heard'[g]
      BY <2>1 DEF Stretches
    <2>3. r[2] \notin heard'[g]
      BY <1>2, <1>7, <2>2
    <2>4. seg.start = r[1] /\ seg.end = r[2] /\ seg.speaker = g
      BY <2>1
    <2>5. seg \in Segment
      BY <1>2, <2>1, <2>2 DEF Segment
    <2> QED
      BY <1>2, <2>2, <2>3, <2>4, <2>5 DEF IsStretch
  <1>10. NothingLost'
    <2> SUFFICES ASSUME NEW g \in Speakers, NEW t \in heard'[g]
                 PROVE  \E seg \in pending' : seg.speaker = g /\ In(t, seg)
      BY <1>3 DEF NothingLost
    <2>1. PICK r \in Stretches(heard'[g], GridFrames) : r[1] <= t /\ t < r[2]
      BY <1>2, <1>7, StretchAround
    <2> DEFINE seg == [start |-> r[1], end |-> r[2], speaker |-> g]
    <2>2. seg \in pending'
      <3> DEFINE P(h) == {[start |-> x[1], end |-> x[2], speaker |-> h] : x \in Stretches(heard'[h], GridFrames)}
      <3>1. seg \in P(g)
        OBVIOUS
      <3>2. pending' = UNION {P(h) : h \in Speakers}
        BY <1>1
      <3> HIDE DEF P, seg
      <3> QED
        BY <3>1, <3>2
    <2>3. seg.speaker = g /\ In(t, seg)
      BY <2>1 DEF In
    <2> QED
      BY <2>2, <2>3
  <1>11. PrintedInv' /\ BehindInv'
    <2>1. printed' = << >>
      BY <1>1, <1>2
    <2>2. DOMAIN printed' = {}
      BY <2>1
    <2>3. printed' \in Seq(Segment')
      BY <2>1
    <2> QED
      BY <2>2, <2>3 DEF PrintedInv, BehindInv
  <1> QED
    BY <1>1, <1>8, <1>9, <1>10, <1>11 DEF BatchInv, PrintInv
-----------------------------------------------------------------------------
(* Listening and clustering.                                               *)

(* A chunk adds its prediction and its embeddings. *)
LEMMA ChunkStep ==
  ASSUME BatchInv, Chunk
  PROVE  BatchInv'
  <1>1. /\ length \in Nat /\ predictions \in Seq([Slots -> Patterns]) /\ embeddings \in Seq(Embedding)
        /\ stage = "listen" /\ stage' = stage /\ length' = length
        /\ printed = << >> /\ printed' = printed
    BY DEF BatchInv, BaseInv, PrintInv, Chunk
  <1>2. PICK active \in [Slots -> Patterns] :
            /\ \E slots \in UNION {[1 .. k -> Slots] : k \in 0 .. MaxEmbeddings[length] - Len(embeddings)} :
                  \E point \in [DOMAIN slots -> Points] :
                      embeddings' = embeddings \o
                          [k \in DOMAIN slots |->
                              [chunk |-> Len(predictions) + 1, slot |-> slots[k], point |-> point[k]]]
            /\ predictions' = Append(predictions, active)
    BY DEF Chunk
  <1>3. predictions' \in Seq([Slots -> Patterns])
    BY <1>1, <1>2
  <1>4. embeddings' \in Seq(Embedding)
    <2>1. PICK slots \in UNION {[1 .. k -> Slots] : k \in 0 .. MaxEmbeddings[length] - Len(embeddings)} :
              \E point \in [DOMAIN slots -> Points] :
                  embeddings' = embeddings \o
                      [k \in DOMAIN slots |->
                          [chunk |-> Len(predictions) + 1, slot |-> slots[k], point |-> point[k]]]
      BY <1>2
    <2>2. PICK k \in 0 .. MaxEmbeddings[length] - Len(embeddings) : slots \in [1 .. k -> Slots]
      OBVIOUS
    <2>3. k \in Nat
      OBVIOUS
    <2>4. PICK point \in [DOMAIN slots -> Points] :
              embeddings' = embeddings \o
                  [i \in DOMAIN slots |->
                      [chunk |-> Len(predictions) + 1, slot |-> slots[i], point |-> point[i]]]
      BY <2>1
    <2> DEFINE new == [i \in DOMAIN slots |->
                          [chunk |-> Len(predictions) + 1, slot |-> slots[i], point |-> point[i]]]
    <2>5. Len(predictions) + 1 \in Nat
      BY <1>1
    <2>6. new \in [1 .. k -> Embedding]
      BY <2>2, <2>5 DEF Embedding
    <2>7. embeddings' = embeddings \o new
      BY <2>4
    <2> HIDE DEF new
    <2>8. new \in Seq(Embedding)
      BY <2>3, <2>6
    <2> QED
      BY <1>1, <2>7, <2>8
  <1> QED
    BY <1>1, <1>3, <1>4 DEF BatchInv, BaseInv, PrintInv, Embedding, Slots

(* Clustering leaves what was heard alone. *)
LEMMA ClusterSteps ==
  ASSUME BatchInv,
         NoMoreChunks \/ MergeAverage \/ StopAverage \/ MergeCentroid \/ StopCentroid \/ Vbx
  PROVE  BatchInv'
  <1>1. /\ stage # "print" /\ stage' # "print"
        /\ length' = length /\ predictions' = predictions /\ embeddings' = embeddings
        /\ printed' = printed
    BY DEF NoMoreChunks, MergeAverage, StopAverage, MergeCentroid, StopCentroid, Vbx
  <1> QED
    BY <1>1 DEF BatchInv, BaseInv, PrintInv, Embedding, Slots

(* BatchInv goes from state to state. *)
LEMMA BatchStep == BatchInv /\ [Next]_vars => BatchInv'
  <1> SUFFICES ASSUME BatchInv, [Next]_vars PROVE BatchInv'
    OBVIOUS
  <1>1. CASE Chunk
    BY <1>1, ChunkStep
  <1>2. CASE NoMoreChunks \/ MergeAverage \/ StopAverage \/ MergeCentroid \/ StopCentroid \/ Vbx
    BY <1>2, ClusterSteps
  <1>3. CASE Rebuild
    BY <1>3, RebuildStep
  <1>4. CASE PrintSegment
    <2>1. /\ stage = "print" /\ heard' = heard /\ HeardNow' = HeardNow
      BY <1>4, PrintKeeps
    <2>2. length' = length /\ predictions' = predictions /\ embeddings' = embeddings
      BY <1>4 DEF PrintSegment
    <2>3. BaseInv'
      BY <2>1, <2>2 DEF BatchInv, BaseInv, Embedding, Slots
    <2> QED
      BY <2>3, <1>4, PrintStep DEF BatchInv
  <1>5. CASE UNCHANGED vars
    <2>1. /\ length' = length /\ predictions' = predictions /\ embeddings' = embeddings
          /\ stage' = stage /\ heard' = heard /\ printed' = printed /\ pending' = pending
          /\ linkage' = linkage /\ labels' = labels
      BY <1>5 DEF vars
    <2>2. Speakers' = Speakers
      BY <2>1 DEF Speakers
    <2>3. HeardNow' = HeardNow
      BY <2>1, <2>2 DEF HeardNow, GridFrames, Voters, Active, Assigned, Of
    <2>4. BaseInv'
      BY <2>1, <2>3 DEF BatchInv, BaseInv, Embedding, Slots
    <2>5. PrintInv'
      BY <2>1, <2>2 DEF BatchInv, PrintInv, PendingInv, PrintedInv, BehindInv, NothingLost, Segment
    <2> QED
      BY <2>4, <2>5 DEF BatchInv
  <1> QED
    BY <1>1, <1>2, <1>3, <1>4, <1>5 DEF Next
-----------------------------------------------------------------------------
(* Theorems.                                                               *)

(* BatchInv is an invariant of the batch program. *)
THEOREM BatchInvariance == Spec => []BatchInv
  <1>1. Init => BatchInv
    <2> SUFFICES ASSUME Init PROVE BatchInv
      OBVIOUS
    <2>1. length \in Nat
      BY Parameters DEF Init
    <2>2. predictions = << >> /\ embeddings = << >> /\ printed = << >> /\ stage = "listen"
      BY DEF Init
    <2> QED
      BY <2>1, <2>2 DEF BatchInv, BaseInv, PrintInv
  <1> QED
    BY <1>1, BatchStep, PTL DEF Spec

(* Whatever the networks answer and however the embeddings are clustered,  *)
(* whatever the step and the length of a frame, and however the starts of  *)
(* the chunks are rounded to the grid, the frame a speaker is heard on is  *)
(* the one in which most of his slots speak, by the samples (the votes     *)
(* over overlapping chunks in main).                                       *)
THEOREM SpeechReachesItsFrames == Spec => []SpeechAttributed
  <1>1. BatchInv => SpeechAttributed
    BY VotesAttributed DEF BatchInv
  <1> QED
    BY <1>1, BatchInvariance, PTL

(* Sorting and joining keep every heard frame in exactly one printed       *)
(* segment of its speaker, bridge only pauses shorter than 0.1 s and keep  *)
(* the order of the starts (sorted_segments in main).                      *)
THEOREM PrintedAsHeard == Spec => []PrintedFaithful
  <1>1. BatchInv => PrintedFaithful
    <2> SUFFICES ASSUME BatchInv, stage = "print", pending = {}
                 PROVE  /\ \A g \in Speakers : \A t \in heard[g] :
                              Cardinality({k \in DOMAIN printed :
                                  /\ printed[k].speaker = g
                                  /\ t \in printed[k].start .. printed[k].end - 1}) = 1
                        /\ \A k \in DOMAIN printed :
                              LET seg == printed[k]
                              IN  /\ {seg.start, seg.end - 1} \subseteq heard[seg.speaker]
                                  /\ \A t \in seg.start .. seg.end - Gap :
                                        t .. t + Gap - 1 \intersect heard[seg.speaker] # {}
                                  /\ k < Len(printed) => seg.start <= printed[k + 1].start
      BY DEF PrintedFaithful
    <2>1. PrintedInv /\ NothingLost
      BY DEF BatchInv, PrintInv
    <2>2. /\ Len(printed) \in Nat /\ DOMAIN printed = 1 .. Len(printed)
          /\ \A k \in DOMAIN printed : printed[k].start \in Int /\ printed[k].end \in Int
      <3>1. printed \in Seq(Segment)
        BY <2>1 DEF PrintedInv
      <3>2. /\ Len(printed) \in Nat /\ DOMAIN printed = 1 .. Len(printed)
            /\ \A k \in DOMAIN printed : printed[k] \in Segment
        BY <3>1
      <3> QED
        BY <3>2 DEF Segment
    <2>3. ASSUME NEW g \in Speakers, NEW t \in heard[g]
          PROVE  Cardinality({k \in DOMAIN printed :
                                  /\ printed[k].speaker = g
                                  /\ t \in printed[k].start .. printed[k].end - 1}) = 1
      <3> DEFINE K == {k \in DOMAIN printed :
                                  /\ printed[k].speaker = g
                                  /\ t \in printed[k].start .. printed[k].end - 1}
      <3>1. t \in Int
        <4>1. heard = HeardNow /\ length \in Nat
          BY DEF BatchInv, BaseInv
        <4>2. HeardNow[g] \subseteq 0 .. GridFrames - 1
          BY DEF HeardNow
        <4> QED
          BY <4>1, <4>2, GridFacts
      <3>2. PICK k \in DOMAIN printed : printed[k].speaker = g /\ In(t, printed[k])
        BY <2>1 DEF NothingLost
      <3>3. k \in K
        BY <2>2, <3>1, <3>2 DEF In
      <3>4. ASSUME NEW l \in K, NEW m \in K, l < m PROVE FALSE
        <4>1. printed[l].end <= printed[m].start
          BY <2>1, <3>4 DEF PrintedInv
        <4> QED
          BY <2>2, <3>1, <3>4, <4>1
      <3>5. \A l \in K : l = k
        <4> SUFFICES ASSUME NEW l \in K, l # k PROVE FALSE
          OBVIOUS
        <4>1. l < k \/ k < l
          BY <2>2
        <4> QED
          BY <4>1, <3>3, <3>4
      <3>6. K = {k}
        BY <3>3, <3>5
      <3> HIDE DEF K
      <3>7. Cardinality(K) = 1
        BY <3>6, FS_Singleton
      <3> QED
        BY <3>7 DEF K
    <2>4. ASSUME NEW k \in DOMAIN printed
          PROVE  /\ {printed[k].start, printed[k].end - 1} \subseteq heard[printed[k].speaker]
                 /\ \A t \in printed[k].start .. printed[k].end - Gap :
                       t .. t + Gap - 1 \intersect heard[printed[k].speaker] # {}
                 /\ k < Len(printed) => printed[k].start <= printed[k + 1].start
      <3>1. k < Len(printed) => k + 1 \in DOMAIN printed /\ k < k + 1
        BY <2>2
      <3> QED
        BY <2>1, <3>1 DEF PrintedInv, IsJoined
    <2> QED
      BY <2>3, <2>4
  <1> QED
    BY <1>1, BatchInvariance, PTL
-----------------------------------------------------------------------------
(* Sums over finite sets, in any order.                                    *)

(* Induction over the subsets of a finite set, taking away one element. *)
LEMMA SubsetInduction ==
  ASSUME NEW S, IsFiniteSet(S), NEW G,
         \A T \in SUBSET S : (\A x \in T : T \ {x} \in G) => T \in G
  PROVE  \A T \in SUBSET S : T \in G
  <1> DEFINE Bad == {T \in SUBSET S : T \notin G}
             Sizes == {Cardinality(T) : T \in Bad}
  <1> SUFFICES ASSUME Bad # {} PROVE FALSE
    OBVIOUS
  <1>1. \A T \in SUBSET S : IsFiniteSet(T) /\ Cardinality(T) \in Nat
    BY FS_Subset, FS_CardinalityType
  <1>2. PICK m \in Sizes : \A k \in Sizes : m <= k
    <2>1. Sizes \subseteq Nat /\ Sizes # {}
      BY <1>1
    <2> HIDE DEF Sizes
    <2> QED
      BY <2>1, Least
  <1>3. PICK T \in Bad : m = Cardinality(T)
    OBVIOUS
  <1>4. PICK x \in T : T \ {x} \notin G
    OBVIOUS
  <1>5. Cardinality(T \ {x}) = Cardinality(T) - 1 /\ Cardinality(T) \in Nat
    BY <1>1, FS_RemoveElement
  <1>6. Cardinality(T \ {x}) \in Sizes
    BY <1>4
  <1>7. m <= Cardinality(T \ {x})
    BY <1>2, <1>6
  <1> QED
    BY <1>3, <1>5, <1>7

(* g gives the sum of F over every subset of S. *)
IsSum(g, F, S) ==
    /\ g \in [SUBSET S -> Int]
    /\ g[{}] = 0
    /\ \A T \in SUBSET S : \A x \in T : g[T] = F[x] + g[T \ {x}]

(* The sum of F over S. *)
Sum(F, S) == (CHOOSE g : IsSum(g, F, S))[S]

(* One more element. *)
LEMMA SumGrows ==
  ASSUME NEW F, NEW S, NEW x \in S, \A y \in S : F[y] \in Int,
         NEW h, IsSum(h, F, S \ {x})
  PROVE  \E g : IsSum(g, F, S)
  <1> DEFINE g == [s \in SUBSET S |-> IF x \in s THEN F[x] + h[s \ {x}] ELSE h[s]]
  <1>1. /\ h \in [SUBSET (S \ {x}) -> Int] /\ h[{}] = 0
        /\ \A T \in SUBSET (S \ {x}) : \A y \in T : h[T] = F[y] + h[T \ {y}]
    BY DEF IsSum
  <1>2. \A s \in SUBSET S : s \ {x} \in SUBSET (S \ {x}) /\ (x \notin s => s \ {x} = s)
    OBVIOUS
  <1>3. g \in [SUBSET S -> Int]
    <2>1. \A s \in SUBSET S : (IF x \in s THEN F[x] + h[s \ {x}] ELSE h[s]) \in Int
      <3> SUFFICES ASSUME NEW s \in SUBSET S
                   PROVE  (IF x \in s THEN F[x] + h[s \ {x}] ELSE h[s]) \in Int
        OBVIOUS
      <3>1. h[s \ {x}] \in Int
        BY <1>1, <1>2
      <3> QED
        BY <1>2, <3>1
    <2> QED
      BY <2>1
  <1>4. g[{}] = 0
    BY <1>1
  <1>5. ASSUME NEW T \in SUBSET S, NEW y \in T PROVE g[T] = F[y] + g[T \ {y}]
    <2>1. T \ {y} \in SUBSET S
      OBVIOUS
    <2>2. CASE y = x
      <3>1. g[T] = F[x] + h[T \ {x}] /\ g[T \ {x}] = h[T \ {x}]
        BY <2>1, <2>2
      <3> QED
        BY <2>2, <3>1
    <2>3. CASE y # x /\ x \in T
      <3>1. g[T] = F[x] + h[T \ {x}]
        BY <2>3
      <3>2. g[T \ {y}] = F[x] + h[(T \ {y}) \ {x}]
        BY <2>1, <2>3
      <3>3. h[T \ {x}] = F[y] + h[(T \ {x}) \ {y}]
        BY <1>1, <1>2, <2>3
      <3>4. (T \ {x}) \ {y} = (T \ {y}) \ {x}
        OBVIOUS
      <3>5. h[(T \ {y}) \ {x}] \in Int /\ h[T \ {x}] \in Int
        BY <1>1, <1>2, <2>1
      <3> HIDE DEF g
      <3>6. h[(T \ {x}) \ {y}] = h[(T \ {y}) \ {x}]
        BY <3>4
      <3>7. F[x] + (F[y] + h[(T \ {y}) \ {x}]) = F[y] + (F[x] + h[(T \ {y}) \ {x}])
        <4>1. F[y] + h[(T \ {y}) \ {x}] \in Int
          BY <3>3, <3>5, <3>6
        <4> QED
          BY <3>5, <4>1, F[x] \in Int, F[y] \in Int, SMT
      <3> QED
        BY <3>1, <3>2, <3>3, <3>6, <3>7
    <2>4. CASE x \notin T
      <3>1. g[T] = h[T] /\ g[T \ {y}] = h[T \ {y}]
        BY <2>1, <2>4
      <3>2. T \in SUBSET (S \ {x})
        BY <2>4
      <3> QED
        BY <1>1, <3>1, <3>2
    <2> QED
      BY <2>2, <2>3, <2>4
  <1> HIDE DEF g
  <1> QED
    BY <1>3, <1>4, <1>5 DEF IsSum

(* Every finite set has a sum. *)
LEMMA SumExists ==
  ASSUME NEW F, NEW S, IsFiniteSet(S), \A x \in S : F[x] \in Int
  PROVE  \E g : IsSum(g, F, S)
  <1> DEFINE G == {T \in SUBSET S : \E g : IsSum(g, F, T)}
  <1>1. ASSUME NEW T \in SUBSET S, \A x \in T : T \ {x} \in G PROVE T \in G
    <2>1. CASE T = {}
      <3> DEFINE g == [s \in SUBSET T |-> 0]
      <3>1. IsSum(g, F, T)
        BY <2>1 DEF IsSum
      <3> HIDE DEF g
      <3> QED
        BY <3>1
    <2>2. CASE T # {}
      <3>1. PICK x \in T : TRUE
        BY <2>2
      <3>2. PICK h : IsSum(h, F, T \ {x})
        BY <1>1
      <3>3. \E g : IsSum(g, F, T)
        BY <3>2, SumGrows
      <3> QED
        BY <3>3
    <2> QED
      BY <2>1, <2>2
  <1>2. \A T \in SUBSET S : T \in G
    <2> HIDE DEF G
    <2> QED
      BY <1>1, SubsetInduction
  <1> QED
    BY <1>2

(* Two sums of the same are the same. *)
LEMMA SumUnique ==
  ASSUME NEW F, NEW S, IsFiniteSet(S), NEW g, IsSum(g, F, S),
         NEW U, S \subseteq U, NEW h, IsSum(h, F, U)
  PROVE  \A T \in SUBSET S : g[T] = h[T]
  <1> DEFINE G == {T \in SUBSET S : g[T] = h[T]}
  <1>1. ASSUME NEW T \in SUBSET S, \A x \in T : T \ {x} \in G PROVE T \in G
    <2>1. CASE T = {}
      BY <2>1 DEF IsSum
    <2>2. CASE T # {}
      <3>1. PICK x \in T : TRUE
        BY <2>2
      <3>2. g[T] = F[x] + g[T \ {x}] /\ h[T] = F[x] + h[T \ {x}]
        BY DEF IsSum
      <3> QED
        BY <1>1, <3>2
    <2> QED
      BY <2>1, <2>2
  <1>2. \A T \in SUBSET S : T \in G
    <2> HIDE DEF G
    <2> QED
      BY <1>1, SubsetInduction
  <1> QED
    BY <1>2

(* How sums are computed. *)
LEMMA SumFacts ==
  ASSUME NEW F, NEW S, IsFiniteSet(S), \A x \in S : F[x] \in Int
  PROVE  /\ Sum(F, S) \in Int
         /\ S = {} => Sum(F, S) = 0
         /\ \A x \in S : Sum(F, S) = F[x] + Sum(F, S \ {x})
         /\ \A g : IsSum(g, F, S) => g[S] = Sum(F, S)
  <1>1. PICK g : IsSum(g, F, S) /\ Sum(F, S) = g[S]
    BY SumExists DEF Sum
  <1>2. \A h : IsSum(h, F, S) => h[S] = Sum(F, S)
    BY <1>1, SumUnique
  <1>3. ASSUME NEW x \in S PROVE Sum(F, S) = F[x] + Sum(F, S \ {x})
    <2>1. IsFiniteSet(S \ {x})
      BY FS_Subset
    <2>2. PICK h : IsSum(h, F, S \ {x}) /\ Sum(F, S \ {x}) = h[S \ {x}]
      BY <2>1, SumExists DEF Sum
    <2>3. h[S \ {x}] = g[S \ {x}]
      BY <1>1, <2>1, <2>2, SumUnique
    <2> QED
      BY <1>1, <2>2, <2>3 DEF IsSum
  <1> QED
    BY <1>1, <1>2, <1>3 DEF IsSum

(* it adds F up over the subsets of S, taking the element c[s] from s. *)
Adds(it, F, S, c) ==
    it = [s \in SUBSET S |-> IF s = {} THEN 0 ELSE F[c[s]] + it[s \ {c[s]}]]

(* Any fold that adds up is a sum, whatever its order. *)
LEMMA FoldIsSum ==
  ASSUME NEW F, NEW S, IsFiniteSet(S), \A x \in S : F[x] \in Int,
         NEW c, \A s \in SUBSET S : s # {} => c[s] \in s
  PROVE  /\ \E it : Adds(it, F, S, c)
         /\ \A it : Adds(it, F, S, c) => it[S] = Sum(F, S)
  <1>1. PICK g : IsSum(g, F, S) /\ g[S] = Sum(F, S)
    BY SumExists, SumFacts
  <1>2. Adds(g, F, S, c)
    <2>1. g = [s \in SUBSET S |-> g[s]]
      BY <1>1 DEF IsSum
    <2>2. \A s \in SUBSET S : g[s] = IF s = {} THEN 0 ELSE F[c[s]] + g[s \ {c[s]}]
      BY <1>1 DEF IsSum
    <2> QED
      BY <2>1, <2>2, Zenon DEF Adds
  <1>3. ASSUME NEW it, Adds(it, F, S, c)
        PROVE  it[S] = Sum(F, S)
    <2> DEFINE G == {T \in SUBSET S : it[T] = g[T]}
    <2>1. ASSUME NEW T \in SUBSET S, \A x \in T : T \ {x} \in G PROVE T \in G
      <3>1. it[T] = IF T = {} THEN 0 ELSE F[c[T]] + it[T \ {c[T]}]
        BY <1>3 DEF Adds
      <3>2. g[T] = IF T = {} THEN 0 ELSE F[c[T]] + g[T \ {c[T]}]
        BY <1>1 DEF IsSum
      <3> QED
        BY <2>1, <3>1, <3>2
    <2>2. \A T \in SUBSET S : T \in G
      <3> HIDE DEF G
      <3> QED
        BY <2>1, SubsetInduction
    <2> QED
      BY <1>1, <2>2
  <1> QED
    BY <1>2, <1>3

(* The same with the last element added behind the others. *)
AddsAfter(it, F, S, c) ==
    it = [s \in SUBSET S |-> IF s = {} THEN 0 ELSE it[s \ {c[s]}] + F[c[s]]]

(* A fold that adds at the end is a sum, too. *)
LEMMA FoldAfterIsSum ==
  ASSUME NEW F, NEW S, IsFiniteSet(S), \A x \in S : F[x] \in Int,
         NEW c, \A s \in SUBSET S : s # {} => c[s] \in s
  PROVE  /\ \E it : AddsAfter(it, F, S, c)
         /\ \A it : AddsAfter(it, F, S, c) => it[S] = Sum(F, S)
  <1>1. PICK g : IsSum(g, F, S) /\ g[S] = Sum(F, S)
    BY SumExists, SumFacts
  <1>2. g = [s \in SUBSET S |-> g[s]] /\ \A s \in SUBSET S : g[s] \in Int
    BY <1>1 DEF IsSum
  <1>3. \A s \in SUBSET S : g[s] = IF s = {} THEN 0 ELSE g[s \ {c[s]}] + F[c[s]]
    <2> SUFFICES ASSUME NEW s \in SUBSET S
                 PROVE  g[s] = IF s = {} THEN 0 ELSE g[s \ {c[s]}] + F[c[s]]
      OBVIOUS
    <2>1. s # {} => /\ c[s] \in s /\ F[c[s]] \in Int /\ g[s \ {c[s]}] \in Int
                    /\ g[s] = F[c[s]] + g[s \ {c[s]}]
      BY <1>1, <1>2 DEF IsSum
    <2>2. s = {} => g[s] = 0
      BY <1>1 DEF IsSum
    <2>3. s # {} => g[s] = g[s \ {c[s]}] + F[c[s]]
      BY <2>1
    <2> QED
      BY <2>2, <2>3
  <1>4. AddsAfter(g, F, S, c)
    BY <1>2, <1>3, Zenon DEF AddsAfter
  <1>5. ASSUME NEW it, AddsAfter(it, F, S, c)
        PROVE  it[S] = Sum(F, S)
    <2> DEFINE G == {T \in SUBSET S : it[T] = g[T]}
    <2>1. ASSUME NEW T \in SUBSET S, \A x \in T : T \ {x} \in G PROVE T \in G
      <3>1. it[T] = IF T = {} THEN 0 ELSE it[T \ {c[T]}] + F[c[T]]
        BY <1>5 DEF AddsAfter
      <3>2. g[T] = IF T = {} THEN 0 ELSE g[T \ {c[T]}] + F[c[T]]
        BY <1>3
      <3> QED
        BY <2>1, <3>1, <3>2
    <2>2. \A T \in SUBSET S : T \in G
      <3> HIDE DEF G
      <3> QED
        BY <2>1, SubsetInduction
    <2> QED
      BY <1>1, <2>2
  <1> QED
    BY <1>4, <1>5

(* Sums of the same numbers. *)
LEMMA SumEqual ==
  ASSUME NEW S, IsFiniteSet(S), NEW F, NEW G, \A x \in S : F[x] \in Int /\ F[x] = G[x]
  PROVE  Sum(F, S) = Sum(G, S)
  <1> DEFINE Same == {T \in SUBSET S : Sum(F, T) = Sum(G, T)}
  <1>1. ASSUME NEW T \in SUBSET S, \A x \in T : T \ {x} \in Same PROVE T \in Same
    <2>1. IsFiniteSet(T)
      BY FS_Subset
    <2>2. /\ T = {} => Sum(F, T) = 0 /\ Sum(G, T) = 0
          /\ \A x \in T : Sum(F, T) = F[x] + Sum(F, T \ {x}) /\ Sum(G, T) = G[x] + Sum(G, T \ {x})
      BY <2>1, SumFacts
    <2> QED
      BY <1>1, <2>2
  <1>2. \A T \in SUBSET S : T \in Same
    <2> HIDE DEF Same
    <2> QED
      BY <1>1, SubsetInduction
  <1> QED
    BY <1>2

(* The sum over two sets without a common element. *)
LEMMA SumUnion ==
  ASSUME NEW A, IsFiniteSet(A), NEW B, IsFiniteSet(B), A \cap B = {},
         NEW F, \A x \in A \union B : F[x] \in Int
  PROVE  Sum(F, A \union B) = Sum(F, A) + Sum(F, B)
  <1> DEFINE G == {T \in SUBSET A : Sum(F, T \union B) = Sum(F, T) + Sum(F, B)}
  <1>0. Sum(F, B) \in Int
    BY SumFacts
  <1>1. ASSUME NEW T \in SUBSET A, \A x \in T : T \ {x} \in G PROVE T \in G
    <2>1. IsFiniteSet(T)
      BY FS_Subset
    <2>2. IsFiniteSet(T \union B)
      BY <2>1, FS_Union
    <2>3. CASE T = {}
      <3>1. Sum(F, T) = 0
        BY <2>1, <2>3, SumFacts
      <3>2. T \union B = B
        BY <2>3
      <3>3. Sum(F, T \union B) = Sum(F, B)
        BY <3>2
      <3> QED
        BY <1>0, <3>1, <3>3
    <2>4. CASE T # {}
      <3>1. PICK x \in T : TRUE
        BY <2>4
      <3>2. Sum(F, T) = F[x] + Sum(F, T \ {x})
        BY <2>1, SumFacts
      <3>3. Sum(F, T \union B) = F[x] + Sum(F, (T \union B) \ {x})
        BY <2>2, SumFacts
      <3>4. (T \union B) \ {x} = (T \ {x}) \union B
        BY <3>1
      <3>5. Sum(F, (T \ {x}) \union B) = Sum(F, T \ {x}) + Sum(F, B)
        BY <1>1
      <3>6. F[x] \in Int /\ Sum(F, T \ {x}) \in Int
        <4>1. IsFiniteSet(T \ {x})
          BY <2>1, FS_Subset
        <4> QED
          BY <4>1, SumFacts
      <3>7. Sum(F, (T \union B) \ {x}) = Sum(F, (T \ {x}) \union B)
        BY <3>4
      <3>8. Sum(F, T \union B) = Sum(F, T) + Sum(F, B)
        <4> HIDE DEF G
        <4> QED
          BY <1>0, <3>2, <3>3, <3>5, <3>6, <3>7
      <3> QED
        BY <3>8
    <2> QED
      BY <2>3, <2>4
  <1>2. \A T \in SUBSET A : T \in G
    <2> HIDE DEF G
    <2> QED
      BY <1>1, SubsetInduction
  <1> QED
    BY <1>2

(* The same numbers under other names. *)
LEMMA SumImage ==
  ASSUME NEW S, IsFiniteSet(S), NEW f, \A x, y \in S : f[x] = f[y] => x = y,
         NEW F, NEW G, \A x \in S : F[x] \in Int /\ F[x] = G[f[x]]
  PROVE  Sum(F, S) = Sum(G, {f[x] : x \in S})
  <1> DEFINE Im(T) == {f[x] : x \in T}
             Same == {T \in SUBSET S : IsFiniteSet(Im(T)) /\ Sum(F, T) = Sum(G, Im(T))}
  <1>1. ASSUME NEW T \in SUBSET S, \A x \in T : T \ {x} \in Same PROVE T \in Same
    <2>1. IsFiniteSet(T)
      BY FS_Subset
    <2>2. CASE T = {}
      <3>1. Im(T) = {}
        BY <2>2
      <3>2. IsFiniteSet({})
        BY FS_EmptySet
      <3>3. Sum(F, {}) = 0 /\ Sum(G, {}) = 0
        BY <3>2, SumFacts
      <3> QED
        BY <2>2, <3>1, <3>2, <3>3
    <2>3. CASE T # {}
      <3>1. PICK x \in T : TRUE
        BY <2>3
      <3>2. Im(T) = Im(T \ {x}) \union {f[x]} /\ f[x] \notin Im(T \ {x})
        OBVIOUS
      <3>3. IsFiniteSet(Im(T \ {x})) /\ Sum(F, T \ {x}) = Sum(G, Im(T \ {x}))
        BY <1>1
      <3>4. \A y \in Im(T) : G[y] \in Int
        OBVIOUS
      <3> HIDE DEF Im
      <3>5. IsFiniteSet(Im(T))
        <4>1. IsFiniteSet(Im(T \ {x}) \union {f[x]})
          BY <3>3, FS_AddElement
        <4> QED
          BY <3>2, <4>1
      <3>6. Im(T) \ {f[x]} = Im(T \ {x}) /\ f[x] \in Im(T)
        BY <3>2
      <3>7. Sum(G, Im(T)) = G[f[x]] + Sum(G, Im(T) \ {f[x]})
        BY <3>4, <3>5, <3>6, SumFacts
      <3>8. Sum(F, T) = F[x] + Sum(F, T \ {x})
        BY <2>1, SumFacts
      <3> QED
        BY <3>3, <3>5, <3>6, <3>7, <3>8
    <2> QED
      BY <2>2, <2>3
  <1>2. \A T \in SUBSET S : T \in Same
    <2> HIDE DEF Same
    <2> QED
      BY <1>1, SubsetInduction
  <1> QED
    BY <1>2

(* The sum over pairs, row by row. *)
LEMMA SumProduct ==
  ASSUME NEW A, IsFiniteSet(A), NEW B, IsFiniteSet(B),
         NEW F, \A p \in A \X B : F[p] \in Int
  PROVE  Sum(F, A \X B) = Sum([x \in A |-> Sum([y \in B |-> F[<<x, y>>]], B)], A)
  <1> DEFINE Row(x) == Sum([y \in B |-> F[<<x, y>>]], B)
             Rows == [x \in A |-> Row(x)]
             G == {T \in SUBSET A : Sum(F, T \X B) = Sum(Rows, T)}
  <1>1. \A x \in A : Row(x) \in Int
    BY SumFacts
  <1>2. ASSUME NEW x \in A PROVE IsFiniteSet({x} \X B) /\ Sum(F, {x} \X B) = Row(x)
    <2> DEFINE f == [y \in B |-> <<x, y>>]
               H == [y \in B |-> F[<<x, y>>]]
    <2>1. \A y, z \in B : f[y] = f[z] => y = z
      OBVIOUS
    <2>2. \A y \in B : H[y] \in Int /\ H[y] = F[f[y]]
      OBVIOUS
    <2>3. {f[y] : y \in B} = {x} \X B
      OBVIOUS
    <2>4. IsFiniteSet({x} \X B)
      BY FS_Singleton, FS_Product
    <2> HIDE DEF f, H
    <2>5. Sum(H, B) = Sum(F, {f[y] : y \in B})
      BY <2>1, <2>2, SumImage
    <2> QED
      BY <2>3, <2>4, <2>5 DEF H
  <1> HIDE DEF Row
  <1>3. ASSUME NEW T \in SUBSET A, \A x \in T : T \ {x} \in G PROVE T \in G
    <2>1. IsFiniteSet(T)
      BY FS_Subset
    <2>2. CASE T = {}
      <3>1. T \X B = {} /\ IsFiniteSet({})
        BY <2>2, FS_EmptySet
      <3>2. Sum(F, {}) = 0 /\ Sum(Rows, {}) = 0
        BY <3>1, SumFacts
      <3> QED
        BY <2>2, <3>1, <3>2
    <2>3. CASE T # {}
      <3>1. PICK x \in T : TRUE
        BY <2>3
      <3>2. /\ T \X B = ((T \ {x}) \X B) \union ({x} \X B)
            /\ ((T \ {x}) \X B) \cap ({x} \X B) = {}
        OBVIOUS
      <3>3. IsFiniteSet((T \ {x}) \X B)
        BY <2>1, FS_Subset, FS_Product
      <3>4. Sum(F, T \X B) = Sum(F, (T \ {x}) \X B) + Sum(F, {x} \X B)
        <4>1. \A p \in ((T \ {x}) \X B) \union ({x} \X B) : F[p] \in Int
          OBVIOUS
        <4>2. Sum(F, T \X B) = Sum(F, ((T \ {x}) \X B) \union ({x} \X B))
          BY <3>2
        <4>3. IsFiniteSet({x} \X B) /\ ((T \ {x}) \X B) \cap ({x} \X B) = {}
          BY <1>2, <3>1, <3>2
        <4> QED
          BY <1>2, <3>1, <3>3, <4>1, <4>2, <4>3, SumUnion
      <3>5. Sum(F, (T \ {x}) \X B) = Sum(Rows, T \ {x})
        BY <1>3
      <3>6. Sum(Rows, T) = Rows[x] + Sum(Rows, T \ {x})
        <4>1. \A z \in T : Rows[z] \in Int
          BY <1>1
        <4> HIDE DEF Rows
        <4> QED
          BY <2>1, <4>1, SumFacts
      <3>7. Rows[x] = Row(x) /\ Row(x) \in Int
        BY <1>1
      <3>8. Sum(Rows, T \ {x}) \in Int
        <4>1. IsFiniteSet(T \ {x}) /\ \A z \in T \ {x} : Rows[z] \in Int
          BY <1>1, <2>1, FS_Subset
        <4> HIDE DEF Rows
        <4> QED
          BY <4>1, SumFacts
      <3> HIDE DEF Rows
      <3>9. Sum(F, T \X B) = Sum(Rows, T)
        <4>1. Sum(F, {x} \X B) = Row(x)
          BY <1>2
        <4> HIDE DEF G
        <4> QED
          BY <3>4, <3>5, <3>6, <3>7, <3>8, <4>1
      <3> QED
        BY <3>9
    <2> QED
      BY <2>2, <2>3
  <1>4. \A T \in SUBSET A : T \in G
    <2> HIDE DEF G
    <2> QED
      BY <1>3, SubsetInduction
  <1> QED
    BY <1>4 DEF Row

(* The sum over the three axes. *)
LEMMA SumOfThree ==
  ASSUME NEW F, F[1] \in Int, F[2] \in Int, F[3] \in Int
  PROVE  /\ IsFiniteSet({1, 2, 3})
         /\ Sum(F, {1, 2, 3}) = F[1] + F[2] + F[3]
  <1> DEFINE O == {}
             A == O \union {1}
             B == A \union {2}
             C == B \union {3}
  <1>1. /\ C \ {3} = B /\ B \ {2} = A /\ A \ {1} = O
        /\ 3 \in C /\ 2 \in B /\ 1 \in A
    OBVIOUS
  <1>2. /\ \A x \in C : F[x] \in Int
        /\ \A x \in B : F[x] \in Int
        /\ \A x \in A : F[x] \in Int
        /\ \A x \in O : F[x] \in Int
    OBVIOUS
  <1>3. C = {1, 2, 3}
    OBVIOUS
  <1>4. IsFiniteSet(O)
    BY FS_EmptySet
  <1>5. IsFiniteSet(A)
    BY <1>4, FS_AddElement
  <1>6. IsFiniteSet(B)
    BY <1>5, FS_AddElement
  <1>7. IsFiniteSet(C)
    BY <1>6, FS_AddElement
  <1>8. O = {}
    OBVIOUS
  <1> HIDE DEF O, A, B, C
  <1>9. Sum(F, C) = F[3] + Sum(F, B)
    BY <1>1, <1>2, <1>7, SumFacts
  <1>10. Sum(F, B) = F[2] + Sum(F, A)
    BY <1>1, <1>2, <1>6, SumFacts
  <1>11. Sum(F, A) = F[1] + Sum(F, O)
    BY <1>1, <1>2, <1>5, SumFacts
  <1>12. Sum(F, O) = 0
    BY <1>2, <1>4, <1>8, SumFacts
  <1>13. Sum(F, C) = F[1] + F[2] + F[3]
    BY <1>9, <1>10, <1>11, <1>12
  <1>14. Sum(F, C) = Sum(F, {1, 2, 3}) /\ IsFiniteSet({1, 2, 3})
    BY <1>3, <1>7
  <1> QED
    BY <1>13, <1>14

-----------------------------------------------------------------------------
(* The folds of the clusterings are sums.                                  *)

(* A coordinate, added up over a cluster. *)
LEMMA SumOverIsSum ==
  ASSUME NEW S, IsFiniteSet(S), NEW x, \A i \in S : points[i][x] \in Int
  PROVE  Definition!SumOver(S, x) = Sum([i \in S |-> points[i][x]], S)
  <1> DEFINE F == [i \in S |-> points[i][x]]
             c == [s \in SUBSET S |-> CHOOSE y \in s : TRUE]
             it == CHOOSE it : it = [s \in SUBSET S |->
                                        IF s = {} THEN 0
                                        ELSE LET y == CHOOSE y \in s : TRUE
                                             IN  points[y][x] + it[s \ {y}]]
  <1>1. Definition!SumOver(S, x) = it[S]
    BY DEF Definition!SumOver, Definition!MapThenSumSet, Definition!MapThenFoldSet
  <1>2. \A s \in SUBSET S : s # {} => c[s] \in s /\ c[s] = CHOOSE y \in s : TRUE
    OBVIOUS
  <1>3. \A y \in S : F[y] \in Int /\ F[y] = points[y][x]
    OBVIOUS
  <1> HIDE DEF F, c
  <1>4. \A g : [s \in SUBSET S |-> IF s = {} THEN 0 ELSE F[c[s]] + g[s \ {c[s]}]]
             = [s \in SUBSET S |-> IF s = {} THEN 0
                                   ELSE LET y == CHOOSE y \in s : TRUE
                                        IN  points[y][x] + g[s \ {y}]]
    BY <1>2, <1>3
  <1>5. it[S] = Sum(F, S)
    <2>1. \E g : Adds(g, F, S, c)
      BY <1>2, <1>3, FoldIsSum
    <2>2. \E g : g = [s \in SUBSET S |-> IF s = {} THEN 0
                                         ELSE LET y == CHOOSE y \in s : TRUE
                                              IN  points[y][x] + g[s \ {y}]]
      <3>1. PICK g : Adds(g, F, S, c)
        BY <2>1
      <3>2. g = [s \in SUBSET S |-> IF s = {} THEN 0
                                     ELSE LET y == CHOOSE y \in s : TRUE
                                          IN  points[y][x] + g[s \ {y}]]
        BY <3>1, <1>4 DEF Adds
      <3> QED
        BY <3>2, Zenon
    <2>3. it = [s \in SUBSET S |-> IF s = {} THEN 0
                                   ELSE LET y == CHOOSE y \in s : TRUE
                                        IN  points[y][x] + it[s \ {y}]]
      BY <2>2, Zenon
    <2> HIDE DEF it
    <2>4. Adds(it, F, S, c)
      BY <2>3, <1>4 DEF Adds
    <2> QED
      BY <2>4, <1>2, <1>3, FoldIsSum
  <1> QED
    BY <1>1, <1>5 DEF F

(* The numbers up to a bound are finitely many. *)
LEMMA NumbersFinite == \A n \in Nat : IsFiniteSet(1 .. n)
  BY FS_Interval

(* A row of squared distances, from one point to those of a list. *)
Row(i, list) == FoldLeft(LAMBDA s, j : s + Squared(Minus(points[i], points[j])), 0, list)

(* A row is a sum. *)
LEMMA RowIsSum ==
  ASSUME NEW n \in Nat, NEW list, DOMAIN list = 1 .. n, NEW i,
         \A k \in 1 .. n : Squared(Minus(points[i], points[list[k]])) \in Int
  PROVE  Row(i, list)
             = Sum([k \in 1 .. n |-> Squared(Minus(points[i], points[list[k]]))], 1 .. n)
  <1> DEFINE S == 1 .. n
             F == [k \in S |-> Squared(Minus(points[i], points[list[k]]))]
             c == [s \in SUBSET S |-> Max(s)]
             it == CHOOSE it : it = [s \in SUBSET S |->
                                        IF s = {} THEN 0
                                        ELSE LET y == Max(s)
                                             IN  it[s \ {y}]
                                                  + Squared(Minus(points[i], points[list[y]]))]
  <1>1. Row(i, list) = it[S]
    BY DEF Row, FoldLeft, MapThenFoldSet
  <1>2. IsFiniteSet(S)
    BY NumbersFinite
  <1>3. \A s \in SUBSET S : s # {} => c[s] \in s /\ c[s] = Max(s)
    <2> SUFFICES ASSUME NEW s \in SUBSET S, s # {} PROVE Max(s) \in s
      OBVIOUS
    <2>1. PICK m \in s : \A k \in s : k <= m
      BY Greatest
    <2>2. \A k \in s : m >= k
      BY <2>1
    <2> QED
      BY <2>2 DEF Max
  <1>4. \A y \in S : F[y] \in Int /\ F[y] = Squared(Minus(points[i], points[list[y]]))
    OBVIOUS
  <1> HIDE DEF F, c, S
  <1>5. \A g : [s \in SUBSET S |-> IF s = {} THEN 0 ELSE g[s \ {c[s]}] + F[c[s]]]
             = [s \in SUBSET S |-> IF s = {} THEN 0
                                   ELSE LET y == Max(s)
                                        IN  g[s \ {y}]
                                             + Squared(Minus(points[i], points[list[y]]))]
    BY <1>3, <1>4
  <1>6. it[S] = Sum(F, S)
    <2>1. PICK g : AddsAfter(g, F, S, c)
      BY <1>2, <1>3, <1>4, FoldAfterIsSum
    <2>2. g = [s \in SUBSET S |-> IF s = {} THEN 0
                                  ELSE LET y == Max(s)
                                       IN  g[s \ {y}]
                                            + Squared(Minus(points[i], points[list[y]]))]
      BY <2>1, <1>5 DEF AddsAfter
    <2>3. it = [s \in SUBSET S |-> IF s = {} THEN 0
                                   ELSE LET y == Max(s)
                                        IN  it[s \ {y}]
                                             + Squared(Minus(points[i], points[list[y]]))]
      BY <2>2, Zenon
    <2> HIDE DEF it
    <2>4. AddsAfter(it, F, S, c)
      BY <2>3, <1>5 DEF AddsAfter
    <2> QED
      BY <2>4, <1>2, <1>3, <1>4, FoldAfterIsSum
  <1> QED
    BY <1>1, <1>6 DEF F, S

(* The squared distances between the points of two lists. *)
LEMMA LinkageIsSum ==
  ASSUME NEW m \in Nat, NEW c1, DOMAIN c1 = 1 .. m, NEW c2,
         NEW R, \A k \in 1 .. m : R[k] \in Int /\ R[k] = Row(c1[k], c2)
  PROVE  AverageLinkage(points, c1, c2) = <<Sum(R, 1 .. m), Len(c1) * Len(c2)>>
  <1> DEFINE S == 1 .. m
             c == [s \in SUBSET S |-> Max(s)]
             it == CHOOSE it : it = [s \in SUBSET S |->
                                        IF s = {} THEN 0
                                        ELSE LET y == Max(s)
                                             IN  it[s \ {y}] + Row(c1[y], c2)]
  <1>1. AverageLinkage(points, c1, c2) = <<it[S], Len(c1) * Len(c2)>>
    BY DEF AverageLinkage, Row, FoldLeft, MapThenFoldSet
  <1>2. IsFiniteSet(S)
    BY NumbersFinite
  <1>3. \A s \in SUBSET S : s # {} => c[s] \in s /\ c[s] = Max(s)
    <2> SUFFICES ASSUME NEW s \in SUBSET S, s # {} PROVE Max(s) \in s
      OBVIOUS
    <2>1. PICK k \in s : \A l \in s : l <= k
      BY Greatest
    <2>2. \A l \in s : k >= l
      BY <2>1
    <2> QED
      BY <2>2 DEF Max
  <1>4. \A y \in S : R[y] \in Int /\ R[y] = Row(c1[y], c2)
    OBVIOUS
  <1> HIDE DEF c, S
  <1>5. \A g : [s \in SUBSET S |-> IF s = {} THEN 0 ELSE g[s \ {c[s]}] + R[c[s]]]
             = [s \in SUBSET S |-> IF s = {} THEN 0
                                   ELSE LET y == Max(s)
                                        IN  g[s \ {y}] + Row(c1[y], c2)]
    BY <1>3, <1>4
  <1>6. it[S] = Sum(R, S)
    <2>1. PICK g : AddsAfter(g, R, S, c)
      BY <1>2, <1>3, <1>4, FoldAfterIsSum
    <2>2. g = [s \in SUBSET S |-> IF s = {} THEN 0
                                  ELSE LET y == Max(s)
                                       IN  g[s \ {y}] + Row(c1[y], c2)]
      BY <2>1, <1>5 DEF AddsAfter
    <2>3. it = [s \in SUBSET S |-> IF s = {} THEN 0
                                   ELSE LET y == Max(s)
                                        IN  it[s \ {y}] + Row(c1[y], c2)]
      BY <2>2, Zenon
    <2> HIDE DEF it
    <2>4. AddsAfter(it, R, S, c)
      BY <2>3, <1>5 DEF AddsAfter
    <2> QED
      BY <2>4, <1>2, <1>3, <1>4, FoldAfterIsSum
  <1> QED
    BY <1>1, <1>6 DEF S

(* The squared distance of two points, axis by axis. *)
LEMMA SquaresAreSum ==
  ASSUME NEW p, points[p[1]][1] \in Int, points[p[1]][2] \in Int, points[p[1]][3] \in Int,
                points[p[2]][1] \in Int, points[p[2]][2] \in Int, points[p[2]][3] \in Int
  PROVE  Definition!MapThenSumSet(LAMBDA x : Definition!Square(points[p[1]][x] - points[p[2]][x]),
                                  Definition!Axes)
             =   (points[p[1]][1] - points[p[2]][1]) * (points[p[1]][1] - points[p[2]][1])
               + (points[p[1]][2] - points[p[2]][2]) * (points[p[1]][2] - points[p[2]][2])
               + (points[p[1]][3] - points[p[2]][3]) * (points[p[1]][3] - points[p[2]][3])
  <1> DEFINE D(x) == points[p[1]][x] - points[p[2]][x]
             S == 1 .. 3
             F == [x \in S |-> D(x) * D(x)]
             c == [s \in SUBSET S |-> CHOOSE y \in s : TRUE]
             it == CHOOSE it : it = [s \in SUBSET S |->
                                        IF s = {} THEN 0
                                        ELSE LET y == CHOOSE y \in s : TRUE
                                             IN  D(y) * D(y) + it[s \ {y}]]
  <1>1. Definition!MapThenSumSet(LAMBDA x : Definition!Square(points[p[1]][x] - points[p[2]][x]),
                                 Definition!Axes) = it[S]
    BY DEF Definition!MapThenSumSet, Definition!MapThenFoldSet, Definition!Square, Definition!Axes
  <1>2. S = {1, 2, 3}
    OBVIOUS
  <1>3. \A s \in SUBSET S : s # {} => c[s] \in s /\ c[s] = CHOOSE y \in s : TRUE
    OBVIOUS
  <1>4. \A y \in S : F[y] \in Int /\ F[y] = D(y) * D(y)
    OBVIOUS
  <1>5. /\ F[1] = D(1) * D(1) /\ F[2] = D(2) * D(2) /\ F[3] = D(3) * D(3)
        /\ F[1] \in Int /\ F[2] \in Int /\ F[3] \in Int
    OBVIOUS
  <1>6. IsFiniteSet(S) /\ Sum(F, S) = F[1] + F[2] + F[3]
    <2> HIDE DEF F
    <2>1. Sum(F, S) = Sum(F, {1, 2, 3})
      BY <1>2
    <2> QED
      BY <1>2, <1>5, <2>1, SumOfThree
  <1> HIDE DEF F, c, S, D
  <1>7. \A g : [s \in SUBSET S |-> IF s = {} THEN 0 ELSE F[c[s]] + g[s \ {c[s]}]]
             = [s \in SUBSET S |-> IF s = {} THEN 0
                                   ELSE LET y == CHOOSE y \in s : TRUE
                                        IN  D(y) * D(y) + g[s \ {y}]]
    BY <1>3, <1>4
  <1>8. it[S] = Sum(F, S)
    <2>1. PICK g : Adds(g, F, S, c)
      BY <1>3, <1>4, <1>6, FoldIsSum
    <2>2. g = [s \in SUBSET S |-> IF s = {} THEN 0
                                  ELSE LET y == CHOOSE y \in s : TRUE
                                       IN  D(y) * D(y) + g[s \ {y}]]
      BY <2>1, <1>7 DEF Adds
    <2>3. it = [s \in SUBSET S |-> IF s = {} THEN 0
                                   ELSE LET y == CHOOSE y \in s : TRUE
                                        IN  D(y) * D(y) + it[s \ {y}]]
      BY <2>2, Zenon
    <2> HIDE DEF it
    <2>4. Adds(it, F, S, c)
      BY <2>3, <1>7 DEF Adds
    <2> QED
      BY <2>4, <1>3, <1>4, <1>6, FoldIsSum
  <1>9. Definition!MapThenSumSet(LAMBDA x : Definition!Square(points[p[1]][x] - points[p[2]][x]),
                                 Definition!Axes) = F[1] + F[2] + F[3]
    BY <1>1, <1>6, <1>8
  <1>10. F[1] + F[2] + F[3] = D(1) * D(1) + D(2) * D(2) + D(3) * D(3)
    BY <1>5
  <1> QED
    BY <1>9, <1>10 DEF D

Vector == [1 .. 3 -> Int]

(* Squares and differences of vectors. *)
LEMMA VectorFacts ==
  ASSUME NEW v \in Vector, NEW w \in Vector
  PROVE  /\ v[1] \in Int /\ v[2] \in Int /\ v[3] \in Int
         /\ Squared(v) \in Int /\ Minus(v, w) \in Vector /\ Plus(v, w) \in Vector
         /\ \A k \in Int : Times(k, v) \in Vector
         /\ Squared(Minus(v, w)) =   (v[1] - w[1]) * (v[1] - w[1])
                                   + (v[2] - w[2]) * (v[2] - w[2])
                                   + (v[3] - w[3]) * (v[3] - w[3])
         /\ Squared(Minus(v, w)) = Squared(Minus(w, v))
         /\ Squared(Minus(v, w)) \in Int
  <1>1. /\ v[1] \in Int /\ v[2] \in Int /\ v[3] \in Int
        /\ w[1] \in Int /\ w[2] \in Int /\ w[3] \in Int
    BY DEF Vector
  <1>2. Minus(v, w) \in Vector /\ Minus(w, v) \in Vector /\ Plus(v, w) \in Vector
    BY DEF Vector, Minus, Plus
  <1>3. \A k \in Int : Times(k, v) \in Vector
    BY DEF Vector, Times
  <1>4. /\ Minus(v, w)[1] = v[1] - w[1] /\ Minus(v, w)[2] = v[2] - w[2]
        /\ Minus(v, w)[3] = v[3] - w[3]
        /\ Minus(w, v)[1] = w[1] - v[1] /\ Minus(w, v)[2] = w[2] - v[2]
        /\ Minus(w, v)[3] = w[3] - v[3]
    BY DEF Vector, Minus
  <1>5. \A x, y \in Int : (x - y) * (x - y) \in Int /\ (x - y) * (x - y) = (y - x) * (y - x)
    OBVIOUS
  <1>6. Squared(Minus(v, w)) =   (v[1] - w[1]) * (v[1] - w[1])
                               + (v[2] - w[2]) * (v[2] - w[2])
                               + (v[3] - w[3]) * (v[3] - w[3])
    BY <1>4 DEF Squared
  <1>7. Squared(Minus(w, v)) =   (w[1] - v[1]) * (w[1] - v[1])
                               + (w[2] - v[2]) * (w[2] - v[2])
                               + (w[3] - v[3]) * (w[3] - v[3])
    BY <1>4 DEF Squared
  <1>8. Squared(Minus(v, w)) = Squared(Minus(w, v)) /\ Squared(Minus(v, w)) \in Int
    BY <1>1, <1>5, <1>6, <1>7
  <1>9. Squared(v) \in Int
    BY <1>1 DEF Squared
  <1> QED
    BY <1>1, <1>2, <1>3, <1>6, <1>8, <1>9

(* The abstract module counts as this one does. *)
LEMMA SameCardinality == \A S : Definition!Cardinality(S) = Cardinality(S)
  BY DEF Definition!Cardinality, Cardinality

(* The squared distance of the points of a pair. *)
Spread(a, b) == [p \in a \X b |-> Squared(Minus(points[p[1]], points[p[2]]))]

(* The mean distance, up to the number of pairs, is a sum over the pairs. *)
LEMMA MeanIsSum ==
  ASSUME NEW a, IsFiniteSet(a), NEW b, IsFiniteSet(b), \A i \in a \union b : points[i] \in Vector
  PROVE  Definition!Mean(a, b) = <<Sum(Spread(a, b), a \X b), Cardinality(a) * Cardinality(b)>>
  <1> DEFINE Q(p) == Definition!MapThenSumSet(
                         LAMBDA x : Definition!Square(points[p[1]][x] - points[p[2]][x]),
                         Definition!Axes)
             S == a \X b
             F == Spread(a, b)
             c == [s \in SUBSET S |-> CHOOSE y \in s : TRUE]
             it == CHOOSE it : it = [s \in SUBSET S |->
                                        IF s = {} THEN 0
                                        ELSE LET y == CHOOSE y \in s : TRUE
                                             IN  Q(y) + it[s \ {y}]]
  <1>1. Definition!Mean(a, b) = <<it[S], Definition!Cardinality(a) * Definition!Cardinality(b)>>
    BY DEF Definition!Mean, Definition!MapThenSumSet, Definition!MapThenFoldSet
  <1>2. IsFiniteSet(S)
    BY FS_Product
  <1>3. \A s \in SUBSET S : s # {} => c[s] \in s /\ c[s] = CHOOSE y \in s : TRUE
    OBVIOUS
  <1>4. ASSUME NEW p \in S PROVE F[p] \in Int /\ F[p] = Q(p)
    <2>1. points[p[1]] \in Vector /\ points[p[2]] \in Vector
      OBVIOUS
    <2>2. F[p] = Squared(Minus(points[p[1]], points[p[2]]))
      BY DEF Spread
    <2>3. /\ points[p[1]][1] \in Int /\ points[p[1]][2] \in Int /\ points[p[1]][3] \in Int
          /\ points[p[2]][1] \in Int /\ points[p[2]][2] \in Int /\ points[p[2]][3] \in Int
          /\ F[p] \in Int
      <3>1. \A v \in Vector : v[1] \in Int /\ v[2] \in Int /\ v[3] \in Int
        BY VectorFacts
      <3>2. \A v, w \in Vector : Squared(Minus(v, w)) \in Int
        BY VectorFacts
      <3> QED
        BY <2>1, <2>2, <3>1, <3>2
    <2>4. Q(p) = Squared(Minus(points[p[1]], points[p[2]]))
      BY <2>1, <2>3, VectorFacts, SquaresAreSum
    <2> QED
      BY <2>2, <2>3, <2>4
  <1> HIDE DEF F, c, S, Q
  <1>7. \A g : [s \in SUBSET S |-> IF s = {} THEN 0 ELSE F[c[s]] + g[s \ {c[s]}]]
             = [s \in SUBSET S |-> IF s = {} THEN 0
                                   ELSE LET y == CHOOSE y \in s : TRUE
                                        IN  Q(y) + g[s \ {y}]]
    BY <1>3, <1>4
  <1>8. it[S] = Sum(F, S)
    <2>1. PICK g : Adds(g, F, S, c)
      BY <1>2, <1>3, <1>4, FoldIsSum
    <2>2. g = [s \in SUBSET S |-> IF s = {} THEN 0
                                  ELSE LET y == CHOOSE y \in s : TRUE
                                       IN  Q(y) + g[s \ {y}]]
      BY <2>1, <1>7 DEF Adds
    <2>3. it = [s \in SUBSET S |-> IF s = {} THEN 0
                                   ELSE LET y == CHOOSE y \in s : TRUE
                                        IN  Q(y) + it[s \ {y}]]
      BY <2>2, Zenon
    <2> HIDE DEF it
    <2>4. Adds(it, F, S, c)
      BY <2>3, <1>7 DEF Adds
    <2> QED
      BY <2>4, <1>2, <1>3, <1>4, FoldIsSum
  <1> QED
    BY <1>1, <1>8, SameCardinality DEF F, S

(* The scaled difference of two centroids along an axis. *)
Offset(a, b, x) ==
    Cardinality(b) * Sum([i \in a |-> points[i][x]], a) - Cardinality(a) * Sum([i \in b |-> points[i][x]], b)

(* The distance of two centroids, axis by axis. *)
LEMMA BetweenIsSum ==
  ASSUME NEW a, IsFiniteSet(a), NEW b, IsFiniteSet(b), \A i \in a \union b : points[i] \in Vector
  PROVE  Definition!BetweenCentroids(a, b) =
             <<Offset(a, b, 1) * Offset(a, b, 1) + Offset(a, b, 2) * Offset(a, b, 2)
                   + Offset(a, b, 3) * Offset(a, b, 3),
               (Cardinality(a) * Cardinality(b)) * (Cardinality(a) * Cardinality(b))>>
  <1> DEFINE D(x) == Definition!Cardinality(b) * Definition!SumOver(a, x)
                       - Definition!Cardinality(a) * Definition!SumOver(b, x)
             S == 1 .. 3
             F == [x \in S |-> Offset(a, b, x) * Offset(a, b, x)]
             c == [s \in SUBSET S |-> CHOOSE y \in s : TRUE]
             it == CHOOSE it : it = [s \in SUBSET S |->
                                        IF s = {} THEN 0
                                        ELSE LET y == CHOOSE y \in s : TRUE
                                             IN  D(y) * D(y) + it[s \ {y}]]
  <1>1. Definition!BetweenCentroids(a, b) =
            <<it[S], (Definition!Cardinality(a) * Definition!Cardinality(b))
                        * (Definition!Cardinality(a) * Definition!Cardinality(b))>>
    BY DEF Definition!BetweenCentroids, Definition!MapThenSumSet, Definition!MapThenFoldSet,
           Definition!Square, Definition!Axes, Definition!SumOver
  <1>2. S = {1, 2, 3}
    OBVIOUS
  <1>3. \A s \in SUBSET S : s # {} => c[s] \in s /\ c[s] = CHOOSE y \in s : TRUE
    OBVIOUS
  <1>4. ASSUME NEW x \in S PROVE Offset(a, b, x) \in Int /\ D(x) = Offset(a, b, x)
    <2>1. \A i \in a \union b : points[i][x] \in Int
      BY DEF Vector
    <2>2. /\ Definition!SumOver(a, x) = Sum([i \in a |-> points[i][x]], a)
          /\ Definition!SumOver(b, x) = Sum([i \in b |-> points[i][x]], b)
      BY <2>1, SumOverIsSum
    <2>3. Sum([i \in a |-> points[i][x]], a) \in Int /\ Sum([i \in b |-> points[i][x]], b) \in Int
      BY <2>1, SumFacts
    <2>4. Cardinality(a) \in Int /\ Cardinality(b) \in Int
      BY FS_CardinalityType
    <2> QED
      BY <2>2, <2>3, <2>4, SameCardinality DEF Offset
  <1>5. \A y \in S : F[y] \in Int /\ F[y] = D(y) * D(y)
    BY <1>4
  <1>6. /\ F[1] = Offset(a, b, 1) * Offset(a, b, 1) /\ F[2] = Offset(a, b, 2) * Offset(a, b, 2)
        /\ F[3] = Offset(a, b, 3) * Offset(a, b, 3)
        /\ F[1] \in Int /\ F[2] \in Int /\ F[3] \in Int
    BY <1>5
  <1>7. IsFiniteSet(S) /\ Sum(F, S) = F[1] + F[2] + F[3]
    <2> HIDE DEF F
    <2>1. Sum(F, S) = Sum(F, {1, 2, 3})
      BY <1>2
    <2> QED
      BY <1>2, <1>6, <2>1, SumOfThree
  <1> HIDE DEF F, c, S, D
  <1>8. \A g : [s \in SUBSET S |-> IF s = {} THEN 0 ELSE F[c[s]] + g[s \ {c[s]}]]
             = [s \in SUBSET S |-> IF s = {} THEN 0
                                   ELSE LET y == CHOOSE y \in s : TRUE
                                        IN  D(y) * D(y) + g[s \ {y}]]
    BY <1>3, <1>5
  <1>9. it[S] = Sum(F, S)
    <2>1. PICK g : Adds(g, F, S, c)
      BY <1>3, <1>5, <1>7, FoldIsSum
    <2>2. g = [s \in SUBSET S |-> IF s = {} THEN 0
                                  ELSE LET y == CHOOSE y \in s : TRUE
                                       IN  D(y) * D(y) + g[s \ {y}]]
      BY <2>1, <1>8 DEF Adds
    <2>3. it = [s \in SUBSET S |-> IF s = {} THEN 0
                                   ELSE LET y == CHOOSE y \in s : TRUE
                                        IN  D(y) * D(y) + it[s \ {y}]]
      BY <2>2, Zenon
    <2> HIDE DEF it
    <2>4. Adds(it, F, S, c)
      BY <2>3, <1>8 DEF Adds
    <2> QED
      BY <2>4, <1>3, <1>5, <1>7, FoldIsSum
  <1> HIDE DEF it
  <1> QED
    BY <1>1, <1>6, <1>7, <1>9, SameCardinality

-----------------------------------------------------------------------------
(* Fractions, and the best pair.                                           *)

Fraction == {x \in Int \X Int : x[2] > 0}

(* Factors that are positive. *)
LEMMA Multiplied ==
  ASSUME NEW a \in Int, NEW b \in Int, NEW k \in Int, k > 0
  PROVE  (a < b <=> k * a < k * b) /\ (a <= b <=> k * a <= k * b)
  <1>1. a < b => k * a < k * b
    <2>1. a < b => k * (b - a) > 0
      OBVIOUS
    <2>2. k * (b - a) = k * b - k * a
      OBVIOUS
    <2> QED
      BY <2>1, <2>2
  <1>2. b < a => k * b < k * a
    <2>1. b < a => k * (a - b) > 0
      OBVIOUS
    <2>2. k * (a - b) = k * a - k * b
      OBVIOUS
    <2> QED
      BY <2>1, <2>2
  <1>3. k * a \in Int /\ k * b \in Int /\ (a = b => k * a = k * b)
    OBVIOUS
  <1> QED
    BY <1>1, <1>2, <1>3

(* Fractions are in order. *)
LEMMA LessFacts ==
  ASSUME NEW x \in Fraction, NEW y \in Fraction, NEW z \in Fraction
  PROVE  /\ Less(x, y) /\ ~Less(z, y) => Less(x, z)
         /\ ~Less(y, x) /\ Less(y, z) => Less(x, z)
         /\ ~Less(y, x) /\ ~Less(z, y) => ~Less(z, x)
         /\ Less(x, y) => ~Less(y, x)
  <1>1. /\ x[1] \in Int /\ x[2] \in Int /\ x[2] > 0
        /\ y[1] \in Int /\ y[2] \in Int /\ y[2] > 0
        /\ z[1] \in Int /\ z[2] \in Int /\ z[2] > 0
    BY DEF Fraction
  <1> DEFINE xy == x[1] * y[2]
             yx == y[1] * x[2]
             yz == y[1] * z[2]
             zy == z[1] * y[2]
             xz == x[1] * z[2]
             zx == z[1] * x[2]
  <1>2. /\ xy \in Int /\ yx \in Int /\ yz \in Int /\ zy \in Int /\ xz \in Int /\ zx \in Int
    BY <1>1
  <1>3. z[2] * xy = y[2] * xz /\ x[2] * zy = y[2] * zx /\ z[2] * yx = x[2] * yz
    BY <1>1
  <1>4. /\ Less(x, y) <=> xy < yx
        /\ Less(y, x) <=> yx < xy
        /\ Less(y, z) <=> yz < zy
        /\ Less(z, y) <=> zy < yz
        /\ Less(x, z) <=> xz < zx
        /\ Less(z, x) <=> zx < xz
    BY DEF Less
  <1> HIDE DEF xy, yx, yz, zy, xz, zx
  <1>5. /\ xy < yx <=> z[2] * xy < z[2] * yx
        /\ xy <= yx <=> z[2] * xy <= z[2] * yx
        /\ yz < zy <=> x[2] * yz < x[2] * zy
        /\ yz <= zy <=> x[2] * yz <= x[2] * zy
        /\ xz < zx <=> y[2] * xz < y[2] * zx
        /\ xz <= zx <=> y[2] * xz <= y[2] * zx
    BY <1>1, <1>2, Multiplied
  <1>6. /\ z[2] * xy \in Int /\ z[2] * yx \in Int /\ x[2] * yz \in Int /\ x[2] * zy \in Int
        /\ y[2] * xz \in Int /\ y[2] * zx \in Int
    BY <1>1, <1>2
  <1> QED
    BY <1>2, <1>3, <1>4, <1>5, <1>6

(* The pairs i < j of S, and their order by distance and place. *)
PairsOf(S) == {p \in S \X S : p[1] < p[2]}
Before(p, q) == p[1] < q[1] \/ (p[1] = q[1] /\ p[2] < q[2])
Precedes(D, p, q) == Less(D[p], D[q]) \/ (~Less(D[q], D[p]) /\ Before(p, q))

(* What pairs are. *)
LEMMA PairFacts ==
  ASSUME NEW S \in SUBSET Int, NEW p \in PairsOf(S)
  PROVE  /\ p[1] \in S /\ p[2] \in S /\ p[1] \in Int /\ p[2] \in Int /\ p[1] < p[2]
         /\ p = <<p[1], p[2]>>
  <1>1. p \in S \X S /\ p[1] < p[2]
    BY DEF PairsOf
  <1>2. p = <<p[1], p[2]>>
    BY DEF PairsOf
  <1>3. p[1] \in S /\ p[2] \in S
    BY DEF PairsOf
  <1> QED
    BY <1>1, <1>2, <1>3

(* There is a first pair at the least distance. *)
LEMMA BestExists ==
  ASSUME NEW S \in SUBSET Int, IsFiniteSet(S), NEW D, \A p \in PairsOf(S) : D[p] \in Fraction,
         PairsOf(S) # {}
  PROVE  \E p \in PairsOf(S) : \A q \in PairsOf(S) \ {p} : Precedes(D, p, q)
  <1> DEFINE P == PairsOf(S)
             G == {T \in SUBSET P : T # {} => \E p \in T : \A q \in T \ {p} : Precedes(D, p, q)}
  <1>1. IsFiniteSet(P)
    <2>1. IsFiniteSet(S \X S) /\ P \subseteq S \X S
      BY FS_Product DEF PairsOf
    <2> QED
      BY <2>1, FS_Subset
  <1>2. ASSUME NEW p \in P, NEW q \in P, NEW r \in P
        PROVE  /\ Precedes(D, p, q) /\ Precedes(D, q, r) => Precedes(D, p, r)
               /\ p # q => Precedes(D, p, q) \/ Precedes(D, q, p)
    <2>1. D[p] \in Fraction /\ D[q] \in Fraction /\ D[r] \in Fraction
      OBVIOUS
    <2>2. /\ Before(p, q) /\ Before(q, r) => Before(p, r)
          /\ p # q => Before(p, q) \/ Before(q, p)
      <3>1. /\ p[1] \in Int /\ p[2] \in Int /\ q[1] \in Int /\ q[2] \in Int
            /\ r[1] \in Int /\ r[2] \in Int
            /\ p = <<p[1], p[2]>> /\ q = <<q[1], q[2]>>
        BY PairFacts
      <3> QED
        BY <3>1 DEF Before
    <2>3. /\ Less(D[p], D[q]) /\ ~Less(D[r], D[q]) => Less(D[p], D[r])
          /\ ~Less(D[q], D[p]) /\ Less(D[q], D[r]) => Less(D[p], D[r])
          /\ ~Less(D[q], D[p]) /\ ~Less(D[r], D[q]) => ~Less(D[r], D[p])
          /\ Less(D[q], D[r]) => ~Less(D[r], D[q])
      BY <2>1, LessFacts
    <2> QED
      BY <2>2, <2>3 DEF Precedes
  <1> HIDE DEF P
  <1>3. ASSUME NEW T \in SUBSET P, \A x \in T : T \ {x} \in G PROVE T \in G
    <2> SUFFICES ASSUME T # {} PROVE \E p \in T : \A q \in T \ {p} : Precedes(D, p, q)
      OBVIOUS
    <2>1. PICK x \in T : TRUE
      OBVIOUS
    <2>2. CASE T \ {x} = {}
      BY <2>1, <2>2
    <2>3. CASE T \ {x} # {}
      <3>1. PICK b \in T \ {x} : \A q \in (T \ {x}) \ {b} : Precedes(D, b, q)
        BY <1>3, <2>1, <2>3
      <3>2. CASE Precedes(D, b, x)
        BY <2>1, <3>1, <3>2
      <3>3. CASE Precedes(D, x, b)
        <4>1. \A q \in T \ {x} : Precedes(D, x, q)
          <5> SUFFICES ASSUME NEW q \in T \ {x} PROVE Precedes(D, x, q)
            OBVIOUS
          <5>1. CASE q = b
            BY <3>3, <5>1
          <5>2. CASE q # b
            <6>1. Precedes(D, b, q)
              BY <3>1, <5>2
            <6>2. x \in P /\ b \in P /\ q \in P
              BY <2>1
            <6> QED
              BY <1>2, <3>3, <6>1, <6>2
          <5> QED
            BY <5>1, <5>2
        <4> QED
          BY <2>1, <4>1
      <3>4. x \in P /\ b \in P /\ x # b
        BY <2>1
      <3> QED
        BY <1>2, <3>2, <3>3, <3>4
    <2> QED
      BY <2>2, <2>3
  <1>4. \A T \in SUBSET P : T \in G
    <2> HIDE DEF G
    <2> QED
      BY <1>1, <1>3, SubsetInduction
  <1>5. P \in G
    BY <1>4
  <1> QED
    BY <1>5 DEF P

-----------------------------------------------------------------------------
(* Numbers by first appearance.                                            *)

(* The values of f up to k. *)
Seen(f, k) == {f[j] : j \in 1 .. k}

(* The image of a finite set is finite. *)
LEMMA ImageFinite ==
  ASSUME NEW S, IsFiniteSet(S), NEW f
  PROVE  IsFiniteSet({f[x] : x \in S})
  <1> DEFINE g == [x \in S |-> f[x]]
             T == {f[x] : x \in S}
  <1>1. g \in Surjection(S, T)
    BY DEF Surjection
  <1> HIDE DEF g, T
  <1>2. IsFiniteSet(T)
    BY <1>1, FS_Surjection
  <1> QED
    BY <1>2 DEF T

(* How the values seen grow. *)
LEMMA SeenFacts ==
  ASSUME NEW n \in Nat, NEW f
  PROVE  /\ \A k \in 0 .. n : Cardinality(Seen(f, k)) \in Nat
         /\ Cardinality(Seen(f, 0)) = 0
         /\ \A k \in 1 .. n : Cardinality(Seen(f, k)) =
                IF f[k] \in Seen(f, k - 1) THEN Cardinality(Seen(f, k - 1))
                ELSE Cardinality(Seen(f, k - 1)) + 1
         /\ \A i, k \in 0 .. n : (\E v \in Seen(f, k) : v \notin Seen(f, i)) /\ i <= k
                                    => Cardinality(Seen(f, i)) < Cardinality(Seen(f, k))
  <1>1. ASSUME NEW k \in Nat PROVE IsFiniteSet(Seen(f, k)) /\ Cardinality(Seen(f, k)) \in Nat
    <2>1. IsFiniteSet(1 .. k)
      BY NumbersFinite
    <2>2. IsFiniteSet(Seen(f, k))
      BY <2>1, ImageFinite DEF Seen
    <2> QED
      BY <2>2, FS_CardinalityType
  <1>2. Cardinality(Seen(f, 0)) = 0
    <2>1. Seen(f, 0) = {}
      BY DEF Seen
    <2> QED
      BY <2>1, FS_EmptySet
  <1>3. ASSUME NEW k \in 1 .. n
        PROVE  Cardinality(Seen(f, k)) =
                   IF f[k] \in Seen(f, k - 1) THEN Cardinality(Seen(f, k - 1))
                   ELSE Cardinality(Seen(f, k - 1)) + 1
    <2>1. Seen(f, k) = Seen(f, k - 1) \union {f[k]}
      <3>1. 1 .. k = 1 .. k - 1 \union {k}
        OBVIOUS
      <3> QED
        BY <3>1 DEF Seen
    <2>2. k - 1 \in Nat
      OBVIOUS
    <2> QED
      BY <1>1, <2>1, <2>2, FS_AddElement
  <1>4. ASSUME NEW i \in 0 .. n, NEW k \in 0 .. n, NEW v \in Seen(f, k), v \notin Seen(f, i), i <= k
        PROVE  Cardinality(Seen(f, i)) < Cardinality(Seen(f, k))
    <2>1. Seen(f, i) \subseteq Seen(f, k) /\ Seen(f, i) # Seen(f, k)
      BY <1>4 DEF Seen
    <2>2. IsFiniteSet(Seen(f, k)) /\ i \in Nat /\ k \in Nat
      BY <1>1
    <2>3. Cardinality(Seen(f, i)) <= Cardinality(Seen(f, k))
      BY <2>1, <2>2, FS_Subset
    <2>4. Cardinality(Seen(f, i)) # Cardinality(Seen(f, k))
      BY <2>1, <2>2, FS_Subset
    <2> QED
      BY <1>1, <2>2, <2>3, <2>4
  <1> QED
    BY <1>1, <1>2, <1>3, <1>4

(* Numbers without a hole, from 0. *)
Contiguous(f) == \E k \in Nat : Range(f) = 0 .. k - 1

(* Equal numbers mean equal values, and no number is left out. *)
LEMMA FirstAppearance ==
  ASSUME NEW n \in Nat, NEW f, DOMAIN f = 1 .. n
  PROVE  /\ DOMAIN ByFirstAppearance(f) = 1 .. n
         /\ \A i, j \in 1 .. n : ByFirstAppearance(f)[i] = ByFirstAppearance(f)[j] <=> f[i] = f[j]
         /\ Contiguous(ByFirstAppearance(f))
  <1> DEFINE V(k) == Cardinality(Seen(f, k))
             First(i) == Min({j \in 1 .. n : f[j] = f[i]})
             b == ByFirstAppearance(f)
  <1>1. DOMAIN b = 1 .. n /\ \A i \in 1 .. n : b[i] = V(First(i) - 1)
    BY DEF ByFirstAppearance, Seen
  <1>2. ASSUME NEW i \in 1 .. n
        PROVE  /\ First(i) \in 1 .. n /\ f[First(i)] = f[i]
               /\ \A j \in 1 .. n : f[j] = f[i] => First(i) <= j
    <2> DEFINE S == {j \in 1 .. n : f[j] = f[i]}
    <2>1. \E m \in S : \A k \in S : m <= k
      <3>1. S \subseteq Nat /\ i \in S
        OBVIOUS
      <3> HIDE DEF S
      <3> QED
        BY <3>1, Least
    <2>2. First(i) \in S /\ \A k \in S : First(i) <= k
      BY <2>1 DEF Min
    <2> QED
      BY <2>2
  <1>3. \A i, j \in 1 .. n : f[i] = f[j] => First(i) = First(j)
    <2> SUFFICES ASSUME NEW i \in 1 .. n, NEW j \in 1 .. n, f[i] = f[j] PROVE First(i) = First(j)
      OBVIOUS
    <2>1. {k \in 1 .. n : f[k] = f[i]} = {k \in 1 .. n : f[k] = f[j]}
      OBVIOUS
    <2> QED
      BY <2>1
  <1> HIDE DEF First, V, b
  <1>4. ASSUME NEW i \in 1 .. n PROVE f[i] \notin Seen(f, First(i) - 1)
    <2>1. /\ First(i) \in 1 .. n /\ f[First(i)] = f[i]
          /\ \A j \in 1 .. n : f[j] = f[i] => First(i) <= j
      BY <1>2
    <2>2. \A j \in 1 .. First(i) - 1 : f[j] # f[i]
      BY <2>1
    <2> QED
      BY <2>2 DEF Seen
  <1>5. ASSUME NEW i \in 1 .. n, NEW k \in 0 .. n, First(i) <= k
        PROVE  V(First(i) - 1) < V(k)
    <2>1. First(i) \in 1 .. n /\ f[First(i)] = f[i]
      BY <1>2
    <2>2. f[i] \in Seen(f, k)
      <3>1. First(i) \in 1 .. k
        BY <1>5, <2>1
      <3> QED
        BY <2>1, <3>1 DEF Seen
    <2>3. First(i) - 1 \in 0 .. n /\ First(i) - 1 <= k
      BY <1>5, <2>1
    <2> QED
      BY <1>4, <2>2, <2>3, SeenFacts DEF V
  <1>6. ASSUME NEW i \in 1 .. n, NEW j \in 1 .. n, First(i) < First(j)
        PROVE  b[i] # b[j]
    <2>1. First(j) - 1 \in 0 .. n /\ First(i) <= First(j) - 1
      BY <1>2, <1>6
    <2>2. V(First(i) - 1) < V(First(j) - 1)
      BY <2>1, <1>5
    <2>3. V(First(i) - 1) \in Nat /\ V(First(j) - 1) \in Nat
      <3>1. First(i) - 1 \in 0 .. n
        BY <1>2
      <3> QED
        BY <2>1, <3>1, SeenFacts DEF V
    <2> QED
      BY <1>1, <2>2, <2>3
  <1>7. \A i, j \in 1 .. n : b[i] = b[j] <=> f[i] = f[j]
    <2> SUFFICES ASSUME NEW i \in 1 .. n, NEW j \in 1 .. n PROVE b[i] = b[j] <=> f[i] = f[j]
      OBVIOUS
    <2>1. f[i] = f[j] => b[i] = b[j]
      BY <1>1, <1>3
    <2>2. First(i) = First(j) => f[i] = f[j]
      BY <1>2
    <2>3. First(i) \in 1 .. n /\ First(j) \in 1 .. n
      BY <1>2
    <2>4. First(i) # First(j) => b[i] # b[j]
      BY <1>6, <2>3
    <2> QED
      BY <2>1, <2>2, <2>4
  <1>8. V(n) \in Nat /\ V(0) = 0 /\ \A k \in 0 .. n : V(k) \in Nat
    BY SeenFacts DEF V
  <1>9. Range(b) = 0 .. V(n) - 1
    <2>1. ASSUME NEW i \in 1 .. n PROVE b[i] \in 0 .. V(n) - 1
      <3>1. First(i) - 1 \in 0 .. n /\ First(i) <= n
        BY <1>2
      <3>2. V(First(i) - 1) < V(n) /\ V(First(i) - 1) \in Nat
        BY <1>5, <1>8, <3>1
      <3> QED
        BY <1>1, <1>8, <3>2
    <2>2. ASSUME NEW m \in 0 .. V(n) - 1 PROVE \E i \in 1 .. n : b[i] = m
      <3> DEFINE T == {k \in 0 .. n : V(k) > m}
      <3>1. PICK k \in T : \A l \in T : k <= l
        <4>1. T \subseteq Nat /\ n \in T
          BY <1>8
        <4> HIDE DEF T
        <4> QED
          BY <4>1, Least
      <3>2. k \in 1 .. n /\ V(k) > m
        BY <1>8
      <3>3. k - 1 \in 0 .. n /\ ~(V(k - 1) > m)
        BY <3>1, <3>2
      <3>4. V(k) = IF f[k] \in Seen(f, k - 1) THEN V(k - 1) ELSE V(k - 1) + 1
        BY <3>2, SeenFacts DEF V
      <3>5. V(k - 1) = m /\ f[k] \notin Seen(f, k - 1)
        BY <1>8, <3>2, <3>3, <3>4
      <3>6. First(k) = k
        <4>1. First(k) \in 1 .. n /\ f[First(k)] = f[k] /\ First(k) <= k
          BY <1>2, <3>2
        <4>2. First(k) \notin 1 .. k - 1
          BY <3>5, <4>1 DEF Seen
        <4> QED
          BY <3>2, <4>1, <4>2
      <3> QED
        BY <1>1, <3>2, <3>5, <3>6
    <2>3. Range(b) = {b[i] : i \in 1 .. n}
      BY <1>1 DEF Range
    <2> QED
      BY <2>1, <2>2, <2>3
  <1>10. Contiguous(b)
    BY <1>8, <1>9 DEF Contiguous
  <1> QED
    BY <1>1, <1>7, <1>10 DEF b

-----------------------------------------------------------------------------
(* The list of clusters.                                                   *)

(* Every number up to n is at one place in one cluster. *)
IsClustering(cl, n) ==
    /\ cl \in Seq(Seq(1 .. n))
    /\ \A k \in DOMAIN cl : cl[k] # << >>
    /\ \A i \in 1 .. n : \E k \in DOMAIN cl : i \in Range(cl[k])
    /\ \A k, l \in DOMAIN cl : \A x \in DOMAIN cl[k], y \in DOMAIN cl[l] :
          cl[k][x] = cl[l][y] => k = l /\ x = y

(* The sets of members. *)
Members(cl) == {Range(cl[k]) : k \in DOMAIN cl}

(* A cluster is a finite set, as large as its list is long. *)
LEMMA ClusterFacts ==
  ASSUME NEW n \in Nat, NEW cl, IsClustering(cl, n), NEW k \in DOMAIN cl
  PROVE  /\ DOMAIN cl[k] = 1 .. Len(cl[k]) /\ Len(cl[k]) \in Nat /\ Len(cl[k]) > 0
         /\ Range(cl[k]) = {cl[k][x] : x \in 1 .. Len(cl[k])}
         /\ Range(cl[k]) \subseteq 1 .. n /\ Range(cl[k]) # {}
         /\ IsFiniteSet(Range(cl[k])) /\ Cardinality(Range(cl[k])) = Len(cl[k])
         /\ \A x, y \in 1 .. Len(cl[k]) : cl[k][x] = cl[k][y] => x = y
         /\ \A l \in DOMAIN cl : l # k => Range(cl[k]) \cap Range(cl[l]) = {}
  <1> DEFINE c == cl[k]
             m == Len(c)
  <1>1. c \in Seq(1 .. n) /\ c # << >>
    BY DEF IsClustering
  <1>2. DOMAIN c = 1 .. m /\ m \in Nat /\ m > 0 /\ c \in [1 .. m -> 1 .. n]
    BY <1>1
  <1>3. \A x, y \in 1 .. m : c[x] = c[y] => x = y
    BY <1>2 DEF IsClustering
  <1>4. \A l \in DOMAIN cl : l # k => Range(c) \cap Range(cl[l]) = {}
    BY DEF IsClustering, Range
  <1> HIDE DEF c
  <1>5. Range(c) = {c[x] : x \in 1 .. m} /\ Range(c) \subseteq 1 .. n /\ Range(c) # {}
    BY <1>2 DEF Range
  <1>6. c \in Surjection(1 .. m, Range(c)) /\ c \in Injection(1 .. m, Range(c))
    <2>1. c \in [1 .. m -> Range(c)]
      BY <1>2, <1>5
    <2> HIDE DEF m
    <2>2. \A y \in Range(c) : \E x \in 1 .. m : c[x] = y
      BY <1>5
    <2> QED
      BY <2>1, <2>2, <1>3 DEF Surjection, Injection, IsInjective
  <1>7. IsFiniteSet(1 .. m) /\ Cardinality(1 .. m) = m
    BY <1>2, FS_Interval
  <1>8. IsFiniteSet(Range(c)) /\ Cardinality(Range(c)) = m
    BY <1>6, <1>7, FS_Surjection
  <1> QED
    BY <1>2, <1>3, <1>4, <1>5, <1>8 DEF c

(* What agglomerative_clustering adds up is the mean distance. *)
LEMMA LinkageIsMean ==
  ASSUME NEW n \in Nat, NEW cl, IsClustering(cl, n), \A i \in 1 .. n : points[i] \in Vector,
         NEW k \in DOMAIN cl, NEW l \in DOMAIN cl
  PROVE  AverageLinkage(points, cl[k], cl[l]) = Definition!Mean(Range(cl[k]), Range(cl[l]))
  <1> DEFINE c1 == cl[k]
             c2 == cl[l]
             m1 == Len(c1)
             m2 == Len(c2)
             A == Range(c1)
             B == Range(c2)
             I == 1 .. m1
             J == 1 .. m2
             F == [p \in I \X J |-> Squared(Minus(points[c1[p[1]]], points[c2[p[2]]]))]
             R == [x \in I |-> Sum([y \in J |-> F[<<x, y>>]], J)]
             f == [p \in I \X J |-> <<c1[p[1]], c2[p[2]]>>]
  <1>1. /\ DOMAIN c1 = I /\ m1 \in Nat /\ A = {c1[x] : x \in I} /\ A \subseteq 1 .. n
        /\ IsFiniteSet(A) /\ Cardinality(A) = m1
        /\ \A x, y \in I : c1[x] = c1[y] => x = y
    BY ClusterFacts
  <1>2. /\ DOMAIN c2 = J /\ m2 \in Nat /\ B = {c2[x] : x \in J} /\ B \subseteq 1 .. n
        /\ IsFiniteSet(B) /\ Cardinality(B) = m2
        /\ \A x, y \in J : c2[x] = c2[y] => x = y
    BY ClusterFacts
  <1> HIDE DEF c1, c2, A, B
  <1>3. IsFiniteSet(I) /\ IsFiniteSet(J) /\ IsFiniteSet(I \X J)
    BY <1>1, <1>2, NumbersFinite, FS_Product
  <1>4. /\ \A x \in I : points[c1[x]] \in Vector
        /\ \A y \in J : points[c2[y]] \in Vector
    BY <1>1, <1>2
  <1>5. \A x \in I, y \in J : /\ Squared(Minus(points[c1[x]], points[c2[y]])) \in Int
                              /\ F[<<x, y>>] = Squared(Minus(points[c1[x]], points[c2[y]]))
    BY <1>4, VectorFacts
  <1>6. \A p \in I \X J : F[p] \in Int
    BY <1>5
  <1>7. ASSUME NEW x \in I
        PROVE  /\ R[x] \in Int
               /\ R[x] = Row(c1[x], c2)
    <2>1. [y \in J |-> F[<<x, y>>]] = [y \in J |-> Squared(Minus(points[c1[x]], points[c2[y]]))]
      BY <1>5
    <2>2. Row(c1[x], c2)
              = Sum([y \in J |-> Squared(Minus(points[c1[x]], points[c2[y]]))], J)
      <3>1. \A y \in J : Squared(Minus(points[c1[x]], points[c2[y]])) \in Int
        BY <1>5
      <3> HIDE DEF m1, m2
      <3> QED
        BY <1>2, <3>1, RowIsSum
    <2>3. Sum([y \in J |-> F[<<x, y>>]], J) \in Int
      BY <1>3, <1>5, SumFacts
    <2> HIDE DEF F
    <2> QED
      BY <2>1, <2>2, <2>3
  <1>8. AverageLinkage(points, c1, c2) = <<Sum(R, I), m1 * m2>>
    <2>1. Len(c1) * Len(c2) = m1 * m2
      OBVIOUS
    <2> HIDE DEF R, m1, m2
    <2>2. AverageLinkage(points, c1, c2) = <<Sum(R, I), Len(c1) * Len(c2)>>
      <3>1. \A x \in 1 .. m1 : R[x] \in Int /\ R[x] = Row(c1[x], c2)
        BY <1>7
      <3>2. m1 \in Nat /\ DOMAIN c1 = 1 .. m1
        BY <1>1
      <3> HIDE DEF F, f
      <3> QED
        BY <3>1, <3>2, LinkageIsSum, Zenon
    <2> QED
      BY <2>1, <2>2
  <1>9. Sum(R, I) = Sum(F, I \X J)
    <2> HIDE DEF F
    <2> QED
      BY <1>3, <1>6, SumProduct, ZenonT(60)
  <1>10. Sum(F, I \X J) = Sum(Spread(A, B), A \X B)
    <2>1. \A p, q \in I \X J : f[p] = f[q] => p = q
      BY <1>1, <1>2
    <2>2. ASSUME NEW p \in I \X J PROVE F[p] \in Int /\ F[p] = Spread(A, B)[f[p]]
      BY <1>1, <1>2, <1>6 DEF Spread
    <2>3. {f[p] : p \in I \X J} = A \X B
      <3>1. ASSUME NEW p \in I \X J PROVE f[p] \in A \X B
        BY <1>1, <1>2
      <3>2. ASSUME NEW q \in A \X B PROVE \E p \in I \X J : q = f[p]
        <4>1. PICK a \in A, b \in B : q = <<a, b>>
          OBVIOUS
        <4>2. PICK x \in I, y \in J : a = c1[x] /\ b = c2[y]
          BY <1>1, <1>2
        <4>3. <<x, y>> \in I \X J /\ f[<<x, y>>] = <<a, b>>
          BY <4>2
        <4> QED
          BY <4>1, <4>3
      <3> QED
        BY <3>1, <3>2
    <2> HIDE DEF F, f, I, J
    <2>4. Sum(F, I \X J) = Sum(Spread(A, B), {f[p] : p \in I \X J})
      <3>1. \A p \in I \X J : F[p] \in Int /\ F[p] = Spread(A, B)[f[p]]
        BY <2>2
      <3>2. \A S : IsFiniteSet(S) /\ S = I \X J => Sum(F, S) = Sum(Spread(A, B), {f[p] : p \in S})
        BY <2>1, <3>1, SumImage
      <3> QED
        BY <1>3, <3>2
    <2> QED
      BY <2>3, <2>4
  <1>11. Definition!Mean(A, B) = <<Sum(Spread(A, B), A \X B), m1 * m2>>
    <2>1. \A i \in A \union B : points[i] \in Vector
      BY <1>1, <1>2
    <2> QED
      <3>1. Definition!Mean(A, B) = <<Sum(Spread(A, B), A \X B), Cardinality(A) * Cardinality(B)>>
        BY <1>1, <1>2, <2>1, MeanIsSum
      <3> QED
        BY <1>1, <1>2, <3>1
  <1> QED
    BY <1>8, <1>9, <1>10, <1>11 DEF c1, c2, A, B

(* A list without one entry. *)
LEMMA RemoveFacts ==
  ASSUME NEW X, NEW s \in Seq(X), NEW i \in 1 .. Len(s)
  PROVE  /\ RemoveAt(s, i) \in Seq(X) /\ Len(RemoveAt(s, i)) = Len(s) - 1
         /\ \A k \in 1 .. Len(s) - 1 : RemoveAt(s, i)[k] = IF k < i THEN s[k] ELSE s[k + 1]
  <1> DEFINE a == SubSeq(s, 1, i - 1)
             b == SubSeq(s, i + 1, Len(s))
  <1>1. Len(s) \in Nat /\ i \in Nat
    OBVIOUS
  <1>2. a \in Seq(X) /\ Len(a) = i - 1 /\ \A k \in 1 .. i - 1 : a[k] = s[k]
    <2>1. i - 1 <= Len(s) /\ i - 1 \in Nat
      BY <1>1
    <2> QED
      BY <2>1
  <1>3. b \in Seq(X) /\ Len(b) = Len(s) - i /\ \A k \in 1 .. Len(s) - i : b[k] = s[k + i]
    BY <1>1
  <1>4. RemoveAt(s, i) = a \o b
    BY DEF RemoveAt
  <1> HIDE DEF a, b
  <1>5. a \o b \in Seq(X) /\ Len(a \o b) = Len(s) - 1
    <2>1. a \o b \in Seq(X) /\ Len(a \o b) = Len(a) + Len(b)
      <3>1. a \in Seq(X) /\ b \in Seq(X)
        BY <1>2, <1>3
      <3> QED
        BY <3>1
    <2> QED
      BY <1>1, <1>2, <1>3, <2>1
  <1>6. ASSUME NEW k \in 1 .. Len(s) - 1
        PROVE  (a \o b)[k] = IF k < i THEN s[k] ELSE s[k + 1]
    <2>1. CASE k < i
      <3>1. k \in 1 .. i - 1 /\ k \in 1 .. Len(a)
        BY <1>1, <1>2, <2>1
      <3>2. (a \o b)[k] = a[k]
        BY <1>2, <1>3, <3>1
      <3> QED
        BY <1>2, <2>1, <3>1, <3>2
    <2>2. CASE ~(k < i)
      <3>1. k - Len(a) \in 1 .. Len(s) - i /\ (k - Len(a)) + i = k + 1 /\ k > Len(a)
        BY <1>1, <1>2, <2>2
      <3>2. (a \o b)[k] = b[k - Len(a)]
        BY <1>1, <1>2, <1>3, <3>1
      <3>3. b[k - Len(a)] = s[k + 1]
        BY <1>3, <3>1
      <3> QED
        BY <2>2, <3>2, <3>3
    <2> QED
      BY <2>1, <2>2
  <1> QED
    BY <1>4, <1>5, <1>6

(* Two lists one after the other. *)
LEMMA JoinedFacts ==
  ASSUME NEW X, NEW s \in Seq(X), NEW t \in Seq(X), s # << >>,
         IsInjective(s), IsInjective(t), Range(s) \cap Range(t) = {}
  PROVE  /\ s \o t \in Seq(X) /\ s \o t # << >> /\ IsInjective(s \o t)
         /\ Range(s \o t) = Range(s) \union Range(t)
  <1> DEFINE u == s \o t
  <1>1. Len(s) \in Nat /\ Len(t) \in Nat /\ Len(s) > 0
    OBVIOUS
  <1>2. u \in Seq(X) /\ Len(u) = Len(s) + Len(t)
    OBVIOUS
  <1>3. \A k \in 1 .. Len(s) : u[k] = s[k]
    OBVIOUS
  <1>4. \A k \in Len(s) + 1 .. Len(s) + Len(t) : u[k] = t[k - Len(s)] /\ k - Len(s) \in 1 .. Len(t)
    BY <1>1
  <1>5. \A k \in 1 .. Len(t) : Len(s) + k \in 1 .. Len(u) /\ u[Len(s) + k] = t[k]
    BY <1>1, <1>2, <1>4
  <1>6. DOMAIN u = 1 .. Len(u) /\ DOMAIN s = 1 .. Len(s) /\ DOMAIN t = 1 .. Len(t)
    BY <1>2
  <1> HIDE DEF u
  <1>7. \A k \in 1 .. Len(u) : /\ k \in 1 .. Len(s) => u[k] = s[k] /\ u[k] \in Range(s)
                               /\ k \notin 1 .. Len(s) => /\ u[k] = t[k - Len(s)]
                                                          /\ k - Len(s) \in 1 .. Len(t)
                                                          /\ u[k] \in Range(t)
    <2> SUFFICES ASSUME NEW k \in 1 .. Len(u)
                 PROVE  /\ k \in 1 .. Len(s) => u[k] = s[k] /\ u[k] \in Range(s)
                        /\ k \notin 1 .. Len(s) => /\ u[k] = t[k - Len(s)]
                                                   /\ k - Len(s) \in 1 .. Len(t)
                                                   /\ u[k] \in Range(t)
      OBVIOUS
    <2>1. k \in 1 .. Len(s) => u[k] = s[k] /\ u[k] \in Range(s)
      BY <1>3, <1>6 DEF Range
    <2>2. k \notin 1 .. Len(s) => k \in Len(s) + 1 .. Len(s) + Len(t)
      BY <1>1, <1>2
    <2>3. k \notin 1 .. Len(s) => /\ u[k] = t[k - Len(s)] /\ k - Len(s) \in 1 .. Len(t)
                                  /\ u[k] \in Range(t)
      BY <1>4, <1>6, <2>2 DEF Range
    <2> QED
      BY <2>1, <2>3
  <1>8. Range(u) = Range(s) \union Range(t)
    <2>1. Range(u) \subseteq Range(s) \union Range(t)
      BY <1>6, <1>7 DEF Range
    <2>2. \A k \in 1 .. Len(s) : k \in 1 .. Len(u)
      BY <1>1, <1>2
    <2>3. Range(s) \subseteq Range(u)
      BY <1>3, <1>6, <2>2 DEF Range
    <2>4. Range(t) \subseteq Range(u)
      BY <1>5, <1>6 DEF Range
    <2> QED
      BY <2>1, <2>3, <2>4
  <1>9. IsInjective(u)
    <2> SUFFICES ASSUME NEW k \in 1 .. Len(u), NEW l \in 1 .. Len(u), u[k] = u[l] PROVE k = l
      BY <1>6 DEF IsInjective
    <2>1. CASE k \in 1 .. Len(s) /\ l \in 1 .. Len(s)
      BY <1>3, <1>6, <2>1 DEF IsInjective
    <2>2. CASE k \notin 1 .. Len(s) /\ l \notin 1 .. Len(s)
      <3>1. /\ t[k - Len(s)] = t[l - Len(s)]
            /\ k - Len(s) \in 1 .. Len(t) /\ l - Len(s) \in 1 .. Len(t)
        BY <1>7, <2>2
      <3>2. k - Len(s) = l - Len(s)
        BY <1>6, <3>1 DEF IsInjective
      <3> QED
        BY <1>1, <3>2
    <2> QED
      BY <1>7, <2>1, <2>2
  <1> QED
    BY <1>1, <1>2, <1>8, <1>9 DEF u

(* Merging two clusters of the list. *)
LEMMA MergedFacts ==
  ASSUME NEW n \in Nat, NEW cl, IsClustering(cl, n),
         NEW i \in DOMAIN cl, NEW j \in DOMAIN cl, i < j,
         NEW new, new = RemoveAt([cl EXCEPT ![i] = cl[i] \o cl[j]], j)
  PROVE  /\ IsClustering(new, n)
         /\ Members(new) = (Members(cl) \ {Range(cl[i]), Range(cl[j])})
                               \union {Range(cl[i]) \union Range(cl[j])}
  <1> DEFINE both == cl[i] \o cl[j]
             old(k) == IF k < j THEN k ELSE k + 1
             L == Len(cl)
  <1>1. cl \in Seq(Seq(1 .. n)) /\ L \in Nat /\ DOMAIN cl = 1 .. L /\ i \in 1 .. L /\ j \in 1 .. L
    BY DEF IsClustering
  <1>2. \A k \in 1 .. L : /\ cl[k] \in Seq(1 .. n) /\ cl[k] # << >> /\ IsInjective(cl[k])
                          /\ \A l \in 1 .. L : l # k => Range(cl[k]) \cap Range(cl[l]) = {}
    <2> SUFFICES ASSUME NEW k \in 1 .. L
                 PROVE  /\ cl[k] \in Seq(1 .. n) /\ cl[k] # << >> /\ IsInjective(cl[k])
                        /\ \A l \in 1 .. L : l # k => Range(cl[k]) \cap Range(cl[l]) = {}
      OBVIOUS
    <2>1. cl[k] \in Seq(1 .. n) /\ cl[k] # << >> /\ k \in DOMAIN cl
      BY <1>1 DEF IsClustering
    <2>2. /\ DOMAIN cl[k] = 1 .. Len(cl[k])
          /\ \A x, y \in 1 .. Len(cl[k]) : cl[k][x] = cl[k][y] => x = y
          /\ \A l \in DOMAIN cl : l # k => Range(cl[k]) \cap Range(cl[l]) = {}
      BY <2>1, ClusterFacts
    <2>3. IsInjective(cl[k])
      BY <2>2 DEF IsInjective
    <2> QED
      BY <1>1, <2>1, <2>2, <2>3
  <1>3. /\ both \in Seq(1 .. n) /\ both # << >> /\ IsInjective(both)
        /\ Range(both) = Range(cl[i]) \union Range(cl[j])
    <2>0. i \in 1 .. L /\ j \in 1 .. L /\ i # j
      BY <1>1
    <2>1. /\ cl[i] \in Seq(1 .. n) /\ cl[j] \in Seq(1 .. n) /\ cl[i] # << >>
          /\ IsInjective(cl[i]) /\ IsInjective(cl[j]) /\ Range(cl[i]) \cap Range(cl[j]) = {}
      <3> HIDE DEF L
      <3> QED
        BY <1>2, <2>0
    <2> QED
      BY <2>1, JoinedFacts
  <1> HIDE DEF both
  <1>4. /\ [cl EXCEPT ![i] = both] \in Seq(Seq(1 .. n)) /\ Len([cl EXCEPT ![i] = both]) = L
        /\ \A k \in 1 .. L : [cl EXCEPT ![i] = both][k] = IF k = i THEN both ELSE cl[k]
    BY <1>1, <1>3
  <1>5. new = RemoveAt([cl EXCEPT ![i] = both], j)
    BY DEF both
  <1>6. /\ new \in Seq(Seq(1 .. n)) /\ Len(new) = L - 1
        /\ \A k \in 1 .. L - 1 : new[k] = IF k < j THEN [cl EXCEPT ![i] = both][k]
                                          ELSE [cl EXCEPT ![i] = both][k + 1]
    <2> DEFINE t == [cl EXCEPT ![i] = both]
    <2>1. t \in Seq(Seq(1 .. n)) /\ Len(t) = L /\ j \in 1 .. Len(t) /\ new = RemoveAt(t, j)
      BY <1>1, <1>4, <1>5
    <2> HIDE DEF t, L
    <2>2. /\ RemoveAt(t, j) \in Seq(Seq(1 .. n)) /\ Len(RemoveAt(t, j)) = Len(t) - 1
          /\ \A k \in 1 .. Len(t) - 1 : RemoveAt(t, j)[k] = IF k < j THEN t[k] ELSE t[k + 1]
      BY <2>1, RemoveFacts
    <2> QED
      BY <2>1, <2>2 DEF t
  <1>7. \A k \in 1 .. L - 1 : /\ old(k) \in 1 .. L /\ old(k) # j
                              /\ new[k] = IF old(k) = i THEN both ELSE cl[old(k)]
    <2> SUFFICES ASSUME NEW k \in 1 .. L - 1
                 PROVE  /\ old(k) \in 1 .. L /\ old(k) # j
                        /\ new[k] = IF old(k) = i THEN both ELSE cl[old(k)]
      OBVIOUS
    <2>1. old(k) \in 1 .. L /\ old(k) # j
      BY <1>1
    <2>2. new[k] = [cl EXCEPT ![i] = both][old(k)]
      BY <1>6
    <2> HIDE DEF old
    <2> QED
      BY <1>4, <2>1, <2>2
  <1>8. \A l \in 1 .. L : l # j => \E k \in 1 .. L - 1 : old(k) = l
    <2> SUFFICES ASSUME NEW l \in 1 .. L, l # j PROVE \E k \in 1 .. L - 1 : old(k) = l
      OBVIOUS
    <2>1. CASE l < j
      BY <1>1, <2>1
    <2>2. CASE l > j
      <3>1. l - 1 \in 1 .. L - 1 /\ old(l - 1) = l
        BY <1>1, <2>2
      <3> QED
        BY <3>1
    <2> QED
      BY <1>1, <2>1, <2>2
  <1>9. \A k, l \in 1 .. L - 1 : old(k) = old(l) => k = l
    BY <1>1, SMTT(60)
  <1>10. DOMAIN new = 1 .. L - 1
    <2>1. DOMAIN new = 1 .. Len(new)
      BY <1>6
    <2> QED
      BY <2>1, <1>6
  <1> HIDE DEF old, L
  <1>11. \A k \in 1 .. L - 1 : /\ new[k] # << >> /\ IsInjective(new[k]) /\ new[k] \in Seq(1 .. n)
    BY <1>2, <1>3, <1>7
  <1>12. ASSUME NEW k \in 1 .. L - 1, NEW l \in 1 .. L - 1, k # l
         PROVE  Range(new[k]) \cap Range(new[l]) = {}
    <2>1. old(k) # old(l) /\ old(k) \in 1 .. L /\ old(l) \in 1 .. L /\ old(k) # j /\ old(l) # j
      BY <1>7, <1>9, <1>12
    <2>2. /\ Range(cl[old(k)]) \cap Range(cl[old(l)]) = {}
          /\ Range(cl[old(k)]) \cap Range(cl[j]) = {}
          /\ Range(cl[j]) \cap Range(cl[old(l)]) = {}
      BY <1>1, <1>2, <2>1
    <2> QED
      BY <1>3, <1>7, <2>1, <2>2
  <1>13. ASSUME NEW v \in 1 .. n PROVE \E k \in DOMAIN new : v \in Range(new[k])
    <2>1. PICK l \in 1 .. L : v \in Range(cl[l])
      BY <1>1 DEF IsClustering
    <2>2. i # j
      BY <1>1
    <2>3. CASE l = j
      <3>1. PICK k \in 1 .. L - 1 : old(k) = i
        BY <1>1, <1>8, <2>2
      <3>2. v \in Range(new[k])
        BY <1>3, <1>7, <2>1, <2>3, <3>1
      <3> QED
        BY <1>10, <3>2
    <2>4. CASE l # j
      <3>1. PICK k \in 1 .. L - 1 : old(k) = l
        BY <1>8, <2>4
      <3>2. v \in Range(new[k])
        BY <1>3, <1>7, <2>1, <3>1
      <3> QED
        BY <1>10, <3>2
    <2> QED
      BY <2>3, <2>4
  <1>14. ASSUME NEW k \in DOMAIN new, NEW l \in DOMAIN new,
                NEW x \in DOMAIN new[k], NEW y \in DOMAIN new[l], new[k][x] = new[l][y]
         PROVE  k = l /\ x = y
    <2>0. new[k][x] \in Range(new[k]) /\ new[k][x] \in Range(new[l])
      BY <1>14 DEF Range
    <2>1. k = l
      BY <1>10, <1>12, <2>0
    <2> QED
      BY <1>10, <1>11, <1>14, <2>1 DEF IsInjective
  <1>15. IsClustering(new, n)
    BY <1>6, <1>10, <1>11, <1>13, <1>14 DEF IsClustering
  <1>16. Members(new) = (Members(cl) \ {Range(cl[i]), Range(cl[j])})
                            \union {Range(cl[i]) \union Range(cl[j])}
    <2>1. ASSUME NEW k \in 1 .. L - 1
          PROVE  Range(new[k]) \in (Members(cl) \ {Range(cl[i]), Range(cl[j])})
                                       \union {Range(cl[i]) \union Range(cl[j])}
      <3>1. CASE old(k) = i
        BY <1>3, <1>7, <3>1
      <3>2. CASE old(k) # i
        <4>1. old(k) \in 1 .. L /\ old(k) # j /\ new[k] = cl[old(k)]
          BY <1>7, <3>2
        <4>2. /\ Range(cl[old(k)]) \cap Range(cl[i]) = {} /\ Range(cl[old(k)]) \cap Range(cl[j]) = {}
          BY <1>1, <1>2, <3>2, <4>1
        <4>3. Range(cl[old(k)]) # {}
          BY <1>1, <4>1, ClusterFacts
        <4>4. Range(cl[old(k)]) \in Members(cl)
          BY <1>1, <4>1 DEF Members
        <4> QED
          BY <4>1, <4>2, <4>3, <4>4
      <3> QED
        BY <3>1, <3>2
    <2>2. ASSUME NEW l \in 1 .. L, l # i, l # j PROVE Range(cl[l]) \in Members(new)
      <3>1. PICK k \in 1 .. L - 1 : old(k) = l
        BY <1>8, <2>2
      <3>2. new[k] = cl[l]
        BY <1>7, <2>2, <3>1
      <3> QED
        BY <1>10, <3>2 DEF Members
    <2>3. Range(cl[i]) \union Range(cl[j]) \in Members(new)
      <3>0. i # j
        BY <1>1
      <3>1. PICK k \in 1 .. L - 1 : old(k) = i
        BY <1>1, <1>8, <3>0
      <3>2. Range(new[k]) = Range(cl[i]) \union Range(cl[j])
        BY <1>3, <1>7, <3>1
      <3> QED
        BY <1>10, <3>2 DEF Members
    <2>4. Members(new) = {Range(new[k]) : k \in 1 .. L - 1}
      BY <1>10 DEF Members
    <2>5. Members(cl) = {Range(cl[l]) : l \in 1 .. L}
      BY <1>1 DEF Members
    <2>6. Members(new) \subseteq (Members(cl) \ {Range(cl[i]), Range(cl[j])})
                                    \union {Range(cl[i]) \union Range(cl[j])}
      BY <2>1, <2>4
    <2>7. \A A \in Members(cl) : A # Range(cl[i]) /\ A # Range(cl[j]) => A \in Members(new)
      <3> SUFFICES ASSUME NEW l \in 1 .. L, Range(cl[l]) # Range(cl[i]), Range(cl[l]) # Range(cl[j])
                   PROVE  Range(cl[l]) \in Members(new)
        BY <2>5
      <3> QED
        BY <2>2
    <2> QED
      BY <2>3, <2>6, <2>7
  <1> QED
    BY <1>15, <1>16

(* Every point alone. *)
LEMMA SingletonFacts ==
  ASSUME NEW n \in Nat, NEW pts, DOMAIN pts = 1 .. n
  PROVE  /\ IsClustering(Singletons(pts), n)
         /\ Members(Singletons(pts)) = {{i} : i \in 1 .. n}
  <1> DEFINE cl == Singletons(pts)
  <1>1. DOMAIN cl = 1 .. n /\ \A k \in 1 .. n : cl[k] = <<k>>
    BY DEF Singletons
  <1>2. cl \in Seq(Seq(1 .. n))
    <2>1. \A k \in 1 .. n : <<k>> \in Seq(1 .. n)
      OBVIOUS
    <2>2. cl \in [1 .. n -> Seq(1 .. n)]
      BY <2>1 DEF Singletons
    <2> QED
      BY <2>2
  <1>3. \A k \in 1 .. n : DOMAIN cl[k] = {1} /\ cl[k][1] = k /\ Range(cl[k]) = {k} /\ cl[k] # << >>
    <2> SUFFICES ASSUME NEW k \in 1 .. n
                 PROVE  DOMAIN cl[k] = {1} /\ cl[k][1] = k /\ Range(cl[k]) = {k} /\ cl[k] # << >>
      OBVIOUS
    <2>1. cl[k] = <<k>> /\ DOMAIN <<k>> = {1} /\ <<k>>[1] = k /\ <<k>> # << >>
      BY <1>1
    <2> QED
      BY <2>1 DEF Range
  <1> HIDE DEF cl
  <1>4. IsClustering(cl, n)
    <2>1. \A k \in DOMAIN cl : cl[k] # << >>
      BY <1>1, <1>3
    <2>2. \A i \in 1 .. n : \E k \in DOMAIN cl : i \in Range(cl[k])
      <3> SUFFICES ASSUME NEW i \in 1 .. n PROVE \E k \in DOMAIN cl : i \in Range(cl[k])
        OBVIOUS
      <3>1. i \in DOMAIN cl
        BY <1>1
      <3>2. i \in Range(cl[i])
        BY <1>3
      <3> QED
        BY <3>1, <3>2
    <2>3. ASSUME NEW k \in DOMAIN cl, NEW l \in DOMAIN cl, NEW x \in DOMAIN cl[k],
                 NEW y \in DOMAIN cl[l], cl[k][x] = cl[l][y]
          PROVE  k = l /\ x = y
      <3>1. k \in 1 .. n /\ l \in 1 .. n
        BY <1>1
      <3>2. x \in {1} /\ y \in {1}
        BY <1>3, <3>1
      <3>3. cl[k][1] = k /\ cl[l][1] = l
        BY <1>3, <3>1
      <3> QED
        BY <2>3, <3>2, <3>3
    <2> QED
      BY <1>2, <2>1, <2>2, <2>3 DEF IsClustering
  <1>5. Members(cl) = {{i} : i \in 1 .. n}
    <2>1. Members(cl) = {Range(cl[k]) : k \in 1 .. n}
      BY <1>1 DEF Members
    <2>2. \A k \in 1 .. n : Range(cl[k]) = {k}
      BY <1>3
    <2> QED
      BY <2>1, <2>2
  <1> QED
    BY <1>4, <1>5 DEF cl

(* The labels of a list of clusters are its places, from 0. *)
LEMMA AverageLabelFacts ==
  ASSUME NEW n \in Nat, NEW pts, DOMAIN pts = 1 .. n, NEW cl, IsClustering(cl, n)
  PROVE  /\ DOMAIN AverageLabels(pts, cl) = 1 .. n
         /\ Contiguous(AverageLabels(pts, cl))
         /\ Classes(AverageLabels(pts, cl)) = Members(cl)
  <1> DEFINE f == AverageLabels(pts, cl)
  <1>1. DOMAIN f = 1 .. n /\ DOMAIN cl = 1 .. Len(cl) /\ Len(cl) \in Nat
    BY DEF AverageLabels, IsClustering
  <1>2. \A k \in DOMAIN cl : \A i : Contains(cl[k], i) <=> i \in Range(cl[k])
    BY ClusterFacts DEF Contains
  <1>3. ASSUME NEW i \in 1 .. n
        PROVE  f[i] + 1 \in DOMAIN cl /\ i \in Range(cl[f[i] + 1]) /\ f[i] \in Int
    <2> DEFINE c == CHOOSE k \in DOMAIN cl : Contains(cl[k], i)
    <2>1. \E k \in DOMAIN cl : Contains(cl[k], i)
      BY <1>2 DEF IsClustering
    <2>2. c \in DOMAIN cl /\ Contains(cl[c], i)
      BY <2>1
    <2>3. f[i] = c - 1
      BY DEF AverageLabels
    <2> HIDE DEF c, f
    <2>4. c \in Int /\ f[i] + 1 = c /\ f[i] \in Int
      BY <1>1, <2>2, <2>3
    <2> QED
      BY <1>2, <2>2, <2>4
  <1> HIDE DEF f
  <1>4. ASSUME NEW k \in DOMAIN cl, NEW i \in Range(cl[k]) PROVE i \in 1 .. n /\ f[i] = k - 1
    <2>1. i \in 1 .. n
      BY ClusterFacts
    <2>2. f[i] + 1 \in DOMAIN cl /\ i \in Range(cl[f[i] + 1]) /\ f[i] \in Int
      BY <1>3, <2>1
    <2>3. f[i] + 1 = k
      BY <2>2, ClusterFacts
    <2> QED
      BY <2>1, <2>2, <2>3
  <1>5. Range(f) = 0 .. Len(cl) - 1
    <2>1. \A i \in 1 .. n : f[i] \in 0 .. Len(cl) - 1
      BY <1>1, <1>3
    <2>2. ASSUME NEW m \in 0 .. Len(cl) - 1 PROVE \E i \in 1 .. n : f[i] = m
      <3>1. m + 1 \in DOMAIN cl
        BY <1>1
      <3>2. PICK i \in Range(cl[m + 1]) : TRUE
        BY <3>1, ClusterFacts
      <3> QED
        BY <1>4, <3>1, <3>2
    <2> QED
      BY <1>1, <2>1, <2>2 DEF Range
  <1>6. ASSUME NEW k \in DOMAIN cl PROVE {i \in 1 .. n : f[i] = k - 1} = Range(cl[k])
    <2>1. ASSUME NEW i \in 1 .. n, f[i] = k - 1 PROVE i \in Range(cl[k])
      <3>1. f[i] + 1 = k
        BY <1>1, <2>1
      <3> QED
        BY <1>3, <3>1
    <2> QED
      BY <1>4, <2>1
  <1>7. Classes(f) = Members(cl)
    <2>1. Classes(f) = {{i \in 1 .. n : f[i] = x} : x \in 0 .. Len(cl) - 1}
      BY <1>1, <1>5 DEF Classes
    <2>2. \A x \in 0 .. Len(cl) - 1 : x + 1 \in DOMAIN cl /\ (x + 1) - 1 = x
      BY <1>1
    <2>3. \A k \in DOMAIN cl : k - 1 \in 0 .. Len(cl) - 1
      BY <1>1
    <2>4. ASSUME NEW A \in Classes(f) PROVE A \in Members(cl)
      <3>1. PICK x \in 0 .. Len(cl) - 1 : A = {i \in 1 .. n : f[i] = x}
        BY <2>1
      <3>2. A = Range(cl[x + 1])
        BY <1>6, <2>2, <3>1
      <3> QED
        BY <2>2, <3>2 DEF Members
    <2>5. ASSUME NEW A \in Members(cl) PROVE A \in Classes(f)
      <3>1. PICK k \in DOMAIN cl : A = Range(cl[k])
        BY DEF Members
      <3>2. A = {i \in 1 .. n : f[i] = k - 1}
        BY <1>6, <3>1
      <3> QED
        BY <2>1, <2>3, <3>2
    <2> QED
      BY <2>4, <2>5
  <1>8. Contiguous(f)
    BY <1>1, <1>5 DEF Contiguous
  <1> QED
    BY <1>1, <1>7, <1>8 DEF f

(* The mean distance is a fraction, the same both ways. *)
LEMMA MeanFacts ==
  ASSUME NEW a, IsFiniteSet(a), NEW b, IsFiniteSet(b), a # {}, b # {},
         \A i \in a \union b : points[i] \in Vector
  PROVE  Definition!Mean(a, b) \in Fraction /\ Definition!Mean(a, b) = Definition!Mean(b, a)
  <1> DEFINE f == [p \in a \X b |-> <<p[2], p[1]>>]
             F == Spread(a, b)
             G == Spread(b, a)
  <1>1. /\ Cardinality(a) \in Nat /\ Cardinality(a) > 0
        /\ Cardinality(b) \in Nat /\ Cardinality(b) > 0
    <2>1. Cardinality(a) # 0 /\ Cardinality(b) # 0
      BY FS_EmptySet
    <2> QED
      BY <2>1, FS_CardinalityType
  <1>2. /\ Definition!Mean(a, b) = <<Sum(F, a \X b), Cardinality(a) * Cardinality(b)>>
        /\ Definition!Mean(b, a) = <<Sum(G, b \X a), Cardinality(b) * Cardinality(a)>>
    BY MeanIsSum
  <1>3. Cardinality(a) * Cardinality(b) \in Int /\ Cardinality(a) * Cardinality(b) > 0
        /\ Cardinality(a) * Cardinality(b) = Cardinality(b) * Cardinality(a)
    BY <1>1
  <1>4. IsFiniteSet(a \X b)
    BY FS_Product
  <1>5. ASSUME NEW p \in a \X b PROVE F[p] \in Int /\ F[p] = G[f[p]]
    <2>1. points[p[1]] \in Vector /\ points[p[2]] \in Vector
      OBVIOUS
    <2>2. F[p] = Squared(Minus(points[p[1]], points[p[2]]))
      BY DEF Spread
    <2>3. f[p] \in b \X a /\ f[p][1] = p[2] /\ f[p][2] = p[1]
      OBVIOUS
    <2>4. G[f[p]] = Squared(Minus(points[p[2]], points[p[1]]))
      <3> HIDE DEF f
      <3> QED
        BY <2>3 DEF Spread
    <2> QED
      BY <2>1, <2>2, <2>4, VectorFacts
  <1>6. \A p, q \in a \X b : f[p] = f[q] => p = q
    OBVIOUS
  <1>7. {f[p] : p \in a \X b} = b \X a
    <2>1. \A p \in a \X b : f[p] \in b \X a
      OBVIOUS
    <2>2. ASSUME NEW q \in b \X a PROVE \E p \in a \X b : f[p] = q
      <3>1. <<q[2], q[1]>> \in a \X b /\ f[<<q[2], q[1]>>] = q
        OBVIOUS
      <3> QED
        BY <3>1
    <2> QED
      BY <2>1, <2>2
  <1> HIDE DEF f, F, G
  <1>8. Sum(F, a \X b) = Sum(G, b \X a)
    <2>1. \A S : IsFiniteSet(S) /\ S = a \X b => Sum(F, S) = Sum(G, {f[p] : p \in S})
      BY <1>5, <1>6, SumImage
    <2> QED
      BY <1>4, <1>7, <2>1
  <1>9. Sum(F, a \X b) \in Int
    BY <1>4, <1>5, SumFacts
  <1> QED
    BY <1>2, <1>3, <1>8, <1>9 DEF Fraction

(* The pair agglomerative_clustering merges: none is closer. *)
LEMMA BestAverageFacts ==
  ASSUME NEW n \in Nat, NEW cl, IsClustering(cl, n), \A i \in 1 .. n : points[i] \in Vector,
         Len(cl) > 1, NEW p, p = BestAverage(points, cl)
  PROVE  /\ p \in PairsOf(DOMAIN cl)
         /\ \A k, l \in DOMAIN cl :
               k # l => ~Less(AverageLinkage(points, cl[k], cl[l]),
                              AverageLinkage(points, cl[p[1]], cl[p[2]]))
         /\ \A k, l \in DOMAIN cl :
               AverageLinkage(points, cl[k], cl[l]) \in Fraction
  <1> DEFINE S == DOMAIN cl
             AL(q) == AverageLinkage(points, cl[q[1]], cl[q[2]])
             D == [q \in PairsOf(S) |-> AL(q)]
             P(r) == \A q \in PairsOf(S) \ {r} :
                        \/ Less(AL(r), AL(q))
                        \/ ~Less(AL(q), AL(r)) /\ (r[1] < q[1] \/ (r[1] = q[1] /\ r[2] < q[2]))
  <1>1. S = 1 .. Len(cl) /\ Len(cl) \in Nat /\ S \in SUBSET Int /\ IsFiniteSet(S)
    <2>1. S = 1 .. Len(cl) /\ Len(cl) \in Nat
      BY DEF IsClustering
    <2> QED
      BY <2>1, NumbersFinite
  <1>2. ASSUME NEW k \in S, NEW l \in S
        PROVE  /\ AverageLinkage(points, cl[k], cl[l]) \in Fraction
               /\ AverageLinkage(points, cl[k], cl[l]) = AverageLinkage(points, cl[l], cl[k])
    <2>1. /\ AverageLinkage(points, cl[k], cl[l]) = Definition!Mean(Range(cl[k]), Range(cl[l]))
          /\ AverageLinkage(points, cl[l], cl[k]) = Definition!Mean(Range(cl[l]), Range(cl[k]))
      BY LinkageIsMean
    <2>2. /\ IsFiniteSet(Range(cl[k])) /\ IsFiniteSet(Range(cl[l]))
          /\ Range(cl[k]) # {} /\ Range(cl[l]) # {}
          /\ \A i \in Range(cl[k]) \union Range(cl[l]) : points[i] \in Vector
      BY ClusterFacts
    <2> QED
      BY <2>1, <2>2, MeanFacts
  <1>3. PairsOf(S) # {}
    <2>1. <<1, 2>> \in PairsOf(S)
      BY <1>1 DEF PairsOf
    <2> QED
      BY <2>1
  <1>4. \A q \in PairsOf(S) : q[1] \in S /\ q[2] \in S /\ D[q] = AL(q) /\ D[q] \in Fraction
    BY <1>1, <1>2, PairFacts
  <1>5. PICK r \in PairsOf(S) : \A q \in PairsOf(S) \ {r} : Precedes(D, r, q)
    <2> HIDE DEF S, D
    <2> QED
      BY <1>1, <1>3, <1>4, BestExists
  <1>6. P(r)
    <2> SUFFICES ASSUME NEW q \in PairsOf(S) \ {r}
                 PROVE  \/ Less(AL(r), AL(q))
                        \/ ~Less(AL(q), AL(r)) /\ (r[1] < q[1] \/ (r[1] = q[1] /\ r[2] < q[2]))
      OBVIOUS
    <2>1. Precedes(D, r, q) /\ D[r] = AL(r) /\ D[q] = AL(q)
      BY <1>4, <1>5
    <2> HIDE DEF D, AL
    <2> QED
      BY <2>1 DEF Precedes, Before
  <1>7. p = CHOOSE q \in PairsOf(S) : P(q)
    BY DEF BestAverage, BestPair, PairsOf
  <1> HIDE DEF P
  <1>8. p \in PairsOf(S) /\ P(p)
    BY <1>6, <1>7
  <1> USE DEF P
  <1>9. \A q \in PairsOf(S) : ~Less(AL(q), AL(p))
    <2> SUFFICES ASSUME NEW q \in PairsOf(S) PROVE ~Less(AL(q), AL(p))
      OBVIOUS
    <2>1. AL(q) \in Fraction /\ AL(p) \in Fraction
      BY <1>4, <1>8
    <2>2. CASE q = p
      <3> HIDE DEF AL
      <3> QED
        BY <2>1, <2>2, LessFacts
    <2>3. CASE q # p
      <3>1. Less(AL(p), AL(q)) \/ ~Less(AL(q), AL(p))
        BY <1>8, <2>3
      <3> HIDE DEF AL
      <3> QED
        BY <2>1, <3>1, LessFacts
    <2> QED
      BY <2>2, <2>3
  <1>10. ASSUME NEW k \in S, NEW l \in S, k # l
         PROVE  ~Less(AverageLinkage(points, cl[k], cl[l]), AL(p))
    <2>1. CASE k < l
      <3>1. <<k, l>> \in PairsOf(S) /\ AL(<<k, l>>) = AverageLinkage(points, cl[k], cl[l])
        BY <2>1 DEF PairsOf
      <3> HIDE DEF AL
      <3> QED
        BY <3>1, <1>9
    <2>2. CASE l < k
      <3>1. <<l, k>> \in PairsOf(S) /\ AL(<<l, k>>) = AverageLinkage(points, cl[l], cl[k])
        BY <2>2 DEF PairsOf
      <3>2. AL(<<l, k>>) = AverageLinkage(points, cl[k], cl[l])
        BY <3>1, <1>2
      <3> HIDE DEF AL
      <3> QED
        BY <3>1, <3>2, <1>9
    <2> QED
      BY <1>1, <1>10, <2>1, <2>2
  <1> QED
    BY <1>2, <1>8, <1>10
-----------------------------------------------------------------------------
(* The clusters of simple_ahc: a forest of parents, with the sum of the    *)
(* points of each tree, its size and the distances of the trees.           *)

(* The sum of the coordinates x of the points in a. *)
Coordinates(a, x) == Sum([i \in a |-> points[i][x]], a)

(* Sums of coordinates are integers, and add up over disjoint sets. *)
LEMMA CoordinatesFacts ==
  ASSUME NEW a, IsFiniteSet(a), NEW b, IsFiniteSet(b), a \cap b = {},
         NEW x \in {1, 2, 3}, \A i \in a \union b : points[i] \in Vector
  PROVE  /\ Coordinates(a, x) \in Int /\ Coordinates(b, x) \in Int
         /\ Coordinates(a \union b, x) = Coordinates(a, x) + Coordinates(b, x)
  <1> DEFINE F == [i \in a \union b |-> points[i][x]]
             A == [i \in a |-> points[i][x]]
             B == [i \in b |-> points[i][x]]
  <1>1. \A i \in a \union b : points[i][x] \in Int
    BY VectorFacts
  <1>2. /\ \A i \in a \union b : F[i] \in Int
        /\ \A i \in a : A[i] \in Int /\ F[i] = A[i]
        /\ \A i \in b : B[i] \in Int /\ F[i] = B[i]
    BY <1>1
  <1> HIDE DEF F, A, B
  <1>3. Sum(F, a \union b) = Sum(F, a) + Sum(F, b)
    BY <1>2, SumUnion
  <1>4. Sum(F, a) = Sum(A, a) /\ Sum(F, b) = Sum(B, b)
    <2>1. Sum(F, a) = Sum(A, a)
      BY <1>2, SumEqual
    <2>2. Sum(F, b) = Sum(B, b)
      BY <1>2, SumEqual
    <2> QED
      BY <2>1, <2>2
  <1>5. Sum(A, a) \in Int /\ Sum(B, b) \in Int
    <2>1. Sum(A, a) \in Int
      BY <1>2, SumFacts
    <2>2. Sum(B, b) \in Int
      BY <1>2, SumFacts
    <2> QED
      BY <2>1, <2>2
  <1> QED
    BY <1>3, <1>4, <1>5 DEF Coordinates, F, A, B

(* The distance that simple_ahc computes from sums and sizes is that of    *)
(* the centroids, a fraction, and the same both ways.                      *)
LEMMA CentroidIsBetween ==
  ASSUME NEW a, IsFiniteSet(a), NEW b, IsFiniteSet(b), a # {}, b # {},
         \A i \in a \union b : points[i] \in Vector, a \cap b = {},
         NEW v \in Vector, \A x \in {1, 2, 3} : v[x] = Coordinates(a, x),
         NEW w \in Vector, \A x \in {1, 2, 3} : w[x] = Coordinates(b, x)
  PROVE  /\ CentroidDistance(v, Cardinality(a), w, Cardinality(b))
               = Definition!BetweenCentroids(a, b)
         /\ Definition!BetweenCentroids(a, b) \in Fraction
         /\ Definition!BetweenCentroids(a, b) = Definition!BetweenCentroids(b, a)
  <1> DEFINE m == Cardinality(a)
             k == Cardinality(b)
             d(x) == k * v[x] - m * w[x]
             e(x) == m * w[x] - k * v[x]
  <1>1. m \in Nat /\ m > 0 /\ k \in Nat /\ k > 0
    <2>1. m # 0 /\ k # 0
      BY FS_EmptySet
    <2> QED
      BY <2>1, FS_CardinalityType
  <1>2. /\ v[1] \in Int /\ v[2] \in Int /\ v[3] \in Int
        /\ w[1] \in Int /\ w[2] \in Int /\ w[3] \in Int
    BY VectorFacts
  <1>3. \A x \in {1, 2, 3} : Offset(a, b, x) = d(x) /\ Offset(b, a, x) = e(x)
    BY DEF Offset, Coordinates
  <1>4. /\ Definition!BetweenCentroids(a, b) = <<d(1) * d(1) + d(2) * d(2) + d(3) * d(3), (m * k) * (m * k)>>
        /\ Definition!BetweenCentroids(b, a) = <<e(1) * e(1) + e(2) * e(2) + e(3) * e(3), (k * m) * (k * m)>>
    <2>1. Definition!BetweenCentroids(a, b) =
             <<Offset(a, b, 1) * Offset(a, b, 1) + Offset(a, b, 2) * Offset(a, b, 2)
                   + Offset(a, b, 3) * Offset(a, b, 3), (m * k) * (m * k)>>
      BY BetweenIsSum
    <2>2. Definition!BetweenCentroids(b, a) =
             <<Offset(b, a, 1) * Offset(b, a, 1) + Offset(b, a, 2) * Offset(b, a, 2)
                   + Offset(b, a, 3) * Offset(b, a, 3), (k * m) * (k * m)>>
      BY BetweenIsSum
    <2> HIDE DEF d, e, m, k
    <2> QED
      BY <2>1, <2>2, <1>3
  <1> HIDE DEF m, k
  <1>5. /\ k * v[1] \in Int /\ k * v[2] \in Int /\ k * v[3] \in Int
        /\ m * w[1] \in Int /\ m * w[2] \in Int /\ m * w[3] \in Int
    BY <1>1, <1>2
  <1>6. d(1) \in Int /\ d(2) \in Int /\ d(3) \in Int /\ e(1) = -d(1) /\ e(2) = -d(2) /\ e(3) = -d(3)
    BY <1>5
  <1>7. Squared(Minus(Times(k, v), Times(m, w))) = d(1) * d(1) + d(2) * d(2) + d(3) * d(3)
    <2>1. Times(k, v) \in Vector /\ Times(m, w) \in Vector
      <3>1. k \in Int /\ m \in Int
        BY <1>1
      <3>2. \A u \in Vector : \A z \in Int : Times(z, u) \in Vector
        BY VectorFacts
      <3> QED
        BY <3>1, <3>2
    <2>2. /\ Times(k, v)[1] = k * v[1] /\ Times(k, v)[2] = k * v[2] /\ Times(k, v)[3] = k * v[3]
          /\ Times(m, w)[1] = m * w[1] /\ Times(m, w)[2] = m * w[2] /\ Times(m, w)[3] = m * w[3]
      <3>1. DOMAIN v = 1 .. 3 /\ DOMAIN w = 1 .. 3
        BY DEF Vector
      <3> QED
        BY <3>1 DEF Times
    <2>3. Squared(Minus(Times(k, v), Times(m, w))) =
              (Times(k, v)[1] - Times(m, w)[1]) * (Times(k, v)[1] - Times(m, w)[1])
            + (Times(k, v)[2] - Times(m, w)[2]) * (Times(k, v)[2] - Times(m, w)[2])
            + (Times(k, v)[3] - Times(m, w)[3]) * (Times(k, v)[3] - Times(m, w)[3])
      BY <2>1, VectorFacts
    <2> QED
      BY <2>2, <2>3
  <1>8. (m * k) * (m * k) = m * k * m * k /\ (k * m) * (k * m) = (m * k) * (m * k)
        /\ (m * k) * (m * k) \in Int /\ (m * k) * (m * k) > 0
    <2>1. m * k \in Int /\ m * k > 0 /\ k * m = m * k
      BY <1>1
    <2>2. \A z \in Int : z > 0 => z * z \in Int /\ z * z > 0
      OBVIOUS
    <2>3. \A z \in Int : z * m * k = z * (m * k)
      BY <1>1
    <2> QED
      BY <2>1, <2>2, <2>3
  <1> HIDE DEF d, e
  <1>9. /\ e(1) * e(1) = d(1) * d(1) /\ e(2) * e(2) = d(2) * d(2) /\ e(3) * e(3) = d(3) * d(3)
        /\ d(1) * d(1) \in Int /\ d(2) * d(2) \in Int /\ d(3) * d(3) \in Int
    BY <1>6
  <1>10. CentroidDistance(v, m, w, k)
            = <<d(1) * d(1) + d(2) * d(2) + d(3) * d(3), m * k * m * k>>
    BY <1>7 DEF CentroidDistance
  <1>11. d(1) * d(1) + d(2) * d(2) + d(3) * d(3) \in Int
    BY <1>9
  <1> QED
    BY <1>4, <1>8, <1>9, <1>10, <1>11 DEF Fraction, m, k

(* The trees of r: the numbers with one root. *)
Tree(r, x) == {k \in DOMAIN r : r[k] = x}

(* The root of a number is its parent's. *)
LeadsTo(r, parent) ==
    /\ DOMAIN r = DOMAIN parent
    /\ \A k \in DOMAIN parent : r[k] = IF parent[k] = k THEN k ELSE r[parent[k]]

(* The sums and the sizes of the trees, and the distances of those that    *)
(* are active, are up to date.                                             *)
IsForest(F, n) ==
    /\ F.active \subseteq 1 .. n /\ F.parent \in [1 .. n -> 1 .. n]
    /\ \A k \in 1 .. n : F.parent[k] <= k
    /\ F.active = {k \in 1 .. n : F.parent[k] = k}
    /\ \E r \in [1 .. n -> F.active] : LeadsTo(r, F.parent)
    /\ DOMAIN F.sum = 1 .. n /\ DOMAIN F.size = 1 .. n
    /\ \A k \in F.active :
          /\ F.sum[k] \in Vector /\ F.size[k] = Cardinality(Tree(RootOf(F), k))
          /\ \A x \in {1, 2, 3} : F.sum[k][x] = Coordinates(Tree(RootOf(F), k), x)
    /\ DOMAIN F.dist = PairsOf(1 .. n)
    /\ \A p \in PairsOf(F.active) :
          F.dist[p] = CentroidDistance(F.sum[p[1]], F.size[p[1]], F.sum[p[2]], F.size[p[2]])

(* Parents that are not larger lead to one root. *)
LEMMA RootUnique ==
  ASSUME NEW n \in Nat, NEW F, F.parent \in [1 .. n -> 1 .. n],
         \A k \in 1 .. n : F.parent[k] <= k,
         NEW r, r = [k \in 1 .. n |-> r[k]], LeadsTo(r, F.parent)
  PROVE  RootOf(F) = r
  <1> DEFINE s == RootOf(F)
             up(g) == [i \in DOMAIN F.parent |-> IF F.parent[i] = i THEN i ELSE g[F.parent[i]]]
  <1>1. r = up(r)
    BY DEF LeadsTo
  <1>2. s = CHOOSE g : g = up(g)
    BY DEF RootOf
  <1> HIDE DEF s
  <1>3. s = up(s)
    BY <1>1, <1>2
  <1>4. /\ DOMAIN s = 1 .. n
        /\ \A i \in 1 .. n : s[i] = IF F.parent[i] = i THEN i ELSE s[F.parent[i]]
        /\ s = [k \in 1 .. n |-> s[k]]
    <2>1. DOMAIN F.parent = 1 .. n
      OBVIOUS
    <2>2. s = [i \in 1 .. n |-> IF F.parent[i] = i THEN i ELSE s[F.parent[i]]]
      BY <1>3, <2>1
    <2> HIDE DEF up
    <2> QED
      BY <2>2
  <1> HIDE DEF up
  <1>5. \A k \in 1 .. n : s[k] = r[k]
    <2> DEFINE T == {k \in 1 .. n : s[k] # r[k]}
    <2> SUFFICES ASSUME T # {} PROVE FALSE
      OBVIOUS
    <2>1. PICK m \in T : \A k \in T : m <= k
      <3>1. T \subseteq Nat
        OBVIOUS
      <3> HIDE DEF T
      <3> QED
        BY <3>1, Least
    <2>2. m \in 1 .. n /\ s[m] # r[m]
      OBVIOUS
    <2>3. r[m] = IF F.parent[m] = m THEN m ELSE r[F.parent[m]]
      BY <2>2 DEF LeadsTo
    <2>4. F.parent[m] # m /\ s[F.parent[m]] # r[F.parent[m]]
      BY <1>4, <2>2, <2>3
    <2>5. F.parent[m] \in T /\ F.parent[m] <= m /\ F.parent[m] \in Int
      BY <2>2, <2>4
    <2>6. m <= F.parent[m]
      BY <2>1, <2>5
    <2> QED
      BY <2>2, <2>4, <2>5, <2>6
  <1>6. [k \in 1 .. n |-> s[k]] = [k \in 1 .. n |-> r[k]]
    BY <1>5
  <1> QED
    BY <1>4, <1>6 DEF s

(* Every number has an active root, and the active ones are roots. *)
LEMMA RootFacts ==
  ASSUME NEW n \in Nat, NEW F, IsForest(F, n)
  PROVE  /\ RootOf(F) \in [1 .. n -> F.active]
         /\ LeadsTo(RootOf(F), F.parent)
         /\ \A k \in F.active : RootOf(F)[k] = k
         /\ Classes(RootOf(F)) = {Tree(RootOf(F), k) : k \in F.active}
  <1>1. PICK r \in [1 .. n -> F.active] : LeadsTo(r, F.parent)
    BY DEF IsForest
  <1>2. RootOf(F) = r
    <2>1. /\ F.parent \in [1 .. n -> 1 .. n] /\ \A k \in 1 .. n : F.parent[k] <= k
          /\ r = [k \in 1 .. n |-> r[k]]
      BY DEF IsForest
    <2> QED
      BY <1>1, <2>1, RootUnique
  <1>3. ASSUME NEW k \in F.active PROVE r[k] = k
    <2>1. k \in 1 .. n /\ F.parent[k] = k /\ DOMAIN F.parent = 1 .. n
      BY DEF IsForest
    <2> QED
      BY <1>1, <2>1 DEF LeadsTo
  <1>4. Range(r) = F.active
    <2>1. F.active \subseteq 1 .. n
      BY DEF IsForest
    <2>2. \A k \in F.active : k \in 1 .. n /\ r[k] = k
      BY <1>3, <2>1
    <2>3. DOMAIN r = 1 .. n /\ \A k \in 1 .. n : r[k] \in F.active
      OBVIOUS
    <2> QED
      BY <2>2, <2>3 DEF Range
  <1>5. Classes(r) = {Tree(r, k) : k \in F.active}
    BY <1>4 DEF Classes, Tree
  <1> QED
    BY <1>1, <1>2, <1>3, <1>5

(* A tree is a finite set of numbers, and trees lie apart. *)
LEMMA TreeFacts ==
  ASSUME NEW n \in Nat, NEW r, DOMAIN r = 1 .. n, NEW x
  PROVE  /\ Tree(r, x) \subseteq 1 .. n /\ IsFiniteSet(Tree(r, x))
         /\ \A y : y # x => Tree(r, x) \cap Tree(r, y) = {}
         /\ x \in 1 .. n /\ r[x] = x => x \in Tree(r, x)
  <1>1. Tree(r, x) \subseteq 1 .. n
    BY DEF Tree
  <1>2. IsFiniteSet(Tree(r, x))
    BY <1>1, NumbersFinite, FS_Subset
  <1> QED
    BY <1>1, <1>2 DEF Tree

(* More than one number. *)
LEMMA MoreThanOne ==
  ASSUME NEW S \in SUBSET Int, IsFiniteSet(S)
  PROVE  /\ Cardinality(S) > 1 <=> \E k, l \in S : k # l
         /\ (\E k, l \in S : k # l) => PairsOf(S) # {}
  <1>1. ASSUME Cardinality(S) > 1 PROVE \E k, l \in S : k # l
    <2>1. S # {} /\ Cardinality(S) # 1
      BY <1>1, FS_EmptySet
    <2>2. PICK k \in S : TRUE
      BY <2>1
    <2>3. S # {k}
      <3>1. Cardinality({k}) = 1
        BY FS_Singleton
      <3> QED
        BY <2>1, <3>1
    <2> QED
      BY <2>2, <2>3
  <1>2. ASSUME NEW k \in S, NEW l \in S, k # l PROVE Cardinality(S) > 1
    <2>1. IsFiniteSet({k}) /\ Cardinality({k}) = 1
      BY FS_Singleton
    <2>2. Cardinality({k} \union {l}) = Cardinality({k}) + 1 /\ IsFiniteSet({k} \union {l})
      BY <1>2, <2>1, FS_AddElement
    <2>3. Cardinality({k} \union {l}) <= Cardinality(S)
      BY FS_Subset
    <2>4. Cardinality(S) \in Nat
      BY FS_CardinalityType
    <2> QED
      BY <2>1, <2>2, <2>3, <2>4
  <1>3. ASSUME NEW k \in S, NEW l \in S, k # l PROVE PairsOf(S) # {}
    <2>1. CASE k < l
      <3>1. <<k, l>> \in PairsOf(S)
        BY <2>1 DEF PairsOf
      <3> QED
        BY <3>1
    <2>2. CASE l < k
      <3>1. <<l, k>> \in PairsOf(S)
        BY <2>2 DEF PairsOf
      <3> QED
        BY <3>1
    <2> QED
      BY <1>3, <2>1, <2>2
  <1> QED
    BY <1>1, <1>2, <1>3

(* The distances kept are those of the centroids. *)
LEMMA TreeDistances ==
  ASSUME NEW n \in Nat, NEW F, IsForest(F, n), \A i \in 1 .. n : points[i] \in Vector,
         NEW k \in F.active, NEW l \in F.active, k # l
  PROVE  LET between(x, y) == Definition!BetweenCentroids(Tree(RootOf(F), x), Tree(RootOf(F), y))
         IN  /\ between(k, l) \in Fraction /\ between(k, l) = between(l, k)
             /\ k < l => F.dist[<<k, l>>] = between(k, l)
  <1> DEFINE r == RootOf(F)
             a == Tree(r, k)
             b == Tree(r, l)
             v == F.sum[k]
             w == F.sum[l]
  <1>1. /\ k \in 1 .. n /\ l \in 1 .. n /\ DOMAIN r = 1 .. n /\ r[k] = k /\ r[l] = l
    BY RootFacts DEF IsForest
  <1> HIDE DEF r
  <1>2. IsFiniteSet(a) /\ IsFiniteSet(b) /\ a # {} /\ b # {} /\ a \cap b = {}
        /\ \A i \in a \union b : points[i] \in Vector
    <2>1. IsFiniteSet(a) /\ a \subseteq 1 .. n /\ a # {}
      BY <1>1, TreeFacts
    <2>2. IsFiniteSet(b) /\ b \subseteq 1 .. n /\ b # {}
      BY <1>1, TreeFacts
    <2>3. a \cap b = {}
      BY <1>1, TreeFacts
    <2> HIDE DEF a, b
    <2> QED
      BY <2>1, <2>2, <2>3
  <1>3. /\ v \in Vector /\ F.size[k] = Cardinality(a) /\ \A x \in {1, 2, 3} : v[x] = Coordinates(a, x)
        /\ w \in Vector /\ F.size[l] = Cardinality(b) /\ \A x \in {1, 2, 3} : w[x] = Coordinates(b, x)
    BY DEF IsForest, r
  <1>4. k < l => F.dist[<<k, l>>] = CentroidDistance(v, Cardinality(a), w, Cardinality(b))
    <2> SUFFICES ASSUME k < l
                 PROVE  F.dist[<<k, l>>] = CentroidDistance(v, Cardinality(a), w, Cardinality(b))
      OBVIOUS
    <2>1. <<k, l>> \in PairsOf(F.active) /\ <<k, l>>[1] = k /\ <<k, l>>[2] = l
      BY DEF PairsOf
    <2>2. F.dist[<<k, l>>] = CentroidDistance(F.sum[k], F.size[k], F.sum[l], F.size[l])
      BY <2>1 DEF IsForest
    <2> QED
      BY <1>3, <2>2
  <1> HIDE DEF a, b, v, w
  <1>5. /\ CentroidDistance(v, Cardinality(a), w, Cardinality(b)) = Definition!BetweenCentroids(a, b)
        /\ Definition!BetweenCentroids(a, b) \in Fraction
        /\ Definition!BetweenCentroids(a, b) = Definition!BetweenCentroids(b, a)
    BY <1>2, <1>3, CentroidIsBetween
  <1> QED
    BY <1>4, <1>5 DEF a, b, r

(* The pair simple_ahc merges: no two trees are closer. *)
LEMMA BestCentroidFacts ==
  ASSUME NEW n \in Nat, NEW F, IsForest(F, n), \A i \in 1 .. n : points[i] \in Vector,
         PairsOf(F.active) # {}, NEW p, p = BestCentroid(F)
  PROVE  /\ p \in PairsOf(F.active) /\ F.dist[p] \in Fraction
         /\ F.dist[p] = Definition!BetweenCentroids(Tree(RootOf(F), p[1]), Tree(RootOf(F), p[2]))
         /\ \A k, l \in F.active :
               k # l => ~Less(Definition!BetweenCentroids(Tree(RootOf(F), k), Tree(RootOf(F), l)),
                              F.dist[p])
  <1> DEFINE S == F.active
             D == F.dist
             between(x, y) == Definition!BetweenCentroids(Tree(RootOf(F), x), Tree(RootOf(F), y))
             P(r) == \A q \in PairsOf(S) \ {r} :
                        \/ Less(D[<<r[1], r[2]>>], D[<<q[1], q[2]>>])
                        \/ /\ ~Less(D[<<q[1], q[2]>>], D[<<r[1], r[2]>>])
                           /\ (r[1] < q[1] \/ (r[1] = q[1] /\ r[2] < q[2]))
  <1>1. S \in SUBSET Int /\ IsFiniteSet(S)
    <2>1. S \subseteq 1 .. n
      BY DEF IsForest
    <2> QED
      BY <2>1, NumbersFinite, FS_Subset
  <1>2. ASSUME NEW q \in PairsOf(S)
        PROVE  /\ q[1] \in S /\ q[2] \in S /\ q[1] < q[2] /\ q = <<q[1], q[2]>> /\ q[1] # q[2]
               /\ D[q] = between(q[1], q[2]) /\ D[q] \in Fraction
    <2>1. q[1] \in S /\ q[2] \in S /\ q[1] < q[2] /\ q = <<q[1], q[2]>> /\ q[1] # q[2]
      BY <1>1, PairFacts
    <2>2. /\ between(q[1], q[2]) \in Fraction
          /\ q[1] < q[2] => F.dist[<<q[1], q[2]>>] = between(q[1], q[2])
      BY <2>1, TreeDistances
    <2> QED
      BY <2>1, <2>2
  <1>3. PICK r \in PairsOf(S) : \A q \in PairsOf(S) \ {r} : Precedes(D, r, q)
    <2> HIDE DEF S, D
    <2> QED
      BY <1>1, <1>2, BestExists DEF S
  <1>4. P(r)
    <2> SUFFICES ASSUME NEW q \in PairsOf(S) \ {r}
                 PROVE  \/ Less(D[<<r[1], r[2]>>], D[<<q[1], q[2]>>])
                        \/ /\ ~Less(D[<<q[1], q[2]>>], D[<<r[1], r[2]>>])
                           /\ (r[1] < q[1] \/ (r[1] = q[1] /\ r[2] < q[2]))
      OBVIOUS
    <2>1. Precedes(D, r, q) /\ r = <<r[1], r[2]>> /\ q = <<q[1], q[2]>>
      BY <1>2, <1>3
    <2>2. D[<<r[1], r[2]>>] = D[r] /\ D[<<q[1], q[2]>>] = D[q]
      BY <2>1
    <2> HIDE DEF D
    <2> QED
      BY <2>1, <2>2 DEF Precedes, Before
  <1>5. p = CHOOSE q \in PairsOf(S) : P(q)
    BY DEF BestCentroid, BestPair, PairsOf
  <1> HIDE DEF P
  <1>6. p \in PairsOf(S) /\ P(p)
    BY <1>3, <1>4, <1>5
  <1> USE DEF P
  <1>7. ASSUME NEW q \in PairsOf(S) PROVE ~Less(D[q], D[p])
    <2>1. D[q] \in Fraction /\ D[p] \in Fraction
      BY <1>2, <1>6
    <2>2. CASE q = p
      <3> HIDE DEF D
      <3> QED
        BY <2>1, <2>2, LessFacts
    <2>3. CASE q # p
      <3>1. p = <<p[1], p[2]>> /\ q = <<q[1], q[2]>>
        BY <1>2, <1>6
      <3>2. Less(D[p], D[q]) \/ ~Less(D[q], D[p])
        <4>1. \/ Less(D[<<p[1], p[2]>>], D[<<q[1], q[2]>>])
              \/ ~Less(D[<<q[1], q[2]>>], D[<<p[1], p[2]>>])
          BY <1>6, <2>3
        <4>2. D[<<p[1], p[2]>>] = D[p] /\ D[<<q[1], q[2]>>] = D[q]
          BY <3>1
        <4> HIDE DEF D
        <4> QED
          BY <4>1, <4>2
      <3> HIDE DEF D
      <3> QED
        BY <2>1, <3>2, LessFacts
    <2> QED
      BY <2>2, <2>3
  <1>8. ASSUME NEW k \in S, NEW l \in S, k # l PROVE ~Less(between(k, l), D[p])
    <2>1. k \in Int /\ l \in Int
      BY <1>1
    <2>2. CASE k < l
      <3>1. <<k, l>> \in PairsOf(S)
        BY <2>2 DEF PairsOf
      <3>2. D[<<k, l>>] = between(k, l)
        BY <1>8, <2>2, TreeDistances
      <3> HIDE DEF D, between, S
      <3> QED
        BY <3>1, <3>2, <1>7
    <2>3. CASE l < k
      <3>1. <<l, k>> \in PairsOf(S)
        BY <2>3 DEF PairsOf
      <3>2. D[<<l, k>>] = between(l, k) /\ between(l, k) = between(k, l)
        BY <1>8, <2>3, TreeDistances
      <3> HIDE DEF D, between, S
      <3> QED
        BY <3>1, <3>2, <1>7
    <2> QED
      BY <1>8, <2>1, <2>2, <2>3
  <1> QED
    BY <1>2, <1>6, <1>8

(* Every point a tree. *)
LEMMA SingleTreesFacts ==
  ASSUME NEW n \in Nat, DOMAIN points = 1 .. n, \A i \in 1 .. n : points[i] \in Vector
  PROVE  /\ IsForest(SingleTrees(points), n)
         /\ Classes(RootOf(SingleTrees(points))) = {{i} : i \in 1 .. n}
  <1> DEFINE F == SingleTrees(points)
             r == [i \in 1 .. n |-> i]
  <1>1. /\ F.active = 1 .. n /\ F.parent = r
        /\ F.size = [i \in 1 .. n |-> 1] /\ F.sum = points
        /\ F.dist = [p \in PairsOf(1 .. n) |-> CentroidDistance(points[p[1]], 1, points[p[2]], 1)]
    BY DEF SingleTrees, PairsOf
  <1> HIDE DEF F
  <1>2. /\ F.parent \in [1 .. n -> 1 .. n] /\ \A k \in 1 .. n : F.parent[k] = k /\ F.parent[k] <= k
        /\ r \in [1 .. n -> F.active] /\ LeadsTo(r, F.parent)
    BY <1>1 DEF LeadsTo
  <1>3. RootOf(F) = r
    <2>1. r = [k \in 1 .. n |-> r[k]] /\ LeadsTo(r, F.parent)
      BY <1>2
    <2> HIDE DEF r
    <2> QED
      BY <1>2, <2>1, RootUnique
  <1>4. \A k \in 1 .. n : Tree(r, k) = {k}
    BY DEF Tree
  <1>5. ASSUME NEW k \in 1 .. n
        PROVE  /\ Cardinality(Tree(r, k)) = 1 /\ F.sum[k] \in Vector /\ F.size[k] = 1
               /\ \A x \in {1, 2, 3} : F.sum[k][x] = Coordinates(Tree(r, k), x)
    <2>1. Cardinality({k}) = 1 /\ IsFiniteSet({k})
      BY FS_Singleton
    <2>2. ASSUME NEW x \in {1, 2, 3} PROVE points[k][x] = Coordinates({k}, x)
      <3> DEFINE G == [i \in {k} |-> points[i][x]]
      <3>1. points[k][x] \in Int
        BY VectorFacts
      <3>2. G[k] = points[k][x] /\ \A i \in {k} : G[i] \in Int
        BY <3>1
      <3> HIDE DEF G
      <3>3. Sum(G, {k}) = G[k] + Sum(G, {k} \ {k}) /\ Sum(G, {}) = 0
        <4>1. Sum(G, {k}) = G[k] + Sum(G, {k} \ {k})
          BY <2>1, <3>2, SumFacts
        <4>2. Sum(G, {}) = 0
          BY FS_EmptySet, SumFacts
        <4> QED
          BY <4>1, <4>2
      <3>4. {k} \ {k} = {}
        OBVIOUS
      <3>5. Sum(G, {k}) = points[k][x] + 0
        BY <3>2, <3>3, <3>4, Zenon
      <3>6. points[k][x] = Sum(G, {k})
        BY <3>1, <3>5
      <3> QED
        BY <3>6 DEF Coordinates, G
    <2>3. Tree(r, k) = {k}
      BY <1>4
    <2>4. F.sum[k] \in Vector /\ F.size[k] = 1 /\ F.sum[k] = points[k]
      BY <1>1
    <2> HIDE DEF r
    <2> QED
      BY <2>1, <2>2, <2>3, <2>4
  <1>6. ASSUME NEW p \in PairsOf(F.active)
        PROVE  F.dist[p] = CentroidDistance(F.sum[p[1]], F.size[p[1]], F.sum[p[2]], F.size[p[2]])
    <2>1. p \in PairsOf(1 .. n) /\ p[1] \in 1 .. n /\ p[2] \in 1 .. n
      <3>1. 1 .. n \in SUBSET Int
        OBVIOUS
      <3> QED
        BY <1>1, <3>1, PairFacts
    <2>2. F.size[p[1]] = 1 /\ F.size[p[2]] = 1
      BY <1>5, <2>1
    <2>3. F.dist[p] = CentroidDistance(points[p[1]], 1, points[p[2]], 1)
      BY <1>1, <2>1
    <2> QED
      BY <1>1, <2>2, <2>3
  <1>7. IsForest(F, n)
    <2>1. F.active \subseteq 1 .. n /\ F.active = {k \in 1 .. n : F.parent[k] = k}
      BY <1>1, <1>2
    <2>2. \E g \in [1 .. n -> F.active] : LeadsTo(g, F.parent)
      BY <1>2
    <2>3. DOMAIN F.sum = 1 .. n /\ DOMAIN F.size = 1 .. n /\ DOMAIN F.dist = PairsOf(1 .. n)
      BY <1>1
    <2>4. \A k \in F.active :
            /\ F.sum[k] \in Vector /\ F.size[k] = Cardinality(Tree(RootOf(F), k))
            /\ \A x \in {1, 2, 3} : F.sum[k][x] = Coordinates(Tree(RootOf(F), k), x)
      BY <1>1, <1>3, <1>5
    <2> HIDE DEF r
    <2> QED
      BY <1>2, <1>6, <2>1, <2>2, <2>3, <2>4 DEF IsForest
  <1>8. Classes(RootOf(F)) = {{i} : i \in 1 .. n}
    <2>1. Classes(RootOf(F)) = {Tree(r, k) : k \in 1 .. n}
      BY <1>1, <1>3, <1>7, RootFacts
    <2> QED
      BY <2>1, <1>4
  <1> QED
    BY <1>7, <1>8 DEF F

(* Merging two trees of r. *)
LEMMA RootsMerged ==
  ASSUME NEW n \in Nat, NEW F, IsForest(F, n), NEW i \in F.active, NEW j \in F.active, i < j,
         NEW parent, parent = [F.parent EXCEPT ![j] = i],
         NEW s, s = [k \in 1 .. n |-> IF RootOf(F)[k] = j THEN i ELSE RootOf(F)[k]]
  PROVE  /\ s \in [1 .. n -> F.active \ {j}] /\ LeadsTo(s, parent)
         /\ Tree(s, i) = Tree(RootOf(F), i) \union Tree(RootOf(F), j)
         /\ \A k \in F.active : k # i /\ k # j => Tree(s, k) = Tree(RootOf(F), k)
  <1> DEFINE r == RootOf(F)
  <1>1. /\ r \in [1 .. n -> F.active] /\ LeadsTo(r, F.parent) /\ \A k \in F.active : r[k] = k
        /\ F.parent \in [1 .. n -> 1 .. n] /\ i \in 1 .. n /\ j \in 1 .. n
        /\ F.active \subseteq 1 .. n
    BY RootFacts DEF IsForest
  <1>2. \A k \in 1 .. n : s[k] = IF r[k] = j THEN i ELSE r[k]
    OBVIOUS
  <1>3. DOMAIN s = 1 .. n /\ DOMAIN r = 1 .. n
    BY <1>1
  <1> HIDE DEF r
  <1>4. s \in [1 .. n -> F.active \ {j}]
    <2>1. ASSUME NEW k \in 1 .. n PROVE s[k] \in F.active \ {j}
      <3>1. r[k] \in F.active
        BY <1>1
      <3>2. i # j
        BY <1>1
      <3>3. s[k] = IF r[k] = j THEN i ELSE r[k]
        BY <1>2
      <3> QED
        BY <3>1, <3>2, <3>3
    <2> QED
      BY <2>1
  <1>5. ASSUME NEW k \in 1 .. n PROVE s[k] = IF parent[k] = k THEN k ELSE s[parent[k]]
    <2>1. r[k] = IF F.parent[k] = k THEN k ELSE r[F.parent[k]]
      BY <1>1 DEF LeadsTo
    <2>2. CASE k = j
      <3>1. parent[k] = i /\ i # j
        BY <1>1, <2>2
      <3>2. r[j] = j /\ r[i] = i
        BY <1>1
      <3> QED
        BY <1>1, <1>2, <2>2, <3>1, <3>2
    <2>3. CASE k # j
      <3>1. parent[k] = F.parent[k] /\ F.parent[k] \in 1 .. n
        BY <1>1, <2>3
      <3>2. CASE F.parent[k] = k
        <4>1. r[k] = k
          BY <2>1, <3>2
        <4> QED
          BY <1>2, <2>3, <3>1, <3>2, <4>1
      <3>3. CASE F.parent[k] # k
        <4>1. r[k] = r[F.parent[k]]
          BY <2>1, <3>3
        <4> QED
          BY <1>2, <3>1, <3>3, <4>1
      <3> QED
        BY <3>2, <3>3
    <2> QED
      BY <2>2, <2>3
  <1>6. LeadsTo(s, parent)
    <2>1. DOMAIN parent = 1 .. n
      BY <1>1
    <2> QED
      BY <1>3, <1>5, <2>1 DEF LeadsTo
  <1>7. Tree(s, i) = Tree(r, i) \union Tree(r, j)
    BY <1>1, <1>2, <1>3 DEF Tree
  <1>8. ASSUME NEW k \in F.active, k # i, k # j PROVE Tree(s, k) = Tree(r, k)
    BY <1>2, <1>3, <1>8 DEF Tree
  <1> QED
    BY <1>4, <1>6, <1>7, <1>8 DEF r

(* Merging in simple_ahc: the forest is one of the merged trees, and the   *)
(* sums, sizes and distances are those of the new trees.                   *)
LEMMA CentroidMergedFacts ==
  ASSUME NEW n \in Nat, NEW F, IsForest(F, n), \A i \in 1 .. n : points[i] \in Vector,
         NEW i \in F.active, NEW j \in F.active, i < j,
         i = BestCentroid(F)[1], j = BestCentroid(F)[2]
  PROVE  /\ IsForest(CentroidMerged(F), n)
         /\ Classes(RootOf(CentroidMerged(F))) =
                (Classes(RootOf(F)) \ {Tree(RootOf(F), i), Tree(RootOf(F), j)})
                    \union {Tree(RootOf(F), i) \union Tree(RootOf(F), j)}
  <1> DEFINE G == CentroidMerged(F)
             r == RootOf(F)
             s == [k \in 1 .. n |-> IF RootOf(F)[k] = j THEN i ELSE RootOf(F)[k]]
             a == Tree(r, i)
             b == Tree(r, j)
  <1>1. /\ i \in 1 .. n /\ j \in 1 .. n /\ F.active \subseteq 1 .. n
        /\ DOMAIN F.sum = 1 .. n /\ DOMAIN F.size = 1 .. n /\ DOMAIN F.dist = PairsOf(1 .. n)
        /\ F.parent \in [1 .. n -> 1 .. n] /\ \A k \in 1 .. n : F.parent[k] <= k
        /\ F.active = {k \in 1 .. n : F.parent[k] = k}
    BY DEF IsForest
  <1>2. /\ G.active = F.active \ {j}
        /\ G.parent = [F.parent EXCEPT ![j] = i]
        /\ G.size = [F.size EXCEPT ![i] = F.size[i] + F.size[j]]
        /\ G.sum = [F.sum EXCEPT ![i] = Plus(F.sum[i], F.sum[j])]
        /\ G.dist = [p \in PairsOf(1 .. n) |->
                        IF i \in {p[1], p[2]} /\ {p[1], p[2]} \subseteq G.active
                        THEN CentroidDistance(G.sum[p[1]], G.size[p[1]], G.sum[p[2]], G.size[p[2]])
                        ELSE F.dist[p]]
    BY <1>1 DEF CentroidMerged
  <1>3. /\ s \in [1 .. n -> G.active] /\ LeadsTo(s, G.parent)
        /\ Tree(s, i) = a \union b
        /\ \A k \in F.active : k # i /\ k # j => Tree(s, k) = Tree(r, k)
    BY <1>2, RootsMerged
  <1>4. DOMAIN r = 1 .. n /\ \A k \in F.active : r[k] = k
    BY RootFacts
  <1>5. s = [k \in 1 .. n |-> s[k]]
    OBVIOUS
  <1> HIDE DEF G, r, s
  <1>6. /\ G.parent \in [1 .. n -> 1 .. n]
        /\ G.active = {k \in 1 .. n : G.parent[k] = k} /\ G.active \subseteq 1 .. n
        /\ \A k \in 1 .. n : G.parent[k] <= k
    <2>0. /\ F.parent \in [1 .. n -> 1 .. n] /\ i \in 1 .. n /\ j \in 1 .. n
          /\ G.parent = [F.parent EXCEPT ![j] = i]
      BY <1>1, <1>2
    <2>1. G.parent \in [1 .. n -> 1 .. n]
      BY <2>0
    <2>2. G.parent[j] = i /\ \A k \in 1 .. n : k # j => G.parent[k] = F.parent[k]
      BY <2>0
    <2>3. i # j /\ i <= j
      <3>1. i \in Int /\ j \in Int
        BY <2>0
      <3> QED
        BY ONLY <3>1, i < j
    <2>4. \A k \in 1 .. n : k \in G.active <=> G.parent[k] = k
      BY <1>1, <1>2, <2>2, <2>3
    <2>5. G.active \subseteq 1 .. n
      BY <1>1, <1>2
    <2>6. \A k \in 1 .. n : G.parent[k] <= k
      BY <1>1, <2>2, <2>3
    <2> QED
      BY <2>1, <2>4, <2>5, <2>6
  <1>7. RootOf(G) = s
    BY <1>3, <1>5, <1>6, RootUnique
  <1>8. /\ IsFiniteSet(a) /\ IsFiniteSet(b) /\ a \cap b = {} /\ a # {} /\ b # {}
        /\ \A k \in a \union b : points[k] \in Vector
    <2>0. DOMAIN r = 1 .. n /\ i \in 1 .. n /\ j \in 1 .. n /\ r[i] = i /\ r[j] = j
      BY <1>1, <1>4
    <2>1. IsFiniteSet(a) /\ a \subseteq 1 .. n /\ i \in a
      BY <2>0, TreeFacts
    <2>2. IsFiniteSet(b) /\ b \subseteq 1 .. n /\ j \in b
      BY <2>0, TreeFacts
    <2>3. a \cap b = {}
      <3>1. i # j
        BY <1>1
      <3> QED
        BY <1>4, <3>1, TreeFacts
    <2> HIDE DEF a, b
    <2> QED
      BY <2>1, <2>2, <2>3
  <1>9. \A k \in F.active :
            /\ F.sum[k] \in Vector /\ F.size[k] = Cardinality(Tree(r, k))
            /\ \A x \in {1, 2, 3} : F.sum[k][x] = Coordinates(Tree(r, k), x)
    BY DEF IsForest, r
  <1>10. ASSUME NEW k \in G.active
         PROVE  /\ G.sum[k] \in Vector /\ G.size[k] = Cardinality(Tree(s, k))
                /\ \A x \in {1, 2, 3} : G.sum[k][x] = Coordinates(Tree(s, k), x)
    <2>1. k \in F.active /\ k # j
      BY <1>2
    <2>2. CASE k # i
      <3>1. G.sum[k] = F.sum[k] /\ G.size[k] = F.size[k]
        BY <1>1, <1>2, <2>1, <2>2
      <3>2. Tree(s, k) = Tree(r, k)
        BY <1>3, <2>1, <2>2
      <3> QED
        BY <1>9, <2>1, <3>1, <3>2
    <2>3. CASE k = i
      <3>1. G.sum[k] = Plus(F.sum[i], F.sum[j]) /\ G.size[k] = F.size[i] + F.size[j]
        BY <1>1, <1>2, <2>3
      <3>2. F.sum[i] \in Vector /\ F.sum[j] \in Vector
        BY <1>9
      <3>3. Cardinality(a \union b) = Cardinality(a) + Cardinality(b)
        <4>1. Cardinality(a \cap b) = 0 /\ Cardinality(a) \in Nat /\ Cardinality(b) \in Nat
          BY <1>8, FS_EmptySet, FS_CardinalityType
        <4>2. Cardinality(a \union b) = Cardinality(a) + Cardinality(b) - Cardinality(a \cap b)
          BY <1>8, FS_Union
        <4> QED
          BY <4>1, <4>2
      <3>4. ASSUME NEW x \in {1, 2, 3}
            PROVE  Plus(F.sum[i], F.sum[j])[x] = Coordinates(a \union b, x)
        <4>1. Coordinates(a \union b, x) = Coordinates(a, x) + Coordinates(b, x)
          BY <1>8, CoordinatesFacts
        <4>2. F.sum[i][x] = Coordinates(a, x) /\ F.sum[j][x] = Coordinates(b, x)
          BY <1>9
        <4>3. DOMAIN F.sum[i] = 1 .. 3 /\ x \in 1 .. 3
          BY <3>2 DEF Vector
        <4> QED
          BY <4>1, <4>2, <4>3 DEF Plus
      <3>5. Plus(F.sum[i], F.sum[j]) \in Vector
        BY <3>2, VectorFacts
      <3>6. F.size[i] = Cardinality(a) /\ F.size[j] = Cardinality(b)
        BY <1>9
      <3>7. Tree(s, k) = a \union b
        BY <1>3, <2>3
      <3> HIDE DEF a, b
      <3> QED
        BY <3>1, <3>3, <3>4, <3>5, <3>6, <3>7
    <2> QED
      BY <2>2, <2>3
  <1>11. ASSUME NEW p \in PairsOf(G.active)
         PROVE  G.dist[p] = CentroidDistance(G.sum[p[1]], G.size[p[1]], G.sum[p[2]], G.size[p[2]])
    <2>1. G.active \in SUBSET Int /\ 1 .. n \in SUBSET Int /\ F.active \in SUBSET Int
      BY <1>1, <1>6
    <2>2. p[1] \in G.active /\ p[2] \in G.active /\ p[1] < p[2] /\ p = <<p[1], p[2]>>
      BY <2>1, PairFacts
    <2>3. p \in PairsOf(1 .. n) /\ p \in PairsOf(F.active)
      BY <1>2, <1>6 DEF PairsOf
    <2>4. CASE i \in {p[1], p[2]}
      BY <1>2, <2>2, <2>3, <2>4
    <2>5. CASE i \notin {p[1], p[2]}
      <3>1. G.dist[p] = F.dist[p]
        BY <1>2, <2>3, <2>5
      <3>2. F.dist[p] = CentroidDistance(F.sum[p[1]], F.size[p[1]], F.sum[p[2]], F.size[p[2]])
        BY <2>3 DEF IsForest
      <3>3. /\ G.sum[p[1]] = F.sum[p[1]] /\ G.size[p[1]] = F.size[p[1]]
            /\ G.sum[p[2]] = F.sum[p[2]] /\ G.size[p[2]] = F.size[p[2]]
        <4>1. p[1] \in 1 .. n /\ p[2] \in 1 .. n /\ p[1] # i /\ p[2] # i
          BY <1>6, <2>2, <2>5
        <4> QED
          BY <1>1, <1>2, <4>1
      <3> QED
        BY <3>1, <3>2, <3>3
    <2> QED
      BY <2>4, <2>5
  <1>12. DOMAIN G.sum = 1 .. n /\ DOMAIN G.size = 1 .. n /\ DOMAIN G.dist = PairsOf(1 .. n)
    BY <1>1, <1>2
  <1>13. IsForest(G, n)
    <2>1. \E g \in [1 .. n -> G.active] : LeadsTo(g, G.parent)
      BY <1>3
    <2> QED
      BY <1>6, <1>7, <1>10, <1>11, <1>12, <2>1 DEF IsForest
  <1>14. Classes(RootOf(G)) = (Classes(r) \ {a, b}) \union {a \union b}
    <2>1. Classes(RootOf(G)) = {Tree(s, k) : k \in G.active}
      BY <1>7, <1>13, RootFacts
    <2>2. Classes(r) = {Tree(r, k) : k \in F.active}
      BY RootFacts DEF r
    <2>3. i \in G.active
      BY <1>1, <1>2, SMTT(60)
    <2>4. \A k \in F.active : k # i /\ k # j => k \in G.active /\ Tree(s, k) = Tree(r, k)
      BY <1>2, <1>3
    <2>5. \A k \in F.active : k # i /\ k # j => Tree(r, k) # a /\ Tree(r, k) # b
      <3> SUFFICES ASSUME NEW k \in F.active, k # i, k # j PROVE Tree(r, k) # a /\ Tree(r, k) # b
        OBVIOUS
      <3>1. k \in Tree(r, k) /\ Tree(r, k) \cap a = {} /\ Tree(r, k) \cap b = {}
        <4>1. k \in 1 .. n /\ r[k] = k
          BY <1>1, <1>4
        <4>2. k \in Tree(r, k)
          BY <1>4, <4>1, TreeFacts
        <4>3. Tree(r, k) \cap Tree(r, i) = {} /\ Tree(r, k) \cap Tree(r, j) = {}
          BY <1>4, TreeFacts
        <4> QED
          BY <4>2, <4>3
      <3> HIDE DEF a, b
      <3> QED
        BY <3>1
    <2>6. ASSUME NEW A \in Classes(RootOf(G))
          PROVE  A \in (Classes(r) \ {a, b}) \union {a \union b}
      <3>1. PICK k \in G.active : A = Tree(s, k)
        BY <2>1
      <3>2. k \in F.active /\ k # j
        BY <1>2
      <3>3. CASE k = i
        BY <1>3, <3>1, <3>3
      <3>4. CASE k # i
        BY <2>2, <2>4, <2>5, <3>1, <3>2, <3>4
      <3> QED
        BY <3>3, <3>4
    <2>7. a \union b \in Classes(RootOf(G))
      BY <1>3, <2>1, <2>3
    <2>8. ASSUME NEW A \in Classes(r), A # a, A # b PROVE A \in Classes(RootOf(G))
      <3>1. PICK k \in F.active : A = Tree(r, k)
        BY <2>2
      <3>2. k # i /\ k # j
        BY <2>8, <3>1
      <3> QED
        BY <2>1, <2>4, <3>1, <3>2
    <2> HIDE DEF a, b
    <2> QED
      BY <2>6, <2>7, <2>8
  <1> QED
    BY <1>13, <1>14 DEF G, r

(* Numbers by first appearance have the same classes. *)
LEMMA FirstAppearanceClasses ==
  ASSUME NEW n \in Nat, NEW f, DOMAIN f = 1 .. n
  PROVE  Classes(ByFirstAppearance(f)) = Classes(f)
  <1> DEFINE b == ByFirstAppearance(f)
             C(g, m) == {i \in 1 .. n : g[i] = g[m]}
  <1>1. DOMAIN b = 1 .. n /\ \A i, j \in 1 .. n : b[i] = b[j] <=> f[i] = f[j]
    BY FirstAppearance
  <1> HIDE DEF b
  <1>2. \A m \in 1 .. n : C(b, m) = C(f, m)
    BY <1>1
  <1>3. \A g : DOMAIN g = 1 .. n => Classes(g) = {C(g, m) : m \in 1 .. n}
    <2> SUFFICES ASSUME NEW g, DOMAIN g = 1 .. n PROVE Classes(g) = {C(g, m) : m \in 1 .. n}
      OBVIOUS
    <2>1. Range(g) = {g[m] : m \in 1 .. n}
      BY DEF Range
    <2>2. Classes(g) = {{i \in 1 .. n : g[i] = x} : x \in Range(g)}
      BY DEF Classes
    <2>3. ASSUME NEW A \in Classes(g) PROVE \E m \in 1 .. n : A = C(g, m)
      BY <2>1, <2>2
    <2>4. ASSUME NEW m \in 1 .. n PROVE C(g, m) \in Classes(g)
      BY <2>1, <2>2
    <2> QED
      BY <2>3, <2>4
  <1> HIDE DEF C
  <1>4. Classes(b) = {C(b, m) : m \in 1 .. n} /\ Classes(f) = {C(f, m) : m \in 1 .. n}
    BY <1>1, <1>3
  <1>5. {C(b, m) : m \in 1 .. n} = {C(f, m) : m \in 1 .. n}
    BY <1>2
  <1> QED
    BY <1>4, <1>5 DEF b

-----------------------------------------------------------------------------
(* The clustering of a recording.                                          *)

(* What the stages before the votes leave behind. *)
ClusteringInv ==
    /\ linkage \in {"average", "centroid", "none"} /\ length \in Lengths /\ pos \in Nat
    /\ stage \in {"listen", "merge", "vbx", "rebuild", "print"}
    /\ \A i \in DOMAIN embeddings : embeddings[i].chunk \in DOMAIN predictions
    /\ linkage = "none" => embeddings = << >>
    /\ stage = "listen" => initial = << >> /\ labels = << >>
    /\ stage \in {"merge", "vbx"} => embeddings # << >>
    /\ stage = "merge" /\ linkage = "average" => IsClustering(clusters, Len(embeddings))
    /\ stage = "merge" /\ linkage = "centroid" => IsForest(clusters, Len(embeddings))
    /\ stage = "vbx" => /\ linkage = "centroid"
                        /\ DOMAIN initial = DOMAIN embeddings /\ Contiguous(initial)
    /\ stage \in {"rebuild", "print"} =>
          DOMAIN labels = DOMAIN embeddings /\ Contiguous(labels)
    /\ stage # "print" => pending = {}

(* The embeddings and their points. *)
LEMMA PointFacts ==
  ASSUME BaseInv
  PROVE  /\ Len(embeddings) \in Nat /\ DOMAIN embeddings = 1 .. Len(embeddings)
         /\ DOMAIN points = 1 .. Len(embeddings)
         /\ points \in Seq(Points) /\ Len(points) = Len(embeddings)
         /\ \A i \in 1 .. Len(embeddings) : points[i] = embeddings[i].point /\ points[i] \in Vector
         /\ embeddings # << >> => Len(embeddings) > 0 /\ Radius2 \in Int
  <1>1. /\ Len(embeddings) \in Nat /\ DOMAIN embeddings = 1 .. Len(embeddings)
        /\ \A i \in 1 .. Len(embeddings) : embeddings[i] \in Embedding
        /\ embeddings # << >> => Len(embeddings) > 0
    BY DEF BaseInv
  <1>2. /\ DOMAIN points = 1 .. Len(embeddings)
        /\ \A i \in 1 .. Len(embeddings) : points[i] = embeddings[i].point /\ points[i] \in Points
        /\ points = [i \in 1 .. Len(embeddings) |-> embeddings[i].point]
    BY <1>1 DEF points, Embedding
  <1>3. points \in Seq(Points) /\ Len(points) = Len(embeddings)
    <2>1. points \in [1 .. Len(embeddings) -> Points]
      BY <1>2
    <2>2. \A m \in Nat : \A q \in [1 .. m -> Points] : q \in Seq(Points) /\ Len(q) = m
      OBVIOUS
    <2> QED
      BY <1>1, <2>1, <2>2
  <1>4. \A v \in Points : v \in Vector /\ Squared(v) = Radius2
    BY BatchAssumption DEF Vector
  <1>5. embeddings # << >> => Radius2 \in Int
    <2> SUFFICES ASSUME embeddings # << >> PROVE Radius2 \in Int
      OBVIOUS
    <2>1. 1 \in 1 .. Len(embeddings)
      BY <1>1
    <2>2. points[1] \in Vector /\ Squared(points[1]) = Radius2
      BY <1>2, <1>4, <2>1
    <2> QED
      BY <2>2, VectorFacts
  <1> QED
    BY <1>1, <1>2, <1>3, <1>4, <1>5

(* A chunk adds embeddings of its own, and none without a model. *)
LEMMA ChunkFacts ==
  ASSUME BaseInv, linkage = "none" => embeddings = << >>, Chunk
  PROVE  /\ DOMAIN predictions = 1 .. Len(predictions) /\ Len(predictions) \in Nat
         /\ DOMAIN predictions' = 1 .. Len(predictions) + 1
         /\ \E new \in Seq([chunk : {Len(predictions) + 1}, slot : Slots, point : Points]) :
               embeddings' = embeddings \o new
         /\ linkage = "none" => embeddings' = << >>
  <1> DEFINE New == [chunk : {Len(predictions) + 1}, slot : Slots, point : Points]
  <1>1. predictions \in Seq([Slots -> Patterns]) /\ embeddings \in Seq(Embedding)
    BY DEF BaseInv
  <1>2. PICK active \in [Slots -> Patterns] :
            /\ \E slots \in UNION {[1 .. k -> Slots] : k \in 0 .. MaxEmbeddings[length] - Len(embeddings)} :
                  /\ \A s \in Slots : Cardinality({i \in DOMAIN slots : slots[i] = s})
                                        = [r \in Slots |-> IF linkage = "none" THEN 0
                                                           ELSE Embedded(active[r])][s]
                  /\ \E point \in [DOMAIN slots -> Points] :
                      embeddings' = embeddings \o
                          [k \in DOMAIN slots |->
                              [chunk |-> Len(predictions) + 1, slot |-> slots[k], point |-> point[k]]]
            /\ predictions' = Append(predictions, active)
    BY DEF Chunk
  <1>3. /\ DOMAIN predictions = 1 .. Len(predictions) /\ Len(predictions) \in Nat
        /\ DOMAIN predictions' = 1 .. Len(predictions) + 1
    BY <1>1, <1>2
  <1>4. PICK slots \in UNION {[1 .. k -> Slots] : k \in 0 .. MaxEmbeddings[length] - Len(embeddings)} :
            /\ \A s \in Slots : Cardinality({i \in DOMAIN slots : slots[i] = s})
                                  = [r \in Slots |-> IF linkage = "none" THEN 0
                                                     ELSE Embedded(active[r])][s]
            /\ \E point \in [DOMAIN slots -> Points] :
                embeddings' = embeddings \o
                    [k \in DOMAIN slots |->
                        [chunk |-> Len(predictions) + 1, slot |-> slots[k], point |-> point[k]]]
    BY <1>2
  <1>5. PICK k \in 0 .. MaxEmbeddings[length] - Len(embeddings) : slots \in [1 .. k -> Slots]
    OBVIOUS
  <1>6. PICK point \in [DOMAIN slots -> Points] :
            embeddings' = embeddings \o
                [i \in DOMAIN slots |->
                    [chunk |-> Len(predictions) + 1, slot |-> slots[i], point |-> point[i]]]
    BY <1>4
  <1> DEFINE new == [i \in DOMAIN slots |->
                        [chunk |-> Len(predictions) + 1, slot |-> slots[i], point |-> point[i]]]
  <1>7. k \in Nat /\ new \in [1 .. k -> New] /\ DOMAIN new = DOMAIN slots
    BY <1>5
  <1>8. embeddings' = embeddings \o new
    BY <1>6
  <1>9. ASSUME linkage = "none" PROVE k = 0
    <2> SUFFICES ASSUME k # 0 PROVE FALSE
      OBVIOUS
    <2>1. 1 \in 1 .. k
      BY <1>5
    <2>2. 1 \in DOMAIN slots /\ slots[1] \in Slots
      BY <1>5, <2>1
    <2> DEFINE I == {i \in DOMAIN slots : slots[i] = slots[1]}
    <2>3. 1 \in I
      BY <2>2
    <2>4. Cardinality(I) = 0
      BY <1>4, <1>9, <2>2
    <2>5. IsFiniteSet(I)
      <3>1. I \subseteq 1 .. k
        BY <1>5
      <3> HIDE DEF I
      <3> QED
        BY <1>7, <3>1, NumbersFinite, FS_Subset
    <2> HIDE DEF I
    <2> QED
      BY <2>3, <2>4, <2>5, FS_EmptySet
  <1> HIDE DEF new, New
  <1>10. new \in Seq(New)
    BY <1>7
  <1>11. ASSUME linkage = "none" PROVE embeddings' = << >>
    <2>1. new \in Seq(New) /\ Len(new) = 0
      BY <1>7, <1>9, <1>11
    <2>2. new = << >>
      BY <2>1
    <2> QED
      BY <1>8, <1>11, <2>2
  <1> QED
    BY <1>3, <1>8, <1>10, <1>11 DEF New

(* Comparing fractions. *)
LEMMA AtMost ==
  ASSUME NEW x \in Fraction, NEW y \in Fraction
  PROVE  Definition!LessEq(x, y) <=> ~Less(y, x)
  <1>1. /\ x[1] \in Int /\ x[2] \in Int /\ y[1] \in Int /\ y[2] \in Int
    BY DEF Fraction
  <1> DEFINE p == x[1] * y[2]
             q == y[1] * x[2]
  <1>2. p \in Int /\ q \in Int
    BY <1>1
  <1>3. Definition!LessEq(x, y) <=> p <= q
    BY DEF Definition!LessEq
  <1>4. Less(y, x) <=> q < p
    BY DEF Less
  <1> HIDE DEF p, q
  <1> QED
    BY <1>2, <1>3, <1>4

(* The thresholds of the program are those of the definition. *)
LEMMA CloseFacts ==
  ASSUME Radius2 \in Int, NEW a, NEW b
  PROVE  /\ linkage = "average" =>
               /\ Definition!Distance(a, b) = Definition!Mean(a, b)
               /\ Definition!Mean(a, b) \in Fraction =>
                     (Definition!Close(a, b) <=> ~Less(AverageThreshold, Definition!Mean(a, b)))
         /\ linkage = "centroid" =>
               /\ Definition!Distance(a, b) = Definition!BetweenCentroids(a, b)
               /\ Definition!BetweenCentroids(a, b) \in Fraction =>
                     (Definition!Close(a, b)
                        <=> ~Less(CentroidThreshold, Definition!BetweenCentroids(a, b)))
  <1>1. /\ <<6 * Radius2, 5>> \in Fraction /\ AverageThreshold = <<6 * Radius2, 5>>
        /\ <<9 * Radius2, 25>> \in Fraction /\ CentroidThreshold = <<9 * Radius2, 25>>
    BY DEF Fraction, AverageThreshold, CentroidThreshold
  <1>2. ASSUME linkage = "average"
        PROVE  /\ Definition!Distance(a, b) = Definition!Mean(a, b)
               /\ Definition!Mean(a, b) \in Fraction =>
                     (Definition!Close(a, b) <=> ~Less(AverageThreshold, Definition!Mean(a, b)))
    <2>1. Definition!Distance(a, b) = Definition!Mean(a, b)
      BY <1>2 DEF Definition!Distance
    <2>2. Definition!Close(a, b) <=> Definition!LessEq(Definition!Mean(a, b), <<6 * Radius2, 5>>)
      BY <1>2, <2>1 DEF Definition!Close, Limits
    <2> QED
      BY <1>1, <2>1, <2>2, AtMost
  <1>3. ASSUME linkage = "centroid"
        PROVE  /\ Definition!Distance(a, b) = Definition!BetweenCentroids(a, b)
               /\ Definition!BetweenCentroids(a, b) \in Fraction =>
                     (Definition!Close(a, b)
                        <=> ~Less(CentroidThreshold, Definition!BetweenCentroids(a, b)))
    <2>1. Definition!Distance(a, b) = Definition!BetweenCentroids(a, b)
      BY <1>3 DEF Definition!Distance
    <2>2. Definition!Close(a, b)
            <=> Definition!LessEq(Definition!BetweenCentroids(a, b), <<9 * Radius2, 25>>)
      BY <1>3, <2>1 DEF Definition!Close, Limits
    <2> QED
      BY <1>1, <2>1, <2>2, AtMost
  <1> QED
    BY <1>2, <1>3

(* What agglomerative_clustering merges, and when it stops. *)
LEMMA AverageFacts ==
  ASSUME BaseInv, ClusteringInv, stage = "merge", linkage = "average"
  PROVE  /\ IsClustering(clusters, Len(embeddings)) /\ Partition = Members(clusters)
         /\ AverageMayMerge(points, clusters) =>
               \E i, j \in DOMAIN clusters :
                  /\ i < j
                  /\ AverageMerged(points, clusters)
                        = RemoveAt([clusters EXCEPT ![i] = clusters[i] \o clusters[j]], j)
                  /\ Definition!Close(Range(clusters[i]), Range(clusters[j]))
                  /\ \A k, l \in DOMAIN clusters : k # l =>
                        Definition!LessEq(
                            Definition!Distance(Range(clusters[i]), Range(clusters[j])),
                            Definition!Distance(Range(clusters[k]), Range(clusters[l])))
         /\ ~AverageMayMerge(points, clusters) =>
               \A k, l \in DOMAIN clusters :
                  k # l => ~Definition!Close(Range(clusters[k]), Range(clusters[l]))
  <1> DEFINE n == Len(embeddings)
             p == BestAverage(points, clusters)
             AL(k, l) == AverageLinkage(points, clusters[k], clusters[l])
             Mean(k, l) == Definition!Mean(Range(clusters[k]), Range(clusters[l]))
  <1>1. IsClustering(clusters, n)
    BY DEF ClusteringInv
  <1>2. Partition = Members(clusters)
    BY DEF Partition, Members
  <1>3. n \in Nat /\ \A i \in 1 .. n : points[i] \in Vector
    BY PointFacts
  <1>4. Radius2 \in Int
    BY PointFacts DEF ClusteringInv
  <1>5. DOMAIN clusters = 1 .. Len(clusters) /\ Len(clusters) \in Nat
    BY <1>1 DEF IsClustering
  <1> HIDE DEF n
  <1>6. ASSUME NEW k \in DOMAIN clusters, NEW l \in DOMAIN clusters, Len(clusters) > 1
        PROVE  /\ AL(k, l) \in Fraction /\ AL(k, l) = Mean(k, l)
               /\ Definition!Distance(Range(clusters[k]), Range(clusters[l])) = AL(k, l)
               /\ Definition!Close(Range(clusters[k]), Range(clusters[l]))
                     <=> ~Less(AverageThreshold, AL(k, l))
    <2>1. AL(k, l) = Mean(k, l)
      BY <1>1, <1>3, LinkageIsMean
    <2>2. AL(k, l) \in Fraction
      BY <1>1, <1>3, <1>6, BestAverageFacts
    <2>3. /\ Definition!Distance(Range(clusters[k]), Range(clusters[l])) = Mean(k, l)
          /\ Mean(k, l) \in Fraction =>
                (Definition!Close(Range(clusters[k]), Range(clusters[l]))
                    <=> ~Less(AverageThreshold, Mean(k, l)))
      BY <1>4, CloseFacts
    <2> HIDE DEF AL, Mean
    <2> QED
      BY <2>1, <2>2, <2>3
  <1>7. ASSUME Len(clusters) > 1
        PROVE  /\ p[1] \in DOMAIN clusters /\ p[2] \in DOMAIN clusters /\ p[1] < p[2]
               /\ \A k, l \in DOMAIN clusters : k # l => ~Less(AL(k, l), AL(p[1], p[2]))
    <2>1. p \in PairsOf(DOMAIN clusters)
      BY <1>1, <1>3, <1>7, BestAverageFacts
    <2>2. DOMAIN clusters \in SUBSET Int
      BY <1>5
    <2>3. p[1] \in DOMAIN clusters /\ p[2] \in DOMAIN clusters /\ p[1] < p[2]
      <3> HIDE DEF p
      <3> QED
        BY <2>1, <2>2, PairFacts
    <2> QED
      BY <2>3, <1>1, <1>3, <1>7, BestAverageFacts
  <1>8. ASSUME AverageMayMerge(points, clusters)
        PROVE  \E i, j \in DOMAIN clusters :
                  /\ i < j
                  /\ AverageMerged(points, clusters)
                        = RemoveAt([clusters EXCEPT ![i] = clusters[i] \o clusters[j]], j)
                  /\ Definition!Close(Range(clusters[i]), Range(clusters[j]))
                  /\ \A k, l \in DOMAIN clusters : k # l =>
                        Definition!LessEq(
                            Definition!Distance(Range(clusters[i]), Range(clusters[j])),
                            Definition!Distance(Range(clusters[k]), Range(clusters[l])))
    <2>1. Len(clusters) > 1 /\ ~Less(AverageThreshold, AL(p[1], p[2]))
      BY <1>8 DEF AverageMayMerge
    <2>2. AverageMerged(points, clusters)
            = RemoveAt([clusters EXCEPT ![p[1]] = clusters[p[1]] \o clusters[p[2]]], p[2])
      BY DEF AverageMerged
    <2> HIDE DEF p, AL, Mean
    <2>3. Definition!Close(Range(clusters[p[1]]), Range(clusters[p[2]]))
      BY <1>6, <1>7, <2>1
    <2>4. ASSUME NEW k \in DOMAIN clusters, NEW l \in DOMAIN clusters, k # l
          PROVE  Definition!LessEq(
                            Definition!Distance(Range(clusters[p[1]]), Range(clusters[p[2]])),
                            Definition!Distance(Range(clusters[k]), Range(clusters[l])))
      <3>1. /\ AL(k, l) \in Fraction /\ AL(p[1], p[2]) \in Fraction
            /\ Definition!Distance(Range(clusters[k]), Range(clusters[l])) = AL(k, l)
            /\ Definition!Distance(Range(clusters[p[1]]), Range(clusters[p[2]])) = AL(p[1], p[2])
        BY <1>6, <1>7, <2>1
      <3>2. ~Less(AL(k, l), AL(p[1], p[2]))
        BY <1>7, <2>1, <2>4
      <3>3. Definition!LessEq(AL(p[1], p[2]), AL(k, l))
        BY <3>1, <3>2, AtMost
      <3> QED
        BY <3>1, <3>3
    <2> QED
      BY <1>7, <2>1, <2>2, <2>3, <2>4
  <1>9. ASSUME ~AverageMayMerge(points, clusters), NEW k \in DOMAIN clusters,
               NEW l \in DOMAIN clusters, k # l
        PROVE  ~Definition!Close(Range(clusters[k]), Range(clusters[l]))
    <2>1. Len(clusters) > 1
      BY <1>5, <1>9
    <2>2. Less(AverageThreshold, AL(p[1], p[2]))
      BY <1>9, <2>1 DEF AverageMayMerge
    <2>3. AverageThreshold \in Fraction
      BY <1>4 DEF Fraction, AverageThreshold
    <2> HIDE DEF p, AL, Mean
    <2>4. /\ AL(k, l) \in Fraction /\ AL(p[1], p[2]) \in Fraction
          /\ Definition!Close(Range(clusters[k]), Range(clusters[l]))
                     <=> ~Less(AverageThreshold, AL(k, l))
      BY <1>6, <1>7, <2>1
    <2>5. ~Less(AL(k, l), AL(p[1], p[2]))
      BY <1>7, <1>9, <2>1
    <2>6. Less(AverageThreshold, AL(k, l))
      BY <2>2, <2>3, <2>4, <2>5, LessFacts
    <2> QED
      BY <2>4, <2>6
  <1> QED
    BY <1>1, <1>2, <1>8, <1>9 DEF n

(* What simple_ahc merges, and when it stops. *)
LEMMA CentroidFacts ==
  ASSUME BaseInv, ClusteringInv, stage = "merge", linkage = "centroid"
  PROVE  /\ IsForest(clusters, Len(embeddings)) /\ Partition = Classes(RootOf(clusters))
         /\ Classes(RootOf(clusters)) = {Tree(RootOf(clusters), k) : k \in clusters.active}
         /\ CentroidMayMerge(clusters) =>
               \E i, j \in clusters.active :
                  /\ i < j /\ i = BestCentroid(clusters)[1] /\ j = BestCentroid(clusters)[2]
                  /\ Definition!Close(Tree(RootOf(clusters), i), Tree(RootOf(clusters), j))
                  /\ \A k, l \in clusters.active : k # l =>
                        Definition!LessEq(
                            Definition!Distance(Tree(RootOf(clusters), i), Tree(RootOf(clusters), j)),
                            Definition!Distance(Tree(RootOf(clusters), k), Tree(RootOf(clusters), l)))
         /\ ~CentroidMayMerge(clusters) =>
               \A k, l \in clusters.active :
                  k # l => ~Definition!Close(Tree(RootOf(clusters), k), Tree(RootOf(clusters), l))
  <1> DEFINE n == Len(embeddings)
             F == clusters
             p == BestCentroid(clusters)
             T(k) == Tree(RootOf(clusters), k)
             between(k, l) == Definition!BetweenCentroids(T(k), T(l))
  <1>1. IsForest(F, n)
    BY DEF ClusteringInv
  <1>2. Partition = Classes(RootOf(clusters))
    BY DEF Partition
  <1>3. n \in Nat /\ \A i \in 1 .. n : points[i] \in Vector
    BY PointFacts
  <1>4. Radius2 \in Int
    BY PointFacts DEF ClusteringInv
  <1>5. F.active \in SUBSET Int /\ IsFiniteSet(F.active)
    <2>1. F.active \subseteq 1 .. n
      BY <1>1 DEF IsForest
    <2> QED
      BY <1>3, <2>1, NumbersFinite, FS_Subset
  <1>6. Classes(RootOf(clusters)) = {T(k) : k \in F.active}
    BY <1>1, <1>3, RootFacts
  <1> HIDE DEF n, F
  <1>7. ASSUME NEW k \in F.active, NEW l \in F.active, k # l
        PROVE  /\ between(k, l) \in Fraction
               /\ Definition!Distance(T(k), T(l)) = between(k, l)
               /\ Definition!Close(T(k), T(l)) <=> ~Less(CentroidThreshold, between(k, l))
    <2>1. between(k, l) \in Fraction
      BY <1>1, <1>3, <1>7, TreeDistances DEF F
    <2>2. /\ Definition!Distance(T(k), T(l)) = between(k, l)
          /\ between(k, l) \in Fraction =>
                (Definition!Close(T(k), T(l)) <=> ~Less(CentroidThreshold, between(k, l)))
      BY <1>4, CloseFacts
    <2> QED
      BY <2>1, <2>2
  <1>8. Cardinality(F.active) > 1 <=> \E k, l \in F.active : k # l
    BY <1>5, MoreThanOne
  <1>9. ASSUME Cardinality(F.active) > 1
        PROVE  /\ p[1] \in F.active /\ p[2] \in F.active /\ p[1] < p[2] /\ p[1] # p[2]
               /\ F.dist[p] = between(p[1], p[2])
               /\ \A k, l \in F.active : k # l => ~Less(between(k, l), between(p[1], p[2]))
    <2>1. PairsOf(F.active) # {}
      BY <1>5, <1>8, <1>9, MoreThanOne
    <2>2. /\ p \in PairsOf(F.active)
          /\ F.dist[p] = between(p[1], p[2])
          /\ \A k, l \in F.active : k # l => ~Less(between(k, l), F.dist[p])
      BY <1>1, <1>3, <2>1, BestCentroidFacts DEF F
    <2>3. p[1] \in F.active /\ p[2] \in F.active /\ p[1] < p[2] /\ p[1] # p[2]
      <3> HIDE DEF p
      <3> QED
        BY <1>5, <2>2, PairFacts
    <2> HIDE DEF p, between
    <2> QED
      BY <2>2, <2>3
  <1>10. ASSUME CentroidMayMerge(clusters)
         PROVE  \E i, j \in F.active :
                  /\ i < j /\ i = p[1] /\ j = p[2]
                  /\ Definition!Close(T(i), T(j))
                  /\ \A k, l \in F.active : k # l =>
                        Definition!LessEq(Definition!Distance(T(i), T(j)),
                                          Definition!Distance(T(k), T(l)))
    <2>1. Cardinality(F.active) > 1 /\ ~Less(CentroidThreshold, F.dist[p])
      BY <1>10 DEF CentroidMayMerge, F
    <2> HIDE DEF p, T, between
    <2>2. Definition!Close(T(p[1]), T(p[2]))
      <3>1. ~Less(CentroidThreshold, between(p[1], p[2]))
        BY <1>9, <2>1
      <3> QED
        BY <1>7, <1>9, <2>1, <3>1
    <2>3. ASSUME NEW k \in F.active, NEW l \in F.active, k # l
          PROVE  Definition!LessEq(Definition!Distance(T(p[1]), T(p[2])),
                                   Definition!Distance(T(k), T(l)))
      <3>1. /\ between(k, l) \in Fraction /\ between(p[1], p[2]) \in Fraction
            /\ Definition!Distance(T(k), T(l)) = between(k, l)
            /\ Definition!Distance(T(p[1]), T(p[2])) = between(p[1], p[2])
        BY <1>7, <1>9, <2>1, <2>3
      <3>2. ~Less(between(k, l), between(p[1], p[2]))
        BY <1>9, <2>1, <2>3
      <3>3. Definition!LessEq(between(p[1], p[2]), between(k, l))
        BY <3>1, <3>2, AtMost
      <3> QED
        BY <3>1, <3>3
    <2> QED
      BY <1>9, <2>1, <2>2, <2>3
  <1>11. ASSUME ~CentroidMayMerge(clusters), NEW k \in F.active, NEW l \in F.active, k # l
         PROVE  ~Definition!Close(T(k), T(l))
    <2>1. Cardinality(F.active) > 1
      BY <1>8, <1>11
    <2>2. Less(CentroidThreshold, F.dist[p])
      BY <1>11, <2>1 DEF CentroidMayMerge, F
    <2>3. CentroidThreshold \in Fraction
      BY <1>4 DEF Fraction, CentroidThreshold
    <2> HIDE DEF p, T, between
    <2>4. /\ between(k, l) \in Fraction /\ between(p[1], p[2]) \in Fraction
          /\ Definition!Close(T(k), T(l)) <=> ~Less(CentroidThreshold, between(k, l))
      BY <1>7, <1>9, <1>11, <2>1
    <2>5. ~Less(between(k, l), between(p[1], p[2]))
      BY <1>9, <1>11, <2>1
    <2>6. Less(CentroidThreshold, between(p[1], p[2]))
      BY <1>9, <2>1, <2>2
    <2>7. Less(CentroidThreshold, between(k, l))
      BY <2>3, <2>4, <2>5, <2>6, LessFacts
    <2> QED
      BY <2>4, <2>7
  <1> QED
    BY <1>1, <1>2, <1>6, <1>10, <1>11 DEF n, F

(* No labels are labels without a gap. *)
LEMMA NoLabels == Contiguous(<< >>) /\ DOMAIN << >> = {} /\ Classes(<< >>) = {}
  <1>1. DOMAIN << >> = {} /\ Range(<< >>) = {}
    BY DEF Range
  <1>2. 0 .. 0 - 1 = {}
    OBVIOUS
  <1> QED
    BY <1>1, <1>2 DEF Contiguous, Classes

(* A forest does not depend on more than the points. *)
LEMMA ForestStays ==
  ASSUME embeddings' = embeddings, IsForest(clusters', Len(embeddings))
  PROVE  IsForest(clusters, Len(embeddings))'
  <1>1. points' = points
    BY DEF points
  <1>2. \A a, x : Coordinates(a, x)' = Coordinates(a, x)
    BY <1>1 DEF Coordinates
  <1> QED
    BY <1>2 DEF IsForest

(* Chunks. *)
LEMMA ClusteringChunk ==
  ASSUME BaseInv, ClusteringInv, Chunk
  PROVE  ClusteringInv'
  <1>1. /\ stage = "listen" /\ stage' = stage /\ linkage' = linkage /\ length' = length
        /\ pos' = pos + Step /\ initial' = initial /\ labels' = labels /\ pending' = pending
    BY DEF Chunk
  <1>2. linkage = "none" => embeddings = << >>
    BY DEF ClusteringInv
  <1>3. /\ DOMAIN predictions = 1 .. Len(predictions) /\ Len(predictions) \in Nat
        /\ DOMAIN predictions' = 1 .. Len(predictions) + 1
        /\ linkage = "none" => embeddings' = << >>
    BY <1>2, ChunkFacts
  <1>4. PICK new \in Seq([chunk : {Len(predictions) + 1}, slot : Slots, point : Points]) :
            embeddings' = embeddings \o new
    BY <1>2, ChunkFacts
  <1>5. pos' \in Nat
    <2>1. pos \in Nat /\ Step \in Nat
      BY Parameters DEF ClusteringInv
    <2> QED
      BY <1>1, <2>1
  <1>6. ASSUME NEW i \in DOMAIN embeddings' PROVE embeddings'[i].chunk \in DOMAIN predictions'
    <2>1. /\ embeddings \in Seq(Embedding) /\ DOMAIN embeddings = 1 .. Len(embeddings)
          /\ Len(embeddings) \in Nat
      BY DEF BaseInv
    <2>2. DOMAIN new = 1 .. Len(new) /\ Len(new) \in Nat
          /\ \A k \in 1 .. Len(new) : new[k].chunk = Len(predictions) + 1
      <3> DEFINE New == [chunk : {Len(predictions) + 1}, slot : Slots, point : Points]
      <3>1. new \in Seq(New)
        OBVIOUS
      <3>2. \A r \in New : r.chunk = Len(predictions) + 1
        OBVIOUS
      <3> HIDE DEF New
      <3>3. DOMAIN new = 1 .. Len(new) /\ Len(new) \in Nat /\ \A k \in 1 .. Len(new) : new[k] \in New
        BY <3>1
      <3> QED
        BY <3>2, <3>3
    <2>3. DOMAIN embeddings' = 1 .. Len(embeddings) + Len(new)
      BY <1>4, <2>1, <2>2
    <2>4. i \in 1 .. Len(embeddings) + Len(new)
      BY <2>3
    <2>5. CASE i <= Len(embeddings)
      <3>1. i \in 1 .. Len(embeddings)
        BY <2>1, <2>2, <2>4, <2>5
      <3>2. embeddings'[i] = embeddings[i]
        BY <1>4, <2>1, <2>2, <2>4, <3>1
      <3>3. embeddings[i].chunk \in DOMAIN predictions
        BY <2>1, <3>1 DEF ClusteringInv
      <3>4. DOMAIN predictions \subseteq DOMAIN predictions'
        BY <1>3
      <3> QED
        BY <3>2, <3>3, <3>4
    <2>6. CASE ~(i <= Len(embeddings))
      <3>1. i - Len(embeddings) \in 1 .. Len(new)
        BY <2>1, <2>2, <2>4, <2>6
      <3>2. embeddings'[i] = new[i - Len(embeddings)]
        BY <1>4, <2>1, <2>2, <2>4, <2>6
      <3>3. Len(predictions) + 1 \in DOMAIN predictions'
        BY <1>3
      <3> QED
        BY <2>2, <3>1, <3>2, <3>3
    <2> QED
      BY <2>5, <2>6
  <1> QED
    BY <1>1, <1>3, <1>5, <1>6 DEF ClusteringInv

(* From chunks to clusters. *)
LEMMA ClusteringStart ==
  ASSUME BaseInv, ClusteringInv, NoMoreChunks
  PROVE  ClusteringInv'
  <1> DEFINE n == Len(embeddings)
  <1>1. /\ stage = "listen" /\ stage' = IF embeddings = << >> THEN "rebuild" ELSE "merge"
        /\ clusters' = IF linkage = "centroid" THEN SingleTrees(points) ELSE Singletons(points)
        /\ linkage' = linkage /\ length' = length /\ pos' = pos /\ predictions' = predictions
        /\ embeddings' = embeddings /\ initial' = initial /\ labels' = labels /\ pending' = pending
    BY DEF NoMoreChunks
  <1>2. n \in Nat /\ DOMAIN points = 1 .. n /\ \A i \in 1 .. n : points[i] \in Vector
    BY PointFacts
  <1>3. linkage \in {"average", "centroid", "none"} /\ (linkage = "none" => embeddings = << >>)
    BY DEF ClusteringInv
  <1>4. labels = << >>
    BY <1>1 DEF ClusteringInv
  <1> HIDE DEF n
  <1>5. stage' = "merge" /\ linkage' = "average" => IsClustering(clusters', n)
    <2> SUFFICES ASSUME stage' = "merge", linkage' = "average" PROVE IsClustering(clusters', n)
      OBVIOUS
    <2>1. clusters' = Singletons(points)
      BY <1>1
    <2> QED
      BY <1>2, <2>1, SingletonFacts
  <1>6. stage' = "merge" /\ linkage' = "centroid" => IsForest(clusters, Len(embeddings))'
    <2> SUFFICES ASSUME stage' = "merge", linkage' = "centroid"
                 PROVE  IsForest(clusters, Len(embeddings))'
      OBVIOUS
    <2>1. clusters' = SingleTrees(points)
      BY <1>1
    <2>2. IsForest(clusters', n)
      BY <1>2, <2>1, SingleTreesFacts
    <2> QED
      BY <1>1, <2>2, ForestStays DEF n
  <1>7. stage' \in {"rebuild", "print"} => DOMAIN labels' = DOMAIN embeddings' /\ Contiguous(labels')
    <2> SUFFICES ASSUME stage' \in {"rebuild", "print"}
                 PROVE  DOMAIN labels' = DOMAIN embeddings' /\ Contiguous(labels')
      OBVIOUS
    <2>1. embeddings' = << >> /\ labels' = << >>
      BY <1>1, <1>4
    <2> QED
      BY <2>1, NoLabels
  <1>8. stage' = "merge" => embeddings' # << >>
    BY <1>1
  <1>9. stage' \in {"rebuild", "merge"}
    BY <1>1
  <1>10. /\ linkage \in {"average", "centroid", "none"} /\ length \in Lengths /\ pos \in Nat
         /\ \A i \in DOMAIN embeddings : embeddings[i].chunk \in DOMAIN predictions
         /\ pending = {}
    BY <1>1 DEF ClusteringInv
  <1> QED
    BY <1>1, <1>3, <1>5, <1>6, <1>7, <1>8, <1>9, <1>10 DEF ClusteringInv, n

(* Merging, and the labels at its end. *)
LEMMA ClusteringMerge ==
  ASSUME BaseInv, ClusteringInv, MergeAverage \/ StopAverage \/ MergeCentroid \/ StopCentroid
  PROVE  ClusteringInv'
  <1> DEFINE n == Len(embeddings)
  <1>1. /\ stage = "merge"
        /\ linkage' = linkage /\ length' = length /\ pos' = pos /\ predictions' = predictions
        /\ embeddings' = embeddings /\ pending' = pending
    BY DEF MergeAverage, StopAverage, MergeCentroid, StopCentroid
  <1>2. /\ n \in Nat /\ DOMAIN points = 1 .. n /\ DOMAIN embeddings = 1 .. n
        /\ \A i \in 1 .. n : points[i] \in Vector
    BY PointFacts
  <1>3. /\ linkage \in {"average", "centroid", "none"} /\ length \in Lengths /\ pos \in Nat
        /\ \A i \in DOMAIN embeddings : embeddings[i].chunk \in DOMAIN predictions
        /\ pending = {} /\ embeddings # << >>
        /\ linkage = "none" => embeddings = << >>
    BY <1>1 DEF ClusteringInv
  <1> HIDE DEF n
  <1>4. CASE MergeAverage
    <2>1. /\ linkage = "average" /\ AverageMayMerge(points, clusters) /\ stage' = stage
          /\ clusters' = AverageMerged(points, clusters)
      BY <1>4 DEF MergeAverage
    <2>2. IsClustering(clusters, n)
      BY <1>1, <2>1 DEF ClusteringInv, n
    <2>3. PICK i, j \in DOMAIN clusters :
              i < j /\ clusters' = RemoveAt([clusters EXCEPT ![i] = clusters[i] \o clusters[j]], j)
      BY <1>1, <2>1, AverageFacts
    <2>4. IsClustering(clusters', n)
      BY <1>2, <2>2, <2>3, MergedFacts
    <2> QED
      BY <1>1, <1>3, <2>1, <2>4 DEF ClusteringInv, n
  <1>5. CASE StopAverage
    <2>1. /\ linkage = "average" /\ stage' = "rebuild"
          /\ labels' = AverageLabels(points, clusters)
      BY <1>5 DEF StopAverage
    <2>2. IsClustering(clusters, n)
      BY <1>1, <2>1 DEF ClusteringInv, n
    <2>3. DOMAIN labels' = 1 .. n /\ Contiguous(labels')
      BY <1>2, <2>1, <2>2, AverageLabelFacts
    <2> QED
      BY <1>1, <1>2, <1>3, <2>1, <2>3 DEF ClusteringInv
  <1>6. CASE MergeCentroid
    <2>1. /\ linkage = "centroid" /\ CentroidMayMerge(clusters) /\ stage' = stage
          /\ clusters' = CentroidMerged(clusters)
      BY <1>6 DEF MergeCentroid
    <2>2. IsForest(clusters, n)
      BY <1>1, <2>1 DEF ClusteringInv, n
    <2>3. PICK i, j \in clusters.active :
              i < j /\ i = BestCentroid(clusters)[1] /\ j = BestCentroid(clusters)[2]
      BY <1>1, <2>1, CentroidFacts
    <2>4. IsForest(clusters', n)
      BY <1>2, <2>1, <2>2, <2>3, CentroidMergedFacts
    <2>5. IsForest(clusters, Len(embeddings))'
      BY <1>1, <2>4, ForestStays DEF n
    <2> QED
      BY <1>1, <1>3, <2>1, <2>5 DEF ClusteringInv
  <1>7. CASE StopCentroid
    <2>1. /\ linkage = "centroid" /\ stage' = "vbx" /\ initial' = CentroidLabels(clusters)
      BY <1>7 DEF StopCentroid
    <2>2. IsForest(clusters, n)
      BY <1>1, <2>1 DEF ClusteringInv, n
    <2>3. DOMAIN RootOf(clusters) = 1 .. n
      BY <1>2, <2>2, RootFacts
    <2>4. DOMAIN initial' = 1 .. n /\ Contiguous(initial')
      BY <1>2, <2>1, <2>3, FirstAppearance DEF CentroidLabels
    <2> QED
      BY <1>1, <1>2, <1>3, <2>1, <2>4 DEF ClusteringInv
  <1> QED
    BY <1>4, <1>5, <1>6, <1>7

(* Labels, votes and print. *)
LEMMA ClusteringRest ==
  ASSUME BaseInv, ClusteringInv, Vbx \/ Rebuild \/ PrintSegment \/ UNCHANGED vars
  PROVE  ClusteringInv'
  <1> DEFINE n == Len(embeddings)
  <1>1. /\ linkage' = linkage /\ length' = length /\ pos' = pos /\ predictions' = predictions
        /\ embeddings' = embeddings /\ initial' = initial
    BY DEF Vbx, Rebuild, PrintSegment, vars
  <1>2. n \in Nat /\ DOMAIN embeddings = 1 .. n
    BY PointFacts
  <1>3. /\ linkage \in {"average", "centroid", "none"} /\ length \in Lengths /\ pos \in Nat
        /\ \A i \in DOMAIN embeddings : embeddings[i].chunk \in DOMAIN predictions
        /\ linkage = "none" => embeddings = << >>
    BY DEF ClusteringInv
  <1> HIDE DEF n
  <1>4. CASE Vbx
    <2>1. /\ stage = "vbx" /\ stage' = "rebuild" /\ pending' = pending
          /\ \/ labels' = initial
             \/ \E best \in [DOMAIN initial -> Range(initial)] : labels' = ByFirstAppearance(best)
      BY <1>4 DEF Vbx, Remapped
    <2>2. DOMAIN initial = 1 .. n /\ Contiguous(initial) /\ pending = {}
      BY <1>2, <2>1 DEF ClusteringInv
    <2>3. DOMAIN labels' = 1 .. n /\ Contiguous(labels')
      <3>1. CASE labels' = initial
        BY <2>2, <3>1
      <3>2. ASSUME NEW best \in [DOMAIN initial -> Range(initial)],
                   labels' = ByFirstAppearance(best)
            PROVE  DOMAIN labels' = 1 .. n /\ Contiguous(labels')
        <4>1. DOMAIN best = 1 .. n
          BY <2>2
        <4> QED
          BY <1>2, <3>2, <4>1, FirstAppearance
      <3> QED
        BY <2>1, <3>1, <3>2
    <2> QED
      BY <1>1, <1>2, <1>3, <2>1, <2>2, <2>3 DEF ClusteringInv
  <1>5. CASE Rebuild \/ PrintSegment
    <2>1. stage \in {"rebuild", "print"} /\ stage' = "print" /\ labels' = labels
      BY <1>5 DEF Rebuild, PrintSegment
    <2>2. DOMAIN labels = DOMAIN embeddings /\ Contiguous(labels)
      BY <2>1 DEF ClusteringInv
    <2> QED
      BY <1>1, <1>3, <2>1, <2>2 DEF ClusteringInv
  <1>6. CASE UNCHANGED vars
    <2>1. stage' = stage /\ clusters' = clusters /\ labels' = labels /\ pending' = pending
      BY <1>6 DEF vars
    <2>2. stage = "merge" /\ linkage = "centroid" => IsForest(clusters, Len(embeddings))'
      <3> SUFFICES ASSUME stage = "merge", linkage = "centroid"
                   PROVE  IsForest(clusters, Len(embeddings))'
        OBVIOUS
      <3>1. IsForest(clusters', Len(embeddings))
        BY <2>1 DEF ClusteringInv
      <3> QED
        BY <1>1, <3>1, ForestStays
    <2> QED
      BY <1>1, <2>1, <2>2 DEF ClusteringInv
  <1> QED
    BY <1>4, <1>5, <1>6

(* Together with BatchInv, an invariant. *)
THEOREM ClusteringInvariance == Spec => [](BatchInv /\ ClusteringInv)
  <1>1. Init => BatchInv /\ ClusteringInv
    <2> SUFFICES ASSUME Init PROVE BatchInv /\ ClusteringInv
      OBVIOUS
    <2>1. length \in Nat
      BY Parameters DEF Init
    <2>2. predictions = << >> /\ embeddings = << >> /\ printed = << >> /\ stage = "listen"
      BY DEF Init
    <2>3. BatchInv
      BY <2>1, <2>2 DEF BatchInv, BaseInv, PrintInv
    <2>4. DOMAIN embeddings = {}
      BY <2>2, NoLabels
    <2>5. ClusteringInv
      BY <2>2, <2>4 DEF Init, ClusteringInv
    <2> QED
      BY <2>3, <2>5
  <1>2. BatchInv /\ ClusteringInv /\ [Next]_vars => (BatchInv /\ ClusteringInv)'
    <2> SUFFICES ASSUME BatchInv, ClusteringInv, [Next]_vars PROVE (BatchInv /\ ClusteringInv)'
      OBVIOUS
    <2>1. BaseInv /\ BatchInv'
      BY BatchStep DEF BatchInv
    <2>2. CASE Chunk
      BY <2>1, <2>2, ClusteringChunk
    <2>3. CASE NoMoreChunks
      BY <2>1, <2>3, ClusteringStart
    <2>4. CASE MergeAverage \/ StopAverage \/ MergeCentroid \/ StopCentroid
      BY <2>1, <2>4, ClusteringMerge
    <2>5. CASE Vbx \/ Rebuild \/ PrintSegment \/ UNCHANGED vars
      BY <2>1, <2>5, ClusteringRest
    <2> QED
      BY <2>2, <2>3, <2>4, <2>5 DEF Next
  <1> QED
    BY <1>1, <1>2, PTL DEF Spec

(* Numbers without a gap, and the number after the largest. *)
LEMMA SpeakersFacts ==
  ASSUME Contiguous(labels), linkage # "none"
  PROVE  Range(labels) = Speakers
  <1>1. PICK k \in Nat : Range(labels) = 0 .. k - 1
    BY DEF Contiguous
  <1> DEFINE S == Range(labels) \union {-1}
  <1>2. k - 1 \in S /\ \A y \in S : k - 1 >= y
    BY <1>1
  <1>3. S \subseteq Int
    BY <1>1
  <1> HIDE DEF S
  <1>4. Max(S) = k - 1
    <2>1. Max(S) \in S /\ \A y \in S : Max(S) >= y
      BY <1>2 DEF Max
    <2>2. Max(S) >= k - 1 /\ k - 1 >= Max(S) /\ Max(S) \in Int /\ k - 1 \in Int
      BY <1>2, <1>3, <2>1
    <2> QED
      BY <2>2
  <1> DEFINE m == IF linkage = "none" THEN NSlots ELSE Max(S) + 1
  <1>5. Speakers = 0 .. m - 1
    BY DEF Speakers, S
  <1>6. m - 1 = k - 1
    BY <1>4
  <1> HIDE DEF m
  <1> QED
    BY <1>1, <1>5, <1>6

(* The speakers of the timeline are those that some embedding is labelled  *)
(* with (num_global_speakers in main is the largest label plus one), and   *)
(* what is pending or printed lies within the recording, under one of      *)
(* their names.                                                            *)
THEOREM TypeCorrect == Spec => []TypeOK
  <1>1. BatchInv /\ ClusteringInv => TypeOK
    <2> SUFFICES ASSUME BatchInv, ClusteringInv PROVE TypeOK
      OBVIOUS
    <2>1. predictions \in Seq([Slots -> SUBSET (0 .. NumFrames - 1)])
      <3>1. predictions \in Seq([Slots -> Patterns])
        BY DEF BatchInv, BaseInv
      <3>2. [Slots -> Patterns] \subseteq [Slots -> SUBSET (0 .. NumFrames - 1)]
        BY BatchAssumption
      <3> QED
        BY <3>1, <3>2
    <2>2. ASSUME NEW i \in DOMAIN embeddings
          PROVE  embeddings[i] \in [chunk : DOMAIN predictions, slot : Slots, point : Points]
      <3>1. embeddings[i] \in Embedding
        BY DEF BatchInv, BaseInv
      <3>2. embeddings[i].chunk \in DOMAIN predictions
        BY DEF ClusteringInv
      <3> QED
        BY <3>1, <3>2 DEF Embedding
    <2>3. ASSUME linkage # "none", stage \in {"rebuild", "print"}
          PROVE  DOMAIN labels = DOMAIN embeddings /\ Range(labels) = Speakers
      <3>1. DOMAIN labels = DOMAIN embeddings /\ Contiguous(labels)
        BY <2>3 DEF ClusteringInv
      <3> QED
        BY <2>3, <3>1, SpeakersFacts
    <2>4. ASSUME stage = "print"
          PROVE  /\ heard \in [Speakers -> SUBSET (0 .. GridFrames - 1)]
                 /\ \A g \in Speakers : heard[g] \subseteq 0 .. GridFrames - 1
      <3>1. heard = HeardNow
        BY <2>4 DEF BatchInv, BaseInv
      <3> QED
        BY <3>1 DEF HeardNow
    <2>5. ASSUME NEW seg \in pending \union Range(printed)
          PROVE  seg.speaker \in Speakers /\ 0 <= seg.start /\ seg.start < seg.end /\ seg.end <= GridFrames
      <3>1. stage = "print"
        <4> SUFFICES ASSUME stage # "print" PROVE FALSE
          OBVIOUS
        <4>1. pending = {} /\ printed = << >>
          BY DEF ClusteringInv, BatchInv, PrintInv
        <4> QED
          BY <4>1 DEF Range
      <3>2. GridFrames \in Nat /\ PendingInv /\ PrintedInv
        <4>1. length \in Nat /\ PendingInv /\ PrintedInv
          BY <3>1 DEF BatchInv, BaseInv, PrintInv
        <4> QED
          BY <4>1, GridFacts
      <3>3. /\ seg \in Segment /\ seg.start < seg.end
            /\ {seg.start, seg.end - 1} \subseteq heard[seg.speaker]
        <4>1. CASE seg \in pending
          <5>1. seg \in Segment /\ IsStretch(heard[seg.speaker], seg)
            BY <3>2, <4>1 DEF PendingInv
          <5>2. seg.start \in Int /\ seg.end \in Int /\ seg.start < seg.end
                /\ seg.start .. seg.end - 1 \subseteq heard[seg.speaker]
            BY <5>1 DEF Segment, IsStretch
          <5>3. seg.start \in seg.start .. seg.end - 1 /\ seg.end - 1 \in seg.start .. seg.end - 1
            BY <5>2
          <5> QED
            BY <5>1, <5>2, <5>3
        <4>2. CASE seg \in Range(printed)
          <5>1. PICK k \in DOMAIN printed : seg = printed[k]
            BY <4>2 DEF Range
          <5>2. printed[k] \in Segment
            BY <3>2 DEF PrintedInv
          <5>3. IsJoined(heard[printed[k].speaker], printed[k])
            BY <3>2 DEF PrintedInv
          <5> QED
            BY <5>1, <5>2, <5>3 DEF IsJoined
        <4> QED
          BY <4>1, <4>2
      <3>4. seg.speaker \in Speakers /\ seg.start \in Int /\ seg.end \in Int
        BY <3>3 DEF Segment
      <3>5. seg.start \in 0 .. GridFrames - 1 /\ seg.end - 1 \in 0 .. GridFrames - 1
        BY <2>4, <3>1, <3>3, <3>4
      <3> QED
        BY <3>2, <3>3, <3>4, <3>5
    <2> QED
      BY <2>1, <2>2, <2>3, <2>4, <2>5 DEF ClusteringInv, TypeOK
  <1> QED
    BY <1>1, ClusteringInvariance, PTL
-----------------------------------------------------------------------------
(* The clusterings implement agglomeration by definition.                  *)

(* A step that leaves the points and the clusters alone. *)
Unmoved ==
    /\ linkage' = linkage /\ points' = points /\ Partition' = Partition
    /\ (stage' \notin {"listen", "merge"}) <=> (stage \notin {"listen", "merge"})

(* A clustering of points: two different clusters have no point in common. *)
LEMMA MembersDiffer ==
  ASSUME NEW n \in Nat, NEW cl, IsClustering(cl, n)
  PROVE  /\ \A k, l \in DOMAIN cl : k # l => Range(cl[k]) # Range(cl[l])
         /\ Members(cl) = {Range(cl[k]) : k \in DOMAIN cl}
  <1>1. ASSUME NEW k \in DOMAIN cl, NEW l \in DOMAIN cl, k # l PROVE Range(cl[k]) # Range(cl[l])
    <2>1. Range(cl[k]) # {} /\ Range(cl[k]) \cap Range(cl[l]) = {}
      BY <1>1, ClusterFacts
    <2> QED
      BY <2>1
  <1> QED
    BY <1>1 DEF Members

(* Trees with different roots differ. *)
LEMMA TreesDiffer ==
  ASSUME NEW n \in Nat, NEW F, IsForest(F, n), NEW k \in F.active, NEW l \in F.active, k # l
  PROVE  Tree(RootOf(F), k) # Tree(RootOf(F), l)
  <1>1. DOMAIN RootOf(F) = 1 .. n /\ k \in 1 .. n /\ RootOf(F)[k] = k
    BY RootFacts DEF IsForest
  <1>2. k \in Tree(RootOf(F), k) /\ Tree(RootOf(F), k) \cap Tree(RootOf(F), l) = {}
    BY <1>1, TreeFacts
  <1> QED
    BY <1>2

(* A chunk adds points. *)
LEMMA ChunkRefines ==
  ASSUME BaseInv, ClusteringInv, Chunk, BaseInv'
  PROVE  Definition!Add
  <1>1. stage = "listen" /\ stage' = "listen" /\ linkage' = linkage
    BY DEF Chunk
  <1>2. PICK new \in Seq([chunk : {Len(predictions) + 1}, slot : Slots, point : Points]) :
            embeddings' = embeddings \o new
    BY ChunkFacts DEF ClusteringInv
  <1>3. /\ Len(embeddings) \in Nat /\ DOMAIN embeddings = 1 .. Len(embeddings)
        /\ DOMAIN points = 1 .. Len(embeddings) /\ Len(points) = Len(embeddings)
        /\ points \in Seq(Points)
        /\ \A i \in 1 .. Len(embeddings) : points[i] = embeddings[i].point
    BY PointFacts
  <1>4. /\ Len(embeddings') \in Nat /\ DOMAIN embeddings' = 1 .. Len(embeddings')
        /\ DOMAIN points' = 1 .. Len(embeddings') /\ Len(points') = Len(embeddings')
        /\ points' \in Seq(Points)
        /\ \A i \in 1 .. Len(embeddings') : points'[i] = embeddings'[i].point
    <2>1. /\ embeddings' \in Seq(Embedding)
      BY DEF BaseInv, Embedding, Slots
    <2>2. /\ Len(embeddings') \in Nat /\ DOMAIN embeddings' = 1 .. Len(embeddings')
          /\ \A i \in 1 .. Len(embeddings') : embeddings'[i] \in Embedding
      BY <2>1
    <2>3. /\ DOMAIN points' = 1 .. Len(embeddings')
          /\ \A i \in 1 .. Len(embeddings') : points'[i] = embeddings'[i].point /\ points'[i] \in Points
          /\ points' = [i \in 1 .. Len(embeddings') |-> embeddings'[i].point]
      BY <2>2 DEF points, Embedding
    <2>4. points' \in [1 .. Len(embeddings') -> Points]
      BY <2>3
    <2>5. \A m \in Nat : \A q \in [1 .. m -> Points] : q \in Seq(Points) /\ Len(q) = m
      OBVIOUS
    <2> QED
      BY <2>2, <2>3, <2>4, <2>5
  <1>5. /\ Len(embeddings) <= Len(embeddings')
        /\ \A i \in 1 .. Len(embeddings) : embeddings'[i] = embeddings[i]
    <2>1. embeddings \in Seq(Embedding) /\ Len(new) \in Nat
      BY <1>2 DEF BaseInv
    <2> QED
      BY <1>2, <2>1
  <1>6. SubSeq(points', 1, Len(points)) = points
    <2>1. \A i \in 1 .. Len(points) : points'[i] = points[i]
      BY <1>3, <1>4, <1>5
    <2>2. Len(points) \in Nat /\ Len(points) <= Len(points')
      BY <1>3, <1>4, <1>5
    <2>3. \A s, t \in Seq(Points) :
            Len(t) <= Len(s) /\ (\A i \in 1 .. Len(t) : s[i] = t[i]) => SubSeq(s, 1, Len(t)) = t
      <3> SUFFICES ASSUME NEW s \in Seq(Points), NEW t \in Seq(Points),
                          Len(t) <= Len(s), \A i \in 1 .. Len(t) : s[i] = t[i]
                   PROVE  SubSeq(s, 1, Len(t)) = t
        OBVIOUS
      <3>1. SubSeq(s, 1, Len(t)) = [i \in 1 .. Len(t) |-> s[i]]
        OBVIOUS
      <3>2. t = [i \in 1 .. Len(t) |-> t[i]]
        OBVIOUS
      <3> QED
        BY <3>1, <3>2
    <2> QED
      BY <1>3, <1>4, <2>1, <2>2, <2>3
  <1>7. Partition = {{i} : i \in DOMAIN points} /\ Partition' = {{i} : i \in DOMAIN points'}
    BY <1>1, <1>3, <1>4 DEF Partition
  <1>8. Len(points') >= Len(points)
    BY <1>3, <1>4, <1>5
  <1>9. (stage' \notin {"listen", "merge"}) = (stage \notin {"listen", "merge"})
    BY <1>1
  <1> QED
    BY <1>1, <1>6, <1>7, <1>8, <1>9 DEF Definition!Add

(* The clusterings begin with every point alone. *)
LEMMA StartRefines ==
  ASSUME BaseInv, ClusteringInv, NoMoreChunks
  PROVE  Definition!Finish \/ Unmoved
  <1> DEFINE n == Len(embeddings)
  <1>1. /\ stage = "listen" /\ stage' = IF embeddings = << >> THEN "rebuild" ELSE "merge"
        /\ clusters' = IF linkage = "centroid" THEN SingleTrees(points) ELSE Singletons(points)
        /\ linkage' = linkage /\ embeddings' = embeddings /\ initial' = initial /\ initial = << >>
    BY DEF NoMoreChunks, ClusteringInv
  <1>2. /\ n \in Nat /\ DOMAIN points = 1 .. n /\ DOMAIN embeddings = 1 .. n
        /\ \A i \in 1 .. n : points[i] \in Vector
    BY PointFacts
  <1>3. points' = points
    BY <1>1 DEF points
  <1>4. Partition = {{i} : i \in 1 .. n}
    BY <1>1, <1>2 DEF Partition
  <1>5. CASE embeddings = << >>
    <2>1. Partition = {}
      BY <1>1, <1>5, NoLabels DEF Partition
    <2>2. stage' = "rebuild" /\ initial' = << >>
      BY <1>1, <1>5
    <2>3. Partition' = {}
      BY <2>2, NoLabels DEF Partition
    <2>4. Definition!Pairs = {}
      BY <2>1 DEF Definition!Pairs
    <2>5. (stage' \notin {"listen", "merge"}) = TRUE
      BY <2>2
    <2> QED
      BY <1>1, <1>3, <2>1, <2>3, <2>4, <2>5 DEF Definition!Finish
  <1>6. CASE embeddings # << >>
    <2>1. stage' = "merge" /\ linkage \in {"average", "centroid"}
      BY <1>1, <1>6 DEF ClusteringInv
    <2>2. CASE linkage = "average"
      <3>1. clusters' = Singletons(points)
        BY <1>1, <2>2
      <3>2. Members(clusters') = {{i} : i \in 1 .. n}
        BY <1>2, <3>1, SingletonFacts
      <3>3. Partition' = Members(clusters')
        BY <1>1, <2>1, <2>2 DEF Partition, Members
      <3> QED
        BY <1>1, <1>3, <1>4, <2>1, <3>2, <3>3 DEF Unmoved
    <2>3. CASE linkage = "centroid"
      <3>1. clusters' = SingleTrees(points)
        BY <1>1, <2>3
      <3>2. Classes(RootOf(clusters')) = {{i} : i \in 1 .. n}
        BY <1>2, <3>1, SingleTreesFacts
      <3>3. Partition' = Classes(RootOf(clusters'))
        BY <1>1, <2>1, <2>3 DEF Partition
      <3> QED
        BY <1>1, <1>3, <1>4, <2>1, <3>2, <3>3 DEF Unmoved
    <2> QED
      BY <2>1, <2>2, <2>3
  <1> QED
    BY <1>5, <1>6

(* agglomerative_clustering merges a closest pair, and stops at the        *)
(* threshold.                                                              *)
LEMMA AverageRefines ==
  ASSUME BaseInv, ClusteringInv, MergeAverage \/ StopAverage
  PROVE  Definition!Merge \/ Definition!Finish
  <1> DEFINE n == Len(embeddings)
  <1>1. /\ stage = "merge" /\ linkage = "average" /\ linkage' = linkage /\ embeddings' = embeddings
    BY DEF MergeAverage, StopAverage
  <1>2. points' = points /\ n \in Nat /\ DOMAIN points = 1 .. n
    BY <1>1, PointFacts DEF points
  <1>3. IsClustering(clusters, n) /\ Partition = Members(clusters)
    BY <1>1, AverageFacts
  <1>4. DOMAIN clusters \subseteq Int
    BY <1>3 DEF IsClustering
  <1> HIDE DEF n
  <1>5. /\ \A k, l \in DOMAIN clusters : k # l => Range(clusters[k]) # Range(clusters[l])
        /\ Partition = {Range(clusters[k]) : k \in DOMAIN clusters}
    BY <1>2, <1>3, MembersDiffer
  <1>6. ASSUME NEW q \in Definition!Pairs
        PROVE  \E k, l \in DOMAIN clusters :
                  k # l /\ q[1] = Range(clusters[k]) /\ q[2] = Range(clusters[l])
    <2>1. q[1] \in Partition /\ q[2] \in Partition /\ q[1] # q[2]
      BY DEF Definition!Pairs
    <2> QED
      BY <1>5, <2>1
  <1>7. CASE MergeAverage
    <2>1. /\ AverageMayMerge(points, clusters) /\ stage' = stage
          /\ clusters' = AverageMerged(points, clusters)
      BY <1>7 DEF MergeAverage
    <2>2. PICK i, j \in DOMAIN clusters :
              /\ i < j
              /\ clusters' = RemoveAt([clusters EXCEPT ![i] = clusters[i] \o clusters[j]], j)
              /\ Definition!Close(Range(clusters[i]), Range(clusters[j]))
              /\ \A k, l \in DOMAIN clusters : k # l =>
                    Definition!LessEq(
                        Definition!Distance(Range(clusters[i]), Range(clusters[j])),
                        Definition!Distance(Range(clusters[k]), Range(clusters[l])))
      BY <1>1, <2>1, AverageFacts
    <2> DEFINE p == <<Range(clusters[i]), Range(clusters[j])>>
    <2>3. p[1] = Range(clusters[i]) /\ p[2] = Range(clusters[j])
      OBVIOUS
    <2>4. i # j
      BY <1>4, <2>2
    <2>5. p \in Definition!Pairs
      BY <1>5, <2>3, <2>4 DEF Definition!Pairs
    <2>6. Members(clusters') = (Partition \ {p[1], p[2]}) \union {p[1] \union p[2]}
      BY <1>2, <1>3, <2>2, <2>3, MergedFacts
    <2>7. Partition' = Members(clusters')
      BY <1>1, <2>1 DEF Partition, Members
    <2> HIDE DEF p
    <2>8. ASSUME NEW q \in Definition!Pairs
          PROVE  Definition!LessEq(Definition!Distance(p[1], p[2]), Definition!Distance(q[1], q[2]))
      BY <1>6, <2>2, <2>3
    <2>9. Definition!Close(p[1], p[2])
      BY <2>2, <2>3
    <2>10. /\ ~(stage \notin {"listen", "merge"})
           /\ (stage' \notin {"listen", "merge"}) = (stage \notin {"listen", "merge"})
      BY <1>1, <2>1
    <2>11. Partition' = (Partition \ {p[1], p[2]}) \union {p[1] \union p[2]}
      BY <2>6, <2>7
    <2> QED
      BY <1>1, <1>2, <2>5, <2>8, <2>9, <2>10, <2>11 DEF Definition!Merge
  <1>8. CASE StopAverage
    <2>1. /\ ~AverageMayMerge(points, clusters) /\ stage' = "rebuild"
          /\ initial' = AverageLabels(points, clusters)
      BY <1>8 DEF StopAverage
    <2>2. \A k, l \in DOMAIN clusters :
              k # l => ~Definition!Close(Range(clusters[k]), Range(clusters[l]))
      BY <1>1, <2>1, AverageFacts
    <2>3. \A q \in Definition!Pairs : ~Definition!Close(q[1], q[2])
      BY <1>6, <2>2
    <2>4. Partition' = Classes(initial')
      BY <2>1 DEF Partition, Classes
    <2>5. Classes(initial') = Partition
      BY <1>2, <1>3, <2>1, AverageLabelFacts
    <2>6. (stage' \notin {"listen", "merge"}) = TRUE
      BY <2>1
    <2>7. Partition' = Partition
      BY <2>4, <2>5
    <2> QED
      BY <1>1, <1>2, <2>3, <2>6, <2>7 DEF Definition!Finish
  <1> QED
    BY <1>7, <1>8

(* So does simple_ahc, from sums and distances that it keeps up to date. *)
LEMMA CentroidRefines ==
  ASSUME BaseInv, ClusteringInv, MergeCentroid \/ StopCentroid
  PROVE  Definition!Merge \/ Definition!Finish
  <1> DEFINE n == Len(embeddings)
             T(k) == Tree(RootOf(clusters), k)
  <1>1. /\ stage = "merge" /\ linkage = "centroid" /\ linkage' = linkage /\ embeddings' = embeddings
    BY DEF MergeCentroid, StopCentroid
  <1>2. points' = points /\ n \in Nat /\ \A i \in 1 .. n : points[i] \in Vector
    BY <1>1, PointFacts DEF points
  <1>3. IsForest(clusters, n) /\ Partition = Classes(RootOf(clusters))
        /\ Partition = {T(k) : k \in clusters.active}
    BY <1>1, CentroidFacts
  <1>4. clusters.active \subseteq Int
    BY <1>3 DEF IsForest
  <1> HIDE DEF n
  <1>5. \A k, l \in clusters.active : k # l => T(k) # T(l)
    BY <1>2, <1>3, TreesDiffer
  <1>6. ASSUME NEW q \in Definition!Pairs
        PROVE  \E k, l \in clusters.active : k # l /\ q[1] = T(k) /\ q[2] = T(l)
    <2>1. q[1] \in Partition /\ q[2] \in Partition /\ q[1] # q[2]
      BY DEF Definition!Pairs
    <2> HIDE DEF T
    <2> QED
      BY <1>3, <2>1
  <1>7. CASE MergeCentroid
    <2>1. CentroidMayMerge(clusters) /\ stage' = stage /\ clusters' = CentroidMerged(clusters)
      BY <1>7 DEF MergeCentroid
    <2>2. PICK i, j \in clusters.active :
              /\ i < j /\ i = BestCentroid(clusters)[1] /\ j = BestCentroid(clusters)[2]
              /\ Definition!Close(T(i), T(j))
              /\ \A k, l \in clusters.active : k # l =>
                    Definition!LessEq(Definition!Distance(T(i), T(j)), Definition!Distance(T(k), T(l)))
      BY <1>1, <2>1, CentroidFacts
    <2>3. Classes(RootOf(clusters')) = (Partition \ {T(i), T(j)}) \union {T(i) \union T(j)}
      <3>1. i < j /\ i = BestCentroid(clusters)[1] /\ j = BestCentroid(clusters)[2]
        BY <2>2
      <3>2. IsForest(clusters, n) /\ n \in Nat /\ \A k \in 1 .. n : points[k] \in Vector
        BY <1>2, <1>3
      <3>3. Classes(RootOf(CentroidMerged(clusters))) =
                (Classes(RootOf(clusters)) \ {T(i), T(j)}) \union {T(i) \union T(j)}
        BY <3>1, <3>2, CentroidMergedFacts
      <3> HIDE DEF T
      <3> QED
        BY <1>3, <2>1, <3>3
    <2>4. Partition' = Classes(RootOf(clusters'))
      BY <1>1, <2>1 DEF Partition
    <2> HIDE DEF T
    <2> DEFINE p == <<T(i), T(j)>>
    <2>5. p[1] = T(i) /\ p[2] = T(j)
      OBVIOUS
    <2>6. i # j
      BY <1>4, <2>2
    <2>7. p \in Definition!Pairs
      BY <1>3, <1>5, <2>5, <2>6 DEF Definition!Pairs
    <2> HIDE DEF p
    <2>8. ASSUME NEW q \in Definition!Pairs
          PROVE  Definition!LessEq(Definition!Distance(p[1], p[2]), Definition!Distance(q[1], q[2]))
      BY <1>6, <2>2, <2>5
    <2>9. Definition!Close(p[1], p[2])
      BY <2>2, <2>5
    <2>10. /\ ~(stage \notin {"listen", "merge"})
           /\ (stage' \notin {"listen", "merge"}) = (stage \notin {"listen", "merge"})
      BY <1>1, <2>1
    <2>11. Partition' = (Partition \ {p[1], p[2]}) \union {p[1] \union p[2]}
      BY <2>3, <2>4, <2>5
    <2> QED
      BY <1>1, <1>2, <2>7, <2>8, <2>9, <2>10, <2>11 DEF Definition!Merge
  <1>8. CASE StopCentroid
    <2>1. /\ ~CentroidMayMerge(clusters) /\ stage' = "vbx" /\ initial' = CentroidLabels(clusters)
      BY <1>8 DEF StopCentroid
    <2>2. \A k, l \in clusters.active : k # l => ~Definition!Close(T(k), T(l))
      BY <1>1, <2>1, CentroidFacts
    <2> HIDE DEF T
    <2>3. \A q \in Definition!Pairs : ~Definition!Close(q[1], q[2])
      BY <1>6, <2>2
    <2>4. Partition' = Classes(initial')
      BY <2>1 DEF Partition, Classes
    <2>5. Classes(initial') = Partition
      <3>1. DOMAIN RootOf(clusters) = 1 .. n
        BY <1>2, <1>3, RootFacts
      <3> QED
        BY <1>2, <1>3, <2>1, <3>1, FirstAppearanceClasses DEF CentroidLabels
    <2>6. (stage' \notin {"listen", "merge"}) = TRUE
      BY <2>1
    <2>7. Partition' = Partition
      BY <2>4, <2>5
    <2> QED
      BY <1>1, <1>2, <2>3, <2>6, <2>7 DEF Definition!Finish
  <1> QED
    BY <1>7, <1>8

(* The rest leaves the clusters alone. *)
LEMMA RestRefines ==
  ASSUME Vbx \/ Rebuild \/ PrintSegment \/ UNCHANGED vars
  PROVE  Unmoved
  <1>1. linkage' = linkage /\ embeddings' = embeddings /\ initial' = initial /\ clusters' = clusters
    BY DEF Vbx, Rebuild, PrintSegment, vars
  <1>2. points' = points
    BY <1>1 DEF points
  <1>3. CASE Vbx \/ Rebuild \/ PrintSegment
    <2>1. stage \in {"vbx", "rebuild", "print"} /\ stage' \in {"vbx", "rebuild", "print"}
      BY <1>3 DEF Vbx, Rebuild, PrintSegment
    <2>2. Partition = Classes(initial) /\ Partition' = Classes(initial')
      BY <2>1 DEF Partition, Classes
    <2> QED
      BY <1>1, <1>2, <2>1, <2>2 DEF Unmoved
  <1>4. CASE UNCHANGED vars
    <2>1. stage' = stage
      BY <1>4 DEF vars
    <2>2. Partition' = Partition
      BY <1>1, <2>1 DEF Partition, Classes
    <2> QED
      BY <1>1, <1>2, <2>1, <2>2 DEF Unmoved
  <1> QED
    BY <1>3, <1>4

(* The lists of agglomerative_clustering and the forest of simple_ahc      *)
(* implement agglomerative clustering by definition: every merge is one of *)
(* a closest pair of all, at distances of the points themselves, the       *)
(* merging ends when no pair is within the threshold, and the labels are   *)
(* the clusters.                                                           *)
THEOREM ClustersByDefinition == Spec => AgglomerationSpec
  <1>1. Init => Definition!Init
    <2> SUFFICES ASSUME Init PROVE Definition!Init
      OBVIOUS
    <2>1. embeddings = << >> /\ stage = "listen"
      BY DEF Init
    <2>2. DOMAIN embeddings = {} /\ (stage \notin {"listen", "merge"}) = FALSE
      BY <2>1, NoLabels
    <2>3. points = << >> /\ Partition = {}
      <3>1. points = [i \in {} |-> embeddings[i].point]
        BY <2>2 DEF points
      <3>2. points = << >>
        BY <3>1
      <3>3. Partition = {}
        BY <2>1, <2>2 DEF Partition
      <3> QED
        BY <3>2, <3>3
    <2> QED
      BY <2>2, <2>3 DEF Definition!Init
  <1>2. BatchInv /\ ClusteringInv /\ (BatchInv /\ ClusteringInv)' /\ [Next]_vars
            => [Definition!Next]_(Definition!vars)
    <2> SUFFICES ASSUME BatchInv, ClusteringInv, BatchInv', [Next]_vars
                 PROVE  [Definition!Next]_(Definition!vars)
      OBVIOUS
    <2>1. BaseInv /\ BaseInv'
      BY DEF BatchInv
    <2>2. Definition!Next \/ Unmoved
      <3>1. CASE Chunk
        BY <2>1, <3>1, ChunkRefines DEF Definition!Next
      <3>2. CASE NoMoreChunks
        BY <2>1, <3>2, StartRefines DEF Definition!Next
      <3>3. CASE MergeAverage \/ StopAverage
        BY <2>1, <3>3, AverageRefines DEF Definition!Next
      <3>4. CASE MergeCentroid \/ StopCentroid
        BY <2>1, <3>4, CentroidRefines DEF Definition!Next
      <3>5. CASE Vbx \/ Rebuild \/ PrintSegment \/ UNCHANGED vars
        BY <3>5, RestRefines
      <3> QED
        BY <3>1, <3>2, <3>3, <3>4, <3>5 DEF Next
    <2>3. Unmoved => UNCHANGED Definition!vars
      <3> SUFFICES ASSUME Unmoved PROVE UNCHANGED Definition!vars
        OBVIOUS
      <3>1. linkage' = linkage /\ points' = points /\ Partition' = Partition
        BY DEF Unmoved
      <3>2. (stage' \notin {"listen", "merge"}) = (stage \notin {"listen", "merge"})
        BY DEF Unmoved
      <3> QED
        BY <3>1, <3>2 DEF Definition!vars
    <2> QED
      BY <2>2, <2>3
  <1> QED
    BY <1>1, <1>2, ClusteringInvariance, PTL DEF Spec, AgglomerationSpec, Definition!Spec
=============================================================================
