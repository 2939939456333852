----------------------- MODULE OnlineClusteringProofs -----------------------
(***************************************************************************)
(* Speaker identities for any number of slots, identities, voices and      *)
(* chunks: two that talk for long are told apart while identities are      *)
(* left, nobody stays without a name once there are names, and who talks   *)
(* alone keeps the name.                                                   *)
(*                                                                         *)
(* The argument is about ranks: the k-th slot that asks gets the k-th free *)
(* identity, so that two never get the same, and one that gets none leaves *)
(* no identity free.                                                       *)
(***************************************************************************)
EXTENDS OnlineClustering, TLAPS, WellFoundedInduction, FiniteSetTheorems

Vector == Int \X Int

(* Somebody alone and long is strictly nearest to the identity given to    *)
(* him, and near enough to be matched with it unless all are taken.        *)
SoloInv ==
    \A s \in Local : Alone(s) =>
        LET e == embeddings[s]
            g == mapping[s]
        IN  /\ g \in active_centers
            /\ \A d \in active_centers \ {g} : Distance(e, centers[g]) < Distance(e, centers[d])
            /\ Distance(e, centers[g]) <= DeltaNew \/ active_centers = Global

StartInv == ~initialised => active_centers = {} /\ Named = {}

ClusterInv == TypeOK /\ StartInv /\ LongSpeakersApart /\ SoloInv
-----------------------------------------------------------------------------
(* Ranks.                                                                  *)

(* What holds for 0 and goes from each number to the next holds up to n.   *)
LEMMA UpTo ==
  ASSUME NEW n \in Nat, NEW S, 0 \in S, \A i \in 0 .. n - 1 : i \in S => i + 1 \in S
  PROVE  \A i \in 0 .. n : i \in S
  <1> DEFINE R == {p \in Nat \X Nat : p[1] < p[2]}
             T == {i \in 0 .. n : i \notin S}
  <1>1. IsWellFoundedOn(R, Nat)
    BY NatLessThanWellFounded DEF OpToRel
  <1>2. ASSUME T # {} PROVE FALSE
    <2>1. T \subseteq Nat
      OBVIOUS
    <2>2. \E m \in T : \A k \in T : ~(<<k, m>> \in R)
      <3> HIDE DEF T, R
      <3> QED
        BY <1>1, <1>2, <2>1, WFMin
    <2>3. PICK m \in T : \A k \in T : ~(k < m)
      <3> HIDE DEF T
      <3> QED
        BY <2>1, <2>2
    <2>4. m - 1 \in 0 .. n - 1 /\ m - 1 \in S
      BY <2>3
    <2> QED
      BY <2>4
  <1> QED
    BY <1>2

Below(T, j) == {d \in T : d < j}

(* The numbers of T below j, one more at a time. *)
LEMMA BelowFacts ==
  ASSUME NEW T, NEW n \in Int, \A d \in T : d \in Int /\ 0 <= d /\ d < n
  PROVE  /\ Below(T, 0) = {}
         /\ Below(T, n) = T
         /\ \A j \in Int : j \in T => Below(T, j + 1) = Below(T, j) \cup {j}
         /\ \A j \in Int : j \notin T => Below(T, j + 1) = Below(T, j)
         /\ \A j \in Int : j \notin Below(T, j) /\ Below(T, j) \subseteq T
         /\ \A i, j \in Int : i <= j => Below(T, i) \subseteq Below(T, j)
  <1>1. Below(T, 0) = {}
    BY DEF Below
  <1>2. Below(T, n) = T
    BY DEF Below
  <1>3. ASSUME NEW j \in Int, j \in T PROVE Below(T, j + 1) = Below(T, j) \cup {j}
    <2>1. \A d \in T : d < j + 1 <=> d < j \/ d = j
      OBVIOUS
    <2>2. \A x : x \in Below(T, j + 1) <=> x \in Below(T, j) \cup {j}
      BY <2>1, <1>3 DEF Below
    <2> QED
      BY <2>2
  <1>4. ASSUME NEW j \in Int, j \notin T PROVE Below(T, j + 1) = Below(T, j)
    BY <1>4 DEF Below
  <1>5. ASSUME NEW j \in Int PROVE j \notin Below(T, j) /\ Below(T, j) \subseteq T
    BY DEF Below
  <1>6. ASSUME NEW i \in Int, NEW j \in Int, i <= j PROVE Below(T, i) \subseteq Below(T, j)
    BY <1>6 DEF Below
  <1> QED
    BY <1>1, <1>2, <1>3, <1>4, <1>5, <1>6

(* The numbers of T below j, counted up. *)
LEMMA Counting ==
  ASSUME NEW n \in Nat, NEW T, \A d \in T : d \in Int /\ 0 <= d /\ d < n
  PROVE  /\ Cardinality(T) \in Nat
         /\ \A j \in 0 .. n : Cardinality(Below(T, j)) \in Nat
         /\ Cardinality(Below(T, 0)) = 0
         /\ Below(T, n) = T
         /\ \A j \in 0 .. n - 1 :
               Cardinality(Below(T, j + 1)) =
                  IF j \in T THEN Cardinality(Below(T, j)) + 1 ELSE Cardinality(Below(T, j))
         /\ \A i, j \in 0 .. n : i <= j => Cardinality(Below(T, i)) <= Cardinality(Below(T, j))
  <1>1. IsFiniteSet(0 .. n - 1)
    BY FS_Interval
  <1>2. IsFiniteSet(T)
    <2>1. T \in SUBSET (0 .. n - 1)
      OBVIOUS
    <2> QED
      BY <2>1, <1>1, FS_Subset
  <1>3. \A j : IsFiniteSet(Below(T, j)) /\ Cardinality(Below(T, j)) \in Nat
    <2> SUFFICES ASSUME NEW j
                 PROVE  IsFiniteSet(Below(T, j)) /\ Cardinality(Below(T, j)) \in Nat
      OBVIOUS
    <2>1. Below(T, j) \in SUBSET T
      BY DEF Below
    <2>2. IsFiniteSet(Below(T, j))
      BY <1>2, <2>1, FS_Subset
    <2> QED
      BY <2>2, FS_CardinalityType
  <1>0. /\ Below(T, 0) = {}
        /\ Below(T, n) = T
        /\ \A j \in Int : j \in T => Below(T, j + 1) = Below(T, j) \cup {j}
        /\ \A j \in Int : j \notin T => Below(T, j + 1) = Below(T, j)
        /\ \A j \in Int : j \notin Below(T, j) /\ Below(T, j) \subseteq T
        /\ \A i, j \in Int : i <= j => Below(T, i) \subseteq Below(T, j)
    <2>1. n \in Int /\ \A d \in T : d \in Int /\ 0 <= d /\ d < n
      OBVIOUS
    <2> HIDE DEF Below
    <2> QED
      BY <2>1, BelowFacts
  <1>4. Below(T, 0) = {} /\ Below(T, n) = T
    BY <1>0
  <1>5. ASSUME NEW j \in 0 .. n - 1
        PROVE  Cardinality(Below(T, j + 1)) =
                  IF j \in T THEN Cardinality(Below(T, j)) + 1 ELSE Cardinality(Below(T, j))
    <2>1. CASE j \in T
      <3>1. Below(T, j + 1) = Below(T, j) \cup {j} /\ j \notin Below(T, j)
        BY <2>1, <1>0
      <3>2. Cardinality(Below(T, j) \cup {j}) = Cardinality(Below(T, j)) + 1
        BY <3>1, <1>3, FS_AddElement
      <3> QED
        BY <2>1, <3>1, <3>2
    <2>2. CASE j \notin T
      <3>1. Below(T, j + 1) = Below(T, j)
        BY <2>2, <1>0
      <3> QED
        BY <2>2, <3>1
    <2> QED
      BY <2>1, <2>2
  <1>6. ASSUME NEW i \in 0 .. n, NEW j \in 0 .. n, i <= j
        PROVE  Cardinality(Below(T, i)) <= Cardinality(Below(T, j))
    <2>1. Below(T, i) \in SUBSET Below(T, j)
      BY <1>6, <1>0
    <2> QED
      BY <2>1, <1>3, FS_Subset
  <1> QED
    BY <1>2, <1>3, <1>4, <1>5, <1>6, FS_CardinalityType, FS_EmptySet

(* Every rank below the size of a set is the rank of a member, of one only. *)
LEMMA Ranked ==
  ASSUME NEW n \in Nat, NEW T, \A d \in T : d \in Int /\ 0 <= d /\ d < n
  PROVE  /\ \A c \in T : Cardinality(Below(T, c)) \in Nat /\ Cardinality(Below(T, c)) < Cardinality(T)
         /\ \A c, d \in T : Cardinality(Below(T, c)) = Cardinality(Below(T, d)) => c = d
         /\ \A k \in Nat : k < Cardinality(T) => \E c \in T : Cardinality(Below(T, c)) = k
  <1> DEFINE N(j) == Cardinality(Below(T, j))
  <1>1. /\ Cardinality(T) \in Nat /\ \A j \in 0 .. n : N(j) \in Nat
        /\ N(0) = 0 /\ N(n) = Cardinality(T)
        /\ \A j \in 0 .. n - 1 : N(j + 1) = IF j \in T THEN N(j) + 1 ELSE N(j)
        /\ \A i, j \in 0 .. n : i <= j => N(i) <= N(j)
    BY Counting, ZenonT(60)
  <1> HIDE DEF N
  <1>2. \A c \in T : c \in 0 .. n - 1 /\ c \in 0 .. n /\ c + 1 \in 0 .. n /\ N(c + 1) = N(c) + 1
    BY <1>1
  <1>3. \A c \in T : N(c) \in Nat /\ N(c) < Cardinality(T)
    <2> SUFFICES ASSUME NEW c \in T PROVE N(c) \in Nat /\ N(c) < Cardinality(T)
      OBVIOUS
    <2>1. c + 1 <= n /\ n \in 0 .. n
      BY <1>2
    <2>2. N(c + 1) <= N(n)
      BY <2>1, <1>1, <1>2
    <2> QED
      BY <2>2, <1>1, <1>2
  <1>4. \A c, d \in T : c < d => N(c) < N(d)
    <2> SUFFICES ASSUME NEW c \in T, NEW d \in T, c < d PROVE N(c) < N(d)
      OBVIOUS
    <2>1. c + 1 <= d
      BY <1>2
    <2>2. N(c + 1) <= N(d)
      BY <2>1, <1>1, <1>2
    <2> QED
      BY <2>2, <1>1, <1>2
  <1>5. \A c, d \in T : N(c) = N(d) => c = d
    <2> SUFFICES ASSUME NEW c \in T, NEW d \in T, N(c) = N(d), c # d PROVE FALSE
      OBVIOUS
    <2>1. c < d \/ d < c
      BY <1>2
    <2> QED
      BY <2>1, <1>2, <1>3, <1>4
  <1>6. ASSUME NEW k \in Nat, k < Cardinality(T), \A c \in T : N(c) # k PROVE FALSE
    <2> DEFINE S == {j \in 0 .. n : N(j) <= k}
    <2>1. 0 \in S
      BY <1>1
    <2>2. \A j \in 0 .. n - 1 : j \in S => j + 1 \in S
      <3> SUFFICES ASSUME NEW j \in 0 .. n - 1, N(j) <= k PROVE j + 1 \in 0 .. n /\ N(j + 1) <= k
        OBVIOUS
      <3>1. j \in 0 .. n /\ j + 1 \in 0 .. n /\ N(j) \in Nat
        BY <1>1
      <3>2. N(j + 1) = IF j \in T THEN N(j) + 1 ELSE N(j)
        BY <1>1
      <3>3. j \in T => N(j) # k
        BY <1>6
      <3> QED
        BY <3>1, <3>2, <3>3
    <2> HIDE DEF S
    <2>3. \A j \in 0 .. n : j \in S
      BY <2>1, <2>2, UpTo
    <2>4. n \in S
      BY <2>3
    <2> QED
      BY <2>4, <1>1, <1>6 DEF S
  <1> QED
    BY <1>3, <1>5, <1>6 DEF N

(* The slots that ask for an identity get different free ones; when one    *)
(* gets none, every identity is given away.                                *)
LEMMA NextCenterFacts ==
  ASSUME NEW C \in SUBSET Local
  PROVE  /\ \A s : NextCenter(C, s) \in (Global \ active_centers) \union {None}
         /\ \A s : s \notin C => NextCenter(C, s) = None
         /\ \A s, u \in C : NextCenter(C, s) = NextCenter(C, u) /\ NextCenter(C, s) # None => s = u
         /\ \A s \in C : NextCenter(C, s) = None =>
               \A c \in Global \ active_centers : \E u \in C : NextCenter(C, u) = c
  <1> DEFINE free == Global \ active_centers
             rank(s) == Cardinality(Below(C, s))
             nth(s) == {c \in free : Cardinality(Below(free, c)) = rank(s)}
  <1>1. /\ NumLocal \in Nat /\ \A s \in C : s \in Int /\ 0 <= s /\ s < NumLocal
        /\ MaxSpeakers \in Nat /\ \A c \in free : c \in Int /\ 0 <= c /\ c < MaxSpeakers
    BY SlotsAssumption DEF Local, Global
  <1>2. \A s : NextCenter(C, s) = IF s \in C /\ nth(s) # {} THEN CHOOSE c \in nth(s) : TRUE ELSE None
    BY DEF NextCenter, Below
  <1>3. None \notin free
    BY <1>1 DEF None
  <1> HIDE DEF free
  <1>4. /\ \A s \in C : rank(s) \in Nat /\ rank(s) < Cardinality(C)
        /\ \A s, u \in C : rank(s) = rank(u) => s = u
        /\ \A k \in Nat : k < Cardinality(C) => \E s \in C : rank(s) = k
    <2>1. /\ \A c \in C : Cardinality(Below(C, c)) \in Nat /\ Cardinality(Below(C, c)) < Cardinality(C)
          /\ \A c, d \in C : Cardinality(Below(C, c)) = Cardinality(Below(C, d)) => c = d
          /\ \A k \in Nat : k < Cardinality(C) => \E c \in C : Cardinality(Below(C, c)) = k
      BY <1>1, Ranked
    <2> QED
      BY <2>1
  <1>5. /\ \A c \in free : Cardinality(Below(free, c)) \in Nat /\ Cardinality(Below(free, c)) < Cardinality(free)
        /\ \A c, d \in free : Cardinality(Below(free, c)) = Cardinality(Below(free, d)) => c = d
        /\ \A k \in Nat : k < Cardinality(free) => \E c \in free : Cardinality(Below(free, c)) = k
    BY <1>1, Ranked
  <1>6. Cardinality(C) \in Nat /\ Cardinality(free) \in Nat
    BY <1>1, Counting
  <1> HIDE DEF rank
  <1>7. \A s : NextCenter(C, s) # None => s \in C /\ NextCenter(C, s) \in nth(s)
    BY <1>2
  <1>8. \A s : NextCenter(C, s) \in free \union {None}
    BY <1>7
  <1>9. ASSUME NEW s \in C, NEW u \in C, NextCenter(C, s) = NextCenter(C, u), NextCenter(C, s) # None
        PROVE  s = u
    <2>1. NextCenter(C, s) \in nth(s) /\ NextCenter(C, s) \in nth(u)
      BY <1>7, <1>9
    <2>2. rank(s) = rank(u)
      BY <2>1
    <2> QED
      BY <2>2, <1>4
  <1>10. ASSUME NEW s \in C, NextCenter(C, s) = None, NEW c \in free
         PROVE  \E u \in C : NextCenter(C, u) = c
    <2>1. nth(s) = {}
      <3> SUFFICES ASSUME nth(s) # {} PROVE FALSE
        OBVIOUS
      <3>1. NextCenter(C, s) \in nth(s)
        BY <1>2
      <3> QED
        BY <3>1, <1>3, <1>10
    <2>2. ~(rank(s) < Cardinality(free))
      <3> SUFFICES ASSUME rank(s) < Cardinality(free) PROVE FALSE
        OBVIOUS
      <3>1. PICK d \in free : Cardinality(Below(free, d)) = rank(s)
        BY <1>4, <1>5
      <3>2. d \in nth(s)
        BY <3>1
      <3> QED
        BY <3>2, <2>1
    <2>3. /\ Cardinality(Below(free, c)) \in Nat
          /\ Cardinality(Below(free, c)) < Cardinality(free)
      BY <1>5
    <2>4. rank(s) \in Nat /\ rank(s) < Cardinality(C)
      BY <1>4
    <2>5. Cardinality(Below(free, c)) < Cardinality(C)
      BY <2>2, <2>3, <2>4, <1>6
    <2>6. PICK u \in C : rank(u) = Cardinality(Below(free, c))
      BY <2>3, <2>5, <1>4
    <2>7. c \in nth(u)
      BY <2>6
    <2>8. NextCenter(C, u) \in nth(u)
      BY <2>7, <1>2
    <2>9. NextCenter(C, u) = c
      BY <2>7, <2>8, <1>5
    <2> QED
      BY <2>9
  <1>11. \A s : s \notin C => NextCenter(C, s) = None
    BY <1>7
  <1> QED
    BY <1>8, <1>9, <1>10, <1>11 DEF free
-----------------------------------------------------------------------------
(* Distances and centres.                                                  *)

(* The arithmetic of vectors. *)
LEMMA VectorFacts ==
  ASSUME NEW a \in Vector, NEW b \in Vector
  PROVE  /\ Dot(a, b) \in Int /\ Distance(a, b) \in Int
         /\ Plus(a, b) \in Vector
         /\ Distance(a, Plus(b, a)) = Distance(a, b) - Dot(a, a)
  <1>1. a[1] \in Int /\ a[2] \in Int /\ b[1] \in Int /\ b[2] \in Int
    BY DEF Vector
  <1>2. \A x, y \in Int : x * y \in Int
    OBVIOUS
  <1>3. \A x, y, z \in Int : x * (y + z) = x * y + x * z
    OBVIOUS
  <1>4. Dot(a, b) \in Int
    <2>1. a[1] * b[1] \in Int /\ a[2] * b[2] \in Int
      BY <1>1, <1>2
    <2> QED
      BY <2>1 DEF Dot
  <1>5. Dot(a, a) \in Int
    <2>1. a[1] * a[1] \in Int /\ a[2] * a[2] \in Int
      BY <1>1, <1>2
    <2> QED
      BY <2>1 DEF Dot
  <1>6. Unit \in Int
    BY VectorsAssumption
  <1>7. Plus(a, b) \in Vector
    BY <1>1 DEF Plus, Vector
  <1>8. Dot(a, Plus(b, a)) = Dot(a, b) + Dot(a, a)
    <2>1. Plus(b, a)[1] = b[1] + a[1] /\ Plus(b, a)[2] = b[2] + a[2]
      BY DEF Plus
    <2>2. /\ a[1] * (b[1] + a[1]) = a[1] * b[1] + a[1] * a[1]
          /\ a[2] * (b[2] + a[2]) = a[2] * b[2] + a[2] * a[2]
      BY <1>1, <1>3
    <2>3. /\ a[1] * b[1] \in Int /\ a[1] * a[1] \in Int
          /\ a[2] * b[2] \in Int /\ a[2] * a[2] \in Int
      BY <1>1, <1>2
    <2>4. Dot(a, Plus(b, a)) = (a[1] * b[1] + a[1] * a[1]) + (a[2] * b[2] + a[2] * a[2])
      BY <2>1, <2>2 DEF Dot
    <2> QED
      BY <2>3, <2>4 DEF Dot
  <1> QED
    BY <1>4, <1>5, <1>6, <1>7, <1>8 DEF Distance

(* A voice is at distance zero from itself. *)
LEMMA UnitFacts ==
  ASSUME NEW e \in Embeddings
  PROVE  e \in Vector /\ Dot(e, e) = Unit /\ Distance(e, e) = 0 /\ Unit \in Nat \ {0}
  BY VectorsAssumption, LengthAssumption DEF Vector, Distance

(* Among finitely many numbers one comes first by value, then by number. *)
LEMMA First ==
  ASSUME NEW n \in Nat, NEW C, \A c \in C : c \in Int /\ 0 <= c /\ c < n, C # {},
         NEW f, \A c \in C : f[c] \in Int
  PROVE  \E c \in C : \A d \in C : f[c] < f[d] \/ (f[c] = f[d] /\ c <= d)
  <1> DEFINE Least(c, B) == \A d \in B : f[c] < f[d] \/ (f[c] = f[d] /\ c <= d)
             S == {j \in 0 .. n : Below(C, j) = {} \/ \E c \in Below(C, j) : Least(c, Below(C, j))}
  <1>1. /\ Below(C, 0) = {}
        /\ Below(C, n) = C
        /\ \A j \in Int : j \in C => Below(C, j + 1) = Below(C, j) \cup {j}
        /\ \A j \in Int : j \notin C => Below(C, j + 1) = Below(C, j)
        /\ \A j \in Int : Below(C, j) \subseteq C
    BY BelowFacts
  <1>2. 0 \in S
    BY <1>1
  <1>3. \A j \in 0 .. n - 1 : j \in S => j + 1 \in S
    <2> SUFFICES ASSUME NEW j \in 0 .. n - 1, j \in S PROVE j + 1 \in S
      OBVIOUS
    <2> DEFINE B == Below(C, j)
               D == Below(C, j + 1)
    <2>1. j \in Int /\ j + 1 \in 0 .. n /\ B \subseteq C /\ \A c \in B : c <= j
      BY <1>1 DEF Below
    <2>2. B = {} \/ \E c \in B : Least(c, B)
      OBVIOUS
    <2>3. (j \in C /\ D = B \cup {j}) \/ D = B
      BY <1>1, <2>1
    <2> HIDE DEF B, D
    <2>4. D = {} \/ \E c \in D : Least(c, D)
      <3>1. CASE D = B
        BY <3>1, <2>2
      <3>2. CASE j \in C /\ D = B \cup {j}
        <4>1. CASE B = {}
          BY <4>1, <3>2, <2>1
        <4>2. CASE B # {}
          <5>1. PICK c \in B : Least(c, B)
            BY <4>2, <2>2
          <5>2. c \in C /\ c <= j /\ f[c] \in Int /\ f[j] \in Int
            BY <3>2, <2>1
          <5>3. CASE f[c] <= f[j]
            <6>1. Least(c, D) /\ c \in D
              BY <3>2, <5>1, <5>2, <5>3
            <6> QED
              BY <6>1
          <5>4. CASE f[j] < f[c]
            <6>1. \A d \in B : f[d] \in Int
              BY <2>1
            <6>2. Least(j, D) /\ j \in D
              BY <3>2, <5>1, <5>2, <5>4, <6>1, <2>1
            <6> QED
              BY <6>2
          <5> QED
            BY <5>2, <5>3, <5>4
        <4> QED
          BY <4>1, <4>2
      <3> QED
        BY <3>1, <3>2, <2>3
    <2> QED
      BY <2>1, <2>4 DEF D
  <1> HIDE DEF S
  <1>4. \A j \in 0 .. n : j \in S
    BY <1>2, <1>3, UpTo
  <1>5. n \in S
    BY <1>4
  <1> QED
    BY <1>1, <1>5 DEF S

(* The nearest centre. *)
LEMMA NearestFacts ==
  ASSUME NEW e, NEW C \in SUBSET Global, NEW ctr, \A c \in C : Distance(e, ctr[c]) \in Int
  PROVE  /\ C = {} => Nearest(e, C, ctr) = None
         /\ C # {} => /\ Nearest(e, C, ctr) \in C
                      /\ \A d \in C : Distance(e, ctr[Nearest(e, C, ctr)]) <= Distance(e, ctr[d])
  <1> DEFINE f == [c \in C |-> Distance(e, ctr[c])]
             Least(c) == \A d \in C : \/ Distance(e, ctr[c]) < Distance(e, ctr[d])
                                      \/ Distance(e, ctr[c]) = Distance(e, ctr[d]) /\ c <= d
  <1>1. Nearest(e, C, ctr) = IF C = {} THEN None ELSE CHOOSE c \in C : Least(c)
    BY DEF Nearest
  <1>2. ASSUME C # {} PROVE \E c \in C : Least(c)
    <2>1. /\ MaxSpeakers \in Nat /\ \A c \in C : c \in Int /\ 0 <= c /\ c < MaxSpeakers
          /\ \A c \in C : f[c] \in Int
      BY SlotsAssumption DEF Global
    <2>2. \A c \in C : f[c] = Distance(e, ctr[c])
      OBVIOUS
    <2> HIDE DEF f
    <2>3. \E c \in C : \A d \in C : f[c] < f[d] \/ (f[c] = f[d] /\ c <= d)
      BY <2>1, <1>2, First
    <2> QED
      BY <2>2, <2>3
  <1> HIDE DEF Least
  <1>3. C # {} => Nearest(e, C, ctr) \in C /\ Least(Nearest(e, C, ctr))
    BY <1>1, <1>2
  <1>4. C # {} => \A d \in C : Distance(e, ctr[Nearest(e, C, ctr)]) <= Distance(e, ctr[d])
    BY <1>3 DEF Least
  <1> QED
    BY <1>1, <1>3, <1>4

(* The values of a centre while the slots in A raise it one by one.        *)
Raises(q, v, A, emb) ==
    /\ q \in [0 .. NumLocal -> Vector]
    /\ q[0] = v
    /\ \A k \in 1 .. NumLocal : q[k] = IF k - 1 \in A THEN Plus(q[k - 1], emb[k - 1]) ELSE q[k - 1]
    /\ Raised(v, A, emb) = q[NumLocal]

(* Raised goes through the slots one by one. *)
LEMMA RaisesExist ==
  ASSUME NEW v \in Vector, NEW A, NEW emb, \A s \in A : emb[s] \in Vector
  PROVE  \E q : Raises(q, v, A, emb)
  <1> DEFINE n == NumLocal
             next(x, k) == IF k \in A THEN Plus(x, emb[k]) ELSE x
             Run(q, m) == q[0] = v /\ \A k \in 1 .. m : q[k] = next(q[k - 1], k - 1)
             S == {m \in 0 .. n : \E q \in [0 .. m -> Vector] : Run(q, m)}
             g == CHOOSE q : q = [k \in 0 .. n |-> IF k = 0 THEN v ELSE
                                    IF k - 1 \in A THEN Plus(q[k - 1], emb[k - 1]) ELSE q[k - 1]]
  <1>1. n \in Nat
    BY SlotsAssumption
  <1>2. Raised(v, A, emb) = g[n]
    BY DEF Raised
  <1>3. \A x \in Vector : \A k \in A \union Int : next(x, k) \in Vector
    <2>1. \A x, y \in Vector : Plus(y, x) \in Vector
      BY VectorFacts
    <2> QED
      BY <2>1
  <1> HIDE DEF n, next
  <1>4. 0 \in S
    <2> DEFINE p == [k \in 0 .. 0 |-> v]
    <2>1. p \in [0 .. 0 -> Vector] /\ Run(p, 0) /\ 0 \in 0 .. n
      BY <1>1
    <2> HIDE DEF p, Run
    <2> QED
      BY <2>1
  <1>5. ASSUME NEW m \in 0 .. n - 1, m \in S PROVE m + 1 \in S
    <2>1. PICK q \in [0 .. m -> Vector] : Run(q, m)
      BY <1>5
    <2> DEFINE new == next(q[m], m)
               p == [k \in 0 .. m + 1 |-> IF k = m + 1 THEN new ELSE q[k]]
    <2>2. new \in Vector
      BY <1>1, <1>3
    <2> HIDE DEF new
    <2>3. p \in [0 .. m + 1 -> Vector]
      BY <2>2
    <2>4. p[0] = v /\ p[m + 1] = new /\ p[m] = q[m]
      BY <2>1
    <2>5. \A k \in 1 .. m : p[k] = q[k] /\ p[k - 1] = q[k - 1]
      OBVIOUS
    <2>6. ASSUME NEW k \in 1 .. m + 1 PROVE p[k] = next(p[k - 1], k - 1)
      <3>1. CASE k = m + 1
        <4>1. k - 1 = m
          BY <3>1
        <4> QED
          BY <3>1, <4>1, <2>4 DEF new
      <3>2. CASE k # m + 1
        <4>1. k \in 1 .. m
          BY <3>2
        <4> HIDE DEF p
        <4> QED
          BY <4>1, <2>1, <2>5
      <3> QED
        BY <3>1, <3>2
    <2>7. m + 1 \in 0 .. n
      BY <1>1
    <2> HIDE DEF p
    <2>8. Run(p, m + 1)
      BY <2>4, <2>6
    <2> QED
      BY <2>3, <2>7, <2>8
  <1>6. n \in S
    <2> HIDE DEF S
    <2>1. \A m \in 0 .. n : m \in S
      BY <1>1, <1>4, <1>5, UpTo
    <2> QED
      BY <1>1, <2>1
  <1>7. PICK q \in [0 .. n -> Vector] : Run(q, n)
    BY <1>6
  <1>8. q = [k \in 0 .. n |-> IF k = 0 THEN v ELSE next(q[k - 1], k - 1)]
    <2>1. \A k \in 0 .. n : q[k] = IF k = 0 THEN v ELSE next(q[k - 1], k - 1)
      BY <1>7
    <2> QED
      BY <1>7, <2>1
  <1>9. g = [k \in 0 .. n |-> IF k = 0 THEN v ELSE next(g[k - 1], k - 1)]
    <2>1. q = [k \in 0 .. n |-> IF k = 0 THEN v ELSE
                   IF k - 1 \in A THEN Plus(q[k - 1], emb[k - 1]) ELSE q[k - 1]]
      BY <1>8 DEF next
    <2>2. g = [k \in 0 .. n |-> IF k = 0 THEN v ELSE
                   IF k - 1 \in A THEN Plus(g[k - 1], emb[k - 1]) ELSE g[k - 1]]
      BY <2>1
    <2> QED
      BY <2>2 DEF next
  <1> HIDE DEF g
  <1>10. /\ DOMAIN g = 0 .. n /\ g[0] = v
         /\ \A k \in 1 .. n : g[k] = next(g[k - 1], k - 1)
    BY <1>1, <1>9
  <1>11. \A k \in 0 .. n : g[k] \in Vector
    <2> DEFINE G == {k \in 0 .. n : g[k] \in Vector}
    <2>1. 0 \in G
      BY <1>1, <1>10
    <2>2. \A k \in 0 .. n - 1 : k \in G => k + 1 \in G
      <3> SUFFICES ASSUME NEW k \in 0 .. n - 1, g[k] \in Vector
                   PROVE  k + 1 \in 0 .. n /\ g[k + 1] \in Vector
        OBVIOUS
      <3>1. k + 1 \in 1 .. n /\ k + 1 \in 0 .. n /\ (k + 1) - 1 = k
        BY <1>1
      <3>2. g[k + 1] = next(g[k], k)
        BY <1>10, <3>1
      <3> QED
        BY <1>3, <3>1, <3>2
    <2> HIDE DEF G
    <2>3. \A k \in 0 .. n : k \in G
      BY <1>1, <2>1, <2>2, UpTo
    <2> QED
      BY <2>3 DEF G
  <1>12. g \in [0 .. n -> Vector]
    <2>1. g = [k \in 0 .. n |-> g[k]]
      BY <1>9, <1>10
    <2> QED
      BY <1>11, <2>1
  <1> QED
    BY <1>2, <1>10, <1>12 DEF n, next, Raises

(* A centre stays a vector; it moves by the embedding of the only slot.    *)
LEMMA RaisedFacts ==
  ASSUME NEW v \in Vector, NEW A \in SUBSET Local, NEW emb, \A s \in A : emb[s] \in Vector
  PROVE  /\ Raised(v, A, emb) \in Vector
         /\ A = {} => Raised(v, A, emb) = v
         /\ \A s \in A : A = {s} => Raised(v, A, emb) = Plus(v, emb[s])
  <1>1. \E q : Raises(q, v, A, emb)
    BY RaisesExist
  <1>2. PICK q : /\ q \in [0 .. NumLocal -> Vector]
                 /\ q[0] = v
                 /\ \A k \in 1 .. NumLocal : q[k] = IF k - 1 \in A THEN Plus(q[k - 1], emb[k - 1]) ELSE q[k - 1]
                 /\ Raised(v, A, emb) = q[NumLocal]
    BY <1>1 DEF Raises
  <1>3. NumLocal \in Nat /\ NumLocal \in 0 .. NumLocal
    BY SlotsAssumption
  <1>4. \A i \in 0 .. NumLocal - 1 : /\ i + 1 \in 0 .. NumLocal
                                     /\ i \notin A => q[i + 1] = q[i]
                                     /\ i \in A => q[i + 1] = Plus(q[i], emb[i])
    <2> SUFFICES ASSUME NEW i \in 0 .. NumLocal - 1
                 PROVE  /\ i + 1 \in 0 .. NumLocal
                        /\ i \notin A => q[i + 1] = q[i]
                        /\ i \in A => q[i + 1] = Plus(q[i], emb[i])
      OBVIOUS
    <2>1. i + 1 \in 1 .. NumLocal /\ i + 1 \in 0 .. NumLocal /\ (i + 1) - 1 = i
      BY <1>3
    <2> QED
      BY <2>1, <1>2
  <1>5. ASSUME A = {} PROVE Raised(v, A, emb) = v
    <2> DEFINE S == {i \in 0 .. NumLocal : q[i] = v}
    <2>1. 0 \in S
      BY <1>2, <1>3
    <2>2. \A i \in 0 .. NumLocal - 1 : i \in S => i + 1 \in S
      BY <1>4, <1>5
    <2> HIDE DEF S
    <2>3. \A i \in 0 .. NumLocal : i \in S
      BY <1>3, <2>1, <2>2, UpTo
    <2> QED
      BY <2>3, <1>2, <1>3 DEF S
  <1>6. ASSUME NEW s \in A, A = {s} PROVE Raised(v, A, emb) = Plus(v, emb[s])
    <2> DEFINE S == {i \in 0 .. NumLocal : q[i] = IF i <= s THEN v ELSE Plus(v, emb[s])}
    <2>1. s \in Nat /\ s < NumLocal
      BY <1>3 DEF Local
    <2>2. 0 \in S
      BY <1>2, <1>3, <2>1
    <2>3. \A i \in 0 .. NumLocal - 1 : i \in S => i + 1 \in S
      <3> SUFFICES ASSUME NEW i \in 0 .. NumLocal - 1, i \in S
                   PROVE  i + 1 \in S
        OBVIOUS
      <3>1. q[i] = IF i <= s THEN v ELSE Plus(v, emb[s])
        OBVIOUS
      <3>2. CASE i = s
        <4>1. i <= s /\ ~(i + 1 <= s) /\ i \in A
          BY <3>2, <2>1
        <4>2. q[i + 1] = Plus(v, emb[s]) /\ i + 1 \in 0 .. NumLocal
          BY <3>1, <3>2, <4>1, <1>4
        <4> QED
          BY <4>1, <4>2
      <3>3. CASE i # s
        <4>1. i \notin A /\ (i <= s <=> i + 1 <= s)
          BY <3>3, <2>1, <1>6
        <4>2. q[i + 1] = q[i] /\ i + 1 \in 0 .. NumLocal
          BY <4>1, <1>4
        <4> QED
          BY <3>1, <4>1, <4>2
      <3> QED
        BY <3>2, <3>3
    <2> HIDE DEF S
    <2>4. \A i \in 0 .. NumLocal : i \in S
      BY <1>3, <2>2, <2>3, UpTo
    <2>5. ~(NumLocal <= s)
      BY <1>3, <2>1
    <2> QED
      BY <2>4, <2>5, <1>2, <1>3 DEF S
  <1>7. Raised(v, A, emb) \in Vector
    BY <1>2, <1>3
  <1> QED
    BY <1>5, <1>6, <1>7
-----------------------------------------------------------------------------
(* The mapping of one chunk.                                               *)

Kinds == {"silent", "active", "long"}
Heard == Embeddings \union {NoEmbedding}

(* What identify makes of a chunk. *)
Maps(sp, emb, m) ==
    LET U == Usable(sp, emb)
    IN  \/ ~initialised /\ m = FirstMapping(U)
        \/ initialised /\ \E M \in Matchings(U, emb) : m = LaterMapping(sp, emb, U, M)

Images(m) == {m[s] : s \in Local} \ {None}

(* Identities are no mark for none. *)
LEMMA NoneFacts == None \notin Global /\ Global # {} /\ None \in Int
  <1>1. 0 \in Global
    BY SlotsAssumption DEF Global
  <1> QED
    BY <1>1, SlotsAssumption DEF None, Global

(* Usable slots have a voice. *)
LEMMA UsableFacts ==
  ASSUME NEW sp, NEW emb \in [Local -> Heard]
  PROVE  /\ Usable(sp, emb) \in SUBSET Local
         /\ \A s \in Usable(sp, emb) : emb[s] \in Embeddings /\ emb[s] \in Vector
  <1>1. \A s \in Usable(sp, emb) : s \in Local /\ emb[s] \in Embeddings
    BY DEF Usable, Heard
  <1> QED
    BY <1>1, UnitFacts

Unmatched(U, M) == {s \in U : \A p \in M : p[1] # s}

(* A later chunk, slot by slot. *)
LEMMA LaterFacts ==
  ASSUME active_centers \subseteq Global, centers \in [Global -> Vector],
         NEW sp, NEW emb \in [Local -> Heard],
         NEW U, U = Usable(sp, emb), NEW M \in Matchings(U, emb),
         NEW m, m = LaterMapping(sp, emb, U, M),
         NEW F, F = Founders(sp, Unmatched(U, M))
  PROVE  /\ DOMAIN m = Local
         /\ \A s \in Local \ U : m[s] = None
         /\ \A s \in U \ Unmatched(U, M) : <<s, m[s]>> \in M /\ m[s] \in active_centers
         /\ \A s \in Unmatched(U, M) : NextCenter(F, s) # None => m[s] = NextCenter(F, s)
         /\ \A s \in Unmatched(U, M) : NextCenter(F, s) = None =>
               /\ m[s] \in active_centers \union {NextCenter(F, u) : u \in F} \union {None}
               /\ m[s] = None => active_centers = {}
  <1> DEFINE unmatched == Unmatched(U, M)
             founders == F
             foundedBy(s) == {u \in founders : u < s /\ NextCenter(founders, u) # None}
             known(s) == active_centers \union {NextCenter(founders, u) : u \in foundedBy(s)}
             ctr(s) == [c \in Global |->
                         IF \E u \in foundedBy(s) : NextCenter(founders, u) = c
                         THEN emb[CHOOSE u \in foundedBy(s) : NextCenter(founders, u) = c]
                         ELSE centers[c]]
  <1>1. m = [s \in Local |->
               IF s \notin U THEN None
               ELSE IF s \notin unmatched THEN (CHOOSE p \in M : p[1] = s)[2]
               ELSE IF NextCenter(founders, s) # None THEN NextCenter(founders, s)
               ELSE Nearest(emb[s], known(s), ctr(s))]
    BY DEF LaterMapping, Unmatched
  <1>2. U \in SUBSET Local /\ unmatched \in SUBSET U /\ \A s \in U : emb[s] \in Vector
    BY UsableFacts DEF Unmatched
  <1>3. founders \in SUBSET U /\ founders \in SUBSET Local
    BY <1>2 DEF Founders, Long, Unmatched
  <1>4. \A p \in M : p \in U \X active_centers
    BY DEF Matchings
  <1>5. \A s : NextCenter(founders, s) \in (Global \ active_centers) \union {None}
    BY <1>3, NextCenterFacts
  <1>6. \A s : known(s) \in SUBSET Global
    BY <1>5
  <1>7. \A s : \A c \in Global : ctr(s)[c] \in Vector
    <2> SUFFICES ASSUME NEW s, NEW c \in Global PROVE ctr(s)[c] \in Vector
      OBVIOUS
    <2>1. CASE \E u \in foundedBy(s) : NextCenter(founders, u) = c
      <3>1. (CHOOSE u \in foundedBy(s) : NextCenter(founders, u) = c) \in U
        BY <2>1, <1>3
      <3>2. ctr(s)[c] = emb[CHOOSE u \in foundedBy(s) : NextCenter(founders, u) = c]
        BY <2>1
      <3> QED
        BY <3>1, <3>2, <1>2
    <2>2. CASE ~ \E u \in foundedBy(s) : NextCenter(founders, u) = c
      BY <2>2
    <2> QED
      BY <2>1, <2>2
  <1> HIDE DEF ctr
  <1>8. \A s \in unmatched :
            /\ known(s) = {} => Nearest(emb[s], known(s), ctr(s)) = None
            /\ known(s) # {} => Nearest(emb[s], known(s), ctr(s)) \in known(s)
    <2> SUFFICES ASSUME NEW s \in unmatched
                 PROVE  /\ known(s) = {} => Nearest(emb[s], known(s), ctr(s)) = None
                        /\ known(s) # {} => Nearest(emb[s], known(s), ctr(s)) \in known(s)
      OBVIOUS
    <2> DEFINE k == known(s)
               c == ctr(s)
    <2>1. k \in SUBSET Global /\ emb[s] \in Vector
      BY <1>2, <1>6
    <2>2. \A d \in k : c[d] \in Vector
      BY <2>1, <1>7
    <2> HIDE DEF k, c
    <2>3. \A d \in k : Distance(emb[s], c[d]) \in Int
      BY <2>1, <2>2, VectorFacts
    <2>4. /\ k = {} => Nearest(emb[s], k, c) = None
          /\ k # {} => Nearest(emb[s], k, c) \in k
      BY <2>1, <2>3, NearestFacts
    <2> QED
      BY <2>4 DEF k, c
  <1>9. ASSUME NEW s \in U \ unmatched PROVE <<s, m[s]>> \in M /\ m[s] \in active_centers
    <2>1. \E p \in M : p[1] = s
      BY DEF Unmatched
    <2> DEFINE p == CHOOSE p \in M : p[1] = s
    <2>2. p \in M /\ p[1] = s
      BY <2>1
    <2>3. m[s] = p[2]
      BY <1>1, <1>2
    <2> HIDE DEF p
    <2>4. p = <<s, m[s]>> /\ m[s] \in active_centers
      BY <2>2, <2>3, <1>4
    <2> QED
      BY <2>2, <2>4
  <1>10. ASSUME NEW s \in unmatched, NextCenter(founders, s) = None
         PROVE  /\ m[s] \in active_centers \union {NextCenter(founders, u) : u \in founders} \union {None}
                /\ m[s] = None => active_centers = {}
    <2>1. m[s] = Nearest(emb[s], known(s), ctr(s))
      BY <1>1, <1>2, <1>10
    <2>2. None \notin known(s)
      BY <1>6, NoneFacts
    <2>3. /\ known(s) = {} => m[s] = None
          /\ known(s) # {} => m[s] \in known(s)
      BY <2>1, <1>8
    <2> QED
      BY <2>2, <2>3
  <1>11. ASSUME NEW s \in unmatched, NextCenter(founders, s) # None
         PROVE  m[s] = NextCenter(founders, s)
    BY <1>1, <1>2, <1>11
  <1>12. DOMAIN m = Local /\ \A s \in Local \ U : m[s] = None
    BY <1>1
  <1> QED
    BY <1>9, <1>10, <1>11, <1>12

(* What every chunk's mapping has: no two long speakers under one identity *)
(* and no long speaker without one while an identity is left.              *)
LEMMA MappingFacts ==
  ASSUME active_centers \subseteq Global, centers \in [Global -> Vector],
         ~initialised => active_centers = {},
         NEW sp, NEW emb \in [Local -> Heard], NEW m, Maps(sp, emb, m)
  PROVE  LET U == Usable(sp, emb)
             full == Global \subseteq active_centers \union Images(m)
         IN  /\ m \in [Local -> Global \union {None}]
             /\ \A s \in Local : m[s] # None => s \in U
             /\ \A s, u \in Long(sp, U) : s # u /\ m[s] = m[u] /\ m[s] # None => full
             /\ \A s \in Long(sp, U) : m[s] = None => full
             /\ \A s \in U : m[s] = None => active_centers = {} /\ (~initialised => full)
  <1> DEFINE U == Usable(sp, emb)
             full == Global \subseteq active_centers \union Images(m)
  <1>1. U \in SUBSET Local
    BY UsableFacts
  <1> HIDE DEF U
  <1>2. CASE ~initialised /\ m = FirstMapping(U)
    <2>1. \A s \in Local : m[s] = NextCenter(U, s)
      BY <1>2 DEF FirstMapping
    <2>2. DOMAIN m = Local /\ m = [s \in Local |-> m[s]]
      BY <1>2 DEF FirstMapping
    <2>3. /\ \A s : NextCenter(U, s) \in (Global \ active_centers) \union {None}
          /\ \A s : s \notin U => NextCenter(U, s) = None
          /\ \A s, u \in U : NextCenter(U, s) = NextCenter(U, u) /\ NextCenter(U, s) # None => s = u
          /\ \A s \in U : NextCenter(U, s) = None =>
                \A c \in Global \ active_centers : \E u \in U : NextCenter(U, u) = c
      BY <1>1, NextCenterFacts
    <2>4. ASSUME NEW s \in U, m[s] = None PROVE full
      <3>1. \A c \in Global \ active_centers : \E u \in U : m[u] = c
        BY <2>1, <2>3, <2>4, <1>1
      <3> QED
        BY <3>1, <1>1, NoneFacts DEF Images
    <2>5. \A s \in Local : m[s] \in Global \union {None}
      BY <2>1, <2>3
    <2>6. m \in [Local -> Global \union {None}]
      BY <2>2, <2>5
    <2>7. \A s \in Local : m[s] # None => s \in U
      BY <2>1, <2>3
    <2>8. \A s, u \in U : s # u /\ m[s] = m[u] => m[s] = None
      BY <2>1, <2>3, <1>1
    <2>9. Long(sp, U) \subseteq U
      BY DEF Long
    <2>10. active_centers = {}
      BY <1>2
    <2> HIDE DEF full
    <2> QED
      BY <2>4, <2>6, <2>7, <2>8, <2>9, <2>10 DEF full, U
  <1>3. ASSUME initialised, NEW M \in Matchings(U, emb), m = LaterMapping(sp, emb, U, M)
        PROVE  /\ m \in [Local -> Global \union {None}]
               /\ \A s \in Local : m[s] # None => s \in U
               /\ \A s, u \in Long(sp, U) : s # u /\ m[s] = m[u] /\ m[s] # None => full
               /\ \A s \in Long(sp, U) : m[s] = None => full
               /\ \A s \in U : m[s] = None => active_centers = {}
    <2> DEFINE unmatched == Unmatched(U, M)
               founders == Founders(sp, unmatched)
    <2>0. U = Usable(sp, emb) /\ founders = Founders(sp, Unmatched(U, M)) /\ unmatched \subseteq U
      BY DEF U, Unmatched
    <2> HIDE DEF founders
    <2>1. /\ DOMAIN m = Local
          /\ \A s \in Local \ U : m[s] = None
          /\ \A s \in U \ unmatched : <<s, m[s]>> \in M /\ m[s] \in active_centers
          /\ \A s \in unmatched : NextCenter(founders, s) # None => m[s] = NextCenter(founders, s)
          /\ \A s \in unmatched : NextCenter(founders, s) = None =>
                /\ m[s] \in active_centers \union {NextCenter(founders, u) : u \in founders} \union {None}
                /\ m[s] = None => active_centers = {}
      BY <1>3, <2>0, LaterFacts
    <2>2. founders \in SUBSET Local /\ founders \subseteq unmatched /\ founders = Long(sp, unmatched)
      BY <1>1, <2>0 DEF Founders, Long
    <2>3. Long(sp, U) \ founders \subseteq U \ unmatched /\ Long(sp, U) \subseteq U
      BY <2>2 DEF Long
    <2>4. /\ \A s : NextCenter(founders, s) \in (Global \ active_centers) \union {None}
          /\ \A s, u \in founders :
                NextCenter(founders, s) = NextCenter(founders, u) /\ NextCenter(founders, s) # None => s = u
          /\ \A s \in founders : NextCenter(founders, s) = None =>
                \A c \in Global \ active_centers : \E u \in founders : NextCenter(founders, u) = c
      BY <2>2, NextCenterFacts
    <2>5. \A p, q \in M : p[2] = q[2] => p = q
      BY DEF Matchings
    <2>6. ASSUME NEW s \in founders, NextCenter(founders, s) = None PROVE full
      <3> SUFFICES ASSUME NEW c \in Global \ active_centers PROVE c \in Images(m)
        OBVIOUS
      <3>1. PICK u \in founders : NextCenter(founders, u) = c
        BY <2>4, <2>6
      <3>2. m[u] = c /\ u \in Local /\ c # None
        BY <3>1, <2>1, <2>2, NoneFacts
      <3> QED
        BY <3>2 DEF Images
    <2> HIDE DEF full
    <2>7. \A s \in U \ unmatched : m[s] # None
      BY <2>1, NoneFacts
    <2>8. ASSUME NEW s \in Local PROVE m[s] \in Global \union {None} /\ (m[s] # None => s \in U)
      <3>1. s \in Local \ U \/ s \in U \ unmatched \/ s \in unmatched
        OBVIOUS
      <3>2. CASE s \in Local \ U
        BY <3>2, <2>1
      <3>3. CASE s \in U \ unmatched
        BY <3>3, <2>1
      <3>4. CASE s \in unmatched
        <4>1. m[s] \in active_centers \union {NextCenter(founders, u) : u \in founders} \union {None}
              \/ m[s] = NextCenter(founders, s)
          BY <3>4, <2>1
        <4> QED
          BY <3>4, <4>1, <2>0, <2>4
      <3> QED
        BY <3>1, <3>2, <3>3, <3>4
    <2>9. m \in [Local -> Global \union {None}]
      <3>1. m = [s \in Local |-> m[s]]
        BY <1>3 DEF LaterMapping
      <3> QED
        BY <3>1, <2>8
    <2>10. ASSUME NEW s \in Long(sp, U), m[s] = None PROVE full
      <3>1. s \in founders
        BY <2>3, <2>7, <2>10
      <3>2. NextCenter(founders, s) = None
        BY <3>1, <2>1, <2>2, <2>10
      <3> QED
        BY <3>1, <3>2, <2>6
    <2>11. ASSUME NEW s \in Long(sp, U), NEW u \in Long(sp, U), s # u, m[s] = m[u], m[s] # None, ~full
           PROVE  FALSE
      <3>1. ASSUME NEW x \in founders
            PROVE  m[x] = NextCenter(founders, x) /\ (x \in {s, u} => m[x] \notin active_centers)
        <4>1. NextCenter(founders, x) # None
          BY <2>6, <2>11
        <4>2. m[x] = NextCenter(founders, x) /\ NextCenter(founders, x) \notin active_centers
          BY <4>1, <2>1, <2>2, <2>4
        <4> QED
          BY <4>2
      <3>2. CASE s \in founders /\ u \in founders
        BY <3>1, <3>2, <2>4, <2>11
      <3>3. CASE s \in founders /\ u \notin founders
        <4>1. m[u] \in active_centers
          BY <3>3, <2>1, <2>3
        <4> QED
          BY <4>1, <3>1, <3>3, <2>11
      <3>4. CASE s \notin founders /\ u \in founders
        <4>1. m[s] \in active_centers
          BY <3>4, <2>1, <2>3
        <4> QED
          BY <4>1, <3>1, <3>4, <2>11
      <3>5. CASE s \notin founders /\ u \notin founders
        <4>1. <<s, m[s]>> \in M /\ <<u, m[u]>> \in M
          BY <3>5, <2>1, <2>3
        <4>2. <<s, m[s]>> = <<u, m[u]>>
          BY <4>1, <2>5, <2>11
        <4> QED
          BY <4>2, <2>11
      <3> QED
        BY <3>2, <3>3, <3>4, <3>5
    <2>12. ASSUME NEW s \in U, m[s] = None PROVE active_centers = {}
      <3>1. s \in unmatched
        BY <2>7, <2>12
      <3>2. NextCenter(founders, s) = None
        BY <3>1, <2>1, <2>12
      <3> QED
        BY <3>1, <3>2, <2>1, <2>12
    <2> QED
      BY <2>8, <2>9, <2>10, <2>11, <2>12
  <1>4. \/ ~initialised /\ m = FirstMapping(U)
        \/ initialised /\ \E M \in Matchings(U, emb) : m = LaterMapping(sp, emb, U, M)
    BY DEF Maps, U
  <1>5. CASE initialised /\ \E M \in Matchings(U, emb) : m = LaterMapping(sp, emb, U, M)
    <2> HIDE DEF full
    <2> QED
      BY <1>3, <1>5 DEF U, full
  <1> QED
    BY <1>2, <1>4, <1>5
-----------------------------------------------------------------------------
(* The centres after a chunk.                                              *)

(* A centre as the slots find it before they add their embeddings. *)
LEMMA FoundedFacts ==
  ASSUME centers \in [Global -> Vector], NEW sp, NEW emb \in [Local -> Heard],
         NEW m \in [Local -> Global \union {None}],
         \A s \in Local : m[s] # None => s \in Usable(sp, emb),
         NEW c \in Global
  PROVE  /\ Founded(emb, m, c) \in Vector
         /\ c \in active_centers \/ (\A s \in Local : m[s] # c) => Founded(emb, m, c) = centers[c]
         /\ \A s \in Local : c \notin active_centers /\ m[s] = c /\ (\A u \in Local : m[u] = c => u = s)
               => Founded(emb, m, c) = emb[s]
  <1> DEFINE C == {s \in Local : m[s] = c}
             low(s) == s \in Local /\ m[s] = c /\ \A u \in Local : m[u] = c => s <= u
             x == CHOOSE s \in Local : m[s] = c /\ \A u \in Local : m[u] = c => s <= u
  <1>1. CASE c \in active_centers \/ \A s \in Local : m[s] # c
    BY <1>1 DEF Founded
  <1>2. CASE c \notin active_centers /\ \E s \in Local : m[s] = c
    <2>1. Founded(emb, m, c) = emb[x]
      BY <1>2 DEF Founded
    <2>2. \E s \in C : \A u \in C : s <= u
      <3> DEFINE f == [s \in Local |-> 0]
      <3>1. C # {} /\ \A s \in C : s \in Int /\ 0 <= s /\ s < NumLocal
        BY <1>2, SlotsAssumption DEF Local
      <3>2. NumLocal \in Nat /\ \A s \in C : f[s] = 0 /\ f[s] \in Int /\ s \in Int
        BY SlotsAssumption DEF Local
      <3> HIDE DEF C, f
      <3>3. \E s \in C : \A u \in C : f[s] < f[u] \/ (f[s] = f[u] /\ s <= u)
        BY <3>1, <3>2, First
      <3> QED
        BY <3>2, <3>3
    <2>3. low(x)
      BY <2>2
    <2> HIDE DEF x
    <2>4. x \in Local /\ m[x] = c /\ x \in Usable(sp, emb)
      BY <2>3, NoneFacts
    <2>5. emb[x] \in Vector
      BY <2>4, UsableFacts
    <2> QED
      BY <1>2, <2>1, <2>4, <2>5
  <1> QED
    BY <1>1, <1>2

(* The centres that identify leaves behind. *)
NewCenters(sp, emb, m) ==
    IF initialised THEN UpdatedCenters(sp, emb, m)
    ELSE [c \in Global |-> IF \E s \in Usable(sp, emb) : m[s] = c
                           THEN emb[CHOOSE s \in Usable(sp, emb) : m[s] = c] ELSE centers[c]]

(* Centres stay vectors. *)
LEMMA CentersFacts ==
  ASSUME centers \in [Global -> Vector], NEW sp, NEW emb \in [Local -> Heard],
         NEW m \in [Local -> Global \union {None}],
         \A s \in Local : m[s] # None => s \in Usable(sp, emb)
  PROVE  NewCenters(sp, emb, m) \in [Global -> Vector]
  <1>1. \A s \in Usable(sp, emb) : emb[s] \in Vector
    BY UsableFacts
  <1>2. CASE ~initialised
    <2>1. ASSUME NEW c \in Global, \E s \in Usable(sp, emb) : m[s] = c
          PROVE  emb[CHOOSE s \in Usable(sp, emb) : m[s] = c] \in Vector
      BY <1>1, <2>1
    <2> QED
      BY <1>2, <2>1 DEF NewCenters
  <1>3. CASE initialised
    <2>1. ASSUME NEW c \in Global PROVE Raised(Founded(emb, m, c), Adding(sp, m, c), emb) \in Vector
      <3>1. Founded(emb, m, c) \in Vector
        BY FoundedFacts
      <3>2. Adding(sp, m, c) \in SUBSET Local
        BY DEF Adding
      <3>3. \A s \in Adding(sp, m, c) : emb[s] \in Vector
        BY <1>1 DEF Adding
      <3> QED
        BY <3>1, <3>2, <3>3, RaisedFacts
    <2>2. NewCenters(sp, emb, m) = [c \in Global |-> Raised(Founded(emb, m, c), Adding(sp, m, c), emb)]
      BY <1>3 DEF NewCenters, UpdatedCenters
    <2> QED
      BY <2>1, <2>2
  <1> QED
    BY <1>2, <1>3
-----------------------------------------------------------------------------
(* One chunk.                                                              *)

(* What a chunk leaves behind, the mapping being one that identify may     *)
(* make.                                                                   *)
ChunkDone ==
    /\ initialised' = TRUE
    /\ speech' \in [Local -> Kinds]
    /\ embeddings' \in [Local -> Heard]
    /\ last_embeddings' \in [Local -> Heard]
    /\ chunk_index' \in 0 .. MaxChunks
    /\ Maps(speech', embeddings', mapping')
    /\ centers' = NewCenters(speech', embeddings', mapping')
    /\ active_centers' = active_centers \union Images(mapping')
    /\ filed' = [g \in Global |->
                    {s \in Local : speech'[s] # "silent" /\ FiledUnder(mapping', s) = g}]

(* Every chunk does that. *)
LEMMA ChunkFacts ==
  ASSUME TypeOK, NEW x \in [Local -> Slots],
         ProcessChunk([s \in Local |-> x[s][1]], [s \in Local |-> x[s][2]])
  PROVE  ChunkDone
  <1> DEFINE sp == [s \in Local |-> x[s][1]]
             fresh == [s \in Local |-> x[s][2]]
  <1>1. \A s \in Local : x[s][1] \in Kinds /\ x[s][2] \in Heard
    <2> SUFFICES ASSUME NEW s \in Local PROVE x[s][1] \in Kinds /\ x[s][2] \in Heard
      OBVIOUS
    <2>1. x[s] \in Slots
      OBVIOUS
    <2> QED
      BY <2>1 DEF Slots, Kinds, Heard
  <1>2. sp \in [Local -> Kinds] /\ fresh \in [Local -> Heard]
    BY <1>1
  <1> HIDE DEF sp, fresh
  <1>3. ProcessChunk(sp, fresh)
    BY DEF sp, fresh
  <1>4. speech' = sp /\ Identify(sp, embeddings') /\ Permute(sp)
    BY <1>3 DEF ProcessChunk
  <1>5. chunk_index' \in 0 .. MaxChunks
    BY <1>3, EmbedAssumption DEF ProcessChunk, TypeOK
  <1>6. embeddings' \in [Local -> Heard] /\ last_embeddings' \in [Local -> Heard]
    <2>1. last_embeddings \in [Local -> Heard]
      BY DEF TypeOK, Heard
    <2>2. CASE chunk_index % EmbedEvery = 0
      <3>1. /\ embeddings' = fresh
            /\ last_embeddings' = [s \in Local |->
                    IF fresh[s] = NoEmbedding THEN last_embeddings[s] ELSE fresh[s]]
        BY <2>2, <1>3 DEF ProcessChunk
      <3> QED
        BY <3>1, <2>1, <1>2
    <2>3. CASE chunk_index % EmbedEvery # 0
      <3>1. embeddings' = last_embeddings /\ last_embeddings' = last_embeddings
        BY <2>3, <1>3 DEF ProcessChunk
      <3> QED
        BY <3>1, <2>1
    <2> QED
      BY <2>2, <2>3
  <1>7. initialised' = TRUE /\ active_centers' = active_centers \union Images(mapping')
    BY <1>4 DEF Identify, Images
  <1>8. \/ /\ ~initialised /\ mapping' = FirstMapping(Usable(sp, embeddings'))
           /\ centers' = [c \in Global |->
                 IF \E s \in Usable(sp, embeddings') : mapping'[s] = c
                 THEN embeddings'[CHOOSE s \in Usable(sp, embeddings') : mapping'[s] = c]
                 ELSE centers[c]]
        \/ /\ initialised
           /\ \E M \in Matchings(Usable(sp, embeddings'), embeddings') :
                 mapping' = LaterMapping(sp, embeddings', Usable(sp, embeddings'), M)
           /\ centers' = UpdatedCenters(sp, embeddings', mapping')
    BY <1>4 DEF Identify
  <1>9. Maps(speech', embeddings', mapping')
    BY <1>4, <1>8 DEF Maps
  <1>10. centers' = NewCenters(speech', embeddings', mapping')
    <2>1. speech' = sp
      BY <1>4
    <2>2. CASE initialised
      <3>1. centers' = UpdatedCenters(sp, embeddings', mapping')
        BY <1>8, <2>2
      <3> QED
        BY <3>1, <2>1, <2>2 DEF NewCenters
    <2>3. CASE ~initialised
      <3>1. centers' = [c \in Global |->
                 IF \E s \in Usable(sp, embeddings') : mapping'[s] = c
                 THEN embeddings'[CHOOSE s \in Usable(sp, embeddings') : mapping'[s] = c]
                 ELSE centers[c]]
        BY <1>8, <2>3
      <3> QED
        BY <3>1, <2>1, <2>3 DEF NewCenters
    <2> QED
      BY <2>2, <2>3
  <1>11. filed' = [g \in Global |->
                    {s \in Local : speech'[s] # "silent" /\ FiledUnder(mapping', s) = g}]
    BY <1>4 DEF Permute
  <1> QED
    BY <1>2, <1>4, <1>5, <1>6, <1>7, <1>9, <1>10, <1>11 DEF ChunkDone

(* What the mapping of a chunk has, and the identities there are then. *)
LEMMA DoneFacts ==
  ASSUME TypeOK, StartInv, ChunkDone
  PROVE  /\ mapping' \in [Local -> Global \union {None}]
         /\ active_centers' \subseteq Global
         /\ \A s \in Local : mapping'[s] # None => s \in Named' /\ mapping'[s] \in active_centers'
         /\ \A s, u \in Long(speech', Named') :
               s # u /\ mapping'[s] = mapping'[u] /\ mapping'[s] # None => active_centers' = Global
         /\ \A s \in Long(speech', Named') : mapping'[s] = None => active_centers' = Global
         /\ \A s \in Named' : mapping'[s] = None =>
               active_centers = {} /\ (~initialised => active_centers' = Global)
         /\ Named' = Usable(speech', embeddings')
  <1> DEFINE m == mapping'
             emb == embeddings'
             sp == speech'
             U == Usable(sp, emb)
             full == Global \subseteq active_centers \union Images(m)
  <1>1. /\ active_centers \subseteq Global /\ centers \in [Global -> Vector]
        /\ ~initialised => active_centers = {}
        /\ emb \in [Local -> Heard] /\ Maps(sp, emb, m)
    BY DEF TypeOK, StartInv, ChunkDone, Vector
  <1> HIDE DEF m, emb, sp
  <1>2. /\ m \in [Local -> Global \union {None}]
        /\ \A s \in Local : m[s] # None => s \in U
        /\ \A s, u \in Long(sp, U) : s # u /\ m[s] = m[u] /\ m[s] # None => full
        /\ \A s \in Long(sp, U) : m[s] = None => full
        /\ \A s \in U : m[s] = None => active_centers = {} /\ (~initialised => full)
    BY <1>1, MappingFacts
  <1>3. \A s \in Local : m[s] # None => m[s] \in Images(m)
    BY DEF Images
  <1>4. Images(m) \subseteq Global
    BY <1>2 DEF Images
  <1>5. active_centers' = active_centers \union Images(m)
    BY DEF ChunkDone, m
  <1>6. active_centers' \subseteq Global /\ (full => active_centers' = Global)
    BY <1>1, <1>4, <1>5
  <1>7. Named' = U
    BY DEF Named, U, sp, emb
  <1> HIDE DEF U, full
  <1>8. /\ m \in [Local -> Global \union {None}]
        /\ active_centers' \subseteq Global
        /\ \A s \in Local : m[s] # None => s \in Named' /\ m[s] \in active_centers'
        /\ \A s, u \in Long(sp, Named') :
              s # u /\ m[s] = m[u] /\ m[s] # None => active_centers' = Global
        /\ \A s \in Long(sp, Named') : m[s] = None => active_centers' = Global
        /\ \A s \in Named' : m[s] = None =>
              active_centers = {} /\ (~initialised => active_centers' = Global)
    BY <1>2, <1>3, <1>5, <1>6, <1>7
  <1> QED
    BY <1>7, <1>8 DEF m, sp, emb, U

(* A chunk leaves everything with its type. *)
LEMMA TypeStep ==
  ASSUME TypeOK, StartInv, ChunkDone
  PROVE  TypeOK'
  <1>1. mapping' \in [Local -> Global \union {None}] /\ active_centers' \subseteq Global
    BY DoneFacts
  <1>2. centers' \in [Global -> Vector]
    <2> DEFINE m == mapping'
               emb == embeddings'
               sp == speech'
    <2>1. /\ centers \in [Global -> Vector] /\ emb \in [Local -> Heard]
          /\ centers' = NewCenters(sp, emb, m)
      BY DEF TypeOK, Vector, ChunkDone
    <2>2. m \in [Local -> Global \union {None}] /\ \A s \in Local : m[s] # None => s \in Usable(sp, emb)
      BY DoneFacts
    <2> HIDE DEF m, emb, sp
    <2> QED
      BY <2>1, <2>2, CentersFacts
  <1>3. filed' \in [Global -> SUBSET Local]
    BY DEF ChunkDone
  <1> QED
    BY <1>1, <1>2, <1>3 DEF TypeOK, ChunkDone, Vector, Kinds, Heard

(* Two long speakers filed under one identity find no identity left. *)
LEMMA ApartStep ==
  ASSUME TypeOK, StartInv, ChunkDone
  PROVE  LongSpeakersApart'
  <1> SUFFICES ASSUME NEW g \in Global, NEW s \in filed'[g] \intersect Long(speech', Named'),
                      NEW u \in filed'[g] \intersect Long(speech', Named'), s # u
               PROVE  active_centers' = Global
    BY DEF LongSpeakersApart
  <1>1. FiledUnder(mapping', s) = g /\ FiledUnder(mapping', u) = g
    BY DEF ChunkDone
  <1>2. CASE mapping'[s] = None \/ mapping'[u] = None
    BY <1>2, DoneFacts
  <1>3. CASE mapping'[s] # None /\ mapping'[u] # None
    <2>1. mapping'[s] = mapping'[u]
      BY <1>1, <1>3 DEF FiledUnder
    <2> QED
      BY <2>1, <1>3, DoneFacts
  <1> QED
    BY <1>2, <1>3
-----------------------------------------------------------------------------
(* Somebody who talks alone and for long.                                  *)

(* Such a speaker gets the nearest identity, near enough or the only       *)
(* choice, or a new one when all are too far.                              *)
Settled(e, g) ==
    \/ /\ g \in active_centers
       /\ \A d \in active_centers : Distance(e, centers[g]) <= Distance(e, centers[d])
       /\ Distance(e, centers[g]) <= DeltaNew \/ active_centers = Global
    \/ /\ g \in Global \ active_centers
       /\ \A d \in active_centers : Distance(e, centers[d]) > DeltaNew

(* The only slot that asks gets an identity unless all are taken. *)
LEMMA OnlyOne ==
  ASSUME NEW s \in Local, active_centers \subseteq Global
  PROVE  \/ NextCenter({s}, s) \in Global \ active_centers
         \/ NextCenter({s}, s) = None /\ active_centers = Global
  <1> DEFINE C == {s}
  <1>1. C \in SUBSET Local /\ s \in C /\ \A u \in C : u = s
    OBVIOUS
  <1> HIDE DEF C
  <1>2. /\ NextCenter(C, s) \in (Global \ active_centers) \union {None}
        /\ NextCenter(C, s) = None =>
               \A c \in Global \ active_centers : \E u \in C : NextCenter(C, u) = c
    BY <1>1, NextCenterFacts
  <1>3. ASSUME NextCenter(C, s) = None PROVE active_centers = Global
    <2>1. \A c \in Global \ active_centers : None = c
      BY <1>1, <1>2, <1>3
    <2> QED
      BY <2>1, NoneFacts
  <1> QED
    BY <1>2, <1>3 DEF C

(* The matching of the only slot there is. *)
LEMMA SoloMatching ==
  ASSUME active_centers \subseteq Global, centers \in [Global -> Vector],
         NEW sp, NEW emb \in [Local -> Heard],
         NEW s \in Local, Usable(sp, emb) = {s},
         NEW M \in Matchings({s}, emb)
  PROVE  /\ s \in Unmatched({s}, M) =>
               \A d \in active_centers : Distance(emb[s], centers[d]) > DeltaNew
         /\ \A g : s \notin Unmatched({s}, M) /\ <<s, g>> \in M =>
               /\ g \in active_centers
               /\ Distance(emb[s], centers[g]) <= DeltaNew
               /\ \A d \in active_centers : Distance(emb[s], centers[g]) <= Distance(emb[s], centers[d])
  <1> DEFINE U == {s}
             e == emb[s]
             near == {p \in U \X active_centers : Distance(emb[p[1]], centers[p[2]]) <= DeltaNew}
             dist(p) == Distance(emb[p[1]], centers[p[2]])
  <1>0. e \in Vector /\ DeltaNew \in Int
    BY UsableFacts, VectorsAssumption
  <1>1. \A d \in active_centers : Distance(e, centers[d]) \in Int
    <2> HIDE DEF e
    <2> QED
      BY <1>0, VectorFacts
  <1>2. /\ M \subseteq near
        /\ \A p, q \in M : p[1] = q[1] => p = q
        /\ \A p \in near \ M : \E q \in M : (p[1] = q[1] \/ p[2] = q[2]) /\ dist(q) <= dist(p)
    BY DEF Matchings
  <1>3. \A p \in near : p[1] = s /\ p[2] \in active_centers /\ p = <<s, p[2]>>
                        /\ dist(p) = Distance(e, centers[p[2]])
    OBVIOUS
  <1>4. \A d \in active_centers : Distance(e, centers[d]) <= DeltaNew => <<s, d>> \in near
    OBVIOUS
  <1>5. \A g : <<s, g>> \in near => g \in active_centers /\ Distance(e, centers[g]) <= DeltaNew
                                    /\ dist(<<s, g>>) = Distance(e, centers[g])
    OBVIOUS
  <1> HIDE DEF near, dist, e
  <1>6. ASSUME s \in Unmatched({s}, M), NEW d \in active_centers PROVE Distance(e, centers[d]) > DeltaNew
    <2>1. M = {}
      BY <1>2, <1>3, <1>6 DEF Unmatched
    <2>2. <<s, d>> \notin near
      BY <2>1, <1>2
    <2>3. ~(Distance(e, centers[d]) <= DeltaNew)
      BY <2>2, <1>4
    <2> QED
      BY <2>3, <1>0, <1>1
  <1>7. ASSUME NEW g, <<s, g>> \in M
        PROVE  /\ g \in active_centers
               /\ Distance(e, centers[g]) <= DeltaNew
               /\ \A d \in active_centers : Distance(e, centers[g]) <= Distance(e, centers[d])
    <2>1. g \in active_centers /\ Distance(e, centers[g]) <= DeltaNew
      BY <1>2, <1>5, <1>7
    <2>2. ASSUME NEW d \in active_centers PROVE Distance(e, centers[g]) <= Distance(e, centers[d])
      <3>1. CASE <<s, d>> \in M
        <4>1. <<s, d>> = <<s, g>>
          BY <3>1, <1>2, <1>7
        <4> QED
          BY <4>1, <2>1, <1>1
      <3>2. CASE <<s, d>> \in near \ M
        <4>1. PICK q \in M : dist(q) <= dist(<<s, d>>)
          BY <3>2, <1>2
        <4>2. q = <<s, g>>
          BY <1>2, <1>3, <1>7
        <4> QED
          BY <3>2, <4>1, <4>2, <1>2, <1>5
      <3>3. CASE <<s, d>> \notin near
        <4>1. ~(Distance(e, centers[d]) <= DeltaNew)
          BY <3>3, <1>4
        <4> QED
          BY <4>1, <2>1, <1>0, <1>1
      <3> QED
        BY <3>1, <3>2, <3>3, <1>2
    <2> QED
      BY <2>1, <2>2
  <1> QED
    BY <1>6, <1>7 DEF e

(* What identify gives to somebody alone. *)
LEMMA SoloMapping ==
  ASSUME active_centers \subseteq Global, centers \in [Global -> Vector],
         ~initialised => active_centers = {},
         NEW sp, NEW emb \in [Local -> Heard], NEW m, Maps(sp, emb, m),
         NEW s \in Local, Usable(sp, emb) = {s}, sp[s] = "long"
  PROVE  Settled(emb[s], m[s])
  <1>1. CASE ~initialised /\ m = FirstMapping(Usable(sp, emb))
    <2>1. m[s] = NextCenter({s}, s)
      BY <1>1 DEF FirstMapping
    <2>2. active_centers # Global
      BY <1>1, NoneFacts
    <2> QED
      BY <2>1, <2>2, <1>1, OnlyOne DEF Settled
  <1>2. ASSUME initialised, NEW M \in Matchings({s}, emb), m = LaterMapping(sp, emb, {s}, M)
        PROVE  Settled(emb[s], m[s])
    <2> DEFINE F == Founders(sp, Unmatched({s}, M))
               U == {s}
               e == emb[s]
    <2>1. /\ \A t \in U \ Unmatched(U, M) : <<t, m[t]>> \in M /\ m[t] \in active_centers
          /\ \A t \in Unmatched(U, M) : NextCenter(F, t) # None => m[t] = NextCenter(F, t)
      <3>1. U = Usable(sp, emb) /\ F = Founders(sp, Unmatched(U, M)) /\ M \in Matchings(U, emb)
            /\ m = LaterMapping(sp, emb, U, M)
        BY <1>2
      <3> HIDE DEF F, U, e
      <3>2. /\ \A t \in U \ Unmatched(U, M) : <<t, m[t]>> \in M /\ m[t] \in active_centers
            /\ \A t \in Unmatched(U, M) : NextCenter(F, t) # None => m[t] = NextCenter(F, t)
            /\ DOMAIN m = Local
        BY ONLY active_centers \subseteq Global, centers \in [Global -> Vector],
                emb \in [Local -> Heard], <3>1, LaterFacts
      <3> QED
        BY <3>2
    <2>2. CASE s \notin Unmatched({s}, M)
      <3>1. <<s, m[s]>> \in M
        BY <2>1, <2>2
      <3> QED
        BY <3>1, <1>2, <2>2, SoloMatching DEF Settled
    <2>3. CASE s \in Unmatched({s}, M)
      <3>1. \A d \in active_centers : Distance(e, centers[d]) > DeltaNew
        BY <1>2, <2>3, SoloMatching
      <3>2. F = {s}
        BY <2>3 DEF Founders, Long, Unmatched
      <3>3. CASE NextCenter({s}, s) \in Global \ active_centers
        <4>1. m[s] = NextCenter({s}, s)
          BY <2>1, <2>3, <3>2, <3>3, NoneFacts
        <4> QED
          BY <3>1, <3>3, <4>1 DEF Settled
      <3>4. CASE NextCenter({s}, s) = None /\ active_centers = Global
        <4> DEFINE foundedBy == {u \in {s} : u < s /\ NextCenter({s}, u) # None}
                   known == active_centers \union {NextCenter({s}, u) : u \in foundedBy}
                   ctr == [c \in Global |->
                             IF \E u \in foundedBy : NextCenter({s}, u) = c
                             THEN emb[CHOOSE u \in foundedBy : NextCenter({s}, u) = c]
                             ELSE centers[c]]
        <4>1. s \in {t \in {s} : \A p \in M : p[1] # t}
              /\ Founders(sp, {t \in {s} : \A p \in M : p[1] # t}) = {s}
          BY <2>3, <3>2 DEF Unmatched
        <4>2. m[s] = Nearest(emb[s], known, ctr)
          BY <1>2, <3>4, <4>1 DEF LaterMapping
        <4>3. foundedBy = {}
          BY SlotsAssumption DEF Local
        <4>4. known = active_centers
          BY <4>3
        <4>5. ctr = centers
          BY <4>3
        <4> HIDE DEF known, ctr
        <4>6. emb[s] \in Vector
          BY UsableFacts
        <4>7. \A d \in active_centers : Distance(emb[s], centers[d]) \in Int
          BY <4>6, VectorFacts
        <4>8. m[s] = Nearest(emb[s], active_centers, centers)
          BY <4>2, <4>4, <4>5
        <4>9. active_centers # {}
          BY <3>4, NoneFacts
        <4>10. m[s] \in active_centers
               /\ \A d \in active_centers : Distance(emb[s], centers[m[s]]) <= Distance(emb[s], centers[d])
          BY <4>7, <4>8, <4>9, NearestFacts
        <4> QED
          BY <3>4, <4>10 DEF Settled
      <3> QED
        BY <3>3, <3>4, OnlyOne
    <2> QED
      BY <2>2, <2>3
  <1> QED
    BY <1>1, <1>2 DEF Maps

(* Such a speaker moves the centre of that identity only, towards himself. *)
LEMMA SoloCenters ==
  ASSUME centers \in [Global -> Vector], NEW sp, NEW emb \in [Local -> Heard],
         NEW m \in [Local -> Global \union {None}],
         \A u \in Local : m[u] # None => u \in Usable(sp, emb),
         NEW s \in Local, Usable(sp, emb) = {s}, sp[s] = "long", m[s] \in Global
  PROVE  LET c == NewCenters(sp, emb, m)
             g == m[s]
         IN  /\ \A d \in Global \ {g} : c[d] = centers[d]
             /\ initialised /\ g \in active_centers => c[g] = Plus(centers[g], emb[s])
             /\ initialised /\ g \notin active_centers => c[g] = Plus(emb[s], emb[s])
             /\ ~initialised => c[g] = emb[s]
  <1> DEFINE c == NewCenters(sp, emb, m)
             g == m[s]
  <1>1. \A u \in Local : m[u] # None => u = s
    OBVIOUS
  <1>2. \A d \in Global : \A u \in Local : m[u] = d => u = s /\ d = g
    BY <1>1, NoneFacts
  <1>3. emb[s] \in Vector
    BY UsableFacts
  <1>4. CASE ~initialised
    <2>1. c = [d \in Global |-> IF \E u \in {s} : m[u] = d
                                THEN emb[CHOOSE u \in {s} : m[u] = d] ELSE centers[d]]
      BY <1>4 DEF NewCenters
    <2>2. \A d \in Global \ {g} : c[d] = centers[d]
      BY <2>1
    <2>3. c[g] = emb[s]
      <3>1. (CHOOSE u \in {s} : m[u] = g) = s
        OBVIOUS
      <3> QED
        BY <2>1, <3>1
    <2> QED
      BY <1>4, <2>2, <2>3
  <1>5. CASE initialised
    <2>1. \A d \in Global : c[d] = Raised(Founded(emb, m, d), Adding(sp, m, d), emb)
      BY <1>5 DEF NewCenters, UpdatedCenters
    <2>2. ASSUME NEW d \in Global PROVE Founded(emb, m, d) \in Vector
      BY FoundedFacts
    <2>3. ASSUME NEW d \in Global \ {g} PROVE c[d] = centers[d]
      <3>1. \A u \in Local : m[u] # d
        BY <1>2
      <3>2. Adding(sp, m, d) = {}
        BY <3>1 DEF Adding, CenterOf
      <3>3. Founded(emb, m, d) = centers[d]
        BY <3>1, FoundedFacts
      <3>4. Raised(centers[d], {}, emb) = centers[d]
        <4>1. centers[d] \in Vector
          OBVIOUS
        <4> QED
          BY <4>1, RaisedFacts
      <3> QED
        BY <2>1, <3>2, <3>3, <3>4
    <2>4. c[g] = Plus(Founded(emb, m, g), emb[s])
      <3> DEFINE v == Founded(emb, m, g)
                 A == Adding(sp, m, g)
      <3>1. A = {s}
        <4>1. s \in A
          BY NoneFacts DEF Adding, CenterOf
        <4>2. \A u \in A : u = s
          BY <1>2 DEF Adding, CenterOf
        <4> QED
          BY <4>1, <4>2
      <3>2. v \in Vector /\ A \in SUBSET Local /\ s \in A /\ \A u \in A : emb[u] \in Vector
        BY <2>2, <3>1, <1>3
      <3> HIDE DEF A, v
      <3>3. \A u \in A : A = {u} => Raised(v, A, emb) = Plus(v, emb[u])
        BY ONLY <3>2, RaisedFacts, SMTT(60)
      <3> QED
        BY <2>1, <3>1, <3>2, <3>3 DEF A, v
    <2>5. g \in active_centers => Founded(emb, m, g) = centers[g]
      BY FoundedFacts
    <2>6. g \notin active_centers => Founded(emb, m, g) = emb[s]
      BY <1>2, FoundedFacts
    <2> HIDE DEF c
    <2> QED
      BY <1>5, <2>3, <2>4, <2>5, <2>6 DEF c
  <1> QED
    BY <1>4, <1>5

(* Who is alone in a chunk has an identity of the table, and is alone in   *)
(* moving its centre.                                                      *)
LEMMA AloneFacts ==
  ASSUME TypeOK, StartInv, ChunkDone, NEW s \in Local, Alone(s)'
  PROVE  LET e == embeddings'[s]
             g == mapping'[s]
         IN  /\ e \in Embeddings
             /\ Settled(e, g) /\ g \in Global
             /\ active_centers' = active_centers \union {g}
             /\ \A d \in Global \ {g} : centers'[d] = centers[d]
             /\ initialised /\ g \in active_centers => centers'[g] = Plus(centers[g], e)
             /\ initialised /\ g \notin active_centers => centers'[g] = Plus(e, e)
             /\ ~initialised => centers'[g] = e
  <1> DEFINE e == embeddings'[s]
             g == mapping'[s]
             m == mapping'
             emb == embeddings'
             sp == speech'
  <1>1. /\ active_centers \subseteq Global /\ centers \in [Global -> Vector]
        /\ ~initialised => active_centers = {}
        /\ emb \in [Local -> Heard] /\ Maps(sp, emb, m)
        /\ centers' = NewCenters(sp, emb, m)
        /\ active_centers' = active_centers \union Images(m)
    BY DEF TypeOK, StartInv, ChunkDone, Vector
  <1>2. /\ m \in [Local -> Global \union {None}]
        /\ Usable(sp, emb) = {s} /\ sp[s] = "long"
        /\ \A u \in Local : m[u] # None => u \in Usable(sp, emb)
    BY DoneFacts DEF Alone
  <1>3. e = emb[s] /\ g = m[s]
    OBVIOUS
  <1> HIDE DEF m, emb, sp
  <1>4. Settled(emb[s], m[s])
    BY <1>1, <1>2, SoloMapping
  <1>5. m[s] \in Global
    BY <1>1, <1>4 DEF Settled
  <1>6. /\ \A d \in Global \ {m[s]} : centers'[d] = centers[d]
        /\ initialised /\ m[s] \in active_centers => centers'[m[s]] = Plus(centers[m[s]], emb[s])
        /\ initialised /\ m[s] \notin active_centers => centers'[m[s]] = Plus(emb[s], emb[s])
        /\ ~initialised => centers'[m[s]] = emb[s]
    BY <1>1, <1>2, <1>5, SoloCenters
  <1>7. Images(m) = {m[s]}
    <2>1. \A u \in Local : m[u] # None => u = s
      BY <1>2
    <2> QED
      BY <2>1, <1>5, NoneFacts DEF Images
  <1>8. emb[s] \in Embeddings
    BY <1>1, <1>2, UsableFacts
  <1> QED
    BY <1>1, <1>3, <1>4, <1>5, <1>6, <1>7, <1>8

(* Whoever is alone is left nearest to his identity.  A negative           *)
(* --delta_new would put even one's own centre out of reach.               *)
LEMMA SoloStep ==
  ASSUME DeltaNew >= 0, TypeOK, StartInv, ChunkDone
  PROVE  SoloInv'
  <1> SUFFICES ASSUME NEW s \in Local, Alone(s)'
               PROVE  LET e == embeddings'[s]
                          g == mapping'[s]
                      IN  /\ g \in active_centers'
                          /\ \A d \in active_centers' \ {g} :
                                Distance(e, centers'[g]) < Distance(e, centers'[d])
                          /\ Distance(e, centers'[g]) <= DeltaNew \/ active_centers' = Global
    BY DEF SoloInv
  <1> DEFINE e == embeddings'[s]
             g == mapping'[s]
  <1>1. /\ e \in Embeddings
        /\ Settled(e, g) /\ g \in Global
        /\ active_centers' = active_centers \union {g}
        /\ \A d \in Global \ {g} : centers'[d] = centers[d]
        /\ initialised /\ g \in active_centers => centers'[g] = Plus(centers[g], e)
        /\ initialised /\ g \notin active_centers => centers'[g] = Plus(e, e)
        /\ ~initialised => centers'[g] = e
    BY AloneFacts
  <1>2. active_centers \subseteq Global /\ centers \in [Global -> Vector]
        /\ (~initialised => active_centers = {})
    BY DEF TypeOK, StartInv, Vector
  <1> HIDE DEF e, g
  <1>3. e \in Vector /\ Dot(e, e) = Unit /\ Distance(e, e) = 0 /\ Unit \in Nat \ {0}
    BY <1>1, UnitFacts
  <1>4. DeltaNew \in Int
    BY VectorsAssumption
  <1>5. \A d \in Global : Distance(e, centers[d]) \in Int
                          /\ Distance(e, Plus(centers[d], e)) = Distance(e, centers[d]) - Unit
    <2> SUFFICES ASSUME NEW d \in Global
                 PROVE  Distance(e, centers[d]) \in Int
                        /\ Distance(e, Plus(centers[d], e)) = Distance(e, centers[d]) - Unit
      OBVIOUS
    <2>1. centers[d] \in Vector
      BY <1>2
    <2> QED
      BY <2>1, <1>3, VectorFacts
  <1>6. Distance(e, Plus(e, e)) = 0 - Unit
    BY <1>3, VectorFacts
  <1>7. \A d \in active_centers' \ {g} : d \in active_centers /\ centers'[d] = centers[d]
    BY <1>1, <1>2
  <1> HIDE DEF Distance
  <1>8. CASE g \in active_centers
    <2>1. /\ \A d \in active_centers : Distance(e, centers[g]) <= Distance(e, centers[d])
          /\ Distance(e, centers[g]) <= DeltaNew \/ active_centers = Global
      BY <1>1, <1>8 DEF Settled
    <2>2. initialised
      BY <1>2, <1>8
    <2>3. centers'[g] = Plus(centers[g], e)
      BY <1>1, <1>8, <2>2
    <2>4. Distance(e, centers'[g]) = Distance(e, centers[g]) - Unit /\ Distance(e, centers[g]) \in Int
      BY <1>1, <1>5, <2>3
    <2>5. ASSUME NEW d \in active_centers' \ {g}
          PROVE  Distance(e, centers'[g]) < Distance(e, centers'[d])
      <3>1. Distance(e, centers[g]) <= Distance(e, centers[d]) /\ centers'[d] = centers[d]
            /\ Distance(e, centers[d]) \in Int
        BY <1>2, <1>5, <1>7, <2>1
      <3> QED
        BY <3>1, <2>4, <1>3
    <2>6. active_centers' = active_centers
      BY <1>1, <1>8
    <2>7. Distance(e, centers'[g]) <= DeltaNew \/ active_centers' = Global
      BY <2>1, <2>4, <2>6, <1>3, <1>4
    <2> QED
      BY <2>5, <2>6, <2>7, <1>8 DEF e, g
  <1>9. CASE g \notin active_centers
    <2>1. \A d \in active_centers : Distance(e, centers[d]) > DeltaNew
      BY <1>1, <1>9 DEF Settled
    <2>2. Distance(e, centers'[g]) \in Int /\ Distance(e, centers'[g]) <= 0
      <3>1. centers'[g] = Plus(e, e) \/ centers'[g] = e
        BY <1>1, <1>9
      <3> QED
        BY <3>1, <1>3, <1>6
    <2>3. Distance(e, centers'[g]) <= DeltaNew
      BY <2>2, <1>4
    <2>4. ASSUME NEW d \in active_centers' \ {g}
          PROVE  Distance(e, centers'[g]) < Distance(e, centers'[d])
      <3>1. Distance(e, centers[d]) > DeltaNew /\ centers'[d] = centers[d]
            /\ Distance(e, centers[d]) \in Int
        BY <1>2, <1>5, <1>7, <2>1
      <3> QED
        BY <3>1, <2>3, <2>2, <1>4
    <2>5. g \in active_centers'
      BY <1>1
    <2> QED
      BY <2>3, <2>4, <2>5 DEF e, g
  <1> QED
    BY <1>8, <1>9
-----------------------------------------------------------------------------
(* Theorems.                                                               *)

(* Nothing is named yet. *)
LEMMA InitStep == Init => TypeOK /\ StartInv /\ LongSpeakersApart /\ SoloInv
  <1> SUFFICES ASSUME Init PROVE TypeOK /\ StartInv /\ LongSpeakersApart /\ SoloInv
    OBVIOUS
  <1>1. Named = {}
    BY DEF Init, Named, Usable
  <1>2. TypeOK
    <2>1. centers \in [Global -> Int \X Int]
      BY DEF Init
    <2>2. chunk_index \in 0 .. MaxChunks
      BY EmbedAssumption DEF Init
    <2>3. /\ speech \in [Local -> {"silent", "active", "long"}]
          /\ last_embeddings \in [Local -> Embeddings \union {NoEmbedding}]
          /\ embeddings \in [Local -> Embeddings \union {NoEmbedding}]
          /\ mapping \in [Local -> Global \union {None}]
      BY DEF Init
    <2>4. filed \in [Global -> SUBSET Local]
      BY DEF Init
    <2>5. initialised \in BOOLEAN /\ active_centers \subseteq Global
      BY DEF Init
    <2> QED
      BY <2>1, <2>2, <2>3, <2>4, <2>5 DEF TypeOK
  <1>3. StartInv
    BY <1>1 DEF Init, StartInv
  <1>4. LongSpeakersApart
    BY DEF Init, LongSpeakersApart
  <1>5. SoloInv
    BY <1>1 DEF SoloInv, Alone
  <1> QED
    BY <1>2, <1>3, <1>4, <1>5

(* Nothing changes when no chunk comes. *)
LEMMA IdleStep ==
  ASSUME UNCHANGED vars
  PROVE  /\ TypeOK' <=> TypeOK
         /\ StartInv' <=> StartInv
         /\ LongSpeakersApart' <=> LongSpeakersApart
         /\ SoloInv' <=> SoloInv
         /\ Named' = Named /\ mapping' = mapping /\ embeddings' = embeddings /\ speech' = speech
         /\ active_centers' = active_centers /\ initialised' = initialised
  <1> USE DEF vars
  <1>1. Named' = Named
    BY DEF Named
  <1>2. TypeOK' <=> TypeOK
    BY DEF TypeOK
  <1>3. StartInv' <=> StartInv
    BY <1>1 DEF StartInv
  <1>4. LongSpeakersApart' <=> LongSpeakersApart
    BY <1>1 DEF LongSpeakersApart
  <1>5. SoloInv' <=> SoloInv
    BY <1>1 DEF SoloInv, Alone
  <1> QED
    BY <1>1, <1>2, <1>3, <1>4, <1>5

(* Every step is a chunk or leaves everything as it is. *)
LEMMA StepCases ==
  ASSUME TypeOK, [Next]_vars
  PROVE  ChunkDone \/ UNCHANGED vars
  <1>1. CASE UNCHANGED vars
    BY <1>1
  <1>2. CASE Done
    BY <1>2 DEF Done
  <1>3. ASSUME NEW x \in [Local -> Slots],
               ProcessChunk([s \in Local |-> x[s][1]], [s \in Local |-> x[s][2]])
        PROVE  ChunkDone
    BY <1>3, ChunkFacts
  <1> QED
    BY <1>1, <1>2, <1>3 DEF Next

(* The invariants that hold whatever delta_new is. *)
NamingInv == TypeOK /\ StartInv /\ LongSpeakersApart

(* They go from one chunk to the next. *)
LEMMA NamingStep == NamingInv /\ [Next]_vars => NamingInv'
  <1> SUFFICES ASSUME NamingInv, [Next]_vars PROVE NamingInv'
    OBVIOUS
  <1>1. TypeOK /\ StartInv /\ LongSpeakersApart
    BY DEF NamingInv
  <1>2. CASE ChunkDone
    <2>1. TypeOK'
      BY <1>1, <1>2, TypeStep
    <2>2. LongSpeakersApart'
      BY <1>1, <1>2, ApartStep
    <2>3. StartInv'
      BY <1>2 DEF ChunkDone, StartInv
    <2> QED
      BY <2>1, <2>2, <2>3 DEF NamingInv
  <1>3. CASE UNCHANGED vars
    BY <1>1, <1>3, IdleStep DEF NamingInv
  <1> QED
    BY <1>1, <1>2, <1>3, StepCases

(* The first three parts of the invariant of identify and                  *)
(* permute_segmentation hold in every state, before the first chunk too.   *)
THEOREM NamingInvariance == Spec => []NamingInv
  <1>1. Init => NamingInv
    BY InitStep DEF NamingInv
  <1>2. NamingInv /\ [Next]_vars => NamingInv'
    BY NamingStep
  <1> QED
    BY <1>1, <1>2, PTL DEF Spec

(* Slots, identities, centres and mappings keep their types: identify      *)
(* never indexes a centre outside the table of max_speakers.               *)
THEOREM ClusterTyped == Spec => []TypeOK
  <1>1. NamingInv => TypeOK
    BY DEF NamingInv
  <1> QED
    BY <1>1, NamingInvariance, PTL

(* For any number of slots and identities and any embeddings: two that     *)
(* talk for long in one chunk are reported under one identity only when    *)
(* all identities are taken (get_next_center, permute_segmentation).       *)
THEOREM SpeakersApart == Spec => []LongSpeakersApart
  <1>1. NamingInv => LongSpeakersApart
    BY DEF NamingInv
  <1> QED
    BY <1>1, NamingInvariance, PTL

(* For any number of slots and identities and any embeddings: once an      *)
(* identity exists nobody with a usable embedding stays without one, and   *)
(* in the first chunk only one too many does (identify).                   *)
THEOREM AlwaysNamed == Spec => OnceKnownAlwaysNamed
  <1> DEFINE A == \A s \in Named' :
                    mapping'[s] = None =>
                        /\ active_centers = {}
                        /\ speech'[s] = "long" \/ ~initialised => active_centers' = Global
  <1>1. NamingInv /\ [Next]_vars => [A]_vars
    <2> SUFFICES ASSUME NamingInv, [Next]_vars PROVE A \/ UNCHANGED vars
      OBVIOUS
    <2>1. TypeOK /\ StartInv
      BY DEF NamingInv
    <2>2. CASE ChunkDone
      <3> SUFFICES ASSUME NEW s \in Named', mapping'[s] = None
                   PROVE  /\ active_centers = {}
                          /\ speech'[s] = "long" \/ ~initialised => active_centers' = Global
        OBVIOUS
      <3>1. speech'[s] = "long" => s \in Long(speech', Named')
        BY DEF Long
      <3> QED
        BY <2>1, <2>2, <3>1, DoneFacts
    <2> QED
      BY <2>1, <2>2, StepCases
  <1> QED
    BY <1>1, NamingInvariance, PTL DEF Spec, OnceKnownAlwaysNamed

(* ClusterInv is an invariant when delta_new is not negative, as its       *)
(* default is not: a negative one leaves a speaker out of reach of the     *)
(* centre that the speaker's own voice has just founded.                   *)
THEOREM ClusterInvariance ==
  ASSUME DeltaNew >= 0
  PROVE  Spec => []ClusterInv
  <1>1. Init => ClusterInv
    BY InitStep DEF ClusterInv
  <1>2. ClusterInv /\ [Next]_vars => ClusterInv'
    <2> SUFFICES ASSUME ClusterInv, [Next]_vars PROVE ClusterInv'
      OBVIOUS
    <2>1. NamingInv'
      BY NamingStep DEF ClusterInv, NamingInv
    <2>2. SoloInv'
      <3>1. CASE ChunkDone
        BY <3>1, SoloStep DEF ClusterInv
      <3>2. CASE UNCHANGED vars
        BY <3>2, IdleStep DEF ClusterInv
      <3> QED
        BY <3>1, <3>2, StepCases DEF ClusterInv
    <2> QED
      BY <2>1, <2>2 DEF ClusterInv, NamingInv
  <1> QED
    BY <1>1, <1>2, PTL DEF Spec

(* Somebody alone and long twice in a row with one voice keeps his         *)
(* identity: the centre it moved is still the nearest one to him, by more  *)
(* than before (identify's update of the centres).                         *)
THEOREM SoloStays ==
  ASSUME DeltaNew >= 0
  PROVE  Spec => SoloKeepsIdentity
  <1> DEFINE A == \A s, u \in Local :
                    /\ Alone(s) /\ Alone(u)'
                    /\ embeddings[s] = embeddings'[u]
                    => mapping'[u] = mapping[s]
  <1>1. ClusterInv /\ [Next]_vars => [A]_vars
    <2> SUFFICES ASSUME ClusterInv, [Next]_vars PROVE A \/ UNCHANGED vars
      OBVIOUS
    <2>1. TypeOK /\ StartInv /\ SoloInv
      BY DEF ClusterInv
    <2>2. CASE ChunkDone
      <3> SUFFICES ASSUME NEW s \in Local, NEW u \in Local, Alone(s), Alone(u)',
                          embeddings[s] = embeddings'[u]
                   PROVE  mapping'[u] = mapping[s]
        OBVIOUS
      <3> DEFINE e == embeddings'[u]
                 g == mapping[s]
                 h == mapping'[u]
      <3>1. /\ g \in active_centers
            /\ \A d \in active_centers \ {g} : Distance(e, centers[g]) < Distance(e, centers[d])
            /\ Distance(e, centers[g]) <= DeltaNew \/ active_centers = Global
        BY <2>1 DEF SoloInv
      <3>2. e \in Embeddings /\ Settled(e, h)
        BY <2>1, <2>2, AloneFacts
      <3> HIDE DEF e, g, h
      <3>3. \A d \in active_centers : Distance(e, centers[d]) \in Int
        <4> SUFFICES ASSUME NEW d \in active_centers PROVE Distance(e, centers[d]) \in Int
          OBVIOUS
        <4>1. e \in Vector /\ centers[d] \in Vector
          BY <2>1, <3>2, UnitFacts DEF TypeOK, Vector
        <4> QED
          BY <4>1, VectorFacts
      <3> HIDE DEF Distance
      <3>4. DeltaNew \in Int
        BY VectorsAssumption
      <3>5. CASE h \in active_centers
        <4>1. Distance(e, centers[h]) <= Distance(e, centers[g])
          BY <3>1, <3>2, <3>5 DEF Settled
        <4>2. ~(Distance(e, centers[g]) < Distance(e, centers[h]))
          BY <4>1, <3>1, <3>3, <3>5
        <4>3. h = g
          BY <4>2, <3>1, <3>5
        <4> QED
          BY <4>3 DEF h, g
      <3>6. CASE h \notin active_centers
        <4>1. h \in Global \ active_centers /\ Distance(e, centers[g]) > DeltaNew
          BY <3>1, <3>2, <3>6 DEF Settled
        <4> QED
          BY <4>1, <3>1, <3>3, <3>4
      <3> QED
        BY <3>5, <3>6
    <2> QED
      BY <2>1, <2>2, StepCases
  <1> QED
    BY <1>1, ClusterInvariance, PTL DEF Spec, SoloKeepsIdentity
=============================================================================
