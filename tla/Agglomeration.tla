---------------------------- MODULE Agglomeration ----------------------------
(***************************************************************************)
(* Agglomerative clustering by definition: each point is a cluster of its  *)
(* own, and two clusters at the least distance of all are merged as long   *)
(* as that distance does not exceed a threshold.  The distance is taken    *)
(* from the points themselves at every step: the mean of the distances     *)
(* between two clusters, or the distance between their centroids.          *)
(*                                                                         *)
(* Distances are squares, written as fractions <<numerator, denominator>>. *)
(***************************************************************************)
EXTENDS Integers, Sequences, FiniteSets, FiniteSetsExt

CONSTANT Limit(_)       \* the threshold of a linkage

VARIABLES linkage, points, clusters, finished

vars == <<linkage, points, clusters, finished>>

Axes == 1 .. 3
Square(x) == x * x
SumOver(S, x) == MapThenSumSet(LAMBDA i : points[i][x], S)

Mean(a, b) ==
    <<MapThenSumSet(LAMBDA p : MapThenSumSet(LAMBDA x : Square(points[p[1]][x] - points[p[2]][x]), Axes),
                    a \X b),
      Cardinality(a) * Cardinality(b)>>

BetweenCentroids(a, b) ==
    <<MapThenSumSet(LAMBDA x : Square(Cardinality(b) * SumOver(a, x) - Cardinality(a) * SumOver(b, x)),
                    Axes),
      Square(Cardinality(a) * Cardinality(b))>>

Distance(a, b) == IF linkage = "average" THEN Mean(a, b) ELSE BetweenCentroids(a, b)

LessEq(x, y) == x[1] * y[2] <= y[1] * x[2]

Close(a, b) == LessEq(Distance(a, b), Limit(linkage))

Pairs == {p \in clusters \X clusters : p[1] # p[2]}

Init == points = <<>> /\ clusters = {} /\ finished = FALSE

(* New points, none of them in a cluster with another. *)
Add ==
    /\ clusters = {{i} : i \in DOMAIN points}
    /\ Len(points') >= Len(points)
    /\ SubSeq(points', 1, Len(points)) = points
    /\ clusters' = {{i} : i \in DOMAIN points'}
    /\ UNCHANGED <<linkage, finished>>

Merge ==
    /\ ~finished
    /\ \E p \in Pairs :
          /\ Close(p[1], p[2])
          /\ \A q \in Pairs : LessEq(Distance(p[1], p[2]), Distance(q[1], q[2]))
          /\ clusters' = (clusters \ {p[1], p[2]}) \union {p[1] \union p[2]}
    /\ UNCHANGED <<linkage, points, finished>>

Finish ==
    /\ \A p \in Pairs : ~Close(p[1], p[2])
    /\ finished' = TRUE
    /\ UNCHANGED <<linkage, points, clusters>>

Next == Add \/ Merge \/ Finish

Spec == Init /\ [][Next]_vars
=============================================================================
