--------------------------------- MODULE Ahc ---------------------------------
(***************************************************************************)
(* The two agglomerative clusterings of the batch program, one merge after *)
(* the other: agglomerative_clustering (src/examples/main.cpp), with a     *)
(* list of clusters and average linkage, and simple_ahc                    *)
(* (src/examples/vbx.cpp), with centroids, a matrix of distances that is   *)
(* kept up to date, and a forest of parents.                               *)
(*                                                                         *)
(* Embeddings are unit vectors, here integer points of a sphere in space.  *)
(* Distances are only compared, so they are squared and left as fractions  *)
(* <<numerator, denominator>>: 1 - dot is half a squared distance of unit  *)
(* vectors, and the square root does not change an order.                  *)
(***************************************************************************)
EXTENDS Integers, Sequences, SequencesExt, FiniteSetsExt

CONSTANT Radius2        \* the square of the sphere's radius

Plus(v, w) == [x \in DOMAIN v |-> v[x] + w[x]]
Minus(v, w) == [x \in DOMAIN v |-> v[x] - w[x]]
Times(a, v) == [x \in DOMAIN v |-> a * v[x]]
Squared(v) == v[1] * v[1] + v[2] * v[2] + v[3] * v[3]

Less(x, y) == x[1] * y[2] < y[1] * x[2]

(* Both programs merge up to 0.6: a cosine distance of unit vectors in the *)
(* first, a Euclidean distance in the second.                              *)
AverageThreshold == <<2 * 3 * Radius2, 5>>
CentroidThreshold == <<9 * Radius2, 25>>

(* The first pair i < j of the indices S, row by row, at the least of the  *)
(* distances d.                                                            *)
BestPair(S, d(_, _)) ==
    LET pairs == {p \in S \X S : p[1] < p[2]}
        before(p, q) == p[1] < q[1] \/ (p[1] = q[1] /\ p[2] < q[2])
    IN  CHOOSE p \in pairs : \A q \in pairs \ {p} :
            \/ Less(d(p[1], p[2]), d(q[1], q[2]))
            \/ ~Less(d(q[1], q[2]), d(p[1], p[2])) /\ before(p, q)

(* labels[i]: how many values appear in f before the first f[i]. *)
ByFirstAppearance(f) ==
    [i \in DOMAIN f |->
        LET first == Min({j \in DOMAIN f : f[j] = f[i]})
        IN  Cardinality({f[j] : j \in 1 .. first - 1})]

-----------------------------------------------------------------------------
(* agglomerative_clustering: a cluster is the list of its members.         *)

Singletons(points) == [i \in DOMAIN points |-> <<i>>]

AverageLinkage(points, c1, c2) ==
    <<FoldLeft(LAMBDA sum, i : sum + FoldLeft(LAMBDA s, j : s + Squared(Minus(points[i], points[j])),
                                              0, c2), 0, c1),
      Len(c1) * Len(c2)>>

BestAverage(points, clusters) ==
    BestPair(DOMAIN clusters, LAMBDA i, j : AverageLinkage(points, clusters[i], clusters[j]))

AverageMayMerge(points, clusters) ==
    /\ Len(clusters) > 1
    /\ LET p == BestAverage(points, clusters)
       IN  ~Less(AverageThreshold, AverageLinkage(points, clusters[p[1]], clusters[p[2]]))

AverageMerged(points, clusters) ==
    LET p == BestAverage(points, clusters)
    IN  RemoveAt([clusters EXCEPT ![p[1]] = @ \o clusters[p[2]]], p[2])

AverageLabels(points, clusters) ==
    [i \in DOMAIN points |-> (CHOOSE k \in DOMAIN clusters : Contains(clusters[k], i)) - 1]

-----------------------------------------------------------------------------
(* simple_ahc: a centroid is kept as the sum of its members.               *)

CentroidDistance(sum1, size1, sum2, size2) ==
    <<Squared(Minus(Times(size2, sum1), Times(size1, sum2))), size1 * size2 * size1 * size2>>

SingleTrees(points) ==
    [active |-> DOMAIN points,
     parent |-> [i \in DOMAIN points |-> i],
     size |-> [i \in DOMAIN points |-> 1],
     sum |-> points,
     dist |-> [p \in {q \in (DOMAIN points) \X (DOMAIN points) : q[1] < q[2]} |->
                  CentroidDistance(points[p[1]], 1, points[p[2]], 1)]]

BestCentroid(forest) == BestPair(forest.active, LAMBDA i, j : forest.dist[<<i, j>>])

CentroidMayMerge(forest) ==
    /\ Cardinality(forest.active) > 1
    /\ ~Less(CentroidThreshold, forest.dist[BestCentroid(forest)])

(* The bug of keeping the distances of the clusters before the merge. *)
CentroidMergedStale(forest) ==
    LET i == BestCentroid(forest)[1]
        j == BestCentroid(forest)[2]
    IN  [forest EXCEPT !.active = @ \ {j}, !.parent[j] = i,
                       !.size[i] = @ + forest.size[j],
                       !.sum[i] = Plus(@, forest.sum[j])]

(* Merge the second cluster of the best pair into the first, and compute   *)
(* the distances of the first to all that are left.                        *)
CentroidMerged(forest) ==
    LET i == BestCentroid(forest)[1]
        j == BestCentroid(forest)[2]
        sum == [forest.sum EXCEPT ![i] = Plus(@, forest.sum[j])]
        size == [forest.size EXCEPT ![i] = @ + forest.size[j]]
        active == forest.active \ {j}
    IN  [active |-> active,
         parent |-> [forest.parent EXCEPT ![j] = i],
         size |-> size, sum |-> sum,
         dist |-> [p \in DOMAIN forest.dist |->
                      IF i \in {p[1], p[2]} /\ {p[1], p[2]} \subseteq active
                      THEN CentroidDistance(sum[p[1]], size[p[1]], sum[p[2]], size[p[2]])
                      ELSE forest.dist[p]]]

RootOf(forest) ==
    LET root[i \in DOMAIN forest.parent] ==
            IF forest.parent[i] = i THEN i ELSE root[forest.parent[i]]
    IN  root

CentroidLabels(forest) == ByFirstAppearance(RootOf(forest))
=============================================================================
