------------------------------ MODULE ForkJoin ------------------------------
(***************************************************************************)
(* What ggml_graph_compute promises its caller, whatever the threads do in *)
(* between: the graph's nodes are computed in order, every piece of a node *)
(* exactly once and only after every earlier node is complete; the call    *)
(* returns with all nodes computed, or aborted at a node boundary.         *)
(***************************************************************************)
EXTENDS Naturals, Sequences, Bags

CONSTANT
    Pieces(_, _)   \* Pieces(node, team): the shares that a team splits a node into

VARIABLES
    graph,     \* the graph of the current or the last call, a sequence of nodes
    team,      \* the number of threads that compute it
    work,      \* bag of the pieces <<node index, share>> computed in that call
    status     \* "running", or what the call returned

vars == <<graph, team, work, status>>

NodePieces(k) == {k} \X Pieces(graph[k + 1], team)

UpTo(k) == UNION {NodePieces(j) : j \in 0 .. k - 1}

Init ==
    /\ graph = << >>
    /\ team = 0
    /\ work = EmptyBag
    /\ status = "success"

Call ==
    /\ status # "running"
    /\ status' = "running"
    /\ work' = EmptyBag

Compute(k, p) ==
    /\ status = "running"
    /\ ~BagIn(p, work)
    /\ UpTo(k) \subseteq BagToSet(work)
    /\ work' = work (+) SetToBag({p})
    /\ UNCHANGED <<graph, team, status>>

Return ==
    /\ status = "running"
    /\ \/ BagToSet(work) = UpTo(Len(graph)) /\ status' = "success"
       \/ /\ \E k \in 1 .. Len(graph) : BagToSet(work) = UpTo(k)
          /\ status' = "aborted"
    /\ UNCHANGED <<graph, team, work>>

Next ==
    \/ Call \/ Return
    \/ \E k \in 0 .. Len(graph) - 1 : \E p \in NodePieces(k) : Compute(k, p)

Spec == Init /\ [][Next]_vars
=============================================================================
