------------------------------ MODULE Intervals ------------------------------
(***************************************************************************)
(* What a memory allocator promises: what it hands out has no address in   *)
(* common with anything handed out and not yet given back, and stays where *)
(* it is; a holder may give back the end of its range first.               *)
(***************************************************************************)
EXTENDS Integers

CONSTANTS Tensors, None

VARIABLE live   \* live[t]: the range that t occupies, or None

Extent == [chunk : Nat \ {0}, offset : Nat, size : Nat]

Apart(a, b) ==
    \/ a.chunk # b.chunk
    \/ a.size = 0 \/ b.size = 0
    \/ a.offset + a.size <= b.offset
    \/ b.offset + b.size <= a.offset

Init == live = [t \in Tensors |-> None]

OthersKept(t) == live' = [live EXCEPT ![t] = live'[t]]

Acquire(t) ==
    /\ live[t] = None
    /\ live'[t] \in Extent
    /\ OthersKept(t)
    /\ \A u \in Tensors : live[u] = None \/ Apart(live'[t], live[u])

Trim(t) ==
    /\ live[t] # None
    /\ \E size \in 0 .. live[t].size : live' = [live EXCEPT ![t].size = size]

Release(t) == live' = [live EXCEPT ![t] = None]

Reset == live' = [t \in Tensors |-> None]

Next == Reset \/ \E t \in Tensors : Acquire(t) \/ Trim(t) \/ Release(t)

Spec == Init /\ [][Next]_live
=============================================================================
