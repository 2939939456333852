----------------------------- MODULE Rendezvous -----------------------------
(***************************************************************************)
(* What a barrier promises: threads arrive one by one, and once all of     *)
(* them have arrived they are let go together, in one step.                *)
(***************************************************************************)
CONSTANT Threads
VARIABLE waiting       \* the threads that arrived and were not let go yet

Init == waiting = {}

Arrive(t) == t \notin waiting /\ waiting' = waiting \union {t}

LetGo == waiting = Threads /\ waiting' = {}

Next == LetGo \/ \E t \in Threads : Arrive(t)

Spec == Init /\ [][Next]_waiting
=============================================================================
