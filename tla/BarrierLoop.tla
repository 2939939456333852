---------------------------- MODULE BarrierLoop ----------------------------
(***************************************************************************)
(* A team of N threads that meet at ggml_barrier again and again, as the   *)
(* threads of one graph do between its nodes.  crossed counts the barriers *)
(* each thread has left; it is what the claim "nobody runs ahead" is about *)
(* and the code does not keep it.                                          *)
(***************************************************************************)
EXTENDS Barrier, FiniteSets

CONSTANTS
    N,            \* threads in the team, n_graph & GGML_THREADPOOL_N_THREADS_MASK
    MaxRounds     \* bound: barriers a thread takes part in

ASSUME NAssumption == N \in Nat /\ N >= 2
ASSUME MaxRoundsAssumption == MaxRounds \in Nat

VARIABLE crossed  \* crossed[t]: barriers thread t has passed

vars == <<n_barrier, n_barrier_passed, bpc, n_passed, crossed>>

Threads == 0 .. N - 1

Init ==
    /\ BarrierInit(Threads)
    /\ crossed = [t \in Threads |-> 0]

Enter(t) ==
    /\ crossed[t] < MaxRounds
    /\ BarrierLoad(t, N)
    /\ UNCHANGED crossed

Arrive(t) == BarrierAdd(t, N) /\ UNCHANGED crossed

Clear(t) == BarrierReset(t) /\ UNCHANGED crossed

Leave(t) ==
    /\ BarrierRelease(t) \/ BarrierSpin(t)
    /\ crossed' = [crossed EXCEPT ![t] = @ + 1]

Step(t) == Enter(t) \/ Arrive(t) \/ Clear(t) \/ Leave(t)

Finished == (\A t \in Threads : crossed[t] = MaxRounds /\ bpc[t] = "out") /\ UNCHANGED vars

Next == Finished \/ \E t \in Threads : Step(t)

Spec == Init /\ [][Next]_vars

(* The operating system runs every thread of the team: each is weakly fair. *)
FairSpec == Spec /\ \A t \in Threads : WF_vars(Step(t))
-----------------------------------------------------------------------------
TypeOK ==
    /\ n_barrier \in Nat
    /\ n_barrier_passed \in Nat
    /\ bpc \in [Threads -> BarrierPC]
    /\ n_passed \in [Threads -> Nat]
    /\ crossed \in [Threads -> Nat]

(* Threads that were counted in n_barrier for the barrier now closing. *)
Arrived ==
    {t \in Threads : \/ bpc[t] \in {"reset", "release"}
                     \/ bpc[t] = "spin" /\ n_passed[t] = n_barrier_passed}

(* Nobody leaves the barrier (ggml_barrier returns) a k-th time before     *)
(* every thread of the team has entered it k times.                        *)
NobodyEarly ==
    \A t, u \in Threads :
        crossed[t] <= crossed[u] + (IF bpc[u] = "out" THEN 0 ELSE 1)

(* The strengthening of NobodyEarly that the steps of ggml_barrier         *)
(* preserve: who is where relative to n_barrier_passed, and what n_barrier *)
(* counts.                                                                 *)
Positions ==
    \A t \in Threads :
        \/ /\ bpc[t] = "out"
           /\ crossed[t] = n_barrier_passed
        \/ /\ bpc[t] # "out"
           /\ crossed[t] = n_passed[t]
           /\ \/ n_passed[t] = n_barrier_passed
              \/ bpc[t] = "spin" /\ n_passed[t] + 1 = n_barrier_passed

Counted ==
    \/ /\ \A t \in Threads : bpc[t] \notin {"reset", "release"}
       /\ n_barrier = Cardinality(Arrived)
       /\ Arrived # Threads
    \/ \E t \in Threads :
         /\ Arrived = Threads
         /\ \A u \in Threads \ {t} : bpc[u] = "spin"
         /\ \/ bpc[t] = "reset"
            \/ bpc[t] = "release" /\ n_barrier = 0

(* Inductive: who may be where in ggml_barrier, and what its counters hold. *)
IInv == TypeOK /\ Positions /\ Counted

(* ggml_barrier is a rendezvous: a thread arrives with its fetch_add, and  *)
(* the increment of n_barrier_passed lets the whole team go at once, even  *)
(* though the spinning threads notice one by one.                          *)
R == INSTANCE Rendezvous WITH waiting <- Arrived
RendezvousSpec == R!Spec

(* Every thread gets through every barrier: the spin loop of ggml_barrier  *)
(* ends although a fast thread may be back at the next barrier before a    *)
(* slow one has noticed that this one opened.                              *)
AllCross == <>(\A t \in Threads : crossed[t] = MaxRounds /\ bpc[t] = "out")
=============================================================================
