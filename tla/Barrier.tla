------------------------------ MODULE Barrier ------------------------------
(***************************************************************************)
(* ggml_barrier (src/src/ggml-cpu/ggml-cpu.c), the spin barrier that the   *)
(* threads of one graph computation meet at: between two nodes, inside an  *)
(* operator that has two phases, and at the end of the graph.              *)
(*                                                                         *)
(* One action per access to an atomic of struct ggml_threadpool.  The      *)
(* module has no Next of its own: BarrierLoop closes it with threads that  *)
(* do nothing else, Threadpool embeds it in the worker's control flow.     *)
(***************************************************************************)
EXTENDS Naturals

VARIABLES
    n_barrier,          \* threads that arrived at the current barrier
    n_barrier_passed,   \* barriers completed since the pool was created
    bpc,                \* bpc[t]: where thread t is inside ggml_barrier
    n_passed            \* n_passed[t]: thread t's snapshot of n_barrier_passed

barrierVars == <<n_barrier, n_barrier_passed, bpc, n_passed>>

BarrierPC == {"out", "add", "reset", "release", "spin"}

BarrierInit(Threads) ==
    /\ n_barrier = 0
    /\ n_barrier_passed = 0
    /\ bpc = [t \in Threads |-> "out"]
    /\ n_passed = [t \in Threads |-> 0]

-----------------------------------------------------------------------------
(* A team of one returns at once, before it touches any counter. *)
BarrierAlone(t, n) ==
    /\ bpc[t] = "out"
    /\ n = 1
    /\ UNCHANGED barrierVars

(* int n_passed = atomic_load(&tp->n_barrier_passed) *)
BarrierLoad(t, n) ==
    /\ bpc[t] = "out"
    /\ n # 1
    /\ n_passed' = [n_passed EXCEPT ![t] = n_barrier_passed]
    /\ bpc' = [bpc EXCEPT ![t] = "add"]
    /\ UNCHANGED <<n_barrier, n_barrier_passed>>

(* A bug that counts the last thread one too early. *)
BarrierAddOffByOne(t, n) ==
    /\ bpc[t] = "add"
    /\ n_barrier' = n_barrier + 1
    /\ bpc' = [bpc EXCEPT ![t] = IF n_barrier + 1 = n - 1 THEN "reset" ELSE "spin"]
    /\ UNCHANGED <<n_barrier_passed, n_passed>>

(* atomic_fetch_add(&tp->n_barrier, 1): whoever completes the team releases it *)
BarrierAdd(t, n) ==
    /\ bpc[t] = "add"
    /\ n_barrier' = n_barrier + 1
    /\ bpc' = [bpc EXCEPT ![t] = IF n_barrier = n - 1 THEN "reset" ELSE "spin"]
    /\ UNCHANGED <<n_barrier_passed, n_passed>>

(* The bug of leaving the count of the last barrier in place. *)
BarrierResetForgotten(t) ==
    /\ bpc[t] = "reset"
    /\ bpc' = [bpc EXCEPT ![t] = "release"]
    /\ UNCHANGED <<n_barrier, n_barrier_passed, n_passed>>

(* atomic_store(&tp->n_barrier, 0), while every other thread still spins *)
BarrierReset(t) ==
    /\ bpc[t] = "reset"
    /\ n_barrier' = 0
    /\ bpc' = [bpc EXCEPT ![t] = "release"]
    /\ UNCHANGED <<n_barrier_passed, n_passed>>

(* atomic_fetch_add(&tp->n_barrier_passed, 1) opens the barrier *)
BarrierRelease(t) ==
    /\ bpc[t] = "release"
    /\ n_barrier_passed' = n_barrier_passed + 1
    /\ bpc' = [bpc EXCEPT ![t] = "out"]
    /\ UNCHANGED <<n_barrier, n_passed>>

(* The bug of waiting for the count to return to zero, which a fast thread *)
(* at the next barrier undoes before a slow one looks.                     *)
BarrierSpinOnCount(t) ==
    /\ bpc[t] = "spin"
    /\ n_barrier = 0
    /\ bpc' = [bpc EXCEPT ![t] = "out"]
    /\ UNCHANGED <<n_barrier, n_barrier_passed, n_passed>>

(* The spin loop ends when n_barrier_passed differs from the snapshot. *)
BarrierSpin(t) ==
    /\ bpc[t] = "spin"
    /\ n_barrier_passed # n_passed[t]
    /\ bpc' = [bpc EXCEPT ![t] = "out"]
    /\ UNCHANGED <<n_barrier, n_barrier_passed, n_passed>>
=============================================================================
