---------------------------- MODULE BarrierProofs ----------------------------
(***************************************************************************)
(* ggml_barrier for a team of any size: the inductive invariant of         *)
(* BarrierLoop, that nobody runs ahead, and that the spin barrier          *)
(* implements the one-step rendezvous.                                     *)
(***************************************************************************)
EXTENDS BarrierLoop, FiniteSetTheorems, TLAPS

(* The team is finite and has N threads. *)
LEMMA TeamSize == IsFiniteSet(Threads) /\ Cardinality(Threads) = N
  <1>1. N - 1 - 0 + 1 = N /\ 0 \in Int /\ N - 1 \in Int
    BY NAssumption
  <1> QED
    BY <1>1, FS_Interval, NAssumption DEF Threads

(* One more thread completes the team exactly when n_barrier, the number   *)
(* that arrived before it, is N - 1: the test that ggml_barrier makes.     *)
LEMMA LastOne ==
  ASSUME NEW A, NEW t \in Threads, A \subseteq Threads, t \notin A
  PROVE  /\ IsFiniteSet(A)
         /\ Cardinality(A) \in Nat
         /\ Cardinality(A \union {t}) = Cardinality(A) + 1
         /\ A \union {t} = Threads <=> Cardinality(A) = N - 1
  <1>1. IsFiniteSet(A) /\ Cardinality(A) \in Nat
    BY TeamSize, FS_Subset, FS_CardinalityType
  <1>2. Cardinality(A \union {t}) = Cardinality(A) + 1
    BY <1>1, FS_AddElement
  <1>3. A \union {t} \subseteq Threads
    OBVIOUS
  <1>4. ASSUME Cardinality(A) = N - 1
        PROVE  A \union {t} = Threads
    <2>1. Cardinality(A \union {t}) = Cardinality(Threads)
      BY <1>2, <1>4, TeamSize, NAssumption
    <2> QED
      BY <1>3, <2>1, TeamSize, FS_Subset
  <1>5. ASSUME A \union {t} = Threads
        PROVE  Cardinality(A) = N - 1
    <2>1. Cardinality(A) + 1 = N
      BY <1>2, <1>5, TeamSize
    <2> QED
      BY <1>1, <2>1, NAssumption
  <1> QED
    BY <1>1, <1>2, <1>4, <1>5

(* Nobody has arrived when the team is about to start. *)
LEMMA InitIInv == Init => IInv
  <1> SUFFICES ASSUME Init PROVE IInv
    OBVIOUS
  <1>1. TypeOK
    BY DEF Init, BarrierInit, TypeOK, BarrierPC
  <1>2. Positions
    BY DEF Init, BarrierInit, Positions
  <1>3. Counted
    <2>1. Arrived = {} /\ \A t \in Threads : bpc[t] \notin {"reset", "release"}
      BY DEF Init, BarrierInit, Arrived
    <2>2. Arrived # Threads
      <3>1. 0 \in Threads
        BY NAssumption DEF Threads
      <3> QED
        BY <2>1, <3>1
    <2> QED
      BY <2>1, <2>2, FS_EmptySet DEF Counted, Init, BarrierInit
  <1> QED
    BY <1>1, <1>2, <1>3 DEF IInv
-----------------------------------------------------------------------------
(* What each access of ggml_barrier does to the set of threads that have   *)
(* arrived: only the fetch_add extends it, only the release empties it.    *)
LEMMA EnterArrived ==
  ASSUME IInv, NEW t \in Threads, Enter(t)
  PROVE  Arrived' = Arrived
  BY DEF IInv, TypeOK, Enter, BarrierLoad, Arrived

(* The fetch_add on n_barrier counts its thread. *)
LEMMA ArriveArrived ==
  ASSUME IInv, NEW t \in Threads, Arrive(t)
  PROVE  t \notin Arrived /\ Arrived' = Arrived \union {t}
  <1>1. bpc[t] = "add" /\ n_passed[t] = n_barrier_passed
    BY DEF IInv, Positions, Arrive, BarrierAdd
  <1>2. t \notin Arrived
    BY <1>1 DEF Arrived
  <1>3. bpc'[t] \in {"reset", "spin"} /\ \A u \in Threads \ {t} : bpc'[u] = bpc[u]
    BY DEF IInv, TypeOK, Arrive, BarrierAdd
  <1>4. UNCHANGED <<n_passed, n_barrier_passed>>
    BY DEF Arrive, BarrierAdd
  <1> QED
    BY <1>1, <1>2, <1>3, <1>4 DEF Arrived

(* The reset of n_barrier leaves the arrived threads where they are. *)
LEMMA ClearArrived ==
  ASSUME IInv, NEW t \in Threads, Clear(t)
  PROVE  Arrived' = Arrived
  BY DEF IInv, TypeOK, Clear, BarrierReset, Arrived

(* The thread that releases is the last one: the others all spin. *)
LEMMA ReleaseArrived ==
  ASSUME IInv, NEW t \in Threads, BarrierRelease(t)
  PROVE  /\ Arrived = Threads
         /\ Arrived' = {}
         /\ n_barrier = 0
         /\ \A u \in Threads \ {t} : bpc[u] = "spin"
  <1>1. bpc[t] = "release"
    BY DEF BarrierRelease
  <1>2. PICK w \in Threads :
          /\ Arrived = Threads
          /\ \A u \in Threads \ {w} : bpc[u] = "spin"
          /\ bpc[w] = "reset" \/ (bpc[w] = "release" /\ n_barrier = 0)
    BY <1>1 DEF IInv, Counted
  <1>3. w = t
    BY <1>1, <1>2
  <1>4. \A u \in Threads \ {t} : bpc[u] = "spin" /\ n_passed[u] = n_barrier_passed
    BY <1>2, <1>3 DEF Arrived
  <1>5. /\ bpc'[t] = "out"
        /\ \A u \in Threads \ {t} : bpc'[u] = "spin" /\ n_passed'[u] # n_barrier_passed'
    BY <1>4 DEF IInv, TypeOK, BarrierRelease
  <1>6. Arrived' = {}
    BY <1>5 DEF Arrived
  <1> QED
    BY <1>1, <1>2, <1>3, <1>4, <1>6

(* A thread leaves its spin loop after the barrier it waited for opened. *)
LEMMA SpinArrived ==
  ASSUME IInv, NEW t \in Threads, BarrierSpin(t)
  PROVE  /\ Arrived' = Arrived
         /\ t \notin Arrived
         /\ n_passed[t] + 1 = n_barrier_passed
  BY DEF IInv, TypeOK, Positions, BarrierSpin, Arrived
-----------------------------------------------------------------------------
(* Every access of ggml_barrier preserves the inductive invariant. *)
LEMMA StepIInv == IInv /\ [Next]_vars => IInv'
  <1> SUFFICES ASSUME IInv, [Next]_vars PROVE IInv'
    OBVIOUS
  <1> USE DEF IInv
  <1>1. ASSUME NEW t \in Threads, Enter(t)
        PROVE  IInv'
    <2>1. TypeOK'
      BY <1>1 DEF TypeOK, BarrierPC, Enter, BarrierLoad
    <2>2. Positions'
      BY <1>1 DEF TypeOK, Positions, Enter, BarrierLoad
    <2>3. Counted'
      <3>1. bpc[t] = "out" /\ t \notin Arrived
        BY <1>1 DEF Enter, BarrierLoad, Arrived
      <3>2. /\ \A u \in Threads : bpc[u] \notin {"reset", "release"}
            /\ n_barrier = Cardinality(Arrived)
            /\ Arrived # Threads
        BY <3>1 DEF Counted
      <3>3. /\ \A u \in Threads : bpc'[u] \notin {"reset", "release"}
            /\ n_barrier' = n_barrier
        BY <1>1, <3>2 DEF TypeOK, Enter, BarrierLoad
      <3> QED
        BY <1>1, <3>2, <3>3, EnterArrived DEF Counted
    <2> QED
      BY <2>1, <2>2, <2>3
  <1>2. ASSUME NEW t \in Threads, Arrive(t)
        PROVE  IInv'
    <2>1. TypeOK'
      BY <1>2 DEF TypeOK, BarrierPC, Arrive, BarrierAdd
    <2>2. Positions'
      BY <1>2 DEF TypeOK, Positions, Arrive, BarrierAdd
    <2>3. Counted'
      <3>1. bpc[t] = "add" /\ t \notin Arrived /\ Arrived' = Arrived \union {t}
        BY <1>2, ArriveArrived DEF Arrive, BarrierAdd
      <3>2. /\ \A u \in Threads : bpc[u] \notin {"reset", "release"}
            /\ n_barrier = Cardinality(Arrived)
        BY <3>1 DEF Counted
      <3>3. Arrived \subseteq Threads
        BY DEF Arrived
      <3>4. \A u \in Threads \ {t} : bpc'[u] = bpc[u]
        BY <1>2 DEF TypeOK, Arrive, BarrierAdd
      <3>5. n_barrier' = n_barrier + 1
        BY <1>2 DEF Arrive, BarrierAdd
      <3>6. CASE n_barrier = N - 1
        <4>1. Arrived' = Threads
          BY <3>1, <3>2, <3>3, <3>6, LastOne
        <4>2. \A u \in Threads \ {t} : bpc[u] = "spin"
          BY <3>1, <3>2, <4>1 DEF Arrived
        <4>3. bpc'[t] = "reset"
          BY <1>2, <3>6 DEF TypeOK, Arrive, BarrierAdd
        <4> QED
          BY <3>4, <4>1, <4>2, <4>3 DEF Counted
      <3>7. CASE n_barrier # N - 1
        <4>1. Arrived' # Threads /\ n_barrier' = Cardinality(Arrived')
          BY <3>1, <3>2, <3>3, <3>5, <3>7, LastOne
        <4>2. \A u \in Threads : bpc'[u] \notin {"reset", "release"}
          BY <1>2, <3>2, <3>4, <3>7 DEF TypeOK, Arrive, BarrierAdd
        <4> QED
          BY <4>1, <4>2 DEF Counted
      <3> QED
        BY <3>6, <3>7
    <2> QED
      BY <2>1, <2>2, <2>3
  <1>3. ASSUME NEW t \in Threads, Clear(t)
        PROVE  IInv'
    <2>1. TypeOK'
      BY <1>3 DEF TypeOK, BarrierPC, Clear, BarrierReset
    <2>2. Positions'
      BY <1>3 DEF TypeOK, Positions, Clear, BarrierReset
    <2>3. Counted'
      <3>1. /\ Arrived = Threads
            /\ \A u \in Threads \ {t} : bpc[u] = "spin"
        BY <1>3 DEF Counted, Clear, BarrierReset
      <3>2. /\ \A u \in Threads \ {t} : bpc'[u] = "spin"
            /\ bpc'[t] = "release"
            /\ n_barrier' = 0
        BY <1>3, <3>1 DEF TypeOK, Clear, BarrierReset
      <3> QED
        BY <1>3, <3>1, <3>2, ClearArrived DEF Counted
    <2> QED
      BY <2>1, <2>2, <2>3
  <1>4. ASSUME NEW t \in Threads, Leave(t), BarrierRelease(t)
        PROVE  IInv'
    <2>1. TypeOK'
      BY <1>4 DEF TypeOK, BarrierPC, Leave, BarrierRelease
    <2>2. Positions'
      <3>1. \A u \in Threads \ {t} : bpc[u] = "spin" /\ n_passed[u] = n_barrier_passed
        BY <1>4, ReleaseArrived DEF Arrived
      <3>2. crossed[t] = n_barrier_passed
        BY <1>4 DEF Positions, BarrierRelease
      <3> QED
        BY <1>4, <3>1, <3>2 DEF TypeOK, Positions, Leave, BarrierRelease
    <2>3. Counted'
      <3>1. Arrived' = {} /\ n_barrier = 0 /\ \A u \in Threads \ {t} : bpc[u] = "spin"
        BY <1>4, ReleaseArrived
      <3>2. /\ \A u \in Threads : bpc'[u] \notin {"reset", "release"}
            /\ n_barrier' = 0
        BY <1>4, <3>1 DEF TypeOK, BarrierRelease
      <3>3. Threads # {}
        BY <1>4
      <3> QED
        BY <3>1, <3>2, <3>3, FS_EmptySet DEF Counted
    <2> QED
      BY <2>1, <2>2, <2>3
  <1>5. ASSUME NEW t \in Threads, Leave(t), BarrierSpin(t)
        PROVE  IInv'
    <2>1. TypeOK'
      BY <1>5 DEF TypeOK, BarrierPC, Leave, BarrierSpin
    <2>2. Positions'
      BY <1>5, SpinArrived DEF TypeOK, Positions, Leave, BarrierSpin
    <2>3. Counted'
      <3>1. Arrived' = Arrived /\ t \notin Arrived
        BY <1>5, SpinArrived
      <3>2. /\ \A u \in Threads : bpc[u] \notin {"reset", "release"}
            /\ n_barrier = Cardinality(Arrived)
        BY <3>1 DEF Counted
      <3>3. /\ \A u \in Threads : bpc'[u] \notin {"reset", "release"}
            /\ n_barrier' = n_barrier
        BY <1>5, <3>2 DEF TypeOK, BarrierSpin
      <3> QED
        BY <3>1, <3>2, <3>3 DEF Counted
    <2> QED
      BY <2>1, <2>2, <2>3
  <1>6. CASE UNCHANGED vars
    <2>1. Arrived' = Arrived
      BY <1>6 DEF vars, Arrived
    <2> QED
      BY <1>6, <2>1 DEF vars, TypeOK, Positions, Counted
  <1> QED
    BY <1>1, <1>2, <1>3, <1>4, <1>5, <1>6 DEF Next, Step, Finished, Leave

(* IInv holds of every reachable state of a team at ggml_barrier. *)
THEOREM Invariance == Spec => []IInv
  BY InitIInv, StepIInv, PTL DEF Spec

(* ggml_barrier lets no thread of a team run ahead of a thread that has    *)
(* not yet entered, whatever the size of the team.                         *)
THEOREM BarrierSafety == Spec => []NobodyEarly
  <1>1. IInv => NobodyEarly
    <2> SUFFICES ASSUME IInv, NEW t \in Threads, NEW u \in Threads
                 PROVE  crossed[t] <= crossed[u] + (IF bpc[u] = "out" THEN 0 ELSE 1)
      BY DEF NobodyEarly
    <2>1. crossed[t] <= n_barrier_passed
      BY DEF IInv, TypeOK, Positions
    <2>2. n_barrier_passed <= crossed[u] + (IF bpc[u] = "out" THEN 0 ELSE 1)
      BY DEF IInv, TypeOK, Positions
    <2> QED
      BY <2>1, <2>2 DEF IInv, TypeOK
  <1> QED
    BY <1>1, Invariance, PTL

(* The spin barrier with its two counters implements the rendezvous: a     *)
(* thread arrives with its fetch_add and the increment of                  *)
(* n_barrier_passed lets the whole team go.                                *)
THEOREM ImplementsRendezvous == Spec => RendezvousSpec
  <1>1. Init => R!Init
    BY DEF Init, BarrierInit, Arrived, R!Init
  <1>2. IInv /\ [Next]_vars => [R!Next]_Arrived
    <2> SUFFICES ASSUME IInv, [Next]_vars PROVE [R!Next]_Arrived
      OBVIOUS
    <2>1. ASSUME NEW t \in Threads, Enter(t) \/ Clear(t) \/ BarrierSpin(t)
          PROVE  UNCHANGED Arrived
      BY <2>1, EnterArrived, ClearArrived, SpinArrived
    <2>2. ASSUME NEW t \in Threads, Arrive(t)
          PROVE  R!Next
      BY <2>2, ArriveArrived DEF R!Next, R!Arrive
    <2>3. ASSUME NEW t \in Threads, BarrierRelease(t)
          PROVE  R!Next
      BY <2>3, ReleaseArrived DEF R!Next, R!LetGo
    <2>4. CASE UNCHANGED vars
      BY <2>4 DEF vars, Arrived
    <2> QED
      BY <2>1, <2>2, <2>3, <2>4 DEF Next, Step, Leave, Finished
  <1> QED
    BY <1>1, <1>2, Invariance, PTL DEF Spec, RendezvousSpec, R!Spec
=============================================================================
