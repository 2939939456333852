-------------------------- MODULE ThreadpoolProofs --------------------------
(***************************************************************************)
(* The thread pool for any number of threads, any graphs and any number of *)
(* calls: its type invariant, and that no wakeup is lost; the team of a    *)
(* graph computation stays in lockstep, and the client changes the         *)
(* parameters of a call only while no worker reads them; and the pool      *)
(* implements the sequential fork-join: every piece of every node is       *)
(* computed exactly once, nodes in order, and ggml_graph_compute returns   *)
(* only when the work is done or was aborted.                              *)
(***************************************************************************)
EXTENDS Threadpool, TLAPS, FiniteSetTheorems

(* Thread 0 is a thread, and Nobody is none. *)
LEMMA ThreadFacts ==
  /\ 0 \in Thread
  /\ Nobody \notin Thread
  /\ Thread \subseteq Nat
  /\ Worker \subseteq Thread
  /\ Nobody # 0
  /\ NThreads \in Nat
  BY ThreadsAssumption DEF Thread, Worker, Nobody

(* The team of a call never exceeds the pool. *)
LEMMA ClampedType == \A n \in Requests : Clamped(n) \in 0 .. NThreads
  BY ThreadsAssumption DEF Clamped

(* The graph counter stays below its modulus. *)
LEMMA WrapType == \A i \in 0 .. GraphWrap - 1 : (i + 1) % GraphWrap \in 0 .. GraphWrap - 1
  BY WrapAssumption
-----------------------------------------------------------------------------
(* Type correctness.                                                       *)

(* The pool as it is created, paused or not. *)
LEMMA InitType == Init => TypeOK
  <1> SUFFICES ASSUME Init PROVE TypeOK
    OBVIOUS
  <1>1. n_graph \in NGraph
    BY ThreadFacts, WrapAssumption DEF Init, NGraph
  <1>2. PoolOK
    BY <1>1, ThreadFacts DEF Init, PoolOK, SomeGraph
  <1>3. ThreadsOK
    BY <1>1, ThreadFacts DEF Init, ThreadsOK, SomeGraph, PC
  <1>4. BarrierOK
    BY DEF Init, BarrierInit, BarrierOK, BarrierPC
  <1> QED
    BY <1>2, <1>3, <1>4 DEF TypeOK

(* The calls of the client. *)
LEMMA ClientType ==
  ASSUME TypeOK, ClientCall \/ ClientStep
  PROVE  TypeOK'
  <1> USE ThreadFacts DEF TypeOK, Goto, poolVars, localVars, threadVars, clientVars
  <1>1. BarrierOK'
    BY DEF BarrierOK, barrierVars, ClientCall, ClientStep, Compute, Announce, Broadcast, SetPause,
           Stop, Unpause, Join
  <1>2. ThreadsOK'
    BY DEF ThreadsOK, PC, ClientCall, ClientStep, Compute, Announce, Broadcast, SetPause, Stop,
           Unpause, Join
  <1>3. PoolOK'
    <2> USE DEF PoolOK
    <2>1. ASSUME NEW g \in Graphs, NEW n \in Requests, Compute(g, n)
          PROVE  PoolOK'
      BY <2>1, ClampedType DEF Compute, SomeGraph
    <2>2. CASE Announce
      <3>1. n_graph' \in NGraph
        BY <2>2, WrapType DEF Announce, NGraph
      <3> QED
        BY <2>2, <3>1 DEF Announce
    <2>3. CASE Broadcast
      BY <2>3 DEF Broadcast, Resume, Wake
    <2>4. ASSUME NEW p \in BOOLEAN, SetPause(p)
          PROVE  PoolOK'
      <3>1. CASE pause = p
        <4>1. UNCHANGED <<pause, sleeping>>
          BY <2>4, <3>1, Zenon DEF SetPause
        <4> QED
          BY <2>4, <4>1 DEF SetPause
      <3>2. CASE pause # p
        BY <2>4, <3>2 DEF SetPause, Wake
      <3> QED
        BY <3>1, <3>2
    <2>5. CASE Stop
      BY <2>5 DEF Stop
    <2>6. CASE Unpause
      BY <2>6 DEF Unpause, Resume, Wake
    <2>7. CASE Join
      BY <2>7 DEF Join
    <2> QED
      BY <2>1, <2>2, <2>3, <2>4, <2>5, <2>6, <2>7 DEF ClientCall, ClientStep
  <1> QED
    BY <1>1, <1>2, <1>3

(* A worker between graphs. *)
LEMMA WorkerType ==
  ASSUME TypeOK, NEW t \in Worker, WorkerStep(t) \/ SpuriousWake(t)
  PROVE  TypeOK'
  <1> USE ThreadFacts DEF TypeOK, Goto, poolVars, localVars, threadVars, clientVars
  <1>1. BarrierOK'
    <2> USE DEF BarrierOK, barrierVars
    <2>1. CASE Top(t)
      BY <2>1 DEF Top
    <2>2. CASE PauseLock(t)
      BY <2>2 DEF PauseLock
    <2>3. CASE CheckStop(t)
      BY <2>3 DEF CheckStop
    <2>4. CASE PollStop(t)
      BY <2>4 DEF PollStop
    <2>5. CASE PollPause(t)
      BY <2>5 DEF PollPause
    <2>6. CASE PollGraph(t)
      BY <2>6 DEF PollGraph
    <2>7. CASE Polled(t)
      BY <2>7 DEF Polled
    <2>8. CASE WorkLock(t)
      BY <2>8 DEF WorkLock
    <2>9. CASE CondWait(t)
      BY <2>9 DEF CondWait
    <2>10. CASE Awake(t)
      BY <2>10 DEF Awake
    <2>11. CASE Take(t)
      BY <2>11 DEF Take
    <2>12. CASE SpuriousWake(t)
      BY <2>12 DEF SpuriousWake
    <2> QED
      BY <2>1, <2>2, <2>3, <2>4, <2>5, <2>6, <2>7, <2>8, <2>9, <2>10, <2>11, <2>12 DEF WorkerStep
  <1>2. PoolOK'
    <2> USE DEF PoolOK
    <2>1. CASE Top(t)
      BY <2>1 DEF Top
    <2>2. CASE PauseLock(t)
      BY <2>2 DEF PauseLock
    <2>3. CASE CheckStop(t)
      BY <2>3 DEF CheckStop
    <2>4. CASE PollStop(t)
      BY <2>4 DEF PollStop
    <2>5. CASE PollPause(t)
      BY <2>5 DEF PollPause
    <2>6. CASE PollGraph(t)
      BY <2>6 DEF PollGraph
    <2>7. CASE Polled(t)
      BY <2>7 DEF Polled
    <2>8. CASE WorkLock(t)
      BY <2>8 DEF WorkLock
    <2>9. CASE CondWait(t)
      BY <2>9 DEF CondWait
    <2>10. CASE Awake(t)
      BY <2>10 DEF Awake
    <2>11. CASE Take(t)
      BY <2>11 DEF Take
    <2>12. CASE SpuriousWake(t)
      BY <2>12 DEF SpuriousWake
    <2> QED
      BY <2>1, <2>2, <2>3, <2>4, <2>5, <2>6, <2>7, <2>8, <2>9, <2>10, <2>11, <2>12 DEF WorkerStep
  <1>3. ThreadsOK'
    <2> USE DEF ThreadsOK, PC
    <2>1. CASE Top(t)
      BY <2>1 DEF Top
    <2>2. CASE PauseLock(t)
      BY <2>2 DEF PauseLock
    <2>3. CASE CheckStop(t)
      BY <2>3 DEF CheckStop
    <2>4. CASE PollStop(t)
      BY <2>4 DEF PollStop
    <2>5. CASE PollPause(t)
      BY <2>5 DEF PollPause
    <2>6. CASE PollGraph(t)
      <3>1. n_graph \in NGraph /\ InTeam(t) \in BOOLEAN
        BY DEF PoolOK, InTeam
      <3> QED
        BY <2>6, <3>1 DEF PollGraph, NoteGraph
    <2>7. CASE Polled(t)
      BY <2>7 DEF Polled
    <2>8. CASE WorkLock(t)
      <3>1. n_graph \in NGraph /\ InTeam(t) \in BOOLEAN
        BY DEF PoolOK, InTeam
      <3>2. /\ pending' = pending /\ last_graph' = last_graph
            \/ NoteGraph(t)
        BY <2>8 DEF WorkLock
      <3> QED
        BY <2>8, <3>1, <3>2 DEF WorkLock, NoteGraph
    <2>9. CASE CondWait(t)
      BY <2>9 DEF CondWait
    <2>10. CASE Awake(t)
      BY <2>10 DEF Awake
    <2>11. CASE Take(t)
      BY <2>11 DEF Take
    <2>12. CASE SpuriousWake(t)
      BY <2>12 DEF SpuriousWake
    <2> QED
      BY <2>1, <2>2, <2>3, <2>4, <2>5, <2>6, <2>7, <2>8, <2>9, <2>10, <2>11, <2>12 DEF WorkerStep
  <1> QED
    BY <1>1, <1>2, <1>3

(* A thread that computes a graph. *)
LEMMA GraphType ==
  ASSUME TypeOK, NEW t \in Thread, GraphStep(t)
  PROVE  TypeOK'
  <1> USE ThreadFacts DEF TypeOK, Goto, poolVars, localVars, threadVars, clientVars
  <1>1. BarrierOK'
    <2> USE DEF BarrierOK, barrierVars
    <2>1. CASE Start(t)
      BY <2>1 DEF Start
    <2>2. CASE Loop(t)
      BY <2>2 DEF Loop
    <2>3. CASE Share(t)
      BY <2>3 DEF Share
    <2>4. CASE Convert(t)
      BY <2>4 DEF Convert
    <2>5. CASE Chunk(t)
      BY <2>5 DEF Chunk
    <2>6. CASE NextChunk(t)
      BY <2>6 DEF NextChunk
    <2>7. CASE Computed(t)
      BY <2>7 DEF Computed
    <2>8. CASE Meet(t)
      BY <2>8 DEF Meet, BarrierPC, BarrierAlone, BarrierLoad, BarrierAdd, BarrierReset,
             BarrierRelease, BarrierSpin
    <2> QED
      BY <2>1, <2>2, <2>3, <2>4, <2>5, <2>6, <2>7, <2>8 DEF GraphStep
  <1>2. PoolOK'
    <2> USE DEF PoolOK
    <2>1. CASE Start(t)
      BY <2>1 DEF Start
    <2>2. CASE Loop(t)
      BY <2>2 DEF Loop
    <2>3. CASE Share(t)
      BY <2>3 DEF Share
    <2>4. CASE Convert(t)
      BY <2>4 DEF Convert, FirstChunk, ThreadsOK
    <2>5. CASE Chunk(t)
      BY <2>5 DEF Chunk
    <2>6. CASE NextChunk(t)
      BY <2>6 DEF NextChunk
    <2>7. CASE Computed(t)
      BY <2>7 DEF Computed, AbortBefore, ThreadsOK
    <2>8. CASE Meet(t)
      BY <2>8 DEF Meet
    <2> QED
      BY <2>1, <2>2, <2>3, <2>4, <2>5, <2>6, <2>7, <2>8 DEF GraphStep
  <1>3. ThreadsOK'
    <2> USE DEF ThreadsOK, PC
    <2>1. CASE Start(t)
      BY <2>1 DEF Start, NGraph, PoolOK
    <2>2. CASE Loop(t)
      <3>1. pc' \in [Thread -> PC] /\ after' \in [Thread -> {"idle", "top", "chunk", "loop"}]
        BY <2>2 DEF Loop, MeetThen, Exit
      <3>2. node_n' \in [Thread -> Nat] /\ chunk' \in [Thread -> Nat]
        BY <2>2, SMTT(60) DEF Loop
      <3> QED
        BY <2>2, <3>1, <3>2 DEF Loop
    <2>3. CASE Share(t)
      BY <2>3 DEF Share
    <2>4. CASE Convert(t)
      BY <2>4 DEF Convert, MeetThen
    <2>5. CASE Chunk(t)
      BY <2>5 DEF Chunk
    <2>6. CASE NextChunk(t)
      BY <2>6 DEF NextChunk, PoolOK
    <2>7. CASE Computed(t)
      BY <2>7 DEF Computed, MeetThen
    <2>8. CASE Meet(t)
      BY <2>8 DEF Meet
    <2> QED
      BY <2>1, <2>2, <2>3, <2>4, <2>5, <2>6, <2>7, <2>8 DEF GraphStep
  <1> QED
    BY <1>1, <1>2, <1>3

(* Every step of the pool keeps the types. *)
LEMMA StepType == TypeOK /\ [Next]_vars => TypeOK'
  <1> SUFFICES ASSUME TypeOK, [Next]_vars PROVE TypeOK'
    OBVIOUS
  <1>1. CASE Freed \/ UNCHANGED vars
    BY <1>1 DEF Freed, vars, poolVars, localVars, threadVars, clientVars, barrierVars, TypeOK,
                PoolOK, ThreadsOK, BarrierOK
  <1> QED
    BY <1>1, ClientType, WorkerType, GraphType DEF Next

-----------------------------------------------------------------------------
(* No lost wakeup.                                                         *)

Rest == MutexHeld /\ SleepersWait /\ WaitJustified /\ NoLostWakeup

(* Where a thread neither sleeps nor holds the mutex. *)
Elsewhere ==
    PC \ {"broadcast", "unpause", "pause_wait", "work_wait", "pause_sleep", "work_sleep"}

(* A pool that is created has no sleepers, and nobody holds its mutex. *)
LEMMA InitWake == Init => WakeInv
  <1> SUFFICES ASSUME Init PROVE WakeInv
    OBVIOUS
  <1>1. sleeping = {} /\ mutex = Nobody
    BY DEF Init
  <1>2. /\ pc[0] = "idle"
        /\ \A t \in Worker : pc[t] = "top" /\ mutex # t
    BY <1>1, ThreadFacts DEF Init, Worker
  <1> QED
    BY <1>1, <1>2, ThreadFacts, InitType
       DEF WakeInv, MutexHeld, SleepersWait, WaitJustified, NoLostWakeup, Waiting

(* A thread that moves on without touching the mutex, the sleepers and     *)
(* what they wait for disturbs nobody's wakeup.                            *)
LEMMA Quiet ==
  ASSUME WakeInv, NEW t \in Thread, NEW l \in Elsewhere,
         pc[t] \in Elsewhere, pc' = [pc EXCEPT ![t] = l],
         UNCHANGED <<n_graph, stop, pause, mutex, sleeping>>,
         \A u \in Thread \ {t} : last_graph'[u] = last_graph[u]
  PROVE  Rest'
  <1>1. pc'[t] = l /\ \A u \in Thread \ {t} : pc'[u] = pc[u]
    BY DEF WakeInv, TypeOK, ThreadsOK
  <1>2. t \notin sleeping
    BY DEF WakeInv, SleepersWait, Elsewhere
  <1>3. sleeping \subseteq Thread \ {t}
    BY <1>2, ThreadFacts DEF WakeInv, TypeOK, PoolOK
  <1>4. MutexHeld'
    <2>1. pc'[0] \in {"broadcast", "unpause"} <=> pc[0] \in {"broadcast", "unpause"}
      BY <1>1, ThreadFacts DEF Elsewhere
    <2>2. \A w \in Worker : pc'[w] \in Waiting <=> pc[w] \in Waiting
      BY <1>1, ThreadFacts DEF Elsewhere, Waiting
    <2> QED
      BY <2>1, <2>2 DEF WakeInv, MutexHeld
  <1>5. SleepersWait'
    BY <1>1, <1>3 DEF WakeInv, SleepersWait
  <1>6. WaitJustified'
    BY <1>1, ThreadFacts DEF WakeInv, WaitJustified, Elsewhere
  <1>7. NoLostWakeup'
    BY <1>1, <1>3 DEF WakeInv, NoLostWakeup
  <1> QED
    BY <1>4, <1>5, <1>6, <1>7 DEF Rest

(* While the mutex is free or with the client, no worker is about to wait. *)
LEMMA NobodyWaits ==
  ASSUME WakeInv, mutex \in {0, Nobody}
  PROVE  \A w \in Worker : pc[w] \notin Waiting
  BY ThreadFacts DEF WakeInv, MutexHeld, Worker

(* The client holds the mutex while it changes what workers wait for ...   *)
LEMMA ClientTakes ==
  ASSUME WakeInv, mutex = Nobody, mutex' = 0, UNCHANGED sleeping,
         NEW l \in {"broadcast", "unpause"}, pc[0] \in Elsewhere, pc' = [pc EXCEPT ![0] = l]
  PROVE  Rest'
  <1>1. pc'[0] = l /\ \A w \in Worker : pc'[w] = pc[w] /\ pc'[w] \notin Waiting
    BY NobodyWaits, ThreadFacts DEF WakeInv, TypeOK, ThreadsOK, Worker
  <1>2. MutexHeld'
    BY <1>1, ThreadFacts DEF MutexHeld, Worker
  <1>3. SleepersWait'
    BY <1>1 DEF WakeInv, TypeOK, PoolOK, SleepersWait
  <1>4. WaitJustified'
    BY <1>1 DEF WaitJustified, Waiting
  <1> QED
    BY <1>2, <1>3, <1>4 DEF Rest, NoLostWakeup

(* ... and when it gives it back, it has woken everybody. *)
LEMMA ClientGivesBack ==
  ASSUME WakeInv, mutex \in {0, Nobody}, mutex' = Nobody, sleeping' = {},
         NEW l \in Elsewhere, pc' = [pc EXCEPT ![0] = l]
  PROVE  Rest'
  <1>1. pc'[0] = l /\ \A w \in Worker : pc'[w] \notin Waiting
    BY NobodyWaits, ThreadFacts DEF WakeInv, TypeOK, ThreadsOK, Worker
  <1>2. MutexHeld'
    BY <1>1, ThreadFacts DEF MutexHeld, Elsewhere
  <1>3. WaitJustified'
    BY <1>1 DEF WaitJustified, Waiting
  <1> QED
    BY <1>2, <1>3 DEF Rest, SleepersWait, NoLostWakeup

(* The calls of the client. *)
LEMMA ClientWake ==
  ASSUME WakeInv, ClientCall \/ ClientStep
  PROVE  Rest'
  <1> USE DEF Goto
  <1>1. ASSUME NEW g \in Graphs, NEW n \in Requests, Compute(g, n)
        PROVE  Rest'
    BY <1>1, Quiet, ThreadFacts DEF Compute, Elsewhere, PC, localVars
  <1>2. CASE Announce
    BY <1>2, ClientTakes DEF Announce, Elsewhere, PC
  <1>3. CASE Broadcast
    <2>1. mutex = 0
      BY <1>3 DEF Broadcast, WakeInv, MutexHeld
    <2> QED
      BY <1>3, <2>1, ClientGivesBack DEF Broadcast, Resume, Wake, Elsewhere, PC
  <1>4. ASSUME NEW p \in BOOLEAN, SetPause(p)
        PROVE  Rest'
    <2>1. /\ pc[0] = "idle" /\ mutex = Nobody
          /\ UNCHANGED <<n_graph, stop, mutex, pc, last_graph>>
          /\ pc = [pc EXCEPT ![0] = "idle"]
      BY <1>4, ThreadFacts DEF SetPause, threadVars, localVars, WakeInv, TypeOK, ThreadsOK
    <2>2. CASE pause = p
      <3>1. UNCHANGED <<pause, sleeping>>
        BY <1>4, <2>2, Zenon DEF SetPause
      <3> QED
        BY <2>1, <3>1, Quiet, ThreadFacts DEF Elsewhere, PC
    <2>3. CASE pause # p
      <3>1. sleeping' = {}
        BY <1>4, <2>3 DEF SetPause, Wake
      <3> QED
        BY <2>1, <3>1, ClientGivesBack DEF Elsewhere, PC
    <2> QED
      BY <2>2, <2>3
  <1>5. CASE Stop
    BY <1>5, ClientTakes DEF Stop, Elsewhere, PC
  <1>6. CASE Unpause
    <2>1. mutex = 0
      BY <1>6 DEF Unpause, WakeInv, MutexHeld
    <2> QED
      BY <1>6, <2>1, ClientGivesBack DEF Unpause, Resume, Wake, Elsewhere, PC
  <1>7. CASE Join
    BY <1>7, Quiet, ThreadFacts DEF Join, Elsewhere, PC, poolVars, localVars
  <1> QED
    BY <1>1, <1>2, <1>3, <1>4, <1>5, <1>6, <1>7 DEF ClientCall, ClientStep

(* A worker that keeps the mutex until it waits has just tested, under the *)
(* mutex, what it waits for.                                               *)
LEMMA WorkerTakes ==
  ASSUME WakeInv, NEW t \in Worker, mutex = Nobody, mutex' = t,
         UNCHANGED <<n_graph, stop, pause, sleeping, last_graph>>,
         NEW l \in Waiting, pc[t] \in Elsewhere, pc' = [pc EXCEPT ![t] = l],
         l = "pause_wait" => pause,
         l = "work_wait" => ~stop /\ ~pause /\ n_graph = last_graph[t]
  PROVE  Rest'
  <1>1. pc'[t] = l /\ \A u \in Thread \ {t} : pc'[u] = pc[u]
    BY ThreadFacts DEF WakeInv, TypeOK, ThreadsOK
  <1>2. sleeping \subseteq Thread \ {t}
    BY ThreadFacts DEF WakeInv, TypeOK, PoolOK, SleepersWait, Elsewhere
  <1>3. t # 0 /\ 0 \in Thread \ {t} /\ pc[0] \notin {"broadcast", "unpause"}
    BY ThreadFacts DEF Worker, WakeInv, MutexHeld
  <1>4. \A w \in Worker : pc[w] \notin Waiting
    BY NobodyWaits
  <1>5. MutexHeld'
    BY <1>1, <1>3, <1>4, ThreadFacts DEF MutexHeld
  <1>6. SleepersWait'
    BY <1>1, <1>2 DEF WakeInv, SleepersWait
  <1>7. WaitJustified'
    BY <1>1, <1>4, ThreadFacts DEF WaitJustified, Waiting
  <1>8. NoLostWakeup'
    <2>1. mutex # 0
      BY ThreadFacts
    <2> QED
      BY <1>1, <1>2, <2>1 DEF WakeInv, NoLostWakeup
  <1> QED
    BY <1>5, <1>6, <1>7, <1>8 DEF Rest

(* ggml_cond_wait puts a worker to sleep with its condition still true. *)
LEMMA CondWaitWake ==
  ASSUME WakeInv, NEW t \in Worker, CondWait(t)
  PROVE  Rest'
  <1>1. /\ pc[t] \in Waiting /\ mutex = t /\ mutex # 0
        /\ mutex' = Nobody /\ sleeping' = sleeping \union {t}
    BY ThreadFacts DEF CondWait, Waiting, WakeInv, MutexHeld, Worker
  <1>2. /\ pc'[t] = IF pc[t] = "pause_wait" THEN "pause_sleep" ELSE "work_sleep"
        /\ \A u \in Thread \ {t} : pc'[u] = pc[u]
    BY ThreadFacts DEF CondWait, Goto, WakeInv, TypeOK, ThreadsOK
  <1>3. UNCHANGED <<n_graph, stop, pause, last_graph>>
    BY DEF CondWait, localVars
  <1>4. MutexHeld'
    <2>1. \A w \in Worker \ {t} : pc[w] \notin Waiting
      BY <1>1 DEF WakeInv, MutexHeld
    <2>2. 0 \in Thread \ {t} /\ pc[0] \notin {"broadcast", "unpause"}
      BY <1>1, ThreadFacts DEF WakeInv, MutexHeld
    <2> QED
      BY <1>1, <1>2, <2>1, <2>2, ThreadFacts DEF MutexHeld, Waiting
  <1>5. SleepersWait'
    BY <1>1, <1>2, ThreadFacts DEF WakeInv, TypeOK, PoolOK, SleepersWait
  <1>6. WaitJustified'
    BY <1>2, <1>3, ThreadFacts DEF WakeInv, WaitJustified
  <1>7. NoLostWakeup'
    <2>1. IF pc'[t] = "pause_sleep" THEN pause ELSE ~stop /\ ~pause /\ n_graph = last_graph[t]
      BY <1>1, <1>2 DEF WakeInv, WaitJustified, Waiting
    <2> QED
      BY <1>1, <1>2, <1>3, <2>1, ThreadFacts DEF WakeInv, TypeOK, PoolOK, NoLostWakeup
  <1> QED
    BY <1>4, <1>5, <1>6, <1>7 DEF Rest

(* A worker that was woken leaves the sleepers without disturbing others. *)
LEMMA AwakeWake ==
  ASSUME WakeInv, NEW t \in Worker, Awake(t)
  PROVE  Rest'
  <1>1. /\ pc[t] \in {"pause_sleep", "work_sleep"} /\ t \notin sleeping
        /\ UNCHANGED <<n_graph, stop, pause, mutex, sleeping, last_graph>>
    BY DEF Awake, poolVars, localVars
  <1>2. /\ pc'[t] \in {"top", "work_lock"}
        /\ \A u \in Thread \ {t} : pc'[u] = pc[u]
    BY ThreadFacts DEF Awake, Goto, WakeInv, TypeOK, ThreadsOK
  <1>3. MutexHeld'
    BY <1>1, <1>2, ThreadFacts DEF WakeInv, MutexHeld, Waiting, Worker
  <1>4. SleepersWait'
    BY <1>1, <1>2, ThreadFacts DEF WakeInv, TypeOK, PoolOK, SleepersWait
  <1>5. WaitJustified'
    BY <1>1, <1>2, ThreadFacts DEF WakeInv, WaitJustified
  <1>6. NoLostWakeup'
    BY <1>1, <1>2, ThreadFacts DEF WakeInv, TypeOK, PoolOK, NoLostWakeup
  <1> QED
    BY <1>3, <1>4, <1>5, <1>6 DEF Rest

(* A worker between graphs. *)
LEMMA WorkerWake ==
  ASSUME WakeInv, NEW t \in Worker, WorkerStep(t) \/ SpuriousWake(t)
  PROVE  Rest'
  <1>1. t \in Thread
    BY ThreadFacts
  <1>2. ASSUME Top(t) \/ CheckStop(t) \/ PollStop(t) \/ PollPause(t) \/ Polled(t) \/ Take(t)
        PROVE  Rest'
    BY <1>1, <1>2, Quiet DEF Top, CheckStop, PollStop, PollPause, Polled, Take, Goto, Elsewhere,
                             PC, poolVars, localVars
  <1>3. CASE PauseLock(t)
    <2>1. CASE pause
      BY <1>3, <2>1, WorkerTakes DEF PauseLock, Goto, Elsewhere, PC, Waiting, localVars
    <2>2. CASE ~pause
      BY <1>1, <1>3, <2>2, Quiet DEF PauseLock, Goto, Elsewhere, PC, localVars
    <2> QED
      BY <2>1, <2>2
  <1>4. CASE PollGraph(t)
    <2>1. /\ pc[t] = "poll_graph"
          /\ UNCHANGED <<n_graph, stop, pause, mutex, sleeping>>
          /\ \A u \in Thread \ {t} : last_graph'[u] = last_graph[u]
      BY <1>1, <1>4 DEF PollGraph, NoteGraph, poolVars, WakeInv, TypeOK, ThreadsOK
    <2>2. PICK l \in {"polled", "poll_stop"} : pc' = [pc EXCEPT ![t] = l]
      BY <1>4 DEF PollGraph, Goto
    <2> QED
      BY <1>1, <2>1, <2>2, Quiet DEF Elsewhere, PC
  <1>5. CASE WorkLock(t)
    <2>1. CASE pc' = [pc EXCEPT ![t] = "take"]
      <3>1. /\ pc[t] = "work_lock"
            /\ UNCHANGED <<n_graph, stop, pause, mutex, sleeping>>
            /\ \A u \in Thread \ {t} : last_graph'[u] = last_graph[u]
        <4>1. pc'[t] = "take"
          BY <1>1, <2>1 DEF WakeInv, TypeOK, ThreadsOK
        <4>2. pc' # [pc EXCEPT ![t] = "work_wait"]
          BY <1>1, <4>1 DEF WakeInv, TypeOK, ThreadsOK
        <4> QED
          BY <1>1, <1>5, <4>2 DEF WorkLock, Goto, NoteGraph, WakeInv, TypeOK, ThreadsOK
      <3> QED
        BY <1>1, <2>1, <3>1, Quiet DEF Elsewhere, PC
    <2>2. CASE ~(pending[t] \/ stop \/ pause) /\ n_graph = last_graph[t]
      BY <1>5, <2>2, WorkerTakes DEF WorkLock, Goto, Elsewhere, PC, Waiting
    <2> QED
      BY <1>5, <2>1, <2>2 DEF WorkLock, Goto
  <1>6. CASE CondWait(t)
    BY <1>6, CondWaitWake
  <1>7. CASE Awake(t)
    BY <1>7, AwakeWake
  <1>8. CASE SpuriousWake(t)
    BY <1>8 DEF SpuriousWake, threadVars, localVars, WakeInv, Rest, MutexHeld, SleepersWait,
                WaitJustified, NoLostWakeup
  <1> QED
    BY <1>2, <1>3, <1>4, <1>5, <1>6, <1>7, <1>8 DEF WorkerStep

(* A thread that computes a graph. *)
LEMMA GraphWake ==
  ASSUME WakeInv, NEW t \in Thread, GraphStep(t)
  PROVE  Rest'
  <1>1. /\ pc[t] \in Elsewhere
        /\ UNCHANGED <<n_graph, stop, pause, mutex, sleeping, last_graph>>
    BY DEF GraphStep, Start, Loop, Share, Convert, Chunk, NextChunk, Computed, Meet, Elsewhere,
           PC, poolVars, localVars
  <1>2. ASSUME NEW l \in Elsewhere, pc' = [pc EXCEPT ![t] = l]
        PROVE  Rest'
    BY <1>1, <1>2, Quiet
  <1>3. CASE UNCHANGED pc
    BY <1>1, <1>2, <1>3 DEF WakeInv, TypeOK, ThreadsOK
  <1>4. CASE Start(t) \/ Share(t) \/ NextChunk(t)
    BY <1>2, <1>4 DEF Start, Share, NextChunk, Goto, Elsewhere, PC
  <1>5. CASE Loop(t)
    <2>1. PICK l \in {"barrier", "share", "convert"} :
            UNCHANGED pc \/ pc' = [pc EXCEPT ![t] = l]
      BY <1>5 DEF Loop, MeetThen, Goto
    <2> QED
      BY <1>2, <1>3, <2>1 DEF Elsewhere, PC
  <1>6. CASE Convert(t)
    BY <1>2, <1>6 DEF Convert, MeetThen, Elsewhere, PC
  <1>7. CASE Chunk(t)
    <2>1. PICK l \in {"computed", "next_chunk"} : pc' = [pc EXCEPT ![t] = l]
      BY <1>7 DEF Chunk, Goto
    <2> QED
      BY <1>2, <2>1 DEF Elsewhere, PC
  <1>8. CASE Computed(t)
    <2>1. PICK l \in {"barrier", "loop"} : pc' = [pc EXCEPT ![t] = l]
      BY <1>8 DEF Computed, MeetThen, Goto
    <2> QED
      BY <1>2, <2>1 DEF Elsewhere, PC
  <1>9. CASE Meet(t)
    <2>1. after[t] \in Elsewhere
      BY DEF WakeInv, TypeOK, ThreadsOK, Elsewhere, PC
    <2> QED
      BY <1>2, <1>3, <1>9, <2>1 DEF Meet, Goto
  <1> QED
    BY <1>4, <1>5, <1>6, <1>7, <1>8, <1>9 DEF GraphStep

(* Every step of the pool preserves the inductive invariant. *)
LEMMA StepWake == WakeInv /\ [Next]_vars => WakeInv'
  <1> SUFFICES ASSUME WakeInv, [Next]_vars PROVE WakeInv'
    OBVIOUS
  <1>1. TypeOK'
    BY StepType DEF WakeInv
  <1>2. CASE Freed \/ UNCHANGED vars
    BY <1>1, <1>2 DEF Freed, vars, poolVars, localVars, threadVars, WakeInv, MutexHeld,
                      SleepersWait, WaitJustified, NoLostWakeup
  <1> QED
    BY <1>1, <1>2, ClientWake, WorkerWake, GraphWake DEF Next, Rest, WakeInv
-----------------------------------------------------------------------------
(* The pool's state stays within its types for any number of threads.      *)
THEOREM TypeCorrect == Spec => []TypeOK
  BY InitType, StepType, PTL DEF Spec

(* What makes the waits safe is invariant: who holds the mutex, who sleeps *)
(* and what was tested before.                                             *)
THEOREM WakeInvariance == Spec => []WakeInv
  BY InitWake, StepWake, PTL DEF Spec

(* No worker of a pool of any size sleeps through work, a stop or the end  *)
(* of a pause, whatever spurious wakeups occur.                            *)
THEOREM WakeupsKept == Spec => []NoLostWakeup
  <1>1. WakeInv => NoLostWakeup
    BY DEF WakeInv
  <1> QED
    BY <1>1, WakeInvariance, PTL
-----------------------------------------------------------------------------
(* The team of a graph computation: the inductive invariant.               *)

Team == {t \in Thread : t < n_graph.team}

(* A thread that still spins although its barrier was released is behind   *)
(* the barrier already: nothing it can see will change until it notices.   *)
Released(t) == pc[t] = "barrier" /\ bpc[t] = "spin" /\ n_passed[t] # n_barrier_passed

at == [t \in Thread |-> IF Released(t) THEN after[t] ELSE pc[t]]

(* Where a worker is while it has no graph, and where a thread is that     *)
(* computes one.                                                           *)
Outside == {"top", "pause_lock", "pause_wait", "pause_sleep", "stop?", "exited", "poll_stop",
            "poll_pause", "poll_graph", "polled", "work_lock", "work_wait", "work_sleep", "take"}
Inside == {"start", "loop", "share", "convert", "chunk", "next_chunk", "computed", "barrier"}
Client == {"idle", "kickoff", "broadcast", "unpause", "join", "freed"}

(* A call is under way from its announcement to the release of its last    *)
(* barrier.                                                                *)
Running == at[0] \in Inside \union {"broadcast"}

Places ==
    /\ pc[0] \in Client \union Inside
    /\ \A w \in Worker : pc[w] \in Outside \union Inside
    /\ \A t \in Thread : pc[t] = "barrier" => after[t] \in {Exit(t), "chunk", "loop"}

(* Threads that were counted in n_barrier for the barrier now closing. *)
Arrived ==
    {t \in Thread : \/ bpc[t] \in {"reset", "release"}
                    \/ bpc[t] = "spin" /\ n_passed[t] = n_barrier_passed}

Counters ==
    /\ \A t \in Thread :
         /\ bpc[t] # "out" => pc[t] = "barrier"
         /\ n_passed[t] <= n_barrier_passed
         /\ bpc[t] \in {"add", "reset", "release"} => n_passed[t] = n_barrier_passed
    /\ \/ /\ \A t \in Thread : bpc[t] \notin {"reset", "release"}
          /\ n_barrier = Cardinality(Arrived)
          /\ Arrived = {} \/ Arrived # Team
       \/ \E t \in Team :
            /\ Arrived = Team
            /\ \A u \in Team \ {t} : bpc[u] = "spin"
            /\ \/ bpc[t] = "reset"
               \/ bpc[t] = "release" /\ n_barrier = 0

(* Which threads take part: those of the team that saw the graph in time,  *)
(* once each.                                                              *)
Membership ==
    /\ pc[0] = "kickoff" => request >= 1 /\ abort = -1
    /\ Running => n_graph.team = request /\ request >= 1
    /\ \A w \in Worker :
         /\ at[w] \in Inside => Running /\ w \in Team /\ ~pending[w] /\ last_graph[w] = n_graph
         /\ pending[w] => Running /\ w \in Team /\ last_graph[w] = n_graph
         /\ ~Running /\ w \in Team => last_graph[w] = n_graph
    /\ \A t \in Thread :
         at[t] \in Inside \ {"start"} => my_graph[t] = cgraph /\ nth[t] = n_graph.team

OpOf(k) == cgraph[k + 1].op

(* The nodes from b up to k, k excluded, are empty. *)
Skipped(b, k) == \A j \in b .. k - 1 : OpOf(j) = "nop"

(* Thread t has computed node k and goes to meet the others. *)
Behind(t, k) ==
    /\ node_n[t] = k + 1
    /\ \/ at[t] = "loop" /\ k + 1 = Len(cgraph)
       \/ at[t] = "barrier" /\ after[t] = "loop" /\ k + 1 < Len(cgraph)
       \/ at[t] = "barrier" /\ after[t] = Exit(t) /\ k + 1 = Len(cgraph)

(* Between two barriers.  The team began at node b; in the first half it   *)
(* goes from there to the next barrier, which is behind the next node that *)
(* is not empty, or inside it when that node is a matrix product.          *)
FirstHalf(t, b) ==
    \/ b = 0 /\ at[t] \in Outside \union {"broadcast", "start"}
    \/ at[t] = "loop" /\ node_n[t] \in b .. Len(cgraph) /\ Skipped(b, node_n[t])
    \/ /\ node_n[t] \in b .. Len(cgraph) - 1 /\ Skipped(b, node_n[t])
       /\ \/ at[t] \in {"share", "computed"} /\ OpOf(node_n[t]) = "plain"
          \/ at[t] = "convert" /\ OpOf(node_n[t]) = "mul_mat"
          \/ at[t] = "barrier" /\ after[t] = "chunk" /\ OpOf(node_n[t]) = "mul_mat"
    \/ \E k \in b .. Len(cgraph) - 1 : Skipped(b, k) /\ OpOf(k) = "plain" /\ Behind(t, k)
    \/ /\ at[t] = "barrier" /\ after[t] = Exit(t)
       /\ \/ node_n[t] = Len(cgraph) /\ Skipped(b, node_n[t])
          \/ node_n[t] = b /\ abort = b

(* In the second half the team computes the chunks of node b. *)
SecondHalf(t, b) ==
    \/ at[t] \in {"chunk", "next_chunk", "computed"} /\ node_n[t] = b
    \/ Behind(t, b)

(* The callback was not asked to abort, or the whole team is about to find *)
(* that it was, or thread 0 has just asked it.                             *)
AbortKnown(b) ==
    \/ abort = -1
    \/ /\ abort = b
       /\ \A t \in Team :
            /\ node_n[t] = b
            /\ at[t] = "loop" \/ (at[t] = "barrier" /\ after[t] = Exit(t))
    \/ /\ abort = node_n[0] /\ abort > b
       /\ Behind(0, abort - 1)
       /\ OpOf(abort - 1) # "nop"

Together ==
    \E b \in 0 .. Len(cgraph) :
        /\ AbortKnown(b)
        /\ \/ \A t \in Team : FirstHalf(t, b)
           \/ /\ b < Len(cgraph) /\ OpOf(b) = "mul_mat"
              /\ \A t \in Team : SecondHalf(t, b)

TeamInv == TypeOK /\ Places /\ Counters /\ Membership /\ (Running => Together)
-----------------------------------------------------------------------------
(* Facts about the state that the steps keep needing.                      *)

(* The current graph is a sequence of nodes. *)
LEMMA GraphFacts ==
  ASSUME TypeOK
  PROVE  /\ cgraph \in Seq(Nodes)
         /\ Len(cgraph) \in Nat
         /\ \A k \in 0 .. Len(cgraph) - 1 : OpOf(k) \in {"nop", "plain", "mul_mat"}
  <1>1. cgraph \in Seq(Nodes)
    <2>1. cgraph \in Graphs \/ cgraph = << >>
      BY DEF TypeOK, PoolOK, SomeGraph
    <2>2. << >> \in Seq(Nodes)
      OBVIOUS
    <2> QED
      BY <2>1, <2>2, GraphsAssumption, Zenon
  <1>2. \A k \in 0 .. Len(cgraph) - 1 : cgraph[k + 1] \in Nodes
    BY <1>1
  <1> QED
    BY <1>1, <1>2 DEF OpOf, Nodes

(* The places of the program do not overlap. *)
LEMMA PlaceFacts ==
  /\ "barrier" \notin Outside /\ "barrier" \notin Client
  /\ Outside \cap Inside = {} /\ Client \cap Inside = {}
  BY DEF Outside, Client, Inside

(* A thread that is not at the barrier is where its code says. *)
LEMMA AtFacts ==
  ASSUME TypeOK, Places, NEW t \in Thread
  PROVE  /\ pc[t] # "barrier" => at[t] = pc[t]
         /\ at[t] # pc[t] => pc[t] = "barrier" /\ at[t] = after[t]
         /\ at[t] = "barrier" => pc[t] = "barrier" /\ ~Released(t)
         /\ at[t] \in PC
  BY DEF at, Released, TypeOK, ThreadsOK, PC, Places, Exit

(* The threads counted at the barrier are there and were not released. *)
LEMMA ArrivedFacts ==
  ASSUME TypeOK, Places, Counters
  PROVE  /\ Arrived \subseteq Thread
         /\ \A t \in Arrived : pc[t] = "barrier" /\ at[t] = "barrier"
         /\ \A t \in Thread : bpc[t] \in {"reset", "release"} => t \in Arrived
  BY DEF at, Released, Arrived, Counters

(* While a call runs, the client is in its team. *)
LEMMA ClientInTeam ==
  ASSUME TypeOK, Membership, Running
  PROVE  0 \in Team /\ n_graph.team >= 1
  BY ThreadFacts DEF Membership, Team, TypeOK, PoolOK, NGraph

(* Whoever computes is in the team of a running call. *)
LEMMA InsideFacts ==
  ASSUME TypeOK, Membership, NEW t \in Thread, at[t] \in Inside
  PROVE  Running /\ t \in Team
  <1>1. CASE t = 0
    BY <1>1, ClientInTeam DEF Running
  <1>2. CASE t # 0
    BY <1>2 DEF Membership, Worker
  <1> QED
    BY <1>1, <1>2
-----------------------------------------------------------------------------
(* A thread that is not at the barrier takes a step.                       *)

(* Its place changes to where the step goes, nobody else's does. *)
LEMMA AtMove ==
  ASSUME TypeOK, Places, Counters, NEW t \in Thread, NEW l, pc[t] # "barrier",
         pc' = [pc EXCEPT ![t] = l], UNCHANGED barrierVars,
         \A u \in Thread \ {t} : after'[u] = after[u]
  PROVE  /\ at' = [at EXCEPT ![t] = l]
         /\ at'[t] = l /\ \A u \in Thread \ {t} : at'[u] = at[u]
         /\ bpc[t] = "out"
         /\ Arrived' = Arrived
  <1>1. bpc[t] = "out" /\ bpc'[t] = "out"
    BY DEF Counters, barrierVars
  <1>2. pc'[t] = l /\ \A u \in Thread \ {t} : pc'[u] = pc[u]
    BY DEF TypeOK, ThreadsOK
  <1>3. ~Released(t)' /\ \A u \in Thread \ {t} : Released(u)' <=> Released(u)
    BY <1>1, <1>2 DEF Released, barrierVars
  <1>4. at' = [at EXCEPT ![t] = l]
    BY <1>2, <1>3 DEF at
  <1>5. at'[t] = l /\ \A u \in Thread \ {t} : at'[u] = at[u]
    BY <1>2, <1>3 DEF at
  <1>6. Arrived' = Arrived
    BY DEF Arrived, barrierVars
  <1> QED
    BY <1>1, <1>4, <1>5, <1>6

(* The barrier's counters are not concerned. *)
LEMMA CountersKept ==
  ASSUME TypeOK, Places, Counters, NEW t \in Thread, NEW l, pc[t] # "barrier",
         pc' = [pc EXCEPT ![t] = l], UNCHANGED <<barrierVars, n_graph>>,
         \A u \in Thread \ {t} : after'[u] = after[u]
  PROVE  Counters'
  <1>1. Arrived' = Arrived /\ bpc[t] = "out"
    BY AtMove
  <1>2. Team' = Team
    BY DEF Team
  <1>3. \A u \in Thread : bpc'[u] # "out" => pc'[u] = "barrier"
    BY <1>1 DEF TypeOK, ThreadsOK, Counters, barrierVars
  <1> QED
    BY <1>1, <1>2, <1>3, Zenon DEF Counters, barrierVars

(* The step leads to a place of the same thread. *)
LEMMA PlacesKept ==
  ASSUME TypeOK, Places, NEW t \in Thread, NEW l,
         l \in Inside \union (IF t = 0 THEN Client ELSE Outside),
         pc' = [pc EXCEPT ![t] = l],
         \A u \in Thread \ {t} : after'[u] = after[u],
         l = "barrier" => after'[t] \in {Exit(t), "chunk", "loop"}
  PROVE  Places'
  BY ThreadFacts DEF TypeOK, ThreadsOK, Places, Worker, Exit
-----------------------------------------------------------------------------
(* The pool as it is created: nobody computes, nobody has arrived. *)
LEMMA InitTeam == Init => TeamInv
  <1> SUFFICES ASSUME Init PROVE TeamInv
    OBVIOUS
  <1>1. TypeOK
    BY InitType
  <1>2. at = [t \in Thread |-> IF t = 0 THEN "idle" ELSE "top"]
    BY DEF Init, BarrierInit, at, Released
  <1>3. ~Running
    BY <1>2, ThreadFacts DEF Running, Inside
  <1>4. Places
    BY ThreadFacts DEF Init, Places, Client, Outside, Worker
  <1>5. Arrived = {}
    BY DEF Init, BarrierInit, Arrived
  <1>6. Counters
    BY <1>5, FS_EmptySet DEF Init, BarrierInit, Counters
  <1>7. Membership
    BY <1>2, <1>3, ThreadFacts DEF Init, Membership, Inside, Worker
  <1> QED
    BY <1>1, <1>3, <1>4, <1>6, <1>7 DEF TeamInv

TeamRest == Places /\ Counters /\ Membership /\ (Running => Together)

(* A step that none of these variables notices. *)
LEMMA TeamSame ==
  ASSUME TeamInv,
         UNCHANGED <<n_graph, cgraph, abort, request, pc, after, last_graph, pending, my_graph, nth,
                     node_n, barrierVars>>
  PROVE  TeamRest'
  <1>1. at' = at /\ Arrived' = Arrived /\ Team' = Team
    BY DEF at, Released, Arrived, Team, barrierVars
  <1>2. Places' /\ Counters' /\ Membership'
    BY <1>1 DEF TeamInv, Places, Counters, Membership, Running, barrierVars
  <1>3. (Running => Together)'
    BY <1>1 DEF TeamInv, Running, Together, AbortKnown, FirstHalf, SecondHalf, Behind, Skipped, OpOf
  <1> QED
    BY <1>2, <1>3 DEF TeamRest
-----------------------------------------------------------------------------
(* The client between its calls.                                           *)

(* No call runs before and after the step: nothing changes for workers. *)
LEMMA RestStep ==
  ASSUME TeamInv, pc[0] \in Client \ {"broadcast"}, NEW l \in Client \ {"broadcast"},
         pc' = [pc EXCEPT ![0] = l], UNCHANGED <<n_graph, last_graph, pending, after, barrierVars>>,
         l = "kickoff" => request' >= 1 /\ abort' = -1
  PROVE  TeamRest'
  <1> USE ThreadFacts DEF TeamInv
  <1>1. pc[0] # "barrier"
    BY PlaceFacts
  <1>2. at[0] = pc[0] /\ at' = [at EXCEPT ![0] = l]
    BY <1>1, AtMove, AtFacts
  <1>3. ~Running /\ ~Running'
    BY <1>2, PlaceFacts DEF Running, at
  <1>4. Places'
    BY <1>1, PlacesKept, PlaceFacts
  <1>5. Counters'
    BY <1>1, CountersKept
  <1>6. \A t \in Thread : at'[t] \notin Inside
    BY <1>2, <1>3, InsideFacts, PlaceFacts DEF at
  <1>7. pc'[0] = l
    BY DEF TypeOK, ThreadsOK
  <1>8. Membership'
    BY <1>3, <1>6, <1>7 DEF Membership, Team
  <1> QED
    BY <1>3, <1>4, <1>5, <1>8 DEF TeamRest

(* At the announcement nobody is at a barrier, the whole team stands in    *)
(* front of the first node and no abort was requested.                     *)
LEMMA AnnounceTeam ==
  ASSUME TeamInv, Announce
  PROVE  TeamRest'
  <1> USE ThreadFacts DEF TeamInv
  <1>1. /\ pc[0] = "kickoff" /\ pc' = [pc EXCEPT ![0] = "broadcast"]
        /\ n_graph'.team = request
        /\ UNCHANGED <<cgraph, abort, request, after, last_graph, pending, my_graph, nth, node_n,
                       barrierVars>>
    BY DEF Announce, Goto, localVars, clientVars
  <1>2. at[0] = "kickoff" /\ at' = [at EXCEPT ![0] = "broadcast"] /\ Arrived' = Arrived
    BY <1>1, AtMove, AtFacts
  <1>3. ~Running
    BY <1>2 DEF Running, Inside
  <1>4. \A t \in Thread : at[t] \notin Inside
    BY <1>3, InsideFacts
  <1>5. Running' /\ \A t \in Thread : at'[t] \notin Inside
    BY <1>2, <1>4 DEF Running, at, Inside
  <1>6. Places'
    BY <1>1, PlacesKept DEF Client
  <1>7. Arrived = {} /\ \A t \in Thread : bpc[t] \notin {"reset", "release"}
    BY <1>4, ArrivedFacts DEF Inside
  <1>8. Counters'
    <2>1. n_barrier = Cardinality(Arrived)
      BY <1>7 DEF Counters, Team
    <2>2. \A t \in Thread : bpc'[t] # "out" => pc'[t] = "barrier"
      BY <1>1 DEF TypeOK, ThreadsOK, Counters, barrierVars
    <2> QED
      BY <1>1, <1>2, <1>7, <2>1, <2>2 DEF Counters, barrierVars
  <1>9. pc'[0] = "broadcast"
    BY <1>1 DEF TypeOK, ThreadsOK
  <1>10. Membership'
    BY <1>1, <1>3, <1>5, <1>9 DEF Membership
  <1>11. Together'
    <2>1. \A t \in Thread : at'[t] \in Outside \union {"broadcast"}
      <3>1. \A t \in Worker : at[t] \in Outside
        BY <1>4, AtFacts DEF Places, Exit, Outside, Inside, Worker
      <3> QED
        BY <1>2, <3>1 DEF Worker, at
    <2>2. \A t \in Team' : FirstHalf(t, 0)'
      BY <2>1 DEF FirstHalf, Team
    <2>3. AbortKnown(0)'
      BY <1>1 DEF AbortKnown, Membership
    <2>4. 0 \in 0 .. Len(cgraph')
      BY <1>1, GraphFacts
    <2> QED
      BY <2>2, <2>3, <2>4 DEF Together
  <1> QED
    BY <1>6, <1>8, <1>10, <1>11 DEF TeamRest
-----------------------------------------------------------------------------
(* A thread of the team takes a step inside a running call.                *)

(* Thread t moves from its place to l; the others keep theirs. *)
Moves(t, l) ==
    /\ at' = [at EXCEPT ![t] = l]
    /\ \A u \in Thread \ {t} :
         /\ after'[u] = after[u] /\ node_n'[u] = node_n[u]
         /\ my_graph'[u] = my_graph[u] /\ nth'[u] = nth[u]
    /\ UNCHANGED <<n_graph, cgraph, request>>

(* The others stay in the half they were in. *)
LEMMA OthersKeep ==
  ASSUME TeamInv, NEW t \in Thread, NEW l, Moves(t, l), abort' = abort \/ abort = -1,
         NEW u \in Thread \ {t}, NEW b \in 0 .. Len(cgraph)
  PROVE  /\ FirstHalf(u, b) => FirstHalf(u, b)'
         /\ SecondHalf(u, b) => SecondHalf(u, b)'
  <1>1. at'[u] = at[u] /\ after'[u] = after[u] /\ node_n'[u] = node_n[u] /\ cgraph' = cgraph
    BY DEF Moves, at
  <1>2. node_n[u] \in Nat
    BY DEF TeamInv, TypeOK, ThreadsOK
  <1>3. \A k : Behind(u, k)' <=> Behind(u, k)
    BY <1>1 DEF Behind, Exit
  <1>4. \A k : OpOf(k)' = OpOf(k)
    BY <1>1 DEF OpOf
  <1>5. \A k : Skipped(b, k)' <=> Skipped(b, k)
    BY <1>1 DEF Skipped, OpOf
  <1>6. SecondHalf(u, b) => SecondHalf(u, b)'
    BY <1>1, <1>3 DEF SecondHalf
  <1>7. ASSUME FirstHalf(u, b)
        PROVE  FirstHalf(u, b)'
    <2>1. Skipped(b, node_n[u])' <=> Skipped(b, node_n[u])
      BY <1>1 DEF Skipped, OpOf
    <2>2. OpOf(node_n[u])' = OpOf(node_n[u])
      BY <1>1 DEF OpOf
    <2> QED
      BY <1>1, <1>2, <1>3, <1>4, <1>5, <1>7, <2>1, <2>2 DEF FirstHalf, Exit
  <1> QED
    BY <1>6, <1>7

(* What is known of an abort is kept by a thread of the team that is       *)
(* neither in front of a node nor at the barrier.                          *)
LEMMA AbortKept ==
  ASSUME TeamInv, NEW t \in Team, NEW l, Moves(t, l), abort' = abort,
         at[t] \notin {"loop", "barrier"}, NEW b \in 0 .. Len(cgraph), AbortKnown(b)
  PROVE  /\ AbortKnown(b)'
         /\ abort = -1 \/ (t # 0 /\ abort > b)
  <1>1. t = 0 \/ (at'[0] = at[0] /\ after'[0] = after[0] /\ node_n'[0] = node_n[0])
    BY ThreadFacts DEF Moves, at
  <1>2. \/ abort = -1
        \/ abort = node_n[0] /\ abort > b /\ Behind(0, abort - 1) /\ OpOf(abort - 1) # "nop"
    BY DEF AbortKnown
  <1>3. abort = -1 \/ t # 0
    BY <1>2 DEF Behind
  <1> QED
    BY <1>1, <1>2, <1>3 DEF AbortKnown, Behind, OpOf, Exit, Moves
-----------------------------------------------------------------------------
(* The kickoff wakes the workers and the client goes to compute itself. *)
LEMMA BroadcastTeam ==
  ASSUME TeamInv, Broadcast
  PROVE  TeamRest'
  <1> USE ThreadFacts DEF TeamInv
  <1>1. /\ pc[0] = "broadcast" /\ pc' = [pc EXCEPT ![0] = "start"]
        /\ UNCHANGED <<n_graph, cgraph, abort, request, after, last_graph, pending, my_graph, nth,
                       node_n, barrierVars>>
    BY DEF Broadcast, Goto, localVars, clientVars
  <1>2. at[0] = "broadcast" /\ at' = [at EXCEPT ![0] = "start"]
    BY <1>1, AtMove, AtFacts
  <1>3. Running /\ Running'
    BY <1>2 DEF Running, Inside, at
  <1>4. Places'
    BY <1>1, PlacesKept DEF Inside
  <1>5. Counters'
    BY <1>1, CountersKept
  <1>6. pc'[0] = "start" /\ Team' = Team
    BY <1>1 DEF TypeOK, ThreadsOK, Team
  <1>7. Membership'
    BY <1>1, <1>2, <1>3, <1>6, ZenonT(60) DEF Membership, at, Worker
  <1>8. Together'
    <2>1. PICK b \in 0 .. Len(cgraph) :
            /\ AbortKnown(b)
            /\ \/ \A t \in Team : FirstHalf(t, b)
               \/ /\ b < Len(cgraph) /\ OpOf(b) = "mul_mat"
                  /\ \A t \in Team : SecondHalf(t, b)
      BY <1>3 DEF Together
    <2>2. Moves(0, "start")
      BY <1>1, <1>2 DEF Moves
    <2>3. 0 \in Team /\ Team \subseteq Thread
      BY <1>3, ClientInTeam DEF Team
    <2>4. ~SecondHalf(0, b)
      BY <1>2 DEF SecondHalf, Behind
    <2>5. b = 0
      BY <1>2, <2>1, <2>3, <2>4 DEF FirstHalf, Behind
    <2>6. FirstHalf(0, b)'
      BY <1>2, <2>5 DEF FirstHalf, at
    <2>7. AbortKnown(b)'
      BY <1>1, <1>2, <2>1, <2>2, <2>3, AbortKept
    <2>8. \A t \in Team' : FirstHalf(t, b)'
      BY <1>1, <1>6, <2>1, <2>2, <2>3, <2>4, <2>6, OthersKeep
    <2> QED
      BY <1>1, <2>7, <2>8 DEF Together
  <1> QED
    BY <1>4, <1>5, <1>7, <1>8 DEF TeamRest

(* The calls of the client. *)
LEMMA ClientTeam ==
  ASSUME TeamInv, ClientCall \/ ClientStep
  PROVE  TeamRest'
  <1> USE DEF Goto, localVars, clientVars, threadVars, Client
  <1>1. ASSUME NEW g \in Graphs, NEW n \in Requests, Compute(g, n)
        PROVE  TeamRest'
    <2>1. Clamped(n) >= 1
      BY ThreadsAssumption DEF Clamped
    <2> QED
      BY <1>1, <2>1, RestStep DEF Compute
  <1>2. ASSUME NEW p \in BOOLEAN, SetPause(p)
        PROVE  TeamRest'
    BY <1>2, TeamSame DEF SetPause
  <1>3. CASE Stop \/ Unpause
    BY <1>3, RestStep DEF Stop, Unpause
  <1>4. CASE Join
    BY <1>4, RestStep DEF Join, poolVars
  <1> QED
    BY <1>1, <1>2, <1>3, <1>4, AnnounceTeam, BroadcastTeam DEF ClientCall, ClientStep
-----------------------------------------------------------------------------
(* A worker between graphs: it notes a graph only while that graph's call  *)
(* runs, and takes it at most once.                                        *)

(* What a worker does to its own record of graphs. *)
Notes(t, l) ==
    \/ l \in Outside /\ UNCHANGED <<pending, last_graph>>
    \/ l \in Outside /\ n_graph # last_graph[t] /\ NoteGraph(t)
    \/ /\ l = IF pending[t] THEN "start" ELSE "top"
       /\ pending' = [pending EXCEPT ![t] = FALSE] /\ UNCHANGED last_graph

(* Each step of a worker is of that form. *)
LEMMA WorkerMoves ==
  ASSUME TypeOK, NEW t \in Worker, WorkerStep(t)
  PROVE  /\ pc[t] \in Outside
         /\ \E l \in Outside \union {"start"} : pc' = [pc EXCEPT ![t] = l] /\ Notes(t, l)
         /\ UNCHANGED <<n_graph, cgraph, abort, request, after, my_graph, nth, node_n, barrierVars>>
  <1> USE DEF Goto, poolVars, localVars, clientVars, Outside, Notes
  <1>1. CASE Top(t)
    BY <1>1 DEF Top
  <1>2. CASE PauseLock(t)
    BY <1>2 DEF PauseLock
  <1>3. CASE CheckStop(t)
    BY <1>3 DEF CheckStop
  <1>4. CASE PollStop(t)
    BY <1>4 DEF PollStop
  <1>5. CASE PollPause(t)
    BY <1>5 DEF PollPause
  <1>6. CASE PollGraph(t)
    BY <1>6 DEF PollGraph
  <1>7. CASE Polled(t)
    BY <1>7 DEF Polled
  <1>8. CASE WorkLock(t)
    BY <1>8 DEF WorkLock
  <1>9. CASE CondWait(t)
    BY <1>9 DEF CondWait
  <1>10. CASE Awake(t)
    BY <1>10 DEF Awake
  <1>11. CASE Take(t)
    BY <1>11 DEF Take
  <1> QED
    BY <1>1, <1>2, <1>3, <1>4, <1>5, <1>6, <1>7, <1>8, <1>9, <1>10, <1>11 DEF WorkerStep

(* A worker's step keeps the team together; what it notes is true. *)
LEMMA WorkerTeam ==
  ASSUME TeamInv, NEW t \in Worker, WorkerStep(t) \/ SpuriousWake(t)
  PROVE  TeamRest'
  <1> USE ThreadFacts DEF TeamInv
  <1>1. CASE SpuriousWake(t)
    BY <1>1, TeamSame DEF SpuriousWake, threadVars, localVars, clientVars
  <1>2. CASE WorkerStep(t)
    <2>1. PICK l \in Outside \union {"start"} : pc' = [pc EXCEPT ![t] = l] /\ Notes(t, l)
      BY <1>2, WorkerMoves
    <2>2. /\ pc[t] \in Outside /\ t \in Thread /\ t # 0
          /\ UNCHANGED <<n_graph, cgraph, abort, request, after, my_graph, nth, node_n,
                         barrierVars>>
      BY <1>2, WorkerMoves DEF Worker
    <2>3. pc[t] # "barrier" /\ l # "barrier"
      BY <2>2, PlaceFacts
    <2>4. at[t] = pc[t] /\ at' = [at EXCEPT ![t] = l]
      BY <2>1, <2>2, <2>3, AtMove, AtFacts
    <2>5. Running' <=> Running
      BY <2>2, <2>4 DEF Running, at
    <2>6. Places'
      BY <2>1, <2>2, <2>3, PlacesKept DEF Inside
    <2>7. Counters'
      BY <2>1, <2>2, <2>3, CountersKept
    <2>8. /\ pc'[0] = pc[0] /\ Team' = Team
          /\ at'[t] = l /\ \A u \in Thread \ {t} : at'[u] = at[u]
      BY <2>1, <2>2, <2>4 DEF TypeOK, ThreadsOK, Team, at
    <2>9. at[t] \in Outside /\ at[t] \notin Inside
      BY <2>2, <2>4, PlaceFacts
    <2>10. l \in Outside => l \notin Inside
      BY PlaceFacts
    <2>11. Membership'
      <3>1. \A w \in Worker \ {t} : pending'[w] = pending[w] /\ last_graph'[w] = last_graph[w]
        BY <2>1 DEF Notes, NoteGraph, TypeOK, ThreadsOK
      <3>2. /\ at'[t] \in Inside
                => Running /\ t \in Team /\ ~pending'[t] /\ last_graph'[t] = n_graph
            /\ pending'[t] => Running /\ t \in Team /\ last_graph'[t] = n_graph
            /\ ~Running /\ t \in Team => last_graph'[t] = n_graph
        <4>1. CASE l \in Outside /\ UNCHANGED <<pending, last_graph>>
          BY <2>8, <2>10, <4>1 DEF Membership
        <4>2. CASE l \in Outside /\ n_graph # last_graph[t] /\ NoteGraph(t)
          <5>1. pending'[t] = (t < n_graph.team) /\ last_graph'[t] = n_graph
            BY <4>2 DEF NoteGraph, InTeam, TypeOK, ThreadsOK
          <5> QED
            BY <2>2, <2>8, <2>10, <4>2, <5>1 DEF Membership, Team
        <4>3. CASE /\ l = IF pending[t] THEN "start" ELSE "top"
                   /\ pending' = [pending EXCEPT ![t] = FALSE] /\ UNCHANGED last_graph
          <5>1. ~pending'[t] /\ (l \in Inside => pending[t])
            BY <4>3 DEF TypeOK, ThreadsOK, Inside
          <5> QED
            BY <2>8, <4>3, <5>1 DEF Membership
        <4> QED
          BY <2>1, <4>1, <4>2, <4>3 DEF Notes
      <3>3. at'[t] \notin Inside \ {"start"}
        BY <2>1, <2>8, <2>10
      <3> QED
        BY <2>2, <2>5, <2>8, <3>1, <3>2, <3>3 DEF Membership
    <2>12. ASSUME Running
           PROVE  Together'
      <3>1. PICK b \in 0 .. Len(cgraph) :
              /\ AbortKnown(b)
              /\ \/ \A u \in Team : FirstHalf(u, b)
                 \/ /\ b < Len(cgraph) /\ OpOf(b) = "mul_mat"
                    /\ \A u \in Team : SecondHalf(u, b)
        BY <2>12 DEF Together
      <3>2. Moves(t, l)
        BY <2>2, <2>4 DEF Moves
      <3>3. at[t] \notin {"loop", "barrier", "computed", "chunk", "next_chunk", "share", "convert"}
        BY <2>9 DEF Inside
      <3>4. AbortKnown(b)'
        <4>1. \A k : Behind(0, k)' <=> Behind(0, k)
          BY <2>2, <2>8 DEF Behind, Exit
        <4>2. \A u \in Team : u # t => at'[u] = at[u]
          BY <2>8 DEF Team
        <4> QED
          BY <2>2, <2>8, <3>1, <3>3, <4>1, <4>2 DEF AbortKnown, OpOf, Exit
      <3>5. ~SecondHalf(t, b) /\ (FirstHalf(t, b) => FirstHalf(t, b)')
        <4>1. \A k : ~Behind(t, k)
          BY <3>3 DEF Behind
        <4>2. ~SecondHalf(t, b) /\ (FirstHalf(t, b) => b = 0)
          BY <3>3, <4>1 DEF FirstHalf, SecondHalf
        <4>3. b = 0 => FirstHalf(t, b)'
          BY <2>1, <2>8 DEF FirstHalf
        <4> QED
          BY <4>2, <4>3
      <3>6. /\ \A u \in Team : FirstHalf(u, b) => FirstHalf(u, b)'
            /\ t \notin Team => \A u \in Team : SecondHalf(u, b) => SecondHalf(u, b)'
        BY <2>2, <3>2, <3>5, OthersKeep DEF Team
      <3> QED
        BY <2>2, <2>8, <3>1, <3>4, <3>5, <3>6 DEF Together, OpOf
    <2> QED
      BY <2>5, <2>6, <2>7, <2>11, <2>12 DEF TeamRest
  <1> QED
    BY <1>1, <1>2
-----------------------------------------------------------------------------
(* A thread of the team between two visits of the barrier.                 *)

(* It stays in the team, and the barrier is not concerned. *)
LEMMA InsideStep ==
  ASSUME TeamInv, NEW t \in Thread, pc[t] \in Inside \ {"barrier"}, NEW l \in Inside \ {"start"},
         pc' = [pc EXCEPT ![t] = l],
         UNCHANGED <<n_graph, cgraph, request, last_graph, pending, barrierVars>>,
         \A u \in Thread \ {t} :
            /\ after'[u] = after[u] /\ node_n'[u] = node_n[u]
            /\ my_graph'[u] = my_graph[u] /\ nth'[u] = nth[u],
         l = "barrier" => after'[t] \in {Exit(t), "chunk", "loop"},
         my_graph'[t] = cgraph /\ nth'[t] = n_graph.team
  PROVE  /\ Running /\ t \in Team /\ Moves(t, l)
         /\ at[t] = pc[t] /\ at'[t] = l
         /\ Places' /\ Counters' /\ Membership'
  <1> USE ThreadFacts DEF TeamInv
  <1>1. at[t] = pc[t] /\ at' = [at EXCEPT ![t] = l]
    BY AtMove, AtFacts
  <1>2. Running /\ t \in Team
    BY <1>1, InsideFacts
  <1>3. at'[t] = l /\ \A u \in Thread \ {t} : at'[u] = at[u]
    BY AtMove
  <1>4. Running' /\ Team' = Team
    <2>1. at'[0] \in Inside \union {"broadcast"}
      BY <1>2, <1>3 DEF Running
    <2> QED
      BY <2>1 DEF Running, Team
  <1>5. Places'
    <2>1. l \in Inside \union (IF t = 0 THEN Client ELSE Outside)
      OBVIOUS
    <2> QED
      BY <2>1, PlacesKept
  <1>6. Counters'
    <2>1. pc[t] # "barrier"
      OBVIOUS
    <2> QED
      BY <2>1, CountersKept
  <1>7. pc'[0] # "kickoff"
    <2>1. pc[0] # "kickoff"
      BY <1>2, AtFacts DEF Running, Inside
    <2> QED
      BY <2>1 DEF TypeOK, ThreadsOK, Inside
  <1>8. Membership'
    BY <1>1, <1>2, <1>3, <1>4, <1>7 DEF Membership
  <1>9. Moves(t, l)
    BY <1>1 DEF Moves
  <1> QED
    BY <1>1, <1>2, <1>3, <1>5, <1>6, <1>8, <1>9

(* The team stays together when this thread keeps to the half it is in. *)
LEMMA HalfStep ==
  ASSUME TeamInv, Running, NEW t \in Team, NEW l, Moves(t, l), abort' = abort \/ abort = -1,
         \A b \in 0 .. Len(cgraph) :
            AbortKnown(b) /\ FirstHalf(t, b) => AbortKnown(b)' /\ FirstHalf(t, b)',
         \A b \in 0 .. Len(cgraph) - 1 :
            AbortKnown(b) /\ OpOf(b) = "mul_mat" /\ SecondHalf(t, b)
                => AbortKnown(b)' /\ SecondHalf(t, b)'
  PROVE  Together'
  <1>1. PICK b \in 0 .. Len(cgraph) :
          /\ AbortKnown(b)
          /\ \/ \A u \in Team : FirstHalf(u, b)
             \/ /\ b < Len(cgraph) /\ OpOf(b) = "mul_mat"
                /\ \A u \in Team : SecondHalf(u, b)
    BY DEF TeamInv, Together
  <1>2. Team' = Team /\ cgraph' = cgraph /\ Team \subseteq Thread
    BY DEF Moves, Team
  <1>3. Len(cgraph) \in Nat
    BY GraphFacts DEF TeamInv
  <1>4. CASE \A u \in Team : FirstHalf(u, b)
    <2>1. \A u \in Team : FirstHalf(u, b)'
      BY <1>1, <1>2, <1>4, OthersKeep
    <2> QED
      BY <1>1, <1>2, <1>4, <2>1 DEF Together
  <1>5. CASE b < Len(cgraph) /\ OpOf(b) = "mul_mat" /\ \A u \in Team : SecondHalf(u, b)
    <2>1. b \in 0 .. Len(cgraph) - 1
      BY <1>1, <1>3, <1>5
    <2>2. \A u \in Team : SecondHalf(u, b)'
      BY <1>1, <1>2, <1>5, <2>1, OthersKeep
    <2>3. AbortKnown(b)'
      BY <1>1, <1>5, <2>1
    <2> QED
      BY <1>1, <1>2, <1>5, <2>2, <2>3 DEF Together, OpOf
  <1> QED
    BY <1>1, <1>4, <1>5

(* The start of the graph. *)
LEMMA StartTeam ==
  ASSUME TeamInv, NEW t \in Thread, Start(t)
  PROVE  TeamRest'
  <1> USE DEF TeamInv
  <1>1. /\ pc[t] = "start" /\ pc' = [pc EXCEPT ![t] = "loop"] /\ abort' = abort
        /\ my_graph'[t] = cgraph /\ nth'[t] = n_graph.team /\ node_n'[t] = 0
        /\ UNCHANGED <<n_graph, cgraph, request, last_graph, pending, barrierVars>>
        /\ \A u \in Thread \ {t} :
              /\ after'[u] = after[u] /\ node_n'[u] = node_n[u]
              /\ my_graph'[u] = my_graph[u] /\ nth'[u] = nth[u]
    BY DEF Start, Goto, poolVars, clientVars, TypeOK, ThreadsOK
  <1>2. /\ Running /\ t \in Team /\ Moves(t, "loop")
        /\ at[t] = pc[t] /\ at'[t] = "loop"
        /\ Places' /\ Counters' /\ Membership'
    BY <1>1, InsideStep DEF Inside
  <1>3. ASSUME NEW b \in 0 .. Len(cgraph), AbortKnown(b)
        PROVE  /\ AbortKnown(b)'
               /\ ~SecondHalf(t, b)
               /\ FirstHalf(t, b) => FirstHalf(t, b)'
    <2>1. AbortKnown(b)'
      BY <1>1, <1>2, <1>3, AbortKept
    <2>2. \A k : ~Behind(t, k)
      BY <1>1, <1>2 DEF Behind
    <2>3. ~SecondHalf(t, b) /\ (FirstHalf(t, b) => b = 0)
      BY <1>1, <1>2, <2>2 DEF FirstHalf, SecondHalf
    <2>4. b = 0 => FirstHalf(t, b)'
      BY <1>1, <1>2, GraphFacts DEF FirstHalf, Skipped
    <2> QED
      BY <2>1, <2>3, <2>4
  <1>4. Together'
    BY <1>1, <1>2, <1>3, GraphFacts, HalfStep
  <1> QED
    BY <1>2, <1>4 DEF TeamRest

(* A thread inside an operator: its share of the rows, the conversion of   *)
(* src1, a chunk of the product, or the way to the next chunk.             *)
LEMMA OperatorTeam ==
  ASSUME TeamInv, NEW t \in Thread, NEW l,
         \/ pc[t] = "share" /\ l = "computed"
         \/ pc[t] = "convert" /\ l = "barrier" /\ after'[t] = "chunk"
         \/ pc[t] = "chunk" /\ l \in {"computed", "next_chunk"}
         \/ pc[t] = "next_chunk" /\ l = "chunk",
         pc' = [pc EXCEPT ![t] = l], \A u \in Thread \ {t} : after'[u] = after[u],
         UNCHANGED <<n_graph, cgraph, abort, request, last_graph, pending, my_graph, nth, node_n,
                     barrierVars>>
  PROVE  TeamRest'
  <1> USE DEF TeamInv
  <1>1. pc[t] \in Inside \ {"barrier"} /\ l \in Inside \ {"start"}
    BY DEF Inside
  <1>2. at[t] = pc[t]
    BY <1>1, AtFacts
  <1>3. my_graph[t] = cgraph /\ nth[t] = n_graph.team
    BY <1>1, <1>2 DEF Membership, Inside
  <1>4. /\ Running /\ t \in Team /\ Moves(t, l) /\ at'[t] = l
        /\ Places' /\ Counters' /\ Membership'
    BY <1>1, <1>3, InsideStep
  <1>5. node_n'[t] = node_n[t] /\ cgraph' = cgraph
    OBVIOUS
  <1>6. \A k : ~Behind(t, k)
    BY <1>2 DEF Behind
  <1>7. ASSUME NEW b \in 0 .. Len(cgraph), AbortKnown(b)
        PROVE  AbortKnown(b)'
    BY <1>2, <1>4, <1>7, AbortKept
  <1>8. ASSUME NEW b \in 0 .. Len(cgraph), FirstHalf(t, b)
        PROVE  FirstHalf(t, b)'
    <2>1. /\ node_n[t] \in b .. Len(cgraph) - 1 /\ Skipped(b, node_n[t])
          /\ \/ at[t] = "share" /\ OpOf(node_n[t]) = "plain"
             \/ at[t] = "convert" /\ OpOf(node_n[t]) = "mul_mat"
      BY <1>2, <1>6, <1>8 DEF FirstHalf, Outside
    <2>2. \/ l = "computed" /\ OpOf(node_n[t]) = "plain"
          \/ l = "barrier" /\ after'[t] = "chunk" /\ OpOf(node_n[t]) = "mul_mat"
      BY <1>2, <2>1
    <2>3. Skipped(b, node_n[t])' /\ OpOf(node_n[t])' = OpOf(node_n[t])
      BY <1>5, <2>1 DEF Skipped, OpOf
    <2> QED
      BY <1>4, <1>5, <2>1, <2>2, <2>3 DEF FirstHalf
  <1>9. ASSUME NEW b \in 0 .. Len(cgraph), SecondHalf(t, b)
        PROVE  SecondHalf(t, b)'
    BY <1>2, <1>4, <1>5, <1>6, <1>9 DEF SecondHalf
  <1>10. Together'
    BY <1>4, <1>7, <1>8, <1>9, GraphFacts, HalfStep
  <1> QED
    BY <1>4, <1>10 DEF TeamRest

(* Behind node k: where a thread goes, and what thread 0 is told. *)
LEMMA ComputedMoves ==
  ASSUME TeamInv, NEW t \in Thread, Computed(t), NEW k \in Nat, k = node_n[t]
  PROVE  /\ at[t] = "computed"
         /\ \E l \in {"loop", "barrier"} :
              /\ l = "barrier" <=> k + 1 < Len(cgraph)
              /\ l = "barrier" => after'[t] = "loop"
              /\ Running /\ t \in Team /\ Moves(t, l) /\ at'[t] = l
              /\ Places' /\ Counters' /\ Membership'
         /\ UNCHANGED <<n_graph, cgraph, request, last_graph, pending, my_graph, nth, barrierVars>>
         /\ UNCHANGED <<current_chunk, chunk, work>>
         /\ node_n'[t] = k + 1
         /\ \/ abort' = abort /\ ec' = ec
            \/ t = 0 /\ abort' = k + 1 /\ ec' = "aborted"
         /\ \A u \in Thread \ {t} : after'[u] = after[u] /\ node_n'[u] = node_n[u]
  <1> USE DEF TeamInv
  <1>1. pc[t] = "computed" /\ at[t] = "computed"
    BY AtFacts DEF Computed
  <1>2. my_graph[t] = cgraph /\ nth[t] = n_graph.team /\ Len(cgraph) \in Nat
    BY <1>1, GraphFacts DEF Membership, Inside
  <1>3. PICK l \in {"loop", "barrier"} :
          /\ pc' = [pc EXCEPT ![t] = l]
          /\ IF k + 1 < Len(cgraph)
             THEN l = "barrier" /\ after' = [after EXCEPT ![t] = "loop"]
             ELSE l = "loop" /\ after' = after
    BY <1>2 DEF Computed, Meets, MeetThen, Goto
  <1>4. /\ UNCHANGED <<n_graph, cgraph, request, last_graph, pending, my_graph, nth, barrierVars>>
        /\ UNCHANGED <<current_chunk, chunk, work>>
        /\ node_n' = [node_n EXCEPT ![t] = k + 1]
        /\ \/ abort' = abort /\ ec' = ec
           \/ t = 0 /\ abort' = k + 1 /\ ec' = "aborted"
    BY DEF Computed, AbortBefore, clientVars
  <1>5. /\ node_n'[t] = k + 1
        /\ l = "barrier" => after'[t] = "loop"
        /\ \A u \in Thread \ {t} : after'[u] = after[u] /\ node_n'[u] = node_n[u]
    BY <1>3, <1>4 DEF TypeOK, ThreadsOK
  <1>6. /\ Running /\ t \in Team /\ Moves(t, l) /\ at'[t] = l
        /\ Places' /\ Counters' /\ Membership'
    <2>1. pc[t] \in Inside \ {"barrier"} /\ l \in Inside \ {"start"}
      BY <1>1 DEF Inside
    <2> QED
      BY <1>2, <1>3, <1>4, <1>5, <2>1, InsideStep
  <1> QED
    BY <1>1, <1>3, <1>4, <1>5, <1>6

(* Until then no thread knows of an abort. *)
LEMMA NotAborted ==
  ASSUME TeamInv, Running, at[0] \in {"computed", "chunk", "next_chunk", "share", "convert", "start",
                                     "broadcast"}
  PROVE  abort = -1
  <1>1. 0 \in Team
    BY ClientInTeam DEF TeamInv
  <1>2. PICK b \in 0 .. Len(cgraph) : AbortKnown(b)
    BY DEF TeamInv, Together
  <1> QED
    BY <1>1, <1>2 DEF AbortKnown, Behind

(* The thread keeps to the half the team is in. *)
LEMMA ComputedTeam ==
  ASSUME TeamInv, NEW t \in Thread, Computed(t)
  PROVE  TeamRest'
  <1> USE DEF TeamInv
  <1>1. Len(cgraph) \in Nat /\ node_n[t] \in Nat
    BY GraphFacts DEF TypeOK, ThreadsOK
  <1>2. PICK k \in Nat : k = node_n[t]
    BY <1>1
  <1>3. at[t] = "computed"
    BY <1>2, ComputedMoves
  <1>4. PICK l \in {"loop", "barrier"} :
          /\ l = "barrier" <=> k + 1 < Len(cgraph)
          /\ l = "barrier" => after'[t] = "loop"
          /\ Running /\ t \in Team /\ Moves(t, l) /\ at'[t] = l
          /\ Places' /\ Counters' /\ Membership'
    BY <1>2, ComputedMoves
  <1>5. /\ UNCHANGED <<n_graph, cgraph>> /\ node_n'[t] = k + 1
        /\ abort' = abort \/ (t = 0 /\ abort' = k + 1)
    BY <1>2, ComputedMoves
  <1>6. \A j : ~Behind(t, j)
    BY <1>3 DEF Behind
  <1>7. ASSUME k \in 0 .. Len(cgraph) - 1
        PROVE  Behind(t, k)'
    BY <1>1, <1>4, <1>5, <1>7 DEF Behind
  <1>8. ASSUME NEW b \in 0 .. Len(cgraph), AbortKnown(b), k \in b .. Len(cgraph) - 1,
               OpOf(k) # "nop"
        PROVE  AbortKnown(b)'
    <2>1. CASE abort' = abort
      BY <1>3, <1>4, <1>8, <2>1, AbortKept
    <2>2. CASE t = 0 /\ abort' = k + 1
      <3>1. abort' = node_n'[0] /\ abort' > b /\ abort' - 1 = k
        BY <1>5, <1>8, <2>2
      <3>2. Behind(0, k)' /\ OpOf(k)' # "nop"
        BY <1>5, <1>7, <1>8, <2>2 DEF OpOf
      <3> QED
        BY <3>1, <3>2 DEF AbortKnown
    <2> QED
      BY <1>5, <2>1, <2>2
  <1>9. ASSUME NEW b \in 0 .. Len(cgraph), FirstHalf(t, b), AbortKnown(b)
        PROVE  FirstHalf(t, b)' /\ AbortKnown(b)'
    <2>1. k \in b .. Len(cgraph) - 1 /\ Skipped(b, k) /\ OpOf(k) = "plain"
      BY <1>2, <1>3, <1>6, <1>9 DEF FirstHalf, Outside
    <2>2. Behind(t, k)' /\ Skipped(b, k)' /\ OpOf(k)' = "plain"
      BY <1>5, <1>7, <2>1 DEF Skipped, OpOf
    <2>3. FirstHalf(t, b)'
      BY <1>5, <2>1, <2>2 DEF FirstHalf
    <2> QED
      BY <1>8, <1>9, <2>1, <2>3
  <1>10. ASSUME NEW b \in 0 .. Len(cgraph) - 1, SecondHalf(t, b), AbortKnown(b),
                OpOf(b) = "mul_mat"
         PROVE  SecondHalf(t, b)' /\ AbortKnown(b)'
    <2>1. k = b
      BY <1>2, <1>3, <1>6, <1>10 DEF SecondHalf
    <2>2. Behind(t, b)'
      BY <1>7, <1>10, <2>1
    <2> QED
      BY <1>8, <1>10, <2>1, <2>2 DEF SecondHalf
  <1>11. abort' = abort \/ abort = -1
    BY <1>3, <1>4, <1>5, NotAborted
  <1>12. Together'
    BY <1>4, <1>9, <1>10, <1>11, HalfStep
  <1> QED
    BY <1>4, <1>12 DEF TeamRest

(* The head of the node loop: where a thread at node k goes. *)
LEMMA LoopMoves ==
  ASSUME TeamInv, NEW t \in Thread, Loop(t), NEW k \in Nat, k = node_n[t]
  PROVE  /\ at[t] = "loop"
         /\ \E l \in {"loop", "barrier", "share", "convert"} :
              /\ pc' = [pc EXCEPT ![t] = l]
              /\ \/ /\ l = "barrier" /\ (k >= Len(cgraph) \/ abort = k)
                    /\ after'[t] = Exit(t) /\ node_n'[t] = k
                 \/ /\ l = "loop" /\ k < Len(cgraph) /\ abort # k /\ OpOf(k) = "nop"
                    /\ node_n'[t] = k + 1
                 \/ /\ l = "share" /\ k < Len(cgraph) /\ abort # k /\ OpOf(k) = "plain"
                    /\ node_n'[t] = k /\ chunk'[t] = t
                 \/ /\ l = "convert" /\ k < Len(cgraph) /\ abort # k /\ OpOf(k) = "mul_mat"
                    /\ node_n'[t] = k /\ chunk'[t] = t
              /\ Running /\ t \in Team /\ Moves(t, l) /\ at'[t] = l
              /\ Places' /\ Counters' /\ Membership'
         /\ UNCHANGED <<n_graph, cgraph, abort, request, last_graph, pending, my_graph, nth,
                        barrierVars>>
         /\ UNCHANGED <<current_chunk, ec, work>>
         /\ \A u \in Thread \ {t} :
              after'[u] = after[u] /\ node_n'[u] = node_n[u] /\ chunk'[u] = chunk[u]
  <1> USE DEF TeamInv
  <1>1. pc[t] = "loop" /\ at[t] = "loop"
    BY AtFacts DEF Loop
  <1>2. my_graph[t] = cgraph /\ nth[t] = n_graph.team
    BY <1>1 DEF Membership, Inside
  <1>3. Len(cgraph) \in Nat
    BY GraphFacts
  <1>4. PICK l \in {"loop", "barrier", "share", "convert"} :
          /\ pc' = [pc EXCEPT ![t] = l]
          /\ \/ /\ l = "barrier" /\ (k >= Len(cgraph) \/ abort = k)
                /\ after'[t] = Exit(t) /\ node_n'[t] = k
             \/ /\ l = "loop" /\ k < Len(cgraph) /\ abort # k /\ OpOf(k) = "nop"
                /\ node_n'[t] = k + 1
             \/ /\ l = "share" /\ k < Len(cgraph) /\ abort # k /\ OpOf(k) = "plain"
                /\ node_n'[t] = k /\ chunk'[t] = t
             \/ /\ l = "convert" /\ k < Len(cgraph) /\ abort # k /\ OpOf(k) = "mul_mat"
                /\ node_n'[t] = k /\ chunk'[t] = t
    <2>1. CASE /\ k >= Len(cgraph) \/ abort = k
               /\ MeetThen(t, Exit(t)) /\ node_n' = node_n
      BY <2>1 DEF MeetThen, TypeOK, ThreadsOK
    <2>2. CASE /\ k < Len(cgraph) /\ abort # k /\ OpOf(k) = "nop"
               /\ node_n' = [node_n EXCEPT ![t] = node_n[t] + 1] /\ pc' = pc
      <3>1. pc' = [pc EXCEPT ![t] = "loop"]
        BY <1>1, <2>2 DEF TypeOK, ThreadsOK
      <3> QED
        BY <2>2, <3>1 DEF TypeOK, ThreadsOK
    <2>3. CASE /\ k < Len(cgraph) /\ abort # k /\ OpOf(k) # "nop"
               /\ pc' = [pc EXCEPT ![t] = IF OpOf(k) = "plain" THEN "share" ELSE "convert"]
               /\ node_n' = node_n /\ chunk' = [chunk EXCEPT ![t] = t]
      <3>1. OpOf(k) \in {"plain", "mul_mat"}
        BY <1>3, <2>3, GraphFacts
      <3>2. chunk'[t] = t
        BY <2>3 DEF TypeOK, ThreadsOK
      <3> QED
        BY <2>3, <3>1, <3>2
    <2> QED
      BY <1>2, <2>1, <2>2, <2>3 DEF Loop, Node, OpOf, Goto
  <1>5. /\ UNCHANGED <<n_graph, cgraph, abort, request, last_graph, pending, my_graph, nth,
                       barrierVars>>
        /\ UNCHANGED <<current_chunk, ec, work>>
        /\ \A u \in Thread \ {t} :
              after'[u] = after[u] /\ node_n'[u] = node_n[u] /\ chunk'[u] = chunk[u]
    BY DEF Loop, MeetThen, poolVars, clientVars, TypeOK, ThreadsOK
  <1>6. /\ Running /\ t \in Team /\ Moves(t, l) /\ at'[t] = l
        /\ Places' /\ Counters' /\ Membership'
    <2>1. pc[t] \in Inside \ {"barrier"} /\ l \in Inside \ {"start"}
      BY <1>1 DEF Inside
    <2> QED
      BY <1>2, <1>4, <1>5, <2>1, InsideStep
  <1> QED
    BY <1>1, <1>4, <1>5, <1>6

(* It keeps to the half the team is in. *)
LEMMA LoopTeam ==
  ASSUME TeamInv, NEW t \in Thread, Loop(t)
  PROVE  TeamRest'
  <1> USE DEF TeamInv
  <1>1. Len(cgraph) \in Nat /\ node_n[t] \in Nat
    BY GraphFacts DEF TypeOK, ThreadsOK
  <1>2. PICK k \in Nat : k = node_n[t]
    BY <1>1
  <1>3. at[t] = "loop"
    BY <1>2, LoopMoves
  <1>4. PICK l \in {"loop", "barrier", "share", "convert"} :
          /\ \/ /\ l = "barrier" /\ (k >= Len(cgraph) \/ abort = k)
                /\ after'[t] = Exit(t) /\ node_n'[t] = k
             \/ /\ l = "loop" /\ k < Len(cgraph) /\ abort # k /\ OpOf(k) = "nop"
                /\ node_n'[t] = k + 1
             \/ /\ l = "share" /\ k < Len(cgraph) /\ abort # k /\ OpOf(k) = "plain"
                /\ node_n'[t] = k
             \/ /\ l = "convert" /\ k < Len(cgraph) /\ abort # k /\ OpOf(k) = "mul_mat"
                /\ node_n'[t] = k
          /\ Running /\ t \in Team /\ Moves(t, l) /\ at'[t] = l
          /\ Places' /\ Counters' /\ Membership'
    BY <1>2, LoopMoves
  <1>5. /\ UNCHANGED <<n_graph, cgraph, abort, request, last_graph, pending, my_graph, nth,
                       barrierVars>>
        /\ \A u \in Thread \ {t} : after'[u] = after[u] /\ node_n'[u] = node_n[u]
    BY <1>2, LoopMoves
  <1>6. \A b, j : Skipped(b, j)' <=> Skipped(b, j)
    BY <1>5 DEF Skipped, OpOf
  <1>7. \A j : OpOf(j)' = OpOf(j)
    BY <1>5 DEF OpOf
  (* A thread behind the last node finds the end of the graph. *)
  <1>8. ASSUME NEW j \in Nat, Behind(t, j)
         PROVE  l = "barrier" /\ Behind(t, j)'
    <2>1. k = j + 1 /\ k = Len(cgraph)
      BY <1>3, <1>2, <1>8 DEF Behind
    <2>2. l = "barrier" /\ after'[t] = Exit(t) /\ node_n'[t] = k
      BY <1>4, <2>1
    <2> QED
      BY <1>5, <1>4, <2>1, <2>2 DEF Behind, Exit
  <1>9. ASSUME NEW b \in 0 .. Len(cgraph), AbortKnown(b)
         PROVE  AbortKnown(b)'
    <2>1. CASE abort = -1
      BY <1>5, <2>1 DEF AbortKnown
    <2>2. CASE /\ abort = b
               /\ \A u \in Team :
                    /\ node_n[u] = b
                    /\ at[u] = "loop" \/ (at[u] = "barrier" /\ after[u] = Exit(u))
      <3>1. l = "barrier" /\ after'[t] = Exit(t) /\ node_n'[t] = b
        BY <1>2, <1>4, <2>2
      <3>2. \A u \in Team \ {t} : at'[u] = at[u] /\ after'[u] = after[u] /\ node_n'[u] = node_n[u]
        BY <1>5, <1>4 DEF Moves, Team, at
      <3> QED
        BY <1>5, <1>4, <2>2, <3>1, <3>2 DEF AbortKnown, Team, Exit
    <2>3. CASE /\ abort = node_n[0] /\ abort > b
               /\ Behind(0, abort - 1) /\ OpOf(abort - 1) # "nop"
      <3>1. PICK j \in Nat : j = abort - 1 /\ abort = j + 1
        BY <2>3, ThreadFacts DEF TypeOK, ThreadsOK
      <3>2. Behind(0, j)'
        <4>1. CASE t = 0
          BY <1>8, <2>3, <3>1, <4>1
        <4>2. CASE t # 0
          <5>1. at'[0] = at[0] /\ after'[0] = after[0] /\ node_n'[0] = node_n[0]
            BY <1>5, <1>4, <4>2, ThreadFacts DEF Moves, at
          <5> QED
            BY <1>5, <2>3, <3>1, <5>1 DEF Behind, Exit
        <4> QED
          BY <4>1, <4>2
      <3>3. node_n'[0] = j + 1
        BY <3>2 DEF Behind
      <3>4. OpOf(j)' # "nop"
        BY <1>7, <2>3, <3>1
      <3>5. abort' = node_n'[0] /\ abort' > b /\ abort' - 1 = j
        BY <1>5, <2>3, <3>1, <3>3
      <3> QED
        BY <3>2, <3>4, <3>5 DEF AbortKnown
    <2> QED
      BY <1>9, <2>1, <2>2, <2>3 DEF AbortKnown
  <1>10. ASSUME NEW b \in 0 .. Len(cgraph), FirstHalf(t, b), AbortKnown(b)
         PROVE  FirstHalf(t, b)'
    <2>1. CASE \E j \in b .. Len(cgraph) - 1 : Skipped(b, j) /\ OpOf(j) = "plain" /\ Behind(t, j)
      <3>1. PICK j \in b .. Len(cgraph) - 1 : Skipped(b, j) /\ OpOf(j) = "plain" /\ Behind(t, j)
        BY <2>1
      <3>2. Behind(t, j)' /\ Skipped(b, j)' /\ OpOf(j)' = "plain"
        BY <1>6, <1>7, <1>8, <3>1
      <3> QED
        BY <1>5, <3>1, <3>2 DEF FirstHalf
    <2>2. CASE k \in b .. Len(cgraph) /\ Skipped(b, k)
      <3>1. CASE l = "barrier"
        <4>1. after'[t] = Exit(t) /\ node_n'[t] = k
          BY <1>4, <3>1
        <4>2. CASE k = Len(cgraph)
          BY <1>5, <1>4, <2>2, <3>1, <4>1, <4>2 DEF FirstHalf, Exit, Skipped, OpOf
        <4>3. CASE k < Len(cgraph) /\ abort = k
          <5>1. k = b
            BY <1>2, <1>1, <1>4, <1>10, <2>2, <4>3 DEF AbortKnown, Skipped
          <5> QED
            BY <1>5, <1>4, <3>1, <4>1, <4>3, <5>1 DEF FirstHalf, Exit
        <4> QED
          BY <1>1, <1>4, <2>2, <3>1, <4>2, <4>3
      <3>2. CASE l = "loop"
        <4>1. node_n'[t] = k + 1 /\ k < Len(cgraph) /\ OpOf(k) = "nop"
          BY <1>4, <3>2
        <4>2. Skipped(b, k + 1)
          BY <2>2, <4>1 DEF Skipped
        <4> QED
          BY <1>5, <1>4, <2>2, <3>2, <4>1, <4>2 DEF FirstHalf, Skipped, OpOf
      <3>3. CASE l \in {"share", "convert"}
        <4>1. /\ node_n'[t] = k /\ k < Len(cgraph)
              /\ OpOf(k) = IF l = "share" THEN "plain" ELSE "mul_mat"
          BY <1>4, <3>3
        <4>2. Skipped(b, k)' /\ OpOf(k)' = OpOf(k)
          BY <1>6, <1>7, <2>2
        <4>3. k \in b .. Len(cgraph) - 1
          BY <1>1, <2>2, <4>1
        <4> QED
          BY <1>5, <1>4, <3>3, <4>1, <4>2, <4>3 DEF FirstHalf
      <3> QED
        BY <3>1, <3>2, <3>3
    <2> QED
      BY <1>3, <1>2, <1>10, <2>1, <2>2 DEF FirstHalf, Outside
  <1>11. ASSUME NEW b \in 0 .. Len(cgraph) - 1, SecondHalf(t, b)
         PROVE  SecondHalf(t, b)'
    BY <1>3, <1>8, <1>11 DEF SecondHalf
  <1>12. Together'
    BY <1>1, <1>5, <1>4, <1>9, <1>10, <1>11, HalfStep
  <1> QED
    BY <1>4, <1>12 DEF TeamRest
-----------------------------------------------------------------------------
(* The barrier opens for the whole team at once.                           *)

(* The node that a half ends at is the same for all: the first one that is *)
(* not empty.                                                              *)
LEMMA OneStop ==
  ASSUME NEW b \in Nat, NEW k \in Nat, NEW j \in Nat, b <= k, b <= j,
         Skipped(b, k), Skipped(b, j), OpOf(k) # "nop", OpOf(j) # "nop"
  PROVE  k = j
  BY DEF Skipped

(* How a thread waits at the end of the first half: inside a product,      *)
(* behind a node, or at the end.                                           *)
Stopped(t, b, k) ==
    /\ Skipped(b, k)
    /\ \/ after[t] = "chunk" /\ node_n[t] = k /\ OpOf(k) = "mul_mat"
       \/ after[t] = "loop" /\ node_n[t] = k + 1 /\ k + 1 < Len(cgraph) /\ OpOf(k) = "plain"
       \/ after[t] = Exit(t) /\ k + 1 = Len(cgraph) /\ OpOf(k) = "plain"

(* A thread waits behind one node, at the end, or the team was aborted. *)
LEMMA StopKinds ==
  ASSUME TeamInv, NEW t \in Team, NEW b \in 0 .. Len(cgraph), AbortKnown(b), FirstHalf(t, b),
         at[t] = "barrier"
  PROVE  \/ \E k \in b .. Len(cgraph) - 1 : Stopped(t, b, k)
         \/ after[t] = Exit(t) /\ Skipped(b, Len(cgraph))
         \/ \A u \in Team : at[u] = "barrier" => after[u] = Exit(u)
  <1>1. CASE /\ node_n[t] \in b .. Len(cgraph) - 1 /\ Skipped(b, node_n[t])
             /\ after[t] = "chunk" /\ OpOf(node_n[t]) = "mul_mat"
    BY <1>1 DEF Stopped
  <1>2. CASE \E k \in b .. Len(cgraph) - 1 : Skipped(b, k) /\ OpOf(k) = "plain" /\ Behind(t, k)
    BY <1>2 DEF Stopped, Behind
  <1>3. CASE after[t] = Exit(t) /\ node_n[t] = Len(cgraph) /\ Skipped(b, node_n[t])
    BY <1>3
  <1>4. CASE after[t] = Exit(t) /\ node_n[t] = b /\ abort = b
    <2>1. abort # -1 /\ ~(abort > b)
      BY <1>4, GraphFacts DEF TeamInv
    <2> QED
      BY <2>1 DEF AbortKnown
  <1> QED
    BY <1>1, <1>2, <1>3, <1>4 DEF FirstHalf, Outside

(* All threads of the team wait for the same continuation. *)
LEMMA SameStop ==
  ASSUME TeamInv, Running, \A t \in Team : at[t] = "barrier"
  PROVE  \/ \E k \in 0 .. Len(cgraph) - 1 :
              /\ OpOf(k) = "mul_mat" /\ abort = -1
              /\ \A t \in Team : after[t] = "chunk" /\ node_n[t] = k
         \/ \E k \in 0 .. Len(cgraph) - 1 :
              /\ k + 1 < Len(cgraph) /\ abort \in {-1, k + 1}
              /\ \A t \in Team : after[t] = "loop" /\ node_n[t] = k + 1
         \/ \A t \in Team : after[t] = Exit(t)
  <1> USE DEF TeamInv
  <1>1. PICK b \in 0 .. Len(cgraph) :
          /\ AbortKnown(b)
          /\ \/ \A t \in Team : FirstHalf(t, b)
             \/ /\ b < Len(cgraph) /\ OpOf(b) = "mul_mat"
                /\ \A t \in Team : SecondHalf(t, b)
    BY DEF Together
  <1>2. 0 \in Team /\ Len(cgraph) \in Nat
    BY ClientInTeam, GraphFacts
  <1>3. ASSUME after[0] \in {"chunk", "loop"}
        PROVE  abort = -1 \/ (after[0] = "loop" /\ abort = node_n[0])
    BY <1>1, <1>2, <1>3 DEF AbortKnown, Behind, Exit
  <1>4. CASE b < Len(cgraph) /\ OpOf(b) = "mul_mat" /\ \A t \in Team : SecondHalf(t, b)
    <2>1. \A t \in Team : Behind(t, b)
      BY <1>4 DEF SecondHalf
    <2>2. CASE b + 1 < Len(cgraph)
      <3>1. \A t \in Team : after[t] = "loop" /\ node_n[t] = b + 1
        BY <1>2, <2>1, <2>2 DEF Behind
      <3> QED
        BY <1>1, <1>2, <1>3, <2>2, <3>1
    <2>3. CASE ~(b + 1 < Len(cgraph))
      BY <2>1, <2>3 DEF Behind
    <2> QED
      BY <2>2, <2>3
  <1>5. CASE \A t \in Team : FirstHalf(t, b)
    <2>1. CASE \A u \in Team : after[u] = Exit(u)
      BY <2>1
    <2>2. CASE \E u \in Team : after[u] # Exit(u)
      <3>1. \A t \in Team :
              \/ \E k \in b .. Len(cgraph) - 1 : Stopped(t, b, k)
              \/ after[t] = Exit(t) /\ Skipped(b, Len(cgraph))
        <4> SUFFICES ASSUME NEW t \in Team
                     PROVE  \/ \E k \in b .. Len(cgraph) - 1 : Stopped(t, b, k)
                            \/ after[t] = Exit(t) /\ Skipped(b, Len(cgraph))
          OBVIOUS
        <4>1. FirstHalf(t, b) /\ at[t] = "barrier" /\ AbortKnown(b)
          BY <1>1, <1>5
        <4> QED
          BY <2>2, <4>1, StopKinds
      <3>2. PICK u \in Team : after[u] # Exit(u)
        BY <2>2
      <3>3. PICK k \in b .. Len(cgraph) - 1 : Stopped(u, b, k)
        BY <3>1, <3>2
      <3>4. k \in Nat /\ b \in Nat /\ b <= k /\ k < Len(cgraph) /\ OpOf(k) # "nop" /\ Skipped(b, k)
        BY <1>2, <3>3 DEF Stopped
      <3>5. ~Skipped(b, Len(cgraph))
        BY <1>2, <3>4 DEF Skipped
      <3>6. ASSUME NEW t \in Team
            PROVE  Stopped(t, b, k)
        <4>1. PICK j \in b .. Len(cgraph) - 1 : Stopped(t, b, j)
          BY <3>1, <3>5
        <4>2. j = k
          BY <1>2, <3>4, <4>1, OneStop DEF Stopped
        <4> QED
          BY <4>1, <4>2
      <3>7. CASE OpOf(k) = "mul_mat"
        <4>1. \A t \in Team : after[t] = "chunk" /\ node_n[t] = k
          BY <3>6, <3>7 DEF Stopped
        <4> QED
          BY <1>2, <1>3, <3>4, <3>7, <4>1
      <3>8. CASE OpOf(k) = "plain"
        <4>1. k + 1 < Len(cgraph)
          BY <3>2, <3>3, <3>8 DEF Stopped
        <4>2. \A t \in Team : after[t] = "loop" /\ node_n[t] = k + 1
          BY <1>2, <3>4, <3>6, <3>8, <4>1 DEF Stopped
        <4> QED
          BY <1>2, <1>3, <3>4, <4>1, <4>2
      <3> QED
        BY <3>3, <3>7, <3>8 DEF Stopped
    <2> QED
      BY <2>1, <2>2
  <1> QED
    BY <1>1, <1>4, <1>5

(* What the team's variables say when the whole team is let go. *)
LEMMA Opens ==
  ASSUME TeamInv, Running, \A t \in Team : at[t] = "barrier" /\ at'[t] = after[t],
         \A t \in Thread \ Team : at'[t] = at[t], pc'[0] # "kickoff",
         UNCHANGED <<n_graph, cgraph, abort, request, after, last_graph, pending, my_graph, nth,
                     node_n>>
  PROVE  Membership' /\ (Running => Together)'
  <1> USE ThreadFacts DEF TeamInv
  <1>1. 0 \in Team /\ Len(cgraph) \in Nat /\ Team' = Team /\ Team \subseteq Thread
    BY ClientInTeam, GraphFacts DEF Team
  <1>2. \A t \in Team : my_graph[t] = cgraph /\ nth[t] = n_graph.team
    BY <1>1 DEF Membership, Inside
  <1>3. \A w \in Worker \cap Team : ~pending[w] /\ last_graph[w] = n_graph
    BY DEF Membership, Inside
  <1>4. \A w \in Worker \ Team : at'[w] \notin Inside /\ ~pending[w]
    BY DEF Membership
  <1>5. CASE /\ \A t \in Team : after[t] \in {"chunk", "loop"}
             /\ Together'
    <2>1. \A t \in Team : at'[t] \in Inside
      BY <1>5 DEF Inside
    <2>2. Running'
      BY <1>1, <2>1 DEF Running
    <2>3. Membership'
      BY <1>1, <1>2, <1>3, <1>4, <2>2 DEF Membership
    <2> QED
      BY <1>5, <2>3
  <1>6. ASSUME NEW k \in 0 .. Len(cgraph) - 1, OpOf(k) = "mul_mat", abort = -1,
               \A t \in Team : after[t] = "chunk" /\ node_n[t] = k
        PROVE  Together'
    <2>1. \A t \in Team : SecondHalf(t, k)'
      BY <1>6 DEF SecondHalf
    <2>2. AbortKnown(k)'
      BY <1>6 DEF AbortKnown
    <2> QED
      BY <1>1, <1>6, <2>1, <2>2 DEF Together, OpOf
  <1>7. ASSUME NEW k \in 0 .. Len(cgraph) - 1, k + 1 < Len(cgraph), abort \in {-1, k + 1},
               \A t \in Team : after[t] = "loop" /\ node_n[t] = k + 1
        PROVE  Together'
    <2>1. PICK b \in 0 .. Len(cgraph) : b = k + 1
      BY <1>1, <1>7
    <2>2. Skipped(b, b)'
      BY <2>1 DEF Skipped
    <2>3. \A t \in Team : FirstHalf(t, b)'
      BY <1>1, <1>7, <2>1, <2>2 DEF FirstHalf, Skipped
    <2>4. AbortKnown(b)'
      BY <1>1, <1>7, <2>1 DEF AbortKnown
    <2> QED
      BY <1>1, <2>1, <2>3, <2>4 DEF Together
  <1>8. CASE \A t \in Team : after[t] = Exit(t)
    <2>1. ~Running' /\ \A w \in Thread : at'[w] \notin Inside
      BY <1>1, <1>4, <1>8 DEF Running, Inside, Exit, Worker
    <2> QED
      BY <1>1, <1>2, <1>3, <1>4, <2>1 DEF Membership
  <1> QED
    BY <1>5, <1>6, <1>7, <1>8, SameStop

(* One access inside the barrier that lets nobody go. *)
LEMMA AtSame ==
  ASSUME TeamInv, at' = at, pc'[0] = "kickoff" => pc[0] = "kickoff",
         UNCHANGED <<n_graph, cgraph, abort, request, after, last_graph, pending, my_graph, nth,
                     node_n>>
  PROVE  Membership' /\ (Running => Together)'
  <1>1. Team' = Team /\ (Running' <=> Running)
    BY DEF Team, Running
  <1>2. Membership'
    BY <1>1 DEF TeamInv, Membership
  <1>3. (Running => Together)'
    BY <1>1 DEF TeamInv, Together, AbortKnown, FirstHalf, SecondHalf, Behind, Skipped, OpOf
  <1> QED
    BY <1>2, <1>3

(* The team has as many threads as n_graph says, and one more completes it *)
(* exactly when n_barrier, the number that came before, says so.           *)
LEMMA LastOfTeam ==
  ASSUME TypeOK, NEW t \in Team, NEW A, A \subseteq Team, t \notin A
  PROVE  /\ Cardinality(A \union {t}) = Cardinality(A) + 1
         /\ A \union {t} = Team <=> Cardinality(A) = n_graph.team - 1
  <1>1. n_graph.team \in 0 .. NThreads
    BY DEF TypeOK, PoolOK, NGraph
  <1>2. Team = 0 .. n_graph.team - 1
    BY <1>1, ThreadFacts DEF Team, Thread
  <1>3. IsFiniteSet(Team) /\ Cardinality(Team) = n_graph.team
    <2>1. n_graph.team \in Int /\ 0 \in Int /\ n_graph.team - 1 \in Int
      BY <1>1, ThreadFacts
    <2>2. n_graph.team - 1 - 0 + 1 = n_graph.team /\ (0 > n_graph.team - 1 => n_graph.team = 0)
      BY <1>1, ThreadFacts
    <2> QED
      BY <1>2, <2>1, <2>2, FS_Interval
  <1>4. IsFiniteSet(A) /\ Cardinality(A) \in Nat
    BY <1>3, FS_Subset, FS_CardinalityType
  <1>5. Cardinality(A \union {t}) = Cardinality(A) + 1
    BY <1>4, FS_AddElement
  <1>6. A \union {t} \subseteq Team
    OBVIOUS
  <1>7. Cardinality(A \union {t}) = Cardinality(Team) <=> A \union {t} = Team
    BY <1>3, <1>6, FS_Subset
  <1> QED
    BY <1>1, <1>3, <1>4, <1>5, <1>7, ThreadFacts
-----------------------------------------------------------------------------
(* ggml_barrier inside the team.                                           *)

(* The whole team passes the barrier. *)
Opened ==
    /\ Running
    /\ \A u \in Team : at[u] = "barrier" /\ at'[u] = after[u]
    /\ \A u \in Thread \ Team : at'[u] = at[u]

(* A thread that waits for others is in the team of the running call. *)
LEMMA AtBarrier ==
  ASSUME TeamInv, NEW t \in Thread, pc[t] = "barrier", ~Released(t)
  PROVE  at[t] = "barrier" /\ Running /\ t \in Team
  <1>1. at[t] = "barrier"
    BY DEF at
  <1> QED
    BY <1>1, InsideFacts DEF TeamInv, Inside

(* What all accesses have in common. *)
LEMMA MeetFrame ==
  ASSUME TeamInv, NEW t \in Thread, Meet(t)
  PROVE  /\ pc[t] = "barrier"
         /\ after[t] \in {Exit(t), "chunk", "loop"} /\ after[t] # "barrier"
         /\ UNCHANGED <<n_graph, cgraph, abort, request, after, last_graph, pending, my_graph, nth,
                        node_n>>
         /\ Team' = Team
         /\ pc' = pc \/ pc' = [pc EXCEPT ![t] = after[t]]
         /\ pc'[0] = "kickoff" => pc[0] = "kickoff"
         /\ Places'
  <1> USE DEF TeamInv
  <1>1. /\ pc[t] = "barrier" /\ after[t] \in {Exit(t), "chunk", "loop"}
        /\ UNCHANGED <<n_graph, cgraph, abort, request, after, last_graph, pending, my_graph, nth,
                       node_n>>
        /\ pc' = pc \/ pc' = [pc EXCEPT ![t] = after[t]]
    BY DEF Meet, Goto, poolVars, localVars, clientVars, Places
  <1>2. Team' = Team
    BY <1>1 DEF Team
  <1>3. pc'[0] = "kickoff" => pc[0] = "kickoff"
    BY <1>1, ThreadFacts DEF TypeOK, ThreadsOK, Exit
  <1>4. Places'
    <2>1. after[t] \in Inside \union (IF t = 0 THEN Client ELSE Outside)
      BY <1>1 DEF Exit, Inside, Client, Outside
    <2>2. CASE pc' = pc
      BY <1>1, <2>2 DEF Places
    <2>3. CASE pc' = [pc EXCEPT ![t] = after[t]]
      BY <1>1, <2>1, <2>3, PlacesKept DEF Exit
    <2> QED
      BY <1>1, <2>2, <2>3
  <1> QED
    BY <1>1, <1>2, <1>3, <1>4 DEF Exit

(* The snapshot of n_barrier_passed. *)
LEMMA BarrierLoadTeam ==
  ASSUME TeamInv, NEW t \in Thread, Meet(t), BarrierLoad(t, n_graph.team), UNCHANGED pc
  PROVE  at' = at /\ Counters'
  <1> USE DEF TeamInv, TypeOK, BarrierOK
  <1>1. /\ bpc[t] = "out" /\ bpc'[t] = "add" /\ n_passed'[t] = n_barrier_passed
        /\ \A u \in Thread \ {t} : bpc'[u] = bpc[u] /\ n_passed'[u] = n_passed[u]
        /\ UNCHANGED <<n_barrier, n_barrier_passed>>
    BY DEF BarrierLoad
  <1>2. at' = at /\ Arrived' = Arrived /\ t \notin Arrived
    BY <1>1, MeetFrame DEF at, Released, Arrived
  <1>3. t \in Team
    BY <1>1, AtBarrier, MeetFrame DEF Released
  <1>4. /\ \A u \in Thread : bpc[u] \notin {"reset", "release"}
        /\ n_barrier = Cardinality(Arrived)
        /\ Arrived = {} \/ Arrived # Team
    BY <1>2, <1>3 DEF Counters
  <1>5. Counters'
    BY <1>1, <1>2, <1>4, MeetFrame DEF Counters
  <1> QED
    BY <1>2, <1>5

(* The fetch_add on n_barrier: whoever completes the team resets it. *)
LEMMA BarrierAddTeam ==
  ASSUME TeamInv, NEW t \in Thread, Meet(t), BarrierAdd(t, n_graph.team), UNCHANGED pc
  PROVE  at' = at /\ Counters'
  <1> USE DEF TeamInv, TypeOK, BarrierOK
  <1>1. /\ bpc[t] = "add" /\ n_barrier' = n_barrier + 1
        /\ bpc'[t] = IF n_barrier = n_graph.team - 1 THEN "reset" ELSE "spin"
        /\ \A u \in Thread \ {t} : bpc'[u] = bpc[u]
        /\ UNCHANGED <<n_passed, n_barrier_passed>>
    BY DEF BarrierAdd
  <1>2. n_passed[t] = n_barrier_passed
    BY <1>1 DEF Counters
  <1>3. at' = at /\ Arrived' = Arrived \union {t} /\ t \notin Arrived
    BY <1>1, <1>2, MeetFrame DEF at, Released, Arrived
  <1>4. t \in Team
    BY <1>1, AtBarrier, MeetFrame DEF Released
  <1>5. /\ \A u \in Thread : bpc[u] \notin {"reset", "release"}
        /\ n_barrier = Cardinality(Arrived)
    BY <1>3, <1>4 DEF Counters
  <1>6. Arrived \subseteq Team
    BY ArrivedFacts, InsideFacts DEF Inside
  <1>7. /\ Cardinality(Arrived') = n_barrier'
        /\ Arrived' = Team <=> n_barrier = n_graph.team - 1
    BY <1>1, <1>3, <1>4, <1>5, <1>6, LastOfTeam
  <1>8. Counters'
    <2>1. \A u \in Thread :
            /\ bpc'[u] # "out" => pc'[u] = "barrier"
            /\ n_passed'[u] <= n_barrier_passed'
            /\ bpc'[u] \in {"add", "reset", "release"} => n_passed'[u] = n_barrier_passed'
      BY <1>1, <1>2, MeetFrame DEF Counters
    <2>2. CASE n_barrier = n_graph.team - 1
      <3>1. \A u \in Team \ {t} : bpc'[u] = "spin"
        BY <1>1, <1>3, <1>5, <1>7, <2>2 DEF Arrived, Team
      <3> QED
        BY <1>1, <1>4, <1>7, <2>1, <2>2, <3>1, MeetFrame DEF Counters
    <2>3. CASE n_barrier # n_graph.team - 1
      <3>1. \A u \in Thread : bpc'[u] \notin {"reset", "release"}
        BY <1>1, <1>5, <2>3
      <3> QED
        BY <1>7, <2>1, <2>3, <3>1, MeetFrame DEF Counters
    <2> QED
      BY <2>2, <2>3
  <1> QED
    BY <1>3, <1>8

(* The last thread clears n_barrier while the others still spin. *)
LEMMA BarrierResetTeam ==
  ASSUME TeamInv, NEW t \in Thread, Meet(t), BarrierReset(t), UNCHANGED pc
  PROVE  at' = at /\ Counters'
  <1> USE DEF TeamInv, TypeOK, BarrierOK
  <1>1. /\ bpc[t] = "reset" /\ bpc'[t] = "release" /\ n_barrier' = 0
        /\ \A u \in Thread \ {t} : bpc'[u] = bpc[u]
        /\ UNCHANGED <<n_passed, n_barrier_passed>>
    BY DEF BarrierReset
  <1>2. at' = at /\ Arrived' = Arrived
    BY <1>1, MeetFrame DEF at, Released, Arrived
  <1>3. t \in Team
    BY <1>1, AtBarrier, MeetFrame DEF Released
  <1>4. Arrived = Team /\ \A u \in Team \ {t} : bpc[u] = "spin"
    BY <1>1, <1>3 DEF Counters
  <1>5. Counters'
    BY <1>1, <1>2, <1>3, <1>4, MeetFrame DEF Counters, Team
  <1> QED
    BY <1>2, <1>5

(* A thread notices that its barrier has opened. *)
LEMMA BarrierSpinTeam ==
  ASSUME TeamInv, NEW t \in Thread, Meet(t), BarrierSpin(t), pc' = [pc EXCEPT ![t] = after[t]]
  PROVE  at' = at /\ Counters'
  <1> USE DEF TeamInv, TypeOK, BarrierOK
  <1>1. /\ bpc[t] = "spin" /\ bpc'[t] = "out" /\ n_passed[t] # n_barrier_passed
        /\ \A u \in Thread \ {t} : bpc'[u] = bpc[u]
        /\ UNCHANGED <<n_barrier, n_passed, n_barrier_passed>>
    BY DEF BarrierSpin
  <1>2. pc'[t] = after[t] /\ \A u \in Thread \ {t} : pc'[u] = pc[u]
    BY DEF ThreadsOK
  <1>3. at' = at /\ Arrived' = Arrived
    BY <1>1, <1>2, MeetFrame DEF at, Released, Arrived
  <1>4. Counters'
    <2>1. \A u \in Thread :
            /\ bpc'[u] # "out" => pc'[u] = "barrier"
            /\ n_passed'[u] <= n_barrier_passed'
            /\ bpc'[u] \in {"add", "reset", "release"} => n_passed'[u] = n_barrier_passed'
      BY <1>1, <1>2 DEF Counters
    <2>2. CASE /\ \A u \in Thread : bpc[u] \notin {"reset", "release"}
               /\ n_barrier = Cardinality(Arrived)
               /\ Arrived = {} \/ Arrived # Team
      <3>1. \A u \in Thread : bpc'[u] \notin {"reset", "release"}
        BY <1>1, <2>2
      <3> QED
        BY <1>1, <1>3, <2>1, <2>2, <3>1, MeetFrame DEF Counters
    <2>3. ASSUME NEW w \in Team, Arrived = Team, \A u \in Team \ {w} : bpc[u] = "spin",
                 bpc[w] = "reset" \/ (bpc[w] = "release" /\ n_barrier = 0)
          PROVE  Counters'
      <3>1. t \notin Team
        BY <1>1, <2>3 DEF Arrived
      <3>2. \A u \in Team : bpc'[u] = bpc[u]
        BY <1>1, <3>1 DEF Team
      <3> QED
        BY <1>1, <1>3, <2>1, <2>3, <3>2, MeetFrame, SMTT(60) DEF Counters
    <2> QED
      BY <2>2, <2>3 DEF Counters
  <1> QED
    BY <1>3, <1>4

(* The increment of n_barrier_passed lets the whole team go. *)
LEMMA BarrierReleaseTeam ==
  ASSUME TeamInv, NEW t \in Thread, Meet(t), BarrierRelease(t), pc' = [pc EXCEPT ![t] = after[t]]
  PROVE  Opened /\ Counters'
  <1> USE DEF TeamInv, TypeOK, BarrierOK
  <1>1. /\ bpc[t] = "release" /\ bpc'[t] = "out" /\ n_barrier_passed' = n_barrier_passed + 1
        /\ \A u \in Thread \ {t} : bpc'[u] = bpc[u]
        /\ UNCHANGED <<n_barrier, n_passed>>
    BY DEF BarrierRelease
  <1>2. pc'[t] = after[t] /\ \A u \in Thread \ {t} : pc'[u] = pc[u]
    BY DEF ThreadsOK
  <1>3. t \in Team /\ Running
    BY <1>1, AtBarrier, MeetFrame DEF Released
  <1>4. Arrived = Team /\ n_barrier = 0 /\ \A u \in Team \ {t} : bpc[u] = "spin"
    BY <1>1, <1>3 DEF Counters
  <1>5. \A u \in Team : at[u] = "barrier"
    BY <1>4, ArrivedFacts
  <1>6. \A u \in Team \ {t} : pc[u] = "barrier" /\ Released(u)'
    BY <1>1, <1>2, <1>4, ArrivedFacts DEF Released, Counters
  <1>7. \A u \in Team : at'[u] = after[u]
    BY <1>2, <1>6, MeetFrame DEF at, Released, Team
  <1>8. \A u \in Thread \ Team : pc[u] # "barrier" \/ Released(u)
    BY AtBarrier
  <1>9. \A u \in Thread \ Team : pc'[u] = pc[u] /\ (Released(u)' <=> Released(u))
    BY <1>1, <1>2, <1>3, <1>8 DEF Released, Counters
  <1>10. \A u \in Thread \ Team : at'[u] = at[u]
    BY <1>9, MeetFrame DEF at
  <1>11. Arrived' = {} /\ \A u \in Thread : bpc'[u] \notin {"add", "reset", "release"}
    <2>1. \A u \in Thread \ Team : bpc[u] \in {"out", "spin"}
      BY <1>8 DEF Released, Counters, BarrierPC
    <2>2. \A u \in Thread : bpc'[u] \in {"out", "spin"}
      BY <1>1, <1>4, <2>1
    <2>3. \A u \in Thread : n_passed'[u] # n_barrier_passed'
      BY <1>1 DEF Counters
    <2> QED
      BY <2>2, <2>3 DEF Arrived
  <1>12. Counters'
    <2>1. \A u \in Thread :
            /\ bpc'[u] # "out" => pc'[u] = "barrier"
            /\ n_passed'[u] <= n_barrier_passed'
      BY <1>1, <1>2 DEF Counters
    <2> QED
      BY <1>1, <1>4, <1>11, <2>1, FS_EmptySet DEF Counters
  <1> QED
    BY <1>3, <1>5, <1>7, <1>10, <1>12 DEF Opened

(* A team of one does not wait. *)
LEMMA BarrierAloneTeam ==
  ASSUME TeamInv, NEW t \in Thread, Meet(t), BarrierAlone(t, n_graph.team),
         pc' = [pc EXCEPT ![t] = after[t]]
  PROVE  Opened /\ Counters'
  <1> USE DEF TeamInv, TypeOK, BarrierOK
  <1>1. bpc[t] = "out" /\ n_graph.team = 1 /\ UNCHANGED barrierVars
    BY DEF BarrierAlone
  <1>2. pc'[t] = after[t] /\ \A u \in Thread \ {t} : pc'[u] = pc[u]
    BY DEF ThreadsOK
  <1>3. t \in Team /\ Running /\ at[t] = "barrier"
    BY <1>1, AtBarrier, MeetFrame DEF Released
  <1>4. Team = {t}
    <2>1. \A u \in Team : u = 0
      BY <1>1, ThreadFacts DEF Team
    <2> QED
      BY <1>3, <2>1
  <1>5. at'[t] = after[t] /\ \A u \in Thread \ {t} : at'[u] = at[u]
    BY <1>1, <1>2, MeetFrame, SMTT(60) DEF at, Released, barrierVars
  <1>6. Arrived' = Arrived
    BY <1>1 DEF Arrived, barrierVars
  <1>7. Counters'
    <2>1. \A u \in Thread : bpc'[u] # "out" => pc'[u] = "barrier"
      BY <1>1, <1>2 DEF Counters, barrierVars
    <2> QED
      BY <1>1, <1>6, <2>1, MeetFrame DEF Counters, barrierVars
  <1> QED
    BY <1>3, <1>4, <1>5, <1>7 DEF Opened

(* An access lets nobody go, or the whole team. *)
LEMMA MeetMoves ==
  ASSUME TeamInv, NEW t \in Thread, Meet(t)
  PROVE  /\ at' = at \/ Opened
         /\ Counters'
  BY BarrierLoadTeam, BarrierAddTeam, BarrierResetTeam, BarrierSpinTeam, BarrierReleaseTeam,
     BarrierAloneTeam DEF Meet, Goto

(* An access to the barrier keeps the team together. *)
LEMMA MeetTeam ==
  ASSUME TeamInv, NEW t \in Thread, Meet(t)
  PROVE  TeamRest'
  <1>1. CASE at' = at
    BY <1>1, MeetFrame, MeetMoves, AtSame DEF TeamRest
  <1>2. CASE Opened
    <2>1. pc[0] # "kickoff"
      BY <1>2, AtFacts, ThreadFacts DEF Opened, Running, Inside, TeamInv
    <2> QED
      BY <1>2, <2>1, MeetFrame, MeetMoves, Opens DEF Opened, TeamRest
  <1> QED
    BY <1>1, <1>2, MeetMoves
-----------------------------------------------------------------------------
(* A thread that computes a graph. *)
LEMMA GraphTeam ==
  ASSUME TeamInv, NEW t \in Thread, GraphStep(t)
  PROVE  TeamRest'
  <1> USE DEF Goto, poolVars, localVars, clientVars
  <1>1. CASE Share(t)
    BY <1>1, OperatorTeam DEF Share
  <1>2. CASE Convert(t)
    <2>1. /\ after'[t] = "chunk" /\ \A u \in Thread \ {t} : after'[u] = after[u]
          /\ pc' = [pc EXCEPT ![t] = "barrier"]
      BY <1>2 DEF Convert, MeetThen, TeamInv, TypeOK, ThreadsOK
    <2> QED
      BY <1>2, <2>1, OperatorTeam DEF Convert
  <1>3. CASE Chunk(t)
    <2>1. PICK l \in {"computed", "next_chunk"} : pc' = [pc EXCEPT ![t] = l]
      BY <1>3 DEF Chunk
    <2> QED
      BY <1>3, <2>1, OperatorTeam DEF Chunk
  <1>4. CASE NextChunk(t)
    BY <1>4, OperatorTeam DEF NextChunk
  <1> QED
    BY <1>1, <1>2, <1>3, <1>4, StartTeam, LoopTeam, ComputedTeam, MeetTeam DEF GraphStep

(* Every step of the pool preserves the inductive invariant. *)
LEMMA StepTeam == TeamInv /\ [Next]_vars => TeamInv'
  <1> SUFFICES ASSUME TeamInv, [Next]_vars PROVE TeamInv'
    OBVIOUS
  <1>1. TypeOK'
    BY StepType DEF TeamInv
  <1>2. CASE Freed \/ UNCHANGED vars
    <2>1. TeamRest'
      BY <1>2, TeamSame DEF Freed, vars, poolVars, threadVars, localVars, clientVars
    <2> QED
      BY <1>1, <2>1 DEF TeamRest, TeamInv
  <1>3. CASE Next
    <2>1. TeamRest'
      BY <1>2, <1>3, ClientTeam, WorkerTeam, GraphTeam DEF Next, TeamRest, TeamInv
    <2> QED
      BY <1>1, <2>1 DEF TeamRest, TeamInv
  <1> QED
    BY <1>2, <1>3

(* Who computes which node, who has arrived and what the counters hold is  *)
(* an invariant of the pool.                                               *)
THEOREM TeamInvariance == Spec => []TeamInv
  BY InitTeam, StepTeam, PTL DEF Spec

(* No thread of a call is in another node or another phase of a node than  *)
(* the rest of its team, and all split the work by the same team size.     *)
THEOREM TeamInLockstep == Spec => []Lockstep
  <1>1. TeamInv => Lockstep
    <2> SUFFICES ASSUME TeamInv, NEW t \in Computing, NEW u \in Computing
                 PROVE  Phase(t) = Phase(u) /\ my_graph[t] = my_graph[u] /\ nth[t] = nth[u]
      BY DEF Lockstep
    <2> USE DEF TeamInv
    <2>1. \A x \in Computing : x \in Thread /\ at[x] = pc[x] /\ at[x] \in Inside \ {"start"}
      BY AtFacts DEF Computing, Inside
    <2>2. Running /\ t \in Team /\ u \in Team
      BY <2>1, InsideFacts
    <2>3. my_graph[t] = my_graph[u] /\ nth[t] = nth[u]
      BY <2>1 DEF Membership
    <2>4. PICK b \in 0 .. Len(cgraph) :
            \/ \A x \in Team : FirstHalf(x, b)
            \/ \A x \in Team : SecondHalf(x, b)
      BY <2>2 DEF Together
    <2>5. CASE \A x \in Team : FirstHalf(x, b)
      <3>1. \A x \in {t, u} :
              /\ node_n[x] \in b .. Len(cgraph) - 1 /\ Skipped(b, node_n[x])
              /\ \/ pc[x] = "share" /\ OpOf(node_n[x]) = "plain"
                 \/ pc[x] = "convert" /\ OpOf(node_n[x]) = "mul_mat"
        BY <2>1, <2>2, <2>5 DEF FirstHalf, Behind, Computing, Outside
      <3>2. node_n[t] = node_n[u]
        BY <3>1, GraphFacts, OneStop
      <3> QED
        BY <2>3, <3>1, <3>2 DEF Phase
    <2>6. CASE \A x \in Team : SecondHalf(x, b)
      <3>1. \A x \in {t, u} : pc[x] \in {"chunk", "next_chunk"} /\ node_n[x] = b
        BY <2>1, <2>2, <2>6 DEF SecondHalf, Behind, Computing
      <3> QED
        BY <2>3, <3>1 DEF Phase
    <2> QED
      BY <2>4, <2>5, <2>6
  <1> QED
    BY <1>1, TeamInvariance, PTL

(* "No worker threads should be accessing the parameters below at this     *)
(* stage": the client resets them only when every worker is past the last  *)
(* barrier of the previous call, or has not taken a graph.                 *)
THEOREM ParametersSafe == Spec => []ParametersAtRest
  <1>1. TeamInv => ParametersAtRest
    <2> SUFFICES ASSUME TeamInv, pc[0] \in {"idle", "kickoff"}, NEW t \in Reading, t # 0
                 PROVE  FALSE
      BY DEF ParametersAtRest
    <2> USE DEF TeamInv
    <2>1. t \in Worker /\ t \in Thread
      BY DEF Reading, Computing, Worker
    <2>2. ~Running
      <3>1. at[0] = pc[0]
        BY AtFacts, ThreadFacts
      <3> QED
        BY <3>1 DEF Running, Inside
    <2>3. at[t] \notin Inside /\ ~pending[t]
      BY <2>1, <2>2 DEF Membership
    <2>4. pc[t] = "barrier" /\ bpc[t] # "spin"
      BY <2>1, <2>3, AtFacts DEF Reading, Computing, Inside
    <2> QED
      BY <2>1, <2>2, <2>4, AtBarrier DEF Released
  <1> QED
    BY <1>1, TeamInvariance, PTL
-----------------------------------------------------------------------------
(* The fork-join.                                                          *)

(* The inductive invariant: which pieces have been computed.               *)

Done == BagToSet(work)

(* Thread t has done what it does for node k. *)
Past(t, k) ==
    /\ at[t] \in Inside \ {"start"}
    /\ node_n[t] > k \/ (node_n[t] = k /\ at[t] = "computed")

(* Thread t hands out chunks of node k to itself, or computes chunk p. *)
Hunts(t, k) == at[t] \in {"chunk", "next_chunk"} /\ node_n[t] = k
Holds(t, k, p) == at[t] = "chunk" /\ node_n[t] = k /\ chunk[t] = p

(* A share of the rows is computed when its thread is past the node.  A    *)
(* chunk of a product is computed when it was handed out and nobody works  *)
(* on it any more, or when the team is past the product.                   *)
Finished(k, p) ==
    IF OpOf(k) = "plain"
    THEN Past(p, k)
    ELSE IF \E t \in Team : Hunts(t, k)
         THEN p < current_chunk /\ \A t \in Team : ~Holds(t, k, p)
         ELSE \E t \in Team : Past(t, k)

(* The pieces of node k. *)
Shares(k) == Pieces(cgraph[k + 1], request)

WorkDone ==
    /\ Done \subseteq F!UpTo(Len(cgraph))
    /\ \A k \in 0 .. Len(cgraph) - 1 : \A p \in Shares(k) : <<k, p>> \in Done <=> Finished(k, p)

(* The chunks that threads hold were handed out, each to one thread; the   *)
(* first ones were taken by number.                                        *)
Chunks ==
    /\ \A t \in Thread :
         /\ at[t] \in {"share", "convert"} => chunk[t] = t
         /\ at[t] = "barrier" /\ after[t] = "chunk" => chunk[t] = t
         /\ at[t] \in {"chunk", "next_chunk"} => current_chunk >= n_graph.team
         /\ at[t] = "chunk" => chunk[t] < current_chunk
         /\ \A u \in Thread \ {t} : at[t] = "chunk" /\ at[u] = "chunk" => chunk[t] # chunk[u]
    /\ at[0] = "barrier" /\ after[0] = "chunk" => current_chunk = n_graph.team

(* The status that the call will return. *)
Status ==
    Running \/ pc[0] = "kickoff" =>
        \/ abort = -1 /\ ec = "success"
        \/ abort >= 1 /\ ec = "aborted"

(* All the work that the call's status promises. *)
Complete ==
    IF ec = "success"
    THEN Done = F!UpTo(Len(cgraph))
    ELSE \E k \in 1 .. Len(cgraph) : Done = F!UpTo(k)

(* The client's last barrier was released, or the call has only begun. *)
Ends ==
    /\ pc[0] = "barrier" /\ at[0] = "idle" => Complete
    /\ pc[0] = "kickoff" => Done = {}

WorkInv == Chunks /\ Status /\ Ends /\ (Running => WorkDone)

ForkJoinInv == TeamInv /\ WorkInv

-----------------------------------------------------------------------------
(* Pieces, and the sets of pieces.                                         *)

(* Computing a piece adds it to the pieces computed. *)
LEMMA Adds ==
  ASSUME NEW q, work' = work (+) SetToBag({q})
  PROVE  Done' = Done \union {q}
  BY DEF Done, BagToSet, SetToBag, (+)

(* The pieces of the nodes in front of node n. *)
LEMMA UpToFacts ==
  ASSUME NEW n, NEW q
  PROVE  q \in F!UpTo(n) <=> \E k \in 0 .. n - 1 : \E p \in Shares(k) : q = <<k, p>>
  BY DEF F!UpTo, F!NodePieces, Shares

(* An empty node has no pieces, any other one at least one for each thread *)
(* of the team; the rows are split into exactly that many.                 *)
LEMMA ShareFacts ==
  ASSUME TeamInv, Running, NEW k \in 0 .. Len(cgraph) - 1
  PROVE  /\ OpOf(k) \in {"nop", "plain", "mul_mat"}
         /\ OpOf(k) = "nop" => Shares(k) = {}
         /\ OpOf(k) = "plain" => Shares(k) = Team
         /\ OpOf(k) = "mul_mat" =>
              /\ NumChunks(cgraph[k + 1], n_graph.team) \in Nat
              /\ NumChunks(cgraph[k + 1], n_graph.team) >= n_graph.team
              /\ Shares(k) = 0 .. NumChunks(cgraph[k + 1], n_graph.team) - 1
  <1> USE DEF TeamInv
  <1>1. OpOf(k) \in {"nop", "plain", "mul_mat"}
    BY GraphFacts
  <1>2. request = n_graph.team /\ request \in 0 .. NThreads
    BY DEF Membership, TypeOK, PoolOK
  <1>3. Team = 0 .. request - 1
    BY <1>2, ThreadFacts DEF Team, Thread
  <1>4. cgraph[k + 1].plan \in Nat
    <2>1. cgraph[k + 1] \in Nodes
      BY GraphFacts
    <2> QED
      BY <2>1 DEF Nodes
  <1> QED
    BY <1>1, <1>2, <1>3, <1>4, ThreadFacts, SMTT(60) DEF OpOf, Shares, Pieces, NumChunks
-----------------------------------------------------------------------------
(* How the pieces that are finished change.                                *)

(* No piece is computed, and none is finished that was not. *)
LEMMA WorkKept ==
  ASSUME WorkDone, UNCHANGED <<cgraph, request, work>>,
         \A k \in 0 .. Len(cgraph) - 1 : \A p \in Shares(k) : Finished(k, p)' <=> Finished(k, p)
  PROVE  WorkDone'
  <1>1. Done' = Done /\ F!UpTo(Len(cgraph))' = F!UpTo(Len(cgraph))
    BY DEF Done, F!UpTo, F!NodePieces
  <1>2. \A k : Shares(k)' = Shares(k)
    BY DEF Shares
  <1> QED
    BY <1>1, <1>2 DEF WorkDone

(* One piece is computed, and is what is finished now. *)
LEMMA WorkAdds ==
  ASSUME WorkDone, UNCHANGED <<cgraph, request>>, NEW j \in 0 .. Len(cgraph) - 1, NEW c \in Shares(j),
         work' = work (+) SetToBag({<<j, c>>}),
         \A k \in 0 .. Len(cgraph) - 1 : \A p \in Shares(k) :
            Finished(k, p)' <=> Finished(k, p) \/ (k = j /\ p = c)
  PROVE  WorkDone'
  <1>1. Done' = Done \union {<<j, c>>} /\ F!UpTo(Len(cgraph))' = F!UpTo(Len(cgraph))
    BY Adds DEF F!UpTo, F!NodePieces
  <1>2. <<j, c>> \in F!UpTo(Len(cgraph))
    BY UpToFacts
  <1>3. \A k : Shares(k)' = Shares(k)
    BY DEF Shares
  <1>4. \A k \in 0 .. Len(cgraph) - 1 : \A p \in Shares(k) :
            <<k, p>> \in Done' <=> Finished(k, p)'
    BY <1>1 DEF WorkDone
  <1> QED
    BY <1>1, <1>2, <1>3, <1>4 DEF WorkDone

(* A piece that the thread that moves has nothing to do with. *)
LEMMA FinishedKept ==
  ASSUME TeamInv, Running, NEW t \in Thread, NEW l, Moves(t, l),
         \A u \in Thread \ {t} : chunk'[u] = chunk[u],
         NEW j \in 0 .. Len(cgraph) - 1, NEW p \in Shares(j),
         Past(t, j)' <=> Past(t, j), Hunts(t, j)' <=> Hunts(t, j),
         \A q : Holds(t, j, q)' <=> Holds(t, j, q),
         current_chunk' = current_chunk \/ \A u \in Team : ~Hunts(u, j)
  PROVE  Finished(j, p)' <=> Finished(j, p)
  <1>1. \A u \in Thread \ {t} : at'[u] = at[u] /\ node_n'[u] = node_n[u]
    BY DEF Moves, at
  <1>2. \A u \in Thread :
          /\ Past(u, j)' <=> Past(u, j)
          /\ Hunts(u, j)' <=> Hunts(u, j)
          /\ \A q : Holds(u, j, q)' <=> Holds(u, j, q)
    BY <1>1 DEF Past, Hunts, Holds
  <1>3. Team' = Team /\ Team \subseteq Thread /\ OpOf(j)' = OpOf(j)
    BY DEF Moves, Team, OpOf
  <1>4. CASE OpOf(j) = "plain"
    <2>1. p \in Thread
      BY <1>3, <1>4, ShareFacts
    <2> QED
      BY <1>2, <1>3, <1>4, <2>1 DEF Finished
  <1>5. CASE OpOf(j) # "plain"
    BY <1>2, <1>3, <1>5 DEF Finished
  <1> QED
    BY <1>4, <1>5
-----------------------------------------------------------------------------
(* Steps that leave the work alone.                                        *)

(* While the call goes on, its status changes only from success to abort. *)
LEMMA RunningStep ==
  ASSUME ForkJoinInv, Running, Running', Chunks', WorkDone',
         (abort' = abort /\ ec' = ec) \/ (abort' >= 1 /\ ec' = "aborted")
  PROVE  WorkInv'
  <1>1. Status'
    BY DEF ForkJoinInv, WorkInv, Status
  <1>2. at'[0] # "idle" /\ pc'[0] # "kickoff"
    BY ThreadFacts DEF Running, Inside, at, Released
  <1>3. Ends'
    BY <1>2 DEF Ends
  <1> QED
    BY <1>1, <1>3 DEF WorkInv

(* Nobody computes: nobody has a chunk. *)
LEMMA NoChunks ==
  ASSUME \A t \in Thread : at'[t] \notin Inside
  PROVE  Chunks'
  BY ThreadFacts DEF Chunks, Inside

(* A step of one thread that hands out no chunk, and after which the       *)
(* thread works on none.                                                   *)
LEMMA ChunksKept ==
  ASSUME Chunks, NEW t \in Thread, NEW l, Moves(t, l), at'[t] = l, l # "chunk",
         \A u \in Thread \ {t} : chunk'[u] = chunk[u], UNCHANGED current_chunk,
         l \in {"share", "convert"} => chunk'[t] = t,
         l = "barrier" => after'[t] # "chunk",
         l = "next_chunk" => at[t] = "chunk"
  PROVE  Chunks'
  <1>1. \A u \in Thread \ {t} : at'[u] = at[u] /\ after'[u] = after[u]
    BY DEF Moves, at
  <1>2. n_graph' = n_graph
    BY DEF Moves
  <1> QED
    BY <1>1, <1>2, ThreadFacts DEF Chunks

(* Steps outside the node loop, and inside the barrier. *)
LEMMA IdleStep ==
  ASSUME ForkJoinInv,
         UNCHANGED <<n_graph, cgraph, request, work, current_chunk, abort, ec, chunk, node_n, after>>,
         \A u \in Thread : \/ at'[u] = at[u]
                           \/ at[u] \notin Inside \ {"start"} /\ at'[u] \notin Inside \ {"start"},
         Running' => Running, pc'[0] = "kickoff" => pc[0] = "kickoff",
         pc'[0] = "barrier" /\ at'[0] = "idle" => pc[0] = "barrier" /\ at[0] = "idle"
  PROVE  WorkInv'
  <1> USE DEF ForkJoinInv, WorkInv
  <1>1. \A u \in Thread : at'[u] \in Inside \ {"start"} \/ at[u] \in Inside \ {"start"} => at'[u] = at[u]
    OBVIOUS
  <1>2. Chunks'
    BY <1>1, ThreadFacts DEF Chunks, Inside
  <1>3. Status'
    BY DEF Status
  <1>4. Done' = Done /\ \A n : F!UpTo(n)' = F!UpTo(n)
    BY DEF Done, F!UpTo, F!NodePieces
  <1>5. Ends'
    BY <1>4 DEF Ends, Complete
  <1>6. ASSUME Running'
        PROVE  WorkDone'
    <2>1. \A k \in 0 .. Len(cgraph) - 1 : \A u \in Thread :
            /\ Past(u, k)' <=> Past(u, k)
            /\ Hunts(u, k)' <=> Hunts(u, k)
            /\ \A q : Holds(u, k, q)' <=> Holds(u, k, q)
      BY <1>1 DEF Past, Hunts, Holds, Inside
    <2>2. Team' = Team /\ Team \subseteq Thread /\ \A k : OpOf(k)' = OpOf(k)
      BY DEF Team, OpOf
    <2>3. \A k \in 0 .. Len(cgraph) - 1 : \A p \in Shares(k) : Finished(k, p)' <=> Finished(k, p)
      <3> SUFFICES ASSUME NEW k \in 0 .. Len(cgraph) - 1, NEW p \in Shares(k)
                   PROVE  Finished(k, p)' <=> Finished(k, p)
        OBVIOUS
      <3>1. OpOf(k) = "plain" => p \in Thread
        BY <1>6, <2>2, ShareFacts
      <3> QED
        BY <2>1, <2>2, <3>1 DEF Finished
    <2> QED
      BY <1>6, <2>3, WorkKept
  <1> QED
    BY <1>2, <1>3, <1>5, <1>6
-----------------------------------------------------------------------------
(* The invariant is kept.                                                  *)

(* The pool as it is created. *)
LEMMA InitWork == Init => WorkInv
  <1> SUFFICES ASSUME Init PROVE WorkInv
    OBVIOUS
  <1>1. at = [t \in Thread |-> IF t = 0 THEN "idle" ELSE "top"]
    BY DEF Init, BarrierInit, at, Released
  <1> QED
    BY <1>1, ThreadFacts DEF Init, WorkInv, Chunks, Status, Ends, Running, Inside

(* A new call has computed nothing, and starts with status success. *)
LEMMA ComputeWork ==
  ASSUME ForkJoinInv, NEW g \in Graphs, NEW n \in Requests, Compute(g, n), TeamInv'
  PROVE  WorkInv'
  <1> USE ThreadFacts DEF ForkJoinInv
  <1>1. pc'[0] = "kickoff" /\ abort' = -1 /\ ec' = "success" /\ work' = EmptyBag
    BY DEF Compute, Goto, TeamInv, TypeOK, ThreadsOK
  <1>2. ~Running'
    BY <1>1 DEF Running, Inside, at, Released
  <1>3. \A t \in Thread : at'[t] \notin Inside
    BY <1>2 DEF TeamInv, Membership, Running, Worker
  <1>4. Chunks'
    BY <1>3, NoChunks
  <1>5. Done' = {}
    BY <1>1 DEF Done, BagToSet, EmptyBag, SetToBag
  <1> QED
    BY <1>1, <1>2, <1>4, <1>5 DEF WorkInv, Status, Ends

(* At the announcement nobody has computed anything. *)
LEMMA AnnounceWork ==
  ASSUME ForkJoinInv, Announce
  PROVE  WorkInv'
  <1> USE ThreadFacts DEF ForkJoinInv, TeamInv
  <1>1. /\ pc[0] = "kickoff" /\ pc' = [pc EXCEPT ![0] = "broadcast"]
        /\ UNCHANGED <<cgraph, abort, ec, request, after, node_n, chunk, work, barrierVars>>
    BY DEF Announce, Goto, localVars, clientVars
  <1>2. at[0] = "kickoff" /\ at' = [at EXCEPT ![0] = "broadcast"]
    BY <1>1, AtMove, AtFacts
  <1>3. \A t \in Thread : at'[t] \notin Inside
    <2>1. ~Running
      BY <1>2 DEF Running, Inside
    <2>2. \A t \in Thread : at[t] \notin Inside
      BY <2>1, InsideFacts
    <2> QED
      BY <1>2, <2>2 DEF at, Inside
  <1>4. Chunks'
    BY <1>3, NoChunks
  <1>5. Status' /\ Ends'
    BY <1>1 DEF WorkInv, Status, Ends, TypeOK, ThreadsOK
  <1>6. WorkDone'
    <2>1. Done' = {}
      BY <1>1 DEF WorkInv, Ends, Done
    <2>2. Team' \subseteq Thread
      BY DEF Team
    <2>3. \A t \in Thread : \A k : ~Past(t, k)' /\ ~Hunts(t, k)'
      BY <1>3 DEF Past, Hunts, Inside
    <2>4. cgraph' = cgraph /\ request' = request /\ request \in 0 .. NThreads
      BY <1>1 DEF TypeOK, PoolOK
    <2>5. \A k \in 0 .. Len(cgraph') - 1 : \A p \in Shares(k)' : ~Finished(k, p)'
      <3> SUFFICES ASSUME NEW k \in 0 .. Len(cgraph) - 1, NEW p \in Shares(k)'
                   PROVE  ~Finished(k, p)'
        BY <2>4
      <3>1. OpOf(k)' = "plain" => p \in Thread
        BY <2>4 DEF OpOf, Shares, Pieces, Thread
      <3> QED
        BY <2>2, <2>3, <3>1 DEF Finished
    <2> QED
      BY <2>1, <2>5 DEF WorkDone
  <1> QED
    BY <1>4, <1>5, <1>6 DEF WorkInv

(* The other calls of the client, and the end of the kickoff. *)
LEMMA ClientWork ==
  ASSUME ForkJoinInv, ClientCall \/ ClientStep, TeamInv'
  PROVE  WorkInv'
  <1> USE ThreadFacts DEF ForkJoinInv, TeamInv
  <1>1. ASSUME pc[0] \in Client, NEW l \in Client \union {"start"}, l # "kickoff",
               l = "start" => pc[0] = "broadcast", l = "broadcast" => pc[0] = "broadcast",
               pc' = [pc EXCEPT ![0] = l],
               UNCHANGED <<n_graph, cgraph, request, work, current_chunk, abort, ec, chunk, node_n,
                           after, barrierVars>>
        PROVE  WorkInv'
    <2>1. pc[0] # "barrier"
      BY <1>1, PlaceFacts
    <2>2. at[0] = pc[0] /\ at'[0] = l /\ \A u \in Thread \ {0} : at'[u] = at[u]
      BY <1>1, <2>1, AtMove, AtFacts
    <2>3. pc'[0] = l /\ l # "barrier"
      BY <1>1, PlaceFacts DEF TypeOK, ThreadsOK, Inside
    <2> QED
      BY <1>1, <2>2, <2>3, PlaceFacts, IdleStep DEF Running
  <1>2. ASSUME NEW p \in BOOLEAN, SetPause(p)
        PROVE  WorkInv'
    <2>1. pc'[0] = pc[0] /\ at' = at
      BY <1>2 DEF SetPause, at, Released, threadVars, localVars, barrierVars
    <2>2. Running' <=> Running
      BY <2>1 DEF Running
    <2> QED
      BY <1>2, <2>1, <2>2, IdleStep DEF SetPause, threadVars, localVars
  <1>3. CASE Stop \/ Unpause \/ Join \/ Broadcast
    BY <1>1, <1>3 DEF Stop, Unpause, Join, Broadcast, Goto, Client, poolVars, localVars, clientVars
  <1> QED
    BY <1>2, <1>3, ComputeWork, AnnounceWork DEF ClientCall, ClientStep, ForkJoinInv

(* A worker between graphs. *)
LEMMA WorkerWork ==
  ASSUME ForkJoinInv, NEW t \in Worker, WorkerStep(t) \/ SpuriousWake(t)
  PROVE  WorkInv'
  <1> USE ThreadFacts DEF ForkJoinInv, TeamInv
  <1>1. CASE SpuriousWake(t)
    <2>1. pc'[0] = pc[0] /\ at' = at
      BY <1>1 DEF SpuriousWake, at, Released, threadVars, localVars, barrierVars
    <2>2. Running' <=> Running
      BY <2>1 DEF Running
    <2> QED
      BY <1>1, <2>1, <2>2, IdleStep DEF SpuriousWake, threadVars, localVars, clientVars
  <1>2. CASE WorkerStep(t)
    <2>1. PICK l \in Outside \union {"start"} : pc' = [pc EXCEPT ![t] = l]
      BY <1>2, WorkerMoves
    <2>2. /\ pc[t] \in Outside /\ t \in Thread /\ t # 0
          /\ UNCHANGED <<n_graph, cgraph, abort, request, after, node_n, barrierVars>>
      BY <1>2, WorkerMoves DEF Worker
    <2>3. UNCHANGED <<work, current_chunk, ec, chunk>>
      BY <1>2 DEF WorkerStep, Top, PauseLock, CheckStop, PollStop, PollPause, PollGraph, Polled,
                  WorkLock, CondWait, Awake, Take, poolVars, localVars, clientVars
    <2>4. at[t] = pc[t] /\ at'[t] = l /\ \A u \in Thread \ {t} : at'[u] = at[u]
      BY <2>1, <2>2, PlaceFacts, AtMove, AtFacts
    <2>5. pc'[0] = pc[0] /\ at'[0] = at[0]
      BY <2>1, <2>2, <2>4 DEF TypeOK, ThreadsOK
    <2>6. Running' <=> Running
      BY <2>5 DEF Running
    <2> QED
      BY <2>2, <2>3, <2>4, <2>5, <2>6, PlaceFacts, IdleStep
  <1> QED
    BY <1>1, <1>2
-----------------------------------------------------------------------------
(* A thread of the team goes on in the graph without computing a piece.    *)

(* What has to be shown of such a step: which chunks are held, and that    *)
(* what the thread has finished stays the same.                            *)
LEMMA GoOn ==
  ASSUME ForkJoinInv, NEW t \in Team, NEW l \in Inside, Running, Moves(t, l), at'[t] = l, Chunks',
         UNCHANGED work, \A u \in Thread \ {t} : chunk'[u] = chunk[u],
         (abort' = abort /\ ec' = ec) \/ (abort' >= 1 /\ ec' = "aborted"),
         \A j \in 0 .. Len(cgraph) - 1 :
            OpOf(j) = "nop" \/
            /\ Past(t, j)' <=> Past(t, j)
            /\ Hunts(t, j)' <=> Hunts(t, j)
            /\ \A q : Holds(t, j, q)' <=> Holds(t, j, q)
            /\ current_chunk' = current_chunk \/ \A u \in Team : ~Hunts(u, j)
  PROVE  WorkInv'
  <1> USE DEF ForkJoinInv
  <1>1. Running'
    BY ThreadFacts DEF Moves, Running, at
  <1>2. t \in Thread /\ UNCHANGED <<cgraph, request>>
    BY DEF Team, Moves
  <1>3. \A j \in 0 .. Len(cgraph) - 1 : \A p \in Shares(j) : Finished(j, p)' <=> Finished(j, p)
    BY <1>2, FinishedKept, ShareFacts
  <1>4. WorkDone'
    BY <1>2, <1>3, WorkKept DEF WorkInv
  <1> QED
    BY <1>1, <1>4, RunningStep

(* A thread that takes up the graph has done nothing of it. *)
LEMMA StartWork ==
  ASSUME ForkJoinInv, NEW t \in Thread, Start(t)
  PROVE  WorkInv'
  <1> USE DEF ForkJoinInv, TeamInv
  <1>1. /\ pc[t] = "start" /\ pc' = [pc EXCEPT ![t] = "loop"] /\ abort' = abort
        /\ my_graph'[t] = cgraph /\ nth'[t] = n_graph.team /\ node_n'[t] = 0
        /\ UNCHANGED <<n_graph, cgraph, request, last_graph, pending, barrierVars>>
        /\ UNCHANGED <<current_chunk, chunk, ec, work>>
        /\ \A u \in Thread \ {t} :
              /\ after'[u] = after[u] /\ node_n'[u] = node_n[u]
              /\ my_graph'[u] = my_graph[u] /\ nth'[u] = nth[u]
    BY DEF Start, Goto, poolVars, clientVars, TypeOK, ThreadsOK
  <1>2. Running /\ t \in Team /\ Moves(t, "loop") /\ at[t] = "start" /\ at'[t] = "loop"
    BY <1>1, InsideStep DEF Inside
  <1>3. Chunks'
    BY <1>1, <1>2, ChunksKept DEF WorkInv
  <1>4. \A j \in 0 .. Len(cgraph) - 1 :
          /\ Past(t, j)' <=> Past(t, j)
          /\ Hunts(t, j)' <=> Hunts(t, j)
          /\ \A q : Holds(t, j, q)' <=> Holds(t, j, q)
    BY <1>1, <1>2 DEF Past, Hunts, Holds
  <1> QED
    BY <1>1, <1>2, <1>3, <1>4, GoOn DEF Inside

(* The head of the node loop: only an empty node is passed. *)
LEMMA LoopWork ==
  ASSUME ForkJoinInv, NEW t \in Thread, Loop(t)
  PROVE  WorkInv'
  <1> USE DEF ForkJoinInv
  <1>1. node_n[t] \in Nat
    BY DEF TeamInv, TypeOK, ThreadsOK
  <1>2. PICK k \in Nat : k = node_n[t]
    BY <1>1
  <1>3. /\ at[t] = "loop"
        /\ UNCHANGED <<n_graph, cgraph, abort, request, current_chunk, ec, work>>
        /\ \A u \in Thread \ {t} : chunk'[u] = chunk[u]
    BY <1>2, LoopMoves
  <1>4. PICK l \in {"loop", "barrier", "share", "convert"} :
          /\ \/ l = "barrier" /\ after'[t] = Exit(t) /\ node_n'[t] = k
             \/ l = "loop" /\ OpOf(k) = "nop" /\ node_n'[t] = k + 1
             \/ l \in {"share", "convert"} /\ node_n'[t] = k /\ chunk'[t] = t
          /\ Running /\ t \in Team /\ Moves(t, l) /\ at'[t] = l
    BY <1>2, LoopMoves
  <1>5. Chunks'
    BY <1>3, <1>4, ChunksKept DEF WorkInv, Exit
  <1>6. \A j \in 0 .. Len(cgraph) - 1 :
          OpOf(j) = "nop" \/
          /\ Past(t, j)' <=> Past(t, j)
          /\ Hunts(t, j)' <=> Hunts(t, j)
          /\ \A q : Holds(t, j, q)' <=> Holds(t, j, q)
    BY <1>2, <1>3, <1>4 DEF Past, Hunts, Holds, Inside
  <1> QED
    BY <1>3, <1>4, <1>5, <1>6, GoOn DEF Inside

(* The thread was past node k before it went on. *)
LEMMA ComputedWork ==
  ASSUME ForkJoinInv, NEW t \in Thread, Computed(t)
  PROVE  WorkInv'
  <1> USE DEF ForkJoinInv
  <1>1. node_n[t] \in Nat
    BY DEF TeamInv, TypeOK, ThreadsOK
  <1>2. PICK k \in Nat : k = node_n[t]
    BY <1>1
  <1>3. /\ at[t] = "computed" /\ node_n'[t] = k + 1
        /\ UNCHANGED <<current_chunk, chunk, work>>
        /\ \/ abort' = abort /\ ec' = ec
           \/ abort' = k + 1 /\ ec' = "aborted"
    BY <1>2, ComputedMoves
  <1>4. PICK l \in {"loop", "barrier"} :
          /\ l = "barrier" => after'[t] = "loop"
          /\ Running /\ t \in Team /\ Moves(t, l) /\ at'[t] = l
    BY <1>2, ComputedMoves
  <1>5. Chunks'
    BY <1>3, <1>4, ChunksKept DEF WorkInv
  <1>6. \A j \in 0 .. Len(cgraph) - 1 :
          /\ Past(t, j)' <=> Past(t, j)
          /\ Hunts(t, j)' <=> Hunts(t, j)
          /\ \A q : Holds(t, j, q)' <=> Holds(t, j, q)
    BY <1>2, <1>3, <1>4 DEF Past, Hunts, Holds, Inside
  <1>7. (abort' = abort /\ ec' = ec) \/ (abort' >= 1 /\ ec' = "aborted")
    BY <1>3
  <1> QED
    BY <1>3, <1>4, <1>5, <1>6, <1>7, GoOn DEF Inside
-----------------------------------------------------------------------------
(* A thread of the team inside an operator.                                *)

(* A thread that computes node k: its own view of the graph is the call's, *)
(* and the team works on this node, in the same phase.                     *)
LEMMA AtWork ==
  ASSUME TeamInv, NEW t \in Thread, at[t] \in {"share", "convert", "chunk", "next_chunk"},
         NEW k \in Nat, k = node_n[t]
  PROVE  /\ Running /\ t \in Team /\ k \in 0 .. Len(cgraph) - 1
         /\ my_graph[t] = cgraph /\ nth[t] = n_graph.team /\ n_graph.team \in Nat
         /\ OpOf(k) = IF at[t] = "share" THEN "plain" ELSE "mul_mat"
         /\ at[t] \in {"share", "convert"} =>
              \A u \in Thread : at[u] \notin {"chunk", "next_chunk"}
         /\ at[t] \in {"chunk", "next_chunk"} =>
              \A u \in Thread : /\ at[u] \notin {"share", "convert"}
                                /\ at[u] = "barrier" => after[u] # "chunk"
                                /\ at[u] \in {"chunk", "next_chunk"} => node_n[u] = k
  <1> USE DEF TeamInv
  <1>1. Running /\ t \in Team /\ Team \subseteq Thread
    BY InsideFacts DEF Inside, Team
  <1>2. my_graph[t] = cgraph /\ nth[t] = n_graph.team /\ n_graph.team \in Nat
    BY ThreadFacts DEF Membership, Inside, TypeOK, PoolOK, NGraph
  <1>3. Len(cgraph) \in Nat
    BY GraphFacts
  <1>4. PICK b \in 0 .. Len(cgraph) :
          \/ \A u \in Team : FirstHalf(u, b)
          \/ /\ b < Len(cgraph) /\ OpOf(b) = "mul_mat"
             /\ \A u \in Team : SecondHalf(u, b)
    BY <1>1 DEF Together
  <1>5. \A j : ~Behind(t, j)
    BY DEF Behind
  <1>6. \A u \in Thread : at[u] \in Inside => u \in Team
    BY InsideFacts
  <1>7. CASE \A u \in Team : FirstHalf(u, b)
    <2>1. /\ k \in b .. Len(cgraph) - 1 /\ at[t] \in {"share", "convert"}
          /\ OpOf(k) = IF at[t] = "share" THEN "plain" ELSE "mul_mat"
      BY <1>1, <1>5, <1>7 DEF FirstHalf, Outside
    <2>2. \A u \in Team : at[u] \notin {"chunk", "next_chunk"}
      BY <1>7 DEF FirstHalf, Outside, Behind
    <2> QED
      BY <1>1, <1>2, <1>3, <1>6, <2>1, <2>2 DEF Inside
  <1>8. CASE b < Len(cgraph) /\ OpOf(b) = "mul_mat" /\ \A u \in Team : SecondHalf(u, b)
    <2>1. k = b /\ at[t] \in {"chunk", "next_chunk"}
      BY <1>1, <1>5, <1>8 DEF SecondHalf
    <2>2. \A u \in Team : /\ at[u] \notin {"share", "convert"}
                          /\ at[u] = "barrier" => after[u] # "chunk"
                          /\ at[u] \in {"chunk", "next_chunk"} => node_n[u] = k
      BY <1>8, <2>1 DEF SecondHalf, Behind, Exit
    <2> QED
      BY <1>1, <1>2, <1>3, <1>6, <1>8, <2>1, <2>2 DEF Inside
  <1> QED
    BY <1>4, <1>7, <1>8

(* Where it goes from there. *)
LEMMA OperatorMoves ==
  ASSUME TeamInv, NEW t \in Thread, NEW l \in Inside \ {"start"},
         pc[t] \in {"share", "convert", "chunk", "next_chunk"}, pc' = [pc EXCEPT ![t] = l],
         \A u \in Thread \ {t} : after'[u] = after[u], l = "barrier" => after'[t] = "chunk",
         UNCHANGED <<n_graph, cgraph, request, last_graph, pending, my_graph, nth, node_n,
                     barrierVars>>
  PROVE  Moves(t, l) /\ at[t] = pc[t] /\ at'[t] = l
  <1> USE DEF TeamInv
  <1>1. pc[t] \in Inside \ {"barrier"}
    BY DEF Inside
  <1>2. at[t] = pc[t] /\ node_n[t] \in Nat
    BY <1>1, AtFacts DEF TypeOK, ThreadsOK
  <1>3. my_graph[t] = cgraph /\ nth[t] = n_graph.team
    BY <1>2, AtWork
  <1> QED
    BY <1>1, <1>3, InsideStep

(* The conversion of src1: nobody has chunks yet, and thread 0 sets the    *)
(* counter behind the chunks that the threads take by number.              *)
LEMMA ConvertWork ==
  ASSUME ForkJoinInv, NEW t \in Thread, Convert(t)
  PROVE  WorkInv'
  <1> USE DEF ForkJoinInv
  <1>1. /\ pc[t] = "convert" /\ pc' = [pc EXCEPT ![t] = "barrier"]
        /\ after'[t] = "chunk" /\ \A u \in Thread \ {t} : after'[u] = after[u]
        /\ current_chunk' = IF t = 0 THEN nth[t] ELSE current_chunk
        /\ UNCHANGED <<n_graph, cgraph, request, last_graph, pending, my_graph, nth, node_n,
                       barrierVars>>
        /\ UNCHANGED <<abort, ec, chunk, work>>
    BY DEF Convert, MeetThen, FirstChunk, clientVars, TeamInv, TypeOK, ThreadsOK
  <1>2. Moves(t, "barrier") /\ at[t] = "convert" /\ at'[t] = "barrier"
    BY <1>1, OperatorMoves DEF Inside
  <1>3. /\ Running /\ t \in Team /\ nth[t] = n_graph.team
        /\ \A u \in Thread : at[u] \notin {"chunk", "next_chunk"}
    BY <1>2, AtWork DEF TeamInv, TypeOK, ThreadsOK
  <1>4. \A u \in Thread \ {t} : at'[u] = at[u]
    BY <1>2 DEF Moves, at
  <1>5. Chunks'
    BY <1>1, <1>2, <1>3, <1>4, ThreadFacts DEF WorkInv, Chunks
  <1>6. \A j \in 0 .. Len(cgraph) - 1 :
          /\ Past(t, j)' <=> Past(t, j)
          /\ Hunts(t, j)' <=> Hunts(t, j)
          /\ \A q : Holds(t, j, q)' <=> Holds(t, j, q)
          /\ \A u \in Team : ~Hunts(u, j)
    BY <1>1, <1>2, <1>3 DEF Past, Hunts, Holds, Inside, Team
  <1> QED
    BY <1>1, <1>2, <1>3, <1>5, <1>6, GoOn DEF Inside

(* A chunk handed out is nobody else's. *)
LEMMA NextChunkWork ==
  ASSUME ForkJoinInv, NEW t \in Thread, NextChunk(t)
  PROVE  WorkInv'
  <1> USE DEF ForkJoinInv
  <1>1. /\ pc[t] = "next_chunk" /\ pc' = [pc EXCEPT ![t] = "chunk"]
        /\ current_chunk' = current_chunk + 1 /\ chunk'[t] = current_chunk
        /\ \A u \in Thread \ {t} : chunk'[u] = chunk[u]
        /\ UNCHANGED <<n_graph, cgraph, request, after, last_graph, pending, my_graph, nth, node_n,
                       barrierVars>>
        /\ UNCHANGED <<abort, ec, work>>
    BY DEF NextChunk, Goto, clientVars, TeamInv, TypeOK, ThreadsOK
  <1>2. Moves(t, "chunk") /\ at[t] = "next_chunk" /\ at'[t] = "chunk"
    BY <1>1, OperatorMoves DEF Inside
  <1>3. node_n[t] \in Nat /\ current_chunk \in Nat /\ n_graph.team \in Nat
    BY ThreadFacts DEF TeamInv, TypeOK, ThreadsOK, PoolOK, NGraph
  <1>4. PICK k \in Nat : k = node_n[t]
    BY <1>3
  <1>5. /\ Running /\ t \in Team /\ k \in 0 .. Len(cgraph) - 1 /\ OpOf(k) = "mul_mat"
        /\ \A u \in Thread : /\ at[u] = "barrier" => after[u] # "chunk"
                             /\ at[u] \in {"chunk", "next_chunk"} => node_n[u] = k
    BY <1>2, <1>4, AtWork
  <1>6. /\ \A u \in Thread \ {t} : at'[u] = at[u] /\ node_n'[u] = node_n[u]
        /\ UNCHANGED <<cgraph, request>> /\ Team' = Team /\ Team \subseteq Thread
    BY <1>2 DEF Moves, at, Team
  <1>7. Running'
    BY <1>2, <1>5, <1>6, ThreadFacts DEF Running, Inside
  <1>8. \A u \in Thread : chunk[u] \in Nat
    BY DEF TeamInv, TypeOK, ThreadsOK
  <1>9. Chunks'
    <2>1. \A u \in Thread : at[u] = "chunk" => chunk[u] < current_chunk
      BY DEF WorkInv, Chunks
    <2>2. \A u \in Thread :
            /\ at'[u] \in {"share", "convert"} => chunk'[u] = u
            /\ at'[u] = "barrier" /\ after'[u] = "chunk" => chunk'[u] = u
            /\ at'[u] \in {"chunk", "next_chunk"} => current_chunk' >= n_graph'.team
            /\ at'[u] = "chunk" => chunk'[u] < current_chunk'
      <3>1. current_chunk >= n_graph.team
        BY <1>2 DEF WorkInv, Chunks
      <3> QED
        BY <1>1, <1>2, <1>3, <1>6, <1>8, <2>1, <3>1 DEF WorkInv, Chunks
    <2>3. \A u \in Thread : \A v \in Thread \ {u} :
            at'[u] = "chunk" /\ at'[v] = "chunk" => chunk'[u] # chunk'[v]
      BY <1>1, <1>2, <1>3, <1>6, <1>8, <2>1 DEF WorkInv, Chunks
    <2>4. ~(at'[0] = "barrier" /\ after'[0] = "chunk")
      BY <1>1, <1>2, <1>5, <1>6, ThreadFacts
    <2> QED
      BY <2>2, <2>3, <2>4 DEF Chunks
  <1>10. ASSUME NEW p \in Shares(k)
         PROVE  Finished(k, p)' <=> Finished(k, p)
    <2>1. /\ \A u \in Team : Hunts(u, k)' <=> Hunts(u, k)
          /\ Hunts(t, k) /\ OpOf(k)' = "mul_mat"
      BY <1>1, <1>2, <1>4, <1>5, <1>6 DEF Hunts, OpOf
    <2>2. /\ \A u \in Team \ {t} : Holds(u, k, p)' <=> Holds(u, k, p)
          /\ ~Holds(t, k, p) /\ (Holds(t, k, p)' <=> p = current_chunk)
      BY <1>1, <1>2, <1>4, <1>6 DEF Holds
    <2>3. p \in Nat
      BY <1>5, ShareFacts
    <2> QED
      BY <1>1, <1>3, <1>5, <1>6, <2>1, <2>2, <2>3 DEF Finished
  <1>11. ASSUME NEW j \in 0 .. Len(cgraph) - 1, j # k, NEW p \in Shares(j)
         PROVE  Finished(j, p)' <=> Finished(j, p)
    <2>1. /\ Past(t, j)' <=> Past(t, j)
          /\ Hunts(t, j)' <=> Hunts(t, j)
          /\ \A q : Holds(t, j, q)' <=> Holds(t, j, q)
      BY <1>1, <1>2, <1>4, <1>11 DEF Past, Hunts, Holds, Inside
    <2>2. \A u \in Team : ~Hunts(u, j)
      BY <1>5, <1>6, <1>11 DEF Hunts
    <2> QED
      BY <1>1, <1>2, <1>5, <1>11, <2>1, <2>2, FinishedKept
  <1>12. WorkDone'
    BY <1>1, <1>5, <1>10, <1>11, WorkKept DEF WorkInv
  <1> QED
    BY <1>1, <1>5, <1>7, <1>9, <1>12, RunningStep
-----------------------------------------------------------------------------
(* A thread of the team computes a piece.                                  *)

(* The team is past every node in front of the one it works on. *)
LEMMA EarlierFinished ==
  ASSUME TeamInv, NEW t \in Thread, at[t] \in {"share", "convert", "chunk", "next_chunk"},
         NEW k \in Nat, k = node_n[t], NEW j \in 0 .. k - 1, NEW p \in Shares(j)
  PROVE  Finished(j, p)
  <1> USE DEF TeamInv
  <1>1. Running /\ t \in Team /\ k \in 0 .. Len(cgraph) - 1 /\ Len(cgraph) \in Nat
    BY AtWork, GraphFacts
  <1>2. j \in 0 .. Len(cgraph) - 1 /\ OpOf(j) # "nop"
    BY <1>1, ShareFacts
  <1>3. PICK b \in 0 .. Len(cgraph) :
          \/ \A u \in Team : FirstHalf(u, b)
          \/ \A u \in Team : SecondHalf(u, b)
    BY <1>1 DEF Together
  <1>4. ASSUME j < b, NEW u \in Team
        PROVE  Past(u, j) /\ ~Hunts(u, j)
    <2>1. at[u] \in Inside \ {"start"} /\ node_n[u] > j
      <3>1. b > 0 /\ b \in Nat /\ node_n[u] \in Nat
        BY <1>1, <1>2, <1>4 DEF TypeOK, ThreadsOK, Team
      <3>2. CASE FirstHalf(u, b)
        BY <1>1, <1>2, <1>4, <3>1, <3>2 DEF FirstHalf, Behind, Inside
      <3>3. CASE SecondHalf(u, b)
        BY <1>1, <1>2, <1>4, <3>1, <3>3 DEF SecondHalf, Behind, Inside
      <3> QED
        BY <1>3, <3>2, <3>3
    <2> QED
      BY <1>2, <2>1 DEF Past, Hunts, Team, TypeOK, ThreadsOK
  <1>5. j < b
    <2>1. CASE FirstHalf(t, b)
      <3>1. k \in b .. Len(cgraph) - 1 /\ Skipped(b, k)
        BY <1>1, <2>1 DEF FirstHalf, Behind, Outside
      <3> QED
        BY <1>1, <1>2, <3>1 DEF Skipped
    <2>2. CASE SecondHalf(t, b)
      BY <1>1, <2>2 DEF SecondHalf, Behind
    <2> QED
      BY <1>1, <1>3, <2>1, <2>2
  <1>6. OpOf(j) = "plain" => p \in Team
    BY <1>1, <1>2, ShareFacts
  <1> QED
    BY <1>1, <1>4, <1>5, <1>6 DEF Finished

(* Whether the pool is inside ggml_graph_compute, as the fork-join sees it. *)
status == IF pc[0] \in {"idle", "unpause", "join", "freed"} THEN ec ELSE "running"

(* While a call runs, the client has not returned from it. *)
LEMMA RunningStatus ==
  ASSUME Running
  PROVE  status = "running"
  BY ThreadFacts DEF Running, status, Inside, at, Released

(* A piece that is not finished is one that the fork-join may compute. *)
LEMMA MayCompute ==
  ASSUME ForkJoinInv, NEW t \in Thread, at[t] \in {"share", "chunk"}, NEW k \in Nat, k = node_n[t],
         NEW p \in Shares(k), ~Finished(k, p), work' = work (+) SetToBag({<<k, p>>}),
         UNCHANGED <<cgraph, request>>, status' = "running"
  PROVE  F!Next
  <1> USE DEF ForkJoinInv
  <1>1. Running /\ k \in 0 .. Len(cgraph) - 1
    BY AtWork
  <1>2. <<k, p>> \in F!NodePieces(k)
    BY DEF F!NodePieces, Shares
  <1>3. ~BagIn(<<k, p>>, work)
    BY <1>1 DEF WorkInv, WorkDone, Done, BagIn, BagToSet
  <1>4. F!UpTo(k) \subseteq Done
    <2> SUFFICES ASSUME NEW q \in F!UpTo(k) PROVE q \in Done
      OBVIOUS
    <2>1. PICK j \in 0 .. k - 1 : \E c \in Shares(j) : q = <<j, c>>
      BY UpToFacts
    <2>2. PICK c \in Shares(j) : q = <<j, c>>
      BY <2>1
    <2>3. Finished(j, c)
      BY EarlierFinished
    <2>4. j \in 0 .. Len(cgraph) - 1
      BY <1>1
    <2> QED
      BY <1>1, <2>2, <2>3, <2>4 DEF WorkInv, WorkDone
  <1>5. status = "running"
    BY <1>1, RunningStatus
  <1>6. F!Compute(k, <<k, p>>)
    <2>1. F!BagToSet(work) = Done /\ ~F!BagIn(<<k, p>>, work)
      BY <1>3 DEF Done, BagIn, BagToSet, F!BagIn, F!BagToSet
    <2> QED
      BY <1>4, <1>5, <2>1
         DEF F!Compute, status, SetToBag, (+), BagToSet, F!SetToBag, F!(+), F!BagToSet
  <1> QED
    BY <1>1, <1>2, <1>6 DEF F!Next

(* A share of the rows: its thread computes it, and nobody else. *)
LEMMA ShareWork ==
  ASSUME ForkJoinInv, NEW t \in Thread, Share(t)
  PROVE  WorkInv' /\ F!Next
  <1> USE DEF ForkJoinInv
  <1>1. /\ pc[t] = "share" /\ pc' = [pc EXCEPT ![t] = "computed"]
        /\ work' = work (+) SetToBag({<<node_n[t], chunk[t]>>})
        /\ UNCHANGED <<n_graph, cgraph, request, after, last_graph, pending, my_graph, nth, node_n,
                       barrierVars>>
        /\ UNCHANGED <<current_chunk, chunk, abort, ec>>
    BY DEF Share, Did, Goto, poolVars, localVars
  <1>2. Moves(t, "computed") /\ at[t] = "share" /\ at'[t] = "computed"
    BY <1>1, OperatorMoves DEF Inside
  <1>3. node_n[t] \in Nat /\ chunk[t] = t
    BY <1>2 DEF TeamInv, TypeOK, ThreadsOK, WorkInv, Chunks
  <1>4. PICK k \in Nat : k = node_n[t]
    BY <1>3
  <1>5. /\ Running /\ t \in Team /\ k \in 0 .. Len(cgraph) - 1 /\ OpOf(k) = "plain"
        /\ t \in Shares(k)
    BY <1>2, <1>4, AtWork, ShareFacts
  <1>6. /\ \A u \in Thread \ {t} : at'[u] = at[u] /\ node_n'[u] = node_n[u]
        /\ UNCHANGED <<cgraph, request>> /\ Team' = Team /\ Team \subseteq Thread
    BY <1>2 DEF Moves, at, Team
  <1>7. Running'
    BY <1>2, <1>5, <1>6, ThreadFacts DEF Running, Inside
  <1>8. Chunks'
    BY <1>1, <1>2, ChunksKept DEF WorkInv
  <1>9. Past(t, k)' /\ ~Past(t, k)
    BY <1>1, <1>2, <1>4 DEF Past, Inside
  <1>10. ASSUME NEW p \in Shares(k)
         PROVE  Finished(k, p)' <=> Finished(k, p) \/ p = t
    <2>1. p \in Thread /\ OpOf(k)' = OpOf(k)
      BY <1>5, <1>6, ShareFacts DEF OpOf
    <2>2. p # t => (Past(p, k)' <=> Past(p, k))
      BY <1>6, <2>1 DEF Past
    <2> QED
      BY <1>5, <1>9, <2>1, <2>2 DEF Finished
  <1>11. ASSUME NEW j \in 0 .. Len(cgraph) - 1, j # k, NEW p \in Shares(j)
         PROVE  Finished(j, p)' <=> Finished(j, p)
    <2>1. /\ Past(t, j)' <=> Past(t, j)
          /\ Hunts(t, j)' <=> Hunts(t, j)
          /\ \A q : Holds(t, j, q)' <=> Holds(t, j, q)
      BY <1>1, <1>2, <1>4, <1>11 DEF Past, Hunts, Holds, Inside
    <2> QED
      BY <1>1, <1>2, <1>5, <1>11, <2>1, FinishedKept
  <1>12. WorkDone'
    BY <1>1, <1>3, <1>4, <1>5, <1>10, <1>11, WorkAdds DEF WorkInv
  <1>13. ~Finished(k, t)
    BY <1>5, <1>9 DEF Finished
  <1>14. status' = "running"
    BY <1>7, ThreadFacts DEF Running, status, Inside, at, Released
  <1> QED
    BY <1>1, <1>2, <1>3, <1>4, <1>5, <1>7, <1>8, <1>12, <1>13, <1>14, RunningStep, MayCompute

(* A chunk of a product: the thread that holds it computes it and goes on  *)
(* to the next, or has found that there is none left.                      *)
LEMMA ChunkWork ==
  ASSUME ForkJoinInv, NEW t \in Thread, Chunk(t)
  PROVE  /\ WorkInv' /\ status' = "running" /\ UNCHANGED <<cgraph, request>>
         /\ F!Next \/ UNCHANGED work
  <1> USE DEF ForkJoinInv
  <1>1. node_n[t] \in Nat /\ chunk[t] \in Nat /\ current_chunk \in Nat /\ n_graph.team \in Nat
    BY ThreadFacts DEF TeamInv, TypeOK, ThreadsOK, PoolOK, NGraph
  <1>2. PICK k \in Nat : k = node_n[t]
    BY <1>1
  <1>3. pc[t] = "chunk" /\ at[t] = "chunk"
    BY AtFacts DEF Chunk, TeamInv
  <1>4. /\ Running /\ t \in Team /\ k \in 0 .. Len(cgraph) - 1 /\ OpOf(k) = "mul_mat"
        /\ my_graph[t] = cgraph /\ nth[t] = n_graph.team
        /\ \A u \in Thread : at[u] \in {"chunk", "next_chunk"} => node_n[u] = k
    BY <1>2, <1>3, AtWork
  <1>5. PICK C \in Nat : /\ C = NumChunks(cgraph[k + 1], n_graph.team) /\ C >= n_graph.team
                         /\ Shares(k) = 0 .. C - 1
    BY <1>4, ShareFacts
  <1>6. /\ UNCHANGED <<n_graph, cgraph, request, after, last_graph, pending, my_graph, nth, node_n,
                       barrierVars>>
        /\ UNCHANGED <<current_chunk, chunk, abort, ec>>
    BY DEF Chunk, poolVars, localVars
  <1>7. PICK l \in {"computed", "next_chunk"} :
          /\ pc' = [pc EXCEPT ![t] = l]
          /\ IF chunk[t] < C
             THEN /\ work' = work (+) SetToBag({<<k, chunk[t]>>})
                  /\ l = "computed" => n_graph.team >= C
             ELSE l = "computed" /\ work' = work
    BY <1>2, <1>4, <1>5 DEF Chunk, Node, Did, Goto
  <1>8. Moves(t, l) /\ at'[t] = l
    BY <1>3, <1>6, <1>7, OperatorMoves DEF Inside
  <1>9. /\ \A u \in Thread \ {t} : at'[u] = at[u] /\ node_n'[u] = node_n[u]
        /\ UNCHANGED <<cgraph, request>> /\ Team' = Team /\ Team \subseteq Thread
    BY <1>8 DEF Moves, at, Team
  <1>10. Running'
    BY <1>4, <1>8, <1>9, ThreadFacts DEF Running, Inside
  <1>11. Chunks'
    BY <1>3, <1>6, <1>8, ChunksKept DEF WorkInv
  <1>12. /\ chunk[t] < current_chunk /\ current_chunk >= n_graph.team
         /\ \A u \in Team \ {t} : ~Holds(u, k, chunk[t])
    BY <1>3, <1>9 DEF WorkInv, Chunks, Holds
  <1>13. ASSUME NEW p \in Shares(k)
         PROVE  Finished(k, p)' <=> Finished(k, p) \/ p = chunk[t]
    <2>1. /\ \A u \in Team \ {t} : Hunts(u, k)' <=> Hunts(u, k)
          /\ \A u \in Team \ {t} : Holds(u, k, p)' <=> Holds(u, k, p)
      BY <1>6, <1>9 DEF Hunts, Holds
    <2>2. /\ Hunts(t, k) /\ (Hunts(t, k)' <=> l = "next_chunk")
          /\ (Holds(t, k, p) <=> p = chunk[t]) /\ ~Holds(t, k, p)'
          /\ (Past(t, k)' <=> l = "computed")
      BY <1>2, <1>3, <1>6, <1>8 DEF Hunts, Holds, Past, Inside
    <2>3. OpOf(k)' = "mul_mat" /\ p \in Nat /\ p < C
      BY <1>4, <1>5, <1>9 DEF OpOf
    <2>4. Finished(k, p) <=> p < current_chunk /\ \A u \in Team : ~Holds(u, k, p)
      BY <1>4, <2>2 DEF Finished
    <2>5. p = chunk[t] => p < current_chunk /\ \A u \in Team \ {t} : ~Holds(u, k, p)
      BY <1>12
    <2>6. CASE \E u \in Team : Hunts(u, k)'
      <3>1. Finished(k, p)' <=> p < current_chunk /\ \A u \in Team : ~Holds(u, k, p)'
        BY <1>6, <1>9, <2>3, <2>6 DEF Finished
      <3> QED
        BY <1>4, <2>1, <2>2, <2>4, <2>5, <3>1
    <2>7. CASE ~ \E u \in Team : Hunts(u, k)'
      <3>1. l = "computed"
        BY <1>4, <2>2, <2>7
      <3>2. Finished(k, p)'
        BY <1>4, <1>9, <2>2, <2>3, <2>7, <3>1 DEF Finished
      <3>3. C <= current_chunk
        BY <1>1, <1>5, <1>7, <1>12, <3>1
      <3>4. \A u \in Team \ {t} : ~Holds(u, k, p)
        BY <2>1, <2>7 DEF Hunts, Holds
      <3> QED
        BY <1>1, <1>5, <2>2, <2>3, <2>4, <3>2, <3>3, <3>4
    <2> QED
      BY <2>6, <2>7
  <1>14. ASSUME NEW j \in 0 .. Len(cgraph) - 1, j # k, NEW p \in Shares(j)
         PROVE  Finished(j, p)' <=> Finished(j, p)
    <2>1. /\ Past(t, j)' <=> Past(t, j)
          /\ Hunts(t, j)' <=> Hunts(t, j)
          /\ \A q : Holds(t, j, q)' <=> Holds(t, j, q)
      BY <1>2, <1>3, <1>6, <1>8, <1>14 DEF Past, Hunts, Holds, Inside
    <2> QED
      BY <1>4, <1>6, <1>8, <1>14, <2>1, FinishedKept
  <1>15. status' = "running"
    BY <1>10, ThreadFacts DEF Running, status, Inside, at, Released
  <1>16. CASE chunk[t] < C
    <2>1. chunk[t] \in Shares(k) /\ work' = work (+) SetToBag({<<k, chunk[t]>>})
      BY <1>1, <1>5, <1>7, <1>16
    <2>2. WorkDone'
      BY <1>4, <1>9, <1>13, <1>14, <2>1, WorkAdds, SMTT(60) DEF WorkInv
    <2>3. ~Finished(k, chunk[t])
      BY <1>2, <1>3, <1>4 DEF Finished, Hunts, Holds
    <2>4. F!Next
      BY <1>2, <1>3, <1>9, <1>15, <2>1, <2>3, MayCompute
    <2> QED
      BY <1>4, <1>6, <1>10, <1>11, <1>15, <2>2, <2>4, RunningStep
  <1>17. CASE ~(chunk[t] < C)
    <2>1. \A p \in Shares(k) : p # chunk[t]
      BY <1>5, <1>17
    <2>2. \A j \in 0 .. Len(cgraph) - 1 : \A p \in Shares(j) : Finished(j, p)' <=> Finished(j, p)
      BY <1>13, <1>14, <2>1
    <2>3. UNCHANGED work
      BY <1>7, <1>17
    <2>4. WorkDone'
      BY <1>4, <1>9, <2>2, <2>3, WorkKept DEF WorkInv
    <2> QED
      BY <1>4, <1>6, <1>10, <1>11, <1>15, <2>3, <2>4, RunningStep
  <1> QED
    BY <1>16, <1>17
-----------------------------------------------------------------------------
(* The barrier.                                                            *)

(* In front of the last barrier the whole team stopped at the same node:   *)
(* the end of the graph, or the node before which the call was aborted.    *)
LEMMA EndNode ==
  ASSUME TeamInv, Running, \A t \in Team : at[t] = "barrier" /\ after[t] = Exit(t)
  PROVE  \E n \in 0 .. Len(cgraph) :
            /\ \A t \in Team : node_n[t] = n
            /\ abort = -1 => n = Len(cgraph)
            /\ abort >= 1 => n >= 1
  <1> USE DEF TeamInv
  <1>1. 0 \in Team /\ Len(cgraph) \in Nat
    BY ClientInTeam, GraphFacts
  <1>2. PICK b \in 0 .. Len(cgraph) :
          /\ AbortKnown(b)
          /\ \/ \A t \in Team : FirstHalf(t, b)
             \/ b < Len(cgraph) /\ \A t \in Team : SecondHalf(t, b)
    BY DEF Together
  <1>3. CASE b < Len(cgraph) /\ \A t \in Team : SecondHalf(t, b)
    <2>1. \A t \in Team : node_n[t] = Len(cgraph)
      BY <1>3 DEF SecondHalf, Behind, Exit
    <2> QED
      BY <1>1, <1>3, <2>1
  <1>4. CASE \A t \in Team : FirstHalf(t, b)
    <2>1. \A t \in Team : node_n[t] = Len(cgraph) \/ abort = b
      BY <1>4 DEF FirstHalf, Behind, Exit, Outside
    <2>2. CASE abort = b
      <3>1. \A t \in Team : node_n[t] = b
        BY <1>1, <1>2, <2>2 DEF AbortKnown
      <3> QED
        BY <1>1, <2>2, <3>1
    <2>3. CASE abort # b
      <3>1. \A t \in Team : node_n[t] = Len(cgraph)
        BY <2>1, <2>3
      <3>2. abort = -1 \/ abort = Len(cgraph)
        BY <1>1, <1>2, <2>3, <3>1 DEF AbortKnown
      <3> QED
        BY <1>1, <3>1, <3>2
    <2> QED
      BY <2>2, <2>3
  <1> QED
    BY <1>2, <1>3, <1>4

(* Then all pieces of the nodes in front of that one are computed, and no  *)
(* others.                                                                 *)
LEMMA FullyDone ==
  ASSUME ForkJoinInv, Running, \A t \in Team : at[t] = "barrier" /\ after[t] = Exit(t)
  PROVE  Complete
  <1> USE DEF ForkJoinInv
  <1>1. PICK n \in 0 .. Len(cgraph) :
          /\ \A t \in Team : node_n[t] = n
          /\ abort = -1 => n = Len(cgraph)
          /\ abort >= 1 => n >= 1
    BY EndNode
  <1>2. 0 \in Team /\ Len(cgraph) \in Nat
    BY ClientInTeam, GraphFacts DEF TeamInv
  <1>3. ASSUME NEW k \in 0 .. Len(cgraph) - 1, NEW p \in Shares(k)
        PROVE  <<k, p>> \in Done <=> k < n
    <2>1. \A t \in Team : (Past(t, k) <=> k < n) /\ ~Hunts(t, k)
      BY <1>1, <1>2 DEF Past, Hunts, Inside
    <2>2. OpOf(k) = "plain" => p \in Team
      BY ShareFacts
    <2>3. Finished(k, p) <=> k < n
      BY <1>2, <2>1, <2>2 DEF Finished
    <2> QED
      BY <2>3 DEF WorkInv, WorkDone
  <1>4. Done = F!UpTo(n)
    <2>1. ASSUME NEW q \in Done
          PROVE  q \in F!UpTo(n)
      <3>1. PICK k \in 0 .. Len(cgraph) - 1 : \E p \in Shares(k) : q = <<k, p>>
        BY <2>1, UpToFacts DEF WorkInv, WorkDone
      <3>2. k \in 0 .. n - 1
        BY <1>2, <1>3, <2>1, <3>1
      <3> QED
        BY <3>1, <3>2, UpToFacts
    <2>2. ASSUME NEW q \in F!UpTo(n)
          PROVE  q \in Done
      <3>1. PICK k \in 0 .. n - 1 : \E p \in Shares(k) : q = <<k, p>>
        BY <2>2, UpToFacts
      <3>2. k \in 0 .. Len(cgraph) - 1 /\ k < n
        BY <1>2
      <3> QED
        BY <1>3, <3>1, <3>2
    <2> QED
      BY <2>1, <2>2
  <1>5. \/ abort = -1 /\ ec = "success"
        \/ abort >= 1 /\ ec = "aborted"
    BY DEF WorkInv, Status
  <1> QED
    BY <1>1, <1>2, <1>4, <1>5 DEF Complete

(* Inside a product the team gets its first chunks, and behind a node it   *)
(* goes to the next one: nothing is finished that was not.                 *)
LEMMA OpenedInside ==
  ASSUME ForkJoinInv, Opened, NEW l \in {"chunk", "loop"}, NEW n \in Nat,
         \A t \in Team : after[t] = l /\ node_n[t] = n,
         l = "chunk" => n \in 0 .. Len(cgraph) - 1 /\ OpOf(n) = "mul_mat",
         UNCHANGED <<n_graph, cgraph, request, work, current_chunk, abort, ec, chunk, node_n, after>>
  PROVE  WorkInv'
  <1> USE DEF ForkJoinInv
  <1>1. Running /\ 0 \in Team /\ Team' = Team /\ Team \subseteq Thread
    BY ClientInTeam DEF TeamInv, Opened, Team
  <1>2. \A u \in Team : at[u] = "barrier" /\ at'[u] = l
    BY DEF Opened
  <1>3. \A u \in Thread \ Team : at[u] \notin Inside /\ at'[u] \notin Inside
    BY InsideFacts DEF Opened, TeamInv
  <1>4. Running'
    BY <1>1, <1>2 DEF Running, Inside
  <1>5. Chunks'
    <2>1. CASE l = "loop"
      BY <1>1, <1>2, <1>3, <2>1 DEF Chunks, Inside
    <2>2. CASE l = "chunk"
      <3>1. current_chunk = n_graph.team /\ n_graph.team \in Nat
        BY <1>1, <1>2, <2>2, ThreadFacts DEF WorkInv, Chunks, TeamInv, TypeOK, PoolOK, NGraph
      <3>2. \A u \in Team : chunk[u] = u /\ u < n_graph.team
        BY <1>1, <1>2, <2>2 DEF WorkInv, Chunks, Team
      <3> QED
        BY <1>1, <1>2, <1>3, <2>2, <3>1, <3>2 DEF Chunks, Inside
    <2> QED
      BY <2>1, <2>2
  <1>6. ASSUME NEW k \in 0 .. Len(cgraph) - 1, NEW p \in Shares(k)
        PROVE  Finished(k, p)' <=> Finished(k, p)
    <2>1. /\ \A u \in Team : Past(u, k)' <=> Past(u, k)
          /\ \A u \in Team : Past(u, k) <=> n > k
      BY <1>1, <1>2 DEF Past, Inside, TeamInv, TypeOK, ThreadsOK
    <2>2. \A u \in Team : ~Hunts(u, k) /\ (Hunts(u, k)' <=> l = "chunk" /\ n = k)
      BY <1>2 DEF Hunts
    <2>3. OpOf(k)' = OpOf(k) /\ (OpOf(k) = "plain" => p \in Team)
      BY <1>1, ShareFacts DEF OpOf
    <2>4. CASE l = "chunk" /\ n = k
      <3>1. ~Finished(k, p)
        BY <1>1, <2>1, <2>2, <2>3, <2>4 DEF Finished
      <3>2. current_chunk = n_graph.team /\ n_graph.team \in Nat
        BY <1>1, <1>2, <2>4, ThreadFacts DEF WorkInv, Chunks, TeamInv, TypeOK, PoolOK, NGraph
      <3>3. p \in Nat
        BY <1>1, <2>4, ShareFacts
      <3>4. p < current_chunk => p \in Team
        <4>1. n_graph.team <= NThreads
          BY ThreadFacts DEF TeamInv, TypeOK, PoolOK, NGraph
        <4> QED
          BY <3>2, <3>3, <4>1, ThreadFacts DEF Team, Thread
      <3>5. p \in Team => Holds(p, k, p)'
        BY <1>1, <1>2, <2>4 DEF WorkInv, Chunks, Holds
      <3>6. ~Finished(k, p)'
        BY <1>1, <2>2, <2>3, <2>4, <3>4, <3>5 DEF Finished
      <3> QED
        BY <3>1, <3>6
    <2>5. CASE ~(l = "chunk" /\ n = k)
      BY <1>1, <2>1, <2>2, <2>3, <2>5 DEF Finished
    <2> QED
      BY <2>4, <2>5
  <1>7. WorkDone'
    BY <1>1, <1>6, WorkKept DEF WorkInv
  <1> QED
    BY <1>1, <1>4, <1>5, <1>7, RunningStep

(* Behind the last barrier the call is over. *)
LEMMA OpenedEnd ==
  ASSUME ForkJoinInv, Opened, \A t \in Team : after[t] = Exit(t),
         UNCHANGED <<cgraph, request, work, ec>>, pc'[0] # "kickoff"
  PROVE  WorkInv'
  <1>1. Complete
    BY FullyDone DEF Opened
  <1>2. Running /\ 0 \in Team /\ \A u \in Team : at'[u] = Exit(u)
    BY ClientInTeam DEF ForkJoinInv, TeamInv, Opened
  <1>3. \A u \in Thread \ Team : at'[u] \notin Inside
    BY <1>2, InsideFacts DEF ForkJoinInv, TeamInv, Opened
  <1>4. ~Running' /\ \A u \in Thread : at'[u] \notin Inside
    BY <1>2, <1>3 DEF Running, Exit, Inside
  <1>5. Complete'
    BY <1>1 DEF Complete, Done, F!UpTo, F!NodePieces
  <1> QED
    BY <1>4, <1>5, NoChunks DEF WorkInv, Status, Ends

(* An access to the barrier. *)
LEMMA MeetWork ==
  ASSUME ForkJoinInv, NEW t \in Thread, Meet(t)
  PROVE  WorkInv'
  <1> USE DEF ForkJoinInv
  <1>1. /\ UNCHANGED <<n_graph, cgraph, request, work, current_chunk, abort, ec, chunk, node_n, after>>
        /\ pc[t] = "barrier" /\ (pc' = pc \/ pc' = [pc EXCEPT ![t] = after[t]])
        /\ after[t] \in {Exit(t), "chunk", "loop"}
    BY MeetFrame DEF Meet, poolVars, localVars, clientVars
  <1>2. /\ pc'[0] = "kickoff" => pc[0] = "kickoff"
        /\ pc'[0] = "barrier" => pc[0] = "barrier"
    BY <1>1, MeetFrame, ThreadFacts DEF TeamInv, TypeOK, ThreadsOK
  <1>3. CASE at' = at
    <2>1. Running' <=> Running
      BY <1>3 DEF Running
    <2> QED
      BY <1>1, <1>2, <1>3, <2>1, IdleStep
  <1>4. CASE Opened
    <2>1. Running /\ (\A u \in Team : at[u] = "barrier") /\ Len(cgraph) \in Nat
      BY <1>4, GraphFacts DEF Opened, TeamInv
    <2>2. pc'[0] # "kickoff"
      BY <1>2, <2>1, ThreadFacts DEF Running, Inside, at, Released
    <2>3. CASE \E k \in 0 .. Len(cgraph) - 1 :
                 OpOf(k) = "mul_mat" /\ \A u \in Team : after[u] = "chunk" /\ node_n[u] = k
      BY <1>1, <1>4, <2>1, <2>3, OpenedInside
    <2>4. CASE \E k \in 0 .. Len(cgraph) - 1 :
                 \A u \in Team : after[u] = "loop" /\ node_n[u] = k + 1
      BY <1>1, <1>4, <2>1, <2>4, OpenedInside
    <2>5. CASE \A u \in Team : after[u] = Exit(u)
      BY <1>1, <1>4, <2>2, <2>5, OpenedEnd
    <2> QED
      BY <2>1, <2>3, <2>4, <2>5, SameStop
  <1> QED
    BY <1>3, <1>4, MeetMoves

(* Every step of the pool preserves the inductive invariant. *)
LEMMA StepWork == ForkJoinInv /\ [Next]_vars => ForkJoinInv'
  <1> SUFFICES ASSUME ForkJoinInv, [Next]_vars PROVE ForkJoinInv'
    OBVIOUS
  <1>1. TeamInv'
    BY StepTeam DEF ForkJoinInv
  <1>2. CASE Freed \/ UNCHANGED vars
    <2>1. /\ UNCHANGED <<n_graph, cgraph, request, work, current_chunk, abort, ec, chunk, node_n, after>>
          /\ pc'[0] = pc[0] /\ at' = at
      BY <1>2 DEF Freed, vars, poolVars, threadVars, localVars, clientVars, barrierVars, at, Released
    <2>2. Running' <=> Running
      BY <2>1 DEF Running
    <2> QED
      BY <1>1, <2>1, <2>2, IdleStep DEF ForkJoinInv
  <1>3. CASE Next
    <2>1. WorkInv'
      BY <1>1, <1>2, <1>3, ClientWork, WorkerWork, StartWork, LoopWork, ShareWork, ConvertWork,
         ChunkWork, NextChunkWork, ComputedWork, MeetWork DEF Next, GraphStep, ForkJoinInv
    <2> QED
      BY <1>1, <2>1 DEF ForkJoinInv
  <1> QED
    BY <1>2, <1>3

(* Which pieces are computed, which are being computed and by whom is an   *)
(* invariant of the pool.                                                  *)
THEOREM WorkInvariance == Spec => []ForkJoinInv
  <1>1. Init => ForkJoinInv
    BY InitTeam, InitWork DEF ForkJoinInv
  <1> QED
    BY <1>1, StepWork, PTL DEF Spec
-----------------------------------------------------------------------------
(* The refinement.                                                         *)

(* A step that the fork-join does not see. *)
LEMMA Stutters ==
  ASSUME UNCHANGED <<cgraph, request, work>>, status' = status
  PROVE  UNCHANGED F!vars
  BY DEF F!vars, status

(* A call begins. *)
LEMMA CallRefines ==
  ASSUME ForkJoinInv, NEW g \in Graphs, NEW n \in Requests, Compute(g, n)
  PROVE  F!Next
  <1>1. pc[0] = "idle" /\ pc'[0] = "kickoff" /\ work' = EmptyBag
    BY ThreadFacts DEF Compute, Goto, ForkJoinInv, TeamInv, TypeOK, ThreadsOK
  <1>2. ec # "running"
    BY DEF ForkJoinInv, TeamInv, TypeOK, PoolOK
  <1> QED
    BY <1>1, <1>2 DEF F!Next, F!Call, EmptyBag, SetToBag, F!EmptyBag, F!SetToBag

(* The client leaves its last barrier: the call returns. *)
LEMMA ReturnRefines ==
  ASSUME ForkJoinInv, Meet(0), pc'[0] = "idle"
  PROVE  F!Next
  <1> USE DEF ForkJoinInv
  <1>1. /\ UNCHANGED <<cgraph, request, work, ec>>
        /\ pc[0] = "barrier" /\ (pc' = pc \/ pc' = [pc EXCEPT ![0] = after[0]])
    BY ThreadFacts, MeetFrame DEF Meet, poolVars, clientVars
  <1>2. after[0] = "idle"
    BY <1>1, ThreadFacts DEF TeamInv, TypeOK, ThreadsOK
  <1>3. Complete
    <2>1. CASE at' = at
      <3>1. at[0] = "idle"
        BY <2>1, ThreadFacts DEF at, Released
      <3> QED
        BY <1>1, <3>1 DEF WorkInv, Ends
    <2>2. CASE Opened
      <3>1. Running /\ (\A u \in Team : at[u] = "barrier") /\ 0 \in Team
        BY <2>2, ClientInTeam DEF Opened, TeamInv
      <3>2. \A u \in Team : after[u] = Exit(u)
        BY <1>2, <3>1, SameStop
      <3> QED
        BY <3>1, <3>2, FullyDone
    <2> QED
      BY <2>1, <2>2, ThreadFacts, MeetMoves
  <1>4. ec \in {"success", "aborted"}
    BY DEF TeamInv, TypeOK, PoolOK
  <1>5. status = "running" /\ status' = ec
    BY <1>1 DEF status
  <1>6. F!BagToSet(work) = Done
    BY DEF Done, BagToSet, F!BagToSet
  <1>7. F!Return
    BY <1>1, <1>3, <1>4, <1>5, <1>6 DEF F!Return, Complete, status
  <1> QED
    BY <1>7 DEF F!Next

(* The client's other steps. *)
LEMMA ClientRefines ==
  ASSUME ForkJoinInv, ClientCall \/ ClientStep
  PROVE  F!Next \/ UNCHANGED F!vars
  <1> USE ThreadFacts DEF ForkJoinInv, TeamInv, TypeOK, ThreadsOK
  <1>1. ASSUME NEW p \in BOOLEAN, SetPause(p)
        PROVE  UNCHANGED F!vars
    BY <1>1, Stutters DEF SetPause, threadVars, status
  <1>2. CASE Announce \/ Broadcast \/ Stop \/ Unpause \/ Join
    <2>1. UNCHANGED <<cgraph, request, work>> /\ ec' = ec
      BY <1>2 DEF Announce, Broadcast, Stop, Unpause, Join, poolVars, clientVars
    <2>2. \/ pc[0] \in {"kickoff", "broadcast"} /\ pc'[0] \in {"broadcast", "start"}
          \/ pc[0] \in {"idle", "unpause", "join"} /\ pc'[0] \in {"unpause", "join", "freed"}
      BY <1>2 DEF Announce, Broadcast, Stop, Unpause, Join, Goto
    <2> QED
      BY <2>1, <2>2, Stutters DEF status
  <1> QED
    BY <1>1, <1>2, CallRefines DEF ClientCall, ClientStep

(* A worker between graphs is out of the fork-join's sight. *)
LEMMA WorkerRefines ==
  ASSUME ForkJoinInv, NEW t \in Worker, WorkerStep(t) \/ SpuriousWake(t)
  PROVE  UNCHANGED F!vars
  <1> USE ThreadFacts DEF ForkJoinInv, TeamInv, TypeOK, ThreadsOK
  <1>1. CASE SpuriousWake(t)
    BY <1>1, Stutters DEF SpuriousWake, threadVars, clientVars, status
  <1>2. CASE WorkerStep(t)
    <2>1. UNCHANGED <<cgraph, request, work, ec>>
      BY <1>2 DEF WorkerStep, Top, PauseLock, CheckStop, PollStop, PollPause, PollGraph, Polled,
                  WorkLock, CondWait, Awake, Take, poolVars, clientVars
    <2>2. \E l : pc' = [pc EXCEPT ![t] = l]
      BY <1>2, WorkerMoves
    <2>3. pc'[0] = pc[0]
      BY <2>2 DEF Worker
    <2> QED
      BY <2>1, <2>3, Stutters DEF status
  <1> QED
    BY <1>1, <1>2

(* Of a thread that computes, it sees the pieces and the client's return. *)
LEMMA GraphRefines ==
  ASSUME ForkJoinInv, NEW t \in Thread, GraphStep(t)
  PROVE  F!Next \/ UNCHANGED F!vars
  <1> USE ThreadFacts DEF ForkJoinInv
  <1>1. pc \in [Thread -> PC]
    BY DEF TeamInv, TypeOK, ThreadsOK
  <1>2. CASE Start(t) \/ Loop(t) \/ Convert(t) \/ NextChunk(t) \/ Computed(t)
    <2>1. UNCHANGED <<cgraph, request, work>>
      BY <1>2 DEF Start, Loop, Convert, NextChunk, Computed, poolVars, clientVars
    <2>2. CASE t = 0
      <3>1. pc[0] \in Inside /\ pc'[0] \in Inside
        BY <1>1, <1>2, <2>2
           DEF Start, Loop, Convert, NextChunk, Computed, Goto, MeetThen, Inside
      <3> QED
        BY <2>1, <3>1, Stutters DEF status, Inside
    <2>3. CASE t # 0
      <3>1. pc'[0] = pc[0] /\ ec' = ec
        BY <1>1, <1>2, <2>3
           DEF Start, Loop, Convert, NextChunk, Computed, Goto, MeetThen, poolVars
      <3> QED
        BY <2>1, <3>1, Stutters DEF status
    <2> QED
      BY <2>2, <2>3
  <1>3. CASE Chunk(t)
    <2>1. Running
      BY <1>3, AtFacts, InsideFacts DEF Chunk, TeamInv, Inside
    <2> QED
      BY <1>3, <2>1, ChunkWork, RunningStatus, Stutters
  <1>4. CASE Meet(t)
    <2>1. /\ UNCHANGED <<cgraph, request, work, ec>> /\ pc[t] = "barrier"
          /\ pc' = pc \/ pc' = [pc EXCEPT ![t] = after[t]]
          /\ after[t] \in {Exit(t), "chunk", "loop"}
      BY <1>4, MeetFrame DEF Meet, poolVars, clientVars
    <2>2. CASE pc'[0] = pc[0]
      BY <2>1, <2>2, Stutters DEF status
    <2>3. CASE pc'[0] # pc[0]
      <3>1. t = 0 /\ pc[0] = "barrier" /\ pc'[0] \in {"idle", "chunk", "loop"}
        BY <1>1, <2>1, <2>3 DEF Exit
      <3>2. pc'[0] # "idle" => UNCHANGED F!vars
        BY <2>1, <3>1, Stutters DEF status
      <3> QED
        BY <1>4, <3>1, <3>2, ReturnRefines
    <2> QED
      BY <2>2, <2>3
  <1> QED
    BY <1>2, <1>3, <1>4, ShareWork DEF GraphStep

(* Calls of ggml_graph_compute behave like the sequential fork-join.       *)
THEOREM ImplementsForkJoin == Spec => ForkJoinSpec
  <1>1. Init => F!Init
    BY ThreadFacts DEF Init, F!Init, EmptyBag, SetToBag, F!EmptyBag, F!SetToBag
  <1>2. ForkJoinInv /\ [Next]_vars => [F!Next]_(F!vars)
    <2> SUFFICES ASSUME ForkJoinInv, [Next]_vars PROVE F!Next \/ UNCHANGED F!vars
      OBVIOUS
    <2>1. CASE Freed \/ UNCHANGED vars
      <3>1. UNCHANGED <<cgraph, request, work>> /\ status' = status
        BY <2>1 DEF Freed, vars, poolVars, threadVars, clientVars, status
      <3> QED
        BY <3>1, Stutters
    <2>2. CASE Next
      BY <2>1, <2>2, ClientRefines, WorkerRefines, GraphRefines DEF Next
    <2> QED
      BY <2>1, <2>2
  <1> QED
    BY <1>1, <1>2, WorkInvariance, PTL DEF Spec, ForkJoinSpec, F!Spec
=============================================================================
