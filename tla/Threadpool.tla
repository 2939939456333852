----------------------------- MODULE Threadpool -----------------------------
(***************************************************************************)
(* The CPU backend's thread pool (src/src/ggml-cpu/ggml-cpu.c, the build   *)
(* without OpenMP): a client thread calls ggml_graph_compute,              *)
(* ggml_threadpool_pause, _resume and _free one after the other and works  *)
(* on each graph as thread 0; the other threads poll for work, sleep on a  *)
(* condition variable, compute their share of every node between two       *)
(* barriers, and steal chunks of a matrix product from each other.         *)
(*                                                                         *)
(* One action per access to shared state that another thread can see; the  *)
(* accesses made inside one critical section of the mutex are one action   *)
(* when the other threads can see at most one of them from outside it.     *)
(***************************************************************************)
EXTENDS Barrier, Integers, Sequences, Bags, FiniteSets

CONSTANTS
    NThreads,     \* threads in the pool, thread 0 (the client) included
    Requests,     \* the values of cplan.n_threads that the client asks for
    Graphs,       \* the graphs it computes: sequences of nodes
    GraphWrap,    \* values of the graph counter in n_graph (2^16 in the code)
    MayAbort,     \* cplan.abort_callback is set and may return true
    MaxGraphs,    \* bound: calls of ggml_graph_compute
    MaxToggles    \* bound: calls of ggml_threadpool_pause and _resume

(* A node is what the control flow tells apart: an operator that does      *)
(* nothing, one that splits its rows by thread, and a matrix product, with *)
(* the number of chunks its shape asks for.                                *)
Nodes == [op : {"nop", "plain", "mul_mat"}, plan : Nat]

ASSUME ThreadsAssumption == NThreads \in Nat \ {0} /\ Requests \subseteq Nat \ {0}
ASSUME GraphsAssumption == Graphs \subseteq Seq(Nodes)
ASSUME WrapAssumption == GraphWrap \in Nat /\ GraphWrap >= 2
ASSUME BoundsAssumption == MayAbort \in BOOLEAN /\ MaxGraphs \in Nat /\ MaxToggles \in Nat

Thread == 0 .. NThreads - 1
Worker == Thread \ {0}
Nobody == NThreads

VARIABLES
    n_graph,        \* [graph, team]: the two halves of the atomic n_graph
    cgraph,         \* the graph of the current call
    current_chunk,  \* next chunk of the current matrix product to hand out
    stop, pause,
    abort,          \* node to stop before, -1 for none
    ec,             \* status of the current call
    mutex,          \* holder of the pool's mutex, or Nobody
    sleeping,       \* threads inside ggml_cond_wait that were not woken yet
    pc,             \* pc[t]: where thread t is
    after,          \* after[t]: where it continues when ggml_barrier returns
    last_graph,     \* last_graph[t]: value of n_graph that worker t saw last
    pending,        \* pending[t]: worker t has a graph to compute
    my_graph,       \* my_graph[t], nth[t]: the graph and team size t works with
    nth,
    node_n,         \* node_n[t]: index of the node that t is at
    chunk,          \* chunk[t]: chunk (or share) of that node
    request,        \* team size of the call that is about to be kicked off
    calls,          \* calls of ggml_graph_compute so far
    toggles,        \* calls of pause and resume so far
    work            \* bag of the pieces <<node, share>> computed in this call

poolVars == <<n_graph, cgraph, current_chunk, stop, pause, abort, ec, mutex, sleeping>>
localVars == <<after, last_graph, pending, my_graph, nth, node_n, chunk>>
threadVars == <<pc, localVars>>
clientVars == <<request, calls, toggles, work>>
vars == <<poolVars, threadVars, clientVars, barrierVars>>

-----------------------------------------------------------------------------
(* Shares of a node.                                                       *)

(* The chunk plan of a matrix product is scrapped for one chunk per thread *)
(* when it gives fewer than four chunks per thread.                        *)
NumChunks(node, n) == IF node.plan < n * 4 THEN n ELSE node.plan

Pieces(node, n) ==
    CASE node.op = "nop"     -> {}
      [] node.op = "plain"   -> 0 .. n - 1
      [] node.op = "mul_mat" -> 0 .. NumChunks(node, n) - 1

Node(t) == my_graph[t][node_n[t] + 1]

-----------------------------------------------------------------------------
Init ==
    /\ n_graph = [graph |-> 0, team |-> 0]
    /\ cgraph = << >>
    /\ current_chunk = 0
    /\ stop = FALSE
    /\ pause \in BOOLEAN          \* ggml_threadpool_params.paused
    /\ abort = -1
    /\ ec = "success"
    /\ mutex = Nobody
    /\ sleeping = {}
    /\ pc = [t \in Thread |-> IF t = 0 THEN "idle" ELSE "top"]
    /\ after = [t \in Thread |-> "idle"]
    /\ last_graph = [t \in Thread |-> n_graph]
    /\ pending = [t \in Thread |-> FALSE]
    /\ my_graph = [t \in Thread |-> << >>]
    /\ nth = [t \in Thread |-> 0]
    /\ node_n = [t \in Thread |-> 0]
    /\ chunk = [t \in Thread |-> 0]
    /\ request = 0
    /\ calls = 0
    /\ toggles = 0
    /\ work = EmptyBag
    /\ BarrierInit(Thread)

Goto(t, label) == pc' = [pc EXCEPT ![t] = label]

(* ggml_barrier is entered; the thread continues at label behind it. *)
MeetThen(t, label) ==
    /\ pc' = [pc EXCEPT ![t] = "barrier"]
    /\ after' = [after EXCEPT ![t] = label]

(* The bug of waking one sleeper where all of them have to look. *)
WakeOne ==
    IF sleeping = {} THEN UNCHANGED sleeping ELSE \E t \in sleeping : sleeping' = sleeping \ {t}

(* The bug of changing what sleepers wait for without telling them. *)
WakeNobody == UNCHANGED sleeping

Wake == sleeping' = {}     \* ggml_cond_broadcast

(* The bug of waking paused workers that find the pool still paused. *)
ResumeStillPaused == UNCHANGED pause /\ Wake

Resume == pause' = FALSE /\ Wake

-----------------------------------------------------------------------------
(* The client.                                                             *)

(* The bug of trusting a plan made for more threads than the pool has. *)
NotClamped(n) == n

Clamped(n) == IF n > NThreads THEN NThreads ELSE n

(* ggml_graph_compute up to the kickoff: the parameters are reset without  *)
(* the mutex, "no worker threads should be accessing the parameters below  *)
(* at this stage".  The first call on a pool it creates itself             *)
(* (disposable_threadpool) starts from the same values.                    *)
Compute(g, n) ==
    /\ pc[0] = "idle"
    /\ calls < MaxGraphs
    /\ cgraph' = g
    /\ current_chunk' = 0
    /\ abort' = -1
    /\ ec' = "success"
    /\ request' = Clamped(n)
    /\ calls' = calls + 1
    /\ work' = EmptyBag
    /\ Goto(0, "kickoff")
    /\ UNCHANGED <<n_graph, stop, pause, mutex, sleeping, localVars, toggles, barrierVars>>

(* ggml_graph_compute_kickoff: the new graph is announced under the mutex, *)
(* but polling workers see it before the mutex is given back ...           *)
Announce ==
    /\ pc[0] = "kickoff"
    /\ mutex = Nobody
    /\ mutex' = 0
    /\ n_graph' = [graph |-> (n_graph.graph + 1) % GraphWrap, team |-> request]
    /\ Goto(0, "broadcast")
    /\ UNCHANGED <<cgraph, current_chunk, stop, pause, abort, ec, sleeping, localVars,
                   clientVars, barrierVars>>

(* ... then a paused pool is resumed and the sleeping workers are woken. *)
Broadcast ==
    /\ pc[0] = "broadcast"
    /\ Resume
    /\ mutex' = Nobody
    /\ Goto(0, "start")
    /\ UNCHANGED <<n_graph, cgraph, current_chunk, stop, abort, ec, localVars, clientVars,
                   barrierVars>>

(* ggml_threadpool_pause and ggml_threadpool_resume *)
SetPause(p) ==
    /\ pc[0] = "idle"
    /\ toggles < MaxToggles
    /\ mutex = Nobody
    /\ IF pause # p THEN pause' = p /\ Wake ELSE UNCHANGED <<pause, sleeping>>
    /\ toggles' = toggles + 1
    /\ UNCHANGED <<n_graph, cgraph, current_chunk, stop, abort, ec, mutex, threadVars, request,
                   calls, work, barrierVars>>

(* ggml_threadpool_free: stop, then lift the pause and wake everybody, ... *)
Stop ==
    /\ pc[0] = "idle"
    /\ mutex = Nobody
    /\ mutex' = 0
    /\ stop' = TRUE
    /\ Goto(0, "unpause")
    /\ UNCHANGED <<n_graph, cgraph, current_chunk, pause, abort, ec, sleeping, localVars,
                   clientVars, barrierVars>>

Unpause ==
    /\ pc[0] = "unpause"
    /\ Resume
    /\ mutex' = Nobody
    /\ Goto(0, "join")
    /\ UNCHANGED <<n_graph, cgraph, current_chunk, stop, abort, ec, localVars, clientVars,
                   barrierVars>>

(* ... and join the workers before the pool is released. *)
Join ==
    /\ pc[0] = "join"
    /\ \A t \in Worker : pc[t] = "exited"
    /\ Goto(0, "freed")
    /\ UNCHANGED <<poolVars, localVars, clientVars, barrierVars>>

-----------------------------------------------------------------------------
(* A worker between graphs: ggml_graph_compute_secondary_thread,           *)
(* _check_for_work, _poll_for_work and _thread_ready.                      *)

(* while (threadpool->pause) *)
Top(t) ==
    /\ pc[t] = "top"
    /\ Goto(t, IF pause THEN "pause_lock" ELSE "stop?")
    /\ UNCHANGED <<poolVars, localVars, clientVars, barrierVars>>

(* The bug of waiting without testing the pause again. *)
PauseLockUntested(t) ==
    /\ pc[t] = "pause_lock"
    /\ mutex = Nobody
    /\ mutex' = t
    /\ Goto(t, "pause_wait")
    /\ UNCHANGED <<n_graph, cgraph, current_chunk, stop, pause, abort, ec, sleeping, localVars,
                   clientVars, barrierVars>>

(* The pause is tested again under the mutex, before the wait. *)
PauseLock(t) ==
    /\ pc[t] = "pause_lock"
    /\ mutex = Nobody
    /\ IF pause THEN mutex' = t /\ Goto(t, "pause_wait") ELSE mutex' = mutex /\ Goto(t, "top")
    /\ UNCHANGED <<n_graph, cgraph, current_chunk, stop, pause, abort, ec, sleeping, localVars,
                   clientVars, barrierVars>>

(* if (threadpool->stop) break *)
CheckStop(t) ==
    /\ pc[t] = "stop?"
    /\ Goto(t, IF stop THEN "exited" ELSE "poll_stop")
    /\ UNCHANGED <<poolVars, localVars, clientVars, barrierVars>>

(* The polling loop reads stop, pause and n_graph without the mutex. *)
PollStop(t) ==
    /\ pc[t] = "poll_stop"
    /\ Goto(t, IF pending[t] \/ stop THEN "polled" ELSE "poll_pause")
    /\ UNCHANGED <<poolVars, localVars, clientVars, barrierVars>>

PollPause(t) ==
    /\ pc[t] = "poll_pause"
    /\ Goto(t, IF pause THEN "polled" ELSE "poll_graph")
    /\ UNCHANGED <<poolVars, localVars, clientVars, barrierVars>>

(* An off-by-one that lets one thread too many take part. *)
InTeamOffByOne(t) == t <= n_graph.team

InTeam(t) == t < n_graph.team

(* A new graph is noted, and whether this thread is in its team. *)
NoteGraph(t) ==
    /\ pending' = [pending EXCEPT ![t] = InTeam(t)]
    /\ last_graph' = [last_graph EXCEPT ![t] = n_graph]

PollGraph(t) ==
    /\ pc[t] = "poll_graph"
    /\ \/ /\ n_graph # last_graph[t]
          /\ NoteGraph(t)
          /\ Goto(t, "polled")
       \/ /\ n_graph = last_graph[t]
          /\ \E again \in BOOLEAN : Goto(t, IF again THEN "poll_stop" ELSE "polled")
          /\ UNCHANGED <<pending, last_graph>>
    /\ UNCHANGED <<poolVars, after, my_graph, nth, node_n, chunk, clientVars, barrierVars>>

(* Polling found work for this thread, or it goes on to the mutex. *)
Polled(t) ==
    /\ pc[t] = "polled"
    /\ Goto(t, IF pending[t] THEN "take" ELSE "work_lock")
    /\ UNCHANGED <<poolVars, localVars, clientVars, barrierVars>>

(* thread_ready under the mutex, where stop, pause and n_graph stand still. *)
WorkLock(t) ==
    /\ pc[t] = "work_lock"
    /\ mutex = Nobody
    /\ \/ /\ pending[t] \/ stop \/ pause
          /\ Goto(t, "take")
          /\ UNCHANGED <<mutex, pending, last_graph>>
       \/ /\ ~(pending[t] \/ stop \/ pause)
          /\ n_graph # last_graph[t]
          /\ NoteGraph(t)
          /\ Goto(t, "take")
          /\ UNCHANGED mutex
       \/ /\ ~(pending[t] \/ stop \/ pause)
          /\ n_graph = last_graph[t]
          /\ mutex' = t
          /\ Goto(t, "work_wait")
          /\ UNCHANGED <<pending, last_graph>>
    /\ UNCHANGED <<n_graph, cgraph, current_chunk, stop, pause, abort, ec, sleeping, after,
                   my_graph, nth, node_n, chunk, clientVars, barrierVars>>

(* ggml_cond_wait gives the mutex back and sleeps in one step; a woken     *)
(* thread takes the mutex again and, in both loops, tests its condition    *)
(* as if it came anew.                                                     *)
CondWait(t) ==
    /\ pc[t] \in {"pause_wait", "work_wait"}
    /\ mutex' = Nobody
    /\ sleeping' = sleeping \union {t}
    /\ Goto(t, IF pc[t] = "pause_wait" THEN "pause_sleep" ELSE "work_sleep")
    /\ UNCHANGED <<n_graph, cgraph, current_chunk, stop, pause, abort, ec, localVars, clientVars,
                   barrierVars>>

Awake(t) ==
    /\ pc[t] \in {"pause_sleep", "work_sleep"}
    /\ t \notin sleeping
    /\ pc[t] = "pause_sleep" => mutex = Nobody      \* taken and given back
    /\ Goto(t, IF pc[t] = "pause_sleep" THEN "top" ELSE "work_lock")
    /\ UNCHANGED <<poolVars, localVars, clientVars, barrierVars>>

(* A condition variable may wake a thread that nobody signalled. *)
SpuriousWake(t) ==
    /\ t \in sleeping
    /\ sleeping' = sleeping \ {t}
    /\ UNCHANGED <<n_graph, cgraph, current_chunk, stop, pause, abort, ec, mutex, threadVars,
                   clientVars, barrierVars>>

(* if (state->pending) { pending = false; ggml_graph_compute_thread } *)
Take(t) ==
    /\ pc[t] = "take"
    /\ pending' = [pending EXCEPT ![t] = FALSE]
    /\ Goto(t, IF pending[t] THEN "start" ELSE "top")
    /\ UNCHANGED <<poolVars, after, last_graph, my_graph, nth, node_n, chunk, clientVars,
                   barrierVars>>

-----------------------------------------------------------------------------
(* ggml_graph_compute_thread: the client and the workers of the team.      *)

Start(t) ==
    /\ pc[t] = "start"
    /\ my_graph' = [my_graph EXCEPT ![t] = cgraph]
    /\ nth' = [nth EXCEPT ![t] = n_graph.team]
    /\ node_n' = [node_n EXCEPT ![t] = 0]
    /\ Goto(t, "loop")
    /\ UNCHANGED <<poolVars, after, last_graph, pending, chunk, clientVars, barrierVars>>

Exit(t) == IF t = 0 THEN "idle" ELSE "top"

(* The head of the node loop: the end of the graph or an abort leads to    *)
(* the last barrier, an empty node is skipped without a barrier, any other *)
(* one is computed; every thread begins with the share of its own number.  *)
Loop(t) ==
    /\ pc[t] = "loop"
    /\ \/ /\ node_n[t] >= Len(my_graph[t]) \/ abort = node_n[t]
          /\ MeetThen(t, Exit(t))
          /\ UNCHANGED <<node_n, chunk>>
       \/ /\ node_n[t] < Len(my_graph[t]) /\ abort # node_n[t]
          /\ Node(t).op = "nop"
          /\ node_n' = [node_n EXCEPT ![t] = @ + 1]
          /\ UNCHANGED <<pc, after, chunk>>
       \/ /\ node_n[t] < Len(my_graph[t]) /\ abort # node_n[t]
          /\ Node(t).op # "nop"
          /\ Goto(t, IF Node(t).op = "plain" THEN "share" ELSE "convert")
          /\ chunk' = [chunk EXCEPT ![t] = t]
          /\ UNCHANGED <<node_n, after>>
    /\ UNCHANGED <<poolVars, last_graph, pending, my_graph, nth, clientVars, barrierVars>>

Did(t) == work' = work (+) SetToBag({<<node_n[t], chunk[t]>>})

(* An operator that splits its rows by thread. *)
Share(t) ==
    /\ pc[t] = "share"
    /\ Did(t)
    /\ Goto(t, "computed")
    /\ UNCHANGED <<poolVars, localVars, request, calls, toggles, barrierVars>>

(* The bug of handing out again the chunks that the threads start with. *)
FirstChunkZero(t) == 0

FirstChunk(t) == nth[t]

(* ggml_compute_forward_mul_mat, first phase: src1 is converted into wdata *)
(* and thread 0 sets the chunk counter behind the chunks taken by number.  *)
Convert(t) ==
    /\ pc[t] = "convert"
    /\ current_chunk' = IF t = 0 THEN FirstChunk(t) ELSE current_chunk
    /\ MeetThen(t, "chunk")
    /\ UNCHANGED <<n_graph, cgraph, stop, pause, abort, ec, mutex, sleeping, last_graph, pending,
                   my_graph, nth, node_n, chunk, clientVars, barrierVars>>

(* Second phase: chunks of the result, while there are any. *)
Chunk(t) ==
    /\ pc[t] = "chunk"
    /\ LET chunks == NumChunks(Node(t), nth[t])
       IN  IF chunk[t] < chunks
           THEN /\ Did(t)
                /\ Goto(t, IF nth[t] >= chunks THEN "computed" ELSE "next_chunk")
           ELSE /\ Goto(t, "computed")
                /\ UNCHANGED work
    /\ UNCHANGED <<poolVars, localVars, request, calls, toggles, barrierVars>>

NextChunk(t) ==
    /\ pc[t] = "next_chunk"
    /\ chunk' = [chunk EXCEPT ![t] = current_chunk]
    /\ current_chunk' = current_chunk + 1
    /\ Goto(t, "chunk")
    /\ UNCHANGED <<n_graph, cgraph, stop, pause, abort, ec, mutex, sleeping, after, last_graph,
                   pending, my_graph, nth, node_n, clientVars, barrierVars>>

(* The bug of naming the node just computed, which the others may not have *)
(* begun, instead of the one behind it.                                    *)
AbortHere(t) == node_n[t]

AbortBefore(t) == node_n[t] + 1

(* The bug of leaving out the barrier in front of an empty node. *)
MeetsUnlessEmpty(t) ==
    node_n[t] + 1 < Len(my_graph[t]) /\ my_graph[t][node_n[t] + 2].op # "nop"

Meets(t) == node_n[t] + 1 < Len(my_graph[t])

(* Behind a node: thread 0 asks the abort callback, then the team meets    *)
(* unless this was the last node.                                          *)
Computed(t) ==
    /\ pc[t] = "computed"
    /\ \/ /\ t = 0 /\ MayAbort
          /\ abort' = AbortBefore(t)
          /\ ec' = "aborted"
       \/ UNCHANGED <<abort, ec>>
    /\ IF Meets(t)
       THEN MeetThen(t, "loop")
       ELSE Goto(t, "loop") /\ UNCHANGED after
    /\ node_n' = [node_n EXCEPT ![t] = @ + 1]
    /\ UNCHANGED <<n_graph, cgraph, current_chunk, stop, pause, mutex, sleeping, last_graph,
                   pending, my_graph, nth, chunk, clientVars, barrierVars>>

(* ggml_barrier, with the team size it reads from n_graph itself *)
Meet(t) ==
    /\ pc[t] = "barrier"
    /\ \/ /\ BarrierAlone(t, n_graph.team) \/ BarrierRelease(t) \/ BarrierSpin(t)
          /\ Goto(t, after[t])
       \/ /\ BarrierLoad(t, n_graph.team) \/ BarrierAdd(t, n_graph.team) \/ BarrierReset(t)
          /\ UNCHANGED pc
    /\ UNCHANGED <<poolVars, localVars, clientVars>>

-----------------------------------------------------------------------------
ClientCall ==
    \/ \E g \in Graphs, n \in Requests : Compute(g, n)
    \/ \E p \in BOOLEAN : SetPause(p)
    \/ Stop

ClientStep == Announce \/ Broadcast \/ Unpause \/ Join

Locks(t) == PauseLock(t) \/ WorkLock(t) \/ (pc[t] = "pause_sleep" /\ Awake(t))

WorkerStep(t) ==
    \/ Top(t) \/ PauseLock(t) \/ CheckStop(t)
    \/ PollStop(t) \/ PollPause(t) \/ PollGraph(t) \/ Polled(t)
    \/ WorkLock(t) \/ CondWait(t) \/ Awake(t) \/ Take(t)

GraphStep(t) ==
    \/ Start(t) \/ Loop(t) \/ Share(t) \/ Convert(t) \/ Chunk(t) \/ NextChunk(t)
    \/ Computed(t) \/ Meet(t)

Freed == pc[0] = "freed" /\ UNCHANGED vars

Next ==
    \/ ClientCall \/ ClientStep \/ Freed
    \/ \E t \in Worker : WorkerStep(t) \/ SpuriousWake(t)
    \/ \E t \in Thread : GraphStep(t)

Spec == Init /\ [][Next]_vars

(* The operating system runs every thread, and a mutex that is free again  *)
(* and again is granted in the end.  Nothing makes the client call.        *)
FairSpec ==
    /\ Spec
    /\ WF_vars(ClientStep)
    /\ SF_vars(Announce)
    /\ \A t \in Worker : WF_vars(WorkerStep(t)) /\ SF_vars(Locks(t))
    /\ \A t \in Thread : WF_vars(GraphStep(t))
-----------------------------------------------------------------------------
(* Properties.                                                             *)

PC == {"idle", "kickoff", "broadcast", "unpause", "join", "freed",
       "top", "pause_lock", "pause_wait", "pause_sleep", "stop?", "exited",
       "poll_stop", "poll_pause", "poll_graph", "polled", "work_lock", "work_wait",
       "work_sleep", "take", "start", "loop", "share", "convert", "chunk",
       "next_chunk", "computed", "barrier"}

NGraph == [graph : 0 .. GraphWrap - 1, team : 0 .. NThreads]
SomeGraph == Graphs \union {<< >>}

PoolOK ==
    /\ n_graph \in NGraph
    /\ cgraph \in SomeGraph
    /\ current_chunk \in Nat
    /\ stop \in BOOLEAN /\ pause \in BOOLEAN
    /\ abort \in Int
    /\ ec \in {"success", "aborted"}
    /\ mutex \in Thread \union {Nobody}
    /\ sleeping \subseteq Worker
    /\ request \in 0 .. NThreads /\ calls \in Nat /\ toggles \in Nat

ThreadsOK ==
    /\ pc \in [Thread -> PC]
    /\ after \in [Thread -> {"idle", "top", "chunk", "loop"}]
    /\ last_graph \in [Thread -> NGraph]
    /\ pending \in [Thread -> BOOLEAN]
    /\ my_graph \in [Thread -> SomeGraph]
    /\ nth \in [Thread -> 0 .. NThreads]
    /\ node_n \in [Thread -> Nat]
    /\ chunk \in [Thread -> Nat]

BarrierOK ==
    /\ n_barrier \in Nat /\ n_barrier_passed \in Nat
    /\ bpc \in [Thread -> BarrierPC]
    /\ n_passed \in [Thread -> Nat]

TypeOK == PoolOK /\ ThreadsOK /\ BarrierOK

(* Threads that execute an operator, and the node and phase they are in.   *)
Computing == {t \in Thread : pc[t] \in {"share", "convert", "chunk", "next_chunk"}}
Phase(t) == <<node_n[t], IF pc[t] = "next_chunk" THEN "chunk" ELSE pc[t]>>

(* Threads compute the same phase of the same node of the same graph or    *)
(* wait: no thread reads a tensor, wdata or current_chunk that another one *)
(* still writes for an earlier node or phase, and all split the work by    *)
(* the same team size.                                                     *)
Lockstep ==
    \A t, u \in Computing :
        /\ Phase(t) = Phase(u)
        /\ my_graph[t] = my_graph[u]
        /\ nth[t] = nth[u]

(* Threads between the read of tp->cgraph and their arrival at the last    *)
(* barrier: they read cgraph, n_graph, abort and current_chunk.            *)
Reading ==
    {t \in Thread : \/ pc[t] = "take" /\ pending[t]
                    \/ pc[t] \in {"start", "loop", "computed"}
                    \/ pc[t] = "barrier" /\ bpc[t] # "spin"}
        \union Computing

(* "No worker threads should be accessing the parameters below at this     *)
(* stage": while ggml_graph_compute resets them, and until it announces    *)
(* the next graph, no worker is between taking a graph and arriving at its *)
(* last barrier.                                                           *)
ParametersAtRest == pc[0] \in {"idle", "kickoff"} => Reading \subseteq {0}

(* Calls of ggml_graph_compute behave like the sequential fork-join: every *)
(* piece of every node exactly once, nodes in order, and a return only     *)
(* when all of the graph, or all of it up to an abort, is computed.        *)
F == INSTANCE ForkJoin WITH
        graph <- cgraph,
        team <- request,
        status <- IF pc[0] \in {"idle", "unpause", "join", "freed"} THEN ec ELSE "running"
ForkJoinSpec == F!Spec

(* A worker never sleeps on the condition variable while there is work for *)
(* it, a stop request, or, in the pause loop, no pause: no wakeup is lost  *)
(* between the test of the condition and the wait.                         *)
NoLostWakeup ==
    mutex # 0 =>
        \A t \in sleeping :
            IF pc[t] = "pause_sleep"
            THEN pause
            ELSE ~stop /\ ~pause /\ n_graph = last_graph[t]

(* Why no wakeup is lost.  The mutex is held, between two actions, by the  *)
(* client inside ggml_graph_compute_kickoff or ggml_threadpool_free, or by *)
(* a worker about to wait; only waiting workers sleep; what a worker about *)
(* to wait has tested still holds, and a sleeper's condition does too.     *)
Waiting == {"pause_wait", "work_wait"}

MutexHeld ==
    /\ mutex = 0 <=> pc[0] \in {"broadcast", "unpause"}
    /\ \A t \in Worker : mutex = t <=> pc[t] \in Waiting

SleepersWait == \A t \in sleeping : pc[t] \in {"pause_sleep", "work_sleep"}

WaitJustified ==
    \A t \in Worker :
        /\ pc[t] = "pause_wait" => pause
        /\ pc[t] = "work_wait" => ~stop /\ ~pause /\ n_graph = last_graph[t]

WakeInv == TypeOK /\ MutexHeld /\ SleepersWait /\ WaitJustified /\ NoLostWakeup

(* ggml_graph_compute returns: no thread of its team waits for ever.       *)
ComputeReturns == pc[0] = "kickoff" ~> pc[0] = "idle"

(* ggml_threadpool_free returns: every worker leaves its loop, also one    *)
(* that was paused or asleep.                                              *)
FreeJoins == pc[0] = "unpause" ~> pc[0] = "freed"

(* A pause that is not lifted puts every worker to sleep in the pause      *)
(* loop, however it was polling or sleeping when the pause came.           *)
PauseParks == \A t \in Worker : <>[]pause => []<>(pc[t] = "pause_sleep")
=============================================================================
