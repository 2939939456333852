# A verification development for pyannote.cpp

pyannote.cpp answers "who spoke when?" for an audio file. Two programs, a batch
one (`src/examples/main.cpp`) and a streaming one (`src/examples/main_streaming.cpp`),
run two neural networks on overlapping chunks of audio with the vendored `ggml`
tensor library, and turn the networks' outputs into segments with a speaker each.
This directory holds TLA+ models of the parts of that code in which order,
concurrency and accumulated state decide whether the result is right, the TLC
configurations that check them, and TLAPS proofs, for every value of the
parameters, of every safety property and every refinement among them.

Line numbers below refer to `src/src/ggml-cpu/ggml-cpu.c` (CPU),
`src/examples/main_streaming.cpp` (STR), `src/examples/main.cpp` (MAIN),
`src/examples/vbx.cpp` (VBX) and `src/src/ggml-alloc.c` (ALLOC). `PROJECT.json` maps every definition to
the lines it stands for, lists the hazards the properties are aimed at, and one
seeded fault per checked property.

## 1. The system

| Component | State it keeps | Operations | What makes it correct |
|---|---|---|---|
| Spin barrier (CPU 547-583) | two atomic counters | `ggml_barrier` | nobody leaves before everybody came; everybody leaves; reusable at once |
| Thread pool (CPU 2643-2711, 2919-3260) | graph counter and team size in one atomic, flags `stop`, `pause`, `abort`, mutex and condition variable; per worker `last_graph`, `pending` | compute a graph, pause, resume, free; worker loop with polling and sleeping | every call returns with each node computed once and in order; parameters are not overwritten while read; no lost wakeup; free and pause reach everybody |
| Matrix product (CPU 1287-1420) | `current_chunk`, shared by the team | convert, take chunks | each chunk exactly once |
| Online clustering (STR 609-770) | centres, which of them exist, last embeddings | `identify`, `permute_segmentation` | speakers of one chunk kept apart; a speaker keeps the identity |
| Streaming output (STR 858-1058) | prediction buffer, per speaker an open segment | process a chunk, flush | time axis covered once and in order; segments agree with the averaged predictions |
| Batch pipeline (MAIN 542-934) | predictions, embeddings, `assignment_map`, votes on the frame grid | chunks, reconstruction, sorting, joining | speech is given to the speaker its embedding was put in; what is printed is what was heard |
| AHC (MAIN 407-455, VBX 274-458) | lists of members; or parents, sizes, centroids, distances | merge the closest pair, relabel | every merge is of a closest pair, nothing close is left apart, labels are the clusters |
| VBx (VBX 464-680) | responsibilities of initial clusters | move embeddings, renumber | no label without an embedding |
| Tensor allocator `ggml_dyn_tallocr` (ALLOC 113-396) | per chunk the sorted free blocks and `max_size` | allocate, free, free the end, reset | live tensors never share memory; nothing leaks |
| Graph allocator `ggml_gallocr` (ALLOC 401-1101) | per tensor uses, views, address; the plan; the buffer | plan a graph, keep a plan, renew the buffer | what a node reads is still there; outputs survive |
| Tensor contexts, GGUF loader, backend scheduler, kernels, other backends, `ggml-opt` | | | see section 8 |

How they interact. A program builds a graph of tensor operators and calls
`ggml_backend_graph_compute`, which for the CPU backend is `ggml_graph_compute`.
The calling thread becomes thread 0 of the pool; all communication with the
workers is through shared atomics, one mutex and one condition variable. Between
two operators, and inside an operator of two phases, the team meets at
`ggml_barrier`. What comes out of the networks (per frame and local slot a
probability, per slot an embedding) goes, chunk after chunk, through the online
clustering, which names the slots, and into the prediction buffer, from which
segments are printed. The batch program keeps all chunks, clusters all
embeddings at the end and votes on the frames of the recording. A graph that is
allocated by `ggml_gallocr` shares memory between its tensors by their lifetimes;
the backend scheduler and the library's tests use it, while the programs give every
tensor of a context memory of its own. Nothing is persisted and nothing is sent over a network,
so crashes and lost messages are no concern here; the hard behaviours are the
interleavings of the pool, the long sequences of chunks, merges, allocations and
releases, and state kept from one graph to the next.

## 2. The modules

| Module | Models | Role |
|---|---|---|
| `Barrier` | `ggml_barrier` | one action per access to an atomic, no `Next` of its own |
| `Rendezvous` | | abstract: a team arrives one by one and is let go at once |
| `BarrierLoop` | `ggml_barrier` used in a loop | closes `Barrier`; implements `Rendezvous` |
| `BarrierProofs` | | theorems about `BarrierLoop` |
| `ForkJoin` | what `ggml_graph_compute` promises | abstract: pieces of nodes in order, each once, then return |
| `Threadpool`, `MCThreadpool` | the pool and the node loop, with `Barrier` embedded and the matrix product's chunks | implements `ForkJoin` |
| `ThreadpoolProofs` | | theorems about `Threadpool`: types, wakeups, the team in lockstep, `ForkJoin` implemented |
| `OnlineClustering`, `MCOnlineClustering` | identities in the streaming program | |
| `OnlineClusteringProofs` | | theorems about `OnlineClustering` |
| `Streaming`, `MCStreaming` | chunk loop, aggregation and segments of the streaming program | |
| `StreamingProofs` | | theorems about `Streaming` |
| `Ahc` | `agglomerative_clustering`, `simple_ahc` | pure operators: one merge |
| `Agglomeration` | | abstract: clustering by definition |
| `Batch`, `MCBatch` | the batch program from the networks' answers to the printed lines | its clusterings implement `Agglomeration` |
| `BatchProofs` | | theorems about `Batch`: votes, printed segments, clusterings |
| `FreeLists` | `ggml_dyn_tallocr` | pure operators on the free lists |
| `Intervals` | what an allocator promises | abstract: disjoint ranges |
| `DynAlloc`, `MCDynAlloc` | `ggml_dyn_tallocr` at work | implements `Intervals` |
| `FreeListProofs` | | lemmas about the operators of `FreeLists` |
| `DynAllocProofs` | | theorems about `DynAlloc` |
| `Gallocr`, `MCGallocr` | `ggml_gallocr_alloc_graph` and the computation of the graph | uses `FreeLists` |
| `GallocrProofs` | | theorems about `Gallocr` |

### Barrier

`n_barrier` and `n_barrier_passed` are the atomics of `struct ggml_threadpool`;
`bpc[t]` says between which two accesses thread `t` is. The actions follow the
code in order: `BarrierAlone` (team of one), `BarrierLoad` (snapshot of
`n_barrier_passed`), `BarrierAdd` (fetch-and-add on `n_barrier`; who completes
the team goes on to) `BarrierReset` and `BarrierRelease`, the others to
`BarrierSpin`. The reset and the release are separate steps: between them the
other threads still spin.

### Threadpool

`pc[t]` names the next access of thread `t`. Thread 0 is the client: `Compute`
(parameters reset without the mutex, team clamped), `Announce` and `Broadcast`
(the kickoff), `SetPause`, `Stop`, `Unpause`, `Join`. The other threads run
`Top`, `PauseLock`, `CheckStop` (the outer loop), `PollStop`, `PollPause`,
`PollGraph`, `Polled` (polling without the mutex), `WorkLock`, `CondWait`,
`Awake` (mutex and condition variable) and `Take`. Everybody in the team runs
`Start`, `Loop`, `Share` (an operator that splits rows by thread), `Convert`,
`Chunk`, `NextChunk` (the matrix product), `Computed` (abort callback of
thread 0) and `Meet` (the barrier).

Granularity. Each access to shared state that another thread can observe is one
action. A critical section is one action when other threads can see at most one
of its stores without the mutex; the kickoff (stores `n_graph`, then `pause`) and
the free (`stop`, then `pause`) are therefore two actions that hold the mutex in
between. `ggml_cond_wait` gives the mutex back and sleeps in one step, and
`SpuriousWake` lets it return for no reason.

Choices. The build without OpenMP. A disposable pool (`ggml_graph_compute`
without one) is `Init`, `Compute`, `Stop`. The relaxed accesses are taken as
sequentially consistent: they are ordered by the barrier's sequentially
consistent fetch-and-adds, the sequentially consistent store of `n_graph` with
the fence in `ggml_graph_compute_thread_sync`, and the mutex. `stop`, `pause` and
`abort` are atomics in the code. A graph is a sequence of nodes of which the
control flow sees three kinds: empty, split by thread, and matrix product with
the number of chunks its shape asks for. The number of polling rounds is left
open (`PollGraph` may give up at any time).

### OnlineClustering

One action, `ProcessChunk`, takes what the networks return for a chunk: per
local slot silent, active (peak at or above `tau_active`) or long (mean at or
above `rho_update` too), and an embedding or none. It decides which embeddings
are used (`--embed_every`), calls `Identify` and files the speech with `Permute`.
`Matchings` is the greedy assignment: the set of matchings that some order of
the sorted pairs gives, since `std::sort` does not fix the order of equal
distances. Slots that were left over take free identities in their order (`Raised`, `Founded`);
the k-th that asks gets the k-th that is free. Embeddings are integer vectors in the plane, of one
length because `get_embedding` divides by the norm (STR 376-382), so that
1 - dot is exact (`LengthAssumption`). A slot whose mean is high but whose peak is not is treated by
the code as silent, and so it is here; speech below the thresholds, which
`permute_segmentation` copies as well, is not recorded in `filed`.

### Streaming

One action, `ProcessChunk`, is one iteration of the loop with an arbitrary
prediction; `Finish` is the flush. `Trimmed` is the `pop_front`; the early
`continue` for an empty window is kept, with its effect that the buffer is not
trimmed. Probabilities are zero or one per frame and speaker: the average with
Hamming weights against `tau_active` is kept: a frame's voters are the chunks in the buffer
that have it, `heard` says that there was one. `FollowFrame` is the loop body of
STR 1035-1045, applied frame by frame. `track[s]` is
`active_global[s]`, `active_start[s]` and the lines printed for `s`.
Times are integers in a unit that divides the step and half a frame, as
for decimal command lines; what floating point adds to that is not modelled.

### Batch and Ahc

`stage` is where `main` is. `Chunk` is one iteration of the chunk loop with any
patterns of active frames and any embeddings, slot after slot; it ends like the code when less
than half a window is left. `MergeAverage` and `MergeCentroid` are one iteration
of the two clustering loops: the first works on the list of lists `clusters`,
from which the second of the pair is erased (MAIN 445-446), the second on a record
with the arrays of `simple_ahc`: who is active, parents, sizes, centroids (kept as sums),
and the distances, of which a merge renews those of the merged cluster. `initial` is what
the clustering returned, `labels` is `global_labels`. `Vbx` gives every embedding
any initial cluster, up to `MaxMoves` moved ones, and renumbers. `Rebuild` is the voting: a slot
votes for the label of its last embedding. `PrintSegment` takes the pending
segments by their starts, equal starts in any order as `std::sort` may, and joins.

Embeddings are integer points of the sphere of radius 11: unit vectors up to the scale, so that
1 - dot is half the squared distance and both thresholds of 0.6 are exact
fractions. Probabilities are 0 or 1.

The recording, the window and the step are counted in samples and a frame is `FrameDuration` samples
(270, against a step of 16000: 59.26 frames). The conversions to the frame grid are those of the code:
`GridFrames` rounds the recording up (MAIN 838), `StartFrame` rounds the start of each chunk
on its own, half a frame up (MAIN 849: 0, 59, 119, 178, ...), `FrameIn` counts from there. `NumFrames` is what the
network answers for a window (589). `MinLen` stands for the 6 frames, 0.2 s and five filterbank
frames of MAIN 777-791, and `Gap` is the least number of frames that last 0.1 s (6).

### FreeLists and DynAlloc

`FreeLists` says what an allocation (best fit in the blocks that are not last,
else the best last block, else a new chunk) and a release (join the first block that
touches, and then its neighbour, or insert in order) make of the free lists. `DynAlloc`
lets them happen in any order, with the partial release of `ggml_gallocr_free_extra_space`;
`live[t]` is the range tensor `t` holds. Allocation in a full last chunk
aborts the program and is no step. Sizes are natural numbers; no sum comes near 2^64.

### Gallocr

One graph allocator with one buffer, for one graph after the other. `Reserve`,
`PlanNode` and `Planned` are `ggml_gallocr_reserve_n_impl` (leafs and counting, one node after the
other, the plan and the buffer), `KeepPlan` is the answer "no" of
`ggml_gallocr_needs_realloc`; then the nodes are computed one by one in the memory planned
for them, and `Build` makes the next graph. `intact` is the set of tensors whose value has not been
overwritten: computing a node removes every tensor that shares an address with it. That
is the program's side, and marked external, as are view creation and the sizes
that a buffer type asks for.

Operators are of three kinds: "elementwise" (`ggml_op_can_inplace`, result laid
out like the first source), "wide" (not in place, another layout, and bytes behind its
result, as `get_alloc_size` of the Metal backend asks for some operators),
and "view". A view is never marked `allocated` (ALLOC 630), so
`ggml_gallocr_is_own` rejects it as a source to take over and the branch at ALLOC 661-673
is never reached; `Reusable` has no such case. The assertion
`parent_size >= node_size` (ALLOC 610) holds for operators of these kinds.

`IsTopology` says which graphs there are: at most `MaxSrc` sources each (`GGML_MAX_SRC`), all of
them earlier tensors, and a `view_src` that is never a view itself, since `ggml_new_tensor_impl`
resolves it. `Uses(t)` and `Views(t)` are what the counting loop counts for `t`.

## 3. The runs

| Run | Instance | Shows |
|---|---|---|
| `barrier` | 3 threads, 3 rounds | the inductive invariant, nobody early, refinement of the rendezvous, everybody gets through |
| `threadpool` | 3 threads, 2 calls with teams of 2 and of 3 (asked for as 4), aborts, 1 pause or resume, spurious wakeups, free at any time | `TypeOK`, `Lockstep`, `ParametersAtRest`, `WakeInv`, `NoLostWakeup`, `ForkJoinSpec` |
| `threadpool_steal` | 2 threads, 3 calls, two products of 8 chunks in a row or one before an empty end, graph counter modulo 2 | `ForkJoinSpec` with dynamic chunks and a wrapping counter |
| `threadpool_live` | 2 threads, teams of 1 and 2, 3 calls, 3 pauses or resumes | `ComputeReturns`, `FreeJoins`, `PauseParks` |
| `clustering` | 2 slots, 3 identities, 3 voices, every 4-chunk conversation, new embeddings in every other chunk | `LongSpeakersApart`, `OnceKnownAlwaysNamed`, `SoloKeepsIdentity` |
| `clustering_cosine` | 2 voices 0.2 apart, 2 identities | a violation, see section 7 |
| `dyn_alloc` | 4 interchangeable tensors of 1, 3, 5 or 8 bytes, alignment 2, chunks of 6 bytes, 3 chunks | `NoOverlap`, `Coalesced`, `WithinMaxSize`, `NoLeak`, `FewBlocks`, `PromiseSpec` |
| `gallocr` | every graph of 1 leaf and 4 nodes with up to 2 outputs; inputs of two scales, the leaf inside or outside | `SourcesIntact`, `OutputsSurvive`, `AllocatedWhileNeeded`, `PlanFits` |
| `gallocr_outputs` | one graph of a leaf and 3 nodes (`OutputView`) | a violation, see section 7 |
| `gallocr_topology` | two graphs of a leaf and 2 nodes (`ReadOnceOrTwice`) | a violation, see section 7 |
| `batch` | no chunk, two chunks with up to 4 embeddings, three chunks with up to 3; 5 frames of 5 samples per window of 25, a step of 12 samples, recordings of 10, 27 and 37; 2 slots, 4 voices, every kind of clustering, 1 embedding moved by VBx | `SpeechAttributed`, `PrintedFaithful`, `AgglomerationSpec` |
| `streaming` | 4 frames per chunk, one speaker, steps 3, 4 and 5 against latencies 2, 5, 7, 8, 12 of a duration of 8, 11 units of audio | `BufferSuffices`, `TimeAxisTiled`, `SegmentsInOrder`, `SegmentsMatchFrames`, `EverythingHeard` |

Why the bounds are enough to meet the interesting cases. Three threads are the
least with a thread outside the team, a thread that completes the barrier and
one that still spins; two calls let a worker meet the second graph while it
still returns from the first; a chunk count of 8 for two threads is the least
that the code hands out dynamically (four per thread), and two products in a row
make `current_chunk` be reused. In `threadpool` the graph has an empty node
between two barriers, and in `threadpool_steal` at both ends. Three rounds of the
barrier are one more than the two that can overlap. Four chunks are enough to
found, to double, to fill and to reuse identities. The fifteen pairs of step and
latency contain quotients that round down, one of them (7 by 5) with a chunk that weighs
enough in the last window before it is dropped to change a decision, ones that round up, whole ones, a latency
below the step, one equal to it, one equal to the duration and one beyond it, and steps that are
and are not whole numbers of frames; 11 units of audio leave a partly filled last chunk.

Four tensors and three chunks are the least with two free blocks apart in one chunk,
a block chosen by best fit, a chunk chosen by reuse and the endless last chunk. Four nodes
behind a leaf are the least with a view, an in-place node over what it looks
at, and a later reader of the view; graphs of two scales make a plan too
small, too large and just kept. The voices of `batch` contain a pair whose
centroid reaches a third voice that neither reaches, and one that the mean distance keeps apart
although one of the two is near; with three chunks a frame has three voters, and with
four embeddings two clusters of two can be compared. A step of 2.4 frames puts the second
chunk down to frame 2 and the third up to frame 5, as 59.26 and 118.52 become 59 and 119, so that rounding down, up,
or step by step would be seen; the recordings that have chunks are not whole frames, so that the last frame of the grid is cut off.

All bounds are CONSTANTS: `MaxRounds`, `MaxGraphs`, `MaxToggles`, `MaxChunks`,
`AudioEnd`, `MaxEmbeddings`, `MaxMoves`, `MaxOutputs`; `GraphWrap` stands for the 2^16 values of the graph counter.
Deadlock is checked in every run but `batch`, whose program ends. The pool's client may stop calling, which the
model shows as workers that poll or sleep; a spurious wakeup is then always
possible, so a stuck team is found by `ComputeReturns` and not as a deadlock.

### Fairness

Safety needs none. `BarrierLoop` and `threadpool_live` assume that the operating
system runs every thread (weak fairness of each thread's next step), and the pool
also that a mutex which is free again and again is granted in the end (strong
fairness of the steps that take it): without it spurious wakeups of one
worker could starve another. The client is never made to call, the abort
callback never made to answer anything, and a polling worker may poll for ever
or give up at any time: the number of rounds is a parameter of the pool.

## 4. The properties

* `NobodyEarly`, `RendezvousSpec`, `AllCross`: what a barrier is.
* `Lockstep`: threads that execute an operator are in the same phase of the same
  node of the same graph with the same team size. With it no thread reads a
  tensor, the work buffer or `current_chunk` while another writes it for an
  earlier phase.
* `ParametersAtRest`: the comment at CPU 3201, "No worker threads should be
  accessing the parameters below at this stage".
* `NoLostWakeup`: a sleeping worker has nothing to do, at every moment at which
  the client does not hold the mutex.
* `ForkJoinSpec`: the pool refines `ForkJoin`. `work` is the bag of pieces
  computed; a second computation of a piece, a piece of a later node before an
  earlier node is complete, or a return before the last piece is no step of the
  abstract module.
* `ComputeReturns`, `FreeJoins`, `PauseParks`: calls return, free joins every
  worker, a lasting pause puts everybody to sleep.
* `LongSpeakersApart`: two slots of one chunk that talk for long share an
  identity only when the table of identities is full.
* `OnceKnownAlwaysNamed`: after the first identity exists nobody with a usable embedding
  is left unnamed. This is the code's policy (STR 723-735 has no threshold);
  the mutant shows what `delta_new` would do there.
* `SoloKeepsIdentity`: growing centres never hand a lone speaker with an
  unchanged voice over to another centre in the next chunk.
* `BufferSuffices`: rounding `latency / step` for the buffer's length loses no
  chunk that a window needs; every decision is that of all chunks.
* `TimeAxisTiled`, `EverythingHeard`: windows are rounded to frames one by one;
  the seams are at most half a frame off, and with step <= latency <= duration
  nothing stays unheard. With a latency below the step the code leaves
  gaps, and with one above the duration it loses the tail; the precondition says so.
* `SegmentsInOrder`, `SegmentsMatchFrames`: what is printed is what the frames say. The flush is included:
  a segment whose stop is not behind its start can only be the last one, opened in the padding behind
  the recording and closed at its end (the code does print it).

* `NoOverlap`, `PromiseSpec`: memory handed out is nobody else's, after any history.
* `Coalesced`, `NoLeak`, `FewBlocks`: the release looks at the first block it
  touches only; the free list must nevertheless stay sorted with no two blocks
  meeting, cover all unused memory, and not grow with history (its array is limited).
* `WithinMaxSize`, `PlanFits`: what is really allocated is large enough, also when the
  plan or the buffer dates from another input.
* `SourcesIntact`: whatever was shared, reused in place and freed, a node finds
  the values it reads, and overwrites none of them unless it takes exactly its place.
* `OutputsSurvive`, `AllocatedWhileNeeded`: memory is given back neither early nor late. It is
  kept for ever by outputs, and by tensors that are used by nobody or looked at by a view that is:
  `n_children` and `n_views` are tested only when a use ends.
* `AgglomerationSpec`: both loops are clustering by definition, with the distance
  taken from the points at every step: list indices, erased entries, sums, sizes,
  parents, stale distances and final labels included.
* `SpeechAttributed`: labels reach the time they are about, across overlapping chunks. Where a frame of a chunk
  lies is reckoned in samples, by its middle, and not by the rounding of the code, and the frames asked for are
  those that begin within the recording. A speaker is heard when more slots that are only his speak than slots
  that may be his are silent, and only if more that may be his speak than slots that are only his are silent; with one
  label to a slot that is the exact majority. A slot with several labels votes for one of them.
* `PrintedFaithful`: sorting and joining neither lose nor invent nor double speech.
* `TypeOK` of `Batch` contains that every speaker number up to the largest has an embedding.

## 5. The proofs

`BarrierProofs` (module `BarrierLoop`, any `N` and `MaxRounds`). The inductive
invariant `IInv` says that `n_barrier` counts the set `Arrived` of threads that
came to the current barrier and whose snapshot is current, that the last one is
the only one at the reset or the release while all others spin, and that every
thread has crossed `n_barrier_passed` barriers or is just behind. The property alone is
not inductive: that nobody runs ahead depends on the count and on who may
release. `BarrierSafety` follows from it, and `ImplementsRendezvous` maps the
fetch-and-add to an arrival, the release to the departure of the team, and every other
step to a stutter. Cardinalities come from the library's finite-set theorems.

`ThreadpoolProofs` (module `Threadpool`, any number of threads, any graphs, any
bounds, any `GraphWrap` of at least 2). `TypeCorrect` is proved action by action;
that the team stays within the pool rests on the clamp in `ggml_graph_compute`.
`WakeInvariance` proves `WakeInv`: (`MutexHeld`) the mutex is held between two
actions by the client inside the kickoff or the free, or by a worker about to wait;
(`SleepersWait`) only such workers are asleep; (`WaitJustified`) what a worker
tested before it waits still holds; and `NoLostWakeup`. The argument: whoever
changes `n_graph`, `stop` or `pause` does so with the mutex free of waiting
workers (`NobodyWaits`, `ClientTakes`) and wakes all before the mutex is given back
(`ClientGivesBack`); all steps that touch none of this are covered by one lemma
(`Quiet`). `WakeupsKept` is the property itself. The only assumptions are those
on the constants.

`ThreadpoolProofs`, the team (no further assumption). A thread that spins on a barrier
which is open already counts as being behind it (`at`, `Released`); with this, the team of a call
is between two barriers at every moment. The inductive invariant `TeamInv` has `Places`,
`Counters` (`n_barrier` counts those of the *current* team that arrived; the last one is alone
at the reset), `Membership` (who is inside a computation is in the team, has seen this graph
and is not waiting for it; between calls nobody is inside) and `Together`: there is a node `b` at
which the stretch between two barriers began, and everybody is either still at most at the
next barrier (`FirstHalf`; for a product, the barrier inside it) or hunts the chunks of `b`
(`SecondHalf`). `AbortKnown` says who may know of an abort, which thread 0 decides in front of a
barrier and the others read behind it. `TeamInLockstep` and `ParametersSafe` follow. Neither is
inductive alone: that a worker is not in a later node rests on the barrier's counters, and these on
nobody outside the team being counted.

`ThreadpoolProofs`, the work (no further assumption). `WorkInv` relates the bag of computed pieces to the places of the
threads: a share of rows is computed when its thread is past the node, a chunk when
`current_chunk` has passed it and nobody holds it (`Chunks`: no two threads hold the same), and
when a call returns with success all is computed. `ImplementsForkJoin` maps the computation of a share or chunk to the
abstract step of that piece, `Compute` to the call, the return to the return, and everything
else to a stutter.

`FreeListProofs` and `DynAllocProofs` (module `DynAlloc`, any alignment, chunk sizes, tensors and
sizes). The first states, for any free lists, what an allocation and a release make of them; the second
draws the conclusions for the allocator. The argument is about the addresses a free list covers: an allocation
takes its range out of a block, a release adds the range to a list that does not cover it,
and every list operation leaves the blocks apart. The inductive invariant is
`TypeOK`, blocks apart from each other (`BlocksSeparate`), `WithinMaxSize`, every address with
at most one owner among blocks and tensors (`OneOwner`), free and live ranges
together without a gap below the end of the last (`NoGap`), and `ClaimedOwned`, which is
`NoLeak` for non-empty tensors. The
properties alone are not inductive: that a new range is free follows from the list,
and that the list may take a range back follows from its having one owner. It
yields `TypeCorrect`, `NothingOverlaps`, `FitsMaxSize`, `NothingLeaks` (assuming no
tensor is empty) and `KeepsPromise`, the refinement of `Intervals`. Which block the
best fit chooses plays no part: any block that is large enough will do.

`DynAllocProofs` also proves `BlocksCoalesced` and `BlocksFew`, for tensors that are not empty.
`SolidInv` adds that within a chunk the blocks are in order with a gap between any two (`Solid`), none of
them empty, and that the live tensors are finitely many and not empty. A release looks at the first block that
touches only; that this is enough follows from the order: the block behind is the only other one
that can touch. Behind every block but the last a live tensor begins, and none is behind two of them, so there are at most as many blocks as tensors and one more per chunk.

`GallocrProofs` (module `Gallocr`, any number of leafs and nodes, any graphs, layouts, sizes and inputs).
While a graph is planned the position is a node `m` and the number `i` of its sources that are dealt with.
From there on, some uses of a tensor are left, and some views of it that will be used
(`Left`, `LeftViews`); a tensor is `Needed` while either is, and for ever if it is an output or unused. The inductive invariant of planning, `PlanInv`,
says that the hash table counts exactly what is left (`Counted`), that a tensor holds memory exactly while it
is needed (`Holding`), and, in `MemoryInv`, that the ranges held are apart from each other and from the
free blocks, within `max_size`, and that each tensor was given a place apart from everything needed at that
moment, or exactly the place it took over (`Placed`). It is carried through the list of
sources one by one, which is why it speaks of `i`. `IInv` is this with `TypeOK` and the shape of the graph
(`GraphOK`); it yields `TypeCorrect` and `MemoryAsNeeded` with no assumption but those on the constants.
The properties alone are not inductive: that `n_children` is positive when it is decremented
follows from the count of uses left, and that a release is of memory held from `Holding`.

What is computed in that memory needs `JInv`: the last plan is `Good` (`PlanKept`: its addresses are as `Placed` says, and
the buffer covers them), the graph at hand has no tensor larger than the plan foresees (`Usable`, which is what
`ggml_gallocr_needs_realloc` tests), and what is needed from node `n` on is intact (`Intact`). `SourcesStay`,
`OutputsStay` and `TensorsFit` follow, under hypotheses that say what the code leaves to its caller:

* `SameTopology`: `needs_realloc` does not compare sources or views; without it `SourcesIntact` is false
  (section 7).
* `LeafsUsed`: `needs_realloc` looks at nodes and their sources only, so a larger leaf that no
  node uses keeps the old plan and is set over its neighbour. Graphs made by `ggml_build_forward_expand`
  have no such leaf but one that is itself an output.
* `NonEmpty`, for `TensorsFit` only: a buffer is renewed when a chunk of it is too small (ALLOC 907-949), and a chunk
  in which all tensors are empty is not too small even when it is not there; nothing is read or written in it.

Where the code aborts because the chunks are used up, the model goes on with one more chunk: what such a run does
before it aborts is covered.

`StreamingProofs` (module `Streaming`, any frames, weights, thresholds, speakers, audio, steps and latencies).
`StreamInv` says where the chunks in the buffer start, that a chunk once dropped ends before the
next window begins (from `2 * latency < (2 * num_overlapping + 1) * step`, by which rounding the quotient is
harmless), where the frames emitted so far end, that a window begins where the one before ended, so
that rounding never adds up, that what was printed and what is open agree with the frames (`Tracks`), and
which frames were heard. `BufferSufficient`, `AxisTiled`,
`PrintedInOrder` and `PrintedMatches` hold without further assumption. `BoundedBuffer`
(`TypeOK`) and `AllHeard` assume that no step is shorter than half a frame: with a shorter one
only the first window has frames, every later chunk takes the early `continue`, the buffer is
never trimmed and no further frame is emitted. The theorems say so by their hypothesis; the default
step is 2.5 s and half a frame a few milliseconds.

`OnlineClusteringProofs` (module `OnlineClustering`, any number of slots and identities, any
embeddings of one length). The argument is about ranks: the k-th slot that asks gets the k-th free
identity, so no two get the same, and one that gets none leaves none free (`Counting`,
`BelowFacts`). `NamingInv` yields `ClusterTyped`, `SpeakersApart` and `AlwaysNamed` without
further assumption. `SoloStays` needs more than its property: `SoloInv` keeps that the
embedding of who talks alone and long is *strictly* nearest to its centre, since adding it
to the centre brings it nearer by a full `Unit`, and near enough to be matched unless all identities are taken. It assumes `DeltaNew >= 0` (default 1.0): below zero even a
centre made of one's own embedding is out of reach.

`BatchProofs` (module `Batch`, any recording, window, step, length of a frame and answers of the networks).
`BatchInv` says that while lines are printed `heard` is what the votes of the predictions give, that a
pending segment is a whole stretch of heard frames (`PendingInv`), that a printed one begins and ends
with speech and bridges only pauses shorter than the gap (`PrintedInv`), that what is printed lies
before what is pending (`BehindInv`), and that every heard frame is in one or the other
(`NothingLost`). `SpeechReachesItsFrames` and `PrintedAsHeard` follow. The first needs that rounding each
start to the nearest frame puts the middle of every frame of the chunk into the frame of the grid it is counted
for and into no other (`MiddleFacts`), and that the grid has exactly the frames that begin within the recording
(`GridFacts`); then the voters that speak and those that are silent are compared (`VotesAttributed`). The labels
may be any: no fact about the clustering is used.

The clusterings (same module, any embeddings of one length). Lists are added up from the left, the
definition adds over sets, and `simple_ahc` adds sums of clusters to sums. The lemmas make all of them one
thing, the sum over a finite set: it is the same in whatever order it is taken, it splits over disjoint
sets, and over pairs it is a double sum (`SumFacts`, `SumUnion`, `SumProduct`); finite sets are
exhausted by induction over a given set of subsets (`SubsetInduction`). `ClusteringInv` says that `clusters` is a list
that puts every embedding into one cluster (`IsClustering`), or a forest whose sizes, centroids and distances are those of the
sets below its roots (`IsForest`), and that labels leave out no number below the largest. Then the pair that the
loops choose is a closest one of the definition (`LinkageIsMean`, `BestAverageFacts`, `TreeDistances`), the merge is
the union of two clusters (`MergedFacts`, `CentroidMergedFacts`), and the labels are the clusters (`FirstAppearance`).
`ClusteringInvariance`, `TypeCorrect` and `ClustersByDefinition` follow; the last maps every chunk to `Add`, every merge to
`Merge`, the end of the loop to `Finish`, and everything else to a stutter.

Definitions by recursion over `0 .. n` (the frames of a window, the slots of a chunk) are
recursive functions; what they compute is proved with the lemma `UpTo`, induction over the numbers up to `n`
for a given set, from the well-foundedness of the natural numbers.

Only model-checked: the liveness properties `AllCross`, `ComputeReturns`, `FreeJoins` and `PauseParks`, which
rest on fairness and are out of the prover's reach. Every invariant, action property and
refinement that a passing run checks is a theorem, under the hypotheses named above.

## 6. What is not in the models

`n_barrier_passed` is a natural number (32 bits in the code). Weak memory beyond what
section 2 says. Thread priorities, affinities and NUMA. The second limit on
chunk stealing, `ggml_is_numa()`. The arithmetic of operators. Floating-point
rounding of times and embeddings (the rounding of times to frames, windows and samples is in the models). A step of zero samples, for which the early
`continue` at STR 1021-1025 can skip the `break` at STR 1050.

The graph counter. No property covers the following. With a counter of `GraphWrap` values and teams of varying size, a
worker outside the team that sleeps through exactly `GraphWrap` calls sees the
value of `n_graph` that it saw last and misses the graph. With the true width
this takes 65536 calls during one sleep. `threadpool_steal` wraps the counter
with a constant team, where it is harmless; the other runs keep `GraphWrap`
above the number of calls.

Of the graph allocator: `ggml_gallocr_reserve` for a measure graph, several buffers,
tensors flagged as inputs, views through which an operator writes (`ggml_cpy`, `*_inplace`),
whose order the graph alone does not show; allocation failures. With empty tensors
free blocks may meet and an address may be lost: `Coalesced` and `NoLeak` speak of non-empty ones.
Of the batch program: embeddings with NaN, which are skipped, probabilities between
0 and 1, and the variational inference of VBx.

## 7. Findings

`README.md:18` and `examples/README.md:10` call the assignment of identities
"greedy cosine-distance clustering". The distance (STR 112-118) is one minus the
dot product, and the centres (STR 742-744) are sums that are never normalised, so
it is no cosine distance after the first update. Run `clustering_cosine` shows the
consequence: chunk 1, voice (4,3) founds identity 0; chunk 2, voice (5,0), 0.2
away, is long, and its centre becomes (10,0); chunk 3, voice (4,3) again: equal to
centre 0, but its dot product with centre 1 is larger, and it is given identity 1.

`include/ggml-alloc.h:44` says "output tensors are never freed and never
overwritten". The flag is looked up on the tensor that owns the memory (ALLOC
696); for an output that is a view this is its `view_src`, which is freed after the
last use of the view. Run `gallocr_outputs`: node 1 is a leaf, node 2 a view of it that is an output,
node 3 an elementwise operator on the view, node 4 one on the leaf and node 3. Node 4 is the last to use the leaf
and takes its place, which holds the bytes of the output.
`OutputsSurvive` shows that all other outputs survive.

`include/ggml-alloc.h:70` announces "automatic reallocation if the topology changes
when using a single buffer". `ggml_gallocr_needs_realloc` compares numbers of nodes and
leafs and sizes, and neither sources nor views. Run `gallocr_topology` has two graphs of a leaf 1 and elementwise
nodes 2 and 3, all of one size: node 2 reads the leaf, and node 3 reads node 2 twice in the first graph, the leaf and
node 2 in the second. The plan for the first computes node 2 in place of the leaf; it is kept for the second,
whose node 3 then reads the overwritten leaf. With one topology (run `gallocr`) `SourcesIntact` holds.

## 8. Components not modelled, and the plan

Not planned: kernels and quantisation (`ops.cpp`, `ggml-quants.c`: arithmetic),
`common_audio.cpp` (signal processing), the GPU and accelerator backends
(vendored, not used by this program's build), `ggml-opt.cpp` (not used), the Python
converters, `ggml-threading.cpp` (a mutex).

What remains of the plan, in this order:

1. `Gallocr`: tensors flagged as inputs, `ggml_gallocr_reserve` for a measure graph,
   and two buffers.
2. `OnlineClustering` composed with `Streaming`: identities over printed segments.
3. `MulMat`: the cut of a product into chunks and rows, each row once, as pure operators
   against a reference definition; the context arena and GGUF offsets likewise.
4. The backend scheduler's splits.
