-------------------------------- MODULE Batch --------------------------------
(***************************************************************************)
(* The batch program (src/examples/main.cpp): overlapping chunks of the    *)
(* recording are segmented into local speakers ("slots"), each stretch of  *)
(* speech of a slot is given an embedding, the embeddings are clustered    *)
(* into global speakers, the slots vote for their speakers on the frames   *)
(* of the recording, and the segments are sorted, joined and printed.      *)
(*                                                                         *)
(* The recording, the window and the step are measured in samples; a frame *)
(* lasts FrameDuration samples, and the network answers NumFrames frames   *)
(* for a chunk.  Neither the step nor the recording need be whole frames   *)
(* (the program has 16000 samples to a step and 270 to a frame).  The      *)
(* networks answer anything: any pattern of active frames and any          *)
(* embedding, the probability of a frame being 0 or 1.  MinLen stands for  *)
(* the least length of an embedded stretch (6 frames and 0.2 s), and Gap   *)
(* is the least number of frames that last 0.1 s: segments that are closer *)
(* are joined.                                                             *)
(***************************************************************************)
EXTENDS Ahc

CONSTANTS Lengths, Window, Step,                      \* samples
          FrameDuration, NumFrames, MinLen, Gap, NSlots,
          Patterns,         \* sets of active frames of a chunk
          Points,           \* embeddings
          MaxEmbeddings,    \* bound: embeddings of a recording of each length
          MaxMoves          \* bound: embeddings that VBx moves

ASSUME BatchAssumption ==
    /\ Window \in Nat /\ Step \in Nat \ {0} /\ Gap \in Nat \ {0}
    /\ FrameDuration \in Nat \ {0} /\ NumFrames \in Nat
    /\ NSlots \in Nat /\ Lengths \subseteq Nat
    /\ MaxEmbeddings \in [Lengths -> Nat]
    /\ \A p \in Patterns : p \subseteq 0 .. NumFrames - 1
    /\ \A v \in Points : v \in [1 .. 3 -> Int] /\ Squared(v) = Radius2

VARIABLES
    linkage,        \* the clustering: VBx with a model, none without embeddings
    length, pos,    \* the recording and where the next chunk starts
    predictions,    \* predictions[c][s]: the active frames of slot s in chunk c
    embeddings,     \* a sequence of [chunk, slot, point]
    stage,
    clusters,       \* list of clusters, or forest, while they are merged
    initial,        \* what the agglomerative clustering returned
    labels,         \* global_labels
    heard,          \* heard[g]: frames of the grid where more than half the votes are for g
    pending,        \* segments to be printed
    printed         \* sorted_segments: joined

vars == <<linkage, length, pos, predictions, embeddings, stage, clusters, initial, labels,
          heard, pending, printed>>

Slots == 1 .. NSlots
points == [i \in DOMAIN embeddings |-> embeddings[i].point]

(* The stretches [first, end) of the frames in S, as a scan of 0 .. n - 1  *)
(* finds them.                                                             *)
Stretches(S, n) ==
    {r \in (0 .. n - 1) \X (1 .. n) :
        /\ r[1] < r[2] /\ r[1] .. r[2] - 1 \subseteq S
        /\ r[1] - 1 \notin S /\ (r[2] = n \/ r[2] \notin S)}

Embedded(S) == Cardinality({r \in Stretches(S, NumFrames) : r[2] - r[1] >= MinLen})

-----------------------------------------------------------------------------
Init ==
    /\ linkage \in {"average", "centroid", "none"}
    /\ length \in Lengths /\ pos = 0
    /\ predictions = <<>> /\ embeddings = <<>>
    /\ stage = "listen"
    /\ clusters = <<>> /\ initial = <<>> /\ labels = <<>>
    /\ heard = <<>> /\ pending = {} /\ printed = <<>>

(* available < (size_t)(0.5 * window_samples) ends the loop *)
EnoughLeft == pos < length /\ Min({Window, length - pos}) >= Window \div 2

Chunk ==
    /\ stage = "listen" /\ EnoughLeft
    /\ \E active \in [Slots -> Patterns] :
          LET c == Len(predictions) + 1
              count == [s \in Slots |-> IF linkage = "none" THEN 0 ELSE Embedded(active[s])]
          IN  /\ \E slots \in UNION {[1 .. k -> Slots] : k \in 0 .. MaxEmbeddings[length] - Len(embeddings)} :
                    /\ \A i, j \in DOMAIN slots : i < j => slots[i] <= slots[j]
                    /\ \A s \in Slots : Cardinality({i \in DOMAIN slots : slots[i] = s}) = count[s]
                    /\ \E point \in [DOMAIN slots -> Points] :
                          embeddings' = embeddings \o
                              [k \in DOMAIN slots |-> [chunk |-> c, slot |-> slots[k], point |-> point[k]]]
              /\ predictions' = Append(predictions, active)
    /\ pos' = pos + Step
    /\ UNCHANGED <<linkage, length, stage, clusters, initial, labels, heard, pending, printed>>

NoMoreChunks ==
    /\ stage = "listen" /\ ~EnoughLeft
    /\ stage' = IF embeddings = <<>> THEN "rebuild" ELSE "merge"
    /\ clusters' = IF linkage = "centroid" THEN SingleTrees(points) ELSE Singletons(points)
    /\ UNCHANGED <<linkage, length, pos, predictions, embeddings, initial, labels, heard,
                   pending, printed>>

MergeAverage ==
    /\ stage = "merge" /\ linkage = "average"
    /\ AverageMayMerge(points, clusters)
    /\ clusters' = AverageMerged(points, clusters)
    /\ UNCHANGED <<linkage, length, pos, predictions, embeddings, stage, initial, labels, heard,
                   pending, printed>>

StopAverage ==
    /\ stage = "merge" /\ linkage = "average"
    /\ ~AverageMayMerge(points, clusters)
    /\ initial' = AverageLabels(points, clusters) /\ labels' = initial'
    /\ stage' = "rebuild" /\ clusters' = <<>>
    /\ UNCHANGED <<linkage, length, pos, predictions, embeddings, heard, pending, printed>>

MergeCentroid ==
    /\ stage = "merge" /\ linkage = "centroid"
    /\ CentroidMayMerge(clusters)
    /\ clusters' = CentroidMerged(clusters)
    /\ UNCHANGED <<linkage, length, pos, predictions, embeddings, stage, initial, labels, heard,
                   pending, printed>>

StopCentroid ==
    /\ stage = "merge" /\ linkage = "centroid"
    /\ ~CentroidMayMerge(clusters)
    /\ initial' = CentroidLabels(clusters)
    /\ stage' = "vbx" /\ clusters' = <<>>
    /\ UNCHANGED <<linkage, length, pos, predictions, embeddings, labels, heard, pending, printed>>

(* cluster_vbx: one cluster is left alone; otherwise every embedding takes *)
(* the speaker of its largest responsibility, and speakers are numbered    *)
(* again.                                                                  *)
(* The bug of returning the numbers of the clusters VBx began with. *)
NotRemapped(f) == f

Remapped(f) == ByFirstAppearance(f)

Vbx ==
    /\ stage = "vbx"
    /\ IF Max(Range(initial)) = 0
       THEN labels' = initial
       ELSE \E best \in [DOMAIN initial -> Range(initial)] :
               /\ Cardinality({i \in DOMAIN best : best[i] # initial[i]}) <= MaxMoves
               /\ labels' = Remapped(best)
    /\ stage' = "rebuild"
    /\ UNCHANGED <<linkage, length, pos, predictions, embeddings, clusters, initial, heard,
                   pending, printed>>

-----------------------------------------------------------------------------
Speakers == 0 .. (IF linkage = "none" THEN NSlots ELSE Max(Range(labels) \union {-1}) + 1) - 1

(* The bug of a map from slots alone. *)
OfAnyChunk(c, s) == {i \in DOMAIN embeddings : embeddings[i].slot = s}

(* assignment_map: a slot's last embedding decides. *)
Of(c, s) == {i \in DOMAIN embeddings : embeddings[i].chunk = c /\ embeddings[i].slot = s}

Assigned(c, s) ==
    IF linkage = "none" THEN {s - 1}
    ELSE {labels[i] : i \in {j \in Of(c, s) : \A k \in Of(c, s) : k <= j}}

(* ceil(total_dur / model_frame_duration) *)
GridFrames == (length + FrameDuration - 1) \div FrameDuration

(* The bug of a conversion to int that truncates. *)
StartFrameTruncated(c) == (Step * (c - 1)) \div FrameDuration

(* start_grid_frame = round(start_time / model_frame_duration), each chunk *)
(* on its own.                                                             *)
StartFrame(c) == (2 * Step * (c - 1) + FrameDuration) \div (2 * FrameDuration)

FrameIn(c, t) == t - StartFrame(c)

(* The slots that vote for g at frame t of the recording.                  *)
Voters(g, t) ==
    {v \in (DOMAIN predictions) \X Slots :
        FrameIn(v[1], t) \in 0 .. NumFrames - 1 /\ g \in Assigned(v[1], v[2])}

Active(v, t) == FrameIn(v[1], t) \in predictions[v[1]][v[2]]

Rebuild ==
    /\ stage = "rebuild"
    /\ heard' = [g \in Speakers |->
                    {t \in 0 .. GridFrames - 1 :
                        2 * Cardinality({v \in Voters(g, t) : Active(v, t)})
                            > Cardinality(Voters(g, t))}]
    /\ pending' = UNION {{[start |-> r[1], end |-> r[2], speaker |-> g] :
                              r \in Stretches(heard'[g], GridFrames)} : g \in Speakers}
    /\ stage' = "print"
    /\ UNCHANGED <<linkage, length, pos, predictions, embeddings, clusters, initial, labels, printed>>

(* The bug of joining segments without looking at the speaker. *)
ContinuesAnyone(last, seg) == seg.start - last.end < Gap

(* Segments are sorted by their start, those of one start in any order,    *)
(* and joined to the one before.                                           *)
Continues(last, seg) == last.speaker = seg.speaker /\ seg.start - last.end < Gap

Printing(seg) ==
    IF printed # <<>> /\ Continues(Last(printed), seg)
    THEN Append(Front(printed), [Last(printed) EXCEPT !.end = Max({@, seg.end})])
    ELSE Append(printed, seg)

PrintSegment ==
    /\ stage = "print"
    /\ \E seg \in pending :
          /\ \A other \in pending : seg.start <= other.start
          /\ printed' = Printing(seg)
          /\ pending' = pending \ {seg}
    /\ UNCHANGED <<linkage, length, pos, predictions, embeddings, stage, clusters, initial, labels,
                   heard>>

Next ==
    \/ Chunk \/ NoMoreChunks
    \/ MergeAverage \/ StopAverage \/ MergeCentroid \/ StopCentroid \/ Vbx
    \/ Rebuild \/ PrintSegment

Spec == Init /\ [][Next]_vars

-----------------------------------------------------------------------------
(* Type invariant; the speakers of the timeline are exactly those that     *)
(* some embedding is labelled with, so that none of the speakers main      *)
(* counts from the largest label is a phantom.                             *)
TypeOK ==
    /\ linkage \in {"average", "centroid", "none"} /\ length \in Lengths
    /\ pos \in Nat
    /\ predictions \in Seq([Slots -> SUBSET (0 .. NumFrames - 1)])
    /\ \A i \in DOMAIN embeddings :
          embeddings[i] \in [chunk : DOMAIN predictions, slot : Slots, point : Points]
    /\ stage \in {"listen", "merge", "vbx", "rebuild", "print"}
    /\ linkage # "none" /\ stage \in {"rebuild", "print"} =>
          /\ DOMAIN labels = DOMAIN embeddings
          /\ Range(labels) = Speakers
    /\ stage = "print" => heard \in [Speakers -> SUBSET (0 .. GridFrames - 1)]
    /\ \A seg \in pending \union Range(printed) :
          seg.speaker \in Speakers /\ 0 <= seg.start /\ seg.start < seg.end /\ seg.end <= GridFrames

(* The lists of members of agglomerative_clustering, and the parents,      *)
(* sizes, centroids and distances that simple_ahc keeps up to date,        *)
(* implement clustering by definition: every merge is one of a closest     *)
(* pair, the merging stops when no pair is close, and the labels returned  *)
(* are the clusters.                                                       *)
Classes(f) == {{i \in DOMAIN f : f[i] = x} : x \in Range(f)}

Partition ==
    IF stage = "listen" THEN {{i} : i \in DOMAIN embeddings}
    ELSE IF stage # "merge" THEN Classes(initial)
    ELSE IF linkage = "average" THEN {Range(clusters[k]) : k \in DOMAIN clusters}
    ELSE Classes(RootOf(clusters))

Limits(link) == IF link = "average" THEN <<6 * Radius2, 5>> ELSE <<9 * Radius2, 25>>

Definition ==
    INSTANCE Agglomeration WITH Limit <- Limits, clusters <- Partition,
                                finished <- stage \notin {"listen", "merge"}

AgglomerationSpec == Definition!Spec

(* The clustering's answers reach the time they are about.  A frame of a   *)
(* chunk belongs to the frame of the recording that its middle lies in,    *)
(* reckoned in samples from where the chunk starts.  On every frame that   *)
(* begins within the recording, speaker g is heard when more slots whose   *)
(* embeddings are all labelled g speak there than slots with any embedding *)
(* labelled g are silent; and g is heard only if more slots with an        *)
(* embedding of g speak there than slots with only such are silent.  With  *)
(* one label to a slot, g is heard exactly where most of his slots speak.  *)
LabelsOf(v) ==
    IF linkage = "none" THEN {v[2] - 1}
    ELSE {labels[i] : i \in {j \in DOMAIN embeddings :
                                embeddings[j].chunk = v[1] /\ embeddings[j].slot = v[2]}}

MiddleIn(c, k, t) ==
    2 * (Step * (c - 1) + k * FrameDuration) + FrameDuration
        \in 2 * FrameDuration * t .. 2 * FrameDuration * (t + 1) - 1

Speaks(v, t) == \E k \in predictions[v[1]][v[2]] : MiddleIn(v[1], k, t)
Silent(v, t) == \E k \in (0 .. NumFrames - 1) \ predictions[v[1]][v[2]] : MiddleIn(v[1], k, t)

SpeechAttributed ==
    stage = "print" =>
        \A g \in Speakers : \A t \in {u \in 0 .. length : FrameDuration * u < length} :
            LET slots == (DOMAIN predictions) \X Slots
                perhaps == {v \in slots : g \in LabelsOf(v)}
                surely == {v \in slots : LabelsOf(v) = {g}}
            IN  /\ t \in heard[g] => Cardinality({v \in perhaps : Speaks(v, t)})
                                        > Cardinality({v \in surely : Silent(v, t)})
                /\ Cardinality({v \in surely : Speaks(v, t)})
                        > Cardinality({v \in perhaps : Silent(v, t)}) => t \in heard[g]

(* What is printed is what was heard: every frame in which a speaker is    *)
(* heard lies in exactly one printed segment of the speaker, a segment     *)
(* begins and ends with such frames and bridges only silences shorter      *)
(* than 0.1 s, and segments are printed in the order of their starts.      *)
PrintedFaithful ==
    stage = "print" /\ pending = {} =>
        /\ \A g \in Speakers : \A t \in heard[g] :
              Cardinality({k \in DOMAIN printed :
                  /\ printed[k].speaker = g
                  /\ t \in printed[k].start .. printed[k].end - 1}) = 1
        /\ \A k \in DOMAIN printed :
              LET seg == printed[k]
              IN  /\ {seg.start, seg.end - 1} \subseteq heard[seg.speaker]
                  /\ \A t \in seg.start .. seg.end - Gap :
                        t .. t + Gap - 1 \intersect heard[seg.speaker] # {}
                  /\ k < Len(printed) => seg.start <= printed[k + 1].start
=============================================================================
