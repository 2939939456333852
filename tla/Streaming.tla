------------------------------ MODULE Streaming ------------------------------
(***************************************************************************)
(* The output side of the streaming program (main of                       *)
(* src/examples/main_streaming.cpp): overlapping chunks of speech          *)
(* predictions are kept in a buffer, averaged over a focus window that     *)
(* trails the newest chunk by the latency, and turned into segments with a *)
(* start and a stop per speaker.                                           *)
(*                                                                         *)
(* Times are integers, in a unit that divides half a frame, the step and   *)
(* the latency.  What each speaker says in a chunk, after                  *)
(* permute_segmentation, is an arbitrary set of frames: the networks may   *)
(* predict anything.                                                       *)
(***************************************************************************)
EXTENDS Integers, Sequences, SequencesExt, FiniteSetsExt

CONSTANTS
    Speaker,      \* global identities
    HalfFrame,    \* half of seg_resolution
    NumFrames,    \* frames that the segmentation yields per chunk
    Window,       \* Window[i], i \in 0 .. NumFrames - 1: the Hamming weights, in percent
    TauActive,    \* --tau_active, in percent
    Steps,        \* values of --step
    Latencies,    \* values of --latency
    AudioEnd      \* the length of the recording

Resolution == 2 * HalfFrame
Duration == NumFrames * Resolution
Frames == 0 .. NumFrames - 1

ASSUME FrameAssumption == HalfFrame \in Nat \ {0} /\ NumFrames \in Nat \ {0, 1}
ASSUME WindowAssumption == Window \in [Frames -> Nat \ {0}] /\ TauActive \in 1 .. 100
ASSUME TimesAssumption ==
    /\ Steps \subseteq Nat \ {0}
    /\ Latencies \subseteq Nat /\ AudioEnd \in Nat

VARIABLES
    step, latency,   \* the command line
    pos,             \* start of the next chunk
    pred_buffer,     \* the chunks still in use, oldest first: [start, said]
    track,           \* track[s]: active_global, active_start, and what was printed
    done,            \* the loop has ended and open segments were printed
    chunks,          \* history: all chunks so far
    window,          \* history: the focus window just emitted, frame by frame
    frames           \* history: all frames emitted: [time, active, heard]

vars == <<step, latency, pos, pred_buffer, track, done, chunks, window, frames>>

Init ==
    /\ step \in Steps
    /\ latency \in Latencies
    /\ pos = 0
    /\ pred_buffer = << >>
    /\ track = [s \in Speaker |-> [on |-> FALSE, start |-> 0, printed |-> << >>]]
    /\ done = FALSE
    /\ chunks = << >>
    /\ window = << >>
    /\ frames = << >>

-----------------------------------------------------------------------------
(* std::round of a / b, for positive b *)
Round(a, b) == (2 * a + b) \div (2 * b)

NumOverlapping == Max({1, Round(latency, step)})

(* The focus window of the chunk at pos: it ends latency - step before the *)
(* chunk does, and it begins where the one before ended, at 0 for the      *)
(* first chunk.                                                            *)
FocusStart(buffer) ==
    IF Len(buffer) = 1 /\ pos = 0 THEN 0 ELSE pos + Duration - latency

(* The bug of deriving the end from the start after the start was moved. *)
FocusEndFromStart(buffer) == FocusStart(buffer) + step

FocusEnd(buffer) == pos + Duration - latency + step

TargetFrames(buffer) == Round(FocusEnd(buffer) - FocusStart(buffer), Resolution)

(* The frame of chunk b that is used for frame t of a window from fs. *)
Source(b, fs, t) == (fs - b.start) \div Resolution + t

(* aggregate_buffers, for one frame: the chunks in the buffer that have    *)
(* this frame vote with their weights.  No two of them start together.     *)
Voters(buffer, fs, t) == {b \in ToSet(buffer) : Source(b, fs, t) \in Frames}

Votes(fs, t, S) == MapThenSumSet(LAMBDA b : Window[Source(b, fs, t)], S)

ActiveAt(buffer, fs, t, s) ==
    LET all == Voters(buffer, fs, t)
        for == {b \in all : s \in b.said[Source(b, fs, t)]}
    IN  all # {} /\ 100 * Votes(fs, t, for) >= TauActive * Votes(fs, t, all)

Aggregate(buffer, fs, n) ==
    [i \in 1 .. n |->
        [time   |-> fs + (2 * i - 1) * HalfFrame,
         active |-> {s \in Speaker : ActiveAt(buffer, fs, i - 1, s)},
         heard  |-> Voters(buffer, fs, i - 1) # {}]]

(* The bug of keeping the start of the segment before. *)
OpenKeepsStart(r, time) == [r EXCEPT !.on = TRUE, !.start = IF @ = 0 THEN time ELSE @]

Open(r, time) == [r EXCEPT !.on = TRUE, !.start = time]
Close(r, time) == [r EXCEPT !.on = FALSE, !.printed = Append(@, <<r.start, time>>)]

(* One speaker's state after one more frame: a segment opens with the      *)
(* first active frame and is printed with the next inactive one.           *)
FollowFrame(r, f, s) ==
    IF s \in f.active /\ ~r.on THEN Open(r, f.time)
    ELSE IF s \notin f.active /\ r.on THEN Close(r, f.time)
    ELSE r

(* After the frames of a window, one by one.                               *)
Follow(r, win, s) ==
    LET q[i \in 0 .. Len(win)] == IF i = 0 THEN r ELSE FollowFrame(q[i - 1], win[i], s)
    IN  q[Len(win)]

(* The bug of dropping a chunk that the next window still needs. *)
TrimmedEarly(buffer) == IF Len(buffer) >= NumOverlapping THEN Tail(buffer) ELSE buffer

(* The bug of letting the buffer grow by one chunk more. *)
TrimmedLate(buffer) == IF Len(buffer) > NumOverlapping + 1 THEN Tail(buffer) ELSE buffer

Trimmed(buffer) == IF Len(buffer) > NumOverlapping THEN Tail(buffer) ELSE buffer

(* The bug of leaving out the last, partly filled chunk. *)
MoreWholeChunks == pos + Duration <= AudioEnd

More == pos < AudioEnd

(* One iteration of the loop.  Without frames to emit the oldest chunk     *)
(* stays in the buffer.                                                    *)
ProcessChunk(said) ==
    LET buffer == Append(pred_buffer, [start |-> pos, said |-> said])
        win == Aggregate(buffer, FocusStart(buffer), TargetFrames(buffer))
    IN  /\ ~done /\ More
        /\ pos' = pos + step
        /\ chunks' = Append(chunks, [start |-> pos, said |-> said])
        /\ IF TargetFrames(buffer) <= 0
           THEN /\ pred_buffer' = buffer
                /\ window' = << >>
                /\ UNCHANGED <<track, frames>>
           ELSE /\ track' = [s \in Speaker |-> Follow(track[s], win, s)]
                /\ pred_buffer' = Trimmed(buffer)
                /\ window' = win
                /\ frames' = frames \o win
        /\ UNCHANGED <<step, latency, done>>

(* The bug of losing the segments that are open at the end. *)
NothingFlushed(r) == r

Flushed(r) == IF r.on THEN Close(r, AudioEnd) ELSE r

(* After the loop, open segments are printed up to the end of the audio. *)
Finish ==
    /\ ~done /\ ~More
    /\ done' = TRUE
    /\ track' = [s \in Speaker |-> Flushed(track[s])]
    /\ UNCHANGED <<step, latency, pos, pred_buffer, chunks, window, frames>>

Ended == done /\ UNCHANGED vars

Next ==
    \/ \E said \in [Frames -> SUBSET Speaker] : ProcessChunk(said)
    \/ Finish \/ Ended

Spec == Init /\ [][Next]_vars

-----------------------------------------------------------------------------
(* Properties.                                                             *)

TypeOK ==
    /\ step \in Steps /\ latency \in Latencies /\ pos \in Nat /\ done \in BOOLEAN
    /\ \A i \in DOMAIN pred_buffer : pred_buffer[i].said \in [Frames -> SUBSET Speaker]
    /\ \A s \in Speaker : track[s].on \in BOOLEAN /\ track[s].start \in Int
    /\ Len(pred_buffer) <= NumOverlapping     \* the buffer does not grow with the audio

(* The chunks that pop_front has dropped would not have changed the        *)
(* averages of the window just emitted: num_overlapping keeps every chunk  *)
(* that overlaps the focus window, for every step and latency, although it *)
(* rounds their quotient.                                                  *)
BufferSuffices ==
    window # << >> =>
        window = Aggregate(chunks, window[1].time - HalfFrame, Len(window))

(* The windows tile the time axis although each is rounded to whole        *)
(* frames: frame times increase, by one frame give or take half a frame.   *)
TimeAxisTiled ==
    \A i \in 1 .. Len(frames) - 1 :
        frames[i + 1].time - frames[i].time \in HalfFrame .. 3 * HalfFrame

(* A segment opened in the padding behind the recording, which the final   *)
(* flush prints with a stop that is not behind its start.                  *)
OpenedInPadding(p, i) ==
    done /\ i = Len(p) /\ AudioEnd <= p[i][1] /\ p[i][2] = AudioEnd

(* The segments printed for a speaker do not overlap, and have their start *)
(* before their stop: all those printed in the loop, and the one that the  *)
(* flush prints unless it was opened in the padding.                       *)
SegmentsInOrder ==
    \A s \in Speaker :
        LET p == track[s].printed IN
        /\ \A i \in DOMAIN p : p[i][1] < p[i][2] \/ OpenedInPadding(p, i)
        /\ \A i \in 1 .. Len(p) - 1 : p[i][2] < p[i + 1][1]
        /\ track[s].on /\ p # << >> => Last(p)[2] < track[s].start

(* In the end a frame inside the recording lies in a segment printed for a *)
(* speaker exactly when the averaged prediction has the speaker active in  *)
(* it: closing, reopening and the final flush lose and add nothing.        *)
SegmentsMatchFrames ==
    done =>
        \A s \in Speaker, i \in DOMAIN frames :
            frames[i].time < AudioEnd =>
                (s \in frames[i].active
                    <=> \E k \in DOMAIN track[s].printed :
                          LET p == track[s].printed[k]
                          IN  p[1] <= frames[i].time /\ frames[i].time < p[2])

(* With step <= latency <= duration, no moment of the recording is further *)
(* than a frame from an emitted frame that some chunk was heard for: the   *)
(* tail, the zero-padded chunks and the rounding of windows lose nothing.  *)
EverythingHeard ==
    done /\ step <= latency /\ latency <= Duration =>
        \A x \in 0 .. AudioEnd - 1 :
            \E i \in DOMAIN frames :
                /\ frames[i].heard
                /\ frames[i].time - x \in -Resolution .. Resolution
=============================================================================
