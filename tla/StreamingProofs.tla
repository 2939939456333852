--------------------------- MODULE StreamingProofs ---------------------------
(***************************************************************************)
(* The output side of the streaming program for any frame, window, step,   *)
(* latency, number of speakers and recording: the buffer holds every chunk *)
(* that a window needs, the windows tile the time axis, and the segments   *)
(* printed are those of the averaged predictions.                          *)
(*                                                                         *)
(* The argument is about time.  A window starts where the one before       *)
(* ended, so that rounding windows to whole frames never adds up; a chunk  *)
(* that is dropped ends before the next window starts.                     *)
(***************************************************************************)
EXTENDS Streaming, TLAPS, WellFoundedInduction, SequenceTheorems

(* What holds for 0 and goes from each number to the next holds up to n.   *)
LEMMA UpTo ==
  ASSUME NEW n \in Nat, NEW S, 0 \in S, \A i \in 0 .. n - 1 : i \in S => i + 1 \in S
  PROVE  \A i \in 0 .. n : i \in S
  <1> DEFINE R == {p \in Nat \X Nat : p[1] < p[2]}
             T == {i \in 0 .. n : i \notin S}
  <1>1. IsWellFoundedOn(R, Nat)
    BY NatLessThanWellFounded DEF OpToRel
  <1>2. ASSUME T # {} PROVE FALSE
    <2>1. T \subseteq Nat
      OBVIOUS
    <2>2. \E m \in T : \A k \in T : ~(<<k, m>> \in R)
      <3> HIDE DEF T, R
      <3> QED
        BY <1>1, <1>2, <2>1, WFMin
    <2>3. PICK m \in T : \A k \in T : ~(k < m)
      <3> HIDE DEF T
      <3> QED
        BY <2>1, <2>2
    <2>4. m - 1 \in 0 .. n - 1 /\ m - 1 \in S
      BY <2>3
    <2> QED
      BY <2>4
  <1> QED
    BY <1>2
-----------------------------------------------------------------------------
(* Times and their quotients.                                              *)

(* Integer division. *)
LEMMA Quotient ==
  ASSUME NEW a \in Int, NEW d \in Nat \ {0}
  PROVE  /\ a \div d \in Int
         /\ d * (a \div d) \in Int
         /\ d * (a \div d) <= a /\ a < d * (a \div d) + d
  OBVIOUS

(* std::round is half a unit off at most. *)
LEMMA RoundFacts ==
  ASSUME NEW a \in Int, NEW b \in Nat \ {0}
  PROVE  /\ Round(a, b) \in Int
         /\ b * Round(a, b) \in Int
         /\ 2 * (b * Round(a, b)) <= 2 * a + b
         /\ 2 * a < 2 * (b * Round(a, b)) + b
  <1> DEFINE q == (2 * a + b) \div (2 * b)
  <1>1. 2 * a + b \in Int /\ 2 * b \in Nat \ {0}
    OBVIOUS
  <1>2. /\ q \in Int /\ (2 * b) * q <= 2 * a + b
        /\ 2 * a + b < (2 * b) * q + 2 * b
    BY <1>1, Quotient
  <1> HIDE DEF q
  <1>3. (2 * b) * q = 2 * (b * q) /\ b * q \in Int
    BY <1>2
  <1>4. Round(a, b) = q
    BY DEF Round, q
  <1> QED
    BY <1>2, <1>3, <1>4

(* Multiplying by a number that is not negative keeps the order. *)
LEMMA Monotonic ==
  ASSUME NEW a \in Int, NEW b \in Int, NEW c \in Nat, a <= b
  PROVE  a * c <= b * c
  OBVIOUS

(* The parameters. *)
LEMMA Parameters ==
  /\ HalfFrame \in Nat \ {0} /\ NumFrames \in Nat \ {0, 1}
  /\ Resolution \in Nat \ {0} /\ Resolution = HalfFrame + HalfFrame
  /\ Duration \in Nat \ {0} /\ Duration = NumFrames * Resolution
  <1>1. /\ HalfFrame \in Nat \ {0} /\ NumFrames \in Nat \ {0, 1}
        /\ Resolution \in Nat \ {0} /\ Resolution = HalfFrame + HalfFrame
    BY FrameAssumption DEF Resolution
  <1>2. \A m, k \in Nat \ {0} : m * k \in Nat \ {0}
    OBVIOUS
  <1> QED
    BY <1>1, <1>2 DEF Duration
-----------------------------------------------------------------------------
(* Types.                                                                  *)

Prediction == [start : Nat, said : [Frames -> SUBSET Speaker]]
Frame == [time : Int, active : SUBSET Speaker, heard : BOOLEAN]
Segment == Int \X Int
TrackRecord == [on : BOOLEAN, start : Int, printed : Seq(Segment)]

(* A list and its members. *)
LEMMA ListFacts ==
  ASSUME NEW T, NEW s \in Seq(T)
  PROVE  /\ Len(s) \in Nat /\ DOMAIN s = 1 .. Len(s)
         /\ \A i \in DOMAIN s : s[i] \in T
         /\ s = << >> <=> Len(s) = 0
  BY LenProperties, EmptySeq

(* The frames that aggregate_buffers yields: one resolution apart from     *)
(* each other, the first one half a frame into the window.                 *)
LEMMA AggregateFacts ==
  ASSUME NEW buffer, NEW fs \in Int, NEW n \in Nat
  PROVE  LET win == Aggregate(buffer, fs, n)
         IN  /\ win \in Seq(Frame) /\ Len(win) = n /\ DOMAIN win = 1 .. n
             /\ \A i \in 1 .. n : /\ win[i].time \in Int
                                  /\ win[i].time = fs + (2 * i - 1) * HalfFrame
                                  /\ win[i].heard = (Voters(buffer, fs, i - 1) # {})
             /\ \A i \in 1 .. n - 1 : win[i + 1].time - win[i].time = Resolution
             /\ \A i, j \in 1 .. n : i < j => win[i].time < win[j].time
  <1> DEFINE win == Aggregate(buffer, fs, n)
             f(i) == [time   |-> fs + (2 * i - 1) * HalfFrame,
                      active |-> {s \in Speaker : ActiveAt(buffer, fs, i - 1, s)},
                      heard  |-> Voters(buffer, fs, i - 1) # {}]
  <1>1. win = [i \in 1 .. n |-> f(i)]
    BY DEF Aggregate
  <1>2. \A i \in 1 .. n : f(i).time = fs + (2 * i - 1) * HalfFrame /\ f(i).time \in Int
    BY Parameters
  <1>3. \A i \in 1 .. n : f(i) \in Frame
    BY <1>2 DEF Frame
  <1>4. \A i \in 1 .. n : f(i).heard = (Voters(buffer, fs, i - 1) # {})
    OBVIOUS
  <1> HIDE DEF win, f
  <1>5. win \in [1 .. n -> Frame]
    BY <1>1, <1>3
  <1>6. win \in Seq(Frame)
    BY <1>5, SeqDef
  <1>7. Len(win) = n /\ DOMAIN win = 1 .. n
    BY <1>5, <1>6, LenProperties
  <1>8. \A i \in 1 .. n : win[i].time \in Int /\ win[i].time = fs + (2 * i - 1) * HalfFrame
    BY <1>1, <1>2
  <1>9. \A i, j \in 1 .. n : i < j => win[i].time < win[j].time
    <2> SUFFICES ASSUME NEW i \in 1 .. n, NEW j \in 1 .. n, i < j
                 PROVE  win[i].time < win[j].time
      OBVIOUS
    <2>1. 2 * i - 1 \in Int /\ 2 * j - 1 \in Int /\ 2 * j - 1 = (2 * i - 1) + (2 * j - 2 * i)
      OBVIOUS
    <2>2. (2 * j - 1) * HalfFrame = (2 * i - 1) * HalfFrame + (2 * j - 2 * i) * HalfFrame
      BY Parameters
    <2>3. 1 * HalfFrame <= (2 * j - 2 * i) * HalfFrame
      BY Parameters, Monotonic
    <2>4. (2 * i - 1) * HalfFrame \in Int /\ (2 * j - 2 * i) * HalfFrame \in Int
      BY Parameters
    <2> QED
      BY <2>2, <2>3, <2>4, <1>8, Parameters
  <1>10. \A i \in 1 .. n - 1 : win[i + 1].time - win[i].time = Resolution
    <2> SUFFICES ASSUME NEW i \in 1 .. n - 1 PROVE win[i + 1].time - win[i].time = Resolution
      OBVIOUS
    <2>1. i \in 1 .. n /\ i + 1 \in 1 .. n
      OBVIOUS
    <2>2. (2 * (i + 1) - 1) * HalfFrame = (2 * i - 1) * HalfFrame + HalfFrame + HalfFrame
      BY Parameters
    <2>3. (2 * i - 1) * HalfFrame \in Int
      BY Parameters
    <2> QED
      BY <2>1, <2>2, <2>3, <1>8, Parameters
  <1>11. \A i \in 1 .. n : win[i].heard = (Voters(buffer, fs, i - 1) # {})
    BY <1>1, <1>4
  <1> QED
    BY <1>6, <1>7, <1>8, <1>9, <1>10, <1>11 DEF win
-----------------------------------------------------------------------------
(* The segment tracker.                                                    *)

(* One frame keeps the record of a speaker a record. *)
LEMMA FollowFrameType ==
  ASSUME NEW r \in TrackRecord, NEW f \in Frame, NEW s
  PROVE  FollowFrame(r, f, s) \in TrackRecord
  <1>1. r.printed \in Seq(Segment) /\ r.start \in Int /\ f.time \in Int
    BY DEF TrackRecord, Frame
  <1>2. <<r.start, f.time>> \in Segment
    BY <1>1 DEF Segment
  <1>3. Append(r.printed, <<r.start, f.time>>) \in Seq(Segment)
    BY <1>1, <1>2, AppendProperties
  <1>4. Open(r, f.time) \in TrackRecord /\ Close(r, f.time) \in TrackRecord
    BY <1>1, <1>3 DEF Open, Close, TrackRecord
  <1> QED
    BY <1>4 DEF FollowFrame

(* The records of speaker s from frame to frame of a window.               *)
Records(q, r, win, s) ==
    /\ q \in [0 .. Len(win) -> TrackRecord]
    /\ q[0] = r
    /\ \A i \in 1 .. Len(win) : q[i] = FollowFrame(q[i - 1], win[i], s)
    /\ Follow(r, win, s) = q[Len(win)]

(* Follow goes through the frames of a window one by one. *)
LEMMA FollowFacts ==
  ASSUME NEW r \in TrackRecord, NEW win \in Seq(Frame), NEW s
  PROVE  \E q : Records(q, r, win, s)
  <1> DEFINE n == Len(win)
             Run(q, m) == /\ q[0] = r
                          /\ \A i \in 1 .. m : q[i] = FollowFrame(q[i - 1], win[i], s)
             S == {m \in 0 .. n : \E q \in [0 .. m -> TrackRecord] : Run(q, m)}
             g == CHOOSE q : q = [i \in 0 .. n |-> IF i = 0 THEN r
                                                   ELSE FollowFrame(q[i - 1], win[i], s)]
  <1>1. n \in Nat /\ DOMAIN win = 1 .. n /\ \A i \in 1 .. n : win[i] \in Frame
    BY ListFacts
  <1>2. Follow(r, win, s) = g[n]
    BY DEF Follow
  <1> HIDE DEF n
  <1>3. 0 \in S
    <2> DEFINE p == [i \in 0 .. 0 |-> r]
    <2>1. p \in [0 .. 0 -> TrackRecord] /\ Run(p, 0) /\ 0 \in 0 .. n
      BY <1>1
    <2> HIDE DEF p, Run
    <2> QED
      BY <2>1
  <1>4. ASSUME NEW m \in 0 .. n - 1, m \in S PROVE m + 1 \in S
    <2>1. PICK q \in [0 .. m -> TrackRecord] : Run(q, m)
      BY <1>4
    <2> DEFINE new == FollowFrame(q[m], win[m + 1], s)
               p == [i \in 0 .. m + 1 |-> IF i = m + 1 THEN new ELSE q[i]]
    <2>2. new \in TrackRecord
      BY <1>1, FollowFrameType
    <2> HIDE DEF new
    <2>3. p \in [0 .. m + 1 -> TrackRecord]
      BY <2>2
    <2>4. p[0] = r /\ p[m + 1] = new /\ p[m] = q[m]
      BY <2>1
    <2>5. \A i \in 1 .. m : p[i] = q[i] /\ p[i - 1] = q[i - 1]
      OBVIOUS
    <2>6. ASSUME NEW i \in 1 .. m + 1 PROVE p[i] = FollowFrame(p[i - 1], win[i], s)
      <3>1. CASE i = m + 1
        <4>1. i - 1 = m
          BY <3>1
        <4> QED
          BY <3>1, <4>1, <2>4 DEF new
      <3>2. CASE i # m + 1
        <4>1. i \in 1 .. m
          BY <3>2
        <4> HIDE DEF p
        <4> QED
          BY <4>1, <2>1, <2>5
      <3> QED
        BY <3>1, <3>2
    <2>7. m + 1 \in 0 .. n
      BY <1>1
    <2> HIDE DEF p
    <2>8. Run(p, m + 1)
      BY <2>4, <2>6
    <2> QED
      BY <2>3, <2>7, <2>8
  <1>5. n \in S
    <2> HIDE DEF S
    <2>1. \A m \in 0 .. n : m \in S
      BY <1>1, <1>3, <1>4, UpTo
    <2> QED
      BY <1>1, <2>1
  <1>6. PICK q \in [0 .. n -> TrackRecord] : Run(q, n)
    BY <1>5
  <1>7. q = [i \in 0 .. n |-> IF i = 0 THEN r ELSE FollowFrame(q[i - 1], win[i], s)]
    <2>1. \A i \in 0 .. n : q[i] = IF i = 0 THEN r ELSE FollowFrame(q[i - 1], win[i], s)
      BY <1>6
    <2> QED
      BY <1>6, <2>1
  <1>8. g = [i \in 0 .. n |-> IF i = 0 THEN r ELSE FollowFrame(g[i - 1], win[i], s)]
    BY <1>7
  <1> HIDE DEF g
  <1>9. /\ DOMAIN g = 0 .. n /\ g[0] = r
        /\ \A i \in 1 .. n : g[i] = FollowFrame(g[i - 1], win[i], s)
    BY <1>1, <1>8
  <1>10. \A i \in 0 .. n : g[i] \in TrackRecord
    <2> DEFINE G == {i \in 0 .. n : g[i] \in TrackRecord}
    <2>1. 0 \in G
      BY <1>1, <1>9
    <2>2. \A i \in 0 .. n - 1 : i \in G => i + 1 \in G
      <3> SUFFICES ASSUME NEW i \in 0 .. n - 1, g[i] \in TrackRecord
                   PROVE  i + 1 \in 0 .. n /\ g[i + 1] \in TrackRecord
        OBVIOUS
      <3>1. i + 1 \in 1 .. n /\ (i + 1) - 1 = i
        BY <1>1
      <3>2. g[i + 1] = FollowFrame(g[i], win[i + 1], s)
        BY <1>9, <3>1
      <3> QED
        BY <1>1, <3>1, <3>2, FollowFrameType
    <2> HIDE DEF G
    <2>3. \A i \in 0 .. n : i \in G
      BY <1>1, <2>1, <2>2, UpTo
    <2> QED
      BY <2>3 DEF G
  <1>11. g \in [0 .. n -> TrackRecord]
    <2>1. g = [i \in 0 .. n |-> g[i]]
      BY <1>8, <1>9
    <2> QED
      BY <1>10, <2>1
  <1> QED
    BY <1>2, <1>9, <1>11 DEF n, Records

Increasing(fr) == \A i, j \in DOMAIN fr : i < j => fr[i].time < fr[j].time

(* Segments that have their start before their stop and do not overlap.    *)
Ordered(p) ==
    /\ \A i \in DOMAIN p : p[i][1] < p[i][2]
    /\ \A i \in 1 .. Len(p) - 1 : p[i][2] < p[i + 1][1]

InSegment(p, time) == \E k \in DOMAIN p : p[k][1] <= time /\ time < p[k][2]

(* The record r of speaker s says what the first n of the frames say.      *)
Tracks(r, fr, n, s) ==
    /\ r \in TrackRecord
    /\ Ordered(r.printed)
    /\ r.on /\ r.printed # << >> => Last(r.printed)[2] < r.start
    /\ \A i \in DOMAIN r.printed : n > 0 /\ r.printed[i][2] <= fr[n].time
    /\ r.on => n > 0 /\ r.start <= fr[n].time
    /\ \A j \in 1 .. n : s \in fr[j].active <=>
            InSegment(r.printed, fr[j].time) \/ (r.on /\ r.start <= fr[j].time)

(* The members of a list of segments. *)
LEMMA SegmentFacts ==
  ASSUME NEW p \in Seq(Segment)
  PROVE  /\ Len(p) \in Nat /\ DOMAIN p = 1 .. Len(p)
         /\ \A i \in DOMAIN p : p[i][1] \in Int /\ p[i][2] \in Int
  BY ListFacts DEF Segment

(* One more segment behind the others. *)
LEMMA AppendSegment ==
  ASSUME NEW p \in Seq(Segment), Ordered(p), NEW start \in Int, NEW stop \in Int, start < stop,
         p # << >> => Last(p)[2] < start
  PROVE  LET q == Append(p, <<start, stop>>)
         IN  /\ q \in Seq(Segment) /\ Ordered(q) /\ q # << >>
             /\ Last(q) = <<start, stop>>
             /\ \A i \in DOMAIN q : q[i] = <<start, stop>> \/ \E k \in DOMAIN p : q[i] = p[k]
             /\ \A time \in Int : InSegment(q, time) <=>
                    InSegment(p, time) \/ (start <= time /\ time < stop)
  <1> DEFINE b == <<start, stop>>
             q == Append(p, b)
             l == Len(p)
  <1>1. l \in Nat /\ DOMAIN p = 1 .. l /\ \A i \in DOMAIN p : p[i][1] \in Int /\ p[i][2] \in Int
    BY SegmentFacts
  <1>2. b \in Segment /\ b[1] = start /\ b[2] = stop
    BY DEF Segment
  <1> HIDE DEF b
  <1>3. /\ q \in Seq(Segment) /\ q # << >> /\ Len(q) = l + 1
        /\ \A i \in 1 .. l : q[i] = p[i]
        /\ q[l + 1] = b
    BY <1>2, AppendProperties
  <1>4. DOMAIN q = 1 .. l + 1
    BY <1>3, SegmentFacts
  <1>5. Last(q) = b
    BY <1>3 DEF Last
  <1>6. Last(p) = p[l]
    BY DEF Last
  <1>7. p # << >> <=> l # 0
    BY ListFacts
  <1> HIDE DEF q, l
  <1>8. \A i \in DOMAIN q : q[i][1] < q[i][2]
    BY <1>1, <1>2, <1>3, <1>4 DEF Ordered
  <1>9. \A i \in 1 .. Len(q) - 1 : q[i][2] < q[i + 1][1]
    <2> SUFFICES ASSUME NEW i \in 1 .. l PROVE q[i][2] < q[i + 1][1]
      BY <1>1, <1>3
    <2>1. CASE i = l
      BY <2>1, <1>1, <1>2, <1>3, <1>6, <1>7
    <2>2. CASE i # l
      <3>1. i \in 1 .. l - 1 /\ i \in 1 .. l /\ i + 1 \in 1 .. l
        BY <2>2, <1>1
      <3>2. p[i][2] < p[i + 1][1]
        BY <3>1 DEF Ordered, l
      <3> QED
        BY <3>1, <3>2, <1>3
    <2> QED
      BY <2>1, <2>2
  <1>10. Ordered(q)
    BY <1>8, <1>9 DEF Ordered
  <1>11. \A i \in DOMAIN q : q[i] = b \/ \E k \in DOMAIN p : q[i] = p[k]
    BY <1>1, <1>3, <1>4
  <1>12. \A k \in DOMAIN p : k \in DOMAIN q /\ q[k] = p[k]
    BY <1>1, <1>3, <1>4
  <1>13. l + 1 \in DOMAIN q /\ q[l + 1] = b
    BY <1>1, <1>3, <1>4
  <1>14. \A time \in Int : InSegment(q, time) <=> InSegment(p, time) \/ (start <= time /\ time < stop)
    <2> SUFFICES ASSUME NEW time \in Int
                 PROVE  InSegment(q, time) <=> InSegment(p, time) \/ (start <= time /\ time < stop)
      OBVIOUS
    <2>1. InSegment(q, time) => InSegment(p, time) \/ (start <= time /\ time < stop)
      BY <1>2, <1>11 DEF InSegment
    <2>2. InSegment(p, time) => InSegment(q, time)
      BY <1>12 DEF InSegment
    <2>3. start <= time /\ time < stop => InSegment(q, time)
      BY <1>2, <1>13 DEF InSegment
    <2> QED
      BY <2>1, <2>2, <2>3
  <1> QED
    BY <1>3, <1>5, <1>10, <1>11, <1>14 DEF q, b

(* One more frame, later than those before. *)
LEMMA TrackFrame ==
  ASSUME NEW fr \in Seq(Frame), Increasing(fr), NEW n \in 0 .. Len(fr) - 1, NEW s, NEW r,
         Tracks(r, fr, n, s)
  PROVE  Tracks(FollowFrame(r, fr[n + 1], s), fr, n + 1, s)
  <1> DEFINE f == fr[n + 1]
             p == r.printed
             q == FollowFrame(r, f, s)
             time == f.time
             b == <<r.start, time>>
  <1>1. /\ Len(fr) \in Nat /\ DOMAIN fr = 1 .. Len(fr) /\ n + 1 \in DOMAIN fr /\ n \in Nat
        /\ \A j \in DOMAIN fr : fr[j] \in Frame /\ fr[j].time \in Int
    <2>1. \A x \in Frame : x.time \in Int
      BY DEF Frame
    <2> QED
      BY <2>1, ListFacts
  <1>2. /\ r \in TrackRecord /\ p \in Seq(Segment) /\ r.start \in Int /\ r.on \in BOOLEAN
        /\ Len(p) \in Nat /\ DOMAIN p = 1 .. Len(p)
        /\ \A i \in DOMAIN p : p[i][1] \in Int /\ p[i][2] \in Int
    <2>1. r \in TrackRecord /\ p \in Seq(Segment) /\ r.start \in Int /\ r.on \in BOOLEAN
      BY DEF Tracks, TrackRecord
    <2> QED
      BY <2>1, SegmentFacts
  <1>3. \A j \in 1 .. n : j \in DOMAIN fr /\ fr[j].time < time /\ fr[j].time \in Int
    BY <1>1 DEF Increasing
  <1>4. f \in Frame /\ time \in Int
    BY <1>1
  <1>5. q \in TrackRecord
    BY <1>2, <1>4, FollowFrameType
  <1>6. \A i \in DOMAIN p : p[i][2] < time
    <2> SUFFICES ASSUME NEW i \in DOMAIN p PROVE p[i][2] < time
      OBVIOUS
    <2>1. n \in 1 .. n /\ p[i][2] <= fr[n].time
      BY <1>1 DEF Tracks
    <2> QED
      BY <2>1, <1>2, <1>3, <1>4
  <1>7. ~InSegment(p, time)
    BY <1>2, <1>4, <1>6 DEF InSegment
  <1>8. r.on => r.start < time
    <2> SUFFICES ASSUME r.on PROVE r.start < time
      OBVIOUS
    <2>1. n \in 1 .. n /\ r.start <= fr[n].time
      BY <1>1 DEF Tracks
    <2> QED
      BY <2>1, <1>2, <1>3, <1>4
  <1>9. \A j \in 1 .. n : s \in fr[j].active <=> InSegment(p, fr[j].time) \/ (r.on /\ r.start <= fr[j].time)
    BY DEF Tracks
  <1>10. p # << >> => Last(p) = p[Len(p)] /\ Len(p) \in DOMAIN p
    BY <1>2, ListFacts DEF Last
  <1>11. Ordered(p) /\ (r.on /\ p # << >> => Last(p)[2] < r.start)
    BY DEF Tracks
  <1>12. \A j \in 1 .. n + 1 : j \in 1 .. n \/ j = n + 1
    BY <1>1
  <1> SUFFICES Tracks(q, fr, n + 1, s)
    OBVIOUS
  <1>13. CASE s \in f.active /\ ~r.on
    <2>1. q = [r EXCEPT !.on = TRUE, !.start = time]
      BY <1>13 DEF FollowFrame, Open
    <2>2. q.on = TRUE /\ q.start = time /\ q.printed = p
      BY <2>1, <1>2 DEF TrackRecord
    <2> HIDE DEF q, p, f, time
    <2>3. p # << >> => Last(p)[2] < time
      BY <1>6, <1>10
    <2>4. \A j \in 1 .. n + 1 : s \in fr[j].active <=>
              InSegment(p, fr[j].time) \/ time <= fr[j].time
      <3>1. \A j \in 1 .. n : ~(time <= fr[j].time)
        BY <1>3, <1>4
      <3>2. fr[n + 1] = f /\ time <= time /\ fr[n + 1].time = time
        BY <1>4 DEF f, time
      <3> QED
        BY <3>1, <3>2, <1>9, <1>12, <1>13
    <2>5. n + 1 > 0 /\ fr[n + 1].time = time /\ time <= time
      BY <1>1, <1>4 DEF f, time
    <2>6. \A i \in DOMAIN p : p[i][2] <= time
      BY <1>2, <1>4, <1>6
    <2> QED
      BY <2>2, <2>3, <2>4, <2>5, <2>6, <1>5, <1>11 DEF Tracks
  <1>14. CASE s \notin f.active /\ r.on
    <2>1. q = [r EXCEPT !.on = FALSE, !.printed = Append(p, b)]
      BY <1>14 DEF FollowFrame, Close
    <2>2. q.on = FALSE /\ q.printed = Append(p, b)
      BY <2>1, <1>2 DEF TrackRecord
    <2>3. /\ Ordered(Append(p, b))
          /\ \A i \in DOMAIN Append(p, b) :
                Append(p, b)[i] = b \/ \E k \in DOMAIN p : Append(p, b)[i] = p[k]
          /\ \A x \in Int : InSegment(Append(p, b), x) <=>
                InSegment(p, x) \/ (r.start <= x /\ x < time)
      <3>1. r.start < time /\ (p # << >> => Last(p)[2] < r.start)
        BY <1>8, <1>11, <1>14
      <3> HIDE DEF p, time, f, q
      <3>2. LET l == Append(p, <<r.start, time>>)
            IN  /\ Ordered(l)
                /\ \A i \in DOMAIN l : l[i] = <<r.start, time>> \/ \E k \in DOMAIN p : l[i] = p[k]
                /\ \A x \in Int : InSegment(l, x) <=> InSegment(p, x) \/ (r.start <= x /\ x < time)
        BY <1>2, <1>4, <1>11, <3>1, AppendSegment
      <3> QED
        BY <3>2
    <2>4. b[2] = time
      OBVIOUS
    <2> HIDE DEF q, p, f, time, b
    <2>5. n + 1 > 0 /\ fr[n + 1].time = time /\ time <= time /\ fr[n + 1] = f
      BY <1>1, <1>4 DEF f, time
    <2>6. \A i \in DOMAIN Append(p, b) : Append(p, b)[i][2] <= time
      BY <2>3, <2>4, <1>2, <1>4, <1>6
    <2>7. \A j \in 1 .. n + 1 : s \in fr[j].active <=> InSegment(Append(p, b), fr[j].time)
      <3>1. \A j \in 1 .. n : s \in fr[j].active <=> InSegment(Append(p, b), fr[j].time)
        BY <2>3, <1>3, <1>9, <1>14
      <3>2. ~InSegment(Append(p, b), time)
        BY <2>3, <1>4, <1>7
      <3> QED
        BY <3>1, <3>2, <2>5, <1>12, <1>14
    <2> QED
      BY <2>2, <2>3, <2>5, <2>6, <2>7, <1>5 DEF Tracks
  <1>15. CASE (s \in f.active) = r.on
    <2>1. q = r
      BY <1>2, <1>15 DEF FollowFrame
    <2> HIDE DEF q, p, f, time
    <2>2. n + 1 > 0 /\ fr[n + 1].time = time /\ fr[n + 1] = f
      BY <1>1 DEF f, time
    <2>3. \A i \in DOMAIN p : p[i][2] <= time
      BY <1>2, <1>4, <1>6
    <2>4. r.on => r.start <= time
      BY <1>2, <1>4, <1>8
    <2>5. \A j \in 1 .. n + 1 : s \in fr[j].active <=>
              InSegment(p, fr[j].time) \/ (r.on /\ r.start <= fr[j].time)
      BY <2>2, <2>4, <1>7, <1>9, <1>12, <1>15
    <2> QED
      BY <2>1, <2>2, <2>3, <2>4, <2>5, <1>2, <1>11 DEF Tracks, p
  <1> QED
    BY <1>2, <1>13, <1>14, <1>15

(* Frames behind frames. *)
LEMMA JoinFacts ==
  ASSUME NEW fr \in Seq(Frame), NEW win \in Seq(Frame)
  PROVE  LET all == fr \o win
         IN  /\ Len(fr) \in Nat /\ DOMAIN fr = 1 .. Len(fr)
             /\ Len(win) \in Nat /\ DOMAIN win = 1 .. Len(win)
             /\ all \in Seq(Frame) /\ Len(all) = Len(fr) + Len(win)
             /\ DOMAIN all = 1 .. Len(fr) + Len(win)
             /\ \A i \in DOMAIN fr : fr[i].time \in Int /\ all[i] = fr[i]
             /\ \A i \in DOMAIN win : win[i].time \in Int /\ all[Len(fr) + i] = win[i]
  <1> DEFINE all == fr \o win
             n == Len(fr)
             m == Len(win)
  <1>1. \A x \in Frame : x.time \in Int
    BY DEF Frame
  <1>2. /\ n \in Nat /\ DOMAIN fr = 1 .. n /\ \A i \in DOMAIN fr : fr[i].time \in Int
        /\ m \in Nat /\ DOMAIN win = 1 .. m /\ \A i \in DOMAIN win : win[i].time \in Int
    BY <1>1, ListFacts
  <1>3. /\ all \in Seq(Frame) /\ Len(all) = n + m
        /\ \A i \in 1 .. n + m : all[i] = IF i <= n THEN fr[i] ELSE win[i - n]
    BY ConcatProperties
  <1> HIDE DEF all, n, m
  <1>4. DOMAIN all = 1 .. n + m
    BY <1>3, ListFacts
  <1>5. \A i \in 1 .. n : all[i] = fr[i]
    <2>1. \A i \in 1 .. n : i \in 1 .. n + m /\ i <= n
      BY <1>2
    <2> QED
      BY <2>1, <1>3
  <1>6. \A i \in 1 .. m : all[n + i] = win[i]
    <2>1. \A i \in 1 .. m : n + i \in 1 .. n + m /\ ~(n + i <= n) /\ (n + i) - n = i
      BY <1>2
    <2> QED
      BY <2>1, <1>3
  <1> QED
    BY <1>2, <1>3, <1>4, <1>5, <1>6 DEF all, n, m

(* All frames of a window, behind those before. *)
LEMMA TrackWindow ==
  ASSUME NEW fr \in Seq(Frame), NEW win \in Seq(Frame), Increasing(fr \o win), NEW s, NEW r,
         Tracks(r, fr, Len(fr), s)
  PROVE  Tracks(Follow(r, win, s), fr \o win, Len(fr \o win), s)
  <1>0. \E q : Records(q, r, win, s)
    <2>1. r \in TrackRecord
      BY DEF Tracks
    <2> QED
      BY <2>1, FollowFacts
  <1> DEFINE all == fr \o win
             n == Len(fr)
             m == Len(win)
  <1>1. n \in Nat /\ m \in Nat /\ DOMAIN win = 1 .. m /\ DOMAIN fr = 1 .. n
    BY JoinFacts
  <1>2. /\ all \in Seq(Frame) /\ Len(all) = n + m /\ DOMAIN all = 1 .. n + m
        /\ \A i \in 1 .. n : all[i] = fr[i]
        /\ \A i \in 1 .. m : all[n + i] = win[i]
    BY JoinFacts
  <1> HIDE DEF all
  <1>4. PICK q \in [0 .. m -> TrackRecord] :
            /\ q[0] = r
            /\ \A i \in 1 .. m : q[i] = FollowFrame(q[i - 1], win[i], s)
            /\ Follow(r, win, s) = q[m]
    BY <1>0 DEF Records
  <1> HIDE DEF n, m
  <1> DEFINE S == {i \in 0 .. m : Tracks(q[i], all, n + i, s)}
  <1>5. 0 \in S
    <2>1. \A j \in 1 .. n : all[j] = fr[j]
      BY <1>2
    <2>2. n > 0 => all[n] = fr[n]
      BY <1>1, <1>2
    <2>3. Tracks(r, all, n, s)
      BY <2>1, <2>2 DEF Tracks, n
    <2> QED
      BY <2>3, <1>1, <1>4
  <1>6. \A i \in 0 .. m - 1 : i \in S => i + 1 \in S
    <2> SUFFICES ASSUME NEW i \in 0 .. m - 1, Tracks(q[i], all, n + i, s)
                 PROVE  i + 1 \in 0 .. m /\ Tracks(q[i + 1], all, n + (i + 1), s)
      OBVIOUS
    <2>1. /\ i + 1 \in 1 .. m /\ (i + 1) - 1 = i /\ n + (i + 1) = (n + i) + 1
          /\ n + i \in 0 .. (n + m) - 1
      BY <1>1
    <2>2. q[i + 1] = FollowFrame(q[i], all[(n + i) + 1], s)
      BY <1>2, <1>4, <2>1
    <2>3. Increasing(all)
      BY DEF all
    <2>4. Tracks(FollowFrame(q[i], all[(n + i) + 1], s), all, (n + i) + 1, s)
      BY <1>2, <2>1, <2>3, TrackFrame
    <2> QED
      BY <1>1, <2>1, <2>2, <2>4
  <1>7. m \in S
    <2> HIDE DEF S
    <2>1. \A i \in 0 .. m : i \in S
      BY <1>1, <1>5, <1>6, UpTo
    <2> QED
      BY <1>1, <2>1
  <1> QED
    BY <1>2, <1>4, <1>7 DEF all, n, m
-----------------------------------------------------------------------------
(* The inductive invariant.                                                *)

TypeInv ==
    /\ step \in Steps /\ latency \in Latencies /\ pos \in Nat /\ done \in BOOLEAN
    /\ chunks \in Seq(Prediction) /\ pred_buffer \in Seq(Prediction)
    /\ frames \in Seq(Frame)
    /\ track \in [Speaker -> TrackRecord]

(* The buffer holds the newest chunks; those dropped are so old that the   *)
(* last of their frames comes before the next focus window.                *)
BufferInv ==
    LET dropped == Len(chunks) - Len(pred_buffer) IN
    /\ pos = Len(chunks) * step
    /\ \A i \in DOMAIN chunks : chunks[i].start = (i - 1) * step
    /\ dropped >= 0
    /\ \A i \in DOMAIN pred_buffer : pred_buffer[i] = chunks[dropped + i]
    /\ \A i \in 1 .. dropped : chunks[i].start + (NumOverlapping + 1) * step <= pos
    /\ HalfFrame <= step => Len(pred_buffer) <= NumOverlapping

(* Where the next focus window starts, but for the first one.              *)
WindowEnd == pos + Duration - latency

(* The frames emitted reach up to a window's end, give or take what it was *)
(* rounded by.                                                             *)
TimeInv ==
    /\ pos = 0 => frames = << >>
    /\ Increasing(frames)
    /\ TimeAxisTiled
    /\ HalfFrame <= step /\ frames # << >> =>
          WindowEnd - Resolution < Last(frames).time /\ Last(frames).time <= WindowEnd

HeardInv ==
    HalfFrame <= step /\ step <= latency /\ latency <= Duration =>
        /\ \A i \in DOMAIN frames : frames[i].heard
        /\ pos > 0 => frames # << >> /\ frames[1].time = HalfFrame

TrackInv ==
    /\ ~done => \A s \in Speaker : Tracks(track[s], frames, Len(frames), s)
    /\ done => SegmentsMatchFrames /\ SegmentsInOrder /\ AudioEnd <= pos

StreamInv == TypeInv /\ BufferInv /\ BufferSuffices /\ TimeInv /\ HeardInv /\ TrackInv
-----------------------------------------------------------------------------
(* A chunk.                                                                *)

NewChunk(said) == [start |-> pos, said |-> said]
Buffered(said) == Append(pred_buffer, NewChunk(said))

(* The command line's numbers. *)
LEMMA CommandLine ==
  ASSUME TypeInv
  PROVE  step \in Nat \ {0} /\ latency \in Nat /\ pos \in Nat /\ WindowEnd \in Int
  <1>1. step \in Nat \ {0} /\ latency \in Nat /\ pos \in Nat
    BY TimesAssumption DEF TypeInv
  <1> QED
    BY <1>1, Parameters DEF WindowEnd

(* num_overlapping chunks and the newest one span more than the latency. *)
LEMMA OverlapFacts ==
  ASSUME step \in Nat \ {0}, latency \in Nat
  PROVE  /\ NumOverlapping \in Nat \ {0}
         /\ (NumOverlapping + 1) * step \in Nat
         /\ latency < (NumOverlapping + 1) * step
  <1> DEFINE x == Round(latency, step)
             S == {1, x}
  <1>1. /\ x \in Int /\ step * x \in Int
        /\ 2 * latency < 2 * (step * x) + step
    BY RoundFacts
  <1> HIDE DEF x
  <1>2. \E m \in S : \A y \in S : m >= y
    BY <1>1
  <1>3. /\ NumOverlapping \in S
        /\ \A y \in S : NumOverlapping >= y
    BY <1>2 DEF NumOverlapping, Max, x
  <1>4. NumOverlapping \in Nat \ {0} /\ x <= NumOverlapping
    BY <1>1, <1>3
  <1> HIDE DEF S
  <1>5. x * step <= NumOverlapping * step /\ NumOverlapping * step \in Nat
    BY <1>1, <1>4, Monotonic
  <1>6. (NumOverlapping + 1) * step = NumOverlapping * step + step
    BY <1>4
  <1>7. step * x = x * step
    BY <1>1
  <1> QED
    BY <1>1, <1>4, <1>5, <1>6, <1>7

(* The buffer with the new chunk. *)
LEMMA BufferedFacts ==
  ASSUME TypeInv, BufferInv, NEW said \in [Frames -> SUBSET Speaker]
  PROVE  LET b == Buffered(said)
             all == Append(chunks, NewChunk(said))
         IN  /\ Len(pred_buffer) \in Nat /\ DOMAIN pred_buffer = 1 .. Len(pred_buffer)
             /\ Len(chunks) \in Nat /\ DOMAIN chunks = 1 .. Len(chunks)
             /\ b \in Seq(Prediction) /\ Len(b) = Len(pred_buffer) + 1 /\ DOMAIN b = 1 .. Len(b)
             /\ \A i \in 1 .. Len(pred_buffer) : b[i] = pred_buffer[i]
             /\ b[Len(pred_buffer) + 1] = NewChunk(said)
             /\ all \in Seq(Prediction) /\ Len(all) = Len(chunks) + 1 /\ DOMAIN all = 1 .. Len(all)
             /\ \A i \in 1 .. Len(chunks) : all[i] = chunks[i]
             /\ all[Len(chunks) + 1] = NewChunk(said)
  <1>1. NewChunk(said) \in Prediction
    BY DEF NewChunk, Prediction, TypeInv
  <1>2. pred_buffer \in Seq(Prediction) /\ chunks \in Seq(Prediction)
    BY DEF TypeInv
  <1> HIDE DEF TypeInv, BufferInv
  <1>3. \A s \in Seq(Prediction) :
            LET a == Append(s, NewChunk(said))
            IN  /\ Len(s) \in Nat /\ DOMAIN s = 1 .. Len(s)
                /\ a \in Seq(Prediction) /\ Len(a) = Len(s) + 1 /\ DOMAIN a = 1 .. Len(a)
                /\ \A i \in 1 .. Len(s) : a[i] = s[i]
                /\ a[Len(s) + 1] = NewChunk(said)
    <2> SUFFICES ASSUME NEW s \in Seq(Prediction)
                 PROVE  LET a == Append(s, NewChunk(said))
                        IN  /\ Len(s) \in Nat /\ DOMAIN s = 1 .. Len(s)
                            /\ a \in Seq(Prediction) /\ Len(a) = Len(s) + 1 /\ DOMAIN a = 1 .. Len(a)
                            /\ \A i \in 1 .. Len(s) : a[i] = s[i]
                            /\ a[Len(s) + 1] = NewChunk(said)
      OBVIOUS
    <2> DEFINE a == Append(s, NewChunk(said))
    <2>1. /\ a \in Seq(Prediction) /\ Len(a) = Len(s) + 1
          /\ \A i \in 1 .. Len(s) : a[i] = s[i]
          /\ a[Len(s) + 1] = NewChunk(said)
      BY <1>1, AppendProperties
    <2>2. Len(s) \in Nat /\ DOMAIN s = 1 .. Len(s)
      BY ListFacts
    <2> HIDE DEF a
    <2>3. DOMAIN a = 1 .. Len(a)
      BY <2>1, ListFacts
    <2> QED
      BY <2>1, <2>2, <2>3 DEF a
  <1> QED
    BY <1>2, <1>3 DEF Buffered

(* The focus window of the new chunk. *)
LEMMA WindowFacts ==
  ASSUME TypeInv, BufferInv, NEW said \in [Frames -> SUBSET Speaker]
  PROVE  LET fs == FocusStart(Buffered(said))
             n == TargetFrames(Buffered(said))
             r == Resolution * n
         IN  /\ fs \in Int /\ n \in Int /\ r \in Int
             /\ pos = 0 => fs = 0
             /\ pos # 0 => fs = WindowEnd
             /\ 2 * r <= 2 * (WindowEnd + step - fs) + Resolution
             /\ 2 * (WindowEnd + step - fs) < 2 * r + Resolution
  <1> DEFINE b == Buffered(said)
             fs == FocusStart(b)
             l == WindowEnd + step - fs
             n == TargetFrames(b)
  <1>1. step \in Nat \ {0} /\ latency \in Nat /\ pos \in Nat /\ WindowEnd \in Int
    BY CommandLine
  <1>2. Len(chunks) \in Nat /\ Len(pred_buffer) \in Nat /\ Len(b) = Len(pred_buffer) + 1
    BY BufferedFacts
  <1>3. pos = 0 => Len(b) = 1
    <2>1. pos = Len(chunks) * step /\ Len(pred_buffer) <= Len(chunks)
      BY <1>2 DEF BufferInv
    <2>2. 1 <= Len(chunks) => 1 * step <= Len(chunks) * step
      BY <1>1, <1>2, Monotonic
    <2> HIDE DEF b
    <2> QED
      BY <1>1, <1>2, <2>1, <2>2
  <1> HIDE DEF b
  <1>4. fs = IF Len(b) = 1 /\ pos = 0 THEN 0 ELSE WindowEnd
    BY DEF FocusStart, WindowEnd
  <1>5. fs \in Int /\ (pos = 0 => fs = 0) /\ (pos # 0 => fs = WindowEnd)
    BY <1>1, <1>3, <1>4
  <1>6. FocusEnd(b) = WindowEnd + step
    BY DEF FocusEnd, WindowEnd
  <1> HIDE DEF fs
  <1>7. l \in Int
    BY <1>1, <1>5
  <1>8. n = Round(l, Resolution)
    <2>1. n = Round(FocusEnd(b) - fs, Resolution)
      BY DEF TargetFrames, fs
    <2>2. FocusEnd(b) - fs = l
      BY <1>1, <1>5, <1>6
    <2> HIDE DEF n, l
    <2> QED
      BY <2>1, <2>2
  <1> HIDE DEF l, n
  <1>9. /\ n \in Int /\ Resolution * n \in Int
        /\ 2 * (Resolution * n) <= 2 * l + Resolution
        /\ 2 * l < 2 * (Resolution * n) + Resolution
    BY <1>7, <1>8, RoundFacts, Parameters
  <1> QED
    BY <1>5, <1>9 DEF l, n, fs, b
-----------------------------------------------------------------------------
(* What a chunk does to the buffer and to the window.                      *)

(* Only the first window can be empty, when a step is half a frame. *)
LEMMA EmptyWindow ==
  ASSUME TypeInv, BufferInv, NEW said \in [Frames -> SUBSET Speaker],
         TargetFrames(Buffered(said)) <= 0, HalfFrame <= step
  PROVE  pos = 0
  <1> DEFINE fs == FocusStart(Buffered(said))
             n == TargetFrames(Buffered(said))
  <1>1. /\ n \in Int /\ fs \in Int
        /\ pos # 0 => fs = WindowEnd
        /\ 2 * (WindowEnd + step - fs) < 2 * (Resolution * n) + Resolution
        /\ Resolution * n \in Int
    BY WindowFacts
  <1>2. n <= 0
    OBVIOUS
  <1> HIDE DEF n, fs
  <1>3. n * Resolution <= 0 * Resolution /\ n * Resolution = Resolution * n
    BY <1>1, <1>2, Monotonic, Parameters
  <1>4. Resolution * n <= 0
    BY <1>3, Parameters
  <1>5. /\ WindowEnd \in Int /\ pos \in Nat /\ step \in Nat
        /\ Resolution = HalfFrame + HalfFrame /\ HalfFrame \in Nat
    BY CommandLine, Parameters
  <1> QED
    BY <1>1, <1>4, <1>5

(* The buffer after a chunk, whether frames are emitted or not. *)
LEMMA BufferShapes ==
  ASSUME TypeInv, BufferInv, NEW said \in [Frames -> SUBSET Speaker], ProcessChunk(said)
  PROVE  \/ /\ pred_buffer' = Buffered(said)
            /\ HalfFrame <= step => Len(pred_buffer) = 0
         \/ /\ pred_buffer' = Buffered(said)
            /\ Len(pred_buffer) + 1 <= NumOverlapping
         \/ /\ pred_buffer' = Tail(Buffered(said))
            /\ Len(pred_buffer) + 1 > NumOverlapping
  <1> DEFINE b == Buffered(said)
             n == TargetFrames(b)
  <1>1. Len(b) = Len(pred_buffer) + 1 /\ Len(pred_buffer) \in Nat /\ Len(chunks) \in Nat
    BY BufferedFacts
  <1>2. step \in Nat \ {0} /\ latency \in Nat
    BY CommandLine
  <1>3. NumOverlapping \in Nat \ {0}
    BY <1>2, OverlapFacts
  <1>4. pred_buffer' = IF n <= 0 THEN b ELSE Trimmed(b)
    BY DEF ProcessChunk, Buffered, NewChunk
  <1>5. ASSUME n <= 0, HalfFrame <= step PROVE Len(pred_buffer) = 0
    <2>1. pos = 0
      BY <1>5, EmptyWindow
    <2>2. Len(chunks) * step = 0 /\ Len(pred_buffer) <= Len(chunks)
      BY <2>1, <1>1 DEF BufferInv
    <2>3. 1 <= Len(chunks) => 1 * step <= Len(chunks) * step
      BY <1>1, <1>2, Monotonic
    <2> QED
      BY <1>1, <1>2, <2>2, <2>3
  <1> HIDE DEF n, b
  <1>6. n \in Int
    BY WindowFacts DEF n, b
  <1>7. CASE n <= 0
    BY <1>4, <1>5, <1>7 DEF b
  <1>8. CASE ~(n <= 0)
    <2>1. pred_buffer' = IF Len(b) > NumOverlapping THEN Tail(b) ELSE b
      BY <1>4, <1>8 DEF Trimmed
    <2> QED
      BY <1>1, <1>3, <2>1 DEF b
  <1> QED
    BY <1>7, <1>8

(* A chunk keeps the buffer a part of the history. *)
LEMMA BufferStep ==
  ASSUME TypeInv, BufferInv, NEW said \in [Frames -> SUBSET Speaker], ProcessChunk(said)
  PROVE  /\ BufferInv'
         /\ pred_buffer' \in Seq(Prediction)
  <1> DEFINE b == Buffered(said)
             all == Append(chunks, NewChunk(said))
             m == Len(pred_buffer)
             c == Len(chunks)
             k == Len(pred_buffer')
             d == c + 1 - k
  <1>1. /\ step \in Nat \ {0} /\ latency \in Nat /\ pos \in Nat
    BY CommandLine
  <1>2. /\ NumOverlapping \in Nat \ {0}
        /\ (NumOverlapping + 1) * step \in Nat
    BY <1>1, OverlapFacts
  <1>3. /\ pos' = pos + step /\ step' = step /\ latency' = latency
        /\ chunks' = all
    BY DEF ProcessChunk, NewChunk
  <1>4. NumOverlapping' = NumOverlapping
    BY <1>3 DEF NumOverlapping, Round
  <1>5. /\ m \in Nat /\ DOMAIN pred_buffer = 1 .. m
        /\ c \in Nat /\ DOMAIN chunks = 1 .. c
        /\ b \in Seq(Prediction) /\ Len(b) = m + 1 /\ DOMAIN b = 1 .. m + 1
        /\ \A i \in 1 .. m : b[i] = pred_buffer[i]
        /\ b[m + 1] = NewChunk(said)
        /\ Len(all) = c + 1 /\ DOMAIN all = 1 .. c + 1
        /\ \A i \in 1 .. c : all[i] = chunks[i]
        /\ all[c + 1] = NewChunk(said)
    BY BufferedFacts
  <1>6. /\ pos = c * step /\ m <= c
        /\ \A i \in 1 .. c : chunks[i].start = (i - 1) * step
        /\ \A i \in 1 .. m : pred_buffer[i] = chunks[c - m + i]
        /\ \A i \in 1 .. c - m : chunks[i].start + (NumOverlapping + 1) * step <= pos
        /\ HalfFrame <= step => m <= NumOverlapping
    <2>1. /\ pos = c * step /\ c - m >= 0
          /\ \A i \in DOMAIN chunks : chunks[i].start = (i - 1) * step
          /\ \A i \in DOMAIN pred_buffer : pred_buffer[i] = chunks[(c - m) + i]
          /\ \A i \in 1 .. c - m : chunks[i].start + (NumOverlapping + 1) * step <= pos
          /\ HalfFrame <= step => m <= NumOverlapping
      BY DEF BufferInv
    <2> HIDE DEF m, c, b, all, k, d
    <2>2. m <= c
      BY <2>1, <1>5
    <2>3. \A i \in 1 .. c : chunks[i].start = (i - 1) * step
      BY <2>1, <1>5
    <2>4. \A i \in 1 .. m : pred_buffer[i] = chunks[c - m + i]
      BY <2>1, <1>5
    <2> QED
      BY <2>1, <2>2, <2>3, <2>4
  <1>7. \/ pred_buffer' = b /\ (HalfFrame <= step => m = 0)
        \/ pred_buffer' = b /\ m + 1 <= NumOverlapping
        \/ pred_buffer' = Tail(b) /\ m + 1 > NumOverlapping
    BY BufferShapes
  <1>8. NewChunk(said).start = pos
    BY DEF NewChunk
  <1> HIDE DEF b, all, m, c
  <1>9. pos' = (c + 1) * step
    <2>1. (c + 1) * step = c * step + step
      BY <1>1, <1>5
    <2> QED
      BY <1>3, <1>6, <2>1
  <1>10. \A i \in 1 .. c + 1 : all[i].start = (i - 1) * step
    <2> SUFFICES ASSUME NEW i \in 1 .. c + 1 PROVE all[i].start = (i - 1) * step
      OBVIOUS
    <2>1. i \in 1 .. c \/ (i = c + 1 /\ i - 1 = c)
      BY <1>5
    <2> QED
      BY <2>1, <1>5, <1>6, <1>8
  <1>11. \A i \in 1 .. m + 1 : b[i] = all[c - m + i]
    <2> SUFFICES ASSUME NEW i \in 1 .. m + 1 PROVE b[i] = all[c - m + i]
      OBVIOUS
    <2>1. (i \in 1 .. m /\ c - m + i \in 1 .. c) \/ (i = m + 1 /\ c - m + i = c + 1)
      BY <1>5, <1>6
    <2> QED
      BY <2>1, <1>5, <1>6
  <1>12. \A i \in 1 .. c - m : all[i].start + (NumOverlapping + 1) * step <= pos'
    <2> SUFFICES ASSUME NEW i \in 1 .. c - m
                 PROVE  all[i].start + (NumOverlapping + 1) * step <= pos'
      OBVIOUS
    <2>1. i \in 1 .. c /\ i \in 1 .. c + 1
      BY <1>5, <1>6
    <2>2. all[i].start = chunks[i].start /\ (i - 1) * step \in Int
      BY <2>1, <1>1, <1>5
    <2>3. all[i].start \in Int
      BY <2>1, <2>2, <1>10
    <2> QED
      BY <2>2, <2>3, <1>1, <1>2, <1>3, <1>6
  <1>13. /\ pred_buffer' \in Seq(Prediction)
         /\ k \in Nat /\ k <= c + 1 /\ DOMAIN pred_buffer' = 1 .. k
         /\ \A i \in 1 .. k : pred_buffer'[i] = all[d + i]
         /\ \A i \in 1 .. d : all[i].start + (NumOverlapping + 1) * step <= pos'
         /\ HalfFrame <= step => k <= NumOverlapping
    <2>1. CASE pred_buffer' = b /\ ((HalfFrame <= step => m = 0) \/ m + 1 <= NumOverlapping)
      <3>1. k = m + 1 /\ d = c - m /\ pred_buffer' = b
        BY <2>1, <1>5
      <3> HIDE DEF k, d
      <3>2. HalfFrame <= step => k <= NumOverlapping
        BY <3>1, <2>1, <1>2, <1>5
      <3>3. k \in Nat /\ k <= c + 1
        BY <3>1, <1>5, <1>6
      <3> QED
        BY <3>1, <3>2, <3>3, <1>5, <1>11, <1>12
    <2>2. CASE pred_buffer' = Tail(b) /\ m + 1 > NumOverlapping
      <3>1. /\ Tail(b) \in Seq(Prediction) /\ Len(Tail(b)) = m
            /\ \A i \in 1 .. m : Tail(b)[i] = b[i + 1]
        <4>1. b # << >>
          BY <1>5, ListFacts
        <4> QED
          BY <4>1, <1>5, HeadTailProperties
      <3>2. DOMAIN Tail(b) = 1 .. m
        BY <3>1, ListFacts
      <3>3. k = m /\ d = c + 1 - m /\ pred_buffer' = Tail(b)
        BY <3>1, <2>2
      <3> HIDE DEF k, d
      <3>4. k \in Nat /\ k <= c + 1 /\ (HalfFrame <= step => k <= NumOverlapping)
        BY <3>3, <1>5, <1>6
      <3>5. \A i \in 1 .. k : pred_buffer'[i] = all[d + i]
        <4> SUFFICES ASSUME NEW i \in 1 .. m PROVE Tail(b)[i] = all[(c + 1 - m) + i]
          BY <3>3
        <4>1. i + 1 \in 1 .. m + 1 /\ c - m + (i + 1) = (c + 1 - m) + i
          BY <1>5
        <4> QED
          BY <4>1, <3>1, <1>11
      <3>6. \A i \in 1 .. d : all[i].start + (NumOverlapping + 1) * step <= pos'
        <4> SUFFICES ASSUME NEW i \in 1 .. c + 1 - m
                     PROVE  all[i].start + (NumOverlapping + 1) * step <= pos'
          BY <3>3
        <4>1. i \in 1 .. c - m \/ (i = c + 1 - m /\ i \in 1 .. c + 1 /\ i - 1 = c - m)
          BY <1>5, <1>6
        <4>2. CASE i = c + 1 - m
          <5>1. all[i].start = (c - m) * step
            BY <4>1, <4>2, <1>5, <1>10
          <5>2. (NumOverlapping + 1) * step <= (m + 1) * step
            BY <2>2, <1>1, <1>2, <1>5, Monotonic, SMTT(60)
          <5>3. /\ (c - m) * step + (m + 1) * step = (c + 1) * step
                /\ (c - m) * step \in Int /\ (m + 1) * step \in Int
            BY <1>1, <1>5
          <5> QED
            BY <5>1, <5>2, <5>3, <1>2, <1>9
        <4> QED
          BY <4>1, <4>2, <1>12
      <3> QED
        BY <3>1, <3>2, <3>3, <3>4, <3>5, <3>6
    <2> QED
      BY <1>7, <2>1, <2>2
  <1>14. d >= 0 /\ Len(chunks') = c + 1 /\ DOMAIN chunks' = 1 .. c + 1
    BY <1>3, <1>5, <1>13
  <1>15. /\ pos' = Len(chunks') * step'
         /\ \A i \in DOMAIN chunks' : chunks'[i].start = (i - 1) * step'
         /\ Len(chunks') - k >= 0
         /\ \A i \in DOMAIN pred_buffer' : pred_buffer'[i] = chunks'[(Len(chunks') - k) + i]
         /\ \A i \in 1 .. Len(chunks') - k :
               chunks'[i].start + (NumOverlapping' + 1) * step' <= pos'
         /\ HalfFrame <= step' => k <= NumOverlapping'
    <2> HIDE DEF k
    <2>1. Len(chunks') - k = d /\ d >= 0
      BY <1>5, <1>13, <1>14
    <2>2. \A i \in DOMAIN chunks' : chunks'[i].start = (i - 1) * step'
      BY <1>3, <1>10, <1>14
    <2>3. pos' = Len(chunks') * step'
      BY <1>3, <1>9, <1>14
    <2> HIDE DEF d
    <2>4. \A i \in DOMAIN pred_buffer' : pred_buffer'[i] = chunks'[(Len(chunks') - k) + i]
      BY <2>1, <1>3, <1>13
    <2>5. \A i \in 1 .. Len(chunks') - k :
               chunks'[i].start + (NumOverlapping' + 1) * step' <= pos'
      BY <2>1, <1>3, <1>4, <1>13
    <2> QED
      BY <2>1, <2>2, <2>3, <2>4, <2>5, <1>3, <1>4, <1>13
  <1>16. BufferInv'
    BY <1>15 DEF BufferInv
  <1> QED
    BY <1>13, <1>16
(* A quotient is not below what fits into the dividend. *)
LEMMA QuotientAtLeast ==
  ASSUME NEW a \in Int, NEW d \in Nat \ {0}, NEW k \in Nat, k * d <= a
  PROVE  k <= a \div d
  <1> DEFINE q == a \div d
  <1>1. q \in Int /\ d * q \in Int /\ a < d * q + d
    BY Quotient
  <1> HIDE DEF q
  <1>2. SUFFICES ASSUME q + 1 <= k PROVE FALSE
    BY <1>1 DEF q
  <1>3. (q + 1) * d <= k * d /\ (q + 1) * d = d * q + d /\ k * d \in Int
    BY <1>1, <1>2, Monotonic
  <1> QED
    BY <1>1, <1>3

(* The history ends with what the buffer holds. *)
LEMMA BufferedSuffix ==
  ASSUME TypeInv, BufferInv, NEW said \in [Frames -> SUBSET Speaker]
  PROVE  LET dropped == Len(chunks) - Len(pred_buffer)
         IN  /\ dropped \in Nat
             /\ \A i \in 1 .. Len(pred_buffer) + 1 :
                    Buffered(said)[i] = Append(chunks, NewChunk(said))[dropped + i]
  <1> DEFINE b == Buffered(said)
             all == Append(chunks, NewChunk(said))
             m == Len(pred_buffer)
             c == Len(chunks)
  <1>1. /\ m \in Nat /\ DOMAIN pred_buffer = 1 .. m /\ c \in Nat
        /\ \A i \in 1 .. m : b[i] = pred_buffer[i]
        /\ b[m + 1] = NewChunk(said)
        /\ \A i \in 1 .. c : all[i] = chunks[i]
        /\ all[c + 1] = NewChunk(said)
    BY BufferedFacts
  <1>2. /\ c - m >= 0
        /\ \A i \in DOMAIN pred_buffer : pred_buffer[i] = chunks[(c - m) + i]
    BY DEF BufferInv
  <1> HIDE DEF b, all, m, c
  <1>3. c - m \in Nat
    BY <1>1, <1>2
  <1>4. ASSUME NEW i \in 1 .. m + 1 PROVE b[i] = all[(c - m) + i]
    <2>1. (i \in 1 .. m /\ (c - m) + i \in 1 .. c) \/ (i = m + 1 /\ (c - m) + i = c + 1)
      BY <1>1, <1>2
    <2> QED
      BY <2>1, <1>1, <1>2
  <1> QED
    BY <1>3, <1>4 DEF b, all, m, c

(* No dropped chunk has a frame of the window. *)
LEMMA VotersSuffice ==
  ASSUME TypeInv, BufferInv, NEW said \in [Frames -> SUBSET Speaker], NEW t \in Nat
  PROVE  LET fs == FocusStart(Buffered(said))
         IN  Voters(Buffered(said), fs, t) = Voters(Append(chunks, NewChunk(said)), fs, t)
  <1> DEFINE b == Buffered(said)
             fs == FocusStart(b)
             hist == Append(chunks, NewChunk(said))
             m == Len(pred_buffer)
             c == Len(chunks)
  <1>1. step \in Nat \ {0} /\ latency \in Nat /\ pos \in Nat /\ WindowEnd \in Int
    BY CommandLine
  <1>2. /\ NumOverlapping \in Nat \ {0}
        /\ (NumOverlapping + 1) * step \in Nat
        /\ latency < (NumOverlapping + 1) * step
    BY <1>1, OverlapFacts
  <1>3. /\ m \in Nat /\ c \in Nat
        /\ Len(b) = m + 1 /\ DOMAIN b = 1 .. m + 1
        /\ hist \in Seq(Prediction) /\ DOMAIN hist = 1 .. c + 1
        /\ \A i \in 1 .. c : hist[i] = chunks[i]
    BY BufferedFacts
  <1>4. c - m \in Nat /\ \A i \in 1 .. m + 1 : b[i] = hist[(c - m) + i]
    BY BufferedSuffix
  <1>5. /\ pos = c * step
        /\ \A i \in 1 .. c - m : chunks[i].start + (NumOverlapping + 1) * step <= pos
    BY DEF BufferInv
  <1>6. fs \in Int /\ (pos # 0 => fs = WindowEnd)
    BY WindowFacts
  <1> HIDE DEF b, hist, m, c, fs
  <1>7. ToSet(b) \subseteq ToSet(hist)
    <2> SUFFICES ASSUME NEW i \in 1 .. m + 1
                 PROVE  b[i] \in ToSet(hist)
      BY <1>3 DEF ToSet
    <2>1. (c - m) + i \in 1 .. c + 1 /\ b[i] = hist[(c - m) + i]
      BY <1>3, <1>4
    <2> QED
      BY <2>1, <1>3 DEF ToSet
  <1>8. ASSUME NEW i \in 1 .. c - m
        PROVE  Source(hist[i], fs, t) \notin Frames
    <2> DEFINE x == hist[i].start
               q == (fs - x) \div Resolution
    <2>1. i \in 1 .. c /\ i \in 1 .. c + 1 /\ 1 <= c
      BY <1>3, <1>4
    <2>2. hist[i] = chunks[i] /\ hist[i] \in Prediction
      BY <2>1, <1>3, ListFacts
    <2>3. x \in Nat /\ x + (NumOverlapping + 1) * step <= pos
      BY <2>2, <1>5 DEF Prediction
    <2>4. 1 * step <= c * step
      BY <2>1, <1>1, <1>3, Monotonic
    <2>5. pos # 0
      BY <2>4, <1>1, <1>5
    <2>6. fs = pos + Duration - latency
      BY <2>5, <1>6 DEF WindowEnd
    <2> HIDE DEF x
    <2>7. NumFrames * Resolution <= fs - x /\ fs - x \in Int
      BY <2>3, <2>6, <1>1, <1>2, Parameters
    <2>8. NumFrames <= q /\ q \in Int
      BY <2>7, QuotientAtLeast, Quotient, Parameters
    <2>9. Source(hist[i], fs, t) = q + t
      BY DEF Source, x
    <2> HIDE DEF q
    <2> QED
      BY <2>8, <2>9, Parameters DEF Frames
  <1>9. ASSUME NEW y \in ToSet(hist), Source(y, fs, t) \in Frames
        PROVE  y \in ToSet(b)
    <2>1. PICK i \in 1 .. c + 1 : y = hist[i]
      BY <1>3 DEF ToSet
    <2>2. i \notin 1 .. c - m
      BY <2>1, <1>8, <1>9
    <2>3. i - (c - m) \in 1 .. m + 1 /\ (c - m) + (i - (c - m)) = i
      BY <2>2, <1>3, <1>4
    <2>4. b[i - (c - m)] = y
      BY <2>1, <2>3, <1>4
    <2> QED
      BY <2>3, <2>4, <1>3 DEF ToSet
  <1>10. Voters(b, fs, t) = Voters(hist, fs, t)
    BY <1>7, <1>9 DEF Voters
  <1> QED
    BY <1>10 DEF b, hist, fs

(* The averages over the buffer are those over the history. *)
LEMMA WindowStep ==
  ASSUME TypeInv, BufferInv, NEW said \in [Frames -> SUBSET Speaker], ProcessChunk(said)
  PROVE  BufferSuffices'
  <1> DEFINE b == Buffered(said)
             fs == FocusStart(b)
             n == TargetFrames(b)
             hist == Append(chunks, NewChunk(said))
             win == Aggregate(b, fs, n)
  <1>1. /\ chunks' = hist
        /\ window' = IF n <= 0 THEN << >> ELSE win
    BY DEF ProcessChunk, Buffered, NewChunk
  <1>2. fs \in Int /\ n \in Int
    BY WindowFacts
  <1>3. \A t \in Nat : Voters(b, fs, t) = Voters(hist, fs, t)
    BY VotersSuffice
  <1> HIDE DEF b, fs, n, hist
  <1>4. ASSUME ~(n <= 0)
        PROVE  win = Aggregate(hist, win[1].time - HalfFrame, Len(win))
    <2>1. n \in Nat /\ 1 \in 1 .. n
      BY <1>2, <1>4
    <2>2. Len(win) = n /\ win[1].time = fs + (2 * 1 - 1) * HalfFrame
      BY <2>1, <1>2, AggregateFacts
    <2>3. win[1].time - HalfFrame = fs
      <3> HIDE DEF win
      <3> QED
        BY <2>2, <1>2, Parameters
    <2>4. \A i \in 1 .. n : Voters(b, fs, i - 1) = Voters(hist, fs, i - 1)
      BY <2>1, <1>3
    <2>5. \A i \in 1 .. n, s \in Speaker :
              ActiveAt(b, fs, i - 1, s) = ActiveAt(hist, fs, i - 1, s)
      BY <2>4 DEF ActiveAt
    <2>6. \A i \in 1 .. n : {s \in Speaker : ActiveAt(b, fs, i - 1, s)}
                             = {s \in Speaker : ActiveAt(hist, fs, i - 1, s)}
      BY <2>5
    <2>7. Aggregate(b, fs, n) = Aggregate(hist, fs, n)
      BY <2>4, <2>6 DEF Aggregate
    <2> QED
      BY <2>2, <2>3, <2>7
  <1> QED
    <2>1. CASE n <= 0
      BY <2>1, <1>1 DEF BufferSuffices
    <2>2. CASE ~(n <= 0)
      <3>1. window' = win /\ chunks' = hist
        BY <2>2, <1>1
      <3>2. window' = Aggregate(chunks', window'[1].time - HalfFrame, Len(window'))
        BY <3>1, <2>2, <1>4
      <3> QED
        BY <3>2 DEF BufferSuffices
    <2> QED
      BY <2>1, <2>2
-----------------------------------------------------------------------------
(* The time axis.                                                          *)

Tiled(fr) ==
    \A i \in 1 .. Len(fr) - 1 : fr[i + 1].time - fr[i].time \in HalfFrame .. 3 * HalfFrame

(* Later frames that tile the time axis, after frames that do. *)
LEMMA JoinTiled ==
  ASSUME NEW fr \in Seq(Frame), NEW win \in Seq(Frame), win # << >>,
         Increasing(fr), Increasing(win), Tiled(fr), Tiled(win),
         fr # << >> => win[1].time - Last(fr).time \in HalfFrame .. 3 * HalfFrame
  PROVE  Increasing(fr \o win) /\ Tiled(fr \o win) /\ Last(fr \o win) = Last(win)
  <1> DEFINE all == fr \o win
             n == Len(fr)
             m == Len(win)
  <1>1. /\ n \in Nat /\ DOMAIN fr = 1 .. n /\ \A i \in 1 .. n : fr[i].time \in Int
        /\ m \in Nat /\ DOMAIN win = 1 .. m /\ \A i \in 1 .. m : win[i].time \in Int
        /\ Len(all) = n + m /\ DOMAIN all = 1 .. n + m
        /\ \A i \in 1 .. n : all[i] = fr[i]
        /\ \A i \in 1 .. m : all[n + i] = win[i]
    BY JoinFacts
  <1>2. m # 0 /\ (n # 0 => fr # << >>)
    BY ListFacts
  <1>3. n # 0 => win[1].time - fr[n].time \in HalfFrame .. 3 * HalfFrame
    BY <1>2 DEF Last
  <1>4. Last(all) = all[n + m] /\ Last(win) = win[m]
    BY <1>1 DEF Last
  <1>5. /\ \A i \in 1 .. n - 1 : fr[i + 1].time - fr[i].time \in HalfFrame .. 3 * HalfFrame
        /\ \A i \in 1 .. m - 1 : win[i + 1].time - win[i].time \in HalfFrame .. 3 * HalfFrame
    BY DEF Tiled
  <1>6. /\ \A i, j \in 1 .. n : i < j => fr[i].time < fr[j].time
        /\ \A i, j \in 1 .. m : i < j => win[i].time < win[j].time
    BY <1>1 DEF Increasing
  <1> HIDE DEF all, n, m
  <1>7. HalfFrame \in Nat \ {0}
    BY Parameters
  <1>8. \A i \in 1 .. n + m : i \in 1 .. n \/ (i - n \in 1 .. m /\ n + (i - n) = i)
    BY <1>1
  <1>9. \A i \in 1 .. n, j \in 1 .. m : fr[i].time < win[j].time
    <2> SUFFICES ASSUME NEW i \in 1 .. n, NEW j \in 1 .. m PROVE fr[i].time < win[j].time
      OBVIOUS
    <2>1. n \in 1 .. n /\ 1 \in 1 .. m /\ fr[n].time < win[1].time
      BY <1>1, <1>3, <1>7
    <2>2. fr[i].time <= fr[n].time
      BY <2>1, <1>1, <1>6
    <2>3. win[1].time <= win[j].time
      BY <2>1, <1>1, <1>6
    <2> QED
      BY <2>1, <2>2, <2>3, <1>1
  <1>10. \A i, j \in 1 .. n + m : i < j => all[i].time < all[j].time
    <2> SUFFICES ASSUME NEW i \in 1 .. n + m, NEW j \in 1 .. n + m, i < j
                 PROVE  all[i].time < all[j].time
      OBVIOUS
    <2>1. CASE j \in 1 .. n
      <3>1. i \in 1 .. n
        BY <2>1, <1>1
      <3> QED
        BY <3>1, <2>1, <1>1, <1>6
    <2>2. CASE i \in 1 .. n /\ j - n \in 1 .. m /\ n + (j - n) = j
      <3>1. all[i] = fr[i] /\ all[j] = win[j - n]
        BY <2>2, <1>1
      <3> QED
        BY <3>1, <2>2, <1>9
    <2>3. CASE i - n \in 1 .. m /\ n + (i - n) = i /\ j - n \in 1 .. m /\ n + (j - n) = j
      <3>1. all[n + (i - n)] = win[i - n] /\ all[n + (j - n)] = win[j - n]
        BY <2>3, <1>1
      <3>2. i - n < j - n
        BY <1>1
      <3>3. win[i - n].time < win[j - n].time
        BY <3>2, <2>3, <1>6
      <3> QED
        BY <3>1, <3>3, <2>3
    <2> QED
      BY <2>1, <2>2, <2>3, <1>8
  <1>11. \A i \in 1 .. (n + m) - 1 : all[i + 1].time - all[i].time \in HalfFrame .. 3 * HalfFrame
    <2> SUFFICES ASSUME NEW i \in 1 .. (n + m) - 1
                 PROVE  all[i + 1].time - all[i].time \in HalfFrame .. 3 * HalfFrame
      OBVIOUS
    <2>1. CASE i < n
      <3>1. i \in 1 .. n - 1 /\ i \in 1 .. n /\ i + 1 \in 1 .. n
        BY <2>1, <1>1
      <3> QED
        BY <3>1, <1>1, <1>5
    <2>2. CASE i = n
      <3>1. i \in 1 .. n /\ 1 \in 1 .. m /\ n # 0
        BY <2>2, <1>1
      <3>2. all[i] = fr[n] /\ all[i + 1] = win[1]
        BY <3>1, <2>2, <1>1
      <3> QED
        BY <3>1, <3>2, <1>3
    <2>3. CASE n < i
      <3>1. /\ i - n \in 1 .. m - 1 /\ i - n \in 1 .. m /\ (i - n) + 1 \in 1 .. m
            /\ n + (i - n) = i /\ n + ((i - n) + 1) = i + 1
        BY <2>3, <1>1
      <3>2. all[n + (i - n)] = win[i - n] /\ all[n + ((i - n) + 1)] = win[(i - n) + 1]
        BY <3>1, <1>1
      <3>3. win[(i - n) + 1].time - win[i - n].time \in HalfFrame .. 3 * HalfFrame
        BY <3>1, <1>5
      <3> QED
        BY <3>1, <3>2, <3>3
    <2> QED
      BY <2>1, <2>2, <2>3, <1>1
  <1>12. Last(all) = Last(win)
    <2>1. m \in 1 .. m
      BY <1>1, <1>2
    <2> QED
      BY <2>1, <1>1, <1>4
  <1>13. Increasing(all)
    BY <1>1, <1>10 DEF Increasing
  <1>14. Tiled(all)
    BY <1>1, <1>11 DEF Tiled
  <1> QED
    BY <1>12, <1>13, <1>14 DEF all

NewWindow(said) ==
    Aggregate(Buffered(said), FocusStart(Buffered(said)), TargetFrames(Buffered(said)))

(* The frames of a window: the first one is half a frame behind its start, *)
(* the last one at most a frame before its end.                            *)
LEMMA NewWindowFacts ==
  ASSUME TypeInv, BufferInv, NEW said \in [Frames -> SUBSET Speaker],
         ~(TargetFrames(Buffered(said)) <= 0)
  PROVE  LET win == NewWindow(said)
         IN  /\ win \in Seq(Frame) /\ win # << >> /\ Increasing(win) /\ Tiled(win)
             /\ win[1].time = FocusStart(Buffered(said)) + HalfFrame
             /\ Last(win).time \in Int
             /\ WindowEnd + step - Resolution < Last(win).time
             /\ Last(win).time <= WindowEnd + step
             /\ pos # 0 => HalfFrame <= step
  <1> DEFINE b == Buffered(said)
             fs == FocusStart(b)
             n == TargetFrames(b)
             r == Resolution * n
             win == NewWindow(said)
  <1>1. /\ fs \in Int /\ n \in Int /\ r \in Int
        /\ pos # 0 => fs = WindowEnd
        /\ 2 * r <= 2 * (WindowEnd + step - fs) + Resolution
        /\ 2 * (WindowEnd + step - fs) < 2 * r + Resolution
    BY WindowFacts
  <1>2. step \in Nat \ {0} /\ pos \in Nat /\ WindowEnd \in Int
    BY CommandLine
  <1>3. /\ HalfFrame \in Nat \ {0} /\ Resolution = HalfFrame + HalfFrame
    BY Parameters
  <1>4. n \in Nat /\ 1 \in 1 .. n /\ n \in 1 .. n
    BY <1>1
  <1>5. win = Aggregate(b, fs, n)
    BY DEF NewWindow
  <1> HIDE DEF b, fs, n, win
  <1>6. /\ win \in Seq(Frame) /\ Len(win) = n /\ DOMAIN win = 1 .. n
        /\ \A i \in 1 .. n : win[i].time \in Int /\ win[i].time = fs + (2 * i - 1) * HalfFrame
        /\ \A i \in 1 .. n - 1 : win[i + 1].time - win[i].time = Resolution
        /\ \A i, j \in 1 .. n : i < j => win[i].time < win[j].time
    <2> DEFINE a == Aggregate(b, fs, n)
    <2>1. /\ a \in Seq(Frame) /\ Len(a) = n /\ DOMAIN a = 1 .. n
          /\ \A i \in 1 .. n : a[i].time \in Int /\ a[i].time = fs + (2 * i - 1) * HalfFrame
          /\ \A i \in 1 .. n - 1 : a[i + 1].time - a[i].time = Resolution
          /\ \A i, j \in 1 .. n : i < j => a[i].time < a[j].time
      <3>1. fs \in Int /\ n \in Nat
        BY <1>1, <1>4
      <3>2. /\ a \in Seq(Frame) /\ Len(a) = n /\ DOMAIN a = 1 .. n
            /\ \A i \in 1 .. n : /\ a[i].time \in Int
                                 /\ a[i].time = fs + (2 * i - 1) * HalfFrame
                                 /\ a[i].heard = (Voters(b, fs, i - 1) # {})
            /\ \A i \in 1 .. n - 1 : a[i + 1].time - a[i].time = Resolution
            /\ \A i, j \in 1 .. n : i < j => a[i].time < a[j].time
        BY ONLY <3>1, AggregateFacts
      <3> HIDE DEF a
      <3> QED
        BY ONLY <3>2
    <2>2. win = a
      BY <1>5
    <2> HIDE DEF a
    <2> QED
      BY <2>1, <2>2
  <1>7. win # << >> /\ Last(win) = win[n]
    BY <1>4, <1>6, ListFacts DEF Last
  <1>8. Increasing(win)
    BY <1>6 DEF Increasing
  <1>9. Tiled(win)
    <2>1. Resolution \in HalfFrame .. 3 * HalfFrame
      BY <1>3
    <2> QED
      BY <2>1, <1>6 DEF Tiled
  <1>10. win[1].time = fs + HalfFrame
    <2>1. win[1].time = fs + (2 * 1 - 1) * HalfFrame
      BY <1>4, <1>6
    <2> QED
      BY <2>1, <1>3
  <1>11. win[n].time = fs + r - HalfFrame /\ win[n].time \in Int
    <2>1. win[n].time = fs + (2 * n - 1) * HalfFrame /\ win[n].time \in Int
      BY <1>4, <1>6
    <2>2. (2 * n - 1) * HalfFrame = (HalfFrame + HalfFrame) * n - HalfFrame
      BY <1>3, <1>4
    <2>3. (2 * n - 1) * HalfFrame = r - HalfFrame
      BY <2>2, <1>3
    <2>4. (2 * n - 1) * HalfFrame \in Int
      BY <1>3, <1>4
    <2> HIDE DEF r
    <2> QED
      BY <2>1, <2>3, <2>4, <1>1, <1>3
  <1>12. Resolution <= r
    <2>1. 1 * Resolution <= n * Resolution /\ n * Resolution = Resolution * n
      BY <1>4, Monotonic, Parameters
    <2> QED
      BY <2>1, Parameters
  <1> HIDE DEF r
  <1>13. /\ WindowEnd + step - Resolution < win[n].time
         /\ win[n].time <= WindowEnd + step
    BY <1>1, <1>2, <1>3, <1>11
  <1>14. pos # 0 => HalfFrame <= step
    BY <1>1, <1>2, <1>3, <1>12
  <1> QED
    BY <1>6, <1>7, <1>8, <1>9, <1>10, <1>11, <1>13, <1>14 DEF b, fs, win

(* What a chunk emits. *)
LEMMA Emitted ==
  ASSUME NEW said, ProcessChunk(said)
  PROVE  LET b == Buffered(said)
             empty == TargetFrames(b) <= 0
         IN  /\ pos' = pos + step /\ step' = step /\ latency' = latency /\ done' = done /\ ~done
             /\ chunks' = Append(chunks, NewChunk(said))
             /\ empty => frames' = frames /\ track' = track
             /\ ~empty => /\ frames' = frames \o NewWindow(said)
                          /\ track' = [s \in Speaker |-> Follow(track[s], NewWindow(said), s)]
  BY DEF ProcessChunk, Buffered, NewChunk, NewWindow

(* The windows tile the time axis. *)
LEMMA TimeStep ==
  ASSUME TypeInv, BufferInv, TimeInv,
         NEW said \in [Frames -> SUBSET Speaker], ProcessChunk(said)
  PROVE  TimeInv' /\ frames' \in Seq(Frame)
  <1> DEFINE n == TargetFrames(Buffered(said))
             win == NewWindow(said)
  <1>1. /\ pos' = pos + step /\ step' = step /\ latency' = latency
        /\ n <= 0 => frames' = frames
        /\ ~(n <= 0) => frames' = frames \o win
    BY Emitted
  <1>2. step \in Nat \ {0} /\ pos \in Nat /\ WindowEnd \in Int /\ frames \in Seq(Frame)
    <2>1. frames \in Seq(Frame)
      BY DEF TypeInv
    <2> QED
      BY <2>1, CommandLine
  <1>3. pos' # 0
    BY <1>1, <1>2
  <1>4. WindowEnd' = WindowEnd + step
    <2>1. latency \in Nat
      BY CommandLine
    <2> QED
      BY <2>1, <1>1, <1>2, Parameters DEF WindowEnd
  <1>5. Increasing(frames) /\ Tiled(frames)
    BY DEF TimeInv, TimeAxisTiled, Tiled
  <1>6. CASE n <= 0
    <2>1. frames' = frames
      BY <1>1, <1>6
    <2>2. HalfFrame <= step => frames = << >>
      <3>1. HalfFrame <= step => pos = 0
        BY <1>6, EmptyWindow
      <3> QED
        BY <3>1 DEF TimeInv
    <2>3. Increasing(frames') /\ TimeAxisTiled'
      BY <2>1, <1>5 DEF TimeAxisTiled, Tiled
    <2> QED
      BY <2>1, <2>2, <2>3, <1>1, <1>2, <1>3 DEF TimeInv
  <1>7. CASE ~(n <= 0)
    <2>1. frames' = frames \o win
      BY <1>1, <1>7
    <2>2. /\ win \in Seq(Frame) /\ win # << >> /\ Increasing(win) /\ Tiled(win)
          /\ win[1].time = FocusStart(Buffered(said)) + HalfFrame
          /\ Last(win).time \in Int
          /\ WindowEnd + step - Resolution < Last(win).time
          /\ Last(win).time <= WindowEnd + step
          /\ pos # 0 => HalfFrame <= step
      BY <1>7, NewWindowFacts
    <2>3. pos # 0 => FocusStart(Buffered(said)) = WindowEnd
      BY WindowFacts
    <2> HIDE DEF win, n
    <2>4. frames # << >> => win[1].time - Last(frames).time \in HalfFrame .. 3 * HalfFrame
      <3> SUFFICES ASSUME frames # << >>
                   PROVE  win[1].time - Last(frames).time \in HalfFrame .. 3 * HalfFrame
        OBVIOUS
      <3>1. pos # 0 /\ HalfFrame <= step
        BY <2>2 DEF TimeInv
      <3>2. WindowEnd - Resolution < Last(frames).time /\ Last(frames).time <= WindowEnd
        BY <3>1 DEF TimeInv
      <3>3. win[1].time = WindowEnd + HalfFrame
        BY <3>1, <2>2, <2>3
      <3>4. Last(frames).time \in Int
        <4>1. Len(frames) \in DOMAIN frames
          BY <1>2, ListFacts
        <4> QED
          BY <4>1, <1>2, <2>2, JoinFacts DEF Last
      <3> QED
        BY <3>2, <3>3, <3>4, <1>2, Parameters
    <2>5. /\ Increasing(frames \o win) /\ Tiled(frames \o win)
          /\ Last(frames \o win) = Last(win)
      BY <2>2, <2>4, <1>2, <1>5, JoinTiled
    <2>6. frames' \in Seq(Frame)
      BY <2>1, <2>2, <1>2, ConcatProperties
    <2>7. TimeAxisTiled'
      BY <2>1, <2>5 DEF TimeAxisTiled, Tiled
    <2>8. /\ WindowEnd' - Resolution < Last(frames').time
          /\ Last(frames').time <= WindowEnd'
      <3>1. Last(frames') = Last(win)
        BY <2>1, <2>5
      <3> QED
        BY <3>1, <2>2, <1>2, <1>4, Parameters
    <2>9. Increasing(frames')
      BY <2>1, <2>5
    <2> QED
      BY <2>6, <2>7, <2>8, <2>9, <1>3 DEF TimeInv
  <1> QED
    BY <1>6, <1>7
-----------------------------------------------------------------------------
(* With step <= latency <= duration every frame is heard.                  *)

(* Then the first window is not empty either. *)
LEMMA SomeFrames ==
  ASSUME TypeInv, BufferInv, NEW said \in [Frames -> SUBSET Speaker],
         HalfFrame <= step, latency <= Duration
  PROVE  ~(TargetFrames(Buffered(said)) <= 0)
  <1> DEFINE fs == FocusStart(Buffered(said))
             n == TargetFrames(Buffered(said))
  <1>1. /\ n \in Int /\ fs \in Int /\ Resolution * n \in Int
        /\ pos = 0 => fs = 0
        /\ 2 * (WindowEnd + step - fs) < 2 * (Resolution * n) + Resolution
    BY WindowFacts
  <1>2. step \in Nat \ {0} /\ latency \in Nat /\ pos \in Nat
    BY CommandLine
  <1>3. ASSUME n <= 0 PROVE FALSE
    <2>1. pos = 0
      BY <1>3, EmptyWindow
    <2> HIDE DEF fs, n
    <2>2. WindowEnd = Duration - latency
      BY <2>1, <1>2, Parameters DEF WindowEnd
    <2>3. n * Resolution <= 0 * Resolution /\ n * Resolution = Resolution * n
      BY <1>1, <1>3, Monotonic, Parameters
    <2> QED
      BY <2>1, <2>2, <2>3, <1>1, <1>2, Parameters
  <1> QED
    BY <1>3

(* The newest chunk votes in every frame of its window. *)
LEMMA NewestVotes ==
  ASSUME TypeInv, BufferInv, NEW said \in [Frames -> SUBSET Speaker],
         step <= latency, latency <= Duration,
         NEW i \in 1 .. TargetFrames(Buffered(said))
  PROVE  Voters(Buffered(said), FocusStart(Buffered(said)), i - 1) # {}
  <1> DEFINE b == Buffered(said)
             fs == FocusStart(b)
             n == TargetFrames(b)
             r == Resolution * n
             x == NewChunk(said)
             q == (fs - pos) \div Resolution
  <1>1. /\ fs \in Int /\ n \in Int /\ r \in Int
        /\ pos = 0 => fs = 0
        /\ pos # 0 => fs = WindowEnd
        /\ 2 * r <= 2 * (WindowEnd + step - fs) + Resolution
    BY WindowFacts
  <1>2. step \in Nat \ {0} /\ latency \in Nat /\ pos \in Nat
    BY CommandLine
  <1>3. /\ HalfFrame \in Nat \ {0} /\ Resolution = HalfFrame + HalfFrame
        /\ Resolution \in Nat \ {0} /\ NumFrames \in Nat \ {0}
        /\ Duration = NumFrames * Resolution /\ Duration \in Nat
    BY Parameters
  <1>4. x \in ToSet(b)
    <2>1. /\ Len(pred_buffer) \in Nat /\ Len(b) = Len(pred_buffer) + 1
          /\ DOMAIN b = 1 .. Len(b) /\ b[Len(pred_buffer) + 1] = x
      BY BufferedFacts
    <2> HIDE DEF b, x
    <2>2. Len(pred_buffer) + 1 \in DOMAIN b
      BY <2>1
    <2> QED
      BY <2>1, <2>2 DEF ToSet
  <1>5. i \in 1 .. n
    OBVIOUS
  <1>6. Source(x, fs, i - 1) = q + (i - 1)
    BY DEF Source, NewChunk
  <1> HIDE DEF b, fs, n, x
  <1>7. WindowEnd = pos + Duration - latency
    BY DEF WindowEnd
  <1>8. fs - pos \in Nat
    BY <1>1, <1>2, <1>3, <1>7
  <1>9. q \in Int /\ Resolution * q \in Int /\ Resolution * q <= fs - pos /\ 0 <= q
    <2>1. 0 * Resolution <= fs - pos
      BY <1>3, <1>8
    <2> QED
      <3> DEFINE a == fs - pos
      <3>1. a \in Int /\ 0 * Resolution <= a /\ Resolution \in Nat \ {0} /\ 0 \in Nat
        BY <2>1, <1>3, <1>8
      <3> HIDE DEF a
      <3>2. /\ a \div Resolution \in Int /\ Resolution * (a \div Resolution) \in Int
            /\ Resolution * (a \div Resolution) <= a
        BY <3>1, Quotient
      <3>3. 0 <= a \div Resolution
        BY <3>1, QuotientAtLeast
      <3> QED
        BY <3>2, <3>3 DEF a
  <1> HIDE DEF q
  <1>10. r + Resolution * q <= Duration + HalfFrame
    <2> HIDE DEF r
    <2> QED
      BY <1>1, <1>2, <1>3, <1>7, <1>8, <1>9
  <1>11. ASSUME NumFrames + 1 <= q + n PROVE FALSE
    <2>1. (NumFrames + 1) * Resolution <= (q + n) * Resolution
      BY <1>1, <1>3, <1>9, <1>11, Monotonic
    <2>2. (NumFrames + 1) * Resolution = Duration + Resolution
      BY <1>3
    <2>3. (q + n) * Resolution = r + Resolution * q
      BY <1>1, <1>3, <1>9
    <2> HIDE DEF r
    <2> QED
      BY <2>1, <2>2, <2>3, <1>1, <1>3, <1>9, <1>10
  <1>12. q + (i - 1) \in Frames
    BY <1>1, <1>3, <1>5, <1>9, <1>11 DEF Frames
  <1>13. x \in Voters(b, fs, i - 1)
    BY <1>4, <1>6, <1>12 DEF Voters
  <1> QED
    BY <1>13 DEF b, fs

(* The frames are heard, and they begin with the recording. *)
LEMMA HeardStep ==
  ASSUME TypeInv, BufferInv, TimeInv, HeardInv,
         NEW said \in [Frames -> SUBSET Speaker], ProcessChunk(said)
  PROVE  HeardInv'
  <1> DEFINE n == TargetFrames(Buffered(said))
             fs == FocusStart(Buffered(said))
             win == NewWindow(said)
  <1>1. /\ pos' = pos + step /\ step' = step /\ latency' = latency
        /\ ~(n <= 0) => frames' = frames \o win
    BY Emitted
  <1>2. SUFFICES ASSUME HalfFrame <= step, step <= latency, latency <= Duration
                 PROVE  /\ \A i \in DOMAIN frames' : frames'[i].heard
                        /\ frames' # << >> /\ frames'[1].time = HalfFrame
    BY <1>1 DEF HeardInv
  <1>3. ~(n <= 0)
    BY <1>2, SomeFrames
  <1>4. /\ win \in Seq(Frame) /\ win # << >>
        /\ win[1].time = fs + HalfFrame
    BY <1>3, NewWindowFacts
  <1>5. /\ fs \in Int /\ n \in Int
        /\ pos = 0 => fs = 0
    BY WindowFacts
  <1>6. /\ Len(win) = n
        /\ \A i \in 1 .. n : win[i].heard
    <2> DEFINE b == Buffered(said)
               a == Aggregate(b, fs, n)
    <2>1. n \in Nat
      BY <1>3, <1>5
    <2>2. \A i \in 1 .. n : Voters(b, fs, i - 1) # {}
      BY <1>2, NewestVotes
    <2>3. win = a
      BY DEF NewWindow
    <2> HIDE DEF b, fs, n, win
    <2>4. Len(a) = n /\ \A i \in 1 .. n : a[i].heard = (Voters(b, fs, i - 1) # {})
      <3>1. Len(a) = n
        BY <2>1, <1>5, AggregateFacts
      <3>2. \A i \in 1 .. n : a[i].heard = (Voters(b, fs, i - 1) # {})
        BY <2>1, <1>5 DEF Aggregate
      <3> QED
        BY <3>1, <3>2
    <2> HIDE DEF a
    <2> QED
      BY <2>2, <2>3, <2>4
  <1>7. frames \in Seq(Frame) /\ pos \in Nat
    BY DEF TypeInv
  <1>8. frames' = frames \o win
    BY <1>1, <1>3
  <1>9. /\ \A i \in DOMAIN frames : frames[i].heard
        /\ pos # 0 => frames # << >> /\ frames[1].time = HalfFrame
        /\ pos = 0 => frames = << >>
    <2>1. pos # 0 => pos > 0
      BY <1>7
    <2> QED
      BY <2>1, <1>2 DEF HeardInv, TimeInv
  <1> HIDE DEF n, fs, win
  <1> DEFINE all == frames \o win
             l == Len(frames)
  <1>10. /\ l \in Nat /\ DOMAIN frames = 1 .. l
         /\ Len(win) \in Nat
         /\ DOMAIN all = 1 .. l + Len(win) /\ Len(all) = l + Len(win) /\ all \in Seq(Frame)
         /\ \A i \in 1 .. l : all[i] = frames[i]
         /\ \A i \in 1 .. Len(win) : all[l + i] = win[i]
    BY <1>4, <1>7, JoinFacts
  <1>11. Len(win) # 0 /\ (l = 0 <=> frames = << >>)
    BY <1>4, <1>7, ListFacts
  <1>12. all # << >>
    <2> HIDE DEF all, l
    <2>1. Len(all) # 0
      BY <1>10, <1>11
    <2> QED
      BY <2>1, <1>10, ListFacts
  <1> HIDE DEF all, l
  <1>13. \A i \in DOMAIN all : all[i].heard
    <2> SUFFICES ASSUME NEW i \in 1 .. l + Len(win) PROVE all[i].heard
      BY <1>10
    <2>1. CASE i \in 1 .. l
      BY <2>1, <1>9, <1>10
    <2>2. CASE i \notin 1 .. l
      <3>1. i - l \in 1 .. Len(win) /\ l + (i - l) = i
        BY <2>2, <1>10
      <3>2. all[l + (i - l)] = win[i - l] /\ win[i - l].heard
        BY <3>1, <1>6, <1>10
      <3> QED
        BY <3>1, <3>2
    <2> QED
      BY <2>1, <2>2
  <1>14. all[1].time = HalfFrame
    <2>1. CASE pos = 0
      <3>1. l = 0 /\ 1 \in 1 .. Len(win) /\ l + 1 = 1
        BY <2>1, <1>9, <1>10, <1>11
      <3>2. all[1] = win[1]
        BY <3>1, <1>10
      <3> QED
        BY <3>2, <2>1, <1>4, <1>5, Parameters
    <2>2. CASE pos # 0
      <3>1. 1 \in 1 .. l
        BY <2>2, <1>9, <1>10, <1>11
      <3> QED
        BY <3>1, <2>2, <1>9, <1>10
    <2> QED
      BY <2>1, <2>2
  <1> QED
    BY <1>8, <1>12, <1>13, <1>14 DEF all
-----------------------------------------------------------------------------
(* The segments.                                                           *)

(* The trackers follow the frames of a chunk. *)
LEMMA TrackStep ==
  ASSUME TypeInv, BufferInv, TimeInv, TrackInv,
         NEW said \in [Frames -> SUBSET Speaker], ProcessChunk(said)
  PROVE  TrackInv' /\ track' \in [Speaker -> TrackRecord]
  <1> DEFINE n == TargetFrames(Buffered(said))
             win == NewWindow(said)
  <1>1. /\ done' = FALSE /\ ~done
        /\ n <= 0 => frames' = frames /\ track' = track
        /\ ~(n <= 0) => /\ frames' = frames \o win
                        /\ track' = [s \in Speaker |-> Follow(track[s], win, s)]
    <2>1. done \in BOOLEAN /\ done' = done /\ ~done
      BY Emitted DEF TypeInv
    <2> QED
      BY <2>1, Emitted
  <1>2. frames \in Seq(Frame) /\ track \in [Speaker -> TrackRecord]
    BY DEF TypeInv
  <1>3. \A s \in Speaker : Tracks(track[s], frames, Len(frames), s)
    BY <1>1 DEF TrackInv
  <1>4. Increasing(frames')
    BY TimeStep DEF TimeInv
  <1>5. ~(n <= 0) => win \in Seq(Frame)
    BY NewWindowFacts
  <1> HIDE DEF n, win
  <1>6. CASE n <= 0
    <2>1. frames' = frames /\ track' = track
      BY <1>1, <1>6
    <2> QED
      BY <2>1, <1>1, <1>2, <1>3 DEF TrackInv
  <1>7. CASE ~(n <= 0)
    <2>1. /\ frames' = frames \o win
          /\ track' = [s \in Speaker |-> Follow(track[s], win, s)]
      BY <1>1, <1>7
    <2>2. ASSUME NEW s \in Speaker
          PROVE  Tracks(track'[s], frames', Len(frames'), s)
      <3>1. Increasing(frames \o win) /\ win \in Seq(Frame)
        BY <2>1, <1>4, <1>5, <1>7
      <3>2. Tracks(Follow(track[s], win, s), frames \o win, Len(frames \o win), s)
        BY <3>1, <1>2, <1>3, TrackWindow
      <3>3. track'[s] = Follow(track[s], win, s)
        BY <2>1
      <3> QED
        BY <3>2, <3>3, <2>1
    <2>3. \A s \in Speaker : track'[s] \in TrackRecord
      BY <2>2 DEF Tracks
    <2>4. track' \in [Speaker -> TrackRecord]
      BY <2>1, <2>3
    <2> QED
      BY <2>2, <2>4, <1>1 DEF TrackInv
  <1> QED
    BY <1>6, <1>7

(* The last segment is printed up to the end of the recording. *)
LEMMA FlushFacts ==
  ASSUME NEW fr \in Seq(Frame), NEW s, NEW r, Tracks(r, fr, Len(fr), s)
  PROVE  /\ Flushed(r) \in TrackRecord
         /\ \A i \in DOMAIN fr : fr[i].time < AudioEnd =>
                (s \in fr[i].active <=> InSegment(Flushed(r).printed, fr[i].time))
  <1> DEFINE p == r.printed
             b == <<r.start, AudioEnd>>
  <1>1. /\ r \in TrackRecord /\ p \in Seq(Segment) /\ r.start \in Int /\ r.on \in BOOLEAN
    BY DEF Tracks, TrackRecord
  <1>2. /\ Len(fr) \in Nat /\ DOMAIN fr = 1 .. Len(fr)
        /\ \A i \in DOMAIN fr : fr[i].time \in Int
    <2>1. \A x \in Frame : x.time \in Int
      BY DEF Frame
    <2> QED
      BY <2>1, ListFacts
  <1>3. \A i \in DOMAIN fr : s \in fr[i].active <=>
            InSegment(p, fr[i].time) \/ (r.on /\ r.start <= fr[i].time)
    BY <1>2 DEF Tracks
  <1>4. CASE ~r.on
    <2>1. Flushed(r) = r
      BY <1>4 DEF Flushed
    <2> QED
      BY <2>1, <1>1, <1>3, <1>4
  <1>5. CASE r.on
    <2>1. b \in Segment /\ b[1] = r.start /\ b[2] = AudioEnd
      BY <1>1, TimesAssumption DEF Segment
    <2> DEFINE q == Append(p, b)
               l == Len(p)
    <2>2. Flushed(r) = [r EXCEPT !.on = FALSE, !.printed = Append(p, b)]
      BY <1>5 DEF Flushed, Close
    <2> HIDE DEF b
    <2>3. /\ q \in Seq(Segment) /\ Len(q) = l + 1
          /\ \A i \in 1 .. l : q[i] = p[i]
          /\ q[l + 1] = b
      BY <2>1, <1>1, AppendProperties
    <2>4. l \in Nat /\ DOMAIN p = 1 .. l
      BY <1>1, ListFacts
    <2> HIDE DEF p
    <2>5. Flushed(r) \in TrackRecord /\ Flushed(r).printed = q
      BY <2>2, <2>3, <1>1 DEF TrackRecord
    <2> HIDE DEF q, l
    <2>6. DOMAIN q = 1 .. l + 1
      BY <2>3, <2>4, ListFacts
    <2>7. \A time \in Int : InSegment(q, time) <=>
              InSegment(p, time) \/ (r.start <= time /\ time < AudioEnd)
      <3>1. \A i \in 1 .. l + 1 : i \in 1 .. l \/ i = l + 1
        BY <2>4
      <3>2. l + 1 \in 1 .. l + 1 /\ 1 .. l \subseteq 1 .. l + 1
        BY <2>4
      <3> SUFFICES ASSUME NEW time \in Int
                   PROVE  InSegment(q, time) <=>
                             InSegment(p, time) \/ (r.start <= time /\ time < AudioEnd)
        OBVIOUS
      <3>3. InSegment(q, time) => InSegment(p, time) \/ (r.start <= time /\ time < AudioEnd)
        BY <3>1, <2>1, <2>3, <2>4, <2>6 DEF InSegment
      <3>4. InSegment(p, time) => InSegment(q, time)
        BY <3>2, <2>3, <2>4, <2>6 DEF InSegment
      <3>5. r.start <= time /\ time < AudioEnd => InSegment(q, time)
        BY <3>2, <2>1, <2>3, <2>6 DEF InSegment
      <3> QED
        BY <3>3, <3>4, <3>5
    <2> QED
      BY <2>5, <2>7, <1>2, <1>3, <1>5
  <1> QED
    BY <1>1, <1>4, <1>5

(* What the flush prints for a speaker comes behind all his segments, and  *)
(* is turned round only if it begins behind the recording.                 *)
LEMMA FlushInOrder ==
  ASSUME NEW fr \in Seq(Frame), NEW s, NEW r, Tracks(r, fr, Len(fr), s)
  PROVE  LET q == Flushed(r).printed
         IN  /\ ~Flushed(r).on
             /\ \A i \in DOMAIN q :
                    \/ q[i][1] < q[i][2]
                    \/ i = Len(q) /\ AudioEnd <= q[i][1] /\ q[i][2] = AudioEnd
             /\ \A i \in 1 .. Len(q) - 1 : q[i][2] < q[i + 1][1]
  <1> DEFINE p == r.printed
             b == <<r.start, AudioEnd>>
             q == Append(p, b)
             l == Len(p)
  <1>1. /\ r \in TrackRecord /\ p \in Seq(Segment) /\ r.start \in Int /\ r.on \in BOOLEAN
        /\ Ordered(p) /\ (r.on /\ p # << >> => Last(p)[2] < r.start)
    BY DEF Tracks, TrackRecord
  <1>2. CASE ~r.on
    <2>1. Flushed(r) = r
      BY <1>2 DEF Flushed
    <2> QED
      BY <2>1, <1>1, <1>2 DEF Ordered
  <1>3. CASE r.on
    <2>1. b \in Segment /\ b[1] = r.start /\ b[2] = AudioEnd /\ AudioEnd \in Int
      BY <1>1, TimesAssumption DEF Segment
    <2>2. Flushed(r) = [r EXCEPT !.on = FALSE, !.printed = q]
      BY <1>3 DEF Flushed, Close
    <2> HIDE DEF b
    <2>3. /\ q \in Seq(Segment) /\ Len(q) = l + 1
          /\ \A i \in 1 .. l : q[i] = p[i]
          /\ q[l + 1] = b
      BY <2>1, <1>1, AppendProperties
    <2>4. l \in Nat /\ DOMAIN p = 1 .. l /\ (p # << >> <=> l # 0) /\ DOMAIN q = 1 .. l + 1
      BY <2>3, <1>1, ListFacts
    <2>5. Last(p) = p[l]
      BY DEF Last
    <2>6. /\ \A i \in 1 .. l : p[i][1] < p[i][2]
          /\ \A i \in 1 .. l - 1 : p[i][2] < p[i + 1][1]
          /\ l # 0 => p[l][2] < r.start
      BY <1>1, <1>3, <2>4, <2>5 DEF Ordered
    <2> HIDE DEF q, l, p
    <2>7. Flushed(r).printed = q /\ ~Flushed(r).on
      BY <2>2, <1>1 DEF TrackRecord
    <2>8. ASSUME NEW i \in 1 .. l + 1
          PROVE  \/ q[i][1] < q[i][2]
                 \/ i = l + 1 /\ AudioEnd <= q[i][1] /\ q[i][2] = AudioEnd
      <3>1. CASE i = l + 1
        BY <3>1, <1>1, <2>1, <2>3
      <3>2. CASE i \in 1 .. l
        BY <3>2, <2>3, <2>6
      <3> QED
        BY <2>4, <3>1, <3>2
    <2>9. ASSUME NEW i \in 1 .. l PROVE q[i][2] < q[i + 1][1]
      <3>1. CASE i = l
        BY <3>1, <2>1, <2>3, <2>4, <2>6
      <3>2. CASE i # l
        <4>1. i \in 1 .. l - 1 /\ i + 1 \in 1 .. l
          BY <2>4, <3>2
        <4> QED
          BY <4>1, <2>3, <2>6
      <3> QED
        BY <3>1, <3>2
    <2>10. Len(q) - 1 = l
      BY <2>3, <2>4
    <2> QED
      BY <2>3, <2>4, <2>7, <2>8, <2>9, <2>10
  <1> QED
    BY <1>1, <1>2, <1>3

(* The end of the loop. *)
LEMMA FinishStep ==
  ASSUME StreamInv, Finish
  PROVE  StreamInv'
  <1>1. /\ done' = TRUE /\ ~done /\ AudioEnd <= pos
        /\ track' = [s \in Speaker |-> Flushed(track[s])]
        /\ step' = step /\ latency' = latency /\ pos' = pos /\ pred_buffer' = pred_buffer
        /\ chunks' = chunks /\ window' = window /\ frames' = frames
    <2>1. pos \in Nat /\ AudioEnd \in Nat /\ ~(pos < AudioEnd)
      BY TimesAssumption DEF StreamInv, TypeInv, Finish, More
    <2> QED
      BY <2>1 DEF Finish
  <1>2. frames \in Seq(Frame)
    BY DEF StreamInv, TypeInv
  <1>3. \A s \in Speaker : Tracks(track[s], frames, Len(frames), s)
    BY <1>1 DEF StreamInv, TrackInv
  <1>4. \A s \in Speaker :
            /\ track'[s] \in TrackRecord
            /\ \A i \in DOMAIN frames : frames[i].time < AudioEnd =>
                  (s \in frames[i].active <=> InSegment(track'[s].printed, frames[i].time))
    <2> SUFFICES ASSUME NEW s \in Speaker
                 PROVE  /\ track'[s] \in TrackRecord
                        /\ \A i \in DOMAIN frames : frames[i].time < AudioEnd =>
                              (s \in frames[i].active <=> InSegment(track'[s].printed, frames[i].time))
      OBVIOUS
    <2>1. track'[s] = Flushed(track[s])
      BY <1>1
    <2>2. /\ Flushed(track[s]) \in TrackRecord
          /\ \A i \in DOMAIN frames : frames[i].time < AudioEnd =>
                (s \in frames[i].active <=> InSegment(Flushed(track[s]).printed, frames[i].time))
      BY <1>2, <1>3, FlushFacts
    <2> QED
      BY <2>1, <2>2
  <1>5. track' \in [Speaker -> TrackRecord]
    BY <1>1, <1>4
  <1>6. TypeInv'
    BY <1>1, <1>5 DEF StreamInv, TypeInv
  <1>7. BufferInv'
    <2>1. NumOverlapping' = NumOverlapping
      BY <1>1 DEF NumOverlapping, Round
    <2> QED
      BY <2>1, <1>1 DEF StreamInv, BufferInv
  <1>8. BufferSuffices'
    BY <1>1 DEF StreamInv, BufferSuffices
  <1>9. TimeInv'
    BY <1>1 DEF StreamInv, TimeInv, TimeAxisTiled, WindowEnd
  <1>10. HeardInv'
    BY <1>1 DEF StreamInv, HeardInv
  <1>11. SegmentsMatchFrames'
    BY <1>1, <1>4 DEF SegmentsMatchFrames, InSegment
  <1>12. SegmentsInOrder'
    <2> SUFFICES ASSUME NEW s \in Speaker
                 PROVE  LET p == track'[s].printed
                        IN  /\ \A i \in DOMAIN p :
                                   \/ p[i][1] < p[i][2]
                                   \/ done' /\ i = Len(p) /\ AudioEnd <= p[i][1] /\ p[i][2] = AudioEnd
                            /\ \A i \in 1 .. Len(p) - 1 : p[i][2] < p[i + 1][1]
                            /\ track'[s].on /\ p # << >> => Last(p)[2] < track'[s].start
      BY DEF SegmentsInOrder, OpenedInPadding
    <2>1. track'[s] = Flushed(track[s])
      BY <1>1
    <2>2. LET q == Flushed(track[s]).printed
          IN  /\ ~Flushed(track[s]).on
              /\ \A i \in DOMAIN q :
                     \/ q[i][1] < q[i][2]
                     \/ i = Len(q) /\ AudioEnd <= q[i][1] /\ q[i][2] = AudioEnd
              /\ \A i \in 1 .. Len(q) - 1 : q[i][2] < q[i + 1][1]
      BY <1>2, <1>3, FlushInOrder
    <2> QED
      BY <2>1, <2>2, <1>1
  <1>13. TrackInv'
    BY <1>1, <1>11, <1>12 DEF TrackInv
  <1> QED
    BY <1>6, <1>7, <1>8, <1>9, <1>10, <1>13 DEF StreamInv
-----------------------------------------------------------------------------
(* The theorems.                                                           *)

(* The invariant holds at the start. *)
LEMMA StreamInit == Init => StreamInv
  <1> SUFFICES ASSUME Init PROVE StreamInv
    OBVIOUS
  <1>1. /\ step \in Steps /\ latency \in Latencies /\ pos = 0 /\ done = FALSE
        /\ pred_buffer = << >> /\ chunks = << >> /\ window = << >> /\ frames = << >>
        /\ track = [s \in Speaker |-> [on |-> FALSE, start |-> 0, printed |-> << >>]]
    BY DEF Init
  <1>2. step \in Nat \ {0} /\ latency \in Nat
    BY <1>1, TimesAssumption
  <1>3. \A T : << >> \in Seq(T) /\ Len(<< >>) = 0 /\ DOMAIN << >> = {}
    OBVIOUS
  <1>4. TypeInv
    <2> DEFINE r == [on |-> FALSE, start |-> 0, printed |-> << >>]
    <2>1. r \in TrackRecord
      BY <1>3 DEF TrackRecord
    <2>2. track = [s \in Speaker |-> r]
      BY <1>1
    <2> HIDE DEF r
    <2>3. track \in [Speaker -> TrackRecord]
      BY <2>1, <2>2
    <2> QED
      BY <2>3, <1>1, <1>3 DEF TypeInv
  <1>5. BufferInv
    <2>1. NumOverlapping \in Nat
      BY <1>2, OverlapFacts
    <2>2. /\ pos = Len(chunks) * step
          /\ \A i \in DOMAIN chunks : chunks[i].start = (i - 1) * step
          /\ Len(chunks) - Len(pred_buffer) = 0
          /\ \A i \in DOMAIN pred_buffer :
                pred_buffer[i] = chunks[(Len(chunks) - Len(pred_buffer)) + i]
          /\ Len(pred_buffer) <= NumOverlapping
      BY <2>1, <1>1, <1>2, <1>3
    <2> QED
      BY <2>2 DEF BufferInv
  <1>6. BufferSuffices
    BY <1>1 DEF BufferSuffices
  <1>7. TimeInv
    BY <1>1, <1>3 DEF TimeInv, Increasing, TimeAxisTiled
  <1>8. HeardInv
    BY <1>1, <1>3 DEF HeardInv
  <1>9. TrackInv
    <2> SUFFICES ASSUME NEW s \in Speaker PROVE Tracks(track[s], frames, Len(frames), s)
      BY <1>1 DEF TrackInv
    <2>1. track[s] \in TrackRecord /\ ~track[s].on /\ track[s].printed = << >> /\ Len(frames) = 0
      BY <1>1, <1>3 DEF TrackRecord
    <2> QED
      BY <2>1, <1>3 DEF Tracks, Ordered
  <1> QED
    BY <1>4, <1>5, <1>6, <1>7, <1>8, <1>9 DEF StreamInv

(* Every chunk, and the end of the loop, keeps the invariant. *)
LEMMA StreamNext == StreamInv /\ [Next]_vars => StreamInv'
  <1> SUFFICES ASSUME StreamInv, [Next]_vars PROVE StreamInv'
    OBVIOUS
  <1>1. ASSUME NEW said \in [Frames -> SUBSET Speaker], ProcessChunk(said)
        PROVE  StreamInv'
    <2>1. TypeInv /\ BufferInv /\ TimeInv /\ HeardInv /\ TrackInv
      BY DEF StreamInv
    <2>2. /\ step' = step /\ latency' = latency /\ pos' = pos + step /\ done' = done
          /\ chunks' = Append(chunks, NewChunk(said))
      BY <1>1, Emitted
    <2>3. BufferInv' /\ pred_buffer' \in Seq(Prediction)
      BY <2>1, <1>1, BufferStep
    <2>4. BufferSuffices'
      BY <2>1, <1>1, WindowStep
    <2>5. TimeInv' /\ frames' \in Seq(Frame)
      BY <2>1, <1>1, TimeStep
    <2>6. HeardInv'
      BY <2>1, <1>1, HeardStep
    <2>7. TrackInv' /\ track' \in [Speaker -> TrackRecord]
      BY <2>1, <1>1, TrackStep
    <2>8. chunks' \in Seq(Prediction)
      BY <2>1, <2>2, BufferedFacts
    <2>9. pos' \in Nat
      BY <2>1, <2>2, CommandLine
    <2>10. TypeInv'
      BY <2>1, <2>2, <2>3, <2>5, <2>7, <2>8, <2>9 DEF TypeInv
    <2> QED
      BY <2>3, <2>4, <2>5, <2>6, <2>7, <2>10 DEF StreamInv
  <1>2. CASE UNCHANGED vars
    <2>1. /\ step' = step /\ latency' = latency /\ pos' = pos /\ pred_buffer' = pred_buffer
          /\ track' = track /\ done' = done /\ chunks' = chunks /\ window' = window
          /\ frames' = frames
      BY <1>2 DEF vars
    <2>2. NumOverlapping' = NumOverlapping
      BY <2>1 DEF NumOverlapping, Round
    <2>3. TypeInv' /\ BufferSuffices' /\ HeardInv'
      BY <2>1 DEF StreamInv, TypeInv, BufferSuffices, HeardInv
    <2>4. BufferInv'
      BY <2>1, <2>2 DEF StreamInv, BufferInv
    <2>5. TimeInv'
      BY <2>1 DEF StreamInv, TimeInv, TimeAxisTiled, WindowEnd
    <2>6. TrackInv'
      BY <2>1 DEF StreamInv, TrackInv, SegmentsMatchFrames, SegmentsInOrder, OpenedInPadding
    <2> QED
      BY <2>3, <2>4, <2>5, <2>6 DEF StreamInv
  <1> QED
    BY <1>1, <1>2, FinishStep DEF Next, Ended

(* The invariant of the streaming loop, for every recording, network       *)
(* output, step and latency.                                               *)
THEOREM StreamInvariance == Spec => []StreamInv
  BY StreamInit, StreamNext, PTL DEF Spec

(* num_overlapping_chunks keeps every chunk that overlaps a focus window:  *)
(* the averages over the buffer are those over all chunks so far.          *)
THEOREM BufferSufficient == Spec => []BufferSuffices
  <1>1. StreamInv => BufferSuffices
    BY DEF StreamInv
  <1> QED
    BY <1>1, StreamInvariance, PTL

(* Rounding each focus window to whole frames never adds up: the times of  *)
(* the frames emitted go on by half a frame to three halves of a frame.    *)
THEOREM AxisTiled == Spec => []TimeAxisTiled
  <1>1. StreamInv => TimeAxisTiled
    BY DEF StreamInv, TimeInv
  <1> QED
    BY <1>1, StreamInvariance, PTL

(* The segments printed for a speaker do not overlap, and have their start *)
(* before their stop; only one that was opened in the padding of the last  *)
(* chunk and is flushed at the end of the recording is turned round.       *)
THEOREM PrintedInOrder == Spec => []SegmentsInOrder
  <1>1. StreamInv => SegmentsInOrder
    <2>1. StreamInv /\ ~done => SegmentsInOrder
      BY DEF StreamInv, TrackInv, Tracks, Ordered, SegmentsInOrder
    <2>2. StreamInv /\ done => SegmentsInOrder
      BY DEF StreamInv, TrackInv
    <2> QED
      BY <2>1, <2>2
  <1> QED
    BY <1>1, StreamInvariance, PTL

(* When the program ends, its output says of every frame inside the        *)
(* recording what the averaged predictions say.                            *)
THEOREM PrintedMatches == Spec => []SegmentsMatchFrames
  <1>1. StreamInv => SegmentsMatchFrames
    <2>1. StreamInv /\ done => SegmentsMatchFrames
      BY DEF StreamInv, TrackInv
    <2>2. ~done => SegmentsMatchFrames
      BY DEF SegmentsMatchFrames
    <2> QED
      BY <2>1, <2>2
  <1> QED
    BY <1>1, StreamInvariance, PTL

(* Types, with a bounded buffer. *)
LEMMA StreamTypes == StreamInv /\ HalfFrame <= step => TypeOK
  <1> SUFFICES ASSUME StreamInv, HalfFrame <= step PROVE TypeOK
    OBVIOUS
  <1>1. /\ step \in Steps /\ latency \in Latencies /\ pos \in Nat /\ done \in BOOLEAN
        /\ pred_buffer \in Seq(Prediction) /\ track \in [Speaker -> TrackRecord]
    BY DEF StreamInv, TypeInv
  <1>2. \A i \in DOMAIN pred_buffer : pred_buffer[i].said \in [Frames -> SUBSET Speaker]
    <2>1. \A x \in Prediction : x.said \in [Frames -> SUBSET Speaker]
      BY DEF Prediction
    <2> QED
      BY <2>1, <1>1, ListFacts
  <1>3. \A s \in Speaker : track[s].on \in BOOLEAN /\ track[s].start \in Int
    <2>1. \A x \in TrackRecord : x.on \in BOOLEAN /\ x.start \in Int
      BY DEF TrackRecord
    <2> QED
      BY <2>1, <1>1
  <1>4. Len(pred_buffer) <= NumOverlapping
    BY DEF StreamInv, BufferInv
  <1> QED
    BY <1>1, <1>2, <1>3, <1>4 DEF TypeOK

(* Type correctness; the chunk buffer does not grow with the recording.    *)
(* For a step below half a frame it would: no window after the first has   *)
(* frames, and only windows with frames drop a chunk.                      *)
THEOREM BoundedBuffer ==
  ASSUME \A x \in Steps : HalfFrame <= x
  PROVE  Spec => []TypeOK
  <1>1. StreamInv => TypeOK
    <2>1. StreamInv => HalfFrame <= step
      BY DEF StreamInv, TypeInv
    <2> QED
      BY <2>1, StreamTypes
  <1> QED
    BY <1>1, StreamInvariance, PTL

(* No moment is far from a frame. *)
LEMMA Near ==
  ASSUME StreamInv, HalfFrame <= step PROVE EverythingHeard
  <1> SUFFICES ASSUME done, step <= latency, latency <= Duration, NEW x \in 0 .. AudioEnd - 1,
                      \A i \in DOMAIN frames : ~(frames[i].time - x \in -Resolution .. Resolution)
               PROVE  FALSE
    <2>1. ASSUME done, step <= latency, latency <= Duration, NEW x \in 0 .. AudioEnd - 1
          PROVE  \E i \in DOMAIN frames :
                    frames[i].heard /\ frames[i].time - x \in -Resolution .. Resolution
      <3>1. \A i \in DOMAIN frames : frames[i].heard
        BY <2>1 DEF StreamInv, HeardInv
      <3>2. \E i \in DOMAIN frames : frames[i].time - x \in -Resolution .. Resolution
        BY <2>1
      <3> QED
        BY <3>1, <3>2
    <2> QED
      BY <2>1 DEF EverythingHeard
  <1> DEFINE n == Len(frames)
  <1>1. /\ AudioEnd \in Nat /\ x \in Nat /\ x < AudioEnd
        /\ HalfFrame \in Nat \ {0} /\ Resolution = HalfFrame + HalfFrame
    BY TimesAssumption, Parameters
  <1>2. latency \in Nat /\ pos \in Nat /\ AudioEnd <= pos /\ Duration \in Nat
    <2>1. TypeInv /\ AudioEnd <= pos
      BY DEF StreamInv, TrackInv
    <2> QED
      BY <2>1, CommandLine, Parameters
  <1>3. frames # << >> /\ frames[1].time = HalfFrame
    BY <1>1, <1>2 DEF StreamInv, HeardInv
  <1>4. /\ n \in Nat \ {0} /\ DOMAIN frames = 1 .. n
        /\ \A i \in 1 .. n : frames[i].time \in Int
    <2>1. frames \in Seq(Frame)
      BY DEF StreamInv, TypeInv
    <2>2. \A y \in Frame : y.time \in Int
      BY DEF Frame
    <2> QED
      BY <2>1, <2>2, <1>3, ListFacts
  <1>5. WindowEnd - Resolution < frames[n].time
    BY <1>3 DEF StreamInv, TimeInv, Last
  <1>6. AudioEnd <= WindowEnd /\ WindowEnd \in Int
    BY <1>1, <1>2 DEF WindowEnd
  <1>7. \A i \in 1 .. n - 1 : frames[i + 1].time - frames[i].time \in HalfFrame .. 3 * HalfFrame
    BY DEF StreamInv, TimeInv, TimeAxisTiled
  <1>8. \A i \in 1 .. n : frames[i].time < x - Resolution \/ x + Resolution < frames[i].time
    BY <1>1, <1>4, SMTT(60)
  <1> HIDE DEF n
  <1> DEFINE S == {i \in 0 .. n - 1 : frames[i + 1].time < x - Resolution}
  <1>9. 0 \in S
    <2>1. 0 \in 0 .. n - 1 /\ 0 + 1 = 1 /\ 1 \in 1 .. n
      BY <1>4
    <2>2. frames[1].time < x - Resolution
      BY <2>1, <1>1, <1>3, <1>8
    <2> QED
      BY <2>1, <2>2
  <1>10. \A i \in 0 .. (n - 1) - 1 : i \in S => i + 1 \in S
    <2> SUFFICES ASSUME NEW i \in 0 .. (n - 1) - 1, frames[i + 1].time < x - Resolution
                 PROVE  i + 1 \in 0 .. n - 1 /\ frames[(i + 1) + 1].time < x - Resolution
      OBVIOUS
    <2>1. i + 1 \in 1 .. n - 1 /\ i + 1 \in 1 .. n /\ (i + 1) + 1 \in 1 .. n /\ i + 1 \in 0 .. n - 1
      BY <1>4
    <2>2. frames[(i + 1) + 1].time - frames[i + 1].time \in HalfFrame .. 3 * HalfFrame
      BY <2>1, <1>7
    <2> QED
      BY <2>1, <2>2, <1>1, <1>4, <1>8
  <1>11. n - 1 \in S
    <2> HIDE DEF S
    <2>1. n - 1 \in Nat
      BY <1>4
    <2>2. \A i \in 0 .. n - 1 : i \in S
      BY <2>1, <1>9, <1>10, UpTo
    <2> QED
      BY <2>1, <2>2
  <1>12. frames[n].time < x - Resolution
    <2>1. (n - 1) + 1 = n
      BY <1>4
    <2> QED
      BY <2>1, <1>11
  <1>13. n \in 1 .. n
    BY <1>4
  <1> QED
    BY <1>1, <1>4, <1>5, <1>6, <1>12, <1>13

(* With step <= latency <= duration, and steps of half a frame at least,   *)
(* no moment of the recording is further than a frame from an emitted      *)
(* frame that some chunk was heard for.                                    *)
THEOREM AllHeard ==
  ASSUME \A x \in Steps : HalfFrame <= x
  PROVE  Spec => []EverythingHeard
  <1>1. StreamInv => EverythingHeard
    <2>1. StreamInv => HalfFrame <= step
      BY DEF StreamInv, TypeInv
    <2> QED
      BY <2>1, Near
  <1> QED
    BY <1>1, StreamInvariance, PTL
=============================================================================
