--------------------------- MODULE DeliveryAnalysis ---------------------------
(***************************************************************************)
(* From voice-activity frames to the pauses the learner is shown           *)
(* (src/practice/analysis.rs, build_delivery_metrics).                     *)
(*                                                                         *)
(* frames is a sequence of booleans, one per 512-sample frame; lengths are *)
(* counted in frames, an interval <<first, past>> ends before its second   *)
(* component.  The code compares seconds in floating point: for a silence  *)
(* of just the silence threshold the outcome depends on where in the       *)
(* recording it lies (frames 6 to 12 count as less than 7 frames of 32 ms, *)
(* 7 to 13 do not).  The other thresholds are no multiples of a frame.     *)
(***************************************************************************)
EXTENDS Integers, Sequences, FiniteSets, SequencesExt

CONSTANTS MinSpeech,    \* frames; 150 ms, 5 in the code
          MinSilence,   \* frames; 200 ms, 7 in the code
          PauseFrames,  \* frames; 500 ms, 16 in the code
          LongFrames,   \* frames; 2 s, 63 in the code
          NarrowGaps    \* <<past, first>>: MinSilence frames that come out as less

ASSUME FramesAssumption == {MinSpeech, MinSilence, PauseFrames, LongFrames} \subseteq Nat \ {0}

Length(interval) == interval[2] - interval[1]

SumOf(lengths) == SumFunctionOnSet(lengths, DOMAIN lengths)

\* Mutant of SpeechRuns: a run is only kept when a frame without speech closes it.
SpeechRunsClosed(frames) ==
    LET n      == Len(frames)
        starts == {i \in 1..n : frames[i] /\ (i = 1 \/ ~frames[i - 1])}
        past(i) == CHOOSE j \in (i + 1)..(n + 1) :
                      (\A k \in i..(j - 1) : frames[k]) /\ (j = n + 1 \/ ~frames[j])
        kept   == {r \in {<<i, past(i)>> : i \in starts} : Length(r) >= MinSpeech /\ r[2] # n + 1}
    IN [k \in 1..Cardinality(kept) |->
           CHOOSE r \in kept : Cardinality({q \in kept : q[1] < r[1]}) = k - 1]

(* The maximal runs of speech frames, short ones dropped, first one first. *)
SpeechRuns(frames) ==
    LET n      == Len(frames)
        starts == {i \in 1..n : frames[i] /\ (i = 1 \/ ~frames[i - 1])}
        past(i) == CHOOSE j \in (i + 1)..(n + 1) :
                      (\A k \in i..(j - 1) : frames[k]) /\ (j = n + 1 \/ ~frames[j])
        kept   == {r \in {<<i, past(i)>> : i \in starts} : Length(r) >= MinSpeech}
    IN [k \in 1..Cardinality(kept) |->
           CHOOSE r \in kept : Cardinality({q \in kept : q[1] < r[1]}) = k - 1]

(* Less than the silence threshold, as the subtraction of seconds has it.  *)
Short(past, first) ==
    \/ first - past < MinSilence
    \/ first - past = MinSilence /\ <<past, first>> \in NarrowGaps

(* Speech separated by less than the silence threshold is one interval.    *)
JoinRun(acc, run) ==
    IF acc # <<>> /\ Short(Last(acc)[2], run[1])
    THEN [acc EXCEPT ![Len(acc)] = <<@[1], run[2]>>]
    ELSE Append(acc, run)

Merged(runs) ==
    LET after[k \in 0..Len(runs)] == IF k = 0 THEN <<>> ELSE JoinRun(after[k - 1], runs[k])
    IN after[Len(runs)]

Gaps(intervals) ==
    [i \in 1..(Len(intervals) - 1) |-> intervals[i + 1][1] - intervals[i][2]]

(* Twice the median, so that the mean of two middle values stays whole.    *)
TwiceMedian(lengths) ==
    LET sorted == SortSeq(lengths, <)
        middle == Len(sorted) \div 2
    IN IF Len(sorted) % 2 = 1 THEN 2 * sorted[middle + 1]
       ELSE sorted[middle] + sorted[middle + 1]

TwiceTypical(gaps) == TwiceMedian(SelectSeq(gaps, LAMBDA g : g >= PauseFrames))

(* Nothing is said about a recording in which no speech was detected.      *)
Metrics(frames) ==
    LET intervals == Merged(SpeechRuns(frames))
        gaps      == Gaps(intervals)
        pauses    == {i \in DOMAIN gaps : gaps[i] >= PauseFrames}
    IN [intervals |-> intervals,
        span      |-> IF intervals = <<>> THEN 0 ELSE Last(intervals)[2] - Head(intervals)[1],
        active    |-> SumOf([i \in DOMAIN intervals |-> Length(intervals[i])]),
        pauses    |-> Cardinality(pauses),
        long      |-> Cardinality({i \in pauses : gaps[i] >= LongFrames}),
        paused    |-> SumFunctionOnSet(gaps, pauses),
        twiceTypical |-> IF pauses = {} THEN 0 ELSE TwiceTypical(gaps)]
=============================================================================
