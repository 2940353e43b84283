------------------------------ MODULE Retiming ------------------------------
(***************************************************************************)
(* How a dubbed clip is fitted to the length of its source (dubbing        *)
(* retime.py): first its pauses are scaled, then the whole of it.  Times   *)
(* are milliseconds, tempos are thousandths; the audio is its pauses, as   *)
(* ffmpeg reports them, in speech.                                         *)
(***************************************************************************)
EXTENDS Integers, Sequences, SequencesExt

Smaller(a, b) == IF a < b THEN a ELSE b
Larger(a, b) == IF a < b THEN b ELSE a
Gap(a, b) == Larger(a, b) - Smaller(a, b)
Total(ds) == FoldLeft(LAMBDA a, d: a + d, 0, ds)

\* The scale of the pauses, in thousandths: 1 + gap / total_silence, bounded.
Scale(gap, silence) ==
  IF gap = 0 \/ silence = 0 THEN 1000
  ELSE Smaller(3000, IF gap > 0 THEN 1000 + (1000 * gap) \div silence
                     ELSE Larger(50, 1000 + (1000 * gap) \div silence))

\* atempo takes 0.5 to 2 only: a pause is halved or doubled at most
Paced(pause, scale) == (pause * Larger(500, Smaller(2000, scale))) \div 1000

\* Speech and pauses in turn; a pause of no length is skipped.  clip: the length
\* of the speech, and its pauses as <<start, end>> in order.
Segments(clip) ==
  LET add(acc, p) ==
        [segs |-> acc.segs \o (IF p[1] > acc.cursor
                               THEN <<[dur |-> p[1] - acc.cursor, pause |-> FALSE]>> ELSE <<>>)
                          \o <<[dur |-> p[2] - p[1], pause |-> TRUE]>>,
         cursor |-> p[2]]
      all == FoldLeft(add, [segs |-> <<>>, cursor |-> 0], clip.pauses)
  IN  all.segs \o (IF all.cursor < clip.length
                   THEN <<[dur |-> clip.length - all.cursor, pause |-> FALSE]>> ELSE <<>>)

\* the lengths of the segments afterwards
RetimeSilences(clip, target) ==
  LET gap == target - clip.length
      segs == SelectSeq(Segments(clip), LAMBDA s: s.dur > 0)
      silence == Total([i \in DOMAIN clip.pauses |-> clip.pauses[i][2] - clip.pauses[i][1]])
  IN  IF clip.pauses = <<>> \/ Gap(target, clip.length) < 20 THEN [i \in DOMAIN segs |-> segs[i].dur]
      ELSE [i \in DOMAIN segs |-> IF segs[i].pause THEN Paced(segs[i].dur, Scale(gap, silence))
                                  ELSE segs[i].dur]

\* the global tempo, within 15 percent; almost 1 is left alone
Ratio(cur, target) ==
  LET r == Larger(850, Smaller(1150, (1000 * cur) \div target))
  IN  IF Gap(r, 1000) < 5 THEN 1000 ELSE r

TimeStretch(cur, target) ==
  LET r == Ratio(cur, target)
  IN  IF r = 1000 THEN cur
      ELSE IF r = (1000 * cur) \div target THEN target
      ELSE (1000 * cur) \div r

FitDuration(clip, target) ==
  LET segs == RetimeSilences(clip, target)
      after == Total(segs)
      final == TimeStretch(after, target)
  IN  [segs |-> segs, after |-> after, final |-> final,
       hit_target |-> Gap(final, target) < 150]

-----------------------------------------------------------------------------
\* Fitting never makes things worse: neither stage overshoots the target or moves
\* away from it (beyond what rounding and the half percent left alone explain);
\* speech is not touched by the first; no pause is cut below 30 ms or grown more
\* than threefold (retime.py:83); and what needs no more than the documented bound
\* is met.
FitNeverWorse(clip, target, r) ==
  LET before == SelectSeq(Segments(clip), LAMBDA s: s.dur > 0)
      slack == Len(r.segs) + target \div 1000
      Between(a, b, c) == \/ Gap(b, c) <= slack /\ Gap(a, c) <= 20
                          \/ a - slack <= b /\ b <= c + slack
                          \/ c - slack <= b /\ b <= a + slack
  IN  /\ Total([i \in DOMAIN before |-> before[i].dur]) = clip.length
      /\ Between(clip.length, r.after, target)
      /\ Between(r.after, r.final, target)
      /\ \A i \in DOMAIN before :
           IF before[i].pause THEN /\ r.segs[i] >= Smaller(30, before[i].dur)
                                   /\ r.segs[i] <= 3 * before[i].dur
           ELSE r.segs[i] = before[i].dur
      /\ (clip.length * 100 >= target * 85 /\ clip.length * 100 <= target * 115) => r.hit_target
=============================================================================
