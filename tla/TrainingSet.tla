----------------------------- MODULE TrainingSet -----------------------------
(***************************************************************************)
(* Which clips of an upload a voice is trained on, and whether it is: the  *)
(* loop of train_voice (voice-pipeline train_job.py) over the lines of     *)
(* metadata.csv, and the gates the set then passes (gates.py).  A line has *)
(* a text and a recording, known by what is wrong with it, if anything,    *)
(* and by its length.  A pitch is a number of semitones above 75 Hz, so    *)
(* that 150 Hz is 12 and 170 Hz lies between 14 and 15; levels are         *)
(* decibels, rates are per cent.                                           *)
(***************************************************************************)
EXTENDS Integers, Sequences, SequencesExt, FiniteSets, FiniteSetsExt

CONSTANTS MinTotal, MaxTotal,   \* MIN_MINUTES, MAX_MINUTES of usable audio
          MeasureEvery, MaxMeasured, \* the clips the gates measure (each third, 150)
          MinClips             \* voiced clips without which pitches are not split (20)

ASSUME SelectionAssumption ==
  {MinTotal, MaxTotal} \subseteq Nat /\ {MeasureEvery, MaxMeasured} \subseteq Nat \ {0}

\* of that many clips 15 per cent are at least three, the fewest of a side of a split
ASSUME ClipsAssumption == MinClips \in Nat /\ 15 * MinClips > 2 * 100

NoText == "none"
Unusable == {"unreadable", "too_short_or_long", "clipped"}
Mismatch == "transcript_length_mismatch"
Reasons == Unusable \cup {"no_text", "duplicate", Mismatch}

Nothing == [rows |-> <<>>, seen |-> {}, total |-> 0, cps |-> 0, measured |-> <<>>,
            skipped |-> [r \in Reasons |-> 0]]

Skip(acc, why) == [acc EXCEPT !.skipped[why] = @ + 1]

\* every third of the kept clips is measured, up to a number of them
Measure(acc, l) ==
  IF Len(acc.rows) % MeasureEvery = 0 /\ Len(acc.measured) < MaxMeasured
  THEN [acc EXCEPT !.measured = Append(@, l)] ELSE acc

Keep(acc, l) ==
  [Measure(acc, l) EXCEPT !.rows = Append(@, l), !.seen = @ \cup {l.text}, !.total = @ + l.dur]

\* a text is seen when a recording of it was kept
Take(acc, l) ==
  IF l.text = NoText THEN Skip(acc, "no_text")
  ELSE IF l.text \in acc.seen THEN Skip(acc, "duplicate")
  ELSE IF l.flaw \in Unusable THEN Skip(acc, l.flaw)
  ELSE IF l.flaw = Mismatch THEN Skip([acc EXCEPT !.cps = @ + 1], Mismatch)
  ELSE Keep([acc EXCEPT !.cps = @ + 1], l)

Lengths(rows) == FoldLeft(LAMBDA n, l: n + l.dur, 0, rows)

\* the rows before the one that exceeds the limit
Cut(rows) ==
  LET over == {j \in DOMAIN rows : Lengths(SubSeq(rows, 1, j)) > MaxTotal}
  IN  IF over = {} THEN <<>> ELSE SubSeq(rows, 1, Min(over) - 1)

\* what train_voice trains on, or that there is too little of it
TrainVoice(lines) ==
  LET all == FoldLeft(Take, Nothing, lines)
  IN  [usable |-> all, rejected |-> all.total < MinTotal,
       rows |-> IF all.total < MinTotal THEN <<>>
                ELSE IF all.total > MaxTotal THEN Cut(all.rows) ELSE all.rows]

-----------------------------------------------------------------------------
\* Every line is used or counted as skipped for one reason, no text is used twice
\* and none that was recorded well is lost to a bad recording of it; what is trained
\* on is the beginning of what is usable, within the limit and not short of it by
\* more than a clip; the gates see only clips that are kept, and the transcript's
\* rate of every clip that could be heard.
ClipsAccounted(lines, r) ==
  LET u == r.usable IN
  /\ Len(lines) = Len(u.rows) + FoldFunction(LAMBDA a, b: a + b, 0, u.skipped)
  /\ \A i, j \in DOMAIN u.rows : u.rows[i].text = u.rows[j].text => i = j
  /\ \A i \in DOMAIN lines : lines[i].text # NoText /\ lines[i].flaw = "" =>
       \E j \in DOMAIN u.rows : u.rows[j].text = lines[i].text
  /\ IsPrefix(r.rows, u.rows) /\ Lengths(r.rows) <= MaxTotal
  /\ ~ r.rejected /\ r.rows # u.rows => Lengths(r.rows) + u.rows[Len(r.rows) + 1].dur > MaxTotal
  /\ r.rejected <=> Lengths(u.rows) < MinTotal
  /\ ToSet(u.measured) \subseteq ToSet(u.rows) /\ (u.rows # <<>> => u.measured # <<>>)
  /\ u.cps = Len(u.rows) + u.skipped[Mismatch]

-----------------------------------------------------------------------------
(* gates.py                                                                *)


Sq(x) == x * x
Plus(xs) == FoldLeft(LAMBDA a, x: a + x, 0, xs)
\* the sum of the squared distances from the mean, times the number of values
Spread(xs) == Len(xs) * Plus([i \in DOMAIN xs |-> Sq(xs[i])]) - Sq(Plus(xs))
\* the two middle values added up: twice np.median
TwoMedians(xs) == xs[(Len(xs) + 1) \div 2] + xs[Len(xs) \div 2 + 1]

\* where the sorted pitches v are split in two: at least three clips to a side
Splits(v) == 3 .. Len(v) - 3

\* the split with the least spread within its sides, the first of them
BestSplit(v) ==
  LET lo(i) == SubSeq(v, 1, i)
      hi(i) == SubSeq(v, i + 1, Len(v))
      \* Spread/size summed, on the common denominator
      cost(i) == Spread(lo(i)) * (Len(v) - i) + Spread(hi(i)) * i
      less(i, j) == cost(i) * j * (Len(v) - j) <= cost(j) * i * (Len(v) - i)
  IN  Min({i \in Splits(v) : \A j \in Splits(v) : less(i, j)})

\* {gap, minor, lo_hz, hi_hz}: gap in hundredths of a semitone, the pitches doubled.
\* The separation in units of the spread is an input of the gate below.
Details(v, i) ==
  LET n == Len(v) - i
  IN  [gap |-> (100 * (Plus(SubSeq(v, i + 1, Len(v))) * i - Plus(SubSeq(v, 1, i)) * n)) \div (i * n),
       minor |-> (100 * (IF i < n THEN i ELSE n)) \div Len(v),
       lo |-> TwoMedians(SubSeq(v, 1, i)), hi |-> TwoMedians(SubSeq(v, i + 1, Len(v)))]
SplitDetails(v) == IF Len(v) < MinClips THEN {} ELSE {Details(v, BestSplit(v))}

Straddles(d) == d.lo < 2 * 12 /\ d.hi > 2 * 14

\* The measurements m of a set: snr and band as medians (0: nothing measured), off:
\* per cent of clips whose transcript is off, cv: its variation, split: what
\* SplitDetails says, in a set; apart: whether the two sides are 3 spreads apart.
Noise(m) == IF m.snr = 0 THEN "fine" ELSE IF m.snr < 12 THEN "reject"
            ELSE IF m.snr < 20 THEN "warn" ELSE "fine"
Speakers(m) ==
  LET d == CHOOSE d \in m.split : TRUE
  IN  IF m.split = {} \/ d.minor < 15 THEN "fine"
      ELSE IF d.gap >= 600 /\ Straddles(d) THEN "reject"
      ELSE IF d.gap >= 450 /\ m.apart THEN "warn" ELSE "fine"
Transcripts(m) == IF m.off >= 30 \/ m.cv >= 40 THEN "reject"
                  ELSE IF m.off >= 10 \/ m.cv >= 28 THEN "warn" ELSE "fine"

Evaluate(m) ==
  [reject |-> IF Noise(m) = "reject" THEN "noisy_audio"
              ELSE IF Speakers(m) = "reject" THEN "multiple_speakers"
              ELSE IF Transcripts(m) = "reject" THEN "transcript_mismatch" ELSE "none",
   warnings |-> (IF Noise(m) = "warn" THEN {"background_noise"} ELSE {})
        \cup (IF m.band < -35 THEN {"telephone_quality"} ELSE {})
        \cup (IF Speakers(m) = "warn" THEN {"possible_multiple_speakers"} ELSE {})
        \cup (IF Transcripts(m) = "warn" THEN {"transcript_mismatch_some"} ELSE {})]

-----------------------------------------------------------------------------
\* The split serves its purpose (gates.py:15): clips of a lower and of a higher
\* speaker, at least 15 percent of each, are rejected wherever they are split, and
\* clips within less than the rejected gap never are.
Accepted(v) == [snr |-> 0, band |-> 0, off |-> 0, cv |-> 0, apart |-> TRUE, split |-> v]

TwoVoices(v) ==
  /\ Cardinality({v[i] : i \in DOMAIN v}) = 2
  /\ Len(v) >= MinClips
  /\ v[1] < 12 /\ v[Len(v)] > 14 /\ v[Len(v)] - v[1] >= 6
  /\ \A x \in {v[1], v[Len(v)]} :
       100 * Cardinality({i \in DOMAIN v : v[i] = x}) >= 15 * Len(v)

SplitServes(v, r) ==
  /\ TwoVoices(v) => Speakers(Accepted(r)) = "reject"
  /\ (v # <<>> /\ v[Len(v)] - v[1] < 6) => Speakers(Accepted(r)) # "reject"

\* A set is not accepted for being noisier, worse transcribed or more clearly of two
\* speakers than one that was rejected, and what no gate rejects is
\* accepted.
GateKeeps(m, r) ==
  /\ r.reject # "none" =>
       \A n \in IF m.snr > 1 THEN {m.snr - 1, m.snr} ELSE {m.snr},
          o \in {m.off, m.off + 1}, c \in {m.cv, m.cv + 1},
          s \in {m.split, {[d EXCEPT !.gap = @ + 151] : d \in m.split},
                 {[d EXCEPT !.minor = @ + 1] : d \in m.split}} :
         Evaluate([m EXCEPT !.snr = n, !.off = o, !.cv = c, !.split = s]).reject # "none"
  /\ r.reject = "none" <=> "reject" \notin {Noise(m), Speakers(m), Transcripts(m)}
=============================================================================
