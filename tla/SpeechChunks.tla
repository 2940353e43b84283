---------------------------- MODULE SpeechChunks ----------------------------
(***************************************************************************)
(* How a text is cut into the pieces that are synthesized one after the    *)
(* other: chunk_text_meta of the Kokoro workers and split_clause of the    *)
(* Piper worker.  A text is a sequence of words, each with its length in   *)
(* characters (its punctuation included) and the mark it ends with.  The   *)
(* limits are constants, so that small texts meet them.                    *)
(***************************************************************************)
EXTENDS Integers, Sequences, SequencesExt, FiniteSets, FiniteSetsExt

CONSTANTS MaxChars,       \* a chunk's budget (90 in the code)
          FirstMax,       \* the first chunk's (35)
          PlainMin,       \* a sentence without comma is cut above this only (55)
          MinHead, MinTail,  \* no first piece below, no rest below (12, 10)
          MinWords, MinHalf  \* split_clause: words of a sentence, of a half

ASSUME LimitsAssumption ==
  /\ {MaxChars, FirstMax, PlainMin, MinHead, MinTail, MinWords, MinHalf} \subseteq Nat
  /\ MinHalf > 0

\* len() of words joined by single blanks
Length(ws) == FoldLeft(LAMBDA n, w: n + w.len, 0, ws) + Len(ws) - 1

\* re.split behind the marks: each part ends with such a word, the last one anyhow
Parts(ws, marks) ==
  LET ends == SetToSortSeq({i \in 1 .. Len(ws) : i = Len(ws) \/ ws[i].mark \in marks}, <)
  IN  [k \in 1 .. Len(ends) |-> SubSeq(ws, IF k = 1 THEN 1 ELSE ends[k - 1] + 1, ends[k])]

\* sentences are gathered in a buffer while they fit
Gathered(ws) ==
  LET add(acc, p) ==
        IF acc.buf # <<>> /\ Length(acc.buf) + Length(p) + 1 > MaxChars
        THEN [chunks |-> Append(acc.chunks, acc.buf), buf |-> p]
        ELSE [acc EXCEPT !.buf = @ \o p]
  IN  FoldLeft(add, [chunks |-> <<>>, buf |-> <<>>], Parts(ws, {"."}))

\* a plausible bug: the last buffer is not flushed
Gather_NoFlush(ws) == Gathered(ws).chunks

Gather(ws) ==
  IF Gathered(ws).buf = <<>> THEN Gathered(ws).chunks
  ELSE Append(Gathered(ws).chunks, Gathered(ws).buf)

\* a first chunk over its budget is cut behind its first comma
AtComma(chunks) ==
  LET subs == Parts(chunks[1], {","})
  IN  IF chunks # <<>> /\ Length(chunks[1]) > FirstMax /\ Len(subs) > 1
      THEN <<subs[1], FlattenSeq(Tail(subs))>> \o Tail(chunks)
      ELSE chunks

\* the last blank within the first FirstMax + 1 characters, as a number of words; 0: none
CutAt(c) == Max({0} \cup {k \in 1 .. Len(c) - 1 : Length(SubSeq(c, 1, k)) <= FirstMax})

MayCut(c, commaSplit) ==
  LET head == SubSeq(c, 1, CutAt(c))
  IN  /\ Length(c) > (IF commaSplit THEN FirstMax ELSE PlainMin)
      /\ CutAt(c) > 0
      /\ Length(head) >= MinHead
      /\ Length(c) - Length(head) > MinTail

\* the chunks, and whether the first one was cut between two words (split_index)
ChunkText(ws) ==
  LET chunks == AtComma(Gather(ws))
      c == chunks[1]
  IN  IF chunks # <<>> /\ MayCut(c, Len(chunks) > Len(Gather(ws)))
      THEN [chunks |-> <<SubSeq(c, 1, CutAt(c)), SubSeq(c, CutAt(c) + 1, Len(c))>> \o Tail(chunks),
            split |-> TRUE]
      ELSE [chunks |-> chunks, split |-> FALSE]

(***************************************************************************)
(* split_clause: phonemes are "x", blanks and clause marks ",".            *)
(***************************************************************************)

\* blank-separated pieces with more than marks in them
Sounded(ps) ==
  Cardinality({i \in 1 .. Len(ps) : ps[i] = "x"
                 /\ \A j \in 1 .. i - 1 : ps[j] = "x" => \E k \in j .. i : ps[k] = " "})

LeftTrimmed(ps) ==
  LET sounds == {i \in 1 .. Len(ps) : ps[i] # " "}
  IN  IF sounds = {} THEN <<>> ELSE SubSeq(ps, Min(sounds), Len(ps))

GoodCut(ps, i) ==
  /\ ps[i] = ","
  /\ Sounded(SubSeq(ps, 1, i)) >= MinHalf
  /\ Sounded(SubSeq(ps, i + 1, Len(ps))) >= MinHalf

SplitClause(ps) ==
  LET cuts == {i \in 1 .. Len(ps) : GoodCut(ps, i)}
  IN  IF 1 + Cardinality({i \in 1 .. Len(ps) : ps[i] = " "}) <= MinWords \/ cuts = {}
      THEN <<ps>>
      ELSE <<SubSeq(ps, 1, Min(cuts)), LeftTrimmed(SubSeq(ps, Min(cuts) + 1, Len(ps)))>>

-----------------------------------------------------------------------------
\* Chunks say the text, once and in its order; none is empty; none is over the
\* budget unless it is one sentence that nothing may cut; and a word-boundary cut
\* leaves neither a tiny beginning nor a beginning over the first chunk's budget
\* nor a dangling end (the comments in chunk_text_meta).
ChunksSay(ws, r) ==
  /\ FlattenSeq(r.chunks) = ws
  /\ \A i \in 1 .. Len(r.chunks) : r.chunks[i] # <<>>
  /\ \A i \in 1 .. Len(r.chunks) :
       Length(r.chunks[i]) > MaxChars => Len(Parts(r.chunks[i], {"."})) = 1
  /\ r.split => /\ Length(r.chunks[1]) \in MinHead .. FirstMax
                /\ Length(r.chunks[2]) >= MinTail

\* A cut sentence keeps every phoneme but the blanks at the cut, and both halves
\* are long enough to be spoken by themselves.
ClauseSaid(ps, r) ==
  \/ r = <<ps>>
  \/ /\ Len(r) = 2
     /\ \E n \in 0 .. Len(ps) : ps = r[1] \o [i \in 1 .. n |-> " "] \o r[2]
     /\ \A i \in 1 .. 2 : Sounded(r[i]) >= MinHalf
=============================================================================
