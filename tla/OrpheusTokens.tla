---------------------------- MODULE OrpheusTokens ----------------------------
(***************************************************************************)
(* The token layout an Orpheus voice is trained on (finetune_pilot.py) and *)
(* the one its speech is decoded with (decode_validate.py), written down   *)
(* twice.  A clip is a sequence of frames of the SNAC codec: one coarse    *)
(* code c0, two codes c1, four codes c2.                                   *)
(***************************************************************************)
EXTENDS Integers, Sequences, SequencesExt

CONSTANTS Codebook,    \* codes of a level (4096 in the code)
          AudioStart   \* the first audio token (128266): all text and control tokens are below

ASSUME TokensAssumption == Codebook \in Nat \ {0} /\ AudioStart \in Nat /\ AudioStart > 7

\* control tokens, all of them below the audio tokens
StartOfHuman == 1
EndOfText == 2
EndOfHuman == 3
StartOfAi == 4
StartOfSpeech == 5
EndOfSpeech == 6
EndOfAi == 7

\* level order 0 1 2 2 1 2 2, each place in a band of its own
Interleaved(f) ==
  LET at == <<f.c0, f.c1[1], f.c2[1], f.c2[2], f.c1[2], f.c2[3], f.c2[4]>>
  IN  [k \in 1 .. 7 |-> AudioStart + (k - 1) * Codebook + at[k]]

\* frames whose coarse code repeats that of the frame kept before
Deduped(frames) ==
  LET add(acc, f) == IF acc # <<>> /\ acc[Len(acc)].c0 = f.c0 THEN acc ELSE Append(acc, f)
  IN  FoldLeft(add, <<>>, frames)

AudioIds(frames) ==
  FlattenSeq([i \in DOMAIN Deduped(frames) |-> Interleaved(Deduped(frames)[i])])

Example(text, frames) ==
  <<StartOfHuman>> \o text \o <<EndOfText, EndOfHuman, StartOfAi, StartOfSpeech>>
    \o AudioIds(frames) \o <<EndOfSpeech, EndOfAi>>

-----------------------------------------------------------------------------
\* decode_validate: the prompt, and what a generated sequence is decoded to
Prompt(text) == <<StartOfHuman>> \o text \o <<EndOfText, EndOfHuman, StartOfAi, StartOfSpeech>>

WholeFrames(generated) ==
  LET ids == SelectSeq(generated, LAMBDA t: t >= AudioStart)
  IN  SubSeq(ids, 1, (Len(ids) \div 7) * 7)

Clamp(c) == IF c < 0 THEN 0 ELSE IF c >= Codebook THEN Codebook - 1 ELSE c

Decoded(generated) ==
  LET ids == WholeFrames(generated)
      code(i, k) == Clamp(ids[7 * (i - 1) + k] - AudioStart - (k - 1) * Codebook)
  IN  [i \in 1 .. Len(ids) \div 7 |->
        [c0 |-> code(i, 1), c1 |-> <<code(i, 2), code(i, 5)>>,
         c2 |-> <<code(i, 3), code(i, 4), code(i, 6), code(i, 7)>>]]

-----------------------------------------------------------------------------
\* What was trained is what is decoded: speech that a voice learned from is
\* prompted for by a prefix of its own example, and the rest of it decodes to the
\* clip without its repeated frames, though it ends with control tokens and may
\* stop in the middle of a frame, of which nothing is heard.
TrainedIsDecoded(text, frames, stop) ==
  LET ex == Example(text, frames)
      said == SubSeq(ex, Len(Prompt(text)) + 1, Len(ex))
      heard == Decoded(SubSeq(said, 1, IF stop < Len(said) THEN stop ELSE Len(said)))
  IN  /\ IsPrefix(Prompt(text), ex)
      /\ Decoded(said) = Deduped(frames)
      /\ IsPrefix(heard, Deduped(frames))
=============================================================================
