------------------------------ MODULE SttStream ------------------------------
(***************************************************************************)
(* One socket of worker-stt (/v1/stt/stream): the audio of an utterance    *)
(* grows in buf, voice activity is looked for every CheckEvery units, a    *)
(* pause ends the utterance, which is transcribed and dropped.  A unit is  *)
(* a piece of audio that is speech or is not; buf is what was heard after  *)
(* start.  The handler takes one message at a time.                        *)
(***************************************************************************)
EXTENDS Integers, Sequences, FiniteSets

CONSTANTS CheckEvery,   \* units between two looks for speech (3200 samples)
          LeadIn,       \* units of silence that are kept (16000 samples)
          PartialEvery, \* units between two partials (16000 samples)
          TailUnits,    \* transcribed beyond the end of the speech (1600 samples)
          FlushMin,     \* a shorter rest is not transcribed at the end (8000 samples)
          MinSpeech,    \* min_speech_duration_ms of the voice activity detector
          Pauses,       \* the endpoint_ms a client may ask for
          MaxUnits      \* bound on what is heard

ASSUME StreamAssumption ==
  /\ {CheckEvery, LeadIn, PartialEvery, TailUnits, FlushMin, MaxUnits} \subseteq Nat
  /\ MinSpeech \in Nat \ {0} /\ Pauses \subseteq Nat /\ LeadIn >= MinSpeech

VARIABLES
  heard,     \* every unit received: is it speech
  start,     \* buf is heard after this many units
  pause,     \* cfg["endpoint_ms"]
  checked, partialAt, \* last_check, last_partial: lengths of buf
  finals,    \* what was transcribed for a final: <<first, last>> unit
  streaming, \* "open", "ended", "broken" (an exception), "over"
  charged    \* units reported, once for each report

streamVars == <<heard, start, pause, checked, partialAt, finals, streaming, charged>>

StreamTypeOK ==
  /\ heard \in Seq(BOOLEAN) /\ start \in 0 .. Len(heard) /\ pause \in Pauses
  /\ {checked, partialAt} \subseteq 0 .. Len(heard) - start
  /\ streaming \in {"open", "ended", "broken", "over"} /\ Len(charged) <= 1

StreamInit ==
  /\ heard = <<>> /\ start = 0 /\ pause \in Pauses /\ checked = 0 /\ partialAt = 0
  /\ finals = {} /\ streaming = "open" /\ charged = <<>>

\* get_speech_timestamps: the maximal runs of speech that are long enough
RunsOf(units, from) ==
  {r \in (from + 1 .. Len(units)) \X (from + 1 .. Len(units)) :
     /\ r[2] - r[1] + 1 >= MinSpeech /\ \A i \in r[1] .. r[2] : units[i]
     /\ r[1] = from + 1 \/ ~ units[r[1] - 1]
     /\ r[2] = Len(units) \/ ~ units[r[2] + 1]}
LastEnds(runs) == {e \in {r[2] : r \in runs} : \A r \in runs : r[2] <= e}
Least(a, b) == IF a <= b THEN a ELSE b

\* the client may ask for another pause; what is not JSON ends the socket
Configure ==
  /\ streaming = "open"
  /\ \/ pause' \in Pauses /\ UNCHANGED streaming
     \/ streaming' = "broken" /\ UNCHANGED pause
  /\ UNCHANGED <<heard, start, checked, partialAt, finals, charged>>

\* no speech in buf: the last of it is kept
Quiet(now) ==
  /\ IF Len(now) - start > LeadIn
     THEN start' = Len(now) - LeadIn /\ checked' = LeadIn /\ partialAt' = 0
     ELSE checked' = Len(now) - start /\ UNCHANGED <<start, partialAt>>
  /\ UNCHANGED finals

EndUtterance(now, end) ==
  /\ finals' = finals \cup {<<start + 1, Least(end + TailUnits, Len(now))>>}
  /\ start' = Len(now) /\ checked' = 0 /\ partialAt' = 0

\* a partial, unless the model is busy with another socket
SayPartial(now) ==
  /\ checked' = Len(now) - start
  /\ \/ Len(now) - start - partialAt >= PartialEvery /\ partialAt' = Len(now) - start
     \/ UNCHANGED partialAt
  /\ UNCHANGED <<start, finals>>

HearUnits(units) ==
  LET now  == heard \o units
      runs == RunsOf(now, start)
  IN /\ streaming = "open" /\ Len(now) <= MaxUnits
     /\ heard' = now
     /\ \/ Len(now) - start - checked < CheckEvery /\ UNCHANGED <<start, checked, partialAt, finals>>
        \/ /\ Len(now) - start - checked >= CheckEvery
           /\ \/ runs = {} /\ Quiet(now)
              \/ \E end \in LastEnds(runs) : Len(now) - end >= pause /\ EndUtterance(now, end)
              \/ \E end \in LastEnds(runs) : Len(now) - end < pause /\ SayPartial(now)
     /\ UNCHANGED <<pause, streaming, charged>>

\* {"type": "end"} or a disconnect
EndSocket ==
  /\ streaming = "open" /\ streaming' = "ended"
  /\ finals' = IF Len(heard) - start > FlushMin /\ RunsOf(heard, start) # {}
               THEN finals \cup {<<start + 1, Len(heard)>>} ELSE finals
  /\ UNCHANGED <<heard, start, pause, checked, partialAt, charged>>

\* the finally: report_usage in a thread, the usage message, close
CloseSocket ==
  /\ streaming \in {"ended", "broken"} /\ streaming' = "over"
  /\ charged' = Append(charged, Len(heard))
  /\ UNCHANGED <<heard, start, pause, checked, partialAt, finals>>

StreamNext == \/ Configure \/ EndSocket \/ CloseSocket
              \/ \E n \in 1 .. CheckEvery : \E units \in [1 .. n -> BOOLEAN] : HearUnits(units)

-----------------------------------------------------------------------------
\* Of no word anything is missing in the finals but what the detector could not see
\* on either side of an end of an utterance, once buf has let go of it, however the
\* audio is cut into messages; and no word is said twice.  (A last word in a rest of
\* FlushMin or less is never transcribed: the property is about what was let go.)
WordsHeard ==
  /\ \A w \in RunsOf(heard, 0) :
       LET gone == w[1] .. Least(w[2], start)
       IN Cardinality({i \in gone : ~ \E f \in finals : f[1] <= i /\ i <= f[2]}) <= 2 * (MinSpeech - 1)
  /\ \A f, g \in finals : f # g => f[2] < g[1] \/ g[2] < f[1]

\* The socket is charged once, for all that was sent, however it ended.
StreamCharged == streaming = "over" <=> charged = <<Len(heard)>>
=============================================================================
