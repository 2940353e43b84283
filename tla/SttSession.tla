----------------------------- MODULE SttSession ------------------------------
(***************************************************************************)
(* One incremental recognition: Session of worker-stt-realtime/server.py.  *)
(* push() takes a chunk of audio and answers with events; finalize() ends  *)
(* the utterance.  What the recognizer and the voice detector say of the   *)
(* audio is any sequence of words and of speech and silence.  Time is      *)
(* counted in units of 50 ms of audio.                                     *)
(***************************************************************************)
EXTENDS Integers, Sequences

CONSTANTS Endpoints,       \* endpoint_ms, in units
          ChunkSizes,      \* lengths of the chunks a client sends
          MaxClock,        \* bound on the audio of a session
          Speculative,     \* SPECULATIVE_MS, 0 disables
          HintExtra, HintMax,  \* what an unfinished sentence adds (400 ms), at most (1500 ms)
          MaxUtterance     \* MAX_UTT_S

ASSUME SessionAssumption ==
  /\ Endpoints \subseteq Nat /\ ChunkSizes \subseteq Nat \ {0}
  /\ {MaxClock, Speculative, HintExtra, HintMax, MaxUtterance} \subseteq Nat

VARIABLES endpoint,   \* endpoint_ms of this session
          ses,        \* the attributes of the Session
          events,     \* what the last call returned
          guess,      \* as the client has it: is a speculative final open?
          lastEnd     \* end_s of the last segment in which speech was heard

sesVars == <<endpoint, ses, events, guess, lastEnd>>

Never == -1
Event(e) == [type |-> e, start |-> 0, end |-> 0, heard |-> FALSE]
EventTypes == {"partial", "resume", "speculative_final", "final"}
Guesses == {"none", "open", "broken"}

(* words: the text so far is nonempty, its last word is one of FUNC.       *)
NewUtterance(s) == [s EXCEPT !.speech = FALSE, !.sil = Never, !.start = Never, !.spec = FALSE,
                             !.text = FALSE, !.unfinished = FALSE]

SesTypeOK ==
  /\ endpoint \in Endpoints
  /\ ses \in [t : 0 .. MaxClock, start : {Never} \cup 0 .. MaxClock, sil : {Never} \cup Nat,
              speech : BOOLEAN, lastSpeech : 0 .. MaxClock, spec : BOOLEAN, text : BOOLEAN,
              unfinished : BOOLEAN]
  /\ \A i \in DOMAIN events : events[i].type \in EventTypes
  /\ guess \in Guesses /\ lastEnd \in 0 .. MaxClock

SesInit ==
  /\ endpoint \in Endpoints
  /\ ses = [t |-> 0, start |-> Never, sil |-> Never, speech |-> FALSE, lastSpeech |-> 0,
            spec |-> FALSE, text |-> FALSE, unfinished |-> FALSE]
  /\ events = <<>> /\ guess = "none" /\ lastEnd = 0

(* What the events mean to the client who starts its answer on a guess.    *)
Follow(g, e) == CASE e.type = "speculative_final" -> IF g = "none" THEN "open" ELSE "broken"
                  [] e.type = "resume"            -> IF g = "open" THEN "none" ELSE "broken"
                  [] e.type = "final"             -> IF g = "broken" THEN g ELSE "none"
                  [] e.type = "partial"           -> IF g = "none" THEN "none" ELSE "broken"

Followed(es, g, h) ==
  \E f \in [0 .. Len(es) -> Guesses] :
    f[0] = g /\ f[Len(es)] = h /\ \A i \in 1 .. Len(es) : f[i] = Follow(f[i - 1], es[i])

Emit(es) ==
  /\ events' = es /\ guess' \in Guesses /\ Followed(es, guess, guess')
  /\ lastEnd' = IF es # <<>> /\ es[Len(es)].type = "final" /\ es[Len(es)].heard
                  THEN es[Len(es)].end ELSE lastEnd

-----------------------------------------------------------------------------
(* The detector says speech, or not.                                       *)
Detect(s, n, speech) ==
  IF speech THEN [s EXCEPT !.start = IF s.speech THEN s.start ELSE s.t - n,
                           !.speech = TRUE, !.sil = Never, !.lastSpeech = s.t]
  ELSE IF s.speech /\ s.sil = Never THEN [s EXCEPT !.sil = s.t - 1] ELSE s

(* The recognizer has more words; a guess that was given is taken back.    *)
Words_NoResume(s, unfinished) == [s EXCEPT !.text = TRUE, !.unfinished = unfinished]
Words(s, unfinished) == [s EXCEPT !.text = TRUE, !.unfinished = unfinished, !.spec = FALSE]
WordEvents(s, partial) == (IF s.spec THEN <<Event("resume")>> ELSE <<>>)
                            \o (IF partial THEN <<Event("partial")>> ELSE <<>>)

(* How much silence ends the utterance.                                    *)
SmallerOf(a, b) == IF a < b THEN a ELSE b
Threshold(s) == IF s.unfinished THEN SmallerOf(endpoint + HintExtra, HintMax) ELSE endpoint

(* finalize(): flushing may bring words when there were none, never none   *)
(* when there were some.                                                   *)
Finals(s) == IF ~ s.speech /\ ~ s.text THEN {<<>>}
             ELSE LET final == [type |-> "final", heard |-> s.speech,
                                start |-> IF s.start = Never THEN 0 ELSE s.start,
                                end |-> IF s.lastSpeech = 0 THEN s.t ELSE s.lastSpeech]
                  IN  {<<final>>} \cup (IF s.text THEN {} ELSE {<<>>})

Finalized(s) == IF ~ s.speech /\ ~ s.text THEN s ELSE NewUtterance(s)

(* The end of push(): guess, end the utterance, or neither.                *)
Decide(s, es) ==
  LET silence == s.t - s.sil
      ends == IF s.speech /\ s.sil # Never THEN silence >= Threshold(s)
              ELSE s.speech /\ s.t - s.start > MaxUtterance
      guesses == /\ s.speech /\ s.sil # Never /\ Speculative # 0 /\ ~ s.spec /\ s.text
                 /\ Speculative <= silence /\ silence < Threshold(s)
  IN  IF ends THEN \E f \in Finals(s) : Emit(es \o f) /\ ses' = Finalized(s)
      ELSE IF guesses THEN Emit(es \o <<Event("speculative_final")>>) /\ ses' = [s EXCEPT !.spec = TRUE]
      ELSE Emit(es) /\ ses' = s

Push(n, speech, partial) ==
  LET s == Detect([ses EXCEPT !.t = @ + n], n, speech) IN
  /\ ses.t + n <= MaxClock
  /\ \/ Decide(s, <<>>)
     \/ \E unfinished \in BOOLEAN : Decide(Words(s, unfinished), WordEvents(s, partial))
  /\ UNCHANGED endpoint

(* The client says commit, or end.                                         *)
Finalize == /\ \E f \in Finals(ses) : Emit(f) /\ ses' = Finalized(ses)
            /\ UNCHANGED endpoint

SesNext == Finalize \/ \E n \in ChunkSizes : \E speech, partial \in BOOLEAN : Push(n, speech, partial)

-----------------------------------------------------------------------------
(* server.py:14-16: a speculative final is followed by the final or by a   *)
(* resume, and by nothing else in between.                                 *)
GuessesSettled == SesTypeOK /\ guess # "broken" /\ (guess = "open" <=> ses.spec)

(* The segments in which speech was heard do not overlap, and a caller who *)
(* went silent is not kept waiting past the threshold of what was said.    *)
SegmentsInOrder ==
  /\ ses.start # Never => lastEnd <= ses.start /\ ses.start <= ses.t
  /\ \A i \in DOMAIN events : events[i].type = "final" /\ events[i].heard => events[i].start <= events[i].end
  /\ ses.sil # Never => ses.t - ses.sil < Threshold(ses)
=============================================================================
