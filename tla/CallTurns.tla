------------------------------ MODULE CallTurns ------------------------------
(***************************************************************************)
(* Who has the floor in one phone call: the turn engine of CallSession     *)
(* (call-loop-poc/server.js) between Deepgram, which reports what the      *)
(* caller says, the model that generates the assistant's turns, the HTTP   *)
(* text-to-speech services and the phone adapter that plays the audio out. *)
(*                                                                         *)
(* The session is one object of one Node process, so whatever a callback   *)
(* does up to its next await is one step: the operators on a session c     *)
(* below are the methods it calls on the way, and an action is a callback. *)
(* Once a turn is superseded, the rest of its stream changes nothing, so   *)
(* only its tool call, which nobody cancels, is kept.  Once the line is    *)
(* gone nobody hears what the session still does, and the model stops.     *)
(***************************************************************************)
EXTENDS Naturals, FiniteSets, SequencesExt

CONSTANTS MaxUtterances,   \* bound on what the caller says
          MaxSentences,    \* bound on the sentences of a turn
          MaxTools,        \* bound on the tool calls of the call
          MaxNudges,       \* MAX_NUDGE_ATTEMPTS, 2 in the code
          MaxReminders,    \* REMINDER_MAX_ATTEMPTS, 3 in the code
          Moves,           \* the steps the model may move the flow to
          Reminding,       \* the steps with a reminderMessageFrequencySec
          Waits            \* how an utterance is answered, see EndOfTurn

(* The steps of the flow, which has no cycle: "ask", the first, and "check" *)
(* ask the caller for fields, "lookup" runs as soon as the flow enters it,  *)
(* and so does "goodbye", which ends the call.                             *)
Steps     == <<"ask", "check", "lookup", "goodbye">>
Asking    == {"ask", "check"}
Advancing == {"lookup", "goodbye"}

ASSUME TurnsAssumption ==
  /\ {MaxUtterances, MaxSentences, MaxTools, MaxNudges, MaxReminders} \subseteq Nat
  /\ Moves \subseteq ToSet(Steps) /\ Reminding \subseteq ToSet(Steps)
  /\ Waits \subseteq {"now", "hold", "wait"}

VARIABLES
  call,      \* the CallSession and its phone adapter
  speech,    \* the caller: "quiet", "words" or, if they cut in, "interrupting"
  heard      \* how many utterances Deepgram has reported

vars == <<call, speech, heard>>

Utterances == 1 .. MaxUtterances
Texts      == {q \in UNION {[1 .. n -> Utterances] : n \in 0 .. MaxUtterances} :
                 \A i, j \in DOMAIN q : q[i] = q[j] => i = j}

(* turnState.  step: its nodeType; spoken: the sentences handed to _speak(); *)
(* silent: saidNothing; next: the transition the model asked for.           *)
TurnOf(id, step) ==
  [id |-> id, step |-> step, llmDone |-> FALSE, pendingTts |-> 0, started |-> FALSE,
   spoken |-> 0, silent |-> FALSE, next |-> "none"]

NoResponse == [mode |-> "none", text |-> <<>>]

(* The call has connected and the opening turn is being generated.  off:    *)
(* the flow does not allow interruptions; limit: it has a limit on silence, *)
(* endCallAfterSilenceSec; reminder: what the silence timer may do, nothing *)
(* when it is not set.  dropped, which no code keeps: utterances whose      *)
(* reply was given up for that to a later one.                             *)
Init ==
  /\ \E off, limit \in BOOLEAN :
       call = [turnSeq |-> 1, activeTurn |-> 1, turn |-> TurnOf(1, "ask"), step |-> "ask",
               queued |-> <<>>, history |-> <<>>, responding |-> NoResponse,
               sendChain |-> <<>>, audio |-> "silent", line |-> "open", off |-> off,
               running |-> {}, tools |-> 0, nudges |-> [n \in Asking |-> 0],
               limit |-> limit, reminder |-> {}, reminders |-> 0, dropped |-> <<>>,
               closing |-> FALSE, closed |-> FALSE]
  /\ speech = "quiet"
  /\ heard = 0

-----------------------------------------------------------------------------
(* The methods of CallSession, as functions of the session.                *)

Begin(c) ==
  LET id == c.turnSeq + 1
  IN  [c EXCEPT !.turnSeq = id, !.activeTurn = id, !.turn = TurnOf(id, c.step)]

(* _speak(): the sentence takes its place in the send order at once.       *)
Speak(c) ==
  [c EXCEPT !.turn.pendingTts = @ + 1, !.turn.spoken = @ + 1,
            !.sendChain = Append(@, c.turn.id)]

(* close(), and the adapter's, which waits for the queued audio to play.   *)
Close(c) ==
  IF c.closed THEN c
  ELSE [c EXCEPT !.closed = TRUE, !.reminder = {}, !.responding = NoResponse,
                 !.line = IF c.audio = "silent" THEN "gone" ELSE @]

(* _bargeIn().  The adapter's pacing timer goes on until its next tick.    *)
BargeIn(c) ==
  IF c.activeTurn = 0 /\ c.audio # "playing" THEN c
  ELSE [c EXCEPT !.activeTurn = 0, !.reminder = {},
                 !.audio = IF @ = "silent" THEN @ ELSE "cleared"]

MustWait_OnlyIfOff(c) == c.off /\ (c.activeTurn # 0 \/ c.audio = "playing")

(* _onUserTurnComplete(): what the caller says before the turn in flight    *)
(* was heard, or while it may not be interrupted, is queued.               *)
MustWait(c) ==
  \/ c.activeTurn # 0 /\ (~ c.turn.started \/ c.off)
  \/ c.off /\ c.audio = "playing"

UserTurn(c, text) ==
  LET awake == [c EXCEPT !.reminders = 0, !.reminder = {}]
  IN  CASE c.closing   -> awake
        [] ~ c.closing /\ MustWait(c)   -> [awake EXCEPT !.queued = @ \o text]
        [] ~ c.closing /\ ~ MustWait(c) -> Begin([awake EXCEPT !.history = @ \o text])

ReplayQueued(c) == UserTurn([c EXCEPT !.queued = <<>>], c.queued)

ScheduleUserTurn_HeldTextLost(c, said, mode) ==
  LET idle == [c EXCEPT !.reminder = {}, !.responding = NoResponse]
  IN  IF mode = "now" THEN UserTurn(idle, said)
      ELSE [idle EXCEPT !.responding = [mode |-> mode, text |-> said]]

(* _scheduleUserTurn(): a number being dictated is held and joined to what  *)
(* comes next; a reply that was only waiting is given up for the new one,   *)
(* whose text the code takes for "newer (more complete)".                  *)
ScheduleUserTurn(c, said, mode) ==
  LET text == IF c.responding.mode = "hold" THEN c.responding.text \o said ELSE said
      lost == IF c.responding.mode = "wait" THEN c.responding.text ELSE <<>>
      idle == [c EXCEPT !.reminder = {}, !.responding = NoResponse, !.dropped = @ \o lost]
  IN  IF mode = "now" THEN UserTurn(idle, text)
      ELSE [idle EXCEPT !.responding = [mode |-> mode, text |-> text]]

WatchSilence_RemindersOnly(c) ==
  [c EXCEPT !.reminder = IF ~ c.closing /\ c.step \in Reminding /\ c.reminders < MaxReminders
                         THEN {"remind"} ELSE {}]

(* _scheduleReminderIfConfigured().  With neither a limit nor a reminder    *)
(* left no timer is set.                                                   *)
WatchSilence(c) ==
  LET remindOk == c.step \in Reminding /\ c.reminders < MaxReminders
      due == {a \in {"remind", "hangup"} : IF a = "remind" THEN remindOk ELSE c.limit}
  IN  [c EXCEPT !.reminder = IF c.closing THEN {} ELSE due]

(* _applyTransition(): a step entered without a word speaks at once.       *)
ApplyTransition(c) ==
  LET moved == [c EXCEPT !.step = c.turn.next]
  IN  IF c.turn.next \in Advancing \/ (c.turn.spoken = 0 /\ ~ c.closing)
      THEN Begin(moved) ELSE moved

(* A turn that recorded something and said nothing is followed by another, *)
(* and after MaxNudges of them on a step by a fixed line.                  *)
Nudge(c) ==
  IF c.nudges[c.step] < MaxNudges
  THEN Begin([c EXCEPT !.nudges[c.step] = @ + 1])
  ELSE Speak([Begin(c) EXCEPT !.turn.llmDone = TRUE])

IsOver_OnlyIfHeard(c) ==
  c.turn.llmDone /\ c.turn.pendingTts = 0 /\ c.activeTurn = c.turn.id /\ c.turn.started

(* _maybeRetireTurn(), on the turn of turnState.                           *)
IsOver(c) == c.turn.llmDone /\ c.turn.pendingTts = 0 /\ c.activeTurn = c.turn.id

Retire_NoClock(c) ==
  IF ~ IsOver(c) THEN c
  ELSE CASE c.turn.step = "goodbye" -> Close([c EXCEPT !.activeTurn = 0, !.closing = TRUE])
         [] c.turn.step # "goodbye" /\ c.turn.next # "none" ->
              ApplyTransition([c EXCEPT !.activeTurn = 0])
         [] OTHER -> IF c.queued # <<>> THEN ReplayQueued([c EXCEPT !.activeTurn = 0])
                     ELSE [c EXCEPT !.activeTurn = 0]

Retire(c) ==
  LET free == [c EXCEPT !.activeTurn = 0]
  IN  IF ~ IsOver(c) THEN c
      ELSE CASE c.turn.step = "goodbye" -> Close([free EXCEPT !.closing = TRUE])
             [] c.turn.step # "goodbye" /\ c.turn.next # "none" -> ApplyTransition(free)
             [] OTHER ->
                  IF c.queued # <<>>
                  THEN IF c.off /\ c.audio = "playing" THEN free ELSE ReplayQueued(free)
                  ELSE IF c.turn.silent /\ c.step \in Asking THEN Nudge(free)
                       ELSE WatchSilence(free)

-----------------------------------------------------------------------------
(* The model: _generateTurn() of the turn of turnState.                    *)

Connected  == call.line = "open"
Generating == Connected /\ ~ call.turn.llmDone /\ call.turn.id \notin call.running
HasFloor   == call.activeTurn = call.turn.id

(* The end of _generateTurn(), its finally block included.                 *)
Finish(c) == Retire([c EXCEPT !.turn.llmDone = TRUE])

Sentence ==
  /\ Generating /\ HasFloor
  /\ call.turn.spoken < MaxSentences
  /\ call' = Speak(call)
  /\ UNCHANGED <<speech, heard>>

(* The opening turn is not offered the tool that moves the flow.           *)
NextSteps ==
  {"none"} \cup
  {Steps[j] : j \in {i \in DOMAIN Steps : call.turn.id # 1 /\ Steps[i] \in Moves
                       /\ \E k \in 1 .. i - 1 : Steps[k] = call.turn.step}}

(* The stream ends on a spoken reply, on the fallback line if it was empty. *)
Reply(next) ==
  /\ Generating /\ HasFloor
  /\ LET said == IF call.turn.spoken = 0 THEN Speak(call) ELSE call
     IN  call' = Finish([said EXCEPT !.turn.next = next])
  /\ UNCHANGED <<speech, heard>>

(* The model called record_field or moved the flow, without a word.        *)
SilentReply(next) ==
  /\ Generating /\ HasFloor
  /\ call.turn.spoken = 0 /\ call.turn.step # "goodbye"
  /\ call' = Finish([call EXCEPT !.turn.next = next, !.turn.silent = TRUE])
  /\ UNCHANGED <<speech, heard>>

(* The request failed, or the turn was interrupted: nothing is kept of it. *)
EndsUnheard ==
  /\ Generating
  /\ call' = Finish(call)
  /\ UNCHANGED <<speech, heard>>

(* A calendar or subagent tool; its result comes back as a turn of its own, *)
(* whoever has the floor by then.                                          *)
CallTool ==
  /\ Generating /\ HasFloor
  /\ call.tools < MaxTools
  /\ call' = [call EXCEPT !.tools = @ + 1, !.running = @ \cup {call.turn.id}]
  /\ UNCHANGED <<speech, heard>>

ToolReturns ==
  /\ Connected
  /\ \E t \in call.running : call' = Begin([call EXCEPT !.running = @ \ {t}])
  /\ UNCHANGED <<speech, heard>>

Model ==
  \/ Sentence \/ EndsUnheard \/ CallTool
  \/ \E next \in NextSteps : Reply(next) \/ SilentReply(next)

-----------------------------------------------------------------------------
(* Audio: _speakHttpTts() and the adapter's paced queue.                   *)

(* The first sentence of the chain has been fetched, or its fetch failed,   *)
(* and is sent if its turn still has the floor.                            *)
SendSentence ==
  /\ Connected /\ call.sendChain # <<>>
  /\ \E audible \in BOOLEAN :
       LET id   == Head(call.sendChain)
           rest == [call EXCEPT !.sendChain = Tail(@)]
           sent == IF audible /\ call.activeTurn = id
                   THEN [rest EXCEPT !.turn.started = TRUE, !.audio = "playing"] ELSE rest
       IN  call' = IF call.turn.id = id
                   THEN Retire([sent EXCEPT !.turn.pendingTts = @ - 1]) ELSE sent
  /\ UNCHANGED <<speech, heard>>

OnAudioDrained_NoReplay(c) == c

(* _onAudioDrained().                                                       *)
OnAudioDrained(c) ==
  IF c.queued = <<>> \/ c.activeTurn # 0 \/ c.closing THEN c ELSE ReplayQueued(c)

AudioDrained ==
  /\ Connected /\ call.audio # "silent"
  /\ call' = OnAudioDrained([call EXCEPT !.audio = "silent",
                                         !.line = IF call.closed THEN "gone" ELSE @])
  /\ UNCHANGED <<speech, heard>>

-----------------------------------------------------------------------------
(* Timers.                                                                 *)

(* The caller has been silent: remind them, or hang up when it is too long. *)
SilenceTimer ==
  /\ Connected /\ call.reminder # {}
  /\ LET fired == [call EXCEPT !.reminder = {}]
     IN  IF call.closing \/ call.activeTurn # 0 THEN call' = fired
         ELSE \/ /\ "hangup" \in call.reminder
                 /\ call' = Close([fired EXCEPT !.closing = TRUE])
              \/ /\ "remind" \in call.reminder
                 /\ call' = Begin([fired EXCEPT !.reminders = @ + 1])
  /\ UNCHANGED <<speech, heard>>

ResponseTimer ==
  /\ Connected /\ call.responding # NoResponse
  /\ call' = UserTurn([call EXCEPT !.responding = NoResponse], call.responding.text)
  /\ UNCHANGED <<speech, heard>>

-----------------------------------------------------------------------------
(* The caller, as Deepgram reports them.                                   *)

(* StartOfTurn and the first Update with enough words, which interrupts; a  *)
(* sound that never becomes words does nothing.                            *)
Update ==
  /\ speech = "quiet" /\ ~ call.closed /\ ~ call.off
  /\ heard < MaxUtterances
  /\ call' = BargeIn(call)
  /\ speech' = IF call' = call THEN "words" ELSE "interrupting"
  /\ UNCHANGED heard

(* mode: answered "now"; held, a number being dictated; or after a "wait".  *)
EndOfTurn ==
  /\ heard < MaxUtterances /\ ~ call.closed
  /\ speech' = "quiet"
  /\ heard' = heard + 1
  /\ \E mode \in Waits : call' = ScheduleUserTurn(call, <<heard + 1>>, mode)

HangUp ==
  /\ ~ call.closed
  /\ call' = [Close(call) EXCEPT !.line = "gone"]
  /\ UNCHANGED <<speech, heard>>

Next ==
  \/ Model \/ ToolReturns \/ SendSentence \/ AudioDrained \/ SilenceTimer \/ ResponseTimer
  \/ Update \/ EndOfTurn \/ HangUp

(* Requests to the model, the tools and the speech service end, timers fire *)
(* and the paced queue plays; whoever was understood stops speaking.       *)
Fairness ==
  /\ WF_vars(Model) /\ WF_vars(ToolReturns) /\ WF_vars(SendSentence)
  /\ WF_vars(AudioDrained) /\ WF_vars(SilenceTimer) /\ WF_vars(ResponseTimer)
  /\ WF_vars(speech # "quiet" /\ EndOfTurn)

Spec == Init /\ [][Next]_vars /\ Fairness

-----------------------------------------------------------------------------
(* Types, and the caps on reminders and nudges; the floor belongs to the    *)
(* turn of turnState or to nobody.                                         *)
TypeOK ==
  /\ call.turnSeq \in Nat \ {0}
  /\ call.activeTurn \in {0, call.turn.id}
  /\ call.turn \in [id: {call.turnSeq}, step: ToSet(Steps), llmDone: BOOLEAN,
                    pendingTts: 0 .. MaxSentences + 1, started: BOOLEAN,
                    spoken: 0 .. MaxSentences + 1, silent: BOOLEAN,
                    next: ToSet(Steps) \cup {"none"}]
  /\ call.step \in ToSet(Steps)
  /\ {call.queued, call.history, call.dropped} \subseteq Texts
  /\ call.responding \in [mode: Waits \cup {"none"}, text: Texts]
  /\ ToSet(call.sendChain) \subseteq 1 .. call.turnSeq
  /\ call.audio \in {"silent", "playing", "cleared"}
  /\ call.line \in {"open", "gone"}
  /\ {call.off, call.limit, call.closing, call.closed} \subseteq BOOLEAN
  /\ call.reminder \subseteq {"remind", "hangup"}
  /\ call.running \subseteq 1 .. call.turnSeq
  /\ call.tools \in 0 .. MaxTools
  /\ call.nudges \in [Asking -> 0 .. MaxNudges]
  /\ call.reminders \in 0 .. MaxReminders
  /\ speech \in {"quiet", "words", "interrupting"}
  /\ heard \in 0 .. MaxUtterances

(* Nobody holds the floor for nothing: its turn is being generated, waits   *)
(* for a tool, or has a sentence to send.  A turn that is over and kept    *)
(* the floor would queue whatever the caller says for good.                *)
FloorIsUsed ==
  call.activeTurn # 0 =>
    \/ ~ call.turn.llmDone
    \/ call.activeTurn \in ToSet(call.sendChain)

(* While the call lasts, whatever the caller said is in the history, or in  *)
(* the queue, or about to be answered, and in one of them only; unless its  *)
(* reply was waiting and was given up for a later utterance.               *)
NotLost ==
  LET said == call.history \o call.queued \o call.responding.text \o call.dropped
  IN  ~ call.closed => Len(said) = heard /\ ToSet(said) = 1 .. heard

(* The flow moved, after a spoken turn, to a step that waits for the        *)
(* caller: _applyTransition starts no turn, and _maybeRetireTurn returns   *)
(* before it replays the queue or starts the silence clock.                *)
MovedOn == call.activeTurn = 0 /\ call.turn.next # "none"

(* The flow does not limit silence, and has no reminder left: "the call is  *)
(* left to whatever normal hangup/timeout handling" there is elsewhere     *)
(* (server.js:2790-2792).                                                  *)
Unwatched == ~ call.limit /\ (call.step \notin Reminding \/ call.reminders >= MaxReminders)

(* Whenever nobody speaks and nothing is about to make them, the silence    *)
(* clock is running if the flow has one, or queued words wait for the audio *)
(* to drain (but see MovedOn).                                             *)
SilenceWatched ==
  (/\ call.activeTurn = 0 /\ ~ call.closed /\ ~ MovedOn
   /\ speech = "quiet"
   /\ call.responding = NoResponse)
  => \/ call.reminder # {}
     \/ call.queued # <<>> /\ call.audio = "playing"
     \/ Unwatched /\ call.queued = <<>>

(* A turn loses the floor when it has nothing left to say; when the caller  *)
(* interrupts it, or finishes an utterance after it was heard, if          *)
(* interruptions are allowed; and to the result of a tool, its own or that *)
(* of a turn before it, which asks nobody.  An utterance alone never takes *)
(* it from a turn that was not heard (server.js:2865-2887).                *)
LosesFloor(t) ==
  \/ /\ t \notin ToSet(call'.sendChain) /\ t \notin call.running
     /\ call'.running = call.running
     /\ heard' = heard /\ (call'.responding = call.responding \/ call'.closed)
  \/ speech' = "interrupting" /\ ~ call.off
  \/ call.turn.started /\ ~ call.off /\ Len(call'.history) > Len(call.history)
  \/ call.running \ call'.running # {}

FloorKept ==
  [][call.activeTurn \notin {0, call'.activeTurn} => LosesFloor(call.activeTurn)]_vars

(* After a barge-in "no active turn is allowed to speak until the next      *)
(* final transcript" (server.js:5965).                                     *)
SilentAfterBargeIn ==
  [][speech = "interrupting" /\ speech' = "interrupting" => call'.activeTurn = 0]_vars

(* Whatever the caller said is taken up in a turn before long, or given up  *)
(* for what they said after it, or the call ends: no utterance stays in the *)
(* queue.                                                                  *)
Answered ==
  []<>(ToSet(call.history) \cup ToSet(call.dropped) = 1 .. heard \/ call.closed \/ MovedOn)

(* Nobody speaks, nothing is left to say, and no clock watches.            *)
LeftAlone ==
  /\ Unwatched /\ call.reminder = {}
  /\ call.activeTurn = 0 /\ call.queued = <<>> /\ call.responding = NoResponse

(* A caller who has nothing more to say does not keep the call up: through  *)
(* any nudges, tools, reminders and failures the session closes in the end; *)
(* without a limit on silence it may be left alone instead.                *)
CallEnds == <>[](call.closed \/ MovedOn \/ LeftAlone)
=============================================================================
