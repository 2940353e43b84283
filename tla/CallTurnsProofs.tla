--------------------------- MODULE CallTurnsProofs ---------------------------
(***************************************************************************)
(* Proofs about the turn engine of a call.  First the methods of           *)
(* CallSession, as lemmas about any session: Good is what every one of     *)
(* them keeps, RetireGood says what _maybeRetireTurn does of a turn that   *)
(* is over.  Then one lemma per action, each of which establishes all of   *)
(* StepKeeps: the invariant, where the words are, who may take the floor.  *)
(***************************************************************************)
EXTENDS CallTurns, TLAPS

-----------------------------------------------------------------------------
(* The types of a session, and what its methods rely on.                   *)

Turns ==
  [id: Nat, step: ToSet(Steps), llmDone: BOOLEAN, pendingTts: Int, started: BOOLEAN,
   spoken: Nat, silent: BOOLEAN, next: ToSet(Steps) \cup {"none"}]

Responses == [mode: Waits \cup {"none"}, text: Seq(Nat)]

Sessions ==
  [turnSeq: Nat, activeTurn: Nat, turn: Turns, step: ToSet(Steps),
   queued: Seq(Nat), history: Seq(Nat), responding: Responses,
   sendChain: Seq(Nat), audio: {"silent", "playing", "cleared"}, line: {"open", "gone"},
   off: BOOLEAN, running: SUBSET Nat, tools: Nat, nudges: [Asking -> Nat],
   limit: BOOLEAN, reminder: SUBSET {"remind", "hangup"}, reminders: Nat,
   dropped: Seq(Nat), closing: BOOLEAN, closed: BOOLEAN]

(* The sentences of the turn of turnState that are not sent yet are the last *)
(* of the send order.                                                      *)
Waiting(c) ==
  /\ c.turn.pendingTts \in 0 .. Len(c.sendChain)
  /\ \A i \in 1 .. Len(c.sendChain) :
       c.sendChain[i] = c.turn.id <=> i > Len(c.sendChain) - c.turn.pendingTts

(* Turns are numbered in order, and only the last of them holds the floor;  *)
(* a turn that waits for a tool is not over.                               *)
Numbered(c) ==
  /\ c.turnSeq # 0 /\ c.turn.id = c.turnSeq
  /\ c.activeTurn \in {0, c.turn.id}
  /\ \A i \in 1 .. Len(c.sendChain) : c.sendChain[i] \in 1 .. c.turnSeq
  /\ c.running \subseteq 1 .. c.turnSeq
  /\ c.turn.llmDone => c.turn.id \notin c.running

(* A reply that is put off has words; a session that closes is closed by    *)
(* the end of the callback.                                                *)
Answering(c) ==
  /\ c.responding.mode = "none" <=> c.responding.text = <<>>
  /\ c.responding.mode # "now"
  /\ c.closing => c.closed

Good(c) == c \in Sessions /\ Waiting(c) /\ Numbered(c) /\ Answering(c)

(* FloorIsUsed and SilenceWatched, of a session.                           *)
Used(c) == c.activeTurn # 0 => ~ c.turn.llmDone \/ c.turn.pendingTts > 0

ClockLess(c) == ~ c.limit /\ (c.step \notin Reminding \/ c.reminders >= MaxReminders)

Watched(c) ==
  (/\ c.activeTurn = 0 /\ ~ c.closed /\ c.turn.next = "none" /\ c.responding.mode = "none")
  => \/ c.reminder # {}
     \/ c.queued # <<>> /\ c.audio = "playing"
     \/ ClockLess(c) /\ c.queued = <<>>

(* What Watched needs to know of the silence clock.                        *)
SameClock(c, d) ==
  /\ d.reminder = c.reminder /\ d.reminders = c.reminders
  /\ d.limit = c.limit /\ d.step = c.step

LEMMA FieldTypes ==
  ASSUME NEW c \in Sessions
  PROVE  /\ c.turn \in Turns /\ c.turnSeq \in Nat /\ c.activeTurn \in Nat
         /\ c.turn.id \in Nat /\ c.turn.pendingTts \in Int /\ c.turn.spoken \in Nat
         /\ c.queued \in Seq(Nat) /\ c.history \in Seq(Nat) /\ c.sendChain \in Seq(Nat)
         /\ c.responding \in Responses /\ c.responding.text \in Seq(Nat)
         /\ c.dropped \in Seq(Nat) /\ c.step \in ToSet(Steps)
<1>1. c.turn \in Turns /\ c.responding \in Responses
  BY DEF Sessions
<1>2. c.turn.id \in Nat /\ c.turn.pendingTts \in Int /\ c.turn.spoken \in Nat
  BY <1>1 DEF Turns
<1>3. c.responding.text \in Seq(Nat)
  BY <1>1 DEF Responses
<1> QED BY <1>1, <1>2, <1>3 DEF Sessions

-----------------------------------------------------------------------------
(* The methods.                                                            *)

LEMMA BeginGood ==
  ASSUME NEW c, Good(c)
  PROVE  /\ Good(Begin(c)) /\ Begin(c).activeTurn = Begin(c).turn.id
         /\ ~ Begin(c).turn.llmDone
<1> DEFINE new == TurnOf(c.turnSeq + 1, c.step)
<1>0. c \in Sessions /\ Waiting(c) /\ Numbered(c) /\ Answering(c)
  BY DEF Good
<1>1. new \in Turns /\ new.id = c.turnSeq + 1 /\ new.pendingTts = 0 /\ new.llmDone = FALSE
  BY <1>0 DEF TurnOf, Turns, Sessions
<1>2. c.turnSeq + 1 \in Nat
  BY <1>0 DEF Sessions
<1>3. Begin(c) = [c EXCEPT !.turnSeq = c.turnSeq + 1, !.activeTurn = c.turnSeq + 1, !.turn = new]
  BY DEF Begin
<1> HIDE DEF new
<1>4. Begin(c) \in Sessions
  BY <1>0, <1>1, <1>2, <1>3 DEF Sessions
<1>5. /\ Begin(c).turnSeq = c.turnSeq + 1 /\ Begin(c).activeTurn = c.turnSeq + 1
      /\ Begin(c).turn = new /\ Begin(c).sendChain = c.sendChain /\ Begin(c).running = c.running
      /\ Begin(c).responding = c.responding /\ Begin(c).closing = c.closing
      /\ Begin(c).closed = c.closed
  BY <1>0, <1>3 DEF Sessions
<1>6. Waiting(Begin(c))
  BY <1>0, <1>1, <1>5, FieldTypes DEF Waiting, Numbered
<1>7. Numbered(Begin(c))
  BY <1>0, <1>1, <1>5, FieldTypes DEF Numbered
<1>8. Answering(Begin(c))
  BY <1>0, <1>5 DEF Answering
<1> QED BY <1>1, <1>4, <1>5, <1>6, <1>7, <1>8 DEF Good

LEMMA TurnExcepts ==
  ASSUME NEW t \in Turns, NEW p \in Int, NEW s \in Nat, NEW b \in BOOLEAN,
         NEW n \in ToSet(Steps) \cup {"none"}
  PROVE  /\ [t EXCEPT !.pendingTts = p] \in Turns
         /\ [t EXCEPT !.pendingTts = p, !.spoken = s] \in Turns
         /\ [t EXCEPT !.llmDone = b] \in Turns
         /\ [t EXCEPT !.started = b] \in Turns
         /\ [t EXCEPT !.next = n] \in Turns
         /\ [t EXCEPT !.next = n, !.silent = b] \in Turns
<1>1. [t EXCEPT !.pendingTts = p] \in Turns BY DEF Turns
<1>2. [t EXCEPT !.llmDone = b] \in Turns BY DEF Turns
<1>3. [t EXCEPT !.started = b] \in Turns BY DEF Turns
<1>4. [t EXCEPT !.next = n] \in Turns BY DEF Turns
<1>5. [[t EXCEPT !.pendingTts = p] EXCEPT !.spoken = s] \in Turns BY <1>1 DEF Turns
<1>6. [[t EXCEPT !.next = n] EXCEPT !.silent = b] \in Turns BY <1>4 DEF Turns
<1>7. [[t EXCEPT !.pendingTts = p] EXCEPT !.spoken = s] = [t EXCEPT !.pendingTts = p, !.spoken = s]
   BY DEF Turns
<1>8. [[t EXCEPT !.next = n] EXCEPT !.silent = b] = [t EXCEPT !.next = n, !.silent = b]
   BY DEF Turns
<1> QED BY <1>1, <1>2, <1>3, <1>4, <1>5, <1>6, <1>7, <1>8

LEMMA AppendFacts ==
  ASSUME NEW s \in Seq(Nat), NEW x \in Nat
  PROVE  /\ Append(s, x) \in Seq(Nat) /\ Len(Append(s, x)) = Len(s) + 1
         /\ \A i \in 1 .. Len(s) + 1 : Append(s, x)[i] = IF i = Len(s) + 1 THEN x ELSE s[i]
  OBVIOUS

LEMMA SpeakGood ==
  ASSUME NEW c, Good(c)
  PROVE  /\ Good(Speak(c)) /\ Speak(c).turn.pendingTts > 0
         /\ Speak(c).activeTurn = c.activeTurn /\ Speak(c).turn.llmDone = c.turn.llmDone
         /\ Speak(c).turn.id = c.turn.id
<1> DEFINE t   == [c.turn EXCEPT !.pendingTts = @ + 1, !.spoken = @ + 1]
           all == Append(c.sendChain, c.turn.id)
<1>0. c \in Sessions /\ Waiting(c) /\ Numbered(c) /\ Answering(c)
  BY DEF Good
<1>a. c.turn \in Turns /\ c.turn.pendingTts + 1 \in Int /\ c.turn.spoken + 1 \in Nat
  BY <1>0, FieldTypes
<1>1. t \in Turns
  BY <1>a, TurnExcepts
<1>2. /\ t.id = c.turn.id /\ t.pendingTts = c.turn.pendingTts + 1 /\ t.llmDone = c.turn.llmDone
  BY <1>0, FieldTypes DEF Turns
<1>3. /\ all \in Seq(Nat) /\ Len(all) = Len(c.sendChain) + 1
      /\ \A i \in 1 .. Len(all) :
           all[i] = IF i = Len(all) THEN c.turn.id ELSE c.sendChain[i]
  <2>1. c.sendChain \in Seq(Nat) /\ c.turn.id \in Nat
    BY <1>0, FieldTypes
  <2> QED BY <2>1, AppendFacts
<1>4. Speak(c) = [[c EXCEPT !.turn = t] EXCEPT !.sendChain = all]
  BY <1>0 DEF Speak, Sessions
<1> HIDE DEF t, all
<1>5. Speak(c) \in Sessions
  BY <1>0, <1>1, <1>3, <1>4 DEF Sessions
<1>6. /\ Speak(c).turnSeq = c.turnSeq /\ Speak(c).activeTurn = c.activeTurn
      /\ Speak(c).turn = t /\ Speak(c).sendChain = all /\ Speak(c).running = c.running
      /\ Speak(c).responding = c.responding /\ Speak(c).closing = c.closing
      /\ Speak(c).closed = c.closed
  BY <1>0, <1>4 DEF Sessions
<1>b. Len(c.sendChain) \in Nat /\ c.turn.pendingTts \in Int
  BY <1>0, FieldTypes
<1>7. Waiting(Speak(c))
  <2>1. t.pendingTts \in 0 .. Len(all)
    BY <1>0, <1>b, <1>2, <1>3 DEF Waiting
  <2>2. ASSUME NEW i \in 1 .. Len(all)
        PROVE  all[i] = t.id <=> i > Len(all) - t.pendingTts
    <3>1. CASE i = Len(all)
      <4>1. c.turn.pendingTts >= 0
        BY <1>0, <1>b DEF Waiting
      <4>2. all[i] = t.id
        BY <3>1, <1>2, <1>3
      <4>3. i > Len(all) - t.pendingTts
        BY <3>1, <4>1, <1>b, <1>2, <1>3
      <4> QED BY <4>2, <4>3
    <3>2. CASE i # Len(all)
      <4>1. i \in 1 .. Len(c.sendChain) /\ all[i] = c.sendChain[i]
        BY <3>2, <1>b, <1>3
      <4> QED BY <4>1, <1>0, <1>b, <1>2, <1>3 DEF Waiting
    <3> QED BY <3>1, <3>2
  <2> QED BY <1>6, <2>1, <2>2 DEF Waiting
<1>8. Numbered(Speak(c))
  <2>1. ASSUME NEW i \in 1 .. Len(all)
        PROVE  all[i] \in 1 .. c.turnSeq
    <3>1. i # Len(all) => i \in 1 .. Len(c.sendChain)
      BY <1>b, <1>3
    <3>2. c.turn.id \in 1 .. c.turnSeq
      BY <1>0, FieldTypes DEF Numbered
    <3> QED BY <1>0, <1>3, <3>1, <3>2 DEF Numbered
  <2> QED BY <1>0, <1>2, <1>6, <2>1 DEF Numbered
<1>9. Answering(Speak(c))
  BY <1>0, <1>6 DEF Answering
<1> QED BY <1>0, <1>2, <1>5, <1>6, <1>7, <1>8, <1>9, FieldTypes DEF Good, Waiting

(* A session that differs only in what the invariant does not speak of.    *)
SameTurn(c, d) ==
  /\ d \in Sessions
  /\ d.turnSeq = c.turnSeq /\ d.turn = c.turn /\ d.sendChain = c.sendChain
  /\ d.running = c.running /\ d.activeTurn \in {0, c.activeTurn}

LEMMA SameTurnGood ==
  ASSUME NEW c, NEW d, Good(c), SameTurn(c, d), Answering(d)
  PROVE  Good(d)
BY DEF Good, SameTurn, Waiting, Numbered

LEMMA CloseGood ==
  ASSUME NEW c \in Sessions, Waiting(c), Numbered(c),
         c.responding.mode = "none" <=> c.responding.text = <<>>, c.responding.mode # "now"
  PROVE  /\ Good(Close(c)) /\ Close(c).closed /\ Close(c).activeTurn = c.activeTurn
         /\ Close(c).turn = c.turn
<1>1. NoResponse \in Responses /\ (NoResponse.mode = "none" <=> NoResponse.text = <<>>)
      /\ NoResponse.mode # "now"
  BY DEF NoResponse, Responses
<1>2. Close(c) \in Sessions
  BY <1>1 DEF Close, Sessions
<1>3. SameTurn(c, Close(c)) /\ Close(c).closed /\ Close(c).activeTurn = c.activeTurn
  BY <1>2 DEF Close, SameTurn, Sessions
<1>4. Close(c).responding \in {c.responding, NoResponse}
  BY DEF Close, Sessions
<1> QED BY <1>1, <1>2, <1>3, <1>4 DEF Good, SameTurn, Waiting, Numbered, Answering

LEMMA BargeInGood ==
  ASSUME NEW c, Good(c)
  PROVE  Good(BargeIn(c)) /\ (BargeIn(c).activeTurn = 0 \/ BargeIn(c) = c)
<1>1. SameTurn(c, BargeIn(c)) /\ (BargeIn(c).activeTurn = 0 \/ BargeIn(c) = c)
  BY DEF Good, BargeIn, SameTurn, Sessions
<1>2. Answering(BargeIn(c))
  BY DEF Good, BargeIn, Answering, Sessions
<1> QED BY <1>1, <1>2, SameTurnGood

(* What nobody said anything of: the words stay where they are.            *)
SameWords(c, d) ==
  /\ d.history = c.history /\ d.queued = c.queued /\ d.responding = c.responding
  /\ d.dropped = c.dropped

LEMMA BeginKeeps ==
  ASSUME NEW c \in Sessions
  PROVE  /\ SameWords(c, Begin(c)) /\ Begin(c).closed = c.closed
         /\ Begin(c).running = c.running
         /\ Begin(c).sendChain = c.sendChain /\ Begin(c).turnSeq = c.turnSeq + 1
BY DEF Begin, SameWords, Sessions

LEMMA SpeakKeeps ==
  ASSUME NEW c \in Sessions
  PROVE  /\ SameWords(c, Speak(c)) /\ Speak(c).closed = c.closed
         /\ Speak(c).running = c.running
         /\ Speak(c).sendChain = Append(c.sendChain, c.turn.id)
BY DEF Speak, SameWords, Sessions

LEMMA CloseKeeps ==
  ASSUME NEW c \in Sessions
  PROVE  /\ Close(c).running = c.running /\ Close(c).sendChain = c.sendChain
BY DEF Close, SameWords, Sessions

(* What becomes of words that are ready to be answered: a session that is   *)
(* closing drops them, the queue takes them, or a new turn does.           *)
Dropped(c, d) == c.closing /\ d.activeTurn = c.activeTurn /\ d.turn = c.turn

Enqueued(c, d, text) ==
  /\ c.activeTurn # 0 \/ (c.off /\ c.audio = "playing")
  /\ d.activeTurn = c.activeTurn /\ d.turn = c.turn /\ d.audio = c.audio
  /\ d.history = c.history /\ d.queued = c.queued \o text
  /\ d.sendChain = c.sendChain

Taken(c, d, text) ==
  /\ c.activeTurn # 0 => c.turn.started /\ ~ c.off
  /\ ~ (c.off /\ c.audio = "playing")
  /\ d.activeTurn = d.turn.id /\ ~ d.turn.llmDone
  /\ d.history = c.history \o text /\ d.queued = c.queued
  /\ d.sendChain = c.sendChain

LEMMA UserTurnCases ==
  ASSUME NEW c, Good(c), NEW text \in Seq(Nat)
  PROVE  LET d == UserTurn(c, text)
         IN  /\ Good(d) /\ d.closed = c.closed /\ d.responding = c.responding
             /\ d.running = c.running /\ d.dropped = c.dropped
             /\ Dropped(c, d) \/ Enqueued(c, d, text) \/ Taken(c, d, text)
<1> DEFINE awake == [c EXCEPT !.reminders = 0, !.reminder = {}]
           queue == awake.queued \o text
           told  == awake.history \o text
<1>0. c \in Sessions /\ Waiting(c) /\ Numbered(c) /\ Answering(c)
  BY DEF Good
<1>1. awake \in Sessions /\ SameTurn(c, awake) /\ SameWords(c, awake)
      /\ awake.closing = c.closing /\ awake.closed = c.closed /\ awake.off = c.off
      /\ awake.audio = c.audio /\ awake.activeTurn = c.activeTurn
  BY <1>0 DEF Sessions, SameTurn, SameWords
<1>2. UserTurn(c, text) =
        IF c.closing THEN awake
        ELSE IF MustWait(c) THEN [awake EXCEPT !.queued = queue]
             ELSE Begin([awake EXCEPT !.history = told])
  BY DEF UserTurn
<1> HIDE DEF awake
<1>3. queue \in Seq(Nat) /\ told \in Seq(Nat)
  BY <1>1, FieldTypes
<1>4. queue = c.queued \o text /\ told = c.history \o text
  BY <1>1 DEF SameWords
<1> HIDE DEF queue, told
<1>5. CASE c.closing
  <2>1. Good(awake)
    BY <1>0, <1>1, SameTurnGood DEF Answering, SameWords
  <2> QED BY <1>1, <1>2, <1>5, <2>1 DEF Dropped, SameTurn, SameWords
<1>6. CASE ~ c.closing /\ MustWait(c)
  <2> DEFINE d == [awake EXCEPT !.queued = queue]
  <2>1. d \in Sessions /\ SameTurn(awake, d) /\ d.queued = queue /\ d.history = awake.history
        /\ d.responding = awake.responding /\ d.closing = awake.closing
        /\ d.closed = awake.closed /\ d.audio = awake.audio /\ d.activeTurn = awake.activeTurn
        /\ d.dropped = awake.dropped
    BY <1>1, <1>3 DEF Sessions, SameTurn
  <2> HIDE DEF d
  <2>2. SameTurn(c, d) /\ Answering(d)
    BY <1>0, <1>1, <2>1 DEF SameTurn, Answering, SameWords
  <2>3. Good(d)
    BY <2>2, SameTurnGood
  <2>4. UserTurn(c, text) = d
    BY <1>2, <1>6 DEF d
  <2>5. Enqueued(c, d, text)
    BY <1>1, <1>4, <1>6, <2>1 DEF Enqueued, MustWait, SameTurn, SameWords
  <2> QED BY <1>1, <2>1, <2>3, <2>4, <2>5 DEF SameTurn, SameWords
<1>7. CASE ~ c.closing /\ ~ MustWait(c)
  <2> DEFINE b == [awake EXCEPT !.history = told]
  <2>1. b \in Sessions /\ SameTurn(awake, b) /\ b.history = told /\ b.queued = awake.queued
        /\ b.responding = awake.responding /\ b.closing = awake.closing
        /\ b.closed = awake.closed /\ b.dropped = awake.dropped
    BY <1>1, <1>3 DEF Sessions, SameTurn
  <2> HIDE DEF b
  <2>2. SameTurn(c, b) /\ Answering(b)
    BY <1>0, <1>1, <2>1 DEF SameTurn, Answering, SameWords
  <2>3. Good(b)
    BY <2>2, SameTurnGood
  <2>4. UserTurn(c, text) = Begin(b)
    BY <1>2, <1>7 DEF b
  <2>5. Taken(c, Begin(b), text)
    <3>1. (c.activeTurn # 0 => c.turn.started /\ ~ c.off) /\ ~ (c.off /\ c.audio = "playing")
      <4>1. c.turn.started \in BOOLEAN /\ c.off \in BOOLEAN
        BY <1>0 DEF Sessions, Turns
      <4> QED BY <1>7, <4>1 DEF MustWait
    <3>2. Begin(b).history = told /\ Begin(b).queued = c.queued
          /\ Begin(b).sendChain = c.sendChain
      BY <1>1, <2>1, <2>2, BeginKeeps DEF SameWords, SameTurn
    <3> QED BY <1>4, <2>3, <3>1, <3>2, BeginGood DEF Taken
  <2>6. Good(Begin(b))
    BY <2>3, BeginGood
  <2>7. Begin(b).closed = c.closed /\ Begin(b).responding = c.responding
        /\ Begin(b).running = c.running /\ Begin(b).dropped = c.dropped
    BY <1>1, <2>1, BeginKeeps DEF SameWords, SameTurn
  <2> QED BY <2>4, <2>5, <2>6, <2>7
<1> QED BY <1>5, <1>6, <1>7

(* The words that are answered at once, or the reply that is put off.      *)
PutOff(c, d, said, mode) ==
  /\ d.responding.mode = mode /\ SameTurn(c, d) /\ d.activeTurn = c.activeTurn
  /\ d.history = c.history /\ d.queued = c.queued
  /\ d.responding.text = said

Joined(c, said) == IF c.responding.mode = "hold" THEN c.responding.text \o said ELSE said

GivenUp(c) == c.dropped \o (IF c.responding.mode = "wait" THEN c.responding.text ELSE <<>>)

LEMMA ScheduleCases ==
  ASSUME NEW c, Good(c), NEW said \in Seq(Nat), said # <<>>, NEW mode \in Waits
  PROVE  LET d == ScheduleUserTurn(c, said, mode)
             text == Joined(c, said)
         IN  /\ Good(d) /\ d.closed = c.closed /\ d.running = c.running
             /\ text \in Seq(Nat) /\ text # <<>> /\ d.dropped = GivenUp(c)
             /\ \/ mode # "now" /\ PutOff(c, d, text, mode)
                \/ /\ d.responding = NoResponse
                   /\ Dropped(c, d) \/ Enqueued(c, d, text) \/ Taken(c, d, text)
<1> DEFINE text == Joined(c, said)
           given == GivenUp(c)
           idle == [c EXCEPT !.reminder = {}, !.responding = NoResponse, !.dropped = given]
           later == [mode |-> mode, text |-> text]
           put == [idle EXCEPT !.responding = later]
<1>0. c \in Sessions /\ Waiting(c) /\ Numbered(c) /\ Answering(c)
  BY DEF Good
<1>1. c.responding.text \in Seq(Nat) /\ c.dropped \in Seq(Nat)
  BY <1>0, FieldTypes
<1>g. given \in Seq(Nat)
  BY <1>1 DEF GivenUp
<1>2. text \in Seq(Nat) /\ text # <<>>
  BY <1>1 DEF Joined
<1>3. ScheduleUserTurn(c, said, mode) = IF mode = "now" THEN UserTurn(idle, text) ELSE put
  BY DEF ScheduleUserTurn, Joined, GivenUp
<1> HIDE DEF text, given
<1>4. NoResponse \in Responses /\ NoResponse.mode = "none" /\ NoResponse.text = <<>>
  BY DEF NoResponse, Responses
<1>5. later \in Responses /\ later.mode = mode /\ later.text = text
  BY <1>2 DEF Responses
<1> HIDE DEF later
<1>6. /\ idle \in Sessions /\ SameTurn(c, idle) /\ idle.responding = NoResponse
      /\ idle.history = c.history /\ idle.queued = c.queued /\ idle.closing = c.closing
      /\ idle.closed = c.closed /\ idle.off = c.off /\ idle.audio = c.audio
      /\ idle.activeTurn = c.activeTurn /\ idle.dropped = given
  BY <1>0, <1>4, <1>g DEF Sessions, SameTurn
<1> HIDE DEF idle
<1>7. Good(idle)
  BY <1>0, <1>4, <1>6, SameTurnGood DEF Answering
<1>8. CASE mode = "now"
  <2> DEFINE d == UserTurn(idle, text)
  <2>1. /\ Good(d) /\ d.closed = idle.closed /\ d.responding = idle.responding
        /\ d.running = idle.running /\ d.dropped = idle.dropped
        /\ Dropped(idle, d) \/ Enqueued(idle, d, text) \/ Taken(idle, d, text)
    BY <1>2, <1>7, UserTurnCases
  <2> HIDE DEF d
  <2>2. Dropped(c, d) \/ Enqueued(c, d, text) \/ Taken(c, d, text)
    BY <1>6, <2>1 DEF Dropped, Enqueued, Taken, SameTurn
  <2>3. ScheduleUserTurn(c, said, mode) = d
    BY <1>3, <1>8 DEF d
  <2> QED BY <1>2, <1>6, <2>1, <2>2, <2>3 DEF text, given, SameTurn
<1>9. CASE mode # "now"
  <2>1. /\ put \in Sessions /\ SameTurn(c, put) /\ put.responding = later
        /\ put.history = c.history /\ put.queued = c.queued /\ put.closing = c.closing
        /\ put.closed = c.closed /\ put.activeTurn = c.activeTurn /\ put.running = c.running
        /\ put.dropped = given
    BY <1>5, <1>6 DEF Sessions, SameTurn
  <2> HIDE DEF put
  <2>2. mode # "none"
    BY TurnsAssumption
  <2>3. Good(put)
    BY <1>0, <1>2, <1>5, <1>9, <2>1, <2>2, SameTurnGood DEF Answering
  <2>4. PutOff(c, put, text, mode)
    BY <1>5, <2>1 DEF PutOff
  <2>5. ScheduleUserTurn(c, said, mode) = put
    BY <1>3, <1>9 DEF put
  <2> QED BY <1>2, <1>9, <2>1, <2>3, <2>4, <2>5 DEF text, given
<1> QED BY <1>8, <1>9

(* What a turn that is over leaves behind.                                 *)
NotWaiting(c, d) == \A i \in 1 .. Len(d.sendChain) : d.sendChain[i] # c.turn.id

WordsKept(c, d) ==
  \/ SameWords(c, d)
  \/ d.closed
  \/ /\ d.history = c.history \o c.queued /\ d.queued = <<>>
     /\ d.responding = c.responding /\ d.dropped = c.dropped

Settled(c, d) ==
  /\ Good(d) /\ Used(d) /\ Watched(d)
  /\ WordsKept(c, d) /\ (c.closed => d.closed)
  /\ d.running = c.running

Freed(c, d) == Settled(c, d) /\ NotWaiting(c, d)

LEMMA NudgeGood ==
  ASSUME NEW c, Good(c), c.turn.pendingTts = 0, c.step \in Asking
  PROVE  Freed(c, Nudge(c))
<1>0. c \in Sessions /\ Waiting(c) /\ Numbered(c) /\ Answering(c)
  BY DEF Good
<1>1. NotWaiting(c, c)
  BY <1>0, FieldTypes DEF NotWaiting, Waiting
<1>2. CASE c.nudges[c.step] < MaxNudges
  <2> DEFINE new == [c.nudges EXCEPT ![c.step] = @ + 1]
             b   == [c EXCEPT !.nudges = new]
  <2>1. new \in [Asking -> Nat]
    BY <1>0 DEF Sessions
  <2>2. Nudge(c) = Begin(b)
    BY <1>2 DEF Nudge
  <2> HIDE DEF new
  <2>3. b \in Sessions /\ SameTurn(c, b) /\ SameWords(c, b) /\ b.closing = c.closing
        /\ b.closed = c.closed
    BY <1>0, <2>1 DEF Sessions, SameTurn, SameWords
  <2> HIDE DEF b
  <2>4. Good(b)
    BY <1>0, <2>3, SameTurnGood DEF Answering, SameWords
  <2>5. /\ SameWords(b, Begin(b)) /\ Begin(b).closed = b.closed /\ Begin(b).running = b.running
        /\ Begin(b).sendChain = b.sendChain
    BY <2>3, BeginKeeps
  <2> DEFINE d == Begin(b)
  <2>6. Good(d) /\ d.activeTurn = d.turn.id /\ ~ d.turn.llmDone
    BY <2>4, BeginGood
  <2> HIDE DEF d
  <2>7. d.activeTurn # 0
    BY <2>6 DEF Good, Numbered
  <2>8. NotWaiting(c, d) /\ SameWords(c, d) /\ d.closed = c.closed /\ d.running = c.running
    BY <1>1, <2>3, <2>5 DEF d, NotWaiting, SameTurn, SameWords
  <2>9. Used(d) /\ Watched(d) /\ WordsKept(c, d)
    BY <2>6, <2>7, <2>8 DEF Used, Watched, WordsKept
  <2> QED BY <2>2, <2>6, <2>8, <2>9 DEF d, Freed, Settled
<1>3. CASE ~ (c.nudges[c.step] < MaxNudges)
  <2> DEFINE b == Begin(c)
             t == [b.turn EXCEPT !.llmDone = TRUE]
             f == [b EXCEPT !.turn = t]
             d == Speak(f)
  <2>1. /\ Good(b) /\ b.activeTurn = b.turn.id
        /\ SameWords(c, b) /\ b.closed = c.closed /\ b.running = c.running
        /\ b.sendChain = c.sendChain /\ b.turnSeq = c.turnSeq + 1
    BY <1>0, BeginGood, BeginKeeps
  <2>2. Nudge(c) = d
    <3>1. f = [b EXCEPT !.turn.llmDone = TRUE]
      BY <2>1 DEF Good, Sessions
    <3> QED BY <1>3, <3>1 DEF Nudge
  <2> HIDE DEF b
  <2>3. b \in Sessions /\ b.turn \in Turns
    BY <2>1, FieldTypes DEF Good
  <2>4. t \in Turns /\ t.id = b.turn.id /\ t.pendingTts = b.turn.pendingTts
    BY <2>3 DEF Turns
  <2> HIDE DEF t
  <2>5. /\ f \in Sessions /\ f.turn = t /\ f.turnSeq = b.turnSeq /\ f.activeTurn = b.activeTurn
        /\ f.sendChain = b.sendChain /\ f.running = b.running /\ f.responding = b.responding
        /\ f.closing = b.closing /\ f.closed = b.closed /\ SameWords(b, f)
    BY <2>3, <2>4 DEF Sessions, SameWords
  <2> HIDE DEF f
  <2>6. b.turn.id \notin c.running /\ b.turn.id # c.turn.id
    BY <1>0, <2>1, FieldTypes DEF Good, Numbered
  <2>7. Good(f)
    BY <2>1, <2>4, <2>5, <2>6 DEF Good, Waiting, Numbered, Answering
  <2>8. /\ Good(d) /\ d.turn.pendingTts > 0 /\ d.activeTurn = f.activeTurn
        /\ SameWords(f, d) /\ d.closed = f.closed /\ d.running = f.running
        /\ d.sendChain = Append(f.sendChain, f.turn.id)
    BY <2>5, <2>7, SpeakGood, SpeakKeeps
  <2> HIDE DEF d
  <2>9. NotWaiting(c, d)
    <3>1. c.sendChain \in Seq(Nat) /\ f.turn.id \in Nat /\ f.turn.id # c.turn.id
          /\ d.sendChain = Append(c.sendChain, f.turn.id)
      BY <1>0, <2>1, <2>4, <2>5, <2>6, <2>8, FieldTypes
    <3> QED BY <1>1, <3>1, AppendFacts DEF NotWaiting
  <2>10. d.activeTurn # 0
    BY <2>1, <2>5, <2>8 DEF Good, Numbered
  <2>11. SameWords(c, d) /\ d.closed = c.closed /\ d.running = c.running
    BY <2>1, <2>5, <2>8 DEF SameWords
  <2> QED BY <2>2, <2>8, <2>9, <2>10, <2>11 DEF Freed, Settled, Used, Watched, WordsKept
<1> QED BY <1>2, <1>3

(* A turn of which nothing waits to be sent gave up the floor.             *)
LEMMA ApplyTransitionGood ==
  ASSUME NEW c, Good(c), c.turn.pendingTts = 0, c.activeTurn = 0, c.turn.next # "none"
  PROVE  Freed(c, ApplyTransition(c))
<1> DEFINE moved == [c EXCEPT !.step = c.turn.next]
<1>0. c \in Sessions /\ Waiting(c) /\ Numbered(c) /\ Answering(c)
  BY DEF Good
<1>1. NotWaiting(c, c)
  BY <1>0, FieldTypes DEF NotWaiting, Waiting
<1>2. c.turn.next \in ToSet(Steps)
  BY <1>0, FieldTypes DEF Turns
<1>3. ApplyTransition(c) \in {moved, Begin(moved)}
  BY DEF ApplyTransition
<1>4. moved \in Sessions /\ SameTurn(c, moved) /\ SameWords(c, moved)
      /\ moved.closing = c.closing /\ moved.closed = c.closed /\ moved.activeTurn = 0
  BY <1>0, <1>2 DEF Sessions, SameTurn, SameWords
<1> HIDE DEF moved
<1>5. Good(moved)
  BY <1>0, <1>4, SameTurnGood DEF Answering, SameWords
<1>6. CASE ApplyTransition(c) = moved
  <2>1. NotWaiting(c, moved)
    BY <1>1, <1>4 DEF NotWaiting, SameTurn
  <2> QED BY <1>4, <1>5, <1>6, <2>1 DEF Freed, Settled, Used, Watched, WordsKept, SameTurn
<1>7. CASE ApplyTransition(c) = Begin(moved)
  <2> DEFINE d == Begin(moved)
  <2>1. /\ Good(d) /\ d.activeTurn = d.turn.id /\ ~ d.turn.llmDone
        /\ SameWords(moved, d) /\ d.closed = moved.closed /\ d.running = moved.running
        /\ d.sendChain = moved.sendChain
    BY <1>4, <1>5, BeginGood, BeginKeeps
  <2> HIDE DEF d
  <2>2. d.activeTurn # 0
    BY <2>1 DEF Good, Numbered
  <2>3. NotWaiting(c, d) /\ SameWords(c, d) /\ d.running = c.running
    BY <1>1, <1>4, <2>1 DEF NotWaiting, SameTurn, SameWords
  <2> QED BY <1>4, <1>7, <2>1, <2>2, <2>3 DEF Freed, Settled, Used, Watched, WordsKept, d
<1> QED BY <1>3, <1>6, <1>7

LEMMA ReplayGood ==
  ASSUME NEW c, Good(c), c.activeTurn = 0, ~ (c.off /\ c.audio = "playing")
  PROVE  /\ Settled(c, ReplayQueued(c))
         /\ c.turn.pendingTts = 0 => NotWaiting(c, ReplayQueued(c))
<1> DEFINE b == [c EXCEPT !.queued = <<>>]
           d == UserTurn(b, c.queued)
<1>0. c \in Sessions /\ Waiting(c) /\ Numbered(c) /\ Answering(c)
  BY DEF Good
<1>1. c.turn.pendingTts = 0 => NotWaiting(c, c)
  BY <1>0, FieldTypes DEF NotWaiting, Waiting
<1>2. /\ b \in Sessions /\ SameTurn(c, b) /\ b.history = c.history /\ b.queued = <<>>
      /\ b.responding = c.responding /\ b.closing = c.closing /\ b.closed = c.closed
      /\ b.off = c.off /\ b.audio = c.audio /\ b.activeTurn = 0 /\ b.dropped = c.dropped
  <2>1. <<>> \in Seq(Nat)
    OBVIOUS
  <2> QED BY <1>0, <2>1 DEF Sessions, SameTurn
<1>3. ReplayQueued(c) = d
  BY DEF ReplayQueued
<1> HIDE DEF b
<1>4. Good(b) /\ c.queued \in Seq(Nat)
  BY <1>0, <1>2, SameTurnGood, FieldTypes DEF Answering
<1>5. /\ Good(d) /\ d.closed = b.closed /\ d.responding = b.responding /\ d.running = b.running
      /\ d.dropped = b.dropped
      /\ Dropped(b, d) \/ Enqueued(b, d, c.queued) \/ Taken(b, d, c.queued)
  BY <1>4, UserTurnCases
<1> HIDE DEF d
<1>6. ~ Enqueued(b, d, c.queued)
  BY <1>2 DEF Enqueued
<1>7. CASE Dropped(b, d)
  <2>1. d.closed
    BY <1>0, <1>2, <1>5, <1>7 DEF Dropped, Answering
  <2>2. c.turn.pendingTts = 0 => NotWaiting(c, d)
    <3> SUFFICES ASSUME c.turn.pendingTts = 0 PROVE NotWaiting(c, d)
      OBVIOUS
    <3>1. d.turn = c.turn /\ d.activeTurn = 0
      BY <1>2, <1>7 DEF Dropped, SameTurn
    <3>2. d.turn.pendingTts = 0 /\ Waiting(d) /\ d \in Sessions
      BY <1>5, <3>1 DEF Good
    <3> QED BY <3>1, <3>2, FieldTypes DEF NotWaiting, Waiting
  <2>3. d.activeTurn = 0 /\ d.running = c.running
    BY <1>2, <1>5, <1>7 DEF Dropped, SameTurn
  <2> QED BY <1>3, <1>5, <2>1, <2>2, <2>3 DEF Settled, Used, Watched, WordsKept
<1>8. CASE Taken(b, d, c.queued)
  <2>1. c.turn.pendingTts = 0 => NotWaiting(c, d)
    BY <1>1, <1>2, <1>8 DEF Taken, NotWaiting, SameTurn
  <2>2. d.activeTurn # 0
    BY <1>5, <1>8 DEF Taken, Good, Numbered
  <2>3. d.history = c.history \o c.queued /\ d.queued = <<>> /\ d.responding = c.responding
        /\ d.running = c.running /\ d.closed = c.closed /\ ~ d.turn.llmDone
        /\ d.dropped = c.dropped
    BY <1>2, <1>5, <1>8 DEF Taken, SameTurn
  <2> QED BY <1>3, <1>5, <2>1, <2>2, <2>3 DEF Settled, Used, Watched, WordsKept
<1> QED BY <1>5, <1>6, <1>7, <1>8

(* _maybeRetireTurn() does nothing, or gives up the floor and leaves        *)
(* nothing of the turn behind.                                             *)
LEMMA RetireGood ==
  ASSUME NEW c, Good(c)
  PROVE  \/ ~ IsOver(c) /\ Retire(c) = c
         \/ IsOver(c) /\ Freed(c, Retire(c))
<1> DEFINE free == [c EXCEPT !.activeTurn = 0]
<1>0. c \in Sessions /\ Waiting(c) /\ Numbered(c) /\ Answering(c)
  BY DEF Good
<1>1. CASE ~ IsOver(c)
  BY <1>1 DEF Retire
<1>2. CASE IsOver(c)
  <2>1. c.turn.pendingTts = 0
    BY <1>2 DEF IsOver
  <2>2. free \in Sessions /\ SameTurn(c, free) /\ SameWords(c, free) /\ free.activeTurn = 0
        /\ free.closing = c.closing /\ free.closed = c.closed /\ free.off = c.off
        /\ free.audio = c.audio /\ free.step = c.step
    BY <1>0 DEF Sessions, SameTurn, SameWords
  <2>3. Good(free) /\ free.turn = c.turn
    BY <1>0, <2>2, SameTurnGood DEF Answering, SameWords, SameTurn
  <2>4. ASSUME NEW d, Freed(free, d) PROVE Freed(c, d)
    BY <2>2, <2>4 DEF Freed, Settled, WordsKept, SameWords, NotWaiting, SameTurn
  <2>5. NotWaiting(free, free)
    BY <2>1, <2>2, <2>3, FieldTypes DEF NotWaiting, Waiting, Good
  <2>6. CASE c.turn.step = "goodbye"
    <3> DEFINE e == [free EXCEPT !.closing = TRUE]
    <3>1. e \in Sessions /\ SameTurn(free, e) /\ e.responding = free.responding
          /\ e.activeTurn = 0
      BY <2>2 DEF Sessions, SameTurn
    <3>2. Retire(c) = Close(e)
      BY <1>2, <2>6 DEF Retire
    <3> HIDE DEF e
    <3>3. Waiting(e) /\ Numbered(e) /\ (e.responding.mode = "none" <=> e.responding.text = <<>>)
          /\ e.responding.mode # "now"
      BY <2>3, <3>1 DEF Good, SameTurn, Waiting, Numbered, Answering
    <3> DEFINE d == Close(e)
    <3>4. Good(d) /\ d.closed /\ d.activeTurn = 0 /\ d.turn = e.turn
          /\ d.running = e.running /\ d.sendChain = e.sendChain
      BY <3>1, <3>3, CloseGood, CloseKeeps
    <3> HIDE DEF d
    <3>5. Freed(free, d)
      BY <2>5, <3>1, <3>4 DEF Freed, Settled, Used, Watched, WordsKept, NotWaiting, SameTurn
    <3> QED BY <1>2, <2>4, <3>2, <3>5 DEF d
  <2>7. CASE c.turn.step # "goodbye" /\ c.turn.next # "none"
    <3>1. Retire(c) = ApplyTransition(free)
      BY <1>2, <2>7 DEF Retire
    <3>2. Freed(free, ApplyTransition(free))
      BY <2>1, <2>2, <2>3, <2>7, ApplyTransitionGood
    <3> QED BY <1>2, <2>4, <3>1, <3>2
  <2>8. CASE c.turn.step # "goodbye" /\ c.turn.next = "none"
    <3>1. Retire(c) = IF c.queued # <<>>
                      THEN IF c.off /\ c.audio = "playing" THEN free ELSE ReplayQueued(free)
                      ELSE IF c.turn.silent /\ c.step \in Asking THEN Nudge(free)
                           ELSE WatchSilence(free)
      BY <1>2, <2>8 DEF Retire
    <3>2. CASE c.queued # <<>> /\ c.off /\ c.audio = "playing"
      <4>1. Freed(free, free)
        BY <2>2, <2>3, <2>5, <3>2 DEF Freed, Settled, Used, Watched, WordsKept, SameWords
      <4> QED BY <1>2, <2>4, <3>1, <3>2, <4>1
    <3>3. CASE c.queued # <<>> /\ ~ (c.off /\ c.audio = "playing")
      <4>1. Freed(free, ReplayQueued(free))
        BY <2>1, <2>2, <2>3, <3>3, ReplayGood DEF Freed
      <4> QED BY <1>2, <2>4, <3>1, <3>3, <4>1
    <3>4. CASE c.queued = <<>> /\ c.turn.silent /\ c.step \in Asking
      <4>1. Freed(free, Nudge(free))
        BY <2>1, <2>2, <2>3, <3>4, NudgeGood
      <4> QED BY <1>2, <2>4, <3>1, <3>4, <4>1
    <3>5. CASE c.queued = <<>> /\ ~ (c.turn.silent /\ c.step \in Asking)
      <4> DEFINE d == WatchSilence(free)
                 remindOk == free.step \in Reminding /\ free.reminders < MaxReminders
                 due == {a \in {"remind", "hangup"} : IF a = "remind" THEN remindOk ELSE free.limit}
                 set == IF free.closing THEN {} ELSE due
      <4>a. d = [free EXCEPT !.reminder = set] /\ set \in SUBSET {"remind", "hangup"}
        BY DEF WatchSilence
      <4> HIDE DEF set
      <4>1. d \in Sessions /\ SameTurn(free, d) /\ SameWords(free, d) /\ d.closing = free.closing
            /\ d.closed = free.closed /\ d.activeTurn = 0 /\ d.queued = <<>>
            /\ d.limit = free.limit /\ d.step = free.step /\ d.reminders = free.reminders
            /\ d.reminder = set
        BY <2>2, <3>5, <4>a DEF SameTurn, SameWords, Sessions
      <4> HIDE DEF d
      <4>2. Good(d)
        BY ZenonT(40), <2>3, <4>1, SameTurnGood DEF Good, Answering, SameWords
      <4>3. Watched(d)
        <5>1. free.reminders \in Nat /\ MaxReminders \in Nat
          BY <2>2, TurnsAssumption DEF Sessions
        <5>2. ClockLess(d) \/ remindOk \/ free.limit
          BY <4>1, <5>1 DEF ClockLess
        <5>3. remindOk => "remind" \in due
          OBVIOUS
        <5>4. free.limit => "hangup" \in due
          OBVIOUS
        <5> HIDE DEF due, remindOk
        <5>5. ClockLess(d) \/ due # {}
          BY <5>2, <5>3, <5>4
        <5>7. d.reminder = IF free.closing THEN {} ELSE due
          BY <4>1 DEF set
        <5>6. d.closing = free.closing /\ (d.closing => d.closed)
          BY <4>1, <4>2 DEF Good, Answering
        <5> QED BY <4>1, <5>5, <5>6, <5>7 DEF Watched
      <4>4. NotWaiting(free, d)
        BY <2>5, <4>1 DEF NotWaiting, SameTurn
      <4>5. Freed(free, d)
        BY <4>1, <4>2, <4>3, <4>4 DEF Freed, Settled, Used, WordsKept, SameTurn
      <4> QED BY <1>2, <2>4, <3>1, <3>5, <4>5 DEF d
    <3> QED BY <3>2, <3>3, <3>4, <3>5
  <2> QED BY <2>6, <2>7, <2>8
<1> QED BY <1>1, <1>2

(* The end of _generateTurn().                                             *)
LEMMA FinishGood ==
  ASSUME NEW c, Good(c), c.turn.id \notin c.running
  PROVE  /\ Good(Finish(c)) /\ Used(Finish(c)) /\ (c.closed => Finish(c).closed)
         /\ WordsKept(c, Finish(c)) /\ Finish(c).running = c.running
         /\ \/ /\ Finish(c).activeTurn = c.activeTurn
               /\ c.activeTurn = 0 /\ Watched(c) => Watched(Finish(c))
            \/ NotWaiting(c, Finish(c)) /\ Watched(Finish(c))
<1> DEFINE t == [c.turn EXCEPT !.llmDone = TRUE]
           b == [c EXCEPT !.turn = t]
           d == Retire(b)
<1>0. c \in Sessions /\ Waiting(c) /\ Numbered(c) /\ Answering(c)
  BY DEF Good
<1>1. t \in Turns /\ t.id = c.turn.id /\ t.pendingTts = c.turn.pendingTts /\ t.llmDone = TRUE
      /\ t.next = c.turn.next
  <2>1. c.turn \in Turns
    BY <1>0, FieldTypes
  <2> QED BY <2>1 DEF Turns
<1>2. Finish(c) = d
  <2>1. b = [c EXCEPT !.turn.llmDone = TRUE]
    BY <1>0 DEF Sessions
  <2> QED BY <2>1 DEF Finish
<1> HIDE DEF t
<1>3. /\ b \in Sessions /\ b.turn = t /\ b.turnSeq = c.turnSeq /\ b.activeTurn = c.activeTurn
      /\ b.sendChain = c.sendChain /\ b.running = c.running /\ SameWords(c, b)
      /\ b.closing = c.closing /\ b.closed = c.closed /\ SameClock(c, b)
      /\ b.audio = c.audio
  BY <1>0, <1>1 DEF Sessions, SameWords, SameClock
<1> HIDE DEF b
<1>4. Good(b)
  BY <1>0, <1>1, <1>3 DEF Good, Waiting, Numbered, Answering, SameWords
<1>5. \/ ~ IsOver(b) /\ d = b
      \/ IsOver(b) /\ Freed(b, d)
  BY <1>4, RetireGood
<1> HIDE DEF d
<1>6. CASE ~ IsOver(b) /\ d = b
  <2>1. Used(b)
    BY <1>1, <1>3, <1>4, <1>6, FieldTypes DEF Used, IsOver, Good, Waiting, Numbered
  <2>2. c.activeTurn = 0 /\ Watched(c) => Watched(b)
    BY <1>1, <1>3 DEF Watched, ClockLess, SameClock, SameWords
  <2> QED BY <1>2, <1>3, <1>4, <1>6, <2>1, <2>2 DEF WordsKept, SameWords
<1>7. CASE IsOver(b) /\ Freed(b, d)
  <2>1. WordsKept(c, d) /\ NotWaiting(c, d)
    BY <1>1, <1>3, <1>7 DEF Freed, Settled, WordsKept, SameWords, NotWaiting
  <2> QED BY <1>2, <1>3, <1>7, <2>1 DEF Freed, Settled
<1> QED BY <1>5, <1>6, <1>7

-----------------------------------------------------------------------------
(* Words: where each utterance is.                                         *)

Spread(c, n, S) ==
  /\ Len(c.history) + Len(c.queued) + Len(c.responding.text) = n
  /\ ToSet(c.history) \cup ToSet(c.queued) \cup ToSet(c.responding.text) = S

Words(c, h) ==
  \E n \in Nat, S \in SUBSET Nat :
    Spread(c, n, S) /\ n + Len(c.dropped) = h /\ S \cup ToSet(c.dropped) = 1 .. h

LEMMA Elements == ASSUME NEW s \in Seq(Nat) PROVE ToSet(s) = {s[i] : i \in 1 .. Len(s)}
BY DEF ToSet

LEMMA NoneWaiting ==
  ASSUME NEW c, NEW d, d.sendChain \in Seq(Nat), NotWaiting(c, d)
  PROVE  c.turn.id \notin ToSet(d.sendChain)
<1> DEFINE s == d.sendChain
<1>1. ToSet(s) = {s[i] : i \in 1 .. Len(s)}
  BY Elements
<1>2. \A i \in 1 .. Len(s) : s[i] # c.turn.id
  BY DEF NotWaiting
<1> QED BY <1>1, <1>2

LEMMA Concat ==
  ASSUME NEW s \in Seq(Nat), NEW t \in Seq(Nat)
  PROVE  /\ s \o t \in Seq(Nat) /\ Len(s \o t) = Len(s) + Len(t)
         /\ ToSet(s \o t) = ToSet(s) \cup ToSet(t)
<1>1. s \o t \in Seq(Nat) /\ Len(s \o t) = Len(s) + Len(t)
  OBVIOUS
<1>2. ASSUME NEW i \in 1 .. Len(s) + Len(t)
      PROVE  (s \o t)[i] = IF i <= Len(s) THEN s[i] ELSE t[i - Len(s)]
  OBVIOUS
<1>3. Len(s) \in Nat /\ Len(t) \in Nat
  OBVIOUS
<1> DEFINE u == s \o t
           m == Len(s)
           n == Len(t)
<1>4. ToSet(s) = {s[i] : i \in 1 .. m} /\ ToSet(t) = {t[i] : i \in 1 .. n}
      /\ ToSet(u) = {u[i] : i \in 1 .. m + n}
  BY <1>1, Elements
<1>5. \A i \in 1 .. m + n : u[i] = IF i <= m THEN s[i] ELSE t[i - m]
  BY <1>2
<1> HIDE DEF u, m, n
<1>6. m \in Nat /\ n \in Nat
  BY <1>3 DEF m, n
<1>7. ASSUME NEW i \in 1 .. m
      PROVE  s[i] \in ToSet(u)
  <2>1. i \in 1 .. m + n /\ u[i] = s[i]
    BY <1>5, <1>6
  <2> QED BY <1>4, <2>1
<1>8. ASSUME NEW i \in 1 .. n
      PROVE  t[i] \in ToSet(u)
  <2>1. i + m \in 1 .. m + n /\ u[i + m] = t[i]
    BY <1>5, <1>6
  <2> QED BY <1>4, <2>1
<1>9. ASSUME NEW i \in 1 .. m + n
      PROVE  u[i] \in ToSet(s) \cup ToSet(t)
  <2>1. CASE i <= m
    <3>1. i \in 1 .. m /\ u[i] = s[i]
      BY <1>5, <1>6, <2>1
    <3> QED BY <1>4, <3>1
  <2>2. CASE i > m
    <3>1. i - m \in 1 .. n /\ u[i] = t[i - m]
      BY <1>5, <1>6, <2>2
    <3> QED BY <1>4, <3>1
  <2> QED BY <1>6, <2>1, <2>2
<1>10. ToSet(u) = ToSet(s) \cup ToSet(t)
  BY <1>4, <1>7, <1>8, <1>9
<1> QED BY <1>1, <1>10 DEF u, m, n

LEMMA NoWords == Len(<<>>) = 0 /\ ToSet(<<>>) = {}
BY DEF ToSet

LEMMA SpreadKept ==
  ASSUME NEW c \in Sessions, NEW d, WordsKept(c, d), NEW n \in Nat, NEW S, Spread(c, n, S),
         ~ d.closed
  PROVE  Spread(d, n, S)
<1>1. CASE SameWords(c, d)
  BY <1>1 DEF SameWords, Spread
<1>2. CASE d.history = c.history \o c.queued /\ d.queued = <<>> /\ d.responding = c.responding
  <2>1. c.history \in Seq(Nat) /\ c.queued \in Seq(Nat) /\ c.responding.text \in Seq(Nat)
    BY FieldTypes
  <2>2. Len(d.history) = Len(c.history) + Len(c.queued)
        /\ ToSet(d.history) = ToSet(c.history) \cup ToSet(c.queued)
    BY <1>2, <2>1, Concat
  <2>3. Len(d.queued) = 0 /\ ToSet(d.queued) = {}
    BY <1>2 DEF ToSet
  <2>4. Len(c.history) \in Nat /\ Len(c.queued) \in Nat /\ Len(c.responding.text) \in Nat
    BY <2>1
  <2>5. Len(d.history) + Len(d.queued) + Len(d.responding.text) = n
    <3>1. Len(c.history) + Len(c.queued) + Len(c.responding.text) = n
      BY DEF Spread
    <3>2. Len(d.responding.text) = Len(c.responding.text)
      BY <1>2
    <3> DEFINE x == Len(c.history)
               y == Len(c.queued)
               z == Len(c.responding.text)
               u == Len(d.history)
               v == Len(d.queued)
               w == Len(d.responding.text)
    <3>3. x \in Nat /\ y \in Nat /\ z \in Nat /\ x + y + z = n /\ u = x + y /\ v = 0 /\ w = z
      BY <2>2, <2>3, <2>4, <3>1, <3>2
    <3> HIDE DEF x, y, z, u, v, w
    <3>4. u + v + w = n
      BY <3>3
    <3> QED BY <3>4 DEF u, v, w
  <2>6. ToSet(d.history) \cup ToSet(d.queued) \cup ToSet(d.responding.text) = S
    <3>1. ToSet(c.history) \cup ToSet(c.queued) \cup ToSet(c.responding.text) = S
      BY DEF Spread
    <3>2. ToSet(d.responding.text) = ToSet(c.responding.text)
      BY <1>2
    <3> QED BY <2>2, <2>3, <3>1, <3>2
  <2> QED BY <2>5, <2>6 DEF Spread
<1> QED BY <1>1, <1>2 DEF WordsKept

LEMMA WordsKeptHolds ==
  ASSUME NEW c \in Sessions, NEW d, WordsKept(c, d), NEW h \in Nat, Words(c, h), ~ d.closed
  PROVE  Words(d, h)
<1>1. PICK n \in Nat, S \in SUBSET Nat :
        Spread(c, n, S) /\ n + Len(c.dropped) = h /\ S \cup ToSet(c.dropped) = 1 .. h
  BY DEF Words
<1>2. d.dropped = c.dropped
  BY DEF WordsKept, SameWords
<1>3. Spread(d, n, S)
  BY <1>1, SpreadKept
<1> QED BY <1>1, <1>2, <1>3 DEF Words

-----------------------------------------------------------------------------
(* What every step keeps, and what it may do to the words and the floor.   *)

Inv ==
  /\ Good(call) /\ Used(call)
  /\ speech = "quiet" => Watched(call)
  /\ heard \in Nat

WordsStep == Words(call, heard) => call'.closed \/ Words(call', heard')

FloorStep == call.activeTurn \notin {0, call'.activeTurn} => LosesFloor(call.activeTurn)

StepKeeps ==
  /\ Good(call') /\ Used(call')
  /\ speech' = "quiet" => Watched(call')
  /\ heard' \in Nat
  /\ call.closed => call'.closed
  /\ WordsStep
  /\ FloorStep

LEMMA HeldBySilent ==
  ASSUME NEW c, Good(c), c.activeTurn # 0
  PROVE  Watched(c) /\ c.activeTurn = c.turn.id
BY DEF Watched, Good, Numbered

LEMMA WordsSame ==
  ASSUME NEW c, NEW d, SameWords(c, d), NEW h, Words(c, h)
  PROVE  Words(d, h)
BY DEF SameWords, Words, Spread

LEMMA SameWordsStep ==
  ASSUME SameWords(call, call'), heard' = heard
  PROVE  WordsStep
BY WordsSame DEF WordsStep

LEMMA SentenceStep == ASSUME Inv, Sentence PROVE StepKeeps
<1> DEFINE d == Speak(call)
<1>1. /\ Good(d) /\ d.turn.pendingTts > 0 /\ d.activeTurn = call.activeTurn
      /\ SameWords(call, d) /\ d.closed = call.closed
  BY SpeakGood, SpeakKeeps DEF Inv, Good
<1> HIDE DEF d
<1>2. call' = d /\ call.activeTurn = call.turn.id /\ speech' = speech /\ heard' = heard
  BY DEF Sentence, HasFloor, d
<1>3. call.activeTurn # 0
  BY <1>2 DEF Inv, Good, Numbered
<1>4. Used(d) /\ Watched(d)
  BY <1>1, <1>3, HeldBySilent DEF Used
<1> QED BY <1>1, <1>2, <1>4, SameWordsStep DEF Inv, StepKeeps, FloorStep

(* The steps that end with _generateTurn(), from a session e that differs   *)
(* from that of the state in the turn and the send order alone.            *)
LEMMA FinishStep ==
  ASSUME Inv, Generating, NEW e, Good(e), call' = Finish(e), UNCHANGED <<speech, heard>>,
         e.turn.id = call.turn.id, e.activeTurn = call.activeTurn, e.running = call.running,
         SameWords(call, e), e.closed = call.closed,
         Watched(call) => Watched(e)
  PROVE  StepKeeps
<1> DEFINE d == Finish(e)
<1>1. call.turn.id \notin call.running
  BY DEF Generating
<1>2. /\ Good(d) /\ Used(d) /\ (e.closed => d.closed) /\ WordsKept(e, d)
      /\ d.running = e.running
      /\ \/ /\ d.activeTurn = e.activeTurn
            /\ e.activeTurn = 0 /\ Watched(e) => Watched(d)
         \/ NotWaiting(e, d) /\ Watched(d)
  BY <1>1, FinishGood
<1> HIDE DEF d
<1>3. call' = d /\ speech' = speech /\ heard' = heard /\ e \in Sessions
  BY DEF d, Good
<1>4. speech' = "quiet" => Watched(d)
  BY <1>2, <1>3, HeldBySilent DEF Inv
<1>5. WordsStep
  <2>1. heard \in Nat /\ (Words(call, heard) => Words(e, heard))
    BY WordsSame DEF Inv
  <2> QED BY <1>2, <1>3, <2>1, WordsKeptHolds DEF WordsStep
<1>6. FloorStep
  <2> SUFFICES ASSUME call.activeTurn # 0, d.activeTurn # call.activeTurn
               PROVE  LosesFloor(call.activeTurn)
    BY <1>3 DEF FloorStep
  <2>1. NotWaiting(e, d) /\ call.activeTurn = call.turn.id
    BY <1>2, HeldBySilent DEF Inv
  <2>2. d.sendChain \in Seq(Nat)
    BY <1>2, FieldTypes DEF Good
  <2>3. call.activeTurn \notin ToSet(d.sendChain)
    <3>1. e.turn.id \notin ToSet(d.sendChain)
      BY <2>1, <2>2, NoneWaiting
    <3> QED BY <2>1, <3>1
  <2>4. d.responding = call.responding \/ d.closed
    BY <1>2 DEF WordsKept, SameWords
  <2> QED BY <1>1, <1>2, <1>3, <2>1, <2>3, <2>4 DEF LosesFloor
<1> QED BY <1>2, <1>3, <1>4, <1>5, <1>6 DEF Inv, StepKeeps

LEMMA NextStepTypes == NextSteps \subseteq ToSet(Steps) \cup {"none"}
BY DEF NextSteps, ToSet

LEMMA ReplyStep == ASSUME Inv, NEW next \in NextSteps, Reply(next) PROVE StepKeeps
<1> DEFINE said == IF call.turn.spoken = 0 THEN Speak(call) ELSE call
           t == [said.turn EXCEPT !.next = next]
           e == [said EXCEPT !.turn = t]
<1>1. /\ Good(said) /\ said.activeTurn = call.activeTurn /\ said.turn.llmDone = call.turn.llmDone
      /\ said.turn.id = call.turn.id /\ said.running = call.running
      /\ SameWords(call, said) /\ said.closed = call.closed
  BY SpeakGood, SpeakKeeps DEF Inv, Good, SameWords
<1>2. call' = Finish([said EXCEPT !.turn.next = next])
  BY DEF Reply
<1> HIDE DEF said
<1>3. said \in Sessions /\ said.turn \in Turns
  BY <1>1, FieldTypes DEF Good
<1>4. t \in Turns /\ t.id = said.turn.id /\ t.pendingTts = said.turn.pendingTts
      /\ t.llmDone = said.turn.llmDone
  BY <1>3, NextStepTypes DEF Turns
<1>5. [said EXCEPT !.turn.next = next] = e
  BY <1>3 DEF Sessions
<1> HIDE DEF t
<1>6. /\ e \in Sessions /\ e.turn = t /\ e.turnSeq = said.turnSeq
      /\ e.activeTurn = said.activeTurn /\ e.sendChain = said.sendChain
      /\ e.running = said.running /\ SameWords(said, e) /\ e.closing = said.closing
      /\ e.closed = said.closed
  BY <1>3, <1>4 DEF Sessions, SameWords
<1> HIDE DEF e
<1>7. Good(e)
  BY ZenonT(40), <1>1, <1>4, <1>6 DEF Good, Waiting, Numbered, Answering, SameWords
<1>8. e.activeTurn # 0
  BY <1>1, <1>6 DEF Reply, HasFloor, Inv, Good, Numbered
<1>9. Generating /\ UNCHANGED <<speech, heard>>
  BY DEF Reply
<1> QED
  <2>1. /\ call' = Finish(e) /\ e.turn.id = call.turn.id /\ e.activeTurn = call.activeTurn
        /\ e.running = call.running /\ SameWords(call, e) /\ e.closed = call.closed
    BY <1>1, <1>2, <1>4, <1>5, <1>6 DEF SameWords
  <2>2. Watched(e)
    BY <1>7, <1>8, HeldBySilent
  <2> QED BY <1>7, <1>9, <2>1, <2>2, FinishStep

LEMMA SilentReplyStep == ASSUME Inv, NEW next \in NextSteps, SilentReply(next) PROVE StepKeeps
<1> DEFINE t == [call.turn EXCEPT !.next = next, !.silent = TRUE]
           e == [call EXCEPT !.turn = t]
<1>1. Good(call) /\ call \in Sessions /\ call.turn \in Turns
  BY FieldTypes DEF Inv, Good
<1>2. call' = Finish([call EXCEPT !.turn.next = next, !.turn.silent = TRUE])
  BY DEF SilentReply
<1>3. t \in Turns /\ t.id = call.turn.id /\ t.pendingTts = call.turn.pendingTts
      /\ t.llmDone = call.turn.llmDone
  <2>1. next \in ToSet(Steps) \cup {"none"} /\ TRUE \in BOOLEAN
    BY NextStepTypes
  <2>2. [call.turn EXCEPT !.next = next] \in Turns
    BY <1>1, <2>1 DEF Turns
  <2>3. [[call.turn EXCEPT !.next = next] EXCEPT !.silent = TRUE] \in Turns
    BY <2>2 DEF Turns
  <2>4. t = [[call.turn EXCEPT !.next = next] EXCEPT !.silent = TRUE]
    BY <1>1 DEF Turns
  <2>5. t \in Turns
    BY <2>3, <2>4
  <2> QED BY <1>1, <2>5 DEF Turns
<1>4. [call EXCEPT !.turn.next = next, !.turn.silent = TRUE] = e
  BY <1>1 DEF Sessions, Turns
<1> HIDE DEF t
<1>5. /\ e \in Sessions /\ e.turn = t /\ e.turnSeq = call.turnSeq
      /\ e.activeTurn = call.activeTurn /\ e.sendChain = call.sendChain
      /\ e.running = call.running /\ SameWords(call, e) /\ e.closing = call.closing
      /\ e.closed = call.closed
  BY <1>1, <1>3 DEF Sessions, SameWords
<1> HIDE DEF e
<1>6. Good(e)
  BY <1>1, <1>3, <1>5 DEF Good, Waiting, Numbered, Answering, SameWords
<1>7. e.activeTurn # 0
  BY <1>1, <1>5 DEF SilentReply, HasFloor, Good, Numbered
<1>8. Generating /\ UNCHANGED <<speech, heard>>
  BY DEF SilentReply
<1>9. Watched(e)
  BY <1>6, <1>7, HeldBySilent
<1> QED BY <1>2, <1>3, <1>4, <1>5, <1>6, <1>8, <1>9, FinishStep

LEMMA EndsUnheardStep == ASSUME Inv, EndsUnheard PROVE StepKeeps
<1>1. SameWords(call, call) /\ Good(call)
  BY DEF SameWords, Inv
<1> QED BY <1>1, FinishStep DEF EndsUnheard

LEMMA CallToolStep == ASSUME Inv, CallTool PROVE StepKeeps
<1> DEFINE n   == call.tools + 1
           run == call.running \cup {call.turn.id}
           d   == [call EXCEPT !.tools = n, !.running = run]
<1>1. Good(call) /\ call \in Sessions /\ call.turn.id \in Nat /\ call.turn \in Turns
  BY FieldTypes DEF Inv, Good
<1>3. call' = d /\ UNCHANGED <<speech, heard>>
  BY DEF CallTool
<1>0. n \in Nat /\ run \in SUBSET Nat /\ run = call.running \cup {call.turn.id}
  BY <1>1 DEF Sessions
<1> HIDE DEF n, run
<1>2. /\ d \in Sessions /\ d.turn = call.turn /\ d.turnSeq = call.turnSeq
      /\ d.activeTurn = call.activeTurn /\ d.sendChain = call.sendChain
      /\ d.running = run /\ SameWords(call, d)
      /\ d.closing = call.closing /\ d.closed = call.closed
  BY <1>0, <1>1 DEF Sessions, SameWords
<1> HIDE DEF d
<1>4. ~ call.turn.llmDone /\ call.activeTurn = call.turn.id
  BY DEF CallTool, Generating, HasFloor
<1>5. call.turn.id \in 1 .. call.turnSeq /\ call.activeTurn # 0
  BY <1>1, <1>4, FieldTypes DEF Good, Numbered
<1>6. Good(d)
  BY <1>0, <1>1, <1>2, <1>4, <1>5 DEF Good, Waiting, Numbered, Answering, SameWords
<1>7. Used(d) /\ Watched(d)
  BY <1>2, <1>4, <1>5, <1>6, HeldBySilent DEF Used
<1> QED BY <1>2, <1>3, <1>6, <1>7, SameWordsStep DEF Inv, StepKeeps, FloorStep

LEMMA ToolReturnsStep == ASSUME Inv, ToolReturns PROVE StepKeeps
<1>1. PICK t \in call.running : call' = Begin([call EXCEPT !.running = @ \ {t}])
  BY DEF ToolReturns
<1> DEFINE b == [call EXCEPT !.running = @ \ {t}]
           d == Begin(b)
<1>2. Good(call) /\ call \in Sessions
  BY DEF Inv, Good
<1>3. /\ b \in Sessions /\ b.turn = call.turn /\ b.turnSeq = call.turnSeq
      /\ b.activeTurn = call.activeTurn /\ b.sendChain = call.sendChain
      /\ b.running = call.running \ {t} /\ SameWords(call, b)
      /\ b.closing = call.closing /\ b.closed = call.closed
  BY <1>2 DEF Sessions, SameWords
<1>4. call' = d /\ UNCHANGED <<speech, heard>>
  BY <1>1 DEF ToolReturns
<1> HIDE DEF b
<1>5. Good(b)
  BY <1>2, <1>3 DEF Good, Waiting, Numbered, Answering, SameWords
<1>6. /\ Good(d) /\ d.activeTurn = d.turn.id /\ ~ d.turn.llmDone
      /\ SameWords(b, d) /\ d.closed = b.closed /\ d.running = b.running
  BY <1>3, <1>5, BeginGood, BeginKeeps
<1> HIDE DEF d
<1>7. d.activeTurn # 0
  BY <1>6 DEF Good, Numbered
<1>8. Used(d) /\ Watched(d)
  BY <1>6, <1>7, HeldBySilent DEF Used
<1>9. call.running \ d.running # {}
  BY <1>3, <1>6
<1>10. WordsStep
  BY <1>3, <1>4, <1>6, SameWordsStep DEF SameWords
<1> QED BY <1>3, <1>4, <1>6, <1>8, <1>9, <1>10 DEF Inv, StepKeeps, FloorStep, LosesFloor

-----------------------------------------------------------------------------
(* The sentence at the head of the send order, sent or dropped.            *)

LEMMA TailFacts ==
  ASSUME NEW s \in Seq(Nat), s # <<>>
  PROVE  /\ Tail(s) \in Seq(Nat) /\ Len(Tail(s)) = Len(s) - 1 /\ Len(s) \in Nat \ {0}
         /\ \A i \in 1 .. Len(s) - 1 : i + 1 \in 1 .. Len(s) /\ Tail(s)[i] = s[i + 1]
         /\ Head(s) = s[1]
  OBVIOUS

(* What SendSentence leaves to _maybeRetireTurn(): the sentence is off the  *)
(* send order, and counted as sent if it is of the turn of turnState.      *)
LEMMA SentGood ==
  ASSUME NEW c, Good(c), c.sendChain # <<>>, NEW e \in Sessions,
         e.turn.id = c.turn.id, e.turn.llmDone = c.turn.llmDone,
         e.turnSeq = c.turnSeq, e.activeTurn = c.activeTurn, e.running = c.running,
         e.responding = c.responding, e.closing = c.closing, e.closed = c.closed,
         e.sendChain = Tail(c.sendChain),
         e.turn.pendingTts = IF Head(c.sendChain) = c.turn.id THEN c.turn.pendingTts - 1
                             ELSE c.turn.pendingTts
  PROVE  Good(e)
<1> DEFINE s == c.sendChain
           p == c.turn.pendingTts
           id == c.turn.id
<1>0. c \in Sessions /\ Waiting(c) /\ Numbered(c) /\ Answering(c)
  BY DEF Good
<1>1. s \in Seq(Nat) /\ p \in 0 .. Len(s)
  BY <1>0, FieldTypes DEF Waiting
<1>2. /\ Len(Tail(s)) = Len(s) - 1 /\ Len(s) \in Nat \ {0} /\ Head(s) = s[1]
      /\ \A i \in 1 .. Len(s) - 1 : i + 1 \in 1 .. Len(s) /\ Tail(s)[i] = s[i + 1]
  BY <1>1, TailFacts
<1>3. \A i \in 1 .. Len(s) : s[i] = id <=> i > Len(s) - p
  BY <1>0 DEF Waiting
<1> DEFINE q == e.turn.pendingTts
<1>4. q = IF s[1] = id THEN p - 1 ELSE p
  BY <1>2
<1> HIDE DEF s, p, id, q
<1>a. Len(s) \in Nat /\ 1 \in 1 .. Len(s) /\ p \in Int /\ p <= Len(s)
  BY <1>1, <1>2
<1>b. s[1] = id <=> 1 > Len(s) - p
  BY <1>3, <1>a
<1>5. s[1] = id => p = Len(s)
  BY <1>a, <1>b
<1>6. s[1] # id => p < Len(s)
  BY <1>a, <1>b
<1>7. q \in 0 .. Len(s) - 1 /\ p \in Int
  <2>1. p >= 0 /\ Len(s) >= 1
    BY <1>1, <1>a
  <2>2. CASE s[1] = id
    BY <1>a, <1>4, <1>5, <2>1, <2>2
  <2>3. CASE s[1] # id
    BY <1>a, <1>4, <1>6, <2>1, <2>3
  <2> QED BY <2>2, <2>3
<1>8. ASSUME NEW i \in 1 .. Len(s) - 1
      PROVE  Tail(s)[i] = id <=> i > Len(s) - 1 - q
  <2>1. Tail(s)[i] = id <=> i + 1 > Len(s) - p
    BY <1>2, <1>3
  <2>2. CASE s[1] = id
    BY <2>1, <2>2, <1>2, <1>4, <1>5, <1>7
  <2>3. CASE s[1] # id
    BY <2>1, <2>3, <1>2, <1>4, <1>7
  <2> QED BY <2>2, <2>3
<1>9. Waiting(e)
  BY <1>2, <1>7, <1>8 DEF Waiting, s, id, q
<1>10. ASSUME NEW i \in 1 .. Len(s) - 1
       PROVE  Tail(s)[i] \in 1 .. c.turnSeq
  BY <1>0, <1>2 DEF Numbered, s
<1>11. Numbered(e)
  BY <1>0, <1>2, <1>10 DEF Numbered, s
<1> QED BY <1>0, <1>9, <1>11 DEF Good, Answering

LEMMA SendSentenceStep == ASSUME Inv, SendSentence PROVE StepKeeps
<1> DEFINE id == Head(call.sendChain)
           tail == Tail(call.sendChain)
           rest == [call EXCEPT !.sendChain = Tail(@)]
           sent(audible) == IF audible /\ call.activeTurn = id
                   THEN [rest EXCEPT !.turn.started = TRUE, !.audio = "playing"] ELSE rest
<1>0. Good(call) /\ call \in Sessions /\ call.turn \in Turns /\ call.sendChain # <<>>
      /\ UNCHANGED <<speech, heard>>
  BY FieldTypes DEF Inv, Good, SendSentence
<1>1. PICK audible \in BOOLEAN :
        call' = IF call.turn.id = id
                THEN Retire([sent(audible) EXCEPT !.turn.pendingTts = @ - 1]) ELSE sent(audible)
  BY DEF SendSentence
<1>2. tail \in Seq(Nat) /\ id \in 1 .. call.turnSeq
  <2>1. call.sendChain \in Seq(Nat)
    BY <1>0, FieldTypes
  <2>2. 1 \in 1 .. Len(call.sendChain) /\ id = call.sendChain[1] /\ tail \in Seq(Nat)
    BY <1>0, <2>1, TailFacts
  <2> QED BY <1>0, <2>2 DEF Good, Numbered
<1>3. rest = [call EXCEPT !.sendChain = tail]
  OBVIOUS
<1>4. /\ rest \in Sessions /\ rest.turn = call.turn /\ rest.turnSeq = call.turnSeq
      /\ rest.activeTurn = call.activeTurn /\ rest.sendChain = tail
      /\ rest.running = call.running /\ SameWords(call, rest) /\ rest.closing = call.closing
      /\ rest.closed = call.closed /\ SameClock(call, rest) /\ rest.audio = call.audio
  BY <1>0, <1>2, <1>3 DEF Sessions, SameWords, SameClock
<1> HIDE DEF rest, tail, id
<1> DEFINE d == sent(audible)
<1>5. CASE call.turn.id # id
  <2>1. call.activeTurn # id
    BY <1>0, <1>2, <1>5, FieldTypes DEF Good, Numbered
  <2>2. d = rest /\ call' = rest
    BY <1>1, <1>5, <2>1
  <2>3. Good(rest)
    BY <1>0, <1>4, <1>5, SentGood DEF id, tail, SameWords
  <2>4. Used(rest) /\ (speech = "quiet" => Watched(rest))
    BY <1>4 DEF Inv, Used, Watched, ClockLess, SameClock, SameWords
  <2>5. WordsStep
    BY <1>0, <1>4, <2>2, SameWordsStep
  <2> QED BY <1>0, <1>4, <2>2, <2>3, <2>4, <2>5 DEF Inv, StepKeeps, FloorStep
<1>6. CASE call.turn.id = id
  <2>1. d \in Sessions /\ d.turn \in Turns /\ d.turn.id = call.turn.id
        /\ d.turn.llmDone = call.turn.llmDone /\ d.turn.pendingTts = call.turn.pendingTts
        /\ d.turn.next = call.turn.next
        /\ d.turnSeq = call.turnSeq /\ d.activeTurn = call.activeTurn /\ d.sendChain = tail
        /\ d.running = call.running /\ SameWords(call, d) /\ d.closing = call.closing
        /\ d.closed = call.closed /\ SameClock(call, d)
        /\ (d.audio = call.audio \/ d.audio = "playing")
    <3>1. CASE ~ (audible /\ call.activeTurn = id)
      BY <3>1, <1>0, <1>4
    <3>2. CASE audible /\ call.activeTurn = id
      <4> DEFINE t == [rest.turn EXCEPT !.started = TRUE]
                 f == [[rest EXCEPT !.turn = t] EXCEPT !.audio = "playing"]
      <4>1. t \in Turns /\ t.id = call.turn.id /\ t.llmDone = call.turn.llmDone
            /\ t.pendingTts = call.turn.pendingTts /\ t.next = call.turn.next
        BY <1>0, <1>4 DEF Turns
      <4>2. d = f
        BY <1>4, <3>2 DEF Sessions
      <4> HIDE DEF t
      <4>3. f \in Sessions /\ f.turn = t /\ f.turnSeq = call.turnSeq
            /\ f.activeTurn = call.activeTurn /\ f.sendChain = tail
            /\ f.running = call.running /\ SameWords(call, f) /\ f.closing = call.closing
            /\ f.closed = call.closed /\ SameClock(call, f) /\ f.audio = "playing"
        BY <1>4, <4>1 DEF Sessions, SameWords, SameClock
      <4> HIDE DEF f, d
      <4> QED BY <4>1, <4>2, <4>3
    <3> QED BY <3>1, <3>2
  <2> HIDE DEF d
  <2> DEFINE t == [d.turn EXCEPT !.pendingTts = @ - 1]
             e == [d EXCEPT !.turn = t]
  <2>2. t \in Turns /\ t.id = call.turn.id /\ t.llmDone = call.turn.llmDone
        /\ t.pendingTts = call.turn.pendingTts - 1 /\ t.next = call.turn.next
    BY <2>1 DEF Turns
  <2>3. call' = Retire(e)
    <3>1. e = [d EXCEPT !.turn.pendingTts = @ - 1]
      BY <2>1 DEF Sessions
    <3> QED BY <1>1, <1>6, <3>1 DEF d
  <2> HIDE DEF t
  <2>4. /\ e \in Sessions /\ e.turn = t /\ e.turnSeq = d.turnSeq
        /\ e.activeTurn = d.activeTurn /\ e.sendChain = d.sendChain
        /\ e.running = d.running /\ SameWords(d, e) /\ e.closing = d.closing
        /\ e.closed = d.closed /\ SameClock(d, e) /\ e.audio = d.audio
    BY <2>1, <2>2 DEF Sessions, SameWords, SameClock
  <2> HIDE DEF e
  <2>5. Good(e)
    BY <1>0, <1>6, <2>1, <2>2, <2>4, SentGood DEF id, tail, SameWords
  <2>6. SameWords(call, e) /\ e.closed = call.closed /\ e.activeTurn = call.activeTurn
        /\ e.running = call.running /\ e.turn.id = call.turn.id
    BY <2>1, <2>2, <2>4 DEF SameWords
  <2>7. CASE ~ IsOver(e) /\ Retire(e) = e
    <3>1. Used(e)
      BY <2>5, <2>7, FieldTypes DEF Used, IsOver, Good, Waiting, Numbered
    <3>2. speech = "quiet" => Watched(e)
      BY <2>1, <2>2, <2>4 DEF Inv, Watched, ClockLess, SameClock, SameWords
    <3>3. WordsStep
      BY <1>0, <2>3, <2>6, <2>7, SameWordsStep
    <3> QED BY <1>0, <2>3, <2>5, <2>6, <2>7, <3>1, <3>2, <3>3 DEF Inv, StepKeeps, FloorStep
  <2>8. CASE IsOver(e) /\ Freed(e, Retire(e))
    <3> DEFINE r == Retire(e)
    <3>1. Good(r) /\ Used(r) /\ Watched(r) /\ WordsKept(e, r) /\ (e.closed => r.closed)
          /\ r.running = e.running /\ NotWaiting(e, r)
      BY <2>8 DEF Freed, Settled
    <3>2. WordsStep
      <4>1. Words(call, heard) => Words(e, heard)
        BY <2>6, WordsSame
      <4>2. heard \in Nat /\ e \in Sessions
        BY <2>4 DEF Inv
      <4> QED BY <1>0, <2>3, <3>1, <4>1, <4>2, WordsKeptHolds DEF WordsStep
    <3>3. FloorStep
      <4> SUFFICES ASSUME call.activeTurn # 0, r.activeTurn # call.activeTurn
                   PROVE  LosesFloor(call.activeTurn)
        BY <2>3 DEF FloorStep
      <4>1. call.activeTurn = call.turn.id /\ call.turn.id \notin call.running
        BY <1>0, <2>1, <2>2, <2>4, <2>8 DEF Good, Numbered, IsOver
      <4>2. r.sendChain \in Seq(Nat)
        BY <3>1, FieldTypes DEF Good
      <4>3. call.activeTurn \notin ToSet(r.sendChain)
        <5>1. e.turn.id \notin ToSet(r.sendChain)
          BY <3>1, <4>2, NoneWaiting
        <5> QED BY <2>6, <4>1, <5>1
      <4>4. r.responding = call.responding \/ r.closed
        BY <2>6, <3>1 DEF WordsKept, SameWords
      <4> QED BY <1>0, <2>3, <2>6, <3>1, <4>1, <4>3, <4>4 DEF LosesFloor
    <3> QED BY <1>0, <2>3, <2>6, <3>1, <3>2, <3>3 DEF Inv, StepKeeps
  <2> QED BY <2>5, <2>7, <2>8, RetireGood
<1> QED BY <1>5, <1>6

-----------------------------------------------------------------------------
(* The steps that do not end a turn.                                       *)

LEMMA AudioDrainedStep == ASSUME Inv, AudioDrained PROVE StepKeeps
<1> DEFINE l == IF call.closed THEN "gone" ELSE call.line
           b == [call EXCEPT !.audio = "silent", !.line = l]
<1>1. Good(call) /\ call \in Sessions /\ UNCHANGED <<speech, heard>> /\ call' = OnAudioDrained(b)
  BY DEF Inv, Good, AudioDrained
<1>2. l \in {"open", "gone"}
  BY <1>1 DEF Sessions
<1> HIDE DEF l
<1>3. b \in Sessions /\ SameTurn(call, b) /\ SameWords(call, b) /\ b.closing = call.closing
      /\ b.closed = call.closed /\ b.activeTurn = call.activeTurn /\ b.audio = "silent"
      /\ SameClock(call, b)
  BY <1>1, <1>2 DEF Sessions, SameTurn, SameWords, SameClock
<1> HIDE DEF b
<1>4. Good(b)
  BY <1>1, <1>3, SameTurnGood DEF Good, Answering, SameWords
<1>5. CASE b.queued = <<>> \/ b.activeTurn # 0 \/ b.closing
  <2>1. call' = b
    BY <1>1, <1>5 DEF OnAudioDrained
  <2>2. Used(b)
    BY <1>3 DEF Inv, Used, SameTurn
  <2>3. speech = "quiet" => Watched(b)
    BY <1>3, <1>4, <1>5 DEF Inv, Watched, ClockLess, SameClock, SameTurn, SameWords, Good, Answering
  <2>4. WordsStep
    BY <1>1, <1>3, <2>1, SameWordsStep
  <2> QED BY <1>1, <1>3, <1>4, <2>1, <2>2, <2>3, <2>4 DEF Inv, StepKeeps, FloorStep
<1>6. CASE ~ (b.queued = <<>> \/ b.activeTurn # 0 \/ b.closing)
  <2>1. call' = ReplayQueued(b)
    BY <1>1, <1>6 DEF OnAudioDrained
  <2>2. Settled(b, call')
    BY <1>3, <1>4, <1>6, <2>1, ReplayGood
  <2>3. WordsStep
    <3>1. Words(call, heard) => Words(b, heard)
      BY <1>3, WordsSame
    <3> QED BY <1>1, <1>3, <2>2, <3>1, WordsKeptHolds DEF WordsStep, Settled, Inv
  <2> QED BY <1>1, <1>3, <1>6, <2>2, <2>3 DEF Inv, StepKeeps, FloorStep, Settled
<1> QED BY <1>5, <1>6

LEMMA SilenceTimerStep == ASSUME Inv, SilenceTimer PROVE StepKeeps
<1> DEFINE fired == [call EXCEPT !.reminder = {}]
<1>1. Good(call) /\ call \in Sessions /\ UNCHANGED <<speech, heard>>
  BY DEF Inv, Good, SilenceTimer
<1>2. fired \in Sessions /\ SameTurn(call, fired) /\ SameWords(call, fired)
      /\ fired.closing = call.closing /\ fired.closed = call.closed
      /\ fired.activeTurn = call.activeTurn /\ fired.reminders = call.reminders
  BY <1>1 DEF Sessions, SameTurn, SameWords
<1>3. \/ (call.closing \/ call.activeTurn # 0) /\ call' = fired
      \/ call.activeTurn = 0 /\ call' = Close([fired EXCEPT !.closing = TRUE])
      \/ call.activeTurn = 0 /\ call' = Begin([fired EXCEPT !.reminders = @ + 1])
  BY DEF SilenceTimer
<1> HIDE DEF fired
<1>4. CASE (call.closing \/ call.activeTurn # 0) /\ call' = fired
  <2>1. Good(fired)
    BY <1>1, <1>2, SameTurnGood DEF Good, Answering, SameWords
  <2>2. Used(fired) /\ Watched(fired)
    BY <1>2, <1>4, <2>1 DEF Inv, Used, Watched, SameTurn, Good, Answering
  <2>3. WordsStep
    BY <1>1, <1>2, <1>4, SameWordsStep
  <2> QED BY <1>1, <1>2, <1>4, <2>1, <2>2, <2>3 DEF Inv, StepKeeps, FloorStep
<1>5. CASE call.activeTurn = 0 /\ call' = Close([fired EXCEPT !.closing = TRUE])
  <2> DEFINE e == [fired EXCEPT !.closing = TRUE]
  <2>1. e \in Sessions /\ SameTurn(fired, e) /\ e.responding = fired.responding
        /\ e.activeTurn = fired.activeTurn
    BY <1>2 DEF Sessions, SameTurn
  <2> HIDE DEF e
  <2>2. Waiting(e) /\ Numbered(e) /\ (e.responding.mode = "none" <=> e.responding.text = <<>>)
        /\ e.responding.mode # "now"
    BY <1>1, <1>2, <2>1 DEF Good, SameTurn, Waiting, Numbered, Answering, SameWords
  <2> DEFINE d == Close(e)
  <2>3. Good(d) /\ d.closed /\ d.activeTurn = 0 /\ call' = d
    BY <1>2, <1>5, <2>1, <2>2, CloseGood DEF e
  <2> HIDE DEF d
  <2> QED BY <1>1, <1>5, <2>3 DEF Inv, StepKeeps, FloorStep, WordsStep, Used, Watched
<1>6. CASE call.activeTurn = 0 /\ call' = Begin([fired EXCEPT !.reminders = @ + 1])
  <2> DEFINE n == fired.reminders + 1
             e == [fired EXCEPT !.reminders = n]
             d == Begin(e)
  <2>0. n \in Nat
    BY <1>2 DEF Sessions
  <2> HIDE DEF n
  <2>1. e \in Sessions /\ SameTurn(fired, e) /\ SameWords(fired, e) /\ e.closing = fired.closing
        /\ e.closed = fired.closed
    BY <1>2, <2>0 DEF Sessions, SameTurn, SameWords
  <2>2. call' = d
    BY <1>6 DEF n
  <2> HIDE DEF e
  <2>3. SameTurn(call, e) /\ Answering(e) /\ SameWords(call, e) /\ e.closed = call.closed
    BY <1>1, <1>2, <2>1 DEF SameTurn, SameWords, Good, Answering
  <2>4. Good(e)
    BY <1>1, <2>3, SameTurnGood
  <2>5. /\ Good(d) /\ d.activeTurn = d.turn.id /\ ~ d.turn.llmDone
        /\ SameWords(e, d) /\ d.closed = e.closed
    BY <2>1, <2>4, BeginGood, BeginKeeps
  <2> HIDE DEF d
  <2>6. Used(d) /\ Watched(d)
    BY <2>5, HeldBySilent DEF Used, Good, Numbered
  <2>7. WordsStep
    BY <1>1, <2>2, <2>3, <2>5, SameWordsStep DEF SameWords
  <2> QED BY <1>1, <1>6, <2>2, <2>3, <2>5, <2>6, <2>7 DEF Inv, StepKeeps, FloorStep
<1> QED BY <1>3, <1>4, <1>5, <1>6

(* Words that are answered at once: what it means for the floor, ...        *)
LEMMA AnsweredFloor ==
  ASSUME Inv, NEW text \in Seq(Nat), text # <<>>, Good(call'), call'.closed = call.closed,
         \/ Dropped(call, call') \/ Enqueued(call, call', text) \/ Taken(call, call', text)
  PROVE  Used(call') /\ Watched(call') /\ FloorStep
<1>1. Good(call) /\ call.queued \in Seq(Nat) /\ call.history \in Seq(Nat) /\ Used(call)
  BY FieldTypes DEF Inv, Good
<1>2. CASE Dropped(call, call')
  BY <1>1, <1>2 DEF Dropped, Used, Watched, FloorStep, Good, Answering
<1>3. CASE Enqueued(call, call', text)
  <2>1. call'.queued # <<>>
    BY <1>1, <1>3 DEF Enqueued
  <2> QED BY <1>1, <1>3, <2>1 DEF Enqueued, Used, Watched, FloorStep
<1>4. CASE Taken(call, call', text)
  <2>1. Used(call') /\ call'.activeTurn # 0
    BY <1>4 DEF Taken, Used, Good, Numbered
  <2>2. Len(call'.history) > Len(call.history)
    BY <1>1, <1>4 DEF Taken
  <2> QED BY <1>4, <2>1, <2>2, HeldBySilent DEF Taken, FloorStep, LosesFloor
<1> QED BY <1>2, <1>3, <1>4

(* ... and for the words: they are where they were, and text is added.      *)
LEMMA AddedWords ==
  ASSUME NEW c \in Sessions, NEW d, NEW text \in Seq(Nat), NEW n \in Nat, NEW S,
         \/ /\ Enqueued(c, d, text) \/ Taken(c, d, text)
            /\ d.responding.text = <<>>
         \/ /\ d.history = c.history /\ d.queued = c.queued
            /\ d.responding.text = text,
         Len(c.history) + Len(c.queued) + Len(text) = n,
         ToSet(c.history) \cup ToSet(c.queued) \cup ToSet(text) = S
  PROVE  Spread(d, n, S)
<1>1. c.history \in Seq(Nat) /\ c.queued \in Seq(Nat)
      /\ Len(c.history) \in Nat /\ Len(c.queued) \in Nat /\ Len(text) \in Nat
  BY FieldTypes
<1>2. CASE d.history = c.history /\ d.queued = c.queued /\ d.responding.text = text
  BY <1>2 DEF Spread
<1>3. CASE Enqueued(c, d, text) /\ d.responding.text = <<>>
  <2>1. /\ Len(d.history) = Len(c.history) /\ Len(d.queued) = Len(c.queued) + Len(text)
        /\ Len(d.responding.text) = 0
    BY <1>1, <1>3, Concat DEF Enqueued
  <2>2. /\ ToSet(d.history) = ToSet(c.history) /\ ToSet(d.responding.text) = {}
        /\ ToSet(d.queued) = ToSet(c.queued) \cup ToSet(text)
    BY <1>1, <1>3, Concat, NoWords DEF Enqueued
  <2>3. Len(d.history) + Len(d.queued) + Len(d.responding.text) = n
    <3> DEFINE x == Len(c.history)
               y == Len(c.queued)
               z == Len(text)
               u == Len(d.history)
               v == Len(d.queued)
               w == Len(d.responding.text)
    <3>1. x \in Nat /\ y \in Nat /\ z \in Nat /\ x + y + z = n /\ u = x /\ v = y + z /\ w = 0
      BY <1>1, <2>1
    <3> HIDE DEF x, y, z, u, v, w
    <3>2. u + v + w = n
      BY <3>1
    <3> QED BY <3>2 DEF u, v, w
  <2>4. ToSet(d.history) \cup ToSet(d.queued) \cup ToSet(d.responding.text) = S
    BY <2>2
  <2> QED BY <2>3, <2>4 DEF Spread
<1>4. CASE Taken(c, d, text) /\ d.responding.text = <<>>
  <2>1. /\ Len(d.queued) = Len(c.queued) /\ Len(d.history) = Len(c.history) + Len(text)
        /\ Len(d.responding.text) = 0
    BY <1>1, <1>4, Concat DEF Taken
  <2>2. /\ ToSet(d.queued) = ToSet(c.queued) /\ ToSet(d.responding.text) = {}
        /\ ToSet(d.history) = ToSet(c.history) \cup ToSet(text)
    BY <1>1, <1>4, Concat, NoWords DEF Taken
  <2>3. Len(d.history) + Len(d.queued) + Len(d.responding.text) = n
    <3> DEFINE x == Len(c.history)
               y == Len(c.queued)
               z == Len(text)
               u == Len(d.history)
               v == Len(d.queued)
               w == Len(d.responding.text)
    <3>1. x \in Nat /\ y \in Nat /\ z \in Nat /\ x + y + z = n /\ u = x + z /\ v = y /\ w = 0
      BY <1>1, <2>1
    <3> HIDE DEF x, y, z, u, v, w
    <3>2. u + v + w = n
      BY <3>1
    <3> QED BY <3>2 DEF u, v, w
  <2>4. ToSet(d.history) \cup ToSet(d.queued) \cup ToSet(d.responding.text) = S
    BY <2>2
  <2> QED BY <2>3, <2>4 DEF Spread
<1> QED BY <1>2, <1>3, <1>4

LEMMA ResponseTimerStep == ASSUME Inv, ResponseTimer PROVE StepKeeps
<1> DEFINE b == [call EXCEPT !.responding = NoResponse]
           text == call.responding.text
           d == UserTurn(b, text)
<1>1. Good(call) /\ call \in Sessions /\ UNCHANGED <<speech, heard>> /\ call' = d
      /\ call.responding # NoResponse
  BY DEF Inv, Good, ResponseTimer
<1>2. NoResponse \in Responses /\ NoResponse.mode = "none" /\ NoResponse.text = <<>>
  BY DEF NoResponse, Responses
<1>3. text \in Seq(Nat) /\ text # <<>>
  <2>1. call.responding \in Responses /\ text \in Seq(Nat)
    BY <1>1, FieldTypes
  <2>2. call.responding = [mode |-> call.responding.mode, text |-> text]
    BY <2>1 DEF Responses
  <2>3. CASE text = <<>>
    BY <1>1, <2>2, <2>3 DEF Good, Answering, NoResponse
  <2> QED BY <2>1, <2>3
<1>4. b \in Sessions /\ SameTurn(call, b) /\ b.responding = NoResponse
      /\ b.history = call.history /\ b.queued = call.queued /\ b.closing = call.closing
      /\ b.closed = call.closed /\ b.activeTurn = call.activeTurn /\ b.off = call.off
      /\ b.dropped = call.dropped
      /\ b.audio = call.audio
  BY <1>1, <1>2 DEF Sessions, SameTurn
<1> HIDE DEF b
<1>5. Good(b)
  BY <1>1, <1>2, <1>4, SameTurnGood DEF Good, Answering
<1>6. /\ Good(d) /\ d.closed = b.closed /\ d.responding = b.responding
      /\ d.dropped = b.dropped
      /\ Dropped(b, d) \/ Enqueued(b, d, text) \/ Taken(b, d, text)
  BY <1>3, <1>5, UserTurnCases
<1> HIDE DEF d
<1>7. Dropped(call, d) \/ Enqueued(call, d, text) \/ Taken(call, d, text)
  BY <1>4, <1>6 DEF Dropped, Enqueued, Taken, SameTurn
<1>8. Used(call') /\ Watched(call') /\ FloorStep
  BY <1>1, <1>3, <1>4, <1>6, <1>7, AnsweredFloor
<1>9. WordsStep
  <2> SUFFICES ASSUME Words(call, heard), ~ d.closed
               PROVE  Words(d, heard)
    BY <1>1 DEF WordsStep
  <2>1. Enqueued(call, d, text) \/ Taken(call, d, text)
    BY <1>1, <1>4, <1>6, <1>7 DEF Dropped, Good, Answering
  <2>2. PICK n \in Nat, S \in SUBSET Nat :
          Spread(call, n, S) /\ n + Len(call.dropped) = heard
          /\ S \cup ToSet(call.dropped) = 1 .. heard
    BY DEF Words
  <2>3. d.responding.text = <<>> /\ d.dropped = call.dropped
    BY <1>2, <1>4, <1>6
  <2>4. Len(call.history) + Len(call.queued) + Len(text) = n
        /\ ToSet(call.history) \cup ToSet(call.queued) \cup ToSet(text) = S
    BY <2>2 DEF Spread
  <2>5. Spread(d, n, S)
    BY <1>1, <1>3, <2>1, <2>3, <2>4, AddedWords
  <2> QED BY <2>2, <2>3, <2>5 DEF Words
<1> QED BY <1>1, <1>4, <1>6, <1>8, <1>9 DEF Inv, StepKeeps

LEMMA UpdateStep == ASSUME Inv, Update PROVE StepKeeps
<1> DEFINE d == BargeIn(call)
<1>1. Good(call) /\ call' = d /\ heard' = heard /\ ~ call.off
      /\ speech' = IF call' = call THEN "words" ELSE "interrupting"
  BY DEF Inv, Update
<1>2. Good(d) /\ (d.activeTurn = 0 \/ d = call)
  BY <1>1, BargeInGood
<1>3. SameWords(call, d) /\ d.closed = call.closed
  BY <1>1 DEF BargeIn, SameWords, Good, Sessions
<1> HIDE DEF d
<1>4. Used(d)
  BY <1>2 DEF Inv, Used
<1>5. WordsStep
  BY <1>1, <1>3, SameWordsStep
<1>6. FloorStep
  BY <1>1 DEF FloorStep, LosesFloor
<1> QED BY <1>1, <1>2, <1>3, <1>4, <1>5, <1>6 DEF Inv, StepKeeps

LEMMA EndOfTurnStep == ASSUME Inv, EndOfTurn PROVE StepKeeps
<1> DEFINE said == <<heard + 1>>
<1>1. PICK mode \in Waits : call' = ScheduleUserTurn(call, said, mode)
  BY DEF EndOfTurn
<1>2. Good(call) /\ call \in Sessions /\ heard \in Nat /\ heard' = heard + 1 /\ ~ call.closed
  BY DEF Inv, Good, EndOfTurn
<1>3. said \in Seq(Nat) /\ said # <<>> /\ Len(said) = 1 /\ ToSet(said) = {heard + 1}
  BY <1>2 DEF ToSet
<1> HIDE DEF said
<1> DEFINE text == Joined(call, said)
           d == ScheduleUserTurn(call, said, mode)
<1>4. /\ Good(d) /\ d.closed = call.closed /\ d.running = call.running
      /\ text \in Seq(Nat) /\ text # <<>> /\ d.dropped = GivenUp(call)
      /\ \/ mode # "now" /\ PutOff(call, d, text, mode)
         \/ /\ d.responding = NoResponse
            /\ Dropped(call, d) \/ Enqueued(call, d, text) \/ Taken(call, d, text)
  BY <1>2, <1>3, ScheduleCases
<1>5. call' = d
  BY <1>1
<1>t. mode # "none"
  BY TurnsAssumption
<1> HIDE DEF d
<1>6. Used(call') /\ Watched(call') /\ FloorStep
  <2>1. CASE PutOff(call, d, text, mode)
    <3>1. Used(d) /\ FloorStep
      BY <1>5, <2>1 DEF PutOff, SameTurn, Inv, Used, FloorStep
    <3>2. Watched(d)
      BY <1>t, <2>1 DEF PutOff, Watched
    <3> QED BY <1>5, <3>1, <3>2
  <2>2. CASE Dropped(call, d) \/ Enqueued(call, d, text) \/ Taken(call, d, text)
    <3> HIDE DEF text
    <3> QED BY <1>4, <1>5, <2>2, AnsweredFloor
  <2> QED BY <1>4, <2>1, <2>2
<1>7. WordsStep
  <2> SUFFICES ASSUME Words(call, heard), ~ d.closed
               PROVE  Words(d, heard + 1)
    BY <1>2, <1>5 DEF WordsStep
  <2> DEFINE held  == call.responding.text
             given == GivenUp(call)
  <2>0. PICK n \in Nat, S \in SUBSET Nat :
          Spread(call, n, S) /\ n + Len(call.dropped) = heard
          /\ S \cup ToSet(call.dropped) = 1 .. heard
    BY DEF Words
  <2>1. /\ held \in Seq(Nat) /\ call.dropped \in Seq(Nat)
        /\ call.responding.mode \in Waits \cup {"none"}
    BY <1>2, FieldTypes DEF Responses
  <2>2. call.responding.mode \in {"hold", "wait", "none"}
    BY <1>2, <2>1, TurnsAssumption DEF Good, Answering
  <2>a. ~ Dropped(call, d)
    BY <1>2 DEF Dropped, Good, Answering
  <2>b. \/ /\ Enqueued(call, d, text) \/ Taken(call, d, text)
           /\ d.responding.text = <<>>
        \/ d.history = call.history /\ d.queued = call.queued /\ d.responding.text = text
    BY <1>4, <2>a DEF PutOff, NoResponse
  <2>3. PICK m \in Nat, R \in SUBSET Nat :
          /\ Len(call.history) + Len(call.queued) + Len(text) = m
          /\ ToSet(call.history) \cup ToSet(call.queued) \cup ToSet(text) = R
          /\ m + Len(given) = heard + 1 /\ R \cup ToSet(given) = 1 .. heard + 1
    <3> DEFINE hs == ToSet(call.history) \cup ToSet(call.queued)
               x == Len(call.history)
               y == Len(call.queued)
               z == Len(held)
               w == Len(text)
               g == Len(call.dropped)
               k == Len(given)
               ts == ToSet(text)
               zs == ToSet(held)
               gs == ToSet(call.dropped)
               ks == ToSet(given)
    <3>1. x \in Nat /\ y \in Nat /\ z \in Nat /\ g \in Nat
          /\ x + y + z = n /\ n + g = heard
      <4>1. call.history \in Seq(Nat) /\ call.queued \in Seq(Nat)
        BY <1>2, FieldTypes
      <4>2. x + y + z = n
        BY <2>0 DEF Spread
      <4>3. x \in Nat /\ y \in Nat /\ z \in Nat /\ g \in Nat
        BY <2>1, <4>1
      <4> QED BY <2>0, <4>2, <4>3
    <3>2. hs \cup zs = S /\ S \cup gs = 1 .. heard
      BY <2>0 DEF Spread
    <3>3. /\ w \in Nat /\ k \in Nat /\ w + k = z + g + 1
          /\ ts \cup ks = zs \cup gs \cup {heard + 1}
      <4>1. CASE call.responding.mode = "hold"
        <5>1. text = held \o said /\ given = call.dropped \o <<>>
          BY <4>1 DEF Joined, GivenUp
        <5>2. w = z + 1 /\ ts = zs \cup {heard + 1}
          BY <1>3, <2>1, <5>1, Concat
        <5>3. given = call.dropped
          BY <2>1, <5>1
        <5>4. k = g /\ ks = gs
          BY <5>3
        <5> HIDE DEF x, y, z, w, g, k, ts, zs, gs, ks
        <5>5. w \in Nat /\ k \in Nat /\ w + k = z + g + 1
          BY <3>1, <5>2, <5>4
        <5> QED BY <5>2, <5>4, <5>5
      <4>2. CASE call.responding.mode = "wait"
        <5>1. text = said /\ given = call.dropped \o held
          BY <4>2 DEF Joined, GivenUp
        <5>2. k = g + z /\ ks = gs \cup zs
          BY <2>1, <5>1, Concat
        <5>3. w = 1 /\ ts = {heard + 1}
          BY <1>3, <5>1
        <5> HIDE DEF x, y, z, w, g, k, ts, zs, gs, ks
        <5>5. w \in Nat /\ k \in Nat /\ w + k = z + g + 1
          BY <3>1, <5>2, <5>3
        <5> QED BY <5>2, <5>3, <5>5
      <4>3. CASE call.responding.mode = "none"
        <5>1. text = said /\ given = call.dropped \o <<>> /\ held = <<>>
          BY <1>2, <4>3 DEF Joined, GivenUp, Good, Answering
        <5>2. given = call.dropped
          BY <2>1, <5>1
        <5>3. w = 1 /\ ts = {heard + 1} /\ z = 0 /\ zs = {}
          BY <1>3, <5>1, NoWords
        <5>4. k = g /\ ks = gs
          BY <5>2
        <5> HIDE DEF x, y, z, w, g, k, ts, zs, gs, ks
        <5>5. w \in Nat /\ k \in Nat /\ w + k = z + g + 1
          BY <3>1, <5>3, <5>4
        <5> QED BY <5>3, <5>4, <5>5
      <4> QED BY <2>2, <4>1, <4>2, <4>3
    <3>4. hs \subseteq Nat /\ ts \subseteq Nat
      <4>1. hs \subseteq 1 .. heard /\ ts \subseteq 1 .. heard \cup {heard + 1}
        BY <3>2, <3>3
      <4> QED BY <1>2, <4>1
    <3>5. hs \cup ts \cup ks = 1 .. heard + 1
      <4>1. hs \cup ts \cup ks = 1 .. heard \cup {heard + 1}
        BY <3>2, <3>3
      <4>2. 1 .. heard + 1 = 1 .. heard \cup {heard + 1}
        BY <1>2
      <4> QED BY <4>1, <4>2
    <3> HIDE DEF hs, x, y, z, w, g, k, ts, zs, gs, ks
    <3>6. x + y + w \in Nat /\ (x + y + w) + k = heard + 1
      BY <1>2, <3>1, <3>3
    <3>7. hs \cup ts \in SUBSET Nat
      BY <3>4
    <3> DEFINE m == x + y + w
               R == hs \cup ts
    <3>8. m \in Nat /\ R \in SUBSET Nat
      BY <3>6, <3>7
    <3>9. /\ Len(call.history) + Len(call.queued) + Len(text) = m
          /\ ToSet(call.history) \cup ToSet(call.queued) \cup ToSet(text) = R
      BY DEF x, y, w, hs, ts
    <3>10. m + Len(given) = heard + 1 /\ R \cup ToSet(given) = 1 .. heard + 1
      BY <3>5, <3>6 DEF k, ks
    <3> HIDE DEF m, R, text, given
    <3> QED BY <3>8, <3>9, <3>10
  <2>4. text \in Seq(Nat) /\ call \in Sessions /\ d.dropped = given
    BY <1>2, <1>4
  <2> HIDE DEF text, given
  <2>5. Spread(d, m, R)
    BY <2>3, <2>4, <2>b, AddedWords
  <2> QED BY <2>3, <2>4, <2>5 DEF Words
<1> QED BY <1>2, <1>4, <1>5, <1>6, <1>7 DEF Inv, StepKeeps

LEMMA HangUpStep == ASSUME Inv, HangUp PROVE StepKeeps
<1> DEFINE c == Close(call)
           d == [c EXCEPT !.line = "gone"]
<1>1. Good(call) /\ call' = d /\ UNCHANGED <<speech, heard>>
  BY DEF Inv, HangUp
<1>2. Good(c) /\ c.closed /\ c.activeTurn = call.activeTurn /\ c.turn = call.turn
  BY <1>1, CloseGood DEF Good, Answering
<1> HIDE DEF c
<1>3. d \in Sessions /\ SameTurn(c, d) /\ d.closed /\ d.activeTurn = c.activeTurn
      /\ d.responding = c.responding /\ d.closing = c.closing
  BY <1>2 DEF Good, Sessions, SameTurn
<1> HIDE DEF d
<1>4. Good(d)
  BY <1>2, <1>3, SameTurnGood DEF Good, Answering
<1>5. Used(d) /\ Watched(d)
  BY <1>2, <1>3 DEF Inv, Used, Watched, SameTurn
<1> QED BY <1>1, <1>2, <1>3, <1>4, <1>5 DEF Inv, StepKeeps, FloorStep, WordsStep

-----------------------------------------------------------------------------
(* The theorems.                                                           *)

LEMMA NextKeeps == ASSUME Inv, Next PROVE StepKeeps
<1>1. CASE Model
  BY <1>1, SentenceStep, EndsUnheardStep, CallToolStep, ReplyStep, SilentReplyStep DEF Model
<1>2. CASE ToolReturns \/ SendSentence \/ AudioDrained
  BY <1>2, ToolReturnsStep, SendSentenceStep, AudioDrainedStep
<1>3. CASE SilenceTimer \/ ResponseTimer
  BY <1>3, SilenceTimerStep, ResponseTimerStep
<1>4. CASE Update \/ EndOfTurn \/ HangUp
  BY <1>4, UpdateStep, EndOfTurnStep, HangUpStep
<1> QED BY <1>1, <1>2, <1>3, <1>4 DEF Next

LEMMA InitGood == Init => Inv /\ Words(call, heard)
<1> SUFFICES ASSUME Init PROVE Inv /\ Words(call, heard)
  OBVIOUS
<1> DEFINE t == TurnOf(1, "ask")
           n == [m \in Asking |-> 0]
<1>1. PICK off, limit \in BOOLEAN :
        call = [turnSeq |-> 1, activeTurn |-> 1, turn |-> t, step |-> "ask",
                queued |-> <<>>, history |-> <<>>, responding |-> NoResponse,
                sendChain |-> <<>>, audio |-> "silent", line |-> "open", off |-> off,
                running |-> {}, tools |-> 0, nudges |-> n,
                limit |-> limit, reminder |-> {}, reminders |-> 0, dropped |-> <<>>,
                closing |-> FALSE, closed |-> FALSE]
  BY DEF Init
<1>2. "ask" \in ToSet(Steps)
  <2>1. Steps[1] = "ask" /\ 1 \in DOMAIN Steps
    BY DEF Steps
  <2> QED BY <2>1 DEF ToSet
<1>3. t \in Turns /\ t.id = 1 /\ t.pendingTts = 0 /\ t.llmDone = FALSE
  BY <1>2 DEF TurnOf, Turns
<1>4. NoResponse \in Responses /\ NoResponse.mode = "none" /\ NoResponse.text = <<>>
  BY DEF NoResponse, Responses
<1>5. n \in [Asking -> Nat] /\ <<>> \in Seq(Nat) /\ {} \in SUBSET Nat
  OBVIOUS
<1> HIDE DEF t, n
<1>6. call \in Sessions
  BY <1>1, <1>2, <1>3, <1>4, <1>5 DEF Sessions
<1>7. /\ call.turnSeq = 1 /\ call.activeTurn = 1 /\ call.turn = t /\ call.sendChain = <<>>
      /\ call.running = {} /\ call.responding = NoResponse /\ ~ call.closing
      /\ call.history = <<>> /\ call.queued = <<>> /\ call.dropped = <<>>
  BY <1>1
<1>8. Good(call)
  BY <1>3, <1>4, <1>6, <1>7 DEF Good, Waiting, Numbered, Answering
<1>9. Used(call) /\ Watched(call) /\ heard = 0
  BY <1>3, <1>7 DEF Used, Watched, Init
<1>10. Words(call, 0)
  <2>1. 1 .. 0 = {}
    OBVIOUS
  <2>2. Spread(call, 0, {}) /\ 0 + Len(call.dropped) = 0 /\ {} \cup ToSet(call.dropped) = 1 .. 0
    BY <1>4, <1>7, <2>1, NoWords DEF Spread
  <2> QED BY <2>2 DEF Words
<1> QED BY <1>8, <1>9, <1>10 DEF Inv

LEMMA Stutters == ASSUME Inv, UNCHANGED vars PROVE Inv' /\ (call.closed => call'.closed)
BY DEF Inv, vars

(* The inductive invariant of the turn engine holds.                       *)
LEMMA TurnsInv == Spec => []Inv
<1>1. Init => Inv
  BY InitGood
<1>2. Inv /\ [Next]_vars => Inv'
  BY NextKeeps, Stutters DEF StepKeeps, Inv
<1> QED BY <1>1, <1>2, PTL DEF Spec

(* Nobody holds the floor for nothing: whatever order callbacks, timers and *)
(* the caller's words come in, the turn that has it is being generated or   *)
(* has a sentence to send (FloorIsUsed, server.js _maybeRetireTurn).       *)
THEOREM FloorNeverIdle == Spec => []FloorIsUsed
<1>1. Inv => FloorIsUsed
  <2> SUFFICES ASSUME Inv, call.activeTurn # 0, call.turn.llmDone
               PROVE  call.activeTurn \in ToSet(call.sendChain)
    BY DEF FloorIsUsed
  <2> DEFINE s == call.sendChain
             p == call.turn.pendingTts
  <2>1. s \in Seq(Nat) /\ p \in 1 .. Len(s) /\ call.activeTurn = call.turn.id
    BY FieldTypes DEF Inv, Good, Used, Waiting, Numbered
  <2>2. Len(s) \in 1 .. Len(s) /\ Len(s) > Len(s) - p
    BY <2>1
  <2>3. s[Len(s)] = call.turn.id
    BY <2>2 DEF Inv, Good, Waiting
  <2> QED BY <2>1, <2>2, <2>3 DEF ToSet
<1> QED BY <1>1, TurnsInv, PTL

(* When nobody speaks and nothing is about to make them, the silence clock  *)
(* runs, unless the flow has no limit on silence and no reminder left, or   *)
(* queued words wait for the audio to drain (SilenceWatched, server.js      *)
(* _scheduleReminderIfConfigured).                                         *)
THEOREM SilenceIsWatched == Spec => []SilenceWatched
<1>1. Inv => SilenceWatched
  <2>1. NoResponse.mode = "none"
    BY DEF NoResponse
  <2> QED BY <2>1 DEF Inv, Watched, ClockLess, SilenceWatched, Unwatched, MovedOn
<1> QED BY <1>1, TurnsInv, PTL

(* However the caller's utterances are answered - at once, held for the rest *)
(* of a number, or after a wait - each of them, while the call lasts, is in *)
(* the history, in the queue, about to be answered, or given up with its    *)
(* waiting reply for a later one, and in one of them only (NotLost).       *)
THEOREM NothingSaidIsLost == Spec => []NotLost
<1> DEFINE WInv == Inv /\ (~ call.closed => Words(call, heard))
<1>1. Init => WInv
  BY InitGood
<1>2. WInv /\ [Next]_vars => WInv'
  <2> SUFFICES ASSUME WInv, [Next]_vars PROVE WInv'
    OBVIOUS
  <2>1. CASE Next
    BY <2>1, NextKeeps DEF StepKeeps, WordsStep, Inv
  <2>2. CASE UNCHANGED vars
    BY <2>2, WordsSame DEF vars, Inv, SameWords
  <2> QED BY <2>1, <2>2
<1>3. WInv => NotLost
  <2> SUFFICES ASSUME WInv, ~ call.closed PROVE NotLost
    BY DEF NotLost
  <2> DEFINE x == call.history
             y == call.queued
             z == call.responding.text
             u == call.dropped
  <2>1. x \in Seq(Nat) /\ y \in Seq(Nat) /\ z \in Seq(Nat) /\ u \in Seq(Nat)
    BY FieldTypes DEF Inv, Good
  <2>2. x \o y \in Seq(Nat) /\ Len(x \o y) = Len(x) + Len(y)
        /\ ToSet(x \o y) = ToSet(x) \cup ToSet(y)
    BY <2>1, Concat
  <2>3. x \o y \o z \in Seq(Nat) /\ Len(x \o y \o z) = Len(x \o y) + Len(z)
        /\ ToSet(x \o y \o z) = ToSet(x \o y) \cup ToSet(z)
    BY <2>1, <2>2, Concat
  <2>4. Len(x \o y \o z \o u) = Len(x \o y \o z) + Len(u)
        /\ ToSet(x \o y \o z \o u) = ToSet(x \o y \o z) \cup ToSet(u)
    BY <2>1, <2>3, Concat
  <2>5. PICK n \in Nat, S \in SUBSET Nat :
          Spread(call, n, S) /\ n + Len(u) = heard /\ S \cup ToSet(u) = 1 .. heard
    BY DEF Words
  <2>6. Len(x) + Len(y) + Len(z) = n /\ ToSet(x) \cup ToSet(y) \cup ToSet(z) = S
    BY <2>5 DEF Spread
  <2> QED BY <2>2, <2>3, <2>4, <2>5, <2>6 DEF NotLost
<1> QED BY <1>1, <1>2, <1>3, PTL DEF Spec

(* A turn loses the floor only to what may take it: its own end, a caller   *)
(* who interrupts or is heard out, the result of a tool (FloorKept).       *)
THEOREM FloorIsKept == Spec => FloorKept
<1>1. Inv /\ [Next]_vars => [FloorStep]_vars
  BY NextKeeps DEF StepKeeps
<1>2. Spec => [][FloorStep]_vars
  BY <1>1, TurnsInv, PTL DEF Spec
<1> QED BY <1>2 DEF FloorKept, FloorStep
=============================================================================
