------------------------------ MODULE PiperPool ------------------------------
(***************************************************************************)
(* The call engine's sockets to the Piper worker (call-loop-poc/piperTts.js *)
(* and _speakPiper of server.js): a pool with a cap on open sockets, busy  *)
(* or parked warm for a call; the sentences of a call speak one behind the *)
(* other, each on a leased socket or, when that fails before any audio,    *)
(* through ElevenLabs.  A barge-in aborts what a call is saying.           *)
(***************************************************************************)
EXTENDS Naturals, Sequences, FiniteSets

CONSTANTS Lines,        \* calls, the sessionKey of the pool
          MaxStreams,   \* PIPER_MAX_STREAMS
          MaxSpoken     \* bound on sentences

ASSUME PoolAssumption == MaxStreams \in Nat \ {0} /\ MaxSpoken \in Nat /\ "none" \notin Lines

Sentences == 1 .. MaxSpoken

VARIABLES
  busy,     \* as counted
  idle,     \* [Lines -> warm sockets, the newest last]
  lease,    \* [leases that are held -> their sockets]: <<s, l>> of a sentence, <<0, l>> of a prewarm
  warming,  \* [Lines -> "new", "connecting" or "over": the prewarm of the call]
  sentence, \* [Sentences -> how far each is]
  closed    \* the lines that were closed

poolVars == <<busy, idle, lease, warming, sentence, closed>>

\* a socket: whether the worker has closed it, before the event of that, and what the
\* worker has still to answer on it
Fresh == [closing |-> FALSE, work |-> <<>>]
Unsaid == [at |-> "none", line |-> "none", aborted |-> FALSE, heard |-> {}, other |-> FALSE]
Parked == {p \in Lines \X (1 .. MaxStreams) : p[2] <= Len(idle[p[1]])}
Said(l) == {s \in Sentences : sentence[s].line = l}
Holder(s) == <<s, sentence[s].line>>
Socket(s) == lease[Holder(s)]

PoolInit ==
  /\ busy = 0 /\ idle = [l \in Lines |-> <<>>] /\ lease = [o \in {} |-> Fresh]
  /\ warming = [l \in Lines |-> "new"]
  /\ sentence = [s \in Sentences |-> Unsaid] /\ closed = {}

Without(held) == [o \in DOMAIN lease \ held |-> lease[o]]
Lend(o, socket) == /\ busy' = busy + 1
                   /\ lease' = [p \in DOMAIN lease \cup {o} |-> IF p = o THEN socket ELSE lease[p]]
Placed(s, place) == sentence' = [sentence EXCEPT ![s].at = place]
Asked(socket, s) == [socket EXCEPT !.work = Append(@, s)]

\* acquire() with a warm socket of the line: the newest that is open; what is newer is
\* closing and leaves the list
Warm(l) == {i \in 1 .. Len(idle[l]) : ~ idle[l][i].closing}
Reuse(s) ==
  LET l == sentence[s].line
  IN \E i \in Warm(l) :
       /\ \A j \in Warm(l) : j <= i
       /\ idle' = [idle EXCEPT ![l] = SubSeq(@, 1, i - 1)]
       /\ Lend(Holder(s), Asked(idle[l][i], s))

\* acquire() with a new one: a warm socket of any call makes room.  (Never more than
\* one has to, as the cap held before; which call is the oldest is left open.)
Evicted(parked) ==
  LET some == {l \in Lines : parked[l] # <<>>}
  IN IF some = {} \/ busy + Cardinality({p \in Parked : p[2] <= Len(parked[p[1]])}) < MaxStreams
     THEN {parked}
     ELSE {[parked EXCEPT ![l] = Tail(@)] : l \in some}
ConnectNew(o) ==
  /\ Warm(o[2]) = {}
  /\ idle' \in Evicted([idle EXCEPT ![o[2]] = <<>>])
  /\ Lend(o, Fresh)

\* release(): back to the warm ones of the line, or closed
Park(o, socket) ==
  /\ busy' = busy - 1 /\ lease' = Without({o})
  /\ idle' = IF socket.closing THEN idle ELSE [idle EXCEPT ![o[2]] = Append(@, socket)]
Discard(held) == busy' = busy - Cardinality(held) /\ lease' = Without(held) /\ UNCHANGED idle

-----------------------------------------------------------------------------
\* the prewarm of a call's context message
Prewarm(l) ==
  /\ warming[l] = "new" /\ l \notin closed
  /\ \/ /\ idle[l] = <<>> /\ busy < MaxStreams /\ ConnectNew(<<0, l>>)
        /\ warming' = [warming EXCEPT ![l] = "connecting"]
     \/ /\ idle[l] # <<>> \/ busy >= MaxStreams
        /\ warming' = [warming EXCEPT ![l] = "over"]
        /\ UNCHANGED <<busy, idle, lease>>
  /\ UNCHANGED <<sentence, closed>>

Prewarmed(l) ==
  /\ warming[l] = "connecting"
  /\ warming' = [warming EXCEPT ![l] = "over"]
  /\ Park(<<0, l>>, Fresh) \/ Discard({<<0, l>>})
  /\ UNCHANGED <<sentence, closed>>

\* _speakPiper: the sentence takes its place in _piperChain; an answer of the model that
\* is still coming is spoken after the call was closed, too
SpeakPiper(l, s) ==
  /\ sentence[s] = Unsaid /\ \A r \in 1 .. s - 1 : sentence[r] # Unsaid
  /\ sentence' = [sentence EXCEPT ![s].at = "waits", ![s].line = l]
  /\ UNCHANGED <<busy, idle, lease, warming, closed>>

\* prev is resolved by the finally of the sentence before, which had waited for its own
Ahead(s) == {r \in Said(sentence[s].line) : r < s /\ sentence[r].at # "over"}

Proceed(s) ==
  /\ sentence[s].at = "waits" /\ Ahead(s) = {}
  /\ \/ /\ sentence[s].aborted \/ busy >= MaxStreams
        /\ Placed(s, IF sentence[s].aborted THEN "over" ELSE "fallback")
        /\ UNCHANGED <<busy, idle, lease>>
     \/ /\ ~ sentence[s].aborted /\ busy < MaxStreams
        /\ \/ Reuse(s) /\ Placed(s, "asked")
           \/ ConnectNew(Holder(s)) /\ Placed(s, "connecting")
  /\ UNCHANGED <<warming, closed>>

\* a signal that fired while it connected is not looked at: the request is sent
PiperOpens(s) ==
  /\ sentence[s].at = "connecting" /\ Placed(s, "asked")
  /\ lease' = [lease EXCEPT ![Holder(s)] = Asked(@, s)]
  /\ UNCHANGED <<busy, idle, warming, closed>>

\* what _speakPiper does about an error of piperSynthesize
PiperFailed(s) == Placed(s, IF sentence[s].aborted \/ sentence[s].heard # {} THEN "over" ELSE "fallback")

\* the connection fails; or an error or "cancelled" of the worker, a timer, a close event
RequestFails(s) ==
  /\ sentence[s].at \in {"connecting", "asked"} /\ PiperFailed(s)
  /\ Discard({Holder(s)})
  /\ UNCHANGED <<warming, closed>>

Answering(s) == sentence[s].at = "asked" /\ ~ Socket(s).closing /\ Socket(s).work # <<>>

ReceiveFrame(s) ==
  /\ Answering(s)
  /\ sentence' = [sentence EXCEPT ![s].heard = @ \cup {Head(Socket(s).work)}]
  /\ UNCHANGED <<busy, idle, lease, warming, closed>>

ReceiveDone(s) ==
  /\ Answering(s) /\ Placed(s, "over")
  /\ Park(Holder(s), [Socket(s) EXCEPT !.work = Tail(@)])
  /\ UNCHANGED <<warming, closed>>

\* the ElevenLabs request ends, with audio or without
FallbackEnds(s) ==
  /\ sentence[s].at = "fallback"
  /\ \E audio \in BOOLEAN : sentence' = [sentence EXCEPT ![s].at = "over", ![s].other = audio]
  /\ UNCHANGED <<busy, idle, lease, warming, closed>>

\* _bargeIn fires the signal of everything the call is saying: a request that was sent
\* is stopped and its socket closed, unless its signal had fired before
Cut(l) == {s \in Said(l) : sentence[s].at # "over" /\ ~ sentence[s].aborted}
StopRequests(asked) == Discard({Holder(s) : s \in asked})
BargeInPiper(l) ==
  /\ Cut(l) # {}
  /\ StopRequests({s \in Cut(l) : sentence[s].at = "asked"})
  /\ sentence' = [s \in Sentences |->
       IF s \notin Cut(l) THEN sentence[s]
       ELSE [sentence[s] EXCEPT !.aborted = TRUE,
                                !.at = IF @ \in {"asked", "fallback"} THEN "over" ELSE @]]
  /\ UNCHANGED <<warming, closed>>

\* the worker or the network closes a socket that is open
PeerCloses ==
  /\ \/ \E p \in Parked : idle' = [idle EXCEPT ![p[1]][p[2]].closing = TRUE] /\ UNCHANGED lease
     \/ \E s \in Sentences : /\ sentence[s].at = "asked"
                             /\ lease' = [lease EXCEPT ![Holder(s)].closing = TRUE] /\ UNCHANGED idle
  /\ UNCHANGED <<busy, warming, sentence, closed>>

\* _dropIdle: the timer of a parked socket, or its close event
DropIdle(l, i) ==
  /\ i <= Len(idle[l])
  /\ idle' = [idle EXCEPT ![l] = SubSeq(@, 1, i - 1) \o SubSeq(@, i + 1, Len(@))]
  /\ UNCHANGED <<busy, lease, warming, sentence, closed>>

CloseLine(l) ==
  /\ l \notin closed
  /\ closed' = closed \cup {l}
  /\ idle' = [idle EXCEPT ![l] = <<>>]
  /\ UNCHANGED <<busy, lease, warming, sentence>>

SentenceStep(s) == Proceed(s) \/ PiperOpens(s) \/ RequestFails(s) \/ FallbackEnds(s)
DropAny(l) == \E i \in 1 .. MaxStreams : DropIdle(l, i)
PoolNext ==
  \/ \E l \in Lines : \/ Prewarm(l) \/ Prewarmed(l) \/ BargeInPiper(l) \/ CloseLine(l) \/ DropAny(l)
                      \/ \E s \in Sentences : SpeakPiper(l, s)
  \/ \E s \in Sentences : SentenceStep(s) \/ ReceiveFrame(s) \/ ReceiveDone(s)
  \/ PeerCloses

-----------------------------------------------------------------------------
\* The pool counts the sockets it lent, to a prewarm or a sentence that is still at it, and
\* never has more open than it may, whatever fails, is stopped, evicted or closed meanwhile.
PoolCounts ==
  /\ busy = Cardinality(DOMAIN lease)
  /\ DOMAIN lease = {Holder(s) : s \in {r \in Sentences : sentence[r].at \in {"connecting", "asked"}}}
                    \cup {<<0, l>> : l \in {k \in Lines : warming[k] = "connecting"}}
  /\ busy + Cardinality(Parked) <= MaxStreams

\* A call synthesizes one sentence at a time; a sentence is heard from Piper or from
\* ElevenLabs, never from both, and no sentence hears the audio of another.
SpokenOnce ==
  /\ \A l \in Lines :
       Cardinality({s \in Said(l) : sentence[s].at \in {"connecting", "asked", "fallback"}}) <= 1
  /\ \A s \in Sentences : /\ sentence[s].heard \subseteq {s}
                          /\ sentence[s].other => sentence[s].heard = {}

\* Where the pool must come to rest when no more is said (<>[]): every sentence has ended,
\* so none held up the next of its call for ever; and a closed call keeps no socket.
SentencesEnd ==
  /\ \A s \in Sentences : sentence[s].at \in {"none", "over"}
  /\ \A l \in closed : idle[l] = <<>>
=============================================================================
