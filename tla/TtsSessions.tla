----------------------------- MODULE TtsSessions -----------------------------
(***************************************************************************)
(* The synthesis sessions of the speech workers: worker-piper-fly (sockets *)
(* and POST /v1/tts/stream, which share the slots of the machine),         *)
(* worker-modal-piper (the same sockets, neither slots nor billing),       *)
(* worker-modal-readaloud (both, billing, no slots) and the workers of the *)
(* same shape that do not bill, worker-modal and worker.  The Piper        *)
(* workers read a socket in a task of its own, so that a stop can overtake *)
(* the requests; the others read it between two requests.                  *)
(***************************************************************************)
EXTENDS Naturals, Sequences, FiniteSets

CONSTANTS Workers,         \* the workers a behaviour may be of
          Socks,           \* WebSocket connections
          Streams,         \* POST /v1/tts/stream requests
          MaxConnections,  \* slots of a Piper machine
          MaxMessages,     \* bound on the messages of a client
          MaxSentences     \* bound on the sentences of a text

(* What the handlers differ in: a task that reads ahead, slots, a meter,   *)
(* POST /v1/tts/stream, and whether what is malformed is always caught: a  *)
(* speed that is not is what ends a connection, in ReadAloud a frame_ms.   *)
Handler(reader, slots, bills, http, catches) ==
  [reader |-> reader, slots |-> slots, bills |-> bills, http |-> http, catches |-> catches]
PiperFly   == Handler(TRUE, TRUE, TRUE, TRUE, TRUE)
PiperModal == Handler(TRUE, FALSE, FALSE, FALSE, FALSE)
ReadAloud  == Handler(FALSE, FALSE, TRUE, TRUE, FALSE)
Kokoro     == Handler(FALSE, FALSE, FALSE, FALSE, FALSE)   \* worker-modal
KokoroGpu  == Handler(FALSE, FALSE, FALSE, FALSE, FALSE)   \* worker
HandlerOf  == [piper_fly |-> PiperFly, piper_modal |-> PiperModal, readaloud |-> ReadAloud,
               kokoro |-> Kokoro, kokoro_gpu |-> KokoroGpu]

ASSUME TtsAssumption ==
  /\ Workers \subseteq DOMAIN HandlerOf
  /\ {MaxConnections, MaxMessages, MaxSentences} \subseteq Nat

VARIABLES
  worker,    \* the worker of this behaviour
  active,    \* _active
  sock,      \* [Socks -> the coroutine of each socket]
  wire,      \* [Socks -> what the client sent and nobody read]
  inbox,     \* [Socks -> what the reader task read and the main loop did not]
  answer,    \* [Socks -> what became of the request answered last]
  stream     \* [Streams -> the coroutine of each HTTP request]

ttsVars == <<worker, active, sock, wire, inbox, answer, stream>>

HasReader == HandlerOf[worker].reader
HasSlots  == HandlerOf[worker].slots
Bills     == HandlerOf[worker].bills

(* "unreadable": JSON that is no object, or a binary frame.                *)
Messages == {"synthesize", "malformed", "unreadable", "stop"}
Working  == {"engine", "speaking", "synth"}
Live     == Working \cup {"waiting", "leaving"}
Outcomes == [result : {"none", "done", "cancelled", "error"}, billed : BOOLEAN, stopped : BOOLEAN,
             of : 0 .. MaxSentences, spoken : 0 .. MaxSentences]

NoAnswer == [result |-> "none", billed |-> FALSE, stopped |-> FALSE, of |-> 0, spoken |-> 0]

TtsTypeOK ==
  /\ worker \in Workers /\ active \in Nat
  /\ sock \in [Socks -> [pc : Live \cup {"new", "accepted", "over"}, cancel : BOOLEAN,
                         gone : BOOLEAN, deaf : BOOLEAN, stopped : BOOLEAN,
                         sent : 0 .. MaxMessages, of : 0 .. MaxSentences, spoken : 0 .. MaxSentences]]
  /\ wire \in [Socks -> Seq(Messages \cup {"gone"})]
  /\ inbox \in [Socks -> Seq(Messages \cup {"gone"})]
  /\ answer \in [Socks -> Outcomes]
  /\ stream \in [Streams -> [pc : {"new", "body", "streaming", "after", "over"},
                             gone : BOOLEAN, released : BOOLEAN, billed : BOOLEAN,
                             of : 0 .. MaxSentences, spoken : 0 .. MaxSentences]]

TtsInit ==
  /\ worker \in Workers /\ active = 0
  /\ sock \in [Socks -> [pc : {"new"}, cancel : {FALSE}, gone : {FALSE}, deaf : {FALSE},
                         stopped : {FALSE}, sent : {0}, of : {0}, spoken : {0}]]
  /\ wire = [c \in Socks |-> <<>>] /\ inbox = [c \in Socks |-> <<>>]
  /\ answer = [c \in Socks |-> NoAnswer]
  /\ stream \in [Streams -> [pc : {"new"}, gone : {FALSE}, released : {FALSE},
                             billed : {FALSE}, of : {0}, spoken : {0}]]

Sock(c, rec) == sock' = [sock EXCEPT ![c] = rec]
Goes(c, pc)  == Sock(c, [sock[c] EXCEPT !.pc = pc])

-----------------------------------------------------------------------------
(* A client: it may say anything at any time, and leave.  For a worker      *)
(* without a reader task what is unreadable is malformed.                  *)
StillToCome(c) == \/ sock[c].pc = "engine"
                  \/ sock[c].pc = "speaking" /\ sock[c].spoken < sock[c].of
                  \/ sock[c].pc = "synth" /\ sock[c].spoken + 1 < sock[c].of

Say(c, m) ==
  /\ sock[c].pc \in Live /\ ~ sock[c].gone /\ sock[c].sent < MaxMessages
  /\ m = "unreadable" => HasReader
  /\ wire' = [wire EXCEPT ![c] = Append(@, m)]
  /\ Sock(c, [sock[c] EXCEPT !.sent = @ + 1,
                             !.stopped = @ \/ (m = "stop" /\ ~ HasReader /\ StillToCome(c))])
  /\ UNCHANGED <<worker, active, inbox, answer, stream>>

Disconnect(c) ==
  /\ sock[c].pc \in Live /\ ~ sock[c].gone
  /\ wire' = [wire EXCEPT ![c] = Append(@, "gone")]
  /\ Sock(c, [sock[c] EXCEPT !.gone = TRUE])
  /\ UNCHANGED <<worker, active, inbox, answer, stream>>

(* The token is good (or closed with 4401) and the socket is accepted.     *)
Accept(c) ==
  /\ sock[c].pc = "new"
  /\ \E pc \in {"accepted", "over"} : Goes(c, pc)
  /\ UNCHANGED <<worker, active, wire, inbox, answer, stream>>

(* From the check to the count nothing is awaited.                         *)
TakeSlot(c) ==
  /\ sock[c].pc = "accepted"
  /\ IF HasSlots /\ active >= MaxConnections
       THEN Goes(c, "over") /\ UNCHANGED active
       ELSE Goes(c, "waiting") /\ active' = IF HasSlots THEN active + 1 ELSE active
  /\ UNCHANGED <<worker, wire, inbox, answer, stream>>

(* reader(): a stop and a disconnect set the event, the rest is queued.  It *)
(* catches nothing but the disconnect, so that it dies of what it cannot    *)
(* read, and nobody hears the client any more.                             *)
Read(c) ==
  LET m == Head(wire[c]) IN
  /\ HasReader /\ sock[c].pc \in Live /\ ~ sock[c].deaf /\ wire[c] # <<>>
  /\ wire' = [wire EXCEPT ![c] = Tail(@)]
  /\ inbox' = IF m \in {"stop", "unreadable"} THEN inbox ELSE [inbox EXCEPT ![c] = Append(@, m)]
  /\ Sock(c, [sock[c] EXCEPT !.cancel = @ \/ m \in {"stop", "gone"}, !.deaf = (m = "unreadable"),
                             !.stopped = @ \/ (m = "stop" /\ StillToCome(c))])
  /\ UNCHANGED <<worker, active, answer, stream>>

(* What the main loop reads next: the inbox, or the socket itself.         *)
Queue(c) == IF HasReader THEN inbox[c] ELSE wire[c]
Dequeue(c) == IF HasReader THEN inbox' = [inbox EXCEPT ![c] = Tail(@)] /\ UNCHANGED wire
                           ELSE wire' = [wire EXCEPT ![c] = Tail(@)] /\ UNCHANGED inbox

(* The end of the connection: the client left, or a send finds it gone, or *)
(* a field that cannot be converted raises where no try catches it.        *)
TakeLast(c) ==
  /\ sock[c].pc = "waiting" /\ Queue(c) # <<>>
  /\ \/ Head(Queue(c)) = "gone"
     \/ Head(Queue(c)) = "malformed" /\ (sock[c].gone \/ ~ HandlerOf[worker].catches)
  /\ Dequeue(c) /\ Goes(c, "leaving")
  /\ UNCHANGED <<worker, active, answer, stream>>

(* A message that is answered with an error, before or after the event is  *)
(* cleared; a stop that comes between two requests.                        *)
TakeOther(c) ==
  /\ sock[c].pc = "waiting" /\ Queue(c) # <<>>
  /\ \/ Head(Queue(c)) = "malformed" /\ \E b \in {FALSE, sock[c].cancel} : Sock(c, [sock[c] EXCEPT !.cancel = b])
     \/ Head(Queue(c)) = "stop" /\ Sock(c, [sock[c] EXCEPT !.cancel = TRUE])
  /\ Dequeue(c)
  /\ UNCHANGED <<worker, active, answer, stream>>

TakeRequest(c) ==
  /\ sock[c].pc = "waiting" /\ Queue(c) # <<>> /\ Head(Queue(c)) = "synthesize"
  /\ Dequeue(c)
  /\ Sock(c, [sock[c] EXCEPT !.pc = "engine", !.cancel = FALSE, !.stopped = FALSE, !.of = 0, !.spoken = 0])
  /\ UNCHANGED <<worker, active, answer, stream>>

(* The end of a request.  When the client is gone the send may raise: the  *)
(* Piper workers leave the loop, the others get there by a second raise.   *)
Answer(c, result, billed) ==
  \/ /\ answer' = [answer EXCEPT ![c] = [result |-> result, billed |-> billed,
                      stopped |-> sock[c].stopped, of |-> sock[c].of, spoken |-> sock[c].spoken]]
     /\ Goes(c, "waiting")
  \/ sock[c].gone /\ Goes(c, "leaving") /\ UNCHANGED answer

(* get_engine() and sentences(), in the pool; Kokoro splits the text.      *)
LoadEngine(c) ==
  /\ sock[c].pc = "engine"
  /\ \/ \E n \in 0 .. MaxSentences : Sock(c, [sock[c] EXCEPT !.pc = "speaking", !.of = n])
        /\ UNCHANGED answer
     \/ Answer(c, "error", FALSE)
  /\ UNCHANGED <<worker, active, wire, inbox, stream>>

Speak(c) ==
  /\ sock[c].pc = "speaking" /\ sock[c].spoken < sock[c].of /\ ~ sock[c].cancel
  /\ Goes(c, "synth")
  /\ UNCHANGED <<worker, active, wire, inbox, answer, stream>>

(* The sentence is synthesized and sent, or the client is told it failed.  *)
Send(c) ==
  /\ sock[c].pc = "synth"
  /\ \/ Sock(c, [sock[c] EXCEPT !.pc = "speaking", !.spoken = @ + 1]) /\ UNCHANGED answer
     \/ Answer(c, "error", FALSE)
  /\ UNCHANGED <<worker, active, wire, inbox, stream>>

(* The loop over the sentences is left: only what is done is billed.       *)
EndRequest_BillsCancelled(c) ==
  /\ sock[c].pc = "speaking"
  /\ \/ sock[c].cancel /\ sock[c].spoken < sock[c].of /\ Answer(c, "cancelled", Bills)
     \/ sock[c].spoken = sock[c].of /\ \E metered \in BOOLEAN : Answer(c, "done", Bills /\ metered)
  /\ UNCHANGED <<worker, active, wire, inbox, stream>>

EndRequest(c) ==
  /\ sock[c].pc = "speaking"
  /\ \/ sock[c].cancel /\ sock[c].spoken < sock[c].of /\ Answer(c, "cancelled", FALSE)
     \/ sock[c].spoken = sock[c].of /\ \E metered \in BOOLEAN : Answer(c, "done", Bills /\ metered)
  /\ UNCHANGED <<worker, active, wire, inbox, stream>>

Leave(c) ==
  /\ sock[c].pc = "leaving" /\ Goes(c, "over")
  /\ active' = IF HasSlots THEN active - 1 ELSE active
  /\ UNCHANGED <<worker, wire, inbox, answer, stream>>

-----------------------------------------------------------------------------
(* POST /v1/tts/stream.                                                    *)
Stream(r, rec) == stream' = [stream EXCEPT ![r] = rec] /\ UNCHANGED <<worker, sock, wire, inbox, answer>>

(* Not authorized or no slot is left: refused.                             *)
AdmitStream(r) ==
  /\ stream[r].pc = "new" /\ HandlerOf[worker].http
  /\ \/ Stream(r, [stream[r] EXCEPT !.pc = "over"]) /\ UNCHANGED active
     \/ /\ HasSlots => active < MaxConnections
        /\ Stream(r, [stream[r] EXCEPT !.pc = "body"])
        /\ active' = IF HasSlots THEN active + 1 ELSE active

HangUp(r) ==
  /\ stream[r].pc \in {"body", "streaming"} /\ ~ stream[r].gone
  /\ Stream(r, [stream[r] EXCEPT !.gone = TRUE]) /\ UNCHANGED active

(* release(): whoever comes first gives the slot back.                     *)
Released(r) == active' = IF HasSlots /\ ~ stream[r].released THEN active - 1 ELSE active

(* The body, its fields and the voice: any may be refused.                 *)
Body(r) ==
  /\ stream[r].pc = "body"
  /\ \/ Stream(r, [stream[r] EXCEPT !.pc = "over", !.released = TRUE]) /\ Released(r)
     \/ /\ \E n \in 1 .. MaxSentences : Stream(r, [stream[r] EXCEPT !.pc = "streaming", !.of = n])
        /\ UNCHANGED active

(* gen(): each sentence if the client is there.  A client that goes may    *)
(* also cancel the response, before gen() started or within it.            *)
Chunk(r) ==
  /\ stream[r].pc = "streaming" /\ stream[r].spoken < stream[r].of /\ ~ stream[r].gone
  /\ Stream(r, [stream[r] EXCEPT !.spoken = @ + 1]) /\ UNCHANGED active

EndStream(r) ==
  /\ stream[r].pc = "streaming"
  /\ \/ /\ stream[r].gone \/ stream[r].spoken = stream[r].of
        /\ \E metered \in BOOLEAN :
             Stream(r, [stream[r] EXCEPT !.pc = "after", !.released = TRUE,
                                         !.billed = metered /\ ~ stream[r].gone])
        /\ Released(r)
     \/ /\ stream[r].gone
        /\ Stream(r, [stream[r] EXCEPT !.pc = "after"]) /\ UNCHANGED active

(* BackgroundTask(release), after the response.                            *)
Background(r) ==
  /\ stream[r].pc = "after"
  /\ Stream(r, [stream[r] EXCEPT !.pc = "over", !.released = TRUE]) /\ Released(r)

-----------------------------------------------------------------------------
MainStep(c) == \/ Accept(c) \/ TakeSlot(c) \/ TakeLast(c) \/ TakeOther(c) \/ TakeRequest(c)
               \/ LoadEngine(c) \/ Speak(c) \/ Send(c) \/ EndRequest(c) \/ Leave(c)

StreamStep(r) == AdmitStream(r) \/ Body(r) \/ Chunk(r) \/ EndStream(r) \/ Background(r)

(* What the worker does of itself: the body comes when the client sends it, *)
(* and waiting for it fails when the client is gone.                       *)
StreamGoesOn(r) == StreamStep(r) /\ (stream[r].pc = "body" => stream[r].gone)

TtsNext ==
  \/ \E c \in Socks : Read(c) \/ MainStep(c) \/ Disconnect(c) \/ \E m \in Messages : Say(c, m)
  \/ \E r \in Streams : StreamStep(r) \/ HangUp(r)

-----------------------------------------------------------------------------
(* server.py:508 "from here on, every exit path must release": the slots   *)
(* taken are those of the sockets and requests under way, each once, and   *)
(* never more than there are.                                              *)
SlotsCounted ==
  /\ TtsTypeOK
  /\ HasSlots => /\ active = Cardinality({c \in Socks : sock[c].pc \in Live})
                             + Cardinality({r \in Streams : stream[r].pc \in {"body", "streaming", "after"}
                                                            /\ ~ stream[r].released})
                 /\ active <= MaxConnections

(* What is billed was spoken to the last sentence; a request that was      *)
(* stopped with a sentence still to come is never answered "done" by a     *)
(* worker that reads ahead, nor billed.                                    *)
BilledIsSpoken ==
  /\ \A c \in Socks : LET a == answer[c] IN
       /\ a.billed => a.result = "done" /\ a.spoken = a.of
       /\ HasReader /\ a.stopped => a.result # "done" \/ a.of = 0
  /\ \A r \in Streams : stream[r].billed => stream[r].spoken = stream[r].of

(* Where it must come to rest (<>[]): a client that left gave its slot      *)
(* back, whatever it had asked for, and so did every stream whose client    *)
(* sent its body or left.  Not so a client of whose messages the reader     *)
(* died: the main loop waits at inbox.get() for ever, slot in hand.        *)
SessionsEnd ==
  /\ \A c \in Socks : sock[c].gone /\ ~ sock[c].deaf => sock[c].pc = "over"
  /\ \A r \in Streams : stream[r].pc = "body" => ~ stream[r].gone
  /\ \A r \in Streams : stream[r].pc \in {"new", "body", "over"}
=============================================================================
