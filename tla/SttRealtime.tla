----------------------------- MODULE SttRealtime -----------------------------
(***************************************************************************)
(* The connections of worker-stt-realtime/server.py: slots, a model that   *)
(* loads in a thread while clients already send, audio kept until then,    *)
(* the configuration a client may send first, the bill at the end.  What   *)
(* a session answers to its audio is SttSession's.                         *)
(***************************************************************************)
EXTENDS Naturals, FiniteSets

CONSTANTS Conns,           \* connections
          MaxActive,       \* MAX_CONNECTIONS
          MaxSays,         \* bound on the messages of a client
          MaxBuffer        \* MAX_BUFFER_S, in chunks

ASSUME SttAssumption == {MaxActive, MaxSays, MaxBuffer} \subseteq Nat

VARIABLES model,       \* the model is loading, ready, failed
          taken,       \* _active
          conn,        \* [Conns -> the coroutine of each connection]
          line         \* [Conns -> the message the client sent and nobody read]

sttVars == <<model, taken, conn, line>>

SttMessages == {"config", "audio", "commit", "end"}
Serving == {"accepting", "loop", "waiting", "receiving", "ending"}
Holding == Serving \cup {"lost"}         \* lost: accept() raised outside the try
Configs == {"query", "message"}          \* the query's values, or what a config message changed

SttTypeOK ==
  /\ model \in {"loading", "ready", "failed"} /\ taken \in 0 .. MaxActive
  /\ conn \in [Conns -> [pc : Holding \cup {"new", "over"}, cfg : Configs, sess : Configs \cup {"none"},
                         pending : 0 .. MaxBuffer, total : Nat, received : Nat, dropped : Nat,
                         bill : Nat, first : {"none", "config", "other"},
                         end : {"none", "end", "gone", "error"}, said : 0 .. MaxSays]]
  /\ line \in [Conns -> SUBSET (SttMessages \cup {"gone"})]

SttInit ==
  /\ model = "loading" /\ taken = 0
  /\ conn = [c \in Conns |-> [pc |-> "new", cfg |-> "query", sess |-> "none", pending |-> 0, total |-> 0,
                              received |-> 0, dropped |-> 0, bill |-> 0, first |-> "none", end |-> "none", said |-> 0]]
  /\ line = [c \in Conns |-> {}]

Conn(c, rec) == conn' = [conn EXCEPT ![c] = rec]
Moves(c, pc) == Conn(c, [conn[c] EXCEPT !.pc = pc])

-----------------------------------------------------------------------------
(* _load(), in its own thread.                                             *)
LoadModel == /\ model = "loading" /\ model' \in {"ready", "failed"}
             /\ UNCHANGED <<taken, conn, line>>

(* The client's messages, one at a time: they are handled in order, so one *)
(* that waits behind another is as if it came later.                       *)
ClientSays(c) ==
  /\ conn[c].pc \in Serving \ {"accepting", "ending"} /\ conn[c].said < MaxSays /\ line[c] = {}
  /\ \E m \in SttMessages \cup {"gone"} : line' = [line EXCEPT ![c] = {m}]
  /\ Conn(c, [conn[c] EXCEPT !.said = @ + 1])
  /\ UNCHANGED <<model, taken>>

(* The token, the capacity, the slot: no await in between.                 *)
Admit(c) ==
  /\ conn[c].pc = "new"
  /\ \/ taken < MaxActive /\ taken' = taken + 1 /\ Moves(c, "accepting")
     \/ Moves(c, "over") /\ UNCHANGED taken
  /\ UNCHANGED <<model, line>>

AcceptConn(c) ==
  /\ conn[c].pc = "accepting"
  /\ \E pc \in {"loop", "lost"} : Moves(c, pc)
  /\ UNCHANGED <<model, taken, line>>

(* ensure_session(): a session with the configuration of now, once.        *)
Ensured(c) == [conn[c] EXCEPT !.pc = "receiving",
                              !.sess = IF @ = "none" /\ model = "ready" THEN conn[c].cfg ELSE @]

(* A configured number that is none, or a client that is gone when it is   *)
(* told of the model: the exception ends the connection.                   *)
Fails(c) == conn[c].sess = "none" /\ Conn(c, [conn[c] EXCEPT !.pc = "ending", !.end = "error"])

(* The top of the loop; and the model becomes ready in the wait.           *)
Iterate(c) ==
  /\ conn[c].pc = "loop"
  /\ IF model = "loading" THEN Moves(c, "waiting") ELSE Conn(c, Ensured(c)) \/ Fails(c)
  /\ UNCHANGED <<model, taken, line>>

EnsureInWait(c) ==
  /\ conn[c].pc = "waiting" /\ model # "loading" /\ (Conn(c, Ensured(c)) \/ Fails(c))
  /\ UNCHANGED <<model, taken, line>>

-----------------------------------------------------------------------------
(* A message is handled; the first one is remembered.                      *)
Hear(c, m, rec) ==
  /\ conn[c].pc \in {"waiting", "receiving"} /\ m \in line[c]
  /\ line' = [line EXCEPT ![c] = {}]
  /\ Conn(c, [rec EXCEPT !.first = IF @ # "none" THEN @ ELSE IF m = "config" THEN m ELSE "other"])
  /\ UNCHANGED <<model, taken>>

HearConfig(c) == Hear(c, "config", [conn[c] EXCEPT !.pc = "loop", !.cfg = "message"])
HearCommit(c) == \/ Hear(c, "commit", [conn[c] EXCEPT !.pc = "loop"])
                 \/ conn[c].sess # "none" /\ Hear(c, "commit", [conn[c] EXCEPT !.pc = "ending", !.end = "error"])
HearLast(c)   == \E m \in {"end", "gone"} : Hear(c, m, [conn[c] EXCEPT !.pc = "ending", !.end = m])

(* No session yet: keep the audio, the oldest goes when there is too much. *)
Buffer(c) ==
  LET full == conn[c].pending = MaxBuffer IN
  /\ conn[c].sess = "none"
  /\ Hear(c, "audio", [conn[c] EXCEPT !.pc = "loop", !.received = @ + 1,
                         !.pending = IF full THEN @ ELSE @ + 1, !.dropped = IF full THEN @ + 1 ELSE @])

(* What was kept and the new chunk go through the session, in order; any   *)
(* of them may raise, or find the client gone when its events are sent.    *)
Decode(c) ==
  /\ conn[c].sess # "none"
  /\ \/ Hear(c, "audio", [conn[c] EXCEPT !.pc = "loop", !.received = @ + 1, !.pending = 0,
                            !.total = @ + conn[c].pending + 1])
     \/ \E n \in 0 .. conn[c].pending + 1 :
          Hear(c, "audio", [conn[c] EXCEPT !.pc = "ending", !.end = "error", !.received = @ + 1,
                              !.total = @ + n])

(* The finally block: the slot, then one report of what was decoded.       *)
End(c) ==
  /\ conn[c].pc = "ending"
  /\ taken' = taken - 1
  /\ Conn(c, [conn[c] EXCEPT !.pc = "over", !.bill = conn[c].total])
  /\ UNCHANGED <<model, line>>

ConnStep(c) == \/ Admit(c) \/ AcceptConn(c) \/ Iterate(c) \/ EnsureInWait(c) \/ HearConfig(c)
               \/ HearCommit(c) \/ HearLast(c) \/ Buffer(c) \/ Decode(c) \/ End(c)

SttNext == LoadModel \/ \E c \in Conns : ConnStep(c) \/ ClientSays(c)

-----------------------------------------------------------------------------
(* _active is the number of connections being served, and of those whose   *)
(* accept raised: their slot is gone for good.                             *)
SlotsHeld == /\ SttTypeOK
             /\ taken = Cardinality({c \in Conns : conn[c].pc \in Holding})

(* No audio is billed that was not decoded, nor twice; all that came was   *)
(* decoded, or waits for the session, or had to go from a full buffer.     *)
AudioAccounted ==
  \A c \in Conns :
    /\ conn[c].end # "error" => conn[c].received = conn[c].total + conn[c].pending + conn[c].dropped
    /\ conn[c].bill \in {0, conn[c].total} /\ conn[c].total <= conn[c].received
    /\ conn[c].dropped > 0 => conn[c].pending = MaxBuffer \/ conn[c].sess # "none"

(* Where it must come to rest (<>[]): whoever ended its session,           *)
(* disconnected or met an error was let go.                                *)
SttEnds == \A c \in Conns :
  line[c] \cap {"end", "gone"} # {} \/ conn[c].end # "none" => conn[c].pc = "over"
=============================================================================
