------------------------------ MODULE SdkClient ------------------------------
(***************************************************************************)
(* The Python client (sdk/python/.../client.py) used from several threads: *)
(* each call is one generator that authorizes, opens a connection, yields  *)
(* what comes and gives the connection back in its finally; stop() ends    *)
(* the socket stream the client registered last.                           *)
(***************************************************************************)
EXTENDS Naturals, FiniteSets

CONSTANTS Calls,    \* the calls of the program
          SyncCalls, HttpCalls, \* those of stream(), those over HTTP; the others are astream()
          MaxStops  \* bound on calls of stop()

ASSUME SdkAssumption == /\ SyncCalls \subseteq Calls /\ HttpCalls \subseteq Calls \ SyncCalls
                        /\ MaxStops \in Nat

VARIABLES
  call,       \* [Calls -> "new", "open", "reading", "yielded", "leaving", "closed", "over"]
  connected,  \* the calls whose connection is open
  registered, \* self._ws: {} or the call whose socket it is
  told,       \* the calls whose server was sent a stop by stop()
  stopping,   \* the socket stop() took under the lock and is about to use
  stops,
  newest      \* the stream() that registered last: {} or one

sdkVars == <<call, connected, registered, told, stopping, stops, newest>>

SdkTypeOK ==
  /\ call \in [Calls -> {"new", "open", "reading", "yielded", "leaving", "closed", "over"}]
  /\ connected \subseteq Calls /\ told \subseteq SyncCalls /\ stops \in 0 .. MaxStops
  /\ {registered, stopping, newest} \subseteq SUBSET SyncCalls

SdkInit ==
  /\ call = [c \in Calls |-> "new"] /\ connected = {} /\ registered = {} /\ told = {}
  /\ stopping = {} /\ stops = 0 /\ newest = {}

Move(c, from, to) == call[c] = from /\ call' = [call EXCEPT ![c] = to]

\* authorize(), then the connection: either may raise, and nothing is held
Connect(c) ==
  /\ \/ Move(c, "new", "over") /\ UNCHANGED connected
     \/ Move(c, "new", "open") /\ connected' = connected \cup {c}
  /\ UNCHANGED <<registered, told, stopping, stops, newest>>

\* self._ws = ws
RegisterStream(c) ==
  /\ c \in SyncCalls /\ Move(c, "open", "reading")
  /\ registered' = {c} /\ newest' = {c}
  /\ UNCHANGED <<connected, told, stopping, stops>>

\* a chunk, or the end: done, cancelled, an error, a connection that closes
Receive(c) ==
  /\ Move(c, "reading", "yielded") \/ Move(c, "reading", "leaving")
  /\ UNCHANGED <<connected, registered, told, stopping, stops, newest>>

\* the program asks for more, or closes the generator
Consume(c) ==
  /\ Move(c, "yielded", "reading") \/ Move(c, "yielded", "leaving")
  /\ UNCHANGED <<connected, registered, told, stopping, stops, newest>>

\* the finally: "stop" to whoever listens, then the connection
CloseConnection(c) ==
  /\ Move(c, "leaving", "closed") /\ connected' = connected \ {c}
  /\ UNCHANGED <<registered, told, stopping, stops, newest>>

\* self._ws = None, if it is still this one
Unregister(c) ==
  /\ c \in SyncCalls /\ Move(c, "closed", "over")
  /\ registered' = registered \ {c}
  /\ UNCHANGED <<connected, told, stopping, stops, newest>>

\* astream() and the HTTP calls keep their socket or response to themselves; a
\* response that is an error is closed like any other
KeptPrivate(c) ==
  /\ Move(c, "open", "reading") \/ Move(c, "closed", "over")
  /\ UNCHANGED <<connected, registered, told, stopping, stops, newest>>
AStream(c)    == c \in Calls \ (SyncCalls \cup HttpCalls) /\ KeptPrivate(c)
HttpStream(c) == c \in HttpCalls /\ KeptPrivate(c)

\* stop() from another thread: the socket under the lock, the message outside it
StopReads ==
  /\ stopping = {} /\ stops < MaxStops /\ stops' = stops + 1 /\ stopping' = registered
  /\ UNCHANGED <<call, connected, registered, told, newest>>

StopSends ==
  /\ stopping # {} /\ stopping' = {} /\ told' = told \cup (stopping \cap connected)
  /\ UNCHANGED <<call, connected, registered, stops, newest>>

CallStep(c) == \/ Connect(c) \/ RegisterStream(c) \/ Receive(c) \/ Consume(c)
               \/ CloseConnection(c) \/ Unregister(c) \/ AStream(c) \/ HttpStream(c)
SdkNext == StopReads \/ StopSends \/ \E c \in Calls : CallStep(c)

-----------------------------------------------------------------------------
\* A connection is open while its call runs and no longer, whichever way the call
\* ends; and stop() finds the stream that was started last as long as it runs, also
\* when an older one ends meanwhile.  (With the last one over, an older one that
\* still runs cannot be stopped this way.)
ConnectionsHeld ==
  /\ connected = {c \in Calls : call[c] \in {"open", "reading", "yielded", "leaving"}}
  /\ \A c \in newest : call[c] \notin {"closed", "over"} => registered = {c}
  /\ \A c \in registered : call[c] # "over"
=============================================================================
