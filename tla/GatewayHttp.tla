----------------------------- MODULE GatewayHttp -----------------------------
(***************************************************************************)
(* Two parts of gateway/server.js with state of their own: the one-shot    *)
(* endpoint's encoders, of which only so many may run (what they write     *)
(* goes to a client that may leave), and the Stripe checkouts, whose key   *)
(* is shown once.                                                          *)
(***************************************************************************)
EXTENDS Naturals, FiniteSets

CONSTANTS Encodes,      \* requests for mp3 or opus
          MaxEncoders,  \* MAX_CONCURRENT_ENCODERS
          Checkouts,    \* Stripe's checkout sessions
          MaxKeys,      \* bound on webhook deliveries
          CheckoutTtl, MaxHour  \* in hours; bound on the clock

ASSUME GatewayAssumption == /\ MaxEncoders \in Nat \ {0} /\ IsFiniteSet(Encodes)
                            /\ {MaxKeys, CheckoutTtl, MaxHour} \subseteq Nat

VARIABLES
  activeEncoders,
  enc,       \* [Encodes -> request, encoder and response]
  checkout,  \* [Checkouts -> entry of checkoutSessions: key and rawKey; 0: none]
  keyCount,  \* keys issued to checkouts, which is the name of the last
  shown,     \* [keys -> how often its raw key was answered]
  delivered, \* [Checkouts -> how often its webhook came, and when last]
  clock, restarted

encVars == <<activeEncoders, enc>>
payVars == <<checkout, keyCount, shown, delivered, clock, restarted>>
gatewayVars == <<encVars, payVars>>

\* src: the worker's body; ff: the encoder; left: the client closed before the end
FirstEnc == [at |-> "new", src |-> "none", ff |-> "none", left |-> FALSE, sent |-> FALSE,
             released |-> FALSE, answer |-> "none"]
NoEntry == [key |-> 0, raw |-> 0, created |-> 0]

GatewayInit ==
  /\ activeEncoders = 0 /\ enc = [r \in Encodes |-> FirstEnc]
  /\ checkout = [c \in Checkouts |-> NoEntry] /\ keyCount = 0
  /\ shown = [k \in 1 .. MaxKeys |-> 0] /\ delivered = [c \in Checkouts |-> [times |-> 0, at |-> 0]]
  /\ clock = 0 /\ restarted = FALSE

EncBecomes(r, new) == enc' = [enc EXCEPT ![r] = new] /\ UNCHANGED payVars

\* release(), once: of the response's close, or of the finally
PlaceGiven(r, new) ==
  /\ activeEncoders' = IF enc[r].released THEN activeEncoders ELSE activeEncoders - 1
  /\ EncBecomes(r, [new EXCEPT !.released = TRUE])
EncodeOver(r, message) ==
  PlaceGiven(r, [enc[r] EXCEPT !.at = "over", !.answer = IF enc[r].left THEN "none" ELSE message])

AdmitEncode(r) ==
  /\ enc[r].at = "new"
  /\ IF activeEncoders >= MaxEncoders
     THEN EncBecomes(r, [enc[r] EXCEPT !.at = "over", !.answer = "503"]) /\ UNCHANGED activeEncoders
     ELSE EncBecomes(r, [enc[r] EXCEPT !.at = "fetch"]) /\ activeEncoders' = activeEncoders + 1

\* cleanup(): the fetch is aborted and an encoder that runs is killed
Killed(ff) == IF ff = "running" THEN "killed" ELSE ff
ClientLeaves(r) ==
  /\ enc[r].at \in {"fetch", "passing", "encoding"} /\ ~ enc[r].left
  /\ PlaceGiven(r, [enc[r] EXCEPT !.left = TRUE, !.ff = Killed(@),
                                !.src = IF @ = "open" THEN "broken" ELSE @])

\* the worker refuses, or cannot be reached, or the fetch was aborted
WorkerFails(r) == enc[r].at = "fetch" /\ EncodeOver(r, "502")

WorkerAnswers(r) ==
  /\ enc[r].at = "fetch"
  /\ IF enc[r].left THEN EncodeOver(r, "none")
     ELSE /\ UNCHANGED activeEncoders
          /\ \/ EncBecomes(r, [enc[r] EXCEPT !.at = "passing"])
             \/ EncBecomes(r, [enc[r] EXCEPT !.at = "encoding", !.src = "open", !.ff = "running"])

\* an error of the worker is passed on as it is
PassedOn(r) == enc[r].at = "passing" /\ EncodeOver(r, "worker")

SourceEnds(r) ==
  /\ enc[r].src = "open" /\ EncBecomes(r, [enc[r] EXCEPT !.src = "ended"])
  /\ UNCHANGED activeEncoders
SourceBreaks(r) ==
  /\ enc[r].src = "open"
  /\ EncBecomes(r, [enc[r] EXCEPT !.src = "broken", !.ff = Killed(@)])
  /\ UNCHANGED activeEncoders

EncoderWrites(r) ==
  /\ enc[r].ff = "running" /\ ~ enc[r].sent /\ ~ enc[r].left
  /\ EncBecomes(r, [enc[r] EXCEPT !.sent = TRUE]) /\ UNCHANGED activeEncoders

\* it exits with 0 only when it read to the end of its input, by itself or before the kill reached it
EncoderExits(r) ==
  /\ enc[r].ff \in {"running", "killed"}
  /\ \E code \in {"zero", "failed"} :
       /\ code = "zero" => enc[r].src = "ended"
       /\ EncBecomes(r, [enc[r] EXCEPT !.ff = code])
  /\ UNCHANGED activeEncoders

\* the decision after `await exited`
Whole(r) == enc[r].ff = "zero" /\ enc[r].src # "broken" /\ enc[r].sent
EncodeEnds(r) ==
  /\ enc[r].at = "encoding" /\ enc[r].ff \in {"zero", "failed"}
  /\ EncodeOver(r, IF Whole(r) THEN "clean" ELSE IF enc[r].sent THEN "destroyed" ELSE "502")

EncodeStep(r) == \/ AdmitEncode(r) \/ WorkerFails(r) \/ WorkerAnswers(r) \/ PassedOn(r)
                 \/ SourceEnds(r) \/ SourceBreaks(r) \/ EncoderExits(r) \/ EncodeEnds(r)

-----------------------------------------------------------------------------
\* checkout.session.completed of a buyer without a key; Stripe delivers again what was not answered
Webhook(c) ==
  /\ keyCount < MaxKeys
  /\ keyCount' = keyCount + 1
  /\ delivered' = [delivered EXCEPT ![c] = [times |-> @.times + 1, at |-> clock]]
  /\ checkout' = [checkout EXCEPT ![c] = [key |-> keyCount + 1, raw |-> keyCount + 1, created |-> clock]]
  /\ UNCHANGED <<encVars, shown, clock, restarted>>

\* GET /stripe/key; 404 without an entry
Displayed(c) == [checkout EXCEPT ![c].raw = 0]
StripeKey(c) ==
  /\ checkout[c].key # 0
  /\ shown' = IF checkout[c].raw = 0 THEN shown ELSE [shown EXCEPT ![checkout[c].raw] = @ + 1]
  /\ checkout' = Displayed(c)
  /\ UNCHANGED <<encVars, keyCount, delivered, clock, restarted>>

\* the hourly purge
Purge ==
  /\ clock < MaxHour
  /\ clock' = clock + 1
  /\ checkout' = [c \in Checkouts |-> IF checkout[c].key # 0 /\ checkout[c].created + CheckoutTtl < clock + 1
                                      THEN NoEntry ELSE checkout[c]]
  /\ UNCHANGED <<encVars, keyCount, shown, delivered, restarted>>

\* the keys are in keys.json, the checkouts in memory
RestartGateway ==
  /\ ~ restarted /\ restarted' = TRUE
  /\ checkout' = [c \in Checkouts |-> NoEntry]
  /\ UNCHANGED <<encVars, keyCount, shown, delivered, clock>>

EncNext == \E r \in Encodes : EncodeStep(r) \/ ClientLeaves(r) \/ EncoderWrites(r)
PayNext == \/ \E c \in Checkouts : Webhook(c) \/ StripeKey(c)
           \/ Purge \/ RestartGateway
GatewaySpec == GatewayInit /\ [][EncNext \/ PayNext]_gatewayVars

-----------------------------------------------------------------------------
\* The counter is the number of requests that hold a place, and an encoder that runs
\* unkilled holds one: so never more than MaxEncoders encode at a time.
HasPlace(e) == ~ e.released /\ e.at \in {"fetch", "passing", "encoding"}
EncodersCounted ==
  /\ activeEncoders = Cardinality({r \in Encodes : HasPlace(enc[r])})
  /\ Cardinality({r \in Encodes : enc[r].ff = "running"}) <= MaxEncoders

\* A response that ends like a whole file is one (the comment above proxyCompressedTts).
CleanIsWhole == \A r \in Encodes : enc[r].answer = "clean" => enc[r].src = "ended" /\ enc[r].ff = "zero"

\* A raw key is shown once at most, whoever asks again; and the key last issued for a purchase
\* can still be shown until its time is over, unless the gateway restarted.
ShownOnce ==
  /\ \A k \in 1 .. MaxKeys : shown[k] <= 1
  /\ \A c \in Checkouts : delivered[c].times > 0 /\ ~ restarted =>
       \/ checkout[c].raw # 0
       \/ checkout[c].key # 0 /\ shown[checkout[c].key] = 1
       \/ clock > delivered[c].at + CheckoutTtl

\* Where it must come to rest (<>[]): every request for an encoder ended, and gave back
\* the place it took.
EncodesEnd == /\ \A r \in Encodes : enc[r].at \in {"new", "over"}
              /\ activeEncoders = 0

=============================================================================
