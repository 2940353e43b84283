----------------------------- MODULE UsageBilling -----------------------------
(***************************************************************************)
(* What a customer's request costs, from the gateway that admits it to the *)
(* invoice: gateway/server.js and keys.js, the workers that report what    *)
(* they synthesized or transcribed, and the invoicing job that drains the  *)
(* counters.                                                               *)
(*                                                                         *)
(* The gateway is one Node process: what a handler does after its body has *)
(* arrived is one step.  A request is admitted on one of three surfaces:   *)
(*   "relay"    the /tts WebSocket, metered by the gateway when it          *)
(*              forwards the frame;                                        *)
(*   "oneshot"  POST /v1/text-to-speech, admitted by length, metered by    *)
(*              the worker's report;                                       *)
(*   "direct"   a session token, then requests straight to the worker,     *)
(*              metered by its report: the gateway never sees them.        *)
(***************************************************************************)
EXTENDS ApiKeys, FiniteSetsExt

CONSTANTS Keys, Requests,
          Sizes,       \* lengths of a request, in characters or seconds
          Surfaces,    \* the surfaces the customers use
          MaxTries     \* attempts of worker-stt-prod's report

ASSUME BillingAssumption ==
  /\ Keys # {} /\ IsFiniteSet(Requests)
  /\ Sizes \subseteq Nat \ {0}
  /\ Surfaces \subseteq {"relay", "oneshot", "direct"}
  /\ MaxTries \in Nat \ {0}

VARIABLES
  keys,       \* keys.json
  tokens,     \* keys with a session token that has not expired
  sockets,    \* keys with a worker socket opened on a session token
  relays,     \* keys with a relayed socket
  work,       \* each request, from its admission to its last report
  invoiced    \* what the invoicing job was handed so far

vars == <<keys, tokens, sockets, relays, work, invoiced>>

Pcs == {"unused", "running", "waiting", "settled"}

(* paid: the key's billing when the request was admitted; charges: how     *)
(* often it was recorded; served: the customer got all of it; lost:        *)
(* reports that never arrived.  Two are history, which no step reads:      *)
(* doubled, the attempts that were sent although an earlier one was still  *)
(* on its way or had been recorded; switched, that billing was set while   *)
(* the request, or a report of it, was under way.                          *)
Unused == [pc |-> "unused", key |-> CHOOSE k \in Keys : TRUE, engine |-> "kokoro", size |-> 0,
           tries |-> 0, inflight |-> 0, paid |-> FALSE, charges |-> 0, served |-> FALSE, lost |-> 0,
           doubled |-> 0, switched |-> FALSE]

Invoices == [chars: Nat, piper: Nat, seconds: Nat, realtime: Nat]

Works == [pc: Pcs, key: Keys, engine: Engines, size: Sizes \cup {0},
          tries: 0 .. MaxTries, inflight: 0 .. MaxTries, paid: BOOLEAN,
          charges: 0 .. MaxTries, served: BOOLEAN, lost: 0 .. MaxTries,
          doubled: 0 .. MaxTries, switched: BOOLEAN]

TypeOK ==
  /\ keys     \in [Keys -> Records]
  /\ tokens   \subseteq Keys
  /\ sockets  \subseteq Keys
  /\ relays   \subseteq Keys
  /\ work     \in [Requests -> Works]
  /\ invoiced \in [Keys -> Invoices]

Init ==
  /\ keys     = [k \in Keys |-> NoRecord]
  /\ tokens   = {}
  /\ sockets  = {}
  /\ relays   = {}
  /\ work     = [r \in Requests |-> Unused]
  /\ invoiced = [k \in Keys |-> Invoice(NoRecord)]

(* A request that is still running, or whose report is.                    *)
UnderWay(w) == w.pc \in {"running", "waiting"} \/ w.inflight > 0

-----------------------------------------------------------------------------
(* Administration of the keys.                                             *)

IssueKey(k) ==
  /\ ~ keys[k].issued
  /\ keys' = [keys EXCEPT ![k] = Issued]
  /\ UNCHANGED <<tokens, sockets, relays, work, invoiced>>

(* /admin/keys/billing and the Stripe webhook; a revoked key too.          *)
SetBilling(k) ==
  /\ keys[k].issued
  /\ \E enabled \in BOOLEAN : keys' = [keys EXCEPT ![k].billing = enabled]
  /\ work' = [r \in Requests |-> IF work[r].key = k /\ UnderWay(work[r])
                                   THEN [work[r] EXCEPT !.switched = TRUE] ELSE work[r]]
  /\ UNCHANGED <<tokens, sockets, relays, invoiced>>

RevokeKey(k) ==
  /\ keys[k].issued
  /\ keys' = [keys EXCEPT ![k].revoked = TRUE]
  /\ UNCHANGED <<tokens, sockets, relays, work, invoiced>>

(* /admin/usage/drain.                                                     *)
Drain ==
  /\ invoiced' = [k \in Keys |->
       IF ~ IsDrained(keys[k]) THEN invoiced[k]
       ELSE [m \in DOMAIN invoiced[k] |-> invoiced[k][m] + Invoice(keys[k])[m]]]
  /\ keys' = [k \in Keys |-> Drained(keys[k])]
  /\ UNCHANGED <<tokens, sockets, relays, work>>

-----------------------------------------------------------------------------
(* Admission.                                                              *)

(* POST /tts/authorize, /stt/authorize, /audio/authorize.                  *)
Authorize(k) ==
  /\ "direct" \in Surfaces
  /\ Allowed(keys[k])
  /\ tokens' = tokens \cup {k}
  /\ UNCHANGED <<keys, sockets, relays, work, invoiced>>

TokenExpires(k) ==
  /\ k \in tokens
  /\ tokens' = tokens \ {k}
  /\ UNCHANGED <<keys, sockets, relays, work, invoiced>>

OpenSocket(k) ==
  /\ k \in tokens
  /\ sockets' = sockets \cup {k}
  /\ UNCHANGED <<keys, tokens, relays, work, invoiced>>

CloseSocket(k) ==
  /\ k \in sockets
  /\ sockets' = sockets \ {k}
  /\ UNCHANGED <<keys, tokens, relays, work, invoiced>>

OpenRelay(k) ==
  /\ "relay" \in Surfaces
  /\ Allowed(keys[k])
  /\ relays' = relays \cup {k}
  /\ UNCHANGED <<keys, tokens, sockets, work, invoiced>>

CloseRelay(k) ==
  /\ k \in relays
  /\ relays' = relays \ {k}
  /\ UNCHANGED <<keys, tokens, sockets, work, invoiced>>

Admitted(k, engine, size) ==
  [Unused EXCEPT !.pc = "running", !.key = k, !.engine = engine, !.size = size,
                 !.paid = keys[k].billing]

(* A request on a worker socket or, over HTTP, on a token: the worker      *)
(* checks the token's signature and its expiry, nothing else.              *)
DirectRequest(r, k) ==
  /\ work[r].pc = "unused"
  /\ k \in tokens \cup sockets
  /\ \E engine \in Engines, size \in Sizes :
       work' = [work EXCEPT ![r] = Admitted(k, engine, size)]
  /\ UNCHANGED <<keys, tokens, sockets, relays, invoiced>>

(* POST /v1/text-to-speech, up to the call of the worker.                  *)
OneShot(r, k) ==
  /\ "oneshot" \in Surfaces
  /\ work[r].pc = "unused"
  /\ Allowed(keys[k])
  /\ \E engine \in CharEngines, size \in Sizes :
       /\ CanAfford(keys[k], size)
       /\ work' = [work EXCEPT ![r] = Admitted(k, engine, size)]
  /\ UNCHANGED <<keys, tokens, sockets, relays, invoiced>>

RelayFrame_AlsoReported(r, k) ==
  /\ work[r].pc = "unused"
  /\ k \in relays
  /\ \E size \in Sizes :
       /\ CanAfford(keys[k], size)
       /\ keys' = [keys EXCEPT ![k] = RecordUsage(@, "kokoro", size)]
       /\ work' = [work EXCEPT ![r] = [Admitted(k, "kokoro", size) EXCEPT !.charges = 1]]
  /\ UNCHANGED <<tokens, sockets, relays, invoiced>>

(* checkFrame on a synthesize frame: metered, then forwarded.  The worker  *)
(* is called with the shared secret and reports nothing.                   *)
RelayFrame(r, k) ==
  /\ work[r].pc = "unused"
  /\ k \in relays
  /\ \E size \in Sizes :
       /\ CanAfford(keys[k], size)
       /\ keys' = [keys EXCEPT ![k] = RecordUsage(@, "kokoro", size)]
       /\ work' = [work EXCEPT ![r] = [Admitted(k, "kokoro", size) EXCEPT
                                         !.pc = "settled", !.charges = 1, !.served = TRUE]]
  /\ UNCHANGED <<tokens, sockets, relays, invoiced>>

-----------------------------------------------------------------------------
(* The workers.                                                            *)

(* The whole request was delivered: report it.                             *)
WorkDone(r) ==
  /\ work[r].pc = "running"
  /\ work' = [work EXCEPT ![r].pc = "waiting", ![r].served = TRUE,
                          ![r].tries = 1, ![r].inflight = 1]
  /\ UNCHANGED <<keys, tokens, sockets, relays, invoiced>>

(* Stopped, disconnected or failed: not billed.                            *)
WorkCancelled(r) ==
  /\ work[r].pc = "running"
  /\ work' = [work EXCEPT ![r].pc = "settled"]
  /\ UNCHANGED <<keys, tokens, sockets, relays, invoiced>>

(* POST /admin/usage/report; its answer settles the report, unless the     *)
(* worker has given up on it or never sees it, or it is the 404 of a       *)
(* revoked key, which the worker takes for a failure.                      *)
ReportArrives(r) ==
  /\ work[r].inflight > 0
  /\ LET k        == work[r].key
         key      == RecordUsage(keys[k], work[r].engine, work[r].size)
         recorded == key # keys[k]
     IN  /\ keys' = [keys EXCEPT ![k] = key]
         /\ \/ /\ recorded
               /\ work' = [work EXCEPT ![r].inflight = @ - 1, ![r].charges = @ + 1,
                                       ![r].pc = "settled"]
            \/ /\ recorded
               /\ work' = [work EXCEPT ![r].inflight = @ - 1, ![r].charges = @ + 1]
            \/ /\ ~ recorded
               /\ work' = [work EXCEPT ![r].inflight = @ - 1]
  /\ UNCHANGED <<tokens, sockets, relays, invoiced>>

ReportLost(r) ==
  /\ work[r].inflight > 0
  /\ work' = [work EXCEPT ![r].inflight = @ - 1, ![r].lost = @ + 1]
  /\ UNCHANGED <<keys, tokens, sockets, relays, invoiced>>

(* Only worker-stt-prod tries again; the others report once.               *)
Attempts(engine) == IF engine = "stt" THEN MaxTries ELSE 1

(* No answer in five seconds, whether the report is lost, late or          *)
(* answered in vain: another attempt, or the report is given up.           *)
ReportTimesOut(r) ==
  /\ work[r].pc = "waiting"
  /\ work' = IF work[r].tries < Attempts(work[r].engine)
               THEN [work EXCEPT ![r].tries = @ + 1, ![r].inflight = @ + 1,
                                 ![r].doubled = @ + IF work[r].inflight + work[r].charges > 0 THEN 1 ELSE 0]
               ELSE [work EXCEPT ![r].pc = "settled"]
  /\ UNCHANGED <<keys, tokens, sockets, relays, invoiced>>

-----------------------------------------------------------------------------
Next ==
  \/ \E k \in Keys : \/ IssueKey(k) \/ SetBilling(k) \/ RevokeKey(k)
                     \/ Authorize(k) \/ TokenExpires(k)
                     \/ OpenSocket(k) \/ CloseSocket(k) \/ OpenRelay(k) \/ CloseRelay(k)
                     \/ \E r \in Requests : DirectRequest(r, k) \/ OneShot(r, k) \/ RelayFrame(r, k)
  \/ \E r \in Requests : \/ WorkDone(r) \/ WorkCancelled(r)
                         \/ ReportArrives(r) \/ ReportLost(r) \/ ReportTimesOut(r)
  \/ Drain

Spec == Init /\ [][Next]_vars

-----------------------------------------------------------------------------
(* What the meter promises.                                                *)

(* The exhausted flag, which the gates read, agrees with the allowance it  *)
(* stands for, however usage and upgrades interleave.                      *)
FlagAgrees == \A k \in Keys : keys[k].exhausted <=> keys[k].free >= FreeTier

(* The separately priced part of a meter is a part of it, in the counters  *)
(* and in every sum of invoices: no character or second is discounted that *)
(* was not counted.                                                        *)
PartOfTotal(m) == m.piper <= m.chars /\ m.realtime <= m.seconds
SubsetBounds == \A k \in Keys : PartOfTotal(keys[k]) /\ PartOfTotal(invoiced[k])

(* What the key was or will be invoiced for, in characters.                *)
Billed(k) == keys[k].chars + invoiced[k].chars
             + (keys[k].seconds + invoiced[k].seconds) * CharsPerSecond

Recorded == [r \in Requests |-> work[r].charges * Cost(work[r].engine, work[r].size)]
RecordedFor(k, R) == SumFunctionOnSet(Recorded, {r \in R : work[r].key = k})

(* Everything recorded is in one meter and stays there until it has been   *)
(* invoiced, once, whenever the drain comes.                               *)
LedgerMatches == \A k \in Keys : Billed(k) + keys[k].free = RecordedFor(k, Requests)

(* Usage admitted on the free allowance is never invoiced, unless billing  *)
(* was set while the request or its report was under way.                  *)
FreeNotInvoiced ==
  \A k \in Keys : Billed(k) <= RecordedFor(k, {r \in Requests : work[r].paid \/ work[r].switched})

(* No request is recorded twice, by two meters or by two reports, but for  *)
(* the attempts worker-stt-prod sends while an earlier one may be recorded *)
(* or was: each of those adds one recording at most.                       *)
ChargedOnce ==
  \A r \in Requests :
    /\ work[r].charges <= 1 + work[r].doubled
    /\ work[r].engine # "stt" => work[r].doubled = 0

(* A request that was served in full is recorded, unless its every report  *)
(* was lost on the way or its key has been revoked.                        *)
NothingSlips ==
  \A r \in Requests :
    work[r].pc = "settled" /\ work[r].served /\ work[r].inflight = 0 =>
      \/ work[r].charges > 0 \/ work[r].lost = work[r].tries
      \/ keys[work[r].key].revoked

(* A key without billing never spends more than its allowance.  So much    *)
(* holds where every request is metered before it is forwarded.            *)
AllowanceHeld == \A k \in Keys : keys[k].free <= FreeTier

=============================================================================
