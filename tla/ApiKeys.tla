-------------------------------- MODULE ApiKeys --------------------------------
(***************************************************************************)
(* The gateway's API-key records (gateway/keys.js): the four counters a    *)
(* paying key is invoiced from, the one allowance of a free key, and what  *)
(* the gates of the gateway read from them.  Every function of keys.js     *)
(* loads the whole file, changes one record and saves it, in one turn of   *)
(* the event loop: a record is the state, a function is an operator.       *)
(***************************************************************************)
EXTENDS Naturals

CONSTANTS FreeTier,        \* FREE_TIER_CHARS
          CharsPerSecond   \* STT_CHARS_PER_SECOND, as a whole number of units

ASSUME TariffAssumption == FreeTier \in Nat \ {0} /\ CharsPerSecond \in Nat \ {0}

Engines     == {"kokoro", "piper", "stt", "stt-realtime"}
CharEngines == {"kokoro", "piper"}      \* the others are metered in audio seconds

Records == [issued: BOOLEAN, revoked: BOOLEAN, billing: BOOLEAN, exhausted: BOOLEAN,
            chars: Nat, piper: Nat, seconds: Nat, realtime: Nat, free: Nat]

NoRecord == [issued |-> FALSE, revoked |-> FALSE, billing |-> FALSE, exhausted |-> FALSE,
             chars |-> 0, piper |-> 0, seconds |-> 0, realtime |-> 0, free |-> 0]

Issued == [NoRecord EXCEPT !.issued = TRUE]

Live(key) == key.issued /\ ~ key.revoked

(* Only when it is an amount of that meter.                                *)
Chars(engine, amount)   == IF engine \in CharEngines THEN amount ELSE 0
Seconds(engine, amount) == IF engine \in CharEngines THEN 0 ELSE amount

(* An amount in characters, the unit of the free allowance.                *)
Cost(engine, amount) == IF engine \in CharEngines THEN amount ELSE amount * CharsPerSecond

Remaining(key) == IF key.free >= FreeTier THEN 0 ELSE FreeTier - key.free

(* checkAccess(key).allowed: the gate of connections and tokens.           *)
Allowed(key) == Live(key) /\ (key.billing \/ (~ key.exhausted /\ Remaining(key) > 0))

(* canAffordRequest: the gate of one request of known length.              *)
CanAfford(key, chars) == Live(key) /\ (key.billing \/ chars <= Remaining(key))

ApplyPaid(key, engine, amount) ==
  [key EXCEPT !.chars    = @ + Chars(engine, amount),
              !.piper    = @ + IF engine = "piper" THEN amount ELSE 0,
              !.seconds  = @ + Seconds(engine, amount),
              !.realtime = @ + IF engine = "stt-realtime" THEN amount ELSE 0]

ApplyFree_FlagLate(key, engine, amount) ==
  [key EXCEPT !.free = @ + Cost(engine, amount),
              !.exhausted = @ \/ key.free + Cost(engine, amount) > FreeTier]

ApplyFree(key, engine, amount) ==
  [key EXCEPT !.free = @ + Cost(engine, amount),
              !.exhausted = @ \/ key.free + Cost(engine, amount) >= FreeTier]

ApplyUsage_FallsThrough(key, engine, amount) ==
  ApplyPaid(ApplyFree(key, engine, amount), engine, amount)

ApplyUsage(key, engine, amount) ==
  IF key.billing THEN ApplyPaid(key, engine, amount) ELSE ApplyFree(key, engine, amount)

RecordUsage_CharsOnly(key, engine, amount) ==
  IF Live(key) /\ engine \in CharEngines THEN ApplyUsage(key, engine, amount) ELSE key

(* recordUsage, and recordUsageById for the workers' reports: the usage of *)
(* a revoked key is dropped.                                               *)
RecordUsage(key, engine, amount) ==
  IF Live(key) THEN ApplyUsage(key, engine, amount) ELSE key

(* drainUsage(): what is handed to the invoicing job, and what stays.      *)
Invoice(key) == [chars |-> key.chars, piper |-> key.piper,
                 seconds |-> key.seconds, realtime |-> key.realtime]

Drained(key) == [key EXCEPT !.chars = 0, !.piper = 0, !.seconds = 0, !.realtime = 0]

IsDrained_CharsOnly(key) == key.chars > 0

IsDrained(key) == key.chars > 0 \/ key.seconds > 0
=============================================================================
