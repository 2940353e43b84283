-------------------------- MODULE UsageBillingProofs --------------------------
(***************************************************************************)
(* What TLAPS proves of UsageBilling, for any number of keys and requests, *)
(* any allowance and tariff, and whatever overtakes what.                  *)
(***************************************************************************)
EXTENDS UsageBilling, FoldFacts

-----------------------------------------------------------------------------
(* The key records: what the operators of keys.js keep.                    *)

(* Amounts, in each meter's unit, are natural numbers.                     *)
LEMMA AmountTypes ==
  ASSUME NEW engine \in Engines, NEW amount \in Nat
  PROVE  /\ Chars(engine, amount) \in Nat
         /\ Seconds(engine, amount) \in Nat
         /\ Cost(engine, amount) \in Nat
<1>1. amount * CharsPerSecond \in Nat
  BY TariffAssumption
<1> QED
  BY <1>1 DEF Chars, Seconds, Cost

(* Paid usage adds to the counters of its engine and leaves the rest.      *)
LEMMA ApplyPaidFields ==
  ASSUME NEW key \in Records, NEW engine \in Engines, NEW amount \in Nat
  PROVE  LET paid == ApplyPaid(key, engine, amount)
         IN  /\ paid \in Records
             /\ paid.chars = key.chars + Chars(engine, amount)
             /\ paid.piper = key.piper + IF engine = "piper" THEN amount ELSE 0
             /\ paid.seconds = key.seconds + Seconds(engine, amount)
             /\ paid.realtime = key.realtime + IF engine = "stt-realtime" THEN amount ELSE 0
             /\ paid.free = key.free /\ (paid.exhausted <=> key.exhausted)
<1> DEFINE c == key.chars + Chars(engine, amount)
           p == key.piper + IF engine = "piper" THEN amount ELSE 0
           s == key.seconds + Seconds(engine, amount)
           t == key.realtime + IF engine = "stt-realtime" THEN amount ELSE 0
<1>1. c \in Nat /\ p \in Nat /\ s \in Nat /\ t \in Nat
  BY AmountTypes DEF Records
<1>2. ApplyPaid(key, engine, amount) =
        [key EXCEPT !.chars = c, !.piper = p, !.seconds = s, !.realtime = t]
  BY DEF ApplyPaid
<1> HIDE DEF c, p, s, t
<1>3. LET paid == [key EXCEPT !.chars = c, !.piper = p, !.seconds = s, !.realtime = t]
      IN  /\ paid \in Records
          /\ paid.chars = c /\ paid.piper = p /\ paid.seconds = s /\ paid.realtime = t
          /\ paid.free = key.free /\ (paid.exhausted <=> key.exhausted)
  BY <1>1 DEF Records
<1> QED
  BY <1>2, <1>3 DEF c, p, s, t

(* Free usage adds to the allowance used, sets the flag by it, and leaves  *)
(* the rest.                                                               *)
LEMMA ApplyFreeFields ==
  ASSUME NEW key \in Records, NEW engine \in Engines, NEW amount \in Nat
  PROVE  LET used == ApplyFree(key, engine, amount)
         IN  /\ used \in Records
             /\ used.free = key.free + Cost(engine, amount)
             /\ used.exhausted <=> key.exhausted \/ key.free + Cost(engine, amount) >= FreeTier
             /\ used.chars = key.chars /\ used.piper = key.piper
             /\ used.seconds = key.seconds /\ used.realtime = key.realtime
<1> DEFINE f == key.free + Cost(engine, amount)
           b == key.exhausted \/ key.free + Cost(engine, amount) >= FreeTier
<1>1. f \in Nat
  BY AmountTypes DEF Records
<1>2. b \in BOOLEAN
  OBVIOUS
<1>3. ApplyFree(key, engine, amount) = [key EXCEPT !.free = f, !.exhausted = b]
  BY DEF ApplyFree
<1> HIDE DEF f, b
<1>4. LET used == [key EXCEPT !.free = f, !.exhausted = b]
      IN  /\ used \in Records
          /\ used.free = f /\ (used.exhausted <=> b)
          /\ used.chars = key.chars /\ used.piper = key.piper
          /\ used.seconds = key.seconds /\ used.realtime = key.realtime
  BY <1>1, <1>2 DEF Records
<1> QED
  BY <1>3, <1>4 DEF f, b

(* Recording usage maps a record to a record.                              *)
LEMMA RecordUsageType ==
  ASSUME NEW key \in Records, NEW engine \in Engines, NEW amount \in Nat
  PROVE  RecordUsage(key, engine, amount) \in Records
BY ApplyPaidFields, ApplyFreeFields DEF RecordUsage, ApplyUsage

(* One key's flag.                                                         *)
Flag(key) == key.exhausted <=> key.free >= FreeTier

(* Recording usage, free or paid, keeps the flag of a key right.           *)
LEMMA RecordUsageFlag ==
  ASSUME NEW key \in Records, NEW engine \in Engines, NEW amount \in Nat, Flag(key)
  PROVE  Flag(RecordUsage(key, engine, amount))
<1>1. Flag(ApplyPaid(key, engine, amount))
  BY ApplyPaidFields DEF Flag
<1>2. Flag(ApplyFree(key, engine, amount))
  <2>1. key.free \in Nat /\ Cost(engine, amount) \in Nat
    BY AmountTypes DEF Records
  <2>2. key.free >= FreeTier => key.free + Cost(engine, amount) >= FreeTier
    BY <2>1, TariffAssumption
  <2> QED
    BY <2>2, ApplyFreeFields DEF Flag
<1> QED
  BY <1>1, <1>2 DEF RecordUsage, ApplyUsage

(* Recording usage keeps the discounted part of a meter a part of it.      *)
LEMMA RecordUsageParts ==
  ASSUME NEW key \in Records, NEW engine \in Engines, NEW amount \in Nat, PartOfTotal(key)
  PROVE  PartOfTotal(RecordUsage(key, engine, amount))
<1>1. PartOfTotal(ApplyPaid(key, engine, amount))
  <2> DEFINE p == IF engine = "piper" THEN amount ELSE 0
             t == IF engine = "stt-realtime" THEN amount ELSE 0
             paid == ApplyPaid(key, engine, amount)
  <2>1. p <= Chars(engine, amount) /\ t <= Seconds(engine, amount)
    BY DEF Chars, Seconds, CharEngines
  <2>2. /\ key.chars \in Nat /\ key.piper \in Nat /\ key.seconds \in Nat /\ key.realtime \in Nat
        /\ Chars(engine, amount) \in Nat /\ Seconds(engine, amount) \in Nat
        /\ p \in Nat /\ t \in Nat
    BY AmountTypes DEF Records
  <2>3. /\ paid.chars = key.chars + Chars(engine, amount) /\ paid.piper = key.piper + p
        /\ paid.seconds = key.seconds + Seconds(engine, amount)
        /\ paid.realtime = key.realtime + t
    BY ApplyPaidFields
  <2>4. key.piper <= key.chars /\ key.realtime <= key.seconds
    BY DEF PartOfTotal
  <2> HIDE DEF p, t, paid
  <2>5. paid.piper <= paid.chars /\ paid.realtime <= paid.seconds
    BY <2>1, <2>2, <2>3, <2>4
  <2> QED
    BY <2>5 DEF PartOfTotal, paid
<1>2. PartOfTotal(ApplyFree(key, engine, amount))
  BY ApplyFreeFields DEF PartOfTotal
<1> QED
  BY <1>1, <1>2 DEF RecordUsage, ApplyUsage

(* Draining keeps the flag, and leaves nothing of either meter.            *)
LEMMA DrainedKeeps ==
  ASSUME NEW key \in Records
  PROVE  /\ Drained(key) \in Records
         /\ Flag(key) => Flag(Drained(key))
         /\ PartOfTotal(Drained(key))
         /\ Drained(key).free = key.free
<1>1. /\ Drained(key) \in Records
      /\ Drained(key).free = key.free
      /\ Drained(key).exhausted <=> key.exhausted
      /\ Drained(key).chars = 0 /\ Drained(key).piper = 0
      /\ Drained(key).seconds = 0 /\ Drained(key).realtime = 0
  BY DEF Drained, Records
<1> QED
  BY <1>1 DEF Flag, PartOfTotal

-----------------------------------------------------------------------------
(* Types.  That a report is attempted at most MaxTries times bounds how    *)
(* often it is in flight, lost or recorded.                                *)

Attempted(w) ==
  /\ w.pc \in {"unused", "running"} => w.tries = 0 /\ w.charges = 0 /\ w.lost = 0
  /\ w.pc = "waiting" => w.tries # 0
  /\ w.tries = 0 => w.inflight = 0
  /\ w.charges + w.inflight + w.lost <= IF w.tries = 0 THEN 1 ELSE w.tries
  /\ w.doubled <= w.tries

TypeInv == TypeOK /\ \A r \in Requests : Attempted(work[r])

(* An unused slot is a well-typed request.                                 *)
LEMMA UnusedType == Unused \in Works /\ Attempted(Unused)
<1>1. (CHOOSE k \in Keys : TRUE) \in Keys
  BY BillingAssumption
<1> QED
  BY <1>1, BillingAssumption DEF Unused, Works, Pcs, Engines, Attempted

(* A request that was just admitted, relayed or not.                       *)
LEMMA AdmittedType ==
  ASSUME TypeOK, NEW k \in Keys, NEW engine \in Engines, NEW size \in Sizes
  PROVE  LET w == Admitted(k, engine, size)
             f == [w EXCEPT !.pc = "settled", !.charges = 1, !.served = TRUE]
         IN  w \in Works /\ Attempted(w) /\ f \in Works /\ Attempted(f)
<1> DEFINE paid == keys[k].billing
           w == [Unused EXCEPT !.pc = "running", !.key = k, !.engine = engine, !.size = size,
                               !.paid = paid]
           f == [w EXCEPT !.pc = "settled", !.charges = 1, !.served = TRUE]
<1>1. paid \in BOOLEAN
  BY DEF TypeOK, Records
<1>2. 1 \in 0 .. MaxTries
  BY BillingAssumption
<1>3. Admitted(k, engine, size) = w
  BY DEF Admitted
<1> HIDE DEF paid
<1>4. w \in Works
  BY <1>1, UnusedType DEF Works, Pcs
<1>5. /\ w.pc = "running" /\ w.tries = 0 /\ w.inflight = 0 /\ w.charges = 0 /\ w.lost = 0
      /\ w.doubled = 0
  BY DEF Unused
<1> HIDE DEF w
<1>6. /\ f \in Works
      /\ f.pc = "settled" /\ f.tries = 0 /\ f.inflight = 0 /\ f.charges = 1 /\ f.lost = 0
      /\ f.doubled = 0
  BY <1>2, <1>4, <1>5 DEF Works, Pcs
<1> HIDE DEF f
<1>7. Attempted(w) /\ Attempted(f)
  BY <1>5, <1>6 DEF Attempted
<1> QED
  BY <1>3, <1>4, <1>6, <1>7 DEF f

(* A request that is settled, whatever became of it.                       *)
LEMMA Settled ==
  ASSUME NEW w \in Works, Attempted(w)
  PROVE  [w EXCEPT !.pc = "settled"] \in Works /\ Attempted([w EXCEPT !.pc = "settled"])
<1> DEFINE s == [w EXCEPT !.pc = "settled"]
<1>1. /\ s \in Works /\ s.pc = "settled" /\ s.tries = w.tries
      /\ s.inflight = w.inflight /\ s.charges = w.charges /\ s.lost = w.lost
      /\ s.doubled = w.doubled
  BY DEF Works, Pcs
<1> HIDE DEF s
<1>2. Attempted(s)
  BY <1>1 DEF Attempted
<1> QED
  BY <1>1, <1>2 DEF s

(* A request that saw billing set.                                         *)
LEMMA SwitchedType ==
  ASSUME NEW w \in Works, Attempted(w)
  PROVE  [w EXCEPT !.switched = TRUE] \in Works /\ Attempted([w EXCEPT !.switched = TRUE])
<1> DEFINE s == [w EXCEPT !.switched = TRUE]
<1>1. /\ s \in Works /\ s.pc = w.pc /\ s.tries = w.tries
      /\ s.inflight = w.inflight /\ s.charges = w.charges /\ s.lost = w.lost
      /\ s.doubled = w.doubled
  BY DEF Works
<1> HIDE DEF s
<1>2. Attempted(s)
  BY <1>1 DEF Attempted
<1> QED
  BY <1>1, <1>2 DEF s

(* A step that changes one request keeps the types of all.                 *)
LEMMA OneWork ==
  ASSUME TypeInv, NEW r \in Requests, NEW w \in Works, Attempted(w),
         work' = [work EXCEPT ![r] = w]
  PROVE  work' \in [Requests -> Works] /\ \A q \in Requests : Attempted(work'[q])
BY DEF TypeInv, TypeOK

(* An amount that was admitted is a natural number.                        *)
LEMMA WorkAmount ==
  ASSUME NEW w \in Works
  PROVE  w.size \in Nat /\ w.engine \in Engines /\ w.key \in Keys
<1>1. w.size \in Sizes \cup {0} /\ w.engine \in Engines /\ w.key \in Keys
  BY DEF Works
<1>2. Sizes \cup {0} \subseteq Nat
  BY BillingAssumption
<1> QED
  BY <1>1, <1>2

(* The meter starts well typed.                                            *)
LEMMA TypeInit == Init => TypeInv
<1> SUFFICES ASSUME Init PROVE TypeInv
  OBVIOUS
<1>1. NoRecord \in Records
  BY DEF NoRecord, Records
<1>2. Invoice(NoRecord) \in Invoices
  BY DEF NoRecord, Invoice, Invoices
<1> QED
  BY <1>1, <1>2, UnusedType DEF Init, TypeInv, TypeOK

(* Every step of the meter keeps the types.                                *)
LEMMA TypeNext == TypeInv /\ [Next]_vars => TypeInv'
<1> SUFFICES ASSUME TypeInv, [Next]_vars PROVE TypeInv'
  OBVIOUS
<1> USE DEF TypeInv
<1>1. ASSUME NEW k \in Keys, IssueKey(k) PROVE TypeInv'
  BY <1>1 DEF IssueKey, TypeOK, Issued, NoRecord, Records
<1>2. ASSUME NEW k \in Keys, SetBilling(k) PROVE TypeInv'
  <2>1. keys' \in [Keys -> Records]
    BY <1>2 DEF SetBilling, TypeOK, Records
  <2>2. work' = [r \in Requests |-> IF work[r].key = k /\ UnderWay(work[r])
                                     THEN [work[r] EXCEPT !.switched = TRUE] ELSE work[r]]
    BY <1>2 DEF SetBilling
  <2>3. work' \in [Requests -> Works] /\ \A r \in Requests : Attempted(work'[r])
    BY <2>2, SwitchedType DEF TypeOK
  <2> QED
    BY <1>2, <2>1, <2>3 DEF SetBilling, TypeOK
<1>3. ASSUME NEW k \in Keys, RevokeKey(k) PROVE TypeInv'
  BY <1>3 DEF RevokeKey, TypeOK, Records
<1>4. ASSUME NEW k \in Keys,
             \/ Authorize(k) \/ TokenExpires(k) \/ OpenSocket(k)
             \/ CloseSocket(k) \/ OpenRelay(k) \/ CloseRelay(k)
      PROVE  TypeInv'
  BY <1>4 DEF Authorize, TokenExpires, OpenSocket, CloseSocket, OpenRelay, CloseRelay, TypeOK
<1>5. ASSUME NEW k \in Keys, NEW r \in Requests, DirectRequest(r, k) PROVE TypeInv'
  <2>1. PICK engine \in Engines, size \in Sizes :
          work' = [work EXCEPT ![r] = Admitted(k, engine, size)]
    BY <1>5 DEF DirectRequest
  <2> QED
    BY <1>5, <2>1, AdmittedType, OneWork DEF DirectRequest, TypeOK
<1>6. ASSUME NEW k \in Keys, NEW r \in Requests, OneShot(r, k) PROVE TypeInv'
  <2>1. PICK engine \in CharEngines, size \in Sizes :
          work' = [work EXCEPT ![r] = Admitted(k, engine, size)]
    BY <1>6 DEF OneShot
  <2>2. engine \in Engines
    BY DEF Engines, CharEngines
  <2> QED
    BY <1>6, <2>1, <2>2, AdmittedType, OneWork DEF OneShot, TypeOK
<1>7. ASSUME NEW k \in Keys, NEW r \in Requests, RelayFrame(r, k) PROVE TypeInv'
  <2>1. PICK size \in Sizes :
          /\ keys' = [keys EXCEPT ![k] = RecordUsage(@, "kokoro", size)]
          /\ work' = [work EXCEPT ![r] = [Admitted(k, "kokoro", size) EXCEPT
                                            !.pc = "settled", !.charges = 1, !.served = TRUE]]
    BY <1>7 DEF RelayFrame
  <2>2. "kokoro" \in Engines /\ size \in Nat
    BY BillingAssumption DEF Engines
  <2>3. RecordUsage(keys[k], "kokoro", size) \in Records
    BY <2>2, RecordUsageType DEF TypeOK
  <2> QED
    BY <1>7, <2>1, <2>2, <2>3, AdmittedType, OneWork DEF RelayFrame, TypeOK
<1>8. ASSUME NEW r \in Requests, WorkDone(r) PROVE TypeInv'
  <2> DEFINE w == [work[r] EXCEPT !.pc = "waiting", !.served = TRUE, !.tries = 1, !.inflight = 1]
  <2>1. work' = [work EXCEPT ![r] = w]
    BY <1>8 DEF WorkDone, TypeOK, Works
  <2>2. work[r] \in Works /\ Attempted(work[r]) /\ work[r].pc = "running"
    BY <1>8 DEF WorkDone, TypeOK
  <2>3. /\ w \in Works /\ w.pc = "waiting" /\ w.tries = 1 /\ w.inflight = 1
        /\ w.charges = work[r].charges /\ w.lost = work[r].lost
        /\ w.doubled = work[r].doubled
    <3>1. 1 \in 0 .. MaxTries
      BY BillingAssumption
    <3> QED
      BY <2>2, <3>1 DEF Works, Pcs
  <2>4. Attempted(w)
    <3>1. /\ work[r].charges = 0 /\ work[r].lost = 0 /\ work[r].tries = 0
          /\ work[r].doubled \in Nat /\ work[r].doubled <= work[r].tries
      BY <2>2 DEF Attempted, Works
    <3> HIDE DEF w
    <3> QED
      BY <2>3, <3>1 DEF Attempted
  <2> QED
    BY <1>8, <2>1, <2>3, <2>4, OneWork DEF WorkDone, TypeOK
<1>9. ASSUME NEW r \in Requests, WorkCancelled(r) PROVE TypeInv'
  <2> DEFINE w == [work[r] EXCEPT !.pc = "settled"]
  <2>1. work' = [work EXCEPT ![r] = w]
    BY <1>9 DEF WorkCancelled, TypeOK, Works
  <2>2. work[r] \in Works /\ Attempted(work[r])
    BY DEF TypeOK
  <2>3. w \in Works /\ Attempted(w)
    BY <2>2, Settled
  <2> QED
    BY <1>9, <2>1, <2>3, OneWork DEF WorkCancelled, TypeOK
<1>10. ASSUME NEW r \in Requests, ReportArrives(r) PROVE TypeInv'
  <2> DEFINE key == RecordUsage(keys[work[r].key], work[r].engine, work[r].size)
             w   == work[r]
             n   == w.inflight - 1
             c   == w.charges + 1
             settled  == [w EXCEPT !.inflight = n, !.charges = c, !.pc = "settled"]
             recorded == [w EXCEPT !.inflight = n, !.charges = c]
             dropped  == [w EXCEPT !.inflight = n]
  <2>1. keys' \in [Keys -> Records]
    <3>1. key \in Records
      <4>1. work[r] \in Works
        BY DEF TypeOK
      <4> QED
        BY <4>1, WorkAmount, RecordUsageType DEF TypeOK
    <3> QED
      BY <1>10, <3>1 DEF ReportArrives, TypeOK
  <2>2. w \in Works /\ Attempted(w) /\ w.inflight > 0
    BY <1>10 DEF ReportArrives, TypeOK
  <2>3. n \in 0 .. MaxTries /\ c \in 0 .. MaxTries
    BY <2>2, BillingAssumption DEF Works, Attempted
  <2>4. \/ work' = [work EXCEPT ![r] = settled]
        \/ work' = [work EXCEPT ![r] = recorded]
        \/ work' = [work EXCEPT ![r] = dropped]
    BY <1>10 DEF ReportArrives, TypeOK, Works
  <2>5. n + c = w.inflight + w.charges /\ w.pc \notin {"unused", "running"} /\ w.tries # 0
    BY <2>2 DEF Works, Attempted
  <2> HIDE DEF n, c
  <2>6. /\ settled \in Works /\ settled.pc = "settled" /\ settled.tries = w.tries
        /\ settled.inflight = n /\ settled.charges = c /\ settled.lost = w.lost
        /\ settled.doubled = w.doubled
    BY <2>2, <2>3 DEF Works, Pcs
  <2>7. /\ recorded \in Works /\ recorded.pc = w.pc /\ recorded.tries = w.tries
        /\ recorded.inflight = n /\ recorded.charges = c /\ recorded.lost = w.lost
        /\ recorded.doubled = w.doubled
    BY <2>2, <2>3 DEF Works
  <2>8. /\ dropped \in Works /\ dropped.pc = w.pc /\ dropped.tries = w.tries
        /\ dropped.inflight = n /\ dropped.charges = w.charges /\ dropped.lost = w.lost
        /\ dropped.doubled = w.doubled
    BY <2>2, <2>3 DEF Works
  <2>9. Attempted(settled) /\ Attempted(recorded) /\ Attempted(dropped)
    <3>1. w.charges \in Nat /\ w.lost \in Nat /\ w.tries \in Nat /\ w.inflight \in Nat
      BY <2>2 DEF Works
    <3>2. w.charges <= c
      BY <3>1 DEF c
    <3>4. w.charges + w.inflight + w.lost <= w.tries
      BY <2>2, <2>5 DEF Attempted
    <3>5. n + c + w.lost <= w.tries /\ n + w.charges + w.lost <= w.tries
      BY <2>3, <2>5, <3>1, <3>2, <3>4
    <3>6. w.doubled <= w.tries
      BY <2>2 DEF Attempted
    <3>3. n \in Nat /\ c \in Nat
      BY <2>3
    <3> HIDE DEF settled, recorded, dropped, w
    <3> QED
      BY <2>5, <2>6, <2>7, <2>8, <3>1, <3>3, <3>5, <3>6 DEF Attempted
  <2>10. work' \in [Requests -> Works] /\ \A q \in Requests : Attempted(work'[q])
    BY <2>4, <2>6, <2>7, <2>8, <2>9, OneWork
  <2> QED
    BY <1>10, <2>1, <2>10 DEF ReportArrives, TypeOK
<1>11. ASSUME NEW r \in Requests, ReportLost(r) PROVE TypeInv'
  <2> DEFINE n == work[r].inflight - 1
             l == work[r].lost + 1
             w == [work[r] EXCEPT !.inflight = n, !.lost = l]
  <2>1. work' = [work EXCEPT ![r] = w]
    BY <1>11 DEF ReportLost, TypeOK, Works
  <2>2. work[r] \in Works /\ Attempted(work[r]) /\ work[r].inflight > 0
    BY <1>11 DEF ReportLost, TypeOK
  <2>3. n \in 0 .. MaxTries /\ l \in 0 .. MaxTries
    BY <2>2, BillingAssumption DEF Works, Attempted
  <2> HIDE DEF n, l
  <2>4. /\ w \in Works /\ w.pc = work[r].pc /\ w.tries = work[r].tries
        /\ w.inflight = n /\ w.charges = work[r].charges /\ w.lost = l
        /\ w.doubled = work[r].doubled
    BY <2>2, <2>3 DEF Works
  <2>5. Attempted(w)
    <3> HIDE DEF w
    <3> QED
      BY <2>2, <2>4 DEF Attempted, Works, n, l
  <2> QED
    BY <1>11, <2>1, <2>4, <2>5, OneWork DEF ReportLost, TypeOK
<1>12. ASSUME NEW r \in Requests, ReportTimesOut(r) PROVE TypeInv'
  <2> DEFINE t == work[r].tries + 1
             n == work[r].inflight + 1
             d == work[r].doubled + IF work[r].inflight + work[r].charges > 0 THEN 1 ELSE 0
             again == [work[r] EXCEPT !.tries = t, !.inflight = n, !.doubled = d]
             given == [work[r] EXCEPT !.pc = "settled"]
  <2>1. \/ work[r].tries < Attempts(work[r].engine) /\ work' = [work EXCEPT ![r] = again]
        \/ work' = [work EXCEPT ![r] = given]
    BY <1>12 DEF ReportTimesOut, TypeOK, Works
  <2>2. work[r] \in Works /\ Attempted(work[r]) /\ work[r].pc = "waiting"
    BY <1>12 DEF ReportTimesOut, TypeOK
  <2>3. Attempts(work[r].engine) <= MaxTries /\ Attempts(work[r].engine) \in Nat
    BY BillingAssumption DEF Attempts
  <2>4. ASSUME work[r].tries < Attempts(work[r].engine)
        PROVE  again \in Works /\ Attempted(again)
    <3>4. /\ work[r].tries \in Nat /\ work[r].inflight \in Nat
          /\ work[r].charges \in Nat /\ work[r].lost \in Nat /\ work[r].doubled \in Nat
      BY <2>2 DEF Works
    <3>5. t # 0 /\ work[r].charges + n + work[r].lost <= t /\ d <= t /\ d \in Nat
      BY <2>2, <3>4 DEF Attempted
    <3>1. t \in 0 .. MaxTries /\ n \in 0 .. MaxTries /\ d \in 0 .. MaxTries
      <4>1. t \in 0 .. MaxTries /\ n \in 0 .. MaxTries
        BY <2>2, <2>3, <2>4, BillingAssumption DEF Works, Attempted
      <4> HIDE DEF t, n, d
      <4> QED
        BY <3>5, <4>1, BillingAssumption
    <3> HIDE DEF t, n, d
    <3>2. /\ again \in Works /\ again.pc = "waiting" /\ again.tries = t /\ again.doubled = d
          /\ again.inflight = n /\ again.charges = work[r].charges /\ again.lost = work[r].lost
      BY <2>2, <3>1 DEF Works
    <3> HIDE DEF again
    <3>3. Attempted(again)
      BY <3>2, <3>5 DEF Attempted
    <3> QED
      BY <3>2, <3>3
  <2>5. given \in Works /\ Attempted(given)
    BY <2>2, Settled
  <2>6. work' \in [Requests -> Works] /\ \A q \in Requests : Attempted(work'[q])
    BY <2>1, <2>4, <2>5, OneWork
  <2> QED
    BY <1>12, <2>6 DEF ReportTimesOut, TypeOK
<1>13. ASSUME Drain PROVE TypeInv'
  <2>1. keys' \in [Keys -> Records]
    BY <1>13, DrainedKeeps DEF Drain, TypeOK
  <2>2. ASSUME NEW k \in Keys
        PROVE  [m \in DOMAIN invoiced[k] |-> invoiced[k][m] + Invoice(keys[k])[m]] \in Invoices
    <3>1. invoiced[k] \in Invoices /\ Invoice(keys[k]) \in Invoices
      BY DEF TypeOK, Records, Invoice, Invoices
    <3>2. ASSUME NEW a \in Invoices, NEW b \in Invoices
          PROVE  [m \in DOMAIN a |-> a[m] + b[m]] \in Invoices
      BY <3>2 DEF Invoices
    <3> QED
      BY <3>1, <3>2
  <2>3. invoiced' \in [Keys -> Invoices]
    BY <1>13, <2>2 DEF Drain, TypeOK
  <2> QED
    BY <1>13, <2>1, <2>3 DEF Drain, TypeOK
<1>14. CASE UNCHANGED vars
  BY <1>14 DEF vars, TypeOK
<1> HIDE DEF TypeInv
<1> QED
  BY <1>1, <1>2, <1>3, <1>4, <1>5, <1>6, <1>7, <1>8, <1>9, <1>10, <1>11, <1>12, <1>13, <1>14 DEF Next

(* Every reachable state of the meter is well typed; in particular a       *)
(* report is never attempted, in flight, lost or recorded more than        *)
(* MaxTries times.                                                         *)
THEOREM TypeCorrect == Spec => []TypeOK
<1>1. TypeInv => TypeOK
  BY DEF TypeInv
<1> QED
  BY <1>1, TypeInit, TypeNext, PTL DEF Spec

-----------------------------------------------------------------------------
(* The keys.  Every step that changes one records usage on it, drains it,  *)
(* issues it, or switches its billing or its revocation.                   *)

KeyStep(old, new) ==
  \/ new = old
  \/ ~ old.issued /\ new = Issued
  \/ old.issued /\ \E b \in BOOLEAN : new = [old EXCEPT !.billing = b]
  \/ old.issued /\ new = [old EXCEPT !.revoked = TRUE]
  \/ new = Drained(old)
  \/ \E engine \in Engines, amount \in Nat : new = RecordUsage(old, engine, amount)

(* Every step changes a key's record only as KeyStep allows.               *)
LEMMA KeySteps ==
  ASSUME TypeOK, [Next]_vars, NEW k \in Keys
  PROVE  KeyStep(keys[k], keys'[k])
<1>1. ASSUME NEW i \in Keys, IssueKey(i) PROVE KeyStep(keys[k], keys'[k])
  BY <1>1 DEF IssueKey, TypeOK, KeyStep
<1>2. ASSUME NEW i \in Keys, SetBilling(i) PROVE KeyStep(keys[k], keys'[k])
  BY <1>2 DEF SetBilling, TypeOK, KeyStep
<1>3. ASSUME NEW i \in Keys, RevokeKey(i) PROVE KeyStep(keys[k], keys'[k])
  BY <1>3 DEF RevokeKey, TypeOK, KeyStep
<1>4. ASSUME NEW i \in Keys,
             \/ Authorize(i) \/ TokenExpires(i) \/ OpenSocket(i)
             \/ CloseSocket(i) \/ OpenRelay(i) \/ CloseRelay(i)
             \/ \E r \in Requests : DirectRequest(r, i) \/ OneShot(r, i)
      PROVE  KeyStep(keys[k], keys'[k])
  BY <1>4 DEF Authorize, TokenExpires, OpenSocket, CloseSocket, OpenRelay, CloseRelay,
              DirectRequest, OneShot, KeyStep
<1>5. ASSUME NEW i \in Keys, NEW r \in Requests, RelayFrame(r, i)
      PROVE  KeyStep(keys[k], keys'[k])
  <2>1. PICK size \in Sizes : keys' = [keys EXCEPT ![i] = RecordUsage(@, "kokoro", size)]
    BY <1>5 DEF RelayFrame
  <2>2. "kokoro" \in Engines /\ size \in Nat
    BY BillingAssumption DEF Engines
  <2> QED
    BY <2>1, <2>2 DEF TypeOK, KeyStep
<1>6. ASSUME NEW r \in Requests, ReportArrives(r) PROVE KeyStep(keys[k], keys'[k])
  <2>1. keys' = [keys EXCEPT ![work[r].key] =
                   RecordUsage(keys[work[r].key], work[r].engine, work[r].size)]
    BY <1>6 DEF ReportArrives
  <2>2. work[r] \in Works
    BY DEF TypeOK
  <2>3. work[r].engine \in Engines /\ work[r].size \in Nat
    BY <2>2, WorkAmount
  <2> QED
    BY <2>1, <2>3 DEF TypeOK, KeyStep
<1>7. ASSUME NEW r \in Requests,
             WorkDone(r) \/ WorkCancelled(r) \/ ReportLost(r) \/ ReportTimesOut(r)
      PROVE  KeyStep(keys[k], keys'[k])
  BY <1>7 DEF WorkDone, WorkCancelled, ReportLost, ReportTimesOut, KeyStep
<1>8. ASSUME Drain PROVE KeyStep(keys[k], keys'[k])
  BY <1>8 DEF Drain, KeyStep
<1>9. CASE UNCHANGED vars
  BY <1>9 DEF vars, KeyStep
<1> QED
  BY <1>1, <1>2, <1>3, <1>4, <1>5, <1>6, <1>7, <1>8, <1>9 DEF Next

(* What a step of a key keeps.                                             *)
LEMMA KeyStepKeeps ==
  ASSUME NEW old \in Records, NEW new \in Records, KeyStep(old, new)
  PROVE  /\ Flag(old) => Flag(new)
         /\ PartOfTotal(old) => PartOfTotal(new)
<1>1. CASE new = old
  BY <1>1
<1>2. CASE new = Issued
  BY <1>2, TariffAssumption DEF Issued, NoRecord, Flag, PartOfTotal
<1>3. ASSUME NEW b \in BOOLEAN, new = [old EXCEPT !.billing = b]
      PROVE  (Flag(old) => Flag(new)) /\ (PartOfTotal(old) => PartOfTotal(new))
  BY <1>3 DEF Records, Flag, PartOfTotal
<1>4. CASE new = [old EXCEPT !.revoked = TRUE]
  BY <1>4 DEF Records, Flag, PartOfTotal
<1>5. CASE new = Drained(old)
  BY <1>5, DrainedKeeps
<1>6. ASSUME NEW engine \in Engines, NEW amount \in Nat, new = RecordUsage(old, engine, amount)
      PROVE  (Flag(old) => Flag(new)) /\ (PartOfTotal(old) => PartOfTotal(new))
  BY <1>6, RecordUsageFlag, RecordUsageParts
<1> QED
  BY <1>1, <1>2, <1>3, <1>4, <1>5, <1>6 DEF KeyStep

(* The exhausted flag of a key is set exactly when its allowance is used   *)
(* up, in every reachable state: the gates may read the one for the other. *)
THEOREM FlagCorrect == Spec => []FlagAgrees
<1>1. Init => FlagAgrees
  BY TariffAssumption DEF Init, NoRecord, FlagAgrees
<1>2. TypeInv /\ TypeInv' /\ FlagAgrees /\ [Next]_vars => FlagAgrees'
  <2> SUFFICES ASSUME TypeInv, TypeInv', FlagAgrees, [Next]_vars, NEW k \in Keys
               PROVE  Flag(keys'[k])
    BY DEF FlagAgrees, Flag
  <2>1. keys[k] \in Records /\ keys'[k] \in Records /\ Flag(keys[k])
    BY DEF TypeInv, TypeOK, FlagAgrees, Flag
  <2>2. KeyStep(keys[k], keys'[k])
    BY KeySteps DEF TypeInv
  <2> QED
    BY <2>1, <2>2, KeyStepKeeps
<1> QED
  BY <1>1, <1>2, TypeInit, TypeNext, PTL DEF Spec

(* The discounted part of a meter never exceeds the meter, in the counters *)
(* and in what was invoiced, whenever the drain comes.                     *)
THEOREM PartsCorrect == Spec => []SubsetBounds
<1>1. Init => SubsetBounds
  BY DEF Init, NoRecord, Invoice, SubsetBounds, PartOfTotal
<1>2. TypeInv /\ TypeInv' /\ SubsetBounds /\ [Next]_vars => SubsetBounds'
  <2> SUFFICES ASSUME TypeInv, TypeInv', SubsetBounds, [Next]_vars, NEW k \in Keys
               PROVE  PartOfTotal(keys'[k]) /\ PartOfTotal(invoiced'[k])
    BY DEF SubsetBounds
  <2>1. /\ keys[k] \in Records /\ keys'[k] \in Records /\ invoiced[k] \in Invoices
        /\ PartOfTotal(keys[k]) /\ PartOfTotal(invoiced[k])
    BY DEF TypeInv, TypeOK, SubsetBounds
  <2>2. PartOfTotal(keys'[k])
    <3>1. KeyStep(keys[k], keys'[k])
      BY KeySteps DEF TypeInv
    <3> QED
      BY <2>1, <3>1, KeyStepKeeps
  <2>3. \/ invoiced'[k] = invoiced[k]
        \/ invoiced'[k] = [m \in DOMAIN invoiced[k] |-> invoiced[k][m] + Invoice(keys[k])[m]]
    BY DEF Next, vars, IssueKey, SetBilling, RevokeKey, Authorize, TokenExpires, OpenSocket,
           CloseSocket, OpenRelay, CloseRelay, DirectRequest, OneShot, RelayFrame, WorkDone,
           WorkCancelled, ReportArrives, ReportLost, ReportTimesOut, Drain
  <2>4. ASSUME NEW a \in Invoices, NEW key \in Records, PartOfTotal(a), PartOfTotal(key)
        PROVE  PartOfTotal([m \in DOMAIN a |-> a[m] + Invoice(key)[m]])
    BY <2>4 DEF Invoices, Records, Invoice, PartOfTotal
  <2> QED
    BY <2>1, <2>2, <2>3, <2>4
<1> QED
  BY <1>1, <1>2, TypeInit, TypeNext, PTL DEF Spec

-----------------------------------------------------------------------------
(* The allowance.  A deployment that only relays meters a frame before it  *)
(* forwards it: nothing is ever owed to the meter.                         *)

NothingOwed ==
  /\ tokens = {} /\ sockets = {}
  /\ \A r \in Requests : work[r].pc \in {"unused", "settled"} /\ work[r].inflight = 0

(* On the relay alone no request is served before it is charged.           *)
LEMMA RelayOwesNothing ==
  ASSUME Surfaces = {"relay"}, TypeOK, NothingOwed, [Next]_vars
  PROVE  NothingOwed'
<1> USE DEF NothingOwed
<1>1. ASSUME NEW k \in Keys,
             \/ IssueKey(k) \/ SetBilling(k) \/ RevokeKey(k) \/ Authorize(k) \/ TokenExpires(k)
             \/ OpenSocket(k) \/ CloseSocket(k) \/ OpenRelay(k) \/ CloseRelay(k)
             \/ \E r \in Requests : DirectRequest(r, k) \/ OneShot(r, k)
      PROVE  NothingOwed'
  BY <1>1 DEF IssueKey, SetBilling, UnderWay, RevokeKey, Authorize, TokenExpires, OpenSocket, CloseSocket,
              OpenRelay, CloseRelay, DirectRequest, OneShot
<1>2. ASSUME NEW k \in Keys, NEW r \in Requests, RelayFrame(r, k) PROVE NothingOwed'
  <2>1. PICK size \in Sizes :
          work' = [work EXCEPT ![r] = [Admitted(k, "kokoro", size) EXCEPT
                                         !.pc = "settled", !.charges = 1, !.served = TRUE]]
    BY <1>2 DEF RelayFrame
  <2> DEFINE w == Admitted(k, "kokoro", size)
             f == [w EXCEPT !.pc = "settled", !.charges = 1, !.served = TRUE]
  <2>2. f.pc = "settled" /\ f.inflight = 0
    BY DEF Admitted, Unused
  <2>3. work' = [work EXCEPT ![r] = f]
    BY <2>1
  <2> HIDE DEF f
  <2> QED
    BY <1>2, <2>2, <2>3 DEF RelayFrame, TypeOK
<1>3. ASSUME NEW r \in Requests,
             \/ WorkDone(r) \/ WorkCancelled(r) \/ ReportArrives(r)
             \/ ReportLost(r) \/ ReportTimesOut(r)
      PROVE  NothingOwed'
  BY <1>3 DEF WorkDone, WorkCancelled, ReportArrives, ReportLost, ReportTimesOut
<1>4. CASE Drain
  BY <1>4 DEF Drain
<1>5. CASE UNCHANGED vars
  BY <1>5 DEF vars
<1> HIDE DEF NothingOwed
<1> QED
  BY <1>1, <1>2, <1>3, <1>4, <1>5 DEF Next

(* A frame that was afforded leaves the key within its allowance.          *)
LEMMA AffordedStaysWithin ==
  ASSUME NEW key \in Records, NEW size \in Nat, key.free <= FreeTier, CanAfford(key, size)
  PROVE  RecordUsage(key, "kokoro", size).free <= FreeTier
<1>1. "kokoro" \in Engines /\ Cost("kokoro", size) = size
  BY DEF Engines, CharEngines, Cost
<1>2. CASE key.billing
  BY <1>1, <1>2, ApplyPaidFields DEF RecordUsage, ApplyUsage
<1>3. CASE ~ key.billing
  <2>1. key.free \in Nat /\ size <= Remaining(key)
    BY <1>3 DEF CanAfford, Records
  <2>2. key.free + size <= FreeTier
    BY <2>1, TariffAssumption DEF Remaining
  <2>3. ApplyFree(key, "kokoro", size).free = key.free + size
    BY <1>1, ApplyFreeFields
  <2> QED
    BY <1>3, <2>2, <2>3 DEF RecordUsage, ApplyUsage
<1> QED
  BY <1>2, <1>3

(* With the relay as the only surface a key without billing never spends   *)
(* more than its allowance, whatever is upgraded or revoked meanwhile.     *)
THEOREM RelayNeverOverspends == Surfaces = {"relay"} /\ Spec => []AllowanceHeld
<1> SUFFICES ASSUME Surfaces = {"relay"} PROVE Spec => []AllowanceHeld
  OBVIOUS
<1>1. Init => NothingOwed /\ AllowanceHeld
  BY TariffAssumption DEF Init, NoRecord, Unused, NothingOwed, AllowanceHeld
<1>2. TypeInv /\ NothingOwed /\ [Next]_vars => NothingOwed'
  BY RelayOwesNothing DEF TypeInv
<1>3. TypeInv /\ NothingOwed /\ AllowanceHeld /\ [Next]_vars => AllowanceHeld'
  <2> SUFFICES ASSUME TypeOK, NothingOwed, AllowanceHeld, [Next]_vars, NEW k \in Keys
               PROVE  keys'[k].free <= FreeTier
    BY DEF TypeInv, AllowanceHeld
  <2>0. keys[k] \in Records /\ keys[k].free <= FreeTier
    BY DEF TypeOK, AllowanceHeld
  <2>1. ASSUME NEW i \in Keys, IssueKey(i) \/ SetBilling(i) \/ RevokeKey(i)
        PROVE  keys'[k].free <= FreeTier
    <3>1. \/ keys'[k] = keys[k] \/ keys'[k] = Issued
          \/ \E b \in BOOLEAN : keys'[k] = [keys[k] EXCEPT !.billing = b]
          \/ keys'[k] = [keys[k] EXCEPT !.revoked = TRUE]
      BY <2>1 DEF IssueKey, SetBilling, RevokeKey, TypeOK
    <3>2. Issued.free = 0 /\ [keys[k] EXCEPT !.revoked = TRUE].free = keys[k].free
      BY <2>0 DEF Issued, NoRecord, Records
    <3>3. ASSUME NEW b \in BOOLEAN PROVE [keys[k] EXCEPT !.billing = b].free = keys[k].free
      BY <2>0 DEF Records
    <3>4. 0 <= FreeTier
      BY TariffAssumption
    <3> DEFINE revoked == [keys[k] EXCEPT !.revoked = TRUE]
               billed(b) == [keys[k] EXCEPT !.billing = b]
    <3>5. \/ keys'[k] = keys[k] \/ keys'[k] = Issued \/ keys'[k] = revoked
          \/ \E b \in BOOLEAN : keys'[k] = billed(b)
      BY <3>1
    <3>6. revoked.free = keys[k].free /\ \A b \in BOOLEAN : billed(b).free = keys[k].free
      BY <3>2, <3>3
    <3> HIDE DEF revoked, billed
    <3> QED
      BY <2>0, <3>2, <3>4, <3>5, <3>6
  <2>2. ASSUME NEW i \in Keys,
               \/ Authorize(i) \/ TokenExpires(i) \/ OpenSocket(i)
               \/ CloseSocket(i) \/ OpenRelay(i) \/ CloseRelay(i)
               \/ \E r \in Requests : DirectRequest(r, i) \/ OneShot(r, i)
        PROVE  keys'[k].free <= FreeTier
    BY <2>0, <2>2 DEF Authorize, TokenExpires, OpenSocket, CloseSocket, OpenRelay, CloseRelay,
                      DirectRequest, OneShot
  <2>3. ASSUME NEW i \in Keys, NEW r \in Requests, RelayFrame(r, i)
        PROVE  keys'[k].free <= FreeTier
    <3>1. PICK size \in Sizes :
            /\ CanAfford(keys[i], size)
            /\ keys' = [keys EXCEPT ![i] = RecordUsage(@, "kokoro", size)]
      BY <2>3 DEF RelayFrame
    <3>2. size \in Nat
      BY BillingAssumption
    <3>3. CASE i = k
      BY <2>0, <3>1, <3>2, <3>3, AffordedStaysWithin DEF TypeOK
    <3>4. CASE i # k
      BY <2>0, <3>1, <3>4 DEF TypeOK
    <3> QED
      BY <3>3, <3>4
  <2>4. ASSUME NEW r \in Requests,
               \/ WorkDone(r) \/ WorkCancelled(r) \/ ReportArrives(r)
               \/ ReportLost(r) \/ ReportTimesOut(r)
        PROVE  keys'[k].free <= FreeTier
    BY <2>0, <2>4 DEF NothingOwed, WorkDone, WorkCancelled, ReportArrives, ReportLost, ReportTimesOut
  <2>5. CASE Drain
    <3>1. keys'[k] = Drained(keys[k])
      BY <2>5 DEF Drain
    <3> QED
      BY <2>0, <3>1, DrainedKeeps
  <2>6. CASE UNCHANGED vars
    BY <2>0, <2>6 DEF vars
  <2> QED
    BY <2>1, <2>2, <2>3, <2>4, <2>5, <2>6 DEF Next
<1> QED
  BY <1>1, <1>2, <1>3, TypeInit, TypeNext, PTL DEF Spec

-----------------------------------------------------------------------------
(* What becomes of one request.                                            *)

(* What a worker and its report make of a request.  "dropped" stands for   *)
(* a report that is not recorded.                                          *)
Doubling(w) == IF w.inflight + w.charges > 0 THEN 1 ELSE 0
WorkerStep(old, new, dropped) ==
  \/ /\ old.pc = "running" /\ new.pc = "waiting" /\ new.tries = 1 /\ new.inflight = 1
     /\ new.charges = old.charges /\ new.lost = old.lost /\ new.doubled = old.doubled
  \/ /\ old.pc = "running" /\ new.pc = "settled" /\ new.served = old.served /\ new.tries = old.tries
     /\ new.inflight = old.inflight /\ new.charges = old.charges /\ new.lost = old.lost
     /\ new.doubled = old.doubled
  \/ /\ old.inflight > 0 /\ new.inflight = old.inflight - 1 /\ new.tries = old.tries
     /\ new.served = old.served /\ new.doubled = old.doubled
     /\ \/ new.charges = old.charges + 1 /\ new.lost = old.lost /\ new.pc \in {old.pc, "settled"}
        \/ new.charges = old.charges /\ new.lost = old.lost + 1 /\ new.pc = old.pc
        \/ new.charges = old.charges /\ new.lost = old.lost /\ new.pc = old.pc /\ dropped
  \/ /\ old.pc = "waiting" /\ new.served = old.served
     /\ new.charges = old.charges /\ new.lost = old.lost
     /\ \/ /\ new.pc = "waiting" /\ new.tries = old.tries + 1 /\ new.inflight = old.inflight + 1
           /\ new.doubled = old.doubled + Doubling(old) /\ old.tries < Attempts(old.engine)
        \/ /\ new.pc = "settled" /\ new.tries = old.tries /\ new.inflight = old.inflight
           /\ new.doubled = old.doubled

(* A request of the key may be admitted.                                   *)
MayAsk(k) == k \in tokens \cup sockets \/ keys[k].issued

(* What a step makes of a request: nothing, an admission, a note that      *)
(* billing was set, or a step of its worker.                               *)
WorkStep(old, new, dropped) ==
  \/ new = old
  \/ /\ old.pc = "unused" /\ new.pc = "running" /\ ~ new.served /\ new.size > 0 /\ MayAsk(new.key)
     /\ new.tries = 0 /\ new.inflight = 0 /\ new.charges = 0 /\ new.lost = 0 /\ new.doubled = 0
  \/ /\ old.pc = "unused" /\ new.pc = "settled" /\ new.tries = 0 /\ new.inflight = 0 /\ new.charges = 1
     /\ new.size > 0 /\ MayAsk(new.key) /\ new.doubled = 0
  \/ UnderWay(old) /\ new = [old EXCEPT !.switched = TRUE]
  \/ new.key = old.key /\ new.size = old.size /\ new.engine = old.engine /\ WorkerStep(old, new, dropped)

(* The report of this request would not be recorded.                       *)
Refused(w) == RecordUsage(keys[w.key], w.engine, w.size) = keys[w.key]

(* Every step changes a request only as WorkStep allows.                   *)
LEMMA WorkSteps ==
  ASSUME TypeOK, [Next]_vars, NEW r \in Requests
  PROVE  WorkStep(work[r], work'[r], Refused(work[r]))
<1> DEFINE Goal == WorkStep(work[r], work'[r], Refused(work[r]))
<1>0. work[r] \in Works
  BY DEF TypeOK
<1>1. ASSUME NEW k \in Keys,
             \/ IssueKey(k) \/ SetBilling(k) \/ RevokeKey(k) \/ Authorize(k) \/ TokenExpires(k)
             \/ OpenSocket(k) \/ CloseSocket(k) \/ OpenRelay(k) \/ CloseRelay(k)
      PROVE  Goal
  <2>1. CASE SetBilling(k)
    <3>1. work'[r] = work[r] \/ (UnderWay(work[r]) /\ work'[r] = [work[r] EXCEPT !.switched = TRUE])
      BY <2>1 DEF SetBilling
    <3> QED
      BY <3>1 DEF WorkStep
  <2>2. CASE ~ SetBilling(k)
    BY <1>1, <2>2 DEF IssueKey, RevokeKey, Authorize, TokenExpires, OpenSocket, CloseSocket,
                      OpenRelay, CloseRelay, WorkStep
  <2> QED
    BY <2>1, <2>2
<1>2. ASSUME NEW k \in Keys, NEW q \in Requests, DirectRequest(q, k) \/ OneShot(q, k)
      PROVE  Goal
  <2>1. PICK engine \in Engines, size \in Sizes :
          /\ work[q].pc = "unused" /\ work' = [work EXCEPT ![q] = Admitted(k, engine, size)]
          /\ MayAsk(k)
    BY <1>2 DEF DirectRequest, OneShot, Engines, CharEngines, Allowed, Live, MayAsk
  <2> DEFINE w == Admitted(k, engine, size)
  <2>2. /\ w.pc = "running" /\ ~ w.served /\ w.tries = 0 /\ w.inflight = 0
        /\ w.charges = 0 /\ w.lost = 0 /\ w.doubled = 0 /\ w.key = k /\ w.size > 0
    BY BillingAssumption DEF Admitted, Unused
  <2>3. work'[r] = work[r] \/ (r = q /\ work'[r] = w)
    BY <2>1 DEF TypeOK
  <2> HIDE DEF w
  <2> QED
    BY <2>1, <2>2, <2>3 DEF WorkStep
<1>3. ASSUME NEW k \in Keys, NEW q \in Requests, RelayFrame(q, k) PROVE Goal
  <2>1. PICK size \in Sizes :
          /\ work[q].pc = "unused" /\ MayAsk(k)
          /\ work' = [work EXCEPT ![q] = [Admitted(k, "kokoro", size) EXCEPT
                                            !.pc = "settled", !.charges = 1, !.served = TRUE]]
    BY <1>3 DEF RelayFrame, CanAfford, Live, MayAsk
  <2> DEFINE w == [Admitted(k, "kokoro", size) EXCEPT !.pc = "settled", !.charges = 1, !.served = TRUE]
  <2>2. /\ w.pc = "settled" /\ w.tries = 0 /\ w.inflight = 0 /\ w.charges = 1
        /\ w.doubled = 0 /\ w.key = k /\ w.size > 0
    BY BillingAssumption DEF Admitted, Unused
  <2>3. work'[r] = work[r] \/ (r = q /\ work'[r] = w)
    BY <2>1 DEF TypeOK
  <2> HIDE DEF w
  <2> QED
    BY <2>1, <2>2, <2>3 DEF WorkStep
<1>4. ASSUME NEW q \in Requests, WorkDone(q) \/ WorkCancelled(q) PROVE Goal
  BY <1>0, <1>4 DEF WorkDone, WorkCancelled, WorkStep, WorkerStep, TypeOK, Works
<1>5. ASSUME NEW q \in Requests, ReportArrives(q) PROVE Goal
  <2>1. CASE q # r
    BY <2>1, <1>5 DEF ReportArrives, WorkStep, TypeOK
  <2>2. CASE q = r
    <3>1. /\ keys' = [keys EXCEPT ![work[r].key] =
                        RecordUsage(keys[work[r].key], work[r].engine, work[r].size)]
          /\ work[r].inflight > 0
          /\ \/ work' = [work EXCEPT ![r].inflight = @ - 1, ![r].charges = @ + 1, ![r].pc = "settled"]
             \/ work' = [work EXCEPT ![r].inflight = @ - 1, ![r].charges = @ + 1]
             \/ Refused(work[r]) /\ work' = [work EXCEPT ![r].inflight = @ - 1]
      BY <2>2, <1>5 DEF ReportArrives, Refused
    <3> HIDE DEF Refused
    <3> QED
      BY <1>0, <3>1 DEF WorkStep, WorkerStep, TypeOK, Works
  <2> QED
    BY <2>1, <2>2
<1>6. ASSUME NEW q \in Requests, ReportLost(q) PROVE Goal
  BY <1>0, <1>6 DEF ReportLost, WorkStep, WorkerStep, TypeOK, Works
<1>7. ASSUME NEW q \in Requests, ReportTimesOut(q) PROVE Goal
  BY <1>0, <1>7 DEF ReportTimesOut, WorkStep, WorkerStep, Doubling, TypeOK, Works
<1>8. CASE Drain \/ UNCHANGED vars
  BY <1>8 DEF Drain, vars, WorkStep
<1> QED
  BY <1>1, <1>2, <1>3, <1>4, <1>5, <1>6, <1>7, <1>8 DEF Next

(* What was recorded of a request and what may yet be: one, and one for    *)
(* each attempt that was sent too early.                                   *)
Once(w) ==
  /\ w.charges + w.inflight <= 1 + w.doubled
  /\ w.pc = "running" => w.charges = 0 /\ w.doubled = 0
  /\ w.pc = "waiting" => w.tries >= 1
  /\ w.engine # "stt" => w.doubled = 0

(* No request is recorded twice, by two meters or by two reports, but by   *)
(* an attempt worker-stt-prod sends while an earlier one is on its way or  *)
(* has been recorded.                                                      *)
THEOREM NeverTwice == Spec => []ChargedOnce
<1> DEFINE Inv == \A r \in Requests : Once(work[r])
<1>1. Init => Inv
  BY DEF Init, Unused, Once
<1>2. TypeInv /\ Inv /\ [Next]_vars => Inv'
  <2> SUFFICES ASSUME TypeInv, Inv, [Next]_vars, NEW r \in Requests PROVE Once(work'[r])
    OBVIOUS
  <2>1. work[r] \in Works /\ Attempted(work[r]) /\ Once(work[r])
    BY DEF TypeInv, TypeOK
  <2>2. WorkStep(work[r], work'[r], Refused(work[r]))
    BY WorkSteps DEF TypeInv
  <2>3. work'[r] \in Works /\ Attempted(work'[r])
    BY TypeNext DEF TypeInv, TypeOK
  <2>4. ASSUME NEW old \in Works, NEW new \in Works, NEW d, Attempted(old), Attempted(new), Once(old),
               WorkStep(old, new, d)
        PROVE  Once(new)
    <3>1. /\ old.charges \in Nat /\ old.inflight \in Nat /\ new.charges \in Nat
          /\ new.inflight \in Nat /\ old.doubled \in Nat /\ new.doubled \in Nat
          /\ old.tries \in Nat /\ new.tries \in Nat
      BY DEF Works
    <3>2. old.pc \in {"unused", "running"} => old.charges = 0 /\ old.inflight = 0
      BY <2>4 DEF Attempted, Works
    <3>3. CASE UnderWay(old) /\ new = [old EXCEPT !.switched = TRUE]
      <4>1. /\ new.charges = old.charges /\ new.inflight = old.inflight /\ new.doubled = old.doubled
            /\ new.pc = old.pc /\ new.tries = old.tries /\ new.engine = old.engine
        BY <3>3 DEF Works
      <4> QED
        BY <2>4, <4>1 DEF Once
    <3>4. CASE new = old
      BY <2>4, <3>4
    <3>5. CASE old.pc = "unused" /\ new.doubled = 0 /\ new.charges + new.inflight <= 1
               /\ (new.pc = "running" => new.charges = 0) /\ new.pc # "waiting"
      BY <3>1, <3>5 DEF Once
    <3>6. CASE new.engine = old.engine /\ WorkerStep(old, new, d)
      <4>1. Attempts(old.engine) \in Nat /\ (old.engine # "stt" => Attempts(old.engine) = 1)
        BY BillingAssumption DEF Attempts
      <4>2. new.pc # "running"
        BY <2>4, <3>1, <3>2, <3>6 DEF WorkerStep
      <4>3. new.pc = "waiting" => new.tries >= 1
        BY <2>4, <3>1, <3>2, <3>6 DEF WorkerStep, Once
      <4>4. new.charges + new.inflight <= 1 + new.doubled
        BY <2>4, <3>1, <3>2, <3>6 DEF WorkerStep, Once, Doubling
      <4>5. new.engine # "stt" => new.doubled = 0
        BY <2>4, <3>1, <3>2, <3>6, <4>1 DEF WorkerStep, Once
      <4> QED
        BY <4>2, <4>3, <4>4, <4>5 DEF Once
    <3> QED
      BY <2>4, <3>1, <3>3, <3>4, <3>5, <3>6 DEF WorkStep
  <2> QED
    BY <2>1, <2>2, <2>3, <2>4
<1>3. TypeInv /\ Inv => ChargedOnce
  <2> SUFFICES ASSUME TypeInv, Inv, NEW r \in Requests
               PROVE  /\ work[r].charges <= 1 + work[r].doubled
                      /\ work[r].engine # "stt" => work[r].doubled = 0
    BY DEF ChargedOnce
  <2>1. work[r].charges \in Nat /\ work[r].inflight \in Nat /\ work[r].doubled \in Nat
    BY DEF TypeInv, TypeOK, Works
  <2> QED
    BY <2>1 DEF Once
<1> QED
  BY <1>1, <1>2, <1>3, TypeInit, TypeNext, PTL DEF Spec

(* Usage of a positive amount on a live key changes the key's record: the  *)
(* gateway can tell that it was recorded.                                  *)
LEMMA LiveIsRecorded ==
  ASSUME NEW key \in Records, NEW engine \in Engines, NEW amount \in Nat \ {0}, Live(key)
  PROVE  RecordUsage(key, engine, amount) # key
<1>1. ApplyPaid(key, engine, amount) # key
  <2>1. Chars(engine, amount) = amount \/ Seconds(engine, amount) = amount
    BY DEF Chars, Seconds
  <2>2. key.chars \in Nat /\ key.seconds \in Nat
    BY DEF Records
  <2>3. key.chars + amount # key.chars /\ key.seconds + amount # key.seconds
    BY <2>2
  <2> QED
    BY <2>1, <2>3, ApplyPaidFields
<1>2. ApplyFree(key, engine, amount) # key
  <2>1. Cost(engine, amount) \in Nat \ {0}
    <3>1. amount * CharsPerSecond \in Nat \ {0}
      BY TariffAssumption
    <3> QED
      BY <3>1 DEF Cost
  <2>2. key.free \in Nat
    BY DEF Records
  <2>3. key.free + Cost(engine, amount) # key.free
    BY <2>1, <2>2
  <2> QED
    BY <2>3, ApplyFreeFields
<1> QED
  BY <1>1, <1>2 DEF RecordUsage, ApplyUsage

(* A key that was issued stays issued, and revoked if it was.              *)
LEMMA StaysIssued ==
  ASSUME TypeOK, [Next]_vars, NEW k \in Keys, keys[k].issued
  PROVE  keys'[k].issued /\ (keys[k].revoked => keys'[k].revoked)
<1>1. KeyStep(keys[k], keys'[k]) /\ keys[k] \in Records
  BY KeySteps DEF TypeOK
<1>2. ASSUME NEW old \in Records, NEW new, KeyStep(old, new), old.issued
      PROVE  new.issued /\ (old.revoked => new.revoked)
  <2>1. ASSUME NEW engine, NEW amount, new = RecordUsage(old, engine, amount)
        PROVE  new.issued /\ (old.revoked => new.revoked)
    BY <1>2, <2>1 DEF RecordUsage, ApplyUsage, ApplyPaid, ApplyFree, Records
  <2> QED
    BY <1>2, <2>1 DEF KeyStep, Drained, Records
<1> QED
  BY <1>1, <1>2

(* A request that may still be reported.                                   *)
Pending(w) == w.pc \in {"running", "waiting"} \/ w.inflight > 0

(* Every attempt is on its way, lost, or recorded, but those that came to  *)
(* a key that is gone; what is settled and served was attempted or charged *)
(* at once.                                                                *)
Balanced(w, gone) ==
  /\ w.tries > 0 => w.charges + w.inflight + w.lost = w.tries \/ gone
  /\ w.pc = "running" => ~ w.served
  /\ w.pc = "settled" /\ w.served /\ w.tries = 0 => w.charges > 0

(* Whoever asks for work or has it has a key that was issued.              *)
KeysInUse ==
  /\ \A k \in tokens \cup sockets : keys[k].issued
  /\ \A r \in Requests : work[r].pc # "unused" => keys[work[r].key].issued /\ work[r].size > 0

(* No step admits a request on another.                                    *)
LEMMA UseIsKept ==
  ASSUME TypeInv, KeysInUse, [Next]_vars
  PROVE  KeysInUse'
<1>1. \A k \in Keys : keys[k].issued => keys'[k].issued
  BY StaysIssued DEF TypeInv
<1>2. \A k \in tokens' \cup sockets' : k \in Keys /\ keys[k].issued
  <2>1. \A k \in Keys : Authorize(k) => keys[k].issued
    BY DEF Authorize, Allowed, Live
  <2>2. tokens \subseteq Keys /\ sockets \subseteq Keys
    BY DEF TypeInv, TypeOK
  <2>3. \/ \E k \in Keys : Authorize(k)
        \/ tokens' \subseteq tokens /\ sockets' \subseteq tokens \cup sockets
    BY DEF Next, vars, IssueKey, SetBilling, RevokeKey, TokenExpires, OpenSocket,
           CloseSocket, OpenRelay, CloseRelay, DirectRequest, OneShot, RelayFrame, WorkDone,
           WorkCancelled, ReportArrives, ReportLost, ReportTimesOut, Drain
  <2>4. ASSUME NEW k \in Keys, Authorize(k)
        PROVE  tokens' = tokens \cup {k} /\ sockets' = sockets
    BY <2>4 DEF Authorize
  <2> QED
    BY <2>1, <2>2, <2>3, <2>4 DEF KeysInUse
<1>3. ASSUME NEW r \in Requests, work'[r].pc # "unused"
      PROVE  keys'[work'[r].key].issued /\ work'[r].size > 0
  <2>1. WorkStep(work[r], work'[r], Refused(work[r]))
    BY WorkSteps DEF TypeInv
  <2>2. work[r] \in Works /\ work'[r] \in Works /\ Attempted(work[r])
    BY TypeNext DEF TypeInv, TypeOK
  <2>3. ASSUME NEW old \in Works, NEW new \in Works, NEW d, Attempted(old), WorkStep(old, new, d),
               new.pc # "unused"
        PROVE  \/ new.key = old.key /\ new.size = old.size /\ old.pc # "unused"
               \/ new.size > 0 /\ MayAsk(new.key)
    <3>1. CASE UnderWay(old) /\ new = [old EXCEPT !.switched = TRUE]
      BY <2>3, <3>1 DEF Works
    <3>2. CASE new = old
      BY <2>3, <3>2
    <3>3. CASE WorkerStep(old, new, d) /\ new.key = old.key /\ new.size = old.size
      <4>1. old.pc = "unused" => old.inflight = 0
        BY <2>3 DEF Attempted
      <4> QED
        BY <3>3, <4>1 DEF WorkerStep
    <3> QED
      BY <2>3, <3>1, <3>2, <3>3 DEF WorkStep
  <2>4. \/ work'[r].key = work[r].key /\ work'[r].size = work[r].size /\ work[r].pc # "unused"
        \/ work'[r].size > 0 /\ MayAsk(work'[r].key)
    BY <1>3, <2>1, <2>2, <2>3
  <2>5. work'[r].key \in Keys
    BY <2>2 DEF Works
  <2>6. MayAsk(work'[r].key) => keys[work'[r].key].issued
    BY DEF MayAsk, KeysInUse
  <2> QED
    BY <1>1, <2>4, <2>5, <2>6 DEF KeysInUse
<1> QED
  BY <1>1, <1>2, <1>3 DEF KeysInUse

(* A request that was served in full is recorded unless its every report   *)
(* was lost on the way or its key was revoked, also when reports are       *)
(* repeated and billing is switched.                                       *)
THEOREM ServedIsRecorded == Spec => []NothingSlips
<1> DEFINE Gone(r) == keys[work[r].key].revoked
           Inv == KeysInUse /\ \A r \in Requests : Balanced(work[r], Gone(r))
<1>1. Init => Inv
  BY DEF Init, Unused, KeysInUse, Balanced
<1>2. TypeInv /\ Inv /\ [Next]_vars => Inv'
  <2> SUFFICES ASSUME TypeInv, Inv, [Next]_vars, NEW r \in Requests
               PROVE  Balanced(work'[r], keys'[work'[r].key].revoked)
    BY UseIsKept
  <2>1. work[r] \in Works /\ Attempted(work[r]) /\ Balanced(work[r], Gone(r))
    BY DEF TypeInv, TypeOK
  <2>2. WorkStep(work[r], work'[r], Gone(r))
    <3>1. WorkStep(work[r], work'[r], Refused(work[r]))
      BY WorkSteps DEF TypeInv
    <3>2. work[r].inflight > 0 /\ Refused(work[r]) => Gone(r)
      <4> SUFFICES ASSUME work[r].inflight > 0, ~ Gone(r) PROVE ~ Refused(work[r])
        OBVIOUS
      <4>1. work[r].pc # "unused"
        BY <2>1 DEF Attempted
      <4>2. Live(keys[work[r].key]) /\ work[r].size > 0
        BY <4>1 DEF KeysInUse, Live
      <4>3. /\ work[r].engine \in Engines /\ work[r].size \in Nat \ {0}
            /\ keys[work[r].key] \in Records
        BY <2>1, <4>2, WorkAmount DEF TypeInv, TypeOK
      <4> QED
        BY <4>2, <4>3, LiveIsRecorded DEF Refused
    <3> QED
      BY <3>1, <3>2 DEF WorkStep, WorkerStep
  <2>3. work'[r] \in Works /\ Attempted(work'[r])
    BY TypeNext DEF TypeInv, TypeOK
  <2>4. ASSUME NEW old \in Works, NEW new \in Works, NEW gone \in BOOLEAN, Attempted(old),
               Balanced(old, gone), WorkStep(old, new, gone)
        PROVE  Balanced(new, gone)
    <3>1. /\ old.charges \in Nat /\ old.inflight \in Nat /\ old.lost \in Nat /\ old.tries \in Nat
          /\ new.charges \in Nat /\ new.inflight \in Nat /\ new.lost \in Nat /\ new.tries \in Nat
          /\ old.served \in BOOLEAN /\ new.served \in BOOLEAN
      BY DEF Works
    <3>2. /\ old.pc = "running" => old.tries = 0 /\ old.charges = 0 /\ old.inflight = 0 /\ old.lost = 0
          /\ old.pc = "waiting" => old.tries > 0
          /\ old.tries = 0 => old.inflight = 0
      BY <2>4, <3>1 DEF Attempted
    <3>3. CASE new = old
      BY <2>4, <3>3
    <3>4. CASE old.pc = "unused" /\ new.tries = 0 /\ (new.pc = "running" => ~ new.served)
               /\ (new.pc = "settled" => new.charges = 1)
      BY <3>1, <3>4 DEF Balanced
    <3>5. CASE WorkerStep(old, new, gone)
      <4>1. new.tries > 0 => new.charges + new.inflight + new.lost = new.tries \/ gone
        <5>1. CASE old.pc = "running"
          BY <2>4, <3>1, <3>2, <3>5, <5>1 DEF WorkerStep
        <5>2. CASE old.pc # "running" /\ ~ gone /\ new.tries > 0
          <6>1. old.tries > 0
            BY <3>1, <3>2, <3>5, <5>2 DEF WorkerStep
          <6>2. old.charges + old.inflight + old.lost = old.tries
            BY <2>4, <5>2, <6>1 DEF Balanced
          <6>3. \/ /\ new.inflight = old.inflight - 1 /\ new.tries = old.tries
                   /\ \/ new.charges = old.charges + 1 /\ new.lost = old.lost
                      \/ new.charges = old.charges /\ new.lost = old.lost + 1
                \/ /\ new.charges = old.charges /\ new.lost = old.lost
                   /\ \/ new.tries = old.tries + 1 /\ new.inflight = old.inflight + 1
                      \/ new.tries = old.tries /\ new.inflight = old.inflight
            BY <3>5, <5>2 DEF WorkerStep
          <6> QED
            BY <3>1, <6>2, <6>3
        <5> QED
          BY <5>1, <5>2
      <4>2. new.pc = "running" => FALSE
        BY <2>4, <3>1, <3>2, <3>5 DEF WorkerStep
      <4>3. new.tries = 0 => old.pc = "running" /\ new.served = old.served
        BY <3>1, <3>2, <3>5 DEF WorkerStep
      <4> QED
        BY <2>4, <4>1, <4>2, <4>3 DEF Balanced
    <3>6. CASE UnderWay(old) /\ new = [old EXCEPT !.switched = TRUE]
      <4>1. /\ new.charges = old.charges /\ new.inflight = old.inflight /\ new.lost = old.lost
            /\ new.pc = old.pc /\ new.tries = old.tries /\ new.served = old.served
        BY <3>6 DEF Works
      <4> QED
        BY <2>4, <4>1 DEF Balanced
    <3> QED
      BY <2>4, <3>3, <3>4, <3>5, <3>6 DEF WorkStep
  <2>5. Balanced(work'[r], Gone(r))
    <3>1. Gone(r) \in BOOLEAN
      BY <2>1 DEF TypeInv, TypeOK, Works, Records
    <3> QED
      BY <2>1, <2>2, <2>3, <2>4, <3>1
  <2>6. work[r].pc # "unused" => work'[r].key = work[r].key /\ (Gone(r) => keys'[work'[r].key].revoked)
    <3>1. work[r].pc # "unused" => work'[r].key = work[r].key
      BY <2>1, <2>2 DEF WorkStep, Works
    <3>2. work[r].pc # "unused" => keys[work[r].key].issued /\ work[r].key \in Keys
      BY <2>1 DEF KeysInUse, Works
    <3> QED
      BY <3>1, <3>2, StaysIssued DEF TypeInv
  <2>7. work[r].pc = "unused" => work'[r].tries = 0
    <3>1. work[r].pc = "unused" => work[r].tries = 0 /\ work[r].inflight = 0
      BY <2>1 DEF Attempted
    <3> QED
      BY <2>2, <3>1 DEF WorkStep, WorkerStep, UnderWay
  <2> QED
    BY <2>5, <2>6, <2>7 DEF Balanced
<1>3. TypeInv /\ Inv => NothingSlips
  <2> SUFFICES ASSUME TypeInv, Inv, NEW r \in Requests, work[r].pc = "settled", work[r].served,
                      work[r].inflight = 0, ~ Gone(r)
               PROVE  work[r].charges > 0 \/ work[r].lost = work[r].tries
    BY DEF NothingSlips
  <2>1. /\ work[r].charges \in Nat /\ work[r].lost \in Nat /\ work[r].tries \in Nat
    BY DEF TypeInv, TypeOK, Works
  <2> QED
    BY <2>1 DEF Balanced
<1> QED
  BY <1>1, <1>2, <1>3, TypeInit, TypeNext, PTL DEF Spec
-----------------------------------------------------------------------------
(* The ledger.  What a key has used is in its record or in its invoices;   *)
(* what was recorded for it is a sum over the requests.                    *)

(* What a record and its invoices hold for the invoice, in characters.     *)
Meters(key, inv) == key.chars + inv.chars + (key.seconds + inv.seconds) * CharsPerSecond
Amount(w) == w.charges * Cost(w.engine, w.size)

(* A step from one request to another that keeps what is summed up of it.  *)
Alike(old, new) == /\ new.charges = old.charges
                   /\ old.charges > 0 => /\ new.key = old.key /\ new.engine = old.engine
                                         /\ new.size = old.size /\ new.paid = old.paid
                                         /\ old.switched => new.switched

(* The same, with one charge more.                                         *)
OneMore(old, new) == /\ new.charges = old.charges + 1
                     /\ old.charges > 0 => /\ new.key = old.key /\ new.engine = old.engine
                                           /\ new.size = old.size /\ new.paid = old.paid
                                           /\ new.switched = old.switched

(* Usage that is recorded goes to the meters of a paying key, to the       *)
(* allowance of another, and as much of it as was used.                    *)
LEMMA UsageIsMetered ==
  ASSUME NEW key \in Records, NEW inv \in Invoices, NEW engine \in Engines, NEW amount \in Nat,
         RecordUsage(key, engine, amount) # key
  PROVE  LET new == RecordUsage(key, engine, amount) IN
         \/ /\ key.billing /\ new.free = key.free
            /\ Meters(new, inv) = Meters(key, inv) + Cost(engine, amount)
         \/ /\ ~ key.billing /\ new.free = key.free + Cost(engine, amount)
            /\ Meters(new, inv) = Meters(key, inv)
<1>1. Live(key)
  BY DEF RecordUsage
<1>2. CASE key.billing
  <2> DEFINE new == ApplyPaid(key, engine, amount)
             c == Chars(engine, amount)
             s == Seconds(engine, amount)
  <2>1. RecordUsage(key, engine, amount) = new
    BY <1>1, <1>2 DEF RecordUsage, ApplyUsage
  <2>2. new.chars = key.chars + c /\ new.seconds = key.seconds + s /\ new.free = key.free
    BY ApplyPaidFields
  <2>3. /\ c \in Nat /\ s \in Nat /\ key.chars \in Nat /\ key.seconds \in Nat
        /\ inv.chars \in Nat /\ inv.seconds \in Nat /\ CharsPerSecond \in Nat
    BY AmountTypes, TariffAssumption DEF Records, Invoices
  <2>4. Cost(engine, amount) = c + s * CharsPerSecond
    BY TariffAssumption DEF Cost, Chars, Seconds
  <2> HIDE DEF new, c, s
  <2>5. ASSUME NEW a \in Nat, NEW b \in Nat, NEW d \in Nat
        PROVE  (a + b + d) * CharsPerSecond = (a + d) * CharsPerSecond + b * CharsPerSecond
    BY <2>3
  <2>6. (new.seconds + inv.seconds) * CharsPerSecond
          = (key.seconds + inv.seconds) * CharsPerSecond + s * CharsPerSecond
    BY <2>2, <2>3, <2>5
  <2>7. Meters(new, inv) = Meters(key, inv) + Cost(engine, amount)
    BY <2>2, <2>3, <2>4, <2>6 DEF Meters
  <2> QED
    BY <1>2, <2>1, <2>2, <2>7
<1>3. CASE ~ key.billing
  <2>1. RecordUsage(key, engine, amount) = ApplyFree(key, engine, amount)
    BY <1>1, <1>3 DEF RecordUsage, ApplyUsage
  <2> QED
    BY <1>3, <2>1, ApplyFreeFields DEF Meters
<1> QED
  BY <1>2, <1>3

(* Draining moves what the counters hold to the invoices.                  *)
LEMMA DrainMoves ==
  ASSUME NEW key \in Records, NEW inv \in Invoices, NEW new,
         new = IF ~ IsDrained(key) THEN inv
               ELSE [m \in DOMAIN inv |-> inv[m] + Invoice(key)[m]]
  PROVE  Meters(Drained(key), new) = Meters(key, inv) /\ Drained(key).free = key.free
<1>1. Drained(key).chars = 0 /\ Drained(key).seconds = 0 /\ Drained(key).free = key.free
  BY DEF Drained, Records
<1>2. new.chars = inv.chars + key.chars /\ new.seconds = inv.seconds + key.seconds
  BY DEF IsDrained, Invoice, Invoices, Records
<1>3. /\ key.chars \in Nat /\ key.seconds \in Nat /\ inv.chars \in Nat /\ inv.seconds \in Nat
      /\ CharsPerSecond \in Nat
  BY TariffAssumption DEF Records, Invoices
<1>4. 0 + new.seconds = key.seconds + inv.seconds /\ 0 + new.chars = key.chars + inv.chars
  BY <1>2, <1>3
<1>5. Meters(Drained(key), new) = Meters(key, inv)
  BY <1>1, <1>3, <1>4 DEF Meters
<1> QED
  BY <1>1, <1>5

(* A record that was not issued is empty: issuing a key loses nothing.     *)
Blank == \A k \in Keys : ~ keys[k].issued => keys[k] = NoRecord

(* No step writes to such a record but the one that issues it.             *)
LEMMA BlankIsKept == TypeInv /\ Blank /\ [Next]_vars => Blank'
<1> SUFFICES ASSUME TypeInv, Blank, [Next]_vars, NEW k \in Keys, ~ keys'[k].issued
             PROVE  keys'[k] = NoRecord
  BY DEF Blank
<1>1. keys[k] \in Records /\ KeyStep(keys[k], keys'[k])
  BY KeySteps DEF TypeInv, TypeOK
<1>2. ASSUME NEW old \in Records, NEW new, KeyStep(old, new), ~ new.issued
      PROVE  ~ old.issued /\ (new = old \/ new = Drained(old))
  <2>1. ASSUME NEW engine \in Engines, NEW amount \in Nat, new = RecordUsage(old, engine, amount)
        PROVE  new = old /\ ~ old.issued
    <3>1. old.issued => RecordUsage(old, engine, amount).issued
      BY DEF RecordUsage, ApplyUsage, ApplyPaid, ApplyFree, Records
    <3> QED
      BY <1>2, <2>1, <3>1 DEF RecordUsage, Live
  <2> QED
    BY <1>2, <2>1 DEF KeyStep, Issued, NoRecord, Drained, Records
<1>3. Drained(NoRecord) = NoRecord
  <2>1. NoRecord \in Records
    BY DEF NoRecord, Records
  <2>2. /\ NoRecord.chars = 0 /\ NoRecord.piper = 0 /\ NoRecord.seconds = 0
        /\ NoRecord.realtime = 0
    BY DEF NoRecord
  <2>3. [NoRecord EXCEPT !.chars = 0] = NoRecord
    BY <2>1, <2>2 DEF Records
  <2>4. [NoRecord EXCEPT !.piper = 0] = NoRecord
    BY <2>1, <2>2 DEF Records
  <2>5. [NoRecord EXCEPT !.seconds = 0] = NoRecord
    BY <2>1, <2>2 DEF Records
  <2>6. [NoRecord EXCEPT !.realtime = 0] = NoRecord
    BY <2>1, <2>2 DEF Records
  <2>7. Drained(NoRecord) = [[[[NoRecord EXCEPT !.chars = 0] EXCEPT !.piper = 0]
                              EXCEPT !.seconds = 0] EXCEPT !.realtime = 0]
    BY DEF Drained
  <2> QED
    BY <2>3, <2>4, <2>5, <2>6, <2>7
<1> QED
  BY <1>1, <1>2, <1>3 DEF Blank

(* What a step does to the meters and the allowance of key i.              *)
Untouched(i) == /\ keys'[i].free = keys[i].free
                /\ Meters(keys'[i], invoiced'[i]) = Meters(keys[i], invoiced[i])
Charged(i, cost) ==
  \/ /\ keys[i].billing /\ keys'[i].free = keys[i].free
     /\ Meters(keys'[i], invoiced'[i]) = Meters(keys[i], invoiced[i]) + cost
  \/ /\ ~ keys[i].billing /\ keys'[i].free = keys[i].free + cost
     /\ Meters(keys'[i], invoiced'[i]) = Meters(keys[i], invoiced[i])

(* A step records nothing, or the usage of one request on its key.         *)
ChargeOf(r) ==
  /\ OneMore(work[r], work'[r])
  /\ \A q \in Requests \ {r} : work'[q] = work[q]
  /\ \A i \in Keys \ {work'[r].key} : Untouched(i)
  /\ Charged(work'[r].key, Cost(work'[r].engine, work'[r].size))
  /\ \/ work'[r].paid = keys[work'[r].key].billing
     \/ /\ work'[r].paid = work[r].paid /\ work'[r].key = work[r].key /\ Pending(work[r])
        /\ work'[r].switched = work[r].switched
NothingCharged == /\ \A i \in Keys : Untouched(i)
                  /\ \A r \in Requests : Alike(work[r], work'[r])

(* Every step is one of the two.                                           *)
LEMMA LedgerSteps ==
  ASSUME TypeInv, Blank, [Next]_vars
  PROVE  NothingCharged \/ \E r \in Requests : ChargeOf(r)
<1>0. /\ \A r \in Requests : work[r] \in Works /\ Attempted(work[r])
      /\ \A k \in Keys : keys[k] \in Records /\ invoiced[k] \in Invoices
  BY DEF TypeInv, TypeOK
<1>1. ASSUME NEW k \in Keys, IssueKey(k) \/ SetBilling(k) \/ RevokeKey(k) PROVE NothingCharged
  <2>0. \A r \in Requests : Alike(work[r], work'[r])
    <3>1. CASE work' = work
      BY <3>1 DEF Alike
    <3>2. CASE SetBilling(k)
      <4>1. \A r \in Requests : work'[r] = work[r] \/ work'[r] = [work[r] EXCEPT !.switched = TRUE]
        BY <3>2 DEF SetBilling
      <4>2. ASSUME NEW w \in Works PROVE Alike(w, w) /\ Alike(w, [w EXCEPT !.switched = TRUE])
        BY DEF Alike, Works
      <4> QED
        BY <1>0, <4>1, <4>2
    <3> QED
      BY <1>1, <3>1, <3>2 DEF IssueKey, RevokeKey
  <2>1. /\ invoiced' = invoiced
        /\ \A i \in Keys \ {k} : keys'[i] = keys[i]
        /\ \/ keys[k] = NoRecord /\ keys'[k] = Issued
           \/ \E b \in BOOLEAN : keys'[k] = [keys[k] EXCEPT !.billing = b]
           \/ keys'[k] = [keys[k] EXCEPT !.revoked = TRUE]
    BY <1>1 DEF IssueKey, SetBilling, RevokeKey, Blank, TypeInv, TypeOK
  <2>2. /\ keys'[k].chars = keys[k].chars /\ keys'[k].seconds = keys[k].seconds
        /\ keys'[k].free = keys[k].free
    BY <1>0, <2>1 DEF Issued, NoRecord, Records
  <2> QED
    BY <2>0, <2>1, <2>2 DEF NothingCharged, Untouched, Meters
<1>2. ASSUME NEW k \in Keys,
             \/ Authorize(k) \/ TokenExpires(k) \/ OpenSocket(k)
             \/ CloseSocket(k) \/ OpenRelay(k) \/ CloseRelay(k)
      PROVE  NothingCharged
  BY <1>2 DEF Authorize, TokenExpires, OpenSocket, CloseSocket, OpenRelay, CloseRelay,
              NothingCharged, Untouched, Alike
<1>3. ASSUME NEW k \in Keys, NEW r \in Requests, DirectRequest(r, k) \/ OneShot(r, k)
      PROVE  NothingCharged
  <2>1. PICK engine \in Engines, size \in Sizes :
          /\ work[r].pc = "unused" /\ work' = [work EXCEPT ![r] = Admitted(k, engine, size)]
          /\ keys' = keys /\ invoiced' = invoiced
    BY <1>3 DEF DirectRequest, OneShot, Engines, CharEngines
  <2>2. work[r].charges = 0 /\ Admitted(k, engine, size).charges = 0
    BY <1>0, <2>1 DEF Attempted, Admitted, Unused
  <2> HIDE DEF Unused
  <2> QED
    BY <2>1, <2>2 DEF NothingCharged, Untouched, Alike, TypeInv, TypeOK
<1>4. ASSUME NEW k \in Keys, NEW r \in Requests, RelayFrame(r, k) PROVE ChargeOf(r)
  <2>1. PICK size \in Sizes :
          /\ work[r].pc = "unused" /\ CanAfford(keys[k], size)
          /\ keys' = [keys EXCEPT ![k] = RecordUsage(@, "kokoro", size)]
          /\ work' = [work EXCEPT ![r] = [Admitted(k, "kokoro", size) EXCEPT
                                            !.pc = "settled", !.charges = 1, !.served = TRUE]]
          /\ invoiced' = invoiced
    BY <1>4 DEF RelayFrame
  <2> DEFINE w == [Admitted(k, "kokoro", size) EXCEPT !.pc = "settled", !.charges = 1, !.served = TRUE]
  <2>2. /\ w.charges = 1 /\ w.key = k /\ w.engine = "kokoro" /\ w.size = size
        /\ w.paid = keys[k].billing
    BY DEF Admitted, Unused
  <2>3. work[r].charges = 0 /\ work'[r] = w /\ \A q \in Requests \ {r} : work'[q] = work[q]
    BY <1>0, <2>1 DEF Attempted, TypeInv, TypeOK
  <2>4. "kokoro" \in Engines /\ size \in Nat \ {0} /\ Live(keys[k])
    BY <2>1, BillingAssumption DEF Engines, CanAfford
  <2>5. RecordUsage(keys[k], "kokoro", size) # keys[k]
    BY <1>0, <2>4, LiveIsRecorded
  <2>6. keys'[k] = RecordUsage(keys[k], "kokoro", size) /\ \A i \in Keys \ {k} : keys'[i] = keys[i]
    BY <2>1 DEF TypeInv, TypeOK
  <2>7. Charged(k, Cost("kokoro", size))
    BY <1>0, <2>1, <2>4, <2>5, <2>6, UsageIsMetered DEF Charged
  <2> HIDE DEF w
  <2>8. /\ OneMore(work[r], work'[r])
        /\ \A q \in Requests \ {r} : work'[q] = work[q]
        /\ \A i \in Keys \ {work'[r].key} : Untouched(i)
    <3>1. OneMore(work[r], work'[r])
      BY <2>2, <2>3 DEF OneMore
    <3>2. \A i \in Keys \ {k} : keys'[i] = keys[i] /\ invoiced'[i] = invoiced[i]
      BY <2>1, <2>6
    <3>3. \A i \in Keys \ {work'[r].key} : Untouched(i)
      BY <2>2, <2>3, <3>2 DEF Untouched
    <3> QED
      BY <2>3, <3>1, <3>3
  <2>9. /\ Charged(work'[r].key, Cost(work'[r].engine, work'[r].size))
        /\ work'[r].paid = keys[work'[r].key].billing
    BY <2>2, <2>3, <2>7
  <2> QED
    BY <2>8, <2>9 DEF ChargeOf
<1>5. ASSUME NEW r \in Requests,
             WorkDone(r) \/ WorkCancelled(r) \/ ReportLost(r) \/ ReportTimesOut(r)
      PROVE  NothingCharged
  <2>1. /\ keys' = keys /\ invoiced' = invoiced
        /\ \A q \in Requests \ {r} : work'[q] = work[q]
        /\ work'[r].charges = work[r].charges
        /\ work'[r].key = work[r].key /\ work'[r].engine = work[r].engine
        /\ work'[r].size = work[r].size /\ work'[r].paid = work[r].paid
        /\ work'[r].switched = work[r].switched
    BY <1>0, <1>5 DEF WorkDone, WorkCancelled, ReportLost, ReportTimesOut, TypeInv, TypeOK, Works
  <2> QED
    BY <2>1 DEF NothingCharged, Untouched, Alike
<1>6. ASSUME NEW r \in Requests, ReportArrives(r) PROVE NothingCharged \/ ChargeOf(r)
  <2> DEFINE k == work[r].key
             new == RecordUsage(keys[k], work[r].engine, work[r].size)
  <2>1. /\ keys' = [keys EXCEPT ![k] = new] /\ invoiced' = invoiced /\ work[r].inflight > 0
        /\ \/ /\ new # keys[k]
              /\ \/ work' = [work EXCEPT ![r].inflight = @ - 1, ![r].charges = @ + 1, ![r].pc = "settled"]
                 \/ work' = [work EXCEPT ![r].inflight = @ - 1, ![r].charges = @ + 1]
           \/ new = keys[k] /\ work' = [work EXCEPT ![r].inflight = @ - 1]
    BY <1>6 DEF ReportArrives
  <2>2. work[r].size \in Nat /\ work[r].engine \in Engines /\ k \in Keys
    BY <1>0, WorkAmount
  <2>3. keys'[k] = new /\ \A i \in Keys \ {k} : keys'[i] = keys[i]
    BY <2>1, <2>2 DEF TypeInv, TypeOK
  <2>4. /\ \A q \in Requests \ {r} : work'[q] = work[q]
        /\ work'[r].key = k /\ work'[r].engine = work[r].engine
        /\ work'[r].size = work[r].size /\ work'[r].paid = work[r].paid
        /\ work'[r].switched = work[r].switched
    <3> HIDE DEF new
    <3> QED
      BY <1>0, <2>1 DEF TypeInv, TypeOK, Works
  <2>5. CASE new = keys[k]
    <3>1. work'[r].charges = work[r].charges
      <4> HIDE DEF new
      <4> QED
        BY <1>0, <2>1, <2>5 DEF TypeInv, TypeOK, Works
    <3> HIDE DEF new
    <3> QED
      BY <2>1, <2>3, <2>4, <2>5, <3>1 DEF NothingCharged, Untouched, Alike
  <2>6. CASE new # keys[k]
    <3>1. work'[r].charges = work[r].charges + 1
      <4> HIDE DEF new
      <4> QED
        BY <1>0, <2>1, <2>6 DEF TypeInv, TypeOK, Works
    <3>2. Charged(k, Cost(work[r].engine, work[r].size))
      BY <1>0, <2>1, <2>2, <2>3, <2>6, UsageIsMetered DEF Charged
    <3>3. OneMore(work[r], work'[r])
      BY <2>4, <3>1 DEF OneMore
    <3>4. \A i \in Keys \ {work'[r].key} : Untouched(i)
      BY <2>1, <2>3, <2>4 DEF Untouched
    <3>5. Charged(work'[r].key, Cost(work'[r].engine, work'[r].size))
      BY <2>4, <3>2
    <3>6. /\ work'[r].paid = work[r].paid /\ work'[r].key = work[r].key /\ Pending(work[r])
          /\ work'[r].switched = work[r].switched
      BY <2>1, <2>4 DEF Pending
    <3>7. \A q \in Requests \ {r} : work'[q] = work[q]
      BY <2>4
    <3> HIDE DEF k, new
    <3> QED
      BY <3>3, <3>4, <3>5, <3>6, <3>7 DEF ChargeOf
  <2> QED
    BY <2>5, <2>6
<1>7. CASE Drain
  <2>1. ASSUME NEW i \in Keys PROVE Untouched(i)
    <3>1. /\ keys'[i] = Drained(keys[i])
          /\ invoiced'[i] = IF ~ IsDrained(keys[i]) THEN invoiced[i]
               ELSE [m \in DOMAIN invoiced[i] |-> invoiced[i][m] + Invoice(keys[i])[m]]
      BY <1>7 DEF Drain
    <3> QED
      BY <1>0, <3>1, DrainMoves DEF Untouched
  <2>2. work' = work
    BY <1>7 DEF Drain
  <2> QED
    BY <2>1, <2>2 DEF NothingCharged, Alike
<1>8. CASE UNCHANGED vars
  BY <1>8 DEF vars, NothingCharged, Untouched, Alike
<1> QED
  BY <1>1, <1>2, <1>3, <1>4, <1>5, <1>6, <1>7, <1>8 DEF Next

(* What was recorded for key k of the requests P, as a sum over all.       *)
Share(k, P, w, r) == IF r \in P /\ w[r].key = k THEN Amount(w[r]) ELSE 0
Shares(k, P, w) == [r \in Requests |-> Share(k, P, w, r)]

LEMMA AmountIsNat ==
  ASSUME NEW w \in Works
  PROVE  Amount(w) \in Nat
<1>1. Cost(w.engine, w.size) \in Nat /\ w.charges \in Nat
  BY WorkAmount, AmountTypes, BillingAssumption DEF Works
<1> QED
  BY <1>1 DEF Amount

(* RecordedFor as a sum over all requests.                                 *)
LEMMA RecordedIsShares ==
  ASSUME work \in [Requests -> Works], NEW k \in Keys, NEW P \in SUBSET Requests
  PROVE  RecordedFor(k, P) = SumFunctionOnSet(Shares(k, P, work), Requests)
<1> DEFINE T == {r \in P : work[r].key = k}
           g == [r \in Requests |-> IF r \in T THEN Recorded[r] ELSE 0]
<1>1. \A r \in Requests : Recorded[r] = Amount(work[r]) /\ Recorded[r] \in Nat
  BY AmountIsNat DEF Recorded, Amount
<1>2. T \in SUBSET Requests /\ IsFiniteSet(Requests)
  BY BillingAssumption
<1>3. RecordedFor(k, P) = SumFunctionOnSet(Recorded, T)
  BY DEF RecordedFor
<1>4. SumFunctionOnSet(Recorded, T) = SumFunctionOnSet(g, Requests)
  <2> HIDE DEF T
  <2> QED
    BY <1>1, <1>2, SumOfPart
<1>5. ASSUME NEW r \in Requests PROVE g[r] = Shares(k, P, work)[r]
  BY <1>1 DEF Shares, Share
<1>6. SumFunctionOnSet(g, Requests) = SumFunctionOnSet(Shares(k, P, work), Requests)
  <2> HIDE DEF g
  <2> QED
    BY <1>2, <1>5, SumSame
<1> QED
  BY <1>3, <1>4, <1>6

(* The sums after a step, of requests P before it and Q after it.          *)
LEMMA SharesStep ==
  ASSUME TypeInv, TypeInv', NEW k \in Keys, NEW P \in SUBSET Requests, NEW Q \in SUBSET Requests
  PROVE  LET old == SumFunctionOnSet(Shares(k, P, work), Requests)
             new == SumFunctionOnSet(Shares(k, Q, work'), Requests)
         IN  /\ old \in Nat /\ new \in Nat
             /\ (\A r \in Requests : Alike(work[r], work'[r]) /\ (work[r].charges > 0 => (r \in P <=> r \in Q)))
                  => new = old
             /\ (\A r \in Requests : Alike(work[r], work'[r]) /\ (work[r].charges > 0 /\ r \in P => r \in Q))
                  => old <= new
             /\ \A r \in Requests :
                  /\ OneMore(work[r], work'[r]) /\ (work[r].charges > 0 => (r \in P <=> r \in Q))
                  /\ \A q \in Requests \ {r} : work'[q] = work[q] /\ (q \in P <=> q \in Q)
                  => new = old + (IF r \in Q /\ work'[r].key = k
                                  THEN Cost(work'[r].engine, work'[r].size) ELSE 0)
<1> DEFINE h1 == Shares(k, P, work)
           h2 == Shares(k, Q, work')
<1>0. \A r \in Requests : /\ work[r] \in Works /\ work'[r] \in Works
                          /\ Amount(work[r]) \in Nat /\ Amount(work'[r]) \in Nat
  BY AmountIsNat DEF TypeInv, TypeOK
<1>1. \A r \in Requests : /\ h1[r] = Share(k, P, work, r) /\ h2[r] = Share(k, Q, work', r)
                          /\ h1[r] \in Nat /\ h2[r] \in Nat
  BY <1>0 DEF Shares, Share
<1>2. IsFiniteSet(Requests)
  BY BillingAssumption
<1> HIDE DEF h1, h2
<1>3. SumFunctionOnSet(h1, Requests) \in Nat /\ SumFunctionOnSet(h2, Requests) \in Nat
  BY <1>1, <1>2, SumIsNat
<1>4. ASSUME \A r \in Requests : /\ Alike(work[r], work'[r])
                                 /\ work[r].charges > 0 => (r \in P <=> r \in Q)
      PROVE  SumFunctionOnSet(h2, Requests) = SumFunctionOnSet(h1, Requests)
  <2>1. ASSUME NEW r \in Requests PROVE h1[r] = h2[r]
    <3>1. CASE work[r].charges > 0
      BY <1>1, <1>4, <3>1 DEF Alike, Share, Amount
    <3>2. CASE work[r].charges = 0
      <4>1. Cost(work[r].engine, work[r].size) \in Nat /\ Cost(work'[r].engine, work'[r].size) \in Nat
        BY <1>0, WorkAmount, AmountTypes
      <4>2. Amount(work[r]) = 0 /\ Amount(work'[r]) = 0
        BY <1>4, <3>2, <4>1 DEF Alike, Amount
      <4> QED
        BY <1>1, <4>2 DEF Share
    <3>3. work[r].charges \in Nat
      BY <1>0, BillingAssumption DEF Works
    <3> QED
      BY <3>1, <3>2, <3>3
  <2> QED
    BY <1>2, <2>1, SumSame
<1>5. ASSUME NEW r \in Requests, OneMore(work[r], work'[r]),
             work[r].charges > 0 => (r \in P <=> r \in Q),
             \A q \in Requests \ {r} : work'[q] = work[q] /\ (q \in P <=> q \in Q)
      PROVE  SumFunctionOnSet(h2, Requests) = SumFunctionOnSet(h1, Requests)
               + (IF r \in Q /\ work'[r].key = k THEN Cost(work'[r].engine, work'[r].size) ELSE 0)
  <2> DEFINE cost == Cost(work'[r].engine, work'[r].size)
             more == IF r \in Q /\ work'[r].key = k THEN cost ELSE 0
  <2>1. \A q \in Requests \ {r} : h1[q] = h2[q]
    BY <1>1, <1>5 DEF Share
  <2>2. cost \in Nat /\ work[r].charges \in Nat
    <3>1. cost \in Nat
      BY <1>0, WorkAmount, AmountTypes
    <3>2. work[r] \in Works
      BY <1>0
    <3>3. work[r].charges \in Nat
      BY <3>2, BillingAssumption DEF Works
    <3> QED
      BY <3>1, <3>3
  <2>3. h2[r] = h1[r] + more
    <3>1. Amount(work'[r]) = work[r].charges * cost + cost
      BY <1>5, <2>2 DEF Amount, OneMore
    <3>2. CASE work[r].charges > 0
      <4>1. /\ work'[r].key = work[r].key /\ cost = Cost(work[r].engine, work[r].size)
            /\ r \in P <=> r \in Q
        BY <1>5, <3>2 DEF OneMore
      <4>2. Amount(work'[r]) = Amount(work[r]) + cost
        BY <3>1, <4>1 DEF Amount
      <4> HIDE DEF cost
      <4> QED
        BY <1>0, <1>1, <2>2, <4>1, <4>2 DEF Share
    <3>3. CASE work[r].charges = 0
      <4>1. Amount(work[r]) = 0
        <5>1. Cost(work[r].engine, work[r].size) \in Nat
          BY <1>0, WorkAmount, AmountTypes
        <5> QED
          BY <3>3, <5>1 DEF Amount
      <4>2. Amount(work'[r]) = cost
        <5> HIDE DEF cost
        <5> QED
          BY <2>2, <3>1, <3>3
      <4> HIDE DEF cost
      <4> QED
        BY <1>1, <2>2, <4>1, <4>2 DEF Share
    <3> QED
      BY <2>2, <3>2, <3>3
  <2>4. SumFunctionOnSet(h1, Requests) + h2[r] = SumFunctionOnSet(h2, Requests) + h1[r]
    BY <1>1, <1>2, <2>1, SumChanged
  <2>5. more \in Nat
    BY <2>2
  <2>6. SumFunctionOnSet(h2, Requests) = SumFunctionOnSet(h1, Requests) + more
    <3> DEFINE s1 == SumFunctionOnSet(h1, Requests)
               s2 == SumFunctionOnSet(h2, Requests)
               a == h1[r]
               b == h2[r]
    <3>1. /\ s1 \in Nat /\ s2 \in Nat /\ a \in Nat /\ b \in Nat /\ more \in Nat
          /\ b = a + more /\ s1 + b = s2 + a
      BY <1>1, <1>3, <2>3, <2>4, <2>5
    <3> HIDE DEF s1, s2, a, b, more
    <3>2. s2 = s1 + more
      BY <3>1
    <3> QED
      BY <3>2 DEF s1, s2
  <2> QED
    BY <2>6 DEF more, cost
<1>6. ASSUME \A r \in Requests : /\ Alike(work[r], work'[r])
                                 /\ work[r].charges > 0 /\ r \in P => r \in Q
      PROVE  SumFunctionOnSet(h1, Requests) <= SumFunctionOnSet(h2, Requests)
  <2>1. ASSUME NEW r \in Requests PROVE h1[r] <= h2[r]
    <3>1. CASE work[r].charges > 0
      <4>1. CASE r \in P
        BY <1>0, <1>1, <1>6, <3>1, <4>1 DEF Alike, Share, Amount
      <4>2. CASE r \notin P
        BY <1>1, <4>2 DEF Share
      <4> QED
        BY <4>1, <4>2
    <3>2. CASE work[r].charges = 0
      <4>1. Cost(work[r].engine, work[r].size) \in Nat
        BY <1>0, WorkAmount, AmountTypes
      <4>2. Amount(work[r]) = 0
        BY <3>2, <4>1 DEF Amount
      <4> QED
        BY <1>1, <4>2 DEF Share
    <3>3. work[r].charges \in Nat
      BY <1>0, BillingAssumption DEF Works
    <3> QED
      BY <3>1, <3>2, <3>3
  <2> QED
    BY <1>1, <1>2, <2>1, SumGrows
<1> QED
  BY <1>3, <1>4, <1>5, <1>6 DEF h1, h2

(* Everything recorded is in one meter and stays there until it has been   *)
(* invoiced, once: whatever is sent again, lost, upgraded or revoked, and  *)
(* whenever the invoicing job drains the counters.                         *)
THEOREM LedgerAddsUp == Spec => []LedgerMatches
<1> DEFINE Sum(k) == SumFunctionOnSet(Shares(k, Requests, work), Requests)
           Inv == \A k \in Keys : Meters(keys[k], invoiced[k]) + keys[k].free = Sum(k)
<1>1. Init => Blank /\ Inv
  <2> SUFFICES ASSUME Init PROVE Blank /\ Inv
    OBVIOUS
  <2>1. Blank
    BY DEF Init, Blank
  <2>2. ASSUME NEW k \in Keys PROVE Meters(keys[k], invoiced[k]) + keys[k].free = Sum(k)
    <3>1. Meters(keys[k], invoiced[k]) + keys[k].free = 0
      BY TariffAssumption DEF Init, Meters, Invoice, NoRecord
    <3>2. \A r \in Requests : Amount(work[r]) = 0
      <4>1. Cost(Unused.engine, Unused.size) \in Nat
        BY UnusedType, WorkAmount, AmountTypes
      <4>2. Unused.charges = 0
        BY DEF Unused
      <4> QED
        BY <4>1, <4>2 DEF Init, Amount
    <3>3. \A r \in Requests : Shares(k, Requests, work)[r] = Shares(k, {}, work)[r]
      BY <3>2 DEF Shares, Share
    <3>4. Sum(k) = SumFunctionOnSet(Shares(k, {}, work), Requests)
      BY <3>3, SumSame, BillingAssumption
    <3>5. SumFunctionOnSet(Shares(k, {}, work), Requests) = RecordedFor(k, {})
      BY RecordedIsShares, TypeInit DEF TypeInv, TypeOK
    <3>6. RecordedFor(k, {}) = 0
      BY SumOfNone DEF RecordedFor
    <3> QED
      BY <3>1, <3>4, <3>5, <3>6
  <2> QED
    BY <2>1, <2>2
<1>2. TypeInv /\ TypeInv' /\ Blank /\ Inv /\ [Next]_vars => Inv'
  <2> SUFFICES ASSUME TypeInv, TypeInv', Blank, Inv, [Next]_vars, NEW k \in Keys
               PROVE  Meters(keys'[k], invoiced'[k]) + keys'[k].free
                        = SumFunctionOnSet(Shares(k, Requests, work'), Requests)
    OBVIOUS
  <2> DEFINE old == Sum(k)
             new == SumFunctionOnSet(Shares(k, Requests, work'), Requests)
             m == Meters(keys[k], invoiced[k])
             f == keys[k].free
             m2 == Meters(keys'[k], invoiced'[k])
             f2 == keys'[k].free
  <2>1. m + f = old /\ m \in Nat /\ f \in Nat
    <3>1. keys[k] \in Records /\ invoiced[k] \in Invoices
      BY DEF TypeInv, TypeOK
    <3>2. (keys[k].seconds + invoiced[k].seconds) * CharsPerSecond \in Nat
      BY <3>1, TariffAssumption DEF Records, Invoices
    <3> QED
      BY <3>1, <3>2 DEF Meters, Records, Invoices
  <2>2. NothingCharged \/ \E r \in Requests : ChargeOf(r)
    BY LedgerSteps
  <2>3. Requests \in SUBSET Requests
    OBVIOUS
  <2>4. CASE NothingCharged
    <3>1. new = old
      BY <2>3, <2>4, SharesStep DEF NothingCharged
    <3>2. m2 = m /\ f2 = f
      BY <2>4 DEF NothingCharged, Untouched
    <3> HIDE DEF new, old, m, f, m2, f2
    <3>3. m2 + f2 = new
      BY <2>1, <3>1, <3>2
    <3> QED
      BY <3>3 DEF m2, f2, new
  <2>5. ASSUME NEW r \in Requests, ChargeOf(r)
        PROVE  m2 + f2 = new
    <3> DEFINE cost == Cost(work'[r].engine, work'[r].size)
    <3>1. new = old + (IF work'[r].key = k THEN cost ELSE 0)
      BY <2>3, <2>5, SharesStep DEF ChargeOf
    <3>2. cost \in Nat
      BY WorkAmount, AmountTypes DEF TypeInv, TypeOK
    <3>3. CASE work'[r].key = k
      <4>1. m2 + f2 = m + f + cost
        <5>1. (m2 = m + cost /\ f2 = f) \/ (m2 = m /\ f2 = f + cost)
          BY <2>5, <3>3 DEF ChargeOf, Charged
        <5> HIDE DEF new, old, m, f, m2, f2, cost
        <5> QED
          BY <2>1, <3>2, <5>1
      <4> HIDE DEF new, old, m, f, m2, f2, cost
      <4> QED
        BY <2>1, <3>1, <3>2, <3>3, <4>1
    <3>4. CASE work'[r].key # k
      <4>1. m2 = m /\ f2 = f
        BY <2>5, <3>4 DEF ChargeOf, Untouched
      <4> HIDE DEF new, old, m, f, m2, f2, cost
      <4> QED
        BY <2>1, <3>1, <3>4, <4>1
    <3> QED
      BY <3>3, <3>4
  <2> QED
    BY <2>2, <2>4, <2>5
<1>3. TypeInv /\ Inv => LedgerMatches
  <2> SUFFICES ASSUME TypeInv, Inv, NEW k \in Keys
               PROVE  Billed(k) + keys[k].free = RecordedFor(k, Requests)
    BY DEF LedgerMatches
  <2>1. RecordedFor(k, Requests) = Sum(k)
    BY RecordedIsShares DEF TypeInv, TypeOK
  <2>2. Billed(k) = Meters(keys[k], invoiced[k])
    BY DEF Billed, Meters
  <2> QED
    BY <2>1, <2>2
<1> HIDE DEF Inv
<1> QED
  BY <1>1, <1>2, <1>3, TypeInit, TypeNext, BlankIsKept, PTL DEF Spec

-----------------------------------------------------------------------------
(* What was admitted on the allowance stays off the invoice, unless        *)
(* billing is switched under it: of any other request that is under way    *)
(* the meter its report will find is the one it was admitted on.           *)

Pays(r) == keys[work[r].key].billing = work[r].paid
PaidFits == \A r \in Requests : Pending(work[r]) => Pays(r) \/ work[r].switched

(* Whoever switches the billing of a key marks its requests under way.     *)
Marked(k) == \A r \in Requests : work[r].key = k /\ Pending(work[r]) => work'[r].switched
LEMMA BillingSteps ==
  ASSUME TypeInv, Blank, [Next]_vars, NEW k \in Keys
  PROVE  keys'[k].billing = keys[k].billing \/ Marked(k)
<1>1. keys[k] \in Records
  BY DEF TypeInv, TypeOK
<1>2. ASSUME NEW i \in Keys, IssueKey(i) PROVE keys'[k].billing = keys[k].billing
  <2>1. keys[i] = NoRecord /\ keys' = [keys EXCEPT ![i] = Issued]
    BY <1>2 DEF IssueKey, Blank
  <2>2. Issued.billing = NoRecord.billing
    BY DEF Issued, NoRecord
  <2> QED
    BY <2>1, <2>2 DEF TypeInv, TypeOK
<1>3. ASSUME NEW i \in Keys, SetBilling(i)
      PROVE  keys'[k].billing = keys[k].billing \/ Marked(k)
  <2>1. CASE i = k
    <3>1. ASSUME NEW w \in Works PROVE [w EXCEPT !.switched = TRUE].switched
      BY DEF Works
    <3>2. ASSUME NEW r \in Requests, work[r].key = k, Pending(work[r])
          PROVE  work'[r] = [work[r] EXCEPT !.switched = TRUE]
      BY <1>3, <2>1, <3>2 DEF SetBilling, UnderWay, Pending
    <3>3. ASSUME NEW r \in Requests, work[r].key = k, Pending(work[r]) PROVE work'[r].switched
      BY <3>1, <3>2, <3>3 DEF TypeInv, TypeOK
    <3> QED
      BY <3>3 DEF Marked
  <2>2. CASE i # k
    BY <1>3, <2>2 DEF SetBilling, TypeInv, TypeOK
  <2> QED
    BY <2>1, <2>2
<1>4. ASSUME NEW i \in Keys, RevokeKey(i) PROVE keys'[k].billing = keys[k].billing
  BY <1>1, <1>4 DEF RevokeKey, TypeInv, TypeOK, Records
<1>5. ASSUME NEW i \in Keys,
             \/ Authorize(i) \/ TokenExpires(i) \/ OpenSocket(i)
             \/ CloseSocket(i) \/ OpenRelay(i) \/ CloseRelay(i)
             \/ \E r \in Requests : DirectRequest(r, i) \/ OneShot(r, i)
      PROVE  keys'[k].billing = keys[k].billing
  BY <1>5 DEF Authorize, TokenExpires, OpenSocket, CloseSocket, OpenRelay, CloseRelay,
              DirectRequest, OneShot
<1>6. ASSUME NEW engine, NEW amount PROVE RecordUsage(keys[k], engine, amount).billing = keys[k].billing
  BY <1>1 DEF RecordUsage, ApplyUsage, ApplyPaid, ApplyFree, Records
<1>7. ASSUME NEW i \in Keys, NEW r \in Requests, RelayFrame(r, i)
      PROVE  keys'[k].billing = keys[k].billing
  BY <1>6, <1>7 DEF RelayFrame, TypeInv, TypeOK
<1>8. ASSUME NEW r \in Requests, ReportArrives(r) PROVE keys'[k].billing = keys[k].billing
  BY <1>6, <1>8 DEF ReportArrives, TypeInv, TypeOK
<1>9. ASSUME NEW r \in Requests,
             WorkDone(r) \/ WorkCancelled(r) \/ ReportLost(r) \/ ReportTimesOut(r)
      PROVE  keys'[k].billing = keys[k].billing
  BY <1>9 DEF WorkDone, WorkCancelled, ReportLost, ReportTimesOut
<1>10. CASE Drain
  BY <1>1, <1>10 DEF Drain, Drained, Records
<1>11. CASE UNCHANGED vars
  BY <1>11 DEF vars
<1> QED
  BY <1>2, <1>3, <1>4, <1>5, <1>7, <1>8, <1>9, <1>10, <1>11 DEF Next

(* A request that is not settled was admitted in this step or before it.   *)
LEMMA PaidSteps ==
  ASSUME TypeInv, [Next]_vars, NEW r \in Requests, Pending(work'[r])
  PROVE  \/ /\ work'[r].key = work[r].key /\ work'[r].paid = work[r].paid /\ Pending(work[r])
            /\ work[r].switched => work'[r].switched
         \/ work'[r].paid = keys[work'[r].key].billing /\ keys' = keys
<1> DEFINE Goal == \/ /\ work'[r].key = work[r].key /\ work'[r].paid = work[r].paid /\ Pending(work[r])
                      /\ work[r].switched => work'[r].switched
                   \/ work'[r].paid = keys[work'[r].key].billing /\ keys' = keys
<1>0. work[r] \in Works
  BY DEF TypeInv, TypeOK
<1>1. CASE work'[r] = work[r]
  BY <1>1
<1>2. ASSUME NEW k \in Keys, DirectRequest(r, k) \/ OneShot(r, k) PROVE Goal
  <2>1. PICK engine, size : work' = [work EXCEPT ![r] = Admitted(k, engine, size)] /\ keys' = keys
    BY <1>2 DEF DirectRequest, OneShot
  <2>2. Admitted(k, engine, size).key = k /\ Admitted(k, engine, size).paid = keys[k].billing
    BY DEF Admitted, Unused
  <2> QED
    BY <2>1, <2>2 DEF TypeInv, TypeOK
<1>3. ASSUME NEW k \in Keys, RelayFrame(r, k) PROVE Goal
  <2>1. PICK size : work' = [work EXCEPT ![r] = [Admitted(k, "kokoro", size) EXCEPT
                                            !.pc = "settled", !.charges = 1, !.served = TRUE]]
    BY <1>3 DEF RelayFrame
  <2>2. work'[r].pc = "settled" /\ work'[r].inflight = 0
    BY <2>1 DEF Admitted, Unused, TypeInv, TypeOK
  <2> QED
    BY <2>2 DEF Pending
<1>4. CASE \/ WorkDone(r) \/ WorkCancelled(r) \/ ReportArrives(r) \/ ReportLost(r)
           \/ ReportTimesOut(r)
  <2>1. Pending(work[r])
    BY <1>4 DEF WorkDone, WorkCancelled, ReportArrives, ReportLost, ReportTimesOut, Pending
  <2>2. /\ work'[r].key = work[r].key /\ work'[r].paid = work[r].paid
        /\ work'[r].switched = work[r].switched
    BY <1>0, <1>4 DEF WorkDone, WorkCancelled, ReportArrives, ReportLost, ReportTimesOut,
                      TypeInv, TypeOK, Works
  <2> QED
    BY <2>1, <2>2
<1>5. ASSUME NEW q \in Requests \ {r},
             \/ \E k \in Keys : DirectRequest(q, k) \/ OneShot(q, k) \/ RelayFrame(q, k)
             \/ WorkDone(q) \/ WorkCancelled(q) \/ ReportArrives(q) \/ ReportLost(q)
             \/ ReportTimesOut(q)
      PROVE  work'[r] = work[r]
  <2>1. \E w : work' = [work EXCEPT ![q] = w]
    BY <1>5 DEF DirectRequest, OneShot, RelayFrame, WorkDone, WorkCancelled, ReportArrives,
                ReportLost, ReportTimesOut
  <2> QED
    BY <2>1 DEF TypeInv, TypeOK
<1>6. ASSUME \/ \E k \in Keys : \/ IssueKey(k) \/ RevokeKey(k)
                                \/ Authorize(k) \/ TokenExpires(k) \/ OpenSocket(k)
                                \/ CloseSocket(k) \/ OpenRelay(k) \/ CloseRelay(k)
             \/ Drain \/ UNCHANGED vars
      PROVE  work'[r] = work[r]
  BY <1>6 DEF IssueKey, RevokeKey, Authorize, TokenExpires, OpenSocket, CloseSocket,
              OpenRelay, CloseRelay, Drain, vars
<1>7. ASSUME NEW k \in Keys, SetBilling(k) PROVE Goal
  <2>1. CASE work'[r] = [work[r] EXCEPT !.switched = TRUE]
    <3>1. ASSUME NEW w \in Works, NEW new, new = [w EXCEPT !.switched = TRUE]
          PROVE  /\ new.pc = w.pc /\ new.inflight = w.inflight
                 /\ new.key = w.key /\ new.paid = w.paid /\ new.switched
      BY <3>1 DEF Works
    <3>2. /\ work'[r].pc = work[r].pc /\ work'[r].inflight = work[r].inflight
          /\ work'[r].key = work[r].key /\ work'[r].paid = work[r].paid /\ work'[r].switched
      BY <1>0, <2>1, <3>1
    <3> QED
      BY <3>2 DEF Pending
  <2> QED
    BY <1>1, <1>7, <2>1 DEF SetBilling
<1> QED
  BY <1>1, <1>2, <1>3, <1>4, <1>5, <1>6, <1>7 DEF Next

(* Nothing that was admitted on the free allowance is ever invoiced but    *)
(* what billing was switched under.                                        *)
THEOREM FreeStaysFree == Spec => []FreeNotInvoiced
<1> DEFINE Paid == {r \in Requests : work[r].paid \/ work[r].switched}
           Sum(k) == SumFunctionOnSet(Shares(k, Paid, work), Requests)
           Inv == /\ PaidFits
                  /\ \A k \in Keys : Meters(keys[k], invoiced[k]) <= Sum(k)
<1>1. Init => Blank /\ Inv
  <2> SUFFICES ASSUME Init PROVE Blank /\ Inv
    OBVIOUS
  <2>1. Blank /\ PaidFits
    BY DEF Init, Blank, PaidFits, Pending, Unused
  <2>2. ASSUME NEW k \in Keys PROVE Meters(keys[k], invoiced[k]) <= Sum(k)
    <3>1. Meters(keys[k], invoiced[k]) = 0
      BY TariffAssumption DEF Init, Meters, Invoice, NoRecord
    <3>2. \A r \in Requests : Shares(k, Paid, work)[r] \in Nat
      BY AmountIsNat, TypeInit DEF Shares, Share, TypeInv, TypeOK
    <3>3. Sum(k) \in Nat
      BY <3>2, SumIsNat, BillingAssumption
    <3> QED
      BY <3>1, <3>3
  <2> QED
    BY <2>1, <2>2
<1>2. TypeInv /\ TypeInv' /\ Blank /\ Inv /\ [Next]_vars => Inv'
  <2> SUFFICES ASSUME TypeInv, TypeInv', Blank, Inv, [Next]_vars PROVE Inv'
    OBVIOUS
  <2>1. PaidFits'
    <3> SUFFICES ASSUME NEW r \in Requests, Pending(work'[r])
                 PROVE  keys'[work'[r].key].billing = work'[r].paid \/ work'[r].switched
      BY DEF PaidFits, Pays
    <3>1. work[r].key \in Keys /\ work'[r].key \in Keys
      BY DEF TypeInv, TypeOK, Works
    <3>2. CASE work'[r].paid = keys[work'[r].key].billing /\ keys' = keys
      BY <3>2
    <3>3. CASE /\ work'[r].key = work[r].key /\ work'[r].paid = work[r].paid /\ Pending(work[r])
               /\ work[r].switched => work'[r].switched
      BY <3>1, <3>3, BillingSteps DEF PaidFits, Pays, Marked
    <3> QED
      BY <3>2, <3>3, PaidSteps
  <2>2. ASSUME NEW k \in Keys
        PROVE  Meters(keys'[k], invoiced'[k])
                 <= SumFunctionOnSet(Shares(k, {r \in Requests : work'[r].paid \/ work'[r].switched}, work'), Requests)
    <3> DEFINE Q == {r \in Requests : work'[r].paid \/ work'[r].switched}
               old == Sum(k)
               new == SumFunctionOnSet(Shares(k, Q, work'), Requests)
               m == Meters(keys[k], invoiced[k])
               m2 == Meters(keys'[k], invoiced'[k])
    <3>1. m <= old /\ m \in Nat
      <4>1. keys[k] \in Records /\ invoiced[k] \in Invoices
        BY DEF TypeInv, TypeOK
      <4>2. (keys[k].seconds + invoiced[k].seconds) * CharsPerSecond \in Nat
        BY <4>1, TariffAssumption DEF Records, Invoices
      <4> QED
        BY <4>1, <4>2 DEF Meters, Records, Invoices
    <3>2. NothingCharged \/ \E r \in Requests : ChargeOf(r)
      BY LedgerSteps
    <3>3. Paid \in SUBSET Requests /\ Q \in SUBSET Requests
      OBVIOUS
    <3>4. old \in Nat /\ new \in Nat
      <4> HIDE DEF Paid, Q
      <4> QED
        BY <3>3, SharesStep
    <3>5. CASE NothingCharged
      <4>1. \A r \in Requests : /\ Alike(work[r], work'[r])
                                /\ work[r].charges > 0 /\ r \in Paid => r \in Q
        BY <3>5 DEF NothingCharged, Alike
      <4>2. old <= new
        <5> HIDE DEF Paid, Q
        <5> QED
          BY <3>3, <4>1, SharesStep
      <4>3. m2 = m
        BY <3>5 DEF NothingCharged, Untouched
      <4> HIDE DEF new, old, m, m2
      <4>4. m2 <= new
        BY <3>1, <3>4, <4>2, <4>3
      <4> QED
        BY <4>4 DEF m2, new
    <3>6. ASSUME NEW r \in Requests, ChargeOf(r) PROVE m2 <= new
      <4> DEFINE cost == Cost(work'[r].engine, work'[r].size)
                 mine == r \in Q /\ work'[r].key = k
      <4>1. /\ OneMore(work[r], work'[r]) /\ (work[r].charges > 0 => (r \in Paid <=> r \in Q))
            /\ \A q \in Requests \ {r} : work'[q] = work[q] /\ (q \in Paid <=> q \in Q)
        BY <3>6 DEF ChargeOf, OneMore
      <4>2. new = old + (IF mine THEN cost ELSE 0)
        <5> HIDE DEF Paid, Q
        <5> QED
          BY <3>3, <4>1, SharesStep
      <4>3. cost \in Nat
        BY WorkAmount, AmountTypes DEF TypeInv, TypeOK
      <4>4. \/ m2 = m
            \/ m2 = m + cost /\ mine
        <5>1. CASE work'[r].key # k
          BY <3>6, <5>1 DEF ChargeOf, Untouched
        <5>2. CASE work'[r].key = k
          <6>1. Charged(k, cost)
            BY <3>6, <5>2 DEF ChargeOf
          <6>2. work'[r].paid = keys[k].billing \/ work'[r].switched
            BY <3>6, <5>2 DEF ChargeOf, PaidFits, Pays
          <6> QED
            BY <5>2, <6>1, <6>2 DEF Charged
        <5> QED
          BY <5>1, <5>2
      <4> HIDE DEF new, old, m, m2, cost, mine
      <4> QED
        BY <3>1, <3>4, <4>2, <4>3, <4>4
    <3> HIDE DEF new, m2
    <3>7. m2 <= new
      BY <3>2, <3>5, <3>6 DEF m2, new
    <3> QED
      BY <3>7 DEF m2, new
  <2> QED
    BY <2>1, <2>2
<1>3. TypeInv /\ Inv => FreeNotInvoiced
  <2> SUFFICES ASSUME TypeInv, Inv, NEW k \in Keys
               PROVE  Billed(k) <= RecordedFor(k, Paid)
    BY DEF FreeNotInvoiced
  <2>1. RecordedFor(k, Paid) = Sum(k)
    BY RecordedIsShares DEF TypeInv, TypeOK
  <2>2. Billed(k) = Meters(keys[k], invoiced[k])
    BY DEF Billed, Meters
  <2> QED
    BY <2>1, <2>2
<1> HIDE DEF Inv
<1> QED
  BY <1>1, <1>2, <1>3, TypeInit, TypeNext, BlankIsKept, PTL DEF Spec
=============================================================================
