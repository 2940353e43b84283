---------------------------- MODULE SpeechProofs -----------------------------
(***************************************************************************)
(* Proofs about the components that MCSpeech composes, each about its own  *)
(* component for every value of its constants, and about the composition:  *)
(* what stands between the workers and their callers keeps to its promises *)
(* and its limits; and what the workers take they give back, what they     *)
(* report was done.                                                        *)
(***************************************************************************)
EXTENDS MCSpeech, FiniteSetTheorems, SequenceTheorems, TLAPS

-----------------------------------------------------------------------------
(* The proof of GuardCounts, which is inductive with the types.            *)
GuardTypeOK ==
  /\ activeHere \in [Addresses -> Nat] /\ activeTotal \in Nat
  /\ visit \in [Visits -> [at : {"none", "open", "refused", "over"}, address : Addresses \cup {"none"}]]

GuardInv == GuardTypeOK /\ GuardCounts

OpenFrom(a) == OpenVisits \cap VisitsFrom(a)

LEMMA OpenFinite == /\ IsFiniteSet(OpenVisits) /\ IsFiniteSet(OpenVisits')
                    /\ \A a \in Addresses : IsFiniteSet(OpenFrom(a)) /\ IsFiniteSet(OpenFrom(a)')
<1>1. IsFiniteSet(Visits) BY GuardAssumption, FS_Interval DEF GuardAssumption, Visits
<1> QED BY <1>1, FS_Subset DEF OpenVisits, OpenFrom

LEMMA GuardInvInit == GuardInit => GuardInv
<1> SUFFICES ASSUME GuardInit PROVE GuardInv
    OBVIOUS
<1>1. GuardTypeOK BY DEF GuardInit, GuardTypeOK
<1>2. OpenVisits = {} /\ \A a \in Addresses : OpenVisits \cap VisitsFrom(a) = {}
  BY DEF GuardInit, OpenVisits
<1>3. {PerIpConcurrent, GlobalConcurrent} \subseteq Nat BY GuardAssumption DEF GuardAssumption
<1> QED BY <1>1, <1>2, <1>3, FS_EmptySet DEF GuardInit, GuardInv, GuardCounts

LEMMA AdmitCounts == ASSUME NEW v \in Visits, NEW a \in Addresses, GuardInv, AdmitVisit(v, a), visit'[v].at = "open"
                     PROVE GuardInv'
<1>1. /\ visit[v].at = "none" /\ ~ GuardRefuses(a)
      /\ activeHere' = [activeHere EXCEPT ![a] = @ + 1] /\ activeTotal' = activeTotal + 1
      /\ visit' = [visit EXCEPT ![v] = [at |-> "open", address |-> a]]
  BY DEF AdmitVisit, GuardInv, GuardTypeOK
<1>2. GuardTypeOK' BY <1>1 DEF GuardInv, GuardTypeOK
<1>3. OpenVisits' = OpenVisits \cup {v} /\ v \notin OpenVisits
  BY <1>1 DEF GuardInv, GuardTypeOK, OpenVisits
<1>4. activeTotal' = Cardinality(OpenVisits') /\ activeTotal' <= GlobalConcurrent
  <2>1. Cardinality(OpenVisits') = Cardinality(OpenVisits) + 1 BY <1>3, OpenFinite, FS_AddElement
  <2>2. activeTotal < GlobalConcurrent
    BY <1>1, GuardAssumption DEF GuardRefuses, GuardAssumption, GuardInv, GuardTypeOK
  <2> QED BY <1>1, <2>1, <2>2, GuardAssumption DEF GuardAssumption, GuardInv, GuardCounts, GuardTypeOK
<1>5. ASSUME NEW b \in Addresses
      PROVE activeHere'[b] = Cardinality(OpenFrom(b)') /\ activeHere'[b] <= PerIpConcurrent
  <2>1. CASE b = a
    <3>1. OpenFrom(b)' = OpenFrom(b) \cup {v} /\ v \notin OpenFrom(b)
      BY <1>1, <2>1 DEF GuardInv, GuardTypeOK, OpenFrom, OpenVisits, VisitsFrom
    <3>2. Cardinality(OpenFrom(b)') = Cardinality(OpenFrom(b)) + 1 BY <3>1, OpenFinite, FS_AddElement
    <3>3. activeHere'[b] = activeHere[b] + 1 BY <1>1, <2>1 DEF GuardInv, GuardTypeOK
    <3>4. activeHere[b] < PerIpConcurrent
      BY <1>1, <2>1, GuardAssumption DEF GuardRefuses, GuardAssumption, GuardInv, GuardTypeOK
    <3>5. activeHere[b] \in Nat BY DEF GuardInv, GuardTypeOK
    <3>6. PerIpConcurrent \in Nat BY GuardAssumption DEF GuardAssumption
    <3> QED BY <3>2, <3>3, <3>4, <3>5, <3>6 DEF GuardInv, GuardCounts, OpenFrom
  <2>2. CASE b # a
    <3>1. OpenFrom(b)' = OpenFrom(b)
      BY <1>1, <2>2 DEF GuardInv, GuardTypeOK, OpenFrom, OpenVisits, VisitsFrom
    <3>2. activeHere'[b] = activeHere[b] BY <1>1, <2>2 DEF GuardInv, GuardTypeOK
    <3> QED BY <3>1, <3>2 DEF GuardInv, GuardCounts, OpenFrom
  <2> QED BY <2>1, <2>2
<1> QED BY <1>2, <1>4, <1>5 DEF GuardInv, GuardCounts, OpenFrom

LEMMA CloseCounts == ASSUME NEW v \in Visits, GuardInv, VisitCloses(v) PROVE GuardInv'
<1> DEFINE a == visit[v].address
<1>1. /\ visit[v].at = "open" /\ visit' = [visit EXCEPT ![v].at = "over"]
      /\ activeHere' = [activeHere EXCEPT ![a] = @ - 1] /\ activeTotal' = activeTotal - 1
  BY DEF VisitCloses
<1>2. OpenVisits' = OpenVisits \ {v} /\ v \in OpenVisits
  BY <1>1 DEF GuardInv, GuardTypeOK, OpenVisits
<1>3. Cardinality(OpenVisits') = Cardinality(OpenVisits) - 1 BY <1>2, OpenFinite, FS_RemoveElement
<1>4. Cardinality(OpenVisits) \in Nat /\ Cardinality(OpenVisits') \in Nat BY OpenFinite, FS_CardinalityType
<1>5. activeTotal' = Cardinality(OpenVisits') /\ activeTotal' <= GlobalConcurrent /\ activeTotal' \in Nat
  <2>1. GlobalConcurrent \in Nat BY GuardAssumption DEF GuardAssumption
  <2>2. activeTotal = Cardinality(OpenVisits) /\ activeTotal <= GlobalConcurrent BY DEF GuardInv, GuardCounts
  <2> QED BY <1>1, <1>3, <1>4, <2>1, <2>2
<1>6. ASSUME NEW b \in Addresses
      PROVE activeHere'[b] = Cardinality(OpenFrom(b)') /\ activeHere'[b] <= PerIpConcurrent /\ activeHere'[b] \in Nat
  <2>0. /\ activeHere[b] \in Nat /\ PerIpConcurrent \in Nat
        /\ activeHere[b] = Cardinality(OpenFrom(b)) /\ activeHere[b] <= PerIpConcurrent
    BY GuardAssumption DEF GuardAssumption, GuardInv, GuardTypeOK, GuardCounts, OpenFrom
  <2>1. CASE b = a
    <3>1. OpenFrom(b)' = OpenFrom(b) \ {v} /\ v \in OpenFrom(b)
      BY <1>1, <2>1 DEF GuardInv, GuardTypeOK, OpenFrom, OpenVisits, VisitsFrom
    <3>2. Cardinality(OpenFrom(b)') = Cardinality(OpenFrom(b)) - 1 BY <3>1, OpenFinite, FS_RemoveElement
    <3>3. Cardinality(OpenFrom(b)') \in Nat BY OpenFinite, FS_CardinalityType
    <3>4. activeHere'[b] = activeHere[b] - 1 BY <1>1, <2>1 DEF GuardInv, GuardTypeOK
    <3> QED BY <2>0, <3>2, <3>3, <3>4
  <2>2. CASE b # a
    <3>1. OpenFrom(b)' = OpenFrom(b)
      BY <1>1, <2>2 DEF GuardInv, GuardTypeOK, OpenFrom, OpenVisits, VisitsFrom
    <3>2. activeHere'[b] = activeHere[b] BY <1>1, <2>2 DEF GuardInv, GuardTypeOK
    <3> QED BY <2>0, <3>1, <3>2
  <2> QED BY <2>1, <2>2
<1>7. GuardTypeOK'
  <2>1. visit' \in [Visits -> [at : {"none", "open", "refused", "over"}, address : Addresses \cup {"none"}]]
    BY <1>1 DEF GuardInv, GuardTypeOK
  <2>2. activeHere' \in [Addresses -> Nat] BY <1>1, <1>6 DEF GuardInv, GuardTypeOK
  <2> QED BY <1>5, <2>1, <2>2 DEF GuardTypeOK
<1> QED BY <1>5, <1>6, <1>7 DEF GuardInv, GuardCounts, OpenFrom

LEMMA GuardInvStep == GuardInv /\ [GuardNext]_guardVars => GuardInv'
<1> SUFFICES ASSUME GuardInv, [GuardNext]_guardVars PROVE GuardInv'
    OBVIOUS
<1>1. CASE UNCHANGED <<activeHere, activeTotal, visit>>
  BY <1>1 DEF GuardInv, GuardTypeOK, GuardCounts, OpenVisits, VisitsFrom
<1>2. ASSUME NEW v \in Visits, NEW a \in Addresses, AdmitVisit(v, a) PROVE GuardInv'
  <2>1. CASE visit'[v].at = "open" BY <1>2, <2>1, AdmitCounts
  <2>2. CASE visit'[v].at # "open"
    <3>1. /\ visit[v].at = "none" /\ visit' = [visit EXCEPT ![v] = [at |-> "refused", address |-> a]]
          /\ UNCHANGED <<activeHere, activeTotal>>
      BY <1>2, <2>2 DEF AdmitVisit, GuardInv, GuardTypeOK
    <3>2. GuardTypeOK' BY <3>1 DEF GuardInv, GuardTypeOK
    <3>3. OpenVisits' = OpenVisits BY <3>1 DEF GuardInv, GuardTypeOK, OpenVisits
    <3>4. \A b \in Addresses : OpenFrom(b)' = OpenFrom(b)
      BY <3>1 DEF GuardInv, GuardTypeOK, OpenFrom, OpenVisits, VisitsFrom
    <3> QED BY <3>1, <3>2, <3>3, <3>4 DEF GuardInv, GuardCounts, OpenFrom
  <2> QED BY <2>1, <2>2
<1>3. PruneStarts \/ GuardTick => UNCHANGED <<activeHere, activeTotal, visit>>
  BY DEF PruneStarts, GuardTick
<1> QED BY <1>1, <1>2, <1>3, CloseCounts DEF GuardNext, guardVars

\* For any number of addresses, visitors and limits: what admit() and release() count is
\* what is open, and the limits on what is open hold (demoGuard.js).
THEOREM VisitorsCounted == GuardSpec => []GuardCounts
<1>1. GuardInv => GuardCounts BY DEF GuardInv
<1> QED BY <1>1, GuardInvInit, GuardInvStep, PTL DEF GuardSpec

-----------------------------------------------------------------------------
(* The proof of WindowsHold: the list of an address has every session that *)
(* began less than a day ago, and a window that a new session falls into   *)
(* held none that is older than the window is long.                        *)
WindowTypeOK ==
  /\ GuardTypeOK
  /\ starts \in [Addresses -> SUBSET Visits] /\ began \in [Visits -> Nat] /\ now \in Nat
BegunWithin(a, t, span) == {v \in VisitsFrom(a) : began[v] <= t /\ t < began[v] + span}
DayListed == \A a \in Addresses : \A v \in VisitsFrom(a) : began[v] <= now /\ (now < began[v] + DayLong => v \in starts[a])
EveryWindow == \A a \in Addresses, t \in Nat : /\ Cardinality(BegunWithin(a, t, HourLong)) <= PerIpPerHour
                                               /\ Cardinality(BegunWithin(a, t, DayLong)) <= PerIpPerDay
WindowInv == WindowTypeOK /\ DayListed /\ EveryWindow

LEMMA GuardConstants ==
  /\ PerIpConcurrent \in Nat /\ GlobalConcurrent \in Nat /\ PerIpPerHour \in Nat /\ PerIpPerDay \in Nat
  /\ MaxTime \in Nat /\ MaxVisits \in Nat /\ HourLong \in Nat /\ DayLong \in Nat /\ 0 < HourLong /\ HourLong <= DayLong
  BY GuardAssumption DEF GuardAssumption

LEMMA VisitsFinite == \A S \in SUBSET Visits : IsFiniteSet(S) /\ Cardinality(S) \in Nat
<1>1. IsFiniteSet(Visits) BY GuardConstants, FS_Interval DEF Visits
<1> QED BY <1>1, FS_Subset, FS_CardinalityType

\* a window that was seen through a list that is below the limit has room for one more
LEMMA RoomForOne ==
  ASSUME NEW seen \in SUBSET Visits, NEW list \in SUBSET Visits, seen \subseteq list, NEW limit \in Nat,
         Cardinality(list) < limit, NEW v \in Visits, NEW after \in SUBSET Visits, after \subseteq seen \cup {v}
  PROVE  Cardinality(after) <= limit
<1>1. Cardinality(seen) <= Cardinality(list) BY VisitsFinite, FS_Subset
<1>2. Cardinality(seen \cup {v}) <= Cardinality(seen) + 1 /\ IsFiniteSet(seen \cup {v})
  BY VisitsFinite, FS_AddElement
<1>3. Cardinality(after) <= Cardinality(seen \cup {v}) BY <1>2, FS_Subset
<1>4. Cardinality(after) \in Nat /\ Cardinality(seen) \in Nat /\ Cardinality(list) \in Nat
      /\ Cardinality(seen \cup {v}) \in Nat
  BY VisitsFinite
<1> QED BY <1>1, <1>2, <1>3, <1>4

LEMMA WindowInvInit == GuardInit => WindowInv
<1> SUFFICES ASSUME GuardInit PROVE WindowInv
    OBVIOUS
<1>1. WindowTypeOK BY GuardInvInit DEF GuardInit, WindowTypeOK, GuardInv
<1>2. \A a \in Addresses : VisitsFrom(a) = {} BY DEF GuardInit, VisitsFrom
<1>3. \A a \in Addresses, t \in Nat : BegunWithin(a, t, HourLong) = {} /\ BegunWithin(a, t, DayLong) = {}
  BY <1>2 DEF BegunWithin
<1> QED BY <1>1, <1>2, <1>3, GuardConstants, FS_EmptySet DEF WindowInv, DayListed, EveryWindow

LEMMA WindowInvImplies == WindowInv => WindowsHold
  BY GuardConstants DEF WindowInv, EveryWindow, WindowsHold, BegunWithin

\* no session begins: the windows stay as they are, and the lists may lose what is a day old
LEMMA NobodyBegins ==
  ASSUME WindowInv, GuardTypeOK', began' = began, now' \in Nat, now <= now',
         \A a \in Addresses : VisitsFrom(a)' = VisitsFrom(a),
         starts' \in [Addresses -> SUBSET Visits],
         \A a \in Addresses : \A v \in starts[a] : now' < began[v] + DayLong => v \in starts'[a]
  PROVE  WindowInv'
<1>1. WindowTypeOK' BY DEF WindowInv, WindowTypeOK
<1>2. DayListed'
  <2> SUFFICES ASSUME NEW a \in Addresses, NEW v \in VisitsFrom(a)
               PROVE  began[v] <= now' /\ (now' < began[v] + DayLong => v \in starts'[a])
      BY DEF DayListed
  <2>1. began[v] \in Nat /\ now \in Nat BY DEF WindowInv, WindowTypeOK, VisitsFrom
  <2>2. began[v] <= now /\ (now < began[v] + DayLong => v \in starts[a]) BY DEF WindowInv, DayListed
  <2> QED BY <2>1, <2>2, GuardConstants
<1>3. EveryWindow'
  <2>1. \A a \in Addresses : \A t, span : BegunWithin(a, t, span)' = BegunWithin(a, t, span) BY DEF BegunWithin
  <2> QED BY <2>1 DEF EveryWindow, WindowInv
<1> QED BY <1>1, <1>2, <1>3 DEF WindowInv

LEMMA VisitBegins ==
  ASSUME WindowInv, NEW v \in Visits, NEW a \in Addresses, AdmitVisit(v, a), visit'[v].at = "open", GuardTypeOK'
  PROVE  WindowInv'
<1>1. /\ visit[v].at = "none" /\ ~ GuardRefuses(a)
      /\ starts' = [starts EXCEPT ![a] = Recent(a) \cup {v}]
      /\ visit' = [visit EXCEPT ![v] = [at |-> "open", address |-> a]]
      /\ began' = [began EXCEPT ![v] = now] /\ now' = now
  BY DEF AdmitVisit, WindowInv, WindowTypeOK, GuardTypeOK
<1> USE GuardConstants
<1>2. /\ Recent(a) = {u \in starts[a] : now - began[u] < DayLong} /\ Recent(a) \in SUBSET Visits
      /\ starts \in [Addresses -> SUBSET Visits] /\ began \in [Visits -> Nat] /\ now \in Nat
      /\ visit \in [Visits -> [at : {"none", "open", "refused", "over"}, address : Addresses \cup {"none"}]]
  BY DEF WindowInv, WindowTypeOK, GuardTypeOK, Recent, Within
<1>3. WindowTypeOK' BY <1>1, <1>2 DEF WindowTypeOK
<1>4. \A b \in Addresses : VisitsFrom(b)' = IF b = a THEN VisitsFrom(b) \cup {v} ELSE VisitsFrom(b)
  BY <1>1, <1>2 DEF VisitsFrom
<1>5. \A b \in Addresses : v \notin VisitsFrom(b) /\ VisitsFrom(b) \subseteq Visits BY <1>1 DEF VisitsFrom
<1>6. DayListed'
  <2> SUFFICES ASSUME NEW b \in Addresses, NEW u \in VisitsFrom(b)'
               PROVE  began'[u] <= now /\ (now < began'[u] + DayLong => u \in starts'[b])
      BY <1>1 DEF DayListed
  <2>1. CASE u = v
    <3>1. b = a BY <1>4, <1>5, <2>1
    <3> QED BY <1>1, <1>2, <2>1, <3>1
  <2>2. CASE u # v
    <3>1. u \in VisitsFrom(b) /\ u \in Visits /\ began'[u] = began[u] /\ began[u] \in Nat
      BY <1>1, <1>2, <1>4, <1>5, <2>2
    <3>2. began[u] <= now /\ (now < began[u] + DayLong => u \in starts[b]) BY <3>1 DEF WindowInv, DayListed
    <3>3. now < began[u] + DayLong /\ b = a => u \in Recent(a) BY <1>2, <3>1, <3>2
    <3> QED BY <1>1, <1>2, <3>1, <3>2, <3>3
  <2> QED BY <2>1, <2>2
<1>7. ASSUME NEW b \in Addresses, NEW t \in Nat, NEW span \in Nat, span <= DayLong, NEW limit \in Nat,
             Cardinality(BegunWithin(b, t, span)) <= limit,
             Cardinality({u \in Recent(a) : now - began[u] < span}) < limit
      PROVE  Cardinality(BegunWithin(b, t, span)') <= limit
  <2> DEFINE old == BegunWithin(b, t, span)
             list == {u \in Recent(a) : now - began[u] < span}
  <2>0. BegunWithin(b, t, span)' = {u \in VisitsFrom(b)' : began'[u] <= t /\ t < began'[u] + span}
    BY DEF BegunWithin
  <2>1. CASE b = a /\ now <= t /\ t < now + span
    <3>1. old \in SUBSET Visits /\ list \in SUBSET Visits BY <1>2, <1>5 DEF BegunWithin
    <3>2. old \subseteq list
      <4> SUFFICES ASSUME NEW u \in old PROVE u \in list
          OBVIOUS
      <4>1. u \in VisitsFrom(a) /\ began[u] <= t /\ t < began[u] + span /\ u \in Visits /\ began[u] \in Nat
        BY <1>2, <1>5, <2>1 DEF BegunWithin
      <4>2. now < began[u] + span /\ now < began[u] + DayLong BY <1>2, <1>7, <2>1, <4>1
      <4>3. u \in starts[a] BY <4>1, <4>2 DEF WindowInv, DayListed
      <4> QED BY <1>2, <4>1, <4>2, <4>3
    <3>3. BegunWithin(b, t, span)' \subseteq old \cup {v} /\ BegunWithin(b, t, span)' \in SUBSET Visits
      <4>1. \A u \in VisitsFrom(b)' : u = v \/ (u \in VisitsFrom(b) /\ u \in Visits /\ began'[u] = began[u])
        BY <1>1, <1>2, <1>4, <1>5
      <4> QED BY <2>0, <4>1 DEF BegunWithin
    <3> HIDE DEF old, list
    <3>4. Cardinality(list) < limit BY <1>7 DEF list
    <3> QED BY <3>1, <3>2, <3>3, <3>4, RoomForOne
  <2>2. CASE ~ (b = a /\ now <= t /\ t < now + span)
    <3>1. BegunWithin(b, t, span)' = old
      <4>1. \A u \in VisitsFrom(b) : began'[u] = began[u] BY <1>1, <1>2, <1>5
      <4>2. began'[v] = now BY <1>1, <1>2
      <4>3. CASE b = a BY <1>4, <2>0, <2>2, <4>1, <4>2, <4>3 DEF BegunWithin
      <4>4. CASE b # a BY <1>4, <2>0, <4>1, <4>4 DEF BegunWithin
      <4> QED BY <4>3, <4>4
    <3> QED BY <1>7, <3>1
  <2> QED BY <2>1, <2>2
<1>8. EveryWindow'
  <2>1. /\ Cardinality(Recent(a)) < PerIpPerDay
        /\ Cardinality({u \in Recent(a) : now - began[u] < HourLong}) < PerIpPerHour
    <3>1. {u \in Recent(a) : now - began[u] < HourLong} \in SUBSET Visits BY <1>2
    <3>2. /\ Cardinality(Recent(a)) \in Nat
          /\ Cardinality({u \in Recent(a) : now - began[u] < HourLong}) \in Nat
      BY <1>2, <3>1, VisitsFinite
    <3> QED BY <1>1, <3>2 DEF GuardRefuses, Within
  <2>2. {u \in Recent(a) : now - began[u] < DayLong} = Recent(a) BY <1>2
  <2>3. ASSUME NEW b \in Addresses, NEW t \in Nat
        PROVE  /\ Cardinality(BegunWithin(b, t, HourLong)') <= PerIpPerHour
               /\ Cardinality(BegunWithin(b, t, DayLong)') <= PerIpPerDay
    <3>1. /\ Cardinality(BegunWithin(b, t, HourLong)) <= PerIpPerHour
          /\ Cardinality(BegunWithin(b, t, DayLong)) <= PerIpPerDay
      BY DEF WindowInv, EveryWindow
    <3>2. Cardinality(BegunWithin(b, t, HourLong)') <= PerIpPerHour BY <1>7, <2>1, <3>1
    <3>3. Cardinality(BegunWithin(b, t, DayLong)') <= PerIpPerDay BY <1>7, <2>1, <2>2, <3>1
    <3> QED BY <3>2, <3>3
  <2> QED BY <2>3 DEF EveryWindow
<1> QED BY <1>3, <1>6, <1>8 DEF WindowInv

LEMMA WindowInvStep == WindowInv /\ GuardTypeOK' /\ [GuardNext]_guardVars => WindowInv'
<1> SUFFICES ASSUME WindowInv, GuardTypeOK', [GuardNext]_guardVars PROVE WindowInv'
    OBVIOUS
<1> USE GuardConstants
<1>0. /\ starts \in [Addresses -> SUBSET Visits] /\ began \in [Visits -> Nat] /\ now \in Nat
      /\ visit \in [Visits -> [at : {"none", "open", "refused", "over"}, address : Addresses \cup {"none"}]]
  BY DEF WindowInv, WindowTypeOK, GuardTypeOK
<1>1. \A a \in Addresses : /\ Recent(a) \in SUBSET Visits /\ Recent(a) \subseteq starts[a]
                           /\ \A v \in starts[a] : now < began[v] + DayLong => v \in Recent(a)
  BY <1>0 DEF Recent, Within
<1>2. CASE PruneStarts
  <2>1. starts' = [a \in Addresses |-> Recent(a)] /\ UNCHANGED <<visit, began, now>>
    BY <1>2 DEF PruneStarts, Prune
  <2>2. \A a \in Addresses : VisitsFrom(a)' = VisitsFrom(a) BY <2>1 DEF VisitsFrom
  <2> QED BY <1>0, <1>1, <2>1, <2>2, NobodyBegins
<1>3. CASE GuardTick
  <2>1. now' = now + 1 /\ UNCHANGED <<starts, visit, began>> BY <1>3 DEF GuardTick
  <2>2. \A a \in Addresses : VisitsFrom(a)' = VisitsFrom(a) BY <2>1 DEF VisitsFrom
  <2> QED BY <1>0, <2>1, <2>2, NobodyBegins
<1>4. ASSUME NEW v \in Visits, VisitCloses(v) PROVE WindowInv'
  <2>1. visit[v].at = "open" /\ visit' = [visit EXCEPT ![v].at = "over"] /\ UNCHANGED <<starts, began, now>>
    BY <1>4 DEF VisitCloses
  <2>2. \A a \in Addresses : VisitsFrom(a)' = VisitsFrom(a) BY <1>0, <2>1 DEF VisitsFrom
  <2> QED BY <1>0, <2>1, <2>2, NobodyBegins
<1>5. ASSUME NEW v \in Visits, NEW a \in Addresses, AdmitVisit(v, a) PROVE WindowInv'
  <2>1. CASE visit'[v].at = "open" BY <1>5, <2>1, VisitBegins
  <2>2. CASE visit'[v].at # "open"
    <3>1. /\ visit[v].at = "none" /\ visit' = [visit EXCEPT ![v] = [at |-> "refused", address |-> a]]
          /\ starts' = starts \/ starts' = [starts EXCEPT ![a] = Recent(a)]
          /\ UNCHANGED <<began, now>>
      BY <1>0, <1>5, <2>2 DEF AdmitVisit
    <3>2. \A b \in Addresses : VisitsFrom(b)' = VisitsFrom(b) BY <1>0, <3>1 DEF VisitsFrom
    <3>3. /\ starts' \in [Addresses -> SUBSET Visits]
          /\ \A b \in Addresses : \A u \in starts[b] : now < began[u] + DayLong => u \in starts'[b]
      BY <1>0, <1>1, <3>1
    <3> QED BY <1>0, <3>1, <3>2, <3>3, NobodyBegins
  <2> QED BY <2>1, <2>2
<1>6. CASE UNCHANGED guardVars
  <2>1. UNCHANGED <<starts, visit, began, now>> BY <1>6 DEF guardVars
  <2>2. \A a \in Addresses : VisitsFrom(a)' = VisitsFrom(a) BY <2>1 DEF VisitsFrom
  <2> QED BY <1>0, <2>1, <2>2, NobodyBegins
<1> QED BY <1>2, <1>3, <1>4, <1>5, <1>6 DEF GuardNext

-----------------------------------------------------------------------------
(* The proof of ShownOnce: an entry holds the key that was issued for its  *)
(* purchase last and no other has it; its raw key is there as long as it   *)
(* was not shown.                                                          *)
PayTypeOK ==
  /\ checkout \in [Checkouts -> [key : 0 .. MaxKeys, raw : 0 .. MaxKeys, created : Nat]]
  /\ keyCount \in 0 .. MaxKeys /\ shown \in [1 .. MaxKeys -> Nat]
  /\ delivered \in [Checkouts -> [times : Nat, at : Nat]]
  /\ clock \in Nat /\ restarted \in BOOLEAN

EntryKeeps(c) ==
  /\ checkout[c].raw \in {0, checkout[c].key} /\ checkout[c].key <= keyCount
  /\ checkout[c].key # 0 => shown[checkout[c].key] = IF checkout[c].raw = 0 THEN 1 ELSE 0
  /\ delivered[c].times > 0 /\ ~ restarted =>
       \/ checkout[c].key # 0 /\ checkout[c].created = delivered[c].at
       \/ clock > delivered[c].at + CheckoutTtl
EntriesKeep == \A c \in Checkouts : EntryKeeps(c)
KeysApart == \A c, d \in Checkouts : c # d /\ checkout[c].key # 0 => checkout[c].key # checkout[d].key
ShownBound == \A k \in 1 .. MaxKeys : shown[k] <= 1 /\ (k > keyCount => shown[k] = 0)

PayInv == PayTypeOK /\ EntriesKeep /\ KeysApart /\ ShownBound

LEMMA PayInvInit == GatewayInit => PayInv
<1> SUFFICES ASSUME GatewayInit PROVE PayInv
    OBVIOUS
<1> USE DEF GatewayInit, NoEntry
<1>0. MaxKeys \in Nat BY GatewayAssumption DEF GatewayAssumption
<1>1. PayTypeOK
  <2>1. checkout \in [Checkouts -> [key : 0 .. MaxKeys, raw : 0 .. MaxKeys, created : Nat]] BY <1>0
  <2>2. delivered \in [Checkouts -> [times : Nat, at : Nat]] OBVIOUS
  <2>3. shown \in [1 .. MaxKeys -> Nat] OBVIOUS
  <2>4. keyCount \in 0 .. MaxKeys /\ clock \in Nat BY <1>0
  <2>5. restarted \in BOOLEAN OBVIOUS
  <2> HIDE DEF GatewayInit
  <2> QED BY <2>1, <2>2, <2>3, <2>4, <2>5 DEF PayTypeOK
<1>2. EntriesKeep BY DEF EntriesKeep, EntryKeeps
<1>3. KeysApart BY DEF KeysApart
<1>4. ShownBound BY DEF ShownBound
<1> QED BY <1>1, <1>2, <1>3, <1>4 DEF PayInv

LEMMA PayInvImplies == PayInv => ShownOnce
  BY DEF PayInv, PayTypeOK, EntriesKeep, EntryKeeps, ShownBound, ShownOnce

LEMMA PayInvStep == PayInv /\ [EncNext \/ PayNext]_gatewayVars => PayInv'
<1> SUFFICES ASSUME PayInv, [EncNext \/ PayNext]_gatewayVars PROVE PayInv'
    OBVIOUS
<1>0. MaxKeys \in Nat /\ CheckoutTtl \in Nat BY GatewayAssumption DEF GatewayAssumption
<1> USE <1>0 DEF PayInv
<1>1. ASSUME NEW c \in Checkouts, Webhook(c) PROVE PayInv'
  <2>1. PayTypeOK'
    <3>1. keyCount + 1 \in 0 .. MaxKeys /\ keyCount' = keyCount + 1 BY <1>1 DEF Webhook, PayTypeOK
    <3>2. delivered' \in [Checkouts -> [times : Nat, at : Nat]] BY <1>1 DEF Webhook, PayTypeOK
    <3>3. checkout' \in [Checkouts -> [key : 0 .. MaxKeys, raw : 0 .. MaxKeys, created : Nat]]
      BY <1>1, <3>1 DEF Webhook, PayTypeOK
    <3> QED BY <1>1, <3>1, <3>2, <3>3 DEF Webhook, PayTypeOK
  <2>2. EntriesKeep'
    BY <1>1 DEF Webhook, PayTypeOK, EntriesKeep, EntryKeeps, ShownBound
  <2>3. KeysApart'
    <3>1. \A d \in Checkouts : checkout'[d].key = IF d = c THEN keyCount + 1 ELSE checkout[d].key
      BY <1>1 DEF Webhook, PayTypeOK
    <3>2. \A d \in Checkouts : checkout[d].key \in Nat /\ checkout[d].key <= keyCount
      BY DEF PayTypeOK, EntriesKeep, EntryKeeps
    <3>3. keyCount \in Nat BY DEF PayTypeOK
    <3> QED BY <3>1, <3>2, <3>3 DEF KeysApart
  <2>4. ShownBound'
    <3>1. shown' = shown /\ keyCount' = keyCount + 1 /\ keyCount \in Nat BY <1>1 DEF Webhook, PayTypeOK
    <3> QED BY <3>1 DEF ShownBound
  <2> QED BY <2>1, <2>2, <2>3, <2>4
<1>2. ASSUME NEW c \in Checkouts, StripeKey(c) PROVE PayInv'
  <2>1. PayTypeOK'
    <3>1. checkout' \in [Checkouts -> [key : 0 .. MaxKeys, raw : 0 .. MaxKeys, created : Nat]]
      <4>1. checkout[c] \in [key : 0 .. MaxKeys, raw : 0 .. MaxKeys, created : Nat] BY DEF PayTypeOK
      <4>2. [checkout[c] EXCEPT !.raw = 0] \in [key : 0 .. MaxKeys, raw : 0 .. MaxKeys, created : Nat]
        BY <4>1
      <4>3. checkout' = [checkout EXCEPT ![c] = [checkout[c] EXCEPT !.raw = 0]]
        BY <1>2 DEF StripeKey, Displayed, PayTypeOK
      <4> QED BY <4>2, <4>3 DEF PayTypeOK
    <3>2. shown' \in [1 .. MaxKeys -> Nat]
      <4>1. checkout[c].raw \in 0 .. MaxKeys BY DEF PayTypeOK
      <4>2. CASE checkout[c].raw = 0 BY <1>2, <4>2 DEF StripeKey, PayTypeOK
      <4>3. CASE checkout[c].raw # 0
        <5>1. checkout[c].raw \in 1 .. MaxKeys BY <1>0, <4>1, <4>3
        <5>2. shown' = [shown EXCEPT ![checkout[c].raw] = @ + 1] BY <1>2, <4>3 DEF StripeKey
        <5> QED BY <5>1, <5>2 DEF PayTypeOK
      <4> QED BY <4>2, <4>3
    <3> QED BY <1>2, <3>1, <3>2 DEF StripeKey, PayTypeOK
  <2>2. EntriesKeep'
    BY <1>2 DEF StripeKey, Displayed, PayTypeOK, EntriesKeep, EntryKeeps, KeysApart
  <2>3. KeysApart' BY <1>2 DEF StripeKey, Displayed, PayTypeOK, KeysApart
  <2>4. ShownBound'
    BY <1>2 DEF StripeKey, Displayed, PayTypeOK, EntriesKeep, EntryKeeps, ShownBound
  <2> QED BY <2>1, <2>2, <2>3, <2>4
<1>3. ASSUME Purge PROVE PayInv'
  <2>1. PayTypeOK' BY <1>3 DEF Purge, NoEntry, PayTypeOK
  <2>2. EntriesKeep' BY <1>3 DEF Purge, NoEntry, PayTypeOK, EntriesKeep, EntryKeeps
  <2>3. KeysApart' BY <1>3 DEF Purge, NoEntry, PayTypeOK, KeysApart
  <2>4. ShownBound' BY <1>3 DEF Purge, ShownBound
  <2> QED BY <2>1, <2>2, <2>3, <2>4
<1>4. ASSUME RestartGateway PROVE PayInv'
  BY <1>4 DEF RestartGateway, NoEntry, PayTypeOK, EntriesKeep, EntryKeeps, KeysApart, ShownBound
<1>5. ASSUME UNCHANGED payVars PROVE PayInv'
  BY <1>5 DEF payVars, PayTypeOK, EntriesKeep, EntryKeeps, KeysApart, ShownBound
<1>6. EncNext => UNCHANGED payVars
  BY DEF EncNext, EncodeStep, ClientLeaves, EncoderWrites, AdmitEncode, WorkerFails, WorkerAnswers, PassedOn,
         SourceEnds, SourceBreaks, EncoderExits, EncodeEnds, EncodeOver, PlaceGiven, EncBecomes
<1> QED BY <1>1, <1>2, <1>3, <1>4, <1>5, <1>6 DEF PayNext, gatewayVars

\* For any number of purchases, webhooks and questions: no raw key is shown twice, and what
\* was bought can be shown once (checkoutSessions of gateway/server.js).
THEOREM KeysShownOnce == GatewaySpec => []ShownOnce
  BY PayInvInit, PayInvStep, PayInvImplies, PTL DEF GatewaySpec

-----------------------------------------------------------------------------
(* The proof of EncodersCounted: an encoder that runs is of a request that *)
(* is being encoded and gave nothing back yet; what is given back early is *)
(* a request whose client left.                                            *)
EncRecords == [at : {"new", "fetch", "passing", "encoding", "over"}, src : {"none", "open", "ended", "broken"},
               ff : {"none", "running", "killed", "zero", "failed"}, left : BOOLEAN, sent : BOOLEAN,
               released : BOOLEAN, answer : {"none", "clean", "destroyed", "worker", "502", "503"}]
RunsInPlace(e) == /\ e.ff = "running" => e.at = "encoding" /\ ~ e.released
                  /\ e.released => e.left \/ e.at = "over"
                  /\ e.left => e.at # "new"
Places == {r \in Encodes : HasPlace(enc[r])}
EncInv ==
  /\ enc \in [Encodes -> EncRecords] /\ \A r \in Encodes : RunsInPlace(enc[r])
  /\ activeEncoders \in Nat /\ activeEncoders <= MaxEncoders
  /\ activeEncoders = Cardinality(Places)

LEMMA PlacesFinite == IsFiniteSet(Places) /\ IsFiniteSet(Places')
  BY GatewayAssumption, FS_Subset DEF GatewayAssumption, Places

LEMMA EncInvInit == GatewayInit => EncInv
<1> SUFFICES ASSUME GatewayInit PROVE EncInv
    OBVIOUS
<1>1. enc \in [Encodes -> EncRecords] /\ \A r \in Encodes : RunsInPlace(enc[r])
  BY DEF GatewayInit, FirstEnc, EncRecords, RunsInPlace
<1>2. Places = {} BY DEF GatewayInit, FirstEnc, Places, HasPlace
<1> QED BY <1>1, <1>2, FS_EmptySet, GatewayAssumption DEF GatewayInit, EncInv, GatewayAssumption

LEMMA EncInvImplies == EncInv => EncodersCounted
<1> SUFFICES ASSUME EncInv PROVE EncodersCounted
    OBVIOUS
<1> DEFINE Running == {r \in Encodes : enc[r].ff = "running"}
<1>1. Running \subseteq Places BY DEF EncInv, RunsInPlace, Places, HasPlace
<1>2. Cardinality(Running) <= Cardinality(Places) /\ Cardinality(Running) \in Nat
  BY <1>1, PlacesFinite, FS_Subset, FS_CardinalityType
<1>3. MaxEncoders \in Nat BY GatewayAssumption DEF GatewayAssumption
<1> QED BY <1>2, <1>3 DEF EncInv, EncodersCounted, Places

\* What becomes of a request takes a place, gives it back, or neither; the counter follows.
LEMMA EncoderStep ==
  ASSUME EncInv, NEW r \in Encodes, NEW new \in EncRecords, RunsInPlace(new), enc' = [enc EXCEPT ![r] = new],
         \/ HasPlace(new) /\ ~ HasPlace(enc[r]) /\ activeEncoders < MaxEncoders /\ activeEncoders' = activeEncoders + 1
         \/ ~ HasPlace(new) /\ HasPlace(enc[r]) /\ activeEncoders' = activeEncoders - 1
         \/ (HasPlace(new) <=> HasPlace(enc[r])) /\ activeEncoders' = activeEncoders
  PROVE  EncInv'
<1>0. MaxEncoders \in Nat BY GatewayAssumption DEF GatewayAssumption
<1>1. enc' \in [Encodes -> EncRecords] /\ \A q \in Encodes : RunsInPlace(enc'[q])
  BY DEF EncInv
<1>2. \A q \in Encodes : HasPlace(enc'[q]) <=> IF q = r THEN HasPlace(new) ELSE HasPlace(enc[q])
  BY DEF EncInv
<1>3. Cardinality(Places) \in Nat /\ Cardinality(Places') \in Nat BY PlacesFinite, FS_CardinalityType
<1>4. CASE HasPlace(new) /\ ~ HasPlace(enc[r]) /\ activeEncoders < MaxEncoders /\ activeEncoders' = activeEncoders + 1
  <2>1. Places' = Places \cup {r} /\ r \notin Places BY <1>2, <1>4 DEF Places
  <2>2. Cardinality(Places') = Cardinality(Places) + 1 BY <2>1, PlacesFinite, FS_AddElement
  <2> QED BY <1>0, <1>1, <1>4, <2>2 DEF EncInv
<1>5. CASE ~ HasPlace(new) /\ HasPlace(enc[r]) /\ activeEncoders' = activeEncoders - 1
  <2>1. Places' = Places \ {r} /\ r \in Places BY <1>2, <1>5 DEF Places
  <2>2. Cardinality(Places') = Cardinality(Places) - 1 BY <2>1, PlacesFinite, FS_RemoveElement
  <2> QED BY <1>0, <1>1, <1>3, <1>5, <2>2 DEF EncInv
<1>6. CASE (HasPlace(new) <=> HasPlace(enc[r])) /\ activeEncoders' = activeEncoders
  <2>1. Places' = Places BY <1>2, <1>6 DEF Places
  <2> QED BY <1>1, <1>6, <2>1 DEF EncInv
<1> QED BY <1>4, <1>5, <1>6

\* release() of a request whose record becomes new, which holds no place then
LEMMA PlaceIsGiven ==
  ASSUME EncInv, NEW r \in Encodes, NEW new \in EncRecords, new.ff # "running",
         new.left \/ new.at = "over", new.at # "new", enc[r].at \in {"fetch", "passing", "encoding"}, PlaceGiven(r, new)
  PROVE  EncInv'
<1> DEFINE given == [new EXCEPT !.released = TRUE]
<1>1. given \in EncRecords /\ RunsInPlace(given) /\ ~ HasPlace(given) BY DEF EncRecords, RunsInPlace, HasPlace
<1>2. enc' = [enc EXCEPT ![r] = given]
      /\ activeEncoders' = IF HasPlace(enc[r]) THEN activeEncoders - 1 ELSE activeEncoders
  BY DEF PlaceGiven, EncBecomes, HasPlace
<1> HIDE DEF given
<1> QED BY <1>1, <1>2, EncoderStep

LEMMA EncInvStep == EncInv /\ [EncNext \/ PayNext]_gatewayVars => EncInv'
<1> SUFFICES ASSUME EncInv, [EncNext \/ PayNext]_gatewayVars PROVE EncInv'
    OBVIOUS
<1>1. ASSUME NEW r \in Encodes, EncodeStep(r) \/ ClientLeaves(r) \/ EncoderWrites(r) PROVE EncInv'
  <2> DEFINE e == enc[r]
  <2>0. e \in EncRecords /\ RunsInPlace(e) BY DEF EncInv
  <2>1. CASE AdmitEncode(r)
    <3>1. CASE activeEncoders >= MaxEncoders
      <4> DEFINE new == [e EXCEPT !.at = "over", !.answer = "503"]
      <4>1. new \in EncRecords /\ RunsInPlace(new) /\ ~ HasPlace(new) /\ ~ HasPlace(e)
        BY <2>0, <2>1 DEF AdmitEncode, EncRecords, RunsInPlace, HasPlace
      <4>2. enc' = [enc EXCEPT ![r] = new] /\ activeEncoders' = activeEncoders
        BY <2>1, <3>1 DEF AdmitEncode, EncBecomes
      <4> HIDE DEF new
      <4> QED BY <4>1, <4>2, EncoderStep
    <3>2. CASE ~ (activeEncoders >= MaxEncoders)
      <4> DEFINE new == [e EXCEPT !.at = "fetch"]
      <4>1. new \in EncRecords /\ RunsInPlace(new) /\ ~ HasPlace(e) /\ (HasPlace(new) <=> ~ e.released)
        BY <2>0, <2>1 DEF AdmitEncode, EncRecords, RunsInPlace, HasPlace
      <4>2. enc' = [enc EXCEPT ![r] = new] /\ activeEncoders' = activeEncoders + 1
        BY <2>1, <3>2 DEF AdmitEncode, EncBecomes
      <4>3. activeEncoders < MaxEncoders BY <3>2, GatewayAssumption DEF EncInv, GatewayAssumption
      <4>4. ~ e.released BY <2>1, <2>0 DEF AdmitEncode, RunsInPlace
      <4> HIDE DEF new
      <4> QED BY <4>1, <4>2, <4>3, <4>4, EncoderStep
    <3> QED BY <3>1, <3>2
  <2>2. CASE ClientLeaves(r)
    <3> DEFINE new == [e EXCEPT !.left = TRUE, !.ff = Killed(@), !.src = IF @ = "open" THEN "broken" ELSE @]
    <3>1. new \in EncRecords /\ new.ff # "running" /\ new.left /\ new.at = e.at BY <2>0 DEF EncRecords, Killed
    <3>2. e.at \in {"fetch", "passing", "encoding"} /\ PlaceGiven(r, new) BY <2>2 DEF ClientLeaves
    <3> HIDE DEF new
    <3> QED BY <3>1, <3>2, PlaceIsGiven
  <2>3. ASSUME NEW message \in {"none", "clean", "destroyed", "worker", "502"}, EncodeOver(r, message),
               e.at \in {"fetch", "passing", "encoding"}, e.ff # "running"
        PROVE  EncInv'
    <3> DEFINE new == [e EXCEPT !.at = "over", !.answer = IF enc[r].left THEN "none" ELSE message]
    <3>1. new \in EncRecords /\ new.ff # "running" /\ new.at = "over" BY <2>0, <2>3 DEF EncRecords
    <3>2. PlaceGiven(r, new) BY <2>3 DEF EncodeOver
    <3> HIDE DEF new
    <3> QED BY <2>3, <3>1, <3>2, PlaceIsGiven
  <2>4. CASE WorkerFails(r) BY <2>0, <2>3, <2>4 DEF WorkerFails, RunsInPlace
  <2>5. CASE WorkerAnswers(r)
    <3>1. CASE e.left BY <2>0, <2>3, <2>5, <3>1 DEF WorkerAnswers, RunsInPlace
    <3>2. CASE ~ e.left
      <4>1. PICK new \in {[e EXCEPT !.at = "passing"], [e EXCEPT !.at = "encoding", !.src = "open", !.ff = "running"]} :
              enc' = [enc EXCEPT ![r] = new] /\ activeEncoders' = activeEncoders
        BY <2>5, <3>2 DEF WorkerAnswers, EncBecomes
      <4>2. ~ e.released BY <2>0, <2>5, <3>2 DEF WorkerAnswers, RunsInPlace
      <4>3. new \in EncRecords /\ RunsInPlace(new) /\ (HasPlace(new) <=> HasPlace(e))
        BY <2>0, <2>5, <4>1, <4>2 DEF WorkerAnswers, EncRecords, RunsInPlace, HasPlace
      <4> QED BY <4>1, <4>3, EncoderStep
    <3> QED BY <3>1, <3>2
  <2>6. CASE PassedOn(r) BY <2>0, <2>3, <2>6 DEF PassedOn, RunsInPlace
  <2>7. CASE SourceEnds(r) \/ SourceBreaks(r) \/ EncoderWrites(r) \/ EncoderExits(r)
    <3>1. PICK new \in {[e EXCEPT !.src = "ended"], [e EXCEPT !.src = "broken", !.ff = Killed(@)],
                        [e EXCEPT !.sent = TRUE], [e EXCEPT !.ff = "zero"], [e EXCEPT !.ff = "failed"]} :
            enc' = [enc EXCEPT ![r] = new] /\ activeEncoders' = activeEncoders
      BY <2>7 DEF SourceEnds, SourceBreaks, EncoderWrites, EncoderExits, EncBecomes
    <3>2. new \in EncRecords /\ RunsInPlace(new) /\ (HasPlace(new) <=> HasPlace(e))
      BY ZenonT(40), <2>0, <3>1 DEF EncRecords, RunsInPlace, HasPlace, Killed
    <3> QED BY <3>1, <3>2, EncoderStep
  <2>8. CASE EncodeEnds(r) BY <2>0, <2>3, <2>8 DEF EncodeEnds
  <2> QED BY <1>1, <2>1, <2>2, <2>4, <2>5, <2>6, <2>7, <2>8 DEF EncodeStep
<1>2. CASE UNCHANGED encVars BY <1>2 DEF encVars, EncInv, Places
<1>3. PayNext => UNCHANGED encVars BY DEF PayNext, Webhook, StripeKey, Purge, RestartGateway
<1> QED BY <1>1, <1>2, <1>3 DEF EncNext, gatewayVars

\* For any number of requests and places: the counter of the gateway is the number of requests
\* that hold a place, and no more encoders run than there are places (server.js).
THEOREM EncodersBounded == GatewaySpec => []EncodersCounted
  BY EncInvInit, EncInvStep, EncInvImplies, PTL DEF GatewaySpec

-----------------------------------------------------------------------------
(* The proof of RunpodFaithful.  As long as no request came too early, one *)
(* handler is at work at most: it polls its own job, has sent what it has  *)
(* seen, and the flag is up if and only if it was stopped.                 *)

JobRecords == [status : {"none", "IN_PROGRESS", "COMPLETED", "FAILED", "CANCELLED"}, outputs : 0 .. MaxChunks]
LoopRecords == [pc : {"none", "run", "stream", "sleep", "over"}, polled : 0 .. MaxAsks, seen : Nat]
RunpodTyped ==
  /\ cancelled \in BOOLEAN /\ jobId \in 0 .. MaxAsks /\ stopped \in SUBSET Asks
  /\ job \in [Asks -> JobRecords] /\ loop \in [Asks -> LoopRecords]
  /\ sent \in [Asks -> Seq(Asks \X Nat)]
  /\ replied \in [Asks -> {"none", "done", "cancelled", "error"}]

OneAtWork == \A q, r \in Asks : AtWork(q) /\ AtWork(r) => q = r
InOrder(r, n) == [i \in 1 .. n |-> <<r, i>>]
JobMade(r) == job[r].status = "COMPLETED" => job[r].outputs = MaxChunks
Polls(r) == /\ loop[r].pc = "stream" => loop[r].polled = r
            /\ loop[r].pc \in {"stream", "sleep"} => jobId = r
\* unless it is over, seen counts what was sent
SendsInOrder(r) ==
  /\ sent[r] = InOrder(r, Len(sent[r])) /\ Len(sent[r]) <= job[r].outputs
  /\ loop[r].pc # "over" => loop[r].seen = Len(sent[r])
StopsHeard(r) ==
  /\ loop[r].pc = "none" => r \notin stopped
  /\ AtWork(r) => (cancelled <=> r \in stopped)
Replies(r) ==
  /\ replied[r] = "done" => Len(sent[r]) = MaxChunks /\ r \notin stopped
  /\ replied[r] = "cancelled" => r \in stopped
  /\ replied[r] # "none" => loop[r].pc = "over"
Served(r) == JobMade(r) /\ Polls(r) /\ SendsInOrder(r) /\ StopsHeard(r) /\ Replies(r)

RunpodInv == /\ crossed \in BOOLEAN
             /\ ~ crossed => RunpodTyped /\ OneAtWork /\ \A r \in Asks : Served(r)

\* What was sent in order goes on in order.
LEMMA InOrderContinues ==
  ASSUME NEW r, NEW n \in Nat, NEW m \in Nat
  PROVE  InOrder(r, n) \o [i \in 1 .. m |-> <<r, n + i>>] = InOrder(r, n + m)
<1> DEFINE s == InOrder(r, n)  t == [i \in 1 .. m |-> <<r, n + i>>]
<1>1. s \in Seq({r} \X Nat) /\ Len(s) = n /\ \A i \in 1 .. n : s[i] = <<r, i>> BY DEF InOrder
<1>2. t \in Seq({r} \X Nat) /\ Len(t) = m /\ \A i \in 1 .. m : t[i] = <<r, n + i>> OBVIOUS
<1> HIDE DEF s, t
<1>3. s \o t \in Seq({r} \X Nat) /\ Len(s \o t) = n + m BY <1>1, <1>2
<1>4. \A i \in 1 .. n + m : (s \o t)[i] = <<r, i>> BY <1>1, <1>2
<1>5. s \o t = [i \in 1 .. n + m |-> <<r, i>>]
  <2> DEFINE u == s \o t
  <2>1. u \in Seq({r} \X Nat) /\ Len(u) = n + m /\ \A i \in 1 .. n + m : u[i] = <<r, i>> BY <1>3, <1>4
  <2> HIDE DEF u
  <2>2. u = [i \in 1 .. Len(u) |-> u[i]] BY <2>1
  <2> SUFFICES u = [i \in 1 .. n + m |-> <<r, i>>] BY DEF u
  <2> QED BY <2>1, <2>2
<1> QED BY <1>5 DEF s, t, InOrder

LEMMA RunpodInvInit == RunpodInit => RunpodInv
<1> SUFFICES ASSUME RunpodInit PROVE RunpodInv
    OBVIOUS
<1>0. MaxAsks \in Nat /\ MaxChunks \in Nat BY RunpodAssumption DEF RunpodAssumption
<1>1. RunpodTyped
  <2>1. job \in [Asks -> JobRecords] BY <1>0 DEF RunpodInit, JobRecords
  <2>2. loop \in [Asks -> LoopRecords] BY <1>0 DEF RunpodInit, LoopRecords
  <2>3. sent \in [Asks -> Seq(Asks \X Nat)] BY DEF RunpodInit
  <2>4. replied \in [Asks -> {"none", "done", "cancelled", "error"}] BY DEF RunpodInit
  <2>5. cancelled \in BOOLEAN BY DEF RunpodInit
  <2>6. jobId \in 0 .. MaxAsks BY <1>0 DEF RunpodInit
  <2>7. stopped \in SUBSET Asks BY DEF RunpodInit
  <2> QED BY <2>1, <2>2, <2>3, <2>4, <2>5, <2>6, <2>7 DEF RunpodTyped
<1>2. OneAtWork BY DEF RunpodInit, OneAtWork, AtWork
<1>3. ASSUME NEW r \in Asks PROVE Served(r)
  BY <1>0 DEF RunpodInit, Served, JobMade, Polls, SendsInOrder, InOrder, StopsHeard, Replies, AtWork
<1> QED BY <1>1, <1>2, <1>3 DEF RunpodInit, RunpodInv

LEMMA RunpodInvImplies == RunpodInv => RunpodFaithful
  BY DEF RunpodInv, Served, SendsInOrder, InOrder, Replies, RunpodFaithful

\* The head of the loop changes where one handler is and what it polls.
LEMMA HeadKeepsTypes ==
  ASSUME RunpodTyped, NEW r \in Asks, NEW id \in 0 .. MaxAsks, LoopHead(r, id)
  PROVE  loop' \in [Asks -> LoopRecords]
<1>1. CASE cancelled
  <2> DEFINE new == [loop[r] EXCEPT !.pc = "over"]
  <2>1. loop' = [loop EXCEPT ![r] = new] BY <1>1 DEF LoopHead, RunpodTyped
  <2>2. loop[r] \in LoopRecords BY DEF RunpodTyped
  <2>3. new \in LoopRecords BY <2>2 DEF LoopRecords
  <2> HIDE DEF new
  <2> QED BY <2>1, <2>3 DEF RunpodTyped
<1>2. CASE ~ cancelled
  <2> DEFINE new == [loop[r] EXCEPT !.pc = "stream", !.polled = id]
  <2>1. loop' = [loop EXCEPT ![r] = new] BY <1>2 DEF LoopHead, RunpodTyped
  <2>2. loop[r] \in LoopRecords BY DEF RunpodTyped
  <2>3. new \in LoopRecords BY <2>2 DEF LoopRecords
  <2> HIDE DEF new
  <2> QED BY <2>1, <2>3 DEF RunpodTyped
<1> QED BY <1>1, <1>2

LEMMA HeadDoes ==
  ASSUME RunpodTyped, NEW r \in Asks, NEW id, LoopHead(r, id)
  PROVE  /\ \A q \in Asks : q # r => loop'[q] = loop[q]
         /\ loop'[r].seen = loop[r].seen /\ loop'[r].pc = IF cancelled THEN "over" ELSE "stream"
         /\ loop'[r].pc = "stream" => loop'[r].polled = id
<1>0. loop[r] \in LoopRecords BY DEF RunpodTyped
<1>1. CASE cancelled BY <1>0, <1>1 DEF RunpodTyped, LoopHead, LoopRecords
<1>2. CASE ~ cancelled BY <1>0, <1>2 DEF RunpodTyped, LoopHead, LoopRecords
<1> QED BY <1>1, <1>2

LEMMA RunpodInvStep == RunpodInv /\ [RunpodNext]_runpodVars => RunpodInv'
<1> SUFFICES ASSUME RunpodInv, [RunpodNext]_runpodVars PROVE RunpodInv'
    OBVIOUS
<1>0. MaxAsks \in Nat /\ MaxChunks \in Nat BY RunpodAssumption DEF RunpodAssumption
<1>a. crossed' \in BOOLEAN /\ (crossed => crossed')
  BY DEF RunpodInv, runpodVars, RunpodNext, HandlerStep, CancelRunpod, Synthesize, Started, FetchRaises, Streamed,
         Woken, MakeOutput, EndJob
<1> SUFFICES ASSUME ~ crossed, ~ crossed' PROVE RunpodTyped' /\ OneAtWork' /\ \A q \in Asks : Served(q)'
    BY <1>a DEF RunpodInv
<1>b. RunpodTyped /\ OneAtWork /\ \A q \in Asks : Served(q) BY DEF RunpodInv
<1> USE <1>0, <1>b
<1>1. ASSUME NEW r \in Asks, Synthesize(r) PROVE RunpodTyped' /\ OneAtWork' /\ \A q \in Asks : Served(q)'
  <2>1. RunpodTyped' BY <1>1 DEF Synthesize, RunpodTyped, LoopRecords
  <2>2. \A q \in Asks : ~ AtWork(q) BY <1>1 DEF Synthesize
  <2>3. OneAtWork' BY <1>1, <2>2 DEF Synthesize, RunpodTyped, OneAtWork, AtWork
  <2>4. ASSUME NEW q \in Asks PROVE Served(q)'
    BY <1>1, <2>2 DEF Synthesize, RunpodTyped, Served, JobMade, Polls, SendsInOrder, StopsHeard, Replies, AtWork
  <2> QED BY <2>1, <2>3, <2>4
<1>2. ASSUME NEW r \in Asks, Started(r) PROVE RunpodTyped' /\ OneAtWork' /\ \A q \in Asks : Served(q)'
  <2>0. AtWork(r) /\ \A q \in Asks : q # r => ~ AtWork(q) BY <1>2 DEF Started, OneAtWork, AtWork
  <2>1. RunpodTyped'
    <3>1. job' \in [Asks -> JobRecords] BY <1>2 DEF Started, RunpodTyped, JobRecords
    <3>2. r \in 0 .. MaxAsks BY DEF Asks
    <3>3. loop' \in [Asks -> LoopRecords] BY <1>2, <3>2, HeadKeepsTypes DEF Started
    <3> QED BY <1>2, <3>1, <3>2, <3>3 DEF Started, RunpodTyped
  <2>2. OneAtWork' BY <1>2, <2>0 DEF Started, LoopHead, RunpodTyped, OneAtWork, AtWork
  <2>3. ASSUME NEW q \in Asks PROVE Served(q)'
    <3>1. /\ \A p \in Asks : p # r => loop'[p] = loop[p]
          /\ loop'[r].seen = loop[r].seen /\ loop'[r].pc = IF cancelled THEN "over" ELSE "stream"
          /\ loop'[r].pc = "stream" => loop'[r].polled = r
      BY <1>2, HeadDoes DEF Started
    <3>2. jobId' = r /\ UNCHANGED <<cancelled, sent, replied, stopped>> /\ loop[r].pc = "run" BY <1>2 DEF Started
    <3>3. /\ \A p \in Asks : job'[p].outputs = job[p].outputs
          /\ \A p \in Asks : job'[p].status \in {job[p].status, "IN_PROGRESS"}
      BY <1>2 DEF Started, RunpodTyped, JobRecords
    <3> QED BY <2>0, <3>1, <3>2, <3>3 DEF Served, JobMade, Polls, SendsInOrder, StopsHeard, Replies, AtWork
  <2> QED BY <2>1, <2>2, <2>3
<1>3. ASSUME NEW r \in Asks, FetchRaises(r) PROVE RunpodTyped' /\ OneAtWork' /\ \A q \in Asks : Served(q)'
  <2>1. RunpodTyped'
    <3>1. loop' \in [Asks -> LoopRecords] BY <1>3 DEF FetchRaises, HandlerOver, RunpodTyped, LoopRecords
    <3> QED BY <1>3, <3>1 DEF FetchRaises, HandlerOver, RunpodTyped
  <2>2. OneAtWork' BY <1>3 DEF FetchRaises, HandlerOver, RunpodTyped, OneAtWork, AtWork
  <2>3. ASSUME NEW q \in Asks PROVE Served(q)'
    BY <1>3 DEF FetchRaises, HandlerOver, RunpodTyped, Served, JobMade, Polls, SendsInOrder, StopsHeard, Replies, AtWork
  <2> QED BY <2>1, <2>2, <2>3
<1>4. ASSUME NEW r \in Asks, Streamed(r) PROVE RunpodTyped' /\ OneAtWork' /\ \A q \in Asks : Served(q)'
  <2> DEFINE new == [i \in 1 .. job[r].outputs - loop[r].seen |-> <<r, loop[r].seen + i>>]
             m == job[r].outputs - loop[r].seen
  <2>0. /\ loop[r].polled = r /\ AtWork(r)
        /\ loop[r].seen = Len(sent[r]) /\ sent[r] = InOrder(r, Len(sent[r])) /\ Len(sent[r]) <= job[r].outputs
    BY <1>4 DEF Streamed, Served, Polls, SendsInOrder, AtWork
  <2>1. m \in Nat /\ Len(sent[r]) \in Nat /\ job[r].outputs \in 0 .. MaxChunks BY <2>0 DEF RunpodTyped, JobRecords
  <2>2. NewOutputs(r) = new /\ Len(new) = m /\ new \in Seq(Asks \X Nat)
    BY <2>0, <2>1 DEF NewOutputs
  <2>3. sent[r] \o new = InOrder(r, job[r].outputs) /\ sent[r] \o new \in Seq(Asks \X Nat)
    <3>1. InOrder(r, Len(sent[r])) \o [i \in 1 .. m |-> <<r, Len(sent[r]) + i>>] = InOrder(r, Len(sent[r]) + m)
      BY <2>1, InOrderContinues
    <3>2. Len(sent[r]) + m = job[r].outputs BY <2>0, <2>1
    <3>3. sent[r] \o new = InOrder(r, job[r].outputs) BY <2>0, <3>1, <3>2
    <3>4. sent[r] \in Seq(Asks \X Nat) BY DEF RunpodTyped
    <3>5. sent[r] \o new \in Seq(Asks \X Nat)
      <4> HIDE DEF new
      <4> QED BY <2>2, <3>4
    <3> QED BY <3>3, <3>5
  <2>4. Len(InOrder(r, job[r].outputs)) = job[r].outputs BY <2>1 DEF InOrder
  <2>5. sent' = [sent EXCEPT ![r] = InOrder(r, job[r].outputs)] BY <1>4, <2>2, <2>3 DEF Streamed
  <2>6. UNCHANGED <<cancelled, jobId, job, stopped>> BY <1>4 DEF Streamed
  <2>7. \/ /\ loop' = [loop EXCEPT ![r].pc = "sleep", ![r].seen = job[r].outputs] /\ UNCHANGED replied
        \/ /\ loop' = [loop EXCEPT ![r].pc = "over"]
           /\ \E message \in {"done", "cancelled", "error"} :
                /\ replied' = [replied EXCEPT ![r] = message]
                /\ message = "done" => ~ cancelled /\ job[r].status = "COMPLETED"
                /\ message = "cancelled" => cancelled
    <3>1. CASE job[r].status = "IN_PROGRESS"
      <4>1. loop' = [loop EXCEPT ![r].pc = "sleep", ![r].seen = loop[r].seen + m] /\ UNCHANGED replied
        BY <1>4, <2>0, <2>2, <3>1 DEF Streamed
      <4>2. loop[r].seen + m = job[r].outputs BY <2>0, <2>1
      <4> QED BY <4>1, <4>2
    <3>2. CASE job[r].status # "IN_PROGRESS"
      BY <1>4, <2>0, <3>2 DEF Streamed, HandlerOver
    <3> QED BY <3>1, <3>2
  <2> HIDE DEF new, m
  <2>8. RunpodTyped'
    <3>1. sent' \in [Asks -> Seq(Asks \X Nat)] BY <2>3, <2>5 DEF RunpodTyped
    <3>2. loop' \in [Asks -> LoopRecords]
      <4>1. loop[r] \in LoopRecords BY DEF RunpodTyped
      <4>2. /\ [loop[r] EXCEPT !.pc = "over"] \in LoopRecords
            /\ [loop[r] EXCEPT !.pc = "sleep", !.seen = job[r].outputs] \in LoopRecords
        <5>1. ASSUME NEW k \in Nat PROVE [loop[r] EXCEPT !.pc = "sleep", !.seen = k] \in LoopRecords
          BY <4>1 DEF LoopRecords
        <5>2. [loop[r] EXCEPT !.pc = "over"] \in LoopRecords BY <4>1 DEF LoopRecords
        <5>3. job[r].outputs \in Nat BY <2>1
        <5> QED BY <5>1, <5>2, <5>3
      <4>3. \/ loop' = [loop EXCEPT ![r] = [loop[r] EXCEPT !.pc = "over"]]
            \/ loop' = [loop EXCEPT ![r] = [loop[r] EXCEPT !.pc = "sleep", !.seen = job[r].outputs]]
        BY <2>7 DEF RunpodTyped
      <4> QED BY <4>2, <4>3 DEF RunpodTyped
    <3>3. replied' \in [Asks -> {"none", "done", "cancelled", "error"}] BY <2>7 DEF RunpodTyped
    <3> QED BY <2>6, <3>1, <3>2, <3>3 DEF RunpodTyped
  <2>9. OneAtWork' BY <2>0, <2>7 DEF RunpodTyped, OneAtWork, AtWork
  <2>10. ASSUME NEW q \in Asks PROVE Served(q)'
    <3>1. CASE q # r
      BY <2>5, <2>6, <2>7, <3>1 DEF RunpodTyped, Served, JobMade, Polls, SendsInOrder, StopsHeard, Replies, AtWork
    <3>2. CASE q = r
      <4>1. sent'[r] = InOrder(r, job[r].outputs) /\ Len(sent'[r]) = job[r].outputs
        BY <2>4, <2>5 DEF RunpodTyped
      <4>2. jobId = r BY <1>4 DEF Streamed, Served, Polls
      <4>3. loop[r] \in LoopRecords /\ loop[r].pc = "stream" BY <1>4 DEF RunpodTyped, Streamed
      <4>4. /\ loop'[r].pc \in {"sleep", "over"} /\ (loop'[r].pc = "sleep" => loop'[r].seen = job[r].outputs)
            /\ replied'[r] = "done" => ~ cancelled /\ job[r].status = "COMPLETED"
            /\ replied'[r] = "cancelled" => cancelled
            /\ replied'[r] # "none" => loop'[r].pc = "over"
        BY <2>7, <4>3 DEF RunpodTyped, LoopRecords, Served, Replies
      <4>5. JobMade(r)' /\ Polls(r)' BY <2>6, <4>2, <4>4 DEF Served, JobMade, Polls
      <4>6. SendsInOrder(r)' BY <2>1, <2>6, <4>1, <4>4 DEF SendsInOrder, InOrder
      <4>7. StopsHeard(r)' BY <2>0, <2>6, <4>4 DEF Served, StopsHeard, AtWork
      <4>8. Replies(r)' BY <2>0, <2>6, <4>1, <4>4 DEF Served, JobMade, StopsHeard, Replies
      <4> QED BY <3>2, <4>5, <4>6, <4>7, <4>8 DEF Served
    <3> QED BY <3>1, <3>2
  <2> QED BY <2>8, <2>9, <2>10
<1>5. ASSUME NEW r \in Asks, Woken(r) PROVE RunpodTyped' /\ OneAtWork' /\ \A q \in Asks : Served(q)'
  <2>1. RunpodTyped'
    <3>0. jobId \in 0 .. MaxAsks BY DEF RunpodTyped
    <3>1. loop' \in [Asks -> LoopRecords] BY <1>5, <3>0, HeadKeepsTypes DEF Woken
    <3> QED BY <1>5, <3>1 DEF Woken, RunpodTyped
  <2>2. OneAtWork' BY <1>5 DEF Woken, LoopHead, RunpodTyped, OneAtWork, AtWork
  <2>3. ASSUME NEW q \in Asks PROVE Served(q)'
    <3>0. jobId = r BY <1>5 DEF Woken, Served, Polls
    <3>1. /\ \A p \in Asks : p # r => loop'[p] = loop[p]
          /\ loop'[r].seen = loop[r].seen /\ loop'[r].pc = IF cancelled THEN "over" ELSE "stream"
          /\ loop'[r].pc = "stream" => loop'[r].polled = r
      BY <1>5, <3>0, HeadDoes DEF Woken
    <3>2. loop[r].pc = "sleep" /\ UNCHANGED <<cancelled, jobId, job, sent, replied, stopped>> BY <1>5 DEF Woken
    <3> QED BY <3>0, <3>1, <3>2 DEF Served, JobMade, Polls, SendsInOrder, StopsHeard, Replies, AtWork
  <2> QED BY <2>1, <2>2, <2>3
<1>6. ASSUME CancelRunpod PROVE RunpodTyped' /\ OneAtWork' /\ \A q \in Asks : Served(q)'
  <2>0. jobId # 0 => jobId \in Asks BY DEF RunpodTyped, Asks
  <2>1. RunpodTyped'
    <3>1. job' \in [Asks -> JobRecords] BY ZenonT(40), <1>6, <2>0 DEF CancelRunpod, RunpodTyped, JobRecords
    <3> QED BY <1>6, <3>1 DEF CancelRunpod, RunpodTyped
  <2>2. OneAtWork' BY <1>6 DEF CancelRunpod, OneAtWork, AtWork
  <2>3. ASSUME NEW q \in Asks PROVE Served(q)'
    <3>1. /\ \A p \in Asks : job'[p].outputs = job[p].outputs
          /\ \A p \in Asks : job'[p].status \in {job[p].status, "CANCELLED"}
      <4>1. CASE UNCHANGED job BY <4>1
      <4>2. CASE jobId # 0 /\ job' = [job EXCEPT ![jobId].status = "CANCELLED"]
        BY <2>0, <4>2 DEF RunpodTyped, JobRecords
      <4> QED BY <1>6, <4>1, <4>2 DEF CancelRunpod
    <3>2. /\ UNCHANGED <<jobId, loop, sent, replied>> /\ cancelled' = TRUE
          /\ stopped' = stopped \cup {p \in Asks : AtWork(p)}
      BY <1>6 DEF CancelRunpod
    <3> QED BY <3>1, <3>2 DEF Served, JobMade, Polls, SendsInOrder, StopsHeard, Replies, AtWork
  <2> QED BY <2>1, <2>2, <2>3
<1>7. ASSUME NEW r \in Asks, MakeOutput(r) \/ EndJob(r) PROVE RunpodTyped' /\ OneAtWork' /\ \A q \in Asks : Served(q)'
  <2>1. RunpodTyped'
    <3>1. CASE MakeOutput(r)
      <4>1. job[r] \in JobRecords BY DEF RunpodTyped
      <4>2. job[r].outputs + 1 \in 0 .. MaxChunks BY <3>1, <4>1 DEF MakeOutput, JobRecords
      <4>3. job' \in [Asks -> JobRecords] BY <3>1, <4>2 DEF MakeOutput, RunpodTyped, JobRecords
      <4> QED BY <3>1, <4>3 DEF MakeOutput, RunpodTyped
    <3>2. CASE EndJob(r)
      <4>1. job' \in [Asks -> JobRecords] BY ZenonT(40), <3>2 DEF EndJob, RunpodTyped, JobRecords
      <4> QED BY <3>2, <4>1 DEF EndJob, RunpodTyped
    <3> QED BY <1>7, <3>1, <3>2
  <2>2. OneAtWork' BY <1>7 DEF MakeOutput, EndJob, OneAtWork, AtWork
  <2>3. ASSUME NEW q \in Asks PROVE Served(q)'
    <3>1. job[q] \in JobRecords /\ job[r] \in JobRecords BY DEF RunpodTyped
    <3>2. /\ job[q].outputs <= job'[q].outputs
          /\ job'[q].status = "COMPLETED" => job'[q].outputs = MaxChunks
      <4>1. CASE q # r BY <1>7, <3>1, <4>1 DEF MakeOutput, EndJob, RunpodTyped, JobRecords, Served, JobMade
      <4>2. CASE q = r /\ MakeOutput(r) BY <3>1, <4>2 DEF MakeOutput, RunpodTyped, JobRecords
      <4>3. CASE q = r /\ EndJob(r)
        <5>1. job[r].outputs \in Nat BY <3>1 DEF JobRecords
        <5>2. CASE job' = [job EXCEPT ![r].status = "FAILED"]
          BY <3>1, <4>3, <5>1, <5>2 DEF RunpodTyped, JobRecords
        <5>3. CASE job[r].outputs = MaxChunks /\ job' = [job EXCEPT ![r].status = "COMPLETED"]
          BY <3>1, <4>3, <5>1, <5>3 DEF RunpodTyped, JobRecords
        <5> QED BY <4>3, <5>2, <5>3 DEF EndJob
      <4> QED BY <1>7, <4>1, <4>2, <4>3
    <3>3. job'[q].outputs \in Nat BY <2>1 DEF RunpodTyped, JobRecords
    <3>4. UNCHANGED <<cancelled, jobId, loop, sent, replied, stopped>> BY <1>7 DEF MakeOutput, EndJob
    <3>5. Len(sent[q]) \in Nat /\ job[q].outputs \in Nat BY <3>1 DEF RunpodTyped, JobRecords
    <3>6. SendsInOrder(q)'
      <4>1. SendsInOrder(q) BY DEF Served
      <4>2. Len(sent[q]) <= job'[q].outputs BY <3>2, <3>3, <3>5, <4>1 DEF SendsInOrder
      <4> QED BY <3>4, <4>1, <4>2 DEF SendsInOrder, InOrder
    <3> QED BY <3>2, <3>4, <3>6 DEF Served, JobMade, Polls, StopsHeard, Replies, AtWork
  <2> QED BY <2>1, <2>2, <2>3
<1>8. CASE UNCHANGED runpodVars
  BY <1>8 DEF runpodVars, RunpodTyped, OneAtWork, AtWork, Served, JobMade, Polls, SendsInOrder, StopsHeard, Replies
<1> QED BY <1>1, <1>2, <1>3, <1>4, <1>5, <1>6, <1>7, <1>8 DEF RunpodNext, HandlerStep

\* For any requests, stops and failures: a client that asks when the last request is over
\* hears its own audio, once and in order, and "done" only after all of it (runpod-adapter.js).
THEOREM AudioInOrder == RunpodSpec => []RunpodFaithful
  BY RunpodInvInit, RunpodInvStep, RunpodInvImplies, PTL DEF RunpodSpec

-----------------------------------------------------------------------------
(* The proof of PoolCounts and SpokenOnce: the leases are those of the     *)
(* sentences that connect or were asked and of the prewarms; the warm      *)
(* sockets of all lines, as pairs of a line and a place in its list, are   *)
(* counted with them.                                                      *)
Warmed  == [closing : BOOLEAN, work : {<<>>}]
Tasks   == {<<>>} \cup {<<s>> : s \in Sentences}
Sockets == [closing : BOOLEAN, work : Tasks]
SentencePlaces  == {"none", "waits", "connecting", "asked", "fallback", "over"}
SentenceLines   == Lines \cup {"none"}
SentenceRecords == [at : SentencePlaces, line : SentenceLines, aborted : BOOLEAN,
                    heard : SUBSET Sentences, other : BOOLEAN]
Leasing   == {"connecting", "asked"}
Speaking  == {"connecting", "asked", "fallback"}
Room(list) == {p \in Lines \X (1 .. MaxStreams) : p[2] <= Len(list[p[1]])}

PoolTypeOK ==
  /\ busy \in Nat /\ idle \in [Lines -> Seq(Warmed)] /\ lease = [o \in DOMAIN lease |-> lease[o]]
  /\ \A o \in DOMAIN lease : lease[o] \in Sockets
  /\ warming \in [Lines -> {"new", "connecting", "over"}]
  /\ sentence \in [Sentences -> SentenceRecords] /\ closed \subseteq Lines
PoolOpen == /\ IsFiniteSet(DOMAIN lease) /\ busy = Cardinality(DOMAIN lease)
            /\ IsFiniteSet(Room(idle)) /\ busy + Cardinality(Room(idle)) <= MaxStreams
            /\ \A l \in Lines : Len(idle[l]) <= MaxStreams
Holders == {Holder(s) : s \in {r \in Sentences : sentence[r].at \in Leasing}}
           \cup {<<0, l>> : l \in {k \in Lines : warming[k] = "connecting"}}
\* what the place of a sentence says of it
Place(s, k) == /\ k.at = "none" => k = Unsaid
               /\ k.at # "none" => k.line \in Lines
               /\ k.at \in {"waits", "connecting", "fallback"} => k.heard = {}
               /\ k.at \in {"waits", "connecting", "asked", "fallback"} => ~ k.other
               /\ k.heard \subseteq {s} /\ (k.other => k.heard = {})
Ordered == \A r, s \in Sentences :
             r < s => /\ sentence[s].at # "none" => sentence[r].at # "none"
                      /\ sentence[s].at \in Speaking /\ sentence[r].line = sentence[s].line => sentence[r].at = "over"
AskedFor == \A s \in Sentences :
              /\ sentence[s].at = "asked" => Socket(s).work = <<s>>
              /\ sentence[s].at = "connecting" => Socket(s).work = <<>>
PoolInv == /\ PoolTypeOK /\ PoolOpen /\ DOMAIN lease = Holders
           /\ \A s \in Sentences : Place(s, sentence[s])
           /\ Ordered /\ AskedFor

LEMMA PoolConstants == MaxStreams \in Nat /\ 0 < MaxStreams /\ MaxSpoken \in Nat /\ "none" \notin Lines
  BY PoolAssumption DEF PoolAssumption

LEMMA RoomIsParked == Parked = Room(idle)
  BY DEF Parked, Room

LEMMA RoomShrinks ==
  ASSUME NEW old, NEW new, IsFiniteSet(Room(old)),
         \A l \in Lines : Len(old[l]) \in Nat /\ Len(new[l]) \in Nat /\ Len(new[l]) <= Len(old[l])
  PROVE  /\ Room(new) \subseteq Room(old) /\ IsFiniteSet(Room(new))
         /\ Cardinality(Room(new)) <= Cardinality(Room(old))
         /\ Cardinality(Room(new)) \in Nat /\ Cardinality(Room(old)) \in Nat
<1>1. Room(new) \subseteq Room(old)
  <2> SUFFICES ASSUME NEW p \in Room(new) PROVE p[2] <= Len(old[p[1]])
      BY DEF Room
  <2>1. p[1] \in Lines /\ p[2] \in 1 .. MaxStreams /\ p[2] <= Len(new[p[1]]) BY DEF Room
  <2> QED BY <2>1, PoolConstants
<1> QED BY <1>1, FS_Subset, FS_CardinalityType

LEMMA RoomGoes ==
  ASSUME NEW old, NEW new, IsFiniteSet(Room(old)),
         \A l \in Lines : Len(old[l]) \in Nat /\ Len(new[l]) \in Nat /\ Len(new[l]) <= Len(old[l]),
         NEW l \in Lines, Len(new[l]) < Len(old[l]), Len(old[l]) <= MaxStreams
  PROVE  /\ IsFiniteSet(Room(new)) /\ Cardinality(Room(new)) + 1 <= Cardinality(Room(old))
         /\ Cardinality(Room(new)) \in Nat /\ Cardinality(Room(old)) \in Nat
<1> DEFINE last == <<l, Len(old[l])>>
<1>1. last \in Room(old) /\ last \notin Room(new)
  <2>1. Len(old[l]) \in 1 .. MaxStreams BY PoolConstants
  <2> QED BY <2>1 DEF Room
<1> HIDE DEF last
<1>2. Room(new) \subseteq Room(old) \ {last} BY <1>1, RoomShrinks
<1>3. /\ IsFiniteSet(Room(old) \ {last})
      /\ Cardinality(Room(old) \ {last}) = Cardinality(Room(old)) - 1
  BY <1>1, FS_RemoveElement
<1>4. Cardinality(Room(new)) <= Cardinality(Room(old) \ {last}) BY <1>2, <1>3, FS_Subset
<1>5. /\ IsFiniteSet(Room(new)) /\ Cardinality(Room(new)) \in Nat /\ Cardinality(Room(old)) \in Nat
  BY RoomShrinks
<1> QED BY <1>3, <1>4, <1>5

LEMMA RoomGrows ==
  ASSUME NEW old, NEW new, IsFiniteSet(Room(old)), \A k \in Lines : Len(old[k]) \in Nat,
         NEW l \in Lines, Len(new[l]) = Len(old[l]) + 1, Len(new[l]) <= MaxStreams,
         \A k \in Lines : k # l => Len(new[k]) = Len(old[k])
  PROVE  /\ IsFiniteSet(Room(new)) /\ Cardinality(Room(new)) = Cardinality(Room(old)) + 1
         /\ Cardinality(Room(old)) \in Nat
<1> DEFINE next == <<l, Len(old[l]) + 1>>
<1>0. Len(old[l]) \in Nat /\ Len(old[l]) + 1 \in 1 .. MaxStreams BY PoolConstants
<1>1. next \notin Room(old) BY <1>0 DEF Room
<1>2. Room(new) = Room(old) \cup {next}
  <2>1. ASSUME NEW p \in Lines \X (1 .. MaxStreams) PROVE p \in Room(new) <=> p \in Room(old) \cup {next}
    <3>1. p[1] \in Lines /\ p[2] \in Nat /\ p = <<p[1], p[2]>> BY PoolConstants
    <3>2. CASE p[1] = l
      <4>1. p[2] <= Len(new[l]) <=> (p[2] <= Len(old[l]) \/ p[2] = Len(old[l]) + 1) BY <1>0, <3>1
      <4> QED BY <3>1, <3>2, <4>1 DEF Room
    <3>3. CASE p[1] # l BY <3>1, <3>3 DEF Room
    <3> QED BY <3>2, <3>3
  <2>2. next \in Lines \X (1 .. MaxStreams) BY <1>0
  <2>3. Room(old) \subseteq Lines \X (1 .. MaxStreams) /\ Room(new) \subseteq Lines \X (1 .. MaxStreams) BY DEF Room
  <2> HIDE DEF next
  <2> QED BY <2>1, <2>2, <2>3
<1> HIDE DEF next
<1> QED BY <1>1, <1>2, FS_AddElement, FS_CardinalityType

LEMMA LineFits ==
  ASSUME NEW list, IsFiniteSet(Room(list)), NEW l \in Lines, Len(list[l]) \in Nat, Len(list[l]) <= MaxStreams
  PROVE  Len(list[l]) <= Cardinality(Room(list))
<1> DEFINE n == Len(list[l])
           f == [i \in 1 .. n |-> <<l, i>>]
<1>1. f \in [1 .. n -> Room(list)]
  <2> SUFFICES ASSUME NEW i \in 1 .. n PROVE <<l, i>> \in Room(list)
      OBVIOUS
  <2>1. i \in 1 .. MaxStreams BY PoolConstants
  <2> QED BY <2>1 DEF Room
<1>2. \A i, j \in 1 .. n : f[i] = f[j] => i = j OBVIOUS
<1>3. f \in Injection(1 .. n, Room(list)) BY <1>1, <1>2 DEF Injection, IsInjective
<1>4. Cardinality(1 .. n) = n BY FS_Interval
<1> QED BY <1>3, <1>4, FS_Injection

\* what is true of the counts and the lists while sentences and prewarms are as they are
Sound == /\ busy \in Nat /\ idle \in [Lines -> Seq(Warmed)] /\ lease = [o \in DOMAIN lease |-> lease[o]]
         /\ (\A o \in DOMAIN lease : lease[o] \in Sockets) /\ PoolOpen

LEMMA PoolSound == PoolInv => Sound
  BY DEF PoolInv, PoolTypeOK, Sound

LEMMA LengthsKnown == ASSUME NEW list \in [Lines -> Seq(Warmed)] PROVE \A l \in Lines : Len(list[l]) \in Nat
  BY LenProperties

\* a socket that is lent is counted with the busy ones
LEMMA LendCounts ==
  ASSUME Sound, NEW o, o \notin DOMAIN lease, NEW socket \in Sockets, Lend(o, socket)
  PROVE  /\ busy' = busy + 1 /\ busy' \in Nat /\ DOMAIN lease' = DOMAIN lease \cup {o}
         /\ IsFiniteSet(DOMAIN lease') /\ busy' = Cardinality(DOMAIN lease')
         /\ lease' = [p \in DOMAIN lease' |-> lease'[p]] /\ \A p \in DOMAIN lease' : lease'[p] \in Sockets
         /\ lease'[o] = socket /\ \A p \in DOMAIN lease : lease'[p] = lease[p]
<1>1. busy' = busy + 1 /\ lease' = [p \in DOMAIN lease \cup {o} |-> IF p = o THEN socket ELSE lease[p]]
  BY DEF Lend
<1>2. busy \in Nat /\ IsFiniteSet(DOMAIN lease) /\ busy = Cardinality(DOMAIN lease) BY DEF Sound, PoolOpen
<1>3. IsFiniteSet(DOMAIN lease \cup {o}) /\ Cardinality(DOMAIN lease \cup {o}) = Cardinality(DOMAIN lease) + 1
  BY <1>2, FS_AddElement
<1>4. DOMAIN lease' = DOMAIN lease \cup {o} BY <1>1
<1>5. lease' = [p \in DOMAIN lease' |-> lease'[p]] BY <1>1
<1>6. \A p \in DOMAIN lease' : lease'[p] \in Sockets BY <1>1 DEF Sound
<1>7. lease'[o] = socket /\ \A p \in DOMAIN lease : lease'[p] = lease[p] BY <1>1
<1> QED BY <1>1, <1>2, <1>3, <1>4, <1>5, <1>6, <1>7

LEMMA DiscardCounts ==
  ASSUME Sound, NEW held \in SUBSET DOMAIN lease, Discard(held)
  PROVE  /\ Sound' /\ DOMAIN lease' = DOMAIN lease \ held /\ busy' <= busy
         /\ (\A p \in DOMAIN lease' : lease'[p] = lease[p])
<1>1. busy' = busy - Cardinality(held) /\ lease' = [o \in DOMAIN lease \ held |-> lease[o]] /\ idle' = idle
  BY DEF Discard, Without
<1>2. busy \in Nat /\ IsFiniteSet(DOMAIN lease) /\ busy = Cardinality(DOMAIN lease) BY DEF Sound, PoolOpen
<1>3. DOMAIN lease \cap held = held OBVIOUS
<1>4. IsFiniteSet(DOMAIN lease \ held) /\ Cardinality(DOMAIN lease \ held) = Cardinality(DOMAIN lease) - Cardinality(held)
  BY <1>2, <1>3, FS_Difference
<1>5. Cardinality(DOMAIN lease \ held) \in Nat /\ IsFiniteSet(held) /\ Cardinality(held) \in Nat
  BY <1>2, <1>4, FS_CardinalityType, FS_Subset
<1>6. DOMAIN lease' = DOMAIN lease \ held BY <1>1
<1>7. busy' = Cardinality(DOMAIN lease') /\ busy' \in Nat /\ busy' <= busy BY <1>1, <1>2, <1>4, <1>5, <1>6
<1>8. lease' = [p \in DOMAIN lease' |-> lease'[p]] /\ (\A p \in DOMAIN lease' : lease'[p] = lease[p]) BY <1>1
<1>9. \A p \in DOMAIN lease' : lease'[p] \in Sockets BY <1>6, <1>8 DEF Sound
<1>10. busy' + Cardinality(Room(idle)) <= MaxStreams
  <2>1. busy + Cardinality(Room(idle)) <= MaxStreams /\ Cardinality(Room(idle)) \in Nat
    BY FS_CardinalityType DEF Sound, PoolOpen
  <2> QED BY <1>2, <1>7, <2>1, PoolConstants
<1>11. PoolOpen' BY <1>1, <1>4, <1>6, <1>7, <1>10 DEF PoolOpen, Sound
<1> QED BY <1>1, <1>6, <1>7, <1>8, <1>9, <1>11 DEF Sound

\* the lists only lose sockets, and nothing else happens
LEMMA ListsShrink ==
  ASSUME Sound, idle' \in [Lines -> Seq(Warmed)], \A l \in Lines : Len(idle'[l]) <= Len(idle[l]),
         busy' = busy, lease' = lease
  PROVE  Sound'
<1>1. /\ \A l \in Lines : Len(idle[l]) \in Nat /\ Len(idle'[l]) \in Nat /\ Len(idle[l]) <= MaxStreams
      /\ busy \in Nat /\ IsFiniteSet(Room(idle)) /\ busy + Cardinality(Room(idle)) <= MaxStreams
  BY LengthsKnown DEF Sound, PoolOpen
<1>2. /\ IsFiniteSet(Room(idle')) /\ Cardinality(Room(idle')) <= Cardinality(Room(idle))
      /\ Cardinality(Room(idle')) \in Nat /\ Cardinality(Room(idle)) \in Nat
  BY <1>1, RoomShrinks
<1>3. busy' + Cardinality(Room(idle')) <= MaxStreams BY <1>1, <1>2, PoolConstants
<1>4. \A l \in Lines : Len(idle'[l]) <= MaxStreams BY <1>1, PoolConstants
<1>5. Room(idle)' = Room(idle') BY DEF Room
<1> QED BY <1>2, <1>3, <1>4, <1>5 DEF Sound, PoolOpen

LEMMA ReuseCounts ==
  ASSUME Sound, NEW s \in Sentences, sentence[s].line \in Lines, Holder(s) \notin DOMAIN lease, Reuse(s)
  PROVE  /\ Sound' /\ DOMAIN lease' = DOMAIN lease \cup {Holder(s)} /\ lease'[Holder(s)].work = <<s>>
         /\ \A p \in DOMAIN lease : lease'[p] = lease[p]
<1> DEFINE l == sentence[s].line
<1>1. PICK i \in Warm(l) : /\ idle' = [idle EXCEPT ![l] = SubSeq(@, 1, i - 1)]
                           /\ Lend(Holder(s), Asked(idle[l][i], s))
  BY DEF Reuse
<1>2. idle[l] \in Seq(Warmed) /\ i \in 1 .. Len(idle[l]) /\ idle[l][i] \in Warmed /\ Len(idle[l]) \in Nat
  BY <1>1, LenProperties, ElementOfSeq DEF Warm, Sound
<1>3. PICK socket \in Warmed : socket = idle[l][i] BY <1>2
<1>4. Asked(socket, s) \in Sockets /\ Asked(socket, s).work = <<s>>
  <2>1. Asked(socket, s) = [closing |-> socket.closing, work |-> Append(socket.work, s)] BY DEF Asked, Warmed
  <2>2. socket.closing \in BOOLEAN /\ socket.work = <<>> BY DEF Warmed
  <2>3. Append(socket.work, s) = <<s>> BY <2>2
  <2>4. <<s>> \in Tasks BY DEF Tasks
  <2> QED BY <2>1, <2>2, <2>3, <2>4 DEF Sockets
<1>5. /\ busy' = busy + 1 /\ busy' \in Nat /\ DOMAIN lease' = DOMAIN lease \cup {Holder(s)}
      /\ IsFiniteSet(DOMAIN lease') /\ busy' = Cardinality(DOMAIN lease')
      /\ lease' = [p \in DOMAIN lease' |-> lease'[p]] /\ (\A p \in DOMAIN lease' : lease'[p] \in Sockets)
      /\ lease'[Holder(s)] = Asked(socket, s) /\ (\A p \in DOMAIN lease : lease'[p] = lease[p])
  BY <1>1, <1>3, <1>4, LendCounts
<1>6. SubSeq(idle[l], 1, i - 1) \in Seq(Warmed) /\ Len(SubSeq(idle[l], 1, i - 1)) = i - 1
  <2>1. i - 1 \in Nat /\ i - 1 <= Len(idle[l]) BY <1>2
  <2> QED BY <1>2, <2>1, SubSeqProperties
<1>7. idle' \in [Lines -> Seq(Warmed)] BY <1>1, <1>6 DEF Sound
<1>8. /\ idle'[l] = SubSeq(idle[l], 1, i - 1) /\ \A k \in Lines : k # l => idle'[k] = idle[k]
  BY <1>1 DEF Sound
<1>9. \A k \in Lines : Len(idle[k]) \in Nat /\ Len(idle'[k]) \in Nat /\ Len(idle'[k]) <= Len(idle[k])
  <2>1. \A k \in Lines : Len(idle[k]) \in Nat /\ Len(idle'[k]) \in Nat BY <1>7, LengthsKnown DEF Sound
  <2>2. Len(idle'[l]) <= Len(idle[l]) BY <1>2, <1>6, <1>8
  <2>3. ASSUME NEW k \in Lines, k # l PROVE Len(idle'[k]) <= Len(idle[k])
    <3>1. Len(idle'[k]) = Len(idle[k]) BY <1>8, <2>3
    <3> QED BY <2>1, <3>1
  <2> QED BY <2>1, <2>2, <2>3
<1>10. Len(idle'[l]) < Len(idle[l]) BY <1>2, <1>6, <1>8
<1>11. /\ IsFiniteSet(Room(idle)) /\ busy + Cardinality(Room(idle)) <= MaxStreams /\ busy \in Nat
       /\ \A k \in Lines : Len(idle[k]) <= MaxStreams
  BY DEF Sound, PoolOpen
<1>12. /\ IsFiniteSet(Room(idle')) /\ Cardinality(Room(idle')) + 1 <= Cardinality(Room(idle))
       /\ Cardinality(Room(idle')) \in Nat /\ Cardinality(Room(idle)) \in Nat
  BY <1>9, <1>10, <1>11, RoomGoes
<1>13. busy' + Cardinality(Room(idle')) <= MaxStreams BY <1>5, <1>11, <1>12, PoolConstants
<1>14. \A k \in Lines : Len(idle'[k]) <= MaxStreams BY <1>9, <1>11, PoolConstants
<1>15. Room(idle)' = Room(idle') BY DEF Room
<1>16. Sound' BY <1>5, <1>7, <1>12, <1>13, <1>14, <1>15 DEF Sound, PoolOpen
<1> QED BY <1>4, <1>5, <1>16

LEMMA ConnectCounts ==
  ASSUME Sound, NEW o, o \notin DOMAIN lease, o[2] \in Lines, busy < MaxStreams, ConnectNew(o)
  PROVE  /\ Sound' /\ DOMAIN lease' = DOMAIN lease \cup {o} /\ lease'[o] = Fresh
         /\ \A p \in DOMAIN lease : lease'[p] = lease[p]
<1> DEFINE none == [idle EXCEPT ![o[2]] = <<>>]
           some == {l \in Lines : none[l] # <<>>}
<1>1. idle' \in Evicted(none) /\ Lend(o, Fresh) BY DEF ConnectNew
<1>2. Fresh \in Sockets BY DEF Fresh, Sockets, Tasks
<1>3. /\ busy' = busy + 1 /\ busy' \in Nat /\ DOMAIN lease' = DOMAIN lease \cup {o}
      /\ IsFiniteSet(DOMAIN lease') /\ busy' = Cardinality(DOMAIN lease')
      /\ lease' = [p \in DOMAIN lease' |-> lease'[p]] /\ (\A p \in DOMAIN lease' : lease'[p] \in Sockets)
      /\ lease'[o] = Fresh /\ (\A p \in DOMAIN lease : lease'[p] = lease[p])
  BY <1>1, <1>2, LendCounts
<1>4. /\ IsFiniteSet(Room(idle)) /\ busy + Cardinality(Room(idle)) <= MaxStreams /\ busy \in Nat
      /\ (\A l \in Lines : Len(idle[l]) \in Nat /\ Len(idle[l]) <= MaxStreams)
      /\ idle \in [Lines -> Seq(Warmed)]
  BY LengthsKnown DEF Sound, PoolOpen
<1>5. none \in [Lines -> Seq(Warmed)] /\ \A l \in Lines : Len(none[l]) \in Nat /\ Len(none[l]) <= Len(idle[l])
  <2>1. <<>> \in Seq(Warmed) /\ Len(<<>>) = 0 OBVIOUS
  <2>2. none \in [Lines -> Seq(Warmed)] BY <1>4, <2>1
  <2>3. ASSUME NEW l \in Lines PROVE Len(none[l]) <= Len(idle[l])
    <3>1. CASE l = o[2] BY <1>4, <2>1, <3>1
    <3>2. CASE l # o[2]
      <4>1. none[l] = idle[l] BY <1>4, <3>2
      <4> QED BY <1>4, <4>1
    <3> QED BY <3>1, <3>2
  <2> HIDE DEF none
  <2> QED BY <2>2, <2>3, LengthsKnown
<1> HIDE DEF none
<1>6. /\ IsFiniteSet(Room(none)) /\ Cardinality(Room(none)) <= Cardinality(Room(idle)) /\ Room(none) \subseteq Room(idle)
      /\ Cardinality(Room(none)) \in Nat /\ Cardinality(Room(idle)) \in Nat
  BY <1>4, <1>5, RoomShrinks
<1>7. {p \in Parked : p[2] <= Len(none[p[1]])} = Room(none) BY <1>6, RoomIsParked DEF Room
<1>8. \A l \in Lines : Len(none[l]) <= MaxStreams
  <2> SUFFICES ASSUME NEW l \in Lines PROVE Len(none[l]) <= MaxStreams
      OBVIOUS
  <2>1. Len(none[l]) \in Nat /\ Len(none[l]) <= Len(idle[l]) /\ Len(idle[l]) \in Nat /\ Len(idle[l]) <= MaxStreams
    BY <1>4, <1>5
  <2> QED BY <2>1, PoolConstants
<1>9. /\ idle' \in [Lines -> Seq(Warmed)] /\ IsFiniteSet(Room(idle')) /\ busy' + Cardinality(Room(idle')) <= MaxStreams
      /\ \A l \in Lines : Len(idle'[l]) <= MaxStreams
  <2>1. CASE idle' = none /\ some = {}
    <3>1. \A l \in Lines : none[l] = <<>> BY <2>1
    <3>2. \A l \in Lines : Len(none[l]) = 0 BY <3>1
    <3>3. Room(none) = {} BY <3>2, PoolConstants DEF Room
    <3>4. Cardinality(Room(none)) = 0 BY <3>3, FS_EmptySet
    <3>5. busy' + Cardinality(Room(none)) <= MaxStreams BY <1>3, <1>4, <3>4, PoolConstants
    <3> QED BY <1>5, <1>6, <1>8, <2>1, <3>5
  <2>2. CASE idle' = none /\ busy + Cardinality(Room(none)) < MaxStreams
    <3>1. busy' + Cardinality(Room(none)) <= MaxStreams BY <1>3, <1>4, <1>6, <2>2, PoolConstants
    <3> QED BY <1>5, <1>6, <1>8, <2>2, <3>1
  <2>3. ASSUME NEW l \in some, idle' = [none EXCEPT ![l] = Tail(@)]
        PROVE  /\ idle' \in [Lines -> Seq(Warmed)] /\ IsFiniteSet(Room(idle'))
               /\ busy' + Cardinality(Room(idle')) <= MaxStreams
               /\ \A k \in Lines : Len(idle'[k]) <= MaxStreams
    <3>1. l \in Lines /\ none[l] \in Seq(Warmed) /\ none[l] # <<>> BY <1>5
    <3>2. Tail(none[l]) \in Seq(Warmed) /\ Len(Tail(none[l])) = Len(none[l]) - 1
      BY <3>1, HeadTailProperties
    <3>3. idle' \in [Lines -> Seq(Warmed)] BY <1>5, <2>3, <3>1, <3>2
    <3>4. idle'[l] = Tail(none[l]) /\ \A k \in Lines : k # l => idle'[k] = none[k] BY <1>5, <2>3, <3>1
    <3>5. \A k \in Lines : Len(none[k]) \in Nat /\ Len(idle'[k]) \in Nat BY <1>5, <3>3, LengthsKnown
    <3>6. Len(idle'[l]) < Len(none[l]) BY <3>1, <3>2, <3>4, <3>5
    <3>7. ASSUME NEW k \in Lines PROVE Len(idle'[k]) <= Len(none[k])
      <4>1. CASE k = l BY <3>1, <3>5, <3>6, <4>1
      <4>2. CASE k # l BY <3>4, <3>5, <4>2
      <4> QED BY <4>1, <4>2
    <3>8. /\ IsFiniteSet(Room(idle')) /\ Cardinality(Room(idle')) + 1 <= Cardinality(Room(none))
          /\ Cardinality(Room(idle')) \in Nat
      BY <1>6, <1>8, <3>1, <3>5, <3>6, <3>7, RoomGoes
    <3>9. busy' + Cardinality(Room(idle')) <= MaxStreams BY <1>3, <1>4, <1>6, <3>8, PoolConstants
    <3>10. \A k \in Lines : Len(idle'[k]) <= MaxStreams
      <4> SUFFICES ASSUME NEW k \in Lines PROVE Len(idle'[k]) <= MaxStreams
          OBVIOUS
      <4>1. Len(idle'[k]) <= Len(none[k]) /\ Len(none[k]) <= MaxStreams /\ Len(idle'[k]) \in Nat /\ Len(none[k]) \in Nat
        BY <1>8, <3>5, <3>7
      <4> QED BY <4>1, PoolConstants
    <3> QED BY <3>3, <3>8, <3>9, <3>10
  <2>4. \/ idle' = none /\ (some = {} \/ busy + Cardinality(Room(none)) < MaxStreams)
        \/ \E l \in some : idle' = [none EXCEPT ![l] = Tail(@)]
    BY <1>1, <1>7 DEF Evicted
  <2> QED BY <2>1, <2>2, <2>3, <2>4
<1>10. Room(idle)' = Room(idle') BY DEF Room
<1>11. Sound' BY <1>3, <1>9, <1>10 DEF Sound, PoolOpen
<1> QED BY <1>3, <1>11

LEMMA ParkCounts ==
  ASSUME Sound, NEW o \in DOMAIN lease, o[2] \in Lines, NEW socket \in Warmed, Park(o, socket)
  PROVE  /\ Sound' /\ DOMAIN lease' = DOMAIN lease \ {o}
         /\ \A p \in DOMAIN lease' : lease'[p] = lease[p]
<1> DEFINE l == o[2]
<1>1. /\ busy' = busy - 1 /\ lease' = [p \in DOMAIN lease \ {o} |-> lease[p]]
      /\ idle' = idle \/ idle' = [idle EXCEPT ![l] = Append(@, socket)]
  BY DEF Park, Without
<1>2. /\ busy \in Nat /\ IsFiniteSet(DOMAIN lease) /\ busy = Cardinality(DOMAIN lease)
      /\ IsFiniteSet(Room(idle)) /\ busy + Cardinality(Room(idle)) <= MaxStreams
      /\ (\A k \in Lines : Len(idle[k]) \in Nat /\ Len(idle[k]) <= MaxStreams)
      /\ idle \in [Lines -> Seq(Warmed)] /\ Cardinality(Room(idle)) \in Nat
  BY LengthsKnown, FS_CardinalityType DEF Sound, PoolOpen
<1>3. /\ IsFiniteSet(DOMAIN lease \ {o}) /\ Cardinality(DOMAIN lease \ {o}) = Cardinality(DOMAIN lease) - 1
      /\ Cardinality(DOMAIN lease \ {o}) \in Nat
  BY <1>2, FS_RemoveElement, FS_CardinalityType
<1>4. /\ DOMAIN lease' = DOMAIN lease \ {o} /\ lease' = [p \in DOMAIN lease' |-> lease'[p]]
      /\ (\A p \in DOMAIN lease' : lease'[p] = lease[p])
  BY <1>1
<1>5. busy' = Cardinality(DOMAIN lease') /\ busy' \in Nat /\ busy' + 1 = busy /\ IsFiniteSet(DOMAIN lease')
  BY <1>1, <1>2, <1>3, <1>4
<1>6. \A p \in DOMAIN lease' : lease'[p] \in Sockets BY <1>4 DEF Sound
<1>7. /\ idle' \in [Lines -> Seq(Warmed)] /\ IsFiniteSet(Room(idle')) /\ busy' + Cardinality(Room(idle')) <= MaxStreams
      /\ \A k \in Lines : Len(idle'[k]) <= MaxStreams
  <2>1. CASE idle' = idle
    <3>1. busy' + Cardinality(Room(idle)) <= MaxStreams BY <1>2, <1>5, PoolConstants
    <3> QED BY <1>2, <2>1, <3>1
  <2>2. CASE idle' = [idle EXCEPT ![l] = Append(@, socket)]
    <3>1. Append(idle[l], socket) \in Seq(Warmed) /\ Len(Append(idle[l], socket)) = Len(idle[l]) + 1
      BY <1>2, AppendProperties
    <3>2. idle' \in [Lines -> Seq(Warmed)] BY <1>2, <2>2, <3>1
    <3>3. Len(idle'[l]) = Len(idle[l]) + 1 /\ \A k \in Lines : k # l => Len(idle'[k]) = Len(idle[k])
      BY <1>2, <2>2, <3>1
    <3>4. Len(idle[l]) <= Cardinality(Room(idle)) BY <1>2, LineFits
    <3>5. Len(idle'[l]) <= MaxStreams BY <1>2, <1>5, <3>3, <3>4, PoolConstants
    <3>6. IsFiniteSet(Room(idle')) /\ Cardinality(Room(idle')) = Cardinality(Room(idle)) + 1
      BY <1>2, <3>3, <3>5, RoomGrows
    <3>7. busy' + Cardinality(Room(idle')) <= MaxStreams BY <1>2, <1>5, <3>6, PoolConstants
    <3>8. \A k \in Lines : Len(idle'[k]) <= MaxStreams BY <1>2, <3>3, <3>5
    <3> QED BY <3>2, <3>6, <3>7, <3>8
  <2> QED BY <1>1, <2>1, <2>2
<1>8. Room(idle)' = Room(idle') BY DEF Room
<1>9. Sound' BY <1>4, <1>5, <1>6, <1>7, <1>8 DEF Sound, PoolOpen
<1> QED BY <1>4, <1>9

-----------------------------------------------------------------------------
\* the leases, when one sentence moves
LEMMA HoldersApart ==
  /\ \A s, r \in Sentences : Holder(s) = Holder(r) => s = r
  /\ \A s \in Sentences : \A l \in Lines : Holder(s) # <<0, l>>
<1>1. \A s \in Sentences : s # 0 BY PoolConstants DEF Sentences
<1> QED BY <1>1 DEF Holder

LEMMA HolderLeased ==
  ASSUME PoolInv, NEW s \in Sentences
  PROVE  Holder(s) \in DOMAIN lease <=> sentence[s].at \in Leasing
<1>1. Holder(s) \in Holders <=> sentence[s].at \in Leasing BY HoldersApart DEF Holders
<1> QED BY <1>1 DEF PoolInv

LEMMA SentenceMoves ==
  ASSUME PoolInv, NEW s \in Sentences, NEW new \in SentenceRecords, sentence' = [sentence EXCEPT ![s] = new],
         warming' = warming, closed' = closed, Sound', Place(s, new), new.at # "none",
         IF sentence[s].at = "none" THEN new.at = "waits" /\ (\A r \in Sentences : r < s => sentence[r].at # "none")
                                    ELSE new.line = sentence[s].line,
         sentence[s].at # "over",
         new.at \in Speaking => sentence[s].at \in Speaking \/ Ahead(s) = {},
         DOMAIN lease' = IF new.at \in Leasing THEN DOMAIN lease \cup {<<s, new.line>>} ELSE DOMAIN lease \ {<<s, new.line>>},
         \A p \in DOMAIN lease' : p # <<s, new.line>> => lease'[p] = lease[p],
         new.at = "asked" => lease'[<<s, new.line>>].work = <<s>>,
         new.at = "connecting" => lease'[<<s, new.line>>].work = <<>>
  PROVE  PoolInv'
<1>1. /\ sentence \in [Sentences -> SentenceRecords] /\ warming \in [Lines -> {"new", "connecting", "over"}]
      /\ closed \subseteq Lines /\ DOMAIN lease = Holders
  BY DEF PoolInv, PoolTypeOK
<1>2. /\ sentence'[s] = new /\ (\A r \in Sentences : r # s => sentence'[r] = sentence[r])
      /\ sentence' \in [Sentences -> SentenceRecords]
  BY <1>1
<1>3. PoolTypeOK' /\ PoolOpen' BY <1>1, <1>2 DEF PoolTypeOK, Sound
<1>4. \A r \in Sentences : Place(r, sentence'[r]) BY <1>2 DEF PoolInv
<1>5. Ordered'
  <2> SUFFICES ASSUME NEW r \in Sentences, NEW q \in Sentences, r < q
               PROVE  /\ sentence'[q].at # "none" => sentence'[r].at # "none"
                      /\ sentence'[q].at \in Speaking /\ sentence'[r].line = sentence'[q].line => sentence'[r].at = "over"
      BY DEF Ordered
  <2>0. /\ sentence[q].at # "none" => sentence[r].at # "none"
        /\ sentence[q].at \in Speaking /\ sentence[r].line = sentence[q].line => sentence[r].at = "over"
    BY DEF PoolInv, Ordered
  <2>1. CASE r # s /\ q # s BY <1>2, <2>0, <2>1
  <2>2. CASE r = s
    <3>1. q # s BY <2>2, PoolConstants DEF Sentences
    <3>2. sentence'[q] = sentence[q] BY <1>2, <3>1
    <3>3. ~ (sentence[q].at \in Speaking /\ new.line = sentence[q].line)
      <4>1. CASE sentence[s].at = "none" BY <2>0, <2>2, <4>1 DEF Speaking
      <4>2. CASE sentence[s].at # "none" BY <2>0, <2>2, <4>2
      <4> QED BY <4>1, <4>2
    <3> QED BY <1>2, <2>2, <3>2, <3>3
  <2>3. CASE q = s
    <3>1. r # s BY <2>3, PoolConstants DEF Sentences
    <3>2. sentence'[r] = sentence[r] BY <1>2, <3>1
    <3>3. sentence[r].at # "none" BY <2>0, <2>3
    <3>4. ASSUME new.at \in Speaking, sentence[r].line = new.line PROVE sentence[r].at = "over"
      <4>1. new.line = sentence[s].line BY <3>4 DEF Speaking
      <4>2. CASE sentence[s].at \in Speaking BY <2>0, <2>3, <3>4, <4>1, <4>2
      <4>3. CASE Ahead(s) = {} BY <2>3, <3>4, <4>1, <4>3 DEF Ahead, Said
      <4> QED BY <3>4, <4>2, <4>3
    <3> QED BY <1>2, <2>3, <3>2, <3>3, <3>4
  <2> QED BY <2>1, <2>2, <2>3
<1>6. \A r \in Sentences : r # s => Holder(r)' = Holder(r) BY <1>2 DEF Holder
<1>7. Holder(s)' = <<s, new.line>> BY <1>2 DEF Holder
<1>8. \A r \in Sentences : \A l : r # s => Holder(r) # <<s, l>> BY DEF Holder
<1>9. \A l \in Lines : <<0, l>> # <<s, new.line>> BY PoolConstants DEF Sentences
<1>10. sentence[s].at \in Leasing => Holder(s) = <<s, new.line>> BY DEF Holder, Leasing
<1>11. DOMAIN lease' = Holders'
  <2>1. ASSUME NEW p \in DOMAIN lease' PROVE p \in Holders'
    <3>1. CASE p = <<s, new.line>> BY <1>2, <1>7, <2>1, <3>1 DEF Holders
    <3>2. CASE p # <<s, new.line>>
      <4>1. p \in Holders BY <1>1, <2>1, <3>2
      <4>2. CASE \E l \in {k \in Lines : warming[k] = "connecting"} : p = <<0, l>> BY <4>2 DEF Holders
      <4>3. ASSUME NEW r \in Sentences, sentence[r].at \in Leasing, p = Holder(r) PROVE p \in Holders'
        <5>1. r # s BY <1>10, <3>2, <4>3
        <5> QED BY <1>2, <1>6, <4>3, <5>1 DEF Holders
      <4> QED BY <4>1, <4>2, <4>3 DEF Holders
    <3> QED BY <3>1, <3>2
  <2>2. ASSUME NEW p \in Holders' PROVE p \in DOMAIN lease'
    <3>1. CASE \E l \in {k \in Lines : warming[k] = "connecting"} : p = <<0, l>>
      <4>1. p \in DOMAIN lease BY <1>1, <3>1 DEF Holders
      <4> QED BY <1>9, <3>1, <4>1
    <3>2. ASSUME NEW r \in Sentences, sentence'[r].at \in Leasing, p = Holder(r)' PROVE p \in DOMAIN lease'
      <4>1. CASE r = s BY <1>2, <1>7, <3>2, <4>1
      <4>2. CASE r # s
        <5>1. p \in DOMAIN lease BY <1>1, <1>2, <1>6, <3>2, <4>2 DEF Holders
        <5>2. p # <<s, new.line>> BY <1>6, <1>8, <3>2, <4>2
        <5> QED BY <5>1, <5>2
      <4> QED BY <4>1, <4>2
    <3> QED BY <2>2, <3>1, <3>2 DEF Holders
  <2> QED BY <2>1, <2>2
<1>12. AskedFor'
  <2> SUFFICES ASSUME NEW r \in Sentences
               PROVE  /\ sentence'[r].at = "asked" => lease'[Holder(r)'].work = <<r>>
                      /\ sentence'[r].at = "connecting" => lease'[Holder(r)'].work = <<>>
      BY DEF AskedFor, Socket
  <2>1. CASE r = s BY <1>2, <1>7, <2>1
  <2>2. CASE r # s
    <3>1. /\ sentence[r].at = "asked" => lease[Holder(r)].work = <<r>>
          /\ sentence[r].at = "connecting" => lease[Holder(r)].work = <<>>
      BY DEF PoolInv, AskedFor, Socket
    <3>2. sentence'[r] = sentence[r] /\ Holder(r)' = Holder(r) /\ Holder(r) # <<s, new.line>> BY <1>2, <1>6, <1>8, <2>2
    <3>3. sentence[r].at \in Leasing => Holder(r) \in DOMAIN lease' BY <3>2, HolderLeased
    <3> QED BY <3>1, <3>2, <3>3 DEF Leasing
  <2> QED BY <2>1, <2>2
<1> QED BY <1>3, <1>4, <1>5, <1>11, <1>12 DEF PoolInv

\* the leases, when the prewarm of a line moves
LEMMA PrewarmMoves ==
  ASSUME PoolInv, Sound', NEW l \in Lines, NEW to \in {"connecting", "over"},
         warming' = [warming EXCEPT ![l] = to], sentence' = sentence, closed' = closed,
         DOMAIN lease' = IF to = "connecting" THEN DOMAIN lease \cup {<<0, l>>} ELSE DOMAIN lease \ {<<0, l>>},
         \A p \in DOMAIN lease' : p # <<0, l>> => lease'[p] = lease[p]
  PROVE  PoolInv'
<1>1. /\ sentence \in [Sentences -> SentenceRecords] /\ warming \in [Lines -> {"new", "connecting", "over"}]
      /\ closed \subseteq Lines /\ DOMAIN lease = Holders
  BY DEF PoolInv, PoolTypeOK
<1>2. PoolTypeOK' /\ PoolOpen' BY <1>1 DEF PoolTypeOK, Sound
<1>3. (\A r \in Sentences : Place(r, sentence'[r])) /\ Ordered' BY DEF PoolInv, Ordered
<1>4. \A r \in Sentences : Holder(r)' = Holder(r) /\ Holder(r) # <<0, l>> BY HoldersApart DEF Holder
<1>5. warming'[l] = to /\ \A k \in Lines : k # l => warming'[k] = warming[k] BY <1>1
<1>6. DOMAIN lease' = Holders'
  <2>1. Holders' = {Holder(s) : s \in {r \in Sentences : sentence[r].at \in Leasing}}
                   \cup {<<0, k>> : k \in {j \in Lines : warming'[j] = "connecting"}}
    BY <1>4 DEF Holders
  <2>2. {<<0, k>> : k \in {j \in Lines : warming'[j] = "connecting"}} =
          IF to = "connecting" THEN {<<0, k>> : k \in {j \in Lines : warming[j] = "connecting"}} \cup {<<0, l>>}
                               ELSE {<<0, k>> : k \in {j \in Lines : warming[j] = "connecting"}} \ {<<0, l>>}
    BY <1>5
  <2>3. <<0, l>> \notin {Holder(s) : s \in {r \in Sentences : sentence[r].at \in Leasing}} BY <1>4
  <2> QED BY <1>1, <2>1, <2>2, <2>3 DEF Holders
<1>7. AskedFor'
  <2> SUFFICES ASSUME NEW r \in Sentences
               PROVE  /\ sentence[r].at = "asked" => lease'[Holder(r)].work = <<r>>
                      /\ sentence[r].at = "connecting" => lease'[Holder(r)].work = <<>>
      BY <1>4 DEF AskedFor, Socket
  <2>1. /\ sentence[r].at = "asked" => lease[Holder(r)].work = <<r>>
        /\ sentence[r].at = "connecting" => lease[Holder(r)].work = <<>>
    BY DEF PoolInv, AskedFor, Socket
  <2>2. sentence[r].at \in Leasing => Holder(r) \in DOMAIN lease' BY <1>4, HolderLeased
  <2> QED BY <1>4, <2>1, <2>2 DEF Leasing
<1> QED BY <1>2, <1>3, <1>6, <1>7 DEF PoolInv

\* the lists or what is known of a socket change, no more
LEMMA SocketsChange ==
  ASSUME PoolInv, Sound', warming' = warming, sentence' = sentence, closed' \subseteq Lines,
         DOMAIN lease' = DOMAIN lease, \A o \in DOMAIN lease : lease'[o].work = lease[o].work
  PROVE  PoolInv'
<1>1. PoolTypeOK' /\ PoolOpen' BY DEF PoolInv, PoolTypeOK, Sound
<1>2. \A r \in Sentences : Holder(r)' = Holder(r) BY DEF Holder
<1>3. Holders' = Holders BY <1>2 DEF Holders
<1>4. AskedFor'
  <2> SUFFICES ASSUME NEW r \in Sentences
               PROVE  /\ sentence[r].at = "asked" => lease'[Holder(r)].work = <<r>>
                      /\ sentence[r].at = "connecting" => lease'[Holder(r)].work = <<>>
      BY <1>2 DEF AskedFor, Socket
  <2>1. /\ sentence[r].at = "asked" => lease[Holder(r)].work = <<r>>
        /\ sentence[r].at = "connecting" => lease[Holder(r)].work = <<>>
    BY DEF PoolInv, AskedFor, Socket
  <2> QED BY <2>1, HolderLeased DEF Leasing
<1> QED BY <1>1, <1>3, <1>4 DEF PoolInv, Ordered

LEMMA PlacedGives ==
  ASSUME PoolInv, NEW s \in Sentences, NEW place \in SentencePlaces, Placed(s, place)
  PROVE  \E new \in SentenceRecords :
           /\ sentence' = [sentence EXCEPT ![s] = new]
           /\ new.at = place /\ new.line = sentence[s].line /\ new.heard = sentence[s].heard
           /\ (new.other <=> sentence[s].other)
<1>1. sentence[s] \in SentenceRecords BY DEF PoolInv, PoolTypeOK
<1>2. PICK k \in SentenceRecords : k = sentence[s] BY <1>1
<1> DEFINE new == [k EXCEPT !.at = place]
<1>3. new = [at |-> place, line |-> k.line, aborted |-> k.aborted, heard |-> k.heard, other |-> k.other]
  BY DEF SentenceRecords
<1>4. k.line \in SentenceLines /\ k.aborted \in BOOLEAN /\ k.heard \in SUBSET Sentences /\ k.other \in BOOLEAN
  BY DEF SentenceRecords
<1>5. new \in SentenceRecords BY <1>3, <1>4 DEF SentenceRecords
<1>6. sentence' = [sentence EXCEPT ![s] = new] BY <1>2 DEF Placed
<1>7. new.at = place /\ new.line = k.line /\ new.heard = k.heard /\ new.other = k.other BY <1>3
<1> HIDE DEF new
<1> QED BY <1>2, <1>5, <1>6, <1>7

LEMMA PoolInvInit == PoolInit => PoolInv
<1> SUFFICES ASSUME PoolInit PROVE PoolInv
    OBVIOUS
<1>0. /\ busy = 0 /\ idle = [l \in Lines |-> <<>>] /\ lease = [o \in {} |-> Fresh]
      /\ warming = [l \in Lines |-> "new"] /\ sentence = [s \in Sentences |-> Unsaid] /\ closed = {}
  BY DEF PoolInit
<1>1. Unsaid \in SentenceRecords /\ Unsaid.at = "none" /\ ~ Unsaid.other /\ Unsaid.heard = {}
  BY DEF Unsaid, SentenceRecords, SentencePlaces, SentenceLines
<1>2. idle \in [Lines -> Seq(Warmed)] /\ \A l \in Lines : Len(idle[l]) = 0 BY <1>0
<1>3. DOMAIN lease = {} /\ lease = [o \in DOMAIN lease |-> lease[o]] BY <1>0
<1>4. PoolTypeOK BY <1>0, <1>1, <1>2, <1>3 DEF PoolTypeOK
<1>5. PoolOpen
  <2>1. Room(idle) = {} BY <1>2, PoolConstants DEF Room
  <2>2. \A l \in Lines : Len(idle[l]) <= MaxStreams BY <1>2, PoolConstants
  <2>3. /\ IsFiniteSet(DOMAIN lease) /\ Cardinality(DOMAIN lease) = 0
        /\ IsFiniteSet(Room(idle)) /\ Cardinality(Room(idle)) = 0
    BY <1>3, <2>1, FS_EmptySet
  <2>4. busy = Cardinality(DOMAIN lease) /\ busy + Cardinality(Room(idle)) <= MaxStreams
    BY <1>0, <2>3, PoolConstants
  <2> QED BY <2>2, <2>3, <2>4 DEF PoolOpen
<1>6. \A s \in Sentences : sentence[s] = Unsaid BY <1>0
<1>7. Holders = {} BY <1>0, <1>1, <1>6 DEF Holders, Leasing
<1>8. \A s \in Sentences : Place(s, sentence[s]) BY <1>1, <1>6 DEF Place
<1>9. Ordered /\ AskedFor BY <1>1, <1>6 DEF Ordered, AskedFor, Speaking
<1> QED BY <1>3, <1>4, <1>5, <1>7, <1>8, <1>9 DEF PoolInv

LEMMA PoolInvImplies == PoolInv => PoolCounts /\ SpokenOnce
<1> SUFFICES ASSUME PoolInv PROVE PoolCounts /\ SpokenOnce
    OBVIOUS
<1>1. PoolCounts BY RoomIsParked DEF PoolInv, PoolOpen, Holders, Leasing, PoolCounts
<1>2. ASSUME NEW l \in Lines
      PROVE  Cardinality({s \in Said(l) : sentence[s].at \in {"connecting", "asked", "fallback"}}) <= 1
  <2> DEFINE now2 == {s \in Said(l) : sentence[s].at \in Speaking}
  <2>1. \A r, s \in now2 : r = s
    <3> SUFFICES ASSUME NEW r \in now2, NEW s \in now2, r # s PROVE FALSE
        OBVIOUS
    <3>1. /\ r \in Sentences /\ s \in Sentences /\ sentence[r].line = l /\ sentence[s].line = l
          /\ sentence[r].at \in Speaking /\ sentence[s].at \in Speaking
      BY DEF Said
    <3>2. r < s \/ s < r BY <3>1, PoolConstants DEF Sentences
    <3> QED BY <3>1, <3>2 DEF PoolInv, Ordered, Speaking
  <2>2. now2 = {} \/ \E s \in now2 : now2 = {s} BY <2>1
  <2>3. Cardinality(now2) \in {0, 1} BY <2>2, FS_EmptySet, FS_Singleton
  <2>4. Cardinality(now2) <= 1 BY <2>3
  <2> QED BY <2>4 DEF Speaking
<1>3. \A s \in Sentences : sentence[s].heard \subseteq {s} /\ (sentence[s].other => sentence[s].heard = {})
  BY DEF PoolInv, Place
<1> QED BY <1>1, <1>2, <1>3 DEF SpokenOnce

LEMMA PrewarmKeeps == ASSUME PoolInv, NEW l \in Lines, Prewarm(l) \/ Prewarmed(l) PROVE PoolInv'
<1>0. Sound /\ DOMAIN lease = Holders BY PoolSound DEF PoolInv
<1>1. <<0, l>> \in DOMAIN lease <=> warming[l] = "connecting"
  BY <1>0, HoldersApart DEF Holders
<1>2. <<0, l>>[2] = l OBVIOUS
<1>3. CASE Prewarm(l)
  <2>0. warming[l] = "new" /\ sentence' = sentence /\ closed' = closed BY <1>3 DEF Prewarm
  <2>1. CASE busy < MaxStreams /\ ConnectNew(<<0, l>>) /\ warming' = [warming EXCEPT ![l] = "connecting"]
    <3>1. /\ Sound' /\ DOMAIN lease' = DOMAIN lease \cup {<<0, l>>}
          /\ (\A p \in DOMAIN lease : lease'[p] = lease[p])
      BY <1>0, <1>1, <1>2, <2>0, <2>1, ConnectCounts
    <3> QED BY <2>0, <2>1, <3>1, PrewarmMoves
  <2>2. CASE warming' = [warming EXCEPT ![l] = "over"] /\ UNCHANGED <<busy, idle, lease>>
    <3>1. Sound' BY <1>0, <2>2 DEF Sound, PoolOpen, Room
    <3>2. DOMAIN lease' = DOMAIN lease \ {<<0, l>>} BY <1>1, <2>0, <2>2
    <3> QED BY <2>0, <2>2, <3>1, <3>2, PrewarmMoves
  <2> QED BY <1>3, <2>1, <2>2 DEF Prewarm
<1>4. CASE Prewarmed(l)
  <2>0. /\ warming[l] = "connecting" /\ sentence' = sentence /\ closed' = closed
        /\ warming' = [warming EXCEPT ![l] = "over"] /\ <<0, l>> \in DOMAIN lease
    BY <1>1, <1>4 DEF Prewarmed
  <2>1. Fresh \in Warmed BY DEF Fresh, Warmed
  <2>2. CASE Park(<<0, l>>, Fresh)
    <3>1. /\ Sound' /\ DOMAIN lease' = DOMAIN lease \ {<<0, l>>}
          /\ (\A p \in DOMAIN lease' : lease'[p] = lease[p])
      BY <1>0, <1>2, <2>0, <2>1, <2>2, ParkCounts
    <3> QED BY <2>0, <3>1, PrewarmMoves
  <2>3. CASE Discard({<<0, l>>})
    <3>1. /\ Sound' /\ DOMAIN lease' = DOMAIN lease \ {<<0, l>>}
          /\ (\A p \in DOMAIN lease' : lease'[p] = lease[p])
      BY <1>0, <2>0, <2>3, DiscardCounts
    <3> QED BY <2>0, <3>1, PrewarmMoves
  <2> QED BY <1>4, <2>2, <2>3 DEF Prewarmed
<1> QED BY <1>3, <1>4

LEMMA ListsKeep ==
  ASSUME PoolInv, closed' \subseteq Lines, UNCHANGED <<busy, lease, warming, sentence>>,
         idle' \in [Lines -> Seq(Warmed)], \A l \in Lines : Len(idle'[l]) <= Len(idle[l])
  PROVE  PoolInv'
<1>1. Sound' BY PoolSound, ListsShrink
<1> QED BY <1>1, SocketsChange

LEMMA ListsMove ==
  ASSUME PoolInv, NEW l \in Lines, (\E i \in 1 .. MaxStreams : DropIdle(l, i)) \/ CloseLine(l)
  PROVE  PoolInv'
<1>0. /\ idle \in [Lines -> Seq(Warmed)] /\ closed \subseteq Lines
      /\ \A k \in Lines : Len(idle[k]) \in Nat
  BY LengthsKnown DEF PoolInv, PoolTypeOK
<1>1. ASSUME NEW list \in Seq(Warmed), idle' = [idle EXCEPT ![l] = list], Len(list) <= Len(idle[l])
      PROVE  idle' \in [Lines -> Seq(Warmed)] /\ \A k \in Lines : Len(idle'[k]) <= Len(idle[k])
  <2>1. idle' \in [Lines -> Seq(Warmed)] BY <1>0, <1>1
  <2>2. ASSUME NEW k \in Lines PROVE Len(idle'[k]) <= Len(idle[k])
    <3>1. CASE k = l BY <1>0, <1>1, <3>1
    <3>2. CASE k # l
      <4>1. idle'[k] = idle[k] BY <1>0, <1>1, <3>2
      <4> QED BY <1>0, <4>1
    <3> QED BY <3>1, <3>2
  <2> QED BY <2>1, <2>2
<1>2. ASSUME NEW i \in 1 .. MaxStreams, DropIdle(l, i) PROVE PoolInv'
  <2> DEFINE before == SubSeq(idle[l], 1, i - 1)
             after == SubSeq(idle[l], i + 1, Len(idle[l]))
  <2>1. /\ i <= Len(idle[l]) /\ idle' = [idle EXCEPT ![l] = before \o after]
        /\ UNCHANGED <<busy, lease, warming, sentence, closed>>
    BY <1>2 DEF DropIdle
  <2>2. i \in Nat /\ 1 <= i /\ idle[l] \in Seq(Warmed) /\ Len(idle[l]) \in Nat BY <1>0, PoolConstants
  <2>3. before \in Seq(Warmed) /\ Len(before) = i - 1 BY <2>1, <2>2, SubSeqProperties
  <2>4. after \in Seq(Warmed) /\ Len(after) = Len(idle[l]) - i BY <2>1, <2>2, SubSeqProperties
  <2> HIDE DEF before, after
  <2>5. before \o after \in Seq(Warmed) /\ Len(before \o after) = Len(before) + Len(after)
    BY <2>3, <2>4, ConcatProperties
  <2>6. Len(before \o after) <= Len(idle[l]) BY <2>2, <2>3, <2>4, <2>5
  <2> QED BY <1>0, <1>1, <2>1, <2>5, <2>6, ListsKeep
<1>3. CASE CloseLine(l)
  <2>1. /\ idle' = [idle EXCEPT ![l] = <<>>] /\ UNCHANGED <<busy, lease, warming, sentence>>
        /\ closed' \subseteq Lines
    BY <1>0, <1>3 DEF CloseLine
  <2>2. <<>> \in Seq(Warmed) /\ Len(<<>>) = 0 OBVIOUS
  <2>3. Len(<<>>) <= Len(idle[l]) BY <1>0, <2>2
  <2> QED BY <1>1, <2>1, <2>2, <2>3, ListsKeep
<1> QED BY <1>2, <1>3

\* what becomes of a sentence
LEMMA SentenceKeeps ==
  ASSUME PoolInv, NEW s \in Sentences,
         SentenceStep(s) \/ ReceiveFrame(s) \/ ReceiveDone(s) \/ \E l \in Lines : SpeakPiper(l, s)
  PROVE  PoolInv'
<1>0. /\ Sound /\ DOMAIN lease = Holders /\ sentence \in [Sentences -> SentenceRecords]
      /\ Place(s, sentence[s]) /\ busy \in Nat
  BY PoolSound DEF PoolInv, PoolTypeOK
<1>1. Holder(s) = <<s, sentence[s].line>> BY DEF Holder
<1>2. Holder(s) \in DOMAIN lease <=> sentence[s].at \in Leasing BY HolderLeased
<1>3. sentence[s].at \in SentencePlaces BY <1>0 DEF SentenceRecords
<1>4. UNCHANGED <<busy, idle, lease>> => Sound' BY <1>0 DEF Sound, PoolOpen, Room
\* the record alone moves
<1>5. ASSUME NEW place \in SentencePlaces, Placed(s, place), place \in {"fallback", "over"},
             sentence[s].at \notin {"none", "over"}, UNCHANGED <<warming, closed>>, Sound',
             DOMAIN lease' = DOMAIN lease \ {Holder(s)}, \A p \in DOMAIN lease' : lease'[p] = lease[p],
             place = "fallback" => ~ sentence[s].other /\ sentence[s].heard = {},
             place = "fallback" => sentence[s].at \in Speaking \/ Ahead(s) = {}
      PROVE  PoolInv'
  <2>1. PICK new \in SentenceRecords :
           /\ sentence' = [sentence EXCEPT ![s] = new]
           /\ new.at = place /\ new.line = sentence[s].line /\ new.heard = sentence[s].heard
           /\ (new.other <=> sentence[s].other)
    BY <1>5, PlacedGives
  <2>2. new.at \in {"fallback", "over"} /\ new.at \notin Leasing BY <1>5, <2>1 DEF Leasing
  <2>3. Place(s, new) BY <1>0, <1>5, <2>1, <2>2 DEF Place
  <2>4. new.at \in Speaking => new.at = "fallback" BY <2>2 DEF Speaking
  <2> QED BY <1>1, <1>5, <2>1, <2>2, <2>3, <2>4, SentenceMoves
<1>6. CASE \E l \in Lines : SpeakPiper(l, s)
  <2>1. PICK l \in Lines : SpeakPiper(l, s) BY <1>6
  <2>2. /\ sentence[s] = Unsaid /\ (\A r \in 1 .. s - 1 : sentence[r] # Unsaid)
        /\ sentence' = [sentence EXCEPT ![s].at = "waits", ![s].line = l]
        /\ UNCHANGED <<busy, idle, lease, warming, closed>>
    BY <2>1 DEF SpeakPiper
  <2> DEFINE new == [at |-> "waits", line |-> l, aborted |-> FALSE, heard |-> {}, other |-> FALSE]
  <2>3. sentence' = [sentence EXCEPT ![s] = new]
    <3>1. PICK k \in SentenceRecords : k = sentence[s] BY <1>0
    <3>2. [k EXCEPT !.at = "waits"] =
            [at |-> "waits", line |-> k.line, aborted |-> k.aborted, heard |-> k.heard, other |-> k.other]
      BY DEF SentenceRecords
    <3>3. [k EXCEPT !.at = "waits"] \in SentenceRecords BY <3>2 DEF SentenceRecords, SentencePlaces
    <3>4. PICK m \in SentenceRecords : m = [k EXCEPT !.at = "waits"] BY <3>3
    <3>5. [m EXCEPT !.line = l] = [at |-> m.at, line |-> l, aborted |-> m.aborted, heard |-> m.heard, other |-> m.other]
      BY DEF SentenceRecords
    <3>6. k.aborted = FALSE /\ k.heard = {} /\ k.other = FALSE BY <2>2, <3>1 DEF Unsaid
    <3>7. m.at = "waits" /\ m.aborted = FALSE /\ m.heard = {} /\ m.other = FALSE BY <3>2, <3>4, <3>6
    <3>8. [m EXCEPT !.line = l] = new BY <3>5, <3>7
    <3>9. [k EXCEPT !.at = "waits", !.line = l] = [[k EXCEPT !.at = "waits"] EXCEPT !.line = l] OBVIOUS
    <3>10. sentence' = [sentence EXCEPT ![s] = [k EXCEPT !.at = "waits", !.line = l]] BY <2>2, <3>1
    <3> QED BY <3>4, <3>8, <3>9, <3>10
  <2>4. new \in SentenceRecords BY DEF SentenceRecords, SentencePlaces, SentenceLines
  <2>5. new.at = "waits" /\ new.line = l /\ Place(s, new) BY DEF Place
  <2> HIDE DEF new
  <2>6. ASSUME NEW r \in Sentences, r < s PROVE sentence[r].at # "none"
    <3>1. r \in 1 .. s - 1 BY <2>6, PoolConstants DEF Sentences
    <3> QED BY <2>2, <3>1 DEF PoolInv, Place
  <2>7. sentence[s].at = "none" BY <2>2 DEF Unsaid
  <2>8. <<s, l>> \notin DOMAIN lease
    <3>1. ASSUME NEW r \in Sentences, sentence[r].at \in Leasing PROVE <<s, l>> # Holder(r)
      <4>1. r # s BY <2>7, <3>1 DEF Leasing
      <4> QED BY <4>1 DEF Holder
    <3>2. \A k \in Lines : <<s, l>> # <<0, k>> BY PoolConstants DEF Sentences
    <3> QED BY <1>0, <3>1, <3>2 DEF Holders
  <2>9. DOMAIN lease' = DOMAIN lease \ {<<s, l>>} BY <2>2, <2>8
  <2> QED BY <1>4, <2>2, <2>3, <2>4, <2>5, <2>6, <2>7, <2>9, SentenceMoves DEF Leasing, Speaking
<1>7. CASE Proceed(s)
  <2>1. /\ sentence[s].at = "waits" /\ Ahead(s) = {} /\ UNCHANGED <<warming, closed>>
        /\ Holder(s) \notin DOMAIN lease /\ sentence[s].line \in Lines
    BY <1>0, <1>2, <1>7 DEF Proceed, Leasing, Place
  <2>2. CASE (\E p \in {"over", "fallback"} : Placed(s, p)) /\ UNCHANGED <<busy, idle, lease>>
    <3>1. PICK p \in {"over", "fallback"} : Placed(s, p) BY <2>2
    <3>2. p \in SentencePlaces /\ DOMAIN lease' = DOMAIN lease \ {Holder(s)} BY <2>1, <2>2 DEF SentencePlaces
    <3>3. ~ sentence[s].other /\ sentence[s].heard = {} BY <1>0, <2>1 DEF Place
    <3> QED BY <1>4, <1>5, <2>1, <2>2, <3>1, <3>2, <3>3
  <2>3. CASE Reuse(s) /\ Placed(s, "asked")
    <3>1. /\ Sound' /\ DOMAIN lease' = DOMAIN lease \cup {Holder(s)} /\ lease'[Holder(s)].work = <<s>>
          /\ (\A p \in DOMAIN lease : lease'[p] = lease[p])
      BY <1>0, <2>1, <2>3, ReuseCounts
    <3>2. PICK new \in SentenceRecords :
             /\ sentence' = [sentence EXCEPT ![s] = new]
             /\ new.at = "asked" /\ new.line = sentence[s].line /\ new.heard = sentence[s].heard
             /\ (new.other <=> sentence[s].other)
      BY <2>3, PlacedGives DEF SentencePlaces
    <3>3. Place(s, new) BY <1>0, <2>1, <3>2 DEF Place
    <3> QED BY <1>1, <2>1, <3>1, <3>2, <3>3, SentenceMoves DEF Leasing
  <2>4. CASE ConnectNew(Holder(s)) /\ Placed(s, "connecting") /\ busy < MaxStreams
    <3>0. Holder(s)[2] \in Lines BY <1>1, <2>1
    <3>1. /\ Sound' /\ DOMAIN lease' = DOMAIN lease \cup {Holder(s)} /\ lease'[Holder(s)] = Fresh
          /\ (\A p \in DOMAIN lease : lease'[p] = lease[p])
      BY <1>0, <2>1, <2>4, <3>0, ConnectCounts
    <3>2. PICK new \in SentenceRecords :
             /\ sentence' = [sentence EXCEPT ![s] = new]
             /\ new.at = "connecting" /\ new.line = sentence[s].line /\ new.heard = sentence[s].heard
             /\ (new.other <=> sentence[s].other)
      BY <2>4, PlacedGives DEF SentencePlaces
    <3>3. Place(s, new) BY <1>0, <2>1, <3>2 DEF Place
    <3>4. Fresh.work = <<>> BY DEF Fresh
    <3> QED BY <1>1, <2>1, <3>1, <3>2, <3>3, <3>4, SentenceMoves DEF Leasing
  <2> QED BY <1>7, <2>2, <2>3, <2>4 DEF Proceed
<1>8. CASE PiperOpens(s)
  <2>1. /\ sentence[s].at = "connecting" /\ Placed(s, "asked") /\ UNCHANGED <<busy, idle, warming, closed>>
        /\ lease' = [lease EXCEPT ![Holder(s)] = Asked(@, s)] /\ Holder(s) \in DOMAIN lease
    BY <1>2, <1>8 DEF PiperOpens, Leasing
  <2>2. lease[Holder(s)] \in Sockets /\ lease[Holder(s)].work = <<>>
    BY <1>0, <2>1 DEF Sound, PoolInv, AskedFor, Socket
  <2>3. PICK socket \in Sockets : socket = lease[Holder(s)] BY <2>2
  <2>4. Asked(socket, s) \in Sockets /\ Asked(socket, s).work = <<s>>
    <3>1. Asked(socket, s) = [closing |-> socket.closing, work |-> Append(socket.work, s)] BY DEF Asked, Sockets
    <3>2. socket.closing \in BOOLEAN /\ socket.work = <<>> BY <2>2, <2>3 DEF Sockets
    <3>3. Append(socket.work, s) = <<s>> BY <3>2
    <3>4. <<s>> \in Tasks BY DEF Tasks
    <3> QED BY <3>1, <3>2, <3>3, <3>4 DEF Sockets
  <2>5. /\ DOMAIN lease' = DOMAIN lease /\ lease'[Holder(s)] = Asked(socket, s)
        /\ (\A p \in DOMAIN lease : p # Holder(s) => lease'[p] = lease[p])
        /\ lease' = [p \in DOMAIN lease' |-> lease'[p]]
    BY <2>1, <2>3
  <2>6. \A p \in DOMAIN lease' : lease'[p] \in Sockets BY <1>0, <2>4, <2>5 DEF Sound
  <2>7. Sound' BY <1>0, <2>1, <2>5, <2>6 DEF Sound, PoolOpen, Room
  <2>8. PICK new \in SentenceRecords :
           /\ sentence' = [sentence EXCEPT ![s] = new]
           /\ new.at = "asked" /\ new.line = sentence[s].line /\ new.heard = sentence[s].heard
           /\ (new.other <=> sentence[s].other)
    BY <2>1, PlacedGives DEF SentencePlaces
  <2>9. Place(s, new) BY <1>0, <2>1, <2>8 DEF Place
  <2>10. DOMAIN lease' = DOMAIN lease \cup {<<s, new.line>>} BY <1>1, <2>1, <2>5, <2>8
  <2> QED BY <1>1, <2>1, <2>4, <2>5, <2>7, <2>8, <2>9, <2>10, SentenceMoves DEF Leasing, Speaking
<1>9. CASE RequestFails(s)
  <2>1. /\ sentence[s].at \in Leasing /\ PiperFailed(s) /\ Discard({Holder(s)}) /\ UNCHANGED <<warming, closed>>
        /\ Holder(s) \in DOMAIN lease
    BY <1>2, <1>9 DEF RequestFails, Leasing
  <2>2. /\ Sound' /\ DOMAIN lease' = DOMAIN lease \ {Holder(s)}
        /\ (\A p \in DOMAIN lease' : lease'[p] = lease[p])
    BY <1>0, <2>1, DiscardCounts
  <2>3. PICK p \in {"over", "fallback"} : Placed(s, p) /\ (p = "fallback" => sentence[s].heard = {})
    BY <2>1 DEF PiperFailed
  <2>4. p \in SentencePlaces /\ ~ sentence[s].other /\ sentence[s].at \in Speaking /\ sentence[s].at \notin {"none", "over"}
    BY <1>0, <2>1 DEF SentencePlaces, Leasing, Speaking, Place
  <2> QED BY <1>5, <2>1, <2>2, <2>3, <2>4
<1>10. CASE ReceiveFrame(s)
  <2>1. /\ sentence[s].at = "asked" /\ UNCHANGED <<busy, idle, lease, warming, closed>>
        /\ sentence' = [sentence EXCEPT ![s].heard = @ \cup {Head(Socket(s).work)}]
    BY <1>10 DEF ReceiveFrame, Answering
  <2>2. Socket(s).work = <<s>> /\ Holder(s) \in DOMAIN lease BY <1>2, <2>1 DEF PoolInv, AskedFor, Leasing
  <2>3. Head(Socket(s).work) = s BY <2>2
  <2>4. PICK k \in SentenceRecords : k = sentence[s] BY <1>0
  <2> DEFINE new == [k EXCEPT !.heard = k.heard \cup {s}]
  <2>5. new = [at |-> k.at, line |-> k.line, aborted |-> k.aborted, heard |-> k.heard \cup {s}, other |-> k.other]
    BY DEF SentenceRecords
  <2>6. k.at \in SentencePlaces /\ k.line \in SentenceLines /\ k.aborted \in BOOLEAN /\ k.heard \in SUBSET Sentences /\ k.other \in BOOLEAN
    BY DEF SentenceRecords
  <2>7. new \in SentenceRecords
    <3>1. k.heard \cup {s} \in SUBSET Sentences BY <2>6
    <3> QED BY <2>5, <2>6, <3>1 DEF SentenceRecords
  <2>8. sentence' = [sentence EXCEPT ![s] = new] BY <2>1, <2>3, <2>4
  <2>9. new.at = "asked" /\ new.line = sentence[s].line /\ new.heard = k.heard \cup {s} /\ new.other = k.other
    BY <2>1, <2>4, <2>5
  <2> HIDE DEF new
  <2>10. Place(s, new) BY <1>0, <2>1, <2>4, <2>9 DEF Place
  <2>11. DOMAIN lease' = DOMAIN lease \cup {<<s, new.line>>} BY <1>1, <2>1, <2>2, <2>9
  <2>12. lease'[<<s, new.line>>].work = <<s>> BY <1>1, <2>1, <2>2, <2>9 DEF Socket
  <2> QED BY <1>4, <2>1, <2>7, <2>8, <2>9, <2>10, <2>11, <2>12, SentenceMoves DEF Leasing, Speaking
<1>11. CASE ReceiveDone(s)
  <2>1. /\ sentence[s].at = "asked" /\ Placed(s, "over") /\ UNCHANGED <<warming, closed>>
        /\ Park(Holder(s), [Socket(s) EXCEPT !.work = Tail(@)]) /\ Holder(s) \in DOMAIN lease
    BY <1>2, <1>11 DEF ReceiveDone, Answering, Leasing
  <2>2. Socket(s) \in Sockets /\ Socket(s).work = <<s>> BY <1>0, <2>1 DEF Sound, PoolInv, AskedFor, Socket
  <2>3. PICK socket \in Sockets : socket = Socket(s) BY <2>2
  <2>4. [socket EXCEPT !.work = Tail(@)] \in Warmed
    <3>1. Tail(<<s>>) = <<>> OBVIOUS
    <3>2. [socket EXCEPT !.work = Tail(@)] = [socket EXCEPT !.work = <<>>] BY <2>2, <2>3, <3>1
    <3>3. [socket EXCEPT !.work = <<>>] = [closing |-> socket.closing, work |-> <<>>] BY DEF Sockets
    <3>4. socket.closing \in BOOLEAN BY DEF Sockets
    <3> QED BY <3>2, <3>3, <3>4 DEF Warmed
  <2>5. Holder(s)[2] \in Lines BY <1>0, <1>1, <2>1 DEF Place
  <2>6. /\ Sound' /\ DOMAIN lease' = DOMAIN lease \ {Holder(s)}
        /\ \A p \in DOMAIN lease' : lease'[p] = lease[p]
    BY <1>0, <2>1, <2>3, <2>4, <2>5, ParkCounts
  <2> QED BY <1>5, <2>1, <2>6 DEF SentencePlaces
<1>12. CASE FallbackEnds(s)
  <2>1. /\ sentence[s].at = "fallback" /\ UNCHANGED <<busy, idle, lease, warming, closed>>
        /\ \E audio \in BOOLEAN : sentence' = [sentence EXCEPT ![s].at = "over", ![s].other = audio]
    BY <1>12 DEF FallbackEnds
  <2>2. PICK audio \in BOOLEAN : sentence' = [sentence EXCEPT ![s].at = "over", ![s].other = audio] BY <2>1
  <2>3. PICK k \in SentenceRecords : k = sentence[s] BY <1>0
  <2> DEFINE new == [at |-> "over", line |-> k.line, aborted |-> k.aborted, heard |-> k.heard, other |-> audio]
  <2>4. k.line \in SentenceLines /\ k.aborted \in BOOLEAN /\ k.heard \in SUBSET Sentences /\ k.other \in BOOLEAN
    BY DEF SentenceRecords
  <2>5. new \in SentenceRecords BY <2>4 DEF SentenceRecords, SentencePlaces
  <2>6. sentence' = [sentence EXCEPT ![s] = new]
    <3>1. [k EXCEPT !.at = "over"] =
            [at |-> "over", line |-> k.line, aborted |-> k.aborted, heard |-> k.heard, other |-> k.other]
      BY DEF SentenceRecords
    <3>2. [k EXCEPT !.at = "over"] \in SentenceRecords BY <2>4, <3>1 DEF SentenceRecords, SentencePlaces
    <3>3. PICK m \in SentenceRecords : m = [k EXCEPT !.at = "over"] BY <3>2
    <3>4. [m EXCEPT !.other = audio] = [at |-> m.at, line |-> m.line, aborted |-> m.aborted, heard |-> m.heard, other |-> audio]
      BY DEF SentenceRecords
    <3>5. m.at = "over" /\ m.line = k.line /\ m.aborted = k.aborted /\ m.heard = k.heard BY <3>1, <3>3
    <3>6. [m EXCEPT !.other = audio] = new BY <3>4, <3>5
    <3>7. [k EXCEPT !.at = "over", !.other = audio] = [[k EXCEPT !.at = "over"] EXCEPT !.other = audio] OBVIOUS
    <3>8. sentence' = [sentence EXCEPT ![s] = [k EXCEPT !.at = "over", !.other = audio]] BY <2>2, <2>3
    <3> QED BY <3>3, <3>6, <3>7, <3>8
  <2>7. new.at = "over" /\ new.line = sentence[s].line /\ new.heard = k.heard /\ (new.other => new.heard = {})
    BY <1>0, <2>1, <2>3 DEF Place
  <2> HIDE DEF new
  <2>8. Place(s, new) BY <1>0, <2>1, <2>3, <2>7 DEF Place
  <2>9. DOMAIN lease' = DOMAIN lease \ {<<s, new.line>>} BY <1>1, <1>2, <2>1, <2>7 DEF Leasing
  <2> QED BY <1>4, <2>1, <2>5, <2>6, <2>7, <2>8, <2>9, SentenceMoves DEF Leasing, Speaking
<1> QED BY <1>6, <1>7, <1>8, <1>9, <1>10, <1>11, <1>12 DEF SentenceStep

\* the record of a sentence that a barge-in cuts
CutPlace(place) == IF place \in {"asked", "fallback"} THEN "over" ELSE place
LEMMA CutRecord ==
  ASSUME NEW k \in SentenceRecords
  PROVE  \E new \in SentenceRecords :
           /\ new = [k EXCEPT !.aborted = TRUE, !.at = IF @ \in {"asked", "fallback"} THEN "over" ELSE @]
           /\ new.at = CutPlace(k.at) /\ new.line = k.line /\ new.heard = k.heard /\ new.other = k.other
<1>0. k.at \in SentencePlaces /\ k.line \in SentenceLines /\ k.heard \in SUBSET Sentences /\ k.other \in BOOLEAN
  BY DEF SentenceRecords
<1>1. [k EXCEPT !.aborted = TRUE] =
        [at |-> k.at, line |-> k.line, aborted |-> TRUE, heard |-> k.heard, other |-> k.other]
  <2>1. ASSUME NEW b \in BOOLEAN
        PROVE  [k EXCEPT !.aborted = b] =
                 [at |-> k.at, line |-> k.line, aborted |-> b, heard |-> k.heard, other |-> k.other]
    BY DEF SentenceRecords
  <2> QED BY <2>1
<1>2. [k EXCEPT !.aborted = TRUE] \in SentenceRecords BY <1>0, <1>1 DEF SentenceRecords
<1>3. PICK m \in SentenceRecords : m = [k EXCEPT !.aborted = TRUE] BY <1>2
<1>4. [m EXCEPT !.at = CutPlace(k.at)] =
        [at |-> CutPlace(k.at), line |-> m.line, aborted |-> m.aborted, heard |-> m.heard, other |-> m.other]
  BY DEF SentenceRecords
<1>5. m.at = k.at /\ m.line = k.line /\ m.aborted = TRUE /\ m.heard = k.heard /\ m.other = k.other BY <1>1, <1>3
<1>6. [k EXCEPT !.aborted = TRUE, !.at = IF @ \in {"asked", "fallback"} THEN "over" ELSE @]
        = [m EXCEPT !.at = CutPlace(k.at)]
  BY <1>3, <1>5 DEF CutPlace
<1>7. CutPlace(k.at) \in SentencePlaces BY <1>0 DEF CutPlace, SentencePlaces
<1>8. [m EXCEPT !.at = CutPlace(k.at)] \in SentenceRecords BY <1>0, <1>4, <1>5, <1>7 DEF SentenceRecords
<1>9. PICK new \in SentenceRecords : new = [m EXCEPT !.at = CutPlace(k.at)] BY <1>8
<1>10. new.at = CutPlace(k.at) /\ new.line = k.line /\ new.heard = k.heard /\ new.other = k.other
  BY <1>4, <1>5, <1>9
<1> QED BY <1>6, <1>9, <1>10

LEMMA BargeInKeeps == ASSUME PoolInv, NEW l \in Lines, BargeInPiper(l) PROVE PoolInv'
<1> DEFINE ended == {s \in Cut(l) : sentence[s].at = "asked"}
           held == {Holder(s) : s \in ended}
<1>0. /\ Sound /\ DOMAIN lease = Holders /\ sentence \in [Sentences -> SentenceRecords]
      /\ warming \in [Lines -> {"new", "connecting", "over"}] /\ closed \subseteq Lines
      /\ (\A s \in Sentences : Place(s, sentence[s])) /\ Ordered
  BY PoolSound DEF PoolInv, PoolTypeOK
<1>1. /\ Discard(held) /\ warming' = warming /\ closed' = closed
      /\ sentence' = [s \in Sentences |->
           IF s \notin Cut(l) THEN sentence[s]
           ELSE [sentence[s] EXCEPT !.aborted = TRUE, !.at = IF @ \in {"asked", "fallback"} THEN "over" ELSE @]]
  BY DEF BargeInPiper, StopRequests
<1>2. ended \subseteq Sentences BY DEF Cut, Said
<1>3. held \in SUBSET DOMAIN lease
  <2> SUFFICES ASSUME NEW s \in ended PROVE Holder(s) \in DOMAIN lease
      OBVIOUS
  <2> QED BY <1>2, HolderLeased DEF Leasing
<1>4. /\ Sound' /\ DOMAIN lease' = DOMAIN lease \ held
      /\ \A p \in DOMAIN lease' : lease'[p] = lease[p]
  BY <1>0, <1>1, <1>3, DiscardCounts
<1>5. \A s \in Sentences : /\ sentence'[s] \in SentenceRecords
                           /\ sentence'[s].line = sentence[s].line /\ sentence'[s].heard = sentence[s].heard
                           /\ sentence'[s].other = sentence[s].other
                           /\ sentence'[s].at = IF s \in Cut(l) THEN CutPlace(sentence[s].at) ELSE sentence[s].at
  <2> SUFFICES ASSUME NEW s \in Sentences
               PROVE  /\ sentence'[s] \in SentenceRecords
                      /\ sentence'[s].line = sentence[s].line /\ sentence'[s].heard = sentence[s].heard
                      /\ sentence'[s].other = sentence[s].other
                      /\ sentence'[s].at = IF s \in Cut(l) THEN CutPlace(sentence[s].at) ELSE sentence[s].at
      OBVIOUS
  <2>1. PICK k \in SentenceRecords : k = sentence[s] BY <1>0
  <2>2. CASE s \in Cut(l)
    <3>1. PICK new \in SentenceRecords :
             /\ new = [k EXCEPT !.aborted = TRUE, !.at = IF @ \in {"asked", "fallback"} THEN "over" ELSE @]
             /\ new.at = CutPlace(k.at) /\ new.line = k.line /\ new.heard = k.heard /\ new.other = k.other
      BY CutRecord
    <3>2. sentence'[s] = new BY <1>1, <2>1, <2>2, <3>1
    <3> QED BY <2>1, <2>2, <3>1, <3>2
  <2>3. CASE s \notin Cut(l)
    <3>1. sentence'[s] = sentence[s] BY <1>1, <2>3
    <3> QED BY <1>0, <2>3, <3>1
  <2> QED BY <2>2, <2>3
<1>6. \A s \in Sentences : s \in Cut(l) => sentence[s].line = l /\ l \in Lines BY DEF Cut, Said
<1>7. \A s \in Sentences : s \notin Cut(l) => sentence'[s] = sentence[s] BY <1>1
<1>8. \A s \in Sentences : s \in Cut(l) => sentence[s].at # "none"
  BY <1>0, <1>6, PoolConstants DEF Place, Unsaid
<1>9. \A s \in Sentences : Place(s, sentence'[s])
  <2> SUFFICES ASSUME NEW s \in Sentences PROVE Place(s, sentence'[s])
      OBVIOUS
  <2>1. CASE s \in Cut(l) BY <1>0, <1>5, <1>8, <2>1 DEF Place, CutPlace
  <2>2. CASE s \notin Cut(l) BY <1>0, <1>7, <2>2
  <2> QED BY <2>1, <2>2
<1>10. Ordered'
  <2>1. \A s \in Sentences : /\ sentence'[s].at = "none" <=> sentence[s].at = "none"
                             /\ sentence'[s].at \in Speaking => sentence[s].at \in Speaking
                             /\ sentence[s].at = "over" => sentence'[s].at = "over"
    BY <1>5 DEF CutPlace, Speaking
  <2> QED BY <1>0, <1>5, <2>1 DEF Ordered
<1>11. sentence' \in [Sentences -> SentenceRecords]
  <2>1. DOMAIN sentence' = Sentences /\ sentence' = [s \in Sentences |-> sentence'[s]] BY <1>1
  <2> QED BY <1>5, <2>1
<1>12. \A s \in Sentences : Holder(s)' = Holder(s) BY <1>5 DEF Holder
<1>13. \A s \in Sentences : sentence'[s].at \in Leasing <=> sentence[s].at \in Leasing /\ s \notin ended
  BY <1>5 DEF CutPlace, Leasing
<1>14. DOMAIN lease' = Holders'
  <2>1. \A s \in Sentences : Holder(s) \in held <=> s \in ended BY <1>2, HoldersApart
  <2>2. \A k \in Lines : <<0, k>> \notin held BY <1>2, HoldersApart
  <2> HIDE DEF held, ended
  <2>3. ASSUME NEW p \in DOMAIN lease' PROVE p \in Holders'
    <3>1. p \in Holders /\ p \notin held BY <1>0, <1>4
    <3>2. CASE \E k \in {j \in Lines : warming[j] = "connecting"} : p = <<0, k>> BY <1>1, <3>2 DEF Holders
    <3>3. ASSUME NEW s \in Sentences, sentence[s].at \in Leasing, p = Holder(s) PROVE p \in Holders'
      BY <1>12, <1>13, <2>1, <3>1, <3>3 DEF Holders
    <3> QED BY <3>1, <3>2, <3>3 DEF Holders
  <2>4. ASSUME NEW p \in Holders' PROVE p \in DOMAIN lease'
    <3>1. CASE \E k \in {j \in Lines : warming'[j] = "connecting"} : p = <<0, k>>
      <4>1. p \in Holders /\ p \notin held BY <1>1, <2>2, <3>1 DEF Holders
      <4> QED BY <1>0, <1>4, <4>1
    <3>2. ASSUME NEW s \in Sentences, sentence'[s].at \in Leasing, p = Holder(s)' PROVE p \in DOMAIN lease'
      <4>1. p = Holder(s) /\ sentence[s].at \in Leasing /\ s \notin ended BY <1>12, <1>13, <3>2
      <4>2. p \in Holders /\ p \notin held BY <2>1, <4>1 DEF Holders
      <4> QED BY <1>0, <1>4, <4>2
    <3> QED BY <2>4, <3>1, <3>2 DEF Holders
  <2> QED BY <2>3, <2>4
<1>15. AskedFor'
  <2> SUFFICES ASSUME NEW s \in Sentences
               PROVE  /\ sentence'[s].at = "asked" => lease'[Holder(s)].work = <<s>>
                      /\ sentence'[s].at = "connecting" => lease'[Holder(s)].work = <<>>
      BY <1>12 DEF AskedFor, Socket
  <2>1. /\ sentence[s].at = "asked" => lease[Holder(s)].work = <<s>>
        /\ sentence[s].at = "connecting" => lease[Holder(s)].work = <<>>
    BY DEF PoolInv, AskedFor, Socket
  <2>2. /\ sentence'[s].at = "asked" => sentence[s].at = "asked"
        /\ sentence'[s].at = "connecting" => sentence[s].at = "connecting"
    BY <1>5 DEF CutPlace
  <2>3. sentence'[s].at \in Leasing => Holder(s) \in DOMAIN lease' BY <1>12, <1>14 DEF Holders
  <2> QED BY <1>4, <2>1, <2>2, <2>3 DEF Leasing
<1>16. PoolTypeOK' /\ PoolOpen' BY <1>0, <1>1, <1>4, <1>11 DEF Sound, PoolTypeOK
<1> QED BY <1>9, <1>10, <1>14, <1>15, <1>16 DEF PoolInv

LEMMA PeerKeeps == ASSUME PoolInv, PeerCloses PROVE PoolInv'
<1>0. /\ Sound /\ idle \in [Lines -> Seq(Warmed)] /\ closed \subseteq Lines /\ UNCHANGED <<busy, warming, sentence, closed>>
      /\ \A l \in Lines : Len(idle[l]) \in Nat
  BY PoolSound, LengthsKnown DEF PoolInv, PoolTypeOK, PeerCloses
<1>1. ASSUME NEW p \in Parked, idle' = [idle EXCEPT ![p[1]][p[2]].closing = TRUE], lease' = lease PROVE PoolInv'
  <2>1. PICK l \in Lines, i \in 1 .. MaxStreams : p = <<l, i>> /\ i <= Len(idle[l]) BY DEF Parked
  <2> DEFINE list == idle[l]
             new == [list EXCEPT ![i] = [list[i] EXCEPT !.closing = TRUE]]
  <2>2. idle' = [idle EXCEPT ![l] = new] BY <1>1, <2>1
  <2>3. list \in Seq(Warmed) /\ i \in 1 .. Len(list) /\ Len(list) \in Nat BY <1>0, <2>1, PoolConstants
  <2>4. list[i] \in Warmed BY <2>3, ElementOfSeq
  <2>5. [list[i] EXCEPT !.closing = TRUE] \in Warmed BY <2>4 DEF Warmed
  <2>6. new \in Seq(Warmed) /\ Len(new) = Len(list) BY <2>3, <2>5, ExceptSeq
  <2> HIDE DEF new
  <2>7. idle' \in [Lines -> Seq(Warmed)] BY <1>0, <2>2, <2>6
  <2>8. ASSUME NEW k \in Lines PROVE Len(idle'[k]) <= Len(idle[k])
    <3>1. CASE k = l
      <4>1. Len(idle'[k]) = Len(idle[k]) BY <1>0, <2>2, <2>6, <3>1
      <4> QED BY <1>0, <4>1
    <3>2. CASE k # l
      <4>1. Len(idle'[k]) = Len(idle[k]) BY <1>0, <2>2, <3>2
      <4> QED BY <1>0, <4>1
    <3> QED BY <3>1, <3>2
  <2> QED BY <1>0, <1>1, <2>7, <2>8, ListsKeep
<1>2. ASSUME NEW s \in Sentences, sentence[s].at = "asked", idle' = idle,
             lease' = [lease EXCEPT ![Holder(s)].closing = TRUE]
      PROVE PoolInv'
  <2>1. Holder(s) \in DOMAIN lease BY <1>2, HolderLeased DEF Leasing
  <2>2. PICK socket \in Sockets : socket = lease[Holder(s)] BY <1>0, <2>1 DEF Sound
  <2>3. [socket EXCEPT !.closing = TRUE] \in Sockets /\ [socket EXCEPT !.closing = TRUE].work = socket.work BY DEF Sockets
  <2>4. /\ DOMAIN lease' = DOMAIN lease /\ lease'[Holder(s)] = [socket EXCEPT !.closing = TRUE]
        /\ (\A o \in DOMAIN lease : o # Holder(s) => lease'[o] = lease[o])
        /\ lease' = [o \in DOMAIN lease' |-> lease'[o]]
    BY <1>2, <2>1, <2>2
  <2>5. \A o \in DOMAIN lease' : lease'[o] \in Sockets /\ lease'[o].work = lease[o].work
    BY <1>0, <2>2, <2>3, <2>4 DEF Sound
  <2>6. Sound' BY <1>0, <1>2, <2>4, <2>5 DEF Sound, PoolOpen, Room
  <2> QED BY <1>0, <2>4, <2>5, <2>6, SocketsChange
<1> QED BY <1>1, <1>2 DEF PeerCloses

LEMMA PoolInvStep == PoolInv /\ [PoolNext]_poolVars => PoolInv'
<1> SUFFICES ASSUME PoolInv, [PoolNext]_poolVars PROVE PoolInv'
    OBVIOUS
<1>1. CASE UNCHANGED poolVars
  <2>1. UNCHANGED <<busy, idle, lease, warming, sentence, closed>> BY <1>1 DEF poolVars
  <2>2. Sound' BY <2>1, PoolSound DEF Sound, PoolOpen, Room
  <2>3. closed' \subseteq Lines BY <2>1 DEF PoolInv, PoolTypeOK
  <2> QED BY <2>1, <2>2, <2>3, SocketsChange
<1>2. CASE PeerCloses BY <1>2, PeerKeeps
<1>3. ASSUME NEW s \in Sentences, SentenceStep(s) \/ ReceiveFrame(s) \/ ReceiveDone(s) PROVE PoolInv'
  BY <1>3, SentenceKeeps
<1>4. ASSUME NEW l \in Lines, Prewarm(l) \/ Prewarmed(l) PROVE PoolInv' BY <1>4, PrewarmKeeps
<1>5. ASSUME NEW l \in Lines, BargeInPiper(l) PROVE PoolInv' BY <1>5, BargeInKeeps
<1>6. ASSUME NEW l \in Lines, CloseLine(l) \/ DropAny(l) PROVE PoolInv' BY <1>6, ListsMove DEF DropAny
<1>7. ASSUME NEW l \in Lines, NEW s \in Sentences, SpeakPiper(l, s) PROVE PoolInv' BY <1>7, SentenceKeeps
<1> QED BY <1>1, <1>2, <1>3, <1>4, <1>5, <1>6, <1>7 DEF PoolNext

-----------------------------------------------------------------------------
(* Counting.  A set that gains or loses x is one larger or smaller.        *)
LEMMA OneMoves ==
  ASSUME NEW S, NEW T, NEW x, IsFiniteSet(S), \A y : y # x => (y \in S <=> y \in T)
  PROVE  /\ IsFiniteSet(T) /\ Cardinality(S) \in Nat /\ Cardinality(T) \in Nat
         /\ x \in T /\ x \notin S => Cardinality(T) = Cardinality(S) + 1
         /\ x \in S /\ x \notin T => Cardinality(T) = Cardinality(S) - 1
         /\ (x \in S <=> x \in T) => Cardinality(T) = Cardinality(S)
<1>1. CASE x \in T /\ x \notin S
  <2>1. T = S \cup {x} BY <1>1
  <2> QED BY <1>1, <2>1, FS_AddElement, FS_CardinalityType
<1>2. CASE x \in S /\ x \notin T
  <2>1. T = S \ {x} BY <1>2
  <2> QED BY <1>2, <2>1, FS_RemoveElement, FS_CardinalityType
<1>3. CASE x \in S <=> x \in T
  <2>1. T = S BY <1>3
  <2> QED BY <1>3, <2>1, FS_CardinalityType
<1> QED BY <1>1, <1>2, <1>3

-----------------------------------------------------------------------------
(* The workers that take a file: what each place of a request says of the  *)
(* work, of its report and of the answer.                                  *)
UploadPlaces == Counted \cup {"new", "body", "decode", "admit", "reporting", "respond", "over"}
Statuses == {0, 200, 400, 401, 413, 415, 499, 500, 503, 504}
UploadRecords == [pc : UploadPlaces, status : Statuses,
                  late : BOOLEAN, done : BOOLEAN, tries : 0 .. MaxReports, charged : 0 .. MaxReports]

ReportKept(u, last) ==
  /\ u.charged <= u.tries /\ (u.charged > 0 => u.done)
  /\ u.pc \in {"settled", "respond", "reporting"} => u.done
  /\ u.pc \notin {"respond", "reporting", "over"} => u.tries = 0
  /\ u.pc = "reporting" => u.tries < IF last THEN MaxReports ELSE 1
  /\ last => /\ u.charged > 0 \/ u.pc = "reporting" => u.status = 200
             /\ u.pc = "respond" => u.tries = 0
  /\ ~ last => u.tries <= 1

InSlots == {r \in Uploads : upload[r].pc \in Counted}

BatchInv ==
  /\ kind \in BatchKinds /\ loaded \in BOOLEAN /\ separating \in 0 .. MaxSeparations
  /\ upload \in [Uploads -> UploadRecords] /\ \A r \in Uploads : ReportKept(upload[r], ReportsLast)
  /\ lock = {r \in Uploads : upload[r].pc \in Holds} /\ \A q, r \in lock : q = r
  /\ \A r \in Uploads : upload[r].late => HasDeadline
  /\ IsFiniteSet(InSlots) /\ (HasSlot => separating = Cardinality(InSlots))

\* no worker has both (WorkerOf)
LEMMA DeadlineOrSlots == kind \in BatchKinds => ~ HasDeadline \/ ~ HasSlot
  BY BatchAssumption DEF BatchAssumption, HasDeadline, HasSlot, WorkerOf, SttProd, Stt, Demucs

LEMMA BatchInvInit == BatchInit => BatchInv
<1> SUFFICES ASSUME BatchInit PROVE BatchInv
    OBVIOUS
<1>1. upload \in [Uploads -> UploadRecords] /\ \A r \in Uploads : upload[r].pc = "new" /\ ~ upload[r].late /\ ReportKept(upload[r], ReportsLast)
  BY BatchAssumption DEF BatchAssumption, BatchInit, UploadRecords, UploadPlaces, Statuses, ReportKept
<1>2. InSlots = {} /\ {r \in Uploads : upload[r].pc \in Holds} = {} BY <1>1 DEF InSlots, Counted, Holds
<1> QED BY <1>1, <1>2, FS_EmptySet, BatchAssumption DEF BatchAssumption, BatchInit, BatchInv, nobody

LEMMA BatchInvImplies == BatchInv => LockAndSlots /\ ChargedIsDone
<1> SUFFICES ASSUME BatchInv PROVE LockAndSlots /\ ChargedIsDone
    OBVIOUS
<1>1. BatchTypeOK BY DEF BatchInv, BatchTypeOK, UploadRecords, UploadPlaces, Statuses
<1>2. Cardinality(lock) <= 1
  <2>1. CASE lock = {} BY <2>1, FS_EmptySet
  <2>2. CASE lock # {}
    <3>1. PICK r \in lock : TRUE BY <2>2
    <3>2. lock = {r} BY <3>1 DEF BatchInv
    <3> QED BY <3>2, FS_Singleton
  <2> QED BY <2>1, <2>2
<1>3. ChargedIsDone
  <2> SUFFICES ASSUME NEW r \in Uploads, upload[r].charged > 0
               PROVE  /\ upload[r].done /\ (upload[r].charged > 1 => ReportsLast)
                      /\ ReportsLast => upload[r].status = 200
      BY DEF ChargedIsDone
  <2>1. upload[r] \in UploadRecords /\ ReportKept(upload[r], ReportsLast) BY DEF BatchInv
  <2>2. upload[r].charged \in Nat /\ upload[r].tries \in Nat
    BY <2>1, BatchAssumption DEF BatchAssumption, UploadRecords
  <2> QED BY <2>1, <2>2 DEF ReportKept
<1> QED BY <1>1, <1>2, <1>3 DEF BatchInv, LockAndSlots, InSlots

\* A step of one request keeps the invariant if its own record does, and the lock and the
\* slots follow it.
LEMMA UploadMoves ==
  ASSUME BatchInv, NEW r \in Uploads, NEW new \in UploadRecords, ReportKept(new, ReportsLast),
         upload' = [upload EXCEPT ![r] = new], kind' = kind, loaded' \in BOOLEAN,
         new.late => HasDeadline,
         \/ lock' = lock /\ (new.pc \in Holds <=> upload[r].pc \in Holds)
         \/ lock = {} /\ lock' = {r} /\ new.pc \in Holds
         \/ lock' = {} /\ upload[r].pc \in Holds /\ new.pc \notin Holds,
         \/ separating' = separating /\ (HasSlot => (new.pc \in Counted <=> upload[r].pc \in Counted))
         \/ separating' = separating + 1 /\ separating < MaxSeparations /\ new.pc \in Counted /\ upload[r].pc \notin Counted
         \/ HasSlot /\ separating' = separating - 1 /\ new.pc \notin Counted /\ upload[r].pc \in Counted
  PROVE  BatchInv'
<1>1. /\ ReportsLast' = ReportsLast /\ HasSlot' = HasSlot /\ HasDeadline' = HasDeadline
  BY DEF ReportsLast, HasSlot, HasDeadline
<1>2. /\ upload' \in [Uploads -> UploadRecords] /\ upload'[r] = new
      /\ \A q \in Uploads : q # r => upload'[q] = upload[q]
  BY DEF BatchInv
<1>3. /\ \A q \in Uploads : ReportKept(upload'[q], ReportsLast')
      /\ \A q \in Uploads : upload'[q].late => HasDeadline'
  BY <1>1, <1>2 DEF BatchInv
<1>4. lock' = {q \in Uploads : upload'[q].pc \in Holds} /\ \A p, q \in lock' : p = q
  <2>0. lock = {q \in Uploads : upload[q].pc \in Holds} /\ \A p, q \in lock : p = q BY DEF BatchInv
  <2>1. CASE lock' = lock /\ (new.pc \in Holds <=> upload[r].pc \in Holds) BY <1>2, <2>0, <2>1
  <2>2. CASE lock = {} /\ lock' = {r} /\ new.pc \in Holds BY <1>2, <2>0, <2>2
  <2>3. CASE lock' = {} /\ upload[r].pc \in Holds /\ new.pc \notin Holds BY <1>2, <2>0, <2>3
  <2> QED BY <2>1, <2>2, <2>3
<1>5. /\ \A q : q # r => (q \in InSlots <=> q \in InSlots')
      /\ (r \in InSlots <=> upload[r].pc \in Counted) /\ (r \in InSlots' <=> new.pc \in Counted)
  BY <1>2 DEF InSlots
<1>6. IsFiniteSet(InSlots) BY DEF BatchInv
<1>7. /\ IsFiniteSet(InSlots') /\ Cardinality(InSlots) \in Nat /\ Cardinality(InSlots') \in Nat
      /\ r \in InSlots' /\ r \notin InSlots => Cardinality(InSlots') = Cardinality(InSlots) + 1
      /\ r \in InSlots /\ r \notin InSlots' => Cardinality(InSlots') = Cardinality(InSlots) - 1
      /\ (r \in InSlots <=> r \in InSlots') => Cardinality(InSlots') = Cardinality(InSlots)
  BY <1>5, <1>6, OneMoves
<1>8. /\ HasSlot => separating' = Cardinality(InSlots')
      /\ separating' \in 0 .. MaxSeparations
  <2>0. /\ HasSlot => separating = Cardinality(InSlots)
        /\ separating \in 0 .. MaxSeparations /\ MaxSeparations \in Nat
    BY BatchAssumption DEF BatchInv, BatchAssumption
  <2>1. CASE separating' = separating /\ (HasSlot => (new.pc \in Counted <=> upload[r].pc \in Counted))
    BY <1>5, <1>7, <2>0, <2>1
  <2>2. CASE separating' = separating + 1 /\ separating < MaxSeparations /\ new.pc \in Counted /\ upload[r].pc \notin Counted
    BY <1>5, <1>7, <2>0, <2>2
  <2>3. CASE HasSlot /\ separating' = separating - 1 /\ new.pc \notin Counted /\ upload[r].pc \in Counted
    BY <1>5, <1>7, <2>0, <2>3
  <2> QED BY <2>1, <2>2, <2>3
<1> QED BY <1>1, <1>2, <1>3, <1>4, <1>7, <1>8 DEF BatchInv

LEMMA BatchInvStep == BatchInv /\ [BatchNext]_batchVars => BatchInv'
<1> SUFFICES ASSUME BatchInv, [BatchNext]_batchVars PROVE BatchInv'
    OBVIOUS
<1>1. ASSUME NEW r \in Uploads, UploadStep(r) \/ Deadline(r) PROVE BatchInv'
  <2>u. PICK u \in UploadRecords : u = upload[r] BY DEF BatchInv
  <2> DEFINE To(pc) == [u EXCEPT !.pc = pc]
             Refused(code) == [u EXCEPT !.pc = "over", !.status = code]
  <2>0. /\ u \in UploadRecords /\ ReportKept(u, ReportsLast) /\ loaded \in BOOLEAN
        /\ MaxReports \in Nat \ {0} /\ MaxSeparations \in Nat /\ separating \in 0 .. MaxSeparations
        /\ \A q \in lock : u.pc \in Holds => q = r
        /\ u.pc \in Holds <=> r \in lock
        /\ kind \in BatchKinds /\ (u.late => HasDeadline)
    BY <2>u, BatchAssumption DEF BatchInv, BatchAssumption
  <2>01. /\ "over" \in UploadPlaces /\ "settled" \in UploadPlaces /\ "failed" \in UploadPlaces
         /\ "respond" \in UploadPlaces /\ "reporting" \in UploadPlaces
    BY DEF UploadPlaces, Counted
  <2>02. 200 \in Statuses /\ 504 \in Statuses /\ 500 \in Statuses /\ 503 \in Statuses
    BY DEF Statuses
  <2>1. /\ \A code \in Statuses :
             /\ Refused(code) \in UploadRecords /\ Refused(code).pc = "over" /\ Refused(code).late = u.late
             /\ u.pc \notin {"reporting", "over"} => ReportKept(Refused(code), ReportsLast)
    <3> SUFFICES ASSUME NEW code \in Statuses
                 PROVE  /\ Refused(code) \in UploadRecords /\ Refused(code).pc = "over" /\ Refused(code).late = u.late
                        /\ u.pc \notin {"reporting", "over"} => ReportKept(Refused(code), ReportsLast)
        OBVIOUS
    <3>1. Refused(code) \in UploadRecords BY <2>01 DEF UploadRecords
    <3>2. Refused(code).pc = "over" /\ Refused(code).late = u.late /\ Refused(code).tries = u.tries /\ Refused(code).charged = u.charged
          /\ Refused(code).done = u.done
      BY DEF UploadRecords
    <3>3. ASSUME u.pc \notin {"reporting", "over"} PROVE ReportKept(Refused(code), ReportsLast)
      <4>1. u.tries = 0 \/ ~ ReportsLast BY <2>0, <3>3 DEF ReportKept
      <4>2. u.tries = 0 => ~ u.charged > 0 BY <2>0 DEF ReportKept, UploadRecords
      <4> HIDE DEF Refused
      <4> QED BY <2>0, <3>2, <3>3, <4>1, <4>2 DEF ReportKept
    <3> QED BY <3>1, <3>2, <3>3
  <2>2. \A pc \in {"body", "decode", "admit", "queued", "model", "loading", "running", "failed"} :
             /\ To(pc) \in UploadRecords /\ To(pc).pc = pc /\ To(pc).late = u.late
             /\ u.pc \notin {"respond", "reporting", "over"} => ReportKept(To(pc), ReportsLast)
    <3> SUFFICES ASSUME NEW pc \in {"body", "decode", "admit", "queued", "model", "loading", "running", "failed"}
                 PROVE  /\ To(pc) \in UploadRecords /\ To(pc).pc = pc /\ To(pc).late = u.late
                        /\ u.pc \notin {"respond", "reporting", "over"} => ReportKept(To(pc), ReportsLast)
        OBVIOUS
    <3>0. pc \in UploadPlaces BY DEF UploadPlaces, Counted
    <3>1. To(pc) \in UploadRecords BY <3>0 DEF UploadRecords
    <3>2. /\ To(pc).pc = pc /\ To(pc).late = u.late /\ To(pc).tries = u.tries /\ To(pc).charged = u.charged
          /\ To(pc).done = u.done /\ To(pc).status = u.status
      BY DEF UploadRecords
    <3> HIDE DEF To
    <3>3. ASSUME u.pc \notin {"respond", "reporting", "over"} PROVE ReportKept(To(pc), ReportsLast)
      <4>1. u.tries = 0 /\ ~ u.charged > 0 BY <2>0, <3>3 DEF ReportKept, UploadRecords
      <4> QED BY <2>0, <3>2, <3>3, <4>1 DEF ReportKept
    <3> QED BY <3>1, <3>2, <3>3
  <2>3. /\ \A code : Refuse(r, code) => upload' = [upload EXCEPT ![r] = Refused(code)]
        /\ \A pc : Onto(r, pc) => upload' = [upload EXCEPT ![r] = To(pc)]
    BY <2>u DEF Refuse, Onto, Set
  <2> HIDE DEF To, Refused
  <2>4. CASE Authorize(r)
    <3>1. /\ u.pc = "new" /\ kind' = kind /\ loaded' = loaded /\ lock' = lock /\ separating' = separating
          /\ \/ upload' = [upload EXCEPT ![r] = To("body")]
             \/ \E code \in Statuses : upload' = [upload EXCEPT ![r] = Refused(code)]
      BY <2>u, <2>3, <2>4 DEF Authorize, State, Statuses
    <3> QED BY <2>0, <2>02, <2>1, <2>2, <3>1, <2>u, UploadMoves DEF Counted, Holds
  <2>5. CASE ReadBody(r)
    <3>1. /\ u.pc = "body" /\ kind' = kind /\ loaded' = loaded /\ lock' = lock /\ separating' = separating
          /\ \/ upload' = [upload EXCEPT ![r] = To("decode")]
             \/ \E code \in Statuses : upload' = [upload EXCEPT ![r] = Refused(code)]
      BY <2>u, <2>3, <2>5 DEF ReadBody, State, Statuses
    <3> QED BY <2>0, <2>02, <2>1, <2>2, <3>1, <2>u, UploadMoves DEF Counted, Holds
  <2>6. CASE DecodeAudio(r)
    <3>1. /\ u.pc = "decode" /\ kind' = kind /\ loaded' = loaded /\ lock' = lock /\ separating' = separating
          /\ \/ HasSlot /\ upload' = [upload EXCEPT ![r] = To("admit")]
             \/ ~ HasSlot /\ upload' = [upload EXCEPT ![r] = To("queued")]
             \/ \E code \in Statuses : upload' = [upload EXCEPT ![r] = Refused(code)]
      BY <2>u, <2>3, <2>6 DEF DecodeAudio, State, Statuses
    <3> QED BY <2>0, <2>02, <2>1, <2>2, <3>1, <2>u, UploadMoves DEF Counted, Holds
  <2>7. CASE Deadline(r)
    <3> DEFINE new == [u EXCEPT !.late = TRUE]
    <3>1. /\ kind' = kind /\ loaded' = loaded /\ lock' = lock /\ separating' = separating
          /\ upload' = [upload EXCEPT ![r] = new] /\ HasDeadline
      BY <2>u, <2>7 DEF Deadline, Set
    <3>2a. new.pc = u.pc /\ new.tries = u.tries /\ new.charged = u.charged /\ new.done = u.done /\ new.status = u.status BY <2>0 DEF UploadRecords
    <3>2b. new \in UploadRecords BY DEF UploadRecords
    <3>2c. ReportKept(new, ReportsLast) BY <2>0, <3>2a DEF ReportKept
    <3>2. new \in UploadRecords /\ ReportKept(new, ReportsLast) /\ new.pc = u.pc BY <3>2a, <3>2b, <3>2c
    <3> HIDE DEF new
    <3> QED BY <2>0, <3>1, <3>2, <2>u, UploadMoves
  <2>8. CASE AdmitIsolate(r)
    <3>1. /\ u.pc = "admit" /\ kind' = kind /\ loaded' = loaded /\ lock' = lock
          /\ \/ separating' = separating /\ upload' = [upload EXCEPT ![r] = Refused(503)]
             \/ separating < MaxSeparations /\ separating' = separating + 1 /\ upload' = [upload EXCEPT ![r] = To("model")]
      BY <2>u, <2>0, <2>3, <2>8 DEF AdmitIsolate, State
    <3> QED BY <2>0, <2>02, <2>1, <2>2, <3>1, <2>u, UploadMoves DEF Counted, Holds
  <2>9. CASE WantModel(r)
    <3>1. /\ u.pc = "model" /\ kind' = kind /\ loaded' = loaded /\ separating' = separating
          /\ \/ lock' = lock /\ upload' = [upload EXCEPT ![r] = To("queued")]
             \/ lock = {} /\ lock' = {r} /\ upload' = [upload EXCEPT ![r] = To("loading")]
      BY <2>u, <2>3, <2>9 DEF WantModel, State, nobody
    <3> QED BY <2>0, <2>02, <2>1, <2>2, <3>1, <2>u, UploadMoves DEF Counted, Holds
  <2>10. CASE HaveModel(r)
    <3>1. /\ u.pc = "loading" /\ kind' = kind /\ loaded' \in BOOLEAN /\ separating' = separating /\ lock' = {}
          /\ \E pc \in {"queued", "failed"} : upload' = [upload EXCEPT ![r] = To(pc)]
      BY <2>u, <2>0, <2>3, <2>10 DEF HaveModel, State, nobody
    <3>2. PICK pc \in {"queued", "failed"} : upload' = [upload EXCEPT ![r] = To(pc)] BY <3>1
    <3>3. /\ To(pc) \in UploadRecords /\ ReportKept(To(pc), ReportsLast)
          /\ To(pc).pc \notin Holds /\ To(pc).pc \in Counted /\ (To(pc).late => HasDeadline) /\ u.pc \in Holds /\ u.pc \in Counted
      BY <2>0, <2>2, <3>1, <3>2 DEF Counted, Holds
    <3> QED BY <3>1, <3>2, <3>3, <2>u, UploadMoves
  <2>11. CASE TakeLock(r)
    <3>1. /\ u.pc = "queued" /\ kind' = kind /\ loaded' = loaded /\ separating' = separating
          /\ lock = {} /\ lock' = {r} /\ upload' = [upload EXCEPT ![r] = To("running")]
      BY <2>u, <2>3, <2>11 DEF TakeLock, State, nobody
    <3>3. /\ To("running") \in UploadRecords /\ ReportKept(To("running"), ReportsLast)
          /\ To("running").pc \in Holds /\ To("running").pc \in Counted /\ (To("running").late => HasDeadline) /\ u.pc \in Counted
      BY <2>0, <2>2, <3>1 DEF Counted, Holds
    <3> QED BY <2>0, <3>1, <3>3, <2>u, UploadMoves
  <2>14. CASE Run(r)
    <3>1. PICK ok \in BOOLEAN : upload' = [upload EXCEPT ![r] = [u EXCEPT !.done = ok, !.pc = IF ok THEN "settled" ELSE "failed"]]
      BY <2>u, <2>14 DEF Run, Set
    <3> DEFINE new == [u EXCEPT !.done = ok, !.pc = IF ok THEN "settled" ELSE "failed"]
    <3>2. u.pc = "running" /\ kind' = kind /\ loaded' = loaded /\ separating' = separating /\ lock' = {}
      BY <2>u, <2>14 DEF Run, State, nobody
    <3>4. upload' = [upload EXCEPT ![r] = new] BY <3>1
    <3>5. new \in UploadRecords BY <2>01 DEF UploadRecords
    <3>6. /\ new.tries = u.tries /\ new.charged = u.charged /\ new.done = ok /\ new.late = u.late
          /\ new.pc = IF ok THEN "settled" ELSE "failed"
      BY DEF UploadRecords
    <3> HIDE DEF new
    <3>7. u.tries = 0 /\ ~ u.charged > 0 BY <2>0, <3>2 DEF ReportKept, UploadRecords
    <3>3. new \in UploadRecords /\ ReportKept(new, ReportsLast) /\ new.pc \in {"settled", "failed"} /\ new.late = u.late
      <4>1. ok \in BOOLEAN /\ (new.pc = "settled" => ok) /\ new.pc \in {"settled", "failed"} BY <3>1, <3>6
      <4>2. u.tries <= 1 /\ u.charged <= u.tries BY <2>0, <3>7 DEF ReportKept
      <4> QED BY <3>5, <3>6, <3>7, <4>1, <4>2 DEF ReportKept
    <3> QED BY <2>0, <3>2, <3>3, <3>4, <2>u, UploadMoves DEF Counted, Holds
  <2>16. CASE Settle(r)
    <3> DEFINE new == [u EXCEPT !.pc = IF ReportsLast THEN "respond" ELSE "reporting"]
    <3>1. /\ u.pc = "settled" /\ kind' = kind /\ loaded' = loaded /\ lock' = lock
          /\ separating' = IF HasSlot THEN separating - 1 ELSE separating
          /\ upload' = [upload EXCEPT ![r] = new]
      BY <2>u, <2>16 DEF Settle, State, Onto, Set
    <3>2. new \in UploadRecords /\ ReportKept(new, ReportsLast) /\ new.pc \in {"respond", "reporting"} /\ new.late = u.late
      <4>1. new \in UploadRecords BY <2>01, <2>02 DEF UploadRecords
      <4>2. /\ new.tries = u.tries /\ new.charged = u.charged /\ new.done = u.done /\ new.status = u.status
            /\ new.late = u.late /\ new.pc = IF ReportsLast THEN "respond" ELSE "reporting"
        BY DEF UploadRecords
      <4> HIDE DEF new
      <4> QED BY <2>0, <3>1, <4>1, <4>2 DEF ReportKept
    <3> HIDE DEF new
    <3> QED BY <2>0, <3>1, <3>2, <2>u, UploadMoves DEF Counted, Holds
  <2>17. CASE Respond(r)
    <3> DEFINE new == [u EXCEPT !.status = 200, !.pc = IF ReportsLast THEN "reporting" ELSE "over"]
    <3>1. /\ u.pc = "respond" /\ kind' = kind /\ loaded' = loaded /\ lock' = lock /\ separating' = separating
          /\ \/ upload' = [upload EXCEPT ![r] = new]
             \/ \E code \in Statuses : upload' = [upload EXCEPT ![r] = Refused(code)]
      BY <2>u, <2>3, <2>17 DEF Respond, State, Set, Statuses
    <3>2. new \in UploadRecords /\ ReportKept(new, ReportsLast) /\ new.pc \in {"over", "reporting"} /\ new.late = u.late
      <4>0. PICK pc \in UploadPlaces : pc = IF ReportsLast THEN "reporting" ELSE "over" BY <2>01
      <4>1. new \in UploadRecords
        <5>1. PICK m \in UploadRecords : m = [u EXCEPT !.status = 200] BY <2>02 DEF UploadRecords
        <5>2. [m EXCEPT !.pc = pc] \in UploadRecords BY DEF UploadRecords
        <5>3. [u EXCEPT !.status = 200, !.pc = pc] = [[u EXCEPT !.status = 200] EXCEPT !.pc = pc] OBVIOUS
        <5> QED BY <4>0, <5>1, <5>2, <5>3
      <4>2. /\ new.tries = u.tries /\ new.charged = u.charged /\ new.done = u.done /\ new.status = 200
            /\ new.late = u.late /\ new.pc = IF ReportsLast THEN "reporting" ELSE "over"
        BY DEF UploadRecords
      <4> HIDE DEF new
      <4> QED BY <2>0, <3>1, <4>1, <4>2 DEF ReportKept
    <3> HIDE DEF new
    <3> QED BY <2>0, <2>1, <3>1, <3>2, <2>u, UploadMoves DEF Counted, Holds
  <2>18. CASE Report(r)
    <3>1. PICK counted, answered \in BOOLEAN :
            upload' = [upload EXCEPT ![r] = [u EXCEPT !.tries = @ + 1, !.charged = IF counted THEN @ + 1 ELSE @,
              !.pc = IF (answered /\ counted) \/ u.tries + 1 = Tries THEN AfterReport(r) ELSE @]]
      BY <2>u, <2>18 DEF Report, Set
    <3> DEFINE new == [u EXCEPT !.tries = @ + 1, !.charged = IF counted THEN @ + 1 ELSE @,
              !.pc = IF (answered /\ counted) \/ u.tries + 1 = Tries THEN AfterReport(r) ELSE @]
    <3>2. u.pc = "reporting" /\ kind' = kind /\ loaded' = loaded /\ separating' = separating /\ lock' = lock
      BY <2>u, <2>18 DEF Report, State
    <3>3. u.tries \in Nat /\ u.charged \in Nat /\ u.tries < Tries /\ Tries <= MaxReports /\ Tries \in Nat
      BY <2>0, <3>2 DEF UploadRecords, ReportKept, Tries
    <3>4. /\ new.tries = u.tries + 1 /\ new.charged = IF counted THEN u.charged + 1 ELSE u.charged
          /\ new.done = u.done /\ new.status = u.status /\ new.late = u.late
          /\ new.pc = IF (answered /\ counted) \/ u.tries + 1 = Tries THEN AfterReport(r) ELSE u.pc
      BY DEF UploadRecords
    <3>5. upload' = [upload EXCEPT ![r] = new] BY <3>1
    <3>6. new = [u EXCEPT !.tries = new.tries, !.charged = new.charged, !.pc = new.pc] BY <3>4
    <3> HIDE DEF new
    <3>7. new.pc \in {"reporting", "respond", "over"} /\ (new.pc = "respond" => ~ ReportsLast)
      BY <3>2, <3>4 DEF AfterReport
    <3>10. new.tries \in 0 .. MaxReports /\ new.charged \in 0 .. MaxReports /\ new.charged <= new.tries
           /\ (new.pc = "reporting" => new.tries < Tries)
      <4>1. u.charged <= u.tries BY <2>0 DEF ReportKept
      <4>2. MaxReports \in Nat BY <2>0
      <4>3. new.tries \in 0 .. MaxReports /\ new.charged \in 0 .. MaxReports /\ new.charged <= new.tries
        BY <3>3, <3>4, <4>1, <4>2
      <4>4. new.pc = "reporting" => u.tries + 1 # Tries BY <3>4 DEF AfterReport
      <4> QED BY <3>3, <3>4, <4>3, <4>4
    <3>8. new \in UploadRecords
      <4>1. new.pc \in UploadPlaces BY <2>01, <3>7
      <4> QED BY <3>6, <3>10, <4>1 DEF UploadRecords
    <3>9. ReportKept(new, ReportsLast) BY <2>0, <3>2, <3>3, <3>4, <3>10, <3>7 DEF ReportKept, Tries
    <3> QED BY <2>0, <3>2, <3>4, <3>5, <3>7, <3>8, <3>9, <2>u, UploadMoves DEF Counted, Holds
  <2>12. CASE GiveUp(r)
    <3>1. /\ u.pc = "queued" /\ kind' = kind /\ loaded' = loaded /\ lock' = lock /\ separating' = separating
          /\ upload' = [upload EXCEPT ![r] = Refused(504)]
      BY <2>u, <2>3, <2>12 DEF GiveUp, State
    <3>2. /\ Refused(504) \in UploadRecords /\ ReportKept(Refused(504), ReportsLast) /\ u.pc \notin Holds
          /\ Refused(504).pc \notin Holds /\ Refused(504).pc \notin Counted /\ (Refused(504).late => HasDeadline)
      BY <2>0, <2>02, <2>1, <3>1 DEF Counted, Holds
    <3>3. ~ HasSlot BY <2>0, <2>u, <2>12, DeadlineOrSlots DEF GiveUp
    <3>4. PICK new \in UploadRecords : new = Refused(504) BY <3>2
    <3>5. /\ ReportKept(new, ReportsLast) /\ new.pc \notin Holds /\ new.pc \notin Counted /\ (new.late => HasDeadline)
          /\ kind' = kind /\ loaded' = loaded /\ loaded \in BOOLEAN /\ upload' = [upload EXCEPT ![r] = new]
      BY <2>0, <3>1, <3>2, <3>4
    <3>6. lock' = lock /\ upload[r].pc \notin Holds /\ separating' = separating BY <2>u, <3>1, <3>2
    <3> QED BY <3>3, <3>5, <3>6, UploadMoves
  <2>13. CASE TimeOut(r)
    <3>1. /\ u.pc = "running" /\ kind' = kind /\ loaded' = loaded /\ lock' = {} /\ separating' = separating
          /\ upload' = [upload EXCEPT ![r] = Refused(504)]
      BY <2>u, <2>3, <2>13 DEF TimeOut, State, nobody
    <3>2. /\ Refused(504) \in UploadRecords /\ ReportKept(Refused(504), ReportsLast) /\ u.pc \in Holds
          /\ Refused(504).pc \notin Holds /\ Refused(504).pc \notin Counted /\ (Refused(504).late => HasDeadline)
      BY <2>0, <2>02, <2>1, <3>1 DEF Counted, Holds
    <3>3. ~ HasSlot BY <2>0, <2>u, <2>13, DeadlineOrSlots DEF TimeOut
    <3>4. PICK new \in UploadRecords : new = Refused(504) BY <3>2
    <3>5. /\ ReportKept(new, ReportsLast) /\ new.pc \notin Holds /\ new.pc \notin Counted /\ (new.late => HasDeadline)
          /\ kind' = kind /\ loaded' = loaded /\ loaded \in BOOLEAN /\ upload' = [upload EXCEPT ![r] = new]
      BY <2>0, <3>1, <3>2, <3>4
    <3>6. lock' = {} /\ upload[r].pc \in Holds /\ separating' = separating BY <2>u, <3>1, <3>2
    <3> QED BY <3>3, <3>5, <3>6, UploadMoves
  <2>15. CASE FailSeparation(r)
    <3>1. /\ u.pc = "failed" /\ kind' = kind /\ loaded' = loaded /\ lock' = lock
          /\ separating' = IF HasSlot THEN separating - 1 ELSE separating
          /\ upload' = [upload EXCEPT ![r] = Refused(500)]
      BY <2>u, <2>3, <2>15 DEF FailSeparation, State
    <3>2. /\ Refused(500) \in UploadRecords /\ ReportKept(Refused(500), ReportsLast) /\ u.pc \notin Holds
          /\ Refused(500).pc \notin Holds /\ Refused(500).pc \notin Counted /\ (Refused(500).late => HasDeadline) /\ u.pc \in Counted
      BY <2>0, <2>02, <2>1, <3>1 DEF Counted, Holds
    <3>4. PICK new \in UploadRecords : new = Refused(500) BY <3>2
    <3>5. /\ ReportKept(new, ReportsLast) /\ new.pc \notin Holds /\ new.pc \notin Counted /\ (new.late => HasDeadline)
          /\ kind' = kind /\ loaded' = loaded /\ loaded \in BOOLEAN /\ upload' = [upload EXCEPT ![r] = new]
      BY <2>0, <3>1, <3>2, <3>4
    <3>6. lock' = lock /\ upload[r].pc \notin Holds /\ upload[r].pc \in Counted BY <2>u, <3>1, <3>2
    <3>7. CASE HasSlot
      <4>1. separating' = separating - 1 BY <3>1, <3>7
      <4> QED BY <3>5, <3>6, <3>7, <4>1, UploadMoves
    <3>8. CASE ~ HasSlot
      <4>1. separating' = separating BY <3>1, <3>8
      <4> QED BY <3>5, <3>6, <3>8, <4>1, UploadMoves
    <3> QED BY <3>7, <3>8
  <2> QED BY <1>1, <2>4, <2>5, <2>6, <2>7, <2>8, <2>9, <2>10, <2>11, <2>12, <2>13, <2>14, <2>15, <2>16, <2>17, <2>18
        DEF UploadStep
<1>2. CASE UNCHANGED batchVars
  <2>1. UNCHANGED <<kind, upload, lock, loaded, separating>> BY <1>2 DEF batchVars
  <2>2. HasSlot' = HasSlot /\ ReportsLast' = ReportsLast /\ HasDeadline' = HasDeadline
    BY <2>1 DEF HasSlot, ReportsLast, HasDeadline
  <2> QED BY <2>1, <2>2 DEF BatchInv, InSlots
<1> QED BY <1>1, <1>2 DEF BatchNext

-----------------------------------------------------------------------------
(* The connections of the recogniser: the audio that came was decoded,     *)
(* waits, or had to go, unless an error ended the connection; the bill is  *)
(* made when it is over.                                                   *)
ConnPlaces == Holding \cup {"new", "over"}
Sessions == Configs \cup {"none"}
Firsts == {"none", "config", "other"}
Ends == {"none", "end", "gone", "error"}
Lines2 == SUBSET (SttMessages \cup {"gone"})
ConnRecords == [pc : ConnPlaces, cfg : Configs, sess : Sessions,
                pending : 0 .. MaxBuffer, total : Nat, received : Nat, dropped : Nat,
                bill : Nat, first : Firsts, end : Ends, said : 0 .. MaxSays]

AudioKept(k) ==
  /\ k.end # "error" => k.received = k.total + k.pending + k.dropped
  /\ k.total <= k.received /\ k.bill \in {0, k.total} /\ (k.pc # "over" => k.bill = 0)
  /\ k.dropped > 0 => k.pending = MaxBuffer \/ k.sess # "none"
  /\ k.end # "none" => k.pc \in {"ending", "over"}

InService == {c \in Conns : conn[c].pc \in Holding}

SttInv ==
  /\ model \in {"loading", "ready", "failed"} /\ taken \in 0 .. MaxActive
  /\ conn \in [Conns -> ConnRecords] /\ \A c \in Conns : AudioKept(conn[c])
  /\ line \in [Conns -> Lines2]
  /\ IsFiniteSet(InService) /\ taken = Cardinality(InService)

LEMMA SttInvInit == SttInit => SttInv
<1> SUFFICES ASSUME SttInit PROVE SttInv
    OBVIOUS
<1>0. /\ "new" \in ConnPlaces /\ "new" \notin Holding /\ "query" \in Configs /\ "none" \in Sessions
      /\ "none" \in Firsts /\ "none" \in Ends /\ {} \in Lines2
  BY DEF ConnPlaces, Holding, Serving, Configs, Sessions, Firsts, Ends, Lines2
<1>1. MaxBuffer \in Nat /\ MaxSays \in Nat /\ MaxActive \in Nat BY SttAssumption DEF SttAssumption
<1>2. conn \in [Conns -> ConnRecords] /\ \A c \in Conns : conn[c].pc = "new" /\ AudioKept(conn[c])
  BY <1>0, <1>1 DEF SttInit, ConnRecords, AudioKept
<1>3. InService = {} BY <1>0, <1>2 DEF InService
<1> QED BY <1>0, <1>1, <1>2, <1>3, FS_EmptySet DEF SttInit, SttInv

LEMMA SttInvImplies == SttInv => SlotsHeld /\ AudioAccounted
<1> SUFFICES ASSUME SttInv PROVE SlotsHeld /\ AudioAccounted
    OBVIOUS
<1>1. SttTypeOK BY DEF SttInv, SttTypeOK, ConnRecords, ConnPlaces, Sessions, Firsts, Ends, Lines2
<1> QED BY <1>1 DEF SttInv, SlotsHeld, AudioAccounted, InService, AudioKept

LEMMA ConnMoves ==
  ASSUME SttInv, NEW c \in Conns, NEW new \in ConnRecords, AudioKept(new), conn' = [conn EXCEPT ![c] = new],
         model' = model, line' \in [Conns -> Lines2],
         \/ taken' = taken /\ (new.pc \in Holding <=> conn[c].pc \in Holding)
         \/ taken' = taken + 1 /\ taken < MaxActive /\ new.pc \in Holding /\ conn[c].pc \notin Holding
         \/ taken' = taken - 1 /\ new.pc \notin Holding /\ conn[c].pc \in Holding
  PROVE  SttInv'
<1>1. /\ conn' \in [Conns -> ConnRecords] /\ conn'[c] = new /\ \A d \in Conns : AudioKept(conn'[d])
      /\ \A d \in Conns : d # c => conn'[d] = conn[d]
  BY DEF SttInv
<1>2. /\ \A d : d # c => (d \in InService <=> d \in InService')
      /\ (c \in InService <=> conn[c].pc \in Holding) /\ (c \in InService' <=> new.pc \in Holding)
  BY <1>1 DEF InService
<1>3. IsFiniteSet(InService) /\ taken = Cardinality(InService) /\ taken \in 0 .. MaxActive /\ MaxActive \in Nat
  BY SttAssumption DEF SttInv, SttAssumption
<1>4. /\ IsFiniteSet(InService') /\ Cardinality(InService) \in Nat /\ Cardinality(InService') \in Nat
      /\ c \in InService' /\ c \notin InService => Cardinality(InService') = Cardinality(InService) + 1
      /\ c \in InService /\ c \notin InService' => Cardinality(InService') = Cardinality(InService) - 1
      /\ (c \in InService <=> c \in InService') => Cardinality(InService') = Cardinality(InService)
  BY <1>2, <1>3, OneMoves
<1>5. taken' = Cardinality(InService') /\ taken' \in 0 .. MaxActive BY <1>2, <1>3, <1>4
<1> QED BY <1>1, <1>4, <1>5 DEF SttInv

\* A message is handled: what it makes of the connection keeps the audio, and no slot moves.
LEMMA HearKeeps ==
  ASSUME SttInv, NEW c \in Conns, NEW m \in {"config", "audio", "commit", "end", "gone"},
         NEW rec \in ConnRecords, AudioKept(rec), rec.pc \in Holding, Hear(c, m, rec)
  PROVE  SttInv'
<1> DEFINE new == [rec EXCEPT !.first = IF @ # "none" THEN @ ELSE IF m = "config" THEN m ELSE "other"]
<1>1. /\ conn' = [conn EXCEPT ![c] = new] /\ model' = model /\ taken' = taken
      /\ line' = [line EXCEPT ![c] = {}] /\ conn[c].pc \in Holding
  BY DEF Hear, Conn, Holding, Serving
<1>2. rec.first \in Firsts /\ "config" \in Firsts /\ "other" \in Firsts BY DEF ConnRecords, Firsts
<1>3. new \in ConnRecords BY <1>2 DEF ConnRecords
<1>4. /\ new.pc = rec.pc /\ new.end = rec.end /\ new.received = rec.received /\ new.total = rec.total
      /\ new.pending = rec.pending /\ new.dropped = rec.dropped /\ new.bill = rec.bill /\ new.sess = rec.sess
  BY DEF ConnRecords
<1> HIDE DEF new
<1>5. AudioKept(new) BY <1>4 DEF AudioKept
<1>6. line' \in [Conns -> Lines2] BY <1>1 DEF SttInv, Lines2
<1> QED BY <1>1, <1>3, <1>4, <1>5, <1>6, ConnMoves

LEMMA SttInvStep == SttInv /\ [SttNext]_sttVars => SttInv'
<1> SUFFICES ASSUME SttInv, [SttNext]_sttVars PROVE SttInv'
    OBVIOUS
<1>0. MaxBuffer \in Nat /\ MaxSays \in Nat /\ MaxActive \in Nat BY SttAssumption DEF SttAssumption
<1>1. ASSUME NEW c \in Conns, ConnStep(c) \/ ClientSays(c) PROVE SttInv'
  <2>u. PICK k \in ConnRecords : k = conn[c] BY DEF SttInv
  <2> DEFINE To(pc) == [k EXCEPT !.pc = pc]
             Broken == [k EXCEPT !.pc = "ending", !.end = "error"]
  <2>0. AudioKept(k) BY <2>u DEF SttInv
  <2>1. /\ \A pc \in Holding : pc \in ConnPlaces
        /\ {"over", "ending", "loop", "receiving", "accepting", "lost", "waiting"} \subseteq ConnPlaces
        /\ {"ending", "loop", "receiving", "accepting", "lost", "waiting"} \subseteq Holding
        /\ "new" \notin Holding /\ "over" \notin Holding
    BY DEF Holding, Serving, ConnPlaces
  <2>2. "error" \in Ends /\ "end" \in Ends /\ "gone" \in Ends /\ "message" \in Configs BY DEF Ends, Configs
  <2>3. "over" \in ConnPlaces /\ "ending" \in ConnPlaces /\ "loop" \in ConnPlaces /\ "receiving" \in ConnPlaces
    BY <2>1
  <2>4. k.total \in Nat /\ k.received \in Nat /\ k.dropped \in Nat /\ k.bill \in Nat /\ k.pending \in 0 .. MaxBuffer
    BY DEF ConnRecords
  <2>5. ASSUME NEW pc \in ConnPlaces
        PROVE  /\ To(pc) \in ConnRecords /\ To(pc).pc = pc
               /\ k.pc # "over" /\ k.end = "none" => AudioKept(To(pc))
    <3>1. To(pc) \in ConnRecords BY DEF ConnRecords
    <3>2. /\ To(pc).pc = pc /\ To(pc).end = k.end /\ To(pc).received = k.received /\ To(pc).total = k.total
          /\ To(pc).pending = k.pending /\ To(pc).dropped = k.dropped /\ To(pc).bill = k.bill /\ To(pc).sess = k.sess
      BY DEF ConnRecords
    <3> HIDE DEF To
    <3> QED BY <2>0, <3>1, <3>2 DEF AudioKept
  <2>6. /\ Broken \in ConnRecords /\ Broken.pc = "ending"
        /\ k.pc # "over" => AudioKept(Broken)
    <3>1. Broken \in ConnRecords BY <2>2, <2>3 DEF ConnRecords
    <3>2. /\ Broken.pc = "ending" /\ Broken.end = "error" /\ Broken.received = k.received /\ Broken.total = k.total
          /\ Broken.pending = k.pending /\ Broken.dropped = k.dropped /\ Broken.bill = k.bill /\ Broken.sess = k.sess
      BY DEF ConnRecords
    <3> HIDE DEF Broken
    <3> QED BY <2>0, <3>1, <3>2 DEF AudioKept
  <2>7. /\ \A pc : Moves(c, pc) => conn' = [conn EXCEPT ![c] = To(pc)]
        /\ Fails(c) => conn' = [conn EXCEPT ![c] = Broken]
    BY <2>u DEF Moves, Fails, Conn
  <2> HIDE DEF To, Broken
  <2>8. line \in [Conns -> Lines2] BY DEF SttInv
  <2>9. k.pc \in Serving \ {"ending"} => k.end = "none" /\ k.pc \in Holding /\ k.pc # "over"
    BY <2>0 DEF AudioKept, Serving, Holding
  <2>10. CASE ClientSays(c)
    <3> DEFINE new == [k EXCEPT !.said = @ + 1]
    <3>1. /\ conn' = [conn EXCEPT ![c] = new] /\ model' = model /\ taken' = taken /\ k.said < MaxSays
      BY <2>u, <2>10 DEF ClientSays, Conn
    <3>2. k.said \in 0 .. MaxSays BY DEF ConnRecords
    <3>3. k.said + 1 \in 0 .. MaxSays BY <1>0, <3>1, <3>2
    <3>4. new \in ConnRecords BY <3>3 DEF ConnRecords
    <3>5. /\ new.pc = k.pc /\ new.end = k.end /\ new.received = k.received /\ new.total = k.total
          /\ new.pending = k.pending /\ new.dropped = k.dropped /\ new.bill = k.bill /\ new.sess = k.sess
      BY DEF ConnRecords
    <3> HIDE DEF new
    <3>6. AudioKept(new) BY <2>0, <3>5 DEF AudioKept
    <3>7. line' \in [Conns -> Lines2] BY <2>8, <2>10 DEF ClientSays, Lines2
    <3> QED BY <2>u, <3>1, <3>4, <3>5, <3>6, <3>7, ConnMoves
  <2>11. CASE Admit(c)
    <3>1. k.pc = "new" /\ model' = model /\ line' = line BY <2>u, <2>11 DEF Admit
    <3>2. k.end = "none" BY <2>0, <3>1 DEF AudioKept
    <3>3. CASE taken < MaxActive /\ taken' = taken + 1 /\ Moves(c, "accepting")
      <4>1. /\ To("accepting") \in ConnRecords /\ AudioKept(To("accepting")) /\ To("accepting").pc \in Holding
            /\ k.pc \notin Holding
        BY <2>1, <2>5, <3>1, <3>2
      <4> QED BY <2>u, <2>7, <2>8, <3>1, <3>3, <4>1, ConnMoves
    <3>4. CASE Moves(c, "over") /\ UNCHANGED taken
      <4>1. /\ To("over") \in ConnRecords /\ AudioKept(To("over")) /\ To("over").pc \notin Holding
            /\ k.pc \notin Holding
        BY <2>1, <2>5, <3>1, <3>2
      <4> QED BY <2>u, <2>7, <2>8, <3>1, <3>4, <4>1, ConnMoves
    <3> QED BY <2>11, <3>3, <3>4 DEF Admit
  <2>12. CASE AcceptConn(c)
    <3>1. PICK pc \in {"loop", "lost"} : Moves(c, pc) BY <2>12 DEF AcceptConn
    <3>2. k.pc = "accepting" /\ model' = model /\ line' = line /\ taken' = taken BY <2>u, <2>12 DEF AcceptConn
    <3>3. k.pc \in Holding /\ To(pc) \in ConnRecords /\ AudioKept(To(pc)) /\ To(pc).pc \in Holding
      BY <2>1, <2>5, <2>9, <3>1, <3>2 DEF Serving
    <3> QED BY <2>u, <2>7, <2>8, <3>1, <3>2, <3>3, ConnMoves
  <2>13. CASE Iterate(c) \/ EnsureInWait(c)
    <3>1. k.pc \in {"loop", "waiting"} /\ model' = model /\ line' = line /\ taken' = taken
      BY <2>u, <2>13 DEF Iterate, EnsureInWait
    <3>2. k.pc \in Holding /\ k.end = "none" /\ k.pc # "over" BY <2>9, <3>1 DEF Serving
    <3>3. Moves(c, "waiting") \/ Conn(c, Ensured(c)) \/ Fails(c) BY <2>13 DEF Iterate, EnsureInWait
    <3>4. CASE Moves(c, "waiting")
      <4>1. To("waiting") \in ConnRecords /\ AudioKept(To("waiting")) /\ To("waiting").pc \in Holding
        BY <2>1, <2>5, <3>2
      <4> QED BY <2>u, <2>7, <2>8, <3>1, <3>2, <3>4, <4>1, ConnMoves
    <3>5. CASE Conn(c, Ensured(c))
      <4> DEFINE s == IF k.sess = "none" /\ model = "ready" THEN k.cfg ELSE k.sess
                 new == [k EXCEPT !.pc = "receiving", !.sess = s]
      <4>1. conn' = [conn EXCEPT ![c] = new] BY <2>u, <3>5 DEF Conn, Ensured
      <4>2. s \in Sessions /\ (k.sess # "none" => s = k.sess) BY DEF ConnRecords, Sessions
      <4> HIDE DEF s
      <4>3. new \in ConnRecords BY <2>3, <4>2 DEF ConnRecords
      <4>4. /\ new.pc = "receiving" /\ new.end = k.end /\ new.received = k.received /\ new.total = k.total
            /\ new.pending = k.pending /\ new.dropped = k.dropped /\ new.bill = k.bill /\ new.sess = s
        BY DEF ConnRecords
      <4> HIDE DEF new
      <4>5. AudioKept(new) BY <2>0, <3>2, <4>2, <4>4 DEF AudioKept
      <4>6. new.pc \in Holding BY <2>1, <4>4
      <4> QED BY <2>u, <2>8, <3>1, <3>2, <4>1, <4>3, <4>5, <4>6, ConnMoves
    <3>6. CASE Fails(c)
      <4>1. Broken.pc \in Holding BY <2>1, <2>6
      <4> QED BY <2>u, <2>6, <2>7, <2>8, <3>1, <3>2, <3>6, <4>1, ConnMoves
    <3> QED BY <3>3, <3>4, <3>5, <3>6
  <2>14. ASSUME NEW m, NEW rec, Hear(c, m, rec) PROVE k.pc \in Holding /\ k.end = "none" /\ k.pc # "over"
    BY <2>u, <2>9, <2>14 DEF Hear, Serving
  <2>15. CASE HearConfig(c)
    <3> DEFINE new == [k EXCEPT !.pc = "loop", !.cfg = "message"]
    <3>1. Hear(c, "config", new) BY <2>u, <2>15 DEF HearConfig
    <3>2. new \in ConnRecords BY <2>2, <2>3 DEF ConnRecords
    <3>3. /\ new.pc = "loop" /\ new.end = k.end /\ new.received = k.received /\ new.total = k.total
          /\ new.pending = k.pending /\ new.dropped = k.dropped /\ new.bill = k.bill /\ new.sess = k.sess
      BY DEF ConnRecords
    <3> HIDE DEF new
    <3>4. AudioKept(new) BY <2>0, <2>14, <3>1, <3>3 DEF AudioKept
    <3>5. new.pc \in Holding BY <2>1, <3>3
    <3> QED BY <3>1, <3>2, <3>4, <3>5, HearKeeps
  <2>16. CASE HearCommit(c)
    <3>1. CASE Hear(c, "commit", [conn[c] EXCEPT !.pc = "loop"])
      <4>1. Hear(c, "commit", To("loop")) BY <2>u, <3>1 DEF To
      <4>2. To("loop") \in ConnRecords /\ AudioKept(To("loop")) /\ To("loop").pc \in Holding
        BY <2>1, <2>5, <2>14, <4>1
      <4> QED BY <4>1, <4>2, HearKeeps
    <3>2. CASE Hear(c, "commit", [conn[c] EXCEPT !.pc = "ending", !.end = "error"])
      <4>1. Hear(c, "commit", Broken) BY <2>u, <3>2 DEF Broken
      <4>2. Broken \in ConnRecords /\ AudioKept(Broken) /\ Broken.pc \in Holding
        BY <2>1, <2>6, <2>14, <4>1
      <4> QED BY <4>1, <4>2, HearKeeps
    <3> QED BY <2>16, <3>1, <3>2 DEF HearCommit
  <2>17. CASE HearLast(c)
    <3>1. PICK m \in {"end", "gone"} : Hear(c, m, [conn[c] EXCEPT !.pc = "ending", !.end = m]) BY <2>17 DEF HearLast
    <3> DEFINE new == [k EXCEPT !.pc = "ending", !.end = m]
    <3>2. Hear(c, m, new) BY <2>u, <3>1
    <3>3. m \in Ends BY DEF Ends
    <3>4. new \in ConnRecords BY <2>3, <3>3 DEF ConnRecords
    <3>5. /\ new.pc = "ending" /\ new.end = m /\ new.received = k.received /\ new.total = k.total
          /\ new.pending = k.pending /\ new.dropped = k.dropped /\ new.bill = k.bill /\ new.sess = k.sess
      BY DEF ConnRecords
    <3> HIDE DEF new
    <3>6. AudioKept(new) BY <2>0, <2>14, <3>2, <3>5 DEF AudioKept
    <3>7. new.pc \in Holding BY <2>1, <3>5
    <3> QED BY <3>2, <3>4, <3>6, <3>7, HearKeeps
  <2>18. CASE Buffer(c)
    <3> DEFINE p == IF k.pending = MaxBuffer THEN k.pending ELSE k.pending + 1
               d == IF k.pending = MaxBuffer THEN k.dropped + 1 ELSE k.dropped
               new == [k EXCEPT !.pc = "loop", !.received = @ + 1, !.pending = p, !.dropped = d]
    <3>1. Hear(c, "audio", new) /\ k.sess = "none" BY <2>u, <2>18 DEF Buffer
    <3>2. p \in 0 .. MaxBuffer /\ d \in Nat /\ p + d = k.pending + k.dropped + 1 /\ (d > 0 => k.dropped > 0 \/ p = MaxBuffer)
          /\ (k.pending = MaxBuffer => p = MaxBuffer)
      BY <1>0, <2>4
    <3>9. k.received + 1 \in Nat BY <2>4
    <3> HIDE DEF p, d
    <3>3. new \in ConnRecords BY <2>3, <3>2, <3>9 DEF ConnRecords
    <3>4. /\ new.pc = "loop" /\ new.end = k.end /\ new.received = k.received + 1 /\ new.total = k.total
          /\ new.pending = p /\ new.dropped = d /\ new.bill = k.bill /\ new.sess = k.sess
      BY DEF ConnRecords
    <3> HIDE DEF new
    <3>5. k.pc # "over" /\ k.end = "none" BY <2>14, <3>1
    <3>6. k.dropped > 0 => k.pending = MaxBuffer BY <2>0, <3>1 DEF AudioKept
    <3>7. k.received + 1 = k.total + p + d /\ k.total <= k.received + 1 BY <1>0, <2>0, <2>4, <3>2, <3>5 DEF AudioKept
    <3>8. AudioKept(new) BY <2>0, <3>2, <3>4, <3>5, <3>6, <3>7 DEF AudioKept
    <3>10. new.pc \in Holding BY <2>1, <3>4
    <3> QED BY <3>1, <3>3, <3>8, <3>10, HearKeeps
  <2>19. CASE Decode(c)
    <3>1. CASE Hear(c, "audio", [conn[c] EXCEPT !.pc = "loop", !.received = @ + 1, !.pending = 0,
                            !.total = @ + conn[c].pending + 1])
      <4> DEFINE t == k.total + k.pending + 1
                 new == [k EXCEPT !.pc = "loop", !.received = @ + 1, !.pending = 0, !.total = t]
      <4>1. Hear(c, "audio", new) BY <2>u, <3>1
      <4>2. t \in Nat /\ k.received + 1 \in Nat /\ 0 \in 0 .. MaxBuffer BY <1>0, <2>4
      <4>3. k.sess # "none" BY <2>u, <2>19 DEF Decode
      <4>4. k.pc # "over" /\ k.end = "none" BY <2>14, <4>1
      <4>5. k.received + 1 = t + 0 + k.dropped /\ t <= k.received + 1 BY <1>0, <2>0, <2>4, <4>4 DEF AudioKept
      <4> HIDE DEF t
      <4>6. new \in ConnRecords BY <2>3, <4>2 DEF ConnRecords
      <4>7. /\ new.pc = "loop" /\ new.end = k.end /\ new.received = k.received + 1 /\ new.total = t
            /\ new.pending = 0 /\ new.dropped = k.dropped /\ new.bill = k.bill /\ new.sess = k.sess
        BY DEF ConnRecords
      <4> HIDE DEF new
      <4>8. AudioKept(new) BY <2>0, <4>3, <4>4, <4>5, <4>7 DEF AudioKept
      <4>10. new.pc \in Holding BY <2>1, <4>7
      <4> QED BY <4>1, <4>6, <4>8, <4>10, HearKeeps
    <3>2. ASSUME NEW n \in 0 .. conn[c].pending + 1,
                 Hear(c, "audio", [conn[c] EXCEPT !.pc = "ending", !.end = "error", !.received = @ + 1, !.total = @ + n])
          PROVE  SttInv'
      <4> DEFINE t == k.total + n
                 new == [k EXCEPT !.pc = "ending", !.end = "error", !.received = @ + 1, !.total = t]
      <4>1. Hear(c, "audio", new) BY <2>u, <3>2
      <4>2. n \in 0 .. k.pending + 1 BY <2>u, <3>2
      <4>3. t \in Nat /\ k.received + 1 \in Nat BY <1>0, <2>4, <4>2
      <4>4. k.pc # "over" /\ k.end = "none" /\ k.sess # "none" BY <2>u, <2>14, <2>19, <4>1 DEF Decode
      <4>5. t <= k.received + 1 BY <1>0, <2>0, <2>4, <4>2, <4>4 DEF AudioKept
      <4> HIDE DEF t
      <4>6. new \in ConnRecords BY <2>2, <2>3, <4>3 DEF ConnRecords
      <4>7. /\ new.pc = "ending" /\ new.end = "error" /\ new.received = k.received + 1 /\ new.total = t
            /\ new.pending = k.pending /\ new.dropped = k.dropped /\ new.bill = k.bill /\ new.sess = k.sess
        BY DEF ConnRecords
      <4> HIDE DEF new
      <4>8. AudioKept(new) BY <2>0, <4>4, <4>5, <4>7 DEF AudioKept
      <4>10. new.pc \in Holding BY <2>1, <4>7
      <4> QED BY <4>1, <4>6, <4>8, <4>10, HearKeeps
    <3> QED BY <2>19, <3>1, <3>2 DEF Decode
  <2>20. CASE End(c)
    <3> DEFINE new == [k EXCEPT !.pc = "over", !.bill = k.total]
    <3>1. /\ conn' = [conn EXCEPT ![c] = new] /\ k.pc = "ending" /\ taken' = taken - 1 /\ model' = model /\ line' = line
      BY <2>u, <2>20 DEF End, Conn
    <3>2. new \in ConnRecords BY <2>3, <2>4 DEF ConnRecords
    <3>3. /\ new.pc = "over" /\ new.end = k.end /\ new.received = k.received /\ new.total = k.total
          /\ new.pending = k.pending /\ new.dropped = k.dropped /\ new.bill = k.total /\ new.sess = k.sess
      BY DEF ConnRecords
    <3> HIDE DEF new
    <3>4. AudioKept(new) BY <2>0, <3>1, <3>3 DEF AudioKept
    <3>5. new.pc \notin Holding /\ k.pc \in Holding BY <2>1, <3>1, <3>3
    <3> QED BY <2>u, <2>8, <3>1, <3>2, <3>4, <3>5, ConnMoves
  <2> QED BY <1>1, <2>10, <2>11, <2>12, <2>13, <2>15, <2>16, <2>17, <2>18, <2>19, <2>20 DEF ConnStep
<1>2. CASE LoadModel BY <1>2 DEF LoadModel, SttInv, InService
<1>3. CASE UNCHANGED sttVars BY <1>3 DEF sttVars, SttInv, InService
<1> QED BY <1>1, <1>2, <1>3 DEF SttNext

-----------------------------------------------------------------------------
(* The synthesis sessions: a request that was stopped with a sentence      *)
(* still to come has its event set until it is answered, so that no worker *)
(* that reads ahead gets to its end.                                       *)
SockPlaces   == Live \cup {"new", "accepted", "over"}
StreamPlaces == {"new", "body", "streaming", "after", "over"}
Lengths      == 0 .. MaxSentences
Mail         == Seq(Messages \cup {"gone"})
SockRecords  == [pc : SockPlaces, cancel : BOOLEAN, gone : BOOLEAN, deaf : BOOLEAN,
                 stopped : BOOLEAN, sent : 0 .. MaxMessages, of : Lengths, spoken : Lengths]
StreamRecords == [pc : StreamPlaces, gone : BOOLEAN, released : BOOLEAN, billed : BOOLEAN,
                  of : Lengths, spoken : Lengths]

SockKept(s, reads) ==
  /\ s.spoken <= s.of
  /\ s.pc = "engine" => s.spoken = 0 /\ s.of = 0
  /\ s.pc = "synth" => s.spoken < s.of
  /\ reads /\ s.stopped =>
       /\ s.pc \in Working => s.cancel
       /\ s.pc = "speaking" => s.spoken < s.of \/ s.of = 0
       /\ s.pc = "synth" => s.spoken + 1 < s.of

AnswerKept(a, reads) ==
  /\ a.billed => a.result = "done" /\ a.spoken = a.of
  /\ reads /\ a.stopped => a.result # "done" \/ a.of = 0

StreamKept(s) ==
  /\ s.spoken <= s.of
  /\ s.pc \in {"new", "body", "streaming"} => ~ s.released /\ ~ s.billed
  /\ s.pc \in {"new", "body"} => s.of = 0
  /\ s.billed => s.spoken = s.of

Open(s) == s.pc \in {"body", "streaming", "after"} /\ ~ s.released
LiveSocks   == {c \in Socks : sock[c].pc \in Live}
OpenStreams == {r \in Streams : Open(stream[r])}

TtsInv ==
  /\ worker \in Workers /\ active \in Nat
  /\ sock \in [Socks -> SockRecords] /\ \A c \in Socks : SockKept(sock[c], HasReader)
  /\ wire \in [Socks -> Mail] /\ inbox \in [Socks -> Mail]
  /\ answer \in [Socks -> Outcomes] /\ \A c \in Socks : AnswerKept(answer[c], HasReader)
  /\ stream \in [Streams -> StreamRecords] /\ \A r \in Streams : StreamKept(stream[r])
  /\ IsFiniteSet(LiveSocks) /\ IsFiniteSet(OpenStreams)
  /\ HasSlots => active = Cardinality(LiveSocks) + Cardinality(OpenStreams) /\ active <= MaxConnections

LEMMA TtsInvInit == TtsInit => TtsInv
<1> SUFFICES ASSUME TtsInit PROVE TtsInv
    OBVIOUS
<1>0. /\ "new" \in SockPlaces /\ "new" \notin Live /\ "new" \in StreamPlaces
      /\ MaxSentences \in Nat /\ MaxMessages \in Nat /\ MaxConnections \in Nat
  BY TtsAssumption DEF TtsAssumption, SockPlaces, StreamPlaces, Live, Working
<1>1. 0 \in Lengths /\ 0 \in 0 .. MaxMessages BY <1>0 DEF Lengths
<1>2. /\ sock \in [Socks -> [pc : {"new"}, cancel : {FALSE}, gone : {FALSE}, deaf : {FALSE},
                             stopped : {FALSE}, sent : {0}, of : {0}, spoken : {0}]]
      /\ stream \in [Streams -> [pc : {"new"}, gone : {FALSE}, released : {FALSE},
                                 billed : {FALSE}, of : {0}, spoken : {0}]]
  BY DEF TtsInit
<1>3. \A c \in Socks : sock[c] \in SockRecords /\ sock[c].pc = "new" /\ SockKept(sock[c], HasReader)
  <2> SUFFICES ASSUME NEW c \in Socks PROVE sock[c] \in SockRecords /\ sock[c].pc = "new" /\ SockKept(sock[c], HasReader)
      OBVIOUS
  <2>1. PICK k \in [pc : {"new"}, cancel : {FALSE}, gone : {FALSE}, deaf : {FALSE}, stopped : {FALSE},
                     sent : {0}, of : {0}, spoken : {0}] : k = sock[c] BY <1>2
  <2>2. k.pc = "new" /\ k.cancel = FALSE /\ k.gone = FALSE /\ k.deaf = FALSE /\ k.stopped = FALSE /\ k.sent = 0 /\ k.of = 0 /\ k.spoken = 0
    OBVIOUS
  <2>3. k = [pc |-> "new", cancel |-> FALSE, gone |-> FALSE, deaf |-> FALSE, stopped |-> FALSE, sent |-> 0, of |-> 0, spoken |-> 0]
    OBVIOUS
  <2>4. k \in SockRecords BY <1>0, <1>1, <2>3 DEF SockRecords
  <2>5. SockKept(k, HasReader) BY <2>2 DEF SockKept
  <2> QED BY <2>1, <2>2, <2>4, <2>5
<1>4. \A r \in Streams : stream[r] \in StreamRecords /\ stream[r].pc = "new" /\ StreamKept(stream[r])
  <2> SUFFICES ASSUME NEW r \in Streams PROVE stream[r] \in StreamRecords /\ stream[r].pc = "new" /\ StreamKept(stream[r])
      OBVIOUS
  <2>1. PICK k \in [pc : {"new"}, gone : {FALSE}, released : {FALSE}, billed : {FALSE}, of : {0}, spoken : {0}] :
          k = stream[r]
    BY <1>2
  <2>2. k.pc = "new" /\ k.gone = FALSE /\ k.released = FALSE /\ k.billed = FALSE /\ k.of = 0 /\ k.spoken = 0
    OBVIOUS
  <2>3. k = [pc |-> "new", gone |-> FALSE, released |-> FALSE, billed |-> FALSE, of |-> 0, spoken |-> 0]
    OBVIOUS
  <2>4. k \in StreamRecords BY <1>0, <1>1, <2>3 DEF StreamRecords
  <2>5. StreamKept(k) BY <2>2 DEF StreamKept
  <2> QED BY <2>1, <2>2, <2>4, <2>5
<1>5. sock \in [Socks -> SockRecords] /\ stream \in [Streams -> StreamRecords] BY <1>2, <1>3, <1>4
<1>6. LiveSocks = {} /\ OpenStreams = {} BY <1>0, <1>3, <1>4 DEF LiveSocks, OpenStreams, Open
<1>7. NoAnswer \in Outcomes /\ \A reads : AnswerKept(NoAnswer, reads)
  BY <1>0 DEF NoAnswer, Outcomes, AnswerKept
<1>8. <<>> \in Mail BY DEF Mail
<1>9. active = 0 /\ Cardinality(LiveSocks) = 0 /\ Cardinality(OpenStreams) = 0
  BY <1>6, FS_EmptySet DEF TtsInit
<1> QED BY <1>0, <1>3, <1>4, <1>5, <1>6, <1>7, <1>8, <1>9, FS_EmptySet DEF TtsInit, TtsInv

LEMMA TtsInvImplies == TtsInv => SlotsCounted /\ BilledIsSpoken
<1> SUFFICES ASSUME TtsInv PROVE SlotsCounted /\ BilledIsSpoken
    OBVIOUS
<1>1. TtsTypeOK BY DEF TtsInv, TtsTypeOK, SockRecords, StreamRecords, SockPlaces, StreamPlaces, Lengths, Mail
<1>2. BilledIsSpoken BY DEF TtsInv, BilledIsSpoken, AnswerKept, StreamKept
<1>3. SlotsCounted BY <1>1 DEF TtsInv, SlotsCounted, LiveSocks, OpenStreams, Open
<1> QED BY <1>2, <1>3

\* A step of one socket keeps the invariant if its own record and answer do, and the slots
\* follow it.
LEMMA SockMoves ==
  ASSUME TtsInv, NEW c \in Socks, NEW new \in SockRecords, SockKept(new, HasReader), sock' = [sock EXCEPT ![c] = new],
         worker' = worker, stream' = stream, wire' \in [Socks -> Mail], inbox' \in [Socks -> Mail],
         answer' \in [Socks -> Outcomes], \A d \in Socks : AnswerKept(answer'[d], HasReader),
         \/ active' = active /\ (HasSlots => (new.pc \in Live <=> sock[c].pc \in Live))
         \/ HasSlots /\ active' = active + 1 /\ active < MaxConnections /\ new.pc \in Live /\ sock[c].pc \notin Live
         \/ HasSlots /\ active' = active - 1 /\ new.pc \notin Live /\ sock[c].pc \in Live
  PROVE  TtsInv'
<1>0. HasReader' = HasReader /\ HasSlots' = HasSlots BY DEF HasReader, HasSlots
<1>1. /\ sock' \in [Socks -> SockRecords] /\ sock'[c] = new
      /\ \A d \in Socks : SockKept(sock'[d], HasReader)
      /\ \A d \in Socks : d # c => sock'[d] = sock[d]
  BY DEF TtsInv
<1>2. /\ \A d : d # c => (d \in LiveSocks <=> d \in LiveSocks')
      /\ (c \in LiveSocks <=> sock[c].pc \in Live) /\ (c \in LiveSocks' <=> new.pc \in Live)
      /\ OpenStreams' = OpenStreams
  BY <1>1 DEF LiveSocks, OpenStreams
<1>3. /\ IsFiniteSet(LiveSocks) /\ IsFiniteSet(OpenStreams) /\ active \in Nat /\ MaxConnections \in Nat
      /\ HasSlots => active = Cardinality(LiveSocks) + Cardinality(OpenStreams) /\ active <= MaxConnections
  BY TtsAssumption DEF TtsInv, TtsAssumption
<1>4. /\ IsFiniteSet(LiveSocks') /\ Cardinality(LiveSocks) \in Nat /\ Cardinality(LiveSocks') \in Nat
      /\ c \in LiveSocks' /\ c \notin LiveSocks => Cardinality(LiveSocks') = Cardinality(LiveSocks) + 1
      /\ c \in LiveSocks /\ c \notin LiveSocks' => Cardinality(LiveSocks') = Cardinality(LiveSocks) - 1
      /\ (c \in LiveSocks <=> c \in LiveSocks') => Cardinality(LiveSocks') = Cardinality(LiveSocks)
  BY <1>2, <1>3, OneMoves
<1>5. Cardinality(OpenStreams) \in Nat BY <1>3, FS_CardinalityType
<1>6. /\ active' \in Nat
      /\ HasSlots => active' = Cardinality(LiveSocks') + Cardinality(OpenStreams) /\ active' <= MaxConnections
  <2>1. CASE active' = active /\ (HasSlots => (new.pc \in Live <=> sock[c].pc \in Live))
    BY <1>2, <1>3, <1>4, <2>1
  <2>2. CASE HasSlots /\ active' = active + 1 /\ active < MaxConnections /\ new.pc \in Live /\ sock[c].pc \notin Live
    BY <1>2, <1>3, <1>4, <1>5, <2>2
  <2>3. CASE HasSlots /\ active' = active - 1 /\ new.pc \notin Live /\ sock[c].pc \in Live
    BY <1>2, <1>3, <1>4, <1>5, <2>3
  <2> QED BY <2>1, <2>2, <2>3
<1> QED BY <1>0, <1>1, <1>2, <1>3, <1>4, <1>6 DEF TtsInv

LEMMA StreamMoves ==
  ASSUME TtsInv, NEW r \in Streams, NEW new \in StreamRecords, StreamKept(new), Stream(r, new),
         \/ active' = active /\ (HasSlots => (Open(new) <=> Open(stream[r])))
         \/ HasSlots /\ active' = active + 1 /\ active < MaxConnections /\ Open(new) /\ ~ Open(stream[r])
         \/ HasSlots /\ active' = active - 1 /\ ~ Open(new) /\ Open(stream[r])
  PROVE  TtsInv'
<1>9. stream' = [stream EXCEPT ![r] = new] /\ worker' = worker /\ sock' = sock /\ wire' = wire /\ inbox' = inbox
      /\ answer' = answer
  BY DEF Stream
<1>0. HasReader' = HasReader /\ HasSlots' = HasSlots BY <1>9 DEF HasReader, HasSlots
<1>1. /\ stream' \in [Streams -> StreamRecords] /\ stream'[r] = new
      /\ \A q \in Streams : StreamKept(stream'[q])
      /\ \A q \in Streams : q # r => stream'[q] = stream[q]
  BY <1>9 DEF TtsInv
<1>2. /\ \A q : q # r => (q \in OpenStreams <=> q \in OpenStreams')
      /\ (r \in OpenStreams <=> Open(stream[r])) /\ (r \in OpenStreams' <=> Open(new))
      /\ LiveSocks' = LiveSocks
  BY <1>1, <1>9 DEF LiveSocks, OpenStreams, Open
<1>3. /\ IsFiniteSet(LiveSocks) /\ IsFiniteSet(OpenStreams) /\ active \in Nat /\ MaxConnections \in Nat
      /\ HasSlots => active = Cardinality(LiveSocks) + Cardinality(OpenStreams) /\ active <= MaxConnections
  BY TtsAssumption DEF TtsInv, TtsAssumption
<1>4. /\ IsFiniteSet(OpenStreams') /\ Cardinality(OpenStreams) \in Nat /\ Cardinality(OpenStreams') \in Nat
      /\ r \in OpenStreams' /\ r \notin OpenStreams => Cardinality(OpenStreams') = Cardinality(OpenStreams) + 1
      /\ r \in OpenStreams /\ r \notin OpenStreams' => Cardinality(OpenStreams') = Cardinality(OpenStreams) - 1
      /\ (r \in OpenStreams <=> r \in OpenStreams') => Cardinality(OpenStreams') = Cardinality(OpenStreams)
  BY <1>2, <1>3, OneMoves
<1>5. Cardinality(LiveSocks) \in Nat BY <1>3, FS_CardinalityType
<1>6. /\ active' \in Nat
      /\ HasSlots => active' = Cardinality(LiveSocks) + Cardinality(OpenStreams') /\ active' <= MaxConnections
  <2>1. CASE active' = active /\ (HasSlots => (Open(new) <=> Open(stream[r])))
    BY <1>2, <1>3, <1>4, <2>1
  <2>2. CASE HasSlots /\ active' = active + 1 /\ active < MaxConnections /\ Open(new) /\ ~ Open(stream[r])
    BY <1>2, <1>3, <1>4, <1>5, <2>2
  <2>3. CASE HasSlots /\ active' = active - 1 /\ ~ Open(new) /\ Open(stream[r])
    BY <1>2, <1>3, <1>4, <1>5, <2>3
  <2> QED BY <2>1, <2>2, <2>3
<1> QED BY <1>0, <1>1, <1>2, <1>3, <1>4, <1>6, <1>9 DEF TtsInv

LEMMA StreamStepKeeps == ASSUME TtsInv, NEW r \in Streams, StreamStep(r) \/ HangUp(r) PROVE TtsInv'
<1>u. PICK s \in StreamRecords : s = stream[r] BY DEF TtsInv
<1>0. StreamKept(s) /\ active \in Nat /\ MaxConnections \in Nat /\ MaxSentences \in Nat
      /\ (HasSlots => active <= MaxConnections)
  BY <1>u, TtsAssumption DEF TtsInv, TtsAssumption
<1>1. /\ "body" \in StreamPlaces /\ "streaming" \in StreamPlaces /\ "after" \in StreamPlaces /\ "over" \in StreamPlaces
  BY DEF StreamPlaces
<1>2. s.of \in Lengths /\ s.spoken \in Lengths /\ s.of \in Nat /\ s.spoken \in Nat BY <1>0 DEF StreamRecords, Lengths
\* release() of a stream whose record becomes new
<1>3. ASSUME NEW new \in StreamRecords, StreamKept(new), Stream(r, new), Released(r), new.released, s.pc \in {"body", "streaming", "after"}
      PROVE  TtsInv'
  <2>1. ~ Open(new) /\ (Open(s) <=> ~ s.released) BY <1>3 DEF Open
  <2>2. active' = IF HasSlots /\ ~ s.released THEN active - 1 ELSE active BY <1>u, <1>3 DEF Released
  <2>3. CASE HasSlots /\ ~ s.released BY <1>u, <1>3, <2>1, <2>2, <2>3, StreamMoves
  <2>4. CASE ~ HasSlots BY <1>u, <1>3, <2>2, <2>4, StreamMoves
  <2>5. CASE s.released BY <1>u, <1>3, <2>1, <2>2, <2>5, StreamMoves
  <2> QED BY <2>3, <2>4, <2>5
<1>4. CASE AdmitStream(r)
  <2>1. s.pc = "new" /\ ~ s.released /\ ~ s.billed BY <1>u, <1>0, <1>4 DEF AdmitStream, StreamKept
  <2>2. CASE Stream(r, [stream[r] EXCEPT !.pc = "over"]) /\ UNCHANGED active
    <3> DEFINE new == [s EXCEPT !.pc = "over"]
    <3>1. Stream(r, new) BY <1>u, <2>2
    <3>2. new \in StreamRecords BY <1>1 DEF StreamRecords
    <3>3. new.pc = "over" /\ (new.billed <=> s.billed) /\ new.spoken = s.spoken /\ new.of = s.of BY DEF StreamRecords
    <3> HIDE DEF new
    <3>4. StreamKept(new) /\ ~ Open(new) /\ ~ Open(s) BY <1>0, <2>1, <3>3 DEF StreamKept, Open
    <3> QED BY <1>u, <2>2, <3>1, <3>2, <3>4, StreamMoves
  <2>3. CASE /\ HasSlots => active < MaxConnections
             /\ Stream(r, [stream[r] EXCEPT !.pc = "body"])
             /\ active' = IF HasSlots THEN active + 1 ELSE active
    <3> DEFINE new == [s EXCEPT !.pc = "body"]
    <3>1. Stream(r, new) BY <1>u, <2>3
    <3>2. new \in StreamRecords BY <1>1 DEF StreamRecords
    <3>3. new.pc = "body" /\ (new.billed <=> s.billed) /\ (new.released <=> s.released) /\ new.spoken = s.spoken /\ new.of = s.of
      BY DEF StreamRecords
    <3> HIDE DEF new
    <3>4. StreamKept(new) /\ Open(new) /\ ~ Open(s) BY <1>0, <2>1, <3>3 DEF StreamKept, Open
    <3>5. CASE HasSlots BY <1>u, <2>3, <3>1, <3>2, <3>4, <3>5, StreamMoves
    <3>6. CASE ~ HasSlots BY <1>u, <2>3, <3>1, <3>2, <3>4, <3>6, StreamMoves
    <3> QED BY <3>5, <3>6
  <2> QED BY <1>4, <2>2, <2>3 DEF AdmitStream
<1>5. CASE HangUp(r)
  <2> DEFINE new == [s EXCEPT !.gone = TRUE]
  <2>1. Stream(r, new) /\ active' = active BY <1>u, <1>5 DEF HangUp
  <2>2. new \in StreamRecords BY DEF StreamRecords
  <2>3. new.pc = s.pc /\ (new.billed <=> s.billed) /\ (new.released <=> s.released) /\ new.spoken = s.spoken /\ new.of = s.of
    BY DEF StreamRecords
  <2> HIDE DEF new
  <2>4. StreamKept(new) /\ (Open(new) <=> Open(s)) BY <1>0, <2>3 DEF StreamKept, Open
  <2> QED BY <1>u, <2>1, <2>2, <2>4, StreamMoves
<1>6. CASE Body(r)
  <2>1. s.pc = "body" /\ ~ s.released /\ ~ s.billed BY <1>u, <1>0, <1>6 DEF Body, StreamKept
  <2>2. CASE Stream(r, [stream[r] EXCEPT !.pc = "over", !.released = TRUE]) /\ Released(r)
    <3> DEFINE new == [s EXCEPT !.pc = "over", !.released = TRUE]
    <3>1. Stream(r, new) BY <1>u, <2>2
    <3>2. new \in StreamRecords BY <1>1 DEF StreamRecords
    <3>3. new.pc = "over" /\ (new.billed <=> s.billed) /\ new.released /\ new.spoken = s.spoken /\ new.of = s.of
      BY DEF StreamRecords
    <3> HIDE DEF new
    <3>4. StreamKept(new) BY <1>0, <2>1, <3>3 DEF StreamKept
    <3> QED BY <1>3, <2>1, <2>2, <3>1, <3>2, <3>3, <3>4
  <2>3. ASSUME NEW n \in 1 .. MaxSentences, Stream(r, [stream[r] EXCEPT !.pc = "streaming", !.of = n]), UNCHANGED active
        PROVE  TtsInv'
    <3> DEFINE new == [s EXCEPT !.pc = "streaming", !.of = n]
    <3>1. Stream(r, new) BY <1>u, <2>3
    <3>9. n \in Lengths BY <1>0 DEF Lengths
    <3>2. new \in StreamRecords BY <1>1, <3>9 DEF StreamRecords
    <3>3. new.pc = "streaming" /\ (new.billed <=> s.billed) /\ (new.released <=> s.released) /\ new.spoken = s.spoken /\ new.of = n
      BY DEF StreamRecords
    <3> HIDE DEF new
    <3>5. s.spoken = 0
      BY <1>0, <1>2, <2>1 DEF StreamKept
    <3>4. StreamKept(new) /\ Open(new) /\ Open(s) BY <1>0, <2>1, <3>3, <3>5 DEF StreamKept, Open
    <3> QED BY <1>u, <2>3, <3>1, <3>2, <3>4, StreamMoves
  <2> QED BY <1>6, <2>2, <2>3 DEF Body
<1>7. CASE Chunk(r)
  <2> DEFINE new == [s EXCEPT !.spoken = @ + 1]
  <2>1. Stream(r, new) /\ active' = active /\ s.pc = "streaming" /\ s.spoken < s.of BY <1>u, <1>7 DEF Chunk
  <2>0. s.spoken + 1 \in Lengths BY <1>0, <1>2, <2>1 DEF Lengths
  <2>2. new \in StreamRecords BY <2>0 DEF StreamRecords
  <2>3. new.pc = s.pc /\ (new.billed <=> s.billed) /\ (new.released <=> s.released) /\ new.spoken = s.spoken + 1 /\ new.of = s.of
    BY DEF StreamRecords
  <2> HIDE DEF new
  <2>4. StreamKept(new) /\ (Open(new) <=> Open(s)) BY <1>0, <1>2, <2>1, <2>3 DEF StreamKept, Open
  <2> QED BY <1>u, <2>1, <2>2, <2>4, StreamMoves
<1>8. CASE EndStream(r)
  <2>1. s.pc = "streaming" /\ ~ s.released /\ ~ s.billed BY <1>u, <1>0, <1>8 DEF EndStream, StreamKept
  <2>2. ASSUME stream[r].gone \/ stream[r].spoken = stream[r].of, NEW metered \in BOOLEAN,
               Stream(r, [stream[r] EXCEPT !.pc = "after", !.released = TRUE, !.billed = metered /\ ~ stream[r].gone]),
               Released(r)
        PROVE  TtsInv'
    <3> DEFINE b == metered /\ ~ s.gone
               new == [s EXCEPT !.pc = "after", !.released = TRUE, !.billed = b]
    <3>1. Stream(r, new) BY <1>u, <2>2
    <3>5. b \in BOOLEAN /\ (b => s.spoken = s.of) BY <1>u, <2>2
    <3> HIDE DEF b
    <3>2. new \in StreamRecords BY <1>1, <3>5 DEF StreamRecords
    <3>3. new.pc = "after" /\ (new.billed <=> b) /\ new.released /\ new.spoken = s.spoken /\ new.of = s.of
      BY <3>5 DEF StreamRecords
    <3> HIDE DEF new
    <3>4. StreamKept(new) BY <1>0, <3>3, <3>5 DEF StreamKept
    <3> QED BY <1>3, <2>1, <2>2, <3>1, <3>2, <3>3, <3>4
  <2>3. CASE Stream(r, [stream[r] EXCEPT !.pc = "after"]) /\ UNCHANGED active
    <3> DEFINE new == [s EXCEPT !.pc = "after"]
    <3>1. Stream(r, new) BY <1>u, <2>3
    <3>2. new \in StreamRecords BY <1>1 DEF StreamRecords
    <3>3. new.pc = "after" /\ (new.billed <=> s.billed) /\ (new.released <=> s.released) /\ new.spoken = s.spoken /\ new.of = s.of
      BY DEF StreamRecords
    <3> HIDE DEF new
    <3>4. StreamKept(new) /\ Open(new) /\ Open(s) BY <1>0, <2>1, <3>3 DEF StreamKept, Open
    <3> QED BY <1>u, <2>3, <3>1, <3>2, <3>4, StreamMoves
  <2> QED BY <1>8, <2>2, <2>3 DEF EndStream
<1>9. CASE Background(r)
  <2> DEFINE new == [s EXCEPT !.pc = "over", !.released = TRUE]
  <2>1. Stream(r, new) /\ s.pc = "after" /\ Released(r) BY <1>u, <1>9 DEF Background
  <2>2. new \in StreamRecords BY <1>1 DEF StreamRecords
  <2>3. new.pc = "over" /\ (new.billed <=> s.billed) /\ new.released /\ new.spoken = s.spoken /\ new.of = s.of
    BY DEF StreamRecords
  <2> HIDE DEF new
  <2>4. StreamKept(new) BY <1>0, <2>3 DEF StreamKept
  <2> QED BY <1>3, <2>1, <2>2, <2>3, <2>4
<1> QED BY <1>4, <1>5, <1>6, <1>7, <1>8, <1>9 DEF StreamStep

\* What a client sends, and what is read of it, are messages.
LEMMA MailKept ==
  ASSUME NEW q \in [Socks -> Mail], NEW c \in Socks
  PROVE  /\ \A m \in Messages \cup {"gone"} : [q EXCEPT ![c] = Append(@, m)] \in [Socks -> Mail]
         /\ q[c] # <<>> => /\ [q EXCEPT ![c] = Tail(@)] \in [Socks -> Mail]
                           /\ Head(q[c]) \in Messages \cup {"gone"}
<1> DEFINE M == Messages \cup {"gone"}
<1>1. q[c] \in Seq(M) BY DEF Mail
<1> HIDE DEF M
<1>2. \A m \in M : Append(q[c], m) \in Seq(M) BY <1>1
<1>3. q[c] # <<>> => Tail(q[c]) \in Seq(M) /\ Head(q[c]) \in M BY <1>1
<1>4. Mail = Seq(M) BY DEF Mail, M
<1>5. \A m \in M : [q EXCEPT ![c] = Append(@, m)] \in [Socks -> Mail] BY <1>2, <1>4
<1>6. q[c] # <<>> => [q EXCEPT ![c] = Tail(@)] \in [Socks -> Mail] BY <1>3, <1>4
<1> QED BY <1>3, <1>5, <1>6 DEF M

\* Where a socket may go without a further condition.
LEMMA SockGoes ==
  ASSUME NEW s \in SockRecords, NEW reads, SockKept(s, reads), NEW pc \in SockPlaces \ Working
  PROVE  /\ [s EXCEPT !.pc = pc] \in SockRecords /\ [s EXCEPT !.pc = pc].pc = pc
         /\ SockKept([s EXCEPT !.pc = pc], reads)
<1> DEFINE new == [s EXCEPT !.pc = pc]
<1>1. new \in SockRecords BY DEF SockRecords
<1>2. new.pc = pc /\ new.of = s.of /\ new.spoken = s.spoken BY DEF SockRecords
<1>3. "engine" \in Working /\ "synth" \in Working /\ "speaking" \in Working BY DEF Working
<1> HIDE DEF new
<1>4. SockKept(new, reads) BY <1>2, <1>3 DEF SockKept
<1> QED BY <1>1, <1>2, <1>4 DEF new

LEMMA AnswerMoves ==
  ASSUME TtsInv, NEW c \in Socks, NEW result \in {"done", "cancelled", "error"}, NEW billed \in BOOLEAN,
         Answer(c, result, billed), sock[c].pc \in Working,
         billed => result = "done" /\ sock[c].spoken = sock[c].of,
         HasReader /\ sock[c].stopped => result # "done" \/ sock[c].of = 0,
         UNCHANGED <<worker, active, wire, inbox, stream>>
  PROVE  TtsInv'
<1>u. PICK s \in SockRecords : s = sock[c] BY DEF TtsInv
<1>0. SockKept(s, HasReader) /\ wire \in [Socks -> Mail] /\ inbox \in [Socks -> Mail]
      /\ answer \in [Socks -> Outcomes] /\ \A d \in Socks : AnswerKept(answer[d], HasReader)
  BY <1>u DEF TtsInv
<1>1. /\ "waiting" \in SockPlaces \ Working /\ "leaving" \in SockPlaces \ Working
      /\ "waiting" \in Live /\ "leaving" \in Live /\ s.pc \in Live
  BY <1>u DEF SockPlaces, Live, Working
<1> DEFINE To(pc) == [s EXCEPT !.pc = pc]
<1>2. /\ To("waiting") \in SockRecords /\ SockKept(To("waiting"), HasReader) /\ To("waiting").pc = "waiting"
      /\ To("leaving") \in SockRecords /\ SockKept(To("leaving"), HasReader) /\ To("leaving").pc = "leaving"
  BY <1>0, <1>1, SockGoes
<1>3. \A pc : Goes(c, pc) => sock' = [sock EXCEPT ![c] = To(pc)] BY <1>u DEF Goes, Sock
<1> HIDE DEF To
<1>4. CASE /\ answer' = [answer EXCEPT ![c] = [result |-> result, billed |-> billed,
                      stopped |-> sock[c].stopped, of |-> sock[c].of, spoken |-> sock[c].spoken]]
           /\ Goes(c, "waiting")
  <2> DEFINE a == [result |-> result, billed |-> billed, stopped |-> s.stopped, of |-> s.of, spoken |-> s.spoken]
  <2>1. answer' = [answer EXCEPT ![c] = a] BY <1>u, <1>4
  <2>2. s.stopped \in BOOLEAN /\ s.of \in 0 .. MaxSentences /\ s.spoken \in 0 .. MaxSentences
    BY DEF SockRecords, Lengths
  <2>3. a \in Outcomes BY <2>2 DEF Outcomes
  <2>4. /\ (a.billed <=> billed) /\ (a.stopped <=> s.stopped) /\ a.result = result /\ a.of = s.of /\ a.spoken = s.spoken
    BY <2>2
  <2> HIDE DEF a
  <2>5. AnswerKept(a, HasReader) BY <1>u, <2>4 DEF AnswerKept
  <2>6. answer' \in [Socks -> Outcomes] /\ \A d \in Socks : AnswerKept(answer'[d], HasReader)
    BY <1>0, <2>1, <2>3, <2>5
  <2> QED BY <1>u, <1>0, <1>1, <1>2, <1>3, <1>4, <2>6, SockMoves
<1>5. CASE sock[c].gone /\ Goes(c, "leaving") /\ UNCHANGED answer
  BY <1>u, <1>0, <1>1, <1>2, <1>3, <1>5, SockMoves
<1> QED BY <1>4, <1>5 DEF Answer

LEMMA SockStepKeeps ==
  ASSUME TtsInv, NEW c \in Socks, Read(c) \/ MainStep(c) \/ Disconnect(c) \/ \E m \in Messages : Say(c, m)
  PROVE  TtsInv'
<1>u. PICK s \in SockRecords : s = sock[c] BY DEF TtsInv
<1>0. /\ SockKept(s, HasReader) /\ wire \in [Socks -> Mail] /\ inbox \in [Socks -> Mail]
      /\ answer \in [Socks -> Outcomes] /\ \A d \in Socks : AnswerKept(answer[d], HasReader)
  BY <1>u DEF TtsInv
<1>1. /\ active \in Nat /\ MaxConnections \in Nat /\ MaxSentences \in Nat /\ MaxMessages \in Nat
      /\ s.of \in Nat /\ s.spoken \in Nat /\ s.of \in Lengths /\ s.spoken \in Lengths
      /\ s.cancel \in BOOLEAN /\ s.stopped \in BOOLEAN /\ s.gone \in BOOLEAN /\ s.sent \in 0 .. MaxMessages
  BY <1>u, TtsAssumption DEF TtsInv, TtsAssumption, SockRecords, Lengths
<1> DEFINE To(pc) == [s EXCEPT !.pc = pc]
<1>2. \A pc : Goes(c, pc) => sock' = [sock EXCEPT ![c] = To(pc)] BY <1>u DEF Goes, Sock
<1>3. \A pc \in SockPlaces \ Working : To(pc) \in SockRecords /\ To(pc).pc = pc /\ SockKept(To(pc), HasReader)
  BY <1>0, SockGoes
<1>4. /\ "accepted" \in SockPlaces \ Working /\ "over" \in SockPlaces \ Working
      /\ "waiting" \in SockPlaces \ Working /\ "leaving" \in SockPlaces \ Working
      /\ "waiting" \in Live /\ "leaving" \in Live /\ "accepted" \notin Live /\ "over" \notin Live /\ "new" \notin Live
      /\ "engine" \in Live /\ "speaking" \in Live /\ "synth" \in Live
      /\ "engine" \in SockPlaces /\ "speaking" \in SockPlaces /\ "synth" \in SockPlaces
  BY DEF SockPlaces, Live, Working
<1> HIDE DEF To
<1>5. CASE Accept(c)
  <2>1. PICK pc \in {"accepted", "over"} : Goes(c, pc) BY <1>5 DEF Accept
  <2>2. s.pc = "new" /\ UNCHANGED <<worker, active, wire, inbox, answer, stream>> BY <1>u, <1>5 DEF Accept
  <2> QED BY <1>u, <1>0, <1>2, <1>3, <1>4, <2>1, <2>2, SockMoves
<1>6. CASE TakeSlot(c)
  <2>1. s.pc = "accepted" /\ UNCHANGED <<worker, wire, inbox, answer, stream>> BY <1>u, <1>6 DEF TakeSlot
  <2>2. CASE HasSlots /\ active >= MaxConnections
    <3>1. Goes(c, "over") /\ active' = active BY <1>6, <2>2 DEF TakeSlot
    <3> QED BY <1>u, <1>0, <1>2, <1>3, <1>4, <2>1, <3>1, SockMoves
  <2>3. CASE ~ (HasSlots /\ active >= MaxConnections)
    <3>1. Goes(c, "waiting") /\ active' = IF HasSlots THEN active + 1 ELSE active BY <1>6, <2>3 DEF TakeSlot
    <3>2. CASE HasSlots
      <4>1. active < MaxConnections /\ active' = active + 1 BY <1>1, <2>3, <3>1, <3>2
      <4> QED BY <1>u, <1>0, <1>2, <1>3, <1>4, <2>1, <3>1, <3>2, <4>1, SockMoves
    <3>3. CASE ~ HasSlots BY <1>u, <1>0, <1>2, <1>3, <1>4, <2>1, <3>1, <3>3, SockMoves
    <3> QED BY <3>2, <3>3
  <2> QED BY <2>2, <2>3
<1>7. CASE Leave(c)
  <2>1. s.pc = "leaving" /\ Goes(c, "over") /\ UNCHANGED <<worker, wire, inbox, answer, stream>>
        /\ active' = IF HasSlots THEN active - 1 ELSE active
    BY <1>u, <1>7 DEF Leave
  <2>2. CASE HasSlots BY <1>u, <1>0, <1>2, <1>3, <1>4, <2>1, <2>2, SockMoves
  <2>3. CASE ~ HasSlots BY <1>u, <1>0, <1>2, <1>3, <1>4, <2>1, <2>3, SockMoves
  <2> QED BY <2>2, <2>3
\* a message that is read, or none, and what becomes of the event
<1>8. ASSUME NEW new \in SockRecords, sock' = [sock EXCEPT ![c] = new], new.pc = s.pc, s.pc \in Live,
             new.of = s.of, new.spoken = s.spoken,
             HasReader /\ new.stopped /\ s.pc \in Working => new.cancel /\ (s.stopped \/ StillToCome(c)),
             wire' \in [Socks -> Mail], inbox' \in [Socks -> Mail], UNCHANGED <<worker, active, answer, stream>>
      PROVE  TtsInv'
  <2>1. StillToCome(c) <=> \/ s.pc = "engine"
                           \/ s.pc = "speaking" /\ s.spoken < s.of
                           \/ s.pc = "synth" /\ s.spoken + 1 < s.of
    BY <1>u DEF StillToCome
  <2>2. "speaking" \in Working /\ "synth" \in Working BY DEF Working
  <2>3. SockKept(new, HasReader)
    <3>1. /\ new.spoken <= new.of /\ (new.pc = "engine" => new.spoken = 0 /\ new.of = 0)
          /\ (new.pc = "synth" => new.spoken < new.of)
      BY <1>0, <1>8 DEF SockKept
    <3>2. ASSUME HasReader, new.stopped
          PROVE  /\ new.pc \in Working => new.cancel
                 /\ new.pc = "speaking" => new.spoken < new.of \/ new.of = 0
                 /\ new.pc = "synth" => new.spoken + 1 < new.of
      <4>1. s.stopped => /\ s.pc = "speaking" => s.spoken < s.of \/ s.of = 0
                         /\ s.pc = "synth" => s.spoken + 1 < s.of
        BY <1>0, <3>2 DEF SockKept
      <4> QED BY <1>8, <2>1, <2>2, <3>2, <4>1
    <3> QED BY <3>1, <3>2 DEF SockKept
  <2> QED BY <1>u, <1>0, <1>8, <2>3, SockMoves
<1>9. CASE Read(c)
  <2> DEFINE m == Head(wire[c])
             b == s.cancel \/ m \in {"stop", "gone"}
             p == s.stopped \/ (m = "stop" /\ StillToCome(c))
             d == m = "unreadable"
             new == [s EXCEPT !.cancel = b, !.deaf = d, !.stopped = p]
  <2>1. /\ s.pc \in Live /\ wire[c] # <<>> /\ sock' = [sock EXCEPT ![c] = new]
        /\ wire' = [wire EXCEPT ![c] = Tail(@)] /\ UNCHANGED <<worker, active, answer, stream>>
        /\ inbox' = IF m \in {"stop", "unreadable"} THEN inbox ELSE [inbox EXCEPT ![c] = Append(@, m)]
    BY <1>u, <1>9 DEF Read, Sock
  <2>2. wire' \in [Socks -> Mail] /\ m \in Messages \cup {"gone"} BY <1>0, <2>1, MailKept
  <2>3. inbox' \in [Socks -> Mail] BY <1>0, <2>1, <2>2, MailKept
  <2>4. b \in BOOLEAN /\ d \in BOOLEAN /\ p \in BOOLEAN OBVIOUS
  <2>5. ASSUME HasReader, p, s.pc \in Working PROVE b /\ (s.stopped \/ StillToCome(c))
    BY <1>0, <2>5 DEF SockKept
  <2> HIDE DEF b, d, p, m
  <2>6. new \in SockRecords BY <2>4 DEF SockRecords
  <2>7. new.pc = s.pc /\ (new.cancel <=> b) /\ (new.stopped <=> p) /\ new.of = s.of /\ new.spoken = s.spoken
    BY <2>4 DEF SockRecords
  <2> HIDE DEF new
  <2> QED BY <1>8, <2>1, <2>2, <2>3, <2>5, <2>6, <2>7
<1>10. CASE Disconnect(c)
  <2> DEFINE new == [s EXCEPT !.gone = TRUE]
  <2>1. /\ s.pc \in Live /\ sock' = [sock EXCEPT ![c] = new]
        /\ wire' = [wire EXCEPT ![c] = Append(@, "gone")] /\ UNCHANGED <<worker, active, inbox, answer, stream>>
    BY <1>u, <1>10 DEF Disconnect, Sock
  <2>2. wire' \in [Socks -> Mail] BY <1>0, <2>1, MailKept
  <2>3. new \in SockRecords BY DEF SockRecords
  <2>4. new.pc = s.pc /\ (new.cancel <=> s.cancel) /\ (new.stopped <=> s.stopped) /\ new.of = s.of /\ new.spoken = s.spoken
    BY DEF SockRecords
  <2> HIDE DEF new
  <2>5. HasReader /\ s.stopped /\ s.pc \in Working => s.cancel BY <1>0 DEF SockKept
  <2> QED BY <1>0, <1>8, <2>1, <2>2, <2>3, <2>4, <2>5
<1>11. ASSUME NEW m \in Messages, Say(c, m) PROVE TtsInv'
  <2> DEFINE p == s.stopped \/ (m = "stop" /\ ~ HasReader /\ StillToCome(c))
             new == [s EXCEPT !.sent = @ + 1, !.stopped = p]
  <2>1. /\ s.pc \in Live /\ sock' = [sock EXCEPT ![c] = new] /\ s.sent < MaxMessages
        /\ wire' = [wire EXCEPT ![c] = Append(@, m)] /\ UNCHANGED <<worker, active, inbox, answer, stream>>
    BY <1>u, <1>11 DEF Say, Sock
  <2>2. wire' \in [Socks -> Mail] BY <1>0, <2>1, MailKept
  <2>3. p \in BOOLEAN /\ s.sent + 1 \in 0 .. MaxMessages BY <1>1, <2>1
  <2>4. HasReader /\ p => s.stopped OBVIOUS
  <2> HIDE DEF p
  <2>5. new \in SockRecords BY <2>3 DEF SockRecords
  <2>6. new.pc = s.pc /\ (new.cancel <=> s.cancel) /\ (new.stopped <=> p) /\ new.of = s.of /\ new.spoken = s.spoken
    BY <2>3 DEF SockRecords
  <2> HIDE DEF new
  <2>7. HasReader /\ s.stopped /\ s.pc \in Working => s.cancel BY <1>0 DEF SockKept
  <2> QED BY <1>0, <1>8, <2>1, <2>2, <2>4, <2>5, <2>6, <2>7
\* taking a message off what the main loop reads
<1>12. ASSUME Dequeue(c), Queue(c) # <<>>
       PROVE  wire' \in [Socks -> Mail] /\ inbox' \in [Socks -> Mail]
  <2>1. CASE HasReader
    <3>1. inbox' = [inbox EXCEPT ![c] = Tail(@)] /\ wire' = wire /\ inbox[c] # <<>> BY <1>12, <2>1 DEF Dequeue, Queue
    <3> QED BY <1>0, <3>1, MailKept
  <2>2. CASE ~ HasReader
    <3>1. wire' = [wire EXCEPT ![c] = Tail(@)] /\ inbox' = inbox /\ wire[c] # <<>> BY <1>12, <2>2 DEF Dequeue, Queue
    <3> QED BY <1>0, <3>1, MailKept
  <2> QED BY <2>1, <2>2
<1>13. CASE TakeLast(c)
  <2>1. s.pc = "waiting" /\ Goes(c, "leaving") /\ Dequeue(c) /\ Queue(c) # <<>>
        /\ UNCHANGED <<worker, active, answer, stream>>
    BY <1>u, <1>13 DEF TakeLast
  <2>2. wire' \in [Socks -> Mail] /\ inbox' \in [Socks -> Mail] BY <1>12, <2>1
  <2> QED BY <1>u, <1>0, <1>2, <1>3, <1>4, <2>1, <2>2, SockMoves
<1>14. CASE TakeOther(c)
  <2>1. s.pc = "waiting" /\ Dequeue(c) /\ Queue(c) # <<>> /\ UNCHANGED <<worker, active, answer, stream>>
    BY <1>u, <1>14 DEF TakeOther
  <2>2. wire' \in [Socks -> Mail] /\ inbox' \in [Socks -> Mail] BY <1>12, <2>1
  <2>3. PICK b \in BOOLEAN : sock' = [sock EXCEPT ![c] = [s EXCEPT !.cancel = b]]
    BY <1>u, <1>1, <1>14 DEF TakeOther, Sock
  <2> DEFINE new == [s EXCEPT !.cancel = b]
  <2>4. new \in SockRecords BY DEF SockRecords
  <2>5. new.pc = s.pc /\ new.of = s.of /\ new.spoken = s.spoken BY DEF SockRecords
  <2>6. sock' = [sock EXCEPT ![c] = new] BY <2>3
  <2> HIDE DEF new
  <2>7. s.pc \notin Working /\ s.pc \in Live BY <1>4, <2>1
  <2> QED BY <1>8, <2>1, <2>2, <2>4, <2>5, <2>6, <2>7
<1>15. CASE TakeRequest(c)
  <2> DEFINE new == [s EXCEPT !.pc = "engine", !.cancel = FALSE, !.stopped = FALSE, !.of = 0, !.spoken = 0]
  <2>1. s.pc = "waiting" /\ Dequeue(c) /\ Queue(c) # <<>> /\ UNCHANGED <<worker, active, answer, stream>>
        /\ sock' = [sock EXCEPT ![c] = new]
    BY <1>u, <1>15 DEF TakeRequest, Sock
  <2>2. wire' \in [Socks -> Mail] /\ inbox' \in [Socks -> Mail] BY <1>12, <2>1
  <2>3. 0 \in Lengths BY <1>1 DEF Lengths
  <2>4. new \in SockRecords BY <1>4, <2>3 DEF SockRecords
  <2>5. new.pc = "engine" /\ ~ new.stopped /\ new.of = 0 /\ new.spoken = 0 BY DEF SockRecords
  <2> HIDE DEF new
  <2>6. SockKept(new, HasReader) BY <2>5 DEF SockKept
  <2> QED BY <1>u, <1>0, <1>4, <2>1, <2>2, <2>4, <2>5, <2>6, SockMoves
<1>16. CASE LoadEngine(c)
  <2>1. s.pc = "engine" /\ UNCHANGED <<worker, active, wire, inbox, stream>> BY <1>u, <1>16 DEF LoadEngine
  <2>2. ASSUME NEW n \in 0 .. MaxSentences, Sock(c, [sock[c] EXCEPT !.pc = "speaking", !.of = n]), UNCHANGED answer
        PROVE  TtsInv'
    <3> DEFINE new == [s EXCEPT !.pc = "speaking", !.of = n]
    <3>1. sock' = [sock EXCEPT ![c] = new] BY <1>u, <2>2 DEF Sock
    <3>2. n \in Lengths BY DEF Lengths
    <3>3. new \in SockRecords BY <1>4, <3>2 DEF SockRecords
    <3>4. new.pc = "speaking" /\ (new.cancel <=> s.cancel) /\ (new.stopped <=> s.stopped) /\ new.of = n /\ new.spoken = s.spoken
      BY DEF SockRecords
    <3> HIDE DEF new
    <3>5. s.spoken = 0 /\ (HasReader /\ s.stopped => s.cancel) BY <1>0, <2>1 DEF SockKept, Working
    <3>6. 0 <= n /\ (0 < n \/ n = 0) BY <1>1, <2>2
    <3>7. SockKept(new, HasReader) BY <3>4, <3>5, <3>6 DEF SockKept
    <3> QED BY <1>u, <1>0, <1>4, <2>1, <2>2, <3>1, <3>3, <3>4, <3>7, SockMoves
  <2>3. CASE Answer(c, "error", FALSE) BY <1>u, <2>1, <2>3, AnswerMoves DEF Working
  <2> QED BY <1>16, <2>2, <2>3 DEF LoadEngine
<1>17. CASE Speak(c)
  <2>1. /\ s.pc = "speaking" /\ s.spoken < s.of /\ ~ s.cancel /\ UNCHANGED <<worker, active, wire, inbox, answer, stream>>
        /\ sock' = [sock EXCEPT ![c] = To("synth")]
    BY <1>u, <1>2, <1>17 DEF Speak
  <2>2. To("synth") \in SockRecords BY <1>4 DEF To, SockRecords
  <2>3. LET new == To("synth") IN
          new.pc = "synth" /\ (new.stopped <=> s.stopped) /\ new.of = s.of /\ new.spoken = s.spoken
    BY DEF To, SockRecords
  <2>4. ~ (HasReader /\ s.stopped) BY <1>0, <2>1 DEF SockKept, Working
  <2>5. SockKept(To("synth"), HasReader) BY <1>0, <2>1, <2>3, <2>4 DEF SockKept
  <2> QED BY <1>u, <1>0, <1>4, <2>1, <2>2, <2>3, <2>5, SockMoves
<1>18. CASE Send(c)
  <2>1. s.pc = "synth" /\ UNCHANGED <<worker, active, wire, inbox, stream>> BY <1>u, <1>18 DEF Send
  <2>2. CASE Sock(c, [sock[c] EXCEPT !.pc = "speaking", !.spoken = @ + 1]) /\ UNCHANGED answer
    <3> DEFINE new == [s EXCEPT !.pc = "speaking", !.spoken = @ + 1]
    <3>1. sock' = [sock EXCEPT ![c] = new] BY <1>u, <2>2 DEF Sock
    <3>2. s.spoken < s.of BY <1>0, <2>1 DEF SockKept
    <3>3. s.spoken + 1 \in Lengths /\ s.spoken + 1 <= s.of BY <1>1, <3>2 DEF Lengths
    <3>4. new \in SockRecords BY <1>4, <3>3 DEF SockRecords
    <3>5. new.pc = "speaking" /\ (new.cancel <=> s.cancel) /\ (new.stopped <=> s.stopped)
          /\ new.of = s.of /\ new.spoken = s.spoken + 1
      BY DEF SockRecords
    <3> HIDE DEF new
    <3>6. HasReader /\ s.stopped => s.cancel /\ s.spoken + 1 < s.of BY <1>0, <2>1 DEF SockKept, Working
    <3>7. SockKept(new, HasReader) BY <3>3, <3>5, <3>6 DEF SockKept
    <3> QED BY <1>u, <1>0, <1>4, <2>1, <2>2, <3>1, <3>4, <3>5, <3>7, SockMoves
  <2>3. CASE Answer(c, "error", FALSE) BY <1>u, <2>1, <2>3, AnswerMoves DEF Working
  <2> QED BY <1>18, <2>2, <2>3 DEF Send
<1>19. CASE EndRequest(c)
  <2>1. s.pc = "speaking" /\ UNCHANGED <<worker, active, wire, inbox, stream>> BY <1>u, <1>19 DEF EndRequest
  <2>2. CASE Answer(c, "cancelled", FALSE) BY <1>u, <2>1, <2>2, AnswerMoves DEF Working
  <2>3. ASSUME s.spoken = s.of, NEW metered \in BOOLEAN, Answer(c, "done", Bills /\ metered) PROVE TtsInv'
    <3>1. HasReader /\ s.stopped => s.of = 0 BY <1>0, <1>1, <2>1, <2>3 DEF SockKept
    <3> QED BY <1>u, <2>1, <2>3, <3>1, AnswerMoves DEF Working
  <2> QED BY <1>u, <1>19, <2>2, <2>3 DEF EndRequest
<1> QED BY <1>5, <1>6, <1>7, <1>9, <1>10, <1>11, <1>13, <1>14, <1>15, <1>16, <1>17, <1>18, <1>19 DEF MainStep

LEMMA TtsInvStep == TtsInv /\ [TtsNext]_ttsVars => TtsInv'
<1> SUFFICES ASSUME TtsInv, [TtsNext]_ttsVars PROVE TtsInv'
    OBVIOUS
<1>1. CASE UNCHANGED ttsVars
  <2>1. UNCHANGED <<worker, active, sock, wire, inbox, answer, stream>> BY <1>1 DEF ttsVars
  <2>2. HasReader' = HasReader /\ HasSlots' = HasSlots /\ LiveSocks' = LiveSocks /\ OpenStreams' = OpenStreams
    BY <2>1 DEF HasReader, HasSlots, LiveSocks, OpenStreams, Open
  <2> QED BY <2>1, <2>2 DEF TtsInv
<1> QED BY <1>1, SockStepKeeps, StreamStepKeeps DEF TtsNext

-----------------------------------------------------------------------------
(* The socket of worker-stt: one report, when it is over.                  *)
ChargeInv == /\ streaming \in {"open", "ended", "broken", "over"}
             /\ charged = IF streaming = "over" THEN <<Len(heard)>> ELSE <<>>

LEMMA ChargeInvInit == StreamInit => ChargeInv
  BY DEF StreamInit, ChargeInv

LEMMA ChargeInvImplies == ChargeInv => StreamCharged
  BY DEF ChargeInv, StreamCharged

LEMMA ChargeInvStep == ChargeInv /\ [StreamNext]_streamVars => ChargeInv'
<1> SUFFICES ASSUME ChargeInv, [StreamNext]_streamVars PROVE ChargeInv'
    OBVIOUS
<1>1. CASE Configure BY <1>1 DEF Configure, ChargeInv
<1>2. CASE EndSocket BY <1>2 DEF EndSocket, ChargeInv
<1>3. CASE CloseSocket
  <2>1. charged = <<>> /\ streaming' = "over" /\ charged' = Append(charged, Len(heard)) /\ heard' = heard
    BY <1>3 DEF CloseSocket, ChargeInv
  <2>2. charged' = <<Len(heard')>> BY <2>1
  <2> QED BY <2>1, <2>2 DEF ChargeInv
<1>4. ASSUME NEW units, HearUnits(units) PROVE ChargeInv'
  <2>1. streaming = "open" /\ streaming' = streaming /\ charged' = charged BY <1>4 DEF HearUnits
  <2> QED BY <2>1 DEF ChargeInv
<1>5. CASE UNCHANGED streamVars BY <1>5 DEF streamVars, ChargeInv
<1> QED BY <1>1, <1>2, <1>3, <1>4, <1>5 DEF StreamNext

-----------------------------------------------------------------------------
(* The Python client: a stream is registered from its first chunk to the   *)
(* end of its finally.                                                     *)
CallPlaces == {"new", "open", "reading", "yielded", "leaving", "closed", "over"}
Connected  == {"open", "reading", "yielded", "leaving"}
SdkInv ==
  /\ call \in [Calls -> CallPlaces]
  /\ connected \subseteq Calls /\ told \subseteq SyncCalls /\ stops \in 0 .. MaxStops
  /\ registered \subseteq SyncCalls /\ stopping \subseteq SyncCalls /\ newest \subseteq SyncCalls
  /\ connected = {c \in Calls : call[c] \in Connected}
  /\ \A c \in newest : call[c] \notin {"closed", "over"} => registered = {c}
  /\ \A c \in registered : call[c] \in {"reading", "yielded", "leaving", "closed"}

LEMMA SdkInvInit == SdkInit => SdkInv
  BY SdkAssumption DEF SdkAssumption, SdkInit, SdkInv, CallPlaces, Connected

LEMMA SdkInvImplies == SdkInv => SdkTypeOK /\ ConnectionsHeld
  BY DEF SdkInv, SdkTypeOK, ConnectionsHeld, CallPlaces, Connected

LEMMA SdkInvStep == SdkInv /\ [SdkNext]_sdkVars => SdkInv'
<1> SUFFICES ASSUME SdkInv, [SdkNext]_sdkVars PROVE SdkInv'
    OBVIOUS
<1>0. MaxStops \in Nat /\ SyncCalls \subseteq Calls /\ HttpCalls \subseteq Calls \ SyncCalls
  BY SdkAssumption DEF SdkAssumption
<1>1. CASE StopReads
  <2>1. stops' \in 0 .. MaxStops BY <1>0, <1>1 DEF StopReads, SdkInv
  <2> QED BY <1>1, <2>1 DEF StopReads, SdkInv
<1>2. CASE StopSends BY <1>2 DEF StopSends, SdkInv
<1>3. CASE UNCHANGED sdkVars BY <1>3 DEF sdkVars, SdkInv
\* a call goes from one place to another
<1>4. ASSUME NEW c \in Calls, NEW from \in CallPlaces, NEW to \in CallPlaces, Move(c, from, to),
             connected' = IF from \in Connected THEN IF to \in Connected THEN connected ELSE connected \ {c}
                          ELSE IF to \in Connected THEN connected \cup {c} ELSE connected,
             \/ registered' = registered /\ newest' = newest /\ (to \in {"reading", "yielded", "leaving", "closed"} \/ c \notin registered)
                /\ (from \in {"closed", "over"} => to \in {"closed", "over"})
             \/ registered' = {c} /\ newest' = {c} /\ to = "reading" /\ c \in SyncCalls
             \/ registered' = registered \ {c} /\ newest' = newest /\ to = "over",
             UNCHANGED <<told, stopping, stops>>
      PROVE  SdkInv'
  <2>1. call[c] = from /\ call' \in [Calls -> CallPlaces] /\ call'[c] = to /\ \A d \in Calls : d # c => call'[d] = call[d]
    BY <1>4 DEF Move, SdkInv
  <2>2. connected' = {d \in Calls : call'[d] \in Connected} BY <1>4, <2>1 DEF SdkInv
  <2>3. registered' \subseteq SyncCalls /\ newest' \subseteq SyncCalls BY <1>4 DEF SdkInv
  <2>4. \A d \in registered' : call'[d] \in {"reading", "yielded", "leaving", "closed"}
    BY <1>0, <1>4, <2>1 DEF SdkInv
  <2>5. \A d \in newest' : call'[d] \notin {"closed", "over"} => registered' = {d}
    BY <1>0, <1>4, <2>1 DEF SdkInv
  <2>6. connected' \subseteq Calls BY <2>2
  <2> QED BY <1>4, <2>1, <2>2, <2>3, <2>4, <2>5, <2>6 DEF SdkInv
<1>5. ASSUME NEW c \in Calls, CallStep(c) PROVE SdkInv'
  <2>0. c \in registered => call[c] \in {"reading", "yielded", "leaving", "closed"} BY DEF SdkInv
  <2>9. registered \subseteq SyncCalls BY DEF SdkInv
  <2>1. CASE Connect(c)
    <3>1. CASE Move(c, "new", "over") /\ UNCHANGED connected
      <4>1. c \notin registered BY <2>0, <3>1 DEF Move
      <4> QED BY <1>4, <2>1, <3>1, <4>1 DEF Connect, CallPlaces, Connected
    <3>2. CASE Move(c, "new", "open") /\ connected' = connected \cup {c}
      <4>1. c \notin registered BY <2>0, <3>2 DEF Move
      <4> QED BY <1>4, <2>1, <3>2, <4>1 DEF Connect, CallPlaces, Connected
    <3> QED BY <2>1, <3>1, <3>2 DEF Connect
  <2>2. CASE RegisterStream(c) BY <1>4, <2>2 DEF RegisterStream, CallPlaces, Connected
  <2>3. CASE Receive(c) BY <1>4, <2>3 DEF Receive, CallPlaces, Connected
  <2>4. CASE Consume(c) BY <1>4, <2>4 DEF Consume, CallPlaces, Connected
  <2>5. CASE CloseConnection(c) BY <1>4, <2>5 DEF CloseConnection, CallPlaces, Connected
  <2>6. CASE Unregister(c) BY <1>4, <2>6 DEF Unregister, CallPlaces, Connected
  <2>7. CASE AStream(c) \/ HttpStream(c)
    <3>1. KeptPrivate(c) /\ c \notin registered BY <1>0, <2>7, <2>9 DEF AStream, HttpStream
    <3> QED BY <1>4, <3>1 DEF KeptPrivate, CallPlaces, Connected
  <2> QED BY <1>5, <2>1, <2>2, <2>3, <2>4, <2>5, <2>6, <2>7 DEF CallStep
<1> QED BY <1>1, <1>2, <1>3, <1>5 DEF SdkNext

-----------------------------------------------------------------------------
(* A response that ends like a whole file: ffmpeg read to the end of the   *)
(* worker's body, which nothing broke off then or after.                   *)
FromWhole(e) == /\ e.at \in {"new", "fetch"} => e.ff = "none"
                /\ e.ff = "zero" => e.src = "ended"
                /\ e.answer = "clean" => e.ff = "zero" /\ e.at = "over"
CleanInv == enc \in [Encodes -> EncRecords] /\ \A r \in Encodes : FromWhole(enc[r])

LEMMA CleanInvInit == GatewayInit => CleanInv
  BY DEF GatewayInit, FirstEnc, EncRecords, FromWhole, CleanInv

LEMMA CleanInvImplies == CleanInv => CleanIsWhole
  BY DEF CleanInv, CleanIsWhole, FromWhole

LEMMA CleanStays ==
  ASSUME CleanInv, NEW r \in Encodes, NEW new \in EncRecords, FromWhole(new), enc' = [enc EXCEPT ![r] = new]
  PROVE  CleanInv'
  BY DEF CleanInv

LEMMA CleanGiven ==
  ASSUME CleanInv, NEW r \in Encodes, NEW new \in EncRecords, FromWhole(new), PlaceGiven(r, new)
  PROVE  CleanInv'
<1> DEFINE given == [new EXCEPT !.released = TRUE]
<1>1. given \in EncRecords /\ FromWhole(given) BY DEF EncRecords, FromWhole
<1>2. enc' = [enc EXCEPT ![r] = given] BY DEF PlaceGiven, EncBecomes
<1> HIDE DEF given
<1> QED BY <1>1, <1>2, CleanStays

LEMMA CleanInvStep == CleanInv /\ [EncNext \/ PayNext]_gatewayVars => CleanInv'
<1> SUFFICES ASSUME CleanInv, [EncNext \/ PayNext]_gatewayVars PROVE CleanInv'
    OBVIOUS
<1>1. ASSUME NEW r \in Encodes, EncodeStep(r) \/ ClientLeaves(r) \/ EncoderWrites(r) PROVE CleanInv'
  <2>1. PICK e \in EncRecords : e = enc[r] BY DEF CleanInv
  <2>2. FromWhole(e) BY <2>1 DEF CleanInv
  <2>3. CASE AdmitEncode(r)
    <3>1. PICK new \in {[e EXCEPT !.at = "over", !.answer = "503"], [e EXCEPT !.at = "fetch"]} :
            enc' = [enc EXCEPT ![r] = new]
      BY <2>1, <2>3 DEF AdmitEncode, EncBecomes
    <3>2. e.at = "new" BY <2>1, <2>3 DEF AdmitEncode
    <3>3. new \in EncRecords /\ FromWhole(new) BY <2>2, <3>1, <3>2 DEF EncRecords, FromWhole
    <3> QED BY <3>1, <3>3, CleanStays
  <2>4. CASE ClientLeaves(r)
    <3> DEFINE new == [e EXCEPT !.left = TRUE, !.ff = Killed(@), !.src = IF @ = "open" THEN "broken" ELSE @]
    <3>1. e.at \in {"fetch", "passing", "encoding"} /\ PlaceGiven(r, new) BY <2>1, <2>4 DEF ClientLeaves
    <3>2. new \in EncRecords BY DEF EncRecords, Killed
    <3>3. new.at = e.at /\ new.answer = e.answer /\ (new.ff = "zero" <=> e.ff = "zero") /\ (e.ff = "none" => new.ff = "none")
          /\ (e.src = "ended" => new.src = "ended")
      BY DEF EncRecords, Killed
    <3> HIDE DEF new
    <3>4. FromWhole(new) BY <2>2, <3>3 DEF FromWhole
    <3> QED BY <3>1, <3>2, <3>4, CleanGiven
  \* an answer that is not clean, or is of a whole file
  <2>5. ASSUME NEW message \in {"none", "clean", "destroyed", "worker", "502"}, EncodeOver(r, message),
               e.at # "over", message = "clean" => e.ff = "zero"
        PROVE  CleanInv'
    <3> DEFINE new == [e EXCEPT !.at = "over", !.answer = IF e.left THEN "none" ELSE message]
    <3>1. PlaceGiven(r, new) BY <2>1, <2>5 DEF EncodeOver
    <3>2. new \in EncRecords BY DEF EncRecords
    <3>3. new.at = "over" /\ new.ff = e.ff /\ new.src = e.src /\ (new.answer = "clean" => message = "clean")
      BY DEF EncRecords
    <3> HIDE DEF new
    <3>4. FromWhole(new) BY <2>2, <2>5, <3>3 DEF FromWhole
    <3> QED BY <3>1, <3>2, <3>4, CleanGiven
  <2>6. CASE WorkerFails(r) BY <2>1, <2>5, <2>6 DEF WorkerFails
  <2>7. CASE WorkerAnswers(r)
    <3>1. e.at = "fetch" /\ e.ff = "none" /\ e.answer # "clean" BY <2>1, <2>2, <2>7 DEF WorkerAnswers, FromWhole
    <3>2. CASE e.left BY <2>1, <2>5, <2>7, <3>1, <3>2 DEF WorkerAnswers
    <3>3. CASE ~ e.left
      <4>1. PICK new \in {[e EXCEPT !.at = "passing"], [e EXCEPT !.at = "encoding", !.src = "open", !.ff = "running"]} :
              enc' = [enc EXCEPT ![r] = new]
        BY <2>1, <2>7, <3>3 DEF WorkerAnswers, EncBecomes
      <4>2. new \in EncRecords /\ FromWhole(new) BY <3>1, <4>1 DEF EncRecords, FromWhole
      <4> QED BY <4>1, <4>2, CleanStays
    <3> QED BY <3>2, <3>3
  <2>8. CASE PassedOn(r) BY <2>1, <2>5, <2>8 DEF PassedOn
  <2>9. CASE SourceEnds(r) \/ SourceBreaks(r)
    <3>1. e.src = "open" BY <2>1, <2>9 DEF SourceEnds, SourceBreaks
    <3>2. PICK new \in {[e EXCEPT !.src = "ended"], [e EXCEPT !.src = "broken", !.ff = Killed(@)]} :
            enc' = [enc EXCEPT ![r] = new]
      BY <2>1, <2>9 DEF SourceEnds, SourceBreaks, EncBecomes
    <3>3. e.ff # "zero" /\ e.answer # "clean" BY <2>2, <3>1 DEF FromWhole
    <3>4. new \in EncRecords BY <3>2 DEF EncRecords, Killed
    <3>5. new.at = e.at /\ new.answer = e.answer /\ new.ff # "zero" /\ (e.ff = "none" => new.ff = "none")
      BY <3>2, <3>3 DEF EncRecords, Killed
    <3>6. FromWhole(new) BY <2>2, <3>3, <3>5 DEF FromWhole
    <3> QED BY <3>2, <3>4, <3>6, CleanStays
  <2>10. CASE EncoderWrites(r)
    <3> DEFINE new == [e EXCEPT !.sent = TRUE]
    <3>1. enc' = [enc EXCEPT ![r] = new] BY <2>1, <2>10 DEF EncoderWrites, EncBecomes
    <3>2. new \in EncRecords /\ FromWhole(new) BY <2>2 DEF EncRecords, FromWhole
    <3> HIDE DEF new
    <3> QED BY <3>1, <3>2, CleanStays
  <2>11. CASE EncoderExits(r)
    <3>1. PICK code \in {"zero", "failed"} : (code = "zero" => e.src = "ended") /\ EncBecomes(r, [e EXCEPT !.ff = code])
      BY <2>1, <2>11 DEF EncoderExits
    <3>2. e.ff \in {"running", "killed"} BY <2>1, <2>11 DEF EncoderExits
    <3> DEFINE new == [e EXCEPT !.ff = code]
    <3>3. enc' = [enc EXCEPT ![r] = new] BY <3>1 DEF EncBecomes
    <3>4. new \in EncRecords /\ new.at = e.at /\ new.answer = e.answer /\ new.ff = code /\ new.src = e.src BY DEF EncRecords
    <3> HIDE DEF new
    <3>5. FromWhole(new) BY <2>2, <3>1, <3>2, <3>4 DEF FromWhole
    <3> QED BY <3>3, <3>4, <3>5, CleanStays
  <2>12. CASE EncodeEnds(r)
    <3>1. CASE Whole(r)
      <4>1. EncodeOver(r, "clean") /\ e.ff = "zero" /\ e.at # "over" BY <2>1, <2>12, <3>1 DEF EncodeEnds, Whole
      <4> QED BY <2>5, <4>1
    <3>2. CASE ~ Whole(r) BY <2>1, <2>5, <2>12, <3>2 DEF EncodeEnds
    <3> QED BY <3>1, <3>2
  <2> QED BY <1>1, <2>3, <2>4, <2>6, <2>7, <2>8, <2>9, <2>10, <2>11, <2>12 DEF EncodeStep
<1>2. CASE UNCHANGED encVars BY <1>2 DEF encVars, CleanInv
<1>3. PayNext => UNCHANGED encVars BY DEF PayNext, Webhook, StripeKey, Purge, RestartGateway
<1> QED BY <1>1, <1>2, <1>3 DEF EncNext, gatewayVars

-----------------------------------------------------------------------------
(* A session of the recognizer: speech and its start come and go together, *)
(* a guess that is open is of the words heard so far, and the last segment *)
(* ended before the one that is heard began.                               *)
Sess == [t : 0 .. MaxClock, start : {Never} \cup 0 .. MaxClock, sil : {Never} \cup Nat,
         speech : BOOLEAN, lastSpeech : 0 .. MaxClock, spec : BOOLEAN, text : BOOLEAN, unfinished : BOOLEAN]
Marks == [type : EventTypes, start : Nat, end : Nat, heard : BOOLEAN]
HeardWell(s, last) ==
  /\ s.start # Never <=> s.speech
  /\ s.sil # Never => s.speech
  /\ s.speech => s.start <= s.lastSpeech /\ 0 < s.lastSpeech
  /\ s.lastSpeech <= s.t /\ s.start <= s.t
  /\ s.spec => s.text
  /\ last <= s.t /\ (s.speech => last <= s.start)
InTime(s) == s.sil # Never => s.t - s.sil < Threshold(s)
EventsWell(es) == \A i \in DOMAIN es : es[i] \in Marks /\ (es[i].type = "final" /\ es[i].heard => es[i].start <= es[i].end)
NoFinals(es) == \A i \in 1 .. Len(es) : es[i].type # "final"
SesInv ==
  /\ endpoint \in Endpoints /\ ses \in Sess /\ EventsWell(events)
  /\ guess \in {"none", "open"} /\ (guess = "open" <=> ses.spec) /\ lastEnd \in 0 .. MaxClock
  /\ HeardWell(ses, lastEnd) /\ InTime(ses)

LEMMA SessionConstants ==
  /\ Never = -1 /\ MaxClock \in Nat /\ ChunkSizes \subseteq Nat \ {0} /\ Endpoints \subseteq Nat
  /\ HintExtra \in Nat /\ HintMax \in Nat
  BY SessionAssumption DEF SessionAssumption, Never

LEMMA SesInvInit == SesInit => SesInv
<1> SUFFICES ASSUME SesInit PROVE SesInv
    OBVIOUS
<1>1. endpoint \in Endpoints /\ events = <<>> /\ guess = "none" /\ lastEnd = 0 BY DEF SesInit
<1>2. ses \in Sess /\ ses.spec = FALSE /\ ses.speech = FALSE /\ ses.start = Never /\ ses.sil = Never
      /\ ses.lastSpeech = 0 /\ ses.t = 0
  BY SessionConstants DEF SesInit, Sess
<1>3. EventsWell(events) BY <1>1 DEF EventsWell
<1>4. HeardWell(ses, lastEnd) /\ InTime(ses) BY <1>1, <1>2, SessionConstants DEF HeardWell, InTime
<1> QED BY <1>1, <1>2, <1>3, <1>4, SessionConstants DEF SesInv

LEMMA SesInvImplies == SesInv => GuessesSettled /\ SegmentsInOrder
<1> SUFFICES ASSUME SesInv PROVE GuessesSettled /\ SegmentsInOrder
    OBVIOUS
<1>1. \A i \in DOMAIN events : events[i].type \in EventTypes BY DEF SesInv, EventsWell, Marks
<1>2. SesTypeOK BY <1>1 DEF SesInv, SesTypeOK, Sess, Guesses
<1>3. ses.start # Never => lastEnd <= ses.start /\ ses.start <= ses.t BY DEF SesInv, HeardWell
<1>4. \A i \in DOMAIN events : events[i].type = "final" /\ events[i].heard => events[i].start <= events[i].end
  BY DEF SesInv, EventsWell
<1>5. ses.sil # Never => ses.t - ses.sil < Threshold(ses) BY DEF SesInv, InTime
<1>6. GuessesSettled BY <1>2 DEF SesInv, GuessesSettled
<1> QED BY <1>3, <1>4, <1>5, <1>6 DEF SegmentsInOrder

\* what the client makes of one event more, and of none
LEMMA FollowedNone ==
  ASSUME NEW g, NEW h, Followed(<<>>, g, h)
  PROVE  h = g
  BY DEF Followed

LEMMA FollowedOne ==
  ASSUME NEW es \in Seq(Marks), NEW e \in Marks, NEW g, NEW h, Followed(es \o <<e>>, g, h)
  PROVE  \E m \in Guesses : Followed(es, g, m) /\ h = Follow(m, e)
<1> DEFINE more == es \o <<e>>
<1>1. /\ Len(es) \in Nat /\ Len(more) = Len(es) + 1 /\ more[Len(es) + 1] = e
      /\ \A i \in 1 .. Len(es) : more[i] = es[i]
  <2>1. <<e>> \in Seq(Marks) /\ Len(<<e>>) = 1 /\ <<e>>[1] = e OBVIOUS
  <2> QED BY <2>1, ConcatProperties, LenProperties
<1> HIDE DEF more
<1>2. PICK f \in [0 .. Len(more) -> Guesses] :
        f[0] = g /\ f[Len(more)] = h /\ \A i \in 1 .. Len(more) : f[i] = Follow(f[i - 1], more[i])
  BY DEF Followed, more
<1> DEFINE f0 == [i \in 0 .. Len(es) |-> f[i]]
           m == f[Len(es)]
<1>3. f0 \in [0 .. Len(es) -> Guesses] /\ m \in Guesses /\ f0[0] = g /\ f0[Len(es)] = m
  BY <1>1, <1>2
<1>4. \A i \in 1 .. Len(es) : f0[i] = Follow(f0[i - 1], es[i])
  <2> SUFFICES ASSUME NEW i \in 1 .. Len(es) PROVE f0[i] = Follow(f0[i - 1], es[i]) OBVIOUS
  <2>1. i \in 1 .. Len(more) /\ i \in 0 .. Len(es) /\ i - 1 \in 0 .. Len(es) BY <1>1
  <2>2. f[i] = Follow(f[i - 1], es[i]) BY <1>1, <1>2, <2>1
  <2>3. f0[i] = f[i] /\ f0[i - 1] = f[i - 1] BY <2>1
  <2> HIDE DEF f0
  <2> QED BY <2>2, <2>3
<1>5. h = Follow(m, e)
  <2>1. Len(more) \in 1 .. Len(more) /\ Len(more) - 1 = Len(es) BY <1>1
  <2>2. f[Len(more)] = Follow(f[Len(more) - 1], more[Len(more)]) BY <1>2, <2>1
  <2> QED BY <1>1, <1>2, <2>1, <2>2
<1> HIDE DEF f0, m
<1>6. Followed(es, g, m) BY <1>3, <1>4 DEF Followed
<1> QED BY <1>3, <1>5, <1>6

\* a call that ends no segment
LEMMA EmitsOn ==
  ASSUME SesInv, NEW es \in Seq(Marks), NoFinals(es), Emit(es)
  PROVE  EventsWell(events') /\ lastEnd' = lastEnd /\ Followed(es, guess, guess')
<1>1. events' = es /\ Followed(es, guess, guess') BY DEF Emit
<1>2. Len(es) \in Nat /\ DOMAIN es = 1 .. Len(es) /\ \A i \in 1 .. Len(es) : es[i] \in Marks
  BY LenProperties, ElementOfSeq
<1>3. EventsWell(es) BY <1>2 DEF EventsWell, NoFinals
<1>4. es # <<>> => es[Len(es)].type # "final"
  <2>1. es # <<>> => Len(es) # 0 BY EmptySeq
  <2> QED BY <1>2, <2>1 DEF NoFinals
<1>5. lastEnd' = lastEnd BY <1>4 DEF Emit
<1> QED BY <1>1, <1>3, <1>5

LEMMA EmitsOneMore ==
  ASSUME NEW es \in Seq(Marks), NoFinals(es), NEW e \in Marks
  PROVE  /\ es \o <<e>> \in Seq(Marks) /\ es \o <<e>> # <<>>
         /\ Len(es \o <<e>>) = Len(es) + 1 /\ Len(es) \in Nat
         /\ (es \o <<e>>)[Len(es \o <<e>>)] = e
         /\ \A i \in 1 .. Len(es) : (es \o <<e>>)[i] = es[i] /\ es[i] \in Marks
         /\ e.type # "final" => NoFinals(es \o <<e>>)
         /\ (e.heard => e.start <= e.end) => EventsWell(es \o <<e>>)
<1> DEFINE more == es \o <<e>>
<1>1. /\ Len(es) \in Nat /\ more \in Seq(Marks) /\ Len(more) = Len(es) + 1 /\ more[Len(es) + 1] = e
      /\ \A i \in 1 .. Len(es) : more[i] = es[i]
  <2>1. <<e>> \in Seq(Marks) /\ Len(<<e>>) = 1 /\ <<e>>[1] = e OBVIOUS
  <2> QED BY <2>1, ConcatProperties, LenProperties
<1>2. \A i \in 1 .. Len(es) : es[i] \in Marks BY ElementOfSeq
<1> HIDE DEF more
<1>3. more # <<>>
  <2>1. Len(more) # 0 BY <1>1
  <2> QED BY <1>1, <2>1, EmptySeq
<1>4. e.type # "final" => NoFinals(more)
  <2> SUFFICES ASSUME e.type # "final", NEW i \in 1 .. Len(more) PROVE more[i].type # "final" BY DEF NoFinals
  <2>1. CASE i = Len(es) + 1 BY <1>1, <2>1
  <2>2. CASE i \in 1 .. Len(es) BY <1>1, <2>2 DEF NoFinals
  <2> QED BY <1>1, <2>1, <2>2
<1>5. (e.heard => e.start <= e.end) => EventsWell(more)
  <2> SUFFICES ASSUME e.heard => e.start <= e.end, NEW i \in DOMAIN more
               PROVE  more[i] \in Marks /\ (more[i].type = "final" /\ more[i].heard => more[i].start <= more[i].end)
      BY DEF EventsWell
  <2>1. i \in 1 .. Len(more) BY <1>1, LenProperties
  <2>2. CASE i = Len(es) + 1 BY <1>1, <2>2
  <2>3. CASE i \in 1 .. Len(es) BY <1>1, <1>2, <2>3 DEF NoFinals
  <2> QED BY <1>1, <2>1, <2>2, <2>3
<1>6. more[Len(more)] = e BY <1>1
<1> QED BY <1>1, <1>2, <1>3, <1>4, <1>5, <1>6 DEF more

LEMMA UtteranceIsNew ==
  ASSUME NEW s \in Sess
  PROVE  LET n == NewUtterance(s) IN
         /\ n \in Sess /\ n.t = s.t /\ n.speech = FALSE /\ n.sil = Never /\ n.start = Never
         /\ n.spec = FALSE /\ n.lastSpeech = s.lastSpeech
  BY DEF NewUtterance, Sess

\* the utterance ends: a final, or none when there were no words
LEMMA EndsUtterance ==
  ASSUME SesInv, NEW s \in Sess, HeardWell(s, lastEnd),
         NEW es \in Seq(Marks), NoFinals(es), \A h \in Guesses : Followed(es, guess, h) => (h = "open" <=> s.spec) /\ h # "broken",
         NEW f \in Finals(s), Emit(es \o f), ses' = Finalized(s), endpoint' = endpoint
  PROVE  SesInv'
<1>0. endpoint' \in Endpoints /\ lastEnd \in 0 .. MaxClock /\ guess' \in Guesses BY DEF SesInv, Emit
<1>c. MaxClock \in Nat /\ Never = -1 BY SessionConstants
<1>1. ASSUME f = <<>> PROVE SesInv'
  <2>1. es \o f = es BY <1>1, ConcatEmptySeq
  <2>2. EventsWell(events') /\ lastEnd' = lastEnd /\ Followed(es, guess, guess') BY <2>1, EmitsOn
  <2>3. (guess' = "open" <=> s.spec) /\ guess' # "broken" BY <1>0, <2>2
  <2>4. CASE ~ s.speech /\ ~ s.text
    <3>1. ses' = s BY <2>4 DEF Finalized
    <3>2. InTime(ses)' BY <3>1, <2>4 DEF InTime, HeardWell
    <3> QED BY <1>0, <2>2, <2>3, <3>1, <3>2 DEF SesInv, Guesses
  <2>5. CASE ~ (~ s.speech /\ ~ s.text)
    <3>1. ses' = NewUtterance(s) BY <2>5 DEF Finalized
    <3>2. ~ s.text
      <4> SUFFICES ASSUME s.text PROVE FALSE OBVIOUS
      <4> DEFINE e == [type |-> "final", heard |-> s.speech,
                       start |-> IF s.start = Never THEN 0 ELSE s.start,
                       end |-> IF s.lastSpeech = 0 THEN s.t ELSE s.lastSpeech]
      <4>1. f = <<e>> BY DEF Finals
      <4> HIDE DEF e
      <4>2. <<e>> # <<>> OBVIOUS
      <4> QED BY <1>1, <4>1, <4>2
    <3>3. ~ s.spec BY <3>2 DEF HeardWell
    <3>4. ses' \in Sess /\ ses'.t = s.t /\ ses'.speech = FALSE /\ ses'.sil = Never /\ ses'.start = Never
          /\ ses'.spec = FALSE /\ ses'.lastSpeech = s.lastSpeech
      BY <3>1, UtteranceIsNew
    <3>5. HeardWell(ses', lastEnd') BY <1>c, <2>2, <3>4 DEF HeardWell, Sess
    <3>6. InTime(ses)' BY <3>4 DEF InTime
    <3> QED BY <1>0, <2>2, <2>3, <3>3, <3>4, <3>5, <3>6 DEF SesInv, Guesses
  <2> QED BY <2>4, <2>5
<1>2. ASSUME f # <<>> PROVE SesInv'
  <2> DEFINE e == [type |-> "final", heard |-> s.speech,
                   start |-> IF s.start = Never THEN 0 ELSE s.start,
                   end |-> IF s.lastSpeech = 0 THEN s.t ELSE s.lastSpeech]
  <2>1. f = <<e>> /\ ~ (~ s.speech /\ ~ s.text) BY <1>2 DEF Finals
  <2>2. e \in Marks /\ e.type = "final" /\ (e.heard <=> s.speech)
        /\ (s.speech => e.start <= e.end /\ e.end = s.lastSpeech)
    <3>1. (IF s.start = Never THEN 0 ELSE s.start) \in Nat /\ (IF s.lastSpeech = 0 THEN s.t ELSE s.lastSpeech) \in Nat
      BY <1>c DEF Sess
    <3>2. e \in Marks BY <3>1 DEF Marks, EventTypes, Sess
    <3>3. s.speech => e.start = s.start /\ e.end = s.lastSpeech BY <1>c DEF HeardWell, Sess
    <3>4. s.speech => s.start <= s.lastSpeech BY DEF HeardWell
    <3> QED BY <3>2, <3>3, <3>4
  <2> HIDE DEF e
  <2>3. PICK m \in Guesses : Followed(es, guess, m) /\ guess' = Follow(m, e) BY <2>1, <2>2, FollowedOne DEF Emit
  <2>4. guess' = "none" BY <2>2, <2>3 DEF Follow
  <2>5. ses' = NewUtterance(s) BY <2>1 DEF Finalized
  <2>6. ses' \in Sess /\ ses'.t = s.t /\ ses'.speech = FALSE /\ ses'.sil = Never /\ ses'.start = Never
        /\ ses'.spec = FALSE /\ ses'.lastSpeech = s.lastSpeech
    BY <2>5, UtteranceIsNew
  <2>7. EventsWell(events')
    <3>1. events' = es \o <<e>> BY <2>1 DEF Emit
    <3> QED BY <2>2, <3>1, EmitsOneMore
  <2>8. lastEnd' = IF s.speech THEN s.lastSpeech ELSE lastEnd
    <3> DEFINE more == es \o <<e>>
    <3>1. more # <<>> /\ more[Len(more)] = e BY <2>2, EmitsOneMore
    <3>2. lastEnd' = IF more # <<>> /\ more[Len(more)].type = "final" /\ more[Len(more)].heard
                     THEN more[Len(more)].end ELSE lastEnd
      BY <2>1 DEF Emit
    <3> HIDE DEF more
    <3> QED BY <2>2, <3>1, <3>2
  <2>9. lastEnd' \in 0 .. MaxClock /\ lastEnd' <= s.t BY <1>0, <2>8 DEF Sess, HeardWell
  <2>10. HeardWell(ses', lastEnd') BY <1>c, <2>6, <2>9 DEF HeardWell, Sess
  <2>11. InTime(ses)' BY <2>6 DEF InTime
  <2> QED BY <1>0, <2>4, <2>6, <2>7, <2>9, <2>10, <2>11 DEF SesInv
<1> QED BY <1>1, <1>2

\* push() comes to its end
LEMMA DecidesWell ==
  ASSUME SesInv, NEW s \in Sess, HeardWell(s, lastEnd), NEW es \in Seq(Marks), NoFinals(es),
         \A h \in Guesses : Followed(es, guess, h) => (h = "open" <=> s.spec) /\ h # "broken",
         Decide(s, es), endpoint' = endpoint
  PROVE  SesInv'
<1>0. endpoint' \in Endpoints /\ lastEnd \in 0 .. MaxClock /\ guess' \in {"none", "open", "broken"}
  BY DEF SesInv, Decide, Emit, Guesses
<1> DEFINE silence == s.t - s.sil
           ends == IF s.speech /\ s.sil # Never THEN silence >= Threshold(s)
                   ELSE s.speech /\ s.t - s.start > MaxUtterance
           guesses == /\ s.speech /\ s.sil # Never /\ Speculative # 0 /\ ~ s.spec /\ s.text
                      /\ Speculative <= silence /\ silence < Threshold(s)
<1>1. CASE ends
  <2>1. PICK f \in Finals(s) : Emit(es \o f) /\ ses' = Finalized(s) BY <1>1 DEF Decide
  <2> QED BY <2>1, EndsUtterance
<1>2. CASE ~ ends /\ guesses
  <2> DEFINE e == Event("speculative_final")
  <2>1. Emit(es \o <<e>>) /\ ses' = [s EXCEPT !.spec = TRUE] BY <1>2 DEF Decide
  <2>2. e \in Marks /\ e.type = "speculative_final" /\ e.heard = FALSE BY DEF Event, Marks, EventTypes
  <2> HIDE DEF e
  <2>3. PICK m \in Guesses : Followed(es, guess, m) /\ guess' = Follow(m, e) BY <2>1, <2>2, FollowedOne DEF Emit
  <2>4. m = "none" BY <1>2, <2>3 DEF Guesses
  <2>5. guess' = "open" BY <2>2, <2>3, <2>4 DEF Follow
  <2>6. NoFinals(es \o <<e>>) /\ es \o <<e>> \in Seq(Marks) BY <2>2, EmitsOneMore
  <2>7. EventsWell(events') /\ lastEnd' = lastEnd BY <2>1, <2>6, EmitsOn
  <2>8. ses' \in Sess /\ ses'.t = s.t /\ ses'.speech = s.speech /\ ses'.sil = s.sil /\ ses'.start = s.start
        /\ ses'.spec = TRUE /\ ses'.lastSpeech = s.lastSpeech /\ ses'.text = s.text /\ ses'.unfinished = s.unfinished
    BY <2>1 DEF Sess
  <2>9. HeardWell(ses', lastEnd')
    <3>1. s.text BY <1>2
    <3> HIDE DEF ends, guesses, silence
    <3> QED BY <2>7, <2>8, <3>1 DEF HeardWell
  <2>10. InTime(ses)'
    <3>1. s.t - s.sil < Threshold(s) BY <1>2
    <3>2. Threshold(ses)' = Threshold(s) BY <2>8 DEF Threshold
    <3> QED BY <2>8, <3>1, <3>2 DEF InTime
  <2> QED BY <1>0, <2>5, <2>7, <2>8, <2>9, <2>10 DEF SesInv
<1>3. CASE ~ ends /\ ~ guesses
  <2>1. Emit(es) /\ ses' = s BY <1>3 DEF Decide
  <2>2. EventsWell(events') /\ lastEnd' = lastEnd /\ Followed(es, guess, guess') BY <2>1, EmitsOn
  <2>3. (guess' = "open" <=> s.spec) /\ guess' # "broken" BY <1>0, <2>2 DEF Guesses
  <2>4. InTime(s)
    <3>1. Threshold(s) \in Nat BY SessionConstants DEF Threshold, SmallerOf, SesInv
    <3>2. s.sil # Never => s.speech BY DEF HeardWell
    <3>3. s.t \in Int /\ s.sil \in Int BY SessionConstants DEF Sess
    <3> SUFFICES ASSUME s.sil # Never PROVE s.t - s.sil < Threshold(s) BY DEF InTime
    <3>4. ~ (s.t - s.sil >= Threshold(s)) BY <1>3, <3>2
    <3> QED BY <3>1, <3>3, <3>4
  <2>5. InTime(ses)'
    <3>1. Threshold(ses)' = Threshold(s) BY <2>1 DEF Threshold
    <3> QED BY <2>1, <2>4, <3>1 DEF InTime
  <2>6. HeardWell(ses', lastEnd') BY <2>1, <2>2
  <2>7. guess' \in {"none", "open"} /\ (guess' = "open" <=> ses'.spec) BY <1>0, <2>1, <2>3
  <2> QED BY <1>0, <2>1, <2>2, <2>5, <2>6, <2>7 DEF SesInv
<1> QED BY <1>1, <1>2, <1>3

\* the detector's word on a chunk, and the recognizer's
LEMMA DetectsWell ==
  ASSUME SesInv, NEW n \in ChunkSizes, ses.t + n <= MaxClock, NEW voice \in BOOLEAN,
         NEW s, s = Detect([ses EXCEPT !.t = @ + n], n, voice)
  PROVE  s \in Sess /\ HeardWell(s, lastEnd) /\ s.spec = ses.spec
<1>0. n \in Nat /\ 0 < n /\ MaxClock \in Nat /\ Never = -1 BY SessionConstants
<1>1. PICK k \in Sess : k = ses BY DEF SesInv
<1>2. HeardWell(k, lastEnd) /\ lastEnd \in 0 .. MaxClock BY <1>1 DEF SesInv
<1> DEFINE x == [k EXCEPT !.t = @ + n]
<1>3. x \in Sess /\ x.t = k.t + n /\ x.start = k.start /\ x.sil = k.sil /\ x.speech = k.speech
      /\ x.lastSpeech = k.lastSpeech /\ x.spec = k.spec /\ x.text = k.text
  BY <1>0, <1>1 DEF Sess
<1>4. s = Detect(x, n, voice) BY <1>1
<1> HIDE DEF x
<1>5. k.t \in Nat /\ k.lastSpeech \in Nat /\ k.start \in Int /\ x.t \in 0 .. MaxClock BY <1>0, <1>3 DEF Sess
<1>6. CASE voice
  <2> DEFINE from == IF x.speech THEN x.start ELSE x.t - n
  <2>1. from \in 0 .. MaxClock /\ (~ x.speech => from = k.t) /\ (x.speech => from = k.start)
    <3>1. CASE x.speech
      <4>1. x.start # Never BY <1>2, <1>3, <3>1 DEF HeardWell
      <4> QED BY <1>3, <3>1, <4>1 DEF Sess
    <3>2. CASE ~ x.speech BY <1>0, <1>3, <1>5, <3>2
    <3> QED BY <3>1, <3>2
  <2>2. s = [x EXCEPT !.start = from, !.speech = TRUE, !.sil = Never, !.lastSpeech = x.t]
    BY <1>4, <1>6 DEF Detect
  <2> HIDE DEF from
  <2>3. s \in Sess /\ s.t = x.t /\ s.start = from /\ s.speech = TRUE /\ s.sil = Never /\ s.lastSpeech = x.t
        /\ s.spec = x.spec /\ s.text = x.text
    BY <1>3, <2>1, <2>2 DEF Sess
  <2>4. lastEnd <= from /\ from <= x.t /\ 0 < x.t
    <3>1. CASE x.speech
      <4>1. lastEnd <= k.start /\ k.start <= k.t BY <1>2, <1>3, <3>1 DEF HeardWell
      <4> QED BY <1>0, <1>2, <1>3, <1>5, <2>1, <3>1, <4>1
    <3>2. CASE ~ x.speech
      <4>1. lastEnd <= k.t BY <1>2 DEF HeardWell
      <4> QED BY <1>0, <1>2, <1>3, <1>5, <2>1, <3>2, <4>1
    <3> QED BY <3>1, <3>2
  <2>5. from # Never /\ from \in Nat /\ lastEnd <= x.t BY <1>0, <1>2, <1>5, <2>1, <2>4
  <2>6. s.spec => s.text BY <1>2, <1>3, <2>3 DEF HeardWell
  <2>7. x.t <= x.t BY <1>5
  <2> QED BY <1>1, <1>3, <2>3, <2>4, <2>5, <2>6, <2>7 DEF HeardWell
<1>7. CASE ~ voice
  <2>1. HeardWell(x, lastEnd)
    <3>1. lastEnd <= x.t /\ k.lastSpeech <= x.t /\ k.start <= x.t
      BY <1>0, <1>2, <1>3, <1>5 DEF HeardWell
    <3> QED BY <1>2, <1>3, <3>1 DEF HeardWell
  <2>2. CASE x.speech /\ x.sil = Never
    <3>1. s = [x EXCEPT !.sil = x.t - 1] BY <1>4, <1>7, <2>2 DEF Detect
    <3>2. x.t - 1 \in Nat BY <1>0, <1>3, <1>5
    <3>3. s \in Sess /\ s.t = x.t /\ s.start = x.start /\ s.speech = x.speech /\ s.lastSpeech = x.lastSpeech
          /\ s.spec = x.spec /\ s.text = x.text
      BY <1>3, <3>1, <3>2 DEF Sess
    <3> QED BY <1>1, <1>3, <2>1, <2>2, <3>3 DEF HeardWell
  <2>3. CASE ~ (x.speech /\ x.sil = Never)
    <3>1. s = x BY <1>4, <1>7, <2>3 DEF Detect
    <3> QED BY <1>1, <1>3, <2>1, <3>1
  <2> QED BY <2>2, <2>3
<1> QED BY <1>6, <1>7

LEMMA WordsAreKept ==
  ASSUME NEW s \in Sess, HeardWell(s, lastEnd), NEW unfinished \in BOOLEAN, NEW w, w = Words(s, unfinished)
  PROVE  w \in Sess /\ HeardWell(w, lastEnd) /\ w.spec = FALSE
<1>1. w \in Sess /\ w.t = s.t /\ w.start = s.start /\ w.sil = s.sil /\ w.speech = s.speech
      /\ w.lastSpeech = s.lastSpeech /\ w.spec = FALSE /\ w.text = TRUE
  BY DEF Words, Sess
<1> QED BY <1>1 DEF HeardWell

\* a guess that was given is taken back before anything else is said
LEMMA WordsAreTold ==
  ASSUME NEW s \in Sess, NEW partial \in BOOLEAN, guess = "open" <=> s.spec, guess \in {"none", "open"}
  PROVE  /\ WordEvents(s, partial) \in Seq(Marks) /\ NoFinals(WordEvents(s, partial))
         /\ \A h \in Guesses : Followed(WordEvents(s, partial), guess, h) => h = "none"
<1> DEFINE r == Event("resume")
           p == Event("partial")
           first == IF s.spec THEN <<r>> ELSE <<>>
<1>1. r \in Marks /\ r.type = "resume" /\ p \in Marks /\ p.type = "partial" BY DEF Event, Marks, EventTypes
<1>2. WordEvents(s, partial) = first \o (IF partial THEN <<p>> ELSE <<>>) BY DEF WordEvents
<1> HIDE DEF r, p
<1>3. first \in Seq(Marks) /\ NoFinals(first) /\ \A h \in Guesses : Followed(first, guess, h) => h = "none"
  <2>1. CASE ~ s.spec
    <3>1. first = <<>> BY <2>1
    <3> HIDE DEF first
    <3>2. NoFinals(first) BY <3>1 DEF NoFinals
    <3>3. \A h \in Guesses : Followed(first, guess, h) => h = guess BY <3>1, FollowedNone
    <3> QED BY <2>1, <3>1, <3>2, <3>3
  <2>2. CASE s.spec
    <3>1. first = <<r>> /\ <<r>> \in Seq(Marks) BY <1>1, <2>2
    <3>2. <<>> \o <<r>> = <<r>> /\ <<>> \in Seq(Marks) BY <3>1, ConcatEmptySeq
    <3> HIDE DEF first
    <3>3. Len(first) = 1 /\ first[1] = r BY <3>1
    <3>4. NoFinals(first) BY <1>1, <3>3 DEF NoFinals
    <3>5. ASSUME NEW h \in Guesses, Followed(first, guess, h) PROVE h = "none"
      <4>0. PICK none \in Seq(Marks) : none = <<>> BY <3>2
      <4>1. Followed(none \o <<r>>, guess, h)
        <5>1. none \o <<r>> = first BY <3>1, <3>2, <4>0
        <5> QED BY <3>5, <5>1
      <4>2. PICK m \in Guesses : Followed(none, guess, m) /\ h = Follow(m, r) BY <1>1, <4>1, FollowedOne
      <4>3. m = "open" BY <2>2, <4>0, <4>2, FollowedNone
      <4> QED BY <1>1, <4>2, <4>3 DEF Follow
    <3> QED BY <3>1, <3>4, <3>5
  <2> QED BY <2>1, <2>2
<1> HIDE DEF first
<1>4. CASE ~ partial
  <2>1. WordEvents(s, partial) = first BY <1>2, <1>3, <1>4, ConcatEmptySeq
  <2> QED BY <1>3, <2>1
<1>5. CASE partial
  <2>1. WordEvents(s, partial) = first \o <<p>> BY <1>2, <1>5
  <2>2. first \o <<p>> \in Seq(Marks) /\ NoFinals(first \o <<p>>) BY <1>1, <1>3, EmitsOneMore
  <2>3. ASSUME NEW h \in Guesses, Followed(first \o <<p>>, guess, h) PROVE h = "none"
    <3>1. PICK m \in Guesses : Followed(first, guess, m) /\ h = Follow(m, p) BY <1>1, <1>3, <2>3, FollowedOne
    <3>2. m = "none" BY <1>3, <3>1
    <3> QED BY <1>1, <3>1, <3>2 DEF Follow
  <2> QED BY <2>1, <2>2, <2>3
<1> QED BY <1>4, <1>5

LEMMA SesInvStep == SesInv /\ [SesNext]_sesVars => SesInv'
<1> SUFFICES ASSUME SesInv, [SesNext]_sesVars PROVE SesInv'
    OBVIOUS
<1>0. /\ ses \in Sess /\ HeardWell(ses, lastEnd) /\ (guess = "open" <=> ses.spec) /\ guess \in {"none", "open"}
  BY DEF SesInv
<1>a. <<>> \in Seq(Marks) /\ NoFinals(<<>>) BY DEF NoFinals
<1>b. \A h \in Guesses : Followed(<<>>, guess, h) => (h = "open" <=> ses.spec) /\ h # "broken"
  BY <1>0, FollowedNone
<1>1. CASE Finalize
  <2>1. PICK f \in Finals(ses) : Emit(f) /\ ses' = Finalized(ses) BY <1>1 DEF Finalize
  <2>2. <<>> \o f = f
    <3>1. \E S : f \in Seq(S)
      <4>1. f = <<>> \/ \E e : f = <<e>> BY DEF Finals
      <4>2. CASE f = <<>>
        <5>1. f \in Seq({}) BY <4>2
        <5> QED BY <5>1
      <4>3. ASSUME NEW e, f = <<e>> PROVE \E S : f \in Seq(S)
        <5>1. f \in Seq({e}) BY <4>3
        <5> QED BY <5>1
      <4> QED BY <4>1, <4>2, <4>3
    <3> QED BY <3>1, ConcatEmptySeq
  <2>3. Emit(<<>> \o f) BY <2>1, <2>2
  <2>4. endpoint' = endpoint BY <1>1 DEF Finalize
  <2> QED BY <1>0, <1>a, <1>b, <2>1, <2>3, <2>4, EndsUtterance
<1>2. ASSUME NEW n \in ChunkSizes, NEW voice \in BOOLEAN, NEW partial \in BOOLEAN, Push(n, voice, partial)
      PROVE  SesInv'
  <2> DEFINE s == Detect([ses EXCEPT !.t = @ + n], n, voice)
  <2>1. /\ ses.t + n <= MaxClock /\ endpoint' = endpoint
        /\ \/ Decide(s, <<>>)
           \/ \E unfinished \in BOOLEAN : Decide(Words(s, unfinished), WordEvents(s, partial))
    BY <1>2 DEF Push
  <2>2. s \in Sess /\ HeardWell(s, lastEnd) /\ s.spec = ses.spec BY <2>1, DetectsWell
  <2> HIDE DEF s
  <2>3. CASE Decide(s, <<>>)
    <3>1. \A h \in Guesses : Followed(<<>>, guess, h) => (h = "open" <=> s.spec) /\ h # "broken" BY <1>b, <2>2
    <3> QED BY <1>a, <2>1, <2>2, <2>3, <3>1, DecidesWell
  <2>4. ASSUME NEW unfinished \in BOOLEAN, Decide(Words(s, unfinished), WordEvents(s, partial)) PROVE SesInv'
    <3> DEFINE w == Words(s, unfinished)
               es == WordEvents(s, partial)
    <3>1. w \in Sess /\ HeardWell(w, lastEnd) /\ w.spec = FALSE BY <2>2, WordsAreKept
    <3>2. es \in Seq(Marks) /\ NoFinals(es) /\ \A h \in Guesses : Followed(es, guess, h) => h = "none"
      BY <1>0, <2>2, WordsAreTold
    <3>3. Decide(w, es) BY <2>4
    <3> HIDE DEF w, es
    <3>4. \A h \in Guesses : Followed(es, guess, h) => (h = "open" <=> w.spec) /\ h # "broken" BY <3>1, <3>2
    <3> QED BY <2>1, <3>1, <3>2, <3>3, <3>4, DecidesWell
  <2> QED BY <2>1, <2>3, <2>4
<1>3. CASE UNCHANGED sesVars
  <2>1. endpoint' = endpoint /\ ses' = ses /\ events' = events /\ guess' = guess /\ lastEnd' = lastEnd
    BY <1>3 DEF sesVars
  <2>2. InTime(ses)'
    <3>1. Threshold(ses)' = Threshold(ses) BY <2>1 DEF Threshold
    <3> QED BY <2>1, <3>1 DEF InTime, SesInv
  <2> QED BY <2>1, <2>2 DEF SesInv
<1> QED BY <1>1, <1>2, <1>3 DEF SesNext

-----------------------------------------------------------------------------
(* The socket of worker-stt: what is missing of a run of speech.  A run    *)
(* loses less than MinSpeech units before a cut and, if it goes on behind  *)
(* it, no more until it has ended; what is left of it then is shorter than *)
(* MinSpeech or will be seen.                                              *)
IsRun(units, from, a, b) ==
  /\ a \in from + 1 .. Len(units) /\ b \in a .. Len(units) /\ \A i \in a .. b : units[i]
  /\ a = from + 1 \/ ~ units[a - 1]
  /\ b = Len(units) \/ ~ units[b + 1]
Covered(fs, i) == \E f \in fs : f[1] <= i /\ i <= f[2]
Lost(fs, cut, a, b) == {i \in a .. Least(b, cut) : ~ Covered(fs, i)}
Settled(units, cut, fs, a, b) ==
  \/ Cardinality(Lost(fs, cut, a, b)) <= MinSpeech - 1
  \/ b < Len(units) /\ Cardinality(Lost(fs, cut, a, b)) + (b - Least(b, cut)) <= 2 * (MinSpeech - 1)
AllSettled(units, cut, fs) == \A a, b \in 1 .. Len(units) : IsRun(units, 0, a, b) => Settled(units, cut, fs, a, b)

LEMMA StreamConstants ==
  /\ CheckEvery \in Nat /\ LeadIn \in Nat /\ PartialEvery \in Nat /\ TailUnits \in Nat /\ FlushMin \in Nat
  /\ MinSpeech \in Nat /\ 0 < MinSpeech /\ MaxUnits \in Nat /\ MinSpeech <= LeadIn /\ Pauses \subseteq Nat
  BY StreamAssumption DEF StreamAssumption

LEMMA LostCounts ==
  ASSUME NEW fs, NEW cut \in Nat, NEW a \in Nat, NEW b \in Nat
  PROVE  IsFiniteSet(Lost(fs, cut, a, b)) /\ Cardinality(Lost(fs, cut, a, b)) \in Nat
<1>1. Least(b, cut) \in Int BY DEF Least
<1>2. IsFiniteSet(a .. Least(b, cut)) BY <1>1, FS_Interval
<1> QED BY <1>2, FS_Subset, FS_CardinalityType DEF Lost

LEMMA NothingLost ==
  ASSUME NEW fs, NEW cut \in Nat, NEW a \in Nat, NEW b \in Nat, cut < a \/ b < a
  PROVE  Cardinality(Lost(fs, cut, a, b)) = 0
<1>1. Lost(fs, cut, a, b) = {} BY DEF Lost, Least
<1> QED BY <1>1, FS_EmptySet

\* a cut that moves on loses what lies between and is not covered
LEMMA LosesBetween ==
  ASSUME NEW fs, NEW gs, NEW cut \in Nat, NEW next \in Nat, cut <= next, NEW a \in Nat, NEW b \in Nat,
         \A i \in Nat : Covered(fs, i) => Covered(gs, i),
         NEW x \in Nat, NEW y \in Nat, x <= y + 1,
         \A i \in a .. b : cut < i /\ i <= next /\ ~ Covered(gs, i) => i \in x .. y
  PROVE  Cardinality(Lost(gs, next, a, b)) <= Cardinality(Lost(fs, cut, a, b)) + (y - x + 1)
<1>1. Lost(gs, next, a, b) \subseteq Lost(fs, cut, a, b) \cup (x .. y)
  <2> SUFFICES ASSUME NEW i \in Lost(gs, next, a, b), i \notin x .. y PROVE i \in Lost(fs, cut, a, b)
      OBVIOUS
  <2>1. i \in a .. b /\ i <= next /\ ~ Covered(gs, i) /\ i \in Nat BY DEF Lost, Least
  <2>2. i <= cut BY <2>1
  <2>3. i \in a .. Least(b, cut) BY <2>1, <2>2 DEF Least
  <2> QED BY <2>1, <2>3 DEF Lost
<1>2. IsFiniteSet(x .. y) /\ Cardinality(x .. y) = y - x + 1 BY FS_Interval
<1>3. /\ IsFiniteSet(Lost(fs, cut, a, b)) /\ Cardinality(Lost(fs, cut, a, b)) \in Nat
      /\ Cardinality(Lost(gs, next, a, b)) \in Nat
  BY LostCounts
<1>4. /\ IsFiniteSet(Lost(fs, cut, a, b) \cup (x .. y))
      /\ Cardinality(Lost(fs, cut, a, b) \cup (x .. y))
           = Cardinality(Lost(fs, cut, a, b)) + Cardinality(x .. y) - Cardinality(Lost(fs, cut, a, b) \cap (x .. y))
  BY <1>2, <1>3, FS_Union
<1>5. Cardinality(Lost(fs, cut, a, b) \cap (x .. y)) \in Nat BY <1>3, FS_Intersection, FS_CardinalityType
<1>6. Cardinality(Lost(gs, next, a, b)) <= Cardinality(Lost(fs, cut, a, b) \cup (x .. y)) BY <1>1, <1>4, FS_Subset
<1>7. Cardinality(Lost(fs, cut, a, b) \cup (x .. y)) \in Nat BY <1>4, FS_CardinalityType
<1> QED BY <1>2, <1>3, <1>4, <1>5, <1>6, <1>7

LEMMA LosesNothing ==
  ASSUME NEW fs, NEW gs, NEW cut \in Nat, NEW next \in Nat, cut <= next, NEW a \in Nat, NEW b \in Nat,
         \A i \in Nat : Covered(fs, i) => Covered(gs, i),
         \A i \in a .. b : cut < i /\ i <= next => Covered(gs, i)
  PROVE  Cardinality(Lost(gs, next, a, b)) <= Cardinality(Lost(fs, cut, a, b))
<1> SUFFICES ASSUME NEW x \in Nat, NEW y \in Nat, x = 1, y = 0
             PROVE  Cardinality(Lost(gs, next, a, b)) <= Cardinality(Lost(fs, cut, a, b))
    OBVIOUS
<1>1. Cardinality(Lost(gs, next, a, b)) <= Cardinality(Lost(fs, cut, a, b)) + (y - x + 1)
  <2>1. x <= y + 1 OBVIOUS
  <2>2. \A i \in a .. b : cut < i /\ i <= next /\ ~ Covered(gs, i) => i \in x .. y OBVIOUS
  <2> QED BY <2>1, <2>2, LosesBetween
<1>2. Cardinality(Lost(fs, cut, a, b)) \in Nat BY LostCounts
<1>3. y - x + 1 = 0 OBVIOUS
<1> QED BY <1>1, <1>2, <1>3

\* more is heard: a run that had ended is as it was, one that goes on was open
LEMMA HearingSettles ==
  ASSUME NEW units \in Seq(BOOLEAN), NEW more \in Seq(BOOLEAN), NEW cut \in 0 .. Len(units), NEW fs,
         AllSettled(units, cut, fs)
  PROVE  AllSettled(units \o more, cut, fs)
<1> DEFINE now2 == units \o more
<1>1. /\ now2 \in Seq(BOOLEAN) /\ Len(now2) = Len(units) + Len(more) /\ Len(units) \in Nat /\ Len(more) \in Nat
      /\ \A i \in 1 .. Len(units) : now2[i] = units[i]
  BY ConcatProperties, LenProperties
<1> HIDE DEF now2
<1> SUFFICES ASSUME NEW a \in 1 .. Len(now2), NEW b \in 1 .. Len(now2), IsRun(now2, 0, a, b)
             PROVE  Settled(now2, cut, fs, a, b)
    BY DEF AllSettled, now2
<1>2. a \in Nat /\ b \in Nat /\ a <= b /\ 1 <= a /\ b <= Len(now2) /\ cut \in Nat /\ cut <= Len(units) BY <1>1 DEF IsRun
<1>3. CASE a > Len(units)
  <2>1. Cardinality(Lost(fs, cut, a, b)) = 0 BY <1>1, <1>2, <1>3, NothingLost
  <2> QED BY <2>1, StreamConstants DEF Settled
<1>4. CASE a <= Len(units) /\ b < Len(units)
  <2>1. IsRun(units, 0, a, b)
    <3>1. a \in 1 .. Len(units) /\ b \in a .. Len(units) BY <1>1, <1>2, <1>4
    <3>2. \A i \in a .. b : units[i] BY <1>1, <1>2, <1>4 DEF IsRun
    <3>3. a = 1 \/ ~ units[a - 1] BY <1>1, <1>2, <1>4 DEF IsRun
    <3>4. ~ units[b + 1] BY <1>1, <1>2, <1>4 DEF IsRun
    <3> QED BY <3>1, <3>2, <3>3, <3>4 DEF IsRun
  <2>2. Settled(units, cut, fs, a, b) BY <1>1, <1>2, <1>4, <2>1 DEF AllSettled
  <2>3. b < Len(now2) BY <1>1, <1>2, <1>4
  <2> QED BY <2>2, <2>3 DEF Settled
<1>5. CASE a <= Len(units) /\ Len(units) <= b
  <2>1. IsRun(units, 0, a, Len(units))
    <3>1. a \in 1 .. Len(units) /\ Len(units) \in a .. Len(units) BY <1>1, <1>2, <1>5
    <3>2. \A i \in a .. Len(units) : units[i] BY <1>1, <1>2, <1>5 DEF IsRun
    <3>3. a = 1 \/ ~ units[a - 1] BY <1>1, <1>2, <1>5 DEF IsRun
    <3> QED BY <3>1, <3>2, <3>3 DEF IsRun
  <2>2. Settled(units, cut, fs, a, Len(units)) BY <1>1, <1>2, <1>5, <2>1 DEF AllSettled
  <2>3. Cardinality(Lost(fs, cut, a, Len(units))) <= MinSpeech - 1 BY <1>1, <2>2 DEF Settled
  <2>4. Least(b, cut) = cut /\ Least(Len(units), cut) = cut BY <1>1, <1>2, <1>5 DEF Least
  <2>5. Lost(fs, cut, a, b) = Lost(fs, cut, a, Len(units)) BY <2>4 DEF Lost
  <2> QED BY <2>3, <2>5 DEF Settled
<1> QED BY <1>1, <1>2, <1>3, <1>4, <1>5

\* what of a run is left behind the cut is a run of buf, and seen if it is long enough
LEMMA RestIsRun ==
  ASSUME NEW units \in Seq(BOOLEAN), NEW cut \in 0 .. Len(units), NEW a \in Nat, NEW b \in Nat,
         IsRun(units, 0, a, b), cut < b, NEW first \in Nat, first = IF a > cut THEN a ELSE cut + 1
  PROVE  /\ first \in cut + 1 .. Len(units) /\ b \in cut + 1 .. Len(units) /\ first <= b
         /\ b - first + 1 >= MinSpeech => <<first, b>> \in RunsOf(units, cut)
<1>0. Len(units) \in Nat BY LenProperties
<1>1. /\ first \in cut + 1 .. Len(units) /\ b \in cut + 1 .. Len(units) /\ first <= b BY <1>0 DEF IsRun
<1>2. \A i \in first .. b : units[i] BY <1>0 DEF IsRun
<1>3. first = cut + 1 \/ ~ units[first - 1] BY <1>0 DEF IsRun
<1>4. b = Len(units) \/ ~ units[b + 1] BY DEF IsRun
<1> DEFINE r == <<first, b>>
<1>5. r \in (cut + 1 .. Len(units)) \X (cut + 1 .. Len(units)) /\ r[1] = first /\ r[2] = b BY <1>1
<1> HIDE DEF r
<1>6. b - first + 1 >= MinSpeech => r \in RunsOf(units, cut) BY <1>2, <1>3, <1>4, <1>5 DEF RunsOf
<1> QED BY <1>1, <1>6 DEF r

\* silence is dropped but for LeadIn
LEMMA DroppingSettles ==
  ASSUME NEW units \in Seq(BOOLEAN), NEW cut \in 0 .. Len(units), NEW fs, AllSettled(units, cut, fs),
         RunsOf(units, cut) = {}, LeadIn < Len(units) - cut
  PROVE  AllSettled(units, Len(units) - LeadIn, fs)
<1> DEFINE next == Len(units) - LeadIn
<1>0. Len(units) \in Nat /\ next \in Nat /\ cut \in Nat /\ cut < next /\ next <= Len(units) BY LenProperties, StreamConstants
<1> SUFFICES ASSUME NEW a \in 1 .. Len(units), NEW b \in 1 .. Len(units), IsRun(units, 0, a, b)
             PROVE  Settled(units, next, fs, a, b)
    BY DEF AllSettled
<1>1. a \in Nat /\ b \in Nat /\ a <= b /\ 1 <= a /\ b <= Len(units) BY <1>0 DEF IsRun
<1>2. Settled(units, cut, fs, a, b) BY DEF AllSettled
<1>3. CASE b <= cut
  <2>1. Least(b, cut) = b /\ Least(b, next) = b
    <3>1. next = Len(units) - LeadIn OBVIOUS
    <3> HIDE DEF next
    <3> QED BY <1>0, <1>1, <1>3 DEF Least
  <2>2. Lost(fs, next, a, b) = Lost(fs, cut, a, b) BY <2>1 DEF Lost
  <2> HIDE DEF next
  <2> QED BY <1>2, <2>1, <2>2 DEF Settled
<1>4. CASE cut < b
  <2> DEFINE first == IF a > cut THEN a ELSE cut + 1
             last == Least(b, next)
  <2>1. first \in Nat BY <1>0, <1>1
  <2>2. b - first + 1 <= MinSpeech - 1 /\ first <= b
    <3>1. <<first, b>> \notin RunsOf(units, cut) OBVIOUS
    <3>2. b - first + 1 >= MinSpeech => <<first, b>> \in RunsOf(units, cut) BY <1>1, <1>4, <2>1, RestIsRun
    <3>3. first <= b BY <1>0, <1>1, <1>4
    <3> HIDE DEF first
    <3> QED BY <1>1, <2>1, <3>1, <3>2, <3>3, StreamConstants
  <2>3. next = Len(units) - LeadIn OBVIOUS
  <2> HIDE DEF next
  <2>4. CASE first > next
    <3>1. a > next BY <1>0, <1>1, <2>4
    <3>2. Cardinality(Lost(fs, next, a, b)) = 0 BY <1>0, <1>1, <3>1, NothingLost
    <3> QED BY <3>2, StreamConstants DEF Settled
  <2>5. CASE first <= next
    <3>1. b < Len(units) BY <1>0, <1>1, <2>1, <2>2, <2>3, <2>5, StreamConstants
    <3>2. last \in Nat /\ first <= last + 1 /\ last <= b /\ last <= next BY <1>0, <1>1, <2>1, <2>2, <2>5 DEF Least
    <3>3. \A i \in a .. b : cut < i /\ i <= next /\ ~ Covered(fs, i) => i \in first .. last
      BY <1>0, <1>1, <3>2 DEF Least
    <3> HIDE DEF last
    <3>4. Cardinality(Lost(fs, next, a, b)) <= Cardinality(Lost(fs, cut, a, b)) + (last - first + 1)
      <4> HIDE DEF first
      <4> QED BY <1>0, <1>1, <2>1, <3>2, <3>3, LosesBetween
    <3>5. Cardinality(Lost(fs, next, a, b)) \in Nat /\ Cardinality(Lost(fs, cut, a, b)) \in Nat
      BY <1>0, <1>1, LostCounts
    <3>6. CASE Cardinality(Lost(fs, cut, a, b)) <= MinSpeech - 1
      <4> HIDE DEF first
      <4>1. Cardinality(Lost(fs, next, a, b)) + (b - last) <= 2 * (MinSpeech - 1)
        BY <1>1, <2>1, <2>2, <3>2, <3>4, <3>5, <3>6, StreamConstants
      <4> QED BY <3>1, <4>1 DEF Settled, last
    <3>7. CASE Cardinality(Lost(fs, cut, a, b)) + (b - Least(b, cut)) <= 2 * (MinSpeech - 1)
      <4>1. CASE a > cut
        <5>1. Cardinality(Lost(fs, cut, a, b)) = 0 BY <1>0, <1>1, <4>1, NothingLost
        <5> QED BY <3>6, <5>1, StreamConstants
      <4>2. CASE a <= cut
        <5>1. Least(b, cut) = cut /\ first = cut + 1 BY <1>0, <1>1, <1>4, <4>2 DEF Least
        <5> HIDE DEF first
        <5>2. Cardinality(Lost(fs, next, a, b)) + (b - last) <= 2 * (MinSpeech - 1)
          BY <1>0, <1>1, <3>2, <3>4, <3>5, <3>7, <5>1, StreamConstants
        <5> QED BY <3>1, <5>2 DEF Settled, last
      <4> QED BY <1>0, <1>1, <4>1, <4>2
    <3> QED BY <1>2, <3>6, <3>7 DEF Settled
  <2> QED BY <1>0, <2>1, <2>4, <2>5
<1> QED BY <1>0, <1>1, <1>3, <1>4

\* an utterance ends: what the detector saw of it is transcribed
LEMMA EndingSettles ==
  ASSUME NEW units \in Seq(BOOLEAN), NEW cut \in 0 .. Len(units), NEW fs, AllSettled(units, cut, fs),
         NEW end \in LastEnds(RunsOf(units, cut))
  PROVE  AllSettled(units, Len(units), fs \cup {<<cut + 1, Least(end + TailUnits, Len(units))>>})
<1> DEFINE next == Len(units)
           last == Least(end + TailUnits, next)
           gs == fs \cup {<<cut + 1, last>>}
<1>0. next \in Nat /\ cut \in Nat /\ cut <= next BY LenProperties
<1>1. PICK r \in RunsOf(units, cut) : r[2] = end /\ \A s \in RunsOf(units, cut) : s[2] <= end BY DEF LastEnds
<1>2. r[1] \in cut + 1 .. next /\ end \in cut + 1 .. next /\ end - r[1] + 1 >= MinSpeech BY <1>1 DEF RunsOf
<1>3. last \in Nat /\ end <= last /\ last <= next BY <1>0, <1>2, StreamConstants DEF Least
<1>4. \A i \in Nat : Covered(fs, i) => Covered(gs, i) BY DEF Covered
<1>5. \A i \in Nat : cut < i /\ i <= last => Covered(gs, i)
  <2> HIDE DEF last
  <2> SUFFICES ASSUME NEW i \in Nat, cut < i, i <= last PROVE Covered(gs, i) OBVIOUS
  <2> DEFINE f == <<cut + 1, last>>
  <2>1. f \in gs /\ f[1] = cut + 1 /\ f[2] = last OBVIOUS
  <2>2. f[1] <= i /\ i <= f[2] BY <1>0, <2>1
  <2> HIDE DEF f, gs
  <2> QED BY <2>1, <2>2 DEF Covered
<1>6. next = Len(units) OBVIOUS
<1> HIDE DEF gs, last, next
<1> SUFFICES ASSUME NEW a \in 1 .. Len(units), NEW b \in 1 .. Len(units), IsRun(units, 0, a, b)
             PROVE  Settled(units, next, gs, a, b)
    BY DEF AllSettled, gs, last, next
<1>7. a \in Nat /\ b \in Nat /\ a <= b /\ 1 <= a /\ b <= next BY <1>0, <1>6 DEF IsRun
<1>8. Settled(units, cut, fs, a, b) BY DEF AllSettled
<1>9. Least(b, next) = b BY <1>0, <1>7 DEF Least
<1>10. Cardinality(Lost(gs, next, a, b)) \in Nat /\ Cardinality(Lost(fs, cut, a, b)) \in Nat
  BY <1>0, <1>7, LostCounts
<1>11. Least(b, cut) \in Nat /\ Least(b, cut) <= b BY <1>0, <1>7 DEF Least
\* nothing more is lost: the run is as settled as it was
<1>12. ASSUME Cardinality(Lost(gs, next, a, b)) <= Cardinality(Lost(fs, cut, a, b))
       PROVE  Settled(units, next, gs, a, b)
  <2>1. CASE Cardinality(Lost(fs, cut, a, b)) <= MinSpeech - 1
    <3>1. Cardinality(Lost(gs, next, a, b)) <= MinSpeech - 1 BY <1>10, <1>12, <2>1, StreamConstants
    <3> QED BY <3>1 DEF Settled
  <2>2. CASE b < Len(units) /\ Cardinality(Lost(fs, cut, a, b)) + (b - Least(b, cut)) <= 2 * (MinSpeech - 1)
    <3>1. Cardinality(Lost(gs, next, a, b)) + (b - Least(b, next)) <= 2 * (MinSpeech - 1)
      BY <1>7, <1>9, <1>10, <1>11, <1>12, <2>2, StreamConstants
    <3> QED BY <2>2, <3>1 DEF Settled
  <2> QED BY <1>8, <2>1, <2>2 DEF Settled
<1>13. CASE b <= cut
  <2>1. \A i \in a .. b : cut < i /\ i <= next => Covered(gs, i) BY <1>0, <1>7, <1>13
  <2>2. Cardinality(Lost(gs, next, a, b)) <= Cardinality(Lost(fs, cut, a, b))
    BY <1>0, <1>4, <1>7, <2>1, LosesNothing
  <2> QED BY <1>12, <2>2
<1>14. CASE cut < b
  <2> DEFINE first == IF a > cut THEN a ELSE cut + 1
  <2>1. first \in Nat /\ first <= b /\ cut < first BY <1>0, <1>7, <1>14
  <2>2. b - first + 1 >= MinSpeech => <<first, b>> \in RunsOf(units, cut) BY <1>7, <1>14, <2>1, RestIsRun
  <2>3. CASE b - first + 1 >= MinSpeech
    <3>1. b <= end
      <4> DEFINE s == <<first, b>>
      <4>1. s \in RunsOf(units, cut) /\ s[2] = b BY <2>2, <2>3
      <4> HIDE DEF s
      <4> QED BY <1>1, <4>1
    <3>2. b <= last BY <1>2, <1>3, <1>7, <3>1
    <3>3. \A i \in a .. b : cut < i /\ i <= next => Covered(gs, i)
      <4> SUFFICES ASSUME NEW i \in a .. b, cut < i, i <= next PROVE Covered(gs, i) OBVIOUS
      <4> QED BY <1>3, <1>5, <1>7, <3>2
    <3>4. Cardinality(Lost(gs, next, a, b)) <= Cardinality(Lost(fs, cut, a, b))
      BY <1>0, <1>4, <1>7, <3>3, LosesNothing
    <3> QED BY <1>12, <3>4
  <2>4. CASE b - first + 1 < MinSpeech
    <3>1. \A i \in a .. b : cut < i /\ i <= next /\ ~ Covered(gs, i) => i \in first .. b BY <1>0, <1>7
    <3>2. first <= b + 1 BY <1>7, <2>1
    <3>3. Cardinality(Lost(gs, next, a, b)) <= Cardinality(Lost(fs, cut, a, b)) + (b - first + 1)
      <4> HIDE DEF first
      <4> QED BY <1>0, <1>4, <1>7, <2>1, <3>1, <3>2, LosesBetween
    <3>4. CASE a > cut
      <4>1. Cardinality(Lost(fs, cut, a, b)) = 0 BY <1>0, <1>7, <3>4, NothingLost
      <4> HIDE DEF first
      <4>2. Cardinality(Lost(gs, next, a, b)) <= MinSpeech - 1
        BY <1>7, <1>10, <2>1, <2>4, <3>3, <4>1, StreamConstants
      <4> QED BY <4>2 DEF Settled
    <3>5. CASE a <= cut
      <4>1. first = cut + 1 /\ Least(b, cut) = cut BY <1>0, <1>7, <1>14, <3>5 DEF Least
      <4> HIDE DEF first
      <4>2. b < Len(units)
        <5> SUFFICES ASSUME b = next PROVE FALSE BY <1>0, <1>6, <1>7
        <5> QED BY <1>0, <1>2, <1>7, <2>4, <4>1, StreamConstants
      <4>3. Cardinality(Lost(fs, cut, a, b)) + (b - cut) <= 2 * (MinSpeech - 1)
        <5>1. b - cut <= MinSpeech - 1 BY <1>0, <1>7, <2>4, <4>1, StreamConstants
        <5>2. CASE Cardinality(Lost(fs, cut, a, b)) <= MinSpeech - 1
          BY <1>0, <1>7, <1>10, <5>1, <5>2, StreamConstants
        <5>3. CASE Cardinality(Lost(fs, cut, a, b)) + (b - Least(b, cut)) <= 2 * (MinSpeech - 1)
          BY <4>1, <5>3
        <5> QED BY <1>8, <5>2, <5>3 DEF Settled
      <4>4. Cardinality(Lost(gs, next, a, b)) <= Cardinality(Lost(fs, cut, a, b)) + (b - cut)
        BY <1>0, <1>7, <1>10, <3>3, <4>1
      <4>5. Cardinality(Lost(gs, next, a, b)) + (b - Least(b, next)) <= 2 * (MinSpeech - 1)
        BY <1>0, <1>7, <1>9, <1>10, <4>3, <4>4, StreamConstants
      <4> QED BY <4>2, <4>5 DEF Settled
    <3> QED BY <1>0, <1>7, <3>4, <3>5
  <2> QED BY <1>7, <2>1, <2>3, <2>4, StreamConstants
<1> QED BY <1>0, <1>7, <1>13, <1>14

Stretch == Nat \X Nat
Apart(fs) == \A f, g \in fs : f # g => f[2] < g[1] \/ g[2] < f[1]
WordInv ==
  /\ StreamTypeOK /\ AllSettled(heard, start, finals)
  /\ finals \subseteq Stretch /\ Apart(finals)
  /\ \A f \in finals : streaming = "open" => f[2] <= start

\* one final more, of what is behind the cut
LEMMA ApartStays ==
  ASSUME NEW fs, fs \subseteq Stretch, Apart(fs), NEW cut \in Nat, \A f \in fs : f[2] <= cut, NEW m \in Nat
  PROVE  /\ fs \cup {<<cut + 1, m>>} \subseteq Stretch /\ Apart(fs \cup {<<cut + 1, m>>})
         /\ \A f \in fs \cup {<<cut + 1, m>>} : f \in fs \/ f[2] = m
<1> DEFINE n == <<cut + 1, m>>
<1>1. n \in Stretch /\ n[1] = cut + 1 /\ n[2] = m BY DEF Stretch
<1> HIDE DEF n
<1>2. \A f \in fs : f[2] < n[1] /\ f[2] \in Nat
  <2> TAKE f \in fs
  <2>1. f \in Stretch /\ f[2] <= cut OBVIOUS
  <2>2. f[2] \in Nat BY <2>1 DEF Stretch
  <2> QED BY <1>1, <2>1, <2>2
<1>3. Apart(fs \cup {n})
  <2> SUFFICES ASSUME NEW f \in fs \cup {n}, NEW g \in fs \cup {n}, f # g PROVE f[2] < g[1] \/ g[2] < f[1]
      BY DEF Apart
  <2>1. CASE f \in fs /\ g \in fs BY <2>1 DEF Apart
  <2>2. CASE f = n /\ g \in fs BY <1>2, <2>2
  <2>3. CASE f \in fs /\ g = n BY <1>2, <2>3
  <2> QED BY <2>1, <2>2, <2>3
<1> QED BY <1>1, <1>3 DEF n

LEMMA WordInvInit == StreamInit => WordInv
<1> SUFFICES ASSUME StreamInit PROVE WordInv OBVIOUS
<1>1. heard = <<>> /\ Len(heard) = 0 /\ heard \in Seq(BOOLEAN) /\ start = 0 BY DEF StreamInit
<1>2. StreamTypeOK BY <1>1 DEF StreamInit, StreamTypeOK
<1>3. AllSettled(heard, start, finals) BY <1>1 DEF AllSettled
<1>4. finals = {} BY DEF StreamInit
<1>5. finals \subseteq Stretch /\ Apart(finals) /\ \A f \in finals : streaming = "open" => f[2] <= start
  BY <1>4 DEF Apart
<1> QED BY <1>2, <1>3, <1>5 DEF WordInv

LEMMA WordInvImplies == WordInv => StreamTypeOK /\ WordsHeard
<1> SUFFICES ASSUME WordInv PROVE WordsHeard BY DEF WordInv
<1>1. heard \in Seq(BOOLEAN) /\ Len(heard) \in Nat /\ start \in Nat BY LenProperties DEF WordInv, StreamTypeOK
<1>2. ASSUME NEW w \in RunsOf(heard, 0)
      PROVE  LET gone == w[1] .. Least(w[2], start)
             IN Cardinality({i \in gone : ~ \E f \in finals : f[1] <= i /\ i <= f[2]}) <= 2 * (MinSpeech - 1)
  <2> DEFINE a == w[1]
             b == w[2]
  <2>1. a \in 1 .. Len(heard) /\ b \in 1 .. Len(heard) /\ b - a + 1 >= MinSpeech BY <1>1 DEF RunsOf
  <2>2. /\ \A i \in a .. b : heard[i]
        /\ a = 0 + 1 \/ ~ heard[a - 1]
        /\ b = Len(heard) \/ ~ heard[b + 1]
    BY DEF RunsOf
  <2> HIDE DEF a, b
  <2>3. a \in Nat /\ b \in Nat /\ a <= b BY <1>1, <2>1, StreamConstants
  <2>4. IsRun(heard, 0, a, b) BY <1>1, <2>1, <2>2, <2>3 DEF IsRun
  <2>5. Settled(heard, start, finals, a, b) BY <2>1, <2>4 DEF WordInv, AllSettled
  <2>6. Least(b, start) \in Nat /\ Least(b, start) <= b BY <1>1, <2>3 DEF Least
  <2>7. Cardinality(Lost(finals, start, a, b)) \in Nat BY <1>1, <2>3, LostCounts
  <2>8. Cardinality(Lost(finals, start, a, b)) <= 2 * (MinSpeech - 1)
    BY <2>3, <2>5, <2>6, <2>7, StreamConstants DEF Settled
  <2> QED BY <2>8 DEF a, b, Lost, Covered
<1>3. \A f, g \in finals : f # g => f[2] < g[1] \/ g[2] < f[1] BY DEF WordInv, Apart
<1> QED BY <1>2, <1>3 DEF WordsHeard

\* what is heard: the handler's look at buf
LEMMA HearingKeeps ==
  ASSUME WordInv, NEW n \in 1 .. CheckEvery, NEW units \in [1 .. n -> BOOLEAN], HearUnits(units)
  PROVE  WordInv'
<1> DEFINE all == heard \o units
<1>0. n \in Nat BY StreamConstants
<1>1. units \in Seq(BOOLEAN) BY <1>0, SeqDef
<1>2. heard \in Seq(BOOLEAN) /\ start \in 0 .. Len(heard) /\ Len(heard) \in Nat BY LenProperties DEF WordInv, StreamTypeOK
<1>3. /\ all \in Seq(BOOLEAN) /\ Len(all) = Len(heard) + Len(units) /\ Len(units) \in Nat /\ Len(all) \in Nat
      /\ start \in 0 .. Len(all) /\ start \in Nat
  BY <1>1, <1>2, ConcatProperties, LenProperties
<1>4. AllSettled(all, start, finals) BY <1>1, <1>2, HearingSettles DEF WordInv
<1>5. /\ heard' = all /\ streaming = "open" /\ streaming' = "open" /\ pause' = pause /\ charged' = charged
  BY DEF HearUnits
<1>6. pause \in Pauses /\ Len(charged) <= 1 /\ checked \in 0 .. Len(heard) - start /\ partialAt \in 0 .. Len(heard) - start
  BY DEF WordInv, StreamTypeOK
<1>7. finals \subseteq Stretch /\ Apart(finals) /\ \A f \in finals : f[2] <= start BY <1>5 DEF WordInv
<1>8. /\ CheckEvery \in Nat /\ LeadIn \in Nat BY StreamConstants
<1> DEFINE rest == Len(all) - start
<1>9. \/ UNCHANGED <<start, checked, partialAt, finals>>
      \/ RunsOf(all, start) = {} /\ Quiet(all)
      \/ \E end \in LastEnds(RunsOf(all, start)) : EndUtterance(all, end)
      \/ SayPartial(all)
  BY DEF HearUnits
<1> HIDE DEF all
<1>10. ASSUME start' \in 0 .. Len(all), checked' \in 0 .. Len(all) - start', partialAt' \in 0 .. Len(all) - start'
       PROVE  StreamTypeOK'
  BY <1>3, <1>5, <1>6, <1>10 DEF StreamTypeOK
<1>11. CASE start' = start /\ finals' = finals /\ checked' \in 0 .. Len(all) - start /\ partialAt' \in 0 .. Len(all) - start
  <2>1. StreamTypeOK' BY <1>3, <1>10, <1>11
  <2> QED BY <1>4, <1>5, <1>7, <1>11, <2>1 DEF WordInv
<1>12. CASE UNCHANGED <<start, checked, partialAt, finals>>
  <2>1. checked \in 0 .. Len(all) - start /\ partialAt \in 0 .. Len(all) - start BY <1>2, <1>3, <1>6
  <2> QED BY <1>11, <1>12, <2>1
<1>13. CASE SayPartial(all)
  <2>1. Len(all) - start \in 0 .. Len(all) - start /\ partialAt \in 0 .. Len(all) - start BY <1>2, <1>3, <1>6
  <2>2. start' = start /\ finals' = finals /\ checked' = Len(all) - start
        /\ (partialAt' = Len(all) - start \/ partialAt' = partialAt)
    BY <1>13 DEF SayPartial
  <2> QED BY <1>11, <2>1, <2>2
<1>14. CASE RunsOf(all, start) = {} /\ Quiet(all)
  <2>1. finals' = finals BY <1>14 DEF Quiet
  <2>2. CASE Len(all) - start > LeadIn
    <3>1. start' = Len(all) - LeadIn /\ checked' = LeadIn /\ partialAt' = 0 BY <1>14, <2>2 DEF Quiet
    <3>2. AllSettled(all, Len(all) - LeadIn, finals)
      BY <1>3, <1>4, <1>14, <2>2, DroppingSettles, <1>8
    <3>3. start' \in 0 .. Len(all) /\ Len(all) - start' = LeadIn /\ start < start' /\ start' \in Nat
      BY <1>3, <1>8, <2>2, <3>1
    <3>4. StreamTypeOK' BY <1>8, <1>10, <3>1, <3>3
    <3>5. \A f \in finals : f[2] <= start'
      <4> SUFFICES ASSUME NEW f \in finals PROVE f[2] <= start' OBVIOUS
      <4>1. f[2] \in Nat /\ f[2] <= start BY <1>7 DEF Stretch
      <4> QED BY <1>3, <3>3, <4>1
    <3> QED BY <1>5, <1>7, <2>1, <3>1, <3>2, <3>4, <3>5 DEF WordInv
  <2>3. CASE ~ (Len(all) - start > LeadIn)
    <3>1. start' = start /\ checked' = Len(all) - start /\ partialAt' = partialAt BY <1>14, <2>3 DEF Quiet
    <3>2. Len(all) - start \in 0 .. Len(all) - start /\ partialAt \in 0 .. Len(all) - start BY <1>2, <1>3, <1>6
    <3> QED BY <1>11, <2>1, <3>1, <3>2
  <2> QED BY <2>2, <2>3
<1>15. CASE \E end \in LastEnds(RunsOf(all, start)) : EndUtterance(all, end)
  <2>1. PICK end \in LastEnds(RunsOf(all, start)) : EndUtterance(all, end) BY <1>15
  <2> DEFINE last == Least(end + TailUnits, Len(all))
  <2>2. finals' = finals \cup {<<start + 1, last>>} /\ start' = Len(all) /\ checked' = 0 /\ partialAt' = 0
    BY <2>1 DEF EndUtterance
  <2>3. AllSettled(all, Len(all), finals') BY <1>3, <1>4, <2>2, EndingSettles
  <2>4. last \in Nat /\ last <= Len(all)
    <3>1. end \in Nat BY <1>3 DEF LastEnds, RunsOf
    <3> QED BY <1>3, <3>1, StreamConstants DEF Least
  <2> HIDE DEF last
  <2>5. /\ finals' \subseteq Stretch /\ Apart(finals')
        /\ \A f \in finals' : f \in finals \/ f[2] = last
    <3>0. PICK m \in Nat : m = last BY <2>4
    <3> DEFINE gs == finals \cup {<<start + 1, m>>}
    <3>1. gs \subseteq Stretch /\ Apart(gs) /\ \A f \in gs : f \in finals \/ f[2] = m
      BY <1>3, <1>7, <3>0, ApartStays
    <3> QED BY <2>2, <3>0, <3>1
  <2>6. \A f \in finals' : f[2] <= start'
    <3> SUFFICES ASSUME NEW f \in finals' PROVE f[2] <= start' OBVIOUS
    <3>1. f \in finals => f[2] \in Nat /\ f[2] <= start BY <1>7 DEF Stretch
    <3> QED BY <1>3, <2>2, <2>4, <2>5, <3>1
  <2>7. StreamTypeOK' BY <1>3, <1>10, <2>2
  <2> QED BY <1>5, <2>2, <2>3, <2>5, <2>6, <2>7 DEF WordInv
<1> QED BY <1>9, <1>12, <1>13, <1>14, <1>15

LEMMA WordInvStep == WordInv /\ ChargeInv /\ [StreamNext]_streamVars => WordInv'
<1> SUFFICES ASSUME WordInv, ChargeInv, [StreamNext]_streamVars PROVE WordInv' OBVIOUS
<1>0. heard \in Seq(BOOLEAN) /\ start \in 0 .. Len(heard) /\ Len(heard) \in Nat /\ start \in Nat
  BY LenProperties DEF WordInv, StreamTypeOK
<1>1. CASE UNCHANGED streamVars BY <1>1 DEF streamVars, WordInv, StreamTypeOK
<1>2. CASE Configure BY <1>2 DEF Configure, WordInv, StreamTypeOK
<1>3. CASE EndSocket
  <2>1. heard' = heard /\ start' = start /\ streaming = "open" /\ streaming' = "ended" BY <1>3 DEF EndSocket
  <2>2. StreamTypeOK' BY <1>3 DEF EndSocket, WordInv, StreamTypeOK
  <2>3. CASE finals' = finals BY <2>1, <2>2, <2>3 DEF WordInv
  <2>4. CASE finals' = finals \cup {<<start + 1, Len(heard)>>}
    <3>1. finals' \subseteq Stretch /\ Apart(finals')
      <4>0. PICK m \in Nat : m = Len(heard) BY <1>0
      <4> DEFINE gs == finals \cup {<<start + 1, m>>}
      <4>1. finals \subseteq Stretch /\ Apart(finals) /\ \A f \in finals : f[2] <= start BY <2>1 DEF WordInv
      <4>2. gs \subseteq Stretch /\ Apart(gs) BY <1>0, <4>1, ApartStays
      <4> QED BY <2>4, <4>0, <4>2
    <3>2. \A i \in Nat : Covered(finals, i) => Covered(finals', i) BY <2>4 DEF Covered
    <3>3. AllSettled(heard, start, finals')
      <4> SUFFICES ASSUME NEW a \in 1 .. Len(heard), NEW b \in 1 .. Len(heard), IsRun(heard, 0, a, b)
                   PROVE  Settled(heard, start, finals', a, b)
          BY DEF AllSettled
      <4>1. a \in Nat /\ b \in Nat /\ b <= Len(heard) BY <1>0
      <4>2. Settled(heard, start, finals, a, b) BY DEF WordInv, AllSettled
      <4>3. Cardinality(Lost(finals', start, a, b)) <= Cardinality(Lost(finals, start, a, b))
        <5>1. \A i \in a .. b : start < i /\ i <= start => Covered(finals', i) BY <1>0, <4>1
        <5>2. start <= start BY <1>0
        <5> QED BY <1>0, <3>2, <4>1, <5>1, <5>2, LosesNothing
      <4>4. Cardinality(Lost(finals', start, a, b)) \in Nat /\ Cardinality(Lost(finals, start, a, b)) \in Nat
        BY <1>0, <4>1, LostCounts
      <4>5. Least(b, start) \in Nat /\ Least(b, start) <= b BY <1>0, <4>1 DEF Least
      <4> QED BY <4>1, <4>2, <4>3, <4>4, <4>5, StreamConstants DEF Settled
    <3> QED BY <2>1, <2>2, <3>1, <3>3 DEF WordInv
  <2> QED BY <1>3, <2>3, <2>4 DEF EndSocket
<1>4. CASE CloseSocket
  <2>1. /\ UNCHANGED <<heard, start, pause, checked, partialAt, finals>> /\ streaming' = "over"
        /\ streaming # "over" /\ charged' = Append(charged, Len(heard))
    BY <1>4 DEF CloseSocket
  <2>2. charged = <<>> BY <2>1 DEF ChargeInv
  <2>3. Len(charged') <= 1 BY <2>1, <2>2
  <2> QED BY <2>1, <2>3 DEF WordInv, StreamTypeOK
<1>5. CASE \E n \in 1 .. CheckEvery : \E units \in [1 .. n -> BOOLEAN] : HearUnits(units)
  BY <1>5, HearingKeeps
<1> QED BY <1>1, <1>2, <1>3, <1>4, <1>5 DEF StreamNext

-----------------------------------------------------------------------------
(* The composition: whatever service a behaviour is of, every component    *)
(* starts as it does and takes its own steps or none.                      *)
LEMMA EachStarts == Init => /\ TtsInit /\ SttInit /\ SesInit /\ BatchInit /\ StreamInit /\ SdkInit
                            /\ PoolInit /\ RunpodInit /\ GatewayInit /\ GuardInit
  BY DEF Init

LEMMA EachSteps ==
  [Next]_vars => /\ [TtsNext]_ttsVars /\ [SttNext]_sttVars /\ [SesNext]_sesVars /\ [BatchNext]_batchVars
                 /\ [StreamNext]_streamVars /\ [SdkNext]_sdkVars /\ [PoolNext]_poolVars
                 /\ [RunpodNext]_runpodVars /\ [EncNext \/ PayNext]_gatewayVars /\ [GuardNext]_guardVars
<1> SUFFICES ASSUME [Next]_vars
             PROVE  /\ [TtsNext]_ttsVars /\ [SttNext]_sttVars /\ [SesNext]_sesVars /\ [BatchNext]_batchVars
                    /\ [StreamNext]_streamVars /\ [SdkNext]_sdkVars /\ [PoolNext]_poolVars
                    /\ [RunpodNext]_runpodVars /\ [EncNext \/ PayNext]_gatewayVars /\ [GuardNext]_guardVars
    OBVIOUS
<1>1. CASE Tts BY <1>1 DEF Tts, others, edge
<1>2. CASE SttConn BY <1>2 DEF SttConn, others, edge
<1>3. CASE Ses BY <1>3 DEF Ses, others, edge
<1>4. CASE Batch BY <1>4 DEF Batch, others, edge
<1>5. CASE Hearing BY <1>5 DEF Hearing, edge
<1>6. CASE Sdk BY <1>6 DEF Sdk, edge
<1>7. CASE Pool BY <1>7 DEF Pool, speech
<1>8. CASE Runpod BY <1>8 DEF Runpod, speech
<1>9. CASE Encode BY <1>9 DEF Encode, speech
<1>10. CASE Pay BY <1>10 DEF Pay, speech
<1>11. CASE Guard BY <1>11 DEF Guard, speech
<1>12. CASE UNCHANGED vars BY <1>12 DEF vars, others, edge
<1> QED BY <1>1, <1>2, <1>3, <1>4, <1>5, <1>6, <1>7, <1>8, <1>9, <1>10, <1>11, <1>12 DEF Next

\* For any number of workers' requests, sockets, connections and sentences: what a worker bills
\* or reports was done, and nothing that was stopped, refused or broken off
\* (server.py and app.py of the speech workers).
THEOREM ReportsAreTrue == Spec => []ReportedIsDone
<1> DEFINE I == TtsInv /\ SttInv /\ BatchInv /\ ChargeInv
<1>1. Init => I BY EachStarts, TtsInvInit, SttInvInit, BatchInvInit, ChargeInvInit
<1>2. I /\ [Next]_vars => I' BY EachSteps, TtsInvStep, SttInvStep, BatchInvStep, ChargeInvStep
<1>3. I => ReportedIsDone
  BY TtsInvImplies, SttInvImplies, BatchInvImplies, ChargeInvImplies DEF ReportedIsDone
<1> QED BY <1>1, <1>2, <1>3, PTL DEF Spec

\* For any number of requests, calls, sockets, visitors and limits: every worker and the client
\* give back what a request took of them, and what the call engine's pool, the gateway's encoders
\* and the admission of visitors count is what is open and under their limits, in every window of
\* time (server.py and app.py of the workers, client.py, piperTts.js, demoGuard.js, gateway/server.js).
THEOREM WhatIsTakenIsGivenBack == Spec => []SlotsAndLocks
<1> DEFINE I == /\ TtsInv /\ SttInv /\ BatchInv /\ SdkInv /\ PoolInv /\ EncInv /\ GuardInv /\ WindowInv
<1>1. Init => I
  BY EachStarts, TtsInvInit, SttInvInit, BatchInvInit, SdkInvInit, PoolInvInit, EncInvInit, GuardInvInit, WindowInvInit
<1>2. I /\ [Next]_vars => I'
  <2> SUFFICES ASSUME I, [Next]_vars PROVE I'
      OBVIOUS
  <2>1. GuardInv' BY EachSteps, GuardInvStep
  <2>2. WindowInv' BY <2>1, EachSteps, WindowInvStep DEF GuardInv
  <2> QED BY <2>1, <2>2, EachSteps, TtsInvStep, SttInvStep, BatchInvStep, SdkInvStep, PoolInvStep, EncInvStep
<1>3. I => SlotsAndLocks
  BY TtsInvImplies, SttInvImplies, BatchInvImplies, SdkInvImplies, PoolInvImplies, EncInvImplies, WindowInvImplies
     DEF SlotsAndLocks, GuardInv
<1> QED BY <1>1, <1>2, <1>3, PTL DEF Spec

\* For every length of chunk, utterance and session, number of requests and of checkouts: a guess
\* of the recognizer is settled before anything else is said and segments follow one another, no
\* word that buf has let go of is missing in the finals but what the detector could not see of it,
\* a sentence's audio is spoken once and in order, an answer that is complete was never stopped,
\* a response that ends like a whole file is one, and a key is shown once (server.py of the two
\* recognizers, piperTts.js, the adapter of RunPod and gateway/server.js).
THEOREM AnswersAreKept == Spec => []SessionAnswers
<1> DEFINE I == SesInv /\ ChargeInv /\ WordInv /\ PoolInv /\ RunpodInv /\ CleanInv /\ PayInv
<1>1. Init => I
  BY EachStarts, SesInvInit, ChargeInvInit, WordInvInit, PoolInvInit, RunpodInvInit, CleanInvInit, PayInvInit
<1>2. I /\ [Next]_vars => I'
  BY EachSteps, SesInvStep, ChargeInvStep, WordInvStep, PoolInvStep, RunpodInvStep, CleanInvStep, PayInvStep
<1>3. I => SessionAnswers
  BY SesInvImplies, WordInvImplies, PoolInvImplies, RunpodInvImplies, CleanInvImplies, PayInvImplies DEF SessionAnswers
<1> QED BY <1>1, <1>2, <1>3, PTL DEF Spec
=============================================================================
