--------------------------- MODULE VoiceCacheProofs ---------------------------
(***************************************************************************)
(* What TLAPS proves of VoiceCache, for any voices and threads, any sizes  *)
(* of the two caches and any number of publications and failures.          *)
(***************************************************************************)
EXTENDS VoiceCache, SequenceTheorems, TLAPS

-----------------------------------------------------------------------------
(* The ordered dictionaries.                                               *)

Distinct(order) == \A i, j \in DOMAIN order : order[i] = order[j] => i = j
Orders == {order \in Seq(Voices) : Distinct(order)}

(* pop: the key goes, the others stay, each once.                          *)
LEMMA WithoutProperties ==
  ASSUME NEW order \in Orders, NEW v
  PROVE  /\ Without(order, v) \in Orders
         /\ Members(Without(order, v)) = Members(order) \ {v}
         /\ Len(Without(order, v)) = IF v \in Members(order) THEN Len(order) - 1 ELSE Len(order)
<1>0. order \in Seq(Voices) /\ Distinct(order) /\ Len(order) \in Nat
      /\ DOMAIN order = 1 .. Len(order)
  BY LenProperties DEF Orders
<1>1. CASE v \notin Members(order)
  BY <1>1 DEF Without, Members
<1>2. CASE v \in Members(order)
  <2> DEFINE p == Position(order, v)
             n == Len(order)
             a == SubSeq(order, 1, p - 1)
             b == SubSeq(order, p + 1, n)
             w == a \o b
  <2>1. p \in 1 .. n /\ order[p] = v
    BY <1>0, <1>2 DEF Members, ToSet, Position
  <2>2. Without(order, v) = w
    BY <1>2 DEF Without, RemoveAt
  <2> HIDE DEF p
  <2>3. \A i \in 1 .. n : order[i] \in Voices
    BY <1>0, ElementOfSeq
  <2>4. /\ a \in Seq(Voices) /\ Len(a) = p - 1
        /\ \A i \in 1 .. p - 1 : a[i] = order[i]
    <3>1. \A i \in 1 .. p - 1 : order[i] \in Voices
      BY <2>1, <2>3, <1>0
    <3>2. p - 1 \in Int /\ p - 1 >= 0
      BY <2>1, <1>0
    <3>3. /\ a \in Seq(Voices)
          /\ Len(a) = IF 1 <= p - 1 THEN p - 1 - 1 + 1 ELSE 0
          /\ \A i \in 1 .. p - 1 - 1 + 1 : a[i] = order[1 + i - 1]
      BY <3>1, <3>2, SubSeqProperties
    <3> HIDE DEF a
    <3> QED
      BY <3>2, <3>3
  <2>5. /\ b \in Seq(Voices) /\ Len(b) = n - p
        /\ \A i \in 1 .. n - p : b[i] = order[p + i]
    <3>1. \A i \in p + 1 .. n : order[i] \in Voices
      BY <2>1, <2>3, <1>0
    <3>2. p + 1 \in Int /\ n \in Int /\ p <= n /\ p \in Nat
      BY <2>1, <1>0
    <3>3. /\ b \in Seq(Voices)
          /\ Len(b) = IF p + 1 <= n THEN n - (p + 1) + 1 ELSE 0
          /\ \A i \in 1 .. n - (p + 1) + 1 : b[i] = order[p + 1 + i - 1]
      BY <3>1, <3>2, SubSeqProperties
    <3> HIDE DEF b
    <3> QED
      BY <3>2, <3>3
  <2> HIDE DEF a, b, n
  <2>6. /\ w \in Seq(Voices) /\ Len(w) = (p - 1) + (n - p)
        /\ \A i \in 1 .. (p - 1) + (n - p) : w[i] = IF i <= p - 1 THEN a[i] ELSE b[i - (p - 1)]
    <3>1. a \in Seq(Voices) /\ b \in Seq(Voices) /\ Len(a) = p - 1 /\ Len(b) = n - p
      BY <2>4, <2>5
    <3>2. /\ w \in Seq(Voices)
          /\ Len(w) = Len(a) + Len(b)
          /\ \A i \in 1 .. Len(a) + Len(b) : w[i] = IF i <= Len(a) THEN a[i] ELSE b[i - Len(a)]
      BY <3>1, ConcatProperties
    <3> HIDE DEF w
    <3> QED
      BY <3>1, <3>2
  <2> HIDE DEF w
  <2>7. n \in Nat /\ p \in 1 .. n /\ Len(w) = n - 1 /\ DOMAIN w = 1 .. n - 1
    BY <2>1, <2>6, <1>0, LenProperties DEF n
  <2>8. \A i \in 1 .. n - 1 : w[i] = order[IF i < p THEN i ELSE i + 1]
    <3> TAKE i \in 1 .. n - 1
    <3>1. CASE i < p
      BY <3>1, <2>4, <2>6, <2>7
    <3>2. CASE ~ i < p
      <4>1. w[i] = b[i - (p - 1)]
        BY <3>2, <2>6, <2>7
      <4>2. i - (p - 1) \in 1 .. n - p /\ p + (i - (p - 1)) = i + 1
        BY <3>2, <2>7
      <4> QED
        BY <4>1, <4>2, <3>2, <2>5
    <3> QED
      BY <3>1, <3>2
  <2>9. \A i \in 1 .. n - 1 : (IF i < p THEN i ELSE i + 1) \in (1 .. n) \ {p}
    BY <2>7
  <2>10. Distinct(w)
    <3> SUFFICES ASSUME NEW i \in 1 .. n - 1, NEW j \in 1 .. n - 1, w[i] = w[j]
                 PROVE  i = j
      BY <2>7 DEF Distinct
    <3>1. (IF i < p THEN i ELSE i + 1) = (IF j < p THEN j ELSE j + 1)
      BY <2>8, <2>9, <1>0 DEF Distinct, n
    <3> QED
      BY <3>1, <2>7
  <2>11. Members(w) = Members(order) \ {v}
    <3>1. ASSUME NEW i \in 1 .. n - 1
          PROVE  w[i] \in Members(order) \ {v}
      <4> DEFINE k == IF i < p THEN i ELSE i + 1
      <4>1. k \in 1 .. n /\ k # p /\ w[i] = order[k]
        BY <2>8, <2>9
      <4> HIDE DEF k
      <4> QED
        BY <4>1, <2>1, <1>0 DEF Members, ToSet, Distinct, n
    <3>2. ASSUME NEW k \in 1 .. n, order[k] # v
          PROVE  order[k] \in Members(w)
      <4>1. k # p
        BY <3>2, <2>1
      <4>2. CASE k < p
        <5>1. k \in 1 .. n - 1 /\ w[k] = order[k]
          BY <4>2, <2>7, <2>8
        <5> QED
          BY <5>1, <2>7 DEF Members, ToSet
      <4>3. CASE k > p
        <5>1. k - 1 \in 1 .. n - 1 /\ ~ k - 1 < p /\ k - 1 + 1 = k
          BY <4>3, <2>7
        <5>2. w[k - 1] = order[k]
          BY <5>1, <2>8
        <5> QED
          BY <5>1, <5>2, <2>7 DEF Members, ToSet
      <4> QED
        BY <4>1, <4>2, <4>3, <2>7
    <3> QED
      BY <3>1, <3>2, <2>7, <1>0 DEF Members, ToSet, n
  <2> QED
    BY <2>2, <2>6, <2>7, <2>10, <2>11, <1>2 DEF Orders, n
<1> QED
  BY <1>1, <1>2

(* move_to_end, or a new key.                                              *)
LEMMA TouchedProperties ==
  ASSUME NEW order \in Orders, NEW v \in Voices
  PROVE  /\ Touched(order, v) \in Orders
         /\ Members(Touched(order, v)) = Members(order) \cup {v}
         /\ Len(Touched(order, v)) = IF v \in Members(order) THEN Len(order) ELSE Len(order) + 1
<1> DEFINE w == Without(order, v)
           x == Append(w, v)
<1>1. /\ w \in Orders /\ w \in Seq(Voices)
      /\ Members(w) = Members(order) \ {v}
      /\ Len(w) = IF v \in Members(order) THEN Len(order) - 1 ELSE Len(order)
  BY WithoutProperties DEF Orders
<1>2. Touched(order, v) = x
  BY DEF Touched
<1> HIDE DEF w
<1>3. /\ x \in Seq(Voices) /\ Len(x) = Len(w) + 1
      /\ \A i \in 1 .. Len(w) : x[i] = w[i]
      /\ x[Len(w) + 1] = v
  BY <1>1, AppendProperties
<1> HIDE DEF x
<1>4. Len(w) \in Nat /\ DOMAIN w = 1 .. Len(w) /\ DOMAIN x = 1 .. Len(w) + 1
      /\ Len(order) \in Nat
  BY <1>1, <1>3, LenProperties DEF Orders
<1>5. \A i \in 1 .. Len(w) : w[i] \in Members(order) \ {v}
  BY <1>1, <1>4 DEF Members, ToSet
<1>6. Distinct(x)
  BY <1>1, <1>3, <1>4, <1>5 DEF Distinct, Orders
<1>7. Members(x) = Members(w) \cup {v}
  BY <1>3, <1>4 DEF Members, ToSet
<1>8. Members(x) = Members(order) \cup {v}
  BY <1>1, <1>7
<1>9. Len(x) = IF v \in Members(order) THEN Len(order) ELSE Len(order) + 1
  BY <1>1, <1>3, <1>4
<1>10. x \in Orders
  BY <1>3, <1>6 DEF Orders
<1> QED
  BY <1>2, <1>8, <1>9, <1>10

(* Eviction of the oldest ones.                                            *)
LEMMA KeptProperties ==
  ASSUME NEW order \in Orders, NEW max \in Nat
  PROVE  /\ Kept(order, max) \in Orders
         /\ Members(Kept(order, max)) \subseteq Members(order)
         /\ Len(Kept(order, max)) <= max
<1> DEFINE n == Len(order)
           k == SubSeq(order, n - max + 1, n)
<1>0. order \in Seq(Voices) /\ Distinct(order) /\ n \in Nat /\ DOMAIN order = 1 .. n
  BY LenProperties DEF Orders
<1>1. CASE ~ n > max
  BY <1>0, <1>1 DEF Kept
<1>2. CASE n > max
  <2>1. n - max + 1 \in Int /\ n \in Int /\ n - max + 1 >= 1 /\ n - (n - max + 1) + 1 = max
    BY <1>0, <1>2
  <2>2. \A i \in n - max + 1 .. n : order[i] \in Voices
    BY <1>0, <2>1, ElementOfSeq
  <2>3. /\ k \in Seq(Voices)
        /\ Len(k) = IF n - max + 1 <= n THEN n - (n - max + 1) + 1 ELSE 0
        /\ \A i \in 1 .. n - (n - max + 1) + 1 : k[i] = order[n - max + 1 + i - 1]
    BY <2>1, <2>2, SubSeqProperties
  <2>4. Kept(order, max) = k
    BY <1>2 DEF Kept
  <2> HIDE DEF k
  <2> HIDE DEF n
  <2>5. /\ Len(k) = max /\ DOMAIN k = 1 .. max
        /\ \A i \in 1 .. max : n - max + i \in 1 .. n /\ k[i] = order[n - max + i]
    <3>1. Len(k) = max
      BY <1>0, <1>2, <2>1, <2>3
    <3>2. DOMAIN k = 1 .. max
      BY <2>3, <3>1, LenProperties
    <3>3. ASSUME NEW i \in 1 .. max
          PROVE  n - max + i \in 1 .. n /\ k[i] = order[n - max + i]
      <4>1. n - max + i \in 1 .. n /\ n - max + 1 + i - 1 = n - max + i
        BY <1>0, <1>2
      <4> QED
        BY <4>1, <2>1, <2>3
    <3> QED
      BY <3>1, <3>2, <3>3
  <2>6. Distinct(k)
    BY <1>0, <2>5 DEF Distinct
  <2>7. Members(k) \subseteq Members(order)
    BY <1>0, <2>5 DEF Members, ToSet
  <2> QED
    BY <2>3, <2>4, <2>5, <2>6, <2>7 DEF Orders
<1> QED
  BY <1>1, <1>2

-----------------------------------------------------------------------------
(* Types.  A thread or an operation that is not idle has a voice, and the  *)
(* two caches list a voice once.                                           *)

TypeInv ==
  /\ TypeOK
  /\ lru \in Orders /\ engineOrder \in Orders
  /\ \A t \in Threads : thread[t].pc # "idle" => thread[t].voice \in Voices
  /\ admin.pc # "idle" => admin.voice \in Voices

(* The bounds are numbers.                                                 *)
LEMMA SizesAreNumbers ==
  MaxCached \in Nat /\ MaxEngines \in Nat /\ MaxPublications \in Nat /\ MaxFailures \in Nat
  BY CacheAssumption

(* The machine starts well typed.                                          *)
LEMMA TypeInit == Init => TypeInv
<1> SUFFICES ASSUME Init PROVE TypeInv
  OBVIOUS
<1>0. 0 <= MaxCached /\ 0 <= MaxEngines /\ 0 \in 0 .. MaxFailures /\ 0 \in Publications
  BY SizesAreNumbers DEF Publications
<1>1. Nothing \in Contents /\ 0 \in Publications /\ 0 \in 0 .. MaxFailures
  BY <1>0 DEF Nothing, Contents
<1>2. <<>> \in Seq(Voices) /\ Len(<<>>) = 0 /\ DOMAIN <<>> = {} /\ <<>> \in Orders
  <2>1. <<>> \in Seq(Voices) /\ Len(<<>>) = 0
    BY EmptySeq
  <2>2. DOMAIN <<>> = 1 .. 0
    BY <2>1, LenProperties
  <2>3. \A i \in 1 .. 0 : FALSE
    OBVIOUS
  <2> QED
    BY <2>1, <2>2, <2>3 DEF Orders, Distinct
<1>3. NoRequest \in Requests
  BY <1>1 DEF NoRequest, Requests, Answered
<1>4. NoOperation \in Operations /\ NoOperation.pc = "idle"
  BY DEF NoOperation, Operations
<1>5. thread \in [Threads -> Requests] /\ \A t \in Threads : thread[t].pc = "idle"
  BY <1>3 DEF Init, NoRequest
<1>6. bucket \in [Voices -> Contents] /\ disk \in [Voices -> Contents] /\ engines \in [Voices -> Contents]
      /\ doubt \in [Voices -> BOOLEAN]
  BY <1>1 DEF Init
<1>7. lru \in Orders /\ lru \in Seq(Voices) /\ Len(lru) <= MaxCached
      /\ engineOrder \in Orders /\ engineOrder \in Seq(Voices) /\ Len(engineOrder) <= MaxEngines
  <2>1. lru = <<>> /\ engineOrder = <<>>
    BY DEF Init
  <2> QED
    BY <1>0, <1>2, <2>1
<1>8. fetching \subseteq Voices /\ admin \in Operations /\ admin.pc = "idle"
      /\ published \in Publications /\ failures \in 0 .. MaxFailures
  BY <1>1, <1>4 DEF Init
<1> QED
  BY <1>5, <1>6, <1>7, <1>8 DEF TypeInv, TypeOK

(* The caches stay within their bounds.                                    *)
LEMMA CacheTypes ==
  ASSUME TypeInv, NEW v \in Voices
  PROVE  /\ v \in Members(lru) => /\ Touched(lru, v) \in Orders
                                  /\ Len(Touched(lru, v)) <= MaxCached
         /\ /\ Kept(Touched(lru, v), MaxCached) \in Orders
            /\ Len(Kept(Touched(lru, v), MaxCached)) <= MaxCached
         /\ /\ Kept(Touched(engineOrder, v), MaxEngines) \in Orders
            /\ Len(Kept(Touched(engineOrder, v), MaxEngines)) <= MaxEngines
         /\ Without(lru, v) \in Orders /\ Len(Without(lru, v)) <= MaxCached
         /\ Without(engineOrder, v) \in Orders /\ Len(Without(engineOrder, v)) <= MaxEngines
<1>1. lru \in Orders /\ engineOrder \in Orders /\ MaxCached \in Nat /\ MaxEngines \in Nat
      /\ Len(lru) \in Nat /\ Len(lru) <= MaxCached
      /\ Len(engineOrder) \in Nat /\ Len(engineOrder) <= MaxEngines
  BY SizesAreNumbers, LenProperties DEF TypeInv, TypeOK
<1>2. /\ Touched(lru, v) \in Orders
      /\ v \in Members(lru) => Len(Touched(lru, v)) <= MaxCached
      /\ Touched(engineOrder, v) \in Orders
  BY <1>1, TouchedProperties
<1>3. /\ Kept(Touched(lru, v), MaxCached) \in Orders
      /\ Len(Kept(Touched(lru, v), MaxCached)) <= MaxCached
      /\ Kept(Touched(engineOrder, v), MaxEngines) \in Orders
      /\ Len(Kept(Touched(engineOrder, v), MaxEngines)) <= MaxEngines
  BY <1>1, <1>2, KeptProperties
<1>4. /\ Without(lru, v) \in Orders /\ Len(Without(lru, v)) <= MaxCached
      /\ Without(engineOrder, v) \in Orders /\ Len(Without(engineOrder, v)) <= MaxEngines
  BY <1>1, WithoutProperties
<1> QED
  BY <1>2, <1>3, <1>4

(* The requests alone, and a step of one of them.                          *)
ThreadTypes(threads) ==
  /\ threads \in [Threads -> Requests]
  /\ \A t \in Threads : threads[t].pc # "idle" => threads[t].voice \in Voices

(* Giving one thread a well-typed request keeps the types.                 *)
LEMMA ThreadStep ==
  ASSUME ThreadTypes(thread), NEW t \in Threads, NEW request \in Requests,
         request.pc # "idle" => request.voice \in Voices
  PROVE  ThreadTypes([thread EXCEPT ![t] = request])
  BY DEF ThreadTypes

(* What a lookup leaves of a request: its voice, and where it goes.        *)
LEMMA LookupStep ==
  ASSUME TypeInv, NEW t \in Threads, NEW v \in Voices, NEW request \in Requests,
         request.voice = v, Lookup(t, v, request)
  PROVE  /\ ThreadTypes(thread')
         /\ \A u \in Threads \ {t} : thread'[u] = thread[u]
         /\ thread'[t].voice = v
         /\ thread'[t].pc = IF Cached(v) THEN "meta"
                            ELSE IF v \in fetching THEN "wait" ELSE "download"
         /\ thread'[t].todo = IF Cached(v) THEN {} ELSE Files
         /\ thread'[t].calm = request.calm
         /\ lru' \in Orders /\ Len(lru') <= MaxCached
         /\ fetching' \subseteq Voices
<1> DEFINE pc   == IF Cached(v) THEN "meta" ELSE IF v \in fetching THEN "wait" ELSE "download"
           todo == IF Cached(v) THEN {} ELSE Files
           r    == [request EXCEPT !.pc = pc, !.todo = todo]
<1>1. pc \in {"meta", "wait", "download"} /\ todo \in SUBSET Files
  OBVIOUS
<1>2. thread' = [thread EXCEPT ![t] = r]
  BY DEF Lookup
<1>3. lru' = IF Cached(v) THEN Touched(lru, v) ELSE lru
  BY DEF Lookup
<1>4. fetching' = IF Cached(v) THEN fetching ELSE fetching \cup {v}
  BY DEF Lookup
<1>5. lru' \in Orders /\ Len(lru') <= MaxCached
  BY <1>3, CacheTypes DEF Cached, TypeInv, TypeOK
<1>6. fetching' \subseteq Voices
  BY <1>4 DEF TypeInv, TypeOK
<1> HIDE DEF pc, todo
<1>7. /\ r \in Requests /\ r.pc = pc /\ r.todo = todo /\ r.voice = request.voice
      /\ r.calm = request.calm
  BY <1>1 DEF Requests, Flying, Answered
<1> HIDE DEF r
<1>8. ThreadTypes(thread)
  BY DEF TypeInv, TypeOK, ThreadTypes
<1>9. ThreadTypes(thread')
  BY <1>2, <1>7, <1>8, ThreadStep
<1>10. thread'[t] = r /\ \A u \in Threads \ {t} : thread'[u] = thread[u]
  BY <1>2, <1>8 DEF ThreadTypes
<1> QED
  BY <1>5, <1>6, <1>7, <1>9, <1>10 DEF pc, todo

(* Disturbing a request changes nothing but its ghost.                     *)
LEMMA DisturbedStep ==
  ASSUME NEW threads, ThreadTypes(threads), NEW V
  PROVE  /\ ThreadTypes(Disturbed(threads, V))
         /\ \A u \in Threads :
              LET r == Disturbed(threads, V)[u] IN
              /\ r.pc = threads[u].pc /\ r.voice = threads[u].voice /\ r.tmp = threads[u].tmp
              /\ r.todo = threads[u].todo /\ r.meta = threads[u].meta
              /\ r.engine = threads[u].engine
              /\ r.calm <=> threads[u].calm /\ threads[u].voice \notin V
<1>1. ASSUME NEW u \in Threads
      PROVE  LET r == [threads[u] EXCEPT !.calm = @ /\ threads[u].voice \notin V] IN
             /\ r \in Requests
             /\ r.pc = threads[u].pc /\ r.voice = threads[u].voice /\ r.tmp = threads[u].tmp
             /\ r.todo = threads[u].todo /\ r.meta = threads[u].meta
             /\ r.engine = threads[u].engine
             /\ r.calm <=> threads[u].calm /\ threads[u].voice \notin V
  <2> DEFINE b == threads[u].calm /\ threads[u].voice \notin V
  <2>1. threads[u] \in Requests /\ b \in BOOLEAN
    BY DEF ThreadTypes
  <2> HIDE DEF b
  <2>2. LET r == [threads[u] EXCEPT !.calm = b] IN
        /\ r \in Requests
        /\ r.pc = threads[u].pc /\ r.voice = threads[u].voice /\ r.tmp = threads[u].tmp
        /\ r.todo = threads[u].todo /\ r.meta = threads[u].meta
        /\ r.engine = threads[u].engine /\ r.calm = b
    BY <2>1 DEF Requests
  <2> QED
    BY <2>2 DEF b
<1>2. \A u \in Threads :
        Disturbed(threads, V)[u] = [threads[u] EXCEPT !.calm = @ /\ threads[u].voice \notin V]
  BY DEF Disturbed
<1>3. DOMAIN Disturbed(threads, V) = Threads
  BY DEF Disturbed
<1>4. Disturbed(threads, V) \in [Threads -> Requests]
  <2>1. \A u \in Threads : [threads[u] EXCEPT !.calm = @ /\ threads[u].voice \notin V] \in Requests
    BY <1>1
  <2> QED
    BY <2>1 DEF Disturbed
<1> DEFINE d == Disturbed(threads, V)
<1>5. \A u \in Threads :
        /\ d[u].pc = threads[u].pc /\ d[u].voice = threads[u].voice /\ d[u].tmp = threads[u].tmp
        /\ d[u].todo = threads[u].todo /\ d[u].meta = threads[u].meta
        /\ d[u].engine = threads[u].engine
        /\ d[u].calm <=> threads[u].calm /\ threads[u].voice \notin V
  <2> SUFFICES ASSUME NEW u \in Threads
               PROVE  /\ d[u].pc = threads[u].pc /\ d[u].voice = threads[u].voice /\ d[u].tmp = threads[u].tmp
                      /\ d[u].todo = threads[u].todo /\ d[u].meta = threads[u].meta
                      /\ d[u].engine = threads[u].engine
                      /\ d[u].calm <=> threads[u].calm /\ threads[u].voice \notin V
    OBVIOUS
  <2> DEFINE r == [threads[u] EXCEPT !.calm = @ /\ threads[u].voice \notin V]
  <2>1. d[u] = r
    BY <1>2
  <2>2. /\ r.pc = threads[u].pc /\ r.voice = threads[u].voice /\ r.tmp = threads[u].tmp
        /\ r.todo = threads[u].todo /\ r.meta = threads[u].meta
        /\ r.engine = threads[u].engine
        /\ r.calm <=> threads[u].calm /\ threads[u].voice \notin V
    BY <1>1
  <2> HIDE DEF r, d
  <2> QED
    BY <2>1, <2>2
<1> HIDE DEF d
<1>6. ThreadTypes(d)
  BY <1>4, <1>5 DEF ThreadTypes, d
<1> QED
  BY <1>5, <1>6 DEF d

(* A step of a thread t that is busy with a voice: what it may change.     *)
Moved(t, pc, tmp, todo) ==
  /\ ThreadTypes(thread')
  /\ \A u \in Threads \ {t} : thread'[u] = thread[u]
  /\ thread'[t].voice = thread[t].voice
  /\ thread'[t].pc = pc /\ thread'[t].tmp = tmp /\ thread'[t].todo = todo
  /\ thread'[t].calm = thread[t].calm

Pcs == Flying \cup Answered \cup {"wait", "reread", "meta", "engine"}

(* What is known of the request of any thread.                             *)
LEMMA RequestTypes ==
  ASSUME TypeInv, NEW t \in Threads
  PROVE  /\ ThreadTypes(thread)
         /\ thread[t] \in Requests
         /\ thread[t].tmp \in Contents /\ thread[t].todo \in SUBSET Files
         /\ thread[t].meta \in Publications /\ thread[t].engine \in Contents
         /\ thread[t].pc # "idle" => thread[t].voice \in Voices
  BY DEF TypeInv, TypeOK, ThreadTypes, Requests

(* A step that only moves the thread.                                      *)
LEMMA JumpStep ==
  ASSUME TypeInv, NEW t \in Threads, thread[t].pc # "idle", NEW pc \in Pcs,
         thread' = [thread EXCEPT ![t].pc = pc]
  PROVE  Moved(t, pc, thread[t].tmp, thread[t].todo)
<1> DEFINE r == [thread[t] EXCEPT !.pc = pc]
<1>1. thread[t] \in Requests /\ ThreadTypes(thread) /\ thread[t].voice \in Voices
  BY RequestTypes
<1>2. /\ r \in Requests /\ r.pc = pc /\ r.tmp = thread[t].tmp /\ r.todo = thread[t].todo
      /\ r.voice = thread[t].voice /\ r.calm = thread[t].calm
  BY <1>1 DEF Requests, Pcs
<1>3. thread' = [thread EXCEPT ![t] = r]
  OBVIOUS
<1> HIDE DEF r
<1>4. ThreadTypes([thread EXCEPT ![t] = r])
  BY <1>1, <1>2, ThreadStep
<1>5. thread'[t] = r /\ \A u \in Threads \ {t} : thread'[u] = thread[u]
  BY <1>1, <1>3 DEF ThreadTypes
<1> QED
  BY <1>2, <1>3, <1>4, <1>5 DEF Moved

(* One download_file: where the thread goes and what it has fetched.       *)
LEMMA DownloadStep ==
  ASSUME TypeInv, NEW t \in Threads, Download(t)
  PROVE  LET v == thread[t].voice
             f == FirstOf(thread[t].todo)
         IN  /\ v \in Voices /\ f \in Files
             /\ Moved(t, IF bucket[v][f] = 0
                           THEN IF f = "model.onnx" THEN "not_found" ELSE "failed"
                           ELSE IF thread[t].todo = {f} THEN "replace" ELSE "download",
                         [thread[t].tmp EXCEPT ![f] = bucket[v][f]], thread[t].todo \ {f})
<1> DEFINE v    == thread[t].voice
           f    == FirstOf(thread[t].todo)
           p    == bucket[v][f]
           pc   == IF p = 0 THEN IF f = "model.onnx" THEN "not_found" ELSE "failed"
                            ELSE IF thread[t].todo = {f} THEN "replace" ELSE "download"
           tmp  == [thread[t].tmp EXCEPT ![f] = p]
           todo == thread[t].todo \ {f}
           r    == [thread[t] EXCEPT !.tmp = tmp, !.todo = todo, !.pc = pc]
<1>1. /\ thread[t] \in Requests /\ ThreadTypes(thread) /\ v \in Voices
      /\ thread[t].tmp \in Contents /\ thread[t].todo \in SUBSET Files
      /\ thread[t].pc = "download"
  BY RequestTypes DEF Download
<1>2. f \in Files
  BY DEF FirstOf, Files
<1>3. p \in Publications
  BY <1>1, <1>2 DEF TypeInv, TypeOK, Contents
<1>4. pc \in Pcs /\ tmp \in Contents /\ todo \in SUBSET Files
  BY <1>1, <1>2, <1>3 DEF Pcs, Flying, Contents
<1>5. thread' = [thread EXCEPT ![t] = r]
  <2>1. thread' = [thread EXCEPT ![t].tmp[f] = p, ![t].todo = @ \ {f},
           ![t].pc = CASE p = 0 /\ f = "model.onnx" -> "not_found"
                       [] p = 0 /\ f # "model.onnx" -> "failed"
                       [] p # 0 -> IF thread[t].todo = {f} THEN "replace" ELSE @]
    BY DEF Download
  <2>2. pc = CASE p = 0 /\ f = "model.onnx" -> "not_found"
               [] p = 0 /\ f # "model.onnx" -> "failed"
               [] p # 0 -> IF thread[t].todo = {f} THEN "replace" ELSE thread[t].pc
    BY <1>1
  <2> HIDE DEF p, f, pc
  <2> QED
    BY <2>1, <2>2, <1>1 DEF ThreadTypes, Requests
<1> HIDE DEF pc, tmp, todo
<1>6. /\ r \in Requests /\ r.pc = pc /\ r.tmp = tmp /\ r.todo = todo
      /\ r.voice = v /\ r.calm = thread[t].calm
  BY <1>1, <1>4 DEF Requests, Pcs
<1> HIDE DEF r
<1>7. ThreadTypes([thread EXCEPT ![t] = r])
  BY <1>1, <1>6, ThreadStep
<1>8. thread'[t] = r /\ \A u \in Threads \ {t} : thread'[u] = thread[u]
  BY <1>1, <1>5 DEF ThreadTypes
<1>9. Moved(t, pc, tmp, todo)
  BY <1>5, <1>6, <1>7, <1>8 DEF Moved
<1> QED
  BY <1>1, <1>2, <1>9 DEF pc, tmp, todo

(* Reading owner.json moves the thread to the engine or to an answer.      *)
LEMMA ReadMetaStep ==
  ASSUME TypeInv, NEW t \in Threads, ReadMeta(t)
  PROVE  Moved(t, IF IsDir(thread[t].voice) THEN "engine" ELSE "unknown",
                  thread[t].tmp, thread[t].todo)
<1> DEFINE v    == thread[t].voice
           pc   == IF IsDir(v) THEN "engine" ELSE "unknown"
           meta == disk[v]["owner.json"]
           r    == [thread[t] EXCEPT !.meta = meta, !.pc = pc]
<1>1. thread[t] \in Requests /\ ThreadTypes(thread) /\ v \in Voices
  BY RequestTypes DEF ReadMeta
<1>2. meta \in Publications /\ pc \in Pcs
  BY <1>1 DEF TypeInv, TypeOK, Contents, Files, Pcs, Answered
<1>3. thread' = [thread EXCEPT ![t] = r]
  BY DEF ReadMeta
<1> HIDE DEF pc, meta
<1>4. /\ r \in Requests /\ r.pc = pc /\ r.tmp = thread[t].tmp /\ r.todo = thread[t].todo
      /\ r.voice = v /\ r.calm = thread[t].calm
  BY <1>1, <1>2 DEF Requests, Pcs
<1> HIDE DEF r
<1>5. ThreadTypes([thread EXCEPT ![t] = r])
  BY <1>1, <1>4, ThreadStep
<1>6. thread'[t] = r /\ \A u \in Threads \ {t} : thread'[u] = thread[u]
  BY <1>1, <1>3 DEF ThreadTypes
<1>7. Moved(t, pc, thread[t].tmp, thread[t].todo)
  BY <1>3, <1>4, <1>5, <1>6 DEF Moved
<1> QED
  BY <1>7 DEF pc

(* get_engine's last step: an error, or an engine that becomes the most    *)
(* recent.                                                                 *)
LEMMA LoadEngineStep ==
  ASSUME TypeInv, NEW t \in Threads, LoadEngine(t)
  PROVE  LET v      == thread[t].voice
             engine == IF v \in Members(engineOrder) THEN engines[v] ELSE disk[v]
         IN  /\ v \in Voices /\ engine \in Contents
             /\ \/ /\ Moved(t, "error", thread[t].tmp, thread[t].todo)
                   /\ UNCHANGED <<engines, engineOrder>>
                \/ /\ Moved(t, "served", thread[t].tmp, thread[t].todo)
                   /\ v \in Members(engineOrder) \/ IsDir(v)
                   /\ engineOrder' = Kept(Touched(engineOrder, v), MaxEngines)
                   /\ engines' = [w \in Voices |->
                        IF w \notin Members(engineOrder') THEN Nothing
                        ELSE IF w = v THEN engine ELSE engines[w]]
<1> DEFINE v      == thread[t].voice
           engine == IF v \in Members(engineOrder) THEN engines[v] ELSE disk[v]
           r      == [thread[t] EXCEPT !.pc = "served", !.engine = engine]
<1>1. thread[t] \in Requests /\ ThreadTypes(thread) /\ v \in Voices /\ thread[t].pc # "idle"
  BY RequestTypes DEF LoadEngine
<1>2. engine \in Contents
  BY <1>1 DEF TypeInv, TypeOK
<1>3. CASE v \notin Members(engineOrder) /\ ~ IsDir(v)
  <2>1. thread' = [thread EXCEPT ![t].pc = "error"] /\ UNCHANGED <<engines, engineOrder>>
    BY <1>3 DEF LoadEngine
  <2>2. Moved(t, "error", thread[t].tmp, thread[t].todo)
    BY <1>1, <2>1, JumpStep DEF Pcs, Answered
  <2> QED
    BY <1>1, <1>2, <2>1, <2>2
<1>4. CASE v \in Members(engineOrder) \/ IsDir(v)
  <2>1. /\ thread' = [thread EXCEPT ![t] = r]
        /\ engineOrder' = Kept(Touched(engineOrder, v), MaxEngines)
        /\ engines' = [w \in Voices |->
             IF w \notin Members(engineOrder') THEN Nothing
             ELSE IF w = v THEN engine ELSE engines[w]]
    BY <1>4 DEF LoadEngine
  <2> HIDE DEF engine
  <2>2. /\ r \in Requests /\ r.pc = "served" /\ r.tmp = thread[t].tmp /\ r.todo = thread[t].todo
        /\ r.voice = v /\ r.calm = thread[t].calm
    BY <1>1, <1>2 DEF Requests, Answered
  <2> HIDE DEF r
  <2>3. ThreadTypes([thread EXCEPT ![t] = r])
    BY <1>1, <2>2, ThreadStep
  <2>4. thread'[t] = r /\ \A u \in Threads \ {t} : thread'[u] = thread[u]
    BY <1>1, <2>1 DEF ThreadTypes
  <2>5. Moved(t, "served", thread[t].tmp, thread[t].todo)
    BY <2>1, <2>2, <2>3, <2>4 DEF Moved
  <2> QED
    BY <1>1, <1>2, <1>4, <2>1, <2>5 DEF engine
<1> QED
  BY <1>3, <1>4

(* The end of a fetch: the other threads keep where they are.              *)
LEMMA SettleStep ==
  ASSUME TypeInv, NEW t \in Threads, Settle(t)
  PROVE  LET v == thread[t].voice IN
         /\ v \in Voices
         /\ ThreadTypes(thread')
         /\ \A u \in Threads \ {t} :
              /\ thread'[u].pc = thread[u].pc /\ thread'[u].voice = thread[u].voice
              /\ thread'[u].tmp = thread[u].tmp /\ thread'[u].todo = thread[u].todo
         /\ thread'[t].voice = v /\ thread'[t].pc \in {"reread", "unknown", "error"}
<1> DEFINE v  == thread[t].voice
           pc == CASE thread[t].pc = "renamed"   -> "reread"
                   [] thread[t].pc = "not_found" -> "unknown"
                   [] thread[t].pc = "failed"    -> "error"
           r  == [thread[t] EXCEPT !.tmp = Nothing, !.todo = {}, !.pc = pc]
           threads == [thread EXCEPT ![t] = r]
<1>1. /\ thread[t] \in Requests /\ ThreadTypes(thread) /\ v \in Voices
      /\ thread[t].pc \in {"failed", "not_found", "renamed"}
  BY RequestTypes DEF Settle
<1>2. pc \in {"reread", "unknown", "error"}
  BY <1>1
<1>3. Nothing \in Contents
  BY SizesAreNumbers DEF Nothing, Contents, Publications
<1>4. PICK V : thread' = Disturbed(threads, V)
  <2>1. threads = [thread EXCEPT ![t].tmp = Nothing, ![t].todo = {},
                     ![t].pc = CASE @ = "renamed"   -> "reread"
                                 [] @ = "not_found" -> "unknown"
                                 [] @ = "failed"    -> "error"]
    BY <1>1 DEF ThreadTypes, Requests
  <2> HIDE DEF threads
  <2> QED
    BY <2>1 DEF Settle
<1> HIDE DEF pc
<1>5. r \in Requests /\ r.pc = pc /\ r.voice = v
  BY <1>1, <1>2, <1>3 DEF Requests, Answered
<1> HIDE DEF r
<1>6. ThreadTypes(threads) /\ threads[t] = r /\ \A u \in Threads \ {t} : threads[u] = thread[u]
  <2>1. ThreadTypes([thread EXCEPT ![t] = r])
    BY <1>1, <1>5, ThreadStep
  <2> QED
    BY <1>1, <2>1 DEF ThreadTypes
<1> HIDE DEF threads
<1>7. /\ ThreadTypes(thread')
      /\ \A u \in Threads :
           /\ thread'[u].pc = threads[u].pc /\ thread'[u].voice = threads[u].voice
           /\ thread'[u].tmp = threads[u].tmp /\ thread'[u].todo = threads[u].todo
  BY <1>4, <1>6, DisturbedStep
<1> QED
  BY <1>1, <1>2, <1>5, <1>6, <1>7

-----------------------------------------------------------------------------
(* Replacing one object of one voice keeps the bucket's type.              *)
LEMMA ContentUpdate ==
  ASSUME NEW contents \in [Voices -> Contents], NEW v \in Voices, NEW f \in Files,
         NEW p \in Publications
  PROVE  [contents EXCEPT ![v][f] = p] \in [Voices -> Contents]
<1>1. [contents[v] EXCEPT ![f] = p] \in Contents
  BY DEF Contents
<1> QED
  BY <1>1

(* What is known of the operation that the event loop is in.               *)
LEMMA AdminTypes ==
  ASSUME TypeInv
  PROVE  /\ admin \in Operations /\ admin.todo \in SUBSET Files
         /\ admin.pc # "idle" => admin.voice \in Voices
         /\ NoOperation \in Operations /\ NoOperation.pc = "idle"
         /\ \A pc \in {"put", "delete", "pop", "rmtree", "evict"}, v \in Voices, todo \in SUBSET Files :
              [pc |-> pc, voice |-> v, todo |-> todo] \in Operations
  BY DEF TypeInv, TypeOK, Operations, NoOperation

(* A request that arrives is well typed.                                   *)
LEMMA NewRequestType ==
  ASSUME NEW v \in Voices
  PROVE  LET r == [NoRequest EXCEPT !.voice = v, !.calm = admin.voice # v]
         IN  r \in Requests /\ r.voice = v /\ r.pc = "idle"
<1> DEFINE b == admin.voice # v
<1>1. b \in BOOLEAN /\ 0 \in Publications
  BY SizesAreNumbers DEF Publications
<1> HIDE DEF b
<1>2. Nothing \in Contents
  BY <1>1 DEF Nothing, Contents
<1>3. LET r == [NoRequest EXCEPT !.voice = v, !.calm = b]
      IN  r \in Requests /\ r.voice = v /\ r.pc = "idle"
  BY <1>1, <1>2 DEF NoRequest, Requests, Answered
<1> QED
  BY <1>3 DEF b

(* Every step keeps the types.                                             *)
LEMMA TypeStep == TypeInv /\ [Next]_vars => TypeInv'
<1> SUFFICES ASSUME TypeInv, [Next]_vars PROVE TypeInv'
  OBVIOUS
<1> USE DEF TypeInv, TypeOK, ThreadTypes
<1>0. Nothing \in Contents
  BY SizesAreNumbers DEF Nothing, Contents, Publications
<1>1. ASSUME NEW t \in Threads, NEW v \in Voices, Get(t, v)
      PROVE  TypeInv'
  <2> DEFINE r == [NoRequest EXCEPT !.voice = v, !.calm = admin.voice # v]
  <2>1. r \in Requests /\ r.voice = v
    BY NewRequestType
  <2>2. Lookup(t, v, r)
    BY <1>1 DEF Get
  <2> HIDE DEF r
  <2>3. ThreadTypes(thread') /\ lru' \in Orders /\ Len(lru') <= MaxCached /\ fetching' \subseteq Voices
    BY <2>1, <2>2, LookupStep
  <2> QED
    BY <2>2, <2>3 DEF Lookup, Orders
<1>2. ASSUME NEW t \in Threads, Wake(t)
      PROVE  TypeInv'
  <2>1. thread[t] \in Requests /\ thread[t].voice \in Voices
    BY <1>2, RequestTypes DEF Wake
  <2>2. Lookup(t, thread[t].voice, thread[t])
    BY <1>2 DEF Wake
  <2>3. ThreadTypes(thread') /\ lru' \in Orders /\ Len(lru') <= MaxCached /\ fetching' \subseteq Voices
    BY <2>1, <2>2, LookupStep
  <2> QED
    BY <2>2, <2>3 DEF Lookup, Orders
<1>3. ASSUME NEW t \in Threads, Download(t)
      PROVE  TypeInv'
  <2>1. ThreadTypes(thread')
    BY <1>3, DownloadStep DEF Moved
  <2> QED
    BY <1>3, <2>1 DEF Download
<1>4. ASSUME NEW t \in Threads, DownloadFails(t)
      PROVE  TypeInv'
  <2>1. ThreadTypes(thread')
    BY <1>4, JumpStep DEF DownloadFails, Moved, Pcs, Flying
  <2>2. failures' \in 0 .. MaxFailures
    BY <1>4, SizesAreNumbers DEF DownloadFails
  <2> QED
    BY <1>4, <2>1, <2>2 DEF DownloadFails
<1>5. ASSUME NEW t \in Threads, RemoveOld(t)
      PROVE  TypeInv'
  <2>1. ThreadTypes(thread')
    BY <1>5, JumpStep DEF RemoveOld, Moved, Pcs, Flying
  <2>2. disk' \in [Voices -> Contents]
    BY <1>0, <1>5 DEF RemoveOld
  <2> QED
    BY <1>5, <2>1, <2>2 DEF RemoveOld
<1>6. ASSUME NEW t \in Threads, Rename(t)
      PROVE  TypeInv'
  <2>1. ThreadTypes(thread')
    <3>1. CASE IsDir(thread[t].voice)
      BY <1>6, <3>1, JumpStep DEF Rename, Moved, Pcs, Flying
    <3>2. CASE ~ IsDir(thread[t].voice)
      BY <1>6, <3>2, JumpStep DEF Rename, Moved, Pcs, Flying
    <3> QED
      BY <3>1, <3>2
  <2>2. disk' \in [Voices -> Contents]
    BY <1>6, RequestTypes DEF Rename
  <2> QED
    BY <1>6, <2>1, <2>2 DEF Rename
<1>7. ASSUME NEW t \in Threads, Settle(t)
      PROVE  TypeInv'
  <2> DEFINE v == thread[t].voice
  <2>1. ThreadTypes(thread') /\ v \in Voices
    BY <1>7, SettleStep
  <2>2. PICK gone : disk' = [w \in Voices |-> IF w \in gone THEN Nothing ELSE disk[w]]
    BY <1>7 DEF Settle
  <2>3. disk' \in [Voices -> Contents]
    BY <1>0, <2>2
  <2>4. lru' = lru \/ lru' = Kept(Touched(lru, v), MaxCached)
    BY <1>7 DEF Settle
  <2>5. lru' \in Orders /\ lru' \in Seq(Voices) /\ Len(lru') <= MaxCached
    BY <2>1, <2>4, CacheTypes DEF Orders
  <2>6. fetching' \subseteq Voices
    BY <1>7 DEF Settle
  <2> QED
    BY <1>7, <2>1, <2>3, <2>5, <2>6 DEF Settle
<1>8. ASSUME NEW t \in Threads, Reread(t)
      PROVE  TypeInv'
  <2>1. ThreadTypes(thread')
    <3>1. CASE Cached(thread[t].voice)
      BY <1>8, <3>1, JumpStep DEF Reread, Moved, Pcs
    <3>2. CASE ~ Cached(thread[t].voice)
      BY <1>8, <3>2, JumpStep DEF Reread, Moved, Pcs, Answered
    <3> QED
      BY <3>1, <3>2
  <2> QED
    BY <1>8, <2>1 DEF Reread
<1>9. ASSUME NEW t \in Threads, ReadMeta(t)
      PROVE  TypeInv'
  <2>1. ThreadTypes(thread')
    BY <1>9, ReadMetaStep DEF Moved
  <2> QED
    BY <1>9, <2>1 DEF ReadMeta
<1>10. ASSUME NEW t \in Threads, LoadEngine(t)
       PROVE  TypeInv'
  <2> DEFINE v == thread[t].voice
             engine == IF v \in Members(engineOrder) THEN engines[v] ELSE disk[v]
  <2>1. v \in Voices /\ engine \in Contents
    BY <1>10, LoadEngineStep
  <2> HIDE DEF engine
  <2>2. ThreadTypes(thread')
    BY <1>10, LoadEngineStep DEF Moved
  <2>3. \/ UNCHANGED <<engines, engineOrder>>
        \/ /\ engineOrder' = Kept(Touched(engineOrder, v), MaxEngines)
           /\ engines' = [w \in Voices |-> IF w \notin Members(engineOrder') THEN Nothing
                                           ELSE IF w = v THEN engine ELSE engines[w]]
    BY <1>10, LoadEngineStep DEF engine
  <2>4. engineOrder' \in Orders /\ engineOrder' \in Seq(Voices) /\ Len(engineOrder') <= MaxEngines
    BY <2>1, <2>3, CacheTypes DEF Orders
  <2>5. engines' \in [Voices -> Contents]
    BY <1>0, <2>1, <2>3
  <2> QED
    BY <1>10, <2>2, <2>4, <2>5 DEF LoadEngine
<1>11. ASSUME NEW v \in Voices, AdminPut(v)
       PROVE  TypeInv'
  <2>1. ThreadTypes(thread')
    BY <1>11, DisturbedStep DEF AdminPut
  <2>2. admin' \in Operations /\ admin'.voice \in Voices
    BY <1>11, AdminTypes DEF AdminPut, AdminMove
  <2>3. published' \in Publications
    BY <1>11, SizesAreNumbers DEF AdminPut, Publications
  <2> QED
    BY <1>11, <2>1, <2>2, <2>3 DEF AdminPut
<1>12. ASSUME NEW v \in Voices, AdminDelete(v)
       PROVE  TypeInv'
  <2>1. ThreadTypes(thread')
    BY <1>12, DisturbedStep DEF AdminDelete
  <2>2. admin' \in Operations /\ admin'.voice \in Voices
    BY <1>12, AdminTypes DEF AdminDelete, AdminMove
  <2> QED
    BY <1>12, <2>1, <2>2 DEF AdminDelete
<1>13. ASSUME NEW f \in Files, PutObject(f)
       PROVE  TypeInv'
  <2>1. admin.voice \in Voices /\ admin.todo \ {f} \in SUBSET Files
    BY <1>13, AdminTypes DEF PutObject
  <2>2. admin' \in Operations /\ admin'.voice \in Voices
    BY <1>13, <2>1, AdminTypes DEF PutObject, AdminMove
  <2>3. bucket' \in [Voices -> Contents]
    BY <1>13, <2>1, ContentUpdate DEF PutObject
  <2> QED
    BY <1>13, <2>2, <2>3 DEF PutObject
<1>14. ASSUME DeleteObject
       PROVE  TypeInv'
  <2> DEFINE f == FirstOf(admin.todo)
  <2>1. admin.voice \in Voices /\ admin.todo \ {f} \in SUBSET Files /\ f \in Files
        /\ 0 \in Publications
    BY <1>14, AdminTypes, SizesAreNumbers DEF DeleteObject, FirstOf, Files, Publications
  <2>2. /\ bucket' = [bucket EXCEPT ![admin.voice][f] = 0]
        /\ AdminMove(IF admin.todo = {f} THEN "pop" ELSE "delete", admin.voice, admin.todo \ {f})
    BY <1>14 DEF DeleteObject
  <2> HIDE DEF f
  <2>3. admin' \in Operations /\ admin'.voice \in Voices
    BY <2>1, <2>2, AdminTypes DEF AdminMove
  <2>4. bucket' \in [Voices -> Contents]
    BY <2>1, <2>2, ContentUpdate
  <2> QED
    BY <1>14, <2>3, <2>4 DEF DeleteObject
<1>20. ASSUME HeadFails
       PROVE  TypeInv'
  <2> DEFINE f == FirstOf(admin.todo)
  <2>1. admin.voice \in Voices /\ admin.todo \ {f} \in SUBSET Files
    BY <1>20, AdminTypes DEF HeadFails
  <2>2. AdminMove(IF admin.todo = {f} THEN "pop" ELSE "delete", admin.voice, admin.todo \ {f})
    BY <1>20 DEF HeadFails
  <2> HIDE DEF f
  <2>3. admin' \in Operations /\ admin'.voice \in Voices
    BY <2>1, <2>2, AdminTypes DEF AdminMove
  <2>4. failures' \in 0 .. MaxFailures
    BY <1>20, SizesAreNumbers DEF HeadFails
  <2> QED
    BY <1>20, <2>3, <2>4 DEF HeadFails
<1>15. ASSUME AdminFails
       PROVE  TypeInv'
  <2>1. failures' \in 0 .. MaxFailures
    BY <1>15, SizesAreNumbers DEF AdminFails
  <2>2. admin' \in Operations /\ admin'.pc = "idle"
    BY <1>15, AdminTypes DEF AdminFails
  <2> QED
    BY <1>15, <2>1, <2>2 DEF AdminFails
<1>16. ASSUME PopCached
       PROVE  TypeInv'
  <2>1. admin.voice \in Voices
    BY <1>16, AdminTypes DEF PopCached
  <2>2. admin' \in Operations /\ admin'.voice \in Voices
    BY <1>16, <2>1, AdminTypes DEF PopCached, AdminMove
  <2>3. lru' \in Orders /\ lru' \in Seq(Voices) /\ Len(lru') <= MaxCached
    BY <1>16, <2>1, CacheTypes DEF PopCached, Orders
  <2>4. doubt' \in [Voices -> BOOLEAN]
    BY <1>16, <2>1 DEF PopCached
  <2> QED
    BY <1>16, <2>2, <2>3, <2>4 DEF PopCached
<1>17. ASSUME RemoveCached
       PROVE  TypeInv'
  <2>1. admin.voice \in Voices
    BY <1>17, AdminTypes DEF RemoveCached
  <2>2. admin' \in Operations /\ admin'.voice \in Voices
    BY <1>17, <2>1, AdminTypes DEF RemoveCached, AdminMove
  <2> QED
    BY <1>0, <1>17, <2>1, <2>2 DEF RemoveCached
<1>18. ASSUME Evict
       PROVE  TypeInv'
  <2>1. admin.voice \in Voices
    BY <1>18, AdminTypes DEF Evict
  <2>2. admin' \in Operations /\ admin'.pc = "idle"
    BY <1>18, AdminTypes DEF Evict
  <2>3. engineOrder' \in Orders /\ engineOrder' \in Seq(Voices) /\ Len(engineOrder') <= MaxEngines
    BY <1>18, <2>1, CacheTypes DEF Evict, Orders
  <2> QED
    BY <1>0, <1>18, <2>1, <2>2, <2>3 DEF Evict
<1>19. CASE UNCHANGED vars
  BY <1>19 DEF vars
<1> QED
  BY <1>1, <1>2, <1>3, <1>4, <1>5, <1>6, <1>7, <1>8, <1>9, <1>10, <1>11, <1>12,
     <1>13, <1>14, <1>15, <1>16, <1>17, <1>18, <1>19, <1>20 DEF Next

(* The types of every reachable state of the cache, for any bounds.        *)
THEOREM TypeCorrect == Spec => []TypeOK
<1>1. TypeInv => TypeOK
  BY DEF TypeInv
<1> QED
  BY <1>1, TypeInit, TypeStep, PTL DEF Spec

-----------------------------------------------------------------------------
(* One fetch per voice.                                                    *)

(* A thread that stays inside its fetch, or outside, changes no flight.    *)
LEMMA SameFlights ==
  ASSUME SingleFlight, fetching' = fetching,
         \A t \in Threads : /\ thread'[t].voice = thread[t].voice
                            /\ thread'[t].pc \in Flying <=> thread[t].pc \in Flying
  PROVE  SingleFlight'
  BY DEF SingleFlight, Fetches

(* A lookup starts a fetch only where none is marked, and marks it.        *)
LEMMA LookupFlight ==
  ASSUME TypeInv, SingleFlight, NEW t \in Threads, NEW v \in Voices, NEW request \in Requests,
         request.voice = v, Lookup(t, v, request), thread[t].pc \notin Flying
  PROVE  SingleFlight'
<1>1. /\ \A u \in Threads \ {t} : thread'[u] = thread[u]
      /\ thread'[t].voice = v
      /\ thread'[t].pc = IF Cached(v) THEN "meta" ELSE IF v \in fetching THEN "wait" ELSE "download"
  BY LookupStep
<1>2. fetching' = IF Cached(v) THEN fetching ELSE fetching \cup {v}
  BY DEF Lookup
<1>3. \A u \in Threads \ {t}, w \in Voices : Fetches(u, w)' <=> Fetches(u, w)
  BY <1>1 DEF Fetches
<1>4. \A w \in Voices : ~ Fetches(t, w)
  BY DEF Fetches
<1>5. CASE Cached(v) \/ v \in fetching
  <2>1. fetching' = fetching /\ \A w \in Voices : ~ Fetches(t, w)'
    BY <1>1, <1>2, <1>5 DEF Fetches, Flying
  <2> QED
    BY <1>3, <1>4, <2>1 DEF SingleFlight
<1>6. CASE ~ Cached(v) /\ v \notin fetching
  <2>1. fetching' = fetching \cup {v} /\ \A w \in Voices : Fetches(t, w)' <=> w = v
    BY <1>1, <1>2, <1>6 DEF Fetches, Flying
  <2> QED
    BY <1>3, <1>4, <1>6, <2>1 DEF SingleFlight
<1> QED
  BY <1>5, <1>6

(* Every step keeps one fetch per marked voice.                            *)
LEMMA FlightStep == TypeInv /\ SingleFlight /\ [Next]_vars => SingleFlight'
<1> SUFFICES ASSUME TypeInv, SingleFlight, [Next]_vars PROVE SingleFlight'
  OBVIOUS
<1>1. ASSUME NEW t \in Threads, NEW v \in Voices, Get(t, v)
      PROVE  SingleFlight'
  <2>1. thread[t].pc \notin Flying
    BY <1>1 DEF Get, Answered, Flying
  <2> QED
    BY <1>1, <2>1, NewRequestType, LookupFlight DEF Get
<1>2. ASSUME NEW t \in Threads, Wake(t)
      PROVE  SingleFlight'
  <2>1. thread[t].pc \notin Flying /\ thread[t] \in Requests /\ thread[t].voice \in Voices
    BY <1>2, RequestTypes DEF Wake, Flying
  <2> QED
    BY <1>2, <2>1, LookupFlight DEF Wake
<1>3. ASSUME NEW t \in Threads, Download(t)
      PROVE  SingleFlight'
  <2>1. /\ \A u \in Threads \ {t} : thread'[u] = thread[u]
        /\ thread'[t].voice = thread[t].voice
        /\ thread'[t].pc \in {"not_found", "failed", "replace", "download"}
    BY <1>3, DownloadStep DEF Moved
  <2> QED
    BY <1>3, <2>1, SameFlights DEF Download, Flying
<1>4. ASSUME NEW t \in Threads, DownloadFails(t) \/ RemoveOld(t) \/ Rename(t)
      PROVE  SingleFlight'
  <2>1. PICK pc \in Flying : thread' = [thread EXCEPT ![t].pc = pc]
    BY <1>4 DEF DownloadFails, RemoveOld, Rename, Flying
  <2>2. thread[t].pc \in Flying
    BY <1>4 DEF DownloadFails, RemoveOld, Rename, Flying
  <2>3. Moved(t, pc, thread[t].tmp, thread[t].todo)
    BY <2>1, <2>2, JumpStep DEF Pcs, Flying
  <2>4. fetching' = fetching
    BY <1>4 DEF DownloadFails, RemoveOld, Rename
  <2> QED
    BY <2>2, <2>3, <2>4, SameFlights DEF Moved
<1>5. ASSUME NEW t \in Threads, Settle(t)
      PROVE  SingleFlight'
  <2> DEFINE v == thread[t].voice
  <2>1. /\ v \in Voices /\ thread[t].pc \in Flying
        /\ \A u \in Threads \ {t} : thread'[u].pc = thread[u].pc /\ thread'[u].voice = thread[u].voice
        /\ thread'[t].voice = v /\ thread'[t].pc \notin Flying
    BY <1>5, SettleStep DEF Settle, Flying
  <2>2. fetching' = fetching \ {v}
    BY <1>5 DEF Settle
  <2>3. Fetches(t, v) /\ \A u \in Threads \ {t} : ~ Fetches(u, v)
    BY <2>1 DEF SingleFlight, Fetches
  <2>4. \A u \in Threads \ {t}, w \in Voices : Fetches(u, w)' <=> Fetches(u, w)
    BY <2>1 DEF Fetches
  <2>5. \A w \in Voices : ~ Fetches(t, w)'
    BY <2>1 DEF Fetches
  <2>6. \A w \in Voices \ {v} : ~ Fetches(t, w)
    BY DEF Fetches
  <2> QED
    BY <2>2, <2>3, <2>4, <2>5, <2>6 DEF SingleFlight
<1>6. ASSUME NEW t \in Threads, Reread(t) \/ ReadMeta(t) \/ LoadEngine(t)
      PROVE  SingleFlight'
  <2>1. thread[t].pc \in {"reread", "meta", "engine"} /\ fetching' = fetching
    BY <1>6 DEF Reread, ReadMeta, LoadEngine
  <2>2. PICK pc \in {"meta", "engine", "unknown", "error", "served"} :
          Moved(t, pc, thread[t].tmp, thread[t].todo)
    <3>1. CASE Reread(t)
      <4>1. PICK pc \in {"meta", "unknown"} : thread' = [thread EXCEPT ![t].pc = pc]
        BY <3>1 DEF Reread
      <4> QED
        BY <2>1, <4>1, JumpStep DEF Pcs, Answered
    <3>2. CASE ReadMeta(t)
      BY <3>2, ReadMetaStep
    <3>3. CASE LoadEngine(t)
      BY <3>3, LoadEngineStep
    <3> QED
      BY <1>6, <3>1, <3>2, <3>3
  <2> QED
    BY <2>1, <2>2, SameFlights DEF Moved, Flying
<1>7. ASSUME NEW v \in Voices, AdminPut(v) \/ AdminDelete(v)
      PROVE  SingleFlight'
  <2>1. thread' = Disturbed(thread, {v}) /\ fetching' = fetching
    BY <1>7 DEF AdminPut, AdminDelete
  <2>2. ThreadTypes(thread)
    BY DEF TypeInv, TypeOK, ThreadTypes
  <2> QED
    BY <2>1, <2>2, DisturbedStep, SameFlights
<1>8. CASE \/ \E f \in Files : PutObject(f)
           \/ DeleteObject \/ HeadFails \/ AdminFails \/ PopCached \/ RemoveCached \/ Evict
           \/ UNCHANGED vars
  <2>1. thread' = thread /\ fetching' = fetching
    BY <1>8 DEF PutObject, DeleteObject, HeadFails, AdminFails, PopCached, RemoveCached, Evict, vars
  <2> QED
    BY <2>1, SameFlights
<1> QED
  BY <1>1, <1>2, <1>3, <1>4, <1>5, <1>6, <1>7, <1>8 DEF Next

(* At the start nothing is marked and nothing is fetched.                  *)
LEMMA OneFetchInit == Init => SingleFlight
<1> SUFFICES ASSUME Init PROVE SingleFlight
  OBVIOUS
<1>1. fetching = {} /\ \A t \in Threads : thread[t].pc = "idle"
  BY DEF Init, NoRequest
<1> QED
  BY <1>1 DEF SingleFlight, Fetches, Flying

(* A voice is marked as fetched exactly while one thread fetches it.       *)
THEOREM OneFetch == Spec => []SingleFlight
  BY OneFetchInit, TypeInit, TypeStep, FlightStep, PTL DEF Spec

-----------------------------------------------------------------------------
(* Every directory on the disk is accounted for.                           *)

(* Only a fetch that has made its directory, or has failed, lists it.      *)
Listing(v)  == \E t \in Threads : thread[t].voice = v /\ thread[t].pc \in {"renamed", "failed"}
Removing(v) == admin.pc = "rmtree" /\ admin.voice = v
DiskInv == \A v \in Voices : IsDir(v) => v \in Members(lru) \/ Listing(v) \/ Removing(v)

(* The inductive form implies the stated one: who is about to list a voice *)
(* is fetching it.                                                         *)
LEMMA DiskInvListed ==
  ASSUME DiskInv, SingleFlight
  PROVE  DiskIsListed
<1>1. \A v \in Voices : Listing(v) => v \in fetching
  BY DEF Listing, SingleFlight, Fetches, Flying
<1> QED
  BY <1>1 DEF DiskInv, DiskIsListed, Removing

(* A step that adds no directory, takes none off the list, and lets no     *)
(* fetch and no removal go.                                                *)
LEMMA SameDisk ==
  ASSUME DiskInv,
         \A v \in Voices : IsDir(v)' => IsDir(v),
         \A v \in Voices : v \in Members(lru) => v \in Members(lru'),
         \A v \in Voices : Listing(v) => Listing(v)',
         \A v \in Voices : Removing(v) => Removing(v)'
  PROVE  DiskInv'
  BY DEF DiskInv

(* A fetch that does not list its directory yet is not the one that does.  *)
LEMMA ListingMoved ==
  ASSUME TypeInv, NEW t \in Threads, NEW pc, NEW tmp, NEW todo, Moved(t, pc, tmp, todo),
         thread[t].pc \notin {"renamed", "failed"}, NEW v \in Voices, Listing(v)
  PROVE  Listing(v)'
<1>1. PICK u \in Threads : thread[u].voice = v /\ thread[u].pc \in {"renamed", "failed"}
  BY DEF Listing
<1>2. u # t /\ thread'[u] = thread[u]
  BY <1>1 DEF Moved
<1> QED
  BY <1>1, <1>2 DEF Listing

(* A lookup takes no directory out of the account.                         *)
LEMMA LookupDisk ==
  ASSUME TypeInv, DiskInv, NEW t \in Threads, NEW v \in Voices, NEW request \in Requests,
         request.voice = v, Lookup(t, v, request), thread[t].pc \notin Flying
  PROVE  DiskInv'
<1>1. lru \in Orders /\ \A u \in Threads \ {t} : thread'[u] = thread[u]
  BY LookupStep DEF TypeInv
<1>2. \A w \in Voices : w \in Members(lru) => w \in Members(lru')
  BY <1>1, TouchedProperties DEF Lookup
<1>3. \A w \in Voices : Listing(w) => Listing(w)'
  <2> SUFFICES ASSUME NEW w \in Voices, Listing(w) PROVE Listing(w)'
    OBVIOUS
  <2>1. PICK u \in Threads : thread[u].voice = w /\ thread[u].pc \in {"renamed", "failed"}
    BY DEF Listing
  <2>2. u # t
    BY <2>1 DEF Flying
  <2> QED
    BY <1>1, <2>1, <2>2 DEF Listing
<1>4. disk' = disk /\ admin' = admin
  BY DEF Lookup
<1> QED
  BY <1>2, <1>3, <1>4, SameDisk DEF IsDir, Removing

(* Every step keeps every directory accounted for.                         *)
LEMMA DiskStep == TypeInv /\ SingleFlight /\ DiskInv /\ [Next]_vars => DiskInv'
<1> SUFFICES ASSUME TypeInv, SingleFlight, DiskInv, [Next]_vars PROVE DiskInv'
  OBVIOUS
<1>1. ASSUME NEW t \in Threads, NEW v \in Voices, Get(t, v)
      PROVE  DiskInv'
  <2>1. thread[t].pc \notin Flying
    BY <1>1 DEF Get, Answered, Flying
  <2> QED
    BY <1>1, <2>1, NewRequestType, LookupDisk DEF Get
<1>2. ASSUME NEW t \in Threads, Wake(t)
      PROVE  DiskInv'
  <2>1. thread[t].pc \notin Flying /\ thread[t] \in Requests /\ thread[t].voice \in Voices
    BY <1>2, RequestTypes DEF Wake, Flying
  <2> QED
    BY <1>2, <2>1, LookupDisk DEF Wake
<1>3. ASSUME NEW t \in Threads, Download(t) \/ DownloadFails(t) \/ RemoveOld(t)
      PROVE  DiskInv'
  <2>1. PICK pc, tmp, todo : Moved(t, pc, tmp, todo)
    <3>1. CASE Download(t)
      BY <3>1, DownloadStep
    <3>2. CASE DownloadFails(t)
      BY <3>2, JumpStep DEF DownloadFails, Pcs, Flying
    <3>3. CASE RemoveOld(t)
      BY <3>3, JumpStep DEF RemoveOld, Pcs, Flying
    <3> QED
      BY <1>3, <3>1, <3>2, <3>3
  <2>2. thread[t].pc \notin {"renamed", "failed"} /\ lru' = lru /\ admin' = admin
    BY <1>3 DEF Download, DownloadFails, RemoveOld
  <2>3. \A v \in Voices : IsDir(v)' => IsDir(v)
    <3>1. CASE disk' = disk
      BY <3>1 DEF IsDir
    <3>2. CASE RemoveOld(t)
      BY <3>2 DEF RemoveOld, IsDir, TypeInv, TypeOK
    <3> QED
      BY <1>3, <3>1, <3>2 DEF Download, DownloadFails
  <2> QED
    BY <2>1, <2>2, <2>3, ListingMoved, SameDisk DEF Removing
<1>4. ASSUME NEW t \in Threads, Rename(t)
      PROVE  DiskInv'
  <2> DEFINE v == thread[t].voice
  <2>1. v \in Voices /\ thread[t].pc = "rename" /\ lru' = lru /\ admin' = admin
    BY <1>4, RequestTypes DEF Rename
  <2>2. PICK pc \in {"failed", "renamed"} : thread' = [thread EXCEPT ![t].pc = pc]
    BY <1>4 DEF Rename
  <2>3. Moved(t, pc, thread[t].tmp, thread[t].todo)
    BY <2>1, <2>2, JumpStep DEF Pcs, Flying
  <2>4. \A w \in Voices : w = v => Listing(w)'
    BY <2>3 DEF Moved, Listing
  <2>5. \A w \in Voices \ {v} : disk'[w] = disk[w]
    BY <1>4 DEF Rename, TypeInv, TypeOK
  <2>6. \A w \in Voices : Listing(w) => Listing(w)'
    BY <2>1, <2>3, ListingMoved
  <2>7. ASSUME NEW w \in Voices, IsDir(w)'
        PROVE  w \in Members(lru') \/ Listing(w)' \/ Removing(w)'
    <3>1. CASE w = v
      BY <2>4, <3>1
    <3>2. CASE w # v
      <4>1. IsDir(w)
        BY <2>5, <2>7, <3>2 DEF IsDir
      <4>2. w \in Members(lru) \/ Listing(w) \/ Removing(w)
        BY <4>1 DEF DiskInv
      <4> QED
        BY <2>1, <2>6, <4>2 DEF Removing
    <3> QED
      BY <3>1, <3>2
  <2> QED
    BY <2>7 DEF DiskInv
<1>5. ASSUME NEW t \in Threads, Settle(t)
      PROVE  DiskInv'
  <2> DEFINE v      == thread[t].voice
             listed == thread[t].pc # "not_found" /\ IsDir(v)
             order  == IF listed THEN Touched(lru, v) ELSE lru
             gone   == IF listed THEN Members(order) \ Members(Kept(order, MaxCached)) ELSE {}
  <2>1. /\ v \in Voices
        /\ \A u \in Threads \ {t} : thread'[u].pc = thread[u].pc /\ thread'[u].voice = thread[u].voice
        /\ Fetches(t, v)
    BY <1>5, SettleStep DEF Settle, Fetches, Flying
  <2>2. /\ lru' = IF listed THEN Kept(order, MaxCached) ELSE lru
        /\ disk' = [w \in Voices |-> IF w \in gone THEN Nothing ELSE disk[w]]
        /\ admin' = admin
    BY <1>5 DEF Settle
  <2>3. listed => Members(order) = Members(lru) \cup {v}
    BY <2>1, TouchedProperties DEF TypeInv
  <2>4. \A w \in Voices : (w \in Members(lru) \/ (listed /\ w = v)) /\ w \notin gone => w \in Members(lru')
    BY <2>2, <2>3
  <2>5. \A w \in Voices : IsDir(w)' => IsDir(w) /\ w \notin gone
    BY <2>2 DEF IsDir
  <2>6. \A w \in Voices : Listing(w) => Listing(w)' \/ (w = v /\ thread[t].pc # "not_found")
    <3> SUFFICES ASSUME NEW w \in Voices, Listing(w) PROVE Listing(w)' \/ (w = v /\ thread[t].pc # "not_found")
      OBVIOUS
    <3>1. PICK u \in Threads : thread[u].voice = w /\ thread[u].pc \in {"renamed", "failed"}
      BY DEF Listing
    <3> QED
      BY <2>1, <3>1 DEF Listing
  <2> HIDE DEF gone, order
  <2>7. ASSUME NEW w \in Voices, IsDir(w)'
        PROVE  w \in Members(lru') \/ Listing(w)' \/ Removing(w)'
    <3>1. IsDir(w) /\ w \notin gone
      BY <2>5, <2>7
    <3>2. CASE w \in Members(lru)
      BY <2>4, <3>1, <3>2
    <3>3. CASE Removing(w)
      BY <2>2, <3>3 DEF Removing
    <3>4. CASE Listing(w)
      BY <2>4, <2>6, <3>1, <3>4
    <3> QED
      BY <3>1, <3>2, <3>3, <3>4 DEF DiskInv
  <2> QED
    BY <2>7 DEF DiskInv
<1>6. ASSUME NEW t \in Threads, Reread(t) \/ ReadMeta(t) \/ LoadEngine(t)
      PROVE  DiskInv'
  <2>1. /\ thread[t].pc \in {"reread", "meta", "engine"}
        /\ lru' = lru /\ disk' = disk /\ admin' = admin
    BY <1>6 DEF Reread, ReadMeta, LoadEngine
  <2>2. PICK pc : Moved(t, pc, thread[t].tmp, thread[t].todo)
    <3>1. CASE Reread(t)
      <4>1. PICK pc \in {"meta", "unknown"} : thread' = [thread EXCEPT ![t].pc = pc]
        BY <3>1 DEF Reread
      <4> QED
        BY <2>1, <4>1, JumpStep DEF Pcs, Answered
    <3>2. CASE ReadMeta(t)
      BY <3>2, ReadMetaStep
    <3>3. CASE LoadEngine(t)
      BY <3>3, LoadEngineStep
    <3> QED
      BY <1>6, <3>1, <3>2, <3>3
  <2> QED
    BY <2>1, <2>2, ListingMoved, SameDisk DEF IsDir, Removing
<1>7. ASSUME NEW v \in Voices, AdminPut(v) \/ AdminDelete(v)
      PROVE  DiskInv'
  <2>1. /\ thread' = Disturbed(thread, {v}) /\ lru' = lru /\ disk' = disk
        /\ admin.pc = "idle"
    BY <1>7 DEF AdminPut, AdminDelete
  <2>2. \A w \in Voices : Listing(w) => Listing(w)'
    <3>1. ThreadTypes(thread)
      BY DEF TypeInv, TypeOK, ThreadTypes
    <3>2. \A u \in Threads : thread'[u].pc = thread[u].pc /\ thread'[u].voice = thread[u].voice
      BY <2>1, <3>1, DisturbedStep
    <3> QED
      BY <3>2 DEF Listing
  <2> QED
    BY <2>1, <2>2, SameDisk DEF IsDir, Removing
<1>8. CASE \/ \E f \in Files : PutObject(f)
           \/ DeleteObject \/ HeadFails \/ AdminFails \/ Evict \/ UNCHANGED vars
  <2>1. /\ thread' = thread /\ lru' = lru /\ disk' = disk
        /\ \A v \in Voices : Removing(v) => Removing(v)'
    BY <1>8 DEF PutObject, DeleteObject, HeadFails, AdminFails, Evict, vars, Removing
  <2> QED
    BY <2>1, SameDisk DEF IsDir, Listing
<1>9. CASE PopCached
  <2> DEFINE v == admin.voice
  <2>1. /\ v \in Voices /\ admin.pc = "pop" /\ lru' = Without(lru, v)
        /\ admin' = [pc |-> IF v \in Members(lru) THEN "rmtree" ELSE "evict", voice |-> v, todo |-> {}]
        /\ disk' = disk /\ thread' = thread
    BY <1>9, AdminTypes DEF PopCached, AdminMove
  <2>2. Members(lru') = Members(lru) \ {v}
    BY <2>1, WithoutProperties DEF TypeInv
  <2>3. v \in Members(lru) => Removing(v)'
    BY <2>1 DEF Removing
  <2> QED
    BY <2>1, <2>2, <2>3 DEF DiskInv, IsDir, Listing, Removing
<1>10. CASE RemoveCached
  <2>1. /\ admin.pc = "rmtree" /\ admin.voice \in Voices /\ lru' = lru /\ thread' = thread
        /\ disk' = [disk EXCEPT ![admin.voice] = Nothing]
    BY <1>10, AdminTypes DEF RemoveCached
  <2>2. \A v \in Voices : IsDir(v)' => IsDir(v) /\ v # admin.voice
    BY <2>1 DEF IsDir, TypeInv, TypeOK
  <2>3. \A v \in Voices : Listing(v) => Listing(v)'
    BY <2>1 DEF Listing
  <2> QED
    BY <2>1, <2>2, <2>3 DEF DiskInv, Removing
<1> QED
  BY <1>1, <1>2, <1>3, <1>4, <1>5, <1>6, <1>7, <1>8, <1>9, <1>10 DEF Next

(* Every directory is listed, about to be listed, or about to be removed.  *)
THEOREM DiskAccounted == Spec => []DiskIsListed
<1>1. Init => DiskInv
  <2> SUFFICES ASSUME Init PROVE DiskInv
    OBVIOUS
  <2>1. \A v \in Voices : ~ IsDir(v)
    BY DEF Init, IsDir
  <2> QED
    BY <2>1 DEF DiskInv
<1>2. Init => SingleFlight
  BY OneFetchInit
<1>3. DiskInv /\ SingleFlight => DiskIsListed
  BY DiskInvListed
<1> QED
  BY <1>1, <1>2, <1>3, TypeInit, TypeStep, FlightStep, DiskStep, PTL DEF Spec

-----------------------------------------------------------------------------
(* What is cached, loaded or being fetched is what the bucket holds.       *)

(* From the moment a PUT or DELETE has taken the cache entry away, with no *)
(* fetch in progress, the bucket's objects stay as they are.               *)
Replacing(v) == admin.voice = v /\ admin.pc \in {"put", "delete", "pop"}
Steady(v)    == ~ Replacing(v) /\ ~ doubt[v]

AdminIdle == admin.pc = "idle" => admin.voice = "no voice"

FetchInv ==
  \A t \in Threads : \A v \in Voices :
    Steady(v) /\ thread[t].voice = v /\ thread[t].pc \in {"download", "replace", "rename"} =>
      /\ \A f \in Files \ thread[t].todo : thread[t].tmp[f] = bucket[v][f]
      /\ thread[t].pc # "download" => thread[t].todo = {}

DiskCurrent ==
  \A v \in Voices : Steady(v) /\ IsDir(v) /\ ~ Removing(v) => disk[v] = bucket[v]

EngineCurrent ==
  \A v \in Voices : Settled(v) /\ v \in Members(engineOrder) => engines[v] = bucket[v]

Current == AdminIdle /\ FetchInv /\ DiskCurrent /\ EngineCurrent

(* The inductive form implies the stated one.                              *)
LEMMA CurrentIsCoherent ==
  ASSUME Current
  PROVE  CacheCoherent
<1>1. \A v \in Voices : Settled(v) => Steady(v) /\ ~ Removing(v)
  BY DEF Settled, Steady, Replacing, Removing
<1> QED
  BY <1>1 DEF Current, DiskCurrent, EngineCurrent, CacheCoherent, Cached

(* Steps of the threads leave the bucket and the operation alone.          *)
LEMMA SteadyKept ==
  ASSUME admin' = admin, doubt' = doubt
  PROVE  \A v \in Voices : /\ Steady(v)' <=> Steady(v)
                           /\ Settled(v)' <=> Settled(v)
                           /\ Removing(v)' <=> Removing(v)
  BY DEF Steady, Settled, Removing, Replacing

(* A thread that is not fetching, or whose fetch is where it was.          *)
LEMMA FetchKept ==
  ASSUME FetchInv, admin' = admin, doubt' = doubt, bucket' = bucket,
         \A t \in Threads :
           \/ thread'[t].pc \notin {"download", "replace", "rename"}
           \/ /\ thread'[t].voice = thread[t].voice /\ thread'[t].pc = thread[t].pc
              /\ thread'[t].tmp = thread[t].tmp /\ thread'[t].todo = thread[t].todo
  PROVE  FetchInv'
  BY SteadyKept DEF FetchInv

(* A lookup changes no content, and a fetch starts with everything to do.  *)
LEMMA LookupCurrent ==
  ASSUME TypeInv, Current, NEW t \in Threads, NEW v \in Voices, NEW request \in Requests,
         request.voice = v, Lookup(t, v, request)
  PROVE  Current'
<1>1. /\ bucket' = bucket /\ disk' = disk /\ engines' = engines /\ engineOrder' = engineOrder
      /\ admin' = admin /\ doubt' = doubt
  BY DEF Lookup
<1>2. /\ \A u \in Threads \ {t} : thread'[u] = thread[u]
      /\ thread'[t].voice = v
      /\ thread'[t].pc = "download" => thread'[t].todo = Files
      /\ thread'[t].pc \in {"meta", "wait", "download"}
  BY LookupStep
<1>3. FetchInv'
  BY <1>1, <1>2, SteadyKept DEF FetchInv, Current
<1> QED
  BY <1>1, <1>3, SteadyKept DEF Current, AdminIdle, DiskCurrent, EngineCurrent, IsDir

(* Every step keeps what is steady equal to the bucket, one step per       *)
(* action.                                                                 *)
LEMMA CurrentStep == TypeInv /\ SingleFlight /\ DiskInv /\ Current /\ [Next]_vars => Current'
<1> SUFFICES ASSUME TypeInv, SingleFlight, DiskInv, Current, [Next]_vars PROVE Current'
  OBVIOUS
<1>1. ASSUME NEW t \in Threads, NEW v \in Voices, Get(t, v)
      PROVE  Current'
  BY <1>1, NewRequestType, LookupCurrent DEF Get
<1>2. ASSUME NEW t \in Threads, Wake(t)
      PROVE  Current'
  BY <1>2, RequestTypes, LookupCurrent DEF Wake
<1>3. ASSUME NEW t \in Threads, Download(t)
      PROVE  Current'
  <2> DEFINE v    == thread[t].voice
             f    == FirstOf(thread[t].todo)
             pc   == IF bucket[v][f] = 0
                       THEN IF f = "model.onnx" THEN "not_found" ELSE "failed"
                       ELSE IF thread[t].todo = {f} THEN "replace" ELSE "download"
  <2>1. /\ v \in Voices /\ f \in Files /\ thread[t].pc = "download"
        /\ thread[t].tmp \in Contents
        /\ \A u \in Threads \ {t} : thread'[u] = thread[u]
        /\ thread'[t].voice = v
        /\ thread'[t].tmp = [thread[t].tmp EXCEPT ![f] = bucket[v][f]]
        /\ thread'[t].todo = thread[t].todo \ {f}
        /\ thread'[t].pc \in {"not_found", "failed", "replace", "download"}
        /\ thread'[t].pc = "replace" => thread[t].todo = {f}
    <3>1. /\ v \in Voices /\ f \in Files
          /\ Moved(t, pc, [thread[t].tmp EXCEPT ![f] = bucket[v][f]], thread[t].todo \ {f})
      BY <1>3, DownloadStep
    <3>2. thread[t].pc = "download" /\ thread[t].tmp \in Contents
      BY <1>3, RequestTypes DEF Download
    <3>3. /\ pc \in {"not_found", "failed", "replace", "download"}
          /\ pc = "replace" => thread[t].todo = {f}
      OBVIOUS
    <3> HIDE DEF pc, f
    <3> QED
      BY <3>1, <3>2, <3>3 DEF Moved
  <2>2. /\ bucket' = bucket /\ disk' = disk /\ engines' = engines /\ engineOrder' = engineOrder
        /\ admin' = admin /\ doubt' = doubt
    BY <1>3 DEF Download
  <2> HIDE DEF f, pc
  <2>3. ASSUME Steady(v), thread'[t].pc \in {"download", "replace", "rename"}
        PROVE  /\ \A g \in Files \ thread'[t].todo : thread'[t].tmp[g] = bucket[v][g]
               /\ thread'[t].pc # "download" => thread'[t].todo = {}
    <3>1. \A g \in Files \ thread[t].todo : thread[t].tmp[g] = bucket[v][g]
      BY <2>1, <2>3 DEF Current, FetchInv
    <3>2. \A g \in Files \ thread'[t].todo : thread'[t].tmp[g] = bucket[v][g]
      BY <2>1, <3>1 DEF Contents
    <3> QED
      BY <2>1, <2>3, <3>2
  <2>4. FetchInv'
    <3> SUFFICES ASSUME NEW u \in Threads, NEW w \in Voices, Steady(w), thread'[u].voice = w,
                        thread'[u].pc \in {"download", "replace", "rename"}
                 PROVE  /\ \A g \in Files \ thread'[u].todo : thread'[u].tmp[g] = bucket[w][g]
                        /\ thread'[u].pc # "download" => thread'[u].todo = {}
      BY <2>2, SteadyKept DEF FetchInv
    <3>1. CASE u = t
      BY <2>1, <2>3, <3>1
    <3>2. CASE u # t
      BY <2>1, <3>2 DEF Current, FetchInv
    <3> QED
      BY <3>1, <3>2
  <2> QED
    BY <2>2, <2>4, SteadyKept DEF Current, AdminIdle, DiskCurrent, EngineCurrent, IsDir
<1>4. ASSUME NEW t \in Threads, DownloadFails(t)
      PROVE  Current'
  <2>1. Moved(t, "failed", thread[t].tmp, thread[t].todo)
    BY <1>4, JumpStep DEF DownloadFails, Pcs, Flying
  <2>2. /\ bucket' = bucket /\ disk' = disk /\ engines' = engines /\ engineOrder' = engineOrder
        /\ admin' = admin /\ doubt' = doubt
    BY <1>4 DEF DownloadFails
  <2>3. FetchInv'
    BY <2>1, <2>2, FetchKept DEF Moved, Current
  <2> QED
    BY <2>2, <2>3, SteadyKept DEF Current, AdminIdle, DiskCurrent, EngineCurrent, IsDir
<1>5. ASSUME NEW t \in Threads, RemoveOld(t)
      PROVE  Current'
  <2>1. Moved(t, "rename", thread[t].tmp, thread[t].todo) /\ thread[t].pc = "replace"
    BY <1>5, JumpStep DEF RemoveOld, Pcs, Flying
  <2>2. /\ bucket' = bucket /\ engines' = engines /\ engineOrder' = engineOrder
        /\ admin' = admin /\ doubt' = doubt
    BY <1>5 DEF RemoveOld
  <2>3. FetchInv'
    BY <2>1, <2>2, SteadyKept DEF FetchInv, Moved, Current
  <2>4. \A w \in Voices : IsDir(w)' => IsDir(w) /\ disk'[w] = disk[w]
    BY <1>5 DEF RemoveOld, IsDir, TypeInv, TypeOK
  <2> QED
    BY <2>2, <2>3, <2>4, SteadyKept DEF Current, AdminIdle, DiskCurrent, EngineCurrent
<1>6. ASSUME NEW t \in Threads, Rename(t)
      PROVE  Current'
  <2> DEFINE v == thread[t].voice
  <2>1. v \in Voices /\ thread[t].pc = "rename" /\ thread[t].tmp \in Contents
    BY <1>6, RequestTypes DEF Rename
  <2>2. /\ bucket' = bucket /\ engines' = engines /\ engineOrder' = engineOrder
        /\ admin' = admin /\ doubt' = doubt
        /\ disk' = IF IsDir(v) THEN disk ELSE [disk EXCEPT ![v] = thread[t].tmp]
    BY <1>6 DEF Rename
  <2>3. PICK pc \in {"failed", "renamed"} : thread' = [thread EXCEPT ![t].pc = pc]
    BY <1>6 DEF Rename
  <2>4. Moved(t, pc, thread[t].tmp, thread[t].todo)
    BY <2>1, <2>3, JumpStep DEF Pcs, Flying
  <2>5. FetchInv'
    BY <2>2, <2>4, FetchKept DEF Moved, Current
  <2>6. Steady(v) => thread[t].tmp = bucket[v]
    <3>1. Steady(v) => \A f \in Files : thread[t].tmp[f] = bucket[v][f]
      BY <2>1 DEF Current, FetchInv
    <3>2. bucket[v] \in Contents
      BY <2>1 DEF TypeInv, TypeOK
    <3> QED
      BY <2>1, <3>1, <3>2 DEF Contents
  <2>7. \A w \in Voices : disk'[w] = disk[w] \/ (w = v /\ disk'[w] = thread[t].tmp)
    BY <2>2 DEF TypeInv, TypeOK
  <2>8. DiskCurrent'
    <3> SUFFICES ASSUME NEW w \in Voices, Steady(w), IsDir(w)', ~ Removing(w)
                 PROVE  disk'[w] = bucket[w]
      BY <2>2, SteadyKept DEF DiskCurrent
    <3>1. CASE disk'[w] = disk[w]
      BY <3>1 DEF IsDir, Current, DiskCurrent
    <3>2. CASE w = v /\ disk'[w] = thread[t].tmp
      BY <2>6, <3>2
    <3> QED
      BY <2>7, <3>1, <3>2
  <2> QED
    BY <2>2, <2>5, <2>8, SteadyKept DEF Current, AdminIdle, EngineCurrent
<1>7. ASSUME NEW t \in Threads, Settle(t)
      PROVE  Current'
  <2>1. /\ bucket' = bucket /\ engines' = engines /\ engineOrder' = engineOrder
        /\ admin' = admin /\ doubt' = doubt
    BY <1>7 DEF Settle
  <2>2. FetchInv'
    BY <1>7, <2>1, SettleStep, FetchKept DEF Current
  <2>3. PICK gone : disk' = [w \in Voices |-> IF w \in gone THEN Nothing ELSE disk[w]]
    BY <1>7 DEF Settle
  <2>4. \A w \in Voices : IsDir(w)' => IsDir(w) /\ disk'[w] = disk[w]
    BY <2>3 DEF IsDir
  <2> QED
    BY <2>1, <2>2, <2>4, SteadyKept DEF Current, AdminIdle, DiskCurrent, EngineCurrent
<1>8. ASSUME NEW t \in Threads, Reread(t) \/ ReadMeta(t)
      PROVE  Current'
  <2>1. /\ thread[t].pc \in {"reread", "meta"}
        /\ bucket' = bucket /\ disk' = disk /\ engines' = engines /\ engineOrder' = engineOrder
        /\ admin' = admin /\ doubt' = doubt
    BY <1>8 DEF Reread, ReadMeta
  <2>2. PICK pc \in {"meta", "engine", "unknown"} : Moved(t, pc, thread[t].tmp, thread[t].todo)
    <3>1. CASE Reread(t)
      <4>1. PICK pc \in {"meta", "unknown"} : thread' = [thread EXCEPT ![t].pc = pc]
        BY <3>1 DEF Reread
      <4> QED
        BY <2>1, <4>1, JumpStep DEF Pcs, Answered
    <3>2. CASE ReadMeta(t)
      BY <3>2, ReadMetaStep
    <3> QED
      BY <1>8, <3>1, <3>2
  <2>3. FetchInv'
    BY <2>1, <2>2, FetchKept DEF Moved, Current
  <2> QED
    BY <2>1, <2>3, SteadyKept DEF Current, AdminIdle, DiskCurrent, EngineCurrent, IsDir
<1>9. ASSUME NEW t \in Threads, LoadEngine(t)
      PROVE  Current'
  <2> DEFINE v      == thread[t].voice
             engine == IF v \in Members(engineOrder) THEN engines[v] ELSE disk[v]
  <2>1. /\ bucket' = bucket /\ disk' = disk /\ admin' = admin /\ doubt' = doubt
    BY <1>9 DEF LoadEngine
  <2>2. /\ v \in Voices
        /\ \E pc \in {"error", "served"} : Moved(t, pc, thread[t].tmp, thread[t].todo)
        /\ \/ UNCHANGED <<engines, engineOrder>>
           \/ /\ v \in Members(engineOrder) \/ IsDir(v)
              /\ engineOrder' = Kept(Touched(engineOrder, v), MaxEngines)
              /\ engines' = [w \in Voices |-> IF w \notin Members(engineOrder') THEN Nothing
                                              ELSE IF w = v THEN engine ELSE engines[w]]
    BY <1>9, LoadEngineStep
  <2>3. FetchInv'
    BY <2>1, <2>2, FetchKept DEF Moved, Current
  <2>4. CASE UNCHANGED <<engines, engineOrder>>
    BY <2>1, <2>3, <2>4, SteadyKept DEF Current, AdminIdle, DiskCurrent, EngineCurrent, IsDir
  <2>5. CASE /\ v \in Members(engineOrder) \/ IsDir(v)
             /\ engineOrder' = Kept(Touched(engineOrder, v), MaxEngines)
             /\ engines' = [w \in Voices |-> IF w \notin Members(engineOrder') THEN Nothing
                                             ELSE IF w = v THEN engine ELSE engines[w]]
    <3>1. Members(engineOrder') \subseteq Members(engineOrder) \cup {v}
      <4>1. engineOrder \in Orders
        BY DEF TypeInv
      <4>2. /\ Touched(engineOrder, v) \in Orders
            /\ Members(Touched(engineOrder, v)) = Members(engineOrder) \cup {v}
        BY <2>2, <4>1, TouchedProperties
      <4> QED
        BY <2>5, <4>2, SizesAreNumbers, KeptProperties
    <3>2. Settled(v) => engine = bucket[v]
      <4>1. Settled(v) => Steady(v) /\ ~ Removing(v)
        BY DEF Settled, Steady, Replacing, Removing
      <4> QED
        BY <2>2, <2>5, <4>1 DEF Current, DiskCurrent, EngineCurrent
    <3> HIDE DEF engine
    <3>3. EngineCurrent'
      <4> SUFFICES ASSUME NEW w \in Voices, Settled(w), w \in Members(engineOrder')
                   PROVE  engines'[w] = bucket[w]
        BY <2>1, SteadyKept DEF EngineCurrent
      <4>1. CASE w = v
        BY <2>5, <3>2, <4>1
      <4>2. CASE w # v
        BY <2>5, <3>1, <4>2 DEF Current, EngineCurrent
      <4> QED
        BY <4>1, <4>2
    <3> QED
      BY <2>1, <2>3, <3>3, SteadyKept DEF Current, AdminIdle, DiskCurrent, IsDir
  <2> QED
    BY <2>2, <2>4, <2>5
<1>10. ASSUME NEW v \in Voices, AdminPut(v) \/ AdminDelete(v)
       PROVE  Current'
  <2>1. /\ thread' = Disturbed(thread, {v}) /\ bucket' = bucket /\ disk' = disk
        /\ engines' = engines /\ engineOrder' = engineOrder /\ doubt' = doubt
        /\ admin.pc = "idle" /\ admin'.voice = v /\ admin'.pc \in {"put", "delete"}
    BY <1>10 DEF AdminPut, AdminDelete, AdminMove
  <2>2. \A w \in Voices : /\ Steady(w)' => Steady(w) /\ w # v
                          /\ Settled(w)' => Settled(w)
                          /\ ~ Removing(w)
    <3>1. admin.voice = "no voice"
      BY <2>1 DEF Current, AdminIdle
    <3>2. "no voice" \notin Voices
      BY CacheAssumption
    <3> QED
      BY <2>1, <3>1, <3>2 DEF Steady, Settled, Replacing, Removing
  <2>3. FetchInv'
    <3>1. \A t \in Threads :
            /\ thread'[t].pc = thread[t].pc /\ thread'[t].voice = thread[t].voice
            /\ thread'[t].tmp = thread[t].tmp /\ thread'[t].todo = thread[t].todo
      BY <2>1, DisturbedStep DEF TypeInv, TypeOK, ThreadTypes
    <3> QED
      BY <2>1, <2>2, <3>1 DEF FetchInv, Current
  <2> QED
    BY <2>1, <2>2, <2>3 DEF Current, AdminIdle, DiskCurrent, EngineCurrent, IsDir
<1>11. CASE (\E f \in Files : PutObject(f)) \/ DeleteObject \/ HeadFails
  <2> DEFINE v == admin.voice
  <2>1. /\ admin.pc \in {"put", "delete"}
        /\ admin'.voice = v /\ admin'.pc \in {"put", "delete", "pop"}
        /\ \A w \in Voices \ {v} : bucket'[w] = bucket[w]
        /\ UNCHANGED <<thread, disk, engines, engineOrder, doubt>>
    <3>1. ASSUME NEW f \in Files, PutObject(f)
          PROVE  /\ admin.pc \in {"put", "delete"}
                 /\ admin'.voice = v /\ admin'.pc \in {"put", "delete", "pop"}
                 /\ \A w \in Voices \ {v} : bucket'[w] = bucket[w]
                 /\ UNCHANGED <<thread, disk, engines, engineOrder, doubt>>
      <4> DEFINE pc == IF admin.todo = {f} THEN "pop" ELSE "put"
      <4>1. pc \in {"put", "delete", "pop"}
        OBVIOUS
      <4>2. /\ admin.pc = "put"
            /\ admin' = [pc |-> pc, voice |-> v, todo |-> admin.todo \ {f}]
            /\ bucket' = [bucket EXCEPT ![v][f] = published]
            /\ UNCHANGED <<thread, disk, engines, engineOrder, doubt>>
        BY <3>1 DEF PutObject, AdminMove
      <4> HIDE DEF pc
      <4> QED
        BY <4>1, <4>2 DEF TypeInv, TypeOK
    <3>2. CASE DeleteObject
      <4> DEFINE f  == FirstOf(admin.todo)
                 pc == IF admin.todo = {f} THEN "pop" ELSE "delete"
      <4>1. pc \in {"put", "delete", "pop"} /\ f \in Files
        BY DEF FirstOf, Files
      <4>2. /\ admin.pc = "delete"
            /\ admin' = [pc |-> pc, voice |-> v, todo |-> admin.todo \ {f}]
            /\ bucket' = [bucket EXCEPT ![v][f] = 0]
            /\ UNCHANGED <<thread, disk, engines, engineOrder, doubt>>
        BY <3>2 DEF DeleteObject, AdminMove
      <4> HIDE DEF f, pc
      <4> QED
        BY <4>1, <4>2 DEF TypeInv, TypeOK
    <3>3. CASE HeadFails
      <4> DEFINE f  == FirstOf(admin.todo)
                 pc == IF admin.todo = {f} THEN "pop" ELSE "delete"
      <4>1. pc \in {"put", "delete", "pop"}
        OBVIOUS
      <4>2. /\ admin.pc = "delete"
            /\ admin' = [pc |-> pc, voice |-> v, todo |-> admin.todo \ {f}]
            /\ UNCHANGED <<bucket, thread, disk, engines, engineOrder, doubt>>
        BY <3>3 DEF HeadFails, AdminMove
      <4> HIDE DEF f, pc
      <4> QED
        BY <4>1, <4>2
    <3> QED
      BY <1>11, <3>1, <3>2, <3>3
  <2>2. /\ thread' = thread /\ disk' = disk /\ engines' = engines /\ engineOrder' = engineOrder
        /\ doubt' = doubt /\ v \in Voices /\ admin.pc \in {"put", "delete"}
        /\ admin'.voice = v /\ admin'.pc \in {"put", "delete", "pop"}
        /\ \A w \in Voices \ {v} : bucket'[w] = bucket[w]
    BY <2>1, AdminTypes DEF TypeInv, TypeOK
  <2>3. \A w \in Voices : /\ Steady(w)' => Steady(w) /\ w # v
                          /\ Settled(w)' => Settled(w) /\ w # v
                          /\ ~ Removing(w)
    BY <2>2 DEF Steady, Settled, Replacing, Removing
  <2>4. FetchInv'
    BY <2>2, <2>3 DEF FetchInv, Current
  <2>5. DiskCurrent'
    BY <2>2, <2>3 DEF DiskCurrent, Current, IsDir
  <2>6. EngineCurrent'
    BY <2>2, <2>3 DEF EngineCurrent, Current
  <2> QED
    BY <2>2, <2>4, <2>5, <2>6 DEF Current, AdminIdle
<1>12. CASE AdminFails
  <2> DEFINE v == admin.voice
  <2>1. /\ thread' = thread /\ disk' = disk /\ engines' = engines /\ engineOrder' = engineOrder
        /\ bucket' = bucket /\ v \in Voices /\ admin.pc \in {"put", "delete"}
        /\ doubt' = [doubt EXCEPT ![v] = TRUE] /\ admin' = NoOperation
    BY <1>12, AdminTypes DEF AdminFails
  <2>2. \A w \in Voices : /\ Steady(w)' => Steady(w)
                          /\ Settled(w)' => Settled(w)
                          /\ ~ Removing(w)
    BY <2>1 DEF Steady, Settled, Replacing, Removing, NoOperation, TypeInv, TypeOK
  <2>3. FetchInv'
    BY <2>1, <2>2 DEF FetchInv, Current
  <2>4. AdminIdle'
    BY <2>1 DEF AdminIdle, NoOperation
  <2> QED
    BY <2>1, <2>2, <2>3, <2>4 DEF Current, DiskCurrent, EngineCurrent, IsDir
<1>13. CASE PopCached
  <2> DEFINE v == admin.voice
  <2>1. /\ thread' = thread /\ disk' = disk /\ engines' = engines /\ engineOrder' = engineOrder
        /\ bucket' = bucket /\ v \in Voices /\ admin.pc = "pop"
        /\ doubt' = [doubt EXCEPT ![v] = v \in fetching]
        /\ admin' = [pc |-> IF v \in Members(lru) THEN "rmtree" ELSE "evict", voice |-> v, todo |-> {}]
    BY <1>13, AdminTypes DEF PopCached, AdminMove
  <2>2. \A w \in Voices \ {v} : /\ Steady(w)' <=> Steady(w)
                                /\ Settled(w)' <=> Settled(w)
    BY <2>1 DEF Steady, Settled, Replacing, TypeInv, TypeOK
  <2>3. \A w \in Voices : ~ Removing(w)
    BY <2>1 DEF Removing
  <2>5. \A w \in Voices :
          /\ Steady(w)' => Steady(w) \/ w \notin fetching
          /\ Settled(w)' => Settled(w)
          /\ Steady(w)' /\ IsDir(w) /\ ~ Removing(w)' => Steady(w)
    <3> SUFFICES ASSUME NEW w \in Voices
                 PROVE  /\ Steady(w)' => Steady(w) \/ w \notin fetching
                        /\ Settled(w)' => Settled(w)
                        /\ Steady(w)' /\ IsDir(w) /\ ~ Removing(w)' => Steady(w)
      OBVIOUS
    <3>1. CASE w \in Voices \ {v}
      BY <2>2, <3>1
    <3>2. CASE w = v
      <4>1. ~ Settled(w)' /\ (Steady(w)' => w \notin fetching)
        BY <2>1, <3>2 DEF Steady, Settled, TypeInv, TypeOK
      <4>2. w \in Members(lru) => Removing(w)'
        BY <2>1, <3>2 DEF Removing
      <4>3. Listing(w) => w \in fetching
        BY DEF Listing, SingleFlight, Fetches, Flying
      <4> QED
        BY <2>3, <4>1, <4>2, <4>3 DEF DiskInv
    <3> QED
      BY <3>1, <3>2
  <2> HIDE DEF v
  <2>6. FetchInv'
    <3>1. \A t \in Threads, w \in Voices :
            thread[t].voice = w /\ thread[t].pc \in {"download", "replace", "rename"} => w \in fetching
      BY DEF SingleFlight, Fetches, Flying
    <3> QED
      BY <2>1, <2>5, <3>1 DEF Current, FetchInv
  <2>7. DiskCurrent' /\ EngineCurrent'
    BY <2>1, <2>3, <2>5 DEF Current, DiskCurrent, EngineCurrent, IsDir
  <2>8. AdminIdle'
    BY <2>1 DEF AdminIdle
  <2> QED
    BY <2>6, <2>7, <2>8 DEF Current
<1>14. CASE RemoveCached
  <2> DEFINE v == admin.voice
  <2>1. /\ thread' = thread /\ engines' = engines /\ engineOrder' = engineOrder
        /\ bucket' = bucket /\ doubt' = doubt /\ v \in Voices /\ admin.pc = "rmtree"
        /\ disk' = [disk EXCEPT ![v] = Nothing]
        /\ admin'.voice = v /\ admin'.pc = "evict"
    BY <1>14, AdminTypes DEF RemoveCached, AdminMove
  <2>2. \A w \in Voices : /\ Steady(w)' <=> Steady(w)
                          /\ Settled(w)' <=> Settled(w)
                          /\ Removing(w) => w = v
    BY <2>1 DEF Steady, Settled, Replacing, Removing
  <2>3. \A w \in Voices : IsDir(w)' => IsDir(w) /\ disk'[w] = disk[w] /\ w # v
    BY <2>1 DEF IsDir, TypeInv, TypeOK
  <2>4. FetchInv'
    BY <2>1, <2>2 DEF FetchInv, Current
  <2>5. DiskCurrent'
    BY <2>1, <2>2, <2>3 DEF DiskCurrent, Current
  <2> QED
    BY <2>1, <2>2, <2>4, <2>5 DEF Current, AdminIdle, EngineCurrent
<1>15. CASE Evict
  <2> DEFINE v == admin.voice
  <2>1. /\ thread' = thread /\ disk' = disk /\ bucket' = bucket /\ doubt' = doubt
        /\ v \in Voices /\ admin.pc = "evict" /\ admin' = NoOperation
        /\ engineOrder' = Without(engineOrder, v)
        /\ engines' = [engines EXCEPT ![v] = Nothing]
    BY <1>15, AdminTypes DEF Evict
  <2>2. \A w \in Voices : /\ Steady(w)' <=> Steady(w)
                          /\ Settled(w)' => Settled(w) \/ w = v
                          /\ ~ Removing(w)
    BY <2>1 DEF Steady, Settled, Replacing, Removing, NoOperation
  <2>3. Members(engineOrder') = Members(engineOrder) \ {v}
    BY <2>1, WithoutProperties DEF TypeInv
  <2>4. EngineCurrent'
    BY <2>1, <2>2, <2>3 DEF Current, EngineCurrent, TypeInv, TypeOK
  <2>5. FetchInv'
    BY <2>1, <2>2 DEF FetchInv, Current
  <2>6. DiskCurrent' /\ AdminIdle'
    BY <2>1, <2>2 DEF DiskCurrent, AdminIdle, Current, IsDir, NoOperation
  <2> QED
    BY <2>4, <2>5, <2>6 DEF Current
<1>16. CASE UNCHANGED vars
  BY <1>16 DEF vars, Current, AdminIdle, FetchInv, DiskCurrent, EngineCurrent, Steady, Settled,
              Replacing, Removing, IsDir
<1> QED
  BY <1>1, <1>2, <1>3, <1>4, <1>5, <1>6, <1>7, <1>8, <1>9, <1>10, <1>11, <1>12,
     <1>13, <1>14, <1>15, <1>16 DEF Next

LEMMA CurrentInit == Init => DiskInv /\ Current
<1> SUFFICES ASSUME Init PROVE DiskInv /\ Current
  OBVIOUS
<1>1. (\A v \in Voices : ~ IsDir(v)) /\ engineOrder = <<>>
  BY DEF Init, IsDir
<1>2. \A t \in Threads : thread[t].pc = "idle"
  BY DEF Init, NoRequest
<1>3. Members(engineOrder) = {}
  <2>1. \A i \in DOMAIN <<>> : FALSE
    OBVIOUS
  <2> QED
    BY <1>1, <2>1 DEF Members, ToSet
<1>4. AdminIdle
  BY DEF Init, AdminIdle, NoOperation
<1> QED
  BY <1>1, <1>2, <1>3, <1>4 DEF DiskInv, Current, FetchInv, DiskCurrent, EngineCurrent

(* Once a PUT or DELETE has answered, the machine's caches hold what the   *)
(* bucket holds, but for a fetch it overtook or a storage call that raised.*)
THEOREM CachesCoherent == Spec => []CacheCoherent
<1>1. Current => CacheCoherent
  BY CurrentIsCoherent
<1> QED
  BY <1>1, CurrentInit, OneFetchInit, TypeInit, TypeStep, FlightStep, DiskStep, CurrentStep, PTL DEF Spec

-----------------------------------------------------------------------------
(* What a request that nothing interferes with is told.                    *)

(* A voice in the bucket is whole or not there at all, but for a PUT or    *)
(* DELETE that is at it, that raised, or that took an error for an absence.*)
AllOrNone(b) == (\A f \in Files : b[f] # 0) \/ (\A f \in Files : b[f] = 0)

BucketWhole ==
  failures = 0 =>
    \A v \in Voices :
      /\ admin.voice # v /\ ~ doubt[v] => AllOrNone(bucket[v])
      /\ admin.voice = v =>
           /\ admin.pc = "put"    => published > 0 /\ \A f \in Files \ admin.todo : bucket[v][f] # 0
           /\ admin.pc = "delete" => \A f \in Files \ admin.todo : bucket[v][f] = 0
           /\ admin.pc \in {"pop", "rmtree", "evict"} => AllOrNone(bucket[v])

(* Of a disk d and an order l.                                             *)
HasDir(d, v)      == d[v] # Nothing
InCache(d, l, v) == v \in Members(l) /\ HasDir(d, v)

(* A request r that fetches: its voice is not in the cache before the      *)
(* directory is renamed, and what was fetched so far was there.            *)
FetchOK(r, d, l) ==
  r.pc \in {"download", "replace", "rename"} =>
    /\ ~ InCache(d, l, r.voice)
    /\ \A f \in Files \ r.todo : r.tmp[f] # 0
    /\ r.pc # "download" => r.todo = {}
    /\ r.pc = "rename" => ~ HasDir(d, r.voice)

FetchReady == \A t \in Threads : FetchOK(thread[t], disk, lru)

(* A request r of a voice whose objects are b; sure: nothing failed that   *)
(* could have left the bucket, or the cache, with half of a voice.         *)
CalmOK(r, b, d, l, sure, failing) ==
  /\ r.pc = "renamed" => HasDir(d, r.voice)
  /\ r.pc \in {"reread", "meta", "engine"} => InCache(d, l, r.voice)
  /\ r.pc \in {"not_found", "unknown"} => b["model.onnx"] = 0
  /\ sure =>
       /\ r.pc \in {"failed", "error"} => failing
       /\ r.pc \in {"engine", "served"} => r.meta = b["owner.json"]
       /\ r.pc = "served" => r.engine = b

Calm(t) ==
  LET v == thread[t].voice IN
  v \in Voices /\ thread[t].calm =>
    /\ admin.voice # v
    /\ CalmOK(thread[t], bucket[v], disk, lru, ~ doubt[v], failures > 0)

CalmInv == BucketWhole /\ FetchReady /\ \A t \in Threads : Calm(t)


(* The last element of an order is never the one that makes room.          *)
LEMMA MostRecentKept ==
  ASSUME NEW order \in Orders, NEW v \in Voices, NEW max \in Nat \ {0}
  PROVE  v \in Members(Kept(Touched(order, v), max))
<1> DEFINE s == Touched(order, v)
           k == Kept(s, max)
<1>1. Without(order, v) \in Seq(Voices)
  BY WithoutProperties DEF Orders
<1>2. s \in Seq(Voices) /\ Len(s) \in Nat \ {0} /\ s[Len(s)] = v
  BY <1>1 DEF Touched
<1> HIDE DEF s
<1>3. \E i \in DOMAIN k : k[i] = v
  <2>1. CASE Len(s) > max
    <3>1. k = SubSeq(s, Len(s) - max + 1, Len(s))
      BY <2>1 DEF Kept
    <3>2. /\ Len(k) = max /\ \A i \in 1 .. max : k[i] = s[Len(s) - max + i]
      BY <1>2, <2>1, <3>1
    <3>3. k[max] = s[Len(s) - max + max] /\ Len(s) - max + max = Len(s) /\ max \in 1 .. max
      BY <1>2, <3>2
    <3>4. k \in Seq(Voices) /\ max \in DOMAIN k
      BY <1>2, <2>1, <3>1, <3>2
    <3> QED BY <1>2, <3>3, <3>4, <3>2
  <2>2. CASE ~ Len(s) > max
    BY <1>2, <2>2 DEF Kept
  <2> QED BY <2>1, <2>2
<1> QED BY <1>3 DEF Members, ToSet, s

-----------------------------------------------------------------------------
(* What leaves a request of another thread as true as it was.              *)
LEMMA CalmFrame ==
  ASSUME NEW u \in Threads, Calm(u),
         /\ thread'[u].pc = thread[u].pc /\ thread'[u].voice = thread[u].voice
         /\ thread'[u].meta = thread[u].meta /\ thread'[u].engine = thread[u].engine
         /\ thread'[u].calm => thread[u].calm,
         failures > 0 => failures' > 0,
         LET v == thread[u].voice IN
           v \in Voices /\ thread'[u].calm =>
             /\ admin'.voice # v /\ bucket'[v] = bucket[v] /\ (doubt'[v] <=> doubt[v])
             /\ thread[u].pc = "renamed" /\ HasDir(disk, v) => HasDir(disk', v)
             /\ thread[u].pc \in {"reread", "meta", "engine"} /\ InCache(disk, lru, v)
                  => InCache(disk', lru', v)
  PROVE  Calm(u)'
<1> DEFINE v == thread[u].voice
<1>1. thread'[u].voice = v
  OBVIOUS
<1> SUFFICES ASSUME v \in Voices, thread'[u].calm
             PROVE  /\ admin'.voice # v
                    /\ CalmOK(thread'[u], bucket'[v], disk', lru', ~ doubt'[v], failures' > 0)
  BY <1>1 DEF Calm
<1>2. CalmOK(thread[u], bucket[v], disk, lru, ~ doubt[v], failures > 0)
  BY DEF Calm
<1>3. /\ admin'.voice # v /\ bucket'[v] = bucket[v] /\ (doubt'[v] <=> doubt[v])
      /\ thread[u].pc = "renamed" /\ HasDir(disk, v) => HasDir(disk', v)
      /\ thread[u].pc \in {"reread", "meta", "engine"} /\ InCache(disk, lru, v)
           => InCache(disk', lru', v)
  OBVIOUS
<1> QED BY <1>1, <1>2, <1>3 DEF CalmOK


LEMMA BucketKept ==
  ASSUME BucketWhole, admin' = admin, bucket' = bucket, doubt' = doubt, published' = published,
         failures' = 0 => failures = 0
  PROVE  BucketWhole'
BY DEF BucketWhole

LEMMA FailuresCount == TypeInv => failures \in Nat /\ (failures + 1 > 0) /\ published \in Nat
<1> SUFFICES ASSUME TypeInv PROVE failures \in Nat /\ published \in Nat
  OBVIOUS
<1>1. failures \in 0 .. MaxFailures /\ published \in 0 .. MaxPublications
  BY DEF TypeInv, TypeOK, Publications
<1>2. MaxFailures \in Nat /\ MaxPublications \in Nat
  BY CacheAssumption
<1> QED BY <1>1, <1>2

(* A lookup moves the voice within the order and nothing else.             *)
LEMMA LookupKeeps ==
  ASSUME TypeInv, NEW t \in Threads, NEW v \in Voices, NEW request \in Requests,
         Lookup(t, v, request)
  PROVE  /\ disk' = disk /\ Members(lru') = Members(lru)
         /\ \A w : InCache(disk', lru', w) <=> InCache(disk, lru, w)
<1>1. disk' = disk /\ lru \in Orders
  BY DEF Lookup, TypeInv
<1>2. Members(lru') = Members(lru)
  <2>1. CASE Cached(v)
    <3>1. lru' = Touched(lru, v) /\ v \in Members(lru)
      BY <2>1 DEF Lookup, Cached
    <3>2. Members(Touched(lru, v)) = Members(lru) \cup {v}
      BY <1>1, TouchedProperties
    <3> QED BY <3>1, <3>2
  <2>2. CASE ~ Cached(v)
    BY <2>2 DEF Lookup
  <2> QED BY <2>1, <2>2
<1> QED BY <1>1, <1>2 DEF InCache

LEMMA LookupCalm ==
  ASSUME TypeInv, CalmInv, NEW t \in Threads, NEW v \in Voices, NEW request \in Requests,
         request.voice = v, request.calm => admin.voice # v, Lookup(t, v, request)
  PROVE  CalmInv'
<1>1. UNCHANGED <<bucket, admin, published, failures, doubt>>
  BY DEF Lookup
<1>2. disk' = disk /\ \A w : InCache(disk', lru', w) <=> InCache(disk, lru, w)
  BY LookupKeeps
<1>3. /\ \A u \in Threads \ {t} : thread'[u] = thread[u]
      /\ thread'[t].voice = v /\ thread'[t].calm = request.calm
      /\ thread'[t].pc = IF Cached(v) THEN "meta" ELSE IF v \in fetching THEN "wait" ELSE "download"
      /\ thread'[t].todo = IF Cached(v) THEN {} ELSE Files
  BY LookupStep
<1>4. BucketWhole'
  BY <1>1, BucketKept DEF CalmInv
<1>5. Cached(v) <=> InCache(disk', lru', v)
  BY <1>2 DEF Cached, InCache, IsDir, HasDir
<1>6. FetchReady'
  <2>1. \A u \in Threads \ {t} : FetchOK(thread'[u], disk', lru')
    BY <1>2, <1>3 DEF CalmInv, FetchReady, FetchOK
  <2>2. FetchOK(thread'[t], disk', lru')
    BY <1>3, <1>5 DEF FetchOK
  <2> QED BY <2>1, <2>2 DEF FetchReady
<1>7. ASSUME NEW u \in Threads PROVE Calm(u)'
  <2>1. CASE u # t
    <3>1. Calm(u) /\ thread'[u] = thread[u]
      BY <1>3, <2>1 DEF CalmInv
    <3> QED BY <1>1, <1>2, <3>1, CalmFrame DEF Calm
  <2>2. CASE u = t
    <3>1. thread'[t].pc \in {"meta", "wait", "download"}
          /\ (thread'[t].pc = "meta" => InCache(disk', lru', v))
      BY <1>3, <1>5
    <3>2. CalmOK(thread'[t], bucket'[v], disk', lru', ~ doubt'[v], failures' > 0)
      BY <1>3, <3>1 DEF CalmOK
    <3> QED BY <1>1, <1>3, <2>2, <3>2 DEF Calm
  <2> QED BY <2>1, <2>2
<1> QED BY <1>4, <1>6, <1>7 DEF CalmInv

(* A step of thread t that moves it, with what it knows of its voice.      *)
LEMMA MovedCalm ==
  ASSUME TypeInv, CalmInv, NEW t \in Threads, NEW pc, NEW tmp, NEW todo, Moved(t, pc, tmp, todo),
         UNCHANGED <<bucket, admin, published, doubt>>, failures' \in {failures, failures + 1},
         \A u \in Threads \ {t} : FetchOK(thread[u], disk', lru'),
         FetchOK(thread'[t], disk', lru'),
         \A u \in Threads \ {t} :
           LET v == thread[u].voice IN
           thread[u].calm /\ v \in Voices =>
             /\ thread[u].pc = "renamed" /\ HasDir(disk, v) => HasDir(disk', v)
             /\ thread[u].pc \in {"reread", "meta", "engine"} /\ InCache(disk, lru, v)
                  => InCache(disk', lru', v),
         LET v == thread[t].voice IN
           thread[t].calm /\ v \in Voices /\ admin.voice # v
             => CalmOK(thread'[t], bucket[v], disk', lru', ~ doubt[v], failures' > 0)
  PROVE  CalmInv'
<1>1. /\ \A u \in Threads \ {t} : thread'[u] = thread[u]
      /\ thread'[t].voice = thread[t].voice /\ thread'[t].calm = thread[t].calm
  BY DEF Moved
<1>2. (failures' = 0 => failures = 0) /\ (failures > 0 => failures' > 0)
  BY FailuresCount
<1>3. FetchReady'
  BY <1>1 DEF FetchReady
<1>4. ASSUME NEW u \in Threads PROVE Calm(u)'
  <2>1. CASE u # t
    <3>1. Calm(u) /\ thread'[u] = thread[u]
      BY <1>1, <2>1 DEF CalmInv
    <3> QED BY <1>2, <2>1, <3>1, CalmFrame DEF Calm
  <2>2. CASE u = t
    <3>1. Calm(t)
      BY DEF CalmInv
    <3> QED BY <1>1, <2>2, <3>1 DEF Calm
  <2> QED BY <2>1, <2>2
<1>5. BucketWhole'
  BY <1>2, BucketKept DEF CalmInv
<1> QED BY <1>3, <1>4, <1>5 DEF CalmInv


(* The steps of the thread that makes a fetch.                             *)
LEMMA DownloadCalm ==
  ASSUME TypeInv, CalmInv, Current, NEW t \in Threads, Download(t) \/ DownloadFails(t)
  PROVE  CalmInv'
<1> DEFINE v == thread[t].voice
<1>1. /\ UNCHANGED <<bucket, disk, lru, admin, published, doubt>>
      /\ failures' \in {failures, failures + 1}
      /\ thread[t].pc = "download"
  BY DEF Download, DownloadFails
<1>2. /\ FetchOK(thread[t], disk, lru) /\ \A u \in Threads \ {t} : FetchOK(thread[u], disk', lru')
      /\ v \in Voices /\ thread[t].tmp \in Contents /\ thread[t].todo \in SUBSET Files
  BY <1>1, RequestTypes DEF CalmInv, FetchReady
<1>3. CASE DownloadFails(t)
  <2>1. Moved(t, "failed", thread[t].tmp, thread[t].todo) /\ failures' > 0
    BY <1>1, <1>3, JumpStep, FailuresCount DEF DownloadFails, Pcs, Flying
  <2>2. thread'[t].pc = "failed" /\ thread'[t].voice = v
    BY <2>1 DEF Moved
  <2>3. FetchOK(thread'[t], disk', lru')
    BY <2>2 DEF FetchOK
  <2>4. CalmOK(thread'[t], bucket[v], disk', lru', ~ doubt[v], failures' > 0)
    BY <2>1, <2>2 DEF CalmOK
  <2> QED BY <1>1, <1>2, <2>1, <2>3, <2>4, MovedCalm
<1>4. CASE Download(t)
  <2> DEFINE f  == FirstOf(thread[t].todo)
             p  == bucket[v][f]
             pc == IF p = 0 THEN IF f = "model.onnx" THEN "not_found" ELSE "failed"
                            ELSE IF thread[t].todo = {f} THEN "replace" ELSE "download"
             tmp  == [thread[t].tmp EXCEPT ![f] = p]
             todo == thread[t].todo \ {f}
  <2>1. f \in Files /\ Moved(t, pc, tmp, todo)
    BY <1>4, DownloadStep
  <2>2. /\ pc \in {"not_found", "failed", "replace", "download"}
        /\ pc = "not_found" => f = "model.onnx" /\ p = 0
        /\ pc = "failed" => f # "model.onnx" /\ p = 0
        /\ pc = "replace" => todo = {}
        /\ pc \in {"replace", "download"} => p # 0
    OBVIOUS
  <2>3. f # "model.onnx" => "model.onnx" \notin thread[t].todo
    BY DEF FirstOf
  <2>4. tmp[f] = p /\ \A g \in Files \ {f} : tmp[g] = thread[t].tmp[g]
    BY <1>2, <2>1 DEF Contents
  <2> HIDE DEF f, p, pc, tmp, todo
  <2>5. thread'[t].pc = pc /\ thread'[t].voice = v /\ thread'[t].tmp = tmp /\ thread'[t].todo = todo
    BY <2>1 DEF Moved
  <2>6. FetchOK(thread'[t], disk', lru')
    <3>1. ~ InCache(disk, lru, v) /\ \A g \in Files \ thread[t].todo : thread[t].tmp[g] # 0
      BY <1>1, <1>2 DEF FetchOK
    <3>2. \A g \in Files \ todo : g = f \/ g \in Files \ thread[t].todo
      BY DEF todo
    <3>3. p # 0 => \A g \in Files \ todo : tmp[g] # 0
      BY <2>4, <3>1, <3>2
    <3> QED BY <1>1, <2>2, <2>5, <3>1, <3>3 DEF FetchOK
  <2>7. ASSUME admin.voice # v, pc = "failed", ~ doubt[v] PROVE failures' > 0
    <3>1. SUFFICES ASSUME failures = 0 PROVE FALSE
      BY <1>4, FailuresCount DEF Download
    <3>2. AllOrNone(bucket[v])
      BY <1>2, <2>7, <3>1 DEF CalmInv, BucketWhole
    <3>3. p = 0 /\ f # "model.onnx"
      BY <2>2, <2>7
    <3>4. "model.onnx" \in Files \ thread[t].todo
      BY <2>3, <3>3 DEF Files
    <3>5. thread[t].tmp["model.onnx"] = bucket[v]["model.onnx"]
      BY <1>1, <1>2, <2>7, <3>4 DEF Current, FetchInv, Steady, Replacing
    <3>6. thread[t].tmp["model.onnx"] # 0
      BY <1>1, <1>2, <3>4 DEF FetchOK
    <3> QED BY <2>1, <3>2, <3>3, <3>4, <3>5, <3>6 DEF AllOrNone, p
  <2>8. ASSUME admin.voice # v PROVE CalmOK(thread'[t], bucket[v], disk', lru', ~ doubt[v], failures' > 0)
    <3>1. pc = "not_found" => bucket[v]["model.onnx"] = 0
      BY <2>2 DEF p
    <3> QED BY <2>2, <2>5, <2>7, <2>8, <3>1 DEF CalmOK
  <2> QED BY <1>1, <1>2, <2>1, <2>6, <2>8, MovedCalm
<1> QED BY <1>3, <1>4

LEMMA ReplaceCalm ==
  ASSUME TypeInv, SingleFlight, CalmInv, NEW t \in Threads, RemoveOld(t) \/ Rename(t)
  PROVE  CalmInv'
<1> DEFINE v == thread[t].voice
<1>1. /\ UNCHANGED <<bucket, lru, admin, published, failures, doubt>>
      /\ thread[t].pc \in {"replace", "rename"}
  BY DEF RemoveOld, Rename
<1>2. /\ FetchOK(thread[t], disk, lru) /\ \A u \in Threads : FetchOK(thread[u], disk, lru)
      /\ v \in Voices /\ thread[t].tmp \in Contents /\ disk \in [Voices -> Contents]
  BY <1>1, RequestTypes DEF CalmInv, FetchReady, TypeInv, TypeOK
<1>3. \A u \in Threads \ {t} : thread[u].pc \in Flying => thread[u].voice # v
  BY <1>1, <1>2 DEF SingleFlight, Fetches, Flying
<1>4. ~ InCache(disk, lru, v) /\ thread[t].todo = {}
  BY <1>1, <1>2 DEF FetchOK
<1>5. ASSUME \A w \in Voices \ {v} : disk'[w] = disk[w]
      PROVE  /\ \A u \in Threads \ {t} : FetchOK(thread[u], disk', lru')
             /\ \A u \in Threads \ {t} :
                  LET w == thread[u].voice IN
                  thread[u].calm /\ w \in Voices =>
                    /\ thread[u].pc = "renamed" /\ HasDir(disk, w) => HasDir(disk', w)
                    /\ thread[u].pc \in {"reread", "meta", "engine"} /\ InCache(disk, lru, w)
                         => InCache(disk', lru', w)
  <2>1. \A u \in Threads \ {t} : FetchOK(thread[u], disk', lru')
    <3> SUFFICES ASSUME NEW u \in Threads \ {t}, thread[u].pc \in {"download", "replace", "rename"}
                 PROVE  FetchOK(thread[u], disk', lru')
      BY DEF FetchOK
    <3>1. thread[u].voice \in Voices \ {v}
      BY <1>3, RequestTypes DEF Flying
    <3> QED BY <1>1, <1>2, <1>5, <3>1 DEF FetchOK, InCache, HasDir
  <2>2. ASSUME NEW u \in Threads \ {t}, thread[u].voice \in Voices
        PROVE  LET w == thread[u].voice IN
                    /\ thread[u].pc = "renamed" /\ HasDir(disk, w) => HasDir(disk', w)
                    /\ thread[u].pc \in {"reread", "meta", "engine"} /\ InCache(disk, lru, w)
                         => InCache(disk', lru', w)
    <3>1. thread[u].pc = "renamed" => thread[u].voice # v
      BY <1>3 DEF Flying
    <3> QED BY <1>1, <1>4, <1>5, <2>2, <3>1 DEF InCache, HasDir
  <2> QED BY <2>1, <2>2
<1>6. CASE RemoveOld(t)
  <2>1. /\ Moved(t, "rename", thread[t].tmp, thread[t].todo)
        /\ disk' = [disk EXCEPT ![v] = Nothing]
    BY <1>1, <1>6, JumpStep DEF RemoveOld, Pcs, Flying
  <2>2. disk'[v] = Nothing /\ \A w \in Voices \ {v} : disk'[w] = disk[w]
    BY <1>2, <2>1
  <2>3. /\ thread'[t].pc = "rename" /\ thread'[t].voice = v
        /\ thread'[t].tmp = thread[t].tmp /\ thread'[t].todo = thread[t].todo
    BY <2>1 DEF Moved
  <2>4. FetchOK(thread'[t], disk', lru')
    BY <1>1, <1>2, <1>4, <2>2, <2>3 DEF FetchOK, InCache, HasDir
  <2>5. CalmOK(thread'[t], bucket[v], disk', lru', ~ doubt[v], failures' > 0)
    BY <2>3 DEF CalmOK
  <2> QED BY <1>1, <1>5, <2>1, <2>2, <2>4, <2>5, MovedCalm
<1>7. CASE Rename(t)
  <2>1. ~ HasDir(disk, v) /\ \A f \in Files : thread[t].tmp[f] # 0
    BY <1>2, <1>4, <1>7 DEF Rename, FetchOK
  <2>2. ~ IsDir(v)
    BY <2>1 DEF IsDir, HasDir
  <2>3. /\ Moved(t, "renamed", thread[t].tmp, thread[t].todo)
        /\ disk' = [disk EXCEPT ![v] = thread[t].tmp]
    BY <1>1, <1>7, <2>2, JumpStep DEF Rename, Pcs, Flying
  <2>4. disk'[v] = thread[t].tmp /\ \A w \in Voices \ {v} : disk'[w] = disk[w]
    BY <1>2, <2>3
  <2>5. thread'[t].pc = "renamed" /\ thread'[t].voice = v
    BY <2>3 DEF Moved
  <2>6. HasDir(disk', v)
    BY <2>1, <2>4 DEF HasDir, Nothing, Files
  <2>7. FetchOK(thread'[t], disk', lru')
    BY <2>5 DEF FetchOK
  <2>8. CalmOK(thread'[t], bucket[v], disk', lru', ~ doubt[v], failures' > 0)
    BY <2>5, <2>6 DEF CalmOK
  <2> QED BY <1>1, <1>5, <2>3, <2>4, <2>7, <2>8, MovedCalm
<1> QED BY <1>6, <1>7


(* The end of a fetch lists its voice, and disturbs whom it evicts.        *)
LEMMA SettleCalm ==
  ASSUME TypeInv, SingleFlight, CalmInv, NEW t \in Threads, Settle(t)
  PROVE  CalmInv'
<1> DEFINE v == thread[t].voice
           listed == thread[t].pc # "not_found" /\ IsDir(v)
           order  == IF listed THEN Touched(lru, v) ELSE lru
           gone   == IF listed THEN Members(order) \ Members(Kept(order, MaxCached)) ELSE {}
           pc == CASE thread[t].pc = "renamed"   -> "reread"
                   [] thread[t].pc = "not_found" -> "unknown"
                   [] thread[t].pc = "failed"    -> "error"
           r  == [thread[t] EXCEPT !.tmp = Nothing, !.todo = {}, !.pc = pc]
           threads == [thread EXCEPT ![t] = r]
<1>1. /\ thread[t] \in Requests /\ ThreadTypes(thread) /\ v \in Voices
      /\ thread[t].pc \in {"failed", "not_found", "renamed"}
      /\ UNCHANGED <<bucket, admin, published, failures, doubt>>
      /\ disk \in [Voices -> Contents] /\ lru \in Orders
      /\ MaxCached \in Nat \ {0}
  BY RequestTypes, CacheAssumption DEF Settle, TypeInv, TypeOK
<1>2. /\ lru'  = IF listed THEN Kept(order, MaxCached) ELSE lru
      /\ disk' = [w \in Voices |-> IF w \in gone THEN Nothing ELSE disk[w]]
  BY DEF Settle
<1>3. /\ Members(lru') \subseteq Members(lru) \cup {v}
      /\ \A w : w \in Members(lru) /\ w \notin gone => w \in Members(lru')
      /\ listed => v \in Members(lru') /\ v \notin gone
  <2>1. CASE listed
    <3>1. /\ order \in Orders /\ Members(order) = Members(lru) \cup {v}
          /\ v \in Members(Kept(order, MaxCached))
          /\ Members(Kept(order, MaxCached)) \subseteq Members(order)
      BY <1>1, <2>1, TouchedProperties, KeptProperties, MostRecentKept
    <3> QED BY <1>2, <2>1, <3>1
  <2>2. CASE ~ listed
    BY <1>2, <2>2
  <2> QED BY <2>1, <2>2
<1>4. \A w \in Voices : disk'[w] = IF w \in gone THEN Nothing ELSE disk[w]
  BY <1>2
<1>5. /\ pc \in {"reread", "unknown", "error"}
      /\ pc = "reread" => thread[t].pc = "renamed"
      /\ pc = "unknown" => thread[t].pc = "not_found"
      /\ pc = "error" => thread[t].pc = "failed"
  BY <1>1
<1>6. thread' = Disturbed(threads, gone)
  <2>1. threads = [thread EXCEPT ![t].tmp = Nothing, ![t].todo = {},
                     ![t].pc = CASE @ = "renamed"   -> "reread"
                                 [] @ = "not_found" -> "unknown"
                                 [] @ = "failed"    -> "error"]
    BY <1>1 DEF ThreadTypes, Requests
  <2> HIDE DEF threads
  <2> QED BY <2>1 DEF Settle
<1> HIDE DEF pc
<1>7. /\ r \in Requests /\ r.pc = pc /\ r.voice = v /\ r.calm = thread[t].calm
  <2>1. Nothing \in Contents
    BY SizesAreNumbers DEF Nothing, Contents, Publications
  <2> QED BY <1>1, <1>5, <2>1 DEF Requests, Answered
<1> HIDE DEF r
<1>8. ThreadTypes(threads) /\ threads[t] = r /\ \A u \in Threads \ {t} : threads[u] = thread[u]
  <2>1. ThreadTypes([thread EXCEPT ![t] = r])
    BY <1>1, <1>7, ThreadStep
  <2> QED BY <1>1, <2>1 DEF ThreadTypes
<1> HIDE DEF threads, gone, order, listed
<1>9. \A u \in Threads :
        /\ thread'[u].pc = threads[u].pc /\ thread'[u].voice = threads[u].voice
        /\ thread'[u].tmp = threads[u].tmp /\ thread'[u].todo = threads[u].todo
        /\ thread'[u].meta = threads[u].meta /\ thread'[u].engine = threads[u].engine
        /\ thread'[u].calm <=> threads[u].calm /\ threads[u].voice \notin gone
  BY <1>6, <1>8, DisturbedStep
<1>10. FetchReady'
  <2> SUFFICES ASSUME NEW u \in Threads, thread'[u].pc \in {"download", "replace", "rename"}
               PROVE  FetchOK(thread'[u], disk', lru')
    BY DEF FetchReady, FetchOK
  <2>1. u # t
    BY <1>5, <1>7, <1>8, <1>9
  <2>2. /\ thread'[u].pc = thread[u].pc /\ thread'[u].voice = thread[u].voice
        /\ thread'[u].tmp = thread[u].tmp /\ thread'[u].todo = thread[u].todo
    BY <1>8, <1>9, <2>1
  <2>3. thread[u].voice \in Voices \ {v}
    BY <1>1, <2>1, <2>2, RequestTypes DEF SingleFlight, Fetches, Flying
  <2>4. FetchOK(thread[u], disk, lru)
    BY DEF CalmInv, FetchReady
  <2> QED BY <1>3, <1>4, <2>2, <2>3, <2>4 DEF FetchOK, InCache, HasDir
<1>11. ASSUME NEW u \in Threads PROVE Calm(u)'
  <2> DEFINE w == thread[u].voice
  <2>1. CASE u # t
    <3>1. /\ thread'[u].pc = thread[u].pc /\ thread'[u].voice = w
          /\ thread'[u].meta = thread[u].meta /\ thread'[u].engine = thread[u].engine
          /\ thread'[u].calm => thread[u].calm /\ w \notin gone
      BY <1>8, <1>9, <2>1
    <3>2. ASSUME w \in Voices, thread'[u].calm
          PROVE  /\ HasDir(disk, w) => HasDir(disk', w)
                 /\ InCache(disk, lru, w) => InCache(disk', lru', w)
      BY <1>3, <1>4, <3>1, <3>2 DEF HasDir, InCache
    <3>3. Calm(u)
      BY DEF CalmInv
    <3> QED BY <1>1, <3>1, <3>2, <3>3, CalmFrame DEF Calm
  <2>2. CASE u = t
    <3>1. /\ thread'[t].pc = pc /\ thread'[t].voice = v
          /\ thread'[t].calm => thread[t].calm /\ v \notin gone
      BY <1>7, <1>8, <1>9
    <3> SUFFICES ASSUME thread'[t].calm
                 PROVE  /\ admin'.voice # v
                        /\ CalmOK(thread'[t], bucket'[v], disk', lru', ~ doubt'[v], failures' > 0)
      BY <2>2, <3>1 DEF Calm
    <3>2. /\ admin.voice # v
          /\ CalmOK(thread[t], bucket[v], disk, lru, ~ doubt[v], failures > 0)
      BY <1>1, <3>1 DEF CalmInv, Calm
    <3>3. pc = "reread" => InCache(disk', lru', v)
      <4>1. pc = "reread" => listed
        BY <1>5, <3>2 DEF listed, CalmOK, HasDir, IsDir
      <4> QED BY <1>1, <1>3, <1>4, <4>1 DEF listed, InCache, HasDir, IsDir
    <3> QED BY <1>1, <1>5, <3>1, <3>2, <3>3 DEF CalmOK
  <2> QED BY <2>1, <2>2
<1>12. BucketWhole'
  BY <1>1, BucketKept DEF CalmInv
<1> QED BY <1>10, <1>11, <1>12 DEF CalmInv

(* What get() found is read again, the owner's file, and the engine.       *)
LEMMA AnswerCalm ==
  ASSUME TypeInv, CalmInv, Current, NEW t \in Threads,
         Reread(t) \/ ReadMeta(t) \/ LoadEngine(t)
  PROVE  CalmInv'
<1> DEFINE v == thread[t].voice
<1>1. /\ UNCHANGED <<bucket, disk, lru, admin, published, failures, doubt>>
      /\ thread[t].pc \in {"reread", "meta", "engine"}
  BY DEF Reread, ReadMeta, LoadEngine
<1>2. v \in Voices /\ thread[t] \in Requests /\ ThreadTypes(thread)
      /\ \A u \in Threads \ {t} : FetchOK(thread[u], disk', lru')
  BY <1>1, RequestTypes DEF CalmInv, FetchReady
<1>3. ASSUME thread[t].calm, admin.voice # v
      PROVE  /\ CalmOK(thread[t], bucket[v], disk, lru, ~ doubt[v], failures > 0)
             /\ InCache(disk, lru, v) /\ IsDir(v) /\ Cached(v)
             /\ ~ doubt[v] => /\ disk[v] = bucket[v]
                              /\ v \in Members(engineOrder) => engines[v] = bucket[v]
  <2>1. CalmOK(thread[t], bucket[v], disk, lru, ~ doubt[v], failures > 0)
    BY <1>2, <1>3 DEF CalmInv, Calm
  <2>2. InCache(disk, lru, v) /\ IsDir(v) /\ Cached(v)
    BY <1>1, <2>1 DEF CalmOK, InCache, HasDir, IsDir, Cached
  <2> QED BY <1>2, <1>3, <2>1, <2>2
          DEF Current, DiskCurrent, EngineCurrent, Steady, Replacing, Removing, Settled
<1>4. ASSUME NEW pc \in {"meta", "engine", "unknown", "served", "error"}, NEW tmp, NEW todo,
             Moved(t, pc, tmp, todo),
             thread[t].calm /\ admin.voice # v
               => CalmOK(thread'[t], bucket[v], disk', lru', ~ doubt[v], failures' > 0)
      PROVE  CalmInv'
  <2>1. FetchOK(thread'[t], disk', lru')
    BY <1>4 DEF Moved, FetchOK
  <2> QED BY <1>1, <1>2, <1>4, <2>1, MovedCalm
<1>5. CASE Reread(t)
  <2> DEFINE pc == IF Cached(v) THEN "meta" ELSE "unknown"
  <2>1. pc \in {"meta", "unknown"} /\ thread' = [thread EXCEPT ![t].pc = pc]
    BY <1>5 DEF Reread
  <2>2. Cached(v) => pc = "meta"
    OBVIOUS
  <2> HIDE DEF pc
  <2>3. Moved(t, pc, thread[t].tmp, thread[t].todo)
    BY <1>1, <2>1, JumpStep DEF Pcs, Answered
  <2>4. thread'[t].pc = pc /\ thread'[t].voice = v
    BY <2>3 DEF Moved
  <2>5. ASSUME thread[t].calm, admin.voice # v
        PROVE  CalmOK(thread'[t], bucket[v], disk', lru', ~ doubt[v], failures' > 0)
    BY <1>1, <1>3, <2>2, <2>4, <2>5 DEF CalmOK
  <2> QED BY <1>4, <2>1, <2>3, <2>5
<1>6. CASE ReadMeta(t)
  <2> DEFINE pc == IF IsDir(v) THEN "engine" ELSE "unknown"
  <2>1. Moved(t, pc, thread[t].tmp, thread[t].todo)
    BY <1>6, ReadMetaStep
  <2>2. thread'[t].pc = pc /\ thread'[t].voice = v
    BY <2>1 DEF Moved
  <2>3. thread'[t].meta = disk[v]["owner.json"]
    BY <1>2, <1>6 DEF ReadMeta, ThreadTypes, Requests
  <2>4. ASSUME thread[t].calm, admin.voice # v
        PROVE  CalmOK(thread'[t], bucket[v], disk', lru', ~ doubt[v], failures' > 0)
    BY <1>1, <1>3, <2>2, <2>3, <2>4 DEF CalmOK
  <2>5. pc \in {"engine", "unknown"}
    OBVIOUS
  <2> HIDE DEF pc
  <2> QED BY <1>4, <2>1, <2>4, <2>5
<1>7. CASE LoadEngine(t)
  <2> DEFINE loaded == v \in Members(engineOrder)
             engine == IF loaded THEN engines[v] ELSE disk[v]
  <2>1. CASE ~ loaded /\ ~ IsDir(v)
    <3>1. Moved(t, "error", thread[t].tmp, thread[t].todo)
      BY <1>1, <1>7, <2>1, JumpStep DEF LoadEngine, Pcs, Answered
    <3> QED BY <1>3, <1>4, <2>1, <3>1
  <2>2. CASE loaded \/ IsDir(v)
    <3>1. thread' = [thread EXCEPT ![t].pc = "served", ![t].engine = engine]
      BY <1>7, <2>2 DEF LoadEngine
    <3>2. /\ thread'[t].pc = "served" /\ thread'[t].voice = v
          /\ thread'[t].engine = engine /\ thread'[t].meta = thread[t].meta
      BY <1>2, <3>1 DEF ThreadTypes, Requests
    <3>3. Moved(t, "served", thread[t].tmp, thread[t].todo)
      BY <1>7, <3>2, LoadEngineStep DEF Moved
    <3>4. ASSUME thread[t].calm, admin.voice # v
          PROVE  CalmOK(thread'[t], bucket[v], disk', lru', ~ doubt[v], failures' > 0)
      <4>1. ~ doubt[v] => engine = bucket[v] /\ thread[t].meta = bucket[v]["owner.json"]
        BY <1>1, <1>3, <1>7, <3>4 DEF LoadEngine, CalmOK
      <4> QED BY <3>2, <4>1 DEF CalmOK
    <3> QED BY <1>4, <3>3, <3>4
  <2> QED BY <2>1, <2>2
<1> QED BY <1>5, <1>6, <1>7


-----------------------------------------------------------------------------
(* The PUTs and DELETEs of the event loop.                                 *)
LEMMA AdminCalmFrame ==
  ASSUME TypeInv, CalmInv, BucketWhole', NEW v \in Voices,
         failures > 0 => failures' > 0,
         \A w \in Voices \ {v} : /\ bucket'[w] = bucket[w] /\ disk'[w] = disk[w]
                                 /\ (doubt'[w] <=> doubt[w]) /\ admin'.voice # w
                                 /\ w \in Members(lru') <=> w \in Members(lru),
         HasDir(disk', v) => HasDir(disk, v), Members(lru') \subseteq Members(lru),
         \A u \in Threads :
           /\ thread'[u].pc = thread[u].pc /\ thread'[u].voice = thread[u].voice
           /\ thread'[u].tmp = thread[u].tmp /\ thread'[u].todo = thread[u].todo
           /\ thread'[u].meta = thread[u].meta /\ thread'[u].engine = thread[u].engine
           /\ thread'[u].calm => thread[u].calm /\ thread[u].voice # v
  PROVE  CalmInv'
<1>1. FetchReady'
  <2> SUFFICES ASSUME NEW u \in Threads, thread[u].pc \in {"download", "replace", "rename"}
               PROVE  FetchOK(thread'[u], disk', lru')
    BY DEF FetchReady, FetchOK
  <2>1. FetchOK(thread[u], disk, lru) /\ thread[u].voice \in Voices
    BY RequestTypes DEF CalmInv, FetchReady
  <2> QED BY <2>1 DEF FetchOK, InCache, HasDir
<1>2. ASSUME NEW u \in Threads PROVE Calm(u)'
  <2>1. Calm(u)
    BY DEF CalmInv
  <2> QED BY <2>1, CalmFrame DEF InCache, HasDir
<1> QED BY <1>1, <1>2 DEF CalmInv

(* A step of the PUT or DELETE of one voice leaves the other voices whole. *)
LEMMA WholeStep ==
  ASSUME BucketWhole, NEW a \in Voices, failures' = 0 => failures = 0,
         \A w \in Voices \ {a} : /\ bucket'[w] = bucket[w] /\ (doubt'[w] <=> doubt[w])
                                 /\ admin.voice # w /\ admin'.voice # w,
         failures' = 0 =>
           /\ admin'.voice # a /\ ~ doubt'[a] => AllOrNone(bucket'[a])
           /\ admin'.voice = a =>
                /\ admin'.pc = "put" =>
                     published' > 0 /\ \A f \in Files \ admin'.todo : bucket'[a][f] # 0
                /\ admin'.pc = "delete" => \A f \in Files \ admin'.todo : bucket'[a][f] = 0
                /\ admin'.pc \in {"pop", "rmtree", "evict"} => AllOrNone(bucket'[a])
  PROVE  BucketWhole'
<1> SUFFICES ASSUME failures' = 0, NEW v \in Voices
             PROVE  /\ admin'.voice # v /\ ~ doubt'[v] => AllOrNone(bucket'[v])
                    /\ admin'.voice = v =>
                         /\ admin'.pc = "put" =>
                              published' > 0 /\ \A f \in Files \ admin'.todo : bucket'[v][f] # 0
                         /\ admin'.pc = "delete" => \A f \in Files \ admin'.todo : bucket'[v][f] = 0
                         /\ admin'.pc \in {"pop", "rmtree", "evict"} => AllOrNone(bucket'[v])
  BY DEF BucketWhole
<1>1. CASE v = a
  BY <1>1
<1>2. CASE v # a
  <2>1. /\ bucket'[v] = bucket[v] /\ (doubt'[v] <=> doubt[v])
        /\ admin.voice # v /\ admin'.voice # v
    BY <1>2
  <2>2. ~ doubt[v] => AllOrNone(bucket[v])
    BY <2>1 DEF BucketWhole
  <2> QED BY <2>1, <2>2
<1> QED BY <1>1, <1>2

LEMMA AdminCalm ==
  ASSUME TypeInv, Current, CalmInv,
         \/ \E v \in Voices : AdminPut(v) \/ AdminDelete(v)
         \/ \E f \in Files : PutObject(f)
         \/ DeleteObject \/ HeadFails \/ AdminFails \/ PopCached \/ RemoveCached \/ Evict
  PROVE  CalmInv'
<1> DEFINE a == admin.voice
<1>1. /\ ThreadTypes(thread) /\ BucketWhole /\ lru \in Orders
      /\ bucket \in [Voices -> Contents] /\ disk \in [Voices -> Contents]
      /\ doubt \in [Voices -> BOOLEAN] /\ admin.todo \in SUBSET Files
      /\ failures \in Nat /\ published \in Nat /\ "no voice" \notin Voices
      /\ \A u \in Threads : thread[u].calm /\ thread[u].voice \in Voices => thread[u].voice # a
  BY AdminTypes, FailuresCount, CacheAssumption DEF TypeInv, TypeOK, ThreadTypes, CalmInv, Calm
<1>0. failures \in Nat /\ published \in Nat /\ BucketWhole
  BY FailuresCount DEF CalmInv
<1>2. ASSUME NEW v \in Voices, AdminPut(v) \/ AdminDelete(v)
      PROVE  CalmInv'
  <2>1. /\ thread' = Disturbed(thread, {v})
        /\ UNCHANGED <<bucket, disk, lru, failures, doubt>>
        /\ admin.pc = "idle" /\ admin' = [pc |-> admin'.pc, voice |-> v, todo |-> Files]
        /\ \/ admin'.pc = "put" /\ published' = published + 1
           \/ admin'.pc = "delete" /\ published' = published
    BY <1>2 DEF AdminPut, AdminDelete, AdminMove
  <2>2. a = "no voice"
    BY <2>1 DEF Current, AdminIdle
  <2>3. admin'.voice = v /\ admin'.todo = Files
    BY <2>1
  <2>4. BucketWhole'
    <3>1. failures' = failures /\ bucket' = bucket /\ doubt' = doubt
          /\ admin.voice \notin Voices /\ admin'.voice = v
      BY <1>1, <2>1, <2>2, <2>3
    <3>2. admin'.pc = "put" => published' > 0
      BY <1>0, <2>1
    <3>3. Files \ admin'.todo = {} /\ admin'.pc \in {"put", "delete"}
      BY <2>1, <2>3
    <3> QED BY <1>0, <3>1, <3>2, <3>3, WholeStep
  <2>5. \A u \in Threads :
           /\ thread'[u].pc = thread[u].pc /\ thread'[u].voice = thread[u].voice
           /\ thread'[u].tmp = thread[u].tmp /\ thread'[u].todo = thread[u].todo
           /\ thread'[u].meta = thread[u].meta /\ thread'[u].engine = thread[u].engine
           /\ thread'[u].calm => thread[u].calm /\ thread[u].voice # v
    <3> SUFFICES ASSUME NEW u \in Threads
                 PROVE  /\ thread'[u].pc = thread[u].pc /\ thread'[u].voice = thread[u].voice
                        /\ thread'[u].tmp = thread[u].tmp /\ thread'[u].todo = thread[u].todo
                        /\ thread'[u].meta = thread[u].meta /\ thread'[u].engine = thread[u].engine
                        /\ thread'[u].calm => thread[u].calm /\ thread[u].voice # v
      OBVIOUS
    <3>1. ThreadTypes(thread)
      BY <1>1
    <3>2. LET r == Disturbed(thread, {v})[u] IN
            /\ r.pc = thread[u].pc /\ r.voice = thread[u].voice /\ r.tmp = thread[u].tmp
            /\ r.todo = thread[u].todo /\ r.meta = thread[u].meta
            /\ r.engine = thread[u].engine
            /\ r.calm <=> thread[u].calm /\ thread[u].voice \notin {v}
      BY <3>1, DisturbedStep
    <3> HIDE DEF Disturbed
    <3> QED BY <2>1, <3>2
  <2> QED BY <2>1, <2>3, <2>4, <2>5, AdminCalmFrame
<1>3. ASSUME admin.pc # "idle", thread' = thread, failures > 0 => failures' > 0,
             BucketWhole', admin'.voice \in {a, "no voice"},
             \A w \in Voices \ {a} : /\ bucket'[w] = bucket[w] /\ disk'[w] = disk[w]
                                     /\ (doubt'[w] <=> doubt[w])
                                     /\ w \in Members(lru') <=> w \in Members(lru),
             HasDir(disk', a) => HasDir(disk, a), Members(lru') \subseteq Members(lru)
      PROVE  CalmInv'
  <2>1. a \in Voices
    BY <1>3, AdminTypes
  <2>2. \A u \in Threads : thread'[u].calm => thread[u].calm /\ thread[u].voice # a
    BY <1>1, <1>3, <2>1
  <2>3. \A w \in Voices \ {a} : admin'.voice # w
    BY <1>1, <1>3
  <2> QED BY <1>3, <2>1, <2>2, <2>3, AdminCalmFrame
<1>4. ASSUME NEW f \in Files, NEW p, bucket' = [bucket EXCEPT ![a][f] = p] \/ bucket' = bucket,
             admin.pc \in {"put", "delete"}
      PROVE  /\ \A w \in Voices \ {a} : bucket'[w] = bucket[w]
             /\ \A g \in Files \ {f} : bucket'[a][g] = bucket[a][g]
             /\ bucket' = [bucket EXCEPT ![a][f] = p] => bucket'[a][f] = p
             /\ a \in Voices
  <2>1. a \in Voices
    BY <1>4, AdminTypes
  <2>2. bucket[a] \in [Files -> Publications]
    BY <1>1, <2>1 DEF Contents
  <2> QED BY <1>1, <1>4, <2>1, <2>2
<1>5. ASSUME NEW f \in Files, PutObject(f)
      PROVE  CalmInv'
  <2> DEFINE pc == IF admin.todo = {f} THEN "pop" ELSE "put"
  <2>1. /\ admin.pc = "put" /\ f \in admin.todo
        /\ bucket' = [bucket EXCEPT ![a][f] = published]
        /\ admin' = [pc |-> pc, voice |-> a, todo |-> admin.todo \ {f}]
        /\ UNCHANGED <<disk, lru, thread, published, failures, doubt>>
    BY <1>5 DEF PutObject, AdminMove
  <2>2. pc \in {"pop", "put"} /\ (pc = "pop" => admin.todo \ {f} = {})
    OBVIOUS
  <2> HIDE DEF pc
  <2>3. admin'.pc = pc /\ admin'.voice = a /\ admin'.todo = admin.todo \ {f}
    BY <2>1
  <2>4. /\ a \in Voices /\ \A w \in Voices \ {a} : bucket'[w] = bucket[w]
        /\ bucket'[a][f] = published /\ \A g \in Files \ {f} : bucket'[a][g] = bucket[a][g]
    BY <1>4, <2>1
  <2>5. failures = 0 => \A g \in Files \ (admin.todo \ {f}) : bucket'[a][g] # 0
    <3> SUFFICES ASSUME failures = 0, NEW g \in Files \ (admin.todo \ {f})
                 PROVE  bucket'[a][g] # 0
      OBVIOUS
    <3>1. published > 0 /\ \A h \in Files \ admin.todo : bucket[a][h] # 0
      BY <1>0, <2>1, <2>4 DEF BucketWhole
    <3>2. CASE g = f
      BY <1>0, <2>4, <3>1, <3>2
    <3>3. CASE g # f
      BY <2>4, <3>1, <3>3
    <3> QED BY <3>2, <3>3
  <2>6. failures = 0 /\ pc = "pop" => AllOrNone(bucket'[a])
    BY <2>2, <2>5 DEF AllOrNone
  <2>7. BucketWhole'
    <3>1. failures = 0 => published' > 0
      BY <1>0, <2>1, <2>4 DEF BucketWhole
    <3> QED BY <1>0, <2>1, <2>2, <2>3, <2>4, <2>5, <2>6, <3>1, WholeStep
  <2> QED BY <1>3, <2>1, <2>3, <2>4, <2>7
<1>6. CASE DeleteObject \/ HeadFails
  <2> DEFINE f  == FirstOf(admin.todo)
             pc == IF admin.todo = {f} THEN "pop" ELSE "delete"
  <2>1. /\ admin.pc = "delete" /\ f \in Files
        /\ admin' = [pc |-> pc, voice |-> a, todo |-> admin.todo \ {f}]
        /\ UNCHANGED <<disk, lru, thread, published, doubt>>
        /\ \/ bucket' = [bucket EXCEPT ![a][f] = 0] /\ failures' = failures
           \/ bucket' = bucket /\ failures' = failures + 1
    BY <1>6 DEF DeleteObject, HeadFails, AdminMove, FirstOf, Files
  <2>2. pc \in {"pop", "delete"} /\ (pc = "pop" => admin.todo \ {f} = {})
    OBVIOUS
  <2> HIDE DEF pc, f
  <2>3. admin'.pc = pc /\ admin'.voice = a /\ admin'.todo = admin.todo \ {f}
    BY <2>1
  <2>4. /\ a \in Voices /\ \A w \in Voices \ {a} : bucket'[w] = bucket[w]
        /\ \A g \in Files \ {f} : bucket'[a][g] = bucket[a][g]
        /\ failures' = failures => bucket'[a][f] = 0
    <3>1. failures' = failures => bucket' = [bucket EXCEPT ![a][f] = 0]
      BY <1>0, <2>1
    <3> QED BY <1>4, <2>1, <3>1
  <2>5. failures' = 0 => /\ failures = 0
                         /\ \A g \in Files \ (admin.todo \ {f}) : bucket'[a][g] = 0
    <3> SUFFICES ASSUME failures' = 0
                 PROVE  failures = 0 /\ \A g \in Files \ (admin.todo \ {f}) : bucket'[a][g] = 0
      OBVIOUS
    <3>1. failures = 0 /\ failures' = failures
      BY <1>0, <2>1
    <3>2. \A h \in Files \ admin.todo : bucket[a][h] = 0
      BY <1>0, <2>1, <2>4, <3>1 DEF BucketWhole
    <3>3. bucket'[a][f] = 0
      BY <2>4, <3>1
    <3> QED BY <2>4, <3>1, <3>2, <3>3
  <2>6. failures' = 0 /\ pc = "pop" => AllOrNone(bucket'[a])
    BY <2>2, <2>5 DEF AllOrNone
  <2>7. BucketWhole'
    BY <1>0, <2>1, <2>2, <2>3, <2>4, <2>5, <2>6, WholeStep
  <2>8. failures > 0 => failures' > 0
    BY <1>0, <2>1
  <2> QED BY <1>3, <2>1, <2>3, <2>4, <2>7, <2>8
<1>7. CASE AdminFails
  <2>1. /\ admin.pc \in {"put", "delete"} /\ failures' = failures + 1
        /\ admin' = NoOperation /\ doubt' = [doubt EXCEPT ![a] = TRUE]
        /\ UNCHANGED <<bucket, disk, lru, thread, published>>
    BY <1>7 DEF AdminFails
  <2>2. admin'.voice = "no voice" /\ failures' > 0 /\ failures' # 0
    <3>1. admin'.voice = "no voice"
      BY <2>1 DEF NoOperation
    <3>2. failures' = failures + 1 /\ failures \in Nat
      BY <1>0, <2>1
    <3>3. failures' > 0 /\ failures' # 0
      BY <3>2
    <3> QED BY <3>1, <3>3
  <2>3. BucketWhole'
    BY <2>2 DEF BucketWhole
  <2>4. \A w \in Voices \ {a} : doubt'[w] <=> doubt[w]
    BY <1>1, <2>1
  <2> QED BY <1>3, <2>1, <2>2, <2>3, <2>4
<1>8. CASE PopCached
  <2> DEFINE pc == IF a \in Members(lru) THEN "rmtree" ELSE "evict"
  <2>1. /\ admin.pc = "pop" /\ admin' = [pc |-> pc, voice |-> a, todo |-> {}]
        /\ lru' = Without(lru, a) /\ doubt' = [doubt EXCEPT ![a] = a \in fetching]
        /\ UNCHANGED <<bucket, disk, thread, published, failures>>
    BY <1>8 DEF PopCached, AdminMove
  <2>2. pc \in {"rmtree", "evict"}
    OBVIOUS
  <2> HIDE DEF pc
  <2>3. admin'.pc = pc /\ admin'.voice = a
    BY <2>1
  <2>4. Members(lru') = Members(lru) \ {a} /\ \A w \in Voices \ {a} : doubt'[w] <=> doubt[w]
    BY <1>1, <2>1, WithoutProperties
  <2>5. BucketWhole'
    BY <1>1, <2>1, <2>2, <2>3, <2>4 DEF BucketWhole
  <2> QED BY <1>3, <2>1, <2>3, <2>4, <2>5
<1>9. CASE RemoveCached
  <2>1. /\ admin.pc = "rmtree" /\ admin' = [pc |-> "evict", voice |-> a, todo |-> {}]
        /\ disk' = [disk EXCEPT ![a] = Nothing]
        /\ UNCHANGED <<bucket, lru, thread, published, failures, doubt>> /\ a \in Voices
    BY <1>9, AdminTypes DEF RemoveCached, AdminMove
  <2>2. admin'.pc = "evict" /\ admin'.voice = a
    BY <2>1
  <2>3. disk'[a] = Nothing /\ \A w \in Voices \ {a} : disk'[w] = disk[w]
    BY <1>1, <2>1
  <2>4. BucketWhole'
    BY <1>1, <2>1, <2>2 DEF BucketWhole
  <2> QED BY <1>3, <2>1, <2>2, <2>3, <2>4 DEF HasDir
<1>10. CASE Evict
  <2>1. /\ admin.pc = "evict" /\ admin' = NoOperation
        /\ UNCHANGED <<bucket, disk, lru, thread, published, failures, doubt>>
    BY <1>10 DEF Evict
  <2>2. admin'.pc = "idle" /\ admin'.voice = "no voice"
    BY <2>1 DEF NoOperation
  <2>3. BucketWhole'
    BY <1>1, <2>1, <2>2 DEF BucketWhole
  <2> QED BY <1>3, <2>1, <2>2, <2>3
<1> QED BY <1>2, <1>5, <1>6, <1>7, <1>8, <1>9, <1>10

LEMMA CalmStep ==
  TypeInv /\ SingleFlight /\ Current /\ CalmInv /\ [Next]_vars => CalmInv'
<1> SUFFICES ASSUME TypeInv, SingleFlight, Current, CalmInv, [Next]_vars
             PROVE  CalmInv'
  OBVIOUS
<1>1. ASSUME NEW t \in Threads, NEW v \in Voices, Get(t, v)
      PROVE  CalmInv'
  <2> DEFINE r == [NoRequest EXCEPT !.voice = v, !.calm = admin.voice # v]
  <2>1. r \in Requests /\ r.voice = v
    BY NewRequestType
  <2>2. r.calm <=> admin.voice # v
    BY DEF NoRequest
  <2>3. Lookup(t, v, r)
    BY <1>1 DEF Get
  <2> HIDE DEF r
  <2> QED BY <2>1, <2>2, <2>3, LookupCalm
<1>2. ASSUME NEW t \in Threads, Wake(t)
      PROVE  CalmInv'
  <2>1. thread[t] \in Requests /\ thread[t].voice \in Voices
        /\ Lookup(t, thread[t].voice, thread[t])
    BY <1>2, RequestTypes DEF Wake
  <2>2. thread[t].calm => admin.voice # thread[t].voice
    BY <2>1 DEF CalmInv, Calm
  <2> QED BY <2>1, <2>2, LookupCalm
<1>3. CASE UNCHANGED vars
  <2>1. UNCHANGED <<bucket, disk, lru, thread, admin, published, failures, doubt>>
    BY <1>3 DEF vars
  <2> QED BY <2>1 DEF CalmInv, BucketWhole, FetchReady, Calm
<1> QED
  BY <1>1, <1>2, <1>3, DownloadCalm, ReplaceCalm, SettleCalm, AnswerCalm, AdminCalm DEF Next

(* A request that nothing interferes with is answered from the published   *)
(* voice, or told that it is unknown because it is; it fails only if a     *)
(* storage call did.  Needs the whole cache: who fetches (SingleFlight),   *)
(* and that disk and engines hold what the bucket holds (Current).         *)
THEOREM TrueAnswers == Spec => []AnswersAreTrue
<1>1. Init => DiskInv /\ Current /\ CalmInv
  <2> SUFFICES ASSUME Init PROVE DiskInv /\ Current /\ CalmInv
    OBVIOUS
  <2>1. DiskInv /\ Current
    BY CurrentInit
  <2>2. \A t \in Threads : thread[t] = NoRequest
    BY DEF Init
  <2>3. NoRequest.pc = "idle" /\ NoRequest.voice \notin Voices
    BY CacheAssumption DEF NoRequest
  <2>4. FetchReady /\ \A t \in Threads : Calm(t)
    BY <2>2, <2>3 DEF FetchReady, FetchOK, Calm
  <2>5. BucketWhole
    <3>1. /\ admin.pc = "idle" /\ admin.voice = "no voice" /\ "no voice" \notin Voices
          /\ \A v \in Voices : bucket[v] = Nothing
      BY CacheAssumption DEF Init, NoOperation
    <3>2. AllOrNone(Nothing)
      BY DEF AllOrNone, Nothing
    <3> QED BY <3>1, <3>2 DEF BucketWhole
  <2> QED BY <2>1, <2>4, <2>5 DEF CalmInv
<1>2. CalmInv => AnswersAreTrue
  BY DEF CalmInv, Calm, CalmOK, AnswersAreTrue, Settled
<1> QED
  BY <1>1, <1>2, OneFetchInit, TypeInit, TypeStep, FlightStep, DiskStep, CurrentStep, CalmStep, PTL
     DEF Spec
=============================================================================
