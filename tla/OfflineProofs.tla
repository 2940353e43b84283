----------------------------- MODULE OfflineProofs -----------------------------
(***************************************************************************)
(* Proofs about what MCOffline composes: the research cycle, the GPU       *)
(* scripts, the house voices and the computations, each for every value of *)
(* its constants.                                                          *)
(***************************************************************************)
EXTENDS MCOffline, FoldFacts, FiniteSetTheorems, SequenceTheorems, TLAPS

-----------------------------------------------------------------------------
(* The research cycle.                                                     *)

Statuses == {"training", "trained", "failed", "skipped"}
Results == [candidate : Candidates, status : Statuses, cost : Nat]
Cycles == [pc : {"none", "next", "training", "evaluate", "report", "record"},
           queue : Seq(Candidates), spent : Nat, results : Seq(Results), unrecorded : Seq(Results)]

CycleTypes ==
  /\ tried \subseteq Candidates /\ reported \subseteq Candidates /\ lost \subseteq Candidates
  /\ runs \in [Candidates -> Nat] /\ cycle \in Cycles

(* What an entry of the results cost; SpentOf adds that up.                *)
CostOf(r) == IF r.status = "skipped" THEN 0 ELSE r.cost
CostsOf(rs) == [i \in DOMAIN rs |-> CostOf(rs[i])]

LEMMA SpentIsSum == ASSUME NEW rs PROVE SpentOf(rs) = SumFunctionOnSet(CostsOf(rs), DOMAIN rs)
  BY DEF SpentOf, SumFunction, CostsOf, CostOf

LEMMA CostsAreNat ==
  ASSUME NEW rs \in Seq(Results)
  PROVE  IsFiniteSet(DOMAIN rs) /\ \A i \in DOMAIN rs : CostsOf(rs)[i] \in Nat
<1>1. DOMAIN rs = 1 .. Len(rs) /\ Len(rs) \in Nat
  OBVIOUS
<1>2. IsFiniteSet(DOMAIN rs)
  BY <1>1, FS_Interval
<1>3. ASSUME NEW i \in DOMAIN rs  PROVE CostsOf(rs)[i] \in Nat
  <2>1. rs[i] \in Results
    OBVIOUS
  <2> QED  BY <2>1 DEF CostsOf, CostOf, Results
<1> QED  BY <1>2, <1>3

LEMMA SpentOfNone == SpentOf(<<>>) = 0
<1>1. DOMAIN <<>> = {}
  OBVIOUS
<1> QED  BY <1>1, SpentIsSum, SumOfNone

(* One more result costs what it cost.                                     *)
LEMMA SpentOfMore ==
  ASSUME NEW rs \in Seq(Results), NEW r \in Results
  PROVE  SpentOf(Append(rs, r)) = SpentOf(rs) + CostOf(r)
<1> DEFINE n == Len(rs) + 1
           more == Append(rs, r)
           h == CostsOf(more)
           S == DOMAIN rs
<1>1. /\ more \in Seq(Results) /\ more[n] = r /\ n \notin S /\ DOMAIN more = S \cup {n}
      /\ \A i \in S : more[i] = rs[i]
  OBVIOUS
<1>2. IsFiniteSet(S)
  BY CostsAreNat
<1>3. \A i \in S \cup {n} : h[i] \in Nat
  <2> HIDE DEF h, n, more, S
  <2> QED  BY <1>1, CostsAreNat DEF h
<1>4. SumFunctionOnSet(h, S \cup {n}) = h[n] + SumFunctionOnSet(h, S)
  <2> HIDE DEF h, n, S
  <2> QED  BY <1>1, <1>2, <1>3, SumAdded
<1>5. h[n] = CostOf(r) /\ \A i \in S : h[i] = CostsOf(rs)[i]
  <2> HIDE DEF more, n
  <2> QED  BY <1>1 DEF CostsOf
<1>6. SumFunctionOnSet(h, S) = SpentOf(rs)
  <2>1. SumFunctionOnSet(h, S) = SumFunctionOnSet(CostsOf(rs), S)
    <3> HIDE DEF h, S
    <3> QED  BY <1>2, <1>5, SumSame
  <2> QED  BY <2>1, SpentIsSum
<1>7. SpentOf(more) = SumFunctionOnSet(h, S \cup {n})
  <2> HIDE DEF n, more, S
  <2> QED  BY <1>1, SpentIsSum DEF h
<1>8. SpentOf(rs) \in Nat
  <2>1. \A i \in S : CostsOf(rs)[i] \in Nat
    BY CostsAreNat
  <2>2. SumFunctionOnSet(CostsOf(rs), S) \in Nat
    <3> HIDE DEF S
    <3> QED  BY <1>2, <2>1, SumIsNat
  <2> QED  BY <2>2, SpentIsSum
<1>9. CostOf(r) \in Nat
  BY DEF CostOf, Results
<1> HIDE DEF h, n, S, more
<1>10. SpentOf(more) = SpentOf(rs) + CostOf(r)
  BY <1>4, <1>5, <1>6, <1>7, <1>8, <1>9
<1> QED  BY <1>10 DEF more

(* Skipped candidates cost nothing.                                        *)
LEMMA SpentOfSkipped ==
  ASSUME NEW rs \in Seq(Results), NEW ss \in Seq(Results),
         \A i \in DOMAIN ss : ss[i].status = "skipped"
  PROVE  SpentOf(rs \o ss) = SpentOf(rs)
<1> DEFINE all == rs \o ss
           h == CostsOf(all)
           S == DOMAIN all
           T == DOMAIN rs
           g == [i \in S |-> IF i \in T THEN h[i] ELSE 0]
<1>1. /\ all \in Seq(Results) /\ T \subseteq S
      /\ \A i \in T : all[i] = rs[i]
      /\ \A i \in S \ T : all[i].status = "skipped"
  <2>1. /\ all \in Seq(Results) /\ S = 1 .. Len(rs) + Len(ss) /\ T = 1 .. Len(rs)
        /\ Len(rs) \in Nat /\ Len(ss) \in Nat
    OBVIOUS
  <2>2. \A i \in S : all[i] = IF i \in T THEN rs[i] ELSE ss[i - Len(rs)]
    OBVIOUS
  <2>3. ASSUME NEW i \in S \ T  PROVE i - Len(rs) \in DOMAIN ss
    <3>1. DOMAIN ss = 1 .. Len(ss)
      OBVIOUS
    <3> HIDE DEF S, T
    <3> QED  BY <2>1, <3>1
  <2> HIDE DEF all, S, T
  <2> QED  BY <2>1, <2>2, <2>3
<1>2. IsFiniteSet(S) /\ \A i \in S : h[i] \in Nat
  BY <1>1, CostsAreNat
<1> HIDE DEF all
<1>3. SumFunctionOnSet(h, T) = SumFunctionOnSet(g, S)
  <2> HIDE DEF h, S, T
  <2> QED  BY <1>1, <1>2, SumOfPart
<1>4. \A i \in S : g[i] = h[i]
  BY <1>1 DEF CostsOf, CostOf
<1>5. SumFunctionOnSet(g, S) = SumFunctionOnSet(h, S)
  <2> HIDE DEF h, S, g
  <2> QED  BY <1>2, <1>4, SumSame
<1>6. \A i \in T : h[i] = CostsOf(rs)[i]
  BY <1>1 DEF CostsOf
<1>7. SumFunctionOnSet(h, T) = SumFunctionOnSet(CostsOf(rs), T)
  <2>1. IsFiniteSet(T)
    BY <1>1, <1>2, FS_Subset
  <2> HIDE DEF h, T
  <2> QED  BY <1>6, <2>1, SumSame
<1>8. SpentOf(all) = SumFunctionOnSet(h, S) /\ SpentOf(rs) = SumFunctionOnSet(CostsOf(rs), T)
  BY SpentIsSum
<1>9. SpentOf(all) = SpentOf(rs)
  BY <1>3, <1>5, <1>7, <1>8
<1> QED  BY <1>9 DEF all

(* Whether a model could be evaluated costs nothing.                       *)
LEMMA SpentOfEvaluated ==
  ASSUME NEW rs \in Seq(Results), NEW n \in DOMAIN rs, rs[n].status = "training"
  PROVE  SpentOf([rs EXCEPT ![n].status = "trained"]) = SpentOf(rs)
<1> DEFINE new == [rs EXCEPT ![n].status = "trained"]
<1>1. DOMAIN new = DOMAIN rs /\ \A i \in DOMAIN rs : CostsOf(new)[i] = CostsOf(rs)[i]
  <2>1. rs[n] \in Results
    OBVIOUS
  <2>2. /\ DOMAIN new = DOMAIN rs /\ new[n].cost = rs[n].cost /\ new[n].status = "trained"
        /\ \A i \in DOMAIN rs \ {n} : new[i] = rs[i]
    BY <2>1 DEF Results
  <2> HIDE DEF new
  <2> QED  BY <2>2 DEF CostsOf, CostOf
<1>2. IsFiniteSet(DOMAIN rs)
  BY CostsAreNat
<1> HIDE DEF new
<1>3. SumFunctionOnSet(CostsOf(new), DOMAIN rs) = SumFunctionOnSet(CostsOf(rs), DOMAIN rs)
  BY <1>1, <1>2, SumSame
<1>4. SpentOf(new) = SpentOf(rs)
  BY <1>1, <1>3, SpentIsSum
<1> QED  BY <1>4 DEF new

(* The candidates of a cycle: those of the recipe that are not remembered, *)
(* each once.  Fresh is what that says of a queue.                         *)
Members(s) == {s[i] : i \in DOMAIN s}
Fresh(q) == q \in Seq(Candidates) /\ IsInjective(q) /\ Members(q) \cap tried = {}

LEMMA AddUntriedKeeps ==
  ASSUME NEW q \in Seq(Candidates), NEW c \in Candidates, Fresh(q), c \notin Members(q)
  PROVE  /\ Fresh(AddUntried(q, c))
         /\ Members(AddUntried(q, c)) \subseteq Members(q) \cup {c}
<1>1. CASE c \in tried
  BY <1>1 DEF AddUntried
<1>2. CASE c \notin tried
  <2> DEFINE more == Append(q, c)
  <2>1. /\ more \in Seq(Candidates) /\ more[Len(q) + 1] = c /\ Len(q) + 1 \notin DOMAIN q
        /\ DOMAIN more = DOMAIN q \cup {Len(q) + 1} /\ \A i \in DOMAIN q : more[i] = q[i]
    OBVIOUS
  <2>2. AddUntried(q, c) = more
    BY <1>2 DEF AddUntried
  <2> HIDE DEF more
  <2>3. Members(more) = Members(q) \cup {c}
    BY <2>1 DEF Members
  <2>4. IsInjective(more)
    <3>1. \A i \in DOMAIN q : more[i] # c
      BY <2>1 DEF Members
    <3> QED  BY <2>1, <3>1 DEF IsInjective, Fresh
  <2> QED  BY <1>2, <2>1, <2>2, <2>3, <2>4 DEF Fresh
<1> QED  BY <1>1, <1>2

LEMMA UntriedIsFresh ==
  ASSUME CycleAssumption
  PROVE  Fresh(Untried)
<1> DEFINE N == Len(Variants)
           D == 1 .. N
           V == Seq(Candidates)
           f == [qc \in V \X Candidates |-> AddUntried(qc[1], qc[2])]
           top == [s \in SUBSET D |-> Max(s)]
           Iterate(g, s) == IF s = {} THEN <<>> ELSE AddUntried(g[s \ {Max(s)}], Variants[Max(s)])
<1>1. N \in Nat /\ DOMAIN Variants = D /\ Variants \in [D -> Candidates] /\ IsInjective(Variants)
  BY DEF CycleAssumption
<1>2. IsFiniteSet(D)
  <2> HIDE DEF N
  <2> QED  BY <1>1, FS_Interval
<1>3. \A q \in V, c \in Candidates : AddUntried(q, c) \in V
  BY DEF AddUntried
<1>4. f \in [V \X Candidates -> V] /\ <<>> \in V
  BY <1>3
<1>5. \A s \in SUBSET D : s # {} => top[s] = Max(s) /\ Max(s) \in s
  <2>1. \A s \in SUBSET D : top[s] = Max(s)
    OBVIOUS
  <2>2. \A s \in SUBSET D : s # {} => Max(s) \in s
    <3> HIDE DEF N
    <3> QED  BY <1>1, MaxOfIndices
  <2> HIDE DEF top
  <2> QED  BY <2>1, <2>2
<1>6. PICK g0 \in [SUBSET D -> V] : Folds(g0, f, <<>>, D, Variants, top)
  <2>1. Variants \in [D -> Candidates] /\ \A s \in SUBSET D : s # {} => top[s] \in s
    BY <1>1, <1>5
  <2> HIDE DEF D, V, f, top
  <2> QED  BY <2>1, <1>2, <1>4, FoldExists
<1>7. \A s \in SUBSET D : g0[s] = Iterate(g0, s)
  <2> SUFFICES ASSUME NEW s \in SUBSET D, s # {}  PROVE g0[s] = Iterate(g0, s)
    BY <1>6 DEF Folds
  <2>1. Max(s) \in D /\ s \ {Max(s)} \in SUBSET D /\ top[s] = Max(s)
    BY <1>5
  <2> HIDE DEF D, top
  <2>2. g0[s \ {Max(s)}] \in V /\ Variants[Max(s)] \in Candidates
    BY <1>1, <1>6, <2>1
  <2>3. f[<<g0[s \ {Max(s)}], Variants[Max(s)]>>] = AddUntried(g0[s \ {Max(s)}], Variants[Max(s)])
    BY <2>2
  <2> HIDE DEF f
  <2> QED  BY <1>6, <2>1, <2>3 DEF Folds
<1>8. g0 = [s \in SUBSET D |-> Iterate(g0, s)]
  BY <1>6, <1>7
<1> DEFINE iter == CHOOSE g : g = [s \in SUBSET D |-> Iterate(g, s)]
<1>9. iter = [s \in SUBSET D |-> Iterate(iter, s)]
  <2> HIDE DEF D, Iterate
  <2> QED  BY <1>8
<1>10. Untried = iter[D]
  <2>1. Untried = (CHOOSE g : g = [s \in SUBSET DOMAIN Variants |-> Iterate(g, s)])[DOMAIN Variants]
    BY DEF Untried, FoldLeft, MapThenFoldSet
  <2> HIDE DEF D, Iterate
  <2> QED  BY <1>1, <2>1
<1> HIDE DEF iter
<1>11. /\ iter[1 .. 0] = <<>>
       /\ \A i \in D : iter[1 .. i] = AddUntried(iter[1 .. i - 1], Variants[i])
  <2>1. \A s \in SUBSET D : iter[s] = Iterate(iter, s)
    BY <1>9
  <2>2. 1 .. 0 = {} /\ {} \in SUBSET D
    OBVIOUS
  <2>3. ASSUME NEW i \in D  PROVE iter[1 .. i] = AddUntried(iter[1 .. i - 1], Variants[i])
    <3>1. 1 .. i \in SUBSET D /\ 1 .. i # {} /\ i \in Nat \ {0}
      <4>1. i \in 1 .. N /\ N \in Nat
        BY <1>1
      <4> HIDE DEF N
      <4>2. \A j \in 1 .. i : j \in 1 .. N
        BY <4>1
      <4>3. i \in Nat \ {0} /\ i \in 1 .. i
        BY <4>1
      <4> QED  BY <4>2, <4>3
    <3>2. Max(1 .. i) = i /\ (1 .. i) \ {i} = 1 .. i - 1
      BY <3>1, MaxOfFirst
    <3> HIDE DEF D
    <3> QED  BY <2>1, <3>1, <3>2
  <2> QED  BY <2>1, <2>2, <2>3
<1> DEFINE First(i) == {Variants[j] : j \in 1 .. i}
           G == {i \in 0 .. N : Fresh(iter[1 .. i]) /\ Members(iter[1 .. i]) \subseteq First(i)}
<1>12. 0 \in G
  <2>1. Fresh(<<>>) /\ Members(<<>>) = {}
    BY DEF Fresh, Members, IsInjective
  <2> QED  BY <1>1, <1>11, <2>1
<1>13. ASSUME NEW i \in 1 .. N, i - 1 \in G  PROVE i \in G
  <2> DEFINE q == iter[1 .. i - 1]
             c == Variants[i]
  <2>1. Fresh(q) /\ Members(q) \subseteq First(i - 1) /\ q \in Seq(Candidates) /\ c \in Candidates
    BY <1>1, <1>13 DEF Fresh
  <2>2. c \notin First(i - 1) /\ First(i) = First(i - 1) \cup {c}
    <3>1. \A j \in 1 .. i - 1 : j \in D /\ i \in D /\ j # i
      BY <1>1
    <3>2. c \notin First(i - 1)
      <4> HIDE DEF D, N
      <4> QED  BY <1>1, <3>1 DEF IsInjective
    <3>3. 1 .. i = (1 .. i - 1) \cup {i}
      BY <1>1
    <3> QED  BY <3>2, <3>3
  <2>3. iter[1 .. i] = AddUntried(q, c) /\ i \in 0 .. N
    BY <1>1, <1>11
  <2>4. Fresh(AddUntried(q, c)) /\ Members(AddUntried(q, c)) \subseteq Members(q) \cup {c}
    <3> HIDE DEF q, c, First
    <3> QED  BY <2>1, <2>2, AddUntriedKeeps
  <2> HIDE DEF q, c, First
  <2> QED  BY <2>1, <2>2, <2>3, <2>4 DEF G
<1>14. N \in G
  <2> HIDE DEF N, G
  <2> QED  BY <1>1, <1>12, <1>13, TraceInduction
<1> QED  BY <1>10, <1>14

(* Which candidates results name as trained.                               *)
LEMMA TrainedInIs ==
  ASSUME NEW rs, NEW c
  PROVE  c \in TrainedIn(rs) <=> \E i \in DOMAIN rs : rs[i].status = "trained" /\ rs[i].candidate = c
BY DEF TrainedIn, ToSet

LEMMA TrainedInMore ==
  ASSUME NEW rs \in Seq(Results), NEW r \in Results
  PROVE  TrainedIn(Append(rs, r)) = TrainedIn(rs) \cup (IF r.status = "trained" THEN {r.candidate} ELSE {})
<1> DEFINE n == Len(rs) + 1
           more == Append(rs, r)
<1>1. more[n] = r /\ DOMAIN more = DOMAIN rs \cup {n} /\ \A i \in DOMAIN rs : more[i] = rs[i]
  OBVIOUS
<1> HIDE DEF more, n
<1>2. TrainedIn(more) = TrainedIn(rs) \cup (IF r.status = "trained" THEN {r.candidate} ELSE {})
  <2>1. ASSUME NEW c  PROVE c \in TrainedIn(more) <=> c \in TrainedIn(rs) \/ (r.status = "trained" /\ c = r.candidate)
    BY <1>1, TrainedInIs
  <2> QED  BY <2>1
<1> QED  BY <1>2 DEF more

LEMMA TrainedInSkipped ==
  ASSUME NEW rs \in Seq(Results), NEW ss \in Seq(Results),
         \A i \in DOMAIN ss : ss[i].status = "skipped"
  PROVE  TrainedIn(rs \o ss) = TrainedIn(rs)
<1> DEFINE all == rs \o ss
<1>1. /\ DOMAIN rs \subseteq DOMAIN all /\ \A i \in DOMAIN rs : all[i] = rs[i]
      /\ \A i \in DOMAIN all \ DOMAIN rs : all[i].status = "skipped"
  <2>1. /\ DOMAIN all = 1 .. Len(rs) + Len(ss) /\ DOMAIN rs = 1 .. Len(rs) /\ DOMAIN ss = 1 .. Len(ss)
        /\ Len(rs) \in Nat /\ Len(ss) \in Nat
        /\ \A i \in DOMAIN all : all[i] = IF i \in DOMAIN rs THEN rs[i] ELSE ss[i - Len(rs)]
    OBVIOUS
  <2> HIDE DEF all
  <2>2. \A i \in DOMAIN all \ DOMAIN rs : i - Len(rs) \in DOMAIN ss
    BY <2>1
  <2> QED  BY <2>1, <2>2
<1> HIDE DEF all
<1>2. ASSUME NEW c  PROVE c \in TrainedIn(all) <=> c \in TrainedIn(rs)
  BY <1>1, TrainedInIs
<1>3. TrainedIn(all) = TrainedIn(rs)
  BY <1>2
<1> QED  BY <1>3 DEF all

LEMMA TrainedInEvaluated ==
  ASSUME NEW rs \in Seq(Results), NEW n \in DOMAIN rs
  PROVE  TrainedIn([rs EXCEPT ![n].status = "trained"]) = TrainedIn(rs) \cup {rs[n].candidate}
<1> DEFINE new == [rs EXCEPT ![n].status = "trained"]
<1>1. rs[n] \in Results
  OBVIOUS
<1>2. /\ DOMAIN new = DOMAIN rs /\ new[n].candidate = rs[n].candidate /\ new[n].status = "trained"
      /\ \A i \in DOMAIN rs \ {n} : new[i] = rs[i]
  BY <1>1 DEF Results
<1> HIDE DEF new
<1>3. ASSUME NEW c  PROVE c \in TrainedIn(new) <=> c \in TrainedIn(rs) \/ c = rs[n].candidate
  BY <1>2, TrainedInIs
<1>4. TrainedIn(new) = TrainedIn(rs) \cup {rs[n].candidate}
  BY <1>3
<1> QED  BY <1>4 DEF new

LEMMA TrainedInHead ==
  ASSUME NEW rs \in Seq(Results), rs # <<>>
  PROVE  TrainedIn(rs) = TrainedIn(<<Head(rs)>>) \cup TrainedIn(Tail(rs))
<1> DEFINE t == Tail(rs)
           h == <<Head(rs)>>
<1>1. /\ DOMAIN rs = 1 .. Len(rs) /\ Len(rs) \in Nat /\ Len(rs) > 0
      /\ DOMAIN t = 1 .. Len(rs) - 1 /\ \A i \in DOMAIN t : t[i] = rs[i + 1]
      /\ DOMAIN h = {1} /\ h[1] = rs[1]
  OBVIOUS
<1> HIDE DEF t, h
<1>2. ASSUME NEW c  PROVE c \in TrainedIn(rs) <=> c \in TrainedIn(h) \/ c \in TrainedIn(t)
  <2>1. ASSUME c \in TrainedIn(rs)  PROVE c \in TrainedIn(h) \/ c \in TrainedIn(t)
    <3>1. PICK i \in DOMAIN rs : rs[i].status = "trained" /\ rs[i].candidate = c
      BY <2>1, TrainedInIs
    <3>2. CASE i = 1
      BY <1>1, <3>1, <3>2, TrainedInIs
    <3>3. CASE i # 1
      <4>1. i - 1 \in DOMAIN t /\ (i - 1) + 1 = i
        BY <1>1, <3>3
      <4>2. t[i - 1] = rs[i]
        BY <1>1, <4>1
      <4> QED  BY <3>1, <4>1, <4>2, TrainedInIs
    <3> QED  BY <3>2, <3>3
  <2>2. ASSUME c \in TrainedIn(h) \/ c \in TrainedIn(t)  PROVE c \in TrainedIn(rs)
    <3>1. \A i \in DOMAIN t : i + 1 \in DOMAIN rs
      BY <1>1
    <3>2. 1 \in DOMAIN rs
      BY <1>1
    <3>3. ASSUME c \in TrainedIn(h)  PROVE c \in TrainedIn(rs)
      BY <1>1, <3>2, <3>3, TrainedInIs
    <3>4. ASSUME c \in TrainedIn(t)  PROVE c \in TrainedIn(rs)
      BY <1>1, <3>1, <3>4, TrainedInIs
    <3> QED  BY <2>2, <3>3, <3>4
  <2> QED  BY <2>1, <2>2
<1>3. TrainedIn(rs) = TrainedIn(h) \cup TrainedIn(t)
  BY <1>2
<1> QED  BY <1>3 DEF h, t

LEMMA TrainedInNone == TrainedIn(<<>>) = {}
BY TrainedInIs

LEMMA TrainedInTyped == ASSUME NEW rs \in Seq(Results)  PROVE TrainedIn(rs) \subseteq Candidates
<1>1. \A i \in DOMAIN rs : rs[i] \in Results
  OBVIOUS
<1>2. \A i \in DOMAIN rs : rs[i].candidate \in Candidates
  BY <1>1 DEF Results
<1> QED  BY <1>2, TrainedInIs

(* What is left of a queue when its head is done.                          *)
LEMMA FreshTail ==
  ASSUME NEW q \in Seq(Candidates), q # <<>>, IsInjective(q)
  PROVE  /\ Tail(q) \in Seq(Candidates) /\ IsInjective(Tail(q)) /\ Head(q) \in Candidates
         /\ Members(q) = Members(Tail(q)) \cup {Head(q)} /\ Head(q) \notin Members(Tail(q))
<1> DEFINE t == Tail(q)
<1>1. /\ DOMAIN q = 1 .. Len(q) /\ Len(q) \in Nat /\ Len(q) > 0
      /\ t \in Seq(Candidates) /\ DOMAIN t = 1 .. Len(q) - 1 /\ \A i \in DOMAIN t : t[i] = q[i + 1]
      /\ Head(q) = q[1] /\ q[1] \in Candidates
  OBVIOUS
<1> HIDE DEF t
<1>2. \A i \in DOMAIN t : i + 1 \in DOMAIN q /\ i + 1 # 1
  BY <1>1
<1>3. 1 \in DOMAIN q /\ \A i \in DOMAIN q : i # 1 => i - 1 \in DOMAIN t /\ (i - 1) + 1 = i
  BY <1>1
<1>4. IsInjective(t)
  <2> SUFFICES ASSUME NEW i \in DOMAIN t, NEW j \in DOMAIN t, t[i] = t[j]  PROVE i = j
    BY DEF IsInjective
  <2>1. i + 1 = j + 1
    BY <1>1, <1>2 DEF IsInjective
  <2> QED  BY <1>1, <2>1
<1>5. Members(q) = Members(t) \cup {q[1]}
  <2>1. \A i \in DOMAIN q : i # 1 => q[i] = t[i - 1]
    BY <1>1, <1>3
  <2> QED  BY <1>1, <1>2, <1>3, <2>1 DEF Members
<1>6. ASSUME NEW i \in DOMAIN t, t[i] = q[1]  PROVE FALSE
  <2>1. i + 1 = 1
    BY <1>1, <1>2, <1>3, <1>6 DEF IsInjective
  <2> QED  BY <1>2, <2>1
<1>7. q[1] \notin Members(t)
  BY <1>6 DEF Members
<1> QED  BY <1>1, <1>4, <1>5, <1>7 DEF t

(* The inductive invariant.  What is queued is not remembered and not      *)
(* trained, and nothing is queued once the results are final.              *)
Queued ==
  /\ cycle.pc \in {"training", "evaluate"} => cycle.queue # <<>>
  /\ cycle.pc \in {"none", "report", "record"} => cycle.queue = <<>>
  /\ cycle.pc = "none" => cycle = NoCycle
  /\ Fresh(cycle.queue) /\ Members(cycle.queue) \cap TrainedIn(cycle.results) = {}
  /\ cycle.pc = "evaluate" =>
       /\ cycle.results # <<>> /\ Last(cycle.results).status = "training"
       /\ Last(cycle.results).candidate = Head(cycle.queue)

(* A training that was started and neither failed nor was lost is          *)
(* remembered, or in the hands of the cycle that will have it remembered.  *)
InHand(c) ==
  IF cycle.pc = "record" THEN c \in TrainedIn(cycle.unrecorded)
  ELSE \/ c \in TrainedIn(cycle.results)
       \/ cycle.pc \in {"training", "evaluate"} /\ c = Head(cycle.queue)
Paid == \A c \in Candidates \ lost : runs[c] <= 1 /\ (runs[c] > 0 => c \in tried \/ InHand(c))
Known == tried \subseteq reported /\ (cycle.pc = "record" => TrainedIn(cycle.unrecorded) \subseteq reported)

Spent ==
  /\ cycle.spent = SpentOf(cycle.results) /\ cycle.spent <= Budget + Overrun
  /\ cycle.pc = "training" => cycle.spent + Estimate[Head(cycle.queue)] <= Budget
SkippedLast(rs) ==
  \A i, j \in DOMAIN rs : i < j /\ rs[i].status = "skipped" => rs[j].status = "skipped"
NoneSkipped(rs) == \A i \in DOMAIN rs : rs[i].status # "skipped"
Ordered ==
  /\ cycle.pc \notin {"report", "record"} => NoneSkipped(cycle.results)
  /\ SkippedLast(cycle.results)

CycleInv == CycleTypes /\ Queued /\ Paid /\ Known /\ Spent /\ Ordered

LEMMA NoCycleIsTyped == NoCycle \in Cycles
BY DEF NoCycle, Cycles

LEMMA CycleFields ==
  ASSUME CycleTypes
  PROVE  /\ cycle.queue \in Seq(Candidates) /\ cycle.spent \in Nat
         /\ cycle.results \in Seq(Results) /\ cycle.unrecorded \in Seq(Results)
         /\ cycle.pc \in {"none", "next", "training", "evaluate", "report", "record"}
         /\ cycle = [pc |-> cycle.pc, queue |-> cycle.queue, spent |-> cycle.spent,
                     results |-> cycle.results, unrecorded |-> cycle.unrecorded]
BY DEF CycleTypes, Cycles

LEMMA EmptyQueueIsFresh == Fresh(<<>>) /\ Members(<<>>) = {}
BY DEF Fresh, Members, IsInjective

LEMMA NoneSkippedInOrder == ASSUME NEW rs, NoneSkipped(rs) PROVE SkippedLast(rs)
BY DEF NoneSkipped, SkippedLast

LEMMA NoneSkippedMore ==
  ASSUME NEW rs \in Seq(Results), NEW r \in Results, NoneSkipped(rs), r.status # "skipped"
  PROVE  NoneSkipped(Append(rs, r))
<1>1. \A i \in DOMAIN Append(rs, r) : Append(rs, r)[i] = r \/ (i \in DOMAIN rs /\ Append(rs, r)[i] = rs[i])
  OBVIOUS
<1> QED  BY <1>1 DEF NoneSkipped

LEMMA CycleInitOK == CycleAssumption /\ CycleInit => CycleInv
<1> SUFFICES ASSUME CycleAssumption, CycleInit  PROVE CycleInv
  OBVIOUS
<1>1. /\ cycle.pc = "none" /\ cycle.queue = <<>> /\ cycle.spent = 0 /\ cycle.results = <<>>
      /\ cycle = NoCycle /\ tried = {} /\ lost = {} /\ reported = {}
      /\ runs = [c \in Candidates |-> 0]
  BY DEF CycleInit, NoCycle
<1>2. CycleTypes
  BY <1>1, NoCycleIsTyped DEF CycleTypes
<1>3. Queued
  BY <1>1, EmptyQueueIsFresh DEF Queued
<1>4. Paid /\ Known
  BY <1>1 DEF Paid, Known
<1>5. Spent
  <2>1. Budget + Overrun \in Nat
    BY DEF CycleAssumption
  <2>2. 0 <= Budget + Overrun
    BY <2>1
  <2> QED  BY <1>1, <2>2, SpentOfNone DEF Spent
<1>6. Ordered
  BY <1>1 DEF Ordered, NoneSkipped, SkippedLast
<1> QED  BY <1>2, <1>3, <1>4, <1>5, <1>6 DEF CycleInv

LEMMA DiscoverKeeps == CycleAssumption /\ CycleInv /\ DiscoverCandidates => CycleInv'
<1> SUFFICES ASSUME CycleAssumption, CycleInv, DiscoverCandidates  PROVE CycleInv'
  OBVIOUS
<1>1. /\ cycle'.pc = "next" /\ cycle'.queue = Untried /\ cycle'.spent = 0 /\ cycle'.results = <<>>
      /\ cycle'.unrecorded = <<>>
      /\ cycle' = [pc |-> "next", queue |-> Untried, spent |-> 0, results |-> <<>>, unrecorded |-> <<>>]
      /\ tried' = tried /\ lost' = lost /\ reported' = reported /\ runs' = runs
  BY DEF DiscoverCandidates, NoCycle
<1>2. Fresh(Untried) /\ cycle.pc = "none" /\ cycle.results = <<>>
  BY UntriedIsFresh DEF CycleInv, Queued, NoCycle, DiscoverCandidates
<1>3. CycleTypes'
  BY <1>1, <1>2 DEF CycleTypes, Cycles, Fresh, CycleInv
<1>4. Queued'
  BY <1>1, <1>2, TrainedInNone DEF Queued, Fresh
<1>5. Paid'
  <2>1. \A c : ~ InHand(c)
    BY <1>2, TrainedInNone DEF InHand
  <2> QED  BY <1>1, <2>1 DEF Paid, CycleInv
<1>6. Known'
  BY <1>1 DEF Known, CycleInv
<1>7. Spent'
  <2>1. Budget + Overrun \in Nat
    BY DEF CycleAssumption
  <2>2. 0 <= Budget + Overrun
    BY <2>1
  <2> QED  BY <1>1, <2>2, SpentOfNone DEF Spent
<1>8. Ordered'
  BY <1>1 DEF Ordered, NoneSkipped, SkippedLast
<1> QED  BY <1>3, <1>4, <1>5, <1>6, <1>7, <1>8 DEF CycleInv

LEMMA StopKeeps == CycleAssumption /\ CycleInv /\ StopAtBudget => CycleInv'
<1> SUFFICES ASSUME CycleAssumption, CycleInv, StopAtBudget  PROVE CycleInv'
  OBVIOUS
<1> DEFINE q == cycle.queue
           rs == cycle.results
           ss == [i \in DOMAIN q |-> Result(q[i], "skipped", Estimate[q[i]])]
<1>0. q \in Seq(Candidates) /\ rs \in Seq(Results) /\ cycle.spent \in Nat /\ cycle.unrecorded \in Seq(Results)
  BY CycleFields DEF CycleInv
<1>1. /\ cycle'.pc = "report" /\ cycle'.queue = <<>> /\ cycle'.spent = cycle.spent
      /\ cycle'.results = rs \o ss /\ cycle'.unrecorded = cycle.unrecorded
      /\ cycle' = [pc |-> "report", queue |-> <<>>, spent |-> cycle.spent, results |-> rs \o ss,
                   unrecorded |-> cycle.unrecorded]
      /\ tried' = tried /\ lost' = lost /\ reported' = reported /\ runs' = runs /\ cycle.pc = "next"
  BY CycleFields DEF StopAtBudget, CycleInv
<1>2. ss \in Seq(Results) /\ \A i \in DOMAIN ss : ss[i].status = "skipped"
  <2>1. DOMAIN q = 1 .. Len(q) /\ Len(q) \in Nat /\ \A i \in DOMAIN q : q[i] \in Candidates
    BY <1>0
  <2>2. \A i \in DOMAIN q : Result(q[i], "skipped", Estimate[q[i]]) \in Results
    BY <2>1 DEF Result, Results, Statuses, CycleAssumption
  <2>3. \A i \in DOMAIN q : Result(q[i], "skipped", Estimate[q[i]]).status = "skipped"
    BY DEF Result
  <2> HIDE DEF q
  <2> QED  BY <2>1, <2>2, <2>3
<1> HIDE DEF q, ss
<1>3. TrainedIn(rs \o ss) = TrainedIn(rs) /\ SpentOf(rs \o ss) = SpentOf(rs)
  BY <1>0, <1>2, TrainedInSkipped, SpentOfSkipped
<1>4. rs \o ss \in Seq(Results)
  BY <1>0, <1>2
<1>5. CycleTypes'
  BY <1>0, <1>1, <1>4 DEF CycleTypes, Cycles, CycleInv
<1>6. Queued'
  BY <1>1, EmptyQueueIsFresh DEF Queued, Fresh
<1>7. Paid' /\ Known'
  BY <1>1, <1>3 DEF Paid, Known, InHand, CycleInv
<1>8. Spent'
  BY <1>1, <1>3 DEF Spent, CycleInv
<1>9. Ordered'
  <2>1. NoneSkipped(rs)
    BY <1>1 DEF CycleInv, Ordered
  <2>2. /\ DOMAIN rs = 1 .. Len(rs) /\ Len(rs) \in Nat /\ DOMAIN ss = 1 .. Len(ss) /\ Len(ss) \in Nat
        /\ DOMAIN (rs \o ss) = 1 .. Len(rs) + Len(ss)
        /\ \A i \in DOMAIN (rs \o ss) : (rs \o ss)[i] = IF i \in DOMAIN rs THEN rs[i] ELSE ss[i - Len(rs)]
    BY <1>0, <1>2
  <2> DEFINE all == rs \o ss
  <2> HIDE DEF all, rs
  <2>3. SkippedLast(all)
    <3> SUFFICES ASSUME NEW i \in DOMAIN all, NEW j \in DOMAIN all, i < j, all[i].status = "skipped"
                 PROVE  all[j].status = "skipped"
      BY DEF SkippedLast
    <3>1. i \notin DOMAIN rs
      BY <2>1, <2>2 DEF NoneSkipped, all
    <3>2. j \notin DOMAIN rs /\ j - Len(rs) \in DOMAIN ss
      BY <2>2, <3>1 DEF all
    <3> QED  BY <1>2, <2>2, <3>2 DEF all
  <2> QED  BY <1>1, <2>3 DEF Ordered, all
<1> QED  BY <1>5, <1>6, <1>7, <1>8, <1>9 DEF CycleInv

LEMMA TrainKeeps == CycleAssumption /\ CycleInv /\ Train => CycleInv'
<1> SUFFICES ASSUME CycleAssumption, CycleInv, Train  PROVE CycleInv'
  OBVIOUS
<1> DEFINE c == Head(cycle.queue)
<1>0. /\ cycle.queue \in Seq(Candidates) /\ cycle.queue # <<>> /\ cycle.pc = "next"
      /\ c \in Candidates /\ c \in Members(cycle.queue) /\ runs \in [Candidates -> Nat]
  <2>1. cycle.queue \in Seq(Candidates) /\ cycle.queue # <<>>
    BY CycleFields DEF CycleInv, Train
  <2>2. c \in Candidates /\ Members(cycle.queue) = Members(Tail(cycle.queue)) \cup {c}
    BY <2>1, FreshTail DEF CycleInv, Queued, Fresh
  <2> QED  BY <2>1, <2>2 DEF Train, CycleInv, CycleTypes
<1>1. /\ cycle'.pc = "training" /\ cycle'.queue = cycle.queue /\ cycle'.spent = cycle.spent
      /\ cycle'.results = cycle.results /\ cycle'.unrecorded = cycle.unrecorded
      /\ cycle' \in Cycles
      /\ tried' = tried /\ lost' = lost /\ reported' = reported
      /\ runs' = [runs EXCEPT ![c] = @ + 1]
  BY CycleFields DEF Train, CycleInv, CycleTypes, Cycles
<1>2. c \notin tried \cup TrainedIn(cycle.results)
  BY <1>0 DEF CycleInv, Queued, Fresh
<1>3. cycle.spent + Estimate[c] <= Budget
  BY DEF Train, Affordable
<1> HIDE DEF c
<1>4. CycleTypes'
  BY <1>0, <1>1 DEF CycleTypes, CycleInv
<1>5. Queued'
  BY <1>0, <1>1 DEF Queued, CycleInv, Fresh
<1>6. Paid'
  <2> SUFFICES ASSUME NEW d \in Candidates \ lost
               PROVE  runs'[d] <= 1 /\ (runs'[d] > 0 => d \in tried \/ InHand(d)')
    BY <1>1 DEF Paid
  <2>1. runs[d] <= 1 /\ (runs[d] > 0 => d \in tried \/ InHand(d)) /\ runs[d] \in Nat
    BY <1>0 DEF CycleInv, Paid
  <2>2. InHand(d) => d \in TrainedIn(cycle.results)
    BY <1>0 DEF InHand
  <2>3. InHand(d)' <=> d \in TrainedIn(cycle.results) \/ d = c
    BY <1>1 DEF InHand, c
  <2>4. CASE d = c
    <3>1. runs[d] = 0
      BY <1>2, <2>1, <2>2, <2>4
    <3> QED  BY <1>0, <1>1, <2>3, <2>4, <3>1
  <2>5. CASE d # c
    BY <1>0, <1>1, <2>1, <2>2, <2>3, <2>5
  <2> QED  BY <2>4, <2>5
<1>7. Known' /\ Ordered'
  BY <1>0, <1>1 DEF Known, Ordered, CycleInv
<1>8. Spent'
  BY <1>1, <1>3 DEF Spent, CycleInv, c
<1> QED  BY <1>4, <1>5, <1>6, <1>7, <1>8 DEF CycleInv

LEMMA FailsKeeps == CycleAssumption /\ CycleInv /\ TrainingFails => CycleInv'
<1> SUFFICES ASSUME CycleAssumption, CycleInv, TrainingFails  PROVE CycleInv'
  OBVIOUS
<1> DEFINE q == cycle.queue
           rs == cycle.results
           c == Head(q)
           r == Result(c, "failed", Estimate[c])
<1>0. /\ q \in Seq(Candidates) /\ q # <<>> /\ rs \in Seq(Results) /\ cycle.spent \in Nat
      /\ cycle.unrecorded \in Seq(Results) /\ cycle.pc = "training"
  BY CycleFields DEF CycleInv, TrainingFails, Queued
<1>q. /\ Tail(q) \in Seq(Candidates) /\ IsInjective(Tail(q)) /\ c \in Candidates
      /\ Members(q) = Members(Tail(q)) \cup {c} /\ c \notin Members(Tail(q))
  BY <1>0, FreshTail DEF CycleInv, Queued, Fresh
<1>e. Estimate[c] \in Nat /\ {Budget, Overrun} \subseteq Nat
  BY <1>q DEF CycleAssumption
<1>r. r \in Results /\ r.status = "failed" /\ CostOf(r) = Estimate[c]
  BY <1>e, <1>q DEF Result, Results, Statuses, CostOf
<1>1. /\ cycle'.pc = "next" /\ cycle'.queue = Tail(q) /\ cycle'.spent = cycle.spent + Estimate[c]
      /\ cycle'.results = Append(rs, r) /\ cycle'.unrecorded = cycle.unrecorded
      /\ cycle' = [pc |-> "next", queue |-> Tail(q), spent |-> cycle.spent + Estimate[c],
                   results |-> Append(rs, r), unrecorded |-> cycle.unrecorded]
      /\ tried' = tried /\ lost' = lost \cup {c} /\ reported' = reported /\ runs' = runs
  BY CycleFields DEF TrainingFails, CycleInv
<1> HIDE DEF q, rs, r, c
<1>2. /\ Append(rs, r) \in Seq(Results) /\ TrainedIn(Append(rs, r)) = TrainedIn(rs)
      /\ SpentOf(Append(rs, r)) = SpentOf(rs) + Estimate[c]
  <2>1. TrainedIn(Append(rs, r)) = TrainedIn(rs)
    BY <1>0, <1>r, TrainedInMore
  <2>2. SpentOf(Append(rs, r)) = SpentOf(rs) + Estimate[c]
    BY <1>0, <1>r, SpentOfMore
  <2> QED  BY <1>0, <1>r, <2>1, <2>2
<1>3. CycleTypes'
  <2>1. cycle.spent + Estimate[c] \in Nat
    BY <1>0, <1>e
  <2>2. cycle' \in Cycles
    BY <1>0, <1>1, <1>2, <1>q, <2>1 DEF Cycles
  <2> QED  BY <1>1, <1>q, <2>2 DEF CycleTypes, CycleInv
<1>4. Queued'
  BY <1>0, <1>1, <1>2, <1>q DEF Queued, CycleInv, Fresh, q, rs
<1>5. Paid'
  <2>1. \A d \in Candidates \ lost' : InHand(d) => InHand(d)'
    BY <1>0, <1>1, <1>2 DEF InHand, c, rs, q
  <2>2. \A d \in Candidates \ lost' : runs[d] <= 1 /\ (runs[d] > 0 => d \in tried \/ InHand(d))
    BY <1>1 DEF CycleInv, Paid
  <2> QED  BY <1>1, <2>1, <2>2 DEF Paid
<1>6. Known'
  BY <1>0, <1>1 DEF Known, CycleInv
<1>7. Spent'
  <2>1. cycle.spent + Estimate[c] <= Budget /\ cycle.spent = SpentOf(rs)
    BY <1>0 DEF CycleInv, Spent, c, q, rs
  <2>2. cycle.spent + Estimate[c] <= Budget + Overrun
    BY <2>1, <1>0, <1>e
  <2> QED  BY <1>1, <1>2, <2>1, <2>2 DEF Spent
<1>8. Ordered'
  <2>1. NoneSkipped(rs)
    BY <1>0 DEF CycleInv, Ordered, rs
  <2>2. NoneSkipped(Append(rs, r))
    BY <1>0, <1>r, <2>1, NoneSkippedMore
  <2>3. SkippedLast(Append(rs, r))
    BY <2>2, NoneSkippedInOrder
  <2> QED  BY <1>1, <2>2, <2>3 DEF Ordered
<1> QED  BY <1>3, <1>4, <1>5, <1>6, <1>7, <1>8 DEF CycleInv

LEMMA EndsKeeps == CycleAssumption /\ CycleInv /\ TrainingEnds => CycleInv'
<1> SUFFICES ASSUME CycleAssumption, CycleInv, TrainingEnds  PROVE CycleInv'
  OBVIOUS
<1> DEFINE q == cycle.queue
           rs == cycle.results
           c == Head(q)
<1>0. /\ q \in Seq(Candidates) /\ q # <<>> /\ rs \in Seq(Results) /\ cycle.spent \in Nat
      /\ cycle.unrecorded \in Seq(Results) /\ cycle.pc = "training"
  BY CycleFields DEF CycleInv, TrainingEnds, Queued
<1>q. c \in Candidates
  BY <1>0, FreshTail DEF CycleInv, Queued, Fresh
<1>e. Estimate[c] \in Nat /\ {Budget, Overrun} \subseteq Nat
  BY <1>q DEF CycleAssumption
<1>p. PICK cost \in 0 .. Estimate[c] + Overrun :
        cycle' = [cycle EXCEPT !.pc = "evaluate", !.spent = @ + cost,
                   !.results = Append(@, Result(c, "training", cost))]
  BY DEF TrainingEnds
<1>c. cost \in Nat /\ cost <= Estimate[c] + Overrun
  BY <1>e, <1>p
<1> DEFINE r == Result(c, "training", cost)
<1>r. r \in Results /\ r.status = "training" /\ r.candidate = c /\ CostOf(r) = cost
  BY <1>c, <1>q DEF Result, Results, Statuses, CostOf
<1>1. /\ cycle'.pc = "evaluate" /\ cycle'.queue = q /\ cycle'.spent = cycle.spent + cost
      /\ cycle'.results = Append(rs, r) /\ cycle'.unrecorded = cycle.unrecorded
      /\ cycle' = [pc |-> "evaluate", queue |-> q, spent |-> cycle.spent + cost,
                   results |-> Append(rs, r), unrecorded |-> cycle.unrecorded]
      /\ tried' = tried /\ lost' = lost /\ reported' = reported /\ runs' = runs
  BY <1>p, CycleFields DEF TrainingEnds, CycleInv
<1>l. /\ Append(rs, r) # <<>> /\ Last(Append(rs, r)) = r
  <2> HIDE DEF rs, r
  <2>1. rs \in Seq(Results) /\ r \in Results
    BY <1>0, <1>r
  <2>2. Len(Append(rs, r)) = Len(rs) + 1 /\ Append(rs, r)[Len(rs) + 1] = r
    BY <2>1
  <2>3. Append(rs, r) # <<>>
    <3>1. Len(rs) \in Nat
      BY <2>1
    <3>2. Len(Append(rs, r)) # 0 /\ Len(<<>>) = 0
      BY <2>2, <3>1
    <3> DEFINE a == Append(rs, r)
    <3> HIDE DEF a
    <3>3. a # <<>>
      BY <3>2 DEF a
    <3> QED  BY <3>3 DEF a
  <2> QED  BY <2>2, <2>3 DEF Last
<1> HIDE DEF q, rs, r, c
<1>2. /\ Append(rs, r) \in Seq(Results) /\ TrainedIn(Append(rs, r)) = TrainedIn(rs)
      /\ SpentOf(Append(rs, r)) = SpentOf(rs) + cost
  <2>1. TrainedIn(Append(rs, r)) = TrainedIn(rs)
    BY <1>0, <1>r, TrainedInMore
  <2>2. SpentOf(Append(rs, r)) = SpentOf(rs) + cost
    BY <1>0, <1>r, SpentOfMore
  <2> QED  BY <1>0, <1>r, <2>1, <2>2
<1>3. CycleTypes'
  <2>1. cycle.spent + cost \in Nat
    BY <1>0, <1>c
  <2>2. cycle' \in Cycles
    BY <1>0, <1>1, <1>2, <2>1 DEF Cycles
  <2> QED  BY <1>1, <2>2 DEF CycleTypes, CycleInv
<1>4. Queued'
  <2>1. Fresh(q) /\ Members(q) \cap TrainedIn(rs) = {}
    BY DEF CycleInv, Queued, q, rs
  <2> QED  BY <1>0, <1>1, <1>2, <1>l, <1>r, <2>1 DEF Queued, Fresh, c
<1>5. Paid'
  <2>1. \A d : InHand(d) <=> InHand(d)'
    BY <1>0, <1>1, <1>2 DEF InHand, rs, q
  <2>2. \A d \in Candidates \ lost : runs[d] <= 1 /\ (runs[d] > 0 => d \in tried \/ InHand(d))
    BY DEF CycleInv, Paid
  <2> QED  BY <1>1, <2>1, <2>2 DEF Paid
<1>6. Known'
  BY <1>0, <1>1 DEF Known, CycleInv
<1>7. Spent'
  <2>1. cycle.spent + Estimate[c] <= Budget /\ cycle.spent = SpentOf(rs)
    BY <1>0 DEF CycleInv, Spent, c, q, rs
  <2>2. cycle.spent + cost <= Budget + Overrun
    BY <2>1, <1>0, <1>e, <1>c
  <2> QED  BY <1>1, <1>2, <2>1, <2>2 DEF Spent
<1>8. Ordered'
  <2>1. NoneSkipped(rs)
    BY <1>0 DEF CycleInv, Ordered, rs
  <2>2. NoneSkipped(Append(rs, r))
    BY <1>0, <1>r, <2>1, NoneSkippedMore
  <2>3. SkippedLast(Append(rs, r))
    BY <2>2, NoneSkippedInOrder
  <2> QED  BY <1>1, <2>2, <2>3 DEF Ordered
<1> QED  BY <1>3, <1>4, <1>5, <1>6, <1>7, <1>8 DEF CycleInv

LEMMA EvaluateKeeps == CycleAssumption /\ CycleInv /\ EvaluateModel => CycleInv'
<1> SUFFICES ASSUME CycleAssumption, CycleInv, EvaluateModel  PROVE CycleInv'
  OBVIOUS
<1> DEFINE q == cycle.queue
           rs == cycle.results
           c == Head(q)
           n == Len(rs)
           new == [rs EXCEPT ![n].status = "trained"]
<1>0. /\ q \in Seq(Candidates) /\ q # <<>> /\ rs \in Seq(Results) /\ cycle.spent \in Nat
      /\ cycle.unrecorded \in Seq(Results) /\ cycle.pc = "evaluate"
      /\ rs # <<>> /\ rs[n].status = "training" /\ rs[n].candidate = c
  BY CycleFields DEF CycleInv, EvaluateModel, Queued, Last
<1>q. /\ Tail(q) \in Seq(Candidates) /\ IsInjective(Tail(q)) /\ c \in Candidates
      /\ Members(q) = Members(Tail(q)) \cup {c} /\ c \notin Members(Tail(q))
  BY <1>0, FreshTail DEF CycleInv, Queued, Fresh
<1>n. n \in DOMAIN rs
  <2> HIDE DEF rs
  <2> QED  BY <1>0
<1>1. /\ cycle'.pc = "next" /\ cycle'.queue = Tail(q) /\ cycle'.spent = cycle.spent
      /\ cycle'.results = new /\ cycle'.unrecorded = cycle.unrecorded
      /\ cycle' = [pc |-> "next", queue |-> Tail(q), spent |-> cycle.spent,
                   results |-> new, unrecorded |-> cycle.unrecorded]
      /\ tried' = tried /\ lost' = lost /\ reported' = reported /\ runs' = runs
  BY CycleFields DEF EvaluateModel, CycleInv
<1>t. rs[n] \in Results
  <2> HIDE DEF rs, n
  <2> QED  BY <1>0, <1>n
<1>2. /\ new \in Seq(Results) /\ DOMAIN new = DOMAIN rs /\ new[n].status = "trained"
      /\ \A i \in DOMAIN rs \ {n} : new[i] = rs[i]
  <2>1. [rs[n] EXCEPT !.status = "trained"] \in Results
    BY <1>t DEF Results, Statuses
  <2>2. new = [rs EXCEPT ![n] = [rs[n] EXCEPT !.status = "trained"]]
    OBVIOUS
  <2>3. [rs[n] EXCEPT !.status = "trained"].status = "trained"
    BY <1>t DEF Results
  <2> DEFINE x == [rs[n] EXCEPT !.status = "trained"]
  <2> HIDE DEF rs, n, new, x
  <2>4. /\ DOMAIN new = DOMAIN rs /\ new[n] = x /\ \A i \in DOMAIN rs \ {n} : new[i] = rs[i]
    BY <1>0, <1>n, <2>2 DEF x
  <2>5. [rs EXCEPT ![n] = x] \in Seq(Results)
    BY <1>0, <1>n, <2>1 DEF x
  <2>6. new = [rs EXCEPT ![n] = x]
    BY <2>2 DEF x
  <2> QED  BY <2>3, <2>4, <2>5, <2>6 DEF x
<1>3. TrainedIn(new) = TrainedIn(rs) \cup {c} /\ SpentOf(new) = SpentOf(rs)
  <2> HIDE DEF rs, n, c
  <2>1. TrainedIn(new) = TrainedIn(rs) \cup {c}
    BY <1>0, <1>n, TrainedInEvaluated
  <2>2. SpentOf(new) = SpentOf(rs)
    BY <1>0, <1>n, SpentOfEvaluated
  <2> QED  BY <2>1, <2>2
<1> HIDE DEF q, rs, c, n, new
<1>4. CycleTypes'
  <2>1. cycle' \in Cycles
    BY <1>0, <1>1, <1>2, <1>q DEF Cycles
  <2> QED  BY <1>1, <2>1 DEF CycleTypes, CycleInv
<1>5. Queued'
  <2>1. Fresh(q) /\ Members(q) \cap TrainedIn(rs) = {}
    BY DEF CycleInv, Queued, q, rs
  <2>2. Fresh(Tail(q)) /\ Members(Tail(q)) \cap TrainedIn(new) = {}
    BY <1>q, <1>3, <2>1 DEF Fresh
  <2> QED  BY <1>1, <2>2 DEF Queued, Fresh
<1>6. Paid'
  <2>1. \A d : InHand(d) => InHand(d)'
    BY <1>0, <1>1, <1>3 DEF InHand, rs, q, c
  <2>2. \A d \in Candidates \ lost : runs[d] <= 1 /\ (runs[d] > 0 => d \in tried \/ InHand(d))
    BY DEF CycleInv, Paid
  <2> QED  BY <1>1, <2>1, <2>2 DEF Paid
<1>7. Known'
  BY <1>0, <1>1 DEF Known, CycleInv
<1>8. Spent'
  BY <1>0, <1>1, <1>3 DEF CycleInv, Spent, rs
<1>9. Ordered'
  <2>1. NoneSkipped(rs)
    BY <1>0 DEF CycleInv, Ordered, rs
  <2>2. NoneSkipped(new)
    BY <1>2, <2>1 DEF NoneSkipped
  <2>3. SkippedLast(new)
    BY <2>2, NoneSkippedInOrder
  <2> QED  BY <1>1, <2>2, <2>3 DEF Ordered
<1> QED  BY <1>4, <1>5, <1>6, <1>7, <1>8, <1>9 DEF CycleInv

LEMMA DoneKeeps == CycleInv /\ CandidatesDone => CycleInv'
<1> SUFFICES ASSUME CycleInv, CandidatesDone  PROVE CycleInv'
  OBVIOUS
<1>1. /\ cycle'.pc = "report" /\ cycle'.queue = <<>> /\ cycle'.spent = cycle.spent
      /\ cycle'.results = cycle.results /\ cycle' \in Cycles /\ cycle.pc = "next"
      /\ tried' = tried /\ lost' = lost /\ reported' = reported /\ runs' = runs
  BY CycleFields DEF CandidatesDone, CycleInv, CycleTypes, Cycles
<1>2. CycleTypes'
  BY <1>1 DEF CycleTypes, CycleInv
<1>3. Queued'
  BY <1>1, EmptyQueueIsFresh DEF Queued, Fresh
<1>4. Paid' /\ Known'
  BY <1>1 DEF Paid, Known, InHand, CycleInv
<1>5. Spent' /\ Ordered'
  BY <1>1 DEF Spent, Ordered, CycleInv
<1> QED  BY <1>2, <1>3, <1>4, <1>5 DEF CycleInv

LEMMA ReportKeeps == CycleInv /\ WriteReport => CycleInv'
<1> SUFFICES ASSUME CycleInv, WriteReport  PROVE CycleInv'
  OBVIOUS
<1>1. /\ cycle'.pc = "record" /\ cycle'.queue = cycle.queue /\ cycle'.spent = cycle.spent
      /\ cycle'.results = cycle.results /\ cycle'.unrecorded = cycle.results
      /\ cycle' \in Cycles /\ cycle.pc = "report" /\ cycle.queue = <<>>
      /\ reported' = reported \cup TrainedIn(cycle.results)
      /\ tried' = tried /\ lost' = lost /\ runs' = runs
  BY CycleFields DEF WriteReport, CycleInv, CycleTypes, Cycles, Queued
<1>2. TrainedIn(cycle.results) \subseteq Candidates
  BY CycleFields, TrainedInTyped DEF CycleInv
<1>3. CycleTypes'
  BY <1>1, <1>2 DEF CycleTypes, CycleInv
<1>4. Queued'
  BY <1>1, EmptyQueueIsFresh DEF Queued, Fresh
<1>5. Paid' /\ Known'
  BY <1>1 DEF Paid, Known, InHand, CycleInv
<1>6. Spent' /\ Ordered'
  BY <1>1 DEF Spent, Ordered, CycleInv
<1> QED  BY <1>3, <1>4, <1>5, <1>6 DEF CycleInv

LEMMA RecordKeeps == CycleInv /\ RecordTried => CycleInv'
<1> SUFFICES ASSUME CycleInv, RecordTried  PROVE CycleInv'
  OBVIOUS
<1> DEFINE u == cycle.unrecorded
           now == TrainedIn(<<Head(u)>>)
<1>0. u \in Seq(Results) /\ u # <<>> /\ Tail(u) \in Seq(Results)
  BY CycleFields DEF CycleInv, RecordTried
<1>1. /\ cycle'.pc = "record" /\ cycle'.queue = <<>> /\ cycle'.spent = cycle.spent
      /\ cycle'.results = cycle.results /\ cycle'.unrecorded = Tail(u)
      /\ cycle' \in Cycles /\ cycle.pc = "record"
      /\ tried' = tried \cup now
      /\ reported' = reported /\ lost' = lost /\ runs' = runs
  BY <1>0, CycleFields DEF RecordTried, CycleInv, CycleTypes, Cycles, Queued
<1>2. TrainedIn(u) = now \cup TrainedIn(Tail(u)) /\ TrainedIn(u) \subseteq Candidates
  BY <1>0, TrainedInHead, TrainedInTyped
<1>3. TrainedIn(u) \subseteq reported
  BY <1>1 DEF CycleInv, Known
<1> HIDE DEF u, now
<1>4. CycleTypes'
  BY <1>1, <1>2 DEF CycleTypes, CycleInv
<1>5. Queued'
  BY <1>1, EmptyQueueIsFresh DEF Queued, Fresh
<1>6. Paid'
  <2>1. \A d : InHand(d) => d \in now \/ InHand(d)'
    BY <1>1, <1>2 DEF InHand, u
  <2>2. \A d \in Candidates \ lost : runs[d] <= 1 /\ (runs[d] > 0 => d \in tried \/ InHand(d))
    BY DEF CycleInv, Paid
  <2> QED  BY <1>1, <2>1, <2>2 DEF Paid
<1>7. Known'
  BY <1>1, <1>2, <1>3 DEF Known, CycleInv
<1>8. Spent' /\ Ordered'
  BY <1>1 DEF Spent, Ordered, CycleInv
<1> QED  BY <1>4, <1>5, <1>6, <1>7, <1>8 DEF CycleInv

(* No cycle runs: what a step to this leaves to show.                      *)
LEMMA OverKeeps ==
  ASSUME CycleAssumption, CycleInv, cycle' = NoCycle, tried' = tried, reported' = reported,
         runs' = runs, lost' \subseteq Candidates,
         \A c \in Candidates \ lost' : runs[c] <= 1 /\ (runs[c] > 0 => c \in tried)
  PROVE  CycleInv'
<1>1. /\ cycle'.pc = "none" /\ cycle'.queue = <<>> /\ cycle'.spent = 0
      /\ cycle'.results = <<>> /\ cycle' \in Cycles
  BY NoCycleIsTyped DEF NoCycle
<1>2. CycleTypes'
  BY <1>1 DEF CycleTypes, CycleInv
<1>3. Queued'
  BY <1>1, EmptyQueueIsFresh DEF Queued, Fresh
<1>4. Paid' /\ Known'
  BY <1>1 DEF Paid, Known, CycleInv
<1>5. Spent'
  <2>1. Budget + Overrun \in Nat
    BY DEF CycleAssumption
  <2>2. 0 <= Budget + Overrun
    BY <2>1
  <2> QED  BY <1>1, <2>2, SpentOfNone DEF Spent
<1>6. Ordered'
  BY <1>1 DEF Ordered, NoneSkipped, SkippedLast
<1> QED  BY <1>2, <1>3, <1>4, <1>5, <1>6 DEF CycleInv

LEMMA CycleOverKeeps == CycleAssumption /\ CycleInv /\ CycleOver => CycleInv'
<1> SUFFICES ASSUME CycleAssumption, CycleInv, CycleOver  PROVE CycleInv'
  OBVIOUS
<1>1. \A c : ~ InHand(c)
  BY TrainedInNone DEF CycleOver, InHand
<1>2. \A c \in Candidates \ lost : runs[c] <= 1 /\ (runs[c] > 0 => c \in tried)
  BY <1>1 DEF CycleInv, Paid
<1> QED  BY <1>2, OverKeeps DEF CycleOver, CycleInv, CycleTypes

LEMMA KillKeeps == CycleAssumption /\ CycleInv /\ Kill => CycleInv'
<1> SUFFICES ASSUME CycleAssumption, CycleInv, Kill  PROVE CycleInv'
  OBVIOUS
<1>1. lost' = lost \cup {c \in Candidates : runs[c] > 0 /\ c \notin tried}
  BY DEF Kill
<1>2. \A c \in Candidates \ lost' : runs[c] <= 1 /\ (runs[c] > 0 => c \in tried)
  BY <1>1 DEF CycleInv, Paid
<1>3. lost' \subseteq Candidates
  BY <1>1 DEF CycleInv, CycleTypes
<1> QED  BY <1>2, <1>3, OverKeeps DEF Kill

LEMMA CycleStuttersKeep == CycleInv /\ UNCHANGED cycleVars => CycleInv'
BY DEF cycleVars, CycleInv, CycleTypes, Queued, Fresh, Paid, InHand, Known, Spent, Ordered

LEMMA CycleNextKeeps == CycleAssumption /\ CycleInv /\ [CycleNext]_cycleVars => CycleInv'
BY DiscoverKeeps, StopKeeps, TrainKeeps, FailsKeeps, EndsKeeps, EvaluateKeeps, DoneKeeps, ReportKeeps,
   RecordKeeps, CycleOverKeeps, KillKeeps, CycleStuttersKeep DEF CycleNext, CycleStep

LEMMA CycleInvImplies == CycleInv => CycleAccounts
<1> SUFFICES ASSUME CycleInv  PROVE CycleAccounts
  OBVIOUS
<1>1. CycleTypeOK
  BY CycleFields DEF CycleInv, CycleTypes, CycleTypeOK
<1>2. PaidOnce
  BY DEF CycleInv, Paid, PaidOnce, CycleTypes
<1>3. Accounted /\ OrderAndCap
  BY DEF CycleInv, Known, Spent, Ordered, SkippedLast, Accounted, OrderAndCap
<1> QED  BY <1>1, <1>2, <1>3 DEF CycleAccounts

(* A step of the composition is a step of the cycle or leaves it alone.    *)
LEMMA CycleStepsOfAll ==
  [Next]_<<shop, algVars, cycleVars, gpuVars, houseVars>> => [CycleNext]_cycleVars
BY DEF Next, Algorithms, Research, Gpu, House

(* No candidate is trained twice unless its training failed or its cycle   *)
(* was killed; what is remembered was reported; the money spent is the sum *)
(* of the results and stays under the cap but for overruns; and nothing is *)
(* trained behind a candidate that was skipped (run_cycle, record_tried).  *)
THEOREM CycleIsAccounted == Spec => []CycleAccounts
<1>1. Init => CycleInv
  BY CycleAssumption, CycleInitOK DEF Init
<1>2. CycleInv /\ [Next]_<<shop, algVars, cycleVars, gpuVars, houseVars>> => CycleInv'
  BY CycleAssumption, CycleStepsOfAll, CycleNextKeeps
<1> QED  BY <1>1, <1>2, CycleInvImplies, PTL DEF Spec

-----------------------------------------------------------------------------
(* The GPU scripts.                                                        *)

GpuFiles == VolumeFiles \cup LocalFiles
Views == [GpuFiles -> 0 .. Whole]
GpuRuns == [script : Scripts, at : Nat \ {0}, fitting : BOOLEAN, client : BOOLEAN,
            view : Views, dirty : SUBSET VolumeFiles]

(* What the files of a Volume, and those a script sees, say of each other. *)
ModelFile(v) == v["es model"]
ResultFile(v) == v["es result"]
SampleFile(v) == v["es sample"]
Agree(v) ==
  /\ v["marker"] > 0 => v["corpus"] = Whole
  /\ ModelFile(v) <= v["es"] /\ (ResultFile(v) > 0 => ModelFile(v) > 0)

(* A script other than sample_es is the only writer of what it writes: it  *)
(* sees the Volume, but for its own changes.  sample_es sees an older one. *)
Writer(volume, v, dirty) ==
  /\ "es sample" \notin dirty /\ \A f \in VolumeFiles \ (dirty \cup {"es sample"}) : v[f] = volume[f]
  /\ Agree(v) /\ volume["es"] <= v["es"]
Sampler(volume, v, dirty) ==
  /\ dirty \subseteq {"es sample"} /\ v["es"] <= volume["es"]
  /\ "es sample" \in dirty => SampleFile(v) <= volume["es"]
ViewOK(volume, s, v, dirty) ==
  /\ v \in Views /\ v["image"] = Whole /\ dirty \subseteq VolumeFiles
  /\ s = sample_es => Sampler(volume, v, dirty)
  /\ s # sample_es => Writer(volume, v, dirty)

(* What the steps before a step have seen to.                              *)
Ready(s, k, v) ==
  /\ s.steps[k].op = "write" => v["marker"] = 0
  /\ s.steps[k].op = "copy" /\ s.steps[k].file = "marker" => v["corpus"] = Whole
  /\ s.steps[k].op = "deliver" => v[s.steps[k].file] > 0

RunOK(volume, r) ==
  /\ r \in GpuRuns /\ r.at \in DOMAIN r.script.steps
  /\ ViewOK(volume, r.script, r.view, r.dirty) /\ Ready(r.script, r.at, r.view)

VolumeOK ==
  /\ gpuVolume \in [VolumeFiles -> 0 .. Whole] /\ Agree(gpuVolume)
  /\ SampleFile(gpuVolume) <= gpuVolume["es"]

(* Only sample_es runs beside another script.                              *)
Alone(run) ==
  \A c, d \in Containers : c # d /\ run[c] # NoRun /\ run[d] # NoRun =>
    (run[c].script = sample_es <=> run[d].script # sample_es)

GpuInv ==
  /\ VolumeOK /\ 0 \notin saved
  /\ DOMAIN gpuRun = Containers /\ gpuRun = [c \in Containers |-> gpuRun[c]]
  /\ \A c \in Containers : gpuRun[c] = NoRun \/ RunOK(gpuVolume, gpuRun[c])
  /\ Alone(gpuRun)

(* What is so of the steps of every script: what a step writes from what,  *)
(* and which step goes before it.                                          *)
Writes == {"write", "copy", "fit"}
WellBuilt(st) ==
  /\ st.op \in {"skip_if", "need", "deliver"} => st.file \in GpuFiles
  /\ st.op \in Writes => st.file \in GpuFiles \ {"image"}
  /\ st.op \in Writes /\ st.file = "corpus" => st.op = "write"
  /\ st.op \in Writes /\ st.file = "marker" => st.op = "copy"
  /\ st.op \in Writes /\ st.file = "es" => st.op = "fit" /\ st.resume
  /\ st.op \in Writes /\ st.file = "es model" => st.op = "copy" /\ st.from = "es"
  /\ st.op \in Writes /\ st.file = "es result" => st.op = "copy" /\ st.from = "es model"
  /\ st.op \in Writes /\ st.file = "es sample" => st.op = "copy" /\ st.from = "es"
  /\ st.op = "write" => st.file = "corpus"
  /\ st.op = "copy" => st.from \in GpuFiles

Follows(p, st) ==
  /\ st.op = "write" => p.op = "skip_if" /\ p.file = "marker"
  /\ st.op = "copy" /\ st.file = "marker" => p.op = "write" /\ p.file = "corpus"
  /\ st.op = "deliver" =>
       /\ p.op \in {"need", "copy", "fit"} /\ p.file = st.file
       /\ p.op = "fit" => ~ p.swallow

(* A step that relies on none before it.                                   *)
Plain(st) ==
  WellBuilt(st) /\ st.op \notin {"write", "deliver"} /\ ~ (st.op = "copy" /\ st.file = "marker")

Built(ss) ==
  /\ DOMAIN ss = 1 .. Len(ss) /\ Len(ss) \in Nat \ {0}
  /\ \A k \in DOMAIN ss : WellBuilt(ss[k])
  /\ Plain(ss[1]) /\ \A k \in DOMAIN ss : k + 1 \in DOMAIN ss => Follows(ss[k], ss[k + 1])

LEMMA PlainFollows == ASSUME NEW p, NEW st, Plain(st)  PROVE Follows(p, st)
BY DEF Plain, Follows

LEMMA PlainSteps ==
  /\ \A f \in GpuFiles : Plain(SkipIf(f)) /\ Plain(Need(f))
  /\ Plain(CommitStep) /\ Plain(Reload)
<1>1. ASSUME NEW f \in GpuFiles  PROVE Plain(SkipIf(f)) /\ Plain(Need(f))
  BY DEF Plain, WellBuilt, Writes, SkipIf, Need
<1>2. Plain(CommitStep) /\ Plain(Reload)
  BY DEF Plain, WellBuilt, Writes, CommitStep, Reload
<1> QED  BY <1>1, <1>2

LEMMA PlainFit ==
  ASSUME NEW f \in {"local", "matcha", "piper", "piper more", "lj small", "lj full", "es"},
         NEW resume \in BOOLEAN, NEW swallow \in BOOLEAN, f = "es" => resume
  PROVE  Plain(Fit(f, resume, swallow))
<1>1. f \in GpuFiles \ {"image"}
  BY DEF GpuFiles, VolumeFiles, LocalFiles
<1> QED  BY <1>1 DEF Plain, WellBuilt, Writes, Fit

LEMMA PlainCopy ==
  /\ \A g \in {"local", "piper", "image"} : Plain(Copy("local model", g))
  /\ Plain(Copy("lj small model", "lj small")) /\ Plain(Copy("lj full model", "lj full"))
  /\ Plain(Copy("es model", "es")) /\ Plain(Copy("es result", "es model")) /\ Plain(Copy("es sample", "es"))
<1>1. /\ {"local model", "lj small model", "lj full model", "es model", "es result", "es sample"}
           \subseteq GpuFiles \ {"image"}
      /\ {"local", "piper", "image", "lj small", "lj full", "es", "es model"} \subseteq GpuFiles
  BY DEF GpuFiles, VolumeFiles, LocalFiles
<1>2. \A g \in {"local", "piper", "image"} : Plain(Copy("local model", g))
  BY <1>1 DEF Plain, WellBuilt, Writes, Copy
<1>3. Plain(Copy("lj small model", "lj small")) /\ Plain(Copy("lj full model", "lj full"))
  BY <1>1 DEF Plain, WellBuilt, Writes, Copy
<1>4. Plain(Copy("es model", "es"))
  BY <1>1 DEF Plain, WellBuilt, Writes, Copy
<1>5. Plain(Copy("es result", "es model"))
  BY <1>1 DEF Plain, WellBuilt, Writes, Copy
<1>6. Plain(Copy("es sample", "es"))
  BY <1>1 DEF Plain, WellBuilt, Writes, Copy
<1> QED  BY <1>2, <1>3, <1>4, <1>5, <1>6

LEMMA OtherSteps ==
  /\ WellBuilt(Write("corpus")) /\ WellBuilt(Mark("marker")) /\ \A f \in GpuFiles : WellBuilt(Deliver(f))
  /\ Follows(SkipIf("marker"), Write("corpus")) /\ Follows(Write("corpus"), Mark("marker"))
  /\ \A f, g \in GpuFiles : Follows(Need(f), Deliver(f)) /\ Follows(Copy(f, g), Deliver(f))
  /\ \A f \in GpuFiles, resume \in BOOLEAN : Follows(Fit(f, resume, FALSE), Deliver(f))
<1>1. {"corpus", "marker"} \subseteq GpuFiles \ {"image"} /\ "image" \in GpuFiles
  BY DEF GpuFiles, VolumeFiles, LocalFiles
<1>2. WellBuilt(Write("corpus")) /\ WellBuilt(Mark("marker"))
  BY <1>1 DEF WellBuilt, Writes, Write, Mark
<1>3. \A f \in GpuFiles : WellBuilt(Deliver(f))
  BY DEF WellBuilt, Writes, Deliver
<1>4. Follows(SkipIf("marker"), Write("corpus")) /\ Follows(Write("corpus"), Mark("marker"))
  BY DEF Follows, SkipIf, Write, Mark
<1>5. \A f, g \in GpuFiles : Follows(Need(f), Deliver(f)) /\ Follows(Copy(f, g), Deliver(f))
  BY DEF Follows, Need, Copy, Deliver
<1>6. \A f \in GpuFiles, resume \in BOOLEAN : Follows(Fit(f, resume, FALSE), Deliver(f))
  BY DEF Follows, Fit, Deliver
<1> QED  BY <1>2, <1>3, <1>4, <1>5, <1>6

(* Sequences of such steps are built so.                                   *)
LEMMA BuiltOfPlain ==
  ASSUME NEW ss, DOMAIN ss = 1 .. Len(ss), Len(ss) \in Nat \ {0}, \A k \in DOMAIN ss : Plain(ss[k])
  PROVE  Built(ss)
<1>1. \A k \in DOMAIN ss : k + 1 \in DOMAIN ss => Follows(ss[k], ss[k + 1])
  BY PlainFollows
<1>2. 1 \in DOMAIN ss
  OBVIOUS
<1> QED  BY <1>1, <1>2 DEF Built, Plain

LEMMA BuiltOfOne == ASSUME NEW a, Plain(a)  PROVE Built(<<a>>)
<1> DEFINE ss == <<a>>
<1>1. DOMAIN ss = 1 .. 1 /\ Len(ss) = 1 /\ ss[1] = a
  OBVIOUS
<1> HIDE DEF ss
<1>2. Built(ss)
  BY <1>1, BuiltOfPlain
<1> QED  BY <1>2 DEF ss

LEMMA BuiltOfTwo ==
  ASSUME NEW a, NEW b, Plain(a), WellBuilt(b), Follows(a, b)
  PROVE  Built(<<a, b>>)
<1> DEFINE ss == <<a, b>>
<1>1. DOMAIN ss = 1 .. 2 /\ Len(ss) = 2 /\ ss[1] = a /\ ss[2] = b
  OBVIOUS
<1> HIDE DEF ss
<1>2. Built(ss)
  BY <1>1 DEF Built, Plain
<1> QED  BY <1>2 DEF ss

LEMMA BuiltOfThree ==
  ASSUME NEW a, NEW b, NEW c, Plain(a), Plain(b), WellBuilt(c), Follows(b, c)
  PROVE  Built(<<a, b, c>>)
<1> DEFINE ss == <<a, b, c>>
<1>1. DOMAIN ss = 1 .. 3 /\ Len(ss) = 3 /\ ss[1] = a /\ ss[2] = b /\ ss[3] = c
  OBVIOUS
<1>2. Follows(a, b)
  BY PlainFollows
<1> HIDE DEF ss
<1>3. Built(ss)
  BY <1>1, <1>2 DEF Built, Plain
<1> QED  BY <1>3 DEF ss

LEMMA BuiltOfFour ==
  ASSUME NEW a, NEW b, NEW c, NEW d, Plain(a), WellBuilt(b), WellBuilt(c), Plain(d),
         Follows(a, b), Follows(b, c)
  PROVE  Built(<<a, b, c, d>>)
<1> DEFINE ss == <<a, b, c, d>>
<1>1. DOMAIN ss = 1 .. 4 /\ Len(ss) = 4 /\ ss[1] = a /\ ss[2] = b /\ ss[3] = c /\ ss[4] = d
  OBVIOUS
<1>2. Follows(c, d)
  BY PlainFollows
<1> HIDE DEF ss
<1>3. Built(ss)
  BY <1>1, <1>2 DEF Built, Plain
<1> QED  BY <1>3 DEF ss

LEMMA BuiltOfSix ==
  ASSUME NEW a, NEW b, NEW c, NEW d, NEW e, NEW f,
         Plain(a), Plain(b), Plain(c), Plain(d), Plain(e), Plain(f)
  PROVE  Built(<<a, b, c, d, e, f>>)
<1> DEFINE ss == <<a, b, c, d, e, f>>
<1>1. /\ DOMAIN ss = 1 .. 6 /\ Len(ss) = 6
      /\ ss[1] = a /\ ss[2] = b /\ ss[3] = c /\ ss[4] = d /\ ss[5] = e /\ ss[6] = f
  OBVIOUS
<1> HIDE DEF ss
<1>2. \A k \in DOMAIN ss : Plain(ss[k])
  BY <1>1
<1>3. Built(ss)
  BY <1>1, <1>2, BuiltOfPlain
<1> QED  BY <1>3 DEF ss

LEMMA BuiltOfEight ==
  ASSUME NEW a, NEW b, NEW c, NEW d, NEW e, NEW f, NEW g, NEW h,
         Plain(a), Plain(b), Plain(c), Plain(d), Plain(e), Plain(f), Plain(g), Plain(h)
  PROVE  Built(<<a, b, c, d, e, f, g, h>>)
<1> DEFINE ss == <<a, b, c, d, e, f, g, h>>
<1>1. /\ DOMAIN ss = 1 .. 8 /\ Len(ss) = 8
      /\ ss[1] = a /\ ss[2] = b /\ ss[3] = c /\ ss[4] = d /\ ss[5] = e /\ ss[6] = f
      /\ ss[7] = g /\ ss[8] = h
  OBVIOUS
<1> HIDE DEF ss
<1>2. \A k \in DOMAIN ss : Plain(ss[k])
  BY <1>1
<1>3. Built(ss)
  BY <1>1, <1>2, BuiltOfPlain
<1> QED  BY <1>3 DEF ss

LEMMA ScriptsAreBuilt == ASSUME NEW s \in Scripts  PROVE Built(s.steps)
<1>0. /\ VolumeFiles \cup LocalFiles = GpuFiles
      /\ {"marker", "corpus", "matcha", "piper", "local", "local model"} \subseteq GpuFiles
      /\ "local" \in GpuFiles /\ "image" \in GpuFiles
  BY DEF GpuFiles, VolumeFiles, LocalFiles
<1>1. Built(setup_corpus_volume.steps)
  BY <1>0, PlainSteps, OtherSteps, BuiltOfFour DEF setup_corpus_volume, Script
<1>2. Built(run_pilot.steps)
  BY <1>0, PlainFit, OtherSteps, BuiltOfTwo DEF run_pilot, Script
<1>3. Built(run_kokoro_pilot.steps) /\ Built(run_piper_pilot.steps)
  BY <1>0, PlainFit, BuiltOfOne DEF run_kokoro_pilot, run_piper_pilot, Script
<1>4. Built(kokoro_train_and_synthesize.steps)
  BY <1>0, PlainFit, PlainSteps, OtherSteps, BuiltOfThree DEF kokoro_train_and_synthesize, Script
<1>5. Built(piper_train_and_synthesize.steps)
  BY <1>0, PlainFit, PlainCopy, OtherSteps, BuiltOfThree DEF piper_train_and_synthesize, Script
<1>6. Built(run_full_finetune.steps) /\ Built(run_full_piper_finetune.steps)
  <2>1. Plain(CommitStep) => WellBuilt(CommitStep)
    BY DEF Plain
  <2> QED  BY <1>0, <2>1, PlainFit, PlainSteps, PlainFollows, BuiltOfThree
           DEF run_full_finetune, run_full_piper_finetune, Script
<1>7. Built(synthesize_full_ft.steps) /\ Built(synthesize_cpu.steps)
  BY <1>0, PlainSteps, OtherSteps, BuiltOfTwo DEF synthesize_full_ft, synthesize_cpu, Script
<1>8. Built(continue_piper_finetune.steps)
  <2>1. Plain(Need("piper")) /\ Plain(Fit("piper more", FALSE, TRUE)) /\ Plain(CommitStep) /\ Plain(Need("corpus"))
    BY <1>0, PlainFit, PlainSteps
  <2>2. WellBuilt(Need("piper")) /\ WellBuilt(Fit("piper more", FALSE, TRUE))
    BY <2>1 DEF Plain
  <2> QED  BY <2>1, <2>2, PlainFollows, BuiltOfFour DEF continue_piper_finetune, Script
<1>9. Built(export_piper_full.steps) /\ Built(export_ljspeech.steps)
  BY <1>0, PlainCopy, OtherSteps, BuiltOfTwo DEF export_piper_full, export_ljspeech, Script
<1>10. Built(lj_run_all.steps)
  BY <1>0, PlainFit, PlainSteps, PlainCopy, BuiltOfEight DEF lj_run_all, Script
<1>11. Built(train_es.steps)
  BY <1>0, PlainFit, PlainSteps, PlainCopy, BuiltOfSix DEF train_es, Script
<1>12. Built(sample_es.steps)
  <2>1. Plain(CommitStep) => WellBuilt(CommitStep)
    BY DEF Plain
  <2> QED  BY <1>0, <2>1, PlainSteps, PlainCopy, PlainFollows, BuiltOfThree DEF sample_es, Script
<1> QED  BY <1>1, <1>2, <1>3, <1>4, <1>5, <1>6, <1>7, <1>8, <1>9, <1>10, <1>11, <1>12 DEF Scripts

(* No script but sample_es writes its sample or looks at the Volume anew.  *)
Apart(st) == ~ (st.op \in Writes /\ st.file = "es sample") /\ st.op # "reload"

LEMMA ApartSteps ==
  /\ \A f : Apart(SkipIf(f)) /\ Apart(Need(f)) /\ Apart(Deliver(f))
  /\ Apart(CommitStep) /\ Apart(Write("corpus")) /\ Apart(Mark("marker"))
  /\ \A f, resume, swallow : f # "es sample" => Apart(Fit(f, resume, swallow))
  /\ \A f, g : f # "es sample" => Apart(Copy(f, g))
<1>1. \A f : Apart(SkipIf(f)) /\ Apart(Need(f)) /\ Apart(Deliver(f))
  BY DEF Apart, Writes, SkipIf, Need, Deliver
<1>2. Apart(CommitStep) /\ Apart(Write("corpus")) /\ Apart(Mark("marker"))
  BY DEF Apart, Writes, CommitStep, Write, Mark
<1>3. \A f, resume, swallow : f # "es sample" => Apart(Fit(f, resume, swallow))
  BY DEF Apart, Writes, Fit
<1>4. \A f, g : f # "es sample" => Apart(Copy(f, g))
  BY DEF Apart, Writes, Copy
<1> QED  BY <1>1, <1>2, <1>3, <1>4

AllApart(ss) == \A k \in DOMAIN ss : Apart(ss[k])

LEMMA TwoApart == ASSUME NEW a, NEW b, Apart(a), Apart(b)  PROVE AllApart(<<a>>) /\ AllApart(<<a, b>>)
BY DEF AllApart

LEMMA ThreeApart == ASSUME NEW a, NEW b, NEW c, Apart(a), Apart(b), Apart(c)  PROVE AllApart(<<a, b, c>>)
BY DEF AllApart

LEMMA FourApart ==
  ASSUME NEW a, NEW b, NEW c, NEW d, Apart(a), Apart(b), Apart(c), Apart(d)
  PROVE  AllApart(<<a, b, c, d>>)
BY DEF AllApart

LEMMA SixApart ==
  ASSUME NEW a, NEW b, NEW c, NEW d, NEW e, NEW f,
         Apart(a), Apart(b), Apart(c), Apart(d), Apart(e), Apart(f)
  PROVE  AllApart(<<a, b, c, d, e, f>>)
BY DEF AllApart

LEMMA EightApart ==
  ASSUME NEW a, NEW b, NEW c, NEW d, NEW e, NEW f, NEW g, NEW h, Apart(a), Apart(b), Apart(c),
         Apart(d), Apart(e), Apart(f), Apart(g), Apart(h)
  PROVE  AllApart(<<a, b, c, d, e, f, g, h>>)
BY DEF AllApart

LEMMA OthersAreApart == ASSUME NEW s \in Scripts, s # sample_es  PROVE AllApart(s.steps)
<1>1. AllApart(setup_corpus_volume.steps)
  BY ApartSteps, FourApart DEF setup_corpus_volume, Script
<1>2. AllApart(run_pilot.steps) /\ AllApart(run_kokoro_pilot.steps) /\ AllApart(run_piper_pilot.steps)
  BY ApartSteps, TwoApart DEF run_pilot, run_kokoro_pilot, run_piper_pilot, Script
<1>3. AllApart(kokoro_train_and_synthesize.steps) /\ AllApart(piper_train_and_synthesize.steps)
  BY ApartSteps, ThreeApart DEF kokoro_train_and_synthesize, piper_train_and_synthesize, Script
<1>4. AllApart(run_full_finetune.steps) /\ AllApart(run_full_piper_finetune.steps)
  BY ApartSteps, ThreeApart DEF run_full_finetune, run_full_piper_finetune, Script
<1>5. AllApart(synthesize_full_ft.steps) /\ AllApart(synthesize_cpu.steps)
  BY ApartSteps, TwoApart DEF synthesize_full_ft, synthesize_cpu, Script
<1>6. AllApart(continue_piper_finetune.steps)
  BY ApartSteps, FourApart DEF continue_piper_finetune, Script
<1>7. AllApart(export_piper_full.steps) /\ AllApart(export_ljspeech.steps)
  BY ApartSteps, TwoApart DEF export_piper_full, export_ljspeech, Script
<1>8. AllApart(lj_run_all.steps)
  BY ApartSteps, EightApart DEF lj_run_all, Script
<1>9. AllApart(train_es.steps)
  BY ApartSteps, SixApart DEF train_es, Script
<1> QED  BY <1>1, <1>2, <1>3, <1>4, <1>5, <1>6, <1>7, <1>8, <1>9 DEF Scripts

LEMMA SampleWritesItself ==
  ASSUME NEW k \in DOMAIN sample_es.steps, sample_es.steps[k].op \in Writes
  PROVE  sample_es.steps[k].file = "es sample"
<1>1. /\ sample_es.steps = <<Reload, Copy("es sample", "es"), CommitStep>>
      /\ Reload.op \notin Writes /\ CommitStep.op \notin Writes /\ Copy("es sample", "es").file = "es sample"
  BY DEF sample_es, Script, Writes, Reload, Copy, CommitStep
<1>2. \A a, b, c : \A i \in DOMAIN <<a, b, c>> : <<a, b, c>>[i] \in {a, b, c}
  OBVIOUS
<1>3. sample_es.steps[k] \in {Reload, Copy("es sample", "es"), CommitStep}
  BY <1>1, <1>2
<1> QED  BY <1>1, <1>3

LEMMA NoRunIsNone == ASSUME NEW r \in GpuRuns  PROVE r # NoRun
<1>1. NoRun.at = 0 /\ r.at # 0
  BY DEF GpuRuns, NoRun
<1> QED  BY <1>1

(* What the next step relies on is so when the step before it has passed.  *)
LEMMA ReadyNext ==
  ASSUME NEW s \in Scripts, NEW k \in DOMAIN s.steps, k + 1 \in DOMAIN s.steps, NEW v,
         s.steps[k].op = "skip_if" /\ s.steps[k].file = "marker" => v["marker"] = 0,
         s.steps[k].op = "write" => v["corpus"] = Whole,
         s.steps[k].op \in {"need", "copy"} => v[s.steps[k].file] > 0,
         s.steps[k].op = "fit" /\ ~ s.steps[k].swallow => v[s.steps[k].file] > 0
  PROVE  Ready(s, k + 1, v)
<1>1. Follows(s.steps[k], s.steps[k + 1])
  BY ScriptsAreBuilt DEF Built
<1> QED  BY <1>1 DEF Follows, Ready

LEMMA ReadyFirst == ASSUME NEW s \in Scripts, NEW v  PROVE Ready(s, 1, v) /\ 1 \in DOMAIN s.steps
<1>1. Built(s.steps)
  BY ScriptsAreBuilt
<1>2. Plain(s.steps[1]) /\ 1 \in DOMAIN s.steps
  BY <1>1 DEF Built
<1> QED  BY <1>2 DEF Plain, Ready

LEMMA ViewsAreNat ==
  /\ Whole \in Nat \ {0}
  /\ \A v \in Views : \A f \in GpuFiles : v[f] \in Nat /\ v[f] <= Whole
<1>1. Whole \in Nat \ {0}
  BY GpuAssumption DEF GpuAssumption
<1>2. ASSUME NEW v \in Views, NEW f \in GpuFiles  PROVE v[f] \in Nat /\ v[f] <= Whole
  <2>1. v[f] \in 0 .. Whole
    BY DEF Views
  <2> QED  BY <1>1, <2>1
<1> QED  BY <1>1, <1>2

LEMMA VolumeIsNat ==
  ASSUME VolumeOK
  PROVE  \A f \in VolumeFiles : gpuVolume[f] \in Nat /\ gpuVolume[f] <= Whole
<1>1. ASSUME NEW f \in VolumeFiles  PROVE gpuVolume[f] \in Nat /\ gpuVolume[f] <= Whole
  <2>1. gpuVolume[f] \in 0 .. Whole
    BY DEF VolumeOK
  <2> QED  BY ViewsAreNat, <2>1
<1> QED  BY <1>1

(* What a script writes keeps what its files say of each other.            *)
Writable(st, v, p) ==
  /\ st.op \in Writes /\ p \in 0 .. Whole
  /\ st.file = "corpus" => v["marker"] = 0 \/ p = Whole
  /\ st.file = "marker" => v["corpus"] = Whole
  /\ st.file = "es" => v["es"] <= p
  /\ st.op = "copy" => p = v[st.from] /\ p > 0
Filled(v, f, p) == [v EXCEPT ![f] = p]
Dirt(dirty, f) == IF f \in VolumeFiles THEN dirty \cup {f} ELSE dirty

LEMMA PutIsPut ==
  ASSUME NEW v \in Views, NEW f \in GpuFiles, f # "image", NEW p \in 0 .. Whole
  PROVE  /\ Filled(v, f, p) \in Views /\ Filled(v, f, p)[f] = p
         /\ \A g \in GpuFiles : g # f => Filled(v, f, p)[g] = v[g]
BY DEF Filled, Views

LEMMA PutAgrees ==
  ASSUME NEW st, WellBuilt(st), NEW v \in Views, NEW p, Writable(st, v, p), Agree(v)
  PROVE  /\ Agree(Filled(v, st.file, p)) /\ v["es"] <= Filled(v, st.file, p)["es"]
<1> DEFINE f == st.file
           w == Filled(v, f, p)
<1>1. f \in GpuFiles /\ f # "image" /\ p \in 0 .. Whole
  BY DEF WellBuilt, Writable
<1>2. w \in Views /\ w[f] = p /\ \A g \in GpuFiles : g # f => w[g] = v[g]
  BY <1>1, PutIsPut
<1>f. /\ "marker" \in GpuFiles /\ "corpus" \in GpuFiles /\ "es" \in GpuFiles /\ "es model" \in GpuFiles
      /\ "es result" \in GpuFiles
  BY DEF GpuFiles, VolumeFiles, LocalFiles
<1> HIDE DEF w, f
<1>3. w["marker"] > 0 => w["corpus"] = Whole
  <2>1. CASE f = "marker"
    <3>1. v["corpus"] = Whole
      BY <2>1 DEF Writable, f
    <3> QED  BY <1>2, <1>f, <2>1, <3>1
  <2>2. CASE f # "marker"
    <3>1. w["marker"] = v["marker"] /\ (v["marker"] > 0 => v["corpus"] = Whole)
      BY <1>2, <1>f, <2>2 DEF Agree
    <3>2. CASE f = "corpus"
      <4>1. v["marker"] = 0 \/ w["corpus"] = Whole
        BY <1>2, <3>2 DEF Writable, f
      <4> QED  BY <3>1, <4>1
    <3>3. CASE f # "corpus"
      BY <1>2, <1>f, <3>1, <3>3
    <3> QED  BY <3>2, <3>3
  <2> QED  BY <2>1, <2>2
<1>4. v["es"] \in Nat /\ ModelFile(v) \in Nat /\ w["es"] \in Nat
  BY <1>2, <1>f, ViewsAreNat DEF ModelFile
<1>5. v["es"] <= w["es"]
  <2>1. CASE f = "es"
    <3>1. v["es"] <= p
      BY <2>1 DEF Writable, f
    <3> QED  BY <1>2, <2>1, <3>1
  <2>2. CASE f # "es"
    <3>1. w["es"] = v["es"]
      BY <1>2, <1>f, <2>2
    <3> QED  BY <1>4, <3>1
  <2> QED  BY <2>1, <2>2
<1>6. ModelFile(w) <= w["es"]
  <2>1. CASE f = "es model"
    <3>1. p = v["es"]
      BY <2>1 DEF Writable, WellBuilt, f
    <3>2. ModelFile(w) = v["es"] /\ w["es"] = v["es"]
      BY <1>2, <1>f, <2>1, <3>1 DEF ModelFile
    <3> QED  BY <1>4, <3>2
  <2>2. CASE f # "es model"
    <3>1. ModelFile(w) = ModelFile(v)
      BY <1>2, <1>f, <2>2 DEF ModelFile
    <3>2. ModelFile(v) <= v["es"]
      BY DEF Agree
    <3> QED  BY <1>4, <1>5, <3>1, <3>2
  <2> QED  BY <2>1, <2>2
<1>7. ResultFile(w) > 0 => ModelFile(w) > 0
  <2>1. CASE f = "es result"
    <3>1. p = ModelFile(v) /\ p > 0
      BY <2>1 DEF Writable, WellBuilt, f, ModelFile
    <3>2. ModelFile(w) = ModelFile(v)
      BY <1>2, <1>f, <2>1 DEF ModelFile
    <3> QED  BY <3>1, <3>2
  <2>2. CASE f = "es model"
    <3>1. p > 0
      BY <2>2 DEF Writable, WellBuilt, f
    <3>2. ModelFile(w) = p
      BY <1>2, <2>2 DEF ModelFile
    <3> QED  BY <3>1, <3>2
  <2>3. CASE f # "es result" /\ f # "es model"
    <3>1. ResultFile(w) = ResultFile(v) /\ ModelFile(w) = ModelFile(v)
      BY <1>2, <1>f, <2>3 DEF ResultFile, ModelFile
    <3> QED  BY <3>1 DEF Agree
  <2> QED  BY <2>1, <2>2, <2>3
<1> QED  BY <1>3, <1>5, <1>6, <1>7 DEF Agree, w, f

LEMMA PutKeepsView ==
  ASSUME NEW s \in Scripts, NEW k \in DOMAIN s.steps, NEW v, NEW dirty, ViewOK(gpuVolume, s, v, dirty), VolumeOK,
         NEW p, Writable(s.steps[k], v, p)
  PROVE  ViewOK(gpuVolume, s, Filled(v, s.steps[k].file, p), Dirt(dirty, s.steps[k].file))
<1> DEFINE st == s.steps[k]
           f == st.file
           w == Filled(v, f, p)
           d == Dirt(dirty, f)
<1>1. WellBuilt(st)
  BY ScriptsAreBuilt DEF Built
<1>2. f \in GpuFiles /\ f # "image" /\ p \in 0 .. Whole /\ st.op \in Writes
  BY <1>1 DEF WellBuilt, Writable
<1>3. v \in Views /\ v["image"] = Whole /\ dirty \subseteq VolumeFiles
  BY DEF ViewOK
<1>f. "es" \in GpuFiles /\ "image" \in GpuFiles /\ "es" \in VolumeFiles /\ VolumeFiles \subseteq GpuFiles
  BY DEF GpuFiles, VolumeFiles, LocalFiles
<1>4. w \in Views /\ w[f] = p /\ \A g \in GpuFiles : g # f => w[g] = v[g]
  BY <1>2, <1>3, PutIsPut
<1>5. ASSUME s = sample_es  PROVE Sampler(gpuVolume, w, d)
  <2>1. f = "es sample"
    BY <1>2, <1>5, SampleWritesItself
  <2>2. p = v["es"] /\ Sampler(gpuVolume, v, dirty)
    BY <1>1, <1>2, <1>5, <2>1 DEF WellBuilt, ViewOK, Writable
  <2>3. d \subseteq {"es sample"} /\ w["es"] = v["es"] /\ SampleFile(w) = v["es"]
    <3> HIDE DEF w
    <3> QED  BY <1>4, <1>f, <2>1, <2>2 DEF Sampler, Dirt, SampleFile
  <2> HIDE DEF w, d
  <2> QED  BY <2>2, <2>3 DEF Sampler
<1>6. ASSUME s # sample_es  PROVE Writer(gpuVolume, w, d)
  <2>1. f # "es sample" /\ Writer(gpuVolume, v, dirty)
    BY <1>2, <1>6, OthersAreApart DEF AllApart, Apart, ViewOK
  <2> HIDE DEF w, d, st
  <2>2. "es sample" \notin d
    BY <2>1 DEF Dirt, d, Writer
  <2>3. \A g \in VolumeFiles \ (d \cup {"es sample"}) : g # f /\ g \notin dirty
    BY DEF Dirt, d
  <2>4. \A g \in VolumeFiles \ (d \cup {"es sample"}) : w[g] = gpuVolume[g]
    BY <1>4, <1>f, <2>1, <2>3 DEF Writer
  <2>5. Agree(w) /\ v["es"] <= w["es"]
    BY <1>1, <1>3, <2>1, PutAgrees DEF Writer, w, st
  <2>6. gpuVolume["es"] <= w["es"]
    <3>1. gpuVolume["es"] <= v["es"] /\ gpuVolume["es"] \in Nat /\ v["es"] \in Nat /\ w["es"] \in Nat
      BY <1>3, <1>4, <1>f, <2>1, ViewsAreNat, VolumeIsNat DEF Writer
    <3> QED  BY <2>5, <3>1
  <2> QED  BY <2>2, <2>4, <2>5, <2>6 DEF Writer
<1>7. w["image"] = Whole /\ d \subseteq VolumeFiles
  <2> HIDE DEF w
  <2> QED  BY <1>2, <1>3, <1>4, <1>f DEF Dirt
<1> HIDE DEF w, d
<1>8. ViewOK(gpuVolume, s, w, d)
  BY <1>4, <1>5, <1>6, <1>7 DEF ViewOK
<1> QED  BY <1>8 DEF w, d

(* What a container sees when it starts.                                   *)
LEMMA FreshViewIs ==
  ASSUME VolumeOK
  PROVE  /\ FreshView \in Views /\ FreshView["image"] = Whole
         /\ \A f \in VolumeFiles : FreshView[f] = gpuVolume[f]
<1>1. /\ \A f \in VolumeFiles : FreshView[f] = gpuVolume[f]
      /\ FreshView = [f \in GpuFiles |-> FreshView[f]]
      /\ \A f \in GpuFiles \ VolumeFiles : FreshView[f] = IF f = "image" THEN Whole ELSE 0
  <2> DEFINE at(f) == CASE f \in VolumeFiles -> gpuVolume[f] [] f = "image" -> Whole [] OTHER -> 0
  <2>1. FreshView = [f \in GpuFiles |-> at(f)]
    BY DEF FreshView, GpuFiles
  <2>2. \A f \in VolumeFiles : f # "image"
    BY DEF VolumeFiles
  <2>3. \A f \in VolumeFiles : at(f) = gpuVolume[f]
    BY <2>2
  <2>4. \A f \in GpuFiles \ VolumeFiles : at(f) = IF f = "image" THEN Whole ELSE 0
    OBVIOUS
  <2>5. VolumeFiles \subseteq GpuFiles
    BY DEF GpuFiles
  <2> HIDE DEF at
  <2>6. \A f \in GpuFiles : FreshView[f] = at(f)
    BY <2>1
  <2>7. FreshView = [f \in GpuFiles |-> FreshView[f]]
    BY <2>1
  <2> QED  BY <2>3, <2>4, <2>5, <2>6, <2>7
<1>2. "image" \in GpuFiles \ VolumeFiles
  BY DEF GpuFiles, VolumeFiles, LocalFiles
<1>3. \A f \in VolumeFiles : gpuVolume[f] \in 0 .. Whole
  BY DEF VolumeOK
<1>4. Whole \in 0 .. Whole /\ 0 \in 0 .. Whole
  BY ViewsAreNat
<1>5. \A f \in GpuFiles : FreshView[f] \in 0 .. Whole
  BY <1>1, <1>3, <1>4
<1>6. FreshView["image"] = Whole
  BY <1>1, <1>2
<1> HIDE DEF FreshView
<1>7. FreshView \in Views
  BY <1>1, <1>5 DEF Views
<1> QED  BY <1>1, <1>6, <1>7

LEMMA SameFilesAgree ==
  ASSUME NEW v, NEW w, Agree(v), \A f \in VolumeFiles : f # "es sample" => w[f] = v[f]
  PROVE  Agree(w) /\ w["es"] = v["es"]
<1>1. /\ w["marker"] = v["marker"] /\ w["corpus"] = v["corpus"] /\ w["es"] = v["es"]
      /\ ModelFile(w) = ModelFile(v) /\ ResultFile(w) = ResultFile(v)
  BY DEF VolumeFiles, ModelFile, ResultFile
<1> QED  BY <1>1 DEF Agree

LEMMA FreshViewOK == ASSUME VolumeOK, NEW s  PROVE ViewOK(gpuVolume, s, FreshView, {})
<1>1. /\ FreshView \in Views /\ FreshView["image"] = Whole
      /\ \A f \in VolumeFiles : FreshView[f] = gpuVolume[f]
  BY FreshViewIs
<1>2. Agree(FreshView) /\ FreshView["es"] = gpuVolume["es"]
  <2> HIDE DEF FreshView
  <2> QED  BY <1>1, SameFilesAgree DEF VolumeOK
<1>3. gpuVolume["es"] \in Nat
  BY VolumeIsNat DEF VolumeFiles
<1>4. gpuVolume["es"] <= gpuVolume["es"]
  BY <1>3
<1> HIDE DEF FreshView
<1>5. Sampler(gpuVolume, FreshView, {})
  BY <1>2, <1>4 DEF Sampler
<1>6. Writer(gpuVolume, FreshView, {})
  BY <1>1, <1>2, <1>4 DEF Writer
<1> QED  BY <1>1, <1>5, <1>6 DEF ViewOK

(* One container changes what it runs.                                     *)
LEMMA RunChanges ==
  ASSUME GpuInv, NEW c \in Containers, NEW x, gpuRun' = [gpuRun EXCEPT ![c] = x],
         gpuVolume' = gpuVolume, 0 \notin saved', x = NoRun \/ RunOK(gpuVolume, x), Alone(gpuRun')
  PROVE  GpuInv'
<1>1. DOMAIN gpuRun' = Containers /\ gpuRun' = [d \in Containers |-> gpuRun'[d]]
  BY DEF GpuInv
<1>2. gpuRun'[c] = x /\ \A d \in Containers \ {c} : gpuRun'[d] = gpuRun[d]
  BY DEF GpuInv
<1>3. VolumeOK'
  BY DEF GpuInv, VolumeOK
<1>4. \A d \in Containers : gpuRun'[d] = NoRun \/ RunOK(gpuVolume', gpuRun'[d])
  BY <1>2 DEF GpuInv
<1>5. Alone(gpuRun)'
  BY DEF Alone
<1> QED  BY <1>1, <1>3, <1>4, <1>5 DEF GpuInv

LEMMA AloneKept ==
  ASSUME GpuInv, NEW c \in Containers, NEW x,
         x = NoRun \/ (gpuRun[c] # NoRun /\ x.script = gpuRun[c].script)
  PROVE  Alone([gpuRun EXCEPT ![c] = x])
<1> DEFINE new == [gpuRun EXCEPT ![c] = x]
<1>1. new[c] = x /\ \A d \in Containers \ {c} : new[d] = gpuRun[d]
  BY DEF GpuInv
<1>2. Alone(gpuRun)
  BY DEF GpuInv
<1> HIDE DEF new
<1>3. Alone(new)
  BY <1>1, <1>2 DEF Alone
<1> QED  BY <1>3 DEF new

LEMMA SameScript ==
  ASSUME GpuInv, NEW c \in Containers, Busy(c), NEW x, gpuRun' = [gpuRun EXCEPT ![c] = x],
         gpuVolume' = gpuVolume, 0 \notin saved',
         x = NoRun \/ (RunOK(gpuVolume, x) /\ x.script = gpuRun[c].script)
  PROVE  GpuInv'
<1>1. Alone([gpuRun EXCEPT ![c] = x])
  BY AloneKept DEF Busy
<1> QED  BY <1>1, RunChanges

LEMMA BusyRun ==
  ASSUME GpuInv, NEW c \in Containers, Busy(c)
  PROVE  /\ RunOK(gpuVolume, gpuRun[c]) /\ gpuRun[c] \in GpuRuns /\ gpuRun[c].script \in Scripts
         /\ gpuRun[c].at \in DOMAIN gpuRun[c].script.steps /\ gpuRun[c].at \in Nat \ {0}
         /\ ViewOK(gpuVolume, gpuRun[c].script, gpuRun[c].view, gpuRun[c].dirty)
         /\ gpuRun[c].view \in Views
<1>1. RunOK(gpuVolume, gpuRun[c])
  BY DEF GpuInv, Busy
<1>2. gpuRun[c] \in GpuRuns
  BY <1>1 DEF RunOK
<1>3. gpuRun[c].script \in Scripts /\ gpuRun[c].at \in Nat \ {0} /\ gpuRun[c].view \in Views
  BY <1>2 DEF GpuRuns
<1> QED  BY <1>1, <1>2, <1>3 DEF RunOK

(* The step that is over, or the last one.                                 *)
ReadyAfter(st, v) ==
  /\ st.op = "skip_if" /\ st.file = "marker" => v["marker"] = 0
  /\ st.op = "write" => v["corpus"] = Whole
  /\ st.op \in {"need", "copy"} => v[st.file] > 0
  /\ st.op = "fit" /\ ~ st.swallow => v[st.file] > 0
Moved(run, x) ==
  /\ x \in GpuRuns /\ x.script = run.script /\ x.view = run.view /\ x.dirty = run.dirty
  /\ x.at \in DOMAIN x.script.steps /\ Ready(x.script, x.at, x.view)

LEMMA AdvanceMoves ==
  ASSUME NEW c, NEW run \in GpuRuns, run.at \in DOMAIN run.script.steps,
         ReadyAfter(run.script.steps[run.at], run.view), Advance(c, run)
  PROVE  \E x : gpuRun' = [gpuRun EXCEPT ![c] = x] /\ (x = NoRun \/ Moved(run, x))
<1> DEFINE s == run.script
           k == run.at
           x == [run EXCEPT !.at = @ + 1, !.fitting = FALSE]
<1>1. s \in Scripts /\ k \in Nat \ {0}
  BY DEF GpuRuns
<1>2. CASE k < Len(s.steps)
  <2>1. gpuRun' = [gpuRun EXCEPT ![c] = x]
    BY <1>2 DEF Advance
  <2>2. /\ x \in GpuRuns /\ x.script = s /\ x.view = run.view /\ x.dirty = run.dirty /\ x.at = k + 1
    <3>1. k + 1 \in Nat \ {0}
      <4> HIDE DEF k
      <4> QED  BY <1>1
    <3>2. ASSUME NEW n \in Nat \ {0}
          PROVE  /\ [run EXCEPT !.at = n, !.fitting = FALSE] \in GpuRuns
                 /\ [run EXCEPT !.at = n, !.fitting = FALSE].script = s
                 /\ [run EXCEPT !.at = n, !.fitting = FALSE].view = run.view
                 /\ [run EXCEPT !.at = n, !.fitting = FALSE].dirty = run.dirty
                 /\ [run EXCEPT !.at = n, !.fitting = FALSE].at = n
      BY DEF GpuRuns
    <3>3. x = [run EXCEPT !.at = k + 1, !.fitting = FALSE]
      OBVIOUS
    <3> HIDE DEF x, s, k
    <3> QED  BY <3>1, <3>2, <3>3
  <2>3. k + 1 \in DOMAIN s.steps
    <3>1. DOMAIN s.steps = 1 .. Len(s.steps) /\ Len(s.steps) \in Nat
      BY <1>1, ScriptsAreBuilt DEF Built
    <3> HIDE DEF s, k
    <3> QED  BY <1>1, <1>2, <3>1
  <2>4. Ready(s, k + 1, run.view)
    <3>1. k \in DOMAIN s.steps
      OBVIOUS
    <3> HIDE DEF s, k
    <3>2. ReadyAfter(s.steps[k], run.view)
      BY DEF s, k
    <3> QED  BY <1>1, <2>3, <3>1, <3>2, ReadyNext DEF ReadyAfter
  <2>5. Moved(run, x)
    <3> HIDE DEF x
    <3> QED  BY <2>2, <2>3, <2>4 DEF Moved
  <2> QED  BY <2>1, <2>5
<1>3. CASE ~ (k < Len(s.steps))
  BY <1>3 DEF Advance
<1> QED  BY <1>2, <1>3

(* A step is over that changed no more than the view of its container.     *)
LEMMA AdvanceKeeps ==
  ASSUME GpuInv, NEW c \in Containers, Busy(c), NEW run \in GpuRuns,
         run.script = gpuRun[c].script, run.at = gpuRun[c].at,
         ViewOK(gpuVolume, run.script, run.view, run.dirty), ReadyAfter(Now(c), run.view), Advance(c, run),
         gpuVolume' = gpuVolume, 0 \notin saved'
  PROVE  GpuInv'
<1>1. run.at \in DOMAIN run.script.steps /\ ReadyAfter(run.script.steps[run.at], run.view)
  BY BusyRun DEF Now
<1>2. PICK x : gpuRun' = [gpuRun EXCEPT ![c] = x] /\ (x = NoRun \/ Moved(run, x))
  BY <1>1, AdvanceMoves
<1>3. x = NoRun \/ (RunOK(gpuVolume, x) /\ x.script = gpuRun[c].script)
  BY <1>2 DEF Moved, RunOK
<1> QED  BY <1>2, <1>3, SameScript

LEMMA RaiseKeeps ==
  ASSUME GpuInv, NEW c \in Containers, Busy(c), Raise(c), gpuVolume' = gpuVolume, 0 \notin saved'
  PROVE  GpuInv'
BY SameScript DEF Raise

(* The step a container is at, and what it sees.                           *)
LEMMA NowIs ==
  ASSUME GpuInv, NEW c \in Containers, Busy(c)
  PROVE  /\ WellBuilt(Now(c)) /\ Ready(gpuRun[c].script, gpuRun[c].at, gpuRun[c].view)
         /\ Now(c) = gpuRun[c].script.steps[gpuRun[c].at]
         /\ \A f \in GpuFiles : gpuRun[c].view[f] \in Nat /\ gpuRun[c].view[f] <= Whole
         /\ 0 \notin saved
<1>1. WellBuilt(Now(c))
  BY BusyRun, ScriptsAreBuilt DEF Built, Now
<1>2. \A f \in GpuFiles : gpuRun[c].view[f] \in Nat /\ gpuRun[c].view[f] <= Whole
  BY BusyRun, ViewsAreNat
<1> QED  BY <1>1, <1>2, BusyRun DEF RunOK, Now, GpuInv

LEMMA CheckKeeps == ASSUME GpuInv, NEW c \in Containers, Check(c)  PROVE GpuInv'
<1> DEFINE v == gpuRun[c].view
           st == Now(c)
<1>0. Busy(c) /\ gpuVolume' = gpuVolume /\ saved' = saved
  BY DEF Check, Doing
<1>1. /\ gpuRun[c] \in GpuRuns /\ ViewOK(gpuVolume, gpuRun[c].script, v, gpuRun[c].dirty)
      /\ WellBuilt(st) /\ 0 \notin saved' /\ \A f \in GpuFiles : v[f] \in Nat
  BY <1>0, BusyRun, NowIs
<1>2. CASE Raise(c)
  BY <1>0, <1>1, <1>2, RaiseKeeps
<1>3. CASE Advance(c, gpuRun[c]) /\ ReadyAfter(st, v)
  BY <1>0, <1>1, <1>3, AdvanceKeeps
<1>4. Doing(c, "skip_if") /\ Advance(c, gpuRun[c]) /\ ~ (v[st.file] > 0) => ReadyAfter(st, v)
  <2> SUFFICES ASSUME st.op = "skip_if", ~ (v[st.file] > 0)  PROVE ReadyAfter(st, v)
    BY DEF Doing
  <2>1. v[st.file] = 0
    <3>1. v[st.file] \in Nat
      BY <1>1 DEF WellBuilt
    <3> HIDE DEF v, st
    <3> QED  BY <3>1
  <2> QED  BY <2>1 DEF ReadyAfter
<1>5. Doing(c, "need") /\ Advance(c, gpuRun[c]) /\ v[st.file] # 0 => ReadyAfter(st, v)
  <2> SUFFICES ASSUME st.op = "need", v[st.file] # 0  PROVE ReadyAfter(st, v)
    BY DEF Doing
  <2>1. v[st.file] > 0
    <3>1. v[st.file] \in Nat
      BY <1>1 DEF WellBuilt
    <3> HIDE DEF v, st
    <3> QED  BY <3>1
  <2> QED  BY <2>1 DEF ReadyAfter
<1> QED  BY <1>2, <1>3, <1>4, <1>5 DEF Check

LEMMA PutRun ==
  ASSUME GpuInv, NEW c \in Containers, Busy(c), NEW p, Writable(Now(c), gpuRun[c].view, p)
  PROVE  LET run == Put(c, Now(c).file, p) IN
           /\ run \in GpuRuns /\ run.script = gpuRun[c].script /\ run.at = gpuRun[c].at
           /\ run.view = Filled(gpuRun[c].view, Now(c).file, p)
           /\ ViewOK(gpuVolume, run.script, run.view, run.dirty)
           /\ run.view[Now(c).file] = p
           /\ \A f \in GpuFiles : f # Now(c).file => run.view[f] = gpuRun[c].view[f]
<1> DEFINE st == Now(c)
           f == st.file
           run == Put(c, f, p)
           w == Filled(gpuRun[c].view, f, p)
           d == Dirt(gpuRun[c].dirty, f)
<1>1. /\ gpuRun[c] \in GpuRuns /\ ViewOK(gpuVolume, gpuRun[c].script, gpuRun[c].view, gpuRun[c].dirty)
      /\ gpuRun[c].script \in Scripts /\ gpuRun[c].at \in DOMAIN gpuRun[c].script.steps
      /\ st = gpuRun[c].script.steps[gpuRun[c].at] /\ WellBuilt(st) /\ VolumeOK
      /\ gpuRun[c].view \in Views
  BY BusyRun, NowIs DEF GpuInv
<1>2. f \in GpuFiles /\ f # "image" /\ p \in 0 .. Whole
  BY <1>1 DEF WellBuilt, Writable
<1>3. ViewOK(gpuVolume, gpuRun[c].script, w, d)
  <2> HIDE DEF st
  <2>1. Writable(gpuRun[c].script.steps[gpuRun[c].at], gpuRun[c].view, p)
    BY <1>1 DEF st
  <2> QED  BY <1>1, <2>1, PutKeepsView
<1>4. run = [gpuRun[c] EXCEPT !.view = w, !.dirty = d]
  BY <1>1 DEF Put, Filled, Dirt, GpuRuns
<1>5. w \in Views /\ d \in SUBSET VolumeFiles
  BY <1>3 DEF ViewOK
<1> HIDE DEF w, d, run, f, st
<1>6. run \in GpuRuns /\ run.view = w /\ run.dirty = d /\ run.script = gpuRun[c].script /\ run.at = gpuRun[c].at
  BY <1>1, <1>4, <1>5 DEF GpuRuns
<1>7. w[f] = p /\ \A g \in GpuFiles : g # f => w[g] = gpuRun[c].view[g]
  BY <1>1, <1>2, PutIsPut DEF w
<1> QED  BY <1>3, <1>6, <1>7 DEF run, w, f, st

(* After a write the step is over, or goes on.                             *)
LEMMA PutAdvances ==
  ASSUME GpuInv, NEW c \in Containers, Busy(c), NEW p, Writable(Now(c), gpuRun[c].view, p),
         ReadyAfter(Now(c), Filled(gpuRun[c].view, Now(c).file, p)),
         Advance(c, Put(c, Now(c).file, p)), gpuVolume' = gpuVolume, 0 \notin saved'
  PROVE  GpuInv'
<1> DEFINE run == Put(c, Now(c).file, p)
<1>1. /\ run \in GpuRuns /\ run.script = gpuRun[c].script /\ run.at = gpuRun[c].at
      /\ ViewOK(gpuVolume, run.script, run.view, run.dirty) /\ ReadyAfter(Now(c), run.view)
  BY PutRun
<1> HIDE DEF run
<1>2. Advance(c, run)
  BY DEF run
<1> QED  BY <1>1, <1>2, AdvanceKeeps

LEMMA WriteKeeps == ASSUME GpuInv, NEW c \in Containers, WriteFile(c)  PROVE GpuInv'
<1> DEFINE v == gpuRun[c].view
           st == Now(c)
           f == st.file
           p == v[f] + 1
<1>0. Busy(c) /\ gpuVolume' = gpuVolume /\ saved' = saved /\ st.op = "write" /\ 0 \notin saved'
  BY DEF WriteFile, Doing, GpuInv
<1>1. /\ f = "corpus" /\ v["marker"] = 0 /\ v[f] \in Nat /\ v[f] <= Whole
  <2>1. f = "corpus" /\ v["marker"] = 0
    BY <1>0, NowIs DEF WellBuilt, Ready
  <2>2. "corpus" \in GpuFiles
    BY DEF GpuFiles, VolumeFiles
  <2> QED  BY <1>0, <2>1, <2>2, NowIs
<1>2. \A x \in 0 .. Whole : Writable(st, v, x)
  BY <1>0, <1>1 DEF Writable, Writes
<1>3. CASE p < Whole
  <2>1. p \in 0 .. Whole
    <3> HIDE DEF v, f
    <3> QED  BY <1>1, <1>3, ViewsAreNat
  <2> DEFINE run == Put(c, f, p)
  <2>2. gpuRun' = [gpuRun EXCEPT ![c] = run]
    BY <1>3 DEF WriteFile
  <2>3. /\ run \in GpuRuns /\ run.script = gpuRun[c].script /\ run.at = gpuRun[c].at
        /\ ViewOK(gpuVolume, run.script, run.view, run.dirty)
        /\ \A g \in GpuFiles : g # f => run.view[g] = v[g]
    <3> HIDE DEF p
    <3>1. Writable(st, v, p)
      BY <1>2, <2>1
    <3> QED  BY <1>0, <3>1, PutRun
  <2>4. Ready(run.script, run.at, run.view)
    <3>1. run.view["marker"] = 0
      <4>1. "marker" \in GpuFiles
        BY DEF GpuFiles, VolumeFiles
      <4> HIDE DEF run, v, f
      <4> QED  BY <1>1, <2>3, <4>1
    <3>2. run.script.steps[run.at] = st
      <4> HIDE DEF run
      <4> QED  BY <2>3 DEF Now
    <3> HIDE DEF run, st
    <3> QED  BY <1>0, <3>1, <3>2 DEF Ready
  <2>5. RunOK(gpuVolume, run)
    <3>1. run.at \in DOMAIN run.script.steps
      <4> HIDE DEF run
      <4> QED  BY <1>0, <2>3, BusyRun
    <3> HIDE DEF run
    <3> QED  BY <2>3, <2>4, <3>1 DEF RunOK
  <2> HIDE DEF run
  <2> QED  BY <1>0, <2>2, <2>3, <2>5, SameScript
<1>4. CASE ~ (p < Whole)
  <2>1. Whole \in 0 .. Whole
    BY ViewsAreNat
  <2>2. Writable(st, v, Whole)
    BY <1>2, <2>1
  <2>3. Filled(v, f, Whole)["corpus"] = Whole
    <3>1. Put(c, f, Whole).view = Filled(v, f, Whole) /\ Put(c, f, Whole).view[f] = Whole
      BY <1>0, <2>2, PutRun
    <3> QED  BY <1>1, <3>1
  <2>4. ReadyAfter(st, Filled(v, f, Whole))
    BY <1>0, <2>3 DEF ReadyAfter
  <2>5. Advance(c, Put(c, f, Whole))
    BY <1>4 DEF WriteFile
  <2> QED  BY <1>0, <2>2, <2>4, <2>5, PutAdvances
<1> QED  BY <1>3, <1>4

LEMMA CopyKeeps == ASSUME GpuInv, NEW c \in Containers, CopyFile(c)  PROVE GpuInv'
<1> DEFINE v == gpuRun[c].view
           st == Now(c)
           f == st.file
           p == v[st.from]
<1>0. Busy(c) /\ gpuVolume' = gpuVolume /\ saved' = saved /\ st.op = "copy" /\ 0 \notin saved'
  BY DEF CopyFile, Doing, GpuInv
<1>1. WellBuilt(st) /\ p \in Nat /\ p <= Whole /\ (f = "marker" => v["corpus"] = Whole)
  <2>1. WellBuilt(st) /\ \A g \in GpuFiles : v[g] \in Nat /\ v[g] <= Whole
    BY <1>0, NowIs
  <2>2. st.from \in GpuFiles
    BY <1>0, <2>1 DEF WellBuilt
  <2>3. f = "marker" => v["corpus"] = Whole
    BY <1>0, NowIs DEF Ready
  <2> QED  BY <2>1, <2>2, <2>3
<1>2. CASE p = 0
  <2>1. Raise(c)
    BY <1>2 DEF CopyFile
  <2> QED  BY <1>0, <2>1, RaiseKeeps
<1>3. CASE p # 0
  <2>1. p \in 0 .. Whole /\ p > 0
    <3> HIDE DEF p
    <3> QED  BY <1>1, <1>3, ViewsAreNat
  <2>2. f # "corpus" /\ f # "es"
    BY <1>0, <1>1 DEF WellBuilt, Writes
  <2>3. Writable(st, v, p)
    BY <1>0, <1>1, <2>1, <2>2 DEF Writable, Writes
  <2>4. Filled(v, f, p)[f] = p
    <3> HIDE DEF p
    <3> QED  BY <1>0, <2>3, PutRun
  <2>5. ReadyAfter(st, Filled(v, f, p))
    <3> HIDE DEF p, v
    <3> QED  BY <1>0, <2>1, <2>4 DEF ReadyAfter
  <2>6. Advance(c, Put(c, f, p))
    BY <1>3 DEF CopyFile
  <2> HIDE DEF p
  <2> QED  BY <1>0, <2>3, <2>5, <2>6, PutAdvances
<1> QED  BY <1>2, <1>3

LEMMA FitKeeps == ASSUME GpuInv, NEW c \in Containers, FitModel(c)  PROVE GpuInv'
<1> DEFINE v == gpuRun[c].view
           st == Now(c)
           f == st.file
           p == IF gpuRun[c].fitting \/ st.resume THEN v[f] ELSE 0
<1>0. Busy(c) /\ gpuVolume' = gpuVolume /\ saved' = saved /\ st.op = "fit" /\ 0 \notin saved'
  BY DEF FitModel, Doing, GpuInv
<1>1. /\ WellBuilt(st) /\ v[f] \in Nat /\ v[f] <= Whole /\ gpuRun[c] \in GpuRuns
      /\ ViewOK(gpuVolume, gpuRun[c].script, v, gpuRun[c].dirty)
  <2>1. WellBuilt(st) /\ \A g \in GpuFiles : v[g] \in Nat /\ v[g] <= Whole
    BY <1>0, NowIs
  <2>2. f \in GpuFiles
    BY <1>0, <2>1 DEF WellBuilt, Writes
  <2> QED  BY <1>0, <2>1, <2>2, BusyRun
<1>2. p \in Nat /\ p <= Whole /\ (p # 0 => p = v[f]) /\ (st.resume => p = v[f])
  <2> HIDE DEF f, v
  <2> QED  BY <1>1, ViewsAreNat
<1>3. \/ p < Whole /\ gpuRun' = [gpuRun EXCEPT ![c] = [Put(c, f, p + 1) EXCEPT !.fitting = TRUE]]
      \/ p = Whole /\ Advance(c, gpuRun[c])
      \/ p < Whole /\ (IF st.swallow THEN Advance(c, gpuRun[c]) ELSE Raise(c))
  BY DEF FitModel
<1>4. CASE p < Whole /\ gpuRun' = [gpuRun EXCEPT ![c] = [Put(c, f, p + 1) EXCEPT !.fitting = TRUE]]
  <2> DEFINE run == Put(c, f, p + 1)
             x == [run EXCEPT !.fitting = TRUE]
  <2>1. Writable(st, v, p + 1)
    <3>1. p + 1 \in 0 .. Whole
      <4> HIDE DEF p
      <4> QED  BY <1>2, <1>4, ViewsAreNat
    <3>2. f # "corpus" /\ f # "marker" /\ (f = "es" => st.resume)
      BY <1>0, <1>1 DEF WellBuilt, Writes
    <3>3. f = "es" => v["es"] <= p + 1
      <4> SUFFICES ASSUME f = "es"  PROVE v["es"] <= p + 1
        OBVIOUS
      <4>1. p = v["es"]
        BY <1>2, <3>2
      <4> HIDE DEF p, v, f
      <4> QED  BY <1>2, <4>1
    <3> HIDE DEF p
    <3> QED  BY <1>0, <3>1, <3>2, <3>3 DEF Writable, Writes
  <2>2. /\ run \in GpuRuns /\ run.script = gpuRun[c].script /\ run.at = gpuRun[c].at
        /\ ViewOK(gpuVolume, run.script, run.view, run.dirty)
    <3> HIDE DEF p
    <3> QED  BY <1>0, <2>1, PutRun
  <2> HIDE DEF run
  <2>3. /\ x \in GpuRuns /\ x.script = gpuRun[c].script /\ x.at = gpuRun[c].at
        /\ x.view = run.view /\ x.dirty = run.dirty
    BY <2>2 DEF GpuRuns
  <2> HIDE DEF x
  <2>4. x.at \in DOMAIN x.script.steps /\ x.script.steps[x.at] = st
    BY <1>0, <2>3, BusyRun DEF Now
  <2>5. Ready(x.script, x.at, x.view)
    BY <1>0, <2>4 DEF Ready
  <2>6. RunOK(gpuVolume, x)
    BY <2>2, <2>3, <2>4, <2>5 DEF RunOK
  <2>7. gpuRun' = [gpuRun EXCEPT ![c] = x]
    BY <1>4 DEF x, run
  <2> QED  BY <1>0, <2>3, <2>6, <2>7, SameScript
<1>5. CASE p = Whole /\ Advance(c, gpuRun[c])
  <2>1. v[f] > 0
    <3> HIDE DEF p, v, f
    <3> QED  BY <1>2, <1>5, ViewsAreNat
  <2>2. ReadyAfter(st, v)
    BY <1>0, <2>1 DEF ReadyAfter
  <2> QED  BY <1>0, <1>1, <1>5, <2>2, AdvanceKeeps
<1>6. CASE IF st.swallow THEN Advance(c, gpuRun[c]) ELSE Raise(c)
  <2>1. CASE st.swallow
    <3>1. ReadyAfter(st, v)
      BY <1>0, <2>1 DEF ReadyAfter
    <3> QED  BY <1>0, <1>1, <1>6, <2>1, <3>1, AdvanceKeeps
  <2>2. CASE ~ st.swallow
    BY <1>0, <1>6, <2>2, RaiseKeeps
  <2> QED  BY <2>1, <2>2
<1> QED  BY <1>3, <1>4, <1>5, <1>6

LEMMA DeliverKeeps == ASSUME GpuInv, NEW c \in Containers, DeliverAudio(c)  PROVE GpuInv'
<1>1. Busy(c) /\ Raise(c) /\ gpuVolume' = gpuVolume /\ Now(c).op = "deliver"
  BY DEF DeliverAudio, Doing
<1>2. gpuRun[c].view[Now(c).file] # 0
  <2>1. gpuRun[c].view[Now(c).file] > 0
    BY <1>1, NowIs DEF Ready
  <2>2. gpuRun[c].view[Now(c).file] \in Nat
    BY <1>1, NowIs DEF WellBuilt
  <2> QED  BY <2>1, <2>2
<1>3. 0 \notin saved'
  BY <1>1, <1>2, NowIs DEF DeliverAudio
<1> QED  BY <1>1, <1>3, RaiseKeeps

LEMMA ReloadKeeps == ASSUME GpuInv, NEW c \in Containers, ReloadFiles(c)  PROVE GpuInv'
<1> DEFINE run == [gpuRun[c] EXCEPT !.view = FreshView]
<1>1. /\ Busy(c) /\ Now(c).op = "reload" /\ gpuVolume' = gpuVolume /\ saved' = saved
      /\ Advance(c, run) /\ VolumeOK /\ 0 \notin saved'
  BY DEF ReloadFiles, Doing, GpuInv
<1>2. /\ gpuRun[c] \in GpuRuns /\ gpuRun[c].script = sample_es
      /\ Sampler(gpuVolume, gpuRun[c].view, gpuRun[c].dirty)
  <2>1. gpuRun[c].script = sample_es
    BY <1>1, BusyRun, NowIs, OthersAreApart DEF AllApart, Apart
  <2> QED  BY <1>1, <2>1, BusyRun DEF ViewOK
<1>3. /\ FreshView \in Views /\ FreshView["image"] = Whole
      /\ \A f \in VolumeFiles : FreshView[f] = gpuVolume[f]
  BY <1>1, FreshViewIs
<1> HIDE DEF FreshView
<1>4. /\ run \in GpuRuns /\ run.script = sample_es /\ run.at = gpuRun[c].at
      /\ run.view = FreshView /\ run.dirty = gpuRun[c].dirty
  BY <1>2, <1>3 DEF GpuRuns
<1>5. Sampler(gpuVolume, FreshView, gpuRun[c].dirty)
  <2>1. FreshView["es"] = gpuVolume["es"] /\ SampleFile(FreshView) = SampleFile(gpuVolume)
    BY <1>3 DEF VolumeFiles, SampleFile
  <2>2. gpuVolume["es"] \in Nat /\ SampleFile(gpuVolume) <= gpuVolume["es"]
    BY <1>1, VolumeIsNat DEF VolumeOK, VolumeFiles
  <2>3. gpuVolume["es"] <= gpuVolume["es"]
    BY <2>2
  <2> QED  BY <1>2, <2>1, <2>2, <2>3 DEF Sampler
<1> HIDE DEF run
<1>6. ViewOK(gpuVolume, run.script, run.view, run.dirty)
  <2>1. gpuRun[c].dirty \subseteq VolumeFiles
    BY <1>2 DEF GpuRuns
  <2> QED  BY <1>3, <1>4, <1>5, <2>1 DEF ViewOK
<1>7. ReadyAfter(Now(c), run.view)
  BY <1>1 DEF ReadyAfter
<1> QED  BY <1>1, <1>2, <1>4, <1>6, <1>7, AdvanceKeeps

(* What a commit makes of the Volume, and what the others see of it.       *)
LEMMA CommittedIs ==
  ASSUME GpuInv, NEW c \in Containers, Busy(c)
  PROVE  /\ Committed(c) \in [VolumeFiles -> 0 .. Whole]
         /\ \A f \in VolumeFiles :
              Committed(c)[f] = IF f \in gpuRun[c].dirty THEN gpuRun[c].view[f] ELSE gpuVolume[f]
<1>1. DOMAIN gpuVolume = VolumeFiles /\ \A f \in VolumeFiles : gpuVolume[f] \in 0 .. Whole
  BY DEF GpuInv, VolumeOK
<1>2. \A f \in VolumeFiles : gpuRun[c].view[f] \in 0 .. Whole
  <2>1. gpuRun[c].view \in Views
    BY BusyRun
  <2> QED  BY <2>1 DEF Views, GpuFiles
<1> QED  BY <1>1, <1>2 DEF Committed, Commit

LEMMA CommitKeeps ==
  ASSUME GpuInv, NEW c \in Containers, Busy(c), NEW x, gpuRun' = [gpuRun EXCEPT ![c] = x],
         gpuVolume' = Committed(c), saved' = saved,
         \/ x = NoRun
         \/ /\ x \in GpuRuns /\ x.script = gpuRun[c].script /\ x.view = gpuRun[c].view /\ x.dirty = {}
            /\ x.at \in DOMAIN x.script.steps /\ Ready(x.script, x.at, x.view)
  PROVE  GpuInv' /\ gpuVolume["es"] <= gpuVolume'["es"]
<1> DEFINE s == gpuRun[c].script
           v == gpuRun[c].view
           dirty == gpuRun[c].dirty
<1>1. /\ gpuVolume' \in [VolumeFiles -> 0 .. Whole]
      /\ \A f \in VolumeFiles : gpuVolume'[f] = IF f \in dirty THEN v[f] ELSE gpuVolume[f]
  BY CommittedIs
<1>2. VolumeOK /\ ViewOK(gpuVolume, s, v, dirty) /\ s \in Scripts /\ v \in Views
  BY BusyRun DEF GpuInv
<1>3. /\ gpuRun'[c] = x /\ \A d \in Containers \ {c} : gpuRun'[d] = gpuRun[d]
      /\ DOMAIN gpuRun' = Containers /\ gpuRun' = [d \in Containers |-> gpuRun'[d]]
  BY DEF GpuInv
<1>4. Alone(gpuRun')
  BY AloneKept DEF Busy
<1>n. gpuVolume["es"] \in Nat /\ gpuVolume'["es"] \in Nat /\ v["es"] \in Nat
  <2>1. "es" \in VolumeFiles /\ "es" \in GpuFiles
    BY DEF VolumeFiles, GpuFiles
  <2>2. \A n \in 0 .. Whole : n \in Nat
    BY ViewsAreNat
  <2> QED  BY <1>1, <1>2, <2>1, <2>2, ViewsAreNat, VolumeIsNat
<1> HIDE DEF s, v, dirty
<1>5. /\ VolumeOK' /\ gpuVolume["es"] <= gpuVolume'["es"]
      /\ (s = sample_es => Sampler(gpuVolume', v, {})) /\ (s # sample_es => Writer(gpuVolume', v, {}))
      /\ \A d \in Containers \ {c} : Busy(d) =>
           /\ gpuRun[d].script = sample_es => Sampler(gpuVolume', gpuRun[d].view, gpuRun[d].dirty)
           /\ gpuRun[d].script # sample_es => Writer(gpuVolume', gpuRun[d].view, gpuRun[d].dirty)
  <2>1. CASE s # sample_es
    <3>1. Writer(gpuVolume, v, dirty)
      BY <1>2, <2>1 DEF ViewOK
    <3>2. /\ \A f \in VolumeFiles : f # "es sample" => gpuVolume'[f] = v[f]
          /\ SampleFile(gpuVolume') = SampleFile(gpuVolume)
      <4>1. \A f \in VolumeFiles : f # "es sample" => gpuVolume'[f] = v[f]
        BY <1>1, <3>1 DEF Writer
      <4>2. gpuVolume'["es sample"] = gpuVolume["es sample"]
        BY <1>1, <3>1 DEF Writer, VolumeFiles
      <4> QED  BY <4>1, <4>2 DEF SampleFile
    <3>3. Agree(gpuVolume') /\ gpuVolume'["es"] = v["es"] /\ Agree(v) /\ gpuVolume["es"] <= v["es"]
      BY <3>1, <3>2, SameFilesAgree DEF Writer
    <3>4. SampleFile(gpuVolume') <= gpuVolume'["es"]
      <4>1. SampleFile(gpuVolume) <= gpuVolume["es"] /\ SampleFile(gpuVolume) \in Nat
        BY <1>2, VolumeIsNat DEF VolumeOK, SampleFile, VolumeFiles
      <4>2. SampleFile(gpuVolume') = SampleFile(gpuVolume)
        BY <3>2
      <4> QED  BY <1>n, <3>3, <4>1, <4>2
    <3>5. VolumeOK'
      BY <1>1, <3>3, <3>4 DEF VolumeOK
    <3>6. Writer(gpuVolume', v, {})
      <4>2. gpuVolume'["es"] <= v["es"]
        BY <1>n, <3>3
      <4>3. \A f \in VolumeFiles \ {"es sample"} : v[f] = gpuVolume'[f]
        BY <3>2
      <4> QED  BY <3>3, <4>2, <4>3 DEF Writer
    <3>7. \A d \in Containers \ {c} : Busy(d) =>
             gpuRun[d].script = sample_es /\ Sampler(gpuVolume', gpuRun[d].view, gpuRun[d].dirty)
      <4> SUFFICES ASSUME NEW d \in Containers \ {c}, Busy(d)
                   PROVE  gpuRun[d].script = sample_es /\ Sampler(gpuVolume', gpuRun[d].view, gpuRun[d].dirty)
        OBVIOUS
      <4>1. gpuRun[d].script = sample_es
        BY <2>1 DEF GpuInv, Alone, Busy, s
      <4>2. Sampler(gpuVolume, gpuRun[d].view, gpuRun[d].dirty)
        BY <4>1, BusyRun DEF ViewOK
      <4> DEFINE dv == gpuRun[d].view
                 dd == gpuRun[d].dirty
      <4>3. dv["es"] \in Nat /\ ("es sample" \in dd => SampleFile(dv) \in Nat)
        <5>1. dv \in Views
          BY BusyRun
        <5>2. "es" \in GpuFiles /\ "es sample" \in GpuFiles
          BY DEF GpuFiles, VolumeFiles
        <5> QED  BY <5>1, <5>2, ViewsAreNat DEF SampleFile
      <4> HIDE DEF dv, dd
      <4>4. dd \subseteq {"es sample"} /\ dv["es"] <= gpuVolume["es"]
            /\ ("es sample" \in dd => SampleFile(dv) <= gpuVolume["es"])
        BY <4>2 DEF Sampler, dv, dd
      <4>5. dv["es"] <= gpuVolume'["es"]
        <5>1. dv["es"] \in Nat /\ dv["es"] <= gpuVolume["es"]
          BY <4>3, <4>4
        <5> QED  BY <1>n, <3>3, <5>1
      <4>6. ASSUME "es sample" \in dd  PROVE SampleFile(dv) <= gpuVolume'["es"]
        <5>1. SampleFile(dv) \in Nat /\ SampleFile(dv) <= gpuVolume["es"]
          BY <4>3, <4>4, <4>6
        <5> QED  BY <1>n, <3>3, <5>1
      <4>7. gpuRun[d]' = gpuRun[d]
        BY <1>3
      <4> QED  BY <4>1, <4>4, <4>5, <4>6, <4>7 DEF Sampler, dv, dd
    <3> QED  BY <2>1, <3>3, <3>5, <3>6, <3>7
  <2>2. CASE s = sample_es
    <3>1. Sampler(gpuVolume, v, dirty)
      BY <1>2, <2>2 DEF ViewOK
    <3>2. \A f \in VolumeFiles : f # "es sample" => gpuVolume'[f] = gpuVolume[f]
      BY <1>1, <3>1 DEF Sampler
    <3>3. Agree(gpuVolume') /\ gpuVolume'["es"] = gpuVolume["es"]
      BY <1>2, <3>2, SameFilesAgree DEF VolumeOK
    <3>4. SampleFile(gpuVolume') <= gpuVolume'["es"]
      <4>1. \/ "es sample" \in dirty /\ SampleFile(gpuVolume') = SampleFile(v)
            \/ SampleFile(gpuVolume') = SampleFile(gpuVolume)
        BY <1>1 DEF SampleFile, VolumeFiles
      <4>2. "es sample" \in dirty => SampleFile(v) <= gpuVolume["es"]
        BY <3>1 DEF Sampler
      <4>3. SampleFile(gpuVolume) <= gpuVolume["es"]
        BY <1>2 DEF VolumeOK
      <4> QED  BY <3>3, <4>1, <4>2, <4>3
    <3>5. VolumeOK'
      BY <1>1, <3>3, <3>4 DEF VolumeOK
    <3>6. Sampler(gpuVolume', v, {})
      BY <3>1, <3>3 DEF Sampler
    <3>7. \A d \in Containers \ {c} : Busy(d) =>
             gpuRun[d].script # sample_es /\ Writer(gpuVolume', gpuRun[d].view, gpuRun[d].dirty)
      <4> SUFFICES ASSUME NEW d \in Containers \ {c}, Busy(d)
                   PROVE  gpuRun[d].script # sample_es /\ Writer(gpuVolume', gpuRun[d].view, gpuRun[d].dirty)
        OBVIOUS
      <4>1. gpuRun[d].script # sample_es
        BY <2>2 DEF GpuInv, Alone, Busy, s
      <4>2. Writer(gpuVolume, gpuRun[d].view, gpuRun[d].dirty)
        BY <4>1, BusyRun DEF ViewOK
      <4>3. gpuRun[d]' = gpuRun[d]
        BY <1>3
      <4>4. /\ "es sample" \notin gpuRun[d].dirty /\ Agree(gpuRun[d].view)
            /\ gpuVolume'["es"] <= gpuRun[d].view["es"]
            /\ \A f \in VolumeFiles \ (gpuRun[d].dirty \cup {"es sample"}) :
                 gpuRun[d].view[f] = gpuVolume'[f]
        BY <3>2, <3>3, <4>2 DEF Writer
      <4> QED  BY <4>1, <4>3, <4>4 DEF Writer
    <3>8. gpuVolume["es"] <= gpuVolume'["es"]
      BY <1>n, <3>3
    <3> QED  BY <2>2, <3>5, <3>6, <3>7, <3>8
  <2> QED  BY <2>1, <2>2
<1>6. x = NoRun \/ RunOK(gpuVolume', x)
  <2> SUFFICES ASSUME x # NoRun  PROVE RunOK(gpuVolume', x)
    OBVIOUS
  <2>1. /\ x \in GpuRuns /\ x.script = s /\ x.view = v /\ x.dirty = {}
        /\ x.at \in DOMAIN x.script.steps /\ Ready(x.script, x.at, x.view)
    BY DEF s, v
  <2>2. v["image"] = Whole
    BY <1>2 DEF ViewOK
  <2>3. ViewOK(gpuVolume', s, v, {})
    BY <1>2, <1>5, <2>2 DEF ViewOK
  <2> QED  BY <2>1, <2>3 DEF RunOK
<1>7. \A d \in Containers \ {c} : gpuRun[d] = NoRun \/ RunOK(gpuVolume', gpuRun'[d])
  <2> SUFFICES ASSUME NEW d \in Containers \ {c}, gpuRun[d] # NoRun  PROVE RunOK(gpuVolume', gpuRun'[d])
    OBVIOUS
  <2>1. RunOK(gpuVolume, gpuRun[d]) /\ gpuRun'[d] = gpuRun[d]
    BY <1>3, BusyRun DEF Busy
  <2>2. /\ gpuRun[d].script = sample_es => Sampler(gpuVolume', gpuRun[d].view, gpuRun[d].dirty)
        /\ gpuRun[d].script # sample_es => Writer(gpuVolume', gpuRun[d].view, gpuRun[d].dirty)
    BY <1>5 DEF Busy
  <2> QED  BY <2>1, <2>2 DEF RunOK, ViewOK
<1>8. \A d \in Containers : gpuRun'[d] = NoRun \/ RunOK(gpuVolume', gpuRun'[d])
  BY <1>3, <1>6, <1>7
<1>9. GpuInv'
  <2>1. 0 \notin saved'
    BY DEF GpuInv
  <2>2. Alone(gpuRun)'
    BY <1>4 DEF Alone
  <2> QED  BY <1>3, <1>5, <1>8, <2>1, <2>2 DEF GpuInv
<1> QED  BY <1>5, <1>9

LEMMA CommitFilesKeeps ==
  ASSUME GpuInv, NEW c \in Containers, CommitFiles(c)
  PROVE  GpuInv' /\ gpuVolume["es"] <= gpuVolume'["es"]
<1> DEFINE run == [gpuRun[c] EXCEPT !.dirty = {}]
<1>1. /\ Busy(c) /\ Now(c).op = "commit" /\ gpuVolume' = Committed(c) /\ saved' = saved
      /\ Advance(c, run)
  BY DEF CommitFiles, Doing
<1>2. /\ run \in GpuRuns /\ run.script = gpuRun[c].script /\ run.at = gpuRun[c].at
      /\ run.view = gpuRun[c].view /\ run.dirty = {}
  <2>1. gpuRun[c] \in GpuRuns
    BY <1>1, BusyRun
  <2> QED  BY <2>1 DEF GpuRuns
<1> HIDE DEF run
<1>3. run.at \in DOMAIN run.script.steps /\ ReadyAfter(run.script.steps[run.at], run.view)
  BY <1>1, <1>2, BusyRun DEF ReadyAfter, Now
<1>4. PICK x : gpuRun' = [gpuRun EXCEPT ![c] = x] /\ (x = NoRun \/ Moved(run, x))
  BY <1>1, <1>2, <1>3, AdvanceMoves
<1> QED  BY <1>1, <1>2, <1>4, CommitKeeps DEF Moved

LEMMA BackgroundKeeps ==
  ASSUME GpuInv, NEW c \in Containers, CommitInBackground(c)
  PROVE  GpuInv' /\ gpuVolume["es"] <= gpuVolume'["es"]
<1> DEFINE x == [gpuRun[c] EXCEPT !.dirty = {}]
<1>1. Busy(c) /\ gpuVolume' = Committed(c) /\ saved' = saved /\ gpuRun' = [gpuRun EXCEPT ![c] = x]
  BY DEF CommitInBackground, GpuInv
<1>2. /\ x \in GpuRuns /\ x.script = gpuRun[c].script /\ x.at = gpuRun[c].at
      /\ x.view = gpuRun[c].view /\ x.dirty = {}
  <2>1. gpuRun[c] \in GpuRuns
    BY <1>1, BusyRun
  <2> QED  BY <2>1 DEF GpuRuns
<1> HIDE DEF x
<1>3. x.at \in DOMAIN x.script.steps /\ Ready(x.script, x.at, x.view)
  BY <1>1, <1>2, BusyRun DEF RunOK
<1> QED  BY <1>1, <1>2, <1>3, CommitKeeps

LEMMA DeathKeeps ==
  ASSUME GpuInv, NEW c \in Containers, ContainerDies(c) \/ ClientDies(c)
  PROVE  GpuInv'
<1>1. Busy(c) /\ gpuVolume' = gpuVolume /\ 0 \notin saved'
  BY DEF ContainerDies, ClientDies, GpuInv
<1>2. CASE Raise(c)
  BY <1>1, <1>2, RaiseKeeps
<1>3. CASE gpuRun' = [gpuRun EXCEPT ![c].client = FALSE]
  <2> DEFINE x == [gpuRun[c] EXCEPT !.client = FALSE]
  <2>1. gpuRun' = [gpuRun EXCEPT ![c] = x]
    BY <1>3 DEF GpuInv
  <2>2. /\ x \in GpuRuns /\ x.script = gpuRun[c].script /\ x.at = gpuRun[c].at
        /\ x.view = gpuRun[c].view /\ x.dirty = gpuRun[c].dirty
    <3>1. gpuRun[c] \in GpuRuns
      BY <1>1, BusyRun
    <3> QED  BY <3>1 DEF GpuRuns
  <2> HIDE DEF x
  <2>3. RunOK(gpuVolume, x)
    BY <1>1, <2>2, BusyRun DEF RunOK
  <2> QED  BY <1>1, <2>1, <2>2, <2>3, SameScript
<1> QED  BY <1>2, <1>3 DEF ContainerDies, ClientDies

LEMMA LaunchKeeps == ASSUME GpuInv, NEW c \in Containers, Launch(c)  PROVE GpuInv'
<1>1. PICK s \in Scripts :
        /\ \A d \in Containers : Busy(d) => s = sample_es /\ gpuRun[d].script # s
        /\ gpuRun' = [gpuRun EXCEPT ![c] = [NoRun EXCEPT !.script = s, !.at = 1, !.client = TRUE,
                                                         !.view = FreshView]]
  BY DEF Launch
<1>2. ~ Busy(c) /\ gpuVolume' = gpuVolume /\ saved' = saved /\ VolumeOK /\ 0 \notin saved'
  BY DEF Launch, GpuInv
<1>3. FreshView \in Views /\ ViewOK(gpuVolume, s, FreshView, {}) /\ Ready(s, 1, FreshView) /\ 1 \in DOMAIN s.steps
  BY <1>2, FreshViewIs, FreshViewOK, ReadyFirst
<1> HIDE DEF FreshView
<1> DEFINE x == [NoRun EXCEPT !.script = s, !.at = 1, !.client = TRUE, !.view = FreshView]
<1>4. gpuRun' = [gpuRun EXCEPT ![c] = x]
  BY <1>1
<1>5. /\ x.script = s /\ x.at = 1 /\ x.view = FreshView /\ x.dirty = {} /\ x \in GpuRuns
  <2> DEFINE Wider == [script : Scripts \cup {NoRun.script}, at : Nat, fitting : BOOLEAN, client : BOOLEAN,
                       view : Views \cup {<<>>}, dirty : SUBSET VolumeFiles]
  <2>1. NoRun \in Wider /\ NoRun.dirty = {}
    BY DEF NoRun
  <2> DEFINE y(w) == [NoRun EXCEPT !.script = s, !.at = 1, !.client = TRUE, !.view = w]
  <2>2. ASSUME NEW w \in Views
        PROVE  /\ y(w) \in Wider
               /\ y(w).script = s /\ y(w).at = 1 /\ y(w).view = w /\ y(w).dirty = {}
    BY <2>1
  <2>3. ASSUME NEW r \in Wider, r.script \in Scripts, r.view \in Views, r.at # 0  PROVE r \in GpuRuns
    BY <2>3 DEF GpuRuns
  <2>4. x = y(FreshView)
    OBVIOUS
  <2> HIDE DEF Wider, x, y
  <2>5. x \in Wider /\ x.script = s /\ x.at = 1 /\ x.view = FreshView /\ x.dirty = {}
    BY <1>3, <2>2, <2>4
  <2> QED  BY <1>3, <2>3, <2>5
<1> HIDE DEF x
<1>6. RunOK(gpuVolume, x)
  BY <1>3, <1>5 DEF RunOK
<1>7. Alone(gpuRun')
  <2>1. gpuRun'[c] = x /\ \A d \in Containers \ {c} : gpuRun'[d] = gpuRun[d]
    BY <1>4 DEF GpuInv
  <2>2. Alone(gpuRun)
    BY DEF GpuInv
  <2> QED  BY <1>1, <1>5, <2>1, <2>2 DEF Alone, Busy
<1> QED  BY <1>2, <1>4, <1>6, <1>7, RunChanges

LEMMA GpuInitOK == GpuInit => GpuInv
<1> SUFFICES ASSUME GpuInit  PROVE GpuInv
  OBVIOUS
<1>1. \A f \in VolumeFiles : gpuVolume[f] = 0
  BY DEF GpuInit
<1>2. gpuVolume \in [VolumeFiles -> 0 .. Whole]
  BY ViewsAreNat DEF GpuInit
<1>3. /\ gpuVolume["marker"] = 0 /\ gpuVolume["es"] = 0 /\ ModelFile(gpuVolume) = 0
      /\ ResultFile(gpuVolume) = 0 /\ SampleFile(gpuVolume) = 0
  BY <1>1 DEF VolumeFiles, ModelFile, ResultFile, SampleFile
<1>4. VolumeOK
  BY <1>2, <1>3 DEF VolumeOK, Agree
<1>5. gpuRun = [c \in Containers |-> NoRun] /\ saved = {}
  BY DEF GpuInit
<1> QED  BY <1>4, <1>5 DEF GpuInv, Alone

LEMMA GpuStutters == GpuInv /\ UNCHANGED gpuVars => GpuInv'
BY DEF gpuVars, GpuInv, VolumeOK, Alone

LEMMA GpuNextKeeps ==
  ASSUME GpuInv, [GpuNext]_gpuVars
  PROVE  GpuInv' /\ gpuVolume["es"] <= gpuVolume'["es"]
<1>0. gpuVolume["es"] \in Nat
  BY VolumeIsNat DEF GpuInv, VolumeFiles
<1>1. ASSUME gpuVolume' = gpuVolume  PROVE gpuVolume["es"] <= gpuVolume'["es"]
  BY <1>0, <1>1
<1>2. CASE UNCHANGED gpuVars
  BY <1>1, <1>2, GpuStutters DEF gpuVars
<1>3. ASSUME NEW c \in Containers, Launch(c)  PROVE GpuInv' /\ gpuVolume["es"] <= gpuVolume'["es"]
  BY <1>1, <1>3, LaunchKeeps DEF Launch
<1>4. ASSUME NEW c \in Containers, ScriptStep(c)  PROVE GpuInv' /\ gpuVolume["es"] <= gpuVolume'["es"]
  <2>1. CASE Check(c)
    BY <1>1, <2>1, CheckKeeps DEF Check
  <2>2. CASE WriteFile(c)
    BY <1>1, <2>2, WriteKeeps DEF WriteFile
  <2>3. CASE CopyFile(c)
    BY <1>1, <2>3, CopyKeeps DEF CopyFile
  <2>4. CASE FitModel(c)
    BY <1>1, <2>4, FitKeeps DEF FitModel
  <2>5. CASE CommitFiles(c)
    BY <2>5, CommitFilesKeeps
  <2>6. CASE ReloadFiles(c)
    BY <1>1, <2>6, ReloadKeeps DEF ReloadFiles
  <2>7. CASE DeliverAudio(c)
    BY <1>1, <2>7, DeliverKeeps DEF DeliverAudio
  <2> QED  BY <1>4, <2>1, <2>2, <2>3, <2>4, <2>5, <2>6, <2>7 DEF ScriptStep
<1>5. ASSUME NEW c \in Containers, CommitInBackground(c)  PROVE GpuInv' /\ gpuVolume["es"] <= gpuVolume'["es"]
  BY <1>5, BackgroundKeeps
<1>6. ASSUME NEW c \in Containers, ContainerDies(c) \/ ClientDies(c)
      PROVE  GpuInv' /\ gpuVolume["es"] <= gpuVolume'["es"]
  BY <1>1, <1>6, DeathKeeps DEF ContainerDies, ClientDies
<1> QED  BY <1>2, <1>3, <1>4, <1>5, <1>6 DEF GpuNext

LEMMA GpuInvImplies == GpuInv => GpuArtifacts
<1> SUFFICES ASSUME GpuInv  PROVE GpuArtifacts
  OBVIOUS
<1>1. GpuTypeOK
  BY BusyRun DEF GpuInv, VolumeOK, GpuTypeOK
<1>2. MarkerMeansCorpus /\ ExportsAgree
  BY DEF GpuInv, VolumeOK, Agree, MarkerMeansCorpus, ExportsAgree, ModelFile, ResultFile, SampleFile
<1> QED  BY <1>1, <1>2 DEF GpuArtifacts

LEMMA GpuStepsOfAll ==
  [Next]_<<shop, algVars, cycleVars, gpuVars, houseVars>> => [GpuNext]_gpuVars
BY DEF Next, Algorithms, Research, Gpu, House

LEMMA GpuAlways == Spec => []GpuInv
<1>1. Init => GpuInv
  BY GpuInitOK DEF Init
<1>2. GpuInv /\ [Next]_<<shop, algVars, cycleVars, gpuVars, houseVars>> => GpuInv'
  BY GpuStepsOfAll, GpuNextKeeps
<1> QED  BY <1>1, <1>2, PTL DEF Spec

(* The Spanish run's checkpoint on the Volume never gets older, whichever  *)
(* scripts run, die or commit in the background.                           *)
THEOREM CheckpointIsKept == Spec => CheckpointKept
<1>1. GpuInv /\ [Next]_<<shop, algVars, cycleVars, gpuVars, houseVars>>
        => [gpuVolume'["es"] >= gpuVolume["es"]]_gpuVars
  <2> SUFFICES ASSUME GpuInv, [GpuNext]_gpuVars  PROVE gpuVolume'["es"] >= gpuVolume["es"]
    BY GpuStepsOfAll
  <2>1. gpuVolume["es"] <= gpuVolume'["es"] /\ GpuInv'
    BY GpuNextKeeps
  <2>2. gpuVolume["es"] \in Nat /\ gpuVolume'["es"] \in Nat
    <3>1. \A n \in 0 .. Whole : n \in Nat
      BY ViewsAreNat
    <3>2. gpuVolume["es"] \in 0 .. Whole /\ gpuVolume'["es"] \in 0 .. Whole
      BY <2>1 DEF GpuInv, VolumeOK, VolumeFiles
    <3> QED  BY <3>1, <3>2
  <2> QED  BY <2>1, <2>2
<1> QED  BY <1>1, GpuAlways, PTL DEF Spec, CheckpointKept

-----------------------------------------------------------------------------
(* The house voices.  A voice of a Volume, of the warm container or of the *)
(* server is missing or whole, with its own language's phonemes.           *)

VoicesOK(where) ==
  DOMAIN where = Voices /\ \A v \in Voices : where[v] \in {NoVoice, Exported(v)}
CallRecords == [at : {"none", "call", "running", "done", "failed"}, attempt : 0 .. MaxAttempts]

(* The entries an export has passed are in the container, which nothing    *)
(* else commits while it runs.                                             *)
Passed(mount, x) == \A i \in 1 .. x.at - 1 : mount[x.group[i]] # NoVoice
ExportOK(mount, x) ==
  x # Idle => x.group \in Groups /\ x.at \in 1 .. Len(x.group) + 1 /\ Passed(mount, x)

(* A call that is waited for is the one that runs; what an answered one    *)
(* exported, and what is in the catalogue, is committed.                   *)
CallsOK(volume, cs, x) ==
  /\ \A g \in Groups : cs[g].at = "running" => x # Idle /\ x.group = g
  /\ \A g \in Groups : cs[g].at = "done" => \A v \in ToSet(g) : volume[v] # NoVoice

Offered(volume) == \A v \in Voices : catalog[v] # "none" => volume[v] # NoVoice

HouseInv ==
  /\ VoicesOK(houseVolume) /\ VoicesOK(houseMount) /\ VoicesOK(production)
  /\ calls \in [Groups -> CallRecords] /\ exporting \in [group : Seq(Voices), at : Nat]
  /\ ExportOK(houseMount, exporting) /\ CallsOK(houseVolume, calls, exporting) /\ Offered(houseVolume)

LEMMA ExportsSpeakRight ==
  ASSUME NEW v  PROVE Exported(v) = [files |-> Files, espeak |-> Expected(v)]
<1>1. Overridden(v) = Expected(v)
  BY DEF Overridden
<1> QED  BY <1>1 DEF Exported

LEMMA FilesAreSome == Files # {}
BY DEF Files

LEMMA ExportedIs ==
  ASSUME NEW v
  PROVE  Exported(v) # NoVoice /\ Exported(v).files = Files /\ Exported(v).espeak = Expected(v)
<1>1. Exported(v) = [files |-> Files, espeak |-> Expected(v)]
  BY ExportsSpeakRight
<1>2. NoVoice.files = {}
  BY DEF NoVoice
<1> HIDE DEF Files, NoVoice
<1> QED  BY <1>1, <1>2, FilesAreSome

LEMMA NoVoiceIs == NoVoice.files = {}
BY DEF NoVoice

LEMMA GroupIs ==
  ASSUME NEW g \in Groups
  PROVE  g \in Seq(Voices) /\ DOMAIN g = 1 .. Len(g) /\ Len(g) \in Nat /\ ToSet(g) \subseteq Voices
<1>1. g \in Seq(Voices)
  BY HouseAssumption DEF HouseAssumption
<1> QED  BY <1>1 DEF ToSet

LEMMA IdleIs == Idle.at = 0 /\ Idle.group = <<>> /\ Idle \in [group : Seq(Voices), at : Nat]
BY DEF Idle

(* A commit loses nothing and puts there all that the container has.       *)
LEMMA CommitIs ==
  ASSUME VoicesOK(houseVolume), VoicesOK(houseMount)
  PROVE  /\ VoicesOK(CommitHouse)
         /\ \A v \in Voices : houseVolume[v] # NoVoice => CommitHouse[v] # NoVoice
         /\ \A v \in Voices : houseMount[v] # NoVoice => CommitHouse[v] # NoVoice
BY DEF VoicesOK, CommitHouse

LEMMA CleanMount == VoicesOK([v \in Voices |-> NoVoice])
BY DEF VoicesOK

LEMMA WrittenIs ==
  ASSUME NEW where, VoicesOK(where), NEW u \in Voices
  PROVE  /\ VoicesOK([where EXCEPT ![u] = Exported(u)])
         /\ \A v \in Voices : where[v] # NoVoice => [where EXCEPT ![u] = Exported(u)][v] # NoVoice
         /\ [where EXCEPT ![u] = Exported(u)][u] # NoVoice
BY ExportedIs DEF VoicesOK

(* More voices on the Volume disturb nothing.                              *)
LEMMA VolumeGrows ==
  ASSUME NEW volume, NEW later, \A v \in Voices : volume[v] # NoVoice => later[v] # NoVoice
  PROVE  /\ Offered(volume) => Offered(later)
         /\ \A cs, x : CallsOK(volume, cs, x) => CallsOK(later, cs, x)
<1>1. \A g \in Groups : ToSet(g) \subseteq Voices
  BY GroupIs
<1> QED  BY <1>1 DEF Offered, CallsOK

LEMMA ExportOneKeeps == ASSUME HouseInv, ExportOne PROVE HouseInv'
<1>1. PICK u \in Voices : houseVolume' = [CommitHouse EXCEPT ![u] = [files |-> Files, espeak |-> Overridden(u)]]
  BY DEF ExportOne
<1>2. houseVolume' = [CommitHouse EXCEPT ![u] = Exported(u)]
  BY <1>1 DEF Exported
<1>3. houseMount' = [v \in Voices |-> NoVoice] /\ UNCHANGED <<exporting, calls, catalog, production>>
      /\ exporting = Idle
  BY DEF ExportOne
<1>4. VoicesOK(CommitHouse) /\ \A v \in Voices : houseVolume[v] # NoVoice => CommitHouse[v] # NoVoice
  BY CommitIs DEF HouseInv
<1>5. VoicesOK(houseVolume') /\ \A v \in Voices : houseVolume[v] # NoVoice => houseVolume'[v] # NoVoice
  BY <1>2, <1>4, WrittenIs
<1>6. Offered(houseVolume)' /\ CallsOK(houseVolume, calls, exporting)'
  <2>1. Offered(houseVolume') /\ CallsOK(houseVolume', calls, exporting)
    BY <1>5, VolumeGrows DEF HouseInv
  <2> QED  BY <1>3, <2>1 DEF Offered
<1> QED  BY <1>3, <1>5, <1>6, CleanMount DEF HouseInv, ExportOK, VoicesOK

LEMMA MainKeeps == ASSUME HouseInv, Main PROVE HouseInv'
<1>1. PICK todo \in SUBSET Groups :
        calls' = [g \in Groups |-> IF g \in todo THEN [at |-> "call", attempt |-> 1] ELSE NoCall]
  BY DEF Main
<1>2. UNCHANGED <<houseVolume, houseMount, exporting, catalog, production>>
  BY DEF Main
<1>3. [at |-> "call", attempt |-> 1] \in CallRecords /\ NoCall \in CallRecords
  BY HouseAssumption DEF HouseAssumption, CallRecords, NoCall
<1>4. calls' \in [Groups -> CallRecords] /\ CallsOK(houseVolume', calls', exporting')
  BY <1>1, <1>3 DEF CallsOK, NoCall
<1> QED  BY <1>2, <1>4 DEF HouseInv, ExportOK, Passed, VoicesOK, Offered

LEMMA CallKeeps == ASSUME HouseInv, NEW g \in Groups, Call(g) PROVE HouseInv'
<1>1. /\ exporting = Idle /\ exporting' = [group |-> g, at |-> 1] /\ calls' = [calls EXCEPT ![g].at = "running"]
      /\ UNCHANGED <<houseVolume, houseMount, catalog, production>>
  BY DEF Call
<1>2. exporting' # Idle /\ exporting'.group = g /\ exporting'.at = 1
  BY <1>1, IdleIs
<1>3. exporting' \in [group : Seq(Voices), at : Nat] /\ ExportOK(houseMount', exporting')
  BY <1>1, <1>2, GroupIs DEF ExportOK, Passed
<1>4. calls' \in [Groups -> CallRecords] /\ CallsOK(houseVolume', calls', exporting')
  BY <1>1, <1>2 DEF HouseInv, CallsOK, CallRecords
<1> QED  BY <1>1, <1>3, <1>4 DEF HouseInv, VoicesOK, Offered

(* An entry that is written while an export runs.                          *)
LEMMA EntryIs ==
  ASSUME HouseInv, exporting # Idle, exporting.at <= Len(exporting.group)
  PROVE  /\ exporting.group \in Groups /\ exporting.at \in 1 .. Len(exporting.group)
         /\ exporting.group[exporting.at] \in Voices
         /\ \A i \in 1 .. exporting.at : exporting.group[i] \in Voices
<1>1. exporting.group \in Groups /\ exporting.at \in 1 .. Len(exporting.group) + 1
  BY DEF HouseInv, ExportOK
<1>2. exporting.group \in Seq(Voices) /\ Len(exporting.group) \in Nat
  BY <1>1, GroupIs
<1> QED  BY <1>1, <1>2

LEMMA ExportEntryKeeps == ASSUME HouseInv, ExportEntry PROVE HouseInv'
<1> DEFINE u == exporting.group[exporting.at]
<1>1. /\ exporting.at \in DOMAIN exporting.group /\ houseMount' = [houseMount EXCEPT ![u] = Exported(u)]
      /\ exporting' = [exporting EXCEPT !.at = @ + 1]
      /\ UNCHANGED <<houseVolume, calls, catalog, production>>
  BY DEF ExportEntry
<1>2. exporting \in [group : Seq(Voices), at : Nat]
  BY DEF HouseInv
<1>3. exporting # Idle /\ exporting.at <= Len(exporting.group)
  BY <1>1, <1>2, IdleIs
<1>4. /\ exporting.group \in Groups /\ exporting.at \in 1 .. Len(exporting.group) /\ u \in Voices
      /\ \A i \in 1 .. exporting.at : exporting.group[i] \in Voices
  BY <1>3, EntryIs
<1>5. /\ exporting'.group = exporting.group /\ exporting'.at = exporting.at + 1
      /\ exporting' \in [group : Seq(Voices), at : Nat] /\ exporting' # Idle
  BY <1>1, <1>2, <1>4, IdleIs
<1> HIDE DEF u
<1>6. /\ VoicesOK(houseMount') /\ houseMount'[u] # NoVoice
      /\ \A v \in Voices : houseMount[v] # NoVoice => houseMount'[v] # NoVoice
  BY <1>1, <1>4, WrittenIs DEF HouseInv
<1>7. ExportOK(houseMount', exporting')
  <2>1. Passed(houseMount, exporting)
    BY <1>3 DEF HouseInv, ExportOK
  <2>2. ASSUME NEW i \in 1 .. exporting'.at - 1 PROVE houseMount'[exporting'.group[i]] # NoVoice
    <3>1. i \in 1 .. exporting.at
      BY <1>4, <1>5
    <3>2. CASE i = exporting.at
      BY <1>5, <1>6, <3>2 DEF u
    <3>3. CASE i # exporting.at
      <4>1. i \in 1 .. exporting.at - 1
        BY <1>4, <3>1, <3>3
      <4> QED  BY <1>4, <1>5, <1>6, <2>1, <3>1, <4>1 DEF Passed
    <3> QED  BY <3>2, <3>3
  <2>3. exporting'.at \in 1 .. Len(exporting'.group) + 1
    <3>1. Len(exporting.group) \in Nat
      BY <1>4, GroupIs
    <3> QED  BY <1>4, <1>5, <3>1
  <2> QED  BY <1>4, <1>5, <2>2, <2>3 DEF ExportOK, Passed
<1>8. CallsOK(houseVolume', calls', exporting')
  BY <1>1, <1>3, <1>5 DEF HouseInv, CallsOK
<1> QED  BY <1>1, <1>5, <1>6, <1>7, <1>8 DEF HouseInv, VoicesOK, Offered

(* The answer of an export reaches the call that still waits for it.       *)
LEMMA AnsweredIs ==
  ASSUME HouseInv, exporting # Idle, NEW how \in {"done", "failed"}
  PROVE  /\ Answered(how) \in [Groups -> CallRecords]
         /\ \A g \in Groups : Answered(how)[g].at # "running"
         /\ \A g \in Groups : Answered(how)[g].at = "done" =>
              calls[g].at = "done" \/ (how = "done" /\ g = exporting.group)
<1>1. exporting.group \in Groups /\ calls \in [Groups -> CallRecords]
  BY DEF HouseInv, ExportOK
<1>2. Answered(how) \in [Groups -> CallRecords]
  BY <1>1 DEF Answered, CallRecords
<1>3. ASSUME NEW g \in Groups
      PROVE  /\ Answered(how)[g].at # "running"
             /\ Answered(how)[g].at = "done" => calls[g].at = "done" \/ (how = "done" /\ g = exporting.group)
  <2>1. calls[g].at = "running" => g = exporting.group
    BY DEF HouseInv, CallsOK
  <2> QED  BY <1>1, <2>1 DEF Answered, CallRecords
<1> QED  BY <1>2, <1>3

LEMMA ExportFailsKeeps == ASSUME HouseInv, ExportFails PROVE HouseInv'
<1> DEFINE u == exporting.group[exporting.at]
<1>1. /\ exporting # Idle /\ exporting.at <= Len(exporting.group) /\ exporting' = Idle
      /\ calls' = Answered("failed") /\ UNCHANGED <<houseVolume, catalog, production>>
      /\ houseMount' = houseMount \/ houseMount' = [houseMount EXCEPT ![u] = Exported(u)]
  BY DEF ExportFails
<1>2. u \in Voices
  BY <1>1, EntryIs
<1> HIDE DEF u
<1>3. VoicesOK(houseMount')
  <2>1. VoicesOK(houseMount)
    BY DEF HouseInv
  <2>2. VoicesOK([houseMount EXCEPT ![u] = Exported(u)])
    BY <1>2, <2>1, WrittenIs
  <2> QED  BY <1>1, <2>1, <2>2
<1>4. calls' \in [Groups -> CallRecords] /\ CallsOK(houseVolume', calls', exporting')
  BY <1>1, AnsweredIs DEF CallsOK, HouseInv
<1> QED  BY <1>1, <1>3, <1>4, IdleIs DEF HouseInv, ExportOK, VoicesOK, Offered

LEMMA ExportDoneKeeps == ASSUME HouseInv, ExportDone PROVE HouseInv'
<1>1. /\ exporting # Idle /\ exporting.at > Len(exporting.group) /\ exporting' = Idle
      /\ calls' = Answered("done") /\ UNCHANGED <<catalog, production>>
      /\ houseVolume' = CommitHouse /\ houseMount' = [v \in Voices |-> NoVoice]
  BY DEF ExportDone
<1>2. /\ VoicesOK(houseVolume')
      /\ \A v \in Voices : houseVolume[v] # NoVoice => houseVolume'[v] # NoVoice
      /\ \A v \in Voices : houseMount[v] # NoVoice => houseVolume'[v] # NoVoice
  BY <1>1, CommitIs DEF HouseInv
<1>3. exporting.group \in Groups /\ exporting.at \in 1 .. Len(exporting.group) + 1 /\ Passed(houseMount, exporting)
  BY <1>1 DEF HouseInv, ExportOK
<1>4. ASSUME NEW v \in ToSet(exporting.group)  PROVE houseVolume'[v] # NoVoice
  <2>1. PICK i \in 1 .. Len(exporting.group) : v = exporting.group[i]
    BY <1>3, GroupIs DEF ToSet
  <2>2. i \in 1 .. exporting.at - 1
    BY <1>1, <1>3, <2>1, GroupIs
  <2>3. v \in Voices
    BY <1>3, GroupIs
  <2> QED  BY <1>2, <1>3, <2>1, <2>2, <2>3 DEF Passed
<1>5. calls' \in [Groups -> CallRecords] /\ CallsOK(houseVolume', calls', exporting')
  <2>1. /\ calls' \in [Groups -> CallRecords] /\ \A g \in Groups : calls'[g].at # "running"
        /\ \A g \in Groups : calls'[g].at = "done" => calls[g].at = "done" \/ g = exporting.group
    BY <1>1, AnsweredIs
  <2>2. ASSUME NEW g \in Groups, calls[g].at = "done", NEW v \in ToSet(g)  PROVE houseVolume'[v] # NoVoice
    BY <1>2, <2>2, GroupIs DEF HouseInv, CallsOK
  <2> QED  BY <1>4, <2>1, <2>2 DEF CallsOK
<1>6. Offered(houseVolume)'
  BY <1>1, <1>2 DEF HouseInv, Offered
<1> QED  BY <1>1, <1>2, <1>5, <1>6, IdleIs, CleanMount DEF HouseInv, ExportOK, VoicesOK

LEMMA CallLostKeeps == ASSUME HouseInv, NEW g \in Groups, CallLost(g) PROVE HouseInv'
<1>1. /\ calls' = [calls EXCEPT ![g] = IF @.attempt < MaxAttempts
                                       THEN [at |-> "call", attempt |-> @.attempt + 1]
                                       ELSE [@ EXCEPT !.at = "failed"]]
      /\ UNCHANGED <<houseVolume, houseMount, exporting, catalog, production>>
  BY DEF CallLost
<1>2. calls \in [Groups -> CallRecords] /\ MaxAttempts \in Nat
  BY HouseAssumption DEF HouseInv, HouseAssumption
<1>3. calls' \in [Groups -> CallRecords] /\ calls'[g].at \in {"call", "failed"}
  BY <1>1, <1>2 DEF CallRecords
<1>4. \A h \in Groups \ {g} : calls'[h] = calls[h]
  BY <1>1, <1>2
<1>5. CallsOK(houseVolume', calls', exporting')
  BY <1>1, <1>3, <1>4 DEF HouseInv, CallsOK
<1> QED  BY <1>1, <1>3, <1>5 DEF HouseInv, ExportOK, Passed, VoicesOK, Offered

LEMMA MergeKeeps == ASSUME HouseInv, NEW g \in Groups, MergeResult(g) PROVE HouseInv'
<1>1. /\ calls[g].at \in {"done", "failed"} /\ calls' = [calls EXCEPT ![g] = NoCall]
      /\ catalog' = IF calls[g].at = "failed" THEN catalog
                    ELSE [v \in Voices |-> IF v \in ToSet(g) THEN Shipped(v) ELSE catalog[v]]
      /\ UNCHANGED <<houseVolume, houseMount, exporting, production>>
  BY DEF MergeResult
<1>2. calls' \in [Groups -> CallRecords] /\ CallsOK(houseVolume', calls', exporting')
  <2>1. NoCall \in CallRecords /\ NoCall.at = "none"
    BY HouseAssumption DEF HouseAssumption, CallRecords, NoCall
  <2> QED  BY <1>1, <2>1 DEF HouseInv, CallsOK
<1>3. Offered(houseVolume)'
  <2>1. CASE calls[g].at = "failed"
    BY <1>1, <2>1 DEF HouseInv, Offered
  <2>2. CASE calls[g].at = "done"
    <3>1. \A v \in ToSet(g) : houseVolume[v] # NoVoice
      BY <2>2 DEF HouseInv, CallsOK
    <3>2. catalog' = [v \in Voices |-> IF v \in ToSet(g) THEN Shipped(v) ELSE catalog[v]]
      BY <1>1, <2>2
    <3> QED  BY <1>1, <3>1, <3>2 DEF HouseInv, Offered
  <2> QED  BY <1>1, <2>1, <2>2
<1> QED  BY <1>1, <1>2, <1>3 DEF HouseInv, ExportOK, Passed, VoicesOK

LEMMA PublishKeeps == ASSUME HouseInv, NEW v \in Voices, Publish(v) PROVE HouseInv'
<1>1. /\ production' = [production EXCEPT ![v] = houseVolume[v]]
      /\ UNCHANGED <<houseVolume, houseMount, exporting, calls, catalog>>
  BY DEF Publish
<1>2. VoicesOK(production')
  BY <1>1 DEF HouseInv, VoicesOK
<1> QED  BY <1>1, <1>2 DEF HouseInv, ExportOK, Passed, CallsOK, VoicesOK, Offered

LEMMA HouseInitOK == HouseInit => HouseInv
<1> SUFFICES ASSUME HouseInit  PROVE HouseInv
  OBVIOUS
<1>1. /\ houseVolume = [v \in Voices |-> NoVoice] /\ houseMount = houseVolume /\ production = houseVolume
      /\ exporting = Idle /\ calls = [g \in Groups |-> NoCall] /\ catalog = [v \in Voices |-> "none"]
  BY DEF HouseInit
<1>2. NoCall \in CallRecords /\ NoCall.at = "none"
  BY HouseAssumption DEF HouseAssumption, CallRecords, NoCall
<1>3. calls \in [Groups -> CallRecords] /\ CallsOK(houseVolume, calls, exporting)
  BY <1>1, <1>2 DEF CallsOK
<1> QED  BY <1>1, <1>3, IdleIs, CleanMount DEF HouseInv, ExportOK, Offered

LEMMA HouseNextKeeps == HouseInv /\ [HouseNext]_houseVars => HouseInv'
<1> SUFFICES ASSUME HouseInv, [HouseNext]_houseVars  PROVE HouseInv'
  OBVIOUS
<1>1. CASE UNCHANGED houseVars
  BY <1>1 DEF houseVars, HouseInv, ExportOK, Passed, CallsOK, VoicesOK, Offered
<1>2. CASE HouseStep
  BY <1>2, ExportEntryKeeps, ExportDoneKeeps, CallKeeps, MergeKeeps DEF HouseStep
<1>3. CASE HouseNext
  BY <1>2, <1>3, ExportOneKeeps, MainKeeps, ExportFailsKeeps, CallLostKeeps, PublishKeeps DEF HouseNext
<1> QED  BY <1>1, <1>3

LEMMA HouseInvImplies == HouseInv => HouseHolds
<1> SUFFICES ASSUME HouseInv  PROVE HouseHolds
  OBVIOUS
<1>1. ASSUME NEW where, VoicesOK(where), NEW v \in Voices
      PROVE  /\ where[v].files \in {{}, Files}
             /\ where[v] # NoVoice => where[v].files = Files /\ where[v].espeak = Expected(v)
  BY <1>1, ExportedIs, NoVoiceIs DEF VoicesOK
<1>2. \A g \in Groups : calls[g].attempt <= MaxAttempts
  BY HouseAssumption DEF HouseInv, CallRecords, HouseAssumption
<1>3. HouseTypeOK
  BY <1>1, <1>2 DEF HouseInv, HouseTypeOK
<1>4. CatalogIsOnVolume
  BY <1>1 DEF HouseInv, Offered, CatalogIsOnVolume
<1>5. SpeaksItsLanguage
  BY <1>1 DEF HouseInv, SpeaksItsLanguage
<1> QED  BY <1>3, <1>4, <1>5 DEF HouseHolds

LEMMA HouseStepsOfAll ==
  [Next]_<<shop, algVars, cycleVars, gpuVars, houseVars>> => [HouseNext]_houseVars
BY DEF Next, Algorithms, Research, Gpu, House

LEMMA HouseAlways == Spec => []HouseInv
<1>1. Init => HouseInv
  BY HouseInitOK DEF Init
<1>2. HouseInv /\ [Next]_<<shop, algVars, cycleVars, gpuVars, houseVars>> => HouseInv'
  BY HouseStepsOfAll, HouseNextKeeps
<1> QED  BY <1>1, <1>2, PTL DEF Spec

(* What scripts leave behind is what the next one may rely on: a marked    *)
(* corpus is whole, an export matches its checkpoint, the catalogue names  *)
(* voices of the Volume, and no voice has another language's phonemes.     *)
THEOREM ArtifactsAreKept == Spec => []ArtifactsHold
<1>1. GpuInv /\ HouseInv => ArtifactsHold
  BY GpuInvImplies, HouseInvImplies DEF ArtifactsHold
<1> QED  BY <1>1, GpuAlways, HouseAlways, PTL

-----------------------------------------------------------------------------
(* Session tokens.                                                         *)

Claims(c) == {"id", "exp"} \subseteq DOMAIN c /\ c.exp \in Int
Minted(m) == Len(m) = 2 /\ Signed(m) /\ Claims(m[1])

FirstTwo(a) == <<a[1], a[2]>>

(* The verdicts on what arrives, where nothing that begins with two signed *)
(* parts begins with anything but a token that was minted.                 *)
LEMMA VerdictsAgree ==
  ASSUME NEW tokens, NEW a, NEW s \in Nat,
         Len(a) \in Nat, Len(a) = 2 => a = FirstTwo(a),
         a \in tokens => Minted(a),
         Len(a) >= 2 /\ FirstTwo(a) \in tokens => Minted(FirstTwo(a)),
         Len(a) >= 2 /\ Signed(a) /\ {"id", "exp"} \subseteq DOMAIN a[1] => FirstTwo(a) \in tokens
  PROVE  SameClaims(tokens, a, s, Verdicts(a, s))
<1> DEFINE G == VerifySessionClaims(a, s * Milli)
           P == Verified(a, s, TRUE)
           R == Verified(a, s, FALSE)
           Live(t) == t \in tokens /\ s * Milli <= t[1].exp
           begins == Len(a) >= 2 /\ Live(FirstTwo(a))
           whole == [id |-> a[1].id, uid |-> UserOf(a[1])]
           short == [id |-> a[1].id, uid |-> NoUser]
           v == [gateway |-> G, piper_fly |-> P, demucs |-> P, readaloud |-> R, stt_prod |-> R, stt |-> R, realtime |-> R]
<1>1. Verdicts(a, s) = v
  BY DEF Verdicts, PiperFlyClaims, DemucsClaims, ReadAloudId, SttProdId, SttId, RealtimeId
<1>2. s * Milli \in Int
  BY TokenAssumption DEF TokenAssumption
<1>3. Live(a) => G = {whole} /\ P = {whole} /\ R = {short}
  <2> SUFFICES ASSUME Live(a)  PROVE G = {whole} /\ P = {whole} /\ R = {short}
    OBVIOUS
  <2>1. Minted(a) /\ s * Milli <= a[1].exp
    OBVIOUS
  <2>2. ~ Expired(a[1], s)
    BY <1>2, <2>1 DEF Expired, Minted, Claims
  <2>3. G = {whole}
    BY <2>1 DEF VerifySessionClaims, Minted, Claims
  <2> QED  BY <2>1, <2>2, <2>3 DEF Verified, Minted, Claims
<1>4. ~ Live(a) => P = {} /\ R = {}
  <2> SUFFICES ASSUME ~ Live(a)  PROVE P = {} /\ R = {}
    OBVIOUS
  <2>1. CASE a \in tokens
    <3>1. Minted(a) /\ ~ (s * Milli <= a[1].exp)
      BY <2>1
    <3>2. Expired(a[1], s)
      BY <1>2, <3>1 DEF Expired, Minted, Claims
    <3> QED  BY <3>2 DEF Verified
  <2>2. CASE a \notin tokens
    <3>1. ASSUME Len(a) = 2, Signed(a), {"id", "exp"} \subseteq DOMAIN a[1]  PROVE FALSE
      <4>1. Len(a) >= 2 /\ a = FirstTwo(a)
        BY <3>1
      <4>2. FirstTwo(a) \in tokens
        BY <3>1, <4>1, Zenon
      <4> QED  BY <2>2, <4>1, <4>2, Zenon
    <3> QED  BY <3>1 DEF Verified
  <2> QED  BY <2>1, <2>2
<1>5. G \subseteq {whole}
  BY DEF VerifySessionClaims
<1>6. begins => G # {}
  <2> SUFFICES ASSUME begins  PROVE G # {}
    OBVIOUS
  <2>1. Minted(FirstTwo(a)) /\ FirstTwo(a)[1] = a[1] /\ FirstTwo(a)[2] = a[2]
    BY DEF FirstTwo
  <2> QED  BY <2>1 DEF VerifySessionClaims, Minted, Claims, Signed
<1>7. G # {} => begins
  <2> SUFFICES ASSUME G # {}  PROVE begins
    OBVIOUS
  <2>1. Len(a) >= 2 /\ Signed(a) /\ {"id", "exp"} \subseteq DOMAIN a[1] /\ s * Milli <= a[1].exp
    BY DEF VerifySessionClaims
  <2>2. FirstTwo(a)[1] = a[1]
    BY DEF FirstTwo
  <2> QED  BY <2>1, <2>2
<1> HIDE DEF G, P, R, Live, begins, whole, short
<1> DEFINE W == {"gateway", "piper_fly", "demucs", "readaloud", "stt_prod", "stt", "realtime"}
<1>8. /\ DOMAIN v = W /\ v.gateway = G /\ v.piper_fly = P /\ v.demucs = P
      /\ v["gateway"] = G /\ \A w \in {"piper_fly", "demucs"} : v[w] = P
      /\ \A w \in {"readaloud", "stt_prod", "stt", "realtime"} : v[w] = R
  OBVIOUS
<1> HIDE DEF v
<1>9. \A w \in DOMAIN v \ {"gateway"} : v[w] # {} <=> Live(a)
  BY <1>3, <1>4, <1>8
<1>10. v.gateway # {} <=> begins
  BY <1>6, <1>7, <1>8
<1>11. \A w \in DOMAIN v : v[w] \subseteq {whole, short}
  BY <1>3, <1>4, <1>5, <1>8
<1>12. {whole, short} \subseteq {[id |-> a[1].id, uid |-> u] : u \in {NoUser, UserOf(a[1])}}
  BY DEF whole, short
<1>13. v.piper_fly = v.demucs /\ (Live(a) => v.piper_fly = v.gateway)
  BY <1>3, <1>8
<1>14. \A w \in DOMAIN v : v[w] \subseteq {[id |-> a[1].id, uid |-> u] : u \in {NoUser, UserOf(a[1])}}
  BY <1>11, <1>12
<1> QED  BY <1>1, <1>9, <1>10, <1>13, <1>14 DEF SameClaims, Live, begins, FirstTwo

(* A token as it is minted: claims, which are no signature, and theirs.    *)
LEMMA MintedIs ==
  ASSUME NEW id, NEW uid, NEW now \in Int, NEW m, m = CreateSessionToken(id, uid, now)
  PROVE  Minted(m) /\ m = <<m[1], Hmac(Secret, m[1])>> /\ "secret" \notin DOMAIN m[1]
<1> DEFINE c == IF uid = NoUser THEN [id |-> id, exp |-> now + Ttl] ELSE [id |-> id, exp |-> now + Ttl, uid |-> uid]
<1>1. m = <<c, Hmac(Secret, c)>>
  BY DEF CreateSessionToken
<1>2. now + Ttl \in Int
  BY TokenAssumption DEF TokenAssumption
<1>3. {"id", "exp"} \subseteq DOMAIN c /\ c.exp = now + Ttl /\ "secret" \notin DOMAIN c
  OBVIOUS
<1> HIDE DEF c
<1> QED  BY <1>1, <1>2, <1>3 DEF Minted, Claims, Signed

(* Two parts and two more are four, which begin with the first two.        *)
LEMMA FourParts ==
  ASSUME NEW b, NEW c, NEW d, NEW e
  PROVE  Len(<<b, c>> \o <<d, e>>) = 4 /\ FirstTwo(<<b, c>> \o <<d, e>>) = <<b, c>>
<1>1. LET s == <<b, c>> \o <<d, e>> IN Len(s) = 4 /\ s[1] = b /\ s[2] = c
  BY SMTT(30)
<1> QED  BY <1>1, Zenon DEF FirstTwo

LEMMA TwoParts ==
  \A a, b, c : a = <<b, c>> => Len(a) = 2 /\ a = FirstTwo(a)
BY DEF FirstTwo

(* Nothing that is made of the parts of two tokens begins with two signed  *)
(* parts that are no token; what has two parts is its beginning.           *)
LEMMA OnlyMintedPass ==
  ASSUME NEW tokens, NEW t \in tokens, NEW u \in tokens, NEW a \in Arriving(t, u),
         \A m \in tokens : Minted(m) /\ m = <<m[1], Hmac(Secret, m[1])>> /\ "secret" \notin DOMAIN m[1]
  PROVE  /\ Len(a) \in Nat /\ (Len(a) = 2 => a = FirstTwo(a))
         /\ Len(a) >= 2 /\ Signed(a) /\ {"id", "exp"} \subseteq DOMAIN a[1] => FirstTwo(a) \in tokens
<1> DEFINE h(m) == Hmac(Secret, m[1])
<1>1. \A x, y : Hmac(Secret, x) = Hmac(Secret, y) => x = y
  BY DEF Hmac
<1>2. \A x, y : Hmac("another", x) # Hmac(Secret, y)
  BY TokenAssumption DEF Hmac, TokenAssumption
<1>3. t = <<t[1], h(t)>> /\ u = <<u[1], h(u)>>
  OBVIOUS
<1> HIDE DEF h
<1>4. Len(t \o u) = 4 /\ FirstTwo(t \o u) = t
  <2>1. PICK b, c : t = <<b, c>>
    BY <1>3, Zenon
  <2>2. PICK d, e : u = <<d, e>>
    BY <1>3, Zenon
  <2>3. Len(<<b, c>> \o <<d, e>>) = 4 /\ FirstTwo(<<b, c>> \o <<d, e>>) = <<b, c>>
    BY FourParts
  <2> QED  BY <2>1, <2>2, <2>3, Zenon
<1>5. Len(a) \in Nat /\ (Len(a) = 2 => a = FirstTwo(a))
  <2>1. Len(<<>>) = 0 /\ Len(<<t[1]>>) = 1
    OBVIOUS
  <2>2. Len(t) = 2 /\ t = FirstTwo(t)
    <3>1. PICK b, c : t = <<b, c>>
      BY <1>3, Zenon
    <3> QED  BY <3>1, TwoParts, Zenon
  <2>3. CASE a \in {<<>>, <<t[1]>>, t \o u}
    BY <1>4, <2>1, <2>3
  <2>4. CASE a \in {t, <<t[1], u[2]>>, <<u[1], t[2]>>, <<t[2], t[1]>>, <<t[1], Hmac("another", t[1])>>}
    <3>1. \A b, c : a = <<b, c>> => Len(a) = 2 /\ a = FirstTwo(a)
      BY TwoParts
    <3>2. Len(a) = 2 /\ a = FirstTwo(a)
      <4>1. CASE a = t
        BY <2>2, <4>1
      <4>2. CASE a = <<t[1], u[2]>>
        BY <3>1, <4>2, Zenon
      <4>3. CASE a = <<u[1], t[2]>>
        BY <3>1, <4>3, Zenon
      <4>4. CASE a = <<t[2], t[1]>>
        BY <3>1, <4>4, Zenon
      <4>5. CASE a = <<t[1], Hmac("another", t[1])>>
        BY <3>1, <4>5, Zenon
      <4> QED  BY <2>4, <4>1, <4>2, <4>3, <4>4, <4>5
    <3> QED  BY <3>2
  <2> QED  BY <2>3, <2>4, Zenon DEF Arriving
<1> USE DEF h
<1> SUFFICES ASSUME Len(a) >= 2, Signed(a), {"id", "exp"} \subseteq DOMAIN a[1]  PROVE FirstTwo(a) \in tokens
  BY <1>5
<1>6. a # <<>> /\ a # <<t[1]>>
  <2>1. Len(<<>>) = 0 /\ Len(<<t[1]>>) = 1
    OBVIOUS
  <2> QED  BY <2>1
<1>7. CASE a = t \/ a = t \o u
  <2>1. t = FirstTwo(t)
    <3>1. PICK b, c : t = <<b, c>>
      BY <1>3, Zenon
    <3> QED  BY <3>1, TwoParts, Zenon
  <2> QED  BY <1>4, <1>7, <2>1, Zenon
<1>8. CASE a = <<t[1], u[2]>>
  <2>1. Hmac(Secret, u[1]) = Hmac(Secret, t[1])
    BY <1>3, <1>8 DEF Signed
  <2> QED  BY <1>1, <1>3, <1>8, <2>1 DEF FirstTwo
<1>9. CASE a = <<u[1], t[2]>>
  <2>1. Hmac(Secret, t[1]) = Hmac(Secret, u[1])
    BY <1>3, <1>9 DEF Signed
  <2> QED  BY <1>1, <1>3, <1>9, <2>1 DEF FirstTwo
<1>10. a # <<t[2], t[1]>>
  <2> SUFFICES ASSUME a = <<t[2], t[1]>>  PROVE FALSE
    OBVIOUS
  <2>1. t[1] = Hmac(Secret, t[2])
    BY DEF Signed
  <2> QED  BY <2>1 DEF Hmac
<1>11. a # <<t[1], Hmac("another", t[1])>>
  <2> SUFFICES ASSUME a = <<t[1], Hmac("another", t[1])>>  PROVE FALSE
    OBVIOUS
  <2>1. Hmac("another", t[1]) = Hmac(Secret, t[1])
    BY DEF Signed
  <2> QED  BY <1>2, <2>1
<1> QED  BY <1>6, <1>7, <1>8, <1>9, <1>10, <1>11 DEF Arriving

(* The workers take the live tokens of any keys and users, and no others;  *)
(* the gateway those, and what begins with one.                            *)
LEMMA EveryTokenVerified ==
  ASSUME NEW tokens, \A m \in tokens : \E id, uid : \E now \in Int : m = CreateSessionToken(id, uid, now),
         NEW t \in tokens, NEW u \in tokens, NEW a \in Arriving(t, u), NEW s \in Nat
  PROVE  SameClaims(tokens, a, s, Verdicts(a, s))
<1>1. \A m \in tokens : Minted(m) /\ m = <<m[1], Hmac(Secret, m[1])>> /\ "secret" \notin DOMAIN m[1]
  BY MintedIs
<1> QED  BY <1>1, OnlyMintedPass, VerdictsAgree

-----------------------------------------------------------------------------
(* The gates.                                                              *)

SplitRecords == [gap : Int, minor : Int, lo : Int, hi : Int]
Measurements == [snr : Nat, band : Int, off : Int, cv : Int, apart : BOOLEAN,
                 split : {{}} \cup {{d} : d \in SplitRecords}]

\* A set is rejected when one of the gates rejects it.
LEMMA RejectIs ==
  ASSUME NEW m
  PROVE  Evaluate(m).reject = "none" <=> "reject" \notin {Noise(m), Speakers(m), Transcripts(m)}
BY DEF Evaluate

\* The one split there is.
LEMMA TheSplit == ASSUME NEW d PROVE (CHOOSE x \in {d} : TRUE) = d
OBVIOUS

(* Two speakers are rejected by the split, whatever else was measured.     *)
LEMMA SpeakersReject ==
  ASSUME NEW m, NEW d, m.split = {d}
  PROVE  Speakers(m) = "reject" <=> ~ (d.minor < 15) /\ d.gap >= 600 /\ Straddles(d)
<1>1. (CHOOSE x \in m.split : TRUE) = d /\ m.split # {}
  BY TheSplit
<1> HIDE DEF Straddles
<1> QED  BY <1>1 DEF Speakers

\* Too few pitches say nothing of the speakers.
LEMMA NoSplitNoReject == ASSUME NEW m, m.split = {} PROVE Speakers(m) = "fine"
BY DEF Speakers

(* What is clearer of two speakers is rejected too.                        *)
LEMMA ClearerRejects ==
  ASSUME NEW m \in Measurements, NEW w, Speakers(m) = "reject",
         w.split \in {m.split, {[d EXCEPT !.gap = @ + 151] : d \in m.split},
                      {[d EXCEPT !.minor = @ + 1] : d \in m.split}}
  PROVE  Speakers(w) = "reject"
<1>1. PICK d \in SplitRecords : m.split = {d}
  BY NoSplitNoReject DEF Measurements
<1>2. d.minor \in Int /\ d.gap \in Int /\ d.minor >= 15 /\ d.gap >= 600 /\ Straddles(d)
  <2>1. ~ (d.minor < 15) /\ d.gap >= 600 /\ Straddles(d)
    BY <1>1, SpeakersReject
  <2> QED  BY <2>1 DEF SplitRecords
<1>3. \E e : w.split = {e} /\ e.minor \in Int /\ e.minor >= 15 /\ e.gap >= 600 /\ e.lo = d.lo /\ e.hi = d.hi
  <2>1. CASE w.split = m.split
    BY <1>1, <1>2, <2>1
  <2>2. CASE w.split = {[x EXCEPT !.gap = @ + 151] : x \in m.split}
    <3> DEFINE e == [d EXCEPT !.gap = @ + 151]
    <3>1. w.split = {e}
      BY <1>1, <2>2
    <3>2. e.gap = d.gap + 151 /\ e.minor = d.minor /\ e.lo = d.lo /\ e.hi = d.hi
      BY DEF SplitRecords
    <3> HIDE DEF e
    <3> QED  BY <1>2, <3>1, <3>2
  <2>3. CASE w.split = {[x EXCEPT !.minor = @ + 1] : x \in m.split}
    <3> DEFINE e == [d EXCEPT !.minor = @ + 1]
    <3>1. w.split = {e}
      BY <1>1, <2>3
    <3>2. e.gap = d.gap /\ e.minor = d.minor + 1 /\ e.lo = d.lo /\ e.hi = d.hi
      BY DEF SplitRecords
    <3> HIDE DEF e
    <3> QED  BY <1>2, <3>1, <3>2
  <2> QED  BY <2>1, <2>2, <2>3
<1>4. PICK e : w.split = {e} /\ e.minor \in Int /\ e.minor >= 15 /\ e.gap >= 600 /\ e.lo = d.lo /\ e.hi = d.hi
  BY <1>3
<1>5. Straddles(e) /\ ~ (e.minor < 15)
  BY <1>2, <1>4 DEF Straddles
<1> QED  BY <1>4, <1>5, SpeakersReject

(* No gate rewards worse data, and nothing else is rejected.               *)
LEMMA GatesKeep == ASSUME NEW m \in Measurements PROVE GateKeeps(m, Evaluate(m))
<1>1. ASSUME Evaluate(m).reject # "none",
             NEW n \in IF m.snr > 1 THEN {m.snr - 1, m.snr} ELSE {m.snr},
             NEW o \in {m.off, m.off + 1}, NEW c \in {m.cv, m.cv + 1},
             NEW s \in {m.split, {[d EXCEPT !.gap = @ + 151] : d \in m.split},
                        {[d EXCEPT !.minor = @ + 1] : d \in m.split}}
      PROVE  Evaluate([m EXCEPT !.snr = n, !.off = o, !.cv = c, !.split = s]).reject # "none"
  <2> DEFINE w == [m EXCEPT !.snr = n, !.off = o, !.cv = c, !.split = s]
  <2>1. w.snr = n /\ w.off = o /\ w.cv = c /\ w.split = s
    BY DEF Measurements
  <2>2. m.snr \in Nat /\ m.off \in Int /\ m.cv \in Int
    BY DEF Measurements
  <2> HIDE DEF w
  <2>3. CASE Noise(m) = "reject"
    <3>1. m.snr # 0 /\ m.snr < 12
      BY <2>3 DEF Noise
    <3>2. w.snr # 0 /\ w.snr < 12
      BY <1>1, <2>1, <2>2, <3>1
    <3>3. Noise(w) = "reject"
      BY <3>2 DEF Noise
    <3> QED  BY <3>3, RejectIs DEF w
  <2>4. CASE Speakers(m) = "reject"
    <3>1. Speakers(w) = "reject"
      BY <1>1, <2>1, <2>4, ClearerRejects
    <3> QED  BY <3>1, RejectIs DEF w
  <2>5. CASE Transcripts(m) = "reject"
    <3>1. m.off >= 30 \/ m.cv >= 40
      BY <2>5 DEF Transcripts
    <3>2. w.off >= 30 \/ w.cv >= 40
      BY <1>1, <2>1, <2>2, <3>1
    <3>3. Transcripts(w) = "reject"
      BY <3>2 DEF Transcripts
    <3> QED  BY <3>3, RejectIs DEF w
  <2> QED  BY <1>1, <2>3, <2>4, <2>5, RejectIs
<1> QED  BY <1>1, RejectIs DEF GateKeeps

(* Products and quotients.                                                 *)
LEMMA TimesGrows ==
  ASSUME NEW a \in Int, NEW b \in Int, a <= b, NEW c \in Nat
  PROVE  a * c <= b * c
OBVIOUS

\* Positive factors have a positive product.
LEMMA TimesPositive == ASSUME NEW a \in Nat \ {0}, NEW b \in Nat \ {0} PROVE a * b \in Nat \ {0}
OBVIOUS

\* A positive factor cancels.
LEMMA TimesCancels ==
  ASSUME NEW a \in Int, NEW b \in Int, NEW c \in Nat \ {0}, a * c <= b * c
  PROVE  a <= b
<1> SUFFICES ASSUME b + 1 <= a  PROVE FALSE
  OBVIOUS
<1>1. (b + 1) * c <= a * c
  BY TimesGrows
<1>2. (b + 1) * c = b * c + c
  OBVIOUS
<1> QED  BY <1>1, <1>2

\* What the quotient of a division is.
LEMMA QuotientIs ==
  ASSUME NEW a \in Int, NEW d \in Nat \ {0}
  PROVE  /\ a \div d \in Int /\ (a \div d) * d <= a /\ a < (a \div d) * d + d
OBVIOUS

\* A multiple divides.
LEMMA QuotientOfMultiple ==
  ASSUME NEW a \in Int, NEW d \in Nat \ {0}
  PROVE  (a * d) \div d = a
<1> DEFINE q == (a * d) \div d
<1>1. q \in Int /\ q * d <= a * d /\ a * d < q * d + d
  BY QuotientIs
<1> HIDE DEF q
<1>2. q <= a
  BY <1>1, TimesCancels
<1>3. a <= q
  <2> SUFFICES ASSUME q + 1 <= a  PROVE FALSE
    BY <1>1
  <2>1. (q + 1) * d <= a * d
    BY <1>1, TimesGrows
  <2>2. (q + 1) * d = q * d + d
    BY <1>1
  <2> QED  BY <1>1, <2>1, <2>2
<1> QED  BY <1>1, <1>2, <1>3 DEF q

\* A quotient is at least what it is of a smaller multiple.
LEMMA QuotientAtLeast ==
  ASSUME NEW a \in Int, NEW d \in Nat \ {0}, NEW b \in Int, b * d <= a
  PROVE  b <= a \div d
<1> DEFINE q == a \div d
<1>1. q \in Int /\ a < q * d + d
  BY QuotientIs
<1> HIDE DEF q
<1> SUFFICES ASSUME q + 1 <= b  PROVE FALSE
  BY <1>1 DEF q
<1>2. (q + 1) * d <= b * d
  BY <1>1, TimesGrows
<1>3. (q + 1) * d = q * d + d
  BY <1>1
<1>4. b * d \in Int /\ q * d \in Int
  BY <1>1
<1> QED  BY <1>1, <1>2, <1>3, <1>4

\* A quotient is at most what it is of a greater multiple.
LEMMA QuotientAtMost ==
  ASSUME NEW a \in Int, NEW d \in Nat \ {0}, NEW b \in Int, a <= b * d
  PROVE  a \div d <= b
<1> DEFINE q == a \div d
<1>1. q \in Int /\ q * d <= a
  BY QuotientIs
<1> HIDE DEF q
<1>2. q * d <= b * d
  <2>1. q * d \in Int /\ b * d \in Int
    BY <1>1
  <2> QED  BY <1>1, <2>1
<1>3. q <= b
  BY <1>1, <1>2, TimesCancels
<1> QED  BY <1>3 DEF q

(* Of some fractions one is the least.                                     *)
LeastOf(c, w, S, i) == \A j \in S : c[i] * w[j] <= c[j] * w[i]

\* The order of fractions is transitive.
LEMMA FractionsOrdered ==
  ASSUME NEW a \in Int, NEW b \in Int, NEW c \in Int,
         NEW u \in Nat \ {0}, NEW v \in Nat \ {0}, NEW w \in Nat \ {0},
         a * v <= b * u, b * w <= c * v
  PROVE  a * w <= c * u
<1>1. (a * v) * w <= (b * u) * w
  <2>1. a * v \in Int /\ b * u \in Int
    OBVIOUS
  <2> QED  BY <2>1, TimesGrows
<1>2. (b * w) * u <= (c * v) * u
  <2>1. b * w \in Int /\ c * v \in Int
    OBVIOUS
  <2> QED  BY <2>1, TimesGrows
<1>3. (b * u) * w = (b * w) * u /\ (a * v) * w = (a * w) * v /\ (c * v) * u = (c * u) * v
  OBVIOUS
<1>4. (a * w) * v <= (c * u) * v
  <2>1. /\ (a * w) * v \in Int /\ (c * u) * v \in Int /\ (b * w) * u \in Int
    OBVIOUS
  <2> QED  BY <1>1, <1>2, <1>3, <2>1
<1>5. a * w \in Int /\ c * u \in Int
  OBVIOUS
<1> QED  BY <1>4, <1>5, TimesCancels

\* By induction over how many there are.
LEMMA LeastFraction ==
  ASSUME NEW l \in Nat, NEW n \in Nat,
         NEW c \in [l .. l + n -> Int], NEW w \in [l .. l + n -> Nat \ {0}]
  PROVE  \E i \in l .. l + n : LeastOf(c, w, l .. l + n, i)
<1> DEFINE G == {k \in 0 .. n : \E i \in l .. l + k : LeastOf(c, w, l .. l + k, i)}
<1>1. 0 \in G
  <2>1. l \in l .. l + 0 /\ \A j \in l .. l + 0 : j = l
    OBVIOUS
  <2>2. c[l] * w[l] <= c[l] * w[l]
    <3>1. c[l] \in Int /\ w[l] \in Int
      OBVIOUS
    <3>2. c[l] * w[l] \in Int
      BY <3>1
    <3> QED  BY <3>2
  <2> QED  BY <2>1, <2>2 DEF LeastOf
<1>2. ASSUME NEW k \in 1 .. n, k - 1 \in G  PROVE k \in G
  <2>1. PICK i \in l .. l + (k - 1) : LeastOf(c, w, l .. l + (k - 1), i)
    BY <1>2
  <2> DEFINE m == l + k
  <2>2. /\ i \in l .. m /\ m \in l .. m /\ \A j \in l .. m : j = m \/ j \in l .. l + (k - 1)
        /\ \A j \in l .. m : j \in l .. l + n
    OBVIOUS
  <2> HIDE DEF m
  <2>3. \A j \in l .. m : c[j] \in Int /\ w[j] \in Nat \ {0}
    BY <2>2
  <2>4. CASE c[i] * w[m] <= c[m] * w[i]
    <3>1. LeastOf(c, w, l .. m, i)
      BY <2>1, <2>2, <2>4 DEF LeastOf
    <3> QED  BY <2>2, <3>1 DEF m
  <2>5. CASE ~ (c[i] * w[m] <= c[m] * w[i])
    <3>0. c[i] \in Int /\ c[m] \in Int /\ w[i] \in Nat \ {0} /\ w[m] \in Nat \ {0}
      BY <2>2, <2>3
    <3>1. c[m] * w[i] <= c[i] * w[m]
      <4>1. c[m] * w[i] \in Int /\ c[i] * w[m] \in Int
        BY <3>0
      <4> QED  BY <2>5, <4>1
    <3>2. ASSUME NEW j \in l .. m  PROVE c[m] * w[j] <= c[j] * w[m]
      <4>1. CASE j = m
        <5>1. c[m] * w[m] \in Int
          BY <3>0
        <5> QED  BY <4>1, <5>1
      <4>2. CASE j # m
        <5>1. c[i] * w[j] <= c[j] * w[i]
          BY <2>1, <2>2, <4>2 DEF LeastOf
        <5> QED  BY <2>3, <3>0, <3>1, <5>1, FractionsOrdered
      <4> QED  BY <4>1, <4>2
    <3>3. LeastOf(c, w, l .. m, m)
      BY <3>2 DEF LeastOf
    <3> QED  BY <2>2, <3>3 DEF m
  <2> QED  BY <2>4, <2>5
<1>3. n \in G
  <2> HIDE DEF G
  <2> QED  BY <1>1, <1>2, TraceInduction
<1> QED  BY <1>3

(* Sums of numbers one at a time.                                          *)
LEMMA PlusRuns ==
  ASSUME NEW xs \in Seq(Int)
  PROVE  \E h \in [0 .. Len(xs) -> Int] :
           /\ h[0] = 0 /\ h[Len(xs)] = Plus(xs)
           /\ \A i \in 1 .. Len(xs) : h[i] = h[i - 1] + xs[i]
<1> DEFINE N == Len(xs)
           D == 1 .. N
           f == [p \in Int \X Int |-> p[1] + p[2]]
           Iterate(g, s) == IF s = {} THEN 0 ELSE g[s \ {Max(s)}] + xs[Max(s)]
<1>0. N \in Nat /\ DOMAIN xs = D
  OBVIOUS
<1>1. PICK g : Solves(g, Int, Int, f, 0, xs)
  <2>1. f \in [Int \X Int -> Int] /\ 0 \in Int
    OBVIOUS
  <2> HIDE DEF f
  <2> QED  BY <2>1, FoldSolved
<1>2. \A s \in SUBSET D : g[s] = Iterate(g, s)
  <2> SUFFICES ASSUME NEW s \in SUBSET D, s # {}  PROVE g[s] = Iterate(g, s)
    BY <1>1 DEF Solves
  <2>1. g[s \ {Max(s)}] \in Int /\ xs[Max(s)] \in Int /\ g[s] = f[<<g[s \ {Max(s)}], xs[Max(s)]>>]
    BY <1>1 DEF Solves
  <2> HIDE DEF D
  <2> QED  BY <2>1
<1>3. g = [s \in SUBSET D |-> Iterate(g, s)]
  <2>1. g = [s \in SUBSET D |-> g[s]]
    BY <1>1 DEF Solves
  <2> HIDE DEF D, Iterate
  <2> QED  BY <1>2, <2>1
<1> DEFINE iter == CHOOSE x : x = [s \in SUBSET D |-> Iterate(x, s)]
<1>4. iter = [s \in SUBSET D |-> Iterate(iter, s)]
  <2> HIDE DEF D, Iterate
  <2> QED  BY <1>3
<1>5. Plus(xs) = iter[D]
  <2>1. Plus(xs) = (CHOOSE x : x = [s \in SUBSET DOMAIN xs |-> Iterate(x, s)])[DOMAIN xs]
    BY DEF Plus, FoldLeft, MapThenFoldSet
  <2> HIDE DEF D, Iterate
  <2> QED  BY <1>0, <2>1
<1> HIDE DEF iter
<1>6. iter[1 .. 0] = 0 /\ \A i \in D : iter[1 .. i] = iter[1 .. i - 1] + xs[i]
  <2>1. \A s \in SUBSET D : iter[s] = Iterate(iter, s)
    BY <1>4
  <2>2. 1 .. 0 = {} /\ {} \in SUBSET D
    OBVIOUS
  <2>3. ASSUME NEW i \in D  PROVE iter[1 .. i] = iter[1 .. i - 1] + xs[i]
    <3>1. 1 .. i \in SUBSET D /\ 1 .. i # {} /\ Max(1 .. i) = i /\ (1 .. i) \ {i} = 1 .. i - 1
      <4> HIDE DEF N
      <4> QED  BY <1>0, FirstElements
    <3> HIDE DEF D
    <3> QED  BY <2>1, <3>1
  <2> QED  BY <2>1, <2>2, <2>3
<1> DEFINE h == [i \in 0 .. N |-> iter[1 .. i]]
           G == {i \in 0 .. N : iter[1 .. i] \in Int}
<1>7. \A k \in 0 .. N : k \in G
  <2>1. 0 \in G
    BY <1>0, <1>6
  <2>2. ASSUME NEW i \in 1 .. N, i - 1 \in G  PROVE i \in G
    <3>1. iter[1 .. i - 1] \in Int /\ xs[i] \in Int /\ i \in 0 .. N
      BY <2>2, <1>0
    <3>2. iter[1 .. i] = iter[1 .. i - 1] + xs[i]
      BY <1>6
    <3> HIDE DEF N
    <3> QED  BY <3>1, <3>2
  <2> HIDE DEF G
  <2>3. \A k \in 0 .. N : \A i \in 1 .. k : i \in 1 .. N
    BY <1>0
  <2> HIDE DEF N
  <2> QED  BY <1>0, <2>1, <2>2, <2>3, TraceInduction
<1>8. h \in [0 .. N -> Int] /\ h[0] = 0 /\ h[N] = Plus(xs)
  <2>1. \A i \in 0 .. N : iter[1 .. i] \in Int
    BY <1>7
  <2> HIDE DEF N
  <2> QED  BY <1>0, <1>5, <1>6, <2>1
<1>9. ASSUME NEW i \in 1 .. N  PROVE h[i] = h[i - 1] + xs[i]
  <2>1. i \in 0 .. N /\ i - 1 \in 0 .. N
    BY <1>0
  <2> HIDE DEF N
  <2> QED  BY <1>6, <2>1
<1> HIDE DEF h
<1> QED  BY <1>8, <1>9

\* A sum of numbers between two bounds is between their multiples.
LEMMA PlusBounds ==
  ASSUME NEW xs \in Seq(Int), NEW lo \in Int, NEW hi \in Int,
         \A k \in 1 .. Len(xs) : lo <= xs[k] /\ xs[k] <= hi
  PROVE  /\ Plus(xs) \in Int
         /\ Len(xs) * lo <= Plus(xs) /\ Plus(xs) <= Len(xs) * hi
<1> DEFINE N == Len(xs)
<1>0. N \in Nat /\ \A k \in 1 .. N : xs[k] \in Int
  OBVIOUS
<1>1. PICK h \in [0 .. N -> Int] : h[0] = 0 /\ h[N] = Plus(xs) /\ \A i \in 1 .. N : h[i] = h[i - 1] + xs[i]
  BY PlusRuns
<1> DEFINE G == {i \in 0 .. N : i * lo <= h[i] /\ h[i] <= i * hi}
<1>2. 0 \in G
  BY <1>0, <1>1
<1>3. ASSUME NEW i \in 1 .. N, i - 1 \in G  PROVE i \in G
  <2>1. i \in 0 .. N /\ i - 1 \in 0 .. N /\ i \in Int
    BY <1>0
  <2> DEFINE A == (i - 1) * lo
             B == (i - 1) * hi
  <2>2. i * lo = A + lo /\ i * hi = B + hi /\ A \in Int /\ B \in Int
    BY <2>1
  <2>3. A <= h[i - 1] /\ h[i - 1] <= B /\ h[i - 1] \in Int /\ h[i] = h[i - 1] + xs[i]
    BY <1>1, <1>3, <2>1
  <2>4. lo <= xs[i] /\ xs[i] <= hi /\ xs[i] \in Int
    BY <1>0
  <2> HIDE DEF A, B
  <2>5. A + lo <= h[i] /\ h[i] <= B + hi
    BY <2>2, <2>3, <2>4
  <2> QED  BY <2>1, <2>2, <2>5
<1>4. N \in G
  <2> HIDE DEF G, N
  <2> QED  BY <1>0, <1>2, <1>3, TraceInduction
<1>5. N \in 0 .. N
  BY <1>0
<1> HIDE DEF N
<1>6. Plus(xs) \in Int
  BY <1>1, <1>5
<1>7. N * lo <= h[N] /\ h[N] <= N * hi
  BY <1>4
<1> QED  BY <1>1, <1>6, <1>7 DEF N

(* A sequence of two values, the one and then the other.                   *)
TwoValued(xs, q, x, y) == \A k \in 1 .. Len(xs) : xs[k] = IF k <= q THEN x ELSE y

\* Its sum.
LEMMA PlusOfTwo ==
  ASSUME NEW xs \in Seq(Int), NEW q \in 0 .. Len(xs), NEW x \in Int, NEW y \in Int, TwoValued(xs, q, x, y)
  PROVE  Plus(xs) = q * x + (Len(xs) - q) * y
<1> DEFINE N == Len(xs)
           Sum(i) == IF i <= q THEN i * x ELSE q * x + (i - q) * y
<1>0. N \in Nat /\ q \in 0 .. N /\ q \in Int
  OBVIOUS
<1>1. PICK h \in [0 .. N -> Int] : h[0] = 0 /\ h[N] = Plus(xs) /\ \A i \in 1 .. N : h[i] = h[i - 1] + xs[i]
  BY PlusRuns
<1>t. \A k \in 1 .. N : xs[k] = IF k <= q THEN x ELSE y
  BY DEF TwoValued
<1> HIDE DEF N
<1> DEFINE G == {i \in 0 .. N : h[i] = Sum(i)}
<1>2. 0 \in G
  BY <1>0, <1>1
<1>3. ASSUME NEW i \in 1 .. N, i - 1 \in G  PROVE i \in G
  <2>1. i \in 0 .. N /\ i - 1 \in 0 .. N /\ i \in Int
    BY <1>0
  <2>2. h[i - 1] = Sum(i - 1) /\ h[i] = h[i - 1] + xs[i]
    BY <1>1, <1>3, <2>1
  <2>3. CASE i <= q
    <3>1. xs[i] = x /\ i - 1 <= q
      BY <1>0, <1>t, <2>1, <2>3
    <3>2. h[i] = (i - 1) * x + x
      BY <2>2, <3>1
    <3>3. (i - 1) * x + x = i * x
      BY <2>1
    <3> QED  BY <2>1, <2>3, <3>2, <3>3
  <2>4. CASE ~ (i <= q) /\ i - 1 <= q
    <3>1. i - 1 = q /\ xs[i] = y
      BY <1>0, <1>t, <2>1, <2>4
    <3>2. h[i] = q * x + y
      BY <2>2, <3>1, <1>0
    <3>3. i - q = 1 /\ (i - q) * y = y
      BY <1>0, <2>1, <3>1
    <3> QED  BY <2>1, <2>4, <3>2, <3>3
  <2>5. CASE ~ (i - 1 <= q)
    <3>1. ~ (i <= q)
      BY <1>0, <2>1, <2>5
    <3>2. xs[i] = y
      BY <1>t, <3>1
    <3>3. h[i] = (q * x + ((i - 1) - q) * y) + y
      BY <2>2, <2>5, <3>2
    <3>4. ((i - 1) - q) * y + y = (i - q) * y
      BY <1>0, <2>1
    <3>5. (q * x + ((i - 1) - q) * y) + y = q * x + (i - q) * y
      <4>1. q * x \in Int /\ ((i - 1) - q) * y \in Int
        BY <1>0, <2>1
      <4> QED  BY <3>4, <4>1
    <3> QED  BY <2>1, <3>1, <3>3, <3>5
  <2> QED  BY <2>3, <2>4, <2>5, <1>0, <2>1
<1>4. N \in G
  <2> HIDE DEF G
  <2> QED  BY <1>0, <1>2, <1>3, TraceInduction
<1>5. Plus(xs) = Sum(N)
  <2> HIDE DEF Sum
  <2> QED  BY <1>1, <1>4
<1>6. Sum(N) = q * x + (N - q) * y
  <2>1. CASE N <= q
    <3>1. N = q /\ (N - q) * y = 0
      BY <1>0, <2>1
    <3>2. q * x \in Int
      BY <1>0
    <3> QED  BY <1>0, <3>1, <3>2
  <2>2. CASE ~ (N <= q)
    BY <2>2
  <2> QED  BY <2>1, <2>2
<1> QED  BY <1>5, <1>6 DEF N

(* How far such a sequence spreads.                                        *)
LEMMA SpreadOfTwo ==
  ASSUME NEW xs \in Seq(Int), NEW q \in 0 .. Len(xs), NEW x \in Int, NEW y \in Int, TwoValued(xs, q, x, y)
  PROVE  Spread(xs) = (q * (Len(xs) - q)) * Sq(y - x)
<1> DEFINE n == Len(xs)
           sq == [i \in DOMAIN xs |-> Sq(xs[i])]
           r == n - q
<1>1. n \in Nat /\ DOMAIN xs = 1 .. n /\ q \in Nat /\ r \in Nat /\ n = q + r
  OBVIOUS
<1>2. Sq(x) \in Int /\ Sq(y) \in Int /\ \A i \in DOMAIN xs : Sq(xs[i]) \in Int
  BY DEF Sq
<1>3. sq \in Seq(Int) /\ Len(sq) = n
  <2> HIDE DEF n
  <2> QED  BY <1>1, <1>2
<1>4. TwoValued(sq, q, Sq(x), Sq(y))
  <2>1. \A k \in 1 .. n : sq[k] = Sq(xs[k])
    <3> HIDE DEF n
    <3> QED  BY <1>1
  <2> HIDE DEF sq, n
  <2>2. \A k \in 1 .. n : xs[k] = IF k <= q THEN x ELSE y
    BY DEF TwoValued, n
  <2> QED  BY <1>3, <2>1, <2>2 DEF TwoValued
<1> HIDE DEF sq
<1>5. Plus(sq) = q * Sq(x) + r * Sq(y)
  <2>1. q \in 0 .. Len(sq)
    BY <1>3
  <2> DEFINE a == Sq(x)
             b == Sq(y)
  <2>2. a \in Int /\ b \in Int /\ sq \in Seq(Int) /\ TwoValued(sq, q, a, b) /\ Len(sq) - q = r
    BY <1>2, <1>3, <1>4
  <2> HIDE DEF a, b, r
  <2>3. Plus(sq) = q * a + (Len(sq) - q) * b
    BY <2>1, <2>2, PlusOfTwo
  <2> QED  BY <2>2, <2>3 DEF a, b
<1>6. Plus(xs) = q * x + r * y
  BY PlusOfTwo
<1>7. Spread(xs) = n * Plus(sq) - Sq(Plus(xs))
  BY DEF Spread, sq
<1> HIDE DEF n, r
<1>8. (q + r) * (q * (x * x) + r * (y * y)) - (q * x + r * y) * (q * x + r * y) = (q * r) * ((y - x) * (y - x))
  BY <1>1
<1>9. Spread(xs) = (q * r) * Sq(y - x)
  BY <1>1, <1>5, <1>6, <1>7, <1>8 DEF Sq
<1> QED  BY <1>9 DEF n, r

Cost(v, i) == Spread(SubSeq(v, 1, i)) * (Len(v) - i) + Spread(SubSeq(v, i + 1, Len(v))) * i
Cheaper(v, i, j) == Cost(v, i) * j * (Len(v) - j) <= Cost(v, j) * i * (Len(v) - i)
Best(v) == {i \in Splits(v) : \A j \in Splits(v) : Cheaper(v, i, j)}
Sorted(v) == \A i, j \in DOMAIN v : i <= j => v[i] <= v[j]

\* The best split is the first of the cheapest.
LEMMA BestSplitIs == ASSUME NEW v PROVE BestSplit(v) = Min(Best(v))
BY DEF BestSplit, Best, Cheaper, Cost

(* The two sides of a split.                                               *)
LEMMA SidesAre ==
  ASSUME NEW v \in Seq(Int), NEW i \in 1 .. Len(v) - 1
  PROVE  /\ SubSeq(v, 1, i) \in Seq(Int) /\ Len(SubSeq(v, 1, i)) = i
         /\ \A k \in 1 .. i : SubSeq(v, 1, i)[k] = v[k]
         /\ SubSeq(v, i + 1, Len(v)) \in Seq(Int) /\ Len(SubSeq(v, i + 1, Len(v))) = Len(v) - i
         /\ \A k \in 1 .. Len(v) - i : SubSeq(v, i + 1, Len(v))[k] = v[i + k]
<1>1. Len(v) \in Nat /\ i \in Nat
  OBVIOUS
<1>2. SubSeq(v, 1, i) \in Seq(Int) /\ Len(SubSeq(v, 1, i)) = i
  OBVIOUS
<1>3. \A k \in 1 .. i : SubSeq(v, 1, i)[k] = v[k]
  OBVIOUS
<1>4. SubSeq(v, i + 1, Len(v)) \in Seq(Int) /\ Len(SubSeq(v, i + 1, Len(v))) = Len(v) - i
  OBVIOUS
<1>5. \A k \in 1 .. Len(v) - i : SubSeq(v, i + 1, Len(v))[k] = v[i + k]
  OBVIOUS
<1> QED  BY <1>2, <1>3, <1>4, <1>5

\* A split has clips on both sides.
LEMMA SplitsAre ==
  ASSUME NEW v \in Seq(Int), NEW i \in Splits(v)
  PROVE  /\ i \in 1 .. Len(v) - 1 /\ i \in Nat \ {0} /\ Len(v) - i \in Nat \ {0}
         /\ i * (Len(v) - i) \in Nat \ {0}
<1>1. Len(v) \in Nat /\ i \in Nat \ {0} /\ Len(v) - i \in Nat \ {0} /\ i \in 1 .. Len(v) - 1
  BY DEF Splits
<1> QED  BY <1>1, TimesPositive

(* What a sequence of numbers sums to and spreads is a number.             *)
LEMMA PlusIsInt == ASSUME NEW xs \in Seq(Int) PROVE Plus(xs) \in Int
<1>1. PICK h \in [0 .. Len(xs) -> Int] : h[Len(xs)] = Plus(xs)
  BY PlusRuns
<1>2. Len(xs) \in 0 .. Len(xs)
  OBVIOUS
<1> QED  BY <1>1, <1>2

\* And so is its spread.
LEMMA SpreadIsInt == ASSUME NEW xs \in Seq(Int) PROVE Spread(xs) \in Int
<1> DEFINE sq == [i \in DOMAIN xs |-> Sq(xs[i])]
<1>1. \A i \in DOMAIN xs : Sq(xs[i]) \in Int
  BY DEF Sq
<1>2. sq \in Seq(Int) /\ Len(xs) \in Nat
  BY <1>1
<1> HIDE DEF sq
<1>3. Plus(sq) \in Int /\ Plus(xs) \in Int
  BY <1>2, PlusIsInt
<1>4. Sq(Plus(xs)) \in Int /\ Len(xs) * Plus(sq) \in Int
  BY <1>2, <1>3 DEF Sq
<1>5. Spread(xs) = Len(xs) * Plus(sq) - Sq(Plus(xs))
  BY DEF Spread, sq
<1> QED  BY <1>4, <1>5

\* And what a split costs.
LEMMA CostIsInt ==
  ASSUME NEW v \in Seq(Int), NEW i \in Splits(v)
  PROVE  Cost(v, i) \in Int
<1> DEFINE a == Spread(SubSeq(v, 1, i))
           b == Spread(SubSeq(v, i + 1, Len(v)))
<1>1. a \in Int /\ b \in Int
  BY SplitsAre, SidesAre, SpreadIsInt
<1> HIDE DEF a, b
<1>2. i \in Int /\ Len(v) - i \in Int
  BY SplitsAre
<1>3. a * (Len(v) - i) + b * i \in Int
  BY <1>1, <1>2
<1> QED  BY <1>3 DEF Cost, a, b

(* Enough pitches are split somewhere.                                     *)
LEMMA SplitExists ==
  ASSUME NEW v \in Seq(Int), Len(v) >= MinClips
  PROVE  BestSplit(v) \in Splits(v)
<1> DEFINE n == Len(v) - 6
           D == 3 .. 3 + n
           c == [i \in D |-> Cost(v, i)]
           w == [i \in D |-> i * (Len(v) - i)]
<1>1. Len(v) \in Nat /\ n \in Nat /\ D = Splits(v)
  BY ClipsAssumption DEF ClipsAssumption, Splits
<1>2. \A i \in D : Cost(v, i) \in Int /\ i * (Len(v) - i) \in Nat \ {0}
  BY <1>1, CostIsInt, SplitsAre
<1>3. c \in [D -> Int] /\ w \in [D -> Nat \ {0}] /\ \A i \in D : c[i] = Cost(v, i) /\ w[i] = i * (Len(v) - i)
  <2> HIDE DEF D
  <2> QED  BY <1>2
<1> HIDE DEF c, w, n
<1>4. PICK i \in D : LeastOf(c, w, D, i)
  BY <1>1, <1>3, LeastFraction
<1>5. i \in Best(v)
  <2>1. ASSUME NEW j \in D  PROVE Cheaper(v, i, j)
    <3>1. c[i] * w[j] <= c[j] * w[i]
      BY <1>4 DEF LeastOf
    <3>2. c[i] = Cost(v, i) /\ c[j] = Cost(v, j) /\ w[i] = i * (Len(v) - i) /\ w[j] = j * (Len(v) - j)
      BY <1>3
    <3>3. /\ c[i] \in Int /\ c[j] \in Int /\ i \in Int /\ j \in Int
          /\ Len(v) - i \in Int /\ Len(v) - j \in Int
      BY <1>1, <1>3
    <3>4. \A a, b, d \in Int : a * (b * d) = a * b * d
      OBVIOUS
    <3>5. c[i] * w[j] = Cost(v, i) * j * (Len(v) - j) /\ c[j] * w[i] = Cost(v, j) * i * (Len(v) - i)
      BY <3>2, <3>3, <3>4
    <3> QED  BY <3>1, <3>5 DEF Cheaper
  <2> HIDE DEF D
  <2> QED  BY <1>1, <2>1 DEF Best
<1>6. Best(v) \in SUBSET Nat
  BY DEF Best, Splits
<1>7. Min(Best(v)) \in Best(v)
  <2>1. \E m \in Best(v) : \A x \in Best(v) : m <= x
    BY <1>5, <1>6, LeastNumber
  <2> QED  BY <2>1 DEF Min
<1> QED  BY <1>7, BestSplitIs DEF Best

-----------------------------------------------------------------------------
(* Pitches close together are not split as two speakers.                   *)
LEMMA CloseNotFar ==
  ASSUME NEW v \in Seq(Int), Sorted(v), NEW i \in Splits(v), v[Len(v)] - v[1] < 6
  PROVE  Details(v, i).gap \in Int /\ Details(v, i).gap < 600
<1> DEFINE N == Len(v)
           n == N - i
           los == SubSeq(v, 1, i)
           his == SubSeq(v, i + 1, N)
           lo == v[1]
           hi == v[N]
           a == Plus(his)
           b == Plus(los)
           d == i * n
<1>1. N \in Nat /\ i \in Nat \ {0} /\ n \in Nat \ {0} /\ i \in 1 .. N - 1 /\ d \in Nat \ {0}
  BY SplitsAre
<1>2. \A k \in 1 .. N : v[k] \in Int /\ lo <= v[k] /\ v[k] <= hi
  <2>1. DOMAIN v = 1 .. N /\ 1 \in 1 .. N /\ N \in 1 .. N
    BY <1>1
  <2> QED  BY <2>1 DEF Sorted
<1>3. lo \in Int /\ hi \in Int /\ hi - lo <= 5
  <2>1. 1 \in 1 .. N /\ N \in 1 .. N
    BY <1>1
  <2>2. lo \in Int /\ hi \in Int
    BY <1>2, <2>1
  <2> QED  BY <2>2
<1>4. a \in Int /\ a <= n * hi
  <2>1. his \in Seq(Int) /\ Len(his) = n /\ \A k \in 1 .. n : his[k] = v[i + k]
    BY <1>1, SidesAre
  <2>2. \A k \in 1 .. n : i + k \in 1 .. N
    BY <1>1
  <2> HIDE DEF his, n, N, lo, hi
  <2>3. \A k \in 1 .. Len(his) : lo <= his[k] /\ his[k] <= hi
    BY <1>2, <2>1, <2>2
  <2> QED  BY <1>3, <2>1, <2>3, PlusBounds
<1>5. b \in Int /\ i * lo <= b
  <2>1. los \in Seq(Int) /\ Len(los) = i /\ \A k \in 1 .. i : los[k] = v[k]
    BY <1>1, SidesAre
  <2>2. \A k \in 1 .. i : k \in 1 .. N
    BY <1>1
  <2> HIDE DEF los, n, N, lo, hi
  <2>3. \A k \in 1 .. Len(los) : lo <= los[k] /\ los[k] <= hi
    BY <1>2, <2>1, <2>2
  <2> QED  BY <1>3, <2>1, <2>3, PlusBounds
<1>6. Details(v, i).gap = (100 * (a * i - b * n)) \div d
  BY DEF Details
<1> HIDE DEF N, n, los, his, lo, hi, a, b
<1>7. 100 * (a * i - b * n) <= 500 * d
  <2>1. a * i <= (n * hi) * i
    <3>1. n * hi \in Int
      BY <1>1, <1>3
    <3> QED  BY <1>1, <1>4, <3>1, TimesGrows
  <2>2. (i * lo) * n <= b * n
    <3>1. i * lo \in Int
      BY <1>1, <1>3
    <3> QED  BY <1>1, <1>5, <3>1, TimesGrows
  <2>3. (hi - lo) * d <= 5 * d
    <3>1. hi - lo \in Int /\ d \in Nat
      BY <1>1, <1>3
    <3> HIDE DEF d
    <3> QED  BY <1>3, <3>1, TimesGrows
  <2>4. (n * hi) * i - (i * lo) * n = (hi - lo) * d
    BY <1>1, <1>3
  <2> DEFINE A == a * i
             B == b * n
             C == (n * hi) * i
             E == (i * lo) * n
             F == (hi - lo) * d
  <2>5. A \in Int /\ B \in Int /\ C \in Int /\ E \in Int /\ F \in Int /\ d \in Int
    BY <1>1, <1>3, <1>4, <1>5
  <2>6. A <= C /\ E <= B /\ F <= 5 * d /\ C - E = F
    BY <2>1, <2>2, <2>3, <2>4
  <2> HIDE DEF A, B, C, E, F, d
  <2>7. 100 * (A - B) <= 500 * d
    BY <2>5, <2>6
  <2> QED  BY <2>7 DEF A, B
<1> DEFINE u == 100 * (a * i - b * n)
<1>8. u \in Int
  BY <1>1, <1>4, <1>5
<1> HIDE DEF u, d
<1>9. u \div d <= 500 /\ u \div d \in Int
  BY <1>1, <1>7, <1>8, QuotientAtMost, QuotientIs DEF u
<1> QED  BY <1>6, <1>9 DEF u

(* What the split is an input of.                                          *)
LEMMA AcceptedIs == ASSUME NEW s PROVE Accepted(s).split = s
BY DEF Accepted

(* Two values in order: first the one, then the other.                     *)
LEMMA TwoInOrder ==
  ASSUME NEW v \in Seq(Int), Sorted(v), Len(v) >= 1, v[1] < v[Len(v)],
         Cardinality({v[i] : i \in DOMAIN v}) = 2
  PROVE  \E p \in 1 .. Len(v) - 1 : TwoValued(v, p, v[1], v[Len(v)])
<1> DEFINE N == Len(v)
           x == v[1]
           y == v[N]
           R == {v[i] : i \in DOMAIN v}
           H == {k \in 1 .. N : v[k] = y}
<1>1. N \in Nat /\ DOMAIN v = 1 .. N /\ 1 \in 1 .. N /\ N \in 1 .. N
  OBVIOUS
<1>2. x \in Int /\ y \in Int /\ \A k \in 1 .. N : v[k] \in Int /\ x <= v[k] /\ v[k] <= y
  <2>1. \A k \in 1 .. N : v[k] \in Int
    BY <1>1
  <2>2. \A k \in 1 .. N : x <= v[k] /\ v[k] <= y
    BY <1>1 DEF Sorted
  <2> HIDE DEF N
  <2> QED  BY <1>1, <2>1, <2>2
<1>3. x < y /\ Cardinality(R) = 2
  OBVIOUS
<1>4. R \subseteq x .. y /\ x \in R /\ y \in R
  <2>1. \A i \in DOMAIN v : v[i] \in x .. y
    <3> HIDE DEF N, x, y
    <3> QED  BY <1>1, <1>2
  <2> HIDE DEF N
  <2> QED  BY <1>1, <2>1
<1> HIDE DEF x, y, R, N
<1>5. R = {x, y}
  <2>1. IsFiniteSet(R)
    BY <1>2, <1>4, FS_Interval, FS_Subset
  <2>2. Cardinality({x} \cup {y}) = 2
    <3>1. IsFiniteSet({x}) /\ Cardinality({x}) = 1
      BY FS_Singleton
    <3>2. y \notin {x}
      BY <1>2, <1>3
    <3>3. Cardinality({x} \cup {y}) = IF y \in {x} THEN Cardinality({x}) ELSE Cardinality({x}) + 1
      BY <3>1, FS_AddElement
    <3>4. Cardinality({x} \cup {y}) = Cardinality({x}) + 1
      BY <3>2, <3>3
    <3> DEFINE one == Cardinality({x})
               two == Cardinality({x} \cup {y})
    <3>5. one = 1 /\ two = one + 1
      BY <3>1, <3>4
    <3> HIDE DEF one, two
    <3>6. two = 2
      BY <3>5
    <3> QED  BY <3>6 DEF two
  <2>3. {x} \cup {y} = {x, y} /\ {x, y} \in SUBSET R
    BY <1>4
  <2>4. Cardinality({x, y}) = 2
    BY <2>2, <2>3
  <2> QED  BY <1>3, <2>1, <2>3, <2>4, FS_Subset
<1>6. \A k \in 1 .. N : v[k] = x \/ v[k] = y
  <2>1. \A k \in 1 .. N : v[k] \in R
    BY <1>1 DEF R
  <2> QED  BY <1>5, <2>1
<1>7. PICK m \in H : \A k \in H : m <= k
  <2>1. H \in SUBSET Nat /\ N \in H
    BY <1>1 DEF y
  <2> HIDE DEF H
  <2> QED  BY <2>1, LeastNumber
<1>8. m \in 1 .. N /\ v[m] = y /\ m # 1
  <2>1. m \in 1 .. N /\ v[m] = y
    BY <1>7
  <2>2. v[1] = x
    BY DEF x
  <2> QED  BY <1>2, <1>3, <2>1, <2>2
<1>9. m - 1 \in 1 .. N - 1
  BY <1>1, <1>8
<1>10. ASSUME NEW k \in 1 .. N  PROVE v[k] = IF k <= m - 1 THEN x ELSE y
  <2>1. CASE k <= m - 1
    <3>1. ~ (m <= k)
      BY <1>8, <2>1
    <3>2. k \notin H
      BY <1>7, <3>1
    <3>3. v[k] # y
      BY <3>2
    <3> QED  BY <1>6, <2>1, <3>3
  <2>2. CASE ~ (k <= m - 1)
    <3>1. m <= k
      BY <1>8, <2>2
    <3>2. v[m] <= v[k]
      BY <1>1, <1>8, <3>1 DEF Sorted
    <3>3. v[k] # x
      BY <1>2, <1>3, <1>8, <3>2
    <3> QED  BY <1>6, <2>2, <3>3
  <2> QED  BY <2>1, <2>2
<1>11. TwoValued(v, m - 1, x, y)
  BY <1>10 DEF TwoValued, N
<1> QED  BY <1>9, <1>11 DEF x, y, N

(* How many there are of each.                                             *)
LEMMA HowMany ==
  ASSUME NEW v \in Seq(Int), NEW p \in 1 .. Len(v) - 1, NEW x \in Int, NEW y \in Int, x # y,
         TwoValued(v, p, x, y)
  PROVE  /\ Cardinality({i \in DOMAIN v : v[i] = x}) = p
         /\ Cardinality({i \in DOMAIN v : v[i] = y}) = Len(v) - p
<1> DEFINE N == Len(v)
<1>1. N \in Nat /\ DOMAIN v = 1 .. N /\ p \in Nat /\ p <= N - 1
  OBVIOUS
<1>2. \A k \in 1 .. N : v[k] = IF k <= p THEN x ELSE y
  BY DEF TwoValued
<1> HIDE DEF N
<1>3. {i \in DOMAIN v : v[i] = x} = 1 .. p
  <2>1. ASSUME NEW i \in 1 .. N  PROVE v[i] = x <=> i <= p
    BY <1>2
  <2>2. \A i \in 1 .. p : i \in 1 .. N /\ i <= p
    BY <1>1
  <2>3. \A i \in 1 .. N : i <= p => i \in 1 .. p
    BY <1>1
  <2> QED  BY <1>1, <2>1, <2>2, <2>3
<1>4. {i \in DOMAIN v : v[i] = y} = p + 1 .. N
  <2>1. ASSUME NEW i \in 1 .. N  PROVE v[i] = y <=> ~ (i <= p)
    BY <1>2
  <2>2. \A i \in p + 1 .. N : i \in 1 .. N /\ ~ (i <= p)
    BY <1>1
  <2>3. \A i \in 1 .. N : ~ (i <= p) => i \in p + 1 .. N
    BY <1>1
  <2> QED  BY <1>1, <2>1, <2>2, <2>3
<1>5. Cardinality(1 .. p) = p
  BY <1>1, FS_Interval
<1>6. Cardinality(p + 1 .. N) = N - p
  <2>1. Cardinality(p + 1 .. N) = IF p + 1 > N THEN 0 ELSE N - (p + 1) + 1
    BY <1>1, FS_Interval
  <2> QED  BY <1>1, <2>1
<1> QED  BY <1>3, <1>4, <1>5, <1>6 DEF N

(* What a split of them costs: nothing where the values change.            *)
LEMMA CostOfTwo ==
  ASSUME NEW v \in Seq(Int), NEW p \in 1 .. Len(v) - 1, NEW x \in Int, NEW y \in Int,
         TwoValued(v, p, x, y), NEW i \in Splits(v)
  PROVE  Cost(v, i) = IF i <= p THEN (((p - i) * (Len(v) - p)) * Sq(y - x)) * i
                      ELSE ((p * (i - p)) * Sq(y - x)) * (Len(v) - i)
<1> DEFINE N == Len(v)
           s == Sq(y - x)
           los == SubSeq(v, 1, i)
           his == SubSeq(v, i + 1, N)
<1>1. N \in Nat /\ i \in Nat \ {0} /\ i \in 1 .. N - 1 /\ p \in Nat \ {0} /\ p <= N - 1 /\ N - i \in Nat
  BY SplitsAre
<1>2. \A k \in 1 .. N : v[k] = IF k <= p THEN x ELSE y
  BY DEF TwoValued
<1>3. los \in Seq(Int) /\ Len(los) = i /\ \A k \in 1 .. i : los[k] = v[k]
  BY <1>1, SidesAre
<1>4. his \in Seq(Int) /\ Len(his) = N - i /\ \A k \in 1 .. N - i : his[k] = v[i + k]
  BY <1>1, SidesAre
<1>5. Cost(v, i) = Spread(los) * (N - i) + Spread(his) * i
  BY DEF Cost
<1>6. s \in Int
  BY DEF Sq
<1> HIDE DEF los, his, s, N
<1>7. CASE i <= p
  <2>1. TwoValued(los, i, x, y)
    <3>1. ASSUME NEW k \in 1 .. i  PROVE los[k] = IF k <= i THEN x ELSE y
      <4>1. k \in 1 .. N /\ k <= p /\ k <= i
        BY <1>1, <1>7
      <4> QED  BY <1>2, <1>3, <4>1
    <3> QED  BY <1>3, <3>1 DEF TwoValued
  <2>2. Spread(los) = (i * (i - i)) * s
    <3>1. i \in 0 .. Len(los)
      BY <1>1, <1>3
    <3> QED  BY <1>3, <2>1, <3>1, SpreadOfTwo DEF s
  <2>3. TwoValued(his, p - i, x, y)
    <3>1. ASSUME NEW k \in 1 .. N - i  PROVE his[k] = IF k <= p - i THEN x ELSE y
      <4>1. i + k \in 1 .. N /\ (i + k <= p <=> k <= p - i)
        BY <1>1
      <4> QED  BY <1>2, <1>4, <4>1
    <3> QED  BY <1>4, <3>1 DEF TwoValued
  <2>4. Spread(his) = ((p - i) * ((N - i) - (p - i))) * s
    <3>1. p - i \in 0 .. Len(his)
      BY <1>1, <1>4, <1>7
    <3> DEFINE q == p - i
    <3> HIDE DEF q
    <3>2. q \in 0 .. Len(his) /\ TwoValued(his, q, x, y)
      BY <2>3, <3>1 DEF q
    <3>3. Spread(his) = (q * (Len(his) - q)) * Sq(y - x)
      BY <1>4, <3>2, SpreadOfTwo
    <3> QED  BY <1>4, <3>3 DEF s, q
  <2>5. (N - i) - (p - i) = N - p /\ i - i = 0
    BY <1>1
  <2>6. Spread(los) * (N - i) = 0
    BY <1>1, <1>6, <2>2, <2>5
  <2>7. Spread(his) * i = (((p - i) * (N - p)) * s) * i
    BY <2>4, <2>5
  <2>8. (((p - i) * (N - p)) * s) * i \in Int
    BY <1>1, <1>6
  <2> QED  BY <1>5, <1>7, <2>6, <2>7, <2>8 DEF s, N
<1>8. CASE ~ (i <= p)
  <2>1. TwoValued(los, p, x, y)
    <3>1. ASSUME NEW k \in 1 .. i  PROVE los[k] = IF k <= p THEN x ELSE y
      <4>1. k \in 1 .. N
        BY <1>1
      <4> QED  BY <1>2, <1>3, <4>1
    <3> QED  BY <1>3, <3>1 DEF TwoValued
  <2>2. Spread(los) = (p * (i - p)) * s
    <3>1. p \in 0 .. Len(los)
      BY <1>1, <1>3, <1>8
    <3> QED  BY <1>3, <2>1, <3>1, SpreadOfTwo DEF s
  <2>3. TwoValued(his, 0, x, y)
    <3>1. ASSUME NEW k \in 1 .. N - i  PROVE his[k] = IF k <= 0 THEN x ELSE y
      <4>1. i + k \in 1 .. N /\ ~ (i + k <= p) /\ ~ (k <= 0)
        BY <1>1, <1>8
      <4> QED  BY <1>2, <1>4, <4>1
    <3> QED  BY <1>4, <3>1 DEF TwoValued
  <2>4. Spread(his) = (0 * ((N - i) - 0)) * s
    <3>1. 0 \in 0 .. Len(his)
      BY <1>1, <1>4
    <3> QED  BY <1>4, <2>3, <3>1, SpreadOfTwo DEF s
  <2>5. Spread(his) * i = 0
    BY <1>1, <1>6, <2>4
  <2>6. ((p * (i - p)) * s) * (N - i) \in Int
    BY <1>1, <1>6
  <2> QED  BY <1>5, <1>8, <2>2, <2>5, <2>6 DEF s, N
<1> QED  BY <1>7, <1>8

(* So that they are split there.                                           *)
LEMMA SplitBetween ==
  ASSUME NEW v \in Seq(Int), NEW p \in Splits(v), NEW x \in Int, NEW y \in Int, x # y,
         TwoValued(v, p, x, y)
  PROVE  BestSplit(v) = p
<1> DEFINE N == Len(v)
           s == Sq(y - x)
<1>1. /\ N \in Nat /\ p \in 1 .. N - 1
      /\ \A i \in Splits(v) : i \in Nat \ {0} /\ N - i \in Nat \ {0} /\ i * (N - i) \in Nat \ {0}
  BY SplitsAre
<1>2. s \in Nat \ {0}
  <2> DEFINE z == y - x
  <2>1. z \in Int /\ z # 0
    OBVIOUS
  <2> HIDE DEF z
  <2>2. z * z \in Nat \ {0}
    <3>1. CASE z > 0
      BY <2>1, <3>1
    <3>2. CASE z < 0
      <4>1. (0 - z) * (0 - z) = z * z /\ 0 - z \in Nat \ {0}
        BY <2>1, <3>2
      <4> QED  BY <4>1, TimesPositive
    <3> QED  BY <2>1, <3>1, <3>2
  <2> QED  BY <2>2 DEF Sq, z
<1> HIDE DEF N, s
<1>3. Cost(v, p) = 0
  <2>1. Cost(v, p) = (((p - p) * (N - p)) * s) * p
    BY <1>1, CostOfTwo DEF N, s
  <2> QED  BY <1>1, <1>2, <2>1
<1>4. ASSUME NEW i \in Splits(v), i # p  PROVE Cost(v, i) \in Nat \ {0}
  <2>0. i \in Nat \ {0} /\ N - i \in Nat \ {0} /\ p \in Nat \ {0} /\ N - p \in Nat \ {0}
    BY <1>1
  <2>1. CASE i <= p
    <3>1. Cost(v, i) = (((p - i) * (N - p)) * s) * i
      BY <1>1, <2>1, CostOfTwo DEF N, s
    <3>2. p - i \in Nat \ {0}
      BY <1>4, <2>0, <2>1
    <3> QED  BY <1>2, <2>0, <3>1, <3>2, TimesPositive
  <2>2. CASE ~ (i <= p)
    <3>1. Cost(v, i) = ((p * (i - p)) * s) * (N - i)
      BY <1>1, <2>2, CostOfTwo DEF N, s
    <3>2. i - p \in Nat \ {0}
      BY <2>0, <2>2
    <3> QED  BY <1>2, <2>0, <3>1, <3>2, TimesPositive
  <2> QED  BY <2>1, <2>2
<1>5. \A i \in Splits(v) : Cost(v, i) \in Nat
  BY <1>3, <1>4
<1>6. p \in Best(v)
  <2>1. ASSUME NEW j \in Splits(v)  PROVE Cheaper(v, p, j)
    <3>1. j \in Nat /\ N - j \in Nat /\ p \in Nat /\ N - p \in Nat /\ Cost(v, j) \in Nat
      BY <1>1, <1>5
    <3>2. Cost(v, p) * j * (N - j) = 0
      BY <1>3, <3>1
    <3>3. Cost(v, j) * p * (N - p) \in Nat
      BY <3>1
    <3> QED  BY <3>2, <3>3 DEF Cheaper, N
  <2> QED  BY <2>1 DEF Best
<1>7. ASSUME NEW i \in Best(v)  PROVE i = p
  <2> SUFFICES ASSUME i # p  PROVE FALSE
    OBVIOUS
  <2>1. i \in Splits(v) /\ Cheaper(v, i, p)
    BY DEF Best
  <2>2. i \in Nat /\ N - i \in Nat /\ p \in Nat \ {0} /\ N - p \in Nat \ {0} /\ Cost(v, i) \in Nat \ {0}
    BY <1>1, <1>4, <2>1
  <2>3. Cost(v, i) * p * (N - p) \in Nat \ {0}
    BY <2>2, TimesPositive
  <2>4. Cost(v, p) * i * (N - i) = 0
    BY <1>3, <2>2
  <2> QED  BY <2>1, <2>3, <2>4 DEF Cheaper, N
<1>8. Best(v) = {p}
  BY <1>6, <1>7
<1>9. Min({p}) = p
  <2>1. p \in Nat
    BY <1>1
  <2>2. \E m \in {p} : \A z \in {p} : m <= z
    BY <2>1
  <2> QED  BY <2>2 DEF Min
<1> QED  BY <1>8, <1>9, BestSplitIs

(* What the gate is told of a lower and a higher speaker.                  *)
Found(d, x, y) == d.gap = 100 * (y - x) /\ d.minor >= 15 /\ d.lo = 2 * x /\ d.hi = 2 * y

\* The median of equal values is that value.
LEMMA MediansOfOne ==
  ASSUME NEW xs \in Seq(Int), Len(xs) >= 1, NEW x \in Int, \A k \in 1 .. Len(xs) : xs[k] = x
  PROVE  TwoMedians(xs) = 2 * x
<1>1. (Len(xs) + 1) \div 2 \in 1 .. Len(xs) /\ Len(xs) \div 2 + 1 \in 1 .. Len(xs)
  <2>1. Len(xs) \in Nat \ {0}
    OBVIOUS
  <2> DEFINE n == Len(xs)
  <2> HIDE DEF n
  <2>2. n \in Nat \ {0} => (n + 1) \div 2 \in 1 .. n
    OBVIOUS
  <2>3. n \in Nat \ {0} /\ n # 1 => n \div 2 + 1 \in 1 .. n
    OBVIOUS
  <2>4. n = 1 => n \div 2 + 1 \in 1 .. n
    OBVIOUS
  <2> QED  BY <2>1, <2>2, <2>3, <2>4 DEF n
<1>2. xs[(Len(xs) + 1) \div 2] = x /\ xs[Len(xs) \div 2 + 1] = x
  BY <1>1
<1> QED  BY <1>2 DEF TwoMedians

\* A split where the values change tells the two speakers apart.
LEMMA TwoFound ==
  ASSUME NEW v \in Seq(Int), NEW p \in Splits(v), NEW x \in Int, NEW y \in Int, TwoValued(v, p, x, y),
         100 * p >= 15 * Len(v), 100 * (Len(v) - p) >= 15 * Len(v)
  PROVE  Found(Details(v, p), x, y)
<1> DEFINE N == Len(v)
           n == N - p
           los == SubSeq(v, 1, p)
           his == SubSeq(v, p + 1, N)
           d == p * n
           least == IF p < n THEN p ELSE n
<1>1. /\ N \in Nat \ {0} /\ p \in Nat \ {0} /\ n \in Nat \ {0} /\ d \in Nat \ {0} /\ p \in 1 .. N - 1
      /\ p + n = N
  <2>1. p \in 1 .. N - 1 /\ p \in Nat \ {0} /\ n \in Nat \ {0} /\ d \in Nat \ {0}
    BY SplitsAre
  <2>2. N \in Nat
    OBVIOUS
  <2> HIDE DEF N, d
  <2> QED  BY <2>1, <2>2
<1>2. \A k \in 1 .. N : v[k] = IF k <= p THEN x ELSE y
  BY DEF TwoValued
<1>3. los \in Seq(Int) /\ Len(los) = p /\ \A k \in 1 .. p : los[k] = v[k]
  BY <1>1, SidesAre
<1>4. his \in Seq(Int) /\ Len(his) = n /\ \A k \in 1 .. n : his[k] = v[p + k]
  BY <1>1, SidesAre
<1>5. /\ Details(v, p).gap = (100 * (Plus(his) * p - Plus(los) * n)) \div d
      /\ Details(v, p).minor = (100 * least) \div N
      /\ Details(v, p).lo = TwoMedians(los) /\ Details(v, p).hi = TwoMedians(his)
  BY DEF Details
<1>6. 100 * p >= 15 * N /\ 100 * n >= 15 * N
  OBVIOUS
<1> HIDE DEF N, n, los, his, d
<1>7. \A k \in 1 .. Len(los) : los[k] = x
  <2> SUFFICES ASSUME NEW k \in 1 .. p  PROVE los[k] = x
    BY <1>3
  <2>1. k \in 1 .. N /\ k <= p
    BY <1>1
  <2> QED  BY <1>2, <1>3, <2>1
<1>8. \A k \in 1 .. Len(his) : his[k] = y
  <2> SUFFICES ASSUME NEW k \in 1 .. n  PROVE his[k] = y
    BY <1>4
  <2>1. p + k \in 1 .. N /\ ~ (p + k <= p)
    BY <1>1
  <2> QED  BY <1>2, <1>4, <2>1
<1>9. Plus(los) = p * x
  <2>1. TwoValued(los, p, x, x) /\ p \in 0 .. Len(los)
    BY <1>1, <1>3, <1>7 DEF TwoValued
  <2>2. Plus(los) = p * x + (p - p) * x
    BY <1>3, <2>1, PlusOfTwo
  <2>3. (p - p) * x = 0 /\ p * x \in Int
    BY <1>1
  <2> QED  BY <2>2, <2>3
<1>10. Plus(his) = n * y
  <2>1. TwoValued(his, n, y, y) /\ n \in 0 .. Len(his)
    BY <1>1, <1>4, <1>8 DEF TwoValued
  <2>2. Plus(his) = n * y + (n - n) * y
    BY <1>4, <2>1, PlusOfTwo
  <2>3. (n - n) * y = 0 /\ n * y \in Int
    BY <1>1
  <2> QED  BY <2>2, <2>3
<1>11. Details(v, p).gap = 100 * (y - x)
  <2>1. 100 * ((n * y) * p - (p * x) * n) = (100 * (y - x)) * d
    <3>1. n \in Int /\ p \in Int
      BY <1>1
    <3> QED  BY <3>1 DEF d
  <2> DEFINE g == 100 * (y - x)
  <2>2. g \in Int
    OBVIOUS
  <2> HIDE DEF g
  <2>3. (g * d) \div d = g
    BY <1>1, <2>2, QuotientOfMultiple
  <2> QED  BY <1>5, <1>9, <1>10, <2>1, <2>3 DEF g
<1>12. Details(v, p).minor >= 15
  <2>1. 15 * N <= 100 * least /\ 100 * least \in Int
    BY <1>1, <1>6
  <2> DEFINE a == 100 * least
  <2> HIDE DEF least, a
  <2>0. a \in Int /\ 15 * N <= a
    BY <2>1 DEF a
  <2>2. 15 <= (100 * least) \div N /\ (100 * least) \div N \in Int
    <3>0. N \in Nat \ {0} /\ a \in Int /\ 15 \in Int /\ 15 * N <= a
      BY <1>1, <2>0
    <3>1. 15 <= a \div N
      BY <3>0, QuotientAtLeast
    <3>2. a \div N \in Int
      BY <1>1, <2>0
    <3> QED  BY <3>1, <3>2 DEF a
  <2> DEFINE z == (100 * least) \div N
  <2> HIDE DEF z
  <2>3. Details(v, p).minor = z /\ 15 <= z /\ z \in Int
    BY <1>5, <2>2 DEF z
  <2> QED  BY <2>3
<1>13. TwoMedians(los) = 2 * x
  <2>1. Len(los) >= 1
    BY <1>1, <1>3
  <2> QED  BY <1>3, <1>7, <2>1, MediansOfOne
<1>14. TwoMedians(his) = 2 * y
  <2>1. Len(his) >= 1
    BY <1>1, <1>4
  <2> QED  BY <1>4, <1>8, <2>1, MediansOfOne
<1> QED  BY <1>5, <1>11, <1>12, <1>13, <1>14 DEF Found

(* A lower and a higher speaker are rejected.                              *)
LEMMA TwoVoicesRejected ==
  ASSUME NEW v \in Seq(Int), Sorted(v), TwoVoices(v)
  PROVE  \E d : SplitDetails(v) = {d} /\ ~ (d.minor < 15) /\ d.gap >= 600 /\ Straddles(d)
<1> DEFINE N == Len(v)
           x == v[1]
           y == v[N]
<1>1. N \in Nat /\ MinClips \in Nat /\ 15 * MinClips > 200 /\ N >= MinClips
  BY ClipsAssumption DEF ClipsAssumption, TwoVoices
<1>2. N >= 14 /\ 1 \in 1 .. N /\ N \in 1 .. N /\ DOMAIN v = 1 .. N
  <2> HIDE DEF N
  <2>1. N >= 14 /\ 1 \in 1 .. N /\ N \in 1 .. N
    BY <1>1
  <2> QED  BY <2>1 DEF N
<1>3. x \in Int /\ y \in Int
  BY <1>2
<1>4. /\ Cardinality({v[i] : i \in DOMAIN v}) = 2 /\ x < 12 /\ y > 14 /\ y - x >= 6
      /\ \A z \in {x, y} : 100 * Cardinality({i \in DOMAIN v : v[i] = z}) >= 15 * N
  BY DEF TwoVoices
<1>5. PICK p \in 1 .. N - 1 : TwoValued(v, p, x, y)
  <2>1. N >= 1 /\ x < y
    BY <1>2, <1>3, <1>4
  <2> QED  BY <1>4, <2>1, TwoInOrder
<1>6. 100 * p >= 15 * N /\ 100 * (N - p) >= 15 * N
  <2>1. x # y
    BY <1>3, <1>4
  <2>2. /\ Cardinality({i \in DOMAIN v : v[i] = x}) = p
        /\ Cardinality({i \in DOMAIN v : v[i] = y}) = N - p
    <3>1. N = Len(v)
      OBVIOUS
    <3> HIDE DEF N, x, y
    <3>2. p \in 1 .. Len(v) - 1
      BY <3>1, Zenon
    <3>3. TwoValued(v, p, x, y)
      BY <1>5, Zenon
    <3>4. /\ Cardinality({i \in DOMAIN v : v[i] = x}) = p
          /\ Cardinality({i \in DOMAIN v : v[i] = y}) = Len(v) - p
      BY <1>3, <2>1, <3>2, <3>3, HowMany, Zenon
    <3> QED  BY <3>1, <3>4, Zenon
  <2> HIDE DEF N, x, y
  <2> QED  BY <1>4, <2>2
<1>7. p \in Splits(v)
  <2>1. p \in Int /\ p >= 3 /\ N - p >= 3
    <3> HIDE DEF N
    <3> QED  BY <1>1, <1>2, <1>5, <1>6
  <2>2. p \in 3 .. N - 3
    <3> HIDE DEF N
    <3> QED  BY <1>1, <2>1
  <2> QED  BY <2>2 DEF Splits
<1> DEFINE d == Details(v, p)
<1>8. SplitDetails(v) = {d}
  <2>1. ~ (Len(v) < MinClips)
    BY <1>1
  <2>2. BestSplit(v) = p
    <3>1. x # y
      BY <1>3, <1>4
    <3> HIDE DEF x, y, N
    <3> QED  BY <1>3, <1>5, <1>7, <3>1, SplitBetween
  <2> QED  BY <2>1, <2>2 DEF SplitDetails
<1>9. Found(d, x, y)
  <2> HIDE DEF x, y
  <2> QED  BY <1>3, <1>5, <1>6, <1>7, TwoFound
<1> HIDE DEF d, x, y
<1>10. d.gap = 100 * (y - x) /\ d.minor >= 15 /\ d.lo = 2 * x /\ d.hi = 2 * y
  BY <1>9 DEF Found
<1>11. d.gap >= 600 /\ d.lo < 2 * 12 /\ d.hi > 2 * 14
  BY <1>3, <1>4, <1>10
<1>12. ~ (d.minor < 15)
  <2>1. d.minor \in Int
    <3>1. d.minor = (100 * (IF p < Len(v) - p THEN p ELSE Len(v) - p)) \div Len(v)
      BY DEF d, Details
    <3>2. 100 * (IF p < Len(v) - p THEN p ELSE Len(v) - p) \in Int /\ Len(v) \in Nat \ {0}
      BY <1>1, <1>2, <1>5
    <3> QED  BY <3>1, <3>2, QuotientIs
  <2> QED  BY <1>10, <2>1
<1> QED  BY <1>8, <1>11, <1>12 DEF Straddles

(* The split serves its purpose.                                           *)
LEMMA EverySplitServes ==
  ASSUME NEW v \in Seq(Int), Sorted(v)
  PROVE  SplitServes(v, SplitDetails(v))
<1> DEFINE r == SplitDetails(v)
           m == Accepted(r)
<1>1. m.split = r
  BY AcceptedIs
<1>2. ASSUME TwoVoices(v)  PROVE Speakers(m) = "reject"
  <2>1. PICK d : r = {d} /\ ~ (d.minor < 15) /\ d.gap >= 600 /\ Straddles(d)
    BY <1>2, TwoVoicesRejected
  <2> HIDE DEF r, m
  <2> QED  BY <1>1, <2>1, SpeakersReject
<1>3. ASSUME v # <<>>, v[Len(v)] - v[1] < 6  PROVE Speakers(m) # "reject"
  <2>1. CASE Len(v) < MinClips
    <3>1. r = {}
      BY <2>1 DEF SplitDetails
    <3>2. Speakers(m) = "fine"
      <4> HIDE DEF r, m
      <4> QED  BY <1>1, <3>1, NoSplitNoReject
    <3> QED  BY <3>2
  <2>2. CASE ~ (Len(v) < MinClips)
    <3> DEFINE d == Details(v, BestSplit(v))
    <3>1. r = {d}
      BY <2>2 DEF SplitDetails
    <3>2. BestSplit(v) \in Splits(v)
      <4>1. Len(v) >= MinClips
        BY <2>2, ClipsAssumption DEF ClipsAssumption
      <4> QED  BY <4>1, SplitExists
    <3>3. d.gap < 600 /\ d.gap \in Int
      <4> DEFINE i == BestSplit(v)
      <4> HIDE DEF i
      <4>1. i \in Splits(v)
        BY <3>2 DEF i
      <4>2. Details(v, i).gap < 600 /\ Details(v, i).gap \in Int
        BY <1>3, <4>1, CloseNotFar
      <4> QED  BY <4>2 DEF i
    <3> HIDE DEF r, m, d
    <3>4. ~ (d.gap >= 600)
      BY <3>3
    <3> QED  BY <1>1, <3>1, <3>4, SpeakersReject
  <2> QED  BY <2>1, <2>2
<1> HIDE DEF r, m
<1> QED  BY <1>2, <1>3 DEF SplitServes, r, m

(* Sequences in order, one after the other.                                *)
Within(v, a, b) == v \in Seq(Int) /\ Sorted(v) /\ \A i \in DOMAIN v : a <= v[i] /\ v[i] <= b

\* What is joined is in order if the first is below the second.
LEMMA WithinJoined ==
  ASSUME NEW a \in Int, NEW b \in Int, NEW c \in Int, NEW d \in Int, a <= b, b <= c, c <= d,
         NEW v, NEW w, Within(v, a, b), Within(w, c, d)
  PROVE  Within(v \o w, a, d)
<1> DEFINE n == Len(v)
           k == Len(w)
           u == v \o w
<1>1. v \in Seq(Int) /\ w \in Seq(Int) /\ DOMAIN v = 1 .. n /\ DOMAIN w = 1 .. k /\ n \in Nat /\ k \in Nat
  BY DEF Within
<1>2. u \in Seq(Int) /\ DOMAIN u = 1 .. n + k
  BY <1>1
<1>3. /\ \A i \in 1 .. n : u[i] = v[i]
      /\ \A i \in n + 1 .. n + k : u[i] = w[i - n] /\ i - n \in 1 .. k
      /\ \A i \in 1 .. n + k : i \in 1 .. n \/ i \in n + 1 .. n + k
  BY <1>1
<1>4. /\ \A i \in 1 .. n : v[i] \in Int /\ a <= v[i] /\ v[i] <= b
      /\ \A i \in 1 .. k : w[i] \in Int /\ c <= w[i] /\ w[i] <= d
  <2>1. \A i \in 1 .. n : v[i] \in Int
    BY <1>1
  <2>2. \A i \in 1 .. k : w[i] \in Int
    BY <1>1
  <2>3. \A i \in 1 .. n : a <= v[i] /\ v[i] <= b
    BY <1>1 DEF Within
  <2>4. \A i \in 1 .. k : c <= w[i] /\ w[i] <= d
    BY <1>1 DEF Within
  <2> QED  BY <2>1, <2>2, <2>3, <2>4
<1>5. \A i, j \in 1 .. n : i <= j => v[i] <= v[j]
  BY <1>1 DEF Within, Sorted
<1>6. \A i, j \in 1 .. k : i <= j => w[i] <= w[j]
  BY <1>1 DEF Within, Sorted
<1> HIDE DEF n, k, u
<1>7. ASSUME NEW i \in 1 .. n + k  PROVE a <= u[i] /\ u[i] <= d
  BY <1>3, <1>4
<1>8. ASSUME NEW i \in 1 .. n + k, NEW j \in 1 .. n + k, i <= j  PROVE u[i] <= u[j]
  <2>1. CASE i \in 1 .. n /\ j \in 1 .. n
    BY <1>3, <1>5, <1>8, <2>1
  <2>2. CASE i \in 1 .. n /\ j \in n + 1 .. n + k
    <3>1. u[i] \in Int /\ u[j] \in Int /\ u[i] <= b /\ c <= u[j]
      BY <1>3, <1>4, <2>2
    <3> QED  BY <3>1
  <2>3. CASE i \in n + 1 .. n + k /\ j \in 1 .. n
    BY <1>1, <1>8, <2>3
  <2>4. CASE i \in n + 1 .. n + k /\ j \in n + 1 .. n + k
    <3>1. i - n \in 1 .. k /\ j - n \in 1 .. k /\ i - n <= j - n
      BY <1>1, <1>3, <1>8, <2>4
    <3>2. w[i - n] <= w[j - n]
      BY <1>6, <3>1
    <3> QED  BY <1>3, <2>4, <3>2
  <2> QED  BY <1>3, <2>1, <2>2, <2>3, <2>4
<1> QED  BY <1>2, <1>7, <1>8 DEF Within, Sorted, u

-----------------------------------------------------------------------------
(* Which clips a voice is trained on.                                      *)

Flaws == {"", Mismatch} \cup Unusable
ClipLines(T) == [text : T, flaw : Flaws, dur : Nat]
Selections(T) ==
  [rows : Seq(ClipLines(T)), seen : SUBSET T, total : Nat, cps : Nat, measured : Seq(ClipLines(T)),
   skipped : [Reasons -> Nat]]

(* The length of a sequence of clips is that of its first ones and one.    *)
LEMMA LengthsRun ==
  ASSUME NEW L, \A l \in L : l.dur \in Nat, NEW rows \in Seq(L)
  PROVE  \E h \in [0 .. Len(rows) -> Nat] :
           /\ h[0] = 0 /\ h[Len(rows)] = Lengths(rows)
           /\ \A i \in 1 .. Len(rows) : h[i] = h[i - 1] + rows[i].dur
<1> DEFINE N == Len(rows)
           D == 1 .. N
           f == [p \in Nat \X L |-> p[1] + p[2].dur]
           Iterate(g, s) == IF s = {} THEN 0 ELSE g[s \ {Max(s)}] + rows[Max(s)].dur
<1>0. N \in Nat /\ DOMAIN rows = D
  OBVIOUS
<1>1. PICK g : Solves(g, Nat, L, f, 0, rows)
  <2>1. f \in [Nat \X L -> Nat] /\ 0 \in Nat
    OBVIOUS
  <2> HIDE DEF f
  <2> QED  BY <2>1, FoldSolved
<1>2. \A s \in SUBSET D : g[s] = Iterate(g, s)
  <2> SUFFICES ASSUME NEW s \in SUBSET D, s # {}  PROVE g[s] = Iterate(g, s)
    BY <1>1 DEF Solves
  <2>1. g[s \ {Max(s)}] \in Nat /\ rows[Max(s)] \in L /\ g[s] = f[<<g[s \ {Max(s)}], rows[Max(s)]>>]
    BY <1>1 DEF Solves
  <2> HIDE DEF D
  <2> QED  BY <2>1
<1>3. g = [s \in SUBSET D |-> Iterate(g, s)]
  <2>1. g = [s \in SUBSET D |-> g[s]]
    BY <1>1 DEF Solves
  <2> HIDE DEF D, Iterate
  <2> QED  BY <1>2, <2>1
<1> DEFINE iter == CHOOSE x : x = [s \in SUBSET D |-> Iterate(x, s)]
<1>4. iter = [s \in SUBSET D |-> Iterate(iter, s)]
  <2> HIDE DEF D, Iterate
  <2> QED  BY <1>3
<1>5. Lengths(rows) = iter[D]
  <2>1. Lengths(rows) = (CHOOSE x : x = [s \in SUBSET DOMAIN rows |-> Iterate(x, s)])[DOMAIN rows]
    BY DEF Lengths, FoldLeft, MapThenFoldSet
  <2> HIDE DEF D, Iterate
  <2> QED  BY <1>0, <2>1
<1> HIDE DEF iter
<1>6. iter[1 .. 0] = 0 /\ \A i \in D : iter[1 .. i] = iter[1 .. i - 1] + rows[i].dur
  <2>1. \A s \in SUBSET D : iter[s] = Iterate(iter, s)
    BY <1>4
  <2>2. 1 .. 0 = {} /\ {} \in SUBSET D
    OBVIOUS
  <2>3. ASSUME NEW i \in D  PROVE iter[1 .. i] = iter[1 .. i - 1] + rows[i].dur
    <3>1. 1 .. i \in SUBSET D /\ 1 .. i # {} /\ Max(1 .. i) = i /\ (1 .. i) \ {i} = 1 .. i - 1
      <4> HIDE DEF N
      <4> QED  BY <1>0, FirstElements
    <3> HIDE DEF D
    <3> QED  BY <2>1, <3>1
  <2> QED  BY <2>1, <2>2, <2>3
<1> DEFINE h == [i \in 0 .. N |-> iter[1 .. i]]
           G == {i \in 0 .. N : iter[1 .. i] \in Nat}
<1>7. \A k \in 0 .. N : k \in G
  <2>1. 0 \in G
    BY <1>0, <1>6
  <2>2. ASSUME NEW i \in 1 .. N, i - 1 \in G  PROVE i \in G
    <3>1. iter[1 .. i - 1] \in Nat /\ rows[i].dur \in Nat /\ i \in 0 .. N
      BY <2>2, <1>0
    <3>2. iter[1 .. i] = iter[1 .. i - 1] + rows[i].dur
      BY <1>6
    <3> HIDE DEF N
    <3> QED  BY <3>1, <3>2
  <2> HIDE DEF G
  <2>3. \A k \in 0 .. N : \A i \in 1 .. k : i \in 1 .. N
    BY <1>0
  <2> HIDE DEF N
  <2> QED  BY <1>0, <2>1, <2>2, <2>3, TraceInduction
<1>8. h \in [0 .. N -> Nat] /\ h[0] = 0 /\ h[N] = Lengths(rows)
  <2>1. \A i \in 0 .. N : iter[1 .. i] \in Nat
    BY <1>7
  <2> HIDE DEF N
  <2> QED  BY <1>0, <1>5, <1>6, <2>1
<1>9. ASSUME NEW i \in 1 .. N  PROVE h[i] = h[i - 1] + rows[i].dur
  <2>1. i \in 0 .. N /\ i - 1 \in 0 .. N
    BY <1>0
  <2> HIDE DEF N
  <2> QED  BY <1>6, <2>1
<1> HIDE DEF h
<1> QED  BY <1>8, <1>9

\* The length is a number.
LEMMA LengthsIsNat ==
  ASSUME NEW L, \A l \in L : l.dur \in Nat, NEW rows \in Seq(L)
  PROVE  Lengths(rows) \in Nat
<1>1. PICK h \in [0 .. Len(rows) -> Nat] : h[Len(rows)] = Lengths(rows)
  BY LengthsRun
<1> QED  BY <1>1

\* No clips have no length.
LEMMA LengthsOfNone == Lengths(<<>>) = 0
<1>1. <<>> \in Seq({}) /\ Len(<<>>) = 0
  OBVIOUS
<1>2. PICK h \in [0 .. 0 -> Nat] : h[0] = 0 /\ h[0] = Lengths(<<>>)
  BY <1>1, LengthsRun
<1> QED  BY <1>2

\* One clip more.
LEMMA LengthsOfAppend ==
  ASSUME NEW L, \A l \in L : l.dur \in Nat, NEW rows \in Seq(L), NEW l \in L
  PROVE  Lengths(Append(rows, l)) = Lengths(rows) + l.dur
<1> DEFINE N == Len(rows)
           more == Append(rows, l)
<1>1. N \in Nat /\ Len(more) = N + 1 /\ more \in Seq(L) /\ more[N + 1] = l /\ \A i \in 1 .. N : more[i] = rows[i]
  OBVIOUS
<1>2. PICK h \in [0 .. N -> Nat] : /\ h[0] = 0 /\ h[N] = Lengths(rows)
                                   /\ \A i \in 1 .. N : h[i] = h[i - 1] + rows[i].dur
  BY LengthsRun
<1> HIDE DEF more, N
<1>3. PICK k \in [0 .. N + 1 -> Nat] : /\ k[0] = 0 /\ k[N + 1] = Lengths(more)
                                       /\ \A i \in 1 .. N + 1 : k[i] = k[i - 1] + more[i].dur
  <2>1. \E k \in [0 .. Len(more) -> Nat] :
          /\ k[0] = 0 /\ k[Len(more)] = Lengths(more)
          /\ \A i \in 1 .. Len(more) : k[i] = k[i - 1] + more[i].dur
    BY <1>1, LengthsRun
  <2> QED  BY <1>1, <2>1
<1> DEFINE G == {i \in 0 .. N : h[i] = k[i]}
<1>4. 0 \in G
  BY <1>1, <1>2, <1>3
<1>5. ASSUME NEW i \in 1 .. N, i - 1 \in G  PROVE i \in G
  <2>1. i \in 1 .. N + 1 /\ i \in 0 .. N
    BY <1>1
  <2>2. h[i - 1] = k[i - 1] /\ more[i] = rows[i]
    BY <1>1, <1>5
  <2> QED  BY <1>2, <1>3, <2>1, <2>2
<1>6. h[N] = k[N]
  <2>1. N \in G
    <3> HIDE DEF G
    <3> QED  BY <1>1, <1>4, <1>5, TraceInduction
  <2> QED  BY <2>1
<1>7. k[N + 1] = k[N] + l.dur
  <2>1. N + 1 \in 1 .. N + 1 /\ (N + 1) - 1 = N
    BY <1>1
  <2> QED  BY <1>1, <1>3, <2>1
<1> QED  BY <1>2, <1>3, <1>6, <1>7 DEF more

(* What one line makes of a selection: it is skipped for a reason, or kept. *)
Counted(skipped, why) == [skipped EXCEPT ![why] = @ + 1]
Same(acc, r) == r.rows = acc.rows /\ r.seen = acc.seen /\ r.total = acc.total /\ r.measured = acc.measured
Skipped(acc, l, r) ==
  /\ Same(acc, r)
  /\ l.text = NoText \/ l.text \in acc.seen \/ l.flaw # ""
  /\ \E why \in Reasons :
       /\ r.skipped = Counted(acc.skipped, why)
       /\ r.cps = acc.cps + (IF why = Mismatch THEN 1 ELSE 0)
Kept(acc, l, r) ==
  /\ l.text \notin acc.seen
  /\ r.rows = Append(acc.rows, l) /\ r.seen = acc.seen \cup {l.text} /\ r.total = acc.total + l.dur
  /\ r.cps = acc.cps + 1 /\ r.skipped = acc.skipped
  /\ r.measured \in {acc.measured, Append(acc.measured, l)}
  /\ acc.rows = <<>> /\ acc.measured = <<>> => r.measured = Append(acc.measured, l)

\* Each reason is one, and not another.
LEMMA ReasonsAre ==
  /\ "no_text" \in Reasons /\ "duplicate" \in Reasons /\ Mismatch \in Reasons /\ Unusable \subseteq Reasons
  /\ "no_text" # Mismatch /\ "duplicate" # Mismatch /\ Mismatch \notin Unusable
  /\ "" \notin Unusable /\ "" # Mismatch
BY DEF Reasons, Mismatch, Unusable

\* A selection with some of its fields changed.
LEMMA FieldsChanged ==
  ASSUME NEW A, NEW B, NEW C, NEW D, NEW E, NEW F,
         NEW r \in [rows : A, seen : B, total : C, cps : D, measured : E, skipped : F]
  PROVE  /\ \A x \in F : LET q == [r EXCEPT !.skipped = x] IN
              /\ q \in [rows : A, seen : B, total : C, cps : D, measured : E, skipped : F]
              /\ q.rows = r.rows /\ q.seen = r.seen /\ q.total = r.total
              /\ q.measured = r.measured /\ q.cps = r.cps /\ q.skipped = x
         /\ \A x \in D : LET q == [r EXCEPT !.cps = x] IN
              /\ q \in [rows : A, seen : B, total : C, cps : D, measured : E, skipped : F]
              /\ q.rows = r.rows /\ q.seen = r.seen /\ q.total = r.total
              /\ q.measured = r.measured /\ q.cps = x /\ q.skipped = r.skipped
         /\ \A x \in E : LET q == [r EXCEPT !.measured = x] IN
              /\ q \in [rows : A, seen : B, total : C, cps : D, measured : E, skipped : F]
              /\ q.rows = r.rows /\ q.seen = r.seen /\ q.total = r.total
              /\ q.measured = x /\ q.cps = r.cps /\ q.skipped = r.skipped
         /\ \A x \in A, y \in B, z \in C : LET q == [r EXCEPT !.rows = x, !.seen = y, !.total = z] IN
              /\ q \in [rows : A, seen : B, total : C, cps : D, measured : E, skipped : F]
              /\ q.rows = x /\ q.seen = y /\ q.total = z
              /\ q.measured = r.measured /\ q.cps = r.cps /\ q.skipped = r.skipped
OBVIOUS

\* What a selection consists of.
LEMMA SelectionIs ==
  ASSUME NEW T, NEW acc \in Selections(T)
  PROVE  /\ acc.rows \in Seq(ClipLines(T)) /\ acc.seen \in SUBSET T /\ acc.total \in Nat /\ acc.cps \in Nat
         /\ acc.measured \in Seq(ClipLines(T)) /\ acc.skipped \in [Reasons -> Nat]
BY DEF Selections

\* A skip changes the count of its reason.
LEMMA SkipIs ==
  ASSUME NEW T, NEW acc \in Selections(T), NEW why \in Reasons
  PROVE  /\ Skip(acc, why) \in Selections(T) /\ Same(acc, Skip(acc, why))
         /\ Skip(acc, why).cps = acc.cps /\ Skip(acc, why).skipped = Counted(acc.skipped, why)
<1>1. Counted(acc.skipped, why) \in [Reasons -> Nat]
  BY SelectionIs DEF Counted
<1>2. Skip(acc, why) = [acc EXCEPT !.skipped = Counted(acc.skipped, why)]
  BY DEF Skip, Counted
<1>3. LET r == [acc EXCEPT !.skipped = Counted(acc.skipped, why)] IN
        /\ r \in Selections(T) /\ r.rows = acc.rows /\ r.seen = acc.seen /\ r.total = acc.total
        /\ r.measured = acc.measured /\ r.cps = acc.cps /\ r.skipped = Counted(acc.skipped, why)
  BY <1>1, FieldsChanged DEF Selections
<1> QED  BY <1>2, <1>3 DEF Same

\* A clip that could be heard is counted.
LEMMA CpsIs ==
  ASSUME NEW T, NEW acc \in Selections(T)
  PROVE  LET r == [acc EXCEPT !.cps = @ + 1] IN
         /\ r \in Selections(T) /\ r.rows = acc.rows /\ r.seen = acc.seen /\ r.total = acc.total
         /\ r.measured = acc.measured /\ r.cps = acc.cps + 1 /\ r.skipped = acc.skipped
<1>1. acc.cps + 1 \in Nat
  BY SelectionIs
<1> QED  BY <1>1, FieldsChanged DEF Selections

\* Measuring adds at most the clip, and the first one it does.
LEMMA MeasureIs ==
  ASSUME NEW T, NEW acc \in Selections(T), NEW l \in ClipLines(T)
  PROVE  LET r == Measure(acc, l) IN
         /\ r \in Selections(T) /\ r.rows = acc.rows /\ r.seen = acc.seen /\ r.total = acc.total
         /\ r.cps = acc.cps /\ r.skipped = acc.skipped
         /\ r.measured \in {acc.measured, Append(acc.measured, l)}
         /\ acc.rows = <<>> /\ acc.measured = <<>> => r.measured = Append(acc.measured, l)
<1> DEFINE r == Measure(acc, l)
           m == [acc EXCEPT !.measured = Append(@, l)]
<1>1. /\ m \in Selections(T) /\ m.rows = acc.rows /\ m.seen = acc.seen /\ m.total = acc.total
      /\ m.cps = acc.cps /\ m.skipped = acc.skipped /\ m.measured = Append(acc.measured, l)
  <2>1. Append(acc.measured, l) \in Seq(ClipLines(T))
    BY SelectionIs
  <2>2. m = [acc EXCEPT !.measured = Append(acc.measured, l)]
    OBVIOUS
  <2> QED  BY <2>1, FieldsChanged DEF Selections
<1>2. r = m \/ r = acc
  BY DEF Measure
<1>3. acc.rows = <<>> /\ acc.measured = <<>> => r = m
  <2> SUFFICES ASSUME acc.rows = <<>>, acc.measured = <<>>  PROVE r = m
    OBVIOUS
  <2>1. Len(acc.rows) = 0 /\ Len(acc.measured) = 0
    OBVIOUS
  <2>2. MeasureEvery \in Nat \ {0} /\ MaxMeasured \in Nat \ {0}
    BY SelectionAssumption DEF SelectionAssumption
  <2>3. Len(acc.rows) % MeasureEvery = 0 /\ Len(acc.measured) < MaxMeasured
    BY <2>1, <2>2
  <2> QED  BY <2>3 DEF Measure
<1> HIDE DEF r, m
<1>4. /\ r \in Selections(T) /\ r.rows = acc.rows /\ r.seen = acc.seen /\ r.total = acc.total
      /\ r.cps = acc.cps /\ r.skipped = acc.skipped
      /\ r.measured \in {acc.measured, Append(acc.measured, l)}
      /\ acc.rows = <<>> /\ acc.measured = <<>> => r.measured = Append(acc.measured, l)
  BY <1>1, <1>2, <1>3
<1> QED  BY <1>4 DEF r

\* A line that is kept.
LEMMA KeepIs ==
  ASSUME NEW T, NEW acc \in Selections(T), NEW l \in ClipLines(T), l.text \notin acc.seen
  PROVE  LET r == Keep([acc EXCEPT !.cps = @ + 1], l) IN r \in Selections(T) /\ Kept(acc, l, r)
<1> DEFINE c == [acc EXCEPT !.cps = @ + 1]
           m == Measure(c, l)
           r == [m EXCEPT !.rows = Append(@, l), !.seen = @ \cup {l.text}, !.total = @ + l.dur]
<1>1. /\ c \in Selections(T) /\ c.rows = acc.rows /\ c.seen = acc.seen /\ c.total = acc.total
      /\ c.measured = acc.measured /\ c.cps = acc.cps + 1 /\ c.skipped = acc.skipped
  BY CpsIs
<1> HIDE DEF c
<1>2. /\ m \in Selections(T) /\ m.rows = c.rows /\ m.seen = c.seen /\ m.total = c.total
      /\ m.cps = c.cps /\ m.skipped = c.skipped
      /\ m.measured \in {c.measured, Append(c.measured, l)}
      /\ c.rows = <<>> /\ c.measured = <<>> => m.measured = Append(c.measured, l)
  BY <1>1, MeasureIs
<1> HIDE DEF m
<1>3. l.text \in T /\ l.dur \in Nat
  BY DEF ClipLines
<1>4. /\ r \in Selections(T) /\ r.rows = Append(m.rows, l) /\ r.seen = m.seen \cup {l.text}
      /\ r.total = m.total + l.dur /\ r.cps = m.cps /\ r.skipped = m.skipped /\ r.measured = m.measured
  <2>1. /\ Append(m.rows, l) \in Seq(ClipLines(T)) /\ m.seen \cup {l.text} \in SUBSET T
        /\ m.total + l.dur \in Nat
    BY <1>2, <1>3, SelectionIs
  <2> QED  BY <1>2, <2>1, FieldsChanged DEF Selections
<1>5. r = Keep(c, l)
  BY DEF Keep, m
<1> HIDE DEF r
<1>6. r \in Selections(T) /\ Kept(acc, l, r)
  BY <1>1, <1>2, <1>4 DEF Kept
<1> QED  BY <1>5, <1>6 DEF c

\* Every line is skipped or kept.
LEMMA TakeIs ==
  ASSUME NEW T, NEW acc \in Selections(T), NEW l \in ClipLines(T)
  PROVE  LET r == Take(acc, l) IN r \in Selections(T) /\ (Skipped(acc, l, r) \/ Kept(acc, l, r))
<1> DEFINE r == Take(acc, l)
           c == [acc EXCEPT !.cps = @ + 1]
           Right(q) == q \in Selections(T) /\ (Skipped(acc, l, q) \/ Kept(acc, l, q))
<1>0. acc.cps \in Nat /\ l.flaw \in Flaws
  BY DEF Selections, ClipLines
<1>1. ASSUME NEW why \in Reasons \ {Mismatch}, NEW q, q = Skip(acc, why),
             l.text = NoText \/ l.text \in acc.seen \/ l.flaw # ""
      PROVE  q \in Selections(T) /\ Skipped(acc, l, q)
  <2>1. q \in Selections(T) /\ Same(acc, q) /\ q.cps = acc.cps /\ q.skipped = Counted(acc.skipped, why)
    BY <1>1, SkipIs
  <2>2. q.cps = acc.cps + (IF why = Mismatch THEN 1 ELSE 0)
    <3>1. why # Mismatch
      BY <1>1
    <3>2. (IF why = Mismatch THEN 1 ELSE 0) = 0
      BY <3>1
    <3>3. \A n \in Nat : n = n + 0
      OBVIOUS
    <3> QED  BY <1>0, <2>1, <3>2, <3>3
  <2> QED  BY <1>1, <2>1, <2>2 DEF Skipped
<1>2. ASSUME NEW q, q = Skip(c, Mismatch), l.flaw # ""
      PROVE  q \in Selections(T) /\ Skipped(acc, l, q)
  <2>1. /\ c \in Selections(T) /\ c.rows = acc.rows /\ c.seen = acc.seen /\ c.total = acc.total
        /\ c.measured = acc.measured /\ c.cps = acc.cps + 1 /\ c.skipped = acc.skipped
    BY CpsIs
  <2> HIDE DEF r, c
  <2>2. q \in Selections(T) /\ Same(c, q) /\ q.cps = c.cps /\ q.skipped = Counted(c.skipped, Mismatch)
    BY <1>2, <2>1, SkipIs, ReasonsAre
  <2>3. Same(acc, q) /\ q.skipped = Counted(acc.skipped, Mismatch) /\ q.cps = acc.cps + 1
    BY <2>1, <2>2 DEF Same
  <2>4. q.cps = acc.cps + (IF Mismatch = Mismatch THEN 1 ELSE 0)
    BY <2>3
  <2> QED  BY <1>2, <2>2, <2>3, <2>4, ReasonsAre DEF Skipped
<1>3. ASSUME l.text = NoText  PROVE Right(r)
  <2>1. r = Skip(acc, "no_text")
    BY <1>3 DEF Take
  <2> HIDE DEF r
  <2> QED  BY <1>1, <1>3, <2>1, ReasonsAre DEF r
<1>4. ASSUME l.text # NoText, l.text \in acc.seen  PROVE Right(r)
  <2>1. r = Skip(acc, "duplicate")
    BY <1>4 DEF Take
  <2> HIDE DEF r
  <2> QED  BY <1>1, <1>4, <2>1, ReasonsAre DEF r
<1>5. ASSUME l.text # NoText, l.text \notin acc.seen, l.flaw \in Unusable  PROVE Right(r)
  <2>1. r = Skip(acc, l.flaw)
    BY <1>5 DEF Take
  <2> HIDE DEF r
  <2> QED  BY <1>1, <1>5, <2>1, ReasonsAre DEF r
<1>6. ASSUME l.text # NoText, l.text \notin acc.seen, l.flaw = Mismatch  PROVE Right(r)
  <2>1. r = Skip(c, Mismatch)
    BY <1>6, ReasonsAre DEF Take
  <2> HIDE DEF r
  <2> QED  BY <1>2, <1>6, <2>1, ReasonsAre DEF r
<1>7. ASSUME l.text # NoText, l.text \notin acc.seen, l.flaw = ""  PROVE Right(r)
  <2>1. r = Keep(c, l)
    BY <1>7, ReasonsAre DEF Take
  <2>2. Keep(c, l) \in Selections(T) /\ Kept(acc, l, Keep(c, l))
    BY <1>7, KeepIs
  <2> HIDE DEF r, c
  <2> QED  BY <2>1, <2>2 DEF r
<1>8. \/ l.text = NoText
      \/ l.text # NoText /\ l.text \in acc.seen
      \/ l.text # NoText /\ l.text \notin acc.seen /\ l.flaw \in Unusable
      \/ l.text # NoText /\ l.text \notin acc.seen /\ l.flaw = Mismatch
      \/ l.text # NoText /\ l.text \notin acc.seen /\ l.flaw = ""
  <2>1. l.flaw \in Unusable \/ l.flaw = Mismatch \/ l.flaw = ""
    BY <1>0 DEF Flaws
  <2> QED  BY <2>1
<1>9. Right(r)
  <2> HIDE DEF r, Right
  <2> QED  BY <1>3, <1>4, <1>5, <1>6, <1>7, <1>8
<1> QED  BY <1>9

(* A step of the loop, as a function.                                      *)
Taking(T) == [p \in Selections(T) \X ClipLines(T) |-> Take(p[1], p[2])]

\* It selects from a selection and a line.
LEMMA TakingIs ==
  ASSUME NEW T
  PROVE  /\ Taking(T) \in [Selections(T) \X ClipLines(T) -> Selections(T)]
         /\ \A acc \in Selections(T), l \in ClipLines(T) : Taking(T)[<<acc, l>>] = Take(acc, l)
<1>1. \A acc \in Selections(T), l \in ClipLines(T) : Take(acc, l) \in Selections(T)
  BY TakeIs
<1>2. \A p \in Selections(T) \X ClipLines(T) :
        p[1] \in Selections(T) /\ p[2] \in ClipLines(T)
  OBVIOUS
<1>3. \A acc \in Selections(T), l \in ClipLines(T) :
        /\ <<acc, l>> \in Selections(T) \X ClipLines(T)
        /\ <<acc, l>>[1] = acc /\ <<acc, l>>[2] = l
  OBVIOUS
<1>4. ASSUME NEW p \in Selections(T) \X ClipLines(T)  PROVE Take(p[1], p[2]) \in Selections(T)
  BY <1>1, <1>2
<1>5. \A acc \in Selections(T), l \in ClipLines(T) : Taking(T)[<<acc, l>>] = Take(acc, l)
  BY <1>3 DEF Taking
<1> QED  BY <1>4, <1>5 DEF Taking

\* The selection the loop starts with.
LEMMA NothingIs == ASSUME NEW T PROVE Nothing \in Selections(T)
<1>1. [r \in Reasons |-> 0] \in [Reasons -> Nat] /\ <<>> \in Seq(ClipLines(T)) /\ {} \in SUBSET T
  OBVIOUS
<1> QED  BY <1>1 DEF Nothing, Selections

(* What the loop has selected after each line.                             *)
LEMMA LoopRuns ==
  ASSUME NEW T, NEW lines \in Seq(ClipLines(T))
  PROVE  \E h \in [0 .. Len(lines) -> Selections(T)] :
           /\ h[0] = Nothing /\ h[Len(lines)] = FoldLeft(Take, Nothing, lines)
           /\ \A i \in 1 .. Len(lines) : h[i] = Take(h[i - 1], lines[i])
<1> DEFINE N == Len(lines)
           D == 1 .. N
           S == Selections(T)
           L == ClipLines(T)
           f == Taking(T)
           Iterate(g, s) == IF s = {} THEN Nothing ELSE Take(g[s \ {Max(s)}], lines[Max(s)])
<1>0. N \in Nat /\ DOMAIN lines = D
  OBVIOUS
<1>1. PICK g : Solves(g, S, L, f, Nothing, lines)
  <2>1. f \in [S \X L -> S] /\ Nothing \in S
    BY TakingIs, NothingIs
  <2> HIDE DEF f, S, L
  <2> QED  BY <2>1, FoldSolved DEF L
<1>2. \A s \in SUBSET D : g[s] = Iterate(g, s)
  <2> SUFFICES ASSUME NEW s \in SUBSET D, s # {}  PROVE g[s] = Iterate(g, s)
    BY <1>1 DEF Solves
  <2>1. g[s \ {Max(s)}] \in S /\ lines[Max(s)] \in L /\ g[s] = f[<<g[s \ {Max(s)}], lines[Max(s)]>>]
    <3> HIDE DEF S, L, f
    <3> QED  BY <1>1 DEF Solves
  <2> HIDE DEF D
  <2> QED  BY <2>1, TakingIs
<1>3. g = [s \in SUBSET D |-> Iterate(g, s)]
  <2>1. g = [s \in SUBSET D |-> g[s]]
    BY <1>1 DEF Solves
  <2> HIDE DEF D, Iterate
  <2> QED  BY <1>2, <2>1
<1> DEFINE iter == CHOOSE x : x = [s \in SUBSET D |-> Iterate(x, s)]
<1>4. iter = [s \in SUBSET D |-> Iterate(iter, s)]
  <2> HIDE DEF D, Iterate
  <2> QED  BY <1>3
<1>5. FoldLeft(Take, Nothing, lines) = iter[D]
  <2>1. FoldLeft(Take, Nothing, lines)
          = (CHOOSE x : x = [s \in SUBSET DOMAIN lines |-> Iterate(x, s)])[DOMAIN lines]
    BY DEF FoldLeft, MapThenFoldSet
  <2> HIDE DEF D, Iterate
  <2> QED  BY <1>0, <2>1
<1> HIDE DEF iter
<1>6. iter[1 .. 0] = Nothing /\ \A i \in D : iter[1 .. i] = Take(iter[1 .. i - 1], lines[i])
  <2>1. \A s \in SUBSET D : iter[s] = Iterate(iter, s)
    <3> HIDE DEF Iterate, D
    <3> QED  BY <1>4
  <2>2. 1 .. 0 = {} /\ {} \in SUBSET D
    OBVIOUS
  <2>3. ASSUME NEW i \in D  PROVE iter[1 .. i] = Take(iter[1 .. i - 1], lines[i])
    <3>1. 1 .. i \in SUBSET D /\ 1 .. i # {} /\ Max(1 .. i) = i /\ (1 .. i) \ {i} = 1 .. i - 1
      <4> HIDE DEF N
      <4> QED  BY <1>0, FirstElements
    <3> HIDE DEF D
    <3> QED  BY <2>1, <3>1
  <2> QED  BY <2>1, <2>2, <2>3
<1> DEFINE h == [i \in 0 .. N |-> iter[1 .. i]]
           G == {i \in 0 .. N : iter[1 .. i] \in Selections(T)}
<1>7. \A k \in 0 .. N : k \in G
  <2>1. 0 \in G
    BY <1>0, <1>6, NothingIs
  <2>2. ASSUME NEW i \in 1 .. N, i - 1 \in G  PROVE i \in G
    <3>1. iter[1 .. i - 1] \in Selections(T) /\ lines[i] \in ClipLines(T) /\ i \in 0 .. N
      <4> HIDE DEF S, L, f, h
      <4> QED  BY <2>2, <1>0
    <3>2. iter[1 .. i] = Take(iter[1 .. i - 1], lines[i])
      BY <1>6
    <3> HIDE DEF N
    <3> QED  BY <3>1, <3>2, TakeIs
  <2> HIDE DEF G
  <2>3. \A k \in 0 .. N : \A i \in 1 .. k : i \in 1 .. N
    BY <1>0
  <2> HIDE DEF N
  <2> QED  BY <1>0, <2>1, <2>2, <2>3, TraceInduction
<1>8. h \in [0 .. N -> Selections(T)] /\ h[0] = Nothing /\ h[N] = FoldLeft(Take, Nothing, lines)
  <2>1. \A i \in 0 .. N : iter[1 .. i] \in Selections(T)
    BY <1>7
  <2> HIDE DEF N
  <2> QED  BY <1>0, <1>5, <1>6, <2>1
<1>9. ASSUME NEW i \in 1 .. N  PROVE h[i] = Take(h[i - 1], lines[i])
  <2>1. i \in 0 .. N /\ i - 1 \in 0 .. N
    BY <1>0
  <2> HIDE DEF N
  <2> QED  BY <1>6, <2>1
<1> HIDE DEF h
<1> QED  BY <1>8, <1>9

(* The skips of a selection add up.                                        *)
Skips(skipped) == FoldFunction(LAMBDA a, b: a + b, 0, skipped)

\* They are the sum over the reasons.
LEMMA SkipsAre ==
  ASSUME NEW sk \in [Reasons -> Nat]
  PROVE  Skips(sk) = SumFunctionOnSet(sk, Reasons) /\ IsFiniteSet(Reasons) /\ Skips(sk) \in Nat
<1>1. DOMAIN sk = Reasons
  OBVIOUS
<1>2. Skips(sk) = (CHOOSE g : Adds(sk, g, DOMAIN sk))[DOMAIN sk]
  BY DEF Skips, FoldFunction, FoldFunctionOnSet, MapThenFoldSet, Adds, Step, Pick
<1>3. Skips(sk) = SumFunctionOnSet(sk, Reasons)
  BY <1>1, <1>2, SumIsChosen
<1>4. IsFiniteSet(Reasons)
  <2>1. Reasons = (((({"unreadable"} \cup {"too_short_or_long"}) \cup {"clipped"}) \cup {"no_text"}) \cup {"duplicate"}) \cup {Mismatch}
    BY DEF Reasons, Unusable
  <2> QED  BY <2>1, FS_Singleton, FS_Union
<1> QED  BY <1>1, <1>3, <1>4, SumIsNat

\* One skip more, for one reason.
LEMMA SkipsCounted ==
  ASSUME NEW sk \in [Reasons -> Nat], NEW why \in Reasons
  PROVE  /\ Counted(sk, why) \in [Reasons -> Nat] /\ Skips(Counted(sk, why)) = Skips(sk) + 1
         /\ Counted(sk, why)[why] = sk[why] + 1
         /\ \A w \in Reasons \ {why} : Counted(sk, why)[w] = sk[w]
<1> DEFINE c == Counted(sk, why)
<1>1. c \in [Reasons -> Nat] /\ c[why] = sk[why] + 1 /\ \A w \in Reasons \ {why} : c[w] = sk[w]
  BY DEF Counted
<1> HIDE DEF c
<1>2. SumFunctionOnSet(c, Reasons) + sk[why] = SumFunctionOnSet(sk, Reasons) + c[why]
  <2>1. \A w \in Reasons : c[w] \in Nat /\ sk[w] \in Nat
    BY <1>1
  <2> QED  BY <1>1, <2>1, SumChanged, SkipsAre
<1>3. Skips(c) = SumFunctionOnSet(c, Reasons) /\ Skips(c) \in Nat /\ Skips(sk) = SumFunctionOnSet(sk, Reasons)
      /\ Skips(sk) \in Nat /\ sk[why] \in Nat
  BY <1>1, SkipsAre
<1>4. Skips(c) = Skips(sk) + 1
  BY <1>1, <1>2, <1>3
<1> QED  BY <1>1, <1>4 DEF c

\* At first nothing is skipped.
LEMMA NoSkips == Skips([r \in Reasons |-> 0]) = 0
<1> DEFINE z == [r \in Reasons |-> 0]
           B == {s \in SUBSET Reasons : SumFunctionOnSet(z, s) # 0}
<1>1. z \in [Reasons -> Nat] /\ \A w \in Reasons : z[w] = 0
  OBVIOUS
<1> HIDE DEF z
<1>2. IsFiniteSet(Reasons) /\ Skips(z) = SumFunctionOnSet(z, Reasons)
  BY <1>1, SkipsAre
<1>3. B = {}
  <2> SUFFICES ASSUME B # {}  PROVE FALSE
    OBVIOUS
  <2>1. PICK U \in B : \A V \in SUBSET U : V # U => V \notin B
    <3>1. B \in SUBSET SUBSET Reasons
      OBVIOUS
    <3> HIDE DEF B
    <3> QED  BY <1>2, <3>1, LeastSubset
  <2>2. U \in SUBSET Reasons /\ SumFunctionOnSet(z, U) # 0 /\ IsFiniteSet(U)
    BY <1>2, FS_Subset
  <2>3. U # {}
    BY <2>2, SumOfNone
  <2>4. PICK x \in U : TRUE
    BY <2>3
  <2>5. SumFunctionOnSet(z, U \ {x}) = 0
    BY <2>1, <2>2, <2>4
  <2>6. SumFunctionOnSet(z, U) = z[x] + SumFunctionOnSet(z, U \ {x})
    <3>1. \A y \in U : z[y] \in Nat
      BY <1>1, <2>2
    <3> QED  BY <2>2, <2>4, <3>1, SumWithout
  <2>7. z[x] = 0
    BY <1>1, <2>2
  <2> QED  BY <2>2, <2>5, <2>6, <2>7
<1> QED  BY <1>2, <1>3 DEF z

Texts(rows) == {rows[i].text : i \in DOMAIN rows}
Distinct(rows) == \A i, j \in DOMAIN rows : rows[i].text = rows[j].text => i = j
Good(l) == l.text # NoText /\ l.flaw = ""

(* What the selection acc of the first i lines is.                         *)
SelectedFrom(lines, i, acc) ==
  /\ i = Len(acc.rows) + Skips(acc.skipped)
  /\ Distinct(acc.rows) /\ acc.seen = Texts(acc.rows)
  /\ \A k \in 1 .. i : Good(lines[k]) => lines[k].text \in acc.seen
  /\ acc.total = Lengths(acc.rows)
  /\ ToSet(acc.measured) \subseteq ToSet(acc.rows)
  /\ acc.rows # <<>> => acc.measured # <<>>
  /\ acc.cps = Len(acc.rows) + acc.skipped[Mismatch]

\* It holds before the first line.
LEMMA SelectedAtFirst == ASSUME NEW lines PROVE SelectedFrom(lines, 0, Nothing)
<1>1. /\ Nothing.rows = <<>> /\ Nothing.seen = {} /\ Nothing.total = 0 /\ Nothing.cps = 0
      /\ Nothing.measured = <<>> /\ Nothing.skipped = [r \in Reasons |-> 0]
  BY DEF Nothing
<1>2. Len(<<>>) = 0 /\ Texts(<<>>) = {} /\ Distinct(<<>>) /\ ToSet(<<>>) = {}
  BY DEF Texts, Distinct, ToSet
<1>3. Nothing.skipped[Mismatch] = 0
  BY <1>1, ReasonsAre
<1>4. 0 = Len(Nothing.rows) + Skips(Nothing.skipped)
  BY <1>1, <1>2, NoSkips
<1>5. \A k \in 1 .. 0 : FALSE
  OBVIOUS
<1> HIDE DEF Nothing
<1> QED  BY <1>1, <1>2, <1>3, <1>4, <1>5, LengthsOfNone DEF SelectedFrom

(* One row more.                                                           *)
Grown(rows, l, more) ==
  /\ more # <<>> /\ Len(more) = Len(rows) + 1 /\ ToSet(more) = ToSet(rows) \cup {l}
  /\ Texts(more) = Texts(rows) \cup {l.text}
  /\ Distinct(rows) /\ l.text \notin Texts(rows) => Distinct(more)

\* What the rows and their texts are then.
LEMMA RowsGrow ==
  ASSUME NEW L, NEW rows \in Seq(L), NEW l \in L, NEW more, more = Append(rows, l)
  PROVE  Grown(rows, l, more)
<1> DEFINE n == Len(rows) + 1
           D == DOMAIN rows
<1>1. /\ more \in Seq(L) /\ Len(more) = n /\ DOMAIN more = D \cup {n} /\ n \notin D
      /\ more[n] = l /\ \A i \in D : more[i] = rows[i]
  OBVIOUS
<1>2. more # <<>>
  <2>1. n > 0 /\ Len(<<>>) = 0
    OBVIOUS
  <2> HIDE DEF n
  <2> QED  BY <1>1, <2>1
<1> HIDE DEF n, D
<1>3. ToSet(more) = ToSet(rows) \cup {l}
  BY <1>1 DEF ToSet, D
<1>4. Texts(more) = Texts(rows) \cup {l.text}
  BY <1>1 DEF Texts, D
<1>5. ASSUME Distinct(rows), l.text \notin Texts(rows)  PROVE Distinct(more)
  <2> SUFFICES ASSUME NEW i \in DOMAIN more, NEW j \in DOMAIN more, more[i].text = more[j].text  PROVE i = j
    BY DEF Distinct
  <2>1. \A k \in D : rows[k].text # l.text
    BY <1>5 DEF Texts, D
  <2> QED  BY <1>1, <1>5, <2>1 DEF Distinct, D
<1> QED  BY <1>1, <1>2, <1>3, <1>4, <1>5 DEF n, Grown

\* A line that is skipped keeps it.
LEMMA SelectedSkipping ==
  ASSUME NEW T, NEW lines \in Seq(ClipLines(T)), NEW i \in 1 .. Len(lines), NEW acc \in Selections(T),
         SelectedFrom(lines, i - 1, acc), NEW r, Skipped(acc, lines[i], r)
  PROVE  SelectedFrom(lines, i, r)
<1>0. i \in Nat /\ i \in 1 .. i /\ \A k \in 1 .. i : k = i \/ k \in 1 .. i - 1
  OBVIOUS
<1>1. /\ i - 1 = Len(acc.rows) + Skips(acc.skipped) /\ Distinct(acc.rows) /\ acc.seen = Texts(acc.rows)
      /\ \A k \in 1 .. i - 1 : Good(lines[k]) => lines[k].text \in acc.seen
      /\ acc.total = Lengths(acc.rows)
      /\ ToSet(acc.measured) \subseteq ToSet(acc.rows)
      /\ acc.rows # <<>> => acc.measured # <<>>
      /\ acc.cps = Len(acc.rows) + acc.skipped[Mismatch]
  BY DEF SelectedFrom
<1>2. PICK why \in Reasons : /\ r.skipped = Counted(acc.skipped, why)
                             /\ r.cps = acc.cps + (IF why = Mismatch THEN 1 ELSE 0)
  BY DEF Skipped
<1>3. r.rows = acc.rows /\ r.seen = acc.seen /\ r.total = acc.total /\ r.measured = acc.measured
  BY DEF Skipped, Same
<1>4. acc.skipped \in [Reasons -> Nat] /\ Len(acc.rows) \in Nat
  BY SelectionIs
<1>5. i = Len(r.rows) + Skips(r.skipped)
  <2>1. Skips(acc.skipped) \in Nat /\ Skips(r.skipped) = Skips(acc.skipped) + 1
    BY <1>2, <1>4, SkipsAre, SkipsCounted
  <2>2. Len(r.rows) = Len(acc.rows) /\ i - 1 = Len(acc.rows) + Skips(acc.skipped)
    BY <1>1, <1>3
  <2>3. Skips(r.skipped) = Skips(acc.skipped) + 1 /\ Skips(acc.skipped) \in Nat /\ Len(acc.rows) \in Nat
    BY <1>4, <2>1
  <2> QED  BY <1>0, <2>2, <2>3
<1>6. Good(lines[i]) => lines[i].text \in acc.seen
  BY DEF Skipped, Good
<1>7. \A k \in 1 .. i : Good(lines[k]) => lines[k].text \in r.seen
  BY <1>0, <1>1, <1>3, <1>6
<1>8. r.cps = Len(r.rows) + r.skipped[Mismatch]
  <2>1. acc.skipped[Mismatch] \in Nat
    BY <1>4, ReasonsAre
  <2>2. CASE why = Mismatch
    <3>1. r.skipped[Mismatch] = acc.skipped[Mismatch] + 1 /\ r.cps = acc.cps + 1
      BY <1>2, <1>4, <2>2, SkipsCounted
    <3> QED  BY <1>1, <1>3, <1>4, <2>1, <3>1
  <2>3. CASE why # Mismatch
    <3>1. r.skipped[Mismatch] = acc.skipped[Mismatch]
      <4>1. Mismatch \in Reasons \ {why}
        BY <2>3, ReasonsAre
      <4>2. \A w \in Reasons \ {why} : Counted(acc.skipped, why)[w] = acc.skipped[w]
        BY <1>4, SkipsCounted
      <4> QED  BY <1>2, <4>1, <4>2
    <3>2. (IF why = Mismatch THEN 1 ELSE 0) = 0
      BY <2>3
    <3>3. acc.cps + 0 = acc.cps
      BY SelectionIs
    <3> QED  BY <1>1, <1>2, <1>3, <3>1, <3>2, <3>3
  <2> QED  BY <2>2, <2>3
<1> QED  BY <1>1, <1>3, <1>5, <1>7, <1>8 DEF SelectedFrom

\* A line that is kept keeps it.
LEMMA SelectedKeeping ==
  ASSUME NEW T, NEW lines \in Seq(ClipLines(T)), NEW i \in 1 .. Len(lines), NEW acc \in Selections(T),
         SelectedFrom(lines, i - 1, acc), NEW r, Kept(acc, lines[i], r)
  PROVE  SelectedFrom(lines, i, r)
<1> DEFINE l == lines[i]
<1>0. i \in Nat /\ i \in 1 .. i /\ \A k \in 1 .. i : k = i \/ k \in 1 .. i - 1
  OBVIOUS
<1>1. /\ i - 1 = Len(acc.rows) + Skips(acc.skipped) /\ Distinct(acc.rows) /\ acc.seen = Texts(acc.rows)
      /\ \A k \in 1 .. i - 1 : Good(lines[k]) => lines[k].text \in acc.seen
      /\ acc.total = Lengths(acc.rows)
      /\ ToSet(acc.measured) \subseteq ToSet(acc.rows)
      /\ acc.rows # <<>> => acc.measured # <<>>
      /\ acc.cps = Len(acc.rows) + acc.skipped[Mismatch]
  BY DEF SelectedFrom
<1>2. /\ l.text \notin acc.seen
      /\ r.rows = Append(acc.rows, l) /\ r.seen = acc.seen \cup {l.text} /\ r.total = acc.total + l.dur
      /\ r.cps = acc.cps + 1 /\ r.skipped = acc.skipped
      /\ r.measured \in {acc.measured, Append(acc.measured, l)}
      /\ acc.rows = <<>> /\ acc.measured = <<>> => r.measured = Append(acc.measured, l)
  BY DEF Kept
<1>3. l \in ClipLines(T)
  OBVIOUS
<1> HIDE DEF l
<1>4. /\ acc.skipped \in [Reasons -> Nat] /\ Len(acc.rows) \in Nat /\ acc.rows \in Seq(ClipLines(T))
      /\ acc.measured \in Seq(ClipLines(T))
  BY SelectionIs
<1>5. /\ r.rows # <<>> /\ Len(r.rows) = Len(acc.rows) + 1 /\ ToSet(r.rows) = ToSet(acc.rows) \cup {l}
      /\ Texts(r.rows) = Texts(acc.rows) \cup {l.text} /\ Distinct(r.rows)
  <2> DEFINE L == ClipLines(T)
             rows == acc.rows
             more == r.rows
  <2>1. rows \in Seq(L) /\ l \in L /\ more = Append(rows, l)
    BY <1>2, <1>3, <1>4
  <2>2. Distinct(rows) /\ l.text \notin Texts(rows)
    BY <1>1, <1>2
  <2> HIDE DEF L, rows, more
  <2>3. Grown(rows, l, more)
    BY <2>1, RowsGrow
  <2> QED  BY <2>2, <2>3 DEF rows, more, Grown
<1>6. ToSet(Append(acc.measured, l)) = ToSet(acc.measured) \cup {l} /\ Append(acc.measured, l) # <<>>
  <2> DEFINE L == ClipLines(T)
             some == acc.measured
             more == Append(some, l)
  <2>1. some \in Seq(L) /\ l \in L
    BY <1>3, <1>4
  <2> HIDE DEF L, some
  <2>2. more = Append(some, l)
    OBVIOUS
  <2> HIDE DEF more
  <2>3. Grown(some, l, more)
    BY <2>1, <2>2, RowsGrow
  <2> QED  BY <2>2, <2>3 DEF some, more, Grown
<1>7. i = Len(r.rows) + Skips(r.skipped)
  <2>1. Skips(acc.skipped) \in Nat
    BY <1>4, SkipsAre
  <2>2. i - 1 = Len(acc.rows) + Skips(acc.skipped) /\ Len(acc.rows) \in Nat
    BY <1>1, <1>4
  <2>3. Len(r.rows) = Len(acc.rows) + 1 /\ Skips(r.skipped) = Skips(acc.skipped)
    BY <1>2, <1>5
  <2> QED  BY <1>0, <2>1, <2>2, <2>3
<1>8. r.seen = Texts(r.rows)
  BY <1>1, <1>2, <1>5
<1>9. \A k \in 1 .. i : Good(lines[k]) => lines[k].text \in r.seen
  BY <1>0, <1>1, <1>2 DEF l
<1>10. r.total = Lengths(r.rows)
  <2>1. \A x \in ClipLines(T) : x.dur \in Nat
    BY DEF ClipLines
  <2>2. Lengths(Append(acc.rows, l)) = Lengths(acc.rows) + l.dur
    BY <1>3, <1>4, <2>1, LengthsOfAppend
  <2> QED  BY <1>1, <1>2, <2>2
<1>11. ToSet(r.measured) \subseteq ToSet(r.rows)
  BY <1>1, <1>2, <1>5, <1>6
<1>12. r.measured # <<>>
  <2>1. CASE acc.rows # <<>>
    BY <1>1, <1>2, <1>6, <2>1
  <2>2. CASE acc.rows = <<>>
    <3>1. ToSet(acc.measured) = {}
      <4>1. ToSet(<<>>) = {}
        BY DEF ToSet
      <4> QED  BY <1>1, <2>2, <4>1
    <3>2. acc.measured = <<>> \/ acc.measured # <<>>
      OBVIOUS
    <3> QED  BY <1>2, <1>6, <2>2, <3>2
  <2> QED  BY <2>1, <2>2
<1>13. r.cps = Len(r.rows) + r.skipped[Mismatch]
  <2>1. acc.skipped[Mismatch] \in Nat
    BY <1>4, ReasonsAre
  <2>2. r.cps = acc.cps + 1 /\ r.skipped[Mismatch] = acc.skipped[Mismatch]
    BY <1>2
  <2>3. acc.cps = Len(acc.rows) + acc.skipped[Mismatch] /\ Len(r.rows) = Len(acc.rows) + 1 /\ Len(acc.rows) \in Nat
    BY <1>1, <1>4, <1>5
  <2> QED  BY <2>1, <2>2, <2>3
<1> QED  BY <1>5, <1>7, <1>8, <1>9, <1>10, <1>11, <1>12, <1>13 DEF SelectedFrom

(* What the loop selects.                                                  *)
LEMMA LoopSelects ==
  ASSUME NEW T, NEW lines \in Seq(ClipLines(T))
  PROVE  LET all == FoldLeft(Take, Nothing, lines) IN
         all \in Selections(T) /\ SelectedFrom(lines, Len(lines), all)
<1> DEFINE N == Len(lines)
           all == FoldLeft(Take, Nothing, lines)
<1>0. N \in Nat
  OBVIOUS
<1>1. PICK h \in [0 .. N -> Selections(T)] :
        h[0] = Nothing /\ h[N] = all /\ \A i \in 1 .. N : h[i] = Take(h[i - 1], lines[i])
  BY LoopRuns
<1> HIDE DEF all
<1> DEFINE G == {i \in 0 .. N : SelectedFrom(lines, i, h[i])}
<1>2. 0 \in G
  BY <1>0, <1>1, SelectedAtFirst
<1>3. ASSUME NEW i \in 1 .. N, i - 1 \in G  PROVE i \in G
  <2>1. i \in 0 .. N /\ i - 1 \in 0 .. N /\ lines[i] \in ClipLines(T)
    BY <1>0
  <2>2. SelectedFrom(lines, i - 1, h[i - 1]) /\ h[i - 1] \in Selections(T) /\ h[i] = Take(h[i - 1], lines[i])
    BY <1>1, <1>3, <2>1
  <2>3. Skipped(h[i - 1], lines[i], h[i]) \/ Kept(h[i - 1], lines[i], h[i])
    BY <2>1, <2>2, TakeIs
  <2>4. SelectedFrom(lines, i, h[i])
    BY <2>2, <2>3, SelectedSkipping, SelectedKeeping
  <2> QED  BY <2>1, <2>4
<1>4. N \in G
  <2> HIDE DEF G, N
  <2> QED  BY <1>0, <1>2, <1>3, TraceInduction
<1>5. all \in Selections(T) /\ SelectedFrom(lines, N, all)
  <2>1. N \in 0 .. N
    BY <1>0
  <2> HIDE DEF N
  <2> QED  BY <1>1, <1>4, <2>1
<1> QED  BY <1>5 DEF all

(* The least of some numbers.                                              *)
LEMMA MinIs ==
  ASSUME NEW S \in SUBSET Nat, S # {}
  PROVE  Min(S) \in S /\ \A x \in S : Min(S) <= x
<1>1. \E m \in S : \A x \in S : m <= x
  BY LeastNumber
<1> QED  BY <1>1 DEF Min

(* The first rows.                                                         *)
LEMMA FirstRows ==
  ASSUME NEW L, NEW rows \in Seq(L), NEW k \in 0 .. Len(rows)
  PROVE  /\ SubSeq(rows, 1, k) \in Seq(L) /\ Len(SubSeq(rows, 1, k)) = k
         /\ \A i \in 1 .. k : SubSeq(rows, 1, k)[i] = rows[i]
         /\ IsPrefix(SubSeq(rows, 1, k), rows)
<1>1. SubSeq(rows, 1, k) \in Seq(L) /\ Len(SubSeq(rows, 1, k)) = k
  OBVIOUS
<1>2. \A i \in 1 .. k : SubSeq(rows, 1, k)[i] = rows[i]
  OBVIOUS
<1>3. k \in Nat /\ k <= Len(rows) /\ Len(rows) \in Nat
  OBVIOUS
<1>4. SubSeq(SubSeq(rows, 1, k), 1, k) = SubSeq(rows, 1, k)
  <2> DEFINE f == SubSeq(rows, 1, k)
  <2>1. f \in Seq(L) /\ Len(f) = k
    BY <1>1
  <2> HIDE DEF f
  <2>2. SubSeq(f, 1, k) = [i \in 1 .. k |-> f[i]]
    BY <1>3, <2>1
  <2>3. f = [i \in 1 .. k |-> f[i]]
    BY <1>3, <2>1
  <2> QED  BY <2>2, <2>3 DEF f
<1> QED  BY <1>1, <1>2, <1>3, <1>4 DEF IsPrefix

\* All rows and none begin the rows.
LEMMA AllRows ==
  ASSUME NEW L, NEW rows \in Seq(L)
  PROVE  SubSeq(rows, 1, Len(rows)) = rows /\ IsPrefix(rows, rows) /\ IsPrefix(<<>>, rows)
<1>1. Len(rows) \in Nat /\ Len(<<>>) = 0
  OBVIOUS
<1>2. SubSeq(rows, 1, Len(rows)) = rows
  OBVIOUS
<1>3. SubSeq(<<>>, 1, 0) = SubSeq(rows, 1, 0)
  OBVIOUS
<1> QED  BY <1>1, <1>2, <1>3 DEF IsPrefix

\* The first rows are the first but one and the last of them.
LEMMA OneRowMore ==
  ASSUME NEW L, NEW rows \in Seq(L), NEW k \in 1 .. Len(rows)
  PROVE  SubSeq(rows, 1, k) = Append(SubSeq(rows, 1, k - 1), rows[k])
<1> DEFINE a == SubSeq(rows, 1, k - 1)
           b == SubSeq(rows, 1, k)
           c == Append(a, rows[k])
<1>1. k \in Nat /\ k - 1 \in 0 .. Len(rows) /\ k \in 0 .. Len(rows) /\ rows[k] \in L
  OBVIOUS
<1>2. a \in Seq(L) /\ Len(a) = k - 1 /\ \A i \in 1 .. k - 1 : a[i] = rows[i]
  BY <1>1, FirstRows
<1>3. b \in Seq(L) /\ Len(b) = k /\ \A i \in 1 .. k : b[i] = rows[i]
  BY <1>1, FirstRows
<1> HIDE DEF a, b
<1>4. c \in Seq(L) /\ Len(c) = k /\ c[k] = rows[k] /\ \A i \in 1 .. k - 1 : c[i] = a[i]
  BY <1>1, <1>2
<1> HIDE DEF c
<1>5. \A i \in 1 .. k : b[i] = c[i]
  <2> SUFFICES ASSUME NEW i \in 1 .. k  PROVE b[i] = c[i]
    OBVIOUS
  <2>1. i = k \/ i \in 1 .. k - 1
    BY <1>1
  <2> QED  BY <1>2, <1>3, <1>4, <2>1
<1>6. b = c
  BY <1>1, <1>3, <1>4, <1>5
<1> QED  BY <1>6 DEF a, b, c

(* What is cut is the row that exceeds the limit and all that follow.      *)
CutRight(rows, cut) ==
  /\ IsPrefix(cut, rows) /\ Lengths(cut) <= MaxTotal
  /\ Lengths(cut) + rows[Len(cut) + 1].dur > MaxTotal

\* Cut does: what it keeps ends before the row that exceeds the limit.
LEMMA CutIs ==
  ASSUME NEW L, \A l \in L : l.dur \in Nat, NEW rows \in Seq(L), Lengths(rows) > MaxTotal
  PROVE  CutRight(rows, Cut(rows))
<1> DEFINE N == Len(rows)
           over == {j \in DOMAIN rows : Lengths(SubSeq(rows, 1, j)) > MaxTotal}
           m == Min(over)
           cut == SubSeq(rows, 1, m - 1)
<1>1. N \in Nat /\ DOMAIN rows = 1 .. N /\ MaxTotal \in Nat
  BY SelectionAssumption DEF SelectionAssumption
<1>2. N # 0
  <2> SUFFICES ASSUME N = 0  PROVE FALSE
    OBVIOUS
  <2>1. rows = <<>>
    OBVIOUS
  <2>2. Lengths(rows) = 0
    BY <2>1, LengthsOfNone
  <2> QED  BY <1>1, <2>2
<1>3. N \in over
  <2>1. SubSeq(rows, 1, N) = rows
    BY AllRows
  <2>2. N \in DOMAIN rows
    BY <1>1, <1>2
  <2> HIDE DEF N
  <2> QED  BY <2>1, <2>2
<1>4. m \in over /\ \A x \in over : m <= x
  <2>1. over \in SUBSET Nat /\ over # {}
    <3> HIDE DEF N
    <3> QED  BY <1>1, <1>3
  <2> HIDE DEF over
  <2> QED  BY <2>1, MinIs
<1>5. m \in 1 .. N /\ Lengths(SubSeq(rows, 1, m)) > MaxTotal
  <2> HIDE DEF m, N
  <2> QED  BY <1>1, <1>4
<1>6. m - 1 \notin over
  <2> HIDE DEF over, m, N
  <2>1. m \in Nat /\ ~ (m <= m - 1)
    BY <1>1, <1>5
  <2> QED  BY <1>4, <2>1
<1>7. Cut(rows) = cut
  BY <1>3 DEF Cut
<1> HIDE DEF m
<1>8. cut \in Seq(L) /\ Len(cut) = m - 1 /\ IsPrefix(cut, rows)
  <2>1. m - 1 \in 0 .. Len(rows)
    BY <1>1, <1>5
  <2> QED  BY <2>1, FirstRows
<1>9. Lengths(cut) \in Nat
  BY <1>8, LengthsIsNat
<1>10. Lengths(cut) <= MaxTotal
  <2>1. CASE m = 1
    <3>1. cut = <<>>
      BY <2>1
    <3>2. Lengths(cut) = 0
      BY <3>1, LengthsOfNone
    <3> QED  BY <1>1, <3>2
  <2>2. CASE m # 1
    <3>1. m - 1 \in DOMAIN rows
      BY <1>1, <1>5, <2>2
    <3>2. ~ (Lengths(cut) > MaxTotal)
      BY <1>6, <3>1
    <3> HIDE DEF cut
    <3> QED  BY <1>1, <1>9, <3>2
  <2> QED  BY <2>1, <2>2
<1>11. Lengths(cut) + rows[Len(cut) + 1].dur > MaxTotal
  <2>1. SubSeq(rows, 1, m) = Append(cut, rows[m])
    BY <1>5, OneRowMore
  <2>2. rows[m] \in L
    BY <1>5
  <2>3. Lengths(Append(cut, rows[m])) = Lengths(cut) + rows[m].dur
    BY <1>8, <2>2, LengthsOfAppend
  <2>4. Len(cut) + 1 = m
    BY <1>5, <1>8
  <2> HIDE DEF cut
  <2> QED  BY <1>5, <2>1, <2>3, <2>4
<1> HIDE DEF cut
<1> QED  BY <1>7, <1>8, <1>10, <1>11 DEF CutRight

(* The clips a voice is trained on.                                        *)
LEMMA EveryClipAccounted ==
  ASSUME NEW T, NEW lines \in Seq(ClipLines(T))
  PROVE  ClipsAccounted(lines, TrainVoice(lines))
<1> DEFINE u == FoldLeft(Take, Nothing, lines)
           r == TrainVoice(lines)
           L == ClipLines(T)
           N == Len(lines)
<1>1. u \in Selections(T) /\ SelectedFrom(lines, N, u)
  BY LoopSelects
<1>2. r.usable = u /\ r.rejected = (u.total < MinTotal)
      /\ r.rows = IF u.total < MinTotal THEN <<>> ELSE IF u.total > MaxTotal THEN Cut(u.rows) ELSE u.rows
  <2> HIDE DEF u
  <2> QED  BY DEF TrainVoice, u
<1>3. N \in Nat /\ DOMAIN lines = 1 .. N
  OBVIOUS
<1> HIDE DEF u, r, N
<1>4. /\ N = Len(u.rows) + Skips(u.skipped) /\ Distinct(u.rows) /\ u.seen = Texts(u.rows)
      /\ \A k \in 1 .. N : Good(lines[k]) => lines[k].text \in u.seen
      /\ ToSet(u.measured) \subseteq ToSet(u.rows) /\ (u.rows # <<>> => u.measured # <<>>)
      /\ u.cps = Len(u.rows) + u.skipped[Mismatch]
  BY <1>1 DEF SelectedFrom
<1>5. u.total = Lengths(u.rows) /\ u.rows \in Seq(L) /\ u.total \in Nat
  BY <1>1, SelectionIs DEF SelectedFrom
<1>6. \A l \in L : l.dur \in Nat
  BY DEF ClipLines
<1> HIDE DEF L
<1>7. MinTotal \in Nat /\ MaxTotal \in Nat
  BY SelectionAssumption DEF SelectionAssumption
<1>8. IsPrefix(r.rows, u.rows) /\ Lengths(r.rows) <= MaxTotal
  <2>1. CASE u.total < MinTotal
    <3>1. r.rows = <<>>
      BY <1>2, <2>1
    <3> QED  BY <1>5, <1>7, <3>1, LengthsOfNone, AllRows
  <2>2. CASE ~ (u.total < MinTotal) /\ u.total > MaxTotal
    <3>1. r.rows = Cut(u.rows)
      BY <1>2, <2>2
    <3> QED  BY <1>5, <1>6, <2>2, <3>1, CutIs DEF CutRight
  <2>3. CASE ~ (u.total < MinTotal) /\ ~ (u.total > MaxTotal)
    <3>1. r.rows = u.rows
      BY <1>2, <2>3
    <3>2. u.total <= MaxTotal
      BY <1>5, <1>7, <2>3
    <3> QED  BY <1>5, <3>1, <3>2, AllRows
  <2> QED  BY <2>1, <2>2, <2>3
<1>9. ~ r.rejected /\ r.rows # u.rows => Lengths(r.rows) + u.rows[Len(r.rows) + 1].dur > MaxTotal
  <2> SUFFICES ASSUME ~ (u.total < MinTotal), r.rows # u.rows
               PROVE  Lengths(r.rows) + u.rows[Len(r.rows) + 1].dur > MaxTotal
    BY <1>2
  <2>1. u.total > MaxTotal /\ r.rows = Cut(u.rows)
    BY <1>2
  <2> QED  BY <1>5, <1>6, <2>1, CutIs DEF CutRight
<1>10. r.rejected <=> Lengths(u.rows) < MinTotal
  BY <1>2, <1>5
<1>11. \A i \in DOMAIN lines : lines[i].text # NoText /\ lines[i].flaw = "" =>
         \E j \in DOMAIN u.rows : u.rows[j].text = lines[i].text
  <2> SUFFICES ASSUME NEW i \in DOMAIN lines, lines[i].text # NoText, lines[i].flaw = ""
               PROVE  \E j \in DOMAIN u.rows : u.rows[j].text = lines[i].text
    OBVIOUS
  <2>1. lines[i].text \in Texts(u.rows)
    BY <1>3, <1>4 DEF Good
  <2> QED  BY <2>1 DEF Texts
<1>12. N = Len(u.rows) + FoldFunction(LAMBDA a, b: a + b, 0, u.skipped)
  BY <1>4 DEF Skips
<1>13. \A i, j \in DOMAIN u.rows : u.rows[i].text = u.rows[j].text => i = j
  BY <1>4 DEF Distinct
<1> QED  BY <1>2, <1>4, <1>8, <1>9, <1>10, <1>11, <1>12, <1>13 DEF ClipsAccounted, r, N

-----------------------------------------------------------------------------
(* The computations, on the inputs a behaviour starts with.                *)

\* Copies of a pitch are in order.
LEMMA CopiesWithin == ASSUME NEW n \in Nat, NEW x \in Int PROVE Within(Copies(n, x), x, x)
<1>1. Copies(n, x) \in Seq(Int) /\ DOMAIN Copies(n, x) = 1 .. n /\ \A i \in 1 .. n : Copies(n, x)[i] = x
  BY DEF Copies
<1> QED  BY <1>1 DEF Within, Sorted

\* The pitches that are split are in order.
LEMMA PitchesSorted == ASSUME NEW v \in PitchSet PROVE v \in Seq(Int) /\ Sorted(v)
<1>1. PICK i \in {0, 2, 3, 4, 17}, j \in {0, 3}, k \in {0, 1, 5}, n \in {0, 2, 3, 14, 17} :
        v = Copies(i, 8) \o Copies(j, 11) \o Copies(k, 15) \o Copies(n, 18)
  <2> DEFINE A == {0, 2, 3, 4, 17}
             B == {0, 3}
             C == {0, 1, 5}
             D == {0, 2, 3, 14, 17}
  <2>1. v \in {Pitches(i, j, k, n) : i \in A, j \in B, k \in C, n \in D}
    BY DEF PitchSet
  <2> HIDE DEF A, B, C, D
  <2>2. \E i \in A, j \in B, k \in C, n \in D : v = Pitches(i, j, k, n)
    BY <2>1
  <2> QED  BY <2>2 DEF A, B, C, D, Pitches
<1>2. i \in Nat /\ j \in Nat /\ k \in Nat /\ n \in Nat
  OBVIOUS
<1>3. /\ Within(Copies(i, 8), 8, 8) /\ Within(Copies(j, 11), 11, 11)
      /\ Within(Copies(k, 15), 15, 15) /\ Within(Copies(n, 18), 18, 18)
  BY <1>2, CopiesWithin
<1> DEFINE a == Copies(i, 8)
           b == Copies(j, 11)
           c == Copies(k, 15)
           d == Copies(n, 18)
<1>4. Within(a, 8, 8) /\ Within(b, 11, 11) /\ Within(c, 15, 15) /\ Within(d, 18, 18) /\ v = a \o b \o c \o d
  BY <1>1, <1>3
<1> HIDE DEF a, b, c, d
<1>5. Within(a \o b, 8, 11)
  BY <1>4, WithinJoined
<1>6. Within(a \o b \o c, 8, 15)
  BY <1>4, <1>5, WithinJoined
<1>7. Within(a \o b \o c \o d, 8, 18)
  BY <1>4, <1>6, WithinJoined
<1> QED  BY <1>4, <1>7 DEF Within

\* The lines of a metadata.csv.
LEMMA LinesAre == ASSUME NEW lines \in SeqOf(LineSet, MaxLines) PROVE lines \in Seq(ClipLines({NoText, "x", "y"}))
<1>1. PICK m \in 0 .. MaxLines : lines \in [1 .. m -> LineSet]
  BY DEF SeqOf
<1>2. LineSet \subseteq ClipLines({NoText, "x", "y"})
  <2>1. {"", "clipped", Mismatch} \subseteq Flaws
    BY DEF Flaws, Unusable
  <2>2. {2, 3} \subseteq Nat
    OBVIOUS
  <2> QED  BY <2>1, <2>2 DEF LineSet, ClipLines
<1>3. m \in Nat /\ Len(lines) = m
  BY <1>1
<1> DEFINE L == ClipLines({NoText, "x", "y"})
<1> HIDE DEF L
<1>4. lines \in [1 .. m -> L]
  <2>1. LineSet \subseteq L
    BY <1>2 DEF L
  <2> QED  BY <1>1, <2>1
<1>5. lines \in Seq(L)
  BY <1>3, <1>4
<1> QED  BY <1>5 DEF L

\* The measurements that are gated.
LEMMA MeasuredAre ==
  ASSUME NEW m \in [snr : {0, 11, 12, 20}, band : {-36, -35, 0}, off : {0, 9, 29},
                    cv : {0, 27, 39}, apart : BOOLEAN,
                    split : {{}} \cup {{d} : d \in [gap : {449, 450, 600}, minor : {14, 15},
                                                   lo : {23, 24}, hi : {28, 29}]}]
  PROVE  m \in Measurements
<1>1. {{d} : d \in [gap : {449, 450, 600}, minor : {14, 15}, lo : {23, 24}, hi : {28, 29}]}
        \subseteq {{d} : d \in SplitRecords}
  BY DEF SplitRecords
<1>2. {0, 11, 12, 20} \subseteq Nat /\ {-36, -35, 0} \subseteq Int /\ {0, 9, 29} \subseteq Int /\ {0, 27, 39} \subseteq Int
  OBVIOUS
<1> QED  BY <1>1, <1>2 DEF Measurements

\* The tokens that arrive are verified alike.
LEMMA ArrivingRight ==
  ASSUME NEW t \in Tokens, NEW u \in Tokens, NEW a \in Arriving(t, u), NEW s \in Clocks
  PROVE  SameClaims(Tokens, a, s, Verdicts(a, s))
<1>1. \A m \in Tokens : \E id, uid : \E now \in Int : m = CreateSessionToken(id, uid, now)
  BY DEF Tokens
<1>2. s \in Nat
  BY TokenAssumption DEF TokenAssumption, Clocks
<1> QED  BY <1>1, <1>2, EveryTokenVerified

\* The inputs, and what is computed of them.
Inputs ==
  /\ task = "clips" => input \in Seq(ClipLines({NoText, "x", "y"}))
  /\ task = "split" => input \in Seq(Int) /\ Sorted(input)
  /\ task = "gates" => input \in Measurements
  /\ task = "token" => \E t, u \in Tokens : \E a \in Arriving(t, u), s \in Clocks : input = <<a, s>>
Outcomes ==
  /\ task = "clips" => result \in {<<>>, <<TrainVoice(input)>>}
  /\ task = "split" => result \in {<<>>, <<SplitDetails(input)>>}
  /\ task = "gates" => result \in {<<>>, <<Evaluate(input)>>}
  /\ task = "token" => result \in {<<>>, <<Verdicts(input[1], input[2])>>}

\* A behaviour starts with an input and no result.
LEMMA InputsAtFirst == Init => Inputs /\ Outcomes
<1> SUFFICES ASSUME Init  PROVE Inputs /\ Outcomes
  OBVIOUS
<1>1. AlgInit \/ (task = "none" /\ result = <<>>)
  BY DEF Init
<1>2. CASE task = "none" /\ result = <<>>
  BY <1>2 DEF Inputs, Outcomes
<1>3. CASE AlgInit
  <2>1. result = <<>>
    BY <1>3 DEF AlgInit
  <2>2. Outcomes
    BY <2>1 DEF Outcomes
  <2>3. task = "clips" => input \in SeqOf(LineSet, MaxLines)
    BY <1>3 DEF AlgInit
  <2>4. task = "split" => input \in PitchSet
    BY <1>3 DEF AlgInit
  <2>5. task = "gates" => input \in Measurements
    BY <1>3, MeasuredAre DEF AlgInit
  <2>6. task = "token" => \E t, u \in Tokens : \E a \in Arriving(t, u), s \in Clocks : input = <<a, s>>
    BY <1>3 DEF AlgInit
  <2> QED  BY <2>2, <2>3, <2>4, <2>5, <2>6, LinesAre, PitchesSorted DEF Inputs
<1> QED  BY <1>1, <1>2, <1>3

\* A step computes the result of the input.
LEMMA InputsKept == Inputs /\ Outcomes /\ [Next]_<<shop, algVars, cycleVars, gpuVars, houseVars>> => Inputs' /\ Outcomes'
<1> SUFFICES ASSUME Inputs, Outcomes, [Next]_<<shop, algVars, cycleVars, gpuVars, houseVars>>
             PROVE  Inputs' /\ Outcomes'
  OBVIOUS
<1>1. AlgNext \/ UNCHANGED algVars
  BY DEF Next, Algorithms, Research, Gpu, House, algVars
<1>2. task' = task /\ input' = input
  BY <1>1 DEF AlgNext, ComputeChunks, ComputeClause, ComputeSample, ComputeTokens, ComputeFit, ComputeSplit,
              ComputeGates, ComputeClips, ComputeToken, Compute, algVars
<1>3. Inputs'
  BY <1>2 DEF Inputs
<1>4. ASSUME UNCHANGED algVars  PROVE Outcomes'
  BY <1>4 DEF Outcomes, algVars
<1>5. ASSUME AlgNext  PROVE Outcomes'
  <2>1. CASE task = "clips"
    <3>1. ComputeClips
      BY <1>5, <2>1 DEF AlgNext, ComputeChunks, ComputeClause, ComputeSample, ComputeTokens, ComputeFit, ComputeSplit,
                        ComputeGates, ComputeToken, Compute
    <3> QED  BY <1>2, <2>1, <3>1 DEF ComputeClips, Compute, Outcomes
  <2>2. CASE task = "split"
    <3>1. ComputeSplit
      BY <1>5, <2>2 DEF AlgNext, ComputeChunks, ComputeClause, ComputeSample, ComputeTokens, ComputeFit, ComputeClips,
                        ComputeGates, ComputeToken, Compute
    <3> QED  BY <1>2, <2>2, <3>1 DEF ComputeSplit, Compute, Outcomes
  <2>3. CASE task = "gates"
    <3>1. ComputeGates
      BY <1>5, <2>3 DEF AlgNext, ComputeChunks, ComputeClause, ComputeSample, ComputeTokens, ComputeFit, ComputeClips,
                        ComputeSplit, ComputeToken, Compute
    <3> QED  BY <1>2, <2>3, <3>1 DEF ComputeGates, Compute, Outcomes
  <2>4. CASE task = "token"
    <3>1. ComputeToken
      BY <1>5, <2>4 DEF AlgNext, ComputeChunks, ComputeClause, ComputeSample, ComputeTokens, ComputeFit, ComputeClips,
                        ComputeSplit, ComputeGates, Compute
    <3> QED  BY <1>2, <2>4, <3>1 DEF ComputeToken, Compute, Outcomes
  <2>5. CASE task \notin {"clips", "split", "gates", "token"}
    BY <1>2, <2>5 DEF Outcomes
  <2> QED  BY <2>1, <2>2, <2>3, <2>4, <2>5
<1> QED  BY <1>1, <1>3, <1>4, <1>5

\* And what is computed is right, whatever the input.
LEMMA OutcomesRight == Inputs /\ Outcomes => DecisionsHold
<1> SUFFICES ASSUME Inputs, Outcomes  PROVE DecisionsHold
  OBVIOUS
<1>1. ASSUME Computed("clips")  PROVE ClipsAccounted(input, result[1])
  <2>1. result[1] = TrainVoice(input) /\ input \in Seq(ClipLines({NoText, "x", "y"}))
    BY <1>1 DEF Inputs, Outcomes, Computed
  <2> QED  BY <2>1, EveryClipAccounted
<1>2. ASSUME Computed("split")  PROVE SplitServes(input, result[1])
  <2>1. result[1] = SplitDetails(input) /\ input \in Seq(Int) /\ Sorted(input)
    BY <1>2 DEF Inputs, Outcomes, Computed
  <2> QED  BY <2>1, EverySplitServes
<1>3. ASSUME Computed("gates")  PROVE GateKeeps(input, result[1])
  <2>1. result[1] = Evaluate(input) /\ input \in Measurements
    BY <1>3 DEF Inputs, Outcomes, Computed
  <2> QED  BY <2>1, GatesKeep
<1>4. ASSUME Computed("token")  PROVE SameClaims(Tokens, input[1], input[2], result[1])
  <2>1. result[1] = Verdicts(input[1], input[2])
    BY <1>4 DEF Outcomes, Computed
  <2>2. PICK t \in Tokens, u \in Tokens : \E a \in Arriving(t, u), s \in Clocks : input = <<a, s>>
    BY <1>4 DEF Inputs, Computed
  <2>3. PICK a \in Arriving(t, u), s \in Clocks : input = <<a, s>>
    BY <2>2
  <2>4. input[1] = a /\ input[2] = s
    BY <2>3
  <2> QED  BY <2>1, <2>4, ArrivingRight
<1> QED  BY <1>1, <1>2, <1>3, <1>4 DEF DecisionsHold, ClipsHold, GatesHold, TokensVerify

\* Over the clips a voice is trained on, at the gates and in the seven functions that
\* accept a caller's token, what is decided is right: every line of an upload is used
\* or counted, the set is cut at its limit, two speakers are told from one, no gate
\* rewards worse data, every worker takes the live tokens and no others, and the
\* gateway those and what has parts behind one (train_job.py, gates.py, keys.js and
\* its six copies).
THEOREM DecisionsAreRight == Spec => []DecisionsHold
<1>1. Init => Inputs /\ Outcomes
  BY InputsAtFirst
<1>2. Inputs /\ Outcomes /\ [Next]_<<shop, algVars, cycleVars, gpuVars, houseVars>> => Inputs' /\ Outcomes'
  BY InputsKept
<1>3. Inputs /\ Outcomes => DecisionsHold
  BY OutcomesRight
<1> QED  BY <1>1, <1>2, <1>3, PTL DEF Spec
=============================================================================
