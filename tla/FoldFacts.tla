------------------------------ MODULE FoldFacts ------------------------------
(***************************************************************************)
(* Induction, and what it shows of sums over finite sets and of folds.     *)
(* The induction theorems of the library are about an operator, so that    *)
(* what is used here is that the numbers below a number are well-founded:  *)
(* a set of numbers has a least one.                                       *)
(***************************************************************************)
EXTENDS Integers, Sequences, FiniteSetsExt, FiniteSetTheorems, WellFoundedInduction, TLAPS

Less == {p \in Nat \X Nat : p[1] < p[2]}

\* The order of the numbers is well-founded.
LEMMA LessIsWellFounded == IsWellFoundedOn(Less, Nat)
BY NatLessThanWellFounded, Zenon DEF OpToRel, Less

\* A set of numbers that is not empty has a least one.
LEMMA LeastNumber ==
  ASSUME NEW T \in SUBSET Nat, T # {}
  PROVE  \E m \in T : \A n \in T : m <= n
<1>1. \E m \in T : \A n \in T : <<n, m>> \notin Less
  BY LessIsWellFounded, WFMin
<1>2. ASSUME NEW m \in T, NEW n \in T, <<n, m>> \notin Less  PROVE m <= n
  <2>1. <<n, m>> \in Nat \X Nat /\ <<n, m>>[1] = n /\ <<n, m>>[2] = m
    OBVIOUS
  <2> QED  BY <1>2, <2>1 DEF Less
<1> QED  BY <1>1, <1>2

\* A set of numbers that has 0 and the successor of each of its members has all.
LEMMA AllNumbers ==
  ASSUME NEW T, 0 \in T, \A n \in Nat : n \in T => n + 1 \in T
  PROVE  Nat \subseteq T
<1> SUFFICES ASSUME Nat \ T # {}  PROVE FALSE
  OBVIOUS
<1>1. PICK m \in Nat \ T : \A n \in Nat \ T : m <= n
  BY LeastNumber
<1> QED  BY <1>1, m - 1 \in Nat, (m - 1) + 1 = m

\* Among subsets of a finite set there is one no proper subset of which is among them.
LEMMA LeastSubset ==
  ASSUME NEW D, IsFiniteSet(D), NEW B \in SUBSET SUBSET D, B # {}
  PROVE  \E T \in B : \A U \in SUBSET T : U # T => U \notin B
<1> DEFINE Sizes == {Cardinality(s) : s \in B}
<1>1. \A s \in SUBSET D : IsFiniteSet(s) /\ Cardinality(s) \in Nat
  BY FS_Subset, FS_CardinalityType
<1>2. Sizes \in SUBSET Nat /\ Sizes # {}
  BY <1>1
<1>3. PICK m \in Sizes : \A n \in Sizes : m <= n
  <2> HIDE DEF Sizes
  <2> QED  BY <1>2, LeastNumber
<1>4. PICK T \in B : Cardinality(T) = m
  OBVIOUS
<1>5. ASSUME NEW U \in SUBSET T, U # T  PROVE U \notin B
  <2>1. Cardinality(U) < Cardinality(T)
    BY <1>1, <1>5, FS_Subset
  <2> QED  BY <1>1, <1>2, <1>3, <1>4, <2>1
<1> QED  BY <1>5

-----------------------------------------------------------------------------
\* One equation of the sum: of a set from the sum of the set without one member.
Pick(s) == CHOOSE x \in s : TRUE
Step(h, g, s) == IF s = {} THEN 0 ELSE h[Pick(s)] + g[s \ {Pick(s)}]
Adds(h, g, D) == g = [s \in SUBSET D |-> Step(h, g, s)]

\* What SumFunctionOnSet chooses.
LEMMA SumIsChosen ==
  ASSUME NEW h, NEW S
  PROVE  SumFunctionOnSet(h, S) = (CHOOSE g : Adds(h, g, S))[S]
BY DEF SumFunctionOnSet, FoldFunctionOnSet, MapThenFoldSet, Adds, Step, Pick

LEMMA PickIsMember ==
  ASSUME NEW s, s # {}
  PROVE  Pick(s) \in s
BY DEF Pick

\* The equations have a solution on the subsets of a finite set.
LEMMA SumExists ==
  ASSUME NEW h, NEW D, IsFiniteSet(D)
  PROVE  \E g : Adds(h, g, D)
<1> DEFINE Upto(g, n) == \A s \in SUBSET D : Cardinality(s) <= n => g[s] = Step(h, g, s)
           Good == {n \in Nat : \E g : Upto(g, n)}
<1>0. \A s \in SUBSET D : /\ IsFiniteSet(s) /\ Cardinality(s) \in Nat
                          /\ Cardinality(s) <= Cardinality(D)
                          /\ Cardinality(s) = 0 <=> s = {}
  BY FS_Subset, FS_CardinalityType, FS_EmptySet
<1>1. 0 \in Good
  <2>1. Upto([s \in SUBSET D |-> 0], 0)
    BY <1>0 DEF Step
  <2> QED  BY <2>1
<1>2. ASSUME NEW n \in Nat, n \in Good  PROVE n + 1 \in Good
  <2>1. PICK g : Upto(g, n)
    BY <1>2
  <2> DEFINE g2 == [s \in SUBSET D |-> IF Cardinality(s) <= n THEN g[s] ELSE Step(h, g, s)]
  <2>2. ASSUME NEW s \in SUBSET D, Cardinality(s) <= n + 1  PROVE g2[s] = Step(h, g2, s)
    <3>1. g2[s] = Step(h, g, s)
      BY <2>1
    <3>2. CASE s = {}
      BY <3>1, <3>2 DEF Step
    <3>3. CASE s # {}
      <4>1. /\ s \ {Pick(s)} \in SUBSET D
            /\ Cardinality(s \ {Pick(s)}) = Cardinality(s) - 1
        BY <1>0, <3>3, PickIsMember, FS_RemoveElement
      <4>2. g2[s \ {Pick(s)}] = g[s \ {Pick(s)}]
        BY <1>0, <2>2, <4>1
      <4> QED  BY <3>1, <3>3, <4>2 DEF Step
    <3> QED  BY <3>2, <3>3
  <2>3. Upto(g2, n + 1)
    BY <2>2
  <2> HIDE DEF g2
  <2> QED  BY <2>3
<1>3. Cardinality(D) \in Good
  <2> HIDE DEF Good
  <2> QED  BY <1>0, <1>1, <1>2, AllNumbers
<1>4. PICK g : Upto(g, Cardinality(D))
  BY <1>3
<1>5. Adds(h, [s \in SUBSET D |-> g[s]], D)
  <2>1. ASSUME NEW s \in SUBSET D  PROVE Step(h, [u \in SUBSET D |-> g[u]], s) = g[s]
    BY <1>0, <1>4 DEF Step
  <2> QED  BY <2>1 DEF Adds
<1> QED  BY <1>5

\* SumFunctionOnSet solves the equations.
LEMMA SumAdds ==
  ASSUME NEW h, NEW S, IsFiniteSet(S)
  PROVE  \E g : Adds(h, g, S) /\ SumFunctionOnSet(h, S) = g[S]
BY SumExists, SumIsChosen

\* Solutions for functions that agree agree.
LEMMA SumsAgree ==
  ASSUME NEW h1, NEW h2, NEW g1, NEW g2, NEW D1, NEW D2, NEW S, IsFiniteSet(S),
         Adds(h1, g1, D1), Adds(h2, g2, D2), S \subseteq D1, S \subseteq D2,
         \A x \in S : h1[x] = h2[x]
  PROVE  g1[S] = g2[S]
<1> DEFINE B == {s \in SUBSET S : g1[s] # g2[s]}
<1> SUFFICES ASSUME B # {}  PROVE FALSE
  OBVIOUS
<1>1. PICK T \in B : \A U \in SUBSET T : U # T => U \notin B
  <2>1. B \in SUBSET SUBSET S
    OBVIOUS
  <2> HIDE DEF B
  <2> QED  BY <2>1, LeastSubset
<1>2. T \in SUBSET D1 /\ T \in SUBSET D2 /\ T \in SUBSET S
  OBVIOUS
<1>3. g1[T] = Step(h1, g1, T) /\ g2[T] = Step(h2, g2, T)
  BY <1>2 DEF Adds
<1>4. CASE T = {}
  BY <1>3, <1>4 DEF Step
<1>5. CASE T # {}
  <2>1. Pick(T) \in T
    BY <1>5, PickIsMember
  <2>2. g1[T \ {Pick(T)}] = g2[T \ {Pick(T)}]
    BY <1>1, <2>1
  <2>3. h1[Pick(T)] = h2[Pick(T)]
    BY <1>2, <2>1
  <2> QED  BY <1>3, <1>5, <2>2, <2>3 DEF Step
<1> QED  BY <1>4, <1>5

\* The sum of nothing is 0.
LEMMA SumOfNone ==
  ASSUME NEW h
  PROVE  SumFunctionOnSet(h, {}) = 0
<1>1. PICK g : Adds(h, g, {}) /\ SumFunctionOnSet(h, {}) = g[{}]
  BY SumAdds, FS_EmptySet
<1> QED  BY <1>1 DEF Adds, Step

\* The sum of a set from the sum without the member that is chosen first.
LEMMA SumFirst ==
  ASSUME NEW h, NEW S, IsFiniteSet(S), S # {}
  PROVE  SumFunctionOnSet(h, S) = h[Pick(S)] + SumFunctionOnSet(h, S \ {Pick(S)})
<1>1. Pick(S) \in S /\ IsFiniteSet(S \ {Pick(S)})
  BY PickIsMember, FS_RemoveElement
<1>2. PICK g : Adds(h, g, S) /\ SumFunctionOnSet(h, S) = g[S]
  BY SumAdds
<1>3. PICK g2 : Adds(h, g2, S \ {Pick(S)})
                /\ SumFunctionOnSet(h, S \ {Pick(S)}) = g2[S \ {Pick(S)}]
  BY <1>1, SumAdds
<1>4. g[S \ {Pick(S)}] = g2[S \ {Pick(S)}]
  <2> DEFINE T == S \ {Pick(S)}
  <2>1. T \subseteq S /\ T \subseteq T /\ IsFiniteSet(T) /\ \A x \in T : h[x] = h[x]
    BY <1>1
  <2>2. Adds(h, g, S) /\ Adds(h, g2, T)
    BY <1>2, <1>3
  <2> HIDE DEF T
  <2>3. g[T] = g2[T]
    BY <2>1, <2>2, SumsAgree
  <2> QED  BY <2>3 DEF T
<1>5. g[S] = h[Pick(S)] + g[S \ {Pick(S)}]
  BY <1>2 DEF Adds, Step
<1> QED  BY <1>2, <1>3, <1>4, <1>5

\* Only the values on the set matter.
LEMMA SumSame ==
  ASSUME NEW h1, NEW h2, NEW S, IsFiniteSet(S), \A x \in S : h1[x] = h2[x]
  PROVE  SumFunctionOnSet(h1, S) = SumFunctionOnSet(h2, S)
<1>1. PICK g1 : Adds(h1, g1, S) /\ SumFunctionOnSet(h1, S) = g1[S]
  BY SumAdds
<1>2. PICK g2 : Adds(h2, g2, S) /\ SumFunctionOnSet(h2, S) = g2[S]
  BY SumAdds
<1>3. Adds(h1, g1, S) /\ Adds(h2, g2, S) /\ S \subseteq S /\ \A x \in S : h1[x] = h2[x]
  BY <1>1, <1>2
<1>4. g1[S] = g2[S]
  <2> DEFINE Agree(D1, D2) ==
        /\ Adds(h1, g1, D1) /\ Adds(h2, g2, D2) /\ S \subseteq D1 /\ S \subseteq D2
        => g1[S] = g2[S]
  <2>1. \A D1, D2 : Agree(D1, D2)
    BY SumsAgree
  <2> QED  BY <1>3, <2>1
<1> QED  BY <1>1, <1>2, <1>4

\* A sum of numbers is a number.
LEMMA SumIsNat ==
  ASSUME NEW h, NEW S, IsFiniteSet(S), \A x \in S : h[x] \in Nat
  PROVE  SumFunctionOnSet(h, S) \in Nat
<1> DEFINE B == {s \in SUBSET S : SumFunctionOnSet(h, s) \notin Nat}
<1> SUFFICES ASSUME B # {}  PROVE FALSE
  OBVIOUS
<1>1. PICK T \in B : \A U \in SUBSET T : U # T => U \notin B
  <2>1. B \in SUBSET SUBSET S
    OBVIOUS
  <2> HIDE DEF B
  <2> QED  BY <2>1, LeastSubset
<1>2. IsFiniteSet(T) /\ T \subseteq S
  BY FS_Subset
<1>3. CASE T = {}
  BY <1>3, SumOfNone
<1>4. CASE T # {}
  <2>1. Pick(T) \in T
    BY <1>4, PickIsMember
  <2>2. SumFunctionOnSet(h, T \ {Pick(T)}) \in Nat
    BY <1>1, <1>2, <2>1
  <2> QED  BY <1>2, <1>4, <2>1, <2>2, SumFirst
<1> QED  BY <1>3, <1>4

\* Where no summand is larger, no sum is.
LEMMA SumGrows ==
  ASSUME NEW h1, NEW h2, NEW S, IsFiniteSet(S),
         \A x \in S : h1[x] \in Nat /\ h2[x] \in Nat /\ h1[x] <= h2[x]
  PROVE  SumFunctionOnSet(h1, S) <= SumFunctionOnSet(h2, S)
<1> DEFINE B == {s \in SUBSET S : ~ (SumFunctionOnSet(h1, s) <= SumFunctionOnSet(h2, s))}
<1> SUFFICES ASSUME B # {}  PROVE FALSE
  OBVIOUS
<1>1. PICK T \in B : \A U \in SUBSET T : U # T => U \notin B
  <2>1. B \in SUBSET SUBSET S
    OBVIOUS
  <2> HIDE DEF B
  <2> QED  BY <2>1, LeastSubset
<1>2. IsFiniteSet(T) /\ T \subseteq S
  BY FS_Subset
<1>3. CASE T = {}
  BY <1>3, SumOfNone
<1>4. CASE T # {}
  <2> DEFINE U == T \ {Pick(T)}
  <2>1. Pick(T) \in T
    BY <1>4, PickIsMember
  <2>2. SumFunctionOnSet(h1, U) <= SumFunctionOnSet(h2, U)
    BY <1>1, <1>2, <2>1
  <2>3. SumFunctionOnSet(h1, U) \in Nat /\ SumFunctionOnSet(h2, U) \in Nat
    <3>1. IsFiniteSet(U) /\ U \subseteq S
      BY <1>2, FS_Subset
    <3> HIDE DEF U
    <3> QED  BY <3>1, SumIsNat
  <2>4. /\ SumFunctionOnSet(h1, T) = h1[Pick(T)] + SumFunctionOnSet(h1, U)
        /\ SumFunctionOnSet(h2, T) = h2[Pick(T)] + SumFunctionOnSet(h2, U)
    BY <1>2, <1>4, SumFirst
  <2> HIDE DEF U
  <2>5. SumFunctionOnSet(h1, T) <= SumFunctionOnSet(h2, T)
    BY <1>2, <2>1, <2>2, <2>3, <2>4
  <2> QED  BY <2>5
<1> QED  BY <1>3, <1>4

\* The sum does not depend on which member is taken first.
LEMMA SumWithout ==
  ASSUME NEW h, NEW S, IsFiniteSet(S), \A x \in S : h[x] \in Nat, NEW x \in S
  PROVE  SumFunctionOnSet(h, S) = h[x] + SumFunctionOnSet(h, S \ {x})
<1> DEFINE B == {s \in SUBSET S : \E y \in s : SumFunctionOnSet(h, s) # h[y] + SumFunctionOnSet(h, s \ {y})}
<1> SUFFICES ASSUME B # {}  PROVE FALSE
  OBVIOUS
<1>1. PICK T \in B : \A U \in SUBSET T : U # T => U \notin B
  <2>1. B \in SUBSET SUBSET S
    OBVIOUS
  <2> HIDE DEF B
  <2> QED  BY <2>1, LeastSubset
<1>2. T \subseteq S /\ IsFiniteSet(T)
  BY FS_Subset
<1>3. PICK y \in T : SumFunctionOnSet(h, T) # h[y] + SumFunctionOnSet(h, T \ {y})
  OBVIOUS
<1> DEFINE z == Pick(T)
<1>4. z \in T /\ SumFunctionOnSet(h, T) = h[z] + SumFunctionOnSet(h, T \ {z})
  BY <1>2, <1>3, PickIsMember, SumFirst
<1>5. z # y
  BY <1>3, <1>4
<1>6. SumFunctionOnSet(h, T \ {z}) = h[y] + SumFunctionOnSet(h, (T \ {z}) \ {y})
  <2>1. T \ {z} \in SUBSET T /\ T \ {z} # T /\ y \in T \ {z}
    BY <1>3, <1>4, <1>5
  <2> HIDE DEF z
  <2> QED  BY <1>1, <1>2, <2>1
<1>7. SumFunctionOnSet(h, T \ {y}) = h[z] + SumFunctionOnSet(h, (T \ {y}) \ {z})
  <2>1. T \ {y} \in SUBSET T /\ T \ {y} # T /\ z \in T \ {y}
    BY <1>3, <1>4, <1>5
  <2> HIDE DEF z
  <2> QED  BY <1>1, <1>2, <2>1
<1>8. (T \ {z}) \ {y} = (T \ {y}) \ {z}
  OBVIOUS
<1>9. /\ SumFunctionOnSet(h, (T \ {z}) \ {y}) \in Nat
      /\ h[y] \in Nat /\ h[z] \in Nat
  <2>1. IsFiniteSet((T \ {z}) \ {y}) /\ (T \ {z}) \ {y} \subseteq S
    BY <1>2, FS_Subset
  <2> HIDE DEF z
  <2> QED  BY <1>2, <1>4, <2>1, SumIsNat
<1> HIDE DEF z
<1> QED  BY <1>3, <1>4, <1>6, <1>7, <1>8, <1>9

\* A member more or less.
LEMMA SumAdded ==
  ASSUME NEW h, NEW S, IsFiniteSet(S), NEW x, x \notin S, \A y \in S \cup {x} : h[y] \in Nat
  PROVE  SumFunctionOnSet(h, S \cup {x}) = h[x] + SumFunctionOnSet(h, S)
<1>1. IsFiniteSet(S \cup {x}) /\ (S \cup {x}) \ {x} = S
  BY FS_AddElement
<1> QED  BY <1>1, SumWithout

\* The sum over a part of a set is the sum over the set of what belongs to the part.
LEMMA SumOfPart ==
  ASSUME NEW h, NEW S, IsFiniteSet(S), NEW T \in SUBSET S, \A x \in S : h[x] \in Nat
  PROVE  SumFunctionOnSet(h, T)
           = SumFunctionOnSet([x \in S |-> IF x \in T THEN h[x] ELSE 0], S)
<1> DEFINE g == [x \in S |-> IF x \in T THEN h[x] ELSE 0]
           B == {s \in SUBSET S : SumFunctionOnSet(h, s \cap T) # SumFunctionOnSet(g, s)}
<1>0. SUFFICES ASSUME B # {}  PROVE FALSE
  <2>1. S \cap T = T /\ S \in SUBSET S
    OBVIOUS
  <2> HIDE DEF g
  <2>2. SumFunctionOnSet(h, S \cap T) = SumFunctionOnSet(g, S)
    BY <1>0
  <2> QED  BY <2>1, <2>2 DEF g
<1>1. PICK U \in B : \A V \in SUBSET U : V # U => V \notin B
  <2>1. B \in SUBSET SUBSET S
    OBVIOUS
  <2> HIDE DEF B
  <2> QED  BY <1>0, <2>1, LeastSubset
<1>2. U \subseteq S /\ IsFiniteSet(U) /\ IsFiniteSet(U \cap T)
  BY FS_Subset
<1>g. \A x \in S : g[x] = IF x \in T THEN h[x] ELSE 0
  OBVIOUS
<1>n. \A x \in S : g[x] \in Nat
  BY <1>g
<1>u. SumFunctionOnSet(h, U \cap T) # SumFunctionOnSet(g, U)
  OBVIOUS
<1>s. \A V \in SUBSET S : V \notin B => SumFunctionOnSet(h, V \cap T) = SumFunctionOnSet(g, V)
  OBVIOUS
<1> HIDE DEF g, B
<1>3. CASE U = {}
  <2>1. U \cap T = {}
    BY <1>3
  <2> QED  BY <1>3, <1>u, <2>1, SumOfNone
<1>4. CASE U # {}
  <2>1. PICK x \in U : TRUE
    BY <1>4
  <2> DEFINE V == U \ {x}
  <2>2. V \in SUBSET U /\ V # U /\ V \in SUBSET S
    BY <1>2, <2>1
  <2>3. SumFunctionOnSet(h, V \cap T) = SumFunctionOnSet(g, V)
    BY <1>1, <1>s, <2>2
  <2>4. SumFunctionOnSet(g, U) = g[x] + SumFunctionOnSet(g, V)
    <3>1. \A y \in U : g[y] \in Nat
      BY <1>2, <1>n
    <3> QED  BY <1>2, <2>1, <3>1, SumWithout
  <2>5. SumFunctionOnSet(g, V) \in Nat
    <3>1. IsFiniteSet(V) /\ \A y \in V : g[y] \in Nat
      BY <1>2, <1>n, <2>2, FS_Subset
    <3> QED  BY <3>1, SumIsNat
  <2>6. CASE x \in T
    <3>1. (U \cap T) \ {x} = V \cap T /\ x \in U \cap T
      BY <2>1, <2>6
    <3>2. \A y \in U \cap T : h[y] \in Nat
      BY <1>2
    <3>3. SumFunctionOnSet(h, U \cap T) = h[x] + SumFunctionOnSet(h, V \cap T)
      <4> HIDE DEF V
      <4> QED  BY <1>2, <3>1, <3>2, SumWithout
    <3>4. g[x] = h[x]
      BY <1>g, <1>2, <2>1, <2>6
    <3> QED  BY <1>u, <2>3, <2>4, <3>3, <3>4
  <2>7. CASE x \notin T
    <3>1. U \cap T = V \cap T
      BY <2>7
    <3>2. g[x] = 0
      BY <1>g, <1>2, <2>1, <2>7
    <3>3. SumFunctionOnSet(g, U) = SumFunctionOnSet(g, V)
      BY <2>4, <2>5, <3>2
    <3>4. SumFunctionOnSet(h, U \cap T) = SumFunctionOnSet(g, U)
      BY <2>3, <3>1, <3>3
    <3> QED  BY <1>u, <3>4
  <2> QED  BY <2>6, <2>7
<1> QED  BY <1>3, <1>4

\* A change of one value changes the sum by as much.
LEMMA SumChanged ==
  ASSUME NEW h1, NEW h2, NEW S, IsFiniteSet(S), NEW x \in S,
         \A y \in S : h1[y] \in Nat /\ h2[y] \in Nat, \A y \in S \ {x} : h1[y] = h2[y]
  PROVE  SumFunctionOnSet(h1, S) + h2[x] = SumFunctionOnSet(h2, S) + h1[x]
<1>1. IsFiniteSet(S \ {x})
  BY FS_RemoveElement
<1>2. SumFunctionOnSet(h1, S \ {x}) = SumFunctionOnSet(h2, S \ {x})
  BY <1>1, SumSame
<1>3. /\ SumFunctionOnSet(h1, S) = h1[x] + SumFunctionOnSet(h1, S \ {x})
      /\ SumFunctionOnSet(h2, S) = h2[x] + SumFunctionOnSet(h2, S \ {x})
  BY SumWithout
<1>4. SumFunctionOnSet(h1, S \ {x}) \in Nat
  BY <1>1, SumIsNat
<1> QED  BY <1>2, <1>3, <1>4

-----------------------------------------------------------------------------
(* Folds over sequences.  FoldLeft takes the last element first, Max of    *)
(* the indices that are left; what it chooses is a function on the sets of *)
(* indices, which exists by induction and is used on 1 .. i only.          *)

\* A set of indices that is not empty has a greatest one, which Max is.
LEMMA MaxOfIndices ==
  ASSUME NEW n \in Nat, NEW s \in SUBSET (1 .. n), s # {}
  PROVE  Max(s) \in s /\ \A x \in s : x <= Max(s)
<1> DEFINE T == {n - x : x \in s}
<1>1. T \in SUBSET Nat /\ T # {}
  OBVIOUS
<1>2. PICK m \in T : \A k \in T : m <= k
  <2> HIDE DEF T
  <2> QED  BY <1>1, LeastNumber
<1>3. PICK y \in s : m = n - y
  BY <1>2
<1>4. ASSUME NEW x \in s  PROVE y >= x
  <2>1. n - y <= n - x
    BY <1>2, <1>3
  <2> QED  BY <2>1
<1>5. \E z \in s : \A x \in s : z >= x
  BY <1>4
<1>6. Max(s) \in s /\ \A x \in s : Max(s) >= x
  BY <1>5 DEF Max
<1> QED  BY <1>6

LEMMA MaxOfFirst ==
  ASSUME NEW i \in Nat \ {0}
  PROVE  Max(1 .. i) = i /\ (1 .. i) \ {i} = 1 .. i - 1
<1>1. 1 .. i # {} /\ i \in 1 .. i
  OBVIOUS
<1>2. Max(1 .. i) \in 1 .. i /\ i <= Max(1 .. i)
  BY <1>1, MaxOfIndices
<1> QED  BY <1>2

\* g takes the elements of a set one by one, the one that top names last.
Folds(g, f, base, D, e, top) ==
  \A s \in SUBSET D : g[s] = IF s = {} THEN base ELSE f[<<g[s \ {top[s]}], e[top[s]]>>]

\* There is such a function.
LEMMA FoldExists ==
  ASSUME NEW V, NEW E, NEW f \in [V \X E -> V], NEW base \in V,
         NEW D, IsFiniteSet(D), NEW e \in [D -> E],
         NEW top, \A s \in SUBSET D : s # {} => top[s] \in s
  PROVE  \E g \in [SUBSET D -> V] : Folds(g, f, base, D, e, top)
<1> DEFINE Next(g, s) == IF s = {} THEN base ELSE f[<<g[s \ {top[s]}], e[top[s]]>>]
           Upto(g, n) == \A s \in SUBSET D : Cardinality(s) <= n => g[s] = Next(g, s)
           Good == {n \in Nat : \E g \in [SUBSET D -> V] : Upto(g, n)}
<1>0. \A s \in SUBSET D : /\ IsFiniteSet(s) /\ Cardinality(s) \in Nat
                          /\ Cardinality(s) <= Cardinality(D)
                          /\ Cardinality(s) = 0 <=> s = {}
  BY FS_Subset, FS_CardinalityType, FS_EmptySet
<1>00. \A s \in SUBSET D : s # {} =>
         /\ s \ {top[s]} \in SUBSET D /\ top[s] \in D
         /\ Cardinality(s \ {top[s]}) = Cardinality(s) - 1
  <2> SUFFICES ASSUME NEW s \in SUBSET D, s # {}
               PROVE  Cardinality(s \ {top[s]}) = Cardinality(s) - 1 /\ top[s] \in D
    OBVIOUS
  <2>1. top[s] \in s /\ IsFiniteSet(s)
    BY <1>0
  <2> QED  BY <2>1, FS_RemoveElement
<1>n. ASSUME NEW g \in [SUBSET D -> V], NEW s \in SUBSET D  PROVE Next(g, s) \in V
  <2>1. CASE s = {}
    BY <2>1
  <2>2. CASE s # {}
    <3>1. g[s \ {top[s]}] \in V /\ e[top[s]] \in E
      BY <1>00, <2>2
    <3>2. <<g[s \ {top[s]}], e[top[s]]>> \in V \X E
      BY <3>1
    <3> QED  BY <2>2, <3>2
  <2> QED  BY <2>1, <2>2
<1>1. 0 \in Good
  <2> DEFINE g0 == [s \in SUBSET D |-> base]
  <2>1. g0 \in [SUBSET D -> V] /\ Upto(g0, 0)
    BY <1>0
  <2> HIDE DEF g0
  <2> QED  BY <2>1
<1>2. ASSUME NEW n \in Nat, n \in Good  PROVE n + 1 \in Good
  <2>1. PICK g \in [SUBSET D -> V] : Upto(g, n)
    BY <1>2
  <2> DEFINE g2 == [s \in SUBSET D |-> IF Cardinality(s) <= n THEN g[s] ELSE Next(g, s)]
  <2>0. g2 \in [SUBSET D -> V]
    <3> HIDE DEF Next
    <3> QED  BY <1>n
  <2>2. ASSUME NEW s \in SUBSET D, Cardinality(s) <= n + 1  PROVE g2[s] = Next(g2, s)
    <3>1. g2[s] = Next(g, s)
      <4> HIDE DEF Next
      <4> QED  BY <2>1
    <3>2. CASE s = {}
      BY <3>1, <3>2
    <3>3. CASE s # {}
      <4>1. g2[s \ {top[s]}] = g[s \ {top[s]}]
        <5>1. s \ {top[s]} \in SUBSET D /\ Cardinality(s \ {top[s]}) <= n
          BY <1>0, <1>00, <2>2, <3>3
        <5> HIDE DEF Next
        <5> QED  BY <5>1
      <4> HIDE DEF g2
      <4> QED  BY <3>1, <3>3, <4>1
    <3> QED  BY <3>2, <3>3
  <2>3. Upto(g2, n + 1)
    <3> HIDE DEF g2, Next
    <3> QED  BY <2>2
  <2> HIDE DEF g2, Upto
  <2> QED  BY <2>0, <2>3
<1>3. Cardinality(D) \in Good
  <2> HIDE DEF Good
  <2> QED  BY <1>0, <1>1, <1>2, AllNumbers
<1>4. PICK g \in [SUBSET D -> V] : Upto(g, Cardinality(D))
  BY <1>3
<1> QED  BY <1>0, <1>4 DEF Folds

\* What holds at first and is kept by each element holds at the end.
LEMMA TraceInduction ==
  ASSUME NEW n \in Nat, NEW G, 0 \in G, \A i \in 1 .. n : i - 1 \in G => i \in G
  PROVE  n \in G
<1> DEFINE T == {k \in Nat : k <= n => k \in G}
<1>1. 0 \in T
  OBVIOUS
<1>2. ASSUME NEW k \in Nat, k \in T  PROVE k + 1 \in T
  <2>1. CASE k + 1 <= n
    <3>1. k + 1 \in 1 .. n /\ (k + 1) - 1 = k /\ k <= n
      BY <2>1
    <3> QED  BY <1>2, <3>1
  <2>2. CASE ~ (k + 1 <= n)
    BY <2>2
  <2> QED  BY <2>1, <2>2
<1>3. n \in T
  <2> HIDE DEF T
  <2> QED  BY <1>1, <1>2, AllNumbers
<1> QED  BY <1>3

\* g is the recursive function of a fold over a sequence.
Solves(g, V, E, f, base, seq) ==
  /\ g = [s \in SUBSET (1 .. Len(seq)) |-> g[s]]
  /\ g[{}] = base
  /\ \A s \in SUBSET (1 .. Len(seq)) : s # {} =>
       /\ g[s \ {Max(s)}] \in V /\ seq[Max(s)] \in E
       /\ g[s] = f[<<g[s \ {Max(s)}], seq[Max(s)]>>]

LEMMA FoldSolved ==
  ASSUME NEW V, NEW E, NEW f \in [V \X E -> V], NEW base \in V, NEW seq \in Seq(E)
  PROVE  \E g : Solves(g, V, E, f, base, seq)
<1> DEFINE N == Len(seq)
           D == 1 .. N
           top == [s \in SUBSET D |-> Max(s)]
<1>1. N \in Nat /\ seq \in [D -> E]
  OBVIOUS
<1>2. IsFiniteSet(D)
  <2> HIDE DEF N
  <2> QED  BY <1>1, FS_Interval
<1>3. \A s \in SUBSET D : s # {} => top[s] = Max(s) /\ Max(s) \in s
  <2>1. \A s \in SUBSET D : top[s] = Max(s)
    OBVIOUS
  <2>2. \A s \in SUBSET D : s # {} => Max(s) \in s
    <3> HIDE DEF N
    <3> QED  BY <1>1, MaxOfIndices
  <2> HIDE DEF top
  <2> QED  BY <2>1, <2>2
<1>4. PICK g \in [SUBSET D -> V] : Folds(g, f, base, D, seq, top)
  <2>1. \A s \in SUBSET D : s # {} => top[s] \in s
    BY <1>3
  <2> HIDE DEF D, top
  <2> QED  BY <1>1, <1>2, <2>1, FoldExists
<1>5. ASSUME NEW s \in SUBSET D, s # {}
      PROVE  /\ g[s \ {Max(s)}] \in V /\ seq[Max(s)] \in E
             /\ g[s] = f[<<g[s \ {Max(s)}], seq[Max(s)]>>]
  <2>1. Max(s) \in D /\ s \ {Max(s)} \in SUBSET D /\ top[s] = Max(s)
    BY <1>3, <1>5
  <2> HIDE DEF D, top
  <2> QED  BY <1>1, <1>4, <1>5, <2>1 DEF Folds
<1>6. g[{}] = base
  <2>1. {} \in SUBSET D
    OBVIOUS
  <2> HIDE DEF D, top
  <2> QED  BY <1>4, <2>1 DEF Folds
<1>7. g = [s \in SUBSET D |-> g[s]]
  BY <1>4
<1> QED  BY <1>5, <1>6, <1>7 DEF Solves

\* The first elements, one more at a time.
LEMMA FirstElements ==
  ASSUME NEW n \in Nat, NEW i \in 1 .. n
  PROVE  /\ 1 .. i \in SUBSET (1 .. n) /\ 1 .. i # {}
         /\ Max(1 .. i) = i /\ (1 .. i) \ {i} = 1 .. i - 1
<1>1. i \in Nat \ {0} /\ i <= n /\ i \in 1 .. i
  OBVIOUS
<1>2. \A j \in 1 .. i : j \in 1 .. n
  BY <1>1
<1> QED  BY <1>1, <1>2, MaxOfFirst
=============================================================================
