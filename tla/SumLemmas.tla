------------------------------- MODULE SumLemmas -------------------------------
(***************************************************************************)
(* What a sum over a finite set does when the set gets one more element or *)
(* one value changes.  SumFunctionOnSet picks the elements one after the   *)
(* other by CHOOSE; here it is shown that their order does not matter.     *)
(***************************************************************************)
EXTENDS Integers, FiniteSets, Functions, FiniteSetTheorems, WellFoundedInduction, TLAPS

First(s) == CHOOSE x \in s : TRUE

\* The recursion by which SumFunctionOnSet is defined.
Recurses(g, f, D) ==
  g = [s \in D |-> IF s = {} THEN 0 ELSE f[First(s)] + g[s \ {First(s)}]]

--------------------
\* Induction over the natural numbers, for a set of them.
LEMMA NatSets ==
  ASSUME NEW P \in SUBSET Nat, 0 \in P, \A n \in P : n + 1 \in P
  PROVE  P = Nat
<1> DEFINE less == OpToRel(<, Nat)
           bad == Nat \ P
<1> SUFFICES ASSUME bad # {} PROVE FALSE OBVIOUS
<1>1. \E m \in bad : \A k \in bad : <<k, m>> \notin less
  <2>1. IsWellFoundedOn(less, Nat) BY NatLessThanWellFounded
  <2> HIDE DEF less
  <2> QED BY <2>1, WFMin
<1>2. PICK m \in bad : \A k \in bad : <<k, m>> \notin less BY <1>1
<1>3. m \in Nat /\ m # 0 /\ m - 1 \in Nat OBVIOUS
<1>4. m - 1 \in bad BY <1>3
<1>5. <<m - 1, m>> \in less BY <1>3 DEF OpToRel
<1> QED BY <1>2, <1>4, <1>5

LEMMA FirstIsIn == ASSUME NEW s, s # {} PROVE First(s) \in s
BY DEF First

\* Taking an element away.
LEMMA OneLess ==
  ASSUME NEW s, IsFiniteSet(s), NEW x \in s
  PROVE  /\ IsFiniteSet(s \ {x}) /\ Cardinality(s) \in Nat \ {0}
         /\ Cardinality(s \ {x}) = Cardinality(s) - 1
BY FS_CardinalityType, FS_RemoveElement, FS_EmptySet

LEMMA SumIsFold ==
  ASSUME NEW f, NEW S
  PROVE  SumFunctionOnSet(f, S) = (CHOOSE g : Recurses(g, f, SUBSET S))[S]
BY DEF SumFunctionOnSet, FoldFunctionOnSet, MapThenFoldSet, Recurses, First

\* There is a function with that recursion.
LEMMA RecursionExists ==
  ASSUME NEW f, NEW S, IsFiniteSet(S)
  PROVE  \E g : Recurses(g, f, SUBSET S)
<1> DEFINE upTo(n) == {s \in SUBSET S : Cardinality(s) <= n}
           P == {n \in Nat : \E g : Recurses(g, f, upTo(n))}
<1>1. \A s \in SUBSET S : IsFiniteSet(s) /\ Cardinality(s) \in Nat
                          /\ Cardinality(s) <= Cardinality(S)
  BY FS_Subset, FS_CardinalityType
<1>2. 0 \in P
  <2>1. \A s \in upTo(0) : s = {} BY <1>1, FS_EmptySet
  <2>2. Recurses([s \in upTo(0) |-> 0], f, upTo(0)) BY <2>1, Zenon DEF Recurses
  <2> QED BY <2>2
<1>3. ASSUME NEW n \in P PROVE n + 1 \in P
  <2>1. PICK g : Recurses(g, f, upTo(n)) OBVIOUS
  <2> DEFINE h == [s \in upTo(n + 1) |-> IF s = {} THEN 0 ELSE f[First(s)] + g[s \ {First(s)}]]
  <2>2. \A s \in upTo(n + 1) : s # {} => s \ {First(s)} \in upTo(n) BY <1>1, OneLess, FirstIsIn
  <2>3. \A s \in upTo(n) : s \in upTo(n + 1) /\ g[s] = h[s]
    <3>1. \A s \in upTo(n) : g[s] = IF s = {} THEN 0 ELSE f[First(s)] + g[s \ {First(s)}]
      BY <2>1, Zenon DEF Recurses
    <3>2. \A s \in upTo(n) : s \in upTo(n + 1) BY <1>1
    <3> QED BY <3>1, <3>2, Zenon
  <2>4. Recurses(h, f, upTo(n + 1))
    <3>1. \A s \in upTo(n + 1) :
            (IF s = {} THEN 0 ELSE f[First(s)] + g[s \ {First(s)}])
              = (IF s = {} THEN 0 ELSE f[First(s)] + h[s \ {First(s)}])
      BY <2>2, <2>3, Zenon
    <3> HIDE DEF upTo
    <3>2. h = [s \in upTo(n + 1) |-> IF s = {} THEN 0 ELSE f[First(s)] + h[s \ {First(s)}]]
      BY <3>1, Zenon
    <3> QED BY <3>2, Zenon DEF Recurses
  <2> HIDE DEF h, upTo
  <2> QED BY <2>4
<1> HIDE DEF P
<1>4. P = Nat
  <2>1. P \in SUBSET Nat BY DEF P
  <2> QED BY <1>2, <1>3, <2>1, NatSets
<1>5. Cardinality(S) \in P BY <1>1, <1>4
<1>6. upTo(Cardinality(S)) = SUBSET S BY <1>1
<1> QED BY <1>5, <1>6 DEF P

\* It has one value on every set, whatever set the recursion started with.
LEMMA RecursionAgrees ==
  ASSUME NEW f, NEW S, NEW T \in SUBSET S, NEW g, NEW h,
         IsFiniteSet(S), Recurses(g, f, SUBSET S), Recurses(h, f, SUBSET T)
  PROVE  g[T] = h[T]
<1> DEFINE P == {n \in Nat : \A s \in SUBSET T : Cardinality(s) = n => g[s] = h[s]}
<1>1. \A s \in SUBSET T : IsFiniteSet(s) /\ Cardinality(s) \in Nat /\ s \in SUBSET S
  BY FS_Subset, FS_CardinalityType
<1>2. /\ \A s \in SUBSET T : g[s] = IF s = {} THEN 0 ELSE f[First(s)] + g[s \ {First(s)}]
      /\ \A s \in SUBSET T : h[s] = IF s = {} THEN 0 ELSE f[First(s)] + h[s \ {First(s)}]
  BY <1>1, Zenon DEF Recurses
<1>3. 0 \in P
  <2>1. \A s \in SUBSET T : Cardinality(s) = 0 => s = {} BY <1>1, FS_EmptySet
  <2> QED BY <1>2, <2>1
<1>4. ASSUME NEW n \in P PROVE n + 1 \in P
  <2> SUFFICES ASSUME NEW s \in SUBSET T, Cardinality(s) = n + 1 PROVE g[s] = h[s] OBVIOUS
  <2>0. n \in Nat OBVIOUS
  <2>1. s # {}
    <3> HIDE DEF P
    <3> QED BY <1>1, <2>0, FS_EmptySet
  <2>2. First(s) \in s /\ s \ {First(s)} \in SUBSET T BY <2>1, FirstIsIn
  <2>4. Cardinality(s \ {First(s)}) = n BY <1>1, <2>1, <2>2, OneLess
  <2>3. g[s \ {First(s)}] = h[s \ {First(s)}] BY <2>2, <2>4
  <2> QED BY <1>2, <2>1, <2>3
<1> HIDE DEF P
<1>5. P = Nat
  <2>1. P \in SUBSET Nat BY DEF P
  <2> QED BY <1>3, <1>4, <2>1, NatSets
<1> QED BY <1>1, <1>5 DEF P

\* A sum over a finite set is that of one element and of the others.
LEMMA SumUnfolds ==
  ASSUME NEW f, NEW S, IsFiniteSet(S)
  PROVE  /\ S = {} => SumFunctionOnSet(f, S) = 0
         /\ S # {} => SumFunctionOnSet(f, S)
                        = f[First(S)] + SumFunctionOnSet(f, S \ {First(S)})
<1> DEFINE T == S \ {First(S)}
<1>1. PICK g : Recurses(g, f, SUBSET S) /\ SumFunctionOnSet(f, S) = g[S]
  BY RecursionExists, SumIsFold
<1>2. PICK h : Recurses(h, f, SUBSET T) /\ SumFunctionOnSet(f, T) = h[T]
  <2>1. IsFiniteSet(T) BY FS_Subset
  <2> HIDE DEF T
  <2> QED BY <2>1, RecursionExists, SumIsFold
<1>3. T \in SUBSET S OBVIOUS
<1>4. g[S] = IF S = {} THEN 0 ELSE f[First(S)] + g[T] BY <1>1, Zenon DEF Recurses
<1>5. g[T] = h[T]
  <2> HIDE DEF T
  <2> QED BY <1>1, <1>2, <1>3, RecursionAgrees
<1> QED BY <1>1, <1>2, <1>4, <1>5

\* The order in which the elements are taken does not matter.
LEMMA SumAdds ==
  ASSUME NEW f, NEW S, NEW x, IsFiniteSet(S), x \notin S, \A y \in S \cup {x} : f[y] \in Int
  PROVE  /\ SumFunctionOnSet(f, S) \in Int
         /\ SumFunctionOnSet(f, S \cup {x}) = f[x] + SumFunctionOnSet(f, S)
<1> DEFINE U == S \cup {x}
           sum(s) == SumFunctionOnSet(f, s)
           adds(n) == \A s \in SUBSET U : Cardinality(s) = n =>
                        /\ sum(s) \in Int
                        /\ \A y \in U \ s : sum(s \cup {y}) = f[y] + sum(s)
           P == {n \in Nat : adds(n)}
<1>1. \A s \in SUBSET U : IsFiniteSet(s) /\ Cardinality(s) \in Nat
  BY FS_AddElement, FS_Subset, FS_CardinalityType
<1>2. /\ \A s \in SUBSET U : s = {} => sum(s) = 0
      /\ \A s \in SUBSET U : s # {} => /\ First(s) \in s
                                       /\ sum(s) = f[First(s)] + sum(s \ {First(s)})
  BY <1>1, SumUnfolds, FirstIsIn
<1>3. \A y \in U : f[y] \in Int OBVIOUS
<1> HIDE DEF U, sum
<1>4. \A y \in U : sum({y}) = f[y] /\ sum({}) = 0
  <2> TAKE y \in U
  <2>1. {y} # {} /\ {y} \in SUBSET U /\ {} \in SUBSET U OBVIOUS
  <2>2. First({y}) = y BY <2>1, FirstIsIn
  <2>3. sum({y}) = f[y] + sum({y} \ {y}) /\ sum({}) = 0 BY <1>2, <2>1, <2>2
  <2>4. {y} \ {y} = {} OBVIOUS
  <2>5. sum({y}) = f[y] + 0 BY <2>3, <2>4
  <2> QED BY <1>3, <2>3, <2>5
<1>5. 0 \in P
  <2> SUFFICES ASSUME NEW s \in SUBSET U, Cardinality(s) = 0
               PROVE  sum(s) \in Int /\ \A y \in U \ s : sum(s \cup {y}) = f[y] + sum(s)
    OBVIOUS
  <2>1. s = {} BY <1>1, FS_EmptySet
  <2>2. \A y \in U : s \cup {y} = {y} BY <2>1
  <2> QED BY <1>2, <1>3, <1>4, <2>1, <2>2
<1>6. ASSUME NEW n \in P PROVE n + 1 \in P
  <2>0. n \in Nat /\ adds(n) OBVIOUS
  <2> SUFFICES ASSUME NEW s \in SUBSET U, Cardinality(s) = n + 1
               PROVE  sum(s) \in Int /\ \A y \in U \ s : sum(s \cup {y}) = f[y] + sum(s)
    BY <2>0
  <2> HIDE DEF P
  <2>1. s # {} BY <1>1, <2>0, FS_EmptySet
  <2> DEFINE z == First(s)
             r == s \ {z}
  <2>2. z \in s /\ sum(s) = f[z] + sum(r) BY <1>2, <2>1
  <2>3. r \in SUBSET U /\ Cardinality(r) = n BY <1>1, <2>0, <2>2, OneLess
  <2>4. sum(r) \in Int /\ f[z] \in Int BY <1>3, <2>0, <2>2, <2>3
  <2> HIDE DEF z
  <2>5. ASSUME NEW y \in U \ s PROVE sum(s \cup {y}) = f[y] + sum(s)
    <3> DEFINE t == s \cup {y}
               w == First(t)
    <3>1. w \in t /\ sum(t) = f[w] + sum(t \ {w}) /\ t \in SUBSET U BY <1>2
    <3>2. CASE w = y
      <4>1. t \ {w} = s BY <3>2
      <4> QED BY <3>1, <3>2, <4>1
    <3>3. CASE w # y
      <4> DEFINE v == s \ {w}
      <4>0. w \in s /\ v \in SUBSET U /\ y \in U \ v /\ w \in U \ v BY <3>1, <3>3
      <4>1. w \in s /\ v \in SUBSET U /\ Cardinality(v) = n /\ y \in U \ v /\ w \in U \ v
        <5> HIDE DEF w
        <5> QED BY <1>1, <2>0, <4>0, OneLess
      <4>2. t \ {w} = v \cup {y} /\ s = v \cup {w} BY <3>3, <4>1
      <4>3. /\ sum(v) \in Int /\ sum(v \cup {y}) = f[y] + sum(v)
            /\ sum(v \cup {w}) = f[w] + sum(v)
        <5> HIDE DEF w, v
        <5> QED BY <2>0, <4>1
      <4>4. f[w] \in Int /\ f[y] \in Int BY <1>3, <4>1
      <4> HIDE DEF w, v
      <4>5. sum(t) = f[w] + sum(v \cup {y}) /\ sum(s) = sum(v \cup {w}) BY <3>1, <4>2
      <4> QED BY <4>3, <4>4, <4>5
    <3> QED BY <3>2, <3>3
  <2>6. sum(s) \in Int
    <3> HIDE DEF r
    <3> QED BY <2>2, <2>4
  <2> QED BY <2>5, <2>6
<1>7. P = Nat
  <2>1. P \in SUBSET Nat OBVIOUS
  <2> HIDE DEF P
  <2> QED BY <1>5, <1>6, <2>1, NatSets
<1>8. S \in SUBSET U /\ x \in U \ S /\ Cardinality(S) \in P BY <1>1, <1>7 DEF U
<1> QED BY <1>8 DEF sum, U

LEMMA SumOfNone == ASSUME NEW f PROVE SumFunctionOnSet(f, {}) = 0
BY SumUnfolds, FS_EmptySet

\* Only the values on the set count.
LEMMA SumAgrees ==
  ASSUME NEW f, NEW g, NEW S, IsFiniteSet(S), \A y \in S : f[y] \in Int /\ g[y] = f[y]
  PROVE  SumFunctionOnSet(f, S) = SumFunctionOnSet(g, S)
<1> DEFINE same(s) == SumFunctionOnSet(f, s) = SumFunctionOnSet(g, s)
           P == {n \in Nat : \A s \in SUBSET S : Cardinality(s) = n => same(s)}
<1>1. \A s \in SUBSET S : IsFiniteSet(s) /\ Cardinality(s) \in Nat BY FS_Subset, FS_CardinalityType
<1>2. 0 \in P
  <2>1. \A s \in SUBSET S : Cardinality(s) = 0 => s = {} BY <1>1, FS_EmptySet
  <2> QED BY <2>1, SumOfNone
<1>3. ASSUME NEW n \in P PROVE n + 1 \in P
  <2>0. n \in Nat /\ \A s \in SUBSET S : Cardinality(s) = n => same(s) OBVIOUS
  <2> SUFFICES ASSUME NEW s \in SUBSET S, Cardinality(s) = n + 1 PROVE same(s) BY <2>0
  <2> HIDE DEF P
  <2> DEFINE z == First(s)
  <2>1. z \in s BY <1>1, <2>0, FS_EmptySet, FirstIsIn
  <2> HIDE DEF z
  <2>2. s \ {z} \in SUBSET S /\ Cardinality(s \ {z}) = n BY <1>1, <2>0, <2>1, OneLess
  <2>3. same(s \ {z}) BY <2>0, <2>2
  <2>4. SumFunctionOnSet(f, s) = f[z] + SumFunctionOnSet(f, s \ {z})
        /\ SumFunctionOnSet(g, s) = g[z] + SumFunctionOnSet(g, s \ {z})
    BY <1>1, <2>1, SumUnfolds DEF z
  <2> QED BY <2>1, <2>3, <2>4
<1>4. P = Nat
  <2>1. P \in SUBSET Nat OBVIOUS
  <2> HIDE DEF P
  <2> QED BY <1>2, <1>3, <2>1, NatSets
<1> QED BY <1>1, <1>4

\* A sum is not below another if none of its terms is.
LEMMA SumBounds ==
  ASSUME NEW f, NEW g, NEW S, IsFiniteSet(S),
         \A y \in S : f[y] \in Int /\ g[y] \in Int /\ g[y] <= f[y]
  PROVE  /\ SumFunctionOnSet(f, S) \in Int /\ SumFunctionOnSet(g, S) \in Int
         /\ SumFunctionOnSet(g, S) <= SumFunctionOnSet(f, S)
<1> DEFINE below(s) == /\ SumFunctionOnSet(f, s) \in Int /\ SumFunctionOnSet(g, s) \in Int
                       /\ SumFunctionOnSet(g, s) <= SumFunctionOnSet(f, s)
           P == {n \in Nat : \A s \in SUBSET S : Cardinality(s) = n => below(s)}
<1>1. \A s \in SUBSET S : IsFiniteSet(s) /\ Cardinality(s) \in Nat BY FS_Subset, FS_CardinalityType
<1>2. 0 \in P
  <2>1. \A s \in SUBSET S : Cardinality(s) = 0 => s = {} BY <1>1, FS_EmptySet
  <2> QED BY <2>1, SumOfNone
<1>3. ASSUME NEW n \in P PROVE n + 1 \in P
  <2>0. n \in Nat /\ \A s \in SUBSET S : Cardinality(s) = n => below(s) OBVIOUS
  <2> SUFFICES ASSUME NEW s \in SUBSET S, Cardinality(s) = n + 1 PROVE below(s) BY <2>0
  <2> HIDE DEF P
  <2> DEFINE z == First(s)
  <2>1. z \in s BY <1>1, <2>0, FS_EmptySet, FirstIsIn
  <2> HIDE DEF z
  <2>2. s \ {z} \in SUBSET S /\ Cardinality(s \ {z}) = n BY <1>1, <2>0, <2>1, OneLess
  <2>3. below(s \ {z}) BY <2>0, <2>2
  <2>4. SumFunctionOnSet(f, s) = f[z] + SumFunctionOnSet(f, s \ {z})
        /\ SumFunctionOnSet(g, s) = g[z] + SumFunctionOnSet(g, s \ {z})
    BY <1>1, <2>1, SumUnfolds DEF z
  <2> QED BY <2>1, <2>3, <2>4
<1>4. P = Nat
  <2>1. P \in SUBSET Nat OBVIOUS
  <2> HIDE DEF P
  <2> QED BY <1>2, <1>3, <2>1, NatSets
<1> QED BY <1>1, <1>4

LEMMA SumIsInt ==
  ASSUME NEW f, NEW S, IsFiniteSet(S), \A y \in S : f[y] \in Int
  PROVE  SumFunctionOnSet(f, S) \in Int
BY SumBounds

\* Two sets without a common element.
LEMMA SumOfUnion ==
  ASSUME NEW f, NEW A, NEW B, IsFiniteSet(A), IsFiniteSet(B), A \cap B = {},
         \A y \in A \cup B : f[y] \in Int
  PROVE  SumFunctionOnSet(f, A \cup B) = SumFunctionOnSet(f, A) + SumFunctionOnSet(f, B)
<1> DEFINE sum(s) == SumFunctionOnSet(f, s)
           joins(s) == sum(A \cup s) = sum(A) + sum(s)
           P == {n \in Nat : \A s \in SUBSET B : Cardinality(s) = n => joins(s)}
<1>1. \A s \in SUBSET B : IsFiniteSet(s) /\ Cardinality(s) \in Nat /\ IsFiniteSet(A \cup s)
                          /\ \A y \in A \cup s : f[y] \in Int
  BY FS_Subset, FS_CardinalityType, FS_Union
<1>2. \A s \in SUBSET B : sum(s) \in Int /\ sum(A \cup s) \in Int BY <1>1, SumIsInt
<1>3. sum(A) \in Int BY SumIsInt
<1>4. 0 \in P
  <2>1. \A s \in SUBSET B : Cardinality(s) = 0 => s = {} BY <1>1, FS_EmptySet
  <2>2. sum({}) = 0 /\ A \cup {} = A BY SumOfNone
  <2>3. joins({}) BY <1>3, <2>2
  <2> QED BY <2>1, <2>3
<1>5. ASSUME NEW n \in P PROVE n + 1 \in P
  <2>0. n \in Nat /\ \A s \in SUBSET B : Cardinality(s) = n => joins(s) OBVIOUS
  <2> SUFFICES ASSUME NEW s \in SUBSET B, Cardinality(s) = n + 1 PROVE joins(s) BY <2>0
  <2> HIDE DEF P
  <2>1. PICK z \in s : TRUE BY <1>1, <2>0, FS_EmptySet
  <2> DEFINE r == s \ {z}
  <2>10. IsFiniteSet(s) BY <1>1
  <2>7. r \in SUBSET B /\ Cardinality(r) = n BY <2>0, <2>1, <2>10, OneLess
  <2>2. r \in SUBSET B /\ joins(r)
    <3> HIDE DEF r, joins
    <3> QED BY <2>0, <2>7
  <2>3. z \notin r /\ r \cup {z} = s /\ z \notin A \cup r /\ (A \cup r) \cup {z} = A \cup s BY <2>1
  <2> HIDE DEF r
  <2>4. f[z] \in Int /\ sum(r) \in Int /\ sum(A \cup r) \in Int BY <1>1, <1>2, <2>1, <2>2
  <2>5. sum(r \cup {z}) = f[z] + sum(r) BY <1>1, <2>2, <2>3, <2>4, SumAdds
  <2>6. sum((A \cup r) \cup {z}) = f[z] + sum(A \cup r) BY <1>1, <2>2, <2>3, <2>4, SumAdds
  <2>8. sum(s) = f[z] + sum(r) /\ sum(A \cup s) = f[z] + sum(A \cup r) BY <2>3, <2>5, <2>6
  <2>9. sum(A \cup r) = sum(A) + sum(r) BY <2>2
  <2> HIDE DEF sum
  <2> QED BY <1>3, <2>4, <2>8, <2>9
<1>6. P = Nat
  <2>1. P \in SUBSET Nat OBVIOUS
  <2> HIDE DEF P
  <2> QED BY <1>4, <1>5, <2>1, NatSets
<1> QED BY <1>1, <1>6

\* G maps each key of K to the elements of I that h gives that key, and J is
\* what these groups hold together.
Groups(G, h, I, K, J) ==
  /\ \A k \in K : G[k] = {i \in I : h[i] = k}
  /\ J = {i \in I : h[i] \in K}

\* The sum of the sums of groups is the sum over all their members.
LEMMA SumOfGroups ==
  ASSUME NEW f, NEW F, NEW I, NEW K, NEW h, NEW G, NEW J, IsFiniteSet(I), IsFiniteSet(K),
         \A i \in I : f[i] \in Int,
         Groups(G, h, I, K, J), \A k \in K : F[k] = SumFunctionOnSet(f, G[k])
  PROVE  SumFunctionOnSet(F, K) = SumFunctionOnSet(f, J)
<1> DEFINE group(s) == {i \in I : h[i] \in s}
           sums(s) == SumFunctionOnSet(F, s) = SumFunctionOnSet(f, group(s))
           P == {n \in Nat : \A s \in SUBSET K : Cardinality(s) = n => sums(s)}
<1>1. /\ \A s \in SUBSET K : IsFiniteSet(s) /\ Cardinality(s) \in Nat
      /\ \A s : IsFiniteSet(group(s)) /\ \A i \in group(s) : f[i] \in Int
  BY FS_Subset, FS_CardinalityType
<1>2. \A k \in K : F[k] = SumFunctionOnSet(f, group({k})) /\ F[k] \in Int
  <2> TAKE k \in K
  <2>1. group({k}) = G[k] BY DEF Groups
  <2> HIDE DEF group
  <2>2. F[k] = SumFunctionOnSet(f, group({k})) BY <2>1
  <2> QED BY <1>1, <2>2, SumIsInt
<1>3. 0 \in P
  <2>1. \A s \in SUBSET K : Cardinality(s) = 0 => s = {} BY <1>1, FS_EmptySet
  <2>2. group({}) = {} OBVIOUS
  <2>3. sums({}) BY <2>2, SumOfNone
  <2> QED BY <2>1, <2>3
<1>4. ASSUME NEW n \in P PROVE n + 1 \in P
  <2>0. n \in Nat /\ \A s \in SUBSET K : Cardinality(s) = n => sums(s) OBVIOUS
  <2> SUFFICES ASSUME NEW s \in SUBSET K, Cardinality(s) = n + 1 PROVE sums(s) BY <2>0
  <2> HIDE DEF P
  <2>1. PICK z \in s : TRUE BY <1>1, <2>0, FS_EmptySet
  <2> DEFINE r == s \ {z}
  <2>7. r \in SUBSET K /\ Cardinality(r) = n
    <3>1. IsFiniteSet(s) /\ r \in SUBSET K BY <1>1
    <3>2. Cardinality(r) = Cardinality(s) - 1 BY <2>1, <3>1, OneLess
    <3> QED BY <2>0, <3>1, <3>2
  <2>2. r \in SUBSET K /\ sums(r)
    <3> HIDE DEF r, sums
    <3> QED BY <2>0, <2>7, Zenon
  <2>3. z \notin r /\ r \cup {z} = s /\ group(s) = group(r) \cup group({z})
        /\ group(r) \cap group({z}) = {}
    BY <2>1
  <2> HIDE DEF r, group
  <2>4. SumFunctionOnSet(F, r \cup {z}) = F[z] + SumFunctionOnSet(F, r)
        /\ SumFunctionOnSet(F, r) \in Int
    <3>1. IsFiniteSet(r) /\ \A y \in r \cup {z} : F[y] \in Int BY <1>1, <1>2, <2>1, <2>2
    <3> QED BY <2>3, <3>1, SumAdds
  <2>5. SumFunctionOnSet(f, group(r) \cup group({z}))
          = SumFunctionOnSet(f, group(r)) + SumFunctionOnSet(f, group({z}))
    <3>1. /\ IsFiniteSet(group(r)) /\ IsFiniteSet(group({z}))
          /\ \A y \in group(r) \cup group({z}) : f[y] \in Int
      BY <1>1
    <3> QED BY <2>3, <3>1, SumOfUnion
  <2>6. SumFunctionOnSet(F, s) = F[z] + SumFunctionOnSet(F, r) BY <2>3, <2>4
  <2>8. SumFunctionOnSet(f, group(s)) = SumFunctionOnSet(f, group(r)) + F[z]
    BY <1>2, <2>1, <2>3, <2>5
  <2>9. SumFunctionOnSet(F, r) = SumFunctionOnSet(f, group(r)) /\ F[z] \in Int BY <1>2, <2>1, <2>2
  <2> QED BY <2>4, <2>6, <2>8, <2>9
<1>5. P = Nat
  <2>1. P \in SUBSET Nat OBVIOUS
  <2> HIDE DEF P
  <2> QED BY <1>3, <1>4, <2>1, NatSets
<1>6. group(K) = J BY DEF Groups
<1>7. sums(K)
  <2> HIDE DEF sums
  <2> QED BY <1>1, <1>5
<1> HIDE DEF group
<1> QED BY <1>6, <1>7

\* A sum of nothing but zeros.
LEMMA SumOfZeros ==
  ASSUME NEW f, NEW S, IsFiniteSet(S), \A y \in S : f[y] = 0
  PROVE  SumFunctionOnSet(f, S) = 0
<1> DEFINE P == {n \in Nat : \A s \in SUBSET S : Cardinality(s) = n => SumFunctionOnSet(f, s) = 0}
<1>1. \A s \in SUBSET S : IsFiniteSet(s) /\ Cardinality(s) \in Nat BY FS_Subset, FS_CardinalityType
<1>2. 0 \in P
  <2>1. \A s \in SUBSET S : Cardinality(s) = 0 => s = {} BY <1>1, FS_EmptySet
  <2> QED BY <2>1, SumOfNone
<1>3. ASSUME NEW n \in P PROVE n + 1 \in P
  <2>0. n \in Nat /\ \A s \in SUBSET S : Cardinality(s) = n => SumFunctionOnSet(f, s) = 0 OBVIOUS
  <2> SUFFICES ASSUME NEW s \in SUBSET S, Cardinality(s) = n + 1 PROVE SumFunctionOnSet(f, s) = 0
    BY <2>0
  <2> HIDE DEF P
  <2> DEFINE z == First(s)
  <2>1. z \in s BY <1>1, <2>0, FS_EmptySet, FirstIsIn
  <2>2. SumFunctionOnSet(f, s) = f[z] + SumFunctionOnSet(f, s \ {z}) BY <1>1, <2>1, SumUnfolds
  <2> HIDE DEF z
  <2>3. s \ {z} \in SUBSET S /\ Cardinality(s \ {z}) = n BY <1>1, <2>0, <2>1, OneLess
  <2> QED BY <2>0, <2>1, <2>2, <2>3
<1>4. P = Nat
  <2>1. P \in SUBSET Nat OBVIOUS
  <2> HIDE DEF P
  <2> QED BY <1>2, <1>3, <2>1, NatSets
<1> QED BY <1>1, <1>4

=============================================================================
