----------------------- MODULE CrossLayerWindowProofs -----------------------
(* Proofs about CrossLayerWindow, for any ranks, buckets, bounds and setups:   *)
(* what the window reports of the counters, the histogram, its quantiles and   *)
(* the energy, and that a trial without a fault lacks no evidence.  First the  *)
(* lemmas on finite sets, sums, windows of samples and quantiles, then what a  *)
(* scrape and a poll read, the inductive invariant, and the properties.        *)
EXTENDS CrossLayerWindow, FiniteSetTheorems, WellFoundedInduction, TLAPS

(* Finite sets *)

LEMMA SmallestOf ==
  ASSUME NEW S, S \subseteq Nat, S # {}
  PROVE  \E n \in S : \A m \in S : n <= m
<1> DEFINE R == {ss \in Nat \X Nat : ss[1] < ss[2]}
<1>1. IsWellFoundedOn(R, Nat)
  BY NatLessThanWellFounded DEF OpToRel
<1> HIDE DEF R
<1>2. PICK n \in S : \A m \in S : ~(<<m, n>> \in R)
  BY <1>1, WFMin
<1>3. ASSUME NEW m \in S, m < n PROVE <<m, n>> \in R
  <2>1. <<m, n>> \in Nat \X Nat /\ <<m, n>>[1] = m /\ <<m, n>>[2] = n
    OBVIOUS
  <2> QED
    BY <1>3, <2>1 DEF R
<1>4. \A m \in S : ~(m < n)
  BY <1>2, <1>3
<1>5. n \in Nat /\ \A m \in S : m \in Nat
  OBVIOUS
<1>6. \A m \in S : n <= m
  BY <1>4, <1>5
<1> QED
  BY <1>6

\* Of some subsets of a finite set, one has no other of them inside it.
LEMMA SmallestSubset ==
  ASSUME NEW S, IsFiniteSet(S), NEW P, P \subseteq SUBSET S, P # {}
  PROVE  \E U \in P : \A V \in P : V \subseteq U => V = U
<1> DEFINE N == {Cardinality(U) : U \in P}
<1>1. \A U \in P : IsFiniteSet(U) /\ Cardinality(U) \in Nat
  BY FS_Subset, FS_CardinalityType
<1>2. N \subseteq Nat /\ N # {}
  BY <1>1
<1>3. PICK n \in N : \A m \in N : n <= m
  BY <1>2, SmallestOf
<1>4. PICK U \in P : Cardinality(U) = n
  OBVIOUS
<1>5. ASSUME NEW V \in P, V \subseteq U PROVE V = U
  <2>1. Cardinality(U) <= Cardinality(V)
    BY <1>3, <1>4
  <2>2. Cardinality(V) <= Cardinality(U) /\ (Cardinality(V) = Cardinality(U) => V = U)
    BY <1>1, <1>5, FS_Subset
  <2> QED
    BY <1>1, <2>1, <2>2
<1> QED
  BY <1>5

LEMMA FiniteInduction ==
  ASSUME NEW S, IsFiniteSet(S), NEW T, {} \in T,
         \A U \in SUBSET S : \A x \in S \ U : U \in T => U \cup {x} \in T
  PROVE  S \in T
<1> SUFFICES ASSUME S \notin T PROVE FALSE
  OBVIOUS
<1> DEFINE P == {U \in SUBSET S : U \notin T}
<1>1. PICK U \in P : \A V \in P : V \subseteq U => V = U
  <2>1. P \subseteq SUBSET S /\ P # {}
    OBVIOUS
  <2> HIDE DEF P
  <2> QED
    BY <2>1, SmallestSubset
<1>2. PICK x \in U : x \in S
  OBVIOUS
<1>3. U \ {x} \notin P
  BY <1>1, <1>2
<1>4. U \ {x} \in T /\ U \ {x} \in SUBSET S /\ x \in S \ (U \ {x})
  BY <1>2, <1>3
<1>5. (U \ {x}) \cup {x} = U
  BY <1>2
<1> QED
  BY <1>4, <1>5

LEMMA ImageIsFinite ==
  ASSUME NEW S, IsFiniteSet(S), NEW h
  PROVE  IsFiniteSet({h[x] : x \in S})
<1> DEFINE I(U) == {h[x] : x \in U}
           T == {U \in SUBSET S : IsFiniteSet(I(U))}
<1>1. {} \in T
  <2>1. I({}) = {}
    OBVIOUS
  <2> QED
    BY <2>1, FS_EmptySet
<1>2. ASSUME NEW U \in SUBSET S, NEW x \in S \ U, U \in T
      PROVE  U \cup {x} \in T
  <2>1. I(U \cup {x}) = I(U) \cup {h[x]}
    OBVIOUS
  <2>2. IsFiniteSet(I(U))
    BY <1>2
  <2> HIDE DEF I
  <2>3. IsFiniteSet(I(U) \cup {h[x]})
    BY <2>2, FS_AddElement
  <2>4. IsFiniteSet(I(U \cup {x}))
    BY <2>1, <2>3
  <2> QED
    BY <2>4
<1> HIDE DEF T
<1>3. S \in T
  BY <1>1, <1>2, FiniteInduction
<1> QED
  BY <1>3 DEF T

-----------------------------------------------------------------------------
(* Sums *)

\* SumFunctionOnSet, its definition expanded.
Pick(s) == CHOOSE x \in s : TRUE
SumOf(f, g, s) == IF s = {} THEN 0 ELSE f[Pick(s)] + g[s \ {Pick(s)}]
Sums(f, S) == CHOOSE g : g = [s \in SUBSET S |-> SumOf(f, g, s)]

LEMMA SumExpanded ==
  ASSUME NEW f, NEW S
  PROVE  SumFunctionOnSet(f, S) = Sums(f, S)[S]
BY DEF SumFunctionOnSet, FoldFunctionOnSet, MapThenFoldSet, Sums, SumOf, Pick

LEMMA Picked ==
  ASSUME NEW s, s # {} PROVE Pick(s) \in s
BY DEF Pick

LEMMA SmallSums ==
  ASSUME NEW f, NEW S, IsFiniteSet(S), NEW n \in Nat
  PROVE  \E g : \A s \in SUBSET S : Cardinality(s) <= n => g[s] = SumOf(f, g, s)
<1> DEFINE Good(k, g) == \A s \in SUBSET S : Cardinality(s) <= k => g[s] = SumOf(f, g, s)
           N == {k \in Nat : ~\E g : Good(k, g)}
<1> SUFFICES ASSUME n \in N PROVE FALSE
  OBVIOUS
<1>1. PICK k \in N : \A m \in N : k <= m
  BY SmallestOf
<1>2. \A s \in SUBSET S : IsFiniteSet(s) /\ Cardinality(s) \in Nat
  BY FS_Subset, FS_CardinalityType
<1>3. CASE k = 0
  <2> DEFINE g == [s \in SUBSET S |-> 0]
  <2>1. ASSUME NEW s \in SUBSET S, Cardinality(s) <= k PROVE g[s] = SumOf(f, g, s)
    <3>1. s = {}
      BY <1>2, <1>3, <2>1, FS_EmptySet
    <3> QED
      BY <3>1 DEF SumOf
  <2>2. Good(k, g)
    BY <2>1
  <2> QED
    BY <2>2
<1>4. CASE k # 0
  <2>1. k - 1 \in Nat /\ k - 1 \notin N
    BY <1>1, <1>4
  <2>2. PICK g : Good(k - 1, g)
    BY <2>1
  <2> DEFINE h == [s \in SUBSET S |-> SumOf(f, g, s)]
  <2>3. ASSUME NEW s \in SUBSET S, Cardinality(s) <= k PROVE h[s] = SumOf(f, h, s)
    <3>1. CASE s = {}
      BY <3>1 DEF SumOf
    <3>2. CASE s # {}
      <4> DEFINE t == s \ {Pick(s)}
      <4>1. Pick(s) \in s
        BY <3>2, Picked
      <4>2. Cardinality(t) = Cardinality(s) - 1
        BY <1>2, <4>1, FS_RemoveElement
      <4>3. Cardinality(t) <= k - 1 /\ t \in SUBSET S
        BY <1>2, <2>3, <4>2
      <4>4. g[t] = SumOf(f, g, t)
        BY <2>2, <4>3
      <4>5. h[t] = g[t]
        BY <4>3, <4>4
      <4>6. h[s] = SumOf(f, g, s)
        OBVIOUS
      <4> QED
        BY <3>2, <4>5, <4>6 DEF SumOf
    <3> QED
      BY <3>1, <3>2
  <2>4. Good(k, h)
    BY <2>3
  <2> QED
    BY <2>4
<1> QED
  BY <1>3, <1>4

LEMMA SumsAreSums ==
  ASSUME NEW f, NEW S, IsFiniteSet(S)
  PROVE  \A s \in SUBSET S : Sums(f, S)[s] = SumOf(f, Sums(f, S), s)
<1>1. Cardinality(S) \in Nat
  BY FS_CardinalityType
<1>2. PICK g : \A s \in SUBSET S : Cardinality(s) <= Cardinality(S) => g[s] = SumOf(f, g, s)
  BY <1>1, SmallSums
<1> DEFINE h == [s \in SUBSET S |-> g[s]]
<1>3. ASSUME NEW s \in SUBSET S PROVE h[s] = SumOf(f, h, s)
  <2>1. Cardinality(s) <= Cardinality(S)
    BY FS_Subset
  <2>2. g[s] = SumOf(f, g, s)
    BY <1>2, <2>1
  <2>3. s \ {Pick(s)} \in SUBSET S
    OBVIOUS
  <2> QED
    BY <2>2, <2>3 DEF SumOf
<1>4. h = [s \in SUBSET S |-> SumOf(f, h, s)]
  BY <1>3
<1>5. \E r : r = [s \in SUBSET S |-> SumOf(f, r, s)]
  BY <1>4
<1>6. Sums(f, S) = [s \in SUBSET S |-> SumOf(f, Sums(f, S), s)]
  BY <1>5 DEF Sums
<1> QED
  BY <1>6

LEMMA SumsAreLocal ==
  ASSUME NEW f, NEW S, IsFiniteSet(S), NEW U \in SUBSET S
  PROVE  Sums(f, S)[U] = Sums(f, U)[U]
<1> DEFINE A == Sums(f, S)
           B == Sums(f, U)
           P == {V \in SUBSET U : A[V] # B[V]}
<1> SUFFICES ASSUME P # {} PROVE FALSE
  OBVIOUS
<1>1. IsFiniteSet(U)
  BY FS_Subset
<1>2. PICK V \in P : \A W \in P : W \subseteq V => W = V
  <2>1. P \subseteq SUBSET U
    OBVIOUS
  <2> HIDE DEF P
  <2> QED
    BY <2>1, <1>1, SmallestSubset
<1>3. A[V] = SumOf(f, A, V) /\ B[V] = SumOf(f, B, V)
  BY <1>1, SumsAreSums
<1>4. V # {}
  BY <1>3 DEF SumOf
<1>5. Pick(V) \in V
  BY <1>4, Picked
<1>6. A[V \ {Pick(V)}] = B[V \ {Pick(V)}]
  BY <1>2, <1>5
<1> HIDE DEF A, B
<1> QED
  BY <1>2, <1>3, <1>6 DEF SumOf

\* A sum over a set, one element of it at a time.
LEMMA SumPicked ==
  ASSUME NEW f, NEW S, IsFiniteSet(S)
  PROVE  /\ SumFunctionOnSet(f, {}) = 0
         /\ S # {} => SumFunctionOnSet(f, S)
                        = f[Pick(S)] + SumFunctionOnSet(f, S \ {Pick(S)})
<1>1. SumFunctionOnSet(f, {}) = 0
  <2>1. IsFiniteSet({})
    BY FS_EmptySet
  <2>2. Sums(f, {})[{}] = SumOf(f, Sums(f, {}), {})
    BY <2>1, SumsAreSums
  <2> QED
    BY <2>2, SumExpanded DEF SumOf
<1>2. S # {} => SumFunctionOnSet(f, S) = f[Pick(S)] + SumFunctionOnSet(f, S \ {Pick(S)})
  <2>1. Sums(f, S)[S] = SumOf(f, Sums(f, S), S)
    BY SumsAreSums
  <2>2. Sums(f, S)[S \ {Pick(S)}] = Sums(f, S \ {Pick(S)})[S \ {Pick(S)}]
    BY SumsAreLocal
  <2> QED
    BY <2>1, <2>2, SumExpanded DEF SumOf
<1> QED
  BY <1>1, <1>2

LEMMA SumIn ==
  ASSUME NEW T, T = Nat \/ T = Int, NEW f, NEW S, IsFiniteSet(S), \A x \in S : f[x] \in T
  PROVE  SumFunctionOnSet(f, S) \in T
<1> DEFINE P == {U \in SUBSET S : SumFunctionOnSet(f, U) \notin T}
<1> SUFFICES ASSUME P # {} PROVE FALSE
  OBVIOUS
<1>1. PICK U \in P : \A V \in P : V \subseteq U => V = U
  <2>1. P \subseteq SUBSET S /\ P # {}
    OBVIOUS
  <2> HIDE DEF P
  <2> QED
    BY <2>1, SmallestSubset
<1>2. IsFiniteSet(U)
  BY FS_Subset
<1>3. U # {}
  <2>1. SumFunctionOnSet(f, {}) = 0 /\ SumFunctionOnSet(f, U) \notin T
    BY <1>2, SumPicked
  <2> QED
    BY <2>1
<1>4. Pick(U) \in U
  BY <1>3, Picked
<1>5. SumFunctionOnSet(f, U \ {Pick(U)}) \in T /\ f[Pick(U)] \in T
  BY <1>1, <1>4
<1>6. SumFunctionOnSet(f, U) = f[Pick(U)] + SumFunctionOnSet(f, U \ {Pick(U)})
  BY <1>2, <1>3, SumPicked
<1> QED
  BY <1>5, <1>6

LEMMA SumRemove ==
  ASSUME NEW f, NEW S, IsFiniteSet(S), \A y \in S : f[y] \in Int, NEW x \in S
  PROVE  SumFunctionOnSet(f, S) = f[x] + SumFunctionOnSet(f, S \ {x})
<1> DEFINE sum(U) == SumFunctionOnSet(f, U)
           P == {U \in SUBSET S : \E z \in U : sum(U) # f[z] + sum(U \ {z})}
<1> SUFFICES ASSUME P # {} PROVE FALSE
  OBVIOUS
<1>1. PICK U \in P : \A V \in P : V \subseteq U => V = U
  <2>1. P \subseteq SUBSET S /\ P # {}
    OBVIOUS
  <2> HIDE DEF P
  <2> QED
    BY <2>1, SmallestSubset
<1>2. PICK z \in U : sum(U) # f[z] + sum(U \ {z})
  OBVIOUS
<1>3. \A V \in SUBSET S : IsFiniteSet(V) /\ sum(V) \in Int
  <2>1. \A V \in SUBSET S : IsFiniteSet(V)
    BY FS_Subset
  <2> QED
    BY <2>1, SumIn
<1>4. PICK c : c = Pick(U)
  OBVIOUS
<1>5. c \in U /\ sum(U) = f[c] + sum(U \ {c})
  BY <1>2, <1>3, <1>4, Picked, SumPicked
<1>6. c # z
  BY <1>2, <1>5
<1>7. sum(U \ {c}) = f[z] + sum((U \ {c}) \ {z})
  <2>1. U \ {c} \notin P /\ U \ {c} \in SUBSET S /\ z \in U \ {c}
    BY <1>1, <1>5, <1>6
  <2> QED
    BY <2>1
<1>8. sum(U \ {z}) = f[c] + sum((U \ {z}) \ {c})
  <2>1. U \ {z} \notin P /\ U \ {z} \in SUBSET S /\ c \in U \ {z}
    BY <1>1, <1>2, <1>5, <1>6
  <2> QED
    BY <2>1
<1>9. (U \ {z}) \ {c} = (U \ {c}) \ {z}
  OBVIOUS
<1>10. PICK rest : rest = sum((U \ {c}) \ {z})
  OBVIOUS
<1>11. rest \in Int /\ f[c] \in Int /\ f[z] \in Int
  BY <1>3, <1>5, <1>10
<1>12. PICK a \in Int : a = f[c]
  BY <1>11
<1>13. PICK b \in Int : b = f[z]
  BY <1>11
<1> HIDE DEF sum
<1>14. sum(U) = a + (b + rest)
  BY <1>5, <1>7, <1>10, <1>12, <1>13
<1>15. sum(U \ {z}) = a + rest
  BY <1>8, <1>9, <1>10, <1>12
<1>16. sum(U) = b + (a + rest)
  BY <1>11, <1>14
<1> QED
  BY <1>2, <1>13, <1>15, <1>16

LEMMA SumAdd ==
  ASSUME NEW f, NEW S, IsFiniteSet(S), NEW x, x \notin S, \A y \in S \cup {x} : f[y] \in Int
  PROVE  SumFunctionOnSet(f, S \cup {x}) = SumFunctionOnSet(f, S) + f[x]
<1>1. IsFiniteSet(S \cup {x})
  BY FS_AddElement
<1>2. (S \cup {x}) \ {x} = S /\ x \in S \cup {x}
  OBVIOUS
<1>3. SumFunctionOnSet(f, S \cup {x}) = f[x] + SumFunctionOnSet(f, (S \cup {x}) \ {x})
  BY <1>1, <1>2, SumRemove
<1>4. PICK a \in Int : a = SumFunctionOnSet(f, S)
  BY SumIn
<1>5. PICK b \in Int : b = f[x]
  OBVIOUS
<1>6. SumFunctionOnSet(f, S \cup {x}) = b + a
  BY <1>2, <1>3, <1>4, <1>5
<1> QED
  BY <1>4, <1>5, <1>6

LEMMA SumSame ==
  ASSUME NEW f, NEW g, NEW S, IsFiniteSet(S), \A x \in S : f[x] = g[x]
  PROVE  SumFunctionOnSet(f, S) = SumFunctionOnSet(g, S)
<1> DEFINE P == {U \in SUBSET S : SumFunctionOnSet(f, U) # SumFunctionOnSet(g, U)}
<1> SUFFICES ASSUME P # {} PROVE FALSE
  OBVIOUS
<1>1. PICK U \in P : \A V \in P : V \subseteq U => V = U
  <2>1. P \subseteq SUBSET S /\ P # {}
    OBVIOUS
  <2> HIDE DEF P
  <2> QED
    BY <2>1, SmallestSubset
<1>2. IsFiniteSet(U)
  BY FS_Subset
<1>3. U # {}
  BY <1>2, SumPicked
<1>4. Pick(U) \in U
  BY <1>3, Picked
<1>5. SumFunctionOnSet(f, U \ {Pick(U)}) = SumFunctionOnSet(g, U \ {Pick(U)})
  BY <1>1, <1>4
<1>6. f[Pick(U)] = g[Pick(U)]
  BY <1>4
<1>7. /\ SumFunctionOnSet(f, U) = f[Pick(U)] + SumFunctionOnSet(f, U \ {Pick(U)})
      /\ SumFunctionOnSet(g, U) = g[Pick(U)] + SumFunctionOnSet(g, U \ {Pick(U)})
  BY <1>2, <1>3, SumPicked
<1> QED
  BY <1>5, <1>6, <1>7

LEMMA SumChange ==
  ASSUME NEW f, NEW g, NEW S, IsFiniteSet(S), NEW x \in S,
         \A y \in S : f[y] \in Int /\ g[y] \in Int,
         \A y \in S \ {x} : f[y] = g[y]
  PROVE  SumFunctionOnSet(g, S) = SumFunctionOnSet(f, S) + (g[x] - f[x])
<1>1. IsFiniteSet(S \ {x})
  BY FS_RemoveElement
<1>2. PICK rest \in Int : rest = SumFunctionOnSet(f, S \ {x})
  BY <1>1, SumIn
<1>3. rest = SumFunctionOnSet(g, S \ {x})
  BY <1>1, <1>2, SumSame
<1>4. PICK a \in Int : a = f[x]
  OBVIOUS
<1>5. PICK b \in Int : b = g[x]
  OBVIOUS
<1>6. SumFunctionOnSet(f, S) = a + rest
  BY <1>2, <1>4, SumRemove
<1>7. SumFunctionOnSet(g, S) = b + rest
  BY <1>3, <1>5, SumRemove
<1> QED
  BY <1>4, <1>5, <1>6, <1>7

\* A sum of more naturals is no less, and so is one of greater numbers.
LEMMA SumSubset ==
  ASSUME NEW f, NEW S, IsFiniteSet(S), \A x \in S : f[x] \in Nat, NEW U \in SUBSET S
  PROVE  SumFunctionOnSet(f, U) <= SumFunctionOnSet(f, S)
<1> DEFINE sum(V) == SumFunctionOnSet(f, V)
           T == {V \in SUBSET S : \A W \in SUBSET V : sum(W) <= sum(V)}
<1>0. \A V \in SUBSET S : IsFiniteSet(V) /\ sum(V) \in Nat
  <2>1. \A V \in SUBSET S : IsFiniteSet(V)
    BY FS_Subset
  <2> QED
    BY <2>1, SumIn
<1>1. {} \in T
  <2>1. sum({}) \in Nat
    BY <1>0
  <2> HIDE DEF sum
  <2> QED
    BY <2>1
<1>2. ASSUME NEW V \in SUBSET S, NEW x \in S \ V, V \in T
      PROVE  V \cup {x} \in T
  <2> SUFFICES ASSUME NEW W \in SUBSET (V \cup {x})
               PROVE  sum(W) <= sum(V \cup {x})
    OBVIOUS
  <2>1. sum(V \cup {x}) = sum(V) + f[x]
    <3>1. \A y \in V \cup {x} : f[y] \in Int
      OBVIOUS
    <3> QED
      BY <1>0, <3>1, SumAdd
  <2>2. f[x] \in Nat /\ sum(V) \in Nat
    BY <1>0
  <2>3. CASE x \notin W
    <3>1. W \in SUBSET V
      BY <2>3
    <3>2. sum(W) <= sum(V) /\ sum(W) \in Nat
      BY <1>0, <1>2, <3>1
    <3> HIDE DEF sum
    <3> QED
      BY <2>1, <2>2, <3>2
  <2>4. CASE x \in W
    <3>1. sum(W) = f[x] + sum(W \ {x})
      <4>1. \A y \in W : f[y] \in Int
        OBVIOUS
      <4>2. IsFiniteSet(W)
        BY <1>0
      <4> QED
        BY <2>4, <4>1, <4>2, SumRemove
    <3>2. W \ {x} \in SUBSET V
      OBVIOUS
    <3>3. sum(W \ {x}) <= sum(V) /\ sum(W \ {x}) \in Nat
      BY <1>0, <1>2, <3>2
    <3> HIDE DEF sum
    <3> QED
      BY <2>1, <2>2, <3>1, <3>3
  <2> QED
    BY <2>3, <2>4
<1> HIDE DEF T
<1>3. S \in T
  BY <1>1, <1>2, FiniteInduction
<1> QED
  BY <1>3 DEF T

LEMMA SumLess ==
  ASSUME NEW f, NEW g, NEW S, IsFiniteSet(S),
         \A x \in S : f[x] \in Nat /\ g[x] \in Nat /\ f[x] <= g[x]
  PROVE  SumFunctionOnSet(f, S) <= SumFunctionOnSet(g, S)
<1> DEFINE T == {V \in SUBSET S : SumFunctionOnSet(f, V) <= SumFunctionOnSet(g, V)}
<1>0. \A V \in SUBSET S : /\ IsFiniteSet(V)
                          /\ SumFunctionOnSet(f, V) \in Nat /\ SumFunctionOnSet(g, V) \in Nat
  <2>1. \A V \in SUBSET S : IsFiniteSet(V)
    BY FS_Subset
  <2>2. \A V \in SUBSET S : SumFunctionOnSet(f, V) \in Nat
    BY <2>1, SumIn
  <2>3. \A V \in SUBSET S : SumFunctionOnSet(g, V) \in Nat
    BY <2>1, SumIn
  <2> QED
    BY <2>1, <2>2, <2>3
<1>1. {} \in T
  <2>1. SumFunctionOnSet(f, {}) = 0 /\ SumFunctionOnSet(g, {}) = 0
    BY SumPicked
  <2> QED
    BY <2>1
<1>2. ASSUME NEW V \in SUBSET S, NEW x \in S \ V, V \in T
      PROVE  V \cup {x} \in T
  <2>0. \A y \in V \cup {x} : f[y] \in Int /\ g[y] \in Int
    OBVIOUS
  <2>1. SumFunctionOnSet(f, V \cup {x}) = SumFunctionOnSet(f, V) + f[x]
    BY <1>0, <2>0, SumAdd
  <2>2. SumFunctionOnSet(g, V \cup {x}) = SumFunctionOnSet(g, V) + g[x]
    BY <1>0, <2>0, SumAdd
  <2>3. f[x] \in Nat /\ g[x] \in Nat /\ f[x] <= g[x]
    OBVIOUS
  <2>4. PICK a \in Nat : a = SumFunctionOnSet(f, V)
    BY <1>0
  <2>5. PICK b \in Nat : b = SumFunctionOnSet(g, V)
    BY <1>0
  <2>6. a <= b
    BY <1>2, <2>4, <2>5
  <2>7. SumFunctionOnSet(f, V \cup {x}) <= SumFunctionOnSet(g, V \cup {x})
    BY <2>1, <2>2, <2>3, <2>4, <2>5, <2>6
  <2> QED
    BY <2>7
<1> HIDE DEF T
<1>3. S \in T
  BY <1>1, <1>2, FiniteInduction
<1> QED
  BY <1>3 DEF T

LEMMA SumZero ==
  ASSUME NEW f, NEW S, IsFiniteSet(S), \A x \in S : f[x] = 0
  PROVE  SumFunctionOnSet(f, S) = 0
<1> DEFINE T == {V \in SUBSET S : SumFunctionOnSet(f, V) = 0}
<1>1. {} \in T
  BY SumPicked
<1>2. ASSUME NEW V \in SUBSET S, NEW x \in S \ V, V \in T
      PROVE  V \cup {x} \in T
  <2>1. IsFiniteSet(V) /\ \A y \in V \cup {x} : f[y] \in Int
    BY FS_Subset
  <2>2. SumFunctionOnSet(f, V \cup {x}) = SumFunctionOnSet(f, V) + f[x]
    BY <2>1, SumAdd
  <2>3. SumFunctionOnSet(f, V \cup {x}) = 0
    BY <1>2, <2>2
  <2> QED
    BY <2>3
<1> HIDE DEF T
<1>3. S \in T
  BY <1>1, <1>2, FiniteInduction
<1> QED
  BY <1>3 DEF T

\* A sum over the image of a set under a map that keeps elements apart.
LEMMA SumImage ==
  ASSUME NEW S, IsFiniteSet(S), NEW h, NEW f, NEW g,
         \A x \in S, y \in S : h[x] = h[y] => x = y,
         \A x \in S : f[h[x]] = g[x] /\ g[x] \in Int
  PROVE  SumFunctionOnSet(f, {h[x] : x \in S}) = SumFunctionOnSet(g, S)
<1> DEFINE image(V) == {h[x] : x \in V}
           T == {V \in SUBSET S : /\ IsFiniteSet(image(V))
                                  /\ SumFunctionOnSet(f, image(V)) = SumFunctionOnSet(g, V)}
<1>1. {} \in T
  <2>1. image({}) = {}
    OBVIOUS
  <2>2. IsFiniteSet({})
    BY FS_EmptySet
  <2>3. SumFunctionOnSet(f, {}) = 0 /\ SumFunctionOnSet(g, {}) = 0
    BY <2>2, SumPicked
  <2> HIDE DEF image
  <2> QED
    BY <2>1, <2>2, <2>3
<1>2. ASSUME NEW V \in SUBSET S, NEW x \in S \ V, V \in T
      PROVE  V \cup {x} \in T
  <2>1. image(V \cup {x}) = image(V) \cup {h[x]}
    OBVIOUS
  <2>2. h[x] \notin image(V)
    OBVIOUS
  <2>3. IsFiniteSet(image(V)) /\ IsFiniteSet(V)
    BY <1>2, FS_Subset
  <2>4. IsFiniteSet(image(V) \cup {h[x]})
    BY <2>3, FS_AddElement
  <2>5. \A y \in image(V) \cup {h[x]} : f[y] \in Int
    OBVIOUS
  <2>6. \A y \in V \cup {x} : g[y] \in Int
    OBVIOUS
  <2>7. f[h[x]] = g[x]
    OBVIOUS
  <2>8. SumFunctionOnSet(f, image(V)) = SumFunctionOnSet(g, V)
    BY <1>2
  <2> HIDE DEF image
  <2>9. SumFunctionOnSet(f, image(V) \cup {h[x]}) = SumFunctionOnSet(f, image(V)) + f[h[x]]
    BY <2>2, <2>3, <2>5, SumAdd
  <2>10. SumFunctionOnSet(g, V \cup {x}) = SumFunctionOnSet(g, V) + g[x]
    BY <2>3, <2>6, SumAdd
  <2> QED
    BY <2>1, <2>4, <2>7, <2>8, <2>9, <2>10
<1> HIDE DEF T
<1>3. S \in T
  BY <1>1, <1>2, FiniteInduction
<1> QED
  BY <1>3 DEF T

\* Sums over the domain of a function.
LEMMA SumIsSum ==
  ASSUME NEW f PROVE SumFunction(f) = SumFunctionOnSet(f, DOMAIN f)
BY DEF SumFunction

LEMMA SumGrows ==
  ASSUME NEW f, NEW g, NEW x, IsFiniteSet(DOMAIN f), x \notin DOMAIN f,
         DOMAIN g = DOMAIN f \cup {x},
         \A y \in DOMAIN f : f[y] = g[y] /\ g[y] \in Int, g[x] \in Int
  PROVE  SumFunction(g) = SumFunction(f) + g[x]
<1>1. SumFunctionOnSet(g, DOMAIN f) = SumFunctionOnSet(f, DOMAIN f)
  BY SumSame
<1>2. SumFunctionOnSet(g, DOMAIN f \cup {x}) = SumFunctionOnSet(g, DOMAIN f) + g[x]
  BY SumAdd
<1> QED
  BY <1>1, <1>2, SumIsSum

-----------------------------------------------------------------------------
\* The largest and the smallest of a finite set of integers.
LEMMA MaxIsMax ==
  ASSUME NEW S, S \subseteq Int, IsFiniteSet(S), S # {}
  PROVE  Max(S) \in S /\ \A x \in S : x <= Max(S)
<1> DEFINE T == {U \in SUBSET S : U # {} => \E m \in U : \A x \in U : m >= x}
<1>1. {} \in T
  OBVIOUS
<1>2. ASSUME NEW U \in SUBSET S, NEW y \in S \ U, U \in T
      PROVE  U \cup {y} \in T
  <2>1. \E m \in U \cup {y} : \A x \in U \cup {y} : m >= x
    <3>1. CASE U = {}
      BY <3>1
    <3>2. CASE U # {}
      <4>1. PICK m \in U : \A x \in U : m >= x
        BY <1>2, <3>2
      <4>2. m \in Int /\ y \in Int /\ \A x \in U : x \in Int
        OBVIOUS
      <4>3. CASE m >= y
        BY <4>1, <4>2, <4>3
      <4>4. CASE ~(m >= y)
        <5>1. \A x \in U \cup {y} : y >= x
          BY <4>1, <4>2, <4>4
        <5> QED
          BY <5>1
      <4> QED
        BY <4>3, <4>4
    <3> QED
      BY <3>1, <3>2
  <2> QED
    BY <2>1
<1> HIDE DEF T
<1>3. S \in T
  BY <1>1, <1>2, FiniteInduction
<1>4. \E m \in S : \A x \in S : m >= x
  BY <1>3 DEF T
<1>5. Max(S) \in S /\ \A x \in S : Max(S) >= x
  BY <1>4 DEF Max
<1>6. \A x \in S : x \in Int
  OBVIOUS
<1> QED
  BY <1>5, <1>6

LEMMA MinIsMin ==
  ASSUME NEW S, S \subseteq Nat, S # {}
  PROVE  Min(S) \in S /\ \A x \in S : Min(S) <= x
<1>1. \E m \in S : \A x \in S : m <= x
  BY SmallestOf
<1> QED
  BY <1>1 DEF Min

LEMMA MaxIs ==
  ASSUME NEW S, NEW m \in S, S \subseteq Int, \A x \in S : x <= m
  PROVE  Max(S) = m
<1>1. \A x \in S : m >= x /\ x \in Int
  OBVIOUS
<1>2. Max(S) \in S /\ \A x \in S : Max(S) >= x
  BY <1>1 DEF Max
<1>3. PICK k : k = Max(S)
  OBVIOUS
<1>4. k \in Int /\ m \in Int /\ k >= m /\ k <= m
  BY <1>1, <1>2, <1>3
<1> QED
  BY <1>3, <1>4

-----------------------------------------------------------------------------
(* Positions *)

LEMMA Positions ==
  ASSUME NEW n \in Nat, NEW S, S \subseteq 1..n
  PROVE  /\ IsFiniteSet(S) /\ IsFiniteSet(Later(S)) /\ S \subseteq Int
         /\ S # {} => Max(S) \in S /\ \A i \in S : i <= Max(S)
         /\ \A i \in Later(S) : /\ Previous(S, i) \in S /\ Previous(S, i) < i
                                /\ \A j \in S : j < i => j <= Previous(S, i)
<1>1. IsFiniteSet(S)
  <2>1. IsFiniteSet(1..n)
    BY FS_Interval
  <2> QED
    BY <2>1, FS_Subset
<1>2. IsFiniteSet(Later(S))
  BY <1>1, FS_Subset DEF Later
<1>3. S \subseteq Int
  OBVIOUS
<1>4. S # {} => Max(S) \in S /\ \A i \in S : i <= Max(S)
  BY <1>1, <1>3, MaxIsMax
<1>5. ASSUME NEW i \in Later(S)
      PROVE  /\ Previous(S, i) \in S /\ Previous(S, i) < i
             /\ \A j \in S : j < i => j <= Previous(S, i)
  <2> DEFINE B == {j \in S : j < i}
  <2>1. B # {}
    BY DEF Later
  <2>2. B \subseteq Int /\ IsFiniteSet(B)
    <3>1. B \subseteq S
      OBVIOUS
    <3> QED
      BY <1>1, <1>3, <3>1, FS_Subset
  <2>3. Max(B) \in B /\ \A j \in B : j <= Max(B)
    <3> HIDE DEF B
    <3> QED
      BY <2>1, <2>2, MaxIsMax
  <2> QED
    BY <2>3 DEF Previous
<1> QED
  BY <1>1, <1>2, <1>3, <1>4, <1>5

\* The next position comes after every other.
LEMMA NextPosition ==
  ASSUME NEW n \in Nat, NEW S, S \subseteq 1..n
  PROVE  /\ Later(S \cup {n + 1}) = IF S = {} THEN {} ELSE Later(S) \cup {n + 1}
         /\ \A i \in Later(S) : Previous(S \cup {n + 1}, i) = Previous(S, i)
         /\ S # {} => Previous(S \cup {n + 1}, n + 1) = Max(S)
         /\ Max(S \cup {n + 1}) = n + 1
         /\ n + 1 \notin S
<1>0. \A i \in S : i \in Int /\ i <= n /\ i < n + 1
  OBVIOUS
<1>1. n + 1 \notin S
  BY <1>0
<1>2. Max(S \cup {n + 1}) = n + 1
  <2>1. n + 1 \in S \cup {n + 1} /\ S \cup {n + 1} \subseteq Int
    BY <1>0
  <2>2. \A x \in S \cup {n + 1} : x <= n + 1
    BY <1>0
  <2> QED
    BY <2>1, <2>2, MaxIs
<1>3. Later(S \cup {n + 1}) = IF S = {} THEN {} ELSE Later(S) \cup {n + 1}
  <2>1. CASE S = {}
    BY <2>1 DEF Later
  <2>2. CASE S # {}
    <3> DEFINE R == S \cup {n + 1}
    <3>1. ASSUME NEW i PROVE i \in Later(R) <=> i \in Later(S) \cup {n + 1}
      <4>1. CASE i = n + 1
        <5>1. \E j \in R : j < i
          BY <1>0, <2>2, <4>1
        <5> QED
          BY <4>1, <5>1 DEF Later
      <4>2. CASE i # n + 1
        <5>1. i \in S => ~(n + 1 < i)
          BY <1>0
        <5> QED
          BY <4>2, <5>1 DEF Later
      <4> QED
        BY <4>1, <4>2
    <3>2. Later(R) = Later(S) \cup {n + 1}
      BY <3>1
    <3> QED
      BY <2>2, <3>2
  <2> QED
    BY <2>1, <2>2
<1>4. ASSUME NEW i \in Later(S) PROVE Previous(S \cup {n + 1}, i) = Previous(S, i)
  <2>1. i \in S
    BY DEF Later
  <2>2. {j \in S \cup {n + 1} : j < i} = {j \in S : j < i}
    BY <1>0, <2>1
  <2> QED
    BY <2>2 DEF Previous
<1>5. {j \in S \cup {n + 1} : j < n + 1} = S
  <2>1. ~(n + 1 < n + 1)
    OBVIOUS
  <2>2. \A j : j \in S \cup {n + 1} /\ j < n + 1 <=> j \in S
    BY <1>0, <2>1
  <2> QED
    BY <2>2
<1>6. Previous(S \cup {n + 1}, n + 1) = Max(S)
  BY <1>5 DEF Previous
<1> QED
  BY <1>1, <1>2, <1>3, <1>4, <1>6

-----------------------------------------------------------------------------
(* Counters *)

GrowthAt(before, after) == IF after < before THEN after ELSE after - before

LEMMA GrowthIs ==
  ASSUME NEW v, NEW S, NEW i \in Later(S)
  PROVE  Growth(v, S)[i] = GrowthAt(v[Previous(S, i)], v[i])
BY DEF Growth, Drops, GrowthAt

LEMMA GrowthOfSame ==
  ASSUME NEW n \in Nat, NEW S, S \subseteq 1..n, NEW v, NEW w, \A i \in S : v[i] = w[i]
  PROVE  Growth(w, S) = Growth(v, S)
<1>1. DOMAIN Growth(w, S) = Later(S) /\ DOMAIN Growth(v, S) = Later(S)
  BY DEF Growth
<1>2. ASSUME NEW i \in Later(S) PROVE Growth(w, S)[i] = Growth(v, S)[i]
  <2>1. i \in S /\ Previous(S, i) \in S
    BY Positions DEF Later
  <2>2. w[i] = v[i] /\ w[Previous(S, i)] = v[Previous(S, i)]
    BY <2>1
  <2>3. /\ Growth(w, S)[i] = GrowthAt(w[Previous(S, i)], w[i])
        /\ Growth(v, S)[i] = GrowthAt(v[Previous(S, i)], v[i])
    BY GrowthIs
  <2> QED
    BY <2>2, <2>3
<1>3. Growth(w, S) = [i \in Later(S) |-> Growth(w, S)[i]]
  BY DEF Growth
<1>4. Growth(v, S) = [i \in Later(S) |-> Growth(v, S)[i]]
  BY DEF Growth
<1> QED
  BY <1>2, <1>3, <1>4

Delta(v, S) == SumFunction(Growth(v, S))

LEMMA DeltaGrows ==
  ASSUME NEW n \in Nat, NEW S, S \subseteq 1..n, NEW v, NEW w,
         \A i \in S : v[i] = w[i] /\ v[i] \in Nat, w[n + 1] \in Nat
  PROVE  /\ Delta(v, S) \in Int
         /\ S = {} => Delta(w, S \cup {n + 1}) = 0
         /\ S # {} => Delta(w, S \cup {n + 1})
                        = Delta(v, S) + GrowthAt(v[Max(S)], w[n + 1])
<1> DEFINE R == S \cup {n + 1}
           a == Growth(v, S)
           b == Growth(w, R)
<1>0. \A i \in Later(S) : i \in S /\ Previous(S, i) \in S
  BY Positions DEF Later
<1>1. DOMAIN a = Later(S) /\ DOMAIN b = Later(R) /\ IsFiniteSet(Later(S))
  BY Positions DEF Growth
<1>2. \A i \in Later(S) : a[i] \in Int
  <2> TAKE i \in Later(S)
  <2>1. a[i] = GrowthAt(v[Previous(S, i)], v[i])
    BY GrowthIs
  <2>2. v[i] \in Nat /\ v[Previous(S, i)] \in Nat
    BY <1>0
  <2> QED
    BY <2>1, <2>2 DEF GrowthAt
<1>3. Delta(v, S) \in Int
  BY <1>1, <1>2, SumIn, SumIsSum DEF Delta
<1>4. ASSUME S = {} PROVE Delta(w, R) = 0
  <2>1. Later(R) = {}
    BY <1>4, NextPosition
  <2>2. IsFiniteSet({})
    BY FS_EmptySet
  <2> QED
    BY <1>1, <2>1, <2>2, SumPicked, SumIsSum DEF Delta
<1>5. ASSUME S # {} PROVE Delta(w, R) = Delta(v, S) + GrowthAt(v[Max(S)], w[n + 1])
  <2>1. Later(R) = Later(S) \cup {n + 1} /\ n + 1 \notin Later(S)
    BY <1>0, <1>5, NextPosition
  <2>2. ASSUME NEW i \in Later(S) PROVE a[i] = b[i] /\ b[i] \in Int
    <3>1. i \in Later(R) /\ Previous(R, i) = Previous(S, i)
      BY <2>1, NextPosition
    <3>2. b[i] = GrowthAt(w[Previous(R, i)], w[i]) /\ a[i] = GrowthAt(v[Previous(S, i)], v[i])
      BY <3>1, GrowthIs
    <3>3. w[i] = v[i] /\ w[Previous(S, i)] = v[Previous(S, i)]
      BY <1>0
    <3>4. a[i] = b[i]
      BY <3>1, <3>2, <3>3
    <3> QED
      BY <1>2, <3>4
  <2>3. b[n + 1] = GrowthAt(v[Max(S)], w[n + 1]) /\ b[n + 1] \in Int
    <3>1. n + 1 \in Later(R) /\ Previous(R, n + 1) = Max(S) /\ Max(S) \in S
      BY <1>5, <2>1, NextPosition, Positions
    <3>2. b[n + 1] = GrowthAt(w[Previous(R, n + 1)], w[n + 1])
      BY <3>1, GrowthIs
    <3>3. b[n + 1] = GrowthAt(v[Max(S)], w[n + 1]) /\ v[Max(S)] \in Nat
      BY <3>1, <3>2
    <3> QED
      BY <3>3 DEF GrowthAt
  <2> HIDE DEF a, b, R
  <2>4. SumFunction(b) = SumFunction(a) + b[n + 1]
    BY <1>1, <2>1, <2>2, <2>3, SumGrows
  <2> QED
    BY <2>3, <2>4 DEF Delta, a, b
<1> QED
  BY <1>3, <1>4, <1>5

-----------------------------------------------------------------------------
(* Histograms *)

Whole(h) == h.count \in Nat /\ h.buckets \in [AllBounds -> Nat]

LEMMA MaxOfTwo ==
  ASSUME NEW a \in Int, NEW b \in Int
  PROVE  Max({a, b}) = IF a >= b THEN a ELSE b
<1>1. CASE a >= b
  <2>1. Max({a, b}) = a
    BY <1>1, MaxIs
  <2> QED
    BY <1>1, <2>1
<1>2. CASE ~(a >= b)
  <2>1. Max({a, b}) = b
    BY <1>2, MaxIs
  <2> QED
    BY <1>2, <2>1
<1> QED
  BY <1>1, <1>2

LEMMA ContributionIs ==
  ASSUME NEW h, NEW k, Whole(h), Whole(k), NEW b \in AllBounds
  PROVE  /\ Contribution(h, k, b) \in Nat
         /\ Contribution(h, k, b) <= k.buckets[b]
         /\ h.count <= k.count /\ h.buckets[b] <= k.buckets[b]
              => Contribution(h, k, b) = k.buckets[b] - h.buckets[b]
<1>1. PICK x \in Nat : x = h.buckets[b]
  BY DEF Whole
<1>2. PICK y \in Nat : y = k.buckets[b]
  BY DEF Whole
<1>3. Max({0, y - x}) = IF 0 >= y - x THEN 0 ELSE y - x
  BY MaxOfTwo
<1>4. h.count <= k.count => ~IsReset(h, k)
  BY DEF IsReset, Whole
<1>5. Contribution(h, k, b) = IF IsReset(h, k) THEN y ELSE Max({0, y - x})
  BY <1>1, <1>2 DEF Contribution
<1>6. Contribution(h, k, b) \in Nat /\ Contribution(h, k, b) <= y
  BY <1>3, <1>5
<1>7. x <= y => Max({0, y - x}) = y - x
  BY <1>3
<1> QED
  BY <1>1, <1>2, <1>4, <1>5, <1>6, <1>7

BucketDelta(v, S, b) == SumFunction(Contributions(v, S, b))

LEMMA ContributionsAre ==
  ASSUME NEW n \in Nat, NEW S, S \subseteq 1..n, NEW v, \A i \in S : Whole(v[i]),
         NEW b \in AllBounds
  PROVE  /\ DOMAIN Contributions(v, S, b) = Later(S)
         /\ \A i \in Later(S) :
              /\ Contributions(v, S, b)[i] = Contribution(v[Previous(S, i)], v[i], b)
              /\ Contributions(v, S, b)[i] \in Nat
         /\ BucketDelta(v, S, b) \in Nat
<1>1. \A i \in Later(S) : i \in S /\ Previous(S, i) \in S
  BY Positions DEF Later
<1>2. \A i \in Later(S) : /\ b \in DOMAIN v[i].buckets
                          /\ b \in DOMAIN v[Previous(S, i)].buckets
  BY <1>1 DEF Whole
<1>3. /\ DOMAIN Contributions(v, S, b) = Later(S)
      /\ \A i \in Later(S) :
           Contributions(v, S, b)[i] = Contribution(v[Previous(S, i)], v[i], b)
  BY <1>2 DEF Contributions
<1>4. \A i \in Later(S) : Contributions(v, S, b)[i] \in Nat
  BY <1>1, <1>3, ContributionIs
<1>5. IsFiniteSet(Later(S))
  BY Positions
<1>6. BucketDelta(v, S, b) \in Nat
  BY <1>3, <1>4, <1>5, SumIn, SumIsSum DEF BucketDelta
<1> QED
  BY <1>3, <1>4, <1>6

LEMMA BucketsGrow ==
  ASSUME NEW n \in Nat, NEW S, S \subseteq 1..n, NEW v, NEW w,
         \A i \in S : v[i] = w[i] /\ Whole(v[i]), Whole(w[n + 1]), NEW b \in AllBounds
  PROVE  /\ S = {} => BucketDelta(w, S \cup {n + 1}, b) = 0
         /\ S # {} => BucketDelta(w, S \cup {n + 1}, b)
                        = BucketDelta(v, S, b) + Contribution(v[Max(S)], w[n + 1], b)
<1> DEFINE R == S \cup {n + 1}
           x == Contributions(v, S, b)
           y == Contributions(w, R, b)
<1>0. \A i \in Later(S) : i \in S /\ Previous(S, i) \in S
  BY Positions DEF Later
<1>1. R \subseteq 1..(n + 1) /\ \A i \in R : Whole(w[i])
  <2>1. R \subseteq 1..(n + 1)
    OBVIOUS
  <2>2. \A i \in R : i \in S \/ i = n + 1
    OBVIOUS
  <2> HIDE DEF R
  <2>3. \A i \in R : Whole(w[i])
    BY <2>2
  <2> QED
    BY <2>1, <2>3
<1>2. /\ DOMAIN x = Later(S)
      /\ \A i \in Later(S) : x[i] = Contribution(v[Previous(S, i)], v[i], b) /\ x[i] \in Nat
  BY ContributionsAre
<1>3. /\ DOMAIN y = Later(R)
      /\ \A i \in Later(R) : y[i] = Contribution(w[Previous(R, i)], w[i], b) /\ y[i] \in Nat
  <2> HIDE DEF R
  <2>1. n + 1 \in Nat
    OBVIOUS
  <2> QED
    BY <1>1, <2>1, ContributionsAre
<1>4. ASSUME S = {} PROVE SumFunction(y) = 0
  <2>1. Later(R) = {}
    BY <1>4, NextPosition
  <2>2. IsFiniteSet({})
    BY FS_EmptySet
  <2> QED
    BY <1>3, <2>1, <2>2, SumPicked, SumIsSum
<1>5. ASSUME S # {} PROVE SumFunction(y) = SumFunction(x) + Contribution(v[Max(S)], w[n + 1], b)
  <2>1. Later(R) = Later(S) \cup {n + 1} /\ n + 1 \notin Later(S)
    BY <1>0, <1>5, NextPosition
  <2>2. ASSUME NEW i \in Later(S) PROVE x[i] = y[i] /\ y[i] \in Int
    <3>1. i \in Later(R) /\ Previous(R, i) = Previous(S, i)
      BY <2>1, NextPosition
    <3>2. w[i] = v[i] /\ w[Previous(S, i)] = v[Previous(S, i)]
      BY <1>0
    <3>3. x[i] = Contribution(v[Previous(S, i)], v[i], b) /\ x[i] \in Nat
      BY <1>2
    <3>4. y[i] = Contribution(w[Previous(R, i)], w[i], b)
      BY <1>3, <3>1
    <3> HIDE DEF x, y
    <3> QED
      BY <3>1, <3>2, <3>3, <3>4
  <2>3. y[n + 1] = Contribution(v[Max(S)], w[n + 1], b) /\ y[n + 1] \in Int
    <3>1. n + 1 \in Later(R) /\ Previous(R, n + 1) = Max(S) /\ Max(S) \in S
      BY <1>5, <2>1, NextPosition, Positions
    <3>2. y[n + 1] = Contribution(w[Previous(R, n + 1)], w[n + 1], b) /\ y[n + 1] \in Nat
      BY <1>3, <3>1
    <3>3. w[Max(S)] = v[Max(S)]
      BY <3>1
    <3> HIDE DEF y
    <3> QED
      BY <3>1, <3>2, <3>3
  <2>4. IsFiniteSet(Later(S))
    BY Positions
  <2> HIDE DEF x, y, R
  <2>5. SumFunction(y) = SumFunction(x) + y[n + 1]
    BY <1>2, <1>3, <2>1, <2>2, <2>3, <2>4, SumGrows
  <2> QED
    BY <2>3, <2>5
<1> QED
  BY <1>4, <1>5 DEF BucketDelta

Alike(n, v, w, S) ==
  n \in Nat /\ S \subseteq 1..n /\ \A i \in S : v[i] = w[i] /\ Whole(v[i])

LEMMA BucketsOfSame ==
  ASSUME NEW n, NEW S, NEW v, NEW w, Alike(n, v, w, S), NEW b \in AllBounds
  PROVE  BucketDelta(w, S, b) = BucketDelta(v, S, b)
<1>0. n \in Nat /\ S \subseteq 1..n /\ \A i \in S : v[i] = w[i] /\ Whole(v[i])
  BY DEF Alike
<1>7. n \in Nat /\ S \subseteq 1..n
  BY <1>0
<1> DEFINE x == Contributions(v, S, b)
           y == Contributions(w, S, b)
<1>1. DOMAIN x = Later(S) /\ \A i \in Later(S) : x[i] = Contribution(v[Previous(S, i)], v[i], b)
  <2>1. \A i \in S : Whole(v[i])
    BY <1>0
  <2>2. /\ DOMAIN Contributions(v, S, b) = Later(S)
        /\ \A i \in Later(S) :
             Contributions(v, S, b)[i] = Contribution(v[Previous(S, i)], v[i], b)
    BY ONLY <1>7, <2>1, ContributionsAre, b \in AllBounds
  <2> QED
    BY <2>2
<1>2. DOMAIN y = Later(S) /\ \A i \in Later(S) : y[i] = Contribution(w[Previous(S, i)], w[i], b)
  <2>1. \A i \in S : Whole(w[i])
    BY <1>0
  <2>2. /\ DOMAIN Contributions(w, S, b) = Later(S)
        /\ \A i \in Later(S) :
             Contributions(w, S, b)[i] = Contribution(w[Previous(S, i)], w[i], b)
    BY ONLY <1>7, <2>1, ContributionsAre, b \in AllBounds
  <2> QED
    BY <2>2
<1>3. \A i \in Later(S) : i \in S /\ Previous(S, i) \in S
  BY <1>0, Positions DEF Later
<1>4. \A i \in Later(S) : x[i] = y[i]
  <2> HIDE DEF x, y
  <2> QED
    BY <1>0, <1>1, <1>2, <1>3
<1>5. IsFiniteSet(Later(S))
  BY <1>0, Positions
<1> HIDE DEF x, y
<1>6. SumFunction(x) = SumFunction(y)
  BY <1>1, <1>2, <1>4, <1>5, SumSame, SumIsSum
<1> QED
  BY <1>6 DEF BucketDelta, x, y

\* What a window of histograms, read at the positions S, is reduced to.
Reduced(v, S, d) ==
  /\ Later(S) = {} => d = [available |-> FALSE, count |-> Missing,
                           buckets |-> <<>>, resets |-> 0]
  /\ Later(S) # {} =>
       /\ d.available = TRUE
       /\ d.count = SumFunction([i \in Later(S) |-> Counted(v[Previous(S, i)], v[i])])
       /\ d.buckets = [b \in AllBounds |-> BucketDelta(v, S, b)]
       /\ d.resets = Cardinality({i \in Later(S) : IsReset(v[Previous(S, i)], v[i])})

\* A window of whole histograms and of unavailable ones.
LEMMA HistogramDeltaIs ==
  ASSUME NEW n \in Nat, NEW v, DOMAIN v = 1..n,
         \A i \in 1..n : v[i] = NoHistogram \/ Whole(v[i])
  PROVE  Reduced(v, Read(v, NoHistogram), HistogramDelta(v))
<1> DEFINE S == Read(v, NoHistogram)
           d == HistogramDelta(v)
<1>1. S \subseteq 1..n /\ \A i \in S : Whole(v[i])
  BY DEF Read
<1>2. \A i \in S : v[i].count # Missing
  BY <1>1, MissingIsNoReading DEF Whole
<1>3. ASSUME Later(S) # {}
      PROVE  {b \in AllBounds : DOMAIN Contributions(v, S, b) # {}} = AllBounds
  <2> HIDE DEF S
  <2>1. \A b \in AllBounds : DOMAIN Contributions(v, S, b) = Later(S)
    BY <1>1, ContributionsAre
  <2> QED
    BY <1>3, <2>1
<1>4. AllBounds # {}
  BY DEF AllBounds
<1> DEFINE counted == \A i \in S : v[i].count # Missing
           bounds == {b \in AllBounds : DOMAIN Contributions(v, S, b) # {}}
<1>5. d = IF Later(S) = {}
          THEN [available |-> FALSE, count |-> Missing, buckets |-> <<>>, resets |-> 0]
          ELSE [available |-> counted \/ bounds # {},
                count |-> IF ~counted THEN Missing
                          ELSE SumFunction([i \in Later(S) |-> Counted(v[Previous(S, i)], v[i])]),
                buckets |-> [b \in bounds |-> SumFunction(Contributions(v, S, b))],
                resets |-> Cardinality({i \in Later(S) : IsReset(v[Previous(S, i)], v[i])})]
  BY DEF HistogramDelta
<1>6. counted /\ (counted \/ bounds # {}) = TRUE
  BY <1>2
<1>7. Later(S) # {} => [b \in bounds |-> SumFunction(Contributions(v, S, b))]
                         = [b \in AllBounds |-> BucketDelta(v, S, b)]
  BY <1>3 DEF BucketDelta
<1> HIDE DEF d, S, counted, bounds
<1>8. Later(S) = {} => d = [available |-> FALSE, count |-> Missing, buckets |-> <<>>, resets |-> 0]
  BY <1>5
<1>9. ASSUME Later(S) # {}
      PROVE  /\ d.available = TRUE
             /\ d.count = SumFunction([i \in Later(S) |-> Counted(v[Previous(S, i)], v[i])])
             /\ d.buckets = [b \in AllBounds |-> BucketDelta(v, S, b)]
             /\ d.resets = Cardinality({i \in Later(S) : IsReset(v[Previous(S, i)], v[i])})
  BY <1>5, <1>6, <1>7, <1>9
<1> QED
  BY <1>8, <1>9 DEF d, S, Reduced

-----------------------------------------------------------------------------
(* Energy *)

LEMMA MeasuredGrows ==
  ASSUME NEW samples, NEW last \in samples, NEW new,
         \A u \in samples : u.at \in Nat /\ u.at <= last.at /\ (u.at = last.at => u = last),
         new.at = last.at + 1
  PROVE  /\ new \notin samples
         /\ Measured(samples \cup {new})
              = Measured(samples) \cup {i \in {<<last, new>>} : last.watts # Missing
                                                                /\ new.watts # Missing}
<1> DEFINE more == samples \cup {new}
<1>1. last.at \in Nat /\ new.at \in Nat /\ new.at > last.at /\ \A u \in samples : u.at < new.at
  OBVIOUS
<1>2. new \notin samples
  BY <1>1
<1>3. ASSUME NEW s \in samples, NEW t \in samples
      PROVE  Adjacent(more, s, t) <=> Adjacent(samples, s, t)
  <2>1. ~(new.at < t.at)
    BY <1>1
  <2> QED
    BY <2>1 DEF Adjacent
<1>4. ASSUME NEW s \in more PROVE Adjacent(more, s, new) <=> s = last
  <2>1. CASE s = last
    <3>1. \A u \in more : ~(last.at < u.at /\ u.at < new.at)
      BY <1>1
    <3> QED
      BY <1>1, <2>1, <3>1 DEF Adjacent
  <2>2. CASE s # last
    <3>1. s \in samples => s.at < last.at /\ last.at < new.at
      BY <1>1, <2>2
    <3>2. s = new => ~(s.at < new.at)
      BY <1>1
    <3> QED
      BY <2>2, <3>1, <3>2 DEF Adjacent
  <2> QED
    BY <2>1, <2>2
<1>5. ASSUME NEW t \in samples PROVE ~Adjacent(more, new, t)
  BY <1>1 DEF Adjacent
<1> DEFINE last2 == {i \in {<<last, new>>} : last.watts # Missing /\ new.watts # Missing}
<1>6. ASSUME NEW s \in more, NEW t \in more
      PROVE  <<s, t>> \in Measured(more) <=> <<s, t>> \in Measured(samples) \cup last2
  <2>1. <<s, t>> \in Measured(more) <=> Adjacent(more, s, t) /\ s.watts # Missing /\ t.watts # Missing
    BY DEF Measured
  <2>2. <<s, t>> \in Measured(samples)
          <=> /\ s \in samples /\ t \in samples
              /\ Adjacent(samples, s, t) /\ s.watts # Missing /\ t.watts # Missing
    BY DEF Measured
  <2>3. <<s, t>> \in last2 <=> s = last /\ t = new /\ s.watts # Missing /\ t.watts # Missing
    OBVIOUS
  <2> HIDE DEF last2, more
  <2>4. s \in samples \/ s = new
    BY DEF more
  <2>5. t \in samples \/ t = new
    BY DEF more
  <2> QED
    BY <1>2, <1>3, <1>4, <1>5, <2>1, <2>2, <2>3, <2>4, <2>5
<1>7. \A i \in Measured(more) : i \in more \X more /\ i = <<i[1], i[2]>> /\ i[1] \in more /\ i[2] \in more
  BY DEF Measured
<1>8. \A i \in Measured(samples) \cup last2 : i = <<i[1], i[2]>> /\ i[1] \in more /\ i[2] \in more
  BY DEF Measured
<1> HIDE DEF last2, more
<1>9. Measured(more) = Measured(samples) \cup last2
  BY <1>6, <1>7, <1>8
<1> QED
  BY <1>2, <1>9 DEF last2, more

Drawn(i) == (i[1].watts + i[2].watts) * (i[2].at - i[1].at)

LEMMA EnergyIsInt ==
  ASSUME NEW samples, IsFiniteSet(samples),
         \A u \in samples : u.at \in Int /\ (u.watts = Missing \/ u.watts \in Int)
  PROVE  /\ IsFiniteSet(Measured(samples)) /\ Energy2(samples) \in Int
         /\ \A i \in Measured(samples) : Drawn(i) \in Int
<1>1. IsFiniteSet(Measured(samples))
  <2>1. IsFiniteSet(samples \X samples)
    BY FS_Product
  <2> QED
    BY <2>1, FS_Subset DEF Measured
<1>2. ASSUME NEW i \in Measured(samples) PROVE Drawn(i) \in Int
  <2>1. i[1] \in samples /\ i[2] \in samples /\ i[1].watts # Missing /\ i[2].watts # Missing
    BY DEF Measured
  <2>2. i[1].watts \in Int /\ i[2].watts \in Int /\ i[1].at \in Int /\ i[2].at \in Int
    BY <2>1
  <2> QED
    BY <2>2 DEF Drawn
<1> DEFINE f == [i \in Measured(samples) |-> Drawn(i)]
<1>3. Energy2(samples) = SumFunction(f)
  BY DEF Energy2, Drawn
<1>4. DOMAIN f = Measured(samples) /\ \A i \in Measured(samples) : f[i] \in Int
  BY <1>2
<1> HIDE DEF f
<1>5. SumFunction(f) \in Int
  BY <1>1, <1>4, SumIn, SumIsSum
<1> QED
  BY <1>1, <1>2, <1>3, <1>5

LEMMA EnergyGrows ==
  ASSUME NEW samples, IsFiniteSet(samples), NEW last \in samples, NEW new,
         \A u \in samples : u.at \in Nat /\ u.at <= last.at /\ (u.at = last.at => u = last),
         new.at = last.at + 1,
         \A u \in samples \cup {new} : u.watts = Missing \/ u.watts \in Int
  PROVE  Energy2(samples \cup {new}) = Energy2(samples)
           + IF last.watts # Missing /\ new.watts # Missing THEN last.watts + new.watts ELSE 0
<1> DEFINE more == samples \cup {new}
           f == [i \in Measured(samples) |-> Drawn(i)]
           g == [i \in Measured(more) |-> Drawn(i)]
<1>1. Energy2(samples) = SumFunction(f) /\ Energy2(more) = SumFunction(g)
  BY DEF Energy2, Drawn
<1>2. /\ IsFiniteSet(Measured(samples)) /\ Energy2(samples) \in Int
      /\ \A i \in Measured(samples) : Drawn(i) \in Int
  <2>1. \A u \in samples : u.at \in Int /\ (u.watts = Missing \/ u.watts \in Int)
    OBVIOUS
  <2> QED
    BY <2>1, EnergyIsInt
<1>3. new \notin samples
  BY MeasuredGrows
<1>4. CASE last.watts # Missing /\ new.watts # Missing
  <2>1. Measured(more) = Measured(samples) \cup {<<last, new>>}
    BY <1>4, MeasuredGrows
  <2>2. <<last, new>> \notin Measured(samples)
    BY <1>3 DEF Measured
  <2>3. Drawn(<<last, new>>) = last.watts + new.watts /\ Drawn(<<last, new>>) \in Int
    <3>1. PICK a \in Int : a = last.watts
      BY <1>4
    <3>2. PICK b \in Int : b = new.watts
      BY <1>4
    <3>3. PICK k \in Int : k = last.at
      OBVIOUS
    <3>4. Drawn(<<last, new>>) = (a + b) * ((k + 1) - k)
      BY <3>1, <3>2, <3>3 DEF Drawn
    <3>5. (a + b) * ((k + 1) - k) = a + b
      OBVIOUS
    <3> QED
      BY <3>1, <3>2, <3>4, <3>5
  <2>4. DOMAIN f = Measured(samples) /\ DOMAIN g = Measured(samples) \cup {<<last, new>>}
    BY <2>1
  <2>5. \A i \in Measured(samples) : f[i] = g[i] /\ g[i] \in Int
    BY <1>2, <2>1
  <2>6. g[<<last, new>>] = last.watts + new.watts /\ g[<<last, new>>] \in Int
    BY <2>1, <2>3
  <2> HIDE DEF f, g
  <2>7. SumFunction(g) = SumFunction(f) + g[<<last, new>>]
    BY <1>2, <2>2, <2>4, <2>5, <2>6, SumGrows
  <2> QED
    BY <1>1, <1>4, <2>6, <2>7
<1>5. CASE ~(last.watts # Missing /\ new.watts # Missing)
  <2>1. Measured(more) = Measured(samples)
    <3>1. {i \in {<<last, new>>} : last.watts # Missing /\ new.watts # Missing} = {}
      BY <1>5
    <3>2. Measured(more) = Measured(samples) \cup {i \in {<<last, new>>} : last.watts # Missing
                                                                         /\ new.watts # Missing}
      BY MeasuredGrows
    <3> QED
      BY <3>1, <3>2
  <2>2. Energy2(more) = Energy2(samples)
    BY <2>1 DEF Energy2
  <2>3. PICK e \in Int : e = Energy2(samples)
    BY <1>2
  <2> QED
    BY <1>5, <2>2, <2>3
<1> QED
  BY <1>4, <1>5

-----------------------------------------------------------------------------
(* Integers *)

LEMMA ProductMonotone ==
  ASSUME NEW a \in Int, NEW b \in Int, NEW c \in Nat, a <= b
  PROVE  a * c <= b * c /\ c * a <= c * b
OBVIOUS

LEMMA ProductPositive ==
  ASSUME NEW a \in Nat, NEW b \in Nat
  PROVE  /\ a * b \in Nat /\ (a * b > 0 <=> a > 0 /\ b > 0)
OBVIOUS

LEMMA QuotientIs ==
  ASSUME NEW a \in Int, NEW c \in Nat, c > 0
  PROVE  /\ a \div c \in Int
         /\ c * (a \div c) <= a /\ a < c * (a \div c) + c
OBVIOUS

LEMMA QuotientMonotone ==
  ASSUME NEW a \in Int, NEW b \in Int, NEW c \in Nat, c > 0, a <= b
  PROVE  a \div c <= b \div c
<1>1. PICK p \in Int : p = a \div c
  BY QuotientIs
<1>2. PICK q \in Int : q = b \div c
  BY QuotientIs
<1>3. c * p <= a /\ b < c * q + c
  BY <1>1, <1>2, QuotientIs
<1>4. CASE p <= q
  BY <1>1, <1>2, <1>4
<1>5. CASE q + 1 <= p
  <2>1. c * (q + 1) <= c * p
    BY <1>5, ProductMonotone
  <2>2. c * (q + 1) = c * q + c
    OBVIOUS
  <2> QED
    BY <1>3, <2>1, <2>2
<1> QED
  BY <1>4, <1>5

LEMMA QuotientBounded ==
  ASSUME NEW a \in Nat, NEW k \in Nat, NEW c \in Nat, c > 0, a <= k * c
  PROVE  a \div c \in Int /\ 0 <= a \div c /\ a \div c <= k
<1>1. PICK p \in Int : p = a \div c
  BY QuotientIs
<1>2. c * p <= a /\ a < c * p + c
  BY <1>1, QuotientIs
<1>3. p >= 0
  <2>1. CASE p <= -1
    <3>1. c * p <= c * (-1)
      BY <2>1, ProductMonotone
    <3>2. c * (-1) = -c
      OBVIOUS
    <3> QED
      BY <1>2, <3>1, <3>2
  <2> QED
    BY <2>1
<1>4. p <= k
  <2>1. CASE k + 1 <= p
    <3>1. c * (k + 1) <= c * p
      BY <2>1, ProductMonotone
    <3>2. c * (k + 1) = k * c + c
      OBVIOUS
    <3> QED
      BY <1>2, <3>1, <3>2
  <2> QED
    BY <2>1
<1> QED
  BY <1>1, <1>3, <1>4

-----------------------------------------------------------------------------
(* Quantiles *)

Target(num, q) == q[Max(DOMAIN q)] * num
Reached(num, den, q) == {b \in DOMAIN q : q[b] * den >= Target(num, q)}
Hit(num, den, q) == Min(Reached(num, den, q))
Below(q, h) == {b \in DOMAIN q : b < h}
BoundBefore(q, h) == IF Below(q, h) = {} THEN 0 ELSE Max(Below(q, h))
CountBefore(q, h) == IF Below(q, h) = {} THEN 0 ELSE q[Max(Below(q, h))]
Interpolated(num, den, q, h) ==
  BoundBefore(q, h) * Scale
    + ((h - BoundBefore(q, h)) * Scale * (Target(num, q) - CountBefore(q, h) * den))
      \div ((q[h] - CountBefore(q, h)) * den)
In(num, den, q, h) ==
  IF h = Inf THEN IF CountBefore(q, h) > 0 THEN BoundBefore(q, h) * Scale ELSE Missing
  ELSE IF q[h] - CountBefore(q, h) <= 0 THEN h * Scale
  ELSE Interpolated(num, den, q, h)

LEMMA QuantileIs ==
  ASSUME NEW num, NEW den, NEW q
  PROVE  Quantile(num, den, q)
           = IF DOMAIN q = {} \/ q[Max(DOMAIN q)] = 0 THEN Missing
             ELSE In(num, den, q, Hit(num, den, q))
BY DEF Quantile, In, Interpolated, Hit, Reached, Below, BoundBefore, CountBefore, Target

Observed(q) ==
  /\ DOMAIN q \subseteq AllBounds /\ DOMAIN q # {} /\ \A b \in DOMAIN q : q[b] \in Nat
  /\ q[Max(DOMAIN q)] > 0

LEMMA BoundsAreNumbers ==
  /\ AllBounds \subseteq Nat \ {0} /\ IsFiniteSet(AllBounds) /\ Inf \notin Bounds
  /\ Max(Bounds) \in Bounds /\ \A b \in Bounds : b <= Max(Bounds)
  /\ Max(AllBounds) = Inf
<1>1. Bounds \subseteq Nat \ {0} /\ Inf \in Nat /\ \A b \in Bounds : b < Inf
  BY BoundsAssumption
<1>2. IsFiniteSet(Bounds) /\ Bounds # {} /\ Bounds \subseteq Int
  BY BoundsAssumption
<1>3. Max(Bounds) \in Bounds /\ \A b \in Bounds : b <= Max(Bounds)
  BY <1>2, MaxIsMax
<1>4. Inf > 0
  <2>1. PICK b \in Nat \ {0} : b < Inf
    BY <1>1, <1>3
  <2> QED
    BY <1>1, <2>1
<1>5. AllBounds \subseteq Nat \ {0}
  BY <1>1, <1>4 DEF AllBounds
<1>6. IsFiniteSet(AllBounds)
  BY <1>2, FS_AddElement DEF AllBounds
<1>7. Inf \notin Bounds
  BY <1>1
<1>8. Max(AllBounds) = Inf
  <2>1. Inf \in AllBounds /\ AllBounds \subseteq Int /\ \A b \in AllBounds : b <= Inf
    BY <1>1 DEF AllBounds
  <2> QED
    BY <2>1, MaxIs
<1> QED
  BY <1>3, <1>5, <1>6, <1>7, <1>8

LEMMA SomeBounds ==
  ASSUME NEW D, D \subseteq AllBounds
  PROVE  /\ D \subseteq Nat /\ D \subseteq Int /\ IsFiniteSet(D)
         /\ D # {} => Max(D) \in D
<1>1. \A b \in AllBounds : b \in Nat /\ b \in Int
  BY BoundsAreNumbers
<1>2. D \subseteq Nat /\ D \subseteq Int
  BY <1>1
<1>3. IsFiniteSet(D)
  BY BoundsAreNumbers, FS_Subset
<1> QED
  BY <1>2, <1>3, MaxIsMax

\* The bucket in which a quantile falls.
LEMMA HitIs ==
  ASSUME NEW num \in Nat, NEW den \in Nat, num <= den, NEW q, Observed(q)
  PROVE  LET h == Hit(num, den, q) IN
         /\ Target(num, q) \in Nat
         /\ h \in DOMAIN q /\ q[h] * den >= Target(num, q)
         /\ \A b \in DOMAIN q : b < h => q[b] * den < Target(num, q)
<1> DEFINE D == DOMAIN q
<1>1. D \subseteq Int /\ IsFiniteSet(D) /\ D # {} /\ D \subseteq Nat
  <2>1. D \subseteq AllBounds /\ D # {}
    BY DEF Observed
  <2> QED
    BY <2>1, SomeBounds
<1>2. Max(D) \in D
  BY <1>1, MaxIsMax
<1>3. PICK top \in Nat : top = q[Max(D)]
  BY <1>2 DEF Observed
<1>4. top * num <= top * den /\ top * num \in Nat
  BY ProductMonotone, ProductPositive
<1>5. Target(num, q) = top * num
  BY <1>3 DEF Target
<1>6. Max(D) \in Reached(num, den, q) /\ Reached(num, den, q) \subseteq D
  BY <1>2, <1>3, <1>4, <1>5 DEF Reached
<1> HIDE DEF D
<1>7. /\ Hit(num, den, q) \in Reached(num, den, q)
      /\ \A b \in Reached(num, den, q) : Hit(num, den, q) <= b
  <2>1. Reached(num, den, q) \subseteq Nat /\ Reached(num, den, q) # {}
    BY <1>1, <1>6
  <2> QED
    BY <2>1, MinIsMin DEF Hit
<1>8. ASSUME NEW b \in D, b < Hit(num, den, q)
      PROVE  q[b] * den < Target(num, q)
  <2>1. b \notin Reached(num, den, q)
    <3>1. b \in Int /\ Hit(num, den, q) \in Int
      BY <1>1, <1>6, <1>7
    <3> QED
      BY <1>7, <1>8, <3>1
  <2>2. ~(q[b] * den >= Target(num, q))
    BY <1>8, <2>1 DEF Reached, D
  <2>3. q[b] * den \in Nat
    BY <1>8, ProductPositive DEF Observed, D
  <2> QED
    BY <1>4, <1>5, <2>2, <2>3
<1>9. q[Hit(num, den, q)] * den >= Target(num, q)
  BY <1>7 DEF Reached
<1> QED
  BY <1>4, <1>5, <1>6, <1>7, <1>8, <1>9 DEF D

\* What lies before a bucket.
LEMMA BeforeIs ==
  ASSUME NEW q, Observed(q), NEW h \in DOMAIN q
  PROVE  /\ BoundBefore(q, h) \in Nat /\ BoundBefore(q, h) < h /\ CountBefore(q, h) \in Nat
         /\ \A b \in DOMAIN q : b < h => b <= BoundBefore(q, h)
         /\ \/ Below(q, h) = {} /\ BoundBefore(q, h) = 0 /\ CountBefore(q, h) = 0
            \/ /\ BoundBefore(q, h) \in DOMAIN q
               /\ CountBefore(q, h) = q[BoundBefore(q, h)]
<1>1. h \in Nat /\ h > 0 /\ DOMAIN q \subseteq Nat /\ IsFiniteSet(DOMAIN q)
  <2>1. DOMAIN q \subseteq AllBounds
    BY DEF Observed
  <2>2. IsFiniteSet(DOMAIN q)
    BY <2>1, BoundsAreNumbers, FS_Subset
  <2>3. h \in Nat \ {0} /\ DOMAIN q \subseteq Nat
    BY <2>1, BoundsAreNumbers
  <2> QED
    BY <2>2, <2>3
<1>2. CASE Below(q, h) = {}
  BY <1>1, <1>2 DEF BoundBefore, CountBefore, Below
<1>3. CASE Below(q, h) # {}
  <2>1. Below(q, h) \subseteq Int /\ IsFiniteSet(Below(q, h))
    <3>1. Below(q, h) \subseteq DOMAIN q
      BY DEF Below
    <3> QED
      BY <1>1, <3>1, FS_Subset
  <2>2. Max(Below(q, h)) \in Below(q, h) /\ \A b \in Below(q, h) : b <= Max(Below(q, h))
    BY <1>3, <2>1, MaxIsMax
  <2>3. BoundBefore(q, h) = Max(Below(q, h)) /\ CountBefore(q, h) = q[Max(Below(q, h))]
    BY <1>3 DEF BoundBefore, CountBefore
  <2>4. BoundBefore(q, h) \in DOMAIN q /\ BoundBefore(q, h) < h
    BY <2>2, <2>3 DEF Below
  <2>5. q[BoundBefore(q, h)] \in Nat /\ BoundBefore(q, h) \in Nat
    BY <1>1, <2>4 DEF Observed
  <2>6. \A b \in DOMAIN q : b < h => b <= BoundBefore(q, h)
    BY <2>2, <2>3 DEF Below
  <2> QED
    BY <2>3, <2>4, <2>5, <2>6
<1> QED
  BY <1>2, <1>3

\* A quantile in a finite bucket lies between the bound before it and its own.
LEMMA WithinBucket ==
  ASSUME NEW num \in Nat, NEW den \in Nat, num <= den, den > 0, NEW q, Observed(q),
         NEW h \in DOMAIN q, q[h] * den >= Target(num, q), Target(num, q) \in Nat,
         \A b \in DOMAIN q : b < h => q[b] * den < Target(num, q), h # Inf
  PROVE  /\ In(num, den, q, h) \in Int
         /\ BoundBefore(q, h) * Scale <= In(num, den, q, h)
         /\ In(num, den, q, h) <= h * Scale
<1>1. PICK c \in Nat : c = q[h]
  BY DEF Observed
<1>2. PICK t \in Nat : t = Target(num, q)
  OBVIOUS
<1>3. PICK p \in Nat : p = BoundBefore(q, h)
  BY BeforeIs
<1>4. PICK k \in Nat : k = CountBefore(q, h)
  BY BeforeIs
<1>5. PICK hh \in Nat : hh = h
  BY BoundsAreNumbers DEF Observed
<1>6. p < hh
  BY <1>3, <1>5, BeforeIs
<1>7. Scale \in Nat /\ p * Scale <= hh * Scale /\ p * Scale \in Nat /\ hh * Scale \in Nat
  <2>1. Scale = 100
    BY DEF Scale
  <2> QED
    BY <1>6, <2>1
<1>8. In(num, den, q, h) = IF c - k <= 0 THEN hh * Scale
                           ELSE p * Scale + ((hh - p) * Scale * (t - k * den)) \div ((c - k) * den)
  BY <1>1, <1>2, <1>3, <1>4, <1>5 DEF In, Interpolated
<1>9. CASE c - k <= 0
  BY <1>3, <1>5, <1>7, <1>8, <1>9
<1>10. CASE c - k > 0
  <2>1. k * den <= t
    <3>1. CASE Below(q, h) = {} /\ CountBefore(q, h) = 0
      BY <1>4, <3>1
    <3>2. CASE BoundBefore(q, h) \in DOMAIN q /\ CountBefore(q, h) = q[BoundBefore(q, h)]
      <4>1. q[BoundBefore(q, h)] * den < Target(num, q)
        BY <3>2, BeforeIs
      <4>2. k * den < t
        BY <1>2, <1>4, <3>2, <4>1
      <4>3. k * den \in Int
        OBVIOUS
      <4> QED
        BY <4>2, <4>3
    <3> QED
      BY <3>1, <3>2, BeforeIs
  <2>2. PICK x \in Nat : x = t - k * den
    BY <2>1
  <2>3. PICK w \in Nat : w = (hh - p) * Scale
    <3>1. hh - p \in Nat
      BY <1>6
    <3> QED
      BY <1>7, <3>1
  <2>4. PICK y \in Nat : y = (c - k) * den /\ y > 0
    <3>1. c - k \in Nat /\ c - k > 0
      BY <1>10
    <3> QED
      BY <3>1, ProductPositive
  <2>5. x <= y
    <3>1. c * den >= t
      BY <1>1, <1>2
    <3>2. (c - k) * den = c * den - k * den
      OBVIOUS
    <3>3. c * den \in Int /\ k * den \in Int
      OBVIOUS
    <3> QED
      BY <2>2, <2>4, <3>1, <3>2, <3>3
  <2>6. w * x \in Nat /\ w * x <= w * y
    BY <2>5, ProductMonotone, ProductPositive
  <2>7. PICK d \in Nat : d = (w * x) \div y /\ d <= w
    <3>1. PICK z \in Nat : z = w * x
      BY <2>6
    <3>2. z \div y \in Int /\ 0 <= z \div y /\ z \div y <= w
      BY <2>4, <2>6, <3>1, QuotientBounded
    <3> QED
      BY <3>1, <3>2
  <2>8. In(num, den, q, h) = p * Scale + d
    BY <1>8, <1>10, <2>2, <2>3, <2>4, <2>7
  <2>9. p * Scale + w = hh * Scale
    BY <2>3, <1>7 DEF Scale
  <2> QED
    BY <1>3, <1>5, <1>7, <2>7, <2>8, <2>9
<1> QED
  BY <1>9, <1>10

\* In one bucket, the higher quantile is no lower.
LEMMA SameBucketOrdered ==
  ASSUME NEW n1 \in Nat, NEW n2 \in Nat, NEW den \in Nat, n1 <= n2, den > 0, NEW q, Observed(q),
         NEW h \in DOMAIN q, h # Inf
  PROVE  In(n1, den, q, h) <= In(n2, den, q, h)
<1>1. PICK c \in Nat : c = q[h]
  BY DEF Observed
<1>2. PICK p \in Nat : p = BoundBefore(q, h)
  BY BeforeIs
<1>3. PICK k \in Nat : k = CountBefore(q, h)
  BY BeforeIs
<1>4. PICK hh \in Nat : hh = h
  BY BoundsAreNumbers DEF Observed
<1>5. PICK top \in Nat : top = q[Max(DOMAIN q)]
  <2>1. DOMAIN q \subseteq AllBounds /\ DOMAIN q # {} /\ \A b \in DOMAIN q : q[b] \in Nat
    BY DEF Observed
  <2>2. Max(DOMAIN q) \in DOMAIN q
    BY <2>1, SomeBounds
  <2> QED
    BY <2>1, <2>2
<1>6. Scale = 100 /\ p < hh
  BY <1>2, <1>4, BeforeIs DEF Scale
<1> DEFINE in(n) == IF c - k <= 0 THEN hh * Scale
                    ELSE p * Scale + ((hh - p) * Scale * (top * n - k * den)) \div ((c - k) * den)
<1>7. In(n1, den, q, h) = in(n1) /\ In(n2, den, q, h) = in(n2)
  BY <1>1, <1>2, <1>3, <1>4, <1>5 DEF In, Interpolated, Target
<1>8. in(n1) <= in(n2)
  <2>1. CASE c - k <= 0
    <3>1. hh * Scale <= hh * Scale
      BY <1>6
    <3> QED
      BY <2>1, <3>1
  <2>2. CASE c - k > 0
    <3>1. PICK y \in Nat : y = (c - k) * den /\ y > 0
      <4>1. c - k \in Nat /\ c - k > 0
        BY <2>2
      <4> QED
        BY <4>1, ProductPositive
    <3>2. PICK w \in Nat : w = (hh - p) * Scale
      BY <1>6
    <3>3. PICK a \in Int : a = top * n1 - k * den
      OBVIOUS
    <3>4. PICK b \in Int : b = top * n2 - k * den
      OBVIOUS
    <3>5. a <= b
      <4>1. top * n1 <= top * n2
        BY ProductMonotone
      <4>2. top * n1 \in Int /\ top * n2 \in Int /\ k * den \in Int
        OBVIOUS
      <4> QED
        BY <3>3, <3>4, <4>1, <4>2
    <3>6. w * a <= w * b /\ w * a \in Int /\ w * b \in Int
      BY <3>5, ProductMonotone
    <3>7. (w * a) \div y <= (w * b) \div y
      BY <3>1, <3>6, QuotientMonotone
    <3>8. (w * a) \div y \in Int /\ (w * b) \div y \in Int
      BY <3>1, <3>6, QuotientIs
    <3>9. p * Scale \in Int
      BY <1>6
    <3>10. in(n1) = p * Scale + (w * a) \div y /\ in(n2) = p * Scale + (w * b) \div y
      BY <2>2, <3>1, <3>2, <3>3, <3>4
    <3> QED
      BY <3>7, <3>8, <3>9, <3>10
  <2> QED
    BY <2>1, <2>2
<1> QED
  BY <1>7, <1>8

\* The percentiles of a histogram are in order, lie within its finite buckets,
\* and the higher is known when the lower is, if the counts are cumulative.
LEMMA QuantilesAreOrdered ==
  ASSUME NEW n1 \in Nat, NEW n2 \in Nat, NEW den \in Nat, n1 > 0, n1 <= n2, n2 <= den,
         NEW q, DOMAIN q \subseteq AllBounds, \A b \in DOMAIN q : q[b] \in Nat
  PROVE  LET lo == Quantile(n1, den, q)
             hi == Quantile(n2, den, q)
         IN  /\ lo = Missing \/ lo \in 0..(Max(Bounds) * Scale)
             /\ hi = Missing \/ hi \in 0..(Max(Bounds) * Scale)
             /\ lo # Missing /\ hi # Missing => lo <= hi
             /\ (\A a, b \in DOMAIN q : a <= b => q[a] <= q[b]) /\ lo # Missing => hi # Missing
<1> DEFINE lo == Quantile(n1, den, q)
           hi == Quantile(n2, den, q)
<1>1. CASE DOMAIN q = {} \/ q[Max(DOMAIN q)] = 0
  <2>1. lo = Missing /\ hi = Missing
    BY <1>1, QuantileIs
  <2> QED
    BY <2>1
<1>2. CASE ~(DOMAIN q = {} \/ q[Max(DOMAIN q)] = 0)
  <2>1. Observed(q)
    <3>1. DOMAIN q # {} /\ q[Max(DOMAIN q)] # 0
      BY <1>2
    <3>2. Max(DOMAIN q) \in DOMAIN q
      BY <3>1, SomeBounds
    <3>3. q[Max(DOMAIN q)] > 0
      BY <3>1, <3>2
    <3> QED
      BY <3>1, <3>3 DEF Observed
  <2>2. PICK h1 : h1 = Hit(n1, den, q)
    OBVIOUS
  <2>3. PICK h2 : h2 = Hit(n2, den, q)
    OBVIOUS
  <2>4. lo = In(n1, den, q, h1) /\ hi = In(n2, den, q, h2)
    BY <1>2, <2>2, <2>3, QuantileIs
  <2>5. /\ Target(n1, q) \in Nat
        /\ h1 \in DOMAIN q /\ q[h1] * den >= Target(n1, q)
        /\ \A b \in DOMAIN q : b < h1 => q[b] * den < Target(n1, q)
    <3>1. n1 <= den
      OBVIOUS
    <3> QED
      BY <2>1, <2>2, <3>1, HitIs
  <2>6. /\ Target(n2, q) \in Nat
        /\ h2 \in DOMAIN q /\ q[h2] * den >= Target(n2, q)
        /\ \A b \in DOMAIN q : b < h2 => q[b] * den < Target(n2, q)
    BY <2>1, <2>3, HitIs
  <2>7. den > 0 /\ Scale = 100
    BY DEF Scale
  <2>8. h1 \in Nat /\ h2 \in Nat /\ Inf \in Nat /\ Max(Bounds) \in Nat
        /\ (h1 # Inf => h1 \in Bounds) /\ (h2 # Inf => h2 \in Bounds)
    BY <2>5, <2>6, BoundsAreNumbers, BoundsAssumption DEF AllBounds
  <2>9. \A b \in Bounds : b \in Nat /\ b <= Max(Bounds) /\ b < Inf
    BY BoundsAreNumbers, BoundsAssumption
  <2>10. PICK top \in Nat : top = Max(Bounds) * Scale
    BY <2>7, <2>8
  <2>11. \A h \in DOMAIN q : BoundBefore(q, h) * Scale \in 0..top
    <3> TAKE h \in DOMAIN q
    <3>1. PICK p \in Nat : p = BoundBefore(q, h) /\ p < h
      BY <2>1, BeforeIs
    <3>2. p <= Max(Bounds)
      <4>1. CASE p = 0
        BY <2>8, <4>1
      <4>2. CASE p # 0
        <5>1. p \in DOMAIN q
          BY <2>1, <3>1, <4>2, BeforeIs
        <5>2. p # Inf
          <6>1. h \in AllBounds /\ \A b \in AllBounds : b <= Inf /\ b \in Nat
            BY <2>8, <2>9 DEF AllBounds
          <6> QED
            BY <2>8, <3>1, <6>1
        <5>3. p \in Bounds
          BY <5>1, <5>2 DEF AllBounds
        <5> QED
          BY <2>9, <5>3
      <4> QED
        BY <4>1, <4>2
    <3> QED
      BY <2>7, <2>8, <2>10, <3>1, <3>2
  <2>12. \A h \in Bounds : h * Scale \in 0..top
    BY <2>7, <2>8, <2>9, <2>10
  <2>13. \A n \in {n1, n2} : n \in Nat /\ n <= den
    OBVIOUS
  <2>14. h1 # Inf => /\ lo \in Int /\ BoundBefore(q, h1) * Scale <= lo /\ lo <= h1 * Scale
    BY <2>1, <2>4, <2>5, <2>7, <2>13, WithinBucket
  <2>15. h2 # Inf => /\ hi \in Int /\ BoundBefore(q, h2) * Scale <= hi /\ hi <= h2 * Scale
    BY <2>1, <2>4, <2>6, <2>7, <2>13, WithinBucket
  <2>16. h1 = Inf => lo = IF CountBefore(q, h1) > 0 THEN BoundBefore(q, h1) * Scale ELSE Missing
    BY <2>4 DEF In
  <2>17. h2 = Inf => hi = IF CountBefore(q, h2) > 0 THEN BoundBefore(q, h2) * Scale ELSE Missing
    BY <2>4 DEF In
  <2>18. h1 <= h2
    <3>1. Target(n1, q) <= Target(n2, q)
      <4>1. PICK t \in Nat : t = q[Max(DOMAIN q)]
        <5>1. Max(DOMAIN q) \in DOMAIN q
          BY <1>2, SomeBounds
        <5> QED
          BY <5>1
      <4>2. t * n1 <= t * n2
        BY ProductMonotone
      <4> QED
        BY <4>1, <4>2 DEF Target
    <3>2. CASE h2 < h1
      <4>1. q[h2] * den < Target(n1, q)
        BY <2>5, <2>6, <3>2
      <4>2. q[h2] * den \in Int
        BY <2>6
      <4> QED
        BY <2>5, <2>6, <3>1, <4>1, <4>2
    <3> QED
      BY <2>8, <3>2
  <2> HIDE DEF lo, hi
  <2>19. lo = Missing \/ lo \in 0..top
    BY <2>5, <2>8, <2>10, <2>11, <2>12, <2>14, <2>16
  <2>20. hi = Missing \/ hi \in 0..top
    BY <2>6, <2>8, <2>10, <2>11, <2>12, <2>15, <2>17
  <2>21. ASSUME lo # Missing, hi # Missing PROVE lo <= hi
    <3>1. CASE h1 = h2
      <4>1. CASE h1 = Inf
        BY <2>11, <2>16, <2>17, <2>5, <2>21, <3>1, <4>1
      <4>2. CASE h1 # Inf
        <5>1. In(n1, den, q, h1) <= In(n2, den, q, h1)
          BY <2>1, <2>5, <2>7, <4>2, SameBucketOrdered
        <5> QED
          BY <2>4, <3>1, <5>1
      <4> QED
        BY <4>1, <4>2
    <3>2. CASE h1 < h2
      <4>1. h1 # Inf
        <5>1. h2 <= Inf
          BY <2>8, <2>9
        <5> QED
          BY <2>8, <3>2, <5>1
      <4>2. PICK p \in Nat : p = BoundBefore(q, h2)
        BY <2>1, <2>6, BeforeIs
      <4>3. h1 <= p
        BY <2>1, <2>5, <2>6, <3>2, <4>2, BeforeIs
      <4>4. h1 * Scale <= p * Scale /\ h1 * Scale \in Int /\ p * Scale \in Int
        BY <2>7, <2>8, <4>3
      <4>5. hi \in Int /\ p * Scale <= hi
        BY <2>8, <2>15, <2>17, <2>21, <4>2, <4>4
      <4>6. lo \in Int /\ lo <= h1 * Scale
        BY <2>14, <4>1
      <4> QED
        BY <4>4, <4>5, <4>6
    <3> QED
      BY <2>8, <2>18, <3>1, <3>2
  <2>22. ASSUME \A a, b \in DOMAIN q : a <= b => q[a] <= q[b], lo # Missing
         PROVE  hi # Missing
    <3>1. CASE h2 # Inf
      BY <2>15, <3>1, MissingIsNoReading
    <3>2. CASE h2 = Inf
      <4>1. CountBefore(q, h2) > 0
        <5>1. CASE h1 = h2
          BY <2>16, <2>22, <3>2, <5>1
        <5>2. CASE h1 # h2
          <6>1. h1 < h2
            BY <2>8, <2>18, <5>2
          <6>2. h1 <= BoundBefore(q, h2) /\ h1 \in Below(q, h2)
            BY <2>1, <2>5, <2>6, <6>1, BeforeIs DEF Below
          <6>3. BoundBefore(q, h2) \in DOMAIN q /\ CountBefore(q, h2) = q[BoundBefore(q, h2)]
            BY <2>1, <2>6, <6>2, BeforeIs
          <6>4. q[h1] <= CountBefore(q, h2)
            BY <2>5, <2>22, <6>2, <6>3
          <6>5. q[h1] > 0
            <7>1. Target(n1, q) > 0
              <8>1. q[Max(DOMAIN q)] \in Nat /\ q[Max(DOMAIN q)] > 0
                <9>1. Max(DOMAIN q) \in DOMAIN q
                  BY <1>2, SomeBounds
                <9> QED
                  BY <2>1, <9>1 DEF Observed
              <8> QED
                BY <8>1, ProductPositive DEF Target
            <7>2. q[h1] \in Nat /\ q[h1] * den > 0
              <8>1. q[h1] \in Nat
                BY <2>5
              <8>2. q[h1] * den \in Nat
                BY <8>1, ProductPositive
              <8> QED
                BY <2>5, <7>1, <8>1, <8>2
            <7> QED
              BY <7>2, ProductPositive
          <6>6. CountBefore(q, h2) \in Nat /\ q[h1] \in Nat
            BY <2>1, <2>5, <2>6, BeforeIs
          <6> QED
            BY <6>4, <6>5, <6>6
        <5> QED
          BY <5>1, <5>2
      <4>2. hi \in 0..top
        BY <2>6, <2>11, <2>17, <3>2, <4>1
      <4> QED
        BY <4>2, MissingIsNoReading
    <3> QED
      BY <3>1, <3>2
  <2> QED
    BY <2>10, <2>19, <2>20, <2>21, <2>22 DEF lo, hi
<1> QED
  BY <1>1, <1>2

-----------------------------------------------------------------------------
(* What a scrape reads of the engines *)

AllMetrics == GaugeMetrics \cup CounterMetrics
Name(m, i) == Aliases[m][i]
EngineOK == setup \in Setups /\ engine \in [Ranks -> Engines]

LEMMA NamesTellApart ==
  /\ \A m \in AllMetrics \cup {Ttft} : DOMAIN Aliases[m] = {1, 2}
  /\ \A m, p \in AllMetrics \cup {Ttft}, i, j \in {1, 2} : Name(m, i) = Name(p, j) => m = p /\ i = j
  /\ Ttft \notin AllMetrics
<1>1. \A m \in AllMetrics \cup {Ttft} : DOMAIN Aliases[m] = {1, 2}
  BY DEF AllMetrics, GaugeMetrics, CounterMetrics, Ttft, Aliases
<1>2. ASSUME NEW m \in AllMetrics \cup {Ttft}, NEW p \in AllMetrics \cup {Ttft},
             NEW i \in {1, 2}, NEW j \in {1, 2}, Name(m, i) = Name(p, j)
      PROVE  m = p /\ i = j
  BY <1>2 DEF AllMetrics, GaugeMetrics, CounterMetrics, Ttft, Aliases, Name
<1>3. Ttft \notin AllMetrics
  BY DEF AllMetrics, GaugeMetrics, CounterMetrics, Ttft
<1> QED
  BY <1>1, <1>2, <1>3

LEMMA SetupIs ==
  ASSUME setup \in Setups
  PROVE  /\ setup.names \subseteq {1, 2} /\ setup.names # {} /\ Min(setup.names) \in setup.names
         /\ setup.omits \subseteq AllMetrics /\ setup.powerless \subseteq Ranks
         /\ setup.nvml \in BOOLEAN /\ setup.energy \in BOOLEAN /\ setup.explicit \in BOOLEAN
<1>1. setup.names \subseteq {1, 2} /\ setup.names # {}
  BY WindowAssumption
<1>2. setup.names \subseteq Nat
  BY <1>1
<1>3. Min(setup.names) \in setup.names
  BY <1>1, <1>2, MinIsMin
<1> QED
  BY <1>1, <1>3, WindowAssumption DEF AllMetrics

\* The requests of a histogram within its bounds; one request more.
LEMMA WithinIs ==
  ASSUME NEW f, f \in [AllBounds -> Nat]
  PROVE  /\ \A b \in AllBounds : Within(f, b) \in Nat
         /\ \A a, b \in AllBounds : a <= b => Within(f, a) <= Within(f, b)
<1> DEFINE S(c) == {x \in AllBounds : x <= c}
<1>1. \A x \in AllBounds : x \in Nat
  BY BoundsAreNumbers
<1>2. \A c : IsFiniteSet(S(c)) /\ \A x \in S(c) : f[x] \in Nat
  <2>1. \A c : S(c) \subseteq AllBounds
    OBVIOUS
  <2> HIDE DEF S
  <2>2. \A c : IsFiniteSet(S(c))
    BY <2>1, BoundsAreNumbers, FS_Subset
  <2> QED
    BY <2>1, <2>2
<1>3. ASSUME NEW b \in AllBounds PROVE Within(f, b) \in Nat
  <2>1. IsFiniteSet(S(b)) /\ \A x \in S(b) : f[x] \in Nat
    BY <1>2
  <2> HIDE DEF S
  <2>2. SumFunctionOnSet(f, S(b)) \in Nat
    BY <2>1, SumIn
  <2> QED
    BY <2>2 DEF Within, S
<1>4. ASSUME NEW a \in AllBounds, NEW b \in AllBounds, a <= b
      PROVE  Within(f, a) <= Within(f, b)
  <2>1. S(a) \in SUBSET S(b)
    <3>1. ASSUME NEW x \in AllBounds, x <= a PROVE x <= b
      BY <1>1, <1>4, <3>1
    <3> QED
      BY <3>1
  <2>2. IsFiniteSet(S(b)) /\ \A x \in S(b) : f[x] \in Nat
    BY <1>2
  <2> HIDE DEF S
  <2>3. SumFunctionOnSet(f, S(a)) <= SumFunctionOnSet(f, S(b))
    BY <2>1, <2>2, SumSubset
  <2> QED
    BY <2>3 DEF Within, S
<1> QED
  BY <1>3, <1>4

LEMMA OneRequestMore ==
  ASSUME NEW f, f \in [AllBounds -> Nat], NEW b \in AllBounds, NEW a \in AllBounds
  PROVE  Within([f EXCEPT ![b] = @ + 1], a) = Within(f, a) + (IF b <= a THEN 1 ELSE 0)
<1> DEFINE g == [f EXCEPT ![b] = @ + 1]
           S == {x \in AllBounds : x <= a}
<1>1. IsFiniteSet(S)
  BY BoundsAreNumbers, FS_Subset
<1>2. /\ \A x \in S : f[x] \in Int /\ g[x] \in Int
      /\ \A x \in S \ {b} : f[x] = g[x]
      /\ g[b] = f[b] + 1 /\ f[b] \in Int
  OBVIOUS
<1>3. PICK w \in Nat : w = Within(f, a)
  BY WithinIs
<1>4. Within(f, a) = SumFunctionOnSet(f, S) /\ Within(g, a) = SumFunctionOnSet(g, S)
  BY DEF Within
<1>5. b \in S <=> b <= a
  OBVIOUS
<1> HIDE DEF g, S
<1>6. CASE b \in S
  <2>1. SumFunctionOnSet(g, S) = SumFunctionOnSet(f, S) + (g[b] - f[b])
    BY <1>1, <1>2, <1>6, SumChange
  <2>2. g[b] - f[b] = 1
    BY <1>2
  <2> QED
    BY <1>4, <1>5, <1>6, <2>1, <2>2 DEF g
<1>7. CASE b \notin S
  <2>1. \A x \in S : f[x] = g[x]
    BY <1>2, <1>7
  <2>2. SumFunctionOnSet(g, S) = SumFunctionOnSet(f, S)
    BY <1>1, <2>1, SumSame
  <2>3. Within(f, a) + 0 = Within(f, a)
    BY <1>3
  <2> QED
    BY <1>4, <1>5, <1>7, <2>2, <2>3 DEF g
<1> QED
  BY <1>6, <1>7

LEMMA InfIsABound == Inf \in AllBounds /\ \A b \in AllBounds : b <= Inf
BY BoundsAssumption DEF AllBounds

LEMMA EngineIs ==
  ASSUME EngineOK, NEW r \in Ranks
  PROVE  /\ engine[r] \in Engines /\ engine[r].first \in [AllBounds -> Nat]
         /\ engine[r].prompt \in Nat /\ engine[r].generated \in Nat /\ engine[r].running \in Nat
         /\ Started(r) \in Nat /\ \A b \in AllBounds : Bucket(r, b) \in Nat
         /\ \A m \in AllMetrics : Reading(r, m) \in Nat
<1>1. engine[r] \in Engines
  BY DEF EngineOK
<1>2. /\ engine[r].first \in [AllBounds -> Nat]
      /\ engine[r].prompt \in Nat /\ engine[r].generated \in Nat /\ engine[r].running \in Nat
  BY <1>1 DEF Engines
<1>3. \A b \in AllBounds : Bucket(r, b) \in Nat
  BY <1>2, WithinIs DEF Bucket
<1>4. Started(r) \in Nat
  BY <1>3, InfIsABound DEF Started
<1>5. ASSUME NEW m \in AllMetrics PROVE Reading(r, m) \in Nat
  BY <1>2 DEF AllMetrics, GaugeMetrics, CounterMetrics, Reading
<1> QED
  BY <1>1, <1>2, <1>3, <1>4, <1>5

-----------------------------------------------------------------------------
(* The page of the server *)

LEMMA OnPage ==
  ASSUME NEW s
  PROVE  s \in Page <=>
           \E i \in setup.names, r \in Ranks :
             \/ \E m \in AllMetrics \ setup.omits : s = Sample(Name(m, i), "value", 0, r, Reading(r, m))
             \/ \E b \in AllBounds : s = Sample(Name(Ttft, i), "bucket", b, r, Bucket(r, b))
             \/ s = Sample(Name(Ttft, i), "count", 0, r, Started(r))
<1> DEFINE A(i) == {Sample(Aliases[m][i], "value", 0, r, Reading(r, m)) :
                      m \in (GaugeMetrics \cup CounterMetrics) \ setup.omits, r \in Ranks}
           B(i) == {Sample(Aliases[Ttft][i], "bucket", b, r, Bucket(r, b)) :
                      b \in AllBounds, r \in Ranks}
           C(i) == {Sample(Aliases[Ttft][i], "count", 0, r, Started(r)) : r \in Ranks}
<1>1. Page = UNION {A(i) \cup B(i) \cup C(i) : i \in setup.names}
  BY DEF Page
<1>2. \A i : s \in A(i) <=> \E m \in AllMetrics \ setup.omits, r \in Ranks :
                             s = Sample(Name(m, i), "value", 0, r, Reading(r, m))
  BY DEF AllMetrics, Name
<1>3. \A i : s \in B(i) <=> \E b \in AllBounds, r \in Ranks :
                             s = Sample(Name(Ttft, i), "bucket", b, r, Bucket(r, b))
  BY DEF Name
<1>4. \A i : s \in C(i) <=> \E r \in Ranks : s = Sample(Name(Ttft, i), "count", 0, r, Started(r))
  BY DEF Name
<1> HIDE DEF A, B, C
<1>5. s \in Page <=> \E i \in setup.names : s \in A(i) \/ s \in B(i) \/ s \in C(i)
  BY <1>1
<1> QED
  BY <1>2, <1>3, <1>4, <1>5

LEMMA NameOf ==
  ASSUME NEW n, NEW p, NEW b, NEW r, NEW v
  PROVE  /\ Sample(n, p, b, r, v).name = n /\ Sample(n, p, b, r, v).part = p
         /\ Sample(n, p, b, r, v).le = b /\ Sample(n, p, b, r, v).engine = r
         /\ Sample(n, p, b, r, v).value = v
BY DEF Sample

LEMMA PageSeries ==
  ASSUME setup \in Setups, NEW m \in AllMetrics, NEW i \in {1, 2}
  PROVE  {s \in Page : s.name = Name(m, i)}
           = IF m \in setup.omits \/ i \notin setup.names THEN {}
             ELSE {Sample(Name(m, i), "value", 0, r, Reading(r, m)) : r \in Ranks}
<1>1. \A j \in setup.names : j \in {1, 2}
  BY SetupIs
<1>2. ASSUME NEW s \in Page, s.name = Name(m, i)
      PROVE  /\ m \notin setup.omits /\ i \in setup.names
             /\ \E r \in Ranks : s = Sample(Name(m, i), "value", 0, r, Reading(r, m))
  <2>1. PICK j \in setup.names, r \in Ranks :
             \/ \E p \in AllMetrics \ setup.omits : s = Sample(Name(p, j), "value", 0, r, Reading(r, p))
             \/ \E b \in AllBounds : s = Sample(Name(Ttft, j), "bucket", b, r, Bucket(r, b))
             \/ s = Sample(Name(Ttft, j), "count", 0, r, Started(r))
    BY OnPage
  <2>2. \A p \in AllMetrics \cup {Ttft} : Name(p, j) = Name(m, i) => p = m /\ j = i
    BY <1>1, NamesTellApart
  <2>3. m # Ttft
    BY NamesTellApart
  <2>4. CASE \E p \in AllMetrics \ setup.omits : s = Sample(Name(p, j), "value", 0, r, Reading(r, p))
    BY <1>2, <2>2, <2>4, NameOf
  <2>5. CASE \E b \in AllBounds : s = Sample(Name(Ttft, j), "bucket", b, r, Bucket(r, b))
    BY <1>2, <2>2, <2>3, <2>5, NameOf
  <2>6. CASE s = Sample(Name(Ttft, j), "count", 0, r, Started(r))
    BY <1>2, <2>2, <2>3, <2>6, NameOf
  <2> QED
    BY <2>1, <2>4, <2>5, <2>6
<1>3. ASSUME m \notin setup.omits, i \in setup.names, NEW r \in Ranks
      PROVE  Sample(Name(m, i), "value", 0, r, Reading(r, m)) \in Page
  BY <1>3, OnPage
<1>4. CASE m \in setup.omits \/ i \notin setup.names
  BY <1>2, <1>4
<1>5. CASE ~(m \in setup.omits \/ i \notin setup.names)
  <2>1. \A s : s \in Page /\ s.name = Name(m, i)
                 <=> \E r \in Ranks : s = Sample(Name(m, i), "value", 0, r, Reading(r, m))
    BY <1>2, <1>3, <1>5, NameOf
  <2>2. {s \in Page : s.name = Name(m, i)}
          = {Sample(Name(m, i), "value", 0, r, Reading(r, m)) : r \in Ranks}
    BY <2>1
  <2> QED
    BY <1>5, <2>2
<1> QED
  BY <1>4, <1>5

LEMMA PageHistogram ==
  ASSUME setup \in Setups, NEW i \in {1, 2}, NEW s
  PROVE  s \in Page /\ s.name = Name(Ttft, i)
           <=> /\ i \in setup.names
               /\ \E r \in Ranks :
                    \/ \E b \in AllBounds : s = Sample(Name(Ttft, i), "bucket", b, r, Bucket(r, b))
                    \/ s = Sample(Name(Ttft, i), "count", 0, r, Started(r))
<1>1. \A j \in setup.names : j \in {1, 2}
  BY SetupIs
<1>2. ASSUME s \in Page, s.name = Name(Ttft, i)
      PROVE  /\ i \in setup.names
             /\ \E r \in Ranks :
                  \/ \E b \in AllBounds : s = Sample(Name(Ttft, i), "bucket", b, r, Bucket(r, b))
                  \/ s = Sample(Name(Ttft, i), "count", 0, r, Started(r))
  <2>1. PICK j \in setup.names, r \in Ranks :
             \/ \E p \in AllMetrics \ setup.omits : s = Sample(Name(p, j), "value", 0, r, Reading(r, p))
             \/ \E b \in AllBounds : s = Sample(Name(Ttft, j), "bucket", b, r, Bucket(r, b))
             \/ s = Sample(Name(Ttft, j), "count", 0, r, Started(r))
    BY <1>2, OnPage
  <2>2. \A p \in AllMetrics \cup {Ttft} : Name(p, j) = Name(Ttft, i) => p = Ttft /\ j = i
    BY <1>1, NamesTellApart
  <2>3. ~\E p \in AllMetrics \ setup.omits : s = Sample(Name(p, j), "value", 0, r, Reading(r, p))
    <3>1. \A p \in AllMetrics : p # Ttft
      BY NamesTellApart
    <3> QED
      BY <1>2, <2>2, <3>1, NameOf
  <2>4. j = i
    BY <1>2, <2>1, <2>2, <2>3, NameOf
  <2> QED
    BY <2>1, <2>3, <2>4
<1>3. ASSUME i \in setup.names, NEW r \in Ranks,
             \/ \E b \in AllBounds : s = Sample(Name(Ttft, i), "bucket", b, r, Bucket(r, b))
             \/ s = Sample(Name(Ttft, i), "count", 0, r, Started(r))
      PROVE  s \in Page /\ s.name = Name(Ttft, i)
  BY <1>3, OnPage, NameOf
<1> QED
  BY <1>2, <1>3

LEMMA Selected ==
  ASSUME setup \in Setups, NEW m \in AllMetrics \cup {Ttft}
  PROVE  SelectAlias(Page, Aliases[m])
           = IF m \in setup.omits THEN {}
             ELSE {s \in Page : s.name = Name(m, Min(setup.names))}
<1> DEFINE exported == {i \in DOMAIN Aliases[m] : \E s \in Page : s.name = Aliases[m][i]}
<1>1. setup.names \subseteq {1, 2} /\ setup.omits \subseteq AllMetrics /\ Ranks # {}
  BY SetupIs, WindowAssumption
<1>2. exported = IF m \in setup.omits THEN {} ELSE setup.names
  <2>1. ASSUME NEW i \in {1, 2}
        PROVE  (\E s \in Page : s.name = Name(m, i)) <=> m \notin setup.omits /\ i \in setup.names
    <3>1. CASE m = Ttft
      <4>1. m \notin setup.omits
        BY <1>1, <3>1, NamesTellApart
      <4>2. (\E s \in Page : s.name = Name(Ttft, i)) <=> i \in setup.names
        BY <1>1, PageHistogram
      <4> QED
        BY <3>1, <4>1, <4>2
    <3>2. CASE m \in AllMetrics
      <4>1. (\E s \in Page : s.name = Name(m, i)) <=> {s \in Page : s.name = Name(m, i)} # {}
        OBVIOUS
      <4>2. {s \in Page : s.name = Name(m, i)} # {} <=> ~(m \in setup.omits \/ i \notin setup.names)
        BY <1>1, <3>2, PageSeries
      <4> QED
        BY <4>1, <4>2
    <3> QED
      BY <3>1, <3>2
  <2>2. DOMAIN Aliases[m] = {1, 2}
    BY NamesTellApart
  <2>3. \A i : i \in exported <=> i \in {1, 2} /\ \E s \in Page : s.name = Name(m, i)
    BY <2>2 DEF Name
  <2> HIDE DEF exported
  <2> QED
    BY <1>1, <2>1, <2>3
<1>3. setup.names # {}
  BY SetupIs
<1>4. SelectAlias(Page, Aliases[m])
        = IF exported = {} THEN {} ELSE {s \in Page : s.name = Aliases[m][Min(exported)]}
  BY DEF SelectAlias
<1> HIDE DEF exported
<1> QED
  BY <1>2, <1>3, <1>4 DEF Name

\* What the engines have counted, all of them together; the count of the histogram
\* is one more such number.
Counts(r, m) == IF m = Ttft THEN Started(r) ELSE Reading(r, m)
Now(m) == SumFunction([r \in Ranks |-> Counts(r, m)])
NowWithin(b) == SumFunction([r \in Ranks |-> Bucket(r, b)])

LEMMA NowIs ==
  ASSUME EngineOK
  PROVE  /\ \A m \in AllMetrics \cup {Ttft} : Now(m) \in Nat
         /\ \A b \in AllBounds : NowWithin(b) \in Nat
<1>0. IsFiniteSet(Ranks)
  BY WindowAssumption
<1>1. ASSUME NEW m \in AllMetrics \cup {Ttft} PROVE Now(m) \in Nat
  <2> DEFINE f == [r \in Ranks |-> Counts(r, m)]
  <2>1. DOMAIN f = Ranks /\ \A r \in Ranks : f[r] \in Nat
    BY EngineIs DEF Counts
  <2> HIDE DEF f
  <2>2. SumFunction(f) \in Nat
    BY <1>0, <2>1, SumIn, SumIsSum
  <2> QED
    BY <2>2 DEF Now, f
<1>2. ASSUME NEW b \in AllBounds PROVE NowWithin(b) \in Nat
  <2> DEFINE f == [r \in Ranks |-> Bucket(r, b)]
  <2>1. DOMAIN f = Ranks /\ \A r \in Ranks : f[r] \in Nat
    BY EngineIs
  <2> HIDE DEF f
  <2>2. SumFunction(f) \in Nat
    BY <1>0, <2>1, SumIn, SumIsSum
  <2> QED
    BY <2>2 DEF NowWithin, f
<1> QED
  BY <1>1, <1>2

AddsUp(series, total) ==
  /\ Finite(series) = series /\ series # {} /\ IsFiniteSet(series)
  /\ \A s \in series : s.value \in Nat
  /\ FiniteSum(series) = total

\* The values of one series, one per engine, add up.
LEMMA SeriesAddUp ==
  ASSUME NEW n, NEW p, NEW b, NEW f, DOMAIN f = Ranks, \A r \in Ranks : f[r] \in Nat
  PROVE  AddsUp({Sample(n, p, b, r, f[r]) : r \in Ranks}, SumFunction(f))
<1> DEFINE h == [r \in Ranks |-> Sample(n, p, b, r, f[r])]
           series == {Sample(n, p, b, r, f[r]) : r \in Ranks}
           v == [s \in series |-> s.value]
<1>0. IsFiniteSet(Ranks) /\ Ranks # {}
  BY WindowAssumption
<1>1. \A s \in series : s.value \in Nat
  BY NameOf
<1>2. Finite(series) = series
  BY <1>1, MissingIsNoReading DEF Finite
<1>3. series # {}
  BY <1>0
<1>4. series = {h[r] : r \in Ranks}
  OBVIOUS
<1>5. \A r \in Ranks, q \in Ranks : h[r] = h[q] => r = q
  <2>1. \A r \in Ranks : h[r].engine = r
    BY NameOf
  <2> HIDE DEF h
  <2> QED
    BY <2>1
<1>6. \A r \in Ranks : v[h[r]] = f[r] /\ f[r] \in Int
  BY NameOf
<1>7. IsFiniteSet(series)
  <2> HIDE DEF h, series
  <2>1. IsFiniteSet({h[r] : r \in Ranks})
    BY <1>0, ImageIsFinite
  <2> QED
    BY <1>4, <2>1
<1>8. FiniteSum(series) = SumFunctionOnSet(v, series)
  <2>1. FiniteSum(series) = SumFunction([s \in series |-> s.value])
    BY <1>2, <1>3 DEF FiniteSum
  <2> QED
    BY <2>1, SumIsSum
<1> HIDE DEF v, h
<1>9. SumFunctionOnSet(v, {h[r] : r \in Ranks}) = SumFunctionOnSet(f, Ranks)
  BY <1>0, <1>5, <1>6, SumImage
<1>10. FiniteSum(series) = SumFunction(f)
  BY <1>4, <1>8, <1>9, SumIsSum
<1> QED
  BY <1>1, <1>2, <1>3, <1>7, <1>10 DEF AddsUp

LEMMA CanonicalIs ==
  ASSUME EngineOK, NEW m \in AllMetrics
  PROVE  /\ m \in setup.omits => Canonical(Page, m) = Missing
         /\ m \notin setup.omits => Canonical(Page, m) \in Nat
         /\ m \notin setup.omits /\ m # "kv_cache_usage_perc" => Canonical(Page, m) = Now(m)
<1> DEFINE k == Min(setup.names)
           f == [r \in Ranks |-> Reading(r, m)]
           selected == SelectAlias(Page, Aliases[m])
           series == {Sample(Name(m, k), "value", 0, r, f[r]) : r \in Ranks}
<1>1. setup \in Setups /\ k \in setup.names /\ setup.names \subseteq {1, 2}
  BY SetupIs DEF EngineOK
<1>2. DOMAIN f = Ranks /\ \A r \in Ranks : f[r] \in Nat
  BY EngineIs
<1>3. selected = IF m \in setup.omits THEN {} ELSE series
  <2>1. series = {Sample(Name(m, k), "value", 0, r, Reading(r, m)) : r \in Ranks}
    OBVIOUS
  <2> HIDE DEF k
  <2>2. {s \in Page : s.name = Name(m, k)}
          = IF m \in setup.omits THEN {}
            ELSE {Sample(Name(m, k), "value", 0, r, Reading(r, m)) : r \in Ranks}
    BY <1>1, PageSeries
  <2> QED
    BY <1>1, <2>1, <2>2, Selected DEF k
<1>4. /\ Finite(series) = series /\ series # {} /\ IsFiniteSet(series)
      /\ \A s \in series : s.value \in Nat
      /\ FiniteSum(series) = SumFunction(f)
  <2> HIDE DEF f, k
  <2>1. AddsUp({Sample(Name(m, k), "value", 0, r, f[r]) : r \in Ranks}, SumFunction(f))
    BY <1>2, SeriesAddUp
  <2> QED
    BY <2>1 DEF AddsUp
<1>5. CASE m \in setup.omits
  <2>1. Finite(selected) = {}
    BY <1>3, <1>5 DEF Finite
  <2>2. Canonical(Page, m) = Missing
    BY <2>1 DEF Canonical
  <2> QED
    BY <1>5, <2>2
<1>6. CASE m \notin setup.omits
  <2> HIDE DEF series
  <2>1. Finite(selected) = series
    BY <1>3, <1>4, <1>6
  <2> HIDE DEF selected, f, k
  <2>2. CASE m = "kv_cache_usage_perc"
    <3>1. Canonical(Page, m) = Max({s.value : s \in series})
      BY <1>4, <2>1, <2>2 DEF Canonical, selected
    <3>2. {s.value : s \in series} \subseteq Int /\ {s.value : s \in series} # {}
      BY <1>4
    <3>3. IsFiniteSet({s.value : s \in series})
      <4> DEFINE g == [s \in series |-> s.value]
      <4>1. {s.value : s \in series} = {g[s] : s \in series}
        OBVIOUS
      <4> HIDE DEF g
      <4>2. IsFiniteSet({g[s] : s \in series})
        BY <1>4, ImageIsFinite
      <4> QED
        BY <4>1, <4>2
    <3>4. Max({s.value : s \in series}) \in {s.value : s \in series}
      BY <3>2, <3>3, MaxIsMax
    <3> QED
      BY <1>4, <1>6, <2>2, <3>1, <3>4
  <2>3. CASE m # "kv_cache_usage_perc"
    <3>1. Canonical(Page, m) = FiniteSum(series)
      BY <1>4, <2>1, <2>3 DEF Canonical, selected
    <3>2. Canonical(Page, m) = Now(m)
      BY <1>4, <3>1, NamesTellApart DEF Now, Counts, f
    <3> QED
      BY <1>6, <2>3, <3>2, NowIs
  <2> QED
    BY <2>2, <2>3
<1> QED
  BY <1>5, <1>6

HistogramNow ==
  [count |-> Now(Ttft), buckets |-> [b \in AllBounds |-> NowWithin(b)]]

LEMMA HistogramIs ==
  ASSUME EngineOK
  PROVE  HistogramValue(Page) = HistogramNow /\ Whole(HistogramNow)
<1> DEFINE k == Min(setup.names)
           n == Name(Ttft, k)
           selected == SelectAlias(Page, Aliases[Ttft])
           bucket(b) == {s \in selected : s.part = "bucket" /\ s.le = b}
           counts == {s \in selected : s.part = "count"}
           within(b) == [r \in Ranks |-> Bucket(r, b)]
           started == [r \in Ranks |-> Started(r)]
<1>1. setup \in Setups /\ k \in setup.names /\ k \in {1, 2}
  BY SetupIs DEF EngineOK
<1>2. Ttft \notin setup.omits
  BY <1>1, SetupIs, NamesTellApart
<1>3. \A s : s \in selected <=>
               \E r \in Ranks : \/ \E b \in AllBounds : s = Sample(n, "bucket", b, r, Bucket(r, b))
                                \/ s = Sample(n, "count", 0, r, Started(r))
  <2>1. selected = {s \in Page : s.name = n}
    BY <1>1, <1>2, Selected
  <2> HIDE DEF k, selected
  <2>2. \A s : s \in Page /\ s.name = n <=>
                 \E r \in Ranks : \/ \E b \in AllBounds : s = Sample(n, "bucket", b, r, Bucket(r, b))
                                  \/ s = Sample(n, "count", 0, r, Started(r))
    BY <1>1, PageHistogram
  <2> QED
    BY <2>1, <2>2
<1> HIDE DEF n, selected
<1>4. ASSUME NEW b \in AllBounds
      PROVE  bucket(b) = {Sample(n, "bucket", b, r, within(b)[r]) : r \in Ranks}
  <2>1. \A s : s \in bucket(b) <=> \E r \in Ranks : s = Sample(n, "bucket", b, r, Bucket(r, b))
    BY <1>3, NameOf
  <2> QED
    BY <2>1
<1>5. counts = {Sample(n, "count", 0, r, started[r]) : r \in Ranks}
  <2>1. \A s : s \in counts <=> \E r \in Ranks : s = Sample(n, "count", 0, r, Started(r))
    BY <1>3, NameOf
  <2> QED
    BY <2>1
<1>6. ASSUME NEW b \in AllBounds
      PROVE  Finite(bucket(b)) # {} /\ FiniteSum(bucket(b)) = NowWithin(b)
  <2> DEFINE f == within(b)
  <2>1. DOMAIN f = Ranks /\ \A r \in Ranks : f[r] \in Nat
    BY EngineIs
  <2>2. bucket(b) = {Sample(n, "bucket", b, r, f[r]) : r \in Ranks}
    BY <1>4
  <2>3. NowWithin(b) = SumFunction(f)
    BY DEF NowWithin
  <2> HIDE DEF f, bucket
  <2>4. AddsUp({Sample(n, "bucket", b, r, f[r]) : r \in Ranks}, SumFunction(f))
    BY <2>1, SeriesAddUp
  <2> QED
    BY <2>2, <2>3, <2>4 DEF AddsUp
<1>7. FiniteSum(counts) = Now(Ttft)
  <2> DEFINE f == started
  <2>1. DOMAIN f = Ranks /\ \A r \in Ranks : f[r] \in Nat
    BY EngineIs
  <2>2. counts = {Sample(n, "count", 0, r, f[r]) : r \in Ranks}
    BY <1>5
  <2>3. Now(Ttft) = SumFunction(f)
    BY DEF Now, Counts
  <2> HIDE DEF f, counts
  <2>4. AddsUp({Sample(n, "count", 0, r, f[r]) : r \in Ranks}, SumFunction(f))
    BY <2>1, SeriesAddUp
  <2> QED
    BY <2>2, <2>3, <2>4 DEF AddsUp
<1>8. Now(Ttft) \in Nat /\ \A b \in AllBounds : NowWithin(b) \in Nat
  BY NowIs
<1> DEFINE bounds == {b \in AllBounds : Finite(bucket(b)) # {}}
           buckets == [b \in bounds |-> FiniteSum(bucket(b))]
           count == FiniteSum(counts)
<1>9. HistogramValue(Page)
        = [count |-> IF count = Missing /\ Inf \in bounds THEN buckets[Inf] ELSE count,
           buckets |-> buckets]
  BY DEF HistogramValue, selected
<1> HIDE DEF bucket, counts
<1>10. bounds = AllBounds
  BY <1>6
<1>11. buckets = [b \in AllBounds |-> NowWithin(b)]
  BY <1>6, <1>10
<1>12. count = Now(Ttft) /\ count # Missing
  BY <1>7, <1>8, MissingIsNoReading
<1> HIDE DEF bounds, buckets, count
<1>13. HistogramValue(Page) = HistogramNow
  BY <1>9, <1>11, <1>12 DEF HistogramNow
<1>14. Whole(HistogramNow)
  BY <1>8 DEF Whole, HistogramNow
<1> QED
  BY <1>13, <1>14

LEMMA EmptyPage ==
  /\ \A m \in AllMetrics : Canonical({}, m) = Missing
  /\ HistogramValue({}) = NoHistogram
<1>1. ASSUME NEW names PROVE SelectAlias({}, names) = {}
  BY DEF SelectAlias
<1>2. Finite({}) = {} /\ FiniteSum({}) = Missing
  BY DEF Finite, FiniteSum
<1>3. \A m \in AllMetrics : Canonical({}, m) = Missing
  BY <1>1, <1>2 DEF Canonical
<1>4. HistogramValue({}) = NoHistogram
  <2> DEFINE selected == SelectAlias({}, Aliases[Ttft])
             bucket(b) == {s \in selected : s.part = "bucket" /\ s.le = b}
             bounds == {b \in AllBounds : Finite(bucket(b)) # {}}
             buckets == [b \in bounds |-> FiniteSum(bucket(b))]
             count == FiniteSum({s \in selected : s.part = "count"})
  <2>1. HistogramValue({})
          = [count |-> IF count = Missing /\ Inf \in bounds THEN buckets[Inf] ELSE count,
             buckets |-> buckets]
    BY DEF HistogramValue
  <2>2. \A b : bucket(b) = {}
    BY <1>1
  <2>3. {s \in selected : s.part = "count"} = {}
    BY <1>1
  <2>4. bounds = {}
    BY <1>2, <2>2
  <2>5. count = Missing
    BY <1>2, <2>3
  <2>6. buckets = <<>>
    <3> HIDE DEF bounds, bucket
    <3>1. buckets = [b \in {} |-> FiniteSum(bucket(b))]
      BY <2>4
    <3> QED
      BY <3>1
  <2> HIDE DEF count, buckets, bounds
  <2> QED
    BY <2>1, <2>4, <2>5, <2>6 DEF NoHistogram
<1> QED
  BY <1>3, <1>4

-----------------------------------------------------------------------------
(* The inductive invariant *)

Served == {"prompt_tokens_total", "generation_tokens_total", Ttft}
Values == Nat \cup {Missing}
Histograms == [count : Nat, buckets : [AllBounds -> Nat]]
Snapshots ==
  [ok : BOOLEAN, metrics : [AllMetrics -> Values], ttft : Histograms \cup {NoHistogram}]
Rows == [device : Ranks, at : Nat, memory : Values, busy : Values, watts : {Watts, Missing}]
Made == [first : [AllBounds -> Nat], prompt : Nat, generated : Nat]
FrameSet ==
  [at : Nat, engine : Snapshots, final : BOOLEAN, gpu : SUBSET Rows, made : Made,
   driver : BOOLEAN, up : SUBSET Ranks]
Sessions == [initialized : BOOLEAN, handles : SUBSET Ranks, ids : SUBSET Ranks]

TypeInv ==
  /\ setup \in Setups /\ engine \in [Ranks -> Engines] /\ driver \in BOOLEAN
  /\ answering \in SUBSET Ranks /\ nvml \in Sessions
  /\ frames \in Seq(FrameSet) /\ state \in {"created", "running", "stopped"}
  /\ made \in Made /\ drawn \in [Ranks -> Nat] /\ faults \in Nat

\* Before the window opens nothing is served in it; it closes with two frames at
\* least.
StageInv ==
  /\ state = "created" => frames = <<>> /\ made = Nothing
  /\ state # "created" => Len(frames) >= 1
  /\ state = "stopped" => Len(frames) >= 2 /\ \E t \in {0, made.generated} : result = BuildResult(frames, t)
  /\ state # "stopped" => result = NoResult
  /\ nvml.initialized => nvml.handles = Ranks /\ nvml.ids = Ranks
  /\ ~nvml.initialized => nvml.handles = {}
  /\ nvml.initialized => setup.nvml /\ state = "running"

\* Only the last frame of a closed window is final.
FinalInv ==
  \A i \in DOMAIN frames : frames[i].final <=> (state = "stopped" /\ i = Len(frames))

SnapshotOK(e) ==
  IF e.ok
    THEN /\ \A m \in AllMetrics : e.metrics[m] = Missing <=> m \in setup.omits
         /\ e.ttft \in Histograms
    ELSE /\ \A m \in AllMetrics : e.metrics[m] = Missing
         /\ e.ttft = NoHistogram

SnapshotInv == \A i \in DOMAIN frames : SnapshotOK(frames[i].engine)

\* A metric in a snapshot, over the frames, and what was served of it.
Value(e, m) == IF m = Ttft THEN e.ttft.count ELSE e.metrics[m]
Metric(all, m) == [i \in DOMAIN all |-> Value(all[i].engine, m)]
Ttfts(all) == [i \in DOMAIN all |-> all[i].engine.ttft]
Seen(all) == {i \in DOMAIN all : all[i].engine.ok}
Of(counted, m) ==
  IF m = Ttft THEN Within(counted.first, Inf)
  ELSE IF m = "prompt_tokens_total" THEN counted.prompt ELSE counted.generated

\* What was counted up to the last scrape, and what the engines count now: with
\* no restart in between, or with one.
CountOK(delta, last, now, total) ==
  /\ delta \in Nat /\ last \in Nat
  /\ \/ last <= now /\ delta + now <= total + last
     \/ delta + now <= total
CountInv ==
  \A m \in Served \ setup.omits :
    Seen(frames) # {} =>
      CountOK(Delta(Metric(frames, m), Seen(frames)), Metric(frames, m)[Max(Seen(frames))],
              Now(m), Of(made, m))

\* The same of the buckets, all of them together: the count decides for all
\* whether there was a restart.
Continued(h, S) ==
  /\ h[Max(S)].count <= Now(Ttft)
  /\ \A b \in AllBounds :
       /\ h[Max(S)].buckets[b] <= NowWithin(b)
       /\ BucketDelta(h, S, b) + NowWithin(b) <= Within(made.first, b) + h[Max(S)].buckets[b]
Restarted(h, S) ==
  \A b \in AllBounds : BucketDelta(h, S, b) + NowWithin(b) <= Within(made.first, b)
BucketInv ==
  Seen(frames) # {} => \/ Continued(Ttfts(frames), Seen(frames))
                       \/ Restarted(Ttfts(frames), Seen(frames))

\* Without a fault nothing was lost: every scrape answered, the engines count since
\* the last one what was served since, and the window holds what was served before.
FaultlessInv ==
  faults = 0 =>
    /\ answering = Ranks
    /\ Seen(frames) = DOMAIN frames
    /\ frames # <<>> =>
         LET n == Len(frames)
             then == frames[n].made
         IN
         /\ \A m \in Served \ setup.omits :
              /\ Now(m) + Of(then, m) = Metric(frames, m)[n] + Of(made, m)
              /\ Of(then, m) <= Of(made, m)
              /\ Delta(Metric(frames, m), 1..n) = Of(then, m)
         /\ \A b \in AllBounds :
              /\ NowWithin(b) + Within(then.first, b)
                   = Ttfts(frames)[n].buckets[b] + Within(made.first, b)
              /\ Within(then.first, b) <= Within(made.first, b)
              /\ BucketDelta(Ttfts(frames), 1..n, b) = Within(then.first, b)

\* Once up, the driver stays up.
DriverInv ==
  \A i \in DOMAIN frames :
    frames[i].driver => driver /\ \A j \in DOMAIN frames : i <= j => frames[j].driver

\* A device has one row in each frame since it was found.
RowOK(row, i) ==
  /\ row.at = i
  /\ row.watts # Missing => row.device \in frames[i].up
RowInv ==
  \A i \in DOMAIN frames :
    /\ IsFiniteSet(frames[i].gpu)
    /\ \A row \in frames[i].gpu : RowOK(row, i)
    /\ \A row, other \in frames[i].gpu : row.device = other.device => row = other
    /\ Devices(frames[i].gpu) \subseteq nvml.ids
    /\ i = Len(frames) => Devices(frames[i].gpu) = IF setup.nvml THEN nvml.ids ELSE {}

\* With every device answering and the driver up, every row is read.
HealthyRow(row) ==
  /\ row.memory \in Nat /\ row.busy \in Nat
  /\ row.device \notin setup.powerless => row.watts = Watts
HealthyInv ==
  faults = 0 /\ setup.nvml =>
    \A i \in DOMAIN frames :
      frames[i].driver =>
        Devices(frames[i].gpu) = Ranks /\ \A row \in frames[i].gpu : HealthyRow(row)

EnergyInv == \A r \in Ranks : Energy2(RowsOf(GpuRows(frames), r)) <= drawn[r]

IInv ==
  /\ TypeInv /\ StageInv /\ FinalInv /\ SnapshotInv /\ CountInv /\ BucketInv
  /\ FaultlessInv /\ DriverInv /\ RowInv /\ HealthyInv /\ EnergyInv

-----------------------------------------------------------------------------
(* What the engines count *)

LEMMA CountedAre ==
  /\ Served \subseteq AllMetrics \cup {Ttft}
  /\ "prompt_tokens_total" \in Served /\ "generation_tokens_total" \in Served /\ Ttft \in Served
  /\ "prompt_tokens_total" # "generation_tokens_total"
  /\ Ttft # "prompt_tokens_total" /\ Ttft # "generation_tokens_total"
  /\ \A m \in Served : m # "kv_cache_usage_perc"
BY DEF Served, AllMetrics, CounterMetrics, GaugeMetrics, Ttft

LEMMA MadeIs ==
  ASSUME NEW served, served \in Made
  PROVE  /\ \A m \in Served : Of(served, m) \in Nat
         /\ \A b \in AllBounds : Within(served.first, b) \in Nat
         /\ \A a, b \in AllBounds : a <= b => Within(served.first, a) <= Within(served.first, b)
<1>1. served.first \in [AllBounds -> Nat] /\ served.prompt \in Nat /\ served.generated \in Nat
  BY DEF Made
<1> QED
  BY <1>1, WithinIs, InfIsABound DEF Of

LEMMA NothingServed ==
  /\ Nothing \in Made
  /\ \A m \in Served : Of(Nothing, m) = 0
  /\ \A b \in AllBounds : Within(Nothing.first, b) = 0
<1>1. /\ Nothing.prompt = 0 /\ Nothing.generated = 0
      /\ \A b \in AllBounds : Nothing.first[b] = 0
  BY DEF Nothing
<1>2. ASSUME NEW b \in AllBounds PROVE Within(Nothing.first, b) = 0
  <2>1. IsFiniteSet({a \in AllBounds : a <= b})
    BY BoundsAreNumbers, FS_Subset
  <2>2. SumFunctionOnSet(Nothing.first, {a \in AllBounds : a <= b}) = 0
    BY <1>1, <2>1, SumZero
  <2> QED
    BY <2>2 DEF Within
<1>3. \A m \in Served : Of(Nothing, m) = 0
  BY <1>1, <1>2, InfIsABound DEF Of
<1>4. Nothing \in Made
  BY DEF Nothing, Made
<1> QED
  BY <1>2, <1>3, <1>4

\* What the engines count is of the engines only.
LEMMA SameEngines ==
  ASSUME engine' = engine
  PROVE  /\ \A m : Now(m)' = Now(m)
         /\ \A b : NowWithin(b)' = NowWithin(b)
BY DEF Now, NowWithin, Counts, Reading, Started, Bucket

\* One engine counts so many more.
LEMMA SomeMore ==
  ASSUME NEW S, IsFiniteSet(S), NEW f, NEW g, NEW x \in S, NEW d \in Int,
         DOMAIN f = S, DOMAIN g = S, \A y \in S : f[y] \in Int,
         \A y \in S \ {x} : g[y] = f[y], g[x] = f[x] + d
  PROVE  SumFunction(g) = SumFunction(f) + d
<1>1. \A y \in S : f[y] \in Int /\ g[y] \in Int
  OBVIOUS
<1>2. SumFunctionOnSet(g, S) = SumFunctionOnSet(f, S) + (g[x] - f[x])
  BY <1>1, SumChange
<1>3. g[x] - f[x] = d
  BY <1>1
<1> QED
  BY <1>2, <1>3, SumIsSum

\* What is served, the engines count and the history alike.
ServedAlike ==
  /\ \A m \in Served : \E d \in Nat : Now(m)' = Now(m) + d /\ Of(made, m)' = Of(made, m) + d
  /\ \A b \in AllBounds : \E d \in Nat :
       /\ NowWithin(b)' = NowWithin(b) + d
       /\ Within(made.first, b)' = Within(made.first, b) + d

\* A step of one engine, and what it adds to each number.
LEMMA OneEngineServes ==
  ASSUME EngineOK, NEW r \in Ranks, NEW counts, NEW within,
         \A q \in Ranks \ {r} : engine'[q] = engine[q],
         \A m \in Served : counts[m] \in Nat /\ Counts(r, m)' = Counts(r, m) + counts[m],
         \A b \in AllBounds : within[b] \in Nat /\ Bucket(r, b)' = Bucket(r, b) + within[b]
  PROVE  /\ \A m \in Served : Now(m)' = Now(m) + counts[m]
         /\ \A b \in AllBounds : NowWithin(b)' = NowWithin(b) + within[b]
<1>0. IsFiniteSet(Ranks)
  BY WindowAssumption
<1>1. ASSUME NEW m \in Served PROVE Now(m)' = Now(m) + counts[m]
  <2> DEFINE f == [q \in Ranks |-> Counts(q, m)]
             g == [q \in Ranks |-> Counts(q, m)']
  <2>1. \A q \in Ranks : Counts(q, m) \in Int
    BY CountedAre, EngineIs DEF Counts
  <2>2. ASSUME NEW q \in Ranks \ {r} PROVE Counts(q, m)' = Counts(q, m)
    <3>1. engine'[q] = engine[q]
      OBVIOUS
    <3>2. Started(q)' = Started(q)
      BY <3>1 DEF Started, Bucket
    <3>3. CASE m = Ttft
      BY <3>2, <3>3 DEF Counts
    <3>4. CASE m = "prompt_tokens_total"
      BY <3>1, <3>4, CountedAre DEF Counts, Reading
    <3>5. CASE m = "generation_tokens_total"
      BY <3>1, <3>5, CountedAre DEF Counts, Reading
    <3> QED
      BY <3>3, <3>4, <3>5 DEF Served
  <2>3. /\ DOMAIN f = Ranks /\ DOMAIN g = Ranks /\ \A q \in Ranks : f[q] \in Int
        /\ \A q \in Ranks \ {r} : g[q] = f[q]
        /\ g[r] = f[r] + counts[m] /\ counts[m] \in Int
    BY <2>1, <2>2
  <2>4. Now(m)' = SumFunction(g) /\ Now(m) = SumFunction(f)
    BY DEF Now
  <2> HIDE DEF f, g
  <2>5. SumFunction(g) = SumFunction(f) + counts[m]
    BY <1>0, <2>3, SomeMore
  <2> QED
    BY <2>4, <2>5
<1>2. ASSUME NEW b \in AllBounds PROVE NowWithin(b)' = NowWithin(b) + within[b]
  <2> DEFINE f == [q \in Ranks |-> Bucket(q, b)]
             g == [q \in Ranks |-> Bucket(q, b)']
  <2>1. \A q \in Ranks : Bucket(q, b) \in Int
    BY EngineIs
  <2>2. \A q \in Ranks \ {r} : Bucket(q, b)' = Bucket(q, b)
    BY DEF Bucket
  <2>3. /\ DOMAIN f = Ranks /\ DOMAIN g = Ranks /\ \A q \in Ranks : f[q] \in Int
        /\ \A q \in Ranks \ {r} : g[q] = f[q]
        /\ g[r] = f[r] + within[b] /\ within[b] \in Int
    BY <2>1, <2>2
  <2>4. NowWithin(b)' = SumFunction(g) /\ NowWithin(b) = SumFunction(f)
    BY DEF NowWithin
  <2> HIDE DEF f, g
  <2>5. SumFunction(g) = SumFunction(f) + within[b]
    BY <1>0, <2>3, SomeMore
  <2> QED
    BY <2>4, <2>5
<1> QED
  BY <1>1, <1>2

LEMMA PrefillCounts ==
  ASSUME TypeInv, Prefill
  PROVE  engine' \in [Ranks -> Engines] /\ made' \in Made /\ ServedAlike
<1>0. EngineOK /\ made \in Made
  BY DEF EngineOK, TypeInv
<1>1. PICK r \in Ranks, b \in AllBounds, tokens \in Prompts :
        /\ engine' = [engine EXCEPT ![r].first[b] = @ + 1, ![r].prompt = @ + tokens,
                                    ![r].running = 1]
        /\ made' = [made EXCEPT !.first[b] = @ + 1, !.prompt = @ + tokens]
  BY DEF Prefill
<1>2. tokens \in Nat
  BY WindowAssumption
<1> DEFINE more(f) == [f EXCEPT ![b] = @ + 1]
<1>3. \A f \in [AllBounds -> Nat] : more(f) \in [AllBounds -> Nat]
  OBVIOUS
<1>4. /\ engine'[r].first = more(engine[r].first)
      /\ engine'[r].prompt = engine[r].prompt + tokens
      /\ engine'[r].generated = engine[r].generated
      /\ \A q \in Ranks \ {r} : engine'[q] = engine[q]
      /\ engine' \in [Ranks -> Engines]
  <2> DEFINE new == [engine[r] EXCEPT !.first[b] = @ + 1, !.prompt = @ + tokens, !.running = 1]
  <2>1. engine[r] \in Engines /\ engine \in [Ranks -> Engines]
    BY <1>0 DEF EngineOK
  <2>2. /\ new.first = more(engine[r].first) /\ new.prompt = engine[r].prompt + tokens
        /\ new.generated = engine[r].generated /\ new.running = 1
    BY <2>1 DEF Engines
  <2>3. engine[r].first \in [AllBounds -> Nat] /\ engine[r].prompt \in Nat
    BY <2>1 DEF Engines
  <2>4. more(engine[r].first) \in [AllBounds -> Nat] /\ engine[r].prompt + tokens \in Nat
    BY <1>2, <1>3, <2>3
  <2>5. new \in Engines
    BY <2>1, <2>2, <2>4 DEF Engines
  <2>6. engine' = [engine EXCEPT ![r] = new]
    BY <1>1, <2>1
  <2> HIDE DEF new, more
  <2>7. engine'[r] = new /\ \A q \in Ranks \ {r} : engine'[q] = engine[q]
    BY <2>1, <2>6
  <2>8. engine' \in [Ranks -> Engines]
    BY <2>1, <2>5, <2>6
  <2> QED
    BY <2>2, <2>7, <2>8
<1>5. /\ made'.first = more(made.first) /\ made'.prompt = made.prompt + tokens
      /\ made'.generated = made.generated /\ made' \in Made
  <2>1. made.first \in [AllBounds -> Nat] /\ made.prompt \in Nat
    BY <1>0 DEF Made
  <2>2. /\ made'.first = more(made.first) /\ made'.prompt = made.prompt + tokens
        /\ made'.generated = made.generated
    BY <1>0, <1>1 DEF Made
  <2>3. more(made.first) \in [AllBounds -> Nat] /\ made.prompt + tokens \in Nat
    BY <1>2, <1>3, <2>1
  <2>4. made' \in Made
    BY <1>0, <1>1, <2>3 DEF Made
  <2> QED
    BY <2>2, <2>4
<1> DEFINE within == [a \in AllBounds |-> IF b <= a THEN 1 ELSE 0]
           counts == [m \in Served |-> IF m = Ttft THEN 1
                                       ELSE IF m = "prompt_tokens_total" THEN tokens ELSE 0]
<1>6. \A f \in [AllBounds -> Nat], a \in AllBounds :
        Within(more(f), a) = Within(f, a) + within[a]
  BY OneRequestMore
<1>7. engine[r].first \in [AllBounds -> Nat] /\ made.first \in [AllBounds -> Nat]
  BY <1>0, EngineIs DEF Made
<1>8. \A a \in AllBounds : within[a] \in Nat
  OBVIOUS
<1>9. within[Inf] = 1 /\ Inf \in AllBounds
  BY InfIsABound
<1> HIDE DEF more, within
<1>10. ASSUME NEW a \in AllBounds
       PROVE  /\ Bucket(r, a)' = Bucket(r, a) + within[a]
              /\ Within(made'.first, a) = Within(made.first, a) + within[a]
  BY <1>4, <1>5, <1>6, <1>7 DEF Bucket
<1>11. ASSUME NEW m \in Served
       PROVE  /\ counts[m] \in Nat
              /\ Counts(r, m)' = Counts(r, m) + counts[m]
              /\ Of(made', m) = Of(made, m) + counts[m]
  <2>1. CASE m = Ttft
    <3>1. counts[m] = 1
      BY <2>1
    <3>2. Started(r)' = Started(r) + 1
      BY <1>9, <1>10 DEF Started
    <3> QED
      BY <1>9, <1>10, <2>1, <3>1, <3>2 DEF Counts, Of
  <2>2. CASE m = "prompt_tokens_total"
    <3>1. counts[m] = tokens /\ m # Ttft
      BY <2>2, CountedAre
    <3>2. Reading(r, m)' = Reading(r, m) + tokens
      BY <1>4, <2>2 DEF Reading
    <3> QED
      BY <1>2, <1>5, <2>2, <3>1, <3>2 DEF Counts, Of
  <2>3. CASE m = "generation_tokens_total"
    <3>1. counts[m] = 0 /\ m # Ttft /\ m # "prompt_tokens_total"
      BY <2>3, CountedAre
    <3>2. Reading(r, m)' = Reading(r, m) /\ Reading(r, m) = engine[r].generated
      BY <1>4, <2>3 DEF Reading
    <3>3. engine[r].generated \in Nat /\ made.generated \in Nat
      BY <1>0, EngineIs DEF Made
    <3> QED
      BY <1>5, <3>1, <3>2, <3>3 DEF Counts, Of
  <2> QED
    BY <2>1, <2>2, <2>3 DEF Served
<1> HIDE DEF counts
<1>12. /\ \A m \in Served : Now(m)' = Now(m) + counts[m]
       /\ \A a \in AllBounds : NowWithin(a)' = NowWithin(a) + within[a]
  BY <1>0, <1>4, <1>8, <1>10, <1>11, OneEngineServes
<1>13. ServedAlike
  BY <1>8, <1>10, <1>11, <1>12 DEF ServedAlike
<1> QED
  BY <1>4, <1>5, <1>13

LEMMA DecodeCounts ==
  ASSUME TypeInv, Decode
  PROVE  engine' \in [Ranks -> Engines] /\ made' \in Made /\ ServedAlike
<1>0. EngineOK /\ made \in Made
  BY DEF EngineOK, TypeInv
<1>1. PICK r \in Ranks : engine' = [engine EXCEPT ![r].generated = @ + 1, ![r].running = 0]
  BY DEF Decode
<1>2. /\ engine'[r].first = engine[r].first /\ engine'[r].prompt = engine[r].prompt
      /\ engine'[r].generated = engine[r].generated + 1
      /\ \A q \in Ranks \ {r} : engine'[q] = engine[q]
      /\ engine' \in [Ranks -> Engines]
  <2> DEFINE new == [engine[r] EXCEPT !.generated = @ + 1, !.running = 0]
  <2>1. engine[r] \in Engines /\ engine \in [Ranks -> Engines]
    BY <1>0 DEF EngineOK
  <2>2. /\ new.first = engine[r].first /\ new.prompt = engine[r].prompt
        /\ new.generated = engine[r].generated + 1
    BY <2>1 DEF Engines
  <2>3. engine[r].generated + 1 \in Nat
    BY <2>1 DEF Engines
  <2>4. new \in Engines
    BY <2>1, <2>3 DEF Engines
  <2>5. engine' = [engine EXCEPT ![r] = new]
    BY <1>1, <2>1
  <2> HIDE DEF new
  <2>6. engine'[r] = new /\ \A q \in Ranks \ {r} : engine'[q] = engine[q]
    BY <2>1, <2>5
  <2>7. engine' \in [Ranks -> Engines]
    BY <2>1, <2>4, <2>5
  <2> QED
    BY <2>2, <2>6, <2>7
<1>3. /\ made'.first = made.first /\ made'.prompt = made.prompt
      /\ made'.generated = made.generated + 1 /\ made' \in Made
  <2>1. made.generated + 1 \in Nat
    BY <1>0 DEF Made
  <2> QED
    BY <1>0, <2>1 DEF Made, Decode
<1> DEFINE within == [a \in AllBounds |-> 0]
           counts == [m \in Served |-> IF m = "generation_tokens_total" THEN 1 ELSE 0]
<1>4. ASSUME NEW a \in AllBounds
      PROVE  /\ within[a] \in Nat /\ Bucket(r, a)' = Bucket(r, a) + within[a]
             /\ Within(made'.first, a) = Within(made.first, a) + within[a]
  <2>1. Bucket(r, a)' = Bucket(r, a) /\ Within(made'.first, a) = Within(made.first, a)
    BY <1>2, <1>3 DEF Bucket
  <2>2. Bucket(r, a) \in Nat /\ Within(made.first, a) \in Nat
    BY <1>0, EngineIs, MadeIs
  <2>3. within[a] = 0
    OBVIOUS
  <2> HIDE DEF within
  <2> QED
    BY <2>1, <2>2, <2>3
<1>5. ASSUME NEW m \in Served
      PROVE  /\ counts[m] \in Nat
             /\ Counts(r, m)' = Counts(r, m) + counts[m]
             /\ Of(made', m) = Of(made, m) + counts[m]
  <2>0. Started(r) \in Nat /\ Of(made, m) \in Nat /\ engine[r].prompt \in Nat
    BY <1>0, EngineIs, MadeIs
  <2>1. CASE m = Ttft
    <3>1. counts[m] = 0
      BY <2>1, CountedAre
    <3>2. Started(r)' = Started(r) /\ Of(made', m) = Of(made, m)
      BY <1>2, <1>3, <2>1 DEF Started, Bucket, Of
    <3> QED
      BY <2>0, <2>1, <3>1, <3>2 DEF Counts
  <2>2. CASE m = "prompt_tokens_total"
    <3>1. counts[m] = 0 /\ m # Ttft
      BY <2>2, CountedAre
    <3>2. Reading(r, m)' = Reading(r, m) /\ Reading(r, m) = engine[r].prompt
      BY <1>2, <2>2 DEF Reading
    <3>3. Of(made', m) = Of(made, m)
      BY <1>3, <2>2, <3>1 DEF Of
    <3> QED
      BY <2>0, <3>1, <3>2, <3>3 DEF Counts
  <2>3. CASE m = "generation_tokens_total"
    <3>1. counts[m] = 1 /\ m # Ttft /\ m # "prompt_tokens_total"
      BY <2>3, CountedAre
    <3>2. Reading(r, m)' = Reading(r, m) + 1
      BY <1>2, <2>3 DEF Reading
    <3> QED
      BY <1>3, <3>1, <3>2 DEF Counts, Of
  <2> QED
    BY <2>1, <2>2, <2>3 DEF Served
<1> HIDE DEF counts, within
<1>6. /\ \A m \in Served : Now(m)' = Now(m) + counts[m]
      /\ \A a \in AllBounds : NowWithin(a)' = NowWithin(a) + within[a]
  BY <1>0, <1>2, <1>4, <1>5, OneEngineServes
<1>7. ServedAlike
  BY <1>4, <1>5, <1>6 DEF ServedAlike
<1> QED
  BY <1>2, <1>3, <1>7

LEMMA ZeroIs ==
  /\ Zero \in Engines /\ Zero.prompt = 0 /\ Zero.generated = 0
  /\ \A b \in AllBounds : Within(Zero.first, b) = 0
<1>1. Zero \in Engines /\ Zero.prompt = 0 /\ Zero.generated = 0 /\ Zero.first = Nothing.first
  BY DEF Zero, Nothing, Engines
<1> QED
  BY <1>1, NothingServed

LEMMA RestartCounts ==
  ASSUME engine' = [r \in Ranks |-> Zero]
  PROVE  /\ \A m \in Served : Now(m)' = 0
         /\ \A b \in AllBounds : NowWithin(b)' = 0
<1>0. IsFiniteSet(Ranks)
  BY WindowAssumption
<1>1. \A r \in Ranks : engine'[r] = Zero
  OBVIOUS
<1>2. \A r \in Ranks, b \in AllBounds : Bucket(r, b)' = 0
  BY <1>1, ZeroIs DEF Bucket
<1>3. \A r \in Ranks : Started(r)' = 0
  BY <1>2, InfIsABound DEF Started
<1>4. ASSUME NEW f, DOMAIN f = Ranks, \A r \in Ranks : f[r] = 0
      PROVE  SumFunction(f) = 0
  BY <1>0, <1>4, SumZero, SumIsSum
<1>5. ASSUME NEW m \in Served PROVE Now(m)' = 0
  <2> DEFINE f == [r \in Ranks |-> Counts(r, m)']
  <2>1. \A r \in Ranks : Counts(r, m)' = 0
    BY <1>1, <1>3, ZeroIs DEF Served, Counts, Reading
  <2>2. DOMAIN f = Ranks /\ \A r \in Ranks : f[r] = 0
    BY <2>1
  <2>3. Now(m)' = SumFunction(f)
    BY DEF Now
  <2> HIDE DEF f
  <2> QED
    BY <1>4, <2>2, <2>3
<1>6. ASSUME NEW b \in AllBounds PROVE NowWithin(b)' = 0
  <2> DEFINE f == [r \in Ranks |-> Bucket(r, b)']
  <2>1. DOMAIN f = Ranks /\ \A r \in Ranks : f[r] = 0
    BY <1>2
  <2>2. NowWithin(b)' = SumFunction(f)
    BY DEF NowWithin
  <2> HIDE DEF f
  <2> QED
    BY <1>4, <2>1, <2>2
<1> QED
  BY <1>5, <1>6

-----------------------------------------------------------------------------
(* A frame *)

LEMMA SetOfMissing ==
  /\ Missing \notin Nat /\ NoHistogram \notin Histograms
  /\ \A h \in Histograms : Whole(h)
<1>1. Missing \notin Nat
  BY MissingIsNoReading
<1>2. NoHistogram.count = Missing
  BY DEF NoHistogram
<1>3. \A h \in Histograms : h.count \in Nat /\ Whole(h)
  BY DEF Histograms, Whole
<1> QED
  BY <1>1, <1>2, <1>3

\* What a scrape reads.
Scraped(e, answers) ==
  /\ e \in Snapshots /\ SnapshotOK(e) /\ e.ok = answers
  /\ answers => /\ \A m \in Served \ setup.omits : Value(e, m) = Now(m)
                /\ e.ttft = HistogramNow

LEMMA SnapshotIs ==
  ASSUME EngineOK, NEW answers \in BOOLEAN
  PROVE  Scraped(Snapshot(answers), answers)
<1>1. GaugeMetrics \cup CounterMetrics = AllMetrics
  BY DEF AllMetrics
<1>2. CASE answers
  <2> DEFINE e == [ok |-> TRUE, metrics |-> Metrics(Page), ttft |-> HistogramNow]
  <2>1. Snapshot(answers) = e
    BY <1>2, HistogramIs DEF Snapshot
  <2>2. \A m \in AllMetrics :
          /\ Metrics(Page)[m] \in Values
          /\ Metrics(Page)[m] = Missing <=> m \in setup.omits
          /\ m \notin setup.omits /\ m # "kv_cache_usage_perc" => Metrics(Page)[m] = Now(m)
    <3>1. \A m \in AllMetrics : Metrics(Page)[m] = Canonical(Page, m)
      BY <1>1 DEF Metrics
    <3> QED
      BY <3>1, CanonicalIs, SetOfMissing DEF Values
  <2>3. Metrics(Page) \in [AllMetrics -> Values]
    <3>1. Metrics(Page) = [m \in AllMetrics |-> Canonical(Page, m)]
      BY <1>1 DEF Metrics
    <3> QED
      BY <2>2, <3>1
  <2>4. HistogramNow \in Histograms /\ HistogramNow.count = Now(Ttft)
    BY NowIs DEF Histograms, HistogramNow
  <2>5. e \in Snapshots
    BY <2>3, <2>4 DEF Snapshots
  <2>6. \A m \in Served \ setup.omits : Value(e, m) = Now(m)
    BY <2>2, <2>4, CountedAre DEF Value
  <2>7. SnapshotOK(e)
    BY <2>2, <2>4 DEF SnapshotOK
  <2>8. e.ok = answers /\ e.metrics = Metrics(Page) /\ e.ttft = HistogramNow
    BY <1>2
  <2> HIDE DEF e
  <2>9. Scraped(e, answers)
    BY <2>5, <2>6, <2>7, <2>8 DEF Scraped
  <2> QED
    BY <2>1, <2>9
<1>3. CASE ~answers
  <2> DEFINE e == [ok |-> FALSE, metrics |-> Metrics({}), ttft |-> NoHistogram]
  <2>1. Snapshot(answers) = e
    BY <1>3, EmptyPage DEF Snapshot
  <2>2. \A m \in AllMetrics : Metrics({})[m] = Missing
    BY <1>1, EmptyPage DEF Metrics
  <2>3. Metrics({}) \in [AllMetrics -> Values]
    <3>1. Metrics({}) = [m \in AllMetrics |-> Canonical({}, m)]
      BY <1>1 DEF Metrics
    <3> QED
      BY <2>2, <3>1 DEF Values
  <2>4. e \in Snapshots
    BY <2>3 DEF Snapshots
  <2>5. SnapshotOK(e)
    BY <2>2 DEF SnapshotOK
  <2>6. e.ok = answers
    BY <1>3
  <2> HIDE DEF e
  <2>7. Scraped(e, answers)
    BY <1>3, <2>4, <2>5, <2>6 DEF Scraped
  <2> QED
    BY <2>1, <2>7
<1> QED
  BY <1>2, <1>3

SessionOK(session) ==
  /\ session \in Sessions
  /\ session.initialized => session.handles = Ranks /\ session.ids = Ranks
  /\ ~session.initialized => session.handles = {}

LEMMA OpenedIs ==
  ASSUME TypeInv, StageInv
  PROVE  /\ SessionOK(nvml) /\ SessionOK(Opened) /\ nvml.ids \subseteq Opened.ids
         /\ driver => Opened.initialized
         /\ SessionOK([Opened EXCEPT !.initialized = FALSE, !.handles = {}])
         /\ [Opened EXCEPT !.initialized = FALSE, !.handles = {}].ids = Opened.ids
         /\ [Opened EXCEPT !.initialized = FALSE, !.handles = {}].initialized = FALSE
<1>1. SessionOK(nvml)
  BY DEF TypeInv, StageInv, SessionOK
<1>2. nvml \in Sessions
  BY DEF TypeInv
<1>3. SessionOK(Opened) /\ nvml.ids \subseteq Opened.ids /\ (driver => Opened.initialized)
  <2>1. CASE nvml.initialized
    <3>1. Opened = nvml
      BY <2>1 DEF Opened
    <3> QED
      BY <1>1, <2>1, <3>1
  <2>2. CASE ~nvml.initialized /\ driver
    <3>1. Opened = [initialized |-> TRUE, handles |-> Ranks, ids |-> Ranks]
      BY <2>2 DEF Opened
    <3> QED
      BY <1>2, <3>1 DEF Sessions, SessionOK
  <2>3. CASE ~nvml.initialized /\ ~driver
    <3>1. Opened = [nvml EXCEPT !.initialized = FALSE, !.handles = {}]
      BY <2>3 DEF Opened
    <3> QED
      BY <1>2, <2>3, <3>1 DEF Sessions, SessionOK
  <2> QED
    BY <2>1, <2>2, <2>3
<1>4. ASSUME NEW session \in Sessions
      PROVE  LET closed == [session EXCEPT !.initialized = FALSE, !.handles = {}] IN
             SessionOK(closed) /\ closed.ids = session.ids /\ closed.initialized = FALSE
  BY DEF Sessions, SessionOK
<1> QED
  BY <1>1, <1>3, <1>4 DEF SessionOK

\* What the sensors of one device read.
LEMMA DeviceIs ==
  ASSUME EngineOK, NEW session, SessionOK(session), NEW r \in Ranks, NEW at \in Nat
  PROVE  LET row == SampleDevice(session, r, at) IN
         /\ row \in Rows /\ row.device = r /\ row.at = at
         /\ row.watts # Missing => r \in answering
         /\ session.initialized /\ answering = Ranks => HealthyRow(row)
<1>1. Watts \in Nat
  BY WindowAssumption
<1>2. CASE r \notin session.handles \/ r \notin answering
  <2>1. SampleDevice(session, r, at) = UnavailableRow(r, at)
    BY <1>2 DEF SampleDevice
  <2>2. /\ UnavailableRow(r, at) \in Rows /\ UnavailableRow(r, at).device = r
        /\ UnavailableRow(r, at).at = at /\ UnavailableRow(r, at).watts = Missing
    BY DEF UnavailableRow, Rows, Values
  <2>3. ~(session.initialized /\ answering = Ranks)
    BY <1>2 DEF SessionOK
  <2> QED
    BY <2>1, <2>2, <2>3
<1>3. CASE ~(r \notin session.handles \/ r \notin answering)
  <2> DEFINE w == IF r \in setup.powerless THEN Missing ELSE Watts
             row == [device |-> r, at |-> at, memory |-> Memory(r), busy |-> engine[r].running,
                     watts |-> w]
  <2>1. SampleDevice(session, r, at) = row
    BY <1>3 DEF SampleDevice
  <2>2. Memory(r) \in Nat /\ engine[r].running \in Nat
    BY EngineIs DEF Memory
  <2>3. w \in {Watts, Missing} /\ (r \notin setup.powerless => w = Watts)
    OBVIOUS
  <2> HIDE DEF w
  <2>4. row \in Rows /\ row.device = r /\ row.at = at /\ HealthyRow(row)
    BY <2>2, <2>3 DEF Rows, Values, HealthyRow
  <2> QED
    BY <1>3, <2>1, <2>4
<1> QED
  BY <1>2, <1>3

\* The rows of one poll.
LEMMA SampleOnceIs ==
  ASSUME EngineOK, NEW session, SessionOK(session), NEW at \in Nat
  PROVE  LET rows == SampleOnce(session, at) IN
         /\ rows \in SUBSET Rows /\ IsFiniteSet(rows) /\ Devices(rows) = session.ids
         /\ \A row \in rows : row.at = at /\ (row.watts # Missing => row.device \in answering)
         /\ \A row, other \in rows : row.device = other.device => row = other
         /\ session.initialized /\ answering = Ranks => \A row \in rows : HealthyRow(row)
<1> DEFINE h == [r \in session.ids |-> SampleDevice(session, r, at)]
           rows == SampleOnce(session, at)
<1>1. session.ids \subseteq Ranks
  BY DEF SessionOK, Sessions
<1>2. IsFiniteSet(session.ids)
  BY <1>1, WindowAssumption, FS_Subset
<1>3. rows = {h[r] : r \in session.ids}
  BY DEF SampleOnce
<1>4. \A r \in session.ids :
         /\ h[r] \in Rows /\ h[r].device = r /\ h[r].at = at
         /\ h[r].watts # Missing => r \in answering
         /\ session.initialized /\ answering = Ranks => HealthyRow(h[r])
  BY <1>1, DeviceIs
<1> HIDE DEF h, rows
<1>5. IsFiniteSet(rows)
  <2>1. IsFiniteSet({h[r] : r \in session.ids})
    BY <1>2, ImageIsFinite
  <2> QED
    BY <1>3, <2>1
<1>6. Devices(rows) = session.ids
  <2>1. \A d : (\E row \in rows : row.device = d) <=> d \in session.ids
    BY <1>3, <1>4
  <2> QED
    BY <2>1 DEF Devices
<1>7. \A row, other \in rows : row.device = other.device => row = other
  BY <1>3, <1>4
<1>8. /\ rows \in SUBSET Rows
      /\ \A row \in rows : row.at = at /\ (row.watts # Missing => row.device \in answering)
      /\ session.initialized /\ answering = Ranks => \A row \in rows : HealthyRow(row)
  BY <1>3, <1>4
<1> QED
  BY <1>5, <1>6, <1>7, <1>8 DEF rows

-----------------------------------------------------------------------------
(* A step that collects a frame *)

Collecting(answers, final) ==
  /\ IInv /\ answers \in BOOLEAN /\ final \in BOOLEAN
  /\ Collect(answers, Opened, final)
  /\ UNCHANGED <<setup, engine, driver, answering, made>>
  /\ nvml' \in Sessions
  /\ nvml'.ids = IF setup.nvml THEN Opened.ids ELSE nvml.ids

Polled(session, at) == IF setup.nvml THEN SampleOnce(session, at) ELSE {}

\* The frames, and the one that follows them.
Appended(answers, final, n, new) ==
  /\ n \in Nat /\ n = Len(frames) /\ DOMAIN frames = 1..n
  /\ frames' \in Seq(FrameSet) /\ Len(frames') = n + 1 /\ DOMAIN frames' = 1..(n + 1)
  /\ \A i \in 1..n : frames'[i] = frames[i] /\ frames[i] \in FrameSet
  /\ frames'[n + 1] = new /\ new \in FrameSet
  /\ new.at = n + 1 /\ Scraped(new.engine, answers) /\ new.final = final
  /\ new.gpu = Polled(Opened, n + 1) /\ new.made = made
  /\ new.driver = driver /\ new.up = answering

LEMMA PolledIs ==
  ASSUME TypeInv, NEW session, SessionOK(session), NEW at \in Nat
  PROVE  /\ Polled(session, at) \in SUBSET Rows /\ IsFiniteSet(Polled(session, at))
         /\ Devices(Polled(session, at)) = IF setup.nvml THEN session.ids ELSE {}
         /\ \A row \in Polled(session, at) :
              row.at = at /\ (row.watts # Missing => row.device \in answering)
         /\ \A row, other \in Polled(session, at) : row.device = other.device => row = other
         /\ session.initialized /\ answering = Ranks
              => \A row \in Polled(session, at) : HealthyRow(row)
<1>1. EngineOK
  BY DEF TypeInv, EngineOK
<1>2. CASE setup.nvml
  <2>1. Polled(session, at) = SampleOnce(session, at)
    BY <1>2 DEF Polled
  <2> QED
    BY <1>1, <1>2, <2>1, SampleOnceIs
<1>3. CASE ~setup.nvml
  <2>1. Polled(session, at) = {}
    BY <1>3 DEF Polled
  <2>2. Devices({}) = {}
    BY DEF Devices
  <2> QED
    BY <1>3, <2>1, <2>2, FS_EmptySet
<1> QED
  BY <1>2, <1>3

LEMMA FramesGrow ==
  ASSUME NEW answers, NEW final, Collecting(answers, final)
  PROVE  Appended(answers, final, Len(frames), Frame(answers, Opened, final))
<1> DEFINE n == Len(frames)
           new == Frame(answers, Opened, final)
<1>1. TypeInv /\ StageInv /\ EngineOK /\ answers \in BOOLEAN /\ final \in BOOLEAN
  BY DEF Collecting, IInv, EngineOK, TypeInv
<1>2. frames \in Seq(FrameSet) /\ n \in Nat /\ DOMAIN frames = 1..n
  BY <1>1 DEF TypeInv
<1>3. frames' = Append(frames, new)
  BY DEF Collecting, Collect
<1>4. SessionOK(Opened)
  BY <1>1, OpenedIs
<1>5. /\ new.at = n + 1 /\ new.engine = Snapshot(answers) /\ new.final = final
      /\ new.gpu = Polled(Opened, n + 1) /\ new.made = made
      /\ new.driver = driver /\ new.up = answering
  BY DEF Frame, Polled
<1>6. Scraped(new.engine, answers)
  BY <1>1, <1>5, SnapshotIs
<1>7. new.gpu \in SUBSET Rows
  <2>1. Polled(Opened, n + 1) \in SUBSET Rows
    BY <1>1, <1>2, <1>4, PolledIs
  <2> QED
    BY <1>5, <2>1
<1>8. new \in FrameSet
  <2>1. new.engine \in Snapshots
    BY <1>6 DEF Scraped
  <2>2. new = [at |-> new.at, engine |-> new.engine, final |-> new.final, gpu |-> new.gpu,
               made |-> new.made, driver |-> new.driver, up |-> new.up]
    BY DEF Frame
  <2>3. /\ new.made \in Made /\ new.up \in SUBSET Ranks /\ new.at \in Nat
        /\ new.final \in BOOLEAN /\ new.driver \in BOOLEAN
    BY <1>1, <1>2, <1>5 DEF TypeInv
  <2> HIDE DEF new
  <2> QED
    BY <1>7, <2>1, <2>2, <2>3 DEF FrameSet
<1> HIDE DEF new
<1>9. /\ frames' \in Seq(FrameSet) /\ Len(frames') = n + 1 /\ DOMAIN frames' = 1..(n + 1)
      /\ \A i \in 1..n : frames'[i] = frames[i] /\ frames[i] \in FrameSet
      /\ frames'[n + 1] = new
  BY <1>2, <1>3, <1>8
<1>10. Appended(answers, final, n, new)
  BY <1>2, <1>5, <1>6, <1>8, <1>9 DEF Appended
<1> QED
  BY <1>10 DEF new

LEMMA SnapshotStep ==
  ASSUME NEW answers, NEW final, Collecting(answers, final)
  PROVE  SnapshotInv'
<1> DEFINE n == Len(frames)
           new == Frame(answers, Opened, final)
<1>1. Appended(answers, final, n, new)
  BY FramesGrow
<1> HIDE DEF n, new
<1>2. setup' = setup /\ SnapshotInv
  BY DEF Collecting, IInv
<1>3. \A e : SnapshotOK(e) => SnapshotOK(e)'
  BY <1>2 DEF SnapshotOK
<1>4. \A i \in 1..(n + 1) : SnapshotOK(frames'[i].engine)
  <2>1. \A i \in 1..n : SnapshotOK(frames'[i].engine)
    BY <1>1, <1>2 DEF Appended, SnapshotInv
  <2>2. SnapshotOK(frames'[n + 1].engine)
    BY <1>1 DEF Appended, Scraped
  <2>3. n \in Nat
    BY <1>1 DEF Appended
  <2> QED
    BY <2>1, <2>2, <2>3
<1>5. DOMAIN frames' = 1..(n + 1)
  BY <1>1 DEF Appended
<1> QED
  BY <1>3, <1>4, <1>5 DEF SnapshotInv

\* What the frames have of a counter, and what the new one adds.
LEMMA SeenIs ==
  ASSUME TypeInv, SnapshotInv
  PROVE  /\ Seen(frames) \subseteq 1..Len(frames) /\ Len(frames) \in Nat
         /\ DOMAIN frames = 1..Len(frames)
         /\ \A i \in Seen(frames) :
              /\ \A m \in (AllMetrics \cup {Ttft}) \ setup.omits : Metric(frames, m)[i] \in Nat
              /\ Ttfts(frames)[i] \in Histograms
              /\ Metric(frames, Ttft)[i] = Ttfts(frames)[i].count
         /\ \A i \in DOMAIN frames \ Seen(frames) :
              /\ \A m \in AllMetrics : Metric(frames, m)[i] = Missing
              /\ Ttfts(frames)[i] = NoHistogram
         /\ \A m \in setup.omits, i \in DOMAIN frames :
              m \in AllMetrics => Metric(frames, m)[i] = Missing
<1>1. frames \in Seq(FrameSet) /\ Len(frames) \in Nat /\ DOMAIN frames = 1..Len(frames)
  BY DEF TypeInv
<1>2. ASSUME NEW i \in DOMAIN frames
      PROVE  /\ frames[i].engine.metrics \in [AllMetrics -> Values]
             /\ SnapshotOK(frames[i].engine)
             /\ \A m \in AllMetrics : Metric(frames, m)[i] = frames[i].engine.metrics[m]
             /\ Metric(frames, Ttft)[i] = frames[i].engine.ttft.count
             /\ Ttfts(frames)[i] = frames[i].engine.ttft
  <2>1. frames[i] \in FrameSet
    BY <1>1
  <2>2. frames[i].engine \in Snapshots
    BY <2>1 DEF FrameSet
  <2>3. frames[i].engine.metrics \in [AllMetrics -> Values]
    BY <2>2 DEF Snapshots
  <2> QED
    BY <2>3, NamesTellApart DEF SnapshotInv, Metric, Value, Ttfts
<1>3. \A i \in DOMAIN frames : i \in Seen(frames) <=> frames[i].engine.ok
  BY DEF Seen
<1>4. Seen(frames) \subseteq DOMAIN frames
  BY DEF Seen
<1>5. ASSUME NEW i \in Seen(frames)
      PROVE  /\ \A m \in (AllMetrics \cup {Ttft}) \ setup.omits : Metric(frames, m)[i] \in Nat
             /\ Ttfts(frames)[i] \in Histograms
             /\ Metric(frames, Ttft)[i] = Ttfts(frames)[i].count
  <2>1. frames[i].engine.ok /\ SnapshotOK(frames[i].engine) /\ i \in DOMAIN frames
    BY <1>2, <1>3, <1>4
  <2>2. \A m \in AllMetrics \ setup.omits : frames[i].engine.metrics[m] \in Nat
    BY <1>2, <2>1 DEF SnapshotOK, Values
  <2>3. frames[i].engine.ttft \in Histograms
    BY <2>1 DEF SnapshotOK
  <2>4. frames[i].engine.ttft.count \in Nat
    BY <2>3 DEF Histograms
  <2> QED
    BY <1>2, <2>1, <2>2, <2>3, <2>4
<1>6. ASSUME NEW i \in DOMAIN frames \ Seen(frames)
      PROVE  /\ \A m \in AllMetrics : Metric(frames, m)[i] = Missing
             /\ Ttfts(frames)[i] = NoHistogram
  <2>1. ~frames[i].engine.ok /\ SnapshotOK(frames[i].engine)
    BY <1>2, <1>3
  <2> QED
    BY <1>2, <2>1 DEF SnapshotOK
<1>7. ASSUME NEW m \in setup.omits, NEW i \in DOMAIN frames, m \in AllMetrics
      PROVE  Metric(frames, m)[i] = Missing
  BY <1>2, <1>7 DEF SnapshotOK
<1> QED
  BY <1>1, <1>4, <1>5, <1>6, <1>7

Extended(answers, n, new) ==
  /\ n \in Nat /\ Seen(frames) \subseteq 1..n /\ DOMAIN frames = 1..n
  /\ Seen(frames') = IF answers THEN Seen(frames) \cup {n + 1} ELSE Seen(frames)
  /\ \A m : /\ \A i \in 1..n : Metric(frames', m)[i] = Metric(frames, m)[i]
            /\ Metric(frames', m)[n + 1] = Value(new.engine, m)
  /\ \A i \in 1..n : Ttfts(frames')[i] = Ttfts(frames)[i]
  /\ Ttfts(frames')[n + 1] = new.engine.ttft
  /\ DOMAIN Ttfts(frames') = 1..(n + 1)

LEMMA SeenGrows ==
  ASSUME NEW answers, NEW final, Collecting(answers, final)
  PROVE  Extended(answers, Len(frames), Frame(answers, Opened, final))
<1> DEFINE n == Len(frames)
           new == Frame(answers, Opened, final)
<1>1. Appended(answers, final, n, new)
  BY FramesGrow
<1> HIDE DEF n, new
<1>2. /\ n \in Nat /\ DOMAIN frames = 1..n /\ DOMAIN frames' = 1..(n + 1)
      /\ \A i \in 1..n : frames'[i] = frames[i]
      /\ frames'[n + 1] = new /\ new.engine.ok = answers
  BY <1>1 DEF Appended, Scraped
<1>3. 1..(n + 1) = (1..n) \cup {n + 1} /\ n + 1 \notin 1..n
  BY <1>2
<1>4. Seen(frames) \subseteq 1..n
  BY <1>2 DEF Seen
<1>5. Seen(frames') = IF answers THEN Seen(frames) \cup {n + 1} ELSE Seen(frames)
  <2>1. \A i : i \in Seen(frames') <=> i \in 1..(n + 1) /\ frames'[i].engine.ok
    BY <1>2 DEF Seen
  <2>2. \A i : i \in Seen(frames) <=> i \in 1..n /\ frames[i].engine.ok
    BY <1>2 DEF Seen
  <2>3. \A i \in 1..n : i \in Seen(frames') <=> i \in Seen(frames)
    BY <1>2, <1>3, <2>1, <2>2
  <2>4. n + 1 \in Seen(frames') <=> answers
    BY <1>2, <1>3, <2>1
  <2> QED
    BY <1>3, <1>4, <2>1, <2>3, <2>4
<1>6. ASSUME NEW m
      PROVE  /\ \A i \in 1..n : Metric(frames', m)[i] = Metric(frames, m)[i]
             /\ Metric(frames', m)[n + 1] = Value(new.engine, m)
  BY <1>2, <1>3 DEF Metric
<1>7. /\ \A i \in 1..n : Ttfts(frames')[i] = Ttfts(frames)[i]
      /\ Ttfts(frames')[n + 1] = new.engine.ttft
      /\ DOMAIN Ttfts(frames') = 1..(n + 1)
  BY <1>2, <1>3 DEF Ttfts
<1>8. Extended(answers, n, new)
  BY <1>2, <1>4, <1>5, <1>6, <1>7 DEF Extended
<1> QED
  BY <1>8 DEF n, new

LEMMA CountStep ==
  ASSUME NEW answers, NEW final, Collecting(answers, final)
  PROVE  CountInv'
<1> DEFINE n == Len(frames)
           new == Frame(answers, Opened, final)
           S == Seen(frames)
<1>1. Extended(answers, n, new) /\ Appended(answers, final, n, new)
  BY FramesGrow, SeenGrows
<1> HIDE DEF n, new
<1>2. /\ TypeInv /\ SnapshotInv /\ CountInv /\ EngineOK /\ answers \in BOOLEAN
      /\ setup' = setup /\ engine' = engine /\ made' = made
  BY DEF Collecting, IInv, EngineOK, TypeInv
<1>3. ASSUME NEW m \in Served \ setup.omits, Seen(frames') # {}
      PROVE  CountOK(Delta(Metric(frames', m), Seen(frames')),
                     Metric(frames', m)[Max(Seen(frames'))], Now(m), Of(made, m))
  <2> DEFINE v == Metric(frames, m)
             w == Metric(frames', m)
             now == Now(m)
             total == Of(made, m)
  <2>1. m \in AllMetrics \cup {Ttft} /\ now \in Nat /\ total \in Nat
    BY <1>2, CountedAre, NowIs, MadeIs DEF TypeInv
  <2>2. n \in Nat /\ S \subseteq 1..n /\ \A i \in S : v[i] \in Nat
    BY <1>1, <1>2, <2>1, SeenIs DEF Extended
  <2>3. \A i \in S : v[i] = w[i]
    BY <1>1, <2>2 DEF Extended
  <2>4. S # {} => CountOK(Delta(v, S), v[Max(S)], now, total)
    BY <1>2 DEF CountInv
  <2>5. S # {} => Max(S) \in S
    BY <2>2, Positions
  <2>6. CASE ~answers
    <3>1. Seen(frames') = S
      BY <1>1, <2>6 DEF Extended
    <3> HIDE DEF v, w, S, now, total
    <3>2. Delta(w, S) = Delta(v, S)
      BY <2>2, <2>3, GrowthOfSame DEF Delta
    <3>3. w[Max(S)] = v[Max(S)]
      BY <1>3, <2>3, <2>5, <3>1
    <3>4. CountOK(Delta(w, S), w[Max(S)], now, total)
      BY <1>3, <2>4, <3>1, <3>2, <3>3
    <3> QED
      BY <3>1, <3>4 DEF w, now, total
  <2>7. CASE answers
    <3>1. Seen(frames') = S \cup {n + 1}
      BY <1>1, <2>7 DEF Extended
    <3>2. w[n + 1] = now
      BY <1>1, <2>7 DEF Extended, Appended, Scraped
    <3> HIDE DEF v, w, S, now, total
    <3>3. Max(S \cup {n + 1}) = n + 1
      BY <2>2, NextPosition
    <3>4. w[n + 1] \in Nat /\ \A i \in S : v[i] = w[i] /\ v[i] \in Nat
      BY <2>1, <2>2, <2>3, <3>2
    <3>5. S = {} => Delta(w, S \cup {n + 1}) = 0
      BY <2>2, <3>4, DeltaGrows
    <3>6. S # {} => Delta(w, S \cup {n + 1}) = Delta(v, S) + GrowthAt(v[Max(S)], w[n + 1])
      BY <2>2, <3>4, DeltaGrows
    <3>7. CASE S = {}
      <4>1. CountOK(0, now, now, total)
        BY <2>1 DEF CountOK
      <4>2. CountOK(Delta(w, S \cup {n + 1}), w[n + 1], now, total)
        BY <3>2, <3>5, <3>7, <4>1
      <4> QED
        BY <3>1, <3>3, <4>2 DEF w, now, total
    <3>8. CASE S # {}
      <4>1. ASSUME NEW D, NEW L, CountOK(D, L, now, total)
            PROVE  CountOK(D + GrowthAt(L, now), now, now, total)
        BY <2>1, <4>1 DEF CountOK, GrowthAt
      <4>2. CountOK(Delta(v, S) + GrowthAt(v[Max(S)], now), now, now, total)
        BY <2>4, <3>8, <4>1
      <4>3. CountOK(Delta(w, S \cup {n + 1}), w[n + 1], now, total)
        BY <3>2, <3>6, <3>8, <4>2
      <4> QED
        BY <3>1, <3>3, <4>3 DEF w, now, total
    <3> QED
      BY <3>7, <3>8
  <2> QED
    BY <1>2, <2>6, <2>7
<1>4. \A m \in Served : Now(m)' = Now(m) /\ Of(made, m)' = Of(made, m)
  BY <1>2, SameEngines
<1> QED
  BY <1>2, <1>3, <1>4 DEF CountInv

LEMMA BucketStep ==
  ASSUME NEW answers, NEW final, Collecting(answers, final)
  PROVE  BucketInv'
<1> DEFINE n == Len(frames)
           new == Frame(answers, Opened, final)
           S == Seen(frames)
           v == Ttfts(frames)
           w == Ttfts(frames')
<1>1. Extended(answers, n, new) /\ Appended(answers, final, n, new)
  BY FramesGrow, SeenGrows
<1> HIDE DEF n, new
<1>2. /\ TypeInv /\ SnapshotInv /\ BucketInv /\ EngineOK /\ answers \in BOOLEAN
      /\ engine' = engine /\ made' = made /\ made \in Made
  BY DEF Collecting, IInv, EngineOK, TypeInv
<1>3. n \in Nat /\ S \subseteq 1..n /\ \A i \in S : v[i] = w[i] /\ Whole(v[i])
  BY <1>1, <1>2, SeenIs, SetOfMissing DEF Extended
<1>4. S # {} => Max(S) \in S
  BY <1>3, Positions
<1>5. S # {} => Continued(v, S) \/ Restarted(v, S)
  BY <1>2 DEF BucketInv
<1>6. Now(Ttft) \in Nat /\ \A b \in AllBounds : NowWithin(b) \in Nat /\ Within(made.first, b) \in Nat
  BY <1>2, NowIs, MadeIs
<1>7. /\ Now(Ttft)' = Now(Ttft) /\ \A b : NowWithin(b)' = NowWithin(b)
      /\ made'.first = made.first
  BY <1>2, SameEngines
<1>8. Seen(frames') = IF answers THEN S \cup {n + 1} ELSE S
  BY <1>1 DEF Extended
<1> DEFINE R == Seen(frames')
           Goes(h) == /\ h[Max(R)].count <= Now(Ttft)
                      /\ \A b \in AllBounds :
                           /\ h[Max(R)].buckets[b] <= NowWithin(b)
                           /\ BucketDelta(h, R, b) + NowWithin(b)
                                <= Within(made.first, b) + h[Max(R)].buckets[b]
           Starts(h) == \A b \in AllBounds :
                          BucketDelta(h, R, b) + NowWithin(b) <= Within(made.first, b)
<1>9. ASSUME R # {} PROVE Goes(w) \/ Starts(w)
  <2> HIDE DEF S, v, w, R
  <2>1. CASE ~answers
    <3>1. R = S /\ Max(S) \in S
      BY <1>4, <1>8, <1>9, <2>1 DEF R
    <3>2. w[Max(S)] = v[Max(S)]
      BY <1>3, <3>1
    <3>3. ASSUME NEW b \in AllBounds PROVE BucketDelta(w, S, b) = BucketDelta(v, S, b)
      <4>1. Alike(n, v, w, S)
        BY <1>3 DEF Alike
      <4> QED
        BY <4>1, BucketsOfSame
    <3>4. CASE Continued(v, S)
      <4>1. Goes(w)
        BY <3>1, <3>2, <3>3, <3>4 DEF Continued
      <4> QED
        BY <4>1
    <3>5. CASE Restarted(v, S)
      <4>1. Starts(w)
        BY <3>1, <3>3, <3>5 DEF Restarted
      <4> QED
        BY <4>1
    <3> QED
      BY <1>5, <1>9, <3>1, <3>4, <3>5
  <2>2. CASE answers
    <3>1. R = S \cup {n + 1} /\ Max(S \cup {n + 1}) = n + 1
      BY <1>3, <1>8, <2>2, NextPosition DEF R
    <3>2. w[n + 1] = HistogramNow /\ Whole(w[n + 1])
      BY <1>1, <1>2, <2>2, HistogramIs DEF Extended, Appended, Scraped, w
    <3>3. w[n + 1].count = Now(Ttft) /\ \A b \in AllBounds : w[n + 1].buckets[b] = NowWithin(b)
      BY <3>2 DEF HistogramNow
    <3>4. ASSUME NEW b \in AllBounds
          PROVE  BucketDelta(w, S \cup {n + 1}, b) <= Within(made.first, b)
                 /\ BucketDelta(w, S \cup {n + 1}, b) \in Nat
      <4>1. /\ S = {} => BucketDelta(w, S \cup {n + 1}, b) = 0
            /\ S # {} => BucketDelta(w, S \cup {n + 1}, b)
                           = BucketDelta(v, S, b) + Contribution(v[Max(S)], w[n + 1], b)
        BY <1>3, <3>2, BucketsGrow
      <4>2. CASE S = {}
        BY <1>6, <4>1, <4>2
      <4>3. CASE S # {}
        <5>1. Whole(v[Max(S)]) /\ BucketDelta(v, S, b) \in Nat
          <6>1. BucketDelta(v, S, b) \in Nat
            BY <1>3, ContributionsAre
          <6> QED
            BY <1>3, <1>4, <4>3, <6>1
        <5>2. PICK c \in Nat : c = Contribution(v[Max(S)], w[n + 1], b)
          BY <3>2, <5>1, ContributionIs
        <5>3. /\ c <= NowWithin(b)
              /\ v[Max(S)].count <= Now(Ttft) /\ v[Max(S)].buckets[b] <= NowWithin(b)
                   => c = NowWithin(b) - v[Max(S)].buckets[b]
          BY <3>2, <3>3, <5>1, <5>2, ContributionIs
        <5>4. v[Max(S)].buckets[b] \in Nat
          BY <5>1 DEF Whole
        <5>5. BucketDelta(v, S, b) + c <= Within(made.first, b)
          <6>1. CASE Continued(v, S)
            <7>1. /\ c = NowWithin(b) - v[Max(S)].buckets[b]
                  /\ BucketDelta(v, S, b) + NowWithin(b)
                       <= Within(made.first, b) + v[Max(S)].buckets[b]
              BY <5>3, <6>1 DEF Continued
            <7> QED
              BY <1>6, <5>1, <5>4, <7>1
          <6>2. CASE Restarted(v, S)
            <7>1. BucketDelta(v, S, b) + NowWithin(b) <= Within(made.first, b)
              BY <6>2 DEF Restarted
            <7> QED
              BY <1>6, <5>1, <5>3, <7>1
          <6> QED
            BY <1>5, <4>3, <6>1, <6>2
        <5> QED
          BY <4>1, <4>3, <5>1, <5>2, <5>5
      <4> QED
        BY <4>2, <4>3
    <3>5. \A b \in AllBounds :
            /\ w[n + 1].buckets[b] <= NowWithin(b)
            /\ BucketDelta(w, R, b) + NowWithin(b) <= Within(made.first, b) + w[n + 1].buckets[b]
      BY <1>6, <3>1, <3>3, <3>4
    <3>6. Max(R) = n + 1
      BY <3>1
    <3>7. w[Max(R)].count <= Now(Ttft)
      BY <1>6, <3>3, <3>6
    <3>8. \A b \in AllBounds :
            /\ w[Max(R)].buckets[b] <= NowWithin(b)
            /\ BucketDelta(w, R, b) + NowWithin(b)
                 <= Within(made.first, b) + w[Max(R)].buckets[b]
      BY <3>5, <3>6
    <3> QED
      BY <3>7, <3>8
  <2> QED
    BY <1>2, <2>1, <2>2
<1> QED
  BY <1>7, <1>9 DEF BucketInv, Continued, Restarted

\* Without a fault every frame is seen, and the delta is what was served up to it.
LEMMA FaultlessStep ==
  ASSUME NEW answers, NEW final, Collecting(answers, final)
  PROVE  FaultlessInv'
<1> DEFINE n == Len(frames)
           new == Frame(answers, Opened, final)
<1>1. Extended(answers, n, new) /\ Appended(answers, final, n, new)
  BY FramesGrow, SeenGrows
<1> HIDE DEF n, new
<1>2. /\ TypeInv /\ SnapshotInv /\ StageInv /\ FaultlessInv /\ EngineOK /\ answers \in BOOLEAN
      /\ setup' = setup /\ engine' = engine /\ made' = made /\ answering' = answering
      /\ made \in Made
  BY DEF Collecting, IInv, EngineOK, TypeInv
<1>3. faults \in Nat /\ faults' = IF answers THEN faults ELSE faults + 1
  BY DEF Collecting, Collect, IInv, TypeInv
<1>4. SUFFICES ASSUME faults' = 0 PROVE FaultlessInv'
  BY DEF FaultlessInv
<1>5. answers /\ faults = 0
  BY <1>2, <1>3, <1>4
<1>6. answering = Ranks /\ Seen(frames) = 1..n
  BY <1>1, <1>2, <1>5 DEF FaultlessInv, Appended
<1>7. /\ n \in Nat /\ Len(frames') = n + 1 /\ n = Len(frames) /\ DOMAIN frames' = 1..(n + 1)
      /\ new.made = made /\ frames'[n + 1] = new /\ frames' \in Seq(FrameSet)
      /\ \A m \in Served \ setup.omits : Value(new.engine, m) = Now(m)
      /\ new.engine.ttft = HistogramNow
  BY <1>1, <1>5 DEF Appended, Scraped
<1>8. Seen(frames') = 1..(n + 1)
  <2>1. Seen(frames') = (1..n) \cup {n + 1}
    BY <1>1, <1>5, <1>6 DEF Extended
  <2> QED
    BY <1>7, <2>1
<1>9. (1..n) \cup {n + 1} = 1..(n + 1) /\ (n # 0 => Max(1..n) = n) /\ (1..n # {} <=> n # 0)
  <2>1. n # 0 => Max(1..n) = n
    <3>1. n # 0 => n \in 1..n /\ 1..n \subseteq Int /\ \A x \in 1..n : x <= n
      BY <1>7
    <3> QED
      BY <3>1, MaxIs
  <2> QED
    BY <1>7, <2>1
<1>10. n = 0 => made = Nothing
  BY <1>2, <1>7 DEF StageInv, TypeInv
<1>11. n # 0 => frames # <<>> /\ frames[n].made \in Made
  <2>1. n # 0 => n \in DOMAIN frames /\ frames[n] \in FrameSet
    BY <1>1, <1>7 DEF Appended
  <2> QED
    BY <1>7, <2>1 DEF FrameSet
<1>12. ASSUME NEW m \in Served \ setup.omits
       PROVE  /\ Metric(frames', m)[n + 1] = Now(m)
              /\ Delta(Metric(frames', m), 1..(n + 1)) = Of(made, m)
  <2> DEFINE v == Metric(frames, m)
             w == Metric(frames', m)
             total == Of(made, m)
             then == Of(frames[n].made, m)
             now == Now(m)
  <2>1. m \in AllMetrics \cup {Ttft} /\ total \in Nat /\ now \in Nat /\ w[n + 1] = now
    BY <1>1, <1>2, <1>7, CountedAre, NowIs, MadeIs DEF Extended
  <2>2. \A i \in 1..n : v[i] = w[i] /\ v[i] \in Nat
    BY <1>1, <1>2, <1>6, <2>1, SeenIs DEF Extended
  <2>3. n # 0 => /\ now + then = v[n] + total /\ then <= total /\ then \in Nat
                 /\ Delta(v, 1..n) = then
    BY <1>2, <1>5, <1>7, <1>11, MadeIs DEF FaultlessInv
  <2>4. n = 0 => total = 0
    BY <1>10, NothingServed
  <2> HIDE DEF v, w, total, then, now
  <2>5. /\ 1..n = {} => Delta(w, (1..n) \cup {n + 1}) = 0
        /\ 1..n # {} => Delta(w, (1..n) \cup {n + 1})
                          = Delta(v, 1..n) + GrowthAt(v[Max(1..n)], w[n + 1])
    <3> DEFINE S == 1..n
    <3>1. S \subseteq 1..n /\ \A i \in S : v[i] = w[i] /\ v[i] \in Nat
      BY <2>2
    <3>0. n \in Nat /\ w[n + 1] \in Nat
      BY <1>7, <2>1
    <3> HIDE DEF S
    <3>2. S = {} => Delta(w, S \cup {n + 1}) = 0
      BY <3>0, <3>1, DeltaGrows
    <3>3. S # {} => Delta(w, S \cup {n + 1}) = Delta(v, S) + GrowthAt(v[Max(S)], w[n + 1])
      BY <3>0, <3>1, DeltaGrows
    <3> QED
      BY <3>2, <3>3 DEF S
  <2>6. Delta(w, 1..(n + 1)) = total
    <3>1. CASE n = 0
      BY <1>9, <2>4, <2>5, <3>1
    <3>2. CASE n # 0
      <4>1. Delta(w, 1..(n + 1)) = then + GrowthAt(v[n], now)
        BY <1>9, <2>1, <2>3, <2>5, <3>2
      <4>2. v[n] \in Nat
        BY <1>7, <2>2, <3>2
      <4>3. GrowthAt(v[n], now) = total - then
        BY <2>1, <2>3, <3>2, <4>2 DEF GrowthAt
      <4> QED
        BY <2>1, <2>3, <3>2, <4>1, <4>3
    <3> QED
      BY <3>1, <3>2
  <2> QED
    BY <2>1, <2>6 DEF w, total, now
<1>13. ASSUME NEW b \in AllBounds
       PROVE  /\ Ttfts(frames')[n + 1].buckets[b] = NowWithin(b)
              /\ BucketDelta(Ttfts(frames'), 1..(n + 1), b) = Within(made.first, b)
  <2> DEFINE v == Ttfts(frames)
             w == Ttfts(frames')
             now == NowWithin(b)
             total == Within(made.first, b)
             then == Within(frames[n].made.first, b)
  <2>1. /\ w[n + 1] = HistogramNow /\ Whole(w[n + 1]) /\ w[n + 1].buckets[b] = now
        /\ w[n + 1].count = Now(Ttft) /\ now \in Nat /\ total \in Nat
    BY <1>1, <1>2, <1>7, HistogramIs, NowIs, MadeIs DEF Extended, HistogramNow
  <2>2. \A i \in 1..n : v[i] = w[i] /\ Whole(v[i])
    BY <1>1, <1>2, <1>6, SeenIs, SetOfMissing DEF Extended
  <2>3. n # 0 => /\ now + then = v[n].buckets[b] + total /\ then <= total /\ then \in Nat
                 /\ BucketDelta(v, 1..n, b) = then
    BY <1>2, <1>5, <1>7, <1>11, MadeIs DEF FaultlessInv
  <2>4. n = 0 => total = 0
    BY <1>10, NothingServed
  <2>5. n # 0 => v[n].count <= Now(Ttft)
    <3>1. Ttft \in Served \ setup.omits
      BY <1>2, SetupIs, CountedAre, NamesTellApart DEF TypeInv
    <3>2. ASSUME n # 0
          PROVE  /\ Now(Ttft) + Of(frames[n].made, Ttft) = Metric(frames, Ttft)[n] + Of(made, Ttft)
                 /\ Of(frames[n].made, Ttft) <= Of(made, Ttft)
      BY <1>2, <1>5, <1>7, <1>11, <3>1, <3>2 DEF FaultlessInv
    <3>3. n # 0 => Metric(frames, Ttft)[n] = v[n].count /\ v[n].count \in Nat
      <4>1. n # 0 => n \in Seen(frames)
        BY <1>6, <1>7
      <4> QED
        BY <1>2, <2>2, <4>1, SeenIs, SetOfMissing DEF Histograms
    <3>4. /\ Now(Ttft) \in Nat /\ Of(made, Ttft) \in Nat
          /\ (n # 0 => Of(frames[n].made, Ttft) \in Nat)
      BY <1>2, <1>11, NowIs, MadeIs, CountedAre
    <3> QED
      BY <3>2, <3>3, <3>4
  <2> HIDE DEF v, w, now, total, then
  <2>6. /\ 1..n = {} => BucketDelta(w, (1..n) \cup {n + 1}, b) = 0
        /\ 1..n # {} => BucketDelta(w, (1..n) \cup {n + 1}, b)
                          = BucketDelta(v, 1..n, b) + Contribution(v[Max(1..n)], w[n + 1], b)
    <3> DEFINE S == 1..n
    <3>1. S \subseteq 1..n /\ \A i \in S : v[i] = w[i] /\ Whole(v[i])
      BY <2>2
    <3>0. n \in Nat /\ Whole(w[n + 1])
      BY <1>7, <2>1
    <3> HIDE DEF S
    <3>2. S = {} => BucketDelta(w, S \cup {n + 1}, b) = 0
      BY <3>0, <3>1, BucketsGrow
    <3>3. S # {} => BucketDelta(w, S \cup {n + 1}, b)
                      = BucketDelta(v, S, b) + Contribution(v[Max(S)], w[n + 1], b)
      BY <3>0, <3>1, BucketsGrow
    <3> QED
      BY <3>2, <3>3 DEF S
  <2>7. BucketDelta(w, 1..(n + 1), b) = total
    <3>1. CASE n = 0
      BY <1>9, <2>4, <2>6, <3>1
    <3>2. CASE n # 0
      <4>1. Whole(v[n])
        BY <1>7, <2>2, <3>2
      <4>2. v[n].buckets[b] \in Nat
        BY <4>1 DEF Whole
      <4>3. Contribution(v[n], w[n + 1], b) = now - v[n].buckets[b]
        <5>1. v[n].buckets[b] <= now
          BY <2>1, <2>3, <3>2, <4>2
        <5> QED
          BY <2>1, <2>5, <3>2, <4>1, <5>1, ContributionIs
      <4>4. BucketDelta(w, 1..(n + 1), b) = then + Contribution(v[n], w[n + 1], b)
        BY <1>9, <2>3, <2>6, <3>2
      <4> QED
        BY <2>1, <2>3, <3>2, <4>2, <4>3, <4>4
    <3> QED
      BY <3>1, <3>2
  <2> QED
    BY <2>1, <2>7 DEF w, now, total
<1>14. \A m \in Served : Now(m) \in Nat /\ Of(made, m) \in Nat
  BY <1>2, CountedAre, NowIs, MadeIs
<1>15. \A b \in AllBounds : NowWithin(b) \in Nat /\ Within(made.first, b) \in Nat
  BY <1>2, NowIs, MadeIs
<1>16. /\ \A m : Now(m)' = Now(m)
       /\ \A b : NowWithin(b)' = NowWithin(b)
  BY <1>2, SameEngines
<1>17. frames'[n + 1].made = made
  BY <1>7
<1>18. \A m \in Served \ setup.omits :
         /\ Now(m) + Of(made, m) = Metric(frames', m)[n + 1] + Of(made, m)
         /\ Of(made, m) <= Of(made, m)
         /\ Delta(Metric(frames', m), 1..(n + 1)) = Of(made, m)
  BY <1>12, <1>14
<1>19. \A b \in AllBounds :
         /\ NowWithin(b) + Within(made.first, b)
              = Ttfts(frames')[n + 1].buckets[b] + Within(made.first, b)
         /\ Within(made.first, b) <= Within(made.first, b)
         /\ BucketDelta(Ttfts(frames'), 1..(n + 1), b) = Within(made.first, b)
  BY <1>13, <1>15
<1> QED
  BY <1>2, <1>6, <1>7, <1>8, <1>16, <1>17, <1>18, <1>19 DEF FaultlessInv

\* The driver that was up at a frame is up at the later ones.
LEMMA DriverStep ==
  ASSUME NEW answers, NEW final, Collecting(answers, final)
  PROVE  DriverInv'
<1> DEFINE n == Len(frames)
           new == Frame(answers, Opened, final)
<1>1. Appended(answers, final, n, new)
  BY FramesGrow
<1> HIDE DEF n, new
<1>2. DriverInv /\ driver' = driver
  BY DEF Collecting, IInv
<1>3. /\ n \in Nat /\ DOMAIN frames = 1..n /\ DOMAIN frames' = 1..(n + 1)
      /\ \A i \in 1..n : frames'[i] = frames[i]
      /\ frames'[n + 1].driver = driver
  BY <1>1 DEF Appended
<1>4. \A i \in 1..(n + 1) : i \in 1..n \/ i = n + 1
  BY <1>3
<1>5. ASSUME NEW i \in 1..(n + 1), frames'[i].driver
      PROVE  driver /\ \A j \in 1..(n + 1) : i <= j => frames'[j].driver
  <2>1. CASE i \in 1..n
    <3>1. driver /\ \A j \in 1..n : i <= j => frames'[j].driver
      BY <1>2, <1>3, <1>5, <2>1 DEF DriverInv
    <3> QED
      BY <1>3, <1>4, <3>1
  <2>2. CASE i = n + 1
    BY <1>3, <1>4, <1>5, <2>2
  <2> QED
    BY <1>4, <2>1, <2>2
<1> QED
  BY <1>2, <1>3, <1>5 DEF DriverInv

LEMMA RowStep ==
  ASSUME NEW answers, NEW final, Collecting(answers, final)
  PROVE  RowInv'
<1> DEFINE n == Len(frames)
           new == Frame(answers, Opened, final)
<1>1. Appended(answers, final, n, new)
  BY FramesGrow
<1> HIDE DEF n, new
<1>2. /\ TypeInv /\ StageInv /\ RowInv /\ setup' = setup /\ answering' = answering
      /\ nvml' \in Sessions /\ nvml'.ids = IF setup.nvml THEN Opened.ids ELSE nvml.ids
  BY DEF Collecting, IInv
<1>3. /\ n \in Nat /\ DOMAIN frames = 1..n /\ DOMAIN frames' = 1..(n + 1) /\ Len(frames') = n + 1
      /\ \A i \in 1..n : frames'[i] = frames[i]
      /\ frames'[n + 1] = new /\ new.gpu = Polled(Opened, n + 1) /\ new.up = answering
  BY <1>1 DEF Appended
<1>4. SessionOK(Opened) /\ nvml.ids \subseteq Opened.ids
  BY <1>2, OpenedIs
<1>5. nvml.ids \subseteq nvml'.ids
  BY <1>2, <1>4
<1>6. ASSUME NEW i \in 1..n
      PROVE  /\ IsFiniteSet(frames'[i].gpu) /\ i # Len(frames')
             /\ \A row \in frames'[i].gpu : row.at = i
                  /\ (row.watts # Missing => row.device \in frames'[i].up)
             /\ \A row, other \in frames'[i].gpu : row.device = other.device => row = other
             /\ Devices(frames'[i].gpu) \subseteq nvml'.ids
  BY <1>2, <1>3, <1>5 DEF RowInv, RowOK
<1>7. /\ IsFiniteSet(new.gpu)
      /\ \A row \in new.gpu : row.at = n + 1 /\ (row.watts # Missing => row.device \in new.up)
      /\ \A row, other \in new.gpu : row.device = other.device => row = other
      /\ Devices(new.gpu) = IF setup.nvml THEN nvml'.ids ELSE {}
  <2> DEFINE rows == Polled(Opened, n + 1)
  <2>1. n + 1 \in Nat
    BY <1>3
  <2>2. /\ IsFiniteSet(rows) /\ Devices(rows) = IF setup.nvml THEN Opened.ids ELSE {}
        /\ \A row \in rows : row.at = n + 1 /\ (row.watts # Missing => row.device \in answering)
        /\ \A row, other \in rows : row.device = other.device => row = other
    BY <1>2, <1>4, <2>1, PolledIs
  <2> HIDE DEF rows
  <2>3. rows = new.gpu
    BY <1>3 DEF rows
  <2> QED
    BY <1>2, <1>3, <2>2, <2>3
<1>8. \A i \in 1..(n + 1) : i \in 1..n \/ i = n + 1
  BY <1>3
<1>9. \A i \in 1..(n + 1) :
        /\ IsFiniteSet(frames'[i].gpu)
        /\ \A row \in frames'[i].gpu : row.at = i
             /\ (row.watts # Missing => row.device \in frames'[i].up)
        /\ \A row, other \in frames'[i].gpu : row.device = other.device => row = other
        /\ Devices(frames'[i].gpu) \subseteq nvml'.ids
        /\ i = Len(frames') => Devices(frames'[i].gpu) = IF setup.nvml THEN nvml'.ids ELSE {}
  BY <1>3, <1>6, <1>7, <1>8
<1> QED
  BY <1>2, <1>3, <1>9 DEF RowInv, RowOK

LEMMA HealthyStep ==
  ASSUME NEW answers, NEW final, Collecting(answers, final)
  PROVE  HealthyInv'
<1> DEFINE n == Len(frames)
           new == Frame(answers, Opened, final)
<1>1. Appended(answers, final, n, new)
  BY FramesGrow
<1> HIDE DEF n, new
<1>2. /\ TypeInv /\ StageInv /\ HealthyInv /\ FaultlessInv /\ setup' = setup
      /\ faults \in Nat /\ answers \in BOOLEAN
      /\ faults' = IF answers THEN faults ELSE faults + 1
  BY DEF Collecting, Collect, IInv, TypeInv
<1>3. /\ n \in Nat /\ DOMAIN frames = 1..n /\ DOMAIN frames' = 1..(n + 1)
      /\ \A i \in 1..n : frames'[i] = frames[i]
      /\ frames'[n + 1].gpu = Polled(Opened, n + 1) /\ frames'[n + 1].driver = driver
  BY <1>1 DEF Appended
<1>4. SessionOK(Opened) /\ (driver => Opened.initialized)
  BY <1>2, OpenedIs
<1>5. ASSUME faults' = 0, setup.nvml, NEW i \in 1..(n + 1), frames'[i].driver
      PROVE  Devices(frames'[i].gpu) = Ranks /\ \A row \in frames'[i].gpu : HealthyRow(row)
  <2>1. faults = 0 /\ answering = Ranks
    BY <1>2, <1>5 DEF FaultlessInv
  <2>2. CASE i = n + 1
    <3>1. Opened.initialized /\ Opened.ids = Ranks
      BY <1>3, <1>4, <1>5, <2>2 DEF SessionOK
    <3> QED
      BY <1>2, <1>3, <1>4, <1>5, <2>1, <2>2, <3>1, PolledIs
  <2>3. CASE i \in 1..n
    BY <1>2, <1>3, <1>5, <2>1, <2>3 DEF HealthyInv
  <2>4. i \in 1..n \/ i = n + 1
    BY <1>3
  <2> QED
    BY <2>2, <2>3, <2>4
<1>6. \A row : HealthyRow(row) => HealthyRow(row)'
  BY <1>2 DEF HealthyRow
<1> QED
  BY <1>2, <1>3, <1>5, <1>6 DEF HealthyInv

-----------------------------------------------------------------------------
(* The energy of the rows *)

LEMMA RowsAreFinite ==
  ASSUME TypeInv, RowInv
  PROVE  /\ IsFiniteSet(GpuRows(frames))
         /\ \A row \in GpuRows(frames) :
              /\ row \in Rows /\ row.at \in DOMAIN frames /\ row \in frames[row.at].gpu
              /\ row.at \in Nat /\ (row.watts = Missing \/ row.watts = Watts)
         /\ \A r : IsFiniteSet(RowsOf(GpuRows(frames), r))
<1> DEFINE h == [i \in DOMAIN frames |-> frames[i].gpu]
           F == {h[i] : i \in DOMAIN frames}
<1>1. frames \in Seq(FrameSet) /\ Len(frames) \in Nat /\ DOMAIN frames = 1..Len(frames)
  BY DEF TypeInv
<1>2. GpuRows(frames) = UNION F
  BY DEF GpuRows
<1>3. IsFiniteSet(DOMAIN frames)
  BY <1>1, FS_Interval
<1>4. \A U \in F : IsFiniteSet(U)
  BY DEF RowInv
<1>5. IsFiniteSet(F)
  <2> HIDE DEF h
  <2> QED
    BY <1>3, ImageIsFinite
<1>6. IsFiniteSet(UNION F)
  <2> HIDE DEF F
  <2> QED
    BY <1>4, <1>5, FS_UNION
<1>7. ASSUME NEW row \in GpuRows(frames)
      PROVE  /\ row \in Rows /\ row.at \in DOMAIN frames /\ row \in frames[row.at].gpu
             /\ row.at \in Nat /\ (row.watts = Missing \/ row.watts = Watts)
  <2>1. PICK i \in DOMAIN frames : row \in frames[i].gpu
    BY DEF GpuRows
  <2>2. row.at = i
    BY <2>1 DEF RowInv, RowOK
  <2>3. frames[i] \in FrameSet
    BY <1>1
  <2>4. row \in Rows
    BY <2>1, <2>3 DEF FrameSet
  <2>5. row.watts = Missing \/ row.watts = Watts
    BY <2>4 DEF Rows
  <2> QED
    BY <1>1, <2>1, <2>2, <2>4, <2>5
<1>8. \A r : IsFiniteSet(RowsOf(GpuRows(frames), r))
  <2> SUFFICES ASSUME NEW r PROVE IsFiniteSet(RowsOf(GpuRows(frames), r))
    OBVIOUS
  <2>1. RowsOf(GpuRows(frames), r) \subseteq GpuRows(frames)
    BY DEF RowsOf
  <2> QED
    BY <1>2, <1>6, <2>1, FS_Subset
<1> QED
  BY <1>2, <1>6, <1>7, <1>8

\* One reading measures no interval.
LEMMA OneReading ==
  ASSUME NEW x, x.at \in Nat
  PROVE  Measured({x}) = {} /\ Energy2({x}) = 0
<1>1. Measured({x}) = {}
  BY DEF Measured, Adjacent
<1>2. Energy2({x}) = 0
  <2> DEFINE f == [i \in Measured({x}) |-> (i[1].watts + i[2].watts) * (i[2].at - i[1].at)]
  <2>1. DOMAIN f = {} /\ \A i \in {} : f[i] = 0
    BY <1>1
  <2>2. Energy2({x}) = SumFunction(f)
    BY DEF Energy2
  <2> HIDE DEF f
  <2> QED
    BY <2>1, <2>2, FS_EmptySet, SumZero, SumIsSum
<1> QED
  BY <1>1, <1>2

LEMMA EnergyStep ==
  ASSUME NEW answers, NEW final, Collecting(answers, final)
  PROVE  EnergyInv' /\ drawn' \in [Ranks -> Nat]
<1> DEFINE n == Len(frames)
           new == Frame(answers, Opened, final)
<1>1. Appended(answers, final, n, new)
  BY FramesGrow
<1> HIDE DEF n, new
<1>2. /\ TypeInv /\ StageInv /\ RowInv /\ EnergyInv
      /\ drawn \in [Ranks -> Nat] /\ Watts \in Nat
  BY WindowAssumption DEF Collecting, IInv, TypeInv
<1>3. /\ n = Len(frames) /\ n \in Nat /\ DOMAIN frames = 1..n /\ DOMAIN frames' = 1..(n + 1)
      /\ \A i \in 1..n : frames'[i] = frames[i]
      /\ frames'[n + 1] = new /\ new.gpu = Polled(Opened, n + 1)
  BY <1>1 DEF Appended
<1>4. SessionOK(Opened)
  BY <1>2, OpenedIs
<1>5. /\ \A row \in new.gpu : row \in Rows /\ row.at = n + 1
                              /\ (row.watts # Missing => row.device \in answering)
      /\ \A row, other \in new.gpu : row.device = other.device => row = other
      /\ Devices(new.gpu) = IF setup.nvml THEN Opened.ids ELSE {}
  <2> DEFINE rows == Polled(Opened, n + 1)
  <2>1. n + 1 \in Nat
    BY <1>3
  <2>2. /\ rows \in SUBSET Rows /\ Devices(rows) = IF setup.nvml THEN Opened.ids ELSE {}
        /\ \A row \in rows : row.at = n + 1 /\ (row.watts # Missing => row.device \in answering)
        /\ \A row, other \in rows : row.device = other.device => row = other
    BY <1>2, <1>4, <2>1, PolledIs
  <2> HIDE DEF rows
  <2>3. rows = new.gpu
    BY <1>3 DEF rows
  <2> QED
    BY <2>2, <2>3
<1>6. GpuRows(frames') = GpuRows(frames) \cup new.gpu
  <2>1. \A x : x \in GpuRows(frames') <=> \E i \in 1..(n + 1) : x \in frames'[i].gpu
    BY <1>3 DEF GpuRows
  <2>2. \A x : x \in GpuRows(frames) <=> \E i \in 1..n : x \in frames[i].gpu
    BY <1>3 DEF GpuRows
  <2>3. \A i : i \in 1..(n + 1) <=> i \in 1..n \/ i = n + 1
    BY <1>3
  <2> QED
    BY <1>3, <2>1, <2>2, <2>3
<1>7. drawn' = [r \in Ranks |-> IF r \in WereUp \cap answering THEN drawn[r] + 2 * Watts
                                ELSE drawn[r]]
  BY DEF Collecting, Collect
<1>8. ASSUME NEW r \in Ranks
      PROVE  Energy2(RowsOf(GpuRows(frames'), r)) <= drawn'[r] /\ drawn'[r] \in Nat
  <2> DEFINE own == RowsOf(GpuRows(frames), r)
  <2>1. drawn[r] \in Nat /\ drawn'[r] \in Nat /\ drawn[r] <= drawn'[r]
        /\ (r \in WereUp \cap answering => drawn'[r] = drawn[r] + 2 * Watts)
    BY <1>2, <1>7
  <2>2. Energy2(own) <= drawn[r]
    BY <1>2 DEF EnergyInv
  <2>3. /\ IsFiniteSet(own)
        /\ \A u \in own : /\ u.at \in DOMAIN frames /\ u \in frames[u.at].gpu /\ u.device = r
                          /\ u.at \in Nat /\ (u.watts = Missing \/ u.watts = Watts)
    BY <1>2, RowsAreFinite DEF RowsOf
  <2>4. Energy2(own) \in Int
    <3>1. \A u \in own : u.at \in Int /\ (u.watts = Missing \/ u.watts \in Int)
      BY <1>2, <2>3
    <3> HIDE DEF own
    <3> QED
      BY <2>3, <3>1, EnergyIsInt
  <2>5. RowsOf(GpuRows(frames'), r) = own \cup {x \in new.gpu : x.device = r}
    BY <1>6 DEF RowsOf
  <2>6. CASE r \notin Devices(new.gpu)
    <3>1. {x \in new.gpu : x.device = r} = {}
      BY <2>6 DEF Devices
    <3>2. RowsOf(GpuRows(frames'), r) = own
      BY <2>5, <3>1
    <3> HIDE DEF own
    <3> QED
      BY <2>1, <2>2, <2>4, <3>2
  <2>7. CASE r \in Devices(new.gpu)
    <3>1. PICK x \in new.gpu : x.device = r
      BY <2>7 DEF Devices
    <3>2. {y \in new.gpu : y.device = r} = {x}
      BY <1>5, <3>1
    <3>3. RowsOf(GpuRows(frames'), r) = own \cup {x}
      BY <2>5, <3>2
    <3>4. x.at = n + 1 /\ (x.watts = Missing \/ x.watts = Watts)
          /\ (x.watts # Missing => r \in answering) /\ setup.nvml
      BY <1>5, <2>7, <3>1 DEF Rows
    <3>5. CASE own = {}
      <4>1. x.at \in Nat
        BY <1>3, <3>4
      <4>2. Energy2({x}) = 0
        BY <4>1, OneReading
      <4>3. RowsOf(GpuRows(frames'), r) = {x}
        BY <3>3, <3>5
      <4> QED
        BY <2>1, <4>2, <4>3
    <3>6. CASE own # {}
      <4>1. PICK u \in own : TRUE
        BY <3>6
      <4>2. r \in nvml.ids /\ n \in DOMAIN frames /\ frames # <<>>
        <5>1. u.at \in DOMAIN frames /\ u \in frames[u.at].gpu /\ u.device = r
          BY <2>3
        <5>2. r \in Devices(frames[u.at].gpu)
          BY <5>1 DEF Devices
        <5> QED
          BY <1>2, <1>3, <5>1, <5>2 DEF RowInv
      <4>3. PICK last \in frames[n].gpu : last.device = r
        <5>1. Devices(frames[n].gpu) = nvml.ids
          BY <1>2, <1>3, <3>4, <4>2 DEF RowInv
        <5> QED
          BY <4>2, <5>1 DEF Devices
      <4>4. last.at = n /\ (last.watts # Missing => r \in WereUp)
        BY <1>2, <1>3, <4>2, <4>3 DEF RowInv, RowOK, WereUp
      <4>5. last \in own
        BY <4>2, <4>3 DEF RowsOf, GpuRows
      <4>6. \A y \in own : y.at \in Nat /\ y.at <= last.at /\ (y.at = last.at => y = last)
        <5> SUFFICES ASSUME NEW y \in own
                     PROVE  y.at \in Nat /\ y.at <= last.at /\ (y.at = last.at => y = last)
          OBVIOUS
        <5>1. y.at \in 1..n /\ y \in frames[y.at].gpu /\ y.device = r
          BY <1>3, <2>3
        <5>2. y.at = n => y = last
          BY <1>2, <4>2, <4>3, <5>1 DEF RowInv
        <5> QED
          BY <1>3, <4>4, <5>1, <5>2
      <4>7. \A y \in own \cup {x} : y.watts = Missing \/ y.watts \in Int
        BY <1>2, <2>3, <3>4
      <4>8. x.at = last.at + 1
        BY <3>4, <4>4
      <4>9. last.watts = Missing \/ last.watts = Watts
        BY <2>3, <4>5
      <4> HIDE DEF own
      <4>10. Energy2(own \cup {x}) = Energy2(own)
               + IF last.watts # Missing /\ x.watts # Missing THEN last.watts + x.watts ELSE 0
        BY <2>3, <4>5, <4>6, <4>7, <4>8, EnergyGrows
      <4>11. CASE last.watts # Missing /\ x.watts # Missing
        <5>1. drawn'[r] = drawn[r] + 2 * Watts
          BY <2>1, <3>4, <4>4, <4>11
        <5>2. Energy2(own \cup {x}) = Energy2(own) + (Watts + Watts)
          BY <3>4, <4>9, <4>10, <4>11
        <5> QED
          BY <1>2, <2>1, <2>2, <2>4, <3>3, <5>1, <5>2
      <4>12. CASE ~(last.watts # Missing /\ x.watts # Missing)
        <5>1. Energy2(own \cup {x}) = Energy2(own)
          BY <2>4, <4>10, <4>12
        <5> QED
          BY <2>1, <2>2, <2>4, <3>3, <5>1
      <4> QED
        BY <4>11, <4>12
    <3> QED
      BY <3>5, <3>6
  <2> QED
    BY <2>6, <2>7
<1>9. drawn' \in [Ranks -> Nat]
  BY <1>7, <1>8
<1> QED
  BY <1>8, <1>9 DEF EnergyInv

-----------------------------------------------------------------------------
(* The invariant is inductive *)

\* Steps that leave the frames alone.
LEMMA FramesKept ==
  ASSUME IInv, setup' = setup, frames' = frames, nvml' = nvml, drawn' = drawn,
         state' = state, faults' = 0 => faults = 0, driver => driver'
  PROVE  FinalInv' /\ SnapshotInv' /\ DriverInv' /\ RowInv' /\ HealthyInv' /\ EnergyInv'
<1>1. FinalInv /\ SnapshotInv /\ DriverInv /\ RowInv /\ HealthyInv /\ EnergyInv
  BY DEF IInv
<1>2. \A e : SnapshotOK(e) => SnapshotOK(e)'
  BY DEF SnapshotOK
<1>3. \A row : HealthyRow(row) => HealthyRow(row)'
  BY DEF HealthyRow
<1>4. SnapshotInv'
  BY <1>1, <1>2 DEF SnapshotInv
<1>5. RowInv'
  BY <1>1 DEF RowInv, RowOK
<1>6. HealthyInv'
  BY <1>1, <1>3 DEF HealthyInv
<1>7. EnergyInv' /\ FinalInv'
  BY <1>1 DEF EnergyInv, FinalInv
<1>8. DriverInv'
  BY <1>1 DEF DriverInv
<1> QED
  BY <1>4, <1>5, <1>6, <1>7, <1>8

\* The engines count what is made.
LEMMA CountKept ==
  ASSUME IInv, setup' = setup, frames' = frames, ServedAlike
  PROVE  CountInv'
<1>1. TypeInv /\ CountInv /\ EngineOK
  BY DEF IInv, TypeInv, EngineOK
<1>2. \A m \in Served : Now(m) \in Nat /\ Of(made, m) \in Nat
  BY <1>1, CountedAre, NowIs, MadeIs DEF TypeInv
<1>3. ASSUME NEW D, NEW L, NEW now \in Nat, NEW total \in Nat, CountOK(D, L, now, total),
             NEW d \in Nat
      PROVE  CountOK(D, L, now + d, total + d)
  BY <1>3 DEF CountOK
<1>4. \A D, L : \A m \in Served : CountOK(D, L, Now(m), Of(made, m))
                               => CountOK(D, L, Now(m)', Of(made, m)')
  <2>1. TAKE D, L
  <2>2. TAKE m \in Served
  <2>3. PICK d \in Nat : Now(m)' = Now(m) + d /\ Of(made, m)' = Of(made, m) + d
    BY DEF ServedAlike
  <2> QED
    BY <1>2, <1>3, <2>3
<1> QED
  BY <1>1, <1>4 DEF CountInv

LEMMA BucketKept ==
  ASSUME IInv, setup' = setup, frames' = frames, ServedAlike
  PROVE  BucketInv'
<1> DEFINE S == Seen(frames)
           h == Ttfts(frames)
<1>1. TypeInv /\ SnapshotInv /\ BucketInv /\ EngineOK
  BY DEF IInv, TypeInv, EngineOK
<1>2. /\ Now(Ttft) \in Nat
      /\ \A b \in AllBounds : NowWithin(b) \in Nat /\ Within(made.first, b) \in Nat
  BY <1>1, NowIs, MadeIs DEF TypeInv
<1>3. PICK d \in Nat : Now(Ttft)' = Now(Ttft) + d
  BY CountedAre DEF ServedAlike
<1>4. SUFFICES ASSUME S # {} PROVE (Continued(h, S) \/ Restarted(h, S))'
  BY DEF BucketInv
<1>5. /\ S' = S /\ h' = h
      /\ h[Max(S)].count \in Nat
      /\ \A b \in AllBounds : h[Max(S)].buckets[b] \in Nat /\ BucketDelta(h, S, b) \in Nat
  <2>1. S \subseteq 1..Len(frames) /\ Len(frames) \in Nat /\ \A i \in S : h[i] \in Histograms
    BY <1>1, SeenIs
  <2>2. Max(S) \in S
    BY <1>4, <2>1, Positions
  <2>3. \A i \in S : Whole(h[i])
    BY <2>1, SetOfMissing
  <2>4. h[Max(S)] \in Histograms
    BY <2>1, <2>2
  <2>5. S' = S /\ h' = h
    OBVIOUS
  <2> HIDE DEF S, h
  <2>6. \A b \in AllBounds : BucketDelta(h, S, b) \in Nat
    BY <2>1, <2>3, ContributionsAre
  <2> QED
    BY <2>4, <2>5, <2>6 DEF Histograms
<1>6. ASSUME NEW b \in AllBounds
      PROVE  /\ h[Max(S)].buckets[b] <= NowWithin(b) => h[Max(S)].buckets[b] <= NowWithin(b)'
             /\ BucketDelta(h, S, b) + NowWithin(b) <= Within(made.first, b) + h[Max(S)].buckets[b]
                  => BucketDelta(h, S, b) + NowWithin(b)'
                       <= Within(made.first, b)' + h[Max(S)].buckets[b]
             /\ BucketDelta(h, S, b) + NowWithin(b) <= Within(made.first, b)
                  => BucketDelta(h, S, b) + NowWithin(b)' <= Within(made.first, b)'
  <2>1. PICK e \in Nat : /\ NowWithin(b)' = NowWithin(b) + e
                         /\ Within(made.first, b)' = Within(made.first, b) + e
    BY DEF ServedAlike
  <2>2. h[Max(S)].buckets[b] \in Nat /\ BucketDelta(h, S, b) \in Nat
    BY <1>5
  <2> HIDE DEF S, h
  <2> QED
    BY <1>2, <2>1, <2>2
<1>7. CASE Continued(h, S)
  <2>1. h[Max(S)].count <= Now(Ttft)'
    BY <1>2, <1>3, <1>5, <1>7 DEF Continued
  <2>2. \A b \in AllBounds :
          /\ h[Max(S)].buckets[b] <= NowWithin(b)'
          /\ BucketDelta(h, S, b) + NowWithin(b)' <= Within(made.first, b)' + h[Max(S)].buckets[b]
    BY <1>6, <1>7 DEF Continued
  <2> QED
    BY <1>5, <2>1, <2>2 DEF Continued
<1>8. CASE Restarted(h, S)
  <2>1. \A b \in AllBounds : BucketDelta(h, S, b) + NowWithin(b)' <= Within(made.first, b)'
    BY <1>6, <1>8 DEF Restarted
  <2> QED
    BY <1>5, <2>1 DEF Restarted
<1> QED
  BY <1>1, <1>4, <1>7, <1>8 DEF BucketInv

\* Or they start again.
LEMMA RestartKept ==
  ASSUME IInv, setup' = setup, frames' = frames, made' = made, engine' = [r \in Ranks |-> Zero]
  PROVE  CountInv' /\ BucketInv'
<1>1. TypeInv /\ CountInv /\ BucketInv /\ SnapshotInv /\ EngineOK
  BY DEF IInv, TypeInv, EngineOK
<1>2. \A m \in Served : Now(m) \in Nat /\ Of(made, m) \in Nat /\ Now(m)' = 0
  BY <1>1, CountedAre, NowIs, MadeIs, RestartCounts DEF TypeInv
<1>3. ASSUME NEW D, NEW L, NEW now \in Nat, NEW total \in Nat, CountOK(D, L, now, total)
      PROVE  CountOK(D, L, 0, total)
  BY <1>3 DEF CountOK
<1>4. \A D, L : \A m \in Served : CountOK(D, L, Now(m), Of(made, m))
                               => CountOK(D, L, Now(m)', Of(made, m)')
  BY <1>2, <1>3
<1>5. CountInv'
  BY <1>1, <1>4 DEF CountInv
<1> DEFINE S == Seen(frames)
           h == Ttfts(frames)
<1>6. ASSUME S # {} PROVE Restarted(h, S)'
  <2>1. S \subseteq 1..Len(frames) /\ Len(frames) \in Nat /\ \A i \in S : h[i] \in Histograms
    BY <1>1, SeenIs
  <2>2. Max(S) \in S
    BY <1>6, <2>1, Positions
  <2>3. \A i \in S : Whole(h[i])
    BY <2>1, SetOfMissing
  <2>4. h[Max(S)] \in Histograms /\ S' = S /\ h' = h
    BY <2>1, <2>2
  <2>5. Continued(h, S) \/ Restarted(h, S)
    BY <1>1, <1>6 DEF BucketInv
  <2> HIDE DEF S, h
  <2>6. ASSUME NEW b \in AllBounds
        PROVE  BucketDelta(h, S, b) + NowWithin(b)' <= Within(made.first, b)
    <3>1. /\ NowWithin(b) \in Nat /\ Within(made.first, b) \in Nat /\ NowWithin(b)' = 0
          /\ BucketDelta(h, S, b) \in Nat /\ h[Max(S)].buckets[b] \in Nat
      BY <1>1, <2>1, <2>3, <2>4, NowIs, MadeIs, RestartCounts, ContributionsAre
         DEF TypeInv, Histograms
    <3>2. \/ /\ h[Max(S)].buckets[b] <= NowWithin(b)
             /\ BucketDelta(h, S, b) + NowWithin(b)
                  <= Within(made.first, b) + h[Max(S)].buckets[b]
          \/ BucketDelta(h, S, b) + NowWithin(b) <= Within(made.first, b)
      BY <2>5 DEF Continued, Restarted
    <3> QED
      BY <3>1, <3>2
  <2> QED
    BY <2>4, <2>6 DEF Restarted
<1> QED
  BY <1>5, <1>6 DEF BucketInv

\* Nothing of what the last frame read is lost while the engines count on.
LEMMA FaultlessKept ==
  ASSUME IInv, setup' = setup, frames' = frames, answering' = answering, faults' = faults,
         ServedAlike
  PROVE  FaultlessInv'
<1>1. TypeInv /\ SnapshotInv /\ FaultlessInv /\ EngineOK
  BY DEF IInv, TypeInv, EngineOK
<1> SUFFICES ASSUME faults' = 0 PROVE FaultlessInv'
  BY DEF FaultlessInv
<1>2. answering = Ranks /\ Seen(frames) = DOMAIN frames
  BY <1>1 DEF FaultlessInv
<1>3. ASSUME frames # <<>>
      PROVE  LET n == Len(frames)
                 then == frames[n].made
             IN
             /\ \A m \in Served \ setup.omits :
                  /\ Now(m)' + Of(then, m) = Metric(frames, m)[n] + Of(made, m)'
                  /\ Of(then, m) <= Of(made, m)'
                  /\ Delta(Metric(frames, m), 1..n) = Of(then, m)
             /\ \A b \in AllBounds :
                  /\ NowWithin(b)' + Within(then.first, b)
                       = Ttfts(frames)[n].buckets[b] + Within(made.first, b)'
                  /\ Within(then.first, b) <= Within(made.first, b)'
                  /\ BucketDelta(Ttfts(frames), 1..n, b) = Within(then.first, b)
  <2> DEFINE n == Len(frames)
             then == frames[n].made
  <2>1. n \in Seen(frames) /\ n \in DOMAIN frames
    BY <1>1, <1>2, <1>3 DEF TypeInv
  <2>2. then \in Made
    <3>1. frames[n] \in FrameSet
      BY <1>1, <2>1 DEF TypeInv
    <3> QED
      BY <3>1 DEF FrameSet
  <2>3. Ttfts(frames)[n] \in Histograms
    BY <1>1, <2>1, SeenIs
  <2>4. ASSUME NEW m \in Served \ setup.omits
        PROVE  /\ Now(m)' + Of(then, m) = Metric(frames, m)[n] + Of(made, m)'
               /\ Of(then, m) <= Of(made, m)'
               /\ Delta(Metric(frames, m), 1..n) = Of(then, m)
    <3>1. /\ Now(m) + Of(then, m) = Metric(frames, m)[n] + Of(made, m)
          /\ Of(then, m) <= Of(made, m)
          /\ Delta(Metric(frames, m), 1..n) = Of(then, m)
      BY <1>1, <1>3 DEF FaultlessInv
    <3>2. PICK d \in Nat : Now(m)' = Now(m) + d /\ Of(made, m)' = Of(made, m) + d
      BY DEF ServedAlike
    <3>3. Of(then, m) \in Nat /\ Of(made, m) \in Nat /\ Now(m) \in Nat /\ Metric(frames, m)[n] \in Nat
      BY <1>1, <2>1, <2>2, CountedAre, MadeIs, NowIs, SeenIs DEF TypeInv
    <3> HIDE DEF n, then
    <3> QED
      BY <3>1, <3>2, <3>3
  <2>5. ASSUME NEW b \in AllBounds
        PROVE  /\ NowWithin(b)' + Within(then.first, b)
                    = Ttfts(frames)[n].buckets[b] + Within(made.first, b)'
               /\ Within(then.first, b) <= Within(made.first, b)'
               /\ BucketDelta(Ttfts(frames), 1..n, b) = Within(then.first, b)
    <3>1. /\ NowWithin(b) + Within(then.first, b)
               = Ttfts(frames)[n].buckets[b] + Within(made.first, b)
          /\ Within(then.first, b) <= Within(made.first, b)
          /\ BucketDelta(Ttfts(frames), 1..n, b) = Within(then.first, b)
      BY <1>1, <1>3 DEF FaultlessInv
    <3>2. PICK d \in Nat : /\ NowWithin(b)' = NowWithin(b) + d
                           /\ Within(made.first, b)' = Within(made.first, b) + d
      BY DEF ServedAlike
    <3>3. /\ Within(then.first, b) \in Nat /\ Within(made.first, b) \in Nat
          /\ NowWithin(b) \in Nat /\ Ttfts(frames)[n].buckets[b] \in Nat
      BY <1>1, <2>2, <2>3, MadeIs, NowIs DEF TypeInv, Histograms
    <3> HIDE DEF n, then
    <3> QED
      BY <3>1, <3>2, <3>3
  <2> QED
    BY <2>4, <2>5
<1> QED
  BY <1>2, <1>3 DEF FaultlessInv

\* Nothing is served by a step that leaves the engines and the history alone.
LEMMA NothingMore ==
  ASSUME TypeInv, engine' = engine, made' = made
  PROVE  ServedAlike
<1>1. /\ \A m \in Served : Now(m) \in Nat /\ Of(made, m) \in Nat
      /\ \A b \in AllBounds : NowWithin(b) \in Nat /\ Within(made.first, b) \in Nat
  <2>1. EngineOK /\ made \in Made
    BY DEF TypeInv, EngineOK
  <2> QED
    BY <2>1, CountedAre, NowIs, MadeIs
<1>2. /\ \A m \in Served : Now(m)' = Now(m) + 0 /\ Of(made, m)' = Of(made, m) + 0
      /\ \A b \in AllBounds : /\ NowWithin(b)' = NowWithin(b) + 0
                              /\ Within(made.first, b)' = Within(made.first, b) + 0
  BY <1>1, SameEngines
<1> QED
  BY <1>2 DEF ServedAlike

LEMMA InitInv == Init => IInv
<1> SUFFICES ASSUME Init PROVE IInv
  OBVIOUS
<1>1. setup \in Setups /\ engine \in [Ranks -> Engines]
  BY WindowAssumption DEF Init
<1>2. frames = <<>> /\ DOMAIN frames = {} /\ Len(frames) = 0
  BY DEF Init
<1>3. TypeInv
  <2>1. nvml \in Sessions
    BY DEF Init, Sessions
  <2> QED
    BY <1>1, <2>1, NothingServed DEF Init, TypeInv
<1>4. StageInv
  BY <1>2 DEF Init, StageInv
<1>5. Seen(frames) = {}
  BY <1>2 DEF Seen
<1>6. FinalInv /\ SnapshotInv /\ CountInv /\ BucketInv /\ DriverInv /\ RowInv /\ HealthyInv
  BY <1>2, <1>5 DEF FinalInv, SnapshotInv, CountInv, BucketInv, DriverInv, RowInv, HealthyInv
<1>7. FaultlessInv
  BY <1>2, <1>5 DEF Init, FaultlessInv
<1>8. EnergyInv
  <2>1. GpuRows(frames) = {}
    BY <1>2 DEF GpuRows
  <2>2. Measured({}) = {}
    BY DEF Measured
  <2>3. Energy2({}) = 0
    <3> DEFINE f == [i \in Measured({}) |-> (i[1].watts + i[2].watts) * (i[2].at - i[1].at)]
    <3>1. DOMAIN f = {} /\ \A i \in {} : f[i] = 0
      BY <2>2
    <3>2. Energy2({}) = SumFunction(f)
      BY DEF Energy2
    <3> HIDE DEF f
    <3> QED
      BY <3>1, <3>2, FS_EmptySet, SumZero, SumIsSum
  <2>4. \A r : RowsOf({}, r) = {}
    BY DEF RowsOf
  <2>5. ASSUME NEW r \in Ranks PROVE drawn[r] = 0
    BY DEF Init
  <2>6. ASSUME NEW r \in Ranks PROVE Energy2(RowsOf(GpuRows(frames), r)) <= drawn[r]
    <3>1. Energy2(RowsOf(GpuRows(frames), r)) = 0
      BY <2>1, <2>3, <2>4
    <3> QED
      BY <2>5, <3>1
  <2> QED
    BY <2>6 DEF EnergyInv
<1> QED
  BY <1>3, <1>4, <1>6, <1>7, <1>8 DEF IInv

LEMMA CollectingInv ==
  ASSUME NEW answers, NEW final, Collecting(answers, final)
  PROVE  /\ SnapshotInv' /\ CountInv' /\ BucketInv' /\ FaultlessInv' /\ DriverInv' /\ RowInv'
         /\ HealthyInv' /\ EnergyInv'
         /\ frames' \in Seq(FrameSet) /\ Len(frames') = Len(frames) + 1 /\ Len(frames) \in Nat
         /\ drawn' \in [Ranks -> Nat] /\ faults' \in Nat
<1>1. /\ frames' \in Seq(FrameSet) /\ Len(frames') = Len(frames) + 1 /\ Len(frames) \in Nat
  <2>1. Appended(answers, final, Len(frames), Frame(answers, Opened, final))
    BY FramesGrow
  <2> QED
    BY <2>1 DEF Appended
<1>2. faults' \in Nat
  BY DEF Collecting, Collect, IInv, TypeInv
<1> QED
  <2>1. drawn' \in [Ranks -> Nat] /\ EnergyInv'
    BY EnergyStep
  <2> QED
    BY <1>1, <1>2, <2>1, SnapshotStep, CountStep, BucketStep, FaultlessStep, DriverStep, RowStep,
       HealthyStep

LEMMA FinalStep ==
  ASSUME NEW answers, NEW final, Collecting(answers, final), state # "stopped",
         state' = IF final THEN "stopped" ELSE "running"
  PROVE  FinalInv'
<1> DEFINE n == Len(frames)
           new == Frame(answers, Opened, final)
<1>1. Appended(answers, final, n, new)
  BY FramesGrow
<1> HIDE DEF n, new
<1>2. /\ n \in Nat /\ DOMAIN frames = 1..n /\ DOMAIN frames' = 1..(n + 1) /\ Len(frames') = n + 1
      /\ \A i \in 1..n : frames'[i] = frames[i]
      /\ frames'[n + 1].final = final
  BY <1>1 DEF Appended
<1>3. \A i \in 1..n : ~frames'[i].final /\ i # n + 1
  BY <1>2 DEF Collecting, IInv, FinalInv
<1>4. \A i \in 1..(n + 1) : i \in 1..n \/ i = n + 1
  BY <1>2
<1>5. state' = "stopped" <=> final
  OBVIOUS
<1> QED
  BY <1>2, <1>3, <1>4, <1>5 DEF FinalInv

LEMMA NextInv == IInv /\ [Next]_vars => IInv'
<1> SUFFICES ASSUME IInv, [Next]_vars PROVE IInv'
  OBVIOUS
<1>1. TypeInv /\ StageInv /\ EngineOK
  BY DEF IInv, TypeInv, EngineOK
<1>2. SessionOK(nvml) /\ SessionOK(Opened)
      /\ SessionOK([Opened EXCEPT !.initialized = FALSE, !.handles = {}])
      /\ [Opened EXCEPT !.initialized = FALSE, !.handles = {}].ids = Opened.ids
      /\ [Opened EXCEPT !.initialized = FALSE, !.handles = {}].initialized = FALSE
  BY <1>1, OpenedIs
<1>3. ASSUME Start PROVE IInv'
  <2>1. PICK answers \in BOOLEAN : Collect(answers, Opened, FALSE)
    BY <1>3 DEF Start
  <2>2. /\ UNCHANGED <<setup, engine, driver, answering, result, made>>
        /\ state = "created" /\ state' = "running"
        /\ nvml' = IF setup.nvml THEN Opened ELSE nvml
    BY <1>3 DEF Start
  <2>3. SessionOK(nvml')
    BY <1>2, <2>2
  <2>4. Collecting(answers, FALSE)
    BY <2>1, <2>2, <2>3 DEF Collecting, SessionOK
  <2>5. TypeInv'
    BY <1>1, <2>2, <2>3, <2>4, CollectingInv DEF TypeInv, SessionOK
  <2>6. StageInv'
    <3>1. Len(frames') = Len(frames) + 1 /\ Len(frames) \in Nat
      BY <2>4, CollectingInv
    <3>2. Len(frames') >= 1
      BY <3>1
    <3>3. result' = NoResult
      BY <1>1, <2>2 DEF StageInv
    <3>4. nvml'.initialized => setup'.nvml
      BY <1>1, <2>2 DEF StageInv
    <3> QED
      BY <2>2, <2>3, <3>2, <3>3, <3>4 DEF StageInv, SessionOK
  <2>7. FinalInv'
    BY <2>2, <2>4, FinalStep
  <2> QED
    BY <2>4, <2>5, <2>6, <2>7, CollectingInv DEF IInv
<1>4. ASSUME Poll PROVE IInv'
  <2>1. PICK answers \in BOOLEAN : Collect(answers, Opened, FALSE)
    BY <1>4 DEF Poll
  <2>2. /\ UNCHANGED <<setup, engine, driver, answering, result, made>>
        /\ state = "running" /\ state' = "running"
        /\ nvml' = IF setup.nvml THEN Opened ELSE nvml
    BY <1>4 DEF Poll
  <2>3. SessionOK(nvml')
    BY <1>2, <2>2
  <2>4. Collecting(answers, FALSE)
    BY <2>1, <2>2, <2>3 DEF Collecting, SessionOK
  <2>5. TypeInv'
    BY <1>1, <2>2, <2>3, <2>4, CollectingInv DEF TypeInv, SessionOK
  <2>6. StageInv'
    <3>1. Len(frames') = Len(frames) + 1 /\ Len(frames) \in Nat
      BY <2>4, CollectingInv
    <3>2. Len(frames') >= 1
      BY <3>1
    <3>3. result' = NoResult
      BY <1>1, <2>2 DEF StageInv
    <3>4. nvml'.initialized => setup'.nvml
      BY <1>1, <2>2 DEF StageInv
    <3> QED
      BY <2>2, <2>3, <3>2, <3>3, <3>4 DEF StageInv, SessionOK
  <2>7. FinalInv'
    BY <2>2, <2>4, FinalStep
  <2> QED
    BY <2>4, <2>5, <2>6, <2>7, CollectingInv DEF IInv
<1>5. ASSUME Stop PROVE IInv'
  <2>1. PICK answers \in BOOLEAN : Collect(answers, Opened, TRUE)
    BY <1>5 DEF Stop
  <2>2. /\ UNCHANGED <<setup, engine, driver, answering, made>>
        /\ state = "running" /\ state' = "stopped"
        /\ nvml' = IF setup.nvml THEN [Opened EXCEPT !.initialized = FALSE, !.handles = {}]
                   ELSE nvml
        /\ \E t \in {0, made.generated} : result' = BuildResult(frames', t)
    BY <1>5 DEF Stop
  <2>3. SessionOK(nvml')
    BY <1>2, <2>2
  <2>4. Collecting(answers, TRUE)
    <3>1. nvml'.ids = IF setup.nvml THEN Opened.ids ELSE nvml.ids
      BY <1>2, <2>2
    <3> QED
      BY <2>1, <2>2, <2>3, <3>1 DEF Collecting, SessionOK
  <2>5. TypeInv'
    BY <1>1, <2>2, <2>3, <2>4, CollectingInv DEF TypeInv, SessionOK
  <2>6. StageInv'
    <3>0. Len(frames') = Len(frames) + 1 /\ Len(frames) \in Nat /\ Len(frames) >= 1
      BY <1>1, <2>2, <2>4, CollectingInv DEF StageInv
    <3>1. Len(frames') >= 2
      BY <3>0
    <3>2. \E t \in {0, made'.generated} : result' = BuildResult(frames', t)
      BY <2>2
    <3>3. (\E t \in {0, made.generated} : result = BuildResult(frames, t))'
      BY <3>2 DEF BuildResult, SummarizeEngine
    <3>4. ~nvml'.initialized
      BY <1>1, <1>2, <2>2 DEF StageInv
    <3> QED
      BY <2>2, <2>3, <3>1, <3>3, <3>4 DEF StageInv, SessionOK
  <2>7. FinalInv'
    BY <2>2, <2>4, FinalStep
  <2> QED
    BY <2>4, <2>5, <2>6, <2>7, CollectingInv DEF IInv
<1>6. ASSUME Prefill PROVE IInv'
  <2>1. /\ UNCHANGED <<setup, driver, answering, nvml, frames, state, result, drawn, faults>>
        /\ state = "running"
    BY <1>6 DEF Prefill
  <2>2. engine' \in [Ranks -> Engines] /\ made' \in Made /\ ServedAlike
    BY <1>1, <1>6, PrefillCounts
  <2>3. TypeInv'
    BY <1>1, <2>1, <2>2 DEF TypeInv
  <2>4. CountInv' /\ BucketInv' /\ FaultlessInv'
    BY <2>1, <2>2, CountKept, BucketKept, FaultlessKept
  <2>5. StageInv'
    BY <1>1, <2>1 DEF StageInv
  <2> QED
    BY <2>1, <2>3, <2>4, <2>5, FramesKept DEF IInv
<1>7. ASSUME Decode PROVE IInv'
  <2>1. /\ UNCHANGED <<setup, driver, answering, nvml, frames, state, result, drawn, faults>>
        /\ state = "running"
    BY <1>7 DEF Decode
  <2>2. engine' \in [Ranks -> Engines] /\ made' \in Made /\ ServedAlike
    BY <1>1, <1>7, DecodeCounts
  <2>3. TypeInv'
    BY <1>1, <2>1, <2>2 DEF TypeInv
  <2>4. CountInv' /\ BucketInv' /\ FaultlessInv'
    BY <2>1, <2>2, CountKept, BucketKept, FaultlessKept
  <2>5. StageInv'
    BY <1>1, <2>1 DEF StageInv
  <2> QED
    BY <2>1, <2>3, <2>4, <2>5, FramesKept DEF IInv
<1>8. ASSUME Restart PROVE IInv'
  <2>1. /\ UNCHANGED <<setup, driver, answering, nvml, frames, state, result, made, drawn>>
        /\ state = "running" /\ engine' = [r \in Ranks |-> Zero] /\ faults' = faults + 1
    BY <1>8 DEF Restart
  <2>2. TypeInv'
    BY <1>1, <2>1, ZeroIs DEF TypeInv
  <2>3. CountInv' /\ BucketInv'
    BY <2>1, RestartKept
  <2>4. faults' # 0 /\ faults \in Nat
    BY <1>1, <2>1 DEF TypeInv
  <2>5. FaultlessInv'
    BY <2>4 DEF FaultlessInv
  <2>6. StageInv'
    BY <1>1, <2>1 DEF StageInv
  <2> QED
    BY <2>1, <2>2, <2>3, <2>4, <2>5, <2>6, FramesKept DEF IInv
<1>9. ASSUME DropDevice PROVE IInv'
  <2>1. /\ UNCHANGED <<setup, engine, driver, nvml, frames, state, result, made, drawn>>
        /\ state = "running" /\ faults' = faults + 1 /\ answering' \in SUBSET answering
    BY <1>9 DEF DropDevice
  <2>2. TypeInv'
    BY <1>1, <2>1 DEF TypeInv
  <2>3. ServedAlike
    BY <1>1, <2>1, NothingMore
  <2>4. CountInv' /\ BucketInv'
    BY <2>1, <2>3, CountKept, BucketKept
  <2>5. faults' # 0 /\ faults \in Nat
    BY <1>1, <2>1 DEF TypeInv
  <2>6. FaultlessInv'
    BY <2>5 DEF FaultlessInv
  <2>7. StageInv'
    BY <1>1, <2>1 DEF StageInv
  <2> QED
    BY <2>1, <2>2, <2>4, <2>5, <2>6, <2>7, FramesKept DEF IInv
<1>10. ASSUME RecoverDevice \/ DriverComesUp PROVE IInv'
  <2>1. /\ UNCHANGED <<setup, engine, nvml, frames, state, result, made, drawn, faults>>
        /\ state = "running" /\ driver' \in BOOLEAN /\ answering' \in SUBSET Ranks
        /\ driver => driver'
        /\ answering \subseteq answering'
    BY <1>1, <1>10 DEF RecoverDevice, DriverComesUp, TypeInv
  <2>2. TypeInv'
    BY <1>1, <2>1 DEF TypeInv
  <2>3. ServedAlike
    BY <1>1, <2>1, NothingMore
  <2>4. CountInv' /\ BucketInv'
    BY <2>1, <2>3, CountKept, BucketKept
  <2>5. FaultlessInv'
    <3>1. CASE faults = 0
      <4>1. answering = Ranks
        BY <3>1 DEF IInv, FaultlessInv
      <4>2. answering' = answering
        BY <1>1, <2>1, <4>1 DEF TypeInv
      <4> QED
        BY <2>1, <2>3, <4>2, FaultlessKept
    <3>2. CASE faults # 0
      BY <2>1, <3>2 DEF FaultlessInv
    <3> QED
      BY <3>1, <3>2
  <2>6. StageInv'
    BY <1>1, <2>1 DEF StageInv
  <2> QED
    BY <2>1, <2>2, <2>4, <2>5, <2>6, FramesKept DEF IInv
<1>11. ASSUME UNCHANGED vars PROVE IInv'
  <2>1. UNCHANGED <<setup, engine, driver, answering, nvml, frames, state, result, made,
                    drawn, faults>>
    BY <1>11 DEF vars
  <2>2. TypeInv'
    BY <1>1, <2>1 DEF TypeInv
  <2>3. ServedAlike
    BY <1>1, <2>1, NothingMore
  <2>4. CountInv' /\ BucketInv' /\ FaultlessInv'
    BY <2>1, <2>3, CountKept, BucketKept, FaultlessKept
  <2>5. StageInv'
    BY <1>1, <2>1 DEF StageInv
  <2> QED
    BY <2>1, <2>2, <2>4, <2>5, FramesKept DEF IInv
<1> QED
  BY <1>3, <1>4, <1>5, <1>6, <1>7, <1>8, <1>9, <1>10, <1>11 DEF Next

\* Every reachable window is one the inductive invariant describes: whatever the
\* order of scrapes, restarts, outages and requests between start() and stop().
THEOREM WindowInvariant == Spec => []IInv
<1> QED
  BY InitInv, NextInv, PTL DEF Spec

-----------------------------------------------------------------------------
(* The properties *)

\* The readings of a counter that the window has.
LEMMA CounterIs ==
  ASSUME TypeInv, SnapshotInv, NEW m \in AllMetrics
  PROVE  /\ Counter([i \in DOMAIN frames |-> frames[i].engine], m) = CounterDelta(Metric(frames, m))
         /\ Read(Metric(frames, m), Missing) = IF m \in setup.omits THEN {} ELSE Seen(frames)
<1> DEFINE snapshots == [i \in DOMAIN frames |-> frames[i].engine]
<1>0. m # Ttft
  BY DEF AllMetrics, GaugeMetrics, CounterMetrics, Ttft
<1>1. [i \in DOMAIN snapshots |-> snapshots[i].metrics[m]] = Metric(frames, m)
  BY <1>0 DEF Metric, Value
<1>2. Counter(snapshots, m) = CounterDelta(Metric(frames, m))
  BY <1>1 DEF Counter
<1>3. DOMAIN Metric(frames, m) = DOMAIN frames
  BY DEF Metric
<1>4. Seen(frames) \subseteq DOMAIN frames
  BY DEF Seen
<1>5. \A i \in DOMAIN frames :
        Metric(frames, m)[i] # Missing <=> m \notin setup.omits /\ i \in Seen(frames)
  BY SeenIs, SetOfMissing
<1>6. Read(Metric(frames, m), Missing) = IF m \in setup.omits THEN {} ELSE Seen(frames)
  BY <1>3, <1>4, <1>5 DEF Read
<1> QED
  BY <1>2, <1>6

LEMMA LaterOfNone == Later({}) = {}
BY DEF Later

LEMMA CountersInv == IInv => CountersAreHonest
<1> SUFFICES ASSUME IInv, NEW m \in {"prompt_tokens_total", "generation_tokens_total"},
                    Counter([i \in DOMAIN frames |-> frames[i].engine], m).available
             PROVE  LET counter == Counter([i \in DOMAIN frames |-> frames[i].engine], m) IN
                    /\ counter.delta \in 0..Of(made, m)
                    /\ faults = 0 => counter.delta = Of(frames[Len(frames)].made, m)
  BY CountedAre DEF CountersAreHonest, Of
<1> DEFINE v == Metric(frames, m)
           S == Seen(frames)
           counter == Counter([i \in DOMAIN frames |-> frames[i].engine], m)
<1>1. TypeInv /\ SnapshotInv /\ CountInv /\ FaultlessInv /\ EngineOK /\ StageInv
  BY DEF IInv, TypeInv, EngineOK
<1>2. m \in AllMetrics /\ m \in Served
  BY CountedAre DEF AllMetrics, CounterMetrics
<1>3. counter = CounterDelta(v) /\ Read(v, Missing) = IF m \in setup.omits THEN {} ELSE S
  BY <1>1, <1>2, CounterIs
<1>4. m \notin setup.omits /\ Later(S) # {} /\ counter.delta = Delta(v, S)
  <2> HIDE DEF v, S
  <2>1. Later(Read(v, Missing)) # {}
    BY <1>3 DEF CounterDelta
  <2>2. counter.delta = Delta(v, Read(v, Missing))
    BY <1>3, <2>1 DEF CounterDelta, Delta
  <2> QED
    BY <1>3, <2>1, <2>2, LaterOfNone
<1>5. S # {}
  BY <1>4, LaterOfNone
<1>6. Delta(v, S) \in 0..Of(made, m)
  <2>1. CountOK(Delta(v, S), v[Max(S)], Now(m), Of(made, m))
    BY <1>1, <1>2, <1>4, <1>5 DEF CountInv
  <2>2. Now(m) \in Nat /\ Of(made, m) \in Nat
    BY <1>1, <1>2, NowIs, MadeIs DEF TypeInv
  <2> HIDE DEF v, S
  <2> QED
    BY <2>1, <2>2 DEF CountOK
<1>7. ASSUME faults = 0 PROVE Delta(v, S) = Of(frames[Len(frames)].made, m)
  <2>1. S = DOMAIN frames /\ DOMAIN frames = 1..Len(frames)
    BY <1>1, <1>7 DEF FaultlessInv, TypeInv
  <2>2. frames # <<>>
    BY <1>5, <2>1
  <2>3. Delta(v, 1..Len(frames)) = Of(frames[Len(frames)].made, m)
    BY <1>1, <1>2, <1>4, <1>7, <2>2 DEF FaultlessInv
  <2> QED
    BY <2>1, <2>3
<1> QED
  BY <1>4, <1>6, <1>7

\* The histograms that the window has.
LEMMA HistogramsAre ==
  ASSUME TypeInv, SnapshotInv
  PROVE  /\ DOMAIN Ttfts(frames) = 1..Len(frames) /\ Len(frames) \in Nat
         /\ \A i \in 1..Len(frames) : Ttfts(frames)[i] = NoHistogram \/ Whole(Ttfts(frames)[i])
         /\ Read(Ttfts(frames), NoHistogram) = Seen(frames)
<1>1. DOMAIN Ttfts(frames) = 1..Len(frames) /\ Len(frames) \in Nat /\ DOMAIN frames = 1..Len(frames)
  BY SeenIs DEF Ttfts
<1>2. \A i \in 1..Len(frames) :
         IF i \in Seen(frames) THEN Ttfts(frames)[i] \in Histograms ELSE Ttfts(frames)[i] = NoHistogram
  BY <1>1, SeenIs
<1>3. Seen(frames) \subseteq 1..Len(frames)
  BY SeenIs
<1>4. Read(Ttfts(frames), NoHistogram) = Seen(frames)
  BY <1>1, <1>2, <1>3, SetOfMissing DEF Read
<1> QED
  BY <1>1, <1>2, <1>4, SetOfMissing

\* What the window makes of the histograms is what it makes of their counts, and
\* of their buckets.
LEMMA HistogramReduced ==
  ASSUME TypeInv, SnapshotInv
  PROVE  LET d == HistogramDelta(Ttfts(frames))
             S == Seen(frames)
         IN  /\ d.available = TRUE <=> Later(S) # {}
             /\ d.available = (Later(S) # {})
             /\ Later(S) # {} => /\ d.count = Delta(Metric(frames, Ttft), S)
                                 /\ d.buckets = [b \in AllBounds |-> BucketDelta(Ttfts(frames), S, b)]
<1> DEFINE h == Ttfts(frames)
           v == Metric(frames, Ttft)
           S == Seen(frames)
           d == HistogramDelta(h)
<1>1. S \subseteq 1..Len(frames) /\ Len(frames) \in Nat
      /\ \A i \in S : h[i].count = v[i] /\ h[i].count \in Nat
  BY SeenIs DEF Histograms
<1>2. \A i \in Later(S) : i \in S /\ Previous(S, i) \in S
  BY <1>1, Positions DEF Later
<1>3. \A i \in Later(S) : Counted(h[Previous(S, i)], h[i]) = GrowthAt(v[Previous(S, i)], v[i])
  <2> HIDE DEF h, v, S
  <2>1. \A i \in S : h[i].count # Missing
    BY <1>1, SetOfMissing
  <2> QED
    BY <1>1, <1>2, <2>1 DEF Counted, IsReset, GrowthAt
<1>4. Reduced(h, S, d)
  <2>1. DOMAIN h = 1..Len(frames) /\ Read(h, NoHistogram) = S
        /\ \A i \in 1..Len(frames) : h[i] = NoHistogram \/ Whole(h[i])
    BY HistogramsAre
  <2> HIDE DEF h, S, d
  <2>2. Reduced(h, Read(h, NoHistogram), HistogramDelta(h))
    BY <1>1, <2>1, HistogramDeltaIs
  <2> QED
    BY <2>1, <2>2 DEF d
<1> DEFINE counted == [i \in Later(S) |-> Counted(h[Previous(S, i)], h[i])]
<1>5. Growth(v, S) = counted
  <2>1. Growth(v, S) = [i \in Later(S) |-> GrowthAt(v[Previous(S, i)], v[i])]
    BY DEF Growth, Drops, GrowthAt
  <2> HIDE DEF h, v, S
  <2> QED
    BY <1>3, <2>1
<1>6. Later(S) = {} => d.available = FALSE
  <2> HIDE DEF d, S, h
  <2> QED
    BY <1>4 DEF Reduced
<1>7. Later(S) # {} => /\ d.available = TRUE /\ d.count = SumFunction(counted)
                       /\ d.buckets = [b \in AllBounds |-> BucketDelta(h, S, b)]
  <2> HIDE DEF d, S, h
  <2> QED
    BY <1>4 DEF Reduced
<1>8. SumFunction(counted) = Delta(v, S)
  <2> HIDE DEF counted, v, S
  <2> QED
    BY <1>5 DEF Delta
<1> HIDE DEF d, S, h, v, counted
<1>9. /\ d.available = (Later(S) # {})
      /\ Later(S) # {} => /\ d.count = Delta(v, S)
                          /\ d.buckets = [b \in AllBounds |-> BucketDelta(h, S, b)]
  BY <1>6, <1>7, <1>8
<1> QED
  BY <1>9 DEF d, S, h, v

LEMMA HistogramInv == IInv => HistogramIsHonest
<1> DEFINE h == Ttfts(frames)
           v == Metric(frames, Ttft)
           S == Seen(frames)
           n == Len(frames)
           ttft == HistogramDelta(h)
           last == frames[Len(frames)].made
<1> SUFFICES ASSUME IInv, ttft.available
             PROVE  /\ ttft.count \in 0..Within(made.first, Inf)
                    /\ \A b \in DOMAIN ttft.buckets :
                         ttft.buckets[b] \in 0..Within(made.first, b)
                    /\ faults = 0 =>
                         /\ ttft.count = Within(last.first, Inf)
                         /\ ttft.buckets = [b \in AllBounds |-> Within(last.first, b)]
  BY DEF HistogramIsHonest, Ttfts
<1>1. /\ TypeInv /\ SnapshotInv /\ CountInv /\ BucketInv /\ FaultlessInv /\ EngineOK
      /\ made \in Made
  BY DEF IInv, TypeInv, EngineOK
<1>2. /\ Later(S) # {} /\ ttft.count = Delta(v, S)
      /\ ttft.buckets = [b \in AllBounds |-> BucketDelta(h, S, b)]
  BY <1>1, HistogramReduced
<1>3. S # {} /\ Ttft \in Served \ setup.omits
  <2>1. Ttft \notin setup.omits
    BY <1>1, WindowAssumption DEF TypeInv, GaugeMetrics, CounterMetrics, Ttft
  <2> QED
    BY <1>2, <2>1, LaterOfNone, CountedAre
<1>4. /\ Now(Ttft) \in Nat /\ Of(made, Ttft) = Within(made.first, Inf)
      /\ \A b \in AllBounds : NowWithin(b) \in Nat /\ Within(made.first, b) \in Nat
  BY <1>1, NowIs, MadeIs DEF Of
<1>5. Delta(v, S) \in 0..Within(made.first, Inf)
  <2>1. CountOK(Delta(v, S), v[Max(S)], Now(Ttft), Of(made, Ttft))
    BY <1>1, <1>3 DEF CountInv
  <2>2. Within(made.first, Inf) \in Nat
    BY <1>4, InfIsABound
  <2> HIDE DEF v, S
  <2> QED
    BY <1>4, <2>1, <2>2 DEF CountOK
<1>6. ASSUME NEW b \in AllBounds PROVE BucketDelta(h, S, b) \in 0..Within(made.first, b)
  <2>1. n \in Nat /\ S \subseteq 1..n /\ \A i \in S : h[i] \in Histograms /\ Whole(h[i])
    BY <1>1, SeenIs, SetOfMissing
  <2>2. Max(S) \in S
    BY <1>3, <2>1, Positions
  <2>3. Continued(h, S) \/ Restarted(h, S)
    BY <1>1, <1>3 DEF BucketInv
  <2> HIDE DEF h, S, n
  <2>4. BucketDelta(h, S, b) \in Nat
    BY <2>1, ContributionsAre
  <2>5. h[Max(S)].buckets[b] \in Nat
    BY <2>1, <2>2 DEF Histograms
  <2>6. \/ /\ h[Max(S)].buckets[b] <= NowWithin(b)
           /\ BucketDelta(h, S, b) + NowWithin(b) <= Within(made.first, b) + h[Max(S)].buckets[b]
        \/ BucketDelta(h, S, b) + NowWithin(b) <= Within(made.first, b)
    BY <2>3 DEF Continued, Restarted
  <2> QED
    BY <1>4, <2>4, <2>5, <2>6
<1>7. ASSUME faults = 0
      PROVE  /\ Delta(v, S) = Within(last.first, Inf)
             /\ \A b \in AllBounds : BucketDelta(h, S, b) = Within(last.first, b)
  <2>1. S = DOMAIN frames /\ DOMAIN frames = 1..Len(frames)
    BY <1>1, <1>7, SeenIs DEF FaultlessInv
  <2>2. frames # <<>> /\ S = 1..Len(frames)
    BY <1>3, <2>1
  <2>3. Delta(v, 1..Len(frames)) = Of(last, Ttft)
    BY <1>1, <1>3, <1>7, <2>2 DEF FaultlessInv
  <2>4. \A b \in AllBounds : BucketDelta(h, 1..Len(frames), b) = Within(last.first, b)
    BY <1>1, <1>7, <2>2 DEF FaultlessInv
  <2>5. Of(last, Ttft) = Within(last.first, Inf)
    BY DEF Of
  <2> QED
    BY <2>2, <2>3, <2>4, <2>5
<1> HIDE DEF h, v, S, n, ttft, last
<1>8. ttft.count \in 0..Within(made.first, Inf)
  BY <1>2, <1>5
<1>9. \A b \in DOMAIN ttft.buckets : ttft.buckets[b] \in 0..Within(made.first, b)
  BY <1>2, <1>6
<1>10. ASSUME faults = 0
       PROVE  /\ ttft.count = Within(last.first, Inf)
              /\ ttft.buckets = [b \in AllBounds |-> Within(last.first, b)]
  BY <1>2, <1>7, <1>10
<1> QED
  BY <1>8, <1>9, <1>10

LEMMA QuantilesInv == IInv => QuantilesOrdered
<1> DEFINE h == Ttfts(frames)
           S == Seen(frames)
           q == HistogramDelta(h).buckets
           p50 == Quantile(50, 100, q)
           p99 == Quantile(99, 100, q)
<1> SUFFICES ASSUME IInv
             PROVE  /\ p50 # Missing /\ p99 # Missing => p50 <= p99
                    /\ {p50, p99} \ {Missing} \subseteq 0..(Max(Bounds) * Scale)
                    /\ faults = 0 /\ p50 # Missing => p99 # Missing
  BY DEF QuantilesOrdered, Ttfts
<1>1. TypeInv /\ SnapshotInv /\ FaultlessInv
  BY DEF IInv
<1>2. S \subseteq 1..Len(frames) /\ Len(frames) \in Nat /\ \A i \in S : Whole(h[i])
  BY <1>1, SeenIs, SetOfMissing
<1>3. /\ Later(S) = {} => q = <<>>
      /\ Later(S) # {} => q = [b \in AllBounds |-> BucketDelta(h, S, b)]
  <2>1. DOMAIN h = 1..Len(frames) /\ Read(h, NoHistogram) = S
        /\ \A i \in 1..Len(frames) : h[i] = NoHistogram \/ Whole(h[i])
    BY <1>1, HistogramsAre
  <2> HIDE DEF h, S
  <2>2. Reduced(h, Read(h, NoHistogram), HistogramDelta(h))
    BY <1>2, <2>1, HistogramDeltaIs
  <2> QED
    BY <2>1, <2>2 DEF Reduced
<1>4. \A b \in AllBounds : BucketDelta(h, S, b) \in Nat
  <2> DEFINE n == Len(frames)
  <2>1. n \in Nat /\ S \subseteq 1..n /\ \A i \in S : Whole(h[i])
    BY <1>2
  <2> HIDE DEF h, S, n
  <2> QED
    BY <2>1, ContributionsAre
<1>5. DOMAIN q \subseteq AllBounds /\ \A b \in DOMAIN q : q[b] \in Nat
  <2> HIDE DEF q
  <2> QED
    BY <1>3, <1>4
<1>6. ASSUME faults = 0 PROVE \A a, b \in DOMAIN q : a <= b => q[a] <= q[b]
  <2>1. CASE Later(S) = {}
    BY <1>3, <2>1
  <2>2. CASE Later(S) # {}
    <3>0. S = DOMAIN frames /\ DOMAIN frames = 1..Len(frames)
      BY <1>1, <1>6, SeenIs DEF FaultlessInv
    <3>1. S = 1..Len(frames) /\ S # {}
      BY <2>2, <3>0, LaterOfNone
    <3>2. frames # <<>> /\ Len(frames) \in S
      BY <1>2, <3>1
    <3>3. \A b \in AllBounds : BucketDelta(h, S, b) = Within(frames[Len(frames)].made.first, b)
      BY <1>1, <1>6, <3>1, <3>2 DEF FaultlessInv
    <3>4. \A a, b \in AllBounds :
            a <= b => Within(frames[Len(frames)].made.first, a)
                        <= Within(frames[Len(frames)].made.first, b)
      <4>1. frames[Len(frames)] \in FrameSet
        BY <1>1, <3>0, <3>2 DEF TypeInv
      <4>2. frames[Len(frames)].made \in Made
        BY <4>1 DEF FrameSet
      <4> QED
        BY <4>2, MadeIs
    <3>5. q = [b \in AllBounds |-> BucketDelta(h, S, b)]
      BY <1>3, <2>2
    <3> HIDE DEF q, h, S
    <3> QED
      BY <3>3, <3>4, <3>5
  <2> QED
    BY <2>1, <2>2
<1> HIDE DEF q
<1>7. /\ p50 = Missing \/ p50 \in 0..(Max(Bounds) * Scale)
      /\ p99 = Missing \/ p99 \in 0..(Max(Bounds) * Scale)
      /\ p50 # Missing /\ p99 # Missing => p50 <= p99
      /\ (\A a, b \in DOMAIN q : a <= b => q[a] <= q[b]) /\ p50 # Missing => p99 # Missing
  BY <1>5, QuantilesAreOrdered
<1> QED
  BY <1>6, <1>7

LEMMA EnergyInvIs == IInv => EnergyIsDrawn
BY DEF IInv, EnergyInv, EnergyIsDrawn, SummarizeDevice, IntegratePower

-----------------------------------------------------------------------------
(* A trial without a fault *)

\* The trial of HealthyTrialHasEvidence.
Healthy ==
  /\ IInv /\ state = "stopped" /\ faults = 0 /\ setup.omits = {} /\ setup.powerless = {}
  /\ setup.nvml => frames[Len(frames) - 1].driver
  /\ setup.nvml /\ setup.energy => result.tokens > 0

\* Its last two frames are read in full.
LEMMA HealthyFrames ==
  ASSUME Healthy
  PROVE  /\ TypeInv /\ SnapshotInv /\ RowInv
         /\ Len(frames) \in Nat /\ Len(frames) >= 2 /\ DOMAIN frames = 1..Len(frames)
         /\ Seen(frames) = 1..Len(frames)
         /\ result.tokens \in Nat /\ result = BuildResult(frames, result.tokens)
         /\ setup.nvml => \A i \in {Len(frames) - 1, Len(frames)} :
              Devices(frames[i].gpu) = Ranks /\ \A row \in frames[i].gpu : HealthyRow(row)
<1>1. /\ TypeInv /\ StageInv /\ SnapshotInv /\ FaultlessInv /\ DriverInv /\ RowInv /\ HealthyInv
      /\ state = "stopped" /\ faults = 0 /\ (setup.nvml => frames[Len(frames) - 1].driver)
  BY DEF Healthy, IInv
<1>2. Len(frames) \in Nat /\ DOMAIN frames = 1..Len(frames)
  BY <1>1 DEF TypeInv
<1>3. Len(frames) >= 2 /\ \E t \in {0, made.generated} : result = BuildResult(frames, t)
  BY <1>1 DEF StageInv
<1>4. made.generated \in Nat
  BY <1>1 DEF TypeInv, Made
<1>5. result.tokens \in Nat /\ result = BuildResult(frames, result.tokens)
  <2>1. PICK t \in Nat : result = BuildResult(frames, t)
    BY <1>3, <1>4
  <2>2. result.tokens = t
    BY <2>1 DEF BuildResult
  <2> QED
    BY <2>1, <2>2
<1>6. Seen(frames) = 1..Len(frames)
  BY <1>1, <1>2 DEF FaultlessInv
<1>7. ASSUME setup.nvml, NEW i \in {Len(frames) - 1, Len(frames)}
      PROVE  Devices(frames[i].gpu) = Ranks /\ \A row \in frames[i].gpu : HealthyRow(row)
  <2>1. Len(frames) - 1 \in DOMAIN frames /\ i \in DOMAIN frames /\ Len(frames) - 1 <= i
    <3> DEFINE k == Len(frames)
    <3>1. k \in Nat /\ k >= 2 /\ (i = k - 1 \/ i = k)
      BY <1>2, <1>3
    <3> HIDE DEF k
    <3>2. k - 1 \in 1..k /\ i \in 1..k /\ k - 1 <= i
      BY <3>1
    <3> QED
      BY <1>2, <3>2 DEF k
  <2>2. frames[i].driver
    BY <1>1, <1>7, <2>1 DEF DriverInv
  <2> QED
    BY <1>1, <1>7, <2>1, <2>2 DEF HealthyInv
<1> QED
  BY <1>1, <1>2, <1>3, <1>5, <1>6, <1>7

LEMMA LengthIs ==
  ASSUME NEW n \in Nat, NEW f, DOMAIN f = 1..n, \E S : f \in [1..n -> S]
  PROVE  Len(f) = n
<1>1. PICK S : f \in [1..n -> S]
  OBVIOUS
<1>2. f \in Seq(S)
  BY <1>1
<1> QED
  BY <1>2

LEMMA HealthyEngine ==
  ASSUME Healthy
  PROVE  EngineErrors(SummarizeEngine([i \in DOMAIN frames |-> frames[i].engine])) = {}
<1> DEFINE n == Len(frames)
           snapshots == [i \in DOMAIN frames |-> frames[i].engine]
           e == SummarizeEngine(snapshots)
<1>1. /\ TypeInv /\ SnapshotInv /\ n \in Nat /\ n >= 2 /\ DOMAIN frames = 1..n
      /\ Seen(frames) = 1..n /\ setup.omits = {}
  BY HealthyFrames DEF Healthy
<1>2. DOMAIN snapshots = 1..n /\ snapshots \in [1..n -> Snapshots]
  <2>1. \A i \in 1..n : frames[i] \in FrameSet
    BY <1>1 DEF TypeInv
  <2> QED
    BY <1>1, <2>1 DEF FrameSet
<1>3. e.samples = n
  <2>1. e.samples = Len(snapshots)
    BY DEF SummarizeEngine
  <2> HIDE DEF snapshots, e, n
  <2> QED
    BY <1>1, <1>2, <2>1, LengthIs
<1>4. e.successful = n
  <2>1. {i \in DOMAIN snapshots : snapshots[i].ok} = 1..n
    BY <1>1 DEF Seen
  <2>2. e.successful = Cardinality(1..n)
    BY <2>1 DEF SummarizeEngine
  <2>3. Cardinality(1..n) = n
    BY <1>1, FS_Interval
  <2> QED
    BY <2>2, <2>3
<1>5. ASSUME NEW m \in AllMetrics PROVE Read(Metric(frames, m), Missing) = 1..n
  BY <1>1, CounterIs
<1>6. \A m \in GaugeMetrics : e.gauges[m].available = TRUE
  <2> SUFFICES ASSUME NEW m \in GaugeMetrics PROVE e.gauges[m].available = TRUE
    OBVIOUS
  <2>1. e.gauges[m] = Gauge(snapshots, m)
    BY DEF SummarizeEngine
  <2>2. Gauge(snapshots, m) = Summary(Metric(frames, m))
    <3>0. m # Ttft
      BY DEF GaugeMetrics, Ttft
    <3>1. [i \in DOMAIN snapshots |-> snapshots[i].metrics[m]] = Metric(frames, m)
      BY <3>0 DEF Metric, Value
    <3> QED
      BY <3>1 DEF Gauge
  <2>3. Read(Metric(frames, m), Missing) = 1..n /\ 1 \in 1..n
    BY <1>1, <1>5 DEF AllMetrics
  <2>4. (Read(Metric(frames, m), Missing) # {}) = TRUE
    BY <2>3
  <2>5. \A v : Summary(v).available = (Read(v, Missing) # {})
    BY DEF Summary
  <2> HIDE DEF e, snapshots, n
  <2> QED
    BY <2>1, <2>2, <2>4, <2>5
<1>7. \A m \in CounterMetrics : e.counters[m].available = TRUE
  <2> SUFFICES ASSUME NEW m \in CounterMetrics PROVE e.counters[m].available = TRUE
    OBVIOUS
  <2>1. e.counters[m] = Counter(snapshots, m)
    BY DEF SummarizeEngine
  <2>2. Counter(snapshots, m) = CounterDelta(Metric(frames, m))
    BY <1>1, CounterIs DEF AllMetrics
  <2>3. Read(Metric(frames, m), Missing) = 1..n /\ 2 \in Later(1..n)
    BY <1>1, <1>5 DEF AllMetrics, Later
  <2>4. Later(Read(Metric(frames, m), Missing)) # {}
    BY <2>3
  <2> HIDE DEF e, snapshots, n
  <2> QED
    BY <2>1, <2>2, <2>4 DEF CounterDelta
<1> HIDE DEF e
<1>8. {c \in {"samples", "successful", "coverage"} :
         \/ c = "samples" /\ e.samples < 2
         \/ c = "successful" /\ e.successful < 2
         \/ c = "coverage" /\ e.samples > 0 /\ e.successful * 10 < e.samples * 8} = {}
  <2>1. ~(n < 2) /\ ~(n * 10 < n * 8)
    BY <1>1
  <2> HIDE DEF n
  <2> QED
    BY <1>3, <1>4, <2>1
<1>9. EngineErrors(e) = {}
  BY <1>6, <1>7, <1>8 DEF EngineErrors
<1> QED
  BY <1>9 DEF e

-----------------------------------------------------------------------------
(* The rows of a healthy trial *)

\* From n on two instants at which every device was read.
FullyRead(row) == \A s \in Sensors : row[s] \in Nat
HealthyRows(rows, n) ==
  /\ IsFiniteSet(rows)
  /\ \A row \in rows : /\ row.at \in Nat /\ row.device \in Ranks
                       /\ \A s \in Sensors : row[s] \in Values
  /\ \A r \in Ranks, i \in {n, n + 1} :
       \E row \in rows : row.device = r /\ row.at = i /\ FullyRead(row)

LEMMA RowsAreHealthy ==
  ASSUME Healthy, setup.nvml
  PROVE  \E n \in Nat : HealthyRows(GpuRows(frames), n)
<1> DEFINE n == Len(frames) - 1
<1>1. /\ TypeInv /\ RowInv /\ Len(frames) \in Nat /\ Len(frames) >= 2
      /\ DOMAIN frames = 1..Len(frames)
      /\ \A i \in {n, n + 1} :
           Devices(frames[i].gpu) = Ranks /\ \A row \in frames[i].gpu : HealthyRow(row)
  BY HealthyFrames
<1>2. n \in Nat /\ n \in DOMAIN frames /\ n + 1 \in DOMAIN frames
  BY <1>1
<1> HIDE DEF n
<1>3. ASSUME NEW row \in GpuRows(frames)
      PROVE  row.at \in Nat /\ row.device \in Ranks /\ \A s \in Sensors : row[s] \in Values
  <2>1. row \in Rows
    BY <1>1, RowsAreFinite
  <2>2. /\ row.at \in Nat /\ row.device \in Ranks
        /\ row.memory \in Values /\ row.busy \in Values /\ row.watts \in Values
    BY <2>1, WindowAssumption DEF Rows, Values
  <2> QED
    BY <2>2 DEF Sensors
<1>4. ASSUME NEW r \in Ranks, NEW i \in {n, n + 1}
      PROVE  \E row \in GpuRows(frames) : row.device = r /\ row.at = i /\ FullyRead(row)
  <2>1. i \in DOMAIN frames /\ Devices(frames[i].gpu) = Ranks
    BY <1>1, <1>2
  <2>2. PICK row \in frames[i].gpu : row.device = r
    BY <2>1 DEF Devices
  <2>3. row \in GpuRows(frames) /\ row.at = i
    BY <1>1, <2>1, <2>2 DEF GpuRows, RowInv, RowOK
  <2>4. HealthyRow(row) /\ row.device \notin setup.powerless
    BY <1>1, <2>2 DEF Healthy
  <2>5. row.memory \in Nat /\ row.busy \in Nat /\ row.watts \in Nat
    BY <2>4, WindowAssumption DEF HealthyRow
  <2> QED
    BY <2>2, <2>3, <2>5 DEF FullyRead, Sensors
<1>5. IsFiniteSet(GpuRows(frames))
  BY <1>1, RowsAreFinite
<1>6. HealthyRows(GpuRows(frames), n)
  BY <1>3, <1>4, <1>5 DEF HealthyRows
<1> QED
  BY <1>2, <1>6

LEMMA CombinedIs ==
  ASSUME NEW n \in Nat, NEW rows, HealthyRows(rows, n), NEW sensor \in Sensors,
         NEW at \in Instants(rows)
  PROVE  /\ Combined(rows, at, sensor) \in Int \cup {Missing}
         /\ at = n => Combined(rows, at, sensor) \in Int
<1> DEFINE read == At(rows, at, sensor)
           f == [row \in read |-> row[sensor]]
           total == SumFunction(f)
<1>1. \A row \in rows : row[sensor] \in Values
  BY DEF HealthyRows
<1>2. read \subseteq rows
  BY DEF At
<1>3. IsFiniteSet(read)
  BY <1>2, FS_Subset DEF HealthyRows
<1>4. DOMAIN f = read /\ \A row \in read : f[row] \in Nat
  <2>1. \A row \in read : row[sensor] \in Nat
    BY <1>1, <1>2 DEF At, Values
  <2> QED
    BY <2>1
<1>5. Combined(rows, at, sensor)
        = IF read = {} THEN Missing
          ELSE IF sensor = "busy" THEN total \div Cardinality(read) ELSE total
  BY DEF Combined
<1>6. ASSUME at = n PROVE read # {}
  <2>0. PICK r \in Ranks : TRUE
    BY WindowAssumption
  <2>1. PICK row \in rows : row.at = n /\ FullyRead(row)
    BY <2>0 DEF HealthyRows
  <2>2. row[sensor] \in Nat
    BY <2>1 DEF FullyRead
  <2>3. row \in read
    BY <1>6, <2>1, <2>2, SetOfMissing DEF At
  <2> QED
    BY <2>3
<1> HIDE DEF f, read
<1>7. total \in Nat
  BY <1>3, <1>4, SumIn, SumIsSum
<1>8. read # {} => Cardinality(read) \in Nat /\ Cardinality(read) # 0
  BY <1>3, FS_CardinalityType, FS_EmptySet
<1> HIDE DEF total
<1>9. ASSUME read # {} PROVE total \div Cardinality(read) \in Int
  <2> DEFINE c == Cardinality(read)
  <2>1. c \in Nat /\ c > 0
    BY <1>8, <1>9
  <2> HIDE DEF c
  <2>2. total \div c \in Int
    BY <1>7, <2>1, QuotientIs
  <2> QED
    BY <2>2 DEF c
<1> QED
  BY <1>5, <1>6, <1>7, <1>9

LEMMA SeriesIs ==
  ASSUME NEW n \in Nat, NEW rows, HealthyRows(rows, n), NEW sensor \in Sensors
  PROVE  /\ Summary(Series(rows, sensor)).available = TRUE
         /\ Summary(Series(rows, sensor)).peak \in Int
<1> DEFINE v == Series(rows, sensor)
           seen == Read(v, Missing)
           image == {v[at] : at \in seen}
<1>0. n \in Instants(rows)
  <2>1. PICK r \in Ranks : TRUE
    BY WindowAssumption
  <2>2. PICK row \in rows : row.at = n
    BY <2>1 DEF HealthyRows
  <2> QED
    BY <2>2 DEF Instants
<1>1. /\ DOMAIN v = Instants(rows) /\ \A at \in Instants(rows) : v[at] \in Int \cup {Missing}
      /\ v[n] \in Int
  BY <1>0, CombinedIs DEF Series
<1> HIDE DEF v
<1>2. IsFiniteSet(Instants(rows))
  <2> DEFINE h == [row \in rows |-> row.at]
  <2>1. Instants(rows) = {h[row] : row \in rows}
    BY DEF Instants
  <2>2. IsFiniteSet(rows)
    BY DEF HealthyRows
  <2> HIDE DEF h
  <2>3. IsFiniteSet({h[row] : row \in rows})
    BY <2>2, ImageIsFinite
  <2> QED
    BY <2>1, <2>3
<1>3. seen \subseteq Instants(rows) /\ n \in seen /\ \A at \in seen : v[at] \in Int
  BY <1>0, <1>1, MissingIsNoReading DEF Read
<1> HIDE DEF seen
<1>4. IsFiniteSet(image) /\ image # {} /\ image \subseteq Int
  <2>1. IsFiniteSet(seen)
    BY <1>2, <1>3, FS_Subset
  <2>2. IsFiniteSet({v[at] : at \in seen})
    BY <2>1, ImageIsFinite
  <2> QED
    BY <1>3, <2>2
<1>5. seen # {} /\ (seen # {}) = TRUE
  BY <1>3
<1>6. Summary(v).available = TRUE /\ Summary(v).peak = Max(image)
  BY <1>5 DEF Summary, seen
<1> HIDE DEF image
<1>7. Max(image) \in Int
  BY <1>4, MaxIsMax
<1> QED
  BY <1>6, <1>7 DEF v

LEMMA DeviceEnergyIs ==
  ASSUME NEW n \in Nat, NEW rows, HealthyRows(rows, n), NEW r \in Ranks
  PROVE  SummarizeDevice(rows, r).energy \in Int
<1> DEFINE own == RowsOf(rows, r)
<1>1. PICK first \in rows : first.device = r /\ first.at = n /\ FullyRead(first)
  BY DEF HealthyRows
<1>2. PICK second \in rows : second.device = r /\ second.at = n + 1 /\ FullyRead(second)
  BY DEF HealthyRows
<1>3. first \in own /\ second \in own /\ own \subseteq rows
  BY <1>1, <1>2 DEF RowsOf
<1>4. \A u \in own : u.at \in Int /\ (u.watts = Missing \/ u.watts \in Int)
  <2>1. \A u \in rows : u.at \in Nat /\ u["watts"] \in Values
    BY DEF HealthyRows, Sensors
  <2> QED
    BY <1>3, <2>1 DEF Values
<1>5. IsFiniteSet(own)
  BY <1>3, FS_Subset DEF HealthyRows
<1>6. first.watts \in Nat /\ second.watts \in Nat
  <2>1. first["watts"] \in Nat /\ second["watts"] \in Nat
    BY <1>1, <1>2 DEF FullyRead, Sensors
  <2> QED
    BY <2>1
<1> HIDE DEF own
<1>7. <<first, second>> \in Measured(own)
  <2>1. Adjacent(own, first, second)
    BY <1>1, <1>2, <1>4 DEF Adjacent
  <2>2. first.watts # Missing /\ second.watts # Missing
    BY <1>6, SetOfMissing
  <2> QED
    BY <1>3, <2>1, <2>2 DEF Measured
<1>8. Energy2(own) \in Int
  BY <1>4, <1>5, EnergyIsInt
<1>9. SummarizeDevice(rows, r).energy = Energy2(own)
  BY <1>7 DEF SummarizeDevice, IntegratePower, own
<1> QED
  BY <1>8, <1>9

LEMMA TotalEnergyIs ==
  ASSUME NEW n \in Nat, NEW rows, HealthyRows(rows, n)
  PROVE  TotalEnergy(rows) \in Int
<1> DEFINE known == {d \in Devices(rows) : SummarizeDevice(rows, d).energy # Missing}
           f == [d \in known |-> SummarizeDevice(rows, d).energy]
<1>1. Devices(rows) \subseteq Ranks /\ Devices(rows) # {}
  <2>1. PICK r \in Ranks : TRUE
    BY WindowAssumption
  <2>2. PICK row \in rows : row.device = r /\ row.at = n
    BY <2>1 DEF HealthyRows
  <2>3. \A u \in rows : u.device \in Ranks
    BY DEF HealthyRows
  <2> QED
    BY <2>2, <2>3 DEF Devices
<1>2. known = Devices(rows)
  BY <1>1, DeviceEnergyIs, MissingIsNoReading
<1>3. IsFiniteSet(known)
  BY <1>1, <1>2, WindowAssumption, FS_Subset
<1>4. DOMAIN f = known /\ \A d \in known : f[d] \in Int
  BY <1>1, <1>2, DeviceEnergyIs
<1>5. TotalEnergy(rows) = IF known = {} THEN Missing ELSE SumFunction(f)
  BY DEF TotalEnergy
<1> HIDE DEF f, known
<1>6. SumFunction(f) \in Int
  BY <1>3, <1>4, SumIn, SumIsSum
<1> QED
  BY <1>1, <1>2, <1>5, <1>6

LEMMA HealthyGpu ==
  ASSUME Healthy, setup.nvml, NEW t \in Nat
  PROVE  LET g == SummarizeGpu(GpuRows(frames), t) IN
         /\ GpuErrors(g) = {}
         /\ t > 0 => EnergyErrors(g) = {}
<1> DEFINE rows == GpuRows(frames)
           g == SummarizeGpu(rows, t)
<1>1. PICK n \in Nat : HealthyRows(rows, n)
  BY RowsAreHealthy
<1> HIDE DEF rows
<1>2. /\ g.memory = TRUE /\ g.busy = TRUE /\ g.watts = TRUE
      /\ g.peakMemory \in Int /\ g.energy \in Int /\ g.samples = Cardinality(rows)
      /\ g.energyPerToken = PerToken(g.energy, t)
  <2>1. /\ \A s \in Sensors : Summary(Series(rows, s)).available = TRUE
        /\ Summary(Series(rows, "memory")).peak \in Int
    BY <1>1, SeriesIs DEF Sensors
  <2>2. TotalEnergy(rows) \in Int
    BY <1>1, TotalEnergyIs
  <2> QED
    BY <2>1, <2>2 DEF SummarizeGpu, PeakMemory, Sensors
<1>3. Cardinality(rows) \in Nat /\ Cardinality(rows) >= 2
  <2>0. PICK r \in Ranks : TRUE
    BY WindowAssumption
  <2>1. PICK a \in rows : a.at = n
    BY <1>1, <2>0 DEF HealthyRows
  <2>2. PICK b \in rows : b.at = n + 1
    BY <1>1, <2>0 DEF HealthyRows
  <2>3. IsFiniteSet(rows)
    BY <1>1 DEF HealthyRows
  <2>4. Cardinality({a} \cup {b}) = 2
    <3>0. b \notin {a}
      BY <2>1, <2>2
    <3>1. IsFiniteSet({a}) /\ Cardinality({a}) = 1 /\ b \notin {a}
      BY <3>0, FS_Singleton, Zenon
    <3>2. Cardinality({a} \cup {b}) = Cardinality({a}) + 1
      BY <3>1, FS_AddElement
    <3> QED
      BY <3>1, <3>2
  <2>5. {a} \cup {b} \in SUBSET rows
    OBVIOUS
  <2>6. Cardinality({a} \cup {b}) <= Cardinality(rows)
    BY <2>3, <2>5, FS_Subset
  <2>7. Cardinality(rows) \in Nat
    BY <2>3, FS_CardinalityType
  <2> QED
    BY <2>4, <2>6, <2>7
<1> HIDE DEF g
<1>4. ~(g.samples < 2) /\ g.peakMemory # Missing /\ g.energy # Missing
  BY <1>2, <1>3, MissingIsNoReading
<1>5. GpuErrors(g) = {}
  BY <1>2, <1>4 DEF GpuErrors
<1>6. ASSUME t > 0 PROVE EnergyErrors(g) = {}
  <2>1. g.energyPerToken = <<g.energy, t>>
    BY <1>2, <1>4, <1>6 DEF PerToken
  <2>2. g.energyPerToken # Missing
    BY <1>2, <2>1, MissingIsNoReading
  <2> QED
    BY <1>2, <1>4, <2>2 DEF EnergyErrors
<1> QED
  BY <1>5, <1>6 DEF g, rows

LEMMA HealthyInvIs == IInv => HealthyTrialHasEvidence
<1> SUFFICES ASSUME Healthy PROVE EvidenceErrors(result) = {}
  BY DEF HealthyTrialHasEvidence, Healthy
<1> DEFINE t == result.tokens
<1>1. t \in Nat /\ result = BuildResult(frames, t)
  BY HealthyFrames
<1>2. /\ result.engine = SummarizeEngine([i \in DOMAIN frames |-> frames[i].engine])
      /\ result.gpu = SummarizeGpu(GpuRows(frames), t)
  <2> HIDE DEF t
  <2> QED
    BY <1>1 DEF BuildResult
<1>3. EngineErrors(result.engine) = {}
  BY <1>2, HealthyEngine
<1>4. CASE ~setup.nvml
  BY <1>3, <1>4 DEF EvidenceErrors
<1>5. CASE setup.nvml
  <2>1. GpuErrors(result.gpu) = {} /\ (t > 0 => EnergyErrors(result.gpu) = {})
    BY <1>1, <1>2, <1>5, HealthyGpu
  <2>2. setup.energy => EnergyErrors(result.gpu) = {}
    BY <1>5, <2>1 DEF Healthy
  <2> QED
    BY <1>3, <2>1, <2>2 DEF EvidenceErrors
<1> QED
  BY <1>4, <1>5

LEMMA TypeIs == IInv => TypeOK
<1> SUFFICES ASSUME IInv PROVE TypeOK
  OBVIOUS
<1>1. TypeInv /\ StageInv /\ FinalInv
  BY DEF IInv
<1>2. state \in {"created", "running", "stopped"} /\ DOMAIN engine = Ranks /\ answering \subseteq Ranks
  BY <1>1 DEF TypeInv
<1>3. nvml.handles \subseteq nvml.ids /\ nvml.ids \subseteq Ranks
  <2>1. nvml \in Sessions
    BY <1>1 DEF TypeInv
  <2>2. nvml.ids \subseteq Ranks
    BY <2>1 DEF Sessions
  <2>3. nvml.initialized => nvml.handles = Ranks /\ nvml.ids = Ranks
    BY <1>1 DEF StageInv
  <2>4. ~nvml.initialized => nvml.handles = {}
    BY <1>1 DEF StageInv
  <2> QED
    BY <2>2, <2>3, <2>4
<1>4. (state # "running" \/ ~nvml.initialized) => nvml.handles = {}
  BY <1>1 DEF StageInv
<1>5. result.built <=> state = "stopped"
  <2>1. CASE state = "stopped"
    <3>1. PICK t \in {0, made.generated} : result = BuildResult(frames, t)
      BY <1>1, <2>1 DEF StageInv
    <3>2. result.built = TRUE
      BY <3>1 DEF BuildResult
    <3> QED
      BY <2>1, <3>2
  <2>2. CASE state # "stopped"
    <3>1. result = NoResult
      BY <1>1, <2>2 DEF StageInv
    <3>2. result.built = FALSE
      BY <3>1 DEF NoResult
    <3> QED
      BY <2>2, <3>2
  <2> QED
    BY <2>1, <2>2
<1>6. \A i \in DOMAIN frames : frames[i].final <=> (state = "stopped" /\ i = Len(frames))
  BY <1>1 DEF FinalInv
<1> QED
  BY <1>2, <1>3, <1>4, <1>5, <1>6 DEF TypeOK

\* The session opens NVML only while it runs and leaves no handle behind, the
\* result exists exactly when the window is closed, and only the last frame of a
\* closed window is final (TelemetrySession.start, poll and stop, NVMLSession).
THEOREM WindowTypeCorrect == Spec => []TypeOK
<1> QED
  BY WindowInvariant, TypeIs, PTL

\* A counter's delta is never more than what the server served since the window
\* opened, whatever warm-up left in its counters and whatever restarts and failed
\* scrapes the window spans; without a fault it is exactly that
\* (counter_window_delta over canonicalize_vllm_metrics).
THEOREM CountersAreAlwaysHonest == Spec => []CountersAreHonest
<1> QED
  BY WindowInvariant, CountersInv, PTL

\* No bucket of the window's TTFT histogram, nor its count, holds a request that did
\* not start in the window, although the count alone tells a restart from which all
\* of them start again; without a fault each holds exactly those that belong there
\* (_histogram_window_delta).
THEOREM HistogramIsAlwaysHonest == Spec => []HistogramIsHonest
<1> QED
  BY WindowInvariant, HistogramInv, PTL

\* The median is never above the 99th percentile, both lie within the finite
\* buckets, and without a fault a known median has a known 99th percentile
\* (histogram_quantile over the window's buckets).
THEOREM QuantilesAreAlwaysOrdered == Spec => []QuantilesOrdered
<1> QED
  BY WindowInvariant, QuantilesInv, PTL

\* A device's energy is never more than what it drew while it was up at both ends
\* of an interval: no outage is bridged (integrate_power_samples).
THEOREM EnergyIsAlwaysDrawn == Spec => []EnergyIsDrawn
<1> QED
  BY WindowInvariant, EnergyInvIs, PTL

\* The runner finds no gap in the telemetry of a trial whose server and devices
\* exposed everything and never failed, although the driver may come up as late as
\* the last frame but one (_telemetry_evidence_errors, sample_once).
THEOREM HealthyTrialsHaveEvidence == Spec => []HealthyTrialHasEvidence
<1> QED
  BY WindowInvariant, HealthyInvIs, PTL
=============================================================================
