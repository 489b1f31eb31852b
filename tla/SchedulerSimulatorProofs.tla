---------------------- MODULE SchedulerSimulatorProofs ----------------------
(***************************************************************************)
(* What holds of SchedulerSimulator for every trace and configuration: the *)
(* admitted set stays within the limit, preemptions are bounded, no step   *)
(* is empty or spends more than its budget, and nobody who arrived starves. *)
(* Admission ranks its candidates by keys; the part on rankings shows that  *)
(* one by a strict order gives every place to exactly one of them.  After  *)
(* the invariant of the loop, one part counts who may still go first while *)
(* a request waits, and one the tokens that were processed.                 *)
(***************************************************************************)
EXTENDS SchedulerSimulator, FiniteSetTheorems, FunctionTheorems, TLAPS

USE DEF NoCap

-----------------------------------------------------------------------------
(* What the functions of the token-budget policies return *)

(* A ceiling share of a positive total is a number. *)
LEMMA CeilShareType ==
    ASSUME NEW total \in Int, NEW share \in Int
    PROVE  CeilShare(total, share) \in Int
<1>1. ShareUnits \in Int /\ ShareUnits > 0
  BY PolicyAssumption DEF ConfigAccepted
<1>2. total * share + ShareUnits - 1 \in Int
  BY <1>1
<1> QED BY <1>1, <1>2 DEF CeilShare

LEMMA TargetType ==
    ASSUME NEW total \in Int, NEW s, s.decode \in Nat
    PROVE  DecodeTarget(total, s) \in Int
<1>1. MinimumPrefill \in Int /\ PrefillShare \in Int /\ PressureDecodeShare \in Int
      /\ MaxWaitPrefillShare \in Int /\ ShareUnits \in Int
  BY PolicyAssumption DEF ConfigAccepted
<1>2. /\ CeilShare(total, PressureDecodeShare) \in Int
      /\ CeilShare(total, MaxWaitPrefillShare) \in Int
      /\ CeilShare(total, ShareUnits - PrefillShare) \in Int
  <2>1. ShareUnits - PrefillShare \in Int
    BY <1>1
  <2>2. \A share \in Int : CeilShare(total, share) \in Int
    BY CeilShareType
  <2> QED BY <1>1, <2>1, <2>2
<1> QED BY <1>1, <1>2 DEF DecodeTarget, Reservation, Least, Greatest

(* _split_budget splits: the decode part lies between nothing and all.  A    *)
(* total of two or more leaves each stage with work at least one token.     *)
LEMMA SplitIsFair ==
    ASSUME NEW total \in Nat \ {0}, NEW s, s.decode \in Nat, s.prefill \in Nat,
           NEW target \in Int
    PROVE  /\ DecodeOf(total, s, target) \in 0..total
           /\ total >= 2 => /\ s.decode > 0 => DecodeOf(total, s, target) >= 1
                            /\ s.prefill > 0 => total - DecodeOf(total, s, target) >= 1
<1>1. MinimumPrefill \in Nat
  BY PolicyAssumption DEF ConfigAccepted
<1> QED BY <1>1 DEF DecodeOf, Least, Greatest

LEMMA DirectionType == ASSUME NEW s PROVE DesiredDirection(s) \in {-1, 0, 1}
BY DEF DesiredDirection

(* The budget moves within its bounds, only when the count is full, and the  *)
(* way of the direction.                                                    *)
LEMMA BudgetStaysBounded ==
    ASSUME budget \in MinBudget..MaxBudget, NEW direction \in {-1, 0, 1}
    PROVE  /\ BudgetAfter(direction) \in MinBudget..MaxBudget
           /\ BudgetAfter(direction) # budget => Acts(direction)
           /\ BudgetAfter(direction) > budget => direction = 1
           /\ BudgetAfter(direction) < budget => direction = -1
<1>1. {MinBudget, MaxBudget, BudgetStep} \subseteq Nat /\ MinBudget <= MaxBudget
  BY PolicyAssumption DEF ConfigAccepted
<1>2. CASE direction = 1
  BY <1>1, <1>2 DEF BudgetAfter, Least, Greatest
<1>3. CASE direction = -1
  BY <1>1, <1>3 DEF BudgetAfter, Least, Greatest
<1>4. CASE direction = 0
  BY <1>1, <1>4 DEF BudgetAfter, Acts
<1> QED BY <1>2, <1>3, <1>4

LEMMA LimitStaysBounded ==
    ASSUME limit \in MinAdmitted..MaxAdmitted, NEW s
    PROVE  LimitAfter(s) \in MinAdmitted..MaxAdmitted
BY PolicyAssumption DEF ConfigAccepted, LimitAfter, Least, Greatest

-----------------------------------------------------------------------------
(* Rankings *)

StrictOrder(S, R) ==
    /\ \A c \in S : <<c, c>> \notin R
    /\ \A c, d \in S : c # d => <<c, d>> \in R \/ <<d, c>> \in R
    /\ \A c, d, e \in S : <<c, d>> \in R /\ <<d, e>> \in R => <<c, e>> \in R

Below(S, R, c) == {d \in S : <<d, c>> \in R}
Rank(S, R, c)  == Cardinality(Below(S, R, c))
First(S, R, n) == {c \in S : Rank(S, R, c) < n}

LEMMA RankType ==
    ASSUME NEW S, IsFiniteSet(S), NEW R, StrictOrder(S, R), NEW c \in S
    PROVE  /\ IsFiniteSet(Below(S, R, c))
           /\ Rank(S, R, c) \in 0..(Cardinality(S) - 1)
<1>1. Below(S, R, c) \in SUBSET S /\ Below(S, R, c) # S
  BY DEF Below, StrictOrder
<1>2. IsFiniteSet(Below(S, R, c)) /\ Rank(S, R, c) <= Cardinality(S)
      /\ Rank(S, R, c) # Cardinality(S)
  BY <1>1, FS_Subset DEF Rank
<1>3. Rank(S, R, c) \in Nat /\ Cardinality(S) \in Nat
  BY <1>2, FS_CardinalityType DEF Rank
<1> QED BY <1>2, <1>3

LEMMA RankGrows ==
    ASSUME NEW S, IsFiniteSet(S), NEW R, StrictOrder(S, R), NEW c \in S, NEW d \in S,
           <<c, d>> \in R
    PROVE  Rank(S, R, c) < Rank(S, R, d)
<1>1. Below(S, R, c) \in SUBSET Below(S, R, d) /\ Below(S, R, c) # Below(S, R, d)
  BY DEF Below, StrictOrder
<1>2. IsFiniteSet(Below(S, R, d))
  BY RankType
<1>3. Rank(S, R, c) <= Rank(S, R, d) /\ Rank(S, R, c) # Rank(S, R, d)
  BY <1>1, <1>2, FS_Subset DEF Rank
<1>4. Rank(S, R, c) \in Int /\ Rank(S, R, d) \in Int
  BY RankType
<1> QED BY <1>3, <1>4

(* A ranking gives every place from the first on to exactly one. *)
LEMMA RankIsOnto ==
    ASSUME NEW S, IsFiniteSet(S), NEW R, StrictOrder(S, R)
    PROVE  /\ \A c, d \in S : Rank(S, R, c) = Rank(S, R, d) => c = d
           /\ \A k \in 0..(Cardinality(S) - 1) : \E c \in S : Rank(S, R, c) = k
<1> DEFINE T == 0..(Cardinality(S) - 1)
           f == [c \in S |-> Rank(S, R, c)]
<1>1. \A c, d \in S : Rank(S, R, c) = Rank(S, R, d) => c = d
  <2> TAKE c, d \in S
  <2> HAVE Rank(S, R, c) = Rank(S, R, d)
  <2>1. Rank(S, R, c) \in Int /\ Rank(S, R, d) \in Int
    BY RankType
  <2>2. <<c, d>> \notin R /\ <<d, c>> \notin R
    BY <2>1, RankGrows
  <2> QED BY <2>2 DEF StrictOrder
<1>2. Cardinality(S) \in Nat
  BY FS_CardinalityType
<1>3. IsFiniteSet(T) /\ Cardinality(T) = Cardinality(S)
  <2>1. /\ IsFiniteSet(T)
        /\ Cardinality(T) = IF 0 > Cardinality(S) - 1 THEN 0
                            ELSE (Cardinality(S) - 1) - 0 + 1
    BY <1>2, FS_Interval
  <2> QED BY <1>2, <2>1
<1>4. f \in [S -> T]
  BY RankType
<1>5. f \in Injection(S, T)
  <2>1. \A a, b \in S : f[a] = f[b] => a = b
    BY <1>1
  <2> HIDE DEF f, T
  <2> QED BY <1>4, <2>1, Fun_IsInj
<1>6. f \in Surjection(S, T)
  <2> HIDE DEF f, T
  <2> QED BY <1>3, <1>5, FS_Injection
<1>7. \A k \in T : \E c \in S : f[c] = k
  <2> HIDE DEF f, T
  <2> QED BY <1>6, Fun_SurjectionProperties
<1> QED BY <1>1, <1>7

(* The first n of a ranking are n, as long as there are n. *)
Count(n, S) == IF n <= 0 THEN 0 ELSE IF n <= Cardinality(S) THEN n ELSE Cardinality(S)

LEMMA FirstCount ==
    ASSUME NEW S, IsFiniteSet(S), NEW R, StrictOrder(S, R), NEW n \in Int
    PROVE  /\ First(S, R, n) \subseteq S
           /\ IsFiniteSet(First(S, R, n))
           /\ Cardinality(First(S, R, n)) = Count(n, S)
<1> DEFINE F == First(S, R, n)
<1>1. F \in SUBSET S
  BY DEF First
<1>2. IsFiniteSet(F)
  BY <1>1, FS_Subset
<1>3. Cardinality(S) \in Nat
  BY FS_CardinalityType
<1>4. CASE n <= 0
  <2>1. F = {}
    BY <1>4, RankType DEF First
  <2> QED BY <1>4, <2>1, <1>2, <1>1, FS_EmptySet DEF Count
<1>5. CASE n > Cardinality(S)
  <2>1. F = S
    BY <1>5, <1>3, RankType DEF First
  <2> QED BY <1>5, <1>3, <2>1, <1>2, <1>1 DEF Count
<1>6. CASE n > 0 /\ n <= Cardinality(S)
  <2> DEFINE T == 0..(n - 1)
             f == [c \in F |-> Rank(S, R, c)]
  <2>1. IsFiniteSet(T) /\ Cardinality(T) = n
    <3>1. IsFiniteSet(T) /\ Cardinality(T) = IF 0 > n - 1 THEN 0 ELSE (n - 1) - 0 + 1
      BY FS_Interval
    <3> QED BY <1>6, <3>1
  <2>2. f \in [F -> T]
    BY RankType DEF First
  <2>3. \A a, b \in F : f[a] = f[b] => a = b
    BY <1>1, RankIsOnto
  <2>4. \A k \in T : \E c \in F : f[c] = k
    <3> TAKE k \in T
    <3>1. k \in 0..(Cardinality(S) - 1)
      BY <1>3, <1>6
    <3>2. PICK c \in S : Rank(S, R, c) = k
      BY <3>1, RankIsOnto
    <3>3. c \in F
      BY <3>2 DEF First
    <3> QED BY <3>2, <3>3
  <2>5. f \in Injection(F, T)
    <3> HIDE DEF f, T, F
    <3> QED BY <2>2, <2>3, Fun_IsInj
  <2>6. f \in Surjection(F, T)
    <3> HIDE DEF f, T, F
    <3> QED BY <2>2, <2>4, Fun_IsSurj
  <2>7. Cardinality(F) = Cardinality(T)
    <3> HIDE DEF f, T, F
    <3> QED BY <2>5, <2>6, <2>1, FS_Injection
  <2> QED BY <1>6, <2>1, <2>7, <1>1, <1>2 DEF Count
<1> QED BY <1>3, <1>4, <1>5, <1>6

LEMMA SomethingComesFirst ==
    ASSUME NEW S, IsFiniteSet(S), S # {}, NEW R, StrictOrder(S, R)
    PROVE  \E c \in S : Below(S, R, c) = {}
<1>1. Cardinality(S) \in Nat /\ Cardinality(S) # 0
  BY FS_CardinalityType, FS_EmptySet
<1>2. PICK c \in S : Rank(S, R, c) = 0
  BY <1>1, RankIsOnto
<1>3. Below(S, R, c) = {}
  BY <1>2, RankType, FS_EmptySet DEF Rank
<1> QED BY <1>3

(* A finite set of integers has a least element, and Min is it. *)
LEMMA MinIsLeast ==
    ASSUME NEW S, S \subseteq Int, IsFiniteSet(S), S # {}
    PROVE  Min(S) \in S /\ \A x \in S : Min(S) <= x
<1>0. PICK R : R = {p \in S \X S : p[1] < p[2]}
  OBVIOUS
<1>1. \A c, d \in S : <<c, d>> \in R <=> c < d
  BY <1>0
<1>2. StrictOrder(S, R)
  BY <1>1 DEF StrictOrder
<1>4. PICK c \in S : Below(S, R, c) = {}
  BY <1>2, SomethingComesFirst
<1>6. \A x \in S : c <= x
  <2> TAKE x \in S
  <2>1. <<x, c>> \notin R
    BY <1>4 DEF Below
  <2> QED BY <1>1, <2>1
<1> QED BY <1>6 DEF Min

(* A finite set of integers has a greatest element, and Max is it. *)
LEMMA MaxIsGreatest ==
    ASSUME NEW S, S \subseteq Int, IsFiniteSet(S), S # {}
    PROVE  Max(S) \in S /\ \A x \in S : x <= Max(S)
<1>0. PICK R : R = {p \in S \X S : p[1] > p[2]}
  OBVIOUS
<1>1. \A c, d \in S : <<c, d>> \in R <=> c > d
  BY <1>0
<1>2. StrictOrder(S, R)
  BY <1>1 DEF StrictOrder
<1>3. PICK c \in S : Below(S, R, c) = {}
  BY <1>2, SomethingComesFirst
<1>4. \A x \in S : x <= c
  <2> TAKE x \in S
  <2>1. <<x, c>> \notin R
    BY <1>3 DEF Below
  <2> QED BY <1>1, <2>1
<1> QED BY <1>4 DEF Max

-----------------------------------------------------------------------------
(* Keys *)

LEMMA Differs ==
    ASSUME NEW n \in Nat
    PROVE  \A a, b \in [1..n -> Int] :
               a # b => \E i \in 1..n : a[i] # b[i] /\ \A j \in 1..(i - 1) : a[j] = b[j]
<1> TAKE a, b \in [1..n -> Int]
<1> HAVE a # b
<1> DEFINE D == {i \in 1..n : a[i] # b[i]}
<1>1. D # {} /\ D \subseteq Int /\ D \in SUBSET (1..n)
  OBVIOUS
<1>2. IsFiniteSet(D)
  <2>1. IsFiniteSet(1..n)
    BY FS_Interval
  <2> HIDE DEF D
  <2> QED BY <1>1, <2>1, FS_Subset
<1>3. PICK i \in D : \A x \in D : i <= x
  <2> HIDE DEF D
  <2> QED BY <1>1, <1>2, MinIsLeast
<1>4. i \in 1..n /\ a[i] # b[i]
  OBVIOUS
<1>5. \A j \in 1..(i - 1) : j \in 1..n /\ j \notin D
  BY <1>3, <1>4
<1>6. \A j \in 1..(i - 1) : a[j] = b[j]
  BY <1>5
<1> QED BY <1>4, <1>6

LEMMA KeyOrder ==
    ASSUME NEW S, NEW n \in Nat, NEW k \in [S -> [1..n -> Int]],
           \A c, d \in S : k[c] = k[d] => c = d,
           NEW R, \A c, d \in S : <<c, d>> \in R <=> Precedes(k[c], k[d])
    PROVE  StrictOrder(S, R)
<1>1. \A a \in [1..n -> Int] : ~Precedes(a, a)
  BY DEF Precedes
<1>2. \A a, b \in [1..n -> Int] : a # b => Precedes(a, b) \/ Precedes(b, a)
  <2> TAKE a, b \in [1..n -> Int]
  <2> HAVE a # b
  <2>0. \A x, y \in [1..n -> Int] :
          x # y => \E i \in 1..n : x[i] # y[i] /\ \A j \in 1..(i - 1) : x[j] = y[j]
    BY Differs
  <2>1. PICK i \in 1..n : a[i] # b[i] /\ \A j \in 1..(i - 1) : a[j] = b[j]
    BY <2>0
  <2>2. a[i] < b[i] \/ b[i] < a[i]
    BY <2>1
  <2> QED BY <2>1, <2>2 DEF Precedes
<1>3. \A a, b, c \in [1..n -> Int] : Precedes(a, b) /\ Precedes(b, c) => Precedes(a, c)
  <2> TAKE a, b, c \in [1..n -> Int]
  <2> HAVE Precedes(a, b) /\ Precedes(b, c)
  <2>1. PICK i \in 1..n : a[i] < b[i] /\ \A j \in 1..(i - 1) : a[j] = b[j]
    BY DEF Precedes
  <2>2. PICK l \in 1..n : b[l] < c[l] /\ \A j \in 1..(l - 1) : b[j] = c[j]
    BY DEF Precedes
  <2>3. CASE i <= l
    <3>1. a[i] < c[i] /\ \A j \in 1..(i - 1) : a[j] = c[j]
      BY <2>1, <2>2, <2>3
    <3> QED BY <3>1 DEF Precedes
  <2>4. CASE l < i
    <3>1. a[l] < c[l] /\ \A j \in 1..(l - 1) : a[j] = c[j]
      BY <2>1, <2>2, <2>4
    <3> QED BY <3>1 DEF Precedes
  <2> QED BY <2>3, <2>4
<1>4. \A c \in S : k[c] \in [1..n -> Int]
  OBVIOUS
<1> QED BY <1>1, <1>2, <1>3, <1>4 DEF StrictOrder

(* What the controller is shown: numbers, and no order twice. *)
Proper(C) ==
    /\ \A c \in C : /\ c.order \in Int /\ c.arrival \in Int /\ c.priority \in Int
                    /\ c.waitingSince \in Int /\ c.lastProgress \in Int /\ c.service \in Int
    /\ \A c, d \in C : c.order = d.order => c = d

LEMMA AgeType ==
    ASSUME NEW C, Proper(C), NEW c \in C, NEW t \in Int
    PROVE  Wait(c, t) \in Int /\ ServiceAge(c, t) \in Int /\ Score(c, t) \in Int
<1>1. AdmissionMaxWait \in Int /\ AgingWeight \in Int
  BY AdmissionAssumption
<1>2. \A a, b \in Int : a * b \in Int
  OBVIOUS
<1>3. Wait(c, t) \in Int /\ ServiceAge(c, t) \in Int
  BY DEF Proper, Wait, ServiceAge
<1>4. c.priority * AdmissionMaxWait \in Int /\ AgingWeight * Wait(c, t) \in Int
  BY <1>1, <1>2, <1>3 DEF Proper
<1> QED BY <1>3, <1>4 DEF Score

LEMMA VictimOrder ==
    ASSUME NEW C, Proper(C), NEW t \in Int,
           NEW R, R = {p \in C \X C : Precedes(VictimKey(p[1], t), VictimKey(p[2], t))}
    PROVE  StrictOrder(C, R)
<1> DEFINE k == [c \in C |-> VictimKey(c, t)]
<1>1. k \in [C -> [1..5 -> Int]]
  <2> SUFFICES ASSUME NEW c \in C PROVE VictimKey(c, t) \in [1..5 -> Int]
    OBVIOUS
  <2>1. 1 - Flag(Protected(c, t)) \in Int /\ -c.arrival \in Int /\ -c.order \in Int
        /\ c.priority \in Int
    BY DEF Flag, Proper
  <2> QED BY <2>1, AgeType DEF VictimKey
<1>2. \A c, d \in C : k[c] = k[d] => c = d
  <2> TAKE c, d \in C
  <2> HAVE k[c] = k[d]
  <2>1. VictimKey(c, t)[5] = VictimKey(d, t)[5]
    OBVIOUS
  <2>2. -c.order = -d.order
    BY <2>1 DEF VictimKey
  <2> QED BY <2>2 DEF Proper
<1>3. \A c, d \in C : <<c, d>> \in R <=> Precedes(k[c], k[d])
  OBVIOUS
<1> HIDE DEF k
<1> QED BY <1>1, <1>2, <1>3, KeyOrder

LEMMA WaitingOrder ==
    ASSUME NEW C, Proper(C), NEW t \in Int,
           NEW R, R = {p \in C \X C : Precedes(WaitingKey(p[1], t), WaitingKey(p[2], t))}
    PROVE  StrictOrder(C, R)
<1> DEFINE k == [c \in C |-> WaitingKey(c, t)]
<1>1. k \in [C -> [1..4 -> Int]]
  <2> SUFFICES ASSUME NEW c \in C PROVE WaitingKey(c, t) \in [1..4 -> Int]
    OBVIOUS
  <2>1. Flag(Wait(c, t) >= AdmissionMaxWait) \in Int /\ -Score(c, t) \in Int
        /\ c.arrival \in Int /\ c.order \in Int
    BY AgeType DEF Flag, Proper
  <2> QED BY <2>1 DEF WaitingKey
<1>2. \A c, d \in C : k[c] = k[d] => c = d
  <2> TAKE c, d \in C
  <2> HAVE k[c] = k[d]
  <2>1. WaitingKey(c, t)[4] = WaitingKey(d, t)[4]
    OBVIOUS
  <2>2. c.order = d.order
    BY <2>1 DEF WaitingKey
  <2> QED BY <2>2 DEF Proper
<1>3. \A c, d \in C : <<c, d>> \in R <=> Precedes(k[c], k[d])
  OBVIOUS
<1> HIDE DEF k
<1> QED BY <1>1, <1>2, <1>3, KeyOrder

LEMMA ServiceOrder ==
    ASSUME NEW C, Proper(C), NEW t \in Int,
           NEW R, R = {p \in C \X C : Precedes(ServiceKey(p[1], t), ServiceKey(p[2], t))}
    PROVE  StrictOrder(C, R)
<1> DEFINE k == [c \in C |-> ServiceKey(c, t)]
<1>1. k \in [C -> [1..5 -> Int]]
  <2> SUFFICES ASSUME NEW c \in C PROVE ServiceKey(c, t) \in [1..5 -> Int]
    OBVIOUS
  <2>1. ServiceAge(c, t) \in Int
    BY AgeType
  <2>2. Flag(ServiceAge(c, t) >= AdmissionMaxWait) \in Int
    BY DEF Flag
  <2>3. c.service \in Int /\ c.arrival \in Int /\ c.order \in Int
    BY DEF Proper
  <2> QED BY <2>1, <2>2, <2>3 DEF ServiceKey
<1>2. \A c, d \in C : k[c] = k[d] => c = d
  <2> TAKE c, d \in C
  <2> HAVE k[c] = k[d]
  <2>1. ServiceKey(c, t)[5] = ServiceKey(d, t)[5]
    OBVIOUS
  <2>2. c.order = d.order
    BY <2>1 DEF ServiceKey
  <2> QED BY <2>2 DEF Proper
<1>3. \A c, d \in C : <<c, d>> \in R <=> Precedes(k[c], k[d])
  OBVIOUS
<1> HIDE DEF k
<1> QED BY <1>1, <1>2, <1>3, KeyOrder

LEMMA VictimsCount ==
    ASSUME NEW C, IsFiniteSet(C), Proper(C), NEW t \in Int, NEW n \in Int
    PROVE  /\ FirstVictims(C, n, t) \subseteq C
           /\ IsFiniteSet(FirstVictims(C, n, t))
           /\ Cardinality(FirstVictims(C, n, t)) = Count(n, C)
<1>1. PICK R : R = {p \in C \X C : Precedes(VictimKey(p[1], t), VictimKey(p[2], t))}
  OBVIOUS
<1>2. \A c \in C : Below(C, R, c) = {d \in C : Precedes(VictimKey(d, t), VictimKey(c, t))}
  BY <1>1 DEF Below
<1>3. FirstVictims(C, n, t) = First(C, R, n)
  BY <1>2 DEF FirstVictims, FirstOf, First, Rank
<1>4. StrictOrder(C, R)
  BY <1>1, VictimOrder
<1> QED BY <1>3, <1>4, FirstCount

LEMMA WaitingCount ==
    ASSUME NEW C, IsFiniteSet(C), Proper(C), NEW t \in Int, NEW n \in Int
    PROVE  /\ FirstWaiting(C, n, t) \subseteq C
           /\ IsFiniteSet(FirstWaiting(C, n, t))
           /\ Cardinality(FirstWaiting(C, n, t)) = Count(n, C)
<1>1. PICK R : R = {p \in C \X C : Precedes(WaitingKey(p[1], t), WaitingKey(p[2], t))}
  OBVIOUS
<1>2. \A c \in C : Below(C, R, c) = {d \in C : Precedes(WaitingKey(d, t), WaitingKey(c, t))}
  BY <1>1 DEF Below
<1>3. FirstWaiting(C, n, t) = First(C, R, n)
  BY <1>2 DEF FirstWaiting, FirstOf, First, Rank
<1>4. StrictOrder(C, R)
  BY <1>1, WaitingOrder
<1> QED BY <1>3, <1>4, FirstCount

LEMMA ServedCount ==
    ASSUME NEW C, IsFiniteSet(C), Proper(C), NEW t \in Int, NEW n \in Int
    PROVE  /\ FirstServed(C, n, t) \subseteq C
           /\ IsFiniteSet(FirstServed(C, n, t))
           /\ Cardinality(FirstServed(C, n, t)) = Count(n, C)
<1>1. PICK R : R = {p \in C \X C : Precedes(ServiceKey(p[1], t), ServiceKey(p[2], t))}
  OBVIOUS
<1>2. \A c \in C : Below(C, R, c) = {d \in C : Precedes(ServiceKey(d, t), ServiceKey(c, t))}
  BY <1>1 DEF Below
<1>3. FirstServed(C, n, t) = First(C, R, n)
  BY <1>2 DEF FirstServed, FirstOf, First, Rank
<1>4. StrictOrder(C, R)
  BY <1>1, ServiceOrder
<1> QED BY <1>3, <1>4, FirstCount

-----------------------------------------------------------------------------
(* One decision of the admission controller *)

LEMMA MinOfThree ==
    ASSUME NEW a \in Int, NEW b \in Int, NEW c \in Int
    PROVE  /\ Min({a, b, c}) \in {a, b, c}
           /\ Min({a, b, c}) <= a /\ Min({a, b, c}) <= b /\ Min({a, b, c}) <= c
<1>1. \E x \in {a, b, c} : \A y \in {a, b, c} : x <= y
  <2>1. CASE a <= b /\ a <= c
    BY <2>1
  <2>2. CASE b <= a /\ b <= c
    BY <2>2
  <2>3. CASE c <= a /\ c <= b
    BY <2>3
  <2> QED BY <2>1, <2>2, <2>3
<1> QED BY <1>1 DEF Min

LEMMA Parts ==
    ASSUME NEW S, IsFiniteSet(S), NEW T, T \subseteq S
    PROVE  /\ IsFiniteSet(T) /\ IsFiniteSet(S \ T)
           /\ Cardinality(S) \in Nat /\ Cardinality(T) \in Nat
           /\ Cardinality(S \ T) = Cardinality(S) - Cardinality(T)
<1>1. IsFiniteSet(T) /\ IsFiniteSet(S \ T)
  BY FS_Subset
<1>2. Cardinality(S) \in Nat /\ Cardinality(T) \in Nat /\ Cardinality(S \ T) \in Nat
  BY <1>1, FS_CardinalityType
<1>3. S = T \cup (S \ T) /\ T \cap (S \ T) = {}
  OBVIOUS
<1>4. Cardinality(T \cup (S \ T))
        = Cardinality(T) + Cardinality(S \ T) - Cardinality(T \cap (S \ T))
  BY <1>1, FS_Union
<1>5. Cardinality(T \cap (S \ T)) = 0
  BY <1>3, FS_EmptySet
<1>6. Cardinality(S) = Cardinality(T) + Cardinality(S \ T)
  BY <1>2, <1>3, <1>4, <1>5
<1> QED BY <1>1, <1>2, <1>6

LEMMA Together ==
    ASSUME NEW S, IsFiniteSet(S), NEW T, IsFiniteSet(T)
    PROVE  /\ IsFiniteSet(S \cup T)
           /\ Cardinality(S \cup T) <= Cardinality(S) + Cardinality(T)
           /\ Cardinality(S \cup T) \in Nat
<1>1. IsFiniteSet(S \cup T) /\ IsFiniteSet(S \cap T)
      /\ Cardinality(S \cup T) = Cardinality(S) + Cardinality(T) - Cardinality(S \cap T)
  BY FS_Union, FS_Intersection
<1>2. /\ Cardinality(S) \in Nat /\ Cardinality(T) \in Nat
      /\ Cardinality(S \cap T) \in Nat /\ Cardinality(S \cup T) \in Nat
  BY <1>1, FS_CardinalityType
<1> QED BY <1>1, <1>2

(* A decision keeps the limit, evicts no more than the excess and the swaps,  *)
(* and leaves the place empty only if nobody is there.                        *)
LEMMA DecisionKeepsLimit ==
    ASSUME NEW W, IsFiniteSet(W), Proper(W), NEW A, IsFiniteSet(A), Proper(A),
           NEW t \in Int, NEW most \in Nat \ {0},
           NEW D, D = AdmissionDecision(W, A, t, most)
    PROVE  /\ D.admit \subseteq W /\ D.preempt \subseteq A
           /\ Cardinality(D.preempt) <= Greatest(0, Cardinality(A) - most) + MaxPreemptions
           /\ IsFiniteSet((A \ D.preempt) \cup D.admit)
           /\ Cardinality((A \ D.preempt) \cup D.admit) <= most
           /\ W \cup A # {} => (A \ D.preempt) \cup D.admit # {}
<1> DEFINE X == FirstVictims(A, Cardinality(A) - most, t)
           V == A \ X
           F == FirstWaiting(W, most - Cardinality(V), t)
           O == {c \in W \ F : Wait(c, t) >= AdmissionMaxWait}
           s == IF AllowPreemption
                THEN Min({Cardinality(O), Cardinality(V), MaxPreemptions}) ELSE 0
           E == FirstWaiting(O, s, t)
           P == FirstVictims(V, s, t)
<1>1. D.admit = F \cup E /\ D.preempt = X \cup P
  BY DEF AdmissionDecision
<1>2. /\ X \subseteq A /\ IsFiniteSet(V) /\ V \subseteq A
      /\ Cardinality(A) \in Nat /\ Cardinality(X) \in Nat /\ Cardinality(V) \in Nat
      /\ Cardinality(X) = IF Cardinality(A) <= most THEN 0 ELSE Cardinality(A) - most
      /\ Cardinality(V) = Cardinality(A) - Cardinality(X)
  <2>1. Cardinality(A) \in Nat
    BY FS_CardinalityType
  <2>2. X \subseteq A /\ Cardinality(X) = Count(Cardinality(A) - most, A)
    BY <2>1, VictimsCount
  <2>3. Cardinality(X) = IF Cardinality(A) <= most THEN 0 ELSE Cardinality(A) - most
    BY <2>1, <2>2 DEF Count
  <2>4. IsFiniteSet(V) /\ Cardinality(X) \in Nat
        /\ Cardinality(V) = Cardinality(A) - Cardinality(X)
    <3> HIDE DEF X
    <3> QED BY <2>2, Parts
  <2>5. Cardinality(V) \in Nat
    BY <2>4, FS_CardinalityType
  <2> HIDE DEF X
  <2> QED BY <2>1, <2>2, <2>3, <2>4, <2>5
<1>3. /\ F \subseteq W /\ IsFiniteSet(F) /\ Cardinality(F) \in Nat
      /\ Cardinality(F) = Count(most - Cardinality(V), W)
  <2>1. most - Cardinality(V) \in Int
    BY <1>2
  <2>2. F \subseteq W /\ IsFiniteSet(F) /\ Cardinality(F) = Count(most - Cardinality(V), W)
    <3> HIDE DEF V
    <3> QED BY <2>1, WaitingCount
  <2>3. Cardinality(F) \in Nat
    BY <2>2, FS_CardinalityType
  <2> QED BY <2>2, <2>3
<1>4. O \subseteq W /\ IsFiniteSet(O) /\ Proper(O) /\ Cardinality(O) \in Nat
  <2>1. O \subseteq W
    OBVIOUS
  <2>2. Proper(O)
    BY <2>1 DEF Proper
  <2>3. IsFiniteSet(O)
    BY <2>1, FS_Subset
  <2> QED BY <2>1, <2>2, <2>3, FS_CardinalityType
<1>5. s \in Nat /\ s <= Cardinality(O) /\ s <= Cardinality(V) /\ s <= MaxPreemptions
  <2>1. MaxPreemptions \in Nat
    BY AdmissionAssumption
  <2>2. CASE AllowPreemption
    <3>1. s = Min({Cardinality(O), Cardinality(V), MaxPreemptions})
      BY <2>2
    <3>2. Cardinality(O) \in Int /\ Cardinality(V) \in Int /\ MaxPreemptions \in Int
      BY <1>2, <1>4, <2>1
    <3>3. s \in {Cardinality(O), Cardinality(V), MaxPreemptions}
          /\ s <= Cardinality(O) /\ s <= Cardinality(V) /\ s <= MaxPreemptions
      <4> HIDE DEF O, V, s
      <4> QED BY <3>1, <3>2, MinOfThree
    <3> HIDE DEF O, V, s
    <3> QED BY <3>3, <1>2, <1>4, <2>1
  <2>3. CASE ~AllowPreemption
    <3>1. s = 0
      BY <2>3
    <3> HIDE DEF O, V, s
    <3> QED BY <3>1, <1>2, <1>4, <2>1
  <2> QED BY <2>2, <2>3
<1> HIDE DEF s, O
<1>6. E \subseteq O /\ IsFiniteSet(E) /\ Cardinality(E) = s
  <2>1. E \subseteq O /\ IsFiniteSet(E) /\ Cardinality(E) = Count(s, O)
    BY <1>4, <1>5, WaitingCount
  <2> QED BY <1>4, <1>5, <2>1 DEF Count
<1>7. P \subseteq V /\ IsFiniteSet(P) /\ Cardinality(P) = s
  <2>1. Proper(V)
    BY <1>2 DEF Proper
  <2>2. P \subseteq V /\ IsFiniteSet(P) /\ Cardinality(P) = Count(s, V)
    <3> HIDE DEF V
    <3> QED BY <1>2, <1>5, <2>1, VictimsCount
  <2> HIDE DEF V, P
  <2> QED BY <1>2, <1>5, <2>2 DEF Count
<1> DEFINE N == (A \ D.preempt) \cup D.admit
<1>8. N = (V \ P) \cup (F \cup E)
  <2> HIDE DEF X, P, F, E
  <2> QED BY <1>1
<1>9. IsFiniteSet(X) /\ IsFiniteSet(V \ P) /\ Cardinality(V \ P) = Cardinality(V) - s
      /\ Cardinality(V \ P) \in Nat
  <2>1. IsFiniteSet(X)
    BY <1>2, FS_Subset
  <2>2. IsFiniteSet(V \ P) /\ Cardinality(V \ P) = Cardinality(V) - Cardinality(P)
    <3> HIDE DEF V, P
    <3> QED BY <1>2, <1>7, Parts
  <2>3. Cardinality(V \ P) \in Nat
    BY <2>2, FS_CardinalityType
  <2> HIDE DEF X, V, P
  <2> QED BY <2>1, <2>2, <2>3, <1>7
<1> HIDE DEF X, V, F, E, P, N
<1>10. Cardinality(X \cup P) <= Greatest(0, Cardinality(A) - most) + MaxPreemptions
  <2>1. Cardinality(X \cup P) <= Cardinality(X) + Cardinality(P) /\ Cardinality(X \cup P) \in Nat
    BY <1>7, <1>9, Together
  <2>2. MaxPreemptions \in Nat
    BY AdmissionAssumption
  <2> QED BY <2>1, <2>2, <1>2, <1>5, <1>7 DEF Greatest
<1>11. IsFiniteSet(F \cup E) /\ Cardinality(F \cup E) <= Cardinality(F) + s
       /\ Cardinality(F \cup E) \in Nat
  BY <1>3, <1>6, Together
<1>12. IsFiniteSet(N) /\ Cardinality(N) <= Cardinality(V \ P) + Cardinality(F \cup E)
       /\ Cardinality(N) \in Nat
  BY <1>8, <1>9, <1>11, Together
<1>13. Cardinality(F) <= most - Cardinality(V)
  <2>1. Cardinality(W) \in Nat
    BY FS_CardinalityType
  <2> QED BY <2>1, <1>2, <1>3 DEF Count
<1>14. Cardinality(N) <= most
  BY <1>2, <1>3, <1>5, <1>9, <1>11, <1>12, <1>13
<1>15. ASSUME W \cup A # {} PROVE N # {}
  <2>1. CASE Cardinality(V) = 0
    <3>1. A = {}
      <4>1. Cardinality(A) = 0
        BY <1>2, <2>1
      <4> QED BY <4>1, FS_EmptySet
    <3>2. Cardinality(W) \in Nat /\ Cardinality(W) # 0
      BY <3>1, <1>15, FS_CardinalityType, FS_EmptySet
    <3>3. Cardinality(F) # 0
      BY <2>1, <3>2, <1>3 DEF Count
    <3>4. F # {}
      BY <3>3, FS_EmptySet
    <3> QED BY <3>4, <1>8
  <2>2. CASE Cardinality(V) # 0 /\ s < Cardinality(V)
    <3>1. Cardinality(V \ P) # 0
      BY <2>2, <1>2, <1>5, <1>9
    <3>2. V \ P # {}
      BY <3>1, FS_EmptySet
    <3> QED BY <3>2, <1>8
  <2>3. CASE Cardinality(V) # 0 /\ s = Cardinality(V)
    <3>1. E # {}
      BY <2>3, <1>6, FS_EmptySet
    <3> QED BY <3>1, <1>8
  <2> QED BY <2>1, <2>2, <2>3, <1>2, <1>5
<1>16. D.admit \subseteq W /\ D.preempt \subseteq A
  BY <1>1, <1>2, <1>3, <1>4, <1>6, <1>7
<1> QED BY <1>1, <1>10, <1>12, <1>14, <1>15, <1>16 DEF N

(* Whoever is not among the first places of a ranking has somebody ahead     *)
(* who got one, as soon as there is a place.                                  *)
LEMMA SomebodyWentFirst ==
    ASSUME NEW C, IsFiniteSet(C), Proper(C), NEW t \in Int, NEW n \in Nat \ {0},
           NEW c \in C, c \notin FirstWaiting(C, n, t)
    PROVE  \E d \in FirstWaiting(C, n, t) :
               d # c /\ Precedes(WaitingKey(d, t), WaitingKey(c, t))
<1>1. PICK R : R = {p \in C \X C : Precedes(WaitingKey(p[1], t), WaitingKey(p[2], t))}
  OBVIOUS
<1>2. \A d \in C : Below(C, R, d) = {e \in C : Precedes(WaitingKey(e, t), WaitingKey(d, t))}
  BY <1>1 DEF Below
<1>3. FirstWaiting(C, n, t) = First(C, R, n)
  BY <1>2 DEF FirstWaiting, FirstOf, First, Rank
<1>4. StrictOrder(C, R)
  BY <1>1, WaitingOrder
<1>5. PICK d \in C : Below(C, R, d) = {}
  BY <1>4, SomethingComesFirst
<1>6. d \in First(C, R, n)
  <2>1. Rank(C, R, d) = 0
    BY <1>5, FS_EmptySet DEF Rank
  <2> QED BY <2>1 DEF First
<1>7. d # c
  BY <1>3, <1>6
<1>8. <<c, d>> \notin R
  BY <1>5 DEF Below
<1>9. <<d, c>> \in R
  BY <1>4, <1>7, <1>8 DEF StrictOrder
<1> QED BY <1>1, <1>3, <1>6, <1>7, <1>9

(* With preemption a decision passes over an overdue request only for one    *)
(* that ranks before it: either a place was free, or it swapped in.           *)
LEMMA OverduePassedOnlyByRank ==
    ASSUME NEW W, IsFiniteSet(W), Proper(W), NEW A, IsFiniteSet(A), Proper(A),
           NEW t \in Int, NEW most \in Nat \ {0}, AllowPreemption,
           NEW D, D = AdmissionDecision(W, A, t, most),
           NEW c \in W, c \notin D.admit, Wait(c, t) >= AdmissionMaxWait
    PROVE  \E d \in D.admit : d # c /\ Precedes(WaitingKey(d, t), WaitingKey(c, t))
<1> DEFINE X == FirstVictims(A, Cardinality(A) - most, t)
           V == A \ X
           F == FirstWaiting(W, most - Cardinality(V), t)
           O == {d \in W \ F : Wait(d, t) >= AdmissionMaxWait}
           s == Min({Cardinality(O), Cardinality(V), MaxPreemptions})
           E == FirstWaiting(O, s, t)
<1>1. D.admit = F \cup E
  BY DEF AdmissionDecision
<1>2. Cardinality(V) \in Nat
  <2>0. Cardinality(A) \in Nat
    BY FS_CardinalityType
  <2>1. X \subseteq A
    BY <2>0, VictimsCount
  <2>2. IsFiniteSet(V)
    <3> HIDE DEF X
    <3> QED BY <2>1, FS_Subset
  <2> QED BY <2>2, FS_CardinalityType
<1>3. c \in O /\ O \subseteq W /\ c \notin F /\ c \notin E
  BY <1>1
<1>4. IsFiniteSet(O) /\ Proper(O) /\ Cardinality(O) \in Nat \ {0}
  <2>1. IsFiniteSet(O)
    BY <1>3, FS_Subset
  <2>2. Proper(O)
    <3> HIDE DEF O
    <3> QED BY <1>3 DEF Proper
  <2>3. Cardinality(O) \in Nat /\ Cardinality(O) # 0
    <3> HIDE DEF O
    <3> QED BY <2>1, <1>3, FS_CardinalityType, FS_EmptySet
  <2> QED BY <2>1, <2>2, <2>3
<1> HIDE DEF V, O
<1>5. CASE Cardinality(V) = 0
  <2>1. most - Cardinality(V) \in Nat \ {0}
    BY <1>5
  <2>2. \E d \in F : d # c /\ Precedes(WaitingKey(d, t), WaitingKey(c, t))
    BY <1>3, <2>1, SomebodyWentFirst
  <2> HIDE DEF F, E
  <2> QED BY <1>1, <2>2
<1>6. CASE Cardinality(V) # 0
  <2>1. s \in Nat \ {0}
    <3>1. MaxPreemptions \in Nat \ {0}
      BY AdmissionAssumption
    <3>2. s \in {Cardinality(O), Cardinality(V), MaxPreemptions}
      <4>1. Cardinality(O) \in Int /\ Cardinality(V) \in Int /\ MaxPreemptions \in Int
        BY <1>2, <1>4, <3>1
      <4> QED BY <4>1, MinOfThree
    <3> HIDE DEF s
    <3> QED BY <1>2, <1>4, <1>6, <3>1, <3>2
  <2> HIDE DEF s
  <2>2. \E d \in E : d # c /\ Precedes(WaitingKey(d, t), WaitingKey(c, t))
    BY <1>3, <1>4, <2>1, SomebodyWentFirst
  <2> HIDE DEF F, E
  <2> QED BY <1>1, <2>2
<1> QED BY <1>5, <1>6

(* Among requests that wait, only a score at least as high ranks before one  *)
(* that is overdue.                                                           *)
LEMMA RankedByScore ==
    ASSUME NEW C, Proper(C), NEW t \in Int, NEW c \in C, NEW d \in C,
           Wait(c, t) >= AdmissionMaxWait, Precedes(WaitingKey(d, t), WaitingKey(c, t))
    PROVE  Score(c, t) <= Score(d, t)
<1> DEFINE a == WaitingKey(d, t)
           b == WaitingKey(c, t)
<1>1. Score(c, t) \in Int /\ Score(d, t) \in Int
  BY AgeType
<1>2. /\ a[2] = -Score(d, t) /\ b[2] = -Score(c, t) /\ b[1] = 0
      /\ a[1] \in {0, 1} /\ DOMAIN a = 1..4
  BY DEF WaitingKey, Flag
<1>3. PICK i \in DOMAIN a : a[i] < b[i] /\ \A j \in 1..(i - 1) : a[j] = b[j]
  <2>1. Precedes(a, b)
    OBVIOUS
  <2> HIDE DEF a, b
  <2> QED BY <2>1 DEF Precedes
<1> HIDE DEF a, b
<1>4. CASE i = 1
  BY <1>2, <1>3, <1>4
<1>5. CASE i = 2
  BY <1>1, <1>2, <1>3, <1>5
<1>6. CASE i \in {3, 4}
  <2>1. 2 \in 1..(i - 1)
    BY <1>6
  <2>2. a[2] = b[2]
    BY <1>3, <2>1
  <2> QED BY <1>1, <1>2, <2>2
<1> QED BY <1>2, <1>3, <1>4, <1>5, <1>6

-----------------------------------------------------------------------------
(* The inductive invariant *)

Specification == [arrival : Arrivals, prompt : Prompts, output : Outputs, priority : Priorities]

WorkOK ==
    /\ trace \in [Requests -> Specification]
    /\ prefillLeft \in [Requests -> Nat] /\ decodeLeft \in [Requests -> Nat]
    /\ now \in Nat /\ waitingSince \in [Requests -> Nat]
    /\ lastProgress \in [Requests -> Int]

PolicyOK ==
    /\ budget \in MinBudget..MaxBudget /\ limit \in MinAdmitted..MaxAdmitted
    /\ ~Adaptive => limit = MaxAdmitted

(* Within the limit, except that a lower one is not carried out at once. *)
AdmittedOK ==
    /\ admitted \subseteq Arrived
    /\ pc # "admit" => Cardinality(admitted) <= limit
    /\ pc = "admit" => Cardinality(admitted) <= limit + AdmissionStep
    /\ pc = "decode" => admitted # {}

RecentOK == recent \in Seq(0..(MaxPreemptions + AdmissionStep))

(* A decision was made for the work that is there. *)
DecisionOK ==
    pc \in {"admit", "decode", "prefill"} =>
        /\ decision.limit = limit
        /\ decision.decode \in Nat /\ decision.prefill \in Nat
        /\ decision.total = decision.decode + decision.prefill /\ decision.total >= 2
        /\ pc # "prefill" => /\ Arrived # {}
                             /\ Prefilling(Arrived) # {} => decision.prefill >= 1

(* What the stages spent and may spend is within the budget, and as long as  *)
(* nothing is spent the prefill stage has somebody to spend it on.            *)
QueueOK ==
    /\ DOMAIN queue = {"order", "served"}
    /\ \E n \in Nat : DOMAIN queue.order = 1..n
    /\ \A i \in DOMAIN queue.order : queue.order[i] \in Requests

SpentOK ==
    /\ DOMAIN used = {"decode", "prefill"}
    /\ used.decode \in Nat /\ used.prefill \in Nat /\ pool \in Nat
    /\ pc = "prefill" =>
          /\ used.decode + used.prefill + pool <= decision.total
          /\ \/ used.decode + used.prefill > 0
             \/ /\ pool > 0
                /\ \E i \in DOMAIN queue.order : prefillLeft[queue.order[i]] > 0

PcOK == pc \in {"loop", "admit", "decode", "prefill", "done", "limit"}

IInv == WorkOK /\ PolicyOK /\ AdmittedOK /\ RecentOK /\ DecisionOK /\ QueueOK /\ SpentOK /\ PcOK

-----------------------------------------------------------------------------
(* What the loop hands to the policy and the controller *)

LEMMA RequestsFinite == IsFiniteSet(Requests) /\ Requests \subseteq Int
<1>1. IsFiniteSet(1..Trace)
  BY SimulationAssumption, FS_Interval
<1> QED BY <1>1 DEF Requests

LEMMA TraceFields ==
    ASSUME WorkOK, NEW r \in Requests
    PROVE  /\ trace[r].arrival \in Nat /\ trace[r].priority \in Nat
           /\ trace[r].prompt \in Nat \ {0} /\ trace[r].output \in Nat \ {0}
<1>1. trace[r] \in Specification
  BY DEF WorkOK
<1>2. /\ trace[r].arrival \in Arrivals /\ trace[r].priority \in Priorities
      /\ trace[r].prompt \in Prompts /\ trace[r].output \in Outputs
  BY <1>1 DEF Specification
<1> QED BY <1>2, SimulationAssumption

LEMMA CandidatesProper ==
    ASSUME WorkOK, NEW S, S \subseteq Requests
    PROVE  /\ Proper(Candidates(S)) /\ IsFiniteSet(Candidates(S))
           /\ Cardinality(Candidates(S)) = Cardinality(S)
<1> DEFINE f == [r \in S |-> Candidate(r)]
<1>1. \A r \in S : Candidate(r).order = r
  BY DEF Candidate
<1>2. \A r \in S : /\ Candidate(r).arrival \in Int /\ Candidate(r).priority \in Int
                   /\ Candidate(r).waitingSince \in Int /\ Candidate(r).lastProgress \in Int
                   /\ Candidate(r).service \in Int
  BY TraceFields DEF Candidate, Service, WorkOK
<1>3. Proper(Candidates(S))
  BY <1>1, <1>2, RequestsFinite DEF Proper, Candidates
<1>4. IsFiniteSet(S)
  BY RequestsFinite, FS_Subset
<1>5. f \in Surjection(S, Candidates(S))
  <2>1. f \in [S -> Candidates(S)] /\ \A c \in Candidates(S) : \E r \in S : f[r] = c
    BY DEF Candidates
  <2> HIDE DEF f
  <2> QED BY <2>1, Fun_IsSurj
<1>6. f \in Injection(S, Candidates(S))
  <2>1. f \in [S -> Candidates(S)] /\ \A a, b \in S : f[a] = f[b] => a = b
    BY <1>1 DEF Candidates
  <2> HIDE DEF f
  <2> QED BY <2>1, Fun_IsInj
<1>7. IsFiniteSet(Candidates(S)) /\ Cardinality(Candidates(S)) = Cardinality(S)
  <2> HIDE DEF f
  <2> QED BY <1>4, <1>5, <1>6, FS_Surjection
<1> QED BY <1>3, <1>7

LEMMA OrdersCount ==
    ASSUME NEW C, IsFiniteSet(C), Proper(C)
    PROVE  Cardinality(Orders(C)) = Cardinality(C)
<1> DEFINE f == [c \in C |-> c.order]
<1>1. f \in Surjection(C, Orders(C))
  <2>1. f \in [C -> Orders(C)] /\ \A r \in Orders(C) : \E c \in C : f[c] = r
    BY DEF Orders
  <2> HIDE DEF f
  <2> QED BY <2>1, Fun_IsSurj
<1>2. f \in Injection(C, Orders(C))
  <2>1. f \in [C -> Orders(C)] /\ \A a, b \in C : f[a] = f[b] => a = b
    BY DEF Orders, Proper
  <2> HIDE DEF f
  <2> QED BY <2>1, Fun_IsInj
<1> HIDE DEF f
<1> QED BY <1>1, <1>2, FS_Surjection

(* Candidates stand for their requests. *)
LEMMA OrdersOfCandidates ==
    ASSUME NEW S
    PROVE  /\ Orders(Candidates(S)) = S
           /\ \A C : C \subseteq Candidates(S) => Orders(C) \subseteq S
           /\ \A C, D : C \subseteq Candidates(S) /\ D \subseteq Candidates(S) =>
                 Orders(C \ D) = Orders(C) \ Orders(D)
<1>1. \A r \in S : Candidate(r).order = r
  BY DEF Candidate
<1>2. \A c \in Candidates(S) : c.order \in S /\ c = Candidate(c.order)
  BY <1>1 DEF Candidates
<1>3. Orders(Candidates(S)) = S
  BY <1>1 DEF Orders, Candidates
<1>4. \A C : C \subseteq Candidates(S) => Orders(C) \subseteq S
  BY <1>2 DEF Orders
<1>5. ASSUME NEW C, NEW D, C \subseteq Candidates(S), D \subseteq Candidates(S)
      PROVE  Orders(C \ D) = Orders(C) \ Orders(D)
  <2>1. \A c \in C, d \in D : c.order = d.order => c = d
    BY <1>2, <1>5
  <2> QED BY <2>1 DEF Orders
<1> QED BY <1>3, <1>4, <1>5

LEMMA OrdersOfUnion == \A C, D : Orders(C \cup D) = Orders(C) \cup Orders(D)
BY DEF Orders

(* The requests a stage serves, and in which order. *)
LEMMA ServiceRanks ==
    ASSUME WorkOK, NEW S, S \subseteq Requests
    PROVE  /\ DOMAIN ByService(S) = 1..Cardinality(S) /\ Cardinality(S) \in Nat
           /\ \A i \in DOMAIN ByService(S) : ByService(S)[i] \in S
<1> DEFINE R == {p \in S \X S : Precedes(ServiceKey(Candidate(p[1]), now),
                                         ServiceKey(Candidate(p[2]), now))}
<1>1. IsFiniteSet(S)
  BY RequestsFinite, FS_Subset
<1>2. StrictOrder(S, R)
  <2>1. PICK Q : Q = {p \in Candidates(S) \X Candidates(S) :
                        Precedes(ServiceKey(p[1], now), ServiceKey(p[2], now))}
    OBVIOUS
  <2>2. StrictOrder(Candidates(S), Q)
    BY <2>1, CandidatesProper, ServiceOrder DEF WorkOK
  <2>3. \A q, r \in S : <<q, r>> \in R <=> <<Candidate(q), Candidate(r)>> \in Q
    BY <2>1 DEF Candidates
  <2>4. \A q, r \in S : q # r => Candidate(q) # Candidate(r)
    BY DEF Candidate
  <2>5. \A r \in S : Candidate(r) \in Candidates(S)
    BY DEF Candidates
  <2> HIDE DEF R
  <2> QED BY <2>2, <2>3, <2>4, <2>5 DEF StrictOrder
<1>3. \A k \in 0..(Cardinality(S) - 1) : \E c \in S : Rank(S, R, c) = k
  <2> HIDE DEF R
  <2> QED BY <1>1, <1>2, RankIsOnto
<1>4. \A r \in S : Below(S, R, r) = {q \in S : Precedes(ServiceKey(Candidate(q), now),
                                                       ServiceKey(Candidate(r), now))}
  BY DEF Below
<1>5. Cardinality(S) \in Nat
  BY <1>1, FS_CardinalityType
<1>6. DOMAIN ByService(S) = 1..Cardinality(S)
  BY DEF ByService
<1>7. ASSUME NEW i \in 1..Cardinality(S) PROVE ByService(S)[i] \in S
  <2>1. ByService(S)[i] =
          CHOOSE r \in S : Cardinality({q \in S : Precedes(ServiceKey(Candidate(q), now),
                                             ServiceKey(Candidate(r), now))}) = i - 1
    BY <1>7 DEF ByService
  <2>2. i - 1 \in 0..(Cardinality(S) - 1)
    BY <1>5, <1>7
  <2>3. \E r \in S : Cardinality(Below(S, R, r)) = i - 1
    BY <1>3, <2>2 DEF Rank
  <2>4. \E r \in S : Cardinality({q \in S : Precedes(ServiceKey(Candidate(q), now),
                                              ServiceKey(Candidate(r), now))}) = i - 1
    BY <1>4, <2>3
  <2> QED BY <2>1, <2>4
<1> QED BY <1>5, <1>6, <1>7

-----------------------------------------------------------------------------
(* Every step keeps it *)

LEMMA ArrivedFinite == Arrived \subseteq Requests /\ IsFiniteSet(Arrived)
BY RequestsFinite, FS_Subset DEF Arrived

LEMMA InitIInv == Init => IInv
<1> SUFFICES ASSUME Init PROVE IInv
  OBVIOUS
<1>1. WorkOK
  <2>1. trace \in [Requests -> Specification]
    BY DEF Init, Specification
  <2>2. \A r \in Requests : trace[r] \in Specification
    BY <2>1
  <2>3. \A r \in Requests : /\ trace[r].prompt \in Nat /\ trace[r].output \in Nat
                            /\ trace[r].arrival \in Nat
    BY <2>2, SimulationAssumption DEF Specification
  <2> QED BY <2>1, <2>3 DEF Init, WorkOK, Never
<1>2. PolicyOK
  BY PolicyAssumption DEF Init, PolicyInit, PolicyOK, ConfigAccepted
<1>3. AdmittedOK
  <2>1. Cardinality(admitted) = 0 /\ admitted = {}
    BY FS_EmptySet DEF Init
  <2>2. limit \in Nat
    BY <1>2, PolicyAssumption DEF PolicyOK, ConfigAccepted
  <2>3. pc = "loop"
    BY DEF Init
  <2> QED BY <2>1, <2>2, <2>3 DEF AdmittedOK
<1>4. RecentOK /\ DecisionOK /\ PcOK
  BY DEF Init, RecentOK, DecisionOK, PcOK
<1>5. QueueOK
  <2>1. DOMAIN queue = {"order", "served"} /\ queue.order = << >>
    BY DEF Init, NoQueue
  <2>2. DOMAIN queue.order = 1..0
    BY <2>1
  <2> QED BY <2>1, <2>2 DEF QueueOK
<1>6. SpentOK
  BY DEF Init, SpentOK, NothingUsed
<1> QED BY <1>1, <1>2, <1>3, <1>4, <1>5, <1>6 DEF IInv

(* A run that ends, or waits for an arrival, has nothing in hand. *)
LEMMA EndingKeeps ==
    ASSUME IInv, Finish \/ GiveUp
    PROVE  IInv'
<1>1. /\ UNCHANGED <<budget, limit, decision, trace, now, prefillLeft, decodeLeft, admitted,
                     waitingSince, lastProgress, recent, used, pool, queue>>
      /\ pc = "loop" /\ pc' \in {"done", "limit"}
  BY DEF Finish, GiveUp, policyVars, clock, work, marks
<1>2. WorkOK' /\ PolicyOK' /\ RecentOK' /\ QueueOK'
  BY <1>1 DEF IInv, WorkOK, PolicyOK, RecentOK, QueueOK
<1>3. AdmittedOK'
  BY <1>1 DEF IInv, AdmittedOK, Arrived, Complete
<1>4. DecisionOK' /\ SpentOK' /\ PcOK'
  BY <1>1 DEF IInv, DecisionOK, SpentOK, PcOK
<1> QED BY <1>2, <1>3, <1>4 DEF IInv

LEMMA ArrivalsFinite == IsFiniteSet({trace[r].arrival : r \in {q \in Requests : ~Complete(q)}})
<1> DEFINE Q == {q \in Requests : ~Complete(q)}
           T == {trace[r].arrival : r \in Q}
           f == [r \in Q |-> trace[r].arrival]
<1>1. IsFiniteSet(Q)
  BY RequestsFinite, FS_Subset
<1>2. f \in [Q -> T] /\ \A a \in T : \E r \in Q : f[r] = a
  OBVIOUS
<1>3. f \in Surjection(Q, T)
  <2> HIDE DEF f, Q, T
  <2> QED BY <1>2, Fun_IsSurj
<1>4. IsFiniteSet(T)
  <2> HIDE DEF f, Q, T
  <2> QED BY <1>1, <1>3, FS_Surjection
<1> QED BY <1>4

LEMMA JumpKeeps ==
    ASSUME IInv, Jump
    PROVE  IInv'
<1>1. /\ UNCHANGED <<budget, limit, decision, trace, prefillLeft, decodeLeft, admitted, pc,
                     waitingSince, lastProgress, recent, used, pool, queue>>
      /\ pc = "loop"
  BY DEF Jump, policyVars, work, marks
<1>2. now' \in Nat
  <2> DEFINE T == {trace[r].arrival : r \in {q \in Requests : ~Complete(q)}}
  <2>1. \A r \in Requests : trace[r].arrival \in Nat
    BY TraceFields DEF IInv
  <2>2. T \subseteq Int /\ T \subseteq Nat /\ T # {}
    BY <2>1 DEF Jump
  <2>3. IsFiniteSet(T)
    BY ArrivalsFinite
  <2>4. now' = Min(T)
    BY DEF Jump
  <2> HIDE DEF T
  <2>5. Min(T) \in T
    BY <2>2, <2>3, MinIsLeast
  <2> QED BY <2>2, <2>4, <2>5
<1>3. WorkOK' /\ PolicyOK' /\ RecentOK' /\ QueueOK'
  BY <1>1, <1>2 DEF IInv, WorkOK, PolicyOK, RecentOK, QueueOK
<1>4. AdmittedOK'
  <2>1. admitted = {}
    BY DEF IInv, AdmittedOK, Jump
  <2> QED BY <1>1, <2>1 DEF IInv, AdmittedOK
<1>5. DecisionOK' /\ SpentOK' /\ PcOK'
  BY <1>1 DEF IInv, DecisionOK, SpentOK, PcOK
<1> QED BY <1>3, <1>4, <1>5 DEF IInv

LEMMA SplitOfTotal ==
    ASSUME NEW base \in Nat, base >= 2, NEW s, s.decode \in Nat, s.prefill \in Nat,
           s.available = AvailableBudget, NEW target \in Int, NEW most, NEW changed,
           NEW d, d = Decision(Capped(base, s), s, target, most, changed)
    PROVE  /\ d.limit = most /\ d.decode \in Nat /\ d.prefill \in Nat
           /\ d.total = d.decode + d.prefill /\ d.total >= 2
           /\ s.prefill > 0 => d.prefill >= 1
<1> DEFINE total == Capped(base, s)
<1>1. total \in Nat /\ total >= 2
  BY SimulationAssumption DEF Capped, Least, NoCap
<1>2. /\ DecodeOf(total, s, target) \in 0..total
      /\ s.prefill > 0 => total - DecodeOf(total, s, target) >= 1
  <2> HIDE DEF total
  <2>1. total \in Nat \ {0}
    BY <1>1
  <2>2. \A n \in Nat \ {0} :
          /\ DecodeOf(n, s, target) \in 0..n
          /\ n >= 2 => (s.prefill > 0 => n - DecodeOf(n, s, target) >= 1)
    BY SplitIsFair
  <2> QED BY <1>1, <2>1, <2>2
<1>3. /\ d.total = total /\ d.decode = DecodeOf(total, s, target)
      /\ d.prefill = total - DecodeOf(total, s, target) /\ d.limit = most
  BY DEF Decision
<1> HIDE DEF total
<1> QED BY <1>1, <1>2, <1>3

LEMMA DecideBounds ==
    ASSUME PolicyOK, NEW s, s.decode \in Nat, s.prefill \in Nat,
           s.available = AvailableBudget, Decide(s)
    PROVE  /\ PolicyOK' /\ limit' >= limit - AdmissionStep
           /\ decision'.limit = limit'
           /\ decision'.decode \in Nat /\ decision'.prefill \in Nat
           /\ decision'.total = decision'.decode + decision'.prefill
           /\ decision'.total >= 2
           /\ s.prefill > 0 => decision'.prefill >= 1
<1>1. /\ {MinBudget, MaxBudget, MinAdmitted, MaxAdmitted, AdmissionStep} \subseteq Nat
      /\ 2 <= MinBudget /\ Adaptive \in BOOLEAN
  BY PolicyAssumption DEF ConfigAccepted
<1>2. CASE ~Adaptive
  <2>1. /\ decision' = Decision(Capped(budget, s), s, s.decode, MaxAdmitted, FALSE)
        /\ budget' = budget /\ limit' = limit
    BY <1>2 DEF Decide, DecideFixed
  <2>2. budget \in Nat /\ budget >= 2 /\ s.decode \in Int /\ limit = MaxAdmitted
    BY <1>1, <1>2 DEF PolicyOK
  <2>3. /\ decision'.limit = MaxAdmitted
        /\ decision'.decode \in Nat /\ decision'.prefill \in Nat
        /\ decision'.total = decision'.decode + decision'.prefill
        /\ decision'.total >= 2
        /\ s.prefill > 0 => decision'.prefill >= 1
    <3>1. PICK d : d = decision'
      OBVIOUS
    <3>2. d = Decision(Capped(budget, s), s, s.decode, MaxAdmitted, FALSE)
      BY <2>1, <3>1
    <3>3. /\ d.limit = MaxAdmitted /\ d.decode \in Nat /\ d.prefill \in Nat
          /\ d.total = d.decode + d.prefill /\ d.total >= 2
          /\ s.prefill > 0 => d.prefill >= 1
      <4>1. \A base \in Nat, target \in Int : \A most, changed :
              base >= 2 /\ d = Decision(Capped(base, s), s, target, most, changed) =>
                 /\ d.limit = most /\ d.decode \in Nat /\ d.prefill \in Nat
                 /\ d.total = d.decode + d.prefill /\ d.total >= 2
                 /\ s.prefill > 0 => d.prefill >= 1
        BY SplitOfTotal
      <4> QED BY <2>2, <3>2, <4>1
    <3> QED BY <3>1, <3>3
  <2>4. PolicyOK' /\ limit' >= limit - AdmissionStep
    BY <2>1, <1>1 DEF PolicyOK
  <2> QED BY <2>1, <2>2, <2>3, <2>4
<1>3. CASE Adaptive
  <2> DEFINE next == BudgetAfter(DesiredDirection(s))
             total == Capped(next, s)
  <2>1. /\ decision' = Decision(total, s, DecodeTarget(total, s), LimitAfter(s), next # budget)
        /\ budget' = next /\ limit' = LimitAfter(s)
    BY <1>3 DEF Decide, DecideAdaptive
  <2>2. next \in MinBudget..MaxBudget
    BY DirectionType, BudgetStaysBounded DEF PolicyOK
  <2>3. next \in Nat /\ next >= 2
    <3> HIDE DEF next
    <3> QED BY <1>1, <2>2
  <2>4. total \in Int
    <3> HIDE DEF next
    <3> QED BY <2>3, SimulationAssumption DEF Capped, Least
  <2>5. DecodeTarget(total, s) \in Int
    <3> HIDE DEF next, total
    <3> QED BY <2>4, TargetType
  <2>6. LimitAfter(s) \in MinAdmitted..MaxAdmitted /\ LimitAfter(s) >= limit - AdmissionStep
    <3>1. LimitAfter(s) \in MinAdmitted..MaxAdmitted
      BY LimitStaysBounded DEF PolicyOK
    <3> QED BY <1>1, <3>1 DEF PolicyOK, LimitAfter, Least, Greatest
  <2>7. /\ decision'.limit = LimitAfter(s)
        /\ decision'.decode \in Nat /\ decision'.prefill \in Nat
        /\ decision'.total = decision'.decode + decision'.prefill
        /\ decision'.total >= 2
        /\ s.prefill > 0 => decision'.prefill >= 1
    <3> HIDE DEF next
    <3> QED BY <2>1, <2>3, <2>5, SplitOfTotal
  <2>8. PolicyOK'
    BY <2>1, <2>2, <2>6, <1>3 DEF PolicyOK
  <2> QED BY <2>1, <2>6, <2>7, <2>8
<1> QED BY <1>1, <1>2, <1>3

LEMMA DecideKeeps ==
    ASSUME IInv, DecideBudget
    PROVE  IInv'
<1>1. /\ UNCHANGED <<trace, now, prefillLeft, decodeLeft, admitted,
                     waitingSince, lastProgress, recent, used, pool, queue>>
      /\ pc = "loop" /\ pc' = "admit" /\ Arrived # {}
  BY DEF DecideBudget, clock, work, marks
<1>2. PICK ttft, tpot : Decide(SignalsNow(ttft, tpot))
  BY DEF DecideBudget
<1> DEFINE s == SignalsNow(ttft, tpot)
<1>3. /\ s.decode \in Nat /\ s.prefill = Cardinality(Prefilling(Arrived))
      /\ s.available = AvailableBudget
  <2>1. IsFiniteSet(Decoding(Arrived))
    BY ArrivedFinite, FS_Subset DEF Decoding
  <2>2. Cardinality(Decoding(Arrived)) \in Nat
    BY <2>1, FS_CardinalityType
  <2> QED BY <2>2 DEF SignalsNow
<1>4. IsFiniteSet(Prefilling(Arrived)) /\ s.prefill \in Nat
      /\ (Prefilling(Arrived) # {} => s.prefill > 0)
  <2>1. IsFiniteSet(Prefilling(Arrived))
    BY ArrivedFinite, FS_Subset DEF Prefilling
  <2>2. Cardinality(Prefilling(Arrived)) \in Nat
        /\ (Prefilling(Arrived) # {} => Cardinality(Prefilling(Arrived)) # 0)
    BY <2>1, FS_CardinalityType, FS_EmptySet
  <2> HIDE DEF s
  <2> QED BY <1>3, <2>1, <2>2
<1>5. /\ PolicyOK' /\ limit' >= limit - AdmissionStep
      /\ decision'.limit = limit'
      /\ decision'.decode \in Nat /\ decision'.prefill \in Nat
      /\ decision'.total = decision'.decode + decision'.prefill
      /\ decision'.total >= 2
      /\ s.prefill > 0 => decision'.prefill >= 1
  <2>1. Decide(s) /\ PolicyOK
    BY <1>2 DEF IInv
  <2> HIDE DEF s
  <2> QED BY <2>1, <1>3, <1>4, DecideBounds
<1> HIDE DEF s
<1>6. WorkOK' /\ RecentOK' /\ QueueOK'
  BY <1>1 DEF IInv, WorkOK, RecentOK, QueueOK
<1>7. Arrived' = Arrived /\ Prefilling(Arrived)' = Prefilling(Arrived)
  BY <1>1 DEF Arrived, Complete, Prefilling
<1>8. AdmittedOK'
  <2>1. Cardinality(admitted) <= limit /\ admitted \subseteq Arrived
    BY <1>1 DEF IInv, AdmittedOK
  <2>2. limit \in Nat /\ limit' \in Nat /\ AdmissionStep \in Nat
        /\ Cardinality(admitted) \in Nat
    <3>1. Cardinality(admitted) \in Nat
      BY <2>1, ArrivedFinite, FS_Subset, FS_CardinalityType
    <3> QED BY <3>1, <1>5, PolicyAssumption DEF IInv, PolicyOK, ConfigAccepted
  <2> QED BY <1>1, <1>5, <1>7, <2>1, <2>2 DEF AdmittedOK
<1>9. DecisionOK'
  BY <1>1, <1>4, <1>5, <1>7 DEF DecisionOK
<1>10. SpentOK' /\ PcOK'
  BY <1>1 DEF IInv, SpentOK, PcOK
<1> QED BY <1>5, <1>6, <1>8, <1>9, <1>10 DEF IInv

LEMMA AdmitKeeps ==
    ASSUME IInv, Admit
    PROVE  IInv'
<1> DEFINE W == Candidates(Arrived \ admitted)
           A == Candidates(admitted)
<1>1. /\ UNCHANGED <<budget, limit, decision, trace, now, prefillLeft, decodeLeft,
                     lastProgress, used, pool, queue>>
      /\ pc = "admit" /\ pc' = "decode"
  BY DEF Admit, policyVars, clock, work, marks
<1>2. PICK D : /\ D = AdmissionDecision(W, A, now, decision.limit)
               /\ waitingSince' = [r \in Requests |->
                      IF r \in Orders(D.preempt) THEN now ELSE waitingSince[r]]
               /\ admitted' = (admitted \ Orders(D.preempt)) \cup Orders(D.admit)
               /\ recent' = LET w == Append(recent, Cardinality(Orders(D.preempt)))
                            IN  IF Len(w) > SignalWindow THEN Tail(w) ELSE w
  BY DEF Admit
<1> DEFINE N == (A \ D.preempt) \cup D.admit
<1>3. /\ now \in Int /\ decision.limit = limit /\ limit \in Nat \ {0}
      /\ admitted \subseteq Arrived /\ Arrived # {} /\ Arrived \subseteq Requests
      /\ AdmissionStep \in Nat /\ MaxPreemptions \in Nat
      /\ Cardinality(admitted) \in Nat /\ Cardinality(admitted) <= limit + AdmissionStep
  <2>1. admitted \subseteq Arrived /\ Arrived # {} /\ now \in Int /\ decision.limit = limit
        /\ Cardinality(admitted) <= limit + AdmissionStep
    BY <1>1 DEF IInv, AdmittedOK, DecisionOK, WorkOK
  <2>2. Cardinality(admitted) \in Nat
    BY <2>1, ArrivedFinite, FS_Subset, FS_CardinalityType
  <2>3. limit \in Nat \ {0}
    BY PolicyAssumption DEF ConfigAccepted, IInv, PolicyOK
  <2>4. AdmissionStep \in Nat /\ MaxPreemptions \in Nat
    BY PolicyAssumption, AdmissionAssumption DEF ConfigAccepted
  <2> QED BY <2>1, <2>2, <2>3, <2>4, ArrivedFinite
<1>4. /\ Proper(W) /\ IsFiniteSet(W) /\ Proper(A) /\ IsFiniteSet(A)
      /\ Cardinality(A) = Cardinality(admitted)
  BY <1>3, CandidatesProper DEF IInv
<1>5. /\ D.admit \subseteq W /\ D.preempt \subseteq A
      /\ Cardinality(D.preempt) <= Greatest(0, Cardinality(A) - limit) + MaxPreemptions
      /\ IsFiniteSet(N) /\ Cardinality(N) <= limit
      /\ W \cup A # {} => N # {}
  <2>1. D = AdmissionDecision(W, A, now, limit)
    BY <1>2, <1>3
  <2> HIDE DEF W, A
  <2>2. \A most \in Nat \ {0} : D = AdmissionDecision(W, A, now, most) =>
          /\ D.admit \subseteq W /\ D.preempt \subseteq A
          /\ Cardinality(D.preempt) <= Greatest(0, Cardinality(A) - most) + MaxPreemptions
          /\ IsFiniteSet((A \ D.preempt) \cup D.admit)
          /\ Cardinality((A \ D.preempt) \cup D.admit) <= most
          /\ W \cup A # {} => (A \ D.preempt) \cup D.admit # {}
    BY <1>3, <1>4, DecisionKeepsLimit
  <2> QED BY <1>3, <2>1, <2>2
<1>6. IsFiniteSet(D.preempt) /\ Proper(D.preempt) /\ Proper(N)
  <2>1. N \subseteq Candidates(Arrived)
    BY <1>3, <1>5 DEF Candidates
  <2>2. Proper(Candidates(Arrived))
    BY <1>3, CandidatesProper DEF IInv
  <2>3. Proper(N)
    <3> HIDE DEF N
    <3> QED BY <2>1, <2>2 DEF Proper
  <2>4. Proper(D.preempt)
    <3> HIDE DEF A
    <3> QED BY <1>4, <1>5 DEF Proper
  <2>5. IsFiniteSet(D.preempt)
    <3> HIDE DEF A
    <3> QED BY <1>4, <1>5, FS_Subset
  <2> QED BY <2>3, <2>4, <2>5
<1>7. admitted' = Orders(N) /\ Orders(D.admit) \subseteq Arrived
  <2>1. Orders(A) = admitted /\ Orders(A \ D.preempt) = Orders(A) \ Orders(D.preempt)
    BY <1>5, OrdersOfCandidates
  <2>2. Orders(D.admit) \subseteq Arrived
    BY <1>5, OrdersOfCandidates
  <2>3. Orders(N) = Orders(A \ D.preempt) \cup Orders(D.admit)
    <3> HIDE DEF A
    <3> QED BY OrdersOfUnion
  <2> HIDE DEF A, N
  <2> QED BY <1>2, <2>1, <2>2, <2>3
<1>8. Cardinality(admitted') <= limit
  <2> HIDE DEF N
  <2> QED BY <1>5, <1>6, <1>7, OrdersCount
<1>9. admitted' # {}
  <2>1. W \cup A # {}
    BY <1>3 DEF Candidates
  <2> HIDE DEF W, A, N
  <2> QED BY <1>5, <1>7, <2>1 DEF Orders
<1>10. Cardinality(Orders(D.preempt)) \in 0..(MaxPreemptions + AdmissionStep)
  <2>1. Cardinality(Orders(D.preempt)) = Cardinality(D.preempt)
    BY <1>6, OrdersCount
  <2>2. Cardinality(D.preempt) \in Nat
    BY <1>6, FS_CardinalityType
  <2> HIDE DEF A
  <2> QED BY <1>3, <1>4, <1>5, <2>1, <2>2 DEF Greatest
<1> HIDE DEF W, A, N
<1>11. WorkOK'
  BY <1>1, <1>2 DEF IInv, WorkOK
<1>12. RecentOK'
  <2> DEFINE w == Append(recent, Cardinality(Orders(D.preempt)))
  <2>1. w \in Seq(0..(MaxPreemptions + AdmissionStep)) /\ w # << >>
    BY <1>10 DEF IInv, RecentOK
  <2>2. recent' = w \/ recent' = Tail(w)
    BY <1>2
  <2> HIDE DEF w
  <2> QED BY <2>1, <2>2 DEF RecentOK
<1>13. PolicyOK' /\ QueueOK' /\ SpentOK' /\ PcOK'
  BY <1>1 DEF IInv, PolicyOK, QueueOK, SpentOK, PcOK
<1>14. Arrived' = Arrived /\ Prefilling(Arrived)' = Prefilling(Arrived)
  BY <1>1 DEF Arrived, Complete, Prefilling
<1>15. AdmittedOK'
  <2>1. admitted' \subseteq Arrived
    BY <1>2, <1>3, <1>7
  <2> QED BY <1>1, <1>8, <1>9, <1>14, <2>1 DEF AdmittedOK
<1>16. DecisionOK'
  BY <1>1, <1>14 DEF IInv, DecisionOK
<1> QED BY <1>11, <1>12, <1>13, <1>15, <1>16 DEF IInv

(* A stage serves some of whom it is asked to serve, as many as it can pay. *)
LEMMA ServedOf ==
    ASSUME WorkOK, NEW S, S \subseteq Requests, NEW n \in Nat,
           NEW served, served = Orders(FirstServed(Candidates(S), n, now))
    PROVE  /\ served \subseteq S /\ Cardinality(served) \in Nat
           /\ Cardinality(served) <= n
           /\ S # {} /\ n > 0 => Cardinality(served) > 0
<1> DEFINE C == Candidates(S)
           F == FirstServed(C, n, now)
<1>1. Proper(C) /\ IsFiniteSet(C) /\ Cardinality(C) = Cardinality(S)
  BY CandidatesProper
<1>2. /\ F \subseteq C /\ IsFiniteSet(F) /\ Cardinality(F) = Count(n, C)
      /\ Cardinality(C) \in Nat
  <2> HIDE DEF C
  <2> QED BY <1>1, ServedCount, FS_CardinalityType DEF WorkOK
<1>3. Orders(F) \subseteq S
  <2> HIDE DEF F
  <2> QED BY <1>2, OrdersOfCandidates
<1>4. Cardinality(Orders(F)) = Cardinality(F)
  <2>1. Proper(F)
    <3> HIDE DEF C, F
    <3> QED BY <1>1, <1>2 DEF Proper
  <2> HIDE DEF F
  <2> QED BY <1>2, <2>1, OrdersCount
<1>5. S # {} => Cardinality(C) # 0
  <2>1. IsFiniteSet(S)
    BY RequestsFinite, FS_Subset
  <2> HIDE DEF C
  <2> QED BY <1>1, <2>1, FS_EmptySet
<1>6. served = Orders(F)
  OBVIOUS
<1> HIDE DEF C, F
<1> QED BY <1>2, <1>3, <1>4, <1>5, <1>6 DEF Count

LEMMA DecodeKeeps ==
    ASSUME IInv, Decode
    PROVE  IInv'
<1> DEFINE S        == Decoding(admitted)
           P        == Prefilling(admitted)
           capacity == decision.decode + (IF P = {} THEN decision.prefill ELSE 0)
<1>1. /\ UNCHANGED <<budget, limit, decision, trace, now, prefillLeft, waitingSince, recent>>
      /\ pc = "decode" /\ pc' = "prefill"
      /\ queue' = [order |-> ByService(P), served |-> {}]
  BY DEF Decode, policyVars, clock
<1>2. PICK served : /\ served = Orders(FirstServed(Candidates(S), capacity, now))
                    /\ decodeLeft' = [r \in Requests |->
                           decodeLeft[r] - (IF r \in served THEN 1 ELSE 0)]
                    /\ admitted' = admitted \ Leavers(served)
                    /\ Progress(served)
                    /\ used' = [decode |-> Cardinality(served), prefill |-> 0]
                    /\ pool' = IF P = {} THEN 0 ELSE PrefillPool(Cardinality(served))
  BY DEF Decode
<1>3. /\ admitted \subseteq Arrived /\ Arrived \subseteq Requests /\ admitted # {}
      /\ Cardinality(admitted) <= limit /\ decision.limit = limit
      /\ decision.decode \in Nat /\ decision.prefill \in Nat
      /\ decision.total = decision.decode + decision.prefill /\ decision.total >= 2
      /\ Prefilling(Arrived) # {} => decision.prefill >= 1
  BY <1>1, ArrivedFinite DEF IInv, AdmittedOK, DecisionOK
<1>4. S \subseteq Requests /\ P \subseteq Requests /\ S \cup P = admitted
      /\ (P # {} => decision.prefill >= 1)
  <2>1. \A r \in admitted : prefillLeft[r] \in Nat /\ ~Complete(r)
    BY <1>3 DEF IInv, WorkOK, Arrived
  <2> QED BY <1>3, <2>1 DEF Decoding, Prefilling
<1>5. capacity \in Nat
  <2> HIDE DEF P
  <2> QED BY <1>3
<1>6. /\ served \subseteq S /\ Cardinality(served) \in Nat
      /\ Cardinality(served) <= capacity
      /\ S # {} /\ capacity > 0 => Cardinality(served) > 0
  <2> HIDE DEF S, capacity
  <2> QED BY <1>2, <1>4, <1>5, ServedOf DEF IInv
<1>7. \A r \in served : decodeLeft[r] \in Nat \ {0}
  BY <1>4, <1>6 DEF Decoding, Complete, IInv, WorkOK
<1> HIDE DEF S
<1>8. WorkOK'
  <2>1. decodeLeft' \in [Requests -> Nat]
    <3>1. \A r \in Requests : decodeLeft[r] - (IF r \in served THEN 1 ELSE 0) \in Nat
      BY <1>7 DEF IInv, WorkOK
    <3> QED BY <1>2, <3>1
  <2>2. lastProgress' \in [Requests -> Int]
    <3>1. now + StepDuration \in Int
      BY SimulationAssumption DEF IInv, WorkOK
    <3> QED BY <1>2, <3>1 DEF Progress, IInv, WorkOK
  <2> QED BY <1>1, <2>1, <2>2 DEF IInv, WorkOK
<1>9. AdmittedOK'
  <2>1. admitted' \subseteq Arrived'
    <3> SUFFICES ASSUME NEW r \in admitted' PROVE r \in Arrived'
      OBVIOUS
    <3>1. r \in admitted /\ r \in Requests /\ trace[r].arrival <= now /\ decodeLeft[r] # 0
          /\ decodeLeft[r] \in Nat
      BY <1>2, <1>3 DEF Arrived, Complete, IInv, WorkOK
    <3>2. r \in served => decodeLeft[r] # 1
      BY <1>2 DEF Leavers
    <3>3. decodeLeft'[r] # 0
      BY <1>2, <3>1, <3>2
    <3> QED BY <1>1, <3>1, <3>3 DEF Arrived, Complete
  <2>2. Cardinality(admitted') <= limit
    <3>1. IsFiniteSet(admitted)
      BY <1>3, ArrivedFinite, FS_Subset
    <3>2. admitted' \in SUBSET admitted
      BY <1>2
    <3>3. Cardinality(admitted') <= Cardinality(admitted) /\ IsFiniteSet(admitted')
      BY <3>1, <3>2, FS_Subset
    <3>4. Cardinality(admitted') \in Nat /\ Cardinality(admitted) \in Nat
      BY <3>1, <3>3, FS_CardinalityType
    <3>5. limit \in Int
      BY DEF IInv, PolicyOK
    <3> QED BY <1>3, <3>3, <3>4, <3>5
  <2> QED BY <1>1, <2>1, <2>2 DEF AdmittedOK
<1>10. PolicyOK' /\ RecentOK' /\ DecisionOK' /\ PcOK'
  BY <1>1 DEF IInv, PolicyOK, RecentOK, DecisionOK, PcOK
<1>11. /\ DOMAIN ByService(P) = 1..Cardinality(P) /\ Cardinality(P) \in Nat
       /\ \A i \in DOMAIN ByService(P) : ByService(P)[i] \in P
  <2> HIDE DEF P
  <2> QED BY <1>4, ServiceRanks DEF IInv
<1>12. DOMAIN queue' = {"order", "served"} /\ queue'.order = ByService(P)
  BY <1>1
<1>13. QueueOK'
  <2> HIDE DEF P
  <2> QED BY <1>4, <1>11, <1>12 DEF QueueOK
<1>14. /\ DOMAIN used' = {"decode", "prefill"}
       /\ used'.decode = Cardinality(served) /\ used'.prefill = 0
  BY <1>2
<1>15. CASE P = {}
  <2>1. S # {} /\ capacity = decision.total
    BY <1>3, <1>4, <1>15
  <2>2. Cardinality(served) > 0 /\ Cardinality(served) <= decision.total /\ pool' = 0
    <3> HIDE DEF P, capacity
    <3> QED BY <1>2, <1>3, <1>6, <1>15, <2>1
  <2>3. SpentOK'
    <3> HIDE DEF P, capacity
    <3> QED BY <1>1, <1>3, <1>6, <1>14, <2>2 DEF SpentOK
  <2> QED BY <1>8, <1>9, <1>10, <1>13, <2>3 DEF IInv
<1>16. CASE P # {}
  <2>1. capacity = decision.decode /\ decision.prefill >= 1
    BY <1>3, <1>4, <1>16
  <2>2. pool' = decision.total - Cardinality(served) /\ pool' > 0 /\ pool' \in Nat
    <3>1. pool' = PrefillPool(Cardinality(served))
      BY <1>2, <1>16
    <3> HIDE DEF P, capacity
    <3> QED BY <1>3, <1>6, <2>1, <3>1 DEF PrefillPool, Greatest
  <2>3. \E i \in DOMAIN queue'.order : prefillLeft'[queue'.order[i]] > 0
    <3>1. Cardinality(P) # 0
      <4>1. IsFiniteSet(P)
        BY <1>4, RequestsFinite, FS_Subset
      <4> HIDE DEF P
      <4> QED BY <4>1, <1>16, FS_EmptySet
    <3>2. 1 \in DOMAIN ByService(P) /\ ByService(P)[1] \in P
      <4> HIDE DEF P
      <4> QED BY <3>1, <1>11
    <3>3. prefillLeft[ByService(P)[1]] > 0
      BY <3>2 DEF Prefilling
    <3> HIDE DEF P
    <3> QED BY <1>1, <1>12, <3>2, <3>3
  <2>4. SpentOK'
    <3> HIDE DEF P, capacity
    <3> QED BY <1>1, <1>3, <1>6, <1>14, <2>2, <2>3 DEF SpentOK
  <2> QED BY <1>8, <1>9, <1>10, <1>13, <2>4 DEF IInv
<1> QED BY <1>15, <1>16

LEMMA RoundFinite == IInv => IsFiniteSet(Round) /\ Round \subseteq Int
<1> SUFFICES ASSUME IInv PROVE IsFiniteSet(Round) /\ Round \subseteq Int
  OBVIOUS
<1>1. Round \subseteq DOMAIN queue.order
  BY DEF Round, Unserved
<1>2. PICK n \in Nat : DOMAIN queue.order = 1..n
  BY DEF IInv, QueueOK
<1>3. IsFiniteSet(1..n)
  BY FS_Interval
<1> QED BY <1>1, <1>2, <1>3, FS_Subset

LEMMA ChunkKeeps ==
    ASSUME IInv, Chunk
    PROVE  IInv'
<1> DEFINE i == Min(Round)
           r == queue.order[i]
           tokens == Min({prefillLeft[r], PrefillQuantum, pool})
<1>1. /\ UNCHANGED <<budget, limit, decision, trace, now, decodeLeft, admitted,
                     waitingSince, recent, pc>>
      /\ pc = "prefill" /\ pool > 0 /\ Round # {}
      /\ prefillLeft' = [prefillLeft EXCEPT ![r] = @ - tokens]
      /\ pool' = pool - tokens
      /\ used' = [used EXCEPT !.prefill = @ + tokens]
      /\ queue' = [queue EXCEPT !.served = IF Unserved = {} THEN {i} ELSE @ \cup {i}]
      /\ Progress({r})
  BY DEF Chunk, policyVars, clock
<1>2. i \in DOMAIN queue.order /\ r \in Requests /\ prefillLeft[r] > 0
  <2>1. Round \subseteq DOMAIN queue.order /\ \A k \in Round : prefillLeft[queue.order[k]] > 0
    BY DEF Round, Unserved
  <2>3. IsFiniteSet(Round) /\ Round \subseteq Int
    BY RoundFinite
  <2>4. i \in Round
    BY <1>1, <2>3, MinIsLeast
  <2> HIDE DEF i
  <2> QED BY <2>1, <2>4 DEF IInv, QueueOK
<1>3. /\ prefillLeft[r] \in Nat /\ PrefillQuantum \in Nat \ {0} /\ pool \in Nat
      /\ DOMAIN used = {"decode", "prefill"} /\ used.decode \in Nat /\ used.prefill \in Nat
      /\ used.decode + used.prefill + pool <= decision.total
      /\ decision.total \in Nat
  <2> HIDE DEF r
  <2> QED BY <1>1, <1>2, SimulationAssumption DEF IInv, WorkOK, SpentOK, DecisionOK
<1>4. tokens \in Nat \ {0} /\ tokens <= prefillLeft[r] /\ tokens <= pool
  <2> HIDE DEF r
  <2>1. /\ tokens \in {prefillLeft[r], PrefillQuantum, pool}
        /\ tokens <= prefillLeft[r] /\ tokens <= pool
    <3>1. prefillLeft[r] \in Int /\ PrefillQuantum \in Int /\ pool \in Int
      BY <1>3
    <3>2. \A a, b, c \in Int : /\ Min({a, b, c}) \in {a, b, c}
                               /\ Min({a, b, c}) <= a /\ Min({a, b, c}) <= c
      BY MinOfThree
    <3> QED BY <3>1, <3>2
  <2> HIDE DEF tokens
  <2> QED BY <1>1, <1>2, <1>3, <2>1
<1> HIDE DEF i, r, tokens
<1>5. WorkOK'
  <2>1. prefillLeft' \in [Requests -> Nat]
    BY <1>1, <1>2, <1>3, <1>4 DEF IInv, WorkOK
  <2>2. lastProgress' \in [Requests -> Int]
    <3>1. now + StepDuration \in Int
      BY SimulationAssumption DEF IInv, WorkOK
    <3> QED BY <1>1, <3>1 DEF Progress, IInv, WorkOK
  <2> QED BY <1>1, <2>1, <2>2 DEF IInv, WorkOK
<1>6. PolicyOK' /\ RecentOK' /\ DecisionOK' /\ PcOK'
  BY <1>1 DEF IInv, PolicyOK, RecentOK, DecisionOK, PcOK
<1>7. AdmittedOK'
  BY <1>1 DEF IInv, AdmittedOK, Arrived, Complete
<1>8. QueueOK'
  <2>1. DOMAIN queue = {"order", "served"}
    BY DEF IInv, QueueOK
  <2>2. DOMAIN queue' = {"order", "served"} /\ queue'.order = queue.order
    BY <1>1, <2>1
  <2> QED BY <2>2 DEF IInv, QueueOK
<1>9. SpentOK'
  <2>1. /\ DOMAIN used' = {"decode", "prefill"} /\ used'.decode = used.decode
        /\ used'.prefill = used.prefill + tokens
    BY <1>1, <1>3
  <2>2. pool' \in Nat /\ used'.prefill \in Nat /\ used'.prefill > 0
        /\ used'.decode + used'.prefill + pool' <= decision'.total
    BY <1>1, <1>3, <1>4, <2>1
  <2> QED BY <1>3, <2>1, <2>2 DEF SpentOK
<1> QED BY <1>5, <1>6, <1>7, <1>8, <1>9 DEF IInv

(* The record of a step takes the loop on: neither error can be raised. *)
LEMMA RecordAdvances ==
    ASSUME IInv, Record
    PROVE  /\ TotalUsed > 0 /\ TotalUsed <= decision.total /\ TotalUsed \in Nat
           /\ pc' = "loop" /\ now' = now + StepDuration
<1>1. pc = "prefill" /\ (pool = 0 \/ Round = {})
  BY DEF Record
<1>2. TotalUsed > 0 /\ TotalUsed <= decision.total /\ TotalUsed \in Nat
  <2>1. /\ used.decode \in Nat /\ used.prefill \in Nat /\ pool \in Nat
        /\ used.decode + used.prefill + pool <= decision.total /\ decision.total \in Nat
        /\ \/ used.decode + used.prefill > 0
           \/ /\ pool > 0
              /\ \E i \in DOMAIN queue.order : prefillLeft[queue.order[i]] > 0
    BY <1>1 DEF IInv, SpentOK, DecisionOK
  <2>2. (\E i \in DOMAIN queue.order : prefillLeft[queue.order[i]] > 0) => Round # {}
    BY DEF Round, Unserved
  <2> QED BY <1>1, <2>1, <2>2 DEF TotalUsed
<1>3. pc' = "loop" /\ now' = now + StepDuration
  <2>1. ~(TotalUsed > decision.total) /\ TotalUsed # 0
    <3>1. decision.total \in Int
      BY <1>1 DEF IInv, DecisionOK
    <3> QED BY <1>2, <3>1
  <2> QED BY <2>1 DEF Record
<1> QED BY <1>2, <1>3

LEMMA RecordKeeps ==
    ASSUME IInv, Record
    PROVE  IInv'
<1>1. /\ UNCHANGED <<budget, limit, decision, trace, prefillLeft, decodeLeft, admitted,
                     waitingSince, lastProgress, recent>>
      /\ pc = "prefill" /\ (pool = 0 \/ Round = {})
      /\ used' = NothingUsed /\ pool' = 0 /\ queue' = NoQueue
  BY DEF Record, policyVars, work, marks
<1>3. pc' = "loop" /\ now' = now + StepDuration
  BY RecordAdvances
<1>4. WorkOK'
  BY <1>1, <1>3, SimulationAssumption DEF IInv, WorkOK
<1>5. PolicyOK' /\ RecentOK' /\ DecisionOK' /\ PcOK'
  BY <1>1, <1>3 DEF IInv, PolicyOK, RecentOK, DecisionOK, PcOK
<1>6. AdmittedOK'
  <2>1. \A q \in Requests : trace[q].arrival \in Nat
    BY TraceFields DEF IInv
  <2>2. Arrived \subseteq Arrived'
    BY <1>1, <1>3, <2>1, SimulationAssumption DEF Arrived, Complete, IInv, WorkOK
  <2> QED BY <1>1, <1>3, <2>2 DEF IInv, AdmittedOK
<1>7. QueueOK'
  <2>1. DOMAIN queue' = {"order", "served"} /\ queue'.order = << >>
    BY <1>1 DEF NoQueue
  <2>2. DOMAIN queue'.order = 1..0
    BY <2>1
  <2> QED BY <2>1, <2>2 DEF QueueOK
<1>8. SpentOK'
  BY <1>1, <1>3 DEF SpentOK, NothingUsed
<1> QED BY <1>4, <1>5, <1>6, <1>7, <1>8 DEF IInv

LEMMA StutterKeeps ==
    ASSUME IInv, UNCHANGED vars
    PROVE  IInv'
<1>1. UNCHANGED <<budget, limit, decision, trace, now, prefillLeft, decodeLeft, admitted,
                  waitingSince, lastProgress, recent, used, pool, queue, pc>>
  BY DEF vars, policyVars, clock, work, marks
<1>2. WorkOK' /\ PolicyOK' /\ RecentOK' /\ QueueOK' /\ PcOK'
  BY <1>1 DEF IInv, WorkOK, PolicyOK, RecentOK, QueueOK, PcOK
<1>3. Arrived' = Arrived /\ Prefilling(Arrived)' = Prefilling(Arrived)
  BY <1>1 DEF Arrived, Complete, Prefilling
<1>4. AdmittedOK' /\ DecisionOK' /\ SpentOK'
  BY <1>1, <1>3 DEF IInv, AdmittedOK, DecisionOK, SpentOK
<1> QED BY <1>2, <1>4 DEF IInv

LEMMA NextIInv == IInv /\ [Next]_vars => IInv'
BY EndingKeeps, JumpKeeps, DecideKeeps, AdmitKeeps, DecodeKeeps, ChunkKeeps, RecordKeeps,
   StutterKeeps
   DEF Next

-----------------------------------------------------------------------------
(* Nobody starves: the variant                                               *)
(*                                                                           *)
(* While a request waits, each step either finds it with less than its        *)
(* patience used up or admits somebody who was ahead of it.  Whoever gives    *)
(* up a place after that has only just begun to wait and is behind it, so     *)
(* those ahead become fewer with every step.                                  *)

Clock    == IF pc \in {"decode", "prefill"} THEN now + StepDuration ELSE now
Patience == AdmissionMaxWait + HeadStart

(* Who may still go before r: the others that wait and began to wait no later *)
(* than its priority can make up for.                                         *)
Ahead(r) == {q \in Requests \ {r} : /\ ~Complete(q) /\ q \notin admitted
                                    /\ waitingSince[q] <= waitingSince[r] + HeadStart}

Others(r) == Trace - 1 - Cardinality(Ahead(r))

Anchor(r) == IF lastProgress[r] = Never THEN trace[r].arrival ELSE lastProgress[r]

ArrivalOK ==
    \A r \in Requests :
        IF trace[r].arrival <= now THEN waitingSince[r] <= now
        ELSE waitingSince[r] = trace[r].arrival /\ lastProgress[r] = Never

InTime(r) == Clock - waitingSince[r] < Patience + Others(r) * StepDuration

WaitOK ==
    /\ \A r \in Arrived \ admitted : InTime(r)
    /\ pc \in {"decode", "prefill"} => \E q \in Requests : q \in admitted \/ Complete(q)

(* With one place whoever has it is served in every step. *)
ServiceOK ==
    MaxAdmitted = 1 =>
        /\ \A r \in Arrived \ admitted : Anchor(r) = waitingSince[r]
        /\ \A r \in admitted : Clock - Anchor(r) < StarvationBound
        /\ pc \in {"loop", "admit"} \/ (pc = "prefill" /\ TotalUsed > 0) =>
               \A r \in admitted : Anchor(r) = Clock
        /\ \A r \in Requests : serviceGap[r] < StarvationBound

ServingOK ==
    /\ serviceGap \in [Requests -> Int]
    /\ pc = "prefill" => \A i \in DOMAIN queue.order : queue.order[i] \in admitted

TurnInv == ArrivalOK /\ ServingOK /\ WaitOK /\ ServiceOK

LEMMA Product ==
    ASSUME NEW a \in Int, NEW b \in Int, NEW n \in Nat, a <= b
    PROVE  a * n <= b * n /\ a * n \in Int /\ b * n \in Int
OBVIOUS

LEMMA Quotient ==
    ASSUME NEW m \in Nat, NEW d \in Nat \ {0}, NEW x \in Int, d * x <= m
    PROVE  m \div d \in Nat /\ x <= m \div d
<1> DEFINE k == m \div d
<1>1. k \in Nat /\ m < d * (k + 1)
  OBVIOUS
<1> HIDE DEF k
<1>2. ASSUME x >= k + 1 PROVE FALSE
  <2>1. (k + 1) * d <= x * d
    BY <1>1, <1>2, Product
  <2> QED BY <1>1, <2>1
<1>3. x <= k
  BY <1>1, <1>2
<1> QED BY <1>1, <1>3 DEF k

(* The head start covers every difference of priorities in the trace. *)
LEMMA HeadStartCovers ==
    ASSUME WorkOK, Requests # {}
    PROVE  /\ HeadStart \in Nat
           /\ \A q, r \in Requests : \A x \in Int :
                 AgingWeight * x <= (trace[q].priority - trace[r].priority) * AdmissionMaxWait
                     => x <= HeadStart
<1> DEFINE T == {trace[r].priority : r \in Requests}
           f == [r \in Requests |-> trace[r].priority]
           m == (Max(T) - Min(T)) * AdmissionMaxWait
<1>1. T \subseteq Int /\ T # {}
  BY TraceFields
<1>2. IsFiniteSet(T)
  <2>1. f \in [Requests -> T] /\ \A a \in T : \E r \in Requests : f[r] = a
    OBVIOUS
  <2>2. f \in Surjection(Requests, T)
    <3> HIDE DEF f, T
    <3> QED BY <2>1, Fun_IsSurj
  <2> HIDE DEF f, T
  <2> QED BY <2>2, RequestsFinite, FS_Surjection
<1>3. /\ Max(T) \in Int /\ Min(T) \in Int /\ Min(T) <= Max(T)
      /\ \A x \in T : Min(T) <= x /\ x <= Max(T)
  <2> HIDE DEF T
  <2>1. Max(T) \in T /\ \A x \in T : x <= Max(T)
    BY <1>1, <1>2, MaxIsGreatest
  <2>2. Min(T) \in T /\ \A x \in T : Min(T) <= x
    BY <1>1, <1>2, MinIsLeast
  <2> QED BY <1>1, <2>1, <2>2
<1>4. AgingWeight \in Nat \ {0} /\ AdmissionMaxWait \in Nat
  BY AdmissionAssumption
<1>5. HeadStart = m \div AgingWeight
  BY DEF HeadStart
<1>6. m \in Nat
  <2> HIDE DEF T
  <2>1. Max(T) - Min(T) \in Nat
    BY <1>3
  <2> QED BY <1>4, <2>1, Product
<1>7. HeadStart \in Nat
  <2> HIDE DEF m
  <2>1. AgingWeight * 0 <= m
    BY <1>4, <1>6
  <2> QED BY <1>4, <1>5, <1>6, <2>1, Quotient
<1>8. ASSUME NEW q \in Requests, NEW r \in Requests, NEW x \in Int,
             AgingWeight * x <= (trace[q].priority - trace[r].priority) * AdmissionMaxWait
      PROVE  x <= HeadStart
  <2>1. trace[q].priority \in T /\ trace[r].priority \in T
    OBVIOUS
  <2>2. trace[q].priority - trace[r].priority \in Int
        /\ trace[q].priority - trace[r].priority <= Max(T) - Min(T)
        /\ Max(T) - Min(T) \in Int
    <3>1. PICK a \in Int, b \in Int : a = trace[q].priority /\ b = trace[r].priority
      BY <1>1, <2>1
    <3>2. a <= Max(T) /\ Min(T) <= b
      <4> HIDE DEF T
      <4> QED BY <1>3, <2>1, <3>1
    <3> HIDE DEF T
    <3> QED BY <1>3, <3>1, <3>2
  <2>3. (trace[q].priority - trace[r].priority) * AdmissionMaxWait <= m
    <3> HIDE DEF T
    <3> QED BY <1>4, <2>2, Product
  <2>4. AgingWeight * x <= m
    <3> HIDE DEF m, T
    <3>1. AgingWeight * x \in Int
      BY <1>4
    <3>2. (trace[q].priority - trace[r].priority) * AdmissionMaxWait \in Int
      BY <1>4, <2>2, Product
    <3> QED BY <1>6, <1>8, <2>3, <3>1, <3>2
  <2> HIDE DEF m
  <2> QED BY <1>4, <1>5, <1>6, <2>4, Quotient
<1> QED BY <1>7, <1>8

(* So only who is ahead of an overdue request ranks before it. *)
LEMMA RankedBeforeIsAhead ==
    ASSUME WorkOK, NEW r \in Requests, NEW q \in Requests,
           Score(Candidate(r), now) <= Score(Candidate(q), now)
    PROVE  waitingSince[q] <= waitingSince[r] + HeadStart
<1> DEFINE x == waitingSince[q] - waitingSince[r]
           p == trace[q].priority - trace[r].priority
<1>1. /\ now \in Int /\ waitingSince[q] \in Int /\ waitingSince[r] \in Int
      /\ trace[q].priority \in Int /\ trace[r].priority \in Int
      /\ AgingWeight \in Int /\ AdmissionMaxWait \in Int
  BY TraceFields, AdmissionAssumption DEF WorkOK
<1>2. trace[r].priority * AdmissionMaxWait + AgingWeight * (now - waitingSince[r])
        <= trace[q].priority * AdmissionMaxWait + AgingWeight * (now - waitingSince[q])
  BY DEF Score, Wait, Candidate
<1>3. AgingWeight * x <= p * AdmissionMaxWait
  BY <1>1, <1>2
<1>4. x \in Int /\ x <= HeadStart /\ HeadStart \in Int
  <2>1. x \in Int
    BY <1>1
  <2> HIDE DEF x
  <2> QED BY <1>3, <2>1, HeadStartCovers
<1> QED BY <1>1, <1>4

LEMMA BoundTypes ==
    ASSUME WorkOK, Requests # {}
    PROVE  /\ Patience \in Nat \ {0} /\ HeadStart \in Nat /\ HeadStart < Patience
           /\ AdmissionMaxWait <= Patience
           /\ StepDuration \in Nat \ {0} /\ Trace \in Nat \ {0}
           /\ Trace * StepDuration \in Nat /\ StepDuration <= Trace * StepDuration
           /\ StarvationBound = Patience + Trace * StepDuration /\ StarvationBound \in Nat
<1>1. HeadStart \in Nat /\ AdmissionMaxWait \in Nat \ {0}
  BY HeadStartCovers, AdmissionAssumption
<1>2. StepDuration \in Nat \ {0} /\ Trace \in Nat \ {0}
  BY SimulationAssumption DEF Requests
<1>3. 1 * StepDuration <= Trace * StepDuration /\ Trace * StepDuration \in Int
  BY <1>2, Product
<1> QED BY <1>1, <1>2, <1>3 DEF Patience, StarvationBound

(* The others of one request are at most all but one. *)
LEMMA OthersCount ==
    ASSUME NEW r \in Requests, NEW S, S \subseteq Requests \ {r}
    PROVE  /\ IsFiniteSet(S) /\ Cardinality(S) \in 0..(Trace - 1)
           /\ \A q \in Requests \ {r} : q \notin S => Cardinality(S) <= Trace - 2
<1>1. IsFiniteSet(Requests) /\ Cardinality(Requests) = Trace
  <2>1. Trace \in Nat
    BY SimulationAssumption
  <2>2. Cardinality(1..Trace) = IF 1 > Trace THEN 0 ELSE Trace - 1 + 1
    BY <2>1, FS_Interval
  <2> QED BY <2>1, <2>2, RequestsFinite DEF Requests
<1>2. Trace \in Nat
  BY SimulationAssumption
<1>3. IsFiniteSet(Requests \ {r}) /\ Cardinality(Requests \ {r}) = Trace - 1
  BY <1>1, FS_RemoveElement
<1>4. IsFiniteSet(S) /\ Cardinality(S) <= Trace - 1 /\ Cardinality(S) \in Nat
  BY <1>3, FS_Subset, FS_CardinalityType
<1>5. ASSUME NEW q \in Requests \ {r}, q \notin S PROVE Cardinality(S) <= Trace - 2
  <2> DEFINE T == (Requests \ {r}) \ {q}
  <2>1. IsFiniteSet(T) /\ Cardinality(T) = Trace - 1 - 1
    BY <1>3, FS_RemoveElement
  <2>2. S \in SUBSET T
    BY <1>5
  <2> HIDE DEF T
  <2>3. Cardinality(S) <= Cardinality(T)
    BY <2>1, <2>2, FS_Subset
  <2> QED BY <1>2, <1>4, <2>1, <2>3
<1> QED BY <1>2, <1>4, <1>5

LEMMA AheadCount ==
    ASSUME NEW r \in Requests
    PROVE  /\ Ahead(r) \subseteq Requests \ {r} /\ IsFiniteSet(Ahead(r))
           /\ Cardinality(Ahead(r)) \in 0..(Trace - 1)
           /\ \A q \in Requests \ {r} : q \notin Ahead(r) => Cardinality(Ahead(r)) <= Trace - 2
<1>1. Ahead(r) \subseteq Requests \ {r}
  BY DEF Ahead
<1> QED BY <1>1, OthersCount

(* A waiting request leaves the bound for one more step. *)
LEMMA WaitAllowsStep ==
    ASSUME WorkOK, NEW r \in Requests, InTime(r)
    PROVE  /\ Clock - waitingSince[r] < Patience + (Trace - 1) * StepDuration
           /\ Clock - waitingSince[r] + StepDuration < StarvationBound
           /\ Clock - waitingSince[r] < StarvationBound
<1>1. /\ Patience \in Nat /\ StepDuration \in Nat \ {0} /\ Trace \in Nat \ {0}
      /\ StarvationBound = Patience + Trace * StepDuration
  BY BoundTypes
<1>2. Cardinality(Ahead(r)) \in 0..(Trace - 1)
  BY AheadCount
<1>3. Others(r) \in Int /\ Others(r) <= Trace - 1
  BY <1>1, <1>2 DEF Others
<1>4. Others(r) * StepDuration <= (Trace - 1) * StepDuration
      /\ Others(r) * StepDuration \in Int /\ (Trace - 1) * StepDuration \in Int
  BY <1>1, <1>3, Product
<1>5. Clock \in Int /\ waitingSince[r] \in Int
  BY <1>1 DEF Clock, WorkOK
<1>6. Trace * StepDuration = (Trace - 1) * StepDuration + StepDuration
  BY <1>1
<1> QED BY <1>1, <1>4, <1>5, <1>6 DEF InTime

(* The admission step, seen from those who wait. *)
LEMMA AdmitTurns ==
    ASSUME IInv, Admit, AllowPreemption
    PROVE  \E preempted :
             /\ preempted \subseteq admitted
             /\ waitingSince' = [r \in Requests |->
                                    IF r \in preempted THEN now ELSE waitingSince[r]]
             /\ admitted \ preempted \subseteq admitted' /\ admitted' \cap preempted = {}
             /\ \A r \in (Arrived \ admitted) \ admitted' :
                   now - waitingSince[r] >= AdmissionMaxWait =>
                       \E q \in admitted' \ admitted :
                           q # r /\ waitingSince[q] <= waitingSince[r] + HeadStart
<1> DEFINE W == Candidates(Arrived \ admitted)
           A == Candidates(admitted)
<1>1. PICK D : /\ D = AdmissionDecision(W, A, now, decision.limit)
               /\ waitingSince' = [r \in Requests |->
                      IF r \in Orders(D.preempt) THEN now ELSE waitingSince[r]]
               /\ admitted' = (admitted \ Orders(D.preempt)) \cup Orders(D.admit)
  BY DEF Admit
<1>2. /\ WorkOK /\ admitted \subseteq Arrived /\ Arrived \subseteq Requests /\ now \in Int
      /\ decision.limit \in Nat \ {0}
  <2>1. WorkOK /\ admitted \subseteq Arrived /\ now \in Int /\ decision.limit = limit
    BY DEF Admit, IInv, AdmittedOK, DecisionOK, WorkOK
  <2>2. limit \in Nat \ {0}
    BY PolicyAssumption DEF IInv, PolicyOK, ConfigAccepted
  <2> QED BY <2>1, <2>2, ArrivedFinite
<1>3. Proper(W) /\ IsFiniteSet(W) /\ Proper(A) /\ IsFiniteSet(A)
  BY <1>2, CandidatesProper
<1>4. D.admit \subseteq W /\ D.preempt \subseteq A
  <2> HIDE DEF W, A
  <2> QED BY <1>1, <1>2, <1>3, DecisionKeepsLimit
<1>5. Orders(D.preempt) \subseteq admitted /\ Orders(D.admit) \subseteq Arrived \ admitted
  BY <1>4, OrdersOfCandidates
<1>6. ASSUME NEW r \in (Arrived \ admitted) \ admitted',
             now - waitingSince[r] >= AdmissionMaxWait
      PROVE  \E q \in admitted' \ admitted :
                 q # r /\ waitingSince[q] <= waitingSince[r] + HeadStart
  <2> DEFINE c == Candidate(r)
  <2>1. c \in W /\ c.order = r /\ Wait(c, now) >= AdmissionMaxWait
    BY <1>6 DEF Candidates, Candidate, Wait
  <2>2. c \notin D.admit
    BY <1>1, <1>6, <2>1 DEF Orders
  <2>3. PICK d \in D.admit : d # c /\ Precedes(WaitingKey(d, now), WaitingKey(c, now))
    <3> HIDE DEF W, A, c
    <3> QED BY <1>1, <1>2, <1>3, <2>1, <2>2, OverduePassedOnlyByRank
  <2>4. PICK q \in Arrived \ admitted : d = Candidate(q)
    BY <1>4 DEF Candidates
  <2>5. q \in admitted' \ admitted
    <3>1. d.order = q
      BY <2>4 DEF Candidate
    <3> QED BY <1>1, <2>4, <3>1 DEF Orders
  <2>6. Score(c, now) <= Score(d, now)
    <3>1. d \in W
      BY <1>4
    <3> HIDE DEF W, c
    <3> QED BY <1>2, <1>3, <2>1, <2>3, <3>1, RankedByScore
  <2>7. waitingSince[q] <= waitingSince[r] + HeadStart
    BY <1>2, <2>4, <2>6, RankedBeforeIsAhead
  <2> QED BY <2>3, <2>4, <2>5, <2>7
<1> HIDE DEF W, A
<1> QED BY <1>1, <1>5, <1>6

(* A request that waits on, with nobody more ahead of it, keeps its bound. *)
LEMMA WaitsOn ==
    ASSUME WorkOK, NEW r \in Requests, InTime(r), trace' = trace,
           waitingSince'[r] = waitingSince[r], Clock' = Clock,
           Ahead(r)' \subseteq Ahead(r)
    PROVE  InTime(r)'
<1>1. HeadStart' = HeadStart /\ Patience' = Patience
  BY DEF HeadStart, Patience
<1>2. Patience \in Nat /\ StepDuration \in Nat /\ Trace \in Nat
  BY BoundTypes
<1>3. PICK a : a = Ahead(r)
  OBVIOUS
<1>4. PICK b : b = Ahead(r)'
  OBVIOUS
<1>5. Cardinality(a) \in 0..(Trace - 1) /\ IsFiniteSet(a) /\ a \subseteq Requests \ {r}
  BY <1>3, AheadCount
<1>6. Cardinality(b) \in Nat /\ Cardinality(b) <= Cardinality(a)
  <2>1. b \in SUBSET a
    BY <1>3, <1>4
  <2> QED BY <1>5, <2>1, FS_Subset, FS_CardinalityType
<1>7. Others(r) = Trace - 1 - Cardinality(a) /\ Others(r)' = Trace - 1 - Cardinality(b)
  BY <1>3, <1>4 DEF Others
<1>8. PICK m \in Int, n \in Int : m = Others(r) /\ n = Others(r)' /\ m <= n
  BY <1>2, <1>5, <1>6, <1>7
<1>9. m * StepDuration <= n * StepDuration
      /\ m * StepDuration \in Int /\ n * StepDuration \in Int
  BY <1>2, <1>8, Product
<1>10. Clock \in Int /\ waitingSince[r] \in Int
  BY <1>2 DEF Clock, WorkOK
<1>11. Clock - waitingSince[r] < Patience + m * StepDuration
  BY <1>8 DEF InTime
<1>12. Clock - waitingSince[r] < Patience + n * StepDuration
  BY <1>2, <1>9, <1>10, <1>11
<1> QED BY <1>1, <1>8, <1>12 DEF InTime

LEMMA InitTurnInv == Init => TurnInv
<1> SUFFICES ASSUME Init PROVE TurnInv
  OBVIOUS
<1>1. /\ WorkOK /\ now = 0 /\ pc = "loop" /\ admitted = {}
      /\ waitingSince = [r \in Requests |-> trace[r].arrival]
      /\ lastProgress = [r \in Requests |-> Never]
      /\ serviceGap = [r \in Requests |-> 0]
  BY InitIInv DEF Init, IInv
<1>2. \A r \in Requests : trace[r].arrival \in Nat
  BY <1>1, TraceFields
<1>3. ArrivalOK
  BY <1>1, <1>2 DEF ArrivalOK
<1>4. ServingOK
  BY <1>1 DEF ServingOK
<1>5. WaitOK
  <2>1. ASSUME NEW r \in Arrived PROVE InTime(r)
    <3>1. r \in Requests /\ waitingSince[r] = 0
      BY <1>1, <1>2, <2>1 DEF Arrived
    <3>2. Patience \in Nat \ {0} /\ StepDuration \in Nat /\ Trace \in Nat
      BY <1>1, <3>1, BoundTypes
    <3>3. Others(r) \in Nat
      BY <3>1, <3>2, AheadCount DEF Others
    <3>4. Others(r) * StepDuration \in Nat
      BY <3>2, <3>3
    <3> QED BY <1>1, <3>1, <3>2, <3>4 DEF InTime, Clock
  <2> QED BY <1>1, <2>1 DEF WaitOK
<1>6. ServiceOK
  <2>1. \A r \in Requests : StarvationBound > 0
    BY <1>1, BoundTypes
  <2> QED BY <1>1, <2>1 DEF ServiceOK, Anchor, Arrived
<1> QED BY <1>3, <1>4, <1>5, <1>6 DEF TurnInv

(* The ends of a run, a decision and a stutter touch nothing a wait rests on. *)
LEMMA QuietTurns ==
    ASSUME IInv, TurnInv, Finish \/ GiveUp \/ DecideBudget \/ UNCHANGED vars
    PROVE  TurnInv'
<1>1. /\ UNCHANGED <<trace, now, decodeLeft, admitted, waitingSince, lastProgress,
                     serviceGap, used, queue>>
      /\ pc' = pc \/ (pc = "loop" /\ pc' \in {"done", "limit", "admit"})
  BY DEF Finish, GiveUp, DecideBudget, vars, clock, work, marks
<1>2. HeadStart' = HeadStart /\ Patience' = Patience /\ StarvationBound' = StarvationBound
  BY <1>1 DEF HeadStart, Patience, StarvationBound
<1>3. Clock' = Clock /\ Arrived' = Arrived /\ TotalUsed' = TotalUsed
  BY <1>1 DEF Clock, Arrived, Complete, TotalUsed
<1>4. \A r \in Requests : Anchor(r)' = Anchor(r) /\ Ahead(r)' = Ahead(r)
  BY <1>1, <1>2 DEF Anchor, Ahead, Complete
<1>5. \A r \in Requests : InTime(r)' <=> InTime(r)
  BY <1>1, <1>2, <1>3, <1>4 DEF InTime, Others
<1>6. ArrivalOK' /\ ServingOK'
  BY <1>1 DEF TurnInv, ArrivalOK, ServingOK
<1>7. WaitOK'
  <2>1. \A q \in Requests : Complete(q)' <=> Complete(q)
    BY <1>1 DEF Complete
  <2> QED BY <1>1, <1>3, <1>5, <2>1, ArrivedFinite DEF TurnInv, WaitOK
<1>8. ServiceOK'
  <2>1. admitted \subseteq Requests
    BY ArrivedFinite DEF IInv, AdmittedOK
  <2> QED BY <1>1, <1>2, <1>3, <1>4, <2>1, ArrivedFinite DEF TurnInv, ServiceOK
<1> QED BY <1>6, <1>7, <1>8 DEF TurnInv

(* Who arrives has waited for less than a step, and somebody else is served   *)
(* or done.                                                                   *)
LEMMA ArrivesInTime ==
    ASSUME WorkOK, trace' = trace, NEW r \in Requests, now' \in Int, waitingSince'[r] \in Int,
           now' - waitingSince'[r] < StepDuration, pc' \notin {"decode", "prefill"},
           waitingSince'[r] = now' \/ \E q \in Requests \ {r} : q \notin Ahead(r)'
    PROVE  InTime(r)'
<1>1. /\ Patience \in Nat \ {0} /\ StepDuration \in Nat \ {0} /\ Trace \in Nat \ {0}
      /\ Patience' = Patience /\ Clock' = now'
  BY BoundTypes DEF Patience, HeadStart, Clock
<1>2. PICK b : b = Ahead(r)'
  OBVIOUS
<1>3. Cardinality(b) \in 0..(Trace - 1)
      /\ \A q \in Requests \ {r} : q \notin b => Cardinality(b) <= Trace - 2
  <2>1. b \subseteq Requests \ {r}
    BY <1>2 DEF Ahead
  <2> QED BY <2>1, OthersCount
<1>4. PICK n \in Nat : n = Others(r)' /\ n = Trace - 1 - Cardinality(b)
  BY <1>1, <1>2, <1>3 DEF Others
<1>5. CASE waitingSince'[r] = now'
  <2>1. n * StepDuration \in Nat
    BY <1>1
  <2>2. Clock' - waitingSince'[r] = 0
    <3>1. \A x \in Int : x - x = 0
      OBVIOUS
    <3>2. Clock' - waitingSince'[r] = now' - now'
      BY <1>1, <1>5, Zenon
    <3> QED BY <3>1, <3>2, Zenon
  <2>3. 0 < Patience' + n * StepDuration
    BY <1>1, <2>1
  <2> QED BY <1>4, <2>2, <2>3 DEF InTime
<1>6. CASE \E q \in Requests \ {r} : q \notin Ahead(r)'
  <2>1. Cardinality(b) <= Trace - 2
    BY <1>2, <1>3, <1>6
  <2>2. 1 <= n
    BY <1>1, <1>3, <1>4, <2>1
  <2>3. 1 * StepDuration <= n * StepDuration /\ n * StepDuration \in Int
    BY <1>1, <2>2, Product
  <2>4. Clock' - waitingSince'[r] < Patience' + n * StepDuration
    BY <1>1, <2>3
  <2> QED BY <1>4, <2>4 DEF InTime
<1> QED BY <1>5, <1>6

LEMMA JumpTurns ==
    ASSUME IInv, TurnInv, Jump
    PROVE  TurnInv'
<1>1. /\ UNCHANGED <<trace, decodeLeft, admitted, waitingSince, lastProgress,
                     serviceGap, used, queue, pc>>
      /\ pc = "loop" /\ Arrived = {} /\ admitted = {}
  BY DEF Jump, work, marks, IInv, AdmittedOK
<1>2. now' \in Nat /\ now \in Nat
  BY JumpKeeps DEF IInv, WorkOK
<1>3. /\ \A r \in Requests : ~Complete(r) => now' <= trace[r].arrival
      /\ now <= now'
  <2> DEFINE T == {trace[r].arrival : r \in {q \in Requests : ~Complete(q)}}
  <2>1. \A r \in Requests : trace[r].arrival \in Nat
    BY TraceFields DEF IInv
  <2>2. T \subseteq Int /\ T # {}
    BY <2>1 DEF Jump
  <2>3. IsFiniteSet(T)
    BY ArrivalsFinite
  <2>4. now' = Min(T)
    BY DEF Jump
  <2>5. Min(T) \in T /\ \A x \in T : Min(T) <= x
    <3> HIDE DEF T
    <3> QED BY <2>2, <2>3, MinIsLeast
  <2>6. \A x \in T : now < x
    BY <1>1, <1>2, <2>1 DEF Arrived
  <2>7. \A r \in Requests : ~Complete(r) => trace[r].arrival \in T
    OBVIOUS
  <2>8. \A r \in Requests : ~Complete(r) => now' <= trace[r].arrival
    <3> HIDE DEF T
    <3> QED BY <2>4, <2>5, <2>7
  <2>9. now < now'
    <3> HIDE DEF T
    <3> QED BY <2>4, <2>5, <2>6
  <2> QED BY <1>2, <2>8, <2>9
<1>4. WorkOK'
  BY JumpKeeps DEF IInv
<1>5. \A r \in Requests : /\ trace[r].arrival \in Nat /\ waitingSince[r] \in Nat
  BY TraceFields DEF IInv, WorkOK
<1>6. ASSUME NEW r \in Arrived'
      PROVE  /\ r \in Requests /\ waitingSince[r] = now' /\ trace[r].arrival = now'
             /\ lastProgress[r] = Never
  <2>1. r \in Requests /\ ~Complete(r) /\ trace[r].arrival <= now'
    BY <1>1, <1>6 DEF Arrived, Complete
  <2>2. ~(trace[r].arrival <= now)
    BY <1>1, <2>1 DEF Arrived
  <2> QED BY <1>2, <1>3, <1>5, <2>1, <2>2 DEF TurnInv, ArrivalOK
<1>7. ArrivalOK'
  BY <1>1, <1>2, <1>3, <1>5 DEF TurnInv, ArrivalOK
<1>8. ServingOK'
  BY <1>1 DEF TurnInv, ServingOK
<1>9. WaitOK'
  <2>1. ASSUME NEW r \in Arrived' PROVE InTime(r)'
    <3>1. /\ r \in Requests /\ waitingSince'[r] = now' /\ pc' \notin {"decode", "prefill"}
          /\ now' \in Int /\ waitingSince'[r] \in Int /\ now' - waitingSince'[r] < StepDuration
      <4>1. r \in Requests /\ waitingSince'[r] = now' /\ pc' \notin {"decode", "prefill"}
        BY <1>1, <1>6, <2>1
      <4> QED BY <1>2, <4>1, SimulationAssumption
    <3> QED BY <1>1, <1>4, <3>1, ArrivesInTime DEF IInv
  <2> QED BY <1>1, <2>1 DEF WaitOK
<1>10. ServiceOK'
  <2>1. StarvationBound' = StarvationBound
    BY <1>1 DEF StarvationBound, HeadStart
  <2>2. \A r \in Arrived' : Anchor(r)' = waitingSince'[r]
    BY <1>1, <1>6 DEF Anchor
  <2> QED BY <1>1, <2>1, <2>2 DEF TurnInv, ServiceOK
<1> QED BY <1>7, <1>8, <1>9, <1>10 DEF TurnInv

(* One step for the wait of a request that stays behind: either its patience *)
(* lasts, or somebody ahead of it was admitted.                               *)
LEMMA PassedOverInTime ==
    ASSUME WorkOK, trace' = trace, now' = now, pc = "admit", pc' = "decode",
           NEW r \in Requests, InTime(r), waitingSince'[r] = waitingSince[r],
           \E q \in Requests \ {r} : q \notin Ahead(r)',
           now - waitingSince[r] >= Patience =>
               /\ Ahead(r)' \subseteq Ahead(r)
               /\ \E q \in Ahead(r) : q \notin Ahead(r)'
    PROVE  InTime(r)'
<1>1. /\ Patience \in Nat \ {0} /\ StepDuration \in Nat \ {0} /\ Trace \in Nat \ {0}
      /\ Patience' = Patience /\ Clock' = now + StepDuration /\ Clock = now
      /\ now \in Int /\ waitingSince[r] \in Int
  BY BoundTypes DEF Patience, HeadStart, Clock, WorkOK
<1>2. PICK a : a = Ahead(r)
  OBVIOUS
<1>3. PICK b : b = Ahead(r)'
  OBVIOUS
<1>4. Cardinality(a) \in 0..(Trace - 1) /\ IsFiniteSet(a)
  BY <1>2, AheadCount
<1>5. Cardinality(b) \in 0..(Trace - 1) /\ Cardinality(b) <= Trace - 2
  <2>1. b \subseteq Requests \ {r}
    BY <1>3 DEF Ahead
  <2>2. PICK q \in Requests \ {r} : q \notin b
    BY <1>3
  <2> QED BY <2>1, <2>2, OthersCount
<1>6. PICK m \in Nat : m = Others(r) /\ m = Trace - 1 - Cardinality(a)
  BY <1>1, <1>2, <1>4 DEF Others
<1>7. PICK n \in Nat : n = Others(r)' /\ n = Trace - 1 - Cardinality(b)
  BY <1>1, <1>3, <1>5 DEF Others
<1>8. PICK w \in Int : w = now - waitingSince[r]
  BY <1>1
<1>9. w < Patience + m * StepDuration
  BY <1>1, <1>6, <1>8 DEF InTime
<1>10. ASSUME w + StepDuration < Patience + n * StepDuration
       PROVE  InTime(r)'
  <2>1. Clock' - waitingSince'[r] = w + StepDuration
    BY <1>1, <1>8
  <2> QED BY <1>1, <1>7, <1>10, <2>1 DEF InTime
<1>11. CASE w < Patience
  <2>1. 1 <= n
    BY <1>1, <1>5, <1>7
  <2>2. 1 * StepDuration <= n * StepDuration /\ n * StepDuration \in Int
    BY <1>1, <2>1, Product
  <2>3. w + StepDuration < Patience + n * StepDuration
    BY <1>1, <1>11, <2>2
  <2> QED BY <1>10, <2>3
<1>12. CASE w >= Patience
  <2>1. b \in SUBSET a /\ b # a
    BY <1>2, <1>3, <1>8, <1>12
  <2>2. Cardinality(b) < Cardinality(a)
    <3>1. Cardinality(b) <= Cardinality(a) /\ (Cardinality(a) = Cardinality(b) => a = b)
      BY <1>4, <2>1, FS_Subset
    <3> QED BY <1>4, <1>5, <2>1, <3>1
  <2>3. m + 1 <= n
    BY <1>1, <1>4, <1>5, <1>6, <1>7, <2>2
  <2>4. (m + 1) * StepDuration <= n * StepDuration
        /\ (m + 1) * StepDuration \in Int /\ n * StepDuration \in Int
    BY <1>1, <2>3, Product
  <2>5. (m + 1) * StepDuration = m * StepDuration + StepDuration /\ m * StepDuration \in Int
    BY <1>1
  <2>6. w + StepDuration < Patience + n * StepDuration
    BY <1>1, <1>9, <2>4, <2>5
  <2> QED BY <1>10, <2>6
<1> QED BY <1>1, <1>11, <1>12

LEMMA AdmitTakesTurns ==
    ASSUME IInv, TurnInv, Admit, AllowPreemption
    PROVE  TurnInv'
<1>1. /\ UNCHANGED <<trace, now, decodeLeft, lastProgress, serviceGap, used, queue>>
      /\ pc = "admit" /\ pc' = "decode"
  BY DEF Admit, clock, work, marks
<1>2. PICK preempted :
             /\ preempted \subseteq admitted
             /\ waitingSince' = [r \in Requests |->
                                    IF r \in preempted THEN now ELSE waitingSince[r]]
             /\ admitted \ preempted \subseteq admitted' /\ admitted' \cap preempted = {}
             /\ \A r \in (Arrived \ admitted) \ admitted' :
                   now - waitingSince[r] >= AdmissionMaxWait =>
                       \E q \in admitted' \ admitted :
                           q # r /\ waitingSince[q] <= waitingSince[r] + HeadStart
  BY AdmitTurns
<1>3. /\ WorkOK /\ admitted \subseteq Arrived /\ Arrived \subseteq Requests
      /\ admitted' \subseteq Arrived /\ admitted' # {} /\ Arrived' = Arrived
  <2>1. Arrived' = Arrived
    BY <1>1 DEF Arrived, Complete
  <2>2. admitted' \subseteq Arrived' /\ admitted' # {}
    BY <1>1, AdmitKeeps DEF IInv, AdmittedOK
  <2> QED BY <2>1, <2>2, ArrivedFinite DEF IInv, AdmittedOK
<1>4. /\ HeadStart' = HeadStart /\ Patience' = Patience /\ StarvationBound' = StarvationBound
      /\ Clock = now /\ Clock' = now + StepDuration
      /\ \A r \in Requests : Anchor(r)' = Anchor(r) /\ (Complete(r)' <=> Complete(r))
  BY <1>1 DEF HeadStart, Patience, StarvationBound, Clock, Anchor, Complete
<1>5. ArrivalOK'
  <2>1. \A r \in preempted : trace[r].arrival <= now
    BY <1>2, <1>3 DEF Arrived
  <2>2. now <= now
    BY <1>3 DEF WorkOK
  <2> QED BY <1>1, <1>2, <2>1, <2>2 DEF TurnInv, ArrivalOK
<1>6. ServingOK'
  BY <1>1 DEF TurnInv, ServingOK
<1>7. ASSUME NEW r \in Arrived, r \notin admitted' PROVE InTime(r)'
  <2>1. PICK q \in admitted' : q \in Requests \ {r} /\ q \notin Ahead(r)'
    BY <1>3, <1>7 DEF Ahead
  <2>2. CASE r \in preempted
    <3>1. PICK b : b = Ahead(r)'
      OBVIOUS
    <3>2. Cardinality(b) \in 0..(Trace - 1) /\ Cardinality(b) <= Trace - 2
      <4>1. b \subseteq Requests \ {r} /\ r \in Requests
        BY <1>3, <3>1 DEF Ahead
      <4> QED BY <2>1, <3>1, <4>1, OthersCount
    <3>3. /\ Patience \in Nat \ {0} /\ StepDuration \in Nat \ {0} /\ Trace \in Nat \ {0}
          /\ now \in Int
      BY <1>3, BoundTypes DEF WorkOK
    <3>4. PICK n \in Nat : n = Others(r)' /\ n = Trace - 1 - Cardinality(b)
      BY <3>1, <3>2, <3>3 DEF Others
    <3>5. 1 * StepDuration <= n * StepDuration /\ n * StepDuration \in Int
      BY <3>2, <3>3, <3>4, Product
    <3>6. waitingSince'[r] = now
      BY <1>2, <1>3, <2>2
    <3>7. Clock' - waitingSince'[r] < Patience' + n * StepDuration
      BY <1>4, <3>3, <3>5, <3>6
    <3> QED BY <3>4, <3>7 DEF InTime
  <2>3. CASE r \notin preempted
    <3>1. r \in Requests /\ r \notin admitted /\ waitingSince'[r] = waitingSince[r]
      BY <1>2, <1>3, <1>7, <2>3
    <3>2. InTime(r)
      BY <1>7, <3>1 DEF TurnInv, WaitOK
    <3>3. ASSUME now - waitingSince[r] >= Patience
          PROVE  /\ Ahead(r)' \subseteq Ahead(r)
                 /\ \E p \in Ahead(r) : p \notin Ahead(r)'
      <4>1. /\ HeadStart \in Nat /\ HeadStart < Patience /\ AdmissionMaxWait <= Patience
            /\ Patience \in Nat /\ AdmissionMaxWait \in Int
        BY <1>3, <3>1, BoundTypes, AdmissionAssumption
      <4>2. now \in Int /\ waitingSince[r] \in Int
        BY <1>3, <3>1 DEF WorkOK
      <4>3. \A p \in preempted : p \notin Ahead(r)'
        <5> TAKE p \in preempted
        <5>1. waitingSince'[p] = now
          BY <1>2, <1>3
        <5>2. ~(now <= waitingSince[r] + HeadStart)
          BY <3>3, <4>1, <4>2
        <5> QED BY <1>4, <3>1, <5>1, <5>2 DEF Ahead
      <4>4. Ahead(r)' \subseteq Ahead(r)
        <5> SUFFICES ASSUME NEW p \in Ahead(r)' PROVE p \in Ahead(r)
          OBVIOUS
        <5>1. p \in Requests \ {r} /\ ~Complete(p) /\ p \notin admitted'
              /\ waitingSince'[p] <= waitingSince[r] + HeadStart
          BY <1>4, <3>1 DEF Ahead
        <5>2. p \notin preempted
          BY <4>3
        <5>3. p \notin admitted
          BY <1>2, <5>1, <5>2
        <5>4. waitingSince'[p] = waitingSince[p]
          BY <1>2, <5>1, <5>2
        <5> QED BY <5>1, <5>3, <5>4 DEF Ahead
      <4>5. now - waitingSince[r] >= AdmissionMaxWait
        BY <3>3, <4>1, <4>2
      <4>6. PICK p \in admitted' \ admitted :
                p # r /\ waitingSince[p] <= waitingSince[r] + HeadStart
        BY <1>2, <1>7, <3>1, <4>5
      <4>7. p \in Ahead(r)
        <5>1. p \in Requests /\ ~Complete(p)
          BY <1>3, <4>6 DEF Arrived
        <5> QED BY <4>6, <5>1 DEF Ahead
      <4>8. p \notin Ahead(r)'
        BY <4>6 DEF Ahead
      <4> QED BY <4>4, <4>7, <4>8
    <3> QED BY <1>1, <1>3, <2>1, <3>1, <3>2, <3>3, PassedOverInTime
  <2> QED BY <2>2, <2>3
<1>8. WaitOK'
  BY <1>3, <1>7 DEF WaitOK
<1>9. ServiceOK'
  <2> SUFFICES ASSUME MaxAdmitted = 1 PROVE ServiceOK'
    BY DEF ServiceOK
  <2>1. ASSUME NEW r \in Arrived, r \notin admitted' PROVE Anchor(r)' = waitingSince'[r]
    <3>1. r \in admitted => Anchor(r) = now
      BY <1>1, <1>4 DEF TurnInv, ServiceOK
    <3>2. r \notin admitted => Anchor(r) = waitingSince[r]
      BY <2>1 DEF TurnInv, ServiceOK
    <3>3. r \in admitted <=> r \in preempted
      BY <1>2, <2>1
    <3> QED BY <1>2, <1>3, <1>4, <3>1, <3>2, <3>3
  <2>2. ASSUME NEW r \in admitted' PROVE Clock' - Anchor(r)' < StarvationBound
    <3>1. r \in Arrived /\ r \in Requests /\ now \in Int /\ waitingSince[r] \in Int
          /\ StepDuration \in Nat \ {0} /\ StarvationBound \in Nat
          /\ StepDuration < StarvationBound
      <4>1. r \in Arrived /\ r \in Requests /\ now \in Int /\ waitingSince[r] \in Int
        BY <1>3, <2>2 DEF WorkOK
      <4> QED BY <1>3, <4>1, BoundTypes
    <3>2. CASE r \in admitted
      <4>1. Anchor(r) = now
        BY <1>1, <1>4, <3>2 DEF TurnInv, ServiceOK
      <4> QED BY <1>4, <3>1, <4>1
    <3>3. CASE r \notin admitted
      <4>1. Anchor(r) = waitingSince[r] /\ InTime(r)
        BY <3>1, <3>3 DEF TurnInv, ServiceOK, WaitOK
      <4>2. Clock - waitingSince[r] + StepDuration < StarvationBound
        BY <1>3, <3>1, <4>1, WaitAllowsStep
      <4> QED BY <1>4, <3>1, <4>1, <4>2
    <3> QED BY <3>2, <3>3
  <2> QED BY <1>1, <1>3, <1>4, <2>1, <2>2 DEF TurnInv, ServiceOK
<1> QED BY <1>5, <1>6, <1>8, <1>9 DEF TurnInv

(* What a stage's service does to the requests it serves, and to no other. *)
LEMMA ProgressMarks ==
    ASSUME WorkOK, NEW S, S \subseteq Requests, Progress(S), trace' = trace,
           pc \in {"decode", "prefill"}
    PROVE  /\ \A r \in S : Anchor(r)' = Clock /\ lastProgress'[r] = Clock
           /\ \A r \in Requests \ S : /\ Anchor(r)' = Anchor(r)
                                      /\ lastProgress'[r] = lastProgress[r]
                                      /\ serviceGap'[r] = serviceGap[r]
           /\ \A r \in S : serviceGap'[r] = Greatest(serviceGap[r], Clock - Anchor(r))
           /\ \A r \in Requests : Anchor(r) \in Int
           /\ Clock \in Nat /\ Clock > 0
           /\ serviceGap \in [Requests -> Int] => serviceGap' \in [Requests -> Int]
<1>1. Clock = now + StepDuration /\ Clock \in Nat /\ Clock > 0
  BY SimulationAssumption DEF Clock, WorkOK
<1>2. \A r \in Requests : Anchor(r) \in Int
  BY TraceFields DEF Anchor, WorkOK
<1>3. /\ lastProgress' = [r \in Requests |-> IF r \in S THEN Clock ELSE lastProgress[r]]
      /\ serviceGap' = [r \in Requests |->
             IF r \in S THEN Greatest(serviceGap[r], Clock - Anchor(r)) ELSE serviceGap[r]]
  BY <1>1 DEF Progress, Anchor
<1>4. \A r \in S : Anchor(r)' = Clock
  <2>1. Clock # Never
    BY <1>1 DEF Never
  <2> QED BY <1>3, <2>1 DEF Anchor
<1>5. \A r \in Requests \ S : Anchor(r)' = Anchor(r)
  BY <1>3 DEF Anchor
<1>6. serviceGap \in [Requests -> Int] => serviceGap' \in [Requests -> Int]
  <2> HAVE serviceGap \in [Requests -> Int]
  <2>1. \A r \in Requests : Greatest(serviceGap[r], Clock - Anchor(r)) \in Int
    BY <1>1, <1>2 DEF Greatest
  <2> QED BY <1>3, <2>1
<1> QED BY <1>1, <1>2, <1>3, <1>4, <1>5, <1>6

LEMMA AtMostOne ==
    ASSUME NEW S, IsFiniteSet(S), Cardinality(S) <= 1, NEW a \in S, NEW b \in S
    PROVE  a = b
<1>1. IsFiniteSet(S \ {a}) /\ Cardinality(S \ {a}) = Cardinality(S) - 1
  BY FS_RemoveElement
<1>2. Cardinality(S) \in Nat /\ Cardinality(S \ {a}) \in Nat
  BY <1>1, FS_CardinalityType
<1>3. Cardinality(S \ {a}) = 0
  BY <1>1, <1>2
<1>4. S \ {a} = {}
  BY <1>1, <1>3, FS_EmptySet
<1> QED BY <1>4

LEMMA OnePlace ==
    ASSUME IInv, MaxAdmitted = 1, pc # "admit", NEW a \in admitted, NEW b \in admitted
    PROVE  a = b
<1>1. IsFiniteSet(admitted) /\ Cardinality(admitted) \in Nat
  BY ArrivedFinite, FS_Subset, FS_CardinalityType DEF IInv, AdmittedOK
<1>2. Cardinality(admitted) <= limit /\ limit \in Int /\ limit <= 1
  BY PolicyAssumption DEF IInv, AdmittedOK, PolicyOK, ConfigAccepted
<1>3. Cardinality(admitted) <= 1
  BY <1>1, <1>2
<1> QED BY <1>1, <1>3, AtMostOne

LEMMA DecodeTurns ==
    ASSUME IInv, TurnInv, Decode
    PROVE  TurnInv'
<1> DEFINE S        == Decoding(admitted)
           P        == Prefilling(admitted)
           capacity == decision.decode + (IF P = {} THEN decision.prefill ELSE 0)
<1>1. /\ UNCHANGED <<trace, now, prefillLeft, waitingSince>>
      /\ pc = "decode" /\ pc' = "prefill"
      /\ queue' = [order |-> ByService(P), served |-> {}]
  BY DEF Decode, clock
<1>2. PICK served : /\ served = Orders(FirstServed(Candidates(S), capacity, now))
                    /\ decodeLeft' = [r \in Requests |->
                           decodeLeft[r] - (IF r \in served THEN 1 ELSE 0)]
                    /\ admitted' = admitted \ Leavers(served)
                    /\ Progress(served)
                    /\ used' = [decode |-> Cardinality(served), prefill |-> 0]
  BY DEF Decode
<1>3. /\ WorkOK /\ admitted \subseteq Arrived /\ Arrived \subseteq Requests
      /\ decision.decode \in Nat /\ decision.prefill \in Nat
  BY <1>1, ArrivedFinite DEF IInv, AdmittedOK, DecisionOK
<1>4. served \subseteq S /\ S \subseteq admitted /\ P \subseteq admitted /\ served \subseteq Requests
  <2>1. S \subseteq admitted /\ P \subseteq admitted /\ S \subseteq Requests
    BY <1>3 DEF Decoding, Prefilling
  <2>2. capacity \in Nat
    <3> HIDE DEF P
    <3> QED BY <1>3
  <2>3. served \subseteq S
    <3> HIDE DEF S, capacity
    <3> QED BY <1>2, <1>3, <2>1, <2>2, ServedOf
  <2> HIDE DEF S, P
  <2> QED BY <2>1, <2>3
<1>5. /\ HeadStart' = HeadStart /\ StarvationBound' = StarvationBound
      /\ Clock' = Clock
  BY <1>1 DEF HeadStart, StarvationBound, Clock
<1>6. \A r \in Requests : decodeLeft[r] \in Nat
  BY <1>3 DEF WorkOK
<1>7. \A r \in admitted \ admitted' : Complete(r)'
  <2> TAKE r \in admitted \ admitted'
  <2>1. r \in served /\ decodeLeft[r] = 1 /\ r \in Requests
    BY <1>2, <1>4 DEF Leavers
  <2>2. decodeLeft'[r] = 0
    BY <1>2, <2>1
  <2> QED BY <2>2 DEF Complete
<1>8. \A r \in Requests : Complete(r) => Complete(r)'
  <2> TAKE r \in Requests
  <2> HAVE Complete(r)
  <2>1. r \notin served /\ decodeLeft[r] = 0
    BY <1>4 DEF Decoding, Complete
  <2>2. decodeLeft'[r] = 0
    BY <1>2, <2>1
  <2> QED BY <2>2 DEF Complete
<1>9. admitted' \subseteq admitted
  BY <1>2
<1>10. Arrived' \subseteq Arrived
  <2> SUFFICES ASSUME NEW r \in Arrived' PROVE r \in Arrived
    OBVIOUS
  <2>1. r \in Requests /\ trace[r].arrival <= now /\ ~(Complete(r)')
    BY <1>1 DEF Arrived
  <2> QED BY <1>8, <2>1 DEF Arrived
<1>11. \A r \in Arrived' \ admitted' : r \in Arrived \ admitted
  BY <1>7, <1>10 DEF Arrived
<1>12. \A r \in Requests : Ahead(r)' \subseteq Ahead(r)
  <2> TAKE r \in Requests
  <2> SUFFICES ASSUME NEW q \in Ahead(r)' PROVE q \in Ahead(r)
    OBVIOUS
  <2>1. q \in Requests \ {r} /\ ~(Complete(q)') /\ q \notin admitted'
        /\ waitingSince[q] <= waitingSince[r] + HeadStart
    BY <1>1, <1>5 DEF Ahead
  <2>2. ~Complete(q) /\ q \notin admitted
    BY <1>7, <1>8, <2>1
  <2> QED BY <2>1, <2>2 DEF Ahead
<1>13. /\ \A r \in served : Anchor(r)' = Clock /\ lastProgress'[r] = Clock
       /\ \A r \in Requests \ served : /\ Anchor(r)' = Anchor(r)
                                       /\ lastProgress'[r] = lastProgress[r]
                                       /\ serviceGap'[r] = serviceGap[r]
       /\ \A r \in served : serviceGap'[r] = Greatest(serviceGap[r], Clock - Anchor(r))
       /\ \A r \in Requests : Anchor(r) \in Int
       /\ Clock \in Nat
       /\ serviceGap' \in [Requests -> Int]
  <2>1. pc \in {"decode", "prefill"} /\ serviceGap \in [Requests -> Int]
    BY <1>1 DEF TurnInv, ServingOK
  <2> QED BY <1>1, <1>2, <1>3, <1>4, <2>1, ProgressMarks
<1>14. ArrivalOK'
  <2>1. \A r \in served : trace[r].arrival <= now
    BY <1>3, <1>4 DEF Arrived
  <2> QED BY <1>1, <1>13, <2>1 DEF TurnInv, ArrivalOK
<1>15. ServingOK'
  <2>1. queue'.order = ByService(P)
    BY <1>1
  <2>2. \A i \in DOMAIN ByService(P) : ByService(P)[i] \in P
    <3>1. P \subseteq Requests
      BY <1>3, <1>4
    <3> HIDE DEF P
    <3> QED BY <1>3, <3>1, ServiceRanks
  <2>3. P \subseteq admitted'
    <3>1. \A r \in P : r \notin S
      BY DEF Decoding, Prefilling
    <3>2. Leavers(served) \subseteq served
      BY DEF Leavers
    <3> HIDE DEF P, S
    <3> QED BY <1>2, <1>4, <3>1, <3>2
  <2> HIDE DEF P
  <2> QED BY <1>13, <2>1, <2>2, <2>3 DEF ServingOK
<1> HIDE DEF S, P, capacity
<1>16. WaitOK'
  <2>1. ASSUME NEW r \in Arrived', r \notin admitted' PROVE InTime(r)'
    <3>1. r \in Arrived \ admitted /\ r \in Requests
      BY <1>3, <1>11, <2>1
    <3>2. InTime(r)
      BY <3>1 DEF TurnInv, WaitOK
    <3> QED BY <1>1, <1>3, <1>5, <1>12, <3>1, <3>2, WaitsOn
  <2>2. \E q \in Requests : q \in admitted' \/ Complete(q)'
    <3>1. PICK q \in Requests : q \in admitted \/ Complete(q)
      BY <1>1 DEF TurnInv, WaitOK
    <3> QED BY <1>7, <1>8, <3>1
  <2> QED BY <2>1, <2>2 DEF WaitOK
<1>17. ServiceOK'
  <2> SUFFICES ASSUME MaxAdmitted = 1 PROVE ServiceOK'
    BY DEF ServiceOK
  <2>1. \A r \in Arrived' \ admitted' : Anchor(r)' = waitingSince'[r]
    <3> TAKE r \in Arrived' \ admitted'
    <3>1. r \in Arrived \ admitted /\ r \in Requests /\ r \notin served
      BY <1>3, <1>4, <1>11
    <3> QED BY <1>1, <1>13, <3>1 DEF TurnInv, ServiceOK
  <2>2. \A r \in admitted : /\ Clock - Anchor(r) < StarvationBound
                            /\ Clock - Anchor(r)' < StarvationBound
    <3> TAKE r \in admitted
    <3>1. Clock - Anchor(r) < StarvationBound /\ r \in Requests
      BY <1>3 DEF TurnInv, ServiceOK
    <3>2. StarvationBound > 0
      <4>1. StarvationBound = Patience + Trace * StepDuration /\ Patience \in Nat \ {0}
            /\ Trace * StepDuration \in Nat
        BY <1>3, <3>1, BoundTypes
      <4> QED BY <4>1
    <3>3. CASE r \in served
      BY <1>13, <3>1, <3>2, <3>3
    <3>4. CASE r \notin served
      BY <1>13, <3>1, <3>4
    <3> QED BY <3>1, <3>3, <3>4
  <2>3. ASSUME TotalUsed' > 0 PROVE \A r \in admitted' : Anchor(r)' = Clock
    <3>1. served # {}
      <4>1. TotalUsed' = Cardinality(served) + 0
        BY <1>2 DEF TotalUsed
      <4>2. served = {} => Cardinality(served) = 0
        BY FS_EmptySet
      <4> QED BY <2>3, <4>1, <4>2
    <3>2. PICK q \in served : TRUE
      BY <3>1
    <3>3. \A r \in admitted' : r = q
      BY <1>1, <1>4, <1>9, <3>2, OnePlace
    <3> QED BY <1>13, <3>2, <3>3
  <2>4. \A r \in Requests : serviceGap'[r] < StarvationBound
    <3> TAKE r \in Requests
    <3>1. serviceGap[r] < StarvationBound
      BY DEF TurnInv, ServiceOK
    <3>2. CASE r \in served
      <4>1. r \in admitted
        BY <1>4, <3>2
      <4> QED BY <1>13, <2>2, <3>1, <3>2, <4>1 DEF Greatest
    <3>3. CASE r \notin served
      BY <1>13, <3>1, <3>3
    <3> QED BY <3>2, <3>3
  <2> QED BY <1>1, <1>5, <1>9, <2>1, <2>2, <2>3, <2>4 DEF ServiceOK
<1> QED BY <1>14, <1>15, <1>16, <1>17 DEF TurnInv

LEMMA ChunkTurns ==
    ASSUME IInv, TurnInv, Chunk
    PROVE  TurnInv'
<1> DEFINE i == Min(Round)
           first == queue.order[i]
<1>1. /\ UNCHANGED <<trace, now, decodeLeft, admitted, waitingSince, pc>>
      /\ pc = "prefill" /\ Round # {}
      /\ queue' = [queue EXCEPT !.served = IF Unserved = {} THEN {i} ELSE @ \cup {i}]
      /\ Progress({first})
  BY DEF Chunk, clock
<1>2. PICK r \in admitted : r = first
  <2>1. Round \subseteq DOMAIN queue.order
    BY DEF Round, Unserved
  <2>2. i \in Round
    BY <1>1, RoundFinite, MinIsLeast
  <2> HIDE DEF i
  <2> QED BY <1>1, <2>1, <2>2 DEF TurnInv, ServingOK
<1>3. queue'.order = queue.order
  BY <1>1 DEF IInv, QueueOK
<1> HIDE DEF i, first
<1>4. /\ WorkOK /\ admitted \subseteq Arrived /\ Arrived \subseteq Requests /\ r \in Requests
      /\ Arrived' = Arrived
  <2>1. WorkOK /\ admitted \subseteq Arrived /\ Arrived \subseteq Requests
    BY ArrivedFinite DEF IInv, AdmittedOK
  <2> QED BY <1>1, <1>2, <2>1 DEF Arrived, Complete
<1>5. /\ HeadStart' = HeadStart /\ StarvationBound' = StarvationBound /\ Clock' = Clock
      /\ \A q \in Requests : (Complete(q)' <=> Complete(q)) /\ Ahead(q)' = Ahead(q)
  <2>1. HeadStart' = HeadStart
    BY <1>1 DEF HeadStart
  <2> QED BY <1>1, <2>1 DEF StarvationBound, Clock, Complete, Ahead
<1>6. /\ Anchor(r)' = Clock /\ lastProgress'[r] = Clock
      /\ \A q \in Requests \ {r} : /\ Anchor(q)' = Anchor(q)
                                   /\ lastProgress'[q] = lastProgress[q]
                                   /\ serviceGap'[q] = serviceGap[q]
      /\ serviceGap'[r] = Greatest(serviceGap[r], Clock - Anchor(r))
      /\ \A q \in Requests : Anchor(q) \in Int
      /\ Clock \in Nat
      /\ serviceGap' \in [Requests -> Int]
  <2>1. pc \in {"decode", "prefill"} /\ serviceGap \in [Requests -> Int] /\ {r} \subseteq Requests
    BY <1>1, <1>4 DEF TurnInv, ServingOK
  <2>2. PICK S : S = {r}
    OBVIOUS
  <2>3. Progress(S) /\ S \subseteq Requests
    BY <1>1, <1>2, <2>1, <2>2
  <2>4. /\ \A q \in S : Anchor(q)' = Clock /\ lastProgress'[q] = Clock
        /\ \A q \in Requests \ S : /\ Anchor(q)' = Anchor(q)
                                   /\ lastProgress'[q] = lastProgress[q]
                                   /\ serviceGap'[q] = serviceGap[q]
        /\ \A q \in S : serviceGap'[q] = Greatest(serviceGap[q], Clock - Anchor(q))
        /\ \A q \in Requests : Anchor(q) \in Int
        /\ Clock \in Nat
        /\ serviceGap' \in [Requests -> Int]
    BY <1>1, <1>4, <2>1, <2>3, ProgressMarks
  <2> QED BY <2>2, <2>4
<1>7. ArrivalOK'
  <2>1. trace[r].arrival <= now
    BY <1>2, <1>4 DEF Arrived
  <2> QED BY <1>1, <1>6, <2>1 DEF TurnInv, ArrivalOK
<1>8. ServingOK'
  BY <1>1, <1>3, <1>6 DEF TurnInv, ServingOK
<1>9. WaitOK'
  <2>1. ASSUME NEW q \in Arrived', q \notin admitted' PROVE InTime(q)'
    <3>1. q \in Arrived \ admitted /\ q \in Requests
      BY <1>1, <1>4, <2>1
    <3>2. InTime(q)
      BY <3>1 DEF TurnInv, WaitOK
    <3> QED BY <1>1, <1>4, <1>5, <3>1, <3>2, WaitsOn
  <2>2. \E q \in Requests : q \in admitted' \/ Complete(q)'
    BY <1>1, <1>5 DEF TurnInv, WaitOK
  <2> QED BY <2>1, <2>2 DEF WaitOK
<1>10. ServiceOK'
  <2> SUFFICES ASSUME MaxAdmitted = 1 PROVE ServiceOK'
    BY DEF ServiceOK
  <2>1. \A q \in admitted : q = r
    BY <1>1, <1>2, OnePlace
  <2>2. \A q \in Arrived \ admitted : Anchor(q)' = waitingSince'[q]
    <3> TAKE q \in Arrived \ admitted
    <3>1. q \in Requests \ {r}
      BY <1>2, <1>4
    <3> QED BY <1>1, <1>6, <3>1 DEF TurnInv, ServiceOK
  <2>3. StarvationBound > 0 /\ StarvationBound \in Nat
    <3>1. StarvationBound = Patience + Trace * StepDuration /\ Patience \in Nat \ {0}
          /\ Trace * StepDuration \in Nat
      BY <1>4, BoundTypes
    <3> QED BY <3>1
  <2>4. Clock - Anchor(r) < StarvationBound /\ serviceGap[r] < StarvationBound
    BY <1>2, <1>4 DEF TurnInv, ServiceOK
  <2>5. \A q \in Requests : serviceGap'[q] < StarvationBound
    <3>1. serviceGap'[r] < StarvationBound
      BY <1>6, <2>4 DEF Greatest
    <3>2. \A q \in Requests \ {r} : serviceGap'[q] < StarvationBound
      BY <1>6 DEF TurnInv, ServiceOK
    <3> QED BY <3>1, <3>2
  <2>6. \A q \in admitted : Anchor(q)' = Clock
    BY <1>6, <2>1
  <2> QED BY <1>1, <1>4, <1>5, <1>6, <2>2, <2>3, <2>5, <2>6 DEF ServiceOK
<1> QED BY <1>7, <1>8, <1>9, <1>10 DEF TurnInv

LEMMA RecordTurns ==
    ASSUME IInv, TurnInv, Record
    PROVE  TurnInv'
<1>1. /\ UNCHANGED <<trace, decodeLeft, admitted, waitingSince, lastProgress, serviceGap>>
      /\ pc = "prefill" /\ pc' = "loop" /\ now' = now + StepDuration
      /\ TotalUsed > 0
  BY RecordAdvances DEF Record, work, marks
<1>2. /\ WorkOK /\ admitted \subseteq Arrived /\ Arrived \subseteq Requests
      /\ now \in Nat /\ StepDuration \in Nat \ {0} /\ now' \in Nat /\ now <= now'
  <2>1. WorkOK /\ admitted \subseteq Arrived /\ Arrived \subseteq Requests /\ now \in Nat
    BY ArrivedFinite DEF IInv, AdmittedOK, WorkOK
  <2> QED BY <1>1, <2>1, SimulationAssumption
<1>3. /\ HeadStart' = HeadStart /\ StarvationBound' = StarvationBound /\ Clock' = Clock
      /\ \A q \in Requests : /\ (Complete(q)' <=> Complete(q)) /\ Ahead(q)' = Ahead(q)
                             /\ Anchor(q)' = Anchor(q)
  <2>1. HeadStart' = HeadStart
    BY <1>1 DEF HeadStart
  <2> QED BY <1>1, <2>1 DEF StarvationBound, Clock, Complete, Ahead, Anchor
<1>4. \A r \in Requests : trace[r].arrival \in Nat /\ waitingSince[r] \in Nat
  BY <1>2, TraceFields DEF WorkOK
<1>5. ASSUME NEW r \in Arrived', r \notin Arrived
      PROVE  /\ r \in Requests /\ ~Complete(r) /\ lastProgress[r] = Never
             /\ waitingSince[r] = trace[r].arrival
             /\ now < waitingSince[r] /\ waitingSince[r] <= now'
  <2>1. r \in Requests /\ ~Complete(r) /\ trace[r].arrival <= now'
    BY <1>1, <1>5 DEF Arrived, Complete
  <2>2. ~(trace[r].arrival <= now)
    BY <1>5, <2>1 DEF Arrived
  <2> QED BY <1>2, <1>4, <2>1, <2>2 DEF TurnInv, ArrivalOK
<1>6. ArrivalOK'
  BY <1>1, <1>2, <1>4 DEF TurnInv, ArrivalOK
<1>7. ServingOK'
  BY <1>1 DEF TurnInv, ServingOK
<1>8. WaitOK'
  <2>1. ASSUME NEW r \in Arrived', r \notin admitted' PROVE InTime(r)'
    <3>1. CASE r \in Arrived
      <4>1. r \in Requests /\ r \in Arrived \ admitted
        BY <1>1, <1>2, <2>1, <3>1
      <4>2. InTime(r)
        BY <4>1 DEF TurnInv, WaitOK
      <4> QED BY <1>1, <1>2, <1>3, <4>1, <4>2, WaitsOn
    <3>2. CASE r \notin Arrived
      <4>1. r \in Requests /\ ~Complete(r) /\ now < waitingSince[r] /\ waitingSince[r] \in Int
        BY <1>4, <1>5, <2>1, <3>2
      <4>2. waitingSince'[r] \in Int /\ now' - waitingSince'[r] < StepDuration
            /\ now' \in Int /\ pc' \notin {"decode", "prefill"}
        BY <1>1, <1>2, <4>1
      <4>3. PICK q \in Requests : q \in admitted \/ Complete(q)
        BY <1>1 DEF TurnInv, WaitOK
      <4>4. q # r /\ q \notin Ahead(r)'
        <5>1. q # r
          BY <1>2, <3>2, <4>1, <4>3
        <5>2. q \notin Ahead(r)
          BY <4>3 DEF Ahead
        <5> QED BY <1>3, <4>1, <5>1, <5>2
      <4>5. \E p \in Requests \ {r} : p \notin Ahead(r)'
        BY <4>3, <4>4
      <4> QED BY <1>1, <1>2, <4>1, <4>2, <4>5, ArrivesInTime
    <3> QED BY <3>1, <3>2
  <2> QED BY <1>1, <2>1 DEF WaitOK
<1>9. ServiceOK'
  <2> SUFFICES ASSUME MaxAdmitted = 1 PROVE ServiceOK'
    BY DEF ServiceOK
  <2>1. ASSUME NEW r \in Arrived', r \notin admitted' PROVE Anchor(r)' = waitingSince'[r]
    <3>1. r \in Requests
      BY <2>1 DEF Arrived
    <3>2. CASE r \in Arrived
      BY <1>1, <1>3, <2>1, <3>1, <3>2 DEF TurnInv, ServiceOK
    <3>3. CASE r \notin Arrived
      <4>1. Anchor(r) = waitingSince[r]
        BY <1>5, <2>1, <3>3 DEF Anchor
      <4> QED BY <1>1, <1>3, <3>1, <4>1
    <3> QED BY <3>2, <3>3
  <2>2. \A r \in admitted : Anchor(r) = Clock /\ Clock - Anchor(r) < StarvationBound
    BY <1>1 DEF TurnInv, ServiceOK
  <2>3. \A r \in admitted : Anchor(r)' = Clock' /\ Clock' - Anchor(r)' < StarvationBound'
    <3>1. admitted \subseteq Requests
      BY <1>2
    <3> QED BY <1>3, <2>2, <3>1
  <2>4. \A r \in Requests : serviceGap'[r] < StarvationBound'
    BY <1>1, <1>3 DEF TurnInv, ServiceOK
  <2> QED BY <1>1, <2>1, <2>3, <2>4 DEF ServiceOK
<1> QED BY <1>6, <1>7, <1>8, <1>9 DEF TurnInv

LEMMA NextTurnInv ==
    ASSUME AllowPreemption, IInv, TurnInv, [Next]_vars
    PROVE  TurnInv'
BY QuietTurns, JumpTurns, AdmitTakesTurns, DecodeTurns, ChunkTurns, RecordTurns DEF Next

LEMMA TurnsBoundWaits ==
    ASSUME IInv, TurnInv
    PROVE  NoStarvation
<1>1. WorkOK /\ Arrived \subseteq Requests
  BY ArrivedFinite DEF IInv
<1>2. ASSUME NEW r \in Arrived \ admitted PROVE now - waitingSince[r] < StarvationBound
  <2>1. r \in Requests /\ InTime(r)
    BY <1>1, <1>2 DEF TurnInv, WaitOK
  <2>2. Clock - waitingSince[r] < StarvationBound
    BY <1>1, <2>1, WaitAllowsStep
  <2>3. now <= Clock /\ Clock \in Int /\ now \in Int
    BY <1>1, SimulationAssumption DEF Clock, WorkOK
  <2>4. waitingSince[r] \in Int /\ StarvationBound \in Int
    BY <1>1, <2>1, BoundTypes DEF WorkOK
  <2> QED BY <2>2, <2>3, <2>4
<1> QED BY <1>2 DEF TurnInv, ServiceOK, NoStarvation

-----------------------------------------------------------------------------
(* What is spent is what the requests got                                    *)

LEMMA TokensFinite ==
    ASSUME NEW n \in [Requests -> Nat]
    PROVE  IsFiniteSet(TokensUpTo(n)) /\ Cardinality(TokensUpTo(n)) \in Nat
<1> DEFINE line == [r \in Requests |-> {r} \X (1..n[r])]
           L    == {{r} \X (1..n[r]) : r \in Requests}
<1>1. line \in [Requests -> L] /\ \A l \in L : \E r \in Requests : line[r] = l
  OBVIOUS
<1>2. IsFiniteSet(L)
  <2> HIDE DEF line, L
  <2>1. line \in Surjection(Requests, L)
    BY <1>1, Fun_IsSurj
  <2> QED BY <2>1, RequestsFinite, FS_Surjection
<1>3. \A l \in L : IsFiniteSet(l)
  <2> SUFFICES ASSUME NEW r \in Requests PROVE IsFiniteSet({r} \X (1..n[r]))
    OBVIOUS
  <2>1. IsFiniteSet({r})
    BY FS_Singleton, Zenon
  <2>2. IsFiniteSet(1..n[r])
    BY FS_Interval
  <2> QED BY <2>1, <2>2, FS_Product
<1>4. IsFiniteSet(UNION L)
  <2> HIDE DEF L
  <2> QED BY <1>2, <1>3, FS_UNION
<1>5. TokensUpTo(n) = UNION L
  BY DEF TokensUpTo
<1> QED BY <1>4, <1>5, FS_CardinalityType

LEMMA TokenOf ==
    ASSUME NEW n \in [Requests -> Nat], NEW r \in Requests, NEW k
    PROVE  <<r, k>> \in TokensUpTo(n) <=> k \in 1..n[r]
BY DEF TokensUpTo

(* Whoever got more than another got more tokens, all together. *)
LEMMA MoreTokens ==
    ASSUME NEW n \in [Requests -> Nat], NEW m \in [Requests -> Nat],
           \A q \in Requests : n[q] <= m[q]
    PROVE  /\ Cardinality(TokensUpTo(n)) <= Cardinality(TokensUpTo(m))
           /\ (\E q \in Requests : n[q] < m[q]) =>
                 Cardinality(TokensUpTo(n)) < Cardinality(TokensUpTo(m))
<1>1. TokensUpTo(n) \subseteq TokensUpTo(m)
  <2>1. \A q \in Requests : {q} \X (1..n[q]) \subseteq {q} \X (1..m[q])
    OBVIOUS
  <2> QED BY <2>1 DEF TokensUpTo
<1>2. /\ IsFiniteSet(TokensUpTo(m)) /\ Cardinality(TokensUpTo(m)) \in Nat
      /\ Cardinality(TokensUpTo(n)) \in Nat
  BY TokensFinite
<1>3. /\ Cardinality(TokensUpTo(n)) <= Cardinality(TokensUpTo(m))
      /\ Cardinality(TokensUpTo(m)) = Cardinality(TokensUpTo(n)) => TokensUpTo(m) = TokensUpTo(n)
  BY <1>1, <1>2, FS_Subset
<1>4. ASSUME NEW q \in Requests, n[q] < m[q] PROVE TokensUpTo(m) # TokensUpTo(n)
  <2>1. m[q] \in 1..m[q] /\ m[q] \notin 1..n[q]
    BY <1>4
  <2>2. <<q, m[q]>> \in TokensUpTo(m) /\ <<q, m[q]>> \notin TokensUpTo(n)
    BY <2>1, TokenOf
  <2> QED BY <2>2
<1> QED BY <1>2, <1>3, <1>4

(* k tokens for one request are k tokens more. *)
LEMMA OneGetsTokens ==
    ASSUME NEW n \in [Requests -> Nat], NEW m \in [Requests -> Nat], NEW r \in Requests,
           NEW k \in Nat, \A q \in Requests : m[q] = n[q] + (IF q = r THEN k ELSE 0)
    PROVE  Cardinality(TokensUpTo(m)) = Cardinality(TokensUpTo(n)) + k
<1> DEFINE new == {r} \X ((n[r] + 1)..(n[r] + k))
<1>1. IsFiniteSet(new) /\ Cardinality(new) = k
  <2>1. IsFiniteSet({r}) /\ Cardinality({r}) = 1
    BY FS_Singleton, Zenon
  <2>2. /\ IsFiniteSet((n[r] + 1)..(n[r] + k))
        /\ Cardinality((n[r] + 1)..(n[r] + k)) = k
    <3>1. \A a, b \in Int : /\ IsFiniteSet(a..b)
                            /\ Cardinality(a..b) = IF a > b THEN 0 ELSE b - a + 1
      BY FS_Interval
    <3>2. PICK a, b \in Int : a = n[r] + 1 /\ b = n[r] + k
      OBVIOUS
    <3>3. (IF a > b THEN 0 ELSE b - a + 1) = k
      BY <3>2
    <3>4. Cardinality(a..b) = k /\ IsFiniteSet(a..b)
      BY <3>1, <3>3
    <3> QED BY <3>2, <3>4
  <2>3. IsFiniteSet(new)
        /\ Cardinality(new) = Cardinality({r}) * Cardinality((n[r] + 1)..(n[r] + k))
    BY <2>1, <2>2, FS_Product
  <2> QED BY <2>1, <2>2, <2>3
<1>2. TokensUpTo(m) = TokensUpTo(n) \cup new
  <2>1. \A q \in Requests :
          {q} \X (1..m[q]) = ({q} \X (1..n[q])) \cup (IF q = r THEN new ELSE {})
    OBVIOUS
  <2> HIDE DEF new
  <2> QED BY <2>1 DEF TokensUpTo
<1>3. TokensUpTo(n) \cap new = {}
  <2> SUFFICES ASSUME NEW t \in new PROVE t \notin TokensUpTo(n)
    OBVIOUS
  <2>1. PICK j \in (n[r] + 1)..(n[r] + k) : t = <<r, j>>
    OBVIOUS
  <2> HIDE DEF new
  <2>2. j \notin 1..n[r]
    OBVIOUS
  <2> QED BY <2>1, <2>2, TokenOf
<1> HIDE DEF new
<1>4. IsFiniteSet(TokensUpTo(n)) /\ Cardinality(TokensUpTo(n)) \in Nat
  BY TokensFinite
<1>5. Cardinality(TokensUpTo(n) \cup new)
        = Cardinality(TokensUpTo(n)) + Cardinality(new) - Cardinality(TokensUpTo(n) \cap new)
  BY <1>1, <1>4, FS_Union
<1>6. Cardinality(TokensUpTo(n) \cap new) = 0
  BY <1>3, FS_EmptySet
<1> QED BY <1>1, <1>2, <1>4, <1>5, <1>6

(* A token for each of some requests is as many tokens as they are. *)
LEMMA EachGetsToken ==
    ASSUME NEW n \in [Requests -> Nat], NEW m \in [Requests -> Nat], NEW S \in SUBSET Requests,
           \A q \in Requests : m[q] = n[q] + (IF q \in S THEN 1 ELSE 0)
    PROVE  /\ Cardinality(TokensUpTo(m)) = Cardinality(TokensUpTo(n)) + Cardinality(S)
           /\ Cardinality(S) \in Nat
<1> DEFINE new  == {<<q, n[q] + 1>> : q \in S}
           next == [q \in S |-> <<q, n[q] + 1>>]
<1>1. IsFiniteSet(S) /\ Cardinality(S) \in Nat
  BY RequestsFinite, FS_Subset, FS_CardinalityType
<1>2. IsFiniteSet(new) /\ Cardinality(new) = Cardinality(S)
  <2>1. /\ next \in [S -> new] /\ \A t \in new : \E q \in S : next[q] = t
        /\ \A p, q \in S : next[p] = next[q] => p = q
    OBVIOUS
  <2> HIDE DEF new, next
  <2>2. next \in Bijection(S, new)
    BY <2>1, Fun_IsBij
  <2>3. ExistsBijection(S, new)
    BY <2>2 DEF ExistsBijection
  <2> QED BY <2>3, <1>1, FS_Bijection
<1>3. TokensUpTo(m) = TokensUpTo(n) \cup new
  <2>1. ASSUME NEW t \in TokensUpTo(m) PROVE t \in TokensUpTo(n) \cup new
    <3>1. PICK q \in Requests : t \in {q} \X (1..m[q])
      BY <2>1 DEF TokensUpTo
    <3>2. PICK k \in 1..m[q] : t = <<q, k>>
      BY <3>1
    <3>3. k \in 1..n[q] \/ (q \in S /\ k = n[q] + 1)
      OBVIOUS
    <3>4. k \in 1..n[q] => t \in TokensUpTo(n)
      BY <3>2, TokenOf
    <3> QED BY <3>2, <3>3, <3>4
  <2>2. ASSUME NEW t \in TokensUpTo(n) PROVE t \in TokensUpTo(m)
    <3>1. PICK q \in Requests : t \in {q} \X (1..n[q])
      BY <2>2 DEF TokensUpTo
    <3>2. PICK k \in 1..n[q] : t = <<q, k>>
      BY <3>1
    <3>3. k \in 1..m[q]
      OBVIOUS
    <3> QED BY <3>2, <3>3, TokenOf
  <2>3. ASSUME NEW t \in new PROVE t \in TokensUpTo(m)
    <3>1. PICK q \in S : t = <<q, n[q] + 1>>
      BY <2>3
    <3>2. q \in Requests /\ n[q] + 1 \in 1..m[q]
      OBVIOUS
    <3> QED BY <3>1, <3>2, TokenOf
  <2> HIDE DEF new
  <2> QED BY <2>1, <2>2, <2>3
<1>4. TokensUpTo(n) \cap new = {}
  <2> SUFFICES ASSUME NEW t \in new PROVE t \notin TokensUpTo(n)
    OBVIOUS
  <2>1. PICK q \in S : t = <<q, n[q] + 1>>
    OBVIOUS
  <2>2. q \in Requests /\ n[q] + 1 \notin 1..n[q]
    OBVIOUS
  <2> HIDE DEF new
  <2> QED BY <2>1, <2>2, TokenOf
<1> HIDE DEF new
<1>5. IsFiniteSet(TokensUpTo(n)) /\ Cardinality(TokensUpTo(n)) \in Nat
  BY TokensFinite
<1>6. Cardinality(TokensUpTo(n) \cup new)
        = Cardinality(TokensUpTo(n)) + Cardinality(new) - Cardinality(TokensUpTo(n) \cap new)
  BY <1>2, <1>5, FS_Union
<1>7. Cardinality(TokensUpTo(n) \cap new) = 0
  BY <1>4, FS_EmptySet
<1> QED BY <1>1, <1>2, <1>3, <1>5, <1>6, <1>7

(* A step's budget, with what the stages take over from one another.         *)
LEMMA TotalWithinBudget ==
    ASSUME PolicyOK, NEW s, s.available = AvailableBudget, Decide(s)
    PROVE  decision'.total <= MaxBudget
<1>1. {MinBudget, MaxBudget} \subseteq Nat /\ Adaptive \in BOOLEAN
  BY PolicyAssumption DEF ConfigAccepted
<1>2. \A base \in MinBudget..MaxBudget : Capped(base, s) <= MaxBudget
  BY <1>1, SimulationAssumption DEF Capped, Least, NoCap
<1>3. \A total, target, most, changed : Decision(total, s, target, most, changed).total = total
  BY DEF Decision
<1>4. CASE ~Adaptive
  <2>1. decision' = Decision(Capped(budget, s), s, s.decode, MaxAdmitted, FALSE)
    BY <1>4 DEF Decide, DecideFixed
  <2>2. decision'.total = Capped(budget, s)
    BY <2>1, <1>3
  <2> QED BY <1>2, <2>2 DEF PolicyOK
<1>5. CASE Adaptive
  <2> DEFINE next == BudgetAfter(DesiredDirection(s))
             total == Capped(next, s)
  <2>1. decision' = Decision(total, s, DecodeTarget(total, s), LimitAfter(s), next # budget)
    BY <1>5 DEF Decide, DecideAdaptive
  <2>2. next \in MinBudget..MaxBudget
    BY DirectionType, BudgetStaysBounded DEF PolicyOK
  <2> HIDE DEF next
  <2>3. decision'.total = total
    BY <2>1, <1>3
  <2> QED BY <1>2, <2>2, <2>3
<1> QED BY <1>1, <1>4, <1>5

(* What a request still needs, and what it must have had before that.        *)
NeedOK ==
    \A r \in Requests : /\ prefillLeft[r] <= trace[r].prompt
                        /\ decodeLeft[r] <= trace[r].output
                        /\ prefillLeft[r] > 0 => decodeLeft[r] = trace[r].output

(* A step's decision stays within the largest budget, and nothing is spent   *)
(* outside its stages.                                                       *)
BudgetOK ==
    /\ pc \in {"admit", "decode", "prefill"} => decision.total <= MaxBudget
    /\ pc # "prefill" => TotalUsed = 0

(* The steps recorded, and the one that has spent something already.         *)
StepsTaken == step + (IF TotalUsed > 0 THEN 1 ELSE 0)

CountOK ==
    /\ step \in Nat
    /\ StepsTaken <= Cardinality(Processed)
    /\ Cardinality(Processed) <= step * MaxBudget + TotalUsed

EndOK ==
    /\ pc = "done" => \A r \in Requests : Complete(r)
    /\ pc = "limit" => step >= MaxSteps /\ \E r \in Requests : ~Complete(r)

SpendInv == NeedOK /\ BudgetOK /\ CountOK /\ EndOK

Got    == [r \in Requests |-> Service(r)]
Needed == [r \in Requests |-> trace[r].prompt + trace[r].output]

LEMMA GotTypes ==
    ASSUME IInv, NeedOK
    PROVE  /\ Got \in [Requests -> Nat] /\ Needed \in [Requests -> Nat]
           /\ \A r \in Requests : Got[r] <= Needed[r]
           /\ \A r \in Requests : ~Complete(r) => Got[r] < Needed[r]
           /\ \A r \in Requests : Complete(r) => Got[r] = Needed[r]
           /\ Processed = TokensUpTo(Got) /\ Tokens = TokensUpTo(Needed)
           /\ Cardinality(Processed) \in Nat /\ Cardinality(Tokens) \in Nat
<1>1. \A r \in Requests :
        /\ trace[r].prompt \in Nat \ {0} /\ trace[r].output \in Nat \ {0}
        /\ prefillLeft[r] \in Nat /\ decodeLeft[r] \in Nat
        /\ prefillLeft[r] <= trace[r].prompt /\ decodeLeft[r] <= trace[r].output
        /\ prefillLeft[r] > 0 => decodeLeft[r] = trace[r].output
  BY TraceFields DEF IInv, WorkOK, NeedOK
<1>2. \A r \in Requests :
        /\ Service(r) \in Nat /\ trace[r].prompt + trace[r].output \in Nat
        /\ Service(r) <= trace[r].prompt + trace[r].output
        /\ ~Complete(r) => Service(r) < trace[r].prompt + trace[r].output
        /\ Complete(r) => Service(r) = trace[r].prompt + trace[r].output
  BY <1>1 DEF Service, Complete
<1>3. Processed = TokensUpTo(Got) /\ Tokens = TokensUpTo(Needed)
  BY DEF Processed, Tokens, Got, Needed
<1>4. Got \in [Requests -> Nat] /\ Needed \in [Requests -> Nat]
  BY <1>2 DEF Got, Needed
<1> QED BY <1>2, <1>3, <1>4, TokensFinite DEF Got, Needed

LEMMA InitSpends == Init => SpendInv
<1> SUFFICES ASSUME Init PROVE SpendInv
  OBVIOUS
<1>1. /\ pc = "loop" /\ step = 0 /\ used = NothingUsed
      /\ prefillLeft = [r \in Requests |-> trace[r].prompt]
      /\ decodeLeft = [r \in Requests |-> trace[r].output]
  BY DEF Init
<1>2. IInv
  BY InitIInv
<1>3. \A r \in Requests : trace[r].prompt \in Nat /\ trace[r].output \in Nat
  BY <1>2, TraceFields DEF IInv
<1>4. NeedOK
  BY <1>1, <1>3 DEF NeedOK
<1>5. TotalUsed = 0
  BY <1>1 DEF TotalUsed, NothingUsed
<1>6. Processed = {}
  <2>1. \A r \in Requests : Service(r) = 0
    BY <1>1, <1>3 DEF Service
  <2>2. \A r \in Requests : Got[r] = 0
    BY <2>1 DEF Got
  <2>3. \A r \in Requests : 1..Got[r] = {}
    BY <2>2
  <2>4. TokensUpTo(Got) = {}
    BY <2>3 DEF TokensUpTo
  <2> QED BY <2>4 DEF Processed, Got
<1>7. Cardinality(Processed) = 0
  BY <1>6, FS_EmptySet
<1>8. CountOK
  <2>1. MaxBudget \in Nat
    BY PolicyAssumption DEF ConfigAccepted
  <2> QED BY <1>1, <1>5, <1>7, <2>1 DEF CountOK, StepsTaken
<1> QED BY <1>1, <1>4, <1>5, <1>8 DEF SpendInv, BudgetOK, EndOK

(* Nothing is processed or spent outside the stages.                          *)
LEMMA QuietSpends ==
    ASSUME IInv, SpendInv, Finish \/ GiveUp \/ Jump \/ DecideBudget \/ Admit \/ UNCHANGED vars
    PROVE  SpendInv'
<1>1. UNCHANGED <<trace, step, prefillLeft, decodeLeft, used>>
  BY DEF Finish, GiveUp, Jump, DecideBudget, Admit, vars, clock, work
<1>2. /\ TotalUsed' = TotalUsed /\ Processed' = Processed
      /\ \A r \in Requests : Complete(r)' <=> Complete(r)
  BY <1>1 DEF TotalUsed, Processed, Service, TokensUpTo, Complete
<1>3. NeedOK'
  BY <1>1 DEF SpendInv, NeedOK
<1>4. CountOK'
  BY <1>1, <1>2 DEF SpendInv, CountOK, StepsTaken
<1>5. BudgetOK' /\ EndOK'
  <2>1. CASE Finish
    BY <2>1, <1>2 DEF Finish, SpendInv, BudgetOK, EndOK
  <2>2. CASE GiveUp
    BY <2>2, <1>1, <1>2 DEF GiveUp, SpendInv, BudgetOK, EndOK
  <2>3. CASE Jump
    BY <2>3, <1>2 DEF Jump, SpendInv, BudgetOK, EndOK
  <2>4. CASE DecideBudget
    <3>1. PICK ttft, tpot : Decide(SignalsNow(ttft, tpot))
      BY <2>4 DEF DecideBudget
    <3>2. SignalsNow(ttft, tpot).available = AvailableBudget
      BY DEF SignalsNow
    <3>3. decision'.total <= MaxBudget
      <4> DEFINE s == SignalsNow(ttft, tpot)
      <4>1. Decide(s) /\ s.available = AvailableBudget /\ PolicyOK
        BY <3>1, <3>2 DEF IInv
      <4> HIDE DEF s
      <4> QED BY <4>1, TotalWithinBudget
    <3> QED BY <2>4, <1>2, <3>3 DEF DecideBudget, SpendInv, BudgetOK, EndOK
  <2>5. CASE Admit
    BY <2>5, <1>2 DEF Admit, policyVars, SpendInv, BudgetOK, EndOK
  <2>6. CASE UNCHANGED vars
    BY <2>6, <1>1, <1>2 DEF vars, policyVars, SpendInv, BudgetOK, EndOK
  <2> QED BY <2>1, <2>2, <2>3, <2>4, <2>5, <2>6
<1> QED BY <1>3, <1>4, <1>5 DEF SpendInv

(* The decode stage hands out one token for each it reports.                  *)
LEMMA DecodeSpends ==
    ASSUME IInv, SpendInv, Decode
    PROVE  SpendInv'
<1> DEFINE S        == Decoding(admitted)
           capacity == decision.decode + (IF Prefilling(admitted) = {} THEN decision.prefill ELSE 0)
<1>1. UNCHANGED <<decision, trace, step, prefillLeft>> /\ pc = "decode" /\ pc' = "prefill"
  BY DEF Decode, policyVars, clock
<1>2. PICK served : /\ served = Orders(FirstServed(Candidates(S), capacity, now))
                    /\ decodeLeft' = [r \in Requests |->
                           decodeLeft[r] - (IF r \in served THEN 1 ELSE 0)]
                    /\ used' = [decode |-> Cardinality(served), prefill |-> 0]
  BY DEF Decode
<1>3. S \subseteq Requests /\ \A r \in S : prefillLeft[r] = 0 /\ decodeLeft[r] # 0
  BY ArrivedFinite DEF IInv, AdmittedOK, Decoding, Complete
<1>4. capacity \in Nat
  BY <1>1 DEF IInv, DecisionOK
<1>5. served \subseteq S /\ Cardinality(served) \in Nat
  <2> HIDE DEF S, capacity
  <2> QED BY <1>2, <1>3, <1>4, ServedOf DEF IInv
<1> HIDE DEF S, capacity
<1>6. served \in SUBSET Requests /\ \A r \in served : prefillLeft[r] = 0 /\ decodeLeft[r] # 0
  BY <1>3, <1>5
<1>7. IInv' /\ NeedOK
  BY DecodeKeeps DEF SpendInv
<1>8. \A r \in Requests :
        /\ prefillLeft[r] \in Nat /\ decodeLeft[r] \in Nat
        /\ trace[r].prompt \in Nat /\ trace[r].output \in Nat
        /\ prefillLeft'[r] = prefillLeft[r] /\ trace'[r] = trace[r]
        /\ decodeLeft'[r] = decodeLeft[r] - (IF r \in served THEN 1 ELSE 0)
  BY <1>1, <1>2, TraceFields DEF IInv, WorkOK
<1>9. NeedOK'
  BY <1>6, <1>7, <1>8 DEF NeedOK
<1>10. Cardinality(Processed') = Cardinality(Processed) + Cardinality(served)
       /\ Cardinality(Processed) \in Nat
  <2>1. PICK n, m : n = Got /\ m = Got'
    OBVIOUS
  <2>2. /\ n \in [Requests -> Nat] /\ Processed = TokensUpTo(n)
        /\ Cardinality(Processed) \in Nat
    BY <2>1, <1>7, GotTypes
  <2>3. \A q \in Requests : n[q] = Service(q) /\ m[q] = Service(q)'
    BY <2>1 DEF Got
  <2>4. \A q \in Requests : m[q] = n[q] + (IF q \in served THEN 1 ELSE 0)
    BY <2>3, <1>8 DEF Service
  <2>5. m \in [Requests -> Nat]
    <3>1. DOMAIN m = Requests /\ m = [q \in Requests |-> m[q]]
      BY <2>1 DEF Got
    <3>2. \A q \in Requests : m[q] \in Nat
      BY <2>2, <2>4
    <3> QED BY <3>1, <3>2
  <2>6. Processed' = TokensUpTo(m)
    BY <2>1 DEF Processed, Got, TokensUpTo
  <2> QED BY <2>2, <2>4, <2>5, <2>6, <1>6, EachGetsToken
<1>11. TotalUsed = 0 /\ TotalUsed' = Cardinality(served)
  BY <1>1, <1>2, <1>5 DEF TotalUsed, SpendInv, BudgetOK
<1>12. CountOK'
  <2>1. step \in Nat /\ step <= Cardinality(Processed)
        /\ Cardinality(Processed) <= step * MaxBudget + 0 /\ MaxBudget \in Nat
    BY <1>11, PolicyAssumption DEF SpendInv, CountOK, StepsTaken, ConfigAccepted
  <2>2. step * MaxBudget \in Nat
    BY <2>1
  <2> QED BY <2>1, <2>2, <1>1, <1>5, <1>10, <1>11 DEF CountOK, StepsTaken
<1>13. BudgetOK' /\ EndOK'
  BY <1>1 DEF SpendInv, BudgetOK, EndOK
<1> QED BY <1>9, <1>12, <1>13 DEF SpendInv

(* A chunk of prefill is what its request still needs less afterwards.        *)
LEMMA ChunkSpends ==
    ASSUME IInv, SpendInv, Chunk
    PROVE  SpendInv'
<1> DEFINE i == Min(Round)
           r == queue.order[i]
           tokens == Min({prefillLeft[r], PrefillQuantum, pool})
<1>1. /\ UNCHANGED <<decision, trace, step, decodeLeft, pc>>
      /\ pc = "prefill" /\ pool > 0 /\ Round # {}
      /\ prefillLeft' = [prefillLeft EXCEPT ![r] = @ - tokens]
      /\ used' = [used EXCEPT !.prefill = @ + tokens]
  BY DEF Chunk, policyVars, clock
<1>2. i \in DOMAIN queue.order /\ r \in Requests /\ prefillLeft[r] > 0
  <2>1. Round \subseteq DOMAIN queue.order /\ \A k \in Round : prefillLeft[queue.order[k]] > 0
    BY DEF Round, Unserved
  <2>2. IsFiniteSet(Round) /\ Round \subseteq Int
    BY RoundFinite
  <2>3. i \in Round
    BY <1>1, <2>2, MinIsLeast
  <2> HIDE DEF i
  <2> QED BY <2>1, <2>3 DEF IInv, QueueOK
<1>3. /\ prefillLeft[r] \in Nat /\ PrefillQuantum \in Nat \ {0} /\ pool \in Nat
      /\ DOMAIN used = {"decode", "prefill"} /\ used.decode \in Nat /\ used.prefill \in Nat
  <2> HIDE DEF r
  <2> QED BY <1>2, SimulationAssumption DEF IInv, WorkOK, SpentOK
<1>4. tokens \in Nat \ {0} /\ tokens <= prefillLeft[r]
  <2> HIDE DEF r
  <2>1. tokens \in {prefillLeft[r], PrefillQuantum, pool} /\ tokens <= prefillLeft[r]
    <3>1. prefillLeft[r] \in Int /\ PrefillQuantum \in Int /\ pool \in Int
      BY <1>3
    <3>2. \A a, b, c \in Int : Min({a, b, c}) \in {a, b, c} /\ Min({a, b, c}) <= a
      BY MinOfThree
    <3> QED BY <3>1, <3>2
  <2> HIDE DEF tokens
  <2> QED BY <1>1, <1>2, <1>3, <2>1
<1> HIDE DEF i, r, tokens
<1>5. NeedOK
  BY DEF SpendInv
<1>6. \A q \in Requests :
        /\ prefillLeft[q] \in Nat /\ decodeLeft[q] \in Nat
        /\ trace[q].prompt \in Nat /\ trace[q].output \in Nat
        /\ decodeLeft'[q] = decodeLeft[q] /\ trace'[q] = trace[q]
        /\ prefillLeft'[q] = prefillLeft[q] - (IF q = r THEN tokens ELSE 0)
  BY <1>1, <1>2, <1>4, TraceFields DEF IInv, WorkOK
<1>7. NeedOK'
  BY <1>2, <1>4, <1>5, <1>6 DEF NeedOK
<1>8. Cardinality(Processed') = Cardinality(Processed) + tokens
      /\ Cardinality(Processed) \in Nat
  <2>1. PICK n, m : n = Got /\ m = Got'
    OBVIOUS
  <2>2. /\ n \in [Requests -> Nat] /\ Processed = TokensUpTo(n)
        /\ Cardinality(Processed) \in Nat
    BY <2>1, <1>5, GotTypes
  <2>3. \A q \in Requests : n[q] = Service(q) /\ m[q] = Service(q)'
    BY <2>1 DEF Got
  <2>4. \A q \in Requests : m[q] = n[q] + (IF q = r THEN tokens ELSE 0)
    BY <2>3, <1>4, <1>6 DEF Service
  <2>5. m \in [Requests -> Nat]
    <3>1. m = [q \in Requests |-> m[q]]
      BY <2>1 DEF Got
    <3>2. \A q \in Requests : m[q] \in Nat
      BY <2>2, <2>4, <1>4
    <3> QED BY <3>1, <3>2
  <2>6. Processed' = TokensUpTo(m)
    BY <2>1 DEF Processed, Got, TokensUpTo
  <2> QED BY <2>2, <2>4, <2>5, <2>6, <1>2, <1>4, OneGetsTokens
<1>9. TotalUsed \in Nat /\ TotalUsed' = TotalUsed + tokens
  <2>1. used'.decode = used.decode /\ used'.prefill = used.prefill + tokens
    BY <1>1, <1>3
  <2> QED BY <1>3, <1>4, <2>1 DEF TotalUsed
<1>10. CountOK'
  <2>1. /\ step \in Nat /\ StepsTaken <= Cardinality(Processed)
        /\ Cardinality(Processed) <= step * MaxBudget + TotalUsed /\ MaxBudget \in Nat
    BY PolicyAssumption DEF SpendInv, CountOK, ConfigAccepted
  <2>2. step <= StepsTaken /\ StepsTaken \in Nat
    BY <1>9, <2>1 DEF StepsTaken
  <2>3. step \in Nat /\ step <= Cardinality(Processed)
        /\ Cardinality(Processed) <= step * MaxBudget + TotalUsed /\ MaxBudget \in Nat
    BY <1>8, <2>1, <2>2
  <2>4. step * MaxBudget \in Nat
    BY <2>3
  <2>5. StepsTaken' = step + 1
    BY <1>1, <1>4, <1>9 DEF StepsTaken
  <2>6. step' = step
    BY <1>1
  <2> QED BY <2>3, <2>4, <2>5, <2>6, <1>4, <1>8, <1>9 DEF CountOK
<1>11. BudgetOK' /\ EndOK'
  BY <1>1 DEF SpendInv, BudgetOK, EndOK
<1> QED BY <1>7, <1>10, <1>11 DEF SpendInv

(* A recorded step has spent something, and at most its budget.               *)
LEMMA RecordSpends ==
    ASSUME IInv, SpendInv, Record
    PROVE  SpendInv'
<1>1. /\ UNCHANGED <<decision, trace, prefillLeft, decodeLeft>>
      /\ pc = "prefill" /\ used' = NothingUsed
  BY DEF Record, policyVars, work
<1>2. TotalUsed > 0 /\ TotalUsed <= decision.total /\ TotalUsed \in Nat /\ pc' = "loop"
  BY RecordAdvances
<1>3. step' = step + 1
  BY <1>2 DEF Record
<1>4. Processed' = Processed
  BY <1>1 DEF Processed, Service, TokensUpTo
<1>5. TotalUsed' = 0
  BY <1>1 DEF TotalUsed, NothingUsed
<1>6. NeedOK'
  BY <1>1 DEF SpendInv, NeedOK
<1>7. CountOK'
  <2>1. /\ step \in Nat /\ MaxBudget \in Nat /\ step + 1 <= Cardinality(Processed)
        /\ Cardinality(Processed) <= step * MaxBudget + TotalUsed
    BY <1>2, PolicyAssumption DEF SpendInv, CountOK, StepsTaken, ConfigAccepted
  <2>2. decision.total <= MaxBudget /\ decision.total \in Int
    BY <1>1 DEF SpendInv, BudgetOK, IInv, DecisionOK
  <2>3. (step + 1) * MaxBudget = step * MaxBudget + MaxBudget /\ step * MaxBudget \in Nat
    BY <2>1
  <2>4. Cardinality(Processed) \in Nat
    BY GotTypes DEF SpendInv
  <2>5. Cardinality(Processed) <= (step + 1) * MaxBudget + 0
    BY <1>2, <2>1, <2>2, <2>3, <2>4
  <2> QED BY <1>3, <1>4, <1>5, <2>1, <2>5 DEF CountOK, StepsTaken
<1>8. BudgetOK' /\ EndOK'
  BY <1>2, <1>5 DEF BudgetOK, EndOK
<1> QED BY <1>6, <1>7, <1>8 DEF SpendInv

LEMMA NextSpends == IInv /\ SpendInv /\ [Next]_vars => SpendInv'
BY QuietSpends, DecodeSpends, ChunkSpends, RecordSpends DEF Next

-----------------------------------------------------------------------------
(* The theorems *)

(* Between the steps of the loop the admitted set is within the limit, a     *)
(* decision fits the work that is there, and the stages never hold more      *)
(* tokens than the decision gave them.                                       *)
THEOREM Invariant == Spec => []IInv
BY InitIInv, NextIInv, PTL DEF Spec

(* Whatever the trace, the policy and the controller do, no step of the loop *)
(* is empty and none spends more than its budget: neither RuntimeError of    *)
(* simulator.py 706-721 can be raised, and what the steps report is what the *)
(* requests got.                                                             *)
THEOREM StepsAlwaysPay == Spec => []StepsPay
<1>1. IInv /\ SpendInv => StepsPay
  <2> SUFFICES ASSUME IInv, SpendInv PROVE StepsPay
    OBVIOUS
  <2>1. step \in Nat /\ StepsTaken <= Cardinality(Processed)
        /\ Cardinality(Processed) <= step * MaxBudget + TotalUsed
    BY DEF SpendInv, CountOK
  <2>2. Cardinality(Processed) \in Nat
    BY GotTypes DEF SpendInv
  <2>3. step <= Cardinality(Processed)
    BY <2>1, <2>2 DEF StepsTaken
  <2> QED BY <2>1, <2>3 DEF IInv, PcOK, StepsPay
<1> QED BY <1>1, Invariant, InitSpends, NextSpends, PTL DEF Spec

(* A run that ends took a step for every budget's worth of tokens at least,   *)
(* and for each of its tokens at most: only a trace of more tokens than       *)
(* max_steps can exceed max_steps (simulator.py 655-660).                     *)
THEOREM RunLengthAlwaysFits == Spec => []RunLengthFits
<1>1. IInv /\ SpendInv => RunLengthFits
  <2> SUFFICES ASSUME IInv, SpendInv PROVE RunLengthFits
    OBVIOUS
  <2>1. /\ Got \in [Requests -> Nat] /\ Needed \in [Requests -> Nat]
        /\ \A r \in Requests : Got[r] <= Needed[r]
        /\ \A r \in Requests : ~Complete(r) => Got[r] < Needed[r]
        /\ \A r \in Requests : Complete(r) => Got[r] = Needed[r]
        /\ Processed = TokensUpTo(Got) /\ Tokens = TokensUpTo(Needed)
        /\ Cardinality(Processed) \in Nat /\ Cardinality(Tokens) \in Nat
    BY GotTypes DEF SpendInv
  <2>2. /\ step \in Nat /\ StepsTaken <= Cardinality(Processed)
        /\ Cardinality(Processed) <= step * MaxBudget + TotalUsed
        /\ pc # "prefill" => TotalUsed = 0
        /\ MaxBudget \in Nat /\ MaxSteps \in Nat
    BY PolicyAssumption, SimulationAssumption DEF SpendInv, CountOK, BudgetOK, ConfigAccepted
  <2>3. step <= Cardinality(Processed)
    BY <2>1, <2>2 DEF StepsTaken
  <2>4. ASSUME pc = "done"
        PROVE  step <= Cardinality(Tokens) /\ Cardinality(Tokens) <= step * MaxBudget
    <3>1. \A r \in Requests : Got[r] = Needed[r]
      BY <2>1, <2>4 DEF SpendInv, EndOK
    <3>2. Got = Needed
      BY <2>1, <3>1
    <3>3. Tokens = Processed /\ TotalUsed = 0
      BY <2>1, <2>2, <2>4, <3>2
    <3>4. step * MaxBudget \in Nat
      BY <2>2
    <3> QED BY <2>1, <2>2, <2>3, <3>3, <3>4
  <2>5. ASSUME pc = "limit" PROVE MaxSteps < Cardinality(Tokens)
    <3>1. step >= MaxSteps /\ \E r \in Requests : Got[r] < Needed[r]
      BY <2>1, <2>5 DEF SpendInv, EndOK
    <3>2. Cardinality(Processed) < Cardinality(Tokens)
      BY <2>1, <3>1, MoreTokens
    <3> QED BY <2>1, <2>2, <2>3, <3>1, <3>2
  <2> QED BY <2>4, <2>5 DEF RunLengthFits
<1> QED BY <1>1, Invariant, InitSpends, NextSpends, PTL DEF Spec

(* A step never preempts more than one reduction of the limit leaves over    *)
(* and the swaps it is allowed, and both stages see an admitted set within   *)
(* the limit that was decided for the step.                                   *)
THEOREM PreemptionsAlwaysBounded == Spec => []PreemptionsBounded
<1>1. IInv => PreemptionsBounded
  <2> SUFFICES ASSUME IInv PROVE PreemptionsBounded
    OBVIOUS
  <2>1. MaxPreemptions + AdmissionStep \in Nat
    BY PolicyAssumption, AdmissionAssumption DEF ConfigAccepted
  <2>2. \A i \in DOMAIN recent : recent[i] \in 0..(MaxPreemptions + AdmissionStep)
    <3>1. \A T : recent \in Seq(T) => \A i \in DOMAIN recent : recent[i] \in T
      OBVIOUS
    <3> QED BY <3>1 DEF IInv, RecentOK
  <2>3. pc \in {"decode", "prefill"} => Cardinality(admitted) <= decision.limit
    BY DEF IInv, AdmittedOK, DecisionOK
  <2> QED BY <2>1, <2>2, <2>3 DEF PreemptionsBounded
<1> QED BY <1>1, Invariant, PTL

(* Preemption allowed, nobody who arrived waits past the bound, whatever the  *)
(* trace, the policy, the limits and the budget, and with one place nobody   *)
(* goes without service past it (admission.py 98-113, 207-225).               *)
THEOREM NobodyStarves ==
    ASSUME AllowPreemption
    PROVE  Spec => []NoStarvation
<1>1. Init => IInv /\ TurnInv
  BY InitIInv, InitTurnInv
<1>2. IInv /\ TurnInv /\ [Next]_vars => (IInv /\ TurnInv)'
  BY NextIInv, NextTurnInv
<1>3. IInv /\ TurnInv => NoStarvation
  BY TurnsBoundWaits
<1> QED BY <1>1, <1>2, <1>3, PTL DEF Spec

=============================================================================
