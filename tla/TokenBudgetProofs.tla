------------------------- MODULE TokenBudgetProofs -------------------------
(***************************************************************************)
(* Proofs about the token-budget policies, for every configuration the     *)
(* code accepts and every sequence of signals.                             *)
(***************************************************************************)
EXTENDS TokenBudgetPolicy, TLAPS

USE DEF NoCap

(* A ceiling share of a positive total is a number. *)
LEMMA CeilShareType ==
    ASSUME NEW total \in Int, NEW share \in Int
    PROVE  CeilShare(total, share) \in Int
<1>1. ShareUnits \in Int /\ ShareUnits > 0
  BY PolicyAssumption DEF ConfigAccepted
<1>2. total * share + ShareUnits - 1 \in Int
  BY <1>1
<1> QED BY <1>1, <1>2 DEF CeilShare

LEMMA TargetType ==
    ASSUME NEW total \in Int, NEW s, s.decode \in Nat
    PROVE  DecodeTarget(total, s) \in Int
<1>1. MinimumPrefill \in Int /\ PrefillShare \in Int /\ PressureDecodeShare \in Int
      /\ MaxWaitPrefillShare \in Int /\ ShareUnits \in Int
  BY PolicyAssumption DEF ConfigAccepted
<1>2. /\ CeilShare(total, PressureDecodeShare) \in Int
      /\ CeilShare(total, MaxWaitPrefillShare) \in Int
      /\ CeilShare(total, ShareUnits - PrefillShare) \in Int
  <2>1. ShareUnits - PrefillShare \in Int
    BY <1>1
  <2>2. \A share \in Int : CeilShare(total, share) \in Int
    BY CeilShareType
  <2> QED BY <1>1, <2>1, <2>2
<1> QED BY <1>1, <1>2 DEF DecodeTarget, Reservation, Least, Greatest

(* _split_budget splits: the decode part lies between nothing and all.  A    *)
(* total of two or more leaves each stage with work at least one token.     *)
LEMMA SplitIsFair ==
    ASSUME NEW total \in Nat \ {0}, NEW s, s.decode \in Nat, s.prefill \in Nat,
           NEW target \in Int
    PROVE  /\ DecodeOf(total, s, target) \in 0..total
           /\ total >= 2 => /\ s.decode > 0 => DecodeOf(total, s, target) >= 1
                            /\ s.prefill > 0 => total - DecodeOf(total, s, target) >= 1
<1>1. MinimumPrefill \in Nat
  BY PolicyAssumption DEF ConfigAccepted
<1> QED BY <1>1 DEF DecodeOf, Least, Greatest

(* A capped total is positive and within the cap. *)
LEMMA CapHolds ==
    ASSUME NEW total \in Nat \ {0}, NEW s, s.available \in Nat
    PROVE  /\ Capped(total, s) \in Nat \ {0}
           /\ s.available # NoCap => Capped(total, s) <= s.available
BY DEF Capped, Least

LEMMA DirectionType == ASSUME NEW s PROVE DesiredDirection(s) \in {-1, 0, 1}
BY DEF DesiredDirection

(* The budget moves within its bounds, only when the count is full, and the  *)
(* way of the direction.                                                    *)
LEMMA BudgetStaysBounded ==
    ASSUME budget \in MinBudget..MaxBudget, NEW direction \in {-1, 0, 1}
    PROVE  /\ BudgetAfter(direction) \in MinBudget..MaxBudget
           /\ BudgetAfter(direction) # budget => Acts(direction)
           /\ BudgetAfter(direction) > budget => direction = 1
           /\ BudgetAfter(direction) < budget => direction = -1
<1>1. {MinBudget, MaxBudget, BudgetStep} \subseteq Nat /\ MinBudget <= MaxBudget
  BY PolicyAssumption DEF ConfigAccepted
<1>2. CASE direction = 1
  BY <1>1, <1>2 DEF BudgetAfter, Least, Greatest
<1>3. CASE direction = -1
  BY <1>1, <1>3 DEF BudgetAfter, Least, Greatest
<1>4. CASE direction = 0
  BY <1>1, <1>4 DEF BudgetAfter, Acts
<1> QED BY <1>2, <1>3, <1>4

LEMMA LimitStaysBounded ==
    ASSUME limit \in MinAdmitted..MaxAdmitted, NEW s
    PROVE  LimitAfter(s) \in MinAdmitted..MaxAdmitted
BY PolicyAssumption DEF ConfigAccepted, LimitAfter, Least, Greatest

(* What SchedulerSignals accepts is what the policies are handed. *)
LEMMA ObservedAreSignals == Observed \subseteq Signals
BY SignalAssumption DEF Observed, Signals

(* The decision of a positive total is one the code accepts. *)
LEMMA DecisionIsValid ==
    ASSUME NEW base \in Nat \ {0}, NEW s \in Signals, NEW target \in Int,
           NEW admitted \in Nat \ {0}, NEW changed,
           decision' = Decision(Capped(base, s), s, target, admitted, changed)
    PROVE  DecisionValid' /\ StagesShareStep'
<1> DEFINE total == Capped(base, s)
           d     == DecodeOf(total, s, target)
<1>1. total \in Nat \ {0} /\ (s.available # NoCap => total <= s.available)
  BY CapHolds DEF Signals
<1>2. /\ d \in 0..total
      /\ total >= 2 => /\ s.decode > 0 => d >= 1
                       /\ s.prefill > 0 => total - d >= 1
  BY <1>1, SplitIsFair DEF Signals
<1>3. /\ decision'.total = total /\ decision'.decode = d /\ decision'.prefill = total - d
      /\ decision'.limit = admitted /\ decision'.signals = s
  BY DEF Decision
<1> HIDE DEF total, d
<1>4. DecisionValid'
  BY <1>1, <1>2, <1>3 DEF DecisionValid, Decided, Seen
<1>5. StagesShareStep'
  BY <1>1, <1>2, <1>3 DEF StagesShareStep, Seen
<1> QED BY <1>4, <1>5

-----------------------------------------------------------------------------
(* The state of the adaptive policy. *)

LEMMA InitInv == PolicyInit => PolicyInv
BY PolicyAssumption
DEF PolicyInit, PolicyInv, PolicyTypeOK, CountInv, Settled, ConfigAccepted

LEMMA ResetInv == Reset => PolicyInv'
BY PolicyAssumption
DEF Reset, PolicyInv, PolicyTypeOK, CountInv, Settled, ConfigAccepted

(* A decision in a direction counts from the one in hand or from one. *)
LEMMA AdaptiveKeepsCount ==
    ASSUME PolicyInv, NEW s \in Signals, DecideAdaptive(s)
    PROVE  PolicyInv'
<1> DEFINE direction == DesiredDirection(s)
           next      == BudgetAfter(direction)
<1>1. direction \in {-1, 0, 1}
  BY DirectionType
<1>2. HysteresisSteps \in Nat \ {0}
  BY PolicyAssumption DEF ConfigAccepted
<1>3. /\ budget \in MinBudget..MaxBudget /\ limit \in MinAdmitted..MaxAdmitted
      /\ pending \in [direction : -1..1, count : 0..(HysteresisSteps - 1)]
      /\ quiet \in 0..HysteresisSteps
      /\ streak \in [direction : -1..1, count : 0..HysteresisSteps]
  BY DEF PolicyInv, PolicyTypeOK
<1>4. /\ budget' = next
      /\ pending' = PendingAfter(direction)
      /\ limit' = LimitAfter(s)
      /\ quiet' = IF next # budget THEN 0 ELSE Least(quiet + 1, HysteresisSteps)
      /\ streak' = [direction |-> direction,
                    count |-> IF direction = streak.direction
                              THEN Least(streak.count + 1, HysteresisSteps) ELSE 1]
  BY DEF DecideAdaptive
<1>5. next \in MinBudget..MaxBudget /\ (next # budget => Acts(direction))
  BY <1>1, <1>3, BudgetStaysBounded
<1>6. limit' \in MinAdmitted..MaxAdmitted
  BY <1>3, <1>4, LimitStaysBounded
<1> HIDE DEF direction, next
<1>7. quiet' \in 0..HysteresisSteps
  BY <1>2, <1>3, <1>4 DEF Least
<1>8. streak' \in [direction : -1..1, count : 0..HysteresisSteps]
  <2> DEFINE c == IF direction = streak.direction
                  THEN Least(streak.count + 1, HysteresisSteps) ELSE 1
  <2>1. c \in 0..HysteresisSteps
    BY <1>2, <1>3 DEF Least
  <2>2. direction \in -1..1
    BY <1>1
  <2> QED BY <2>1, <2>2, <1>4
<1>9. CASE direction = 0 \/ Acts(direction)
  <2>1. pending' = [direction |-> 0, count |-> 0]
    BY <1>4, <1>9 DEF PendingAfter, Settled
  <2>2. pending' \in [direction : -1..1, count : 0..(HysteresisSteps - 1)]
    BY <2>1, <1>2
  <2>3. CountInv'
    BY <2>1, <1>2, <1>7 DEF CountInv
  <2> QED BY <2>2, <2>3, <1>4, <1>5, <1>6, <1>7, <1>8 DEF PolicyInv, PolicyTypeOK
<1>10. CASE direction # 0 /\ ~Acts(direction)
  <2> DEFINE c == IF direction = pending.direction THEN pending.count + 1 ELSE 1
  <2>1. pending' = [direction |-> direction, count |-> c]
    BY <1>4, <1>10 DEF PendingAfter, Pressed
  <2>2. c \in Nat /\ c < HysteresisSteps
    BY <1>2, <1>3, <1>10 DEF Acts, Pressed
  <2>3. direction \in -1..1
    BY <1>1
  <2>4. pending' \in [direction : -1..1, count : 0..(HysteresisSteps - 1)]
    BY <2>1, <2>2, <2>3, <1>2
  <2>5. quiet' = Least(quiet + 1, HysteresisSteps)
    BY <1>4, <1>5, <1>10
  <2>6. c <= quiet'
    BY <2>2, <2>5, <1>2, <1>3 DEF PolicyInv, CountInv, Least
  <2>7. streak'.direction = direction /\ c <= streak'.count
    <3>1. CASE direction = pending.direction /\ pending.count > 0
      <4>1. streak.direction = pending.direction /\ pending.count <= streak.count
        BY <3>1, <1>3 DEF PolicyInv, CountInv
      <4>2. streak'.count = Least(streak.count + 1, HysteresisSteps)
        BY <4>1, <3>1, <1>4
      <4> QED BY <4>1, <4>2, <3>1, <1>2, <1>3, <1>4, <2>2 DEF Least
    <3>2. CASE ~(direction = pending.direction /\ pending.count > 0)
      <4>1. c = 1
        BY <3>2, <1>3
      <4>2. streak'.count >= 1
        BY <1>2, <1>3, <1>4 DEF Least
      <4> QED BY <4>1, <4>2, <1>4
    <3> QED BY <3>1, <3>2
  <2>8. CountInv'
    BY <2>1, <2>6, <2>7, <1>10 DEF CountInv
  <2> QED BY <2>4, <2>8, <1>4, <1>5, <1>6, <1>7, <1>8 DEF PolicyInv, PolicyTypeOK
<1> QED BY <1>9, <1>10

LEMMA NextInv == PolicyInv /\ [PolicyNext]_policyVars => PolicyInv'
<1> SUFFICES ASSUME PolicyInv, [PolicyNext]_policyVars PROVE PolicyInv'
  OBVIOUS
<1>1. CASE Reset
  BY <1>1, ResetInv
<1>2. ASSUME NEW s \in Observed, Decide(s) PROVE PolicyInv'
  <2>1. CASE DecideFixed(s)
    BY <2>1 DEF DecideFixed, PolicyInv, PolicyTypeOK, CountInv
  <2>2. CASE DecideAdaptive(s)
    BY <2>2, <1>2, AdaptiveKeepsCount, ObservedAreSignals
  <2> QED BY <2>1, <2>2, <1>2 DEF Decide
<1>3. CASE UNCHANGED policyVars
  BY <1>3 DEF policyVars, PolicyInv, PolicyTypeOK, CountInv
<1> QED BY <1>1, <1>2, <1>3 DEF PolicyNext

(* The budget and the limit stay within their bounds, and the count agrees  *)
(* with the history, whatever the signals (lines 350-380).                  *)
THEOREM Invariant == PolicySpec => []PolicyInv
<1> QED BY InitInv, NextInv, PTL DEF PolicySpec

-----------------------------------------------------------------------------
(* The decisions. *)

LEMMA FixedDecision ==
    ASSUME PolicyInv, NEW s \in Signals, ~Adaptive, DecideFixed(s)
    PROVE  DecisionValid' /\ StagesShareStep' /\ ReservationHonoured'
<1>1. budget \in Nat \ {0} /\ MaxAdmitted \in Nat \ {0} /\ s.decode \in Int
  BY PolicyAssumption DEF PolicyInv, PolicyTypeOK, ConfigAccepted, Signals
<1>2. decision' = Decision(Capped(budget, s), s, s.decode, MaxAdmitted, FALSE)
  BY DEF DecideFixed
<1>3. DecisionValid' /\ StagesShareStep'
  BY <1>1, <1>2, DecisionIsValid
<1>4. ReservationHonoured'
  BY DEF ReservationHonoured
<1> QED BY <1>3, <1>4

(* With an overdue prefill the target is what the reservation leaves, and   *)
(* the floor of the split is no larger than the reservation.                *)
LEMMA ReservationSurvivesSplit ==
    ASSUME NEW total \in Nat, total >= 2, NEW s \in Signals,
           s.decode > 0, s.prefill > 0, Overdue(s)
    PROVE  total - DecodeOf(total, s, DecodeTarget(total, s))
               = Least(Reservation(total), total - 1)
<1>1. MinimumPrefill \in Nat \ {0} /\ MaxWaitPrefillShare \in Int
  BY PolicyAssumption DEF ConfigAccepted
<1>2. CeilShare(total, MaxWaitPrefillShare) \in Int
  BY <1>1, CeilShareType
<1>3. Reservation(total) \in Int /\ Reservation(total) >= MinimumPrefill
  BY <1>1, <1>2 DEF Reservation, Greatest
<1>4. s.decode \in Nat /\ s.prefill \in Nat
  BY DEF Signals
<1>5. DecodeTarget(total, s) = total - Least(Reservation(total), total - 1)
  BY <1>4 DEF DecodeTarget
<1> QED BY <1>1, <1>3, <1>4, <1>5 DEF DecodeOf, Least, Greatest

LEMMA AdaptiveDecision ==
    ASSUME PolicyInv, NEW s \in Signals, DecideAdaptive(s)
    PROVE  DecisionValid' /\ StagesShareStep' /\ ReservationHonoured'
<1> DEFINE next  == BudgetAfter(DesiredDirection(s))
           total == Capped(next, s)
<1>1. next \in MinBudget..MaxBudget
  BY DirectionType, BudgetStaysBounded DEF PolicyInv, PolicyTypeOK
<1>2. next \in Nat \ {0}
  BY <1>1, PolicyAssumption DEF ConfigAccepted
<1>3. LimitAfter(s) \in MinAdmitted..MaxAdmitted
  BY LimitStaysBounded DEF PolicyInv, PolicyTypeOK
<1>4. LimitAfter(s) \in Nat \ {0}
  BY <1>3, PolicyAssumption DEF ConfigAccepted
<1>5. decision' = Decision(total, s, DecodeTarget(total, s), LimitAfter(s), next # budget)
  BY DEF DecideAdaptive
<1> HIDE DEF next
<1>6. total \in Nat \ {0}
  BY <1>2, CapHolds DEF Signals
<1>7. DecodeTarget(total, s) \in Int
  BY <1>6, TargetType DEF Signals
<1>8. DecisionValid' /\ StagesShareStep'
  BY <1>2, <1>4, <1>5, <1>7, DecisionIsValid
<1>9. ReservationHonoured'
  <2> HIDE DEF total
  <2>1. /\ decision'.total = total /\ decision'.signals = s
        /\ decision'.prefill = total - DecodeOf(total, s, DecodeTarget(total, s))
    BY <1>5 DEF Decision
  <2>2. ASSUME total >= 2, s.decode > 0, s.prefill > 0, Overdue(s)
        PROVE  decision'.prefill = Least(Reservation(total), total - 1)
    BY <2>1, <2>2, <1>6, ReservationSurvivesSplit
  <2> QED BY <2>1, <2>2 DEF ReservationHonoured, Mixed, Seen, Overdue, Reservation, Least,
                            Greatest, CeilShare
<1> QED BY <1>8, <1>9

Promises == DecisionValid /\ StagesShareStep /\ ReservationHonoured

LEMMA NoDecisionPromises ==
    /\ decision = NoDecision => Promises
    /\ decision' = NoDecision => Promises'
BY DEF NoDecision, NoSignals, Promises, DecisionValid, StagesShareStep, ReservationHonoured,
       Decided, Seen, Mixed

LEMMA NextPromises == PolicyInv /\ Promises /\ [PolicyNext]_policyVars => Promises'
<1> SUFFICES ASSUME PolicyInv, Promises, [PolicyNext]_policyVars PROVE Promises'
  OBVIOUS
<1>1. CASE Reset
  BY <1>1, NoDecisionPromises DEF Reset
<1>2. ASSUME NEW s \in Observed, Decide(s) PROVE Promises'
  BY <1>2, FixedDecision, AdaptiveDecision, ObservedAreSignals DEF Decide, Promises
<1>3. CASE UNCHANGED policyVars
  BY <1>3 DEF policyVars, Promises, DecisionValid, StagesShareStep, ReservationHonoured,
              Decided, Seen, Mixed
<1> QED BY <1>1, <1>2, <1>3 DEF PolicyNext

LEMMA DecisionsKeepPromises == PolicySpec => []Promises
<1>1. PolicyInit => Promises
  BY NoDecisionPromises DEF PolicyInit
<1> QED BY <1>1, Invariant, NextPromises, PTL DEF PolicySpec

(* Every decision satisfies what TokenBudgetDecision checks when it is       *)
(* built, so that decide never raises (lines 70-81).                        *)
THEOREM DecisionsAreValid == PolicySpec => []DecisionValid
<1>1. Promises => DecisionValid
  BY DEF Promises
<1> QED BY <1>1, DecisionsKeepPromises, PTL

(* Both stages share every step of two tokens or more (lines 113-138). *)
THEOREM StagesAlwaysShare == PolicySpec => []StagesShareStep
<1>1. Promises => StagesShareStep
  BY DEF Promises
<1> QED BY <1>1, DecisionsKeepPromises, PTL

(* An overdue prefill keeps its reservation (lines 391-401). *)
THEOREM ReservationIsHonoured == PolicySpec => []ReservationHonoured
<1>1. Promises => ReservationHonoured
  BY DEF Promises
<1> QED BY <1>1, DecisionsKeepPromises, PTL

-----------------------------------------------------------------------------
(* The hysteresis. *)

(* The only step that changes the budget is a decision of the adaptive       *)
(* policy whose count is full.                                              *)
LEMMA MoveNeedsFullCount ==
    ASSUME PolicyInv, PolicyNext, decision'.changed
    PROVE  \E direction \in {-1, 1} :
               /\ Pressed(direction).count >= HysteresisSteps
               /\ budget' > budget => direction = 1
               /\ budget' < budget => direction = -1
               /\ budget' # budget
               /\ streak' = [direction |-> direction,
                             count |-> IF direction = streak.direction
                                       THEN Least(streak.count + 1, HysteresisSteps) ELSE 1]
<1>1. ~Reset
  BY DEF Reset, NoDecision
<1>2. PICK s \in Observed : Decide(s)
  BY <1>1 DEF PolicyNext
<1>3. DecideAdaptive(s)
  BY <1>2 DEF Decide, DecideFixed, Decision
<1> DEFINE direction == DesiredDirection(s)
<1>4. direction \in {-1, 0, 1}
  BY DirectionType
<1>5. budget' = BudgetAfter(direction) /\ budget' # budget
  BY <1>3 DEF DecideAdaptive, Decision
<1>6. streak' = [direction |-> direction,
                 count |-> IF direction = streak.direction
                           THEN Least(streak.count + 1, HysteresisSteps) ELSE 1]
  BY <1>3 DEF DecideAdaptive
<1> HIDE DEF direction
<1>7. /\ Acts(direction)
      /\ budget' > budget => direction = 1
      /\ budget' < budget => direction = -1
  BY <1>4, <1>5, BudgetStaysBounded DEF PolicyInv, PolicyTypeOK
<1>8. direction \in {-1, 1} /\ Pressed(direction).count >= HysteresisSteps
  BY <1>4, <1>7 DEF Acts
<1> QED BY <1>5, <1>6, <1>7, <1>8

LEMMA MovesAreRare ==
    ASSUME PolicyInv, PolicyNext, decision'.changed
    PROVE  quiet + 1 >= HysteresisSteps
<1>1. PICK direction \in {-1, 1} : Pressed(direction).count >= HysteresisSteps
  BY MoveNeedsFullCount
<1>2. /\ HysteresisSteps \in Nat \ {0} /\ quiet \in Nat
      /\ pending.count \in Nat /\ pending.count <= quiet
  BY PolicyAssumption DEF ConfigAccepted, PolicyInv, PolicyTypeOK, CountInv
<1>3. CASE direction = pending.direction
  BY <1>1, <1>2, <1>3 DEF Pressed
<1>4. CASE direction # pending.direction
  BY <1>1, <1>2, <1>4 DEF Pressed
<1> QED BY <1>3, <1>4

LEMMA MovesAreDeliberate ==
    ASSUME PolicyInv, PolicyNext, decision'.changed
    PROVE  /\ streak'.count >= HysteresisSteps
           /\ IF budget' > budget THEN streak'.direction = 1 ELSE streak'.direction = -1
<1>1. PICK direction \in {-1, 1} :
          /\ Pressed(direction).count >= HysteresisSteps
          /\ budget' > budget => direction = 1
          /\ budget' < budget => direction = -1
          /\ budget' # budget
          /\ streak' = [direction |-> direction,
                        count |-> IF direction = streak.direction
                                  THEN Least(streak.count + 1, HysteresisSteps) ELSE 1]
  BY MoveNeedsFullCount
<1>2. /\ HysteresisSteps \in Nat \ {0}
      /\ pending.count \in Nat /\ streak.count \in Nat
      /\ pending.count > 0 => /\ streak.direction = pending.direction
                              /\ pending.count <= streak.count
  BY PolicyAssumption DEF ConfigAccepted, PolicyInv, PolicyTypeOK, CountInv
<1>3. streak'.count >= HysteresisSteps
  <2>1. CASE direction = pending.direction /\ pending.count > 0
    <3>1. pending.count + 1 >= HysteresisSteps
      BY <1>1, <2>1 DEF Pressed
    <3>2. streak'.count = Least(streak.count + 1, HysteresisSteps)
      BY <1>1, <1>2, <2>1
    <3> QED BY <3>1, <3>2, <1>2, <2>1 DEF Least
  <2>2. CASE ~(direction = pending.direction /\ pending.count > 0)
    <3>1. HysteresisSteps = 1
      BY <1>1, <1>2, <2>2 DEF Pressed
    <3>2. streak'.count >= 1
      BY <3>1, <1>1, <1>2 DEF Least
    <3> QED BY <3>1, <3>2
  <2> QED BY <2>1, <2>2
<1>4. budget' > budget \/ budget' < budget
  <2>1. /\ budget \in MinBudget..MaxBudget /\ {MinBudget, MaxBudget} \subseteq Nat
        /\ budget' \in MinBudget..MaxBudget
    BY PolicyAssumption, NextInv DEF ConfigAccepted, PolicyInv, PolicyTypeOK
  <2> QED BY <2>1, <1>1
<1>5. budget' > budget => ~(budget' < budget)
  BY PolicyAssumption, NextInv DEF ConfigAccepted, PolicyInv, PolicyTypeOK
<1> QED BY <1>1, <1>3, <1>4, <1>5

(* The budget rests between two moves (lines 350-368). *)
THEOREM BudgetAlwaysRests == PolicySpec => BudgetRests
<1>1. PolicyInv /\ [PolicyNext]_policyVars
      => [decision'.changed => quiet + 1 >= HysteresisSteps]_policyVars
  BY MovesAreRare
<1> QED BY <1>1, Invariant, PTL DEF PolicySpec, BudgetRests

(* The budget moves only the way the last decisions all wanted (336-361). *)
THEOREM BudgetAlwaysMovesDeliberately == PolicySpec => BudgetMovesDeliberately
<1>1. PolicyInv /\ [PolicyNext]_policyVars
      => [decision'.changed =>
             /\ streak'.count >= HysteresisSteps
             /\ IF budget' > budget THEN streak'.direction = 1
                ELSE streak'.direction = -1]_policyVars
  BY MovesAreDeliberate
<1> QED BY <1>1, Invariant, PTL DEF PolicySpec, BudgetMovesDeliberately
=============================================================================
