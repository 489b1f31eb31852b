---------------------------- MODULE TokenBudget ----------------------------
(***************************************************************************)
(* The token-budget policies of scheduling/token_budget.py: how many       *)
(* tokens the next engine step may spend, how they are split between       *)
(* decode and prefill, and how many sequences may be admitted.             *)
(*                                                                         *)
(* A caller hands decide() a snapshot of the scheduler's signals.  The     *)
(* fixed policy answers from its constants; the adaptive one keeps a       *)
(* budget that moves by one step after HysteresisSteps decisions in the    *)
(* same direction, and a limit of admitted sequences that follows the KV   *)
(* pressure.                                                               *)
(*                                                                         *)
(* KV pressure is counted in tokens out of KvCapacity, so its thresholds   *)
(* are tokens too; a share is a whole number of ShareUnits-ths; the two    *)
(* latency signals are what decide() makes of them: whether the recent p99 *)
(* reaches the guarded SLO.                                                *)
(***************************************************************************)
EXTENDS Integers

CONSTANTS
    Adaptive,             \* which of the two policies decides
    MinBudget, MaxBudget, InitialBudget, BudgetStep, HysteresisSteps,
    DecodeBacklogHigh, PrefillBacklogHigh,
    KvCapacity, KvHigh, KvLow,
    MaxWait,
    MinimumPrefill,
    ShareUnits, PrefillShare, PressureDecodeShare, MaxWaitPrefillShare,
    MinAdmitted, MaxAdmitted, AdmissionStep

(* What AdaptiveBudgetConfig and FixedTokenBudgetPolicy accept. *)
ConfigAccepted ==
    /\ Adaptive \in BOOLEAN
    /\ {MinBudget, MaxBudget, InitialBudget, BudgetStep, HysteresisSteps,
        DecodeBacklogHigh, PrefillBacklogHigh, MaxWait, MinimumPrefill,
        MinAdmitted, MaxAdmitted, AdmissionStep, KvCapacity} \subseteq Nat \ {0}
    /\ 2 <= MinBudget /\ MinBudget <= InitialBudget /\ InitialBudget <= MaxBudget
    /\ {KvLow, KvHigh} \subseteq Nat /\ KvLow < KvHigh /\ KvHigh <= KvCapacity
    /\ ShareUnits \in Nat
    /\ {PrefillShare, PressureDecodeShare, MaxWaitPrefillShare} \subseteq 1..(ShareUnits - 1)
    /\ MinAdmitted <= MaxAdmitted

ASSUME PolicyAssumption == ConfigAccepted

VARIABLES
    budget,      \* _current_budget
    limit,       \* _current_admitted_limit
    pending,     \* _pending_direction and _pending_count
    decision,    \* the last TokenBudgetDecision
    quiet,       \* history: decisions since the budget last changed or was reset
    streak       \* history: how many decisions in a row wanted the same direction

policyVars == <<budget, limit, pending, decision, quiet, streak>>

-----------------------------------------------------------------------------
(* Signals and decisions. *)

Least(a, b)    == IF a <= b THEN a ELSE b
Greatest(a, b) == IF a >= b THEN a ELSE b

NoCap == 0    \* available_token_budget is None

Signals == [decode : Nat, prefill : Nat, oldest : Nat, kv : 0..KvCapacity,
            ttftHigh : BOOLEAN, tpotHigh : BOOLEAN, preemptions : Nat, available : Nat]

Capped(total, s) == IF s.available = NoCap THEN total ELSE Least(total, s.available)

(* ceil(total * share) *)
CeilShare(total, share) == (total * share + ShareUnits - 1) \div ShareUnits

DecodeOf_NoFloor(total, s, target) ==
    IF s.decode = 0 THEN 0 ELSE IF s.prefill = 0 THEN total
    ELSE Least(Greatest(1, target), total)

(* _split_budget: the decode tokens of a total; the rest is prefill. *)
DecodeOf(total, s, target) ==
    IF s.decode = 0 THEN 0
    ELSE IF s.prefill = 0 THEN total
    ELSE IF total = 1 THEN IF MinimumPrefill > 0 THEN 0 ELSE 1
    ELSE LET floor == Least(Greatest(1, MinimumPrefill), total - 1)
         IN  Least(Greatest(1, target), total - floor)

NoSignals == [decode |-> 0, prefill |-> 0, oldest |-> 0, kv |-> 0, ttftHigh |-> FALSE,
              tpotHigh |-> FALSE, preemptions |-> 0, available |-> NoCap]

NoDecision == [total |-> 0, decode |-> 0, prefill |-> 0, limit |-> 0, changed |-> FALSE,
               signals |-> NoSignals]

Decision(total, s, target, admitted, changed) ==
    [total |-> total, decode |-> DecodeOf(total, s, target),
     prefill |-> total - DecodeOf(total, s, target), limit |-> admitted, changed |-> changed,
     signals |-> s]

-----------------------------------------------------------------------------
(* The adaptive policy. *)

KvPressure(s)     == s.kv >= KvHigh \/ s.preemptions > 0
DecodePressure(s) == s.decode >= DecodeBacklogHigh \/ s.tpotHigh
TtftPressure(s)   == s.prefill > 0 /\ s.ttftHigh

(* _desired_direction: decode and KV safety win when signals conflict. *)
DesiredDirection(s) ==
    IF DecodePressure(s) \/ KvPressure(s) THEN -1
    ELSE IF TtftPressure(s) \/ s.prefill >= PrefillBacklogHigh THEN 1
    ELSE 0

Settled == [direction |-> 0, count |-> 0]

Pressed_AnyDirection(direction) ==
    [direction |-> direction, count |-> pending.count + 1]

Pressed(direction) ==
    [direction |-> direction,
     count |-> IF direction = pending.direction THEN pending.count + 1 ELSE 1]

(* _apply_hysteresis *)
Acts(direction) == direction # 0 /\ Pressed(direction).count >= HysteresisSteps

BudgetAfter(direction) ==
    IF Acts(direction)
    THEN Least(MaxBudget, Greatest(MinBudget, budget + direction * BudgetStep))
    ELSE budget

PendingAfter(direction) ==
    IF direction = 0 \/ Acts(direction) THEN Settled ELSE Pressed(direction)

LimitAfter_ToFloor(s) ==
    IF KvPressure(s) THEN MinAdmitted
    ELSE IF s.kv <= KvLow THEN Least(MaxAdmitted, limit + AdmissionStep)
    ELSE limit

(* _update_admitted_limit *)
LimitAfter(s) ==
    IF KvPressure(s) THEN Greatest(MinAdmitted, limit - AdmissionStep)
    ELSE IF s.kv <= KvLow THEN Least(MaxAdmitted, limit + AdmissionStep)
    ELSE limit

Overdue(s) == s.prefill > 0 /\ s.oldest >= MaxWait

(* The prefill tokens a request that waited MaxWait reserves. *)
Reservation(total) == Greatest(MinimumPrefill, CeilShare(total, MaxWaitPrefillShare))

DecodeTarget_PressureFirst(total, s) ==
    IF s.decode = 0 \/ s.prefill = 0 THEN s.decode
    ELSE IF DesiredDirection(s) < 0
         THEN Greatest(s.decode, CeilShare(total, PressureDecodeShare))
    ELSE IF Overdue(s) THEN total - Least(Reservation(total), total - 1)
    ELSE Greatest(s.decode, CeilShare(total, ShareUnits - PrefillShare))

DecodeTarget(total, s) ==
    IF s.decode = 0 \/ s.prefill = 0 THEN s.decode
    ELSE IF Overdue(s) THEN total - Least(Reservation(total), total - 1)
    ELSE IF DesiredDirection(s) < 0
         THEN Greatest(s.decode, CeilShare(total, PressureDecodeShare))
    ELSE Greatest(s.decode, CeilShare(total, ShareUnits - PrefillShare))

-----------------------------------------------------------------------------
(* The operations. *)

PolicyInit ==
    /\ budget = InitialBudget
    /\ limit = MaxAdmitted
    /\ pending = Settled
    /\ decision = NoDecision
    /\ quiet = 0
    /\ streak = Settled

Reset == /\ budget' = InitialBudget
         /\ limit' = MaxAdmitted
         /\ pending' = Settled
         /\ decision' = NoDecision
         /\ quiet' = 0
         /\ streak' = Settled

DecideFixed(s) ==
    /\ decision' = Decision(Capped(budget, s), s, s.decode, MaxAdmitted, FALSE)
    /\ UNCHANGED <<budget, limit, pending, quiet, streak>>

DecideAdaptive(s) ==
    LET direction == DesiredDirection(s)
        next      == BudgetAfter(direction)
        total     == Capped(next, s)
    IN  /\ budget' = next
        /\ pending' = PendingAfter(direction)
        /\ limit' = LimitAfter(s)
        /\ decision' = Decision(total, s, DecodeTarget(total, s), LimitAfter(s), next # budget)
        /\ quiet' = IF next # budget THEN 0 ELSE Least(quiet + 1, HysteresisSteps)
        /\ streak' = [direction |-> direction,
                      count |-> IF direction = streak.direction
                                THEN Least(streak.count + 1, HysteresisSteps) ELSE 1]

\* The policy is chosen with the configuration.
Decide(s) == IF Adaptive THEN DecideAdaptive(s) ELSE DecideFixed(s)

=============================================================================
