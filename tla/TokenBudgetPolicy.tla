------------------------- MODULE TokenBudgetPolicy -------------------------
(***************************************************************************)
(* A token-budget policy under every sequence of signals a caller could    *)
(* hand it, resets included: what it promises whoever schedules with it.   *)
(***************************************************************************)
EXTENDS TokenBudget

CONSTANTS Backlogs, Ages, KvLevels, PreemptionCounts, Caps  \* the signals' values

ASSUME SignalAssumption ==
    /\ Backlogs \cup Ages \cup KvLevels \cup PreemptionCounts \cup Caps \subseteq Nat
    /\ KvLevels \subseteq 0..KvCapacity

Observed == [decode : Backlogs, prefill : Backlogs, oldest : Ages, kv : KvLevels,
             ttftHigh : BOOLEAN, tpotHigh : BOOLEAN,
             preemptions : PreemptionCounts, available : Caps]

PolicyNext == Reset \/ \E s \in Observed : Decide(s)

PolicySpec == PolicyInit /\ [][PolicyNext]_policyVars

-----------------------------------------------------------------------------
Decided == decision.total > 0
Seen    == decision.signals
Mixed   == Seen.decode > 0 /\ Seen.prefill > 0

(* Shape of the policy's state; the stateful budget and the admitted limit  *)
(* never leave the bounds they were configured with (lines 365, 370-380).   *)
PolicyTypeOK ==
    /\ budget \in MinBudget..MaxBudget
    /\ limit \in MinAdmitted..MaxAdmitted
    /\ pending \in [direction : -1..1, count : 0..(HysteresisSteps - 1)]
    /\ quiet \in 0..HysteresisSteps
    /\ streak \in [direction : -1..1, count : 0..HysteresisSteps]

(* How the count in hand relates to the history: it counts decisions since  *)
(* the budget last moved, all of them in one direction, the latest one too. *)
CountInv ==
    /\ pending.count <= quiet
    /\ pending.direction = 0 => pending.count = 0
    /\ pending.count > 0 => /\ streak.direction = pending.direction
                            /\ pending.count <= streak.count

(* No decision is one TokenBudgetDecision refuses to construct (lines       *)
(* 70-81): the two stages share exactly the total, neither is negative, and *)
(* the total is positive and within the cap the caller reported.            *)
DecisionValid ==
    Decided =>
        /\ decision.decode + decision.prefill = decision.total
        /\ decision.decode >= 0 /\ decision.prefill >= 0
        /\ Seen.available # NoCap => decision.total <= Seen.available
        /\ decision.limit >= 1

(* A step of two tokens or more gives every stage with work something:      *)
(* neither the backlog, the pressure share nor the reservation of an        *)
(* overdue prefill can starve the other stage (lines 113-138).              *)
StagesShareStep ==
    decision.total >= 2 =>
        /\ Seen.decode > 0 => decision.decode >= 1
        /\ Seen.prefill > 0 => decision.prefill >= 1

(* A prefill that waited MaxWait gets the reserved share of the step, or    *)
(* all but one token of it: decode pressure never takes the reservation     *)
(* back (lines 391-401), though it decides the budget it is a share of.     *)
ReservationHonoured ==
    (Adaptive /\ decision.total >= 2 /\ Mixed /\ Overdue(Seen)) =>
        decision.prefill = Least(Reservation(decision.total), decision.total - 1)

(* What the proofs of the action properties rest on. *)
PolicyInv == PolicyTypeOK /\ CountInv

(* However the signals alternate, the budget moves at most once in          *)
(* HysteresisSteps decisions: reversals, steady decisions and reaching a    *)
(* bound all restart the count (lines 350-368).                             *)
BudgetRests == [][decision'.changed => quiet + 1 >= HysteresisSteps]_policyVars

(* The budget moves only the way the last HysteresisSteps decisions all     *)
(* wanted it to: pressure the other way, or none, in between starts the     *)
(* count again, so a demand for prefill cannot be carried past a decision   *)
(* under decode or KV pressure (lines 336-361).                             *)
BudgetMovesDeliberately ==
    [][decision'.changed =>
        /\ streak'.count >= HysteresisSteps
        /\ IF budget' > budget THEN streak'.direction = 1 ELSE streak'.direction = -1]_policyVars

=============================================================================
