----------------------------- MODULE Admission -----------------------------
(***************************************************************************)
(* FairAdmissionController of scheduling/admission.py: which waiting       *)
(* requests enter the admitted set, which admitted ones give their place   *)
(* up, and in which order the admitted ones are served.  The controller    *)
(* keeps nothing: every operator is a function of the candidates it is     *)
(* shown and of the time.                                                  *)
(*                                                                         *)
(* A candidate is a record; its order is its position in the trace, which  *)
(* decides the last tie, so that every ranking is total.  A ranking is the *)
(* number of candidates that come before one.                              *)
(***************************************************************************)
EXTENDS Integers, FiniteSetsExt

CONSTANTS
    AdmissionMaxWait,      \* AdmissionConfig.max_wait
    AgingWeight,
    AllowPreemption,
    MaxPreemptions         \* max_preemptions_per_step

ASSUME AdmissionAssumption ==
    /\ {AdmissionMaxWait, AgingWeight, MaxPreemptions} \subseteq Nat \ {0}
    /\ AllowPreemption \in BOOLEAN

Never == -1    \* last_progress_time is None

(* Tuples of numbers of one length, compared the way Python compares them. *)
Precedes(a, b) ==
    \E i \in DOMAIN a : a[i] < b[i] /\ \A j \in 1..(i - 1) : a[j] = b[j]

(* sorted(S, key)[:n], as a set *)
FirstOf(S, n, Key(_)) == {c \in S : Cardinality({d \in S : Precedes(Key(d), Key(c))}) < n}

Flag(b) == IF b THEN 0 ELSE 1

Wait(c, now) == now - c.waitingSince

ServiceAge(c, now) ==
    now - (IF c.lastProgress = Never THEN c.waitingSince ELSE c.lastProgress)

(* A score of priority + weight * wait / max_wait, times max_wait. *)
Score(c, now) == c.priority * AdmissionMaxWait + AgingWeight * Wait(c, now)

WaitingKey_NoAging(c, now) ==
    <<Flag(Wait(c, now) >= AdmissionMaxWait), -c.priority, c.arrival, c.order>>

WaitingKey(c, now) ==
    <<Flag(Wait(c, now) >= AdmissionMaxWait), -Score(c, now), c.arrival, c.order>>

ServiceKey(c, now) ==
    <<Flag(ServiceAge(c, now) >= AdmissionMaxWait), -ServiceAge(c, now), c.service,
      c.arrival, c.order>>

(* Requests that never progressed or were not served for long go last. *)
Protected(c, now) == ServiceAge(c, now) >= AdmissionMaxWait \/ c.service = 0

VictimKey(c, now) ==
    <<1 - Flag(Protected(c, now)), c.priority, ServiceAge(c, now), -c.arrival, -c.order>>

FirstWaiting(S, n, now) == LET Key(c) == WaitingKey(c, now) IN FirstOf(S, n, Key)
FirstVictims(S, n, now) == LET Key(c) == VictimKey(c, now)  IN FirstOf(S, n, Key)
FirstServed(S, n, now)  == LET Key(c) == ServiceKey(c, now) IN FirstOf(S, n, Key)

AdmissionDecision_SwapOnlyEvicts(waiting, admitted, now, limit) ==
    LET selected == FirstWaiting(waiting, limit - Cardinality(admitted), now)
        overdue  == {c \in waiting \ selected : Wait(c, now) >= AdmissionMaxWait}
        swaps    == Min({Cardinality(overdue), Cardinality(admitted), MaxPreemptions})
    IN  [admit |-> selected, preempt |-> FirstVictims(admitted, swaps, now)]

(* decide(): the candidates admitted and preempted.  First the excess over  *)
(* a reduced limit leaves, then free places are filled, then requests that  *)
(* waited too long take the places of the best victims.                     *)
AdmissionDecision(waiting, admitted, now, limit) ==
    LET excess    == FirstVictims(admitted, Cardinality(admitted) - limit, now)
        active    == admitted \ excess
        selected  == FirstWaiting(waiting, limit - Cardinality(active), now)
        overdue   == {c \in waiting \ selected : Wait(c, now) >= AdmissionMaxWait}
        swaps     == IF AllowPreemption
                     THEN Min({Cardinality(overdue), Cardinality(active), MaxPreemptions})
                     ELSE 0
    IN  [admit   |-> selected \cup FirstWaiting(overdue, swaps, now),
         preempt |-> excess \cup FirstVictims(active, swaps, now)]
=============================================================================
