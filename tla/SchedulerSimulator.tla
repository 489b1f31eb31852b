------------------------- MODULE SchedulerSimulator -------------------------
(***************************************************************************)
(* DeterministicSchedulerSimulator.run of scheduling/simulator.py: a trace *)
(* of requests is driven to completion by a token-budget policy            *)
(* (TokenBudget) and the admission controller (Admission), one engine step *)
(* at a time.                                                              *)
(*                                                                         *)
(* Any trace over small sets may be run: Init chooses one.  Time is counted *)
(* in fractions of a step (StepDuration of them), so that requests arrive  *)
(* between steps.  One iteration of the loop is Decide, Admit, Decode, as  *)
(* many Chunks of prefill as the step pays for, and Record.                *)
(***************************************************************************)
EXTENDS TokenBudget, Admission, Sequences, SequencesExt

CONSTANTS
    Trace,                \* number of requests in the trace
    Arrivals, Prompts, Outputs, Priorities,
    StepDuration, PrefillQuantum, AvailableBudget, SignalWindow, MaxSteps

Requests == 1..Trace

ASSUME SimulationAssumption ==
    /\ Trace \in Nat
    /\ Arrivals \subseteq Nat /\ Priorities \subseteq Nat
    /\ Prompts \cup Outputs \subseteq Nat \ {0}
    /\ {StepDuration, PrefillQuantum, SignalWindow, MaxSteps} \subseteq Nat \ {0}
    /\ AvailableBudget \in Nat \ {1}    \* at least two tokens, or NoCap

VARIABLES
    trace,          \* what each request asked for
    now, step,
    pc,             \* where the loop is
    prefillLeft, decodeLeft,     \* remaining_prefill, remaining_decode
    admitted,       \* the requests whose admitted flag is set
    waitingSince, lastProgress, serviceGap,
    recent,         \* preemption_window
    used,           \* tokens spent in this step, by stage
    pool,           \* tokens the prefill stage may still spend in this step
    queue           \* the prefill stage: the requests ranked, and those served in this round

work  == <<prefillLeft, decodeLeft>>
clock == <<now, step>>
marks == <<lastProgress, serviceGap>>
vars  == <<policyVars, trace, clock, pc, work, admitted, waitingSince, marks, recent, used,
           pool, queue>>

-----------------------------------------------------------------------------
(* What the loop sees. *)

Complete(r)   == decodeLeft[r] = 0
Arrived       == {r \in Requests : trace[r].arrival <= now /\ ~Complete(r)}
Prefilling(S) == {r \in S : prefillLeft[r] > 0}
Decoding(S)   == {r \in S : prefillLeft[r] = 0 /\ ~Complete(r)}

Service(r) == (trace[r].prompt - prefillLeft[r]) + (trace[r].output - decodeLeft[r])

Candidate(r) ==
    [order |-> r, arrival |-> trace[r].arrival, priority |-> trace[r].priority,
     waitingSince |-> waitingSince[r], lastProgress |-> lastProgress[r], service |-> Service(r)]

Candidates(S) == {Candidate(r) : r \in S}
Orders(C)     == {c.order : c \in C}

(* _kv_pressure: preempted requests keep their work but are not counted. *)
KvPressureNow == Least(KvCapacity, MapThenSumSet(Service, admitted))

OldestPrefillAge ==
    IF Prefilling(Arrived) = {} THEN 0
    ELSE now - Min({trace[r].arrival : r \in Prefilling(Arrived)})

(* _make_signals: the backlogs count every request that arrived, admitted   *)
(* or not.  What the p99 of the recent samples amounts to is left open once *)
(* there is a sample.                                                       *)
SignalsNow(ttft, tpot) ==
    [decode |-> Cardinality(Decoding(Arrived)), prefill |-> Cardinality(Prefilling(Arrived)),
     oldest |-> OldestPrefillAge, kv |-> KvPressureNow, ttftHigh |-> ttft, tpotHigh |-> tpot,
     preemptions |-> FoldSeq(+, 0, recent), available |-> AvailableBudget]

LatencyReadings(tokens) ==
    IF Adaptive /\ \E r \in Requests : trace[r].output - decodeLeft[r] >= tokens
    THEN BOOLEAN ELSE {FALSE}

-----------------------------------------------------------------------------
NothingUsed == [decode |-> 0, prefill |-> 0]
NoQueue     == [order |-> << >>, served |-> {}]

Init ==
    /\ PolicyInit
    /\ trace \in [Requests -> [arrival : Arrivals, prompt : Prompts, output : Outputs,
                               priority : Priorities]]
    /\ now = 0 /\ step = 0
    /\ pc = "loop"
    /\ prefillLeft = [r \in Requests |-> trace[r].prompt]
    /\ decodeLeft = [r \in Requests |-> trace[r].output]
    /\ admitted = {}
    /\ waitingSince = [r \in Requests |-> trace[r].arrival]
    /\ lastProgress = [r \in Requests |-> Never]
    /\ serviceGap = [r \in Requests |-> 0]
    /\ recent = << >>
    /\ used = NothingUsed
    /\ pool = 0
    /\ queue = NoQueue

(* The run returns its result. *)
Finish ==
    /\ pc = "loop"
    /\ \A r \in Requests : Complete(r)
    /\ pc' = "done"
    /\ UNCHANGED <<policyVars, trace, clock, work, admitted, waitingSince, marks, recent, used,
                   pool, queue>>

GiveUp ==
    /\ pc = "loop"
    /\ \E r \in Requests : ~Complete(r)
    /\ step >= MaxSteps
    /\ pc' = "limit"
    /\ UNCHANGED <<policyVars, trace, clock, work, admitted, waitingSince, marks, recent, used,
                   pool, queue>>

(* Nothing has arrived: the clock jumps to the next arrival. *)
Jump ==
    /\ pc = "loop"
    /\ step < MaxSteps
    /\ Arrived = {}
    /\ \E r \in Requests : ~Complete(r)
    /\ now' = Min({trace[r].arrival : r \in {q \in Requests : ~Complete(q)}})
    /\ UNCHANGED <<policyVars, trace, step, pc, work, admitted, waitingSince, marks, recent,
                   used, pool, queue>>

DecideBudget ==
    /\ pc = "loop"
    /\ step < MaxSteps
    /\ Arrived # {}
    /\ \E s \in {SignalsNow(ttft, tpot) : ttft \in LatencyReadings(1), tpot \in LatencyReadings(2)} :
           Decide(s)
    /\ pc' = "admit"
    /\ UNCHANGED <<trace, clock, work, admitted, waitingSince, marks, recent, used, pool, queue>>

(* _apply_admission: a preempted request keeps its work and waits from now. *)
Admit ==
    /\ pc = "admit"
    /\ \E outcome \in {AdmissionDecision(Candidates(Arrived \ admitted), Candidates(admitted), now,
                                         decision.limit)} :
           LET preempted == Orders(outcome.preempt)
           IN  /\ waitingSince' = [r \in Requests |->
                      IF r \in preempted THEN now ELSE waitingSince[r]]
               /\ admitted' = (admitted \ preempted) \cup Orders(outcome.admit)
               /\ recent' = LET w == Append(recent, Cardinality(preempted))
                            IN  IF Len(w) > SignalWindow THEN Tail(w) ELSE w
    /\ pc' = "decode"
    /\ UNCHANGED <<policyVars, trace, clock, work, marks, used, pool, queue>>

(* _mark_progress *)
Progress(S) ==
    LET end       == now + StepDuration
        anchor(r) == IF lastProgress[r] = Never THEN trace[r].arrival ELSE lastProgress[r]
    IN  /\ lastProgress' = [r \in Requests |-> IF r \in S THEN end ELSE lastProgress[r]]
        /\ serviceGap' = [r \in Requests |->
               IF r \in S THEN Greatest(serviceGap[r], end - anchor(r)) ELSE serviceGap[r]]

(* Requests whose last token this is leave the admitted set. *)
Leavers(served) == {r \in served : decodeLeft[r] = 1}

(* A set of requests in the order in which a stage serves them. *)
ByService(S) ==
    LET Before(r) ==
            {q \in S : Precedes(ServiceKey(Candidate(q), now), ServiceKey(Candidate(r), now))}
    IN  [k \in 1..Cardinality(S) |-> CHOOSE r \in S : Cardinality(Before(r)) = k - 1]

(* What the prefill stage may spend: its own tokens and those decode left.  *)
PrefillPool_SpendsTwice(tokens) == decision.prefill + decision.decode

PrefillPool(tokens) == decision.prefill + Greatest(0, decision.decode - tokens)

(* The decode stage: one token for each of the first requests, which may    *)
(* also spend the prefill allocation when no admitted request needs it.     *)
(* What the stage leaves of its own allocation goes to prefill.             *)
Decode ==
    LET alone    == Prefilling(admitted) = {}
        capacity == decision.decode + (IF alone THEN decision.prefill ELSE 0)
    IN  /\ pc = "decode"
        /\ \E served \in {Orders(FirstServed(Candidates(Decoding(admitted)), capacity, now))} :
               /\ decodeLeft' = [r \in Requests |-> decodeLeft[r] - (IF r \in served THEN 1 ELSE 0)]
               /\ admitted' = admitted \ Leavers(served)
               /\ Progress(served)
               /\ used' = [decode |-> Cardinality(served), prefill |-> 0]
               /\ pool' = IF alone THEN 0 ELSE PrefillPool(Cardinality(served))
        /\ queue' = [order |-> ByService(Prefilling(admitted)), served |-> {}]
        /\ pc' = "prefill"
        /\ UNCHANGED <<policyVars, trace, clock, prefillLeft, waitingSince, recent>>

(* The prefill stage: rounds over the ranked requests, each of which gets    *)
(* one quantum before any gets a second.                                    *)
Unserved == {i \in DOMAIN queue.order : prefillLeft[queue.order[i]] > 0 /\ i \notin queue.served}
Round    == IF Unserved # {} THEN Unserved
            ELSE {i \in DOMAIN queue.order : prefillLeft[queue.order[i]] > 0}

Chunk ==
    /\ pc = "prefill"
    /\ pool > 0 /\ Round # {}
    /\ LET i == Min(Round)
           r == queue.order[i]
           tokens == Min({prefillLeft[r], PrefillQuantum, pool})
       IN  /\ prefillLeft' = [prefillLeft EXCEPT ![r] = @ - tokens]
           /\ pool' = pool - tokens
           /\ used' = [used EXCEPT !.prefill = @ + tokens]
           /\ queue' = [queue EXCEPT !.served = IF Unserved = {} THEN {i} ELSE @ \cup {i}]
           /\ Progress({r})
    /\ UNCHANGED <<policyVars, trace, clock, pc, decodeLeft, admitted, waitingSince, recent>>

(* The end of the iteration: the two errors the loop can raise, or the      *)
(* record of the step.                                                      *)
TotalUsed == used.decode + used.prefill

Record ==
    /\ pc = "prefill"
    /\ pool = 0 \/ Round = {}
    /\ IF TotalUsed > decision.total THEN pc' = "overspent" /\ UNCHANGED clock
       ELSE IF TotalUsed = 0 THEN pc' = "stalled" /\ UNCHANGED clock
       ELSE pc' = "loop" /\ now' = now + StepDuration /\ step' = step + 1
    /\ used' = NothingUsed /\ pool' = 0 /\ queue' = NoQueue
    /\ UNCHANGED <<policyVars, trace, work, admitted, waitingSince, marks, recent>>

Next == Finish \/ GiveUp \/ Jump \/ DecideBudget \/ Admit \/ Decode \/ Chunk \/ Record

Spec == Init /\ [][Next]_vars /\ WF_vars(Next)

-----------------------------------------------------------------------------
(* The first n[r] tokens of each request: those of the trace, and those that *)
(* were processed so far.                                                   *)
TokensUpTo(n) == UNION {{r} \X (1..n[r]) : r \in Requests}
Tokens        == TokensUpTo([r \in Requests |-> trace[r].prompt + trace[r].output])
Processed     == TokensUpTo([r \in Requests |-> Service(r)])

(* Neither internal error of the loop can happen: whatever the policy and   *)
(* the admission controller decide, work that arrived progresses in every   *)
(* step, and a step never spends more than its budget although each stage   *)
(* may take over what the other cannot use (lines 706-721).  What the stages *)
(* report as spent is what the requests got: a recorded step stands for at   *)
(* least one token processed and for no more than the largest budget.        *)
StepsPay ==
    /\ pc \notin {"stalled", "overspent"}
    /\ step <= Cardinality(Processed)
    /\ Cardinality(Processed) <= step * MaxBudget + TotalUsed

(* A run takes at least the steps its tokens fill and at most one for each   *)
(* of them: max_steps is exceeded only by a trace of more tokens than that   *)
(* (lines 655-660).                                                         *)
RunLengthFits ==
    /\ pc = "done" => /\ step <= Cardinality(Tokens)
                      /\ Cardinality(Tokens) <= step * MaxBudget
    /\ pc = "limit" => MaxSteps < Cardinality(Tokens)

(* The admitted set follows the limit the policy set for this step, also    *)
(* when it fell below what was admitted while an overdue request swaps in,  *)
(* and a step preempts no more than the swaps it is allowed and what one     *)
(* reduction of the limit leaves over: the feedback from preemptions to the *)
(* limit never evicts the whole admitted set at once (admission.py 192-225). *)
PreemptionsBounded ==
    /\ \A i \in DOMAIN recent : recent[i] <= MaxPreemptions + AdmissionStep
    /\ pc \in {"decode", "prefill"} => Cardinality(admitted) <= decision.limit

(* How long aging takes to make up for the priorities of this trace.        *)
HeadStart ==
    LET priorities == {trace[r].priority : r \in Requests}
    IN  ((Max(priorities) - Min(priorities)) * AdmissionMaxWait) \div AgingWeight

StarvationBound == AdmissionMaxWait + HeadStart + Trace * StepDuration

(* Nobody who arrived waits for longer than it takes to become overdue, to  *)
(* make up by aging for the highest priority, and to let every request go   *)
(* first once: priorities, swaps, a shrinking limit and late arrivals       *)
(* together starve no one.  Where one request has the only place, which a   *)
(* step's budget always pays for, this bounds the time without service too; *)
(* where a budget serves some of several places, a request may lose its     *)
(* place unserved and wait again (admission.py 98-113, 207-225).            *)
NoStarvation ==
    /\ \A r \in Arrived \ admitted : now - waitingSince[r] < StarvationBound
    /\ MaxAdmitted = 1 => \A r \in Requests : serviceGap[r] < StarvationBound

(* Every run ends with all its requests complete. *)
RunCompletes == <>(pc = "done")
=============================================================================
