------------------------- MODULE RequestStreamProofs -------------------------
(***************************************************************************)
(* What holds of RequestStream for every trace, concurrency, engine answer *)
(* and SLO.  First the tasks: no path loses or duplicates a slot of the    *)
(* semaphore, and the goodput of the report is that of the objective.  Then*)
(* the responses: what the decoder and _consume_event make of the bytes is *)
(* a fold over them (induction over sequences is proved from the           *)
(* well-foundedness of <), two chunks are read as one, and so every record *)
(* stands for the bytes of its response in one piece.                      *)
(***************************************************************************)
EXTENDS RequestStream, FiniteSetTheorems, SequenceTheorems, WellFoundedInduction, TLAPS

Streaming == {r \in Requests : phase[r] = "streaming"}

StageOK ==
  /\ now \in 0..MaxClock
  /\ stage \in {"warmup", "measure", "aborted", "cancelled", "gathered", "scored"}
PhaseOK == phase \in [Requests -> {"waiting", "queued", "streaming", "ended", "raised"}]
\* A task is in the queue exactly once while it waits for the semaphore.
QueueOK ==
  /\ queue \in Seq(Requests)
  /\ \A i, j \in 1..Len(queue) : queue[i] = queue[j] => i = j
  /\ \A r \in Requests : phase[r] = "queued" <=> \E i \in 1..Len(queue) : queue[i] = r
SlotsOK == slots \in Nat /\ slots + Cardinality(Streaming) = MaxConcurrency
\* Once gathered, every task has ended, and the outcome is that of the records.
OutcomeOK ==
  /\ \E a, o : outcome = [aggregate |-> a, objective |-> o]
  /\ stage \in {"gathered", "scored"} =>
       AllEnded /\ outcome.aggregate = Aggregate(record)
  /\ stage = "scored" =>
       \E t, seen : outcome.objective = Reduced(record, t, seen)
RecordsOK == \E S : record \in [Requests -> S]

IInv == StageOK /\ PhaseOK /\ QueueOK /\ SlotsOK /\ OutcomeOK /\ RecordsOK

-----------------------------------------------------------------------------
(* The two goodputs *)

LEMMA ScaledExists ==
  ASSUME NEW t \in Int, t >= Missing, t # Missing
  PROVE  Scale * t \in Int /\ Scale * t # Missing
<1>1. t \in Nat /\ Scale \in Nat
  BY ObjectiveAssumption DEF Missing
<1>2. \A a, b \in Nat : a * b \in Nat
  OBVIOUS
<1> QED
  BY <1>1, <1>2 DEF Missing

\* A latency passes in metrics.py exactly when objective.py finds no violation.
LEMMA SameThreshold ==
  ASSUME NEW k \in {"ttft", "tpot", "e2e"}, NEW value
  PROVE  (Slo[k] # Missing => ~Over(Slo[k], value))
           <=> Violated(k, value, Scaled(Slo[k])) = {}
<1>1. Slo[k] \in Int /\ Slo[k] >= Missing
  BY ObjectiveAssumption
<1>2. CASE Slo[k] = Missing
  BY <1>2 DEF Violated, Scaled
<1>3. CASE Slo[k] # Missing
  <2>1. Scaled(Slo[k]) = Scale * Slo[k] /\ Scaled(Slo[k]) # Missing
    BY <1>1, <1>3, ScaledExists DEF Scaled
  <2>2. Over(Slo[k], value) <=> (value = Missing \/ value > Scaled(Slo[k]))
    BY <2>1 DEF Over
  <2>3. Violated(k, value, Scaled(Slo[k])) = {}
          <=> ~(value = Missing \/ value > Scaled(Slo[k]))
    BY <2>1 DEF Violated
  <2> QED
    BY <1>3, <2>2, <2>3
<1> QED
  BY <1>2, <1>3

\* Nor do they differ on the latency per token, which an answer of one token
\* does not have.
LEMMA SameTpot ==
  ASSUME NEW r, Successful(r)
  PROVE  ObservedTpot(r) = IF r.out <= 1 THEN 0 ELSE Tpot(r)
BY DEF ObservedTpot, Tpot

LEMMA SameGoodness ==
  ASSUME NEW r
  PROVE  MeetsSlo(r) <=> RequestGood(r)
<1>1. RequestGood(r) <=>
        /\ Successful(r)
        /\ Violated("ttft", Ttft(r), Scaled(Slo.ttft)) = {}
        /\ Violated("tpot", ObservedTpot(r), Scaled(Slo.tpot)) = {}
        /\ Violated("e2e", E2e(r), Scaled(Slo.e2e)) = {}
  BY DEF RequestGood, RequestViolations
<1>2. CASE Successful(r)
  <2>1. (Slo.ttft # Missing => ~Over(Slo.ttft, Ttft(r)))
          <=> Violated("ttft", Ttft(r), Scaled(Slo.ttft)) = {}
    BY SameThreshold
  <2>2. (Slo.e2e # Missing => ~Over(Slo.e2e, E2e(r)))
          <=> Violated("e2e", E2e(r), Scaled(Slo.e2e)) = {}
    BY SameThreshold
  <2>3. (Slo.tpot # Missing => ~Over(Slo.tpot, ObservedTpot(r)))
          <=> Violated("tpot", ObservedTpot(r), Scaled(Slo.tpot)) = {}
    BY SameThreshold
  <2>4. ObservedTpot(r) = IF r.out <= 1 THEN 0 ELSE Tpot(r)
    BY <1>2, SameTpot
  <2> QED
    BY <1>1, <1>2, <2>1, <2>2, <2>3, <2>4 DEF MeetsSlo
<1>3. CASE ~Successful(r)
  BY <1>1, <1>3 DEF MeetsSlo
<1> QED
  BY <1>2, <1>3

\* Every record is either completed or failed.
LEMMA FailedAreTheRest ==
  ASSUME NEW n \in Nat, NEW records, DOMAIN records = 1..n, Len(records) = n
  PROVE  Len(records) - Cardinality(Completed(records)) = Cardinality(Failures(records))
<1>1. Completed(records) \cup Failures(records) = 1..n
  BY DEF Completed, Failures
<1>2. Completed(records) \cap Failures(records) = {}
  BY DEF Completed, Failures
<1>3. IsFiniteSet(1..n) /\ Cardinality(1..n) = n
  BY FS_Interval
<1>4. IsFiniteSet(Completed(records)) /\ IsFiniteSet(Failures(records))
  BY <1>1, <1>3, FS_Subset
<1>5. Cardinality(1..n) = Cardinality(Completed(records)) + Cardinality(Failures(records))
                            - Cardinality(Completed(records) \cap Failures(records))
  BY <1>1, <1>4, FS_Union
<1>6. Cardinality(Completed(records)) \in Nat /\ Cardinality(Failures(records)) \in Nat
  BY <1>4, FS_CardinalityType
<1>7. Cardinality(Completed(records) \cap Failures(records)) = 0
  BY <1>2, FS_EmptySet
<1> QED
  BY <1>3, <1>5, <1>6, <1>7

\* The aggregate and the objective of the same records.
LEMMA SameReduction ==
  ASSUME NEW n \in Nat, NEW records, DOMAIN records = 1..n, Len(records) = n,
         NEW t, NEW seen
  PROVE  /\ Reduced(records, t, seen).good = Aggregate(records).good
         /\ Reduced(records, t, seen).completed = Aggregate(records).completed
         /\ Reduced(records, t, seen).failed = Aggregate(records).failed
         /\ Reduced(records, t, seen).out = Aggregate(records).out
<1>1. {k \in DOMAIN records : MeetsSlo(records[k])}
        = {k \in DOMAIN records : RequestGood(records[k])}
  BY SameGoodness
<1>2. Len(records) - Cardinality(Completed(records)) = Cardinality(Failures(records))
  BY FailedAreTheRest
<1> QED
  BY <1>1, <1>2 DEF Reduced, Aggregate

-----------------------------------------------------------------------------
(* The inductive invariant *)

LEMMA RequestsFinite ==
  /\ IsFiniteSet(Requests) /\ Cardinality(Requests) \in Nat
  /\ Requests = 1..Cardinality(Requests)
BY StreamAssumption, FS_CardinalityType

LEMMA StreamingFinite == IsFiniteSet(Streaming) /\ Cardinality(Streaming) \in Nat
BY RequestsFinite, FS_Subset, FS_CardinalityType DEF Streaming

LEMMA InitIInv == Init => IInv
<1> SUFFICES ASSUME Init PROVE IInv
  OBVIOUS
<1>1. StageOK /\ PhaseOK
  BY StreamAssumption DEF Init, StageOK, PhaseOK
<1>5. RecordsOK
  <2>1. record \in [Requests -> {NoRecord}]
    BY DEF Init
  <2> QED
    BY <2>1 DEF RecordsOK
<1>2. QueueOK
  BY DEF Init, QueueOK
<1>3. SlotsOK
  <2>1. Streaming = {}
    BY DEF Init, Streaming
  <2> QED
    BY <2>1, FS_EmptySet, StreamAssumption DEF Init, SlotsOK
<1>4. OutcomeOK
  BY DEF Init, OutcomeOK, NoOutcome
<1> QED
  BY <1>1, <1>2, <1>3, <1>4, <1>5 DEF IInv

\* What no step changes, when it leaves these variables alone.
LEMMA Unmoved ==
  ASSUME IInv, UNCHANGED <<now, stage, phase, queue, slots, record, outcome>>
  PROVE  IInv'
<1>1. StageOK' /\ PhaseOK' /\ RecordsOK' /\ QueueOK'
  BY DEF IInv, StageOK, PhaseOK, RecordsOK, QueueOK
<1>2. SlotsOK'
  BY DEF IInv, SlotsOK, Streaming
<1>3. OutcomeOK'
  BY DEF IInv, OutcomeOK, AllEnded
<1> QED
  BY <1>1, <1>2, <1>3 DEF IInv

\* A request that leaves the stream gives its slot back, once.
LEMMA EndKeeps ==
  ASSUME IInv, NEW r \in Requests, NEW result, phase[r] = "streaming", End(r, result)
  PROVE  IInv'
<1>1. StageOK' /\ PhaseOK'
  BY DEF IInv, End, StageOK, PhaseOK
<1>5. RecordsOK'
  <2>1. PICK S : record \in [Requests -> S]
    BY DEF IInv, RecordsOK
  <2>2. record' \in [Requests -> S \cup {result}]
    BY <2>1 DEF End
  <2> QED
    BY <2>2 DEF RecordsOK
<1>2. QueueOK'
  BY DEF IInv, End, PhaseOK, QueueOK
<1>3. SlotsOK'
  <2>1. Streaming' = Streaming \ {r} /\ r \in Streaming
    BY DEF IInv, End, PhaseOK, Streaming
  <2>2. Cardinality(Streaming') = Cardinality(Streaming) - 1
    BY <2>1, StreamingFinite, FS_RemoveElement
  <2> QED
    BY <2>2, StreamingFinite, StreamAssumption DEF IInv, End, SlotsOK
<1>4. OutcomeOK'
  <2>1. stage \notin {"gathered", "scored"}
    BY DEF IInv, OutcomeOK, AllEnded
  <2> QED
    BY <2>1 DEF IInv, End, OutcomeOK
<1> QED
  BY <1>1, <1>2, <1>3, <1>4, <1>5 DEF IInv

\* The task at the head of the queue leaves it.
LEMMA DequeueKeeps ==
  ASSUME IInv, NEW r \in Requests, NEW p \in {"streaming", "raised"},
         queue # <<>>, r = Head(queue), queue' = Tail(queue),
         phase' = [phase EXCEPT ![r] = p]
  PROVE  QueueOK' /\ PhaseOK' /\ phase[r] = "queued"
<1>1. queue \in Seq(Requests) /\ Len(queue) \in Nat /\ Len(queue) > 0
  BY DEF IInv, QueueOK
<1>2. Head(queue) = queue[1] /\ Len(queue') = Len(queue) - 1 /\ queue' \in Seq(Requests)
  BY <1>1
<1>3. \A i \in 1..Len(queue') : queue'[i] = queue[i + 1]
  BY <1>1
<1>4. phase[r] = "queued"
  BY <1>1, <1>2 DEF IInv, QueueOK
<1>5. PhaseOK'
  BY DEF IInv, PhaseOK
<1>6. \A i, j \in 1..Len(queue') : queue'[i] = queue'[j] => i = j
  BY <1>1, <1>2, <1>3 DEF IInv, QueueOK
<1>7. ASSUME NEW s \in Requests
      PROVE  phase'[s] = "queued" <=> \E i \in 1..Len(queue') : queue'[i] = s
  <2>1. CASE s = r
    <3>1. phase'[s] # "queued"
      BY <2>1 DEF IInv, PhaseOK
    <3>2. \A i \in 1..Len(queue') : queue'[i] # s
      BY <1>1, <1>2, <1>3, <2>1 DEF IInv, QueueOK
    <3> QED
      BY <3>1, <3>2
  <2>2. CASE s # r
    <3>1. phase'[s] = phase[s]
      BY <2>2 DEF IInv, PhaseOK
    <3>2. ASSUME NEW i \in 1..Len(queue), queue[i] = s
          PROVE  \E k \in 1..Len(queue') : queue'[k] = s
      <4>1. i # 1
        BY <1>2, <2>2, <3>2
      <4>2. i - 1 \in 1..Len(queue') /\ queue'[i - 1] = s
        BY <1>1, <1>2, <1>3, <3>2, <4>1
      <4> QED
        BY <4>2
    <3>3. ASSUME NEW i \in 1..Len(queue'), queue'[i] = s
          PROVE  \E k \in 1..Len(queue) : queue[k] = s
      <4>1. i + 1 \in 1..Len(queue) /\ queue[i + 1] = s
        BY <1>1, <1>2, <1>3, <3>3
      <4> QED
        BY <4>1
    <3> QED
      BY <3>1, <3>2, <3>3 DEF IInv, QueueOK
  <2> QED
    BY <2>1, <2>2
<1> QED
  BY <1>2, <1>4, <1>5, <1>6, <1>7 DEF QueueOK

-----------------------------------------------------------------------------
(* One lemma per step that moves a request or the stage *)

LEMMA ArriveKeeps ==
  ASSUME IInv, NEW r \in Requests, Arrive(r)
  PROVE  IInv'
<1>1. StageOK' /\ PhaseOK' /\ RecordsOK'
  BY DEF IInv, Arrive, StageOK, PhaseOK, RecordsOK
<1>2. QueueOK'
  <2>1. queue \in Seq(Requests) /\ Len(queue) \in Nat
    BY DEF IInv, QueueOK
  <2>2. /\ queue' \in Seq(Requests) /\ Len(queue') = Len(queue) + 1
        /\ \A i \in 1..Len(queue) : queue'[i] = queue[i]
        /\ queue'[Len(queue) + 1] = r
    BY <2>1 DEF Arrive
  <2>3. \A i \in 1..Len(queue) : queue[i] # r
    BY DEF IInv, Arrive, QueueOK
  <2>4. \A i \in 1..Len(queue') : i \in 1..Len(queue) \/ i = Len(queue) + 1
    BY <2>1, <2>2
  <2>5. \A i, j \in 1..Len(queue') : queue'[i] = queue'[j] => i = j
    BY <2>2, <2>3, <2>4 DEF IInv, QueueOK
  <2>6. ASSUME NEW s \in Requests
        PROVE  phase'[s] = "queued" <=> \E i \in 1..Len(queue') : queue'[i] = s
    <3>1. CASE s = r
      BY <2>1, <2>2, <3>1 DEF IInv, PhaseOK, Arrive
    <3>2. CASE s # r
      <4>1. phase'[s] = phase[s]
        BY <3>2 DEF IInv, PhaseOK, Arrive
      <4>2. (\E i \in 1..Len(queue') : queue'[i] = s)
              <=> (\E i \in 1..Len(queue) : queue[i] = s)
        BY <2>1, <2>2, <2>4, <3>2
      <4> QED
        BY <4>1, <4>2 DEF IInv, QueueOK
    <3> QED
      BY <3>1, <3>2
  <2> QED
    BY <2>2, <2>5, <2>6 DEF QueueOK
<1>3. SlotsOK'
  <2>1. Streaming' = Streaming
    BY DEF IInv, Arrive, PhaseOK, Streaming
  <2> QED
    BY <2>1 DEF IInv, Arrive, SlotsOK
<1>4. OutcomeOK'
  BY DEF IInv, Arrive, OutcomeOK
<1> QED
  BY <1>1, <1>2, <1>3, <1>4 DEF IInv

\* While a task is queued the benchmark has not gathered.
LEMMA NotGathered ==
  ASSUME IInv, NEW r \in Requests, phase[r] \notin {"ended", "raised"}
  PROVE  stage \notin {"gathered", "scored"}
BY DEF IInv, OutcomeOK, AllEnded

\* A slot is taken.
LEMMA SendKeeps ==
  ASSUME IInv, NEW r \in Requests, NEW script, Send(r, script)
  PROVE  IInv'
<1>1. QueueOK' /\ PhaseOK' /\ phase[r] = "queued"
  BY DequeueKeeps DEF Send
<1>2. StageOK' /\ RecordsOK'
  BY DEF IInv, Send, StageOK, RecordsOK
<1>3. SlotsOK'
  <2>1. Streaming' = Streaming \cup {r} /\ r \notin Streaming
    BY <1>1 DEF IInv, Send, PhaseOK, Streaming
  <2>2. Cardinality(Streaming') = Cardinality(Streaming) + 1
    BY <2>1, StreamingFinite, FS_AddElement
  <2> QED
    BY <2>2, StreamingFinite, StreamAssumption DEF IInv, Send, SlotsOK
<1>4. OutcomeOK'
  BY <1>1, NotGathered DEF IInv, Send, OutcomeOK
<1> QED
  BY <1>1, <1>2, <1>3, <1>4 DEF IInv

\* Nor does a task that raises keep one.
LEMMA TaskRaisesKeeps ==
  ASSUME IInv, NEW r \in Requests, TaskRaises(r)
  PROVE  IInv'
<1>1. QueueOK' /\ PhaseOK' /\ phase[r] = "queued"
  BY DequeueKeeps DEF TaskRaises
<1>2. StageOK' /\ RecordsOK'
  BY DEF IInv, TaskRaises, StageOK, RecordsOK
<1>3. SlotsOK'
  <2>1. Streaming' = Streaming
    BY <1>1 DEF IInv, TaskRaises, PhaseOK, Streaming
  <2> QED
    BY <2>1 DEF IInv, TaskRaises, SlotsOK
<1>4. OutcomeOK'
  BY <1>1, NotGathered DEF IInv, TaskRaises, OutcomeOK
<1> QED
  BY <1>1, <1>2, <1>3, <1>4 DEF IInv

LEMMA ChunkKeeps ==
  ASSUME IInv, NEW r \in Requests, NEW n, Chunk(r, n)
  PROVE  IInv'
<1>1. phase[r] = "streaming"
  BY DEF Chunk
<1>2. (\E result : End(r, result)) \/ Continue
  BY DEF Chunk
<1>3. CASE Continue
  BY <1>3, Unmoved DEF Continue
<1> QED
  BY <1>1, <1>2, <1>3, EndKeeps

\* All that a response can do ends it or lets it go on.
LEMMA ResponseKeeps ==
  ASSUME IInv, NEW r \in Requests,
         Read(r) \/ (\E oom \in BOOLEAN : HttpError(r, oom)) \/ (\E e : Raise(r, e))
  PROVE  IInv'
<1>1. CASE \E n : Chunk(r, n)
  BY <1>1, ChunkKeeps
<1>2. CASE Eof(r)
  BY <1>2, EndKeeps DEF Eof
<1>3. CASE \E oom \in BOOLEAN : HttpError(r, oom)
  BY <1>3, EndKeeps DEF HttpError
<1>4. CASE \E e : Raise(r, e)
  BY <1>4, EndKeeps DEF Raise
<1> QED
  BY <1>1, <1>2, <1>3, <1>4 DEF Read

LEMMA StageMoves ==
  ASSUME IInv, EndWarmup \/ Tick
  PROVE  IInv'
<1>1. StageOK'
  <2>1. CASE EndWarmup
    BY <2>1 DEF IInv, EndWarmup, StageOK
  <2>2. CASE Tick
    BY <2>2, StreamAssumption DEF IInv, Tick, StageOK
  <2> QED
    BY <2>1, <2>2
<1>2. PhaseOK' /\ QueueOK' /\ RecordsOK'
  <2>1. UNCHANGED <<phase, queue, record>>
    BY DEF EndWarmup, Tick
  <2> QED
    BY <2>1 DEF IInv, PhaseOK, QueueOK, RecordsOK
<1>3. SlotsOK'
  BY DEF IInv, EndWarmup, Tick, SlotsOK, Streaming
<1>4. OutcomeOK'
  BY DEF IInv, EndWarmup, Tick, OutcomeOK
<1> QED
  BY <1>1, <1>2, <1>3, <1>4 DEF IInv

\* The aggregate is that of the records Gather leaves.
LEMMA GatherKeeps ==
  ASSUME IInv, Gather
  PROVE  IInv'
<1>1. StageOK' /\ PhaseOK' /\ QueueOK'
  BY DEF IInv, Gather, StageOK, PhaseOK, QueueOK
<1>4. RecordsOK'
  <2>1. record' \in [Requests -> {record'[r] : r \in Requests}]
    BY DEF Gather
  <2> QED
    BY <2>1 DEF RecordsOK
<1>2. SlotsOK'
  BY DEF IInv, Gather, SlotsOK, Streaming
<1>3. OutcomeOK'
  <2>1. AllEnded'
    BY DEF Gather, AllEnded
  <2>2. PICK a, o : outcome = [aggregate |-> a, objective |-> o]
    BY DEF IInv, OutcomeOK
  <2>3. outcome' = [aggregate |-> Aggregate(record'), objective |-> o]
    BY <2>2 DEF Gather
  <2>4. stage' = "gathered"
    BY DEF Gather
  <2> QED
    BY <2>1, <2>3, <2>4 DEF OutcomeOK
<1> QED
  BY <1>1, <1>2, <1>3, <1>4 DEF IInv

LEMMA ScoreKeeps ==
  ASSUME IInv, NEW seen, Score(seen)
  PROVE  IInv'
<1>1. StageOK' /\ PhaseOK' /\ QueueOK' /\ RecordsOK'
  BY DEF IInv, Score, StageOK, PhaseOK, QueueOK, RecordsOK
<1>2. SlotsOK'
  BY DEF IInv, Score, SlotsOK, Streaming
<1>3. OutcomeOK'
  <2>1. CASE now = 0
    BY <2>1 DEF IInv, Score, OutcomeOK
  <2>2. CASE now # 0
    <3>1. PICK a, o : outcome = [aggregate |-> a, objective |-> o]
      BY DEF IInv, OutcomeOK
    <3>2. outcome' = [aggregate |-> a, objective |-> Reduced(record, now, seen)]
      BY <2>2, <3>1 DEF Score
    <3>3. AllEnded' /\ a = Aggregate(record)
      BY <3>1 DEF IInv, Score, OutcomeOK, AllEnded
    <3>4. record' = record
      BY DEF Score
    <3> QED
      BY <3>2, <3>3, <3>4 DEF OutcomeOK
  <2> QED
    BY <2>1, <2>2
<1> QED
  BY <1>1, <1>2, <1>3 DEF IInv

\* A cancelled benchmark holds no slot.
LEMMA CancelKeeps ==
  ASSUME IInv, Cancel
  PROVE  IInv'
<1>1. StageOK' /\ PhaseOK' /\ RecordsOK'
  BY DEF IInv, Cancel, StageOK, PhaseOK, RecordsOK
<1>2. QueueOK'
  BY DEF Cancel, QueueOK
<1>3. SlotsOK'
  <2>1. Streaming' = {}
    BY DEF Cancel, Streaming
  <2> QED
    BY <2>1, FS_EmptySet, StreamAssumption DEF Cancel, SlotsOK
<1>4. OutcomeOK'
  BY DEF IInv, Cancel, OutcomeOK
<1> QED
  BY <1>1, <1>2, <1>3, <1>4 DEF IInv

LEMMA NextKeeps ==
  ASSUME IInv, [Next]_vars
  PROVE  IInv'
<1>1. CASE WarmUp
  BY <1>1, Unmoved DEF WarmUp, Warmup
<1>2. CASE EndWarmup \/ Tick
  BY <1>2, StageMoves
<1>3. CASE Gather
  BY <1>3, GatherKeeps
<1>4. CASE Cancel
  BY <1>4, CancelKeeps
<1>5. CASE Transport
  BY <1>5, ResponseKeeps DEF Transport
<1>6. CASE \E r \in Requests : Arrive(r)
  BY <1>6, ArriveKeeps
<1>7. CASE \E r \in Requests : Read(r) \/ \E oom \in BOOLEAN : HttpError(r, oom)
  BY <1>7, ResponseKeeps
<1>8. CASE \E r \in Requests : TaskRaises(r)
  BY <1>8, TaskRaisesKeeps
<1>9. CASE \E r \in Requests : \E s \in Scripts[r] : Send(r, s)
  BY <1>9, SendKeeps
<1>10. CASE \E seen \in Readings : Score(seen)
  BY <1>10, ScoreKeeps
<1>11. CASE UNCHANGED vars
  BY <1>11, Unmoved DEF vars
<1> QED
  BY <1>1, <1>2, <1>3, <1>4, <1>5, <1>6, <1>7, <1>8, <1>9, <1>10, <1>11 DEF Next

\* The slots of the semaphore, the queue and the outcome at every moment of a
\* benchmark of any number of requests.
THEOREM Invariant == Spec => []IInv
<1>1. Init => IInv
  BY InitIInv
<1>2. IInv /\ [Next]_vars => IInv'
  BY NextKeeps
<1> QED
  BY <1>1, <1>2, PTL DEF Spec

\* Every slot is free or held by one streaming request, and the queue holds the
\* requests that wait for one, whatever fails (_run_fixed_trace_sse).
THEOREM TypeCorrect == Spec => []TypeOK
<1>1. IInv => TypeOK
  <2> SUFFICES ASSUME IInv PROVE TypeOK
    OBVIOUS
  <2>1. \A r \in Requests : phase[r] = "queued" <=> r \in ToSet(queue)
    <3>1. DOMAIN queue = 1..Len(queue)
      BY DEF IInv, QueueOK
    <3> QED
      BY <3>1 DEF IInv, QueueOK, ToSet
  <2>2. slots \in 0..MaxConcurrency
    BY StreamingFinite, StreamAssumption DEF IInv, SlotsOK
  <2> QED
    BY <2>1, <2>2 DEF IInv, StageOK, PhaseOK, SlotsOK, Streaming, TypeOK
<1> QED
  BY <1>1, Invariant, PTL

\* The goodput the benchmark reports (metrics.py) is the goodput the objective
\* is computed from (objective.py), for any records and any thresholds.
THEOREM GoodputsAlwaysAgree == Spec => []GoodputsAgree
<1>1. IInv => GoodputsAgree
  <2> SUFFICES ASSUME IInv, stage = "scored"
               PROVE  /\ outcome.objective.good = outcome.aggregate.good
                      /\ outcome.objective.completed = outcome.aggregate.completed
                      /\ outcome.objective.failed = outcome.aggregate.failed
                      /\ outcome.objective.out = outcome.aggregate.out
    BY DEF GoodputsAgree
  <2>1. PICK t, seen : outcome.objective = Reduced(record, t, seen)
    BY DEF IInv, OutcomeOK
  <2>2. outcome.aggregate = Aggregate(record)
    BY DEF IInv, OutcomeOK
  <2>3. DOMAIN record = 1..Cardinality(Requests) /\ Len(record) = Cardinality(Requests)
    <3>1. PICK S : record \in [Requests -> S]
      BY DEF IInv, RecordsOK
    <3>2. record \in Seq(S)
      BY <3>1, RequestsFinite
    <3>3. DOMAIN record = 1..Len(record) /\ Len(record) \in Nat
      BY <3>2, LenProperties
    <3> QED
      BY <3>1, <3>3, RequestsFinite
  <2> QED
    BY <2>1, <2>2, <2>3, RequestsFinite, SameReduction
<1> QED
  BY <1>1, Invariant, PTL

-----------------------------------------------------------------------------
(* Induction over numbers and over sequences, in terms of sets *)

LEMMA LessIsWellFounded == IsWellFoundedOn({ss \in Nat \X Nat : ss[1] < ss[2]}, Nat)
BY NatLessThanWellFounded DEF OpToRel

LEMMA SmallestOf ==
  ASSUME NEW S, S \subseteq Nat, S # {}
  PROVE  \E n \in S : \A m \in S : n <= m
<1> DEFINE R == {ss \in Nat \X Nat : ss[1] < ss[2]}
<1>1. IsWellFoundedOn(R, Nat)
  BY LessIsWellFounded
<1> HIDE DEF R
<1>2. PICK n \in S : \A m \in S : ~(<<m, n>> \in R)
  BY <1>1, WFMin
<1>3. ASSUME NEW m \in S, m < n PROVE <<m, n>> \in R
  <2>1. <<m, n>> \in Nat \X Nat /\ <<m, n>>[1] = m /\ <<m, n>>[2] = n
    OBVIOUS
  <2> QED
    BY <1>3, <2>1 DEF R
<1>4. \A m \in S : ~(m < n)
  BY <1>2, <1>3
<1>5. n \in Nat /\ \A m \in S : m \in Nat
  OBVIOUS
<1>6. \A m \in S : n <= m
  BY <1>4, <1>5
<1> QED
  BY <1>6

LEMMA SetInduction ==
  ASSUME NEW S, 0 \in S, \A n \in Nat : n \in S => n + 1 \in S
  PROVE  \A n \in Nat : n \in S
<1> SUFFICES ASSUME Nat \ S # {} PROVE FALSE
  OBVIOUS
<1>1. PICK n \in Nat \ S : \A m \in Nat \ S : n <= m
  BY SmallestOf
<1>2. n # 0 /\ n - 1 \in Nat /\ n - 1 \notin Nat \ S
  BY <1>1
<1> QED
  BY <1>1, <1>2

\* What holds of the empty sequence, and of every sequence with one element more,
\* holds of all.
LEMMA SequenceInduction ==
  ASSUME NEW A, NEW T, <<>> \in T,
         \A q \in Seq(A) : \A x \in A : q \in T => Append(q, x) \in T
  PROVE  \A s \in Seq(A) : s \in T
<1> SUFFICES ASSUME NEW s \in Seq(A) PROVE s \in T
  OBVIOUS
<1> DEFINE p(k) == [i \in 1..k |-> s[i]]
           S == {k \in Nat : k <= Len(s) => p(k) \in T}
<1>1. 0 \in S
  <2>1. p(0) = <<>>
    OBVIOUS
  <2> QED
    BY <2>1
<1>2. ASSUME NEW k \in Nat, k \in S
      PROVE  k + 1 \in S
  <2> SUFFICES ASSUME k + 1 <= Len(s)
               PROVE  p(k + 1) \in T
    OBVIOUS
  <2>1. p(k) \in Seq(A) /\ s[k + 1] \in A /\ p(k) \in T
    BY <1>2
  <2>2. p(k + 1) = Append(p(k), s[k + 1])
    OBVIOUS
  <2> HIDE DEF p
  <2> QED
    BY <2>1, <2>2
<1> HIDE DEF S
<1>3. \A k \in Nat : k \in S
  BY <1>1, <1>2, SetInduction
<1>4. p(Len(s)) = s /\ Len(s) \in Nat
  OBVIOUS
<1>5. Len(s) \in S
  BY <1>3, <1>4
<1> HIDE DEF p
<1>6. p(Len(s)) \in T
  BY <1>4, <1>5 DEF S
<1> QED
  BY <1>4, <1>6

-----------------------------------------------------------------------------
(* Folds *)

\* What is folded over a response: bytes are cut into lines, the data lines of an
\* event are joined, lines are consumed, and events are read at some time.
Step(b, x, how) ==
  IF how[1] = "cut" THEN CutAt(b, x)
  ELSE IF how[1] = "join" THEN b \o x
  ELSE IF how[1] = "line" THEN ConsumeLine(b, x)
  ELSE ConsumeEvent(b, x, how[2])

\* FoldLeft of Step, its definition expanded.
Rule(a, s, t, D, g) ==
  [u \in SUBSET D |-> IF u = {} THEN a ELSE Step(g[u \ {Max(u)}], s[Max(u)], t)]
Fold(a, s, t) == (CHOOSE g : g = Rule(a, s, t, DOMAIN s, g))[DOMAIN s]

\* The largest of some indices.
LEMMA MaxOfIndices ==
  ASSUME NEW n \in Nat, NEW u, u \subseteq 1..n, u # {}
  PROVE  Max(u) \in u /\ \A i \in u : i <= Max(u)
<1> DEFINE below == {k \in 0..n : n - k \in u}
<1>0. \A i \in u : i \in 1..n /\ n - i \in 0..n /\ n - (n - i) = i
  OBVIOUS
<1>1. below \subseteq Nat /\ below # {}
  <2>1. PICK i \in u : i \in 1..n
    BY <1>0
  <2>2. n - i \in below
    BY <1>0, <2>1
  <2>3. below # {}
    BY <2>2
  <2>4. below \subseteq Nat
    OBVIOUS
  <2> QED
    BY <2>3, <2>4
<1>2. PICK k \in below : \A m \in below : k <= m
  BY <1>1, SmallestOf
<1>3. n - k \in u
  BY <1>2
<1>4. ASSUME NEW i \in u PROVE n - k >= i
  <2>1. n - i \in below
    BY <1>0
  <2>2. k <= n - i /\ k \in 0..n /\ i \in 1..n
    BY <1>0, <1>2, <2>1
  <2> QED
    BY <2>2
<1>5. \E x \in u : \A y \in u : x >= y
  BY <1>3, <1>4
<1>6. Max(u) \in u /\ \A y \in u : Max(u) >= y
  BY <1>5 DEF Max
<1>7. \A i \in u : i \in Int
  OBVIOUS
<1> QED
  BY <1>6, <1>7

LEMMA MaxOfMore ==
  ASSUME NEW n \in Nat, NEW u, u \subseteq 1..n, n \in u
  PROVE  Max(u) = n
<1>1. Max(u) \in u /\ n <= Max(u)
  BY MaxOfIndices
<1>2. Max(u) \in 1..n
  BY <1>1
<1> QED
  BY <1>1, <1>2

LEMMA RuleHasSolution ==
  ASSUME NEW a, NEW s, NEW t, NEW n \in Nat
  PROVE  \E g : g = Rule(a, s, t, 1..n, g)
<1> DEFINE S == {k \in Nat : \E g : g = Rule(a, s, t, 1..k, g)}
<1>1. 0 \in S
  <2> DEFINE g == [u \in SUBSET (1..0) |-> a]
  <2>1. \A u \in SUBSET (1..0) : u = {}
    OBVIOUS
  <2>2. g = Rule(a, s, t, 1..0, g)
    BY <2>1 DEF Rule
  <2> QED
    BY <2>2
<1>2. ASSUME NEW k \in Nat, k \in S
      PROVE  k + 1 \in S
  <2>1. PICK g : g = Rule(a, s, t, 1..k, g)
    BY <1>2
  <2>0. PICK m \in Nat : m = k + 1
    OBVIOUS
  <2> DEFINE h == [u \in SUBSET (1..m) |->
                     IF u = {} THEN a
                     ELSE IF m \in u THEN Step(g[u \ {m}], s[m], t) ELSE g[u]]
  <2>2. ASSUME NEW u \in SUBSET (1..m), u # {}
        PROVE  h[u] = Step(h[u \ {Max(u)}], s[Max(u)], t)
    <3>1. Max(u) \in u /\ u \ {Max(u)} \in SUBSET (1..m)
      <4>1. Max(u) \in u
        BY <2>2, MaxOfIndices
      <4> QED
        BY <4>1
    <3>2. g[{}] = a
      <4>1. {} \in SUBSET (1..k)
        OBVIOUS
      <4> QED
        BY <2>1, <4>1 DEF Rule
    <3>3. CASE m \in u
      <4>1. Max(u) = m
        BY <3>3, MaxOfMore
      <4>2. h[u] = Step(g[u \ {m}], s[m], t)
        BY <2>2, <3>3
      <4>3. h[u \ {m}] = g[u \ {m}]
        BY <3>1, <3>2, <4>1
      <4> QED
        BY <4>1, <4>2, <4>3
    <3>4. CASE m \notin u
      <4>1. u \in SUBSET (1..k) /\ u \ {Max(u)} \in SUBSET (1..k)
        <5>1. \A i \in u : i \in 1..k
          BY <2>0, <3>4
        <5> QED
          BY <5>1
      <4>2. h[u] = g[u]
        BY <2>2, <3>4
      <4>3. g[u] = Step(g[u \ {Max(u)}], s[Max(u)], t)
        BY <2>1, <2>2, <4>1 DEF Rule
      <4>4. h[u \ {Max(u)}] = g[u \ {Max(u)}]
        BY <3>1, <3>2, <3>4
      <4> QED
        BY <4>2, <4>3, <4>4
    <3> QED
      BY <3>3, <3>4
  <2>3. h[{}] = a
    <3>1. {} \in SUBSET (1..m)
      OBVIOUS
    <3> QED
      BY <3>1
  <2>4. h = [u \in SUBSET (1..m) |-> h[u]]
    OBVIOUS
  <2> HIDE DEF h
  <2>5. h = Rule(a, s, t, 1..m, h)
    BY <2>2, <2>3, <2>4 DEF Rule
  <2> QED
    BY <2>0, <2>5
<1> HIDE DEF S
<1>3. \A k \in Nat : k \in S
  BY <1>1, <1>2, SetInduction
<1> QED
  BY <1>3 DEF S

Solves(a, s, t, n, g) == g = Rule(a, s, t, 1..n, g)

\* Two folds agree where their sequences do.
LEMMA SolutionsAgree ==
  ASSUME NEW a, NEW t, NEW s, NEW n \in Nat, NEW g, Solves(a, s, t, n, g),
         NEW r, NEW m \in Nat, NEW h, Solves(a, r, t, m, h),
         n <= m, \A i \in 1..n : s[i] = r[i]
  PROVE  g[1..n] = h[1..n]
<1> DEFINE S == {j \in Nat : j <= n => \A u \in SUBSET (1..j) : g[u] = h[u]}
<1>1. \A u \in SUBSET (1..n) :
        /\ g[u] = IF u = {} THEN a ELSE Step(g[u \ {Max(u)}], s[Max(u)], t)
        /\ h[u] = IF u = {} THEN a ELSE Step(h[u \ {Max(u)}], r[Max(u)], t)
  <2>1. ASSUME NEW u \in SUBSET (1..n)
        PROVE  u \in SUBSET (1..n) /\ u \in SUBSET (1..m)
    OBVIOUS
  <2> QED
    BY <2>1 DEF Rule, Solves
<1>2. 0 \in S
  <2>1. \A u \in SUBSET (1..0) : u = {}
    OBVIOUS
  <2> QED
    BY <1>1, <2>1
<1>3. ASSUME NEW j \in Nat, j \in S
      PROVE  j + 1 \in S
  <2>0. PICK l \in Nat : l = j + 1
    OBVIOUS
  <2> SUFFICES ASSUME l <= n, NEW u \in SUBSET (1..l)
               PROVE  g[u] = h[u]
    BY <2>0
  <2>1. u \in SUBSET (1..n)
    BY <2>0
  <2> SUFFICES ASSUME u # {}
               PROVE  g[u] = h[u]
    BY <1>1, <2>1
  <2>2. Max(u) \in u /\ \A i \in u : i <= Max(u)
    BY MaxOfIndices
  <2>3. Max(u) \in 1..n /\ Max(u) \in 1..l
    BY <2>1, <2>2
  <2>4. u \ {Max(u)} \in SUBSET (1..j)
    <3>1. ASSUME NEW i \in u, i # Max(u) PROVE i \in 1..j
      <4>1. i \in 1..l /\ i <= Max(u)
        BY <2>2
      <4> QED
        BY <2>0, <2>3, <3>1, <4>1
    <3> QED
      BY <3>1
  <2>5. g[u \ {Max(u)}] = h[u \ {Max(u)}]
    <3>1. j <= n
      BY <2>0
    <3>2. \A v \in SUBSET (1..j) : g[v] = h[v]
      BY <1>3, <3>1
    <3> QED
      BY <2>4, <3>2
  <2> QED
    BY <1>1, <2>1, <2>3, <2>5
<1> HIDE DEF S
<1>4. \A j \in Nat : j \in S
  BY <1>2, <1>3, SetInduction
<1>5. \A u \in SUBSET (1..n) : g[u] = h[u]
  BY <1>4 DEF S
<1> QED
  BY <1>5

LEMMA FoldOfNothing ==
  ASSUME NEW a, NEW t
  PROVE  Fold(a, <<>>, t) = a
<1>1. DOMAIN <<>> = 1..0
  OBVIOUS
<1>2. \E g : g = Rule(a, <<>>, t, 1..0, g)
  BY RuleHasSolution
<1>3. PICK g : /\ g = Rule(a, <<>>, t, 1..0, g)
               /\ Fold(a, <<>>, t) = g[1..0]
  BY <1>1, <1>2 DEF Fold
<1>4. 1..0 \in SUBSET (1..0) /\ 1..0 = {}
  OBVIOUS
<1> QED
  BY <1>3, <1>4 DEF Rule

LEMMA FoldOfAppend ==
  ASSUME NEW a, NEW s, NEW A, s \in Seq(A), NEW x \in A, NEW t
  PROVE  Fold(a, Append(s, x), t) = Step(Fold(a, s, t), x, t)
<1>8. PICK n : n \in Nat /\ n = Len(s)
  OBVIOUS
<1>9. PICK r : r = Append(s, x)
  OBVIOUS
<1>1. /\ n \in Nat /\ DOMAIN s = 1..n /\ DOMAIN r = 1..(n + 1)
      /\ r[n + 1] = x /\ \A i \in 1..n : s[i] = r[i]
  BY <1>8, <1>9
<1>0. PICK m \in Nat : m = n + 1
  BY <1>1
<1>2. PICK g : g = Rule(a, s, t, 1..n, g) /\ Fold(a, s, t) = g[1..n]
  <2>1. \E g : g = Rule(a, s, t, 1..n, g)
    BY <1>1, RuleHasSolution
  <2> QED
    BY <1>1, <2>1 DEF Fold
<1>3. PICK h : h = Rule(a, r, t, 1..m, h) /\ Fold(a, r, t) = h[1..m]
  <2>1. \E h : h = Rule(a, r, t, 1..m, h)
    BY <1>1, RuleHasSolution
  <2> QED
    BY <1>0, <1>1, <2>1 DEF Fold
<1>4. m \in 1..m /\ (1..m) \ {m} = 1..n
  BY <1>0, <1>1
<1>5. Max(1..m) = m
  BY <1>4, MaxOfMore
<1>6. h[1..m] = Step(h[1..n], x, t)
  <2>1. 1..m \in SUBSET (1..m) /\ 1..m # {}
    BY <1>4
  <2>2. h[1..m] = Step(h[(1..m) \ {Max(1..m)}], r[Max(1..m)], t)
    BY <1>3, <2>1 DEF Rule
  <2> QED
    BY <1>0, <1>1, <1>4, <1>5, <2>2
<1>7. g[1..n] = h[1..n]
  <2>1. n \in Nat /\ n <= m /\ \A i \in 1..n : s[i] = r[i]
    BY <1>0, <1>1
  <2>2. Solves(a, s, t, n, g) /\ Solves(a, r, t, m, h)
    BY <1>2, <1>3 DEF Solves
  <2> QED
    BY <2>1, <2>2, SolutionsAgree
<1> QED
  BY <1>2, <1>3, <1>6, <1>7, <1>9

\* Folding in two pieces.
LEMMA FoldOfConcat ==
  ASSUME NEW a, NEW A, NEW s \in Seq(A), NEW u \in Seq(A), NEW t
  PROVE  Fold(a, s \o u, t) = Fold(Fold(a, s, t), u, t)
<1> DEFINE T == {q \in Seq(A) : Fold(a, s \o q, t) = Fold(Fold(a, s, t), q, t)}
<1>1. <<>> \in T
  <2>1. s \o <<>> = s /\ <<>> \in Seq(A)
    OBVIOUS
  <2> QED
    BY <2>1, FoldOfNothing
<1>2. ASSUME NEW q \in Seq(A), NEW x \in A, q \in T
      PROVE  Append(q, x) \in T
  <2>1. s \o q \in Seq(A) /\ s \o Append(q, x) = Append(s \o q, x) /\ Append(q, x) \in Seq(A)
    OBVIOUS
  <2>2. Fold(a, Append(s \o q, x), t) = Step(Fold(a, s \o q, t), x, t)
    BY <2>1, FoldOfAppend
  <2>3. Fold(Fold(a, s, t), Append(q, x), t) = Step(Fold(Fold(a, s, t), q, t), x, t)
    BY FoldOfAppend
  <2> QED
    BY <1>2, <2>1, <2>2, <2>3
<1> HIDE DEF T
<1>3. \A q \in Seq(A) : q \in T
  BY <1>1, <1>2, SequenceInduction
<1> QED
  BY <1>3 DEF T

\* What every step keeps, the fold keeps.
LEMMA FoldStays ==
  ASSUME NEW S, NEW a \in S, NEW A, NEW s \in Seq(A), NEW t,
         \A b \in S : \A x \in A : Step(b, x, t) \in S
  PROVE  Fold(a, s, t) \in S
<1> DEFINE T == {q \in Seq(A) : Fold(a, q, t) \in S}
<1>1. <<>> \in T
  BY FoldOfNothing
<1>2. ASSUME NEW q \in Seq(A), NEW x \in A, q \in T
      PROVE  Append(q, x) \in T
  BY <1>2, FoldOfAppend
<1> HIDE DEF T
<1>3. \A q \in Seq(A) : q \in T
  BY <1>1, <1>2, SequenceInduction
<1> QED
  BY <1>3 DEF T

(* The folds of the model are these. *)

LEMMA StepIs ==
  ASSUME NEW b, NEW x
  PROVE  /\ Step(b, x, <<"cut">>) = CutAt(b, x)
         /\ Step(b, x, <<"join">>) = b \o x
         /\ Step(b, x, <<"line">>) = ConsumeLine(b, x)
         /\ \A t : Step(b, x, <<"event", t>>) = ConsumeEvent(b, x, t)
<1>1. \A t : <<"event", t>>[1] = "event" /\ <<"event", t>>[2] = t
  OBVIOUS
<1> QED
  BY <1>1 DEF Step

LEMMA SplitIs ==
  ASSUME NEW b
  PROVE  Split(b) = Fold([full |-> <<>>, rest |-> <<>>], b, <<"cut">>)
<1> DEFINE a == [full |-> <<>>, rest |-> <<>>]
           R(g) == [u \in SUBSET DOMAIN b |->
                      IF u = {} THEN a ELSE CutAt(g[u \ {Max(u)}], b[Max(u)])]
<1>1. Split(b) = (CHOOSE g : g = R(g))[DOMAIN b]
  BY DEF Split, FoldLeft, MapThenFoldSet
<1> HIDE DEF a
<1>2. \A g : (g = R(g)) <=> (g = Rule(a, b, <<"cut">>, DOMAIN b, g))
  BY StepIs DEF Rule
<1> HIDE DEF R
<1>3. (CHOOSE g : g = R(g)) = (CHOOSE g : g = Rule(a, b, <<"cut">>, DOMAIN b, g))
  BY <1>2, Zenon
<1> QED
  BY <1>1, <1>3 DEF Fold, a

Joined(lines) == FoldLeft(LAMBDA c, line : c \o line, <<>>, lines)

LEMMA JoinedIs ==
  ASSUME NEW lines
  PROVE  Joined(lines) = Fold(<<>>, lines, <<"join">>)
<1> DEFINE R(g) == [u \in SUBSET DOMAIN lines |->
                      IF u = {} THEN <<>> ELSE g[u \ {Max(u)}] \o lines[Max(u)]]
<1>1. Joined(lines) = (CHOOSE g : g = R(g))[DOMAIN lines]
  BY DEF Joined, FoldLeft, MapThenFoldSet
<1>2. \A g : (g = R(g)) <=> (g = Rule(<<>>, lines, <<"join">>, DOMAIN lines, g))
  BY StepIs DEF Rule
<1> HIDE DEF R
<1>3. (CHOOSE g : g = R(g)) = (CHOOSE g : g = Rule(<<>>, lines, <<"join">>, DOMAIN lines, g))
  BY <1>2, Zenon
<1> QED
  BY <1>1, <1>3 DEF Fold

LEMMA LinesAre ==
  ASSUME NEW s, NEW lines
  PROVE  FoldLeft(ConsumeLine, s, lines) = Fold(s, lines, <<"line">>)
<1> DEFINE R(g) == [u \in SUBSET DOMAIN lines |->
                      IF u = {} THEN s ELSE ConsumeLine(g[u \ {Max(u)}], lines[Max(u)])]
<1>1. FoldLeft(ConsumeLine, s, lines) = (CHOOSE g : g = R(g))[DOMAIN lines]
  BY DEF FoldLeft, MapThenFoldSet
<1>2. \A g : (g = R(g)) <=> (g = Rule(s, lines, <<"line">>, DOMAIN lines, g))
  BY StepIs DEF Rule
<1> HIDE DEF R
<1>3. (CHOOSE g : g = R(g)) = (CHOOSE g : g = Rule(s, lines, <<"line">>, DOMAIN lines, g))
  BY <1>2, Zenon
<1> QED
  BY <1>1, <1>3 DEF Fold

LEMMA ConsumedIs ==
  ASSUME NEW a, NEW events, NEW t
  PROVE  ConsumeAll(a, events, t) = Fold(a, events, <<"event", t>>)
<1> DEFINE R(g) == [u \in SUBSET DOMAIN events |->
                      IF u = {} THEN a ELSE ConsumeEvent(g[u \ {Max(u)}], events[Max(u)], t)]
<1>1. ConsumeAll(a, events, t) = (CHOOSE g : g = R(g))[DOMAIN events]
  BY DEF ConsumeAll, FoldLeft, MapThenFoldSet
<1>2. \A g : (g = R(g)) <=> (g = Rule(a, events, <<"event", t>>, DOMAIN events, g))
  <2>1. \A b, x : Step(b, x, <<"event", t>>) = ConsumeEvent(b, x, t)
    BY StepIs
  <2> QED
    BY <2>1 DEF Rule
<1> HIDE DEF R
<1>3. (CHOOSE g : g = R(g)) = (CHOOSE g : g = Rule(a, events, <<"event", t>>, DOMAIN events, g))
  BY <1>2, Zenon
<1> QED
  BY <1>1, <1>3 DEF Fold

-----------------------------------------------------------------------------
(* The decoder, whose chunks may be cut anywhere *)

Bytes == Seq(Symbols)
Cuts == [full : Seq(Bytes), rest : Bytes]
Decoders == [buffer : Bytes, lines : Seq(Bytes)]
FoundSoFar == [lines : Seq(Bytes), events : Seq(Payloads)]

LEMMA CutType ==
  ASSUME NEW c \in Cuts, NEW x \in Symbols
  PROVE  Step(c, x, <<"cut">>) \in Cuts
<1>1. Step(c, x, <<"cut">>) = CutAt(c, x)
  BY StepIs
<1>2. c = [full |-> c.full, rest |-> c.rest] /\ c.full \in Seq(Bytes) /\ c.rest \in Bytes
  BY DEF Cuts
<1>3. <<>> \in Bytes /\ Append(c.full, c.rest) \in Seq(Bytes) /\ Append(c.rest, x) \in Bytes
  BY <1>2 DEF Bytes
<1>6. \A f \in Seq(Bytes), w \in Bytes : [full |-> f, rest |-> w] \in Cuts
  BY DEF Cuts
<1>4. CASE x = NL
  <2>1. CutAt(c, x) = [full |-> Append(c.full, c.rest), rest |-> <<>>]
    BY <1>4 DEF CutAt
  <2> QED
    BY <1>1, <1>3, <1>6, <2>1
<1>5. CASE x # NL
  <2>1. CutAt(c, x) = [full |-> c.full, rest |-> Append(c.rest, x)]
    BY <1>2, <1>5 DEF CutAt
  <2> QED
    BY <1>1, <1>2, <1>3, <1>6, <2>1
<1> QED
  BY <1>4, <1>5

LEMMA CutsType ==
  ASSUME NEW c \in Cuts, NEW s \in Bytes
  PROVE  Fold(c, s, <<"cut">>) \in Cuts
<1>1. s \in Seq(Symbols)
  BY DEF Bytes
<1>2. \A b \in Cuts : \A x \in Symbols : Step(b, x, <<"cut">>) \in Cuts
  BY CutType
<1> QED
  BY <1>1, <1>2, FoldStays

NoCut(rest) == [full |-> <<>>, rest |-> rest]

LEMMA NoCutType ==
  ASSUME NEW rest \in Bytes
  PROVE  NoCut(rest) \in Cuts
BY DEF NoCut, Cuts

LEMMA SplitType ==
  ASSUME NEW b \in Bytes
  PROVE  Split(b) \in Cuts
<1>1. <<>> \in Bytes
  BY DEF Bytes
<1> QED
  BY <1>1, SplitIs, CutsType, NoCutType DEF NoCut

\* The lines already complete stay before the others.
LEMMA CutGoesOn ==
  ASSUME NEW c \in Cuts, NEW s \in Bytes
  PROVE  Fold(c, s, <<"cut">>)
           = [full |-> c.full \o Fold(NoCut(c.rest), s, <<"cut">>).full,
              rest |-> Fold(NoCut(c.rest), s, <<"cut">>).rest]
<1> DEFINE E == NoCut(c.rest)
           after(q) == Fold(E, q, <<"cut">>)
           T == {q \in Bytes : Fold(c, q, <<"cut">>)
                                 = [full |-> c.full \o after(q).full, rest |-> after(q).rest]}
<1>0. /\ c = [full |-> c.full, rest |-> c.rest] /\ c.full \in Seq(Bytes) /\ c.rest \in Bytes
      /\ E \in Cuts /\ E.full = <<>> /\ E.rest = c.rest
  BY NoCutType DEF Cuts, NoCut
<1> HIDE DEF E
<1>1. <<>> \in T
  <2>1. <<>> \in Bytes /\ Fold(c, <<>>, <<"cut">>) = c /\ after(<<>>) = E
    BY FoldOfNothing DEF Bytes
  <2>2. c.full \o <<>> = c.full
    BY <1>0
  <2> QED
    BY <1>0, <2>1, <2>2
<1>2. ASSUME NEW q \in Seq(Symbols), NEW x \in Symbols, q \in T
      PROVE  Append(q, x) \in T
  <2>1. q \in Bytes /\ Append(q, x) \in Bytes
    BY DEF Bytes
  <2>2. after(q) \in Cuts
    BY <1>0, <2>1, CutsType
  <2>3. Fold(c, Append(q, x), <<"cut">>) = CutAt(Fold(c, q, <<"cut">>), x)
    BY FoldOfAppend, StepIs
  <2>4. after(Append(q, x)) = CutAt(after(q), x)
    BY FoldOfAppend, StepIs
  <2>5. Fold(c, q, <<"cut">>) = [full |-> c.full \o after(q).full, rest |-> after(q).rest]
    BY <1>2
  <2>6. PICK f \in Seq(Bytes), w \in Bytes : after(q) = [full |-> f, rest |-> w]
    BY <2>2 DEF Cuts
  <2>7. c.full \o Append(f, w) = Append(c.full \o f, w)
    BY <1>0
  <2>8. CutAt([full |-> c.full \o f, rest |-> w], x)
          = [full |-> c.full \o CutAt([full |-> f, rest |-> w], x).full,
             rest |-> CutAt([full |-> f, rest |-> w], x).rest]
    BY <2>7 DEF CutAt
  <2>9. Fold(c, q, <<"cut">>) = [full |-> c.full \o f, rest |-> w]
    <3>1. after(q).full = f /\ after(q).rest = w
      BY <2>6
    <3> HIDE DEF after
    <3> QED
      BY <2>5, <3>1
  <2> HIDE DEF after
  <2>10. Fold(c, Append(q, x), <<"cut">>)
          = [full |-> c.full \o after(Append(q, x)).full, rest |-> after(Append(q, x)).rest]
    BY <2>3, <2>4, <2>6, <2>8, <2>9
  <2> QED
    BY <2>1, <2>10
<1> HIDE DEF T
<1>3. \A q \in Seq(Symbols) : q \in T
  BY <1>1, <1>2, SequenceInduction
<1> QED
  BY <1>3 DEF T, Bytes, E

\* What is left of a split has no line end, and is not split again.
LEMMA RestIsUncut ==
  ASSUME NEW b \in Bytes
  PROVE  Split(Split(b).rest) = NoCut(Split(b).rest)
<1> DEFINE T == {q \in Bytes : Split(Split(q).rest) = NoCut(Split(q).rest)}
<1>0. <<>> \in Bytes /\ Split(<<>>) = NoCut(<<>>)
  BY SplitIs, FoldOfNothing DEF NoCut, Bytes
<1>1. <<>> \in T
  <2>1. Split(<<>>).rest = <<>>
    BY <1>0 DEF NoCut
  <2> QED
    BY <1>0, <2>1
<1>2. ASSUME NEW q \in Seq(Symbols), NEW x \in Symbols, q \in T
      PROVE  Append(q, x) \in T
  <2>1. q \in Bytes /\ Append(q, x) \in Bytes
    BY DEF Bytes
  <2>2. \A u \in Bytes : Split(Append(u, x)) = CutAt(Split(u), x)
    BY FoldOfAppend, StepIs, SplitIs DEF Bytes
  <2>3. PICK f \in Seq(Bytes), w \in Bytes : Split(q) = [full |-> f, rest |-> w]
    BY <2>1, SplitType DEF Cuts
  <2>4. Split(q).rest = w /\ Split(w) = NoCut(w)
    BY <1>2, <2>3
  <2>5. Split(Append(q, x)) = CutAt([full |-> f, rest |-> w], x)
    BY <2>1, <2>2, <2>3
  <2>6. CASE x = NL
    <3>1. Split(Append(q, x)).rest = <<>>
      BY <2>5, <2>6 DEF CutAt
    <3> QED
      BY <1>0, <2>1, <3>1
  <2>7. CASE x # NL
    <3>1. Split(Append(q, x)).rest = Append(w, x)
      BY <2>5, <2>7 DEF CutAt
    <3>2. Split(Append(w, x)) = CutAt(NoCut(w), x)
      BY <2>2, <2>4
    <3>3. CutAt(NoCut(w), x) = NoCut(Append(w, x))
      BY <2>7 DEF CutAt, NoCut
    <3> QED
      BY <2>1, <3>1, <3>2, <3>3
  <2> QED
    BY <2>6, <2>7
<1> HIDE DEF T
<1>3. \A q \in Seq(Symbols) : q \in T
  BY <1>1, <1>2, SequenceInduction
<1> QED
  BY <1>3 DEF T, Bytes

\* Cutting twice is cutting once, with what was unfinished in front.
LEMMA SplitOfConcat ==
  ASSUME NEW b \in Bytes, NEW c \in Bytes
  PROVE  Split(b \o c) = [full |-> Split(b).full \o Split(Split(b).rest \o c).full,
                          rest |-> Split(Split(b).rest \o c).rest]
<1>1. PICK f \in Seq(Bytes), w \in Bytes : Split(b) = [full |-> f, rest |-> w]
  BY SplitType DEF Cuts
<1>2. Split(b).full = f /\ Split(b).rest = w
  BY <1>1
<1>3. b \in Seq(Symbols) /\ c \in Seq(Symbols) /\ w \in Seq(Symbols) /\ <<>> \in Bytes
  BY DEF Bytes
<1>4. Split(b \o c) = Fold(Split(b), c, <<"cut">>)
  <2>1. Fold([full |-> <<>>, rest |-> <<>>], b \o c, <<"cut">>)
          = Fold(Fold([full |-> <<>>, rest |-> <<>>], b, <<"cut">>), c, <<"cut">>)
    BY <1>3, FoldOfConcat
  <2> QED
    BY <2>1, SplitIs
<1>5. Fold(Split(b), c, <<"cut">>)
        = [full |-> f \o Fold(NoCut(w), c, <<"cut">>).full,
           rest |-> Fold(NoCut(w), c, <<"cut">>).rest]
  BY <1>2, SplitType, CutGoesOn
<1>6. Split(w \o c) = Fold(Split(w), c, <<"cut">>)
  <2>1. Fold([full |-> <<>>, rest |-> <<>>], w \o c, <<"cut">>)
          = Fold(Fold([full |-> <<>>, rest |-> <<>>], w, <<"cut">>), c, <<"cut">>)
    BY <1>3, FoldOfConcat
  <2> QED
    BY <2>1, SplitIs
<1>7. Split(w) = NoCut(w)
  BY <1>2, RestIsUncut
<1> QED
  BY <1>2, <1>4, <1>5, <1>6, <1>7

-----------------------------------------------------------------------------
\* The parts of an event that carry a payload carry one of Payloads.
LEMMA PartsType ==
  ASSUME NEW x \in Symbols, x.kind \in {"whole", "cut"}
  PROVE  x.of \in Payloads
<1>1. x \notin {NL, CR, Data, Other, Undecodable}
  BY DEF NL, CR, Data, Other, Undecodable
<1> QED
  BY <1>1 DEF Symbols

LEMMA JoinedType ==
  ASSUME NEW lines \in Seq(Bytes)
  PROVE  Joined(lines) \in Bytes
<1>1. \A b \in Bytes : \A x \in Bytes : Step(b, x, <<"join">>) \in Bytes
  <2>1. \A b, x \in Bytes : b \o x \in Bytes
    BY DEF Bytes
  <2> QED
    BY <2>1, StepIs
<1>2. <<>> \in Bytes
  BY DEF Bytes
<1> QED
  BY <1>1, <1>2, FoldStays, JoinedIs

LEMMA MeaningType ==
  ASSUME NEW lines \in Seq(Bytes)
  PROVE  Meaning(lines) \in Payloads
<1> DEFINE all == Joined(lines)
<1>1. all \in Seq(Symbols)
  BY JoinedType DEF Bytes
<1>2. Meaning(lines) =
        CASE all = <<>> -> Blank
          [] Len(all) = 1 /\ all[1].kind = "whole" -> all[1].of
          [] /\ Len(all) = 2 /\ all[1].kind = "cut" /\ all[2] = Rest(all[1].of)
             /\ Len(lines) = 1 \/ all[1].of # Done -> all[1].of
          [] OTHER -> InvalidJson
  BY DEF Meaning, Joined
<1> HIDE DEF all
<1>3. Blank \in Payloads /\ InvalidJson \in Payloads
  BY DEF Payloads
<1>4. CASE all = <<>>
  <2>1. Len(all) = 0
    BY <1>4
  <2> QED
    BY <1>2, <1>3, <1>4, <2>1
<1>5. CASE all # <<>>
  <2>1. all[1] \in Symbols
    BY <1>1, <1>5
  <2>2. all[1].kind \in {"whole", "cut"} => all[1].of \in Payloads
    BY <2>1, PartsType
  <2>3. \/ Meaning(lines) = all[1].of /\ all[1].kind \in {"whole", "cut"}
        \/ Meaning(lines) = InvalidJson
    <3>1. Len(all) = 1 => Len(all) # 2
      OBVIOUS
    <3>2. CASE Len(all) = 1 /\ all[1].kind = "whole"
      BY <1>2, <1>5, <3>1, <3>2
    <3>3. CASE /\ Len(all) = 2 /\ all[1].kind = "cut" /\ all[2] = Rest(all[1].of)
               /\ Len(lines) = 1 \/ all[1].of # Done
      BY <1>2, <1>5, <3>1, <3>3
    <3> QED
      BY <1>2, <1>5, <3>2, <3>3
  <2> QED
    BY <1>3, <2>2, <2>3
<1> QED
  BY <1>4, <1>5

LEMMA StripCRType ==
  ASSUME NEW line \in Bytes
  PROVE  StripCR(line) \in Bytes
<1>1. line # <<>> => Front(line) \in Seq(Symbols)
  BY DEF Bytes, Front
<1> QED
  BY <1>1 DEF StripCR, Bytes

LEMMA WithLines ==
  ASSUME NEW s \in FoundSoFar, NEW more
  PROVE  [s EXCEPT !.lines = more] = [lines |-> more, events |-> s.events]
BY DEF FoundSoFar

\* One line: the data lines and the events after it, the events found before it
\* in front of them.
LEMMA LineType ==
  ASSUME NEW s \in FoundSoFar, NEW raw \in Bytes
  PROVE  ConsumeLine(s, raw) \in FoundSoFar
<1> DEFINE line == StripCR(raw)
<1>1. line \in Bytes
  BY StripCRType
<1>2. s = [lines |-> s.lines, events |-> s.events]
      /\ s.lines \in Seq(Bytes) /\ s.events \in Seq(Payloads)
  BY DEF FoundSoFar
<1>3. Dispatch(s) \in FoundSoFar
  <2>1. <<>> \in Seq(Bytes) /\ Append(s.events, Meaning(s.lines)) \in Seq(Payloads)
    BY <1>2, MeaningType
  <2> QED
    BY <2>1 DEF Dispatch, FoundSoFar
<1> HIDE DEF line
<1>4. line # <<>> => Tail(line) \in Bytes
  BY <1>1 DEF Bytes
<1>5. line # <<>> => [s EXCEPT !.lines = Append(@, Tail(line))] \in FoundSoFar
  <2>1. [s EXCEPT !.lines = Append(@, Tail(line))]
          = [lines |-> Append(s.lines, Tail(line)), events |-> s.events]
    BY WithLines
  <2>2. line # <<>> => Append(s.lines, Tail(line)) \in Seq(Bytes)
    BY <1>2, <1>4
  <2> QED
    BY <1>2, <2>1, <2>2 DEF FoundSoFar
<1>6. ConsumeLine(s, raw) = IF line = <<>> THEN Dispatch(s)
                            ELSE IF line[1] = Data THEN [s EXCEPT !.lines = Append(@, Tail(line))]
                            ELSE s
  BY DEF ConsumeLine, line
<1> QED
  BY <1>3, <1>5, <1>6

LEMMA LinesType ==
  ASSUME NEW s \in FoundSoFar, NEW lines \in Seq(Bytes)
  PROVE  Fold(s, lines, <<"line">>) \in FoundSoFar
<1>1. \A b \in FoundSoFar : \A x \in Bytes : Step(b, x, <<"line">>) \in FoundSoFar
  BY StepIs, LineType
<1> QED
  BY <1>1, FoldStays

LEMMA LineGoesOn ==
  ASSUME NEW l \in Seq(Bytes), NEW e \in Seq(Payloads), NEW f \in Seq(Payloads), NEW raw \in Bytes
  PROVE  ConsumeLine([lines |-> l, events |-> e \o f], raw)
           = [lines |-> ConsumeLine([lines |-> l, events |-> f], raw).lines,
              events |-> e \o ConsumeLine([lines |-> l, events |-> f], raw).events]
<1> DEFINE line == StripCR(raw)
           s == [lines |-> l, events |-> f]
           t == [lines |-> l, events |-> e \o f]
<1>1. e \o Append(f, Meaning(l)) = Append(e \o f, Meaning(l))
  BY MeaningType
<1>2. Dispatch(t) = [lines |-> Dispatch(s).lines, events |-> e \o Dispatch(s).events]
  BY <1>1 DEF Dispatch
<1>6. /\ s \in FoundSoFar /\ s.lines = l /\ s.events = f
      /\ t \in FoundSoFar /\ t.lines = l /\ t.events = e \o f
  BY DEF FoundSoFar
<1> HIDE DEF s, t
<1>3. [t EXCEPT !.lines = Append(@, Tail(line))]
        = [lines |-> Append(l, Tail(line)), events |-> e \o f]
  BY <1>6, WithLines
<1>4. [s EXCEPT !.lines = Append(@, Tail(line))]
        = [lines |-> Append(l, Tail(line)), events |-> f]
  BY <1>6, WithLines
<1>5. \A v : ConsumeLine(v, raw) =
               IF line = <<>> THEN Dispatch(v)
               ELSE IF line[1] = Data THEN [v EXCEPT !.lines = Append(@, Tail(line))]
               ELSE v
  BY DEF ConsumeLine
<1> HIDE DEF line
<1>7. t = [lines |-> l, events |-> e \o f] /\ s = [lines |-> l, events |-> f]
  BY DEF s, t
<1>8. ConsumeLine(t, raw) = [lines |-> ConsumeLine(s, raw).lines,
                             events |-> e \o ConsumeLine(s, raw).events]
  <2>1. CASE line = <<>>
    BY <1>2, <1>5, <2>1
  <2>2. CASE line # <<>> /\ line[1] = Data
    <3>1. ConsumeLine(s, raw) = [lines |-> Append(l, Tail(line)), events |-> f]
      BY <1>4, <1>5, <2>2
    <3>2. ConsumeLine(t, raw) = [lines |-> Append(l, Tail(line)), events |-> e \o f]
      BY <1>3, <1>5, <2>2
    <3> QED
      BY <3>1, <3>2
  <2>3. CASE line # <<>> /\ line[1] # Data
    BY <1>5, <1>6, <1>7, <2>3
  <2> QED
    BY <2>1, <2>2, <2>3
<1> QED
  BY <1>7, <1>8

LEMMA LinesGoOn ==
  ASSUME NEW l \in Seq(Bytes), NEW e \in Seq(Payloads), NEW lines \in Seq(Bytes)
  PROVE  Fold([lines |-> l, events |-> e], lines, <<"line">>)
           = [lines |-> Fold([lines |-> l, events |-> <<>>], lines, <<"line">>).lines,
              events |-> e \o Fold([lines |-> l, events |-> <<>>], lines, <<"line">>).events]
<1> DEFINE s == [lines |-> l, events |-> e]
           n == [lines |-> l, events |-> <<>>]
           after(q) == Fold(n, q, <<"line">>)
           T == {q \in Seq(Bytes) : Fold(s, q, <<"line">>)
                                      = [lines |-> after(q).lines, events |-> e \o after(q).events]}
<1>0. s \in FoundSoFar /\ n \in FoundSoFar /\ s.lines = l /\ s.events = e
      /\ n.lines = l /\ n.events = <<>>
  BY DEF FoundSoFar
<1>5. s = [lines |-> l, events |-> e]
  OBVIOUS
<1> HIDE DEF s, n
<1>1. <<>> \in T
  <2>1. <<>> \in Seq(Bytes) /\ Fold(s, <<>>, <<"line">>) = s /\ after(<<>>) = n
    BY FoldOfNothing
  <2>2. e \o <<>> = e
    OBVIOUS
  <2> QED
    BY <1>0, <1>5, <2>1, <2>2
<1>2. ASSUME NEW q \in Seq(Bytes), NEW x \in Bytes, q \in T
      PROVE  Append(q, x) \in T
  <2>1. Fold(s, Append(q, x), <<"line">>) = ConsumeLine(Fold(s, q, <<"line">>), x)
    BY FoldOfAppend, StepIs
  <2>2. after(Append(q, x)) = ConsumeLine(after(q), x)
    BY FoldOfAppend, StepIs
  <2>3. after(q) \in FoundSoFar
    BY <1>0, LinesType
  <2>4. PICK m \in Seq(Bytes), f \in Seq(Payloads) : after(q) = [lines |-> m, events |-> f]
    BY <2>3 DEF FoundSoFar
  <2>5. Fold(s, q, <<"line">>) = [lines |-> m, events |-> e \o f]
    <3>1. after(q).lines = m /\ after(q).events = f
      BY <2>4
    <3>2. Fold(s, q, <<"line">>) = [lines |-> after(q).lines, events |-> e \o after(q).events]
      BY <1>2
    <3> HIDE DEF after
    <3> QED
      BY <3>1, <3>2
  <2>6. Append(q, x) \in Seq(Bytes)
    OBVIOUS
  <2> HIDE DEF after
  <2>7. Fold(s, Append(q, x), <<"line">>)
          = [lines |-> after(Append(q, x)).lines, events |-> e \o after(Append(q, x)).events]
    <3>1. after(Append(q, x)) = ConsumeLine([lines |-> m, events |-> f], x)
      BY <2>2, <2>4
    <3>2. Fold(s, Append(q, x), <<"line">>) = ConsumeLine([lines |-> m, events |-> e \o f], x)
      BY <2>1, <2>5
    <3>3. ConsumeLine([lines |-> m, events |-> e \o f], x)
            = [lines |-> ConsumeLine([lines |-> m, events |-> f], x).lines,
               events |-> e \o ConsumeLine([lines |-> m, events |-> f], x).events]
      BY LineGoesOn
    <3> QED
      BY <3>1, <3>2, <3>3
  <2> QED
    BY <2>6, <2>7
<1> HIDE DEF T
<1>3. \A q \in Seq(Bytes) : q \in T
  BY <1>1, <1>2, SequenceInduction
<1> QED
  BY <1>3 DEF T, s, n

-----------------------------------------------------------------------------
(* feed *)

LEMMA FeedIs ==
  ASSUME NEW d, NEW chunk
  PROVE  Feed(d, chunk)
           = [decoder |-> [buffer |-> Split(d.buffer \o chunk).rest,
                           lines |-> Fold(Found(d), Split(d.buffer \o chunk).full, <<"line">>).lines],
              events |-> Fold(Found(d), Split(d.buffer \o chunk).full, <<"line">>).events]
BY LinesAre DEF Feed

Feds == [decoder : Decoders, events : Seq(Payloads)]

LEMMA FeedType ==
  ASSUME NEW d \in Decoders, NEW chunk \in Bytes
  PROVE  Feed(d, chunk) \in Feds
<1>1. d.buffer \o chunk \in Bytes /\ Found(d) \in FoundSoFar
  BY DEF Decoders, Bytes, Found, FoundSoFar
<1>2. Split(d.buffer \o chunk) \in Cuts
  BY <1>1, SplitType
<1>3. PICK f \in Seq(Bytes), w \in Bytes : Split(d.buffer \o chunk) = [full |-> f, rest |-> w]
  BY <1>2 DEF Cuts
<1>4. Fold(Found(d), f, <<"line">>) \in FoundSoFar
  BY <1>1, LinesType
<1>5. PICK l \in Seq(Bytes), e \in Seq(Payloads) :
        Fold(Found(d), f, <<"line">>) = [lines |-> l, events |-> e]
  BY <1>4 DEF FoundSoFar
<1>6. Feed(d, chunk) = [decoder |-> [buffer |-> w, lines |-> l], events |-> e]
  BY <1>3, <1>5, FeedIs
<1>7. [buffer |-> w, lines |-> l] \in Decoders
  BY DEF Decoders
<1> QED
  BY <1>6, <1>7 DEF Feds

\* Two chunks are one: the decoder is left the same and the events are those of
\* the first chunk followed by those of the second.
THEOREM FeedTwice ==
  ASSUME NEW d \in Decoders, NEW b \in Bytes, NEW c \in Bytes
  PROVE  Feed(d, b \o c)
           = [decoder |-> Feed(Feed(d, b).decoder, c).decoder,
              events |-> Feed(d, b).events \o Feed(Feed(d, b).decoder, c).events]
<1>1. PICK B : B = d.buffer \o b
  OBVIOUS
<1>2. B \in Bytes /\ d.buffer \o (b \o c) = B \o c /\ d.lines \in Seq(Bytes)
  BY <1>1 DEF Decoders, Bytes
<1>3. PICK f \in Seq(Bytes), w \in Bytes : Split(B) = [full |-> f, rest |-> w]
  BY <1>2, SplitType DEF Cuts
<1>4. w \o c \in Bytes
  BY DEF Bytes
<1>5. PICK g \in Seq(Bytes), v \in Bytes : Split(w \o c) = [full |-> g, rest |-> v]
  BY <1>4, SplitType DEF Cuts
<1>6. Split(B \o c) = [full |-> f \o g, rest |-> v]
  <2>1. Split(B).full = f /\ Split(B).rest = w
    BY <1>3
  <2>2. Split(w \o c).full = g /\ Split(w \o c).rest = v
    BY <1>5
  <2>3. Split(B \o c) = [full |-> Split(B).full \o Split(Split(B).rest \o c).full,
                         rest |-> Split(Split(B).rest \o c).rest]
    BY <1>2, SplitOfConcat
  <2> QED
    BY <2>1, <2>2, <2>3
<1>7. Found(d) \in FoundSoFar
  BY <1>2 DEF Found, FoundSoFar
<1>8. PICK l \in Seq(Bytes), e \in Seq(Payloads) :
        Fold(Found(d), f, <<"line">>) = [lines |-> l, events |-> e]
  BY <1>7, LinesType DEF FoundSoFar
<1>9. [lines |-> l, events |-> <<>>] \in FoundSoFar
  BY DEF FoundSoFar
<1>10. PICK m \in Seq(Bytes), h \in Seq(Payloads) :
         Fold([lines |-> l, events |-> <<>>], g, <<"line">>) = [lines |-> m, events |-> h]
  BY <1>9, LinesType DEF FoundSoFar
<1>11. Feed(d, b) = [decoder |-> [buffer |-> w, lines |-> l], events |-> e]
  BY <1>1, <1>3, <1>8, FeedIs
<1>12. Feed([buffer |-> w, lines |-> l], c)
         = [decoder |-> [buffer |-> v, lines |-> m], events |-> h]
  <2>1. Found([buffer |-> w, lines |-> l]) = [lines |-> l, events |-> <<>>]
    BY DEF Found
  <2>2. [buffer |-> w, lines |-> l].buffer \o c = w \o c
    OBVIOUS
  <2> QED
    BY <1>5, <1>10, <2>1, <2>2, FeedIs
<1>13. Fold(Found(d), f \o g, <<"line">>) = [lines |-> m, events |-> e \o h]
  <2>1. Fold(Found(d), f \o g, <<"line">>)
          = Fold([lines |-> l, events |-> e], g, <<"line">>)
    BY <1>8, FoldOfConcat
  <2>2. Fold([lines |-> l, events |-> e], g, <<"line">>)
          = [lines |-> Fold([lines |-> l, events |-> <<>>], g, <<"line">>).lines,
             events |-> e \o Fold([lines |-> l, events |-> <<>>], g, <<"line">>).events]
    BY LinesGoOn
  <2>3. /\ Fold([lines |-> l, events |-> <<>>], g, <<"line">>).lines = m
        /\ Fold([lines |-> l, events |-> <<>>], g, <<"line">>).events = h
    BY <1>10
  <2> QED
    BY <2>1, <2>2, <2>3
<1>14. Feed(d, b \o c) = [decoder |-> [buffer |-> v, lines |-> m], events |-> e \o h]
  <2>1. Split(d.buffer \o (b \o c)) = [full |-> f \o g, rest |-> v]
    BY <1>2, <1>6
  <2>2. /\ Split(d.buffer \o (b \o c)).full = f \o g
        /\ Split(d.buffer \o (b \o c)).rest = v
    BY <2>1
  <2>3. /\ Fold(Found(d), f \o g, <<"line">>).lines = m
        /\ Fold(Found(d), f \o g, <<"line">>).events = e \o h
    BY <1>13
  <2> QED
    BY <2>2, <2>3, FeedIs
<1>15. Feed(d, b).decoder = [buffer |-> w, lines |-> l] /\ Feed(d, b).events = e
  BY <1>11
<1>16. /\ Feed(Feed(d, b).decoder, c).decoder = [buffer |-> v, lines |-> m]
       /\ Feed(Feed(d, b).decoder, c).events = h
  BY <1>12, <1>15
<1> QED
  BY <1>14, <1>15, <1>16

LEMMA FeedNothing ==
  Feed(FreshDecoder, <<>>) = [decoder |-> FreshDecoder, events |-> <<>>]
<1>1. FreshDecoder.buffer \o <<>> = <<>>
  BY DEF FreshDecoder
<1>2. Split(<<>>) = [full |-> <<>>, rest |-> <<>>]
  BY SplitIs, FoldOfNothing
<1>3. Fold(Found(FreshDecoder), <<>>, <<"line">>) = [lines |-> <<>>, events |-> <<>>]
  BY FoldOfNothing DEF Found, FreshDecoder
<1>4. /\ Split(FreshDecoder.buffer \o <<>>).full = <<>>
      /\ Split(FreshDecoder.buffer \o <<>>).rest = <<>>
  BY <1>1, <1>2
<1>5. /\ Fold(Found(FreshDecoder), <<>>, <<"line">>).lines = <<>>
      /\ Fold(Found(FreshDecoder), <<>>, <<"line">>).events = <<>>
  BY <1>3
<1> QED
  BY <1>4, <1>5, FeedIs DEF FreshDecoder

LEMMA CloseType ==
  ASSUME NEW d \in Decoders
  PROVE  Close(d) \in Seq(Payloads)
<1>1. Found(d) \in FoundSoFar /\ d.buffer \in Bytes
  BY DEF Decoders, Found, FoundSoFar
<1>2. ConsumeLine(Found(d), d.buffer) \in FoundSoFar
  BY <1>1, LineType
<1>3. \A s \in FoundSoFar : Dispatch(s).events \in Seq(Payloads)
  <2>1. ASSUME NEW s \in FoundSoFar PROVE Dispatch(s).events \in Seq(Payloads)
    <3>1. s.lines \in Seq(Bytes) /\ s.events \in Seq(Payloads)
      BY DEF FoundSoFar
    <3>2. Append(s.events, Meaning(s.lines)) \in Seq(Payloads)
      BY <3>1, MeaningType
    <3> QED
      BY <3>1, <3>2 DEF Dispatch
  <2> QED
    BY <2>1
<1> QED
  BY <1>1, <1>2, <1>3 DEF Close

-----------------------------------------------------------------------------
(* _consume_event, whatever the time *)

Locals ==
  [tokens : Seq(Nat), events : Seq(Nat), text : Nat, sawIds : BOOLEAN,
   sawBare : BOOLEAN, in : Int, out : Int, done : BOOLEAN,
   error : {"none", "invalid_json", "invalid_event", "server_error"}, oom : BOOLEAN]

LEMMA NoReadingType == NoReading \in Locals
BY DEF NoReading, Locals, None

\* What payloads there are.
LEMMA PlainPayload ==
  ASSUME NEW type
  PROVE  /\ Payload(type).type = type /\ Payload(type).text = 0 /\ Payload(type).ids = 0
         /\ Payload(type).in = None /\ Payload(type).out = None /\ Payload(type).oom = FALSE
BY DEF Payload

LEMMA FailurePayload ==
  ASSUME NEW type, NEW oom \in BOOLEAN
  PROVE  /\ Failure(type, oom).type = type /\ Failure(type, oom).text = 0
         /\ Failure(type, oom).ids = 0 /\ Failure(type, oom).in = None
         /\ Failure(type, oom).out = None /\ Failure(type, oom).oom = oom
<1>1. PICK n : n = Payload(type)
  OBVIOUS
<1>2. Failure(type, oom) = [n EXCEPT !.oom = oom]
  BY <1>1 DEF Failure
<1>3. n \in [type : {type}, text : {0}, ids : {0}, in : {None}, out : {None}, oom : {FALSE}]
  BY <1>1 DEF Payload
<1> QED
  BY <1>2, <1>3

LEMMA PayloadIs ==
  ASSUME NEW p \in Payloads
  PROVE  /\ p.type \in {"delta", "done", "blank", "invalid_json", "invalid_event", "server_error"}
         /\ p.text \in Nat /\ p.ids \in Nat /\ p.in \in Int /\ p.out \in Int
         /\ p.oom \in BOOLEAN
         /\ p.type # "delta" => (p.text = 0 /\ p.ids = 0 /\ p.out = None)
         /\ p.type \in {"delta", "done", "blank"} => p.oom = FALSE
         /\ p.type = "done" => p = Done
<1>0. None \in Int
  BY DEF None
<1>1. CASE p = Done \/ p = Blank \/ p = InvalidJson
  <2>1. PICK type \in {"done", "blank", "invalid_json"} :
          p = Payload(type) /\ (type = "done" => p = Done)
    BY <1>1 DEF Done, Blank, InvalidJson
  <2>2. p.type = type /\ p.text = 0 /\ p.ids = 0 /\ p.in = None /\ p.out = None /\ p.oom = FALSE
    BY <2>1, PlainPayload
  <2>3. p.type \in {"delta", "done", "blank", "invalid_json", "invalid_event", "server_error"}
    BY <2>2
  <2>4. p.in \in Int /\ p.out \in Int
    BY <1>0, <2>2
  <2>5. p.text \in Nat /\ p.ids \in Nat /\ p.text = 0 /\ p.ids = 0 /\ p.out = None
    BY <2>2
  <2>6. p.oom = FALSE /\ p.oom \in BOOLEAN
    BY <2>2
  <2>7. p.type = "done" => p = Done
    BY <2>1, <2>2
  <2> QED
    BY <2>3, <2>4, <2>5, <2>6, <2>7
<1>2. CASE p \in Deltas
  <2>1. /\ p.type = "delta" /\ p.text \in Nat /\ p.ids \in Nat /\ p.in \in Nat \cup {None}
        /\ p.out \in Nat \cup {None} /\ p.oom = FALSE
    BY <1>2 DEF Deltas
  <2>2. p.in \in Int /\ p.out \in Int
    BY <1>0, <2>1
  <2>4. p.oom \in BOOLEAN
    BY <2>1
  <2>3. p.type \in {"delta", "done", "blank", "invalid_json", "invalid_event", "server_error"}
        /\ p.type # "done"
    BY <2>1
  <2> QED
    BY <2>1, <2>2, <2>3, <2>4
<1>3. CASE p \in Refusals
  <2>1. PICK type \in {"invalid_event", "server_error"}, oom \in BOOLEAN : p = Failure(type, oom)
    BY <1>3 DEF Refusals
  <2>2. p.type = type /\ p.text = 0 /\ p.ids = 0 /\ p.in = None /\ p.out = None /\ p.oom = oom
    BY <2>1, FailurePayload
  <2>3. p.type \in {"delta", "done", "blank", "invalid_json", "invalid_event", "server_error"}
        /\ p.type \notin {"delta", "done", "blank"}
    BY <2>2
  <2>4. p.in \in Int /\ p.out \in Int /\ p.oom \in BOOLEAN /\ p.text = 0 /\ p.ids = 0 /\ p.out = None
    BY <1>0, <2>2
  <2> QED
    BY <2>3, <2>4
<1> QED
  BY <1>1, <1>2, <1>3 DEF Payloads

Reads(a) == ~a.done /\ a.error = "none"

\* The four outcomes of an event, field by field.
LEMMA NothingRead ==
  ASSUME NEW a \in Locals, NEW p, NEW t, ~Reads(a) \/ p.type = "blank"
  PROVE  ConsumeEvent(a, p, t) = a
BY DEF ConsumeEvent, Reads

LEMMA DoneRead ==
  ASSUME NEW a \in Locals, NEW p, NEW t, Reads(a), p.type = "done"
  PROVE  /\ ConsumeEvent(a, p, t) \in Locals
         /\ ConsumeEvent(a, p, t).done
         /\ ConsumeEvent(a, p, t).error = a.error
         /\ ConsumeEvent(a, p, t).oom = a.oom
         /\ ConsumeEvent(a, p, t).in = a.in
         /\ ConsumeEvent(a, p, t).out = a.out
         /\ ConsumeEvent(a, p, t).text = a.text
         /\ ConsumeEvent(a, p, t).sawIds = a.sawIds
         /\ ConsumeEvent(a, p, t).sawBare = a.sawBare
         /\ ConsumeEvent(a, p, t).tokens = a.tokens
         /\ ConsumeEvent(a, p, t).events = a.events
<1>1. ConsumeEvent(a, p, t) = [a EXCEPT !.done = TRUE]
  BY DEF ConsumeEvent, Reads
<1> QED
  BY <1>1 DEF Locals

LEMMA ErrorRead ==
  ASSUME NEW a \in Locals, NEW p \in Payloads, NEW t, Reads(a),
         p.type \notin {"delta", "done", "blank"}
  PROVE  /\ ConsumeEvent(a, p, t) \in Locals
         /\ ConsumeEvent(a, p, t).done = a.done
         /\ ConsumeEvent(a, p, t).error = p.type
         /\ ConsumeEvent(a, p, t).oom = p.oom
         /\ ConsumeEvent(a, p, t).in = a.in
         /\ ConsumeEvent(a, p, t).out = a.out
         /\ ConsumeEvent(a, p, t).text = a.text
         /\ ConsumeEvent(a, p, t).sawIds = a.sawIds
         /\ ConsumeEvent(a, p, t).sawBare = a.sawBare
         /\ ConsumeEvent(a, p, t).tokens = a.tokens
         /\ ConsumeEvent(a, p, t).events = a.events
<1>1. ConsumeEvent(a, p, t) = [a EXCEPT !.error = p.type, !.oom = p.oom]
  BY DEF ConsumeEvent, Reads
<1>2. p.type \in {"invalid_json", "invalid_event", "server_error"} /\ p.oom \in BOOLEAN
  BY PayloadIs
<1> QED
  BY <1>1, <1>2 DEF Locals

LEMMA DeltaRead ==
  ASSUME NEW a \in Locals, NEW p \in Payloads, NEW t \in Nat, Reads(a), p.type = "delta"
  PROVE  /\ ConsumeEvent(a, p, t) \in Locals
         /\ ConsumeEvent(a, p, t).done = a.done
         /\ ConsumeEvent(a, p, t).error = a.error
         /\ ConsumeEvent(a, p, t).oom = a.oom
         /\ ConsumeEvent(a, p, t).in = IF p.in # None THEN p.in ELSE a.in
         /\ ConsumeEvent(a, p, t).out = IF p.out # None THEN p.out ELSE a.out
         /\ ConsumeEvent(a, p, t).text = a.text + p.text
         /\ ConsumeEvent(a, p, t).sawIds = (a.sawIds \/ p.ids > 0)
         /\ ConsumeEvent(a, p, t).sawBare = (a.sawBare \/ (p.text > 0 /\ p.ids = 0))
         /\ ConsumeEvent(a, p, t).tokens = a.tokens \o [i \in 1..p.ids |-> t]
         /\ ConsumeEvent(a, p, t).events = IF p.text > 0 THEN Append(a.events, t) ELSE a.events
<1> DEFINE newTokens == a.tokens \o [i \in 1..p.ids |-> t]
           newEvents == IF p.text > 0 THEN Append(a.events, t) ELSE a.events
           newIn == IF p.in # None THEN p.in ELSE a.in
           newOut == IF p.out # None THEN p.out ELSE a.out
           newText == a.text + p.text
           newIds == a.sawIds \/ p.ids > 0
           newBare == a.sawBare \/ (p.text > 0 /\ p.ids = 0)
<1>1. ConsumeEvent(a, p, t)
        = [a EXCEPT !.in = newIn, !.out = newOut, !.text = newText, !.events = newEvents,
                    !.sawBare = newBare, !.sawIds = newIds, !.tokens = newTokens]
  BY DEF ConsumeEvent, Reads
<1>2. /\ newTokens \in Seq(Nat) /\ newEvents \in Seq(Nat) /\ newIn \in Int /\ newOut \in Int
      /\ newText \in Nat /\ newIds \in BOOLEAN /\ newBare \in BOOLEAN
  <2>1. /\ a.tokens \in Seq(Nat) /\ a.events \in Seq(Nat) /\ a.in \in Int /\ a.out \in Int
        /\ a.text \in Nat
    BY DEF Locals
  <2>2. p.ids \in Nat /\ p.text \in Nat /\ p.in \in Int /\ p.out \in Int
    BY PayloadIs
  <2>3. [i \in 1..p.ids |-> t] \in Seq(Nat)
    BY <2>2
  <2>4. newTokens \in Seq(Nat)
    BY <2>1, <2>3
  <2> QED
    BY <2>1, <2>2, <2>4
<1> HIDE DEF newTokens, newEvents, newIn, newOut, newText, newIds, newBare
<1>3. /\ ConsumeEvent(a, p, t) \in Locals
      /\ ConsumeEvent(a, p, t).done = a.done
      /\ ConsumeEvent(a, p, t).error = a.error
      /\ ConsumeEvent(a, p, t).oom = a.oom
      /\ ConsumeEvent(a, p, t).in = newIn
      /\ ConsumeEvent(a, p, t).out = newOut
      /\ ConsumeEvent(a, p, t).text = newText
      /\ ConsumeEvent(a, p, t).sawIds = newIds
      /\ ConsumeEvent(a, p, t).sawBare = newBare
      /\ ConsumeEvent(a, p, t).tokens = newTokens
      /\ ConsumeEvent(a, p, t).events = newEvents
  <2>1. ConsumeEvent(a, p, t) \in Locals
    BY <1>1, <1>2 DEF Locals
  <2>2. /\ ConsumeEvent(a, p, t).done = a.done
        /\ ConsumeEvent(a, p, t).error = a.error
        /\ ConsumeEvent(a, p, t).oom = a.oom
    BY <1>1 DEF Locals
  <2>3. /\ ConsumeEvent(a, p, t).in = newIn
        /\ ConsumeEvent(a, p, t).out = newOut
        /\ ConsumeEvent(a, p, t).text = newText
    BY <1>1 DEF Locals
  <2>4. /\ ConsumeEvent(a, p, t).sawIds = newIds
        /\ ConsumeEvent(a, p, t).sawBare = newBare
    BY <1>1 DEF Locals
  <2>5. /\ ConsumeEvent(a, p, t).tokens = newTokens
        /\ ConsumeEvent(a, p, t).events = newEvents
    BY <1>1 DEF Locals
  <2> QED
    BY <2>1, <2>2, <2>3, <2>4, <2>5
<1> QED
  BY <1>3 DEF newTokens, newEvents, newIn, newOut, newText, newIds, newBare

\* Which of the four it is.
LEMMA OutcomesOfEvents ==
  ASSUME NEW a, NEW p \in Payloads
  PROVE  \/ ~Reads(a) \/ p.type = "blank"
         \/ Reads(a) /\ p.type = "done"
         \/ Reads(a) /\ p.type \notin {"delta", "done", "blank"}
         \/ Reads(a) /\ p.type = "delta"
OBVIOUS

LEMMA EventType ==
  ASSUME NEW a \in Locals, NEW p \in Payloads, NEW t \in Nat
  PROVE  ConsumeEvent(a, p, t) \in Locals
<1>1. CASE ~Reads(a) \/ p.type = "blank"
  BY <1>1, NothingRead
<1>2. CASE Reads(a) /\ p.type = "done"
  BY <1>2, DoneRead
<1>3. CASE Reads(a) /\ p.type \notin {"delta", "done", "blank"}
  BY <1>3, ErrorRead
<1>4. CASE Reads(a) /\ p.type = "delta"
  BY <1>4, DeltaRead
<1> QED
  BY <1>1, <1>2, <1>3, <1>4, OutcomesOfEvents

LEMMA AllType ==
  ASSUME NEW a \in Locals, NEW events \in Seq(Payloads), NEW t \in Nat
  PROVE  ConsumeAll(a, events, t) \in Locals
<1>1. \A b \in Locals : \A x \in Payloads : Step(b, x, <<"event", t>>) \in Locals
  <2>1. \A b, x : Step(b, x, <<"event", t>>) = ConsumeEvent(b, x, t)
    BY StepIs
  <2> QED
    BY <2>1, EventType
<1> QED
  BY <1>1, FoldStays, ConsumedIs

LEMMA AllAppend ==
  ASSUME NEW a, NEW events \in Seq(Payloads), NEW p \in Payloads, NEW t
  PROVE  ConsumeAll(a, Append(events, p), t) = ConsumeEvent(ConsumeAll(a, events, t), p, t)
<1>1. \A b, x : Step(b, x, <<"event", t>>) = ConsumeEvent(b, x, t)
  BY StepIs
<1>2. Fold(a, Append(events, p), <<"event", t>>)
        = Step(Fold(a, events, <<"event", t>>), p, <<"event", t>>)
  BY FoldOfAppend
<1> QED
  BY <1>1, <1>2, ConsumedIs

LEMMA AllConcat ==
  ASSUME NEW a, NEW events \in Seq(Payloads), NEW more \in Seq(Payloads), NEW t
  PROVE  ConsumeAll(a, events \o more, t) = ConsumeAll(ConsumeAll(a, events, t), more, t)
<1>1. Fold(a, events \o more, <<"event", t>>)
        = Fold(Fold(a, events, <<"event", t>>), more, <<"event", t>>)
  BY FoldOfConcat
<1> QED
  BY <1>1, ConsumedIs

LEMMA AllOfNothing ==
  ASSUME NEW a, NEW t
  PROVE  ConsumeAll(a, <<>>, t) = a
BY FoldOfNothing, ConsumedIs

\* After [DONE] or an error nothing is read.
LEMMA NothingMore ==
  ASSUME NEW a \in Locals, ~Reads(a), NEW events \in Seq(Payloads), NEW t
  PROVE  ConsumeAll(a, events, t) = a
<1> DEFINE S == {a}
<1>1. \A b \in S : \A x \in Payloads : Step(b, x, <<"event", t>>) \in S
  <2>1. \A b, x : Step(b, x, <<"event", t>>) = ConsumeEvent(b, x, t)
    BY StepIs
  <2> QED
    BY <2>1, NothingRead
<1>2. Fold(a, events, <<"event", t>>) \in S
  BY <1>1, FoldStays
<1> QED
  BY <1>2, ConsumedIs

-----------------------------------------------------------------------------
(* Readings that differ in their times only *)

Same(a, b) ==
  /\ a.done = b.done /\ a.error = b.error /\ a.oom = b.oom /\ a.in = b.in
  /\ a.out = b.out /\ a.text = b.text /\ a.sawIds = b.sawIds /\ a.sawBare = b.sawBare
  /\ Len(a.tokens) = Len(b.tokens) /\ Len(a.events) = Len(b.events)

LEMMA SameIsUntimed ==
  ASSUME NEW a \in Locals, NEW b \in Locals
  PROVE  Same(a, b) <=> Untimed(a) = Untimed(b)
<1> DEFINE Untimeds ==
      [tokens : Nat, events : Nat, text : Nat, sawIds : BOOLEAN, sawBare : BOOLEAN,
       in : Int, out : Int, done : BOOLEAN,
       error : {"none", "invalid_json", "invalid_event", "server_error"}, oom : BOOLEAN]
<1>1. ASSUME NEW c \in Locals
      PROVE  /\ Untimed(c) \in Untimeds
             /\ Untimed(c).tokens = Len(c.tokens) /\ Untimed(c).events = Len(c.events)
             /\ Untimed(c).done = c.done /\ Untimed(c).error = c.error
             /\ Untimed(c).oom = c.oom /\ Untimed(c).in = c.in /\ Untimed(c).out = c.out
             /\ Untimed(c).text = c.text /\ Untimed(c).sawIds = c.sawIds
             /\ Untimed(c).sawBare = c.sawBare
  <2>1. Len(c.tokens) \in Nat /\ Len(c.events) \in Nat
    BY DEF Locals
  <2> QED
    BY <2>1 DEF Untimed, Locals
<1>2. \A u, v \in Untimeds :
        (/\ u.done = v.done /\ u.error = v.error /\ u.oom = v.oom /\ u.in = v.in
         /\ u.out = v.out /\ u.text = v.text /\ u.sawIds = v.sawIds /\ u.sawBare = v.sawBare
         /\ u.tokens = v.tokens /\ u.events = v.events) => u = v
  OBVIOUS
<1> HIDE DEF Untimeds
<1>3. Same(a, b) => Untimed(a) = Untimed(b)
  BY <1>1, <1>2 DEF Same
<1>4. Untimed(a) = Untimed(b) => Same(a, b)
  BY <1>1 DEF Same
<1> QED
  BY <1>3, <1>4

LEMMA SameEvent ==
  ASSUME NEW a \in Locals, NEW b \in Locals, Same(a, b),
         NEW p \in Payloads, NEW t \in Nat, NEW u \in Nat
  PROVE  Same(ConsumeEvent(a, p, t), ConsumeEvent(b, p, u))
<1>1. Reads(a) <=> Reads(b)
  BY DEF Same, Reads
<1>2. CASE ~Reads(a) \/ p.type = "blank"
  <2>1. ConsumeEvent(a, p, t) = a
    BY <1>2, NothingRead
  <2>2. ConsumeEvent(b, p, u) = b
    BY <1>1, <1>2, NothingRead
  <2> QED
    BY <2>1, <2>2
<1>3. CASE Reads(a) /\ p.type = "done"
  <2>1. /\ ConsumeEvent(a, p, t).error = a.error
        /\ ConsumeEvent(a, p, t).oom = a.oom
        /\ ConsumeEvent(a, p, t).in = a.in
        /\ ConsumeEvent(a, p, t).out = a.out
        /\ ConsumeEvent(a, p, t).text = a.text
        /\ ConsumeEvent(a, p, t).sawIds = a.sawIds
        /\ ConsumeEvent(a, p, t).sawBare = a.sawBare
        /\ ConsumeEvent(a, p, t).tokens = a.tokens
        /\ ConsumeEvent(a, p, t).events = a.events
    BY <1>3, DoneRead
  <2>2. /\ ConsumeEvent(b, p, u).error = b.error
        /\ ConsumeEvent(b, p, u).oom = b.oom
        /\ ConsumeEvent(b, p, u).in = b.in
        /\ ConsumeEvent(b, p, u).out = b.out
        /\ ConsumeEvent(b, p, u).text = b.text
        /\ ConsumeEvent(b, p, u).sawIds = b.sawIds
        /\ ConsumeEvent(b, p, u).sawBare = b.sawBare
        /\ ConsumeEvent(b, p, u).tokens = b.tokens
        /\ ConsumeEvent(b, p, u).events = b.events
    BY <1>1, <1>3, DoneRead
  <2>3. ConsumeEvent(a, p, t).done = ConsumeEvent(b, p, u).done
    <3>1. ConsumeEvent(a, p, t) = [a EXCEPT !.done = TRUE]
      BY <1>3 DEF ConsumeEvent, Reads
    <3>2. ConsumeEvent(b, p, u) = [b EXCEPT !.done = TRUE]
      BY <1>1, <1>3 DEF ConsumeEvent, Reads
    <3> QED
      BY <3>1, <3>2 DEF Locals
  <2> QED
    BY <2>1, <2>2, <2>3 DEF Same
<1>4. CASE Reads(a) /\ p.type \notin {"delta", "done", "blank"}
  BY <1>1, <1>4, ErrorRead DEF Same
<1>5. CASE Reads(a) /\ p.type = "delta"
  <2>1. p.ids \in Nat /\ p.text \in Nat
    BY PayloadIs
  <2>2. /\ a.tokens \in Seq(Nat) /\ b.tokens \in Seq(Nat)
        /\ a.events \in Seq(Nat) /\ b.events \in Seq(Nat)
    BY DEF Locals
  <2>3. \A v \in Nat : [i \in 1..p.ids |-> v] \in Seq(Nat) /\ Len([i \in 1..p.ids |-> v]) = p.ids
    BY <2>1
  <2>4. Len(a.tokens \o [i \in 1..p.ids |-> t]) = Len(b.tokens \o [i \in 1..p.ids |-> u])
    BY <2>1, <2>2, <2>3 DEF Same
  <2>5. Len(Append(a.events, t)) = Len(Append(b.events, u))
    BY <2>2 DEF Same
  <2>6. /\ ConsumeEvent(a, p, t).tokens = a.tokens \o [i \in 1..p.ids |-> t]
        /\ ConsumeEvent(b, p, u).tokens = b.tokens \o [i \in 1..p.ids |-> u]
        /\ ConsumeEvent(a, p, t).events = IF p.text > 0 THEN Append(a.events, t) ELSE a.events
        /\ ConsumeEvent(b, p, u).events = IF p.text > 0 THEN Append(b.events, u) ELSE b.events
    BY <1>1, <1>5, DeltaRead
  <2>7. /\ Len(ConsumeEvent(a, p, t).tokens) = Len(ConsumeEvent(b, p, u).tokens)
        /\ Len(ConsumeEvent(a, p, t).events) = Len(ConsumeEvent(b, p, u).events)
    BY <2>4, <2>5, <2>6 DEF Same
  <2>8. /\ ConsumeEvent(a, p, t).done = a.done
         /\ ConsumeEvent(a, p, t).error = a.error
         /\ ConsumeEvent(a, p, t).oom = a.oom
         /\ ConsumeEvent(a, p, t).in = (IF p.in # None THEN p.in ELSE a.in)
         /\ ConsumeEvent(a, p, t).out = (IF p.out # None THEN p.out ELSE a.out)
         /\ ConsumeEvent(a, p, t).text = a.text + p.text
    BY <1>1, <1>5, DeltaRead
  <2>9. /\ ConsumeEvent(a, p, t).sawIds = (a.sawIds \/ p.ids > 0)
         /\ ConsumeEvent(a, p, t).sawBare = (a.sawBare \/ (p.text > 0 /\ p.ids = 0))
    BY <1>1, <1>5, DeltaRead
  <2>10. /\ ConsumeEvent(b, p, u).done = b.done
         /\ ConsumeEvent(b, p, u).error = b.error
         /\ ConsumeEvent(b, p, u).oom = b.oom
         /\ ConsumeEvent(b, p, u).in = (IF p.in # None THEN p.in ELSE b.in)
         /\ ConsumeEvent(b, p, u).out = (IF p.out # None THEN p.out ELSE b.out)
         /\ ConsumeEvent(b, p, u).text = b.text + p.text
    BY <1>1, <1>5, DeltaRead
  <2>11. /\ ConsumeEvent(b, p, u).sawIds = (b.sawIds \/ p.ids > 0)
         /\ ConsumeEvent(b, p, u).sawBare = (b.sawBare \/ (p.text > 0 /\ p.ids = 0))
    BY <1>1, <1>5, DeltaRead
  <2>12. /\ a.done = b.done /\ a.error = b.error /\ a.oom = b.oom /\ a.in = b.in
         /\ a.out = b.out /\ a.text = b.text /\ a.sawIds = b.sawIds /\ a.sawBare = b.sawBare
    BY DEF Same
  <2>13. /\ ConsumeEvent(a, p, t).done = ConsumeEvent(b, p, u).done
         /\ ConsumeEvent(a, p, t).error = ConsumeEvent(b, p, u).error
         /\ ConsumeEvent(a, p, t).oom = ConsumeEvent(b, p, u).oom
    BY <2>8, <2>10, <2>12
  <2>14. /\ ConsumeEvent(a, p, t).in = ConsumeEvent(b, p, u).in
         /\ ConsumeEvent(a, p, t).out = ConsumeEvent(b, p, u).out
         /\ ConsumeEvent(a, p, t).text = ConsumeEvent(b, p, u).text
    BY <2>8, <2>10, <2>12
  <2>15. /\ ConsumeEvent(a, p, t).sawIds = ConsumeEvent(b, p, u).sawIds
         /\ ConsumeEvent(a, p, t).sawBare = ConsumeEvent(b, p, u).sawBare
    BY <2>9, <2>11, <2>12
  <2> QED
    BY <2>7, <2>13, <2>14, <2>15 DEF Same
<1> QED
  BY <1>2, <1>3, <1>4, <1>5, OutcomesOfEvents

LEMMA SameAll ==
  ASSUME NEW a \in Locals, NEW b \in Locals, Same(a, b),
         NEW events \in Seq(Payloads), NEW t \in Nat, NEW u \in Nat
  PROVE  Same(ConsumeAll(a, events, t), ConsumeAll(b, events, u))
<1> DEFINE T == {q \in Seq(Payloads) : Same(ConsumeAll(a, q, t), ConsumeAll(b, q, u))}
<1>1. <<>> \in T
  BY AllOfNothing
<1>2. ASSUME NEW q \in Seq(Payloads), NEW x \in Payloads, q \in T
      PROVE  Append(q, x) \in T
  <2>1. ConsumeAll(a, q, t) \in Locals /\ ConsumeAll(b, q, u) \in Locals
    BY AllType
  <2>2. Same(ConsumeAll(a, q, t), ConsumeAll(b, q, u))
    BY <1>2
  <2>3. Same(ConsumeEvent(ConsumeAll(a, q, t), x, t), ConsumeEvent(ConsumeAll(b, q, u), x, u))
    BY <2>1, <2>2, SameEvent
  <2>4. Same(ConsumeAll(a, Append(q, x), t), ConsumeAll(b, Append(q, x), u))
    BY <2>3, AllAppend
  <2>5. Append(q, x) \in Seq(Payloads)
    OBVIOUS
  <2> QED
    BY <2>4, <2>5
<1> HIDE DEF T
<1>3. \A q \in Seq(Payloads) : q \in T
  BY <1>1, <1>2, SequenceInduction
<1> QED
  BY <1>3 DEF T

-----------------------------------------------------------------------------
(* What a reading tells of the events it was read from *)

\* The first n events were read, and the one after them, if the reading is over,
\* ended it.
TellsUpTo(a, events, n) ==
  /\ \A i \in 1..n : events[i].type \in {"delta", "blank"}
  /\ Reads(a) => (n = Len(events) /\ ~a.oom)
  /\ ~Reads(a) => (/\ n < Len(events) /\ events[n + 1].type \notin {"delta", "blank"}
                   /\ a.done <=> events[n + 1].type = "done"
                   /\ a.done => a.error = "none"
                   /\ a.oom = events[n + 1].oom)
  /\ ~a.sawBare => \A i \in 1..n : events[i].text > 0 => events[i].ids > 0
  /\ Len(a.events) > 0 => \E i \in 1..n : events[i].text > 0
  /\ \A j \in 1..n :
       (events[j].out # None /\ \A i \in (j + 1)..n : events[i].out = None)
         => a.out = events[j].out
Tells(a, events) == \E n \in 0..Len(events) : TellsUpTo(a, events, n)

LEMMA NothingTells == Tells(NoReading, <<>>)
<1>1. TellsUpTo(NoReading, <<>>, 0)
  BY DEF TellsUpTo, NoReading, Reads
<1> QED
  BY <1>1 DEF Tells

\* An event after the reading was over.
LEMMA OverTells ==
  ASSUME NEW a \in Locals, NEW events \in Seq(Payloads), NEW p \in Payloads,
         NEW n \in 0..Len(events), TellsUpTo(a, events, n), ~Reads(a)
  PROVE  TellsUpTo(a, Append(events, p), n) /\ n \in 0..Len(Append(events, p))
<1>1. n < Len(events) /\ n \in Nat /\ Len(events) \in Nat
  BY DEF TellsUpTo
<1>2. /\ Len(Append(events, p)) = Len(events) + 1
      /\ \A i \in 1..Len(events) : Append(events, p)[i] = events[i]
  OBVIOUS
<1>3. \A i \in 1..(n + 1) : Append(events, p)[i] = events[i]
  BY <1>1, <1>2
<1>4. n + 1 \in 1..(n + 1) /\ \A i \in 1..n : i \in 1..(n + 1)
  BY <1>1
<1>5. \A j \in 1..n : \A i \in (j + 1)..n : i \in 1..n
  BY <1>1
<1>6. \A i \in 1..n : Append(events, p)[i] = events[i]
  BY <1>3, <1>4
<1>7. Append(events, p)[n + 1] = events[n + 1]
  BY <1>3, <1>4
<1>8. n < Len(Append(events, p))
  BY <1>1, <1>2
<1> HIDE DEF Reads
<1>9. \A i \in 1..n : Append(events, p)[i].type \in {"delta", "blank"}
  BY <1>6 DEF TellsUpTo
<1>10. /\ Append(events, p)[n + 1].type \notin {"delta", "blank"}
       /\ a.done <=> Append(events, p)[n + 1].type = "done"
       /\ a.done => a.error = "none"
       /\ a.oom = Append(events, p)[n + 1].oom
  BY <1>7 DEF TellsUpTo
<1>11. ~a.sawBare => \A i \in 1..n :
         Append(events, p)[i].text > 0 => Append(events, p)[i].ids > 0
  BY <1>6 DEF TellsUpTo
<1>12. Len(a.events) > 0 => \E i \in 1..n : Append(events, p)[i].text > 0
  BY <1>6 DEF TellsUpTo
<1>13. ASSUME NEW j \in 1..n, Append(events, p)[j].out # None,
              \A i \in (j + 1)..n : Append(events, p)[i].out = None
       PROVE  a.out = Append(events, p)[j].out
  BY <1>5, <1>6, <1>13 DEF TellsUpTo
<1> QED
  BY <1>1, <1>2, <1>8, <1>9, <1>10, <1>11, <1>12, <1>13 DEF TellsUpTo

\* An event that is read.
LEMMA MoreTells ==
  ASSUME NEW a \in Locals, NEW events \in Seq(Payloads), NEW p \in Payloads,
         TellsUpTo(a, events, Len(events)), Reads(a), p.type \in {"delta", "blank"}
  PROVE  TellsUpTo(ConsumeEvent(a, p, 0), Append(events, p), Len(events) + 1)
<1>1. PICK n \in Nat : n = Len(events)
  OBVIOUS
<1>2. PICK more \in Seq(Payloads) : more = Append(events, p)
  <2>1. Append(events, p) \in Seq(Payloads)
    OBVIOUS
  <2> QED
    BY <2>1
<1>3. Len(more) = n + 1 /\ more[n + 1] = p /\ \A i \in 1..n : more[i] = events[i]
  BY <1>1, <1>2
<1>4. \A i \in 1..(n + 1) : i \in 1..n \/ i = n + 1
  BY <1>1
<1>5. PICK b \in Locals : b = ConsumeEvent(a, p, 0)
  BY EventType
<1>6. /\ Reads(b) /\ b.oom = a.oom
      /\ b.out = IF p.out # None THEN p.out ELSE a.out
      /\ ~b.sawBare => (~a.sawBare /\ (p.text > 0 => p.ids > 0))
      /\ Len(b.events) > 0 => (Len(a.events) > 0 \/ p.text > 0)
  <2>1. p.text \in Nat /\ p.ids \in Nat /\ (p.type # "delta" => (p.text = 0 /\ p.out = None))
    BY PayloadIs
  <2>2. CASE p.type = "blank"
    <3>1. b = a
      BY <1>5, <2>2, NothingRead
    <3> QED
      BY <2>1, <2>2, <3>1
  <2>3. CASE p.type = "delta"
    <3>0. PICK t \in Nat : t = 0
      OBVIOUS
    <3>7. /\ ConsumeEvent(a, p, t).done = a.done
          /\ ConsumeEvent(a, p, t).error = a.error
          /\ ConsumeEvent(a, p, t).oom = a.oom
          /\ ConsumeEvent(a, p, t).out = (IF p.out # None THEN p.out ELSE a.out)
          /\ ConsumeEvent(a, p, t).events = (IF p.text > 0 THEN Append(a.events, t) ELSE a.events)
      BY <2>3, DeltaRead
    <3>8. ConsumeEvent(a, p, t).sawBare = (a.sawBare \/ (p.text > 0 /\ p.ids = 0))
      BY <2>3, DeltaRead
    <3>9. b = ConsumeEvent(a, p, t)
      BY <1>5, <3>0
    <3>1. /\ b.done = a.done /\ b.error = a.error /\ b.oom = a.oom
          /\ b.out = IF p.out # None THEN p.out ELSE a.out
      BY <3>7, <3>9
    <3>2. b.sawBare = (a.sawBare \/ (p.text > 0 /\ p.ids = 0))
      BY <3>8, <3>9
    <3>3. b.events = IF p.text > 0 THEN Append(a.events, t) ELSE a.events
      BY <3>7, <3>9
    <3>4. Reads(b)
      BY <3>1 DEF Reads
    <3>5. ~b.sawBare => (~a.sawBare /\ (p.text > 0 => p.ids > 0))
      <4>1. ~b.sawBare => ~(a.sawBare \/ (p.text > 0 /\ p.ids = 0))
        BY <3>2, Zenon
      <4>2. p.ids > 0 \/ p.ids = 0
        BY <2>1
      <4> QED
        BY <4>1, <4>2, Zenon
    <3>6. Len(b.events) > 0 => (Len(a.events) > 0 \/ p.text > 0)
      BY <3>3
    <3> QED
      BY <3>1, <3>4, <3>5, <3>6
  <2> QED
    BY <2>2, <2>3
<1>7. TellsUpTo(a, events, n)
  BY <1>1
<1> HIDE DEF Reads
<1>8. \A i \in 1..(n + 1) : more[i].type \in {"delta", "blank"}
  BY <1>3, <1>4, <1>7 DEF TellsUpTo
<1>9. ~b.oom
  BY <1>6, <1>7 DEF TellsUpTo
<1>10. ~b.sawBare => \A i \in 1..(n + 1) : more[i].text > 0 => more[i].ids > 0
  BY <1>3, <1>4, <1>6, <1>7 DEF TellsUpTo
<1>11. Len(b.events) > 0 => \E i \in 1..(n + 1) : more[i].text > 0
  <2>1. n + 1 \in 1..(n + 1) /\ \A i \in 1..n : i \in 1..(n + 1)
    OBVIOUS
  <2> QED
    BY <1>3, <1>6, <1>7, <2>1 DEF TellsUpTo
<1>12. ASSUME NEW j \in 1..(n + 1), more[j].out # None,
              \A i \in (j + 1)..(n + 1) : more[i].out = None
       PROVE  b.out = more[j].out
  <2>1. CASE j = n + 1
    BY <1>3, <1>6, <1>12, <2>1
  <2>2. CASE j \in 1..n
    <3>1. n + 1 \in (j + 1)..(n + 1) /\ \A i \in (j + 1)..n : i \in (j + 1)..(n + 1) /\ i \in 1..n
      BY <2>2
    <3>2. p.out = None
      BY <1>3, <1>12, <3>1
    <3>3. \A i \in (j + 1)..n : events[i].out = None
      BY <1>3, <1>12, <3>1
    <3>4. events[j].out # None
      BY <1>3, <1>12, <2>2
    <3>5. a.out = events[j].out
      BY <1>7, <2>2, <3>3, <3>4 DEF TellsUpTo
    <3> QED
      BY <1>3, <1>6, <2>2, <3>2, <3>5
  <2> QED
    BY <1>4, <2>1, <2>2
<1>13. TellsUpTo(b, more, n + 1)
  BY <1>3, <1>6, <1>8, <1>9, <1>10, <1>11, <1>12 DEF TellsUpTo
<1> QED
  BY <1>1, <1>2, <1>5, <1>13

\* The event that ends the reading.
LEMMA LastTells ==
  ASSUME NEW a \in Locals, NEW events \in Seq(Payloads), NEW p \in Payloads,
         TellsUpTo(a, events, Len(events)), Reads(a), p.type \notin {"delta", "blank"}
  PROVE  TellsUpTo(ConsumeEvent(a, p, 0), Append(events, p), Len(events))
<1>1. PICK n \in Nat : n = Len(events)
  OBVIOUS
<1>2. PICK more \in Seq(Payloads) : more = Append(events, p)
  <2>1. Append(events, p) \in Seq(Payloads)
    OBVIOUS
  <2> QED
    BY <2>1
<1>3. Len(more) = n + 1 /\ more[n + 1] = p /\ \A i \in 1..n : more[i] = events[i]
  BY <1>1, <1>2
<1>4. TellsUpTo(a, events, n)
  BY <1>1
<1>5. PICK b \in Locals : b = ConsumeEvent(a, p, 0)
  BY EventType
<1>6. ~a.oom /\ ~a.done /\ a.error = "none"
  BY <1>4 DEF TellsUpTo, Reads
<1>7. /\ b.done <=> p.type = "done"
      /\ b.done => b.error = "none"
      /\ b.oom = p.oom
      /\ ~Reads(b)
  <2>1. CASE p.type = "done"
    <3>1. b.done /\ b.error = a.error
      BY <1>5, <2>1, DoneRead
    <3>2. b.oom = a.oom
      BY <1>5, <2>1, DoneRead
    <3>3. p.oom = FALSE
      BY <2>1, PayloadIs
    <3>4. a.oom = FALSE
      BY <1>6 DEF Locals
    <3>5. b.oom = p.oom
      BY <3>2, <3>3, <3>4
    <3> QED
      BY <1>6, <2>1, <3>1, <3>5 DEF Reads
  <2>2. CASE p.type # "done"
    <3>1. b.done = a.done /\ b.error = p.type
      BY <1>5, <2>2, ErrorRead
    <3>2. b.oom = p.oom
      BY <1>5, <2>2, ErrorRead
    <3>3. p.type # "none"
      BY PayloadIs
    <3> QED
      BY <1>6, <2>2, <3>1, <3>2, <3>3 DEF Reads
  <2> QED
    BY <2>1, <2>2
<1>8. b.sawBare = a.sawBare /\ b.events = a.events /\ b.out = a.out
  <2>1. CASE p.type = "done"
    BY <1>5, <2>1, DoneRead
  <2>2. CASE p.type # "done"
    BY <1>5, <2>2, ErrorRead
  <2> QED
    BY <2>1, <2>2
<1> HIDE DEF Reads
<1>9. \A i \in 1..n : more[i].type \in {"delta", "blank"}
  BY <1>3, <1>4 DEF TellsUpTo
<1>10. ~b.sawBare => \A i \in 1..n : more[i].text > 0 => more[i].ids > 0
  BY <1>3, <1>4, <1>8 DEF TellsUpTo
<1>11. Len(b.events) > 0 => \E i \in 1..n : more[i].text > 0
  BY <1>3, <1>4, <1>8 DEF TellsUpTo
<1>12. ASSUME NEW j \in 1..n, more[j].out # None, \A i \in (j + 1)..n : more[i].out = None
       PROVE  b.out = more[j].out
  <2>1. \A i \in (j + 1)..n : i \in 1..n
    OBVIOUS
  <2> QED
    BY <1>3, <1>4, <1>8, <1>12, <2>1 DEF TellsUpTo
<1>13. n < Len(more) /\ more[n + 1].type \notin {"delta", "blank"}
  BY <1>3
<1>14. /\ b.done <=> more[n + 1].type = "done"
       /\ b.done => b.error = "none"
       /\ b.oom = more[n + 1].oom
  BY <1>3, <1>7
<1>15. TellsUpTo(b, more, n)
  BY <1>7, <1>9, <1>10, <1>11, <1>12, <1>13, <1>14 DEF TellsUpTo
<1> QED
  BY <1>1, <1>2, <1>5, <1>15

\* Every reading tells this of its events.
LEMMA ReadingTells ==
  ASSUME NEW events \in Seq(Payloads)
  PROVE  Tells(Read1(events), events)
<1> DEFINE T == {q \in Seq(Payloads) : Tells(Read1(q), q)}
<1>1. <<>> \in T
  <2>1. Read1(<<>>) = NoReading
    BY AllOfNothing DEF Read1
  <2> QED
    BY <2>1, NothingTells
<1>2. ASSUME NEW q \in Seq(Payloads), NEW x \in Payloads, q \in T
      PROVE  Append(q, x) \in T
  <2>1. PICK a \in Locals : a = Read1(q)
    BY AllType, NoReadingType DEF Read1
  <2>2. Read1(Append(q, x)) = ConsumeEvent(a, x, 0)
    BY <2>1, AllAppend DEF Read1
  <2>3. PICK n \in 0..Len(q) : TellsUpTo(a, q, n)
    BY <1>2, <2>1 DEF Tells
  <2>4. Append(q, x) \in Seq(Payloads) /\ Len(Append(q, x)) = Len(q) + 1 /\ Len(q) \in Nat
    OBVIOUS
  <2>5. Tells(ConsumeEvent(a, x, 0), Append(q, x))
    <3>1. CASE ~Reads(a)
      <4>1. TellsUpTo(a, Append(q, x), n)
        BY <2>3, <3>1, OverTells
      <4>2. ConsumeEvent(a, x, 0) = a
        BY <3>1, NothingRead
      <4>3. n \in 0..Len(Append(q, x))
        BY <2>4
      <4> QED
        BY <4>1, <4>2, <4>3 DEF Tells
    <3>2. CASE Reads(a) /\ x.type \in {"delta", "blank"}
      <4>1. TellsUpTo(a, q, Len(q))
        BY <2>3, <3>2 DEF TellsUpTo
      <4>2. TellsUpTo(ConsumeEvent(a, x, 0), Append(q, x), Len(q) + 1)
        BY <3>2, <4>1, MoreTells
      <4>3. Len(q) + 1 \in 0..Len(Append(q, x))
        BY <2>4
      <4> QED
        BY <4>2, <4>3 DEF Tells
    <3>3. CASE Reads(a) /\ x.type \notin {"delta", "blank"}
      <4>1. TellsUpTo(a, q, Len(q))
        BY <2>3, <3>3 DEF TellsUpTo
      <4>2. TellsUpTo(ConsumeEvent(a, x, 0), Append(q, x), Len(q))
        BY <3>3, <4>1, LastTells
      <4>3. Len(q) \in 0..Len(Append(q, x))
        BY <2>4
      <4> QED
        BY <4>2, <4>3 DEF Tells
    <3> QED
      BY <3>1, <3>2, <3>3
  <2> QED
    BY <2>2, <2>4, <2>5
<1> HIDE DEF T
<1>3. \A q \in Seq(Payloads) : q \in T
  BY <1>1, <1>2, SequenceInduction
<1> QED
  BY <1>3 DEF T

-----------------------------------------------------------------------------
(* What is so of every request: the inductive invariant of the responses *)

\* The tokens came between two times, in order.
Timely(start, a, end) ==
  /\ start \in Nat /\ end \in Nat /\ start <= end
  /\ \A i \in 1..Len(a.tokens) : start <= a.tokens[i] /\ a.tokens[i] <= end
  /\ \A i \in 1..(Len(a.tokens) - 1) : a.tokens[i] <= a.tokens[i + 1]

SoFar(r) == Read1(InOneGo(heard[r]).soFar)
All(r) == Read1(InOneGo(heard[r]).all)
Decodable(r) == Undecodable \notin ToSet(heard[r])

\* No byte of the response came.
Silent(r) ==
  heard[r] = <<>> /\ decoder[r] = FreshDecoder /\ reading[r] = NoReading

\* The decoder and the locals are those that the bytes in one piece give.
Following(r) ==
  /\ Decodable(r)
  /\ decoder[r] = Feed(FreshDecoder, heard[r]).decoder
  /\ Same(reading[r], SoFar(r)) /\ Reads(reading[r])

\* The record does not stand for what was read,
Unread(r) ==
  record[r].status # "success" /\ ~record[r].valid
Foreign(r) == record[r] = NoRecord \/ ~FromStream(r)

\* or for a reading that another failure cut short,
Dropped(r) ==
  /\ Unread(r) /\ Foreign(r)
  /\ Decodable(r) => Reads(reading[r]) /\ Same(reading[r], SoFar(r))

\* or for all of it.
Stands(result, a) ==
  \/ result.status # "success" /\ ~result.valid /\ result.oom = a.oom
  \/ /\ a.done /\ result.out = OutputCount(a) /\ result.out # None
     /\ result.first # None => Len(a.events) > 0
     /\ result.valid => Valid(a, result.out)
     /\ result.tokens = a.tokens
     /\ Timely(result.sent, a, result.fin)
Concluded(r) ==
  Decodable(r) /\ Same(reading[r], All(r)) /\ Stands(record[r], reading[r])

RequestOK(r) ==
  /\ phase[r] \in {"waiting", "queued"} => Silent(r) /\ record[r] = NoRecord
  /\ phase[r] = "raised" => Silent(r) /\ Unread(r) /\ Foreign(r)
  /\ phase[r] = "streaming" =>
       Following(r) /\ record[r] = NoRecord /\ Timely(sent[r], reading[r], now)
  /\ phase[r] = "ended" =>
       \/ stage = "cancelled" /\ Unread(r) /\ Foreign(r)
       \/ Dropped(r) \/ Concluded(r)

ResponsesOK ==
  /\ wire \in [Requests -> Bytes] /\ heard \in [Requests -> Bytes]
  /\ decoder \in [Requests -> Decoders] /\ reading \in [Requests -> Locals]
  /\ sent \in [Requests -> Nat \cup {None}]
RInv == ResponsesOK /\ \A r \in Requests : RequestOK(r)

-----------------------------------------------------------------------------
(* Times *)

LEMMA TimelyLater ==
  ASSUME NEW a, NEW start, NEW t, Timely(start, a, t), NEW u \in Nat, t <= u, a \in Locals
  PROVE  Timely(start, a, u)
<1>1. \A i \in 1..Len(a.tokens) : a.tokens[i] \in Nat
  BY DEF Locals
<1> QED
  BY <1>1 DEF Timely

LEMMA TimelyStart ==
  ASSUME NEW t \in Nat
  PROVE  Timely(t, NoReading, t)
BY DEF Timely, NoReading

LEMMA TimelyEvent ==
  ASSUME NEW a \in Locals, NEW start, NEW t, Timely(start, a, t), NEW p \in Payloads
  PROVE  Timely(start, ConsumeEvent(a, p, t), t)
<1>1. t \in Nat /\ start \in Nat /\ start <= t
  BY DEF Timely
<1>2. CASE ~Reads(a) \/ p.type = "blank"
  BY <1>2, NothingRead
<1>3. ASSUME NEW b, b.tokens = a.tokens
      PROVE  Timely(start, b, t)
  BY <1>3 DEF Timely
<1>4. CASE Reads(a) /\ p.type = "done"
  BY <1>3, <1>4, DoneRead
<1>5. CASE Reads(a) /\ p.type \notin {"delta", "done", "blank"}
  BY <1>3, <1>5, ErrorRead
<1>6. CASE Reads(a) /\ p.type = "delta"
  <2>1. PICK b : b = ConsumeEvent(a, p, t)
    OBVIOUS
  <2>2. PICK m \in Nat : m = p.ids
    BY PayloadIs
  <2>3. b.tokens = a.tokens \o [i \in 1..m |-> t]
    BY <1>1, <1>6, <2>1, <2>2, DeltaRead
  <2>4. PICK n \in Nat : n = Len(a.tokens)
    BY DEF Locals
  <2>5. a.tokens \in Seq(Nat) /\ [i \in 1..m |-> t] \in Seq(Nat) /\ Len([i \in 1..m |-> t]) = m
    BY <1>1 DEF Locals
  <2>6. /\ Len(b.tokens) = n + m
        /\ \A i \in 1..n : b.tokens[i] = a.tokens[i]
        /\ \A i \in (n + 1)..(n + m) : b.tokens[i] = t
    BY <2>3, <2>4, <2>5
  <2>7. \A i \in 1..(n + m) : i \in 1..n \/ i \in (n + 1)..(n + m)
    OBVIOUS
  <2>8. \A i \in 1..(n + m) : start <= b.tokens[i] /\ b.tokens[i] <= t
    BY <1>1, <2>4, <2>6, <2>7 DEF Timely
  <2>9. ASSUME NEW i \in 1..(n + m - 1)
        PROVE  b.tokens[i] <= b.tokens[i + 1]
    <3>1. CASE i + 1 \in 1..n
      <4>1. i \in 1..n /\ i \in 1..(n - 1)
        BY <3>1
      <4>2. a.tokens[i] <= a.tokens[i + 1]
        BY <2>4, <4>1 DEF Timely
      <4> QED
        BY <2>6, <3>1, <4>1, <4>2
    <3>2. CASE i + 1 \in (n + 1)..(n + m)
      <4>1. i \in 1..(n + m)
        OBVIOUS
      <4>2. b.tokens[i + 1] = t
        BY <2>6, <3>2
      <4> QED
        BY <2>8, <4>1, <4>2
    <3> QED
      BY <3>1, <3>2
  <2>10. Timely(start, b, t)
    BY <1>1, <2>6, <2>8, <2>9 DEF Timely
  <2> QED
    BY <2>1, <2>10
<1> QED
  BY <1>2, <1>4, <1>5, <1>6, OutcomesOfEvents

LEMMA TimelyAll ==
  ASSUME NEW a \in Locals, NEW start, NEW t, Timely(start, a, t), NEW events \in Seq(Payloads)
  PROVE  Timely(start, ConsumeAll(a, events, t), t)
<1> DEFINE S == {b \in Locals : Timely(start, b, t)}
<1>1. \A b \in S : \A x \in Payloads : Step(b, x, <<"event", t>>) \in S
  <2>1. \A b, x : Step(b, x, <<"event", t>>) = ConsumeEvent(b, x, t)
    BY StepIs
  <2>2. t \in Nat
    BY DEF Timely
  <2>3. \A b \in S : \A x \in Payloads : ConsumeEvent(b, x, t) \in S
    BY <2>2, EventType, TimelyEvent
  <2> QED
    BY <2>1, <2>3
<1>2. a \in S
  OBVIOUS
<1> HIDE DEF S
<1>3. Fold(a, events, <<"event", t>>) \in S
  BY <1>1, <1>2, FoldStays
<1> QED
  BY <1>3, ConsumedIs DEF S

LEMMA TimelyRises ==
  ASSUME NEW a \in Locals, NEW start, NEW t, Timely(start, a, t)
  PROVE  Rising(<<start>> \o a.tokens \o <<t>>)
<1>1. PICK n \in Nat : n = Len(a.tokens)
  BY DEF Locals
<1>2. a.tokens \in Seq(Nat) /\ start \in Nat /\ t \in Nat
  BY DEF Timely, Locals
<1>3. PICK s : s = <<start>> \o a.tokens \o <<t>>
  OBVIOUS
<1>4. /\ Len(s) = n + 2 /\ s[1] = start /\ s[n + 2] = t
      /\ \A i \in 1..n : s[i + 1] = a.tokens[i]
  <2>1. PICK u : u = <<start>> \o a.tokens
    OBVIOUS
  <2>2. u \in Seq(Nat) /\ Len(u) = n + 1 /\ u[1] = start
    BY <1>1, <1>2, <2>1
  <2>3. \A i \in 2..(n + 1) : u[i] = a.tokens[i - 1]
    BY <1>1, <1>2, <2>1
  <2>4. s = Append(u, t)
    BY <1>3, <2>1, <2>2, <1>2
  <2>5. /\ Len(s) = n + 2 /\ s[n + 2] = t
        /\ \A i \in 1..(n + 1) : s[i] = u[i]
    BY <1>2, <2>2, <2>4
  <2>6. ASSUME NEW i \in 1..n
        PROVE  s[i + 1] = a.tokens[i]
    <3>1. PICK j \in 2..(n + 1) : j = i + 1
      OBVIOUS
    <3> QED
      BY <2>3, <2>5, <3>1
  <2>7. s[1] = start
    BY <2>2, <2>5
  <2> QED
    BY <2>5, <2>6, <2>7
<1>5. ASSUME NEW i \in 1..(n + 1)
      PROVE  s[i] <= s[i + 1]
  <2>1. CASE n = 0
    BY <1>4, <2>1 DEF Timely
  <2>2. CASE n > 0 /\ i = 1
    BY <1>1, <1>4, <2>2 DEF Timely
  <2>3. CASE n > 0 /\ i = n + 1
    <3>1. s[n + 1] = a.tokens[n] /\ a.tokens[n] <= t
      BY <1>1, <1>4, <2>3 DEF Timely
    <3> QED
      BY <1>4, <2>3, <3>1
  <2>4. CASE i \in 2..n
    <3>1. PICK j \in 1..(n - 1) : i = j + 1
      BY <2>4
    <3>2. s[j + 1] = a.tokens[j] /\ s[j + 1 + 1] = a.tokens[j + 1]
      BY <1>4
    <3>3. a.tokens[j] <= a.tokens[j + 1]
      BY <1>1 DEF Timely
    <3> QED
      BY <3>1, <3>2, <3>3
  <2> QED
    BY <2>1, <2>2, <2>3, <2>4
<1>6. Len(s) - 1 = n + 1
  BY <1>4
<1>7. Rising(s)
  BY <1>5, <1>6 DEF Rising
<1> QED
  BY <1>3, <1>7

-----------------------------------------------------------------------------
(* What a chunk and the end of the response add *)

LEMMA InOneGoIs ==
  ASSUME NEW h \in Bytes
  PROVE  /\ InOneGo(h).soFar = Feed(FreshDecoder, h).events
         /\ InOneGo(h).all = Feed(FreshDecoder, h).events \o Close(Feed(FreshDecoder, h).decoder)
         /\ InOneGo(h).soFar \in Seq(Payloads) /\ InOneGo(h).all \in Seq(Payloads)
         /\ Feed(FreshDecoder, h).decoder \in Decoders
         /\ Close(Feed(FreshDecoder, h).decoder) \in Seq(Payloads)
         /\ Read1(InOneGo(h).soFar) \in Locals /\ Read1(InOneGo(h).all) \in Locals
<1>1. FreshDecoder \in Decoders
  BY DEF FreshDecoder, Decoders, Bytes
<1>2. Feed(FreshDecoder, h) \in Feds
  BY <1>1, FeedType
<1>3. Feed(FreshDecoder, h).events \in Seq(Payloads) /\ Feed(FreshDecoder, h).decoder \in Decoders
  BY <1>2 DEF Feds
<1>4. Close(Feed(FreshDecoder, h).decoder) \in Seq(Payloads)
  BY <1>3, CloseType
<1>5. /\ InOneGo(h).soFar = Feed(FreshDecoder, h).events
      /\ InOneGo(h).all = Feed(FreshDecoder, h).events \o Close(Feed(FreshDecoder, h).decoder)
  BY DEF InOneGo
<1>6. InOneGo(h).soFar \in Seq(Payloads)
  BY <1>3, <1>5
<1>7. InOneGo(h).all \in Seq(Payloads)
  BY <1>3, <1>4, <1>5
<1>8. Read1(InOneGo(h).soFar) \in Locals /\ Read1(InOneGo(h).all) \in Locals
  BY <1>6, <1>7, NoReadingType, AllType DEF Read1
<1> QED
  BY <1>3, <1>4, <1>5, <1>6, <1>7, <1>8

\* Reading on.
LEMMA ReadOn ==
  ASSUME NEW events \in Seq(Payloads), NEW more \in Seq(Payloads), NEW all, all = events \o more
  PROVE  Read1(all) = ConsumeAll(Read1(events), more, 0)
BY AllConcat DEF Read1

\* What follows after [DONE] or an error is not read.
LEMMA OverIsAll ==
  ASSUME NEW h \in Bytes, ~Reads(Read1(InOneGo(h).soFar))
  PROVE  Read1(InOneGo(h).all) = Read1(InOneGo(h).soFar)
<1>1. Read1(InOneGo(h).all)
        = ConsumeAll(Read1(InOneGo(h).soFar), Close(Feed(FreshDecoder, h).decoder), 0)
  BY InOneGoIs, ReadOn
<1> QED
  BY <1>1, InOneGoIs, NothingMore

LEMMA ChunkFollows ==
  ASSUME NEW h \in Bytes, NEW chunk \in Bytes, NEW d, d = Feed(FreshDecoder, h).decoder,
         NEW a \in Locals, Same(a, Read1(InOneGo(h).soFar)), NEW t \in Nat
  PROVE  /\ Feed(d, chunk).events \in Seq(Payloads) /\ Feed(d, chunk).decoder \in Decoders
         /\ Feed(FreshDecoder, h \o chunk).decoder = Feed(d, chunk).decoder
         /\ Same(ConsumeAll(a, Feed(d, chunk).events, t), Read1(InOneGo(h \o chunk).soFar))
         /\ ~Reads(ConsumeAll(a, Feed(d, chunk).events, t)) =>
              Same(ConsumeAll(a, Feed(d, chunk).events, t), Read1(InOneGo(h \o chunk).all))
<1>1. FreshDecoder \in Decoders
  BY DEF FreshDecoder, Decoders, Bytes
<1>2. h \o chunk \in Bytes
  BY DEF Bytes
<1>3. PICK f \in Feds : f = Feed(d, chunk)
  BY InOneGoIs, FeedType
<1>4. Feed(FreshDecoder, h \o chunk)
        = [decoder |-> f.decoder, events |-> Feed(FreshDecoder, h).events \o f.events]
  BY <1>1, <1>3, FeedTwice
<1>5. f.events \in Seq(Payloads) /\ f.decoder \in Decoders
  BY DEF Feds
<1>6. Feed(FreshDecoder, h \o chunk).decoder = f.decoder
  BY <1>4
<1>7. InOneGo(h \o chunk).soFar = InOneGo(h).soFar \o f.events
  <2>2. PICK e : e = Feed(FreshDecoder, h).events \o f.events
    OBVIOUS
  <2>3. Feed(FreshDecoder, h \o chunk) = [decoder |-> f.decoder, events |-> e]
    BY <1>4, <2>2
  <2>4. Feed(FreshDecoder, h \o chunk).events = e
    BY <2>3
  <2>1. Feed(FreshDecoder, h \o chunk).events = Feed(FreshDecoder, h).events \o f.events
    BY <2>2, <2>4
  <2> QED
    BY <1>2, <2>1, InOneGoIs
<1>8. Read1(InOneGo(h \o chunk).soFar) = ConsumeAll(Read1(InOneGo(h).soFar), f.events, 0)
  BY <1>5, <1>7, InOneGoIs, ReadOn
<1>9. Same(ConsumeAll(a, f.events, t), Read1(InOneGo(h \o chunk).soFar))
  BY <1>5, <1>8, InOneGoIs, SameAll
<1>10. ASSUME ~Reads(ConsumeAll(a, f.events, t))
       PROVE  Same(ConsumeAll(a, f.events, t), Read1(InOneGo(h \o chunk).all))
  <2>1. ~Reads(Read1(InOneGo(h \o chunk).soFar))
    BY <1>9, <1>10 DEF Same, Reads
  <2>2. Read1(InOneGo(h \o chunk).all) = Read1(InOneGo(h \o chunk).soFar)
    BY <1>2, <2>1, OverIsAll
  <2> QED
    BY <1>9, <2>2
<1> QED
  BY <1>3, <1>5, <1>6, <1>9, <1>10

LEMMA EofFollows ==
  ASSUME NEW h \in Bytes, NEW d, d = Feed(FreshDecoder, h).decoder,
         NEW a \in Locals, Same(a, Read1(InOneGo(h).soFar)), NEW t \in Nat
  PROVE  /\ Close(d) \in Seq(Payloads)
         /\ Same(ConsumeAll(a, Close(d), t), Read1(InOneGo(h).all))
<1>1. Close(d) \in Seq(Payloads)
  BY InOneGoIs
<1>2. Read1(InOneGo(h).all) = ConsumeAll(Read1(InOneGo(h).soFar), Close(d), 0)
  BY <1>1, InOneGoIs, ReadOn
<1> QED
  BY <1>1, <1>2, InOneGoIs, SameAll

-----------------------------------------------------------------------------
(* Records *)

LEMMA NoRecordIs ==
  /\ NoRecord.status # "success" /\ ~NoRecord.valid
BY DEF NoRecord

LEMMA FailedFields ==
  ASSUME NEW r, NEW a, NEW error
  PROVE  /\ FailedRecord(r, a, error).status # "success"
         /\ ~FailedRecord(r, a, error).valid
         /\ FailedRecord(r, a, error).error = error
         /\ FailedRecord(r, a, error).oom = a.oom
BY DEF FailedRecord, NoRecord

LEMMA SuccessFields ==
  ASSUME NEW r, NEW a, a.done, None \notin {InputCount(r, a), OutputCount(a)}
  PROVE  /\ Judged(r, a).out = OutputCount(a)
         /\ Judged(r, a).first = IF a.events = <<>> THEN None ELSE a.events[1]
         /\ Judged(r, a).valid = Valid(a, OutputCount(a))
         /\ Judged(r, a).tokens = a.tokens
         /\ Judged(r, a).sent = sent[r] /\ Judged(r, a).fin = now
         /\ Judged(r, a).error = "none"
BY DEF Judged, NoRecord

LEMMA JudgedStands ==
  ASSUME NEW r, NEW a \in Locals, Timely(sent[r], a, now)
  PROVE  Stands(Judged(r, a), a)
<1>1. CASE ~a.done
  BY <1>1, FailedFields DEF Judged, Stands
<1>2. CASE a.done /\ None \in {InputCount(r, a), OutputCount(a)}
  BY <1>2, FailedFields DEF Judged, Stands
<1>3. CASE a.done /\ None \notin {InputCount(r, a), OutputCount(a)}
  <2>1. a.events # <<>> => Len(a.events) > 0
    BY DEF Locals
  <2>2. PICK result : result = Judged(r, a)
    OBVIOUS
  <2>3. /\ result.out = OutputCount(a)
        /\ result.first = IF a.events = <<>> THEN None ELSE a.events[1]
        /\ result.tokens = a.tokens
        /\ result.sent = sent[r] /\ result.fin = now
    BY <1>3, <2>2, SuccessFields
  <2>4. result.valid = Valid(a, OutputCount(a))
    BY <1>3, <2>2, SuccessFields
  <2>5. result.out # None
    BY <1>3, <2>3
  <2>6. result.valid => Valid(a, result.out)
    BY <2>3, <2>4
  <2> QED
    BY <1>3, <2>1, <2>2, <2>3, <2>5, <2>6 DEF Stands
<1> QED
  BY <1>1, <1>2, <1>3

LEMMA FailureStands ==
  ASSUME NEW r, NEW a, NEW error
  PROVE  Stands(FailedRecord(r, a, error), a)
BY FailedFields DEF Stands

-----------------------------------------------------------------------------
(* Requests a step leaves alone *)

LEMMA Untouched ==
  ASSUME NEW r \in Requests, RequestOK(r), ResponsesOK, phase'[r] = phase[r],
         heard'[r] = heard[r], decoder'[r] = decoder[r], reading'[r] = reading[r],
         sent'[r] = sent[r], record'[r] = record[r],
         stage = "cancelled" => stage' = "cancelled", now' \in Nat, now <= now'
  PROVE  RequestOK(r)'
<1>1. Silent(r)' <=> Silent(r)
  BY DEF Silent
<1>2. Unread(r)' <=> Unread(r)
  BY DEF Unread
<1>3. Foreign(r)' <=> Foreign(r)
  BY DEF Foreign, FromStream
<1>4. Following(r)' <=> Following(r)
  BY DEF Following, Decodable, SoFar
<1>5. Dropped(r)' <=> Dropped(r)
  BY <1>2, <1>3 DEF Dropped, Decodable, SoFar
<1>6. Concluded(r)' <=> Concluded(r)
  BY DEF Concluded, Decodable, All
<1>7. Timely(sent[r], reading[r], now) => Timely(sent'[r], reading'[r], now')
  <2>1. reading[r] \in Locals
    BY DEF ResponsesOK
  <2> QED
    BY <2>1, TimelyLater
<1> QED
  BY <1>1, <1>2, <1>3, <1>4, <1>5, <1>6, <1>7 DEF RequestOK

\* Steps that read nothing.
LEMMA Elsewhere ==
  ASSUME IInv, RInv, NEW r \in Requests, phase'[r] = phase[r], UNCHANGED <<heard, decoder, reading>>,
         sent'[r] = sent[r], record'[r] = record[r], stage' = stage, now' = now
  PROVE  RequestOK(r)'
<1>1. now \in Nat
  BY DEF IInv, StageOK
<1> QED
  BY <1>1, Untouched DEF RInv

LEMMA Unheard ==
  ASSUME ResponsesOK, UNCHANGED <<response, sent>>
  PROVE  ResponsesOK'
BY DEF ResponsesOK, response

-----------------------------------------------------------------------------
(* One lemma per step *)

LEMMA StageKeepsR ==
  ASSUME IInv, RInv, WarmUp \/ EndWarmup \/ Tick \/ (\E seen : Score(seen)) \/ UNCHANGED vars
  PROVE  RInv'
<1>1. /\ UNCHANGED <<phase, response, sent, record>>
      /\ stage = "cancelled" => stage' = "cancelled"
  BY DEF WarmUp, Warmup, EndWarmup, Tick, Score, vars
<1>2. now \in Nat /\ now' \in Nat /\ now <= now'
  <2>1. now \in Nat
    BY DEF IInv, StageOK
  <2>2. now' = now \/ now' = now + 1
    BY DEF WarmUp, Warmup, EndWarmup, Tick, Score, vars
  <2> QED
    BY <2>1, <2>2
<1>3. ASSUME NEW r \in Requests PROVE RequestOK(r)'
  BY <1>1, <1>2, Untouched DEF RInv, response
<1> QED
  BY <1>1, <1>3, Unheard DEF RInv

LEMMA ArriveKeepsR ==
  ASSUME IInv, RInv, NEW q \in Requests, Arrive(q)
  PROVE  RInv'
<1>1. ASSUME NEW r \in Requests, r # q PROVE RequestOK(r)'
  <2>1. phase'[r] = phase[r]
    BY <1>1 DEF Arrive, IInv, PhaseOK
  <2> QED
    BY <2>1, Elsewhere DEF Arrive, response
<1>2. RequestOK(q)'
  <2>1. phase[q] = "waiting" /\ phase'[q] = "queued"
    BY DEF Arrive, IInv, PhaseOK
  <2>2. Silent(q) /\ record[q] = NoRecord
    BY <2>1 DEF RInv, RequestOK
  <2>3. Silent(q)' /\ record'[q] = NoRecord
    BY <2>2 DEF Silent, Arrive, response
  <2> QED
    BY <2>1, <2>3 DEF RequestOK
<1> QED
  BY <1>1, <1>2, Unheard DEF RInv, Arrive

LEMMA TaskRaisesKeepsR ==
  ASSUME IInv, RInv, NEW q \in Requests, TaskRaises(q)
  PROVE  RInv'
<1>0. phase[q] = "queued"
  BY DequeueKeeps DEF TaskRaises
<1>1. ASSUME NEW r \in Requests, r # q PROVE RequestOK(r)'
  <2>1. phase'[r] = phase[r]
    BY <1>1 DEF TaskRaises, IInv, PhaseOK
  <2> QED
    BY <2>1, Elsewhere DEF TaskRaises, response
<1>2. RequestOK(q)'
  <2>1. phase'[q] = "raised"
    BY DEF TaskRaises, IInv, PhaseOK
  <2>2. Silent(q) /\ record[q] = NoRecord
    BY <1>0 DEF RInv, RequestOK
  <2>3. Silent(q)' /\ record'[q] = NoRecord
    BY <2>2 DEF Silent, TaskRaises, response
  <2>4. Unread(q)' /\ Foreign(q)'
    BY <2>3, NoRecordIs DEF Unread, Foreign
  <2> QED
    BY <2>1, <2>3, <2>4 DEF RequestOK
<1> QED
  BY <1>1, <1>2, Unheard DEF RInv, TaskRaises

\* Nothing was heard yet.
LEMMA SilentFollows ==
  ASSUME NEW r, Silent(r)
  PROVE  Following(r)
<1>1. Feed(FreshDecoder, <<>>).decoder = FreshDecoder
  <2>1. FreshDecoder \in [buffer : {<<>>}, lines : {<<>>}]
    BY DEF FreshDecoder
  <2> QED
    BY FeedNothing
<1>2. InOneGo(<<>>).soFar = <<>>
  <2>1. Feed(FreshDecoder, <<>>).events = <<>>
    BY FeedNothing
  <2> QED
    BY <2>1 DEF InOneGo
<1>3. SoFar(r) = NoReading
  BY <1>2, AllOfNothing DEF Silent, SoFar, Read1
<1>4. Decodable(r)
  BY DEF Silent, Decodable, ToSet
<1>5. Same(NoReading, NoReading) /\ Reads(NoReading)
  BY DEF Same, Reads, NoReading
<1> QED
  BY <1>1, <1>3, <1>4, <1>5 DEF Silent, Following

LEMMA SendKeepsR ==
  ASSUME IInv, RInv, NEW q \in Requests, NEW script \in Scripts[q], Send(q, script)
  PROVE  RInv'
<1>0. phase[q] = "queued" /\ now \in Nat
  <2>1. phase[q] = "queued"
    BY DequeueKeeps DEF Send
  <2>2. now \in Nat
    BY DEF IInv, StageOK
  <2> QED
    BY <2>1, <2>2
<1>1. ASSUME NEW r \in Requests, r # q PROVE RequestOK(r)'
  <2>1. phase'[r] = phase[r] /\ sent'[r] = sent[r]
    BY <1>1 DEF Send, IInv, PhaseOK
  <2> QED
    BY <2>1, Elsewhere DEF Send
<1>2. RequestOK(q)'
  <2>1. phase'[q] = "streaming"
    BY DEF Send, IInv, PhaseOK
  <2>2. Silent(q) /\ record[q] = NoRecord
    BY <1>0 DEF RInv, RequestOK
  <2>3. Silent(q)' /\ record'[q] = NoRecord
    BY <2>2 DEF Silent, Send
  <2>4. Following(q)'
    BY <2>3, SilentFollows DEF Silent, Following, Decodable, SoFar, Send
  <2>5. Timely(sent'[q], reading'[q], now')
    <3>1. sent'[q] = now /\ now' = now
      BY DEF Send, RInv, ResponsesOK
    <3> QED
      BY <1>0, <2>3, <3>1, TimelyStart DEF Silent
  <2> QED
    BY <2>1, <2>3, <2>4, <2>5 DEF RequestOK
<1>3. ResponsesOK'
  <2>1. script \in Bytes
    BY StreamAssumption DEF Bytes
  <2> QED
    BY <1>0, <2>1 DEF RInv, ResponsesOK, Send
<1> QED
  BY <1>1, <1>2, <1>3 DEF RInv

\* A response ends: the record of q is result, and no other request is touched.
LEMMA EndOthers ==
  ASSUME IInv, RInv, NEW q \in Requests, phase[q] = "streaming", NEW result, End(q, result),
         NEW r \in Requests, r # q, heard'[r] = heard[r], decoder'[r] = decoder[r],
         reading'[r] = reading[r]
  PROVE  RequestOK(r)'
<1>1. phase'[r] = phase[r]
  BY DEF End, IInv, PhaseOK
<1>2. record'[r] = record[r]
  <2>1. PICK S : record \in [Requests -> S]
    BY DEF IInv, RecordsOK
  <2> QED
    BY <2>1 DEF End
<1>3. now \in Nat /\ now' = now /\ stage' = stage /\ sent' = sent
  BY DEF IInv, StageOK, End
<1> QED
  BY <1>1, <1>2, <1>3, Untouched DEF RInv

LEMMA EndRecords ==
  ASSUME IInv, NEW q \in Requests, NEW result, End(q, result)
  PROVE  phase'[q] = "ended" /\ record'[q] = result /\ sent' = sent
<1>1. PICK S : record \in [Requests -> S]
  BY DEF IInv, RecordsOK
<1> QED
  BY <1>1 DEF End, IInv, PhaseOK

\* A failure that is not the engine's answer.
LEMMA DropKeepsR ==
  ASSUME IInv, RInv, NEW q \in Requests, phase[q] = "streaming",
         NEW a, NEW error \in {"http_error", "client_error", "timeout", "transport_error"},
         End(q, FailedRecord(q, a, error)), UNCHANGED response
  PROVE  RInv'
<1>0. UNCHANGED <<heard, decoder, reading>>
  BY DEF response
<1>1. ASSUME NEW r \in Requests, r # q PROVE RequestOK(r)'
  BY <1>0, <1>1, EndOthers
<1>2. RequestOK(q)'
  <2>1. phase'[q] = "ended" /\ record'[q] = FailedRecord(q, a, error)
    BY EndRecords
  <2>2. Unread(q)' /\ Foreign(q)'
    BY <2>1, FailedFields DEF Unread, Foreign, FromStream
  <2>3. Following(q)
    BY DEF RInv, RequestOK
  <2>4. Reads(reading'[q]) /\ Same(reading'[q], SoFar(q)')
    BY <1>0, <2>3 DEF Following, SoFar
  <2>5. Dropped(q)'
    BY <2>2, <2>4 DEF Dropped
  <2> QED
    BY <2>1, <2>5 DEF RequestOK
<1> QED
  BY <1>1, <1>2, EndRecords, Unheard DEF RInv

LEMMA BreaksKeepsR ==
  ASSUME IInv, RInv, NEW q \in Requests,
         (\E oom \in BOOLEAN : HttpError(q, oom)) \/ (\E e \in Faults[q] : Raise(q, e))
  PROVE  RInv'
<1>1. ASSUME NEW oom \in BOOLEAN, HttpError(q, oom) PROVE RInv'
  BY <1>1, DropKeepsR DEF HttpError
<1>2. ASSUME NEW e \in Faults[q], Raise(q, e) PROVE RInv'
  <2>1. e \in {"timeout", "transport_error"}
    BY StreamAssumption
  <2> QED
    BY <1>2, <2>1, DropKeepsR DEF Raise
<1> QED
  BY <1>1, <1>2

\* The response is read to its end.
LEMMA EofKeepsR ==
  ASSUME IInv, RInv, NEW q \in Requests, Eof(q)
  PROVE  RInv'
<1>0. /\ phase[q] = "streaming" /\ now \in Nat /\ heard[q] \in Bytes /\ decoder[q] \in Decoders
      /\ reading[q] \in Locals
  <2>1. phase[q] = "streaming"
    BY DEF Eof
  <2>2. now \in Nat
    BY DEF IInv, StageOK
  <2> QED
    BY <2>1, <2>2 DEF RInv, ResponsesOK
<1>1. Following(q) /\ Timely(sent[q], reading[q], now)
  BY <1>0 DEF RInv, RequestOK
<1>2. PICK a : a = ConsumeAll(reading[q], Close(decoder[q]), now)
  OBVIOUS
<1>3. PICK result : result = IF a.error # "none" THEN FailedRecord(q, a, a.error) ELSE Judged(q, a)
  OBVIOUS
<1>4. /\ reading' = [reading EXCEPT ![q] = a] /\ End(q, result)
      /\ UNCHANGED <<wire, heard, decoder>>
  BY <1>2, <1>3 DEF Eof
<1>5. Close(decoder[q]) \in Seq(Payloads) /\ Same(a, All(q))
  BY <1>0, <1>1, <1>2, EofFollows DEF Following, SoFar, All
<1>6. a \in Locals /\ Timely(sent[q], a, now)
  BY <1>0, <1>1, <1>2, <1>5, AllType, TimelyAll
<1>7. Stands(result, a)
  BY <1>3, <1>6, JudgedStands, FailureStands
<1>8. reading'[q] = a /\ \A r \in Requests : r # q => reading'[r] = reading[r]
  BY <1>4 DEF RInv, ResponsesOK
<1>9. ASSUME NEW r \in Requests, r # q PROVE RequestOK(r)'
  BY <1>0, <1>4, <1>8, <1>9, EndOthers
<1>10. RequestOK(q)'
  <2>1. phase'[q] = "ended" /\ record'[q] = result
    BY <1>4, EndRecords
  <2>2. Decodable(q)' /\ Same(reading'[q], All(q)')
    BY <1>1, <1>4, <1>5, <1>8 DEF Following, Decodable, All
  <2>3. Concluded(q)'
    BY <1>7, <1>8, <2>1, <2>2 DEF Concluded
  <2> QED
    BY <2>1, <2>3 DEF RequestOK
<1>11. ResponsesOK'
  BY <1>4, <1>6, EndRecords DEF RInv, ResponsesOK
<1> QED
  BY <1>9, <1>10, <1>11 DEF RInv

\* A chunk.
LEMMA SameSymbols ==
  ASSUME NEW b \in Bytes, NEW c \in Bytes
  PROVE  ToSet(b \o c) = ToSet(b) \cup ToSet(c)
<1>1. PICK m \in Nat, n \in Nat : m = Len(b) /\ n = Len(c)
  BY DEF Bytes
<1>2. PICK s : s = b \o c
  OBVIOUS
<1>3. /\ DOMAIN s = 1..(m + n)
      /\ \A i \in 1..m : s[i] = b[i]
      /\ \A i \in 1..n : s[m + i] = c[i]
  BY <1>1, <1>2 DEF Bytes
<1>4. \A i \in 1..(m + n) : i \in 1..m \/ \E j \in 1..n : i = m + j
  <2>1. ASSUME NEW i \in 1..(m + n), i \notin 1..m PROVE i - m \in 1..n /\ i = m + (i - m)
    BY <2>1
  <2> QED
    BY <2>1
<1>5. \A j \in 1..n : m + j \in 1..(m + n)
  OBVIOUS
<1>6. \A i \in 1..m : i \in 1..(m + n)
  OBVIOUS
<1>7. DOMAIN b = 1..m /\ DOMAIN c = 1..n
  BY <1>1 DEF Bytes
<1>8. ToSet(s) = ToSet(b) \cup ToSet(c)
  <2>1. /\ ToSet(s) = {s[i] : i \in 1..(m + n)}
        /\ ToSet(b) = {b[i] : i \in 1..m} /\ ToSet(c) = {c[i] : i \in 1..n}
    BY <1>3, <1>7 DEF ToSet
  <2>2. ASSUME NEW i \in 1..(m + n) PROVE s[i] \in ToSet(b) \cup ToSet(c)
    <3>1. CASE i \in 1..m
      BY <1>3, <2>1, <3>1
    <3>2. CASE \E j \in 1..n : i = m + j
      BY <1>3, <2>1, <3>2
    <3> QED
      BY <1>4, <3>1, <3>2
  <2>3. ASSUME NEW i \in 1..m PROVE b[i] \in ToSet(s)
    <3>1. b[i] = s[i] /\ i \in 1..(m + n)
      BY <1>3, <1>6
    <3> QED
      BY <2>1, <3>1
  <2>4. ASSUME NEW j \in 1..n PROVE c[j] \in ToSet(s)
    <3>1. c[j] = s[m + j] /\ m + j \in 1..(m + n)
      BY <1>3, <1>5
    <3> QED
      BY <2>1, <3>1
  <2> QED
    BY <2>1, <2>2, <2>3, <2>4
<1> QED
  BY <1>2, <1>8

LEMMA ChunkKeepsR ==
  ASSUME IInv, RInv, NEW q \in Requests, NEW n, Chunk(q, n)
  PROVE  RInv'
<1>0. /\ phase[q] = "streaming" /\ now \in Nat /\ heard[q] \in Bytes /\ wire[q] \in Bytes
      /\ decoder[q] \in Decoders /\ reading[q] \in Locals
  <2>1. phase[q] = "streaming"
    BY DEF Chunk
  <2>2. now \in Nat
    BY DEF IInv, StageOK
  <2> QED
    BY <2>1, <2>2 DEF RInv, ResponsesOK
<1>1. Following(q) /\ Timely(sent[q], reading[q], now) /\ record[q] = NoRecord
  BY <1>0 DEF RInv, RequestOK
<1>2. PICK chunk : chunk = SubSeq(wire[q], 1, n)
  OBVIOUS
<1>3. PICK fed : fed = Feed(decoder[q], chunk)
  OBVIOUS
<1>4. PICK a : a = ConsumeAll(reading[q], fed.events, now)
  OBVIOUS
<1>5. /\ n \in 1..Len(wire[q])
      /\ wire' = [wire EXCEPT ![q] = SubSeq(@, n + 1, Len(@))]
      /\ heard' = [heard EXCEPT ![q] = @ \o chunk]
      /\ \/ /\ Undecodable \in ToSet(chunk)
            /\ End(q, FailedRecord(q, reading[q], "client_error"))
            /\ UNCHANGED <<decoder, reading>>
         \/ /\ Undecodable \notin ToSet(chunk)
            /\ decoder' = [decoder EXCEPT ![q] = fed.decoder]
            /\ reading' = [reading EXCEPT ![q] = a]
            /\ \/ a.error # "none" /\ End(q, FailedRecord(q, a, a.error))
               \/ a.error = "none" /\ a.done /\ End(q, Judged(q, a))
               \/ a.error = "none" /\ ~a.done /\ Continue
  BY <1>2, <1>3, <1>4 DEF Chunk
<1>6. chunk \in Bytes /\ SubSeq(wire[q], n + 1, Len(wire[q])) \in Bytes
  BY <1>0, <1>2, <1>5 DEF Bytes
<1>7. heard[q] \o chunk \in Bytes
  BY <1>0, <1>6 DEF Bytes
<1>8. /\ heard'[q] = heard[q] \o chunk
      /\ \A r \in Requests : r # q => heard'[r] = heard[r]
  BY <1>5 DEF RInv, ResponsesOK
<1>9. ToSet(heard'[q]) = ToSet(heard[q]) \cup ToSet(chunk)
  BY <1>0, <1>6, <1>8, SameSymbols
<1>10. wire' \in [Requests -> Bytes] /\ heard' \in [Requests -> Bytes]
  BY <1>5, <1>6, <1>7 DEF RInv, ResponsesOK
<1>11. CASE /\ Undecodable \in ToSet(chunk)
            /\ End(q, FailedRecord(q, reading[q], "client_error"))
            /\ UNCHANGED <<decoder, reading>>
  <2>1. ASSUME NEW r \in Requests, r # q PROVE RequestOK(r)'
    BY <1>0, <1>8, <1>11, <2>1, EndOthers
  <2>2. RequestOK(q)'
    <3>1. phase'[q] = "ended" /\ record'[q] = FailedRecord(q, reading[q], "client_error")
      BY <1>11, EndRecords
    <3>2. Unread(q)' /\ Foreign(q)'
      BY <3>1, FailedFields DEF Unread, Foreign, FromStream
    <3>3. ~Decodable(q)'
      BY <1>9, <1>11 DEF Decodable
    <3> QED
      BY <3>1, <3>2, <3>3 DEF RequestOK, Dropped
  <2>3. ResponsesOK'
    BY <1>10, <1>11, EndRecords DEF RInv, ResponsesOK
  <2> QED
    BY <2>1, <2>2, <2>3 DEF RInv
<1>12. CASE /\ Undecodable \notin ToSet(chunk)
            /\ decoder' = [decoder EXCEPT ![q] = fed.decoder]
            /\ reading' = [reading EXCEPT ![q] = a]
            /\ \/ a.error # "none" /\ End(q, FailedRecord(q, a, a.error))
               \/ a.error = "none" /\ a.done /\ End(q, Judged(q, a))
               \/ a.error = "none" /\ ~a.done /\ Continue
  <2>1. /\ fed.events \in Seq(Payloads) /\ fed.decoder \in Decoders
        /\ Feed(FreshDecoder, heard[q] \o chunk).decoder = fed.decoder
        /\ Same(a, Read1(InOneGo(heard[q] \o chunk).soFar))
        /\ ~Reads(a) => Same(a, Read1(InOneGo(heard[q] \o chunk).all))
    BY <1>0, <1>1, <1>3, <1>4, <1>6, ChunkFollows DEF Following, SoFar
  <2>2. a \in Locals /\ Timely(sent[q], a, now)
    BY <1>0, <1>1, <1>4, <2>1, AllType, TimelyAll
  <2>3. /\ reading'[q] = a /\ \A r \in Requests : r # q => reading'[r] = reading[r]
        /\ decoder'[q] = fed.decoder /\ \A r \in Requests : r # q => decoder'[r] = decoder[r]
    BY <1>12 DEF RInv, ResponsesOK
  <2>4. decoder' \in [Requests -> Decoders] /\ reading' \in [Requests -> Locals]
    BY <1>12, <2>1, <2>2 DEF RInv, ResponsesOK
  <2>5. Decodable(q)'
    BY <1>1, <1>9, <1>12 DEF Following, Decodable
  <2>6. Same(reading'[q], SoFar(q)')
    BY <1>8, <2>1, <2>3 DEF SoFar
  <2>7. ASSUME NEW result, Stands(result, a), ~Reads(a), End(q, result)
        PROVE  RInv'
    <3>1. ASSUME NEW r \in Requests, r # q PROVE RequestOK(r)'
      BY <1>0, <1>8, <2>3, <2>7, <3>1, EndOthers
    <3>2. phase'[q] = "ended" /\ record'[q] = result /\ sent' = sent
      BY <2>7, EndRecords
    <3>3. Same(reading'[q], All(q)')
      BY <1>8, <2>1, <2>3, <2>7 DEF All
    <3>4. Concluded(q)'
      BY <2>3, <2>5, <2>7, <3>2, <3>3 DEF Concluded
    <3>5. RequestOK(q)'
      BY <3>2, <3>4 DEF RequestOK
    <3>6. ResponsesOK'
      BY <1>10, <2>4, <3>2 DEF RInv, ResponsesOK
    <3> QED
      BY <3>1, <3>5, <3>6 DEF RInv
  <2>8. CASE a.error # "none" /\ End(q, FailedRecord(q, a, a.error))
    BY <2>7, <2>8, FailureStands DEF Reads
  <2>9. CASE a.error = "none" /\ a.done /\ End(q, Judged(q, a))
    BY <2>2, <2>7, <2>9, JudgedStands DEF Reads
  <2>10. CASE a.error = "none" /\ ~a.done /\ Continue
    <3>0. /\ phase' = phase /\ stage' = stage /\ now' = now /\ sent' = sent
          /\ record' = record
      BY <2>10 DEF Continue
    <3>1. ASSUME NEW r \in Requests, r # q PROVE RequestOK(r)'
      BY <1>0, <1>8, <2>3, <3>0, <3>1, Untouched DEF RInv
    <3>2. Reads(a)
      BY <2>10 DEF Reads
    <3>3. decoder'[q] = Feed(FreshDecoder, heard'[q]).decoder
      BY <1>8, <2>1, <2>3
    <3>4. Following(q)'
      BY <2>3, <2>5, <2>6, <3>2, <3>3 DEF Following
    <3>5. Timely(sent'[q], reading'[q], now')
      BY <2>2, <2>3, <3>0
    <3>6. phase'[q] = "streaming" /\ record'[q] = NoRecord
      BY <1>0, <1>1, <3>0
    <3>7. RequestOK(q)'
      BY <3>4, <3>5, <3>6 DEF RequestOK
    <3>8. ResponsesOK'
      BY <1>10, <2>4, <3>0 DEF RInv, ResponsesOK
    <3> QED
      BY <3>1, <3>7, <3>8 DEF RInv
  <2> QED
    BY <1>12, <2>8, <2>9, <2>10
<1> QED
  BY <1>5, <1>11, <1>12

\* The records of the tasks that raised.
LEMMA GatherKeepsR ==
  ASSUME IInv, RInv, Gather
  PROVE  RInv'
<1>1. UNCHANGED <<now, phase, response, sent>> /\ stage = "measure"
  BY DEF Gather
<1>2. now \in Nat
  BY DEF IInv, StageOK
<1>3. ASSUME NEW r \in Requests PROVE RequestOK(r)'
  <2>1. CASE phase[r] = "raised"
    <3>1. record'[r] = [NoRecord EXCEPT !.status = "failed", !.error = "task_exception",
                          !.fin = now, !.in = IF Prompt[r] = None THEN 0 ELSE Prompt[r]]
      BY <2>1 DEF Gather
    <3>2. record'[r].status = "failed" /\ record'[r].error = "task_exception"
      BY <3>1 DEF NoRecord
    <3>3. ~record'[r].valid
      BY <3>1 DEF NoRecord
    <3>4. Unread(r)' /\ Foreign(r)'
      BY <3>2, <3>3 DEF Unread, Foreign, FromStream
    <3>5. Silent(r)'
      BY <1>1, <2>1 DEF RInv, RequestOK, Silent, response
    <3> QED
      BY <1>1, <2>1, <3>4, <3>5 DEF RequestOK
  <2>2. CASE phase[r] # "raised"
    <3>1. record'[r] = record[r]
      BY <2>2 DEF Gather
    <3> QED
      BY <1>1, <1>2, <3>1, Untouched DEF RInv, response
  <2> QED
    BY <2>1, <2>2
<1> QED
  BY <1>1, <1>3, Unheard DEF RInv

\* What a cancelled request leaves counts for nothing.
LEMMA CancelKeepsR ==
  ASSUME IInv, RInv, Cancel
  PROVE  RInv'
<1>1. UNCHANGED <<now, response, sent, record>> /\ stage' = "cancelled"
  BY DEF Cancel
<1>2. ASSUME NEW r \in Requests PROVE RequestOK(r)'
  <2>1. phase'[r] = "ended"
    BY DEF Cancel
  <2>2. phase[r] \in {"waiting", "queued", "streaming", "ended", "raised"}
    BY DEF IInv, PhaseOK
  <2>3. \/ Unread(r) /\ Foreign(r)
        \/ Dropped(r)
        \/ Concluded(r)
    BY <2>2, NoRecordIs DEF RInv, RequestOK, Unread, Foreign
  <2>4. Unread(r) /\ Foreign(r) => Unread(r)' /\ Foreign(r)'
    BY <1>1 DEF Unread, Foreign, FromStream
  <2>5. Dropped(r) => Dropped(r)'
    BY <1>1 DEF Dropped, Unread, Foreign, FromStream, Decodable, SoFar, response
  <2>6. Concluded(r) => Concluded(r)'
    BY <1>1 DEF Concluded, Decodable, All, response
  <2> QED
    BY <1>1, <2>1, <2>3, <2>4, <2>5, <2>6 DEF RequestOK
<1> QED
  BY <1>1, <1>2, Unheard DEF RInv

LEMMA InitRInv == Init => RInv
<1> SUFFICES ASSUME Init PROVE RInv
  OBVIOUS
<1>1. ResponsesOK
  <2>1. FreshDecoder \in Decoders /\ <<>> \in Bytes
    BY DEF FreshDecoder, Decoders, Bytes
  <2> QED
    BY <2>1, NoReadingType DEF Init, ResponsesOK
<1>2. ASSUME NEW r \in Requests PROVE RequestOK(r)
  BY DEF Init, RequestOK, Silent
<1> QED
  BY <1>1, <1>2 DEF RInv

LEMMA NextKeepsR ==
  ASSUME IInv, RInv, [Next]_vars
  PROVE  RInv'
<1>1. CASE WarmUp \/ EndWarmup \/ Tick \/ (\E seen \in Readings : Score(seen)) \/ UNCHANGED vars
  BY <1>1, StageKeepsR
<1>2. CASE Gather
  BY <1>2, GatherKeepsR
<1>3. CASE Cancel
  BY <1>3, CancelKeepsR
<1>4. CASE Transport
  BY <1>4, BreaksKeepsR DEF Transport
<1>5. CASE \E r \in Requests : Arrive(r)
  BY <1>5, ArriveKeepsR
<1>6. CASE \E r \in Requests : Read(r)
  BY <1>6, EofKeepsR, ChunkKeepsR DEF Read
<1>7. CASE \E r \in Requests : TaskRaises(r)
  BY <1>7, TaskRaisesKeepsR
<1>8. CASE \E r \in Requests : \E s \in Scripts[r] : Send(r, s)
  BY <1>8, SendKeepsR
<1>9. CASE \E r \in Requests : \E oom \in BOOLEAN : HttpError(r, oom)
  BY <1>9, BreaksKeepsR
<1> QED
  BY <1>1, <1>2, <1>3, <1>4, <1>5, <1>6, <1>7, <1>8, <1>9 DEF Next

\* Of every request at every moment: its reading is that of its bytes in one
\* piece, and its record that of its reading.
THEOREM ResponsesInvariant == Spec => [](IInv /\ RInv)
<1>1. Init => IInv /\ RInv
  BY InitIInv, InitRInv
<1>2. IInv /\ RInv /\ [Next]_vars => IInv' /\ RInv'
  BY NextKeeps, NextKeepsR
<1> QED
  BY <1>1, <1>2, PTL DEF Spec

-----------------------------------------------------------------------------
(* The properties *)

\* A reading that concluded tells of all events of the response.
LEMMA ConcludedTells ==
  ASSUME RInv, NEW r \in Requests, Decodable(r)
  PROVE  /\ InOneGo(heard[r]).all \in Seq(Payloads)
         /\ InOneGo(heard[r]).soFar \in Seq(Payloads)
         /\ Tells(All(r), InOneGo(heard[r]).all)
         /\ Tells(SoFar(r), InOneGo(heard[r]).soFar)
         /\ All(r) \in Locals /\ SoFar(r) \in Locals /\ reading[r] \in Locals
<1>1. heard[r] \in Bytes /\ reading[r] \in Locals
  BY DEF RInv, ResponsesOK
<1>2. /\ InOneGo(heard[r]).all \in Seq(Payloads)
      /\ InOneGo(heard[r]).soFar \in Seq(Payloads)
      /\ All(r) \in Locals /\ SoFar(r) \in Locals
  BY <1>1, InOneGoIs DEF All, SoFar
<1> QED
  BY <1>1, <1>2, ReadingTells DEF All, SoFar

\* There is one event that ends the reading at most.
LEMMA EndsOnce ==
  ASSUME NEW a, NEW events, NEW n \in 0..Len(events), TellsUpTo(a, events, n),
         NEW k \in 1..Len(events), EndsAt(events, k), Len(events) \in Nat
  PROVE  k = n + 1 /\ ~Reads(a)
<1>1. k \notin 1..n
  BY DEF TellsUpTo, EndsAt
<1>2. ~Reads(a)
  BY <1>1 DEF TellsUpTo
<1>3. n + 1 \in 1..Len(events) /\ events[n + 1].type \notin {"delta", "blank"}
  BY <1>2 DEF TellsUpTo
<1>4. n + 1 \notin 1..(k - 1)
  BY <1>3 DEF EndsAt
<1> QED
  BY <1>1, <1>2, <1>3, <1>4

\* However HTTP cuts a response into chunks, send_request reads from it what
\* SSEDecoder would find in the bytes as one chunk, except for the times.
THEOREM FramingNeverMatters == Spec => []FramingIndependent
<1>1. RInv => FramingIndependent
  <2> SUFFICES ASSUME RInv, NEW r \in Requests, Undecodable \notin ToSet(heard[r])
               PROVE  /\ phase[r] = "streaming" => Untimed(reading[r]) = Untimed(SoFar(r))
                      /\ (phase[r] = "ended" /\ record[r] # NoRecord /\ FromStream(r)) =>
                           Untimed(reading[r]) = Untimed(All(r))
    BY DEF FramingIndependent, SoFar, All
  <2>1. Decodable(r)
    BY DEF Decodable
  <2>2. All(r) \in Locals /\ SoFar(r) \in Locals /\ reading[r] \in Locals
    BY <2>1, ConcludedTells
  <2>3. ASSUME phase[r] = "streaming" PROVE Untimed(reading[r]) = Untimed(SoFar(r))
    <3>1. Same(reading[r], SoFar(r))
      BY <2>3 DEF RInv, RequestOK, Following
    <3> QED
      BY <2>2, <3>1, SameIsUntimed
  <2>4. ASSUME phase[r] = "ended", record[r] # NoRecord, FromStream(r)
        PROVE  Untimed(reading[r]) = Untimed(All(r))
    <3>1. Same(reading[r], All(r))
      BY <2>4 DEF RInv, RequestOK, Dropped, Foreign, Concluded
    <3> QED
      BY <2>2, <3>1, SameIsUntimed
  <2> QED
    BY <2>3, <2>4
<1> QED
  BY <1>1, ResponsesInvariant, PTL

\* A request whose record says success, or has valid timestamps, was read to the end.
LEMMA SuccessConcluded ==
  ASSUME IInv, RInv, NEW r \in Requests, ~Unread(r)
  PROVE  /\ Decodable(r) /\ Same(reading[r], All(r))
         /\ reading[r].done /\ record[r].out = OutputCount(reading[r]) /\ record[r].out # None
         /\ record[r].first # None => Len(reading[r].events) > 0
         /\ record[r].valid => Valid(reading[r], record[r].out)
         /\ record[r].tokens = reading[r].tokens
         /\ Timely(record[r].sent, reading[r], record[r].fin)
<1>1. phase[r] = "ended"
  BY NoRecordIs DEF IInv, PhaseOK, RInv, RequestOK, Unread
<1>2. Concluded(r)
  BY <1>1 DEF RInv, RequestOK, Dropped
<1> QED
  BY <1>2 DEF Concluded, Stands, Unread

\* A record that says success stands for a response that reached [DONE] before any
\* error, and counts the tokens of its last usage or of the tokenizer
\* (_consume_event, _resolve_token_counts).
THEOREM SuccessIsAlwaysWhole == Spec => []SuccessIsWhole
<1>1. IInv /\ RInv => SuccessIsWhole
  <2> SUFFICES ASSUME IInv, RInv, NEW r \in Requests, record[r].status = "success",
                      NEW events, events = InOneGo(heard[r]).all
               PROVE  \E k \in DOMAIN events :
                        /\ events[k] = Done /\ EndsAt(events, k)
                        /\ \A j \in 1..k :
                             (events[j].out # None /\ \A i \in (j + 1)..k : events[i].out = None)
                               => \/ record[r].out = events[j].out
                                  \/ events[j].out = 0 /\ HasCounter
    BY DEF SuccessIsWhole
  <2>1. /\ Decodable(r) /\ Same(reading[r], All(r))
        /\ reading[r].done /\ record[r].out = OutputCount(reading[r]) /\ record[r].out # None
    BY SuccessConcluded DEF Unread
  <2>2. events \in Seq(Payloads) /\ Tells(All(r), events)
    BY <2>1, ConcludedTells
  <2>3. PICK n \in 0..Len(events) : TellsUpTo(All(r), events, n)
    BY <2>2 DEF Tells
  <2>4. All(r).done
    BY <2>1 DEF Same
  <2>5. n + 1 \in 1..Len(events) /\ events[n + 1].type = "done"
    BY <2>2, <2>3, <2>4 DEF TellsUpTo, Reads
  <2>6. PICK k \in 1..Len(events) : k = n + 1
    BY <2>5
  <2>7. events[k] \in Payloads /\ events[k].type = "done"
    BY <2>2, <2>5, <2>6
  <2>8. events[k] = Done /\ events[k].out = None
    BY <2>7, PayloadIs
  <2>9. EndsAt(events, k)
    <3>1. \A i \in 1..(k - 1) : i \in 1..n
      BY <2>6
    <3> QED
      BY <2>3, <2>7, <3>1 DEF EndsAt, TellsUpTo
  <2>10. ASSUME NEW j \in 1..k, events[j].out # None,
                \A i \in (j + 1)..k : events[i].out = None
         PROVE  record[r].out = events[j].out \/ (events[j].out = 0 /\ HasCounter)
    <3>1. j \in 1..n
      BY <2>6, <2>8, <2>10
    <3>2. \A i \in (j + 1)..n : events[i].out = None
      BY <2>6, <2>10
    <3>3. All(r).out = events[j].out
      BY <2>3, <2>10, <3>1, <3>2 DEF TellsUpTo
    <3>4. reading[r].out = events[j].out /\ reading[r].out # None
      BY <2>1, <2>10, <3>3 DEF Same
    <3>5. record[r].out = Corrected(reading[r].out, reading[r].text)
      BY <2>1, <3>4 DEF OutputCount
    <3> QED
      BY <2>1, <3>4, <3>5 DEF Corrected
  <2>11. DOMAIN events = 1..Len(events)
    BY <2>2
  <2> QED
    BY <2>8, <2>9, <2>10, <2>11
<1> QED
  BY <1>1, ResponsesInvariant, PTL

\* When send_request calls the token timestamps valid, there is one for each token
\* counted, none stands for text without ids, and they rise from the sending of
\* the request to its end.
THEOREM ItlIsAlwaysPerToken == Spec => []ItlIsPerToken
<1>1. IInv /\ RInv => ItlIsPerToken
  <2> SUFFICES ASSUME IInv, RInv, NEW r \in Requests, record[r].valid,
                      NEW events, events = InOneGo(heard[r]).all
               PROVE  /\ Len(record[r].tokens) = record[r].out
                      /\ Len(Read1(events).tokens) = record[r].out
                      /\ \A k \in DOMAIN events : EndsAt(events, k) =>
                           \A i \in 1..k : events[i].text > 0 => events[i].ids > 0
                      /\ Rising(<<record[r].sent>> \o record[r].tokens \o <<record[r].fin>>)
    BY DEF ItlIsPerToken
  <2>1. /\ Decodable(r) /\ Same(reading[r], All(r))
        /\ Valid(reading[r], record[r].out)
        /\ record[r].tokens = reading[r].tokens
        /\ Timely(record[r].sent, reading[r], record[r].fin)
    BY SuccessConcluded DEF Unread
  <2>2. events \in Seq(Payloads) /\ Tells(All(r), events) /\ reading[r] \in Locals
    BY <2>1, ConcludedTells
  <2>3. PICK n \in 0..Len(events) : TellsUpTo(All(r), events, n)
    BY <2>2 DEF Tells
  <2>4. ~All(r).sawBare
    BY <2>1 DEF Same, Valid
  <2>5. Len(record[r].tokens) = record[r].out
    BY <2>1 DEF Valid
  <2>6. Len(Read1(events).tokens) = record[r].out
    BY <2>1, <2>5 DEF Same, All
  <2>7. ASSUME NEW k \in DOMAIN events, EndsAt(events, k), NEW i \in 1..k, events[i].text > 0
        PROVE  events[i].ids > 0
    <3>1. k \in 1..Len(events) /\ Len(events) \in Nat
      BY <2>2
    <3>2. k = n + 1
      BY <2>3, <2>7, <3>1, EndsOnce
    <3>3. events[k] \in Payloads /\ events[k].type # "delta"
      BY <2>2, <2>7, <3>1 DEF EndsAt
    <3>4. events[k].text = 0
      BY <3>3, PayloadIs
    <3>5. i \in 1..n
      BY <2>7, <3>2, <3>4
    <3> QED
      BY <2>3, <2>4, <2>7, <3>5 DEF TellsUpTo
  <2>8. Rising(<<record[r].sent>> \o record[r].tokens \o <<record[r].fin>>)
    BY <2>1, <2>2, TimelyRises
  <2> QED
    BY <2>5, <2>6, <2>7, <2>8
<1> QED
  BY <1>1, ResponsesInvariant, PTL

\* With a TTFT threshold, compute_slo_goodput counts no more requests as good than
\* the engine sent text to, for any records and thresholds.
THEOREM GoodputIsAlwaysText == Spec => []GoodputIsText
<1>1. IInv /\ RInv => GoodputIsText
  <2> SUFFICES ASSUME IInv, RInv, stage = "scored", Slo.ttft # None
               PROVE  outcome.objective.good <= Cardinality({r \in Requests : SentText(r)})
    BY DEF GoodputIsText
  <2>1. PICK t, seen : outcome.objective = Reduced(record, t, seen)
    BY DEF IInv, OutcomeOK
  <2>2. DOMAIN record = Requests
    BY DEF IInv, RecordsOK
  <2>3. outcome.objective.good = Cardinality({r \in Requests : RequestGood(record[r])})
    BY <2>1, <2>2 DEF Reduced
  <2>4. ASSUME NEW r \in Requests, RequestGood(record[r])
        PROVE  SentText(r)
    <3>1. Successful(record[r]) /\ Violated("ttft", Ttft(record[r]), Scaled(Slo.ttft)) = {}
      BY <2>4 DEF RequestGood, RequestViolations
    <3>2. Scaled(Slo.ttft) # Missing
      <4>1. Slo.ttft \in Int /\ Slo.ttft >= Missing /\ Slo.ttft # Missing
        BY ObjectiveAssumption DEF None, Missing
      <4> QED
        BY <4>1, ScaledExists DEF Scaled
    <3>3. Ttft(record[r]) # Missing
      BY <3>1, <3>2 DEF Violated
    <3>4. record[r].first # None
      BY <3>3 DEF Ttft, None, Missing
    <3>5. /\ Decodable(r) /\ Same(reading[r], All(r))
          /\ Len(reading[r].events) > 0
      BY <3>1, <3>4, SuccessConcluded DEF Unread, Successful
    <3>6. PICK events \in Seq(Payloads) : events = InOneGo(heard[r]).all
      BY <3>5, ConcludedTells
    <3>7. PICK n \in 0..Len(events) : TellsUpTo(All(r), events, n)
      BY <3>5, <3>6, ConcludedTells DEF Tells
    <3>8. PICK i \in 1..n : events[i].text > 0
      BY <3>5, <3>7 DEF TellsUpTo, Same
    <3>9. events[i] \in ToSet(events)
      BY <3>8 DEF ToSet
    <3> QED
      BY <3>6, <3>8, <3>9 DEF SentText
  <2>5. {r \in Requests : RequestGood(record[r])} \subseteq {r \in Requests : SentText(r)}
    BY <2>4
  <2>6. IsFiniteSet({r \in Requests : SentText(r)})
    BY RequestsFinite, FS_Subset
  <2> QED
    BY <2>3, <2>5, <2>6, FS_Subset
<1> QED
  BY <1>1, ResponsesInvariant, PTL

\* With require_no_oom, an out of memory error in the readable part of any response
\* reaches evaluate_constraints and makes the trial infeasible.
THEOREM OomIsAlwaysInfeasible == Spec => []OomIsInfeasible
<1>1. IInv /\ RInv => OomIsInfeasible
  <2> SUFFICES ASSUME IInv, RInv, stage = "scored", Limits.oom, outcome.objective.feasible,
                      NEW r \in Requests, Undecodable \notin ToSet(heard[r]),
                      NEW events, events = InOneGo(heard[r]).soFar,
                      NEW k \in DOMAIN events, EndsAt(events, k)
               PROVE  ~events[k].oom
    BY DEF OomIsInfeasible
  <2>1. PICK t, seen : outcome.objective = Reduced(record, t, seen)
    BY DEF IInv, OutcomeOK
  <2>2. ~record[r].oom
    <3>1. ConstraintViolations(record, t, seen) = {}
      <4>1. Reduced(record, t, seen).feasible
        BY <2>1
      <4>2. Reduced(record, t, seen).feasible = (ConstraintViolations(record, t, seen) = {})
        BY DEF Reduced
      <4> QED
        BY <4>1, <4>2, Zenon
    <3>2. ~OomDetected(record, seen)
      BY <3>1 DEF ConstraintViolations
    <3>3. record[r] \in ToSet(record)
      BY DEF IInv, RecordsOK, ToSet
    <3> QED
      BY <3>2, <3>3 DEF OomDetected
  <2>3. Decodable(r)
    BY DEF Decodable
  <2>4. events \in Seq(Payloads) /\ k \in 1..Len(events) /\ Len(events) \in Nat
    BY <2>3, ConcludedTells
  <2>5. PICK n \in 0..Len(events) : TellsUpTo(SoFar(r), events, n)
    BY <2>3, ConcludedTells DEF Tells
  <2>6. k = n + 1 /\ ~Reads(SoFar(r))
    BY <2>4, <2>5, EndsOnce
  <2>7. phase[r] \in {"ended", "raised"}
    BY DEF IInv, OutcomeOK, AllEnded
  <2>8. phase[r] = "ended"
    <3>1. ASSUME Silent(r) PROVE FALSE
      <4>1. Reads(SoFar(r))
        BY <3>1, SilentFollows DEF Following, Same, Reads
      <4> QED
        BY <2>6, <4>1
    <3> QED
      BY <2>7, <3>1 DEF RInv, RequestOK
  <2>9. ~Dropped(r)
    BY <2>3, <2>6 DEF Dropped, Same, Reads
  <2>10. Concluded(r)
    BY <2>8, <2>9 DEF RInv, RequestOK
  <2>11. SoFar(r).oom = events[k].oom
    BY <2>5, <2>6 DEF TellsUpTo
  <2>12. All(r) = SoFar(r)
    BY <2>6, OverIsAll DEF RInv, ResponsesOK, All, SoFar
  <2>13. reading[r].oom = events[k].oom
    BY <2>10, <2>11, <2>12 DEF Concluded, Same
  <2>14. CASE record[r].oom = reading[r].oom
    BY <2>2, <2>13, <2>14
  <2>15. CASE reading[r].done
    <3>1. SoFar(r).done
      BY <2>10, <2>12, <2>15 DEF Concluded, Same
    <3>2. events[k].type = "done" /\ events[k] \in Payloads
      BY <2>4, <2>5, <2>6, <3>1 DEF TellsUpTo
    <3>3. events[k].oom = FALSE
      BY <3>2, PayloadIs
    <3> QED
      BY <3>3
  <2> QED
    BY <2>10, <2>14, <2>15 DEF Concluded, Stands
<1> QED
  BY <1>1, ResponsesInvariant, PTL

=============================================================================
