--------------------------- MODULE RequestStream ----------------------------
(***************************************************************************)
(* The streaming benchmark: SSEBenchmarkClient.send_request of             *)
(* benchmarks/sse_client.py for every request of a trace, the tasks and the*)
(* semaphore around it (_run_fixed_trace_sse of runtime/controller.py, the *)
(* loop of SSEBenchmarkClient.run with the arrival times of a trace), the  *)
(* warmup before it and the reduction after it.                            *)
(*                                                                         *)
(* The engine answers with any of Scripts, cut into chunks anywhere; a     *)
(* response may also be an HTTP error, break off, time out or be cancelled.*)
(* Between two awaits a task is not interrupted: all events of a chunk are *)
(* one step.                                                               *)
(***************************************************************************)
EXTENDS SSEDecoder, Objective

CONSTANTS
  Requests,       \* 1..n, the specs of the trace in order
  Offset,         \* Offset[r]: the scheduled arrival
  Prompt,         \* Prompt[r]: input_tokens of the spec, or None
  Scripts,        \* Scripts[r]: the byte strings the engine may answer
  Faults,         \* Faults[r]: how its connection may fail
  MaxConcurrency, \* workload.max_concurrency
  Warmups,        \* workload.warmup_requests
  HasCounter,     \* a tokenizer is loaded
  Readings,       \* [oom, peak, utilization, alive] at the end of the window
  MaxClock        \* bound: ticks of the clock

ASSUME StreamAssumption ==
  /\ IsFiniteSet(Requests) /\ Requests = 1..Cardinality(Requests)
  /\ \A r \in Requests : Offset[r] \in Nat /\ Prompt[r] \in Nat \cup {None}
  /\ \A r \in Requests : \A s \in Scripts[r] : s \in Seq(Symbols)
  /\ \A r \in Requests : Faults[r] \subseteq {"timeout", "transport_error"}
  /\ MaxConcurrency \in Nat \ {0} /\ Warmups \in Nat
  /\ HasCounter \in BOOLEAN /\ MaxClock \in Nat

VARIABLES
  now,      \* the clock
  stage,    \* what the benchmark does
  warmed,   \* the outcomes of the warmup requests
  phase,    \* phase[r]: waiting, queued, streaming, ended
  queue,    \* the tasks waiting for the semaphore, in order
  slots,    \* the value of the semaphore
  wire,     \* wire[r]: the bytes of the response still to come
  heard,    \* heard[r]: the bytes that came (history)
  decoder,  \* decoder[r]: the SSEDecoder of the response
  reading,  \* reading[r]: the locals of send_request
  sent,     \* sent[r]: sent_at
  record,   \* record[r]: the RequestResult
  outcome   \* what the trial gets: the aggregate and the objective

response == <<wire, heard, decoder, reading>>
vars == <<now, stage, warmed, phase, queue, slots, response, sent, record, outcome>>

NoRecord ==
  [status |-> "none", error |-> "none", oom |-> FALSE, sent |-> None,
   first |-> None, fin |-> None, in |-> 0, out |-> 0, tokens |-> <<>>,
   events |-> <<>>, valid |-> FALSE]
NoReading ==
  [tokens |-> <<>>, events |-> <<>>, text |-> 0, sawIds |-> FALSE,
   sawBare |-> FALSE, in |-> None, out |-> None, done |-> FALSE,
   error |-> "none", oom |-> FALSE]
NoOutcome == [aggregate |-> Aggregate(<<>>), objective |-> <<>>]

-----------------------------------------------------------------------------
(* send_request: what one response is worth *)

\* _consume_event at time t.  Nothing is read after [DONE] or an error.
ConsumeEvent(a, p, t) ==
  IF a.done \/ a.error # "none" THEN a
  ELSE IF p.type = "done" THEN [a EXCEPT !.done = TRUE]
  ELSE IF p.type = "blank" THEN a
  ELSE IF p.type # "delta" THEN [a EXCEPT !.error = p.type, !.oom = p.oom]
  ELSE [a EXCEPT !.in = IF p.in # None THEN p.in ELSE @,
                 !.out = IF p.out # None THEN p.out ELSE @,
                 !.text = @ + p.text,
                 !.events = IF p.text > 0 THEN Append(@, t) ELSE @,
                 !.sawBare = @ \/ (p.text > 0 /\ p.ids = 0),
                 !.sawIds = @ \/ p.ids > 0,
                 !.tokens = @ \o [i \in 1..p.ids |-> t]]

ConsumeAll(a, events, t) == FoldLeft(LAMBDA b, p : ConsumeEvent(b, p, t), a, events)

\* _resolve_token_counts: usage before the spec before the tokenizer, and the
\* tokenizer again where usage says zero.  strict_token_count is set.
Corrected(count, there) ==
  IF count = 0 /\ there > 0 THEN IF HasCounter THEN there ELSE None ELSE count

InputCount(r, a) ==
  LET promptTokens == IF Prompt[r] = None THEN 1 ELSE Prompt[r] IN
  Corrected(IF a.in # None THEN a.in
            ELSE IF Prompt[r] # None THEN Prompt[r]
            ELSE IF HasCounter THEN promptTokens ELSE None, promptTokens)

OutputCount(a) ==
  Corrected(IF a.out # None THEN a.out
            ELSE IF HasCounter THEN a.text ELSE None, a.text)

FailedRecord_KindOnly(r, a, error) ==
  [NoRecord EXCEPT
     !.status = IF error = "timeout" THEN "timeout" ELSE "failed",
     !.error = error, !.sent = sent[r],
     !.first = IF a.events = <<>> THEN None ELSE a.events[1], !.fin = now,
     !.in = IF Prompt[r] = None THEN 0 ELSE Prompt[r],
     !.tokens = a.tokens, !.events = a.events]

FailedRecord(r, a, error) ==
  [NoRecord EXCEPT
     !.status = IF error = "timeout" THEN "timeout" ELSE "failed",
     !.error = error, !.oom = a.oom, !.sent = sent[r],
     !.first = IF a.events = <<>> THEN None ELSE a.events[1], !.fin = now,
     !.in = IF Prompt[r] = None THEN 0 ELSE Prompt[r],
     !.tokens = a.tokens, !.events = a.events]

Valid_Unchecked(a, out) == a.sawIds /\ Len(a.tokens) = out

\* token_timestamps_valid
Valid(a, out) == a.sawIds /\ ~a.sawBare /\ Len(a.tokens) = out

Judged_DoneOptional(r, a) ==
  [NoRecord EXCEPT
     !.status = "success", !.sent = sent[r],
     !.first = IF a.events = <<>> THEN None ELSE a.events[1], !.fin = now,
     !.in = InputCount(r, a), !.out = OutputCount(a),
     !.tokens = a.tokens, !.events = a.events,
     !.valid = Valid(a, OutputCount(a))]

\* After [DONE], or after the end of the response.
Judged(r, a) ==
  IF ~a.done THEN FailedRecord(r, a, "protocol_error")
  ELSE IF None \in {InputCount(r, a), OutputCount(a)}
    THEN FailedRecord(r, a, "token_count_error")
  ELSE [NoRecord EXCEPT
          !.status = "success", !.sent = sent[r],
          !.first = IF a.events = <<>> THEN None ELSE a.events[1], !.fin = now,
          !.in = InputCount(r, a), !.out = OutputCount(a),
          !.tokens = a.tokens, !.events = a.events,
          !.valid = Valid(a, OutputCount(a))]

-----------------------------------------------------------------------------
Init ==
  /\ now = 0 /\ stage = "warmup" /\ warmed = <<>>
  /\ phase = [r \in Requests |-> "waiting"] /\ queue = <<>>
  /\ slots = MaxConcurrency
  /\ wire = [r \in Requests |-> <<>>] /\ heard = [r \in Requests |-> <<>>]
  /\ decoder = [r \in Requests |-> FreshDecoder]
  /\ reading = [r \in Requests |-> NoReading]
  /\ sent = [r \in Requests |-> None]
  /\ record = [r \in Requests |-> NoRecord] /\ outcome = NoOutcome

\* One after the other, each awaited; the failures are looked at afterwards.
Warmup(status) ==
  /\ stage = "warmup" /\ Len(warmed) < Warmups
  /\ warmed' = Append(warmed, status)
  /\ UNCHANGED <<now, stage, phase, queue, slots, response, sent, record, outcome>>

EndWarmup ==
  /\ stage = "warmup" /\ Len(warmed) = Warmups
  /\ stage' = IF ToSet(warmed) \subseteq {"success"} THEN "measure" ELSE "aborted"
  /\ UNCHANGED <<now, warmed, phase, queue, slots, response, sent, record, outcome>>

\* The task slept until the arrival of its request.
Arrive(r) ==
  /\ stage = "measure" /\ phase[r] = "waiting" /\ now >= Offset[r]
  /\ phase' = [phase EXCEPT ![r] = "queued"] /\ queue' = Append(queue, r)
  /\ UNCHANGED <<now, stage, warmed, slots, response, sent, record, outcome>>

Send_Unlimited(r, script) ==
  /\ queue # <<>> /\ r = Head(queue) /\ slots > 0
  /\ queue' = Tail(queue)
  /\ phase' = [phase EXCEPT ![r] = "streaming"]
  /\ sent' = [sent EXCEPT ![r] = now] /\ wire' = [wire EXCEPT ![r] = script]
  /\ UNCHANGED <<now, stage, warmed, slots, heard, decoder, reading, record, outcome>>

\* It got the semaphore and sent the request.
Send(r, script) ==
  /\ queue # <<>> /\ r = Head(queue) /\ slots > 0
  /\ queue' = Tail(queue) /\ slots' = slots - 1
  /\ phase' = [phase EXCEPT ![r] = "streaming"]
  /\ sent' = [sent EXCEPT ![r] = now] /\ wire' = [wire EXCEPT ![r] = script]
  /\ UNCHANGED <<now, stage, warmed, heard, decoder, reading, record, outcome>>

End_KeepsSlot(r, result) ==
  /\ phase' = [phase EXCEPT ![r] = "ended"]
  /\ record' = [record EXCEPT ![r] = result]
  /\ slots' = IF result.status = "success" THEN slots + 1 ELSE slots
  /\ UNCHANGED <<now, stage, warmed, queue, sent, outcome>>

\* send_request returns, and the task leaves the semaphore.
End(r, result) ==
  /\ phase' = [phase EXCEPT ![r] = "ended"]
  /\ record' = [record EXCEPT ![r] = result]
  /\ slots' = slots + 1
  /\ UNCHANGED <<now, stage, warmed, queue, sent, outcome>>

Continue == UNCHANGED <<now, stage, warmed, phase, queue, slots, sent, record, outcome>>

HttpError(r, oom) ==
  /\ phase[r] = "streaming" /\ heard[r] = <<>>
  /\ End(r, FailedRecord(r, [NoReading EXCEPT !.oom = oom], "http_error"))
  /\ UNCHANGED response

\* The first n bytes that are on the wire arrive as one chunk.
Chunk(r, n) ==
  /\ phase[r] = "streaming" /\ n \in 1..Len(wire[r])
  /\ LET chunk == SubSeq(wire[r], 1, n)
         fed == Feed(decoder[r], chunk)
         a == ConsumeAll(reading[r], fed.events, now) IN
     /\ wire' = [wire EXCEPT ![r] = SubSeq(@, n + 1, Len(@))]
     /\ heard' = [heard EXCEPT ![r] = @ \o chunk]
     /\ IF Undecodable \in ToSet(chunk)
          THEN /\ End(r, FailedRecord(r, reading[r], "client_error"))
               /\ UNCHANGED <<decoder, reading>>
          ELSE /\ decoder' = [decoder EXCEPT ![r] = fed.decoder]
               /\ reading' = [reading EXCEPT ![r] = a]
               /\ IF a.error # "none" THEN End(r, FailedRecord(r, a, a.error))
                  ELSE IF a.done THEN End(r, Judged(r, a))
                  ELSE Continue

\* The response is over: what the decoder still holds, and the judgement.
Eof(r) ==
  /\ phase[r] = "streaming" /\ wire[r] = <<>>
  /\ LET a == ConsumeAll(reading[r], Close(decoder[r]), now) IN
     /\ reading' = [reading EXCEPT ![r] = a]
     /\ End(r, IF a.error # "none" THEN FailedRecord(r, a, a.error) ELSE Judged(r, a))
  /\ UNCHANGED <<wire, heard, decoder>>

\* A read times out, or the connection breaks.
Raise(r, error) ==
  /\ phase[r] = "streaming"
  /\ End(r, FailedRecord(r, reading[r], error))
  /\ UNCHANGED response

\* send_request raises, which it does only outside its try.
TaskRaises(r) ==
  /\ queue # <<>> /\ r = Head(queue) /\ slots > 0
  /\ queue' = Tail(queue)
  /\ phase' = [phase EXCEPT ![r] = "raised"]
  /\ UNCHANGED <<now, stage, warmed, slots, response, sent, record, outcome>>

Tick ==
  /\ stage = "measure" /\ now < MaxClock
  /\ now' = now + 1
  /\ UNCHANGED <<stage, warmed, phase, queue, slots, response, sent, record, outcome>>

AllEnded == \A r \in Requests : phase[r] \in {"ended", "raised"}

\* gather has every outcome; a task that raised gets a record of its own.
Gather ==
  /\ stage = "measure" /\ AllEnded
  /\ LET Final(r) ==
           IF phase[r] = "raised"
             THEN [NoRecord EXCEPT !.status = "failed", !.error = "task_exception",
                                   !.fin = now,
                                   !.in = IF Prompt[r] = None THEN 0 ELSE Prompt[r]]
             ELSE record[r]
     IN record' = [r \in Requests |-> Final(r)]
  /\ stage' = "gathered"
  /\ outcome' = [outcome EXCEPT !.aggregate = Aggregate(record')]
  /\ UNCHANGED <<now, warmed, phase, queue, slots, response, sent>>

\* The trial reduces the records with what telemetry and server say.  A window
\* of no length is refused.
Score(seen) ==
  /\ stage = "gathered"
  /\ IF now = 0 THEN stage' = "aborted" /\ UNCHANGED outcome
     ELSE /\ stage' = "scored"
          /\ outcome' = [outcome EXCEPT !.objective =
                           Reduced(record, now, seen)]
  /\ UNCHANGED <<now, warmed, phase, queue, slots, response, sent, record>>

\* The experiment timeout: gather cancels every task and waits for them.
Cancel ==
  /\ stage \in {"warmup", "measure"}
  /\ stage' = "cancelled" /\ queue' = <<>> /\ slots' = MaxConcurrency
  /\ phase' = [r \in Requests |-> "ended"]
  /\ UNCHANGED <<now, warmed, response, sent, record, outcome>>

Transport == \E r \in Requests : \E e \in Faults[r] : Raise(r, e)
Read(r) == Eof(r) \/ \E n \in 1..Len(wire[r]) : Chunk(r, n)

WarmUp == \E s \in {"success", "failed"} : Warmup(s)

Next ==
  \/ WarmUp
  \/ EndWarmup \/ Tick \/ Gather \/ Cancel \/ Transport
  \/ \E r \in Requests :
       \/ Arrive(r) \/ Read(r) \/ TaskRaises(r)
       \/ \E s \in Scripts[r] : Send(r, s)
       \/ \E oom \in BOOLEAN : HttpError(r, oom)
  \/ \E seen \in Readings : Score(seen)

Fairness ==
  /\ WF_vars(WarmUp) /\ WF_vars(EndWarmup) /\ WF_vars(Tick) /\ WF_vars(Gather)
  /\ \A r \in Requests :
       /\ WF_vars(Arrive(r)) /\ WF_vars(Read(r))
       /\ WF_vars(\E s \in Scripts[r] : Send(r, s))

Spec == Init /\ [][Next]_vars /\ Fairness

-----------------------------------------------------------------------------
(* Properties *)

TypeOK ==
  /\ now \in 0..MaxClock
  /\ stage \in {"warmup", "measure", "aborted", "cancelled", "gathered", "scored"}
  /\ phase \in [Requests -> {"waiting", "queued", "streaming", "ended", "raised"}]
  /\ \A r \in Requests : phase[r] = "queued" <=> r \in ToSet(queue)
  /\ slots \in 0..MaxConcurrency
  /\ slots + Cardinality({r \in Requests : phase[r] = "streaming"}) = MaxConcurrency

\* The bytes of a response in one piece.
InOneGo(bytes) ==
  LET fed == Feed(FreshDecoder, bytes) IN
  [soFar |-> fed.events, all |-> fed.events \o Close(fed.decoder)]
Untimed(a) == [a EXCEPT !.tokens = Len(@), !.events = Len(@)]
Read1(events) == ConsumeAll(NoReading, events, 0)

FromStream(r) ==
  record[r].error \in {"none", "protocol_error", "token_count_error",
                       "invalid_json", "invalid_event", "server_error"}

\* What is read from a response depends on its bytes alone, never on where the
\* chunks end (the buffer of feed, the last line that close flushes).
FramingIndependent ==
  \A r \in Requests : Undecodable \notin ToSet(heard[r]) =>
    /\ phase[r] = "streaming" =>
         Untimed(reading[r]) = Untimed(Read1(InOneGo(heard[r]).soFar))
    /\ (phase[r] = "ended" /\ record[r] # NoRecord /\ FromStream(r)) =>
         Untimed(reading[r]) = Untimed(Read1(InOneGo(heard[r]).all))

\* The k-th event is the first that ends the reading of a response.
EndsAt(events, k) ==
  /\ events[k].type \notin {"delta", "blank"}
  /\ \A i \in 1..(k - 1) : events[i].type \in {"delta", "blank"}

\* A request succeeds only if the engine sent [DONE], nothing before it was an
\* error, and its tokens are those of the last usage or of the tokenizer.
SuccessIsWhole ==
  \A r \in Requests : record[r].status = "success" =>
    LET events == InOneGo(heard[r]).all IN
    \E k \in DOMAIN events :
      /\ events[k] = Done /\ EndsAt(events, k)
      /\ \A j \in 1..k :
           (events[j].out # None /\ \A i \in (j + 1)..k : events[i].out = None)
             => \/ record[r].out = events[j].out
                \/ events[j].out = 0 /\ HasCounter

\* When token timestamps count as valid, there is one for each token the engine
\* sent and the record counts, no text came without its token ids, and the times
\* run from the sending of the request to its end.
Rising(s) == \A i \in 1..(Len(s) - 1) : s[i] <= s[i + 1]
ItlIsPerToken ==
  \A r \in Requests : record[r].valid =>
    LET events == InOneGo(heard[r]).all IN
    /\ Len(record[r].tokens) = record[r].out
    /\ Len(Read1(events).tokens) = record[r].out
    /\ \A k \in DOMAIN events : EndsAt(events, k) =>
         \A i \in 1..k : events[i].text > 0 => events[i].ids > 0
    /\ Rising(<<record[r].sent>> \o record[r].tokens \o <<record[r].fin>>)

\* The goodput of the aggregate (metrics.py) and of the objective (objective.py)
\* are two computations of one number, whatever failed or stayed empty.
GoodputsAgree ==
  stage = "scored" =>
    /\ outcome.objective.good = outcome.aggregate.good
    /\ outcome.objective.completed = outcome.aggregate.completed
    /\ outcome.objective.failed = outcome.aggregate.failed
    /\ outcome.objective.out = outcome.aggregate.out

\* Goodput counts only requests the engine sent text to: a request without a
\* sample passes no threshold, although it drops out of the p99 (with
\* slo.ttft_ms set).
SentText(r) == \E p \in ToSet(InOneGo(heard[r]).all) : p.text > 0
GoodputIsText ==
  (stage = "scored" /\ Slo.ttft # None) =>
    outcome.objective.good <= Cardinality({r \in Requests : SentText(r)})

\* An engine that reports out of memory in any response makes the trial
\* infeasible, whatever became of that request (with require_no_oom): unless its
\* bytes could not be decoded, or the reading had ended before.
OomIsInfeasible ==
  (stage = "scored" /\ Limits.oom /\ outcome.objective.feasible) =>
    \A r \in Requests : Undecodable \notin ToSet(heard[r]) =>
      LET events == InOneGo(heard[r]).soFar IN
      \A k \in DOMAIN events : EndsAt(events, k) => ~events[k].oom

\* The benchmark comes to an end, however its requests end.
RunEnds == <>(stage \in {"aborted", "cancelled", "gathered", "scored"})

\* "zero totals are not accepted as credible evidence"
SuccessHasTokens ==
  \A r \in Requests : record[r].status = "success" => record[r].out > 0

=============================================================================
