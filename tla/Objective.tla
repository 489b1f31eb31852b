----------------------------- MODULE Objective ------------------------------
(***************************************************************************)
(* What a set of request records is worth: the latencies of RequestResult  *)
(* (benchmarks/models.py), the aggregate of benchmarks/metrics.py, and the *)
(* goodput and hard constraints of tuning/objective.py.                    *)
(*                                                                         *)
(* A record is [status, error, oom, sent, first, fin, in, out, tokens,     *)
(* events, valid]; what is missing is -1.  Times are ticks; a latency is   *)
(* scaled by Scale so that the mean over the tokens is a whole number.     *)
(***************************************************************************)
EXTENDS Integers, Sequences, SequencesExt, FiniteSetsExt

CONSTANTS
  Slo,     \* [ttft, tpot, e2e]: thresholds in ticks, or None
  Limits,  \* [error (percent), oom, alive, vram, utilization, latency,
           \*  throughput]
  Scale    \* bound: a common multiple of the token counts less one

Missing == -1

ASSUME ObjectiveAssumption ==
  /\ Slo \in [ttft : Int, tpot : Int, e2e : Int]
  /\ \A k \in {"ttft", "tpot", "e2e"} : Slo[k] >= Missing
  /\ Limits.error \in 0..100 /\ {Limits.oom, Limits.alive} \subseteq BOOLEAN
  /\ {Limits.vram, Limits.utilization, Limits.latency, Limits.throughput}
       \subseteq Int
  /\ Scale \in Nat \ {0}

Successful(r) == r.status = "success"

-----------------------------------------------------------------------------
(* RequestResult: the latencies of one request *)

Span(a, b) == IF b >= a THEN b - a ELSE 0

Ttft(r) ==
  IF Missing \in {r.sent, r.first} THEN Missing ELSE Scale * Span(r.sent, r.first)
E2e(r) ==
  IF Missing \in {r.sent, r.fin} THEN Missing ELSE Scale * Span(r.sent, r.fin)
Tpot(r) ==
  IF Missing \in {r.first, r.fin} \/ r.out <= 1 THEN Missing
  ELSE (Scale * Span(r.first, r.fin)) \div (r.out - 1)

\* The gaps between tokens, when every token has a time of its own.
Itl(r) ==
  IF ~r.valid THEN <<>>
  ELSE [k \in 1..(Len(r.tokens) - 1) |-> Span(r.tokens[k], r.tokens[k + 1])]

-----------------------------------------------------------------------------
(* metrics.py: request_meets_slo and aggregate_request_results *)

Over(threshold, value) == value = Missing \/ value > Scale * threshold

MeetsSlo_NoDecodeFails(r) ==
  /\ Successful(r)
  /\ Slo.ttft # Missing => ~Over(Slo.ttft, Ttft(r))
  /\ Slo.e2e # Missing => ~Over(Slo.e2e, E2e(r))
  /\ Slo.tpot # Missing => ~Over(Slo.tpot, Tpot(r))

MeetsSlo(r) ==
  /\ Successful(r)
  /\ Slo.ttft # Missing => ~Over(Slo.ttft, Ttft(r))
  /\ Slo.e2e # Missing => ~Over(Slo.e2e, E2e(r))
  /\ Slo.tpot # Missing => ~Over(Slo.tpot, IF r.out <= 1 THEN 0 ELSE Tpot(r))

Completed(records) == {k \in DOMAIN records : Successful(records[k])}
Failures(records) == {k \in DOMAIN records : ~Successful(records[k])}
InputTokens(records) == MapThenSumSet(LAMBDA k : records[k].in, Completed(records))
OutputTokens(records) == MapThenSumSet(LAMBDA k : records[k].out, Completed(records))

Errors(records) ==
  [e \in {records[k].error : k \in Failures(records)} |->
     Cardinality({k \in Failures(records) : records[k].error = e})]

Aggregate(records) ==
  [num |-> Len(records),
   completed |-> Cardinality(Completed(records)),
   failed |-> Cardinality(Failures(records)),
   errors |-> Errors(records),
   in |-> InputTokens(records), out |-> OutputTokens(records),
   good |-> Cardinality({k \in DOMAIN records : MeetsSlo(records[k])}),
   itls |-> FlattenSeq([k \in DOMAIN records |->
              IF Successful(records[k]) THEN Itl(records[k]) ELSE <<>>])]

-----------------------------------------------------------------------------
(* objective.py: evaluate_request_slo and evaluate_constraints *)

\* A latency that does not exist counts as zero for one token only.
ObservedTpot(r) ==
  IF Tpot(r) = Missing /\ Successful(r) /\ r.out <= 1 THEN 0 ELSE Tpot(r)

Violated_MissingPasses(name, observed, threshold) ==
  IF Missing \in {threshold, observed} \/ observed <= threshold THEN {}
  ELSE {<<"over", name>>}

Violated(name, observed, threshold) ==
  IF threshold = Missing THEN {}
  ELSE IF observed = Missing THEN {<<"missing", name>>}
  ELSE IF observed > threshold THEN {<<"over", name>>}
  ELSE {}
Scaled(threshold) == IF threshold = Missing THEN Missing ELSE Scale * threshold

RequestViolations(r) ==
  (IF Successful(r) THEN {} ELSE {<<"request_failed", "">>})
    \cup Violated("ttft", Ttft(r), Scaled(Slo.ttft))
    \cup Violated("tpot", ObservedTpot(r), Scaled(Slo.tpot))
    \cup Violated("e2e", E2e(r), Scaled(Slo.e2e))

RequestGood(r) == RequestViolations(r) = {}

\* The samples of a latency; requests without one drop out.
Samples(records, Of(_)) ==
  LET Has(v) == v # Missing
      good == SelectSeq(records, Successful)
  IN SelectSeq([k \in DOMAIN good |-> Of(good[k])], Has)

\* numpy's linear interpolation at 0.99 (n - 1), a hundredfold.
P99(s) ==
  LET v == SortSeq(s, LAMBDA a, b : a < b)
      place == 99 * (Len(v) - 1)
      k == place \div 100 + 1
  IN 100 * v[k] + (IF k = Len(v) THEN 0 ELSE (place % 100) * (v[k + 1] - v[k]))

P99Violation(name, s, threshold) ==
  IF threshold = Missing THEN {}
  ELSE IF s = <<>> THEN {<<"missing_p99", name>>}
  ELSE IF P99(s) > 100 * Scale * threshold THEN {<<"p99", name>>}
  ELSE {}

TpotSample(r) == IF r.out <= 1 THEN 0 ELSE Tpot(r)

\* max of the two sources of out-of-memory evidence.
OomDetected(records, seen) ==
  seen.oom \/ \E r \in ToSet(records) : r.oom

\* seen is what telemetry and server say at the end: [oom, peak, utilization,
\* alive].
ConstraintViolations(records, seconds, seen) ==
  LET failures == Cardinality(Failures(records))
      completed == Cardinality(Completed(records))
      e2es == Samples(records, E2e)
      If(p, name) == IF p THEN {<<name, "">>} ELSE {}
  IN If(IF records = <<>> THEN Limits.error < 100
        ELSE 100 * failures > Limits.error * Len(records), "error_rate")
     \cup If(Limits.oom /\ OomDetected(records, seen), "oom")
     \cup If(Limits.alive /\ ~seen.alive, "server_exit")
     \cup Violated("peak_vram", seen.peak, Limits.vram)
     \cup Violated("memory_utilization", seen.utilization, Limits.utilization)
     \cup If(Limits.throughput # Missing /\ completed < Limits.throughput * seconds,
             "throughput_min")
     \cup (IF Limits.latency = Missing THEN {}
           ELSE If(e2es = <<>>, "missing_max_latency")
                  \cup If(\E v \in ToSet(e2es) : v > Scale * Limits.latency,
                          "max_latency"))
     \cup P99Violation("ttft", Samples(records, Ttft), Slo.ttft)
     \cup P99Violation("tpot", Samples(records, TpotSample), Slo.tpot)
     \cup P99Violation("e2e", e2es, Slo.e2e)

\* compute_slo_goodput
Reduced(records, seconds, seen) ==
  LET violations == ConstraintViolations(records, seconds, seen) IN
  [good |-> Cardinality({k \in DOMAIN records : RequestGood(records[k])}),
   completed |-> Cardinality(Completed(records)),
   failed |-> Len(records) - Cardinality(Completed(records)),
   in |-> InputTokens(records), out |-> OutputTokens(records),
   violations |-> violations,
   feasible |-> violations = {}]

=============================================================================
