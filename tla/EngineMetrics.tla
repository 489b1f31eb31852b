---------------------------- MODULE EngineMetrics ----------------------------
(* How src/vllm_tuner/profiling/prometheus.py reads a vLLM /metrics page: one  *)
(* canonical value per metric from versioned names and labelled series, and    *)
(* the reduction of a window of such readings.  A sample of a page is          *)
(* [name, part, le, engine, value]: "part" tells a plain series from the       *)
(* _bucket and _count series of a histogram, "le" is the bound of a bucket.    *)
EXTENDS TimeSeries

CONSTANTS Bounds,   \* upper bounds of the finite buckets of the histogram
          Inf       \* the bound of the +Inf bucket

ASSUME BoundsAssumption ==
  /\ Bounds \subseteq Nat \ {0} /\ Bounds # {} /\ IsFiniteSet(Bounds)
  /\ Inf \in Nat
  /\ \A b \in Bounds : b < Inf

AllBounds == Bounds \cup {Inf}

GaugeMetrics == {"num_requests_running", "kv_cache_usage_perc"}
CounterMetrics ==
  {"num_preemptions_total", "prompt_tokens_total", "generation_tokens_total"}
Ttft == "time_to_first_token_seconds"

(* Two of the names each metric was exported under, the preferred one first. *)
Aliases ==
  [num_requests_running |->
     <<"vllm:num_requests_running", "vllm_num_requests_running">>,
   kv_cache_usage_perc |->
     <<"vllm:kv_cache_usage_perc", "vllm:gpu_cache_usage_perc">>,
   num_preemptions_total |->
     <<"vllm:num_preemptions_total", "vllm:num_preemptions">>,
   prompt_tokens_total |->
     <<"vllm:prompt_tokens_total", "vllm_prompt_tokens_total">>,
   generation_tokens_total |->
     <<"vllm:generation_tokens_total", "vllm_generation_tokens_total">>,
   time_to_first_token_seconds |->
     <<"vllm:time_to_first_token_seconds", "vllm_time_to_first_token_seconds">>]

(* The samples under the first name the page has: a page with the current and *)
(* the legacy name is not counted twice.                                       *)
SelectAlias(page, names) ==
  LET exported == {i \in DOMAIN names : \E s \in page : s.name = names[i]}
  IN  IF exported = {} THEN {} ELSE {s \in page : s.name = names[Min(exported)]}

Finite(samples) == {s \in samples : s.value # Missing}

FiniteSum(samples) ==
  IF Finite(samples) = {} THEN Missing
  ELSE SumFunction([s \in Finite(samples) |-> s.value])

(* KV pressure is the fullest series, everything else adds up. *)
Canonical(page, metric) ==
  LET finite == Finite(SelectAlias(page, Aliases[metric]))
  IN  CASE finite = {} -> Missing
        [] finite # {} /\ metric = "kv_cache_usage_perc" -> Max({s.value : s \in finite})
        [] OTHER -> FiniteSum(finite)

NoHistogram == [count |-> Missing, buckets |-> <<>>]

(* A histogram without a _count series is counted by its +Inf bucket. *)
HistogramValue(page) ==
  LET selected == SelectAlias(page, Aliases[Ttft])
      bucket(b) == {s \in selected : s.part = "bucket" /\ s.le = b}
      bounds == {b \in AllBounds : Finite(bucket(b)) # {}}
      buckets == [b \in bounds |-> FiniteSum(bucket(b))]
      count == FiniteSum({s \in selected : s.part = "count"})
  IN  [count |-> IF count = Missing /\ Inf \in bounds THEN buckets[Inf] ELSE count,
       buckets |-> buckets]

(* A window of histograms.  The count tells a reset; a bucket that shrank      *)
(* without one contributes nothing.                                            *)
IsReset_Never(before, after) == FALSE

IsReset(before, after) ==
  before.count # Missing /\ after.count # Missing /\ after.count < before.count

Contribution(before, after, b) ==
  IF IsReset(before, after) THEN after.buckets[b]
  ELSE Max({0, after.buckets[b] - before.buckets[b]})

Counted(before, after) ==
  IF IsReset(before, after) THEN after.count ELSE after.count - before.count

(* Bound by bound, what the steps that have the bound at both ends contribute. *)
Contributions(values, seen, b) ==
  LET both == {i \in Later(seen) : /\ b \in DOMAIN values[i].buckets
                                   /\ b \in DOMAIN values[Previous(seen, i)].buckets}
  IN  [i \in both |-> Contribution(values[Previous(seen, i)], values[i], b)]

HistogramDelta(values) ==
  LET seen == Read(values, NoHistogram)
      prior(i) == values[Previous(seen, i)]
      counted == \A i \in seen : values[i].count # Missing
      bounds == {b \in AllBounds : DOMAIN Contributions(values, seen, b) # {}}
  IN  IF Later(seen) = {}
        THEN [available |-> FALSE, count |-> Missing, buckets |-> <<>>, resets |-> 0]
        ELSE [available |-> counted \/ bounds # {},
              count |-> IF ~counted THEN Missing
                        ELSE SumFunction([i \in Later(seen) |-> Counted(prior(i), values[i])]),
              buckets |-> [b \in bounds |-> SumFunction(Contributions(values, seen, b))],
              resets |-> Cardinality({i \in Later(seen) : IsReset(prior(i), values[i])})]

Scale == 100  \* an interpolated bound, in hundredths

Quantile_OverflowInterpolated(num, den, buckets) ==
  LET bounds == DOMAIN buckets
      target == buckets[Max(bounds)] * num
      hit == Min({b \in bounds : buckets[b] * den >= target})
      below == {b \in bounds : b < hit}
      previousBound == IF below = {} THEN 0 ELSE Max(below)
      previousCount == IF below = {} THEN 0 ELSE buckets[Max(below)]
      inside == buckets[hit] - previousCount
  IN  IF bounds = {} \/ buckets[Max(bounds)] = 0 THEN Missing
      ELSE IF inside <= 0 THEN hit * Scale
      ELSE previousBound * Scale
             + ((hit - previousBound) * Scale * (target - previousCount * den))
               \div (inside * den)

(* The bound below which num/den of the observations fall, interpolated within *)
(* the first bucket that reaches the target; an observation beyond every       *)
(* finite bound is reported as the last finite one.                            *)
Quantile(num, den, buckets) ==
  LET bounds == DOMAIN buckets
      target == buckets[Max(bounds)] * num
      hit == Min({b \in bounds : buckets[b] * den >= target})
      below == {b \in bounds : b < hit}
      previousBound == IF below = {} THEN 0 ELSE Max(below)
      previousCount == IF below = {} THEN 0 ELSE buckets[Max(below)]
      inside == buckets[hit] - previousCount
  IN  IF bounds = {} \/ buckets[Max(bounds)] = 0 THEN Missing
      ELSE IF hit = Inf
        THEN IF previousCount > 0 THEN previousBound * Scale ELSE Missing
      ELSE IF inside <= 0 THEN hit * Scale
      ELSE previousBound * Scale
             + ((hit - previousBound) * Scale * (target - previousCount * den))
               \div (inside * den)

=============================================================================
