----------------------------- MODULE TimeSeries -----------------------------
(* The reductions of src/vllm_tuner/profiling/timeseries.py: what a window of  *)
(* samples says of a gauge, of a cumulative counter and of a power sensor.     *)
(* A reading that could not be taken, or is not finite, is Missing.            *)
EXTENDS Integers, Sequences, FiniteSetsExt, Functions

CONSTANT Missing

ASSUME MissingIsNoReading == Missing \notin Int \cup (Int \X Int)

(* Where something was read; of those, the ones after the first, and the one   *)
(* just before such a one.                                                     *)
Read(values, nothing) == {i \in DOMAIN values : values[i] # nothing}
Later(S) == {i \in S : \E j \in S : j < i}
Previous(S, i) == Max({j \in S : j < i})

(* The mean is kept as total over count. *)
Summary(values) ==
  LET seen == Read(values, Missing)
  IN  [available |-> seen # {}, count |-> Cardinality(seen),
       total |-> SumFunctionOnSet(values, seen),
       peak |-> IF seen = {} THEN Missing ELSE Max({values[i] : i \in seen})]

Drops(values, S) == {i \in Later(S) : values[i] < values[Previous(S, i)]}

(* The first value after a decrease is the contribution since the reset. *)
Growth(values, S) ==
  [i \in Later(S) |-> IF i \in Drops(values, S) THEN values[i]
                      ELSE values[i] - values[Previous(S, i)]]

CounterDelta_FromZero(values) ==
  LET seen == Read(values, Missing)
  IN  IF Later(seen) = {}
        THEN [available |-> FALSE, delta |-> Missing, resets |-> 0]
        ELSE [available |-> TRUE,
              delta |-> values[Min(seen)] + SumFunction(Growth(values, seen)),
              resets |-> Cardinality(Drops(values, seen))]

CounterDelta(values) ==
  LET seen == Read(values, Missing)
  IN  IF Later(seen) = {}
        THEN [available |-> FALSE, delta |-> Missing, resets |-> 0]
        ELSE [available |-> TRUE, delta |-> SumFunction(Growth(values, seen)),
              resets |-> Cardinality(Drops(values, seen))]

(* Two samples with none between them.  Samples are a set: each has its time. *)
Adjacent(samples, s, t) ==
  s.at < t.at /\ \A u \in samples : ~(s.at < u.at /\ u.at < t.at)

(* Intervals whose two ends were both read, so an outage is not bridged. *)
Measured(samples) ==
  {i \in samples \X samples :
     Adjacent(samples, i[1], i[2]) /\ i[1].watts # Missing /\ i[2].watts # Missing}

(* Twice the joules of the trapezoidal rule: the halves stay integers. *)
Energy2(samples) ==
  SumFunction([i \in Measured(samples) |->
                 (i[1].watts + i[2].watts) * (i[2].at - i[1].at)])

IntegratePower_BridgesOutages(samples) ==
  LET read == {s \in samples : s.watts # Missing}
  IN  IF Measured(read) = {} THEN Missing ELSE Energy2(read)

IntegratePower(samples) ==
  IF Measured(samples) = {} THEN Missing ELSE Energy2(samples)
=============================================================================
