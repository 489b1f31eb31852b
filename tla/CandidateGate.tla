---------------------------- MODULE CandidateGate ----------------------------
(***************************************************************************)
(* Which configurations the runner repeats, and which of them it reports as*)
(* best: SearchRun.best and best_across of tuning/optimizer.py,            *)
(* _top_candidates and _validate_candidates of experiment/runner.py.       *)
(*                                                                         *)
(* A search trial is [method, number, params, status, value]; a repeat or a*)
(* holdout also says which number it repeats (of).  The value is the       *)
(* objective of a selectable trial.  The lists of the code are sets here:  *)
(* the trials of a method are told apart, and ordered, by their number.    *)
(* Medians are doubled so that the mean of two middle values is a natural  *)
(* number.                                                                 *)
(***************************************************************************)
EXTENDS Naturals, Sequences, FiniteSets, FiniteSetsExt

CONSTANTS
  TopCount,        \* study.top_candidates
  RepeatCount,     \* study.repeat_count
  HoldoutEnabled,  \* study.holdout_enabled
  RatioPercent     \* study.holdout_min_goodput_ratio, in percent

ASSUME GateAssumption ==
  /\ TopCount \in Nat \ {0} /\ RepeatCount \in Nat \ {0}
  /\ HoldoutEnabled \in BOOLEAN /\ RatioPercent \in 0..100

Passed_Evaluated(t) == t.status \in {"COMPLETE", "INFEASIBLE"}

Passed(t) == t.status = "COMPLETE"
MeasuredOf(S) == {t \in S : Passed(t)}

Of(S, m) == {t \in S : t.method = m}

\* max takes the first of the largest, and sorted(reverse=True) is stable: of
\* two equal values the earlier trial comes first.
Better(a, b) == a.value > b.value \/ (a.value = b.value /\ a.number < b.number)

\* The n best of the trials of one method.
Top(S, n) ==
  {t \in MeasuredOf(S) : Cardinality({u \in MeasuredOf(S) : Better(u, t)}) < n}

BestOf(S) == Top(S, 1)

\* The first trial of each configuration of a method.
Unique(S) ==
  {c \in S : \A d \in S :
     d.method = c.method /\ d.params = c.params => ~Better(d, c)}

TopCandidates(S) ==
  Unique(BestOf(Of(S, "default")) \cup BestOf(Of(S, "random"))
         \cup Top(Of(S, "tpe"), TopCount))

Place(order, s) == CHOOSE i \in DOMAIN order : order[i] = s

\* The one that comes before every other, and none when there is none; of equals
\* the first in the order of the methods.
BestAcross(S, order) ==
  LET bests == UNION {BestOf(Of(S, order[k])) : k \in DOMAIN order}
      Before(a, b) ==
        \/ a.value > b.value
        \/ /\ a.value = b.value
           /\ Place(order, a.method) < Place(order, b.method)
  IN {t \in bests : \A u \in bests \ {t} : Before(t, u)}

-----------------------------------------------------------------------------
(* The gate *)

RowsFor(c, rows) ==
  {t \in rows : t.method = c.method /\ t.of = c.number /\ t.params = c.params}

Median2(S) ==
  LET AtMost(v) == Cardinality({t \in S : t.value <= v})
      values == {t.value : t \in S}
  IN Min({v \in values : 2 * AtMost(v) >= Cardinality(S)})
       + Min({v \in values : 2 * AtMost(v) > Cardinality(S)})

AllPassed(rows) == Cardinality(rows) = RepeatCount /\ MeasuredOf(rows) = rows

\* A repeat median of zero makes the ratio 1.0.
RatioKept(repeats, holdouts) ==
  /\ MeasuredOf(repeats) # {} /\ MeasuredOf(holdouts) # {}
  /\ LET r == Median2(MeasuredOf(repeats))
         h == Median2(MeasuredOf(holdouts))
     IN r > 0 => 100 * h >= RatioPercent * r

Validated(c, repeats, holdouts) ==
  /\ AllPassed(RowsFor(c, repeats))
  /\ HoldoutEnabled =>
       /\ AllPassed(RowsFor(c, holdouts))
       /\ RatioKept(RowsFor(c, repeats), RowsFor(c, holdouts))

\* max by repeat median, then holdout median, then the search objective; of
\* equals the first, in the order of _top_candidates.
BestCandidate(candidates, repeats, holdouts) ==
  LET proven == {c \in candidates : Validated(c, repeats, holdouts)}
      Rank(c) ==
        <<Median2(MeasuredOf(RowsFor(c, repeats))),
          IF MeasuredOf(RowsFor(c, holdouts)) = {} THEN 0
          ELSE Median2(MeasuredOf(RowsFor(c, holdouts))),
          c.value>>
      Position(c) == Place(<<"default", "random", "tpe">>, c.method)
      Before(a, b) ==
        \/ \E k \in 1..3 :
             Rank(a)[k] > Rank(b)[k] /\ \A j \in 1..(k - 1) : Rank(a)[j] = Rank(b)[j]
        \/ /\ Rank(a) = Rank(b)
           /\ \/ Position(a) < Position(b)
              \/ Position(a) = Position(b) /\ a.number < b.number
  IN {c \in proven : \A d \in proven \ {c} : Before(c, d)}

=============================================================================
