----------------------------- MODULE Percentile -----------------------------
(***************************************************************************)
(* The percentile of a list of measurements, as app/evals/metrics.py and   *)
(* scripts/benchmark.py both compute it, in hundredths of a unit.          *)
(***************************************************************************)
EXTENDS Naturals, Sequences, FiniteSets

Below(values, v) == {i \in DOMAIN values : values[i] < v}
Above(values, v) == {i \in DOMAIN values : values[i] > v}

\* sorted(values)[k]
Nth(values, k) ==
    CHOOSE v \in {values[i] : i \in DOMAIN values} :
        Cardinality(Below(values, v)) <= k /\ k < Len(values) - Cardinality(Above(values, v))

\* PLAUSIBLE BUG: the rank counts the values, not the steps between them.
RankOfLast(values, p) == Len(values) * p

\* rank, in hundredths
Rank(values, p) == (Len(values) - 1) * p

\* statistics.median
Median(values) ==
    LET half == Len(values) \div 2
    IN  IF Len(values) % 2 = 1
        THEN 100 * Nth(values, half)
        ELSE 50 * (Nth(values, half - 1) + Nth(values, half))

Interpolated(values, p) ==
    LET last == Len(values) - 1
        lower == Rank(values, p) \div 100
        upper == IF lower < last THEN lower + 1 ELSE last
        weight == Rank(values, p) % 100
    IN  Nth(values, lower) * (100 - weight) + Nth(values, upper) * weight

PercentileOf(values, p) ==
    CASE values = <<>> -> 0
      [] values # <<>> /\ p = 50 -> Median(values)
      [] OTHER -> Interpolated(values, p)

-----------------------------------------------------------------------------
\* REFERENCE: put the values in order at equal distances on a line from 0 to 100, and
\* join them by straight lines; x is, in hundredths, the height at p.  A value that
\* occurs several times is a level stretch of that graph.
IsPercentile(values, p, x) ==
    LET others == Len(values) - 1
        from(v) == 100 * Cardinality(Below(values, v))            \* times others
        upto(v) == 100 * (others - Cardinality(Above(values, v)))
        at == p * others
        Heights == {values[i] : i \in DOMAIN values}
    IN  \/ \E v \in Heights : x = 100 * v /\ from(v) <= at /\ at <= upto(v)
        \/ \E u, v \in Heights :
              /\ from(v) = upto(u) + 100
              /\ upto(u) < at /\ at < from(v)
              /\ x = 100 * u + (v - u) * (at - upto(u))
=============================================================================
