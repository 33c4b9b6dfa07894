------------------------------- MODULE BakeOff -------------------------------
(***************************************************************************)
(* Which runtime a model is given: the harness that times a runner         *)
(* (benchmarks/harness.py), the cost of it (benchmarks/tco.py), and the    *)
(* ranking that picks a production and a fallback runtime                  *)
(* (benchmarks/bakeoff/bakeoff.py, runtimes.py).                           *)
(*                                                                         *)
(* A candidate is [runtime, kind, probe, quality, fake]; runtimes are      *)
(* numbers in the order of their names.  Times are in milliseconds.        *)
(* Scores are compared exactly, over the product of the spans; the code's  *)
(* floats are the same up to rounding.  Other quotients are rounded down.  *)
(***************************************************************************)
EXTENDS Integers, SequencesExt

CONSTANT NotMeasured    \* None: the runner has no such number

MinOf(xs) == CHOOSE x \in ToSet(xs) : \A y \in ToSet(xs) : x <= y
MaxOf(xs) == CHOOSE x \in ToSet(xs) : \A y \in ToSet(xs) : x >= y
Total(xs) == FoldLeft(LAMBDA a, b : a + b, 0, xs)
Larger(a, b) == IF a >= b THEN a ELSE b

-----------------------------------------------------------------------------
(* harness.py *)

\* percentile, in hundredths: linear between the two neighbours.
Percentile(values, pct) ==
    IF values = <<>> THEN 0
    ELSE LET xs == SortSeq(values, <)
             rank == pct * (Len(xs) - 1)
             lo == rank \div 100 + 1
             hi == IF lo + 1 <= Len(xs) THEN lo + 1 ELSE Len(xs)
         IN  100 * xs[lo] + (xs[hi] - xs[lo]) * (rank % 100)

\* FakeRunner.__call__ on item i of n: a ramp around the base latency.
FakeRun(fake, i, n) ==
    LET ramp == IF n > 1 THEN (fake.jitter * (2 * (i % n) - n)) \div n ELSE -fake.jitter
        latency == fake.base + ramp
        decode == Larger(latency - fake.ttft, 1)
        generates == fake.tokens > 0
    IN  [latency |-> latency, power |-> fake.power, tokens |-> fake.tokens,
         ttft |-> IF generates THEN fake.ttft ELSE NotMeasured,
         tps |-> IF generates THEN (1000 * fake.tokens) \div decode ELSE NotMeasured,
         parsed |-> IF generates THEN TRUE ELSE NotMeasured]

\* run_benchmark: what a run does not have is left out of its mean.
RunBenchmark(runs, wall) ==
    LET Of(field) == SelectSeq([i \in DOMAIN runs |-> runs[i][field]], LAMBDA x : x # NotMeasured)
        MeanOr(xs, none) == IF xs = <<>> THEN none ELSE Total(xs) \div Len(xs)
        latencies == Of("latency")
        effective == Larger(Larger(wall, Total(latencies)), 1)
        ok == SelectSeq(Of("parsed"), LAMBDA x : x)
    IN  [n |-> Len(latencies), wall |-> effective,
         p50 |-> Percentile(latencies, 50), p95 |-> Percentile(latencies, 95),
         clipsPerMin |-> (60000 * Len(latencies)) \div effective,
         power |-> MeanOr(Of("power"), 0),
         tps |-> MeanOr(Of("tps"), NotMeasured),
         ttft |-> IF Of("ttft") = <<>> THEN NotMeasured ELSE Percentile(Of("ttft"), 95),
         tokens |-> Total(Of("tokens")),
         parseRate |-> IF Of("parsed") = <<>> THEN NotMeasured
                       ELSE (100 * Len(ok)) \div Len(Of("parsed"))]

-----------------------------------------------------------------------------
(* tco.py: energy in kilowatt seconds, which the tariff only scales *)

\* cost_per_1000_clips; without throughput it costs nothing.
CostPer1000Clips(power, clipsPerMin) ==
    IF clipsPerMin <= 0 THEN 0 ELSE (power * 60) \div clipsPerMin

-----------------------------------------------------------------------------
(* runtimes.py and bakeoff.py *)

\* is_available: an operator may force a runtime that the probe does not find.
IsAvailable(candidate, forced) == candidate.runtime \in forced \/ candidate.probe

\* run_one_runtime, for n items.
RunOneRuntime(candidate, n, forced) ==
    LET res == RunBenchmark([i \in 1..n |-> FakeRun(candidate.fake, i - 1, n)], 0)
    IN  [runtime |-> candidate.runtime, kind |-> candidate.kind,
         available |-> IsAvailable(candidate, forced),
         throughput |-> res.clipsPerMin, latency |-> res.p95 \div 100, quality |-> candidate.quality,
         cost |-> CostPer1000Clips(res.power, res.clipsPerMin)]

Weights == [throughput |-> 35, latency |-> 25, quality |-> 25, cost |-> 15]
Metric == DOMAIN Weights

\* _minmax: [points, span], 1 where all are alike.
Minmax(values, v, higherIsBetter) ==
    LET lo == MinOf(values)
        hi == MaxOf(values)
    IN  IF hi = lo THEN [points |-> 1, span |-> 1]
        ELSE [points |-> IF higherIsBetter THEN v - lo ELSE hi - v, span |-> hi - lo]

\* balanced_score, times the product of the spans.
BalancedScore(results, r, weights) ==
    LET Norm(k) == Minmax([i \in DOMAIN results |-> results[i][k]], r[k],
                          k \in {"throughput", "quality"})
        Others(k) == FoldLeft(LAMBDA a, j : a * Norm(j).span, 1, SetToSeq(Metric \ {k}))
    IN  Total([i \in 1..4 |-> LET k == SetToSeq(Metric)[i]
                              IN  weights[k] * Norm(k).points * Others(k)])

Rank(results, weights) ==
    LET Score(r) == BalancedScore(results, r, weights)
    IN  SortSeq(results, LAMBDA a, b : \/ Score(a) > Score(b)
                                       \/ Score(a) = Score(b) /\ a.runtime < b.runtime)

KindRobustness(kind) ==
    CASE kind = "local" -> 3 [] kind = "server" -> 2 [] kind = "container" -> 1 [] OTHER -> 0

\* _robustness_key before the score: availability counts for more than any kind.
Robustness(r) == (IF r.available THEN 4 ELSE 0) + KindRobustness(r.kind)

\* select_profiles, for at least one result.  ranked is best first, so that the first of the
\* most robust has the best score of them.
SelectProfiles(results, weights) ==
    LET ranked == Rank(results, weights)
        available == SelectSeq(ranked, LAMBDA r : r.available)
        prod == Head(IF available = <<>> THEN ranked ELSE available)
        rest == SelectSeq(ranked, LAMBDA r : r.runtime # prod.runtime)
        robust == SelectSeq(rest, LAMBDA r :
                      \A s \in ToSet(rest) : Robustness(s) <= Robustness(r))
    IN  [production |-> prod, fallback |-> IF rest = <<>> THEN prod ELSE Head(robust)]

=============================================================================
