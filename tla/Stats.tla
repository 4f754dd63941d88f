-------------------------------- MODULE Stats --------------------------------
(* The statistics of the benchmarks: packages/common/src/stats.ts, and     *)
(* interRun, headline and the choice of a representative run in            *)
(* harness/bench_env.ts, bench_zk.ts, bench_pqc.ts and bench_baseline.ts.  *)
(*                                                                         *)
(* Samples are integers and nothing is divided: a mean is kept as a sum,   *)
(* a median doubled, a variance as n * sum of squares - square of the sum, *)
(* and a ratio is compared by cross-multiplication.  Rounding for print is *)
(* left out.                                                               *)
EXTENDS Integers, Sequences, FiniteSets

\* reduce: the sum of the first k, for each k.
sums(xs) ==
  LET upTo[k \in 0..Len(xs)] == IF k = 0 THEN 0 ELSE upTo[k - 1] + xs[k] IN upTo

total(xs) == sums(xs)[Len(xs)]
squares(xs) == total([k \in DOMAIN xs |-> xs[k] * xs[k]])

Below(xs, x)    == Cardinality({k \in DOMAIN xs : xs[k] < x})
NotAbove(xs, x) == Cardinality({k \in DOMAIN xs : xs[k] <= x})

\* sort: fewer than i are below the i-th, and at least i are not above it.
ascending(xs) ==
  [i \in DOMAIN xs |-> xs[CHOOSE k \in DOMAIN xs :
                           Below(xs, xs[k]) < i /\ i <= NotAbove(xs, xs[k])]]

\* Twice the median.
median2(xs) ==
  LET s == ascending(xs)  n == Len(xs)
  IN IF n % 2 = 1 THEN 2 * s[(n + 1) \div 2] ELSE s[n \div 2] + s[n \div 2 + 1]

\* n^2 times the population variance; the sample variance is this over
\* n * (n - 1), and 0 for one sample.
dispersion(xs) == Len(xs) * squares(xs) - total(xs) * total(xs)

\* Seeded defect: the rank is used as an index from 0.
p95OneHigh(n) == LET i == (95 * n + 99) \div 100 + 1 IN IF i < n THEN i ELSE n

\* Math.min(n - 1, Math.ceil(0.95 * n) - 1), counted from 1.
p95Idx(n) == LET i == (95 * n + 99) \div 100 IN IF i < n THEN i ELSE n

summarize(xs) ==
  [n |-> Len(xs), sum |-> total(xs), median2 |-> median2(xs),
   dispersion |-> dispersion(xs),
   min |-> ascending(xs)[1], max |-> ascending(xs)[Len(xs)],
   p95 |-> ascending(xs)[p95Idx(Len(xs))]]

\* sd / mean > num / den for n samples with sum s and dispersion d.
Exceeds(n, s, d, num, den) ==
  s > 0 /\ n > 1 /\ den * den * n * d > num * num * (n - 1) * s * s

highVariance(r) == Exceeds(r.n, r.sum, r.dispersion, 1, 5)

\* The value is twice the number of samples times the headline.
headline(r) ==
  IF highVariance(r) THEN [value |-> r.n * r.median2, basis |-> "median"]
                     ELSE [value |-> 2 * r.sum, basis |-> "mean"]

\* sort is stable: runs of one median keep their order.
SortedBefore(perRun, j, k) ==
  \/ perRun[j].median2 < perRun[k].median2
  \/ perRun[j].median2 = perRun[k].median2 /\ j < k

representative(perRun) ==
  perRun[CHOOSE k \in DOMAIN perRun :
           Cardinality({j \in DOMAIN perRun : SortedBefore(perRun, j, k)})
             = Len(perRun) \div 2]

stable(means) == ~Exceeds(Len(means), total(means), dispersion(means), 1, 10)

\* The runs have the same number of samples: sums stand for their means.
interRun(perRun) ==
  LET means   == [k \in DOMAIN perRun |-> perRun[k].sum]
      medians == [k \in DOMAIN perRun |-> perRun[k].median2]
  IN [runs |-> Len(perRun),
      medianOfMeans |-> median2(means), medianOfMedians |-> median2(medians),
      spread |-> ascending(medians)[Len(medians)] - ascending(medians)[1],
      stable |-> stable(means)]

aggregate(perRun) ==
  [interRun |-> interRun(perRun), rep |-> representative(perRun),
   headline |-> headline(representative(perRun))]
=============================================================================
