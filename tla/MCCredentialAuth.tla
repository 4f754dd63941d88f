-------------------------- MODULE MCCredentialAuth --------------------------
(* Every field value against every other, for a 3-bit comparator in the    *)
(* field of 67 elements: operands below, at and above the range, and field *)
(* elements that are small negative numbers in disguise.                   *)
(*                                                                         *)
(* The other computation of the repository on plain numbers is checked     *)
(* beside it, the statistics of the benchmarks: every short sample of      *)
(* small numbers, long samples of two values in every proportion, and      *)
(* every three short invocations.                                          *)
EXTENDS CredentialAuth, Sequences

CONSTANTS
  Thresholds,                    \* field elements a prover may claim
  Numbers,                       \* plain numbers the wallet meets
  MaxSample, MaxLen, MaxMany     \* bounds of the samples

\* 32-bit thresholds and ages, and JavaScript's safe integers around them,
\* are far inside the field: none is congruent to another.
ASSUME NumbersAssumption ==
  /\ Thresholds \subseteq Field
  /\ Numbers \subseteq (2^CmpBits - FieldPrime) .. (FieldPrime - 1)

EdgeThresholds == {0, 1, 2^CmpBits - 1, 2^CmpBits, FieldPrime - 1}
AroundTheRange == -4 .. 2^CmpBits + 4

ASSUME SamplesAssumption == MaxSample \in Nat /\ MaxLen \in Nat /\ MaxMany \in Nat

VARIABLES input, verdict, summary

S == INSTANCE Stats

Many(n, low) == [k \in 1..n |-> IF (7 * k) % n < low THEN 1 ELSE 9]

ShortSamples == UNION {[1..n -> 0..MaxSample] : n \in 1..MaxLen}
LongSamples == {Many(n, low) : n \in 1..MaxMany, low \in 0..MaxMany}

Policies == [type : {"age_gte", "age_lt"}, threshold : Numbers]

Init ==
  /\ verdict = "pending" /\ summary = <<>>
  /\ input \in [kind : {"witness"}, code : Field, age : Field,
                threshold : Thresholds]
           \cup [kind : {"wallet"}, policy : Policies, age : Numbers]
           \cup [kind : {"sample"}, xs : ShortSamples \cup LongSamples]
           \cup [kind : {"invocations"}, xs : [1..3 -> [1..2 -> 0..2]]]

Answer(satisfied) == IF satisfied THEN "satisfied" ELSE "unsatisfied"

Pending(kind) ==
  verdict = "pending" /\ summary = <<>> /\ input.kind = kind /\ UNCHANGED input

\* A prover free to choose its witness.
CheckWitness ==
  /\ Pending("witness")
  /\ verdict' = Answer(PredicateHolds(input.code, input.age, input.threshold))
  /\ UNCHANGED summary

\* The wallet of the repository, which computes the witness from a policy.
CheckWallet ==
  /\ Pending("wallet")
  /\ verdict' = Answer(PredicateHolds(toField(predicateCodeFor(input.policy)),
                                      toField(input.age),
                                      toField(input.policy.threshold)))
  /\ UNCHANGED summary

Summarize ==
  /\ Pending("sample")
  /\ summary' = <<S!summarize(input.xs), S!headline(S!summarize(input.xs))>>
  /\ UNCHANGED verdict

Aggregate ==
  /\ Pending("invocations")
  /\ summary' = <<S!aggregate([k \in 1..3 |-> S!summarize(input.xs[k])])>>
  /\ UNCHANGED verdict

Next == CheckWitness \/ CheckWallet \/ Summarize \/ Aggregate

Spec == Init /\ [][Next]_<<input, verdict, summary>>

(* The comparators are sound over the field: whatever residues a prover    *)
(* picks, a satisfied predicate means one of the two codes and a true      *)
(* comparison of two numbers below 2^32, with no wrap-around anywhere.     *)
PredicateIsSound ==
  input.kind = "witness" /\ verdict # "pending" =>
    (verdict = "satisfied" <=>
       /\ input.age < 2^CmpBits /\ input.threshold < 2^CmpBits
       /\ \/ input.code = PREDICATE_AGE_GTE /\ input.age >= input.threshold
          \/ input.code = PREDICATE_AGE_LT /\ input.age < input.threshold)

(* The off-circuit check and the circuit agree on every number that fits   *)
(* the comparators; outside, the circuit refuses what the wallet may call  *)
(* applicable (a negative age is below every threshold), never the         *)
(* opposite.                                                               *)
WalletAgreesWithCircuit ==
  input.kind = "wallet" /\ verdict # "pending" =>
    (verdict = "satisfied" <=> /\ PolicyApplicable(input.policy, input.age)
                 /\ InRange(input.age) /\ InRange(input.policy.threshold))

Sampled == input.kind = "sample" /\ summary # <<>>
Aggregated == input.kind = "invocations" /\ summary # <<>>
Abs(x) == IF x < 0 THEN -x ELSE x

\* stats.ts:28: p95Ms is the smallest sample that at least 95 % of the
\* samples are not above.
P95IsNearestRank ==
  LET Covers(x) == 100 * S!NotAbove(input.xs, x) >= 95 * Len(input.xs)
      p95 == summary[1].p95
  IN Covers(p95) /\ \A k \in DOMAIN input.xs : input.xs[k] < p95 => ~Covers(input.xs[k])

\* bench_env.ts:275: a headline is within a fifth of the mean of the median,
\* whatever the outliers, and inside the sample.
HeadlineNearMedian ==
  LET r == summary[1]  h == summary[2].value
  IN /\ 5 * Abs(h - r.n * r.median2) <= 2 * r.sum
     /\ 2 * r.n * r.min <= h /\ h <= 2 * r.n * r.max

\* bench_zk.ts:64-66: the representative invocation is the one the
\* inter-run median speaks of.
RepresentativeIsMedianRun ==
  2 * summary[1].rep.median2 = summary[1].interRun.medianOfMedians

\* bench_env.ts:243: three invocations are stable only if the mean of none is
\* more than 12 % off the mean of the three.
StableRunsAgree ==
  LET sums == [k \in 1..3 |-> S!total(input.xs[k])]
  IN summary[1].interRun.stable =>
       \A k \in 1..3 : 100 * Abs(3 * sums[k] - S!total(sums)) <= 12 * S!total(sums)

(* The statistics the tables are made of say of a sample what their names  *)
(* say: the percentile at every sample size, the headline and its basis,   *)
(* the representative of three invocations and their stability.  One slow  *)
(* invocation or outlier cannot hide behind good ones.                     *)
StatisticsAreOfTheSample ==
  /\ Sampled => P95IsNearestRank /\ HeadlineNearMedian
  /\ Aggregated => RepresentativeIsMedianRun /\ StableRunsAgree
=============================================================================
