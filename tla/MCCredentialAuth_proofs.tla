------------------------ MODULE MCCredentialAuth_proofs ------------------------
(* What the run MCCredentialAuth checks of the predicate for a field of 67  *)
(* elements, for every prime field, width, thresholds and numbers; and what *)
(* it checks of the statistics, for every sample.                           *)
EXTENDS MCCredentialAuth, CredentialAuth_proofs, FiniteSetTheorems,
        WellFoundedInduction, SequenceTheorems

WitnessOK ==
  input.kind = "witness" =>
    /\ input.code \in Field /\ input.age \in Field /\ input.threshold \in Field
    /\ verdict \in {"pending", Answer(PredicateHolds(input.code, input.age,
                                                     input.threshold))}

WalletOK ==
  input.kind = "wallet" =>
    /\ input.policy \in Policies /\ input.age \in Numbers
    /\ verdict \in {"pending",
         Answer(PredicateHolds(toField(predicateCodeFor(input.policy)),
                               toField(input.age),
                               toField(input.policy.threshold)))}

SampleOK ==
  input.kind = "sample" =>
    /\ input.xs \in Seq(Nat) /\ Len(input.xs) > 0
    /\ summary \in {<<>>, <<S!summarize(input.xs),
                            S!headline(S!summarize(input.xs))>>}

InvocationsOK ==
  input.kind = "invocations" =>
    /\ input.xs \in [1..3 -> Seq(Nat)]
    /\ \A k \in 1..3 : Len(input.xs[k]) > 0
    /\ summary \in {<<>>, <<S!aggregate([k \in 1..3 |-> S!summarize(input.xs[k])])>>}

IInv == WitnessOK /\ WalletOK /\ SampleOK /\ InvocationsOK

LEMMA FunctionIsSample ==
  ASSUME NEW A, NEW n \in Nat, NEW f \in [1..n -> A]
  PROVE  f \in Seq(A) /\ Len(f) = n
<1>1. f \in Seq(A)
  BY SeqDef
<1>2. Len(f) \in Nat /\ 1..Len(f) = 1..n
  BY <1>1, LenProperties
<1>3. Len(f) = n
  BY <1>2, FS_Interval
<1> QED
  BY <1>1, <1>3

LEMMA InitInv == Init => IInv
<1> SUFFICES ASSUME Init PROVE IInv
  OBVIOUS
<1>1. CASE input \in [kind : {"witness"}, code : Field, age : Field,
                      threshold : Thresholds]
  BY <1>1, NumbersAssumption
     DEF Init, IInv, WitnessOK, WalletOK, SampleOK, InvocationsOK
<1>2. CASE input \in [kind : {"wallet"}, policy : Policies, age : Numbers]
  BY <1>2 DEF Init, IInv, WitnessOK, WalletOK, SampleOK, InvocationsOK
<1>3. CASE input \in [kind : {"sample"}, xs : ShortSamples \cup LongSamples]
  <2>1. PICK n \in Nat \ {0} : input.xs \in [1..n -> Nat]
    <3>1. input.xs \in ShortSamples \/ input.xs \in LongSamples
      BY <1>3
    <3>2. CASE input.xs \in ShortSamples
      <4>1. PICK n \in 1..MaxLen : input.xs \in [1..n -> 0..MaxSample]
        BY <3>2 DEF ShortSamples
      <4>2. \A x \in 0..MaxSample : x \in Nat
        BY SamplesAssumption
      <4> QED
        BY <4>1, <4>2, SamplesAssumption
    <3>3. CASE input.xs \in LongSamples
      <4>1. PICK n \in 1..MaxMany, low \in 0..MaxMany : input.xs = Many(n, low)
        BY <3>3 DEF LongSamples
      <4>2. Many(n, low) \in [1..n -> Nat]
        BY DEF Many
      <4> QED
        BY <4>1, <4>2, SamplesAssumption
    <3> QED
      BY <3>1, <3>2, <3>3
  <2>2. input.xs \in Seq(Nat) /\ Len(input.xs) > 0
    BY <2>1, FunctionIsSample
  <2>3. input.kind = "sample"
    BY <1>3
  <2> QED
    BY <2>2, <2>3 DEF Init, IInv, WitnessOK, WalletOK, SampleOK, InvocationsOK
<1>4. CASE input \in [kind : {"invocations"}, xs : [1..3 -> [1..2 -> 0..2]]]
  <2>1. input.kind = "invocations" /\ input.xs \in [1..3 -> [1..2 -> 0..2]]
    BY <1>4
  <2>2. ASSUME NEW k \in 1..3
        PROVE  input.xs[k] \in Seq(Nat) /\ Len(input.xs[k]) > 0
    <3>1. input.xs[k] \in [1..2 -> 0..2] /\ \A x \in 0..2 : x \in Nat
      BY <2>1
    <3>2. input.xs[k] \in [1..2 -> Nat]
      BY <3>1
    <3>3. 2 \in Nat /\ 2 > 0
      OBVIOUS
    <3> QED
      BY <3>2, <3>3, FunctionIsSample
  <2>3. input.xs \in [1..3 -> Seq(Nat)]
    BY <2>1, <2>2
  <2> QED
    BY <2>1, <2>2, <2>3 DEF Init, IInv, WitnessOK, WalletOK, SampleOK, InvocationsOK
<1> QED
  BY <1>1, <1>2, <1>3, <1>4 DEF Init

LEMMA NextInv == IInv /\ [Next]_<<input, verdict, summary>> => IInv'
<1> SUFFICES ASSUME IInv, [Next]_<<input, verdict, summary>> PROVE IInv'
  OBVIOUS
<1>1. input' = input
  BY DEF Next, CheckWitness, CheckWallet, Summarize, Aggregate, Pending
<1>2. CASE CheckWitness
  BY <1>1, <1>2
     DEF CheckWitness, Pending, IInv, WitnessOK, WalletOK, SampleOK, InvocationsOK
<1>3. CASE CheckWallet
  BY <1>1, <1>3
     DEF CheckWallet, Pending, IInv, WitnessOK, WalletOK, SampleOK, InvocationsOK
<1>4. CASE Summarize
  BY <1>1, <1>4
     DEF Summarize, Pending, IInv, WitnessOK, WalletOK, SampleOK, InvocationsOK
<1>5. CASE Aggregate
  BY <1>1, <1>5
     DEF Aggregate, Pending, IInv, WitnessOK, WalletOK, SampleOK, InvocationsOK
<1>6. CASE UNCHANGED <<input, verdict, summary>>
  BY <1>6 DEF IInv, WitnessOK, WalletOK, SampleOK, InvocationsOK
<1> QED
  BY <1>2, <1>3, <1>4, <1>5, <1>6 DEF Next

LEMMA InvHolds == Spec => []IInv
BY InitInv, NextInv, PTL DEF Spec

(* No wrap-around of the field makes a false comparison provable, and none *)
(* makes a true one unprovable: constraint group (3) of                    *)
(* circuits/credential_auth.circom.                                        *)
THEOREM PredicateSound == Spec => []PredicateIsSound
<1>1. IInv => PredicateIsSound
  <2> SUFFICES ASSUME IInv, input.kind = "witness", verdict # "pending"
               PROVE  verdict = "satisfied" <=>
                        /\ input.age < W /\ input.threshold < W
                        /\ \/ input.code = PREDICATE_AGE_GTE
                              /\ input.age >= input.threshold
                           \/ input.code = PREDICATE_AGE_LT
                              /\ input.age < input.threshold
    BY DEF PredicateIsSound, W
  <2>1. /\ input.code \in Field /\ input.age \in Field
        /\ input.threshold \in Field
        /\ verdict = Answer(PredicateHolds(input.code, input.age,
                                           input.threshold))
    BY DEF IInv, WitnessOK
  <2>2. verdict = "satisfied" <=>
          PredicateHolds(input.code, input.age, input.threshold)
    BY <2>1 DEF Answer
  <2>3. QED
    BY <2>1, <2>2, PredicateMeans
<1>2. QED
  BY InvHolds, <1>1, PTL

(* The wallet's off-circuit check (packages/wallet/src/index.ts) and the   *)
(* circuit agree on every number that fits the comparators.                *)
THEOREM WalletAgrees == Spec => []WalletAgreesWithCircuit
<1>1. IInv => WalletAgreesWithCircuit
  <2> DEFINE holds == PredicateHolds(toField(predicateCodeFor(input.policy)),
                                     toField(input.age),
                                     toField(input.policy.threshold))
  <2> SUFFICES ASSUME IInv, input.kind = "wallet", verdict # "pending"
               PROVE  verdict = "satisfied" <=>
                        /\ PolicyApplicable(input.policy, input.age)
                        /\ InRange(input.age)
                        /\ InRange(input.policy.threshold)
    BY DEF WalletAgreesWithCircuit
  <2>1. /\ input.policy \in Policies /\ input.age \in Numbers
        /\ verdict = Answer(holds)
    BY DEF IInv, WalletOK
  <2>2. verdict = "satisfied" <=> holds
    BY <2>1 DEF Answer
  <2>3. /\ input.policy.type \in {"age_gte", "age_lt"}
        /\ input.policy.threshold \in (W - FieldPrime) .. (FieldPrime - 1)
        /\ input.age \in (W - FieldPrime) .. (FieldPrime - 1)
    BY <2>1, NumbersAssumption DEF Policies, W
  <2>4. QED
    <3> HIDE DEF holds
    <3>1. holds <=> /\ PolicyApplicable(input.policy, input.age)
                    /\ InRange(input.age) /\ InRange(input.policy.threshold)
      BY <2>3, PolicyMeans DEF holds
    <3>2. QED
      BY <2>2, <3>1
<1>2. QED
  BY InvHolds, <1>1, PTL

-----------------------------------------------------------------------------
\* stats.ts:28: for every sample size the index of the 95th percentile is the
\* nearest rank, the least that covers 95 % of the sample, and exists.
THEOREM PercentileRank ==
  ASSUME NEW n \in Nat \ {0}
  PROVE  /\ S!p95Idx(n) \in 1..n
         /\ 100 * S!p95Idx(n) >= 95 * n
         /\ 100 * (S!p95Idx(n) - 1) < 95 * n
<1> DEFINE i == (95 * n + 99) \div 100
<1>1. i \in Int /\ 100 * i <= 95 * n + 99 /\ 95 * n + 99 < 100 * i + 100
  OBVIOUS
<1>2. S!p95Idx(n) = IF i < n THEN i ELSE n
  BY DEF S!p95Idx
<1> HIDE DEF i
<1>3. i >= 1 /\ i <= n
  BY <1>1
<1> QED
  BY <1>1, <1>2, <1>3

\* bench_env.ts:243: the sums of three invocations that the code calls stable
\* lie within 12 % of their mean, whatever they are.
THEOREM StableInvocations ==
  ASSUME NEW a \in Nat, NEW b \in Nat, NEW c \in Nat,
         NEW s, s = a + b + c,
         NEW d, d = 3 * (a * a + b * b + c * c) - s * s,
         ~S!Exceeds(3, s, d, 1, 10)
  PROVE  100 * (3 * a - s) <= 12 * s /\ 100 * (s - 3 * a) <= 12 * s
<1> DEFINE x == 3 * a - s
<1>1. s \in Nat /\ d \in Int /\ x \in Int
  OBVIOUS
<1>2. 2 * d = x * x + 3 * ((b - c) * (b - c))
  OBVIOUS
<1>3. \A y \in Int : y * y >= 0
  OBVIOUS
<1>4. s > 0 => 10 * 10 * 3 * d <= 1 * 1 * (3 - 1) * s * s
  BY <1>1 DEF S!Exceeds
<1> HIDE DEF x
<1>5. b - c \in Int /\ x * x \in Int /\ s * s \in Int /\ (b - c) * (b - c) \in Int
  BY <1>1
<1>6. CASE s = 0
  BY <1>6
<1>7. CASE s > 0
  <2> DEFINE q == x * x
             w == s * s
             v == (b - c) * (b - c)
  <2>1. 300 * d <= 2 * w
    BY <1>4, <1>7, <1>1
  <2>2. v >= 0 /\ v \in Int /\ q \in Int /\ w \in Int /\ 2 * d = q + 3 * v
    BY <1>2, <1>3, <1>5
  <2> HIDE DEF q, w, v
  <2>3. 75 * q <= w
    BY <1>1, <2>1, <2>2
  <2>4. ASSUME NEW y \in Nat, y * y = q PROVE 100 * y <= 12 * s
    <3> SUFFICES ASSUME 25 * y > 3 * s PROVE FALSE
      BY <1>1
    <3>1. (25 * y) * (25 * y) > (3 * s) * (3 * s)
      <4> DEFINE g == 25 * y
                 h == 3 * s
      <4>1. g \in Nat /\ h \in Nat /\ g > h
        BY <1>1
      <4> HIDE DEF g, h
      <4>2. g * g > h * h
        BY <4>1
      <4> QED
        BY <4>2 DEF g, h
    <3>2. 625 * q > 9 * w
      BY <1>1, <2>4, <3>1 DEF w
    <3>3. q >= 0
      BY <2>4
    <3> QED
      BY <2>2, <2>3, <3>2, <3>3
  <2>5. x * x = q /\ (-x) * (-x) = q
    BY <1>1 DEF q
  <2>6. (x >= 0 => 100 * x <= 12 * s) /\ (x < 0 => 100 * (-x) <= 12 * s)
    <3>1. (x >= 0 => x \in Nat) /\ (x < 0 => -x \in Nat)
      BY <1>1
    <3> QED
      BY <2>4, <2>5, <3>1
  <2>7. 100 * x <= 12 * s /\ 100 * (-x) <= 12 * s
    BY <1>1, <2>6
  <2> QED
    BY <1>1, <2>7 DEF x
<1> QED
  BY <1>1, <1>6, <1>7

-----------------------------------------------------------------------------
(* Sums and counts of a sample of any length.                              *)

LEMMA LeastNumber ==
  ASSUME NEW T \in SUBSET Nat, T # {}
  PROVE  \E n \in T : \A m \in T : n <= m
<1> DEFINE Initial == {0..n : n \in T}
<1>1. IsWellFoundedOn(StrictSubsetOrdering(Nat), FiniteSubsetsOf(Nat))
  BY FS_StrictSubsetOrderingWellFounded
<1>2. ASSUME NEW n \in T PROVE 0..n \in FiniteSubsetsOf(Nat)
  BY FS_Interval DEF FiniteSubsetsOf
<1>3. Initial \subseteq FiniteSubsetsOf(Nat) /\ Initial # {}
  BY <1>2
<1> HIDE DEF Initial
<1>4. PICK I \in Initial : \A J \in Initial : <<J, I>> \notin StrictSubsetOrdering(Nat)
  BY <1>1, <1>3, WFMin
<1>5. PICK n \in T : I = 0..n
  BY DEF Initial
<1>6. ASSUME NEW m \in T, m < n PROVE FALSE
  <2>1. 0..m \in Initial
    BY DEF Initial
  <2>2. 0..m \subseteq 0..n /\ n \notin 0..m /\ n \in 0..n
    BY <1>6
  <2>3. <<0..m, 0..n>> \in StrictSubsetOrdering(Nat)
    BY <2>2 DEF StrictSubsetOrdering
  <2> QED
    BY <1>4, <1>5, <2>1, <2>3
<1> QED
  BY <1>6

\* What holds of no samples and goes on with each further one.
LEMMA SampleBySample ==
  ASSUME NEW n \in Nat, NEW T \in SUBSET (0..n), 0 \in T,
         \A m \in 1..n : m - 1 \in T => m \in T
  PROVE  T = 0..n
<1> SUFFICES ASSUME T # 0..n PROVE FALSE
  OBVIOUS
<1>1. (0..n) \ T \in SUBSET Nat /\ (0..n) \ T # {}
  <2>1. \A m \in 0..n : m \in Nat
    OBVIOUS
  <2>2. \E m \in 0..n : m \notin T
    OBVIOUS
  <2> QED
    BY <2>1, <2>2
<1>2. PICK m \in (0..n) \ T : \A k \in (0..n) \ T : m <= k
  BY <1>1, LeastNumber
<1>3. m \in 1..n /\ m - 1 \in 0..n /\ m - 1 < m
  BY <1>2
<1>4. m - 1 \in T
  BY <1>2, <1>3
<1> QED
  BY <1>2, <1>3, <1>4

LEMMA Sums ==
  ASSUME NEW xs \in Seq(Int)
  PROVE  /\ S!sums(xs) \in [0..Len(xs) -> Int]
         /\ S!sums(xs)[0] = 0
         /\ \A k \in 1..Len(xs) : S!sums(xs)[k] = S!sums(xs)[k - 1] + xs[k]
<1> DEFINE n == Len(xs)
           IsSum(g, m) == /\ g \in [0..m -> Int] /\ g[0] = 0
                          /\ \A k \in 1..m : g[k] = g[k - 1] + xs[k]
           T == {m \in 0..n : \E g \in [0..m -> Int] : IsSum(g, m)}
<1>1. n \in Nat /\ \A k \in 1..n : xs[k] \in Int
  BY LenProperties
<1>2. 0 \in T
  <2>1. [k \in 0..0 |-> 0] \in [0..0 -> Int] /\ IsSum([k \in 0..0 |-> 0], 0)
    OBVIOUS
  <2> HIDE DEF IsSum
  <2>2. \E g \in [0..0 -> Int] : IsSum(g, 0)
    BY <2>1
  <2> QED
    BY <1>1, <2>2
<1>3. ASSUME NEW m \in 1..n, m - 1 \in T PROVE m \in T
  <2>1. PICK g \in [0..(m - 1) -> Int] : IsSum(g, m - 1)
    BY <1>3
  <2> DEFINE h == [k \in 0..m |-> IF k = m THEN g[m - 1] + xs[m] ELSE g[k]]
  <2>2. h \in [0..m -> Int]
    BY <1>1, <2>1
  <2>3. h[0] = 0
    BY <1>1, <2>1
  <2>4. ASSUME NEW k \in 1..m PROVE h[k] = h[k - 1] + xs[k]
    <3>1. CASE k = m
      BY <1>1, <2>1, <3>1
    <3>2. CASE k # m
      <4>1. k \in 1..(m - 1) /\ k - 1 \in 0..(m - 1)
        BY <1>1, <3>2
      <4> QED
        BY <1>1, <2>1, <3>2, <4>1
    <3> QED
      BY <3>1, <3>2
  <2> HIDE DEF h
  <2>5. IsSum(h, m)
    BY <2>2, <2>3, <2>4
  <2> HIDE DEF IsSum
  <2>6. m \in 0..n /\ \E f \in [0..m -> Int] : IsSum(f, m)
    BY <1>1, <2>2, <2>5
  <2> QED
    BY <2>6
<1>4. T = 0..n
  <2> HIDE DEF T
  <2>1. T \subseteq 0..n
    BY DEF T
  <2> QED
    BY <1>1, <1>2, <1>3, <2>1, SampleBySample
<1>5. PICK g \in [0..n -> Int] : IsSum(g, n)
  BY <1>1, <1>4
<1> DEFINE Step(f) == [k \in 0..n |-> IF k = 0 THEN 0 ELSE f[k - 1] + xs[k]]
<1>6. g = Step(g)
  BY <1>1, <1>5
<1>7. S!sums(xs) = CHOOSE f : f = Step(f)
  BY DEF S!sums
<1>8. S!sums(xs) = Step(S!sums(xs))
  BY <1>6, <1>7
<1> DEFINE R == S!sums(xs)
           E == {k \in 0..n : R[k] = g[k]}
<1>9. E = 0..n
  <2>1. 0 \in E
    BY <1>1, <1>5, <1>8
  <2>2. ASSUME NEW m \in 1..n, m - 1 \in E PROVE m \in E
    <3>1. m \in 0..n /\ m # 0 /\ R[m - 1] = g[m - 1]
      BY <1>1, <2>2
    <3>2. R[m] = R[m - 1] + xs[m]
      BY <1>8, <3>1
    <3>3. g[m] = g[m - 1] + xs[m]
      BY <1>5
    <3> QED
      BY <3>1, <3>2, <3>3
  <2> HIDE DEF E
  <2>3. E \subseteq 0..n
    BY DEF E
  <2> QED
    BY <1>1, <2>1, <2>2, <2>3, SampleBySample
<1>10. R = g
  <2>1. DOMAIN R = 0..n
    BY <1>8
  <2>2. R = [k \in 0..n |-> R[k]]
    BY <1>8
  <2>3. \A k \in 0..n : R[k] = g[k]
    BY <1>9
  <2> QED
    BY <1>5, <2>2, <2>3
<1> QED
  BY <1>5, <1>10

LEMMA TotalBounds ==
  ASSUME NEW xs \in Seq(Int), NEW lo \in Int, NEW hi \in Int,
         \A k \in 1..Len(xs) : lo <= xs[k] /\ xs[k] <= hi
  PROVE  /\ S!total(xs) \in Int
         /\ Len(xs) * lo <= S!total(xs) /\ S!total(xs) <= Len(xs) * hi
<1> DEFINE n == Len(xs)
           R == S!sums(xs)
           T == {m \in 0..n : m * lo <= R[m] /\ R[m] <= m * hi}
<1>1. n \in Nat /\ \A k \in 1..n : xs[k] \in Int
  BY LenProperties
<1>2. /\ R \in [0..n -> Int] /\ R[0] = 0
      /\ \A k \in 1..n : R[k] = R[k - 1] + xs[k]
  BY Sums
<1>3. 0 \in T
  BY <1>1, <1>2
<1>4. ASSUME NEW m \in 1..n, m - 1 \in T PROVE m \in T
  <2> HIDE DEF R
  <2>1. /\ m \in 0..n /\ m - 1 \in 0..n /\ R[m - 1] \in Int /\ R[m] = R[m - 1] + xs[m]
        /\ xs[m] \in Int /\ lo <= xs[m] /\ xs[m] <= hi
    <3> HIDE DEF T
    <3>1. m \in 0..n /\ m - 1 \in 0..n
      BY <1>1
    <3> QED
      BY <1>1, <1>2, <3>1
  <2>2. m * lo = (m - 1) * lo + lo /\ m * hi = (m - 1) * hi + hi
    BY <1>1
  <2>3. (m - 1) * lo \in Int /\ (m - 1) * hi \in Int
    BY <1>1
  <2> QED
    BY <1>4, <2>1, <2>2, <2>3
<1>5. T = 0..n
  <2> HIDE DEF T, R
  <2>1. T \subseteq 0..n
    BY DEF T
  <2> QED
    BY <1>1, <1>3, <1>4, <2>1, SampleBySample
<1>6. n \in T /\ R[n] \in Int
  BY <1>1, <1>2, <1>5
<1> QED
  BY <1>6 DEF S!total

LEMMA PartsOfTotal ==
  ASSUME NEW xs \in Seq(Int), \A k \in 1..Len(xs) : xs[k] >= 0
  PROVE  \A k \in 1..Len(xs) : xs[k] <= S!total(xs)
<1> DEFINE n == Len(xs)
           R == S!sums(xs)
           T == {m \in 0..n : R[m] >= 0 /\ \A k \in 1..m : xs[k] <= R[m]}
<1>1. n \in Nat /\ \A k \in 1..n : xs[k] \in Int
  BY LenProperties
<1>2. /\ R \in [0..n -> Int] /\ R[0] = 0
      /\ \A k \in 1..n : R[k] = R[k - 1] + xs[k]
  BY Sums
<1>3. 0 \in T
  BY <1>1, <1>2
<1>4. ASSUME NEW m \in 1..n, m - 1 \in T PROVE m \in T
  <2> HIDE DEF R
  <2>1. /\ m \in 0..n /\ R[m - 1] \in Int /\ R[m] = R[m - 1] + xs[m]
        /\ xs[m] \in Int /\ xs[m] >= 0
    <3> HIDE DEF T
    <3>1. m \in 0..n /\ m - 1 \in 0..n
      BY <1>1
    <3> QED
      BY <1>1, <1>2, <3>1
  <2>2. \A k \in 1..m : k = m \/ k \in 1..(m - 1)
    BY <1>1
  <2> QED
    BY <1>1, <1>4, <2>1, <2>2
<1>5. T = 0..n
  <2> HIDE DEF T, R
  <2>1. T \subseteq 0..n
    BY DEF T
  <2> QED
    BY <1>1, <1>3, <1>4, <2>1, SampleBySample
<1> QED
  BY <1>1, <1>5 DEF S!total

\* Squares of a * x + c add up to what the sums say; none is negative, and
\* those of the samples in U are at least w.
LEMMA SumOfSquares ==
  ASSUME NEW xs \in Seq(Int), NEW a \in Int, NEW c \in Int, NEW w \in Nat,
         NEW U \in SUBSET (1..Len(xs)),
         \A k \in U : (a * xs[k] + c) * (a * xs[k] + c) >= w
  PROVE  /\ S!squares(xs) \in Int /\ Cardinality(U) \in Nat
         /\ (a * a) * S!squares(xs) + (2 * a * c) * S!total(xs) + Len(xs) * (c * c)
              >= w * Cardinality(U)
<1> DEFINE n == Len(xs)
           ys == [k \in 1..n |-> xs[k] * xs[k]]
           R == S!sums(xs)
           Q == S!sums(ys)
           count(m) == Cardinality(U \cap (1..m))
           aa == a * a
           ac == 2 * a * c
           cc == c * c
           T == {m \in 0..n : aa * Q[m] + ac * R[m] + m * cc >= w * count(m)}
<1>1. n \in Nat /\ DOMAIN xs = 1..n /\ \A k \in 1..n : xs[k] \in Int
  BY LenProperties
<1>2. ys \in Seq(Int) /\ Len(ys) = n
  <2>1. ys \in [1..n -> Int]
    BY <1>1
  <2> QED
    BY <1>1, <2>1, FunctionIsSample
<1>3. /\ R \in [0..n -> Int] /\ R[0] = 0
      /\ \A k \in 1..n : R[k] = R[k - 1] + xs[k]
  BY Sums
<1>4. /\ Q \in [0..n -> Int] /\ Q[0] = 0
      /\ \A k \in 1..n : Q[k] = Q[k - 1] + xs[k] * xs[k]
  <2> HIDE DEF ys
  <2>1. /\ Q \in [0..n -> Int] /\ Q[0] = 0
        /\ \A k \in 1..n : Q[k] = Q[k - 1] + ys[k]
    BY <1>2, Sums
  <2> QED
    BY <2>1 DEF ys
<1> HIDE DEF R, Q, ys
<1>5. aa \in Int /\ ac \in Int /\ cc \in Int
  OBVIOUS
<1>6. 0 \in T
  <2>1. U \cap (1..0) = {}
    OBVIOUS
  <2>2. count(0) = 0
    BY <2>1, FS_EmptySet
  <2> HIDE DEF aa, ac, cc, count
  <2> QED
    BY <1>1, <1>3, <1>4, <1>5, <2>2
<1>7. ASSUME NEW m \in 1..n, m - 1 \in T PROVE m \in T
  <2> DEFINE x == xs[m]
             q == (a * x + c) * (a * x + c)
  <2>1. /\ m \in 0..n /\ m - 1 \in 0..n /\ x \in Int
        /\ R[m] = R[m - 1] + x /\ Q[m] = Q[m - 1] + x * x
        /\ R[m - 1] \in Int /\ Q[m - 1] \in Int
    <3> HIDE DEF T
    <3>1. m \in 0..n /\ m - 1 \in 0..n
      BY <1>1
    <3> QED
      BY <1>1, <1>3, <1>4, <3>1
  <2>2. q = aa * (x * x) + ac * x + cc
    <3> SUFFICES ASSUME NEW z \in Int
                 PROVE  (a * z + c) * (a * z + c) = a * a * (z * z) + 2 * a * c * z + c * c
      BY <2>1
    <3> DEFINE y == a * z
    <3>1. y \in Int /\ y * y = a * a * (z * z) /\ y * c = a * c * z
      OBVIOUS
    <3> HIDE DEF y
    <3>2. (y + c) * (y + c) = y * y + 2 * (y * c) + c * c
      BY <3>1
    <3>3. 2 * (a * c * z) = 2 * a * c * z
      OBVIOUS
    <3> QED
      BY <3>1, <3>2, <3>3 DEF y
  <2>3. q \in Int /\ q >= 0 /\ (m \in U => q >= w)
    <3>1. \A y \in Int : y * y >= 0
      OBVIOUS
    <3>2. a * x + c \in Int
      BY <2>1
    <3> QED
      BY <3>1, <3>2
  <2>4. /\ count(m - 1) \in Nat
        /\ count(m) = IF m \in U THEN count(m - 1) + 1 ELSE count(m - 1)
    <3>1. IsFiniteSet(U \cap (1..(m - 1))) /\ count(m - 1) \in Nat
      <4>1. IsFiniteSet(1..(m - 1))
        BY <1>1, FS_Interval
      <4>2. IsFiniteSet(U \cap (1..(m - 1)))
        BY <4>1, FS_Intersection
      <4> QED
        BY <4>2, FS_CardinalityType
    <3>2. m \notin U \cap (1..(m - 1))
      BY <1>1
    <3>3. U \cap (1..m) = IF m \in U THEN (U \cap (1..(m - 1))) \cup {m}
                                     ELSE U \cap (1..(m - 1))
      BY <1>1
    <3> QED
      BY <3>1, <3>2, <3>3, FS_AddElement
  <2> DEFINE Before == aa * Q[m - 1] + ac * R[m - 1] + (m - 1) * cc
             After == aa * Q[m] + ac * R[m] + m * cc
  <2>5. Before >= w * count(m - 1)
    BY <1>7
  <2>6. After = Before + q /\ Before \in Int
    <3>1. aa * (Q[m - 1] + x * x) = aa * Q[m - 1] + aa * (x * x)
      <4> HIDE DEF aa, x
      <4> QED
        BY <1>5, <2>1
    <3>2. ac * (R[m - 1] + x) = ac * R[m - 1] + ac * x
      <4> HIDE DEF ac, x
      <4> QED
        BY <1>5, <2>1
    <3>3. m * cc = (m - 1) * cc + cc
      <4> HIDE DEF cc
      <4> QED
        BY <1>1, <1>5
    <3>4. /\ aa * Q[m - 1] \in Int /\ ac * R[m - 1] \in Int /\ (m - 1) * cc \in Int
          /\ aa * (x * x) \in Int /\ ac * x \in Int
      <4> HIDE DEF aa, ac, cc, x
      <4>1. x * x \in Int /\ m - 1 \in Int
        BY <1>1, <2>1
      <4> QED
        BY <1>5, <2>1, <4>1
    <3>5. aa * Q[m] = aa * Q[m - 1] + aa * (x * x) /\ ac * R[m] = ac * R[m - 1] + ac * x
      BY <2>1, <3>1, <3>2
    <3> DEFINE pq == aa * Q[m - 1]
               pr == ac * R[m - 1]
               pc == (m - 1) * cc
               sq == aa * (x * x)
               sr == ac * x
    <3>6. /\ Before = pq + pr + pc /\ q = sq + sr + cc
          /\ After = (pq + sq) + (pr + sr) + (pc + cc)
      BY <2>2, <3>3, <3>5
    <3>7. /\ pq \in Int /\ pr \in Int /\ pc \in Int /\ sq \in Int /\ sr \in Int
          /\ cc \in Int
      BY <1>5, <3>4
    <3> HIDE DEF pq, pr, pc, sq, sr, cc, q, Before, After
    <3> QED
      BY <3>6, <3>7
  <2>7. w * count(m) = IF m \in U THEN w * count(m - 1) + w ELSE w * count(m - 1)
    <3> HIDE DEF count
    <3>1. w * (count(m - 1) + 1) = w * count(m - 1) + w
      BY <2>4
    <3> QED
      BY <2>4, <3>1
  <2>8. w * count(m - 1) \in Int
    <3> HIDE DEF count
    <3> QED
      BY <2>4
  <2>9. After >= w * count(m)
    <3> HIDE DEF count, q, Before, After
    <3> QED
      BY <2>3, <2>5, <2>6, <2>7, <2>8
  <2> HIDE DEF aa, ac, cc, count
  <2> QED
    BY <2>1, <2>9
<1>8. T = 0..n
  <2> HIDE DEF T
  <2>1. T \subseteq 0..n
    BY DEF T
  <2> QED
    BY <1>1, <1>6, <1>7, <2>1, SampleBySample
<1>9. count(n) = Cardinality(U) /\ Cardinality(U) \in Nat
  <2>1. U \cap (1..n) = U
    OBVIOUS
  <2>2. IsFiniteSet(1..n)
    BY <1>1, FS_Interval
  <2>3. IsFiniteSet(U)
    BY <2>2, FS_Subset
  <2> QED
    BY <2>1, <2>3, FS_CardinalityType
<1>10. S!total(xs) = R[n] /\ S!squares(xs) = Q[n] /\ Q[n] \in Int
  BY <1>1, <1>2, <1>4 DEF S!total, S!squares, R, Q, ys
<1>11. n \in T
  <2> HIDE DEF T
  <2> QED
    BY <1>1, <1>8
<1> QED
  BY <1>9, <1>10, <1>11

-----------------------------------------------------------------------------
(* The sorted sample, by counting.                                         *)

\* The module of finite sets is that of the instance, too.
LEMMA OneCardinality == \A T : S!Cardinality(T) = Cardinality(T)
BY DEF S!Cardinality, Cardinality, S!IsFiniteSet, IsFiniteSet

LEMMA PartOfSample ==
  ASSUME NEW xs \in Seq(Int), NEW A \in SUBSET (1..Len(xs)), NEW B \in SUBSET A
  PROVE  /\ IsFiniteSet(A) /\ IsFiniteSet(B)
         /\ Cardinality(A) \in 0..Len(xs) /\ Cardinality(B) \in 0..Cardinality(A)
         /\ B # A => Cardinality(B) < Cardinality(A)
         /\ Cardinality(1..Len(xs)) = Len(xs)
<1>1. Len(xs) \in Nat
  BY LenProperties
<1>2. IsFiniteSet(1..Len(xs)) /\ Cardinality(1..Len(xs)) = Len(xs)
  BY <1>1, FS_Interval
<1>3. IsFiniteSet(A) /\ Cardinality(A) <= Cardinality(1..Len(xs))
  BY <1>2, FS_Subset
<1>4. IsFiniteSet(B) /\ Cardinality(B) <= Cardinality(A)
      /\ (Cardinality(A) = Cardinality(B) => A = B)
  BY <1>3, FS_Subset
<1>5. Cardinality(A) \in Nat /\ Cardinality(B) \in Nat
  BY <1>3, <1>4, FS_CardinalityType
<1> QED
  BY <1>1, <1>2, <1>3, <1>4, <1>5

LEMMA CountsMean ==
  ASSUME NEW xs \in Seq(Int), NEW x \in Int
  PROVE  /\ S!Below(xs, x) = Cardinality({k \in 1..Len(xs) : xs[k] < x})
         /\ S!NotAbove(xs, x) = Cardinality({k \in 1..Len(xs) : xs[k] <= x})
         /\ S!Below(xs, x) \in 0..Len(xs) /\ S!NotAbove(xs, x) \in 0..Len(xs)
<1>1. DOMAIN xs = 1..Len(xs)
  BY LenProperties
<1>2. /\ S!Below(xs, x) = Cardinality({k \in 1..Len(xs) : xs[k] < x})
      /\ S!NotAbove(xs, x) = Cardinality({k \in 1..Len(xs) : xs[k] <= x})
  BY <1>1, OneCardinality DEF S!Below, S!NotAbove
<1>3. /\ {k \in 1..Len(xs) : xs[k] < x} \in SUBSET (1..Len(xs))
      /\ {k \in 1..Len(xs) : xs[k] <= x} \in SUBSET (1..Len(xs))
  OBVIOUS
<1> QED
  BY <1>2, <1>3, PartOfSample

\* Whatever is not above x is below a larger y.
LEMMA CountsGrow ==
  ASSUME NEW xs \in Seq(Int), NEW x \in Int, NEW y \in Int, x < y
  PROVE  S!NotAbove(xs, x) <= S!Below(xs, y)
<1> DEFINE A == {k \in 1..Len(xs) : xs[k] < y}
           B == {k \in 1..Len(xs) : xs[k] <= x}
<1>1. \A k \in 1..Len(xs) : xs[k] \in Int
  BY LenProperties
<1>2. A \in SUBSET (1..Len(xs)) /\ B \in SUBSET A
  BY <1>1
<1>3. Cardinality(B) \in 0..Cardinality(A) /\ Cardinality(A) \in 0..Len(xs)
  <2> HIDE DEF A, B
  <2> QED
    BY <1>2, PartOfSample
<1>4. S!NotAbove(xs, x) = Cardinality(B) /\ S!Below(xs, y) = Cardinality(A)
  BY CountsMean
<1> HIDE DEF A, B
<1> QED
  BY <1>3, <1>4

\* A sample is not above itself, so it counts for more than a lower one.
LEMMA CountsTell ==
  ASSUME NEW xs \in Seq(Int), NEW k \in 1..Len(xs)
  PROVE  S!Below(xs, xs[k]) < S!NotAbove(xs, xs[k])
<1> DEFINE A == {j \in 1..Len(xs) : xs[j] <= xs[k]}
           B == {j \in 1..Len(xs) : xs[j] < xs[k]}
<1>1. \A j \in 1..Len(xs) : xs[j] \in Int
  BY LenProperties
<1>2. A \in SUBSET (1..Len(xs)) /\ B \in SUBSET A /\ k \in A /\ k \notin B
  BY <1>1
<1>3. Cardinality(B) < Cardinality(A)
  <2> HIDE DEF A, B
  <2>1. B # A
    BY <1>2
  <2> QED
    BY <1>2, <2>1, PartOfSample
<1>4. S!NotAbove(xs, xs[k]) = Cardinality(A) /\ S!Below(xs, xs[k]) = Cardinality(B)
  BY <1>1, CountsMean
<1> QED
  BY <1>3, <1>4

LEMMA Highest ==
  ASSUME NEW xs \in Seq(Int), NEW B \in SUBSET (1..Len(xs)), B # {}
  PROVE  \E m \in B : \A j \in B : xs[j] <= xs[m]
<1> DEFINE n == Len(xs)
           above(j) == n - S!NotAbove(xs, xs[j])
           T == {above(j) : j \in B}
<1>1. n \in Nat /\ \A j \in 1..n : xs[j] \in Int
  BY LenProperties
<1>2. \A j \in 1..n : S!NotAbove(xs, xs[j]) \in 0..n /\ S!Below(xs, xs[j]) \in 0..n
  BY <1>1, CountsMean
<1>3. \A j \in B : above(j) \in Nat
  BY <1>1, <1>2
<1>4. T \in SUBSET Nat /\ T # {}
  <2> HIDE DEF above
  <2> QED
    BY <1>3
<1>5. PICK t \in T : \A u \in T : t <= u
  <2> HIDE DEF T
  <2> QED
    BY <1>4, LeastNumber
<1>6. PICK m \in B : t = above(m)
  BY <1>5
<1>7. ASSUME NEW j \in B, ~(xs[j] <= xs[m]) PROVE FALSE
  <2>1. xs[m] \in Int /\ xs[j] \in Int /\ xs[m] < xs[j]
    BY <1>1, <1>7
  <2>2. S!NotAbove(xs, xs[m]) <= S!Below(xs, xs[j])
    BY <2>1, CountsGrow
  <2>3. S!Below(xs, xs[j]) < S!NotAbove(xs, xs[j])
    BY CountsTell
  <2>4. above(j) \in T /\ above(m) <= above(j)
    BY <1>5, <1>6
  <2>5. /\ S!NotAbove(xs, xs[m]) \in Int /\ S!NotAbove(xs, xs[j]) \in Int
        /\ S!Below(xs, xs[j]) \in Int
    BY <1>2
  <2>6. S!NotAbove(xs, xs[j]) <= S!NotAbove(xs, xs[m])
    BY <1>1, <2>4, <2>5
  <2> QED
    BY <2>2, <2>3, <2>5, <2>6
<1> QED
  BY <1>7

\* The order statistics exist: sort has something to put at each place.
LEMMA Ascending ==
  ASSUME NEW xs \in Seq(Int), NEW i \in 1..Len(xs)
  PROVE  /\ \E k \in 1..Len(xs) : S!ascending(xs)[i] = xs[k]
         /\ S!ascending(xs)[i] \in Int
         /\ S!Below(xs, S!ascending(xs)[i]) < i
         /\ i <= S!NotAbove(xs, S!ascending(xs)[i])
<1> DEFINE n == Len(xs)
           count(k) == S!NotAbove(xs, xs[k])
           T == {count(k) : k \in {j \in 1..n : i <= count(j)}}
<1>1. n \in Nat /\ DOMAIN xs = 1..n /\ \A k \in 1..n : xs[k] \in Int
  BY LenProperties
<1>2. \A k \in 1..n : count(k) \in 0..n /\ S!Below(xs, xs[k]) \in 0..n
  BY <1>1, CountsMean
<1>3. T # {}
  <2>1. PICK m \in 1..n : \A j \in 1..n : xs[j] <= xs[m]
    <3>1. (1..n) # {}
      BY <1>1
    <3> QED
      BY <3>1, Highest
  <2>2. {j \in 1..n : xs[j] <= xs[m]} = 1..n
    BY <2>1
  <2>3. count(m) = n
    <3>1. xs[m] \in Int
      BY <1>1
    <3>2. count(m) = Cardinality({j \in 1..n : xs[j] <= xs[m]})
      BY <3>1, CountsMean
    <3>3. 1..n \in SUBSET (1..n)
      OBVIOUS
    <3>4. Cardinality(1..n) = n
      BY <3>3, PartOfSample
    <3> QED
      BY <2>2, <3>2, <3>4
  <2>4. i <= count(m)
    BY <1>1, <2>3
  <2> HIDE DEF count
  <2> QED
    BY <2>4
<1>4. T \in SUBSET Nat
  <2> HIDE DEF count
  <2> QED
    BY <1>1, <1>2
<1>5. PICK t \in T : \A u \in T : t <= u
  <2> HIDE DEF T
  <2> QED
    BY <1>3, <1>4, LeastNumber
<1>6. PICK k \in 1..n : t = count(k) /\ i <= count(k)
  BY <1>5
<1>7. S!Below(xs, xs[k]) < i
  <2> SUFFICES ASSUME i <= S!Below(xs, xs[k]) PROVE FALSE
    BY <1>1, <1>2
  <2> DEFINE B == {j \in 1..n : xs[j] < xs[k]}
  <2>1. S!Below(xs, xs[k]) = Cardinality(B)
    BY <1>1, CountsMean
  <2>2. B # {}
    <3> SUFFICES ASSUME B = {} PROVE FALSE
      OBVIOUS
    <3>1. S!Below(xs, xs[k]) = 0
      BY <2>1, FS_EmptySet
    <3> QED
      BY <1>1, <3>1
  <2>3. B \in SUBSET (1..n)
    OBVIOUS
  <2>4. PICK m \in B : \A j \in B : xs[j] <= xs[m]
    <3> HIDE DEF B
    <3> QED
      BY <2>2, <2>3, Highest
  <2>5. /\ m \in 1..n /\ xs[m] \in Int /\ xs[k] \in Int /\ xs[m] < xs[k]
        /\ B \in SUBSET {j \in 1..n : xs[j] <= xs[m]}
    BY <1>1, <2>4
  <2>6. Cardinality(B) <= count(m)
    <3> DEFINE A == {j \in 1..n : xs[j] <= xs[m]}
    <3>1. A \in SUBSET (1..n) /\ B \in SUBSET A
      BY <2>5
    <3>2. Cardinality(B) \in 0..Cardinality(A) /\ Cardinality(A) \in 0..n
      <4> HIDE DEF A, B
      <4> QED
        BY <3>1, PartOfSample
    <3>3. count(m) = Cardinality(A)
      BY <2>5, CountsMean
    <3> HIDE DEF A, B, count
    <3> QED
      BY <3>2, <3>3
  <2>7. count(m) <= S!Below(xs, xs[k])
    BY <2>5, CountsGrow
  <2>8. S!Below(xs, xs[k]) < count(k)
    BY CountsTell
  <2>9. count(m) \in Int /\ count(k) \in Int /\ S!Below(xs, xs[k]) \in Int
    BY <1>2, <2>5
  <2> HIDE DEF B, count
  <2>10. i <= count(m)
    BY <2>1, <2>6, <2>9
  <2>11. count(m) \in T
    BY <2>5, <2>10
  <2>12. count(k) <= count(m)
    BY <1>5, <1>6, <2>11
  <2>13. count(m) < count(k)
    BY <2>7, <2>8, <2>9 DEF count
  <2> QED
    BY <2>9, <2>12, <2>13
<1> DEFINE AtPlace(j) == S!Below(xs, xs[j]) < i /\ i <= S!NotAbove(xs, xs[j])
           c == CHOOSE j \in 1..n : AtPlace(j)
<1>8. AtPlace(k)
  BY <1>6, <1>7
<1>9. c \in 1..n /\ AtPlace(c)
  <2> HIDE DEF AtPlace
  <2> QED
    BY <1>8
<1>10. S!ascending(xs)[i] = xs[c]
  BY <1>1 DEF S!ascending
<1> QED
  BY <1>1, <1>9, <1>10

\* Two numbers at one place of the sorted sample are equal, and a later place
\* holds no lower one.
LEMMA PlacesAreInOrder ==
  ASSUME NEW xs \in Seq(Int), NEW i \in Int, NEW j \in Int, i <= j,
         NEW x \in Int, NEW y \in Int,
         S!Below(xs, x) < i, j <= S!NotAbove(xs, y)
  PROVE  x <= y
<1> SUFFICES ASSUME y < x PROVE FALSE
  OBVIOUS
<1>1. S!NotAbove(xs, y) <= S!Below(xs, x)
  BY CountsGrow
<1>2. S!NotAbove(xs, y) \in Int /\ S!Below(xs, x) \in Int
  <2>1. Len(xs) \in Nat
    BY LenProperties
  <2>2. S!NotAbove(xs, y) \in 0..Len(xs) /\ S!Below(xs, x) \in 0..Len(xs)
    BY CountsMean
  <2> QED
    BY <2>1, <2>2
<1> QED
  BY <1>1, <1>2

-----------------------------------------------------------------------------
(* The median                                                              *)

\* Half of the sample is not above x, half not below.
LEMMA OneSide ==
  ASSUME NEW xs \in Seq(Int), NEW m \in 1..Len(xs), NEW c \in Int
  PROVE  LET v == S!ascending(xs)[m]
             Low == {k \in 1..Len(xs) : 2 * xs[k] <= c}
             High == {k \in 1..Len(xs) : 2 * xs[k] >= c}
         IN /\ 2 * v <= c => m <= Cardinality(Low)
            /\ 2 * v >= c => Len(xs) - m < Cardinality(High)
<1> DEFINE n == Len(xs)
           v == S!ascending(xs)[m]
           Low == {k \in 1..n : 2 * xs[k] <= c}
           High == {k \in 1..n : 2 * xs[k] >= c}
           A == {k \in 1..n : xs[k] <= v}
           B == {k \in 1..n : xs[k] < v}
<1>1. n \in Nat /\ \A k \in 1..n : xs[k] \in Int
  BY LenProperties
<1>2. v \in Int /\ S!Below(xs, v) < m /\ m <= S!NotAbove(xs, v)
  BY Ascending
<1>3. S!Below(xs, v) = Cardinality(B) /\ S!NotAbove(xs, v) = Cardinality(A)
  <2> HIDE DEF v
  <2> QED
    BY <1>2, CountsMean
<1> HIDE DEF v
<1>4. ASSUME 2 * v <= c PROVE m <= Cardinality(Low)
  <2>1. Low \in SUBSET (1..n) /\ A \in SUBSET Low
    BY <1>1, <1>2, <1>4
  <2>2. Cardinality(A) \in 0..Cardinality(Low) /\ Cardinality(Low) \in 0..n
    <3> HIDE DEF A, Low
    <3> QED
      BY <2>1, PartOfSample
  <2> HIDE DEF A, Low
  <2> QED
    BY <1>2, <1>3, <2>2
<1>5. ASSUME 2 * v >= c PROVE n - m < Cardinality(High)
  <2>1. High \in SUBSET (1..n) /\ (1..n) \ B \in SUBSET High /\ B \in SUBSET (1..n)
    BY <1>1, <1>2, <1>5
  <2>2. Cardinality((1..n) \ B) \in 0..Cardinality(High) /\ Cardinality(High) \in 0..n
    <3> HIDE DEF B, High
    <3> QED
      BY <2>1, PartOfSample
  <2>3. Cardinality((1..n) \ B) = n - Cardinality(B) /\ Cardinality(B) \in 0..n
    <3> HIDE DEF B
    <3>1. (1..n) \cap B = B
      BY <2>1
    <3>2. IsFiniteSet(1..n)
      BY <1>1, FS_Interval
    <3>3. 1..n \in SUBSET (1..n)
      OBVIOUS
    <3>4. Cardinality(1..n) = n /\ Cardinality(B) \in 0..n
      <4>1. B \in SUBSET (1..n) /\ {} \in SUBSET B
        BY <2>1
      <4> QED
        BY <4>1, PartOfSample
    <3> QED
      BY <3>1, <3>2, <3>4, FS_Difference
  <2> HIDE DEF B, High
  <2> QED
    BY <1>1, <1>2, <1>3, <2>2, <2>3
<1> QED
  BY <1>4, <1>5 DEF v

LEMMA MedianHalves ==
  ASSUME NEW xs \in Seq(Int), Len(xs) > 0
  PROVE  LET c == S!median2(xs)
             Low == {k \in 1..Len(xs) : 2 * xs[k] <= c}
             High == {k \in 1..Len(xs) : 2 * xs[k] >= c}
         IN /\ c \in Int
            /\ 2 * Cardinality(Low) >= Len(xs) /\ 2 * Cardinality(High) >= Len(xs)
<1> DEFINE n == Len(xs)
           s == S!ascending(xs)
           c == S!median2(xs)
           Low == {k \in 1..Len(xs) : 2 * xs[k] <= c}
           High == {k \in 1..Len(xs) : 2 * xs[k] >= c}
<1>1. n \in Nat /\ n > 0
  BY LenProperties
<1>2. c = IF n % 2 = 1 THEN 2 * s[(n + 1) \div 2] ELSE s[n \div 2] + s[n \div 2 + 1]
  BY DEF S!median2
<1>3. Cardinality(Low) \in Nat /\ Cardinality(High) \in Nat
  <2>1. Low \in SUBSET (1..n) /\ {} \in SUBSET Low
        /\ High \in SUBSET (1..n) /\ {} \in SUBSET High
    OBVIOUS
  <2> HIDE DEF Low, High
  <2>2. Cardinality(Low) \in 0..n /\ Cardinality(High) \in 0..n
    BY <2>1, PartOfSample
  <2> QED
    BY <2>2
<1>4. CASE n % 2 = 1
  <2> DEFINE m == (n + 1) \div 2
  <2>1. m \in 1..n /\ 2 * m = n + 1
    BY <1>1, <1>4
  <2> HIDE DEF m
  <2>2. s[m] \in Int
    BY <2>1, Ascending
  <2>3. c = 2 * s[m]
    BY <1>2, <1>4 DEF m
  <2>4. c \in Int /\ 2 * s[m] <= c /\ 2 * s[m] >= c
    BY <2>2, <2>3
  <2>5. m <= Cardinality(Low) /\ n - m < Cardinality(High)
    <3> HIDE DEF c
    <3> QED
      BY <2>1, <2>4, OneSide
  <2> HIDE DEF Low, High, c
  <2> QED
    BY <1>1, <1>3, <2>1, <2>4, <2>5 DEF Low, High, c
<1>5. CASE n % 2 # 1
  <2> DEFINE m == n \div 2
  <2>1. m \in 1..n /\ m + 1 \in 1..n /\ 2 * m = n
    BY <1>1, <1>5
  <2> HIDE DEF m
  <2>2. s[m] \in Int /\ s[m + 1] \in Int
    BY <2>1, Ascending
  <2>3. s[m] <= s[m + 1]
    <3>1. S!Below(xs, s[m]) < m /\ m + 1 <= S!NotAbove(xs, s[m + 1])
      BY <2>1, Ascending
    <3>2. m \in Int /\ m + 1 \in Int /\ m <= m + 1
      BY <2>1
    <3> HIDE DEF s
    <3> QED
      BY <2>2, <3>1, <3>2, PlacesAreInOrder
  <2>4. c = s[m] + s[m + 1]
    BY <1>2, <1>5 DEF m
  <2>5. c \in Int /\ 2 * s[m] <= c /\ 2 * s[m + 1] >= c
    BY <2>2, <2>3, <2>4
  <2>6. m <= Cardinality(Low)
    <3> HIDE DEF c
    <3> QED
      BY <2>1, <2>5, OneSide
  <2>7. n - (m + 1) < Cardinality(High)
    <3> HIDE DEF c
    <3> QED
      BY <2>1, <2>5, OneSide
  <2> HIDE DEF Low, High, c
  <2> QED
    BY <1>1, <1>3, <2>1, <2>5, <2>6, <2>7 DEF Low, High, c
<1> QED
  BY <1>4, <1>5

\* The median is within one standard deviation of the mean (both times 2n).
LEMMA MedianNearMean ==
  ASSUME NEW xs \in Seq(Int), Len(xs) > 0
  PROVE  LET e == Len(xs) * S!median2(xs) - 2 * S!total(xs)
         IN e \in Int /\ S!dispersion(xs) \in Int /\ e * e <= 4 * S!dispersion(xs)
<1> DEFINE n == Len(xs)
           c == S!median2(xs)
           t == S!total(xs)
           q == S!squares(xs)
           e == n * c - 2 * t
           a == 2 * n
           b == e - 2 * t
           w == 4 * (e * e)
           Low == {k \in 1..n : 2 * xs[k] <= c}
           High == {k \in 1..n : 2 * xs[k] >= c}
<1>1. n \in Nat /\ n > 0 /\ \A k \in 1..n : xs[k] \in Int
  BY LenProperties
<1>2. c \in Int /\ 2 * Cardinality(Low) >= n /\ 2 * Cardinality(High) >= n
  <2> HIDE DEF c
  <2> QED
    BY MedianHalves DEF c
<1>3. t \in Int
  BY <1>1, Sums DEF S!total
<1> HIDE DEF n, c, t, q
<1>4. e \in Int /\ a \in Int /\ b \in Int
  BY <1>1, <1>2, <1>3
<1>5. w \in Nat
  <2> HIDE DEF e
  <2>1. \A y \in Int : y * y \in Nat
    OBVIOUS
  <2> QED
    BY <1>4, <2>1
<1>6. ASSUME NEW U \in SUBSET (1..n), 2 * Cardinality(U) >= n,
             \A k \in U : (a * xs[k] + b) * (a * xs[k] + b) >= w
      PROVE  q \in Int /\ e * e <= 4 * (n * q - t * t)
  <2>1. /\ q \in Int /\ Cardinality(U) \in Nat
        /\ (a * a) * q + (2 * a * b) * t + n * (b * b) >= w * Cardinality(U)
    <3> HIDE DEF a, b, w, e
    <3> QED
      BY <1>4, <1>5, <1>6, SumOfSquares DEF n, t, q
  <2>2. w * Cardinality(U) >= n * (2 * (e * e))
    <3> DEFINE h == e * e
               u == Cardinality(U)
    <3>1. h \in Nat /\ u \in Nat /\ 2 * u >= n
      <4> HIDE DEF e
      <4>1. \A y \in Int : y * y \in Nat
        OBVIOUS
      <4> QED
        BY <1>4, <1>6, <2>1, <4>1
    <3> HIDE DEF h, u
    <3>2. (2 * u) * h >= n * h
      BY <1>1, <3>1
    <3>3. (4 * h) * u = 2 * ((2 * u) * h) /\ n * (2 * h) = 2 * (n * h)
      BY <1>1, <3>1
    <3>4. (2 * u) * h \in Int /\ n * h \in Int
      BY <1>1, <3>1
    <3>5. (4 * h) * u >= n * (2 * h)
      BY <3>2, <3>3, <3>4
    <3> QED
      BY <3>5 DEF h, u
  <2>3. (a * a) * q + (2 * a * b) * t + n * (b * b)
          = n * (4 * (n * q) + 4 * (b * t) + b * b)
    <3> HIDE DEF b
    <3> QED
      BY <1>1, <1>3, <1>4, <2>1
  <2> DEFINE l == 4 * (n * q) + 4 * (b * t) + b * b
             r == 2 * (e * e)
  <2>4. l \in Int /\ r \in Int
    <3> HIDE DEF b, e
    <3> QED
      BY <1>1, <1>3, <1>4, <2>1
  <2>5. n * l >= n * r
    <3>1. w * Cardinality(U) \in Int /\ n * l \in Int /\ n * r \in Int
      <4> HIDE DEF w, l, r
      <4> QED
        BY <1>1, <1>5, <2>1, <2>4
    <3> HIDE DEF w
    <3> QED
      BY <2>1, <2>2, <2>3, <3>1
  <2>6. l >= r
    <3> HIDE DEF l, r
    <3>1. n * (l - r) >= 0
      BY <1>1, <2>4, <2>5
    <3>2. \A y \in Int : n * y >= 0 => y >= 0
      BY <1>1
    <3> QED
      BY <2>4, <3>1, <3>2
  <2>7. 4 * (b * t) + b * b = e * e - 4 * (t * t)
    <3> SUFFICES ASSUME NEW z \in Int
                 PROVE  4 * ((z - 2 * t) * t) + (z - 2 * t) * (z - 2 * t)
                          = z * z - 4 * (t * t)
      BY <1>4
    <3> QED
      BY <1>3
  <2>8. e * e \in Int /\ t * t \in Int /\ n * q \in Int /\ b * t \in Int /\ b * b \in Int
    <3> HIDE DEF b, e
    <3> QED
      BY <1>1, <1>3, <1>4, <2>1
  <2> QED
    <3> DEFINE ee == e * e
               tt == t * t
               nq == n * q
               bt == b * t
               bb == b * b
    <3>1. /\ ee \in Int /\ tt \in Int /\ nq \in Int /\ bt \in Int /\ bb \in Int
          /\ 4 * nq + 4 * bt + bb >= 2 * ee /\ 4 * bt + bb = ee - 4 * tt
      BY <2>6, <2>7, <2>8
    <3> HIDE DEF ee, tt, nq, bt, bb
    <3>2. ee <= 4 * (nq - tt)
      BY <3>1
    <3> QED
      BY <2>1, <3>2 DEF ee, tt, nq
\* The samples on the median's far side from the mean.
<1>7. ASSUME NEW k \in 1..n
      PROVE  /\ e >= 0 /\ 2 * xs[k] >= c => (a * xs[k] + b) * (a * xs[k] + b) >= w
             /\ e < 0 /\ 2 * xs[k] <= c => (a * xs[k] + b) * (a * xs[k] + b) >= w
  <2> DEFINE y == a * xs[k] + b
  <2>1. xs[k] \in Int
    BY <1>1, <1>7
  <2>2. y = n * (2 * xs[k] - c) + 2 * e /\ y \in Int
    BY <1>1, <1>2, <1>3, <2>1
  <2>3. (2 * xs[k] >= c => n * (2 * xs[k] - c) >= 0)
        /\ (2 * xs[k] <= c => n * (2 * xs[k] - c) <= 0)
        /\ n * (2 * xs[k] - c) \in Int
    <3> SUFFICES ASSUME NEW z \in Int
                 PROVE  (z >= 0 => n * z >= 0) /\ (z <= 0 => n * z <= 0) /\ n * z \in Int
      <4>1. 2 * xs[k] - c \in Int /\ (2 * xs[k] >= c <=> 2 * xs[k] - c >= 0)
            /\ (2 * xs[k] <= c <=> 2 * xs[k] - c <= 0)
        <5> DEFINE x == xs[k]
        <5>1. x \in Int /\ c \in Int
          BY <1>2, <2>1
        <5> HIDE DEF x
        <5>2. 2 * x - c \in Int /\ (2 * x >= c <=> 2 * x - c >= 0)
              /\ (2 * x <= c <=> 2 * x - c <= 0)
          BY <5>1
        <5> QED
          BY <5>2 DEF x
      <4> DEFINE z == 2 * xs[k] - c
      <4>2. (z >= 0 => n * z >= 0) /\ (z <= 0 => n * z <= 0) /\ n * z \in Int
        BY <4>1
      <4> HIDE DEF z
      <4> QED
        BY <4>1, <4>2 DEF z
    <3>1. n * z \in Int /\ n * (-z) = -(n * z)
      BY <1>1
    <3>2. z >= 0 => n * z >= 0
      BY <1>1
    <3>3. -z >= 0 => n * (-z) >= 0
      BY <1>1
    <3> QED
      BY <3>1, <3>2, <3>3
  <2> HIDE DEF y, e
  <2>4. (e >= 0 /\ 2 * xs[k] >= c => y >= 2 * e)
        /\ (e < 0 /\ 2 * xs[k] <= c => y <= 2 * e)
    BY <1>4, <2>2, <2>3
  <2>5. (e >= 0 /\ y >= 2 * e => y * y >= 4 * (e * e))
        /\ (e < 0 /\ y <= 2 * e => y * y >= 4 * (e * e))
    <3>1. \A z \in Nat, g \in Nat : z >= 2 * g => z * z >= 4 * (g * g)
      <4> SUFFICES ASSUME NEW z \in Nat, NEW g \in Nat, z >= 2 * g
                   PROVE  z * z >= 4 * (g * g)
        OBVIOUS
      <4>1. z * z >= (2 * g) * z /\ (2 * g) * z >= (2 * g) * (2 * g)
        OBVIOUS
      <4>2. (2 * g) * (2 * g) = 4 * (g * g)
        OBVIOUS
      <4>3. z * z \in Int /\ (2 * g) * z \in Int /\ g * g \in Int
        OBVIOUS
      <4> QED
        BY <4>1, <4>2, <4>3
    <3>2. (-y) * (-y) = y * y /\ (-e) * (-e) = e * e
      BY <1>4, <2>2
    <3>3. CASE e >= 0 /\ y >= 2 * e
      <4>1. e \in Nat /\ y \in Nat
        BY <1>4, <2>2, <3>3
      <4>2. y * y >= 4 * (e * e)
        BY <3>1, <3>3, <4>1
      <4> QED
        BY <1>4, <3>3, <4>2
    <3>4. CASE e < 0 /\ y <= 2 * e
      <4>1. -e \in Nat /\ -y \in Nat /\ -y >= 2 * (-e)
        BY <1>4, <2>2, <3>4
      <4>2. (-y) * (-y) >= 4 * ((-e) * (-e))
        BY <3>1, <4>1
      <4> QED
        BY <1>4, <3>2, <3>4, <4>2
    <3> QED
      BY <3>3, <3>4
  <2> QED
    BY <2>4, <2>5 DEF y
<1>8. q \in Int /\ e * e <= 4 * (n * q - t * t)
  <2>1. Low \in SUBSET (1..n) /\ High \in SUBSET (1..n)
    OBVIOUS
  <2>2. CASE e >= 0
    <3>1. \A k \in High : (a * xs[k] + b) * (a * xs[k] + b) >= w
      <4> HIDE DEF e, a, b, w
      <4> QED
        BY <1>7, <2>2
    <3> HIDE DEF e, a, b, w, High
    <3> QED
      BY <1>2, <1>6, <2>1, <3>1
  <2>3. CASE e < 0
    <3>1. \A k \in Low : (a * xs[k] + b) * (a * xs[k] + b) >= w
      <4> HIDE DEF e, a, b, w
      <4> QED
        BY <1>7, <2>3
    <3> HIDE DEF e, a, b, w, Low
    <3> QED
      BY <1>2, <1>6, <2>1, <3>1
  <2> QED
    <3> HIDE DEF e
    <3> QED
      BY <1>4, <2>2, <2>3
<1>9. S!dispersion(xs) = n * q - t * t /\ n * q - t * t \in Int
  BY <1>1, <1>3, <1>8 DEF S!dispersion, n, q, t
<1> QED
  <2> HIDE DEF e
  <2>1. e * e <= 4 * S!dispersion(xs) /\ S!dispersion(xs) \in Int
    BY <1>8, <1>9
  <2> QED
    BY <1>4, <2>1 DEF e, n, c, t

-----------------------------------------------------------------------------
(* What the statistics say of a sample                                     *)

LEMMA Extremes ==
  ASSUME NEW xs \in Seq(Int), Len(xs) > 0
  PROVE  LET lo == S!ascending(xs)[1]
             hi == S!ascending(xs)[Len(xs)]
         IN /\ lo \in Int /\ hi \in Int
            /\ \A k \in 1..Len(xs) : lo <= xs[k] /\ xs[k] <= hi
            /\ 2 * lo <= S!median2(xs) /\ S!median2(xs) <= 2 * hi
<1> DEFINE n == Len(xs)
           s == S!ascending(xs)
           lo == s[1]
           hi == s[n]
<1>1. n \in Nat /\ 1 \in 1..n /\ n \in 1..n /\ \A k \in 1..n : xs[k] \in Int
  BY LenProperties
<1>2. \A m \in 1..n : s[m] \in Int /\ S!Below(xs, s[m]) < m /\ m <= S!NotAbove(xs, s[m])
  BY Ascending
<1>3. \A m \in 1..n : lo <= s[m] /\ s[m] <= hi
  <2> SUFFICES ASSUME NEW m \in 1..n PROVE lo <= s[m] /\ s[m] <= hi
    OBVIOUS
  <2>1. m \in Int /\ n \in Int /\ 1 \in Int /\ 1 <= m /\ m <= n
    BY <1>1
  <2> HIDE DEF s
  <2> QED
    BY <1>1, <1>2, <2>1, PlacesAreInOrder
<1> HIDE DEF s
<1>4. ASSUME NEW k \in 1..n PROVE lo <= xs[k] /\ xs[k] <= hi
  <2>1. S!Below(xs, xs[k]) \in 0..n /\ S!NotAbove(xs, xs[k]) \in 0..n
        /\ S!Below(xs, lo) \in 0..n /\ S!NotAbove(xs, hi) \in 0..n
        /\ S!Below(xs, hi) \in 0..n /\ S!NotAbove(xs, lo) \in 0..n
    BY <1>1, <1>2, <1>4, CountsMean
  <2>2. S!Below(xs, xs[k]) < S!NotAbove(xs, xs[k])
    BY CountsTell
  <2>3. xs[k] < lo => S!NotAbove(xs, xs[k]) <= S!Below(xs, lo)
    BY <1>1, <1>2, <1>4, CountsGrow
  <2>4. hi < xs[k] => S!NotAbove(xs, hi) <= S!Below(xs, xs[k])
    BY <1>1, <1>2, <1>4, CountsGrow
  <2>5. S!Below(xs, lo) < 1 /\ n <= S!NotAbove(xs, hi) /\ lo \in Int /\ hi \in Int
    BY <1>1, <1>2
  <2>6. xs[k] \in Int
    BY <1>1, <1>4
  <2> HIDE DEF lo, hi
  <2> QED
    BY <1>1, <2>1, <2>2, <2>3, <2>4, <2>5, <2>6
<1>5. 2 * lo <= S!median2(xs) /\ S!median2(xs) <= 2 * hi
  <2>1. S!median2(xs) = IF n % 2 = 1 THEN 2 * s[(n + 1) \div 2]
                                     ELSE s[n \div 2] + s[n \div 2 + 1]
    BY DEF S!median2, s
  <2>2. CASE n % 2 = 1
    <3>1. (n + 1) \div 2 \in 1..n
      BY <1>1, <2>2
    <3> QED
      BY <1>1, <1>2, <1>3, <2>1, <2>2, <3>1
  <2>3. CASE n % 2 # 1
    <3>1. n \div 2 \in 1..n /\ n \div 2 + 1 \in 1..n
      BY <1>1, <2>3
    <3>2. /\ s[n \div 2] \in Int /\ s[n \div 2 + 1] \in Int
          /\ lo <= s[n \div 2] /\ s[n \div 2] <= hi
          /\ lo <= s[n \div 2 + 1] /\ s[n \div 2 + 1] <= hi
      <4> HIDE DEF lo, hi, n
      <4> QED
        BY <1>2, <1>3, <3>1
    <3>3. S!median2(xs) = s[n \div 2] + s[n \div 2 + 1] /\ lo \in Int /\ hi \in Int
      BY <1>1, <1>2, <2>1, <2>3
    <3> HIDE DEF lo, hi
    <3> QED
      BY <3>2, <3>3
  <2> QED
    BY <2>2, <2>3
<1> QED
  BY <1>1, <1>2, <1>4, <1>5 DEF s

\* stats.ts:28: the sample at the percentile's place covers 95 % of the
\* sample, and no lower one does, whatever the sample.
THEOREM PercentileOfSample ==
  ASSUME NEW xs \in Seq(Int), Len(xs) > 0
  PROVE  LET p95 == S!ascending(xs)[S!p95Idx(Len(xs))]
         IN /\ 100 * S!NotAbove(xs, p95) >= 95 * Len(xs)
            /\ \A k \in 1..Len(xs) :
                 xs[k] < p95 => 100 * S!NotAbove(xs, xs[k]) < 95 * Len(xs)
<1> DEFINE n == Len(xs)
           i == S!p95Idx(n)
           p95 == S!ascending(xs)[i]
<1>1. n \in Nat \ {0} /\ \A k \in 1..n : xs[k] \in Int
  BY LenProperties
<1>2. i \in 1..n /\ 100 * i >= 95 * n /\ 100 * (i - 1) < 95 * n
  BY <1>1, PercentileRank
<1>3. p95 \in Int /\ S!Below(xs, p95) < i /\ i <= S!NotAbove(xs, p95)
  <2> HIDE DEF i
  <2> QED
    BY <1>2, Ascending
<1> HIDE DEF i, p95
<1>4. S!NotAbove(xs, p95) \in 0..n /\ S!Below(xs, p95) \in 0..n
  BY <1>3, CountsMean
<1>5. ASSUME NEW k \in 1..n, xs[k] < p95
      PROVE  100 * S!NotAbove(xs, xs[k]) < 95 * n
  <2>1. S!NotAbove(xs, xs[k]) <= S!Below(xs, p95)
    BY <1>1, <1>3, <1>5, CountsGrow
  <2>2. S!NotAbove(xs, xs[k]) \in 0..n
    BY <1>1, CountsMean
  <2> QED
    BY <1>1, <1>2, <1>3, <1>4, <2>1, <2>2
<1>6. 100 * S!NotAbove(xs, p95) >= 95 * n
  BY <1>1, <1>2, <1>3, <1>4
<1> QED
  BY <1>5, <1>6 DEF p95, i

\* bench_env.ts:275: of non-negative times, the headline is within a fifth of
\* the mean of the median, and between the least and the greatest, whatever
\* the outliers.
THEOREM HeadlineOfSample ==
  ASSUME NEW xs \in Seq(Nat), Len(xs) > 0
  PROVE  LET r == S!summarize(xs)
             h == S!headline(r).value
         IN /\ 5 * Abs(h - r.n * r.median2) <= 2 * r.sum
            /\ 2 * r.n * r.min <= h /\ h <= 2 * r.n * r.max
<1> DEFINE n == Len(xs)
           c == S!median2(xs)
           t == S!total(xs)
           d == S!dispersion(xs)
           lo == S!ascending(xs)[1]
           hi == S!ascending(xs)[n]
           e == n * c - 2 * t
           r == S!summarize(xs)
           h == S!headline(r).value
<1>1. n \in Nat /\ n > 0 /\ \A k \in 1..n : xs[k] \in Nat
  BY LenProperties
<1>2. xs \in Seq(Int)
  <2>1. xs \in [1..n -> Int]
    BY LenProperties
  <2> QED
    BY <1>1, <2>1, SeqDef
<1>3. /\ lo \in Int /\ hi \in Int
      /\ \A k \in 1..n : lo <= xs[k] /\ xs[k] <= hi
      /\ 2 * lo <= c /\ c <= 2 * hi
  BY <1>2, Extremes
<1>4. t \in Int /\ n * lo <= t /\ t <= n * hi
  <2> HIDE DEF lo, hi
  <2> QED
    BY <1>1, <1>2, <1>3, TotalBounds
<1>5. e \in Int /\ d \in Int /\ e * e <= 4 * d
  BY <1>2, MedianNearMean
<1>6. c \in Int
  BY <1>2, MedianHalves
<1>7. /\ r.n = n /\ r.sum = t /\ r.median2 = c /\ r.dispersion = d
      /\ r.min = lo /\ r.max = hi
  BY DEF S!summarize
<1>8. h = IF S!Exceeds(n, t, d, 1, 5) THEN n * c ELSE 2 * t
  BY <1>7 DEF S!headline, S!highVariance
<1>9. \A k \in 1..n : xs[k] <= t
  BY <1>1, <1>2, PartsOfTotal
<1> HIDE DEF n, c, t, d, lo, hi, r, h
<1>10. 0 <= lo /\ 0 <= t /\ (t = 0 => c = 0)
  <2>1. S!Below(xs, lo) < 1 /\ 1 <= S!NotAbove(xs, lo)
        /\ \E k \in 1..n : lo = xs[k]
    <3>1. 1 \in 1..n
      BY <1>1
    <3> QED
      BY <1>2, <3>1, Ascending DEF lo, n
  <2>2. \E k \in 1..n : hi = xs[k]
    <3>1. n \in 1..n
      BY <1>1
    <3> QED
      BY <1>2, <3>1, Ascending DEF hi, n
  <2>3. lo \in Nat /\ hi \in Nat /\ lo <= t /\ hi <= t
    BY <1>1, <1>9, <2>1, <2>2
  <2> QED
    BY <1>3, <1>4, <1>6, <2>3
<1>11. 2 * n * lo <= h /\ h <= 2 * n * hi
  <2>1. 2 * n * lo = 2 * (n * lo) /\ 2 * n * hi = 2 * (n * hi)
        /\ n * lo \in Int /\ n * hi \in Int
    BY <1>1, <1>3
  <2>2. n * (2 * lo) <= n * c /\ n * c <= n * (2 * hi)
    <3>1. \A x, y \in Int : x <= y => n * x <= n * y
      BY <1>1
    <3> QED
      BY <1>3, <1>6, <3>1
  <2>3. n * (2 * lo) = 2 * n * lo /\ n * (2 * hi) = 2 * n * hi
    BY <1>1, <1>3
  <2> QED
    BY <1>4, <1>8, <2>1, <2>2, <2>3
<1>12. 5 * Abs(h - n * c) <= 2 * t
  <2>1. n * c \in Int
    BY <1>1, <1>6
  <2>2. CASE S!Exceeds(n, t, d, 1, 5)
    <3>1. h - n * c = 0
      BY <1>8, <2>1, <2>2
    <3> QED
      BY <1>4, <1>10, <3>1 DEF Abs
  <2>3. CASE ~S!Exceeds(n, t, d, 1, 5)
    <3>1. h - n * c = -e
      BY <1>4, <1>8, <2>1, <2>3
    <3>2. CASE t = 0
      <4>1. e = 0
        BY <1>1, <1>10, <3>2
      <4> QED
        BY <3>1, <3>2, <4>1 DEF Abs
    <3>3. CASE t > 0 /\ n = 1
      <4>1. d = 0
        <5>1. /\ S!sums(xs)[1] = xs[1] /\ xs[1] \in Int
              /\ S!total(xs) = S!sums(xs)[1]
          <6>1. Len(xs) = 1
            BY <3>3 DEF n
          <6>2. S!sums(xs)[0] = 0 /\ S!sums(xs)[1] = S!sums(xs)[1 - 1] + xs[1]
            BY <1>2, <6>1, Sums
          <6> QED
            BY <1>1, <3>3, <6>1, <6>2 DEF S!total
        <5> DEFINE ys == [k \in DOMAIN xs |-> xs[k] * xs[k]]
        <5>2. DOMAIN xs = 1..1 /\ Len(xs) = 1
          BY <1>2, <3>3, LenProperties DEF n
        <5>3. ys \in Seq(Int) /\ Len(ys) = 1
          <6>1. ys \in [1..1 -> Int]
            BY <5>1, <5>2
          <6> HIDE DEF ys
          <6> QED
            BY <6>1, FunctionIsSample
        <5>4. S!squares(xs) = xs[1] * xs[1]
          <6>1. S!squares(xs) = S!sums(ys)[1]
            <7> HIDE DEF ys
            <7>1. S!total(ys) = S!sums(ys)[1]
              BY <5>3 DEF S!total
            <7>2. S!squares(xs) = S!total(ys)
              BY DEF S!squares, ys
            <7> QED
              BY <7>1, <7>2
          <6>2. S!sums(ys)[0] = 0 /\ S!sums(ys)[1] = S!sums(ys)[1 - 1] + ys[1]
            <7> HIDE DEF ys
            <7> QED
              BY <5>3, Sums
          <6>3. ys[1] = xs[1] * xs[1]
            BY <5>2
          <6> HIDE DEF ys
          <6> QED
            BY <5>1, <6>1, <6>2, <6>3
        <5> QED
          BY <5>1, <5>2, <5>4 DEF d, S!dispersion
      <4>2. e = 0
        <5> HIDE DEF e
        <5>1. e * e <= 0
          BY <1>5, <4>1
        <5>2. \A y \in Int : y * y <= 0 => y = 0
          OBVIOUS
        <5> QED
          BY <1>5, <5>1, <5>2
      <4> QED
        BY <1>4, <3>1, <3>3, <4>2 DEF Abs
    <3>4. CASE t > 0 /\ n > 1
      <4>1. 25 * (n * d) <= (n - 1) * (t * t)
        <5>1. ~(5 * 5 * n * d > 1 * 1 * (n - 1) * t * t)
          BY <2>3, <3>4 DEF S!Exceeds
        <5>2. 5 * 5 * n * d = 25 * (n * d) /\ 1 * 1 * (n - 1) * t * t = (n - 1) * (t * t)
              /\ n * d \in Int /\ (n - 1) * (t * t) \in Int
          BY <1>1, <1>4, <1>5
        <5> QED
          BY <5>1, <5>2
      <4> HIDE DEF e
      <4>2. n * (e * e) <= 4 * (n * d)
        <5>1. \A x, y \in Int : x <= y => n * x <= n * y
          BY <1>1
        <5>2. e * e \in Int /\ 4 * d \in Int /\ n * (4 * d) = 4 * (n * d)
          BY <1>1, <1>5
        <5> QED
          BY <1>5, <5>1, <5>2
      <4>3. (n - 1) * (t * t) <= n * (t * t)
        <5>1. t * t \in Nat
          BY <1>4, <1>10
        <5>2. (n - 1) * (t * t) = n * (t * t) - t * t
          BY <1>1, <1>4
        <5>3. n * (t * t) \in Int
          BY <1>1, <5>1
        <5> QED
          BY <5>1, <5>2, <5>3
      <4>4. 25 * (e * e) <= 4 * (t * t)
        <5> DEFINE ee == e * e
                   tt == t * t
                   nd == n * d
        <5>1. ee \in Int /\ tt \in Int /\ nd \in Int
          BY <1>1, <1>4, <1>5
        <5>2. 25 * nd <= (n - 1) * tt /\ n * ee <= 4 * nd /\ (n - 1) * tt <= n * tt
          BY <4>1, <4>2, <4>3
        <5> HIDE DEF ee, tt, nd
        <5>3. n * ee \in Int /\ n * tt \in Int /\ (n - 1) * tt \in Int
          BY <1>1, <5>1
        <5>4. 25 * (n * ee) <= 4 * (n * tt)
          BY <5>1, <5>2, <5>3
        <5>5. n * (4 * tt - 25 * ee) >= 0
          <6>1. n * (4 * tt - 25 * ee) = 4 * (n * tt) - 25 * (n * ee)
            BY <1>1, <5>1
          <6> QED
            BY <5>3, <5>4, <6>1
        <5>6. \A y \in Int : n * y >= 0 => y >= 0
          BY <1>1
        <5>7. 4 * tt - 25 * ee \in Int
          BY <5>1
        <5>8. 4 * tt - 25 * ee >= 0
          BY <5>5, <5>6, <5>7
        <5> QED
          BY <5>1, <5>8 DEF ee, tt
      <4>5. \A y \in Nat : y * y = e * e => 5 * y <= 2 * t
        <5> SUFFICES ASSUME NEW y \in Nat, y * y = e * e, 5 * y > 2 * t PROVE FALSE
          BY <1>4
        <5> DEFINE f == 5 * y
                   g == 2 * t
        <5>1. f \in Nat /\ g \in Nat /\ f > g
          BY <1>4, <1>10
        <5>2. f * f = 25 * (y * y) /\ g * g = 4 * (t * t)
          BY <1>4
        <5> HIDE DEF f, g
        <5>3. f * f > g * g
          BY <5>1
        <5>4. y * y \in Int /\ t * t \in Int
          BY <1>4
        <5> QED
          BY <4>4, <5>2, <5>3, <5>4
      <4>6. Abs(-e) \in Nat /\ Abs(-e) * Abs(-e) = e * e
        <5>1. CASE e >= 0
          <6>1. Abs(-e) = e
            BY <1>5, <5>1 DEF Abs
          <6> QED
            BY <1>5, <5>1, <6>1
        <5>2. CASE e < 0
          <6>1. Abs(-e) = -e
            BY <1>5, <5>2 DEF Abs
          <6> QED
            BY <1>5, <5>2, <6>1
        <5> QED
          BY <1>5, <5>1, <5>2
      <4> QED
        BY <3>1, <4>5, <4>6
    <3> QED
      BY <1>1, <1>4, <1>10, <3>2, <3>3, <3>4
  <2> QED
    BY <2>2, <2>3
<1> QED
  BY <1>7, <1>11, <1>12 DEF r, h

-----------------------------------------------------------------------------
(* Three invocations                                                       *)

LEMMA TotalOfThree ==
  ASSUME NEW f \in [1..3 -> Int]
  PROVE  /\ f \in Seq(Int) /\ Len(f) = 3
         /\ S!total(f) = f[1] + f[2] + f[3]
<1>1. f \in Seq(Int) /\ Len(f) = 3
  BY FunctionIsSample
<1>2. /\ S!sums(f)[0] = 0
      /\ \A k \in 1..3 : S!sums(f)[k] = S!sums(f)[k - 1] + f[k]
  BY <1>1, Sums
<1>3. /\ S!sums(f)[1] = S!sums(f)[0] + f[1]
      /\ S!sums(f)[2] = S!sums(f)[1] + f[2]
      /\ S!sums(f)[3] = S!sums(f)[2] + f[3]
  <2>1. 1 - 1 = 0 /\ 2 - 1 = 1 /\ 3 - 1 = 2
    OBVIOUS
  <2> QED
    BY <1>2, <2>1
<1>4. f[1] \in Int /\ f[2] \in Int /\ f[3] \in Int
  OBVIOUS
<1>5. S!total(f) = S!sums(f)[3]
  BY <1>1 DEF S!total
<1> QED
  BY <1>1, <1>2, <1>3, <1>4, <1>5

LEMMA SpreadOfThree ==
  ASSUME NEW f \in [1..3 -> Int]
  PROVE  S!dispersion(f) = 3 * (f[1] * f[1] + f[2] * f[2] + f[3] * f[3])
                             - S!total(f) * S!total(f)
<1> DEFINE g == [k \in DOMAIN f |-> f[k] * f[k]]
<1>1. /\ g \in [1..3 -> Int]
      /\ g[1] = f[1] * f[1] /\ g[2] = f[2] * f[2] /\ g[3] = f[3] * f[3]
  OBVIOUS
<1>2. S!squares(f) = S!total(g)
  BY DEF S!squares
<1> HIDE DEF g
<1>3. S!total(g) = g[1] + g[2] + g[3]
  BY <1>1, TotalOfThree
<1>4. Len(f) = 3
  BY TotalOfThree
<1> QED
  BY <1>1, <1>2, <1>3, <1>4 DEF S!dispersion

\* Of three invocations in the order of their medians one is in the middle.
LEMMA OneIsInTheMiddle ==
  ASSUME NEW R, NEW perRun \in [1..3 -> R],
         \A k \in 1..3 : perRun[k].median2 \in Int
  PROVE  \E j, k \in 1..3 : {i \in 1..3 : S!SortedBefore(perRun, i, k)} = {j}
<1> DEFINE m(k) == perRun[k].median2
           Before(i, k) == m(i) < m(k) \/ (m(i) = m(k) /\ i < k)
<1>1. m(1) \in Int /\ m(2) \in Int /\ m(3) \in Int
  OBVIOUS
<1>2. \A i, k \in 1..3 : S!SortedBefore(perRun, i, k) <=> Before(i, k)
  BY DEF S!SortedBefore
<1> HIDE DEF m
<1>3. /\ \A k \in {1, 2, 3} : ~Before(k, k)
      /\ Before(1, 2) <=> ~Before(2, 1)
      /\ Before(1, 3) <=> ~Before(3, 1)
      /\ Before(2, 3) <=> ~Before(3, 2)
      /\ ~(Before(1, 2) /\ Before(2, 3) /\ Before(3, 1))
      /\ ~(Before(2, 1) /\ Before(1, 3) /\ Before(3, 2))
  BY <1>1
<1>4. 1..3 = {1, 2, 3}
  OBVIOUS
<1> HIDE DEF Before
<1>5. \E j, k \in {1, 2, 3} :
        /\ j # k /\ Before(j, k)
        /\ \A i \in {1, 2, 3} : i # j => ~Before(i, k)
  BY <1>3
<1>6. PICK j \in {1, 2, 3}, k \in {1, 2, 3} :
        /\ j # k /\ Before(j, k)
        /\ \A i \in {1, 2, 3} : i # j => ~Before(i, k)
  BY <1>5
<1>7. {i \in 1..3 : S!SortedBefore(perRun, i, k)} = {j}
  BY <1>2, <1>4, <1>6
<1> QED
  BY <1>4, <1>7

\* bench_zk.ts:64-66: the middle one is there to be chosen, and its median is
\* the median of the three medians.
LEMMA MiddleOfThree ==
  ASSUME NEW R, NEW perRun \in [1..3 -> R],
         \A k \in 1..3 : perRun[k].median2 \in Int
  PROVE  2 * S!representative(perRun).median2
           = S!median2([k \in DOMAIN perRun |-> perRun[k].median2])
<1> DEFINE ms == [k \in DOMAIN perRun |-> perRun[k].median2]
           Before(k) == {i \in 1..3 : S!SortedBefore(perRun, i, k)}
           s2 == S!ascending(ms)[2]
<1>1. DOMAIN perRun = 1..3 /\ Len(perRun) = 3 /\ Len(perRun) \div 2 = 1
  <2>1. Len(perRun) = 3
    BY FunctionIsSample
  <2> QED
    BY <2>1
<1>2. /\ ms \in [1..3 -> Int]
      /\ \A k \in 1..3 : ms[k] = perRun[k].median2 /\ ms[k] \in Int
  OBVIOUS
<1>3. ms \in Seq(Int) /\ Len(ms) = 3
  <2>1. ms \in [1..3 -> Int] /\ 3 \in Nat
    BY <1>2
  <2> HIDE DEF ms, Before, s2
  <2> QED
    BY <2>1, FunctionIsSample
<1>4. PICK j0 \in 1..3, k0 \in 1..3 : Before(k0) = {j0}
  BY OneIsInTheMiddle
<1>5. Cardinality(Before(k0)) = 1
  BY <1>4, FS_Singleton
<1> DEFINE k == CHOOSE i \in 1..3 : Cardinality(Before(i)) = 1
<1>6. k \in 1..3 /\ Cardinality(Before(k)) = 1
  <2> HIDE DEF Before
  <2> QED
    BY <1>5
<1>7. S!representative(perRun) = perRun[k]
  BY <1>1, OneCardinality DEF S!representative
<1> HIDE DEF k
<1>8. PICK j : Before(k) = {j}
  <2>1. IsFiniteSet(1..3)
    <3>1. 1 \in Int /\ 3 \in Int
      OBVIOUS
    <3> QED
      BY <3>1, FS_Interval
  <2>2. Before(k) \in SUBSET (1..3)
    OBVIOUS
  <2>3. IsFiniteSet(Before(k))
    <3> HIDE DEF Before
    <3> QED
      BY <2>1, <2>2, FS_Subset
  <2> HIDE DEF Before
  <2> QED
    BY <1>6, <2>3, FS_Singleton
<1>9. /\ j \in 1..3 /\ j # k /\ ms[j] <= ms[k]
      /\ \A i \in 1..3 : ms[i] < ms[k] => i = j
  <2>1. \A i \in 1..3 : i = j <=> S!SortedBefore(perRun, i, k)
    BY <1>8
  <2>2. j \in 1..3
    BY <1>8
  <2>3. \A i \in 1..3 : S!SortedBefore(perRun, i, k)
                          <=> ms[i] < ms[k] \/ (ms[i] = ms[k] /\ i < k)
    BY <1>2, <1>6 DEF S!SortedBefore
  <2> HIDE DEF ms, Before
  <2> QED
    BY <1>2, <1>6, <2>1, <2>2, <2>3
<1> HIDE DEF ms, Before
<1>10. S!Below(ms, ms[k]) < 2
  <2> DEFINE B == {i \in 1..3 : ms[i] < ms[k]}
  <2>1. B \in SUBSET {j} /\ {j} \in SUBSET (1..3)
    BY <1>9
  <2>2. Cardinality({j}) = 1
    BY FS_Singleton
  <2>3. S!Below(ms, ms[k]) = Cardinality(B)
    BY <1>2, <1>3, <1>6, CountsMean
  <2> HIDE DEF B
  <2>4. Cardinality(B) \in 0..Cardinality({j})
    BY <1>3, <2>1, PartOfSample
  <2> QED
    BY <2>2, <2>3, <2>4
<1>11. 2 <= S!NotAbove(ms, ms[k])
  <2> DEFINE A == {i \in 1..3 : ms[i] <= ms[k]}
  <2>1. A \in SUBSET (1..3) /\ {j} \in SUBSET A /\ {j} # A
    BY <1>2, <1>6, <1>9
  <2>2. Cardinality({j}) = 1
    BY FS_Singleton
  <2>3. S!NotAbove(ms, ms[k]) = Cardinality(A)
    BY <1>2, <1>3, <1>6, CountsMean
  <2> HIDE DEF A
  <2>4. Cardinality({j}) < Cardinality(A) /\ Cardinality(A) \in 0..3
    BY <1>3, <2>1, PartOfSample
  <2> QED
    BY <2>2, <2>3, <2>4
<1>12. s2 \in Int /\ S!Below(ms, s2) < 2 /\ 2 <= S!NotAbove(ms, s2)
  <2>1. 2 \in 1..Len(ms)
    BY <1>3
  <2> QED
    BY <1>3, <2>1, Ascending
<1>13. S!median2(ms) = 2 * s2
  <2>1. 3 % 2 = 1 /\ (3 + 1) \div 2 = 2
    OBVIOUS
  <2> QED
    BY <1>3, <2>1 DEF S!median2
<1> HIDE DEF s2
<1>14. s2 = ms[k]
  <2>1. ms[k] \in Int
    BY <1>2, <1>6
  <2>2. s2 <= ms[k]
    BY <1>3, <1>11, <1>12, <2>1, PlacesAreInOrder
  <2>3. ms[k] <= s2
    BY <1>3, <1>10, <1>12, <2>1, PlacesAreInOrder
  <2> QED
    BY <1>12, <2>1, <2>2, <2>3
<1> QED
  BY <1>2, <1>6, <1>7, <1>13, <1>14 DEF ms

\* bench_zk.ts:64-66, bench_env.ts:243: of any three invocations of as many
\* samples, the representative is the one of the median median, and when they
\* are called stable none has a mean more than 12 % off the mean of the three.
THEOREM InvocationsCompared ==
  ASSUME NEW xs \in [1..3 -> Seq(Nat)], \A k \in 1..3 : Len(xs[k]) > 0
  PROVE  LET all == S!aggregate([k \in 1..3 |-> S!summarize(xs[k])])
             sums == [k \in 1..3 |-> S!total(xs[k])]
         IN /\ 2 * all.rep.median2 = all.interRun.medianOfMedians
            /\ all.interRun.stable =>
                 \A k \in 1..3 : 100 * Abs(3 * sums[k] - S!total(sums))
                                   <= 12 * S!total(sums)
<1> DEFINE perRun == [k \in 1..3 |-> S!summarize(xs[k])]
           all == S!aggregate(perRun)
           sums == [k \in 1..3 |-> S!total(xs[k])]
           s == S!total(sums)
<1>1. ASSUME NEW k \in 1..3
      PROVE  perRun[k].median2 \in Int /\ perRun[k].sum \in Nat
  <2> DEFINE x == xs[k]
  <2>1. x \in Seq(Nat) /\ Len(x) > 0 /\ Len(x) \in Nat
        /\ \A i \in 1..Len(x) : x[i] \in Nat
    BY LenProperties
  <2>2. x \in Seq(Int)
    <3>1. x \in [1..Len(x) -> Int]
      BY <2>1, LenProperties
    <3> HIDE DEF x
    <3> QED
      BY <2>1, <3>1, SeqDef
  <2>3. perRun[k].median2 = S!median2(x) /\ perRun[k].sum = S!total(x)
    BY DEF S!summarize
  <2> HIDE DEF x, perRun
  <2>4. S!median2(x) \in Int
    BY <2>1, <2>2, MedianHalves
  <2>5. 1 \in 1..Len(x) /\ S!total(x) >= x[1] /\ x[1] \in Nat /\ S!total(x) \in Int
    <3>1. 1 \in 1..Len(x)
      BY <2>1
    <3>2. S!sums(x) \in [0..Len(x) -> Int] /\ Len(x) \in 0..Len(x)
      BY <2>1, <2>2, Sums
    <3>3. S!total(x) \in Int
      BY <3>2 DEF S!total
    <3>4. \A i \in 1..Len(x) : x[i] >= 0
      BY <2>1
    <3>5. \A i \in 1..Len(x) : x[i] <= S!total(x)
      BY <2>2, <3>4, PartsOfTotal
    <3> QED
      BY <2>1, <3>1, <3>3, <3>5
  <2> QED
    BY <2>3, <2>4, <2>5
<1>2. \A k \in 1..3 : perRun[k].sum = S!total(xs[k])
  BY DEF S!summarize
<1> DEFINE means == [k \in DOMAIN perRun |-> perRun[k].sum]
           medians == [k \in DOMAIN perRun |-> perRun[k].median2]
<1>3. means = sums
  BY <1>2
<1>4. /\ all.rep = S!representative(perRun)
      /\ all.interRun.medianOfMedians = S!median2(medians)
      /\ all.interRun.stable = S!stable(means)
  BY DEF S!aggregate, S!interRun
<1>5. 2 * all.rep.median2 = all.interRun.medianOfMedians
  <2>1. perRun \in [1..3 -> {perRun[k] : k \in 1..3}]
    OBVIOUS
  <2> HIDE DEF perRun
  <2>2. 2 * S!representative(perRun).median2 = S!median2(medians)
    BY <1>1, <2>1, MiddleOfThree
  <2> HIDE DEF all, medians
  <2> QED
    BY <1>4, <2>2
<1>6. sums \in [1..3 -> Int] /\ sums[1] \in Nat /\ sums[2] \in Nat /\ sums[3] \in Nat
  <2>1. \A k \in 1..3 : sums[k] = perRun[k].sum
    BY <1>2
  <2> HIDE DEF perRun
  <2>2. \A k \in 1..3 : S!total(xs[k]) \in Nat
    BY <1>1, <2>1
  <2> QED
    BY <2>2
<1> HIDE DEF sums
<1>7. s = sums[1] + sums[2] + sums[3] /\ Len(sums) = 3
  BY <1>6, TotalOfThree
<1>8. S!dispersion(sums) = 3 * (sums[1] * sums[1] + sums[2] * sums[2]
                                  + sums[3] * sums[3]) - s * s
  BY <1>6, SpreadOfThree
<1>9. ASSUME ~S!Exceeds(3, s, S!dispersion(sums), 1, 10), NEW k \in 1..3
      PROVE  100 * Abs(3 * sums[k] - s) <= 12 * s
  <2> DEFINE d == S!dispersion(sums)
             a == sums[k]
  <2>1. \E b, c \in Nat : s = a + b + c /\ d = 3 * (a * a + b * b + c * c) - s * s
    <3>1. CASE k = 1
      BY <1>6, <1>7, <1>8, <3>1
    <3>2. CASE k = 2
      <4>1. s = sums[2] + sums[1] + sums[3]
            /\ d = 3 * (sums[2] * sums[2] + sums[1] * sums[1] + sums[3] * sums[3]) - s * s
        <5> HIDE DEF s
        <5>1. sums[1] * sums[1] + sums[2] * sums[2] + sums[3] * sums[3]
                = sums[2] * sums[2] + sums[1] * sums[1] + sums[3] * sums[3]
          BY <1>6
        <5> QED
          BY <1>6, <1>7, <1>8, <5>1
      <4> HIDE DEF s, d
      <4> QED
        BY <1>6, <3>2, <4>1
    <3>3. CASE k = 3
      <4>1. s = sums[3] + sums[1] + sums[2]
            /\ d = 3 * (sums[3] * sums[3] + sums[1] * sums[1] + sums[2] * sums[2]) - s * s
        <5> HIDE DEF s
        <5>1. sums[1] * sums[1] + sums[2] * sums[2] + sums[3] * sums[3]
                = sums[3] * sums[3] + sums[1] * sums[1] + sums[2] * sums[2]
          BY <1>6
        <5> QED
          BY <1>6, <1>7, <1>8, <5>1
      <4> HIDE DEF s, d
      <4> QED
        BY <1>6, <3>3, <4>1
    <3> QED
      BY <3>1, <3>2, <3>3
  <2>2. PICK b \in Nat, c \in Nat :
          s = a + b + c /\ d = 3 * (a * a + b * b + c * c) - s * s
    BY <2>1
  <2>3. a \in Nat /\ s \in Int
    <3>1. a \in Nat
      BY <1>6
    <3>2. sums[1] + sums[2] + sums[3] \in Int
      BY <1>6
    <3> HIDE DEF s, a
    <3> QED
      BY <1>7, <3>1, <3>2
  <2>4. ~S!Exceeds(3, s, d, 1, 10)
    BY <1>9
  <2> HIDE DEF a, d, s
  <2>5. 100 * (3 * a - s) <= 12 * s /\ 100 * (s - 3 * a) <= 12 * s
    BY <2>2, <2>3, <2>4, StableInvocations
  <2>6. Abs(3 * a - s) = 3 * a - s \/ Abs(3 * a - s) = s - 3 * a
    BY <2>3 DEF Abs
  <2>7. 100 * Abs(3 * a - s) <= 12 * s
    BY <2>5, <2>6
  <2> QED
    BY <2>7 DEF a
<1>10. S!stable(sums) = ~S!Exceeds(3, s, S!dispersion(sums), 1, 10)
  BY <1>7 DEF S!stable
<1>11. all.interRun.stable = S!stable(sums)
  BY <1>3, <1>4
<1> QED
  <2>1. all.interRun.stable => \A k \in 1..3 : 100 * Abs(3 * sums[k] - s) <= 12 * s
    <3> HIDE DEF all, perRun, s
    <3> QED
      BY <1>9, <1>10, <1>11
  <2> HIDE DEF all
  <2> QED
    BY <1>5, <2>1 DEF all, sums

(* bench_env.ts, stats.ts: whatever is summarized or aggregated is what it  *)
(* is called, for every sample the run has and every bound on them.         *)
THEOREM StatisticsHold == Spec => []StatisticsAreOfTheSample
<1>1. IInv => StatisticsAreOfTheSample
  <2> SUFFICES ASSUME IInv PROVE StatisticsAreOfTheSample
    OBVIOUS
  <2>1. ASSUME Sampled PROVE P95IsNearestRank /\ HeadlineNearMedian
    <3> DEFINE xs == input.xs
               r == S!summarize(xs)
    <3>1. xs \in Seq(Nat) /\ Len(xs) > 0 /\ summary = <<r, S!headline(r)>>
      BY <2>1 DEF Sampled, IInv, SampleOK
    <3>2. xs \in Seq(Int) /\ DOMAIN xs = 1..Len(xs)
      <4>1. /\ xs \in [1..Len(xs) -> Nat] /\ Len(xs) \in Nat
            /\ DOMAIN xs = 1..Len(xs)
        BY <3>1, LenProperties
      <4> HIDE DEF xs
      <4>2. xs \in [1..Len(xs) -> Int]
        BY <4>1
      <4> QED
        BY <4>1, <4>2, SeqDef
    <3>3. summary[1] = r /\ summary[2] = S!headline(r)
      BY <3>1
    <3>4. r.p95 = S!ascending(xs)[S!p95Idx(Len(xs))]
      BY DEF S!summarize
    <3> HIDE DEF r
    <3>5. P95IsNearestRank
      <4> DEFINE p95 == S!ascending(xs)[S!p95Idx(Len(xs))]
                 Covers(x) == 100 * S!NotAbove(xs, x) >= 95 * Len(xs)
      <4>1. /\ Covers(p95)
            /\ \A k \in 1..Len(xs) :
                 xs[k] < p95 => 100 * S!NotAbove(xs, xs[k]) < 95 * Len(xs)
        <5> HIDE DEF xs
        <5> QED
          BY <3>1, <3>2, PercentileOfSample
      <4>2. ASSUME NEW k \in 1..Len(xs), xs[k] < p95 PROVE ~Covers(xs[k])
        <5>1. 100 * S!NotAbove(xs, xs[k]) < 95 * Len(xs)
          BY <4>1, <4>2
        <5>2. Len(xs) \in Nat /\ xs[k] \in Int
          <6> HIDE DEF xs
          <6> QED
            BY <3>2, LenProperties
        <5>3. S!NotAbove(xs, xs[k]) \in 0..Len(xs)
          <6> HIDE DEF xs
          <6> QED
            BY <3>2, <5>2, CountsMean
        <5> QED
          BY <5>1, <5>2, <5>3
      <4>3. summary[1].p95 = p95
        BY <3>3, <3>4
      <4> HIDE DEF p95, Covers
      <4>4. Covers(p95) /\ \A k \in DOMAIN xs : xs[k] < p95 => ~Covers(xs[k])
        BY <3>2, <4>1, <4>2
      <4> QED
        BY <4>3, <4>4 DEF P95IsNearestRank, Covers
    <3>6. HeadlineNearMedian
      <4>1. /\ 5 * Abs(S!headline(r).value - r.n * r.median2) <= 2 * r.sum
            /\ 2 * r.n * r.min <= S!headline(r).value
            /\ S!headline(r).value <= 2 * r.n * r.max
        <5> HIDE DEF xs
        <5> QED
          BY <3>1, HeadlineOfSample DEF r
      <4> QED
        BY <3>3, <4>1 DEF HeadlineNearMedian
    <3> QED
      BY <3>5, <3>6
  <2>2. ASSUME Aggregated PROVE RepresentativeIsMedianRun /\ StableRunsAgree
    <3> DEFINE xs == input.xs
               all == S!aggregate([k \in 1..3 |-> S!summarize(xs[k])])
               sums == [k \in 1..3 |-> S!total(xs[k])]
    <3>1. /\ xs \in [1..3 -> Seq(Nat)] /\ \A k \in 1..3 : Len(xs[k]) > 0
          /\ summary = <<all>>
      BY <2>2 DEF Aggregated, IInv, InvocationsOK
    <3>2. summary[1] = all
      BY <3>1
    <3>3. /\ 2 * all.rep.median2 = all.interRun.medianOfMedians
          /\ all.interRun.stable =>
               \A k \in 1..3 : 100 * Abs(3 * sums[k] - S!total(sums))
                                 <= 12 * S!total(sums)
      <4> HIDE DEF xs
      <4> QED
        BY <3>1, InvocationsCompared
    <3> HIDE DEF all
    <3> QED
      BY <3>2, <3>3 DEF RepresentativeIsMedianRun, StableRunsAgree
  <2> QED
    BY <2>1, <2>2 DEF StatisticsAreOfTheSample
<1> QED
  BY InvHolds, <1>1, PTL
=============================================================================
