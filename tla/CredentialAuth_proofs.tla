------------------------- MODULE CredentialAuth_proofs -------------------------
(***************************************************************************)
(* The predicate of relation R' for any prime field and comparator width:  *)
(* residues and their comparisons, then the predicate over the field, then *)
(* over the plain numbers of the wallet.                                   *)
(***************************************************************************)
EXTENDS CredentialAuth, TLAPS

W == 2^CmpBits

LEMMA Sizes ==
  /\ W \in Nat \ {0} /\ FieldPrime \in Nat /\ FieldPrime > 2 * W
  /\ 2^(CmpBits + 1) = 2 * W
BY CredentialAuthAssumption, PowerAssumption DEF W

\* What the witness calculator makes of a number not far from the field.
LEMMA Residues ==
  /\ \A n \in 0 .. (FieldPrime - 1) : toField(n) = n
  /\ \A n \in (-FieldPrime) .. (-1) : toField(n) = n + FieldPrime
<1>1. \A n \in 0 .. (FieldPrime - 1) : n % FieldPrime = n
  BY Sizes
<1>2. \A n \in (-FieldPrime) .. (-1) : n % FieldPrime = n + FieldPrime
  BY Sizes, SMTT(30)
<1>3. QED
  BY <1>1, <1>2 DEF toField

\* Of two operands in range, the comparators exist and tell the truth.
LEMMA Comparators ==
  ASSUME NEW a \in 0 .. (W - 1), NEW b \in 0 .. (W - 1)
  PROVE  /\ LessThanSat(a, b) /\ GreaterEqThanSat(a, b)
         /\ LessThan(a, b) = IF a < b THEN 1 ELSE 0
         /\ GreaterEqThan(a, b) = IF a >= b THEN 1 ELSE 0
<1>1. /\ difference(a, b) = a + W - b
      /\ toField(a + 1) = a + 1
      /\ difference(b, a + 1) = b + W - (a + 1)
  <2>1. /\ a + W - b \in 0 .. (FieldPrime - 1)
        /\ a + 1 \in 0 .. (FieldPrime - 1)
        /\ b + W - (a + 1) \in 0 .. (FieldPrime - 1)
    BY Sizes
  <2>2. QED
    BY <2>1, Residues DEF difference, W
<1>2. \A n \in 0 .. (2 * W - 1) : n \div W = IF n < W THEN 0 ELSE 1
  <2>1. \A n \in 0 .. (W - 1) : n \div W = 0
    BY Sizes
  <2>2. \A n \in W .. (2 * W - 1) : n \div W = 1
    BY Sizes
  <2>3. QED
    BY <2>1, <2>2, Sizes
<1>3. LessThanSat(a, b) /\ GreaterEqThanSat(a, b)
  BY <1>1, Sizes DEF LessThanSat, GreaterEqThanSat, Num2Bits
<1>4. LessThan(a, b) = 1 - (a + W - b) \div W
  BY <1>1 DEF LessThan, W
<1>5. GreaterEqThan(a, b) = 1 - (b + W - (a + 1)) \div W
  BY <1>1 DEF GreaterEqThan, LessThan, W
<1>6. LessThan(a, b) = IF a < b THEN 1 ELSE 0
  BY <1>2, <1>4, Sizes
<1>7. GreaterEqThan(a, b) = IF a >= b THEN 1 ELSE 0
  BY <1>2, <1>5, Sizes
<1>8. QED
  BY <1>3, <1>6, <1>7

\* The product vanishes for no third code: the field has no zero divisors.
LEMMA Codes ==
  ASSUME NEW code \in Field
  PROVE  toField((code - 1) * (code - 2)) = 0 <=> code \in {1, 2}
<1>1. CASE code \in {1, 2}
  <2>1. (code - 1) * (code - 2) = 0
    BY <1>1
  <2>2. QED
    BY <1>1, <2>1, Residues, Sizes
<1>2. CASE code = 0
  <2>1. (code - 1) * (code - 2) = 2
    BY <1>2
  <2>2. QED
    BY <1>2, <2>1, Residues, Sizes
<1>3. CASE code \notin {0, 1, 2}
  <2>1. code - 1 \in 1 .. (FieldPrime - 1) /\ code - 2 \in 1 .. (FieldPrime - 1)
    BY <1>3, Sizes DEF Field
  <2>2. QED
    BY <1>3, <2>1, CredentialAuthAssumption DEF toField
<1>4. QED
  BY <1>1, <1>2, <1>3

(* Constraint group (3) of R' over the whole field: it is satisfied by the *)
(* two codes, by operands in range, and by a true comparison only.         *)
THEOREM PredicateMeans ==
  ASSUME NEW code \in Field, NEW age \in Field, NEW threshold \in Field
  PROVE  PredicateHolds(code, age, threshold) <=>
           /\ age < W /\ threshold < W
           /\ \/ code = PREDICATE_AGE_GTE /\ age >= threshold
              \/ code = PREDICATE_AGE_LT /\ age < threshold
<1>1. PredicateHolds(code, age, threshold) =>
        code \in {1, 2} /\ age < W /\ threshold < W
  BY Codes DEF PredicateHolds, Num2Bits, W
<1>2. ASSUME code \in {1, 2}, age < W, threshold < W
      PROVE  PredicateHolds(code, age, threshold) <=>
               IF code = 1 THEN age >= threshold ELSE age < threshold
  <2> DEFINE G == GreaterEqThan(age, threshold)
             L == LessThan(age, threshold)
  <2>1. age \in 0 .. (W - 1) /\ threshold \in 0 .. (W - 1)
    BY <1>2, Sizes DEF Field
  <2>2. /\ G = IF age >= threshold THEN 1 ELSE 0
        /\ L = IF age < threshold THEN 1 ELSE 0
        /\ LessThanSat(age, threshold) /\ GreaterEqThanSat(age, threshold)
    BY <2>1, Comparators
  <2>3. G * (2 - code) + L * (code - 1) = IF code = 1 THEN G ELSE L
    <3> HIDE DEF G, L
    <3>1. G \in {0, 1} /\ L \in {0, 1}
      BY <2>1, <2>2
    <3>2. QED
      BY <1>2, <3>1
  <2>4. toField(0) = 0 /\ toField(1) = 1
    BY Residues, Sizes
  <2>5. PredicateHolds(code, age, threshold) <=>
          toField(G * (2 - code) + L * (code - 1)) = 1
    BY <1>2, <2>2, Codes DEF PredicateHolds, Num2Bits, W
  <2>6. QED
    <3> HIDE DEF G, L
    <3>1. QED
      BY <1>2, <2>1, <2>2, <2>3, <2>4, <2>5
<1>3. QED
  BY <1>1, <1>2 DEF PREDICATE_AGE_GTE, PREDICATE_AGE_LT

\* The same of the numbers a wallet computes the witness from.
LEMMA PolicyMeans ==
  ASSUME NEW type \in {"age_gte", "age_lt"},
         NEW age \in (W - FieldPrime) .. (FieldPrime - 1),
         NEW policy, policy.type = type,
         policy.threshold \in (W - FieldPrime) .. (FieldPrime - 1)
  PROVE  PredicateHolds(toField(predicateCodeFor(policy)), toField(age),
                        toField(policy.threshold)) <=>
           /\ PolicyApplicable(policy, age)
           /\ InRange(age) /\ InRange(policy.threshold)
<1> DEFINE code == predicateCodeFor(policy)
<1>1. /\ code = IF type = "age_gte" THEN 1 ELSE 2
      /\ code \in Field /\ toField(code) = code
  BY Residues, Sizes
     DEF predicateCodeFor, PREDICATE_AGE_GTE, PREDICATE_AGE_LT, Field
<1>2. \A n \in (W - FieldPrime) .. (FieldPrime - 1) :
        /\ toField(n) \in Field
        /\ toField(n) < W <=> InRange(n)
        /\ InRange(n) => toField(n) = n
  <2>1. ASSUME NEW n \in 0 .. (FieldPrime - 1)
        PROVE  toField(n) \in Field /\ toField(n) = n /\ (n < W <=> InRange(n))
    BY Residues DEF Field, InRange, W
  <2>2. ASSUME NEW n \in (W - FieldPrime) .. (-1)
        PROVE  toField(n) \in Field /\ toField(n) >= W /\ ~InRange(n)
    <3>1. toField(n) = n + FieldPrime
      BY Residues, Sizes
    <3>2. QED
      BY <3>1, Sizes DEF Field, InRange
  <2>3. QED
    BY <2>1, <2>2, Sizes DEF Field
<1>3. PredicateHolds(code, toField(age), toField(policy.threshold)) <=>
        /\ toField(age) < W /\ toField(policy.threshold) < W
        /\ \/ code = 1 /\ toField(age) >= toField(policy.threshold)
           \/ code = 2 /\ toField(age) < toField(policy.threshold)
  BY <1>1, <1>2, PredicateMeans DEF PREDICATE_AGE_GTE, PREDICATE_AGE_LT
<1>4. QED
  BY <1>1, <1>2, <1>3 DEF PolicyApplicable

\* Every in-range number is one of those.
LEMMA InRangeNumbers ==
  \A n \in Int : InRange(n) => n \in (W - FieldPrime) .. (FieldPrime - 1)
BY Sizes DEF InRange, W
=============================================================================
