--------------------------- MODULE CredentialAuth ---------------------------
(***************************************************************************)
(* Relation R' of circuits/credential_auth.circom: when a witness for      *)
(* given public signals exists, and so a valid Groth16 proof can be made.  *)
(* Claims, thresholds and predicate codes are elements of the scalar       *)
(* field, 0 .. FieldPrime-1, compared by circomlib's bit decompositions;   *)
(* hashes are the free constructors of Encoding.                           *)
(***************************************************************************)
EXTENDS Encoding, Integers

CONSTANTS
  FieldPrime,   \* BN254_P
  CmpBits       \* 32, the width of the range checks and comparators

ASSUME CredentialAuthAssumption ==
  /\ CmpBits \in Nat \ {0}
  /\ FieldPrime \in Nat
  /\ FieldPrime > 2^(CmpBits + 1)
  /\ \A a, b \in 1 .. (FieldPrime - 1) : (a * b) % FieldPrime # 0

\* Arithmetic of powers, which the provers are not taught.
ASSUME PowerAssumption ==
  2^CmpBits \in Nat \ {0} /\ 2^(CmpBits + 1) = 2 * 2^CmpBits

Field == 0 .. (FieldPrime - 1)

\* What the witness calculator makes of an integer, negative ones included.
toField(n) == n % FieldPrime

\* Num2Bits(n): the bits exist exactly for n-bit values.
Num2Bits(n, x) == x < 2^n

\* circomlib comparators of CmpBits bits.  Each decomposes one difference
\* into CmpBits+1 bits, which must exist, and answers with its top bit.
difference(a, b) == toField(a + 2^CmpBits - b)
LessThanSat(a, b) == Num2Bits(CmpBits + 1, difference(a, b))
LessThan(a, b) == 1 - difference(a, b) \div 2^CmpBits
GreaterEqThanSat(a, b) == LessThanSat(b, toField(a + 1))
GreaterEqThan(a, b) == LessThan(b, toField(a + 1))

(***************************************************************************)
(* The constraint groups, over the private inputs.                         *)
(***************************************************************************)

\* Seeded defect: the claimed age is not range checked.
PredicateWithoutAgeRange(code, age, threshold) ==
  /\ toField((code - 1) * (code - 2)) = 0
  /\ Num2Bits(CmpBits, threshold)
  /\ GreaterEqThanSat(age, threshold)
  /\ LessThanSat(age, threshold)
  /\ toField(GreaterEqThan(age, threshold) * (2 - code) +
             LessThan(age, threshold) * (code - 1)) = 1

\* (3) The selected comparison holds, between range-checked operands.
PredicateHolds(code, age, threshold) ==
  /\ toField((code - 1) * (code - 2)) = 0
  /\ Num2Bits(CmpBits, age) /\ Num2Bits(CmpBits, threshold)
  /\ GreaterEqThanSat(age, threshold)
  /\ LessThanSat(age, threshold)
  /\ toField(GreaterEqThan(age, threshold) * (2 - code) +
             LessThan(age, threshold) * (code - 1)) = 1

\* Seeded defect: the recomputed root is not compared with the public one.
ExcludedAnywhere(pub, priv) ==
  smtKeyFromCredId(priv.credId) = priv.opening.key

\* (1) SMTVerifier, exclusion: the siblings lead from the opened slot to the
\* public root.  They come from one tree, which the opening remembers, and an
\* opening exists only for a key outside its tree.
Excluded(pub, priv) ==
  /\ smtKeyFromCredId(priv.credId) = priv.opening.key
  /\ pub.revRoot = smtRoot(priv.opening.tree)

\* R'.  issuerKeyHash and nonce are squared into the constraint system: a
\* proof is bound to their values, and nothing else constrains them.  The two
\* limbs of a SHA3-256 digest always pass their 128-bit checks.
Satisfied(pub, priv) ==
  /\ Excluded(pub, priv)
  /\ holderCommit(priv.holderSecret) = priv.holderCommit
  /\ policyHash(priv.predicateCode, priv.threshold) = pub.policyHash
  /\ PredicateHolds(toField(priv.predicateCode), toField(priv.claimAge),
                    toField(priv.threshold))
  /\ stmtCodeForDomain(priv.domainTag) = pub.stmtCode

(***************************************************************************)
(* The wallet's side of the predicate, over JavaScript numbers.            *)
(***************************************************************************)

\* Seeded defect: the threshold itself does not satisfy "at least".
PolicyApplicableStrict(policy, age) ==
  IF policy.type = "age_gte" THEN age > policy.threshold
                             ELSE age < policy.threshold

PolicyApplicable(policy, age) ==
  IF policy.type = "age_gte" THEN age >= policy.threshold
                             ELSE age < policy.threshold

InRange(n) == 0 <= n /\ n < 2^CmpBits
=============================================================================
