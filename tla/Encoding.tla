------------------------------ MODULE Encoding ------------------------------
(***************************************************************************)
(* The field encodings of packages/common/src/encoding.ts that the wallet, *)
(* the verifier and the circuit share, and the hash of hash.ts.            *)
(*                                                                         *)
(* A hash is a free constructor: it keeps its inputs, so equal hashes mean *)
(* equal inputs (collision resistance) and nothing is ever decoded.  A     *)
(* byte string is an opaque value; its fold keeps the domain tag and the   *)
(* bytes, which is what hashing (tag, length) and then every chunk         *)
(* distinguishes.                                                          *)
(***************************************************************************)
PREDICATE_AGE_GTE == 1
PREDICATE_AGE_LT  == 2
STMT_V1 == 1
DOMAIN_ISSUER_KEY  == 1001
DOMAIN_VERIFIER_ID == 1002

poseidon(inputs) == <<"Poseidon", inputs>>
sha3_256(parts)  == <<"SHA3-256", parts>>

poseidonFoldBytes(bytes, domainTag) == poseidon(<<domainTag, bytes>>)

issuerKeyHash(pkIssuer) == poseidonFoldBytes(pkIssuer, DOMAIN_ISSUER_KEY)

\* The two 128-bit limbs of a credID: together they are the whole digest.
credIdLimbs(credId) == [hi |-> <<"hi", credId>>, lo |-> <<"lo", credId>>]

smtKeyFromCredId(credId) ==
  poseidon(<<credIdLimbs(credId).hi, credIdLimbs(credId).lo>>)

\* Seeded defect: the direction of the comparison is not committed to.
PolicyHashThresholdOnly(predicateCode, threshold) == poseidon(<<threshold>>)

policyHash(predicateCode, threshold) == poseidon(<<predicateCode, threshold>>)

holderCommit(holderSecret) == poseidon(<<holderSecret>>)

verifierDomainTag(verifierId) ==
  poseidonFoldBytes(verifierId, DOMAIN_VERIFIER_ID)

stmtCodeForDomain(domainTag) == poseidon(<<STMT_V1, domainTag>>)

\* A root commits to the set of keys in the revocation tree, all with value 1;
\* the empty tree's root is the zero that an unwritten registry entry holds.
smtRoot(keys) == <<"SMT", keys>>
smtKeysUnder(root) == root[2]

\* Shared by the wallet (predicateCodeFor) and the verifier.
predicateCodeFor(policy) ==
  IF policy.type = "age_gte" THEN PREDICATE_AGE_GTE ELSE PREDICATE_AGE_LT
=============================================================================
