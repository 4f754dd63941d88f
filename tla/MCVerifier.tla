----------------------------- MODULE MCVerifier -----------------------------
(* One call of one verifier, and every transaction between its reads; the  *)
(* sessions of two verifiers are in MCSessions.                            *)
EXTENDS Verifier, TLC

CONSTANTS gov, i1, k1, r1, v1, v2, n1, n2, foreign

MCPolicies == {[type |-> "age_gte", threshold |-> 18]}

Present(pk, root, nonce, verifier, proof) ==
  [signals   |-> <<issuerKeyHash(pk), root, policyHash(1, 18), nonce,
                   stmtCodeForDomain(verifierDomainTag(verifier))>>,
   proof     |-> proof,
   issuerDid |-> i1]

\* Good presentations for either session of v1; one for a nonce v1 never
\* issued, one bound to v2, one with a wrong and one with a broken proof, one
\* cut short.
MCPresentations ==
  {Present(k1, r1, n, v1, "valid") : n \in {n1, n2}} \cup
  {Present(k1, r1, foreign, v1, "valid"),
   Present(k1, r1, n1, v2, "valid"),
   Present(k1, r1, n1, v1, "invalid"),
   Present(k1, r1, n1, v1, "malformed"),
   [signals |-> <<>>, proof |-> "valid", issuerDid |-> i1]}

\* Calls go on, whatever is mined; nobody has to start one.
FairChainSpec == Spec /\ \A c \in Calls : WF_vars(Resume(c))
=============================================================================
