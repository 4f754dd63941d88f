----------------------------- MODULE MCSessions -----------------------------
(* The contracts, and the sessions of two verifiers beside a chain that is *)
(* set up and rests.  "subject" says which of the two moves.               *)
EXTENDS Registries, Encoding, Integers, Sequences, TLC

CONSTANTS
  gov, i1, k1, r1, v1, v2, n1, n2, foreign,       \* values of the cfg
  Verifiers, Nonces, Calls, Presentations, Policies,
  TTL, MaxTime, Undefined                         \* Verifier

(* Times are natural numbers, Undefined is neither a time nor a root, a     *)
(* presentation names a DID.                                               *)
ASSUME SessionsAssumption ==
  /\ TTL \in Nat /\ MaxTime \in Nat
  /\ Undefined \notin Nat /\ Undefined \notin Roots
  /\ \A p \in Presentations : p.issuerDid \in DIDs

VARIABLES
  subject,
  clock, issued, issuedAt, pc, request, doc, chainRoot, checks, seen

verifierVars == <<clock, issued, issuedAt, pc, request, doc, chainRoot, checks, seen>>

V == INSTANCE Verifier

-----------------------------------------------------------------------------
(* The values that MCSessions.cfg gives.                                   *)
AgeOver18 == {[type |-> "age_gte", threshold |-> 18]}

Present(nonce, verifier) ==
  [signals   |-> <<issuerKeyHash(k1), r1, policyHash(1, 18), nonce,
                   stmtCodeForDomain(verifierDomainTag(verifier))>>,
   proof     |-> "valid",
   issuerDid |-> i1]

\* What fails is the nonce or the verifier: good presentations for either
\* session of v1, one for a nonce v1 never issued, one bound to v2.
SessionPresentations ==
  {Present(n1, v1), Present(n2, v1), Present(foreign, v1), Present(n1, v2)}

Symmetry == Permutations(Calls)

-----------------------------------------------------------------------------
\* The chain after its issuers were registered, accredited and have published
\* r1.
SetUp ==
  /\ records    = [d \in DIDs |->
       [controller |-> Governance, pk |-> k1, active |-> TRUE]]
  /\ accredited = [d \in DIDs |-> TRUE]
  /\ revRoot    = [d \in DIDs |-> r1]
  /\ schemas    = [s \in SchemaIds |-> ZeroSchema]

SessionsInit ==
  /\ subject \in {"contracts", "sessions"}
  /\ IF subject = "sessions" THEN SetUp ELSE Init
  /\ V!VerifierInit

Contracts == subject = "contracts" /\ Next /\ UNCHANGED <<subject, verifierVars>>
Sessions  == subject = "sessions" /\ V!VerifierNext /\ UNCHANGED <<subject, vars>>

SessionsSpec ==
  SessionsInit /\ [][Contracts \/ Sessions]_<<subject, vars, verifierVars>>

-----------------------------------------------------------------------------
(* packages/verifier/src/index.ts:61-66: two calls never accept the same   *)
(* nonce, however their awaits interleave.                                 *)
NonceAcceptedOnce == V!NonceAcceptedOnce

(* packages/verifier/src/index.ts:61-66: a nonce is fresh exactly until    *)
(* its expiry or its first use, whichever presentation used it.            *)
FreshnessIsExact == V!FreshnessIsExact

(* packages/verifier/src/index.ts:50-67: the verifiers' sessions are those *)
(* of SessionPromise.                                                      *)
KeepsPromise == V!KeepsPromise
=============================================================================
