-------------------------- MODULE MCSessions_proofs --------------------------
(***************************************************************************)
(* The invariants of the registries, for any accounts, DIDs, keys, roots   *)
(* and schemas.  TypeOK is inductive; authorship needs its last conjunct   *)
(* only through the record of the DID that a publication names.            *)
(*                                                                         *)
(* Then the sessions of MCSessions: its verifiers are verifiers of module  *)
(* Verifier, so what Verifier_proofs shows of those holds of them.         *)
(***************************************************************************)
EXTENDS MCSessions, TLAPS

\* Every transaction keeps the shapes, and a record stays whole: registerDID
\* writes a controller that is a sender, so never address(0).
LEMMA NextTypeOK == TypeOK /\ [Next]_vars => TypeOK'
<1> SUFFICES ASSUME TypeOK, [Next]_vars PROVE TypeOK'
  OBVIOUS
<1> USE RegistryAssumption DEF TypeOK, DIDRecord, Schema, ZeroRecord, controllerOf
<1>1. ASSUME NEW a \in Accounts, NEW d \in DIDs, NEW pk \in Keys,
             registerDID(a, d, pk)
      PROVE  TypeOK'
  BY <1>1 DEF registerDID
<1>2. ASSUME NEW a \in Accounts, NEW d \in DIDs, deactivateDID(a, d)
      PROVE  TypeOK'
  BY <1>2 DEF deactivateDID
<1>3. ASSUME NEW a \in Accounts, NEW d \in DIDs, accredit(a, d)
      PROVE  TypeOK'
  BY <1>3 DEF accredit
<1>4. ASSUME NEW a \in Accounts, NEW d \in DIDs, revokeAccreditation(a, d)
      PROVE  TypeOK'
  BY <1>4 DEF revokeAccreditation
<1>5. ASSUME NEW a \in Accounts, NEW d \in DIDs, NEW root \in Roots,
             publishRevRoot(a, d, root)
      PROVE  TypeOK'
  BY <1>5 DEF publishRevRoot
<1>6. ASSUME NEW s \in SchemaIds, NEW hash \in SchemaHashes,
             registerSchema(s, hash)
      PROVE  TypeOK'
  BY <1>6 DEF registerSchema
<1>7. CASE UNCHANGED vars
  BY <1>7 DEF vars
<1>8. QED
  BY <1>1, <1>2, <1>3, <1>4, <1>5, <1>6, <1>7 DEF Next

\* The four mappings keep their shapes and every record is zero or whole
\* (Registries.sol: registerDID writes all fields, deactivateDID keeps them).
THEOREM TypeCorrect == Spec => []TypeOK
<1>1. Init => TypeOK
  BY RegistryAssumption
     DEF Init, TypeOK, DIDRecord, Schema, ZeroRecord, ZeroSchema, controllerOf
<1>2. QED
  BY <1>1, NextTypeOK, PTL DEF Spec

\* A non-default root on chain lies under a registered DID (the controllerOf
\* check of publishRevRoot).
THEOREM RootsAuthored == Spec => []RootsHaveAnAuthor
<1>1. Init => RootsHaveAnAuthor
  BY DEF Init, RootsHaveAnAuthor
<1>2. TypeOK /\ RootsHaveAnAuthor /\ [Next]_vars => RootsHaveAnAuthor'
  <2> SUFFICES ASSUME TypeOK, RootsHaveAnAuthor, [Next]_vars
               PROVE  RootsHaveAnAuthor'
    OBVIOUS
  <2> USE RegistryAssumption
      DEF TypeOK, DIDRecord, RootsHaveAnAuthor, controllerOf
  <2>1. ASSUME NEW a \in Accounts, NEW d \in DIDs, NEW pk \in Keys,
               registerDID(a, d, pk)
        PROVE  RootsHaveAnAuthor'
    BY <2>1 DEF registerDID
  <2>2. ASSUME NEW a \in Accounts, NEW d \in DIDs, deactivateDID(a, d)
        PROVE  RootsHaveAnAuthor'
    BY <2>2 DEF deactivateDID
  <2>3. ASSUME NEW a \in Accounts, NEW d \in DIDs, NEW root \in Roots,
               publishRevRoot(a, d, root)
        PROVE  RootsHaveAnAuthor'
    BY <2>3 DEF publishRevRoot
  <2>4. ASSUME UNCHANGED <<records, revRoot>>
        PROVE  RootsHaveAnAuthor'
    BY <2>4
  <2>5. QED
    BY <2>1, <2>2, <2>3, <2>4
       DEF Next, vars, accredit, revokeAccreditation, registerSchema
<1>3. QED
  BY <1>1, <1>2, TypeCorrect, PTL DEF Spec

\* Whatever transactions follow: a registered DID keeps its controller and its
\* key and is never reactivated, a registered schema keeps its hash.
THEOREM Finality == Spec => RegistrationsAreFinal
<1> DEFINE Final ==
      /\ \A d \in DIDs : controllerOf(d) # NoAddress =>
           /\ records'[d].controller = records[d].controller
           /\ records'[d].pk = records[d].pk
           /\ records'[d].active => records[d].active
      /\ \A s \in SchemaIds : schemas[s].exists => schemas'[s] = schemas[s]
<1>1. TypeOK /\ [Next]_vars => [Final]_vars
  <2> SUFFICES ASSUME TypeOK, Next PROVE Final
    OBVIOUS
  <2> USE DEF TypeOK, DIDRecord, Schema, controllerOf
  <2>1. ASSUME NEW a \in Accounts, NEW d \in DIDs, NEW pk \in Keys,
               registerDID(a, d, pk)
        PROVE  Final
    BY <2>1 DEF registerDID
  <2>2. ASSUME NEW a \in Accounts, NEW d \in DIDs, deactivateDID(a, d)
        PROVE  Final
    BY <2>2 DEF deactivateDID
  <2>3. ASSUME NEW s \in SchemaIds, NEW hash \in SchemaHashes,
               registerSchema(s, hash)
        PROVE  Final
    BY <2>3 DEF registerSchema
  <2>4. ASSUME UNCHANGED <<records, schemas>>
        PROVE  Final
    BY <2>4
  <2>5. QED
    BY <2>1, <2>2, <2>3, <2>4
       DEF Next, accredit, revokeAccreditation, publishRevRoot
<1>2. QED
  BY <1>1, TypeCorrect, PTL DEF Spec, RegistrationsAreFinal
-----------------------------------------------------------------------------
(* The sum: a transaction or a step of a verifier.                          *)

VP == INSTANCE Verifier_proofs

LEMMA SameSteps ==
  V!VerifierNext <=> VP!VerifierNext
<1> USE DEF V!chainVars, V!sessionVars, V!callVars, VP!chainVars, VP!sessionVars,
            VP!callVars
<1>1. V!Tick <=> VP!Tick
  BY DEF V!Tick, VP!Tick
<1>2. \A v, n : V!newSessionNonce(v, n) <=> VP!newSessionNonce(v, n)
  BY DEF V!newSessionNonce, VP!newSessionNonce, V!issue, VP!issue
<1>3. \A c, v, p, q : /\ V!verifyPresentation(c, v, p, q) <=> VP!verifyPresentation(c, v, p, q)
                      /\ V!Unguessed(p) <=> VP!Unguessed(p)
  BY DEF V!verifyPresentation, VP!verifyPresentation, V!Unguessed, VP!Unguessed,
         V!ChainFacts, VP!ChainFacts
<1>4. \A c : V!Resume(c) <=> VP!Resume(c)
  <2> TAKE c
  <2> USE DEF V!Issuer, VP!Issuer, V!Signals, VP!Signals, V!Passed, VP!Passed
  <2>1. V!resolveDid(c) <=> VP!resolveDid(c)
    BY DEF V!resolveDid, VP!resolveDid, V!IssuerLookupFails, VP!IssuerLookupFails
  <2>2. V!isAccredited(c) <=> VP!isAccredited(c)
    BY DEF V!isAccredited, VP!isAccredited, V!IssuerLookupFails, VP!IssuerLookupFails,
       V!sigIssuerKeyHash, VP!sigIssuerKeyHash, V!issuerKeyHash, VP!issuerKeyHash,
       V!poseidonFoldBytes, VP!poseidonFoldBytes, V!poseidon, VP!poseidon,
       V!DOMAIN_ISSUER_KEY, VP!DOMAIN_ISSUER_KEY
  <2>3. V!getRevRoot(c) <=> VP!getRevRoot(c)
    BY DEF V!getRevRoot, VP!getRevRoot
  <2>4. V!checkSession(c) <=> VP!checkSession(c)
    BY DEF V!checkSession, VP!checkSession, V!sigRevRoot, VP!sigRevRoot,
       V!sigPolicyHash, VP!sigPolicyHash, V!sigNonce, VP!sigNonce, V!sigStmtCode,
       VP!sigStmtCode, V!ConsumeResult, VP!ConsumeResult, V!ConsumeEffect,
       VP!ConsumeEffect, V!Known, VP!Known, V!policyHash, VP!policyHash,
       V!predicateCodeFor, VP!predicateCodeFor, V!PREDICATE_AGE_GTE,
       VP!PREDICATE_AGE_GTE, V!PREDICATE_AGE_LT, VP!PREDICATE_AGE_LT,
       V!stmtCodeForDomain, VP!stmtCodeForDomain, V!verifierDomainTag,
       VP!verifierDomainTag, V!poseidonFoldBytes, VP!poseidonFoldBytes, V!poseidon,
       VP!poseidon, V!STMT_V1, VP!STMT_V1, V!DOMAIN_VERIFIER_ID, VP!DOMAIN_VERIFIER_ID
  <2>5. V!groth16Verify(c) <=> VP!groth16Verify(c)
    BY DEF V!groth16Verify, VP!groth16Verify
  <2> QED
    BY <2>1, <2>2, <2>3, <2>4, <2>5 DEF V!Resume, VP!Resume
<1> QED
  BY <1>1, <1>2, <1>3, <1>4 DEF V!VerifierNext, VP!VerifierNext

\* Beside the contracts no call is made, so nothing observes the chain.
Resting ==
  subject = "contracts" =>
    pc = [c \in Calls |-> "idle"] /\ seen = [c \in Calls |-> {}]

LEMMA AlwaysResting == SessionsSpec => []Resting
<1>1. SessionsInit => Resting
  BY DEF SessionsInit, V!VerifierInit, Resting
<1>2. Resting /\ [Contracts \/ Sessions]_<<subject, vars, verifierVars>> => Resting'
  BY DEF Resting, Contracts, Sessions, verifierVars
<1> QED
  BY <1>1, <1>2, PTL DEF SessionsSpec

\* Either component steps as module Verifier allows.
LEMMA VerifiersRun == SessionsSpec => VP!VerifierSpec
<1>1. SessionsInit => VP!VerifierInit
  BY DEF SessionsInit, V!VerifierInit, VP!VerifierInit
<1>2. Resting /\ [Contracts \/ Sessions]_<<subject, vars, verifierVars>>
        => [VP!Next]_(VP!vars)
  <2> SUFFICES ASSUME Resting, [Contracts \/ Sessions]_<<subject, vars, verifierVars>>
               PROVE  VP!Next \/ UNCHANGED VP!vars
    OBVIOUS
  <2>1. CASE Contracts
    <3>1. VP!Observe
      BY <2>1 DEF Contracts, Resting, verifierVars, VP!Observe, VP!InFlight, VP!Suspended
    <3>2. Next => VP!Chain!Next
      BY DEF Next, VP!Chain!Next, registerDID, VP!Chain!registerDID, deactivateDID,
             VP!Chain!deactivateDID, accredit, VP!Chain!accredit, revokeAccreditation,
             VP!Chain!revokeAccreditation, publishRevRoot, VP!Chain!publishRevRoot,
             registerSchema, VP!Chain!registerSchema, controllerOf, VP!Chain!controllerOf
    <3> QED
      BY <2>1, <3>1, <3>2 DEF Contracts, verifierVars, VP!Next, VP!Transaction,
                              VP!sessionVars, VP!callVars
  <2>2. CASE Sessions
    BY <2>2, SameSteps DEF Sessions, VP!Next
  <2>3. CASE UNCHANGED <<subject, vars, verifierVars>>
    BY <2>3 DEF vars, verifierVars, VP!vars, VP!chainVars, VP!sessionVars, VP!callVars
  <2> QED
    BY <2>1, <2>2, <2>3
<1> QED
  BY <1>1, <1>2, AlwaysResting, PTL DEF SessionsSpec, VP!VerifierSpec

-----------------------------------------------------------------------------
\* NonceRegistry.consume under overlapping calls: of two calls of one verifier
\* that name one nonce, at most one is accepted.
THEOREM NonceUsedOnce == SessionsSpec => []NonceAcceptedOnce
<1>1. VP!NonceAcceptedOnce => NonceAcceptedOnce
  BY DEF NonceAcceptedOnce, V!NonceAcceptedOnce, VP!NonceAcceptedOnce, V!Accepted,
         VP!Accepted, V!CheckNames, VP!CheckNames, V!sigNonce, VP!sigNonce,
         V!Signals, VP!Signals
<1>2. SessionsSpec => []VP!NonceAcceptedOnce
  BY VP!NonceUsedOnceFrom, RegistryAssumption, SessionsAssumption, VerifiersRun, PTL
<1> QED
  BY <1>1, <1>2, PTL

\* A nonce is found fresh exactly from its issue to its expiry, the expiry
\* included, and to its first use.
THEOREM FreshnessExact == SessionsSpec => FreshnessIsExact
<1>1. VP!FreshnessIsExact => FreshnessIsExact
  BY DEF FreshnessIsExact, V!FreshnessIsExact, VP!FreshnessIsExact, V!Consumed,
         VP!Consumed, V!sigNonce, VP!sigNonce, V!Signals, VP!Signals, V!vars, VP!vars,
         V!chainVars, VP!chainVars, V!sessionVars, VP!sessionVars, V!callVars, VP!callVars
<1>2. SessionsSpec => VP!FreshnessIsExact
  BY VP!FreshnessExactFrom, RegistryAssumption, SessionsAssumption, VerifiersRun, PTL
<1> QED
  BY <1>1, <1>2, PTL

\* The two verifiers and their overlapping calls implement SessionPromise.
THEOREM SessionsAsPromised == SessionsSpec => KeepsPromise
<1> USE DEF V!Accepted, VP!Accepted, V!CheckNames, VP!CheckNames, V!sigNonce,
            VP!sigNonce, V!Signals, VP!Signals, V!PhaseOf, VP!PhaseOf,
            V!PromisedPhase, VP!PromisedPhase
<1>1. VP!Promise!Init => V!Promise!Init
  BY DEF V!Promise!Init, VP!Promise!Init
<1>2. [VP!Promise!Next]_(VP!PromisedPhase) => [V!Promise!Next]_(V!PromisedPhase)
  BY DEF V!Promise!Next, VP!Promise!Next, V!Promise!Issue, VP!Promise!Issue,
         V!Promise!Spend, VP!Promise!Spend, V!Promise!Accept, VP!Promise!Accept,
         V!Promise!Move, VP!Promise!Move
<1>3. SessionsSpec => VP!KeepsPromise
  BY VP!RefinementFrom, RegistryAssumption, SessionsAssumption, VerifiersRun, PTL
<1> QED
  BY <1>1, <1>2, <1>3, PTL
     DEF KeepsPromise, V!KeepsPromise, VP!KeepsPromise, V!Promise!Spec, VP!Promise!Spec
=============================================================================
