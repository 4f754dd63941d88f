------------------------------ MODULE Protocol ------------------------------
(***************************************************************************)
(* The whole credential life cycle (harness/e2e_core.ts): issuers issue    *)
(* and revoke credentials, wallets prove statements about them against the *)
(* chain's revocation root and the issuer's revocation tree, verifiers     *)
(* check the proofs (module Verifier) against the chain (Registries).      *)
(*                                                                         *)
(* The tree and the chain are two copies of the same set that move apart   *)
(* and together; wallets and verifiers each read them at their own time.   *)
(* Proofs travel freely: once made, anyone can present one, at any         *)
(* verifier, any number of times.  Wallets in Skipping are the modified    *)
(* wallets of harness/malicious_wallet_probe.ts and negative_test.ts.      *)
(***************************************************************************)
EXTENDS CredentialAuth, Sequences, FiniteSets

CONSTANTS
  Accounts, Governance, NoAddress, DIDs, Keys, NoKey, Roots, EmptyRoot,
  SchemaIds, SchemaHashes, NoHash,
  Verifiers, Nonces, Calls, Policies, TTL, MaxTime, Undefined,
  Issuers,          \* DIDs of accredited issuers
  pkOf,             \* issuer DID -> public key; the DID is its hash
  Holders,          \* wallets, named by their DID
  Skipping,         \* the modified ones among them
  Ages,             \* values of the age claim
  Sessions,         \* proof sessions
  MaxCredentials,   \* bound on the number of issued credentials
  MaxFailures       \* bound on the publications that fail

ASSUME ProtocolAssumption ==
  /\ Governance \in Accounts /\ NoAddress \notin Accounts
  /\ Undefined \notin Nat \cup Roots
  /\ Issuers \subseteq DIDs
  /\ pkOf \in [Issuers -> Keys]
  /\ Skipping \subseteq Holders
  /\ Policies \subseteq [type : {"age_gte", "age_lt"}, threshold : Int]
  /\ Ages \subseteq Int
  /\ TTL \in Nat /\ MaxTime \in Nat
  /\ MaxFailures \in Nat
  /\ EmptyRoot = smtRoot({})

VARIABLES
  records, accredited, revRoot, schemas,                       \* Registries
  clock, issued, issuedAt, pc, request, doc, chainRoot, checks, seen,
                                                               \* Verifier
  vcs,           \* credentials the issuers have signed
  tree,          \* per issuer, the SMT keys in its RevocationTree
  outbox,        \* per issuer, the root its pending publishRevRoot carries
  failures,      \* publications that have failed so far
  session,       \* per proof session, the wallet's progress
  proofs         \* presentations that exist

chainVars    == <<records, accredited, revRoot, schemas>>
verifierVars == <<clock, issued, issuedAt, pc, request, doc, chainRoot,
                  checks, seen>>
issuerVars   == <<vcs, tree, outbox, failures>>
walletVars   == <<session, proofs>>
vars == <<chainVars, verifierVars, issuerVars, walletVars>>

-----------------------------------------------------------------------------
(* Credentials                                                              *)

secretOf(h) == <<"holderSecret", h>>

sign(pk, digest) == <<"ML-DSA-44", pk, digest>>

Credential(i, h, age) ==
  [subject |-> h, age |-> age, issuer |-> i,
   holderCommit |-> holderCommit(secretOf(h))]

computeCredId(cred, pk) == sha3_256(<<cred, pk>>)

smtKey(vc) == smtKeyFromCredId(vc.credID)

SignedVC(i, h, age) ==
  LET cred == Credential(i, h, age)
      credID == computeCredId(cred, pkOf[i])
  IN [credential |-> cred, credID |-> credID,
      signature |-> sign(pkOf[i], credID)]

SignedVCs == {SignedVC(i, h, age) : i \in Issuers, h \in Holders, age \in Ages}

RevocationKeys == {smtKey(vc) : vc \in SignedVCs}

\* A root on chain is a number, as every tree's root is.
ASSUME RootsAssumption == \A keys \in SUBSET RevocationKeys : smtRoot(keys) \in Roots

\* What a holder can put in its wallet: issued credentials (its own or not),
\* issued ones with the age rewritten, and made-up ones nobody signed.
Tampered(VCs) == {[vc EXCEPT !.credential.age = age] : vc \in VCs, age \in Ages}
TamperedVCs == Tampered(vcs)
ForgedVCs ==
  {[SignedVC(i, h, age) EXCEPT !.signature = <<"garbage">>] :
     i \in Issuers, h \in Holders, age \in Ages}
PresentableVCs(h) ==
  vcs \cup TamperedVCs \cup {vc \in ForgedVCs : vc.credential.subject = h}

\* Every presentation there could be: the signals that a wallet's circuit is
\* given, and what they were made from.
MadeFrom(h, vc, root, q, n, v) ==
  [signals |-> <<issuerKeyHash(pkOf[vc.credential.issuer]), root,
                 policyHash(predicateCodeFor(q), q.threshold), n,
                 stmtCodeForDomain(verifierDomainTag(v))>>,
   proof |-> "valid", issuerDid |-> vc.credential.issuer,
   from |-> [wallet |-> h, vc |-> vc, verifierId |-> v, policy |-> q]]

PossibleVCs == SignedVCs \cup Tampered(SignedVCs) \cup ForgedVCs

PossibleProofs ==
  {MadeFrom(h, vc, root, q, n, v) :
     h \in Holders, vc \in PossibleVCs, root \in Roots, q \in Policies,
     n \in Nonces, v \in Verifiers}

V == INSTANCE Verifier WITH Presentations <- PossibleProofs

-----------------------------------------------------------------------------
\* The network after the set-up of e2e_core.ts: the issuers are registered,
\* accredited, and have published their tree.  The fixture entries it holds
\* are nobody's credentials, and are left out.
Init ==
  /\ records    = [d \in DIDs |-> IF d \in Issuers
       THEN [controller |-> Governance, pk |-> pkOf[d], active |-> TRUE]
       ELSE V!Chain!ZeroRecord]
  /\ accredited = [d \in DIDs |-> d \in Issuers]
  /\ revRoot    = [d \in DIDs |-> EmptyRoot]
  /\ schemas    = [s \in SchemaIds |-> V!Chain!ZeroSchema]
  /\ V!VerifierInit
  /\ vcs      = {}
  /\ tree     = [i \in Issuers |-> {}]
  /\ outbox   = [i \in Issuers |-> Undefined]
  /\ failures = 0
  /\ session  = [s \in Sessions |-> [at |-> "idle"]]
  /\ proofs   = {}

-----------------------------------------------------------------------------
(* Issuer                                                                   *)

issueCredential(i, h, age) ==
  /\ Cardinality(vcs) < MaxCredentials
  /\ vcs' = vcs \cup {SignedVC(i, h, age)}
  /\ UNCHANGED <<chainVars, verifierVars, tree, outbox, failures, walletVars>>

\* Seeded defect: the root is taken before the insertion.
RevokeTakesOldRoot(i, vc) ==
  /\ outbox[i] = Undefined
  /\ smtKey(vc) \notin tree[i]
  /\ tree' = [tree EXCEPT ![i] = @ \cup {smtKey(vc)}]
  /\ outbox' = [outbox EXCEPT ![i] = smtRoot(tree[i])]
  /\ UNCHANGED <<chainVars, verifierVars, vcs, failures, walletVars>>

\* tree.insert, which throws for a key already in the tree, and the root that
\* the awaited publication will carry.  One revocation at a time.
revoke(i, vc) ==
  /\ outbox[i] = Undefined
  /\ smtKey(vc) \notin tree[i]
  /\ tree' = [tree EXCEPT ![i] = @ \cup {smtKey(vc)}]
  /\ outbox' = [outbox EXCEPT ![i] = smtRoot(tree'[i])]
  /\ UNCHANGED <<chainVars, verifierVars, vcs, failures, walletVars>>

\* The transaction is mined ...
publishRevRoot(i) ==
  /\ outbox[i] # Undefined
  /\ V!Chain!publishRevRoot(Governance, i, outbox[i])
  /\ V!Observe
  /\ outbox' = [outbox EXCEPT ![i] = Undefined]
  /\ UNCHANGED <<clock, issued, issuedAt, pc, request, doc, chainRoot, checks,
                 vcs, tree, failures, walletVars>>

\* ... or publishRevRoot rejects: the tree keeps the key, and inserting it
\* again would throw.
publishFails(i) ==
  /\ outbox[i] # Undefined
  /\ failures < MaxFailures
  /\ failures' = failures + 1
  /\ outbox' = [outbox EXCEPT ![i] = Undefined]
  /\ UNCHANGED <<chainVars, verifierVars, vcs, tree, walletVars>>

-----------------------------------------------------------------------------
(* Wallet                                                                   *)

wallet(s) == session[s].wallet

At(s, place) == session[s].at = place

Refuse(s) == session' = [session EXCEPT ![s] = [at |-> "refused"]]

\* A verifier opens a session with a wallet, which picks a credential.
requestProof(s, h, v, n, policy) ==
  /\ At(s, "idle")
  /\ V!issue(v, n)
  /\ \E vc \in PresentableVCs(h) :
       session' = [session EXCEPT ![s] =
         [at |-> "getRevRoot", wallet |-> h, vc |-> vc,
          verifierId |-> v, nonce |-> n, policy |-> policy,
          revRoot |-> Undefined, opening |-> Undefined]]
  /\ UNCHANGED <<chainVars, clock, pc, request, doc, chainRoot, checks, seen,
                 issuerVars, proofs>>

\* The wallet resolves the root from the chain.
getRevRoot(s) ==
  /\ At(s, "getRevRoot")
  /\ session' = [session EXCEPT ![s].at = "getNonMembershipProof",
                     ![s].revRoot = revRoot[session[s].vc.credential.issuer]]
  /\ UNCHANGED <<chainVars, verifierVars, issuerVars, proofs>>

\* The issuer's revocation service throws for a revoked credential, otherwise
\* opens the slot of its key in the tree of this moment.
getNonMembershipProof(s) ==
  LET vc == session[s].vc
      keys == tree[vc.credential.issuer]
  IN /\ At(s, "getNonMembershipProof")
     /\ \/ /\ smtKey(vc) \in keys
           /\ Refuse(s)
        \/ /\ smtKey(vc) \notin keys
           /\ session' = [session EXCEPT ![s].at = "prove",
                              ![s].opening = [key |-> smtKey(vc), tree |-> keys]]
     /\ UNCHANGED <<chainVars, verifierVars, issuerVars, proofs>>

\* Strategy B of negative_test.ts: keep the opening, take the current root.
refreshRoot(s) ==
  /\ At(s, "prove")
  /\ wallet(s) \in Skipping
  /\ session' = [session EXCEPT ![s].revRoot =
                   revRoot[session[s].vc.credential.issuer]]
  /\ UNCHANGED <<chainVars, verifierVars, issuerVars, proofs>>

dilithiumVerify(pk, digest, signature) == signature = sign(pk, digest)

\* Seeded defect: the wallet trusts the credID printed on the credential.
CheckTrustsCredId(h, vc, pk, policy) ==
  /\ dilithiumVerify(pk, vc.credID, vc.signature)
  /\ vc.credential.holderCommit = holderCommit(secretOf(h))
  /\ vc.credential.subject = h
  /\ PolicyApplicable(policy, vc.credential.age)

walletCheckCredential(h, vc, pk, policy) ==
  /\ computeCredId(vc.credential, pk) = vc.credID
  /\ dilithiumVerify(pk, vc.credID, vc.signature)
  /\ vc.credential.holderCommit = holderCommit(secretOf(h))
  /\ vc.credential.subject = h
  /\ PolicyApplicable(policy, vc.credential.age)

\* Seeded defect: the statement code leaves the verifier's domain out.
PublicInputsV1(s) ==
  [issuerKeyHash |-> issuerKeyHash(pkOf[session[s].vc.credential.issuer]),
   revRoot       |-> session[s].revRoot,
   policyHash    |-> policyHash(predicateCodeFor(session[s].policy),
                                session[s].policy.threshold),
   nonce         |-> session[s].nonce,
   stmtCode      |-> poseidon(<<STMT_V1>>)]

publicInputs(s) ==
  [issuerKeyHash |-> issuerKeyHash(pkOf[session[s].vc.credential.issuer]),
   revRoot       |-> session[s].revRoot,
   policyHash    |-> policyHash(predicateCodeFor(session[s].policy),
                                session[s].policy.threshold),
   nonce         |-> session[s].nonce,
   stmtCode      |-> stmtCodeForDomain(
                       verifierDomainTag(session[s].verifierId))]

privateInputs(s) ==
  [credId        |-> session[s].vc.credID,
   holderSecret  |-> secretOf(wallet(s)),
   holderCommit  |-> session[s].vc.credential.holderCommit,
   claimAge      |-> session[s].vc.credential.age,
   threshold     |-> session[s].policy.threshold,
   predicateCode |-> predicateCodeFor(session[s].policy),
   domainTag     |-> verifierDomainTag(session[s].verifierId),
   opening       |-> session[s].opening]

publicSignals(pub) ==
  <<pub.issuerKeyHash, pub.revRoot, pub.policyHash, pub.nonce, pub.stmtCode>>

\* buildProofInput and prove: the checks throw, the witness calculation throws
\* when R' is unsatisfied, or there is a proof.  "from" is history.
generateProof(s) ==
  LET vc == session[s].vc
      pub == publicInputs(s)
      pkIssuer == pkOf[vc.credential.issuer]
  IN /\ At(s, "prove")
     /\ IF /\ \/ wallet(s) \in Skipping
              \/ walletCheckCredential(wallet(s), vc, pkIssuer,
                                       session[s].policy)
           /\ Satisfied(pub, privateInputs(s))
        THEN /\ proofs' = proofs \cup
                  {[signals |-> publicSignals(pub), proof |-> "valid",
                    issuerDid |-> vc.credential.issuer,
                    from |-> [wallet |-> wallet(s), vc |-> vc,
                              verifierId |-> session[s].verifierId,
                              policy |-> session[s].policy]]}
             /\ session' = [session EXCEPT ![s] = [at |-> "proved"]]
        ELSE Refuse(s) /\ UNCHANGED proofs
     /\ UNCHANGED <<chainVars, verifierVars, issuerVars>>

-----------------------------------------------------------------------------
(* Verifier                                                                 *)

present(c, v, p, policy) ==
  /\ V!verifyPresentation(c, v, p, policy)
  /\ UNCHANGED <<issuerVars, walletVars>>

Resume(c) == V!Resume(c) /\ UNCHANGED <<issuerVars, walletVars>>

Tick == V!Tick /\ UNCHANGED <<issuerVars, walletVars>>

-----------------------------------------------------------------------------
Next ==
  \/ \E i \in Issuers, h \in Holders, age \in Ages : issueCredential(i, h, age)
  \/ \E vc \in vcs : revoke(vc.credential.issuer, vc)
  \/ \E i \in Issuers : publishRevRoot(i) \/ publishFails(i)
  \/ \E s \in Sessions, h \in Holders, v \in Verifiers, n \in Nonces,
        q \in Policies : requestProof(s, h, v, n, q)
  \/ \E s \in Sessions :
       \/ getRevRoot(s)
       \/ getNonMembershipProof(s)
       \/ refreshRoot(s)
       \/ generateProof(s)
  \/ \E c \in Calls, v \in Verifiers, p \in proofs, q \in Policies :
       present(c, v, p, q)
  \/ \E c \in Calls : Resume(c)
  \/ Tick

Spec == Init /\ [][Next]_vars

\* The issuer's await ends: a sent transaction is mined or fails.
FairSpec == Spec /\ \A i \in Issuers :
                      WF_vars(publishRevRoot(i) \/ publishFails(i))

-----------------------------------------------------------------------------
Proof(c) == request[c].presentation

(* The ledger, the issuers' trees and the wallets' sessions have the       *)
(* shapes the code gives them; a root on chain or under way is one that    *)
(* the issuer's tree has had, so its keys are a subset of the tree's.      *)
TypeOK ==
  /\ V!Chain!TypeOK
  /\ pc \in [Calls -> {"idle"} \cup V!Suspended \cup V!Settled]
  /\ checks \in [Calls -> SUBSET V!CheckNames]
  /\ tree \in [Issuers -> SUBSET {smtKey(vc) : vc \in vcs}]
  /\ \A i \in Issuers :
       /\ smtKeysUnder(revRoot[i]) \subseteq tree[i]
       /\ outbox[i] \in {Undefined, smtRoot(tree[i])}
  /\ \A s \in Sessions : session[s].at \in
       {"idle", "getRevRoot", "getNonMembershipProof", "prove", "proved",
        "refused"}
  /\ failures \in 0 .. MaxFailures

(* Unforgeability up to Assumption 5: an accepted proof of a wallet that   *)
(* runs its off-circuit checks speaks of a credential the presented issuer *)
(* signed, for this holder, whose signed age satisfies the policy that the *)
(* verifier asked for.                                                     *)
AcceptedIsBacked ==
  \A c \in Calls : V!Accepted(c) /\ Proof(c).from.wallet \notin Skipping =>
    \E vc \in vcs :
      /\ vc = Proof(c).from.vc
      /\ vc.credential.subject = Proof(c).from.wallet
      /\ vc.credential.issuer = Proof(c).issuerDid
      /\ PolicyApplicable(request[c].policy, vc.credential.age)

(* A proof is only ever accepted by the verifier, in the session and for   *)
(* the policy it was made for, whoever presents it and however modified    *)
(* the wallet: the nonce, the statement code and the policy hash carry     *)
(* them through the circuit.                                               *)
AcceptedWhereRequested ==
  \A c \in Calls : V!Accepted(c) =>
    /\ Proof(c).from.verifierId = request[c].verifier
    /\ Proof(c).from.policy = request[c].policy
    /\ issuedAt[request[c].verifier][Proof(c).signals[4]] # Undefined

(* One session, one acceptance, in the whole system: a nonce that one      *)
(* verifier handed to one wallet is accepted in one call, whoever presents *)
(* the proofs that carry it, at whichever verifiers, and however the calls *)
(* interleave.                                                             *)
SessionAcceptedOnce ==
  \A c1, c2 \in Calls :
    V!Accepted(c1) /\ V!Accepted(c2) /\ V!sigNonce(c1) = V!sigNonce(c2) => c1 = c2

(* Wallets, issuers and the way proofs travel do nothing to a verifier     *)
(* that module Verifier does not allow of its callers; above all, no proof *)
(* carries a nonce that no verifier has drawn.                             *)
VerifiersRunAsSpecified == V!VerifierSpec

(* Revocation: a call that only ever saw roots containing the credential's *)
(* key -- one that started after the publication -- does not accept,       *)
(* whatever the wallet kept from before.                                   *)
PublishedRevocationHolds ==
  \A c \in Calls : V!Accepted(c) =>
    \E f \in seen[c] : smtKey(Proof(c).from.vc) \notin smtKeysUnder(f.root)

(* The claim of harness/negative_test.ts, at the moment of the decision: a *)
(* credential whose credID is in the revoked set does not produce an       *)
(* accepted proof.  The set and the published root are not the same thing. *)
RevokedNeverAccepted ==
  [][\A c \in Calls : V!Accepted(c)' /\ ~ V!Accepted(c) =>
       smtKey(Proof(c).from.vc) \notin tree[Proof(c).issuerDid]]_vars

(* No spurious refusal: a wallet with an issued, applicable credential of  *)
(* its own, whose key is not revoked and whose numbers fit the circuit,    *)
(* gets its proof unless the issuer's tree has moved on from the root the  *)
(* wallet read: then root and opening do not fit, though the credential is *)
(* good.                                                                   *)
HonestWalletIsServed ==
  [][\A s \in Sessions :
       (/\ session[s].at \notin {"idle", "refused"}
        /\ session'[s].at = "refused"
        /\ wallet(s) \notin Skipping) =>
       LET vc == session[s].vc
           keys == tree[vc.credential.issuer]
       IN \/ vc \notin vcs
          \/ vc.credential.subject # wallet(s)
          \/ ~ PolicyApplicable(session[s].policy, vc.credential.age)
          \/ ~ InRange(vc.credential.age)
          \/ ~ InRange(session[s].policy.threshold)
          \/ smtKey(vc) \in keys
          \/ keys # smtKeysUnder(session[s].revRoot)]_vars

(* What issuers promise of their revocations, read off the tree, the       *)
(* pending publication and the root on chain.                              *)
Revocations ==
  INSTANCE RevocationPromise
    WITH Keys <- RevocationKeys,
         revoked <- tree,
         sending <- [i \in Issuers |->
                       {smtKeysUnder(root) : root \in {outbox[i]} \ {Undefined}}],
         published <- [i \in Issuers |-> smtKeysUnder(revRoot[i])]

(* Whatever wallets, verifiers and other issuers do in between, an         *)
(* issuer's one-at-a-time loop of insert and publishRevRoot                *)
(* (harness/e2e_core.ts:212-213), failed publications included, puts on    *)
(* chain the root of its revoked set of that moment, or nothing.           *)
IssuersKeepPromise == Revocations!Spec

(* A revocation takes hold: the key of a credential put in the tree gets   *)
(* on chain, when publications do not fail.                                *)
RevocationTakesHold ==
  \A i \in Issuers, h \in Holders, age \in Ages :
    LET key == smtKey(SignedVC(i, h, age))
    IN key \in tree[i] ~> key \in smtKeysUnder(revRoot[i])
=============================================================================
