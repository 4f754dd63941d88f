---------------------------- MODULE Protocol_proofs ----------------------------
(***************************************************************************)
(* For any number of issuers, holders, verifiers, sessions and calls, any  *)
(* set of modified wallets and any failures: what a verifier accepts was   *)
(* made for it and for its policy, is backed by a signed credential if its *)
(* wallet checks, and has a key outside some root of the call.             *)
(*                                                                         *)
(* The argument follows an acceptance back: from the call's checks to the  *)
(* signals of a proof that exists (CallOf), from the proof to the session  *)
(* that made it (ProofOf), from the session to what issuer, chain and tree *)
(* held when they were read (SessionOf).                                   *)
(*                                                                         *)
(* The last part is about MCRevocations, where the same promise is kept    *)
(* call by call.                                                           *)
(***************************************************************************)
EXTENDS MCRevocations, CredentialAuth_proofs

IssuedBySomeIssuer == vcs \subseteq SignedVCs

\* The chain's roots are roots of key sets, which the trees contain.
Ledger ==
  /\ V!Chain!TypeOK
  /\ \A i \in Issuers :
       /\ revRoot[i] = smtRoot(smtKeysUnder(revRoot[i]))
       /\ smtKeysUnder(revRoot[i]) \subseteq tree[i]

Trees ==
  /\ tree \in [Issuers -> SUBSET {smtKey(vc) : vc \in vcs}]
  /\ outbox = [i \in Issuers |-> outbox[i]]
  /\ \A i \in Issuers : outbox[i] \in {Undefined, smtRoot(tree[i])}
  /\ failures \in 0 .. MaxFailures

NoncesOK ==
  /\ clock \in Nat
  /\ issuedAt \in [Verifiers -> [Nonces -> Nat \cup {Undefined}]]

Places == {"idle", "getRevRoot", "getNonMembershipProof", "prove", "proved",
           "refused"}
Active == {"getRevRoot", "getNonMembershipProof", "prove"}
Fields == {"at", "wallet", "vc", "verifierId", "nonce", "policy", "revRoot",
           "opening"}

\* A session in progress has a request with an issued nonce and a credential
\* that its wallet can have; what it read from chain and tree is contained in
\* the tree of today.
SessionOf(s) ==
  LET r == session[s]
      keys == tree[r.vc.credential.issuer]
  IN
  /\ r.at \in Places
  /\ r.at \in Active =>
       /\ DOMAIN r = Fields
       /\ r.wallet \in Holders /\ r.vc \in PresentableVCs(r.wallet)
       /\ r.verifierId \in Verifiers /\ r.policy \in Policies
       /\ r.nonce \in Nonces /\ issuedAt[r.verifierId][r.nonce] # Undefined
  /\ r.at \in {"getNonMembershipProof", "prove"} =>
       /\ r.revRoot = smtRoot(smtKeysUnder(r.revRoot))
       /\ smtKeysUnder(r.revRoot) \subseteq keys
  /\ r.at = "prove" =>
       /\ r.opening = [key |-> smtKey(r.vc), tree |-> r.opening.tree]
       /\ smtKey(r.vc) \notin r.opening.tree
       /\ r.opening.tree \subseteq keys
       /\ r.wallet \notin Skipping =>
            smtKeysUnder(r.revRoot) \subseteq r.opening.tree

\* What the signals of a proof say about the session it came from.
ProofOf(p) ==
  /\ p.from.policy \in Policies /\ p.from.verifierId \in Verifiers
  /\ p.issuerDid = p.from.vc.credential.issuer
  /\ smtKey(p.from.vc) \notin smtKeysUnder(p.signals[2])
  /\ p.signals[3] = policyHash(predicateCodeFor(p.from.policy),
                               p.from.policy.threshold)
  /\ p.signals[4] \in Nonces
  /\ issuedAt[p.from.verifierId][p.signals[4]] # Undefined
  /\ p.signals[5] = stmtCodeForDomain(verifierDomainTag(p.from.verifierId))
  /\ p.from.wallet \notin Skipping =>
       /\ p.from.vc \in vcs
       /\ p.from.vc.credential.subject = p.from.wallet
       /\ PolicyApplicable(p.from.policy, p.from.vc.credential.age)

\* A call holds a proof that exists, the present root of its issuer is on its
\* record, and its checks say what they are called.
CallOf(c) ==
  /\ pc[c] = "idle" => checks[c] = {}
  /\ pc[c] # "idle" =>
       /\ Proof(c) \in proofs
       /\ request[c].verifier \in Verifiers /\ request[c].policy \in Policies
  /\ V!InFlight(c) =>
       \E f \in seen[c] : f.root = revRoot[V!Issuer(c)]
  /\ pc[c] = "resumed" /\ chainRoot[c] # Undefined =>
       \E f \in seen[c] : f.root = chainRoot[c]
  /\ "revRootMatches" \in checks[c] =>
       \E f \in seen[c] : f.root = V!sigRevRoot(c)
  /\ "policyHashMatches" \in checks[c] =>
       policyHash(predicateCodeFor(request[c].policy),
                  request[c].policy.threshold) = V!sigPolicyHash(c)
  /\ "stmtCodeValid" \in checks[c] =>
       stmtCodeForDomain(verifierDomainTag(request[c].verifier))
         = V!sigStmtCode(c)

CallShapes ==
  /\ pc \in [Calls -> {"idle"} \cup V!Suspended \cup V!Settled]
  /\ checks \in [Calls -> SUBSET V!CheckNames]
  /\ request   = [c \in Calls |-> request[c]]
  /\ chainRoot = [c \in Calls |-> chainRoot[c]]
  /\ seen      = [c \in Calls |-> seen[c]]

SessionsOK ==
  session = [s \in Sessions |-> session[s]] /\ \A s \in Sessions : SessionOf(s)

CallsOK == CallShapes /\ \A c \in Calls : CallOf(c)

IInv ==
  /\ IssuedBySomeIssuer /\ Ledger /\ Trees /\ NoncesOK
  /\ SessionsOK
  /\ \A p \in proofs : ProofOf(p)
  /\ CallsOK

-----------------------------------------------------------------------------
(* Credentials: who can have one, and what the wallet's checks exclude.     *)

LEMMA PresentableIsPossible ==
  ASSUME IssuedBySomeIssuer, NEW h \in Holders
  PROVE  PresentableVCs(h) \subseteq PossibleVCs
BY DEF IssuedBySomeIssuer, PresentableVCs, TamperedVCs, Tampered, PossibleVCs

LEMMA PossibleIssuer ==
  ASSUME NEW vc \in PossibleVCs
  PROVE  vc.credential.issuer \in Issuers
<1>1. ASSUME NEW w \in SignedVCs
      PROVE  w.credential.issuer \in Issuers
  <2>1. PICK i \in Issuers, g \in Holders, a \in Ages : w = SignedVC(i, g, a)
    BY DEF SignedVCs
  <2>2. QED
    BY <2>1 DEF SignedVC, Credential
<1>2. CASE vc \in Tampered(SignedVCs)
  <2>1. PICK w \in SignedVCs, age \in Ages : vc = [w EXCEPT !.credential.age = age]
    BY <1>2 DEF Tampered
  <2>2. PICK i \in Issuers, g \in Holders, a \in Ages : w = SignedVC(i, g, a)
    BY <2>1 DEF SignedVCs
  <2>3. QED
    BY <2>1, <2>2 DEF SignedVC, Credential
<1>3. CASE vc \in ForgedVCs
  <2>1. PICK i \in Issuers, g \in Holders, a \in Ages :
          vc = [SignedVC(i, g, a) EXCEPT !.signature = <<"garbage">>]
    BY <1>3 DEF ForgedVCs
  <2>2. QED
    BY <2>1 DEF SignedVC, Credential
<1>4. QED
  BY <1>1, <1>2, <1>3 DEF PossibleVCs

LEMMA PresentableIssuer ==
  ASSUME IssuedBySomeIssuer, NEW h \in Holders, NEW vc \in PresentableVCs(h)
  PROVE  vc.credential.issuer \in Issuers
BY PresentableIsPossible, PossibleIssuer

\* The unforgeability of signatures and the binding of credIDs: what passes
\* the wallet's checks was signed as it stands.
LEMMA Unforgeable ==
  ASSUME IssuedBySomeIssuer, NEW h \in Holders, NEW vc \in PresentableVCs(h),
         NEW q \in Policies,
         walletCheckCredential(h, vc, pkOf[vc.credential.issuer], q)
  PROVE  /\ vc \in vcs /\ vc.credential.subject = h
         /\ PolicyApplicable(q, vc.credential.age)
<1>1. /\ computeCredId(vc.credential, pkOf[vc.credential.issuer]) = vc.credID
      /\ vc.signature = sign(pkOf[vc.credential.issuer], vc.credID)
      /\ vc.credential.subject = h
      /\ PolicyApplicable(q, vc.credential.age)
  BY DEF walletCheckCredential, dilithiumVerify
<1>2. ASSUME vc \in ForgedVCs
      PROVE  FALSE
  <2>1. PICK i \in Issuers, g \in Holders, a \in Ages :
          vc = [SignedVC(i, g, a) EXCEPT !.signature = <<"garbage">>]
    BY <1>2 DEF ForgedVCs
  <2>2. vc.signature = <<"garbage">>
    BY <2>1 DEF SignedVC
  <2>3. QED
    BY <1>1, <2>2 DEF sign
<1>3. CASE vc \in TamperedVCs
  <2>1. PICK w \in vcs, age \in Ages : vc = [w EXCEPT !.credential.age = age]
    BY <1>3 DEF TamperedVCs, Tampered
  <2>2. PICK i \in Issuers, g \in Holders, a \in Ages : w = SignedVC(i, g, a)
    BY <2>1 DEF IssuedBySomeIssuer, SignedVCs
  <2>3. vc.credID = sha3_256(<<w.credential, pkOf[i]>>)
    BY <2>1, <2>2 DEF SignedVC, computeCredId
  <2>4. vc.credential = w.credential
    BY <1>1, <2>3 DEF computeCredId, sha3_256
  <2>5. /\ DOMAIN vc = DOMAIN w
        /\ vc.credID = w.credID /\ vc.signature = w.signature
    BY <2>1, <2>2 DEF SignedVC
  <2>6. vc = w
    BY <2>1, <2>2, <2>4, <2>5 DEF SignedVC, Credential
  <2>7. QED
    BY <1>1, <2>6
<1>4. QED
  BY <1>1, <1>2, <1>3 DEF PresentableVCs

-----------------------------------------------------------------------------
(* What the invariant relies on only grows.                                 *)

Grows ==
  /\ vcs \subseteq vcs'
  /\ \A i \in Issuers : tree[i] \subseteq tree'[i]
  /\ \A v \in Verifiers, n \in Nonces :
       issuedAt[v][n] # Undefined => issuedAt'[v][n] # Undefined
  /\ proofs \subseteq proofs'

LEMMA PresentableGrows ==
  ASSUME Grows, NEW h \in Holders
  PROVE  PresentableVCs(h) \subseteq PresentableVCs(h)'
BY DEF Grows, PresentableVCs, TamperedVCs, Tampered, ForgedVCs

LEMMA SessionRests ==
  ASSUME IssuedBySomeIssuer, Grows,
         NEW s \in Sessions, SessionOf(s), session'[s] = session[s]
  PROVE  SessionOf(s)'
<1> DEFINE r == session[s]
<1>1. ASSUME r.at \in Active
      PROVE  /\ r.vc \in PresentableVCs(r.wallet)'
             /\ r.vc.credential.issuer \in Issuers
             /\ issuedAt'[r.verifierId][r.nonce] # Undefined
  <2>1. r.wallet \in Holders /\ r.vc \in PresentableVCs(r.wallet)
    BY <1>1 DEF SessionOf
  <2>2. QED
    BY <1>1, <2>1, PresentableGrows, PresentableIssuer DEF SessionOf, Grows
<1>2. QED
  BY <1>1 DEF SessionOf, Grows, Active

\* Only the session that moves has to be looked at.
LEMMA OneSessionMoves ==
  ASSUME IssuedBySomeIssuer, SessionsOK, Grows, NEW s \in Sessions, NEW r,
         session' = [session EXCEPT ![s] = r], SessionOf(s)'
  PROVE  SessionsOK'
BY SessionRests DEF SessionsOK

LEMMA ProofRests ==
  ASSUME Grows, NEW p, ProofOf(p)
  PROVE  ProofOf(p)'
BY DEF ProofOf, Grows

\* Calls whose variables rest, with the roots of the chain.
LEMMA CallsRest ==
  ASSUME CallsOK, Grows, revRoot' = revRoot,
         UNCHANGED <<pc, checks, request, chainRoot, seen>>
  PROVE  CallsOK'
BY DEF CallsOK, CallShapes, CallOf, Grows, Proof, V!InFlight, V!Issuer,
       V!sigRevRoot, V!sigPolicyHash, V!sigStmtCode, V!Signals
-----------------------------------------------------------------------------
(* The invariant holds initially.                                           *)

LEMMA InitInv == Init => IInv
<1> SUFFICES ASSUME Init PROVE IInv
  OBVIOUS
<1> USE ProtocolAssumption DEF Init
<1>1. IssuedBySomeIssuer
  BY DEF IssuedBySomeIssuer
<1>2. Ledger
  <2>1. EmptyRoot \in Roots
    BY RootsAssumption
  <2>2. V!Chain!TypeOK
    BY <2>1 DEF V!Chain!TypeOK, V!Chain!DIDRecord, V!Chain!Schema,
       V!Chain!ZeroRecord, V!Chain!ZeroSchema, V!Chain!controllerOf
  <2>3. QED
    BY <2>2 DEF Ledger, smtRoot, smtKeysUnder
<1>3. Trees
  BY DEF Trees
<1>4. NoncesOK
  BY DEF NoncesOK, V!VerifierInit
<1>5. SessionsOK
  BY DEF SessionsOK, SessionOf, Places, Active
<1>6. CallsOK
  BY DEF CallsOK, CallShapes, CallOf, V!VerifierInit, V!InFlight, V!Suspended,
     V!Settled
<1>7. QED
  BY <1>1, <1>2, <1>3, <1>4, <1>5, <1>6 DEF IInv

-----------------------------------------------------------------------------
(* Issuer                                                                   *)

LEMMA IssueKeeps ==
  ASSUME IInv, NEW i \in Issuers, NEW h \in Holders, NEW age \in Ages,
         issueCredential(i, h, age)
  PROVE  IInv'
<1> USE DEF issueCredential, verifierVars, chainVars, walletVars
<1>1. Grows
  BY DEF Grows
<1>2. IssuedBySomeIssuer'
  BY DEF IInv, IssuedBySomeIssuer, SignedVCs
<1>3. Ledger'
  BY DEF IInv, Ledger, V!Chain!TypeOK, V!Chain!controllerOf
<1>4. Trees'
  BY DEF IInv, Trees
<1>5. SessionsOK'
  BY <1>1, SessionRests DEF IInv, SessionsOK
<1>6. CallsOK'
  BY <1>1, CallsRest DEF IInv
<1>7. NoncesOK'
  BY DEF IInv, NoncesOK
<1>8. QED
  BY <1>1, <1>2, <1>3, <1>4, <1>5, <1>6, <1>7, ProofRests DEF IInv

LEMMA RevokeKeeps ==
  ASSUME IInv, NEW vc \in vcs, revoke(vc.credential.issuer, vc)
  PROVE  IInv'
<1> DEFINE i == vc.credential.issuer
<1> USE DEF revoke, verifierVars, chainVars, walletVars
<1>1. i \in Issuers
  <2>1. PICK j \in Issuers, g \in Holders, a \in Ages : vc = SignedVC(j, g, a)
    BY DEF IInv, IssuedBySomeIssuer, SignedVCs
  <2>2. QED
    BY <2>1 DEF SignedVC, Credential
<1>2. Grows
  BY DEF Grows, IInv, Trees
<1>3. IssuedBySomeIssuer'
  BY DEF IInv, IssuedBySomeIssuer, SignedVCs
<1>4. Ledger'
  BY <1>1 DEF IInv, Ledger, Trees, V!Chain!TypeOK, V!Chain!controllerOf
<1>5. Trees'
  BY <1>1, SMTT(30) DEF IInv, Trees
<1>6. SessionsOK'
  BY <1>2, SessionRests DEF IInv, SessionsOK
<1>7. CallsOK'
  BY <1>2, CallsRest DEF IInv
<1>8. NoncesOK'
  BY DEF IInv, NoncesOK
<1>9. QED
  BY <1>2, <1>3, <1>4, <1>5, <1>6, <1>7, <1>8, ProofRests DEF IInv

LEMMA TreeOfCredentials ==
  ASSUME IInv, NEW i \in Issuers
  PROVE  tree[i] \subseteq RevocationKeys
<1>1. \A vc \in vcs : smtKey(vc) \in RevocationKeys
  BY DEF IInv, IssuedBySomeIssuer, RevocationKeys
<1> QED
  BY <1>1 DEF IInv, Trees

\* A call in flight gets the new root on its record.
LEMMA PublishKeeps ==
  ASSUME IInv, NEW i \in Issuers, publishRevRoot(i)
  PROVE  IInv'
<1> USE DEF publishRevRoot
<1>1. /\ outbox[i] = smtRoot(tree[i])
      /\ revRoot' = [revRoot EXCEPT ![i] = smtRoot(tree[i])]
      /\ UNCHANGED <<records, accredited, schemas>>
  BY DEF IInv, Trees, V!Chain!publishRevRoot
<1>2. Grows
  BY DEF Grows, walletVars
<1>3. smtRoot(tree[i]) \in Roots
  BY TreeOfCredentials, RootsAssumption
<1>4. Ledger'
  BY <1>1, <1>3, ProtocolAssumption
     DEF IInv, Ledger, Trees, V!Chain!TypeOK, V!Chain!controllerOf, smtRoot,
         smtKeysUnder
<1>5. Trees'
  BY DEF IInv, Trees
<1>6. SessionsOK'
  BY <1>2, SessionRests DEF IInv, SessionsOK, walletVars
<1>7. CallsOK'
  <2>1. ASSUME NEW c \in Calls
        PROVE  /\ seen[c] \subseteq seen'[c]
               /\ V!InFlight(c) =>
                    \E f \in seen'[c] : f.root = revRoot'[V!Issuer(c)]
    <3>1. CASE V!InFlight(c)
      <4>1. seen'[c] = seen[c] \cup {V!ChainFacts(d)' : d \in {V!Issuer(c)}}
        BY <3>1 DEF V!Observe
      <4>2. V!ChainFacts(V!Issuer(c))' \in seen'[c]
        BY <4>1 DEF V!ChainFacts, V!Issuer
      <4>3. V!ChainFacts(V!Issuer(c))'.root = revRoot'[V!Issuer(c)]
        BY DEF V!ChainFacts, V!Issuer
      <4>4. QED
        BY <4>1, <4>2, <4>3
    <3>2. CASE ~ V!InFlight(c)
      BY <3>2 DEF V!Observe
    <3>3. QED
      BY <3>1, <3>2
  <2>2. \A c \in Calls : CallOf(c)'
    BY <2>1 DEF IInv, CallsOK, CallOf, Proof, walletVars, V!InFlight, V!Issuer,
       V!sigRevRoot, V!sigPolicyHash, V!sigStmtCode, V!Signals
  <2>3. CallShapes'
    BY DEF IInv, CallsOK, CallShapes, V!Observe
  <2>4. QED
    BY <2>2, <2>3 DEF CallsOK
<1>8. NoncesOK' /\ IssuedBySomeIssuer'
  BY DEF IInv, NoncesOK, IssuedBySomeIssuer, SignedVCs
<1>9. QED
  BY <1>2, <1>4, <1>5, <1>6, <1>7, <1>8, ProofRests DEF IInv, walletVars

LEMMA PublishFailureKeeps ==
  ASSUME IInv, NEW i \in Issuers, publishFails(i)
  PROVE  IInv'
<1> USE DEF publishFails, verifierVars, chainVars, walletVars
<1>1. Grows
  BY DEF Grows
<1>2. Ledger' /\ IssuedBySomeIssuer' /\ NoncesOK'
  BY DEF IInv, Ledger, IssuedBySomeIssuer, SignedVCs, NoncesOK, V!Chain!TypeOK,
     V!Chain!controllerOf
<1>3. Trees'
  BY ProtocolAssumption DEF IInv, Trees
<1>4. SessionsOK'
  BY <1>1, SessionRests DEF IInv, SessionsOK
<1>5. CallsOK'
  BY <1>1, CallsRest DEF IInv
<1>6. QED
  BY <1>1, <1>2, <1>3, <1>4, <1>5, ProofRests DEF IInv
-----------------------------------------------------------------------------
(* Wallet                                                                   *)

\* Steps of a wallet leave issuers and chain alone, and calls where they are.
LEMMA WalletFrame ==
  ASSUME IInv, Grows, NoncesOK',
         UNCHANGED <<chainVars, pc, request, chainRoot, checks, seen, issuerVars>>,
         SessionsOK', \A p \in proofs' : ProofOf(p)'
  PROVE  IInv'
<1> USE DEF chainVars, issuerVars
<1>1. Ledger' /\ Trees' /\ IssuedBySomeIssuer'
  BY DEF IInv, Ledger, Trees, IssuedBySomeIssuer, SignedVCs, V!Chain!TypeOK,
     V!Chain!controllerOf
<1>2. CallsOK'
  BY CallsRest DEF IInv
<1>3. QED
  BY <1>1, <1>2 DEF IInv

LEMMA RequestKeeps ==
  ASSUME IInv, NEW s \in Sessions, NEW h \in Holders, NEW v \in Verifiers,
         NEW n \in Nonces, NEW q \in Policies, requestProof(s, h, v, n, q)
  PROVE  IInv'
<1> USE DEF requestProof, V!issue
<1>1. NoncesOK' /\ issuedAt'[v][n] # Undefined
  BY ProtocolAssumption DEF IInv, NoncesOK
<1>2. Grows
  BY ProtocolAssumption DEF Grows, issuerVars, IInv, NoncesOK
<1>3. PICK vc \in PresentableVCs(h) :
        session' = [session EXCEPT ![s] =
          [at |-> "getRevRoot", wallet |-> h, vc |-> vc,
           verifierId |-> v, nonce |-> n, policy |-> q,
           revRoot |-> Undefined, opening |-> Undefined]]
  OBVIOUS
<1>4. SessionOf(s)'
  <2>1. vc \in PresentableVCs(h)'
    BY <1>2, PresentableGrows
  <2>2. session'[s] =
          [at |-> "getRevRoot", wallet |-> h, vc |-> vc,
           verifierId |-> v, nonce |-> n, policy |-> q,
           revRoot |-> Undefined, opening |-> Undefined]
    BY <1>3 DEF IInv, SessionsOK
  <2>3. QED
    BY <1>1, <2>1, <2>2 DEF SessionOf, Places, Active, Fields
<1>5. SessionsOK'
  BY <1>2, <1>3, <1>4, OneSessionMoves DEF IInv
<1>6. \A p \in proofs' : ProofOf(p)'
  BY <1>2, ProofRests DEF IInv
<1>7. QED
  BY <1>1, <1>2, <1>5, <1>6, WalletFrame DEF IInv, chainVars

\* A step of a session in progress that makes no proof.
LEMMA SessionStep ==
  ASSUME IInv, NEW s \in Sessions, NEW r, session' = [session EXCEPT ![s] = r],
         SessionOf(s)',
         UNCHANGED <<chainVars, verifierVars, issuerVars, proofs>>
  PROVE  IInv'
<1> USE DEF verifierVars
<1>1. Grows
  BY DEF Grows, issuerVars
<1>2. SessionsOK'
  BY <1>1, OneSessionMoves DEF IInv
<1>3. NoncesOK' /\ \A p \in proofs' : ProofOf(p)'
  BY <1>1, ProofRests DEF IInv, NoncesOK
<1>4. QED
  BY <1>1, <1>2, <1>3, WalletFrame

\* The facts about an active session that its steps need.
LEMMA ActiveSession ==
  ASSUME IInv, NEW s \in Sessions, session[s].at \in Active
  PROVE  /\ session[s].wallet \in Holders
         /\ session[s].vc \in PresentableVCs(session[s].wallet)
         /\ session[s].vc.credential.issuer \in Issuers
         /\ DOMAIN session[s] = Fields
BY PresentableIssuer DEF IInv, SessionsOK, SessionOf

LEMMA PresentableSame ==
  vcs' = vcs => \A h \in Holders : PresentableVCs(h)' = PresentableVCs(h)
BY DEF PresentableVCs, TamperedVCs, Tampered, ForgedVCs

LEMMA GetRootKeeps ==
  ASSUME IInv, NEW s \in Sessions, getRevRoot(s)
  PROVE  IInv'
<1> DEFINE r == session[s]
           i == r.vc.credential.issuer
           next == [r EXCEPT !.at = "getNonMembershipProof",
                             !.revRoot = revRoot[i]]
<1>1. r.at = "getRevRoot" /\ i \in Issuers
  BY ActiveSession DEF getRevRoot, At, Active
<1>2. session' = [session EXCEPT ![s] = next]
  BY DEF getRevRoot
<1>3. session'[s] = next
  BY <1>2 DEF IInv, SessionsOK
<1>4. /\ DOMAIN next = Fields /\ next.at = "getNonMembershipProof"
      /\ next.wallet = r.wallet /\ next.vc = r.vc
      /\ next.verifierId = r.verifierId /\ next.nonce = r.nonce
      /\ next.policy = r.policy /\ next.revRoot = revRoot[i]
      /\ next.opening = r.opening
  BY <1>1, ActiveSession DEF Active, Fields
<1> HIDE DEF next
<1>5. SessionOf(s)'
  <2>1. SessionOf(s) /\ Ledger
    BY DEF IInv, SessionsOK
  <2>2. UNCHANGED <<vcs, tree, issuedAt>>
    BY DEF getRevRoot, issuerVars, verifierVars
  <2>3. QED
    BY <1>1, <1>3, <1>4, <2>1, <2>2, PresentableSame DEF SessionOf, Ledger, Places, Active
<1>6. QED
  BY <1>2, <1>5, SessionStep DEF getRevRoot

LEMMA OpenKeeps ==
  ASSUME IInv, NEW s \in Sessions, getNonMembershipProof(s)
  PROVE  IInv'
<1> DEFINE r == session[s]
           keys == tree[r.vc.credential.issuer]
           next == [r EXCEPT !.at = "prove",
                             !.opening = [key |-> smtKey(r.vc), tree |-> keys]]
<1>1. r.at = "getNonMembershipProof"
  BY DEF getNonMembershipProof, At
<1>2. CASE Refuse(s)
  <2>1. session'[s] = [at |-> "refused"]
    BY <1>2 DEF IInv, SessionsOK, Refuse
  <2>2. SessionOf(s)'
    BY <2>1 DEF SessionOf, Places, Active
  <2>3. QED
    BY <1>2, <2>2, SessionStep DEF Refuse, getNonMembershipProof
<1>3. CASE ~ Refuse(s)
  <2>1. /\ session' = [session EXCEPT ![s] = next]
        /\ smtKey(r.vc) \notin keys
    BY <1>3 DEF getNonMembershipProof
  <2>2. session'[s] = next
    BY <2>1 DEF IInv, SessionsOK
  <2>3. /\ DOMAIN next = Fields /\ next.at = "prove"
        /\ next.wallet = r.wallet /\ next.vc = r.vc
        /\ next.verifierId = r.verifierId /\ next.nonce = r.nonce
        /\ next.policy = r.policy /\ next.revRoot = r.revRoot
        /\ next.opening = [key |-> smtKey(r.vc), tree |-> keys]
    BY <1>1, ActiveSession DEF Active, Fields
  <2>4. SessionOf(s)
    BY DEF IInv, SessionsOK
  <2>5. UNCHANGED <<vcs, tree, issuedAt>>
    BY DEF getNonMembershipProof, issuerVars, verifierVars
  <2> HIDE DEF next
  <2>6. SessionOf(s)'
    BY <1>1, <2>1, <2>2, <2>3, <2>4, <2>5, PresentableSame
       DEF SessionOf, Places, Active
  <2>7. QED
    BY <2>1, <2>6, SessionStep DEF getNonMembershipProof
<1>4. QED
  BY <1>2, <1>3

LEMMA RefreshKeeps ==
  ASSUME IInv, NEW s \in Sessions, refreshRoot(s)
  PROVE  IInv'
<1> DEFINE r == session[s]
           i == r.vc.credential.issuer
           next == [r EXCEPT !.revRoot = revRoot[i]]
<1>1. r.at = "prove" /\ r.wallet \in Skipping /\ i \in Issuers
  BY ActiveSession DEF refreshRoot, At, Active, wallet
<1>2. session' = [session EXCEPT ![s] = next]
  BY DEF refreshRoot
<1>3. session'[s] = next
  BY <1>2 DEF IInv, SessionsOK
<1>4. /\ DOMAIN next = Fields /\ next.at = "prove"
      /\ next.wallet = r.wallet /\ next.vc = r.vc
      /\ next.verifierId = r.verifierId /\ next.nonce = r.nonce
      /\ next.policy = r.policy /\ next.revRoot = revRoot[i]
      /\ next.opening = r.opening
  BY <1>1, ActiveSession DEF Active, Fields
<1> HIDE DEF next
<1>5. SessionOf(s)'
  <2>1. SessionOf(s) /\ Ledger
    BY DEF IInv, SessionsOK
  <2>2. UNCHANGED <<vcs, tree, issuedAt>>
    BY DEF refreshRoot, issuerVars, verifierVars
  <2>3. QED
    BY <1>1, <1>3, <1>4, <2>1, <2>2, PresentableSame DEF SessionOf, Ledger, Places, Active
<1>6. QED
  BY <1>2, <1>5, SessionStep DEF refreshRoot

\* The circuit ties the signals to the session, the opening keeps the key out
\* of the root.
LEMMA ProveKeeps ==
  ASSUME IInv, NEW s \in Sessions, generateProof(s)
  PROVE  IInv'
<1> DEFINE r == session[s]
           i == r.vc.credential.issuer
           checked == walletCheckCredential(r.wallet, r.vc, pkOf[i], r.policy)
           p == [signals |-> publicSignals(publicInputs(s)), proof |-> "valid",
                 issuerDid |-> i,
                 from |-> [wallet |-> r.wallet, vc |-> r.vc,
                           verifierId |-> r.verifierId, policy |-> r.policy]]
<1>1. r.at = "prove" /\ SessionOf(s)
  BY DEF generateProof, At, IInv, SessionsOK
<1>2. CASE Refuse(s) /\ UNCHANGED proofs
  <2>1. session'[s] = [at |-> "refused"]
    BY <1>2 DEF IInv, SessionsOK, Refuse
  <2>2. SessionOf(s)'
    BY <2>1 DEF SessionOf, Places, Active
  <2>3. QED
    BY <1>2, <2>2, SessionStep DEF Refuse, generateProof
<1>3. CASE ~ (Refuse(s) /\ UNCHANGED proofs)
  <2>1. /\ r.wallet \in Skipping \/ checked
        /\ Satisfied(publicInputs(s), privateInputs(s))
        /\ proofs' = proofs \cup {p}
        /\ session' = [session EXCEPT ![s] = [at |-> "proved"]]
    BY <1>3 DEF generateProof, wallet
  <2>2. UNCHANGED <<chainVars, verifierVars, issuerVars>>
    BY DEF generateProof
  <2>3. Grows
    BY <2>1, <2>2 DEF Grows, issuerVars, verifierVars
  <2>4. SessionsOK'
    <3>1. session'[s] = [at |-> "proved"]
      BY <2>1 DEF IInv, SessionsOK
    <3>2. SessionOf(s)'
      BY <3>1 DEF SessionOf, Places, Active
    <3>3. QED
      BY <2>1, <2>3, <3>2, OneSessionMoves DEF IInv
  <2>5. /\ p.signals[2] = r.revRoot
        /\ p.signals[3] = policyHash(predicateCodeFor(r.policy),
                                     r.policy.threshold)
        /\ p.signals[4] = r.nonce
        /\ p.signals[5] = stmtCodeForDomain(verifierDomainTag(r.verifierId))
    BY DEF publicSignals, publicInputs
  <2>6. smtKey(r.vc) \notin smtKeysUnder(r.revRoot)
    <3>1. r.revRoot = smtRoot(r.opening.tree)
      BY <2>1 DEF Satisfied, Excluded, publicInputs, privateInputs
    <3>2. QED
      BY <1>1, <3>1 DEF SessionOf, smtRoot, smtKeysUnder
  <2>7. r.wallet \notin Skipping =>
          /\ r.vc \in vcs /\ r.vc.credential.subject = r.wallet
          /\ PolicyApplicable(r.policy, r.vc.credential.age)
    BY <1>1, <2>1, Unforgeable DEF SessionOf, IInv, Active
  <2>8. ProofOf(p)
    BY <1>1, <2>5, <2>6, <2>7 DEF ProofOf, SessionOf, Active
  <2>9. \A g \in proofs' : ProofOf(g)'
    BY <2>1, <2>3, <2>8, ProofRests DEF IInv
  <2>10. NoncesOK'
    BY <2>2 DEF IInv, NoncesOK, verifierVars
  <2>11. QED
    BY <2>2, <2>3, <2>4, <2>9, <2>10, WalletFrame DEF verifierVars
<1>4. QED
  BY <1>2, <1>3
-----------------------------------------------------------------------------
(* Verifier                                                                 *)

\* Steps of a verifier leave everything but calls and nonces alone.
LEMMA VerifierFrame ==
  ASSUME IInv, UNCHANGED <<chainVars, issuedAt, issuerVars, walletVars>>,
         clock' \in Nat, CallsOK'
  PROVE  IInv'
<1> USE DEF chainVars, issuerVars, walletVars
<1>1. Grows
  BY DEF Grows
<1>2. Ledger' /\ Trees' /\ IssuedBySomeIssuer' /\ NoncesOK'
  BY DEF IInv, Ledger, Trees, IssuedBySomeIssuer, SignedVCs, NoncesOK,
     V!Chain!TypeOK, V!Chain!controllerOf
<1>3. SessionsOK'
  BY <1>1, SessionRests DEF IInv, SessionsOK
<1>4. QED
  BY <1>1, <1>2, <1>3, ProofRests DEF IInv

\* A call of which nothing moves keeps what is said of it.
LEMMA CallRests ==
  ASSUME NEW e \in Calls, CallOf(e), UNCHANGED <<revRoot, proofs>>,
         pc'[e] = pc[e], request'[e] = request[e],
         chainRoot'[e] = chainRoot[e], checks'[e] = checks[e],
         seen'[e] = seen[e]
  PROVE  CallOf(e)'
BY DEF CallOf, Proof, V!InFlight, V!Issuer, V!sigRevRoot, V!sigPolicyHash,
   V!sigStmtCode, V!Signals

LEMMA PresentKeeps ==
  ASSUME IInv, NEW c \in Calls, NEW v \in Verifiers, NEW p \in proofs,
         NEW q \in Policies, present(c, v, p, q)
  PROVE  IInv'
<1> USE DEF present, V!verifyPresentation
<1>1. CallShapes'
  BY DEF IInv, CallsOK, CallShapes, V!Suspended, V!Settled
<1>2. UNCHANGED <<chainVars, issuedAt, clock>>
  BY DEF V!chainVars, V!sessionVars, chainVars
<1>3. /\ pc'[c] \in {"done", "resolveDid"} /\ checks'[c] = {}
      /\ request'[c] = [verifier |-> v, presentation |-> p, policy |-> q]
      /\ seen'[c] = {V!ChainFacts(p.issuerDid)}
  BY DEF IInv, CallsOK, CallShapes, CallOf
<1>4. CallOf(c)'
  <2>1. V!Issuer(c)' = p.issuerDid
    BY <1>3 DEF V!Issuer
  <2>2. V!ChainFacts(p.issuerDid).root = revRoot'[p.issuerDid]
    BY <1>2 DEF V!ChainFacts, chainVars
  <2>3. \E f \in seen'[c] : f.root = revRoot'[V!Issuer(c)']
    BY <1>3, <2>1, <2>2
  <2>4. p \in proofs'
    BY DEF walletVars
  <2>5. QED
    BY <1>3, <2>3, <2>4 DEF CallOf, Proof, V!Issuer
<1>5. ASSUME NEW e \in Calls, e # c
      PROVE  CallOf(e)'
  BY <1>2, <1>5, CallRests DEF IInv, CallsOK, CallShapes, chainVars, walletVars
<1>6. QED
  BY <1>1, <1>2, <1>4, <1>5, VerifierFrame DEF CallsOK, IInv, NoncesOK

\* What each step of a call between two awaits adds to its checks.
LEMMA ResumeFrame ==
  ASSUME IInv, NEW c \in Calls, Resume(c)
  PROVE  /\ CallShapes'
         /\ UNCHANGED <<chainVars, clock, issuedAt, issuerVars, walletVars,
                        request, seen>>
         /\ \A e \in Calls \ {c} :
              /\ pc'[e] = pc[e] /\ chainRoot'[e] = chainRoot[e]
              /\ checks'[e] = checks[e]
<1> USE DEF Resume, IInv, CallsOK, CallShapes, V!Suspended, V!Settled,
            V!chainVars, chainVars, V!sessionVars, V!Passed, V!CheckNames
<1>1. CASE V!resolveDid(c)
  BY <1>1 DEF V!resolveDid, V!IssuerLookupFails
<1>2. CASE V!isAccredited(c)
  BY <1>2 DEF V!isAccredited, V!IssuerLookupFails
<1>3. CASE V!getRevRoot(c)
  BY <1>3 DEF V!getRevRoot
<1>4. CASE V!checkSession(c)
  BY <1>4 DEF V!checkSession
<1>5. CASE V!groth16Verify(c)
  BY <1>5 DEF V!groth16Verify
<1>6. QED
  BY <1>1, <1>2, <1>3, <1>4, <1>5 DEF V!Resume

\* Wallet and verifier share packages/common: the same functions.
LEMMA SameEncodings ==
  /\ \A q : policyHash(predicateCodeFor(q), q.threshold)
            = V!policyHash(V!predicateCodeFor(q), q.threshold)
  /\ \A v : stmtCodeForDomain(verifierDomainTag(v))
            = V!stmtCodeForDomain(V!verifierDomainTag(v))
BY DEF policyHash, V!policyHash, predicateCodeFor, V!predicateCodeFor,
   PREDICATE_AGE_GTE, V!PREDICATE_AGE_GTE, PREDICATE_AGE_LT,
   V!PREDICATE_AGE_LT, stmtCodeForDomain, V!stmtCodeForDomain,
   verifierDomainTag, V!verifierDomainTag, poseidonFoldBytes,
   V!poseidonFoldBytes, poseidon, V!poseidon, STMT_V1, V!STMT_V1,
   DOMAIN_VERIFIER_ID, V!DOMAIN_VERIFIER_ID

LEMMA ResumeKeeps ==
  ASSUME IInv, NEW c \in Calls, Resume(c)
  PROVE  IInv'
<1>1. /\ CallShapes /\ CallShapes' /\ CallOf(c)
      /\ UNCHANGED <<chainVars, clock, issuedAt, issuerVars, walletVars, request,
                     seen>>
  BY ResumeFrame DEF IInv, CallsOK
<1>2. ASSUME NEW e \in Calls, e # c
      PROVE  CallOf(e)'
  BY <1>1, <1>2, ResumeFrame, CallRests DEF IInv, CallsOK, chainVars, walletVars
<1> SUFFICES CallOf(c)'
  BY <1>1, <1>2, VerifierFrame DEF CallsOK, IInv, NoncesOK
<1>3. /\ Proof(c)' = Proof(c) /\ V!Issuer(c)' = V!Issuer(c)
      /\ V!sigRevRoot(c)' = V!sigRevRoot(c)
      /\ V!sigPolicyHash(c)' = V!sigPolicyHash(c)
      /\ V!sigStmtCode(c)' = V!sigStmtCode(c)
      /\ UNCHANGED <<revRoot, proofs>>
  BY <1>1 DEF Proof, V!Issuer, V!sigRevRoot, V!sigPolicyHash, V!sigStmtCode,
     V!Signals, chainVars, walletVars
<1>4. V!InFlight(c) /\ pc[c] # "idle" /\ pc'[c] # "idle"
  BY <1>1 DEF CallShapes, V!InFlight, V!Suspended, Resume, V!Resume,
     V!resolveDid, V!isAccredited, V!getRevRoot, V!checkSession,
     V!groth16Verify, V!IssuerLookupFails
\* Steps that do not touch the three checks the properties need.
<1>5. ASSUME \A name \in {"revRootMatches", "policyHashMatches",
                          "stmtCodeValid"} :
               name \in checks'[c] => name \in checks[c],
             pc'[c] # "resumed"
      PROVE  CallOf(c)'
  BY <1>1, <1>3, <1>4, <1>5 DEF CallOf
<1>6. CASE V!resolveDid(c)
  <2>1. checks' = checks /\ pc'[c] # "resumed"
    BY <1>1, <1>6 DEF V!resolveDid, V!IssuerLookupFails, CallShapes
  <2>2. QED
    BY <1>5, <2>1
<1>7. CASE V!isAccredited(c)
  <2>1. pc'[c] = "getRevRoot"
    BY <1>1, <1>7 DEF V!isAccredited, V!IssuerLookupFails, CallShapes
  <2>2. \A name \in {"revRootMatches", "policyHashMatches", "stmtCodeValid"} :
          name \in checks'[c] => name \in checks[c]
    BY <1>1, <1>7
       DEF V!isAccredited, V!IssuerLookupFails, CallShapes, V!Passed
  <2>3. QED
    BY <1>5, <2>1, <2>2
<1>8. CASE V!getRevRoot(c)
  <2>1. /\ checks' = checks
        /\ chainRoot'[c] \in {revRoot[V!Issuer(c)], Undefined}
    BY <1>1, <1>8 DEF V!getRevRoot, CallShapes
  <2>2. QED
    BY <1>1, <1>3, <1>4, <2>1 DEF CallOf
<1>9. CASE V!checkSession(c)
  <2>1. pc[c] = "resumed" /\ pc'[c] = "groth16.verify"
    BY <1>1, <1>9 DEF V!checkSession, CallShapes
  <2>2. "revRootMatches" \in checks'[c] =>
             \/ "revRootMatches" \in checks[c]
             \/ chainRoot[c] # Undefined /\ chainRoot[c] = V!sigRevRoot(c)
    BY <1>1, <1>9 DEF V!checkSession, CallShapes, V!Passed
  <2>3. "policyHashMatches" \in checks'[c] =>
             \/ "policyHashMatches" \in checks[c]
             \/ policyHash(predicateCodeFor(request[c].policy),
                           request[c].policy.threshold) = V!sigPolicyHash(c)
    BY <1>1, <1>9, SameEncodings DEF V!checkSession, CallShapes, V!Passed
  <2>4. "stmtCodeValid" \in checks'[c] =>
             \/ "stmtCodeValid" \in checks[c]
             \/ stmtCodeForDomain(verifierDomainTag(request[c].verifier))
                  = V!sigStmtCode(c)
    BY <1>1, <1>9, SameEncodings DEF V!checkSession, CallShapes, V!Passed
  <2>5. QED
    BY <1>1, <1>3, <1>4, <2>1, <2>2, <2>3, <2>4 DEF CallOf
<1>10. CASE V!groth16Verify(c)
  <2>1. pc'[c] \in {"done", "threw"}
    BY <1>1, <1>10 DEF V!groth16Verify, CallShapes
  <2>2. \A name \in checks'[c] : name = "proofValid" \/ name \in checks[c]
    BY <1>1, <1>10 DEF V!groth16Verify, CallShapes, V!Passed
  <2>3. QED
    BY <1>5, <2>1, <2>2
<1>11. QED
  BY <1>6, <1>7, <1>8, <1>9, <1>10 DEF Resume, V!Resume

-----------------------------------------------------------------------------
LEMMA NextInv == IInv /\ [Next]_vars => IInv'
<1> SUFFICES ASSUME IInv, [Next]_vars PROVE IInv'
  OBVIOUS
<1>1. ASSUME UNCHANGED <<chainVars, issuedAt, issuerVars, walletVars,
                         pc, request, chainRoot, checks, seen>>, clock' \in Nat
      PROVE  IInv'
  <2>1. Grows
    BY <1>1 DEF Grows, issuerVars, walletVars
  <2>2. CallsOK'
    BY <1>1, <2>1, CallsRest DEF IInv, chainVars
  <2>3. QED
    BY <1>1, <2>2, VerifierFrame
<1>2. CASE Tick
  BY <1>1, <1>2
     DEF Tick, V!Tick, V!chainVars, chainVars, V!sessionVars, V!callVars, IInv,
         NoncesOK
<1>3. CASE UNCHANGED vars
  BY <1>1, <1>3 DEF vars, verifierVars, IInv, NoncesOK
<1>4. CASE Next
  BY <1>2, <1>4, IssueKeeps, RevokeKeeps, PublishKeeps, PublishFailureKeeps,
     RequestKeeps, GetRootKeeps, OpenKeeps, RefreshKeeps, ProveKeeps,
     PresentKeeps, ResumeKeeps
     DEF Next
<1>5. QED
  BY <1>3, <1>4

LEMMA InvHolds == Spec => []IInv
BY InitInv, NextInv, PTL DEF Spec

-----------------------------------------------------------------------------
(* What the invariant says of an accepting call.                            *)

LEMMA AcceptedChecks ==
  ASSUME IInv, NEW c \in Calls, V!Accepted(c)
  PROVE  /\ Proof(c) \in proofs /\ ProofOf(Proof(c))
         /\ request[c].verifier \in Verifiers /\ request[c].policy \in Policies
         /\ \E f \in seen[c] : f.root = Proof(c).signals[2]
         /\ policyHash(predicateCodeFor(request[c].policy),
                       request[c].policy.threshold) = Proof(c).signals[3]
         /\ stmtCodeForDomain(verifierDomainTag(request[c].verifier))
              = Proof(c).signals[5]
<1>1. pc[c] = "done" /\ checks[c] = V!CheckNames /\ CallOf(c)
  BY DEF V!Accepted, IInv, CallsOK
<1>2. Proof(c) \in proofs
  BY <1>1 DEF CallOf
<1>3. QED
  BY <1>1, <1>2 DEF CallOf, IInv, V!CheckNames, V!sigRevRoot, V!sigPolicyHash,
     V!sigStmtCode, V!Signals, Proof

\* The hashes in the signals determine policy and verifier.
LEMMA MadeForThis ==
  ASSUME IInv, NEW c \in Calls, V!Accepted(c)
  PROVE  /\ Proof(c).from.policy = request[c].policy
         /\ Proof(c).from.verifierId = request[c].verifier
<1> DEFINE p == Proof(c).from.policy
           q == request[c].policy
<1>1. /\ p \in Policies /\ q \in Policies
      /\ p.threshold = q.threshold
      /\ predicateCodeFor(p) = predicateCodeFor(q)
  BY AcceptedChecks DEF ProofOf, policyHash, poseidon
<1>2. /\ p \in [type : {"age_gte", "age_lt"}, threshold : Int]
      /\ q \in [type : {"age_gte", "age_lt"}, threshold : Int]
  BY <1>1, ProtocolAssumption
<1>3. p.type = q.type
  BY <1>1, <1>2 DEF predicateCodeFor, PREDICATE_AGE_GTE, PREDICATE_AGE_LT
<1>4. p = q
  BY <1>1, <1>2, <1>3
<1>5. Proof(c).from.verifierId = request[c].verifier
  BY AcceptedChecks
     DEF ProofOf, stmtCodeForDomain, verifierDomainTag, poseidonFoldBytes,
         poseidon
<1>6. QED
  BY <1>4, <1>5

\* Accepted only by the verifier, for the policy and in a session it was made
\* for, whoever presents it and however modified the wallet.
THEOREM MadeForTheVerifier == Spec => []AcceptedWhereRequested
<1>1. IInv => AcceptedWhereRequested
  BY AcceptedChecks, MadeForThis DEF AcceptedWhereRequested, ProofOf
<1>2. QED
  BY <1>1, InvHolds, PTL

\* An accepted proof of a wallet that runs its checks speaks of a credential
\* the presented issuer signed, for this holder, whose age satisfies the
\* policy the verifier asked for.
THEOREM BackedBySignature == Spec => []AcceptedIsBacked
<1>1. IInv => AcceptedIsBacked
  BY AcceptedChecks, MadeForThis DEF AcceptedIsBacked, ProofOf
<1>2. QED
  BY <1>1, InvHolds, PTL

\* A call that saw only roots with the credential's key in them does not
\* accept, whatever the wallet kept from before and however modified it is.
THEOREM RevocationsHold == Spec => []PublishedRevocationHolds
<1>1. IInv => PublishedRevocationHolds
  BY AcceptedChecks DEF PublishedRevocationHolds, ProofOf
<1>2. QED
  BY <1>1, InvHolds, PTL

\* The ledger, trees and sessions have the shapes the code gives them, and a
\* root on chain is one whose keys are in its issuer's tree.
THEOREM ProtocolTypes == Spec => []TypeOK
<1>1. IInv => TypeOK
  BY DEF IInv, TypeOK, Ledger, Trees, SessionsOK, SessionOf, Places, CallsOK,
     CallShapes
<1>2. QED
  BY <1>1, InvHolds, PTL

-----------------------------------------------------------------------------
(* An honest wallet is refused for a reason.                                *)

\* Only the issuer's service and the prover refuse a session.
LEMMA WhoRefuses ==
  ASSUME IInv, [Next]_vars, NEW s \in Sessions,
         session[s].at \notin {"idle", "refused"}, session'[s].at = "refused"
  PROVE  \/ session[s].at = "getNonMembershipProof" /\ getNonMembershipProof(s)
         \/ session[s].at = "prove" /\ generateProof(s)
<1> USE DEF IInv, SessionsOK
<1>1. session' # session
  OBVIOUS
<1>2. PICK z \in Sessions :
        \/ \E h \in Holders, v \in Verifiers, n \in Nonces, q \in Policies :
             requestProof(z, h, v, n, q)
        \/ getRevRoot(z)
        \/ getNonMembershipProof(z)
        \/ refreshRoot(z)
        \/ generateProof(z)
  BY <1>1 DEF Next, vars, walletVars, issueCredential, revoke, publishRevRoot,
     publishFails, present, Resume, Tick
<1>3. CASE \E h \in Holders, v \in Verifiers, n \in Nonces, q \in Policies :
              requestProof(z, h, v, n, q)
  <2>1. PICK h \in Holders, v \in Verifiers, n \in Nonces, q \in Policies :
          requestProof(z, h, v, n, q)
    BY <1>3
  <2>2. PICK vc \in PresentableVCs(h) :
          session' = [session EXCEPT ![z] =
            [at |-> "getRevRoot", wallet |-> h, vc |-> vc,
             verifierId |-> v, nonce |-> n, policy |-> q,
             revRoot |-> Undefined, opening |-> Undefined]]
    BY <2>1 DEF requestProof
  <2>3. QED
    BY <2>2
<1>4. CASE getRevRoot(z)
  <2>1. session[z].at = "getRevRoot" /\ DOMAIN session[z] = Fields
    BY <1>4 DEF getRevRoot, At, SessionOf, Active
  <2>2. session'[z].at = "getNonMembershipProof"
    BY <1>4, <2>1 DEF getRevRoot, Fields
  <2>3. \A y \in Sessions \ {z} : session'[y] = session[y]
    BY <1>4 DEF getRevRoot
  <2>4. QED
    BY <2>2, <2>3
<1>5. CASE refreshRoot(z)
  <2>1. session[z].at = "prove" /\ DOMAIN session[z] = Fields
    BY <1>5 DEF refreshRoot, At, SessionOf, Active
  <2>2. session'[z].at = "prove"
    BY <1>5, <2>1 DEF refreshRoot, Fields
  <2>3. \A y \in Sessions \ {z} : session'[y] = session[y]
    BY <1>5 DEF refreshRoot
  <2>4. QED
    BY <2>2, <2>3
<1>6. CASE getNonMembershipProof(z)
  <2>1. \A y \in Sessions \ {z} : session'[y] = session[y]
    BY <1>6 DEF getNonMembershipProof, Refuse
  <2>2. z = s
    BY <2>1
  <2>3. QED
    BY <1>6, <2>2 DEF getNonMembershipProof, At
<1>7. CASE generateProof(z)
  <2>1. \A y \in Sessions \ {z} : session'[y] = session[y]
    BY <1>7 DEF generateProof, Refuse
  <2>2. z = s
    BY <2>1
  <2>3. QED
    BY <1>7, <2>2 DEF generateProof, At
<1>8. QED
  BY <1>2, <1>3, <1>4, <1>5, <1>6, <1>7

\* The circuit is satisfiable for numbers that fit it.
LEMMA HonestPredicate ==
  ASSUME NEW q \in Policies, NEW age \in Ages, PolicyApplicable(q, age),
         InRange(age), InRange(q.threshold)
  PROVE  PredicateHolds(toField(predicateCodeFor(q)), toField(age),
                        toField(q.threshold))
<1>1. /\ q.type \in {"age_gte", "age_lt"} /\ q.threshold \in Int
      /\ age \in Int
  BY ProtocolAssumption
<1>2. QED
  BY <1>1, InRangeNumbers, PolicyMeans

\* A good credential and an opening for the root that was read satisfy R'.
LEMMA HonestProof ==
  ASSUME IInv, NEW s \in Sessions, session[s].at = "prove",
         wallet(s) \notin Skipping, session[s].vc \in vcs,
         session[s].vc.credential.subject = wallet(s),
         PolicyApplicable(session[s].policy, session[s].vc.credential.age),
         InRange(session[s].vc.credential.age),
         InRange(session[s].policy.threshold),
         tree[session[s].vc.credential.issuer]
           = smtKeysUnder(session[s].revRoot)
  PROVE  /\ walletCheckCredential(wallet(s), session[s].vc,
              pkOf[session[s].vc.credential.issuer], session[s].policy)
         /\ Satisfied(publicInputs(s), privateInputs(s))
<1> DEFINE r == session[s]
<1>1. PICK i \in Issuers, h \in Holders, age \in Ages : r.vc = SignedVC(i, h, age)
  BY DEF IInv, IssuedBySomeIssuer, SignedVCs
<1>2. /\ r.vc.credential = Credential(i, h, age)
      /\ r.vc.credID = computeCredId(Credential(i, h, age), pkOf[i])
      /\ r.vc.signature = sign(pkOf[i], r.vc.credID)
  BY <1>1 DEF SignedVC
<1>3. /\ r.vc.credential.issuer = i /\ r.vc.credential.subject = h
      /\ r.vc.credential.age = age
      /\ r.vc.credential.holderCommit = holderCommit(secretOf(h))
  BY <1>2 DEF Credential
<1>4. walletCheckCredential(wallet(s), r.vc, pkOf[r.vc.credential.issuer],
                            r.policy)
  BY <1>2, <1>3 DEF walletCheckCredential, dilithiumVerify
<1>5. /\ r.policy \in Policies
      /\ r.opening = [key |-> smtKey(r.vc), tree |-> r.opening.tree]
      /\ r.opening.tree = smtKeysUnder(r.revRoot)
      /\ r.revRoot = smtRoot(smtKeysUnder(r.revRoot))
  BY <1>3 DEF IInv, SessionsOK, SessionOf, Active, wallet
<1>6. Excluded(publicInputs(s), privateInputs(s))
  <2>1. /\ privateInputs(s).credId = r.vc.credID
        /\ privateInputs(s).opening = r.opening
        /\ publicInputs(s).revRoot = r.revRoot
    BY DEF privateInputs, publicInputs
  <2>2. r.opening.key = smtKey(r.vc)
    BY <1>5
  <2>3. QED
    BY <1>5, <2>1, <2>2 DEF Excluded, smtKey
<1>7. PredicateHolds(toField(predicateCodeFor(r.policy)),
                     toField(r.vc.credential.age), toField(r.policy.threshold))
  BY <1>3, <1>5, HonestPredicate
<1>8. QED
  BY <1>3, <1>4, <1>6, <1>7 DEF Satisfied, privateInputs, publicInputs

(* The promise of harness/e2e_core.ts: a holder with a valid credential    *)
(* gets its proof, and a refusal has one of the named causes, the issuer's *)
(* tree having moved on from the root the wallet read among them.          *)
THEOREM HonestWallets == Spec => HonestWalletIsServed
<1> DEFINE Reason(s) ==
      LET vc == session[s].vc
          keys == tree[vc.credential.issuer]
      IN \/ vc \notin vcs
         \/ vc.credential.subject # wallet(s)
         \/ ~ PolicyApplicable(session[s].policy, vc.credential.age)
         \/ ~ InRange(vc.credential.age)
         \/ ~ InRange(session[s].policy.threshold)
         \/ smtKey(vc) \in keys
         \/ keys # smtKeysUnder(session[s].revRoot)
<1>1. ASSUME IInv, [Next]_vars, NEW s \in Sessions,
             session[s].at \notin {"idle", "refused"},
             session'[s].at = "refused", wallet(s) \notin Skipping
      PROVE  Reason(s)
  <2>1. CASE session[s].at = "getNonMembershipProof" /\ getNonMembershipProof(s)
    <3>1. CASE smtKey(session[s].vc) \in tree[session[s].vc.credential.issuer]
      BY <3>1
    <3>2. CASE session' = [session EXCEPT ![s].at = "prove",
                 ![s].opening = [key |-> smtKey(session[s].vc),
                                 tree |-> tree[session[s].vc.credential.issuer]]]
      <4>1. DOMAIN session[s] = Fields
        BY <1>1, <2>1 DEF IInv, SessionsOK, SessionOf, Active
      <4>2. session'[s].at = "prove"
        BY <1>1, <3>2, <4>1 DEF IInv, SessionsOK, Fields
      <4>3. QED
        BY <1>1, <4>2
    <3>3. QED
      BY <2>1, <3>1, <3>2 DEF getNonMembershipProof
  <2>2. CASE session[s].at = "prove" /\ generateProof(s)
    <3>1. ~ (/\ walletCheckCredential(wallet(s), session[s].vc,
                   pkOf[session[s].vc.credential.issuer], session[s].policy)
             /\ Satisfied(publicInputs(s), privateInputs(s)))
      BY <1>1, <2>2 DEF generateProof, IInv, SessionsOK
    <3>2. QED
      BY <1>1, <2>2, <3>1, HonestProof
  <2>3. QED
    BY <1>1, <2>1, <2>2, WhoRefuses
<1>2. IInv /\ [Next]_vars =>
        [\A s \in Sessions :
           (/\ session[s].at \notin {"idle", "refused"}
            /\ session'[s].at = "refused"
            /\ wallet(s) \notin Skipping) => Reason(s)]_vars
  BY <1>1
<1>3. QED
  BY <1>2, InvHolds, PTL DEF Spec, HonestWalletIsServed

-----------------------------------------------------------------------------
(* The issuers implement RevocationPromise, one step by one step.           *)

Sent == [i \in Issuers |->
           {smtKeysUnder(root) : root \in {outbox[i]} \ {Undefined}}]

Published == [i \in Issuers |-> smtKeysUnder(revRoot[i])]

\* What is pending is the root of the tree.
LEMMA SentIs ==
  ASSUME IInv, NEW i \in Issuers
  PROVE  /\ outbox[i] = Undefined => Sent[i] = {}
         /\ outbox[i] # Undefined => outbox[i] = smtRoot(tree[i]) /\ Sent[i] = {tree[i]}
<1>1. outbox[i] \in {Undefined, smtRoot(tree[i])}
  BY DEF IInv, Trees
<1>2. smtKeysUnder(smtRoot(tree[i])) = tree[i]
  BY DEF smtRoot, smtKeysUnder
<1> QED
  BY <1>1, <1>2 DEF Sent

LEMMA RevokePromised ==
  ASSUME IInv, NEW vc \in vcs, revoke(vc.credential.issuer, vc)
  PROVE  Revocations!Next
<1> DEFINE i == vc.credential.issuer
<1>1. i \in Issuers /\ smtKey(vc) \in RevocationKeys
  <2>1. PICK j \in Issuers, g \in Holders, a \in Ages : vc = SignedVC(j, g, a)
    BY DEF IInv, IssuedBySomeIssuer, SignedVCs
  <2> QED
    BY <2>1 DEF SignedVC, Credential, RevocationKeys, IInv, IssuedBySomeIssuer
<1>2. /\ outbox[i] = Undefined /\ smtKey(vc) \notin tree[i] /\ revRoot' = revRoot
      /\ tree' = [tree EXCEPT ![i] = @ \cup {smtKey(vc)}]
      /\ outbox' = [outbox EXCEPT ![i] = smtRoot(tree'[i])]
  BY DEF revoke, chainVars
<1>3. tree'[i] = tree[i] \cup {smtKey(vc)} /\ outbox'[i] = smtRoot(tree'[i])
  BY <1>1, <1>2 DEF IInv, Trees
<1>4. Sent[i] = {} /\ Sent'[i] = {tree[i] \cup {smtKey(vc)}}
  <2>1. smtRoot(tree[i] \cup {smtKey(vc)}) \in Roots
    BY <1>1, TreeOfCredentials, RootsAssumption
  <2>2. outbox'[i] # Undefined
    BY <1>3, <2>1, ProtocolAssumption
  <2>3. smtKeysUnder(outbox'[i]) = tree'[i]
    BY <1>3 DEF smtRoot, smtKeysUnder
  <2> QED
    BY <1>1, <1>2, <1>3, <2>2, <2>3, SentIs DEF Sent
<1>5. Sent' = [Sent EXCEPT ![i] = {tree[i] \cup {smtKey(vc)}}]
  <2>1. \A j \in Issuers \ {i} : outbox'[j] = outbox[j]
    BY <1>2 DEF IInv, Trees
  <2> QED
    BY <1>4, <2>1 DEF Sent
<1>6. Revocations!Revoke(i, smtKey(vc))
  BY <1>2, <1>4, <1>5 DEF Revocations!Revoke, Sent
<1> QED
  BY <1>1, <1>6 DEF Revocations!Next

LEMMA PublishPromised ==
  ASSUME IInv, NEW i \in Issuers, publishRevRoot(i)
  PROVE  Revocations!Confirm(i)
<1>1. /\ outbox[i] # Undefined /\ tree' = tree
      /\ outbox' = [outbox EXCEPT ![i] = Undefined]
      /\ revRoot' = [revRoot EXCEPT ![i] = outbox[i]]
  BY DEF publishRevRoot, V!Chain!publishRevRoot
<1>2. Sent[i] = {tree[i]} /\ smtKeysUnder(outbox[i]) = tree[i]
  BY <1>1, SentIs DEF smtRoot, smtKeysUnder
<1>3. Sent' = [Sent EXCEPT ![i] = {}]
  BY <1>1 DEF Sent, IInv, Trees
<1>4. revRoot \in [DIDs -> Roots] /\ i \in DIDs
  BY ProtocolAssumption DEF IInv, Ledger, V!Chain!TypeOK
<1>5. Published' = [Published EXCEPT ![i] = UNION Sent[i]]
  BY <1>1, <1>2, <1>4, ProtocolAssumption DEF Published
<1> QED
  BY <1>1, <1>2, <1>3, <1>5 DEF Revocations!Confirm, Sent, Published

LEMMA FailurePromised ==
  ASSUME IInv, NEW i \in Issuers, publishFails(i)
  PROVE  Revocations!GiveUp(i)
<1>1. /\ outbox[i] # Undefined /\ tree' = tree /\ revRoot' = revRoot
      /\ outbox' = [outbox EXCEPT ![i] = Undefined]
  BY DEF publishFails, chainVars
<1>2. Sent[i] = {tree[i]}
  BY <1>1, SentIs
<1>3. Sent' = [Sent EXCEPT ![i] = {}]
  BY <1>1 DEF Sent, IInv, Trees
<1> QED
  BY <1>1, <1>2, <1>3 DEF Revocations!GiveUp, Sent

LEMMA PromiseStutters ==
  ASSUME UNCHANGED <<tree, outbox, revRoot>>
  PROVE  UNCHANGED Revocations!promised
BY DEF Revocations!promised

LEMMA PromiseStep ==
  ASSUME IInv, [Next]_vars
  PROVE  [Revocations!Next]_(Revocations!promised)
<1> USE DEF chainVars, issuerVars
<1>1. CASE UNCHANGED vars
  BY <1>1, PromiseStutters DEF vars
<1>2. ASSUME NEW i \in Issuers, NEW h \in Holders, NEW age \in Ages,
             issueCredential(i, h, age)
      PROVE  UNCHANGED Revocations!promised
  BY <1>2, PromiseStutters DEF issueCredential
<1>3. ASSUME NEW vc \in vcs, revoke(vc.credential.issuer, vc)
      PROVE  Revocations!Next
  BY <1>3, RevokePromised
<1>4. ASSUME NEW i \in Issuers, publishRevRoot(i) \/ publishFails(i)
      PROVE  Revocations!Next
  BY <1>4, PublishPromised, FailurePromised DEF Revocations!Next
<1>5. ASSUME NEW s \in Sessions, NEW h \in Holders, NEW v \in Verifiers,
             NEW n \in Nonces, NEW q \in Policies, requestProof(s, h, v, n, q)
      PROVE  UNCHANGED Revocations!promised
  BY <1>5, PromiseStutters DEF requestProof
<1>6. ASSUME NEW s \in Sessions, \/ getRevRoot(s)
                                 \/ getNonMembershipProof(s)
                                 \/ refreshRoot(s)
                                 \/ generateProof(s)
      PROVE  UNCHANGED Revocations!promised
  BY <1>6, PromiseStutters
     DEF getRevRoot, getNonMembershipProof, refreshRoot, generateProof
<1>7. ASSUME NEW c \in Calls, NEW v \in Verifiers, NEW p \in proofs,
             NEW q \in Policies, present(c, v, p, q)
      PROVE  UNCHANGED Revocations!promised
  BY <1>7, PromiseStutters DEF present, V!verifyPresentation, V!chainVars
<1>8. ASSUME NEW c \in Calls, Resume(c)
      PROVE  UNCHANGED Revocations!promised
  BY <1>8, ResumeFrame, PromiseStutters DEF Resume
<1>9. CASE Tick
  BY <1>9, PromiseStutters DEF Tick, V!Tick, V!chainVars
<1> QED
  BY <1>1, <1>2, <1>3, <1>4, <1>5, <1>6, <1>7, <1>8, <1>9 DEF Next

\* harness/e2e_core.ts:212-213: whatever wallets, verifiers and failing
\* publications do in between, the issuers implement the promise.
THEOREM IssuersKeepTheirPromise == Spec => IssuersKeepPromise
<1>1. Init => Revocations!Init
  <2> SUFFICES ASSUME Init PROVE Revocations!Init
    OBVIOUS
  <2>1. tree \in [Issuers -> SUBSET RevocationKeys]
    BY DEF Init
  <2>2. Sent = [i \in Issuers |-> {}]
    BY DEF Init, Sent
  <2>3. Published = [i \in Issuers |-> {}]
    BY ProtocolAssumption DEF Init, Published, smtRoot, smtKeysUnder
  <2> QED
    BY <2>1, <2>2, <2>3 DEF Revocations!Init, Sent, Published
<1>2. IInv /\ [Next]_vars => [Revocations!Next]_(Revocations!promised)
  BY PromiseStep
<1> QED
  BY <1>1, <1>2, InvHolds, PTL DEF Spec, IssuersKeepPromise, Revocations!Spec

-----------------------------------------------------------------------------
(* The verifiers of the composition are those of module Verifier, and what  *)
(* is proved there holds here.                                              *)

VT == INSTANCE Verifier_proofs WITH Presentations <- PossibleProofs

LEMMA SameVerifier ==
  /\ V!Next <=> VT!Next
  /\ V!VerifierInit <=> VT!VerifierInit
<1> USE DEF V!chainVars, V!sessionVars, V!callVars, VT!chainVars, VT!sessionVars,
            VT!callVars
<1>2. V!VerifierInit <=> VT!VerifierInit
  BY DEF V!VerifierInit, VT!VerifierInit
<1>3. V!Tick <=> VT!Tick
  BY DEF V!Tick, VT!Tick
<1>4. \A v, n : V!newSessionNonce(v, n) <=> VT!newSessionNonce(v, n)
  BY DEF V!newSessionNonce, VT!newSessionNonce, V!issue, VT!issue
<1>5. \A c, v, p, q : /\ V!verifyPresentation(c, v, p, q) <=> VT!verifyPresentation(c, v, p, q)
                      /\ V!Unguessed(p) <=> VT!Unguessed(p)
  BY DEF V!verifyPresentation, VT!verifyPresentation, V!Unguessed, VT!Unguessed,
         V!ChainFacts, VT!ChainFacts
<1>6. \A c : V!Resume(c) <=> VT!Resume(c)
  <2> TAKE c
  <2> USE DEF V!Issuer, VT!Issuer, V!Signals, VT!Signals, V!Passed, VT!Passed
  <2>1. V!resolveDid(c) <=> VT!resolveDid(c)
    BY DEF V!resolveDid, VT!resolveDid, V!IssuerLookupFails, VT!IssuerLookupFails
  <2>2. V!isAccredited(c) <=> VT!isAccredited(c)
    BY DEF V!isAccredited, VT!isAccredited, V!IssuerLookupFails, VT!IssuerLookupFails,
       V!sigIssuerKeyHash, VT!sigIssuerKeyHash, V!issuerKeyHash, VT!issuerKeyHash,
       V!poseidonFoldBytes, VT!poseidonFoldBytes, V!poseidon, VT!poseidon,
       V!DOMAIN_ISSUER_KEY, VT!DOMAIN_ISSUER_KEY
  <2>3. V!getRevRoot(c) <=> VT!getRevRoot(c)
    BY DEF V!getRevRoot, VT!getRevRoot
  <2>4. V!checkSession(c) <=> VT!checkSession(c)
    BY DEF V!checkSession, VT!checkSession, V!sigRevRoot, VT!sigRevRoot,
       V!sigPolicyHash, VT!sigPolicyHash, V!sigNonce, VT!sigNonce, V!sigStmtCode,
       VT!sigStmtCode, V!ConsumeResult, VT!ConsumeResult, V!ConsumeEffect,
       VT!ConsumeEffect, V!Known, VT!Known, V!policyHash, VT!policyHash,
       V!predicateCodeFor, VT!predicateCodeFor, V!PREDICATE_AGE_GTE,
       VT!PREDICATE_AGE_GTE, V!PREDICATE_AGE_LT, VT!PREDICATE_AGE_LT,
       V!stmtCodeForDomain, VT!stmtCodeForDomain, V!verifierDomainTag,
       VT!verifierDomainTag, V!poseidonFoldBytes, VT!poseidonFoldBytes, V!poseidon,
       VT!poseidon, V!STMT_V1, VT!STMT_V1, V!DOMAIN_VERIFIER_ID, VT!DOMAIN_VERIFIER_ID
  <2>5. V!groth16Verify(c) <=> VT!groth16Verify(c)
    BY DEF V!groth16Verify, VT!groth16Verify
  <2> QED
    BY <2>1, <2>2, <2>3, <2>4, <2>5 DEF V!Resume, VT!Resume
<1>7. V!Transaction <=> VT!Transaction
  <2>1. V!Observe <=> VT!Observe
    BY DEF V!Observe, VT!Observe, V!InFlight, VT!InFlight, V!Suspended, VT!Suspended,
       V!ChainFacts, VT!ChainFacts, V!Issuer, VT!Issuer
  <2>2. V!Chain!Next <=> VT!Chain!Next
    BY DEF V!Chain!Next, VT!Chain!Next, V!Chain!registerDID, VT!Chain!registerDID,
       V!Chain!deactivateDID, VT!Chain!deactivateDID, V!Chain!accredit, VT!Chain!accredit,
       V!Chain!revokeAccreditation, VT!Chain!revokeAccreditation,
       V!Chain!publishRevRoot, VT!Chain!publishRevRoot, V!Chain!registerSchema,
       VT!Chain!registerSchema, V!Chain!controllerOf, VT!Chain!controllerOf
  <2> QED
    BY <2>1, <2>2 DEF V!Transaction, VT!Transaction
<1> QED
  BY <1>2, <1>3, <1>4, <1>5, <1>6, <1>7 DEF V!Next, VT!Next, V!VerifierNext, VT!VerifierNext

\* Nonces are drawn once, and every proof is one that a wallet can make.
DrawnOnce ==
  \A v, w \in Verifiers, n \in Nonces :
    issuedAt[v][n] # Undefined /\ issuedAt[w][n] # Undefined => v = w

Composed == IInv /\ DrawnOnce /\ proofs \subseteq PossibleProofs

LEMMA ProofIsPossible ==
  ASSUME IInv, proofs \subseteq PossibleProofs, NEW s \in Sessions, generateProof(s)
  PROVE  proofs' \subseteq PossibleProofs
<1> DEFINE r == session[s]
           p == [signals |-> publicSignals(publicInputs(s)), proof |-> "valid",
                 issuerDid |-> r.vc.credential.issuer,
                 from |-> [wallet |-> r.wallet, vc |-> r.vc,
                           verifierId |-> r.verifierId, policy |-> r.policy]]
<1>1. proofs' = proofs \/ (proofs' = proofs \cup {p} /\ Satisfied(publicInputs(s), privateInputs(s)))
  BY DEF generateProof, wallet
<1>2. r.at = "prove" /\ SessionOf(s)
  BY DEF generateProof, At, IInv, SessionsOK
<1>3. /\ r.wallet \in Holders /\ r.verifierId \in Verifiers /\ r.policy \in Policies
      /\ r.nonce \in Nonces
      /\ r.vc \in PossibleVCs
  BY <1>2, PresentableIsPossible DEF SessionOf, Active, IInv
<1>4. r.revRoot \in Roots
  <2>1. /\ r.revRoot = smtRoot(smtKeysUnder(r.revRoot))
        /\ smtKeysUnder(r.revRoot) \subseteq tree[r.vc.credential.issuer]
        /\ r.vc.credential.issuer \in Issuers
    BY <1>2, ActiveSession DEF SessionOf, Active
  <2>2. smtKeysUnder(r.revRoot) \in SUBSET RevocationKeys
    BY <2>1, TreeOfCredentials
  <2>3. smtRoot(smtKeysUnder(r.revRoot)) \in Roots
    BY <2>2, RootsAssumption
  <2> QED
    BY <2>1, <2>3
<1>5. p \in PossibleProofs
  <2>1. p = MadeFrom(r.wallet, r.vc, r.revRoot, r.policy, r.nonce, r.verifierId)
    BY DEF MadeFrom, publicSignals, publicInputs
  <2> HIDE DEF p
  <2> QED
    BY <1>3, <1>4, <2>1 DEF PossibleProofs, PossibleVCs
<1> QED
  BY <1>1, <1>5

LEMMA ComposedNext == Composed /\ [Next]_vars => Composed'
<1> SUFFICES ASSUME Composed, [Next]_vars PROVE Composed'
  OBVIOUS
<1> USE DEF Composed
<1>1. IInv'
  BY NextInv
<1>2. ASSUME UNCHANGED <<issuedAt, proofs>> PROVE Composed'
  BY <1>1, <1>2 DEF DrawnOnce, PossibleProofs
<1>3. CASE UNCHANGED vars
  BY <1>2, <1>3 DEF vars, verifierVars, walletVars
<1>4. ASSUME NEW i \in Issuers, NEW h \in Holders, NEW age \in Ages,
             issueCredential(i, h, age)
      PROVE  Composed'
  BY <1>2, <1>4 DEF issueCredential, verifierVars, walletVars
<1>5. ASSUME NEW vc \in vcs, revoke(vc.credential.issuer, vc)
      PROVE  Composed'
  BY <1>2, <1>5 DEF revoke, verifierVars, walletVars
<1>6. ASSUME NEW i \in Issuers, publishRevRoot(i) \/ publishFails(i)
      PROVE  Composed'
  BY <1>2, <1>6 DEF publishRevRoot, publishFails, verifierVars, walletVars
<1>7. ASSUME NEW s \in Sessions, NEW h \in Holders, NEW v \in Verifiers,
             NEW n \in Nonces, NEW q \in Policies, requestProof(s, h, v, n, q)
      PROVE  Composed'
  <2>1. /\ \A w \in Verifiers : issuedAt[w][n] = Undefined
        /\ issuedAt' = [issuedAt EXCEPT ![v][n] = clock] /\ proofs' = proofs
    BY <1>7 DEF requestProof, V!issue
  <2>2. DrawnOnce'
    BY <2>1, SMTT(30) DEF DrawnOnce, IInv, NoncesOK
  <2> QED
    BY <1>1, <2>1, <2>2
<1>8. ASSUME NEW s \in Sessions, getRevRoot(s) \/ getNonMembershipProof(s) \/ refreshRoot(s)
      PROVE  Composed'
  BY <1>2, <1>8 DEF getRevRoot, getNonMembershipProof, refreshRoot, verifierVars
<1>9. ASSUME NEW s \in Sessions, generateProof(s)
      PROVE  Composed'
  <2>1. DrawnOnce'
    BY <1>9 DEF generateProof, verifierVars, DrawnOnce
  <2> QED
    BY <1>1, <1>9, <2>1, ProofIsPossible
<1>10. ASSUME NEW c \in Calls, NEW v \in Verifiers, NEW p \in proofs, NEW q \in Policies,
              present(c, v, p, q)
       PROVE  Composed'
  BY <1>2, <1>10 DEF present, V!verifyPresentation, V!sessionVars, walletVars
<1>11. ASSUME NEW c \in Calls, Resume(c)
       PROVE  Composed'
  BY <1>2, <1>11, ResumeFrame DEF walletVars
<1>12. CASE Tick
  BY <1>2, <1>12 DEF Tick, V!Tick, V!sessionVars, walletVars
<1> QED
  BY <1>3, <1>4, <1>5, <1>6, <1>7, <1>8, <1>9, <1>10, <1>11, <1>12 DEF Next

\* Every step is one of module Verifier or leaves chain and verifiers alone.
LEMMA VerifierMoves ==
  ASSUME Composed, [Next]_vars
  PROVE  [V!Next]_(V!vars)
<1> USE DEF Composed
<1>1. ASSUME UNCHANGED <<chainVars, verifierVars>> PROVE UNCHANGED V!vars
  BY <1>1 DEF chainVars, verifierVars, V!vars, V!chainVars, V!sessionVars, V!callVars
<1>2. CASE UNCHANGED vars
  BY <1>1, <1>2 DEF vars
<1>3. ASSUME NEW i \in Issuers, NEW h \in Holders, NEW age \in Ages,
             issueCredential(i, h, age)
      PROVE  UNCHANGED V!vars
  BY <1>1, <1>3 DEF issueCredential
<1>4. ASSUME NEW vc \in vcs, revoke(vc.credential.issuer, vc)
      PROVE  UNCHANGED V!vars
  BY <1>1, <1>4 DEF revoke
<1>5. ASSUME NEW i \in Issuers, publishFails(i)
      PROVE  UNCHANGED V!vars
  BY <1>1, <1>5 DEF publishFails
<1>6. ASSUME NEW i \in Issuers, publishRevRoot(i)
      PROVE  V!Next
  <2>1. outbox[i] \in Roots
    <3>1. smtRoot(tree[i]) \in Roots
      BY TreeOfCredentials, RootsAssumption
    <3> QED
      BY <1>6, <3>1, SentIs DEF publishRevRoot
  <2>2. V!Chain!Next
    BY <1>6, <2>1, ProtocolAssumption DEF publishRevRoot, V!Chain!Next
  <2> QED
    BY <1>6, <2>2
       DEF publishRevRoot, V!Next, V!Transaction, V!sessionVars, V!callVars
<1>7. ASSUME NEW s \in Sessions, NEW h \in Holders, NEW v \in Verifiers,
             NEW n \in Nonces, NEW q \in Policies, requestProof(s, h, v, n, q)
      PROVE  V!Next
  <2>1. V!newSessionNonce(v, n)
    BY <1>7 DEF requestProof, V!newSessionNonce, V!chainVars, V!callVars, chainVars
  <2> QED
    BY <2>1 DEF V!Next, V!VerifierNext
<1>8. ASSUME NEW s \in Sessions, \/ getRevRoot(s)
                                 \/ getNonMembershipProof(s)
                                 \/ refreshRoot(s)
                                 \/ generateProof(s)
      PROVE  UNCHANGED V!vars
  BY <1>1, <1>8 DEF getRevRoot, getNonMembershipProof, refreshRoot, generateProof
<1>9. ASSUME NEW c \in Calls, NEW v \in Verifiers, NEW p \in proofs, NEW q \in Policies,
             present(c, v, p, q)
      PROVE  V!Next
  <2>1. ProofOf(p)
    BY DEF IInv
  <2>2. V!Unguessed(p)
    BY <2>1 DEF V!Unguessed, ProofOf
  <2> QED
    BY <1>9, <2>2 DEF present, V!Next, V!VerifierNext
<1>10. ASSUME NEW c \in Calls, Resume(c)
       PROVE  V!Next
  BY <1>10 DEF Resume, V!Next, V!VerifierNext
<1>11. CASE Tick
  BY <1>11 DEF Tick, V!Next, V!VerifierNext
<1> QED
  BY <1>2, <1>3, <1>4, <1>5, <1>6, <1>7, <1>8, <1>9, <1>10, <1>11 DEF Next

LEMMA ComposedHolds == Spec => []Composed
<1>1. Init => Composed
  BY InitInv DEF Init, Composed, DrawnOnce, V!VerifierInit
<1> QED
  BY <1>1, ComposedNext, PTL DEF Spec

\* Whatever issuers, wallets and the carriers of proofs do, each verifier runs
\* as its own specification says.
THEOREM VerifiersAreAsSpecified == Spec => VerifiersRunAsSpecified
<1>1. Init => V!VerifierInit
  BY DEF Init
<1>2. Composed /\ [Next]_vars => [V!Next]_(V!vars)
  BY VerifierMoves
<1> QED
  BY <1>1, <1>2, ComposedHolds, PTL DEF Spec, VerifiersRunAsSpecified, V!VerifierSpec

LEMMA VerifierSpecHolds == Spec => VT!VerifierSpec
<1>1. VT!VerifierInit <=> V!VerifierInit
  BY SameVerifier
<1>2. [V!Next]_(V!vars) => [VT!Next]_(VT!vars)
  <2>1. UNCHANGED V!vars <=> UNCHANGED VT!vars
    BY DEF V!vars, VT!vars, V!chainVars, VT!chainVars, V!sessionVars, VT!sessionVars,
           V!callVars, VT!callVars
  <2> QED
    BY <2>1, SameVerifier
<1>3. Init => V!VerifierInit
  BY DEF Init
<1>4. Composed /\ [Next]_vars => [V!Next]_(V!vars)
  BY VerifierMoves
<1> QED
  BY <1>1, <1>2, <1>3, <1>4, ComposedHolds, PTL DEF Spec, VT!VerifierSpec

\* The verifier's constants are the composition's.
LEMMA VerifierConstants ==
  /\ Governance \in Accounts /\ NoAddress \notin Accounts
  /\ EmptyRoot \in Roots
  /\ TTL \in Nat
  /\ MaxTime \in Nat
  /\ Undefined \notin Nat
  /\ Undefined \notin Roots
  /\ \A p \in PossibleProofs : p.issuerDid \in DIDs
<1>1. EmptyRoot \in Roots
  BY ProtocolAssumption, RootsAssumption
<1>2. \A p \in PossibleProofs : p.issuerDid \in Issuers
  BY PossibleIssuer DEF PossibleProofs, PossibleVCs, MadeFrom
<1> QED
  BY <1>1, <1>2, ProtocolAssumption

LEMMA AcceptedOncePerVerifier == Spec => []VT!NonceAcceptedOnce
BY VT!NonceUsedOnceFrom, VerifierConstants, VerifierSpecHolds, PTL

\* A nonce is drawn by one verifier, a proof is accepted only where its nonce
\* was drawn, and each verifier accepts a nonce once.
THEOREM OneAcceptance == Spec => []SessionAcceptedOnce
<1>1. Composed /\ VT!NonceAcceptedOnce => SessionAcceptedOnce
  <2> SUFFICES ASSUME Composed, VT!NonceAcceptedOnce,
                      NEW c \in Calls, NEW d \in Calls, V!Accepted(c), V!Accepted(d),
                      V!sigNonce(c) = V!sigNonce(d)
               PROVE  c = d
    BY DEF SessionAcceptedOnce
  <2>1. \A e \in {c, d} : /\ request[e].verifier \in Verifiers
                          /\ V!sigNonce(e) \in Nonces
                          /\ issuedAt[request[e].verifier][V!sigNonce(e)] # Undefined
    <3> SUFFICES ASSUME NEW e \in {c, d}
                 PROVE  /\ request[e].verifier \in Verifiers
                        /\ V!sigNonce(e) \in Nonces
                        /\ issuedAt[request[e].verifier][V!sigNonce(e)] # Undefined
      OBVIOUS
    <3>1. IInv /\ e \in Calls /\ V!Accepted(e)
      BY DEF Composed
    <3>2. ProofOf(Proof(e)) /\ request[e].verifier \in Verifiers
      BY <3>1, AcceptedChecks
    <3>3. Proof(e).from.verifierId = request[e].verifier
      BY <3>1, MadeForThis
    <3> QED
      BY <3>2, <3>3 DEF ProofOf, V!sigNonce, V!Signals, Proof
  <2>2. request[c].verifier = request[d].verifier
    BY <2>1 DEF Composed, DrawnOnce
  <2>3. \A e : /\ V!Accepted(e) <=> VT!Accepted(e)
               /\ V!sigNonce(e) = VT!sigNonce(e)
    BY DEF V!Accepted, VT!Accepted, V!CheckNames, VT!CheckNames, V!sigNonce, VT!sigNonce,
           V!Signals, VT!Signals
  <2> QED
    BY <2>2, <2>3 DEF VT!NonceAcceptedOnce
<1> QED
  BY <1>1, ComposedHolds, AcceptedOncePerVerifier, PTL

\* The session promise holds of the verifiers in the composition.
THEOREM SessionsKeepPromise == Spec => V!KeepsPromise
<1> USE DEF V!Accepted, VT!Accepted, V!CheckNames, VT!CheckNames, V!sigNonce,
            VT!sigNonce, V!Signals, VT!Signals, V!PhaseOf, VT!PhaseOf,
            V!PromisedPhase, VT!PromisedPhase
<1>1. VT!Promise!Init => V!Promise!Init
  BY DEF V!Promise!Init, VT!Promise!Init
<1>2. [VT!Promise!Next]_(VT!PromisedPhase) => [V!Promise!Next]_(V!PromisedPhase)
  BY DEF V!Promise!Next, VT!Promise!Next, V!Promise!Issue, VT!Promise!Issue,
         V!Promise!Spend, VT!Promise!Spend, V!Promise!Accept, VT!Promise!Accept,
         V!Promise!Move, VT!Promise!Move
<1>3. Spec => VT!KeepsPromise
  BY VT!RefinementFrom, VerifierConstants, VerifierSpecHolds, PTL
<1> QED
  BY <1>1, <1>2, <1>3, PTL
     DEF V!KeepsPromise, VT!KeepsPromise, V!Promise!Spec, VT!Promise!Spec

\* No fact that an acceptance rests on is older than its call, whatever wallets
\* kept from before.
THEOREM NothingStaleAnywhere == Spec => []V!AcceptanceRestsOnCurrentFacts
<1>1. VT!AcceptanceRestsOnCurrentFacts => V!AcceptanceRestsOnCurrentFacts
  BY DEF V!AcceptanceRestsOnCurrentFacts, VT!AcceptanceRestsOnCurrentFacts,
         V!Accepted, VT!Accepted, V!CheckNames, VT!CheckNames,
         V!Signals, VT!Signals, V!sigRevRoot, VT!sigRevRoot,
         V!sigIssuerKeyHash, VT!sigIssuerKeyHash, V!issuerKeyHash, VT!issuerKeyHash,
         V!poseidonFoldBytes, VT!poseidonFoldBytes, V!poseidon, VT!poseidon,
         V!DOMAIN_ISSUER_KEY, VT!DOMAIN_ISSUER_KEY
<1>2. Spec => []VT!AcceptanceRestsOnCurrentFacts
  BY VT!NothingStaleFrom, VerifierConstants, VerifierSpecHolds, PTL
<1> QED
  BY <1>1, <1>2, PTL
-----------------------------------------------------------------------------
(* A revocation call by call, beside the life cycle (MCRevocations).        *)

RSP == INSTANCE RevocationService_proofs
        WITH Keys <- SmtKeys, keys <- rsKeys, treeCall <- rsTreeCall,
             chain <- rsChain, delta <- rsDelta, ledgerCall <- rsLedgerCall,
             issuer <- rsIssuer, carried <- rsCarried

LEMMA SameCalls == RS!Next <=> RSP!Next
<1> USE DEF RS!treeVars, RSP!treeVars, RS!ledgerVars, RSP!ledgerVars, RS!Idle, RSP!Idle,
            RS!Inserts, RSP!Inserts, RS!Publishes, RSP!Publishes
<1> USE DEF RS!Tree!At, RSP!Tree!At, RS!Tree!Nothing, RSP!Tree!Nothing,
            RS!Tree!Methods, RSP!Tree!Methods, RS!Tree!Settle, RSP!Tree!Settle,
            RS!Tree!Inserting, RSP!Tree!Inserting, RS!Tree!InFlight, RSP!Tree!InFlight
<1> USE DEF RS!Ledger!At, RSP!Ledger!At, RS!Ledger!Goto, RSP!Ledger!Goto,
            RS!Ledger!Invoke, RSP!Ledger!Invoke, RS!Ledger!Reverts, RSP!Ledger!Reverts
<1>1. \A t : RS!Tree!Invoke(t) <=> RSP!Tree!Invoke(t)
  BY DEF RS!Tree!Invoke, RSP!Tree!Invoke
<1>2. \A S, k : RS!Tree!find(S, k) = RSP!Tree!find(S, k)
  <2>1. \A S, k, d : RS!Tree!Under(S, k, d) = RSP!Tree!Under(S, k, d)
    BY DEF RS!Tree!Under, RSP!Tree!Under
  <2>2. \A S, k : RS!Tree!PathLength(S, k) = RSP!Tree!PathLength(S, k)
    BY <2>1, Zenon DEF RS!Tree!PathLength, RSP!Tree!PathLength, RS!Tree!Cardinality,
               RSP!Tree!Cardinality, RS!Tree!Under, RSP!Tree!Under
  <2> QED
    BY <2>1, <2>2 DEF RS!Tree!find, RSP!Tree!find
<1>3. \A t : RS!TreeResumes(t) <=> RSP!TreeResumes(t)
  <2> TAKE t
  <2>1. RS!Tree!awaitFind(t) <=> RSP!Tree!awaitFind(t)
    BY <1>2 DEF RS!Tree!awaitFind, RSP!Tree!awaitFind
  <2>2. RS!Tree!isRevoked(t) <=> RSP!Tree!isRevoked(t)
    BY DEF RS!Tree!isRevoked, RSP!Tree!isRevoked
  <2>3. RS!Tree!insert(t) <=> RSP!Tree!insert(t)
    BY DEF RS!Tree!insert, RSP!Tree!insert
  <2>4. RS!Tree!trieInsert(t) <=> RSP!Tree!trieInsert(t)
    BY DEF RS!Tree!trieInsert, RSP!Tree!trieInsert
  <2>5. RS!Tree!insertReturns(t) <=> RSP!Tree!insertReturns(t)
    BY DEF RS!Tree!insertReturns, RSP!Tree!insertReturns
  <2>6. RS!Tree!getNonMembershipProof(t) <=> RSP!Tree!getNonMembershipProof(t)
    BY DEF RS!Tree!getNonMembershipProof, RSP!Tree!getNonMembershipProof,
           RS!Tree!Opening, RSP!Tree!Opening, RS!Tree!Padded, RSP!Tree!Padded
  <2> QED
    BY <2>1, <2>2, <2>3, <2>4, <2>5, <2>6
       DEF RS!TreeResumes, RSP!TreeResumes, RS!Tree!Resume, RSP!Tree!Resume
<1>4. \A t : /\ RS!revoke(t) <=> RSP!revoke(t)
             /\ RS!revokeThrows(t) <=> RSP!revokeThrows(t)
             /\ RS!lookUp(t) <=> RSP!lookUp(t)
  BY <1>1 DEF RS!revoke, RSP!revoke, RS!revokeThrows, RSP!revokeThrows,
              RS!lookUp, RSP!lookUp
<1>5. \A l : /\ RS!publish(l) <=> RSP!publish(l)
             /\ RS!publishReturns(l) <=> RSP!publishReturns(l)
             /\ RS!transact(l) <=> RSP!transact(l)
  BY DEF RS!publish, RSP!publish, RS!publishReturns, RSP!publishReturns, RS!transact,
         RSP!transact, RS!Ledger!publishRevRoot, RSP!Ledger!publishRevRoot,
         RS!Ledger!registerDid, RSP!Ledger!registerDid, RS!Ledger!accreditIssuer,
         RSP!Ledger!accreditIssuer, RS!Ledger!registerSchema, RSP!Ledger!registerSchema
<1>6. \A l : RS!LedgerProgresses(l) <=> RSP!LedgerProgresses(l)
  BY DEF RS!LedgerProgresses, RSP!LedgerProgresses, RS!Ledger!Progress,
         RSP!Ledger!Progress, RS!Ledger!getNonce, RSP!Ledger!getNonce,
         RS!Ledger!sendTransaction, RSP!Ledger!sendTransaction, RS!Ledger!mine,
         RSP!Ledger!mine, RS!Ledger!wait, RSP!Ledger!wait
<1> QED
  BY <1>3, <1>4, <1>5, <1>6 DEF RS!Next, RSP!Next

LEMMA ServiceRuns == RevocationsSpec => RSP!Spec
<1> USE DEF RS!vars, RSP!vars, RS!treeVars, RSP!treeVars, RS!ledgerVars, RSP!ledgerVars
<1>1. RevocationsInit => RSP!Init
  BY DEF RevocationsInit, RS!Init, RSP!Init, RS!Tree!Init, RSP!Tree!Init, RS!Idle,
         RSP!Idle, RS!Tree!Nothing, RSP!Tree!Nothing
<1>2. [LifeCycle \/ CallByCall]_<<grain, vars, rsVars>> => [RSP!Next]_(RSP!vars)
  BY SameCalls DEF LifeCycle, CallByCall, rsVars
<1> QED
  BY <1>1, <1>2, PTL DEF RevocationsSpec, RSP!Spec

\* The awaited steps of the tree and of the ledger client implement
\* RevocationPromise (e2e_core.ts:212-213).
THEOREM CallsKeepPromise == RevocationsSpec => KeepsRevocationPromise
<1> USE DEF RS!TheIssuer, RSP!TheIssuer, RS!RevokedSet, RSP!RevokedSet, RS!OnItsWay,
            RSP!OnItsWay, RS!OnChain, RSP!OnChain, RS!Inserts, RSP!Inserts,
            RS!Publishes, RSP!Publishes
<1>1. RSP!Promise!Init => RS!Promise!Init
  BY DEF RS!Promise!Init, RSP!Promise!Init
<1>2. [RSP!Promise!Next]_(RSP!Promise!promised) => [RS!Promise!Next]_(RS!Promise!promised)
  BY DEF RS!Promise!Next, RSP!Promise!Next, RS!Promise!Revoke, RSP!Promise!Revoke,
         RS!Promise!Send, RSP!Promise!Send, RS!Promise!Confirm, RSP!Promise!Confirm,
         RS!Promise!GiveUp, RSP!Promise!GiveUp, RS!Promise!promised,
         RSP!Promise!promised
<1>3. RevocationsSpec => RSP!KeepsRevocationPromise
  BY ServiceRuns, RSP!ServiceKeepsPromise
<1> QED
  BY <1>1, <1>2, <1>3, PTL
     DEF KeepsRevocationPromise, RS!KeepsRevocationPromise, RSP!KeepsRevocationPromise,
         RS!Promise!Spec, RSP!Promise!Spec
=============================================================================
