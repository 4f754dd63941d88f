-------------------------- MODULE RevocationService --------------------------
(***************************************************************************)
(* An issuer's revocations, as harness/e2e_core.ts and the tests make      *)
(* them: the tree of packages/revocation and the client of packages/ledger *)
(* under one caller that awaits one insertion and one publication before   *)
(* the next, while wallets look keys up in the same tree and other         *)
(* transactions go through the same client.                                *)
(*                                                                         *)
(* The parts are RevocationTree and LedgerClient, step by step; this       *)
(* module adds the order in which their methods are called.                *)
(***************************************************************************)
EXTENDS Naturals, FiniteSets

CONSTANTS TreeCalls, Keys, SMT_DEPTH,    \* RevocationTree
          LedgerCalls                    \* LedgerClient

VARIABLES
  keys, treeCall,              \* RevocationTree
  chain, delta, ledgerCall,    \* LedgerClient
  issuer,     \* what the issuer awaits: nothing, an insertion, a publication
  carried     \* per ledger call, the set whose root it carries

treeVars   == <<keys, treeCall>>
ledgerVars == <<chain, delta, ledgerCall>>
vars == <<treeVars, ledgerVars, issuer, carried>>

Tree   == INSTANCE RevocationTree WITH Calls <- TreeCalls, call <- treeCall
Ledger == INSTANCE LedgerClient WITH Calls <- LedgerCalls, call <- ledgerCall

Idle == [at |-> "idle"]

\* deploy and the four registrations are confirmed, the fixture's credentials
\* may be revoked already, and no root is on chain.
Init ==
  /\ Tree!Init
  /\ chain = [did |-> TRUE, accredited |-> TRUE, schema |-> TRUE, root |-> {}, count |-> 8]
  /\ delta = 8
  /\ ledgerCall = [l \in LedgerCalls |-> [pc |-> "idle", method |-> "registerDid",
                                         nonce |-> 0, before |-> {}]]
  /\ issuer = Idle
  /\ carried = [l \in LedgerCalls |-> {}]

-----------------------------------------------------------------------------
(* The issuer                                                              *)

Inserts(t) == issuer = [at |-> "insert", tree |-> t]
Publishes(l) == issuer = [at |-> "publish", ledger |-> l]

\* await tree.insert(credId) is called ...
revoke(t) ==
  /\ issuer = Idle
  /\ Tree!Invoke(t) /\ treeCall'[t].method = "insert"
  /\ issuer' = [at |-> "insert", tree |-> t]
  /\ UNCHANGED <<ledgerVars, carried>>

\* ... and throws: the key was revoked already.
revokeThrows(t) ==
  /\ Inserts(t) /\ treeCall[t].pc = "rejected"
  /\ issuer' = Idle
  /\ UNCHANGED <<treeVars, ledgerVars, carried>>

\* Seeded defect: the insertion is not awaited.
PublishAtOnce(l) ==
  /\ issuer = Idle \/ \E t \in TreeCalls : Inserts(t)
  /\ Ledger!publishRevRoot(l)
  /\ carried' = [carried EXCEPT ![l] = keys]
  /\ issuer' = [at |-> "publish", ledger |-> l]
  /\ UNCHANGED treeVars

\* await ldg.publishRevRoot(issuer.did, tree.root()), after an insertion or,
\* for the first root, after those of the fixture.
publish(l) ==
  /\ issuer = Idle \/ \E t \in TreeCalls : Inserts(t) /\ treeCall[t].pc = "settled"
  /\ Ledger!publishRevRoot(l)
  /\ carried' = [carried EXCEPT ![l] = keys]
  /\ issuer' = [at |-> "publish", ledger |-> l]
  /\ UNCHANGED treeVars

\* The publication returns or throws.  A caller that catches goes on.
publishReturns(l) ==
  /\ Publishes(l) /\ ledgerCall[l].pc \in {"settled", "rejected", "reverted"}
  /\ issuer' = Idle
  /\ UNCHANGED <<treeVars, ledgerVars, carried>>

-----------------------------------------------------------------------------
(* The others                                                              *)

\* A wallet's isRevoked or getNonMembershipProof.
lookUp(t) ==
  /\ Tree!Invoke(t) /\ treeCall'[t].method # "insert"
  /\ UNCHANGED <<ledgerVars, issuer, carried>>

\* Another registration or accreditation, which the contracts may refuse.
transact(l) ==
  /\ Ledger!registerDid(l) \/ Ledger!accreditIssuer(l) \/ Ledger!registerSchema(l)
  /\ UNCHANGED <<treeVars, issuer, carried>>

TreeResumes(t) == Tree!Resume(t) /\ UNCHANGED <<ledgerVars, issuer, carried>>

LedgerProgresses(l) == Ledger!Progress(l) /\ UNCHANGED <<treeVars, issuer, carried>>

Next ==
  \/ \E t \in TreeCalls : revoke(t) \/ revokeThrows(t) \/ lookUp(t) \/ TreeResumes(t)
  \/ \E l \in LedgerCalls :
       publish(l) \/ publishReturns(l) \/ transact(l) \/ LedgerProgresses(l)

Spec == Init /\ [][Next]_vars

-----------------------------------------------------------------------------
(* The revoked set is the tree's from the moment that the trie has its new *)
(* root, which is on its way until its transaction is mined or fails.      *)
TheIssuer == {"issuer"}

RevokedSet == [i \in TheIssuer |-> keys]

OnItsWay ==
  IF \E t \in TreeCalls : Inserts(t) /\ treeCall[t].pc \in {"inserted", "settled"}
  THEN {keys}
  ELSE {carried[l] : l \in {m \in LedgerCalls :
          Publishes(m) /\ ledgerCall[m].pc \in {"called", "counted", "sent"}}}

OnChain == [i \in TheIssuer |-> UNION {carried[l] : l \in chain.root}]

Promise == INSTANCE RevocationPromise
             WITH Issuers <- TheIssuer, revoked <- RevokedSet,
                  sending <- [i \in TheIssuer |-> OnItsWay], published <- OnChain

(* One awaited insertion and one awaited publication at a time are enough  *)
(* (e2e_core.ts:212-213): with look-ups and other transactions in between, *)
(* the tree and the client keep the promise that Protocol takes for        *)
(* granted in its one-step revocations.                                    *)
KeepsRevocationPromise == Promise!Spec

(* The chain's root never goes back to an older tree, although each        *)
(* publication overwrites the last one (ledger/src/index.ts:103-109) and   *)
(* transactions of other callers come between.                             *)
RootsOnlyGrow == Promise!PublishedOnlyGrows
=============================================================================
