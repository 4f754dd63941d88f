---------------------------- MODULE LedgerClient ----------------------------
(* packages/ledger/src: the client's transactions, from the call of a      *)
(* Ledger method to its mined receipt, through the transaction counter of  *)
(* ethers' NonceManager (evm.ts:122-131).                                  *)
(*                                                                         *)
(* ethers and the node are external.  A call takes the next nonce, then    *)
(* asks the node to estimate it; a call whose estimate fails is rejected   *)
(* and its nonce stays taken.  The node mines transactions in the order of *)
(* their nonces and keeps those that come too early.  A revocation root is *)
(* named by the call that publishes it.                                    *)
EXTENDS Naturals, FiniteSets

CONSTANT Calls   \* calls of Ledger methods

VARIABLES
  chain,    \* what the registries hold, and the account's transaction count
  delta,    \* NonceManager's count
  call      \* the calls
vars == <<chain, delta, call>>

Methods == {"registerDid", "accreditIssuer", "publishRevRoot", "registerSchema"}
InFlight == {"called", "counted", "sent", "mined"}

\* Ledger.deploy: four contracts, awaited one after the other.
deploy ==
  /\ chain = [did |-> FALSE, accredited |-> FALSE, schema |-> FALSE,
              root |-> {}, count |-> 4]
  /\ delta = 4

Init ==
  /\ deploy
  /\ call = [c \in Calls |-> [pc |-> "idle", method |-> "registerDid",
                              nonce |-> 0, before |-> {}]]

At(c, pc) == call[c].pc = pc
Goto(c, pc) == call' = [call EXCEPT ![c].pc = pc]

\* The require conditions the call meets in this state of the registries.
Reverts(c) ==
  \/ call[c].method = "registerDid" /\ chain.did
  \/ call[c].method = "publishRevRoot" /\ ~chain.did
  \/ call[c].method = "registerSchema" /\ chain.schema

-----------------------------------------------------------------------------
Invoke(c, m) ==
  /\ At(c, "idle")
  /\ call' = [call EXCEPT ![c] =
       [pc |-> "called", method |-> m, nonce |-> 0,
        before |-> {d \in Calls : At(d, "settled")}]]
  /\ UNCHANGED <<chain, delta>>

registerDid(c)    == Invoke(c, "registerDid")
accreditIssuer(c) == Invoke(c, "accreditIssuer")
publishRevRoot(c) == Invoke(c, "publishRevRoot")
registerSchema(c) == Invoke(c, "registerSchema")

\* Seeded defect: the nonce is the count the node reports, as without the
\* NonceManager.
getNonceFromNode(c) ==
  /\ At(c, "called")
  /\ call' = [call EXCEPT ![c].pc = "counted", ![c].nonce = chain.count]
  /\ UNCHANGED <<chain, delta>>

getNonce(c) ==
  /\ At(c, "called")
  /\ call' = [call EXCEPT ![c].pc = "counted", ![c].nonce = delta]
  /\ delta' = delta + 1
  /\ UNCHANGED chain

\* The estimate fails because the call would revert, or the connection does.
sendTransaction(c) ==
  /\ At(c, "counted")
  /\ \/ ~Reverts(c) /\ Goto(c, "sent")
     \/ Goto(c, "rejected")
  /\ UNCHANGED <<chain, delta>>

\* A transaction that meets its require condition changes the registries;
\* one that has come to violate it is mined too, and its wait() throws.
mine(c) ==
  /\ At(c, "sent") /\ call[c].nonce = chain.count
  /\ IF Reverts(c)
     THEN /\ Goto(c, "reverted")
          /\ chain' = [chain EXCEPT !.count = @ + 1]
     ELSE /\ Goto(c, "mined")
          /\ chain' = [chain EXCEPT
               !.count = @ + 1,
               !.did = @ \/ call[c].method = "registerDid",
               !.accredited = @ \/ call[c].method = "accreditIssuer",
               !.schema = @ \/ call[c].method = "registerSchema",
               !.root = IF call[c].method = "publishRevRoot" THEN {c} ELSE @]
  /\ UNCHANGED delta

\* Seeded defect: the method returns without waiting for the receipt.
waitNot(c) ==
  /\ At(c, "mined") \/ At(c, "sent")
  /\ Goto(c, "settled")
  /\ UNCHANGED <<chain, delta>>

wait(c) ==
  /\ At(c, "mined")
  /\ Goto(c, "settled")
  /\ UNCHANGED <<chain, delta>>

Progress(c) == getNonce(c) \/ sendTransaction(c) \/ mine(c) \/ wait(c)

Next ==
  \E c \in Calls :
    \/ registerDid(c) \/ accreditIssuer(c) \/ publishRevRoot(c) \/ registerSchema(c)
    \/ Progress(c)

Spec == Init /\ [][Next]_vars /\ \A c \in Calls : WF_vars(Progress(c))

-----------------------------------------------------------------------------
(* The types of the registries, the counter and the calls.                 *)
TypeOK ==
  /\ chain.count \in 4..delta /\ chain.root \subseteq Calls
  /\ \A c \in Calls :
       /\ call[c].pc \in InFlight \cup {"idle", "settled", "rejected", "reverted"}
       /\ call[c].method \in Methods
       /\ call[c].before \subseteq Calls /\ call[c].nonce \in {0} \cup 4..delta

(* An awaited publication is on chain (index.ts:108): from then on the     *)
(* root of the issuer is that one, or one of a call that was still under   *)
(* way or made later, never one that had been confirmed before.  Only      *)
(* publications that overlap can leave the older of two trees on chain     *)
(* (index.ts:103).                                                         *)
SettledIsOnChain ==
  \A c \in Calls : At(c, "settled") /\ call[c].method = "publishRevRoot"
    => \E d \in chain.root : d = c \/ d \notin call[c].before

(* evm.ts:122-126: every call comes back, in whatever number the calls are *)
(* made, unless an earlier nonce was lost to a call the node rejected.     *)
CallsComeBack ==
  \A c \in Calls :
    At(c, "called") ~>
      \/ call[c].pc \in {"settled", "rejected", "reverted"}
      \/ \E d \in Calls : At(d, "rejected") /\ call[d].nonce < call[c].nonce
=============================================================================
