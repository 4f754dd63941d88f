----------------------- MODULE RevocationService_proofs -----------------------
(* For any number of look-ups, transactions and revocations, and any keys. *)
EXTENDS RevocationService, TLAPS

TreePlaces == Tree!InFlight \cup {"idle", "settled", "rejected"}
TreeFields == {"pc", "method", "key", "res", "ret", "during", "before"}
LedgerPlaces == Ledger!InFlight \cup {"idle", "settled", "rejected", "reverted"}
ChainFields == {"did", "accredited", "schema", "root", "count"}
Unmined == {"called", "counted", "sent"}

ServiceTypes ==
  /\ keys \in SUBSET Keys
  /\ DOMAIN treeCall = TreeCalls
  /\ \A t \in TreeCalls :
       DOMAIN treeCall[t] = TreeFields /\ treeCall[t].pc \in TreePlaces
  /\ DOMAIN chain = ChainFields /\ chain.root \in SUBSET LedgerCalls
  /\ delta \in Nat
  /\ ledgerCall \in [LedgerCalls -> [pc : LedgerPlaces, method : Ledger!Methods,
                                     nonce : Nat, before : SUBSET LedgerCalls]]
  /\ carried \in [LedgerCalls -> SUBSET Keys]

\* An insertion under way is the issuer's, and knows the tree it will extend.
OneInsertion ==
  /\ \A t \in TreeCalls :
       treeCall[t].pc \in {"inserting", "inserted"} => treeCall[t].method = "insert"
  /\ \A t \in TreeCalls :
       treeCall[t].method = "insert" /\ treeCall[t].pc \in Tree!InFlight => Inserts(t)
  /\ \A t \in TreeCalls : Inserts(t) =>
       /\ treeCall[t].method = "insert" /\ treeCall[t].pc # "idle"
       /\ treeCall[t].key \in Keys
       /\ treeCall[t].pc = "found" => treeCall[t].res = <<Tree!find(keys, treeCall[t].key)>>
       /\ treeCall[t].pc = "inserting" =>
            treeCall[t].res = <<keys>> /\ treeCall[t].key \notin keys

\* A publication under way is the issuer's, and carries the tree as it is.
OnePublication ==
  /\ \A l \in LedgerCalls :
       /\ carried[l] \subseteq keys
       /\ ledgerCall[l].method = "publishRevRoot" /\ ledgerCall[l].pc \in Unmined
            => Publishes(l)
       /\ Publishes(l) =>
            /\ ledgerCall[l].method = "publishRevRoot" /\ ledgerCall[l].pc # "idle"
            /\ ledgerCall[l].pc \in Unmined => carried[l] = keys
  /\ \A l \in chain.root : ledgerCall[l].pc \in {"mined", "settled"}

ServiceInv ==
  /\ ServiceTypes
  /\ \/ issuer = Idle
     \/ \E t \in TreeCalls : Inserts(t)
     \/ \E l \in LedgerCalls : Publishes(l)
  /\ OneInsertion /\ OnePublication

LEMMA ServiceInit == Init => ServiceInv
<1> SUFFICES ASSUME Init PROVE ServiceInv
  OBVIOUS
<1>1. /\ keys \in SUBSET Keys /\ DOMAIN treeCall = TreeCalls
      /\ \A t \in TreeCalls :
           DOMAIN treeCall[t] = TreeFields /\ treeCall[t].pc = "idle"
  BY DEF Init, Tree!Init, TreeFields
<1>2. ServiceTypes
  BY <1>1 DEF Init, ServiceTypes, TreePlaces, LedgerPlaces, Ledger!Methods, ChainFields
<1> QED
  BY <1>1, <1>2 DEF Init, ServiceInv, OneInsertion, OnePublication, Inserts, Publishes,
       Idle, Tree!InFlight, Unmined

-----------------------------------------------------------------------------
(* What the components can do.                                             *)

\* The other calls of the tree stay where they are.
OthersStay(t) ==
  /\ DOMAIN treeCall' = TreeCalls
  /\ \A d \in TreeCalls : DOMAIN treeCall'[d] = TreeFields
  /\ \A d \in TreeCalls \ {t} :
       /\ treeCall'[d].pc = treeCall[d].pc /\ treeCall'[d].method = treeCall[d].method
       /\ treeCall'[d].key = treeCall[d].key /\ treeCall'[d].res = treeCall[d].res

LEMMA TreeInvokes ==
  ASSUME ServiceTypes, NEW t \in TreeCalls, Tree!Invoke(t)
  PROVE  /\ OthersStay(t) /\ keys' = keys
         /\ treeCall[t].pc = "idle" /\ treeCall'[t].pc = "called"
         /\ treeCall'[t].key \in Keys
BY DEF Tree!Invoke, Tree!At, ServiceTypes, OthersStay, TreeFields

\* A step of call t from p to q that is not the end of an insertion.
Steps(t, p, q) ==
  treeCall[t].pc = p /\ treeCall'[t].pc = q /\ keys' = keys

LEMMA TreeResumed ==
  ASSUME ServiceTypes, NEW t \in TreeCalls, Tree!Resume(t)
  PROVE  /\ OthersStay(t)
         /\ treeCall'[t].method = treeCall[t].method /\ treeCall'[t].key = treeCall[t].key
         /\ \/ /\ Steps(t, "called", "found")
               /\ treeCall'[t].res = <<Tree!find(keys, treeCall[t].key)>>
            \/ Steps(t, "called", "rejected") \/ Steps(t, "found", "rejected")
            \/ Steps(t, "inserting", "rejected") \/ Steps(t, "inserted", "settled")
            \/ Steps(t, "found", "settled") /\ treeCall[t].method # "insert"
            \/ /\ Steps(t, "found", "inserting") /\ treeCall[t].method = "insert"
               /\ ~treeCall[t].res[1].found /\ treeCall'[t].res = <<keys>>
            \/ /\ treeCall[t].pc = "inserting" /\ treeCall'[t].pc = "inserted"
               /\ keys' = treeCall[t].res[1] \cup {treeCall[t].key}
<1>1. CASE Tree!awaitFind(t)
  BY <1>1 DEF Tree!awaitFind, Tree!Settle, Tree!At, ServiceTypes, OthersStay, TreeFields, Steps
<1>2. CASE Tree!isRevoked(t)
  BY <1>2 DEF Tree!isRevoked, Tree!Settle, Tree!At, ServiceTypes, OthersStay, TreeFields, Steps
<1>3. CASE Tree!insert(t)
  BY <1>3 DEF Tree!insert, Tree!Settle, Tree!At, ServiceTypes, OthersStay, TreeFields, Steps
<1>4. CASE Tree!trieInsert(t)
  BY <1>4 DEF Tree!trieInsert, Tree!Settle, Tree!At, ServiceTypes, OthersStay, TreeFields, Steps
<1>5. CASE Tree!insertReturns(t)
  BY <1>5 DEF Tree!insertReturns, Tree!Settle, Tree!At, ServiceTypes, OthersStay, TreeFields, Steps
<1>6. CASE Tree!getNonMembershipProof(t)
  <2>1. /\ treeCall[t].pc = "found" /\ treeCall[t].method # "insert" /\ keys' = keys
        /\ \E pc \in {"settled", "rejected"} : \E ret : Tree!Settle(t, pc, ret)
    BY <1>6 DEF Tree!getNonMembershipProof, Tree!At
  <2>2. PICK pc \in {"settled", "rejected"} : \E ret : Tree!Settle(t, pc, ret)
    BY <2>1
  <2>3. PICK ret : Tree!Settle(t, pc, ret)
    BY <2>2
  <2> QED
    BY <2>1, <2>2, <2>3 DEF Tree!Settle, ServiceTypes, OthersStay, TreeFields, Steps
<1> QED
  BY <1>1, <1>2, <1>3, <1>4, <1>5, <1>6 DEF Tree!Resume

LEMMA LedgerInvokes ==
  ASSUME ServiceTypes, NEW l \in LedgerCalls, NEW m \in Ledger!Methods, Ledger!Invoke(l, m)
  PROVE  /\ ledgerCall[l].pc = "idle" /\ UNCHANGED <<chain, delta>>
         /\ \E r \in [pc : {"called"}, method : {m}, nonce : Nat,
                      before : SUBSET LedgerCalls] :
              ledgerCall' = [ledgerCall EXCEPT ![l] = r]
BY DEF Ledger!Invoke, Ledger!At

\* A transaction moves from p to q, and the registries' root may change.
Goes(l, p, q) ==
  /\ ledgerCall[l].pc = p
  /\ \E r \in [pc : {q}, method : {ledgerCall[l].method}, nonce : Nat,
              before : SUBSET LedgerCalls] :
       ledgerCall' = [ledgerCall EXCEPT ![l] = r]

LEMMA LedgerProgressed ==
  ASSUME ServiceTypes, NEW l \in LedgerCalls, Ledger!Progress(l)
  PROVE  /\ DOMAIN chain' = ChainFields /\ delta' \in Nat
         /\ \/ /\ chain'.root = chain.root
               /\ \/ Goes(l, "called", "counted") \/ Goes(l, "counted", "sent")
                  \/ Goes(l, "counted", "rejected") \/ Goes(l, "sent", "reverted")
                  \/ Goes(l, "mined", "settled")
                  \/ Goes(l, "sent", "mined") /\ ledgerCall[l].method # "publishRevRoot"
            \/ /\ Goes(l, "sent", "mined") /\ ledgerCall[l].method = "publishRevRoot"
               /\ chain'.root = {l}
<1> DEFINE c == ledgerCall[l]
<1>0. c \in [pc : LedgerPlaces, method : Ledger!Methods, nonce : Nat,
            before : SUBSET LedgerCalls]
  BY DEF ServiceTypes
<1>g. ASSUME NEW q, Ledger!Goto(l, q) PROVE Goes(l, c.pc, q)
  <2>1. [c EXCEPT !.pc = q] \in [pc : {q}, method : {c.method}, nonce : Nat,
                                before : SUBSET LedgerCalls]
    BY <1>0
  <2> QED
    BY <1>g, <2>1 DEF Ledger!Goto, Goes
<1>1. CASE Ledger!getNonce(l)
  <2>1. [c EXCEPT !.pc = "counted", !.nonce = delta] \in
          [pc : {"counted"}, method : {c.method}, nonce : Nat, before : SUBSET LedgerCalls]
    BY <1>0 DEF ServiceTypes
  <2>2. Goes(l, "called", "counted")
    BY <1>1, <2>1 DEF Ledger!getNonce, Ledger!At, Goes
  <2> QED
    BY <1>1, <2>2 DEF Ledger!getNonce, ServiceTypes
<1>2. CASE Ledger!sendTransaction(l)
  BY <1>2, <1>g DEF Ledger!sendTransaction, Ledger!At, ServiceTypes
<1>3. CASE Ledger!mine(l)
  <2>1. CASE Ledger!Reverts(l)
    BY <1>3, <1>g, <2>1 DEF Ledger!mine, Ledger!At, ServiceTypes, ChainFields
  <2>2. CASE ~Ledger!Reverts(l)
    <3>1. Goes(l, "sent", "mined")
      BY <1>3, <1>g, <2>2 DEF Ledger!mine, Ledger!At
    <3>2. /\ DOMAIN chain' = ChainFields
          /\ chain'.root = IF c.method = "publishRevRoot" THEN {l} ELSE chain.root
          /\ delta' = delta
      BY <1>3, <2>2 DEF Ledger!mine, ServiceTypes, ChainFields
    <3> QED
      BY <3>1, <3>2 DEF ServiceTypes
  <2> QED
    BY <2>1, <2>2
<1>4. CASE Ledger!wait(l)
  BY <1>4, <1>g DEF Ledger!wait, Ledger!At, ServiceTypes
<1> QED
  BY <1>1, <1>2, <1>3, <1>4 DEF Ledger!Progress
-----------------------------------------------------------------------------
(* The steps of the service keep the invariant.                            *)
LEMMA ServiceRevokes ==
  ASSUME ServiceInv, NEW t \in TreeCalls, revoke(t)
  PROVE  ServiceInv'
<1>1. /\ OthersStay(t) /\ keys' = keys /\ treeCall[t].pc = "idle"
      /\ treeCall'[t].pc = "called" /\ treeCall'[t].method = "insert"
      /\ treeCall'[t].key \in Keys /\ issuer = Idle /\ Inserts(t)'
      /\ UNCHANGED <<ledgerVars, carried>>
  BY TreeInvokes DEF revoke, ServiceInv, Inserts
<1>2. ServiceTypes'
  BY <1>1 DEF ServiceInv, ServiceTypes, OthersStay, TreePlaces, Tree!InFlight, ledgerVars
<1>3. OneInsertion'
  BY <1>1 DEF ServiceInv, OneInsertion, OthersStay, Inserts, Idle
<1>4. OnePublication'
  BY <1>1 DEF ServiceInv, OnePublication, ServiceTypes, Publishes, Inserts, Idle, ledgerVars
<1> QED
  BY <1>1, <1>2, <1>3, <1>4 DEF ServiceInv, Inserts

LEMMA ServiceLooksUp ==
  ASSUME ServiceInv, NEW t \in TreeCalls, lookUp(t)
  PROVE  ServiceInv'
<1>1. /\ OthersStay(t) /\ keys' = keys /\ treeCall[t].pc = "idle"
      /\ treeCall'[t].pc = "called" /\ treeCall'[t].method # "insert"
      /\ UNCHANGED <<ledgerVars, issuer, carried>>
  BY TreeInvokes DEF lookUp, ServiceInv
<1>2. ServiceTypes'
  BY <1>1 DEF ServiceInv, ServiceTypes, OthersStay, TreePlaces, Tree!InFlight, ledgerVars
<1>3. OneInsertion'
  BY <1>1 DEF ServiceInv, OneInsertion, OthersStay, Inserts
<1>4. OnePublication'
  BY <1>1 DEF ServiceInv, OnePublication, ServiceTypes, Publishes, ledgerVars
<1> QED
  BY <1>1, <1>2, <1>3, <1>4 DEF ServiceInv, Inserts, Publishes

LEMMA SearchFinds == \A S, k : Tree!find(S, k).found <=> k \in S
BY DEF Tree!find

LEMMA ServiceResumes ==
  ASSUME ServiceInv, NEW t \in TreeCalls, TreeResumes(t)
  PROVE  ServiceInv' /\ keys \subseteq keys'
<1>1. Tree!Resume(t) /\ UNCHANGED <<ledgerVars, issuer, carried>> /\ ServiceTypes
  BY DEF TreeResumes, ServiceInv
<1> DEFINE p == treeCall[t].pc  q == treeCall'[t].pc
<1>2. /\ OthersStay(t)
      /\ treeCall'[t].method = treeCall[t].method /\ treeCall'[t].key = treeCall[t].key
  BY <1>1, TreeResumed
<1>3. CASE Steps(t, p, q) /\ p \in Tree!InFlight /\ q \in TreePlaces \ {"idle", "called"}
             /\ (q = "found" => treeCall'[t].res = <<Tree!find(keys, treeCall[t].key)>>)
             /\ (q = "inserting" => p = "found" /\ treeCall[t].method = "insert"
                      /\ ~treeCall[t].res[1].found /\ treeCall'[t].res = <<keys>>)
             /\ (q = "inserted" => FALSE)
  <2>1. keys' = keys
    BY <1>3 DEF Steps
  <2>2. ServiceTypes'
    BY <1>1, <1>2, <1>3, <2>1 DEF ServiceTypes, OthersStay, ledgerVars
  <2>3. q = "inserting" => treeCall[t].key \notin keys
    BY <1>3, SearchFinds DEF ServiceInv, OneInsertion, Tree!InFlight
  <2>4. OneInsertion'
    <3>1. \A d \in TreeCalls : Inserts(d)' <=> Inserts(d)
      BY <1>1 DEF Inserts
    <3>2. \A d \in TreeCalls :
            /\ treeCall'[d].pc \in {"inserting", "inserted"} => treeCall'[d].method = "insert"
            /\ treeCall'[d].method = "insert" /\ treeCall'[d].pc \in Tree!InFlight
                 => Inserts(d)
      BY <1>2, <1>3 DEF ServiceInv, OneInsertion, OthersStay, Tree!InFlight
    <3>3. ASSUME NEW d \in TreeCalls, Inserts(d), d # t
          PROVE  /\ treeCall'[d].pc = treeCall[d].pc /\ treeCall'[d].method = treeCall[d].method
                 /\ treeCall'[d].key = treeCall[d].key /\ treeCall'[d].res = treeCall[d].res
      BY <1>2, <3>3 DEF OthersStay
    <3>4. ASSUME NEW d \in TreeCalls, Inserts(d)
          PROVE  /\ treeCall'[d].method = "insert" /\ treeCall'[d].pc # "idle"
                 /\ treeCall'[d].key \in Keys
                 /\ treeCall'[d].pc = "found" =>
                      treeCall'[d].res = <<Tree!find(keys, treeCall'[d].key)>>
                 /\ treeCall'[d].pc = "inserting" =>
                      treeCall'[d].res = <<keys>> /\ treeCall'[d].key \notin keys
      <4>1. CASE d # t
        BY <3>3, <3>4, <4>1 DEF ServiceInv, OneInsertion
      <4>2. CASE d = t
        BY <1>2, <1>3, <2>3, <3>4, <4>2 DEF ServiceInv, OneInsertion, Steps, Tree!InFlight
      <4> QED
        BY <4>1, <4>2
    <3> QED
      BY <2>1, <3>1, <3>2, <3>4 DEF OneInsertion
  <2>5. OnePublication'
    BY <1>1, <2>1 DEF ServiceInv, OnePublication, ServiceTypes, Publishes, ledgerVars
  <2> QED
    BY <1>1, <2>1, <2>2, <2>4, <2>5 DEF ServiceInv, Inserts, Publishes
<1>4. CASE /\ p = "inserting" /\ q = "inserted"
           /\ keys' = treeCall[t].res[1] \cup {treeCall[t].key}
  <2>1. /\ Inserts(t) /\ treeCall[t].method = "insert" /\ treeCall[t].key \in Keys
        /\ keys' = keys \cup {treeCall[t].key}
    BY <1>4 DEF ServiceInv, OneInsertion, Tree!InFlight
  <2>2. ServiceTypes'
    BY <1>1, <1>2, <1>4, <2>1 DEF ServiceTypes, OthersStay, ledgerVars, TreePlaces,
         Tree!InFlight
  <2>3. \A d \in TreeCalls \ {t} :
          ~Inserts(d) /\ ~(treeCall[d].method = "insert" /\ treeCall[d].pc \in Tree!InFlight)
    BY <2>1 DEF ServiceInv, OneInsertion, Inserts
  <2>4. OneInsertion'
    BY <1>1, <1>2, <1>4, <2>1, <2>3 DEF ServiceInv, OneInsertion, OthersStay, Inserts,
         Tree!InFlight
  <2>5. \A l \in LedgerCalls : ~Publishes(l)
    BY <2>1 DEF Publishes, Inserts
  <2>6. OnePublication'
    BY <1>1, <2>1, <2>5 DEF ServiceInv, OnePublication, ServiceTypes, Publishes, ledgerVars
  <2> QED
    BY <1>1, <2>1, <2>2, <2>4, <2>6 DEF ServiceInv, Inserts, Publishes
<1> QED
  BY <1>1, <1>3, <1>4, TreeResumed DEF Steps, TreePlaces, Tree!InFlight

LEMMA ServicePublishes ==
  ASSUME ServiceInv, NEW l \in LedgerCalls, publish(l)
  PROVE  ServiceInv'
<1>1. /\ ledgerCall[l].pc = "idle" /\ UNCHANGED <<chain, delta, keys, treeCall>>
      /\ carried' = [carried EXCEPT ![l] = keys] /\ Publishes(l)'
      /\ issuer = Idle \/ \E t \in TreeCalls : Inserts(t) /\ treeCall[t].pc = "settled"
  BY LedgerInvokes DEF publish, treeVars, ServiceInv, Publishes, Ledger!publishRevRoot,
       Ledger!Methods
<1>2. PICK r \in [pc : {"called"}, method : {"publishRevRoot"}, nonce : Nat,
                 before : SUBSET LedgerCalls] :
        ledgerCall' = [ledgerCall EXCEPT ![l] = r]
  BY LedgerInvokes DEF publish, ServiceInv, Ledger!publishRevRoot, Ledger!Methods
<1>3. ServiceTypes'
  <2>1. r \in [pc : LedgerPlaces, method : Ledger!Methods, nonce : Nat,
               before : SUBSET LedgerCalls]
    BY <1>2 DEF LedgerPlaces, Ledger!InFlight, Ledger!Methods
  <2> QED
    BY <1>1, <1>2, <2>1 DEF ServiceInv, ServiceTypes
<1>4. \A t \in TreeCalls :
        ~(treeCall[t].method = "insert" /\ treeCall[t].pc \in Tree!InFlight)
  BY <1>1 DEF ServiceInv, OneInsertion, Inserts, Idle, Tree!InFlight
<1>5. OneInsertion'
  BY <1>1, <1>4 DEF ServiceInv, OneInsertion, Inserts, Publishes
<1>6. \A k \in LedgerCalls : ~Publishes(k)
  BY <1>1 DEF Publishes, Inserts, Idle
<1>7. OnePublication'
  BY <1>1, <1>2, <1>6 DEF ServiceInv, ServiceTypes, OnePublication, Publishes, Unmined
<1> QED
  BY <1>1, <1>3, <1>5, <1>7 DEF ServiceInv

LEMMA ServiceTransacts ==
  ASSUME ServiceInv, NEW l \in LedgerCalls, transact(l)
  PROVE  ServiceInv'
<1>1. PICK m \in {"registerDid", "accreditIssuer", "registerSchema"} : Ledger!Invoke(l, m)
  BY DEF transact, Ledger!registerDid, Ledger!accreditIssuer, Ledger!registerSchema
<1>2. m \in Ledger!Methods /\ m # "publishRevRoot" /\ UNCHANGED <<treeVars, issuer, carried>>
  BY DEF Ledger!Methods, transact
<1>3. PICK r \in [pc : {"called"}, method : {m}, nonce : Nat, before : SUBSET LedgerCalls] :
        ledgerCall' = [ledgerCall EXCEPT ![l] = r]
  BY <1>1, <1>2, LedgerInvokes DEF ServiceInv
<1>4. ledgerCall[l].pc = "idle" /\ UNCHANGED <<chain, delta>>
  BY <1>1, <1>2, LedgerInvokes DEF ServiceInv
<1>5. ServiceTypes'
  <2>1. r \in [pc : LedgerPlaces, method : Ledger!Methods, nonce : Nat,
               before : SUBSET LedgerCalls]
    BY <1>2, <1>3 DEF LedgerPlaces, Ledger!InFlight
  <2> QED
    BY <1>2, <1>3, <1>4, <2>1 DEF ServiceInv, ServiceTypes, treeVars
<1>6. OneInsertion'
  BY <1>2 DEF ServiceInv, OneInsertion, Inserts, treeVars
<1>7. OnePublication'
  BY <1>2, <1>3, <1>4 DEF ServiceInv, ServiceTypes, OnePublication, Publishes, treeVars
<1> QED
  BY <1>2, <1>5, <1>6, <1>7 DEF ServiceInv, Inserts, Publishes

LEMMA ServiceProgresses ==
  ASSUME ServiceInv, NEW l \in LedgerCalls, LedgerProgresses(l)
  PROVE  ServiceInv'
<1>1. Ledger!Progress(l) /\ UNCHANGED <<treeVars, issuer, carried>> /\ ServiceTypes
  BY DEF LedgerProgresses, ServiceInv
<1>2. /\ DOMAIN chain' = ChainFields /\ delta' \in Nat
      /\ \/ chain'.root = chain.root
         \/ /\ chain'.root = {l} /\ ledgerCall[l].method = "publishRevRoot"
            /\ Goes(l, "sent", "mined")
  BY <1>1, LedgerProgressed
<1>3. PICK p \in Ledger!InFlight, q \in LedgerPlaces \ {"idle"} :
        /\ Goes(l, p, q)
        /\ q \in Unmined => p \in Unmined
        /\ p = "mined" => q = "settled"
        /\ chain'.root = chain.root \/ q = "mined"
  BY <1>1, LedgerProgressed DEF Ledger!InFlight, LedgerPlaces, Unmined
<1>4. PICK r \in [pc : {q}, method : {ledgerCall[l].method}, nonce : Nat,
                 before : SUBSET LedgerCalls] :
        ledgerCall' = [ledgerCall EXCEPT ![l] = r]
  BY <1>3 DEF Goes
<1>5. ServiceTypes'
  <2>1. r \in [pc : LedgerPlaces, method : Ledger!Methods, nonce : Nat,
               before : SUBSET LedgerCalls]
    BY <1>1, <1>3, <1>4 DEF ServiceTypes
  <2>2. chain'.root \in SUBSET LedgerCalls
    BY <1>1, <1>2 DEF ServiceTypes
  <2> QED
    BY <1>1, <1>2, <1>4, <2>1, <2>2 DEF ServiceTypes, treeVars
<1>6. OneInsertion'
  BY <1>1 DEF ServiceInv, OneInsertion, Inserts, treeVars
<1>7. ledgerCall[l].pc = p /\ ledgerCall'[l].pc = q
      /\ ledgerCall'[l].method = ledgerCall[l].method
      /\ \A k \in LedgerCalls \ {l} : ledgerCall'[k] = ledgerCall[k]
  BY <1>1, <1>3, <1>4 DEF Goes, ServiceTypes
<1>8. \A k \in chain'.root : ledgerCall'[k].pc \in {"mined", "settled"}
  BY <1>2, <1>3, <1>7 DEF ServiceInv, ServiceTypes, OnePublication, Ledger!InFlight
<1>9. OnePublication'
  BY <1>1, <1>3, <1>7, <1>8 DEF ServiceInv, OnePublication, Publishes, treeVars, LedgerPlaces
<1> QED
  BY <1>1, <1>5, <1>6, <1>9 DEF ServiceInv, Inserts, Publishes

LEMMA ServiceReturns ==
  ASSUME ServiceInv,
         \/ \E t \in TreeCalls : revokeThrows(t)
         \/ \E l \in LedgerCalls : publishReturns(l)
  PROVE  ServiceInv'
<1>1. UNCHANGED <<treeVars, ledgerVars, carried>> /\ issuer' = Idle
  BY DEF revokeThrows, publishReturns
<1>2. \A t \in TreeCalls :
        ~(treeCall[t].method = "insert" /\ treeCall[t].pc \in Tree!InFlight)
  BY DEF ServiceInv, OneInsertion, Inserts, Tree!InFlight, revokeThrows, publishReturns,
         Publishes
<1>3. \A l \in LedgerCalls :
        ~(ledgerCall[l].method = "publishRevRoot" /\ ledgerCall[l].pc \in Unmined)
  BY DEF ServiceInv, OnePublication, Publishes, Unmined, revokeThrows, publishReturns,
         Inserts
<1> QED
  BY <1>1, <1>2, <1>3 DEF ServiceInv, ServiceTypes, OneInsertion, OnePublication, Inserts,
       Publishes, Idle, treeVars, ledgerVars

LEMMA ServiceNext == ServiceInv /\ [Next]_vars => ServiceInv'
<1>1. ASSUME ServiceInv, UNCHANGED vars PROVE ServiceInv'
  BY <1>1 DEF vars, treeVars, ledgerVars, ServiceInv, ServiceTypes, OneInsertion,
       OnePublication, Inserts, Publishes
<1> QED
  BY <1>1, ServiceRevokes, ServiceLooksUp, ServiceResumes, ServicePublishes,
     ServiceTransacts, ServiceProgresses, ServiceReturns DEF Next
-----------------------------------------------------------------------------
(* The refinement mapping.                                                 *)

\* What is on its way, by what the issuer awaits.
Way ==
  /\ issuer = Idle => OnItsWay = {}
  /\ \A t \in TreeCalls : Inserts(t) =>
       OnItsWay = IF treeCall[t].pc \in {"inserted", "settled"} THEN {keys} ELSE {}
  /\ \A l \in LedgerCalls : Publishes(l) =>
       OnItsWay = IF ledgerCall[l].pc \in Unmined THEN {keys} ELSE {}

LEMMA WayIs == ServiceInv => Way
<1> SUFFICES ASSUME ServiceInv PROVE Way
  OBVIOUS
<1>1. ASSUME issuer = Idle PROVE OnItsWay = {}
  BY <1>1 DEF OnItsWay, Inserts, Publishes, Idle
<1>2. ASSUME NEW t \in TreeCalls, Inserts(t)
      PROVE  OnItsWay = IF treeCall[t].pc \in {"inserted", "settled"} THEN {keys} ELSE {}
  <2>1. \A d \in TreeCalls : Inserts(d) => d = t
    BY <1>2 DEF Inserts
  <2>2. \A l \in LedgerCalls : ~Publishes(l)
    BY <1>2 DEF Inserts, Publishes
  <2> QED
    BY <1>2, <2>1, <2>2 DEF OnItsWay
<1>3. ASSUME NEW l \in LedgerCalls, Publishes(l)
      PROVE  OnItsWay = IF ledgerCall[l].pc \in Unmined THEN {keys} ELSE {}
  <2>1. \A k \in LedgerCalls : Publishes(k) => k = l
    BY <1>3 DEF Publishes
  <2>2. \A t \in TreeCalls : ~Inserts(t)
    BY <1>3 DEF Inserts, Publishes
  <2>3. ledgerCall[l].pc \in Unmined => carried[l] = keys
    BY <1>3 DEF ServiceInv, OnePublication
  <2> QED
    BY <1>3, <2>1, <2>2, <2>3 DEF OnItsWay, Unmined
<1> QED
  BY <1>1, <1>2, <1>3 DEF Way

OnChainSet == UNION {carried[l] : l \in chain.root}

\* The root on chain is of an earlier tree of the issuer.
LEMMA ChainIs == ServiceInv => OnChainSet \subseteq keys
BY DEF ServiceInv, ServiceTypes, OnePublication, OnChainSet

\* Steps of the promise, by the three sets.
LEMMA PromiseMoves ==
  ASSUME \/ /\ OnItsWay = {} /\ OnChainSet' = OnChainSet
            /\ \E k \in Keys \ keys : keys' = keys \cup {k} /\ OnItsWay' = {keys \cup {k}}
         \/ /\ OnItsWay = {} /\ OnItsWay' = {keys}
            /\ keys' = keys /\ OnChainSet' = OnChainSet
         \/ /\ OnItsWay = {keys} /\ OnItsWay' = {}
            /\ keys' = keys /\ OnChainSet' \in {OnChainSet, keys}
         \/ OnItsWay' = OnItsWay /\ keys' = keys /\ OnChainSet' = OnChainSet
  PROVE  [Promise!Next]_(Promise!promised)
<1> DEFINE i == "issuer"
           way == [j \in TheIssuer |-> OnItsWay]
<1>0. /\ i \in TheIssuer /\ \A j \in TheIssuer : j = i
      /\ RevokedSet = [j \in TheIssuer |-> keys] /\ OnChain = [j \in TheIssuer |-> OnChainSet]
      /\ RevokedSet' = [j \in TheIssuer |-> keys'] /\ way' = [j \in TheIssuer |-> OnItsWay']
      /\ OnChain' = [j \in TheIssuer |-> OnChainSet']
  BY DEF TheIssuer, RevokedSet, OnChain, OnChainSet
<1>1. ASSUME OnItsWay = {}, OnChainSet' = OnChainSet, NEW k \in Keys \ keys,
             keys' = keys \cup {k}, OnItsWay' = {keys \cup {k}}
      PROVE  Promise!Revoke(i, k)
  <2>1. /\ way[i] = {} /\ k \notin RevokedSet[i] /\ OnChain' = OnChain
        /\ RevokedSet' = [RevokedSet EXCEPT ![i] = @ \cup {k}]
        /\ way' = [way EXCEPT ![i] = {RevokedSet[i] \cup {k}}]
    BY <1>0, <1>1
  <2> QED
    BY <2>1 DEF Promise!Revoke
<1>2. ASSUME OnItsWay = {}, OnItsWay' = {keys}, keys' = keys, OnChainSet' = OnChainSet
      PROVE  Promise!Send(i)
  <2>1. /\ way[i] = {} /\ RevokedSet' = RevokedSet /\ OnChain' = OnChain
        /\ way' = [way EXCEPT ![i] = {RevokedSet[i]}]
    BY <1>0, <1>2
  <2> QED
    BY <2>1 DEF Promise!Send
<1>3. ASSUME OnItsWay = {keys}, OnItsWay' = {}, keys' = keys, OnChainSet' = keys
      PROVE  Promise!Confirm(i)
  <2>1. /\ way[i] # {} /\ RevokedSet' = RevokedSet
        /\ OnChain' = [OnChain EXCEPT ![i] = UNION way[i]]
        /\ way' = [way EXCEPT ![i] = {}]
    BY <1>0, <1>3
  <2> QED
    BY <2>1 DEF Promise!Confirm
<1>4. ASSUME OnItsWay = {keys}, OnItsWay' = {}, keys' = keys, OnChainSet' = OnChainSet
      PROVE  Promise!GiveUp(i)
  <2>1. /\ way[i] # {} /\ RevokedSet' = RevokedSet /\ OnChain' = OnChain
        /\ way' = [way EXCEPT ![i] = {}]
    BY <1>0, <1>4
  <2> QED
    BY <2>1 DEF Promise!GiveUp
<1>5. ASSUME OnItsWay' = OnItsWay, keys' = keys, OnChainSet' = OnChainSet
      PROVE  UNCHANGED Promise!promised
  <2>1. way' = way /\ RevokedSet' = RevokedSet /\ OnChain' = OnChain
    BY <1>0, <1>5
  <2> QED
    BY <2>1 DEF Promise!promised
<1> QED
  BY <1>0, <1>1, <1>2, <1>3, <1>4, <1>5 DEF Promise!Next

LEMMA ServiceStep ==
  ASSUME ServiceInv, ServiceInv', Way, Way', [Next]_vars
  PROVE  [Promise!Next]_(Promise!promised)
<1>1. CASE UNCHANGED vars
  <2>1. keys' = keys /\ OnItsWay' = OnItsWay /\ OnChainSet' = OnChainSet
    BY <1>1 DEF vars, treeVars, ledgerVars, OnItsWay, OnChainSet, Inserts, Publishes
  <2> QED
    BY <2>1, PromiseMoves
<1>2. ASSUME NEW t \in TreeCalls, revoke(t)
      PROVE  OnItsWay' = OnItsWay /\ keys' = keys /\ OnChainSet' = OnChainSet
  <2>1. /\ issuer = Idle /\ Inserts(t)' /\ treeCall'[t].pc = "called" /\ keys' = keys
        /\ UNCHANGED <<ledgerVars, carried>>
    BY <1>2, TreeInvokes DEF revoke, ServiceInv, Inserts
  <2> QED
    BY <2>1 DEF Way, OnChainSet, ledgerVars
<1>3. ASSUME NEW t \in TreeCalls, revokeThrows(t)
      PROVE  OnItsWay' = OnItsWay /\ keys' = keys /\ OnChainSet' = OnChainSet
  BY <1>3 DEF revokeThrows, Way, OnChainSet, ledgerVars, treeVars
<1>4. ASSUME NEW t \in TreeCalls, lookUp(t)
      PROVE  OnItsWay' = OnItsWay /\ keys' = keys /\ OnChainSet' = OnChainSet
  <2>1. /\ OthersStay(t) /\ keys' = keys /\ treeCall'[t].pc = "called"
        /\ treeCall[t].pc = "idle" /\ UNCHANGED <<ledgerVars, issuer, carried>>
    BY <1>4, TreeInvokes DEF lookUp, ServiceInv
  <2>2. \A d \in TreeCalls : treeCall'[d].pc = treeCall[d].pc \/ (d = t /\ ~Inserts(t))
    BY <2>1 DEF OthersStay, ServiceInv, OneInsertion
  <2> QED
    BY <2>1, <2>2 DEF OnItsWay, OnChainSet, Inserts, Publishes, ledgerVars
<1>5. ASSUME NEW t \in TreeCalls, TreeResumes(t)
      PROVE  \/ OnItsWay' = OnItsWay /\ keys' = keys /\ OnChainSet' = OnChainSet
             \/ /\ OnItsWay = {} /\ OnChainSet' = OnChainSet
                /\ \E k \in Keys \ keys :
                     keys' = keys \cup {k} /\ OnItsWay' = {keys \cup {k}}
  <2>1. /\ Tree!Resume(t) /\ UNCHANGED <<ledgerVars, issuer, carried>>
        /\ OnChainSet' = OnChainSet /\ \A d \in TreeCalls : Inserts(d)' <=> Inserts(d)
    BY <1>5 DEF TreeResumes, OnChainSet, ledgerVars, Inserts
  <2>2. /\ OthersStay(t) /\ treeCall'[t].method = treeCall[t].method
        /\ \/ /\ keys' = keys
              /\ treeCall[t].pc \in {"inserted", "settled"} <=>
                   treeCall'[t].pc \in {"inserted", "settled"}
           \/ keys' = keys /\ treeCall[t].method # "insert"
           \/ /\ treeCall[t].pc = "inserting" /\ treeCall'[t].pc = "inserted"
              /\ keys' = treeCall[t].res[1] \cup {treeCall[t].key}
    BY <2>1, TreeResumed DEF ServiceInv, Steps
  <2>3. CASE treeCall[t].pc = "inserting" /\ treeCall'[t].pc = "inserted"
               /\ keys' = treeCall[t].res[1] \cup {treeCall[t].key}
    <3>1. /\ Inserts(t) /\ treeCall[t].key \in Keys \ keys
          /\ keys' = keys \cup {treeCall[t].key}
      BY <2>3 DEF ServiceInv, OneInsertion, Tree!InFlight
    <3>2. OnItsWay = {} /\ OnItsWay' = {keys'}
      BY <2>1, <2>3, <3>1 DEF Way
    <3> QED
      BY <2>1, <3>1, <3>2
  <2>4. CASE keys' = keys /\ \A d \in TreeCalls : Inserts(d) =>
               (treeCall[d].pc \in {"inserted", "settled"} <=>
                  treeCall'[d].pc \in {"inserted", "settled"})
    BY <2>1, <2>4 DEF OnItsWay, Publishes, ledgerVars
  <2>5. \A d \in TreeCalls \ {t} : treeCall'[d].pc = treeCall[d].pc
    BY <2>2 DEF OthersStay
  <2>6. Inserts(t) => treeCall[t].method = "insert"
    BY DEF ServiceInv, OneInsertion
  <2> QED
    BY <2>2, <2>3, <2>4, <2>5, <2>6
<1>6. ASSUME NEW l \in LedgerCalls, publish(l)
      PROVE  /\ keys' = keys /\ OnChainSet' = OnChainSet /\ OnItsWay' = {keys}
             /\ OnItsWay \in {{}, {keys}}
  <2>1. /\ ledgerCall[l].pc = "idle" /\ UNCHANGED <<chain, delta, keys, treeCall>>
        /\ carried' = [carried EXCEPT ![l] = keys] /\ Publishes(l)'
        /\ ledgerCall'[l].pc = "called"
        /\ issuer = Idle \/ \E t \in TreeCalls : Inserts(t) /\ treeCall[t].pc = "settled"
    BY <1>6, LedgerInvokes DEF publish, treeVars, ServiceInv, ServiceTypes, Publishes,
         Ledger!publishRevRoot, Ledger!Methods
  <2>2. l \notin chain.root
    BY <2>1 DEF ServiceInv, OnePublication
  <2>3. OnChainSet' = OnChainSet
    BY <2>1, <2>2 DEF OnChainSet, ServiceInv, ServiceTypes
  <2>4. OnItsWay \in {{}, {keys}} /\ OnItsWay' = {keys'}
    BY <2>1 DEF Way, Unmined
  <2> QED
    BY <2>1, <2>3, <2>4
<1>7. ASSUME NEW l \in LedgerCalls, publishReturns(l)
      PROVE  OnItsWay' = OnItsWay /\ keys' = keys /\ OnChainSet' = OnChainSet
  BY <1>7 DEF publishReturns, Way, OnChainSet, ledgerVars, treeVars, Unmined
<1>8. ASSUME NEW l \in LedgerCalls, transact(l)
      PROVE  OnItsWay' = OnItsWay /\ keys' = keys /\ OnChainSet' = OnChainSet
  <2>1. PICK m \in {"registerDid", "accreditIssuer", "registerSchema"} : Ledger!Invoke(l, m)
    BY <1>8 DEF transact, Ledger!registerDid, Ledger!accreditIssuer, Ledger!registerSchema
  <2>2. /\ ledgerCall[l].pc = "idle" /\ UNCHANGED <<chain, treeVars, issuer, carried>>
        /\ \A k \in LedgerCalls \ {l} : ledgerCall'[k] = ledgerCall[k]
    BY <1>8, <2>1, LedgerInvokes DEF transact, ServiceInv, ServiceTypes, Ledger!Methods
  <2>3. ~Publishes(l)
    BY <2>2 DEF ServiceInv, OnePublication
  <2> QED
    BY <2>2, <2>3 DEF OnItsWay, OnChainSet, Inserts, Publishes, treeVars
<1>9. ASSUME NEW l \in LedgerCalls, LedgerProgresses(l)
      PROVE  /\ keys' = keys
             /\ \/ OnItsWay' = OnItsWay /\ OnChainSet' = OnChainSet
                \/ /\ OnItsWay = {keys} /\ OnItsWay' = {}
                   /\ OnChainSet' \in {OnChainSet, keys}
  <2>1. Ledger!Progress(l) /\ UNCHANGED <<treeVars, issuer, carried>> /\ ServiceTypes
    BY <1>9 DEF LedgerProgresses, ServiceInv
  <2>2. PICK p \in Ledger!InFlight, q \in LedgerPlaces :
          /\ Goes(l, p, q)
          /\ \/ chain'.root = chain.root /\ (q \in Unmined => p \in Unmined)
                /\ (q = "mined" => ledgerCall[l].method # "publishRevRoot")
             \/ /\ p = "sent" /\ q = "mined" /\ ledgerCall[l].method = "publishRevRoot"
                /\ chain'.root = {l}
    BY <2>1, LedgerProgressed DEF Ledger!InFlight, LedgerPlaces, Unmined
  <2>3. /\ ledgerCall[l].pc = p /\ ledgerCall'[l].pc = q
        /\ \A k \in LedgerCalls \ {l} : ledgerCall'[k] = ledgerCall[k]
    BY <2>1, <2>2 DEF Goes, ServiceTypes
  <2>4. chain'.root = chain.root => OnChainSet' = OnChainSet
    BY <2>1 DEF OnChainSet
  <2>5. CASE ~Publishes(l)
    <3>1. OnItsWay' = OnItsWay
      BY <2>1, <2>3, <2>5 DEF OnItsWay, Inserts, Publishes, treeVars
    <3>2. chain'.root = chain.root
      BY <2>2, <2>3, <2>5 DEF ServiceInv, OnePublication, Unmined
    <3> QED
      BY <2>1, <2>4, <3>1, <3>2 DEF treeVars
  <2>6. CASE Publishes(l)
    <3>1. /\ Publishes(l)' /\ keys' = keys
          /\ OnItsWay = (IF p \in Unmined THEN {keys} ELSE {})
          /\ OnItsWay' = (IF q \in Unmined THEN {keys} ELSE {})
      BY <2>1, <2>3, <2>6 DEF Way, Publishes, treeVars
    <3>2. ledgerCall[l].method = "publishRevRoot" /\ (p \in Unmined => carried[l] = keys)
      BY <2>3, <2>6 DEF ServiceInv, OnePublication
    <3>3. chain'.root = {l} => OnChainSet' = carried[l]
      BY <2>1 DEF OnChainSet
    <3> QED
      BY <2>2, <2>4, <3>1, <3>2, <3>3 DEF Unmined
  <2> QED
    BY <2>5, <2>6
<1> QED
  BY <1>1, <1>2, <1>3, <1>4, <1>5, <1>6, <1>7, <1>8, <1>9, PromiseMoves DEF Next
LEMMA ServiceAlways == Spec => []ServiceInv
<1> QED
  BY ServiceInit, ServiceNext, PTL DEF Spec

\* e2e_core.ts:212-213: an issuer that awaits its insertion and its
\* publication implements the promise, one step of which is a revocation.
THEOREM ServiceKeepsPromise == Spec => KeepsRevocationPromise
<1>1. Init => Promise!Init
  <2> SUFFICES ASSUME Init PROVE Promise!Init
    OBVIOUS
  <2>1. keys \in SUBSET Keys /\ OnItsWay = {} /\ OnChainSet = {}
    BY ServiceInit, WayIs DEF Init, Tree!Init, Way, OnChainSet
  <2> QED
    BY <2>1 DEF Promise!Init, RevokedSet, OnChain, OnChainSet
<1>2. ServiceInv /\ ServiceInv' /\ Way /\ Way' /\ [Next]_vars
        => [Promise!Next]_(Promise!promised)
  BY ServiceStep
<1> QED
  BY <1>1, <1>2, WayIs, ServiceAlways, PTL DEF Spec, KeepsRevocationPromise, Promise!Spec

\* What is on its way is the revoked set, and what is on chain part of it.
PromiseInv == OnChainSet \subseteq keys /\ OnItsWay \in {{}, {keys}}

LEMMA PromiseHeld == ServiceInv /\ Way => PromiseInv
<1> SUFFICES ASSUME ServiceInv, Way PROVE PromiseInv
  OBVIOUS
<1> QED
  BY ChainIs DEF ServiceInv, Way, PromiseInv

\* The promise alone makes the chain grow, whoever keeps it.
LEMMA PromiseGrows ==
  ASSUME PromiseInv, PromiseInv', [Promise!Next]_(Promise!promised)
  PROVE  OnChainSet \subseteq OnChainSet' /\ keys \subseteq keys'
<1> DEFINE i == "issuer"
           way == [j \in TheIssuer |-> OnItsWay]
<1>0. /\ i \in TheIssuer /\ \A j \in TheIssuer : j = i
      /\ RevokedSet[i] = keys /\ way[i] = OnItsWay /\ OnChain[i] = OnChainSet
      /\ RevokedSet'[i] = keys' /\ way'[i] = OnItsWay' /\ OnChain'[i] = OnChainSet'
      /\ DOMAIN RevokedSet = TheIssuer /\ DOMAIN OnChain = TheIssuer /\ DOMAIN way = TheIssuer
  BY DEF TheIssuer, RevokedSet, OnChain, OnChainSet
<1>1. CASE UNCHANGED Promise!promised
  BY <1>0, <1>1 DEF Promise!promised
<1>2. ASSUME NEW k, Promise!Revoke(i, k)
      PROVE  keys' = keys \cup {k} /\ OnChainSet' = OnChainSet
  BY <1>0, <1>2 DEF Promise!Revoke
<1>3. CASE Promise!Send(i)
  BY <1>0, <1>3 DEF Promise!Send
<1>4. CASE Promise!Confirm(i)
  <2>1. way[i] # {} /\ keys' = keys /\ OnChainSet' = UNION way[i]
    BY <1>0, <1>4 DEF Promise!Confirm
  <2> QED
    BY <1>0, <2>1 DEF PromiseInv
<1>5. CASE Promise!GiveUp(i)
  BY <1>0, <1>5 DEF Promise!GiveUp
<1> QED
  BY <1>0, <1>1, <1>2, <1>3, <1>4, <1>5 DEF Promise!Next

\* ledger/src/index.ts:103-109: no publication takes the chain back to an
\* older tree.
THEOREM RootsGrow == Spec => RootsOnlyGrow
<1> DEFINE Grows == \A i \in TheIssuer :
             OnChain[i] \subseteq OnChain'[i] /\ OnChain'[i] \subseteq RevokedSet'[i]
<1>1. ASSUME PromiseInv, PromiseInv', [Promise!Next]_(Promise!promised)
      PROVE  Grows
  <2>1. OnChainSet \subseteq OnChainSet' /\ OnChainSet' \subseteq keys'
    BY <1>1, PromiseGrows DEF PromiseInv
  <2> QED
    BY <2>1 DEF OnChain, OnChainSet, RevokedSet
<1>2. PromiseInv /\ PromiseInv' /\ [Promise!Next]_(Promise!promised)
        => [Grows]_(Promise!promised)
  BY <1>1
<1>3. Spec => []PromiseInv
  BY ServiceAlways, WayIs, PromiseHeld, PTL
<1> QED
  BY <1>2, <1>3, ServiceKeepsPromise, PTL
     DEF KeepsRevocationPromise, Promise!Spec, RootsOnlyGrow, Promise!PublishedOnlyGrows
=============================================================================
