------------------------------ MODULE Verifier ------------------------------
(***************************************************************************)
(* The verifier service of packages/verifier/src/index.ts: session nonces  *)
(* with a TTL and verifyPresentation, an async function that awaits three  *)
(* ledger reads and the proof check (and, twice, a library being loaded).  *)
(* Any number of calls can be in flight, at several verifiers, and the     *)
(* chain (module Registries) moves between their awaits.  Each action is   *)
(* the code from one await to the next; ledger reads may fail.             *)
(***************************************************************************)
EXTENDS Encoding, Integers, Sequences

CONSTANTS
  Accounts, Governance, NoAddress, DIDs, Keys, NoKey, Roots, EmptyRoot,
  SchemaIds, SchemaHashes, NoHash,
  Verifiers,       \* verifierIds, one Verifier object each
  Nonces,          \* 128-bit random values
  Calls,           \* calls of verifyPresentation
  Presentations,   \* what can arrive: [signals, proof, issuerDid]
  Policies,        \* expected policies: [type, threshold]
  TTL,             \* NonceRegistry.ttlMs, in clock ticks
  MaxTime,         \* bound on the clock
  Undefined        \* a JavaScript undefined, and a local not yet assigned

ASSUME VerifierAssumption ==
  /\ Governance \in Accounts /\ NoAddress \notin Accounts
  /\ EmptyRoot \in Roots
  /\ TTL \in Nat
  /\ MaxTime \in Nat
  /\ Undefined \notin Nat
  /\ Undefined \notin Roots
  /\ \A p \in Presentations : p.issuerDid \in DIDs

VARIABLES
  records, accredited, revRoot, schemas,   \* the chain
  clock,       \* Date.now()
  issued,      \* per verifier, NonceRegistry.issued: nonce -> expiry
  issuedAt,    \* history: when each nonce was issued
  pc,          \* where each call is suspended
  request,     \* its arguments
  doc,         \* its local doc
  chainRoot,   \* its local chainRoot
  checks,      \* the fields of its checks that are true
  seen         \* history: the issuer's chain states since the call started

chainVars   == <<records, accredited, revRoot, schemas>>
sessionVars == <<issued, issuedAt>>
callVars    == <<pc, request, doc, chainRoot, checks>>
vars == <<chainVars, clock, sessionVars, callVars, seen>>

Chain == INSTANCE Registries

CheckNames == {"proofValid", "issuerResolvedAndAccredited",
               "issuerKeyHashMatches", "revRootMatches", "policyHashMatches",
               "nonceFresh", "stmtCodeValid"}

\* Where a call is suspended; "done" returned a decision, "threw" rejected.
Settled == {"done", "threw"}
Suspended == {"resolveDid", "isAccredited", "getRevRoot", "resumed",
              "groth16.verify"}

\* The five public signals, in the order the code destructures them.
Signals(c) == request[c].presentation.signals
sigIssuerKeyHash(c) == Signals(c)[1]
sigRevRoot(c)       == Signals(c)[2]
sigPolicyHash(c)    == Signals(c)[3]
sigNonce(c)         == Signals(c)[4]
sigStmtCode(c)      == Signals(c)[5]
Issuer(c)           == request[c].presentation.issuerDid

InFlight(c) == pc[c] \in Suspended

\* every(Boolean) over the seven checks of a call that returned.
Accepted(c) == pc[c] = "done" /\ checks[c] = CheckNames

Passed(condition, name) == IF condition THEN {name} ELSE {}

-----------------------------------------------------------------------------
\* The observer's record of the chain while a call runs.
ChainFacts(d) == [pk         |-> records[d].pk,
                  active     |-> records[d].active,
                  accredited |-> accredited[d],
                  root       |-> revRoot[d]]

Observe == seen' = [c \in Calls |->
             IF InFlight(c) THEN seen[c] \cup {ChainFacts(d)' : d \in {Issuer(c)}}
                            ELSE seen[c]]

VerifierInit ==
  /\ clock     = 0
  /\ issued    = [v \in Verifiers |-> [n \in Nonces |-> Undefined]]
  /\ issuedAt  = [v \in Verifiers |-> [n \in Nonces |-> Undefined]]
  /\ pc        = [c \in Calls |-> "idle"]
  /\ request   = [c \in Calls |-> Undefined]
  /\ doc       = [c \in Calls |-> Undefined]
  /\ chainRoot = [c \in Calls |-> Undefined]
  /\ checks    = [c \in Calls |-> {}]
  /\ seen      = [c \in Calls |-> {}]

Init == Chain!Init /\ VerifierInit

-----------------------------------------------------------------------------
(* NonceRegistry                                                            *)

\* Randomness: a nonce is never drawn twice, by any verifier.
issue(v, n) ==
  /\ \A w \in Verifiers : issuedAt[w][n] = Undefined
  /\ issued'   = [issued EXCEPT ![v][n] = clock + TTL]
  /\ issuedAt' = [issuedAt EXCEPT ![v][n] = clock]

newSessionNonce(v, n) ==
  /\ issue(v, n)
  /\ UNCHANGED <<chainVars, clock, callVars, seen>>

\* this.issued.get(nonce) !== undefined
Known(v, n) == n \in Nonces /\ issued[v][n] # Undefined

\* Seeded defect: the expiry instant itself counts as expired.
ConsumeExpiresEarly(v, n) == Known(v, n) /\ clock < issued[v][n]

\* Seeded defect: "not past its expiry", which holds of a nonce with none.
ConsumeAcceptsUnknown(v, n) == Known(v, n) => ~ clock > issued[v][n]

\* The value consume returns ...
ConsumeResult(v, n) == Known(v, n) /\ clock <= issued[v][n]

\* Seeded defect: consume that leaves the nonce in the map.
ConsumeKeeps(v, n) == UNCHANGED issued

\* ... and what it does to the map: the entry goes, expired or not.
ConsumeEffect(v, n) ==
  issued' = IF Known(v, n) THEN [issued EXCEPT ![v][n] = Undefined] ELSE issued

-----------------------------------------------------------------------------
(* verifyPresentation                                                       *)

\* Up to the first ledger read; a wrong number of signals is decided at once.
verifyPresentation(c, v, p, expectedPolicy) ==
  /\ pc[c] = "idle"
  /\ request' = [request EXCEPT ![c] =
       [verifier |-> v, presentation |-> p, policy |-> expectedPolicy]]
  /\ pc' = [pc EXCEPT ![c] =
       IF Len(p.signals) # 5 THEN "done" ELSE "resolveDid"]
  /\ seen' = [seen EXCEPT ![c] = {ChainFacts(p.issuerDid)}]
  /\ UNCHANGED <<chainVars, clock, sessionVars, doc, chainRoot, checks>>

\* Seeded defect: the failure is caught too late, and the code goes on.
IssuerLookupGoesOn(c) ==
  /\ pc' = [pc EXCEPT ![c] = "isAccredited"]
  /\ doc' = [doc EXCEPT ![c] = Undefined]
  /\ UNCHANGED <<request, chainRoot, checks>>

\* The catch of the first try block: both issuer checks stay false.
IssuerLookupFails(c) ==
  /\ pc' = [pc EXCEPT ![c] = "getRevRoot"]
  /\ doc' = [doc EXCEPT ![c] = Undefined]
  /\ UNCHANGED <<request, chainRoot, checks>>

resolveDid(c) ==
  /\ pc[c] = "resolveDid"
  /\ \/ /\ records[Issuer(c)].controller # NoAddress
        /\ doc' = [doc EXCEPT ![c] = [pk     |-> records[Issuer(c)].pk,
                                      active |-> records[Issuer(c)].active]]
        /\ pc' = [pc EXCEPT ![c] = "isAccredited"]
        /\ UNCHANGED <<request, chainRoot, checks>>
     \/ IssuerLookupFails(c)     \* "DID not found", or the RPC failed
  /\ UNCHANGED <<chainVars, clock, sessionVars, seen>>

\* Seeded defect: the accreditation replaces the active flag.
IsAccreditedIgnoresDoc(c) ==
  /\ pc[c] = "isAccredited"
  /\ checks' = [checks EXCEPT ![c] = @ \cup
       Passed(accredited[Issuer(c)], "issuerResolvedAndAccredited") \cup
       Passed(issuerKeyHash(doc[c].pk) = sigIssuerKeyHash(c),
              "issuerKeyHashMatches")]
  /\ doc' = [doc EXCEPT ![c] = Undefined]
  /\ pc' = [pc EXCEPT ![c] = "getRevRoot"]
  /\ UNCHANGED <<request, chainRoot, chainVars, clock, sessionVars, seen>>

\* The accreditation is read now; doc was read before, and may be stale.
isAccredited(c) ==
  /\ pc[c] = "isAccredited"
  /\ \/ /\ checks' = [checks EXCEPT ![c] = @ \cup
             Passed(doc[c].active /\ accredited[Issuer(c)],
                    "issuerResolvedAndAccredited") \cup
             Passed(issuerKeyHash(doc[c].pk) = sigIssuerKeyHash(c),
                    "issuerKeyHashMatches")]
        /\ doc' = [doc EXCEPT ![c] = Undefined]
        /\ pc' = [pc EXCEPT ![c] = "getRevRoot"]
        /\ UNCHANGED <<request, chainRoot>>
     \/ IssuerLookupFails(c)
  /\ UNCHANGED <<chainVars, clock, sessionVars, seen>>

\* The node answers with the root of this moment, or the RPC fails.
getRevRoot(c) ==
  /\ pc[c] = "getRevRoot"
  /\ \E answer \in {revRoot[Issuer(c)], Undefined} :
       chainRoot' = [chainRoot EXCEPT ![c] = answer]
  /\ pc' = [pc EXCEPT ![c] = "resumed"]
  /\ UNCHANGED <<chainVars, clock, sessionVars, request, doc, checks, seen>>

\* The synchronous stretch after the last ledger read: root, policy, nonce
\* and statement code.  The nonce is consumed whatever the others say.
checkSession(c) ==
  LET v == request[c].verifier
      policy == request[c].policy
  IN /\ pc[c] = "resumed"
     /\ checks' = [checks EXCEPT ![c] = @ \cup
          Passed(chainRoot[c] # Undefined /\ chainRoot[c] = sigRevRoot(c),
                 "revRootMatches") \cup
          Passed(policyHash(predicateCodeFor(policy), policy.threshold)
                   = sigPolicyHash(c), "policyHashMatches") \cup
          Passed(ConsumeResult(v, sigNonce(c)), "nonceFresh") \cup
          Passed(stmtCodeForDomain(verifierDomainTag(v)) = sigStmtCode(c),
                 "stmtCodeValid")]
     /\ ConsumeEffect(v, sigNonce(c))
     /\ chainRoot' = [chainRoot EXCEPT ![c] = Undefined]
     /\ pc' = [pc EXCEPT ![c] = "groth16.verify"]
     /\ UNCHANGED <<chainVars, clock, issuedAt, request, doc, seen>>

\* Seeded defect: an exception of the prover library is lost.
Groth16NeverThrows(c) ==
  /\ pc[c] = "groth16.verify"
  /\ request[c].presentation.proof # "malformed"
  /\ checks' = [checks EXCEPT ![c] = @ \cup
       Passed(request[c].presentation.proof = "valid", "proofValid")]
  /\ pc' = [pc EXCEPT ![c] = "done"]
  /\ UNCHANGED <<chainVars, clock, sessionVars, request, doc, chainRoot, seen>>

\* Groth16.verify answers, or throws on a malformed proof: then the call
\* rejects without a decision, and its nonce is already gone.
groth16Verify(c) ==
  /\ pc[c] = "groth16.verify"
  /\ \/ /\ request[c].presentation.proof # "malformed"
        /\ checks' = [checks EXCEPT ![c] = @ \cup
             Passed(request[c].presentation.proof = "valid", "proofValid")]
        /\ pc' = [pc EXCEPT ![c] = "done"]
     \/ /\ request[c].presentation.proof = "malformed"
        /\ pc' = [pc EXCEPT ![c] = "threw"]
        /\ UNCHANGED checks
  /\ UNCHANGED <<chainVars, clock, sessionVars, request, doc, chainRoot, seen>>

Resume(c) ==
  \/ resolveDid(c)
  \/ isAccredited(c)
  \/ getRevRoot(c)
  \/ checkSession(c)
  \/ groth16Verify(c)

-----------------------------------------------------------------------------
\* Time passes.
Tick ==
  /\ clock < MaxTime
  /\ clock' = clock + 1
  /\ UNCHANGED <<chainVars, sessionVars, callVars, seen>>

\* Any transaction of anybody, between any two steps of a call.
Transaction ==
  /\ Chain!Next
  /\ Observe
  /\ UNCHANGED <<clock, sessionVars, callVars>>

\* Randomness again: nobody names a nonce that has not been drawn yet.
Unguessed(p) ==
  Len(p.signals) = 5 /\ p.signals[4] \in Nonces =>
    \E v \in Verifiers : issuedAt[v][p.signals[4]] # Undefined

VerifierNext ==
  \/ Tick
  \/ \E v \in Verifiers, n \in Nonces : newSessionNonce(v, n)
  \/ \E c \in Calls, v \in Verifiers, p \in Presentations, q \in Policies :
       Unguessed(p) /\ verifyPresentation(c, v, p, q)
  \/ \E c \in Calls : Resume(c)

Next == VerifierNext \/ Transaction

Spec == Init /\ [][Next]_vars

\* The verifiers beside a chain that is in use already.
VerifierSpec == VerifierInit /\ [][Next]_vars

\* Every awaited promise settles: an RPC answers or errors, a proof check ends.
FairSpec == Spec /\ \A c \in Calls : WF_vars(Resume(c))

-----------------------------------------------------------------------------
Request == [verifier : Verifiers, presentation : Presentations,
            policy : Policies]

Doc == [pk : Keys \cup {NoKey}, active : BOOLEAN]

Times == 0 .. MaxTime

(* Types, and which locals a call holds at which await: a doc only between *)
(* the two issuer reads, a root only until the session checks, a request   *)
(* from the start on.                                                      *)
TypeOK ==
  /\ Chain!TypeOK
  /\ clock \in Times
  /\ issued \in [Verifiers -> [Nonces -> Nat \cup {Undefined}]]
  /\ issuedAt \in [Verifiers -> [Nonces -> Times \cup {Undefined}]]
  /\ pc \in [Calls -> {"idle"} \cup Suspended \cup Settled]
  /\ checks \in [Calls -> SUBSET CheckNames]
  /\ \A c \in Calls :
       /\ request[c] \in IF pc[c] = "idle" THEN {Undefined} ELSE Request
       /\ doc[c] \in IF pc[c] = "isAccredited" THEN Doc ELSE {Undefined}
       /\ chainRoot[c] \in IF pc[c] = "resumed" THEN Roots \cup {Undefined}
                                                ELSE {Undefined}

(* Two calls of one verifier never both accept on the same nonce, however  *)
(* their awaits interleave and whichever presentations they were given:    *)
(* consume reads and deletes in one synchronous stretch.                   *)
NonceAcceptedOnce ==
  \A c1, c2 \in Calls :
    (/\ Accepted(c1) /\ Accepted(c2)
     /\ request[c1].verifier = request[c2].verifier
     /\ sigNonce(c1) = sigNonce(c2)) => c1 = c2

(* No fact an acceptance rests on is older than the call: the issuer was   *)
(* active under the key the proof commits to, was accredited, and had the  *)
(* proof's root on chain, each at some moment while the call was running   *)
(* (not necessarily the same moment: there are three separate reads).      *)
AcceptanceRestsOnCurrentFacts ==
  \A c \in Calls : Accepted(c) =>
    /\ \E f \in seen[c] : f.active /\ issuerKeyHash(f.pk) = sigIssuerKeyHash(c)
    /\ \E f \in seen[c] : f.accredited
    /\ \E f \in seen[c] : f.root = sigRevRoot(c)

\* A call whose nonce check has run.
Consumed(c) == pc[c] = "groth16.verify" \/ pc[c] = "threw" \/ 
               (pc[c] = "done" /\ Len(Signals(c)) = 5)

(* A call finds its nonce fresh exactly when its verifier issued it, at    *)
(* most TTL ago (the expiry instant included), and no earlier call of that *)
(* verifier has named it -- even one that was refused for another reason.  *)
FreshnessIsExact ==
  [][\A c \in Calls : pc[c] = "resumed" /\ pc'[c] # "resumed" =>
       LET v == request[c].verifier
           n == sigNonce(c)
       IN "nonceFresh" \in checks'[c] <=>
            /\ n \in Nonces
            /\ issuedAt[v][n] # Undefined
            /\ clock - issuedAt[v][n] <= TTL
            /\ \A e \in Calls : Consumed(e) /\ sigNonce(e) = n
                                  => request[e].verifier # v]_vars

(* Every call settles: whatever fails on the way, the caller gets a        *)
(* decision or an exception, never a promise that hangs.                   *)
EveryCallSettles ==
  \A c \in Calls : pc[c] # "idle" ~> pc[c] \in Settled

\* How far the nonce n of verifier v has come, in the terms of the promise.
PhaseOf(v, n) ==
  IF \E c \in Calls : /\ Accepted(c)
                      /\ request[c].verifier = v
                      /\ sigNonce(c) = n
    THEN "accepted"
  ELSE IF issued[v][n] # Undefined THEN "open"
  ELSE IF issuedAt[v][n] # Undefined THEN "spent"
  ELSE "unissued"

PromisedPhase == [v \in Verifiers |-> [n \in Nonces |-> PhaseOf(v, n)]]

Promise == INSTANCE SessionPromise WITH phase <- PromisedPhase

(* Issue, spend and accept a nonce, in that order and each at most once:   *)
(* the verifier's behaviours are behaviours of SessionPromise.             *)
KeepsPromise == Promise!Spec
=============================================================================
