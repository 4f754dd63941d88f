--------------------------- MODULE Verifier_proofs ---------------------------
(***************************************************************************)
(* For any number of verifiers, nonces and calls, any TTL and whatever     *)
(* happens on chain.                                                       *)
(*                                                                         *)
(* 1. A verifier accepts a session nonce at most once.  The inductive      *)
(*    invariant follows the nonce, not the decision: a call that found its *)
(*    nonce fresh has removed it from the registry, where it never returns *)
(*    because it was once issued; so the next call that names it finds     *)
(*    nothing.                                                             *)
(* 2. The verifiers implement SessionPromise.                              *)
(* 3. No fact an acceptance rests on is older than the call.  The          *)
(*    observer's record "seen" grows with every transaction; a call in     *)
(*    flight has the present state of its issuer on record, so whatever it *)
(*    reads is on record, and what it keeps stays on record.               *)
(* 4. Which locals a call holds at which await.                            *)
(* 5. When a nonce is found fresh, exactly.                                *)
(*                                                                         *)
(* All but 4 hold from any state of the chain (VerifierSpec), so that a    *)
(* system with verifiers in it can rely on them.                           *)
(***************************************************************************)
EXTENDS Verifier, TLAPS

Fresh(c) == "nonceFresh" \in checks[c]

\* The shapes that the argument needs.
Shapes ==
  /\ issued \in [Verifiers -> [Nonces -> Nat \cup {Undefined}]]
  /\ issuedAt \in [Verifiers -> [Nonces -> Nat \cup {Undefined}]]
  /\ clock \in Nat
  /\ pc \in [Calls -> {"idle"} \cup Suspended \cup Settled]
  /\ checks \in [Calls -> SUBSET CheckNames]
  /\ request \in [Calls -> Request \cup {Undefined}]
  /\ \A c \in Calls : pc[c] # "idle" => request[c] \in Request

\* A nonce in a registry was issued.
OpenWasIssued ==
  \A v \in Verifiers, n \in Nonces :
    issued[v][n] # Undefined => issuedAt[v][n] # Undefined

\* A call whose nonce was fresh is past its session checks and has spent it.
FreshIsSpent ==
  \A c \in Calls : Fresh(c) =>
    /\ pc[c] \in {"groth16.verify", "done", "threw"}
    /\ sigNonce(c) \in Nonces
    /\ issuedAt[request[c].verifier][sigNonce(c)] # Undefined
    /\ issued[request[c].verifier][sigNonce(c)] = Undefined

\* No two calls of one verifier find the same nonce fresh.
FreshOnce ==
  \A c1, c2 \in Calls :
    (/\ Fresh(c1) /\ Fresh(c2)
     /\ request[c1].verifier = request[c2].verifier
     /\ sigNonce(c1) = sigNonce(c2)) => c1 = c2

NonceInv == Shapes /\ OpenWasIssued /\ FreshIsSpent /\ FreshOnce

-----------------------------------------------------------------------------
LEMMA SpecStarts == Spec => VerifierSpec
BY PTL DEF Spec, Init, VerifierSpec

LEMMA InitNonceInv == VerifierInit => NonceInv
BY VerifierAssumption
   DEF VerifierInit, NonceInv, Shapes, OpenWasIssued, FreshIsSpent,
       FreshOnce, Fresh, Suspended, Settled

\* The places behind the session checks.
Checked == {"groth16.verify", "done", "threw"}

\* A step of one call that leaves the registries and the arguments alone and
\* gives the call no fresh nonce keeps the invariant.
LEMMA QuietStep ==
  ASSUME NonceInv, UNCHANGED <<clock, issued, issuedAt, request>>,
         NEW c \in Calls,
         pc[c] # "idle",
         pc' \in [Calls -> {"idle"} \cup Suspended \cup Settled],
         checks' \in [Calls -> SUBSET CheckNames],
         \A e \in Calls \ {c} : pc'[e] = pc[e] /\ checks'[e] = checks[e],
         Fresh(c)' <=> Fresh(c),
         pc[c] \in Checked => pc'[c] \in Checked
  PROVE  NonceInv'
<1> USE DEF NonceInv, Shapes
<1>1. \A e \in Calls : Fresh(e)' <=> Fresh(e)
  BY DEF Fresh
<1>2. \A e \in Calls : sigNonce(e)' = sigNonce(e)
  BY DEF sigNonce, Signals
<1>3. Shapes'
  OBVIOUS
<1>4. FreshIsSpent'
  BY <1>1, <1>2 DEF FreshIsSpent, Checked
<1>5. FreshOnce'
  BY <1>1, <1>2 DEF FreshOnce
<1>6. OpenWasIssued'
  BY DEF OpenWasIssued
<1>7. QED
  BY <1>3, <1>4, <1>5, <1>6

LEMMA IssueKeeps ==
  ASSUME NonceInv, NEW v \in Verifiers, NEW n \in Nonces, newSessionNonce(v, n)
  PROVE  NonceInv'
<1> USE VerifierAssumption DEF NonceInv, Shapes, newSessionNonce, issue, callVars
<1>1. Shapes'
  OBVIOUS
<1>2. OpenWasIssued'
  BY DEF OpenWasIssued
<1>3. ASSUME NEW c \in Calls, Fresh(c)
      PROVE  sigNonce(c) # n
  BY <1>3 DEF FreshIsSpent, Fresh, Request
<1>4. FreshIsSpent'
  BY <1>3 DEF FreshIsSpent, Fresh, sigNonce, Signals
<1>5. FreshOnce'
  BY DEF FreshOnce, Fresh, sigNonce, Signals
<1>6. QED
  BY <1>1, <1>2, <1>4, <1>5

LEMMA StartKeeps ==
  ASSUME NonceInv,
         NEW c \in Calls, NEW v \in Verifiers, NEW p \in Presentations,
         NEW q \in Policies, verifyPresentation(c, v, p, q)
  PROVE  NonceInv'
<1> USE DEF NonceInv, Shapes, verifyPresentation, sessionVars
<1>1. Shapes'
  BY DEF Request, Suspended, Settled
<1>2. ~ Fresh(c)' /\ \A e \in Calls : Fresh(e)' <=> Fresh(e)
  BY DEF FreshIsSpent, Fresh
<1>3. \A e \in Calls : e # c => request'[e] = request[e] /\ pc'[e] = pc[e]
  OBVIOUS
<1>4. FreshIsSpent'
  BY <1>2, <1>3 DEF FreshIsSpent, sigNonce, Signals
<1>5. FreshOnce'
  BY <1>2, <1>3 DEF FreshOnce, sigNonce, Signals
<1>6. OpenWasIssued'
  BY DEF OpenWasIssued
<1>7. QED
  BY <1>1, <1>4, <1>5, <1>6

\* The one step that consumes: the nonce it finds leaves the registry.
LEMMA CheckSessionKeeps ==
  ASSUME NonceInv, NEW c \in Calls, checkSession(c)
  PROVE  NonceInv'
<1> DEFINE v == request[c].verifier
           n == sigNonce(c)
<1> USE DEF NonceInv, Shapes
<1>1. v \in Verifiers /\ request' = request /\ issuedAt' = issuedAt
        /\ clock' = clock
  BY DEF checkSession, Request
<1>2. pc[c] = "resumed" /\ pc' = [pc EXCEPT ![c] = "groth16.verify"]
  BY DEF checkSession
<1>3. \A e \in Calls : sigNonce(e)' = sigNonce(e)
  BY <1>1 DEF sigNonce, Signals
<1>4. ~ Fresh(c)
  BY <1>2 DEF FreshIsSpent
<1>5. /\ checks' \in [Calls -> SUBSET CheckNames]
      /\ Fresh(c)' <=> ConsumeResult(v, n)
      /\ \A e \in Calls : e # c => (Fresh(e)' <=> Fresh(e))
  BY <1>4 DEF checkSession, Fresh, Passed, CheckNames
<1>6. issued' = IF Known(v, n) THEN [issued EXCEPT ![v][n] = Undefined]
                               ELSE issued
  BY DEF checkSession, ConsumeEffect
<1>7. Shapes'
  BY <1>1, <1>2, <1>5, <1>6 DEF Known, Suspended, Settled
<1>8. \A w \in Verifiers, m \in Nonces :
        issued'[w][m] # Undefined => issued'[w][m] = issued[w][m]
  BY <1>1, <1>6 DEF Known
<1>9. OpenWasIssued'
  BY <1>1, <1>8 DEF OpenWasIssued
<1>10. ASSUME ConsumeResult(v, n)
       PROVE  /\ n \in Nonces /\ issued[v][n] # Undefined
              /\ issued'[v][n] = Undefined /\ issuedAt[v][n] # Undefined
  BY <1>1, <1>6, <1>10 DEF ConsumeResult, Known, OpenWasIssued
<1>11. ASSUME NEW e \in Calls, Fresh(e)'
       PROVE  /\ pc'[e] \in {"groth16.verify", "done", "threw"}
              /\ sigNonce(e) \in Nonces
              /\ issuedAt[request[e].verifier][sigNonce(e)] # Undefined
              /\ issued'[request[e].verifier][sigNonce(e)] = Undefined
  <2>1. CASE e = c
    BY <2>1, <1>2, <1>5, <1>10, <1>11
  <2>2. CASE e # c
    <3>1. Fresh(e) /\ pc'[e] = pc[e] /\ request[e] \in Request
      BY <2>2, <1>2, <1>5, <1>11 DEF FreshIsSpent
    <3>2. request[e].verifier \in Verifiers
      BY <3>1 DEF Request
    <3>3. QED
      BY <3>1, <3>2, <1>8 DEF FreshIsSpent
  <2>3. QED
    BY <2>1, <2>2
<1>12. FreshIsSpent'
  BY <1>1, <1>3, <1>11 DEF FreshIsSpent
<1>13. ASSUME NEW e \in Calls, e # c, Fresh(e)', Fresh(c)',
              request[e].verifier = v, sigNonce(e) = n
       PROVE  FALSE
  BY <1>5, <1>10, <1>13 DEF FreshIsSpent
<1>14. FreshOnce'
  BY <1>1, <1>3, <1>5, <1>13 DEF FreshOnce
<1>15. QED
  BY <1>7, <1>9, <1>12, <1>14

LEMMA ResumeKeeps ==
  ASSUME NonceInv, NEW c \in Calls, Resume(c)
  PROVE  NonceInv'
<1> USE DEF NonceInv, Shapes
<1>1. CASE resolveDid(c)
  <2>1. /\ pc[c] = "resolveDid"
        /\ UNCHANGED <<clock, issued, issuedAt, request>>
    BY <1>1 DEF resolveDid, sessionVars, IssuerLookupFails
  <2>2. pc' \in [Calls -> {"idle"} \cup Suspended \cup Settled]
    BY <1>1 DEF resolveDid, Suspended, Settled, IssuerLookupFails
  <2>3. /\ checks' \in [Calls -> SUBSET CheckNames]
        /\ Fresh(c)' <=> Fresh(c)
    BY <1>1 DEF resolveDid, Fresh, IssuerLookupFails
  <2>4. \A e \in Calls \ {c} : pc'[e] = pc[e] /\ checks'[e] = checks[e]
    BY <1>1 DEF resolveDid, IssuerLookupFails
  <2>5. pc[c] \in Checked => pc'[c] \in Checked
    BY <1>1 DEF resolveDid, Checked, IssuerLookupFails
  <2>6. QED
    BY <2>1, <2>2, <2>3, <2>4, <2>5, QuietStep
<1>2. CASE isAccredited(c)
  <2>1. /\ pc[c] = "isAccredited"
        /\ UNCHANGED <<clock, issued, issuedAt, request>>
    BY <1>2 DEF isAccredited, sessionVars, IssuerLookupFails
  <2>2. pc' \in [Calls -> {"idle"} \cup Suspended \cup Settled]
    BY <1>2 DEF isAccredited, Suspended, Settled, IssuerLookupFails
  <2>3. /\ checks' \in [Calls -> SUBSET CheckNames]
        /\ Fresh(c)' <=> Fresh(c)
    BY <1>2 DEF isAccredited, Fresh, IssuerLookupFails, Passed, CheckNames
  <2>4. \A e \in Calls \ {c} : pc'[e] = pc[e] /\ checks'[e] = checks[e]
    BY <1>2 DEF isAccredited, IssuerLookupFails
  <2>5. pc[c] \in Checked => pc'[c] \in Checked
    BY <1>2 DEF isAccredited, Checked, IssuerLookupFails
  <2>6. QED
    BY <2>1, <2>2, <2>3, <2>4, <2>5, QuietStep
<1>3. CASE getRevRoot(c)
  <2>1. /\ pc[c] = "getRevRoot"
        /\ UNCHANGED <<clock, issued, issuedAt, request>>
    BY <1>3 DEF getRevRoot, sessionVars
  <2>2. pc' \in [Calls -> {"idle"} \cup Suspended \cup Settled]
    BY <1>3 DEF getRevRoot, Suspended, Settled
  <2>3. /\ checks' \in [Calls -> SUBSET CheckNames]
        /\ Fresh(c)' <=> Fresh(c)
    BY <1>3 DEF getRevRoot, Fresh
  <2>4. \A e \in Calls \ {c} : pc'[e] = pc[e] /\ checks'[e] = checks[e]
    BY <1>3 DEF getRevRoot
  <2>5. pc[c] \in Checked => pc'[c] \in Checked
    BY <1>3 DEF getRevRoot, Checked
  <2>6. QED
    BY <2>1, <2>2, <2>3, <2>4, <2>5, QuietStep
<1>4. CASE checkSession(c)
  BY <1>4, CheckSessionKeeps
<1>5. CASE groth16Verify(c)
  <2>1. /\ pc[c] = "groth16.verify"
        /\ UNCHANGED <<clock, issued, issuedAt, request>>
    BY <1>5 DEF groth16Verify, sessionVars
  <2>2. pc' \in [Calls -> {"idle"} \cup Suspended \cup Settled]
    BY <1>5 DEF groth16Verify, Suspended, Settled
  <2>3. /\ checks' \in [Calls -> SUBSET CheckNames]
        /\ Fresh(c)' <=> Fresh(c)
    BY <1>5 DEF groth16Verify, Fresh, Passed, CheckNames
  <2>4. \A e \in Calls \ {c} : pc'[e] = pc[e] /\ checks'[e] = checks[e]
    BY <1>5 DEF groth16Verify
  <2>5. pc[c] \in Checked => pc'[c] \in Checked
    BY <1>5 DEF groth16Verify, Checked
  <2>6. QED
    BY <2>1, <2>2, <2>3, <2>4, <2>5, QuietStep
<1>6. QED
  BY <1>1, <1>2, <1>3, <1>4, <1>5 DEF Resume

LEMMA NextNonceInv == NonceInv /\ [Next]_vars => NonceInv'
<1> SUFFICES ASSUME NonceInv, [Next]_vars PROVE NonceInv'
  OBVIOUS
<1>1. ASSUME UNCHANGED <<issued, issuedAt, request, pc, checks>>, clock' \in Nat
      PROVE  NonceInv'
  BY <1>1 DEF NonceInv, Shapes, OpenWasIssued, FreshIsSpent, FreshOnce, Fresh,
              sigNonce, Signals
<1>2. CASE Tick
  BY <1>1, <1>2 DEF Tick, sessionVars, callVars, NonceInv, Shapes
<1>3. CASE Transaction
  BY <1>1, <1>3 DEF Transaction, sessionVars, callVars, NonceInv, Shapes
<1>4. CASE UNCHANGED vars
  BY <1>1, <1>4 DEF vars, sessionVars, callVars, NonceInv, Shapes
<1>5. QED
  BY <1>2, <1>3, <1>4, IssueKeeps, StartKeeps, ResumeKeeps
     DEF Next, VerifierNext

LEMMA NonceInvHolds == VerifierSpec => []NonceInv
BY InitNonceInv, NextNonceInv, PTL DEF VerifierSpec

LEMMA NonceUsedOnceFrom == VerifierSpec => []NonceAcceptedOnce
<1>1. NonceInv => NonceAcceptedOnce
  BY DEF NonceInv, FreshOnce, Fresh, NonceAcceptedOnce, Accepted, CheckNames
<1>2. QED
  BY <1>1, NonceInvHolds, PTL

\* Two calls of one verifier never both accept on the same nonce, whatever the
\* interleaving of their awaits (NonceRegistry.consume, verifyPresentation).
THEOREM NonceUsedOnce == Spec => []NonceAcceptedOnce
BY NonceUsedOnceFrom, SpecStarts, PTL

-----------------------------------------------------------------------------
(* The refinement: every step of the verifiers moves the phase of one nonce *)
(* or of none.                                                              *)

LEMMA PhasesRest ==
  ASSUME \A v \in Verifiers, n \in Nonces : PhaseOf(v, n)' = PhaseOf(v, n)
  PROVE  UNCHANGED PromisedPhase
BY DEF PromisedPhase

LEMMA OnePhaseMoves ==
  ASSUME NEW v \in Verifiers, NEW n \in Nonces, NEW from, NEW to,
         PhaseOf(v, n) = from, PhaseOf(v, n)' = to,
         \A w \in Verifiers, m \in Nonces :
           ~ (w = v /\ m = n) => PhaseOf(w, m)' = PhaseOf(w, m)
  PROVE  Promise!Move(v, n, from, to)
<1>1. PromisedPhase[v][n] = from
  BY DEF PromisedPhase
<1>2. PromisedPhase' = [PromisedPhase EXCEPT ![v][n] = to]
  BY DEF PromisedPhase
<1>3. QED
  BY <1>1, <1>2 DEF Promise!Move

\* An accepted call found its nonce fresh.
LEMMA AcceptedFresh == \A c \in Calls : Accepted(c) => Fresh(c)
BY DEF Accepted, Fresh, CheckNames

\* As long as no call comes to accept, phases follow the registries.
LEMMA PhasesFollowRegistries ==
  ASSUME NonceInv,
         \A c \in Calls : Accepted(c)' <=> Accepted(c),
         \A c \in Calls : Accepted(c) => request'[c] = request[c],
         NEW v \in Verifiers, NEW n \in Nonces,
         issued'[v][n] = issued[v][n], issuedAt'[v][n] = issuedAt[v][n]
  PROVE  PhaseOf(v, n)' = PhaseOf(v, n)
BY DEF PhaseOf, sigNonce, Signals

LEMMA InitRefines == VerifierInit => Promise!Init
BY VerifierAssumption
   DEF VerifierInit, Promise!Init, PromisedPhase, PhaseOf, Accepted

LEMMA IssueRefines ==
  ASSUME NonceInv, NEW v \in Verifiers, NEW n \in Nonces, newSessionNonce(v, n)
  PROVE  Promise!Issue(v, n)
<1> USE VerifierAssumption DEF newSessionNonce, issue, callVars
<1>1. \A c \in Calls : (Accepted(c)' <=> Accepted(c)) /\ request'[c] = request[c]
  BY DEF Accepted
<1>2. ~ \E c \in Calls : Accepted(c) /\ sigNonce(c) = n
  BY AcceptedFresh, SMTT(30) DEF NonceInv, Shapes, FreshIsSpent, Fresh, Request
<1>3. \A w \in Verifiers : PhaseOf(w, n) = "unissued"
  BY <1>2 DEF PhaseOf, NonceInv, OpenWasIssued
<1>4. PhaseOf(v, n)' = "open"
  <2>1. issued'[v][n] # Undefined
    BY DEF NonceInv, Shapes
  <2>2. QED
    BY <1>1, <1>2, <2>1 DEF PhaseOf, sigNonce, Signals
<1>5. ASSUME NEW w \in Verifiers, NEW m \in Nonces, ~ (w = v /\ m = n)
      PROVE  PhaseOf(w, m)' = PhaseOf(w, m)
  <2>1. issued'[w][m] = issued[w][m] /\ issuedAt'[w][m] = issuedAt[w][m]
    BY <1>5 DEF NonceInv, Shapes
  <2>2. QED
    BY <1>1, <2>1, PhasesFollowRegistries
<1>6. Promise!Move(v, n, "unissued", "open")
  BY <1>3, <1>4, <1>5, OnePhaseMoves
<1>7. \A w \in Verifiers : PromisedPhase[w][n] = "unissued"
  BY <1>3 DEF PromisedPhase
<1>8. QED
  BY <1>6, <1>7 DEF Promise!Issue

LEMMA StartRefines ==
  ASSUME NonceInv,
         NEW c \in Calls, NEW v \in Verifiers, NEW p \in Presentations,
         NEW q \in Policies, verifyPresentation(c, v, p, q)
  PROVE  UNCHANGED PromisedPhase
<1> USE DEF verifyPresentation, sessionVars
<1>1. ~ Fresh(c) /\ ~ Fresh(c)' /\ ~ Accepted(c)
  BY AcceptedFresh DEF Fresh, NonceInv, FreshIsSpent
<1>2. ~ Accepted(c)'
  BY <1>1 DEF Accepted, Fresh, CheckNames
<1>3. \A e \in Calls : Accepted(e)' <=> Accepted(e)
  BY <1>1, <1>2 DEF Accepted, NonceInv, Shapes
<1>4. \A e \in Calls : Accepted(e) => request'[e] = request[e]
  BY <1>1 DEF NonceInv, Shapes
<1>5. QED
  BY <1>3, <1>4, PhasesFollowRegistries, PhasesRest

\* Consuming a nonce that is there spends it; any other consume moves nothing.
LEMMA CheckSessionRefines ==
  ASSUME NonceInv, NEW c \in Calls, checkSession(c)
  PROVE  (\E v \in Verifiers, n \in Nonces : Promise!Spend(v, n))
           \/ UNCHANGED PromisedPhase
<1> request[c].verifier \in Verifiers
  BY DEF checkSession, Request, NonceInv, Shapes
<1> PICK v \in Verifiers : v = request[c].verifier
  OBVIOUS
<1> PICK n : n = sigNonce(c)
  OBVIOUS
<1>1. request' = request /\ issuedAt' = issuedAt
  BY DEF checkSession
<1>2. issued' = IF Known(v, n) THEN [issued EXCEPT ![v][n] = Undefined]
                               ELSE issued
  BY DEF checkSession, ConsumeEffect
<1>3. \A e \in Calls : Accepted(e)' <=> Accepted(e)
  BY DEF checkSession, Accepted, NonceInv, Shapes
<1>4. CASE ~ Known(v, n)
  BY <1>1, <1>2, <1>3, <1>4, PhasesFollowRegistries, PhasesRest
<1>5. CASE Known(v, n)
  <2>1. n \in Nonces /\ issued[v][n] # Undefined /\ issuedAt[v][n] # Undefined
    BY <1>1, <1>5 DEF Known, NonceInv, OpenWasIssued
  <2>2. ~ \E e \in Calls : /\ Accepted(e)
                           /\ request[e].verifier = v /\ sigNonce(e) = n
    BY <2>1, AcceptedFresh DEF NonceInv, FreshIsSpent
  <2>3. issued'[v][n] = Undefined
    BY <1>1, <1>2, <1>5, <2>1 DEF NonceInv, Shapes
  <2>4. PhaseOf(v, n) = "open"
    BY <2>1, <2>2 DEF PhaseOf
  <2>5. PhaseOf(v, n)' = "spent"
    BY <1>1, <1>3, <2>1, <2>2, <2>3 DEF PhaseOf, sigNonce, Signals
  <2>6. ASSUME NEW w \in Verifiers, NEW m \in Nonces, ~ (w = v /\ m = n)
        PROVE  PhaseOf(w, m)' = PhaseOf(w, m)
    <3>1. issued'[w][m] = issued[w][m]
      BY <1>1, <1>2, <2>6 DEF NonceInv, Shapes
    <3>2. QED
      BY <1>1, <1>3, <3>1, PhasesFollowRegistries
  <2>7. Promise!Spend(v, n)
    BY <1>1, <2>1, <2>4, <2>5, <2>6, OnePhaseMoves DEF Promise!Spend
  <2>8. QED
    BY <1>1, <2>1, <2>7
<1>6. QED
  BY <1>4, <1>5

\* The decision accepts a nonce that was spent, or moves nothing.
LEMMA DecisionRefines ==
  ASSUME NonceInv, NEW c \in Calls, groth16Verify(c)
  PROVE  (\E v \in Verifiers, n \in Nonces : Promise!Accept(v, n))
           \/ UNCHANGED PromisedPhase
<1> request[c].verifier \in Verifiers
  BY DEF groth16Verify, Request, NonceInv, Shapes
<1> PICK v \in Verifiers : v = request[c].verifier
  OBVIOUS
<1> PICK n : n = sigNonce(c)
  OBVIOUS
<1>1. request' = request /\ issuedAt' = issuedAt /\ issued' = issued
  BY DEF groth16Verify, sessionVars
<1>3. \A e \in Calls \ {c} : Accepted(e)' <=> Accepted(e)
  BY DEF groth16Verify, Accepted, NonceInv, Shapes
<1>4. ~ Accepted(c)
  BY DEF groth16Verify, Accepted
<1>5. CASE ~ Accepted(c)'
  BY <1>1, <1>3, <1>4, <1>5, PhasesFollowRegistries, PhasesRest
<1>6. CASE Accepted(c)'
  <2>1. Fresh(c)
    BY <1>6 DEF groth16Verify, Accepted, Fresh, Passed, CheckNames, NonceInv,
                Shapes
  <2>2. n \in Nonces /\ issued[v][n] = Undefined /\ issuedAt[v][n] # Undefined
    BY <2>1 DEF NonceInv, FreshIsSpent
  <2>3. ~ \E e \in Calls : /\ Accepted(e)
                           /\ request[e].verifier = v /\ sigNonce(e) = n
    BY <1>4, <2>1, AcceptedFresh DEF NonceInv, FreshOnce
  <2>4. PhaseOf(v, n) = "spent"
    BY <2>2, <2>3 DEF PhaseOf
  <2>5. PhaseOf(v, n)' = "accepted"
    BY <1>1, <1>6 DEF PhaseOf, sigNonce, Signals
  <2>6. ASSUME NEW w \in Verifiers, NEW m \in Nonces, ~ (w = v /\ m = n)
        PROVE  PhaseOf(w, m)' = PhaseOf(w, m)
    BY <1>1, <1>3, <2>6 DEF PhaseOf, sigNonce, Signals
  <2>7. Promise!Accept(v, n)
    BY <2>2, <2>4, <2>5, <2>6, OnePhaseMoves DEF Promise!Accept
  <2>8. QED
    BY <2>2, <2>7
<1>7. QED
  BY <1>5, <1>6

LEMMA ResumeRefines ==
  ASSUME NonceInv, NEW c \in Calls, Resume(c)
  PROVE  Promise!Next \/ UNCHANGED PromisedPhase
<1>1. ASSUME UNCHANGED <<request, issued, issuedAt>>,
             \A e \in Calls : Accepted(e)' <=> Accepted(e)
      PROVE  UNCHANGED PromisedPhase
  BY <1>1, PhasesFollowRegistries, PhasesRest
<1>2. CASE resolveDid(c)
  <2>1. \A e \in Calls : Accepted(e)' <=> Accepted(e)
    BY <1>2 DEF resolveDid, IssuerLookupFails, Accepted, NonceInv, Shapes
  <2>2. QED
    BY <1>1, <1>2, <2>1 DEF resolveDid, IssuerLookupFails, sessionVars
<1>3. CASE isAccredited(c)
  <2>1. \A e \in Calls : Accepted(e)' <=> Accepted(e)
    BY <1>3 DEF isAccredited, IssuerLookupFails, Accepted, NonceInv, Shapes
  <2>2. QED
    BY <1>1, <1>3, <2>1 DEF isAccredited, IssuerLookupFails, sessionVars
<1>4. CASE getRevRoot(c)
  <2>1. \A e \in Calls : Accepted(e)' <=> Accepted(e)
    BY <1>4 DEF getRevRoot, Accepted, NonceInv, Shapes
  <2>2. QED
    BY <1>1, <1>4, <2>1 DEF getRevRoot, sessionVars
<1>5. CASE checkSession(c)
  BY <1>5, CheckSessionRefines DEF Promise!Next
<1>6. CASE groth16Verify(c)
  BY <1>6, DecisionRefines DEF Promise!Next
<1>7. QED
  BY <1>2, <1>3, <1>4, <1>5, <1>6 DEF Resume

LEMMA NextRefines ==
  NonceInv /\ [Next]_vars => [Promise!Next]_PromisedPhase
<1> SUFFICES ASSUME NonceInv, [Next]_vars
             PROVE  Promise!Next \/ UNCHANGED PromisedPhase
  OBVIOUS
<1>1. ASSUME UNCHANGED <<issued, issuedAt, request, pc, checks>>
      PROVE  UNCHANGED PromisedPhase
  BY <1>1, PhasesFollowRegistries, PhasesRest DEF Accepted
<1>2. CASE Tick \/ Transaction \/ UNCHANGED vars
  BY <1>1, <1>2 DEF Tick, Transaction, vars, sessionVars, callVars
<1>3. ASSUME NEW v \in Verifiers, NEW n \in Nonces, newSessionNonce(v, n)
      PROVE  Promise!Next
  BY <1>3, IssueRefines DEF Promise!Next
<1>4. QED
  BY <1>2, <1>3, StartRefines, ResumeRefines DEF Next, VerifierNext

LEMMA RefinementFrom == VerifierSpec => KeepsPromise
BY InitRefines, NextRefines, NonceInvHolds, PTL
   DEF VerifierSpec, KeepsPromise, Promise!Spec

\* The verifiers implement SessionPromise: a nonce is issued, spent and
\* accepted in that order, each at most once, wherever calls are suspended.
THEOREM Refinement == Spec => KeepsPromise
BY RefinementFrom, SpecStarts, PTL

-----------------------------------------------------------------------------
(* The facts an acceptance rests on.                                        *)

\* A call in flight has the present state of its issuer on record; what it
\* holds in locals and checks stems from recorded states.
FactsOf(c) ==
  /\ pc[c] \in {"idle", "resolveDid", "isAccredited"} => checks[c] = {}
  /\ InFlight(c) => ChainFacts(Issuer(c)) \in seen[c]
  /\ pc[c] = "isAccredited" =>
       \E f \in seen[c] : f.pk = doc[c].pk /\ f.active = doc[c].active
  /\ pc[c] = "resumed" /\ chainRoot[c] # Undefined =>
       \E f \in seen[c] : f.root = chainRoot[c]
  /\ "issuerResolvedAndAccredited" \in checks[c] =>
       \E f \in seen[c] : f.accredited
  /\ /\ "issuerResolvedAndAccredited" \in checks[c]
     /\ "issuerKeyHashMatches" \in checks[c]
     => \E f \in seen[c] :
          f.active /\ issuerKeyHash(f.pk) = sigIssuerKeyHash(c)
  /\ "revRootMatches" \in checks[c] =>
       \E f \in seen[c] : f.root = sigRevRoot(c)

\* The calls' variables are functions, of whatever values.
FactShapes ==
  /\ pc \in [Calls -> {"idle"} \cup Suspended \cup Settled]
  /\ request   = [c \in Calls |-> request[c]]
  /\ doc       = [c \in Calls |-> doc[c]]
  /\ chainRoot = [c \in Calls |-> chainRoot[c]]
  /\ checks    = [c \in Calls |-> checks[c]]
  /\ seen      = [c \in Calls |-> seen[c]]

FactsInv == FactShapes /\ \A c \in Calls : FactsOf(c)

LEMMA InitFacts == VerifierInit => FactsInv
BY DEF VerifierInit, FactsInv, FactShapes, FactsOf, InFlight, Suspended,
       Settled

\* A call that does not move keeps its facts while the record grows.
LEMMA RestingCall ==
  ASSUME NEW e \in Calls, FactsOf(e),
         pc'[e] = pc[e], request'[e] = request[e], doc'[e] = doc[e],
         chainRoot'[e] = chainRoot[e], checks'[e] = checks[e],
         seen[e] \subseteq seen'[e],
         InFlight(e) => ChainFacts(Issuer(e))' \in seen'[e]
  PROVE  FactsOf(e)'
BY DEF FactsOf, InFlight, Issuer, sigIssuerKeyHash, sigRevRoot, Signals

\* So only the call that moves has to be looked at.
LEMMA OnlyOneCallMoves ==
  ASSUME FactsInv, FactShapes', NEW c \in Calls, FactsOf(c)',
         UNCHANGED chainVars,
         \A e \in Calls \ {c} :
           /\ pc'[e] = pc[e] /\ request'[e] = request[e] /\ doc'[e] = doc[e]
           /\ chainRoot'[e] = chainRoot[e] /\ checks'[e] = checks[e]
           /\ seen'[e] = seen[e]
  PROVE  FactsInv'
<1>1. ASSUME NEW e \in Calls, e # c
      PROVE  FactsOf(e)'
  <2>1. FactsOf(e)
    BY DEF FactsInv
  <2>2. request'[e] = request[e] /\ seen'[e] = seen[e]
    BY <1>1
  <2>3. InFlight(e) => ChainFacts(Issuer(e))' \in seen'[e]
    BY <2>1, <2>2 DEF FactsOf, ChainFacts, Issuer, chainVars
  <2>4. QED
    BY <1>1, <2>1, <2>2, <2>3, RestingCall
<1>2. QED
  BY <1>1 DEF FactsInv

LEMMA StartKeepsFacts ==
  ASSUME FactsInv,
         NEW c \in Calls, NEW v \in Verifiers, NEW p \in Presentations,
         NEW q \in Policies, verifyPresentation(c, v, p, q)
  PROVE  FactsInv'
<1> USE DEF verifyPresentation
<1>1. FactShapes'
  BY DEF FactsInv, FactShapes, Suspended, Settled
<1>2. checks'[c] = {} /\ pc'[c] \in {"done", "resolveDid"}
  BY DEF FactsInv, FactShapes, FactsOf
<1>3. Issuer(c)' = p.issuerDid /\ seen'[c] = {ChainFacts(p.issuerDid)}
  BY DEF FactsInv, FactShapes, Issuer
<1>4. ChainFacts(Issuer(c))' \in seen'[c]
  BY <1>3 DEF ChainFacts, chainVars
<1>5. FactsOf(c)'
  BY <1>2, <1>4 DEF FactsOf
<1>6. QED
  BY <1>1, <1>5, OnlyOneCallMoves DEF FactsInv, FactShapes

\* A step of a call changes its locals, never the record or the chain.
LEMMA StepFrame ==
  ASSUME FactsInv, NEW c \in Calls, Resume(c)
  PROVE  /\ FactShapes'
         /\ UNCHANGED <<chainVars, request, seen>>
         /\ \A e \in Calls \ {c} :
              /\ pc'[e] = pc[e] /\ doc'[e] = doc[e]
              /\ chainRoot'[e] = chainRoot[e] /\ checks'[e] = checks[e]
<1> USE DEF FactsInv, FactShapes, Suspended, Settled
<1>1. CASE resolveDid(c)
  BY <1>1 DEF resolveDid, IssuerLookupFails
<1>2. CASE isAccredited(c)
  BY <1>2 DEF isAccredited, IssuerLookupFails
<1>3. CASE getRevRoot(c)
  BY <1>3 DEF getRevRoot
<1>4. CASE checkSession(c)
  BY <1>4 DEF checkSession
<1>5. CASE groth16Verify(c)
  BY <1>5 DEF groth16Verify
<1>6. QED
  BY <1>1, <1>2, <1>3, <1>4, <1>5 DEF Resume

LEMMA ResumeKeepsFacts ==
  ASSUME FactsInv, NEW c \in Calls, Resume(c)
  PROVE  FactsInv'
<1>1. /\ FactShapes /\ FactShapes' /\ FactsOf(c)
      /\ UNCHANGED <<chainVars, request, seen>>
  BY StepFrame DEF FactsInv
<1> SUFFICES FactsOf(c)'
  BY <1>1, StepFrame, OnlyOneCallMoves
<1>2. /\ sigIssuerKeyHash(c)' = sigIssuerKeyHash(c)
      /\ sigRevRoot(c)' = sigRevRoot(c)
      /\ ChainFacts(Issuer(c))' = ChainFacts(Issuer(c))
  BY <1>1 DEF sigIssuerKeyHash, sigRevRoot, Signals, Issuer, ChainFacts,
              chainVars
<1>3. InFlight(c) /\ ChainFacts(Issuer(c)) \in seen'[c] /\ seen'[c] = seen[c]
  BY <1>1 DEF FactsOf, InFlight, Resume, Suspended, resolveDid, isAccredited,
              getRevRoot, checkSession, groth16Verify
<1>4. ASSUME IssuerLookupFails(c), checks[c] = {}, checks' = checks
      PROVE  FactsOf(c)'
  BY <1>1, <1>2, <1>3, <1>4 DEF FactsOf, FactShapes, IssuerLookupFails
<1>5. CASE resolveDid(c)
  <2>1. checks[c] = {} /\ checks' = checks
    BY <1>1, <1>5 DEF FactsOf, resolveDid, IssuerLookupFails
  <2>2. CASE IssuerLookupFails(c)
    BY <1>4, <2>1, <2>2
  <2>3. CASE ~ IssuerLookupFails(c)
    <3>1. /\ pc'[c] = "isAccredited"
          /\ doc'[c].pk = ChainFacts(Issuer(c)).pk
          /\ doc'[c].active = ChainFacts(Issuer(c)).active
      BY <1>1, <1>5, <2>3 DEF resolveDid, ChainFacts, FactShapes
    <3>2. QED
      BY <1>2, <1>3, <2>1, <3>1 DEF FactsOf
  <2>4. QED
    BY <2>2, <2>3
<1>6. CASE isAccredited(c)
  <2>1. checks[c] = {} /\ pc'[c] = "getRevRoot"
    BY <1>1, <1>6 DEF FactsOf, isAccredited, IssuerLookupFails, FactShapes
  <2>2. CASE checks' = checks
    BY <1>1, <1>2, <1>3, <2>1, <2>2 DEF FactsOf
  <2>3. CASE checks' # checks
    <3>1. checks'[c] =
            Passed(doc[c].active /\ accredited[Issuer(c)],
                   "issuerResolvedAndAccredited") \cup
            Passed(issuerKeyHash(doc[c].pk) = sigIssuerKeyHash(c),
                   "issuerKeyHashMatches")
      BY <1>1, <1>6, <2>1, <2>3 DEF isAccredited, IssuerLookupFails, FactShapes
    <3>2. "issuerResolvedAndAccredited" \in checks'[c] =>
            doc[c].active /\ ChainFacts(Issuer(c)).accredited
      BY <3>1 DEF Passed, ChainFacts
    <3>3. "issuerKeyHashMatches" \in checks'[c] =>
            issuerKeyHash(doc[c].pk) = sigIssuerKeyHash(c)
      BY <3>1 DEF Passed
    <3>4. "revRootMatches" \notin checks'[c]
      BY <3>1 DEF Passed
    <3>5. PICK f \in seen[c] : f.pk = doc[c].pk /\ f.active = doc[c].active
      BY <1>1, <1>6 DEF FactsOf, isAccredited
    <3>6. QED
      BY <1>2, <1>3, <2>1, <3>2, <3>3, <3>4, <3>5 DEF FactsOf
  <2>4. QED
    BY <2>2, <2>3
<1>7. CASE getRevRoot(c)
  <2>1. /\ pc'[c] = "resumed" /\ checks' = checks
        /\ chainRoot'[c] \in {ChainFacts(Issuer(c)).root, Undefined}
    BY <1>1, <1>7 DEF getRevRoot, FactShapes, ChainFacts
  <2>2. QED
    BY <1>1, <1>2, <1>3, <2>1 DEF FactsOf
<1>8. CASE checkSession(c)
  <2>1. pc[c] = "resumed" /\ pc'[c] = "groth16.verify"
    BY <1>1, <1>8 DEF checkSession, FactShapes
  <2>2. /\ "issuerResolvedAndAccredited" \in checks'[c] =>
             "issuerResolvedAndAccredited" \in checks[c]
        /\ "issuerKeyHashMatches" \in checks'[c] =>
             "issuerKeyHashMatches" \in checks[c]
        /\ "revRootMatches" \in checks'[c] =>
             \/ "revRootMatches" \in checks[c]
             \/ chainRoot[c] # Undefined /\ chainRoot[c] = sigRevRoot(c)
    BY <1>1, <1>8 DEF checkSession, FactShapes, Passed
  <2>3. QED
    BY <1>1, <1>2, <1>3, <2>1, <2>2 DEF FactsOf
<1>9. CASE groth16Verify(c)
  <2>1. pc'[c] \in {"done", "threw"}
    BY <1>1, <1>9 DEF groth16Verify, FactShapes
  <2>2. \A name \in checks'[c] : name = "proofValid" \/ name \in checks[c]
    BY <1>1, <1>9 DEF groth16Verify, FactShapes, Passed
  <2>3. QED
    BY <1>1, <1>2, <1>3, <2>1, <2>2 DEF FactsOf
<1>10. QED
  BY <1>5, <1>6, <1>7, <1>8, <1>9 DEF Resume

\* A transaction is entered in the record of every call in flight.
LEMMA TransactionKeepsFacts ==
  ASSUME FactsInv, Transaction
  PROVE  FactsInv'
<1>1. UNCHANGED callVars /\ Observe
  BY DEF Transaction
<1>2. FactShapes'
  BY <1>1 DEF FactsInv, FactShapes, callVars, Observe
<1>3. ASSUME NEW e \in Calls
      PROVE  /\ seen[e] \subseteq seen'[e]
             /\ InFlight(e) => ChainFacts(Issuer(e))' \in seen'[e]
  <2>1. Issuer(e)' = Issuer(e)
    BY <1>1 DEF callVars, Issuer
  <2>2. CASE InFlight(e)
    <3>1. seen'[e] = seen[e] \cup {ChainFacts(d)' : d \in {Issuer(e)}}
      BY <1>1, <2>2 DEF Observe
    <3>2. QED
      BY <2>1, <3>1 DEF ChainFacts
  <2>3. CASE ~ InFlight(e)
    BY <1>1, <2>3 DEF Observe
  <2>4. QED
    BY <2>2, <2>3
<1>4. ASSUME NEW e \in Calls
      PROVE  FactsOf(e)'
  BY <1>1, <1>3, RestingCall DEF FactsInv, callVars
<1>5. QED
  BY <1>2, <1>4 DEF FactsInv

LEMMA NextFacts == FactsInv /\ [Next]_vars => FactsInv'
<1> SUFFICES ASSUME FactsInv, [Next]_vars PROVE FactsInv'
  OBVIOUS
<1>1. ASSUME UNCHANGED <<chainVars, callVars, seen>>
      PROVE  FactsInv'
  BY <1>1, SMTT(30) DEF chainVars, callVars, FactsInv, FactShapes, FactsOf, InFlight,
              ChainFacts, Issuer, sigIssuerKeyHash, sigRevRoot, Signals
<1>2. CASE Tick
  BY <1>1, <1>2 DEF Tick
<1>3. ASSUME NEW v \in Verifiers, NEW n \in Nonces, newSessionNonce(v, n)
      PROVE  FactsInv'
  BY <1>1, <1>3 DEF newSessionNonce
<1>4. CASE UNCHANGED vars
  BY <1>1, <1>4 DEF vars
<1>5. QED
  BY <1>2, <1>3, <1>4, StartKeepsFacts, ResumeKeepsFacts, TransactionKeepsFacts
     DEF Next, VerifierNext

LEMMA NothingStaleFrom == VerifierSpec => []AcceptanceRestsOnCurrentFacts
<1>1. FactsInv => AcceptanceRestsOnCurrentFacts
  BY DEF FactsInv, FactsOf, AcceptanceRestsOnCurrentFacts, Accepted, CheckNames
<1>2. QED
  BY <1>1, InitFacts, NextFacts, PTL DEF VerifierSpec

\* No fact an acceptance rests on is older than the call, although its three
\* ledger reads are separate and transactions fall between them.
THEOREM NothingStale == Spec => []AcceptanceRestsOnCurrentFacts
BY NothingStaleFrom, SpecStarts, PTL

-----------------------------------------------------------------------------
(* Types.                                                                   *)

LEMMA ChainTypes ==
  ASSUME Chain!TypeOK, Chain!Next
  PROVE  Chain!TypeOK'
<1> USE VerifierAssumption
    DEF Chain!TypeOK, Chain!DIDRecord, Chain!Schema, Chain!ZeroRecord,
        Chain!controllerOf
<1>1. ASSUME NEW a \in Accounts, NEW d \in DIDs, NEW pk \in Keys,
             Chain!registerDID(a, d, pk)
      PROVE  Chain!TypeOK'
  BY <1>1 DEF Chain!registerDID
<1>2. ASSUME NEW a \in Accounts, NEW d \in DIDs, Chain!deactivateDID(a, d)
      PROVE  Chain!TypeOK'
  BY <1>2, ZenonT(60) DEF Chain!deactivateDID
<1>3. ASSUME NEW a \in Accounts, NEW d \in DIDs, Chain!accredit(a, d)
      PROVE  Chain!TypeOK'
  BY <1>3 DEF Chain!accredit
<1>4. ASSUME NEW a \in Accounts, NEW d \in DIDs, Chain!revokeAccreditation(a, d)
      PROVE  Chain!TypeOK'
  BY <1>4 DEF Chain!revokeAccreditation
<1>5. ASSUME NEW a \in Accounts, NEW d \in DIDs, NEW root \in Roots,
             Chain!publishRevRoot(a, d, root)
      PROVE  Chain!TypeOK'
  BY <1>5 DEF Chain!publishRevRoot
<1>6. ASSUME NEW s \in SchemaIds, NEW hash \in SchemaHashes,
             Chain!registerSchema(s, hash)
      PROVE  Chain!TypeOK'
  BY <1>6 DEF Chain!registerSchema
<1>7. QED
  BY <1>1, <1>2, <1>3, <1>4, <1>5, <1>6 DEF Chain!Next

\* The part of the types that speaks of one call.
LocalsOf(c) ==
  /\ request[c] \in IF pc[c] = "idle" THEN {Undefined} ELSE Request
  /\ doc[c] \in IF pc[c] = "isAccredited" THEN Doc ELSE {Undefined}
  /\ chainRoot[c] \in IF pc[c] = "resumed" THEN Roots \cup {Undefined}
                                            ELSE {Undefined}

TypeInv ==
  /\ Chain!TypeOK /\ clock \in Times
  /\ issued \in [Verifiers -> [Nonces -> Nat \cup {Undefined}]]
  /\ issuedAt \in [Verifiers -> [Nonces -> Times \cup {Undefined}]]
  /\ FactShapes /\ checks \in [Calls -> SUBSET CheckNames]
  /\ \A c \in Calls : LocalsOf(c)

LEMMA ChainTypesRest ==
  ASSUME Chain!TypeOK, UNCHANGED chainVars
  PROVE  Chain!TypeOK'
BY DEF Chain!TypeOK, Chain!controllerOf, chainVars

LEMMA InitTypes == Init => TypeInv
<1> SUFFICES ASSUME Init PROVE TypeInv
  OBVIOUS
<1>1. Chain!TypeOK
  BY VerifierAssumption
     DEF Init, Chain!Init, Chain!TypeOK, Chain!DIDRecord, Chain!Schema,
         Chain!ZeroRecord, Chain!ZeroSchema, Chain!controllerOf
<1>2. FactShapes
  BY InitFacts DEF Init, FactsInv
<1>3. \A c \in Calls : LocalsOf(c)
  BY DEF Init, VerifierInit, LocalsOf
<1>4. QED
  BY <1>1, <1>2, <1>3, VerifierAssumption DEF Init, VerifierInit, TypeInv, Times

\* What the steps of a call do to its own locals.
LEMMA ResumeTypes ==
  ASSUME TypeInv, FactShapes', NEW c \in Calls, Resume(c)
  PROVE  TypeInv'
<1>1. /\ Chain!TypeOK /\ clock \in Times /\ LocalsOf(c) /\ FactShapes
      /\ checks \in [Calls -> SUBSET CheckNames]
  BY DEF TypeInv
<1>2. pc[c] # "idle" => request[c] \in Request /\ Issuer(c) \in DIDs
  BY <1>1, VerifierAssumption DEF LocalsOf, Request, Issuer
<1>3. /\ UNCHANGED <<chainVars, clock, issuedAt, request>>
      /\ checks' \in [Calls -> SUBSET CheckNames]
      /\ LocalsOf(c)'
  <2>1. CASE resolveDid(c)
    <3>1. pc[c] = "resolveDid" /\ Issuer(c) \in DIDs
      BY <1>2, <2>1 DEF resolveDid
    <3>2. records[Issuer(c)].pk \in Keys \cup {NoKey}
            /\ records[Issuer(c)].active \in BOOLEAN
      BY <1>1, <3>1 DEF Chain!TypeOK, Chain!DIDRecord
    <3>3. QED
      BY <1>1, <2>1, <3>1, <3>2
         DEF resolveDid, IssuerLookupFails, LocalsOf, FactShapes, Doc,
             sessionVars
  <2>2. CASE isAccredited(c)
    BY <1>1, <2>2 DEF isAccredited, IssuerLookupFails, LocalsOf, FactShapes,
       sessionVars, Passed, CheckNames
  <2>3. CASE getRevRoot(c)
    <3>1. pc[c] = "getRevRoot" /\ revRoot[Issuer(c)] \in Roots
      BY <1>1, <1>2, <2>3 DEF getRevRoot, Chain!TypeOK
    <3>2. QED
      BY <1>1, <2>3, <3>1 DEF getRevRoot, LocalsOf, FactShapes, sessionVars
  <2>4. CASE checkSession(c)
    <3>1. checks' \in [Calls -> SUBSET CheckNames]
      BY <1>1, <2>4 DEF checkSession, Passed, CheckNames
    <3>2. /\ UNCHANGED <<chainVars, clock, issuedAt, request, doc>>
          /\ pc[c] = "resumed" /\ pc'[c] = "groth16.verify"
          /\ chainRoot'[c] = Undefined
      BY <1>1, <2>4 DEF checkSession, FactShapes
    <3>3. QED
      BY <1>1, <3>1, <3>2 DEF LocalsOf
  <2>5. CASE groth16Verify(c)
    BY <1>1, <2>5 DEF groth16Verify, LocalsOf, FactShapes, sessionVars, Passed,
       CheckNames
  <2>6. QED
    BY <2>1, <2>2, <2>3, <2>4, <2>5 DEF Resume
<1>4. issued' \in [Verifiers -> [Nonces -> Nat \cup {Undefined}]]
  <2>1. CASE checkSession(c)
    <3>1. request[c].verifier \in Verifiers
      BY <1>2, <2>1 DEF checkSession, Request
    <3>2. ConsumeEffect(request[c].verifier, sigNonce(c))
      BY <2>1 DEF checkSession
    <3>3. QED
      BY <3>1, <3>2 DEF TypeInv, ConsumeEffect, Known
  <2>2. CASE ~checkSession(c)
    BY <2>2 DEF Resume, resolveDid, isAccredited, getRevRoot, groth16Verify,
       sessionVars, TypeInv
  <2>3. QED
    BY <2>1, <2>2
<1>5. \A e \in Calls \ {c} :
        /\ pc'[e] = pc[e] /\ doc'[e] = doc[e] /\ chainRoot'[e] = chainRoot[e]
  BY DEF TypeInv, FactShapes, Resume, resolveDid, isAccredited, getRevRoot,
     checkSession, groth16Verify, IssuerLookupFails
<1>6. \A e \in Calls : LocalsOf(e)'
  BY <1>3, <1>5 DEF TypeInv, LocalsOf
<1>7. Chain!TypeOK'
  BY <1>1, <1>3, ChainTypesRest
<1>8. QED
  BY <1>1, <1>3, <1>4, <1>6, <1>7 DEF TypeInv

LEMMA NextTypes == TypeInv /\ [Next]_vars => TypeInv'
<1> SUFFICES ASSUME TypeInv, [Next]_vars PROVE TypeInv'
  OBVIOUS
<1> USE VerifierAssumption DEF TypeInv
<1>1. ASSUME UNCHANGED <<callVars, sessionVars, seen>>, clock' \in Times,
             Chain!TypeOK'
      PROVE  TypeInv'
  BY <1>1 DEF callVars, sessionVars, FactShapes, LocalsOf
<1>2. CASE Tick
  BY <1>1, <1>2, ChainTypesRest DEF Tick, Times
<1>3. CASE Transaction
  <2>1. FactShapes'
    BY <1>3 DEF FactShapes, Transaction, Observe, callVars
  <2>2. \A c \in Calls : LocalsOf(c)'
    BY <1>3 DEF LocalsOf, Transaction, callVars
  <2>3. QED
    BY <1>3, <2>1, <2>2, ChainTypes DEF Transaction, callVars, sessionVars
<1>4. ASSUME NEW v \in Verifiers, NEW n \in Nonces, newSessionNonce(v, n)
      PROVE  TypeInv'
  <2>1. /\ issued' \in [Verifiers -> [Nonces -> Nat \cup {Undefined}]]
        /\ issuedAt' \in [Verifiers -> [Nonces -> Times \cup {Undefined}]]
    BY <1>4 DEF newSessionNonce, issue, Times
  <2>2. UNCHANGED <<chainVars, clock, callVars, seen>>
    BY <1>4 DEF newSessionNonce
  <2>3. FactShapes' /\ \A c \in Calls : LocalsOf(c)'
    BY <2>2 DEF callVars, FactShapes, LocalsOf
  <2>4. QED
    BY <2>1, <2>2, <2>3, ChainTypesRest DEF callVars
<1>5. ASSUME NEW c \in Calls, NEW v \in Verifiers, NEW p \in Presentations,
             NEW q \in Policies, verifyPresentation(c, v, p, q)
      PROVE  TypeInv'
  <2>1. /\ FactShapes' /\ UNCHANGED <<chainVars, clock, sessionVars, checks>>
        /\ pc' \in [Calls -> {"idle"} \cup Suspended \cup Settled]
    BY <1>5 DEF verifyPresentation, FactShapes, Suspended, Settled
  <2>2. LocalsOf(c)'
    <3>1. /\ pc[c] = "idle" /\ pc'[c] \in {"done", "resolveDid"}
          /\ doc' = doc /\ chainRoot' = chainRoot
      BY <1>5 DEF verifyPresentation, FactShapes
    <3>2. request'[c] = [verifier |-> v, presentation |-> p, policy |-> q]
      BY <1>5 DEF verifyPresentation, FactShapes
    <3>3. doc[c] = Undefined /\ chainRoot[c] = Undefined
      BY <3>1 DEF LocalsOf
    <3>4. /\ pc'[c] \notin {"idle", "isAccredited", "resumed"}
          /\ doc'[c] = Undefined /\ chainRoot'[c] = Undefined
      BY <3>1, <3>3
    <3>5. request'[c] \in Request
      BY <3>2 DEF Request
    <3>6. QED
      BY <3>4, <3>5 DEF LocalsOf
  <2>3. \A e \in Calls \ {c} : LocalsOf(e)'
    BY <1>5 DEF verifyPresentation, LocalsOf
  <2>4. QED
    BY <2>1, <2>2, <2>3, ChainTypesRest DEF sessionVars
<1>6. ASSUME NEW c \in Calls, Resume(c)
      PROVE  TypeInv'
  <2>1. FactShapes'
    BY <1>6 DEF FactShapes, Resume, resolveDid, isAccredited, getRevRoot,
       checkSession, groth16Verify, IssuerLookupFails, Suspended, Settled
  <2>2. QED
    BY <1>6, <2>1, ResumeTypes
<1>7. CASE UNCHANGED vars
  BY <1>1, <1>7, ChainTypesRest DEF vars, callVars, sessionVars
<1>8. QED
  BY <1>2, <1>3, <1>4, <1>5, <1>6, <1>7 DEF Next, VerifierNext

\* Which locals a call holds at which await: a doc only between the two issuer
\* reads, a root only until the session checks, a request from the start on.
THEOREM VerifierTypes == Spec => []TypeOK
<1>1. TypeInv => TypeOK
  BY DEF TypeInv, TypeOK, FactShapes, LocalsOf
<1>2. QED
  BY <1>1, InitTypes, NextTypes, PTL DEF Spec

-----------------------------------------------------------------------------
(* When a nonce is found fresh.                                             *)

\* Every call that runs has five signals; a nonce it names was drawn before.
FiveSignals ==
  \A c \in Calls : pc[c] \in Suspended \cup {"threw"} => Len(Signals(c)) = 5

NamedWasIssued ==
  \A c \in Calls :
    pc[c] # "idle" /\ Len(Signals(c)) = 5 /\ sigNonce(c) \in Nonces =>
      \E w \in Verifiers : issuedAt[w][sigNonce(c)] # Undefined

\* An entry expires TTL after its issue.
Expiry ==
  \A v \in Verifiers, n \in Nonces :
    issued[v][n] # Undefined => issued[v][n] = issuedAt[v][n] + TTL

\* A nonce is out of its registry exactly because a call has named it there.
SpentByACall ==
  \A v \in Verifiers, n \in Nonces :
    issuedAt[v][n] # Undefined /\ issued[v][n] = Undefined =>
      \E e \in Calls :
        Consumed(e) /\ request[e].verifier = v /\ sigNonce(e) = n

ConsumedIsGone ==
  \A e \in Calls : Consumed(e) /\ sigNonce(e) \in Nonces =>
    issued[request[e].verifier][sigNonce(e)] = Undefined

FreshInv ==
  /\ NonceInv /\ FiveSignals /\ NamedWasIssued /\ Expiry
  /\ SpentByACall /\ ConsumedIsGone

LEMMA InitFresh == VerifierInit => FreshInv
BY InitNonceInv
   DEF VerifierInit, FreshInv, FiveSignals, NamedWasIssued, Expiry,
       SpentByACall, ConsumedIsGone, Consumed, Suspended

\* A step that leaves requests and registries alone and consumes nothing.
LEMMA QuietFresh ==
  ASSUME FreshInv, NonceInv', FiveSignals',
         UNCHANGED <<request, issued, issuedAt>>,
         \A e \in Calls : pc'[e] # "idle" => pc[e] # "idle",
         \A e \in Calls : Consumed(e)' <=> Consumed(e)
  PROVE  FreshInv'
<1>1. \A e \in Calls : sigNonce(e)' = sigNonce(e) /\ Signals(e)' = Signals(e)
  BY DEF sigNonce, Signals
<1>2. QED
  BY <1>1 DEF FreshInv, NamedWasIssued, Expiry, SpentByACall, ConsumedIsGone

LEMMA IssueFresh ==
  ASSUME FreshInv, NEW v \in Verifiers, NEW n \in Nonces, newSessionNonce(v, n)
  PROVE  FreshInv'
<1> USE DEF newSessionNonce, issue, callVars
<1>1. NonceInv' /\ Shapes
  BY IssueKeeps DEF FreshInv, NonceInv
<1>2. \A e \in Calls : /\ sigNonce(e)' = sigNonce(e) /\ Signals(e)' = Signals(e)
                       /\ Consumed(e)' <=> Consumed(e)
  BY DEF sigNonce, Signals, Consumed
<1>3. \A e \in Calls : Consumed(e) => sigNonce(e) # n
  BY DEF FreshInv, FiveSignals, NamedWasIssued, Consumed, Suspended
<1>4. /\ \A w \in Verifiers, m \in Nonces : <<w, m>> # <<v, n>> =>
           issued'[w][m] = issued[w][m] /\ issuedAt'[w][m] = issuedAt[w][m]
      /\ issued'[v][n] = clock + TTL /\ issuedAt'[v][n] = clock
      /\ clock \in Nat /\ TTL \in Nat
      /\ clock # Undefined /\ clock + TTL # Undefined
  BY <1>1, VerifierAssumption DEF Shapes
<1>5. Expiry'
  BY <1>4 DEF FreshInv, Expiry
<1>6. SpentByACall'
  BY <1>2, <1>4 DEF FreshInv, SpentByACall
<1>7. ConsumedIsGone'
  <2>1. ASSUME NEW e \in Calls, Consumed(e), sigNonce(e) \in Nonces
        PROVE  issued'[request[e].verifier][sigNonce(e)] = Undefined
    <3>1. request[e].verifier \in Verifiers
      BY <1>1, <2>1 DEF Shapes, Consumed, Request
    <3>2. QED
      BY <1>3, <1>4, <2>1, <3>1 DEF FreshInv, ConsumedIsGone
  <2>2. QED
    BY <1>2, <2>1 DEF ConsumedIsGone
<1>8. FiveSignals' /\ NamedWasIssued'
  BY <1>2, <1>4 DEF FreshInv, FiveSignals, NamedWasIssued
<1>9. QED
  BY <1>1, <1>5, <1>6, <1>7, <1>8 DEF FreshInv

LEMMA StartFresh ==
  ASSUME FreshInv,
         NEW c \in Calls, NEW v \in Verifiers, NEW p \in Presentations,
         NEW q \in Policies, Unguessed(p), verifyPresentation(c, v, p, q)
  PROVE  FreshInv'
<1> USE DEF verifyPresentation, sessionVars
<1>1. NonceInv' /\ Shapes
  BY StartKeeps DEF FreshInv, NonceInv
<1>2. /\ Signals(c)' = p.signals /\ sigNonce(c)' = p.signals[4]
      /\ pc[c] = "idle"
      /\ pc'[c] = IF Len(p.signals) # 5 THEN "done" ELSE "resolveDid"
      /\ issued' = issued /\ issuedAt' = issuedAt
  BY <1>1 DEF Shapes, Signals, sigNonce
<1>3. \A e \in Calls \ {c} :
        /\ pc'[e] = pc[e] /\ request'[e] = request[e]
        /\ sigNonce(e)' = sigNonce(e) /\ Signals(e)' = Signals(e)
  BY <1>1 DEF Shapes, Signals, sigNonce
<1>4. ~ Consumed(c) /\ ~ Consumed(c)'
  BY <1>2 DEF Consumed
<1>5. \A e \in Calls \ {c} : Consumed(e)' <=> Consumed(e)
  BY <1>3 DEF Consumed
<1>6. FiveSignals'
  BY <1>2, <1>3 DEF FreshInv, FiveSignals, Suspended
<1>7. NamedWasIssued'
  BY <1>2, <1>3 DEF FreshInv, NamedWasIssued, Unguessed
<1>8. Expiry' /\ ConsumedIsGone'
  BY <1>2, <1>3, <1>4, <1>5 DEF FreshInv, Expiry, ConsumedIsGone
<1>9. SpentByACall'
  BY <1>2, <1>3, <1>4, <1>5 DEF FreshInv, SpentByACall
<1>10. QED
  BY <1>1, <1>6, <1>7, <1>8, <1>9 DEF FreshInv

\* The step that consumes, and what it finds.
LEMMA CheckFresh ==
  ASSUME FreshInv, NEW c \in Calls, checkSession(c)
  PROVE  /\ FreshInv'
         /\ LET v == request[c].verifier
                n == sigNonce(c)
            IN "nonceFresh" \in checks'[c] <=>
                 /\ n \in Nonces
                 /\ issuedAt[v][n] # Undefined
                 /\ clock - issuedAt[v][n] <= TTL
                 /\ \A e \in Calls : Consumed(e) /\ sigNonce(e) = n
                                       => request[e].verifier # v
<1> DEFINE v == request[c].verifier
           n == sigNonce(c)
<1>1. NonceInv' /\ Shapes /\ OpenWasIssued /\ Len(Signals(c)) = 5
  BY CheckSessionKeeps
     DEF FreshInv, NonceInv, FiveSignals, checkSession, Suspended
<1>2. /\ v \in Verifiers /\ request' = request /\ issuedAt' = issuedAt
      /\ pc[c] = "resumed" /\ pc' = [pc EXCEPT ![c] = "groth16.verify"]
      /\ ConsumeEffect(v, n)
  BY <1>1 DEF checkSession, Shapes, Request
<1>3. \A e \in Calls : sigNonce(e)' = sigNonce(e) /\ Signals(e)' = Signals(e)
  BY <1>2 DEF sigNonce, Signals
<1>4. /\ ~ Consumed(c) /\ Consumed(c)'
      /\ \A e \in Calls \ {c} : Consumed(e)' <=> Consumed(e)
  BY <1>1, <1>2, <1>3 DEF Consumed, Shapes
<1>5. /\ \A w \in Verifiers, m \in Nonces : <<w, m>> # <<v, n>> =>
           issued'[w][m] = issued[w][m]
      /\ n \in Nonces => issued'[v][n] = Undefined
  BY <1>1, <1>2 DEF ConsumeEffect, Known, Shapes
<1>6. FiveSignals' /\ NamedWasIssued'
  BY <1>1, <1>2, <1>3 DEF FreshInv, FiveSignals, NamedWasIssued, Shapes
<1>7. Expiry'
  BY <1>2, <1>5 DEF FreshInv, Expiry
<1>8. SpentByACall'
  BY <1>2, <1>3, <1>4, <1>5 DEF FreshInv, SpentByACall
<1>9. ConsumedIsGone'
  <2>1. ASSUME NEW e \in Calls, Consumed(e)', sigNonce(e) \in Nonces
        PROVE  issued'[request[e].verifier][sigNonce(e)] = Undefined
    <3>1. request[e].verifier \in Verifiers
      BY <1>1, <1>2, <1>4, <2>1 DEF Shapes, Consumed, Request
    <3>2. QED
      BY <1>4, <1>5, <2>1, <3>1 DEF FreshInv, ConsumedIsGone
  <2>2. QED
    BY <1>2, <1>3, <2>1 DEF ConsumedIsGone
<1>10. "nonceFresh" \in checks'[c] <=> ConsumeResult(v, n)
  <2>1. "nonceFresh" \notin checks[c]
    BY <1>2 DEF FreshInv, NonceInv, FreshIsSpent, Fresh
  <2>2. QED
    BY <1>1, <2>1 DEF checkSession, Passed, Shapes
<1>11. ConsumeResult(v, n) <=>
         /\ n \in Nonces
         /\ issuedAt[v][n] # Undefined
         /\ clock - issuedAt[v][n] <= TTL
         /\ issued[v][n] # Undefined
  <2>1. ASSUME n \in Nonces, issued[v][n] # Undefined
        PROVE  /\ issuedAt[v][n] # Undefined
               /\ clock <= issued[v][n] <=> clock - issuedAt[v][n] <= TTL
    <3>1. /\ issuedAt[v][n] \in Nat /\ clock \in Nat /\ TTL \in Nat
          /\ issuedAt[v][n] # Undefined
      BY <1>1, <1>2, <2>1, VerifierAssumption DEF Shapes, OpenWasIssued
    <3>2. issued[v][n] = issuedAt[v][n] + TTL
      BY <1>2, <2>1 DEF FreshInv, Expiry
    <3>3. QED
      BY <3>1, <3>2
  <2>2. QED
    BY <2>1 DEF ConsumeResult, Known
<1>12. ASSUME n \in Nonces, issuedAt[v][n] # Undefined
       PROVE  issued[v][n] # Undefined <=>
                \A e \in Calls : Consumed(e) /\ sigNonce(e) = n
                                  => request[e].verifier # v
  BY <1>2, <1>12 DEF FreshInv, SpentByACall, ConsumedIsGone
<1>13. QED
  BY <1>1, <1>6, <1>7, <1>8, <1>9, <1>10, <1>11, <1>12 DEF FreshInv

LEMMA NextFresh == FreshInv /\ [Next]_vars => FreshInv'
<1> SUFFICES ASSUME FreshInv, [Next]_vars PROVE FreshInv'
  OBVIOUS
<1>1. NonceInv' /\ Shapes
  BY NextNonceInv DEF FreshInv, NonceInv
<1>2. ASSUME UNCHANGED <<request, issued, issuedAt, pc>>
      PROVE  FreshInv'
  BY <1>1, <1>2, QuietFresh
     DEF FreshInv, FiveSignals, Consumed, Signals
<1>3. ASSUME NEW c \in Calls, Resume(c), ~ checkSession(c)
      PROVE  FreshInv'
  <2>1. /\ UNCHANGED <<request, issued, issuedAt>>
        /\ pc[c] \in Suspended
        /\ pc'[c] \in Suspended \cup Settled
        /\ pc[c] = "groth16.verify" <=> pc'[c] \in {"done", "threw"}
        /\ pc'[c] # "groth16.verify"
        /\ \A e \in Calls \ {c} : pc'[e] = pc[e]
    BY <1>1, <1>3
       DEF Resume, resolveDid, isAccredited, getRevRoot, groth16Verify,
           IssuerLookupFails, sessionVars, Shapes, Suspended, Settled
  <2>2. \A e \in Calls : Signals(e)' = Signals(e)
    BY <2>1 DEF Signals
  <2>3. Len(Signals(c)) = 5
    BY <2>1 DEF FreshInv, FiveSignals
  <2>4. FiveSignals'
    BY <2>1, <2>2, <2>3 DEF FreshInv, FiveSignals
  <2>5. \A e \in Calls : Consumed(e)' <=> Consumed(e)
    BY <2>1, <2>2, <2>3 DEF Consumed, Suspended, Settled
  <2>6. QED
    BY <1>1, <2>1, <2>4, <2>5, QuietFresh DEF Suspended
<1>4. CASE Tick \/ Transaction \/ UNCHANGED vars
  BY <1>2, <1>4 DEF Tick, Transaction, vars, sessionVars, callVars
<1>5. QED
  BY <1>3, <1>4, IssueFresh, StartFresh, CheckFresh DEF Next, VerifierNext

LEMMA FreshnessExactFrom == VerifierSpec => FreshnessIsExact
<1> DEFINE Exact(c) ==
      pc[c] = "resumed" /\ pc'[c] # "resumed" =>
        LET v == request[c].verifier
            n == sigNonce(c)
        IN "nonceFresh" \in checks'[c] <=>
             /\ n \in Nonces
             /\ issuedAt[v][n] # Undefined
             /\ clock - issuedAt[v][n] <= TTL
             /\ \A e \in Calls : Consumed(e) /\ sigNonce(e) = n
                                   => request[e].verifier # v
<1>1. ASSUME FreshInv, [Next]_vars, NEW c \in Calls,
             pc[c] = "resumed", pc'[c] # "resumed"
      PROVE  checkSession(c)
  <2>1. Shapes
    BY <1>1 DEF FreshInv, NonceInv
  <2>2. pc' # pc
    BY <1>1
  <2>3. PICK e \in Calls :
          \/ Resume(e)
          \/ \E v \in Verifiers, p \in Presentations, q \in Policies :
               verifyPresentation(e, v, p, q)
    BY <1>1, <2>2
       DEF Next, VerifierNext, Tick, Transaction, newSessionNonce, vars, callVars
  <2>4. e = c
    BY <1>1, <2>1, <2>3
       DEF Resume, resolveDid, isAccredited, getRevRoot, checkSession,
           groth16Verify, IssuerLookupFails, verifyPresentation, Shapes
  <2>5. QED
    BY <1>1, <2>3, <2>4
       DEF Resume, resolveDid, isAccredited, getRevRoot, groth16Verify,
           verifyPresentation
<1>2. FreshInv /\ [Next]_vars => [\A c \in Calls : Exact(c)]_vars
  BY <1>1, CheckFresh
<1>3. QED
  BY <1>2, InitFresh, NextFresh, PTL DEF VerifierSpec, FreshnessIsExact

\* A call finds its nonce fresh exactly when its verifier issued it, at most
\* TTL ago, and no earlier call of that verifier named it, whatever became of
\* that call (NonceRegistry.consume).
THEOREM FreshnessExact == Spec => FreshnessIsExact
BY FreshnessExactFrom, SpecStarts, PTL
=============================================================================
