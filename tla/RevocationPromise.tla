-------------------------- MODULE RevocationPromise --------------------------
(***************************************************************************)
(* What issuers promise about their revocations, wherever the revoked set  *)
(* is kept and however its root gets on chain: credentials are revoked one *)
(* at a time and for good, and what is on chain is the root of a set that  *)
(* once was the revoked set, and never of an earlier one than before.      *)
(* harness/e2e_core.ts, "Algorithm 4"; the modules Protocol and            *)
(* RevocationService are shown to implement this one.                      *)
(***************************************************************************)
CONSTANTS Issuers, Keys

VARIABLES
  revoked,     \* per issuer, the revoked keys
  sending,     \* the set whose root is on its way to the chain, if any
  published    \* the set whose root is on chain
promised == <<revoked, sending, published>>

Init ==
  /\ revoked \in [Issuers -> SUBSET Keys]
  /\ sending = [i \in Issuers |-> {}]
  /\ published = [i \in Issuers |-> {}]

\* One more key; its root is on its way at once.
Revoke(i, k) ==
  /\ sending[i] = {} /\ k \notin revoked[i]
  /\ revoked' = [revoked EXCEPT ![i] = @ \cup {k}]
  /\ sending' = [sending EXCEPT ![i] = {revoked[i] \cup {k}}]
  /\ UNCHANGED published

\* The root of the set as it is.
Send(i) ==
  /\ sending[i] = {}
  /\ sending' = [sending EXCEPT ![i] = {revoked[i]}]
  /\ UNCHANGED <<revoked, published>>

Confirm(i) ==
  /\ sending[i] # {}
  /\ published' = [published EXCEPT ![i] = UNION sending[i]]
  /\ sending' = [sending EXCEPT ![i] = {}]
  /\ UNCHANGED revoked

\* The publication fails; the key stays revoked.
GiveUp(i) ==
  /\ sending[i] # {}
  /\ sending' = [sending EXCEPT ![i] = {}]
  /\ UNCHANGED <<revoked, published>>

Next ==
  \E i \in Issuers :
    (\E k \in Keys : Revoke(i, k)) \/ Send(i) \/ Confirm(i) \/ GiveUp(i)

Spec == Init /\ [][Next]_promised

-----------------------------------------------------------------------------
(* What is on chain never shrinks: a verifier that was told of a           *)
(* revocation is told of it for ever, and never of one that was not made.  *)
PublishedOnlyGrows ==
  [][\A i \in Issuers : published[i] \subseteq published'[i]
                          /\ published'[i] \subseteq revoked'[i]]_promised
=============================================================================
