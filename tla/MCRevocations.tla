---------------------------- MODULE MCRevocations ----------------------------
(* Revocation at two grains, both of which keep RevocationPromise: the     *)
(* whole life cycle, in which a revocation is one step, and the calls of   *)
(* the tree and of the ledger client that it is made of.  "grain" says     *)
(* which of them runs; the other rests in an initial state.                *)
EXTENDS MCProtocol

CONSTANTS TreeCalls, SmtKeys, SMT_DEPTH, LedgerCalls   \* RevocationService

VARIABLES
  grain,
  rsKeys, rsTreeCall, rsChain, rsDelta, rsLedgerCall, rsIssuer, rsCarried

rsVars == <<rsKeys, rsTreeCall, rsChain, rsDelta, rsLedgerCall, rsIssuer, rsCarried>>

RS == INSTANCE RevocationService
        WITH Keys <- SmtKeys, keys <- rsKeys, treeCall <- rsTreeCall,
             chain <- rsChain, delta <- rsDelta, ledgerCall <- rsLedgerCall,
             issuer <- rsIssuer, carried <- rsCarried

\* Keys that share their first bit: the first insertion moves the path of
\* the other key.
SiblingKeys == {<<0, 0>>, <<0, 1>>}

\* Calls and transactions are interchangeable, as sessions and nonces are: the
\* cfg names tree calls like sessions and ledger calls like nonces, so that
\* MCProtocol's Symmetry is theirs too.

-----------------------------------------------------------------------------
RevocationsInit ==
  /\ grain \in {"lifeCycle", "calls"}
  /\ Init /\ RS!Init
  /\ grain = "calls" \/ rsKeys = {}

LifeCycle == grain = "lifeCycle" /\ Next /\ UNCHANGED <<grain, rsVars>>
CallByCall == grain = "calls" /\ RS!Next /\ UNCHANGED <<grain, vars>>

RevocationsSpec ==
  RevocationsInit /\ [][LifeCycle \/ CallByCall]_<<grain, vars, rsVars>>

-----------------------------------------------------------------------------
(* e2e_core.ts:212-213: the awaited steps of tree and ledger client keep   *)
(* RevocationPromise, beside look-ups and other transactions.              *)
KeepsRevocationPromise == RS!KeepsRevocationPromise
=============================================================================
