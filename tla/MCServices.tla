----------------------------- MODULE MCServices -----------------------------
(* The parts that talk to a server, a node or a library at run time.  As   *)
(* in MCToolchain, "subject" says which component runs while the others    *)
(* rest in an initial state.                                               *)
EXTENDS BaselineIdP, Integers, Sequences, TLC

CONSTANTS
  TreeCalls, SmtKeys, SMT_DEPTH,            \* RevocationTree
  LedgerCalls,                              \* LedgerClient
  NodeRuns, Deadline,                       \* LocalNode
  VerifierNeeds, GAS_LIMIT, Intrinsic       \* GasMeasurement

(* SMT keys are field elements, read as bits of one length; the limit of a *)
(* transaction covers its intrinsic cost.                                  *)
ASSUME ServicesAssumption ==
  /\ IsFiniteSet(SmtKeys) /\ SmtKeys # {} /\ SmtKeys \subseteq Seq({0, 1})
  /\ \A k, l \in SmtKeys : Len(k) = Len(l)
  /\ SMT_DEPTH \in Nat \ {0}
  /\ Deadline \in Nat
  /\ VerifierNeeds \subseteq Nat /\ VerifierNeeds # {}
  /\ Intrinsic \in Nat /\ GAS_LIMIT \in Nat /\ Intrinsic <= GAS_LIMIT

VARIABLES
  subject,
  lcChain, lcDelta, lcCall,
  lnNode, lnPort, lnRun, lnPeer, lnPolls,
  gmNeed, gmValid, gmSound, gmNode, gmPc, gmLastResult, gmDirect, gmGas,
  rtKeys, rtCall

lcVars == <<lcChain, lcDelta, lcCall>>
lnVars == <<lnNode, lnPort, lnRun, lnPeer, lnPolls>>
gmVars == <<gmNeed, gmValid, gmSound, gmNode, gmPc, gmLastResult, gmDirect, gmGas>>
rtVars == <<rtKeys, rtCall>>

-----------------------------------------------------------------------------
(* Calls of any methods, in flight together or one after the other.        *)
LC == INSTANCE LedgerClient
        WITH Calls <- LedgerCalls,
             chain <- lcChain, delta <- lcDelta, call <- lcCall

(* Runs on one port, any of which may be killed at any point.              *)
LN == INSTANCE LocalNode
        WITH Runs <- NodeRuns,
             node <- lnNode, port <- lnPort, run <- lnRun, peer <- lnPeer,
             polls <- lnPolls

GM == INSTANCE GasMeasurement
        WITH Needs <- VerifierNeeds,
             need <- gmNeed, valid <- gmValid, sound <- gmSound, node <- gmNode,
             pc <- gmPc, lastResult <- gmLastResult, direct <- gmDirect, gas <- gmGas

RT == INSTANCE RevocationTree
        WITH Calls <- TreeCalls, Keys <- SmtKeys,
             keys <- rtKeys, call <- rtCall

-----------------------------------------------------------------------------
(* The values that MCServices.cfg gives.                                   *)

\* Costs below, at and above the limit of a transaction and of the probe.
CostsAroundTheLimit == 1..(GAS_LIMIT + 4)

\* Keys of four bits for a circuit of two levels: paths shorter than, as long
\* as and longer than the circuit.
FourBitKeys == {<<0, 0, 0, 0>>, <<0, 0, 1, 0>>, <<0, 0, 1, 1>>,
                <<0, 1, 1, 0>>, <<1, 0, 0, 0>>}

-----------------------------------------------------------------------------
Subjects == {"baseline", "ledger", "node", "gas", "tree"}

RestNeed == CHOOSE n \in VerifierNeeds : TRUE

ServicesInit ==
  /\ subject \in Subjects
  /\ subject = "gas" \/ (gmNeed = RestNeed /\ gmValid = TRUE /\ gmSound = TRUE)
  /\ subject = "tree" \/ rtKeys = {}
  /\ Init /\ LC!Init /\ LN!Init /\ GM!Init /\ RT!Init

Runs(s, Step) == subject = s /\ Step /\ UNCHANGED subject

Baseline == Runs("baseline", Next)
              /\ UNCHANGED <<lcVars, lnVars, gmVars, rtVars>>
Ledger   == Runs("ledger", LC!Next)
              /\ UNCHANGED <<vars, lnVars, gmVars, rtVars>>
Node     == Runs("node", LN!Next)
              /\ UNCHANGED <<vars, lcVars, gmVars, rtVars>>
Gas      == Runs("gas", GM!Next)
              /\ UNCHANGED <<vars, lcVars, lnVars, rtVars>>
Tree     == Runs("tree", RT!Next)
              /\ UNCHANGED <<vars, lcVars, lnVars, gmVars>>
ServicesNext == Baseline \/ Ledger \/ Node \/ Gas \/ Tree

allVars == <<subject, vars, lcVars, lnVars, gmVars, rtVars>>

\* The fairness of LedgerClient!Spec; the other components are asked for
\* safety only.
ServicesSpec ==
  /\ ServicesInit /\ [][ServicesNext]_allVars
  /\ \A c \in LedgerCalls : WF_lcVars(subject = "ledger" /\ LC!Progress(c))

-----------------------------------------------------------------------------
(* The type invariants of the components.                                  *)
TypesOK ==
  /\ subject \in Subjects
  /\ TypeOK /\ LC!TypeOK /\ LN!TypeOK /\ RT!TypeOK

(* index.ts:108: an awaited publication is on chain or was overtaken only  *)
(* by one that overlapped it or came later.                                *)
SettledIsOnChain == LC!SettledIsOnChain

(* evm.ts:122-126: every call of a Ledger method comes back unless the     *)
(* node rejected one with an earlier nonce.                                *)
CallsComeBack == LC!CallsComeBack

(* e2e_core.ts:247-250, evm.ts:45: a run that ends by itself leaves no     *)
(* node process of its own.                                                *)
NoNodeIsLeft == LN!NoNodeIsLeft

(* measure_gas.ts:101-103: the gas that is published is that of a          *)
(* verification that answered true.                                        *)
PublishedGasVerified == GM!PublishedGasVerified

(* packages/revocation/src/index.ts:53-60: a settled insertion is lost     *)
(* only to one that overlapped it.                                         *)
SettledInsertionIsKept == RT!SettledInsertionIsKept

(* packages/revocation/src/index.ts:63-96: an answer is right for a root   *)
(* the tree had during the call.                                           *)
AnswersAreOfTheCall == RT!AnswersAreOfTheCall

=============================================================================
