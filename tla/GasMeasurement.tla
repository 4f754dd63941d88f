--------------------------- MODULE GasMeasurement ---------------------------
(* onchain/measure_gas.ts: the generated Solidity verifier is deployed     *)
(* behind a probe contract, called, paid for in two real transactions, and *)
(* the gas of the first is published.                                      *)
(*                                                                         *)
(* The verifier needs some amount of gas to verify; with less its pairing  *)
(* precompile fails, and it answers false instead of reverting: the        *)
(* transaction succeeds all the same (measure_gas.ts:98-103).  The probe   *)
(* can hand the verifier at most 63/64 of what it has left itself.         *)
EXTENDS Integers

CONSTANTS GAS_LIMIT,    \* explicit limit of the transactions, in thousands
          Needs,        \* what the verifier may need, in thousands
          Intrinsic     \* cost of a transaction before its first instruction

VARIABLES
  need,       \* gas the verification of the proof takes
  valid,      \* whether the proof verifies at all under this verifier
  sound,      \* whether the generated verifier refuses a corrupted signal
  node,       \* the local node: "none", "up", "stopped"
  pc,
  lastResult, \* storage of the probe contract
  direct,     \* gasUsed of the direct transaction (0: none yet)
  gas         \* results/gas.json
vars == <<need, valid, sound, node, pc, lastResult, direct, gas>>

Init ==
  /\ need \in Needs /\ valid \in BOOLEAN /\ sound \in BOOLEAN
  /\ node = "none" /\ pc = "prove"
  /\ lastResult = FALSE /\ direct = 0 /\ gas = <<>>

\* The verifier's answer and its cost when it is given so much gas.
verifyProof(given) ==
  [ok |-> valid /\ given >= need, used |-> IF given < need THEN given ELSE need]

directLimit == GAS_LIMIT

ForDirect == directLimit - Intrinsic
ForProbe == ((GAS_LIMIT - Intrinsic) * 63) \div 64

At(p) == pc = p
Goto(p) == pc' = p
constant == <<need, valid, sound>>

\* The finally stops the node on every way out of the try.
Exit(p) == Goto(p) /\ node' = "stopped"

-----------------------------------------------------------------------------
\* Set-up file, guard and proof come before the node is started.
proveFixture ==
  /\ At("prove")
  /\ Goto("start") \/ Goto("failed")
  /\ UNCHANGED <<constant, node, lastResult, direct, gas>>

startAnvil ==
  /\ At("start")
  /\ \/ Goto("deploy") /\ node' = "up"
     \/ Exit("failed")
  /\ UNCHANGED <<constant, lastResult, direct, gas>>

\* Compilation, deployment of the verifier, then of the probe.
deploy ==
  /\ At("deploy")
  /\ \/ Goto("static") /\ UNCHANGED node
     \/ Exit("failed")
  /\ UNCHANGED <<constant, lastResult, direct, gas>>

\* A call without a transaction has the gas of a whole block.
staticCall ==
  /\ At("static")
  /\ IF valid THEN Goto("corrupted") /\ UNCHANGED node ELSE Exit("failed")
  /\ UNCHANGED <<constant, lastResult, direct, gas>>

\* The negative control: one public signal is changed.
corruptedCall ==
  /\ At("corrupted")
  /\ IF sound THEN Goto("direct") /\ UNCHANGED node ELSE Exit("failed")
  /\ UNCHANGED <<constant, lastResult, direct, gas>>

\* Only the status of the receipt is looked at: the answer is lost.
directTx ==
  /\ At("direct")
  /\ direct' = Intrinsic + verifyProof(ForDirect).used
  /\ Goto("probe")
  /\ UNCHANGED <<constant, node, lastResult, gas>>

probeTx ==
  /\ At("probe")
  /\ lastResult' = verifyProof(ForProbe).ok
  /\ Goto("confirm")
  /\ UNCHANGED <<constant, node, direct, gas>>

\* Seeded defect: the stored verdict is not read back.
confirmNot ==
  /\ At("confirm")
  /\ Goto("publish") /\ UNCHANGED node
  /\ UNCHANGED <<constant, lastResult, direct, gas>>

confirm ==
  /\ At("confirm")
  /\ IF lastResult THEN Goto("publish") /\ UNCHANGED node ELSE Exit("failed")
  /\ UNCHANGED <<constant, lastResult, direct, gas>>

publish ==
  /\ At("publish")
  /\ gas' = <<direct>>
  /\ Exit("done")
  /\ UNCHANGED <<constant, lastResult, direct>>

Next == proveFixture \/ startAnvil \/ deploy \/ staticCall \/ corruptedCall
          \/ directTx \/ probeTx \/ confirm \/ publish

Spec == Init /\ [][Next]_vars

-----------------------------------------------------------------------------
(* measure_gas.ts:101-103 "read receipt.gasUsed from runs whose            *)
(* verification result is confirmed true".  The direct transaction's own   *)
(* answer is never seen; that the probe verified with less gas confirms it. *)
PublishedGasVerified ==
  gas # <<>> => gas[1] = Intrinsic + need /\ valid /\ sound
=============================================================================
