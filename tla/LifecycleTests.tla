--------------------------- MODULE LifecycleTests ---------------------------
(* The programs that try the system out and record a verdict in results/:  *)
(* harness/e2e.ts and cli/demo.ts over harness/e2e_core.ts,                *)
(* harness/negative_test.ts and harness/malicious_wallet_probe.ts.         *)
(*                                                                         *)
(* The system under test is whatever it is: "sut" says how it would answer *)
(* each program's questions.  The module asks what a recorded verdict is   *)
(* worth.  Any awaited step can fail for a reason of its own (WSL, node,   *)
(* disk), and any program can be killed.                                   *)
EXTENDS Naturals, Sequences, FiniteSets

Programs == {"e2e", "demo", "negative", "probe"}

\* Steps of runLifecycle, and the steps before and after those whose answer
\* is looked at, taken together.
STEPS == <<"setUp", "offCircuit", "prove", "acceptRapidsnark", "proveAgain",
           "acceptSnarkjs", "revoke", "refuse", "rejectReplay">>

VARIABLES
  sut,      \* how the system answers
  program,  \* the program under way
  pc,       \* its position: a step of the life cycle, or a path
  ok,       \* the steps recorded so far, and the paths that succeeded
  results   \* the verdict in each program's results file
vars == <<sut, program, pc, ok, results>>

Systems ==
  [offCircuitOk : BOOLEAN,     \* walletCheckCredential accepts a good credential
   accepts : BOOLEAN,          \* the verifier accepts a good proof
   opening : {"revoked", "otherError", "opens"},  \* after the revocation
   acceptsReplay : BOOLEAN,    \* ... and accepts a proof made before it
   mixedSatisfiable : BOOLEAN, \* stale opening, current root: a witness exists
   staleValid : BOOLEAN,       \* stale opening, stale root: the proof is valid
   rootMoves : BOOLEAN,        \* a revocation changes the root
   acceptsForged : BOOLEAN]

None == "none"
Init ==
  /\ sut \in Systems
  /\ program = None /\ pc = 0 /\ ok = {}
  /\ results = [p \in Programs |-> None]

\* A verdict goes to the results file, and decides the exit status.
Leave(wrote) ==
  /\ results' = IF wrote = None THEN results ELSE [results EXCEPT ![program] = wrote]
  /\ program' = None /\ pc' = 0 /\ ok' = {}
  /\ UNCHANGED sut

\* main().catch: nothing is written.
Throw == Leave(None)

Start ==
  /\ program = None
  /\ program' \in Programs
  /\ pc' = 1 /\ ok' = {}
  /\ UNCHANGED <<sut, results>>

Kill == program # None /\ Leave(None)

-----------------------------------------------------------------------------
(* runLifecycle                                                            *)

\* What the code of a step demands of the answer.  In "refuse" the error
\* that reports an opening is thrown inside the try, and its own message
\* contains the word that the catch takes for a refusal.
AnswerHolds(s) ==
  CASE s = "offCircuit" -> sut.offCircuitOk
    [] s \in {"acceptRapidsnark", "acceptSnarkjs"} -> sut.accepts
    [] s = "refuse" -> sut.opening # "otherError"
    [] s = "rejectReplay" -> ~sut.acceptsReplay
    [] OTHER -> TRUE

InLifecycle == program \in {"e2e", "demo"}

record ==
  /\ InLifecycle /\ pc =< Len(STEPS)
  /\ AnswerHolds(STEPS[pc])
  /\ ok' = ok \cup {STEPS[pc]} /\ pc' = pc + 1
  /\ UNCHANGED <<sut, program, results>>

\* The step is recorded as failed and the error thrown on: no file.
recordFailure ==
  /\ InLifecycle /\ pc =< Len(STEPS)
  /\ Throw

\* ok is "every step is ok", which it is whenever control gets here.
writeLifecycle ==
  /\ InLifecycle /\ pc > Len(STEPS)
  /\ Leave(IF Cardinality(ok) = Len(STEPS) THEN "pass" ELSE "fail")

-----------------------------------------------------------------------------
(* negative_test.ts                                                        *)

Path(p) == program = "negative" /\ pc = p
Taken(p, holds) ==
  /\ pc' = p + 1
  /\ ok' = IF holds THEN ok \cup {p} ELSE ok
  /\ UNCHANGED <<sut, program, results>>

\* Revoke, and ask for an opening.
pathA == Path(1) /\ (Taken(1, sut.opening = "revoked") \/ Throw)

\* Any failure of the witness calculation counts as a violated constraint.
pathB ==
  /\ Path(2)
  /\ \/ Taken(2, ~sut.mixedSatisfiable)
     \/ Taken(2, TRUE)

\* Seeded defect: a proof that is not valid at all counts as rejected.
pathCRejectsAll == Path(3) /\ (Taken(3, ~sut.staleValid \/ sut.rootMoves) \/ Throw)

pathC == Path(3) /\ (Taken(3, sut.staleValid /\ sut.rootMoves) \/ Throw)

writeNegative ==
  /\ Path(4)
  /\ Leave(IF ok = {1, 2, 3} THEN "pass" ELSE "fail")

-----------------------------------------------------------------------------
(* malicious_wallet_probe.ts: it passes when the forged proof is accepted  *)

forgeAndPresent ==
  /\ program = "probe" /\ pc = 1
  /\ Taken(1, sut.acceptsForged) \/ Throw

writeProbe ==
  /\ program = "probe" /\ pc = 2
  /\ Leave(IF ok = {1} THEN "pass" ELSE "fail")

Next ==
  \/ Start \/ Kill
  \/ record \/ recordFailure \/ writeLifecycle
  \/ pathA \/ pathB \/ pathC \/ writeNegative
  \/ forgeAndPresent \/ writeProbe

Spec == Init /\ [][Next]_vars

-----------------------------------------------------------------------------
(* What a recorded pass is worth, whatever else happened before it in the  *)
(* same results directory.  negative_test.ts:24-29: the tree refused, and  *)
(* the stale proof was a valid one that only the root gave away.  (Path B  *)
(* can pass because the witness program failed for another reason.)        *)
(* e2e_core.ts:183, 206, 234: the verifier accepted the good proofs and refused  *)
(* the replay.                                                             *)
PassedVerdictsAreEvidence ==
  /\ results["negative"] = "pass" =>
       sut.opening = "revoked" /\ sut.staleValid /\ sut.rootMoves
  /\ \A p \in {"e2e", "demo"} : results[p] = "pass" =>
       sut.offCircuitOk /\ sut.accepts /\ ~sut.acceptsReplay

(* e2e_core.ts:216-220 "attempt to build a fresh proof - REFUSED (no       *)
(* non-membership opening exists)": a life cycle that passed has seen the  *)
(* tree refuse.  The step cannot fail: the error it throws when the tree   *)
(* does open says "revoked" as well, and is taken for the refusal.         *)
RefusalIsTested ==
  \A p \in {"e2e", "demo"} : results[p] = "pass" => sut.opening = "revoked"
=============================================================================
