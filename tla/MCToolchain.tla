---------------------------- MODULE MCToolchain ----------------------------
(* The commands of the Makefile that build, benchmark, audit and report.   *)
(* Each component is a system of its own: what it shares with the others   *)
(* through files it models itself, as an environment.  "command" says      *)
(* which of them runs; the others rest in an initial state, so that the    *)
(* run explores the sum of their state spaces and not the product.         *)
EXTENDS TrustedSetup, Integers, FiniteSets, TLC

CONSTANTS
  ProofCalls, ProvingKeys, NoKey,           \* ProverPipeline
  MaxKey, RUNS,                             \* BenchZk
  Launched, Chain, ATTEMPTS,                \* BenchGuard
  Findings, SignalsOn, TriagedSignals,      \* AuditGate
  CellClaims, CellDelta, CellVersions,      \* Reports, the divergence table
  Absent, NotANumber, MaxLen,
  campaign, byHand, clean, edited, upstream, nonceSq, issuerKeyHashSq, other,
  para, paraphrase                          \* the values that the cfg uses

VARIABLES
  command,
  ppKey, ppTmp, ppCall,
  bzZkey, bzVkey, bzPin, bzStaged, bzProof, bzRun, bzZk, bzCool,
  bgProc, bgResults, bgTool,
  agCircuit, agSarif, agJson, agGate,
  rpResults, rpReport, rpRecon, rpGen,
  ltSut, ltProgram, ltPc, ltOk, ltResults

ppVars == <<ppKey, ppTmp, ppCall>>
bzVars == <<bzZkey, bzVkey, bzPin, bzStaged, bzProof, bzRun, bzZk, bzCool>>
bgVars == <<bgProc, bgResults, bgTool>>
agVars == <<agCircuit, agSarif, agJson, agGate>>
rpVars == <<rpResults, rpReport, rpRecon, rpGen>>
ltVars == <<ltSut, ltProgram, ltPc, ltOk, ltResults>>

-----------------------------------------------------------------------------
(* Calls in flight beside a proving key that changes.                      *)
PP == INSTANCE ProverPipeline
        WITH Calls <- ProofCalls, Keys <- ProvingKeys,
             zkey <- ppKey, tmp <- ppTmp, call <- ppCall

(* Key pairs 1..MaxKey, RUNS invocations of each phase.                    *)
BZ == INSTANCE BenchZk
        WITH zkey <- bzZkey, vkey <- bzVkey, pin <- bzPin, staged <- bzStaged,
             proof <- bzProof, run <- bzRun, zk <- bzZk, cool <- bzCool

BG == INSTANCE BenchGuard
        WITH Top <- Launched,
             proc <- bgProc, results <- bgResults, tool <- bgTool

AG == INSTANCE AuditGate
        WITH Circuits <- DOMAIN Findings, Report <- Findings, Mentions <- SignalsOn,
             TRIAGED <- TriagedSignals,
             circuit <- agCircuit, sarif <- agSarif, json <- agJson, gate <- agGate

(* "report": the claims in files that may be missing or rewritten.         *)
(* "mirror": one claim, and an author with two paragraphs.                 *)
RP == INSTANCE Reports
        WITH Claims <- CellClaims, Delta <- CellDelta, Versions <- CellVersions,
             Paragraphs <- {},
             results <- rpResults, report <- rpReport, recon <- rpRecon, gen <- rpGen
RM == INSTANCE Reports
        WITH Claims <- {c \in CellClaims : c.table = "V"}, Delta <- CellDelta,
             Versions <- {2}, Paragraphs <- {para, paraphrase},
             results <- rpResults, report <- rpReport, recon <- rpRecon, gen <- rpGen

(* Every way the system may answer, any sequence of programs.              *)
LT == INSTANCE LifecycleTests
        WITH sut <- ltSut, program <- ltProgram, pc <- ltPc, ok <- ltOk,
             results <- ltResults
Sound == [offCircuitOk |-> TRUE, accepts |-> TRUE, opening |-> "revoked",
          acceptsReplay |-> FALSE, mixedSatisfiable |-> FALSE, staleValid |-> TRUE,
          rootMoves |-> TRUE, acceptsForged |-> TRUE]

(* NoKey is no key; a chain of "npx tsx" is one process or more; a claim    *)
(* is measured in per cent or not at all.                                  *)
ASSUME ToolchainAssumption ==
  /\ ProvingKeys # {} /\ NoKey \notin ProvingKeys
  /\ MaxKey \in Nat \ {0} /\ RUNS \in Nat \ {0}
  /\ Launched = [t \in DOMAIN Launched |-> Launched[t]] /\ IsFiniteSet(DOMAIN Launched)
  /\ \A t \in DOMAIN Launched : Launched[t] \in BG!Kinds
  /\ Chain \in Nat \ {0} /\ ATTEMPTS \in Nat \ {0}
  /\ DOMAIN Findings # {}
  /\ CellVersions \subseteq Nat \ {0}
  /\ Absent \notin Int /\ NotANumber \notin Int
  /\ \A c \in CellClaims, v \in CellVersions :
       CellDelta[c.id][v] \in Int \cup {Absent, NotANumber}

-----------------------------------------------------------------------------
(* The values that MCToolchain.cfg gives.                                  *)

\* A campaign, and the benchmark of the provers launched by hand.
CampaignAndOneByHand == campaign :> "campaign" @@ byHand :> "zk"

\* Three versions of the circuit: clean but for the two triaged squares, one
\* with a line inserted above them and an untriaged finding, and one whose
\* only finding is upstream.
Versions == {clean, edited, upstream}
Ours(l) == [ours |-> TRUE, line |-> l, named |-> {}]
FindingsOf ==
  [c \in Versions |->
    CASE c = clean    -> {Ours(1), Ours(2)}
      [] c = edited   -> {Ours(2), Ours(3), Ours(1)}
      [] c = upstream -> {[ours |-> FALSE, line |-> 3, named |-> {other}]}]
LinesOf ==
  [c \in Versions |->
    CASE c = clean    -> <<{nonceSq}, {issuerKeyHashSq}, {}>>
      [] c = edited   -> <<{other}, {nonceSq}, {issuerKeyHashSq}>>
      [] c = upstream -> <<{}, {}, {other}>>]

\* Two claims whose differences from the paper are on the threshold, above it,
\* below it and no number.
Claims2 == {[id |-> "dilithium-sign", table |-> "V", file |-> "pqc.json"],
            [id |-> "witness-gen", table |-> "VI", file |-> "zk.json"]}
Delta2 == "dilithium-sign" :> <<5, 6>> @@ "witness-gen" :> <<NotANumber, -6>>

-----------------------------------------------------------------------------
Commands == {"setup", "prove", "benchZk", "bench", "audit", "report", "mirror", "try"}

ToolchainInit ==
  /\ command \in Commands
  /\ command = "setup" \/ source = (CHOOSE c \in Circuits : TRUE)
  /\ command = "prove" \/ ppKey = (CHOOSE k \in ProvingKeys : TRUE)
  /\ command = "benchZk" \/ bzPin = 1
  /\ command = "audit" \/ agCircuit = (CHOOSE c \in DOMAIN Findings : TRUE)
  /\ command = "try" \/ ltSut = Sound
  /\ Init /\ PP!Init /\ BZ!Init /\ BG!Init /\ AG!Init /\ LT!Init
  /\ IF command = "mirror" THEN RM!Init ELSE RP!Init

Runs(c, Step) == command = c /\ Step /\ UNCHANGED command

Setup == Runs("setup", Next)
             /\ UNCHANGED <<ppVars, bzVars, bgVars, agVars, rpVars, ltVars>>
Prove == Runs("prove", PP!Next)
             /\ UNCHANGED <<vars, bzVars, bgVars, agVars, rpVars, ltVars>>
BenchProvers == Runs("benchZk", BZ!Next)
             /\ UNCHANGED <<vars, ppVars, bgVars, agVars, rpVars, ltVars>>
BenchGuarded == Runs("bench", BG!Next)
             /\ UNCHANGED <<vars, ppVars, bzVars, agVars, rpVars, ltVars>>
Audit == Runs("audit", AG!Next)
             /\ UNCHANGED <<vars, ppVars, bzVars, bgVars, rpVars, ltVars>>
GenerateResults == Runs("report", RP!Next)
             /\ UNCHANGED <<vars, ppVars, bzVars, bgVars, agVars, ltVars>>
MirrorTable == Runs("mirror", RM!Next)
             /\ UNCHANGED <<vars, ppVars, bzVars, bgVars, agVars, ltVars>>
TryOut == Runs("try", LT!Next)
             /\ UNCHANGED <<vars, ppVars, bzVars, bgVars, agVars, rpVars>>

ToolchainNext ==
  \/ Setup \/ Prove \/ BenchProvers \/ BenchGuarded \/ Audit
  \/ GenerateResults \/ MirrorTable \/ TryOut

allVars == <<command, vars, ppVars, bzVars, bgVars, agVars, rpVars, ltVars>>

ToolchainSpec == ToolchainInit /\ [][ToolchainNext]_allVars

-----------------------------------------------------------------------------
(* The type invariants of the components; TrustedSetup's own           *)
(* properties are checked under their own names.                           *)
TypesOK ==
  /\ command \in Commands
  /\ TypeOK /\ PP!TypeOK /\ BZ!TypeOK /\ BG!TypeOK /\ AG!TypeOK
  /\ IF command = "mirror" THEN RM!TypeOK ELSE RP!TypeOK

(* prove.ts:121, 145, 90-91: no call that ended leaves its witness, and    *)
(* one that succeeded leaves no temporary file at all.                     *)
NothingIsLeft == PP!NothingIsLeft

(* prove.ts:140-142: a key replaced between the two provers of a dual      *)
(* proof is seen, unless it is put back.                                   *)
NativeProverUsedTheReportedKey == PP!NativeProverUsedTheReportedKey

(* bench_zk.ts:235: results are of one proving key, the one they name,     *)
(* unless that key was replaced and put back.                              *)
OnlyPutBackKeysEscape == BZ!OnlyPutBackKeysEscape

(* bench_env.ts:151-157, 172: two benchmarks that nobody forced measure    *)
(* together only if their chains fit in the budget of one of them.         *)
OverlapFitsTheBudget == BG!OverlapFitsTheBudget

(* campaign.ts:6-8: a campaign that completes leaves its own results.      *)
CampaignResultsAreItsOwn == BG!CampaignResultsAreItsOwn

(* circomspect_audit.ts:96-100: a passing summary is of a circuit without  *)
(* untriaged findings.                                                     *)
PassIsOfTheCircuit == AG!PassIsOfTheCircuit

(* generate_results.ts:389-396: a regeneration keeps the author's text.    *)
CuratedTextIsKept == RM!CuratedTextIsKept

(* generate_results.ts:8-10, 349-355: a measured cell is in the divergence *)
(* table or in the list of those within the threshold, and not in both.    *)
EveryCellIsListedOnce == command = "report" => RP!EveryCellIsListedOnce

(* negative_test.ts:24-29, e2e_core.ts:183, 206, 234: a recorded pass is   *)
(* evidence of what its program is about.                                  *)
PassedVerdictsAreEvidence == LT!PassedVerdictsAreEvidence
=============================================================================
