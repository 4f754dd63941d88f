----------------------------- MODULE BenchGuard -----------------------------
(* The quiesce guard of the benchmarks (harness/bench_env.ts), the         *)
(* campaign that runs them one after the other (harness/campaign.ts), and  *)
(* the benchmarks as far as the guard sees them: processes that hold a     *)
(* chain of node processes, measure, and write their results files         *)
(* (harness/bench_pqc.ts, packages/baseline/bench_baseline.ts, ...).       *)
(*                                                                         *)
(* The guard takes no lock.  A benchmark is a node process from the moment *)
(* it is launched and then counts the node processes of the machine: what  *)
(* keeps two benchmarks apart is that their chains together exceed what    *)
(* the later one allows, and nothing does when they fit in it.             *)
EXTENDS Naturals, Sequences, FiniteSets, SequencesExt

CONSTANTS Top,        \* commands launched by hand: a function to Kinds
          Chain,      \* node processes of one "npx tsx" chain
          ATTEMPTS    \* bound: looks of one guard, 12 in the code

Kinds == {"pqc", "zk", "baseline", "gas", "campaign"}

VARIABLES
  proc,     \* the launched commands
  results,  \* per results file who wrote it, and whether it says "forced"
  tool      \* a compiler, test runner or prover of somebody else's is running
vars == <<proc, results, tool>>

Tops == DOMAIN Top

STEPS == <<"audit", "pqc", "zk", "baseline", "gas", "negative", "probe",
           "e2e", "latency", "tables">>
allowedNodeCount == [pqc |-> 2, zk |-> 3, baseline |-> 3, gas |-> 4, campaign |-> 4]
Guarded == DOMAIN allowedNodeCount
Files == [pqc |-> <<"pqc.json", "pqc_avx2.json">>, zk |-> <<"zk.json">>,
          baseline |-> <<"baseline.json">>, gas |-> <<"gas.json">>]
ResultFiles == UNION {ToSet(Files[k]) : k \in DOMAIN Files}

Ended == {"idle", "refused", "failed", "complete"}
Idle == [pc |-> "idle", step |-> 0, attempt |-> 1, bad |-> FALSE,
         forced |-> FALSE, files |-> 0]

Init ==
  /\ proc = [t \in Tops |-> Idle]
  /\ results = [f \in ResultFiles |-> <<>>]
  /\ tool = FALSE

At(t, pc) == proc[t].pc = pc
Over(r, s) == [x \in DOMAIN r \cup DOMAIN s |-> IF x \in DOMAIN r THEN r[x] ELSE s[x]]
Become(t, r) == proc' = [proc EXCEPT ![t] = Over(r, @)]
InCampaign(t) == proc[t].step > 0

\* The benchmark that is running under command t, if any.
Bench(t) == IF InCampaign(t) THEN STEPS[proc[t].step] ELSE Top[t]

Working(t) == At(t, "work") /\ Bench(t) \in DOMAIN Files

\* Node processes of t: its chain, the chain of a campaign's step, and the
\* chain of a worker.
Ancestry(t) == Chain * (IF InCampaign(t) THEN 2 ELSE 1)
Worker(t) == IF At(t, "work") /\ Bench(t) \in {"zk", "baseline"} THEN Chain ELSE 0
NodesOf(t) == IF proc[t].pc \in Ended THEN 0 ELSE Ancestry(t) + Worker(t)
nodeCount == Cardinality(UNION {{t} \X (1..NodesOf(t)) : t \in Tops})

Allowed(t) == IF InCampaign(t) THEN 8 ELSE allowedNodeCount[Top[t]]

-----------------------------------------------------------------------------
(* assertQuiesced                                                          *)

Guard == [pc |-> "look", attempt |-> 1, bad |-> FALSE, files |-> 0]

Launch(t) ==
  /\ proc[t].pc \in Ended
  /\ \E forced \in BOOLEAN : Become(t, Over(Guard, [forced |-> forced, step |-> 0]))
  /\ UNCHANGED <<results, tool>>

\* Seeded defect: the node processes are not counted.
winProcessesByName(t) ==
  /\ At(t, "look")
  /\ Become(t, [pc |-> "load",
       bad |-> \/ tool
               \/ \E u \in Tops : At(u, "work") /\ Bench(u) = "gas"])
  /\ UNCHANGED <<results, tool>>

\* Forbidden names (the anvil of the gas measurement is one), node count.
winProcesses(t) ==
  /\ At(t, "look")
  /\ Become(t, [pc |-> "load",
       bad |-> \/ tool
               \/ \E u \in Tops : At(u, "work") /\ Bench(u) = "gas"
               \/ nodeCount > Allowed(t)])
  /\ UNCHANGED <<results, tool>>

\* Load above 35 % on Windows, processes and load inside WSL; a probe that
\* fails passes.
loadChecks(t) ==
  /\ At(t, "load")
  /\ \E busy \in BOOLEAN : Become(t, [pc |-> "decide", bad |-> proc[t].bad \/ busy])
  /\ UNCHANGED <<results, tool>>

decide(t) ==
  /\ At(t, "decide")
  /\ Become(t,
       CASE ~proc[t].bad \/ proc[t].forced ->
              [pc |-> IF Bench(t) = "campaign" THEN "steps" ELSE "work"]
         [] proc[t].bad /\ ~proc[t].forced /\ proc[t].attempt < ATTEMPTS ->
              [pc |-> "look", attempt |-> proc[t].attempt + 1]
         [] OTHER ->
              [pc |-> IF InCampaign(t) THEN "failed" ELSE "refused", step |-> 0])
  /\ UNCHANGED <<results, tool>>

-----------------------------------------------------------------------------
(* The benchmarks                                                          *)

\* The quiesce report goes into the file.
collectControls(t) == [by |-> t, forced |-> proc[t].forced]

\* One results file: pqc.json is written before the AVX2 build is measured.
Publish(t) ==
  /\ Working(t) /\ proc[t].files < Len(Files[Bench(t)])
  /\ results' = [results EXCEPT ![Files[Bench(t)][proc[t].files + 1]] =
                   <<collectControls(t)>>]
  /\ Become(t, [files |-> proc[t].files + 1])
  /\ UNCHANGED tool

WorkDone(t) ==
  /\ At(t, "work")
  /\ Bench(t) \in DOMAIN Files => proc[t].files = Len(Files[Bench(t)])

Finish(t) ==
  /\ ~InCampaign(t) /\ WorkDone(t)
  /\ Become(t, [pc |-> "complete"])
  /\ UNCHANGED <<results, tool>>

-----------------------------------------------------------------------------
(* campaign.ts                                                             *)

Enter(k) == Over([step |-> k],
                 [Guard EXCEPT !.pc = IF STEPS[k] \in Guarded THEN "look" ELSE "work"])

FirstStep(t) ==
  /\ At(t, "steps")
  /\ Become(t, Enter(1))
  /\ UNCHANGED <<results, tool>>

NextStep(t) ==
  /\ InCampaign(t) /\ WorkDone(t)
  /\ Become(t, IF proc[t].step < Len(STEPS) THEN Enter(proc[t].step + 1)
               ELSE [pc |-> "complete", step |-> 0])
  /\ UNCHANGED <<results, tool>>

\* Seeded defect: the exit status of a step is not looked at.
CrashGoesOn(t) ==
  /\ At(t, "work")
  /\ Become(t, IF InCampaign(t) /\ proc[t].step < Len(STEPS)
               THEN Enter(proc[t].step + 1) ELSE [pc |-> "complete", step |-> 0])
  /\ UNCHANGED <<results, tool>>

\* A worker, the node or the database fails.  A campaign ends with its step.
Crash(t) ==
  /\ At(t, "work")
  /\ Become(t, [pc |-> "failed", step |-> 0])
  /\ UNCHANGED <<results, tool>>

-----------------------------------------------------------------------------
\* Somebody starts or stops a compiler, a test run, an editor's server.
Tool ==
  /\ tool' = ~tool
  /\ UNCHANGED <<proc, results>>

Step(t) ==
  \/ winProcesses(t) \/ loadChecks(t) \/ decide(t)
  \/ Publish(t) \/ Finish(t) \/ Crash(t) \/ FirstStep(t) \/ NextStep(t)

Next == Tool \/ \E t \in Tops : Launch(t) \/ Step(t)

Spec == Init /\ [][Next]_vars

-----------------------------------------------------------------------------
(* The types of the commands and of the results.                           *)
TypeOK ==
  /\ proc \in [Tops -> [pc : Ended \cup {"look", "load", "decide",
                                         "steps", "work"},
                        step : 0..Len(STEPS), attempt : 1..ATTEMPTS,
                        bad : BOOLEAN, forced : BOOLEAN, files : 0..2]]
  /\ results \in [ResultFiles ->
       {<<>>} \cup {<<[by |-> t, forced |-> b]>> : t \in Tops, b \in BOOLEAN}]
  /\ tool \in BOOLEAN

(* bench_env.ts:6-7 "this module's guard REFUSES to start when build       *)
(* tooling or another prover/bench is running": two benchmarks measure at  *)
(* the same time only if one of them was forced, and its results say so.   *)
(* Not so when a chain is of two processes, as bench_env.ts:151 has it.    *)
NoOverlap ==
  \A t, u \in Tops : Working(t) /\ Working(u) /\ t # u
    => proc[t].forced \/ proc[u].forced

(* bench_env.ts:151-157, 172: what the guard does keep apart.  Two         *)
(* benchmarks that nobody forced measure at the same time only if the      *)
(* chains above both fit in the budget of one of them: the one that looked *)
(* last, whatever the other was doing then and has done since.             *)
OverlapFitsTheBudget ==
  \A t, u \in Tops :
    /\ Working(t) /\ Working(u) /\ t # u
    /\ ~proc[t].forced /\ ~proc[u].forced
    => \E last \in {t, u} : Ancestry(t) + Ancestry(u) <= Allowed(last)

(* campaign.ts:6-8: a campaign that was not forced and completes leaves    *)
(* results files that are all its own, although the same benchmarks can be *)
(* launched by hand and write the same files; a file somebody forced in    *)
(* between says so.  This needs the chains of three that campaign.ts:35    *)
(* and measure_gas.ts:44 speak of.                                         *)
CampaignResultsAreItsOwn ==
  [][\A t \in Tops :
       /\ Top[t] = "campaign" /\ ~proc[t].forced
       /\ At(t, "work") /\ proc'[t].pc = "complete"
       => \A f \in ResultFiles :
            \E r \in ToSet(results[f]) : r.by = t \/ r.forced]_vars
=============================================================================
