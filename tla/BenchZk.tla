------------------------------- MODULE BenchZk -------------------------------
(* harness/bench_zk.ts with its worker bench_zk_worker.ts, and             *)
(* harness/bench_rapidsnark_cool.ts: the benchmarks of the two provers,    *)
(* beside whatever replaces the two key files.                             *)
(*                                                                         *)
(* A key pair is a number.  setup/groth16_setup.ts writes the proving key  *)
(* and, some steps later or never, the verification key exported from it.  *)
(* Set-up is deterministic and both files are committed, so a later set-up *)
(* or checkout may also bring an earlier key back.  Proofs verify exactly  *)
(* under the verification key of their proving key.  rapidsnark works on a *)
(* copy staged inside WSL, snarkJS on the live file.                       *)
EXTENDS Naturals, Sequences

CONSTANTS MaxKey,     \* bound: key pairs there are
          RUNS        \* independent invocations per phase, at least 1

VARIABLES
  zkey, vkey, pin,    \* ZKEY_FILE, VKEY_FILE and the pin (0: not pinned)
  staged, proof,      \* bench.zkey and proof.json in WSL (0: no file)
  run,                \* the benchmark under way; history: "undone", its key
                      \* was put back into a file that had another one
  zk, cool            \* results/zk.json and results/zk_rapidsnark_cool.json
vars == <<zkey, vkey, pin, staged, proof, run, zk, cool>>

Keys == 1..MaxKey
NoRun == [pc |-> "idle", i |-> 1, key |-> 0, used |-> {}, sj |-> 0, undone |-> FALSE]

Init ==
  /\ zkey = 1 /\ vkey = 1 /\ pin \in {0, 1}
  /\ staged = 0 /\ proof = 0
  /\ run = NoRun
  /\ zk = <<>> /\ cool = <<>>

files == <<zkey, vkey, pin>>
At(pc) == run.pc = pc
Fail == run' = NoRun

-----------------------------------------------------------------------------
(* groth16_setup.ts and checkouts beside the benchmarks                    *)

PutBack(back) == run' = [run EXCEPT !.undone = @ \/ (~At("idle") /\ back)]

NewZkey ==
  /\ zkey' \in Keys \ {zkey}
  /\ PutBack(zkey' = run.key)
  /\ UNCHANGED <<vkey, pin, staged, proof, zk, cool>>

\* Exported from the proving key, or restored beside another one.
ExportVkey ==
  /\ vkey' \in Keys \ {vkey}
  /\ PutBack(vkey' = run.key /\ zkey # run.key)
  /\ UNCHANGED <<zkey, pin, staged, proof, zk, cool>>

Pin ==
  /\ pin # zkey
  /\ pin' \in {0, zkey}
  /\ UNCHANGED <<zkey, vkey, staged, proof, run, zk, cool>>

-----------------------------------------------------------------------------
(* bench_zk.ts                                                             *)

checkPin ==
  /\ At("idle")
  /\ pin \in {0, zkey}
  /\ run' = [NoRun EXCEPT !.pc = "stage", !.key = zkey]
  /\ UNCHANGED <<files, staged, proof, zk, cool>>

\* The copy is compared with the recorded hash; a copy that differs stays.
stage ==
  /\ At("stage")
  /\ staged' = zkey
  /\ IF zkey = run.key THEN run' = [run EXCEPT !.pc = "witness"] ELSE Fail
  /\ UNCHANGED <<files, proof, zk, cool>>

Phases == <<"witness", "snarkjs-cold", "snarkjs-amortized", "verify",
            "rapidsnark-cold", "rapidsnark-amortized", "check">>
PhaseAfter(p) ==
  Phases[1 + CHOOSE k \in 1..(Len(Phases) - 1) : Phases[k] = p]

\* One invocation of a phase is over: the next invocation, or phase.
Advance(p, used) ==
  run' = [run EXCEPT !.used = @ \cup used,
                     !.pc = IF run.i = RUNS THEN PhaseAfter(p) ELSE p,
                     !.i = IF @ = RUNS THEN 1 ELSE @ + 1]

\* The cold worker opens the live key for each of its proofs, the amortized
\* one reads it once.
runWorker ==
  /\ \/ At("witness") /\ Advance("witness", {})
     \/ At("snarkjs-cold") /\ \/ Advance("snarkjs-cold", {zkey})
                              \/ run' = [run EXCEPT !.used = @ \cup {zkey}]
     \/ At("snarkjs-amortized") /\ Advance("snarkjs-amortized", {zkey})
  /\ UNCHANGED <<files, staged, proof, zk, cool>>

\* The verify worker proves with the live key, then reads the live vkey.
verifyProve ==
  /\ At("verify")
  /\ run' = [run EXCEPT !.pc = "verifyCheck", !.sj = zkey]
  /\ UNCHANGED <<files, staged, proof, zk, cool>>

verifyCheck ==
  /\ At("verifyCheck")
  /\ IF run.sj = vkey THEN Advance("verify", {run.sj}) ELSE Fail
  /\ UNCHANGED <<files, staged, proof, zk, cool>>

runRapidsnark ==
  /\ \/ At("rapidsnark-cold") /\ Advance("rapidsnark-cold", {staged})
     \/ At("rapidsnark-amortized") /\ Advance("rapidsnark-amortized", {staged})
  /\ proof' = staged
  /\ UNCHANGED <<files, staged, zk, cool>>

\* Seeded defect: a proof that does not verify is reported, not refused.
checkProofsReports ==
  /\ At("check")
  /\ run' = [run EXCEPT !.pc = "publish"]
  /\ UNCHANGED <<files, staged, proof, zk, cool>>

\* The proofs rapidsnark left must verify; what snarkJS proves now is only
\* recorded.
checkProofs ==
  /\ At("check")
  /\ IF proof = vkey THEN run' = [run EXCEPT !.pc = "publish"] ELSE Fail
  /\ UNCHANGED <<files, staged, proof, zk, cool>>

publish ==
  /\ At("publish")
  /\ zk' = <<[key |-> run.key, used |-> run.used, undone |-> run.undone]>>
  /\ run' = NoRun
  /\ UNCHANGED <<files, staged, proof, cool>>

-----------------------------------------------------------------------------
(* bench_rapidsnark_cool.ts                                                *)

coolStart ==
  /\ At("idle") /\ staged = zkey
  /\ run' = [NoRun EXCEPT !.pc = "coolRuns", !.key = zkey]
  /\ UNCHANGED <<files, staged, proof, zk, cool>>

coolRuns ==
  /\ At("coolRuns")
  /\ proof' = staged
  /\ run' = IF run.i = RUNS THEN [run EXCEPT !.pc = "coolCheck"]
                            ELSE [run EXCEPT !.i = @ + 1]
  /\ UNCHANGED <<files, staged, zk, cool>>

coolPublish ==
  /\ At("coolCheck")
  /\ cool' = IF proof = vkey THEN <<[key |-> run.key, used |-> {proof}]>> ELSE cool
  /\ run' = NoRun
  /\ UNCHANGED <<files, staged, proof, zk>>

\* Any command of a benchmark may fail: uncaught, the process exits.
Abort ==
  /\ ~At("idle")
  /\ Fail
  /\ UNCHANGED <<files, staged, proof, zk, cool>>

Bench == \/ checkPin \/ stage \/ runWorker \/ verifyProve \/ verifyCheck
         \/ runRapidsnark \/ checkProofs \/ publish
         \/ coolStart \/ coolRuns \/ coolPublish \/ Abort

Next == Bench \/ NewZkey \/ ExportVkey \/ Pin

Spec == Init /\ [][Next]_vars

-----------------------------------------------------------------------------
(* The types of the files, the run and the results.                        *)
TypeOK ==
  /\ zkey \in Keys /\ vkey \in Keys /\ pin \in {0} \cup Keys
  /\ staged \in {0} \cup Keys /\ proof \in {0} \cup Keys
  /\ run \in [pc : {"idle", "stage", "verifyCheck", "publish", "coolRuns", "coolCheck"}
                     \cup {Phases[k] : k \in 1..Len(Phases)},
              i : 1..RUNS, key : {0} \cup Keys, used : SUBSET Keys,
              sj : {0} \cup Keys, undone : BOOLEAN]
  /\ zk \in {<<>>} \cup {<<r>> : r \in [key : Keys, used : SUBSET Keys, undone : BOOLEAN]}
  /\ cool \in {<<>>} \cup {<<r>> : r \in [key : Keys, used : SUBSET Keys]}

(* bench_zk.ts:28, 235 "bytesIdenticalAcrossProvers": a key that replaces  *)
(* the recorded one during the hour of phases, and stays, never reaches    *)
(* zk.json: the verify phase fails or, once the verification key has       *)
(* followed, the check of the rapidsnark proofs.  Results of another key   *)
(* than the one they name are published only if that key was put back      *)
(* while the benchmark ran, into either file.  The cool run reports the    *)
(* key that its staged copy really is, whatever happens to the live one.   *)
OnlyPutBackKeysEscape ==
  /\ \A k \in DOMAIN zk : zk[k].used = {zk[k].key} \/ zk[k].undone
  /\ \A k \in DOMAIN cool : cool[k].used = {cool[k].key}
=============================================================================
