----------------------------- MODULE AuditGate -----------------------------
(* harness/circomspect_audit.ts: the gate that runs a static analyser over *)
(* the circuit and fails on findings nobody has triaged.                   *)
(*                                                                         *)
(* The analyser is external: it may fail to run or to compile the circuit, *)
(* and it leaves its report in a file that no step of the gate removes.    *)
(* The circuit may be edited and the gate killed between any two steps.    *)
EXTENDS Naturals, Sequences

CONSTANTS
  Circuits,    \* versions of credential_auth.circom
  Report,      \* what it finds in each: a function to sets of [ours, line, named]
  Mentions,    \* the signals that each line of each version names, likewise
  TRIAGED      \* the signals of TRIAGED_ACCEPTED

VARIABLES
  circuit,    \* the source in circuits/
  sarif,      \* results/circomspect.sarif, <<>> when there is none
  json,       \* results/circomspect.json, likewise
  gate        \* the process: pc, and what it holds in memory
vars == <<circuit, sarif, json, gate>>

None == <<>>
Ended == {"passed", "failed", "threw", "killed"}

Init ==
  /\ circuit \in Circuits
  /\ sarif = None
  /\ json = None
  /\ gate = [pc |-> "killed", analysed |-> None, results |-> {}, findings |-> {}, read |-> circuit]

Edit ==
  /\ circuit' \in Circuits \ {circuit}
  /\ UNCHANGED <<sarif, json, gate>>

\* spawnSync("wsl", ... circomspect --sarif-file): its exit code is ignored.
circomspect ==
  /\ gate.pc \in Ended
  /\ \/ /\ sarif' = <<Report[circuit]>>
        /\ gate' = [gate EXCEPT !.pc = "spawned", !.analysed = <<circuit>>]
     \/ /\ gate' = [gate EXCEPT !.pc = "spawned", !.analysed = None]
        /\ UNCHANGED sarif
  /\ UNCHANGED <<circuit, json>>

readSarif ==
  /\ gate.pc = "spawned"
  /\ gate' = IF sarif = None THEN [gate EXCEPT !.pc = "threw"]
             ELSE [gate EXCEPT !.pc = "parsed", !.results = sarif[1]]
  /\ UNCHANGED <<circuit, sarif, json>>

Signals(f) == f.named \cup Mentions[circuit][f.line]

\* Seeded defect: a finding whose message names no signal is upstream's.
statusLenient(f) ==
  IF ~f.ours \/ f.named = {} THEN "library"
  ELSE IF Signals(f) \cap TRIAGED # {} THEN "triaged-accepted" ELSE "BLOCKING"

\* A finding is triaged by the signals its message names or its line holds.
status(f) ==
  IF ~f.ours THEN "library"
  ELSE IF Signals(f) \cap TRIAGED # {} THEN "triaged-accepted" ELSE "BLOCKING"

\* Each finding with the source line the circuit has now.
classify ==
  /\ gate.pc = "parsed"
  /\ gate' = [gate EXCEPT !.pc = "classified", !.read = circuit,
                !.findings = {[f |-> f, status |-> status(f)] : f \in gate.results}]
  /\ UNCHANGED <<circuit, sarif, json>>

blocking == {x \in gate.findings : x.status = "BLOCKING"}

writeSummary ==
  /\ gate.pc = "classified"
  /\ json' = <<[pass |-> blocking = {}, findings |-> gate.findings,
                analysed |-> gate.analysed, read |-> gate.read]>>
  /\ gate' = [gate EXCEPT !.pc = "written"]
  /\ UNCHANGED <<circuit, sarif>>

exit ==
  /\ gate.pc = "written"
  /\ gate' = [gate EXCEPT !.pc = IF blocking # {} THEN "failed" ELSE "passed"]
  /\ UNCHANGED <<circuit, sarif, json>>

Kill ==
  /\ gate.pc \notin Ended
  /\ gate' = [gate EXCEPT !.pc = "killed"]
  /\ UNCHANGED <<circuit, sarif, json>>

Next == Edit \/ circomspect \/ readSarif \/ classify \/ writeSummary \/ exit \/ Kill

Spec == Init /\ [][Next]_vars

-----------------------------------------------------------------------------
Untriaged(c) ==
  {f \in Report[c] : f.ours /\ (f.named \cup Mentions[c][f.line]) \cap TRIAGED = {}}

(* The gate's memory and the files: what the summary lists comes from the  *)
(* report of one version.                                                  *)
TypeOK ==
  /\ circuit \in Circuits /\ gate.read \in Circuits
  /\ gate.pc \in Ended \cup {"spawned", "parsed", "classified", "written"}
  /\ sarif # None => \E c \in Circuits : sarif[1] = Report[c]
  /\ gate.findings # {} => \E c \in Circuits : {x.f : x \in gate.findings} = Report[c]

(* circomspect_audit.ts:96-100 and 114: when the analyser ran and the      *)
(* circuit was not edited while the gate ran, a summary that says "pass"   *)
(* belongs to a circuit without an untriaged finding in our templates,     *)
(* whatever reports earlier audits left behind.                            *)
PassIsOfTheCircuit ==
  json # None /\ json[1].pass /\ json[1].analysed = <<json[1].read>> =>
    Untriaged(json[1].read) = {}
=============================================================================
