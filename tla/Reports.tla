------------------------------ MODULE Reports ------------------------------
(* harness/generate_results.ts and harness/e2e_latency.ts: RESULTS.md, the *)
(* latency budget and the divergence table that is mirrored into           *)
(* MANUSCRIPT_RECONCILIATION.md, beside the benchmarks that rewrite the    *)
(* results and an author who edits the reconciliation.                     *)
(*                                                                         *)
(* A claim is [id, table, file]; Delta gives, for each version of the file *)
(* it is measured in, the difference from the paper in per cent, Absent or *)
(* NotANumber.  The reconciliation is a sequence of paragraphs, two of     *)
(* which are the generator's markers.                                      *)
EXTENDS Integers, Sequences, FiniteSets, SequencesExt

CONSTANTS
  Claims, Delta, Versions,   \* CLAIMS, what the benchmarks measure, positive numbers
  Absent, NotANumber,
  Paragraphs,                \* what the author writes
  MaxLen                     \* bound on the length of the reconciliation

THRESHOLD_PCT == 5
Files == {"pqc.json", "zk.json", "e2e_latency.json"} \cup {c.file : c \in Claims}
Measured == Files \ {"e2e_latency.json"}
BEGIN == [kind |-> "BEGIN"]
END == [kind |-> "END"]
Rule == [kind |-> "---"]
Text(p) == [kind |-> "text", text |-> p]
Table(rows) == [kind |-> "table", rows |-> rows]

VARIABLES
  results,   \* the version of each results file, 0 when it is missing
  report,    \* RESULTS.md, <<>> before it is generated
  recon,     \* MANUSCRIPT_RECONCILIATION.md
  gen        \* the generator: pc, and the files it loaded
vars == <<results, report, recon, gen>>

Init ==
  /\ results = [f \in Files |-> 0]
  /\ report = <<>>
  /\ recon \in {<<>>} \cup {<<Text(p)>> : p \in Paragraphs}
  /\ gen = [pc |-> "ended", loaded |-> results]

-----------------------------------------------------------------------------
(* The claims against a set of loaded files                                *)

measured(c, files) == IF files[c.file] = 0 THEN Absent ELSE Delta[c.id][files[c.file]]

Within(c, files) ==
  /\ measured(c, files) \notin {Absent, NotANumber}
  /\ measured(c, files) <= THRESHOLD_PCT /\ -measured(c, files) <= THRESHOLD_PCT

divergences(files) ==
  {c \in Claims : /\ measured(c, files) \notin {Absent, NotANumber}
                  /\ \/ measured(c, files) > THRESHOLD_PCT
                     \/ -measured(c, files) > THRESHOLD_PCT}

-----------------------------------------------------------------------------
(* The files                                                               *)

Bench(f) ==
  /\ f \in Measured
  /\ \E v \in Versions : v # results[f] /\ results' = [results EXCEPT ![f] = v]
  /\ UNCHANGED <<report, recon, gen>>

\* e2e_latency.ts throws without zk.json and pqc.json; the budget it writes
\* has the version of the zk.json it is computed from.
latency ==
  /\ results["zk.json"] # 0 /\ results["pqc.json"] # 0
  /\ results' = [results EXCEPT !["e2e_latency.json"] = results["zk.json"]]
  /\ UNCHANGED <<report, recon, gen>>

\* The loads at the head of the module.
load ==
  /\ gen.pc = "ended"
  /\ gen' = [pc |-> "loaded", loaded |-> results]
  /\ UNCHANGED <<results, report, recon>>

writeResults ==
  /\ gen.pc = "loaded"
  /\ report' = <<[files |-> gen.loaded,
                  table |-> divergences(gen.loaded),
                  within |-> {c \in Claims : Within(c, gen.loaded)}]>>
  /\ gen' = [gen EXCEPT !.pc = "reported"]
  /\ UNCHANGED <<results, recon>>

Block(rows) == <<BEGIN, Table(rows), END>>
First(x) == CHOOSE i \in DOMAIN recon : recon[i] = x /\ \A j \in 1..(i - 1) : recon[j] # x
HasBlock == Contains(recon, BEGIN) /\ Contains(recon, END)

\* Seeded defect: what follows the old block is cut off.
mirrorCuts(rows) ==
  IF HasBlock THEN SubSeq(recon, 1, First(BEGIN) - 1) \o Block(rows)
  ELSE recon \o <<Rule>> \o Block(rows)

\* The block between the markers is replaced, or appended below a rule.
mirror(rows) ==
  IF HasBlock
  THEN SubSeq(recon, 1, First(BEGIN) - 1) \o Block(rows)
         \o SubSeq(recon, First(END) + 1, Len(recon))
  ELSE recon \o <<Rule>> \o Block(rows)

writeMirror ==
  /\ gen.pc = "reported"
  /\ recon' = mirror(divergences(gen.loaded))
  /\ gen' = [gen EXCEPT !.pc = "ended"]
  /\ UNCHANGED <<results, report>>

Kill ==
  /\ gen.pc # "ended"
  /\ gen' = [gen EXCEPT !.pc = "ended"]
  /\ UNCHANGED <<results, report, recon>>

\* The author writes a paragraph before, after or between, never in the block.
Write ==
  /\ Len(recon) < MaxLen
  /\ \E p \in Paragraphs, i \in 1..(Len(recon) + 1) :
       /\ HasBlock => i <= First(BEGIN) \/ i > First(END)
       /\ recon' = InsertAt(recon, i, Text(p))
  /\ UNCHANGED <<results, report, gen>>

\* The author deletes the whole block, not the rule above it.
DeleteBlock ==
  /\ HasBlock /\ Len(recon) < MaxLen
  /\ recon' = SubSeq(recon, 1, First(BEGIN) - 1) \o SubSeq(recon, First(END) + 1, Len(recon))
  /\ UNCHANGED <<results, report, gen>>

Next ==
  \/ \E f \in Files : Bench(f)
  \/ latency \/ load \/ writeResults \/ writeMirror \/ Kill \/ Write \/ DeleteBlock

Spec == Init /\ [][Next]_vars

-----------------------------------------------------------------------------
Count(x) == Cardinality({i \in DOMAIN recon : recon[i] = x})

\* What the author wrote: each paragraph with its number among them.
Curated(s) ==
  LET texts == {i \in DOMAIN s : s[i].kind = "text"} IN
  {<<Cardinality({j \in texts : j <= i}), s[i].text>> : i \in texts}

(* The files' versions, and a reconciliation with at most one block, whose *)
(* markers enclose one table.                                              *)
TypeOK ==
  /\ results \in [Files -> Versions \cup {0}]
  /\ gen.pc \in {"ended", "loaded", "reported"} /\ gen.loaded \in [Files -> Versions \cup {0}]
  /\ Count(BEGIN) <= 1 /\ Count(BEGIN) = Count(END)
  /\ HasBlock => First(END) = First(BEGIN) + 2 /\ recon[First(BEGIN) + 1].kind = "table"

(* generate_results.ts:8-10 and 349-355: the divergence table and the list *)
(* of metrics within the threshold are computed by two conditions; every   *)
(* cell that was measured is in exactly one of the two, none is in either  *)
(* without a measurement.                                                  *)
EveryCellIsListedOnce ==
  report # <<>> =>
    LET r == report[1] IN
      /\ r.table \cap r.within = {}
      /\ r.table \cup r.within =
           {c \in Claims : measured(c, r.files) \notin {Absent, NotANumber}}

(* generate_results.ts:389-396: a regeneration never loses, repeats or     *)
(* reorders what the author wrote, wherever the block stands and whether   *)
(* or not there is one.                                                    *)
CuratedTextIsKept ==
  [][gen.pc = "reported" /\ gen'.pc = "ended" => Curated(recon') = Curated(recon)]_vars
=============================================================================
