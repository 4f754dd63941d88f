---------------------------- MODULE TrustedSetup ----------------------------
(* The trusted set-up: setup/download_ptau.ts, setup/build_circuit.ts and  *)
(* setup/groth16_setup.ts as commands that fill a directory of artifacts,  *)
(* and setup/pins.ts, the trust-on-first-use record of their hashes.       *)
(*                                                                         *)
(* A file is its content and a hash identifies it.  A proving key is the   *)
(* pair of the powers of tau and the constraint system it was made from    *)
(* (the beacon is a fixed constant, groth16_setup.ts:22); the verification *)
(* key and the Solidity verifier are named by the key they were exported   *)
(* from.  One command runs at a time, as `make setup` runs them, and it can *)
(* be killed between any two of its file operations.                       *)
EXTENDS Naturals, Functions

CONSTANTS Circuits,   \* versions of circuits/credential_auth.circom
          Served      \* files the ceremony's server may send

NoFile == <<>>
PinNames == {"ptau", "zkey", "vkey"}
NoPins == [n \in {} |-> NoFile]
Keys == Served \X Circuits

VARIABLES
  source,   \* the circuit's source in the working tree
  disk,     \* the artifacts
  pins,     \* setup/pins.json: its entries, and whether it still parses
  run       \* where the command is, and the hash it is about to pin
vars == <<source, disk, pins, run>>

Idle == [pc |-> "idle", name |-> "ptau", hash |-> NoFile, seen |-> NoPins]

Init ==
  /\ source \in Circuits
  /\ disk = [ptau |-> NoFile, part |-> NoFile, r1cs |-> NoFile, info |-> NoFile,
             zkey0 |-> NoFile, zkey |-> NoFile, vkey |-> NoFile, sol |-> NoFile]
  /\ pins = [parses |-> TRUE, of |-> NoPins]
  /\ run = Idle

At(pc) == run.pc = pc
Goto(pc) == run' = [run EXCEPT !.pc = pc]
Write(f, content) == disk' = [disk EXCEPT ![f] = <<content>>]
Drop(f) == disk' = [disk EXCEPT ![f] = NoFile]

\* An uncaught throw: main().catch prints it and exits with status 1.
Throw == Goto("failed") /\ UNCHANGED <<source, disk, pins>>

Ended == run.pc \in {"idle", "done", "verified", "failed"}

-----------------------------------------------------------------------------
(* pins.ts                                                                 *)

Pinned(n) == n \in DOMAIN pins.of

readPins ==
  run' = [run EXCEPT !.seen = pins.of, !.pc = "compare"]

PinRead ==
  /\ At("pin")
  /\ \/ ~pins.parses /\ Throw
     \/ pins.parses /\ readPins /\ UNCHANGED <<source, disk, pins>>

AfterPin == CASE run.name = "ptau" -> "verified"
                 [] run.name = "zkey" -> "hashVkey"
                 [] run.name = "vkey" -> "done"

\* Seeded defect: a mismatch re-pins instead of throwing.
PinCompareRepins ==
  /\ At("compare")
  /\ LET n == run.name  seen == run.seen IN
     IF n \in DOMAIN seen /\ seen[n] = run.hash
     THEN Goto(AfterPin) ELSE Goto("write")
  /\ UNCHANGED <<source, disk, pins>>

\* The pin is compared in the copy that was read.
PinCompare ==
  /\ At("compare")
  /\ LET n == run.name  seen == run.seen IN
     CASE n \notin DOMAIN seen         -> Goto("write")
       [] n \in DOMAIN seen /\ seen[n] = run.hash -> Goto(AfterPin)
       [] OTHER                        -> Goto("failed")
  /\ UNCHANGED <<source, disk, pins>>

\* writePins rewrites the whole file from that copy; killed half way it
\* leaves a file that no longer parses.
PinWrite ==
  /\ At("write")
  /\ pins' = [parses |-> TRUE,
              of |-> [n \in DOMAIN run.seen \cup {run.name} |->
                        IF n = run.name THEN run.hash ELSE run.seen[n]]]
  /\ Goto(AfterPin)
  /\ UNCHANGED <<source, disk>>

PinTorn ==
  /\ At("write")
  /\ pins' = [pins EXCEPT !.parses = FALSE]
  /\ run' = Idle
  /\ UNCHANGED <<source, disk>>

verifyOrPin(n, f) ==
  run' = [run EXCEPT !.name = n, !.hash = disk[f], !.pc = "pin"]

-----------------------------------------------------------------------------
(* download_ptau.ts, which is also "npm run verify-pins"                   *)

StartDownload ==
  /\ Ended
  /\ Goto(IF disk.ptau = NoFile THEN "fetch" ELSE "hashPtau")
  /\ UNCHANGED <<source, disk, pins>>

Fetch ==
  /\ At("fetch")
  /\ \/ Throw
     \/ \E s \in Served : Write("part", s)
        /\ Goto("rename") /\ UNCHANGED <<source, pins>>

Rename ==
  /\ At("rename")
  /\ disk' = [disk EXCEPT !.ptau = disk.part, !.part = NoFile]
  /\ Goto("hashPtau")
  /\ UNCHANGED <<source, pins>>

HashPtau ==
  /\ At("hashPtau")
  /\ verifyOrPin("ptau", "ptau")
  /\ UNCHANGED <<source, disk, pins>>

-----------------------------------------------------------------------------
(* build_circuit.ts                                                        *)

StartBuild ==
  /\ Ended
  /\ \/ Throw
     \/ Write("r1cs", source) /\ Goto("info") /\ UNCHANGED <<source, pins>>

\* r1cs.info reads the file just written and circuit_info.json records it.
WriteInfo ==
  /\ At("info")
  /\ disk' = [disk EXCEPT !.info = disk.r1cs]
  /\ Goto("built")
  /\ UNCHANGED <<source, pins>>

-----------------------------------------------------------------------------
(* groth16_setup.ts                                                        *)

PtauIsPinned ==
  /\ pins.parses /\ Pinned("ptau") /\ disk.ptau = pins.of["ptau"]

\* Seeded defect: the ptau is used without its pin being compared.
StartGroth16Unchecked ==
  /\ Ended \/ At("built")
  /\ IF disk.r1cs # NoFile /\ disk.ptau # NoFile
     THEN Goto("newZKey") ELSE Goto("failed")
  /\ UNCHANGED <<source, disk, pins>>

StartGroth16 ==
  /\ Ended \/ At("built")
  /\ IF disk.r1cs # NoFile /\ disk.ptau # NoFile /\ PtauIsPinned
     THEN Goto("newZKey") ELSE Goto("failed")
  /\ UNCHANGED <<source, disk, pins>>

\* Seeded defect: newZKey is called with its two files in the other order.
NewZKeySwapped ==
  /\ At("newZKey")
  /\ Write("zkey0", <<disk.r1cs[1], disk.ptau[1]>>)
  /\ Goto("beacon")
  /\ UNCHANGED <<source, pins>>

NewZKey ==
  /\ At("newZKey")
  /\ Write("zkey0", <<disk.ptau[1], disk.r1cs[1]>>)
  /\ Goto("beacon")
  /\ UNCHANGED <<source, pins>>

\* The pinned proving key is overwritten here, before any comparison.
Beacon ==
  /\ At("beacon")
  /\ disk' = [disk EXCEPT !.zkey = disk.zkey0]
  /\ Goto("rmZkey0") /\ UNCHANGED <<source, pins>>

RmZkey0 ==
  /\ At("rmZkey0")
  /\ Drop("zkey0") /\ Goto("vkey") /\ UNCHANGED <<source, pins>>

ExportVkey ==
  /\ At("vkey")
  /\ disk' = [disk EXCEPT !.vkey = disk.zkey]
  /\ Goto("sol")
  /\ UNCHANGED <<source, pins>>

ExportSolidity ==
  /\ At("sol")
  /\ disk' = [disk EXCEPT !.sol = disk.zkey]
  /\ Goto("hashZkey")
  /\ UNCHANGED <<source, pins>>

HashZkey ==
  /\ At("hashZkey")
  /\ verifyOrPin("zkey", "zkey")
  /\ UNCHANGED <<source, disk, pins>>

HashVkey ==
  /\ At("hashVkey")
  /\ verifyOrPin("vkey", "vkey")
  /\ UNCHANGED <<source, disk, pins>>

-----------------------------------------------------------------------------
(* What happens around the commands                                        *)

\* A command is killed between two of its file operations.
Kill ==
  /\ ~Ended
  /\ run' = Idle
  /\ UNCHANGED <<source, disk, pins>>

Settle == (Ended \/ At("built")) /\ run' = Idle

EditCircuit ==
  /\ Settle
  /\ source' \in Circuits \ {source}
  /\ UNCHANGED <<disk, pins>>

\* The ptau file is lost or replaced by another one.
LosePtau ==
  /\ Settle
  /\ disk' \in {[disk EXCEPT !.ptau = f] : f \in {NoFile} \cup {<<s>> : s \in Served}}
  /\ UNCHANGED <<source, pins>>

\* REPRODUCE.md:180: an intentional change deletes the entries of the key.
UnpinKey ==
  /\ Settle
  /\ pins.parses
  /\ pins' = [pins EXCEPT !.of = Restrict(@, DOMAIN @ \ {"zkey", "vkey"})]
  /\ UNCHANGED <<source, disk>>

\* git restores a file that no longer parses.
RestorePins ==
  /\ Settle
  /\ ~pins.parses
  /\ pins' = [pins EXCEPT !.parses = TRUE]
  /\ UNCHANGED <<source, disk>>

Command ==
  \/ PinRead \/ PinCompare \/ PinWrite
  \/ StartDownload \/ Fetch \/ Rename \/ HashPtau
  \/ StartBuild \/ WriteInfo
  \/ StartGroth16 \/ NewZKey \/ Beacon \/ RmZkey0
  \/ ExportVkey \/ ExportSolidity \/ HashZkey \/ HashVkey

Next ==
  \/ Command \/ Kill \/ PinTorn
  \/ EditCircuit \/ LosePtau \/ UnpinKey \/ RestorePins

Spec == Init /\ [][Next]_vars

-----------------------------------------------------------------------------
(* The types of the four variables.                                        *)
Content(S) == {NoFile} \cup {<<x>> : x \in S}
Places == {"idle", "pin", "compare", "write", "fetch", "rename", "hashPtau",
           "verified", "info", "built", "newZKey", "beacon", "rmZkey0", "vkey",
           "sol", "hashZkey", "hashVkey", "done", "failed"}
PinFiles == UNION {[N -> Content(Served) \cup Content(Keys)] :
                     N \in SUBSET PinNames}
TypeOK ==
  /\ source \in Circuits
  /\ disk \in [ptau : Content(Served), part : Content(Served),
               r1cs : Content(Circuits), info : Content(Circuits),
               zkey0 : Content(Keys), zkey : Content(Keys),
               vkey : Content(Keys), sol : Content(Keys)]
  /\ pins \in [parses : BOOLEAN, of : PinFiles]
  /\ run \in [pc : Places, name : PinNames,
             hash : Content(Served) \cup Content(Keys), seen : PinFiles]

(* pins.ts:22 "any later drift aborts the run": whatever the commands do,  *)
(* and wherever they are killed, an entry of pins.json once recorded keeps *)
(* its hash until somebody deletes it by hand.                             *)
PinsAreKept ==
  [][UnpinKey \/ \A n \in DOMAIN pins.of :
        n \in DOMAIN pins'.of /\ pins'.of[n] = pins.of[n]]_vars

(* A set-up that ended well left a proving key made from the pinned ptau,  *)
(* equal to its pin, and a verification key and a Solidity verifier that   *)
(* were exported from that very key: a mix of two set-ups never ends well. *)
SuccessIsPinned ==
  At("done") =>
    /\ disk.zkey # NoFile /\ disk.vkey = disk.zkey /\ disk.sol = disk.zkey
    /\ Pinned("ptau") /\ Pinned("zkey") /\ Pinned("vkey")
    /\ disk.zkey = pins.of["zkey"] /\ disk.vkey = pins.of["vkey"]
    /\ <<disk.zkey[1][1]>> = pins.of["ptau"]

(* The two key pins always speak of one key, even when a set-up was killed *)
(* between the two and another circuit was compiled since.                 *)
PinsAgree ==
  Pinned("zkey") /\ Pinned("vkey") => pins.of["zkey"] = pins.of["vkey"]
=============================================================================
