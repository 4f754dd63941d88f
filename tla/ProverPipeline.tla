--------------------------- MODULE ProverPipeline ---------------------------
(* packages/wallet/src/prove.ts: a witness in a temporary file, proved by  *)
(* snarkJS, by rapidsnark, or by both on the same inputs.                  *)
(*                                                                         *)
(* The calls are those of one Node process: they interleave at awaits, and *)
(* a spawnSync of the native prover, with the file operations around it,   *)
(* keeps the event loop to itself.  The proving key is a file of its own,  *)
(* which another process (setup/groth16_setup.ts, a checkout of the        *)
(* committed one) may replace at any time.                                 *)
EXTENDS Naturals, FiniteSets

CONSTANTS Calls,      \* calls of prove and proveBoth
          Keys,       \* contents the proving-key file may have
          NoKey       \* none of them

VARIABLES
  zkey,     \* the content of ZKEY_FILE
  tmp,      \* the files in os.tmpdir(): pairs of a call and a role
  call      \* the calls: where they are, and per backend the key that was
            \* read and the key whose hash the result reports; history: whether
            \* the key hashed for snarkJS was put back during the native prover
vars == <<zkey, tmp, call>>

Backends == {"snarkjs", "rapidsnark"}
Modes == Backends \cup {"both"}
Roles == {"wtns", "proof", "public"}

Init ==
  /\ zkey \in Keys
  /\ tmp = {}
  /\ call = [c \in Calls |->
       [pc |-> "idle", mode |-> "both",
        used |-> [b \in Backends |-> NoKey], hash |-> [b \in Backends |-> NoKey],
        putBack |-> FALSE]]

Native == {"spawn", "read", "hashRs"}
LoopFree(c) == \A d \in Calls \ {c} : call[d].pc \notin Native

At(c, pc) == call[c].pc = pc /\ LoopFree(c)
Goto(c, pc) == call' = [call EXCEPT ![c].pc = pc]

File(c, role) == <<c, role>>

-----------------------------------------------------------------------------
\* Seeded defect: the witness is removed on the way out of a success only.
EndWithoutFinally(c, pc) ==
  /\ tmp' = IF pc = "returned" THEN tmp \ {File(c, "wtns")} ELSE tmp
  /\ Goto(c, pc)

\* The finally of prove and proveBoth: every exit from the try removes the
\* witness.
End(c, pc) ==
  /\ tmp' = tmp \ {File(c, "wtns")}
  /\ Goto(c, pc)

Begin(c) ==
  /\ At(c, "idle")
  /\ \E m \in Modes : call' = [call EXCEPT ![c].pc = "witness", ![c].mode = m]
  /\ UNCHANGED <<zkey, tmp>>

\* An assertion of the circuit fails before the file is created or while it
\* is written; neither is inside the try.
computeWitness(c) ==
  /\ At(c, "witness")
  /\ \/ /\ tmp' = tmp \cup {File(c, "wtns")}
        /\ Goto(c, IF call[c].mode = "rapidsnark" THEN "spawn" ELSE "proveSj")
     \/ /\ tmp' \in {tmp, tmp \cup {File(c, "wtns")}}
        /\ Goto(c, "noWitness")
  /\ UNCHANGED zkey

\* groth16.prove opens the key when it starts and is awaited.
proveSnarkjsOnWitness(c) ==
  /\ At(c, "proveSj")
  /\ call' = [call EXCEPT ![c].pc = "hashSj", ![c].used["snarkjs"] = zkey]
  /\ UNCHANGED <<zkey, tmp>>

\* The hash in the result is taken after the proof.
hashSnarkjs(c) ==
  /\ At(c, "hashSj")
  /\ \/ /\ call' = [call EXCEPT ![c].pc = IF call[c].mode = "both"
                                          THEN "spawn" ELSE "check",
                                ![c].hash["snarkjs"] = zkey]
        /\ UNCHANGED tmp
     \/ End(c, "threw")
  /\ UNCHANGED zkey

\* The prover writes its two output files; a failing one may have written
\* either of them.
proveRapidsnarkOnWitness(c) ==
  /\ At(c, "spawn")
  /\ \/ /\ call' = [call EXCEPT ![c].pc = "read", ![c].used["rapidsnark"] = zkey]
        /\ tmp' = tmp \cup {File(c, "proof"), File(c, "public")}
     \/ \E out \in SUBSET {File(c, "proof"), File(c, "public")} :
          /\ tmp' = (tmp \ {File(c, "wtns")}) \cup out
          /\ Goto(c, "threw")
  /\ UNCHANGED zkey

\* Both files are parsed, then removed one after the other.
readOutput(c) ==
  /\ At(c, "read")
  /\ \/ Goto(c, "hashRs") /\ tmp' = tmp \ {File(c, "proof"), File(c, "public")}
     \/ End(c, "threw")
  /\ UNCHANGED zkey

hashRapidsnark(c) ==
  /\ At(c, "hashRs")
  /\ call' = [call EXCEPT ![c].pc = "check", ![c].hash["rapidsnark"] = zkey]
  /\ UNCHANGED <<zkey, tmp>>

\* Seeded defect: the two reported hashes are not compared.
SameInputsUnchecked(c) == TRUE

SameInputs(c) == call[c].hash["snarkjs"] = call[c].hash["rapidsnark"]

prove(c) ==
  /\ At(c, "check") /\ call[c].mode \in Backends
  /\ End(c, "returned")
  /\ UNCHANGED zkey

proveBoth(c) ==
  /\ At(c, "check") /\ call[c].mode = "both"
  /\ End(c, IF SameInputs(c) THEN "returned" ELSE "threw")
  /\ UNCHANGED zkey

\* groth16_setup.ts runs again beside the process, or a copy is restored.
ReplaceKey ==
  /\ zkey' \in Keys \ {zkey}
  /\ call' = [c \in Calls |-> [call[c] EXCEPT !.putBack =
       @ \/ (call[c].pc \in Native /\ zkey' = call[c].hash["snarkjs"])]]
  /\ UNCHANGED tmp

Step(c) ==
  \/ computeWitness(c)
  \/ proveSnarkjsOnWitness(c) \/ hashSnarkjs(c)
  \/ proveRapidsnarkOnWitness(c) \/ readOutput(c) \/ hashRapidsnark(c)
  \/ prove(c) \/ proveBoth(c)

Next == ReplaceKey \/ \E c \in Calls : Begin(c) \/ Step(c)

Spec == Init /\ [][Next]_vars

-----------------------------------------------------------------------------
(* The types of the key, the temporary files and the calls.                *)
TypeOK ==
  /\ zkey \in Keys
  /\ tmp \subseteq Calls \X Roles
  /\ call \in [Calls ->
       [pc : {"idle", "witness", "noWitness", "proveSj", "hashSj", "check",
              "returned", "threw"} \cup Native,
        mode : Modes, used : [Backends -> Keys \cup {NoKey}],
        hash : [Backends -> Keys \cup {NoKey}], putBack : BOOLEAN]]

(* Private inputs do not stay on disk: a call that got as far as a witness *)
(* removes it however it ends, whatever the other calls do, and one that   *)
(* succeeds leaves nothing at all (prove.ts:121, 145, 90-91).              *)
NothingIsLeft ==
  \A c \in Calls :
    /\ call[c].pc = "threw" => File(c, "wtns") \notin tmp
    /\ call[c].pc = "returned" => \A role \in Roles : File(c, role) \notin tmp

(* prove.ts:140-142: what the comparison of the two hashes guarantees of a *)
(* dual proof.  rapidsnark proved with the key that is reported for both,  *)
(* unless that key was replaced before the native prover and put back      *)
(* before the file was hashed again.                                       *)
NativeProverUsedTheReportedKey ==
  \A c \in Calls :
    call[c].pc = "returned" /\ call[c].mode = "both"
      => \/ call[c].used["rapidsnark"] = call[c].hash["snarkjs"]
         \/ call[c].putBack

(* prove.ts:22 "SHA-256 of the proving key actually used", and :126-128    *)
(* "asserts SHA-256 equality of the inputs both provers consumed": the two *)
(* provers of a dual result used one key, and it is the one reported.  It  *)
(* fails: the file is hashed after the awaited proof, and may by then be   *)
(* another one.                                                            *)
BothProversUsedTheReportedKey ==
  \A c \in Calls :
    call[c].pc = "returned" /\ call[c].mode = "both"
      => /\ call[c].used = call[c].hash
         /\ call[c].used["snarkjs"] = call[c].used["rapidsnark"]
=============================================================================
