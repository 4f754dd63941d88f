-------------------------- MODULE MCToolchain_proofs --------------------------
(* The commands of MCToolchain for any number of calls, keys, launched     *)
(* benchmarks, circuit versions and claims.                                *)
EXTENDS MCToolchain, FiniteSetTheorems, SequenceTheorems, TLAPS

-----------------------------------------------------------------------------
(* A step of the whole is a step of one command's component and a stutter  *)
(* of the others.                                                          *)
LEMMA OneCommandMoves ==
  ASSUME [ToolchainNext]_allVars
  PROVE  /\ command' = command
         /\ [Next]_vars
         /\ PP!Next \/ UNCHANGED ppVars
         /\ BZ!Next \/ UNCHANGED bzVars
         /\ BG!Next \/ UNCHANGED bgVars
         /\ AG!Next \/ UNCHANGED agVars
         /\ command = "report" => RP!Next \/ UNCHANGED rpVars
         /\ command = "mirror" => RM!Next \/ UNCHANGED rpVars
         /\ command \notin {"report", "mirror"} => UNCHANGED rpVars
         /\ LT!Next \/ UNCHANGED ltVars
<1>1. CASE UNCHANGED allVars
  BY <1>1 DEF allVars, vars, ppVars, bzVars, bgVars, agVars, rpVars, ltVars
<1>2. CASE Setup
  BY <1>2 DEF Setup, Runs, ppVars, bzVars, bgVars, agVars, rpVars, ltVars
<1>3. CASE Prove
  BY <1>3 DEF Prove, Runs, vars, bzVars, bgVars, agVars, rpVars, ltVars
<1>4. CASE BenchProvers
  BY <1>4 DEF BenchProvers, Runs, vars, ppVars, bgVars, agVars, rpVars, ltVars
<1>5. CASE BenchGuarded
  BY <1>5 DEF BenchGuarded, Runs, vars, ppVars, bzVars, agVars, rpVars, ltVars
<1>6. CASE Audit
  BY <1>6 DEF Audit, Runs, vars, ppVars, bzVars, bgVars, rpVars, ltVars
<1>7. CASE GenerateResults
  BY <1>7 DEF GenerateResults, Runs, vars, ppVars, bzVars, bgVars, agVars, ltVars
<1>8. CASE MirrorTable
  BY <1>8 DEF MirrorTable, Runs, vars, ppVars, bzVars, bgVars, agVars, ltVars
<1>9. CASE TryOut
  BY <1>9 DEF TryOut, Runs, vars, ppVars, bzVars, bgVars, agVars, rpVars
<1> QED
  BY <1>1, <1>2, <1>3, <1>4, <1>5, <1>6, <1>7, <1>8, <1>9 DEF ToolchainNext

-----------------------------------------------------------------------------
(* TrustedSetup: every step of groth16_setup.ts finds the files that the   *)
(* earlier ones made, and pins.ts compares with a fresh copy.              *)
\* A key file that was made from the pinned powers of tau.
Made(f) ==
  /\ disk[f] # NoFile /\ Pinned("ptau")
  /\ <<disk[f][1][1]>> = pins.of["ptau"]

\* The command is recording a hash, or that of one of the two keys.
Pinning == run.pc \in {"pin", "compare", "write"}
PinningKey == Pinning /\ run.name \in {"zkey", "vkey"}

\* The copy of the pins that is compared and written back is the file's.
CopyIsFresh ==
  /\ run.pc \in {"compare", "write"} => run.seen = pins.of
  /\ run.pc = "write" => run.name \notin DOMAIN run.seen

\* What groth16_setup.ts has on disk, step by step.
SetupStages ==
  /\ At("newZKey") => disk.r1cs # NoFile /\ disk.ptau # NoFile /\ PtauIsPinned
  /\ At("beacon") => Made("zkey0")
  /\ run.pc \in {"rmZkey0", "vkey"} => Made("zkey")
  /\ At("sol") => Made("zkey") /\ disk.vkey = disk.zkey
  /\ PinningKey \/ run.pc \in {"hashZkey", "hashVkey", "done"} =>
       Made("zkey") /\ disk.vkey = disk.zkey /\ disk.sol = disk.zkey
  /\ PinningKey => run.hash = disk.zkey

\* The verification key is pinned after the proving key it was exported from.
KeyPins ==
  /\ Pinned("vkey") => Pinned("zkey") /\ pins.of["vkey"] = pins.of["zkey"]
  /\ run.pc \in {"hashVkey", "done"} \/ (Pinning /\ run.name = "vkey") =>
       Pinned("zkey") /\ pins.of["zkey"] = disk.zkey
  /\ At("done") => Pinned("vkey")

SetupInv == TypeOK /\ CopyIsFresh /\ SetupStages /\ KeyPins

-----------------------------------------------------------------------------
PinnedHashes == Content(Served) \cup Content(Keys)

LEMMA PinFile ==
  \A f : f \in PinFiles <=>
    /\ DOMAIN f \subseteq PinNames /\ f = [n \in DOMAIN f |-> f[n]]
    /\ \A n \in DOMAIN f : f[n] \in PinnedHashes
BY DEF PinFiles, PinnedHashes

LEMMA PinAdded ==
  ASSUME NEW f \in PinFiles, NEW n \in PinNames, NEW h \in PinnedHashes
  PROVE  [m \in DOMAIN f \cup {n} |-> IF m = n THEN h ELSE f[m]] \in PinFiles
<1> DEFINE g == [m \in DOMAIN f \cup {n} |-> IF m = n THEN h ELSE f[m]]
<1>1. DOMAIN f \subseteq PinNames /\ \A m \in DOMAIN f : f[m] \in PinnedHashes
  BY PinFile
<1>2. DOMAIN g \subseteq PinNames /\ \A m \in DOMAIN g : g[m] \in PinnedHashes
  BY <1>1
<1>3. g = [m \in DOMAIN g |-> g[m]]
  OBVIOUS
<1> HIDE DEF g
<1>4. g \in PinFiles
  BY <1>2, <1>3, PinFile
<1> QED
  BY <1>4 DEF g

LEMMA PinsRestricted ==
  ASSUME NEW f \in PinFiles, NEW S
  PROVE  Restrict(f, DOMAIN f \ S) \in PinFiles
<1> DEFINE g == [m \in DOMAIN f \ S |-> f[m]]
<1>1. DOMAIN f \subseteq PinNames /\ \A m \in DOMAIN f : f[m] \in PinnedHashes
  BY PinFile
<1>2. DOMAIN g \subseteq PinNames /\ \A m \in DOMAIN g : g[m] \in PinnedHashes
  BY <1>1
<1>3. g = [m \in DOMAIN g |-> g[m]]
  OBVIOUS
<1>4. Restrict(f, DOMAIN f \ S) = g
  BY DEF Restrict
<1> HIDE DEF g
<1> QED
  BY <1>2, <1>3, <1>4, PinFile

LEMMA IdleTyped ==
  NoPins \in PinFiles /\ Idle \in [pc : Places, name : PinNames, hash : PinnedHashes, seen : PinFiles]
<1>1. DOMAIN NoPins = {} /\ NoPins = [n \in DOMAIN NoPins |-> NoPins[n]]
  BY DEF NoPins
<1>2. NoPins \in PinFiles
  BY <1>1, PinFile
<1> QED
  BY <1>2 DEF Idle, Places, PinNames, PinnedHashes, Content

LEMMA SetupInit == Init => SetupInv
<1> SUFFICES ASSUME Init PROVE SetupInv
  OBVIOUS
<1>2. TypeOK
  BY IdleTyped DEF Init, TypeOK, PinnedHashes, Content
<1>3. CopyIsFresh /\ SetupStages /\ KeyPins
  BY DEF Init, Idle, NoPins, CopyIsFresh, SetupStages, KeyPins, At, Pinned, Pinning, PinningKey
<1> QED
  BY <1>2, <1>3 DEF SetupInv

-----------------------------------------------------------------------------
\* What DISK, PINS and RUN hold, field by field.
LEMMA SetupFields ==
  ASSUME SetupInv
  PROVE  /\ source \in Circuits
         /\ disk \in [ptau : Content(Served), part : Content(Served),
                      r1cs : Content(Circuits), info : Content(Circuits),
                      zkey0 : Content(Keys), zkey : Content(Keys),
                      vkey : Content(Keys), sol : Content(Keys)]
         /\ pins \in [parses : BOOLEAN, of : PinFiles]
         /\ run \in [pc : Places, name : PinNames, hash : PinnedHashes, seen : PinFiles]
BY DEF SetupInv, TypeOK, PinnedHashes

\* Recording a hash: pins.ts, called from its three places.
LEMMA SetupPin ==
  ASSUME SetupInv, PinRead \/ PinCompare \/ PinWrite
  PROVE  SetupInv'
<1> USE SetupFields
<1>1. CASE PinRead
  <2>1. UNCHANGED <<source, disk, pins>>
    BY <1>1 DEF PinRead, Throw
  <2>2. At("pin") /\ (At("failed")' \/ (At("compare")' /\ run'.seen = pins.of))
        /\ run'.name = run.name /\ run'.hash = run.hash
        /\ run' \in [pc : Places, name : PinNames, hash : PinnedHashes, seen : PinFiles]
    BY <1>1 DEF PinRead, Throw, Goto, readPins, At, Places
  <2> QED
    BY <2>1, <2>2 DEF SetupInv, TypeOK, CopyIsFresh, SetupStages, KeyPins, Made, Pinned, PtauIsPinned,
         Pinning, PinningKey, At, PinnedHashes
<1>2. CASE PinCompare
  <2>1. UNCHANGED <<source, disk, pins>> /\ At("compare") /\ run.seen = pins.of
    BY <1>2 DEF PinCompare, SetupInv, CopyIsFresh, At
  <2>2. /\ run'.name = run.name /\ run'.hash = run.hash /\ run'.seen = run.seen
        /\ run' \in [pc : Places, name : PinNames, hash : PinnedHashes, seen : PinFiles]
        /\ \/ At("write")' /\ run.name \notin DOMAIN run.seen
           \/ /\ run'.pc = AfterPin /\ Pinned(run.name)
              /\ pins.of[run.name] = run.hash
           \/ At("failed")'
    BY <1>2, <2>1 DEF PinCompare, Goto, At, Places, AfterPin, Pinned, PinNames
  <2> QED
    BY <2>1, <2>2 DEF SetupInv, TypeOK, CopyIsFresh, SetupStages, KeyPins, Made, Pinned, PtauIsPinned,
         Pinning, PinningKey, At, PinnedHashes, AfterPin, PinNames
<1>3. CASE PinWrite
  <2>1. /\ At("write") /\ UNCHANGED <<source, disk>>
        /\ run.seen = pins.of /\ run.name \notin DOMAIN pins.of
    BY <1>3 DEF PinWrite, SetupInv, CopyIsFresh, At
  <2>2. pins' = [parses |-> TRUE,
                 of |-> [n \in DOMAIN pins.of \cup {run.name} |->
                           IF n = run.name THEN run.hash ELSE pins.of[n]]]
    BY <1>3, <2>1 DEF PinWrite
  <2>3. pins' \in [parses : BOOLEAN, of : PinFiles]
    BY <2>2, PinAdded
  <2>4. /\ DOMAIN pins'.of = DOMAIN pins.of \cup {run.name}
        /\ pins'.of[run.name] = run.hash
        /\ \A n \in DOMAIN pins.of : pins'.of[n] = pins.of[n]
    BY <2>1, <2>2
  <2>5. /\ run'.name = run.name /\ run'.hash = run.hash /\ run'.pc = AfterPin
        /\ run' \in [pc : Places, name : PinNames, hash : PinnedHashes, seen : PinFiles]
    BY <1>3 DEF PinWrite, Goto, Places, AfterPin, PinNames
  <2>6. TypeOK' /\ CopyIsFresh'
    BY <2>1, <2>3, <2>5 DEF SetupInv, TypeOK, CopyIsFresh, PinnedHashes, AfterPin, PinNames
  <2>7. SetupStages' /\ KeyPins'
    BY <2>1, <2>4, <2>5 DEF SetupInv, SetupStages, KeyPins, Made, Pinned, PtauIsPinned,
         Pinning, PinningKey, At, AfterPin, PinNames
  <2> QED
    BY <2>6, <2>7 DEF SetupInv
<1> QED
  BY <1>1, <1>2, <1>3

\* A step that leaves the two key files and the pins alone, and ends up where
\* nothing is claimed of them.
OtherPlaces == {"idle", "fetch", "rename", "hashPtau", "verified", "info", "built", "failed"}

LEMMA SetupOtherStep ==
  ASSUME SetupInv, TypeOK', UNCHANGED pins, run'.pc \in OtherPlaces
  PROVE  SetupInv'
BY DEF SetupInv, CopyIsFresh, SetupStages, KeyPins, Pinned, Pinning, PinningKey, At, OtherPlaces

\* The steps of the three commands, and what happens around them.
LEMMA SetupOtherSteps ==
  ASSUME SetupInv,
         StartDownload \/ Fetch \/ Rename \/ StartBuild \/ WriteInfo
           \/ Kill \/ PinTorn \/ EditCircuit \/ LosePtau \/ RestorePins
  PROVE  SetupInv'
<1> USE SetupFields
<1>1. CASE StartDownload \/ StartBuild \/ WriteInfo \/ Fetch \/ Rename \/ Kill \/ EditCircuit \/ LosePtau
  <2>1. UNCHANGED pins /\ run'.pc \in OtherPlaces
    BY <1>1 DEF StartDownload, StartBuild, WriteInfo, Fetch, Rename, Kill, EditCircuit, LosePtau,
         Settle, Idle, Goto, Throw, OtherPlaces
  <2>2. run' \in [pc : Places, name : PinNames, hash : PinnedHashes, seen : PinFiles]
    BY <1>1, IdleTyped DEF StartDownload, StartBuild, WriteInfo, Fetch, Rename, Kill,
         EditCircuit, LosePtau, Settle, Goto, Throw, Places
  <2>3. source' \in Circuits
    BY <1>1 DEF StartDownload, StartBuild, WriteInfo, Fetch, Rename, Kill, EditCircuit, LosePtau,
         Throw
  <2>4. disk' \in [ptau : Content(Served), part : Content(Served),
                   r1cs : Content(Circuits), info : Content(Circuits),
                   zkey0 : Content(Keys), zkey : Content(Keys),
                   vkey : Content(Keys), sol : Content(Keys)]
    <3>1. CASE disk' = disk
      BY <3>1
    <3>2. CASE \E s \in Served : Write("part", s)
      BY <3>2 DEF Write, Content
    <3>3. CASE Rename
      BY <3>3 DEF Rename, Content
    <3>5. CASE LosePtau
      <4>1. PICK f \in Content(Served) : disk' = [disk EXCEPT !.ptau = f]
        BY <3>5 DEF LosePtau, Content
      <4> QED
        BY <4>1
    <3>4. CASE Write("r1cs", source) \/ WriteInfo
      BY <3>4 DEF Write, WriteInfo, Content
    <3> QED
      BY <1>1, <3>1, <3>2, <3>3, <3>4, <3>5 DEF StartDownload, StartBuild, Fetch, Kill, EditCircuit,
           Throw
  <2>5. TypeOK'
    BY <2>1, <2>2, <2>3, <2>4 DEF TypeOK, PinnedHashes
  <2> QED
    BY <2>1, <2>5, SetupOtherStep
<1>2. CASE PinTorn \/ RestorePins
  <2>1. /\ pins' \in [parses : BOOLEAN, of : PinFiles] /\ pins'.of = pins.of
        /\ run' = Idle /\ UNCHANGED <<source, disk>>
    BY <1>2 DEF PinTorn, RestorePins, Settle
  <2> QED
    BY <2>1, IdleTyped DEF SetupInv, TypeOK, CopyIsFresh, SetupStages, KeyPins, Pinned, Pinning,
         PinningKey, At, Idle, PinnedHashes
<1> QED
  BY <1>1, <1>2

\* REPRODUCE.md:180 has both entries deleted.
LEMMA SetupUnpinKey == SetupInv /\ UnpinKey => SetupInv'
<1> SUFFICES ASSUME SetupInv, UnpinKey PROVE SetupInv'
  OBVIOUS
<1>1. /\ pins' = [pins EXCEPT !.of = Restrict(@, DOMAIN @ \ {"zkey", "vkey"})]
      /\ run' = Idle /\ UNCHANGED <<source, disk>>
  BY DEF UnpinKey, Settle
<1>2. pins' \in [parses : BOOLEAN, of : PinFiles]
  BY <1>1, SetupFields, PinsRestricted
<1>3. DOMAIN pins'.of = DOMAIN pins.of \ {"zkey", "vkey"}
  BY <1>1, SetupFields DEF Restrict
<1> QED
  BY <1>1, <1>2, <1>3, IdleTyped DEF SetupInv, TypeOK, CopyIsFresh, SetupStages, KeyPins, Pinned,
       Pinning, PinningKey, At, Idle, PinnedHashes

\* download_ptau.ts and groth16_setup.ts hand a file's hash to pins.ts.
LEMMA SetupHash ==
  ASSUME SetupInv, HashPtau \/ HashZkey \/ HashVkey
  PROVE  SetupInv'
<1>1. \E n \in PinNames :
        /\ run' = [run EXCEPT !.name = n, !.hash = disk[n], !.pc = "pin"]
        /\ run.pc = CASE n = "ptau" -> "hashPtau" [] n = "zkey" -> "hashZkey"
                      [] n = "vkey" -> "hashVkey"
        /\ UNCHANGED <<source, disk, pins>>
  BY DEF HashPtau, HashZkey, HashVkey, verifyOrPin, At, PinNames
<1>2. PICK n \in PinNames :
        /\ run' = [run EXCEPT !.name = n, !.hash = disk[n], !.pc = "pin"]
        /\ run.pc = CASE n = "ptau" -> "hashPtau" [] n = "zkey" -> "hashZkey"
                      [] n = "vkey" -> "hashVkey"
        /\ UNCHANGED <<source, disk, pins>>
  BY <1>1
<1>3. run' \in [pc : Places, name : PinNames, hash : PinnedHashes, seen : PinFiles]
      /\ run'.name = n /\ run'.hash = disk[n] /\ run'.pc = "pin"
  BY <1>2, SetupFields DEF PinNames, Places, PinnedHashes
<1> QED
  BY <1>2, <1>3 DEF SetupInv, TypeOK, CopyIsFresh, SetupStages, KeyPins, Made, Pinned, Pinning,
       PinningKey, At, PinNames, PinnedHashes

\* groth16_setup.ts, step by step.
LEMMA SetupGroth16 ==
  ASSUME SetupInv, StartGroth16 \/ NewZKey \/ Beacon \/ RmZkey0 \/ ExportVkey \/ ExportSolidity
  PROVE  SetupInv'
<1> DEFINE Disks == [ptau : Content(Served), part : Content(Served),
                     r1cs : Content(Circuits), info : Content(Circuits),
                     zkey0 : Content(Keys), zkey : Content(Keys),
                     vkey : Content(Keys), sol : Content(Keys)]
<1>1. /\ UNCHANGED <<source, pins>>
      /\ run'.pc \in {"newZKey", "failed", "beacon", "rmZkey0", "vkey", "sol", "hashZkey"}
      /\ run' \in [pc : Places, name : PinNames, hash : PinnedHashes, seen : PinFiles]
  BY SetupFields DEF StartGroth16, NewZKey, Beacon, RmZkey0, ExportVkey, ExportSolidity, Goto, Places
<1>2. SUFFICES disk' \in Disks /\ SetupStages'
  BY <1>1, SetupFields DEF SetupInv, TypeOK, CopyIsFresh, KeyPins, Pinned, Pinning, At, PinnedHashes
<1>3. CASE StartGroth16
  BY <1>1, <1>3, SetupFields DEF StartGroth16, Goto, SetupStages, Made, Pinned, PtauIsPinned, Pinning,
       PinningKey, At
<1>4. CASE NewZKey
  <2>1. /\ disk.r1cs # NoFile /\ disk.ptau # NoFile /\ Pinned("ptau")
        /\ disk.ptau = pins.of["ptau"] /\ run'.pc = "beacon"
        /\ disk' = [disk EXCEPT !.zkey0 = <<<<disk.ptau[1], disk.r1cs[1]>>>>]
    BY <1>4, SetupFields DEF NewZKey, Write, Goto, SetupInv, SetupStages, PtauIsPinned, At
  <2>2. PICK s \in Served, c \in Circuits : disk.ptau = <<s>> /\ disk.r1cs = <<c>>
    BY <2>1, SetupFields DEF Content
  <2>3. disk' = [disk EXCEPT !.zkey0 = <<<<s, c>>>>] /\ <<s, c>> \in Keys
    BY <2>1, <2>2 DEF Keys
  <2>4. disk' \in Disks /\ disk'.zkey0 = <<<<s, c>>>> /\ disk'.zkey0 # NoFile
    BY <2>3, SetupFields DEF Content, NoFile
  <2>5. Made("zkey0")'
    BY <1>1, <2>1, <2>2, <2>4 DEF Made, Pinned
  <2> QED
    BY <2>1, <2>4, <2>5 DEF SetupStages, Pinning, PinningKey, At
<1>5. CASE Beacon
  <2>1. Made("zkey0") /\ disk' = [disk EXCEPT !.zkey = disk.zkey0] /\ run'.pc = "rmZkey0"
    BY <1>5, SetupFields DEF Beacon, Goto, SetupInv, SetupStages, At
  <2>2. disk' \in Disks /\ disk'.zkey = disk.zkey0
    BY <2>1, SetupFields
  <2> QED
    BY <1>1, <2>1, <2>2 DEF SetupStages, Made, Pinned, Pinning, PinningKey, At
<1>6. CASE RmZkey0
  <2>1. Made("zkey") /\ disk' = [disk EXCEPT !.zkey0 = NoFile] /\ run'.pc = "vkey"
    BY <1>6, SetupFields DEF RmZkey0, Drop, Goto, SetupInv, SetupStages, At
  <2>2. disk' \in Disks /\ disk'.zkey = disk.zkey
    BY <2>1, SetupFields DEF Content
  <2> QED
    BY <1>1, <2>1, <2>2 DEF SetupStages, Made, Pinned, Pinning, PinningKey, At
<1>7. CASE ExportVkey
  <2>1. Made("zkey") /\ disk' = [disk EXCEPT !.vkey = disk.zkey] /\ run'.pc = "sol"
    BY <1>7, SetupFields DEF ExportVkey, Goto, SetupInv, SetupStages, At
  <2>2. disk' \in Disks /\ disk'.zkey = disk.zkey /\ disk'.vkey = disk.zkey
    BY <2>1, SetupFields
  <2> QED
    BY <1>1, <2>1, <2>2 DEF SetupStages, Made, Pinned, Pinning, PinningKey, At
<1>8. CASE ExportSolidity
  <2>1. /\ Made("zkey") /\ disk.vkey = disk.zkey
        /\ disk' = [disk EXCEPT !.sol = disk.zkey] /\ run'.pc = "hashZkey"
    BY <1>8, SetupFields DEF ExportSolidity, Goto, SetupInv, SetupStages, At
  <2>2. /\ disk' \in Disks /\ disk'.zkey = disk.zkey /\ disk'.sol = disk.zkey
        /\ disk'.vkey = disk.vkey
    BY <2>1, SetupFields
  <2> QED
    BY <1>1, <2>1, <2>2 DEF SetupStages, Made, Pinned, Pinning, PinningKey, At
<1> QED
  BY <1>3, <1>4, <1>5, <1>6, <1>7, <1>8

LEMMA SetupNext == SetupInv /\ [Next]_vars => SetupInv'
<1> SUFFICES ASSUME SetupInv, [Next]_vars PROVE SetupInv'
  OBVIOUS
<1>1. CASE UNCHANGED vars
  BY <1>1 DEF vars, SetupInv, TypeOK, CopyIsFresh, SetupStages, KeyPins, Made, Pinned, PtauIsPinned,
       Pinning, PinningKey, At
<1>2. CASE Next
  BY <1>2, SetupPin, SetupOtherSteps, SetupUnpinKey, SetupHash, SetupGroth16 DEF Next, Command
<1> QED
  BY <1>1, <1>2

LEMMA SetupAlways == Spec => []SetupInv
BY SetupInit, SetupNext, PTL DEF Spec

\* The commands of the set-up run as if there were no others.
LEMMA SetupRunsAlone == ToolchainSpec => Spec
<1>1. ToolchainInit => Init
  BY DEF ToolchainInit
<1>2. [ToolchainNext]_allVars => [Next]_vars
  BY OneCommandMoves
<1> QED
  BY <1>1, <1>2, PTL DEF ToolchainSpec, Spec

-----------------------------------------------------------------------------
\* groth16_setup.ts: whatever was killed, edited or lost before, a set-up that
\* ends well left a proving key made from the pinned powers of tau, and two
\* exports and two pins of that very key.
THEOREM SuccessfulSetup == Spec => []SuccessIsPinned
<1>1. SetupInv => SuccessIsPinned
  BY DEF SetupInv, SetupStages, KeyPins, Made, Pinned, SuccessIsPinned, At
<1> QED
  BY SetupAlways, <1>1, PTL

\* The two key pins never speak of two keys.
THEOREM KeyPinsAgree == Spec => []PinsAgree
<1>1. SetupInv => PinsAgree
  BY DEF SetupInv, KeyPins, PinsAgree
<1> QED
  BY SetupAlways, <1>1, PTL

\* pins.ts:22: no command changes or drops an entry: the only one that writes
\* holds a fresh copy without an entry of the name it adds.
THEOREM PinsStay == Spec => PinsAreKept
<1>1. ASSUME SetupInv, [Next]_vars
      PROVE  UnpinKey \/ \A n \in DOMAIN pins.of :
               n \in DOMAIN pins'.of /\ pins'.of[n] = pins.of[n]
  <2>1. CASE PinWrite
    <3>1. run.seen = pins.of /\ run.name \notin DOMAIN pins.of
      BY <1>1, <2>1 DEF PinWrite, SetupInv, CopyIsFresh, At
    <3>2. pins'.of = [n \in DOMAIN pins.of \cup {run.name} |->
                        IF n = run.name THEN run.hash ELSE pins.of[n]]
      BY <2>1, <3>1 DEF PinWrite
    <3> QED
      BY <3>1, <3>2
  <2>2. CASE PinTorn \/ RestorePins
    <3>1. \E b : pins' = [pins EXCEPT !.parses = b]
      BY <2>2 DEF PinTorn, RestorePins
    <3>2. pins'.of = pins.of
      BY <1>1, <3>1, SetupFields
    <3> QED
      BY <3>2
  <2>3. CASE UNCHANGED pins
    BY <2>3
  <2> QED
    BY <1>1, <2>1, <2>2, <2>3 DEF Next, Command, vars, PinRead, PinCompare, StartDownload, Fetch,
         Rename, HashPtau, StartBuild, WriteInfo, StartGroth16, NewZKey, Beacon, RmZkey0,
         ExportVkey, ExportSolidity, HashZkey, HashVkey, Kill, EditCircuit, LosePtau, Throw
<1>2. ASSUME SetupInv, [Next]_vars
      PROVE  [UnpinKey \/ \A n \in DOMAIN pins.of :
                n \in DOMAIN pins'.of /\ pins'.of[n] = pins.of[n]]_vars
  BY <1>1, <1>2
<1> QED
  BY SetupAlways, <1>2, PTL DEF Spec, PinsAreKept

-----------------------------------------------------------------------------
(* ProverPipeline: the native prover's files exist between its run and the *)
(* reading of them only, and a dual call returns if the hashes agree.      *)
Outputs(c) == {PP!File(c, "proof"), PP!File(c, "public")}

ProverInv ==
  /\ PP!TypeOK
  /\ \A c \in ProofCalls :
       ppCall[c].pc \notin {"read", "threw"} => Outputs(c) \cap ppTmp = {}
  /\ \A c \in ProofCalls :
       ppCall[c].pc = "returned" /\ ppCall[c].mode = "both" =>
         ppCall[c].hash["snarkjs"] = ppCall[c].hash["rapidsnark"]
  /\ PP!NothingIsLeft

ProverRecords ==
  [pc : {"idle", "witness", "noWitness", "proveSj", "hashSj", "check",
         "returned", "threw", "spawn", "read", "hashRs"},
   mode : PP!Modes, used : [PP!Backends -> ProvingKeys \cup {NoKey}],
   hash : [PP!Backends -> ProvingKeys \cup {NoKey}], putBack : BOOLEAN]

Becomes(c, r) == ppCall' = [ppCall EXCEPT ![c] = r] /\ ppKey' = ppKey

\* The files after a step of call c: those of the other calls stay.
Writes(c, files) ==
  /\ ppTmp' \subseteq ProofCalls \X PP!Roles
  /\ \A d \in ProofCalls \ {c}, role \in PP!Roles :
       PP!File(d, role) \in ppTmp' => PP!File(d, role) \in ppTmp
  /\ \A role \in PP!Roles : PP!File(c, role) \in ppTmp' => role \in files

\* What a step of one call may change.
LEMMA ProverStep ==
  ASSUME ProverInv, NEW c \in ProofCalls, NEW r \in ProverRecords,
         NEW files \in SUBSET PP!Roles, Becomes(c, r), Writes(c, files),
         r.pc \notin {"read", "threw"} => files \subseteq {"wtns"},
         r.pc = "returned" /\ r.mode = "both" => r.hash["snarkjs"] = r.hash["rapidsnark"],
         r.pc \in {"threw", "returned"} => "wtns" \notin files
  PROVE  ProverInv'
<1>1. /\ ppCall \in [ProofCalls -> ProverRecords]
      /\ ppCall' \in [ProofCalls -> ProverRecords] /\ ppCall'[c] = r
      /\ \A d \in ProofCalls \ {c} : ppCall'[d] = ppCall[d]
  BY DEF Becomes, ProverInv, PP!TypeOK, ProverRecords, PP!Native
<1>2. PP!TypeOK'
  BY <1>1 DEF Becomes, Writes, ProverInv, PP!TypeOK, ProverRecords, PP!Native
<1>3. ASSUME NEW d \in ProofCalls, ppCall'[d].pc \notin {"read", "threw"}
      PROVE  Outputs(d) \cap ppTmp' = {}
  BY <1>1, <1>3 DEF Writes, ProverInv, Outputs, PP!Roles
<1>4. ASSUME NEW d \in ProofCalls, ppCall'[d].pc = "returned", ppCall'[d].mode = "both"
      PROVE  ppCall'[d].hash["snarkjs"] = ppCall'[d].hash["rapidsnark"]
  BY <1>1, <1>4 DEF ProverInv
<1>5. ASSUME NEW d \in ProofCalls
      PROVE  /\ ppCall'[d].pc = "threw" => PP!File(d, "wtns") \notin ppTmp'
             /\ ppCall'[d].pc = "returned" =>
                  \A role \in PP!Roles : PP!File(d, role) \notin ppTmp'
  <2>1. CASE d = c
    BY <1>1, <2>1 DEF Writes, PP!Roles
  <2>2. CASE d # c
    BY <1>1, <2>2 DEF Writes, ProverInv, PP!NothingIsLeft, PP!Roles
  <2> QED
    BY <2>1, <2>2
<1> QED
  BY <1>2, <1>3, <1>4, <1>5 DEF ProverInv, PP!NothingIsLeft, Outputs

\* The call moves on, with or without the end of the try.
LEMMA ProverMoves ==
  ASSUME ProverInv, NEW c \in ProofCalls, NEW pc, pc \in {"proveSj", "spawn", "hashRs",
           "noWitness", "threw", "returned"},
         PP!Goto(c, pc), ppKey' = ppKey
  PROVE  Becomes(c, [ppCall[c] EXCEPT !.pc = pc])
           /\ [ppCall[c] EXCEPT !.pc = pc] \in ProverRecords
BY DEF PP!Goto, Becomes, ProverInv, PP!TypeOK, ProverRecords, PP!Native

LEMMA ProverEnds ==
  ASSUME ProverInv, NEW c \in ProofCalls, NEW pc \in {"threw", "returned"},
         PP!End(c, pc), ppKey' = ppKey,
         pc = "returned" => /\ ppCall[c].pc # "read"
                            /\ ppCall[c].mode = "both" =>
                                 ppCall[c].hash["snarkjs"] = ppCall[c].hash["rapidsnark"],
         ppCall[c].pc # "threw"
  PROVE  ProverInv'
<1> DEFINE r == [ppCall[c] EXCEPT !.pc = pc]
           files == IF pc = "threw" THEN {"proof", "public"} ELSE {}
<1>1. Becomes(c, r) /\ r \in ProverRecords
  BY ProverMoves DEF PP!End
<1>2. r.pc = pc /\ r.mode = ppCall[c].mode /\ r.hash = ppCall[c].hash
  BY DEF ProverInv, PP!TypeOK
<1>3. Writes(c, files)
  <2>1. ppTmp' = ppTmp \ {PP!File(c, "wtns")} /\ ppTmp \subseteq ProofCalls \X PP!Roles
    BY DEF PP!End, ProverInv, PP!TypeOK
  <2>2. pc = "returned" => Outputs(c) \cap ppTmp = {}
    BY DEF ProverInv
  <2> QED
    BY <2>1, <2>2 DEF Writes, Outputs, PP!File, PP!Roles
<1>4. files \in SUBSET PP!Roles /\ "wtns" \notin files
        /\ (pc = "returned" => files = {})
  BY DEF PP!Roles
<1> HIDE DEF r, files
<1> QED
  BY <1>1, <1>2, <1>3, <1>4, ProverStep

LEMMA ProverNext == ProverInv /\ (PP!Next \/ UNCHANGED ppVars) => ProverInv'
<1> SUFFICES ASSUME ProverInv, PP!Next \/ UNCHANGED ppVars PROVE ProverInv'
  OBVIOUS
<1>1. CASE UNCHANGED ppVars
  BY <1>1 DEF ppVars, ProverInv, Outputs, PP!TypeOK, PP!NothingIsLeft
<1>2. CASE PP!ReplaceKey
  <2>1. /\ ppCall' \in [ProofCalls -> ProverRecords] /\ ppTmp' = ppTmp /\ ppKey' \in ProvingKeys
        /\ \A d \in ProofCalls : /\ ppCall'[d].pc = ppCall[d].pc
                                 /\ ppCall'[d].mode = ppCall[d].mode
                                 /\ ppCall'[d].hash = ppCall[d].hash
    <3>1. ppCall \in [ProofCalls -> ProverRecords]
      BY DEF ProverInv, PP!TypeOK, ProverRecords, PP!Native
    <3>2. ASSUME NEW r \in ProverRecords, NEW b \in BOOLEAN
          PROVE  /\ [r EXCEPT !.putBack = b] \in ProverRecords
                 /\ [r EXCEPT !.putBack = b].pc = r.pc
                 /\ [r EXCEPT !.putBack = b].mode = r.mode
                 /\ [r EXCEPT !.putBack = b].hash = r.hash
      BY <3>2 DEF ProverRecords
    <3>3. \A d \in ProofCalls : \E b \in BOOLEAN : ppCall'[d] = [ppCall[d] EXCEPT !.putBack = b]
      <4>1. ASSUME NEW d \in ProofCalls
            PROVE  LET b == ppCall[d].putBack
                            \/ (ppCall[d].pc \in PP!Native /\ ppKey' = ppCall[d].hash["snarkjs"])
                   IN b \in BOOLEAN /\ ppCall'[d] = [ppCall[d] EXCEPT !.putBack = b]
        BY <1>2, <3>1 DEF PP!ReplaceKey, ProverRecords
      <4> QED
        BY <4>1
    <3>4. DOMAIN ppCall' = ProofCalls /\ ppCall' = [d \in ProofCalls |-> ppCall'[d]]
      BY <1>2 DEF PP!ReplaceKey
    <3> QED
      BY <1>2, <3>1, <3>2, <3>3, <3>4 DEF PP!ReplaceKey
  <2>2. PP!TypeOK'
    BY <2>1 DEF ProverInv, PP!TypeOK, ProverRecords, PP!Native
  <2> QED
    BY <2>1, <2>2 DEF ProverInv, Outputs, PP!NothingIsLeft
<1>3. ASSUME NEW c \in ProofCalls, PP!Begin(c) PROVE ProverInv'
  <2>1. PICK m \in PP!Modes :
          ppCall' = [ppCall EXCEPT ![c].pc = "witness", ![c].mode = m]
    BY <1>3 DEF PP!Begin
  <2> DEFINE r == [ppCall[c] EXCEPT !.pc = "witness", !.mode = m]
  <2>2. Becomes(c, r) /\ r \in ProverRecords /\ r.pc = "witness"
    <3>1. ppKey' = ppKey
      BY <1>3 DEF PP!Begin
    <3>2. ppCall[c] \in ProverRecords
      BY DEF ProverInv, PP!TypeOK, ProverRecords, PP!Native
    <3>3. r \in ProverRecords /\ r.pc = "witness"
      BY <3>2 DEF ProverRecords
    <3> QED
      BY <2>1, <3>1, <3>3 DEF Becomes
  <2>3. ppTmp' = ppTmp /\ ppCall[c].pc = "idle"
    BY <1>3 DEF PP!Begin, PP!At
  <2>4. Writes(c, {"wtns"})
    BY <2>3 DEF Writes, ProverInv, PP!TypeOK, Outputs, PP!Roles
  <2> HIDE DEF r
  <2> QED
    BY <2>2, <2>4, ProverStep DEF PP!Roles
<1>4. ASSUME NEW c \in ProofCalls, PP!computeWitness(c) PROVE ProverInv'
  <2>1. PICK pc \in {"proveSj", "spawn", "noWitness"} :
          PP!Goto(c, pc) /\ ppTmp' \in {ppTmp, ppTmp \cup {PP!File(c, "wtns")}}
    BY <1>4 DEF PP!computeWitness
  <2> DEFINE r == [ppCall[c] EXCEPT !.pc = pc]
  <2>2. Becomes(c, r) /\ r \in ProverRecords /\ r.pc = pc
    BY <1>4, <2>1, ProverMoves DEF PP!computeWitness, ProverInv, PP!TypeOK
  <2>3. ppCall[c].pc = "witness" /\ Outputs(c) \cap ppTmp = {}
    BY <1>4 DEF PP!computeWitness, PP!At, ProverInv
  <2>4. Writes(c, {"wtns"})
    BY <2>1, <2>3 DEF Writes, ProverInv, PP!TypeOK, Outputs, PP!Roles, PP!File
  <2> HIDE DEF r
  <2> QED
    BY <2>1, <2>2, <2>4, ProverStep DEF PP!Roles
<1>5. ASSUME NEW c \in ProofCalls, PP!proveSnarkjsOnWitness(c) PROVE ProverInv'
  <2> DEFINE r == [ppCall[c] EXCEPT !.pc = "hashSj", !.used["snarkjs"] = ppKey]
  <2>1. Becomes(c, r) /\ r \in ProverRecords /\ r.pc = "hashSj"
    BY <1>5 DEF PP!proveSnarkjsOnWitness, Becomes, ProverInv, PP!TypeOK, ProverRecords, PP!Native,
         PP!Backends
  <2>2. ppTmp' = ppTmp /\ Outputs(c) \cap ppTmp = {}
    BY <1>5 DEF PP!proveSnarkjsOnWitness, PP!At, ProverInv
  <2>3. Writes(c, {"wtns"})
    BY <2>2 DEF Writes, ProverInv, PP!TypeOK, Outputs, PP!Roles
  <2> HIDE DEF r
  <2> QED
    BY <2>1, <2>3, ProverStep DEF PP!Roles
<1>6. ASSUME NEW c \in ProofCalls, PP!hashSnarkjs(c) PROVE ProverInv'
  <2>1. ppCall[c].pc = "hashSj" /\ ppKey' = ppKey
    BY <1>6 DEF PP!hashSnarkjs, PP!At
  <2>2. CASE PP!End(c, "threw")
    BY <2>1, <2>2, ProverEnds
  <2>3. CASE /\ ppCall' = [ppCall EXCEPT ![c].pc = IF ppCall[c].mode = "both"
                                                  THEN "spawn" ELSE "check",
                                        ![c].hash["snarkjs"] = ppKey]
             /\ UNCHANGED ppTmp
    <3> DEFINE r == [ppCall[c] EXCEPT !.pc = IF ppCall[c].mode = "both" THEN "spawn" ELSE "check",
                                      !.hash["snarkjs"] = ppKey]
    <3>1. Becomes(c, r) /\ r \in ProverRecords /\ r.pc \in {"spawn", "check"}
      BY <2>1, <2>3 DEF Becomes, ProverInv, PP!TypeOK, ProverRecords, PP!Native, PP!Backends
    <3>2. Writes(c, {"wtns"})
      BY <2>1, <2>3 DEF Writes, ProverInv, PP!TypeOK, Outputs, PP!Roles
    <3> HIDE DEF r
    <3> QED
      BY <3>1, <3>2, ProverStep DEF PP!Roles
  <2> QED
    BY <1>6, <2>2, <2>3 DEF PP!hashSnarkjs
<1>7. ASSUME NEW c \in ProofCalls, PP!proveRapidsnarkOnWitness(c) PROVE ProverInv'
  <2>1. ppCall[c].pc = "spawn" /\ ppKey' = ppKey
    BY <1>7 DEF PP!proveRapidsnarkOnWitness, PP!At
  <2>2. CASE /\ ppCall' = [ppCall EXCEPT ![c].pc = "read", ![c].used["rapidsnark"] = ppKey]
             /\ ppTmp' = ppTmp \cup Outputs(c)
    <3> DEFINE r == [ppCall[c] EXCEPT !.pc = "read", !.used["rapidsnark"] = ppKey]
    <3>1. Becomes(c, r) /\ r \in ProverRecords /\ r.pc = "read"
      BY <2>1, <2>2 DEF Becomes, ProverInv, PP!TypeOK, ProverRecords, PP!Native, PP!Backends
    <3>2. Writes(c, PP!Roles)
      BY <2>2 DEF Writes, ProverInv, PP!TypeOK, Outputs, PP!Roles, PP!File
    <3> HIDE DEF r
    <3> QED
      BY <3>1, <3>2, ProverStep
  <2>3. ASSUME NEW out \in SUBSET Outputs(c),
               ppTmp' = (ppTmp \ {PP!File(c, "wtns")}) \cup out, PP!Goto(c, "threw")
        PROVE  ProverInv'
    <3> DEFINE r == [ppCall[c] EXCEPT !.pc = "threw"]
    <3>1. Becomes(c, r) /\ r \in ProverRecords /\ r.pc = "threw"
      BY <2>1, <2>3, ProverMoves DEF ProverInv, PP!TypeOK
    <3>2. Writes(c, {"proof", "public"})
      BY <2>3 DEF Writes, ProverInv, PP!TypeOK, Outputs, PP!Roles, PP!File
    <3> HIDE DEF r
    <3> QED
      BY <3>1, <3>2, ProverStep DEF PP!Roles
  <2> QED
    BY <1>7, <2>2, <2>3 DEF PP!proveRapidsnarkOnWitness, Outputs
<1>8. ASSUME NEW c \in ProofCalls, PP!readOutput(c) PROVE ProverInv'
  <2>1. ppCall[c].pc = "read" /\ ppKey' = ppKey
    BY <1>8 DEF PP!readOutput, PP!At
  <2>2. CASE PP!End(c, "threw")
    BY <2>1, <2>2, ProverEnds
  <2>3. CASE PP!Goto(c, "hashRs") /\ ppTmp' = ppTmp \ Outputs(c)
    <3> DEFINE r == [ppCall[c] EXCEPT !.pc = "hashRs"]
    <3>1. Becomes(c, r) /\ r \in ProverRecords /\ r.pc = "hashRs"
      BY <2>1, <2>3, ProverMoves DEF ProverInv, PP!TypeOK
    <3>2. Writes(c, {"wtns"})
      BY <2>3 DEF Writes, ProverInv, PP!TypeOK, Outputs, PP!Roles
    <3> HIDE DEF r
    <3> QED
      BY <3>1, <3>2, ProverStep DEF PP!Roles
  <2> QED
    BY <1>8, <2>2, <2>3 DEF PP!readOutput, Outputs
<1>9. ASSUME NEW c \in ProofCalls, PP!hashRapidsnark(c) PROVE ProverInv'
  <2> DEFINE r == [ppCall[c] EXCEPT !.pc = "check", !.hash["rapidsnark"] = ppKey]
  <2>1. Becomes(c, r) /\ r \in ProverRecords /\ r.pc = "check"
    BY <1>9 DEF PP!hashRapidsnark, Becomes, ProverInv, PP!TypeOK, ProverRecords, PP!Native,
         PP!Backends
  <2>2. ppTmp' = ppTmp /\ Outputs(c) \cap ppTmp = {}
    BY <1>9 DEF PP!hashRapidsnark, PP!At, ProverInv
  <2>3. Writes(c, {"wtns"})
    BY <2>2 DEF Writes, ProverInv, PP!TypeOK, Outputs, PP!Roles
  <2> HIDE DEF r
  <2> QED
    BY <2>1, <2>3, ProverStep DEF PP!Roles
<1>10. ASSUME NEW c \in ProofCalls, PP!prove(c) \/ PP!proveBoth(c) PROVE ProverInv'
  BY <1>10, ProverEnds DEF PP!prove, PP!proveBoth, PP!At, PP!SameInputs, PP!Backends
<1> QED
  BY <1>1, <1>2, <1>3, <1>4, <1>5, <1>6, <1>7, <1>8, <1>9, <1>10 DEF PP!Next, PP!Step

LEMMA ProverAlways == ToolchainSpec => []ProverInv
<1>1. ToolchainInit => ProverInv
  BY ToolchainAssumption
     DEF ToolchainInit, PP!Init, ProverInv, Outputs, PP!TypeOK, PP!NothingIsLeft, PP!Modes, PP!Backends
<1>2. ProverInv /\ [ToolchainNext]_allVars => ProverInv'
  BY ProverNext, OneCommandMoves
<1> QED
  BY <1>1, <1>2, PTL DEF ToolchainSpec

\* prove.ts:90-91, 121, 145: no call leaves its witness behind once it has
\* failed in the try, and one that returned leaves none of its files, whatever
\* the others do and whenever the key is replaced.
THEOREM TemporaryFilesRemoved == ToolchainSpec => []NothingIsLeft
<1>1. ProverInv => NothingIsLeft
  BY DEF ProverInv, NothingIsLeft
<1> QED
  BY ProverAlways, <1>1, PTL

\* A key other than the hashed one that rapidsnark read: as long as the hashed
\* one is not put back, the file differs from it, and so does the second hash.
NativeOK(r, key) ==
  r.mode = "both" /\ ~r.putBack /\ r.used["rapidsnark"] # r.hash["snarkjs"] =>
    /\ r.pc \in {"read", "hashRs"} => key # r.hash["snarkjs"]
    /\ r.pc = "check" => r.hash["rapidsnark"] # r.hash["snarkjs"]
    /\ r.pc # "returned"

NativeInv == \A c \in ProofCalls : NativeOK(ppCall[c], ppKey)

LEMMA NativeStep ==
  ASSUME ProverInv, NativeInv, NEW c \in ProofCalls, ppKey' = ppKey,
         \A d \in ProofCalls \ {c} : ppCall'[d] = ppCall[d],
         NativeOK(ppCall'[c], ppKey)
  PROVE  NativeInv'
BY DEF NativeInv

LEMMA NativeNext == ProverInv /\ NativeInv /\ (PP!Next \/ UNCHANGED ppVars) => NativeInv'
<1> SUFFICES ASSUME ProverInv, NativeInv, PP!Next \/ UNCHANGED ppVars PROVE NativeInv'
  OBVIOUS
<1>0. ppCall \in [ProofCalls -> ProverRecords]
  BY DEF ProverInv, PP!TypeOK, ProverRecords, PP!Native
<1>1. CASE UNCHANGED ppVars
  BY <1>1 DEF ppVars, NativeInv, NativeOK
<1>2. CASE PP!ReplaceKey
  <2>1. ASSUME NEW c \in ProofCalls PROVE NativeOK(ppCall'[c], ppKey')
    <3> DEFINE r == ppCall[c]
               back == r.pc \in PP!Native /\ ppKey' = r.hash["snarkjs"]
    <3>1. ppCall'[c] = [r EXCEPT !.putBack = @ \/ back]
      BY <1>2 DEF PP!ReplaceKey
    <3> HIDE DEF back
    <3>4. r \in ProverRecords
      BY <1>0
    <3>5. /\ ppCall'[c].pc = r.pc /\ ppCall'[c].mode = r.mode
          /\ ppCall'[c].used = r.used /\ ppCall'[c].hash = r.hash
      BY <3>1, <3>4 DEF ProverRecords
    <3>6. ppCall'[c].putBack = (r.putBack \/ back)
      BY <3>1, <3>4 DEF ProverRecords
    <3>2. /\ ppCall'[c].pc = r.pc /\ ppCall'[c].mode = r.mode
          /\ ppCall'[c].used = r.used /\ ppCall'[c].hash = r.hash
          /\ ~ppCall'[c].putBack => ~r.putBack /\ ~back
      BY <3>5, <3>6
    <3>3. NativeOK(r, ppKey)
      BY DEF NativeInv
    <3> QED
      BY <3>2, <3>3 DEF NativeOK, PP!Native, back
  <2> QED
    BY <2>1 DEF NativeInv
<1>3. ASSUME NEW c \in ProofCalls, PP!Begin(c) \/ PP!Step(c), ppKey' = ppKey,
             \A d \in ProofCalls \ {c} : ppCall'[d] = ppCall[d]
      PROVE  NativeOK(ppCall'[c], ppKey)
  <2>0. ppCall[c] \in ProverRecords /\ NativeOK(ppCall[c], ppKey)
    BY <1>0 DEF NativeInv
  <2>1. ASSUME NEW pc, ppCall' = [ppCall EXCEPT ![c].pc = pc],
               pc \notin {"read", "hashRs", "check", "returned"}
        PROVE  NativeOK(ppCall'[c], ppKey)
    BY <1>0, <2>1 DEF NativeOK, ProverRecords
  <2>2. CASE PP!Begin(c)
    <3>1. PICK m \in PP!Modes : ppCall' = [ppCall EXCEPT ![c].pc = "witness", ![c].mode = m]
      BY <2>2 DEF PP!Begin
    <3>2. ppCall'[c].pc = "witness"
      BY <1>0, <3>1 DEF ProverRecords
    <3> QED
      BY <3>2 DEF NativeOK
  <2>3. CASE PP!computeWitness(c)
    BY <2>1, <2>3 DEF PP!computeWitness, PP!Goto
  <2>4. CASE PP!proveSnarkjsOnWitness(c)
    <3>1. ppCall'[c].pc = "hashSj"
      BY <1>0, <2>4 DEF PP!proveSnarkjsOnWitness, ProverRecords
    <3> QED
      BY <3>1 DEF NativeOK
  <2>5. CASE PP!hashSnarkjs(c)
    <3>1. \/ ppCall'[c].pc = "threw"
          \/ ppCall'[c].mode = "both" /\ ppCall'[c].pc = "spawn"
          \/ ppCall'[c].mode # "both"
      BY <1>0, <2>5 DEF PP!hashSnarkjs, PP!End, PP!Goto, ProverRecords
    <3> QED
      BY <3>1 DEF NativeOK
  <2>6. CASE PP!proveRapidsnarkOnWitness(c)
    <3>1. CASE PP!Goto(c, "threw")
      <4>1. ppCall'[c].pc = "threw"
        BY <1>0, <3>1 DEF PP!Goto, ProverRecords
      <4> QED
        BY <4>1 DEF NativeOK
    <3>2. CASE ppCall' = [ppCall EXCEPT ![c].pc = "read", ![c].used["rapidsnark"] = ppKey]
      <4>1. /\ ppCall'[c].pc = "read" /\ ppCall'[c].hash = ppCall[c].hash
            /\ ppCall'[c].used["rapidsnark"] = ppKey
        BY <1>0, <3>2 DEF ProverRecords, PP!Backends
      <4> QED
        BY <4>1 DEF NativeOK
    <3> QED
      BY <2>6, <3>1, <3>2 DEF PP!proveRapidsnarkOnWitness
  <2>7. CASE PP!readOutput(c)
    <3>1. ppCall[c].pc = "read" /\ \E pc \in {"hashRs", "threw"} : ppCall' = [ppCall EXCEPT ![c].pc = pc]
      BY <2>7 DEF PP!readOutput, PP!At, PP!Goto, PP!End
    <3>2. /\ ppCall'[c].pc \in {"hashRs", "threw"} /\ ppCall'[c].mode = ppCall[c].mode
          /\ ppCall'[c].used = ppCall[c].used /\ ppCall'[c].hash = ppCall[c].hash
          /\ ppCall'[c].putBack = ppCall[c].putBack
      BY <1>0, <3>1 DEF ProverRecords
    <3> QED
      BY <2>0, <3>1, <3>2 DEF NativeOK
  <2>8. CASE PP!hashRapidsnark(c)
    <3>1. /\ ppCall[c].pc = "hashRs" /\ ppCall'[c].pc = "check" /\ ppCall'[c].mode = ppCall[c].mode
          /\ ppCall'[c].used = ppCall[c].used /\ ppCall'[c].putBack = ppCall[c].putBack
          /\ ppCall'[c].hash["snarkjs"] = ppCall[c].hash["snarkjs"]
          /\ ppCall'[c].hash["rapidsnark"] = ppKey
      BY <1>0, <2>8 DEF PP!hashRapidsnark, PP!At, ProverRecords, PP!Backends
    <3> QED
      BY <2>0, <3>1 DEF NativeOK
  <2>9. CASE PP!prove(c)
    <3>1. ppCall'[c].mode = ppCall[c].mode /\ ppCall[c].mode # "both"
      BY <1>0, <2>9 DEF PP!prove, PP!Backends, PP!End, PP!Goto, ProverRecords
    <3> QED
      BY <3>1 DEF NativeOK
  <2>10. CASE PP!proveBoth(c)
    <3>1. /\ ppCall[c].pc = "check"
          /\ ppCall' = [ppCall EXCEPT ![c].pc = IF PP!SameInputs(c) THEN "returned" ELSE "threw"]
      BY <2>10 DEF PP!proveBoth, PP!At, PP!End, PP!Goto
    <3>2. /\ ppCall'[c].pc = IF PP!SameInputs(c) THEN "returned" ELSE "threw"
          /\ ppCall'[c].mode = ppCall[c].mode
          /\ ppCall'[c].used = ppCall[c].used /\ ppCall'[c].hash = ppCall[c].hash
          /\ ppCall'[c].putBack = ppCall[c].putBack
      BY <1>0, <3>1 DEF ProverRecords
    <3> QED
      BY <2>0, <3>1, <3>2 DEF NativeOK, PP!SameInputs
  <2> QED
    BY <1>3, <2>2, <2>3, <2>4, <2>5, <2>6, <2>7, <2>8, <2>9, <2>10 DEF PP!Step
<1>4. ASSUME NEW c \in ProofCalls, PP!Begin(c) \/ PP!Step(c)
      PROVE  ppKey' = ppKey /\ \A d \in ProofCalls \ {c} : ppCall'[d] = ppCall[d]
  BY <1>0, <1>4 DEF PP!Begin, PP!Step, PP!computeWitness, PP!proveSnarkjsOnWitness, PP!hashSnarkjs,
       PP!proveRapidsnarkOnWitness, PP!readOutput, PP!hashRapidsnark, PP!prove, PP!proveBoth,
       PP!Goto, PP!End
<1> QED
  BY <1>1, <1>2, <1>3, <1>4, NativeStep DEF PP!Next

LEMMA NativeAlways == ToolchainSpec => []NativeInv
<1>1. ToolchainInit => NativeInv
  BY DEF ToolchainInit, PP!Init, NativeInv, NativeOK
<1>2. ProverInv /\ NativeInv /\ [ToolchainNext]_allVars => NativeInv'
  BY NativeNext, OneCommandMoves
<1> QED
  BY <1>1, <1>2, ProverAlways, PTL DEF ToolchainSpec

\* prove.ts:140-142: in a dual result rapidsnark proved with the reported key,
\* unless that key was replaced and put back around the native prover, for any
\* number of calls and of keys.
THEOREM NativeProverReported == ToolchainSpec => []NativeProverUsedTheReportedKey
<1>1. NativeInv => NativeProverUsedTheReportedKey
  BY DEF NativeInv, NativeOK, NativeProverUsedTheReportedKey, PP!NativeProverUsedTheReportedKey
<1> QED
  BY NativeAlways, <1>1, PTL

-----------------------------------------------------------------------------
(* BenchZk: once a phase has used another key than the recorded one, the   *)
(* file that it came from stays replaced unless the key is put back, and a *)
(* later comparison fails.                                                 *)
KeyNumbers == 1..MaxKey

BenchPlaces == {"idle", "stage", "verifyCheck", "publish", "coolRuns", "coolCheck",
                "witness", "snarkjs-cold", "snarkjs-amortized", "verify",
                "rapidsnark-cold", "rapidsnark-amortized", "check"}

RunRecords ==
  [pc : BenchPlaces, i : 1..RUNS, key : {0} \cup KeyNumbers, used : SUBSET KeyNumbers,
   sj : {0} \cup KeyNumbers, undone : BOOLEAN]

Foreign(r) == \E u \in r.used : u # r.key

\* What another key leaves behind, while the recorded one is not put back: the
\* live proving key, and after the verify phase the verification key, differ.
Traced(r) ==
  /\ Foreign(r) => bzZkey # r.key
  /\ r.pc = "verifyCheck" => /\ Foreign(r) => r.sj # r.key
                             /\ r.sj # r.key => bzZkey # r.key
  /\ r.pc \in {"rapidsnark-cold", "rapidsnark-amortized", "check"} /\ Foreign(r)
       => bzVkey # r.key
  /\ r.pc = "publish" => r.used = {r.key}

\* The files and the keys that were used, seen from each place of a run.
RunOK(r) ==
  /\ r.pc # "idle" => r.key \in KeyNumbers
  /\ r.pc \notin {"idle", "stage"} => bzStaged = r.key
  /\ r.pc # "idle" /\ ~r.undone => Traced(r)
  /\ r.pc = "check" => bzProof = r.key /\ r.key \in r.used
  /\ r.pc = "coolCheck" => bzProof = r.key

ZkOK(results) ==
  \/ results = <<>>
  \/ \E k \in KeyNumbers, used \in SUBSET KeyNumbers, undone \in BOOLEAN :
       /\ results = <<[key |-> k, used |-> used, undone |-> undone]>>
       /\ used = {k} \/ undone
CoolOK(results) ==
  \/ results = <<>>
  \/ \E k \in KeyNumbers : results = <<[key |-> k, used |-> {k}]>>

BenchInv ==
  /\ bzZkey \in KeyNumbers /\ bzVkey \in KeyNumbers /\ bzPin \in {0} \cup KeyNumbers
  /\ bzStaged \in {0} \cup KeyNumbers /\ bzProof \in {0} \cup KeyNumbers
  /\ bzRun \in RunRecords /\ RunOK(bzRun)
  /\ ZkOK(bzZk) /\ CoolOK(bzCool)

LEMMA PhaseOrder ==
  /\ BZ!PhaseAfter("witness") = "snarkjs-cold"
  /\ BZ!PhaseAfter("snarkjs-cold") = "snarkjs-amortized"
  /\ BZ!PhaseAfter("snarkjs-amortized") = "verify"
  /\ BZ!PhaseAfter("verify") = "rapidsnark-cold"
  /\ BZ!PhaseAfter("rapidsnark-cold") = "rapidsnark-amortized"
  /\ BZ!PhaseAfter("rapidsnark-amortized") = "check"
<1> DEFINE p == BZ!Phases
<1>1. /\ Len(p) = 7
      /\ p[1] = "witness" /\ p[2] = "snarkjs-cold" /\ p[3] = "snarkjs-amortized"
      /\ p[4] = "verify" /\ p[5] = "rapidsnark-cold" /\ p[6] = "rapidsnark-amortized"
      /\ p[7] = "check"
  BY DEF BZ!Phases
<1> HIDE DEF p
<1>2. \A k \in 1..6 : k = 1 \/ k = 2 \/ k = 3 \/ k = 4 \/ k = 5 \/ k = 6
  OBVIOUS
<1>3. ASSUME NEW n \in 1..6 PROVE BZ!PhaseAfter(p[n]) = p[n + 1]
  <2>1. \A k \in 1..6 : p[k] = p[n] => k = n
    BY <1>1, <1>2
  <2>2. (CHOOSE k \in 1..6 : p[k] = p[n]) = n
    BY <2>1
  <2>3. Len(p) - 1 = 6
    BY <1>1
  <2>4. BZ!PhaseAfter(p[n]) = p[1 + CHOOSE k \in 1..(Len(p) - 1) : p[k] = p[n]]
    BY DEF BZ!PhaseAfter, p
  <2>5. 1 + n = n + 1
    OBVIOUS
  <2> QED
    BY <2>2, <2>3, <2>4, <2>5
<1>4. /\ 1 \in 1..6 /\ 2 \in 1..6 /\ 3 \in 1..6 /\ 4 \in 1..6 /\ 5 \in 1..6 /\ 6 \in 1..6
      /\ 1 + 1 = 2 /\ 2 + 1 = 3 /\ 3 + 1 = 4 /\ 4 + 1 = 5 /\ 5 + 1 = 6 /\ 6 + 1 = 7
  OBVIOUS
<1> QED
  BY <1>1, <1>3, <1>4

\* A run that ends, the files and the results being in order.
LEMMA BenchRests ==
  ASSUME BenchInv, UNCHANGED <<bzZkey, bzVkey, bzPin>>,
         bzStaged' \in {0} \cup KeyNumbers,
         bzProof' \in {0} \cup KeyNumbers, bzRun' = BZ!NoRun,
         ZkOK(bzZk'), CoolOK(bzCool')
  PROVE  BenchInv'
<1>1. bzRun' \in RunRecords /\ bzRun'.pc = "idle"
  BY ToolchainAssumption DEF BZ!NoRun, RunRecords, BenchPlaces
<1>2. RunOK(bzRun)'
  BY <1>1 DEF RunOK
<1> QED
  BY <1>1, <1>2 DEF BenchInv, ZkOK, CoolOK

\* A step that changes nothing but the run.
LEMMA BenchMoves ==
  ASSUME BenchInv, UNCHANGED <<bzZkey, bzVkey, bzPin, bzStaged, bzProof, bzZk, bzCool>>,
         bzRun' \in RunRecords, RunOK(bzRun)'
  PROVE  BenchInv'
BY DEF BenchInv, ZkOK, CoolOK

\* One invocation of phase p that uses the keys "used".
LEMMA BenchAdvances ==
  ASSUME BenchInv, UNCHANGED <<bzZkey, bzVkey, bzPin, bzStaged, bzZk, bzCool>>,
         bzProof' \in {0} \cup KeyNumbers,
         NEW p \in BenchPlaces, NEW q \in BenchPlaces, NEW used \in SUBSET KeyNumbers,
         BZ!PhaseAfter(p) = q, BZ!Advance(p, used),
         bzRun.pc \notin {"idle", "stage"},
         {p, q} \cap {"idle", "stage", "verifyCheck", "coolCheck", "publish"} = {},
         ~bzRun.undone /\ (\E u \in bzRun.used \cup used : u # bzRun.key)
           => bzZkey # bzRun.key,
         {p, q} \cap {"rapidsnark-cold", "rapidsnark-amortized", "check"} # {} =>
           (~bzRun.undone /\ (\E u \in bzRun.used \cup used : u # bzRun.key)
              => bzVkey # bzRun.key),
         "check" \in {p, q} => bzProof' = bzRun.key /\ bzRun.key \in used
  PROVE  BenchInv'
<1> DEFINE r == [bzRun EXCEPT !.used = @ \cup used,
                             !.pc = IF bzRun.i = RUNS THEN q ELSE p,
                             !.i = IF @ = RUNS THEN 1 ELSE @ + 1]
<1>1. bzRun \in RunRecords /\ RUNS \in Nat \ {0} /\ MaxKey \in Nat
  BY ToolchainAssumption DEF BenchInv
<1>2. /\ r \in RunRecords /\ r.pc \in {p, q} /\ r.used = bzRun.used \cup used
      /\ r.key = bzRun.key /\ r.undone = bzRun.undone
  <2>1. (IF bzRun.i = RUNS THEN q ELSE p) \in BenchPlaces
    OBVIOUS
  <2>2. (IF bzRun.i = RUNS THEN 1 ELSE bzRun.i + 1) \in 1..RUNS
    BY <1>1 DEF RunRecords
  <2> QED
    BY <1>1, <2>1, <2>2 DEF RunRecords
<1>3. bzRun' = r
  BY DEF BZ!Advance
<1> HIDE DEF r
<1>4. ~r.undone => Traced(bzRun)'
  BY <1>2, <1>3 DEF Traced, Foreign
<1>5. RunOK(bzRun)'
  BY <1>2, <1>3, <1>4 DEF BenchInv, RunOK
<1> QED
  BY <1>2, <1>3, <1>5 DEF BenchInv, ZkOK, CoolOK

\* A file is replaced: the run is as before, and marked if its key came back.
LEMMA BenchFiles ==
  ASSUME BenchInv, BZ!NewZkey \/ BZ!ExportVkey PROVE BenchInv'
<1> DEFINE back == bzRun.pc # "idle" /\ bzRun'.undone
<1>0. bzRun \in RunRecords /\ RunOK(bzRun)
  BY DEF BenchInv
<1>1. PICK b \in BOOLEAN :
        /\ bzRun' = [bzRun EXCEPT !.undone = @ \/ b]
        /\ bzZkey' \in KeyNumbers /\ bzVkey' \in KeyNumbers
        /\ UNCHANGED <<bzPin, bzStaged, bzProof, bzZk, bzCool>>
        /\ \/ /\ bzVkey' = bzVkey
              /\ b <=> bzRun.pc # "idle" /\ bzZkey' = bzRun.key
           \/ /\ bzZkey' = bzZkey
              /\ b <=> bzRun.pc # "idle" /\ bzVkey' = bzRun.key /\ bzZkey # bzRun.key
  <2>1. CASE BZ!NewZkey
    <3> DEFINE c == bzRun.pc # "idle" /\ bzZkey' = bzRun.key
    <3>1. bzRun' = [bzRun EXCEPT !.undone = @ \/ c] /\ c \in BOOLEAN
      BY <2>1 DEF BZ!NewZkey, BZ!PutBack, BZ!At
    <3>2. /\ bzZkey' \in KeyNumbers /\ bzVkey' = bzVkey /\ bzVkey \in KeyNumbers
          /\ UNCHANGED <<bzPin, bzStaged, bzProof, bzZk, bzCool>>
      BY <2>1 DEF BZ!NewZkey, BZ!Keys, KeyNumbers, BenchInv
    <3> QED
      BY <3>1, <3>2
  <2>2. CASE BZ!ExportVkey
    <3> DEFINE c == bzRun.pc # "idle" /\ bzVkey' = bzRun.key /\ bzZkey # bzRun.key
    <3>1. bzRun' = [bzRun EXCEPT !.undone = @ \/ c] /\ c \in BOOLEAN
      BY <2>2 DEF BZ!ExportVkey, BZ!PutBack, BZ!At
    <3>2. /\ bzVkey' \in KeyNumbers /\ bzZkey' = bzZkey /\ bzZkey \in KeyNumbers
          /\ UNCHANGED <<bzPin, bzStaged, bzProof, bzZk, bzCool>>
      BY <2>2 DEF BZ!ExportVkey, BZ!Keys, KeyNumbers, BenchInv
    <3> QED
      BY <3>1, <3>2
  <2> QED
    BY <2>1, <2>2
<1>2. /\ bzRun' \in RunRecords
      /\ bzRun'.pc = bzRun.pc /\ bzRun'.key = bzRun.key /\ bzRun'.used = bzRun.used
      /\ bzRun'.sj = bzRun.sj
  BY <1>0, <1>1 DEF RunRecords
<1>3. bzRun'.undone = (bzRun.undone \/ b)
  BY <1>0, <1>1 DEF RunRecords
<1>4. ASSUME bzRun'.pc # "idle", ~bzRun'.undone PROVE Traced(bzRun)'
  <2>1. ~bzRun.undone /\ ~b
    BY <1>3, <1>4
  <2>2. Traced(bzRun)
    BY <1>0, <1>2, <1>4, <2>1 DEF RunOK
  <2>3. /\ bzZkey # bzRun.key => bzZkey' # bzRun.key
        /\ bzZkey # bzRun.key /\ bzVkey # bzRun.key => bzVkey' # bzRun.key
    BY <1>1, <1>2, <1>4, <2>1
  <2>4. Foreign(bzRun)' <=> Foreign(bzRun)
    BY <1>2 DEF Foreign
  <2> QED
    BY <1>2, <2>2, <2>3, <2>4 DEF Traced
<1>5. RunOK(bzRun)'
  BY <1>0, <1>1, <1>2, <1>4 DEF RunOK
<1> QED
  BY <1>1, <1>2, <1>5 DEF BenchInv, ZkOK, CoolOK

LEMMA BenchNext == BenchInv /\ (BZ!Next \/ UNCHANGED bzVars) => BenchInv'
<1> SUFFICES ASSUME BenchInv, BZ!Next \/ UNCHANGED bzVars PROVE BenchInv'
  OBVIOUS
<1> USE ToolchainAssumption
<1>0. /\ bzRun \in RunRecords /\ RunOK(bzRun) /\ ZkOK(bzZk) /\ CoolOK(bzCool)
      /\ bzProof \in {0} \cup KeyNumbers /\ bzZkey \in KeyNumbers
      /\ bzStaged \in {0} \cup KeyNumbers
  BY DEF BenchInv
<1>1. CASE UNCHANGED bzVars
  BY <1>1 DEF bzVars, BenchInv, RunOK, Traced, Foreign, ZkOK, CoolOK
<1>2. CASE BZ!NewZkey \/ BZ!ExportVkey
  BY <1>2, BenchFiles
<1>14. CASE BZ!Pin
  <2>1. /\ bzPin' \in {0} \cup KeyNumbers
        /\ UNCHANGED <<bzZkey, bzVkey, bzStaged, bzProof, bzRun, bzZk, bzCool>>
    BY <1>0, <1>14 DEF BZ!Pin
  <2> QED
    BY <2>1 DEF BenchInv, RunOK, Traced, Foreign, ZkOK, CoolOK
<1>3. CASE BZ!checkPin \/ BZ!coolStart
  <2>1. PICK pc \in {"stage", "coolRuns"} :
          /\ bzRun' = [BZ!NoRun EXCEPT !.pc = pc, !.key = bzZkey]
          /\ pc = "coolRuns" => bzStaged = bzZkey
          /\ UNCHANGED <<bzZkey, bzVkey, bzPin, bzStaged, bzProof, bzZk, bzCool>>
    BY <1>3 DEF BZ!checkPin, BZ!coolStart, BZ!files
  <2>2. bzRun' = [pc |-> pc, i |-> 1, key |-> bzZkey, used |-> {}, sj |-> 0,
                  undone |-> FALSE]
    BY <2>1 DEF BZ!NoRun
  <2>3. bzRun' \in RunRecords
    BY <1>0, <2>2 DEF RunRecords, BenchPlaces
  <2>4. bzRun'.pc = pc /\ bzRun'.key = bzZkey /\ bzRun'.used = {}
    BY <2>2
  <2>5. RunOK(bzRun)'
    BY <1>0, <2>1, <2>4 DEF RunOK, Traced, Foreign
  <2> QED
    BY <2>1, <2>3, <2>5, BenchMoves
<1>4. CASE BZ!stage
  <2>1. /\ bzStaged' = bzZkey /\ bzRun.pc = "stage"
        /\ UNCHANGED <<bzZkey, bzVkey, bzPin, bzProof, bzZk, bzCool>>
    BY <1>4 DEF BZ!stage, BZ!files, BZ!At
  <2>2. CASE bzZkey = bzRun.key /\ bzRun' = [bzRun EXCEPT !.pc = "witness"]
    <3>1. /\ bzRun' \in RunRecords /\ bzRun'.pc = "witness" /\ bzRun'.key = bzRun.key
          /\ bzRun'.used = bzRun.used /\ bzRun'.undone = bzRun.undone
      BY <1>0, <2>2 DEF RunRecords, BenchPlaces
    <3>2. Traced(bzRun) => Traced(bzRun)'
      BY <2>1, <3>1 DEF Traced, Foreign
    <3>3. RunOK(bzRun)'
      BY <1>0, <2>1, <2>2, <3>1, <3>2 DEF RunOK
    <3> QED
      BY <1>0, <2>1, <3>1, <3>3 DEF BenchInv, ZkOK, CoolOK
  <2>3. CASE bzRun' = BZ!NoRun
    BY <1>0, <2>1, <2>3, BenchRests
  <2> QED
    BY <1>4, <2>2, <2>3 DEF BZ!stage, BZ!Fail
<1>5. CASE BZ!runWorker
  <2>1. UNCHANGED <<bzZkey, bzVkey, bzPin, bzStaged, bzProof, bzZk, bzCool>>
    BY <1>5 DEF BZ!runWorker, BZ!files
  <2>2. ASSUME bzRun.pc \notin {"idle", "stage", "check"}
        PROVE  ~bzRun.undone /\ (\E u \in bzRun.used \cup {bzZkey} : u # bzRun.key)
                 => bzZkey # bzRun.key
    BY <1>0, <2>2 DEF RunOK, Traced, Foreign
  <2>3. CASE BZ!At("witness") /\ BZ!Advance("witness", {})
    BY <1>0, <2>1, <2>2, <2>3, PhaseOrder, BenchAdvances DEF BZ!At, BenchPlaces
  <2>4. CASE BZ!At("snarkjs-cold") /\ BZ!Advance("snarkjs-cold", {bzZkey})
    BY <1>0, <2>1, <2>2, <2>4, PhaseOrder, BenchAdvances DEF BZ!At, BenchPlaces
  <2>5. CASE BZ!At("snarkjs-amortized") /\ BZ!Advance("snarkjs-amortized", {bzZkey})
    BY <1>0, <2>1, <2>2, <2>5, PhaseOrder, BenchAdvances DEF BZ!At, BenchPlaces
  <2>6. CASE BZ!At("snarkjs-cold") /\ bzRun' = [bzRun EXCEPT !.used = @ \cup {bzZkey}]
    <3>1. /\ bzRun' \in RunRecords /\ bzRun'.pc = "snarkjs-cold" /\ bzRun'.key = bzRun.key
          /\ bzRun'.used = bzRun.used \cup {bzZkey} /\ bzRun'.undone = bzRun.undone
      BY <1>0, <2>6 DEF RunRecords, BZ!At
    <3>2. ~bzRun'.undone => Traced(bzRun)'
      BY <2>1, <2>2, <2>6, <3>1 DEF Traced, Foreign, BZ!At
    <3>3. RunOK(bzRun)'
      BY <1>0, <2>1, <2>6, <3>1, <3>2 DEF RunOK, BZ!At
    <3> QED
      BY <2>1, <3>1, <3>3, BenchMoves
  <2> QED
    BY <1>5, <2>3, <2>4, <2>5, <2>6 DEF BZ!runWorker
<1>6. CASE BZ!verifyProve
  <2>1. /\ bzRun.pc = "verify" /\ bzRun' = [bzRun EXCEPT !.pc = "verifyCheck", !.sj = bzZkey]
        /\ UNCHANGED <<bzZkey, bzVkey, bzPin, bzStaged, bzProof, bzZk, bzCool>>
    BY <1>6 DEF BZ!verifyProve, BZ!files, BZ!At
  <2>2. /\ bzRun' \in RunRecords /\ bzRun'.pc = "verifyCheck" /\ bzRun'.sj = bzZkey
        /\ bzRun'.key = bzRun.key /\ bzRun'.used = bzRun.used /\ bzRun'.undone = bzRun.undone
    BY <1>0, <2>1 DEF RunRecords, BenchPlaces
  <2>3. Traced(bzRun) => Traced(bzRun)'
    BY <2>1, <2>2 DEF Traced, Foreign
  <2>4. RunOK(bzRun)'
    BY <1>0, <2>1, <2>2, <2>3 DEF RunOK
  <2> QED
    BY <2>1, <2>2, <2>4, BenchMoves
<1>7. CASE BZ!verifyCheck
  <2>1. /\ bzRun.pc = "verifyCheck"
        /\ UNCHANGED <<bzZkey, bzVkey, bzPin, bzStaged, bzProof, bzZk, bzCool>>
    BY <1>7 DEF BZ!verifyCheck, BZ!files, BZ!At
  <2>2. CASE bzRun.sj = bzVkey /\ BZ!Advance("verify", {bzRun.sj})
    <3>1. bzRun.sj \in KeyNumbers
      BY <2>2 DEF BenchInv
    <3>2. ASSUME ~bzRun.undone, \E u \in bzRun.used \cup {bzRun.sj} : u # bzRun.key
          PROVE  bzZkey # bzRun.key /\ bzVkey # bzRun.key
      <4>1. Traced(bzRun)
        BY <1>0, <2>1, <3>2 DEF RunOK
      <4> QED
        BY <2>1, <2>2, <3>2, <4>1 DEF Traced, Foreign
    <3> QED
      BY <1>0, <2>1, <2>2, <3>1, <3>2, PhaseOrder, BenchAdvances DEF BenchPlaces
  <2>3. CASE BZ!Fail
    BY <1>0, <2>1, <2>3, BenchRests DEF BZ!Fail
  <2> QED
    BY <1>7, <2>2, <2>3 DEF BZ!verifyCheck
<1>8. CASE BZ!runRapidsnark
  <2>1. /\ bzProof' = bzStaged
        /\ UNCHANGED <<bzZkey, bzVkey, bzPin, bzStaged, bzZk, bzCool>>
    BY <1>8 DEF BZ!runRapidsnark, BZ!files
  <2>2. PICK p \in {"rapidsnark-cold", "rapidsnark-amortized"} :
          bzRun.pc = p /\ BZ!Advance(p, {bzStaged})
    BY <1>8 DEF BZ!runRapidsnark, BZ!At
  <2>3. bzStaged = bzRun.key /\ bzRun.key \in KeyNumbers
    BY <1>0, <2>2 DEF RunOK
  <2>4. ~bzRun.undone /\ (\E u \in bzRun.used \cup {bzStaged} : u # bzRun.key)
          => bzZkey # bzRun.key /\ bzVkey # bzRun.key
    BY <1>0, <2>2, <2>3 DEF RunOK, Traced, Foreign
  <2>5. PICK q \in {"rapidsnark-amortized", "check"} : BZ!PhaseAfter(p) = q
    BY <2>2, PhaseOrder
  <2> QED
    BY <1>0, <2>1, <2>2, <2>3, <2>4, <2>5, BenchAdvances DEF BenchPlaces
<1>9. CASE BZ!checkProofs
  <2>1. /\ bzRun.pc = "check"
        /\ UNCHANGED <<bzZkey, bzVkey, bzPin, bzStaged, bzProof, bzZk, bzCool>>
    BY <1>9 DEF BZ!checkProofs, BZ!files, BZ!At
  <2>2. CASE bzProof = bzVkey /\ bzRun' = [bzRun EXCEPT !.pc = "publish"]
    <3>1. /\ bzRun' \in RunRecords /\ bzRun'.pc = "publish" /\ bzRun'.used = bzRun.used
          /\ bzRun'.key = bzRun.key /\ bzRun'.undone = bzRun.undone
      BY <1>0, <2>2 DEF RunRecords, BenchPlaces
    <3>2. ~bzRun.undone => bzRun.used = {bzRun.key}
      <4>1. bzVkey = bzRun.key /\ bzRun.key \in bzRun.used
        BY <1>0, <2>1, <2>2 DEF RunOK
      <4>2. ~bzRun.undone => ~Foreign(bzRun)
        BY <1>0, <2>1, <4>1 DEF RunOK, Traced
      <4> QED
        BY <4>1, <4>2 DEF Foreign
    <3>3. ~bzRun'.undone => Traced(bzRun)'
      BY <3>1, <3>2 DEF Traced, Foreign
    <3>4. RunOK(bzRun)'
      BY <1>0, <2>1, <3>1, <3>3 DEF RunOK
    <3> QED
      BY <2>1, <3>1, <3>4, BenchMoves
  <2>3. CASE BZ!Fail
    BY <1>0, <2>1, <2>3, BenchRests DEF BZ!Fail
  <2> QED
    BY <1>9, <2>2, <2>3 DEF BZ!checkProofs
<1>10. CASE BZ!publish
  <2>1. /\ bzRun.used = {bzRun.key} \/ bzRun.undone
        /\ bzRun.key \in KeyNumbers
        /\ bzZk' = <<[key |-> bzRun.key, used |-> bzRun.used, undone |-> bzRun.undone]>>
        /\ bzRun' = BZ!NoRun
        /\ UNCHANGED <<bzZkey, bzVkey, bzPin, bzStaged, bzProof, bzCool>>
    BY <1>0, <1>10 DEF BZ!publish, BZ!files, BZ!At, RunOK, Traced
  <2>2. bzRun.used \in SUBSET KeyNumbers /\ bzRun.undone \in BOOLEAN
    BY <1>0 DEF RunRecords
  <2>3. ZkOK(bzZk')
    BY <2>1, <2>2 DEF ZkOK
  <2> QED
    BY <1>0, <2>1, <2>3, BenchRests
<1>11. CASE BZ!coolRuns
  <2>1. /\ bzRun.pc = "coolRuns" /\ bzProof' = bzStaged /\ bzStaged = bzRun.key
        /\ bzRun.key \in KeyNumbers
        /\ UNCHANGED <<bzZkey, bzVkey, bzPin, bzStaged, bzZk, bzCool>>
    BY <1>0, <1>11 DEF BZ!coolRuns, BZ!files, BZ!At, RunOK
  <2>2. PICK pc \in {"coolRuns", "coolCheck"}, i \in 1..RUNS :
          bzRun' = [bzRun EXCEPT !.pc = pc, !.i = i]
    <3>1. bzRun.i \in 1..RUNS /\ (bzRun.i # RUNS => bzRun.i + 1 \in 1..RUNS)
      BY <1>0 DEF RunRecords
    <3>2. CASE bzRun.i = RUNS
      <4>1. bzRun' = [bzRun EXCEPT !.pc = "coolCheck", !.i = bzRun.i]
        BY <1>0, <1>11, <3>2 DEF BZ!coolRuns, RunRecords
      <4> QED
        BY <3>1, <4>1
    <3>3. CASE bzRun.i # RUNS
      <4>1. bzRun' = [bzRun EXCEPT !.pc = "coolRuns", !.i = bzRun.i + 1]
        BY <1>0, <1>11, <2>1, <3>3 DEF BZ!coolRuns, RunRecords
      <4> QED
        BY <3>1, <3>3, <4>1
    <3> QED
      BY <3>2, <3>3
  <2>3. /\ bzRun' \in RunRecords /\ bzRun'.pc = pc /\ bzRun'.used = bzRun.used
        /\ bzRun'.key = bzRun.key /\ bzRun'.undone = bzRun.undone
    BY <1>0, <2>2 DEF RunRecords, BenchPlaces
  <2>4. Traced(bzRun) => Traced(bzRun)'
    BY <2>1, <2>3 DEF Traced, Foreign
  <2>5. RunOK(bzRun)'
    BY <1>0, <2>1, <2>3, <2>4 DEF RunOK
  <2> QED
    BY <1>0, <2>1, <2>3, <2>5 DEF BenchInv, ZkOK, CoolOK
<1>12. CASE BZ!coolPublish
  <2>1. /\ bzRun.pc = "coolCheck" /\ bzRun' = BZ!NoRun
        /\ bzCool' = IF bzProof = bzVkey THEN <<[key |-> bzRun.key, used |-> {bzProof}]>>
                     ELSE bzCool
        /\ UNCHANGED <<bzZkey, bzVkey, bzPin, bzStaged, bzProof, bzZk>>
    BY <1>12 DEF BZ!coolPublish, BZ!files, BZ!At
  <2>2. bzProof = bzRun.key /\ bzRun.key \in KeyNumbers
    BY <1>0, <2>1 DEF RunOK
  <2>3. CoolOK(bzCool')
    BY <1>0, <2>1, <2>2 DEF CoolOK
  <2> QED
    BY <1>0, <2>1, <2>3, BenchRests
<1>13. CASE BZ!Abort
  BY <1>0, <1>13, BenchRests DEF BZ!Abort, BZ!Fail, BZ!files
<1> QED
  BY <1>1, <1>2, <1>3, <1>4, <1>5, <1>6, <1>7, <1>8, <1>9, <1>10, <1>11, <1>12, <1>13, <1>14
     DEF BZ!Next, BZ!Bench

LEMMA BenchAlways == ToolchainSpec => []BenchInv
<1>1. ToolchainInit => BenchInv
  BY ToolchainAssumption
     DEF ToolchainInit, BZ!Init, BenchInv, BZ!NoRun, RunRecords, RunOK, BenchPlaces, ZkOK,
         CoolOK, KeyNumbers
<1>2. BenchInv /\ [ToolchainNext]_allVars => BenchInv'
  BY BenchNext, OneCommandMoves
<1> QED
  BY <1>1, <1>2, PTL DEF ToolchainSpec

\* bench_zk.ts:28, 235: with any number of keys and of repetitions, and the two
\* key files replaced at any time, results that are written were made with the
\* key they name, unless that key was put back while the benchmark ran.
THEOREM PutBackKeysEscape == ToolchainSpec => []OnlyPutBackKeysEscape
<1>1. ASSUME BenchInv PROVE OnlyPutBackKeysEscape
  <2>1. ASSUME NEW k \in DOMAIN bzZk
        PROVE  bzZk[k].used = {bzZk[k].key} \/ bzZk[k].undone
    BY <1>1, <2>1 DEF BenchInv, ZkOK
  <2>2. ASSUME NEW k \in DOMAIN bzCool PROVE bzCool[k].used = {bzCool[k].key}
    BY <1>1, <2>2 DEF BenchInv, CoolOK
  <2> QED
    BY <2>1, <2>2 DEF OnlyPutBackKeysEscape, BZ!OnlyPutBackKeysEscape
<1> QED
  BY BenchAlways, <1>1, PTL

-----------------------------------------------------------------------------
(* AuditGate: what the gate holds in memory, and what it wrote, is of the  *)
(* version that the analyser was run on by this very gate.                 *)
Reported == DOMAIN Findings
AllFindings == UNION {Findings[c] : c \in Reported}

\* The status of a finding on the line that version c has at its place.
StatusOf(f, c) ==
  IF ~f.ours THEN "library"
  ELSE IF (f.named \cup SignalsOn[c][f.line]) \cap TriagedSignals # {}
       THEN "triaged-accepted" ELSE "BLOCKING"
Classified(results, c) == {[f |-> f, status |-> StatusOf(f, c)] : f \in results}

GateRecords ==
  [pc : AG!Ended \cup {"spawned", "parsed", "classified", "written"},
   analysed : {<<>>} \cup {<<c>> : c \in Reported},
   results : SUBSET AllFindings,
   findings : SUBSET [f : AllFindings, status : {"library", "triaged-accepted", "BLOCKING"}],
   read : Reported]

GateOK(g) ==
  /\ g \in GateRecords
  /\ g.pc = "spawned" =>
       \A c \in Reported : g.analysed = <<c>> => agSarif = <<Findings[c]>>
  /\ g.pc \in {"parsed", "classified"} =>
       /\ \E c \in Reported : g.results = Findings[c]
       /\ \A c \in Reported : g.analysed = <<c>> => g.results = Findings[c]
  /\ g.pc = "classified" => g.findings = Classified(g.results, g.read)
  /\ g.findings # {} => \E c \in Reported : {x.f : x \in g.findings} = Findings[c]

AuditInv ==
  /\ agCircuit \in Reported
  /\ agSarif = <<>> \/ \E c \in Reported : agSarif = <<Findings[c]>>
  /\ GateOK(agGate)
  /\ AG!PassIsOfTheCircuit

LEMMA ClassifiedTyped ==
  ASSUME NEW results \in SUBSET AllFindings, NEW c \in Reported
  PROVE  /\ Classified(results, c) \subseteq
              [f : AllFindings, status : {"library", "triaged-accepted", "BLOCKING"}]
         /\ {x.f : x \in Classified(results, c)} = results
<1>1. \A f \in results : [f |-> f, status |-> StatusOf(f, c)] \in Classified(results, c)
  BY DEF Classified
<1>2. \A x \in Classified(results, c) :
        \E f \in results : x = [f |-> f, status |-> StatusOf(f, c)]
  BY DEF Classified
<1>3. \A f : StatusOf(f, c) \in {"library", "triaged-accepted", "BLOCKING"}
  BY DEF StatusOf
<1> HIDE DEF StatusOf
<1>4. Classified(results, c) \subseteq
        [f : AllFindings, status : {"library", "triaged-accepted", "BLOCKING"}]
  BY <1>2, <1>3
<1>5. {x.f : x \in Classified(results, c)} = results
  <2>1. \A f \in results : f \in {x.f : x \in Classified(results, c)}
    <3>1. ASSUME NEW f \in results PROVE \E x \in Classified(results, c) : f = x.f
      <4>1. [f |-> f, status |-> StatusOf(f, c)].f = f
        OBVIOUS
      <4> QED
        BY <1>1, <4>1
    <3> QED
      BY <3>1
  <2>2. \A x \in Classified(results, c) : x.f \in results
    BY <1>2
  <2> HIDE DEF Classified
  <2> QED
    BY <2>1, <2>2
<1> QED
  BY <1>4, <1>5

\* A version without a blocking finding, read on its own lines.
LEMMA NothingBlocks ==
  ASSUME NEW c \in Reported,
         {x \in Classified(Findings[c], c) : x.status = "BLOCKING"} = {}
  PROVE  AG!Untriaged(c) = {}
<1>1. ASSUME NEW f \in Findings[c], f.ours,
             (f.named \cup SignalsOn[c][f.line]) \cap TriagedSignals = {}
      PROVE  FALSE
  <2> DEFINE x == [f |-> f, status |-> StatusOf(f, c)]
  <2>1. x.status = "BLOCKING"
    BY <1>1 DEF StatusOf
  <2>2. x \in Classified(Findings[c], c)
    BY DEF Classified
  <2> QED
    BY <2>1, <2>2
<1> QED
  BY <1>1 DEF AG!Untriaged

LEMMA AuditNext == AuditInv /\ (AG!Next \/ UNCHANGED agVars) => AuditInv'
<1> SUFFICES ASSUME AuditInv, AG!Next \/ UNCHANGED agVars PROVE AuditInv'
  OBVIOUS
<1>0. /\ agCircuit \in Reported /\ agGate \in GateRecords /\ GateOK(agGate)
      /\ agSarif = <<>> \/ \E c \in Reported : agSarif = <<Findings[c]>>
      /\ AG!PassIsOfTheCircuit
  BY DEF AuditInv, GateOK
<1>1. CASE UNCHANGED agVars
  BY <1>1 DEF agVars, AuditInv, GateOK, AG!PassIsOfTheCircuit
<1>2. CASE AG!Edit
  BY <1>0, <1>2 DEF AG!Edit, AuditInv, GateOK, AG!PassIsOfTheCircuit, Reported
<1>3. CASE AG!circomspect
  <2>1. PICK a \in {<<>>, <<agCircuit>>} :
          /\ agGate' = [agGate EXCEPT !.pc = "spawned", !.analysed = a]
          /\ UNCHANGED <<agCircuit, agJson>>
          /\ \/ a = <<agCircuit>> /\ agSarif' = <<Findings[agCircuit]>>
             \/ a = <<>> /\ agSarif' = agSarif
    BY <1>3 DEF AG!circomspect, AG!None
  <2>2. /\ agGate' \in GateRecords /\ agGate'.pc = "spawned" /\ agGate'.analysed = a
        /\ agGate'.findings = agGate.findings
    <3>1. a \in {<<>>} \cup {<<c>> : c \in Reported}
      BY <1>0
    <3>2. agGate' = [agGate EXCEPT !.pc = "spawned", !.analysed = a]
      BY <2>1
    <3> QED
      BY <1>0, <3>1, <3>2 DEF GateRecords
  <2>3. agSarif' = <<>> \/ \E c \in Reported : agSarif' = <<Findings[c]>>
    BY <1>0, <2>1
  <2>4. \A c \in Reported : a = <<c>> => agSarif' = <<Findings[c]>>
    <3>1. ASSUME NEW c \in Reported, a = <<c>> PROVE agSarif' = <<Findings[c]>>
      <4>1. c = agCircuit
        BY <2>1, <3>1
      <4> QED
        BY <2>1, <3>1, <4>1
    <3> QED
      BY <3>1
  <2>5. agGate.findings # {} => \E c \in Reported : {x.f : x \in agGate.findings} = Findings[c]
    BY <1>0 DEF GateOK
  <2>6. GateOK(agGate)'
    BY <2>2, <2>4, <2>5 DEF GateOK
  <2> QED
    BY <1>0, <2>1, <2>3, <2>6 DEF AuditInv, AG!PassIsOfTheCircuit
<1>4. CASE AG!readSarif
  <2>1. agGate.pc = "spawned" /\ UNCHANGED <<agCircuit, agSarif, agJson>>
    BY <1>4 DEF AG!readSarif
  <2>2. CASE agGate' = [agGate EXCEPT !.pc = "threw"]
    <3>1. /\ agGate' \in GateRecords /\ agGate'.pc = "threw"
          /\ agGate'.findings = agGate.findings
      BY <1>0, <2>2 DEF GateRecords, AG!Ended
    <3> QED
      BY <1>0, <2>1, <3>1 DEF AuditInv, GateOK, AG!PassIsOfTheCircuit
  <2>3. CASE agSarif # <<>> /\ agGate' = [agGate EXCEPT !.pc = "parsed", !.results = agSarif[1]]
    <3>1. PICK d \in Reported : agSarif = <<Findings[d]>>
      BY <1>0, <2>3
    <3>2. agSarif[1] = Findings[d] /\ Findings[d] \in SUBSET AllFindings
      BY <3>1 DEF AllFindings
    <3>3. /\ agGate' \in GateRecords /\ agGate'.pc = "parsed"
          /\ agGate'.findings = agGate.findings /\ agGate'.analysed = agGate.analysed
          /\ agGate'.results = Findings[d]
      BY <1>0, <2>3, <3>2 DEF GateRecords
    <3>4. \A c \in Reported : agGate.analysed = <<c>> => Findings[c] = Findings[d]
      <4>1. ASSUME NEW c \in Reported, agGate.analysed = <<c>> PROVE Findings[c] = Findings[d]
        <5>1. agSarif = <<Findings[c]>>
          BY <1>0, <2>1, <4>1 DEF GateOK
        <5> QED
          BY <3>1, <5>1
      <4> QED
        BY <4>1
    <3>5. GateOK(agGate)'
      BY <1>0, <2>1, <3>3, <3>4 DEF GateOK
    <3> QED
      BY <1>0, <2>1, <3>5 DEF AuditInv, AG!PassIsOfTheCircuit
  <2> QED
    BY <1>4, <2>2, <2>3 DEF AG!readSarif, AG!None
<1>5. CASE AG!classify
  <2> DEFINE found == Classified(agGate.results, agCircuit)
  <2>1. agGate.pc = "parsed" /\ UNCHANGED <<agCircuit, agSarif, agJson>>
    BY <1>5 DEF AG!classify
  <2>2. agGate' = [agGate EXCEPT !.pc = "classified", !.read = agCircuit, !.findings = found]
    BY <1>5 DEF AG!classify, AG!status, AG!Signals, Classified, StatusOf
  <2>3. /\ found \subseteq
             [f : AllFindings, status : {"library", "triaged-accepted", "BLOCKING"}]
        /\ {x.f : x \in found} = agGate.results
    BY <1>0, ClassifiedTyped DEF GateRecords
  <2> HIDE DEF found
  <2>4. /\ agGate' \in GateRecords /\ agGate'.pc = "classified"
        /\ agGate'.findings = found /\ agGate'.analysed = agGate.analysed
        /\ agGate'.results = agGate.results /\ agGate'.read = agCircuit
    BY <1>0, <2>2, <2>3 DEF GateRecords
  <2>5. PICK c \in Reported : agGate.results = Findings[c]
    BY <1>0, <2>1 DEF GateOK
  <2>6. GateOK(agGate)'
    BY <1>0, <2>1, <2>3, <2>4, <2>5 DEF GateOK, found
  <2> QED
    BY <1>0, <2>1, <2>6 DEF AuditInv, AG!PassIsOfTheCircuit
<1>6. CASE AG!writeSummary
  <2>1. /\ agGate.pc = "classified" /\ UNCHANGED <<agCircuit, agSarif>>
        /\ agGate' = [agGate EXCEPT !.pc = "written"]
        /\ agJson' = <<[pass |-> AG!blocking = {}, findings |-> agGate.findings,
                        analysed |-> agGate.analysed, read |-> agGate.read]>>
    BY <1>6 DEF AG!writeSummary
  <2>2. /\ agGate' \in GateRecords /\ agGate'.pc = "written"
        /\ agGate'.findings = agGate.findings
    BY <1>0, <2>1 DEF GateRecords
  <2>3. GateOK(agGate)'
    BY <1>0, <2>2 DEF GateOK
  <2>4. ASSUME AG!blocking = {}, agGate.analysed = <<agGate.read>>
        PROVE  AG!Untriaged(agGate.read) = {}
    <3>1. /\ agGate.read \in Reported /\ agGate.results = Findings[agGate.read]
          /\ agGate.findings = Classified(agGate.results, agGate.read)
      BY <1>0, <2>1, <2>4 DEF GateOK, GateRecords
    <3> QED
      BY <2>4, <3>1, NothingBlocks DEF AG!blocking
  <2>5. /\ agJson'[1].pass <=> AG!blocking = {}
        /\ agJson'[1].analysed = agGate.analysed /\ agJson'[1].read = agGate.read
    BY <2>1
  <2>6. AG!PassIsOfTheCircuit'
    BY <2>4, <2>5 DEF AG!PassIsOfTheCircuit, AG!Untriaged
  <2> QED
    BY <1>0, <2>1, <2>3, <2>6 DEF AuditInv
<1>7. CASE AG!exit \/ AG!Kill
  <2>1. PICK pc \in AG!Ended : agGate' = [agGate EXCEPT !.pc = pc]
    BY <1>7 DEF AG!exit, AG!Kill, AG!Ended
  <2>2. UNCHANGED <<agCircuit, agSarif, agJson>>
    BY <1>7 DEF AG!exit, AG!Kill
  <2>3. agGate' \in GateRecords /\ agGate'.pc = pc /\ agGate'.findings = agGate.findings
    BY <1>0, <2>1 DEF GateRecords
  <2>4. GateOK(agGate)'
    BY <1>0, <2>3 DEF GateOK, AG!Ended
  <2> QED
    BY <1>0, <2>2, <2>4 DEF AuditInv, AG!PassIsOfTheCircuit
<1> QED
  BY <1>1, <1>2, <1>3, <1>4, <1>5, <1>6, <1>7 DEF AG!Next

LEMMA AuditAlways == ToolchainSpec => []AuditInv
<1>1. ToolchainInit => AuditInv
  BY DEF ToolchainInit, AG!Init, AuditInv, AG!None, AG!PassIsOfTheCircuit, AG!Ended, GateOK,
         GateRecords, Reported
<1>2. AuditInv /\ [ToolchainNext]_allVars => AuditInv'
  BY AuditNext, OneCommandMoves
<1> QED
  BY <1>1, <1>2, PTL DEF ToolchainSpec

\* circomspect_audit.ts:96-100, 114: a summary that passes and whose circuit
\* was not edited under the gate is of a circuit without untriaged findings,
\* whatever the analyser reports, fails to report or has left behind.
THEOREM PassIsHonest == ToolchainSpec => []PassIsOfTheCircuit
<1>1. AuditInv => PassIsOfTheCircuit
  BY DEF AuditInv, PassIsOfTheCircuit
<1> QED
  BY AuditAlways, <1>1, PTL

-----------------------------------------------------------------------------
(* Reports: the files that a report was made from, and its two lists.      *)
VersionsOf == CellVersions \cup {0}

ReportOK(r) ==
  r = <<>> \/ \E files \in [RP!Files -> VersionsOf] :
                r = <<[files |-> files, table |-> RP!divergences(files),
                       within |-> {c \in CellClaims : RP!Within(c, files)}]>>

ReportInv ==
  command = "report" =>
    /\ rpResults \in [RP!Files -> VersionsOf]
    /\ rpGen \in [pc : {"ended", "loaded", "reported"}, loaded : [RP!Files -> VersionsOf]]
    /\ ReportOK(rpReport)

LEMMA MeasuredTyped ==
  ASSUME NEW files \in [RP!Files -> VersionsOf], NEW c \in CellClaims
  PROVE  RP!measured(c, files) \in Int \cup {Absent, NotANumber}
<1>1. c.file \in RP!Files
  BY DEF RP!Files
<1>2. files[c.file] \in VersionsOf
  BY <1>1
<1>3. CASE files[c.file] = 0
  BY <1>3 DEF RP!measured
<1>4. CASE files[c.file] # 0
  <2>1. files[c.file] \in CellVersions
    BY <1>2, <1>4 DEF VersionsOf
  <2> QED
    BY <1>4, <2>1, ToolchainAssumption DEF RP!measured
<1> QED
  BY <1>3, <1>4

\* The two conditions share out the cells that were measured.
LEMMA ListedOnce ==
  ASSUME NEW files \in [RP!Files -> VersionsOf],
         NEW table, table = RP!divergences(files),
         NEW within, within = {c \in CellClaims : RP!Within(c, files)}
  PROVE  /\ table \cap within = {}
         /\ table \cup within =
              {c \in CellClaims : RP!measured(c, files) \notin {Absent, NotANumber}}
<1> USE ToolchainAssumption
<1>1. ASSUME NEW c \in CellClaims
      PROVE  /\ RP!Within(c, files) => c \notin table
             /\ c \in table \/ RP!Within(c, files) <=>
                  RP!measured(c, files) \notin {Absent, NotANumber}
  <2> DEFINE d == RP!measured(c, files)
  <2>1. d \in Int \cup {Absent, NotANumber}
    BY MeasuredTyped
  <2>2. c \in table <=> /\ d \notin {Absent, NotANumber}
                        /\ d > 5 \/ -d > 5
    BY DEF RP!divergences, RP!THRESHOLD_PCT
  <2>3. RP!Within(c, files) <=> /\ d \notin {Absent, NotANumber}
                                /\ d <= 5 /\ -d <= 5
    BY DEF RP!Within, RP!THRESHOLD_PCT
  <2> HIDE DEF d
  <2>4. CASE d \in {Absent, NotANumber}
    BY <2>2, <2>3, <2>4 DEF d
  <2>5. CASE d \in Int /\ d \notin {Absent, NotANumber}
    <3>1. (d > 5 \/ -d > 5) <=> ~(d <= 5 /\ -d <= 5)
      BY <2>5
    <3> QED
      BY <2>2, <2>3, <2>5, <3>1 DEF d
  <2> QED
    BY <2>1, <2>4, <2>5
<1>2. \A c \in table : c \in CellClaims
  BY DEF RP!divergences
<1>3. \A c : c \in within <=> c \in CellClaims /\ RP!Within(c, files)
  OBVIOUS
<1> QED
  BY <1>1, <1>2, <1>3

LEMMA ReportNext ==
  ASSUME ReportInv, command' = command,
         command = "report" => RP!Next \/ UNCHANGED rpVars
  PROVE  ReportInv'
<1> SUFFICES ASSUME command = "report",
               rpResults \in [RP!Files -> VersionsOf],
               rpGen \in [pc : {"ended", "loaded", "reported"},
                          loaded : [RP!Files -> VersionsOf]],
               ReportOK(rpReport), RP!Next \/ UNCHANGED rpVars
             PROVE  /\ rpResults' \in [RP!Files -> VersionsOf]
                    /\ rpGen' \in [pc : {"ended", "loaded", "reported"},
                                   loaded : [RP!Files -> VersionsOf]]
                    /\ ReportOK(rpReport')
  BY DEF ReportInv, ReportOK
<1>1. CASE UNCHANGED rpVars
  BY <1>1 DEF rpVars
<1>2. ASSUME NEW f \in RP!Files, RP!Bench(f)
      PROVE  rpResults' \in [RP!Files -> VersionsOf] /\ UNCHANGED <<rpReport, rpGen>>
  BY <1>2 DEF RP!Bench, VersionsOf
<1>3. CASE RP!latency
  BY <1>3 DEF RP!latency, RP!Files
<1>4. CASE RP!load
  BY <1>4 DEF RP!load
<1>5. CASE RP!writeResults
  <2>1. /\ UNCHANGED rpResults
        /\ rpGen' \in [pc : {"ended", "loaded", "reported"}, loaded : [RP!Files -> VersionsOf]]
    BY <1>5 DEF RP!writeResults
  <2>2. rpReport' = <<[files |-> rpGen.loaded, table |-> RP!divergences(rpGen.loaded),
                       within |-> {c \in CellClaims : RP!Within(c, rpGen.loaded)}]>>
    BY <1>5 DEF RP!writeResults
  <2>3. rpGen.loaded \in [RP!Files -> VersionsOf]
    OBVIOUS
  <2>4. ReportOK(rpReport')
    BY <2>2, <2>3 DEF ReportOK
  <2> QED
    BY <2>1, <2>4
<1>6. CASE RP!writeMirror \/ RP!Kill
  BY <1>6 DEF RP!writeMirror, RP!Kill
<1>7. CASE RP!Write \/ RP!DeleteBlock
  BY <1>7 DEF RP!Write, RP!DeleteBlock
<1> QED
  BY <1>1, <1>2, <1>3, <1>4, <1>5, <1>6, <1>7 DEF RP!Next

LEMMA ReportAlways == ToolchainSpec => []ReportInv
<1>1. ToolchainInit => ReportInv
  BY DEF ToolchainInit, RP!Init, ReportInv, ReportOK, VersionsOf
<1>2. ReportInv /\ [ToolchainNext]_allVars => ReportInv'
  BY ReportNext, OneCommandMoves
<1> QED
  BY <1>1, <1>2, PTL DEF ToolchainSpec

\* generate_results.ts:8-10, 349-355: whatever the claims, their measurements
\* and the files that are missing, a measured cell is listed once and a cell
\* without a measurement is not listed.
THEOREM CellsListedOnce == ToolchainSpec => []EveryCellIsListedOnce
<1>1. ReportInv => EveryCellIsListedOnce
  <2> SUFFICES ASSUME ReportInv, command = "report", rpReport # <<>>
               PROVE  RP!EveryCellIsListedOnce
    BY DEF EveryCellIsListedOnce, RP!EveryCellIsListedOnce
  <2>1. PICK files \in [RP!Files -> VersionsOf] :
          rpReport = <<[files |-> files, table |-> RP!divergences(files),
                        within |-> {c \in CellClaims : RP!Within(c, files)}]>>
    BY DEF ReportInv, ReportOK
  <2>2. /\ rpReport[1].files = files /\ rpReport[1].table = RP!divergences(files)
        /\ rpReport[1].within = {c \in CellClaims : RP!Within(c, files)}
    BY <2>1
  <2> QED
    BY <2>2, ListedOnce DEF RP!EveryCellIsListedOnce
<1> QED
  BY ReportAlways, <1>1, PTL

-----------------------------------------------------------------------------
(* LifecycleTests: a program that reached a place has had every answer that *)
(* the places before it demand.                                            *)
TrialInv ==
  /\ ltResults \in [LT!Programs -> {"none", "pass", "fail"}]
  /\ ltProgram \in LT!Programs \cup {"none"}
  /\ ltProgram \in {"e2e", "demo"} =>
       ltPc \in 1..10 /\ \A k \in 1..9 : k < ltPc => LT!AnswerHolds(LT!STEPS[k])
  /\ ltProgram = "negative" =>
       /\ 1 \in ltOk => ltSut.opening = "revoked"
       /\ 3 \in ltOk => ltSut.staleValid /\ ltSut.rootMoves
  /\ PassedVerdictsAreEvidence

\* A program ends, with a verdict that is evidence or without one.
LEMMA TrialLeaves ==
  ASSUME TrialInv, NEW verdict \in {"none", "pass", "fail"}, LT!Leave(verdict),
         verdict # "none" => ltProgram \in LT!Programs,
         verdict = "pass" /\ ltProgram = "negative" =>
           ltSut.opening = "revoked" /\ ltSut.staleValid /\ ltSut.rootMoves,
         verdict = "pass" /\ ltProgram \in {"e2e", "demo"} =>
           ltSut.offCircuitOk /\ ltSut.accepts /\ ~ltSut.acceptsReplay
  PROVE  TrialInv'
<1>1. ltSut' = ltSut /\ ltProgram' = "none"
  BY DEF LT!Leave, LT!None
<1>2. ltResults' \in [LT!Programs -> {"none", "pass", "fail"}]
        /\ \A p \in LT!Programs : ltResults'[p] = "pass" =>
             ltResults[p] = "pass" \/ (p = ltProgram /\ verdict = "pass")
  <2>1. CASE verdict = "none"
    BY <2>1 DEF LT!Leave, LT!None, TrialInv
  <2>2. CASE verdict # "none"
    <3>1. ltResults' = [ltResults EXCEPT ![ltProgram] = verdict]
      BY <2>2 DEF LT!Leave, LT!None
    <3> QED
      BY <2>2, <3>1 DEF TrialInv
  <2> QED
    BY <2>1, <2>2
<1>3. PassedVerdictsAreEvidence'
  BY <1>1, <1>2
     DEF TrialInv, PassedVerdictsAreEvidence, LT!PassedVerdictsAreEvidence, LT!Programs
<1> QED
  BY <1>1, <1>2, <1>3 DEF TrialInv

\* The places of the life cycle whose answers a verdict is about.
LEMMA LifecyclePlaces ==
  /\ Len(LT!STEPS) = 9
  /\ LT!STEPS[2] = "offCircuit" /\ LT!STEPS[4] = "acceptRapidsnark"
  /\ LT!STEPS[9] = "rejectReplay"
BY DEF LT!STEPS

LEMMA TrialNext == TrialInv /\ (LT!Next \/ UNCHANGED ltVars) => TrialInv'
<1> SUFFICES ASSUME TrialInv, LT!Next \/ UNCHANGED ltVars PROVE TrialInv'
  OBVIOUS
<1>1. CASE UNCHANGED ltVars
  BY <1>1 DEF ltVars, TrialInv, LT!AnswerHolds, PassedVerdictsAreEvidence,
        LT!PassedVerdictsAreEvidence
<1>2. CASE LT!Start
  BY <1>2 DEF LT!Start, LT!None, TrialInv, PassedVerdictsAreEvidence,
        LT!PassedVerdictsAreEvidence, LT!Programs
<1>3. CASE LT!Kill
  BY <1>3, TrialLeaves DEF LT!Kill, LT!None
<1>4. CASE LT!record
  <2>1. /\ ltProgram \in {"e2e", "demo"} /\ ltPc \in 1..10 /\ ltPc <= 9
        /\ LT!AnswerHolds(LT!STEPS[ltPc]) /\ ltPc' = ltPc + 1
        /\ UNCHANGED <<ltSut, ltProgram, ltResults>>
    BY <1>4, LifecyclePlaces DEF LT!record, LT!InLifecycle, TrialInv
  <2>2. ltPc' \in 1..10
    BY <2>1
  <2>3. \A s : LT!AnswerHolds(s)' <=> LT!AnswerHolds(s)
    BY <2>1 DEF LT!AnswerHolds
  <2>4. ASSUME NEW k \in 1..9, k < ltPc' PROVE LT!AnswerHolds(LT!STEPS[k])
    <3>1. k < ltPc \/ k = ltPc
      BY <2>1, <2>4
    <3> QED
      BY <2>1, <3>1 DEF TrialInv
  <2> QED
    BY <2>1, <2>2, <2>3, <2>4
       DEF TrialInv, PassedVerdictsAreEvidence, LT!PassedVerdictsAreEvidence
<1>5. CASE LT!recordFailure
  BY <1>5, TrialLeaves DEF LT!recordFailure, LT!Throw, LT!None
<1>6. CASE LT!writeLifecycle
  <2>1. /\ ltProgram \in {"e2e", "demo"} /\ ltPc \in 1..10 /\ ltPc > 9
    BY <1>6, LifecyclePlaces DEF LT!writeLifecycle, LT!InLifecycle, TrialInv
  <2>2. \A k \in {2, 4, 9} : LT!AnswerHolds(LT!STEPS[k])
    <3>1. \A k \in {2, 4, 9} : k \in 1..9 /\ k < ltPc
      BY <2>1
    <3> QED
      BY <2>1, <3>1 DEF TrialInv
  <2>3. ltSut.offCircuitOk /\ ltSut.accepts /\ ~ltSut.acceptsReplay
    BY <2>2, LifecyclePlaces DEF LT!AnswerHolds
  <2>4. PICK verdict \in {"pass", "fail"} : LT!Leave(verdict)
    BY <1>6 DEF LT!writeLifecycle
  <2> QED
    BY <2>1, <2>3, <2>4, TrialLeaves DEF LT!Programs
<1>7. CASE LT!pathA \/ LT!pathB \/ LT!pathC
  <2>1. ltProgram = "negative"
    BY <1>7 DEF LT!pathA, LT!pathB, LT!pathC, LT!Path
  <2>2. CASE LT!Throw
    BY <2>2, TrialLeaves DEF LT!Throw, LT!None
  <2>3. ASSUME NEW p \in 1..3, ltOk' \in {ltOk, ltOk \cup {p}},
               UNCHANGED <<ltSut, ltProgram, ltResults>>,
               p = 1 /\ ltOk' # ltOk => ltSut.opening = "revoked",
               p = 3 /\ ltOk' # ltOk => ltSut.staleValid /\ ltSut.rootMoves
        PROVE  TrialInv'
    BY <2>1, <2>3 DEF TrialInv, PassedVerdictsAreEvidence, LT!PassedVerdictsAreEvidence
  <2>4. CASE LT!Taken(1, ltSut.opening = "revoked")
    BY <2>3, <2>4 DEF LT!Taken
  <2>5. CASE LT!Taken(2, ~ltSut.mixedSatisfiable) \/ LT!Taken(2, TRUE)
    BY <2>3, <2>5 DEF LT!Taken
  <2>6. CASE LT!Taken(3, ltSut.staleValid /\ ltSut.rootMoves)
    BY <2>3, <2>6 DEF LT!Taken
  <2> QED
    BY <1>7, <2>2, <2>4, <2>5, <2>6 DEF LT!pathA, LT!pathB, LT!pathC
<1>8. CASE LT!writeNegative
  <2>1. ltProgram = "negative"
    BY <1>8 DEF LT!writeNegative, LT!Path
  <2>2. CASE ltOk = {1, 2, 3} /\ LT!Leave("pass")
    BY <2>1, <2>2, TrialLeaves DEF TrialInv, LT!Programs
  <2>3. CASE LT!Leave("fail")
    BY <2>1, <2>3, TrialLeaves DEF LT!Programs
  <2> QED
    BY <1>8, <2>2, <2>3 DEF LT!writeNegative
<1>9. CASE LT!forgeAndPresent
  <2>1. CASE LT!Throw
    BY <2>1, TrialLeaves DEF LT!Throw, LT!None
  <2>2. CASE ltProgram = "probe" /\ LT!Taken(1, ltSut.acceptsForged)
    BY <2>2 DEF LT!Taken, TrialInv, PassedVerdictsAreEvidence, LT!PassedVerdictsAreEvidence
  <2> QED
    BY <1>9, <2>1, <2>2 DEF LT!forgeAndPresent
<1>10. CASE LT!writeProbe
  <2>1. PICK verdict \in {"pass", "fail"} : LT!Leave(verdict) /\ ltProgram = "probe"
    BY <1>10 DEF LT!writeProbe
  <2> QED
    BY <2>1, TrialLeaves DEF LT!Programs
<1> QED
  BY <1>1, <1>2, <1>3, <1>4, <1>5, <1>6, <1>7, <1>8, <1>9, <1>10 DEF LT!Next

LEMMA TrialAlways == ToolchainSpec => []TrialInv
<1>1. ToolchainInit => TrialInv
  BY DEF ToolchainInit, LT!Init, LT!None, TrialInv, PassedVerdictsAreEvidence,
         LT!PassedVerdictsAreEvidence, LT!Programs
<1>2. TrialInv /\ [ToolchainNext]_allVars => TrialInv'
  BY TrialNext, OneCommandMoves
<1> QED
  BY <1>1, <1>2, PTL DEF ToolchainSpec

\* negative_test.ts:24-29, e2e_core.ts:183, 206, 234: for every way that the
\* system may answer, a recorded pass is evidence of what its program is about.
THEOREM VerdictsAreEvidence == ToolchainSpec => []PassedVerdictsAreEvidence
<1>1. TrialInv => PassedVerdictsAreEvidence
  BY DEF TrialInv
<1> QED
  BY TrialAlways, <1>1, PTL

-----------------------------------------------------------------------------
(* BenchGuard: a guard that let its command through counted every chain,   *)
(* so the chains of two commands that are through fit in what the later    *)
(* one allows; with chains of three they never do.                         *)
ProcFields == {"pc", "step", "attempt", "bad", "forced", "files"}
ProcPlaces == BG!Ended \cup {"look", "load", "decide", "steps", "work"}
ProcRecords ==
  [pc : ProcPlaces, step : 0..10, attempt : 1..ATTEMPTS, bad : BOOLEAN,
   forced : BOOLEAN, files : 0..2]

\* What an update of a command's fields may be.
Update(r) ==
  /\ DOMAIN r \subseteq ProcFields
  /\ "pc" \in DOMAIN r => r.pc \in ProcPlaces
  /\ "step" \in DOMAIN r => r.step \in 0..10
  /\ "attempt" \in DOMAIN r => r.attempt \in 1..ATTEMPTS
  /\ "bad" \in DOMAIN r => r.bad \in BOOLEAN
  /\ "forced" \in DOMAIN r => r.forced \in BOOLEAN
  /\ "files" \in DOMAIN r => r.files \in 0..2

LEMMA OverTyped ==
  ASSUME NEW r, NEW s \in ProcRecords, Update(r)
  PROVE  /\ BG!Over(r, s) \in ProcRecords
         /\ \A x \in ProcFields :
              BG!Over(r, s)[x] = IF x \in DOMAIN r THEN r[x] ELSE s[x]
<1>1. DOMAIN s = ProcFields
  BY DEF ProcRecords, ProcFields
<1>2. DOMAIN r \cup DOMAIN s = ProcFields
  BY <1>1 DEF Update
<1> DEFINE o == BG!Over(r, s)
           V(x) == IF x \in DOMAIN r THEN r[x] ELSE s[x]
<1>3. o = [x \in ProcFields |-> V(x)]
  BY <1>2 DEF BG!Over
<1>4. o = [pc |-> V("pc"), step |-> V("step"), attempt |-> V("attempt"),
           bad |-> V("bad"), forced |-> V("forced"), files |-> V("files")]
  BY <1>3 DEF ProcFields
<1>5. /\ V("pc") \in ProcPlaces /\ V("step") \in 0..10 /\ V("attempt") \in 1..ATTEMPTS
      /\ V("bad") \in BOOLEAN /\ V("forced") \in BOOLEAN /\ V("files") \in 0..2
  BY DEF Update, ProcRecords
<1> HIDE DEF o, V
<1>6. o \in ProcRecords
  BY <1>4, <1>5 DEF ProcRecords
<1>7. \A x \in ProcFields : o[x] = V(x)
  BY <1>3
<1> QED
  BY <1>6, <1>7 DEF o, V

LEMMA Became ==
  ASSUME bgProc \in [BG!Tops -> ProcRecords], NEW t \in BG!Tops, NEW r, Update(r),
         BG!Become(t, r)
  PROVE  \E p \in ProcRecords :
           /\ bgProc' = [bgProc EXCEPT ![t] = p]
           /\ p.pc = IF "pc" \in DOMAIN r THEN r.pc ELSE bgProc[t].pc
           /\ p.step = IF "step" \in DOMAIN r THEN r.step ELSE bgProc[t].step
           /\ p.attempt = IF "attempt" \in DOMAIN r THEN r.attempt ELSE bgProc[t].attempt
           /\ p.bad = IF "bad" \in DOMAIN r THEN r.bad ELSE bgProc[t].bad
           /\ p.forced = IF "forced" \in DOMAIN r THEN r.forced ELSE bgProc[t].forced
           /\ p.files = IF "files" \in DOMAIN r THEN r.files ELSE bgProc[t].files
<1> DEFINE o == BG!Over(r, bgProc[t])
<1>1. bgProc' = [bgProc EXCEPT ![t] = o]
  BY DEF BG!Become
<1>2. /\ o \in ProcRecords
      /\ \A x \in ProcFields : o[x] = IF x \in DOMAIN r THEN r[x] ELSE bgProc[t][x]
  BY OverTyped
<1> HIDE DEF o
<1>3. /\ o["pc"] = IF "pc" \in DOMAIN r THEN r["pc"] ELSE bgProc[t]["pc"]
      /\ o["step"] = IF "step" \in DOMAIN r THEN r["step"] ELSE bgProc[t]["step"]
      /\ o["attempt"] = IF "attempt" \in DOMAIN r THEN r["attempt"] ELSE bgProc[t]["attempt"]
      /\ o["bad"] = IF "bad" \in DOMAIN r THEN r["bad"] ELSE bgProc[t]["bad"]
      /\ o["forced"] = IF "forced" \in DOMAIN r THEN r["forced"] ELSE bgProc[t]["forced"]
      /\ o["files"] = IF "files" \in DOMAIN r THEN r["files"] ELSE bgProc[t]["files"]
  BY <1>2 DEF ProcFields
<1> QED
  BY <1>1, <1>2, <1>3

\* A guard counts at least the chains of two commands that have not ended.
LEMMA ChainsCounted ==
  ASSUME bgProc \in [BG!Tops -> ProcRecords], NEW t \in BG!Tops, NEW u \in BG!Tops,
         t # u, bgProc[t].pc \notin BG!Ended, bgProc[u].pc \notin BG!Ended
  PROVE  /\ BG!nodeCount \in Nat /\ BG!Ancestry(t) \in Nat /\ BG!Ancestry(u) \in Nat
         /\ BG!Ancestry(t) >= Chain /\ BG!Ancestry(u) >= Chain
         /\ BG!nodeCount >= BG!Ancestry(t) + BG!Ancestry(u)
<1> DEFINE S == UNION {{v} \X (1..BG!NodesOf(v)) : v \in BG!Tops}
           T == {t} \X (1..BG!Ancestry(t))
           U == {u} \X (1..BG!Ancestry(u))
<1>c. Chain \in Nat /\ IsFiniteSet(BG!Tops)
  BY ToolchainAssumption DEF BG!Tops
<1>1. \A v \in BG!Tops :
        /\ BG!Ancestry(v) \in Nat /\ BG!Ancestry(v) >= Chain /\ BG!Ancestry(v) <= 2 * Chain
        /\ BG!Worker(v) \in Nat /\ BG!Worker(v) <= Chain
  BY <1>c DEF BG!Ancestry, BG!Worker
<1>2. \A v \in BG!Tops : BG!NodesOf(v) \in Nat /\ BG!NodesOf(v) <= 3 * Chain
  BY <1>c, <1>1 DEF BG!NodesOf
<1>3. BG!NodesOf(t) >= BG!Ancestry(t) /\ BG!NodesOf(u) >= BG!Ancestry(u)
  BY <1>1 DEF BG!NodesOf
<1>4. IsFiniteSet(S)
  <2>1. \A v \in BG!Tops : \A i \in 1..BG!NodesOf(v) : i \in 1..(3 * Chain)
    BY <1>c, <1>2
  <2>2. S \subseteq BG!Tops \X (1..(3 * Chain))
    BY <2>1
  <2>3. IsFiniteSet(1..(3 * Chain))
    BY <1>c, FS_Interval
  <2>4. IsFiniteSet(BG!Tops \X (1..(3 * Chain)))
    BY <1>c, <2>3, FS_Product
  <2> HIDE DEF S
  <2> QED
    BY <2>2, <2>4, FS_Subset
<1>5. T \cup U \subseteq S
  <2>1. /\ \A i \in 1..BG!Ancestry(t) : i \in 1..BG!NodesOf(t)
        /\ \A i \in 1..BG!Ancestry(u) : i \in 1..BG!NodesOf(u)
    BY <1>1, <1>2, <1>3
  <2>2. T \subseteq {t} \X (1..BG!NodesOf(t)) /\ U \subseteq {u} \X (1..BG!NodesOf(u))
    BY <2>1
  <2>3. {t} \X (1..BG!NodesOf(t)) \subseteq S /\ {u} \X (1..BG!NodesOf(u)) \subseteq S
    OBVIOUS
  <2> HIDE DEF S, T, U
  <2> QED
    BY <2>2, <2>3
<1>6. ASSUME NEW v \in {t, u}
      PROVE  /\ IsFiniteSet({v} \X (1..BG!Ancestry(v)))
             /\ Cardinality({v} \X (1..BG!Ancestry(v))) = BG!Ancestry(v)
  <2>1. BG!Ancestry(v) \in Nat
    BY <1>1
  <2>2. IsFiniteSet(1..BG!Ancestry(v)) /\ Cardinality(1..BG!Ancestry(v)) = BG!Ancestry(v)
    BY <2>1, FS_Interval
  <2>3. IsFiniteSet({v}) /\ Cardinality({v}) = 1
    BY FS_Singleton
  <2>4. /\ IsFiniteSet({v} \X (1..BG!Ancestry(v)))
        /\ Cardinality({v} \X (1..BG!Ancestry(v)))
             = Cardinality({v}) * Cardinality(1..BG!Ancestry(v))
    BY <2>2, <2>3, FS_Product
  <2> QED
    BY <2>1, <2>2, <2>3, <2>4
<1>7. T \cap U = {}
  OBVIOUS
<1>8. /\ IsFiniteSet(T) /\ Cardinality(T) = BG!Ancestry(t)
      /\ IsFiniteSet(U) /\ Cardinality(U) = BG!Ancestry(u)
  BY <1>6
<1> HIDE DEF S, T, U
<1>9. /\ IsFiniteSet(T \cup U)
      /\ Cardinality(T \cup U) = Cardinality(T) + Cardinality(U) - Cardinality(T \cap U)
  BY <1>8, FS_Union
<1>10. Cardinality(T \cup U) = BG!Ancestry(t) + BG!Ancestry(u)
  <2>1. Cardinality(T \cap U) = 0
    BY <1>7, FS_EmptySet
  <2> QED
    BY <1>1, <1>8, <1>9, <2>1
<1>11. Cardinality(S) \in Nat /\ Cardinality(S) >= Cardinality(T \cup U)
  BY <1>4, <1>5, FS_Subset, FS_CardinalityType
<1>12. BG!nodeCount = Cardinality(S)
  BY DEF BG!nodeCount, S, BG!Cardinality, Cardinality, BG!IsFiniteSet, IsFiniteSet
<1> QED
  BY <1>1, <1>10, <1>11, <1>12

\* The campaign's steps, and the files that four of them write.
Writers == {"pqc", "zk", "baseline", "gas"}

LEMMA CampaignSteps ==
  /\ Len(BG!STEPS) = 10 /\ DOMAIN BG!Files = Writers
  /\ BG!STEPS[2] = "pqc" /\ BG!STEPS[3] = "zk" /\ BG!STEPS[4] = "baseline"
  /\ BG!STEPS[5] = "gas"
  /\ \A k \in 1..10 : BG!STEPS[k] \in {"audit", "pqc", "zk", "baseline", "gas", "negative",
                                      "probe", "e2e", "latency", "tables"}
<1>1. Len(BG!STEPS) = 10 /\ DOMAIN BG!Files = Writers
  BY DEF BG!STEPS, BG!Files, Writers
<1>2. /\ BG!STEPS[2] = "pqc" /\ BG!STEPS[3] = "zk" /\ BG!STEPS[4] = "baseline"
      /\ BG!STEPS[5] = "gas"
  BY DEF BG!STEPS
<1>3. BG!STEPS \in Seq({"audit", "pqc", "zk", "baseline", "gas", "negative",
                        "probe", "e2e", "latency", "tables"})
  BY DEF BG!STEPS
<1>4. \A k \in 1..Len(BG!STEPS) :
        BG!STEPS[k] \in {"audit", "pqc", "zk", "baseline", "gas", "negative",
                         "probe", "e2e", "latency", "tables"}
  <2> DEFINE names == {"audit", "pqc", "zk", "baseline", "gas", "negative",
                       "probe", "e2e", "latency", "tables"}
             steps == BG!STEPS
  <2>1. steps \in Seq(names)
    BY <1>3
  <2> HIDE DEF names, steps
  <2>2. \A k \in 1..Len(steps) : steps[k] \in names
    BY <2>1
  <2> QED
    BY <2>2 DEF names, steps
<1>5. 1..Len(BG!STEPS) = 1..10
  BY <1>1
<1> QED
  BY <1>1, <1>2, <1>4, <1>5

LEMMA FilesOfWriters ==
  /\ Len(BG!Files["pqc"]) = 2 /\ Len(BG!Files["zk"]) = 1
  /\ Len(BG!Files["baseline"]) = 1 /\ Len(BG!Files["gas"]) = 1
  /\ \A w \in Writers : Len(BG!Files[w]) \in 1..2
  /\ \A w \in Writers, i \in 1..2 : i <= Len(BG!Files[w]) => BG!Files[w][i] \in BG!ResultFiles
  /\ \A f \in BG!ResultFiles : \E w \in Writers, i \in 1..2 :
       i <= Len(BG!Files[w]) /\ f = BG!Files[w][i]
<1>1. /\ BG!Files["pqc"] = <<"pqc.json", "pqc_avx2.json">> /\ BG!Files["zk"] = <<"zk.json">>
      /\ BG!Files["baseline"] = <<"baseline.json">> /\ BG!Files["gas"] = <<"gas.json">>
  BY DEF BG!Files
<1>2. \A w \in Writers : DOMAIN BG!Files[w] = 1..Len(BG!Files[w]) /\ Len(BG!Files[w]) \in 1..2
  <2>1. /\ DOMAIN BG!Files["pqc"] = 1..2 /\ Len(BG!Files["pqc"]) = 2
    BY <1>1
  <2>2. \A w \in {"zk", "baseline", "gas"} : DOMAIN BG!Files[w] = 1..1 /\ Len(BG!Files[w]) = 1
    BY <1>1
  <2>3. 1 \in 1..2 /\ 2 \in 1..2
    OBVIOUS
  <2> QED
    BY <2>1, <2>2, <2>3 DEF Writers
<1>3. \A f : f \in BG!ResultFiles <=>
        \E w \in Writers : \E i \in DOMAIN BG!Files[w] : f = BG!Files[w][i]
  BY CampaignSteps DEF BG!ResultFiles, BG!ToSet
<1>4. \A w \in Writers : \A i : i \in DOMAIN BG!Files[w] <=> i \in 1..2 /\ i <= Len(BG!Files[w])
  BY <1>2
<1>5. /\ Len(BG!Files["pqc"]) = 2 /\ Len(BG!Files["zk"]) = 1
      /\ Len(BG!Files["baseline"]) = 1 /\ Len(BG!Files["gas"]) = 1
  BY <1>1
<1> QED
  BY <1>2, <1>3, <1>4, <1>5

\* A command whose guard has let it through, or is about to.
IsThrough(p) ==
  \/ p.pc \in {"steps", "work"}
  \/ p.step > 0
  \/ p.pc \in {"load", "decide"} /\ p.bad = FALSE

\* A command whose latest look at the machine let it through, or is about to,
\* and that has not moved on to a step without a guard.
IsCleared(p) ==
  \/ p.pc \in {"load", "decide"} /\ p.bad = FALSE
  \/ p.pc = "steps"
  \/ p.pc = "work" /\ (p.step = 0 \/ BG!STEPS[p.step] \in Writers)

\* BenchGuard's Ancestry and Allowed for a command t that is at p.
Above(p) == Chain * (IF p.step > 0 THEN 2 ELSE 1)
Budget(t, p) == IF p.step > 0 THEN 8 ELSE BG!allowedNodeCount[Launched[t]]

Fit(t, p, u, q) ==
  \/ Above(p) + Above(q) <= Budget(t, p)
  \/ Above(p) + Above(q) <= Budget(u, q)

BothFit(t, p, u, q) ==
  IsCleared(p) /\ IsCleared(q) /\ p.forced = FALSE /\ q.forced = FALSE => Fit(t, p, u, q)

\* File i of step k is one that a campaign at p has written.
IsWritten(p, k, i) ==
  /\ BG!STEPS[k] \in Writers /\ i <= Len(BG!Files[BG!STEPS[k]])
  /\ k < p.step \/ (k = p.step /\ i <= p.files)

OwnOrForced(t, f) ==
  \E u \in BG!Tops, b \in BOOLEAN :
    bgResults[f] = <<[by |-> u, forced |-> b]>> /\ (u = t \/ b = TRUE)

PlaceOK(t, p) ==
  /\ p.pc \in BG!Ended \cup {"steps"} => p.step = 0
  /\ p.pc = "steps" \/ p.step > 0 => Launched[t] = "campaign"
  /\ p.pc = "work" /\ p.step = 0 => Launched[t] # "campaign"

OwnResults(t, p) ==
  Chain >= 3 /\ p.step > 0 /\ p.forced = FALSE =>
    \A k \in 1..10, i \in 1..2 :
      IsWritten(p, k, i) => OwnOrForced(t, BG!Files[BG!STEPS[k]][i])

Signed ==
  {<<>>} \cup {<<[by |-> t, forced |-> b]>> : t \in BG!Tops, b \in BOOLEAN}

GuardInv ==
  /\ bgProc \in [BG!Tops -> ProcRecords] /\ bgTool \in BOOLEAN
  /\ bgResults \in [BG!ResultFiles -> Signed]
  /\ \A t \in BG!Tops : PlaceOK(t, bgProc[t]) /\ OwnResults(t, bgProc[t])
  /\ \A t, u \in BG!Tops : t # u => BothFit(t, bgProc[t], u, bgProc[u])
  /\ \A t, u \in BG!Tops :
       Chain >= 3 /\ t # u /\ IsThrough(bgProc[t]) /\ IsThrough(bgProc[u]) =>
         bgProc[t].forced = TRUE \/ bgProc[u].forced = TRUE

\* A command moves to p, and no file changes.
LEMMA GuardStep ==
  ASSUME GuardInv, NEW t \in BG!Tops, NEW p \in ProcRecords,
         bgProc' = [bgProc EXCEPT ![t] = p], UNCHANGED <<bgResults, bgTool>>,
         PlaceOK(t, p),
         IsCleared(p) /\ p.forced = FALSE =>
           \/ /\ IsCleared(bgProc[t]) /\ bgProc[t].forced = FALSE
              /\ p.step = bgProc[t].step
           \/ \A u \in BG!Tops \ {t} : IsCleared(bgProc[u]) => Fit(t, p, u, bgProc[u]),
         Chain >= 3 /\ IsThrough(p) /\ p.forced = FALSE =>
           \/ IsThrough(bgProc[t]) /\ bgProc[t].forced = FALSE
           \/ \A u \in BG!Tops \ {t} : ~IsThrough(bgProc[u]),
         p.step > 0 /\ p.forced = FALSE =>
           \/ \A k \in 1..10, i \in 1..2 : ~IsWritten(p, k, i)
           \/ /\ bgProc[t].step > 0 /\ bgProc[t].forced = FALSE
              /\ \A k \in 1..10, i \in 1..2 : IsWritten(p, k, i) => IsWritten(bgProc[t], k, i)
  PROVE  GuardInv'
<1>1. /\ bgProc \in [BG!Tops -> ProcRecords] /\ bgProc' \in [BG!Tops -> ProcRecords]
      /\ bgProc'[t] = p /\ \A u \in BG!Tops : u # t => bgProc'[u] = bgProc[u]
  BY DEF GuardInv
<1>2. \A q \in ProcRecords : q.forced = FALSE \/ q.forced = TRUE
  BY DEF ProcRecords
<1>3. bgResults' = bgResults /\ \A f : \A u \in BG!Tops : OwnOrForced(u, f)' <=> OwnOrForced(u, f)
  BY DEF OwnOrForced
<1>4. ASSUME NEW u \in BG!Tops PROVE PlaceOK(u, bgProc'[u]) /\ OwnResults(u, bgProc[u])'
  <2>1. CASE u # t
    BY <1>1, <1>3, <2>1 DEF GuardInv, OwnResults
  <2>2. CASE u = t
    <3>1. OwnResults(t, bgProc[t])
      BY DEF GuardInv
    <3>2. ASSUME Chain >= 3, p.step > 0, p.forced = FALSE, NEW k \in 1..10, NEW i \in 1..2,
                 IsWritten(p, k, i)
          PROVE  OwnOrForced(t, BG!Files[BG!STEPS[k]][i])
      BY <3>1, <3>2 DEF OwnResults
    <3> QED
      BY <1>1, <1>3, <2>2, <3>2 DEF OwnResults
  <2> QED
    BY <2>1, <2>2
<1>5. ASSUME Chain >= 3, NEW u \in BG!Tops, NEW v \in BG!Tops, u # v,
             IsThrough(bgProc'[u]), IsThrough(bgProc'[v])
      PROVE  bgProc'[u].forced = TRUE \/ bgProc'[v].forced = TRUE
  <2>1. ASSUME NEW w \in BG!Tops \ {t}, IsThrough(p), IsThrough(bgProc[w])
        PROVE  p.forced = TRUE \/ bgProc[w].forced = TRUE
    BY <1>1, <1>2, <1>5, <2>1 DEF GuardInv
  <2> QED
    BY <1>1, <1>5, <2>1 DEF GuardInv
<1>6. ASSUME NEW u \in BG!Tops, NEW v \in BG!Tops, u # v
      PROVE  BothFit(u, bgProc'[u], v, bgProc'[v])
  <2>1. ASSUME NEW w \in BG!Tops \ {t}, IsCleared(p), IsCleared(bgProc[w]),
               p.forced = FALSE, bgProc[w].forced = FALSE
        PROVE  Fit(t, p, w, bgProc[w])
    <3>1. CASE /\ IsCleared(bgProc[t]) /\ bgProc[t].forced = FALSE
               /\ p.step = bgProc[t].step
      <4>1. Fit(t, bgProc[t], w, bgProc[w])
        BY <2>1, <3>1 DEF GuardInv, BothFit
      <4> QED
        BY <3>1, <4>1 DEF Fit, Above, Budget
    <3> QED
      BY <2>1, <3>1
  <2>2. ASSUME NEW w \in BG!Tops \ {t}
        PROVE  BothFit(t, p, w, bgProc[w]) /\ BothFit(w, bgProc[w], t, p)
    <3>1. BothFit(t, p, w, bgProc[w])
      BY <2>1 DEF BothFit
    <3>2. Fit(t, p, w, bgProc[w]) => Fit(w, bgProc[w], t, p)
      <4>1. Above(p) \in Nat /\ Above(bgProc[w]) \in Nat
        BY ToolchainAssumption DEF Above
      <4> QED
        BY <4>1 DEF Fit
    <3> QED
      BY <3>1, <3>2 DEF BothFit
  <2> QED
    BY <1>1, <1>6, <2>2 DEF GuardInv
<1> QED
  BY <1>1, <1>3, <1>4, <1>5, <1>6 DEF GuardInv, PlaceOK

LEMMA GuardRestarts ==
  ASSUME NEW forced
  PROVE  LET r == BG!Over(BG!Guard, [forced |-> forced, step |-> 0])
         IN  /\ DOMAIN r = ProcFields /\ r.pc = "look" /\ r.step = 0 /\ r.attempt = 1
             /\ r.bad = FALSE /\ r.forced = forced /\ r.files = 0
<1> DEFINE a == BG!Guard
           b == [forced |-> forced, step |-> 0]
           r == BG!Over(a, b)
<1>1. /\ DOMAIN a = {"pc", "attempt", "bad", "files"}
      /\ a["pc"] = "look" /\ a["attempt"] = 1 /\ a["bad"] = FALSE /\ a["files"] = 0
      /\ DOMAIN b = {"forced", "step"} /\ b["forced"] = forced /\ b["step"] = 0
  BY DEF BG!Guard
<1> HIDE DEF a, b
<1>2. r = [x \in ProcFields |-> IF x \in DOMAIN a THEN a[x] ELSE b[x]]
  <2>1. DOMAIN a \cup DOMAIN b = ProcFields
    BY <1>1 DEF ProcFields
  <2> QED
    BY <2>1 DEF BG!Over
<1> HIDE DEF r
<1>3. /\ DOMAIN r = ProcFields /\ r["pc"] = "look" /\ r["step"] = 0 /\ r["attempt"] = 1
      /\ r["bad"] = FALSE /\ r["forced"] = forced /\ r["files"] = 0
  BY <1>1, <1>2 DEF ProcFields
<1> QED
  BY <1>3 DEF a, b, r

\* The steps of the guard.
LEMMA GuardLooks ==
  ASSUME GuardInv, NEW t \in BG!Tops,
         BG!Launch(t) \/ BG!winProcesses(t) \/ BG!loadChecks(t)
  PROVE  GuardInv'
<1>0. /\ bgProc \in [BG!Tops -> ProcRecords] /\ bgProc[t] \in ProcRecords
      /\ PlaceOK(t, bgProc[t]) /\ ATTEMPTS \in Nat \ {0}
  BY ToolchainAssumption DEF GuardInv
<1>1. CASE BG!Launch(t)
  <2>1. PICK forced \in BOOLEAN :
          BG!Become(t, BG!Over(BG!Guard, [forced |-> forced, step |-> 0]))
    BY <1>1 DEF BG!Launch
  <2> DEFINE r == BG!Over(BG!Guard, [forced |-> forced, step |-> 0])
  <2>2. /\ DOMAIN r = ProcFields /\ r.pc = "look" /\ r.step = 0 /\ r.attempt = 1
        /\ r.bad = FALSE /\ r.forced = forced /\ r.files = 0
    BY GuardRestarts
  <2>3. BG!Become(t, r)
    BY <2>1
  <2> HIDE DEF r
  <2>4. Update(r)
    <3>1. /\ r.pc \in ProcPlaces /\ r.step \in 0..10 /\ r.attempt \in 1..ATTEMPTS
          /\ r.files \in 0..2
      BY <1>0, <2>2 DEF ProcPlaces
    <3>2. r.bad \in BOOLEAN /\ r.forced \in BOOLEAN
      BY <2>2
    <3> QED
      BY <2>2, <3>1, <3>2 DEF Update
  <2>5. PICK p \in ProcRecords :
          bgProc' = [bgProc EXCEPT ![t] = p] /\ p.pc = "look" /\ p.step = 0
    BY <1>0, <2>2, <2>3, <2>4, Became DEF ProcFields
  <2>6. UNCHANGED <<bgResults, bgTool>>
    BY <1>1 DEF BG!Launch
  <2>7. PlaceOK(t, p) /\ ~IsThrough(p) /\ ~IsCleared(p) /\ ~(p.step > 0)
    BY <2>5 DEF PlaceOK, IsThrough, IsCleared, BG!Ended
  <2> QED
    BY <2>5, <2>6, <2>7, GuardStep
<1>2. CASE BG!winProcesses(t)
  <2> DEFINE busy == \/ bgTool
                     \/ \E u \in BG!Tops : BG!At(u, "work") /\ BG!Bench(u) = "gas"
                     \/ BG!nodeCount > BG!Allowed(t)
             r == [pc |-> "load", bad |-> busy]
  <2>1. BG!Become(t, r) /\ bgProc[t].pc = "look" /\ UNCHANGED <<bgResults, bgTool>>
    BY <1>2 DEF BG!winProcesses, BG!At
  <2>2. /\ Update(r) /\ r.pc = "load" /\ (r.bad = FALSE => ~busy)
        /\ DOMAIN r = {"pc", "bad"}
    BY DEF Update, ProcFields, ProcPlaces
  <2> HIDE DEF r
  <2>3. PICK p \in ProcRecords :
          /\ bgProc' = [bgProc EXCEPT ![t] = p] /\ p.pc = "load"
          /\ p.bad = FALSE => ~busy
          /\ p.step = bgProc[t].step /\ p.forced = bgProc[t].forced
          /\ p.files = bgProc[t].files
    BY <1>0, <2>1, <2>2, Became
  <2>4. ASSUME p.bad = FALSE, NEW u \in BG!Tops \ {t}, bgProc[u].pc \notin BG!Ended
        PROVE  Above(p) + Above(bgProc[u]) <= Budget(t, p)
    <3>1. /\ BG!nodeCount >= BG!Ancestry(t) + BG!Ancestry(u) /\ BG!nodeCount \in Nat
          /\ BG!Ancestry(t) \in Nat /\ BG!Ancestry(u) \in Nat
      BY <1>0, <2>1, <2>4, ChainsCounted DEF BG!Ended
    <3>2. /\ BG!Ancestry(t) = Above(p) /\ BG!Ancestry(u) = Above(bgProc[u])
          /\ BG!Allowed(t) = Budget(t, p)
      BY <2>3 DEF BG!Ancestry, BG!Allowed, BG!InCampaign, Above, Budget
    <3>3. ~(BG!nodeCount > BG!Allowed(t)) /\ BG!Allowed(t) \in Nat
      <4>1. Launched[t] \in {"pqc", "zk", "baseline", "gas", "campaign"}
        BY ToolchainAssumption DEF BG!Tops, BG!Kinds
      <4>2. BG!Allowed(t) \in {2, 3, 4, 8}
        BY <4>1 DEF BG!Allowed, BG!allowedNodeCount
      <4> QED
        BY <2>3, <2>4, <4>2
    <3> QED
      BY <3>1, <3>2, <3>3
  <2>a. ASSUME Chain >= 3, p.step = 0, p.bad = FALSE, NEW u \in BG!Tops \ {t},
               IsThrough(bgProc[u])
        PROVE  FALSE
    <3>1. bgProc[u].pc \notin BG!Ended
      BY <2>a DEF GuardInv, PlaceOK, IsThrough, BG!Ended
    <3>2. Budget(t, p) \in {2, 3, 4}
      <4>1. Launched[t] \in {"pqc", "zk", "baseline", "gas", "campaign"}
        BY ToolchainAssumption DEF BG!Tops, BG!Kinds
      <4> QED
        BY <2>a, <4>1 DEF Budget, BG!allowedNodeCount
    <3>3. Above(p) \in Nat /\ Above(p) >= 3 /\ Above(bgProc[u]) \in Nat /\ Above(bgProc[u]) >= 3
      BY <2>a, ToolchainAssumption DEF Above
    <3>4. Above(p) + Above(bgProc[u]) <= Budget(t, p)
      BY <2>4, <2>a, <3>1
    <3> QED
      BY <3>2, <3>3, <3>4
  <2>5. p.step \in 0..10
    BY DEF ProcRecords
  <2>6. Chain >= 3 /\ IsThrough(p) =>
          IsThrough(bgProc[t]) \/ \A u \in BG!Tops \ {t} : ~IsThrough(bgProc[u])
    <3> SUFFICES ASSUME Chain >= 3, IsThrough(p), ~IsThrough(bgProc[t]),
                        NEW u \in BG!Tops \ {t}, IsThrough(bgProc[u])
                 PROVE  FALSE
      OBVIOUS
    <3>1. p.step = 0 /\ p.bad = FALSE
      BY <2>3, <2>5 DEF IsThrough
    <3> QED
      BY <2>a, <3>1
  <2>b. IsCleared(p) => \A u \in BG!Tops \ {t} : IsCleared(bgProc[u]) => Fit(t, p, u, bgProc[u])
    <3> SUFFICES ASSUME IsCleared(p), NEW u \in BG!Tops \ {t}, IsCleared(bgProc[u])
                 PROVE  Fit(t, p, u, bgProc[u])
      OBVIOUS
    <3>1. p.bad = FALSE /\ bgProc[u].pc \notin BG!Ended
      BY <2>3 DEF IsCleared, BG!Ended
    <3> QED
      BY <2>4, <3>1 DEF Fit
  <2>7. PlaceOK(t, p)
    BY <1>0, <2>1, <2>3, <2>5 DEF PlaceOK, BG!Ended
  <2> QED
    BY <2>1, <2>3, <2>6, <2>7, <2>b, GuardStep DEF IsWritten
<1>3. CASE BG!loadChecks(t)
  <2>1. PICK b \in BOOLEAN : BG!Become(t, [pc |-> "decide", bad |-> bgProc[t].bad \/ b])
    BY <1>3 DEF BG!loadChecks
  <2> DEFINE r == [pc |-> "decide", bad |-> bgProc[t].bad \/ b]
  <2>2. bgProc[t].bad = TRUE \/ bgProc[t].bad = FALSE
    BY <1>0 DEF ProcRecords
  <2>3. /\ Update(r) /\ r.pc = "decide" /\ (r.bad = FALSE => bgProc[t].bad = FALSE)
        /\ DOMAIN r = {"pc", "bad"} /\ BG!Become(t, r)
    BY <2>1, <2>2 DEF Update, ProcFields, ProcPlaces
  <2> HIDE DEF r
  <2>4. PICK p \in ProcRecords :
          /\ bgProc' = [bgProc EXCEPT ![t] = p] /\ p.pc = "decide"
          /\ p.bad = FALSE => bgProc[t].bad = FALSE
          /\ p.step = bgProc[t].step /\ p.forced = bgProc[t].forced
          /\ p.files = bgProc[t].files
    BY <1>0, <2>3, Became
  <2>5. bgProc[t].pc = "load" /\ UNCHANGED <<bgResults, bgTool>>
    BY <1>3 DEF BG!loadChecks, BG!At
  <2>6. /\ PlaceOK(t, p) /\ (IsThrough(p) => IsThrough(bgProc[t]))
        /\ IsCleared(p) => IsCleared(bgProc[t])
    BY <1>0, <2>4, <2>5 DEF PlaceOK, BG!Ended, IsThrough, IsCleared
  <2> QED
    BY <2>4, <2>5, <2>6, GuardStep DEF IsWritten
<1> QED
  BY <1>1, <1>2, <1>3

LEMMA GuardDecides ==
  ASSUME GuardInv, NEW t \in BG!Tops, BG!decide(t)
  PROVE  GuardInv'
<1>0. /\ bgProc \in [BG!Tops -> ProcRecords] /\ bgProc[t] \in ProcRecords
      /\ PlaceOK(t, bgProc[t]) /\ ATTEMPTS \in Nat \ {0}
  BY ToolchainAssumption DEF GuardInv
<1>1. bgProc[t].pc = "decide" /\ UNCHANGED <<bgResults, bgTool>>
  BY DEF BG!decide, BG!At
<1>2. bgProc[t].step \in 0..10 /\ bgProc[t].attempt \in 1..ATTEMPTS
        /\ bgProc[t].bad \in BOOLEAN /\ bgProc[t].forced \in BOOLEAN
  BY <1>0 DEF ProcRecords
<1>3. CASE ~bgProc[t].bad \/ bgProc[t].forced
  <2>1. PICK pc \in {"steps", "work"} :
          /\ BG!Become(t, [pc |-> pc]) /\ (pc = "steps" <=> BG!Bench(t) = "campaign")
    BY <1>3 DEF BG!decide
  <2>2. Update([pc |-> pc]) /\ DOMAIN [pc |-> pc] = {"pc"}
    BY DEF Update, ProcFields, ProcPlaces
  <2>3. PICK p \in ProcRecords :
          /\ bgProc' = [bgProc EXCEPT ![t] = p] /\ p.pc = pc
          /\ p.step = bgProc[t].step /\ p.forced = bgProc[t].forced
          /\ p.files = bgProc[t].files
    BY <1>0, <2>1, <2>2, Became
  <2>4. PlaceOK(t, p)
    <3>1. CASE p.step = 0
      BY <2>1, <2>3, <3>1 DEF PlaceOK, BG!Bench, BG!InCampaign, BG!Ended
    <3>2. CASE p.step > 0
      <4>1. BG!STEPS[bgProc[t].step] # "campaign" /\ bgProc[t].step \in 1..10
        BY <1>2, <2>3, <3>2, CampaignSteps
      <4>2. pc = "work"
        BY <2>1, <2>3, <3>2, <4>1 DEF BG!Bench, BG!InCampaign
      <4> QED
        BY <1>0, <2>3, <3>2, <4>2 DEF PlaceOK, BG!Ended
    <3> QED
      BY <1>2, <2>3, <3>1, <3>2
  <2>5. p.forced = FALSE => IsThrough(bgProc[t]) /\ IsCleared(bgProc[t])
    BY <1>1, <1>2, <1>3, <2>3 DEF IsThrough, IsCleared
  <2> QED
    BY <1>1, <2>3, <2>4, <2>5, GuardStep DEF IsWritten
<1>4. CASE /\ bgProc[t].attempt < ATTEMPTS
           /\ BG!Become(t, [pc |-> "look", attempt |-> bgProc[t].attempt + 1])
  <2> DEFINE r == [pc |-> "look", attempt |-> bgProc[t].attempt + 1]
  <2>1. /\ Update(r) /\ DOMAIN r = {"pc", "attempt"} /\ r.pc = "look" /\ BG!Become(t, r)
    BY <1>0, <1>2, <1>4 DEF Update, ProcFields, ProcPlaces
  <2> HIDE DEF r
  <2>2. PICK p \in ProcRecords :
          /\ bgProc' = [bgProc EXCEPT ![t] = p] /\ p.pc = "look"
          /\ p.step = bgProc[t].step /\ p.forced = bgProc[t].forced
          /\ p.files = bgProc[t].files
    BY <1>0, <2>1, Became
  <2>3. PlaceOK(t, p) /\ (IsThrough(p) => IsThrough(bgProc[t])) /\ ~IsCleared(p)
    BY <1>0, <1>1, <2>2 DEF PlaceOK, BG!Ended, IsThrough, IsCleared
  <2> QED
    BY <1>1, <2>2, <2>3, GuardStep DEF IsWritten
<1>5. ASSUME NEW pc \in {"failed", "refused"}, BG!Become(t, [pc |-> pc, step |-> 0])
      PROVE  GuardInv'
  <2> DEFINE r == [pc |-> pc, step |-> 0]
  <2>1. /\ Update(r) /\ DOMAIN r = {"pc", "step"} /\ r.pc = pc /\ r.step = 0 /\ BG!Become(t, r)
    BY <1>5 DEF Update, ProcFields, ProcPlaces, BG!Ended
  <2> HIDE DEF r
  <2>2. PICK p \in ProcRecords :
          bgProc' = [bgProc EXCEPT ![t] = p] /\ p.pc = pc /\ p.step = 0
    BY <1>0, <2>1, Became
  <2>3. PlaceOK(t, p) /\ ~IsThrough(p) /\ ~IsCleared(p) /\ ~(p.step > 0)
    BY <2>2 DEF PlaceOK, BG!Ended, IsThrough, IsCleared
  <2> QED
    BY <1>1, <2>2, <2>3, GuardStep
<1>6. CASE ~(~bgProc[t].bad \/ bgProc[t].forced)
  <2>1. CASE bgProc[t].attempt < ATTEMPTS
    BY <1>4, <1>6, <2>1 DEF BG!decide
  <2>2. CASE ~(bgProc[t].attempt < ATTEMPTS)
    BY <1>5, <1>6, <2>2 DEF BG!decide
  <2> QED
    BY <2>1, <2>2
<1> QED
  BY <1>3, <1>6

\* A benchmark ends, or a step of a campaign begins.
LEMMA EnterFields ==
  ASSUME NEW k \in 1..10
  PROVE  /\ DOMAIN BG!Enter(k) = ProcFields \ {"forced"} /\ Update(BG!Enter(k))
         /\ BG!Enter(k).pc \in {"look", "work"} /\ BG!Enter(k).step = k
         /\ BG!Enter(k).files = 0 /\ BG!Enter(k).bad = FALSE
         /\ BG!Enter(k).pc = "work" => BG!STEPS[k] \notin Writers
<1> DEFINE pc == IF BG!STEPS[k] \in BG!Guarded THEN "look" ELSE "work"
           a == [step |-> k]
           b == [BG!Guard EXCEPT !.pc = pc]
           e == BG!Enter(k)
<1>1. pc \in {"look", "work"} /\ (pc = "work" => BG!STEPS[k] \notin Writers)
  BY DEF BG!Guarded, BG!allowedNodeCount, Writers
<1>2. e = BG!Over(a, b)
  BY DEF BG!Enter
<1> HIDE DEF pc, e
<1>3. /\ DOMAIN a = {"step"} /\ a["step"] = k
      /\ DOMAIN b = {"pc", "attempt", "bad", "files"}
      /\ b["pc"] = pc /\ b["attempt"] = 1 /\ b["bad"] = FALSE /\ b["files"] = 0
  BY DEF BG!Guard
<1> HIDE DEF a, b
<1>4. e = [x \in ProcFields \ {"forced"} |-> IF x \in DOMAIN a THEN a[x] ELSE b[x]]
  <2>1. DOMAIN a \cup DOMAIN b = ProcFields \ {"forced"}
    BY <1>3 DEF ProcFields
  <2> QED
    BY <1>2, <2>1 DEF BG!Over
<1>5. /\ DOMAIN e = ProcFields \ {"forced"}
      /\ e["pc"] = pc /\ e["step"] = k /\ e["attempt"] = 1 /\ e["bad"] = FALSE /\ e["files"] = 0
  BY <1>3, <1>4 DEF ProcFields
<1>6. Update(e)
  <2>1. e.pc \in ProcPlaces /\ e.step \in 0..10 /\ e.attempt \in 1..ATTEMPTS /\ e.files \in 0..2
    BY <1>1, <1>5, ToolchainAssumption DEF ProcPlaces
  <2>2. e.bad \in BOOLEAN /\ "forced" \notin DOMAIN e
    BY <1>5
  <2> QED
    BY <1>5, <2>1, <2>2 DEF Update
<1> QED
  BY <1>1, <1>5, <1>6 DEF e

LEMMA GuardEnds ==
  ASSUME GuardInv, NEW t \in BG!Tops,
         BG!Finish(t) \/ BG!Crash(t) \/ BG!FirstStep(t) \/ BG!NextStep(t)
  PROVE  GuardInv'
<1>0. /\ bgProc \in [BG!Tops -> ProcRecords] /\ bgProc[t] \in ProcRecords
      /\ PlaceOK(t, bgProc[t]) /\ OwnResults(t, bgProc[t])
  BY DEF GuardInv
<1>1. bgProc[t].step \in 0..10 /\ bgProc[t].forced \in BOOLEAN /\ bgProc[t].files \in 0..2
  BY <1>0 DEF ProcRecords
<1>2. UNCHANGED <<bgResults, bgTool>>
  BY DEF BG!Finish, BG!Crash, BG!FirstStep, BG!NextStep
<1>3. ASSUME NEW r, Update(r), BG!Become(t, r), r.pc \in BG!Ended,
             IF "step" \in DOMAIN r THEN r.step = 0 ELSE bgProc[t].step = 0,
             "pc" \in DOMAIN r
      PROVE  GuardInv'
  <2>1. PICK p \in ProcRecords :
          bgProc' = [bgProc EXCEPT ![t] = p] /\ p.pc \in BG!Ended /\ p.step = 0
    BY <1>0, <1>3, Became
  <2>2. PlaceOK(t, p) /\ ~IsThrough(p) /\ ~IsCleared(p) /\ ~(p.step > 0)
    BY <2>1 DEF PlaceOK, BG!Ended, IsThrough, IsCleared
  <2> QED
    BY <1>2, <2>1, <2>2, GuardStep
<1>4. CASE BG!Finish(t)
  <2> DEFINE r == [pc |-> "complete"]
  <2>1. Update(r) /\ DOMAIN r = {"pc"} /\ r.pc \in BG!Ended /\ BG!Become(t, r)
    BY <1>4 DEF BG!Finish, Update, ProcFields, ProcPlaces, BG!Ended
  <2>2. bgProc[t].step = 0
    BY <1>1, <1>4 DEF BG!Finish, BG!InCampaign
  <2> HIDE DEF r
  <2> QED
    BY <1>3, <2>1, <2>2
<1>5. ASSUME NEW pc \in {"failed", "complete"}, BG!Become(t, [pc |-> pc, step |-> 0])
      PROVE  GuardInv'
  <2> DEFINE r == [pc |-> pc, step |-> 0]
  <2>1. /\ Update(r) /\ DOMAIN r = {"pc", "step"} /\ r.pc \in BG!Ended /\ r.step = 0
        /\ BG!Become(t, r)
    BY <1>5 DEF Update, ProcFields, ProcPlaces, BG!Ended
  <2> HIDE DEF r
  <2> QED
    BY <1>3, <2>1
<1>6. ASSUME NEW k \in 1..10, BG!Become(t, BG!Enter(k)), IsThrough(bgProc[t]),
             Launched[t] = "campaign",
             k = 1 \/ /\ bgProc[t].step > 0
                      /\ \A j \in 1..10, i \in 1..2 :
                           /\ BG!STEPS[j] \in Writers /\ i <= Len(BG!Files[BG!STEPS[j]])
                           /\ j < k
                           => IsWritten(bgProc[t], j, i)
      PROVE  GuardInv'
  <2>1. PICK p \in ProcRecords :
          /\ bgProc' = [bgProc EXCEPT ![t] = p] /\ p.pc \in {"look", "work"}
          /\ p.step = k /\ p.files = 0 /\ p.forced = bgProc[t].forced
          /\ p.pc = "work" => BG!STEPS[k] \notin Writers
    BY <1>0, <1>6, EnterFields, Became DEF ProcFields
  <2>2. PlaceOK(t, p) /\ ~IsCleared(p)
    BY <1>6, <2>1 DEF PlaceOK, BG!Ended, IsCleared
  <2>3. \A j \in 1..10, i \in 1..2 : IsWritten(p, j, i) =>
          /\ BG!STEPS[j] \in Writers /\ i <= Len(BG!Files[BG!STEPS[j]]) /\ j < k
    BY <2>1 DEF IsWritten
  <2>4. \/ \A j \in 1..10, i \in 1..2 : ~IsWritten(p, j, i)
        \/ /\ bgProc[t].step > 0
           /\ \A j \in 1..10, i \in 1..2 : IsWritten(p, j, i) => IsWritten(bgProc[t], j, i)
    <3>1. CASE k = 1
      BY <2>3, <3>1
    <3>2. CASE k # 1
      BY <1>6, <2>3, <3>2
    <3> QED
      BY <3>1, <3>2
  <2> QED
    BY <1>2, <1>6, <2>1, <2>2, <2>4, GuardStep
<1>7. CASE BG!FirstStep(t)
  <2>1. IsThrough(bgProc[t]) /\ Launched[t] = "campaign" /\ BG!Become(t, BG!Enter(1))
    BY <1>0, <1>7 DEF BG!FirstStep, BG!At, IsThrough, PlaceOK
  <2> QED
    BY <1>6, <2>1
<1>8. CASE BG!NextStep(t) /\ bgProc[t].step < 10
  <2> DEFINE s == bgProc[t].step
  <2>1. /\ s \in 1..9 /\ s + 1 \in 1..10 /\ BG!Become(t, BG!Enter(s + 1))
        /\ bgProc[t].pc = "work"
    BY <1>1, <1>8, CampaignSteps DEF BG!NextStep, BG!InCampaign, BG!WorkDone, BG!At
  <2>2. IsThrough(bgProc[t]) /\ Launched[t] = "campaign" /\ s > 0
    BY <1>0, <2>1 DEF IsThrough, PlaceOK
  <2>3. BG!STEPS[s] \in Writers => bgProc[t].files = Len(BG!Files[BG!STEPS[s]])
    BY <1>8, <2>2, CampaignSteps DEF BG!NextStep, BG!WorkDone, BG!Bench, BG!InCampaign
  <2>4. ASSUME NEW j \in 1..10, NEW i \in 1..2, BG!STEPS[j] \in Writers,
               i <= Len(BG!Files[BG!STEPS[j]]), j < s + 1
        PROVE  IsWritten(bgProc[t], j, i)
    <3>1. j < s \/ j = s
      BY <2>1, <2>4
    <3> QED
      BY <2>3, <2>4, <3>1 DEF IsWritten
  <2> HIDE DEF s
  <2> QED
    BY <1>6, <2>1, <2>2, <2>4 DEF s
<1>9. CASE BG!NextStep(t) /\ ~(bgProc[t].step < 10)
  BY <1>5, <1>9, CampaignSteps DEF BG!NextStep
<1>10. CASE BG!Crash(t)
  BY <1>5, <1>10 DEF BG!Crash
<1> QED
  BY <1>4, <1>7, <1>8, <1>9, <1>10

LEMMA GuardPublishes ==
  ASSUME GuardInv, NEW t \in BG!Tops, BG!Publish(t)
  PROVE  GuardInv'
<1>0. /\ bgProc \in [BG!Tops -> ProcRecords] /\ bgProc[t] \in ProcRecords
      /\ PlaceOK(t, bgProc[t]) /\ OwnResults(t, bgProc[t])
  BY DEF GuardInv
<1>1. PICK w \in Writers, n \in 0..2, b \in BOOLEAN :
        /\ w = BG!Bench(t) /\ n = bgProc[t].files /\ b = bgProc[t].forced
        /\ n < Len(BG!Files[w])
  <2>1. bgProc[t].files \in 0..2 /\ bgProc[t].forced \in BOOLEAN
    BY <1>0 DEF ProcRecords
  <2>2. BG!Bench(t) \in Writers /\ bgProc[t].files < Len(BG!Files[BG!Bench(t)])
    BY CampaignSteps DEF BG!Publish, BG!Working
  <2> QED
    BY <2>1, <2>2
<1>a. bgProc[t].pc = "work" /\ bgProc[t].step \in 0..10 /\ bgTool' = bgTool
  BY <1>0 DEF BG!Publish, BG!Working, BG!At, ProcRecords
<1>2. n + 1 \in 1..2 /\ n + 1 <= Len(BG!Files[w])
  <2>1. PICK m \in 1..2 : m = Len(BG!Files[w])
    BY FilesOfWriters
  <2>2. n < m
    BY <1>1, <2>1
  <2>3. n + 1 \in 1..2 /\ n + 1 <= m
    BY <2>2
  <2> QED
    BY <2>1, <2>3
<1>b. PICK file \in BG!ResultFiles : file = BG!Files[w][n + 1]
  BY <1>2, FilesOfWriters
<1>3. /\ bgResults' = [bgResults EXCEPT ![file] = <<[by |-> t, forced |-> b]>>]
      /\ BG!Become(t, [files |-> n + 1])
  BY <1>1, <1>b DEF BG!Publish, BG!collectControls
<1>4. Update([files |-> n + 1]) /\ DOMAIN [files |-> n + 1] = {"files"}
  BY <1>2 DEF Update, ProcFields
<1>5. PICK p \in ProcRecords :
        /\ bgProc' = [bgProc EXCEPT ![t] = p] /\ p.pc = "work" /\ p.step = bgProc[t].step
        /\ p.forced = b /\ p.files = n + 1
  BY <1>0, <1>1, <1>a, <1>3, <1>4, Became
<1>6. /\ bgProc' \in [BG!Tops -> ProcRecords] /\ bgProc'[t] = p
      /\ \A u \in BG!Tops : u # t => bgProc'[u] = bgProc[u]
  BY <1>0, <1>5
<1>7. bgResults' \in [BG!ResultFiles -> Signed]
  <2>1. <<[by |-> t, forced |-> b]>> \in Signed
    BY DEF Signed
  <2> QED
    BY <1>3, <2>1 DEF GuardInv
<1>8. \A u \in BG!Tops, f \in BG!ResultFiles :
        f # file /\ OwnOrForced(u, f) => OwnOrForced(u, f)'
  BY <1>3 DEF OwnOrForced, GuardInv
<1>9. \A u \in BG!Tops : u = t \/ b = TRUE => OwnOrForced(u, file)'
  <2>1. bgResults'[file] = <<[by |-> t, forced |-> b]>>
    BY <1>2, <1>3 DEF GuardInv
  <2> QED
    BY <1>1, <2>1 DEF OwnOrForced
<1>10. ASSUME NEW u \in BG!Tops PROVE OwnResults(u, bgProc[u])'
  <2> SUFFICES ASSUME bgProc'[u].step > 0, bgProc'[u].forced = FALSE,
                      NEW k \in 1..10, NEW i \in 1..2, IsWritten(bgProc'[u], k, i),
                      Chain >= 3
               PROVE  OwnOrForced(u, BG!Files[BG!STEPS[k]][i])'
    BY DEF OwnResults
  <2> DEFINE g == BG!Files[BG!STEPS[k]][i]
  <2>1. g \in BG!ResultFiles
    BY FilesOfWriters DEF IsWritten
  <2>2. CASE u # t
    <3>1. OwnOrForced(u, g)
      BY <1>6, <2>2 DEF GuardInv, OwnResults
    <3>2. b = TRUE
      <4>1. IsThrough(bgProc[u]) /\ IsThrough(bgProc[t]) /\ bgProc[u].forced = FALSE
        BY <1>1, <1>a, <1>6, <2>2 DEF IsThrough
      <4>2. bgProc[t].forced = TRUE
        BY <2>2, <4>1 DEF GuardInv
      <4> QED
        BY <1>1, <4>2
    <3> HIDE DEF g
    <3> QED
      BY <1>8, <1>9, <2>1, <3>1, <3>2 DEF g
  <2>3. CASE u = t
    <3>1. CASE g = file
      BY <1>9, <2>3, <3>1
    <3>2. CASE g # file
      <4>1. p.step > 0 /\ b = FALSE /\ w = BG!STEPS[p.step]
        BY <1>1, <1>5, <1>6, <2>3 DEF BG!Bench, BG!InCampaign
      <4>2. IsWritten(p, k, i)
        BY <1>6, <2>3
      <4>3. ~(k = p.step /\ i = n + 1)
        BY <1>1, <1>b, <1>5, <3>2, <4>1
      <4>4. IsWritten(bgProc[t], k, i)
        BY <1>1, <1>5, <4>2, <4>3 DEF IsWritten
      <4>5. OwnOrForced(t, g)
        <5>1. bgProc[t].step > 0 /\ bgProc[t].forced = FALSE
          BY <1>1, <1>5, <4>1
        <5> QED
          BY <1>0, <4>4, <5>1 DEF OwnResults
      <4> HIDE DEF g
      <4> QED
        BY <1>8, <2>1, <2>3, <3>2, <4>5 DEF g
    <3> QED
      BY <3>1, <3>2
  <2> QED
    BY <2>2, <2>3
<1>11. \A u \in BG!Tops : PlaceOK(u, bgProc'[u])
  BY <1>0, <1>1, <1>a, <1>5, <1>6 DEF GuardInv, PlaceOK
<1>12. \A u \in BG!Tops : /\ bgProc'[u].forced = bgProc[u].forced
                          /\ IsThrough(bgProc'[u]) => IsThrough(bgProc[u])
  BY <1>1, <1>a, <1>5, <1>6 DEF IsThrough
<1>13. \A u, v \in BG!Tops :
         Chain >= 3 /\ u # v /\ IsThrough(bgProc'[u]) /\ IsThrough(bgProc'[v]) =>
           bgProc'[u].forced = TRUE \/ bgProc'[v].forced = TRUE
  BY <1>12 DEF GuardInv
<1>14. bgTool' \in BOOLEAN
  BY <1>1, <1>a DEF GuardInv
<1>15. ASSUME NEW u \in BG!Tops, NEW v \in BG!Tops, u # v
       PROVE  BothFit(u, bgProc'[u], v, bgProc'[v])
  <2>1. \A x \in BG!Tops : /\ bgProc'[x].forced = bgProc[x].forced
                           /\ bgProc'[x].step = bgProc[x].step
                           /\ IsCleared(bgProc'[x]) => IsCleared(bgProc[x])
    BY <1>1, <1>a, <1>5, <1>6 DEF IsCleared
  <2>2. BothFit(u, bgProc[u], v, bgProc[v])
    BY <1>15 DEF GuardInv
  <2> QED
    BY <2>1, <2>2 DEF BothFit, Fit, Above, Budget
<1> QED
  BY <1>6, <1>7, <1>10, <1>11, <1>13, <1>14, <1>15 DEF GuardInv, PlaceOK

LEMMA GuardNext == GuardInv /\ (BG!Next \/ UNCHANGED bgVars) => GuardInv'
<1> SUFFICES ASSUME GuardInv, BG!Next \/ UNCHANGED bgVars PROVE GuardInv'
  OBVIOUS
<1>1. ASSUME UNCHANGED <<bgProc, bgResults>>, bgTool' \in BOOLEAN PROVE GuardInv'
  <2>1. bgProc' = bgProc /\ bgResults' = bgResults /\ bgTool' \in BOOLEAN
    BY <1>1
  <2>2. \A t \in BG!Tops : PlaceOK(t, bgProc[t]) /\ OwnResults(t, bgProc[t])
    BY DEF GuardInv
  <2>3. \A t \in BG!Tops : PlaceOK(t, bgProc[t])' /\ OwnResults(t, bgProc[t])'
    BY <2>1, <2>2 DEF OwnResults, OwnOrForced, PlaceOK
  <2>4. bgProc' \in [BG!Tops -> ProcRecords] /\ bgResults' \in [BG!ResultFiles -> Signed]
    BY <2>1 DEF GuardInv
  <2>6. \A t, u \in BG!Tops : t # u => BothFit(t, bgProc'[t], u, bgProc'[u])
    BY <2>1 DEF GuardInv
  <2>5. \A t, u \in BG!Tops :
          Chain >= 3 /\ t # u /\ IsThrough(bgProc'[t]) /\ IsThrough(bgProc'[u]) =>
            bgProc'[t].forced = TRUE \/ bgProc'[u].forced = TRUE
    BY <2>1 DEF GuardInv
  <2> QED
    BY <2>1, <2>3, <2>4, <2>5, <2>6 DEF GuardInv
<1>2. CASE UNCHANGED bgVars
  <2>1. bgProc' = bgProc /\ bgResults' = bgResults /\ bgTool' = bgTool
    BY <1>2 DEF bgVars
  <2>2. bgTool' \in BOOLEAN
    BY <2>1 DEF GuardInv
  <2> QED
    BY <1>1, <2>1, <2>2
<1>3. CASE BG!Tool
  BY <1>1, <1>3 DEF BG!Tool, GuardInv
<1>4. ASSUME NEW t \in BG!Tops, BG!Launch(t) \/ BG!Step(t) PROVE GuardInv'
  BY <1>4, GuardLooks, GuardDecides, GuardEnds, GuardPublishes DEF BG!Step
<1> QED
  BY <1>2, <1>3, <1>4 DEF BG!Next

LEMMA GuardAlways == ToolchainSpec => []GuardInv
<1>1. ToolchainInit => GuardInv
  <2> SUFFICES ASSUME ToolchainInit PROVE GuardInv
    OBVIOUS
  <2>1. /\ bgProc = [t \in BG!Tops |-> BG!Idle] /\ bgTool = FALSE
        /\ bgResults = [f \in BG!ResultFiles |-> <<>>]
    BY DEF ToolchainInit, BG!Init
  <2>2. /\ BG!Idle \in ProcRecords /\ BG!Idle.pc = "idle" /\ BG!Idle.step = 0
    BY ToolchainAssumption DEF BG!Idle, ProcRecords, ProcPlaces, BG!Ended
  <2>3. \A t \in BG!Tops : PlaceOK(t, BG!Idle) /\ OwnResults(t, BG!Idle)
    BY <2>2 DEF PlaceOK, OwnResults, BG!Ended
  <2>4. ~IsThrough(BG!Idle) /\ ~IsCleared(BG!Idle)
    BY <2>2 DEF IsThrough, IsCleared
  <2>5. \A t \in BG!Tops : bgProc[t] = BG!Idle
    BY <2>1
  <2> HIDE DEF BG!Idle
  <2>6. bgProc \in [BG!Tops -> ProcRecords]
    BY <2>1, <2>2
  <2>7. bgResults \in [BG!ResultFiles -> Signed]
    BY <2>1 DEF Signed
  <2>9. bgTool \in BOOLEAN
    BY <2>1
  <2>8. \A t \in BG!Tops : PlaceOK(t, bgProc[t]) /\ OwnResults(t, bgProc[t])
                               /\ ~IsThrough(bgProc[t]) /\ ~IsCleared(bgProc[t])
    BY <2>3, <2>4, <2>5
  <2> QED
    BY <2>6, <2>7, <2>8, <2>9 DEF GuardInv, BothFit
<1>2. GuardInv /\ [ToolchainNext]_allVars => GuardInv'
  BY GuardNext, OneCommandMoves
<1> QED
  BY <1>1, <1>2, PTL DEF ToolchainSpec

\* bench_env.ts:151-157, 172: with any number of benchmarks and campaigns
\* launched by hand, at any time and in any order, and chains of any length, two
\* that nobody forced measure together only if the chains above both fit in what
\* one of them allows.
THEOREM OverlapsFitTheBudget == ToolchainSpec => []OverlapFitsTheBudget
<1>1. GuardInv => OverlapFitsTheBudget
  <2> SUFFICES ASSUME GuardInv, NEW t \in BG!Tops, NEW u \in BG!Tops,
                      BG!Working(t), BG!Working(u), t # u,
                      ~bgProc[t].forced, ~bgProc[u].forced
               PROVE  \E last \in {t, u} :
                        BG!Ancestry(t) + BG!Ancestry(u) <= BG!Allowed(last)
    BY DEF OverlapFitsTheBudget, BG!OverlapFitsTheBudget
  <2>1. ASSUME NEW v \in BG!Tops, BG!Working(v), ~bgProc[v].forced
        PROVE  IsCleared(bgProc[v]) /\ bgProc[v].forced = FALSE
    <3>1. bgProc[v] \in ProcRecords
      BY DEF GuardInv
    <3>2. bgProc[v].step \in 0..10 /\ bgProc[v].forced \in BOOLEAN
      BY <3>1 DEF ProcRecords
    <3>3. bgProc[v].pc = "work" /\ BG!Bench(v) \in Writers
      BY <2>1, CampaignSteps DEF BG!Working, BG!At
    <3>4. bgProc[v].step = 0 \/ BG!STEPS[bgProc[v].step] \in Writers
      BY <3>2, <3>3 DEF BG!Bench, BG!InCampaign
    <3> QED
      BY <2>1, <3>2, <3>3, <3>4 DEF IsCleared
  <2>2. Fit(t, bgProc[t], u, bgProc[u])
    BY <2>1 DEF GuardInv, BothFit
  <2>3. \A v \in BG!Tops : /\ BG!Ancestry(v) = Above(bgProc[v])
                           /\ BG!Allowed(v) = Budget(v, bgProc[v])
    BY DEF BG!Ancestry, BG!Allowed, BG!InCampaign, Above, Budget
  <2> QED
    BY <2>2, <2>3 DEF Fit
<1> QED
  BY GuardAlways, <1>1, PTL

\* campaign.ts:6-8: with the chains of three processes that campaign.ts:35 and
\* measure_gas.ts:44 speak of, a campaign that was not forced and completes leaves
\* results files that are its own, or that say that somebody forced them in between.
THEOREM CampaignKeepsItsResults ==
  ASSUME Chain >= 3
  PROVE  ToolchainSpec => CampaignResultsAreItsOwn
<1> DEFINE Completes(t) == /\ Launched[t] = "campaign" /\ ~bgProc[t].forced
                           /\ BG!At(t, "work") /\ bgProc'[t].pc = "complete"
           AllOwn(t) == \A f \in BG!ResultFiles :
                          \E r \in BG!ToSet(bgResults[f]) : r.by = t \/ r.forced
<1>1. ASSUME GuardInv, NEW t \in BG!Tops, BG!NextStep(t), ~(bgProc[t].step < 10),
             bgProc[t].forced = FALSE
      PROVE  AllOwn(t)
  <2>1. bgProc[t].step = 10 /\ bgProc[t].step > 0
    BY <1>1 DEF GuardInv, ProcRecords
  <2>2. ASSUME NEW f \in BG!ResultFiles
        PROVE  \E r \in BG!ToSet(bgResults[f]) : r.by = t \/ r.forced
    <3>1. PICK w \in Writers, i \in 1..2 : i <= Len(BG!Files[w]) /\ f = BG!Files[w][i]
      BY FilesOfWriters
    <3>2. PICK k \in 2..5 : w = BG!STEPS[k]
      BY CampaignSteps DEF Writers
    <3>3. k \in 1..10 /\ IsWritten(bgProc[t], k, i)
      BY <2>1, <3>1, <3>2 DEF IsWritten
    <3>4. OwnOrForced(t, f)
      BY <1>1, <2>1, <3>1, <3>2, <3>3 DEF GuardInv, OwnResults
    <3>5. PICK u \in BG!Tops, b \in BOOLEAN :
            bgResults[f] = <<[by |-> u, forced |-> b]>> /\ (u = t \/ b = TRUE)
      BY <3>4 DEF OwnOrForced
    <3>6. [by |-> u, forced |-> b] \in BG!ToSet(bgResults[f])
      <4>1. 1 \in DOMAIN bgResults[f] /\ bgResults[f][1] = [by |-> u, forced |-> b]
        BY <3>5
      <4> QED
        BY <4>1 DEF BG!ToSet
    <3> QED
      BY <3>5, <3>6
  <2> QED
    BY <2>2
<1>2. ASSUME GuardInv, [ToolchainNext]_allVars, NEW t \in BG!Tops, Completes(t)
      PROVE  AllOwn(t)
  <2>0. /\ bgProc \in [BG!Tops -> ProcRecords] /\ bgProc[t] \in ProcRecords
        /\ PlaceOK(t, bgProc[t]) /\ bgProc[t].pc = "work" /\ bgProc'[t].pc = "complete"
        /\ Launched[t] = "campaign" /\ bgProc[t].step \in 0..10
    BY <1>2 DEF GuardInv, BG!At, ProcRecords
  <2>1. bgProc[t].step > 0 /\ bgProc[t].forced = FALSE
    BY <1>2, <2>0 DEF PlaceOK, ProcRecords
  <2>2. BG!Next /\ bgProc' # bgProc
    BY <1>2, <2>0, OneCommandMoves DEF bgVars
  <2>3. ASSUME NEW r, Update(r), BG!Become(t, r), "pc" \in DOMAIN r => r.pc # "complete"
        PROVE  FALSE
    BY <2>0, <2>3, Became
  <2>4. PICK u \in BG!Tops : BG!Launch(u) \/ BG!Step(u)
    BY <2>2 DEF BG!Next, BG!Tool
  <2>5. u = t
    <3>1. \E o : bgProc' = [bgProc EXCEPT ![u] = o]
      BY <2>4 DEF BG!Step, BG!Launch, BG!winProcesses, BG!loadChecks, BG!decide, BG!Publish,
           BG!Finish, BG!Crash, BG!FirstStep, BG!NextStep, BG!Become
    <3> QED
      BY <2>0, <3>1
  <2>6. BG!Publish(t) \/ BG!Finish(t) \/ BG!Crash(t) \/ BG!NextStep(t)
    BY <2>0, <2>4, <2>5
       DEF BG!Step, BG!Launch, BG!winProcesses, BG!loadChecks, BG!decide, BG!FirstStep,
           BG!At, BG!Ended
  <2>7. CASE BG!Publish(t)
    <3> DEFINE r == [files |-> bgProc[t].files + 1]
    <3>1. BG!Become(t, r) /\ DOMAIN r = {"files"}
      BY <2>7 DEF BG!Publish
    <3>2. Update(r)
      <4>1. BG!Bench(t) \in Writers /\ bgProc[t].files < Len(BG!Files[BG!Bench(t)])
        BY <2>7, CampaignSteps DEF BG!Publish, BG!Working
      <4>2. PICK m \in 1..2 : m = Len(BG!Files[BG!Bench(t)])
        BY <4>1, FilesOfWriters
      <4>3. bgProc[t].files < m /\ bgProc[t].files \in 0..2
        BY <2>0, <4>1, <4>2 DEF ProcRecords
      <4>4. r.files \in 0..2
        BY <4>3
      <4> QED
        BY <3>1, <4>4 DEF Update, ProcFields
    <3> HIDE DEF r
    <3> QED
      BY <2>3, <3>1, <3>2
  <2>8. CASE BG!Finish(t)
    BY <2>1, <2>8 DEF BG!Finish, BG!InCampaign
  <2>9. CASE BG!Crash(t)
    <3> DEFINE r == [pc |-> "failed", step |-> 0]
    <3>1. BG!Become(t, r) /\ Update(r) /\ r.pc = "failed"
      BY <2>9 DEF BG!Crash, Update, ProcFields, ProcPlaces, BG!Ended
    <3> HIDE DEF r
    <3> QED
      BY <2>3, <3>1
  <2>10. CASE BG!NextStep(t) /\ bgProc[t].step < 10
    <3>1. bgProc[t].step + 1 \in 1..10 /\ BG!Become(t, BG!Enter(bgProc[t].step + 1))
      BY <2>0, <2>10, CampaignSteps DEF BG!NextStep
    <3>2. PICK k \in 1..10 : k = bgProc[t].step + 1
      BY <3>1
    <3> QED
      BY <2>3, <3>1, <3>2, EnterFields
  <2>11. CASE BG!NextStep(t) /\ ~(bgProc[t].step < 10)
    BY <1>1, <1>2, <2>1, <2>11
  <2> QED
    BY <2>6, <2>7, <2>8, <2>9, <2>10, <2>11
<1>3. GuardInv /\ [ToolchainNext]_allVars =>
        [\A t \in BG!Tops : Completes(t) => AllOwn(t)]_bgVars
  BY <1>2
<1> QED
  BY <1>3, GuardAlways, PTL DEF ToolchainSpec, CampaignResultsAreItsOwn, BG!CampaignResultsAreItsOwn,
     BG!vars, bgVars, BG!At

-----------------------------------------------------------------------------
(* The reconciliation: its paragraphs hold no marker, or the two markers   *)
(* with one table between them.                                            *)
Opening == [kind |-> "BEGIN"]
Closing == [kind |-> "END"]
Passages ==
  {Opening, Closing, [kind |-> "---"]}
    \cup {[kind |-> "text", text |-> p] : p \in {para, paraphrase}}
    \cup {[kind |-> "table", rows |-> r] : r \in SUBSET CellClaims}
Free == {x \in Passages : x.kind \notin {"BEGIN", "END"}}

\* A document without a block, and one whose block begins at b.
Plain(s) == s \in Seq(Passages) /\ \A i \in 1..Len(s) : s[i] \in Free
Blocked(s, b) ==
  /\ s \in Seq(Passages) /\ b \in 1..Len(s) /\ b + 2 \in 1..Len(s)
  /\ s[b] = Opening /\ s[b + 1].kind = "table" /\ s[b + 2] = Closing
  /\ \A i \in 1..Len(s) : i \notin {b, b + 2} => s[i] \in Free
OneBlock(s) == Plain(s) \/ \E b \in Nat : Blocked(s, b)

LEMMA FreeIsNoMarker == Opening \notin Free /\ Closing \notin Free /\ Opening # Closing
BY DEF Free, Opening, Closing

\* The beginning and the end of a document.
LEMMA Pieces ==
  ASSUME NEW s \in Seq(Passages), NEW b \in 1..(Len(s) + 1)
  PROVE  /\ SubSeq(s, 1, b - 1) \in Seq(Passages) /\ Len(SubSeq(s, 1, b - 1)) = b - 1
         /\ \A i \in 1..(b - 1) : SubSeq(s, 1, b - 1)[i] = s[i]
         /\ SubSeq(s, b, Len(s)) \in Seq(Passages) /\ Len(SubSeq(s, b, Len(s))) = Len(s) + 1 - b
         /\ \A i \in 1..(Len(s) + 1 - b) : SubSeq(s, b, Len(s))[i] = s[b + i - 1]
<1>1. Len(s) \in Nat /\ b \in Int /\ b - 1 \in Int /\ Len(s) \in Int /\ 1 \in Int
  BY LenProperties
<1>2. \A i \in 1..(b - 1) : i \in 1..Len(s)
  BY <1>1
<1>3. \A i \in b..Len(s) : i \in 1..Len(s)
  BY <1>1
<1>4. \A i \in 1..Len(s) : s[i] \in Passages
  BY ElementOfSeq
<1>5. /\ SubSeq(s, 1, b - 1) \in Seq(Passages)
      /\ Len(SubSeq(s, 1, b - 1)) = IF 1 <= b - 1 THEN b - 1 - 1 + 1 ELSE 0
      /\ \A i \in 1..b - 1 - 1 + 1 : SubSeq(s, 1, b - 1)[i] = s[1 + i - 1]
  <2>1. \A i \in 1..(b - 1) : s[i] \in Passages
    BY <1>2, <1>4
  <2> QED
    BY <1>1, <2>1, SubSeqProperties
<1>6. /\ SubSeq(s, b, Len(s)) \in Seq(Passages)
      /\ Len(SubSeq(s, b, Len(s))) = IF b <= Len(s) THEN Len(s) - b + 1 ELSE 0
      /\ \A i \in 1..Len(s) - b + 1 : SubSeq(s, b, Len(s))[i] = s[b + i - 1]
  <2>1. \A i \in b..Len(s) : s[i] \in Passages
    BY <1>3, <1>4
  <2> QED
    BY <1>1, <2>1, SubSeqProperties
<1>7. Len(SubSeq(s, 1, b - 1)) = b - 1 /\ Len(SubSeq(s, b, Len(s))) = Len(s) + 1 - b
  BY <1>1, <1>5, <1>6
<1>8. \A i \in 1..(b - 1) : SubSeq(s, 1, b - 1)[i] = s[i]
  BY <1>1, <1>5
<1>9. \A i \in 1..(Len(s) + 1 - b) : SubSeq(s, b, Len(s))[i] = s[b + i - 1]
  BY <1>1, <1>6
<1> QED
  BY <1>5, <1>6, <1>7, <1>8, <1>9

\* Two pieces of a document: if neither has a marker there is no block, and if
\* one has a block the other leaves it where it is.
LEMMA TwoPieces ==
  ASSUME NEW x \in Seq(Passages), NEW y \in Seq(Passages)
  PROVE  /\ x \o y \in Seq(Passages) /\ Len(x \o y) = Len(x) + Len(y)
         /\ \A i \in 1..Len(x) : (x \o y)[i] = x[i]
         /\ \A i \in 1..Len(y) : (x \o y)[Len(x) + i] = y[i]
         /\ \A i \in 1..Len(x \o y) :
              i \in 1..Len(x) \/ (i - Len(x) \in 1..Len(y) /\ Len(x) + (i - Len(x)) = i)
<1> DEFINE xy == x \o y
<1>1. /\ xy \in Seq(Passages) /\ Len(xy) = Len(x) + Len(y)
      /\ \A i \in 1..Len(x) + Len(y) : xy[i] = IF i <= Len(x) THEN x[i] ELSE y[i - Len(x)]
  BY ConcatProperties
<1>2. Len(x) \in Nat /\ Len(y) \in Nat
  BY LenProperties
<1> HIDE DEF xy
<1>3. \A i \in 1..Len(x) : xy[i] = x[i]
  BY <1>1, <1>2
<1>4. ASSUME NEW i \in 1..Len(y) PROVE xy[Len(x) + i] = y[i]
  <2>1. /\ Len(x) + i \in 1..Len(x) + Len(y) /\ ~(Len(x) + i <= Len(x))
        /\ Len(x) + i - Len(x) = i
    BY <1>2
  <2> QED
    BY <1>1, <2>1
<1>5. \A i \in 1..Len(xy) :
        i \in 1..Len(x) \/ (i - Len(x) \in 1..Len(y) /\ Len(x) + (i - Len(x)) = i)
  BY <1>1, <1>2
<1> QED
  BY <1>1, <1>3, <1>4, <1>5 DEF xy

LEMMA PlainPieces ==
  ASSUME NEW x, NEW y, Plain(x), Plain(y)
  PROVE  Plain(x \o y)
<1> DEFINE xy == x \o y
<1>1. x \in Seq(Passages) /\ y \in Seq(Passages)
  BY DEF Plain
<1>2. /\ xy \in Seq(Passages)
      /\ \A i \in 1..Len(x) : xy[i] = x[i]
      /\ \A i \in 1..Len(y) : xy[Len(x) + i] = y[i]
      /\ \A i \in 1..Len(xy) :
           i \in 1..Len(x) \/ (i - Len(x) \in 1..Len(y) /\ Len(x) + (i - Len(x)) = i)
  BY <1>1, TwoPieces
<1> HIDE DEF xy
<1>3. ASSUME NEW i \in 1..Len(xy) PROVE xy[i] \in Free
  <2>1. CASE i \in 1..Len(x)
    BY <1>2, <2>1 DEF Plain
  <2>2. CASE i - Len(x) \in 1..Len(y) /\ Len(x) + (i - Len(x)) = i
    <3>1. xy[Len(x) + (i - Len(x))] = y[i - Len(x)]
      BY <1>2, <2>2
    <3> QED
      BY <2>2, <3>1 DEF Plain
  <2> QED
    BY <1>2, <2>1, <2>2
<1> QED
  BY <1>2, <1>3 DEF Plain, xy

LEMMA BlockAfter ==
  ASSUME NEW x, NEW y, Plain(x), NEW b \in Nat, Blocked(y, b)
  PROVE  Blocked(x \o y, Len(x) + b)
<1> DEFINE xy == x \o y
<1>1. x \in Seq(Passages) /\ y \in Seq(Passages) /\ Len(x) \in Nat /\ Len(y) \in Nat
  BY LenProperties DEF Plain, Blocked
<1>2. /\ xy \in Seq(Passages) /\ Len(xy) = Len(x) + Len(y)
      /\ \A i \in 1..Len(x) : xy[i] = x[i]
      /\ \A i \in 1..Len(y) : xy[Len(x) + i] = y[i]
      /\ \A i \in 1..Len(xy) :
           i \in 1..Len(x) \/ (i - Len(x) \in 1..Len(y) /\ Len(x) + (i - Len(x)) = i)
  BY <1>1, TwoPieces
<1> HIDE DEF xy
<1>3. /\ b \in 1..Len(y) /\ b + 1 \in 1..Len(y) /\ b + 2 \in 1..Len(y)
      /\ Len(x) + b \in 1..Len(xy) /\ Len(x) + b + 2 \in 1..Len(xy)
      /\ Len(x) + (b + 1) = Len(x) + b + 1 /\ Len(x) + (b + 2) = Len(x) + b + 2
  BY <1>1, <1>2 DEF Blocked
<1>4. /\ xy[Len(x) + b] = Opening /\ xy[Len(x) + (b + 1)].kind = "table"
      /\ xy[Len(x) + (b + 2)] = Closing
  BY <1>2, <1>3 DEF Blocked
<1>5. ASSUME NEW i \in 1..Len(xy), i \notin {Len(x) + b, Len(x) + b + 2} PROVE xy[i] \in Free
  <2>1. CASE i \in 1..Len(x)
    BY <1>2, <2>1 DEF Plain
  <2>2. CASE i - Len(x) \in 1..Len(y) /\ Len(x) + (i - Len(x)) = i
    <3>1. xy[Len(x) + (i - Len(x))] = y[i - Len(x)]
      BY <1>2, <2>2
    <3>2. i - Len(x) \notin {b, b + 2}
      BY <1>1, <1>3, <1>5, <2>2
    <3> QED
      BY <2>2, <3>1, <3>2 DEF Blocked
  <2> QED
    BY <1>2, <2>1, <2>2
<1> QED
  BY <1>2, <1>3, <1>4, <1>5 DEF Blocked, xy

LEMMA BlockBefore ==
  ASSUME NEW x, NEW y, Plain(y), NEW b \in Nat, Blocked(x, b)
  PROVE  Blocked(x \o y, b)
<1> DEFINE xy == x \o y
<1>1. x \in Seq(Passages) /\ y \in Seq(Passages) /\ Len(x) \in Nat /\ Len(y) \in Nat
  BY LenProperties DEF Plain, Blocked
<1>2. /\ xy \in Seq(Passages) /\ Len(xy) = Len(x) + Len(y)
      /\ \A i \in 1..Len(x) : xy[i] = x[i]
      /\ \A i \in 1..Len(y) : xy[Len(x) + i] = y[i]
      /\ \A i \in 1..Len(xy) :
           i \in 1..Len(x) \/ (i - Len(x) \in 1..Len(y) /\ Len(x) + (i - Len(x)) = i)
  BY <1>1, TwoPieces
<1> HIDE DEF xy
<1>3. /\ b \in 1..Len(x) /\ b + 1 \in 1..Len(x) /\ b + 2 \in 1..Len(x)
      /\ b \in 1..Len(xy) /\ b + 2 \in 1..Len(xy)
  BY <1>1, <1>2 DEF Blocked
<1>4. xy[b] = Opening /\ xy[b + 1].kind = "table" /\ xy[b + 2] = Closing
  BY <1>2, <1>3 DEF Blocked
<1>5. ASSUME NEW i \in 1..Len(xy), i \notin {b, b + 2} PROVE xy[i] \in Free
  <2>1. CASE i \in 1..Len(x)
    BY <1>2, <1>5, <2>1 DEF Blocked
  <2>2. CASE i - Len(x) \in 1..Len(y) /\ Len(x) + (i - Len(x)) = i
    <3>1. xy[Len(x) + (i - Len(x))] = y[i - Len(x)]
      BY <1>2, <2>2
    <3> QED
      BY <2>2, <3>1 DEF Plain
  <2> QED
    BY <1>2, <2>1, <2>2
<1> QED
  BY <1>2, <1>3, <1>4, <1>5 DEF Blocked, xy

\* What is before and after a place.
LEMMA PlainParts ==
  ASSUME NEW s \in Seq(Passages), NEW i \in 1..(Len(s) + 1)
  PROVE  /\ (\A j \in 1..(i - 1) : s[j] \in Free) => Plain(SubSeq(s, 1, i - 1))
         /\ (\A j \in i..Len(s) : s[j] \in Free) => Plain(SubSeq(s, i, Len(s)))
<1> DEFINE x == SubSeq(s, 1, i - 1)
           z == SubSeq(s, i, Len(s))
<1>1. /\ x \in Seq(Passages) /\ Len(x) = i - 1 /\ \A j \in 1..(i - 1) : x[j] = s[j]
      /\ z \in Seq(Passages) /\ Len(z) = Len(s) + 1 - i
      /\ \A j \in 1..(Len(s) + 1 - i) : z[j] = s[i + j - 1]
  BY Pieces
<1>2. \A j \in 1..(Len(s) + 1 - i) : i + j - 1 \in i..Len(s)
  BY LenProperties
<1> HIDE DEF x, z
<1>3. (\A j \in 1..(i - 1) : s[j] \in Free) => Plain(x)
  BY <1>1 DEF Plain
<1>4. (\A j \in i..Len(s) : s[j] \in Free) => Plain(z)
  BY <1>1, <1>2 DEF Plain
<1> QED
  BY <1>3, <1>4 DEF x, z

LEMMA BlockedParts ==
  ASSUME NEW s, NEW b \in Nat, Blocked(s, b), NEW i \in 1..(Len(s) + 1)
  PROVE  /\ i <= b => Plain(SubSeq(s, 1, i - 1)) /\ Blocked(SubSeq(s, i, Len(s)), b + 1 - i)
         /\ i > b + 2 => Blocked(SubSeq(s, 1, i - 1), b) /\ Plain(SubSeq(s, i, Len(s)))
<1> DEFINE x == SubSeq(s, 1, i - 1)
           z == SubSeq(s, i, Len(s))
<1>1. /\ s \in Seq(Passages) /\ Len(s) \in Nat /\ b + 2 <= Len(s) /\ b >= 1
      /\ s[b] = Opening /\ s[b + 1].kind = "table" /\ s[b + 2] = Closing
      /\ \A j \in 1..Len(s) : j \notin {b, b + 2} => s[j] \in Free
  BY LenProperties DEF Blocked
<1>2. /\ x \in Seq(Passages) /\ Len(x) = i - 1 /\ \A j \in 1..(i - 1) : x[j] = s[j]
      /\ z \in Seq(Passages) /\ Len(z) = Len(s) + 1 - i
      /\ \A j \in 1..(Len(s) + 1 - i) : z[j] = s[i + j - 1]
  BY <1>1, Pieces
<1>3. /\ (\A j \in 1..(i - 1) : s[j] \in Free) => Plain(x)
      /\ (\A j \in i..Len(s) : s[j] \in Free) => Plain(z)
  BY <1>1, PlainParts
<1> HIDE DEF x, z
<1>4. ASSUME i <= b PROVE Plain(x) /\ Blocked(z, b + 1 - i)
  <2>1. \A j \in 1..(i - 1) : j \in 1..Len(s) /\ j \notin {b, b + 2}
    BY <1>1, <1>4
  <2> DEFINE c == b + 1 - i
  <2>2. /\ c \in 1..Len(z) /\ c + 1 \in 1..Len(z) /\ c + 2 \in 1..Len(z)
        /\ Len(z) = Len(s) + 1 - i
        /\ i + c - 1 = b /\ i + (c + 1) - 1 = b + 1 /\ i + (c + 2) - 1 = b + 2
    BY <1>1, <1>2, <1>4
  <2>3. \A j \in 1..Len(z) : j \notin {c, c + 2} =>
          i + j - 1 \in 1..Len(s) /\ i + j - 1 \notin {b, b + 2}
    BY <1>1, <1>2, <1>4
  <2>4. \A j \in 1..Len(z) : z[j] = s[i + j - 1]
    BY <1>2
  <2> HIDE DEF c
  <2>5. z[c] = Opening /\ z[c + 1].kind = "table" /\ z[c + 2] = Closing
    BY <1>1, <2>2, <2>4
  <2>6. \A j \in 1..Len(z) : j \notin {c, c + 2} => z[j] \in Free
    BY <1>1, <2>3, <2>4
  <2>7. Blocked(z, c)
    BY <1>2, <2>2, <2>5, <2>6 DEF Blocked
  <2> QED
    BY <1>1, <1>3, <2>1, <2>7 DEF c
<1>5. ASSUME i > b + 2 PROVE Blocked(x, b) /\ Plain(z)
  <2>1. \A j \in i..Len(s) : j \in 1..Len(s) /\ j \notin {b, b + 2}
    BY <1>1, <1>5
  <2>2. /\ b \in 1..Len(x) /\ b + 1 \in 1..(i - 1) /\ b + 2 \in 1..Len(x) /\ Len(x) = i - 1
        /\ \A j \in 1..Len(x) : j \in 1..Len(s)
    BY <1>1, <1>2, <1>5
  <2>3. Blocked(x, b)
    BY <1>1, <1>2, <2>2 DEF Blocked
  <2> QED
    BY <1>1, <1>3, <2>1, <2>3
<1> QED
  BY <1>4, <1>5 DEF x, z

\* The rule, a paragraph and the block are documents themselves.
LEMMA SmallPieces ==
  /\ Plain(<<>>) /\ Plain(<<[kind |-> "---"]>>)
  /\ \A p \in {para, paraphrase} : Plain(<<[kind |-> "text", text |-> p]>>)
  /\ \A r \in SUBSET CellClaims : Blocked(<<Opening, [kind |-> "table", rows |-> r], Closing>>, 1)
<1>1. [kind |-> "---"] \in Free
  BY DEF Free, Passages
<1>2. ASSUME NEW p \in {para, paraphrase} PROVE [kind |-> "text", text |-> p] \in Free
  BY DEF Free, Passages
<1>3. ASSUME NEW r \in SUBSET CellClaims
      PROVE  /\ [kind |-> "table", rows |-> r] \in Free
             /\ [kind |-> "table", rows |-> r].kind = "table"
  BY DEF Free, Passages
<1>4. ASSUME NEW e \in Free PROVE Plain(<<e>>)
  BY DEF Plain, Free
<1>5. ASSUME NEW t \in Free, t.kind = "table" PROVE Blocked(<<Opening, t, Closing>>, 1)
  <2> DEFINE s == <<Opening, t, Closing>>
  <2>1. Opening \in Passages /\ Closing \in Passages /\ t \in Passages
    BY DEF Passages, Free
  <2>2. s \in Seq(Passages) /\ Len(s) = 3 /\ s[1] = Opening /\ s[2] = t /\ s[3] = Closing
    BY <2>1
  <2> HIDE DEF s
  <2>3. \A i \in 1..3 : i \notin {1, 3} => i = 2
    OBVIOUS
  <2>4. Blocked(s, 1)
    BY <1>5, <2>2, <2>3 DEF Blocked
  <2> QED
    BY <2>4 DEF s
<1>6. Plain(<<>>)
  BY DEF Plain
<1>7. \A r \in SUBSET CellClaims : Blocked(<<Opening, [kind |-> "table", rows |-> r], Closing>>, 1)
  BY <1>3, <1>5
<1>8. \A p \in {para, paraphrase} : Plain(<<[kind |-> "text", text |-> p]>>)
  BY <1>2, <1>4
<1> QED
  BY <1>1, <1>4, <1>6, <1>7, <1>8

\* What the generator finds in a document.
Found(b) ==
  /\ RP!HasBlock /\ RP!First(RP!BEGIN) = b /\ RP!First(RP!END) = b + 2
  /\ {i \in DOMAIN rpRecon : rpRecon[i] = RP!BEGIN} = {b}
  /\ {i \in DOMAIN rpRecon : rpRecon[i] = RP!END} = {b + 2}
NothingFound ==
  /\ ~RP!HasBlock
  /\ {i \in DOMAIN rpRecon : rpRecon[i] = RP!BEGIN} = {}
  /\ {i \in DOMAIN rpRecon : rpRecon[i] = RP!END} = {}

LEMMA BlockIsFound ==
  ASSUME NEW b \in Nat, Blocked(rpRecon, b)
  PROVE  Found(b)
<1>1. /\ DOMAIN rpRecon = 1..Len(rpRecon) /\ Len(rpRecon) \in Nat
      /\ b \in DOMAIN rpRecon /\ b + 2 \in DOMAIN rpRecon /\ b # b + 2
      /\ rpRecon[b] = Opening /\ rpRecon[b + 2] = Closing
  BY LenProperties DEF Blocked
<1>2. ASSUME NEW i \in DOMAIN rpRecon
      PROVE  /\ rpRecon[i] = Opening <=> i = b
             /\ rpRecon[i] = Closing <=> i = b + 2
  <2>1. i \notin {b, b + 2} => rpRecon[i] \in Free
    BY <1>1 DEF Blocked
  <2> QED
    BY <1>1, <2>1, FreeIsNoMarker
<1>3. RP!BEGIN = Opening /\ RP!END = Closing
  BY DEF RP!BEGIN, RP!END, Opening, Closing
<1>4. ASSUME NEW x, NEW k \in DOMAIN rpRecon, \A i \in DOMAIN rpRecon : rpRecon[i] = x <=> i = k
      PROVE  RP!First(x) = k
  <2>1. rpRecon[k] = x /\ \A j \in 1..(k - 1) : rpRecon[j] # x
    <3>1. \A j \in 1..(k - 1) : j \in DOMAIN rpRecon /\ j # k
      BY <1>1
    <3> QED
      BY <1>4, <3>1
  <2>2. \A i \in DOMAIN rpRecon :
          (rpRecon[i] = x /\ \A j \in 1..(i - 1) : rpRecon[j] # x) <=> i = k
    BY <1>4, <2>1
  <2> QED
    BY <2>2 DEF RP!First
<1>5. RP!First(Opening) = b /\ RP!First(Closing) = b + 2
  BY <1>1, <1>2, <1>4
<1>6. RP!HasBlock
  BY <1>1, <1>3 DEF RP!HasBlock, RP!Contains
<1> QED
  BY <1>1, <1>2, <1>3, <1>5, <1>6 DEF Found

LEMMA NoBlockIsFound == Plain(rpRecon) => NothingFound
<1> SUFFICES ASSUME Plain(rpRecon) PROVE NothingFound
  OBVIOUS
<1>1. DOMAIN rpRecon = 1..Len(rpRecon)
  BY LenProperties DEF Plain
<1>2. \A i \in DOMAIN rpRecon : rpRecon[i] # Opening /\ rpRecon[i] # Closing
  BY <1>1, FreeIsNoMarker DEF Plain
<1>3. RP!BEGIN = Opening /\ RP!END = Closing
  BY DEF RP!BEGIN, RP!END, Opening, Closing
<1> QED
  BY <1>1, <1>2, <1>3 DEF NothingFound, RP!HasBlock, RP!Contains

\* What becomes of the block when the generator, or the author, has written.
LEMMA MirrorKeepsOneBlock ==
  ASSUME OneBlock(rpRecon), NEW rows \in SUBSET CellClaims
  PROVE  OneBlock(RP!mirror(rows))
<1> DEFINE block == <<Opening, [kind |-> "table", rows |-> rows], Closing>>
<1>1. Blocked(block, 1) /\ Plain(<<[kind |-> "---"]>>)
  BY SmallPieces
<1>2. RP!Block(rows) = block /\ RP!Rule = [kind |-> "---"]
  BY DEF RP!Block, RP!BEGIN, RP!END, RP!Table, RP!Rule, Opening, Closing
<1> HIDE DEF block
<1>3. CASE Plain(rpRecon)
  <2>1. RP!mirror(rows) = (rpRecon \o <<[kind |-> "---"]>>) \o block
    BY <1>2, <1>3, NoBlockIsFound DEF NothingFound, RP!mirror
  <2>2. Plain(rpRecon \o <<[kind |-> "---"]>>)
    BY <1>1, <1>3, PlainPieces
  <2> DEFINE x == rpRecon \o <<[kind |-> "---"]>>
  <2> HIDE DEF x
  <2>3. Plain(x)
    BY <2>2 DEF x
  <2>4. Blocked(x \o block, Len(x) + 1) /\ Len(x) + 1 \in Nat
    BY <1>1, <2>3, BlockAfter, LenProperties DEF Plain
  <2>5. RP!mirror(rows) = x \o block
    BY <2>1 DEF x
  <2> QED
    BY <2>4, <2>5 DEF OneBlock
<1>4. ASSUME NEW b \in Nat, Blocked(rpRecon, b) PROVE OneBlock(RP!mirror(rows))
  <2> DEFINE x == SubSeq(rpRecon, 1, b - 1)
             z == SubSeq(rpRecon, b + 3, Len(rpRecon))
  <2>1. RP!mirror(rows) = (x \o block) \o z
    <3>1. RP!HasBlock /\ RP!First(RP!BEGIN) = b /\ RP!First(RP!END) + 1 = b + 3
      BY <1>4, BlockIsFound DEF Found
    <3> QED
      BY <1>2, <3>1 DEF RP!mirror
  <2>2. Plain(x) /\ Plain(z)
    <3>1. b \in 1..(Len(rpRecon) + 1) /\ b + 3 \in 1..(Len(rpRecon) + 1) /\ b + 3 > b + 2 /\ b <= b
      BY <1>4, LenProperties DEF Blocked
    <3> QED
      BY <1>4, <3>1, BlockedParts
  <2> HIDE DEF x, z
  <2>3. Blocked(x \o block, Len(x) + 1) /\ Len(x) + 1 \in Nat
    BY <1>1, <2>2, BlockAfter, LenProperties DEF Plain
  <2>4. Blocked((x \o block) \o z, Len(x) + 1)
    BY <2>2, <2>3, BlockBefore
  <2> QED
    BY <2>1, <2>3, <2>4 DEF OneBlock
<1> QED
  BY <1>3, <1>4 DEF OneBlock

LEMMA DeletionLeavesNone ==
  ASSUME OneBlock(rpRecon), RP!HasBlock
  PROVE  Plain(SubSeq(rpRecon, 1, RP!First(RP!BEGIN) - 1)
                 \o SubSeq(rpRecon, RP!First(RP!END) + 1, Len(rpRecon)))
<1>1. PICK b \in Nat : Blocked(rpRecon, b)
  BY NoBlockIsFound DEF OneBlock, NothingFound
<1>2. RP!First(RP!BEGIN) = b /\ RP!First(RP!END) + 1 = b + 3
  BY <1>1, BlockIsFound DEF Found
<1>3. b \in 1..(Len(rpRecon) + 1) /\ b + 3 \in 1..(Len(rpRecon) + 1) /\ b + 3 > b + 2 /\ b <= b
  BY <1>1, LenProperties DEF Blocked
<1>4. Plain(SubSeq(rpRecon, 1, b - 1)) /\ Plain(SubSeq(rpRecon, b + 3, Len(rpRecon)))
  BY <1>1, <1>3, BlockedParts
<1> QED
  BY <1>2, <1>4, PlainPieces

LEMMA ParagraphsKeepOneBlock ==
  ASSUME OneBlock(rpRecon), NEW p \in {para, paraphrase}, NEW i \in 1..(Len(rpRecon) + 1),
         RP!HasBlock => i <= RP!First(RP!BEGIN) \/ i > RP!First(RP!END)
  PROVE  OneBlock(SubSeq(rpRecon, 1, i - 1) \o <<[kind |-> "text", text |-> p]>>
                    \o SubSeq(rpRecon, i, Len(rpRecon)))
<1> DEFINE x == SubSeq(rpRecon, 1, i - 1)
           y == <<[kind |-> "text", text |-> p]>>
           z == SubSeq(rpRecon, i, Len(rpRecon))
<1>1. Plain(y)
  BY SmallPieces
<1>2. ASSUME Plain(rpRecon) PROVE Plain(x) /\ Plain(z)
  <2>1. rpRecon \in Seq(Passages) /\ Len(rpRecon) \in Nat
    BY <1>2, LenProperties DEF Plain
  <2>2. /\ \A j \in 1..(i - 1) : rpRecon[j] \in Free
        /\ \A j \in i..Len(rpRecon) : rpRecon[j] \in Free
    BY <1>2, <2>1 DEF Plain
  <2> QED
    BY <2>1, <2>2, PlainParts
<1>3. ASSUME NEW b \in Nat, Blocked(rpRecon, b)
      PROVE  \/ Plain(x) /\ Blocked(z, b + 1 - i) /\ b + 1 - i \in Nat
             \/ Blocked(x, b) /\ Plain(z)
  <2>1. i <= b \/ i > b + 2
    BY <1>3, BlockIsFound DEF Found
  <2>2. i <= b => b + 1 - i \in Nat
    BY <1>3
  <2> QED
    BY <1>3, <2>1, <2>2, BlockedParts
<1> HIDE DEF x, y, z
<1>4. ASSUME Plain(x), Plain(z) PROVE OneBlock((x \o y) \o z)
  <2>1. Plain(x \o y)
    BY <1>1, <1>4, PlainPieces
  <2>2. Plain((x \o y) \o z)
    BY <1>4, <2>1, PlainPieces
  <2> QED
    BY <2>2 DEF OneBlock
<1>5. ASSUME NEW c \in Nat, Plain(x), Blocked(z, c) PROVE OneBlock((x \o y) \o z)
  <2> DEFINE xy == x \o y
  <2>1. Plain(xy)
    BY <1>1, <1>5, PlainPieces
  <2> HIDE DEF xy
  <2>2. Blocked(xy \o z, Len(xy) + c) /\ Len(xy) + c \in Nat
    BY <1>5, <2>1, BlockAfter, LenProperties DEF Plain
  <2>3. OneBlock(xy \o z)
    BY <2>2 DEF OneBlock
  <2> QED
    BY <2>3 DEF xy
<1>6. ASSUME NEW b \in Nat, Blocked(x, b), Plain(z) PROVE OneBlock((x \o y) \o z)
  <2>1. Blocked(x \o y, b)
    BY <1>1, <1>6, BlockBefore
  <2>2. Blocked((x \o y) \o z, b)
    BY <1>6, <2>1, BlockBefore
  <2> QED
    BY <2>2 DEF OneBlock
<1>7. OneBlock((x \o y) \o z)
  <2>1. CASE Plain(rpRecon)
    BY <1>2, <1>4, <2>1
  <2>2. ASSUME NEW b \in Nat, Blocked(rpRecon, b) PROVE OneBlock((x \o y) \o z)
    <3>1. CASE Plain(x) /\ Blocked(z, b + 1 - i) /\ b + 1 - i \in Nat
      <4>1. PICK c \in Nat : c = b + 1 - i
        BY <3>1
      <4> QED
        BY <1>5, <3>1, <4>1
    <3>2. CASE Blocked(x, b) /\ Plain(z)
      BY <1>6, <3>2
    <3> QED
      BY <1>3, <2>2, <3>1, <3>2
  <2> QED
    BY <2>1, <2>2 DEF OneBlock
<1> QED
  BY <1>7 DEF x, y, z

\* Both commands read and write the reconciliation by the same rules.
LEMMA SameDocument ==
  /\ RM!HasBlock <=> RP!HasBlock
  /\ RM!First(RM!BEGIN) = RP!First(RP!BEGIN) /\ RM!First(RM!END) = RP!First(RP!END)
  /\ \A rows : RM!mirror(rows) = RP!mirror(rows)
  /\ RM!Count(RM!BEGIN) = RP!Count(RP!BEGIN) /\ RM!Count(RM!END) = RP!Count(RP!END)
<1>1. RM!BEGIN = RP!BEGIN /\ RM!END = RP!END /\ RM!Rule = RP!Rule
  BY DEF RM!BEGIN, RM!END, RM!Rule, RP!BEGIN, RP!END, RP!Rule
<1>2. \A x : RM!First(x) = RP!First(x)
  BY DEF RM!First, RP!First
<1>3. RM!HasBlock <=> RP!HasBlock
  BY <1>1 DEF RM!HasBlock, RP!HasBlock, RM!Contains, RP!Contains
<1>4. \A rows : RM!Block(rows) = RP!Block(rows)
  BY <1>1 DEF RM!Block, RP!Block, RM!Table, RP!Table
<1>5. \A rows : RM!mirror(rows) = RP!mirror(rows)
  BY <1>1, <1>2, <1>3, <1>4 DEF RM!mirror, RP!mirror
<1>6. \A S : RM!Cardinality(S) = RP!Cardinality(S)
  BY DEF RM!Cardinality, RP!Cardinality, RM!IsFiniteSet, RP!IsFiniteSet
<1>7. \A x : RM!Count(x) = RP!Count(x)
  BY <1>6 DEF RM!Count, RP!Count
<1> QED
  BY <1>1, <1>2, <1>3, <1>5, <1>7

ReconInv ==
  /\ OneBlock(rpRecon)
  /\ command # "report" =>
       LET files == IF command = "mirror" THEN [RM!Files -> {0, 2}]
                    ELSE [RP!Files -> VersionsOf]
       IN  rpResults \in files /\ rpGen \in [pc : {"ended", "loaded", "reported"}, loaded : files]

\* The markers of a document with one block at most.
LEMMA MarkersCounted ==
  ASSUME OneBlock(rpRecon)
  PROVE  /\ RP!Count(RP!BEGIN) <= 1 /\ RP!Count(RP!BEGIN) = RP!Count(RP!END)
         /\ RP!HasBlock => /\ RP!First(RP!END) = RP!First(RP!BEGIN) + 2
                           /\ rpRecon[RP!First(RP!BEGIN) + 1].kind = "table"
<1>1. \A S : RP!Cardinality(S) = Cardinality(S)
  BY DEF RP!Cardinality, Cardinality, RP!IsFiniteSet, IsFiniteSet
<1>2. RP!Cardinality({}) = 0 /\ \A i : RP!Cardinality({i}) = 1
  BY <1>1, FS_EmptySet, FS_Singleton
<1>3. CASE Plain(rpRecon)
  <2>1. /\ ~RP!HasBlock
        /\ {i \in DOMAIN rpRecon : rpRecon[i] = RP!BEGIN} = {}
        /\ {i \in DOMAIN rpRecon : rpRecon[i] = RP!END} = {}
    BY <1>3, NoBlockIsFound DEF NothingFound
  <2>2. RP!Count(RP!BEGIN) = 0 /\ RP!Count(RP!END) = 0
    BY <1>2, <2>1 DEF RP!Count
  <2> QED
    BY <2>1, <2>2
<1>4. ASSUME NEW b \in Nat, Blocked(rpRecon, b)
      PROVE  /\ RP!Count(RP!BEGIN) = 1 /\ RP!Count(RP!END) = 1
             /\ RP!First(RP!END) = RP!First(RP!BEGIN) + 2
             /\ rpRecon[RP!First(RP!BEGIN) + 1].kind = "table"
  <2>1. Found(b)
    BY <1>4, BlockIsFound
  <2>2. RP!Count(RP!BEGIN) = 1 /\ RP!Count(RP!END) = 1
    BY <1>2, <2>1 DEF RP!Count, Found
  <2>3. RP!First(RP!BEGIN) = b /\ RP!First(RP!END) = b + 2
    BY <2>1 DEF Found
  <2>4. rpRecon[b + 1].kind = "table"
    BY <1>4 DEF Blocked
  <2> QED
    BY <2>2, <2>3, <2>4
<1>5. 0 <= 1 /\ 1 <= 1
  OBVIOUS
<1> QED
  BY <1>3, <1>4, <1>5 DEF OneBlock

\* A step of the generator or of the author on the reconciliation.
LEMMA ReconStep ==
  ASSUME OneBlock(rpRecon), RP!Next \/ RM!Next \/ UNCHANGED rpVars
  PROVE  OneBlock(rpRecon')
<1>1. CASE UNCHANGED rpRecon
  BY <1>1
<1>2. ASSUME NEW rows, rows \subseteq CellClaims, rpRecon' = RP!mirror(rows)
      PROVE  OneBlock(rpRecon')
  <2>1. rows \in SUBSET CellClaims
    BY <1>2
  <2> QED
    BY <1>2, <2>1, MirrorKeepsOneBlock
<1>3. CASE RP!writeMirror
  BY <1>2, <1>3 DEF RP!writeMirror, RP!divergences
<1>4. CASE RM!writeMirror
  <2>1. rpRecon' = RP!mirror(RM!divergences(rpGen.loaded))
    BY <1>4, SameDocument DEF RM!writeMirror
  <2> QED
    BY <1>2, <2>1 DEF RM!divergences
<1>5. CASE RP!DeleteBlock \/ RM!DeleteBlock
  <2>1. /\ RP!HasBlock
        /\ rpRecon' = SubSeq(rpRecon, 1, RP!First(RP!BEGIN) - 1)
                        \o SubSeq(rpRecon, RP!First(RP!END) + 1, Len(rpRecon))
    BY <1>5, SameDocument DEF RP!DeleteBlock, RM!DeleteBlock
  <2> QED
    BY <2>1, DeletionLeavesNone DEF OneBlock
<1>6. CASE RM!Write
  <2>1. PICK p \in {para, paraphrase}, i \in 1..(Len(rpRecon) + 1) :
          /\ RP!HasBlock => i <= RP!First(RP!BEGIN) \/ i > RP!First(RP!END)
          /\ rpRecon' = SubSeq(rpRecon, 1, i - 1) \o <<[kind |-> "text", text |-> p]>>
                          \o SubSeq(rpRecon, i, Len(rpRecon))
    BY <1>6, SameDocument DEF RM!Write, RM!InsertAt, RM!Text
  <2> QED
    BY <2>1, ParagraphsKeepOneBlock
<1>7. ~RP!Write
  BY DEF RP!Write
<1>8. CASE RP!Next
  BY <1>1, <1>3, <1>5, <1>7, <1>8
     DEF RP!Next, RP!Bench, RP!latency, RP!load, RP!writeResults, RP!Kill
<1>9. CASE RM!Next
  BY <1>1, <1>4, <1>5, <1>6, <1>9
     DEF RM!Next, RM!Bench, RM!latency, RM!load, RM!writeResults, RM!Kill
<1> QED
  BY <1>1, <1>8, <1>9 DEF rpVars

LEMMA ReconAlways == ToolchainSpec => []ReconInv
<1>1. ASSUME ToolchainInit PROVE ReconInv
  <2>1. /\ command = "mirror" =>
             /\ rpRecon = <<>> \/ \E p \in {para, paraphrase} :
                                    rpRecon = <<[kind |-> "text", text |-> p]>>
             /\ rpResults = [f \in RM!Files |-> 0]
             /\ rpGen = [pc |-> "ended", loaded |-> rpResults]
        /\ command # "mirror" =>
             /\ rpRecon = <<>> /\ rpResults = [f \in RP!Files |-> 0]
             /\ rpGen = [pc |-> "ended", loaded |-> rpResults]
    BY <1>1 DEF ToolchainInit, RM!Init, RP!Init, RM!Text
  <2>2. Plain(rpRecon)
    BY <2>1, SmallPieces
  <2>3. CASE command = "mirror"
    <3>1. rpResults \in [RM!Files -> {0, 2}]
      BY <2>1, <2>3
    <3>2. rpGen \in [pc : {"ended", "loaded", "reported"}, loaded : [RM!Files -> {0, 2}]]
      BY <2>1, <2>3, <3>1
    <3> QED
      BY <2>2, <2>3, <3>1, <3>2 DEF ReconInv, OneBlock
  <2>4. CASE command # "mirror"
    <3>1. rpResults \in [RP!Files -> VersionsOf]
      BY <2>1, <2>4 DEF VersionsOf
    <3>2. rpGen \in [pc : {"ended", "loaded", "reported"}, loaded : [RP!Files -> VersionsOf]]
      BY <2>1, <2>4, <3>1
    <3> QED
      BY <2>2, <2>4, <3>1, <3>2 DEF ReconInv, OneBlock
  <2> QED
    BY <2>3, <2>4
<1>2. ASSUME ReconInv, [ToolchainNext]_allVars PROVE ReconInv'
  <2>1. OneBlock(rpRecon) /\ command' = command
    BY <1>2, OneCommandMoves DEF ReconInv
  <2>2. RP!Next \/ RM!Next \/ UNCHANGED rpVars
    BY <1>2, OneCommandMoves
  <2>3. OneBlock(rpRecon')
    BY <2>1, <2>2, ReconStep
  <2>4. CASE command \notin {"report", "mirror"}
    <3>1. UNCHANGED rpVars
      BY <1>2, <2>4, OneCommandMoves
    <3> QED
      BY <1>2, <2>1, <3>1 DEF ReconInv, rpVars
  <2>5. CASE command = "mirror"
    <3> DEFINE T == [RM!Files -> {0, 2}]
    <3>1. /\ rpResults \in T
          /\ rpGen \in [pc : {"ended", "loaded", "reported"}, loaded : T]
      BY <1>2, <2>5 DEF ReconInv
    <3>2. RM!Next \/ UNCHANGED rpVars
      BY <1>2, <2>5, OneCommandMoves
    <3>3. rpResults' \in T
      BY <3>1, <3>2 DEF rpVars, RM!Next, RM!Bench, RM!latency, RM!load, RM!writeResults,
           RM!writeMirror, RM!Kill, RM!Write, RM!DeleteBlock, RM!Files
    <3> HIDE DEF T
    <3>4. rpGen' \in [pc : {"ended", "loaded", "reported"}, loaded : T]
      BY <3>1, <3>2 DEF rpVars, RM!Next, RM!Bench, RM!latency, RM!load, RM!writeResults,
           RM!writeMirror, RM!Kill, RM!Write, RM!DeleteBlock
    <3> QED
      BY <2>1, <2>3, <2>5, <3>3, <3>4 DEF ReconInv, T
  <2>6. CASE command = "report"
    BY <2>1, <2>3, <2>6 DEF ReconInv
  <2> QED
    BY <2>4, <2>5, <2>6
<1> QED
  BY <1>1, <1>2, PTL DEF ToolchainSpec

-----------------------------------------------------------------------------
\* Every component's variables keep their types, and MANUSCRIPT_RECONCILIATION.md
\* (generate_results.ts:389-396) never has a marker alone, a second block, or
\* anything but the table between the markers, whatever the author writes.
THEOREM ToolchainTypes == ToolchainSpec => []TypesOK
<1>1. SetupInv => TypeOK
  BY DEF SetupInv
<1>2. ProverInv => PP!TypeOK
  BY DEF ProverInv
<1>3. BenchInv => BZ!TypeOK
  <2>1. {BZ!Phases[k] : k \in 1..Len(BZ!Phases)} =
          {"witness", "snarkjs-cold", "snarkjs-amortized", "verify",
           "rapidsnark-cold", "rapidsnark-amortized", "check"}
    BY DEF BZ!Phases
  <2>2. ASSUME NEW r, ZkOK(r)
        PROVE  r \in {<<>>} \cup {<<x>> : x \in [key : BZ!Keys, used : SUBSET BZ!Keys, undone : BOOLEAN]}
    BY <2>2 DEF ZkOK, BZ!Keys, KeyNumbers
  <2>3. ASSUME NEW r, CoolOK(r)
        PROVE  r \in {<<>>} \cup {<<x>> : x \in [key : BZ!Keys, used : SUBSET BZ!Keys]}
    <3>1. ASSUME NEW k \in KeyNumbers PROVE [key |-> k, used |-> {k}] \in [key : BZ!Keys, used : SUBSET BZ!Keys]
      BY DEF BZ!Keys, KeyNumbers
    <3> QED
      BY <2>3, <3>1 DEF CoolOK
  <2> QED
    BY <2>1, <2>2, <2>3 DEF BenchInv, BZ!TypeOK, BZ!Keys, KeyNumbers, RunRecords, BenchPlaces
<1>4. GuardInv => BG!TypeOK
  BY CampaignSteps DEF GuardInv, BG!TypeOK, ProcRecords, ProcPlaces, Signed
<1>5. AuditInv => AG!TypeOK
  BY DEF AuditInv, AG!TypeOK, GateOK, GateRecords, Reported, AG!None
<1>6. ReportInv /\ ReconInv =>
        IF command = "mirror" THEN RM!TypeOK ELSE RP!TypeOK
  <2> SUFFICES ASSUME ReportInv, ReconInv
               PROVE  IF command = "mirror" THEN RM!TypeOK ELSE RP!TypeOK
    OBVIOUS
  <2>1. /\ RP!Count(RP!BEGIN) <= 1 /\ RP!Count(RP!BEGIN) = RP!Count(RP!END)
        /\ RP!HasBlock => /\ RP!First(RP!END) = RP!First(RP!BEGIN) + 2
                          /\ rpRecon[RP!First(RP!BEGIN) + 1].kind = "table"
    BY MarkersCounted DEF ReconInv
  <2>2. CASE command = "mirror"
    <3>1. /\ RM!Count(RM!BEGIN) <= 1 /\ RM!Count(RM!BEGIN) = RM!Count(RM!END)
          /\ RM!HasBlock => /\ RM!First(RM!END) = RM!First(RM!BEGIN) + 2
                            /\ rpRecon[RM!First(RM!BEGIN) + 1].kind = "table"
      BY <2>1, SameDocument
    <3>2. {2} \cup {0} = {0, 2}
      OBVIOUS
    <3>3. /\ rpResults \in [RM!Files -> {2} \cup {0}]
          /\ rpGen.pc \in {"ended", "loaded", "reported"}
          /\ rpGen.loaded \in [RM!Files -> {2} \cup {0}]
      BY <2>2, <3>2 DEF ReconInv
    <3> QED
      BY <2>2, <3>1, <3>3 DEF RM!TypeOK
  <2>3. CASE command # "mirror"
    <3>1. /\ rpResults \in [RP!Files -> VersionsOf]
          /\ rpGen.pc \in {"ended", "loaded", "reported"}
          /\ rpGen.loaded \in [RP!Files -> VersionsOf]
      BY <2>3 DEF ReconInv, ReportInv
    <3> QED
      BY <2>1, <2>3, <3>1 DEF RP!TypeOK, VersionsOf
  <2> QED
    BY <2>2, <2>3
<1>7. ToolchainSpec => [](command \in Commands)
  <2>1. ToolchainInit => command \in Commands
    BY DEF ToolchainInit
  <2>2. command \in Commands /\ [ToolchainNext]_allVars => (command \in Commands)'
    BY OneCommandMoves
  <2> QED
    BY <2>1, <2>2, PTL DEF ToolchainSpec
<1>8. /\ command \in Commands /\ SetupInv /\ ProverInv /\ BenchInv /\ GuardInv /\ AuditInv
      /\ ReportInv /\ ReconInv
      => TypesOK
  BY <1>1, <1>2, <1>3, <1>4, <1>5, <1>6 DEF TypesOK
<1> QED
  BY <1>7, <1>8, SetupRunsAlone, SetupAlways, ProverAlways, BenchAlways, GuardAlways, AuditAlways,
     ReportAlways, ReconAlways, PTL

-----------------------------------------------------------------------------
\* The author's paragraphs of two documents stand at the same places.
Texts(s) == {i \in DOMAIN s : s[i].kind = "text"}
SameTexts(s, t) == Texts(s) = Texts(t) /\ \A i \in Texts(s) : s[i] = t[i]

LEMMA SameTextsSameCurated ==
  ASSUME NEW s, NEW t, SameTexts(s, t)
  PROVE  RM!Curated(s) = RM!Curated(t)
<1>1. RM!Curated(s) = {<<RM!Cardinality({j \in Texts(s) : j <= i}), s[i].text>> : i \in Texts(s)}
  BY DEF RM!Curated, Texts
<1>2. RM!Curated(t) = {<<RM!Cardinality({j \in Texts(t) : j <= i}), t[i].text>> : i \in Texts(t)}
  BY DEF RM!Curated, Texts
<1> QED
  BY <1>1, <1>2 DEF SameTexts

\* A regeneration replaces a block by one of the same length, or appends it.
LEMMA MirrorKeepsTexts ==
  ASSUME OneBlock(rpRecon), NEW rows \in SUBSET CellClaims
  PROVE  SameTexts(RP!mirror(rows), rpRecon)
<1> DEFINE rule == <<[kind |-> "---"]>>
           block == <<Opening, [kind |-> "table", rows |-> rows], Closing>>
<1>1. /\ rule \in Seq(Passages) /\ Len(rule) = 1 /\ rule[1].kind # "text"
      /\ block \in Seq(Passages) /\ Len(block) = 3
      /\ \A i \in 1..3 : block[i].kind # "text"
  <2>1. /\ [kind |-> "---"] \in Passages /\ Opening \in Passages /\ Closing \in Passages
        /\ [kind |-> "table", rows |-> rows] \in Passages
    BY DEF Passages
  <2>2. /\ Opening.kind # "text" /\ Closing.kind # "text" /\ [kind |-> "---"].kind # "text"
        /\ [kind |-> "table", rows |-> rows].kind # "text"
    BY DEF Opening, Closing
  <2>3. /\ block[1] = Opening /\ block[2] = [kind |-> "table", rows |-> rows]
        /\ block[3] = Closing /\ rule[1] = [kind |-> "---"] /\ Len(block) = 3 /\ Len(rule) = 1
    OBVIOUS
  <2>4. \A i \in 1..3 : i = 1 \/ i = 2 \/ i = 3
    OBVIOUS
  <2>5. rule \in Seq(Passages) /\ block \in Seq(Passages)
    BY <2>1
  <2> HIDE DEF block, rule
  <2> QED
    BY <2>2, <2>3, <2>4, <2>5
<1>2. RP!Block(rows) = block /\ <<RP!Rule>> = rule
  BY DEF RP!Block, RP!BEGIN, RP!END, RP!Table, RP!Rule, Opening, Closing
<1> HIDE DEF rule, block
<1>3. CASE Plain(rpRecon)
  <2> DEFINE s == rpRecon
             x == s \o rule
             t == x \o block
  <2>1. RP!mirror(rows) = t
    BY <1>2, <1>3, NoBlockIsFound DEF NothingFound, RP!mirror
  <2>2. s \in Seq(Passages) /\ Len(s) \in Nat /\ DOMAIN s = 1..Len(s)
    BY <1>3, LenProperties DEF Plain
  <2>3. /\ x \in Seq(Passages) /\ Len(x) = Len(s) + 1
        /\ \A i \in 1..Len(s) : x[i] = s[i]
        /\ x[Len(s) + 1] = rule[1]
    <3>1. s \in Seq(Passages) /\ rule \in Seq(Passages)
      BY <1>1, <2>2
    <3>2. /\ x \in Seq(Passages) /\ Len(x) = Len(s) + Len(rule)
          /\ \A i \in 1..Len(s) : x[i] = s[i]
          /\ \A i \in 1..Len(rule) : x[Len(s) + i] = rule[i]
      BY <3>1, TwoPieces
    <3> QED
      BY <1>1, <3>2
  <2> HIDE DEF x
  <2>4. /\ t \in Seq(Passages) /\ Len(t) = Len(x) + 3
        /\ \A i \in 1..Len(x) : t[i] = x[i]
        /\ \A i \in 1..3 : t[Len(x) + i] = block[i]
    <3>1. x \in Seq(Passages) /\ block \in Seq(Passages)
      BY <1>1, <2>3
    <3>2. /\ t \in Seq(Passages) /\ Len(t) = Len(x) + Len(block)
          /\ \A i \in 1..Len(x) : t[i] = x[i]
          /\ \A i \in 1..Len(block) : t[Len(x) + i] = block[i]
      BY <3>1, TwoPieces
    <3> QED
      BY <1>1, <3>2
  <2> HIDE DEF t
  <2>5. DOMAIN t = 1..(Len(s) + 4) /\ \A i \in 1..Len(s) : t[i] = s[i]
    BY <2>2, <2>3, <2>4, LenProperties
  <2>6. ASSUME NEW i \in (Len(s) + 1)..(Len(s) + 4) PROVE t[i].kind # "text"
    <3>1. CASE i = Len(s) + 1
      <4>1. i \in 1..Len(x)
        BY <2>2, <2>3, <3>1
      <4> QED
        BY <1>1, <2>3, <2>4, <3>1, <4>1
    <3>2. CASE i # Len(s) + 1
      <4>1. i - Len(x) \in 1..3 /\ Len(x) + (i - Len(x)) = i
        BY <2>2, <2>3, <3>2
      <4>2. t[Len(x) + (i - Len(x))] = block[i - Len(x)]
        BY <2>4, <4>1
      <4> QED
        BY <1>1, <4>1, <4>2
    <3> QED
      BY <3>1, <3>2
  <2>7. \A i : i \in Texts(t) <=> i \in Texts(s)
    <3>1. \A i \in 1..(Len(s) + 4) : i \in 1..Len(s) \/ i \in (Len(s) + 1)..(Len(s) + 4)
      BY <2>2
    <3>2. \A i \in 1..Len(s) : i \in 1..(Len(s) + 4)
      BY <2>2
    <3> QED
      BY <2>2, <2>5, <2>6, <3>1, <3>2 DEF Texts
  <2>8. SameTexts(t, s)
    <3>1. Texts(t) = Texts(s)
      BY <2>7
    <3>2. \A i \in Texts(s) : t[i] = s[i]
      BY <2>2, <2>5 DEF Texts
    <3> QED
      BY <3>1, <3>2 DEF SameTexts
  <2> QED
    BY <2>1, <2>8
<1>4. ASSUME NEW b \in Nat, Blocked(rpRecon, b) PROVE SameTexts(RP!mirror(rows), rpRecon)
  <2> DEFINE s == rpRecon
             x == SubSeq(s, 1, b - 1)
             z == SubSeq(s, b + 3, Len(s))
             y == x \o block
             t == y \o z
  <2>1. RP!mirror(rows) = t
    <3>1. RP!HasBlock /\ RP!First(RP!BEGIN) = b /\ RP!First(RP!END) + 1 = b + 3
      BY <1>4, BlockIsFound DEF Found
    <3> QED
      BY <1>2, <3>1 DEF RP!mirror
  <2>2. /\ s \in Seq(Passages) /\ Len(s) \in Nat /\ DOMAIN s = 1..Len(s)
        /\ b >= 1 /\ b + 2 <= Len(s) /\ b \in 1..(Len(s) + 1) /\ b + 3 \in 1..(Len(s) + 1)
    BY <1>4, LenProperties DEF Blocked
  <2>3. /\ x \in Seq(Passages) /\ Len(x) = b - 1 /\ \A i \in 1..(b - 1) : x[i] = s[i]
        /\ z \in Seq(Passages) /\ Len(z) = Len(s) + 1 - (b + 3)
        /\ \A i \in 1..(Len(s) + 1 - (b + 3)) : z[i] = s[b + 3 + i - 1]
    <3>1. x \in Seq(Passages) /\ Len(x) = b - 1 /\ \A i \in 1..(b - 1) : x[i] = s[i]
      BY <2>2, Pieces
    <3>2. \A c \in 1..(Len(s) + 1) :
            /\ SubSeq(s, c, Len(s)) \in Seq(Passages) /\ Len(SubSeq(s, c, Len(s))) = Len(s) + 1 - c
            /\ \A i \in 1..(Len(s) + 1 - c) : SubSeq(s, c, Len(s))[i] = s[c + i - 1]
      BY <2>2, Pieces
    <3> QED
      BY <2>2, <3>1, <3>2
  <2> HIDE DEF x, z
  <2>4. /\ y \in Seq(Passages) /\ Len(y) = Len(x) + 3
        /\ \A i \in 1..Len(x) : y[i] = x[i]
        /\ \A i \in 1..3 : y[Len(x) + i] = block[i]
    <3>1. x \in Seq(Passages) /\ block \in Seq(Passages)
      BY <1>1, <2>3
    <3>2. /\ y \in Seq(Passages) /\ Len(y) = Len(x) + Len(block)
          /\ \A i \in 1..Len(x) : y[i] = x[i]
          /\ \A i \in 1..Len(block) : y[Len(x) + i] = block[i]
      BY <3>1, TwoPieces
    <3> QED
      BY <1>1, <3>2
  <2> HIDE DEF y
  <2>5. /\ t \in Seq(Passages) /\ Len(t) = Len(y) + Len(z)
        /\ \A i \in 1..Len(y) : t[i] = y[i]
        /\ \A i \in 1..Len(z) : t[Len(y) + i] = z[i]
    BY <2>3, <2>4, TwoPieces
  <2> HIDE DEF t
  <2>6. Len(y) = b + 2 /\ Len(t) = Len(s) /\ DOMAIN t = 1..Len(s)
    BY <2>2, <2>3, <2>4, <2>5, LenProperties
  <2>7. ASSUME NEW i \in 1..Len(s), i < b \/ i > b + 2 PROVE t[i] = s[i]
    <3>1. CASE i < b
      <4>1. i \in 1..(b - 1) /\ i \in 1..Len(x) /\ i \in 1..Len(y)
        BY <2>2, <2>3, <2>6, <3>1
      <4> QED
        BY <2>3, <2>4, <2>5, <4>1
    <3>2. CASE i > b + 2
      <4> DEFINE k == i - (b + 2)
      <4>1. /\ k \in 1..Len(z) /\ k \in 1..(Len(s) + 1 - (b + 3)) /\ Len(y) + k = i
            /\ b + 3 + k - 1 = i
        BY <2>2, <2>3, <2>6, <3>2
      <4> HIDE DEF k
      <4>2. t[Len(y) + k] = z[k] /\ z[k] = s[b + 3 + k - 1]
        BY <2>3, <2>5, <4>1
      <4> QED
        BY <4>1, <4>2
    <3> QED
      BY <2>7, <3>1, <3>2
  <2>8. ASSUME NEW i \in 1..Len(s), ~(i < b \/ i > b + 2)
        PROVE  t[i].kind # "text" /\ s[i].kind # "text"
    <3> DEFINE k == i - Len(x)
    <3>1. k \in 1..3 /\ Len(x) + k = i /\ i \in 1..Len(y)
      BY <2>2, <2>3, <2>6, <2>8
    <3> HIDE DEF k
    <3>2. t[i] = block[k]
      BY <2>4, <2>5, <3>1
    <3>3. i = b \/ i = b + 1 \/ i = b + 2
      BY <2>2, <2>8
    <3>4. s[i].kind \in {"BEGIN", "table", "END"}
      BY <1>4, <3>3 DEF Blocked, Opening, Closing
    <3> QED
      BY <1>1, <3>1, <3>2, <3>4
  <2>9. SameTexts(t, s)
    BY <2>2, <2>6, <2>7, <2>8 DEF SameTexts, Texts
  <2> QED
    BY <2>1, <2>9
<1> QED
  BY <1>3, <1>4 DEF OneBlock

\* generate_results.ts:389-396: a regeneration never loses, repeats or reorders
\* what the author wrote, for any claims and any documents the author and the
\* generator can make together.
THEOREM AuthorsTextIsKept == ToolchainSpec => CuratedTextIsKept
<1> DEFINE Ends == rpGen.pc = "reported" /\ rpGen'.pc = "ended"
<1>1. ASSUME NEW rows, rows \subseteq CellClaims, OneBlock(rpRecon), rpRecon' = RP!mirror(rows)
      PROVE  RM!Curated(rpRecon') = RM!Curated(rpRecon)
  <2>1. rows \in SUBSET CellClaims
    BY <1>1
  <2> QED
    BY <1>1, <2>1, MirrorKeepsTexts, SameTextsSameCurated
<1>2. ASSUME ReconInv, [ToolchainNext]_allVars, Ends
      PROVE  RM!Curated(rpRecon') = RM!Curated(rpRecon)
  <2>1. OneBlock(rpRecon) /\ (RP!Next \/ RM!Next \/ UNCHANGED rpVars)
    BY <1>2, OneCommandMoves DEF ReconInv
  <2>2. CASE UNCHANGED rpRecon
    BY <2>2
  <2>3. CASE RP!writeMirror
    BY <1>1, <2>1, <2>3 DEF RP!writeMirror, RP!divergences
  <2>4. CASE RM!writeMirror
    <3>1. rpRecon' = RP!mirror(RM!divergences(rpGen.loaded))
      BY <2>4, SameDocument DEF RM!writeMirror
    <3> QED
      BY <1>1, <2>1, <3>1 DEF RM!divergences
  <2>5. rpGen' # rpGen
    BY <1>2
  <2>6. CASE RP!Next
    BY <2>2, <2>3, <2>5, <2>6 DEF RP!Next, RP!Bench, RP!latency, RP!load, RP!writeResults,
       RP!Kill, RP!Write, RP!DeleteBlock
  <2>7. CASE RM!Next
    BY <2>2, <2>4, <2>5, <2>7 DEF RM!Next, RM!Bench, RM!latency, RM!load, RM!writeResults,
       RM!Kill, RM!Write, RM!DeleteBlock
  <2> QED
    BY <2>1, <2>2, <2>6, <2>7 DEF rpVars
<1>3. ReconInv /\ [ToolchainNext]_allVars =>
        [Ends => RM!Curated(rpRecon') = RM!Curated(rpRecon)]_rpVars
  BY <1>2
<1> QED
  BY <1>3, ReconAlways, PTL DEF ToolchainSpec, CuratedTextIsKept, RM!CuratedTextIsKept, RM!vars, rpVars

===============================================================================
