# Verification of the post-quantum identity prototype

TLA+ specifications of the credential system in this repository, TLC
configurations that check them on small instances, and proofs for TLAPS of the
properties that hold for every size. The source is the reference: each
definition is translated from the lines that `PROJECT.json` ("map") names.

## The system

An *issuer* signs credentials (ML-DSA-44) whose identifier is
`credID = SHA3-256(cred ‖ pk)`. A *wallet* proves in zero knowledge, towards one
*verifier* and one session, that it holds a credential that satisfies a policy
and is not revoked. Four *registries* on an EVM chain hold the public state.

| Component | State | Operations | Talks to |
|---|---|---|---|
| Registries (`onchain/contracts/Registries.sol`) | DID records, accredited issuers, revocation roots, schemas | register, deactivate, accredit, revoke accreditation, publish root, register schema | called by everybody through the ledger client |
| Ledger client (`packages/ledger`) | addresses, transaction nonce counter | one method per contract function; start and stop a local node | RPC to the node: awaited, may fail |
| Issuer (`packages/issuer`) | key pair | issue a credential | hands the credential to the wallet |
| Revocation tree (`packages/revocation`) | sparse Merkle tree of revoked keys | insert, root, non-membership opening | the issuer inserts and publishes the root; wallets ask for openings |
| Wallet (`packages/wallet`) | holder secret, credentials | off-circuit checks, circuit input, proof | reads root (chain) and opening (tree), sends the proof |
| Circuit (`circuits/credential_auth.circom`) | none | relation R' | satisfied or not, decides whether a proof exists |
| Verifier (`packages/verifier`) | map of open session nonces with expiry | new nonce, verify presentation | three awaited ledger reads, then the proof check |
| Trusted set-up (`setup/`) | artifacts on disk, `pins.json` | download, build, key generation, pinning | its key is what prover, verifier and benchmarks use |
| Prover pipeline (`packages/wallet/src/prove.ts`) | temporary files | witness, snarkJS, rapidsnark, both | reads the proving key, called by wallets and benchmarks |
| Benchmarks (`harness/bench_*.ts`, `campaign.ts`, `common/src/stats.ts`) | results files, staged files in WSL | guard, phases, publication, statistics | count each other's processes, read key and pins |
| Gas measurement (`onchain/measure_gas.ts`) | a probe contract | deploy, two transactions, publish | starts a local node |
| Baseline (`packages/baseline`) | two PostgreSQL tables | truncate, insert, look up | workers share one database |
| Test programs (`harness/e2e*.ts`, `negative_test.ts`, `malicious_wallet_probe.ts`, `cli/demo.ts`) | verdicts in `results/` | steps, adversarial paths | everything above |
| Audit gate and reports (`harness/circomspect_audit.ts`, `generate_results.ts`, `e2e_latency.ts`) | `results/`, `RESULTS.md`, `MANUSCRIPT_RECONCILIATION.md` | audit, tables, mirrored block | read what the others wrote; people edit the same files |

What is hard in it:

* `verifyPresentation` awaits three separate ledger reads and the proof check.
  Other calls, other verifiers and every transaction run between them; a read
  may fail; the proof check may throw.
* The revoked set lives twice: in the issuer's tree, at once, and on chain, once
  the root is published. Wallets read both, verifiers read one, each at its own
  time; a publication may fail after the insertion.
* Proofs travel: they can be presented late, twice, elsewhere, and by wallets
  that skip their checks (`harness/malicious_wallet_probe.ts`,
  `harness/negative_test.ts`).
* The predicate is a comparison of integers, checked modulo a prime.
* Methods of the revocation tree and of the ledger client overlap at their
  awaits: a search, an insertion and the root are of different moments, and a
  transaction's nonce is taken before the node has accepted it.
* The commands of the Makefile meet in files and processes: a set-up replaces the
  key while something proves or measures, a killed command leaves half of its
  files, an earlier run's result is still there, another program's node holds the
  port, another worker truncates the tables.

What makes it correct: a registration is final; a nonce is accepted once, by the
verifier that issued it and within its TTL; every fact an acceptance relies on
was true while the call ran; a published revocation ends acceptance; a proof is
worth something only where and for what it was requested; an honest wallet's
acceptance is backed by a signed claim; nothing hangs, and good credentials are
served. Of the tools: what a successful set-up leaves belongs together and is
pinned, private inputs do not stay on disk, a published number was measured with
what it names, a passing verdict is evidence, and no process is left behind.

## Modules

| Module | Models | Kind |
|---|---|---|
| `Registries` | the four contracts; a step is a transaction that does not revert | component |
| `Encoding` | hashes and encodings of `packages/common` | operators |
| `Verifier` | the verifier service, on top of `Registries` | component |
| `SessionPromise` | what a verifier promises about one nonce | abstract specification |
| `CredentialAuth` | relation R', circomlib's comparators in a finite field, the wallet's predicate | operators |
| `Protocol` | issuers, revocation trees, wallets, verifiers and chain together | composition |
| `RevocationTree` | the revoked-set tree with overlapping calls | component |
| `LedgerClient` | transactions, from a method's call to its receipt | component |
| `RevocationPromise` | what an issuer promises about its revocations | abstract specification |
| `RevocationService` | tree and ledger client under the issuer that awaits them in turn | composition |
| `LocalNode` | the local node and its port, shared by several programs | component |
| `GasMeasurement` | the measurement of the Solidity verifier | component |
| `BaselineIdP` | the database workers of the baseline | component |
| `TrustedSetup` | set-up commands and pins, one step per file operation | component |
| `ProverPipeline` | witness, two provers, temporary files | component |
| `BenchZk` | the benchmarks of the two provers beside set-ups and checkouts | component |
| `BenchGuard` | the quiesce guard, the campaign, the other benchmarks | component |
| `AuditGate` | the static-analysis gate | component |
| `Reports` | divergence table, mirrored block, latency budget | component |
| `LifecycleTests` | the test programs and their recorded verdicts | component |
| `Stats` | summary statistics and headlines | operators |
| `MCSessions_proofs`, `Verifier_proofs`, `CredentialAuth_proofs`, `MCCredentialAuth_proofs`, `Protocol_proofs`, `RevocationService_proofs`, `MCServices_proofs`, `MCToolchain_proofs` | theorems and their proofs | proofs |
| `MCSessions`, `MCVerifier`, `MCCredentialAuth`, `MCProtocol`, `MCRevocations`, `MCToolchain`, `MCServices`, `MCBenchGuard` | small instances | model checking |

`Verifier` instantiates `Registries` on its own chain variables (`Chain`);
`Protocol` instantiates `Verifier` on its verifier variables (`V`) and, through
it, `Registries`. `RevocationService` instantiates `RevocationTree` (`Tree`) and
`LedgerClient` (`Ledger`). Both `Protocol`, whose revocations are single steps,
and `RevocationService`, which takes them await by await, implement
`RevocationPromise`: the one is the abstraction of the other that the rest of the
system is checked with.

The components of the tool chain do not call each other; what one meets of
another it meets through files, processes or the machine, and that part is an
environment action of its own module (a replaced key, a foreign process, an
edited file). `MCToolchain` and `MCServices` therefore run them side by side as a
sum: a variable (`command`, `subject`) says which one runs, the others rest in an
initial state, and the state spaces add up instead of multiplying. Two smaller sums
are made in the same way: `MCSessions` (the contracts by themselves, or the sessions
of two verifiers on a chain that rests) and `MCRevocations` (the life cycle of
`Protocol`, or the calls of `RevocationService`: revocation at two grains). Their
instances are parameterised too: accounts, keys, verifier costs, claims and
findings are CONSTANTS, and the values the runs use are definitions that the
`.cfg` files name.

Each assumption on CONSTANTS is named, TLC evaluates it on every run that extends
its module, and the proofs use nothing else:

| Assumption | What it says, and why the code justifies it |
|---|---|
| `RegistryAssumption`, `VerifierAssumption`, `SessionsAssumption` | governance is an account, the zero address is none; the zero root is a root, `Undefined` neither a root nor a time; the TTL is a natural number; a presentation names a DID (`issuerDid`) |
| `ProtocolAssumption` | the same for the composition; every issuer has a DID and a key; policies are the two comparisons, ages and thresholds integers; the TTL and the last instant are natural numbers; the root of the empty tree is the registry's zero |
| `RootsAssumption` | the chain can hold the root of every set of revocable keys (`bytes32`) |
| `CredentialAuthAssumption` | the field is prime (no zero divisors) and has room for the comparator: `p > 2^(n+1)`, as BN254's prime has for n = 32 |
| `PowerAssumption` | `2^n` is positive and `2^(n+1)` its double: a fact about numbers that the provers lack, since they have no exponentiation |
| `NumbersAssumption` | the numbers that the wallet compares do not wrap around the field into the comparator's range |
| `SamplesAssumption` | the bounds of the samples are natural numbers |
| `BaselineAssumption` | at least one sample; a number of warm-up turns |
| `ServicesAssumption` | finitely many tree keys of one length; a circuit of at least one level; the intrinsic gas of a transaction is within the limit |
| `ToolchainAssumption` | `NoKey`, `Absent` and `NotANumber` are no keys or numbers; finitely many launched commands of the known kinds; an `npx tsx` chain is one process or more (`Chain`; only `CampaignKeepsItsResults` asks for three, and says so); differences from the paper are integers |

### How state and actions correspond to the code

*Registries.* One variable per Solidity mapping, total with a zero default like
the mapping. One action per external function that writes; its guard is the
`require`. Left out: events, `did`, `endpoints`, `uri` and `updatedAt`, on which
no code decides.

*Verifier.* `issued` is `NonceRegistry.issued` (expiry or undefined). A call is
a record spread over `pc`, `request`, `doc`, `chainRoot` and `checks` (the set
of checks that are true), and each action is the code from one await to the
next: start, `resolveDid`, `isAccredited`, `getRevRoot` (the node's answer),
`checkSession` (lines 137-171, synchronous, so one step) and `groth16Verify`.
A ledger read that fails goes to the `catch` of its `try`. `done` is a returned
decision, `threw` a rejected promise. The two awaits that load a library
(`getPoseidon`, `import("snarkjs")`) change nothing and are part of the
neighbouring steps: what could run between them can run just before or after.
`issuedAt` and `seen` are history: when a nonce was issued, and the issuer's
chain states since a call began. `Transaction` is any transaction of anybody.

*Encoding.* A hash keeps its inputs (`<<"Poseidon", inputs>>`): equal hashes
mean equal inputs, which is collision resistance taken as an assumption. The
same holds for a Merkle root and its set of keys (every value is 1), and
`sign` in `Protocol` makes signatures unforgeable. Byte folding is one value with
its domain tag.

*CredentialAuth.* `Num2Bits`, `LessThan` and `GreaterEqThan` are circomlib's,
with their decompositions: `LessThan` has a witness only when
`a + 2^n - b` mod p fits n+1 bits. The field prime and the width are parameters.
The Merkle verification is abstracted to what it establishes: the opening was
made for this key, against the tree with this root, in which the key is absent;
the depth limit of 32 (`packages/revocation/src/index.ts:82`) is left out with it.

*Protocol.* `tree` is the key set of each issuer's tree, `outbox` the root an
awaited `publishRevRoot` carries; insertion and reading the root are one step
(no await that another revocation could use, since one issuer revokes one
credential at a time), publication is a second one, and may fail. A wallet
session goes through the reads of `proofArgs` in `harness/e2e_core.ts` in that
order, and `generateProof` yields a proof exactly if the off-circuit checks pass
(or are skipped) and R' is satisfied. Wallets hold issued credentials, their own
or others', issued ones with a rewritten age, and ones nobody signed.
`present` gives any proof to any verifier with any policy.

*RevocationTree.* `keys` is what the tree's root commits to; a call carries what
it has in its locals after each await. The trie of circomlibjs is external: an
insertion reads the root when it starts and sets a new one when it ends, a
search returns the siblings of its path, and an exclusion is what the circuit's
`SMTVerifier` accepts. A sibling and a root are the key sets below them.
`during` (the trees since the call began) and `before` (the calls that had
returned by then) are history.

*LedgerClient.* A call takes the next count of `NonceManager` and only then has
the node estimate it; the node mines in the order of nonces. `rejected` is a
failed estimate or connection, `reverted` a transaction that was mined although
its `require` had come to fail. *LocalNode*: a process binds the port later, or
finds it taken; a poll is answered by whoever listens. *GasMeasurement*: a
verifier that needs more gas than it gets answers false.

*RevocationService.* `issuer` is the call that the issuer awaits: an insertion, a
publication or none, in the order of `harness/e2e_core.ts:211-213`. A wallet's
look-ups in the same tree and other transactions of the same client may start at
any time. `carried` says of which set a publication's root is. A call that threw
is caught, so the next may follow.

*BaselineIdP.* One query is one step. `expired` says how many tokens of a worker
are an hour old: they expire in the order in which they were inserted, at any
pace, and a look-up does not find them (`baseline_worker.ts:185`, `:197`).
`disturbed` and `lost` are history: what another worker's `TRUNCATE` took from a
worker, and whose connection broke.

*TrustedSetup.* `disk` is the directory of artifacts; a key is the pair of the
powers of tau and the constraint system it was made from, its exports are named
by it. `pins` is `pins.json`, which a write that is killed leaves unreadable.
`run.seen` is the copy of the pins that `verifyOrPin` compares and writes back.

*ProverPipeline.* Calls of one Node process interleave at awaits; while the
native prover runs (`spawnSync`) nothing else does (`LoopFree`). `used` is the
key a prover read, `hash` the one its result reports. The key file may be replaced
between any two steps, also by a content it had before: set-up is deterministic
(`setup/groth16_setup.ts:15-24`) and the file is committed. `putBack` is history:
the key hashed for snarkJS came back while the native prover ran.

*BenchZk.* Key pairs are numbers, proofs verify under the verification key of their
number. Proving and verification key are two files, and each may be replaced at any
moment by that of any pair. The cold worker opens the proving key for each of its
proofs (`bench_zk_worker.ts:43-46`), so `used` collects keys within an invocation
too; the amortized worker reads it once. `undone` is history: the key the benchmark
recorded was put back, while it ran, into a file that had another one.

*BenchGuard.* A command is its place and its chain of node processes: those above
it (`Ancestry`: its own chain, and a campaign's above a step's) and that of a worker
(`Worker`). The guard counts the processes of the machine (`nodeCount`), looks for
foreign tools, and may find the machine loaded at any time. How many processes a
chain is depends on the installation, and the source gives two numbers (2 at
`bench_env.ts:151`, up to 3 at `campaign.ts:35` and `measure_gas.ts:44`), so it is a
constant, `Chain`.
*AuditGate*: a report is a set of findings with lines, triaged by the signals a
line of *today's* circuit names. *Reports*: a measured cell is its difference
from the paper in per cent, a document a sequence of paragraphs, and what the
author wrote the texts among them with their numbers (`Curated`). *LifecycleTests*:
`sut` says how the system would answer each program's questions; the module asks
what a recorded verdict then proves. *Stats*: means and deviations are kept as
integers by multiplying denominators out; a sum is a function of how far `reduce`
has come; `sort` is what it results in, by counting: the i-th number has fewer than
i samples below it and at least i not above it.

## Runs

| Run | Question | Bounds |
|---|---|---|
| `sessions` | are registrations final, and has every root an author? are nonces used once, for exactly their TTL? implements `SessionPromise`? | contracts: 2 accounts (one is governance), 2 DIDs, 2 keys, 2 roots, 1 schema with 2 hashes; sessions: 2 verifiers, 2 nonces, 2 calls, TTL 1, clock to 2, the chain rests |
| `verifier_chain` | what did an acceptance rest on, and does each call end? | 1 call, 1 nonce, all kinds of presentation, all transactions of one account on one DID, any time |
| `circuit` | do the constraints mean the comparison, and the statistics what they are called? | 3-bit comparators, field of 67 elements, every code and age; samples of up to 4 numbers up to 5, of up to 41 numbers with outliers, every three short invocations |
| `protocol_revocation` | does a published revocation hold? do the issuers, and tree and ledger client call by call, implement `RevocationPromise`? | life cycle: 1 modified holder, 2 credentials, 2 sessions, 1 call, 1 failed publication; calls: 2 tree calls, 2 ledger calls, 2 sibling keys of 2 bits, circuit of 2 levels |
| `protocol_binding` | are acceptances backed, and where they belong? | 2 holders (one modified), 2 verifiers, 2 policies, 2 ages, 1 credential, 2 sessions, 1 call, 1 failed publication |
| `protocol_honest` | is a good credential served, does a revocation arrive? | 1 honest holder, 2 credentials, 2 sessions, no verifications |
| `protocol_race` (violation) | is a revoked credential never accepted? | 1 honest holder, 1 session, 1 call |
| `toolchain` | what are set-ups, results, gates and verdicts worth? | 2 circuits, 2 ptau files; 2 prover calls, 2 keys; 2 key pairs, 2 invocations; campaign and 1 benchmark by hand, chains of 3, 2 looks; 3 circuits to audit; 2 claims, 2 versions, a document of 6 paragraphs; every answer of the system |
| `services` | what holds of overlapping calls and killed processes? | 2 tree calls, 5 keys of 4 bits, circuit of 2 levels; 3 ledger calls; 3 programs on a port, 1 retry; verifier costs around the limit; 2 workers, 2 samples, 1 warm-up turn |
| `refusal` (violation) | does a passed life cycle mean the tree refused? | every answer of the system, any sequence of programs |
| `prover_inputs` (violation) | did both provers use the key that is reported? | 1 prover call, 2 keys |
| `bench_short_chain` (violation) | do benchmarks keep apart with chains of two? | campaign and 1 prover benchmark by hand, 1 look |

Why these bounds are enough for the interesting cases: a second account is
needed for a foreign registrar or publisher, and no function involves three. A
race on a nonce takes two calls, a mix-up two verifiers, an expiry a TTL of 1
and a clock that passes it. For the staleness of one call's reads one call is
enough, because calls share nothing but the nonces. Tree and root move apart
with one revocation, and a bystander's revocation takes a second credential. In
a field of 67 elements 3-bit numbers stand to the prime as 32-bit numbers do to
the BN254 prime, where it matters: p > 2^(n+1), so that small differences and
negative ones are distinct residues.

`Unguessed` and the guard of `issue` say that nonces are random: nobody names
one before it is issued, and none is drawn twice. `MaxTime`,
`MaxCredentials`, `MaxFailures`, `ATTEMPTS` and
`Deadline` (looks of a guard, polls; 12 and about 100 in the code) and `MaxLen`
(paragraphs) are the only bounds in guards. `MaxKey` is the number of key pairs there
are; they come and go without a bound.

Two tree calls and two ledger calls make two revocations with their publications,
or one of them beside a look-up that overlaps it or a foreign transaction that takes
a nonce; the keys are siblings, so the insertions touch one path. A third call of
either kind makes the run longer than five minutes; the theorem has no such bound.

For the tool chain: a mix of two set-ups takes two circuits and a kill between
two file operations; a replaced key takes a second key, and the two are
enough for one that comes back; two benchmarks overlap or not with two commands, of which
one is a campaign whose own chain counts against it. Keys of four bits have
paths of 0 to 4 siblings, on both sides of a circuit of two levels; a lost
insertion takes two overlapping calls. A gap in the nonces needs a rejected
call, one behind it, and one before it. The warm-up turn and two samples make the
users' and the tokens' indices wrap differently.

`CHECK_DEADLOCK FALSE` is set where a behaviour really ends: calls, nonces and
sessions of an instance are finite in number and used up. With transactions
(`verifier_chain`) there is always a next step and the check stays on.
Symmetry is used for interchangeable values of runs without liveness.

### Fairness

`EveryCallSettles` assumes weak fairness of each call's next step: an RPC
request answers or errors (ethers gives up on a request after its timeout) and
the proof check terminates. Nothing forces a call to be made. One call is enough
to ask the question: calls meet only in the map of nonces, and nothing waits for it.
`RevocationTakesHold` assumes it of the outcome of a publication (mined or
failed), and runs with no failures; with failures the property is false, since
the code never repeats a publication. `CallsComeBack` assumes it of each ledger
call's next step: the event loop resumes it, the node mines the transaction whose
nonce is next. The node is free to reject.

### What the properties say

* `TypeOK` (Registries): a record is zero or complete. `RootsHaveAnAuthor`: a
  root lies only under a registered DID, though `publishRevRoot` never asks for
  registration as such. `RegistrationsAreFinal`: controller, key, deactivation
  and schema hashes never change.
* `TypeOK` (Verifier): also which locals a call holds at which await.
  `NonceAcceptedOnce`, `FreshnessIsExact`: single use, exact to the tick, and a
  refused presentation spends its nonce too. `AcceptanceRestsOnCurrentFacts`:
  the reads are no snapshot, but none is older than the call.
  `EveryCallSettles`. `KeepsPromise`: the refinement.
* `PredicateIsSound`: satisfied exactly for the two codes and true comparisons
  of in-range numbers. `WalletAgreesWithCircuit`: the wallet's check differs
  from the circuit's only outside the 32-bit range, where the circuit refuses.
* `PublishedRevocationHolds`: a call accepts only if the credential was not in
  the published set at some moment of the call. `AcceptedIsBacked`: for wallets
  that check (the prototype's Assumption 5). `AcceptedWhereRequested`: for all.
  `HonestWalletIsServed` names the one spurious refusal there is for numbers in
  the comparators' range: the issuer's tree has moved away from the root the
  wallet read. `RevocationTakesHold`.

* `KeepsRevocationPromise`, `IssuersKeepPromise`: revocations are for good, what is
  on chain is the root of a set that once was the revoked set, and never of an
  earlier one than before. An issuer that does not await the insertion, or reads the
  root before it, breaks this. Two more statements are theorems only: by
  `RootsOnlyGrow` a publication never takes a revocation back, although it
  overwrites the last root, and by `SessionAcceptedOnce` a proof session is
  accepted once among all verifiers and calls of the system.

* `SuccessIsPinned`, `PinsAreKept`: the three commands have no
  transaction, a kill leaves any prefix of their file operations; success still
  means one key pair from the pinned powers of tau, and pins are only ever added.
* `NothingIsLeft`: a call removes its own witness and nobody else's on every exit.
  `NativeProverUsedTheReportedKey`: what proveBoth's comparison of two hashes is worth.
  The native prover ran between the two, so it used the key they agree on, unless
  that key was replaced before it and put back after it. Of the snarkJS proof, made
  before the first hash, it says nothing; `prover_inputs` shows it.
* `OnlyPutBackKeysEscape`: a key that replaces the recorded one during the benchmark
  and stays makes a later phase fail (the verify phase or, once the verification key
  has followed, the check of the rapidsnark proofs). The constant
  `bytesIdenticalAcrossProvers` of `bench_zk.ts:235` is therefore wrong only in results
  of a benchmark during which its own key came back. TLC reaches such results:
  stage key 1, prove with 2, restore 1.
* `OverlapFitsTheBudget`: the guard takes no lock and counts processes at its start
  only. Two unforced benchmarks measure together only if the chains above both fit in
  the budget of the one that looked last, whatever the lengths of the chains. With
  chains of three or more no pair fits, with chains of two a campaign and a prover
  benchmark do (`bench_short_chain`). `CampaignResultsAreItsOwn` is about the
  campaign's chain of three (`campaign.ts:35`); its theorem has that premise.
* `PassIsOfTheCircuit`, `CuratedTextIsKept`, `PassedVerdictsAreEvidence`: what the
  gate's pass, a regeneration and a recorded verdict mean. (`PinsAgree`, one key for
  both key pins, and `EveryCellIsListedOnce` are theorems without a run.)
* `SettledInsertionIsKept`, `AnswersAreOfTheCall`: a returned revocation stays
  unless another insertion overlapped it; each answer was right at some moment of
  its call. `SettledIsOnChain`, `CallsComeBack`: a confirmed publication is never
  replaced by an earlier confirmed one, and a call hangs only behind a nonce that
  an earlier rejected call took.
* `NoNodeIsLeft`, `PublishedGasVerified`, `PublishedLookupsAreUndisturbed`,
  `FailureHasACause`: a run that ends by itself has stopped its node even if that
  had yet to bind; published gas is that of a verification that answered true;
  times of disturbed look-ups are not published, and a worker fails only by a lost
  connection, another one's `TRUNCATE` or a token of its own that is an hour old.
* `StatisticsAreOfTheSample`: the 95th percentile is the nearest rank, the headline
  stays within a fifth of the mean of the median and inside the sample, the
  representative run is the one the inter-run median speaks of, and stable
  invocations lie within 12 % of their mean.

### Disagreements between text and code

`refusal` checks the step "wallet: attempt to build a fresh proof — REFUSED"
(`harness/e2e_core.ts:216`). The error it throws when the tree *does* open
(`:220`) is inside its own `try` and contains the word "revoked" that the catch
takes for a refusal (`:222`), so the step passes whatever the tree does.
`PassedVerdictsAreEvidence` shows that the negative test does not share this.

`protocol_race` checks the sentence of `harness/negative_test.ts:21-22`, "a
credential whose credID is in the revoked set must not produce an accepted
proof" (also `docs/TESTING.md:34-35`). TLC finds an acceptance after the
insertion: the credential is in the issuer's set, its root is not yet on chain,
or the verifier read the root before it was. The test's strategies all begin
after the root has changed. `PublishedRevocationHolds` is the sentence that the
code fulfils.

`prover_inputs` checks two comments of `packages/wallet/src/prove.ts`: "SHA-256 of the
proving key actually used" (`:22`) and "asserts SHA-256 equality of the inputs both
provers consumed" (`:126-128`). The hash is taken of the file after the awaited proof
(`:61`). A key replaced in between is hashed in its new form, rapidsnark uses and
hashes that one, the hashes agree, and `inputsIdentical: true` is returned for proofs
with two keys. `NativeProverUsedTheReportedKey` states what the comparison guarantees.

`bench_short_chain` checks `harness/bench_env.ts:6-7`, "this module's guard REFUSES to
start when build tooling or another prover/bench is running", with the chains of
`:151`, "Each `npx tsx` invocation is a 2-process node chain". A prover benchmark
started by hand and a campaign launched before it starts its worker are 4 processes,
which the campaign allows (`campaign.ts:38`); the campaign's first benchmark makes 8
with the other one and its worker, which a step allows. Both measure, neither forced,
unless the load at the moment of the look is above 35 %. `OverlapFitsTheBudget` is what
holds.

### Observations

* A call that fails any check after line 158, or throws at line 175, has used up
  its nonce; the wallet needs a new session.
* With `ge` and `lt` exclusive, the selection sum alone already excludes other
  predicate codes; the constraint on the code is a second line of defence.
* Nonce and statement code both bind a proof to its verifier; either suffices
  while nonces are never drawn twice.
* After a failed publication the same revocation cannot be repeated
  (`insert` throws); the key gets on chain with the issuer's next revocation.

Seen while modelling, and left without a run of their own:

* `make verify-pins` is described as re-checking "ptau + zkey SHA-256"
  (`Makefile:77`), but runs `setup/download_ptau.ts`, which compares the ptau
  alone.
* `bench_rapidsnark_cool.ts:88` says "same files as zk.json"; it compares the
  staged key with the live one, not with the hash in `zk.json`.
* `bench_env.ts:151` counts two processes for an `npx tsx` chain, `campaign.ts:35` and
  `measure_gas.ts:44` up to three. With two, the gas measurement, too, which allows
  four, starts beside another benchmark.
* `startAnvil` polls the port, not its process (`packages/ledger/src/evm.ts:41`):
  another run's node may answer.
* The audit gate ignores the analyser's exit status and never removes the report
  (`harness/circomspect_audit.ts:68`): it may pass on an earlier audit's findings.
  `PassIsOfTheCircuit` is therefore about audits in which the analyser ran.
* `generate_results.ts:151` names `pqc.json` as source for table "IV" only, while
  the post-quantum claims carry table "V"; its latency budget (`:310`) is read from
  a file that only `e2e_latency.ts` refreshes.
* `NonMembershipProof.root` is documented as the root the opening verifies against
  (`packages/revocation/src/index.ts:28`) and is read after an await (`:94`): with
  an insertion in between it is a later root. Path length 32 passes the check of
  line 82, and the circuit then refuses it.

## Theorems

All for arbitrary CONSTANTS under the named assumptions. Every invariant and
action property that a passing run checks is a theorem, and so are the three
refinements. The components of `MCServices` and `MCToolchain` are proved
through the sums: `OneComponentMoves` and `OneCommandMoves` say that a step of the
sum is a step of one component and a stutter of the others.

**`MCSessions_proofs`**: of the contracts `TypeCorrect`, `RootsAuthored`, `Finality`.
Types are inductive with the clause that an unregistered record is zero. A root's
author needs no more: publication requires a sender who is the controller, senders
are accounts, and registration only adds controllers. Finality is then a
property of each step. Of the verifiers `NonceUsedOnce`, `FreshnessExact` and
`SessionsAsPromised`: every behaviour of the sum is one of `Verifier`
(`VerifiersRun`; where the contracts move, no call is under way to observe them,
`AlwaysResting`), so the theorems of `Verifier_proofs` hold of it.

**`Verifier_proofs`**

* `NonceUsedOnce`. `NonceAcceptedOnce` speaks of decisions and is not inductive;
  the invariant `NonceInv` speaks of nonces. `Shapes` gives the functions their
  types, `OpenWasIssued` relates the registry to history, `FreshIsSpent` says that
  a call which found its nonce fresh has removed it, and `FreshOnce` that no other
  call of the verifier did. Once issued, a nonce is never issued again, so what
  was removed stays away: hence the second call finds nothing.
* `Refinement`. With the same invariant each step moves the phase of one nonce or
  of none: issuing opens it, consuming spends it, the decision accepts it.
  `OnePhaseMoves` and `PhasesFollowRegistries` are the two facts about the
  mapping; everything about transactions is a stutter.
* `NothingStale`. The invariant `FactsOf(c)`, one per call: an in-flight call has
  its issuer's present state on record, the document and the root it holds in
  locals come from recorded states, and so does every check that passed.
  `RestingCall` and `OnlyOneCallMoves` reduce a step to the one call that takes it.
* `VerifierTypes`. The types say which locals a call has at which await, so the
  invariant (`TypeInv`, `LocalsOf`) carries the order of the awaits.
* `FreshnessExact`. The property compares a decision with history; `FreshInv` adds
  that an open session's expiry is its issue plus the TTL (`Expiry`), and that an
  issued nonce which is no longer open was spent by a call that is on record
  (`SpentByACall`): "found nothing" then means "was used".

**`CredentialAuth_proofs`, `MCCredentialAuth_proofs`**

* `PredicateMeans`, from which `PredicateSound` and `WalletAgrees` follow for the
  checked system. `Comparators` shows that `LessThan` has a witness bit exactly for
  n-bit differences: with `p > 2^(n+1)` the residue of `a + 2^n - b` is the number
  itself, so its top bit is the comparison. That the field has no zero divisors
  gives `Codes`: the product constraint picks one of the two codes.
* `StatisticsHold`: the statistics, for every sample. `IInv` adds to the predicate's
  invariant that a sample is one (`SampleOK`, `InvocationsOK`) and that a summary is
  computed from it; the rest is about `Stats`, in these steps.
  - Sums. A set of numbers that has 0, and each successor up to the length, has them
    all (`SampleBySample`, from `LeastNumber`): hence the sums exist (`Sums`) and are
    bounded (`TotalBounds`, `PartsOfTotal`).
  - Order statistics. `Ascending`: at each place there is a number to choose, the
    lowest of those that enough samples are not above. `PlacesAreInOrder`: it is the
    only one, and later places hold no lower ones.
  - `PercentileOfSample` follows from `PercentileRank`, the arithmetic of the index.
  - `HeadlineOfSample`: `MedianNearMean` has the median within a standard deviation of
    the mean. Half of the sample lies on the far side of the median (`MedianHalves`);
    there a square `(a x + b)^2` is at least a constant, elsewhere not negative, and
    all squares add up to the dispersion (`SumOfSquares`). A mean is the headline only
    when the deviation is a fifth of it at most.
  - `InvocationsCompared`: of three runs exactly one has exactly one before it, and
    its median is the second in order (`MiddleOfThree`). `StableInvocations`: with s
    the sum and d the dispersion, `(3a - s)^2 <= 2d`, so a coefficient of variation of
    a tenth keeps every invocation within 12 % of the mean.

**`Protocol_proofs`**: `ProtocolTypes`, `MadeForTheVerifier`, `BackedBySignature`,
`RevocationsHold`, `HonestWallets`. None of the properties is inductive: each
speaks of an acceptance, and its reason lies many steps back. `IInv` walks that
way. `CallOf` says which checks of a call hold of which presentation and that the
root it compares was on chain during it; `ProofOf` that a proof which exists was
made by a session for its verifier, nonce and policy, over an opening of the root
it states; `SessionOf` what a wallet's session has read so far. `Ledger` and `Trees`
relate the two copies of the revoked set: what is on chain is the root of a set
that the issuer's tree contains, because trees only grow. `Unforgeable` is the one
use of ideal signatures. For `HonestWallets`, `WhoRefuses` leaves the tree as the
only thing that can refuse an honest proof.

* The composed system is made of verifiers as `Verifier` specifies them
  (`VerifiersAreAsSpecified`). `Verifier` takes any presentation of a fixed set, in
  `Protocol` those exist that somebody has proved so far: `Composed` bounds them by
  `PossibleProofs`, and every step is then a verifier's or rests it
  (`VerifierMoves`). `Verifier_proofs` is instantiated on that set (`VT`), so its
  theorems hold in the system: `SessionsKeepPromise`, `NothingStaleAnywhere`.
* `OneAcceptance`: with one acceptance per nonce and verifier from there, and a
  session's nonce and verifier from `MadeForTheVerifier`, two acceptances of one
  session would be of one nonce at one verifier (`DrawnOnce`: no two verifiers
  issue one nonce).
* `IssuersKeepTheirPromise`: under `IInv` each step is one of `RevocationPromise`'s
  or a stutter; the published set is read off the root.

**`RevocationService_proofs`**: `ServiceKeepsPromise`, `RootsGrow`. The invariant
`ServiceInv` says which calls the issuer's await allows: at most one insertion is
under way, and it started from the present tree (`OneInsertion`), so no other
insertion can undo it; at most one publication is under way, and it carries the
present tree's root (`OnePublication`), since the tree rests until the transaction is
mined or fails; and what is on chain is a part of the tree. `WayIs` reads the abstract
`sending` off it: nothing or the present set. `ServiceStep` is the step-by-step
refinement: the trie's new root is the revocation, the mined transaction the
confirmation, a failure the giving up, and all other awaits stutter.
`CallsKeepPromise` (`Protocol_proofs`) carries it over to the sum of
`MCRevocations`, which the run checks (`ServiceRuns`).

**`MCServices_proofs`**

* `PublishedLookups`, `FailuresHaveACause`, `BaselineTypes`: `Kept` says which users
  and tokens an undisturbed worker can rely on, so its insertions and look-ups
  succeed (`FoundOne`); `Doomed` that a worker whose tokens were emptied will ask for
  one that is gone: its first, or the one it is at (`FoundNone`). That an undisturbed,
  connected worker's insertion and look-up succeed unless the token is an hour old is
  `InsertTokenFails` and `SelectTokenFails`. `Counts` has the samples follow the turns,
  without the warm-up.
* `NodesStopped` (`NodeInv`): inductive with the types and that an idle run has no
  node. `GasOfAVerification` (`GasInv`): at each place of the program, which answers
  it has seen; the probe leaves the verifier less gas than the direct transaction
  does (`ProbeHasLess`), so what it verified, that one verified too.
* `ConfirmedRoots` (`LedgerInv`): a nonce under way has been counted
  (`NoncesCounted`), a call that had returned when another was made has still
  returned (`BeforeHaveSettled`), and a mined publication stays on chain until one
  is mined that was not called before it (`MinedIsOnChain`).
* `RevocationsStay`, `AnswersOfTheCall` (`TreeInv`): a call's locals are of trees
  recorded during it (`Knows`), an inserted key stays in every later tree unless
  another insertion read the root before (`Inserted`, `Overlapped`). Paths are a
  `CHOOSE` over prefix lengths; `LeastNumber` (a non-empty set of naturals has a
  least element, from the well-foundedness that the library states without
  operator parameters) makes them lengths at which a key is alone (`PathEnds`), and
  `OpeningExcludes` is then the circuit's check.
* `ServicesTypes`.

**`MCToolchain_proofs`**

* `SuccessfulSetup`, `KeyPinsAgree`, `PinsStay` (`SetupInv`). Success speaks of the
  end of a command; the invariant says what is on disk at each step before it
  (`SetupStages`): from the check of the ptau's pin on, the key under construction
  is of the pinned ptau (`Made`), and from the exports on all three files are one
  key. `KeyPins` follows the second pin from the first, and `CopyIsFresh` says that
  the copy of the pins a command writes back is still the file's, which is where a
  second concurrent command would break it. They are stated for `Spec`, the set-up
  by itself; `SetupRunsAlone` makes them theorems of the run.
* `TemporaryFilesRemoved` (`ProverInv`): the native prover's files exist while its call
  is between the run and the reading only, and a call writes under its own name.
  `NativeProverReported` (`NativeInv`): from the first hash to the second, either the
  file and what the native prover read still are the key that was hashed (`NativeOK`),
  or a replacement is on record whose undoing sets `putBack`; if it is not undone, the
  second hash differs and the call throws.
* `PutBackKeysEscape` (`BenchInv`): `Traced` says what a use of another key leaves
  behind while nothing is put back: the live proving key is no longer the recorded one
  and, from the end of the verify phase on, neither is the verification key. The staged
  copy is of the recorded key throughout (`RunOK`), so the check of the rapidsnark
  proofs then fails. `BenchFiles` is the step of the environment: either it marks the
  run, or `Traced` survives it.
* `OverlapsFitTheBudget`, `CampaignKeepsItsResults` (`GuardInv`), both from
  `ChainsCounted`: whoever counts the processes while another command is up finds at
  least the chains above both. A command is cleared (`IsCleared`) from a count within
  its budget on; of two cleared ones the later has counted the chain of the earlier, and
  `BothFit` carries that to the measuring. Chains never shrink while a command is up,
  and a campaign's grow by a step whose own guard counts again. For the campaign's
  results, with chains of three: a command is through (`IsThrough`) from its count to
  its end, no two unforced ones are, and `OwnResults` follows the steps through the
  files they write.
* `PassIsHonest` (`AuditInv`), `CellsListedOnce` (`ReportInv`; `ListedOnce` is the
  lemma about the two conditions), `VerdictsAreEvidence` (`TrialInv`).
* `ToolchainTypes`, `AuthorsTextIsKept` (`ReconInv`): a document is `Plain` or has
  one block (`Blocked`), which `PlainPieces`, `BlockBefore`, `BlockAfter` and their
  converses carry through concatenation and cutting. The generator then finds the
  markers that are there (`BlockIsFound`), and puts a block of the same length in
  the old one's place or behind everything: `MirrorKeepsTexts`.

Only model-checked: liveness (`EveryCallSettles`, `RevocationTakesHold`,
`CallsComeBack`), since the prover has no fairness reasoning. The four violation
runs are counterexamples, and theirs to show.

## Not modelled

* Cryptography itself: hashes, signatures and proofs are ideal. The byte-level
  folding, canonical JSON and the trie's hashing are idealised. Injectivity of the
  byte fold is a matter of its 31-byte chunks and length prefix, too large for
  small alphabets to say anything.
* The helper process that signs and verifies, and the ML-KEM demo: they compute an
  answer from arguments and keep no state. Claims that are not integers (`BigInt`
  would throw).
* The RPC layer below "answers or fails"; a node that lies or reorganises.
* Timing, thermal probes and host metadata of the benchmarks; the wording of the
  tables, the supplementary package and the SHA-3 research report: formatting of
  files, without control worth checking.
* The ECDSA and token loops of the baseline: they compute and are timed.
* `setup/out/Groth16Verifier.sol`: generated pairing arithmetic.
* Two set-up commands at once (the Makefile runs them in turn), and a helper or
  prover that never returns. Two prover benchmarks at once, of which one restages the
  key of the other: the guard's overlaps are in `BenchGuard`, their files are not.
